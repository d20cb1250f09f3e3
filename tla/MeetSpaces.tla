----------------------------- MODULE MeetSpaces -----------------------------
(***************************************************************************)
(* The provisioning of managed Meet spaces (src/server/meet/provision.ts,  *)
(* space-store.ts, api.ts) over the accounts of MeetAccounts: requests of  *)
(* one process that may crash, a database whose writes may fail, and       *)
(* Google, where creating a space is not idempotent and answers are lost.  *)
(*                                                                         *)
(* An await is one step, except that configure's calls are one step: they  *)
(* only add, and are repeated as a whole.  The abort of a delegated        *)
(* request (assertCurrent) is one more way for its next await to fail.     *)
(***************************************************************************)
EXTENDS MeetAccounts, Integers

CONSTANTS Requests, NoRequest

VARIABLES
  job,       \* ensureSpace calls in flight
  active,    \* the records they work on
  made,      \* Google: how many spaces were created for a record
  member     \* Google: the accounts that host or co-host them

accounts == <<token, host, flow, refresh>>
google == <<made, member>>
vars == <<accounts, row, job, active, google>>

JobStages == {"row", "email", "access", "waiting", "hostEmail", "insert", "create",
              "save", "doubt", "configure", "finish"}

\* `grant` is the account of the access token, `email` and `hostEmail` are the
\* requester's and the host's addresses as they were read.
Jobs == [at: JobStages, record: Records, user: Users, optional: BOOLEAN,
         organizer: Users \cup {Nobody}, email: Subjects \cup {Nobody},
         grant: Subjects \cup {Nobody}, hostEmail: Subjects \cup {Nobody}]
ASSUME JobsAssumption == NoRequest \notin Jobs

At(q, stage) == job[q] # NoRequest /\ job[q].at = stage
Moves(q, stage) == job' = [job EXCEPT ![q].at = stage] /\ UNCHANGED active
Released(Q) == active \ {job[q].record : q \in Q}

\* The finally block.
Over(q) == job' = [job EXCEPT ![q] = NoRequest] /\ active' = Released({q})

----------------------------------------------------------------------------
(* One request *)

Free(r) == r \notin active

Ask(q, r, u, optional) ==
  /\ job[q] = NoRequest
  /\ Free(r)
  /\ r \notin Meetings => optional
  /\ active' = active \cup {r}
  /\ job' = [job EXCEPT ![q] =
       [at |-> "row", record |-> r, user |-> u, optional |-> optional,
        organizer |-> Nobody, email |-> Nobody, grant |-> Nobody, hostEmail |-> Nobody]]
  /\ UNCHANGED <<accounts, row, google>>

\* What is ready is answered at once; what may exist unnamed is refused.
GoesOn(r) == row[r] # NoRow => row[r].named /\ row[r].status # "ready"

\* Only the creator of a meeting's space may retry it.
MayRetry(q, r) ==
  row[r] # NoRow /\ r \in Meetings => row[r].creator = job[q].user

IsHost(u) == u # Nobody

\* The host is fixed at the first attempt; `h` is whom the booking is for.
ReadRow(q, h) ==
  /\ At(q, "row")
  /\ LET r == job[q].record
         u == IF row[r] = NoRow THEN HostFor(h) ELSE row[r].organizer
     IN /\ GoesOn(r) /\ MayRetry(q, r)
        /\ IsHost(u)
        /\ job' = [job EXCEPT ![q].at = "email", ![q].organizer = u]
  /\ UNCHANGED <<accounts, row, active, google>>

ReadEmail(q) ==
  /\ At(q, "email")
  /\ SubjectOf(job[q].user) # Nobody \/ job[q].optional
  /\ job' = [job EXCEPT ![q].at = "access", ![q].email = SubjectOf(job[q].user)]
  /\ UNCHANGED <<accounts, row, active, google>>

AskAccess(q) ==
  /\ At(q, "access")
  /\ Access(job[q].organizer)
  /\ Moves(q, "waiting")
  /\ UNCHANGED <<token, host, flow, row, google>>

Waiting(u) == {q \in Requests : At(q, "waiting") /\ job[q].organizer = u}

\* Mutant: an error reaches one of those who wait.
WakesOneOnError(u, s) ==
  IF s = Nobody
  THEN \E q \in Waiting(u) : Over(q)
  ELSE /\ job' = [q \in Requests |-> IF q \in Waiting(u)
            THEN [job[q] EXCEPT !.at = "hostEmail", !.grant = s] ELSE job[q]]
       /\ UNCHANGED active

\* The refresh settles: those who wait go on, or fail.
Wakes(u, s) ==
  IF s = Nobody
  THEN /\ job' = [q \in Requests |-> IF q \in Waiting(u) THEN NoRequest ELSE job[q]]
       /\ active' = Released(Waiting(u))
  ELSE /\ job' = [q \in Requests |-> IF q \in Waiting(u)
            THEN [job[q] EXCEPT !.at = "hostEmail", !.grant = s] ELSE job[q]]
       /\ UNCHANGED active

\* `row` is the one read at the start, which no one else may have changed.
ReadHostEmail(q) ==
  /\ At(q, "hostEmail")
  /\ LET u == job[q].organizer IN
       /\ SubjectOf(u) # Nobody
       /\ job' = [job EXCEPT ![q].hostEmail = SubjectOf(u),
            ![q].at = IF row[job[q].record] = NoRow THEN "insert" ELSE "configure"]
  /\ UNCHANGED <<accounts, row, active, google>>

\* The intent, with the host and the creator, under a primary key; the answer
\* of the database may be lost.
Insert(q) ==
  /\ At(q, "insert")
  /\ row[job[q].record] = NoRow
  /\ row' = [row EXCEPT ![job[q].record] =
       [organizer |-> job[q].organizer, creator |-> job[q].user,
        named |-> FALSE, status |-> "creating"]]
  /\ Moves(q, "create") \/ Over(q)
  /\ UNCHANGED <<accounts, google>>

\* Google creates the space, and its answer may be lost.
Create(q) ==
  /\ At(q, "create")
  /\ LET r == job[q].record IN
       /\ made' = [made EXCEPT ![r] = @ + 1]
       /\ member' = [member EXCEPT ![r] = {job[q].grant}]
  /\ Moves(q, "save") \/ Moves(q, "doubt")
  /\ UNCHANGED <<accounts, row>>

\* The request to Google, or the update of the row, fails without effect.
CreateFails(q) ==
  /\ At(q, "create") \/ At(q, "save")
  /\ Moves(q, "doubt")
  /\ UNCHANGED <<accounts, row, google>>

\* The row is read again next; it is the one just written.  If the answer to
\* the update is lost, a space that has its name is in doubt.
SaveName(q) ==
  /\ At(q, "save")
  /\ row' = [row EXCEPT ![job[q].record].named = TRUE,
                        ![job[q].record].status = "configuring"]
  /\ Moves(q, "configure") \/ Moves(q, "doubt")
  /\ UNCHANGED <<accounts, google>>

\* Mutant: a failed creation leaves no record.
Forgotten(r) == NoRow

InDoubt(r) == [row[r] EXCEPT !.status = "uncertain"]

Doubt(q) ==
  /\ At(q, "doubt")
  /\ row' = [row EXCEPT ![job[q].record] = InDoubt(job[q].record)]
  /\ Over(q)
  /\ UNCHANGED <<accounts, google>>

\* Mutant: a requester other than the host is not made a co-host.
NoCohost(q) == {}

\* The host needs no membership.
Cohost(q) == IF job[q].email = job[q].hostEmail THEN {} ELSE {job[q].email} \ {Nobody}

\* Moderation, transcription and the co-host; Google takes them from the
\* account that hosts the space.  The last answer may be lost.
Configure(q) ==
  /\ At(q, "configure")
  /\ row[job[q].record].named
  /\ job[q].grant \in member[job[q].record]
  /\ member' = [member EXCEPT ![job[q].record] = @ \cup Cohost(q)]
  /\ Moves(q, "finish") \/ Over(q)
  /\ UNCHANGED <<accounts, row, made>>

Finish(q) ==
  /\ At(q, "finish")
  /\ row' = [row EXCEPT ![job[q].record].status = "ready"]
  /\ Over(q)
  /\ UNCHANGED <<accounts, google>>

\* A refusal, or an await that fails, outside of the creation.
Fails(q) ==
  /\ job[q] # NoRequest
  /\ job[q].at \notin {"waiting", "create", "save"}
  /\ Over(q)
  /\ UNCHANGED <<accounts, row, google>>

----------------------------------------------------------------------------
(* The process, the accounts and the specification *)

\* What was in flight is gone; the states in the table stay.
Crash ==
  /\ job' = [q \in Requests |-> NoRequest]
  /\ active' = {}
  /\ refresh' = [u \in Users |-> NoRefresh]
  /\ flow' = [f \in Flows |->
       IF flow[f].at \in {"unused", "issued"} THEN flow[f] ELSE SpentFlow]
  /\ UNCHANGED <<token, host, row, google>>

AccountStep ==
  /\ \/ \E f \in Flows : FlowStep(f)
     \/ \E u \in Users : Expire(u) \/ ReadStale(u) \/ GoogleRefreshes(u)
  /\ UNCHANGED <<row, job, active, google>>

Settle(u, s) == Settles(u, s) /\ Wakes(u, s) /\ UNCHANGED <<row, google>>

\* The accounts an earlier run of the program may have left.
OldTokens == {t \in Tokens : t.offline \in {t.subject, Nobody}
                             /\ (t.organizer => t.offline = t.subject)
                             /\ (~t.organizer => t.fresh)}

Init ==
  /\ token \in [Users -> OldTokens \cup {NoToken}]
  /\ host \in [Hosts -> Users \cup {Nobody}]
  /\ \A h \in Hosts : host[h] # Nobody => MayHost(host[h])
  /\ flow = [f \in Flows |-> NoFlow]
  /\ refresh = [u \in Users |-> NoRefresh]
  /\ row = [r \in Records |-> NoRow]
  /\ job = [q \in Requests |-> NoRequest]
  /\ active = {}
  /\ made = [r \in Records |-> 0]
  /\ member = [r \in Records |-> {}]

JobStep(q) ==
  \/ \E h \in Hosts : ReadRow(q, h)
  \/ ReadEmail(q) \/ AskAccess(q) \/ ReadHostEmail(q)
  \/ Insert(q) \/ Create(q) \/ CreateFails(q) \/ SaveName(q) \/ Doubt(q)
  \/ Configure(q) \/ Finish(q) \/ Fails(q)

Next ==
  \/ \E q \in Requests :
       \/ \E r \in Records, u \in Users, o \in BOOLEAN : Ask(q, r, u, o)
       \/ JobStep(q)
  \/ \E u \in Users, s \in Subjects \cup {Nobody} : Settle(u, s)
  \/ AccountStep
  \/ Crash

Spec == Init /\ [][Next]_vars

----------------------------------------------------------------------------
(* Properties *)

TypeOK ==
  /\ token \in [Users -> Tokens \cup {NoToken}]
  /\ host \in [Hosts -> Users \cup {Nobody}]
  /\ flow \in [Flows -> FlowState]
  /\ refresh \in [Users -> Refreshes]
  /\ row \in [Records -> Rows \cup {NoRow}]
  /\ job \in [Requests -> Jobs \cup {NoRequest}]
  /\ \A q \in Requests :
       job[q] # NoRequest /\ job[q].at # "row" => job[q].organizer \in Users
  /\ active \subseteq Records
  /\ made \in [Records -> Nat]
  /\ member \in [Records -> SUBSET Subjects]

\* "Persist the intent before a non-idempotent request. A timeout must never
\* create again": whatever is lost, retried or restarted, Google is asked to
\* create at most one space for a record.
OneSpacePerRecord == \A r \in Records : made[r] <= 1

\* When a request marks its record ready, the address it read of its requester
\* hosts or co-hosts the space.  Excused are a requester without an address, and
\* one whose address was the host's when the access token was already another
\* account's: the host's account was replaced between the two reads.
ReadyForItsRequester ==
  [][\A q \in Requests : At(q, "finish") /\ Finish(q) =>
       \/ job[q].email \in member[job[q].record] \cup {Nobody}
       \/ job[q].email = job[q].hostEmail /\ job[q].grant # job[q].hostEmail]_vars

\* A record is worked on by one request at a time.
OneRequestPerRecord ==
  \A p, q \in Requests :
    p # q /\ job[p] # NoRequest /\ job[q] # NoRequest => job[p].record # job[q].record

\* No record stays locked after its request, and no request waits for a refresh
\* that has settled, however the requests that share it end.
NobodyWaitsInVain ==
  /\ active \subseteq {job[q].record : q \in {p \in Requests : job[p] # NoRequest}}
  /\ \A q \in Requests : At(q, "waiting") => refresh[job[q].organizer].at # "idle"

\* A stored refresh token is of the account the token names, and a token that
\* may host has one: no order of authorizations and refreshes mixes accounts.
AccountsAreNotMixed ==
  \A u \in Users : token[u] # NoToken =>
    /\ token[u].offline \in {token[u].subject, Nobody}
    /\ token[u].organizer => token[u].offline # Nobody

\* Whoever hosts has a token.
HostsHaveToken == \A h \in Hosts : host[h] # Nobody => token[host[h]] # NoToken

\* organizers.ts: "A representative's stored Google token carries organizer
\* scopes; a creator re-link must never replace it".
HostsMayHost == \A h \in Hosts : host[h] # Nobody => MayHost(host[h])

\* oauth.ts: "Never silently replace the Google identity after it has been
\* assigned to a meeting".
IdentityIsKept ==
  [][\A u \in Users : Linked(u) /\ SubjectOf(u) # Nobody =>
       token'[u].subject = token[u].subject]_vars
=============================================================================
