---------------------------- MODULE MeetAccounts ----------------------------
(***************************************************************************)
(* The Google accounts behind managed Meet spaces (src/server/meet/        *)
(* oauth.ts, tokens.ts, organizers.ts): the token Cernere keeps of a user, *)
(* the users that host spaces, the one-use states of authorizations in     *)
(* progress, and the refresh of a token that concurrent requests share.    *)
(*                                                                         *)
(* A Google account is its subject, and stands for its address as well.    *)
(* An await is one step; two reads of what the step's other reads cannot   *)
(* change are one.  What fails at an await ends the flow (Abandon).        *)
(***************************************************************************)
CONSTANTS
  Users, Admins,
  Subjects,    \* Google accounts
  Hosts,       \* whom a host stands for: Aedilis and organizations
  Aedilis,     \* meet_organizer; the others are meet_group_organizer
  Creator,     \* the mode of an authorization that names no host
  Fronts,      \* Aedilis' own page (Own) and the front ends that relay
  Own,
  Flows,       \* authorizations (bounds how many are started)
  Records,     \* what a Meet space belongs to
  Meetings,    \* records of meeting_meet; the others are meet_external_space
  Nobody, NoToken, NoRow

ASSUME AccountsAssumption ==
  /\ Admins \subseteq Users /\ Meetings \subseteq Records
  /\ Aedilis \in Hosts /\ Own \in Fronts /\ Creator \notin Hosts
  /\ Nobody \notin Users /\ Nobody \notin Subjects

VARIABLES
  token,     \* Cernere's google token of a user
  host,      \* who hosts for Aedilis or for an organization
  flow,      \* authorizations; "issued" is a row of meet_oauth_state
  refresh,   \* MeetTokens.refreshes
  row        \* meeting_meet and meet_external_space

\* `offline` is the account whose refresh token is kept.
Tokens == [subject: Subjects, offline: Subjects \cup {Nobody},
           organizer: BOOLEAN, fresh: BOOLEAN]
ASSUME TokensAssumption == NoToken \notin Tokens

Modes == Hosts \cup {Creator}
Stages == {"unused", "started", "cleared", "issued", "taken", "exchange",
           "old", "linked", "store", "save", "spent"}
FlowState == [at: Stages, user: Users \cup {Nobody}, mode: Modes, front: Fronts,
              subject: Subjects \cup {Nobody}, offline: Subjects \cup {Nobody},
              old: Subjects \cup {Nobody}]
NoFlow == [at |-> "unused", user |-> Nobody, mode |-> Creator, front |-> Own,
           subject |-> Nobody, offline |-> Nobody, old |-> Nobody]
SpentFlow == [NoFlow EXCEPT !.at = "spent"]

Refreshes == [at: {"idle", "read", "ask", "store"}, copy: Tokens \cup {NoToken}]
NoRefresh == [at |-> "idle", copy |-> NoToken]

Statuses == {"creating", "configuring", "ready", "uncertain"}
Rows == [organizer: Users, creator: Users, named: BOOLEAN, status: Statuses]
ASSUME RowsAssumption == NoRow \notin Rows

SubjectOf(u) == IF token[u] = NoToken THEN Nobody ELSE token[u].subject
IsAnyOrganizer(u) == \E h \in Hosts : host[h] = u

\* An organization's host, or else Aedilis' own.
HostFor(h) == IF host[h] # Nobody THEN host[h] ELSE host[Aedilis]

\* Meetings only: a front end's own events are not looked at.
Linked(u) == \E r \in Meetings : row[r] # NoRow /\ u \in {row[r].organizer, row[r].creator}

----------------------------------------------------------------------------
(* One authorization *)

Goes(f, stage) == flow' = [flow EXCEPT ![f].at = stage]
Ends(f) == flow' = [flow EXCEPT ![f] = SpentFlow]

\* The groups of a relayed request say who leads an organization; that is an
\* input of each request.  Refused at the end of a flow, it is Abandon.
Allowed(u, mode, front) ==
  \/ mode = Creator /\ ~IsAnyOrganizer(u)
  \/ mode = Aedilis /\ u \in Admins
  \/ mode \in Hosts \ {Aedilis} /\ front # Own

Start(f, u, mode, front) ==
  /\ flow[f].at = "unused"
  /\ Allowed(u, mode, front)
  /\ flow' = [flow EXCEPT ![f] =
       [NoFlow EXCEPT !.at = "started", !.user = u, !.mode = mode, !.front = front]]
  /\ UNCHANGED <<token, host, refresh>>

\* The user's earlier states are deleted ...
Clear(f) ==
  /\ flow[f].at = "started"
  /\ flow' = [g \in Flows |->
       CASE g = f -> [flow[f] EXCEPT !.at = "cleared"]
         [] flow[g].at = "issued" /\ flow[g].user = flow[f].user -> SpentFlow
         [] OTHER -> flow[g]]
  /\ UNCHANGED <<token, host, refresh>>

\* ... and the new one is stored.
Issue(f) ==
  /\ flow[f].at = "cleared"
  /\ Goes(f, "issued")
  /\ UNCHANGED <<token, host, refresh>>

\* The state comes back, through whichever front, and is used up.
Complete(f, front) ==
  /\ flow[f].at = "issued"
  /\ IF flow[f].front = front THEN Goes(f, "taken") ELSE Ends(f)
  /\ UNCHANGED <<token, host, refresh>>

Recheck(f) ==
  /\ flow[f].at = "taken"
  /\ Allowed(flow[f].user, flow[f].mode, flow[f].front)
  /\ Goes(f, "exchange")
  /\ UNCHANGED <<token, host, refresh>>

\* Google answers for the account the user chose, with or without a refresh token.
Exchange(f, s, offline) ==
  /\ flow[f].at = "exchange"
  /\ flow' = [flow EXCEPT ![f].at = "old", ![f].subject = s,
                          ![f].offline = IF offline THEN s ELSE Nobody]
  /\ UNCHANGED <<token, host, refresh>>

\* Mutant: the refresh token is kept, whichever account it is of.
AnyOffline(f, u) ==
  IF flow[f].offline = Nobody /\ token[u] # NoToken THEN token[u].offline
                                                    ELSE flow[f].offline

\* A refresh token that was not repeated is kept for the same account.
Offline(f, u) ==
  IF flow[f].offline = Nobody /\ SubjectOf(u) = flow[f].subject
  THEN token[u].offline ELSE flow[f].offline

ReadOld(f) ==
  /\ flow[f].at = "old"
  /\ LET u == flow[f].user IN
       /\ flow[f].mode \in Hosts => Offline(f, u) # Nobody
       /\ flow' = [flow EXCEPT ![f].at = "linked", ![f].old = SubjectOf(u),
                               ![f].offline = Offline(f, u)]
  /\ UNCHANGED <<token, host, refresh>>

CheckLinked(f) ==
  /\ flow[f].at = "linked"
  /\ Linked(flow[f].user) => flow[f].old = flow[f].subject
  /\ Goes(f, "store")
  /\ UNCHANGED <<token, host, refresh>>

Granted(f) == [subject |-> flow[f].subject, offline |-> flow[f].offline,
               organizer |-> flow[f].mode \in Hosts, fresh |-> TRUE]

\* Mutant: the host is saved although the store may have failed.
StoreUnchecked(f) ==
  /\ flow[f].at = "store"
  /\ token' \in {token, [token EXCEPT ![flow[f].user] = Granted(f)]}
  /\ IF flow[f].mode \in Hosts THEN Goes(f, "save") ELSE Ends(f)
  /\ UNCHANGED <<host, refresh>>

\* Cernere stores the token, and its answer may be lost.
Store(f) ==
  /\ flow[f].at = "store"
  /\ token' = [token EXCEPT ![flow[f].user] = Granted(f)]
  /\ \/ flow[f].mode \in Hosts /\ Goes(f, "save")
     \/ Ends(f)
  /\ UNCHANGED <<host, refresh>>

Save(f) ==
  /\ flow[f].at = "save"
  /\ host' = [host EXCEPT ![flow[f].mode] = flow[f].user]
  /\ Ends(f)
  /\ UNCHANGED <<token, refresh>>

\* An await that fails, a refusal, a state that expires, a request that ends.
Abandon(f) ==
  /\ flow[f].at \notin {"unused", "spent"}
  /\ Ends(f)
  /\ UNCHANGED <<token, host, refresh>>

FlowStep(f) ==
  \/ \E u \in Users, m \in Modes, o \in Fronts : Start(f, u, m, o)
  \/ Clear(f) \/ Issue(f)
  \/ \E o \in Fronts : Complete(f, o)
  \/ Recheck(f)
  \/ \E s \in Subjects, offline \in BOOLEAN : Exchange(f, s, offline)
  \/ ReadOld(f) \/ CheckLinked(f) \/ Store(f) \/ Save(f) \/ Abandon(f)

----------------------------------------------------------------------------
(* The tokens *)

MayHost(u) == token[u] # NoToken /\ token[u].organizer

\* expires_at is less than a minute away; only a host's token is asked for it.
Expire(u) ==
  /\ MayHost(u) /\ token[u].fresh
  /\ token' = [token EXCEPT ![u].fresh = FALSE]
  /\ UNCHANGED <<host, flow, refresh>>

\* access: one refresh of a user at a time, whoever asks.
Access(u) ==
  refresh' = IF refresh[u].at = "idle"
             THEN [refresh EXCEPT ![u].at = "read"] ELSE refresh

\* The token read is stale: its refresh token is sent to Google.
ReadStale(u) ==
  /\ refresh[u].at = "read"
  /\ MayHost(u) /\ ~token[u].fresh /\ token[u].offline # Nobody
  /\ refresh' = [refresh EXCEPT ![u] = [at |-> "ask", copy |-> token[u]]]
  /\ UNCHANGED <<token, host, flow>>

GoogleRefreshes(u) ==
  /\ refresh[u].at = "ask"
  /\ refresh' = [refresh EXCEPT ![u].at = "store"]
  /\ UNCHANGED <<token, host, flow>>

Renewed(u) == [token EXCEPT ![u] = [refresh[u].copy EXCEPT !.fresh = TRUE]]

\* The refresh settles for all who wait: with an access token of account s, or
\* with an error (Nobody), which a store whose answer was lost may be.
Settles(u, s) ==
  /\ refresh[u].at # "idle"
  /\ refresh' = [refresh EXCEPT ![u] = NoRefresh]
  /\ \/ s = Nobody /\ UNCHANGED token
     \/ /\ refresh[u].at = "read" /\ MayHost(u) /\ token[u].fresh
        /\ s = token[u].subject
        /\ UNCHANGED token
     \/ /\ refresh[u].at = "store"
        /\ s \in {refresh[u].copy.subject, Nobody}
        /\ token' = Renewed(u)
  /\ UNCHANGED <<host, flow>>
=============================================================================
