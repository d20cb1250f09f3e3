-------------------------- MODULE MeetSpacesProofs --------------------------
(***************************************************************************)
(* Google is asked for at most one space of a record, and accounts are not *)
(* mixed: for any number of users, requests, authorizations and records.   *)
(***************************************************************************)
EXTENDS MeetSpaces, TLAPS

GoodTokens == {t \in Tokens : /\ t.offline \in {t.subject, Nobody}
                              /\ t.organizer => t.offline # Nobody}

\* What an authorization knows at each stage.
GoodFlows == {x \in FlowState :
  /\ x.at \notin {"unused", "spent"} => x.user \in Users
  /\ x.at \in {"old", "linked", "store"} =>
       x.subject \in Subjects /\ x.offline \in {x.subject, Nobody}
  /\ x.at \in {"linked", "store"} /\ x.mode \in Hosts => x.offline # Nobody}

GoodRefreshes == {y \in Refreshes : y.at \in {"ask", "store"} => y.copy \in GoodTokens}

\* The token is there before the host is saved.
SavesHaveToken == \A f \in Flows : flow[f].at = "save" => token[flow[f].user] # NoToken

AccountsInvariant ==
  /\ token \in [Users -> GoodTokens \cup {NoToken}]
  /\ host \in [Hosts -> Users \cup {Nobody}]
  /\ flow \in [Flows -> GoodFlows]
  /\ refresh \in [Users -> GoodRefreshes]
  /\ SavesHaveToken
  /\ HostsHaveToken

LEMMA NoTokenIsNone == NoToken \notin GoodTokens
BY TokensAssumption DEF GoodTokens

LEMMA SpentIsGood == SpentFlow \in GoodFlows /\ NoFlow \in GoodFlows
BY AccountsAssumption DEF SpentFlow, NoFlow, FlowState, Stages, Modes, GoodFlows

LEMMA IdleIsGood == NoRefresh \in GoodRefreshes
BY DEF NoRefresh, Refreshes, GoodRefreshes

LEMMA SubjectTyped ==
  ASSUME AccountsInvariant, NEW u \in Users
  PROVE  /\ SubjectOf(u) \in Subjects \cup {Nobody}
         /\ SubjectOf(u) # Nobody => token[u] \in GoodTokens /\ SubjectOf(u) = token[u].subject
BY DEF AccountsInvariant, SubjectOf, GoodTokens, Tokens

----------------------------------------------------------------------------
(* One authorization *)

\* A flow goes on as a good one, and nothing else changes.
LEMMA FlowChanges ==
  ASSUME AccountsInvariant, NEW f \in Flows, NEW x \in GoodFlows,
         flow' = [flow EXCEPT ![f] = x], x.at # "save",
         UNCHANGED <<token, host, refresh>>
  PROVE  AccountsInvariant'
BY DEF AccountsInvariant, SavesHaveToken, HostsHaveToken

LEMMA FlowEnds ==
  ASSUME AccountsInvariant, NEW f \in Flows, Ends(f), UNCHANGED <<token, host, refresh>>
  PROVE  AccountsInvariant'
BY FlowChanges, SpentIsGood DEF Ends, SpentFlow, NoFlow

\* A stage that needs no more than the one before.
LEMMA FlowMoves ==
  ASSUME AccountsInvariant, NEW f \in Flows, NEW stage \in Stages,
         flow[f].at \notin {"unused", "spent"}, stage \notin {"old", "linked", "save"},
         stage = "store" => flow[f].at = "linked",
         Goes(f, stage), UNCHANGED <<token, host, refresh>>
  PROVE  AccountsInvariant'
<1> DEFINE x == [flow[f] EXCEPT !.at = stage]
<1>1. flow[f] \in GoodFlows
  BY DEF AccountsInvariant
<1>2. x \in GoodFlows /\ x.at # "save"
  BY <1>1 DEF GoodFlows, FlowState
<1>3. flow' = [flow EXCEPT ![f] = x]
  BY DEF Goes
<1> HIDE DEF x
<1> QED
  BY <1>2, <1>3, FlowChanges

LEMMA StartGood ==
  ASSUME AccountsInvariant, NEW f \in Flows, NEW u \in Users, NEW m \in Modes,
         NEW o \in Fronts, Start(f, u, m, o)
  PROVE  AccountsInvariant'
<1> DEFINE x == [NoFlow EXCEPT !.at = "started", !.user = u, !.mode = m, !.front = o]
<1>1. x \in GoodFlows /\ x.at # "save"
  BY AccountsAssumption DEF NoFlow, FlowState, GoodFlows, Stages, Modes
<1>2. flow' = [flow EXCEPT ![f] = x]
  BY DEF Start
<1> HIDE DEF x
<1> QED
  BY <1>1, <1>2, FlowChanges DEF Start

LEMMA ClearGood ==
  ASSUME AccountsInvariant, NEW f \in Flows, Clear(f)
  PROVE  AccountsInvariant'
<1> DEFINE x == [flow[f] EXCEPT !.at = "cleared"]
<1>1. flow[f] \in GoodFlows /\ flow[f].at = "started"
  BY DEF AccountsInvariant, Clear
<1>2. x \in GoodFlows /\ x.at # "save"
  BY <1>1 DEF GoodFlows, FlowState, Stages
<1>3. SpentFlow.at # "save"
  BY DEF SpentFlow, NoFlow
<1>4. \A g \in Flows : flow'[g] \in {x, SpentFlow, flow[g]}
  BY DEF Clear
<1>5. flow' \in [Flows -> GoodFlows]
  <2> HIDE DEF x
  <2>1. \A g \in Flows : flow'[g] \in GoodFlows
    BY <1>2, <1>4, SpentIsGood DEF AccountsInvariant
  <2>2. flow' = [g \in Flows |-> flow'[g]]
    BY DEF Clear
  <2> QED
    BY <2>1, <2>2
<1>6. SavesHaveToken'
  <2> HIDE DEF x
  <2> QED
    BY <1>2, <1>3, <1>4 DEF AccountsInvariant, SavesHaveToken, Clear
<1> QED
  BY <1>5, <1>6 DEF AccountsInvariant, HostsHaveToken, Clear

LEMMA ExchangeGood ==
  ASSUME AccountsInvariant, NEW f \in Flows, NEW s \in Subjects, NEW b \in BOOLEAN,
         Exchange(f, s, b)
  PROVE  AccountsInvariant'
<1> DEFINE x == [flow[f] EXCEPT !.at = "old", !.subject = s,
                                !.offline = IF b THEN s ELSE Nobody]
<1>1. flow[f] \in GoodFlows /\ flow[f].at = "exchange"
  BY DEF AccountsInvariant, Exchange
<1>2. x \in GoodFlows /\ x.at # "save"
  BY <1>1 DEF GoodFlows, FlowState, Stages
<1>3. flow' = [flow EXCEPT ![f] = x]
  BY DEF Exchange
<1> HIDE DEF x
<1> QED
  BY <1>2, <1>3, FlowChanges DEF Exchange

\* The kept refresh token is of the account Google answered for.
LEMMA OfflineIsOfSubject ==
  ASSUME AccountsInvariant, NEW f \in Flows, flow[f].at = "old"
  PROVE  Offline(f, flow[f].user) \in {flow[f].subject, Nobody}
<1>1. flow[f].user \in Users /\ flow[f].subject \in Subjects
      /\ flow[f].offline \in {flow[f].subject, Nobody}
  BY DEF AccountsInvariant, GoodFlows
<1>2. SubjectOf(flow[f].user) = flow[f].subject =>
        token[flow[f].user].offline \in {flow[f].subject, Nobody}
  BY <1>1, SubjectTyped, AccountsAssumption DEF GoodTokens
<1> QED
  BY <1>1, <1>2 DEF Offline

LEMMA ReadOldGood ==
  ASSUME AccountsInvariant, NEW f \in Flows, ReadOld(f)
  PROVE  AccountsInvariant'
<1> DEFINE u == flow[f].user
           off == Offline(f, u)
           old == SubjectOf(u)
           x == [flow[f] EXCEPT !.at = "linked", !.old = old, !.offline = off]
<1>1. flow[f] \in GoodFlows /\ flow[f].at = "old" /\ u \in Users
  BY DEF AccountsInvariant, ReadOld, GoodFlows
<1>2. off \in {flow[f].subject, Nobody}
  BY <1>1, OfflineIsOfSubject
<1>3. old \in Subjects \cup {Nobody}
  BY <1>1, SubjectTyped
<1>4. flow[f].mode \in Hosts => off # Nobody
  BY DEF ReadOld
<1>5. flow' = [flow EXCEPT ![f] = x] /\ UNCHANGED <<token, host, refresh>>
  BY DEF ReadOld
<1> HIDE DEF u, off, old
<1>6. x \in GoodFlows /\ x.at # "save"
  BY <1>1, <1>2, <1>3, <1>4 DEF GoodFlows, FlowState, Stages
<1> HIDE DEF x
<1> QED
  BY <1>5, <1>6, FlowChanges

LEMMA StoreGood ==
  ASSUME AccountsInvariant, NEW f \in Flows, Store(f)
  PROVE  AccountsInvariant'
<1> DEFINE u == flow[f].user
           t == Granted(f)
           x == [flow[f] EXCEPT !.at = "save"]
<1>1. flow[f] \in GoodFlows /\ flow[f].at = "store" /\ u \in Users
  BY DEF AccountsInvariant, Store, GoodFlows
<1>2. t \in GoodTokens
  <2> DEFINE s == flow[f].subject
             off == flow[f].offline
             hosts == flow[f].mode \in Hosts
  <2>1. s \in Subjects /\ off \in {s, Nobody}
    BY <1>1 DEF GoodFlows
  <2>2. hosts \in BOOLEAN
    OBVIOUS
  <2>3. hosts => off # Nobody
    BY <1>1 DEF GoodFlows
  <2>4. t = [subject |-> s, offline |-> off, organizer |-> hosts, fresh |-> TRUE]
    BY DEF Granted
  <2> HIDE DEF s, off, hosts, t
  <2>5. t \in Tokens
    BY <2>1, <2>2, <2>4 DEF Tokens
  <2>6. t.subject = s /\ t.offline = off /\ t.organizer = hosts
    BY <2>4
  <2> QED
    BY <2>1, <2>3, <2>5, <2>6 DEF GoodTokens
<1>3. t # NoToken
  BY <1>2, NoTokenIsNone
<1>4. token' = [token EXCEPT ![u] = t] /\ UNCHANGED <<host, refresh>>
  BY DEF Store
<1>5. x \in GoodFlows /\ x.user = u
  BY <1>1 DEF GoodFlows, FlowState, Stages
<1>6. flow' = [flow EXCEPT ![f] = x] \/ flow' = [flow EXCEPT ![f] = SpentFlow]
  BY DEF Store, Goes, Ends
<1>7. SpentFlow.at # "save"
  BY DEF SpentFlow, NoFlow
<1> HIDE DEF u, t, x
<1>8. token' \in [Users -> GoodTokens \cup {NoToken}]
  BY <1>2, <1>4 DEF AccountsInvariant
<1>9. \A v \in Users : token[v] # NoToken => token'[v] # NoToken
  <2>1. token \in [Users -> GoodTokens \cup {NoToken}]
    BY DEF AccountsInvariant
  <2> QED
    BY <1>3, <1>4, <2>1
<1>10. flow' \in [Flows -> GoodFlows]
  BY <1>5, <1>6, SpentIsGood DEF AccountsInvariant
<1>11. token'[u] # NoToken
  BY <1>1, <1>3, <1>4 DEF AccountsInvariant
<1>12. SavesHaveToken'
  <2>1. \A g \in Flows : flow[g].at = "save" => flow[g].user \in Users
    BY DEF AccountsInvariant, GoodFlows
  <2> QED
    BY <2>1, <1>5, <1>6, <1>7, <1>9, <1>11 DEF AccountsInvariant, SavesHaveToken
<1>13. HostsHaveToken'
  BY <1>4, <1>9 DEF AccountsInvariant, HostsHaveToken
<1> QED
  BY <1>4, <1>8, <1>10, <1>12, <1>13 DEF AccountsInvariant

LEMMA SaveGood ==
  ASSUME AccountsInvariant, NEW f \in Flows, Save(f)
  PROVE  AccountsInvariant'
<1>1. flow[f].user \in Users /\ token[flow[f].user] # NoToken
  BY DEF AccountsInvariant, SavesHaveToken, GoodFlows, Save
<1>2. host' \in [Hosts -> Users \cup {Nobody}]
  BY <1>1 DEF AccountsInvariant, Save
<1>3. HostsHaveToken'
  BY <1>1 DEF AccountsInvariant, HostsHaveToken, Save
<1>4. flow' \in [Flows -> GoodFlows] /\ SavesHaveToken'
  BY SpentIsGood DEF AccountsInvariant, SavesHaveToken, Save, Ends, SpentFlow, NoFlow
<1> QED
  BY <1>2, <1>3, <1>4 DEF AccountsInvariant, Save

LEMMA FlowStepGood ==
  ASSUME AccountsInvariant, NEW f \in Flows, FlowStep(f)
  PROVE  AccountsInvariant'
<1> USE DEF Stages
<1>1. CASE \E u \in Users, m \in Modes, o \in Fronts : Start(f, u, m, o)
  BY <1>1, StartGood
<1>2. CASE Clear(f)
  BY <1>2, ClearGood
<1>3. CASE Issue(f)
  BY <1>3, FlowMoves DEF Issue
<1>4. CASE \E o \in Fronts : Complete(f, o)
  <2> PICK o \in Fronts : Complete(f, o)
    BY <1>4
  <2>1. CASE flow[f].front = o
    BY <2>1, FlowMoves DEF Complete
  <2>2. CASE flow[f].front # o
    BY <2>2, FlowEnds DEF Complete
  <2> QED
    BY <2>1, <2>2
<1>5. CASE Recheck(f)
  BY <1>5, FlowMoves DEF Recheck
<1>6. CASE \E s \in Subjects, offline \in BOOLEAN : Exchange(f, s, offline)
  BY <1>6, ExchangeGood
<1>7. CASE ReadOld(f)
  BY <1>7, ReadOldGood
<1>8. CASE CheckLinked(f)
  BY <1>8, FlowMoves DEF CheckLinked
<1>9. CASE Store(f)
  BY <1>9, StoreGood
<1>10. CASE Save(f)
  BY <1>10, SaveGood
<1>11. CASE Abandon(f)
  BY <1>11, FlowEnds DEF Abandon
<1> QED
  BY <1>1, <1>2, <1>3, <1>4, <1>5, <1>6, <1>7, <1>8, <1>9, <1>10, <1>11 DEF FlowStep

----------------------------------------------------------------------------
(* The tokens *)

LEMMA TokenChanges ==
  ASSUME AccountsInvariant, NEW u \in Users, NEW t \in GoodTokens,
         token' = [token EXCEPT ![u] = t], UNCHANGED <<host, flow>>,
         refresh' \in [Users -> GoodRefreshes]
  PROVE  AccountsInvariant'
<1>1. token' \in [Users -> GoodTokens \cup {NoToken}]
  BY DEF AccountsInvariant
<1>2. \A v \in Users : token[v] # NoToken => token'[v] # NoToken
  BY NoTokenIsNone DEF AccountsInvariant
<1>3. \A f \in Flows : flow[f].at = "save" => flow[f].user \in Users
  BY DEF AccountsInvariant, GoodFlows
<1>4. SavesHaveToken'
  BY <1>2, <1>3 DEF AccountsInvariant, SavesHaveToken
<1>5. HostsHaveToken'
  BY <1>2 DEF AccountsInvariant, HostsHaveToken
<1> QED
  BY <1>1, <1>4, <1>5 DEF AccountsInvariant

LEMMA RefreshChanges ==
  ASSUME AccountsInvariant, NEW u \in Users, NEW y \in GoodRefreshes,
         refresh' = [refresh EXCEPT ![u] = y], UNCHANGED <<token, host, flow>>
  PROVE  AccountsInvariant'
BY DEF AccountsInvariant, SavesHaveToken, HostsHaveToken

LEMMA ExpireGood ==
  ASSUME AccountsInvariant, NEW u \in Users, Expire(u)
  PROVE  AccountsInvariant'
<1> DEFINE t == [token[u] EXCEPT !.fresh = FALSE]
<1>1. token[u] \in GoodTokens
  BY DEF AccountsInvariant, Expire, MayHost
<1>2. t \in GoodTokens
  BY <1>1 DEF GoodTokens, Tokens
<1>3. token' = [token EXCEPT ![u] = t] /\ UNCHANGED <<host, flow, refresh>>
  BY DEF Expire
<1> HIDE DEF t
<1> QED
  BY <1>2, <1>3, TokenChanges DEF AccountsInvariant

LEMMA AccessGood ==
  ASSUME AccountsInvariant, NEW u \in Users, Access(u), UNCHANGED <<token, host, flow>>
  PROVE  AccountsInvariant'
<1> DEFINE y == [refresh[u] EXCEPT !.at = "read"]
<1>1. refresh[u] \in GoodRefreshes
  BY DEF AccountsInvariant
<1>2. y \in GoodRefreshes
  BY <1>1 DEF GoodRefreshes, Refreshes
<1>3. refresh' = [refresh EXCEPT ![u] = y] \/ refresh' = refresh
  BY DEF Access
<1> HIDE DEF y
<1>4. CASE refresh' = [refresh EXCEPT ![u] = y]
  BY <1>2, <1>4, RefreshChanges
<1>5. CASE refresh' = refresh
  BY <1>5 DEF AccountsInvariant, SavesHaveToken, HostsHaveToken
<1> QED
  BY <1>3, <1>4, <1>5

LEMMA ReadStaleGood ==
  ASSUME AccountsInvariant, NEW u \in Users, ReadStale(u)
  PROVE  AccountsInvariant'
<1> DEFINE y == [at |-> "ask", copy |-> token[u]]
<1>1. token[u] \in GoodTokens
  BY DEF AccountsInvariant, ReadStale, MayHost
<1>2. y \in GoodRefreshes
  BY <1>1 DEF GoodRefreshes, Refreshes, GoodTokens
<1>3. refresh' = [refresh EXCEPT ![u] = y] /\ UNCHANGED <<token, host, flow>>
  BY DEF ReadStale
<1> HIDE DEF y
<1> QED
  BY <1>2, <1>3, RefreshChanges

LEMMA GoogleRefreshesGood ==
  ASSUME AccountsInvariant, NEW u \in Users, GoogleRefreshes(u)
  PROVE  AccountsInvariant'
<1> DEFINE y == [refresh[u] EXCEPT !.at = "store"]
<1>1. refresh[u] \in GoodRefreshes /\ refresh[u].at = "ask"
  BY DEF AccountsInvariant, GoogleRefreshes
<1>2. y \in GoodRefreshes
  BY <1>1 DEF GoodRefreshes, Refreshes
<1>3. refresh' = [refresh EXCEPT ![u] = y] /\ UNCHANGED <<token, host, flow>>
  BY DEF GoogleRefreshes
<1> HIDE DEF y
<1> QED
  BY <1>2, <1>3, RefreshChanges

\* The refresh stores the token it read, renewed: it is of one account still.
LEMMA SettlesGood ==
  ASSUME AccountsInvariant, NEW u \in Users, NEW s, Settles(u, s)
  PROVE  AccountsInvariant'
<1> DEFINE t == [refresh[u].copy EXCEPT !.fresh = TRUE]
<1>1. refresh' = [refresh EXCEPT ![u] = NoRefresh] /\ UNCHANGED <<host, flow>>
  BY DEF Settles
<1>2. refresh' \in [Users -> GoodRefreshes]
  BY <1>1, IdleIsGood DEF AccountsInvariant
<1>3. CASE UNCHANGED token
  BY <1>1, <1>3, IdleIsGood, RefreshChanges
<1>4. CASE refresh[u].at = "store" /\ token' = Renewed(u)
  <2>1. refresh[u].copy \in GoodTokens
    BY <1>4 DEF AccountsInvariant, GoodRefreshes
  <2>2. t \in GoodTokens
    BY <2>1 DEF GoodTokens, Tokens
  <2>3. token' = [token EXCEPT ![u] = t]
    BY <1>4 DEF Renewed
  <2> HIDE DEF t
  <2> QED
    BY <1>1, <1>2, <2>2, <2>3, TokenChanges
<1> QED
  BY <1>3, <1>4 DEF Settles

LEMMA CrashKeepsAccounts ==
  ASSUME AccountsInvariant, Crash
  PROVE  AccountsInvariant'
<1>1. SpentFlow.at # "save"
  BY DEF SpentFlow, NoFlow
<1>2. \A f \in Flows : flow'[f] \in {flow[f], SpentFlow}
  BY DEF Crash
<1>3. flow' \in [Flows -> GoodFlows]
  <2>1. \A f \in Flows : flow'[f] \in GoodFlows
    BY <1>2, SpentIsGood DEF AccountsInvariant
  <2>2. flow' = [f \in Flows |-> flow'[f]]
    BY DEF Crash
  <2> QED
    BY <2>1, <2>2
<1>4. SavesHaveToken'
  BY <1>1, <1>2 DEF AccountsInvariant, SavesHaveToken, Crash
<1>5. refresh' \in [Users -> GoodRefreshes]
  BY IdleIsGood DEF Crash
<1>6. UNCHANGED <<token, host>>
  BY DEF Crash
<1> QED
  BY <1>3, <1>4, <1>5, <1>6 DEF AccountsInvariant, HostsHaveToken

LEMMA InitAccounts == Init => AccountsInvariant
<1> SUFFICES ASSUME Init PROVE AccountsInvariant
  OBVIOUS
<1>1. OldTokens \subseteq GoodTokens
  <2> SUFFICES ASSUME NEW t \in OldTokens PROVE t \in GoodTokens
    OBVIOUS
  <2>1. t \in Tokens /\ t.subject \in Subjects
    BY DEF OldTokens, Tokens
  <2> QED
    BY <2>1, AccountsAssumption DEF OldTokens, GoodTokens
<1>2. token \in [Users -> GoodTokens \cup {NoToken}]
  BY <1>1 DEF Init
<1>3. flow \in [Flows -> GoodFlows] /\ refresh \in [Users -> GoodRefreshes]
  BY SpentIsGood, IdleIsGood DEF Init
<1>4. SavesHaveToken
  BY DEF Init, SavesHaveToken, NoFlow
<1>5. HostsHaveToken
  BY DEF Init, HostsHaveToken, MayHost
<1> QED
  BY <1>2, <1>3, <1>4, <1>5 DEF AccountsInvariant, Init

----------------------------------------------------------------------------
(* The requests *)

GoodJobs == {j \in Jobs :
  /\ j.at # "row" => j.organizer \in Users
  /\ j.at \in {"hostEmail", "insert", "create"} => j.grant \in Subjects}

\* From here on the record has a row.
Recorded == {"create", "save", "doubt", "configure", "finish"}

Busy(q) == job[q] # NoRequest

JobsInvariant ==
  /\ row \in [Records -> Rows \cup {NoRow}]
  /\ job \in [Requests -> GoodJobs \cup {NoRequest}]
  /\ made \in [Records -> Nat]
  /\ member \in [Records -> SUBSET Subjects]
  /\ \A q \in Requests : Busy(q) /\ job[q].at \in Recorded => row[job[q].record] # NoRow

\* A record whose space is about to be created has none, and one request does it.
CreationInvariant ==
  /\ OneSpacePerRecord
  /\ \A r \in Records : row[r] = NoRow => made[r] = 0
  /\ \A q \in Requests : At(q, "create") => made[job[q].record] = 0
  /\ \A p, q \in Requests :
       p # q /\ At(p, "create") /\ At(q, "create") => job[p].record # job[q].record

\* What is locked is what is worked on, by one request.
LockInvariant ==
  /\ active \subseteq Records
  /\ \A q \in Requests : Busy(q) => job[q].record \in active
  /\ OneRequestPerRecord
  /\ NobodyWaitsInVain

LEMMA NoRequestIsNone == NoRequest \notin GoodJobs
BY JobsAssumption DEF GoodJobs

LEMMA NoRowIsNone == NoRow \notin Rows
BY RowsAssumption

RowsGrow ==
  /\ row' \in [Records -> Rows \cup {NoRow}]
  /\ \A r \in Records : row[r] # NoRow => row'[r] # NoRow

\* A request that goes on with its record, as a good one.
Continues(q, j) ==
  /\ Busy(q) /\ j \in GoodJobs /\ j.record = job[q].record
  /\ job' = [job EXCEPT ![q] = j]
  /\ RowsGrow
  /\ j.at \in Recorded => row'[j.record] # NoRow
  /\ member' \in [Records -> SUBSET Subjects]

LEMMA ContinuesJobs ==
  ASSUME JobsInvariant, NEW q \in Requests, NEW j, Continues(q, j),
         made' \in [Records -> Nat]
  PROVE  JobsInvariant'
<1>1. job' \in [Requests -> GoodJobs \cup {NoRequest}]
  BY DEF JobsInvariant, Continues
<1>2. \A p \in Requests : job'[p] = IF p = q THEN j ELSE job[p]
  BY DEF JobsInvariant, Continues
<1>3. \A p \in Requests : Busy(p) => job[p].record \in Records
  BY DEF JobsInvariant, Busy, GoodJobs, Jobs
<1>4. ASSUME NEW p \in Requests, Busy(p)', job'[p].at \in Recorded
      PROVE  row'[job'[p].record] # NoRow
  <2>1. CASE p = q
    BY <1>2, <1>4, <2>1 DEF Continues
  <2>2. CASE p # q
    BY <1>2, <1>3, <1>4, <2>2 DEF Continues, RowsGrow, JobsInvariant, Busy
  <2> QED
    BY <2>1, <2>2
<1> QED
  BY <1>1, <1>4 DEF JobsInvariant, Continues, RowsGrow

\* No request comes to create a space.
LEMMA NoneComesToCreate ==
  ASSUME JobsInvariant, CreationInvariant, RowsGrow, UNCHANGED made,
         \A p \in Requests : At(p, "create")' =>
            At(p, "create") /\ job'[p].record = job[p].record
  PROVE  CreationInvariant'
BY DEF CreationInvariant, OneSpacePerRecord, RowsGrow

LEMMA ContinuesCreation ==
  ASSUME JobsInvariant, CreationInvariant, NEW q \in Requests, NEW j, Continues(q, j),
         j.at # "create", UNCHANGED made
  PROVE  CreationInvariant'
<1>1. \A p \in Requests : At(p, "create")' =>
            At(p, "create") /\ job'[p].record = job[p].record
  BY DEF Continues, At, JobsInvariant
<1> QED
  BY <1>1, NoneComesToCreate DEF Continues

LEMMA ContinuesLocks ==
  ASSUME JobsInvariant, LockInvariant, NEW q \in Requests, NEW j, Continues(q, j),
         UNCHANGED active,
         \A p \in Requests : At(p, "waiting")' => refresh'[job'[p].organizer].at # "idle"
  PROVE  LockInvariant'
<1>1. \A p \in Requests : (Busy(p)' <=> Busy(p)) /\ job'[p].record = job[p].record
  BY NoRequestIsNone DEF Continues, JobsInvariant, Busy
<1>2. OneRequestPerRecord'
  BY <1>1 DEF LockInvariant, OneRequestPerRecord, Busy
<1>3. active' \subseteq {job'[p].record : p \in {o \in Requests : job'[o] # NoRequest}}
  <2> SUFFICES ASSUME NEW r \in active
               PROVE  \E p \in Requests : job'[p] # NoRequest /\ r = job'[p].record
    BY Zenon
  <2>1. PICK p \in Requests : job[p] # NoRequest /\ r = job[p].record
    BY DEF LockInvariant, NobodyWaitsInVain
  <2> QED
    BY <1>1, <2>1 DEF Busy
<1> QED
  BY <1>1, <1>2, <1>3 DEF LockInvariant, NobodyWaitsInVain

SpacesInvariant ==
  AccountsInvariant /\ JobsInvariant /\ CreationInvariant /\ LockInvariant

LEMMA SameAccounts ==
  ASSUME AccountsInvariant, UNCHANGED accounts
  PROVE  AccountsInvariant'
BY DEF AccountsInvariant, SavesHaveToken, HostsHaveToken, accounts

LEMMA SameRows ==
  ASSUME JobsInvariant, UNCHANGED row
  PROVE  RowsGrow
BY DEF JobsInvariant, RowsGrow

\* A request goes on without creating a space or waiting for a token.
LEMMA RequestGoesOn ==
  ASSUME SpacesInvariant, NEW q \in Requests, NEW j, Continues(q, j),
         j.at \notin {"create", "waiting"}, UNCHANGED <<accounts, active, made>>
  PROVE  SpacesInvariant'
<1>1. \A p \in Requests : At(p, "waiting")' => At(p, "waiting") /\ job'[p] = job[p]
  BY DEF Continues, At, SpacesInvariant, JobsInvariant
<1>2. \A p \in Requests : At(p, "waiting")' => refresh'[job'[p].organizer].at # "idle"
  BY <1>1 DEF SpacesInvariant, LockInvariant, NobodyWaitsInVain, accounts
<1>3. JobsInvariant'
  BY ContinuesJobs DEF SpacesInvariant, JobsInvariant
<1>4. CreationInvariant'
  BY ContinuesCreation DEF SpacesInvariant
<1>5. LockInvariant'
  BY <1>2, ContinuesLocks DEF SpacesInvariant
<1> QED
  BY <1>3, <1>4, <1>5, SameAccounts DEF SpacesInvariant

\* Requests end, and release the records they worked on.
LEMMA RequestsEnd ==
  ASSUME JobsInvariant, CreationInvariant, LockInvariant, NEW Q \in SUBSET Requests,
         \A q \in Q : Busy(q),
         job' = [p \in Requests |-> IF p \in Q THEN NoRequest ELSE job[p]],
         active' = Released(Q), RowsGrow, UNCHANGED made,
         member' \in [Records -> SUBSET Subjects],
         \A p \in Requests \ Q : At(p, "waiting") => refresh'[job[p].organizer].at # "idle"
  PROVE  JobsInvariant' /\ CreationInvariant' /\ LockInvariant'
<1>1. \A p \in Requests : Busy(p)' => p \notin Q /\ Busy(p) /\ job'[p] = job[p]
  BY DEF Busy
<1>2. \A p \in Requests : Busy(p) => job[p].record \in Records
  BY DEF JobsInvariant, Busy, GoodJobs, Jobs
<1>3. JobsInvariant'
  <2>1. job' \in [Requests -> GoodJobs \cup {NoRequest}]
    BY DEF JobsInvariant
  <2>2. \A p \in Requests : Busy(p)' /\ job'[p].at \in Recorded => row'[job'[p].record] # NoRow
    BY <1>1, <1>2 DEF JobsInvariant, RowsGrow
  <2> QED
    BY <2>1, <2>2 DEF JobsInvariant, RowsGrow
<1>4. CreationInvariant'
  <2>1. \A p \in Requests : At(p, "create")' =>
            At(p, "create") /\ job'[p].record = job[p].record
    BY <1>1 DEF At, Busy
  <2> QED
    BY <2>1, NoneComesToCreate
<1>5. OneRequestPerRecord'
  BY <1>1 DEF LockInvariant, OneRequestPerRecord, Busy
<1>6. active' \subseteq Records
  BY DEF LockInvariant, Released
<1>7. ASSUME NEW p \in Requests, Busy(p)'
      PROVE  job'[p].record \in active'
  <2>1. job[p].record \in active
    BY <1>1, <1>7 DEF LockInvariant
  <2>2. \A q \in Q : job[p].record # job[q].record
    BY <1>1, <1>7 DEF LockInvariant, OneRequestPerRecord, Busy
  <2> QED
    BY <1>1, <1>7, <2>1, <2>2 DEF Released
<1>8. active' \subseteq {job'[p].record : p \in {o \in Requests : job'[o] # NoRequest}}
  <2> SUFFICES ASSUME NEW r \in active'
               PROVE  \E p \in Requests : job'[p] # NoRequest /\ r = job'[p].record
    OBVIOUS
  <2>1. r \in active /\ \A q \in Q : r # job[q].record
    BY DEF Released
  <2>2. PICK p \in Requests : job[p] # NoRequest /\ r = job[p].record
    BY <2>1 DEF LockInvariant, NobodyWaitsInVain
  <2> QED
    BY <2>1, <2>2
<1>9. \A p \in Requests : At(p, "waiting")' => refresh'[job'[p].organizer].at # "idle"
  BY <1>1 DEF At, Busy
<1> QED
  BY <1>3, <1>4, <1>5, <1>6, <1>7, <1>8, <1>9 DEF LockInvariant, NobodyWaitsInVain

LEMMA RequestEnds ==
  ASSUME SpacesInvariant, NEW q \in Requests, Busy(q), Over(q), RowsGrow,
         UNCHANGED <<accounts, made>>, member' \in [Records -> SUBSET Subjects]
  PROVE  SpacesInvariant'
<1>1. job' = [p \in Requests |-> IF p \in {q} THEN NoRequest ELSE job[p]]
  BY DEF Over, SpacesInvariant, JobsInvariant
<1>2. \A p \in Requests : At(p, "waiting") => refresh'[job[p].organizer].at # "idle"
  BY DEF SpacesInvariant, LockInvariant, NobodyWaitsInVain, accounts
<1>3. active' = Released({q}) /\ {q} \in SUBSET Requests /\ \A p \in {q} : Busy(p)
  BY DEF Over
<1>4. JobsInvariant' /\ CreationInvariant' /\ LockInvariant'
  BY <1>1, <1>2, <1>3, RequestsEnd DEF SpacesInvariant
<1> QED
  BY <1>4, SameAccounts DEF SpacesInvariant

----------------------------------------------------------------------------
(* The steps of a request *)

LEMMA BusyIsGood ==
  ASSUME JobsInvariant, NEW q \in Requests, Busy(q)
  PROVE  job[q] \in GoodJobs /\ job[q].record \in Records
BY DEF JobsInvariant, Busy, GoodJobs, Jobs

LEMMA AskKeeps ==
  ASSUME SpacesInvariant, NEW q \in Requests, NEW r \in Records, NEW u \in Users,
         NEW o \in BOOLEAN, Ask(q, r, u, o)
  PROVE  SpacesInvariant'
<1> DEFINE j == [at |-> "row", record |-> r, user |-> u, optional |-> o,
                 organizer |-> Nobody, email |-> Nobody, grant |-> Nobody,
                 hostEmail |-> Nobody]
<1>1. j \in GoodJobs /\ j.record = r /\ j.at = "row"
  BY DEF GoodJobs, Jobs, JobStages
<1>2. /\ job[q] = NoRequest /\ r \notin active /\ active' = active \cup {r}
      /\ job' = [job EXCEPT ![q] = j]
      /\ UNCHANGED <<accounts, row, google>>
  BY DEF Ask, Free
<1> HIDE DEF j
<1>3. job' \in [Requests -> GoodJobs \cup {NoRequest}]
  BY <1>1, <1>2 DEF SpacesInvariant, JobsInvariant
<1>4. \A p \in Requests : job'[p] = IF p = q THEN j ELSE job[p]
  BY <1>2 DEF SpacesInvariant, JobsInvariant
<1>5. JobsInvariant'
  BY <1>1, <1>2, <1>3, <1>4 DEF SpacesInvariant, JobsInvariant, Busy, Recorded, google
<1>6. CreationInvariant'
  <2>1. \A p \in Requests : At(p, "create")' =>
            At(p, "create") /\ job'[p].record = job[p].record
    BY <1>1, <1>4 DEF At
  <2> QED
    BY <1>2, <2>1, NoneComesToCreate, SameRows DEF SpacesInvariant, google
<1>7. LockInvariant'
  <2>1. \A p \in Requests : Busy(p) => job[p].record \in active /\ job[p].record # r
    BY <1>2 DEF SpacesInvariant, LockInvariant
  <2>2. \A p \in Requests : Busy(p)' => job'[p].record \in active'
    BY <1>1, <1>2, <1>4, <2>1 DEF Busy
  <2>3. OneRequestPerRecord'
    BY <1>1, <1>4, <2>1 DEF SpacesInvariant, LockInvariant, OneRequestPerRecord, Busy
  <2>4. active' \subseteq {job'[p].record : p \in {x \in Requests : job'[x] # NoRequest}}
    <3> SUFFICES ASSUME NEW s \in active'
                 PROVE  \E p \in Requests : job'[p] # NoRequest /\ s = job'[p].record
      OBVIOUS
    <3>1. CASE s = r
      BY <1>1, <1>4, <3>1, NoRequestIsNone
    <3>2. CASE s \in active
      <4>1. PICK p \in Requests : job[p] # NoRequest /\ s = job[p].record
        BY <3>2 DEF SpacesInvariant, LockInvariant, NobodyWaitsInVain
      <4>2. p # q
        BY <1>2, <4>1
      <4> QED
        BY <1>4, <4>1, <4>2
    <3> QED
      BY <1>2, <3>1, <3>2
  <2>5. \A p \in Requests : At(p, "waiting")' => refresh'[job'[p].organizer].at # "idle"
    BY <1>1, <1>2, <1>4 DEF SpacesInvariant, LockInvariant, NobodyWaitsInVain, At, accounts
  <2>6. active' \subseteq Records
    BY <1>2 DEF SpacesInvariant, LockInvariant
  <2> QED
    BY <2>2, <2>3, <2>4, <2>5, <2>6 DEF LockInvariant, NobodyWaitsInVain
<1>8. AccountsInvariant'
  BY <1>2, SameAccounts DEF SpacesInvariant
<1> QED
  BY <1>5, <1>6, <1>7, <1>8 DEF SpacesInvariant

LEMMA ReadRowKeeps ==
  ASSUME SpacesInvariant, NEW q \in Requests, NEW h \in Hosts, ReadRow(q, h)
  PROVE  SpacesInvariant'
<1> DEFINE r == job[q].record
           u == IF row[r] = NoRow THEN HostFor(h) ELSE row[r].organizer
           j == [job[q] EXCEPT !.at = "email", !.organizer = u]
<1>1. Busy(q) /\ job[q] \in GoodJobs /\ r \in Records
  BY BusyIsGood DEF SpacesInvariant, ReadRow, At, Busy
<1>2. u \in Users
  <2>1. u # Nobody
    BY DEF ReadRow, IsHost
  <2>2. HostFor(h) \in Users \cup {Nobody}
    BY AccountsAssumption DEF SpacesInvariant, AccountsInvariant, HostFor
  <2>3. row[r] # NoRow => row[r].organizer \in Users
    BY <1>1 DEF SpacesInvariant, JobsInvariant, Rows
  <2> QED
    BY <2>1, <2>2, <2>3
<1>3. job' = [job EXCEPT ![q] = j] /\ UNCHANGED <<accounts, row, active, google>>
  BY DEF ReadRow
<1> HIDE DEF u
<1>4. j \in GoodJobs /\ j.record = job[q].record /\ j.at = "email"
  BY <1>1, <1>2 DEF GoodJobs, Jobs, JobStages
<1> HIDE DEF j
<1>5. Continues(q, j)
  BY <1>1, <1>3, <1>4, SameRows
  DEF Continues, SpacesInvariant, JobsInvariant, Recorded, google
<1> QED
  BY <1>3, <1>4, <1>5, RequestGoesOn DEF google

LEMMA ReadEmailKeeps ==
  ASSUME SpacesInvariant, NEW q \in Requests, ReadEmail(q)
  PROVE  SpacesInvariant'
<1> DEFINE e == SubjectOf(job[q].user)
           j == [job[q] EXCEPT !.at = "access", !.email = e]
<1>1. Busy(q) /\ job[q] \in GoodJobs /\ job[q].user \in Users /\ job[q].at = "email"
  BY BusyIsGood DEF SpacesInvariant, ReadEmail, At, Busy, GoodJobs, Jobs
<1>2. e \in Subjects \cup {Nobody}
  BY <1>1, SubjectTyped DEF SpacesInvariant
<1>3. job' = [job EXCEPT ![q] = j] /\ UNCHANGED <<accounts, row, active, google>>
  BY DEF ReadEmail
<1> HIDE DEF e
<1>4. j \in GoodJobs /\ j.record = job[q].record /\ j.at = "access"
  BY <1>1, <1>2 DEF GoodJobs, Jobs, JobStages
<1> HIDE DEF j
<1>5. Continues(q, j)
  BY <1>1, <1>3, <1>4, SameRows
  DEF Continues, SpacesInvariant, JobsInvariant, Recorded, google
<1> QED
  BY <1>3, <1>4, <1>5, RequestGoesOn DEF google

LEMMA AskAccessKeeps ==
  ASSUME SpacesInvariant, NEW q \in Requests, AskAccess(q)
  PROVE  SpacesInvariant'
<1> DEFINE u == job[q].organizer
           j == [job[q] EXCEPT !.at = "waiting"]
<1>1. Busy(q) /\ job[q] \in GoodJobs /\ u \in Users
  BY BusyIsGood DEF SpacesInvariant, AskAccess, At, Busy, GoodJobs
<1>2. /\ job' = [job EXCEPT ![q] = j] /\ Access(u)
      /\ UNCHANGED <<token, host, flow, row, active, google>>
  BY DEF AskAccess, Moves
<1>3. j \in GoodJobs /\ j.record = job[q].record /\ j.organizer = u /\ j.at = "waiting"
  BY <1>1 DEF GoodJobs, Jobs, JobStages
<1> HIDE DEF u, j
<1>4. Continues(q, j)
  BY <1>1, <1>2, <1>3, SameRows
  DEF Continues, SpacesInvariant, JobsInvariant, Recorded, google
<1>5. refresh'[u].at # "idle"
        /\ \A v \in Users : refresh[v].at # "idle" => refresh'[v].at # "idle"
  BY <1>1, <1>2 DEF Access, SpacesInvariant, AccountsInvariant, GoodRefreshes, Refreshes
<1>6. \A p \in Requests : At(p, "waiting")' => refresh'[job'[p].organizer].at # "idle"
  <2> SUFFICES ASSUME NEW p \in Requests, At(p, "waiting")'
               PROVE  refresh'[job'[p].organizer].at # "idle"
    OBVIOUS
  <2>1. CASE p = q
    BY <1>2, <1>3, <1>5, <2>1 DEF SpacesInvariant, JobsInvariant
  <2>2. CASE p # q
    <3>1. job'[p] = job[p] /\ At(p, "waiting")
      BY <1>2, <2>2 DEF SpacesInvariant, JobsInvariant, At
    <3>2. job[p].organizer \in Users
      BY <3>1, BusyIsGood DEF SpacesInvariant, At, Busy, GoodJobs
    <3> QED
      BY <1>5, <3>1, <3>2 DEF SpacesInvariant, LockInvariant, NobodyWaitsInVain
  <2> QED
    BY <2>1, <2>2
<1>7. JobsInvariant'
  BY <1>2, <1>4, ContinuesJobs DEF SpacesInvariant, JobsInvariant, google
<1>8. CreationInvariant'
  BY <1>2, <1>3, <1>4, ContinuesCreation DEF SpacesInvariant, google
<1>9. LockInvariant'
  BY <1>2, <1>4, <1>6, ContinuesLocks DEF SpacesInvariant
<1>10. AccountsInvariant'
  BY <1>1, <1>2, AccessGood DEF SpacesInvariant
<1> QED
  BY <1>7, <1>8, <1>9, <1>10 DEF SpacesInvariant

LEMMA ReadHostEmailKeeps ==
  ASSUME SpacesInvariant, NEW q \in Requests, ReadHostEmail(q)
  PROVE  SpacesInvariant'
<1> DEFINE e == SubjectOf(job[q].organizer)
           a == IF row[job[q].record] = NoRow THEN "insert" ELSE "configure"
           j == [job[q] EXCEPT !.hostEmail = e, !.at = a]
<1>1. Busy(q) /\ job[q] \in GoodJobs /\ job[q].organizer \in Users /\ job[q].at = "hostEmail"
  BY BusyIsGood DEF SpacesInvariant, ReadHostEmail, At, Busy, GoodJobs
<1>2. e \in Subjects \cup {Nobody}
  BY <1>1, SubjectTyped DEF SpacesInvariant
<1>3. job' = [job EXCEPT ![q] = j] /\ UNCHANGED <<accounts, row, active, google>>
  BY DEF ReadHostEmail
<1>4. a \in {"insert", "configure"} /\ (a = "configure" => row[job[q].record] # NoRow)
  OBVIOUS
<1> HIDE DEF e, a
<1>5. j \in GoodJobs /\ j.record = job[q].record /\ j.at = a
  BY <1>1, <1>2, <1>4 DEF GoodJobs, Jobs, JobStages
<1> HIDE DEF j
<1>6. Continues(q, j)
  BY <1>1, <1>3, <1>4, <1>5, SameRows
  DEF Continues, SpacesInvariant, JobsInvariant, Recorded, google
<1> QED
  BY <1>3, <1>4, <1>5, <1>6, RequestGoesOn DEF google

\* The primary key: the record had no row, so no space and no other creation.
LEMMA InsertKeeps ==
  ASSUME SpacesInvariant, NEW q \in Requests, Insert(q)
  PROVE  SpacesInvariant'
<1> DEFINE r == job[q].record
           j == [job[q] EXCEPT !.at = "create"]
           v == [organizer |-> job[q].organizer, creator |-> job[q].user,
                 named |-> FALSE, status |-> "creating"]
<1>1. Busy(q) /\ job[q] \in GoodJobs /\ r \in Records /\ job[q].at = "insert"
  BY BusyIsGood DEF SpacesInvariant, Insert, At, Busy
<1>2. v \in Rows
  BY <1>1 DEF GoodJobs, Jobs, Rows, Statuses
<1>3. row[r] = NoRow /\ row' = [row EXCEPT ![r] = v] /\ UNCHANGED <<accounts, google>>
  BY DEF Insert
<1> HIDE DEF v
<1>4. RowsGrow /\ row'[r] # NoRow
  BY <1>1, <1>2, <1>3, NoRowIsNone DEF SpacesInvariant, JobsInvariant, RowsGrow
<1>5. CASE Over(q)
  BY <1>1, <1>3, <1>5, <1>4, RequestEnds DEF SpacesInvariant, JobsInvariant, google
<1>6. CASE Moves(q, "create")
  <2>1. /\ row[r] = NoRow /\ row' = [row EXCEPT ![r] = v]
        /\ job' = [job EXCEPT ![q] = j]
        /\ UNCHANGED <<accounts, active, google>>
    BY <1>3, <1>6 DEF Moves
  <2>2. j \in GoodJobs /\ j.record = r /\ j.at = "create"
    BY <1>1 DEF GoodJobs, Jobs, JobStages
  <2> HIDE DEF j
  <2>3. Continues(q, j)
    BY <1>1, <2>1, <2>2, <1>4 DEF Continues, SpacesInvariant, JobsInvariant, google
  <2>4. JobsInvariant'
    BY <2>1, <2>3, ContinuesJobs DEF SpacesInvariant, JobsInvariant, google
  <2>5. CreationInvariant'
    <3>1. \A p \in Requests : p # q => job'[p] = job[p]
      BY <2>1 DEF SpacesInvariant, JobsInvariant
    <3>2. job'[q] = j
      BY <2>1 DEF SpacesInvariant, JobsInvariant
    <3>3. \A p \in Requests : At(p, "create") => job[p].record # r
      BY <2>1 DEF SpacesInvariant, JobsInvariant, At, Busy, Recorded
    <3>4. made[r] = 0 /\ made' = made
      BY <1>1, <2>1 DEF SpacesInvariant, CreationInvariant, google
    <3>5. \A x \in Records : row'[x] = NoRow => made'[x] = 0
      BY <1>4, <3>4 DEF SpacesInvariant, CreationInvariant, RowsGrow
    <3>6. \A p \in Requests : At(p, "create")' => made'[job'[p].record] = 0
      BY <2>2, <3>1, <3>2, <3>4 DEF SpacesInvariant, CreationInvariant, At
    <3>7. \A p, o \in Requests :
             p # o /\ At(p, "create")' /\ At(o, "create")' => job'[p].record # job'[o].record
      BY <2>2, <3>1, <3>2, <3>3 DEF SpacesInvariant, CreationInvariant, At
    <3> QED
      BY <3>4, <3>5, <3>6, <3>7 DEF SpacesInvariant, CreationInvariant, OneSpacePerRecord
  <2>6. LockInvariant'
    <3>1. \A p \in Requests : At(p, "waiting")' => At(p, "waiting") /\ job'[p] = job[p]
      BY <2>1, <2>2 DEF At, SpacesInvariant, JobsInvariant
    <3>2. \A p \in Requests : At(p, "waiting")' => refresh'[job'[p].organizer].at # "idle"
      BY <2>1, <3>1 DEF SpacesInvariant, LockInvariant, NobodyWaitsInVain, accounts
    <3> QED
      BY <2>1, <2>3, <3>2, ContinuesLocks DEF SpacesInvariant
  <2> QED
    BY <2>1, <2>4, <2>5, <2>6, SameAccounts DEF SpacesInvariant
<1> QED
  BY <1>5, <1>6 DEF Insert

\* The one step that asks Google for a space.
LEMMA CreateKeeps ==
  ASSUME SpacesInvariant, NEW q \in Requests, Create(q)
  PROVE  SpacesInvariant'
<1>1. PICK a \in {"save", "doubt"} : Moves(q, a)
  BY DEF Create
<1> DEFINE r == job[q].record
           g == job[q].grant
           j == [job[q] EXCEPT !.at = a]
<1>2. Busy(q) /\ job[q] \in GoodJobs /\ r \in Records /\ job[q].at = "create"
  BY BusyIsGood DEF SpacesInvariant, Create, At, Busy
<1>3. g \in Subjects /\ row[r] # NoRow
  BY <1>2 DEF GoodJobs, SpacesInvariant, JobsInvariant, Recorded
<1>4. /\ made' = [made EXCEPT ![r] = @ + 1] /\ member' = [member EXCEPT ![r] = {g}]
      /\ job' = [job EXCEPT ![q] = j]
      /\ UNCHANGED <<accounts, row, active>>
  BY <1>1 DEF Create, Moves
<1>5. j \in GoodJobs /\ j.record = r /\ j.at = a
  BY <1>2 DEF GoodJobs, Jobs, JobStages
<1> HIDE DEF j, g
<1>6. member' \in [Records -> SUBSET Subjects] /\ made' \in [Records -> Nat]
  BY <1>2, <1>3, <1>4 DEF SpacesInvariant, JobsInvariant
<1>7. Continues(q, j)
  BY <1>2, <1>3, <1>4, <1>5, <1>6, SameRows DEF Continues, SpacesInvariant
<1>8. JobsInvariant'
  BY <1>6, <1>7, ContinuesJobs DEF SpacesInvariant
<1>9. CreationInvariant'
  <2>1. \A p \in Requests : At(p, "create")' =>
            p # q /\ At(p, "create") /\ job'[p].record = job[p].record
    BY <1>4, <1>5 DEF At, SpacesInvariant, JobsInvariant
  <2>2. \A p \in Requests : At(p, "create")' => job[p].record # r
    BY <1>2, <2>1 DEF SpacesInvariant, CreationInvariant, At, Busy
  <2>3. made[r] = 0
    BY <1>2 DEF SpacesInvariant, CreationInvariant, At, Busy
  <2>4. \A x \in Records : made'[x] = IF x = r THEN 1 ELSE made[x]
    BY <1>4, <2>3 DEF SpacesInvariant, JobsInvariant
  <2>5. OneSpacePerRecord'
    BY <2>4 DEF SpacesInvariant, CreationInvariant, OneSpacePerRecord
  <2>6. \A x \in Records : row'[x] = NoRow => made'[x] = 0
    BY <1>3, <1>4, <2>4 DEF SpacesInvariant, CreationInvariant
  <2>7. \A p \in Requests : At(p, "create") => job[p].record \in Records
    BY BusyIsGood DEF SpacesInvariant, At, Busy
  <2>8. \A p \in Requests : At(p, "create")' => made'[job'[p].record] = 0
    BY <2>1, <2>2, <2>4, <2>7 DEF SpacesInvariant, CreationInvariant
  <2>9. \A p, o \in Requests :
           p # o /\ At(p, "create")' /\ At(o, "create")' => job'[p].record # job'[o].record
    BY <2>1 DEF SpacesInvariant, CreationInvariant
  <2> QED
    BY <2>5, <2>6, <2>8, <2>9 DEF CreationInvariant
<1>10. LockInvariant'
  <2>1. \A p \in Requests : At(p, "waiting")' => At(p, "waiting") /\ job'[p] = job[p]
    BY <1>4, <1>5 DEF At, SpacesInvariant, JobsInvariant
  <2>2. \A p \in Requests : At(p, "waiting")' => refresh'[job'[p].organizer].at # "idle"
    BY <1>4, <2>1 DEF SpacesInvariant, LockInvariant, NobodyWaitsInVain, accounts
  <2> QED
    BY <1>4, <1>7, <2>2, ContinuesLocks DEF SpacesInvariant
<1> QED
  BY <1>4, <1>8, <1>9, <1>10, SameAccounts DEF SpacesInvariant

LEMMA CreateFailsKeeps ==
  ASSUME SpacesInvariant, NEW q \in Requests, CreateFails(q)
  PROVE  SpacesInvariant'
<1> DEFINE j == [job[q] EXCEPT !.at = "doubt"]
<1>1. Busy(q) /\ job[q] \in GoodJobs /\ job[q].at \in {"create", "save"}
  BY BusyIsGood DEF SpacesInvariant, CreateFails, At, Busy
<1>2. row[job[q].record] # NoRow
  BY <1>1 DEF SpacesInvariant, JobsInvariant, Recorded
<1>3. job' = [job EXCEPT ![q] = j] /\ UNCHANGED <<accounts, row, active, google>>
  BY DEF CreateFails, Moves
<1>4. j \in GoodJobs /\ j.record = job[q].record /\ j.at = "doubt"
  BY <1>1 DEF GoodJobs, Jobs, JobStages
<1> HIDE DEF j
<1>5. Continues(q, j)
  BY <1>1, <1>2, <1>3, <1>4, SameRows DEF Continues, SpacesInvariant, JobsInvariant, google
<1> QED
  BY <1>3, <1>4, <1>5, RequestGoesOn DEF google

\* A row that is written again stays one.
LEMMA RowWritten ==
  ASSUME JobsInvariant, NEW r \in Records, NEW v \in Rows, row' = [row EXCEPT ![r] = v]
  PROVE  RowsGrow /\ row'[r] # NoRow
BY NoRowIsNone DEF JobsInvariant, RowsGrow

LEMMA RowOf ==
  ASSUME JobsInvariant, NEW q \in Requests, Busy(q), job[q].at \in Recorded
  PROVE  job[q].record \in Records /\ row[job[q].record] \in Rows
BY BusyIsGood DEF JobsInvariant

LEMMA SaveNameKeeps ==
  ASSUME SpacesInvariant, NEW q \in Requests, SaveName(q)
  PROVE  SpacesInvariant'
<1>0. PICK a \in {"configure", "doubt"} : Moves(q, a)
  BY DEF SaveName
<1> DEFINE r == job[q].record
           v == [row[r] EXCEPT !.named = TRUE, !.status = "configuring"]
           j == [job[q] EXCEPT !.at = a]
<1>1. Busy(q) /\ job[q] \in GoodJobs /\ job[q].at = "save"
  BY BusyIsGood DEF SpacesInvariant, SaveName, At, Busy
<1>2. r \in Records /\ row[r] \in Rows
  BY <1>1, RowOf DEF SpacesInvariant, Recorded
<1>3. v \in Rows
  BY <1>2 DEF Rows, Statuses
<1>4. /\ row' = [row EXCEPT ![r] = v] /\ job' = [job EXCEPT ![q] = j]
      /\ UNCHANGED <<accounts, active, google>>
  BY <1>0 DEF SaveName, Moves
<1>5. j \in GoodJobs /\ j.record = r /\ j.at = a
  BY <1>1 DEF GoodJobs, Jobs, JobStages
<1> HIDE DEF v, j
<1>6. RowsGrow /\ row'[r] # NoRow
  BY <1>2, <1>3, <1>4, RowWritten DEF SpacesInvariant
<1>7. Continues(q, j)
  BY <1>1, <1>4, <1>5, <1>6 DEF Continues, SpacesInvariant, JobsInvariant, google
<1> QED
  BY <1>4, <1>5, <1>7, RequestGoesOn DEF google

LEMMA DoubtKeeps ==
  ASSUME SpacesInvariant, NEW q \in Requests, Doubt(q)
  PROVE  SpacesInvariant'
<1> DEFINE r == job[q].record
           v == [row[r] EXCEPT !.status = "uncertain"]
<1>1. Busy(q) /\ job[q].at = "doubt"
  BY DEF Doubt, At, Busy
<1>2. r \in Records /\ row[r] \in Rows
  BY <1>1, RowOf DEF SpacesInvariant, Recorded
<1>3. v \in Rows
  BY <1>2 DEF Rows, Statuses
<1>4. row' = [row EXCEPT ![r] = v] /\ Over(q) /\ UNCHANGED <<accounts, google>>
  BY DEF Doubt, InDoubt
<1> HIDE DEF v
<1>5. RowsGrow
  BY <1>2, <1>3, <1>4, RowWritten DEF SpacesInvariant
<1> QED
  BY <1>1, <1>4, <1>5, RequestEnds DEF SpacesInvariant, JobsInvariant, google

LEMMA ConfigureKeeps ==
  ASSUME SpacesInvariant, NEW q \in Requests, Configure(q)
  PROVE  SpacesInvariant'
<1> DEFINE r == job[q].record
           j == [job[q] EXCEPT !.at = "finish"]
<1>1. Busy(q) /\ job[q] \in GoodJobs /\ job[q].at = "configure" /\ r \in Records
  BY BusyIsGood DEF SpacesInvariant, Configure, At, Busy
<1>2. Cohost(q) \subseteq Subjects
  BY <1>1 DEF GoodJobs, Jobs, Cohost
<1>3. member' \in [Records -> SUBSET Subjects] /\ UNCHANGED <<accounts, row, made>>
  BY <1>1, <1>2 DEF Configure, SpacesInvariant, JobsInvariant
<1>4. CASE Moves(q, "finish")
  <2>1. job' = [job EXCEPT ![q] = j] /\ UNCHANGED active
    BY <1>4 DEF Moves
  <2>2. j \in GoodJobs /\ j.record = r /\ j.at = "finish"
    BY <1>1 DEF GoodJobs, Jobs, JobStages
  <2>3. row[r] # NoRow
    BY <1>1 DEF SpacesInvariant, JobsInvariant, Recorded
  <2> HIDE DEF j
  <2>4. Continues(q, j)
    BY <1>1, <1>3, <2>1, <2>2, <2>3, SameRows DEF Continues, SpacesInvariant
  <2> QED
    BY <1>3, <2>1, <2>2, <2>4, RequestGoesOn
<1>5. CASE Over(q)
  BY <1>1, <1>3, <1>5, RequestEnds, SameRows DEF SpacesInvariant
<1> QED
  BY <1>4, <1>5 DEF Configure

LEMMA FinishKeeps ==
  ASSUME SpacesInvariant, NEW q \in Requests, Finish(q)
  PROVE  SpacesInvariant'
<1> DEFINE r == job[q].record
           v == [row[r] EXCEPT !.status = "ready"]
<1>1. Busy(q) /\ job[q].at = "finish"
  BY DEF Finish, At, Busy
<1>2. r \in Records /\ row[r] \in Rows
  BY <1>1, RowOf DEF SpacesInvariant, Recorded
<1>3. v \in Rows
  BY <1>2 DEF Rows, Statuses
<1>4. row' = [row EXCEPT ![r] = v] /\ Over(q) /\ UNCHANGED <<accounts, google>>
  BY DEF Finish
<1> HIDE DEF v
<1>5. RowsGrow
  BY <1>2, <1>3, <1>4, RowWritten DEF SpacesInvariant
<1> QED
  BY <1>1, <1>4, <1>5, RequestEnds DEF SpacesInvariant, JobsInvariant, google

LEMMA FailsKeeps ==
  ASSUME SpacesInvariant, NEW q \in Requests, Fails(q)
  PROVE  SpacesInvariant'
<1>1. Busy(q) /\ Over(q) /\ UNCHANGED <<accounts, row, google>>
  BY DEF Fails, Busy
<1> QED
  BY <1>1, RequestEnds, SameRows DEF SpacesInvariant, JobsInvariant, google

LEMMA JobStepKeeps ==
  ASSUME SpacesInvariant, NEW q \in Requests, JobStep(q)
  PROVE  SpacesInvariant'
BY ReadRowKeeps, ReadEmailKeeps, AskAccessKeeps, ReadHostEmailKeeps, InsertKeeps,
   CreateKeeps, CreateFailsKeeps, SaveNameKeeps, DoubtKeeps, ConfigureKeeps,
   FinishKeeps, FailsKeeps
DEF JobStep

----------------------------------------------------------------------------
(* The steps of the accounts, and a crash *)

\* A refresh in progress goes on being one, and no request is touched.
LEMMA AccountsMove ==
  ASSUME SpacesInvariant, AccountsInvariant', UNCHANGED <<row, job, active, google>>,
         \A v \in Users : refresh[v].at # "idle" => refresh'[v].at # "idle"
  PROVE  SpacesInvariant'
<1>1. JobsInvariant'
  BY DEF SpacesInvariant, JobsInvariant, Busy, google
<1>2. CreationInvariant'
  BY DEF SpacesInvariant, CreationInvariant, OneSpacePerRecord, At, google
<1>3. \A p \in Requests : At(p, "waiting")' => refresh'[job'[p].organizer].at # "idle"
  <2>1. \A p \in Requests : At(p, "waiting") => job[p].organizer \in Users
    BY BusyIsGood DEF SpacesInvariant, At, Busy, GoodJobs
  <2> QED
    BY <2>1 DEF SpacesInvariant, LockInvariant, NobodyWaitsInVain, At
<1>4. LockInvariant'
  BY <1>3 DEF SpacesInvariant, LockInvariant, OneRequestPerRecord, NobodyWaitsInVain, Busy
<1> QED
  BY <1>1, <1>2, <1>4 DEF SpacesInvariant

LEMMA AccountStepKeeps ==
  ASSUME SpacesInvariant, AccountStep
  PROVE  SpacesInvariant'
<1>0. AccountsInvariant /\ UNCHANGED <<row, job, active, google>>
  BY DEF SpacesInvariant, AccountStep
<1>1. CASE \E f \in Flows : FlowStep(f)
  <2> PICK f \in Flows : FlowStep(f)
    BY <1>1
  <2>1. UNCHANGED refresh
    BY DEF FlowStep, Start, Clear, Issue, Complete, Recheck, Exchange, ReadOld,
           CheckLinked, Store, Save, Abandon
  <2> QED
    BY <1>0, <2>1, FlowStepGood, AccountsMove
<1>2. ASSUME NEW u \in Users, Expire(u)
      PROVE  SpacesInvariant'
  BY <1>0, <1>2, ExpireGood, AccountsMove DEF Expire
<1>3. ASSUME NEW u \in Users, ReadStale(u)
      PROVE  SpacesInvariant'
  <2>1. refresh' = [refresh EXCEPT ![u] = [at |-> "ask", copy |-> token[u]]]
    BY <1>3 DEF ReadStale
  <2>2. \A v \in Users : refresh[v].at # "idle" => refresh'[v].at # "idle"
    BY <2>1 DEF SpacesInvariant, AccountsInvariant
  <2> QED
    BY <1>0, <1>3, <2>2, ReadStaleGood, AccountsMove
<1>4. ASSUME NEW u \in Users, GoogleRefreshes(u)
      PROVE  SpacesInvariant'
  <2>1. refresh' = [refresh EXCEPT ![u].at = "store"]
    BY <1>4 DEF GoogleRefreshes
  <2>2. \A v \in Users : refresh[v].at # "idle" => refresh'[v].at # "idle"
    BY <2>1 DEF SpacesInvariant, AccountsInvariant, GoodRefreshes, Refreshes
  <2> QED
    BY <1>0, <1>4, <2>2, GoogleRefreshesGood, AccountsMove
<1> QED
  BY <1>1, <1>2, <1>3, <1>4 DEF AccountStep

\* The refreshes of others go on when one settles, and no one waits for that one.
LEMMA SettleKeeps ==
  ASSUME SpacesInvariant, NEW u \in Users, NEW s \in Subjects \cup {Nobody}, Settle(u, s)
  PROVE  SpacesInvariant'
<1>1. AccountsInvariant'
  BY SettlesGood DEF SpacesInvariant, Settle
<1>2. /\ refresh' = [refresh EXCEPT ![u] = NoRefresh]
      /\ UNCHANGED <<row, google>>
  BY DEF Settle, Settles
<1>3. \A v \in Users : v # u => refresh'[v] = refresh[v]
  BY <1>2 DEF SpacesInvariant, AccountsInvariant
<1>4. \A p \in Requests : At(p, "waiting") /\ p \notin Waiting(u) =>
         refresh'[job[p].organizer].at # "idle"
  <2>1. \A p \in Requests : At(p, "waiting") => job[p].organizer \in Users
    BY BusyIsGood DEF SpacesInvariant, At, Busy, GoodJobs
  <2> QED
    BY <1>3, <2>1 DEF SpacesInvariant, LockInvariant, NobodyWaitsInVain, Waiting
<1>5. RowsGrow /\ member' \in [Records -> SUBSET Subjects] /\ UNCHANGED made
  BY <1>2, SameRows DEF SpacesInvariant, JobsInvariant, google
<1>6. CASE s = Nobody
  <2>1. /\ job' = [q \in Requests |-> IF q \in Waiting(u) THEN NoRequest ELSE job[q]]
        /\ active' = Released(Waiting(u))
    BY <1>6 DEF Settle, Wakes
  <2>2. Waiting(u) \in SUBSET Requests /\ \A q \in Waiting(u) : Busy(q)
    BY DEF Waiting, At, Busy
  <2>3. \A p \in Requests \ Waiting(u) :
           At(p, "waiting") => refresh'[job[p].organizer].at # "idle"
    BY <1>4
  <2>4. JobsInvariant' /\ CreationInvariant' /\ LockInvariant'
    BY <1>5, <2>1, <2>2, <2>3, RequestsEnd DEF SpacesInvariant
  <2> QED
    BY <1>1, <2>4 DEF SpacesInvariant
<1>7. CASE s # Nobody
  <2> DEFINE Awake(q) == [job[q] EXCEPT !.at = "hostEmail", !.grant = s]
  <2>1. /\ job' = [q \in Requests |-> IF q \in Waiting(u) THEN Awake(q) ELSE job[q]]
        /\ UNCHANGED active
    BY <1>7 DEF Settle, Wakes
  <2>2. \A q \in Waiting(u) : q \in Requests /\ Busy(q) /\ job[q] \in GoodJobs
    BY BusyIsGood DEF Waiting, At, Busy, SpacesInvariant
  <2>3. \A q \in Waiting(u) :
           /\ Awake(q) \in GoodJobs
           /\ Awake(q).record = job[q].record
           /\ Awake(q).at = "hostEmail"
    <3> SUFFICES ASSUME NEW q \in Waiting(u)
                 PROVE  /\ Awake(q) \in GoodJobs
                        /\ Awake(q).record = job[q].record
                        /\ Awake(q).at = "hostEmail"
      OBVIOUS
    <3>1. job[q] \in GoodJobs /\ job[q].at = "waiting"
      BY <2>2 DEF Waiting, At
    <3> QED
      BY <1>7, <3>1 DEF GoodJobs, Jobs, JobStages
  <2> HIDE DEF Awake
  <2>4. \A q \in Requests :
           /\ Busy(q)' <=> Busy(q)
           /\ Busy(q) => job'[q].record = job[q].record
           /\ q \in Waiting(u) => job'[q].at = "hostEmail"
           /\ q \notin Waiting(u) => job'[q] = job[q]
    BY <2>1, <2>2, <2>3, NoRequestIsNone DEF Busy
  <2>5. JobsInvariant'
    <3>1. job' \in [Requests -> GoodJobs \cup {NoRequest}]
      BY <2>1, <2>3 DEF SpacesInvariant, JobsInvariant
    <3>2. \A q \in Requests : Busy(q)' /\ job'[q].at \in Recorded => row'[job'[q].record] # NoRow
      BY <1>2, <2>4 DEF SpacesInvariant, JobsInvariant, Recorded
    <3> QED
      BY <1>5, <3>1, <3>2 DEF SpacesInvariant, JobsInvariant, RowsGrow
  <2>6. CreationInvariant'
    <3>1. \A p \in Requests : At(p, "create")' =>
              At(p, "create") /\ job'[p].record = job[p].record
      BY <2>4 DEF At, Busy
    <3> QED
      BY <1>5, <3>1, NoneComesToCreate DEF SpacesInvariant
  <2>7. LockInvariant'
    <3>1. \A p \in Requests : Busy(p)' => job'[p].record \in active'
      BY <2>1, <2>4 DEF SpacesInvariant, LockInvariant
    <3>2. OneRequestPerRecord'
      BY <2>4 DEF SpacesInvariant, LockInvariant, OneRequestPerRecord, Busy
    <3>3. active' \subseteq {job'[p].record : p \in {o \in Requests : job'[o] # NoRequest}}
      <4> SUFFICES ASSUME NEW r \in active'
                   PROVE  \E p \in Requests : job'[p] # NoRequest /\ r = job'[p].record
        OBVIOUS
      <4>1. PICK p \in Requests : job[p] # NoRequest /\ r = job[p].record
        BY <2>1 DEF SpacesInvariant, LockInvariant, NobodyWaitsInVain
      <4> QED
        BY <2>4, <4>1 DEF Busy
    <3>4. \A p \in Requests : At(p, "waiting")' => refresh'[job'[p].organizer].at # "idle"
      BY <1>4, <2>4 DEF At
    <3> QED
      BY <2>1, <3>1, <3>2, <3>3, <3>4 DEF SpacesInvariant, LockInvariant, NobodyWaitsInVain
  <2> QED
    BY <1>1, <2>5, <2>6, <2>7 DEF SpacesInvariant
<1> QED
  BY <1>6, <1>7

LEMMA CrashKeeps ==
  ASSUME SpacesInvariant, Crash
  PROVE  SpacesInvariant'
<1> DEFINE Q == {q \in Requests : Busy(q)}
<1>1. AccountsInvariant'
  BY CrashKeepsAccounts DEF SpacesInvariant
<1>2. job' = [p \in Requests |-> IF p \in Q THEN NoRequest ELSE job[p]]
  BY DEF Crash, Busy
<1>3. active' = Released(Q)
  BY DEF Crash, Released, Busy, SpacesInvariant, LockInvariant, NobodyWaitsInVain
<1>4. RowsGrow /\ member' \in [Records -> SUBSET Subjects] /\ UNCHANGED made
  BY SameRows DEF Crash, SpacesInvariant, JobsInvariant, google
<1>5. \A p \in Requests \ Q : ~At(p, "waiting")
  BY DEF At, Busy
<1>6. Q \in SUBSET Requests /\ \A q \in Q : Busy(q)
  OBVIOUS
<1> HIDE DEF Q
<1>7. JobsInvariant' /\ CreationInvariant' /\ LockInvariant'
  BY <1>2, <1>3, <1>4, <1>5, <1>6, RequestsEnd DEF SpacesInvariant
<1> QED
  BY <1>1, <1>7 DEF SpacesInvariant

----------------------------------------------------------------------------
(* The theorems *)

LEMMA InitKeeps == Init => SpacesInvariant
<1> SUFFICES ASSUME Init PROVE SpacesInvariant
  OBVIOUS
<1>1. JobsInvariant
  BY DEF Init, JobsInvariant, Busy
<1>2. CreationInvariant
  BY DEF Init, CreationInvariant, OneSpacePerRecord, At
<1>3. LockInvariant
  BY DEF Init, LockInvariant, OneRequestPerRecord, NobodyWaitsInVain, Busy, At
<1> QED
  BY <1>1, <1>2, <1>3, InitAccounts DEF SpacesInvariant

LEMMA NextKeeps == SpacesInvariant /\ [Next]_vars => SpacesInvariant'
<1> SUFFICES ASSUME SpacesInvariant, [Next]_vars PROVE SpacesInvariant'
  OBVIOUS
<1>1. CASE \E q \in Requests : \E r \in Records, u \in Users, o \in BOOLEAN : Ask(q, r, u, o)
  BY <1>1, AskKeeps
<1>2. CASE \E q \in Requests : JobStep(q)
  BY <1>2, JobStepKeeps
<1>3. CASE \E u \in Users, s \in Subjects \cup {Nobody} : Settle(u, s)
  BY <1>3, SettleKeeps
<1>4. CASE AccountStep
  BY <1>4, AccountStepKeeps
<1>5. CASE Crash
  BY <1>5, CrashKeeps
<1>6. CASE UNCHANGED vars
  <2>1. AccountsInvariant'
    BY <1>6, SameAccounts DEF SpacesInvariant, vars
  <2> QED
    BY <1>6, <2>1, AccountsMove DEF vars, accounts
<1> QED
  BY <1>1, <1>2, <1>3, <1>4, <1>5, <1>6 DEF Next

\* The invariant of accounts, requests, creations and locks is inductive.
THEOREM SpacesInductive == Spec => []SpacesInvariant
<1> QED
  BY InitKeeps, NextKeeps, PTL DEF Spec

\* Every step of provisioning, authorization and refresh keeps the types.
THEOREM SpacesTypeOK == Spec => []TypeOK
<1>1. SpacesInvariant => TypeOK
  <2> SUFFICES ASSUME SpacesInvariant PROVE TypeOK
    OBVIOUS
  <2>1. token \in [Users -> Tokens \cup {NoToken}]
    BY DEF SpacesInvariant, AccountsInvariant, GoodTokens
  <2>2. flow \in [Flows -> FlowState] /\ refresh \in [Users -> Refreshes]
    BY DEF SpacesInvariant, AccountsInvariant, GoodFlows, GoodRefreshes
  <2>3. job \in [Requests -> Jobs \cup {NoRequest}]
    BY DEF SpacesInvariant, JobsInvariant, GoodJobs
  <2>4. \A q \in Requests :
          job[q] # NoRequest /\ job[q].at # "row" => job[q].organizer \in Users
    BY BusyIsGood DEF SpacesInvariant, Busy, GoodJobs
  <2> QED
    BY <2>1, <2>2, <2>3, <2>4
    DEF TypeOK, SpacesInvariant, AccountsInvariant, JobsInvariant, LockInvariant
<1> QED
  BY <1>1, SpacesInductive, PTL

\* Google is asked for at most one space of a record, whatever is lost, retried
\* or restarted: the row is written before, under its primary key.
THEOREM SpacesOneSpacePerRecord == Spec => []OneSpacePerRecord
<1>1. SpacesInvariant => OneSpacePerRecord
  BY DEF SpacesInvariant, CreationInvariant
<1> QED
  BY <1>1, SpacesInductive, PTL

\* Two requests never work on one record.
THEOREM SpacesOneRequestPerRecord == Spec => []OneRequestPerRecord
<1>1. SpacesInvariant => OneRequestPerRecord
  BY DEF SpacesInvariant, LockInvariant
<1> QED
  BY <1>1, SpacesInductive, PTL

\* A lock is held by a request that still runs, and who waits for a refresh
\* waits for one in progress.
THEOREM SpacesNobodyWaitsInVain == Spec => []NobodyWaitsInVain
<1>1. SpacesInvariant => NobodyWaitsInVain
  BY DEF SpacesInvariant, LockInvariant
<1> QED
  BY <1>1, SpacesInductive, PTL

\* The refresh token kept of a user is of the account the token names, however
\* authorizations, refreshes, lost answers and crashes interleave.
THEOREM SpacesAccountsAreNotMixed == Spec => []AccountsAreNotMixed
<1>1. SpacesInvariant => AccountsAreNotMixed
  BY DEF SpacesInvariant, AccountsInvariant, AccountsAreNotMixed, GoodTokens
<1> QED
  BY <1>1, SpacesInductive, PTL

\* Whoever hosts for Aedilis or for an organization has a Google token.
THEOREM SpacesHostsHaveToken == Spec => []HostsHaveToken
<1>1. SpacesInvariant => HostsHaveToken
  BY DEF SpacesInvariant, AccountsInvariant
<1> QED
  BY <1>1, SpacesInductive, PTL

----------------------------------------------------------------------------
(* Who may use a space that turns ready *)

\* What a request has seen to before it finishes.
SeenTo(q) ==
  At(q, "finish") =>
    \/ job[q].email \in member[job[q].record] \cup {Nobody}
    \/ job[q].email = job[q].hostEmail /\ job[q].grant # job[q].hostEmail

HostedForRequesters == \A q \in Requests : SeenTo(q)

LEMMA JobInHand ==
  ASSUME SpacesInvariant, NEW q \in Requests, Busy(q)
  PROVE  job[q] \in Jobs
BY BusyIsGood DEF SpacesInvariant, GoodJobs

\* One request changes, and not by finishing its configuration.
LEMMA OneGoesOn ==
  ASSUME SpacesInvariant, HostedForRequesters, NEW q \in Requests, NEW j,
         job' = [job EXCEPT ![q] = j], j = NoRequest \/ j.at # "finish",
         \A p \in Requests \ {q} : At(p, "finish") =>
            member[job[p].record] \subseteq member'[job[p].record]
  PROVE  HostedForRequesters'
<1>1. job'[q] = j /\ \A p \in Requests \ {q} : job'[p] = job[p]
  BY DEF SpacesInvariant, JobsInvariant
<1>2. SeenTo(q)'
  BY <1>1 DEF SeenTo, At
<1>3. ASSUME NEW p \in Requests \ {q}
      PROVE  SeenTo(p)'
  BY <1>1 DEF SeenTo, At, HostedForRequesters
<1> QED
  BY <1>2, <1>3 DEF HostedForRequesters

\* Requests end or go on elsewhere, and the spaces stay as they are.
LEMMA NoneComesToFinish ==
  ASSUME HostedForRequesters, UNCHANGED member,
         \A q \in Requests : At(q, "finish")' => At(q, "finish") /\ job'[q] = job[q]
  PROVE  HostedForRequesters'
BY DEF HostedForRequesters, SeenTo, At

\* The one step that leads to the finish: Google has taken the calls from the
\* account that hosts the space, and the requester is that account or invited.
LEMMA ConfigureHosts ==
  ASSUME SpacesInvariant, HostedForRequesters, NEW q \in Requests, Configure(q)
  PROVE  HostedForRequesters'
<1> DEFINE r == job[q].record
<1>1. Busy(q) /\ job[q] \in Jobs /\ r \in Records
  BY JobInHand DEF Configure, At, Busy, Jobs
<1>2. /\ job[q].grant \in member[r]
      /\ member' = [member EXCEPT ![r] = @ \cup Cohost(q)]
  BY DEF Configure
<1>3. member'[r] = member[r] \cup Cohost(q) /\ \A x \in Records : member[x] \subseteq member'[x]
  BY <1>1, <1>2 DEF SpacesInvariant, JobsInvariant
<1>4. \A p \in Requests : At(p, "finish") => job[p].record \in Records
  BY JobInHand DEF At, Busy, Jobs
<1>5. CASE Over(q)
  BY <1>3, <1>4, <1>5, OneGoesOn DEF Over
<1>6. CASE Moves(q, "finish")
  <2> DEFINE j == [job[q] EXCEPT !.at = "finish"]
  <2>1. /\ j.record = r /\ j.grant = job[q].grant
        /\ j.email = job[q].email /\ j.hostEmail = job[q].hostEmail
    BY <1>1 DEF Jobs
  <2>2. job'[q] = j /\ \A p \in Requests \ {q} : job'[p] = job[p]
    BY <1>6 DEF Moves, SpacesInvariant, JobsInvariant
  <2> HIDE DEF j
  <2>3. SeenTo(q)'
    <3> SUFFICES ASSUME job[q].email # Nobody,
                        job[q].email = job[q].hostEmail => job[q].grant = job[q].hostEmail
                 PROVE  job[q].email \in member'[r]
      BY <2>1, <2>2 DEF SeenTo, At
    <3> QED
      BY <1>2, <1>3 DEF Cohost
  <2>4. ASSUME NEW p \in Requests \ {q}
        PROVE  SeenTo(p)'
    BY <1>3, <1>4, <2>2 DEF SeenTo, At, HostedForRequesters
  <2> QED
    BY <2>3, <2>4 DEF HostedForRequesters
<1> QED
  BY <1>5, <1>6 DEF Configure

\* A space is created for a record no other request works on.
LEMMA CreateHosts ==
  ASSUME SpacesInvariant, HostedForRequesters, NEW q \in Requests, Create(q)
  PROVE  HostedForRequesters'
<1> DEFINE r == job[q].record
<1>1. Busy(q) /\ job[q] \in Jobs
  BY JobInHand DEF Create, At, Busy
<1>2. PICK stage \in {"save", "doubt"} : Moves(q, stage)
  BY DEF Create
<1>3. job' = [job EXCEPT ![q] = [job[q] EXCEPT !.at = stage]]
      /\ [job[q] EXCEPT !.at = stage].at # "finish"
  BY <1>1, <1>2 DEF Moves, Jobs
<1>4. \A p \in Requests \ {q} : At(p, "finish") => job[p].record # r
  BY <1>1 DEF At, Busy, SpacesInvariant, LockInvariant, OneRequestPerRecord
<1>5. \A x \in Records \ {r} : member'[x] = member[x]
  BY DEF Create, SpacesInvariant, JobsInvariant
<1>6. \A p \in Requests : At(p, "finish") => job[p].record \in Records
  BY JobInHand DEF At, Busy, Jobs
<1> QED
  BY <1>3, <1>4, <1>5, <1>6, OneGoesOn

LEMMA JobStepHosts ==
  ASSUME SpacesInvariant, HostedForRequesters, NEW q \in Requests, JobStep(q)
  PROVE  HostedForRequesters'
<1>1. job[q] \in Jobs
  BY JobInHand DEF JobStep, ReadRow, ReadEmail, AskAccess, ReadHostEmail, Insert,
    Create, CreateFails, SaveName, Doubt, Configure, Finish, Fails, At, Busy
<1>2. ASSUME NEW j, job' = [job EXCEPT ![q] = j], j = NoRequest \/ j.at # "finish",
             UNCHANGED member
      PROVE  HostedForRequesters'
  BY <1>2, OneGoesOn
<1>3. CASE \E h \in Hosts : ReadRow(q, h)
  <2> PICK h \in Hosts : ReadRow(q, h)
    BY <1>3
  <2> DEFINE u == IF row[job[q].record] = NoRow THEN HostFor(h) ELSE row[job[q].record].organizer
             j == [job[q] EXCEPT !.at = "email", !.organizer = u]
  <2>1. job' = [job EXCEPT ![q] = j] /\ UNCHANGED member
    BY DEF ReadRow, google
  <2>2. j.at = "email"
    BY <1>1 DEF Jobs
  <2> HIDE DEF j
  <2> QED
    BY <1>2, <2>1, <2>2
<1>4. CASE ReadEmail(q)
  <2> DEFINE j == [job[q] EXCEPT !.at = "access", !.email = SubjectOf(job[q].user)]
  <2>1. job' = [job EXCEPT ![q] = j] /\ UNCHANGED member
    BY <1>4 DEF ReadEmail, google
  <2>2. j.at = "access"
    BY <1>1 DEF Jobs
  <2> HIDE DEF j
  <2> QED
    BY <1>2, <2>1, <2>2
<1>5. CASE ReadHostEmail(q)
  <2> DEFINE stage == IF row[job[q].record] = NoRow THEN "insert" ELSE "configure"
             j == [job[q] EXCEPT !.hostEmail = SubjectOf(job[q].organizer), !.at = stage]
  <2>1. job' = [job EXCEPT ![q] = j] /\ UNCHANGED member
    BY <1>5 DEF ReadHostEmail, google
  <2>2. j.at = stage
    BY <1>1 DEF Jobs
  <2> HIDE DEF j
  <2> QED
    BY <1>2, <2>1, <2>2
<1>6. ASSUME NEW stage, Moves(q, stage), stage # "finish", UNCHANGED member
      PROVE  HostedForRequesters'
  <2> DEFINE j == [job[q] EXCEPT !.at = stage]
  <2>1. job' = [job EXCEPT ![q] = j] /\ j.at # "finish"
    BY <1>1, <1>6 DEF Moves, Jobs
  <2> HIDE DEF j
  <2> QED
    BY <1>2, <1>6, <2>1
<1>7. CASE AskAccess(q) \/ CreateFails(q) \/ SaveName(q)
  BY <1>6, <1>7 DEF AskAccess, CreateFails, SaveName, google
<1>8. CASE Insert(q)
  BY <1>2, <1>6, <1>8 DEF Insert, Over, google
<1>9. CASE Doubt(q) \/ Finish(q) \/ Fails(q)
  BY <1>2, <1>9 DEF Doubt, Finish, Fails, Over, google
<1> QED
  BY <1>3, <1>4, <1>5, <1>7, <1>8, <1>9, CreateHosts, ConfigureHosts DEF JobStep

LEMMA NextHosts ==
  ASSUME SpacesInvariant, HostedForRequesters, [Next]_vars
  PROVE  HostedForRequesters'
<1>1. ASSUME NEW q \in Requests, NEW r \in Records, NEW u \in Users, NEW o \in BOOLEAN,
             Ask(q, r, u, o)
      PROVE  HostedForRequesters'
  BY <1>1, OneGoesOn DEF Ask, google
<1>2. ASSUME NEW u \in Users, NEW s \in Subjects \cup {Nobody}, Settle(u, s)
      PROVE  HostedForRequesters'
  <2>1. UNCHANGED member
    BY <1>2 DEF Settle, google
  <2>2. ASSUME NEW q \in Requests, At(q, "finish")'
        PROVE  At(q, "finish") /\ job'[q] = job[q]
    <3>1. q \in Waiting(u) => job'[q] = NoRequest \/ job'[q].at = "hostEmail"
      <4> SUFFICES ASSUME q \in Waiting(u), s # Nobody
                   PROVE  job'[q].at = "hostEmail"
        BY <1>2 DEF Settle, Wakes
      <4>1. job[q] \in Jobs
        BY JobInHand DEF Waiting, At, Busy
      <4>2. job'[q] = [job[q] EXCEPT !.at = "hostEmail", !.grant = s]
        BY <1>2 DEF Settle, Wakes
      <4> QED
        BY <4>1, <4>2 DEF Jobs
    <3>2. q \notin Waiting(u) => job'[q] = job[q]
      BY <1>2 DEF Settle, Wakes
    <3> QED
      BY <2>2, <3>1, <3>2 DEF At
  <2> QED
    BY <2>1, <2>2, NoneComesToFinish
<1>3. CASE AccountStep \/ UNCHANGED vars
  BY <1>3, NoneComesToFinish DEF AccountStep, vars, google, At
<1>4. CASE Crash
  BY <1>4, NoneComesToFinish DEF Crash, google, At
<1> QED
  BY <1>1, <1>2, <1>3, <1>4, JobStepHosts DEF Next

\* When ensureSpace marks a record ready, the address it read of its requester
\* hosts or co-hosts the space, whatever other requests, refreshes and crashes
\* came between configure and the update.  Excused are a requester without an
\* address, and one whose address was read to be the host's when the access token
\* was of another account.
THEOREM SpacesReadyForItsRequester == Spec => ReadyForItsRequester
<1>1. Init => HostedForRequesters
  BY DEF Init, HostedForRequesters, SeenTo, At
<1>2. HostedForRequesters /\ [Next]_vars =>
        [\A q \in Requests : At(q, "finish") /\ Finish(q) =>
           \/ job[q].email \in member[job[q].record] \cup {Nobody}
           \/ job[q].email = job[q].hostEmail /\ job[q].grant # job[q].hostEmail]_vars
  BY DEF HostedForRequesters, SeenTo
<1> QED
  BY <1>1, <1>2, SpacesInductive, NextHosts, PTL DEF Spec, ReadyForItsRequester
=============================================================================
