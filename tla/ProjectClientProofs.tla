------------------------ MODULE ProjectClientProofs ------------------------
(***************************************************************************)
(* Safety of the connection to Cernere for every number of sockets and     *)
(* requests: one connection, one attempt or one timer at a time, no        *)
(* request beyond its socket, and no new attempt after close.              *)
(***************************************************************************)
EXTENDS ProjectClient, FiniteSetTheorems, TLAPS

States == {"free", "connecting", "failed", "open", "closing"}

TypeOK ==
  /\ ws \in Sockets \cup {None}
  /\ reconnectTimer \in BOOLEAN
  /\ closedByCaller \in BOOLEAN
  /\ logins \in Nat
  /\ socket \in [Sockets -> States]
  /\ pending \in [Requests -> Sockets \cup {None}]
  /\ done \subseteq Requests

\* Of a login that waits for its token, a socket and the timer there is one
\* at a time, and none only after close.
OneAttempt ==
  /\ \A s, t \in Attempting : s = t
  /\ logins \in {0, 1}
  /\ logins = 1 => Attempting = {} /\ ~reconnectTimer
  /\ Attempting # {} => ~reconnectTimer
  /\ ~closedByCaller => logins = 1 \/ Attempting # {} \/ reconnectTimer

\* While the close event of a failed socket may still come, nothing but the
\* timer is there: the event cannot hit a successor.
FailedAlone ==
  \A s \in Sockets : socket[s] = "failed" => Attempting = {} /\ logins = 0

ClosedHasNoTimer == closedByCaller => ~reconnectTimer

ClientInvariant ==
  /\ TypeOK /\ OneAttempt /\ FailedAlone /\ ClosedHasNoTimer
  /\ PendingOnItsSocket

USE ClientAssumption

LEMMA IsAttempting ==
  ASSUME NEW s \in Sockets
  PROVE  s \in Attempting <=> socket[s] \in {"connecting", "open", "closing"}
BY DEF Attempting

\* One socket changes its state, and the others are what they were.
LEMMA OneSocket ==
  ASSUME TypeOK, NEW s \in Sockets, NEW state \in States,
         socket' = [socket EXCEPT ![s] = state]
  PROVE  /\ socket' \in [Sockets -> States]
         /\ socket'[s] = state
         /\ \A t \in Sockets : t # s => socket'[t] = socket[t]
         /\ Attempting' = IF state \in {"connecting", "open", "closing"}
                          THEN Attempting \cup {s} ELSE Attempting \ {s}
<1>1. /\ socket' \in [Sockets -> States]
      /\ socket'[s] = state
      /\ \A t \in Sockets : t # s => socket'[t] = socket[t]
  BY DEF TypeOK
<1>2. CASE state \in {"connecting", "open", "closing"}
  BY <1>1, <1>2 DEF Attempting
<1>3. CASE state \notin {"connecting", "open", "closing"}
  BY <1>1, <1>3 DEF Attempting
<1> QED
  BY <1>1, <1>2, <1>3

----------------------------------------------------------------------------
(* The inductive invariant *)

LEMMA InitInvariant == Init => ClientInvariant
<1> SUFFICES ASSUME Init
             PROVE  ClientInvariant
  OBVIOUS
<1>1. Attempting = {}
  BY DEF Init, Attempting
<1>2. TypeOK
  BY DEF Init, TypeOK, States
<1>3. FailedAlone /\ PendingOnItsSocket
  BY DEF Init, FailedAlone, PendingOnItsSocket
<1> QED
  BY <1>1, <1>2, <1>3 DEF Init, ClientInvariant, OneAttempt, ClosedHasNoTimer

\* A step that touches neither the sockets nor the requests.
LEMMA SameSockets ==
  ASSUME ClientInvariant, UNCHANGED <<socket, pending>>
  PROVE  /\ Attempting' = Attempting
         /\ PendingOnItsSocket'
BY DEF ClientInvariant, Attempting, PendingOnItsSocket

\* The timer after ScheduleReconnect: set, unless the caller has closed.
LEMMA Scheduled ==
  ASSUME ClientInvariant, ScheduleReconnect, UNCHANGED closedByCaller
  PROVE  /\ reconnectTimer' \in BOOLEAN
         /\ ~closedByCaller => reconnectTimer'
         /\ closedByCaller => ~reconnectTimer'
BY DEF ClientInvariant, TypeOK, ClosedHasNoTimer, ScheduleReconnect

\* A socket that answers or closes may, the others keep what is pending.
LEMMA PendingStays ==
  ASSUME ClientInvariant, NEW s \in Sockets, UNCHANGED pending,
         \A t \in Sockets : t # s => socket'[t] = socket[t],
         socket[s] \in {"open", "closing"} => socket'[s] \in {"open", "closing"}
  PROVE  PendingOnItsSocket'
<1> SUFFICES ASSUME NEW r \in Requests, pending[r] # None
             PROVE  socket'[pending[r]] \in {"open", "closing"}
  BY DEF PendingOnItsSocket
<1>1. pending[r] \in Sockets /\ socket[pending[r]] \in {"open", "closing"}
  BY DEF ClientInvariant, TypeOK, PendingOnItsSocket
<1> QED
  BY <1>1

\* A login that gets or misses its token.
LEMMA LoginSteps ==
  ASSUME ClientInvariant,
         TokenFails \/ TimerFires \/ \E s \in Sockets : TokenArrives(s)
  PROVE  ClientInvariant'
<1> USE DEF ClientInvariant
<1>1. CASE TokenFails
  <2>1. Attempting' = Attempting /\ PendingOnItsSocket'
    BY <1>1, SameSockets DEF TokenFails
  <2>2. /\ reconnectTimer' \in BOOLEAN
        /\ ~closedByCaller => reconnectTimer'
        /\ closedByCaller => ~reconnectTimer'
    BY <1>1, Scheduled DEF TokenFails
  <2>3. logins = 1 /\ logins' = 0 /\ Attempting = {}
    BY <1>1 DEF TokenFails, OneAttempt
  <2>4. TypeOK'
    BY <1>1, <2>2, <2>3 DEF TokenFails, TypeOK
  <2>5. OneAttempt' /\ FailedAlone' /\ ClosedHasNoTimer'
    BY <1>1, <2>1, <2>2, <2>3 DEF TokenFails, OneAttempt, FailedAlone,
       ClosedHasNoTimer
  <2> QED
    BY <2>1, <2>4, <2>5
<1>2. CASE TimerFires
  <2>1. Attempting' = Attempting /\ PendingOnItsSocket'
    BY <1>2, SameSockets DEF TimerFires
  <2>2. logins = 0 /\ logins' = 1 /\ Attempting = {} /\ ~reconnectTimer'
    <3>1. ~reconnectTimer'
      BY <1>2 DEF TimerFires, TimerGone
    <3>2. Attempting = {} /\ logins # 1
      BY <1>2 DEF TimerFires, OneAttempt
    <3>3. logins = 0
      BY <3>2 DEF OneAttempt
    <3>4. logins' = logins + 1
      BY <1>2 DEF TimerFires
    <3>5. logins' = 1
      BY <3>3, <3>4
    <3> QED
      BY <3>1, <3>2, <3>3, <3>5
  <2>3. TypeOK'
    <3>1. reconnectTimer' \in BOOLEAN
      BY <1>2 DEF TimerFires, TimerGone
    <3>2. logins' \in Nat
      BY <2>2
    <3>3. UNCHANGED <<ws, closedByCaller, socket, pending, done>>
      BY <1>2 DEF TimerFires
    <3> QED
      BY <3>1, <3>2, <3>3 DEF TypeOK
  <2>4. OneAttempt' /\ FailedAlone' /\ ClosedHasNoTimer'
    BY <1>2, <2>1, <2>2 DEF TimerFires, OneAttempt, FailedAlone, ClosedHasNoTimer
  <2> QED
    BY <2>1, <2>3, <2>4
<1>3. ASSUME NEW s \in Sockets, TokenArrives(s)
      PROVE  ClientInvariant'
  <2>1. /\ socket' \in [Sockets -> States]
        /\ socket'[s] = "connecting"
        /\ \A t \in Sockets : t # s => socket'[t] = socket[t]
        /\ Attempting' = Attempting \cup {s}
    BY <1>3, OneSocket DEF TokenArrives, States
  <2>2. logins = 1 /\ logins' = 0 /\ Attempting' = {s} /\ ~reconnectTimer'
    BY <1>3, <2>1 DEF TokenArrives, OneAttempt, TypeOK, client
  <2>3. TypeOK'
    BY <1>3, <2>1, <2>2 DEF TokenArrives, TypeOK, client
  <2>4. OneAttempt' /\ ClosedHasNoTimer'
    BY <1>3, <2>2 DEF OneAttempt, ClosedHasNoTimer
  <2>5. FailedAlone'
    BY <2>1, <2>2, <1>3 DEF FailedAlone, TokenArrives, OneAttempt
  <2>6. PendingOnItsSocket'
    BY <1>3, <2>1 DEF PendingOnItsSocket, TypeOK, TokenArrives
  <2> QED
    BY <2>3, <2>4, <2>5, <2>6
<1> QED
  BY <1>1, <1>2, <1>3

\* What one socket reports.
LEMMA SocketSteps ==
  ASSUME ClientInvariant, NEW s \in Sockets,
         \/ Opens(s) \/ Errors(s) \/ CloseEvent(s) \/ Forgotten(s)
         \/ GoesClosing(s)
  PROVE  ClientInvariant'
<1> USE DEF ClientInvariant
<1>1. CASE Opens(s)
  <2>1. /\ socket' \in [Sockets -> States]
        /\ socket'[s] = "open"
        /\ \A t \in Sockets : t # s => socket'[t] = socket[t]
        /\ Attempting' = Attempting
    <3>1. s \in Attempting
      BY <1>1, IsAttempting DEF Opens
    <3>2. /\ socket' \in [Sockets -> States]
          /\ socket'[s] = "open"
          /\ \A t \in Sockets : t # s => socket'[t] = socket[t]
          /\ Attempting' = Attempting \cup {s}
      BY <1>1, OneSocket DEF Opens, States
    <3> QED
      BY <3>1, <3>2
  <2>2. PendingOnItsSocket'
    BY <1>1, <2>1, PendingStays DEF Opens
  <2>3. TypeOK'
    BY <1>1, <2>1 DEF Opens, TypeOK
  <2>4. OneAttempt' /\ ClosedHasNoTimer'
    BY <1>1, <2>1 DEF Opens, OneAttempt, ClosedHasNoTimer
  <2>5. FailedAlone'
    BY <1>1, <2>1 DEF Opens, FailedAlone
  <2> QED
    BY <2>2, <2>3, <2>4, <2>5
<1>2. CASE Errors(s)
  <2>1. /\ socket' \in [Sockets -> States]
        /\ socket'[s] = "failed"
        /\ \A t \in Sockets : t # s => socket'[t] = socket[t]
        /\ s \in Attempting
        /\ Attempting' = Attempting \ {s}
    BY <1>2, OneSocket, IsAttempting DEF Errors, States
  <2>2. Attempting' = {} /\ logins = 0
    BY <2>1 DEF OneAttempt
  <2>3. PendingOnItsSocket'
    BY <1>2, <2>1, PendingStays DEF Errors
  <2> QED
    BY <1>2, <2>1, <2>2, <2>3 DEF Errors, ScheduleReconnect, TypeOK, OneAttempt,
       FailedAlone, ClosedHasNoTimer
<1>3. CASE CloseEvent(s)
  <2>1. /\ socket' \in [Sockets -> States]
        /\ socket'[s] = "free"
        /\ \A t \in Sockets : t # s => socket'[t] = socket[t]
        /\ Attempting' = Attempting \ {s}
    BY <1>3, OneSocket DEF CloseEvent, States
  <2>2. Attempting' = {} /\ logins = 0
    <3>1. CASE socket[s] = "failed"
      BY <2>1, <3>1 DEF FailedAlone
    <3>2. CASE s \in Attempting
      BY <2>1, <3>2 DEF OneAttempt
    <3> QED
      BY <1>3, <3>1, <3>2, IsAttempting DEF CloseEvent
  <2>3. ScheduleReconnect
    BY <1>3 DEF CloseEvent, Disconnects
  <2>4. \A r \in Requests : pending'[r] = None
    <3>1. CASE socket[s] = "connecting"
      <4>1. \A r \in Requests : pending[r] = None
        <5> SUFFICES ASSUME NEW r \in Requests, pending[r] # None
                     PROVE  FALSE
          OBVIOUS
        <5>1. pending[r] \in Attempting /\ s \in Attempting
          BY <3>1, IsAttempting DEF PendingOnItsSocket, TypeOK
        <5> QED
          BY <3>1, <5>1 DEF OneAttempt, PendingOnItsSocket
      <4> QED
        BY <1>3, <3>1, <4>1 DEF CloseEvent
    <3>2. CASE socket[s] # "connecting"
      BY <1>3, <3>2 DEF CloseEvent, Disconnects, RejectAll
    <3> QED
      BY <3>1, <3>2
  <2>5. /\ pending' \in [Requests -> Sockets \cup {None}]
        /\ done' \subseteq Requests
    BY <1>3 DEF CloseEvent, Disconnects, RejectAll, Waiting, TypeOK
  <2>6. PendingOnItsSocket'
    BY <2>4 DEF PendingOnItsSocket
  <2>7. TypeOK'
    BY <1>3, <2>1, <2>3, <2>5 DEF TypeOK, CloseEvent, ScheduleReconnect
  <2>8. /\ ~closedByCaller => reconnectTimer'
        /\ closedByCaller => ~reconnectTimer'
    BY <1>3, <2>3, Scheduled DEF CloseEvent
  <2>9. OneAttempt' /\ FailedAlone' /\ ClosedHasNoTimer'
    BY <1>3, <2>2, <2>8 DEF CloseEvent, OneAttempt, FailedAlone, ClosedHasNoTimer
  <2> QED
    BY <2>6, <2>7, <2>9
<1>4. CASE Forgotten(s)
  <2>1. /\ socket' \in [Sockets -> States]
        /\ socket'[s] = "free"
        /\ \A t \in Sockets : t # s => socket'[t] = socket[t]
        /\ Attempting' = Attempting
    <3>1. s \notin Attempting
      BY <1>4, IsAttempting DEF Forgotten
    <3>2. /\ socket' \in [Sockets -> States]
          /\ socket'[s] = "free"
          /\ \A t \in Sockets : t # s => socket'[t] = socket[t]
          /\ Attempting' = Attempting \ {s}
      BY <1>4, OneSocket DEF Forgotten, States
    <3> QED
      BY <3>1, <3>2
  <2>2. PendingOnItsSocket'
    BY <1>4, <2>1, PendingStays DEF Forgotten
  <2>3. TypeOK'
    BY <1>4, <2>1 DEF Forgotten, TypeOK, client
  <2>4. OneAttempt' /\ ClosedHasNoTimer'
    BY <1>4, <2>1 DEF Forgotten, OneAttempt, ClosedHasNoTimer, client
  <2>5. FailedAlone'
    BY <1>4, <2>1 DEF Forgotten, FailedAlone
  <2> QED
    BY <2>2, <2>3, <2>4, <2>5
<1>5. CASE GoesClosing(s)
  <2>1. /\ socket' \in [Sockets -> States]
        /\ socket'[s] = "closing"
        /\ \A t \in Sockets : t # s => socket'[t] = socket[t]
        /\ Attempting' = Attempting
    <3>1. s \in Attempting
      BY <1>5, IsAttempting DEF GoesClosing
    <3>2. /\ socket' \in [Sockets -> States]
          /\ socket'[s] = "closing"
          /\ \A t \in Sockets : t # s => socket'[t] = socket[t]
          /\ Attempting' = Attempting \cup {s}
      BY <1>5, OneSocket DEF GoesClosing, States
    <3> QED
      BY <3>1, <3>2
  <2>2. PendingOnItsSocket'
    BY <1>5, <2>1, PendingStays DEF GoesClosing
  <2>3. TypeOK'
    BY <1>5, <2>1 DEF GoesClosing, TypeOK, client
  <2>4. OneAttempt' /\ ClosedHasNoTimer'
    BY <1>5, <2>1 DEF GoesClosing, OneAttempt, ClosedHasNoTimer, client
  <2>5. FailedAlone'
    BY <1>5, <2>1 DEF GoesClosing, FailedAlone
  <2> QED
    BY <2>2, <2>3, <2>4, <2>5
<1> QED
  BY <1>1, <1>2, <1>3, <1>4, <1>5

\* What becomes of one request.
LEMMA RequestSteps ==
  ASSUME ClientInvariant, NEW r \in Requests,
         Request(r) \/ Message(r) \/ TimesOut(r) \/ Forget(r)
  PROVE  ClientInvariant'
<1>1. Attempting' = Attempting
  BY DEF Attempting, Request, Message, TimesOut, Forget
<1>2. PendingOnItsSocket'
  BY DEF ClientInvariant, TypeOK, PendingOnItsSocket, Request, Message, TimesOut,
         Forget
<1>3. TypeOK'
  BY DEF ClientInvariant, TypeOK, client, Request, Message, TimesOut, Forget
<1>4. OneAttempt' /\ FailedAlone' /\ ClosedHasNoTimer'
  BY <1>1 DEF ClientInvariant, OneAttempt, FailedAlone, ClosedHasNoTimer, client,
              Request, Message, TimesOut, Forget
<1> QED
  BY <1>2, <1>3, <1>4 DEF ClientInvariant

LEMMA CloseStep ==
  ASSUME ClientInvariant, Close
  PROVE  ClientInvariant'
<1>1. /\ socket' \in [Sockets -> States]
      /\ \A s \in Sockets : socket'[s] = IF s = ws /\ socket[s] = "open"
                                         THEN "closing" ELSE socket[s]
  BY DEF ClientInvariant, Close, TypeOK, States
<1>2. Attempting' = Attempting
  BY <1>1 DEF Attempting
<1>3. /\ \A r \in Requests : pending'[r] = None
      /\ done' \subseteq Requests
      /\ pending' \in [Requests -> Sockets \cup {None}]
  BY DEF ClientInvariant, TypeOK, Close, RejectAll, Waiting
<1>4. TypeOK' /\ PendingOnItsSocket'
  BY <1>1, <1>3 DEF ClientInvariant, TypeOK, PendingOnItsSocket, Close
<1>5. OneAttempt' /\ FailedAlone' /\ ClosedHasNoTimer'
  BY <1>1, <1>2 DEF ClientInvariant, OneAttempt, FailedAlone, ClosedHasNoTimer,
                    Close
<1> QED
  BY <1>4, <1>5 DEF ClientInvariant

LEMMA InvariantIsInductive ==
  ASSUME ClientInvariant, [Next]_vars
  PROVE  ClientInvariant'
<1>1. CASE UNCHANGED vars
  BY <1>1 DEF ClientInvariant, vars, client, TypeOK, OneAttempt, FailedAlone,
              ClosedHasNoTimer, PendingOnItsSocket, Attempting
<1> QED
  BY <1>1, LoginSteps, SocketSteps, RequestSteps, CloseStep DEF Next

\* The client behaves, whatever the constants, as ClientInvariant says.
THEOREM ClientInductive == Spec => []ClientInvariant
BY InitInvariant, InvariantIsInductive, PTL DEF Spec

----------------------------------------------------------------------------
(* The properties *)

\* A set whose members are all the same has none or one.
LEMMA AtMostOne ==
  ASSUME NEW S, \A s, t \in S : s = t
  PROVE  Cardinality(S) = IF S = {} THEN 0 ELSE 1
<1>1. CASE S = {}
  BY <1>1, FS_EmptySet
<1>2. CASE S # {}
  <2>1. PICK s \in S : S = {s}
    BY <1>2
  <2> QED
    BY <1>2, <2>1, FS_Singleton
<1> QED
  BY <1>1, <1>2

\* connect, onclose and the timer never run two attempts, two connections or
\* an attempt beside the timer, and one of them until close.
THEOREM ClientOneConnection == Spec => []OneConnection
<1>1. ClientInvariant => OneConnection
  <2> SUFFICES ASSUME ClientInvariant
               PROVE  OneConnection
    OBVIOUS
  <2>1. Cardinality(Attempting) = IF Attempting = {} THEN 0 ELSE 1
    BY AtMostOne DEF ClientInvariant, OneAttempt
  <2> QED
    BY <2>1 DEF ClientInvariant, OneAttempt, OneConnection
<1> QED
  BY <1>1, ClientInductive, PTL

\* Requests that wait are rejected with the socket they were sent on.
THEOREM ClientPendingOnItsSocket == Spec => []PendingOnItsSocket
<1>1. ClientInvariant => PendingOnItsSocket
  BY DEF ClientInvariant
<1> QED
  BY <1>1, ClientInductive, PTL

\* After close no timer runs or is set and no attempt is begun; the one that was
\* under way goes on, and its socket may open and stay.
THEOREM ClientClosedForGood == Spec => ClosedForGood
<1> DEFINE Kept ==
      closedByCaller =>
        /\ ~reconnectTimer'
        /\ logins' + Cardinality(Attempting') <= logins + Cardinality(Attempting)
<1>1. ASSUME ClientInvariant, ClientInvariant', [Next]_vars
      PROVE  Kept
  <2> SUFFICES ASSUME closedByCaller
               PROVE  /\ ~reconnectTimer'
                      /\ logins' + Cardinality(Attempting')
                           <= logins + Cardinality(Attempting)
    OBVIOUS
  <2>1. closedByCaller'
    BY <1>1 DEF Next, TokenFails, TimerFires, Close, TokenArrives, Opens, Errors,
       CloseEvent, Forgotten, GoesClosing, Request, Message, TimesOut, Forget,
       vars, client
  <2>2. ~reconnectTimer'
    BY <1>1, <2>1 DEF ClientInvariant, ClosedHasNoTimer
  <2>3. ~reconnectTimer
    BY <1>1 DEF ClientInvariant, ClosedHasNoTimer
  <2>4. \/ logins' = logins /\ (Attempting' # {} => Attempting # {})
        \/ logins = 1 /\ logins' = 0
    <3>1. CASE \E s \in Sockets : TokenArrives(s)
      BY <1>1, <3>1 DEF TokenArrives, ClientInvariant, OneAttempt
    <3>2. CASE TokenFails
      BY <1>1, <3>2 DEF TokenFails, ClientInvariant, OneAttempt
    <3>3. CASE \E s \in Sockets : \/ Opens(s) \/ Errors(s) \/ CloseEvent(s)
                                  \/ Forgotten(s) \/ GoesClosing(s)
      <4>1. PICK s \in Sockets : \/ Opens(s) \/ Errors(s) \/ CloseEvent(s)
                                 \/ Forgotten(s) \/ GoesClosing(s)
        BY <3>3
      <4>2. logins' = logins
        BY <4>1 DEF Opens, Errors, CloseEvent, Forgotten, GoesClosing
      <4>3. \A t \in Sockets : socket'[t] \in {"connecting", "open", "closing"}
              => socket[t] \in {"connecting", "open", "closing"}
        BY <1>1, <4>1 DEF ClientInvariant, TypeOK, Opens, Errors, CloseEvent,
           Forgotten, GoesClosing
      <4> QED
        BY <4>2, <4>3 DEF Attempting
    <3>4. CASE Close
      BY <1>1, <3>4 DEF Close, ClientInvariant, TypeOK, Attempting
    <3>5. CASE UNCHANGED <<logins, socket>>
      BY <3>5 DEF Attempting
    <3> QED
      BY <1>1, <2>3, <3>1, <3>2, <3>3, <3>4, <3>5
      DEF Next, TimerFires, Request, Message, TimesOut, Forget, vars
  <2>5. Cardinality(Attempting) = IF Attempting = {} THEN 0 ELSE 1
    BY <1>1, AtMostOne DEF ClientInvariant, OneAttempt
  <2>6. Cardinality(Attempting') = IF Attempting' = {} THEN 0 ELSE 1
    BY <1>1, AtMostOne DEF ClientInvariant, OneAttempt
  <2>7. logins' + Cardinality(Attempting') <= logins + Cardinality(Attempting)
    <3>1. CASE logins = 1 /\ logins' = 0
      BY <3>1, <2>5, <2>6
    <3>2. CASE logins' = logins /\ (Attempting' # {} => Attempting # {})
      <4>1. logins \in {0, 1}
        BY <1>1 DEF ClientInvariant, OneAttempt
      <4> QED
        BY <3>2, <4>1, <2>5, <2>6
    <3> QED
      BY <2>4, <3>1, <3>2
  <2> QED
    BY <2>2, <2>7
<1>2. ClientInvariant /\ ClientInvariant' /\ [Next]_vars => [Kept]_vars
  BY <1>1
<1>3. Spec => [][Kept]_vars
  BY <1>2, ClientInductive, PTL DEF Spec
<1> QED
  BY <1>3 DEF ClosedForGood
=============================================================================
