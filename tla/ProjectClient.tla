--------------------------- MODULE ProjectClient ---------------------------
(***************************************************************************)
(* The WebSocket of the project towards Cernere                            *)
(* (src/server/lib/cernere-project-client.ts): one client, started with    *)
(* the server, which reconnects after every failure until it is closed.    *)
(* Sockets report in events: an error may or may not be followed by a      *)
(* close event, but it is within the reconnect delay of five seconds.      *)
(***************************************************************************)
EXTENDS Integers, FiniteSets

CONSTANTS
  Sockets,   \* WebSocket objects (their names are used again)
  Requests,  \* module requests in flight (used again)
  MaxLogins, \* bounds the logins in flight
  None

ASSUME ClientAssumption == None \notin Sockets /\ MaxLogins \in Nat \ {0}

VARIABLES
  ws,        \* this.ws
  reconnectTimer,
  closedByCaller,
  logins,    \* calls of connect that wait for their token
  socket,    \* free, connecting, failed, open or closing
  pending,   \* requests in this.pending, by the socket they were sent on
  done       \* requests whose promise is settled

client == <<ws, reconnectTimer, closedByCaller>>
vars == <<client, logins, socket, pending, done>>

Waiting == {r \in Requests : pending[r] # None}

\* Every pending request is rejected.
RejectAll ==
  /\ pending' = [r \in Requests |-> None]
  /\ done' = done \cup Waiting

\* Mutant: a timer is set although the caller has closed.
ScheduleAlways == reconnectTimer' = TRUE

ScheduleReconnect == reconnectTimer' = (reconnectTimer \/ ~closedByCaller)

----------------------------------------------------------------------------
(* connect *)

\* fetchProjectToken answers, and a socket is made with the token.
TokenArrives(s) ==
  /\ logins > 0 /\ logins' = logins - 1
  /\ socket[s] = "free"
  /\ socket' = [socket EXCEPT ![s] = "connecting"]
  /\ UNCHANGED <<client, pending, done>>

TokenFails ==
  /\ logins > 0 /\ logins' = logins - 1
  /\ ScheduleReconnect
  /\ UNCHANGED <<ws, closedByCaller, socket, pending, done>>

\* onopen, whether or not the caller has closed meanwhile.
Opens(s) ==
  /\ socket[s] = "connecting"
  /\ socket' = [socket EXCEPT ![s] = "open"]
  /\ ws' = s
  /\ UNCHANGED <<reconnectTimer, closedByCaller, logins, pending, done>>

\* onerror before the socket was open: connect is rejected.
Errors(s) ==
  /\ socket[s] = "connecting"
  /\ socket' = [socket EXCEPT ![s] = "failed"]
  /\ ScheduleReconnect
  /\ UNCHANGED <<ws, closedByCaller, logins, pending, done>>

\* Mutant: only the socket is given up, what waits for it keeps waiting.
DisconnectsQuietly == ScheduleReconnect /\ UNCHANGED <<pending, done>>

\* Mutant: a dropped connection is not made again.
DisconnectsForGood == RejectAll /\ UNCHANGED reconnectTimer

\* What onclose does once connect is settled.
Disconnects == ScheduleReconnect /\ RejectAll

\* onclose; without an open before it, connect is rejected instead.
CloseEvent(s) ==
  /\ socket[s] \in {"connecting", "failed", "open", "closing"}
  /\ socket' = [socket EXCEPT ![s] = "free"]
  /\ ws' = None
  /\ IF socket[s] = "connecting"
     THEN ScheduleReconnect /\ UNCHANGED <<pending, done>>
     ELSE Disconnects
  /\ UNCHANGED <<closedByCaller, logins>>

\* A socket that failed to connect may be forgotten without a close event.
Forgotten(s) ==
  /\ socket[s] = "failed"
  /\ socket' = [socket EXCEPT ![s] = "free"]
  /\ UNCHANGED <<client, logins, pending, done>>

\* readyState leaves OPEN before the close event is dispatched.
GoesClosing(s) ==
  /\ socket[s] = "open"
  /\ socket' = [socket EXCEPT ![s] = "closing"]
  /\ UNCHANGED <<client, logins, pending, done>>

\* Mutant: the handle of a timer that fired is kept.
TimerStays == UNCHANGED reconnectTimer

TimerGone == reconnectTimer' = FALSE

TimerFires ==
  /\ reconnectTimer
  /\ \A s \in Sockets : socket[s] # "failed"
  /\ logins < MaxLogins
  /\ TimerGone
  /\ logins' = logins + 1
  /\ UNCHANGED <<ws, closedByCaller, socket, pending, done>>

----------------------------------------------------------------------------
(* Requests, and close *)

\* A request goes out, or the send throws.
Request(r) ==
  /\ pending[r] = None /\ r \notin done
  /\ ws # None /\ socket[ws] = "open"
  /\ \/ pending' = [pending EXCEPT ![r] = ws] /\ UNCHANGED done
     \/ done' = done \cup {r} /\ UNCHANGED pending
  /\ UNCHANGED <<client, logins, socket>>

\* handleMessage for a request that still waits (a late answer is dropped).
Message(r) ==
  /\ pending[r] # None /\ socket[pending[r]] = "open"
  /\ pending' = [pending EXCEPT ![r] = None]
  /\ done' = done \cup {r}
  /\ UNCHANGED <<client, logins, socket>>

\* The timer of a request.
TimesOut(r) ==
  /\ pending[r] # None
  /\ pending' = [pending EXCEPT ![r] = None]
  /\ done' = done \cup {r}
  /\ UNCHANGED <<client, logins, socket>>

\* The caller is done with a settled request.
Forget(r) ==
  /\ r \in done
  /\ done' = done \ {r}
  /\ UNCHANGED <<client, logins, socket, pending>>

\* close, once, as the server shuts down.
Close ==
  /\ ~closedByCaller /\ closedByCaller' = TRUE
  /\ reconnectTimer' = FALSE
  /\ RejectAll
  /\ socket' = [s \in Sockets |-> IF s = ws /\ socket[s] = "open" THEN "closing"
                                  ELSE socket[s]]
  /\ ws' = None
  /\ UNCHANGED logins

----------------------------------------------------------------------------
\* start has been called.
Init ==
  /\ ws = None /\ reconnectTimer = FALSE /\ closedByCaller = FALSE
  /\ logins = 1
  /\ socket = [s \in Sockets |-> "free"]
  /\ pending = [r \in Requests |-> None]
  /\ done = {}

Next ==
  \/ TokenFails \/ TimerFires \/ Close
  \/ \E s \in Sockets : \/ TokenArrives(s) \/ Opens(s) \/ Errors(s)
                        \/ CloseEvent(s) \/ Forgotten(s) \/ GoesClosing(s)
  \/ \E r \in Requests : Request(r) \/ Message(r) \/ TimesOut(r) \/ Forget(r)

\* The timers of the process fire, Cernere and the network answer in the
\* end, and not every attempt fails.  A connection may drop, or the caller
\* close, or neither.
Fairness ==
  /\ WF_vars(TimerFires)
  /\ SF_vars(\E s \in Sockets : TokenArrives(s))
  /\ SF_vars(\E s \in Sockets : Opens(s))
  /\ \A s \in Sockets :
       WF_vars((socket[s] = "failed" /\ (CloseEvent(s) \/ Forgotten(s)))
               \/ (socket[s] = "closing" /\ CloseEvent(s)))

Spec == Init /\ [][Next]_vars /\ Fairness

----------------------------------------------------------------------------
(* Properties *)

Attempting == {s \in Sockets : socket[s] \in {"connecting", "open", "closing"}}

\* An error and the close event behind it, a login and a timer, a connection
\* that drops: whatever order they come in, the client never runs two
\* attempts, two connections or an attempt beside its timer, and until it is
\* closed it never has none of them.
OneConnection ==
  LET lives == logins + Cardinality(Attempting) + IF reconnectTimer THEN 1 ELSE 0
  IN lives <= 1 /\ (closedByCaller \/ lives = 1)

\* No request outlives the socket it was sent on: what is pending can still
\* be answered, or that socket's close event is still to come.
PendingOnItsSocket == \A r \in Requests :
  pending[r] # None => socket[pending[r]] \in {"open", "closing"}

\* close ends the reconnecting for good: no timer is set and no attempt is
\* begun after it.  (The attempt that was under way goes on, and may open.)
ClosedForGood ==
  [][closedByCaller =>
       /\ ~reconnectTimer'
       /\ logins' + Cardinality(Attempting') <= logins + Cardinality(Attempting)]_vars

\* A client that is not closed gets connected again, however often an attempt
\* fails.
Reconnects == (ws = None /\ ~closedByCaller) ~> (ws # None \/ closedByCaller)
=============================================================================
