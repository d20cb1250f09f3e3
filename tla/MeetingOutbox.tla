--------------------------- MODULE MeetingOutbox ---------------------------
(***************************************************************************)
(* The delivery of notifications (src/server/meetings/outbox.ts): rows of  *)
(* meeting_outbox that the transactions of the meetings committed, a timer *)
(* of one process that takes, sends and settles them, and the routes that  *)
(* change what a recipient wants.  The process may crash or be restarted   *)
(* at any await, and an answer of Discord may be lost.                     *)
(*                                                                         *)
(* A row's due_at is only compared with the clock: `due` says whether it   *)
(* is past.  A lease of 120 s outlives one attempt (Cernere's 10 s, two    *)
(* requests of 15 s), so a row in hand does not become due.                *)
(***************************************************************************)
EXTENDS Integers, FiniteSets

CONSTANTS
  Jobs,        \* rows of meeting_outbox (bounds the notifications)
  Users,       \* users behind the recipients
  Recipient,   \* recipient_id of a job, as its user
  Host,        \* the user who owns the meeting
  Ticks,       \* calls of tick that may overlap
  Batch,       \* LIMIT 5
  MaxAttempts, \* config.notificationMaxAttempts
  MaxFaults,   \* bounds crashes, stops and database errors
  MaxChanges,  \* bounds the changes of settings, and the retries asked for
  None         \* no value

ASSUME OutboxAssumption ==
  /\ Recipient \in [Jobs -> Users] /\ Host \in Users
  /\ Batch \in Nat \ {0} /\ MaxAttempts \in Nat \ {0}
  /\ MaxFaults \in Nat /\ MaxChanges \in Nat
  /\ IsFiniteSet(Jobs) /\ None \notin Jobs

VARIABLES
  status, attempts, due,  \* the rows: status, attempts, due_at <= now
  notify,    \* meeting_identity.notify of a linked user
  public,    \* the meeting's audience is public
  up, stopped, running,  \* the process, and startMeetingOutbox's flags
  tick,      \* the calls of tick in flight, or None
  faults, changes,       \* counters of the bounds
  delivered, \* history: messages of a row that reached Discord
  unknown,   \* history: those whose delivery was not recorded
  willed, shown  \* history: recipients that were willing, and allowed to see
                 \* the meeting, at some moment since their row's lease

rows == <<status, attempts, due>>
settings == <<notify, public>>
process == <<up, stopped, running>>
ledger == <<delivered, unknown>>
since == <<willed, shown>>
vars == <<rows, settings, process, tick, faults, changes, ledger, since>>

Statuses == {"none", "pending", "sent", "skipped", "failed"}
Stages == {"next", "owner", "audience", "identity", "send", "record",
           "failing", "refused"}

\* `seen` is the `attempts` of the rows as they were selected.
TickState == [batch: SUBSET Jobs, seen: [Jobs -> Nat],
              job: Jobs \cup {None}, stage: Stages]

ASSUME TickAssumption == None \notin TickState

At(t, stage) == tick[t] # None /\ tick[t].stage = stage
Goes(t, stage) == tick' = [tick EXCEPT ![t].stage = stage]
NextJob(t) == tick' = [tick EXCEPT ![t].stage = "next", ![t].job = None]
InHand == {j \in Jobs : \E t \in Ticks : tick[t] # None /\ tick[t].job = j}

\* Not public: only the host's user is still told.
MaySee(u) == public \/ u = Host

----------------------------------------------------------------------------
(* The meetings and their routes *)

\* enqueue, as part of a committed transaction, for a willing recipient.
Enqueue(j) ==
  /\ status[j] = "none"
  /\ notify[Recipient[j]]
  /\ status' = [status EXCEPT ![j] = "pending"]
  /\ due' = [due EXCEPT ![j] = TRUE]
  /\ UNCHANGED <<attempts, settings, process, tick, faults, changes, ledger, since>>

\* POST /session/notifications
Notifications(u, enabled) ==
  /\ changes < MaxChanges /\ changes' = changes + 1
  /\ notify' = [notify EXCEPT ![u] = enabled]
  /\ willed' = {j \in Jobs : j \in willed \/ (enabled /\ Recipient[j] = u)}
  /\ UNCHANGED <<rows, public, process, tick, faults, ledger, shown>>

\* The host edits the meeting's audience.
EditAudience ==
  /\ changes < MaxChanges /\ changes' = changes + 1
  /\ public' = ~public
  /\ shown' = IF public' THEN Jobs ELSE shown
  /\ UNCHANGED <<rows, notify, process, tick, faults, ledger, willed>>

\* Mutant: what was sent is queued again as well.
RetriedAll(u) == {j \in Jobs : status[j] \in {"failed", "sent"} /\ Recipient[j] = u}

Retried(u) == {j \in Jobs : status[j] = "failed" /\ Recipient[j] = u /\ notify[u]}

\* POST /session/notifications/retry
Retry(u) ==
  /\ changes < MaxChanges /\ changes' = changes + 1
  /\ status' = [j \in Jobs |-> IF j \in Retried(u) THEN "pending" ELSE status[j]]
  /\ attempts' = [j \in Jobs |-> IF j \in Retried(u) THEN 0 ELSE attempts[j]]
  /\ due' = [j \in Jobs |-> due[j] \/ j \in Retried(u)]
  /\ UNCHANGED <<settings, process, tick, faults, ledger, since>>

----------------------------------------------------------------------------
(* One call of tick *)

Selectable == {j \in Jobs : status[j] = "pending" /\ due[j]}
Lesser(a, b) == IF a < b THEN a ELSE b

MayTick == up /\ ~stopped /\ ~running

\* The timer fires and up to Batch rows are selected.
Tick(t) ==
  /\ tick[t] = None
  /\ MayTick
  /\ \E b \in SUBSET Selectable :
       /\ b # {}
       /\ Cardinality(b) = Lesser(Batch, Cardinality(Selectable))
       /\ tick' = [tick EXCEPT ![t] =
            [batch |-> b, seen |-> attempts, job |-> None, stage |-> "next"]]
  /\ running' = TRUE
  /\ UNCHANGED <<rows, settings, up, stopped, faults, changes, ledger, since>>

\* The next row of the batch is leased, if it is still pending and due.
Lease(t, j) ==
  /\ At(t, "next") /\ ~stopped
  /\ j \in tick[t].batch
  /\ IF status[j] = "pending" /\ due[j]
     THEN /\ due' = [due EXCEPT ![j] = FALSE]
          /\ willed' = IF notify[Recipient[j]] THEN willed \cup {j} ELSE willed \ {j}
          /\ shown' = IF MaySee(Recipient[j]) THEN shown \cup {j} ELSE shown \ {j}
          /\ tick' = [tick EXCEPT
               ![t].batch = @ \ {j}, ![t].job = j, ![t].stage = "owner"]
     ELSE /\ tick' = [tick EXCEPT ![t].batch = @ \ {j}]
          /\ UNCHANGED <<due, since>>
  /\ UNCHANGED <<status, attempts, settings, process, faults, changes,
                 delivered, unknown>>

\* Mutant: no finally, the flag stays.
ReleasesNot == running' = running

\* The finally of tick.
Releases == running' = FALSE

\* The batch is worked off, or the worker was stopped.
TickEnds(t) ==
  /\ At(t, "next")
  /\ tick[t].batch = {} \/ stopped
  /\ tick' = [tick EXCEPT ![t] = None]
  /\ Releases
  /\ UNCHANGED <<rows, settings, up, stopped, faults, changes, ledger, since>>

\* The recipient, or the audience and the host, are read; a row that must not
\* be sent is skipped.
Examine(t, stage, fits, then) ==
  /\ At(t, stage)
  /\ IF fits
     THEN Goes(t, then) /\ status' = status
     ELSE NextJob(t) /\ status' = [status EXCEPT ![tick[t].job] = "skipped"]
  /\ UNCHANGED <<attempts, due, settings, process, faults, changes, ledger, since>>

\* Mutant: the switch is not read again at delivery.
AnyOwner(t) == TRUE

Willing(t) == notify[Recipient[tick[t].job]]

ReadOwner(t) == Examine(t, "owner", Willing(t), "audience")
ReadAudience(t) == Examine(t, "audience", MaySee(Recipient[tick[t].job]), "identity")

\* A database error in these reads, or in the update to skipped.
ReadFails(t) ==
  /\ At(t, "owner") \/ At(t, "audience")
  /\ Goes(t, "failing")
  /\ UNCHANGED <<rows, settings, process, faults, changes, ledger, since>>

\* Cernere names the Discord account, or fails to.
Identify(t) ==
  /\ At(t, "identity")
  /\ Goes(t, "send") \/ Goes(t, "failing")
  /\ UNCHANGED <<rows, settings, process, faults, changes, ledger, since>>

\* The message reaches Discord; its answer may be lost.
Deliver(t) ==
  LET j == tick[t].job
  IN /\ At(t, "send")
     /\ delivered' = [delivered EXCEPT ![j] = @ + 1]
     /\ \/ Goes(t, "record") /\ unknown' = unknown
        \/ Goes(t, "failing") /\ unknown' = [unknown EXCEPT ![j] = @ + 1]
     /\ UNCHANGED <<rows, settings, process, faults, changes, since>>

\* Discord refuses, for good (400, 401, 403, 404) or for now, or is not
\* reached.
SendFails(t) ==
  /\ At(t, "send")
  /\ Goes(t, "refused") \/ Goes(t, "failing")
  /\ UNCHANGED <<rows, settings, process, faults, changes, ledger, since>>

Record(t) ==
  /\ At(t, "record")
  /\ status' = [status EXCEPT ![tick[t].job] = "sent"]
  /\ NextJob(t)
  /\ UNCHANGED <<attempts, due, settings, process, faults, changes, ledger, since>>

\* The update to `sent` fails inside the try: the row is tried again.
RecordFails(t) ==
  /\ At(t, "record")
  /\ faults < MaxFaults /\ faults' = faults + 1
  /\ unknown' = [unknown EXCEPT ![tick[t].job] = @ + 1]
  /\ Goes(t, "failing")
  /\ UNCHANGED <<rows, settings, process, changes, delivered, since>>

GivesUp(t, n) == tick[t].stage = "refused" \/ n >= MaxAttempts

\* The catch of one job: the failure is counted from the row as selected.
Failed(t) ==
  LET j == tick[t].job
      n == tick[t].seen[j] + 1
  IN /\ At(t, "failing") \/ At(t, "refused")
     /\ attempts' = [attempts EXCEPT ![j] = n]
     /\ status' = [status EXCEPT ![j] = IF GivesUp(t, n) THEN "failed" ELSE "pending"]
     /\ due' = [due EXCEPT ![j] = FALSE]
     /\ NextJob(t)
     /\ UNCHANGED <<settings, process, faults, changes, ledger, since>>

\* A database error outside the try of a job ends the call; the lease stays.
TickBreaks(t) ==
  /\ \/ At(t, "next") \/ At(t, "failing") \/ At(t, "refused")
  /\ faults < MaxFaults /\ faults' = faults + 1
  /\ tick' = [tick EXCEPT ![t] = None]
  /\ Releases
  /\ UNCHANGED <<rows, settings, up, stopped, changes, ledger, since>>

----------------------------------------------------------------------------
(* The process and the clock *)

\* The process is gone: what it had delivered and not recorded is unknown.
Dies ==
  /\ up' = FALSE /\ stopped' = FALSE /\ running' = FALSE
  /\ tick' = [t \in Ticks |-> None]
  /\ unknown' = [j \in Jobs |-> unknown[j] + Cardinality(
       {t \in Ticks : At(t, "record") /\ tick[t].job = j})]
  /\ UNCHANGED <<rows, settings, changes, delivered, since>>

Crash ==
  /\ up /\ faults < MaxFaults
  /\ faults' = faults + 1
  /\ Dies

\* SIGTERM: the loop stops before its next job.
Stop ==
  /\ up /\ ~stopped /\ faults < MaxFaults
  /\ faults' = faults + 1
  /\ stopped' = TRUE
  /\ UNCHANGED <<rows, settings, up, running, tick, changes, ledger, since>>

\* The server and the database are closed and the process exits.  A call of
\* tick is not awaited: what it still sends can no longer be recorded, the same
\* as if it had been sent just before.
Exit ==
  /\ up /\ stopped
  /\ faults' = faults
  /\ Dies

Start ==
  /\ ~up
  /\ up' = TRUE
  /\ UNCHANGED <<rows, settings, stopped, running, tick, faults, changes, ledger, since>>

\* A lease or a backoff runs out.
BecomesDue(j) ==
  /\ status[j] = "pending" /\ ~due[j] /\ j \notin InHand
  /\ due' = [due EXCEPT ![j] = TRUE]
  /\ UNCHANGED <<status, attempts, settings, process, tick, faults, changes, ledger, since>>

----------------------------------------------------------------------------
Init ==
  /\ status = [j \in Jobs |-> "none"]
  /\ attempts = [j \in Jobs |-> 0]
  /\ due = [j \in Jobs |-> FALSE]
  /\ notify = [u \in Users |-> TRUE]
  /\ public = TRUE
  /\ up = TRUE /\ stopped = FALSE /\ running = FALSE
  /\ tick = [t \in Ticks |-> None]
  /\ faults = 0 /\ changes = 0
  /\ delivered = [j \in Jobs |-> 0]
  /\ unknown = [j \in Jobs |-> 0]
  /\ willed = {} /\ shown = {}

RouteStep ==
  \/ \E j \in Jobs : Enqueue(j)
  \/ \E u \in Users, e \in BOOLEAN : Notifications(u, e)
  \/ EditAudience
  \/ \E u \in Users : Retry(u)

\* What a call of tick does when nothing goes wrong outside of its jobs.
TickStep(t) ==
  \/ Tick(t) \/ TickEnds(t) \/ \E j \in Jobs : Lease(t, j)
  \/ ReadOwner(t) \/ ReadAudience(t) \/ ReadFails(t) \/ Identify(t)
  \/ Deliver(t) \/ SendFails(t) \/ Record(t) \/ Failed(t)

Breakdown ==
  \/ \E t \in Ticks : RecordFails(t) \/ TickBreaks(t)
  \/ Crash \/ Stop

Next ==
  \/ RouteStep \/ Breakdown \/ Exit \/ Start
  \/ \E t \in Ticks : TickStep(t)
  \/ \E j \in Jobs : BecomesDue(j)

\* The timer fires again and again and every await ends (requests have
\* timeouts); time passes; a process that was stopped exits, and whoever runs
\* it starts it again.
Fairness ==
  /\ WF_vars(\E t \in Ticks : TickStep(t))
  /\ \A j \in Jobs : WF_vars(BecomesDue(j))
  /\ WF_vars(Exit) /\ WF_vars(Start)

Spec == Init /\ [][Next]_vars /\ Fairness

----------------------------------------------------------------------------
(* Properties *)

\* A notification reaches Discord a second time only when a delivery of it
\* went unrecorded: its answer was lost, the process died or the update
\* failed.  Leases, retries asked for by the user and restarts alone never
\* repeat one.
ResentOnlyAfterUnknown ==
  \A j \in Jobs : delivered[j] <= 1 + unknown[j]

\* A message is delivered only to a recipient who wanted notifications, and
\* was allowed to see the meeting, at some moment of this very attempt,
\* however long the row had waited since it was queued or selected.
OnlyWhileWilling ==
  [][\A t \in Ticks : Deliver(t) =>
       tick[t].job \in willed /\ tick[t].job \in shown]_vars

\* Every queued notification is settled in the end: sent, skipped or failed.
EventuallySettled ==
  \A j \in Jobs : status[j] = "pending" ~> status[j] \in {"sent", "skipped", "failed"}
============================================================================
