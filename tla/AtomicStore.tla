---------------------------- MODULE AtomicStore ----------------------------
(***************************************************************************)
(* The connection layer (src/server/persistence): every process queues its *)
(* work in front of its connection; a transaction takes the lock that all  *)
(* processes share, works on a view of its own, and commits; a transaction *)
(* inside it, and every statement, is a savepoint.  Any query may fail, a  *)
(* COMMIT's answer may be lost, a process may die.                         *)
(*                                                                         *)
(* SQLite is the case of one process: BEGIN IMMEDIATE is then the lock.    *)
(* The modules that use this one say what the work does, by Write.         *)
(***************************************************************************)
EXTENDS Integers, Sequences

CONSTANTS
  Processes,
  Jobs,      \* calls of transaction(), or of a statement outside of one
  Home,      \* the process of a job
  Initial,   \* the content of the tables
  None

ASSUME StoreAssumption == Home \in [Jobs -> Processes] /\ None \notin Processes

VARIABLES
  content,   \* the committed content
  queue,     \* ConnectionQueue of a process; its head is running
  conn,      \* the transaction of a process: [now, saved], or None
  lock,      \* the process that holds the advisory lock, or None
  answer     \* how the promise of a job was settled, or None

storeVars == <<content, queue, conn, lock, answer>>

Running(j) == LET p == Home[j] IN queue[p] # <<>> /\ Head(queue[p]) = j
InWork(j) == Running(j) /\ conn[Home[j]] # None

\* The content as the work of j sees it.
Seen(j) == conn[Home[j]].now
Depth(j) == Len(conn[Home[j]].saved)

\* The end of a job: its promise is settled, the connection given back.
Ends(j, a) ==
  LET p == Home[j] IN
  /\ answer' = [answer EXCEPT ![j] = a]
  /\ conn' = [conn EXCEPT ![p] = None]
  /\ lock' = IF lock = p THEN None ELSE lock

\* Mutant: a job that failed keeps its place at the head of the queue.
StaysQueued(j) == UNCHANGED queue

\* The tail promise goes on after a rejection as well.
Dequeues(j) == queue' = [queue EXCEPT ![Home[j]] = Tail(@)]

----------------------------------------------------------------------------
(* The steps of a job *)

\* ConnectionQueue.run
Submit(j) ==
  /\ answer[j] = None
  /\ queue' = [queue EXCEPT ![Home[j]] = Append(@, j)]
  /\ UNCHANGED <<content, conn, lock, answer>>

\* Mutant: the processes do not wait for each other.
LockShared(p) == TRUE

\* pg_advisory_xact_lock (or BEGIN IMMEDIATE) is granted.
LockGranted(p) == lock = None

\* The connection is there, the transaction begun and the lock held.
Begin(j) ==
  LET p == Home[j] IN
  /\ Running(j) /\ conn[p] = None
  /\ LockGranted(p)
  /\ lock' = p
  /\ conn' = [conn EXCEPT ![p] = [now |-> content, saved |-> <<>>]]
  /\ UNCHANGED <<content, queue, answer>>

\* A statement that succeeds.  (One that fails is undone by its savepoint;
\* whether the work gives up then is the work's affair.)
Write(j, view) ==
  /\ InWork(j)
  /\ conn' = [conn EXCEPT ![Home[j]].now = view]
  /\ UNCHANGED <<content, queue, lock, answer>>

\* transaction() inside of a transaction.
Nest(j) ==
  /\ InWork(j)
  /\ conn' = [conn EXCEPT ![Home[j]].saved = Append(@, Seen(j))]
  /\ UNCHANGED <<content, queue, lock, answer>>

Release(j) ==
  /\ InWork(j) /\ Depth(j) > 0
  /\ conn' = [conn EXCEPT ![Home[j]].saved = SubSeq(@, 1, Depth(j) - 1)]
  /\ UNCHANGED <<content, queue, lock, answer>>

\* ROLLBACK TO SAVEPOINT undoes what was written since that savepoint.
RollbackTo(j) ==
  /\ InWork(j) /\ Depth(j) > 0
  /\ conn' = [conn EXCEPT ![Home[j]] =
       [now |-> @.saved[Depth(j)], saved |-> SubSeq(@.saved, 1, Depth(j) - 1)]]
  /\ UNCHANGED <<content, queue, lock, answer>>

\* COMMIT, and its answer, which may be lost.
Commit(j) ==
  /\ InWork(j) /\ Depth(j) = 0
  /\ content' = Seen(j)
  /\ \E a \in {"done", "unknown"} : Ends(j, a)
  /\ Dequeues(j)

\* The work throws, and nothing of it stays.
Rollback(j) ==
  /\ InWork(j)
  /\ Ends(j, "failed")
  /\ Dequeues(j)
  /\ UNCHANGED content

\* No connection, no lock within the timeout, a connection that is lost or a
\* COMMIT that fails.
Fails(j) ==
  /\ Running(j)
  /\ Ends(j, "unknown")
  /\ Dequeues(j)
  /\ UNCHANGED content

\* A process dies; the database rolls its transaction back.
Crash(p) ==
  LET lost == {j \in Jobs : \E i \in DOMAIN queue[p] : queue[p][i] = j} IN
  /\ queue' = [queue EXCEPT ![p] = <<>>]
  /\ conn' = [conn EXCEPT ![p] = None]
  /\ lock' = IF lock = p THEN None ELSE lock
  /\ answer' = [j \in Jobs |-> IF j \in lost THEN "unknown" ELSE answer[j]]
  /\ UNCHANGED content

StoreInit ==
  /\ content = Initial
  /\ queue = [p \in Processes |-> <<>>]
  /\ conn = [p \in Processes |-> None]
  /\ lock = None
  /\ answer = [j \in Jobs |-> None]
=============================================================================
