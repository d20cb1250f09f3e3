------------------------------- MODULE Store -------------------------------
(***************************************************************************)
(* What src/server/persistence promises the rest of the program: the work  *)
(* handed to it takes effect in one step, whole and once, or never; work   *)
(* that fails leaves nothing behind; of an answer that is lost nobody can  *)
(* tell.                                                                   *)
(***************************************************************************)
CONSTANTS
  Jobs,          \* pieces of work
  Outcomes(_, _),\* what a job may make of a content
  Initial,       \* the first content
  None

VARIABLES
  content,       \* what every connection reads outside a transaction
  answer         \* None, "done", "failed" or "unknown"

vars == <<content, answer>>

Init == content = Initial /\ answer = [j \in Jobs |-> None]

Take(j) ==
  /\ answer[j] = None
  /\ content' \in Outcomes(j, content)
  /\ answer' \in {[answer EXCEPT ![j] = a] : a \in {"done", "unknown"}}

\* Nothing was written, which the caller may not know.
Refuse(j) ==
  /\ answer[j] = None
  /\ answer' \in {[answer EXCEPT ![j] = a] : a \in {"failed", "unknown"}}
  /\ UNCHANGED content

\* A process dies: what its work has not done by then it never does.
Lose(lost) ==
  /\ \A j \in lost : answer[j] = None
  /\ answer' = [j \in Jobs |-> IF j \in lost THEN "unknown" ELSE answer[j]]
  /\ UNCHANGED content

Next == (\E j \in Jobs : Take(j) \/ Refuse(j)) \/ \E lost \in SUBSET Jobs : Lose(lost)

Spec == Init /\ [][Next]_vars
=============================================================================
