---------------------------- MODULE MCGlabTarget ----------------------------
(***************************************************************************)
(* A finite instance of GlabTarget for TLC: one delegation presented twice *)
(* to two processes, once with the group of the meeting and once without,  *)
(* an operation of the owner, and the owner's edit of the audience.        *)
(***************************************************************************)
EXTENDS GlabTarget

CONSTANTS q1, q2, q3, e1, p1, p2, d1, d2, g1

MCHome == [j \in Jobs |-> IF j = q2 THEN p2 ELSE p1]
MCInitial == [audience |-> PublicAudience, rows |-> [c \in Calls |-> 0]]
MCToken == [c \in Calls |-> IF c = q3 THEN d2 ELSE d1]
MCMemberOf == [c \in Calls |-> IF c = q1 THEN {g1} ELSE {}]
MCDeadline == [t \in Tokens |-> IF t = d1 THEN 2 ELSE 1]
MCContextEnd == [c \in Calls |-> IF c = q1 THEN 1 ELSE 2]
=============================================================================
