-------------------------- MODULE MCMeetingOutbox --------------------------
(***************************************************************************)
(* A finite instance of MeetingOutbox for TLC: two notifications, one of   *)
(* the host and one of a participant.  No symmetry: the run checks a       *)
(* liveness property.                                                      *)
(***************************************************************************)
EXTENDS MeetingOutbox

CONSTANTS j1, j2, host, guest

MCRecipient == [j \in Jobs |-> IF j = j1 THEN guest ELSE host]
============================================================================
