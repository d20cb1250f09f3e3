------------------------- MODULE MCMeetingSessions -------------------------
(***************************************************************************)
(* A finite instance of MeetingSessions for TLC.                           *)
(***************************************************************************)
EXTENDS MeetingSessions, TLC

NonceSymmetry == Permutations(Nonces)
CallSymmetry == Permutations(Calls)
RandomSymmetry == NonceSymmetry \cup CallSymmetry
============================================================================
