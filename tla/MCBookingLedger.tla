-------------------------- MODULE MCBookingLedger --------------------------
(***************************************************************************)
(* Finite instances of BookingLedger for TLC.                              *)
(***************************************************************************)
EXTENDS LedgerRefinement, TLC

\* Bodies that leave the audience alone.
PlainBodies == {[visibility |-> Unset, group |-> Unset]}

\* Reservation ids are interchangeable random values, requests are anyone's.
IdSymmetry == Permutations(ReservationIds) \cup Permutations(Requests)
============================================================================
