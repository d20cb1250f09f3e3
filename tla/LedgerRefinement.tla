-------------------------- MODULE LedgerRefinement --------------------------
(***************************************************************************)
(* BookingLedger implements FacilityCalendar: every multi-step request     *)
(* takes effect in the one step that commits it.                           *)
(***************************************************************************)
EXTENDS BookingLedger

CONSTANT Over

\* What the calendar holds for a row: purpose, audience and requests are of
\* no concern to it, and a cancelled row is over.
HoldingOf(row) ==
  IF row = NoRow THEN NoRow
  ELSE IF row.state = "cancelled" THEN Over
  ELSE [facility |-> row.facility, owner |-> row.owner, start |-> row.start,
        end |-> row.end, meeting |-> row.meeting]

Calendar == INSTANCE FacilityCalendar WITH
  Bookings <- ReservationIds,
  Times <- Minutes,
  Free <- NoRow,
  shared <- {f \in Facilities : facility_cache[f] = "shared"},
  calendar <- [r \in ReservationIds |-> HoldingOf(reservation[r])]

ASSUME OverAssumption ==
  Over # NoRow /\ Over \notin Calendar!Holding /\ NoRow \notin Calendar!Holding

\* Whatever requests interleave, the rows behave like a calendar whose
\* bookings are made, moved, exchanged and ended in single steps.
ImplementsCalendar == Calendar!Spec
============================================================================
