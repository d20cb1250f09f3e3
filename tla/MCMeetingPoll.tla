--------------------------- MODULE MCMeetingPoll ---------------------------
(***************************************************************************)
(* Finite instances of MeetingPoll for TLC.                                *)
(***************************************************************************)
EXTENDS MeetingPoll, LedgerRefinement, TLC

CONSTANTS s1, v1, f1

Silent == [visibility |-> Unset, group |-> Unset]
Close == [visibility |-> "private", group |-> Unset]

From(start) == [start |-> start, end |-> start + 1, venue |-> None]
OnlySlot(candidate) == [s \in SlotIds |-> IF s = s1 THEN candidate ELSE None]

\* One candidate at `start` and at no venue.
Body(start, guest, audience) ==
  [slots |-> OnlySlot(From(start)), venues |-> [v \in VenueNames |-> None],
   guest |-> guest, audience |-> audience]

\* Open to guests, and moved and closed with the guest setting left out.
AnswerInputs == {Body(0, TRUE, Silent), Body(1, Unset, Close)}

StillInputs == {Body(0, TRUE, Silent)}

AtVenue(facility, busy) ==
  [slots |-> OnlySlot([start |-> 0, end |-> 1, venue |-> v1]),
   venues |-> [v \in VenueNames |->
     IF v = v1 THEN [facility |-> facility, busy |-> busy] ELSE None],
   guest |-> Unset, audience |-> Silent]

\* A candidate at a facility, at a venue that is no facility, and at a
\* facility that is busy then.
VenueInputs ==
  {AtVenue(f1, {}), AtVenue(None, {}), AtVenue(f1, {[start |-> 0, end |-> 1]})}

SilentBodies == {Silent}

OneId == 1..1
TwoIds == 1..2
ThreeIds == 1..3

AnswerSymmetry == Permutations(ResponseIds)
PollSymmetry ==
  Permutations(ResponseIds) \cup Permutations(Browsers) \cup Permutations(Texts)
RowSymmetry == Permutations(ReservationIds)
============================================================================
