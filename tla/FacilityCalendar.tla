-------------------------- MODULE FacilityCalendar --------------------------
(***************************************************************************)
(* What the reservation ledger promises its users, without requests,       *)
(* caches or transactions: a calendar in which a booking is made, moved,   *)
(* exchanged or ended in one step, and never placed on top of another one  *)
(* while its facility is exclusive.                                        *)
(***************************************************************************)
EXTENDS Integers

CONSTANTS
  Facilities, Users, Meetings, Bookings, Times,
  Free,      \* a booking that was not made yet
  Over,      \* a booking that ended; it never comes back
  NoMeeting

VARIABLES
  shared,    \* the facilities that admit overlaps
  calendar   \* each booking: Free, Over or what is held

vars == <<shared, calendar>>

Holding == [facility: Facilities, owner: Users, start: Times, end: Times,
            meeting: Meetings \cup {NoMeeting}]

Held(b) == calendar[b] \notin {Free, Over}

\* A holding may be placed when its facility is shared or it overlaps none
\* of the other bookings held there.
Fits(h, but) ==
  \/ h.facility \in shared
  \/ \A b \in Bookings : Held(b) /\ b # but =>
       \/ calendar[b].facility # h.facility
       \/ calendar[b].end <= h.start
       \/ calendar[b].start >= h.end

Proper(h) == h.start < h.end

Init == shared = {} /\ calendar = [b \in Bookings |-> Free]

Book(b, h) ==
  /\ calendar[b] = Free
  /\ Proper(h)
  /\ Fits(h, b)
  /\ calendar' = [calendar EXCEPT ![b] = h]
  /\ UNCHANGED shared

\* A booking moves in time; the facility, the owner and the meeting it
\* belongs to never change, and a meeting's booking does not move.
Move(b, start, end) ==
  LET h == [calendar[b] EXCEPT !.start = start, !.end = end] IN
  /\ Held(b)
  /\ calendar[b].meeting = NoMeeting
  /\ Proper(h)
  /\ Fits(h, b)
  /\ calendar' = [calendar EXCEPT ![b] = h]
  /\ UNCHANGED shared

End(b) ==
  /\ Held(b)
  /\ calendar' = [calendar EXCEPT ![b] = Over]
  /\ UNCHANGED shared

\* A meeting gives up its booking and gets another one in the same step.
Exchange(old, b, h) ==
  /\ Held(old)
  /\ calendar[old].meeting # NoMeeting
  /\ calendar[old].meeting = h.meeting
  /\ calendar[b] = Free
  /\ Proper(h)
  /\ Fits(h, old)
  /\ calendar' = [calendar EXCEPT ![old] = Over, ![b] = h]
  /\ UNCHANGED shared

SetPolicy(s) == shared' = s /\ UNCHANGED calendar

Next ==
  \/ \E b \in Bookings, h \in Holding : Book(b, h)
  \/ \E b \in Bookings, s, e \in Times : Move(b, s, e)
  \/ \E b \in Bookings : End(b)
  \/ \E old, b \in Bookings, h \in Holding : Exchange(old, b, h)
  \/ \E s \in SUBSET Facilities : SetPolicy(s)

Spec == Init /\ [][Next]_vars
============================================================================
