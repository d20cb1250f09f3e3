--------------------------- MODULE BookingAccess ---------------------------
(***************************************************************************)
(* The audience of a booking (src/server/booking-access/policy.ts): who    *)
(* may read a reservation or a meeting, and which audiences a principal    *)
(* may give it.  Pure operators, shared by the reservation ledger and by   *)
(* the meeting polls.                                                      *)
(***************************************************************************)

CONSTANTS
  Groups,       \* organizations and teams of the signed booking context
  NoGroup,      \* a null group
  Visibilities, \* the visibilities the instance distinguishes
  Unset         \* a field the request body leaves out

ASSUME AccessAssumption ==
  /\ NoGroup \notin Groups
  /\ Visibilities \subseteq {"public", "internal", "private"}
  /\ "public" \in Visibilities
  /\ Unset \notin Visibilities
  /\ Unset \notin Groups \cup {NoGroup}

Audience == [visibility: Visibilities, group: Groups \cup {NoGroup}]

\* The audience part of a request body: each field may be left out, and a
\* group may be given as null (NoGroup).
AudienceBody == [visibility: Visibilities \cup {Unset},
                 group: Groups \cup {NoGroup, Unset}]

\* What a booking without a booking_audience row reads as, and what an
\* omitted field defaults to on creation.
PublicAudience == [visibility |-> "public", group |-> NoGroup]

\* The audience a body asks for: an omitted field keeps the current value.
RequestedAudience(body, current) ==
  [visibility |-> IF body.visibility = Unset THEN current.visibility
                                             ELSE body.visibility,
   group      |-> IF body.group = Unset THEN current.group ELSE body.group]

\* parseAudience accepts the audience for a principal: a named group must be
\* one of a logged-in principal's groups, anything but public needs a login,
\* and internal needs a group.
MayUseAudience(audience, groups, loggedIn) ==
  /\ audience.group # NoGroup => loggedIn /\ audience.group \in groups
  /\ audience.visibility # "public" => loggedIn
  /\ audience.visibility = "internal" => audience.group # NoGroup

\* canReadBooking
CanReadBooking(audience, groups, loggedIn, isOwner) ==
  \/ isOwner
  \/ audience.visibility = "public"
  \/ /\ loggedIn
     /\ audience.visibility # "private"
     /\ audience.group \in groups
============================================================================
