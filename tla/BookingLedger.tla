--------------------------- MODULE BookingLedger ---------------------------
(***************************************************************************)
(* The reservation ledger of Aedilis: the reservation and facility routes  *)
(* (src/server/routes/reservations.ts, facilities.ts), the rows they share *)
(* (src/server/db.ts) and the two operations the meetings run on the same  *)
(* rows inside their own transactions (meetings/facility-reservation.ts).  *)
(*                                                                         *)
(* A statement outside a transaction and a whole transaction are the units *)
(* the database serialises (persistence/database.ts), so each is one       *)
(* action; a request that awaits several of them is a record that moves    *)
(* from step to step while other requests run.                             *)
(***************************************************************************)
EXTENDS Integers, BookingAccess

CONSTANTS
  Facilities,      \* ids of facilities the source may know
  Users,           \* Cernere user ids
  Admins,          \* AEDILIS_ADMIN_IDS
  Meetings,        \* meeting ids
  ReservationIds,  \* the randomUUIDs reservations may get (bounds the rows)
  Requests,        \* HTTP requests in flight at the same time
  Bodies,          \* the audience parts of the bodies the instance sends
  Instants,        \* points in time a body may name
  TicksPerMinute,  \* instants per minute
  Declared,        \* overlap policies the facility source declares
  NoRow, NoId, NoMeeting, Idle

ASSUME LedgerAssumption ==
  /\ Admins \subseteq Users
  /\ Instants \subseteq Nat
  /\ TicksPerMinute \in Nat \ {0}
  /\ NoId \notin ReservationIds
  /\ NoMeeting \notin Meetings
  /\ Unset \notin Nat
  /\ Declared \subseteq {"exclusive", "shared"}
  /\ Bodies \subseteq AudienceBody

VARIABLES
  facility_cache,  \* allow_overlap of each cached facility, or "absent"
  reservation,     \* reservation and booking_audience rows by id
  link,            \* meeting_facility_reservation: meeting -> reservation id
  request          \* the request each handler is working on

ledgerVars == <<facility_cache, reservation, link>>
vars == <<facility_cache, reservation, link, request>>

----------------------------------------------------------------------------
(* Rows *)

\* parseMinute and the rounding of a finalized slot: seconds are cut off.
Minute(t) == t \div TicksPerMinute
Minutes == {Minute(t) : t \in Instants}

\* `meeting` is a history variable: the meeting the row was created for.
ReservationRow ==
  [facility: Facilities, owner: Users, start: Minutes, end: Minutes,
   audience: Audience, state: {"confirmed", "cancelled"},
   meeting: Meetings \cup {NoMeeting}]

ASSUME NoRowAssumption == NoRow \notin ReservationRow

PolicyValue == {"absent", "exclusive", "shared"}

Active(rows, r) == rows[r] # NoRow /\ rows[r].state # "cancelled"

\* [s1,e1) and [s2,e2) overlap iff s1 < e2 and s2 < e1.
Overlaps(s1, e1, s2, e2) == s1 < e2 /\ e1 > s2

FindConflicts(rows, facility, start, end, exclude) ==
  {r \in ReservationIds : /\ Active(rows, r)
                          /\ rows[r].facility = facility
                          /\ Overlaps(rows[r].start, rows[r].end, start, end)
                          /\ r # exclude}

\* The check of every writing transaction: the facility is shared, or no
\* active reservation of it overlaps.
SlotIsFree(rows, facility, start, end, exclude) ==
  \/ facility_cache[facility] = "shared"
  \/ FindConflicts(rows, facility, start, end, exclude) = {}

Cancelled(rows, r) == [rows EXCEPT ![r].state = "cancelled"]

\* The INSERT ... ON CONFLICT of upsertFacilityCache: the source decides
\* allow_overlap only when the row is new.
UpsertFacilityCache(facility, declared) ==
  facility_cache' = [facility_cache EXCEPT
    ![facility] = IF @ = "absent" THEN declared ELSE @]

----------------------------------------------------------------------------
(* Requests *)

\* `staleStart` and `staleEnd` are the row's times when a PATCH read it
\* outside its transaction; `shared` is the policy a POST or PATCH read
\* before its preflight, or the value an overlap toggle is to set.
RequestRecord ==
  [op: {"post", "patch", "toggle"},
   step: {"read", "parse", "resolve", "policy", "preflight", "commit",
          "set", "view"},
   user: Users, groups: SUBSET Groups, audience: AudienceBody,
   facility: Facilities \cup {Unset}, id: ReservationIds \cup {NoId},
   bodyStart: Minutes \cup {Unset}, bodyEnd: Minutes \cup {Unset},
   staleStart: Minutes \cup {Unset}, staleEnd: Minutes \cup {Unset},
   shared: BOOLEAN]

ASSUME IdleAssumption == Idle \notin RequestRecord

At(q, op, step) ==
  /\ request[q] # Idle
  /\ request[q].op \in op
  /\ request[q].step = step

GoTo(q, step) == request' = [request EXCEPT ![q].step = step]
Finish(q) == request' = [request EXCEPT ![q] = Idle]

\* The times a PATCH or POST asks for, as computed before its transaction.
AskedStart(q) == IF request[q].bodyStart = Unset THEN request[q].staleStart
                                                 ELSE request[q].bodyStart
AskedEnd(q) == IF request[q].bodyEnd = Unset THEN request[q].staleEnd
                                             ELSE request[q].bodyEnd

----------------------------------------------------------------------------
(* Facility routes *)

\* GET /facilities and GET /facilities/:id: syncAndView of a facility the
\* source lists.
SyncFacility(f, declared) ==
  /\ UpsertFacilityCache(f, declared)
  /\ UNCHANGED <<reservation, link, request>>

\* POST /facilities/:id/overlap by an admin, up to the first syncAndView.
ToggleBegin(q, user, f, shared, declared) ==
  /\ request[q] = Idle
  /\ user \in Admins
  /\ UpsertFacilityCache(f, declared)
  /\ request' = [request EXCEPT ![q] =
       [op |-> "toggle", step |-> "set", user |-> user, groups |-> {},
        audience |-> [visibility |-> Unset, group |-> Unset],
        facility |-> f, id |-> NoId, bodyStart |-> Unset, bodyEnd |-> Unset,
        staleStart |-> Unset, staleEnd |-> Unset, shared |-> shared]]
  /\ UNCHANGED <<reservation, link>>

\* setFacilityOverlap
ToggleSet(q) ==
  /\ At(q, {"toggle"}, "set")
  /\ facility_cache' = [facility_cache EXCEPT ![request[q].facility] =
       IF @ = "absent" THEN @
       ELSE IF request[q].shared THEN "shared" ELSE "exclusive"]
  /\ GoTo(q, "view")
  /\ UNCHANGED <<reservation, link>>

\* The second syncAndView, for the answer.
ToggleView(q, declared) ==
  /\ At(q, {"toggle"}, "view")
  /\ UpsertFacilityCache(request[q].facility, declared)
  /\ Finish(q)
  /\ UNCHANGED <<reservation, link>>

----------------------------------------------------------------------------
(* Reservation routes *)

\* POST /: body, audience and range are checked before anything is read.
PostBegin(q, user, groups, body, f, start, end) ==
  /\ request[q] = Idle
  /\ MayUseAudience(RequestedAudience(body, PublicAudience), groups, TRUE)
  /\ start < end
  /\ request' = [request EXCEPT ![q] =
       [op |-> "post", step |-> "resolve", user |-> user, groups |-> groups,
        audience |-> body, facility |-> f, id |-> NoId,
        bodyStart |-> start, bodyEnd |-> end,
        staleStart |-> Unset, staleEnd |-> Unset, shared |-> FALSE]]
  /\ UNCHANGED ledgerVars

\* Mutant: PATCH does not look at the link table.
PatchBeginUnlinked(q, user, groups, body, id, start, end) ==
  /\ request[q] = Idle
  /\ reservation[id] # NoRow
  /\ request' = [request EXCEPT ![q] =
       [op |-> "patch", step |-> "read", user |-> user, groups |-> groups,
        audience |-> body, facility |-> Unset, id |-> id,
        bodyStart |-> start, bodyEnd |-> end,
        staleStart |-> Unset, staleEnd |-> Unset, shared |-> FALSE]]
  /\ UNCHANGED ledgerVars

\* PATCH /:id: the check that no meeting manages the reservation.  A client
\* names a row that exists: a randomUUID is not known before it is created.
PatchBegin(q, user, groups, body, id, start, end) ==
  /\ request[q] = Idle
  /\ reservation[id] # NoRow
  /\ \A m \in Meetings : link[m] # id
  /\ request' = [request EXCEPT ![q] =
       [op |-> "patch", step |-> "read", user |-> user, groups |-> groups,
        audience |-> body, facility |-> Unset, id |-> id,
        bodyStart |-> start, bodyEnd |-> end,
        staleStart |-> Unset, staleEnd |-> Unset, shared |-> FALSE]]
  /\ UNCHANGED ledgerVars

\* PATCH /:id: getReservation outside the transaction and the owner check.
PatchRead(q) ==
  /\ At(q, {"patch"}, "read")
  /\ LET row == reservation[request[q].id] IN
     /\ Active(reservation, request[q].id)
     /\ row.owner = request[q].user
     /\ request' = [request EXCEPT ![q] = [@ EXCEPT
          !.step = "parse", !.facility = row.facility,
          !.staleStart = row.start, !.staleEnd = row.end]]
  /\ UNCHANGED ledgerVars

\* PATCH /:id: readAudience and parseAudience, the range of the asked times,
\* and whether they differ from the times read.
PatchParse(q) ==
  /\ At(q, {"patch"}, "parse")
  /\ MayUseAudience(RequestedAudience(request[q].audience,
                                      reservation[request[q].id].audience),
                    request[q].groups, TRUE)
  /\ AskedStart(q) < AskedEnd(q)
  /\ GoTo(q, IF /\ AskedStart(q) = request[q].staleStart
                /\ AskedEnd(q) = request[q].staleEnd
             THEN "commit" ELSE "resolve")
  /\ UNCHANGED ledgerVars

\* resolveFacility, first half: the source knows the facility and the cache
\* row is upserted.
ResolveKnown(q, declared) ==
  /\ At(q, {"post", "patch"}, "resolve")
  /\ UpsertFacilityCache(request[q].facility, declared)
  /\ GoTo(q, "policy")
  /\ UNCHANGED <<reservation, link>>

\* resolveFacility when the source does not know the facility: a POST ends
\* with 404, a PATCH goes on as if overlaps were forbidden.
ResolveUnknown(q) ==
  /\ At(q, {"patch"}, "resolve")
  /\ GoTo(q, "preflight")
  /\ UNCHANGED ledgerVars

\* resolveFacility, second half: allow_overlap is read back.
ReadPolicy(q) ==
  /\ At(q, {"post", "patch"}, "policy")
  /\ request' = [request EXCEPT ![q] = [@ EXCEPT
       !.step = "preflight",
       !.shared = facility_cache[request[q].facility] = "shared"]]
  /\ UNCHANGED ledgerVars

\* The fast rejection outside the transaction.
Preflight(q) ==
  /\ At(q, {"post", "patch"}, "preflight")
  /\ \/ request[q].shared
     \/ FindConflicts(reservation, request[q].facility,
                      AskedStart(q), AskedEnd(q), request[q].id) = {}
  /\ GoTo(q, "commit")
  /\ UNCHANGED ledgerVars

\* Mutant: only the preflight looks for conflicts.
PostAcceptedUnchecked(q) ==
  MayUseAudience(RequestedAudience(request[q].audience, PublicAudience),
                 request[q].groups, TRUE)

\* Mutant: the transaction trusts the policy read before the preflight.
PostAcceptedStalePolicy(q) ==
  /\ \/ request[q].shared
     \/ FindConflicts(reservation, request[q].facility,
                      request[q].bodyStart, request[q].bodyEnd, NoId) = {}
  /\ PostAcceptedUnchecked(q)

\* What the transaction of POST / checks: the slot again, under the current
\* policy, and the audience.
PostAccepted(q) ==
  /\ SlotIsFree(reservation, request[q].facility,
                request[q].bodyStart, request[q].bodyEnd, NoId)
  /\ MayUseAudience(RequestedAudience(request[q].audience, PublicAudience),
                    request[q].groups, TRUE)

\* The transaction of POST /.
PostCommit(q, id) ==
  /\ At(q, {"post"}, "commit")
  /\ reservation[id] = NoRow
  /\ PostAccepted(q)
  /\ reservation' = [reservation EXCEPT ![id] =
       [facility |-> request[q].facility, owner |-> request[q].user,
        start |-> request[q].bodyStart, end |-> request[q].bodyEnd,
        audience |-> RequestedAudience(request[q].audience, PublicAudience),
        state |-> "confirmed", meeting |-> NoMeeting]]
  /\ Finish(q)
  /\ UNCHANGED <<facility_cache, link>>

\* In the transaction of PATCH /:id the row is read again, and a field the
\* body leaves out keeps the value read here.
Latest(q) == reservation[request[q].id]

LockedStart(q) ==
  IF request[q].bodyStart = Unset THEN Latest(q).start ELSE request[q].bodyStart

LockedEnd(q) ==
  IF request[q].bodyEnd = Unset THEN Latest(q).end ELSE request[q].bodyEnd

LockedAudience(q) ==
  RequestedAudience(request[q].audience, Latest(q).audience)

\* Mutant: the range was checked on the asked times only.
PatchAcceptedUnranged(q) ==
  /\ Active(reservation, request[q].id)
  /\ Latest(q).owner = request[q].user
  /\ SlotIsFree(reservation, Latest(q).facility,
                LockedStart(q), LockedEnd(q), request[q].id)
  /\ MayUseAudience(LockedAudience(q), request[q].groups, TRUE)

\* Mutant: the row's state is not read again.
PatchAcceptedAnyState(q) ==
  /\ reservation[request[q].id] # NoRow
  /\ Latest(q).owner = request[q].user
  /\ LockedStart(q) < LockedEnd(q)
  /\ SlotIsFree(reservation, Latest(q).facility,
                LockedStart(q), LockedEnd(q), request[q].id)
  /\ MayUseAudience(LockedAudience(q), request[q].groups, TRUE)

PatchAccepted(q) ==
  /\ Active(reservation, request[q].id)
  /\ Latest(q).owner = request[q].user
  /\ LockedStart(q) < LockedEnd(q)
  /\ SlotIsFree(reservation, Latest(q).facility,
                LockedStart(q), LockedEnd(q), request[q].id)
  /\ MayUseAudience(LockedAudience(q), request[q].groups, TRUE)

\* The transaction of PATCH /:id.
PatchCommit(q) ==
  /\ At(q, {"patch"}, "commit")
  /\ PatchAccepted(q)
  /\ reservation' = [reservation EXCEPT ![request[q].id] = [@ EXCEPT
       !.start = LockedStart(q), !.end = LockedEnd(q),
       !.audience = LockedAudience(q)]]
  /\ Finish(q)
  /\ UNCHANGED <<facility_cache, link>>

\* Any early return, thrown refusal (400, 403, 404, 409), expired booking
\* context or lost connection ends a request without a write.
RequestFails(q) ==
  /\ request[q] # Idle
  /\ Finish(q)
  /\ UNCHANGED ledgerVars

\* Mutant: DELETE does not look at the link table.
DeleteReservationUnlinked(user, id) ==
  /\ Active(reservation, id)
  /\ reservation[id].owner = user \/ user \in Admins
  /\ reservation' = Cancelled(reservation, id)
  /\ UNCHANGED <<facility_cache, link, request>>

\* DELETE /:id is one transaction from its first check to its write.
DeleteReservation(user, id) ==
  /\ \A m \in Meetings : link[m] # id
  /\ Active(reservation, id)
  /\ reservation[id].owner = user \/ user \in Admins
  /\ reservation' = Cancelled(reservation, id)
  /\ UNCHANGED <<facility_cache, link, request>>

----------------------------------------------------------------------------
(* Operations of the meetings, inside the transaction of their caller *)

\* Mutant: a meeting finalized again keeps its previous reservation.
ReleasedNothing(m) == reservation

\* releaseMeetingFacility: the rows after it.  The link row stays.
Released(m) ==
  IF link[m] # NoId /\ Active(reservation, link[m])
  THEN Cancelled(reservation, link[m]) ELSE reservation

ReleaseMeetingFacility(m) ==
  /\ reservation' = Released(m)
  /\ UNCHANGED <<facility_cache, link, request>>

\* reserveMeetingFacility for a slot at a facility: checked against all other
\* reservations, the previous one of the meeting released, the new one
\* created for the acting user and linked.
ReserveMeetingFacility(m, user, f, start, end, audience, id) ==
  /\ facility_cache[f] # "absent"
  /\ start < end
  /\ SlotIsFree(reservation, f, start, end, link[m])
  /\ reservation[id] = NoRow
  /\ reservation' = [Released(m) EXCEPT ![id] =
       [facility |-> f, owner |-> user, start |-> start, end |-> end,
        audience |-> audience, state |-> "confirmed", meeting |-> m]]
  /\ link' = [link EXCEPT ![m] = id]
  /\ UNCHANGED <<facility_cache, request>>

MeetingReserves(m) ==
  \E user \in Users, f \in Facilities, start, end \in Minutes,
     audience \in Audience, id \in ReservationIds :
    /\ MayUseAudience(audience, Groups, TRUE)
    /\ ReserveMeetingFacility(m, user, f, start, end, audience, id)

----------------------------------------------------------------------------
Init ==
  /\ facility_cache = [f \in Facilities |-> "absent"]
  /\ reservation = [r \in ReservationIds |-> NoRow]
  /\ link = [m \in Meetings |-> NoId]
  /\ request = [q \in Requests |-> Idle]

FacilityStep ==
  \/ \E f \in Facilities, d \in Declared : SyncFacility(f, d)
  \/ \E q \in Requests, u \in Users, f \in Facilities, b \in BOOLEAN,
        d \in Declared : ToggleBegin(q, u, f, b, d)
  \/ \E q \in Requests : ToggleSet(q)
  \/ \E q \in Requests, d \in Declared : ToggleView(q, d)

BeginStep ==
  \/ \E q \in Requests, u \in Users, g \in SUBSET Groups,
        body \in Bodies, f \in Facilities, s, e \in Minutes :
       PostBegin(q, u, g, body, f, s, e)
  \/ \E q \in Requests, u \in Users, g \in SUBSET Groups,
        body \in Bodies, id \in ReservationIds,
        s, e \in Minutes \cup {Unset} :
       PatchBegin(q, u, g, body, id, s, e)

AwaitStep ==
  \/ \E q \in Requests : PatchRead(q)
  \/ \E q \in Requests : PatchParse(q)
  \/ \E q \in Requests, d \in Declared : ResolveKnown(q, d)
  \/ \E q \in Requests : ResolveUnknown(q)
  \/ \E q \in Requests : ReadPolicy(q)
  \/ \E q \in Requests : Preflight(q)
  \/ \E q \in Requests : RequestFails(q)

CommitStep ==
  \/ \E q \in Requests, id \in ReservationIds : PostCommit(q, id)
  \/ \E q \in Requests : PatchCommit(q)
  \/ \E u \in Users, id \in ReservationIds : DeleteReservation(u, id)

MeetingStep ==
  \/ \E m \in Meetings : MeetingReserves(m)
  \/ \E m \in Meetings : ReleaseMeetingFacility(m)

Next == FacilityStep \/ BeginStep \/ AwaitStep \/ CommitStep \/ MeetingStep

Spec == Init /\ [][Next]_vars

----------------------------------------------------------------------------
(* Properties *)

\* A request carries what its steps rely on: a POST a facility and both
\* times, a toggle an admin, a PATCH a row that exists and, once it was read,
\* the facility and times of that row.
RequestShape ==
  \A q \in Requests : request[q] # Idle =>
    LET r == request[q] IN
    /\ r.op = "post" => /\ r.facility \in Facilities
                        /\ r.bodyStart \in Minutes
                        /\ r.bodyEnd \in Minutes
    /\ r.op = "toggle" => r.facility \in Facilities /\ r.user \in Admins
    /\ r.op = "patch" => /\ r.id \in ReservationIds
                         /\ reservation[r.id] # NoRow
    /\ r.op = "patch" /\ r.step # "read" =>
         /\ r.facility = reservation[r.id].facility
         /\ r.staleStart \in Minutes
         /\ r.staleEnd \in Minutes

\* Every row, every request in flight and both side tables hold values of
\* their columns' types, and no step of a request meets a field it lacks.
TypeOK ==
  /\ RequestShape
  /\ facility_cache \in [Facilities -> PolicyValue]
  /\ reservation \in [ReservationIds -> ReservationRow \cup {NoRow}]
  /\ link \in [Meetings -> ReservationIds \cup {NoId}]
  /\ request \in [Requests -> RequestRecord \cup {Idle}]

Rows == {r \in ReservationIds : reservation[r] # NoRow}

\* Two active reservations of one facility that overlap.
Clash(rows, r1, r2) ==
  /\ r1 # r2
  /\ Active(rows, r1)
  /\ Active(rows, r2)
  /\ rows[r1].facility = rows[r2].facility
  /\ Overlaps(rows[r1].start, rows[r1].end, rows[r2].start, rows[r2].end)

\* A step makes two reservations overlap only at a facility that is shared
\* when the step commits: the policy and the rows a request read in its
\* preflight may be stale by then (the recheck under the transaction).
OverlapOnlyWhenShared ==
  [][\A r1, r2 \in ReservationIds :
       Clash(reservation', r1, r2) /\ ~Clash(reservation, r1, r2)
         => facility_cache[reservation'[r1].facility] = "shared"]_vars

\* No reservation is empty or inverted, also after two PATCH requests that
\* each move one end and computed the range from the other's old value
\* (ReservationRangeError, and the 1-minute minimum of a meeting's slot).
IntervalsAreProper ==
  \A r \in Rows : reservation[r].start < reservation[r].end

\* A meeting has at most one active reservation, the one its link row names,
\* however often it is finalized again.
MeetingHoldsOneReservation ==
  /\ \A r \in ReservationIds :
       Active(reservation, r) /\ reservation[r].meeting # NoMeeting
         => link[reservation[r].meeting] = r
  /\ \A m \in Meetings : link[m] # NoId =>
       /\ reservation[link[m]] # NoRow
       /\ reservation[link[m]].meeting = m

\* A reservation made by a meeting is changed by that meeting only: no PATCH
\* or DELETE reaches it, although PATCH looks at the link table outside of
\* its transaction.  All the meeting ever does to it is cancel it.
ManagedFromMeetingOnly ==
  [][\A r \in Rows :
       reservation[r].meeting # NoMeeting /\ reservation'[r] # reservation[r]
         => /\ reservation'[r] = [reservation[r] EXCEPT !.state = "cancelled"]
            /\ \/ ReleaseMeetingFacility(reservation[r].meeting)
               \/ MeetingReserves(reservation[r].meeting)]_vars

\* A cancelled reservation stays as it was cancelled: a PATCH that read it
\* before the cancellation does not change or revive it.
CancelledIsFinal ==
  [][\A r \in Rows : reservation[r].state = "cancelled"
       => reservation'[r] = reservation[r]]_vars

============================================================================
