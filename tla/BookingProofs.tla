--------------------------- MODULE BookingProofs ---------------------------
(***************************************************************************)
(* Theorems about BookingLedger and about MeetingPoll, which extends it    *)
(* and calls its operations, for every value of their constants.           *)
(*                                                                         *)
(* Part one, the ledger beside any meetings: typing, who holds a meeting's *)
(* reservation, what a step may do to a row, when two reservations may     *)
(* come to overlap, and that all of it implements FacilityCalendar.        *)
(*                                                                         *)
(* Part two, the meetings, for any number of browsers, answers and         *)
(* identities: they use the ledger as it allows, so that part one holds of *)
(* them; a finalized meeting holds its slot; and what a page knew is still *)
(* so when its request commits.                                            *)
(***************************************************************************)
EXTENDS MeetingPoll, LedgerRefinement, FiniteSetTheorems, TLAPS

----------------------------------------------------------------------------
(* Part one, the ledger: types *)

\* Completing an audience body with an audience gives an audience.
LEMMA RequestedAudienceType ==
  ASSUME NEW body \in AudienceBody, NEW current \in Audience
  PROVE  RequestedAudience(body, current) \in Audience
BY AccessAssumption DEF RequestedAudience, AudienceBody, Audience

LEMMA PublicAudienceType == PublicAudience \in Audience
BY AccessAssumption DEF PublicAudience, Audience

\* An active row is a row.
LEMMA ActiveIsRow ==
  ASSUME TypeOK, NEW r \in ReservationIds, Active(reservation, r)
  PROVE  reservation[r] \in ReservationRow
BY DEF TypeOK, Active

\* Cancelling an active row leaves a table of rows.
LEMMA CancelledType ==
  ASSUME TypeOK, NEW r \in ReservationIds, Active(reservation, r)
  PROVE  Cancelled(reservation, r) \in [ReservationIds -> ReservationRow \cup {NoRow}]
<1>1. reservation[r] \in ReservationRow
  BY ActiveIsRow
<1>2. [reservation[r] EXCEPT !.state = "cancelled"] \in ReservationRow
  BY <1>1 DEF ReservationRow
<1> QED
  BY <1>2 DEF Cancelled, TypeOK

\* So does releasing a meeting's facility.
LEMMA ReleasedType ==
  ASSUME TypeOK, NEW m \in Meetings
  PROVE  Released(m) \in [ReservationIds -> ReservationRow \cup {NoRow}]
<1>1. link[m] # NoId => link[m] \in ReservationIds
  BY DEF TypeOK
<1> QED
  BY <1>1, CancelledType DEF Released, TypeOK

\* Cancelling and releasing keep the rows, and all of a row but its state.
LEMMA CancelledKeepsRows ==
  ASSUME TypeOK, NEW c \in ReservationIds, Active(reservation, c),
         NEW r \in ReservationIds, reservation[r] # NoRow
  PROVE  /\ Cancelled(reservation, c)[r] # NoRow
         /\ Cancelled(reservation, c)[r].facility = reservation[r].facility
         /\ Cancelled(reservation, c)[r].meeting = reservation[r].meeting
         /\ Cancelled(reservation, c)[r].start = reservation[r].start
         /\ Cancelled(reservation, c)[r].end = reservation[r].end
<1>1. reservation[r] \in ReservationRow
  BY DEF TypeOK
<1>2. CASE r = c
  <2>1. Cancelled(reservation, c)[r] = [reservation[r] EXCEPT !.state = "cancelled"]
    BY <1>2 DEF Cancelled, TypeOK
  <2>2. [reservation[r] EXCEPT !.state = "cancelled"] \in ReservationRow
    BY <1>1 DEF ReservationRow
  <2> QED
    BY <1>1, <2>1, <2>2, NoRowAssumption DEF ReservationRow
<1>3. CASE r # c
  BY <1>3 DEF Cancelled, TypeOK
<1> QED
  BY <1>2, <1>3

LEMMA ReleasedKeepsRows ==
  ASSUME TypeOK, NEW m \in Meetings,
         NEW r \in ReservationIds, reservation[r] # NoRow
  PROVE  /\ Released(m)[r] # NoRow
         /\ Released(m)[r].facility = reservation[r].facility
         /\ Released(m)[r].meeting = reservation[r].meeting
         /\ Released(m)[r].start = reservation[r].start
         /\ Released(m)[r].end = reservation[r].end
<1>1. link[m] # NoId => link[m] \in ReservationIds
  BY DEF TypeOK
<1> QED
  BY <1>1, CancelledKeepsRows DEF Released

\* A request that is not idle is a request record.
LEMMA RequestType ==
  ASSUME TypeOK, NEW q \in Requests, request[q] # Idle
  PROVE  request[q] \in RequestRecord
BY DEF TypeOK

\* The fields a typed request has at each of its steps.
LEMMA RequestFields ==
  ASSUME TypeOK, NEW q \in Requests, request[q] # Idle
  PROVE  /\ request[q] \in RequestRecord
         /\ request[q].op = "post" => /\ request[q].facility \in Facilities
                                      /\ request[q].bodyStart \in Minutes
                                      /\ request[q].bodyEnd \in Minutes
         /\ request[q].op = "toggle" => /\ request[q].facility \in Facilities
                                        /\ request[q].user \in Admins
         /\ request[q].op = "patch" =>
              /\ request[q].id \in ReservationIds
              /\ reservation[request[q].id] \in ReservationRow
         /\ request[q].op = "patch" /\ request[q].step # "read" =>
              /\ request[q].facility = reservation[request[q].id].facility
              /\ request[q].staleStart \in Minutes
              /\ request[q].staleEnd \in Minutes
BY DEF TypeOK, RequestShape

\* One request changes to a record that has what its next step relies on,
\* the rows stay: the requests keep their shape.
LEMMA OneRequestChanges ==
  ASSUME TypeOK, NEW q \in Requests, NEW new \in RequestRecord \cup {Idle},
         request' = [request EXCEPT ![q] = new],
         UNCHANGED reservation,
         new # Idle =>
           /\ new.op = "post" => /\ new.facility \in Facilities
                                 /\ new.bodyStart \in Minutes
                                 /\ new.bodyEnd \in Minutes
           /\ new.op = "toggle" => new.facility \in Facilities /\ new.user \in Admins
           /\ new.op = "patch" => /\ new.id \in ReservationIds
                                  /\ reservation[new.id] # NoRow
           /\ new.op = "patch" /\ new.step # "read" =>
                /\ new.facility = reservation[new.id].facility
                /\ new.staleStart \in Minutes
                /\ new.staleEnd \in Minutes
  PROVE  /\ request' \in [Requests -> RequestRecord \cup {Idle}]
         /\ RequestShape'
<1>1. request' \in [Requests -> RequestRecord \cup {Idle}]
  BY DEF TypeOK
<1>2. ASSUME NEW p \in Requests, request'[p] # Idle
      PROVE  request'[p] = IF p = q THEN new ELSE request[p]
  BY DEF TypeOK
<1>3. RequestShape'
  BY <1>2 DEF TypeOK, RequestShape
<1> QED
  BY <1>1, <1>3

\* Rows keep existing and keep their facility: so do the requests their shape.
LEMMA RowsChange ==
  ASSUME TypeOK, RequestShape,
         \A r \in ReservationIds : reservation[r] # NoRow =>
           /\ reservation'[r] # NoRow
           /\ reservation'[r].facility = reservation[r].facility,
         NEW q \in Requests,
         request' = request \/ Finish(q)
  PROVE  /\ request' \in [Requests -> RequestRecord \cup {Idle}]
         /\ RequestShape'
<1>1. /\ request' \in [Requests -> RequestRecord \cup {Idle}]
      /\ \A p \in Requests : request'[p] # Idle => request'[p] = request[p]
  BY DEF Finish, TypeOK
<1>2. RequestShape'
  BY <1>1 DEF RequestShape
<1> QED
  BY <1>1, <1>2

\* Moving a request to a later step.
LEMMA GoToType ==
  ASSUME TypeOK, NEW q \in Requests, request[q] # Idle,
         NEW step \in {"parse", "resolve", "policy", "preflight",
                       "commit", "set", "view"},
         request[q].op = "patch" => request[q].step # "read",
         GoTo(q, step), UNCHANGED reservation
  PROVE  /\ request' \in [Requests -> RequestRecord \cup {Idle}]
         /\ RequestShape'
<1> DEFINE new == [request[q] EXCEPT !.step = step]
<1>1. new \in RequestRecord
  BY RequestFields DEF RequestRecord
<1>2. /\ new.op = request[q].op
      /\ new.facility = request[q].facility
      /\ new.bodyStart = request[q].bodyStart
      /\ new.bodyEnd = request[q].bodyEnd
      /\ new.user = request[q].user
      /\ new.id = request[q].id
      /\ new.staleStart = request[q].staleStart
      /\ new.staleEnd = request[q].staleEnd
  BY RequestFields DEF RequestRecord
<1>3. request' = [request EXCEPT ![q] = new]
  BY DEF GoTo
<1> HIDE DEF new
<1>4. /\ new.op = "post" => /\ new.facility \in Facilities
                            /\ new.bodyStart \in Minutes
                            /\ new.bodyEnd \in Minutes
      /\ new.op = "toggle" => new.facility \in Facilities /\ new.user \in Admins
      /\ new.op = "patch" => /\ new.id \in ReservationIds
                             /\ reservation[new.id] # NoRow
      /\ new.op = "patch" => /\ new.facility = reservation[new.id].facility
                             /\ new.staleStart \in Minutes
                             /\ new.staleEnd \in Minutes
  BY <1>2, RequestFields, NoRowAssumption
<1> QED
  BY <1>1, <1>3, <1>4, OneRequestChanges

LEMMA FinishType ==
  ASSUME TypeOK, NEW q \in Requests, Finish(q), UNCHANGED reservation
  PROVE  /\ request' \in [Requests -> RequestRecord \cup {Idle}]
         /\ RequestShape'
BY RowsChange DEF TypeOK

LEMMA UpsertType ==
  ASSUME TypeOK, NEW f \in Facilities, NEW d \in Declared,
         UpsertFacilityCache(f, d)
  PROVE  facility_cache' \in [Facilities -> PolicyValue]
BY LedgerAssumption DEF UpsertFacilityCache, TypeOK, PolicyValue

----------------------------------------------------------------------------
(* Type correctness *)

LEMMA InitType == Init => TypeOK
BY DEF Init, TypeOK, PolicyValue, RequestShape

LEMMA FacilityStepType ==
  ASSUME TypeOK, FacilityStep
  PROVE  TypeOK'
<1>1. ASSUME NEW f \in Facilities, NEW d \in Declared, SyncFacility(f, d)
      PROVE  TypeOK'
  <2>1. facility_cache' \in [Facilities -> PolicyValue]
    BY <1>1, UpsertType DEF SyncFacility
  <2> QED
    BY <1>1, <2>1 DEF SyncFacility, TypeOK, RequestShape
<1>2. ASSUME NEW q \in Requests, NEW u \in Users, NEW f \in Facilities,
             NEW b \in BOOLEAN, NEW d \in Declared, ToggleBegin(q, u, f, b, d)
      PROVE  TypeOK'
  <2> DEFINE new ==
        [op |-> "toggle", step |-> "set", user |-> u, groups |-> {},
         audience |-> [visibility |-> Unset, group |-> Unset],
         facility |-> f, id |-> NoId, bodyStart |-> Unset, bodyEnd |-> Unset,
         staleStart |-> Unset, staleEnd |-> Unset, shared |-> b]
  <2>1. facility_cache' \in [Facilities -> PolicyValue]
    BY <1>2, UpsertType DEF ToggleBegin
  <2>2. new \in RequestRecord
    BY DEF RequestRecord, AudienceBody
  <2>3. /\ request' \in [Requests -> RequestRecord \cup {Idle}]
        /\ RequestShape'
    BY <1>2, <2>2, OneRequestChanges DEF ToggleBegin
  <2> QED
    BY <1>2, <2>1, <2>3 DEF ToggleBegin, TypeOK
<1>3. ASSUME NEW q \in Requests, ToggleSet(q)
      PROVE  TypeOK'
  <2>1. facility_cache' \in [Facilities -> PolicyValue]
    BY <1>3 DEF ToggleSet, TypeOK, PolicyValue
  <2>2. /\ request' \in [Requests -> RequestRecord \cup {Idle}]
        /\ RequestShape'
    BY <1>3, GoToType DEF ToggleSet, At
  <2> QED
    BY <1>3, <2>1, <2>2 DEF ToggleSet, TypeOK
<1>4. ASSUME NEW q \in Requests, NEW d \in Declared, ToggleView(q, d)
      PROVE  TypeOK'
  <2>1. request[q].facility \in Facilities
    BY <1>4, RequestFields DEF ToggleView, At
  <2>2. facility_cache' \in [Facilities -> PolicyValue]
    BY <1>4, <2>1, UpsertType DEF ToggleView
  <2>3. /\ request' \in [Requests -> RequestRecord \cup {Idle}]
        /\ RequestShape'
    BY <1>4, FinishType DEF ToggleView
  <2> QED
    BY <1>4, <2>2, <2>3 DEF ToggleView, TypeOK
<1> QED
  BY <1>1, <1>2, <1>3, <1>4 DEF FacilityStep

LEMMA BeginStepType ==
  ASSUME TypeOK, BeginStep
  PROVE  TypeOK'
<1>1. ASSUME NEW q \in Requests, NEW u \in Users, NEW g \in SUBSET Groups,
             NEW body \in Bodies, NEW f \in Facilities,
             NEW s \in Minutes, NEW e \in Minutes,
             PostBegin(q, u, g, body, f, s, e)
      PROVE  TypeOK'
  <2> DEFINE new ==
        [op |-> "post", step |-> "resolve", user |-> u, groups |-> g,
         audience |-> body, facility |-> f, id |-> NoId,
         bodyStart |-> s, bodyEnd |-> e,
         staleStart |-> Unset, staleEnd |-> Unset, shared |-> FALSE]
  <2>1. new \in RequestRecord
    BY LedgerAssumption DEF RequestRecord
  <2>2. /\ request' \in [Requests -> RequestRecord \cup {Idle}]
        /\ RequestShape'
    BY <1>1, <2>1, OneRequestChanges DEF PostBegin, ledgerVars
  <2> QED
    BY <1>1, <2>2 DEF PostBegin, TypeOK, ledgerVars
<1>2. ASSUME NEW q \in Requests, NEW u \in Users, NEW g \in SUBSET Groups,
             NEW body \in Bodies, NEW id \in ReservationIds,
             NEW s \in Minutes \cup {Unset}, NEW e \in Minutes \cup {Unset},
             PatchBegin(q, u, g, body, id, s, e)
      PROVE  TypeOK'
  <2> DEFINE new ==
        [op |-> "patch", step |-> "read", user |-> u, groups |-> g,
         audience |-> body, facility |-> Unset, id |-> id,
         bodyStart |-> s, bodyEnd |-> e,
         staleStart |-> Unset, staleEnd |-> Unset, shared |-> FALSE]
  <2>1. new \in RequestRecord
    BY LedgerAssumption DEF RequestRecord
  <2>2. /\ request' \in [Requests -> RequestRecord \cup {Idle}]
        /\ RequestShape'
    BY <1>2, <2>1, OneRequestChanges DEF PatchBegin, ledgerVars
  <2> QED
    BY <1>2, <2>2 DEF PatchBegin, TypeOK, ledgerVars
<1> QED
  BY <1>1, <1>2 DEF BeginStep

LEMMA AwaitStepType ==
  ASSUME TypeOK, AwaitStep
  PROVE  TypeOK'
<1>1. ASSUME NEW q \in Requests, PatchRead(q)
      PROVE  TypeOK'
  <2> DEFINE row == reservation[request[q].id]
             new == [request[q] EXCEPT
                       !.step = "parse", !.facility = row.facility,
                       !.staleStart = row.start, !.staleEnd = row.end]
  <2>1. /\ request[q] \in RequestRecord
        /\ request[q].op = "patch"
        /\ request[q].id \in ReservationIds
        /\ row \in ReservationRow
    BY <1>1, RequestFields DEF PatchRead, At
  <2>2. /\ row.facility \in Facilities
        /\ row.start \in Minutes
        /\ row.end \in Minutes
    BY <2>1 DEF ReservationRow
  <2>3. /\ new \in RequestRecord
        /\ new.op = "patch"
        /\ new.id = request[q].id
        /\ new.facility = row.facility
        /\ new.staleStart \in Minutes
        /\ new.staleEnd \in Minutes
    BY <2>1, <2>2 DEF RequestRecord
  <2>4. request' = [request EXCEPT ![q] = new] /\ UNCHANGED reservation
    BY <1>1 DEF PatchRead, ledgerVars
  <2> HIDE DEF new
  <2>5. /\ request' \in [Requests -> RequestRecord \cup {Idle}]
        /\ RequestShape'
    BY <2>1, <2>3, <2>4, NoRowAssumption, OneRequestChanges
  <2> QED
    BY <1>1, <2>5 DEF PatchRead, TypeOK, ledgerVars
<1>2. ASSUME NEW q \in Requests, PatchParse(q)
      PROVE  TypeOK'
  <2> DEFINE step == IF /\ AskedStart(q) = request[q].staleStart
                        /\ AskedEnd(q) = request[q].staleEnd
                     THEN "commit" ELSE "resolve"
  <2>1. /\ request[q] # Idle
        /\ request[q].step = "parse"
        /\ GoTo(q, step)
        /\ UNCHANGED ledgerVars
    BY <1>2 DEF PatchParse, At
  <2>2. step \in {"commit", "resolve"}
    OBVIOUS
  <2> HIDE DEF step
  <2>3. /\ request' \in [Requests -> RequestRecord \cup {Idle}]
        /\ RequestShape'
    BY <2>1, <2>2, GoToType DEF ledgerVars
  <2> QED
    BY <2>1, <2>3 DEF TypeOK, ledgerVars
<1>3. ASSUME NEW q \in Requests, NEW d \in Declared, ResolveKnown(q, d)
      PROVE  TypeOK'
  <2>1. /\ request[q] # Idle
        /\ request[q].step = "resolve"
        /\ request[q].op \in {"post", "patch"}
    BY <1>3 DEF ResolveKnown, At
  <2>2. request[q].facility \in Facilities
    BY <2>1, RequestFields DEF ReservationRow
  <2>3. facility_cache' \in [Facilities -> PolicyValue]
    BY <1>3, <2>2, UpsertType DEF ResolveKnown
  <2>4. /\ request' \in [Requests -> RequestRecord \cup {Idle}]
        /\ RequestShape'
    BY <1>3, <2>1, GoToType DEF ResolveKnown
  <2> QED
    BY <1>3, <2>3, <2>4 DEF ResolveKnown, TypeOK
<1>4. ASSUME NEW q \in Requests, ResolveUnknown(q)
      PROVE  TypeOK'
  <2>1. /\ request' \in [Requests -> RequestRecord \cup {Idle}]
        /\ RequestShape'
    BY <1>4, GoToType DEF ResolveUnknown, At, ledgerVars
  <2> QED
    BY <1>4, <2>1 DEF ResolveUnknown, TypeOK, ledgerVars
<1>5. ASSUME NEW q \in Requests, ReadPolicy(q)
      PROVE  TypeOK'
  <2> DEFINE policy == facility_cache[request[q].facility] = "shared"
             new == [request[q] EXCEPT !.step = "preflight", !.shared = policy]
  <2>1. /\ request[q] # Idle
        /\ request[q] \in RequestRecord
        /\ request[q].step = "policy"
        /\ request[q].op \in {"post", "patch"}
    BY <1>5, RequestFields DEF ReadPolicy, At
  <2>2. policy \in BOOLEAN
    OBVIOUS
  <2>3. request' = [request EXCEPT ![q] = new] /\ UNCHANGED ledgerVars
    BY <1>5 DEF ReadPolicy
  <2> HIDE DEF policy
  <2>4. /\ new \in RequestRecord
        /\ new.op = request[q].op
        /\ new.step = "preflight"
        /\ new.facility = request[q].facility
        /\ new.bodyStart = request[q].bodyStart
        /\ new.bodyEnd = request[q].bodyEnd
        /\ new.id = request[q].id
        /\ new.staleStart = request[q].staleStart
        /\ new.staleEnd = request[q].staleEnd
    BY <2>1, <2>2 DEF RequestRecord
  <2> HIDE DEF new
  <2>5. /\ request' \in [Requests -> RequestRecord \cup {Idle}]
        /\ RequestShape'
    BY <2>1, <2>3, <2>4, RequestFields, NoRowAssumption, OneRequestChanges
    DEF ledgerVars
  <2> QED
    BY <2>3, <2>5 DEF TypeOK, ledgerVars
<1>6. ASSUME NEW q \in Requests, Preflight(q)
      PROVE  TypeOK'
  <2>1. /\ request' \in [Requests -> RequestRecord \cup {Idle}]
        /\ RequestShape'
    BY <1>6, GoToType DEF Preflight, At, ledgerVars
  <2> QED
    BY <1>6, <2>1 DEF Preflight, TypeOK, ledgerVars
<1>7. ASSUME NEW q \in Requests, RequestFails(q)
      PROVE  TypeOK'
  <2>1. /\ request' \in [Requests -> RequestRecord \cup {Idle}]
        /\ RequestShape'
    BY <1>7, FinishType DEF RequestFails, ledgerVars
  <2> QED
    BY <1>7, <2>1 DEF RequestFails, TypeOK, ledgerVars
<1> QED
  BY <1>1, <1>2, <1>3, <1>4, <1>5, <1>6, <1>7 DEF AwaitStep

\* The row a POST inserts.
LEMMA PostedRowType ==
  ASSUME TypeOK, NEW q \in Requests, At(q, {"post"}, "commit")
  PROVE  [facility |-> request[q].facility, owner |-> request[q].user,
          start |-> request[q].bodyStart, end |-> request[q].bodyEnd,
          audience |-> RequestedAudience(request[q].audience, PublicAudience),
          state |-> "confirmed", meeting |-> NoMeeting] \in ReservationRow
<1>1. /\ request[q].audience \in AudienceBody
      /\ request[q].user \in Users
      /\ request[q].facility \in Facilities
      /\ request[q].bodyStart \in Minutes
      /\ request[q].bodyEnd \in Minutes
  BY RequestFields DEF At, RequestRecord
<1>2. RequestedAudience(request[q].audience, PublicAudience) \in Audience
  BY <1>1, RequestedAudienceType, PublicAudienceType
<1> QED
  BY <1>1, <1>2 DEF ReservationRow

\* What a PATCH writes: the times and the audience of its row, and nothing
\* else of it.
LEMMA PatchedRowType ==
  ASSUME TypeOK, NEW q \in Requests, At(q, {"patch"}, "commit"), PatchAccepted(q)
  PROVE  /\ request[q].id \in ReservationIds
         /\ Latest(q) \in ReservationRow
         /\ LockedStart(q) \in Minutes
         /\ LockedEnd(q) \in Minutes
         /\ LockedAudience(q) \in Audience
         /\ [Latest(q) EXCEPT !.start = LockedStart(q), !.end = LockedEnd(q),
               !.audience = LockedAudience(q)] \in ReservationRow
<1>1. /\ request[q] \in RequestRecord
      /\ request[q].id \in ReservationIds
      /\ Latest(q) \in ReservationRow
  BY RequestFields DEF At, Latest
<1>2. /\ request[q].audience \in AudienceBody
      /\ request[q].bodyStart \in Minutes \cup {Unset}
      /\ request[q].bodyEnd \in Minutes \cup {Unset}
  BY <1>1 DEF RequestRecord
<1>3. /\ Latest(q).start \in Minutes
      /\ Latest(q).end \in Minutes
      /\ Latest(q).audience \in Audience
  BY <1>1 DEF ReservationRow
<1>4. LockedStart(q) \in Minutes /\ LockedEnd(q) \in Minutes
  BY <1>2, <1>3 DEF LockedStart, LockedEnd
<1>5. LockedAudience(q) \in Audience
  BY <1>2, <1>3, RequestedAudienceType DEF LockedAudience
<1>6. [Latest(q) EXCEPT !.start = LockedStart(q), !.end = LockedEnd(q),
         !.audience = LockedAudience(q)] \in ReservationRow
  BY <1>1, <1>4, <1>5 DEF ReservationRow
<1> QED
  BY <1>1, <1>4, <1>5, <1>6

LEMMA CommitStepType ==
  ASSUME TypeOK, CommitStep
  PROVE  TypeOK'
<1>1. ASSUME NEW q \in Requests, NEW id \in ReservationIds, PostCommit(q, id)
      PROVE  TypeOK'
  <2>1. reservation' \in [ReservationIds -> ReservationRow \cup {NoRow}]
    BY <1>1, PostedRowType DEF PostCommit, TypeOK
  <2>2. \A r \in ReservationIds : reservation[r] # NoRow =>
          reservation'[r] = reservation[r]
    BY <1>1 DEF PostCommit, TypeOK
  <2>3. /\ request' \in [Requests -> RequestRecord \cup {Idle}]
        /\ RequestShape'
    BY <1>1, <2>2, RowsChange DEF PostCommit, TypeOK
  <2> QED
    BY <1>1, <2>1, <2>3 DEF PostCommit, TypeOK
<1>2. ASSUME NEW q \in Requests, PatchCommit(q)
      PROVE  TypeOK'
  <2> DEFINE new == [Latest(q) EXCEPT !.start = LockedStart(q),
                       !.end = LockedEnd(q), !.audience = LockedAudience(q)]
  <2>1. /\ request[q].id \in ReservationIds
        /\ Latest(q) \in ReservationRow
        /\ new \in ReservationRow
    BY <1>2, PatchedRowType DEF PatchCommit
  <2>2. new.facility = Latest(q).facility
    BY <2>1 DEF ReservationRow
  <2>3. reservation' = [reservation EXCEPT ![request[q].id] = new]
    BY <1>2 DEF PatchCommit, Latest
  <2> HIDE DEF new
  <2>4. reservation' \in [ReservationIds -> ReservationRow \cup {NoRow}]
    BY <2>1, <2>3 DEF TypeOK
  <2>5. \A r \in ReservationIds : reservation[r] # NoRow =>
          /\ reservation'[r] # NoRow
          /\ reservation'[r].facility = reservation[r].facility
    BY <2>1, <2>2, <2>3, NoRowAssumption DEF TypeOK, Latest
  <2>6. /\ request' \in [Requests -> RequestRecord \cup {Idle}]
        /\ RequestShape'
    BY <1>2, <2>5, RowsChange DEF PatchCommit, TypeOK
  <2> QED
    BY <1>2, <2>4, <2>6 DEF PatchCommit, TypeOK
<1>3. ASSUME NEW u \in Users, NEW id \in ReservationIds, DeleteReservation(u, id)
      PROVE  TypeOK'
  <2>1. /\ reservation' \in [ReservationIds -> ReservationRow \cup {NoRow}]
        /\ reservation' = Cancelled(reservation, id)
        /\ Active(reservation, id)
    BY <1>3, CancelledType DEF DeleteReservation
  <2>2. RequestShape'
    BY <1>3, <2>1, CancelledKeepsRows DEF DeleteReservation, TypeOK, RequestShape
  <2> QED
    BY <1>3, <2>1, <2>2 DEF DeleteReservation, TypeOK
<1> QED
  BY <1>1, <1>2, <1>3 DEF CommitStep

LEMMA MeetingStepType ==
  ASSUME TypeOK, MeetingStep
  PROVE  TypeOK'
<1>1. ASSUME NEW m \in Meetings, MeetingReserves(m)
      PROVE  TypeOK'
  <2> PICK user \in Users, f \in Facilities, start \in Minutes,
           end \in Minutes, audience \in Audience, id \in ReservationIds :
             ReserveMeetingFacility(m, user, f, start, end, audience, id)
    BY <1>1 DEF MeetingReserves
  <2> DEFINE new == [facility |-> f, owner |-> user, start |-> start,
                     end |-> end, audience |-> audience,
                     state |-> "confirmed", meeting |-> m]
  <2>1. new \in ReservationRow
    BY DEF ReservationRow
  <2>2. /\ reservation' = [Released(m) EXCEPT ![id] = new]
        /\ reservation[id] = NoRow
        /\ link' = [link EXCEPT ![m] = id]
        /\ UNCHANGED <<facility_cache, request>>
    BY DEF ReserveMeetingFacility
  <2> HIDE DEF new
  <2>3. reservation' \in [ReservationIds -> ReservationRow \cup {NoRow}]
    BY <2>1, <2>2, ReleasedType
  <2>4. link' \in [Meetings -> ReservationIds \cup {NoId}]
    BY <2>2 DEF TypeOK
  <2>5. \A r \in ReservationIds : reservation[r] # NoRow =>
          /\ reservation'[r] # NoRow
          /\ reservation'[r].facility = reservation[r].facility
    BY <2>2, ReleasedType, ReleasedKeepsRows
  <2>6. RequestShape'
    BY <2>2, <2>5 DEF TypeOK, RequestShape
  <2> QED
    BY <2>2, <2>3, <2>4, <2>6 DEF TypeOK
<1>2. ASSUME NEW m \in Meetings, ReleaseMeetingFacility(m)
      PROVE  TypeOK'
  <2>1. reservation' = Released(m) /\ UNCHANGED <<facility_cache, link, request>>
    BY <1>2 DEF ReleaseMeetingFacility
  <2>2. RequestShape'
    BY <2>1, ReleasedKeepsRows DEF TypeOK, RequestShape
  <2> QED
    BY <2>1, <2>2, ReleasedType DEF TypeOK
<1> QED
  BY <1>1, <1>2 DEF MeetingStep

LEMMA StepType ==
  ASSUME TypeOK, [Next]_vars
  PROVE  TypeOK'
<1>1. CASE Next
  BY <1>1, FacilityStepType, BeginStepType, AwaitStepType, CommitStepType,
     MeetingStepType DEF Next
<1>2. CASE UNCHANGED vars
  BY <1>2 DEF vars, TypeOK, RequestShape
<1> QED
  BY <1>1, <1>2

\* Every reachable state is typed and every request in flight carries what
\* its remaining steps rely on, for any number of facilities, rows, meetings
\* and concurrent requests.
THEOREM LedgerTypeOK == Spec => []TypeOK
<1>1. Init => TypeOK
  BY InitType
<1>2. TypeOK /\ [Next]_vars => TypeOK'
  BY StepType
<1> QED
  BY <1>1, <1>2, PTL DEF Spec

----------------------------------------------------------------------------
(* Who writes the rows *)

\* Only the transactions that commit a request or belong to a meeting touch
\* the rows.
LEMMA RowWriters ==
  ASSUME [Next]_vars
  PROVE  \/ UNCHANGED <<reservation, link>>
         \/ \E q \in Requests, id \in ReservationIds : PostCommit(q, id)
         \/ \E q \in Requests : PatchCommit(q)
         \/ \E u \in Users, id \in ReservationIds : DeleteReservation(u, id)
         \/ \E m \in Meetings : MeetingReserves(m)
         \/ \E m \in Meetings : ReleaseMeetingFacility(m)
<1>1. CASE FacilityStep
  BY <1>1 DEF FacilityStep, SyncFacility, ToggleBegin, ToggleSet, ToggleView
<1>2. CASE BeginStep
  BY <1>2 DEF BeginStep, PostBegin, PatchBegin, ledgerVars
<1>3. CASE AwaitStep
  BY <1>3 DEF AwaitStep, PatchRead, PatchParse, ResolveKnown, ResolveUnknown,
              ReadPolicy, Preflight, RequestFails, ledgerVars
<1>4. CASE CommitStep
  BY <1>4 DEF CommitStep
<1>5. CASE MeetingStep
  BY <1>5 DEF MeetingStep
<1> QED
  BY <1>1, <1>2, <1>3, <1>4, <1>5 DEF Next, vars

\* A cancelled row is not active, and the other rows are what they were.
LEMMA CancelledRow ==
  ASSUME TypeOK, NEW c \in ReservationIds, Active(reservation, c)
  PROVE  /\ Cancelled(reservation, c)[c] = [reservation[c] EXCEPT !.state = "cancelled"]
         /\ Cancelled(reservation, c)[c].state = "cancelled"
         /\ ~Active(Cancelled(reservation, c), c)
<1>1. reservation[c] \in ReservationRow
  BY ActiveIsRow
<1>2. [reservation[c] EXCEPT !.state = "cancelled"].state = "cancelled"
  BY <1>1 DEF ReservationRow
<1>3. Cancelled(reservation, c)[c] = [reservation[c] EXCEPT !.state = "cancelled"]
  BY DEF Cancelled, TypeOK
<1> QED
  BY <1>2, <1>3 DEF Active

LEMMA OtherRowsStay ==
  ASSUME TypeOK, NEW c \in ReservationIds, NEW r \in ReservationIds, r # c
  PROVE  Cancelled(reservation, c)[r] = reservation[r]
BY DEF Cancelled, TypeOK

\* Releasing a meeting's facility leaves its linked reservation inactive and
\* every other row as it was.
LEMMA ReleasedRow ==
  ASSUME TypeOK, NEW m \in Meetings, NEW r \in ReservationIds
  PROVE  /\ r # link[m] => Released(m)[r] = reservation[r]
         /\ r = link[m] => ~Active(Released(m), r)
         /\ ~Active(reservation, r) => Released(m)[r] = reservation[r]
         /\ Released(m)[r] # reservation[r] =>
              /\ r = link[m]
              /\ Released(m)[r] = [reservation[r] EXCEPT !.state = "cancelled"]
<1>1. CASE link[m] # NoId /\ Active(reservation, link[m])
  <2>1. link[m] \in ReservationIds
    BY <1>1 DEF TypeOK
  <2>2. Released(m) = Cancelled(reservation, link[m])
    BY <1>1 DEF Released
  <2>3. CASE r = link[m]
    <3>1. /\ Released(m)[r] = [reservation[r] EXCEPT !.state = "cancelled"]
          /\ ~Active(Released(m), r)
      BY <1>1, <2>1, <2>2, <2>3, CancelledRow
    <3> QED
      BY <1>1, <2>3, <3>1
  <2>4. CASE r # link[m]
    <3>1. Released(m)[r] = reservation[r]
      BY <2>1, <2>2, <2>4, OtherRowsStay
    <3> QED
      BY <2>4, <3>1
  <2> QED
    BY <2>3, <2>4
<1>2. CASE ~(link[m] # NoId /\ Active(reservation, link[m]))
  <2>1. Released(m) = reservation
    BY <1>2 DEF Released
  <2> QED
    BY <1>2, <2>1, LedgerAssumption
<1> QED
  BY <1>1, <1>2

\* What a PATCH leaves of its row: state, owner, facility and meeting.
LEMMA PatchedRow ==
  ASSUME TypeOK, NEW q \in Requests, PatchCommit(q)
  PROVE  /\ request[q].id \in ReservationIds
         /\ Active(reservation, request[q].id)
         /\ reservation'[request[q].id].state = reservation[request[q].id].state
         /\ reservation'[request[q].id].meeting = reservation[request[q].id].meeting
         /\ reservation'[request[q].id].facility = reservation[request[q].id].facility
         /\ reservation'[request[q].id].start = LockedStart(q)
         /\ reservation'[request[q].id].end = LockedEnd(q)
         /\ reservation'[request[q].id].audience = LockedAudience(q)
         /\ Active(reservation', request[q].id)
         /\ \A r \in ReservationIds : r # request[q].id =>
              reservation'[r] = reservation[r]
<1> DEFINE old == Latest(q)
           new == [old EXCEPT !.start = LockedStart(q), !.end = LockedEnd(q),
                              !.audience = LockedAudience(q)]
<1>1. /\ request[q].id \in ReservationIds
      /\ old \in ReservationRow
      /\ new \in ReservationRow
      /\ old = reservation[request[q].id]
      /\ Active(reservation, request[q].id)
  BY PatchedRowType DEF PatchCommit, PatchAccepted, Latest
<1>2. /\ new.state = old.state
      /\ new.meeting = old.meeting
      /\ new.facility = old.facility
      /\ new.start = LockedStart(q)
      /\ new.end = LockedEnd(q)
      /\ new.audience = LockedAudience(q)
  BY <1>1 DEF ReservationRow
<1>3. reservation' = [reservation EXCEPT ![request[q].id] = new]
  BY DEF PatchCommit, Latest
<1> HIDE DEF new
<1>4. /\ reservation'[request[q].id] = new
      /\ \A r \in ReservationIds : r # request[q].id =>
           reservation'[r] = reservation[r]
  BY <1>1, <1>3 DEF TypeOK
<1> HIDE DEF old
<1> QED
  BY <1>1, <1>2, <1>4, NoRowAssumption DEF Active

\* What a POST inserts.
LEMMA PostedRow ==
  ASSUME TypeOK, NEW q \in Requests, NEW id \in ReservationIds, PostCommit(q, id)
  PROVE  /\ reservation[id] = NoRow
         /\ reservation'[id].meeting = NoMeeting
         /\ reservation'[id].facility = request[q].facility
         /\ reservation'[id].start = request[q].bodyStart
         /\ reservation'[id].end = request[q].bodyEnd
         /\ \A r \in ReservationIds : r # id => reservation'[r] = reservation[r]
BY DEF PostCommit, TypeOK

\* What a meeting inserts.
LEMMA ReservedRow ==
  ASSUME TypeOK, NEW m \in Meetings, NEW user, NEW f, NEW start, NEW end,
         NEW audience, NEW id \in ReservationIds,
         ReserveMeetingFacility(m, user, f, start, end, audience, id)
  PROVE  /\ reservation[id] = NoRow
         /\ reservation'[id].meeting = m
         /\ reservation'[id].facility = f
         /\ reservation'[id].start = start
         /\ reservation'[id].end = end
         /\ link'[m] = id
         /\ \A other \in Meetings : other # m => link'[other] = link[other]
         /\ \A r \in ReservationIds : r # id => reservation'[r] = Released(m)[r]
<1>1. Released(m) \in [ReservationIds -> ReservationRow \cup {NoRow}]
  BY ReleasedType
<1> QED
  BY <1>1 DEF ReserveMeetingFacility, TypeOK

----------------------------------------------------------------------------
(* A meeting holds one reservation *)

LEMMA InitHolds == Init => MeetingHoldsOneReservation
BY DEF Init, MeetingHoldsOneReservation, Active

LEMMA StepHolds ==
  ASSUME TypeOK, TypeOK', MeetingHoldsOneReservation, [Next]_vars
  PROVE  MeetingHoldsOneReservation'
<1> USE DEF MeetingHoldsOneReservation
<1>1. CASE UNCHANGED <<reservation, link>>
  BY <1>1 DEF Active
<1>2. ASSUME NEW q \in Requests, NEW id \in ReservationIds, PostCommit(q, id)
      PROVE  MeetingHoldsOneReservation'
  <2>1. link' = link
    BY <1>2 DEF PostCommit
  <2>2. /\ reservation[id] = NoRow
        /\ reservation'[id].meeting = NoMeeting
        /\ \A r \in ReservationIds : r # id => reservation'[r] = reservation[r]
    BY <1>2, PostedRow
  <2>3. ASSUME NEW r \in ReservationIds, Active(reservation', r),
               reservation'[r].meeting # NoMeeting
        PROVE  link'[reservation'[r].meeting] = r
    BY <2>1, <2>2, <2>3 DEF Active
  <2>4. ASSUME NEW m \in Meetings, link'[m] # NoId
        PROVE  reservation'[link'[m]] # NoRow /\ reservation'[link'[m]].meeting = m
    BY <2>1, <2>2, <2>4 DEF TypeOK
  <2> QED
    BY <2>3, <2>4
<1>3. ASSUME NEW q \in Requests, PatchCommit(q)
      PROVE  MeetingHoldsOneReservation'
  <2> DEFINE id == request[q].id
  <2>1. link' = link
    BY <1>3 DEF PatchCommit
  <2>2. /\ id \in ReservationIds
        /\ Active(reservation, id)
        /\ Active(reservation', id)
        /\ reservation'[id].meeting = reservation[id].meeting
        /\ \A r \in ReservationIds : r # id => reservation'[r] = reservation[r]
    BY <1>3, PatchedRow
  <2> HIDE DEF id
  <2>3. ASSUME NEW r \in ReservationIds, Active(reservation', r),
               reservation'[r].meeting # NoMeeting
        PROVE  link'[reservation'[r].meeting] = r
    BY <2>1, <2>2, <2>3 DEF Active
  <2>4. ASSUME NEW m \in Meetings, link'[m] # NoId
        PROVE  reservation'[link'[m]] # NoRow /\ reservation'[link'[m]].meeting = m
    BY <2>1, <2>2, <2>4 DEF TypeOK, Active
  <2> QED
    BY <2>3, <2>4
<1>4. ASSUME NEW u \in Users, NEW id \in ReservationIds, DeleteReservation(u, id)
      PROVE  MeetingHoldsOneReservation'
  <2>1. /\ link' = link
        /\ Active(reservation, id)
        /\ reservation' = Cancelled(reservation, id)
    BY <1>4 DEF DeleteReservation
  <2>2. ~Active(reservation', id)
    BY <2>1, CancelledRow
  <2>3. ASSUME NEW r \in ReservationIds, Active(reservation', r),
               reservation'[r].meeting # NoMeeting
        PROVE  link'[reservation'[r].meeting] = r
    <3>1. reservation'[r] = reservation[r]
      BY <2>1, <2>2, <2>3, OtherRowsStay
    <3> QED
      BY <2>1, <2>3, <3>1 DEF Active
  <2>4. ASSUME NEW m \in Meetings, link'[m] # NoId
        PROVE  reservation'[link'[m]] # NoRow /\ reservation'[link'[m]].meeting = m
    BY <2>1, <2>4, CancelledKeepsRows DEF TypeOK
  <2> QED
    BY <2>3, <2>4
<1>5. ASSUME NEW m \in Meetings, MeetingReserves(m)
      PROVE  MeetingHoldsOneReservation'
  <2> PICK user \in Users, f \in Facilities, start \in Minutes,
           end \in Minutes, audience \in Audience, id \in ReservationIds :
             ReserveMeetingFacility(m, user, f, start, end, audience, id)
    BY <1>5 DEF MeetingReserves
  <2>1. /\ reservation[id] = NoRow
        /\ reservation'[id].meeting = m
        /\ link'[m] = id
        /\ \A other \in Meetings : other # m => link'[other] = link[other]
        /\ \A r \in ReservationIds : r # id => reservation'[r] = Released(m)[r]
    BY ReservedRow
  <2>2. ASSUME NEW r \in ReservationIds, Active(reservation', r),
               reservation'[r].meeting # NoMeeting
        PROVE  link'[reservation'[r].meeting] = r
    <3>1. CASE r = id
      BY <2>1, <3>1
    <3>2. CASE r # id
      <4>1. /\ reservation'[r] = Released(m)[r]
            /\ Active(Released(m), r)
        BY <2>1, <2>2, <3>2 DEF Active
      <4>2. r # link[m] /\ Released(m)[r] = reservation[r]
        BY <4>1, ReleasedRow
      <4>3. link[reservation[r].meeting] = r
        BY <2>2, <4>1, <4>2 DEF Active
      <4>4. reservation[r] \in ReservationRow
        BY <2>2, <4>1, <4>2 DEF Active, TypeOK
      <4>5. reservation[r].meeting \in Meetings
        BY <2>2, <4>1, <4>2, <4>4 DEF ReservationRow
      <4> QED
        BY <2>1, <4>1, <4>2, <4>3, <4>5
    <3> QED
      BY <3>1, <3>2
  <2>3. ASSUME NEW o \in Meetings, link'[o] # NoId
        PROVE  reservation'[link'[o]] # NoRow /\ reservation'[link'[o]].meeting = o
    <3>1. CASE o = m
      <4>1. reservation' \in [ReservationIds -> ReservationRow \cup {NoRow}]
        BY DEF TypeOK
      <4>2. reservation'[id] # NoRow
        <5>1. reservation'[id] = [facility |-> f, owner |-> user, start |-> start,
                end |-> end, audience |-> audience, state |-> "confirmed",
                meeting |-> m]
          BY ReleasedType DEF ReserveMeetingFacility
        <5>2. reservation'[id] \in ReservationRow
          BY <5>1 DEF ReservationRow
        <5> QED
          BY <5>2, NoRowAssumption
      <4> QED
        BY <2>1, <3>1, <4>2
    <3>2. CASE o # m
      <4>1. /\ link[o] \in ReservationIds
            /\ link'[o] = link[o]
            /\ reservation[link[o]] # NoRow
            /\ reservation[link[o]].meeting = o
        BY <2>1, <2>3, <3>2 DEF TypeOK
      <4>2. reservation'[link[o]] = Released(m)[link[o]]
        BY <2>1, <4>1
      <4> QED
        BY <4>1, <4>2, ReleasedKeepsRows
    <3> QED
      BY <3>1, <3>2
  <2> QED
    BY <2>2, <2>3
<1>6. ASSUME NEW m \in Meetings, ReleaseMeetingFacility(m)
      PROVE  MeetingHoldsOneReservation'
  <2>1. reservation' = Released(m) /\ link' = link
    BY <1>6 DEF ReleaseMeetingFacility
  <2>2. ASSUME NEW r \in ReservationIds, Active(reservation', r),
               reservation'[r].meeting # NoMeeting
        PROVE  link'[reservation'[r].meeting] = r
    <3>1. reservation'[r] = reservation[r]
      BY <2>1, <2>2, ReleasedRow
    <3> QED
      BY <2>1, <2>2, <3>1 DEF Active
  <2>3. ASSUME NEW o \in Meetings, link'[o] # NoId
        PROVE  reservation'[link'[o]] # NoRow /\ reservation'[link'[o]].meeting = o
    <3>1. /\ link[o] \in ReservationIds
          /\ reservation[link[o]] # NoRow
          /\ reservation[link[o]].meeting = o
      BY <2>1, <2>3 DEF TypeOK
    <3> QED
      BY <2>1, <3>1, ReleasedKeepsRows
  <2> QED
    BY <2>2, <2>3
<1> QED
  BY <1>1, <1>2, <1>3, <1>4, <1>5, <1>6, RowWriters

\* However often a meeting is finalized, moved and cancelled, and whatever
\* requests run meanwhile, it holds at most one active reservation, the one
\* its link row names.
THEOREM LedgerMeetingHolds == Spec => []MeetingHoldsOneReservation
<1>1. Init => TypeOK /\ MeetingHoldsOneReservation
  BY InitType, InitHolds
<1>2. TypeOK /\ MeetingHoldsOneReservation /\ [Next]_vars
        => TypeOK' /\ MeetingHoldsOneReservation'
  BY StepType, StepHolds
<1> QED
  BY <1>1, <1>2, PTL DEF Spec

----------------------------------------------------------------------------
(* A cancelled reservation is final *)

LEMMA StepKeepsCancelled ==
  ASSUME TypeOK, [Next]_vars, NEW r \in Rows, reservation[r].state = "cancelled"
  PROVE  reservation'[r] = reservation[r]
<1>1. /\ r \in ReservationIds
      /\ reservation[r] # NoRow
      /\ ~Active(reservation, r)
  BY DEF Rows, Active
<1>2. CASE UNCHANGED <<reservation, link>>
  BY <1>2
<1>3. ASSUME NEW q \in Requests, NEW id \in ReservationIds, PostCommit(q, id)
      PROVE  reservation'[r] = reservation[r]
  BY <1>1, <1>3, PostedRow
<1>4. ASSUME NEW q \in Requests, PatchCommit(q)
      PROVE  reservation'[r] = reservation[r]
  BY <1>1, <1>4, PatchedRow
<1>5. ASSUME NEW u \in Users, NEW id \in ReservationIds, DeleteReservation(u, id)
      PROVE  reservation'[r] = reservation[r]
  BY <1>1, <1>5, OtherRowsStay DEF DeleteReservation
<1>6. ASSUME NEW m \in Meetings, MeetingReserves(m)
      PROVE  reservation'[r] = reservation[r]
  <2> PICK user \in Users, f \in Facilities, start \in Minutes,
           end \in Minutes, audience \in Audience, id \in ReservationIds :
             ReserveMeetingFacility(m, user, f, start, end, audience, id)
    BY <1>6 DEF MeetingReserves
  <2>1. reservation[id] = NoRow /\ (r # id => reservation'[r] = Released(m)[r])
    BY <1>1, ReservedRow
  <2> QED
    BY <1>1, <2>1, ReleasedRow
<1>7. ASSUME NEW m \in Meetings, ReleaseMeetingFacility(m)
      PROVE  reservation'[r] = reservation[r]
  BY <1>1, <1>7, ReleasedRow DEF ReleaseMeetingFacility
<1> QED
  BY <1>2, <1>3, <1>4, <1>5, <1>6, <1>7, RowWriters

\* No request that read a reservation before it was cancelled revives or
\* moves it afterwards.
THEOREM LedgerCancelledIsFinal == Spec => CancelledIsFinal
<1>1. TypeOK /\ [Next]_vars =>
        [\A r \in Rows : reservation[r].state = "cancelled"
           => reservation'[r] = reservation[r]]_vars
  BY StepKeepsCancelled
<1> QED
  BY <1>1, LedgerTypeOK, PTL DEF Spec, CancelledIsFinal

----------------------------------------------------------------------------
(* Overlaps are made only at shared facilities *)

LEMMA MinuteIsInt ==
  ASSUME NEW t \in Minutes
  PROVE  t \in Int
BY LedgerAssumption DEF Minutes, Minute

\* A free slot clashes with no active row of the facility but the excluded.
LEMMA FreeSlot ==
  ASSUME NEW f, NEW s, NEW e, NEW exclude,
         SlotIsFree(reservation, f, s, e, exclude),
         facility_cache[f] # "shared",
         NEW r \in ReservationIds, r # exclude, Active(reservation, r),
         reservation[r].facility = f
  PROVE  ~Overlaps(reservation[r].start, reservation[r].end, s, e)
BY DEF SlotIsFree, FindConflicts

LEMMA OverlapsSymmetric ==
  ASSUME NEW s1 \in Minutes, NEW e1 \in Minutes,
         NEW s2 \in Minutes, NEW e2 \in Minutes,
         Overlaps(s1, e1, s2, e2)
  PROVE  Overlaps(s2, e2, s1, e1)
BY MinuteIsInt DEF Overlaps

\* One row is placed in a slot that was free but for the excluded row, which
\* is that row itself or not active afterwards; no other row becomes active
\* or moves.  A new clash is one at a shared facility.
LEMMA OneRowPlaced ==
  ASSUME TypeOK, TypeOK', NEW id \in ReservationIds, NEW exclude,
         SlotIsFree(reservation, reservation'[id].facility,
                    reservation'[id].start, reservation'[id].end, exclude),
         \A r \in ReservationIds : r # id /\ Active(reservation', r) =>
           reservation'[r] = reservation[r] /\ r # exclude,
         NEW r1 \in ReservationIds, NEW r2 \in ReservationIds,
         Clash(reservation', r1, r2), ~Clash(reservation, r1, r2)
  PROVE  facility_cache[reservation'[r1].facility] = "shared"
<1>1. /\ r1 # r2
      /\ Active(reservation', r1)
      /\ Active(reservation', r2)
      /\ reservation'[r1].facility = reservation'[r2].facility
      /\ Overlaps(reservation'[r1].start, reservation'[r1].end,
                  reservation'[r2].start, reservation'[r2].end)
  BY DEF Clash
<1>2. /\ reservation'[r1] \in ReservationRow
      /\ reservation'[r2] \in ReservationRow
  BY <1>1 DEF Active, TypeOK
<1>3. Overlaps(reservation'[r2].start, reservation'[r2].end,
               reservation'[r1].start, reservation'[r1].end)
  <2>1. /\ reservation'[r1].start \in Minutes
        /\ reservation'[r1].end \in Minutes
        /\ reservation'[r2].start \in Minutes
        /\ reservation'[r2].end \in Minutes
    BY <1>2 DEF ReservationRow
  <2> QED
    BY <1>1, <2>1, OverlapsSymmetric
<1>4. CASE r1 # id /\ r2 # id
  <2>1. /\ reservation'[r1] = reservation[r1]
        /\ reservation'[r2] = reservation[r2]
    BY <1>1, <1>4
  <2> QED
    BY <1>1, <2>1 DEF Clash, Active
<1>5. CASE r1 = id
  <2>1. reservation'[r2] = reservation[r2] /\ r2 # exclude
    BY <1>1, <1>5
  <2>2. Active(reservation, r2)
    BY <1>1, <2>1 DEF Active
  <2> QED
    BY <1>1, <1>3, <1>5, <2>1, <2>2, FreeSlot
<1>6. CASE r2 = id
  <2>1. reservation'[r1] = reservation[r1] /\ r1 # exclude
    BY <1>1, <1>6
  <2>2. Active(reservation, r1)
    BY <1>1, <2>1 DEF Active
  <2> QED
    BY <1>1, <1>6, <2>1, <2>2, FreeSlot
<1> QED
  BY <1>4, <1>5, <1>6

\* No row becomes active or moves: no clash is new.
LEMMA NoRowPlaced ==
  ASSUME \A r \in ReservationIds :
           Active(reservation', r) => reservation'[r] = reservation[r],
         NEW r1 \in ReservationIds, NEW r2 \in ReservationIds,
         Clash(reservation', r1, r2)
  PROVE  Clash(reservation, r1, r2)
<1>1. /\ reservation'[r1] = reservation[r1]
      /\ reservation'[r2] = reservation[r2]
  BY DEF Clash
<1> QED
  BY <1>1 DEF Clash, Active

LEMMA StepOverlaps ==
  ASSUME TypeOK, TypeOK', [Next]_vars,
         NEW r1 \in ReservationIds, NEW r2 \in ReservationIds,
         Clash(reservation', r1, r2), ~Clash(reservation, r1, r2)
  PROVE  facility_cache[reservation'[r1].facility] = "shared"
<1>1. CASE UNCHANGED <<reservation, link>>
  BY <1>1, NoRowPlaced
<1>2. ASSUME NEW q \in Requests, NEW id \in ReservationIds, PostCommit(q, id)
      PROVE  facility_cache[reservation'[r1].facility] = "shared"
  <2>1. SlotIsFree(reservation, reservation'[id].facility,
                   reservation'[id].start, reservation'[id].end, NoId)
    BY <1>2, PostedRow DEF PostCommit, PostAccepted
  <2>2. \A r \in ReservationIds : r # id =>
          reservation'[r] = reservation[r] /\ r # NoId
    BY <1>2, PostedRow, LedgerAssumption
  <2> QED
    BY <2>1, <2>2, OneRowPlaced
<1>3. ASSUME NEW q \in Requests, PatchCommit(q)
      PROVE  facility_cache[reservation'[r1].facility] = "shared"
  <2> DEFINE id == request[q].id
  <2>1. /\ id \in ReservationIds
        /\ reservation'[id].facility = reservation[id].facility
        /\ reservation'[id].start = LockedStart(q)
        /\ reservation'[id].end = LockedEnd(q)
        /\ \A r \in ReservationIds : r # id => reservation'[r] = reservation[r]
    BY <1>3, PatchedRow
  <2>2. SlotIsFree(reservation, reservation[id].facility,
                   LockedStart(q), LockedEnd(q), id)
    BY <1>3 DEF PatchCommit, PatchAccepted, Latest
  <2> HIDE DEF id
  <2> QED
    BY <2>1, <2>2, OneRowPlaced
<1>4. ASSUME NEW u \in Users, NEW id \in ReservationIds, DeleteReservation(u, id)
      PROVE  facility_cache[reservation'[r1].facility] = "shared"
  <2>1. \A r \in ReservationIds :
          Active(reservation', r) => reservation'[r] = reservation[r]
    BY <1>4, CancelledRow, OtherRowsStay DEF DeleteReservation
  <2> QED
    BY <2>1, NoRowPlaced
<1>5. ASSUME NEW m \in Meetings, MeetingReserves(m)
      PROVE  facility_cache[reservation'[r1].facility] = "shared"
  <2> PICK user \in Users, f \in Facilities, start \in Minutes,
           end \in Minutes, audience \in Audience, id \in ReservationIds :
             ReserveMeetingFacility(m, user, f, start, end, audience, id)
    BY <1>5 DEF MeetingReserves
  <2>1. /\ reservation'[id].facility = f
        /\ reservation'[id].start = start
        /\ reservation'[id].end = end
        /\ \A r \in ReservationIds : r # id => reservation'[r] = Released(m)[r]
    BY ReservedRow
  <2>2. SlotIsFree(reservation, f, start, end, link[m])
    BY DEF ReserveMeetingFacility
  <2>3. ASSUME NEW r \in ReservationIds, r # id, Active(reservation', r)
        PROVE  reservation'[r] = reservation[r] /\ r # link[m]
    <3>1. Active(Released(m), r)
      BY <2>1, <2>3 DEF Active
    <3> QED
      BY <2>1, <2>3, <3>1, ReleasedRow
  <2> QED
    BY <2>1, <2>2, <2>3, OneRowPlaced
<1>6. ASSUME NEW m \in Meetings, ReleaseMeetingFacility(m)
      PROVE  facility_cache[reservation'[r1].facility] = "shared"
  <2>1. \A r \in ReservationIds :
          Active(reservation', r) => reservation'[r] = reservation[r]
    BY <1>6, ReleasedRow DEF ReleaseMeetingFacility
  <2> QED
    BY <2>1, NoRowPlaced
<1> QED
  BY <1>1, <1>2, <1>3, <1>4, <1>5, <1>6, RowWriters

\* Whatever the preflights of concurrent requests saw, two reservations come
\* to overlap only at a facility that is shared in the committing step.
THEOREM LedgerOverlaps == Spec => OverlapOnlyWhenShared
<1>1. TypeOK /\ TypeOK' /\ [Next]_vars =>
        [\A r1, r2 \in ReservationIds :
           Clash(reservation', r1, r2) /\ ~Clash(reservation, r1, r2)
             => facility_cache[reservation'[r1].facility] = "shared"]_vars
  BY StepOverlaps
<1> QED
  BY <1>1, LedgerTypeOK, PTL DEF Spec, OverlapOnlyWhenShared

----------------------------------------------------------------------------
(* Requests in flight *)

\* The step goes on with the request of q, or q has just begun one: a POST
\* with its range checked, a PATCH of a row no link row names.
Carried(q) ==
  /\ request[q] # Idle
  /\ request'[q].op = request[q].op /\ request'[q].id = request[q].id
  /\ request'[q].bodyStart = request[q].bodyStart
  /\ request'[q].bodyEnd = request[q].bodyEnd

Begun(new) ==
  /\ new.op = "post" => new.bodyStart < new.bodyEnd
  /\ new.op = "patch" => /\ reservation[new.id] # NoRow
                         /\ \A m \in Meetings : link[m] # new.id
                         /\ UNCHANGED reservation

LEMMA RequestCarried ==
  ASSUME TypeOK, [Next]_vars, NEW q \in Requests, request'[q] # Idle
  PROVE  Carried(q) \/ Begun(request'[q])
<1> DEFINE RequestKept(p) == \E new : /\ request' = [request EXCEPT ![p] = new]
                               /\ request[p] # Idle
                               /\ new.op = request[p].op
                               /\ new.id = request[p].id
                               /\ new.bodyStart = request[p].bodyStart
                               /\ new.bodyEnd = request[p].bodyEnd
           Fresh(p) == \E new : request' = [request EXCEPT ![p] = new] /\ Begun(new)
<1>1. CASE UNCHANGED request
  BY <1>1 DEF Carried
<1>2. ASSUME NEW p \in Requests, RequestKept(p)
      PROVE  Carried(q) \/ Begun(request'[q])
  BY <1>2 DEF Carried, TypeOK
<1>3. ASSUME NEW p \in Requests, Fresh(p)
      PROVE  Carried(q) \/ Begun(request'[q])
  BY <1>3 DEF Carried, TypeOK
<1>4. ASSUME NEW p \in Requests, Finish(p)
      PROVE  Carried(q) \/ Begun(request'[q])
  BY <1>4 DEF Finish, Carried, TypeOK
<1>5. ASSUME NEW p \in Requests, NEW step, request[p] # Idle, GoTo(p, step)
      PROVE  RequestKept(p)
  <2> DEFINE new == [request[p] EXCEPT !.step = step]
  <2>1. request[p] # Idle /\ request' = [request EXCEPT ![p] = new]
    BY <1>5 DEF GoTo
  <2>2. /\ new.op = request[p].op
        /\ new.id = request[p].id
        /\ new.bodyStart = request[p].bodyStart
        /\ new.bodyEnd = request[p].bodyEnd
    BY <2>1, RequestFields DEF RequestRecord
  <2> HIDE DEF new
  <2> QED
    BY <2>1, <2>2
<1>6. ASSUME NEW p \in Requests, PatchRead(p)
      PROVE  RequestKept(p)
  <2> DEFINE row == reservation[request[p].id]
             new == [request[p] EXCEPT
                       !.step = "parse", !.facility = row.facility,
                       !.staleStart = row.start, !.staleEnd = row.end]
  <2>1. request[p] # Idle /\ request' = [request EXCEPT ![p] = new]
    BY <1>6 DEF PatchRead, At
  <2>2. /\ new.op = request[p].op
        /\ new.id = request[p].id
        /\ new.bodyStart = request[p].bodyStart
        /\ new.bodyEnd = request[p].bodyEnd
    BY <2>1, RequestFields DEF RequestRecord
  <2> HIDE DEF new
  <2> QED
    BY <2>1, <2>2
<1>7. ASSUME NEW p \in Requests, ReadPolicy(p)
      PROVE  RequestKept(p)
  <2> DEFINE policy == facility_cache[request[p].facility] = "shared"
             new == [request[p] EXCEPT !.step = "preflight", !.shared = policy]
  <2>1. request[p] # Idle /\ request' = [request EXCEPT ![p] = new]
    BY <1>7 DEF ReadPolicy, At
  <2> HIDE DEF policy
  <2>2. /\ new.op = request[p].op
        /\ new.id = request[p].id
        /\ new.bodyStart = request[p].bodyStart
        /\ new.bodyEnd = request[p].bodyEnd
    BY <2>1, RequestFields DEF RequestRecord
  <2> HIDE DEF new
  <2> QED
    BY <2>1, <2>2
<1>8. ASSUME NEW p \in Requests, NEW u, NEW g, NEW body, NEW f, NEW s, NEW e,
             PostBegin(p, u, g, body, f, s, e)
      PROVE  Fresh(p)
  <2> DEFINE new == [op |-> "post", step |-> "resolve", user |-> u, groups |-> g,
                     audience |-> body,
                     facility |-> f, id |-> NoId, bodyStart |-> s,
                     bodyEnd |-> e, staleStart |-> Unset,
                     staleEnd |-> Unset, shared |-> FALSE]
  <2>1. /\ request' = [request EXCEPT ![p] = new]
        /\ Begun(new)
    BY <1>8 DEF PostBegin, Begun
  <2> HIDE DEF new
  <2> QED
    BY <2>1
<1>9. ASSUME NEW p \in Requests, NEW u, NEW g, NEW body, NEW id, NEW s, NEW e,
             PatchBegin(p, u, g, body, id, s, e)
      PROVE  Fresh(p)
  <2> DEFINE new == [op |-> "patch", step |-> "read", user |-> u, groups |-> g,
                     audience |-> body,
                     facility |-> Unset, id |-> id, bodyStart |-> s,
                     bodyEnd |-> e, staleStart |-> Unset,
                     staleEnd |-> Unset, shared |-> FALSE]
  <2>1. /\ request' = [request EXCEPT ![p] = new]
        /\ Begun(new)
    BY <1>9 DEF PatchBegin, Begun, ledgerVars
  <2> HIDE DEF new
  <2> QED
    BY <2>1
<1>10. ASSUME NEW p \in Requests, NEW u, NEW f, NEW b, NEW d, ToggleBegin(p, u, f, b, d)
       PROVE  Fresh(p)
  <2> DEFINE new == [op |-> "toggle", step |-> "set", user |-> u, groups |-> {},
                     audience |-> [visibility |-> Unset, group |-> Unset],
                     facility |-> f, id |-> NoId, bodyStart |-> Unset,
                     bodyEnd |-> Unset, staleStart |-> Unset,
                     staleEnd |-> Unset, shared |-> b]
  <2>1. /\ request' = [request EXCEPT ![p] = new]
        /\ Begun(new)
    BY <1>10 DEF ToggleBegin, Begun
  <2> HIDE DEF new
  <2> QED
    BY <2>1
<1> HIDE DEF RequestKept, Fresh
<1>11. CASE FacilityStep
  <2>1. ASSUME NEW p \in Requests, ToggleSet(p)
        PROVE  RequestKept(p)
    BY <2>1, <1>5 DEF ToggleSet, At
  <2> QED
    BY <1>1, <1>2, <1>3, <1>4, <1>10, <1>11, <2>1
    DEF FacilityStep, SyncFacility, ToggleView
<1>12. CASE BeginStep
  BY <1>3, <1>8, <1>9, <1>12 DEF BeginStep
<1>13. CASE AwaitStep
  <2>1. ASSUME NEW p \in Requests, PatchParse(p)
        PROVE  RequestKept(p)
    BY <2>1, <1>5 DEF PatchParse, At
  <2>2. ASSUME NEW p \in Requests, NEW d, ResolveKnown(p, d)
        PROVE  RequestKept(p)
    BY <2>2, <1>5 DEF ResolveKnown, At
  <2>3. ASSUME NEW p \in Requests, ResolveUnknown(p) \/ Preflight(p)
        PROVE  RequestKept(p)
    BY <2>3, <1>5 DEF ResolveUnknown, Preflight, At
  <2> QED
    BY <1>2, <1>4, <1>6, <1>7, <1>13, <2>1, <2>2, <2>3
    DEF AwaitStep, RequestFails
<1>14. CASE CommitStep
  BY <1>1, <1>4, <1>14 DEF CommitStep, PostCommit, PatchCommit, DeleteReservation
<1>15. CASE MeetingStep
  BY <1>1, <1>15 DEF MeetingStep, MeetingReserves, ReserveMeetingFacility,
                     ReleaseMeetingFacility
<1> QED
  BY <1>1, <1>11, <1>12, <1>13, <1>14, <1>15 DEF Next, vars

----------------------------------------------------------------------------
(* Reservations are proper intervals *)

\* IntervalsAreProper is not inductive on its own: a POST checks its range
\* once, before its first await, and commits it many steps later.
ProperSoFar ==
  /\ IntervalsAreProper
  /\ \A q \in Requests : request[q] # Idle /\ request[q].op = "post"
       => request[q].bodyStart < request[q].bodyEnd

LEMMA StepProper ==
  ASSUME TypeOK, TypeOK', ProperSoFar, [Next]_vars
  PROVE  ProperSoFar'
<1> SUFFICES ASSUME NEW r \in ReservationIds, reservation'[r] # NoRow
             PROVE  reservation'[r].start < reservation'[r].end
  BY RequestCarried DEF Carried, Begun, ProperSoFar, IntervalsAreProper, Rows
<1>1. reservation[r] # NoRow => reservation[r].start < reservation[r].end
  BY DEF ProperSoFar, IntervalsAreProper, Rows
<1>2. CASE UNCHANGED <<reservation, link>>
  BY <1>1, <1>2
<1>3. ASSUME NEW q \in Requests, NEW id \in ReservationIds, PostCommit(q, id)
      PROVE  reservation'[r].start < reservation'[r].end
  <2>1. request[q].bodyStart < request[q].bodyEnd
    BY <1>3 DEF PostCommit, At, ProperSoFar
  <2> QED
    BY <1>1, <1>3, <2>1, PostedRow
<1>4. ASSUME NEW q \in Requests, PatchCommit(q)
      PROVE  reservation'[r].start < reservation'[r].end
  <2>1. LockedStart(q) < LockedEnd(q)
    BY <1>4 DEF PatchCommit, PatchAccepted
  <2> QED
    BY <1>1, <1>4, <2>1, PatchedRow
<1>5. ASSUME NEW u \in Users, NEW id \in ReservationIds, DeleteReservation(u, id)
      PROVE  reservation'[r].start < reservation'[r].end
  <2>1. /\ reservation' = Cancelled(reservation, id)
        /\ Active(reservation, id)
    BY <1>5 DEF DeleteReservation
  <2>2. reservation[r] # NoRow
    BY <2>1, OtherRowsStay DEF Active
  <2> QED
    BY <1>1, <2>1, <2>2, CancelledKeepsRows
<1>6. ASSUME NEW m \in Meetings
      PROVE  /\ Released(m)[r] # NoRow => reservation[r] # NoRow
             /\ Released(m)[r] # NoRow => Released(m)[r].start < Released(m)[r].end
  <2>1. Released(m)[r] # NoRow => reservation[r] # NoRow
    BY ReleasedRow DEF Active
  <2> QED
    BY <1>1, <2>1, ReleasedKeepsRows
<1>7. ASSUME NEW m \in Meetings, MeetingReserves(m)
      PROVE  reservation'[r].start < reservation'[r].end
  <2> PICK user \in Users, f \in Facilities, start \in Minutes,
           end \in Minutes, audience \in Audience, id \in ReservationIds :
             ReserveMeetingFacility(m, user, f, start, end, audience, id)
    BY <1>7 DEF MeetingReserves
  <2>1. start < end
    BY DEF ReserveMeetingFacility
  <2> QED
    BY <1>6, <2>1, ReservedRow
<1>8. ASSUME NEW m \in Meetings, ReleaseMeetingFacility(m)
      PROVE  reservation'[r].start < reservation'[r].end
  BY <1>6, <1>8 DEF ReleaseMeetingFacility
<1> QED
  BY <1>2, <1>3, <1>4, <1>5, <1>7, <1>8, RowWriters

\* No interleaving of posts, partial patches and meeting operations leaves a
\* reservation empty or inverted.
THEOREM LedgerIntervals == Spec => []IntervalsAreProper
<1>1. Init => TypeOK /\ ProperSoFar
  BY InitType DEF Init, ProperSoFar, IntervalsAreProper, Rows
<1>2. TypeOK /\ ProperSoFar /\ [Next]_vars => TypeOK' /\ ProperSoFar'
  BY StepType, StepProper
<1>3. ProperSoFar => IntervalsAreProper
  BY DEF ProperSoFar
<1> QED
  BY <1>1, <1>2, <1>3, PTL DEF Spec

----------------------------------------------------------------------------
(* A meeting's reservation is managed from the meeting only *)

\* A PATCH in flight works on a row of its own kind, or on a dead one: a row
\* a meeting holds is linked, and one it gave up is cancelled for good.
PatchesUnmanaged ==
  \A q \in Requests :
    /\ request[q] # Idle /\ request[q].op = "patch"
    /\ Active(reservation, request[q].id)
    => reservation[request[q].id].meeting = NoMeeting

LedgerInvariant ==
  TypeOK /\ MeetingHoldsOneReservation /\ ProperSoFar /\ PatchesUnmanaged

\* No step revives a row or gives it to another meeting.
LEMMA RowsAge ==
  ASSUME TypeOK, [Next]_vars, NEW r \in ReservationIds, reservation[r] # NoRow,
         Active(reservation', r)
  PROVE  Active(reservation, r) /\ reservation'[r].meeting = reservation[r].meeting
<1>1. Active(reservation, r)
  BY StepKeepsCancelled DEF Rows, Active
<1>2. CASE UNCHANGED <<reservation, link>>
  BY <1>1, <1>2
<1>3. ASSUME NEW q \in Requests, NEW id \in ReservationIds, PostCommit(q, id)
      PROVE  reservation'[r].meeting = reservation[r].meeting
  BY <1>3, PostedRow
<1>4. ASSUME NEW q \in Requests, PatchCommit(q)
      PROVE  reservation'[r].meeting = reservation[r].meeting
  BY <1>4, PatchedRow
<1>5. ASSUME NEW u \in Users, NEW id \in ReservationIds, DeleteReservation(u, id)
      PROVE  reservation'[r].meeting = reservation[r].meeting
  BY <1>5, CancelledKeepsRows DEF DeleteReservation
<1>6. ASSUME NEW m \in Meetings, MeetingReserves(m)
      PROVE  reservation'[r].meeting = reservation[r].meeting
  <2> PICK user \in Users, f \in Facilities, start \in Minutes,
           end \in Minutes, audience \in Audience, id \in ReservationIds :
             ReserveMeetingFacility(m, user, f, start, end, audience, id)
    BY <1>6 DEF MeetingReserves
  <2> QED
    BY ReservedRow, ReleasedKeepsRows
<1>7. ASSUME NEW m \in Meetings, ReleaseMeetingFacility(m)
      PROVE  reservation'[r].meeting = reservation[r].meeting
  BY <1>7, ReleasedKeepsRows DEF ReleaseMeetingFacility
<1> QED
  BY <1>1, <1>2, <1>3, <1>4, <1>5, <1>6, <1>7, RowWriters

LEMMA StepUnmanaged ==
  ASSUME LedgerInvariant, TypeOK', [Next]_vars
  PROVE  PatchesUnmanaged'
<1> SUFFICES ASSUME NEW q \in Requests, request'[q] # Idle, request'[q].op = "patch",
                    Active(reservation', request'[q].id)
             PROVE  reservation'[request'[q].id].meeting = NoMeeting
  BY DEF PatchesUnmanaged
<1>1. TypeOK /\ (Carried(q) \/ Begun(request'[q]))
  BY RequestCarried DEF LedgerInvariant
<1>2. CASE Carried(q)
  <2>1. /\ request[q] # Idle /\ request[q].op = "patch"
        /\ request'[q].id = request[q].id
    BY <1>2 DEF Carried
  <2>2. request[q].id \in ReservationIds /\ reservation[request[q].id] # NoRow
    BY <1>1, <2>1 DEF TypeOK, RequestShape
  <2>3. PICK id \in ReservationIds : id = request[q].id
    BY <2>2
  <2>4. Active(reservation, id) /\ reservation'[id].meeting = reservation[id].meeting
    BY <1>1, <2>1, <2>2, <2>3, RowsAge
  <2> QED
    BY <2>1, <2>3, <2>4 DEF LedgerInvariant, PatchesUnmanaged
<1>3. CASE Begun(request'[q])
  <2>1. PICK id \in ReservationIds : id = request'[q].id
    BY DEF TypeOK, RequestShape
  <2>2. /\ reservation' = reservation /\ Active(reservation, id)
        /\ \A m \in Meetings : link[m] # id
    BY <1>3, <2>1 DEF Begun
  <2>3. reservation[id] \in ReservationRow
    BY <1>1, <2>2, ActiveIsRow
  <2>4. reservation[id].meeting \in Meetings \cup {NoMeeting}
    BY <2>3 DEF ReservationRow
  <2> QED
    BY <2>1, <2>2, <2>4 DEF LedgerInvariant, MeetingHoldsOneReservation
<1> QED
  BY <1>1, <1>2, <1>3

LEMMA LedgerStarts == Init => LedgerInvariant
BY InitType, InitHolds
DEF Init, LedgerInvariant, ProperSoFar, IntervalsAreProper, Rows, PatchesUnmanaged

LEMMA LedgerGoesOn ==
  ASSUME LedgerInvariant, [Next]_vars
  PROVE  LedgerInvariant'
<1>1. TypeOK'
  BY StepType DEF LedgerInvariant
<1> QED
  BY <1>1, StepHolds, StepProper, StepUnmanaged DEF LedgerInvariant

\* What the refinement and the action property rest on, in every state.
THEOREM LedgerInductive == Spec => []LedgerInvariant
BY LedgerStarts, LedgerGoesOn, PTL DEF Spec

\* What a PATCH or a DELETE writes belongs to no meeting.
LEMMA PatchedUnmanaged ==
  ASSUME LedgerInvariant, NEW q \in Requests, PatchCommit(q)
  PROVE  reservation[request[q].id].meeting = NoMeeting
BY DEF LedgerInvariant, PatchesUnmanaged, PatchCommit, PatchAccepted, At

LEMMA DeletedUnmanaged ==
  ASSUME LedgerInvariant, NEW u \in Users, NEW id \in ReservationIds,
         DeleteReservation(u, id)
  PROVE  reservation[id].meeting = NoMeeting
<1>1. /\ Active(reservation, id) /\ \A m \in Meetings : link[m] # id
      /\ TypeOK /\ MeetingHoldsOneReservation
  BY DEF LedgerInvariant, DeleteReservation
<1>2. reservation[id].meeting \in Meetings \cup {NoMeeting}
  BY <1>1, ActiveIsRow DEF ReservationRow
<1> QED
  BY <1>1, <1>2 DEF MeetingHoldsOneReservation

\* What releasing a meeting's facility changes is a row of that meeting.
LEMMA ReleasedIsManaged ==
  ASSUME LedgerInvariant, NEW m \in Meetings, NEW r \in ReservationIds,
         Released(m)[r] # reservation[r]
  PROVE  /\ reservation[r].meeting = m
         /\ Released(m)[r] = [reservation[r] EXCEPT !.state = "cancelled"]
BY ReleasedRow DEF LedgerInvariant, MeetingHoldsOneReservation, TypeOK, Released

LEMMA StepManaged ==
  ASSUME LedgerInvariant, [Next]_vars, NEW r \in Rows,
         reservation[r].meeting # NoMeeting, reservation'[r] # reservation[r]
  PROVE  /\ reservation'[r] = [reservation[r] EXCEPT !.state = "cancelled"]
         /\ \/ ReleaseMeetingFacility(reservation[r].meeting)
            \/ MeetingReserves(reservation[r].meeting)
<1> DEFINE Goal == /\ reservation'[r] = [reservation[r] EXCEPT !.state = "cancelled"]
                   /\ \/ ReleaseMeetingFacility(reservation[r].meeting)
                      \/ MeetingReserves(reservation[r].meeting)
<1>1. r \in ReservationIds /\ reservation[r] # NoRow /\ TypeOK
  BY DEF Rows, LedgerInvariant
<1>2. ASSUME NEW q \in Requests, NEW id \in ReservationIds, PostCommit(q, id)
      PROVE  FALSE
  BY <1>1, <1>2, PostedRow
<1>3. ASSUME NEW q \in Requests, PatchCommit(q)
      PROVE  FALSE
  BY <1>1, <1>3, PatchedRow, PatchedUnmanaged
<1>4. ASSUME NEW u \in Users, NEW id \in ReservationIds, DeleteReservation(u, id)
      PROVE  FALSE
  BY <1>1, <1>4, OtherRowsStay, DeletedUnmanaged DEF DeleteReservation
<1>5. ASSUME NEW m \in Meetings, MeetingReserves(m)
      PROVE  Goal
  <2> PICK user \in Users, f \in Facilities, start \in Minutes,
           end \in Minutes, audience \in Audience, id \in ReservationIds :
             ReserveMeetingFacility(m, user, f, start, end, audience, id)
    BY <1>5 DEF MeetingReserves
  <2>1. reservation'[r] = Released(m)[r]
    BY <1>1, ReservedRow
  <2> QED
    BY <1>1, <1>5, <2>1, ReleasedIsManaged
<1>6. ASSUME NEW m \in Meetings, ReleaseMeetingFacility(m)
      PROVE  Goal
  BY <1>1, <1>6, ReleasedIsManaged DEF ReleaseMeetingFacility
<1> QED
  BY <1>2, <1>3, <1>4, <1>5, <1>6, RowWriters

\* The reservation of a meeting is changed by that meeting only, which
\* cancels it: the link table a PATCH reads before its transaction may be
\* stale by then, and still no PATCH reaches a row a meeting holds.
THEOREM LedgerManagedFromMeetingOnly == Spec => ManagedFromMeetingOnly
<1>. DEFINE RowsKept == \A r \in Rows :
       reservation[r].meeting # NoMeeting /\ reservation'[r] # reservation[r]
         => /\ reservation'[r] = [reservation[r] EXCEPT !.state = "cancelled"]
            /\ \/ ReleaseMeetingFacility(reservation[r].meeting)
               \/ MeetingReserves(reservation[r].meeting)
<1>1. LedgerInvariant /\ [Next]_vars => [RowsKept]_vars
  BY StepManaged
<1>2. Spec => [][RowsKept]_vars
  BY <1>1, LedgerInductive, PTL DEF Spec
<1> QED
  BY <1>2 DEF ManagedFromMeetingOnly

----------------------------------------------------------------------------
(* The ledger implements the calendar *)

\* What the calendar holds for a live row, field by field.
LEMMA LiveHolding ==
  ASSUME NEW row \in ReservationRow, row.state = "confirmed"
  PROVE  /\ HoldingOf(row) = [facility |-> row.facility, owner |-> row.owner,
                start |-> row.start, end |-> row.end, meeting |-> row.meeting]
         /\ HoldingOf(row) \in Calendar!Holding
BY NoRowAssumption DEF HoldingOf, ReservationRow, Calendar!Holding

LEMMA ActiveHolding ==
  ASSUME TypeOK, NEW r \in ReservationIds
  PROVE  /\ Calendar!Held(r) <=> Active(reservation, r)
         /\ Active(reservation, r) =>
              /\ reservation[r] \in ReservationRow /\ reservation[r].state = "confirmed"
              /\ HoldingOf(reservation[r]) \in Calendar!Holding
         /\ ~Active(reservation, r) /\ reservation[r] # NoRow =>
              HoldingOf(reservation[r]) = Over
<1>1. CASE Active(reservation, r)
  <2>1. reservation[r] \in ReservationRow /\ reservation[r].state = "confirmed"
    BY <1>1, ActiveIsRow DEF Active, ReservationRow
  <2>2. HoldingOf(reservation[r]) \in Calendar!Holding
    BY <2>1, LiveHolding
  <2> QED
    BY <1>1, <2>1, <2>2, OverAssumption DEF Calendar!Held
<1>2. CASE ~Active(reservation, r)
  BY <1>2 DEF Calendar!Held, Active, HoldingOf
<1> QED
  BY <1>1, <1>2

\* A slot the transaction found free fits into the calendar.
LEMMA FreeSlotFits ==
  ASSUME TypeOK, NEW row \in ReservationRow, row.state = "confirmed",
         NEW but, NEW exclude,
         SlotIsFree(reservation, row.facility, row.start, row.end, exclude),
         \A r \in ReservationIds : Active(reservation, r) /\ r # but => r # exclude
  PROVE  Calendar!Fits(HoldingOf(row), but)
<1>1. HoldingOf(row) = [facility |-> row.facility, owner |-> row.owner,
        start |-> row.start, end |-> row.end, meeting |-> row.meeting]
  BY LiveHolding
<1>2. row.facility \in Facilities
  BY DEF ReservationRow
<1>3. SUFFICES ASSUME facility_cache[row.facility] # "shared",
                      NEW r \in ReservationIds, Calendar!Held(r), r # but
               PROVE  LET h == HoldingOf(reservation[r]) IN
                      \/ h.facility # row.facility
                      \/ h.end <= row.start
                      \/ h.start >= row.end
  BY <1>1, <1>2 DEF Calendar!Fits
<1>4. /\ Active(reservation, r)
      /\ reservation[r] \in ReservationRow /\ reservation[r].state = "confirmed"
  BY <1>3, ActiveHolding
<1>5. /\ HoldingOf(reservation[r]).facility = reservation[r].facility
      /\ HoldingOf(reservation[r]).start = reservation[r].start
      /\ HoldingOf(reservation[r]).end = reservation[r].end
  BY <1>4, LiveHolding
<1>6. /\ reservation[r].start \in Int /\ reservation[r].end \in Int
      /\ row.start \in Int /\ row.end \in Int
  BY <1>4, MinuteIsInt DEF ReservationRow
<1>7. reservation[r].facility = row.facility =>
        ~Overlaps(reservation[r].start, reservation[r].end, row.start, row.end)
  BY <1>3, <1>4, FreeSlot
<1> QED
  BY <1>5, <1>6, <1>7 DEF Overlaps

\* The calendar of the rows, and how it changes when rows do.
Holdings == [r \in ReservationIds |-> HoldingOf(reservation[r])]

LEMMA OneValue ==
  ASSUME NEW S, NEW f, NEW g, f = [x \in S |-> f[x]], g = [x \in S |-> g[x]],
         NEW id \in S, \A x \in S : x # id => g[x] = f[x]
  PROVE  g = [f EXCEPT ![id] = g[id]]
OBVIOUS

LEMMA OneHolding ==
  ASSUME NEW id \in ReservationIds,
         \A r \in ReservationIds : r # id =>
           HoldingOf(reservation'[r]) = HoldingOf(reservation[r])
  PROVE  Holdings' = [Holdings EXCEPT ![id] = HoldingOf(reservation'[id])]
<1>1. PICK f : f = Holdings
  OBVIOUS
<1>2. PICK g : g = Holdings'
  OBVIOUS
<1>3. /\ f = [x \in ReservationIds |-> f[x]] /\ g = [x \in ReservationIds |-> g[x]]
      /\ \A x \in ReservationIds : f[x] = HoldingOf(reservation[x])
      /\ \A x \in ReservationIds : g[x] = HoldingOf(reservation'[x])
  BY <1>1, <1>2 DEF Holdings
<1>4. g = [f EXCEPT ![id] = g[id]]
  BY <1>3, OneValue
<1> QED
  BY <1>1, <1>2, <1>3, <1>4

\* A row placed where there was none is a booking made.
LEMMA RowBooked ==
  ASSUME TypeOK, NEW id \in ReservationIds, reservation[id] = NoRow,
         NEW row \in ReservationRow, row.state = "confirmed", row.start < row.end,
         SlotIsFree(reservation, row.facility, row.start, row.end, NoId),
         reservation' = [reservation EXCEPT ![id] = row],
         UNCHANGED facility_cache
  PROVE  Calendar!Next
<1> DEFINE h == HoldingOf(row)
<1>1. /\ h \in Calendar!Holding
      /\ h.facility = row.facility /\ h.start = row.start /\ h.end = row.end
  BY LiveHolding
<1>2. Calendar!Fits(h, id)
  BY FreeSlotFits, LedgerAssumption
<1>3. HoldingOf(reservation[id]) = NoRow
  BY DEF HoldingOf
<1>4. /\ HoldingOf(reservation'[id]) = h
      /\ \A r \in ReservationIds : r # id =>
           HoldingOf(reservation'[r]) = HoldingOf(reservation[r])
  BY DEF TypeOK
<1> HIDE DEF h
<1>5. Holdings' = [Holdings EXCEPT ![id] = h]
  BY <1>4, OneHolding
<1>6. Calendar!Book(id, h)
  <2>1. Calendar!Proper(h)
    BY <1>1 DEF Calendar!Proper
  <2>2. {f \in Facilities : facility_cache'[f] = "shared"}
          = {f \in Facilities : facility_cache[f] = "shared"}
    OBVIOUS
  <2> QED
    BY <1>2, <1>3, <1>5, <2>1, <2>2 DEF Calendar!Book, Holdings
<1> QED
  BY <1>1, <1>6 DEF Calendar!Next

\* A cancelled row is over.
LEMMA CancelledIsOver ==
  ASSUME TypeOK, NEW c \in ReservationIds, Active(reservation, c)
  PROVE  HoldingOf(Cancelled(reservation, c)[c]) = Over
BY CancelledRow, CancelledKeepsRows DEF HoldingOf, Active

LEMMA RowEnded ==
  ASSUME TypeOK, NEW c \in ReservationIds, Active(reservation, c),
         reservation' = Cancelled(reservation, c), UNCHANGED facility_cache
  PROVE  Calendar!Next
<1>1. Calendar!Held(c)
  BY ActiveHolding
<1>2. Holdings' = [Holdings EXCEPT ![c] = Over]
  BY OneHolding, CancelledIsOver, OtherRowsStay
<1>3. Calendar!End(c)
  BY <1>1, <1>2 DEF Calendar!End, Holdings
<1> QED
  BY <1>3 DEF Calendar!Next

\* A PATCH moves a booking, or leaves it where it is.
LEMMA RowMoved ==
  ASSUME LedgerInvariant, NEW q \in Requests, PatchCommit(q)
  PROVE  Calendar!Next
<1> DEFINE new == [Latest(q) EXCEPT !.start = LockedStart(q), !.end = LockedEnd(q),
                                    !.audience = LockedAudience(q)]
<1>1. PICK id \in ReservationIds : id = request[q].id
  BY PatchedRow DEF LedgerInvariant
<1>2. /\ TypeOK /\ Active(reservation, id) /\ PatchAccepted(q)
      /\ Latest(q) = reservation[id] /\ reservation[id] \in ReservationRow
      /\ reservation[id].state = "confirmed" /\ new \in ReservationRow
      /\ LockedStart(q) \in Minutes /\ LockedEnd(q) \in Minutes
  BY <1>1, PatchedRowType, ActiveHolding
  DEF LedgerInvariant, PatchCommit, PatchAccepted, Latest
<1>3. /\ new.state = "confirmed" /\ new.facility = reservation[id].facility
      /\ new.owner = reservation[id].owner /\ new.meeting = reservation[id].meeting
      /\ new.start = LockedStart(q) /\ new.end = LockedEnd(q)
  BY <1>2 DEF ReservationRow
<1>4. reservation' = [reservation EXCEPT ![id] = new] /\ UNCHANGED facility_cache
  BY <1>1 DEF PatchCommit, Latest
<1>5. reservation[id].meeting = NoMeeting
  BY <1>1, PatchedUnmanaged
<1>6. /\ new.start < new.end
      /\ SlotIsFree(reservation, new.facility, new.start, new.end, id)
  BY <1>1, <1>2, <1>3 DEF PatchAccepted, Latest
<1> HIDE DEF new
<1>7. PICK held : held = HoldingOf(reservation[id])
  OBVIOUS
<1>8. held = [facility |-> reservation[id].facility, owner |-> reservation[id].owner,
              start |-> reservation[id].start, end |-> reservation[id].end,
              meeting |-> reservation[id].meeting]
  BY <1>2, <1>7, LiveHolding
<1>9. HoldingOf(new) = [facility |-> new.facility, owner |-> new.owner,
        start |-> new.start, end |-> new.end, meeting |-> new.meeting]
  BY <1>2, <1>3, LiveHolding
<1>10. PICK h : h = [held EXCEPT !.start = LockedStart(q), !.end = LockedEnd(q)]
  OBVIOUS
<1>11. h = HoldingOf(new)
  <2>1. h = [facility |-> reservation[id].facility, owner |-> reservation[id].owner,
             start |-> LockedStart(q), end |-> LockedEnd(q),
             meeting |-> reservation[id].meeting]
    BY <1>8, <1>10
  <2> QED
    BY <1>3, <1>9, <2>1
<1>12. Calendar!Fits(h, id)
  BY <1>2, <1>3, <1>6, <1>11, FreeSlotFits
<1>13. Calendar!Proper(h)
  BY <1>6, <1>9, <1>11 DEF Calendar!Proper
<1>14. Holdings' = [Holdings EXCEPT ![id] = h]
  <2>1. /\ reservation'[id] = new
        /\ \A r \in ReservationIds : r # id => reservation'[r] = reservation[r]
    BY <1>2, <1>4 DEF TypeOK
  <2> QED
    BY <1>11, <2>1, OneHolding
<1>15. Calendar!Held(id)
  BY <1>2, ActiveHolding
<1>16. Calendar!Move(id, LockedStart(q), LockedEnd(q))
  <2>1. Holdings[id] = held
    BY <1>7 DEF Holdings
  <2>2. held.meeting = NoMeeting
    BY <1>5, <1>8
  <2> QED
    BY <1>4, <1>10, <1>12, <1>13, <1>14, <1>15, <2>1, <2>2 DEF Calendar!Move, Holdings
<1> QED
  BY <1>2, <1>16 DEF Calendar!Next

\* A meeting books a slot, and gives up the one it held.
LEMMA MeetingBooks ==
  ASSUME LedgerInvariant, NEW m \in Meetings, MeetingReserves(m)
  PROVE  Calendar!Next
<1> PICK user \in Users, f \in Facilities, start \in Minutes,
         end \in Minutes, audience \in Audience, id \in ReservationIds :
           ReserveMeetingFacility(m, user, f, start, end, audience, id)
  BY DEF MeetingReserves
<1>1. PICK row : row = [facility |-> f, owner |-> user, start |-> start, end |-> end,
        audience |-> audience, state |-> "confirmed", meeting |-> m]
  OBVIOUS
<1>2. row \in ReservationRow /\ row.state = "confirmed" /\ row.meeting = m
  BY <1>1 DEF ReservationRow
<1>3. /\ TypeOK /\ MeetingHoldsOneReservation
      /\ reservation[id] = NoRow /\ UNCHANGED facility_cache
      /\ reservation' = [Released(m) EXCEPT ![id] = row]
      /\ row.start < row.end
      /\ SlotIsFree(reservation, row.facility, row.start, row.end, link[m])
  BY <1>1 DEF LedgerInvariant, ReserveMeetingFacility
<1>4. CASE ~(link[m] # NoId /\ Active(reservation, link[m]))
  <2>1. reservation' = [reservation EXCEPT ![id] = row]
    BY <1>3, <1>4 DEF Released
  <2>2. SlotIsFree(reservation, row.facility, row.start, row.end, NoId)
    BY <1>3, <1>4, LedgerAssumption DEF SlotIsFree, FindConflicts
  <2> QED
    BY <1>2, <1>3, <2>1, <2>2, RowBooked
<1>5. CASE link[m] # NoId /\ Active(reservation, link[m])
  <2>1. PICK old \in ReservationIds : old = link[m]
    BY <1>3, <1>5 DEF TypeOK
  <2>2. /\ Active(reservation, old) /\ reservation[old].meeting = m
        /\ old # id /\ Released(m) = Cancelled(reservation, old)
    BY <1>3, <1>5, <2>1 DEF MeetingHoldsOneReservation, Released, Active
  <2>3. PICK h : h = HoldingOf(row)
    OBVIOUS
  <2>4. h \in Calendar!Holding /\ h.meeting = m /\ h.start < h.end
    BY <1>2, <1>3, <2>3, LiveHolding
  <2>5. Calendar!Fits(h, old)
    BY <1>2, <1>3, <2>1, <2>3, FreeSlotFits
  <2>6. PICK mid : mid = [r \in ReservationIds |-> HoldingOf(Released(m)[r])]
    OBVIOUS
  <2>7. mid = [Holdings EXCEPT ![old] = Over]
    <3>1. PICK g : g = Holdings
      OBVIOUS
    <3>2. /\ g = [x \in ReservationIds |-> g[x]]
          /\ \A x \in ReservationIds : g[x] = HoldingOf(reservation[x])
      BY <3>1 DEF Holdings
    <3>3. /\ mid = [x \in ReservationIds |-> mid[x]]
          /\ \A x \in ReservationIds : mid[x] = HoldingOf(Released(m)[x])
      BY <2>6
    <3>4. mid[old] = Over
      BY <1>3, <2>2, <3>3, CancelledIsOver
    <3>5. \A x \in ReservationIds : x # old => mid[x] = g[x]
      BY <1>3, <2>2, <3>2, <3>3, OtherRowsStay
    <3> QED
      BY <3>1, <3>2, <3>3, <3>4, <3>5, OneValue
  <2>8. Holdings' = [mid EXCEPT ![id] = h]
    <3>1. PICK g : g = Holdings'
      OBVIOUS
    <3>2. /\ g = [x \in ReservationIds |-> g[x]]
          /\ \A x \in ReservationIds : g[x] = HoldingOf(reservation'[x])
      BY <3>1 DEF Holdings
    <3>3. /\ mid = [x \in ReservationIds |-> mid[x]]
          /\ \A x \in ReservationIds : mid[x] = HoldingOf(Released(m)[x])
      BY <2>6
    <3>4. /\ reservation'[id] = row
          /\ \A x \in ReservationIds : x # id => reservation'[x] = Released(m)[x]
      BY <1>3, ReleasedType
    <3> QED
      BY <2>3, <3>1, <3>2, <3>3, <3>4, OneValue
  <2>9. Holdings' = [Holdings EXCEPT ![old] = Over, ![id] = h]
    BY <2>7, <2>8
  <2>10. Calendar!Held(old)
    BY <1>3, <2>2, ActiveHolding
  <2>11. HoldingOf(reservation[old]).meeting = m
    BY <1>3, <2>2, ActiveHolding, LiveHolding
  <2>12. /\ Holdings[old] = HoldingOf(reservation[old]) /\ Holdings[id] = NoRow
    BY <1>3 DEF Holdings, HoldingOf
  <2>13. Calendar!Exchange(old, id, h)
    <3>1. Calendar!Proper(h) /\ m # NoMeeting
      BY <2>4, LedgerAssumption DEF Calendar!Proper
    <3> QED
      BY <1>3, <2>4, <2>5, <2>9, <2>10, <2>11, <2>12, <3>1 DEF Calendar!Exchange, Holdings
  <2> QED
    BY <2>4, <2>13 DEF Calendar!Next
<1> QED
  BY <1>4, <1>5

LEMMA StepRefines ==
  ASSUME LedgerInvariant, [Next]_vars
  PROVE  [Calendar!Next]_(Calendar!vars)
<1>1. TypeOK
  BY DEF LedgerInvariant
<1>2. CASE UNCHANGED <<reservation, link>>
  <2>1. PICK s : s = {f \in Facilities : facility_cache'[f] = "shared"}
    OBVIOUS
  <2>2. s \in SUBSET Facilities
    BY <2>1
  <2>3. Calendar!SetPolicy(s)
    BY <1>2, <2>1 DEF Calendar!SetPolicy
  <2> QED
    BY <2>2, <2>3 DEF Calendar!Next
<1>3. ASSUME NEW q \in Requests, NEW id \in ReservationIds, PostCommit(q, id)
      PROVE  Calendar!Next
  <2>1. PICK row : row =
          [facility |-> request[q].facility, owner |-> request[q].user,
           start |-> request[q].bodyStart, end |-> request[q].bodyEnd,
           audience |-> RequestedAudience(request[q].audience, PublicAudience),
           state |-> "confirmed", meeting |-> NoMeeting]
    OBVIOUS
  <2>2. row \in ReservationRow
    BY <1>1, <1>3, <2>1, PostedRowType DEF PostCommit
  <2>3. row.start < row.end
    BY <1>3, <2>1 DEF LedgerInvariant, ProperSoFar, PostCommit, At
  <2>4. /\ row.state = "confirmed" /\ reservation[id] = NoRow
        /\ SlotIsFree(reservation, row.facility, row.start, row.end, NoId)
        /\ reservation' = [reservation EXCEPT ![id] = row]
        /\ UNCHANGED facility_cache
    BY <1>3, <2>1 DEF PostCommit, PostAccepted
  <2> QED
    BY <1>1, <2>2, <2>3, <2>4, RowBooked
<1>4. ASSUME NEW u \in Users, NEW id \in ReservationIds, DeleteReservation(u, id)
      PROVE  Calendar!Next
  BY <1>1, <1>4, RowEnded DEF DeleteReservation
<1>5. ASSUME NEW m \in Meetings, ReleaseMeetingFacility(m)
      PROVE  [Calendar!Next]_(Calendar!vars)
  <2>1. CASE link[m] # NoId /\ Active(reservation, link[m])
    <3>1. link[m] \in ReservationIds
      BY <1>1, <2>1 DEF TypeOK
    <3> QED
      BY <1>1, <1>5, <2>1, <3>1, RowEnded DEF ReleaseMeetingFacility, Released
  <2>2. CASE ~(link[m] # NoId /\ Active(reservation, link[m]))
    <3>1. UNCHANGED <<reservation, facility_cache>>
      BY <1>5, <2>2 DEF ReleaseMeetingFacility, Released
    <3> QED
      BY <3>1 DEF Calendar!vars
  <2> QED
    BY <2>1, <2>2
<1> QED
  BY <1>2, <1>3, <1>4, <1>5, RowMoved, MeetingBooks, RowWriters

LEMMA InitRefines == Init => Calendar!Init
<1> SUFFICES ASSUME Init
             PROVE  Calendar!Init
  OBVIOUS
<1>1. {f \in Facilities : facility_cache[f] = "shared"} = {}
  BY DEF Init
<1>2. \A r \in ReservationIds : HoldingOf(reservation[r]) = NoRow
  BY DEF Init, HoldingOf
<1>3. [r \in ReservationIds |-> HoldingOf(reservation[r])]
        = [r \in ReservationIds |-> NoRow]
  BY <1>2
<1> QED
  BY <1>1, <1>3 DEF Calendar!Init

\* Every request, however many steps it takes and whatever runs between
\* them, books, moves, exchanges or ends in the one step that commits it: the
\* ledger is a calendar.
THEOREM LedgerImplementsCalendar == Spec => ImplementsCalendar
BY InitRefines, StepRefines, LedgerInductive, PTL
DEF Spec, ImplementsCalendar, Calendar!Spec

----------------------------------------------------------------------------
(* Part two: the meetings *)

\* What a page and its request know of their meeting as long as the revision
\* on the page is the meeting's.
KnowsMeeting(v) ==
  LET p == poll[v.meeting] IN
  /\ p # None /\ v.revision <= p.revision
  /\ v.revision = p.revision =>
       /\ v.slots = p.slots
       /\ v.step = "begun" =>
            CanReadBooking(p.audience, v.groups, v.user # None, p.owner \in v.ids)
       /\ v.step \in {"guest", "commit"} =>
            v.audience = RequestedAudience(v.input.audience, p.audience)
       /\ v.step = "commit" =>
            v.guestSetting = ResolveGuest(v.input.guest, v.audience, p.guest)

\* What they know of their answer as long as its revision is the page's.
KnowsAnswer(v) ==
  LET row == response[v.answer] IN
  /\ row # None /\ v.row \in ResponseRow
  /\ row # Gone => /\ row.meeting = v.meeting
                   /\ v.row.revision <= row.revision
                   /\ v.row.revision = row.revision => row = v.row

\* An audience some user may give a meeting.
Usable(audience) == MayUseAudience(audience, Groups, TRUE)

Knows(v) ==
  /\ v.step \in {"audience", "guest", "commit"} => v.input \in Inputs
  /\ Usable(v.audience)
  /\ v.meeting = None => v.step = "commit" /\ v.answer = None
  /\ v.meeting # None => KnowsMeeting(v)
  /\ v.answer # None => KnowsAnswer(v)

VisitsKnow == \A b \in Browsers : visit[b] # None => Knows(visit[b])

\* The venue a candidate names is one of the meeting's.
VenuesListed(p) ==
  \A s \in Given(p.slots) :
    p.slots[s].venue # None => p.venues[p.slots[s].venue] # None

\* Whatever has a meeting has one that exists, and a meeting is one some
\* organizer may have asked for.
OfMeetings ==
  /\ \A r \in Live : poll[response[r].meeting] # None
  /\ \A m \in Meetings : handoff[m] # None => poll[m] # None
  /\ \A m \in Meetings : poll[m] # None =>
       Usable(poll[m].audience) /\ VenuesListed(poll[m])

DevicesStand == \A b \in Browsers : device[b] # None => identity[device[b]] # None

\* Before it exists a meeting holds nothing either.
NothingBefore == \A m \in Meetings : poll[m] = None => NothingReserved(m)

\* A snapshot names a facility only when the meeting has a reservation.
HandoffsLinked ==
  \A m \in Meetings :
    handoff[m] # None /\ handoff[m].facility # None => link[m] # NoId

\* What is said of the meetings and their pages, besides the ledger.
MeetingInvariant ==
  /\ PollTypeOK
  /\ VisitsKnow /\ OfMeetings /\ DevicesStand
  /\ NothingBefore /\ FinalizedHoldsSlot
  /\ HandoffFrozen /\ HandoffsLinked /\ AnswersMatchSlots

PollInvariant == LedgerInvariant /\ MeetingInvariant

----------------------------------------------------------------------------
(* What the types give *)

\* A set of numbers has its least one: of the intervals up to its elements one
\* has no other inside it.
LEMMA MinOfNat ==
  ASSUME NEW S, S \subseteq Nat, S # {}
  PROVE  Min(S) \in S
<1> DEFINE Below == {0..x : x \in S}
<1>1. Below \subseteq FiniteSubsetsOf(Nat) /\ Below # {}
  <2>1. ASSUME NEW x \in S PROVE 0..x \in SUBSET Nat /\ IsFiniteSet(0..x)
    <3>1. x \in Nat /\ 0 \in Int
      OBVIOUS
    <3>2. IsFiniteSet(0..x)
      BY <3>1, FS_Interval
    <3> QED
      BY <3>2
  <2> QED
    BY <2>1 DEF FiniteSubsetsOf
<1>2. PICK B \in Below : \A C \in Below : <<C, B>> \notin StrictSubsetOrdering(Nat)
  BY <1>1, FS_StrictSubsetOrderingWellFounded, WFMin
<1>3. PICK x \in S : B = 0..x
  BY <1>2
<1>4. ASSUME NEW y \in S PROVE x =< y
  <2> SUFFICES ASSUME y < x PROVE FALSE
    OBVIOUS
  <2>1. 0..y \subseteq 0..x /\ 0..y # 0..x /\ 0..x \subseteq Nat
    <3>1. x \in 0..x /\ x \notin 0..y
      OBVIOUS
    <3> QED
      BY <3>1
  <2> QED
    BY <1>2, <1>3, <2>1 DEF StrictSubsetOrdering
<1> QED
  BY <1>4 DEF Min

\* A user's current identity is an identity, or there is none.
LEMMA CurrentType ==
  ASSUME PollTypeOK, NEW b \in Browsers, NEW u
  PROVE  /\ ActorIds(b, u) \subseteq Identities
         /\ CurrentOf(b, u) \in Identities \cup {None}
<1>1. Registered(u) \subseteq Identities /\ Registered(u) \subseteq Nat
  BY PollAssumption DEF Registered
<1>2. ActorIds(b, u) \subseteq Identities
  BY <1>1 DEF ActorIds
<1>3. device[b] \in Identities \cup {None}
  BY DEF PollTypeOK
<1> QED
  BY <1>1, <1>2, <1>3, MinOfNat DEF CurrentOf

\* A page that is open holds the values of its fields.
LEMMA VisitFields ==
  ASSUME PollTypeOK, NEW b \in Browsers, visit[b] # None
  PROVE  /\ visit[b] \in VisitState
         /\ visit[b].step \in {"seen", "begun", "audience", "guest", "commit"}
         /\ visit[b].meeting \in Meetings \cup {None}
         /\ visit[b].revision \in Nat
         /\ visit[b].slots \in Slots
         /\ visit[b].answer \in ResponseIds \cup {None}
         /\ visit[b].row \in ResponseRow \cup {None}
         /\ visit[b].ids \subseteq Identities
         /\ visit[b].current \in Identities \cup {None}
         /\ visit[b].user \in Users \cup {None}
         /\ visit[b].groups \subseteq Groups
         /\ visit[b].input \in Inputs \cup {None}
         /\ visit[b].todo \subseteq Facilities
         /\ visit[b].audience \in Audience
         /\ visit[b].guestSetting \in BOOLEAN
<1>1. visit[b] \in VisitState
  BY DEF PollTypeOK
<1> QED
  BY <1>1 DEF VisitState

\* A meeting that exists holds the values of its columns.
LEMMA PollFields ==
  ASSUME PollTypeOK, NEW m \in Meetings, poll[m] # None
  PROVE  /\ poll[m] \in PollRow
         /\ poll[m].owner \in Identities
         /\ poll[m].state \in {"open", "finalized", "cancelled"}
         /\ poll[m].selected \in SlotIds \cup {None}
         /\ poll[m].revision \in Nat
         /\ poll[m].slots \in Slots /\ poll[m].venues \in Venues
         /\ poll[m].guest \in BOOLEAN
         /\ poll[m].audience \in Audience
<1>1. poll[m] \in PollRow
  BY DEF PollTypeOK
<1> QED
  BY <1>1 DEF PollRow

\* Only a creation has no meeting yet; every other request is of one that
\* exists.
LEMMA OnMeeting ==
  ASSUME PollTypeOK, VisitsKnow, NEW b \in Browsers, visit[b] # None,
         visit[b].step # "commit" \/ visit[b].meeting # None
  PROVE  /\ visit[b].meeting \in Meetings
         /\ Now(b) # None
         /\ KnowsMeeting(visit[b])
<1>1. Knows(visit[b])
  BY DEF VisitsKnow
<1>2. visit[b].meeting # None
  BY <1>1 DEF Knows
<1> QED
  BY <1>1, <1>2, VisitFields DEF Knows, KnowsMeeting, Now

\* The facility of a candidate and its minutes.
LEMMA CandidateType ==
  ASSUME NEW p \in PollRow, NEW s \in SlotIds, p.slots[s] # None
  PROVE  /\ p.slots[s] \in Candidate
         /\ Minute(p.slots[s].start) \in Minutes
         /\ Minute(p.slots[s].end) \in Minutes
<1>1. p.slots \in Slots
  BY DEF PollRow
<1>2. p.slots[s] \in Candidate
  BY <1>1 DEF Slots
<1> QED
  BY <1>2 DEF Candidate, Minutes

\* An audience one principal may give is one that some principal may.
LEMMA SomeoneMayUse ==
  ASSUME NEW audience, NEW groups \in SUBSET Groups, NEW loggedIn \in BOOLEAN,
         MayUseAudience(audience, groups, loggedIn)
  PROVE  Usable(audience)
BY DEF MayUseAudience, Usable

----------------------------------------------------------------------------
(* The meetings use the ledger as it allows *)

\* The facility of a candidate is none, or one the source may know.
LEMMA FacilityAtType ==
  ASSUME NEW p \in PollRow, NEW s \in SlotIds, p.slots[s] # None, VenuesListed(p)
  PROVE  FacilityAt(p, s) \in Facilities \cup {None}
<1>1. CASE p.slots[s].venue = None
  BY <1>1 DEF FacilityAt
<1>2. CASE p.slots[s].venue # None
  <2>1. p.slots[s].venue \in VenueNames
    BY <1>2, CandidateType DEF Candidate
  <2>2. p.venues[p.slots[s].venue] \in Venue
    BY <1>2, <2>1 DEF VenuesListed, Given, PollRow, Venues
  <2> QED
    BY <1>2, <2>2 DEF FacilityAt, Venue
<1> QED
  BY <1>1, <1>2

\* Finalizing a candidate is a step of the meeting at the ledger.
LEMMA ReserveVenueSteps ==
  ASSUME PollTypeOK, OfMeetings, NEW b \in Browsers, visit[b] # None,
         visit[b].meeting \in Meetings, Now(b) # None,
         NEW s \in SlotIds, Now(b).slots[s] # None,
         NEW id \in ReservationIds, ReserveVenue(b, s, id)
  PROVE  \/ /\ FacilityAt(Now(b), s) = None
            /\ ReleaseMeetingFacility(visit[b].meeting)
         \/ /\ FacilityAt(Now(b), s) \in Facilities
            /\ ReserveMeetingFacility(visit[b].meeting, visit[b].user,
                 FacilityAt(Now(b), s), Minute(Now(b).slots[s].start),
                 Minute(Now(b).slots[s].end), Now(b).audience, id)
            /\ MeetingReserves(visit[b].meeting)
<1> DEFINE m == visit[b].meeting
           p == Now(b)
           f == FacilityAt(p, s)
<1>1. p \in PollRow /\ p.audience \in Audience /\ VenuesListed(p) /\ Usable(p.audience)
  BY PollFields DEF Now, OfMeetings
<1>2. f \in Facilities \cup {None}
  BY <1>1, FacilityAtType
<1>3. CASE f = None
  BY <1>3 DEF ReserveVenue
<1>4. CASE f # None
  <2>1. /\ visit[b].user # None
        /\ ReserveMeetingFacility(m, visit[b].user, f, Minute(p.slots[s].start),
             Minute(p.slots[s].end), p.audience, id)
    BY <1>4 DEF ReserveVenue
  <2>2. visit[b].user \in Users
    BY <2>1, VisitFields
  <2>3. Minute(p.slots[s].start) \in Minutes /\ Minute(p.slots[s].end) \in Minutes
    BY <1>1, CandidateType
  <2>4. MayUseAudience(p.audience, Groups, TRUE)
    BY <1>1 DEF Usable
  <2>5. MeetingReserves(m)
    BY <1>1, <1>2, <1>4, <2>1, <2>2, <2>3, <2>4 DEF MeetingReserves
  <2> QED
    BY <1>2, <1>4, <2>1, <2>5
<1> QED
  BY <1>3, <1>4

\* Whichever way a request ends that finalizes, its meeting is one.
LEMMA FinalizeSteps ==
  ASSUME PollTypeOK, VisitsKnow, OfMeetings, NEW b \in Browsers,
         OnPage(b, "begun"), NEW s \in SlotIds, NEW id \in ReservationIds,
         FinalizeSlot(b, s, id)
  PROVE  /\ visit[b].meeting \in Meetings /\ Now(b) # None
         /\ \/ /\ FacilityAt(Now(b), s) = None
               /\ ReleaseMeetingFacility(visit[b].meeting)
            \/ /\ FacilityAt(Now(b), s) \in Facilities
               /\ ReserveMeetingFacility(visit[b].meeting, visit[b].user,
                    FacilityAt(Now(b), s), Minute(Now(b).slots[s].start),
                    Minute(Now(b).slots[s].end), Now(b).audience, id)
               /\ MeetingReserves(visit[b].meeting)
<1>1. visit[b] # None /\ visit[b].step # "commit"
  BY DEF OnPage
<1>2. visit[b].meeting \in Meetings /\ Now(b) # None
  BY <1>1, OnMeeting
<1>3. Now(b).slots[s] # None /\ ReserveVenue(b, s, id)
  BY DEF FinalizeSlot
<1> QED
  BY <1>1, <1>2, <1>3, ReserveVenueSteps

\* What a step of the meetings is to the ledger.
LEMMA StepIsLedgers ==
  ASSUME PollTypeOK, VisitsKnow, OfMeetings, [PollNext]_allVars
  PROVE  [Next]_vars
<1> USE DEF vars
<1>1. CASE UNCHANGED allVars
  BY <1>1 DEF allVars
<1>2. CASE IdentityStep
  BY <1>2 DEF IdentityStep, Session, Link, Notifications
<1>3. CASE PageStep
  <2>1. ASSUME NEW b \in Browsers, NEW f \in Facilities, NEW d \in Declared,
               ValidateFacility(b, f, d)
        PROVE  Next
    BY <2>1 DEF ValidateFacility, Next, FacilityStep
  <2> QED
    BY <1>3, <2>1 DEF PageStep, View, Begin, VisitFails
<1>4. CASE OrganizerStep
  <2>1. ASSUME NEW b \in Browsers, NEW in \in Inputs,
               CreateBegin(b, in) \/ EditBegin(b, in)
        PROVE  UNCHANGED vars
    BY <2>1 DEF CreateBegin, EditBegin
  <2>2. ASSUME NEW b \in Browsers, NEW m \in Meetings, NEW u \in Users,
               NEW g \in SUBSET Groups, NEW i \in Identities, Create(b, m, u, g, i)
        PROVE  UNCHANGED vars
    BY <2>2 DEF Create
  <2>3. ASSUME NEW b \in Browsers, EditAudience(b) \/ EditGuest(b)
        PROVE  UNCHANGED vars
    BY <2>3 DEF EditAudience, EditGuest
  <2>4. ASSUME NEW b \in Browsers, Edit(b)
        PROVE  Next
    <3>1. visit[b].meeting \in Meetings
      BY <2>4, VisitFields DEF Edit, OnPage
    <3>2. ReleaseMeetingFacility(visit[b].meeting)
      BY <2>4 DEF Edit
    <3> QED
      BY <3>1, <3>2 DEF Next, MeetingStep
  <2>5. ASSUME NEW b \in Browsers, NEW s \in SlotIds, NEW id \in ReservationIds,
               OnPage(b, "begun"), FinalizeSlot(b, s, id)
        PROVE  Next
    BY <2>5, FinalizeSteps DEF Next, MeetingStep
  <2>6. ASSUME NEW b \in Browsers, NEW s \in SlotIds, NEW id \in ReservationIds,
               Finalize(b, s, id)
        PROVE  Next
    BY <2>5, <2>6 DEF Finalize
  <2>7. ASSUME NEW b \in Browsers, NEW s \in SlotIds, NEW id \in ReservationIds,
               GlabFinalize(b, s, id)
        PROVE  [Next]_vars
    BY <2>5, <2>7 DEF GlabFinalize
  <2>8. ASSUME NEW b \in Browsers, Cancel(b) \/ GlabCancel(b)
        PROVE  Next
    <3>1. OnPage(b, "begun") /\ ReleaseMeetingFacility(visit[b].meeting)
      BY <2>8 DEF Cancel, GlabCancel, CancelPoll
    <3>2. visit[b].meeting \in Meetings
      BY <3>1, OnMeeting DEF OnPage
    <3> QED
      BY <3>1, <3>2 DEF Next, MeetingStep
  <2> QED
    BY <1>4, <2>1, <2>2, <2>3, <2>4, <2>6, <2>7, <2>8 DEF OrganizerStep
<1>5. CASE ResponderStep
  BY <1>5 DEF ResponderStep, Answer, Reanswer, DeleteResponse
<1>6. CASE ReservationStep
  BY <1>6 DEF ReservationStep, Next
<1> QED
  BY <1>1, <1>2, <1>3, <1>4, <1>5, <1>6 DEF PollNext

----------------------------------------------------------------------------
(* What pages and requests know stays so while revisions advance *)

\* A step that touches a meeting or an answer gives it a new revision.
PollsAdvance ==
  \A m \in Meetings : poll[m] # None =>
    /\ poll'[m] # None /\ poll[m].revision <= poll'[m].revision
    /\ poll'[m].revision = poll[m].revision => poll'[m] = poll[m]

ResponsesAdvance ==
  \A r \in ResponseIds : response[r] # None =>
    /\ response'[r] # None
    /\ response'[r] # Gone =>
         /\ response[r] # Gone /\ response'[r].meeting = response[r].meeting
         /\ response[r].revision <= response'[r].revision
         /\ response'[r].revision = response[r].revision => response'[r] = response[r]

LEMMA NothingAdvances ==
  ASSUME PollTypeOK, UNCHANGED <<poll, response>>
  PROVE  PollsAdvance /\ ResponsesAdvance
<1>1. \A m \in Meetings : poll[m] # None => poll[m].revision \in Nat
  BY PollFields
<1>2. \A r \in ResponseIds : response[r] \notin {None, Gone} => response[r].revision \in Nat
  BY DEF PollTypeOK, ResponseRow
<1> QED
  BY <1>1, <1>2 DEF PollsAdvance, ResponsesAdvance

LEMMA MeetingKnown ==
  ASSUME PollTypeOK, PollTypeOK', PollsAdvance,
         NEW v \in VisitState, v.meeting \in Meetings, KnowsMeeting(v)
  PROVE  KnowsMeeting(v)'
<1> DEFINE m == v.meeting
<1>1. poll[m] # None /\ v.revision <= poll[m].revision
  BY DEF KnowsMeeting
<1>2. poll'[m] # None /\ poll[m].revision <= poll'[m].revision
      /\ (poll'[m].revision = poll[m].revision => poll'[m] = poll[m])
  BY <1>1 DEF PollsAdvance
<1>3. v.revision \in Nat /\ poll[m].revision \in Nat /\ poll'[m].revision \in Nat
  <2>1. poll[m] \in PollRow /\ poll'[m] \in PollRow
    BY <1>1, <1>2 DEF PollTypeOK
  <2> QED
    BY <2>1 DEF PollRow, VisitState
<1>4. v.revision <= poll'[m].revision
  BY <1>1, <1>2, <1>3
<1>5. v.revision = poll'[m].revision => v.revision = poll[m].revision /\ poll'[m] = poll[m]
  BY <1>1, <1>2, <1>3
<1> QED
  BY <1>1, <1>2, <1>4, <1>5 DEF KnowsMeeting

LEMMA AnswerKnown ==
  ASSUME PollTypeOK, PollTypeOK', ResponsesAdvance,
         NEW v \in VisitState, v.answer \in ResponseIds, KnowsAnswer(v)
  PROVE  KnowsAnswer(v)'
<1> DEFINE r == v.answer
<1>1. response[r] # None /\ v.row \in ResponseRow
  BY DEF KnowsAnswer
<1>2. response'[r] # None
  BY <1>1 DEF ResponsesAdvance
<1>3. ASSUME response'[r] # Gone
      PROVE  /\ response'[r].meeting = v.meeting
             /\ v.row.revision <= response'[r].revision
             /\ v.row.revision = response'[r].revision => response'[r] = v.row
  <2>1. /\ response[r] # Gone /\ response'[r].meeting = response[r].meeting
        /\ response[r].revision <= response'[r].revision
        /\ response'[r].revision = response[r].revision => response'[r] = response[r]
    BY <1>1, <1>3 DEF ResponsesAdvance
  <2>2. response[r] \in ResponseRow /\ response'[r] \in ResponseRow
    BY <1>1, <1>2, <1>3, <2>1 DEF PollTypeOK
  <2>3. /\ v.row.revision \in Nat /\ response[r].revision \in Nat
        /\ response'[r].revision \in Nat
    BY <1>1, <2>2 DEF ResponseRow
  <2>4. /\ response[r].meeting = v.meeting
        /\ v.row.revision <= response[r].revision
        /\ v.row.revision = response[r].revision => response[r] = v.row
    BY <2>1 DEF KnowsAnswer
  <2>5. v.row.revision <= response'[r].revision
    BY <2>1, <2>3, <2>4
  <2>6. v.row.revision = response'[r].revision =>
          v.row.revision = response[r].revision /\ response'[r].revision = response[r].revision
    BY <2>1, <2>3, <2>4
  <2> QED
    BY <2>1, <2>4, <2>5, <2>6
<1> QED
  BY <1>1, <1>2, <1>3 DEF KnowsAnswer

LEMMA Known ==
  ASSUME PollTypeOK, PollTypeOK', PollsAdvance, ResponsesAdvance,
         NEW v \in VisitState, Knows(v)
  PROVE  Knows(v)'
<1>1. v.meeting \in Meetings \cup {None} /\ v.answer \in ResponseIds \cup {None}
  BY DEF VisitState
<1>2. v.meeting # None => KnowsMeeting(v)'
  BY <1>1, MeetingKnown DEF Knows
<1>3. v.answer # None => KnowsAnswer(v)'
  BY <1>1, AnswerKnown DEF Knows
<1> QED
  BY <1>2, <1>3 DEF Knows

\* A step that advances what it touches and changes one page keeps the
\* knowledge of all others.
LEMMA OnePageChanges ==
  ASSUME PollTypeOK, PollTypeOK', VisitsKnow, PollsAdvance, ResponsesAdvance,
         NEW b \in Browsers, NEW new, visit' = [visit EXCEPT ![b] = new],
         new # None => Knows(new)'
  PROVE  VisitsKnow'
<1> SUFFICES ASSUME NEW c \in Browsers, visit'[c] # None
             PROVE  Knows(visit[c])'
  BY DEF VisitsKnow
<1>1. PICK v : v = visit'[c]
  OBVIOUS
<1>2. Knows(v)'
  <2>1. CASE c = b
    BY <1>1, <2>1 DEF PollTypeOK
  <2>2. CASE c # b
    <3>1. v = visit[c] /\ v # None
      BY <1>1, <2>2 DEF PollTypeOK
    <3>2. v \in VisitState
      BY <3>1, VisitFields
    <3>3. Knows(v)
      BY <3>1 DEF VisitsKnow
    <3> QED
      BY <3>2, <3>3, Known
  <2> QED
    BY <2>1, <2>2
<1> QED
  BY <1>1, <1>2

----------------------------------------------------------------------------
(* Steps of one page *)

\* A step that changes one page, and no more of the meetings, need only say
\* that the page knows what it should.
LEMMA PageChanges ==
  ASSUME MeetingInvariant, NEW b \in Browsers, NEW new \in VisitState \cup {None},
         visit' = [visit EXCEPT ![b] = new], new # None => Knows(new),
         UNCHANGED <<reservation, link, identity, device, poll, response, handoff>>,
         enqueued' = {}
  PROVE  MeetingInvariant'
<1>1. PollTypeOK /\ PollTypeOK'
  BY DEF MeetingInvariant, PollTypeOK
<1>2. PollsAdvance /\ ResponsesAdvance
  BY <1>1, NothingAdvances
<1>3. new # None => Knows(new)'
  BY DEF Knows, KnowsMeeting, KnowsAnswer
<1>4. VisitsKnow'
  BY <1>1, <1>2, <1>3, OnePageChanges DEF MeetingInvariant
<1>5. OfMeetings' /\ DevicesStand'
  BY DEF MeetingInvariant, OfMeetings, DevicesStand, Live
<1>6. NothingBefore' /\ FinalizedHoldsSlot' /\ HandoffFrozen'
  BY DEF MeetingInvariant, NothingBefore, FinalizedHoldsSlot, HandoffFrozen,
         NothingReserved, HoldsSlot
<1>7. HandoffsLinked'
  BY DEF MeetingInvariant, HandoffsLinked
<1>8. AnswersMatchSlots'
  BY DEF MeetingInvariant, AnswersMatchSlots, Live
<1> QED
  BY <1>1, <1>4, <1>5, <1>6, <1>7, <1>8 DEF MeetingInvariant

\* A new page holds what it is given and nothing else.
LEMMA PageType ==
  ASSUME NEW m \in Meetings \cup {None}, NEW revision \in Nat, NEW slots \in Slots,
         NEW r \in ResponseIds \cup {None}, NEW row \in ResponseRow \cup {None}
  PROVE  Page(m, revision, slots, r, row) \in VisitState
BY PublicAudienceType DEF Page, VisitState

LEMMA PublicUsable == Usable(PublicAudience)
BY DEF Usable, MayUseAudience, PublicAudience

LEMMA ViewKnows ==
  ASSUME MeetingInvariant, NEW b \in Browsers, NEW m \in Meetings, NEW u \in Logins,
         NEW g \in SUBSET Groups, NEW r \in ResponseIds \cup {None}, View(b, m, u, g, r)
  PROVE  MeetingInvariant'
<1> DEFINE row == IF r = None THEN None ELSE response[r]
           new == Page(m, poll[m].revision, poll[m].slots, r, row)
<1>1. PollTypeOK /\ poll[m] # None /\ m # None
  BY PollAssumption DEF MeetingInvariant, View
<1>2. poll[m].revision \in Nat /\ poll[m].slots \in Slots
  BY <1>1, PollFields
<1>3. r # None => /\ r \in ResponseIds /\ response[r] \notin {None, Gone}
                  /\ response[r].meeting = m
  BY DEF View, ResponsesOf, Live
<1>4. r # None => response[r] \in ResponseRow
  BY <1>1, <1>3 DEF PollTypeOK
<1>5. new \in VisitState
  BY <1>2, <1>4, PageType
<1>6. /\ new.step = "seen" /\ new.meeting = m /\ new.revision = poll[m].revision
      /\ new.slots = poll[m].slots /\ new.answer = r /\ new.row = row
      /\ new.audience = PublicAudience
  BY DEF Page
<1>7. KnowsMeeting(new)
  BY <1>1, <1>2, <1>6 DEF KnowsMeeting
<1>8. r # None => KnowsAnswer(new)
  <2> SUFFICES ASSUME r # None
               PROVE  KnowsAnswer(new)
    OBVIOUS
  <2>1. response[r].revision \in Nat
    BY <1>4 DEF ResponseRow
  <2> QED
    BY <1>3, <1>4, <1>6, <2>1 DEF KnowsAnswer
<1>9. Knows(new)
  BY <1>1, <1>6, <1>7, <1>8, PublicUsable DEF Knows
<1> HIDE DEF new
<1>10. visit' = [visit EXCEPT ![b] = new]
  BY DEF View, new
<1> QED
  BY <1>5, <1>9, <1>10, PageChanges DEF View, vars

LEMMA BeginKnows ==
  ASSUME MeetingInvariant, NEW b \in Browsers, NEW u \in Logins,
         NEW g \in SUBSET Groups, Begin(b, u, g)
  PROVE  MeetingInvariant'
<1> DEFINE v == visit[b]
           new == [v EXCEPT !.step = "begun", !.user = u, !.groups = g,
                            !.ids = ActorIds(b, u), !.current = CurrentOf(b, u),
                            !.fits = AnswersFit(b)]
<1>1. PollTypeOK /\ VisitsKnow /\ v # None /\ v.step = "seen"
  BY DEF MeetingInvariant, Begin, OnPage
<1>2. v \in VisitState /\ Knows(v)
  BY <1>1, VisitFields DEF VisitsKnow
<1>3. /\ ActorIds(b, u) \subseteq Identities /\ CurrentOf(b, u) \in Identities \cup {None}
      /\ u \in Users \cup {None} /\ AnswersFit(b) \in BOOLEAN
  BY <1>1, CurrentType DEF Logins, AnswersFit
<1>4. /\ new \in VisitState /\ new.step = "begun" /\ new.user = u /\ new.groups = g
      /\ new.ids = ActorIds(b, u) /\ new.meeting = v.meeting /\ new.revision = v.revision
      /\ new.slots = v.slots /\ new.answer = v.answer /\ new.row = v.row
      /\ new.audience = v.audience
  BY <1>2, <1>3 DEF VisitState
<1>5. v.meeting # None /\ KnowsMeeting(v)
  BY <1>1, <1>2 DEF Knows
<1>6. KnowsMeeting(new)
  <2>1. CanReadBooking(poll[v.meeting].audience, g, u # None,
                       poll[v.meeting].owner \in ActorIds(b, u))
    BY DEF Begin, Readable
  <2> QED
    BY <1>4, <1>5, <2>1 DEF KnowsMeeting
<1>7. new.answer # None => KnowsAnswer(new)
  BY <1>2, <1>4 DEF Knows, KnowsAnswer
<1>8. Knows(new)
  BY <1>2, <1>4, <1>5, <1>6, <1>7 DEF Knows
<1> HIDE DEF new
<1>9. visit' = [visit EXCEPT ![b] = new]
  BY DEF Begin, new
<1> QED
  BY <1>4, <1>8, <1>9, PageChanges DEF Begin, vars

LEMMA CreateBeginKnows ==
  ASSUME MeetingInvariant, NEW b \in Browsers, NEW in \in Inputs, CreateBegin(b, in)
  PROVE  MeetingInvariant'
<1> DEFINE old == Page(None, 0, in.slots, None, None)
           new == [old EXCEPT !.step = "commit", !.input = in, !.todo = FacilitiesOf(in)]
<1>1. in.slots \in Slots /\ FacilitiesOf(in) \subseteq Facilities
  <2>1. in.slots \in Slots /\ in.venues \in Venues
    BY PollAssumption DEF IsMeetingInput
  <2>2. \A w \in VenueNames : in.venues[w] # None =>
          in.venues[w].facility \in Facilities \cup {None}
    BY <2>1 DEF Venues, Venue
  <2> QED
    BY <2>1, <2>2 DEF FacilitiesOf
<1>2. old \in VisitState
  BY <1>1, PageType
<1>3. old.meeting = None /\ old.answer = None /\ old.audience = PublicAudience
  BY DEF Page
<1>4. /\ new \in VisitState /\ new.step = "commit" /\ new.meeting = None
      /\ new.answer = None /\ new.input = in /\ new.audience = PublicAudience
  BY <1>1, <1>2, <1>3 DEF VisitState
<1>5. Knows(new)
  BY <1>4, PublicUsable DEF Knows
<1> HIDE DEF new
<1>6. visit' = [visit EXCEPT ![b] = new]
  BY DEF CreateBegin, new
<1> QED
  BY <1>4, <1>5, <1>6, PageChanges DEF CreateBegin, vars

LEMMA EditBeginKnows ==
  ASSUME MeetingInvariant, NEW b \in Browsers, NEW in \in Inputs, EditBegin(b, in)
  PROVE  MeetingInvariant'
<1> DEFINE v == visit[b]
           new == [v EXCEPT !.step = "audience", !.input = in, !.todo = FacilitiesOf(in)]
<1>1. FacilitiesOf(in) \subseteq Facilities
  <2>1. in.venues \in Venues
    BY PollAssumption DEF IsMeetingInput
  <2>2. \A w \in VenueNames : in.venues[w] # None =>
          in.venues[w].facility \in Facilities \cup {None}
    BY <2>1 DEF Venues, Venue
  <2> QED
    BY <2>2 DEF FacilitiesOf
<1>2. v # None /\ v.step = "begun" /\ v \in VisitState /\ Knows(v)
  BY VisitFields DEF MeetingInvariant, EditBegin, OnPage, VisitsKnow
<1>3. /\ new \in VisitState /\ new.step = "audience" /\ new.input = in
      /\ new.meeting = v.meeting /\ new.revision = v.revision
      /\ new.slots = v.slots /\ new.answer = v.answer /\ new.row = v.row
      /\ new.audience = v.audience
  BY <1>1, <1>2 DEF VisitState
<1>4. v.meeting # None /\ KnowsMeeting(v)
  BY <1>2 DEF Knows
<1>5. KnowsMeeting(new)
  BY <1>3, <1>4 DEF KnowsMeeting
<1>6. new.answer # None => KnowsAnswer(new)
  BY <1>2, <1>3 DEF Knows, KnowsAnswer
<1>7. Knows(new)
  BY <1>2, <1>3, <1>4, <1>5, <1>6 DEF Knows
<1> HIDE DEF new
<1>8. visit' = [visit EXCEPT ![b] = new]
  BY DEF EditBegin, new
<1> QED
  BY <1>3, <1>7, <1>8, PageChanges DEF EditBegin, vars

LEMMA EditAudienceKnows ==
  ASSUME MeetingInvariant, NEW b \in Browsers, EditAudience(b)
  PROVE  MeetingInvariant'
<1> DEFINE v == visit[b]
           audience == RequestedAudience(v.input.audience, Now(b).audience)
           new == [v EXCEPT !.step = "guest", !.audience = audience]
<1>1. v # None /\ v.step = "audience" /\ v \in VisitState /\ Knows(v)
  BY VisitFields DEF MeetingInvariant, EditAudience, OnPage, VisitsKnow
<1>2. v.meeting \in Meetings /\ Now(b) # None /\ KnowsMeeting(v)
  BY <1>1, OnMeeting DEF MeetingInvariant
<1>3. v.input \in Inputs
  BY <1>1 DEF Knows
<1>4. v.input.audience \in AudienceBody
  BY <1>3, PollAssumption DEF IsMeetingInput
<1>5. audience \in Audience
  BY <1>2, <1>4, PollFields, RequestedAudienceType DEF MeetingInvariant, Now
<1>6. Usable(audience)
  <2>1. v.groups \in SUBSET Groups
    BY <1>1 DEF VisitState
  <2>2. MayUseAudience(audience, v.groups, v.user # None)
    BY DEF EditAudience
  <2> QED
    BY <2>1, <2>2, SomeoneMayUse
<1>7. audience = RequestedAudience(v.input.audience, poll[v.meeting].audience)
  BY DEF Now
<1> HIDE DEF audience
<1>8. /\ new \in VisitState /\ new.step = "guest" /\ new.input = v.input
      /\ new.meeting = v.meeting /\ new.revision = v.revision
      /\ new.slots = v.slots /\ new.answer = v.answer /\ new.row = v.row
      /\ new.audience = audience
  BY <1>1, <1>5 DEF VisitState
<1>9. KnowsMeeting(new)
  BY <1>2, <1>7, <1>8 DEF KnowsMeeting
<1>10. new.answer # None => KnowsAnswer(new)
  BY <1>1, <1>8 DEF Knows, KnowsAnswer
<1>11. Knows(new)
  BY <1>2, <1>3, <1>6, <1>8, <1>9, <1>10, PollAssumption DEF Knows
<1>12. visit' = [visit EXCEPT ![b] = new]
  BY DEF EditAudience, audience
<1> HIDE DEF new
<1> QED
  BY <1>8, <1>11, <1>12, PageChanges DEF EditAudience, vars

LEMMA EditGuestKnows ==
  ASSUME MeetingInvariant, NEW b \in Browsers, EditGuest(b)
  PROVE  MeetingInvariant'
<1> DEFINE v == visit[b]
           guest == ResolveGuest(v.input.guest, v.audience, Now(b).guest)
           new == [v EXCEPT !.step = "commit", !.guestSetting = guest]
<1>1. v # None /\ v.step = "guest" /\ v \in VisitState /\ Knows(v)
  BY VisitFields DEF MeetingInvariant, EditGuest, OnPage, VisitsKnow
<1>2. v.meeting \in Meetings /\ Now(b) # None /\ KnowsMeeting(v)
  BY <1>1, OnMeeting DEF MeetingInvariant
<1>3. v.input \in Inputs
  BY <1>1 DEF Knows
<1>4. guest \in BOOLEAN
  BY DEF ResolveGuest
<1>5. guest = ResolveGuest(v.input.guest, v.audience, poll[v.meeting].guest)
  BY DEF Now
<1> HIDE DEF guest
<1>6. /\ new \in VisitState /\ new.step = "commit" /\ new.input = v.input
      /\ new.meeting = v.meeting /\ new.revision = v.revision
      /\ new.slots = v.slots /\ new.answer = v.answer /\ new.row = v.row
      /\ new.audience = v.audience /\ new.guestSetting = guest
  BY <1>1, <1>4 DEF VisitState
<1>7. KnowsMeeting(new)
  BY <1>1, <1>2, <1>5, <1>6 DEF KnowsMeeting
<1>8. new.answer # None => KnowsAnswer(new)
  BY <1>1, <1>6 DEF Knows, KnowsAnswer
<1>9. Knows(new)
  BY <1>1, <1>2, <1>3, <1>6, <1>7, <1>8, PollAssumption DEF Knows
<1>10. visit' = [visit EXCEPT ![b] = new]
  BY DEF EditGuest, guest
<1> HIDE DEF new
<1> QED
  BY <1>6, <1>9, <1>10, PageChanges DEF EditGuest, vars

LEMMA ValidateFacilityKnows ==
  ASSUME MeetingInvariant, NEW b \in Browsers, NEW f \in Facilities,
         NEW d \in Declared, ValidateFacility(b, f, d)
  PROVE  MeetingInvariant'
<1> DEFINE v == visit[b]
           new == [v EXCEPT !.todo = @ \ {f}]
<1>1. v # None /\ v \in VisitState /\ Knows(v)
  BY VisitFields DEF MeetingInvariant, ValidateFacility, OnPage, VisitsKnow
<1>2. /\ new \in VisitState /\ new.step = v.step /\ new.input = v.input
      /\ new.meeting = v.meeting /\ new.revision = v.revision
      /\ new.slots = v.slots /\ new.answer = v.answer /\ new.row = v.row
      /\ new.audience = v.audience /\ new.guestSetting = v.guestSetting
      /\ new.groups = v.groups /\ new.user = v.user /\ new.ids = v.ids
  BY <1>1 DEF VisitState
<1>3. new.meeting # None => KnowsMeeting(new)
  BY <1>1, <1>2 DEF Knows, KnowsMeeting
<1>4. new.answer # None => KnowsAnswer(new)
  BY <1>1, <1>2 DEF Knows, KnowsAnswer
<1>5. Knows(new)
  BY <1>1, <1>2, <1>3, <1>4 DEF Knows
<1>6. visit' = [visit EXCEPT ![b] = new]
  BY DEF ValidateFacility
<1> HIDE DEF new
<1> QED
  BY <1>2, <1>5, <1>6, PageChanges DEF ValidateFacility, SyncFacility

LEMMA VisitFailsKnows ==
  ASSUME MeetingInvariant, NEW b \in Browsers, VisitFails(b)
  PROVE  MeetingInvariant'
BY PageChanges DEF VisitFails, EndVisit, vars

----------------------------------------------------------------------------
(* Steps of the identities *)

\* The meetings do not depend on who the actors are.
LEMMA ActorsChange ==
  ASSUME MeetingInvariant,
         UNCHANGED <<reservation, link, poll, response, handoff, visit>>,
         identity' \in [Identities -> IdentityRow \cup {None}],
         device' \in [Browsers -> Identities \cup {None}],
         DevicesStand', enqueued' \subseteq Identities
  PROVE  MeetingInvariant'
<1>1. PollTypeOK'
  BY DEF MeetingInvariant, PollTypeOK
<1>2. VisitsKnow'
  BY DEF MeetingInvariant, VisitsKnow, Knows, KnowsMeeting, KnowsAnswer
<1>3. OfMeetings'
  BY DEF MeetingInvariant, OfMeetings, Live
<1>4. NothingBefore' /\ FinalizedHoldsSlot' /\ HandoffFrozen'
  BY DEF MeetingInvariant, NothingBefore, FinalizedHoldsSlot, HandoffFrozen,
         NothingReserved, HoldsSlot
<1>5. HandoffsLinked'
  BY DEF MeetingInvariant, HandoffsLinked
<1>6. AnswersMatchSlots'
  BY DEF MeetingInvariant, AnswersMatchSlots, Live
<1> QED
  BY <1>1, <1>2, <1>3, <1>4, <1>5, <1>6 DEF MeetingInvariant

\* A new identity takes an unused number and no device loses its own.
LEMMA IdentityAdded ==
  ASSUME PollTypeOK, DevicesStand, NEW u \in Logins, NEW i \in Identities,
         identity' = [identity EXCEPT ![i] = [user |-> u, notify |-> FALSE]]
  PROVE  /\ identity' \in [Identities -> IdentityRow \cup {None}]
         /\ \A j \in Identities : identity[j] # None \/ j = i => identity'[j] # None
<1> DEFINE row == [user |-> u, notify |-> FALSE]
<1>1. row \in IdentityRow
  BY DEF IdentityRow, Logins
<1> HIDE DEF row
<1>2. row # None
  BY <1>1, NoneAssumption
<1>3. identity' = [identity EXCEPT ![i] = row]
  BY DEF row
<1> QED
  BY <1>1, <1>2, <1>3 DEF PollTypeOK

LEMMA IdentityStepKeeps ==
  ASSUME MeetingInvariant, IdentityStep
  PROVE  MeetingInvariant'
<1> USE DEF vars
<1>0. PollTypeOK /\ DevicesStand
  BY DEF MeetingInvariant
<1>1. ASSUME NEW b \in Browsers, NEW u \in Logins, NEW i \in Identities, Session(b, u, i)
      PROVE  MeetingInvariant'
  <2>1. /\ identity' \in [Identities -> IdentityRow \cup {None}]
        /\ \A j \in Identities : identity[j] # None \/ j = i => identity'[j] # None
    BY <1>0, <1>1, IdentityAdded DEF Session
  <2>2. device' \in [Browsers -> Identities \cup {None}] /\ DevicesStand'
    BY <1>0, <1>1, <2>1 DEF Session, PollTypeOK, DevicesStand
  <2> QED
    BY <1>1, <2>1, <2>2, ActorsChange DEF Session
<1>2. ASSUME NEW b \in Browsers, NEW u \in Users, Link(b, u)
      PROVE  MeetingInvariant'
  <2>1. device[b] \in Identities /\ identity[device[b]] \in IdentityRow
    BY <1>0, <1>2 DEF Link, PollTypeOK, DevicesStand
  <2>2. [identity[device[b]] EXCEPT !.user = u] \in IdentityRow
    BY <2>1 DEF IdentityRow
  <2>3. /\ identity' \in [Identities -> IdentityRow \cup {None}]
        /\ \A j \in Identities : identity[j] # None => identity'[j] # None
    BY <1>0, <1>2, <2>1, <2>2, NoneAssumption DEF Link, PollTypeOK
  <2>4. device' \in [Browsers -> Identities \cup {None}] /\ DevicesStand'
    BY <1>0, <1>2, <2>3 DEF Link, PollTypeOK, DevicesStand
  <2> QED
    BY <1>2, <2>3, <2>4, ActorsChange DEF Link
<1>3. ASSUME NEW u \in Users, NEW on \in BOOLEAN, Notifications(u, on)
      PROVE  MeetingInvariant'
  <2>1. ASSUME NEW i \in Registered(u)
        PROVE  [identity[i] EXCEPT !.notify = on] \in IdentityRow
    <3>1. identity[i] \in IdentityRow
      BY <1>0, <2>1 DEF Registered, PollTypeOK
    <3> QED
      BY <3>1 DEF IdentityRow
  <2>2. /\ identity' \in [Identities -> IdentityRow \cup {None}]
        /\ \A j \in Identities : identity[j] # None => identity'[j] # None
    BY <1>0, <1>3, <2>1, NoneAssumption DEF Notifications, PollTypeOK
  <2>3. DevicesStand'
    BY <1>0, <1>3, <2>2 DEF Notifications, PollTypeOK, DevicesStand
  <2> QED
    BY <1>0, <1>3, <2>2, <2>3, ActorsChange DEF Notifications, PollTypeOK
<1> QED
  BY <1>1, <1>2, <1>3 DEF IdentityStep

----------------------------------------------------------------------------
(* What a meeting holds *)

\* The parts of FinalizedHoldsSlot and HandoffFrozen about one meeting.
Settled(m) ==
  IF poll[m].state = "finalized"
  THEN /\ poll[m].selected \in Given(poll[m].slots)
       /\ ~VenueBusy(poll[m], poll[m].selected)
       /\ HoldsSlot(m, poll[m].selected)
  ELSE poll[m].selected = None /\ NothingReserved(m)

Frozen(m) ==
  \/ /\ poll[m].state = "finalized"
     /\ poll[m].selected = handoff[m].slot
     /\ poll[m].slots[handoff[m].slot] = handoff[m].content
     /\ handoff[m].facility # None =>
          /\ link[m] = handoff[m].reservation
          /\ Active(reservation, handoff[m].reservation)
          /\ reservation[link[m]].facility = handoff[m].facility
  \/ poll[m].state = "cancelled" /\ NothingReserved(m)

LEMMA SettledMeetings ==
  /\ FinalizedHoldsSlot <=> \A m \in Meetings : poll[m] # None => Settled(m)
  /\ HandoffFrozen <=> \A m \in Meetings : handoff[m] # None => Frozen(m)
BY DEF FinalizedHoldsSlot, HandoffFrozen, Settled, Frozen

\* A step leaves alone what the meeting holds.
StaysFor(m) ==
  /\ link'[m] = link[m]
  /\ \A r \in ReservationIds :
       \/ Active(reservation, r) /\ reservation[r].meeting = m
       \/ Active(reservation', r) /\ reservation'[r].meeting = m
       => reservation'[r] = reservation[r]

LEMMA NothingStays ==
  ASSUME NEW m \in Meetings, StaysFor(m), NothingReserved(m)
  PROVE  NothingReserved(m)'
BY DEF StaysFor, NothingReserved, Active

LEMMA LinkedStays ==
  ASSUME LedgerInvariant, NEW m \in Meetings, StaysFor(m),
         link[m] # NoId, Active(reservation, link[m])
  PROVE  /\ link[m] \in ReservationIds
         /\ reservation'[link[m]] = reservation[link[m]]
         /\ Active(reservation', link[m])
<1>1. link[m] \in ReservationIds /\ reservation[link[m]].meeting = m
  BY DEF LedgerInvariant, TypeOK, MeetingHoldsOneReservation
<1>2. reservation'[link[m]] = reservation[link[m]]
  BY <1>1 DEF StaysFor
<1> QED
  BY <1>1, <1>2 DEF Active

LEMMA HeldSlotStays ==
  ASSUME LedgerInvariant, NEW m \in Meetings, StaysFor(m),
         poll'[m] = poll[m], NEW s, HoldsSlot(m, s)
  PROVE  HoldsSlot(m, s)'
<1>1. CASE FacilityAt(poll[m], s) = None
  <2>1. NothingReserved(m)
    BY <1>1 DEF HoldsSlot
  <2> QED
    BY <1>1, <2>1, NothingStays DEF HoldsSlot
<1>2. CASE FacilityAt(poll[m], s) # None
  <2>1. link[m] # NoId /\ Active(reservation, link[m])
    BY <1>2 DEF HoldsSlot
  <2>2. /\ reservation'[link[m]] = reservation[link[m]]
        /\ Active(reservation', link[m]) /\ link'[m] = link[m]
    BY <2>1, LinkedStays DEF StaysFor
  <2> QED
    BY <1>2, <2>1, <2>2 DEF HoldsSlot
<1> QED
  BY <1>1, <1>2

LEMMA SettledStays ==
  ASSUME LedgerInvariant, NEW m \in Meetings, StaysFor(m),
         poll'[m] = poll[m], Settled(m)
  PROVE  Settled(m)'
<1>1. PICK s : s = poll[m].selected
  OBVIOUS
<1>2. CASE poll[m].state = "finalized"
  <2>1. HoldsSlot(m, s)
    BY <1>1, <1>2 DEF Settled
  <2>2. HoldsSlot(m, s)'
    BY <2>1, HeldSlotStays
  <2> QED
    BY <1>1, <1>2, <2>2 DEF Settled
<1>3. CASE poll[m].state # "finalized"
  BY <1>3, NothingStays DEF Settled
<1> QED
  BY <1>2, <1>3

LEMMA FrozenStays ==
  ASSUME LedgerInvariant, HandoffsLinked, NEW m \in Meetings, StaysFor(m),
         poll'[m] = poll[m], handoff'[m] = handoff[m], handoff[m] # None, Frozen(m)
  PROVE  Frozen(m)'
<1>1. CASE poll[m].state = "cancelled"
  BY <1>1, NothingStays DEF Frozen
<1>2. CASE poll[m].state # "cancelled"
  <2>1. /\ poll[m].state = "finalized"
        /\ poll[m].selected = handoff[m].slot
        /\ poll[m].slots[handoff[m].slot] = handoff[m].content
        /\ handoff[m].facility # None =>
             /\ link[m] = handoff[m].reservation
             /\ Active(reservation, handoff[m].reservation)
             /\ reservation[link[m]].facility = handoff[m].facility
    BY <1>2 DEF Frozen
  <2>2. handoff[m].facility # None =>
             /\ link'[m] = handoff[m].reservation
             /\ Active(reservation', handoff[m].reservation)
             /\ reservation'[link'[m]].facility = handoff[m].facility
    <3> SUFFICES ASSUME handoff[m].facility # None
                 PROVE  /\ link'[m] = handoff[m].reservation
                        /\ Active(reservation', handoff[m].reservation)
                        /\ reservation'[link'[m]].facility = handoff[m].facility
      OBVIOUS
    <3>1. link[m] # NoId /\ Active(reservation, link[m]) /\ link'[m] = link[m]
      BY <2>1 DEF HandoffsLinked, StaysFor
    <3> QED
      BY <2>1, <3>1, LinkedStays
  <2> QED
    BY <2>1, <2>2 DEF Frozen
<1> QED
  BY <1>1, <1>2

\* When one meeting at most does not stay, it is enough to look at that one.
LEMMA MeetingsSettled ==
  ASSUME PollInvariant, NEW changed \in SUBSET Meetings,
         \A m \in Meetings \ changed :
           StaysFor(m) /\ poll'[m] = poll[m] /\ handoff'[m] = handoff[m],
         \A m \in changed : /\ poll'[m] # None /\ Settled(m)'
                            /\ handoff'[m] # None => Frozen(m)' /\
                                 (handoff'[m].facility # None => link'[m] # NoId)
  PROVE  NothingBefore' /\ FinalizedHoldsSlot' /\ HandoffFrozen' /\ HandoffsLinked'
<1>0. LedgerInvariant /\ HandoffsLinked
  BY DEF PollInvariant, MeetingInvariant
<1>1. NothingBefore'
  BY NothingStays DEF PollInvariant, MeetingInvariant, NothingBefore
<1>2. FinalizedHoldsSlot'
  <2>1. ASSUME NEW m \in Meetings, poll'[m] # None
        PROVE  Settled(m)'
    BY <1>0, <2>1, SettledMeetings, SettledStays DEF PollInvariant, MeetingInvariant
  <2>2. FinalizedHoldsSlot' <=> \A m \in Meetings : poll'[m] # None => Settled(m)'
    BY DEF FinalizedHoldsSlot, Settled
  <2> QED
    BY <2>1, <2>2
<1>3. HandoffFrozen'
  <2>1. ASSUME NEW m \in Meetings, handoff'[m] # None
        PROVE  Frozen(m)'
    BY <1>0, <2>1, SettledMeetings, FrozenStays DEF PollInvariant, MeetingInvariant
  <2>2. HandoffFrozen' <=> \A m \in Meetings : handoff'[m] # None => Frozen(m)'
    BY DEF HandoffFrozen, Frozen
  <2> QED
    BY <2>1, <2>2
<1>4. HandoffsLinked'
  BY <1>0 DEF HandoffsLinked, StaysFor
<1> QED
  BY <1>1, <1>2, <1>3, <1>4

----------------------------------------------------------------------------
(* What the ledger's steps do to a meeting's reservation *)

\* Releasing or reserving for one meeting leaves the others alone.
LEMMA OthersStay ==
  ASSUME LedgerInvariant, NEW m \in Meetings, NEW o \in Meetings, o # m,
         \/ ReleaseMeetingFacility(m)
         \/ \E user, f, start, end, audience : \E id \in ReservationIds :
              ReserveMeetingFacility(m, user, f, start, end, audience, id)
  PROVE  StaysFor(o)
<1>1. ASSUME NEW r \in ReservationIds
      PROVE  \/ Released(m)[r] = reservation[r]
             \/ /\ reservation[r].meeting = m
                /\ ~Active(Released(m), r)
  BY ReleasedIsManaged, ReleasedRow DEF LedgerInvariant
<1>2. CASE ReleaseMeetingFacility(m)
  BY <1>1, <1>2 DEF ReleaseMeetingFacility, StaysFor
<1>3. ASSUME NEW user, NEW f, NEW start, NEW end, NEW audience,
             NEW id \in ReservationIds,
             ReserveMeetingFacility(m, user, f, start, end, audience, id)
      PROVE  StaysFor(o)
  <2>1. /\ reservation[id] = NoRow
        /\ reservation'[id].meeting = m
        /\ link'[o] = link[o]
        /\ \A r \in ReservationIds : r # id => reservation'[r] = Released(m)[r]
    BY <1>3, ReservedRow DEF LedgerInvariant
  <2>2. ASSUME NEW r \in ReservationIds, r # id, ~(reservation'[r] = reservation[r])
        PROVE  reservation[r].meeting = m /\ ~Active(reservation', r)
    BY <1>1, <2>1, <2>2 DEF Active
  <2> QED
    BY <2>1, <2>2 DEF StaysFor, Active
<1> QED
  BY <1>2, <1>3

LEMMA ReleasedHoldsNothing ==
  ASSUME LedgerInvariant, NEW m \in Meetings, ReleaseMeetingFacility(m)
  PROVE  NothingReserved(m)' /\ link' = link
<1> SUFFICES ASSUME NEW r \in ReservationIds, Active(reservation', r)
             PROVE  reservation'[r].meeting # m
  BY DEF NothingReserved, ReleaseMeetingFacility
<1>1. reservation' = Released(m) /\ TypeOK
  BY DEF ReleaseMeetingFacility, LedgerInvariant
<1>2. r # link[m] /\ reservation'[r] = reservation[r]
  BY <1>1, ReleasedRow
<1>3. Active(reservation, r)
  BY <1>2 DEF Active
<1>4. CASE reservation[r].meeting = NoMeeting
  BY <1>2, <1>4, LedgerAssumption
<1>5. CASE reservation[r].meeting # NoMeeting
  BY <1>2, <1>3, <1>5 DEF LedgerInvariant, MeetingHoldsOneReservation
<1> QED
  BY <1>4, <1>5

LEMMA ReservedHolds ==
  ASSUME LedgerInvariant, NEW m \in Meetings, NEW user \in Users,
         NEW f \in Facilities, NEW start \in Minutes, NEW end \in Minutes,
         NEW audience \in Audience, NEW id \in ReservationIds,
         ReserveMeetingFacility(m, user, f, start, end, audience, id)
  PROVE  /\ link'[m] = id /\ link'[m] # NoId
         /\ Active(reservation', id)
         /\ reservation'[id].facility = f
         /\ reservation'[id].start = start /\ reservation'[id].end = end
         /\ reservation'[id].audience = audience
<1> DEFINE row == [facility |-> f, owner |-> user, start |-> start, end |-> end,
                   audience |-> audience, state |-> "confirmed", meeting |-> m]
<1>1. Released(m) \in [ReservationIds -> ReservationRow \cup {NoRow}]
  BY ReleasedType DEF LedgerInvariant
<1>2. reservation' = [Released(m) EXCEPT ![id] = row] /\ reservation'[id] = row
  BY <1>1 DEF ReserveMeetingFacility
<1>3. link' = [link EXCEPT ![m] = id] /\ link \in [Meetings -> ReservationIds \cup {NoId}]
  BY DEF ReserveMeetingFacility, LedgerInvariant, TypeOK
<1>4. row \in ReservationRow
  BY DEF ReservationRow
<1>5. row # NoRow
  BY <1>4, NoRowAssumption
<1> QED
  BY <1>2, <1>3, <1>5, LedgerAssumption DEF Active

\* The routes of the ledger leave every meeting's reservation alone.
LEMMA RoutesStay ==
  ASSUME LedgerInvariant, FacilityStep \/ BeginStep \/ AwaitStep \/ CommitStep,
         NEW m \in Meetings
  PROVE  StaysFor(m)
<1>0. m # NoMeeting /\ TypeOK
  BY LedgerAssumption DEF LedgerInvariant
<1>1. ASSUME UNCHANGED <<reservation, link>>
      PROVE  StaysFor(m)
  BY <1>1 DEF StaysFor
<1>2. CASE FacilityStep
  BY <1>1, <1>2 DEF FacilityStep, SyncFacility, ToggleBegin, ToggleSet, ToggleView
<1>3. CASE BeginStep
  BY <1>1, <1>3 DEF BeginStep, PostBegin, PatchBegin, ledgerVars
<1>4. CASE AwaitStep
  BY <1>1, <1>4 DEF AwaitStep, PatchRead, PatchParse, ResolveKnown, ResolveUnknown,
     ReadPolicy, Preflight, RequestFails, ledgerVars
<1>5. ASSUME NEW q \in Requests, NEW id \in ReservationIds, PostCommit(q, id)
      PROVE  StaysFor(m)
  BY <1>0, <1>5, PostedRow DEF PostCommit, StaysFor, Active
<1>6. ASSUME NEW q \in Requests, PatchCommit(q)
      PROVE  StaysFor(m)
  BY <1>0, <1>6, PatchedRow, PatchedUnmanaged DEF PatchCommit, StaysFor
<1>7. ASSUME NEW u \in Users, NEW id \in ReservationIds, DeleteReservation(u, id)
      PROVE  StaysFor(m)
  <2>1. /\ reservation[id].meeting = NoMeeting /\ Active(reservation, id)
        /\ reservation' = Cancelled(reservation, id) /\ link' = link
    BY <1>7, DeletedUnmanaged DEF DeleteReservation
  <2>2. ~Active(reservation', id)
    BY <1>0, <2>1, CancelledRow
  <2>3. \A r \in ReservationIds : r # id => reservation'[r] = reservation[r]
    BY <1>0, <2>1, OtherRowsStay
  <2> QED
    BY <1>0, <2>1, <2>2, <2>3 DEF StaysFor
<1> QED
  BY <1>2, <1>3, <1>4, <1>5, <1>6, <1>7 DEF CommitStep

LEMMA ReservationStepKeeps ==
  ASSUME PollInvariant, ReservationStep
  PROVE  MeetingInvariant'
<1>0. MeetingInvariant /\ LedgerInvariant
  BY DEF PollInvariant
<1>1. UNCHANGED <<identity, device, poll, response, handoff, visit>> /\ enqueued' = {}
  BY DEF ReservationStep
<1>2. PollTypeOK'
  BY <1>0, <1>1 DEF MeetingInvariant, PollTypeOK
<1>3. VisitsKnow' /\ OfMeetings' /\ DevicesStand' /\ AnswersMatchSlots'
  BY <1>0, <1>1 DEF MeetingInvariant, VisitsKnow, Knows, KnowsMeeting, KnowsAnswer,
                    OfMeetings, Live, DevicesStand, AnswersMatchSlots
<1>4. \A m \in Meetings : StaysFor(m)
  BY <1>0, RoutesStay DEF ReservationStep
<1>5. NothingBefore' /\ FinalizedHoldsSlot' /\ HandoffFrozen' /\ HandoffsLinked'
  <2>1. \A m \in Meetings \ {} : poll'[m] = poll[m] /\ handoff'[m] = handoff[m]
    BY <1>1
  <2>2. {} \in SUBSET Meetings
    OBVIOUS
  <2> QED
    BY <1>4, <2>1, <2>2, MeetingsSettled
<1> QED
  BY <1>2, <1>3, <1>5 DEF MeetingInvariant

----------------------------------------------------------------------------
(* Steps of the responders *)

LEMMA EnqueueType ==
  ASSUME NEW owners \in SUBSET Identities, NEW ids, Enqueue(owners, ids)
  PROVE  enqueued' \subseteq Identities
BY DEF Enqueue, OnePerUser, Willing

\* One answer is added, changed or deleted.
LEMMA OneAnswerChanges ==
  ASSUME MeetingInvariant, NEW b \in Browsers, EndVisit(b),
         UNCHANGED <<reservation, link, poll, handoff>>,
         identity' \in [Identities -> IdentityRow \cup {None}],
         device' \in [Browsers -> Identities \cup {None}],
         DevicesStand', enqueued' \subseteq Identities,
         NEW r \in ResponseIds, NEW row \in ResponseRow \cup {Gone},
         response' = [response EXCEPT ![r] = row],
         response[r] # Gone,
         row # Gone =>
           /\ response[r] # None => /\ row.meeting = response[r].meeting
                                    /\ response[r].revision < row.revision
           /\ poll[row.meeting] # None
           /\ \A s \in Given(row.answers) : poll[row.meeting].slots[s] = row.answers[s]
  PROVE  MeetingInvariant'
<1>0. PollTypeOK
  BY DEF MeetingInvariant
<1>1. PollTypeOK'
  BY DEF MeetingInvariant, PollTypeOK, EndVisit
<1>2. row # None
  BY NoneAssumption, PollAssumption
<1>3. ResponsesAdvance
  <2> SUFFICES ASSUME NEW x \in ResponseIds, response[x] # None
               PROVE  /\ response'[x] # None
                      /\ response'[x] # Gone =>
                           /\ response[x] # Gone
                           /\ response'[x].meeting = response[x].meeting
                           /\ response[x].revision <= response'[x].revision
                           /\ response'[x].revision = response[x].revision =>
                                response'[x] = response[x]
    BY DEF ResponsesAdvance
  <2>1. response[x] # Gone => response[x].revision \in Nat
    BY <1>0 DEF PollTypeOK, ResponseRow
  <2>2. CASE x = r
    <3>1. response'[x] = row
      BY <1>0, <2>2 DEF PollTypeOK
    <3>2. row # Gone => row.revision \in Nat
      BY DEF ResponseRow
    <3> QED
      BY <1>2, <2>1, <2>2, <3>1, <3>2
  <2>3. CASE x # r
    <3>1. response'[x] = response[x]
      BY <1>0, <2>3 DEF PollTypeOK
    <3> QED
      BY <2>1, <3>1
  <2> QED
    BY <2>2, <2>3
<1>4. PollsAdvance
  <2>1. \A m \in Meetings : poll[m] # None => poll[m].revision \in Nat
    BY <1>0, PollFields
  <2> QED
    BY <2>1 DEF PollsAdvance
<1>5. VisitsKnow'
  BY <1>0, <1>1, <1>3, <1>4, OnePageChanges DEF MeetingInvariant, EndVisit
<1>6. \A x \in ResponseIds : x # r => response'[x] = response[x]
  BY <1>0 DEF PollTypeOK
<1>7. response'[r] = row
  BY <1>0 DEF PollTypeOK
<1>8. OfMeetings'
  <2>1. ASSUME NEW x \in Live'
        PROVE  poll[response'[x].meeting] # None
    BY <1>6, <1>7, <2>1 DEF MeetingInvariant, OfMeetings, Live
  <2> QED
    BY <2>1 DEF MeetingInvariant, OfMeetings
<1>9. AnswersMatchSlots'
  <2>1. ASSUME NEW x \in Live', NEW s \in Given(response'[x].answers)
        PROVE  poll[response'[x].meeting].slots[s] = response'[x].answers[s]
    <3>1. CASE x = r
      BY <1>7, <2>1, <3>1 DEF Live
    <3>2. CASE x # r
      <4>1. x \in Live /\ response'[x] = response[x]
        BY <1>6, <2>1, <3>2 DEF Live
      <4> QED
        BY <2>1, <4>1 DEF MeetingInvariant, AnswersMatchSlots
    <3> QED
      BY <3>1, <3>2
  <2> QED
    BY <2>1 DEF AnswersMatchSlots
<1>10. NothingBefore' /\ FinalizedHoldsSlot' /\ HandoffFrozen' /\ HandoffsLinked'
  BY DEF MeetingInvariant, NothingBefore, FinalizedHoldsSlot, HandoffFrozen,
         NothingReserved, HoldsSlot, HandoffsLinked
<1> QED
  BY <1>1, <1>5, <1>8, <1>9, <1>10 DEF MeetingInvariant

\* The request of a page that was opened for its meeting.
LEMMA BegunFacts ==
  ASSUME MeetingInvariant, NEW b \in Browsers, OnPage(b, "begun")
  PROVE  /\ visit[b] \in VisitState /\ Knows(visit[b])
         /\ visit[b].meeting \in Meetings /\ Now(b) # None
         /\ Now(b) \in PollRow /\ Now(b).owner \in Identities
         /\ KnowsMeeting(visit[b])
         /\ visit[b].revision = Now(b).revision => visit[b].slots = Now(b).slots
<1>1. PollTypeOK /\ VisitsKnow /\ visit[b] # None /\ visit[b].step # "commit"
  BY DEF MeetingInvariant, OnPage
<1>2. /\ visit[b].meeting \in Meetings /\ Now(b) # None
      /\ KnowsMeeting(visit[b])
  BY <1>1, OnMeeting
<1>3. Now(b) \in PollRow /\ Now(b).owner \in Identities
  BY <1>1, <1>2, PollFields DEF Now
<1>4. visit[b].revision = Now(b).revision => visit[b].slots = Now(b).slots
  BY <1>2 DEF KnowsMeeting, Now
<1> QED
  BY <1>1, <1>2, <1>3, <1>4, VisitFields DEF VisitsKnow

LEMMA AnswerKeeps ==
  ASSUME MeetingInvariant, NEW b \in Browsers, NEW r \in ResponseIds,
         NEW text \in Texts, NEW i \in Identities, Answer(b, r, text, i)
  PROVE  MeetingInvariant'
<1> DEFINE v == visit[b]
           row == [meeting |-> v.meeting, owner |-> i, revision |-> 1,
                   text |-> text, answers |-> v.slots]
<1>0. PollTypeOK /\ DevicesStand /\ OnPage(b, "begun")
  BY DEF MeetingInvariant, Answer
<1>1. /\ v \in VisitState /\ v.meeting \in Meetings
      /\ Now(b) # None /\ Now(b).owner \in Identities
      /\ v.slots = Now(b).slots
  BY <1>0, BegunFacts DEF Answer, AnswerAllowed
<1>2. /\ identity' \in [Identities -> IdentityRow \cup {None}]
      /\ device' \in [Browsers -> Identities \cup {None}]
      /\ DevicesStand'
  <2>1. CASE UNCHANGED identityVars
    BY <1>0, <2>1 DEF identityVars, PollTypeOK, DevicesStand
  <2>2. CASE /\ v.user # None
             /\ identity' = [identity EXCEPT ![i] = [user |-> v.user, notify |-> FALSE]]
             /\ device' = device
    <3>1. v.user \in Logins
      BY <1>1 DEF VisitState, Logins
    <3>2. /\ identity' \in [Identities -> IdentityRow \cup {None}]
          /\ \A j \in Identities : identity[j] # None \/ j = i => identity'[j] # None
      BY <1>0, <2>2, <3>1, IdentityAdded
    <3> QED
      BY <1>0, <2>2, <3>2 DEF PollTypeOK, DevicesStand
  <2> QED
    BY <2>1, <2>2 DEF Answer, EnsureActor
<1>3. enqueued' \subseteq Identities
  BY <1>1, EnqueueType DEF Answer
<1>4. row \in ResponseRow
  BY <1>1 DEF ResponseRow, VisitState
<1>5. /\ row.meeting = v.meeting /\ row.answers = v.slots
      /\ poll[row.meeting] # None
      /\ \A s \in Given(row.answers) : poll[row.meeting].slots[s] = row.answers[s]
  BY <1>1 DEF Now
<1> HIDE DEF row
<1>6. response' = [response EXCEPT ![r] = row] /\ response[r] = None
  BY DEF Answer, row
<1>7. EndVisit(b) /\ UNCHANGED <<reservation, link, poll, handoff>>
  BY DEF Answer, vars
<1>8. None # Gone
  BY PollAssumption
<1> QED
  BY <1>2, <1>3, <1>4, <1>5, <1>6, <1>7, <1>8, OneAnswerChanges

\* The answer a page changes is a row, of the page's meeting.
LEMMA MineIs ==
  ASSUME MeetingInvariant, NEW b \in Browsers, OnPage(b, "begun"),
         visit[b].answer # None, MineAllowed(b)
  PROVE  /\ visit[b].answer \in ResponseIds
         /\ Mine(b) \in ResponseRow /\ Mine(b) # Gone /\ Mine(b) # None
         /\ Mine(b) = visit[b].row
         /\ Mine(b).meeting = visit[b].meeting
<1>1. visit[b].answer \in ResponseIds /\ Mine(b) \notin {None, Gone}
  BY DEF MineAllowed, Live, Mine
<1>2. Mine(b) \in ResponseRow
  BY <1>1 DEF MeetingInvariant, PollTypeOK, Mine
<1>3. KnowsAnswer(visit[b])
  BY BegunFacts DEF Knows
<1>4. Mine(b).revision = visit[b].row.revision
  BY DEF MineAllowed
<1> QED
  BY <1>1, <1>2, <1>3, <1>4 DEF KnowsAnswer, Mine

LEMMA RewrittenRow ==
  ASSUME NEW old \in ResponseRow, NEW text \in Texts, NEW slots \in Slots
  PROVE  LET row == Rewritten(old, text, slots) IN
         /\ row \in ResponseRow /\ row.meeting = old.meeting
         /\ row.answers = slots /\ old.revision < row.revision
<1>1. old.revision \in Nat
  BY DEF ResponseRow
<1>2. old.revision + 1 \in Nat /\ old.revision < old.revision + 1
  BY <1>1
<1> QED
  BY <1>1, <1>2 DEF Rewritten, ResponseRow

LEMMA ReanswerKeeps ==
  ASSUME MeetingInvariant, NEW b \in Browsers, NEW text \in Texts, Reanswer(b, text)
  PROVE  MeetingInvariant'
<1> DEFINE v == visit[b]
           r == v.answer
           old == Mine(b)
           row == Rewritten(old, text, v.slots)
<1>0. PollTypeOK /\ DevicesStand /\ OnPage(b, "begun") /\ r # None /\ MineAllowed(b)
  BY DEF MeetingInvariant, Reanswer
<1>1. /\ v \in VisitState /\ v.meeting \in Meetings
      /\ Now(b) # None /\ Now(b).owner \in Identities
      /\ v.slots = Now(b).slots
  BY <1>0, BegunFacts DEF Reanswer, AnswerAllowed
<1>2. /\ r \in ResponseIds /\ old \in ResponseRow /\ old # Gone
      /\ old.meeting = v.meeting /\ response[r] = old
  BY <1>0, MineIs DEF Mine
<1>3. enqueued' \subseteq Identities
  BY <1>1, EnqueueType DEF Reanswer
<1>4. /\ row \in ResponseRow /\ row.meeting = old.meeting
      /\ row.answers = v.slots /\ old.revision < row.revision
  <2>1. v.slots \in Slots
    BY <1>1 DEF VisitState
  <2> QED
    BY <1>2, <2>1, RewrittenRow
<1>5. /\ poll[row.meeting] # None
      /\ \A s \in Given(row.answers) : poll[row.meeting].slots[s] = row.answers[s]
  BY <1>1, <1>2, <1>4 DEF Now
<1>6. /\ response' = [response EXCEPT ![r] = row] /\ EndVisit(b)
      /\ UNCHANGED <<reservation, link, poll, handoff, identity, device>>
  BY DEF Reanswer, vars
<1>7. /\ identity' \in [Identities -> IdentityRow \cup {None}]
      /\ device' \in [Browsers -> Identities \cup {None}]
      /\ DevicesStand'
  BY <1>0, <1>6 DEF PollTypeOK, DevicesStand
<1> HIDE DEF row, old, r
<1> QED
  BY <1>2, <1>3, <1>4, <1>5, <1>6, <1>7, OneAnswerChanges

LEMMA DeleteResponseKeeps ==
  ASSUME MeetingInvariant, NEW b \in Browsers, DeleteResponse(b)
  PROVE  MeetingInvariant'
<1> DEFINE r == visit[b].answer
<1>0. PollTypeOK /\ DevicesStand /\ OnPage(b, "begun") /\ r # None /\ MineAllowed(b)
  BY DEF MeetingInvariant, DeleteResponse
<1>1. r \in ResponseIds /\ response[r] # Gone
  BY <1>0, MineIs DEF Mine
<1>2. enqueued' \subseteq Identities
  BY <1>0, BegunFacts, EnqueueType DEF DeleteResponse
<1>3. /\ response' = [response EXCEPT ![r] = Gone] /\ EndVisit(b)
      /\ UNCHANGED <<reservation, link, poll, handoff, identity, device>>
  BY DEF DeleteResponse, vars
<1>4. /\ identity' \in [Identities -> IdentityRow \cup {None}]
      /\ device' \in [Browsers -> Identities \cup {None}]
      /\ DevicesStand'
  BY <1>0, <1>3 DEF PollTypeOK, DevicesStand
<1> HIDE DEF r
<1> QED
  BY <1>1, <1>2, <1>3, <1>4, OneAnswerChanges

----------------------------------------------------------------------------
(* Steps of the organizer *)

\* One meeting is created or changed, with a new revision, and its request
\* ends.
LEMMA OnePollChanges ==
  ASSUME PollInvariant, NEW b \in Browsers, EndVisit(b),
         NEW m \in Meetings, NEW row \in PollRow, poll' = [poll EXCEPT ![m] = row],
         poll[m] # None => poll[m].revision < row.revision,
         Usable(row.audience), VenuesListed(row),
         identity' \in [Identities -> IdentityRow \cup {None}],
         device' \in [Browsers -> Identities \cup {None}],
         DevicesStand', enqueued' \subseteq Identities,
         response' \in [ResponseIds -> ResponseRow \cup {None, Gone}],
         ResponsesAdvance,
         \A r \in Live' :
           /\ r \in Live /\ response'[r].meeting = response[r].meeting
           /\ response[r].meeting # m => response'[r] = response[r]
           /\ response[r].meeting = m =>
                \A s \in Given(response'[r].answers) : row.slots[s] = response'[r].answers[s],
         handoff' \in [Meetings -> Snapshot \cup {None}],
         \A o \in Meetings \ {m} : StaysFor(o) /\ handoff'[o] = handoff[o],
         Settled(m)',
         handoff'[m] # None => Frozen(m)' /\ (handoff'[m].facility # None => link'[m] # NoId)
  PROVE  MeetingInvariant'
<1>0. MeetingInvariant /\ PollTypeOK /\ row # None
  BY NoneAssumption DEF PollInvariant, MeetingInvariant
<1>1. PollTypeOK'
  BY <1>0 DEF PollTypeOK, EndVisit
<1>2. /\ poll'[m] = row
      /\ \A o \in Meetings : o # m => poll'[o] = poll[o]
  BY <1>0 DEF PollTypeOK
<1>3. PollsAdvance
  <2> SUFFICES ASSUME NEW o \in Meetings, poll[o] # None
               PROVE  /\ poll'[o] # None /\ poll[o].revision <= poll'[o].revision
                      /\ poll'[o].revision = poll[o].revision => poll'[o] = poll[o]
    BY DEF PollsAdvance
  <2>1. poll[o].revision \in Nat /\ row.revision \in Nat
    BY <1>0, PollFields DEF PollRow
  <2> QED
    BY <1>0, <1>2, <2>1
<1>4. VisitsKnow'
  BY <1>0, <1>1, <1>3, OnePageChanges DEF MeetingInvariant, EndVisit
<1>5. OfMeetings'
  <2>1. \A r \in Live' : poll'[response'[r].meeting] # None
    <3> SUFFICES ASSUME NEW r \in Live'
                 PROVE  poll'[response'[r].meeting] # None
      OBVIOUS
    <3>1. r \in Live /\ response'[r].meeting = response[r].meeting
      OBVIOUS
    <3>2. poll[response[r].meeting] # None
      BY <1>0, <3>1 DEF MeetingInvariant, OfMeetings
    <3>3. response[r].meeting \in Meetings
      BY <1>0, <3>1 DEF PollTypeOK, Live, ResponseRow
    <3> QED
      BY <1>0, <1>2, <3>1, <3>2, <3>3
  <2>2. \A o \in Meetings : handoff'[o] # None => poll'[o] # None
    BY <1>0, <1>2 DEF MeetingInvariant, OfMeetings
  <2>3. \A o \in Meetings : poll'[o] # None => Usable(poll'[o].audience) /\ VenuesListed(poll'[o])
    BY <1>0, <1>2 DEF MeetingInvariant, OfMeetings
  <2> QED
    BY <2>1, <2>2, <2>3 DEF OfMeetings
<1>6. AnswersMatchSlots'
  <2> SUFFICES ASSUME NEW r \in Live', NEW s \in Given(response'[r].answers)
               PROVE  poll'[response'[r].meeting].slots[s] = response'[r].answers[s]
    BY DEF AnswersMatchSlots
  <2>1. r \in Live /\ response'[r].meeting = response[r].meeting
    OBVIOUS
  <2>2. response[r].meeting \in Meetings
    BY <1>0, <2>1 DEF PollTypeOK, Live, ResponseRow
  <2>3. CASE response[r].meeting = m
    BY <1>2, <2>1, <2>3
  <2>4. CASE response[r].meeting # m
    BY <1>0, <1>2, <2>1, <2>2, <2>4 DEF MeetingInvariant, AnswersMatchSlots
  <2> QED
    BY <2>3, <2>4
<1>7. NothingBefore' /\ FinalizedHoldsSlot' /\ HandoffFrozen' /\ HandoffsLinked'
  <2>1. /\ {m} \in SUBSET Meetings
        /\ \A o \in Meetings \ {m} :
             StaysFor(o) /\ poll'[o] = poll[o] /\ handoff'[o] = handoff[o]
        /\ \A o \in {m} : /\ poll'[o] # None /\ Settled(o)'
                          /\ handoff'[o] # None => Frozen(o)' /\
                               (handoff'[o].facility # None => link'[o] # NoId)
    BY <1>0, <1>2
  <2> QED
    BY <2>1, MeetingsSettled
<1> QED
  BY <1>1, <1>4, <1>5, <1>6, <1>7 DEF MeetingInvariant

\* Where the answers stay and so do the candidates, the answers match.
LEMMA SameSlots ==
  ASSUME MeetingInvariant, response' = response, NEW m \in Meetings, NEW row,
         poll[m] # None => row.slots = poll[m].slots
  PROVE  /\ ResponsesAdvance
         /\ response' \in [ResponseIds -> ResponseRow \cup {None, Gone}]
         /\ \A r \in Live' :
              /\ r \in Live /\ response'[r].meeting = response[r].meeting
              /\ response[r].meeting # m => response'[r] = response[r]
              /\ response[r].meeting = m =>
                   \A s \in Given(response'[r].answers) :
                     row.slots[s] = response'[r].answers[s]
<1>1. \A r \in ResponseIds : response[r] \notin {None, Gone} => response[r].revision \in Nat
  BY DEF MeetingInvariant, PollTypeOK, ResponseRow
<1>2. ResponsesAdvance
  BY <1>1 DEF ResponsesAdvance
<1>3. Live' = Live
  BY DEF Live
<1>4. ASSUME NEW r \in Live, response[r].meeting = m, NEW s \in Given(response[r].answers)
      PROVE  row.slots[s] = response[r].answers[s]
  BY <1>4 DEF MeetingInvariant, OfMeetings, AnswersMatchSlots
<1> QED
  BY <1>2, <1>3, <1>4 DEF MeetingInvariant, PollTypeOK

LEMMA CreateKeeps ==
  ASSUME PollInvariant, NEW b \in Browsers, NEW m \in Meetings, NEW u \in Users,
         NEW g \in SUBSET Groups, NEW i \in Identities, Create(b, m, u, g, i)
  PROVE  MeetingInvariant'
<1> DEFINE v == visit[b]
           audience == RequestedAudience(v.input.audience, PublicAudience)
           row == [owner |-> i, state |-> "open", selected |-> None, revision |-> 1,
                   slots |-> v.input.slots, venues |-> v.input.venues,
                   guest |-> ResolveGuest(v.input.guest, audience, FALSE),
                   audience |-> audience]
<1>0. MeetingInvariant /\ LedgerInvariant /\ PollTypeOK /\ DevicesStand
  BY DEF PollInvariant, MeetingInvariant
<1>1. v.input \in Inputs
  BY <1>0 DEF Create, OnPage, MeetingInvariant, VisitsKnow, Knows
<1>2. /\ v.input.slots \in Slots /\ v.input.venues \in Venues
      /\ v.input.audience \in AudienceBody
      /\ \A s \in Given(v.input.slots) : v.input.slots[s].venue # None =>
           v.input.venues[v.input.slots[s].venue] # None
  BY <1>1, PollAssumption DEF IsMeetingInput
<1>3. audience \in Audience /\ Usable(audience)
  <2>1. audience \in Audience
    BY <1>2, PublicAudienceType, RequestedAudienceType
  <2>2. MayUseAudience(audience, g, TRUE)
    BY DEF Create
  <2> QED
    BY <2>1, <2>2, SomeoneMayUse
<1> HIDE DEF audience
<1>4. ResolveGuest(v.input.guest, audience, FALSE) \in BOOLEAN
  BY DEF ResolveGuest
<1>5. row \in PollRow
  BY <1>2, <1>3, <1>4 DEF PollRow
<1>6. /\ row.audience = audience /\ row.state = "open" /\ row.selected = None
      /\ row.slots = v.input.slots /\ row.venues = v.input.venues
  OBVIOUS
<1>7. VenuesListed(row)
  BY <1>2, <1>6 DEF VenuesListed
<1>8. /\ poll' = [poll EXCEPT ![m] = row] /\ poll[m] = None /\ EndVisit(b)
      /\ UNCHANGED <<reservation, link, response, handoff>> /\ enqueued' = {}
  BY DEF Create, vars, audience
<1> HIDE DEF row
<1>9. /\ identity' \in [Identities -> IdentityRow \cup {None}]
      /\ device' \in [Browsers -> Identities \cup {None}]
      /\ DevicesStand'
  <2>1. CASE UNCHANGED identityVars
    BY <1>0, <2>1 DEF identityVars, PollTypeOK, DevicesStand
  <2>2. CASE /\ identity' = [identity EXCEPT ![i] = [user |-> u, notify |-> FALSE]]
             /\ device' = device
    <3>1. /\ identity' \in [Identities -> IdentityRow \cup {None}]
          /\ \A j \in Identities : identity[j] # None \/ j = i => identity'[j] # None
      BY <1>0, <2>2, IdentityAdded DEF Logins
    <3> QED
      BY <1>0, <2>2, <3>1 DEF PollTypeOK, DevicesStand
  <2> QED
    BY <2>1, <2>2 DEF Create, EnsureActor
<1>10. /\ ResponsesAdvance
       /\ response' \in [ResponseIds -> ResponseRow \cup {None, Gone}]
       /\ \A r \in Live' :
            /\ r \in Live /\ response'[r].meeting = response[r].meeting
            /\ response[r].meeting # m => response'[r] = response[r]
            /\ response[r].meeting = m =>
                 \A s \in Given(response'[r].answers) :
                   row.slots[s] = response'[r].answers[s]
  BY <1>0, <1>8, SameSlots
<1>11. Settled(m)'
  <2>1. NothingReserved(m)'
    BY <1>0, <1>8 DEF MeetingInvariant, NothingBefore, NothingReserved
  <2>2. poll'[m] = row
    BY <1>0, <1>8 DEF PollTypeOK
  <2> QED
    BY <1>6, <2>1, <2>2 DEF Settled
<1>12. handoff'[m] = None /\ handoff' \in [Meetings -> Snapshot \cup {None}]
  BY <1>0, <1>8 DEF MeetingInvariant, OfMeetings, PollTypeOK
<1>13. \A o \in Meetings \ {m} : StaysFor(o) /\ handoff'[o] = handoff[o]
  BY <1>8 DEF StaysFor
<1>14. enqueued' \subseteq Identities
  BY <1>8
<1> QED
  BY <1>3, <1>5, <1>6, <1>7, <1>8, <1>9, <1>10, <1>11, <1>12, <1>13, <1>14, OnePollChanges

\* Only the owners and columns a request may have: the meeting of an open page.
LEMMA OwnersType ==
  ASSUME PollTypeOK, NEW m
  PROVE  OwnersOf(m) \subseteq Identities
<1>1. \A r \in ResponsesOf(m) : response[r] \in ResponseRow
  BY DEF ResponsesOf, Live, PollTypeOK
<1> QED
  BY <1>1 DEF OwnersOf, ResponseRow

\* The answers an edit keeps are to candidates that stay as they are.
LEMMA KeptAnswers ==
  ASSUME NEW old \in Slots, NEW new \in Slots, NEW answers \in Slots,
         \A s \in Given(answers) : old[s] = answers[s]
  PROVE  /\ Kept(old, new, answers) \in Slots
         /\ \A s \in Given(Kept(old, new, answers)) : new[s] = Kept(old, new, answers)[s]
BY DEF Kept, Slots, Given

LEMMA EditKeeps ==
  ASSUME PollInvariant, NEW b \in Browsers, Edit(b)
  PROVE  MeetingInvariant'
<1>m. PICK m : m = visit[b].meeting
  OBVIOUS
<1> DEFINE v == visit[b]
           p == poll[m]
           row == [p EXCEPT !.slots = v.input.slots, !.venues = v.input.venues,
                            !.guest = v.guestSetting, !.audience = v.audience,
                            !.state = "open", !.selected = None,
                            !.revision = p.revision + 1]
           NewAnswer(r) == [response[r] EXCEPT
             !.answers = Kept(p.slots, v.input.slots, response[r].answers),
             !.revision = response[r].revision + 1]
<1>0. MeetingInvariant /\ LedgerInvariant /\ PollTypeOK /\ DevicesStand
  BY DEF PollInvariant, MeetingInvariant
<1>1. v # None /\ v.step = "commit" /\ m # None /\ Knows(v) /\ v \in VisitState
  BY <1>m, <1>0, VisitFields DEF Edit, OnPage, MeetingInvariant, VisitsKnow
<1>2. m \in Meetings /\ p # None
  BY <1>m, <1>0, <1>1, OnMeeting DEF MeetingInvariant, Now
<1>3. p \in PollRow /\ p.revision \in Nat /\ p.slots \in Slots
  BY <1>0, <1>2, PollFields
<1>4. v.input \in Inputs /\ Usable(v.audience)
  BY <1>1 DEF Knows
<1>5. /\ v.input.slots \in Slots /\ v.input.venues \in Venues
      /\ \A s \in Given(v.input.slots) : v.input.slots[s].venue # None =>
           v.input.venues[v.input.slots[s].venue] # None
  BY <1>4, PollAssumption DEF IsMeetingInput
<1>6. v.audience \in Audience /\ v.guestSetting \in BOOLEAN
  BY <1>1 DEF VisitState
<1>7. p.revision + 1 \in Nat /\ p.revision < p.revision + 1
  BY <1>3
<1>8. /\ row \in PollRow /\ row.slots = v.input.slots /\ row.venues = v.input.venues
      /\ row.audience = v.audience /\ row.state = "open" /\ row.selected = None
      /\ row.revision = p.revision + 1
  BY <1>3, <1>5, <1>6, <1>7 DEF PollRow
<1>9. VenuesListed(row)
  BY <1>5, <1>8 DEF VenuesListed
<1>10. poll' = [poll EXCEPT ![m] = row]
  BY <1>m, <1>0, <1>2, <1>3 DEF Edit, StoredGuest, PollTypeOK, PollRow
<1> HIDE DEF row
<1>11. /\ ReleaseMeetingFacility(m) /\ EndVisit(b) /\ handoff[m] = None
       /\ UNCHANGED <<identity, device, handoff>>
  BY <1>m DEF Edit, EditAllowed
<1>12. enqueued' \subseteq Identities
  BY <1>0, OwnersType, EnqueueType DEF Edit
<1>13. ASSUME NEW r \in ResponsesOf(m)
       PROVE  /\ response[r] \in ResponseRow /\ response[r].meeting = m
              /\ NewAnswer(r) \in ResponseRow /\ NewAnswer(r).meeting = m
              /\ response[r].revision < NewAnswer(r).revision
              /\ \A s \in Given(NewAnswer(r).answers) :
                   row.slots[s] = NewAnswer(r).answers[s]
  <2>1. /\ r \in Live /\ response[r] \in ResponseRow /\ response[r].meeting = m
    BY <1>0, <1>13 DEF ResponsesOf, Live, PollTypeOK
  <2>2. response[r].answers \in Slots /\ response[r].revision \in Nat
    BY <2>1 DEF ResponseRow
  <2>3. \A s \in Given(response[r].answers) : p.slots[s] = response[r].answers[s]
    BY <1>0, <2>1 DEF MeetingInvariant, AnswersMatchSlots
  <2>4. PICK kept : kept = Kept(p.slots, v.input.slots, response[r].answers)
    OBVIOUS
  <2>5. kept \in Slots /\ \A s \in Given(kept) : v.input.slots[s] = kept[s]
    BY <1>3, <1>5, <2>2, <2>3, <2>4, KeptAnswers
  <2>6. response[r].revision + 1 \in Nat /\ response[r].revision < response[r].revision + 1
    BY <2>2
  <2>7. /\ NewAnswer(r) \in ResponseRow /\ NewAnswer(r).meeting = m
        /\ NewAnswer(r).answers = kept
        /\ NewAnswer(r).revision = response[r].revision + 1
    BY <2>1, <2>4, <2>5, <2>6 DEF ResponseRow
  <2> QED
    BY <1>8, <2>1, <2>5, <2>6, <2>7
<1>14. response' = [r \in ResponseIds |->
         IF r \in ResponsesOf(m) THEN NewAnswer(r) ELSE response[r]]
  BY <1>m DEF Edit, Now
<1> HIDE DEF NewAnswer
<1>15. response' \in [ResponseIds -> ResponseRow \cup {None, Gone}]
  BY <1>0, <1>13, <1>14 DEF PollTypeOK
<1>16. \A r \in ResponseIds : r \notin ResponsesOf(m) => response'[r] = response[r]
  BY <1>14
<1>17. \A r \in ResponsesOf(m) : r \in ResponseIds /\ r \in Live /\ response'[r] = NewAnswer(r)
  BY <1>14 DEF ResponsesOf, Live
<1>18. ResponsesAdvance
  <2> SUFFICES ASSUME NEW r \in ResponseIds, response[r] # None
               PROVE  /\ response'[r] # None
                      /\ response'[r] # Gone =>
                           /\ response[r] # Gone
                           /\ response'[r].meeting = response[r].meeting
                           /\ response[r].revision <= response'[r].revision
                           /\ response'[r].revision = response[r].revision =>
                                response'[r] = response[r]
    BY DEF ResponsesAdvance
  <2>1. CASE r \in ResponsesOf(m)
    <3>1. /\ NewAnswer(r) \in ResponseRow /\ response[r] \in ResponseRow
          /\ response[r].revision < NewAnswer(r).revision
          /\ NewAnswer(r).meeting = response[r].meeting
      BY <1>13, <2>1
    <3>2. response[r].revision \in Nat /\ NewAnswer(r).revision \in Nat
      BY <3>1 DEF ResponseRow
    <3>3. response'[r] = NewAnswer(r) /\ response[r] # Gone
      BY <1>17, <2>1 DEF Live
    <3>4. NewAnswer(r) # None
      BY <3>1, NoneAssumption
    <3> QED
      BY <3>1, <3>2, <3>3, <3>4
  <2>2. CASE r \notin ResponsesOf(m)
    <3>1. response'[r] = response[r]
      BY <1>16, <2>2
    <3>2. response[r] # Gone => response[r].revision \in Nat
      BY <1>0 DEF PollTypeOK, ResponseRow
    <3> QED
      BY <3>1, <3>2
  <2> QED
    BY <2>1, <2>2
<1>19. \A r \in Live' :
         /\ r \in Live /\ response'[r].meeting = response[r].meeting
         /\ response[r].meeting # m => response'[r] = response[r]
         /\ response[r].meeting = m =>
              \A s \in Given(response'[r].answers) :
                row.slots[s] = response'[r].answers[s]
  <2> SUFFICES ASSUME NEW r \in Live'
               PROVE  /\ r \in Live /\ response'[r].meeting = response[r].meeting
                      /\ response[r].meeting # m => response'[r] = response[r]
                      /\ response[r].meeting = m =>
                           \A s \in Given(response'[r].answers) :
                             row.slots[s] = response'[r].answers[s]
    OBVIOUS
  <2>1. CASE r \in ResponsesOf(m)
    BY <1>13, <1>17, <2>1
  <2>2. CASE r \notin ResponsesOf(m)
    <3>1. r \in ResponseIds /\ response'[r] = response[r] /\ r \in Live
      BY <1>16, <2>2 DEF Live
    <3>2. response[r].meeting # m
      BY <2>2, <3>1 DEF ResponsesOf
    <3> QED
      BY <3>1, <3>2
  <2> QED
    BY <2>1, <2>2
<1>20. Settled(m)'
  <2>1. NothingReserved(m)'
    BY <1>0, <1>2, <1>11, ReleasedHoldsNothing
  <2>2. poll'[m] = row
    BY <1>0, <1>2, <1>10 DEF PollTypeOK
  <2> QED
    BY <1>8, <2>1, <2>2 DEF Settled
<1>21. /\ identity' \in [Identities -> IdentityRow \cup {None}]
       /\ device' \in [Browsers -> Identities \cup {None}]
       /\ DevicesStand'
       /\ handoff' \in [Meetings -> Snapshot \cup {None}] /\ handoff'[m] = None
  BY <1>0, <1>11 DEF PollTypeOK, DevicesStand
<1>22. \A o \in Meetings \ {m} : StaysFor(o) /\ handoff'[o] = handoff[o]
  BY <1>0, <1>2, <1>11, OthersStay
<1>23. Usable(row.audience) /\ poll[m].revision < row.revision
  BY <1>4, <1>7, <1>8
<1> QED
  BY <1>2, <1>8, <1>9, <1>10, <1>11, <1>12, <1>15, <1>18, <1>19, <1>20, <1>21, <1>22,
     <1>23, OnePollChanges

\* Cancelling gives everything back, whoever asks.
LEMMA CancelPollKeeps ==
  ASSUME PollInvariant, NEW b \in Browsers, OnPage(b, "begun"), CancelPoll(b)
  PROVE  MeetingInvariant'
<1>m. PICK m : m = visit[b].meeting
  OBVIOUS
<1> DEFINE p == poll[m]
           row == [p EXCEPT !.state = "cancelled", !.selected = None,
                            !.revision = p.revision + 1]
<1>0. MeetingInvariant /\ LedgerInvariant /\ PollTypeOK /\ DevicesStand
  BY DEF PollInvariant, MeetingInvariant
<1>1. m \in Meetings /\ p # None
  BY <1>m, <1>0, BegunFacts DEF Now
<1>2. p \in PollRow /\ p.revision \in Nat /\ Usable(p.audience) /\ VenuesListed(p)
  BY <1>0, <1>1, PollFields DEF MeetingInvariant, OfMeetings
<1>3. p.revision + 1 \in Nat /\ p.revision < p.revision + 1
  BY <1>2
<1>4. /\ row \in PollRow /\ row.state = "cancelled" /\ row.selected = None
      /\ row.slots = p.slots /\ row.venues = p.venues /\ row.audience = p.audience
      /\ row.revision = p.revision + 1
  BY <1>2, <1>3 DEF PollRow
<1>5. poll' = [poll EXCEPT ![m] = row]
  BY <1>m, <1>0, <1>1, <1>2 DEF CancelPoll, PollTypeOK, PollRow
<1> HIDE DEF row
<1>6. /\ ReleaseMeetingFacility(m) /\ EndVisit(b)
      /\ UNCHANGED <<identity, device, response, handoff>>
  BY <1>m DEF CancelPoll
<1>7. enqueued' \subseteq Identities
  BY <1>0, OwnersType, EnqueueType DEF CancelPoll
<1>8. NothingReserved(m)' /\ link' = link /\ poll'[m] = row
  BY <1>0, <1>1, <1>5, <1>6, ReleasedHoldsNothing DEF PollTypeOK
<1>9. Settled(m)' /\ Frozen(m)'
  BY <1>4, <1>8 DEF Settled, Frozen
<1>10. handoff'[m] # None /\ handoff'[m].facility # None => link'[m] # NoId
  BY <1>0, <1>1, <1>6, <1>8 DEF MeetingInvariant, HandoffsLinked
<1>11. /\ identity' \in [Identities -> IdentityRow \cup {None}]
       /\ device' \in [Browsers -> Identities \cup {None}]
       /\ DevicesStand'
       /\ handoff' \in [Meetings -> Snapshot \cup {None}]
  BY <1>0, <1>6 DEF PollTypeOK, DevicesStand
<1>12. \A o \in Meetings \ {m} : StaysFor(o) /\ handoff'[o] = handoff[o]
  BY <1>0, <1>1, <1>6, OthersStay
<1>13. /\ ResponsesAdvance
       /\ response' \in [ResponseIds -> ResponseRow \cup {None, Gone}]
       /\ \A r \in Live' :
            /\ r \in Live /\ response'[r].meeting = response[r].meeting
            /\ response[r].meeting # m => response'[r] = response[r]
            /\ response[r].meeting = m =>
                 \A s \in Given(response'[r].answers) :
                   row.slots[s] = response'[r].answers[s]
  BY <1>0, <1>1, <1>4, <1>6, SameSlots
<1>14. Usable(row.audience) /\ VenuesListed(row) /\ poll[m].revision < row.revision
  BY <1>2, <1>3, <1>4 DEF VenuesListed
<1> QED
  BY <1>1, <1>4, <1>5, <1>6, <1>7, <1>9, <1>10, <1>11, <1>12, <1>13, <1>14,
     OnePollChanges

\* A meeting's row once a candidate is finalized.
FinalRow(p, s) ==
  [p EXCEPT !.state = "finalized", !.selected = s, !.revision = p.revision + 1]

\* Finalizing takes the facility of the candidate and no other meeting's.
LEMMA FinalizedHolds ==
  ASSUME PollInvariant, NEW b \in Browsers, OnPage(b, "begun"), NEW s \in SlotIds,
         NEW id \in ReservationIds, FinalizeSlot(b, s, id),
         NEW m, m = visit[b].meeting, NEW p, p = poll[m]
  PROVE  /\ m \in Meetings /\ p \in PollRow /\ p.slots[s] # None
         /\ handoff[m] = None
         /\ poll' = [poll EXCEPT ![m] = FinalRow(p, s)]
         /\ \A o \in Meetings \ {m} : StaysFor(o)
         /\ Settled(m)'
         /\ FacilityAt(p, s) # None =>
              /\ link'[m] \in ReservationIds /\ link'[m] # NoId
              /\ Active(reservation', link'[m])
              /\ reservation'[link'[m]].facility = FacilityAt(p, s)
<1> DEFINE row == FinalRow(p, s)
           f == FacilityAt(p, s)
<1>0. MeetingInvariant /\ LedgerInvariant /\ PollTypeOK
  BY DEF PollInvariant, MeetingInvariant
<1>1. m \in Meetings /\ p # None /\ Now(b) = p
  BY <1>0, BegunFacts DEF Now
<1>2. /\ p \in PollRow /\ p.revision \in Nat /\ p.audience \in Audience
      /\ VenuesListed(p)
  BY <1>0, <1>1, PollFields DEF MeetingInvariant, OfMeetings
<1>3. /\ p.slots[s] # None /\ ~VenueBusy(p, s) /\ handoff[m] = None
      /\ ReserveVenue(b, s, id)
  BY <1>1 DEF FinalizeSlot, EditAllowed
<1>4. /\ row \in PollRow /\ row.state = "finalized" /\ row.selected = s
      /\ row.slots = p.slots /\ row.venues = p.venues /\ row.audience = p.audience
  <2>1. p.revision + 1 \in Nat
    BY <1>2
  <2> QED
    BY <1>2, <2>1 DEF PollRow, FinalRow
<1>5. poll' = [poll EXCEPT ![m] = row]
  BY <1>0, <1>1, <1>2 DEF FinalizeSlot, PollTypeOK, PollRow, FinalRow
<1> HIDE DEF row
<1>6. poll'[m] = row
  BY <1>0, <1>1, <1>5 DEF PollTypeOK
<1>7. /\ row.selected \in Given(row.slots) /\ ~VenueBusy(row, s)
      /\ FacilityAt(row, s) = f
  BY <1>3, <1>4 DEF Given, VenueBusy, FacilityAt
<1>8. CASE f = None
  <2>1. ReleaseMeetingFacility(m)
    BY <1>1, <1>3, <1>8 DEF ReserveVenue
  <2>2. NothingReserved(m)'
    BY <1>0, <1>1, <2>1, ReleasedHoldsNothing
  <2>3. HoldsSlot(m, s)'
    BY <1>6, <1>7, <1>8, <2>2 DEF HoldsSlot
  <2>4. Settled(m)'
    BY <1>4, <1>6, <1>7, <2>3 DEF Settled
  <2>5. \A o \in Meetings \ {m} : StaysFor(o)
    BY <1>0, <1>1, <2>1, OthersStay
  <2> QED
    BY <1>1, <1>2, <1>3, <1>5, <1>8, <2>4, <2>5 DEF row
<1>9. CASE f # None
  <2>1. /\ visit[b].user # None
        /\ ReserveMeetingFacility(m, visit[b].user, f, Minute(p.slots[s].start),
             Minute(p.slots[s].end), p.audience, id)
    BY <1>1, <1>3, <1>9 DEF ReserveVenue
  <2>2. /\ visit[b].user \in Users
        /\ f \in Facilities
        /\ Minute(p.slots[s].start) \in Minutes /\ Minute(p.slots[s].end) \in Minutes
    BY <1>0, <1>2, <1>3, <1>9, <2>1, VisitFields, FacilityAtType, CandidateType
       DEF OnPage
  <2>3. /\ link'[m] = id /\ link'[m] # NoId
        /\ Active(reservation', id)
        /\ reservation'[id].facility = f
        /\ reservation'[id].start = Minute(p.slots[s].start)
        /\ reservation'[id].end = Minute(p.slots[s].end)
        /\ reservation'[id].audience = p.audience
    BY <1>0, <1>1, <1>2, <2>1, <2>2, ReservedHolds
  <2>4. HoldsSlot(m, s)'
    BY <1>4, <1>6, <1>7, <1>9, <2>3 DEF HoldsSlot
  <2>5. Settled(m)'
    BY <1>4, <1>6, <1>7, <2>4 DEF Settled
  <2>6. \A o \in Meetings \ {m} : StaysFor(o)
    BY <1>0, <1>1, <2>1, OthersStay
  <2> QED
    BY <1>1, <1>2, <1>3, <1>5, <2>3, <2>5, <2>6 DEF row
<1> QED
  BY <1>8, <1>9

\* What a request that finalizes leaves, with the handoff it writes or without.
LEMMA FinalizeSlotKeeps ==
  ASSUME PollInvariant, NEW b \in Browsers, OnPage(b, "begun"), NEW s \in SlotIds,
         NEW id \in ReservationIds, FinalizeSlot(b, s, id), EndVisit(b),
         UNCHANGED <<identity, device, response>>,
         NEW m, m = visit[b].meeting,
         handoff' \in [Meetings -> Snapshot \cup {None}],
         \A o \in Meetings \ {m} : handoff'[o] = handoff[o],
         handoff'[m] # None => handoff'[m] = SnapshotOf(poll[m], s, link'[m])
  PROVE  MeetingInvariant'
<1>p. PICK p : p = poll[m]
  OBVIOUS
<1> DEFINE row == FinalRow(p, s)
<1>0. MeetingInvariant /\ LedgerInvariant /\ PollTypeOK /\ DevicesStand
  BY DEF PollInvariant, MeetingInvariant
<1>1. /\ m \in Meetings /\ p \in PollRow /\ p.slots[s] # None
      /\ poll' = [poll EXCEPT ![m] = row]
      /\ \A o \in Meetings \ {m} : StaysFor(o)
      /\ Settled(m)'
      /\ FacilityAt(p, s) # None =>
           /\ link'[m] \in ReservationIds /\ link'[m] # NoId
           /\ Active(reservation', link'[m])
           /\ reservation'[link'[m]].facility = FacilityAt(p, s)
  BY <1>p, FinalizedHolds
<1>2. poll[m] # None
  BY <1>0, <1>1, BegunFacts DEF Now
<1>3. /\ p.revision \in Nat /\ p.revision + 1 \in Nat /\ p.revision < p.revision + 1
  BY <1>1 DEF PollRow
<1>4. /\ row \in PollRow /\ row.state = "finalized" /\ row.selected = s
      /\ row.slots = p.slots /\ row.venues = p.venues /\ row.audience = p.audience
      /\ row.revision = p.revision + 1
  BY <1>1, <1>3 DEF PollRow, FinalRow
<1> HIDE DEF row
<1>5. poll'[m] = row
  BY <1>0, <1>1 DEF PollTypeOK
<1>6. ASSUME handoff'[m] # None
      PROVE  Frozen(m)' /\ (handoff'[m].facility # None => link'[m] # NoId)
  <2>1. PICK reserved : reserved = link'[m]
    OBVIOUS
  <2>2. /\ handoff'[m].slot = s /\ handoff'[m].content = p.slots[s]
        /\ handoff'[m].facility = FacilityAt(p, s)
        /\ FacilityAt(p, s) # None => handoff'[m].reservation = reserved
    BY <1>p, <1>6, <2>1 DEF SnapshotOf
  <2> QED
    BY <1>1, <1>4, <1>5, <2>1, <2>2 DEF Frozen
<1>7. enqueued' \subseteq Identities
  BY <1>0, OwnersType, EnqueueType DEF FinalizeSlot
<1>8. /\ identity' \in [Identities -> IdentityRow \cup {None}]
      /\ device' \in [Browsers -> Identities \cup {None}]
      /\ DevicesStand'
  BY <1>0 DEF PollTypeOK, DevicesStand
<1>9. /\ ResponsesAdvance
      /\ response' \in [ResponseIds -> ResponseRow \cup {None, Gone}]
      /\ \A r \in Live' :
           /\ r \in Live /\ response'[r].meeting = response[r].meeting
           /\ response[r].meeting # m => response'[r] = response[r]
           /\ response[r].meeting = m =>
                \A s1 \in Given(response'[r].answers) :
                  row.slots[s1] = response'[r].answers[s1]
  BY <1>p, <1>0, <1>1, <1>4, SameSlots
<1>10. Usable(row.audience) /\ VenuesListed(row) /\ poll[m].revision < row.revision
  <2>1. Usable(p.audience) /\ VenuesListed(p)
    BY <1>p, <1>0, <1>1, <1>2 DEF MeetingInvariant, OfMeetings
  <2>2. VenuesListed(row)
    BY <1>4, <2>1 DEF VenuesListed
  <2>3. poll[m].revision < row.revision
    BY <1>p, <1>3, <1>4
  <2> QED
    BY <1>4, <2>1, <2>2, <2>3
<1>11. \A o \in Meetings \ {m} : StaysFor(o) /\ handoff'[o] = handoff[o]
  BY <1>1
<1> QED
  BY <1>1, <1>4, <1>6, <1>7, <1>8, <1>9, <1>10, <1>11, OnePollChanges

LEMMA FinalizeKeeps ==
  ASSUME PollInvariant, NEW b \in Browsers, NEW s \in SlotIds,
         NEW id \in ReservationIds, Finalize(b, s, id)
  PROVE  MeetingInvariant'
<1>1. PICK m : m = visit[b].meeting
  OBVIOUS
<1>2. OnPage(b, "begun") /\ FinalizeSlot(b, s, id) /\ EndVisit(b)
      /\ UNCHANGED <<identity, device, response, handoff>>
  BY DEF Finalize
<1>3. handoff' \in [Meetings -> Snapshot \cup {None}]
  BY <1>2 DEF PollInvariant, MeetingInvariant, PollTypeOK
<1>4. handoff'[m] = None
  BY <1>1, <1>2 DEF FinalizeSlot, EditAllowed
<1> QED
  BY <1>1, <1>2, <1>3, <1>4, FinalizeSlotKeeps

\* The snapshot handed over is of a candidate and of a reservation.
LEMMA SnapshotType ==
  ASSUME NEW p \in PollRow, NEW s \in SlotIds, p.slots[s] # None, VenuesListed(p),
         NEW id, FacilityAt(p, s) # None => id \in ReservationIds
  PROVE  SnapshotOf(p, s, id) \in Snapshot
BY FacilityAtType, CandidateType DEF SnapshotOf, Snapshot

\* A meeting that is finalized already is handed over as it stands.
LEMMA HandOverKeeps ==
  ASSUME PollInvariant, NEW b \in Browsers, OnPage(b, "begun"), NEW s \in SlotIds,
         NEW m, m = visit[b].meeting,
         poll[m].slots[s] # None, poll[m].state = "finalized", poll[m].selected = s,
         UNCHANGED <<vars, identity, device, poll, response>>, enqueued' = {},
         EndVisit(b),
         handoff' = [handoff EXCEPT ![m] = SnapshotOf(poll[m], s, link[m])]
  PROVE  MeetingInvariant'
<1>p. PICK p : p = poll[m]
  OBVIOUS
<1>0. /\ MeetingInvariant /\ LedgerInvariant /\ PollTypeOK
      /\ UNCHANGED <<reservation, link>>
  BY DEF PollInvariant, MeetingInvariant, vars
<1>1. m \in Meetings /\ p # None /\ p \in PollRow /\ VenuesListed(p)
  BY <1>p, <1>0, BegunFacts DEF Now, MeetingInvariant, OfMeetings
<1>2. Settled(m)
  BY <1>p, <1>0, <1>1, SettledMeetings DEF MeetingInvariant
<1>3. HoldsSlot(m, s)
  BY <1>2 DEF Settled
<1>4. FacilityAt(p, s) # None =>
        /\ link[m] \in ReservationIds /\ link[m] # NoId
        /\ Active(reservation, link[m])
        /\ reservation[link[m]].facility = FacilityAt(p, s)
  BY <1>p, <1>0, <1>1, <1>3 DEF HoldsSlot, LedgerInvariant, TypeOK
<1>5. PICK snapshot : snapshot = SnapshotOf(p, s, link[m])
  OBVIOUS
<1>6. snapshot \in Snapshot
  BY <1>p, <1>1, <1>4, <1>5, SnapshotType
<1>7. /\ handoff' \in [Meetings -> Snapshot \cup {None}] /\ handoff'[m] = snapshot
      /\ \A o \in Meetings \ {m} : handoff'[o] = handoff[o]
  BY <1>p, <1>0, <1>1, <1>5, <1>6 DEF PollTypeOK
<1>8. PollTypeOK'
  BY <1>0, <1>7 DEF PollTypeOK, EndVisit
<1>9. VisitsKnow'
  <2>1. PollsAdvance /\ ResponsesAdvance
    BY <1>0, NothingAdvances
  <2> QED
    BY <1>0, <1>8, <2>1, OnePageChanges DEF MeetingInvariant, EndVisit
<1>10. OfMeetings' /\ DevicesStand' /\ AnswersMatchSlots'
  BY <1>p, <1>0, <1>1, <1>7 DEF MeetingInvariant, OfMeetings, DevicesStand,
                               AnswersMatchSlots, Live
<1>11. \A o \in Meetings : StaysFor(o)
  BY <1>0 DEF StaysFor
<1>12. Settled(m)'
  BY <1>0, <1>1, <1>2, <1>11, SettledStays
<1>13. Frozen(m)' /\ (handoff'[m].facility # None => link'[m] # NoId)
  <2>1. PICK reserved : reserved = link[m]
    OBVIOUS
  <2>2. /\ snapshot.slot = s /\ snapshot.content = p.slots[s]
        /\ snapshot.facility = FacilityAt(p, s)
        /\ FacilityAt(p, s) # None => snapshot.reservation = reserved
    BY <1>5, <2>1 DEF SnapshotOf
  <2> QED
    BY <1>p, <1>0, <1>1, <1>4, <1>7, <2>1, <2>2 DEF Frozen
<1>14. NothingBefore' /\ FinalizedHoldsSlot' /\ HandoffFrozen' /\ HandoffsLinked'
  <2>1. /\ {m} \in SUBSET Meetings
        /\ \A o \in Meetings \ {m} :
             StaysFor(o) /\ poll'[o] = poll[o] /\ handoff'[o] = handoff[o]
        /\ \A o \in {m} : /\ poll'[o] # None /\ Settled(o)'
                          /\ handoff'[o] # None => Frozen(o)' /\
                               (handoff'[o].facility # None => link'[o] # NoId)
    BY <1>p, <1>0, <1>1, <1>7, <1>11, <1>12, <1>13
  <2> QED
    BY <2>1, MeetingsSettled
<1> QED
  BY <1>8, <1>9, <1>10, <1>14 DEF MeetingInvariant

LEMMA GlabFinalizeKeeps ==
  ASSUME PollInvariant, NEW b \in Browsers, NEW s \in SlotIds,
         NEW id \in ReservationIds, GlabFinalize(b, s, id)
  PROVE  MeetingInvariant'
<1>1. PICK m : m = visit[b].meeting
  OBVIOUS
<1>2. PICK p : p = poll[m]
  OBVIOUS
<1>3. /\ OnPage(b, "begun") /\ EndVisit(b) /\ p.slots[s] # None
      /\ UNCHANGED <<identity, device, response>>
      /\ handoff' = [handoff EXCEPT ![m] = SnapshotOf(p, s, link'[m])]
  BY <1>1, <1>2 DEF GlabFinalize, Now
<1>4. CASE p.state = "finalized" /\ p.selected = s
  <2>1. UNCHANGED <<vars, poll>> /\ enqueued' = {}
    BY <1>1, <1>2, <1>4 DEF GlabFinalize, Now
  <2>2. link' = link
    BY <2>1 DEF vars
  <2> QED
    BY <1>1, <1>2, <1>3, <1>4, <2>1, <2>2, HandOverKeeps
<1>5. CASE ~(p.state = "finalized" /\ p.selected = s)
  <2>1. FinalizeSlot(b, s, id)
    BY <1>1, <1>2, <1>5 DEF GlabFinalize, Now
  <2>2. /\ m \in Meetings /\ p \in PollRow
        /\ FacilityAt(p, s) # None => link'[m] \in ReservationIds
    BY <1>1, <1>2, <1>3, <2>1, FinalizedHolds
  <2>3. VenuesListed(p)
    BY <1>1, <1>2, <1>3, BegunFacts DEF PollInvariant, MeetingInvariant, OfMeetings, Now
  <2>4. PICK snapshot : snapshot = SnapshotOf(p, s, link'[m])
    OBVIOUS
  <2>5. snapshot \in Snapshot
    BY <1>3, <2>2, <2>3, <2>4, SnapshotType
  <2>6. /\ handoff' \in [Meetings -> Snapshot \cup {None}]
        /\ \A o \in Meetings \ {m} : handoff'[o] = handoff[o]
        /\ handoff'[m] = SnapshotOf(p, s, link'[m])
    BY <1>3, <2>2, <2>4, <2>5 DEF PollInvariant, MeetingInvariant, PollTypeOK
  <2> QED
    BY <1>1, <1>2, <1>3, <2>1, <2>6, FinalizeSlotKeeps
<1> QED
  BY <1>4, <1>5

----------------------------------------------------------------------------
(* The invariant *)

LEMMA PollStarts == PollInit => PollInvariant
<1> SUFFICES ASSUME PollInit
             PROVE  PollInvariant
  OBVIOUS
<1>1. LedgerInvariant
  BY LedgerStarts DEF PollInit
<1>2. PollTypeOK
  BY DEF PollInit, PollTypeOK
<1>3. \A m \in Meetings : NothingReserved(m)
  BY DEF PollInit, Init, NothingReserved, Active
<1>4. Live = {}
  BY DEF PollInit, Live
<1>5. /\ VisitsKnow /\ OfMeetings /\ DevicesStand
      /\ NothingBefore /\ FinalizedHoldsSlot
      /\ HandoffFrozen /\ HandoffsLinked /\ AnswersMatchSlots
  BY <1>3, <1>4 DEF PollInit, VisitsKnow, OfMeetings, DevicesStand, NothingBefore,
     FinalizedHoldsSlot, HandoffFrozen, HandoffsLinked, AnswersMatchSlots
<1> QED
  BY <1>1, <1>2, <1>5 DEF PollInvariant, MeetingInvariant

LEMMA MeetingGoesOn ==
  ASSUME PollInvariant, [PollNext]_allVars
  PROVE  MeetingInvariant'
<1>0. MeetingInvariant
  BY DEF PollInvariant
<1>1. CASE UNCHANGED allVars
  <2>1. UNCHANGED <<reservation, link, identity, device, poll, response, handoff,
                    visit, enqueued>>
    BY <1>1 DEF allVars, vars, pollVars
  <2> QED
    BY <1>0, <2>1, ActorsChange DEF MeetingInvariant, PollTypeOK, DevicesStand
<1>2. CASE IdentityStep
  BY <1>0, <1>2, IdentityStepKeeps
<1>3. CASE PageStep
  BY <1>0, <1>3, ViewKnows, BeginKnows, VisitFailsKnows, ValidateFacilityKnows
     DEF PageStep
<1>4. CASE OrganizerStep
  <2>1. ASSUME NEW b \in Browsers, Cancel(b) \/ GlabCancel(b)
        PROVE  MeetingInvariant'
    BY <2>1, CancelPollKeeps DEF Cancel, GlabCancel
  <2> QED
    BY <1>0, <1>4, <2>1, CreateBeginKnows, EditBeginKnows, CreateKeeps,
       EditAudienceKnows, EditGuestKnows, EditKeeps, FinalizeKeeps, GlabFinalizeKeeps
       DEF OrganizerStep
<1>5. CASE ResponderStep
  BY <1>0, <1>5, AnswerKeeps, ReanswerKeeps, DeleteResponseKeeps DEF ResponderStep
<1>6. CASE ReservationStep
  BY <1>6, ReservationStepKeeps
<1> QED
  BY <1>1, <1>2, <1>3, <1>4, <1>5, <1>6 DEF PollNext

LEMMA PollGoesOn ==
  ASSUME PollInvariant, [PollNext]_allVars
  PROVE  PollInvariant' /\ [Next]_vars
<1>1. [Next]_vars
  BY StepIsLedgers DEF PollInvariant, MeetingInvariant
<1> QED
  BY <1>1, LedgerGoesOn, MeetingGoesOn DEF PollInvariant

\* The invariant of the meetings and of the ledger they share with the
\* reservation routes, for any number of each: what rows, pages and requests
\* hold, what every meeting holds of the ledger, and what every answer is to.
THEOREM PollInductive == PollSpec => []PollInvariant
<1>1. PollInvariant /\ [PollNext]_allVars => PollInvariant'
  BY PollGoesOn
<1> QED
  BY <1>1, PollStarts, PTL DEF PollSpec

\* Every route of the meetings (finalize, edit, cancel, GLAB's finalize and
\* cancel, the venue check) uses the reservations only in the ways the ledger
\* allows, so each theorem about BookingLedger is one about the whole.
THEOREM PollImplementsLedger == PollSpec => ImplementsLedger
<1>1. PollInit => Init
  BY DEF PollInit
<1>2. PollInvariant /\ [PollNext]_allVars => [Next]_vars
  BY PollGoesOn
<1> QED
  BY <1>1, <1>2, PollInductive, PTL DEF PollSpec, ImplementsLedger, Spec

\* Beside the meetings, too, the rows are a calendar whose bookings are made,
\* moved, exchanged and ended in single steps and overlap only where shared.
THEOREM PollImplementsCalendar == PollSpec => ImplementsCalendar
BY PollImplementsLedger, LedgerImplementsCalendar, PTL DEF ImplementsLedger

\* A finalized meeting holds its candidate's facility, time and audience; a
\* meeting that is not holds nothing (finalize, update, cancel and the
\* reservation routes, in any order).
THEOREM PollFinalizedHoldsSlot == PollSpec => []FinalizedHoldsSlot
<1>1. PollInvariant => FinalizedHoldsSlot
  BY DEF PollInvariant, MeetingInvariant
<1> QED
  BY <1>1, PollInductive, PTL

\* What was handed to GLAB stays as the snapshot says until GLAB cancels it.
THEOREM PollHandoffFrozen == PollSpec => []HandoffFrozen
<1>1. PollInvariant => HandoffFrozen
  BY DEF PollInvariant, MeetingInvariant
<1> QED
  BY <1>1, PollInductive, PTL

\* Every stored answer is to the candidate its author saw, whatever edits ran
\* since the page was opened or since the answer was stored.
THEOREM PollAnswersMatchSlots == PollSpec => []AnswersMatchSlots
<1>1. PollInvariant => AnswersMatchSlots
  BY DEF PollInvariant, MeetingInvariant
<1> QED
  BY <1>1, PollInductive, PTL

\* A changed or deleted answer is the one the page showed: the revision a
\* request names tells an answer from every later state of it.
THEOREM PollNoLostAnswer == PollSpec => NoLostAnswer
<1> DEFINE Replaces == \A b \in Browsers :
                         Reanswers(b) \/ DeleteResponse(b)
                           => response[visit[b].answer] = visit[b].row
<1>1. PollInvariant => Replaces
  <2> SUFFICES ASSUME PollInvariant, NEW b \in Browsers,
                      Reanswers(b) \/ DeleteResponse(b)
               PROVE  response[visit[b].answer] = visit[b].row
    OBVIOUS
  <2>1. OnPage(b, "begun") /\ visit[b].answer # None /\ MineAllowed(b)
    BY DEF Reanswers, Reanswer, DeleteResponse
  <2> QED
    BY <2>1, MineIs DEF PollInvariant, Mine
<1>2. PollInvariant /\ [PollNext]_allVars => [Replaces]_allVars
  BY <1>1
<1> QED
  BY <1>2, PollInductive, PTL DEF PollSpec, NoLostAnswer

\* What an edit leaves out is what the meeting has when the edit commits: an
\* edit that read an older audience or guest setting names an older revision.
THEOREM PollSettingsSurviveEdit == PollSpec => SettingsSurviveEdit
<1> DEFINE Survives ==
      \A b \in Browsers : Edit(b) =>
       LET old == Now(b)
           new == poll'[visit[b].meeting]
       IN /\ visit[b].input.audience.visibility = Unset
               => new.audience.visibility = old.audience.visibility
          /\ visit[b].input.audience.group = Unset
               => new.audience.group = old.audience.group
          /\ visit[b].input.guest = Unset /\ new.audience.visibility = "public"
               => new.guest = old.guest
<1>1. PollInvariant /\ [PollNext]_allVars => [Survives]_allVars
  <2> SUFFICES ASSUME PollInvariant, NEW b \in Browsers, Edit(b)
               PROVE
       LET old == Now(b)
           new == poll'[visit[b].meeting]
       IN /\ visit[b].input.audience.visibility = Unset
               => new.audience.visibility = old.audience.visibility
          /\ visit[b].input.audience.group = Unset
               => new.audience.group = old.audience.group
          /\ visit[b].input.guest = Unset /\ new.audience.visibility = "public"
               => new.guest = old.guest
    OBVIOUS
  <2> DEFINE v == visit[b]
             m == v.meeting
             old == poll[m]
             new == poll'[m]
  <2>1. /\ PollTypeOK /\ VisitsKnow /\ v # None /\ v.step = "commit" /\ m # None
        /\ v.revision = old.revision
    BY DEF PollInvariant, MeetingInvariant, Edit, OnPage, EditAllowed, Now
  <2>2. m \in Meetings /\ old # None /\ KnowsMeeting(v)
    BY <2>1, OnMeeting DEF Now
  <2>3. /\ v.audience = RequestedAudience(v.input.audience, old.audience)
        /\ v.guestSetting = ResolveGuest(v.input.guest, v.audience, old.guest)
    BY <2>1, <2>2 DEF KnowsMeeting
  <2>4. old \in PollRow /\ old.guest \in BOOLEAN
    BY <2>1, <2>2, PollFields
  <2>5. new.audience = v.audience /\ new.guest = v.guestSetting
    BY <2>1, <2>2, <2>4 DEF Edit, StoredGuest, PollTypeOK, PollRow
  <2>6. v.input.audience.visibility = Unset => new.audience.visibility = old.audience.visibility
    BY <2>3, <2>5 DEF RequestedAudience
  <2>7. v.input.audience.group = Unset => new.audience.group = old.audience.group
    BY <2>3, <2>5 DEF RequestedAudience
  <2>8. v.input.guest = Unset /\ new.audience.visibility = "public" => new.guest = old.guest
    BY <2>3, <2>4, <2>5 DEF ResolveGuest
  <2> QED
    BY <2>6, <2>7, <2>8 DEF Now
<1> QED
  BY <1>1, PollInductive, PTL DEF PollSpec, SettingsSurviveEdit

\* An answer is stored only for someone who may read the meeting and answer it
\* at that moment: its requireReadable ran at the revision it commits at.
THEOREM PollAnswersFromReaders == PollSpec => AnswersFromReaders
<1> DEFINE FromReaders ==
      \A b \in Browsers : Answers(b) \/ Reanswers(b) =>
        /\ Now(b).state = "open"
        /\ Now(b).guest \/ visit[b].user # None
        /\ CanReadBooking(Now(b).audience, visit[b].groups,
                          visit[b].user # None, Owns(b))
<1>1. PollInvariant /\ [PollNext]_allVars => [FromReaders]_allVars
  <2> SUFFICES ASSUME PollInvariant, NEW b \in Browsers, Answers(b) \/ Reanswers(b)
               PROVE  /\ Now(b).state = "open"
                      /\ Now(b).guest \/ visit[b].user # None
                      /\ CanReadBooking(Now(b).audience, visit[b].groups,
                                        visit[b].user # None, Owns(b))
    OBVIOUS
  <2>1. OnPage(b, "begun") /\ AnswerAllowed(b)
    BY DEF Answers, Answer, Reanswers, Reanswer
  <2>2. KnowsMeeting(visit[b])
    BY <2>1, BegunFacts DEF PollInvariant
  <2>3. CanReadBooking(Now(b).audience, visit[b].groups,
                       visit[b].user # None, Owns(b))
    BY <2>1, <2>2 DEF KnowsMeeting, OnPage, AnswerAllowed, Now, Owns
  <2> QED
    BY <2>1, <2>3 DEF AnswerAllowed
<1> QED
  BY <1>1, PollInductive, PTL DEF PollSpec, AnswersFromReaders
============================================================================
