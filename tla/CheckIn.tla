------------------------------ MODULE CheckIn ------------------------------
(***************************************************************************)
(* Attendance (src/server/checkin, src/server/routes/checkin.ts): signed   *)
(* attestations of a venue's gateway, sent by a browser or by the gateway  *)
(* itself, and the GPS check-in with a photo.  Every call of the database  *)
(* is an await: other requests, the calendar and administrators act        *)
(* between two steps of a visit, and the process may die.                  *)
(*                                                                         *)
(* A signature holds when the key that made it is the registered one.      *)
(* Distances and precisions are numbers, compared as the code compares     *)
(* them.  The calendar is what BookingLedger is shown to implement.        *)
(***************************************************************************)
EXTENDS Integers, Sequences, FiniteSets

CONSTANTS
  Users, Facilities, Lans, Bookings,
  Visits,        \* requests in flight (bounds their number)
  Registrations, \* what administrators register: [lan, key, facility]
  Attestations,  \* signed attestations in circulation
  Submissions,   \* GPS forms, their signed statement and photo included
  Nonces, Photos,
  MaxTime,       \* bounds the clock
  MinAssurance,  \* CHECKIN_MIN_ASSURANCE
  FRESHNESS, STATEMENT_FRESHNESS, MAX_ACCURACY, POSITION_WINDOW, EXIF_TIME_WINDOW,
  Limit, Window, \* GPS_RATE_LIMIT
  Free, Over,    \* of the calendar
  None

Instants == 0..MaxTime
ASSURANCE_RANK == [low |-> 0, medium |-> 1, high |-> 2, manual |-> 3]

\* The payload of an attestation with its omitted fields filled in
\* ("attendance", "passkey", "medium") and the key that signed it.
Attestation == [sub: Users, place: Facilities, lan: Lans, key: STRING,
  nonce: Nonces, issuedAt: Instants, purpose: {"attendance", "mfa"},
  method: {"passkey", "face", "staff_override"}, assurance: DOMAIN ASSURANCE_RANK]

\* A gateway's word on where it stands.
Statement == [lan: Lans, key: STRING, facility: Facilities, radius: Nat,
  issuedAt: Instants, purpose: {"location", "attendance"}]

\* A form that has the shape parseGpsCheckinForm asks for.  distance is from
\* the statement's place; takenAt is None when the photo has no Exif time,
\* exifDistance when it has no position.
Submission == [statement: Statement, accuracy: Nat \ {0}, distance: Nat,
  positionAt: Instants, photo: Photos,
  takenAt: Instants \cup {None}, exifDistance: Nat \cup {None}]

ASSUME CheckInAssumption ==
  /\ \A r \in Registrations : r.lan \in Lans /\ r.facility \in Facilities
  /\ Attestations \subseteq Attestation /\ Submissions \subseteq Submission
  /\ Nonces \cap Photos = {} /\ Users \cap Lans = {}
  /\ Limit \in Nat \ {0} /\ Window \in Nat \ {0} /\ MaxTime \in Nat
  /\ None \notin Nat

\* A row of attendance and of gps_checkin_photo, and a request in flight.
AttendanceRow == [user: Users, facility: Facilities, lan: Lans, at: Instants,
  reservation: Bookings \cup {None},
  method: {"gps", "passkey", "face", "staff_override"}, assurance: DOMAIN ASSURANCE_RANK]
PhotoRows == [user: Users, takenAt: Instants \cup {None}]
\* `held` is a history value: every registration its gateway has had since the
\* request came in.
VisitState == [by: Users \cup Lans, asked: Attestations \cup Submissions,
  at: Instants, stage: {"parse", "gateway", "reuse", "match", "record", "announce"},
  match: Bookings \cup {None}, held: SUBSET Registrations]

ASSUME NoneAssumption ==
  None \notin AttendanceRow /\ None \notin PhotoRows /\ None \notin VisitState

VARIABLES
  shared, calendar, \* the booking calendar
  gateway,       \* gateway_registry: a registration, or None
  attendance,    \* attendance, by its UNIQUE nonce; "gps:<sha256>" is the photo
  photo,         \* gps_checkin_photo, by photo_sha256
  hits,          \* SlidingWindowLimiter.hits
  visit,         \* requests in flight, or None
  now,
  announced      \* history: webhooks sent for each attendance

cal == <<shared, calendar>>
tables == <<attendance, photo>>
vars == <<cal, gateway, tables, hits, visit, now, announced>>

Cal == INSTANCE FacilityCalendar WITH Meetings <- {}, NoMeeting <- None,
                                      Times <- Instants

ASSUME FreeAssumption == Free # Over /\ Free \notin Cal!Holding

IsGps(v) == v.asked \in Submissions

\* What the gateway signed.
Token(asked) == IF asked \in Submissions THEN asked.statement ELSE asked

\* What a visit is about to record: whose attendance, where and when.
Claim(v) ==
  IF IsGps(v)
  THEN [user |-> v.by, lan |-> v.asked.statement.lan, at |-> v.at,
        facility |-> v.asked.statement.facility, nonce |-> v.asked.photo]
  ELSE [user |-> v.asked.sub, lan |-> v.asked.lan, at |-> v.asked.issuedAt,
        facility |-> v.asked.place, nonce |-> v.asked.nonce]

At(q, stage) == visit[q] # None /\ visit[q].stage = stage
Ends(q) == visit' = [visit EXCEPT ![q] = None]
Goes(q, stage) == visit' = [visit EXCEPT ![q].stage = stage]

\* `by` is the user of a browser or the gateway of a kiosk's token.
Visit(by, asked, stage) ==
  [by |-> by, asked |-> asked, at |-> now, stage |-> stage, match |-> None,
   held |-> {gateway[Token(asked).lan]} \ {None}]

\* A visit that is on its way when its gateway is registered as r.
Witness(v, r) ==
  IF v # None /\ Token(v.asked).lan = r.lan
  THEN [v EXCEPT !.held = @ \cup {r}] ELSE v

----------------------------------------------------------------------------
(* The routes *)

\* Mutant: a gateway that is known moves and keeps its key.
UpsertedKeepsKey(r) ==
  [gateway EXCEPT ![r.lan] = IF @ = None THEN r
                             ELSE [@ EXCEPT !.facility = r.facility]]

\* upsertGateway
Upserted(r) == [gateway EXCEPT ![r.lan] = r]

\* POST /admin/gateways: key, facility and token are replaced.
Register(r) ==
  /\ gateway' = Upserted(r)
  /\ visit' = [q \in Visits |-> Witness(visit[q], r)]
  /\ UNCHANGED <<cal, tables, hits, now, announced>>

\* POST /checkin/verify
BrowserVerify(q, u, a) ==
  /\ visit[q] = None
  /\ visit' = [visit EXCEPT ![q] = Visit(u, a, "gateway")]
  /\ UNCHANGED <<cal, gateway, tables, hits, now, announced>>

\* Only the token of a gateway's last registration is known.
Authorized(l) == gateway[l] # None

\* POST /checkin/gateway-verify: the token names a registered gateway.
KioskVerify(q, l, a) ==
  /\ visit[q] = None
  /\ Authorized(l)
  /\ visit' = [visit EXCEPT ![q] = Visit(l, a, "gateway")]
  /\ UNCHANGED <<cal, gateway, tables, hits, now, announced>>

Recent(u) == SelectSeq(hits[u], LAMBDA t : now - t < Window)

TryConsume(u) == Len(Recent(u)) < Limit

\* POST /checkin/gps: tryConsume, then the body is read.
Gps(q, u, s) ==
  /\ visit[q] = None
  /\ IF TryConsume(u)
     THEN /\ hits' = [hits EXCEPT ![u] = Append(Recent(u), now)]
          /\ visit' = [visit EXCEPT ![q] = Visit(u, s, "parse")]
     ELSE /\ hits' = [hits EXCEPT ![u] = Recent(u)]
          /\ UNCHANGED visit
  /\ UNCHANGED <<cal, gateway, tables, now, announced>>

\* The form was read: processGpsCheckin starts, and takes the time.
Parsed(q) ==
  /\ At(q, "parse")
  /\ visit' = [visit EXCEPT ![q].stage = "gateway", ![q].at = now]
  /\ UNCHANGED <<cal, gateway, tables, hits, now, announced>>

----------------------------------------------------------------------------
(* processCheckin and processGpsCheckin *)

Distance(a, b) == IF a < b THEN b - a ELSE a - b

\* The token is signed with the key that is registered now.
Signed(token, row) == row # None /\ row.key = token.key

\* The attestation is signed by the gateway it names, for the facility that
\* gateway stands in, and is not somebody else's.
Attests(v, row) ==
  /\ Signed(v.asked, row)
  /\ v.asked.place = row.facility
  /\ v.by \in Lans => v.asked.lan = v.by
  /\ v.asked.purpose = "attendance"
  /\ v.by \in Users => v.asked.sub = v.by

\* Sure enough, and not too old; an attestation of the future is taken.
Acceptable(v) ==
  /\ \/ v.asked.method = "staff_override"
     \/ ASSURANCE_RANK[v.asked.assurance] >= ASSURANCE_RANK[MinAssurance]
  /\ v.at - v.asked.issuedAt <= FRESHNESS

\* Checks 2 to 5 of a GPS check-in, in the code's order.
Locates(v, row) ==
  LET s == v.asked  allowed == s.statement.radius + s.accuracy IN
  /\ Signed(s.statement, row) /\ s.statement.purpose = "location"
  /\ s.statement.facility = row.facility
  /\ Distance(v.at, s.statement.issuedAt) <= STATEMENT_FRESHNESS
  /\ s.accuracy <= MAX_ACCURACY
  /\ s.distance <= allowed
  /\ Distance(v.at, s.positionAt) <= POSITION_WINDOW
  /\ s.takenAt # None /\ Distance(v.at, s.takenAt) <= EXIF_TIME_WINDOW
  /\ s.exifDistance # None => s.exifDistance <= allowed

\* getGateway has answered: everything that needs no other row is checked.
Verify(q) ==
  LET v == visit[q]  row == gateway[Claim(v).lan] IN
  /\ At(q, "gateway")
  /\ IF IsGps(v)
     THEN IF Locates(v, row) THEN Goes(q, "reuse") ELSE Ends(q)
     ELSE IF Attests(v, row) /\ Acceptable(v) THEN Goes(q, "match") ELSE Ends(q)
  /\ UNCHANGED <<cal, gateway, tables, hits, now, announced>>

PhotoRow(v) == [user |-> v.by, takenAt |-> v.asked.takenAt]

\* A photo row with this hash, or of this user at this time.
PhotoUsed(v) ==
  \E p \in Photos : /\ photo[p] # None
                    /\ \/ p = v.asked.photo
                       \/ photo[p] = PhotoRow(v)

\* isGpsPhotoReused
Reused(q) ==
  /\ At(q, "reuse")
  /\ IF PhotoUsed(visit[q]) THEN Ends(q) ELSE Goes(q, "match")
  /\ UNCHANGED <<cal, gateway, tables, hits, now, announced>>

\* Mutant: a booking of the user is taken, wherever it is.
CoveringAny(c) == {b \in Bookings :
  /\ Cal!Held(b) /\ calendar[b].owner = c.user
  /\ calendar[b].start <= c.at /\ c.at < calendar[b].end}

Covering(c) == {b \in Bookings :
  /\ Cal!Held(b) /\ calendar[b].owner = c.user /\ calendar[b].facility = c.facility
  /\ calendar[b].start <= c.at /\ c.at < calendar[b].end}

\* findMatchingReservation: the latest to start, or none (a walk-in).
Match(q) ==
  LET found == Covering(Claim(visit[q])) IN
  /\ At(q, "match")
  /\ \E b \in IF found = {} THEN {None} ELSE found :
       /\ \A other \in found : calendar[other].start <= calendar[b].start
       /\ visit' = [visit EXCEPT ![q].match = b, ![q].stage = "record"]
  /\ UNCHANGED <<cal, gateway, tables, hits, now, announced>>

Row(v) ==
  LET c == Claim(v) IN
  [user |-> c.user, facility |-> c.facility, lan |-> c.lan, at |-> c.at,
   reservation |-> v.match,
   method |-> IF IsGps(v) THEN "gps" ELSE v.asked.method,
   assurance |-> IF IsGps(v) THEN "low" ELSE v.asked.assurance]

\* Mutant: a known nonce is passed over in silence.
RecordsAgain(q) ==
  LET n == Claim(visit[q]).nonce IN
  /\ attendance' = [attendance EXCEPT ![n] = IF @ = None THEN Row(visit[q]) ELSE @]
  /\ Goes(q, "announce")

\* insertAttendance: the UNIQUE nonce turns a second one away.
Records(q) ==
  LET n == Claim(visit[q]).nonce IN
  IF attendance[n] = None
  THEN attendance' = [attendance EXCEPT ![n] = Row(visit[q])] /\ Goes(q, "announce")
  ELSE Ends(q) /\ UNCHANGED attendance

Record(q) ==
  /\ At(q, "record") /\ ~IsGps(visit[q])
  /\ Records(q)
  /\ UNCHANGED <<cal, gateway, photo, hits, now, announced>>

\* Mutant: the attendance is kept when the photo turns out to be used.
RecordsTornPhoto(q) ==
  LET v == visit[q]  p == v.asked.photo IN
  IF attendance[p] # None
  THEN Ends(q) /\ UNCHANGED <<attendance, photo>>
  ELSE /\ attendance' = [attendance EXCEPT ![p] = Row(v)]
       /\ photo' = IF PhotoUsed(v) THEN photo
                   ELSE [photo EXCEPT ![p] = PhotoRow(v)]
       /\ Goes(q, "announce")

\* One transaction: a photo used meanwhile takes the attendance back.
RecordsPhoto(q) ==
  LET v == visit[q]  p == v.asked.photo IN
  IF attendance[p] # None \/ PhotoUsed(v)
  THEN Ends(q) /\ UNCHANGED <<attendance, photo>>
  ELSE /\ attendance' = [attendance EXCEPT ![p] = Row(v)]
       /\ photo' = [photo EXCEPT ![p] = PhotoRow(v)]
       /\ Goes(q, "announce")

RecordGps(q) ==
  /\ At(q, "record") /\ IsGps(visit[q])
  /\ RecordsPhoto(q)
  /\ UNCHANGED <<cal, gateway, hits, now, announced>>

\* The inserted row was read back: notifyAttendance, and the answer.
Announce(q) ==
  LET n == Claim(visit[q]).nonce IN
  /\ At(q, "announce")
  /\ announced' = [announced EXCEPT ![n] = @ + 1]
  /\ Ends(q)
  /\ UNCHANGED <<cal, gateway, tables, hits, now>>

\* Any await may fail: the request ends with an error.
Fails(q) ==
  /\ visit[q] # None
  /\ Ends(q)
  /\ UNCHANGED <<cal, gateway, tables, hits, now, announced>>

\* The process dies and starts again: requests and hits are gone.
Restart ==
  /\ visit' = [q \in Visits |-> None]
  /\ hits' = [u \in Users |-> <<>>]
  /\ UNCHANGED <<cal, gateway, tables, now, announced>>

Tick ==
  /\ now < MaxTime
  /\ now' = now + 1
  /\ UNCHANGED <<cal, gateway, tables, hits, visit, announced>>

\* The ledger books, moves and ends.  (Its policy and its meetings make no
\* difference here.)
Calendar ==
  /\ \E b \in Bookings :
       \/ \E h \in Cal!Holding : Cal!Book(b, h)
       \/ \E s, e \in Instants : Cal!Move(b, s, e)
       \/ Cal!End(b)
  /\ UNCHANGED <<gateway, tables, hits, visit, now, announced>>

----------------------------------------------------------------------------
Init ==
  /\ Cal!Init
  /\ gateway = [l \in Lans |-> None]
  /\ attendance = [n \in Nonces \cup Photos |-> None]
  /\ photo = [p \in Photos |-> None]
  /\ hits = [u \in Users |-> <<>>]
  /\ visit = [q \in Visits |-> None]
  /\ now = 0
  /\ announced = [n \in Nonces \cup Photos |-> 0]

Next ==
  \/ Calendar
  \/ Tick
  \/ Restart
  \/ \E r \in Registrations : Register(r)
  \/ \E q \in Visits :
       \/ \E a \in Attestations : \/ \E u \in Users : BrowserVerify(q, u, a)
                                  \/ \E l \in Lans : KioskVerify(q, l, a)
       \/ \E u \in Users, s \in Submissions : Gps(q, u, s)
       \/ Parsed(q) \/ Verify(q) \/ Reused(q) \/ Match(q)
       \/ Record(q) \/ RecordGps(q) \/ Announce(q) \/ Fails(q)

Spec == Init /\ [][Next]_vars

----------------------------------------------------------------------------
(* Properties *)

Recorded(n) == attendance[n] # None

\* Whatever is sent twice, by whom, and whenever the process dies: at most
\* one webhook leaves for an attendance, and only once it is in the table.
AnnouncedOnce == \A n \in Nonces \cup Photos :
  announced[n] <= IF Recorded(n) THEN 1 ELSE 0

\* The booking is matched before the attendance is inserted, and may be
\* moved or cancelled in between: what the attendance names is still a
\* booking of the same user at the same place, unless it has ended.
ReservationOfTheUser == \A n \in Nonces \cup Photos :
  Recorded(n) /\ attendance[n].reservation # None =>
    LET h == calendar[attendance[n].reservation] IN
    h = Over \/ (h.owner = attendance[n].user /\ h.facility = attendance[n].facility)

\* Requests racing with the same photo, or with two photos of one moment:
\* every GPS attendance has its photo row, of the same user, every photo row
\* its attendance, and no user has two photos of one moment.
PhotosUsedOnce ==
  /\ \A p \in Photos :
       IF Recorded(p) THEN photo[p] # None /\ photo[p].user = attendance[p].user
                      ELSE photo[p] = None
  /\ \A p, r \in Photos : photo[p] # None /\ photo[p] = photo[r] => p = r

\* A gateway may be registered anew, with another key for another facility,
\* before, during and after a visit, and what it signed before is still on its
\* way: a visit records an attendance only for a facility in which its gateway
\* was registered while the visit was under way, with the very key that signed
\* for it.  An older key is not enough, nor a newer key for the old facility.
Inserts(q, n) == /\ visit[q] # None /\ visit'[q] # visit[q]
                 /\ ~Recorded(n) /\ attendance'[n] # None

SignedForItsFacility ==
  [][\A q \in Visits, n \in Nonces \cup Photos : Inserts(q, n) =>
       \E r \in visit[q].held :
         /\ r.lan = attendance'[n].lan /\ r.facility = attendance'[n].facility
         /\ r.key = Token(visit[q].asked).key]_vars
=============================================================================
