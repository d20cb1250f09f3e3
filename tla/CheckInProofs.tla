--------------------------- MODULE CheckInProofs ---------------------------
(***************************************************************************)
(* Attendance is signed for, matched and announced as it should be, for    *)
(* any number of users, gateways, attestations, photos and requests.       *)
(***************************************************************************)
EXTENDS CheckIn, TLAPS

Keys == Nonces \cup Photos

TypeOK ==
  /\ calendar \in [Bookings -> Cal!Holding \cup {Free, Over}]
  /\ gateway \in [Lans -> Registrations \cup {None}]
  /\ attendance \in [Keys -> AttendanceRow \cup {None}]
  /\ photo \in [Photos -> PhotoRows \cup {None}]
  /\ visit \in [Visits -> VisitState \cup {None}]
  /\ now \in Instants
  /\ announced \in [Keys -> Nat]

\* A form is a user's.
FormsOfUsers == \A q \in Visits :
  visit[q] # None /\ IsGps(visit[q]) => visit[q].by \in Users

\* What the registry holds was registered under its name.
GatewaysNamed == \A l \in Lans : gateway[l] # None => gateway[l].lan = l

\* What the gateway holds now, a visit that is under way has seen.
Witnessed(v) == LET row == gateway[Token(v.asked).lan] IN row # None => row \in v.held

VisitsWitness == \A q \in Visits : visit[q] # None => Witnessed(visit[q])

\* While the visit was under way its gateway held the key that signed for it,
\* and stood in the facility.
SignedClaim(v) == \E r \in v.held :
  r.lan = Claim(v).lan /\ r.facility = Claim(v).facility /\ r.key = Token(v.asked).key

Verified(v) == v.stage \in {"reuse", "match", "record", "announce"}

VisitsSigned == \A q \in Visits :
  visit[q] # None /\ Verified(visit[q]) => SignedClaim(visit[q])

\* A booking of the user in the facility that was made, and may have ended.
BookingOf(b, u, f) ==
  /\ calendar[b] # Free
  /\ calendar[b] = Over \/ (calendar[b].owner = u /\ calendar[b].facility = f)

VisitsMatched == \A q \in Visits :
  visit[q] # None /\ visit[q].match # None =>
    BookingOf(visit[q].match, Claim(visit[q]).user, Claim(visit[q]).facility)

RowsMatched == \A n \in Keys :
  Recorded(n) /\ attendance[n].reservation # None =>
    BookingOf(attendance[n].reservation, attendance[n].user, attendance[n].facility)

Announces(q, n) == At(q, "announce") /\ Claim(visit[q]).nonce = n

\* The webhook of a row is sent or somebody is about to send it, never both
\* and never two.
OneAnnouncer == \A q \in Visits, n \in Keys : Announces(q, n) =>
  /\ Recorded(n) /\ announced[n] = 0
  /\ \A other \in Visits : Announces(other, n) => other = q

CheckInInvariant ==
  /\ TypeOK /\ FormsOfUsers
  /\ GatewaysNamed /\ VisitsWitness /\ VisitsSigned
  /\ VisitsMatched /\ RowsMatched
  /\ OneAnnouncer /\ AnnouncedOnce
  /\ PhotosUsedOnce

USE CheckInAssumption

----------------------------------------------------------------------------
(* What a visit is about *)

LEMMA FormsAndAttestations == Attestations \cap Submissions = {}
<1> SUFFICES ASSUME NEW a \in Attestations, a \in Submissions
             PROVE  FALSE
  OBVIOUS
<1>1. a \in Attestation /\ a \in Submission
  OBVIOUS
<1>2. DOMAIN a = {"sub", "place", "lan", "key", "nonce", "issuedAt", "purpose",
                  "method", "assurance"}
  BY <1>1 DEF Attestation
<1>3. DOMAIN a = {"statement", "accuracy", "distance", "positionAt", "photo",
                  "takenAt", "exifDistance"}
  BY <1>1 DEF Submission
<1> QED
  BY <1>2, <1>3

LEMMA ClaimTyped ==
  ASSUME NEW v \in VisitState, IsGps(v) => v.by \in Users
  PROVE  /\ Claim(v).user \in Users /\ Claim(v).lan \in Lans
         /\ Claim(v).facility \in Facilities /\ Claim(v).at \in Instants
         /\ IsGps(v) => /\ v.asked \in Submissions /\ Claim(v).user = v.by
                        /\ Claim(v).nonce = v.asked.photo /\ v.asked.photo \in Photos
         /\ ~IsGps(v) => /\ v.asked \in Attestations
                         /\ Claim(v).nonce = v.asked.nonce /\ v.asked.nonce \in Nonces
<1>1. CASE IsGps(v)
  BY <1>1 DEF Claim, IsGps, VisitState, Submission, Statement
<1>2. CASE ~IsGps(v)
  BY <1>2 DEF Claim, IsGps, VisitState, Attestation
<1> QED
  BY <1>1, <1>2

LEMMA TokenNamed ==
  ASSUME NEW v
  PROVE  Token(v.asked).lan = Claim(v).lan
BY DEF Token, Claim, IsGps

\* The row that is written for a visit.
LEMMA RowTyped ==
  ASSUME NEW v \in VisitState, IsGps(v) => v.by \in Users
  PROVE  /\ Row(v) \in AttendanceRow
         /\ Row(v).user = Claim(v).user /\ Row(v).facility = Claim(v).facility
         /\ Row(v).lan = Claim(v).lan /\ Row(v).reservation = v.match
<1>1. v.match \in Bookings \cup {None}
  BY DEF VisitState
<1>2. ~IsGps(v) => /\ v.asked.method \in {"passkey", "face", "staff_override"}
                   /\ v.asked.assurance \in DOMAIN ASSURANCE_RANK
  <2>1. ~IsGps(v) => v.asked \in Attestation
    BY ClaimTyped
  <2> QED
    BY <2>1 DEF Attestation
<1>3. /\ Claim(v).user \in Users /\ Claim(v).lan \in Lans
      /\ Claim(v).facility \in Facilities /\ Claim(v).at \in Instants
  BY ClaimTyped
<1> DEFINE method == IF IsGps(v) THEN "gps" ELSE v.asked.method
           assurance == IF IsGps(v) THEN "low" ELSE v.asked.assurance
<1>4. /\ method \in {"gps", "passkey", "face", "staff_override"}
      /\ assurance \in DOMAIN ASSURANCE_RANK
  <2>1. "low" \in DOMAIN ASSURANCE_RANK
    BY DEF ASSURANCE_RANK
  <2> QED
    BY <1>2, <2>1
<1>5. Row(v) = [user |-> Claim(v).user, facility |-> Claim(v).facility,
                lan |-> Claim(v).lan, at |-> Claim(v).at, reservation |-> v.match,
                method |-> method, assurance |-> assurance]
  BY DEF Row
<1> HIDE DEF method, assurance
<1> QED
  BY <1>1, <1>3, <1>4, <1>5 DEF AttendanceRow

----------------------------------------------------------------------------
(* The calendar under the visits *)

\* A booking that was made keeps its owner and its facility until it is over.
LEMMA CalendarKeeps ==
  ASSUME TypeOK, Calendar
  PROVE  /\ calendar' \in [Bookings -> Cal!Holding \cup {Free, Over}]
         /\ \A b \in Bookings : \A u, f : BookingOf(b, u, f) =>
              /\ calendar'[b] # Free
              /\ calendar'[b] = Over \/ (calendar'[b].owner = u /\ calendar'[b].facility = f)
<1>1. PICK b \in Bookings :
        \/ \E h \in Cal!Holding : Cal!Book(b, h)
        \/ \E s, e \in Instants : Cal!Move(b, s, e)
        \/ Cal!End(b)
  BY DEF Calendar
<1>2. CASE \E h \in Cal!Holding : Cal!Book(b, h)
  BY <1>2, FreeAssumption DEF TypeOK, Cal!Book, BookingOf
<1>3. CASE Cal!End(b)
  BY <1>3, FreeAssumption DEF TypeOK, Cal!End, BookingOf
<1>4. CASE \E s, e \in Instants : Cal!Move(b, s, e)
  <2>1. PICK s, e \in Instants : Cal!Move(b, s, e)
    BY <1>4
  <2> DEFINE h == [calendar[b] EXCEPT !.start = s, !.end = e]
  <2>2. calendar[b] \in Cal!Holding
    BY <2>1 DEF TypeOK, Cal!Move, Cal!Held
  <2>3. /\ h \in Cal!Holding
        /\ h.owner = calendar[b].owner /\ h.facility = calendar[b].facility
    BY <2>2 DEF Cal!Holding
  <2>4. calendar' = [calendar EXCEPT ![b] = h]
    BY <2>1 DEF Cal!Move
  <2>5. calendar[b] # Over
    BY <2>1 DEF Cal!Move, Cal!Held
  <2> HIDE DEF h
  <2> QED
    BY <2>2, <2>3, <2>4, <2>5, FreeAssumption DEF TypeOK, BookingOf
<1> QED
  BY <1>1, <1>2, <1>3, <1>4

\* The booking that is found is one of the user there.
LEMMA CoveringIsOfTheUser ==
  ASSUME NEW c, NEW b \in Covering(c)
  PROVE  b \in Bookings /\ BookingOf(b, c.user, c.facility)
BY DEF Covering, Cal!Held, BookingOf

----------------------------------------------------------------------------
(* The inductive invariant *)

LEMMA InitInvariant == Init => CheckInInvariant
<1> SUFFICES ASSUME Init
             PROVE  CheckInInvariant
  OBVIOUS
<1>1. TypeOK
  BY DEF Init, Cal!Init, TypeOK, Instants, Keys
<1>2. FormsOfUsers /\ GatewaysNamed /\ VisitsWitness /\ VisitsSigned /\ VisitsMatched
  BY DEF Init, FormsOfUsers, GatewaysNamed, VisitsWitness, VisitsSigned, VisitsMatched
<1>3. RowsMatched /\ OneAnnouncer
  BY DEF Init, RowsMatched, Recorded, OneAnnouncer, Announces, At, Keys
<1>4. AnnouncedOnce /\ PhotosUsedOnce
  BY DEF Init, AnnouncedOnce, PhotosUsedOnce, Recorded
<1> QED
  BY <1>1, <1>2, <1>3, <1>4 DEF CheckInInvariant

\* One visit goes on, or ends, and announces nothing yet.
LEMMA VisitChanges ==
  ASSUME CheckInInvariant, NEW q \in Visits, NEW x \in VisitState \cup {None},
         visit' = [visit EXCEPT ![q] = x],
         x # None => /\ x.stage # "announce"
                     /\ IsGps(x) => x.by \in Users
                     /\ Witnessed(x)
                     /\ Verified(x) => SignedClaim(x)
                     /\ x.match # None =>
                          BookingOf(x.match, Claim(x).user, Claim(x).facility),
         UNCHANGED <<cal, gateway, tables, now, announced>>
  PROVE  CheckInInvariant'
<1> USE DEF CheckInInvariant, cal, tables
<1>1. /\ visit' \in [Visits -> VisitState \cup {None}]
      /\ visit'[q] = x /\ \A other \in Visits : other # q => visit'[other] = visit[other]
  BY DEF TypeOK
<1>2. TypeOK'
  BY <1>1 DEF TypeOK
<1>3. FormsOfUsers'
  BY <1>1 DEF FormsOfUsers
<1>4. VisitsSigned' /\ VisitsWitness'
  BY <1>1 DEF VisitsSigned, SignedClaim, VisitsWitness, Witnessed
<1>5. VisitsMatched'
  BY <1>1 DEF VisitsMatched, BookingOf
<1>6. RowsMatched'
  BY DEF RowsMatched, BookingOf, Recorded
<1>7. OneAnnouncer'
  <2>1. ASSUME NEW r \in Visits, NEW n \in Keys, Announces(r, n)'
        PROVE  r # q /\ Announces(r, n)
    BY <1>1, <2>1 DEF Announces, At
  <2> QED
    BY <2>1 DEF OneAnnouncer, Recorded
<1>8. GatewaysNamed' /\ AnnouncedOnce' /\ PhotosUsedOnce'
  BY DEF GatewaysNamed, AnnouncedOnce, PhotosUsedOnce, Recorded
<1> QED
  BY <1>2, <1>3, <1>4, <1>5, <1>6, <1>7, <1>8

\* A visit that goes on is about the same attendance.
LEMMA SameClaim ==
  ASSUME NEW v \in VisitState, NEW x \in VisitState,
         x.by = v.by, x.asked = v.asked, x.held = v.held
  PROVE  /\ Claim(x).user = Claim(v).user /\ Claim(x).facility = Claim(v).facility
         /\ Claim(x).nonce = Claim(v).nonce
         /\ IsGps(x) = IsGps(v) /\ SignedClaim(x) = SignedClaim(v)
         /\ Witnessed(x) = Witnessed(v)
<1> USE DEF Witnessed
<1>1. CASE IsGps(v)
  BY <1>1 DEF Claim, IsGps, SignedClaim, Token
<1>2. CASE ~IsGps(v)
  BY <1>2 DEF Claim, IsGps, SignedClaim, Token
<1> QED
  BY <1>1, <1>2

\* A visit changes its stage, its time or its booking.
LEMMA VisitMoves ==
  ASSUME CheckInInvariant, NEW q \in Visits, visit[q] # None,
         NEW x \in VisitState,
         x.by = visit[q].by, x.asked = visit[q].asked, x.held = visit[q].held,
         visit' = [visit EXCEPT ![q] = x],
         x.stage # "announce",
         Verified(x) => Verified(visit[q]) \/ SignedClaim(visit[q]),
         \/ x.match = visit[q].match
         \/ x.match = None
         \/ BookingOf(x.match, Claim(visit[q]).user, Claim(visit[q]).facility),
         UNCHANGED <<cal, gateway, tables, now, announced>>
  PROVE  CheckInInvariant'
<1> DEFINE v == visit[q]
<1>1. v \in VisitState
  BY DEF CheckInInvariant, TypeOK
<1>2. /\ Claim(x).user = Claim(v).user /\ Claim(x).facility = Claim(v).facility
      /\ IsGps(x) = IsGps(v) /\ SignedClaim(x) = SignedClaim(v)
      /\ Witnessed(x)
  BY <1>1, SameClaim DEF CheckInInvariant, VisitsWitness
<1>3. IsGps(x) => x.by \in Users
  BY <1>2 DEF CheckInInvariant, FormsOfUsers
<1>4. Verified(x) => SignedClaim(x)
  BY <1>2 DEF CheckInInvariant, VisitsSigned
<1>5. x.match # None => BookingOf(x.match, Claim(x).user, Claim(x).facility)
  BY <1>2 DEF CheckInInvariant, VisitsMatched
<1> HIDE DEF v
<1> QED
  BY <1>2, <1>3, <1>4, <1>5, VisitChanges

LEMMA NewVisit ==
  ASSUME CheckInInvariant, NEW q \in Visits, NEW by \in Users \cup Lans,
         NEW asked \in Attestations \cup Submissions,
         asked \in Submissions => by \in Users,
         NEW stage \in {"parse", "gateway"},
         visit' = [visit EXCEPT ![q] = Visit(by, asked, stage)],
         UNCHANGED <<cal, gateway, tables, now, announced>>
  PROVE  CheckInInvariant'
<1> DEFINE x == Visit(by, asked, stage)
<1>1. x \in VisitState
  <2>1. gateway[Token(asked).lan] \in Registrations \cup {None}
    <3>1. Token(asked).lan \in Lans
      BY DEF Token, Submission, Statement, Attestation
    <3> QED
      BY <3>1 DEF CheckInInvariant, TypeOK
  <2>2. {gateway[Token(asked).lan]} \ {None} \in SUBSET Registrations
    BY <2>1
  <2> QED
    BY <2>2 DEF Visit, VisitState, CheckInInvariant, TypeOK
<1>2. /\ x.stage # "announce" /\ ~Verified(x) /\ x.match = None
      /\ IsGps(x) => x.by \in Users
      /\ Witnessed(x)
  BY DEF Visit, Verified, IsGps, Witnessed
<1> HIDE DEF x
<1> QED
  BY <1>1, <1>2, VisitChanges DEF x

LEMMA VisitsBegin ==
  ASSUME CheckInInvariant, NEW q \in Visits,
         \/ \E a \in Attestations : \/ \E u \in Users : BrowserVerify(q, u, a)
                                    \/ \E l \in Lans : KioskVerify(q, l, a)
         \/ \E u \in Users, s \in Submissions : Gps(q, u, s)
  PROVE  CheckInInvariant'
<1>1. ASSUME NEW a \in Attestations, NEW u \in Users, BrowserVerify(q, u, a)
      PROVE  CheckInInvariant'
  BY <1>1, NewVisit, FormsAndAttestations DEF BrowserVerify
<1>2. ASSUME NEW a \in Attestations, NEW l \in Lans, KioskVerify(q, l, a)
      PROVE  CheckInInvariant'
  BY <1>2, NewVisit, FormsAndAttestations DEF KioskVerify
<1>3. ASSUME NEW u \in Users, NEW s \in Submissions, Gps(q, u, s)
      PROVE  CheckInInvariant'
  <2>1. CASE TryConsume(u)
    BY <1>3, <2>1, NewVisit DEF Gps
  <2>2. CASE ~TryConsume(u)
    BY <1>3, <2>2 DEF Gps, CheckInInvariant, TypeOK, FormsOfUsers, GatewaysNamed,
       VisitsWitness, Witnessed,
       VisitsSigned, SignedClaim, VisitsMatched, RowsMatched, BookingOf, OneAnnouncer,
       Announces, At, AnnouncedOnce, PhotosUsedOnce, Recorded,
       cal, tables
  <2> QED
    BY <2>1, <2>2
<1> QED
  BY <1>1, <1>2, <1>3

LEMMA VisitEnds ==
  ASSUME CheckInInvariant, NEW q \in Visits, Ends(q),
         UNCHANGED <<cal, gateway, tables, now, announced>>
  PROVE  CheckInInvariant'
BY VisitChanges DEF Ends

\* A stage that asks for no more than the one before.
LEMMA VisitGoes ==
  ASSUME CheckInInvariant, NEW q \in Visits, visit[q] # None,
         NEW stage \in {"gateway", "reuse", "match", "record"},
         Goes(q, stage), Verified(visit[q]) \/ SignedClaim(visit[q]),
         UNCHANGED <<cal, gateway, tables, now, announced>>
  PROVE  CheckInInvariant'
<1> DEFINE x == [visit[q] EXCEPT !.stage = stage]
<1>1. visit[q] \in VisitState
  BY DEF CheckInInvariant, TypeOK
<1>2. /\ x \in VisitState /\ x.by = visit[q].by /\ x.asked = visit[q].asked /\ x.held = visit[q].held
      /\ x.match = visit[q].match /\ x.stage = stage
  BY <1>1 DEF VisitState
<1>3. visit' = [visit EXCEPT ![q] = x]
  BY DEF Goes
<1> HIDE DEF x
<1> QED
  BY <1>2, <1>3, VisitMoves

LEMMA ParsedStep ==
  ASSUME CheckInInvariant, NEW q \in Visits, Parsed(q)
  PROVE  CheckInInvariant'
<1> DEFINE x == [visit[q] EXCEPT !.stage = "gateway", !.at = now]
<1>1. visit[q] # None /\ visit[q] \in VisitState /\ now \in Instants
  BY DEF CheckInInvariant, TypeOK, Parsed, At
<1>2. /\ x \in VisitState /\ x.by = visit[q].by /\ x.asked = visit[q].asked /\ x.held = visit[q].held
      /\ x.match = visit[q].match /\ x.stage = "gateway"
  BY <1>1 DEF VisitState
<1>3. visit' = [visit EXCEPT ![q] = x]
  BY DEF Parsed
<1> HIDE DEF x
<1> QED
  BY <1>1, <1>2, <1>3, VisitMoves DEF Verified, Parsed

\* The row that the checks were made against vouches for the claim.
LEMMA VerifyStep ==
  ASSUME CheckInInvariant, NEW q \in Visits, Verify(q)
  PROVE  CheckInInvariant'
<1> DEFINE v == visit[q]
           row == gateway[Claim(v).lan]
<1>1. v # None /\ v \in VisitState /\ (IsGps(v) => v.by \in Users)
  BY DEF CheckInInvariant, TypeOK, Verify, At, FormsOfUsers
<1>2. row # None => row \in v.held /\ row.lan = Claim(v).lan
  BY <1>1, ClaimTyped, TokenNamed DEF CheckInInvariant, GatewaysNamed, VisitsWitness, Witnessed
<1>3. CASE Ends(q)
  BY <1>3, VisitEnds DEF Verify
<1>4. CASE IsGps(v) /\ Locates(v, row) /\ Goes(q, "reuse")
  <2>1. SignedClaim(v)
    BY <1>1, <1>2, <1>4 DEF Locates, Signed, SignedClaim, Claim, Token, IsGps
  <2> QED
    BY <1>1, <1>4, <2>1, VisitGoes DEF Verify
<1>5. CASE ~IsGps(v) /\ Attests(v, row) /\ Goes(q, "match")
  <2>1. SignedClaim(v)
    BY <1>1, <1>2, <1>5 DEF Attests, Signed, SignedClaim, Claim, Token, IsGps
  <2> QED
    BY <1>1, <1>5, <2>1, VisitGoes DEF Verify
<1> QED
  BY <1>3, <1>4, <1>5 DEF Verify

LEMMA ReusedStep ==
  ASSUME CheckInInvariant, NEW q \in Visits, Reused(q)
  PROVE  CheckInInvariant'
BY VisitEnds, VisitGoes DEF Reused, At, Verified

LEMMA MatchStep ==
  ASSUME CheckInInvariant, NEW q \in Visits, Match(q)
  PROVE  CheckInInvariant'
<1> DEFINE v == visit[q]
           found == Covering(Claim(v))
<1>1. v # None /\ v \in VisitState /\ v.stage = "match"
  BY DEF CheckInInvariant, TypeOK, Match, At
<1>2. PICK b \in IF found = {} THEN {None} ELSE found :
        visit' = [visit EXCEPT ![q].match = b, ![q].stage = "record"]
  BY DEF Match
<1> DEFINE x == [v EXCEPT !.match = b, !.stage = "record"]
<1>3. b = None \/ (b \in Bookings /\ BookingOf(b, Claim(v).user, Claim(v).facility))
  BY CoveringIsOfTheUser
<1>4. /\ x \in VisitState /\ x.by = v.by /\ x.asked = v.asked /\ x.held = v.held
      /\ x.match = b /\ x.stage = "record"
  BY <1>1, <1>3 DEF VisitState
<1>5. visit' = [visit EXCEPT ![q] = x]
  BY <1>2
<1> HIDE DEF x
<1> QED
  BY <1>1, <1>3, <1>4, <1>5, VisitMoves DEF Verified, Match

----------------------------------------------------------------------------
(* Rows and webhooks *)

\* The row of a verified visit is inserted, and its webhook is to be sent.
LEMMA RowInserted ==
  ASSUME CheckInInvariant, NEW q \in Visits, At(q, "record"),
         attendance[Claim(visit[q]).nonce] = None,
         attendance' = [attendance EXCEPT ![Claim(visit[q]).nonce] = Row(visit[q])],
         photo' \in [Photos -> PhotoRows \cup {None}], PhotosUsedOnce',
         Goes(q, "announce"),
         UNCHANGED <<cal, gateway, now, announced>>
  PROVE  CheckInInvariant'
<1> DEFINE v == visit[q]
           n == Claim(v).nonce
           x == [v EXCEPT !.stage = "announce"]
<1> USE DEF CheckInInvariant, cal
<1>1. /\ v # None /\ v \in VisitState /\ v.stage = "record"
      /\ IsGps(v) => v.by \in Users
  BY DEF TypeOK, At, FormsOfUsers
<1>2. n \in Keys
  BY <1>1, ClaimTyped DEF Keys
<1>3. /\ x \in VisitState /\ x.by = v.by /\ x.asked = v.asked /\ x.held = v.held
      /\ x.match = v.match /\ x.stage = "announce"
  BY <1>1 DEF VisitState
<1>4. visit' = [visit EXCEPT ![q] = x]
  BY DEF Goes
<1> HIDE DEF x
<1>5. /\ visit' \in [Visits -> VisitState \cup {None}]
      /\ visit'[q] = x /\ \A other \in Visits : other # q => visit'[other] = visit[other]
  BY <1>3, <1>4 DEF TypeOK
<1>6. /\ Claim(x).user = Claim(v).user /\ Claim(x).facility = Claim(v).facility
      /\ Claim(x).nonce = n /\ IsGps(x) = IsGps(v) /\ SignedClaim(x) = SignedClaim(v)
  BY <1>1, <1>3, SameClaim
<1>7. /\ Row(v) \in AttendanceRow /\ Row(v) # None
      /\ Row(v).user = Claim(v).user /\ Row(v).facility = Claim(v).facility
      /\ Row(v).lan = Claim(v).lan /\ Row(v).reservation = v.match
  BY <1>1, RowTyped, NoneAssumption
<1>8. attendance' = [attendance EXCEPT ![n] = Row(v)] /\ attendance[n] = None
  OBVIOUS
<1> HIDE DEF v, n
<1>9. /\ attendance' \in [Keys -> AttendanceRow \cup {None}]
      /\ attendance'[n] = Row(v)
      /\ \A m \in Keys : m # n => attendance'[m] = attendance[m]
  BY <1>2, <1>7, <1>8 DEF TypeOK
<1>10. TypeOK'
  BY <1>5, <1>9 DEF TypeOK
<1>11. FormsOfUsers'
  BY <1>1, <1>3, <1>5, <1>6 DEF FormsOfUsers
<1>12. SignedClaim(v)
  BY <1>1 DEF VisitsSigned, Verified, v
<1>13. VisitsSigned'
  BY <1>5, <1>6, <1>12 DEF VisitsSigned, SignedClaim
<1>14. v.match # None => BookingOf(v.match, Claim(v).user, Claim(v).facility)
  BY <1>1 DEF VisitsMatched, v
<1>15. VisitsMatched'
  BY <1>3, <1>5, <1>6, <1>14 DEF VisitsMatched, BookingOf
<1>16. RowsMatched'
  BY <1>7, <1>9, <1>14 DEF RowsMatched, Recorded, BookingOf
<1>17. announced[n] = 0 /\ \A r \in Visits : ~Announces(r, n)
  BY <1>2, <1>8 DEF AnnouncedOnce, OneAnnouncer, Recorded, TypeOK, Keys
<1>18. OneAnnouncer'
  <2>1. ASSUME NEW r \in Visits, r # q, NEW m \in Keys
        PROVE  Announces(r, m)' = Announces(r, m)
    BY <1>5, <2>1 DEF Announces, At
  <2>2. ASSUME NEW m \in Keys, Announces(q, m)'
        PROVE  m = n
    BY <1>5, <1>6, <2>2 DEF Announces, At
  <2> SUFFICES ASSUME NEW r \in Visits, NEW m \in Keys, Announces(r, m)'
               PROVE  /\ Recorded(m)' /\ announced'[m] = 0
                      /\ \A other \in Visits : Announces(other, m)' => other = r
    BY DEF OneAnnouncer
  <2>3. CASE r = q
    BY <1>7, <1>9, <1>17, <2>1, <2>2, <2>3 DEF Recorded
  <2>4. CASE r # q
    <3>1. m # n
      BY <1>17, <2>1, <2>4
    <3> QED
      BY <1>9, <2>1, <2>2, <2>4, <3>1 DEF Recorded, OneAnnouncer
  <2> QED
    BY <2>3, <2>4
<1>19. AnnouncedOnce'
  BY <1>7, <1>9, <1>17 DEF AnnouncedOnce, Recorded, Keys, TypeOK
<1>20. GatewaysNamed' /\ VisitsWitness'
  <2>1. Witnessed(x)
    BY <1>1, <1>3 DEF VisitsWitness, Witnessed, v
  <2> QED
    BY <1>5, <2>1 DEF GatewaysNamed, VisitsWitness, Witnessed
<1> QED
  BY <1>10, <1>11, <1>13, <1>15, <1>16, <1>18, <1>19, <1>20

LEMMA RecordStep ==
  ASSUME CheckInInvariant, NEW q \in Visits, Record(q)
  PROVE  CheckInInvariant'
<1> DEFINE v == visit[q]
           n == Claim(v).nonce
<1>1. v # None /\ v \in VisitState /\ ~IsGps(v)
  BY DEF CheckInInvariant, TypeOK, Record, At
<1>2. n \in Nonces
  BY <1>1, ClaimTyped
<1>3. CASE attendance[n] = None
  <2>1. /\ attendance' = [attendance EXCEPT ![n] = Row(v)] /\ Goes(q, "announce")
        /\ UNCHANGED <<cal, gateway, photo, now, announced>>
    BY <1>3 DEF Record, Records
  <2>2. PhotosUsedOnce'
    <3>1. \A p \in Photos : attendance'[p] = attendance[p]
      BY <1>2, <2>1 DEF CheckInInvariant, TypeOK, Keys
    <3> QED
      BY <2>1, <3>1 DEF CheckInInvariant, PhotosUsedOnce, Recorded
  <2>3. photo' \in [Photos -> PhotoRows \cup {None}]
    BY <2>1 DEF CheckInInvariant, TypeOK
  <2> QED
    BY <1>3, <2>1, <2>2, <2>3, RowInserted DEF Record
<1>4. CASE attendance[n] # None
  BY <1>4, VisitEnds DEF Record, Records, tables
<1> QED
  BY <1>3, <1>4

LEMMA RecordGpsStep ==
  ASSUME CheckInInvariant, NEW q \in Visits, RecordGps(q)
  PROVE  CheckInInvariant'
<1> DEFINE v == visit[q]
           p == v.asked.photo
<1>1. v # None /\ v \in VisitState /\ IsGps(v) /\ v.by \in Users
  BY DEF CheckInInvariant, TypeOK, RecordGps, At, FormsOfUsers
<1>2. p \in Photos /\ Claim(v).nonce = p /\ Claim(v).user = v.by
      /\ v.asked \in Submissions
  BY <1>1, ClaimTyped
<1>3. CASE attendance[p] = None /\ ~PhotoUsed(v)
  <2>1. /\ attendance' = [attendance EXCEPT ![p] = Row(v)]
        /\ photo' = [photo EXCEPT ![p] = PhotoRow(v)]
        /\ Goes(q, "announce")
        /\ UNCHANGED <<cal, gateway, now, announced>>
    BY <1>3 DEF RecordGps, RecordsPhoto
  <2>2. /\ PhotoRow(v) \in PhotoRows /\ PhotoRow(v) # None
        /\ PhotoRow(v).user = v.by
    BY <1>1, <1>2, NoneAssumption DEF PhotoRow, PhotoRows, Submission
  <2>3. Row(v) # None /\ Row(v).user = v.by
    BY <1>1, <1>2, RowTyped, NoneAssumption
  <2> HIDE DEF v, p
  <2>4. /\ photo' \in [Photos -> PhotoRows \cup {None}]
        /\ photo'[p] = PhotoRow(v)
        /\ \A r \in Photos : r # p => photo'[r] = photo[r]
    BY <1>2, <2>1, <2>2 DEF CheckInInvariant, TypeOK
  <2>5. /\ attendance'[p] = Row(v)
        /\ \A r \in Photos : r # p => attendance'[r] = attendance[r]
    BY <1>2, <2>1 DEF CheckInInvariant, TypeOK, Keys
  <2>6. \A r \in Photos : photo[r] # None => r # p /\ photo[r] # PhotoRow(v)
    BY <1>3, <1>2 DEF PhotoUsed, p
  <2>7. PhotosUsedOnce'
    <3>1. \A r \in Photos :
            IF Recorded(r)' THEN photo'[r] # None /\ photo'[r].user = attendance'[r].user
                            ELSE photo'[r] = None
      BY <2>2, <2>3, <2>4, <2>5 DEF CheckInInvariant, PhotosUsedOnce, Recorded
    <3>2. \A r, s \in Photos : photo'[r] # None /\ photo'[r] = photo'[s] => r = s
      BY <2>4, <2>6 DEF CheckInInvariant, PhotosUsedOnce
    <3> QED
      BY <3>1, <3>2 DEF PhotosUsedOnce
  <2> QED
    BY <1>2, <1>3, <2>1, <2>4, <2>7, RowInserted DEF RecordGps, v, p
<1>4. CASE ~(attendance[p] = None /\ ~PhotoUsed(v))
  BY <1>4, VisitEnds DEF RecordGps, RecordsPhoto, tables
<1> QED
  BY <1>3, <1>4

LEMMA AnnounceStep ==
  ASSUME CheckInInvariant, NEW q \in Visits, Announce(q)
  PROVE  CheckInInvariant'
<1> DEFINE n == Claim(visit[q]).nonce
<1> USE DEF CheckInInvariant, cal, tables
<1>1. /\ visit[q] # None /\ visit[q] \in VisitState
      /\ IsGps(visit[q]) => visit[q].by \in Users
  BY DEF TypeOK, Announce, At, FormsOfUsers
<1>2. n \in Keys /\ Announces(q, n)
  BY <1>1, ClaimTyped DEF Keys, Announce, Announces
<1>3. announced' = [announced EXCEPT ![n] = @ + 1]
  BY DEF Announce
<1> HIDE DEF n
<1>4. /\ visit' \in [Visits -> VisitState \cup {None}]
      /\ visit'[q] = None /\ \A other \in Visits : other # q => visit'[other] = visit[other]
  BY DEF Announce, Ends, TypeOK
<1>5. /\ Recorded(n) /\ announced[n] = 0
      /\ \A other \in Visits : Announces(other, n) => other = q
  BY <1>2 DEF OneAnnouncer
<1>6. /\ announced' \in [Keys -> Nat]
      /\ announced'[n] = 1 /\ \A m \in Keys : m # n => announced'[m] = announced[m]
  BY <1>2, <1>3, <1>5 DEF TypeOK
<1>7. TypeOK'
  BY <1>4, <1>6 DEF TypeOK, Announce
<1>8. FormsOfUsers'
  BY <1>4 DEF FormsOfUsers
<1>9. VisitsSigned' /\ VisitsMatched' /\ VisitsWitness'
  BY <1>4 DEF VisitsSigned, SignedClaim, VisitsMatched, BookingOf, Announce,
              VisitsWitness, Witnessed
<1>10. OneAnnouncer'
  <2> SUFFICES ASSUME NEW r \in Visits, NEW m \in Keys, Announces(r, m)'
               PROVE  /\ Recorded(m)' /\ announced'[m] = 0
                      /\ \A other \in Visits : Announces(other, m)' => other = r
    BY DEF OneAnnouncer
  <2>1. r # q /\ Announces(r, m)
    BY <1>4 DEF Announces, At
  <2>2. m # n
    BY <1>5, <2>1
  <2>3. \A other \in Visits : Announces(other, m)' => Announces(other, m)
    BY <1>4 DEF Announces, At
  <2> QED
    BY <1>6, <2>1, <2>2, <2>3 DEF OneAnnouncer, Recorded, Announce
<1>11. AnnouncedOnce'
  BY <1>5, <1>6 DEF AnnouncedOnce, Recorded, Keys, Announce
<1>12. RowsMatched' /\ GatewaysNamed' /\ PhotosUsedOnce'
  BY DEF RowsMatched, BookingOf, GatewaysNamed, PhotosUsedOnce,
         Recorded, Announce
<1> QED
  BY <1>7, <1>8, <1>9, <1>10, <1>11, <1>12

----------------------------------------------------------------------------
(* The world around the visits *)

LEMMA RegisterStep ==
  ASSUME CheckInInvariant, NEW r \in Registrations, Register(r)
  PROVE  CheckInInvariant'
<1> USE DEF CheckInInvariant, Register, cal, tables
<1>1. /\ gateway' \in [Lans -> Registrations \cup {None}] /\ gateway'[r.lan] = r
      /\ \A l \in Lans : l # r.lan => gateway'[l] = gateway[l]
  BY DEF TypeOK, Upserted
<1>2. ASSUME NEW q \in Visits
      PROVE  /\ visit'[q] \in VisitState \cup {None}
             /\ visit[q] = None => visit'[q] = None
             /\ visit[q] # None =>
                  /\ visit[q] \in VisitState /\ visit'[q] \in VisitState
                  /\ visit'[q].by = visit[q].by /\ visit'[q].asked = visit[q].asked
                  /\ visit'[q].at = visit[q].at /\ visit'[q].match = visit[q].match
                  /\ visit'[q].stage = visit[q].stage
                  /\ visit[q].held \subseteq visit'[q].held
                  /\ Token(visit[q].asked).lan = r.lan => r \in visit'[q].held
  <2>1. visit[q] \in VisitState \cup {None} /\ visit'[q] = Witness(visit[q], r)
    BY DEF TypeOK
  <2>2. CASE visit[q] = None
    BY <2>1, <2>2 DEF Witness
  <2>3. CASE visit[q] # None
    BY <2>1, <2>3 DEF Witness, VisitState
  <2> QED
    BY <2>2, <2>3
<1>3. \A q \in Visits : visit'[q] # None => visit[q] # None
  BY <1>2
<1>4. ASSUME NEW q \in Visits, visit[q] # None
      PROVE  /\ Claim(visit'[q]).user = Claim(visit[q]).user
             /\ Claim(visit'[q]).facility = Claim(visit[q]).facility
             /\ Claim(visit'[q]).lan = Claim(visit[q]).lan
             /\ Claim(visit'[q]).nonce = Claim(visit[q]).nonce
             /\ IsGps(visit'[q]) = IsGps(visit[q])
  BY <1>2, <1>4 DEF Claim, IsGps
<1>5. TypeOK'
  <2>1. visit' \in [Visits -> VisitState \cup {None}]
    BY <1>2
  <2> QED
    BY <1>1, <2>1 DEF TypeOK
<1>6. GatewaysNamed'
  BY <1>1 DEF GatewaysNamed
<1>7. VisitsWitness'
  <2> SUFFICES ASSUME NEW q \in Visits, visit'[q] # None,
                      gateway'[Token(visit'[q].asked).lan] # None
               PROVE  gateway'[Token(visit'[q].asked).lan] \in visit'[q].held
    BY DEF VisitsWitness, Witnessed
  <2>1. /\ visit[q] # None /\ visit[q] \in VisitState
        /\ visit'[q].asked = visit[q].asked
    BY <1>2, <1>3
  <2>2. /\ Claim(visit[q]).lan \in Lans
        /\ Token(visit[q].asked).lan = Claim(visit[q]).lan
    BY <2>1, ClaimTyped, TokenNamed DEF FormsOfUsers
  <2>3. PICK l \in Lans : l = Token(visit[q].asked).lan
    BY <2>2
  <2>4. CASE l = r.lan
    <3>1. r \in visit'[q].held
      BY <1>2, <2>1, <2>3, <2>4
    <3> QED
      BY <1>1, <2>1, <2>3, <2>4, <3>1
  <2>5. CASE l # r.lan
    <3>1. gateway[l] # None => gateway[l] \in visit[q].held
      BY <2>1, <2>3 DEF VisitsWitness, Witnessed
    <3> QED
      BY <1>1, <1>2, <2>1, <2>3, <2>5, <3>1
  <2> QED
    BY <2>4, <2>5
<1>8. VisitsSigned'
  <2> SUFFICES ASSUME NEW q \in Visits, visit'[q] # None, Verified(visit'[q])
               PROVE  SignedClaim(visit'[q])
    BY DEF VisitsSigned, SignedClaim
  <2>1. visit[q] # None /\ Verified(visit[q])
    BY <1>2 DEF Verified
  <2>2. SignedClaim(visit[q])
    BY <2>1 DEF VisitsSigned
  <2> QED
    BY <1>2, <1>4, <2>1, <2>2 DEF SignedClaim
<1>9. FormsOfUsers' /\ VisitsMatched'
  <2>1. FormsOfUsers'
    BY <1>2, <1>3, <1>4 DEF FormsOfUsers
  <2>2. VisitsMatched'
    BY <1>2, <1>3, <1>4 DEF VisitsMatched, BookingOf
  <2> QED
    BY <2>1, <2>2
<1>10. OneAnnouncer'
  <2>1. ASSUME NEW q \in Visits, NEW n \in Keys, Announces(q, n)'
        PROVE  Announces(q, n)
    <3>1. visit'[q] # None /\ visit'[q].stage = "announce" /\ Claim(visit'[q]).nonce = n
      BY <2>1 DEF Announces, At
    <3> QED
      BY <1>2, <1>3, <1>4, <3>1 DEF Announces, At
  <2> QED
    BY <2>1 DEF OneAnnouncer, Recorded
<1>11. RowsMatched' /\ AnnouncedOnce' /\ PhotosUsedOnce'
  BY DEF RowsMatched, BookingOf, AnnouncedOnce, PhotosUsedOnce, Recorded
<1> QED
  BY <1>5, <1>6, <1>7, <1>8, <1>9, <1>10, <1>11

LEMMA CalendarStep ==
  ASSUME CheckInInvariant, Calendar
  PROVE  CheckInInvariant'
<1> USE DEF CheckInInvariant, tables
<1>1. /\ calendar' \in [Bookings -> Cal!Holding \cup {Free, Over}]
      /\ \A b \in Bookings : \A u, f : BookingOf(b, u, f) =>
              /\ calendar'[b] # Free
              /\ calendar'[b] = Over \/ (calendar'[b].owner = u /\ calendar'[b].facility = f)
  BY CalendarKeeps
<1>2. UNCHANGED <<gateway, tables, hits, visit, now, announced>>
  BY DEF Calendar
<1>3. TypeOK'
  BY <1>1, <1>2 DEF TypeOK
<1>4. VisitsMatched'
  <2> SUFFICES ASSUME NEW q \in Visits, visit[q] # None, visit[q].match # None
               PROVE  /\ calendar'[visit[q].match] # Free
                      /\ \/ calendar'[visit[q].match] = Over
                         \/ /\ calendar'[visit[q].match].owner = Claim(visit[q]).user
                            /\ calendar'[visit[q].match].facility = Claim(visit[q]).facility
    BY <1>2 DEF VisitsMatched, BookingOf
  <2>1. visit[q].match \in Bookings
    BY DEF TypeOK, VisitState
  <2> QED
    BY <1>1, <1>2, <2>1 DEF VisitsMatched
<1>5. RowsMatched'
  <2> SUFFICES ASSUME NEW n \in Keys, Recorded(n), attendance[n].reservation # None
               PROVE  LET b == attendance[n].reservation IN
                 /\ calendar'[b] # Free
                 /\ \/ calendar'[b] = Over
                    \/ /\ calendar'[b].owner = attendance[n].user
                       /\ calendar'[b].facility = attendance[n].facility
    BY <1>2 DEF RowsMatched, Recorded, BookingOf
  <2>1. attendance[n].reservation \in Bookings
    BY DEF TypeOK, AttendanceRow, Recorded
  <2> QED
    BY <1>1, <1>2, <2>1 DEF RowsMatched
<1>6. FormsOfUsers' /\ GatewaysNamed' /\ VisitsWitness' /\ VisitsSigned' /\ OneAnnouncer'
  BY <1>2 DEF FormsOfUsers, GatewaysNamed, VisitsWitness, Witnessed, VisitsSigned, SignedClaim, OneAnnouncer,
              Announces, At, Recorded
<1>7. AnnouncedOnce' /\ PhotosUsedOnce'
  BY <1>2 DEF AnnouncedOnce, PhotosUsedOnce, Recorded
<1> QED
  BY <1>3, <1>4, <1>5, <1>6, <1>7

\* The clock goes on, the process restarts, or nothing happens.
LEMMA RestStep ==
  ASSUME CheckInInvariant, Tick \/ Restart \/ UNCHANGED vars
  PROVE  CheckInInvariant'
<1> USE DEF CheckInInvariant, cal, tables
<1>1. UNCHANGED <<cal, gateway, tables, announced>>
  BY DEF Tick, Restart, vars
<1>2. now' \in Instants
  BY DEF Tick, Restart, vars, TypeOK, Instants
<1>3. \/ UNCHANGED visit
      \/ visit' = [q \in Visits |-> None]
  BY DEF Tick, Restart, vars
<1>4. TypeOK'
  BY <1>1, <1>2, <1>3 DEF TypeOK
<1>5. \A q \in Visits : visit'[q] # None => visit'[q] = visit[q]
  BY <1>3
<1>6. FormsOfUsers' /\ VisitsWitness' /\ VisitsSigned' /\ VisitsMatched'
  BY <1>1, <1>5 DEF FormsOfUsers, VisitsWitness, Witnessed, VisitsSigned, SignedClaim, VisitsMatched, BookingOf
<1>7. OneAnnouncer'
  <2>1. \A q \in Visits, n \in Keys : Announces(q, n)' => Announces(q, n)
    BY <1>5 DEF Announces, At
  <2> QED
    BY <1>1, <2>1 DEF OneAnnouncer, Recorded
<1>8. RowsMatched' /\ GatewaysNamed' /\ AnnouncedOnce' /\ PhotosUsedOnce'
  BY <1>1 DEF RowsMatched, BookingOf, GatewaysNamed, AnnouncedOnce, PhotosUsedOnce,
              Recorded
<1> QED
  BY <1>4, <1>6, <1>7, <1>8

LEMMA FailsStep ==
  ASSUME CheckInInvariant, NEW q \in Visits, Fails(q)
  PROVE  CheckInInvariant'
BY VisitEnds DEF Fails

LEMMA InvariantIsInductive ==
  ASSUME CheckInInvariant, [Next]_vars
  PROVE  CheckInInvariant'
BY VisitsBegin, ParsedStep, VerifyStep, ReusedStep, MatchStep, RecordStep,
   RecordGpsStep, AnnounceStep, FailsStep, RegisterStep, CalendarStep, RestStep DEF Next

\* Check-in behaves, whatever the constants, as CheckInInvariant says.
THEOREM CheckInInductive == Spec => []CheckInInvariant
BY InitInvariant, InvariantIsInductive, PTL DEF Spec

----------------------------------------------------------------------------
(* The properties *)

\* insertAttendance and notifyAttendance: a nonce is recorded once and its
\* webhook sent at most once.
THEOREM CheckInAnnouncedOnce == Spec => []AnnouncedOnce
<1>1. CheckInInvariant => AnnouncedOnce
  BY DEF CheckInInvariant
<1> QED
  BY <1>1, CheckInInductive, PTL

\* findMatchingReservation long before the insert: the booking is the user's.
THEOREM CheckInReservationOfTheUser == Spec => []ReservationOfTheUser
<1>1. CheckInInvariant => ReservationOfTheUser
  BY DEF CheckInInvariant, RowsMatched, BookingOf, ReservationOfTheUser, Keys
<1> QED
  BY <1>1, CheckInInductive, PTL

\* insertGpsCheckinPhoto in one transaction with the attendance.
THEOREM CheckInPhotosUsedOnce == Spec => []PhotosUsedOnce
<1>1. CheckInInvariant => PhotosUsedOnce
  BY DEF CheckInInvariant
<1> QED
  BY <1>1, CheckInInductive, PTL

\* A visit that inserts a row changes no other visit.
LEMMA InsertingVisit ==
  ASSUME CheckInInvariant, [Next]_vars, NEW q \in Visits, NEW n \in Keys, Inserts(q, n)
  PROVE  /\ At(q, "record")
         /\ attendance' = [attendance EXCEPT ![Claim(visit[q]).nonce] = Row(visit[q])]
<1>1. attendance' # attendance /\ visit'[q] # visit[q]
  BY DEF Inserts, Recorded
<1>2. PICK p \in Visits : Record(p) \/ RecordGps(p)
  BY <1>1 DEF Next, vars, tables, Calendar, Tick, Restart, Register, BrowserVerify,
     KioskVerify, Gps, Parsed, Verify, Reused, Match, Announce, Fails
<1>3. \A other \in Visits : other # p => visit'[other] = visit[other]
  BY <1>2 DEF Record, RecordGps, Records, RecordsPhoto, Goes, Ends, CheckInInvariant, TypeOK
<1>4. p = q
  BY <1>1, <1>3
<1> QED
  BY <1>1, <1>2, <1>4 DEF Record, RecordGps, Records, RecordsPhoto, Claim

\* getGateway is read once: its key and facility are those the attendance was
\* signed for, and the gateway held them while the visit was under way.
THEOREM CheckInSignedForItsFacility == Spec => SignedForItsFacility
<1> DEFINE Kept == \A q \in Visits, n \in Nonces \cup Photos : Inserts(q, n) =>
      \E r \in visit[q].held :
        /\ r.lan = attendance'[n].lan /\ r.facility = attendance'[n].facility
        /\ r.key = Token(visit[q].asked).key
<1>1. ASSUME CheckInInvariant, [Next]_vars
      PROVE  Kept
  <2> SUFFICES ASSUME NEW q \in Visits, NEW n \in Keys, Inserts(q, n)
               PROVE  \E r \in visit[q].held :
                 /\ r.lan = attendance'[n].lan /\ r.facility = attendance'[n].facility
                 /\ r.key = Token(visit[q].asked).key
    BY DEF Keys
  <2>1. /\ visit[q] # None /\ visit[q] \in VisitState /\ visit[q].stage = "record"
        /\ IsGps(visit[q]) => visit[q].by \in Users
    BY <1>1, InsertingVisit DEF At, CheckInInvariant, TypeOK, FormsOfUsers
  <2>2. attendance' = [attendance EXCEPT ![Claim(visit[q]).nonce] = Row(visit[q])]
    BY <1>1, InsertingVisit
  <2>3. n = Claim(visit[q]).nonce
    BY <1>1, <2>2 DEF Inserts, Recorded, CheckInInvariant, TypeOK
  <2>4. attendance'[n] = Row(visit[q])
    BY <1>1, <2>2, <2>3 DEF CheckInInvariant, TypeOK
  <2>5. SignedClaim(visit[q])
    BY <1>1, <2>1 DEF CheckInInvariant, VisitsSigned, Verified
  <2> QED
    BY <2>1, <2>4, <2>5, RowTyped DEF SignedClaim
<1> QED
  BY <1>1, CheckInInductive, PTL DEF Spec, SignedForItsFacility
=============================================================================
