SPECIFICATION Spec
CONSTANTS
  None = None
  Free = Free
  Over = Over
  u1 = u1
  f1 = f1
  f2 = f2
  l1 = l1
  n1 = n1
  n2 = n2
  p1 = p1
  p2 = p2
  Users = {u1}
  Facilities = {f1, f2}
  Lans = {l1}
  Bookings = {b1}
  Visits = {q1, q2}
  Registrations <- MCRegistrations
  Attestations <- MCAttestations
  Submissions <- MCSubmissions
  Nonces = {n1, n2}
  Photos = {p1, p2}
  MaxTime = 2
  MinAssurance = "medium"
  FRESHNESS = 0
  STATEMENT_FRESHNESS = 2
  MAX_ACCURACY = 1
  POSITION_WINDOW = 0
  EXIF_TIME_WINDOW = 1
  Limit = 1
  Window = 1
SYMMETRY CheckInSymmetry
INVARIANTS AnnouncedOnce ReservationOfTheUser PhotosUsedOnce
PROPERTIES SignedForItsFacility
CHECK_DEADLOCK FALSE
