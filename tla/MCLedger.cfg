SPECIFICATION Spec
CONSTANTS
  NoGroup = NoGroup
  Unset = Unset
  NoRow = NoRow
  NoId = NoId
  NoMeeting = NoMeeting
  Idle = Idle
  Over = Over
  Groups = {}
  Visibilities = {"public"}
  Bodies <- PlainBodies
  Facilities = {f1}
  Users = {u1}
  Admins = {u1}
  Meetings = {m1}
  ReservationIds = {r1, r2}
  Requests = {q1, q2}
  Instants = {0, 1, 2}
  TicksPerMinute = 1
  Declared = {"exclusive"}
SYMMETRY IdSymmetry
INVARIANTS IntervalsAreProper MeetingHoldsOneReservation
PROPERTIES OverlapOnlyWhenShared CancelledIsFinal ManagedFromMeetingOnly
CHECK_DEADLOCK FALSE
