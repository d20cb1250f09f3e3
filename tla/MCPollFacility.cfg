SPECIFICATION PollSpec
CONSTANTS
  NoGroup = NoGroup
  Unset = Unset
  NoRow = NoRow
  NoId = NoId
  NoMeeting = NoMeeting
  Idle = Idle
  Over = Over
  None = None
  Gone = Gone
  s1 = s1
  v1 = v1
  f1 = f1
  Groups = {}
  Visibilities = {"public"}
  Bodies <- SilentBodies
  Facilities = {f1}
  Users = {u1}
  Admins = {}
  Meetings = {m1}
  ReservationIds = {r1, r2}
  Requests = {q1}
  Instants = {0, 1}
  TicksPerMinute = 1
  Declared = {"exclusive"}
  Browsers = {b1}
  Identities <- OneId
  SlotIds = {s1}
  VenueNames = {v1}
  Inputs <- VenueInputs
  OnDiscord = {}
  ResponseIds = {}
  Texts = {t1}
  MaxResponses = 1
  MaxRevision = 4
  MaxRewrites = 1
SYMMETRY RowSymmetry
INVARIANTS FinalizedHoldsSlot HandoffFrozen
PROPERTIES ImplementsLedger ImplementsCalendar
CHECK_DEADLOCK FALSE
