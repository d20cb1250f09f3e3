SPECIFICATION PollSpec
CONSTANTS
  NoGroup = NoGroup
  Unset = Unset
  NoRow = NoRow
  NoId = NoId
  NoMeeting = NoMeeting
  Idle = Idle
  Over = Over
  None = None
  Gone = Gone
  s1 = s1
  v1 = v1
  f1 = f1
  Groups = {}
  Visibilities = {"public"}
  Bodies <- SilentBodies
  Facilities = {}
  Users = {u1, u2}
  Admins = {}
  Meetings = {m1}
  ReservationIds = {r1}
  Requests = {}
  Instants = {0, 1}
  TicksPerMinute = 1
  Declared = {}
  Browsers = {b1}
  Identities <- ThreeIds
  SlotIds = {s1}
  VenueNames = {}
  Inputs <- StillInputs
  OnDiscord = {u2}
  ResponseIds = {a1, a2}
  Texts = {t1}
  MaxResponses = 2
  MaxRevision = 2
  MaxRewrites = 2
SYMMETRY AnswerSymmetry
PROPERTIES OptedInParticipantsAreTold
CHECK_DEADLOCK FALSE
