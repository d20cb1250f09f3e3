SPECIFICATION PollSpec
CONSTANTS
  NoGroup = NoGroup
  Unset = Unset
  NoRow = NoRow
  NoId = NoId
  NoMeeting = NoMeeting
  Idle = Idle
  Over = Over
  None = None
  Gone = Gone
  s1 = s1
  v1 = v1
  f1 = f1
  Groups = {}
  Visibilities = {"public", "private"}
  Bodies <- SilentBodies
  Facilities = {}
  Users = {u1}
  Admins = {}
  Meetings = {m1}
  ReservationIds = {}
  Requests = {}
  Instants = {0, 1, 2}
  TicksPerMinute = 1
  Declared = {}
  Browsers = {b1, b2}
  Identities <- TwoIds
  SlotIds = {s1}
  VenueNames = {}
  Inputs <- AnswerInputs
  OnDiscord = {}
  ResponseIds = {a1}
  Texts = {t1, t2}
  MaxResponses = 2
  MaxRevision = 3
  MaxRewrites = 2
SYMMETRY PollSymmetry
INVARIANTS AnswersMatchSlots
PROPERTIES NoLostAnswer AnswersFromReaders SettingsSurviveEdit
CHECK_DEADLOCK FALSE
