SPECIFICATION Spec
CONSTANTS
  None = None
  q1 = q1
  q2 = q2
  q3 = q3
  e1 = e1
  p1 = p1
  p2 = p2
  d1 = d1
  d2 = d2
  g1 = g1
  NoGroup = NoGroup
  Unset = Unset
  Groups = {g1}
  Visibilities = {"public", "internal"}
  Processes = {p1, p2}
  Calls = {q1, q2, q3}
  Edits = {e1}
  Jobs = {q1, q2, q3, e1}
  Tokens = {d1, d2}
  Home <- MCHome
  Initial <- MCInitial
  Token <- MCToken
  MemberOf <- MCMemberOf
  IsOwner = {q3}
  OwnerOnly = {q3}
  Deadline <- MCDeadline
  ContextEnd <- MCContextEnd
  MaxClock = 1
INVARIANTS AnswerTellsTheTruth
PROPERTIES ImplementsStore CommittedWithinItsPermit QueueDrains
CHECK_DEADLOCK FALSE
