SPECIFICATION Spec
CONSTANTS
  None = None
  m1 = m1
  u1 = u1
  c1 = c1
  c2 = c2
  b1 = b1
  b2 = b2
  home = home
  Meetings = {m1}
  Persons = {u1}
  Browsers = {b1, b2}
  Guild = home
  Codes = {c1, c2}
  CodeFor <- MCCodeFor
  Identities = {1, 2}
  Insiders = {b1, b2}
  Lifetime = 1
  MaxClock = 1
  MaxRevision = 3
  MaxAnswers = 2
INVARIANTS AnsweredOnce
PROPERTIES InvitedSinceProof
SYMMETRY MCSymmetry
CHECK_DEADLOCK FALSE
