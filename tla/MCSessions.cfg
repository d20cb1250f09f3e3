SPECIFICATION Spec
CONSTANTS
  None = None
  Nonces = {n1, n2}
  Calls = {c1, c2}
  AttemptTime = 2
  SessionTime = 2
  Lives = {1, 2, 3}
  MaxAttempts = 2
  MaxSessions = 1
  MaxTime = 3
SYMMETRY RandomSymmetry
INVARIANTS EndedStaysOut ExchangedOnce GrantsAreAccountedFor
PROPERTIES NeverRevived RunsForLiveSession
CHECK_DEADLOCK FALSE
