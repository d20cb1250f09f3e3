SPECIFICATION Spec
CONSTANTS
  None = None
  Sockets = {s1, s2, s3}
  Requests = {r1, r2, r3}
  MaxLogins = 2
INVARIANTS OneConnection PendingOnItsSocket
PROPERTIES ClosedForGood Reconnects
CHECK_DEADLOCK FALSE
