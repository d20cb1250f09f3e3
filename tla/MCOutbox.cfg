SPECIFICATION Spec
CONSTANTS
  None = None
  j1 = j1
  j2 = j2
  host = host
  guest = guest
  Jobs = {j1, j2}
  Users = {host, guest}
  Recipient <- MCRecipient
  Host = host
  Ticks = {t1, t2}
  Batch = 2
  MaxAttempts = 2
  MaxFaults = 1
  MaxChanges = 1
INVARIANTS ResentOnlyAfterUnknown
PROPERTIES OnlyWhileWilling EventuallySettled
CHECK_DEADLOCK FALSE
