SPECIFICATION Spec
CONSTANTS
  Entries = {e1}
  Coordinators = {c1, c2}
  Finalizers = {f1}
  Users = {u1, u2}
  NumPages = 1
  FinalizeCap = 1
  MaxAttempt = 2
  MaxDowntime = 0
PROPERTY FailsOwnAttemptOnly
CHECK_DEADLOCK FALSE
