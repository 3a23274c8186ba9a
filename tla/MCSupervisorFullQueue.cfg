SPECIFICATION FairSpec
CONSTANTS
  Entries = {e1, e2}
  Coordinators = {c1, c2}
  Finalizers = {f1}
  Users = {u1}
  NumPages = 1
  FinalizeCap = 1
  MaxAttempt = 1
  MaxDowntime = 0
PROPERTY ActiveJobsEnd
CHECK_DEADLOCK FALSE
