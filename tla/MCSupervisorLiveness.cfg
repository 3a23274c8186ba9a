SPECIFICATION FairSpec
CONSTANTS
  Entries = {e1}
  Coordinators = {c1, c2}
  Finalizers = {f1}
  Users = {u1}
  NumPages = 1
  FinalizeCap = 1
  MaxAttempt = 2
  MaxDowntime = 2
INVARIANT ActiveIsServed
PROPERTIES ActiveJobsEnd QuitEnds
CHECK_DEADLOCK FALSE
