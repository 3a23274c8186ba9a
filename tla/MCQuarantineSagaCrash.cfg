SPECIFICATION FairSpec
CONSTANTS
  Users = {u1}
  Startup = startup
  Records = {r1, r2}
  NoRecord = NoRecord
  Original = original
  Commands = {"quarantine", "restore", "open", "repair", "reconcile"}
  MaxCrash = 2
  MaxFault = 0
INVARIANT Recoverable
PROPERTY PendingSettles
CHECK_DEADLOCK FALSE
