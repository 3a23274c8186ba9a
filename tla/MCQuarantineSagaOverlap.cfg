SPECIFICATION Spec
CONSTANTS
  Users = {u1, u2}
  Startup = startup
  Records = {r1, r2}
  NoRecord = NoRecord
  Original = original
  Commands = {"quarantine", "restore", "open", "repair", "reconcile"}
  MaxCrash = 1
  MaxFault = 1
SYMMETRY Symmetry
INVARIANTS RecordMatchesRows PagesInOnePlace
CHECK_DEADLOCK FALSE
