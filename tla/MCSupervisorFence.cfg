SPECIFICATION Spec
CONSTANTS
  Entries = {e1}
  Coordinators = {c1, c2}
  Finalizers = {f1}
  Users = {u1, u2}
  NumPages = 1
  FinalizeCap = 1
  MaxAttempt = 3
  MaxDowntime = 1
SYMMETRY Symmetry
INVARIANTS ExclusiveArtifact StopIsNotFailure
PROPERTY ImplementsLifecycle
CHECK_DEADLOCK FALSE
