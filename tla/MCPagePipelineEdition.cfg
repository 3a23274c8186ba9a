SPECIFICATION Spec
CONSTANTS
  NumPages = 2
  Editions = {A, B}
  FirstEdition = A
  Workers = {w1, w2}
  MaxAttempt = 3
  MaxReplace = 1
  MaxCrash = 0
  MaxFault = 0
SYMMETRY Symmetry
INVARIANT SingleEdition
CHECK_DEADLOCK FALSE
