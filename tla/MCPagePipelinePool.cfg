SPECIFICATION FairSpec
CONSTANTS
  NumPages = 2
  Editions = {A, B}
  FirstEdition = A
  Workers = {w1, w2}
  MaxAttempt = 2
  MaxReplace = 1
  MaxCrash = 1
  MaxFault = 1
INVARIANTS NoOldPage
PROPERTIES CompletesWhole RunEnds
CHECK_DEADLOCK FALSE
