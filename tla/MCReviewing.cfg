SPECIFICATION Spec
CONSTANTS
  None = None
INVARIANTS
  BoardsSettle
  MergeKeepsEveryPage
  OutcomeIsTrue
  NoReviewIsForgotten
  PagesAreKept
  HistoryIsTrue
  ImageIsCurrent
  NoUrlIsLost
CHECK_DEADLOCK FALSE
