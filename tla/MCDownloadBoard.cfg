SPECIFICATION Spec
CONSTANTS
  Albums = {1, 2}
  Slots = 1
  Saved <- SavedLists
  Name <- Names
  FeedSize = 1
  MaxEntries = 2
  MaxRevision = 2
  MaxReads = 2
  MaxCalls = 1
  None = None
PROPERTY OlderListNeverWins
CHECK_DEADLOCK FALSE
