SPECIFICATION Spec
CONSTANTS
  None = None
  k1 = k1
  k2 = k2
SYMMETRY SymmetricKeys
INVARIANTS
  TabsShowTheirSearch
  BusyIsServed
  LeasesMatch
  DiscoveryIsConsistent
  WaitingHasReview
  DownloadListIsTrue
  GridIsTrue
  SearchBarIsTrue
  NoWorkerRests
  NoOriginalIsLeaked
CHECK_DEADLOCK FALSE
