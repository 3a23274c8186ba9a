SPECIFICATION Spec
CONSTANTS
  None = None
INVARIANTS
  EditsSurvive
  PanelsAreCurrent
  ShellIsCareful
  LateSearchIsDropped
  HiddenStaysHidden
  RecordingIsWhole
  NothingResurrects
  NoOrphan
CHECK_DEADLOCK FALSE
