SPECIFICATION MCSpec
CONSTANTS
  Launch <- MCLaunch
  Pid <- MCPid
  Content <- MCContent
  Watched = {"shell"}
  kMaxFlaggedPids = 1
  MaxProcesses = 3
  Binary <- MCBinary
  Parent <- MCParent
  MaxFragments = 2
INVARIANTS RuleSeesRealParent MarksInv LineageCorrelated
INVARIANTS HighestDecides WeakAloneSilent
PROPERTIES RemovedOnlyReported EveryCauseAnswered AlarmsStay
CHECK_DEADLOCK FALSE
