SPECIFICATION Spec
CONSTANTS
  Occasions <- MCQuarantineOnly
  Scan = {"s1"}
  OldRows = 0
  Held = 1
  MaxFinds = 1
  RecentShown = 1
  HistoryCap = 2
  VirusTotalKey = TRUE
INVARIANT DeletesOnlyAsked
CHECK_DEADLOCK FALSE
