SPECIFICATION Spec
CONSTANTS
  Occasions <- MCOccasions
  Scan = {"s1", "s2"}
  OldRows = 1
  Held = 1
  MaxFinds = 1
  RecentShown = 1
  HistoryCap = 2
  VirusTotalKey = TRUE
INVARIANT DashboardInv
INVARIANT SummaryHonest
PROPERTY SettlesDown
CHECK_DEADLOCK FALSE
