CONSTANTS
  d1 = d1  d2 = d2  f1 = f1  f2 = f2  f3 = f3
  Caller = {ui, other}
  Thread = {t1, t2}
  Dir <- MCDir
  File <- MCFile
  DirOf <- MCDirOf
  Target = f3
  Configs <- MCConfigs
  ConfigFile <- MCConfigFile
  Overlap = TRUE
  NoThread = NoThread  NoConfig = NoConfig
SPECIFICATION Spec
INVARIANT NeverTerminates
