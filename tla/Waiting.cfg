CONSTANTS
  f1 = f1  f2 = f2  f3 = f3  d1 = d1
  Entry <- MCEntry
  Regular <- MCRegular
  Worker = {w1, w2}
  kQueueMax = 1
  NoEntry = NoEntry
  Opener = {o1, o2}
  Pump = Pump
  NoThread = NoThread
  File <- MCFile
  NoFile = NoFile
  MaxChars = 2
  Strips = {TRUE, FALSE}
SPECIFICATION MCSpec
INVARIANTS CallInv PortInv AnswerFitsFile
PROPERTIES CancelStops CallReturns JobSpec EveryOpenCompletes ClientStopReturns
