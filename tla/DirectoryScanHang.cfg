CONSTANTS
  f1 = f1  f2 = f2  f3 = f3  d1 = d1
  Entry <- MCEntry
  Regular <- MCRegular
  Worker = {w1, w2}
  kQueueMax = 1
  NoEntry = NoEntry
SPECIFICATION Spec
PROPERTY CancelledCallReturns
