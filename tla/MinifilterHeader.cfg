CONSTANTS
  Opener = {o1, o2}
  Pump = Pump
  NoThread = NoThread
  File <- MCFile
  NoFile = NoFile
  MaxChars = 2
  Strips = {TRUE}
SPECIFICATION FilterSpec
INVARIANT BlockIsObeyed
