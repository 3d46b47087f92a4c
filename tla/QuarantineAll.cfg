CONSTANTS
  p1 = p1  p2 = p2  c1 = c1  c2 = c2
  n1 = n1  n2 = n2  setup = setup
  NoFile = NoFile
  Path <- MCPath
  Content <- MCContent
  Name <- MCName
  HashName <- MCHashName
  FileName <- MCFileName
  SafeTarget = {p1}
  Scanner = {s1, s2}
  Operator = {u1, u2}
  Admitted = {{"duplicate", "rewrite", "overlap", "unhashable", "fallback"},
              {"duplicate", "fallback", "removeFails", "dbFails", "crash"},
              {"fallback"}}
  MaxId = 2
SPECIFICATION Spec
SYMMETRY MCThreads
INVARIANT QuarantineInv
INVARIANT RecordedUnlessCut
INVARIANT ReversibleOneByOne
PROPERTY RestoreOverwritesOnlyInRace
PROPERTY LosesNothingOneByOne
