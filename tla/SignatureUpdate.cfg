CONSTANTS
  eicar = eicar  other = other  empty = empty  d1 = d1  d2 = d2
  NoDef = NoDef
  Sha <- MCSha
  Def <- MCDef
  Seed = eicar
  NoSha = empty
  NoFile = NoFile
  Build = {b1, b2}
  Key = {k1, k2}
  SeedDef = d1
  Client = {u1, u2}
  Admitted <- MCAdmitted
  MaxVersion = 4
SPECIFICATION Spec
INVARIANT VersionInv
INVARIANT NeverOlderThanVersion
INVARIANT OnlyPublished
PROPERTY CatchesUp
CHECK_DEADLOCK FALSE
