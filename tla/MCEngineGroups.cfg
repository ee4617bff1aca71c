SPECIFICATION GroupSpec
CONSTANTS
  Networks <- MCNetworks
  Wing = 3
  MaxClosings = 1
  Nil = Nil
INVARIANTS
  EveryFatKept
PROPERTIES
  OnlySwapsShare
  OneShortPerJoin
