SPECIFICATION Spec
CONSTANTS
  FDTs = {f1, f2, f3}
  Jobs <- MCJobs
  MaxWing = 4
  Floor = 7
  MaxRebalances = 3
  MaxAbsorb = 2
  MaxDepth = 4
SYMMETRY Alike
INVARIANTS
  EveryFatHasAPlace
  PoolsHoldTheirDeal
  OneShortAtMost
PROPERTY
  CapacityKept
