SPECIFICATION FieldSpec
CONSTANTS
  Homes <- MCHomes
  Roads <- MCRoads
  Customers <- MCCustomers
  Near <- MCNear
  Ends <- MCEnds
  Major <- MCMajor
  Coverage = 80
  MinFat = 7
  MaxFat = 8
  TailBorrow = 4
  MaxFatRebalances = 50
  None = None
INVARIANTS
  EveryHomeServed
  NeverRefuses
PROPERTY
  RepairsHelp
