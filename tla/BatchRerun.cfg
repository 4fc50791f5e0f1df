SPECIFICATION Spec
CONSTANTS
  mNull = mNull
  mMalformed = mMalformed
  mNone = mNone
  Null <- mNull
  Malformed <- mMalformed
  None <- mNone
  Catalogue <- MCShortCatalogue
  Scale = 10
  NTxn = 2
  Id <- MCIds
  IdColumns <- MCStoredColumns
  NumberOf <- MCNumberOf
  DrawOf <- MCDrawOf
  Batches <- MCStoredBatches
  Policies <- MCDefaultPolicy
  DefaultLimits <- MCDefaultLimits
  GivenLimits <- MCStoredLimits
  StrategyLists <- MCStoredLists
  Seeds <- MCSeeds
  AllowFeasible = TRUE
  MaxReruns = 1
INVARIANTS
  RerunReproduces
  NeverRunsBlocked
CHECK_DEADLOCK FALSE
