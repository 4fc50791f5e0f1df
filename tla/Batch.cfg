SPECIFICATION Spec
CONSTANTS
  mNull = mNull
  mMalformed = mMalformed
  mNone = mNone
  Null <- mNull
  Malformed <- mMalformed
  None <- mNone
  Catalogue <- MCCatalogue
  Scale = 10
  NTxn = 3
  Id <- MCIds
  IdColumns <- MCColumn
  NumberOf <- MCNumberOf
  DrawOf <- MCDrawOf
  Batches <- MCBatches
  Policies <- MCPolicies
  DefaultLimits <- MCDefaultLimits
  GivenLimits <- MCGivenLimits
  StrategyLists <- MCStrategyLists
  Seeds <- MCSeed
  AllowFeasible = FALSE
  MaxReruns = 0
INVARIANTS
  TypeOK
  WithinCapacity
  ReportedUseExact
  AllOrNothing
  OptimizerDominates
  ExplanationBacked
  PairedOutcomes
CHECK_DEADLOCK FALSE
