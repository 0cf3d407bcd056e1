SPECIFICATION FairSpec
CONSTANTS
  prod = prod
  test = test
  Given = Given
  Null = Null
  Unknown = Unknown
  Empty = Empty
  Processes = {p1, p2}
  Clusters = {prod, test}
  Setups <- MCSetups
  MaxAttempts = 2
  MaxRemovals = 1
  MaxFaults = 1
INVARIANTS
  TypeOK
  ConfiguredHasCluster
PROPERTIES
  ExistingClusterIsKept
  Bootstraps
