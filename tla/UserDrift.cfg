SPECIFICATION FairSpec
CONSTANTS
  phys = phys
  chem = chem
  gpu = gpu
  one = one
  five = five
  operator = operator
  wk = wk
  NoPartition = NoPartition
  EmptyList = EmptyList
  Null = Null
  NoAssoc = NoAssoc
  NoUser = NoUser
  NoneLevel = NoneLevel
  Accounts = {phys, chem}
  Values = {one, five}
  AdminLevels = {NoneLevel, operator}
  ImportHides <- MCImportHides
  Inherited <- MCInheritedLimit
  Fields = {"fairshare", "default_qos"}
  Partitions = {gpu}
  WCKeys = {wk}
  WCKeyReadable = TRUE
  UnscopedDelete = "refuse"
  QosDenied <- MCQosDenied
  Configs <- AllConfigs
  MaxEdits = 1
  MaxFaults = 1
  MaxInterference = 1
INVARIANTS
  RefusedForAReason
  ApplyReadsBack
  EmptyPlanMeansInForce
PROPERTIES
  KeepsPlannedAssociations
  NullIsUnmanaged
  Converges
