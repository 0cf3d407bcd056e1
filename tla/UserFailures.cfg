SPECIFICATION Spec
CONSTANTS
  phys = phys
  chem = chem
  gpu = gpu
  one = one
  five = five
  operator = operator
  wk = wk
  NoPartition = NoPartition
  EmptyList = EmptyList
  Null = Null
  NoAssoc = NoAssoc
  NoUser = NoUser
  NoneLevel = NoneLevel
  Accounts = {phys, chem}
  Values = {one, five}
  AdminLevels = {NoneLevel, operator}
  ImportHides <- MCImportHides
  Inherited <- MCInherited
  Fields = {"fairshare", "default_qos", "allowed_qos"}
  Partitions = {gpu}
  WCKeys = {wk}
  WCKeyReadable = FALSE
  UnscopedDelete = "all"
  QosDenied <- MCQosDenied
  Configs <- FailureConfigs
  MaxEdits = 2
  MaxFaults = 2
  MaxInterference = 0
INVARIANTS
  TypeOK
  DefaultNeverDangles
