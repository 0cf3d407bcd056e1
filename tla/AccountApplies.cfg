SPECIFICATION FairSpec
CONSTANTS
  root = root
  phys = phys
  one = one
  five = five
  blank = blank
  Null = Null
  EmptyList = EmptyList
  NoAccount = NoAccount
  Names = {root, phys}
  Root = root
  Attributes = {"description", "parent_account", "max_jobs", "allowed_qos"}
  Meta = {"description", "parent_account"}
  SentBlank = {"description"}
  Values = {one, five, blank}
  Inherited <- MCInherited
  Configs <- MCConfigs
  MaxEdits = 1
  MaxFaults = 1
  MaxInterference = 1
INVARIANTS
  TypeOK
  RootIsKept
  ApplyReadsBack
  EmptyPlanMeansNoOtherValue
PROPERTIES
  NullIsUnmanaged
  Converges
