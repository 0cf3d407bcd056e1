SPECIFICATION FairSpec
CONSTANTS
  phys = phys
  physGpu = physGpu
  chem = chem
  chemGpu = chemGpu
  cpu = cpu
  gpu = gpu
  normal = normal
  high = high
  Null = Null
  NoRow = NoRow
  Keys = {phys, physGpu, chem, chemGpu}
  AccountOf <- MCAccountOf
  Unscoped = {phys, chem}
  DefaultKey = phys
  UnscopedDelete = "refuse"
  Sentinel = 3
  QosNames = {normal, high}
  Listed <- MCListed
  TresTypes = {cpu, gpu}
  Counts = {0, 5}
  AccountTres <- MCAccountTres
  Blocks <- MCBlocks
  MaxEdits = 2
  MaxInterference = 1
INVARIANTS
  TypeOK
  DiffIsExact
  DeclaredIsInForce
PROPERTIES
  Converges
