SPECIFICATION Spec
CONSTANTS
  alice = alice
  bob = bob
  gpu = gpu
  cpu = cpu
  gres = gres
  Whole = Whole
  TresTypes = {cpu, gres}
  Owned <- MCOwned
  AccountLimits <- MCAccountLimits
  Null = Null
  NoRow = NoRow
  NoPartition = NoPartition
  NotManaged = NotManaged
  Users = {alice, bob}
  Partitions = {NoPartition, gpu}
  Numbers = {0, 1, 5}
  MaxMembers = 2
  MaxChanges = 1
INVARIANTS
  UsersAreKept
