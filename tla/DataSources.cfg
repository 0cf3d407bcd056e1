SPECIFICATION FairSpec
CONSTANTS
  normal = normal
  Unset = Unset
  Infinite = Infinite
  Null = Null
  Gone = Gone
  Kinds = {"user", "account", "qos", "qos_priority", "partition", "slurm_conf", "dbd_conf"}
  Numbers = {0, 5}
  Names = {normal}
  MaxChanges = 2
  MaxFaults = 1
INVARIANTS
  TypeOK
  AnswerIsTrue
  CopyWasTrue
PROPERTIES
  Follows
