SPECIFICATION FairSpec
CONSTANTS
  alice = alice
  bob = bob
  Nobody = Nobody
  Callers = {alice, bob}
  MaxRetries = 1
  MaxCalls = 1
  LateExecution = TRUE
CHECK_DEADLOCK FALSE
INVARIANTS
  OneDeleteAwaited
