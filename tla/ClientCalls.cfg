SPECIFICATION FairSpec
CONSTANTS
  alice = alice
  bob = bob
  Nobody = Nobody
  Callers = {alice, bob}
  MaxRetries = 1
  MaxCalls = 2
  LateExecution = FALSE
CHECK_DEADLOCK FALSE
INVARIANTS
  TypeOK
  DeletesSerialized
  AcknowledgedInForce
PROPERTIES
  CancelledSendsNothing
  KeepsContract
  EveryCallReturns
