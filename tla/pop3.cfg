SPECIFICATION FairSpec
CONSTANTS
  a1 = a1
  a2 = a2
  alice = alice
  bob = bob
  m1 = m1
  m2 = m2
  ascii = ascii
  large = large
  Addr = {a1, a2}
  User = {alice, bob}
  Msg = {m1, m2, ascii, large}
  Secret = Secret
  None = None
  Plan <- MCPlan
  MaxLosses = 1
  MaxRetries = 2
  Owner <- MCOwner
  Stored <- MCStored
  Large = {large}
  NotAscii = {ascii}
  MayFail = {"list", "read", "delete"}
INVARIANTS TypeOK RetrievedIsListed
PROPERTIES OnlyMarkedDeleted DeletedWasRetrieved LoopSurvives CallsEnd
CHECK_DEADLOCK FALSE
