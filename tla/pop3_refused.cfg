SPECIFICATION Spec
CONSTANTS
  a1 = a1
  a2 = a2
  alice = alice
  bob = bob
  m1 = m1
  m2 = m2
  ascii = ascii
  large = large
  Addr = {a1, a2}
  User = {alice, bob}
  Msg = {m1, m2, ascii, large}
  Secret = Secret
  None = None
  Plan <- MCWrongPassword
  MaxLosses = 1
  MaxRetries = 2
  Owner <- MCOwner
  Stored <- MCStored
  Large = {large}
  NotAscii = {ascii}
  MayFail = {"read", "delete"}
PROPERTY RefusedMayReturn
CHECK_DEADLOCK FALSE
