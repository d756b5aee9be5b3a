SPECIFICATION FairSpec
CONSTANTS
  alice = alice
  bob = bob
  secret = secret
  blank = blank
  User = {alice, bob}
  Password = {secret, blank}
  Blank = blank
  None = None
  Cut = Cut
  Main = Main
  Worker = {w1, w2}
  Wanted = {alice}
  Common = secret
  Faults = {"save", "mailbox"}
  MaxCalls = 2
  MaxCrashes = 2
INVARIANTS TypeOK CreatedSurvives LoginIsCurrent
PROPERTIES Durable CallsReturn
CHECK_DEADLOCK FALSE
