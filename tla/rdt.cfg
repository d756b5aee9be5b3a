CONSTANTS
  client = client
  server = server
  c = c
  s = s
  Node = {client, server}
  Peer <- MCPeer
  Caller = {c, s}
  Home <- MCHome
  NoCaller = NoCaller
  MaxRetries = 2
  Budget <- MCThreeSends
  NetCap = 3
  QueueCap = 2
  ListenerCap = 1
  Fifo = TRUE
  MayStop = {}
  MayReset = {}
SPECIFICATION FairSpec
INVARIANTS
  TypeOK
  LinkInv
  InOrderOnce
  ConfirmedMeansDelivered
  NoStaleListener
  WaiterRegistered
PROPERTIES
  LinkSpec
  SendTerminates
CHECK_DEADLOCK FALSE
