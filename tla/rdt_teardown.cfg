CONSTANTS
  client = client
  server = server
  c = c
  s = s
  Node = {client, server}
  Peer <- MCPeer
  Caller = {c, s}
  Home <- MCHome
  NoCaller = NoCaller
  MaxRetries = 1
  Budget <- MCTwoSends
  NetCap = 2
  QueueCap = 1
  ListenerCap = 2
  Fifo = TRUE
  MayStop = {client, server}
  MayReset = {server}
SPECIFICATION FairSpec
INVARIANTS
  NothingInvented
PROPERTIES
  SendTerminates
CHECK_DEADLOCK FALSE
