SPECIFICATION Spec
CONSTANTS
  Addr = {a1}
  Worker = {w1, w2}
  User = {"alice", "bob"}
  Script <- One
  Nobody = "none"
  NoPacket = NoPacket
  NoSender = NoSender
  MaxChunks = 2
  MaxLines = 2
  Lossy = {}
  MayReap = {}
  Prompt = {}
INVARIANT StoredIntact
CHECK_DEADLOCK FALSE
