SPECIFICATION Spec
CONSTANTS
  Addr = {a1, a2}
  Worker = {w1}
  User = {"alice", "bob"}
  Script <- Parts
  Nobody = "none"
  NoPacket = NoPacket
  NoSender = NoSender
  MaxChunks = 3
  MaxLines = 4
  Lossy = {a1}
  MayReap = {a1}
  Prompt = {}
INVARIANTS StoredIntact AcceptedIsStored
PROPERTY ReplyMatches
CHECK_DEADLOCK FALSE
