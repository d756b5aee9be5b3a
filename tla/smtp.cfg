SPECIFICATION FairSpec
CONSTANTS
  Addr = {a1, a2}
  Worker = {w1, w2}
  User = {"alice", "bob"}
  Script <- Mixed
  Nobody = "none"
  NoPacket = NoPacket
  NoSender = NoSender
  MaxChunks = 1
  MaxLines = 4
  Lossy = {a1}
  MayReap = {a1}
  Prompt = {a1}
INVARIANTS TypeOK StoredIntact AcceptedIsStored RightRecipient
PROPERTIES ReplyMatches NothingDropped Served
CHECK_DEADLOCK FALSE
