SPECIFICATION MCSpec
CONSTANTS
  RxCount = 2
  TxCount = 3
  None = None
  OurIp = "us"
  OurMac = "mus"
  Gateway = "gw"
  Broadcast = "bcast"
  BroadcastMac = "mbcast"
  Seed <- MCSeed
  Local <- MCLocal
  Ambient <- MCAmbient
  Answers <- MCAnswers
  MaxSeq = 3
  Char = {"p"}
  Pressed = {"p", "nl", "tab"}
  Received = {"nl"}
  KeyCap = 3
  SerialBatch = 2
  LineMax = 2
  MaxKeys = 4
  Meaning <- MCMeaning
  PingGuard = 1
  MaxArrivals = 2
INVARIANTS RxWindow ArpFresh KeysInOrder ReplyMatches
PROPERTIES TxInOrder FramesServed KeysServed
CHECK_DEADLOCK FALSE
