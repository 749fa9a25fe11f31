CONSTANTS
  Capacity = 2
  MaxFrames = 3
  p1 = p1
  p2 = p2
  gnss = gnss
  Main = main
  Rx = rx
  Tx = tx
  NoPeer = none
  NULL = NULL
  Peers <- MCPeers
  Gnss <- MCGnss

SPECIFICATION FairSpec

INVARIANTS
  TypeOK
  ReplyToRequester
  FrameHasSocket
  NoLostWakeup

PROPERTIES
  FifoChannel
  AcceptedIsTried
  SenderReturns
