CONSTANTS
  Capacity = 2
  MaxFrames = 3
  MaxConns = 3
  MaxFds = 3
  s1 = s1
  Main = main
  Acceptor = accept
  Rx = rx
  Tx = tx
  NULL = NULL
  Senders <- MCSenders

SPECIFICATION Spec

INVARIANTS
  ClientFdOpen
  OwnedFds
  NoLostWakeup

PROPERTIES
  FifoChannel
