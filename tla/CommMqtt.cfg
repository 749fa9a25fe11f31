CONSTANTS
  Senders = {s1}
  Main = main
  Rx = rx
  Tx = tx
  MaxConns = 3
  MaxFds = 2

SPECIFICATION FairSpec

INVARIANTS
  FdIsOwn
  OwnedFds

PROPERTIES
  Reconnects
