CONSTANTS
  MaxLate = 3

SPECIFICATION EthFairSpec

INVARIANTS
  Confirmed

PROPERTIES
  BringUp
