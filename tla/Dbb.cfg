CONSTANTS
  MaxLate = 2
  MaxReports = 2
  MaxModes = 1
  MaxSent = 4
  MaxSetbacks = 2

SPECIFICATION FairSpec

INVARIANTS
  OnlineConfigured
  ForwardedInOrder
  
  SmsOnce

PROPERTIES
  Configured

\* A module that reported its activation too early is waited for in vain.
CHECK_DEADLOCK FALSE
