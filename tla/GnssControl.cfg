CONSTANTS
  Rx = rx
  Cli = cli
  Gnss = gnss
  Unset = unset
  Requests <- MCRequests
  Commands <- MCCommands

SPECIFICATION Spec

INVARIANTS
  SetApplied
  RecordsFollowModule
