CONSTANTS
  RxCaller = rx
  GnssCaller = gnss
  Idle = idle
  DeviceId = 1
  BufSize = 13
  Answers <- MCAnswers
  Positions <- MCPositions
  Ephemerides <- MCEphemerides

SPECIFICATION NetSpec

INVARIANTS
  CommandNamesPayload
