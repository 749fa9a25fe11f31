CONSTANTS
  Types = {"rmc", "gsv"}
  Words = {"gps"}
  Moments = {100000, 100010}
  Blank = 0
  Zone = 28800
  Clocks = {200000}
  MaxSats = 1
  MaxLines = 2
  MaxCommands = 2
  MaxTicks = 1
  MaxFaults = 1
SPECIFICATION Spec
INVARIANTS
  LinesWhole
  ReportedComplete
  OneLatePiece
  ClockFollows
CHECK_DEADLOCK FALSE
