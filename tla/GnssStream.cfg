CONSTANTS
  RawSize = 7
  LineSize = 4
  MaxRead = 3
  Kinds = {"record", "posdata", "cut", "sentence"}
  Bytes = {"$"}
  Commanded = {"AUTO", "NMEA", "EPHB"}
  MaxItems = 3

SPECIFICATION Spec

INVARIANTS
  BuffersHold
  RecordsOnce
  RecordsDecoded
  SentencesHeard
