CONSTANTS
  Messages = {"bd2", "bd3", "bd3cnav2", "bd3cnav3", "bdxw", "gps", "glo", "gal",
              "prangeb", "posdatab"}
  MaxSats = 2
  MaxSignals = 2
  Bytes = {77, 255}
  MaxBytes = 4
  RawSize = 4
  TextSize = 7
  Charsets = {"HEX", "BASE64"}
  Numbers <- SomeNumbers
  SmsTexts <- SomeTexts
  Centres <- SomeCentres
  UdSize = 4

SPECIFICATION DecodersSpec

INVARIANTS
  ReadWithin
  FieldsFit
  EveryBitRead
  ValuesKept
  SentWhole
  StoredAsSent
  MessageKept
