CONSTANTS
  None = None
  Requests <- BareRequests
  BodyLimit = 2
  ReadTimeout = TRUE
  MaxChunks = 1
  Forms <- TwoParts
  MaxFiles = 1
  MaxFields = 1
  MaxFileSize = 2
  MaxFieldSize = 1
  MaxReaders = 2
SPECIFICATION IoSpec
INVARIANT EveryPartIsWhole
