CONSTANTS
  None = None
  Requests <- MCRequests
  BodyLimit = 2
  ReadTimeout = TRUE
  MaxChunks = 3
  Forms <- MCForms
  MaxFiles = 1
  MaxFields = 1
  MaxFileSize = 2
  MaxFieldSize = 1
  MaxReaders = 3
SPECIFICATION IoFairSpec
INVARIANTS
  BodyIsWhole
  ResponseIsWhole
  FormIsWhole
  OnlyAdmitted
PROPERTY BodyTasksEnd
