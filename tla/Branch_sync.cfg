SPECIFICATION Spec
CONSTANTS
  d1 = d1
  d2 = d2
  r1 = r1
  r2 = r2
  x1 = x1
  x2 = x2
  None = None
  Devices <- MCDevices
  Readers <- MCReaders
  Requests <- MCRequests
  Entities <- MCEntities
  Batch = 1
  Page = 1
  MaxTokens = 2
  MaxEvents = 2
INVARIANTS TypeOK TokensNeverReturn SkipsOnlyOvertaken
PROPERTIES OnlyHolderMovesLease StealsOnlyByRace ChangesArrive
CHECK_DEADLOCK FALSE
