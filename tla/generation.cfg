SPECIFICATION FairSpec
CONSTANTS
  Process = {p1, p2}
  NoProcess = NoProcess
  MaxGeneration = 4
  Empty = Empty
INVARIANTS TypeOK StorageReadable
PROPERTIES AllocatorSpec CallsEnd
