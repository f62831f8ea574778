SPECIFICATION BuffersSpec
CONSTANTS
  Capacity = 2
  Bits = 3
  MaxPushes = 6
  BufSize = 2
  PipeSize = 3
  MaxPut = 5
  MaxFailures = 2
  Sizes = {2, 3}
  PipeRoom = 1
  MaxOut <- MCMaxOut
  MaxCalls = 2
INVARIANTS
  BuffersTypeOK
  NeverStale
  NeverOverwritten
  EachOnce
  FirstFailure
PROPERTIES
  Drained
  EndIsSeen
  
CHECK_DEADLOCK FALSE
