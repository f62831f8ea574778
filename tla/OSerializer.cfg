SPECIFICATION BothFairSpec
CONSTANTS
  MAX_MESSAGE_BODY_LENGTH = 4
  AES_BLOCK_SIZE = 2
  MinCarry = 3
  MaxCarry = 4
  Latency = 2
  MaxItems = 3
  MaxFields = 2
  Couplings = {"direct", "messages"}
  Layouts <- MCLayouts
  Methods <- AllMethods
INVARIANTS
  BothTypeOK
  ReaderAligned
  BufsTileStream
  PodsWhole
  NeverOverReads
  ResumedOnlyByEmptyTail
  
  AcceptedIsWhole
  WrongKeyDeliversNothing
PROPERTIES
  TransferSpec
  Returns
CHECK_DEADLOCK FALSE
