SPECIFICATION BothSpec
CONSTANTS
  MAX_MESSAGE_BODY_LENGTH = 4
  AES_BLOCK_SIZE = 2
  MinCarry = 3
  MaxCarry = 4
  Latency = 2
  MaxItems = 2
  MaxFields = 2
  Couplings = {"messages"}
  Layouts <- MCLayouts
  Methods <- JustCompress
INVARIANT RoundTrip
CHECK_DEADLOCK FALSE
