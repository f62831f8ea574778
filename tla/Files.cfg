SPECIFICATION Spec
CONSTANTS
  Root = "d"
  Tree <- MCTree
  Matching = {"a", "c"}
  MaxLinks = 1
  Requests <- MCRequests
  Kinds <- MCKinds
  Contents <- MCContents
  MaxChanges = 1
  Lines = 2
  MaxRuns = 3
  Block = 4
  LengthSize = 1
  Byte = 2
  Units = 16
  Sizes = {0, 1, 2, 3, 4, 5, 6, 7, 8, 9, 10, 11, 12, 13, 14, 15, 16, 17, 18}
INVARIANTS
  TypeOK
  WholeOrError
  GrepSelects
  NothingLost
  Padded
PROPERTIES
  Answered
CHECK_DEADLOCK FALSE
