SPECIFICATION FairSpec
CONSTANTS
  Threads = {t1}
  IO = IO
  Outgoing <- MCOutgoing
  Requests <- MCRequests
INVARIANTS
  TypeOK
  WireOrder
  AnswerBegunBeforeStop
  Listening
  StoppedForAReason
PROPERTIES
  ClosedIsFinal
  SendStops
CHECK_DEADLOCK FALSE
