SPECIFICATION Spec
CONSTANTS
  Threads = {t1}
  IO = IO
  Outgoing <- MCOutgoing
  Requests <- MCRequests
INVARIANTS
  MessagesOnWire
CHECK_DEADLOCK FALSE
