SPECIFICATION Spec
CONSTANTS
  MaxDesc = 10
  Opens <- MCOpens
  Senders = {"opc1", "opc2"}
  MaxMessages = 2
  MaxDatagrams = 3
  Jobs <- MCJobs
  Ids = {0, 1, 2}
  Parents <- MCParents
INVARIANTS
  TypeOK
  AsAsked
  AnswersAsker
CHECK_DEADLOCK FALSE
