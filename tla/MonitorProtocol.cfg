SPECIFICATION Spec
CONSTANTS
  MaxRequests = 3
  MaxEvents = 2
  MaxInfos = 1
INVARIANTS AnswersAreOwn EventsKeepOrder
CHECK_DEADLOCK FALSE
