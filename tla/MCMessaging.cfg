CONSTANTS
  r1 = r1
  r2 = r2
  Requesters <- TwoRequesters
  MaxChanges = 2
  MaxClears = 2
SPECIFICATION FairMessagingSpec
INVARIANTS MessagingTypeOK NoLoadIsLost DeliveredOnce AnswersAreExpected
PROPERTIES LoadsArrive ClearEnds
CHECK_DEADLOCK FALSE
