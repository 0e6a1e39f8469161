SPECIFICATION WfSpec
CONSTANTS
  N = 1
  MaxGen = 3
  MaxCrash = 1
INVARIANTS
  TypeWf
  OneAgentPerAttempt
  UncertainHolds
  AnswersHandedOnce
  CancelFences
PROPERTIES
  UnboundChildEnds
  AnswerIsDelivered
CHECK_DEADLOCK FALSE
