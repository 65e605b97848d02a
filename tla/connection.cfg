CONSTANTS
  Requests = {1}
  MaxSockets = 3
  Limit <- Each
SPECIFICATION FairSpec
INVARIANTS AnswersMatch HandshakeInOrder
PROPERTIES RequestsSettle HandshakeCompletes
CHECK_DEADLOCK FALSE
