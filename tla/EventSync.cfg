CONSTANTS
  N = 2
  Conversations = {c1, c2}
  MaxCounter = 2
  MaxCrashes = 1
  MaxUpsets = 1
  c1 = c1
  c2 = c2
SPECIFICATION Spec
SYMMETRY SameConversations
INVARIANTS TypeOK VectorSound RoundConverges
PROPERTY RevokedIsCutOff
CHECK_DEADLOCK FALSE
