CONSTANTS
  Replicas = {r1, r2}
  Messages = {"m1", "m2"}
  Bodies = {"b1", "b2"}
  Positions = {1, 2, 3, 4, 5, 6, 7, 8}
  Reactions = {"plus", "heart"}
  Readers = {"a"}
  MaxRead = 2
  Events <- SmallEvents
  r1 = r1
  r2 = r2
SPECIFICATION Spec
INVARIANTS Converged
PROPERTY NeverUndone
