SPECIFICATION FairSpec
CONSTANTS
  Scopes <- RootAndSub
  Groups <- OneGroup
  GroupOf <- Colliding
  SuperScopes <- RootAndSubSupers
  Connectors = {c1, c2}
  Publishers = {p1}
  Receiver = receiver
  None = none
  MaxWork = 2
  c1 = c1
  c2 = c2
  p1 = p1
PROPERTIES
  DestructorCompletes
  CallsReturn
  LossStopsReceiver
CHECK_DEADLOCK FALSE
