SPECIFICATION Spec
CONSTANTS
  Scopes <- RootAndSub
  Groups <- TwoGroups
  GroupOf <- Distinct
  SuperScopes <- RootAndSubSupers
  Connectors = {c1}
  Publishers = {}
  Receiver = receiver
  None = none
  MaxWork = 2
  c1 = c1
INVARIANTS
  ReceiverKeepsNoBusAlive
CHECK_DEADLOCK FALSE
