SPECIFICATION Spec
CONSTANTS
  Scopes <- RootAndSub
  Groups <- TwoGroups
  GroupOf <- Distinct
  SuperScopes <- RootAndSubSupers
  Connectors = {c1, c2}
  Publishers = {p1}
  Receiver = receiver
  None = none
  MaxWork = 4
  c1 = c1
  c2 = c2
  p1 = p1
INVARIANTS
  TypeOK
  MembershipExact
  JoinedWhileCounted
  QuietAfterDeactivate
  DestructorAlone
  NoReaderOnClosedConnection
  NoCircularWait
  DeactivatedIsSafe
PROPERTIES
  ImplementsBusLife
SYMMETRY Symmetry
CHECK_DEADLOCK FALSE
