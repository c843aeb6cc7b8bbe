SPECIFICATION FairSpec
CONSTANTS
  Events = {"e1", "e2"}
  Parts <- TwoAndTwo
  Controllers = {k1, k2}
  Owner = k1
  MaxAge = 1
  MaxCopies = 2
  None = none
  k1 = k1
  k2 = k2
INVARIANTS
  TypeOK
  FragmentsConserved
  PoolIsSound
  CompleteIsDelivered
  IteratorStaysValid
  StoppedWhenReturned
PROPERTIES
  StaleIsPruned
  StoppingReturns
CHECK_DEADLOCK FALSE
