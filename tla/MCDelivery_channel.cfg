SPECIFICATION FairSpec
CONSTANTS
  Publishers <- TwoPublishers
  MaxEvents = 2
  Size <- PayloadSize
  Header <- HeaderSizes
  IdSize = 6
  FragmentSizes = {4, 14}
  Modulus = 64
INVARIANTS
  TypeOK
  SplitsAsReference
  OwnTrafficIsAccepted
PROPERTIES
  ImplementsChannel
  HandleReturns
  EventuallyDelivered
CHECK_DEADLOCK FALSE
