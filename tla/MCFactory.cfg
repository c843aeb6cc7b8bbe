SPECIFICATION FairSpec
CONSTANTS
  Clients = {"c1", "c2", "c3"}
  NoClient = NoClient
  Daemons = {"d1", "d2"}
  NoBus = NoBus
  Receiver = "receiver"
  MaxBuses = 3
INVARIANTS
  TypeOK
  OneBusPerDaemon
  UsersShare
  SessionsAreOwned
PROPERTIES
  ImplementsBusLife
  ObtainReturns
  AbandonedIsClosed
CHECK_DEADLOCK FALSE
