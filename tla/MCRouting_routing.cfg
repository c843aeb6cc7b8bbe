SPECIFICATION FairSpec
CONSTANTS
  Threads = {"t1", "t2"}
  NoThread = NoThread
  Scopes <- ThreeScopes
  Groups = {"g0", "g1"}
  SuperScopes <- Above
  scopeToGroup <- GroupNames
  CacheLimit = 1
  Processes = {"home", "away"}
  Home = "home"
  Sinks <- ThreeSinks
  SinkProcess <- ProcessOf
  SinkScope <- ScopeOf
  HandlerCount <- HandlersOf
  errorStrategy <- StrategyOf
  NoCall = NoCall
  NoDispatch = NoDispatch
  MaxEvents <- Bounds
INVARIANTS
  TypeOK
  CacheIsRight
  CacheIsBounded
  RightWhileFew
  NothingLost
PROPERTIES
  ImplementsEventBus
  WaitingEnds
CHECK_DEADLOCK FALSE
