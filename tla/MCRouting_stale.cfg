SPECIFICATION Spec
CONSTANTS
  Threads = {"t1", "t2"}
  NoThread = NoThread
  Scopes <- ThreeScopes
  Groups = {"g0", "g1"}
  SuperScopes <- Above
  scopeToGroup <- GroupNames
  CacheLimit = 1
  Processes = {"home", "away"}
  Home = "home"
  Sinks <- ThreeSinks
  SinkProcess <- ProcessOf
  SinkScope <- ScopeOf
  HandlerCount <- HandlersOf
  errorStrategy <- StrategyOf
  NoCall = NoCall
  NoDispatch = NoDispatch
  MaxEvents <- Bounds
INVARIANT
  RightGroups
CHECK_DEADLOCK FALSE
