------------------------------ MODULE MCRouting ------------------------------
(* Values for model-checking Routing: two scopes below the root whose group *)
(* names collide; an event on one of them reaches the other's in-connectors. *)
EXTENDS Routing, TLC

ThreeScopes == {"root", "a", "x"}
Above == [s \in ThreeScopes |-> IF s = "root" THEN <<"root">> ELSE <<"root", s>>]
GroupNames == [s \in ThreeScopes |-> IF s = "root" THEN "g0" ELSE "g1"]

ThreeSinks == {"local", "first", "second"}
ProcessOf == [s \in ThreeSinks |-> IF s = "local" THEN "home" ELSE "away"]
ScopeOf == ("local" :> "a") @@ ("first" :> "a") @@ ("second" :> "root")
HandlersOf == ("local" :> 1) @@ ("first" :> 2) @@ ("second" :> 1)
Bounds == ("t1" :> 2) @@ ("t2" :> 1)
StrategyOf == ("local" :> "PRINT") @@ ("first" :> "LOG") @@ ("second" :> "EXIT")
=============================================================================
