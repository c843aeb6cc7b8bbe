------------------------------- MODULE MCBus -------------------------------
(* Values for model-checking Bus: a root scope and one below it.           *)
EXTENDS Bus, TLC

RootAndSub == {"root", "sub"}
RootAndSubSupers == ("root" :> {"root"}) @@ ("sub" :> {"root", "sub"})

\* GroupNameCache::scopeToGroup truncates a hash: usually two groups, in the
\* worst case one.
TwoGroups == {"g1", "g2"}
Distinct == ("root" :> "g1") @@ ("sub" :> "g2")
OneGroup == {"g1"}
Colliding == ("root" :> "g1") @@ ("sub" :> "g1")

Symmetry == Permutations(Connectors)
===========================================================================
