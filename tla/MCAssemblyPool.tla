--------------------------- MODULE MCAssemblyPool ---------------------------
(* Values for model-checking AssemblyPool.                                  *)
EXTENDS AssemblyPool, TLC

\* Events of one part never come here (maybeJoinFragments).
TwoAndTwo == ("e1" :> 2) @@ ("e2" :> 2)
=============================================================================
