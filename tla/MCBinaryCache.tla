---------------------------- MODULE MCBinaryCache ----------------------------
EXTENDS BinaryCache, TLC

CONSTANTS d1, d2, d3, c1, c2

MCDigests == {d1, d2, d3}
MCCallers == {c1, c2}

\* Every binary fits the budget; two small ones fit together.
MCSize == (d1 :> 1) @@ (d2 :> 1) @@ (d3 :> 2)

MCSymmetry == Permutations(MCCallers)
==============================================================================
