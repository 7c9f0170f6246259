------------------------------- MODULE MCUsage --------------------------------
EXTENDS Usage, TLC
CONSTANTS c1, c2, w1, w2
MCCost == (c1 :> 2) @@ (c2 :> 3)
MCCopies == (c1 :> 2) @@ (c2 :> 1)
Sym == Permutations({w1, w2})
=============================================================================
