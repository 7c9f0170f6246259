------------------------------ MODULE MCAccounts ------------------------------
EXTENDS Accounts, TLC
CONSTANTS s1, s2, a, n, k1, k2, k3, n1, n2, p1, p2
MCAccountOf == (n1 :> n) @@ (n2 :> a)
Sym == Permutations({p1, p2}) \cup Permutations({k2, k3})
=============================================================================
