----------------------------- MODULE MCCatalogue ------------------------------
EXTENDS Catalogue, TLC
CONSTANTS m1, m2, r1, r2, a1, c1, c2, g, u1, p1, p2
NotSent == [in |-> Keep, out |-> Keep, cache |-> Keep, per |-> Keep,
            from |-> Keep, to |-> Keep]
Forms == {[NotSent EXCEPT !.out = 3, !.in = Empty], [NotSent EXCEPT !.in = 4, !.to = 3],
          [NotSent EXCEPT !.out = -1, !.from = 1],
          [NotSent EXCEPT !.in = 0, !.out = 0, !.cache = 0, !.per = 5, !.from = 1]}
MCRates == {-1, 0, 2}
Counts == {NoTokens, [in |-> 1, out |-> 2, cache |-> 0], [in |-> 0, out |-> 0, cache |-> 1]}
Sym == Permutations({p1, p2}) \cup Permutations({r1, r2})
       \cup Permutations({c1, c2})
=============================================================================
