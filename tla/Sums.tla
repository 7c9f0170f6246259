---------------------------------- MODULE Sums ----------------------------------
(***************************************************************************)
(* Lemmas about SumFunctionOnSet(f, S), the sum of f[x] for the x in a     *)
(* finite set S.                                                           *)
(***************************************************************************)
EXTENDS Integers, Functions, FiniteSetTheorems, WellFoundedInduction, TLAPS

Pick(s) == CHOOSE x \in s : TRUE

\* One round of the recursion of SumFunctionOnSet,
Round(f, g, s) == IF s = {} THEN 0 ELSE f[Pick(s)] + g[s \ {Pick(s)}]

\* and a function that satisfies it for the subsets of S.
IsSum(g, f, S) == g = [s \in SUBSET S |-> Round(f, g, s)]

(***************************************************************************)
(* A nonempty set of numbers has a least one.                              *)
(***************************************************************************)
LEMMA LeastNat ==
    ASSUME NEW T \in SUBSET Nat, T # {}
    PROVE  \E n \in T : \A m \in T : n <= m
<1>1. PICK x \in T : \A y \in T : ~ (<<y, x>> \in OpToRel(<, Nat))
  BY NatLessThanWellFounded, WFMin
<1>2. \A y \in T : ~ (y < x)
  BY <1>1 DEF OpToRel
<1>3. QED BY <1>2

(***************************************************************************)
(* What removing an element does to the size of a set.                     *)
(***************************************************************************)
LEMMA Sizes ==
    ASSUME NEW S, IsFiniteSet(S)
    PROVE  \A T \in SUBSET S :
              /\ Cardinality(T) \in Nat
              /\ T = {} <=> Cardinality(T) = 0
              /\ \A x \in T : Cardinality(T \ {x}) = Cardinality(T) - 1
<1> SUFFICES ASSUME NEW T \in SUBSET S
             PROVE  /\ Cardinality(T) \in Nat
                    /\ T = {} <=> Cardinality(T) = 0
                    /\ \A x \in T : Cardinality(T \ {x}) = Cardinality(T) - 1
  OBVIOUS
<1>1. IsFiniteSet(T)
  BY FS_Subset
<1>2. QED BY <1>1, FS_CardinalityType, FS_EmptySet, FS_RemoveElement

(***************************************************************************)
(* A set of subsets of a finite set has one that is minimal in it: the     *)
(* form in which induction on finite sets is used below.                   *)
(***************************************************************************)
LEMMA Minimal ==
    ASSUME NEW S, IsFiniteSet(S), NEW Bad \in SUBSET (SUBSET S), Bad # {}
    PROVE  \E T \in Bad : \A x \in T : T \ {x} \notin Bad
<1> DEFINE N == {Cardinality(T) : T \in Bad}
<1>1. N \in SUBSET Nat /\ N # {}
  BY Sizes
<1>2. PICK n \in N : \A m \in N : n <= m
  <2> HIDE DEF N
  <2>1. QED BY <1>1, LeastNat
<1>3. PICK T \in Bad : n = Cardinality(T)
  BY <1>2
<1>4. ASSUME NEW x \in T, T \ {x} \in Bad
      PROVE  FALSE
  <2>1. Cardinality(T \ {x}) = n - 1 /\ n \in Nat
    BY <1>3, Sizes
  <2>2. Cardinality(T \ {x}) \in N
    BY <1>4
  <2> HIDE DEF N
  <2>3. n <= n - 1
    BY <1>2, <2>1, <2>2
  <2>4. QED BY <2>1, <2>3
<1>5. QED BY <1>3, <1>4

(***************************************************************************)
(* The recursion has a solution on every finite set.                       *)
(***************************************************************************)
LEMMA Solved ==
    ASSUME NEW S, IsFiniteSet(S), NEW f, \A x \in S : f[x] \in Int
    PROVE  \E g \in [SUBSET S -> Int] : IsSum(g, f, S)
<1> DEFINE Up(g, n) == \A s \in SUBSET S :
                          Cardinality(s) <= n => g[s] = Round(f, g, s)
           Bad == {n \in Nat : ~\E g \in [SUBSET S -> Int] : Up(g, n)}
<1>1. \A s \in SUBSET S : s # {} => Pick(s) \in s /\ s \ {Pick(s)} \in SUBSET S
  BY DEF Pick
<1>2. ASSUME NEW g \in [SUBSET S -> Int], NEW s \in SUBSET S
      PROVE  Round(f, g, s) \in Int
  BY <1>1 DEF Round
<1>3. 0 \notin Bad
  <2> DEFINE z == [s \in SUBSET S |-> 0]
  <2>1. z \in [SUBSET S -> Int] /\ Up(z, 0)
    <3>1. ASSUME NEW s \in SUBSET S, Cardinality(s) <= 0
          PROVE  z[s] = Round(f, z, s)
      BY <3>1, Sizes DEF Round
    <3>2. QED BY <3>1
  <2>2. QED BY <2>1
<1>4. ASSUME NEW n \in Nat, n \notin Bad
      PROVE  n + 1 \notin Bad
  <2>1. PICK g \in [SUBSET S -> Int] : Up(g, n)
    BY <1>4
  <2> DEFINE h == [s \in SUBSET S |-> Round(f, g, s)]
  <2>2. h \in [SUBSET S -> Int]
    BY <1>2
  <2>3. ASSUME NEW s \in SUBSET S, Cardinality(s) <= n + 1
        PROVE  h[s] = Round(f, h, s)
    <3>1. CASE s = {}
      BY <3>1 DEF Round
    <3>2. CASE s # {}
      <4> DEFINE t == s \ {Pick(s)}
      <4>1. t \in SUBSET S /\ Cardinality(t) <= n
        BY <1>1, <2>3, <3>2, Sizes
      <4>2. h[t] = g[t]
        BY <2>1, <4>1
      <4>3. QED BY <3>2, <4>2 DEF Round
    <3>3. QED BY <3>1, <3>2
  <2>4. Up(h, n + 1)
    BY <2>3
  <2> HIDE DEF h
  <2>5. QED BY <2>2, <2>4
<1>5. Bad = {}
  <2> SUFFICES ASSUME Bad # {} PROVE FALSE
    OBVIOUS
  <2>1. Bad \in SUBSET Nat
    OBVIOUS
  <2> HIDE DEF Bad
  <2>2. PICK n \in Bad : \A m \in Bad : n <= m
    BY <2>1, LeastNat
  <2>3. n # 0 /\ n \in Nat
    BY <1>3, <2>1
  <2>4. n - 1 \in Nat /\ n - 1 \notin Bad
    BY <2>1, <2>2, <2>3
  <2>5. (n - 1) + 1 = n
    BY <2>3
  <2>6. QED BY <1>4, <2>4, <2>5
<1>6. Cardinality(S) \in Nat
  BY Sizes
<1>7. PICK g \in [SUBSET S -> Int] : Up(g, Cardinality(S))
  BY <1>5, <1>6
<1>8. ASSUME NEW s \in SUBSET S
      PROVE  g[s] = Round(f, g, s)
  <2>1. Cardinality(s) <= Cardinality(S)
    BY FS_Subset
  <2>2. QED BY <1>7, <2>1
<1>9. g = [s \in SUBSET S |-> Round(f, g, s)]
  BY <1>8
<1>10. QED BY <1>9 DEF IsSum

(***************************************************************************)
(* Solutions agree on the sets they share.                                 *)
(***************************************************************************)
LEMMA Agree ==
    ASSUME NEW S, IsFiniteSet(S), NEW R, S \subseteq R, NEW f, NEW h,
           \A x \in S : f[x] = h[x],
           NEW g, IsSum(g, f, S), NEW k, IsSum(k, h, R)
    PROVE  \A s \in SUBSET S : g[s] = k[s]
<1> DEFINE Bad == {s \in SUBSET S : g[s] # k[s]}
<1> SUFFICES ASSUME Bad # {} PROVE FALSE
  OBVIOUS
<1>1. PICK T \in Bad : \A x \in T : T \ {x} \notin Bad
  <2>1. Bad \in SUBSET (SUBSET S)
    OBVIOUS
  <2> HIDE DEF Bad
  <2>2. QED BY <2>1, Minimal
<1>2. T \in SUBSET S /\ T \in SUBSET R
  OBVIOUS
<1>3. g[T] = Round(f, g, T) /\ k[T] = Round(h, k, T)
  BY <1>2 DEF IsSum
<1>4. T # {}
  BY <1>3 DEF Round
<1>5. Pick(T) \in T
  BY <1>4 DEF Pick
<1>6. g[T \ {Pick(T)}] = k[T \ {Pick(T)}]
  BY <1>1, <1>2, <1>5
<1>7. QED BY <1>2, <1>3, <1>4, <1>5, <1>6 DEF Round

(***************************************************************************)
(* The order in which elements are taken does not matter.                  *)
(***************************************************************************)
LEMMA AnyOrder ==
    ASSUME NEW S, IsFiniteSet(S), NEW f, \A x \in S : f[x] \in Int,
           NEW g, IsSum(g, f, S), \A s \in SUBSET S : g[s] \in Int
    PROVE  \A s \in SUBSET S, x \in S : x \in s => g[s] = f[x] + g[s \ {x}]
<1> DEFINE Bad == {s \in SUBSET S : \E x \in s : g[s] # f[x] + g[s \ {x}]}
<1> SUFFICES ASSUME Bad # {} PROVE FALSE
  OBVIOUS
<1>1. PICK T \in Bad : \A x \in T : T \ {x} \notin Bad
  <2>1. Bad \in SUBSET (SUBSET S)
    OBVIOUS
  <2> HIDE DEF Bad
  <2>2. QED BY <2>1, Minimal
<1>2. PICK x \in T : g[T] # f[x] + g[T \ {x}]
  BY <1>1
<1> DEFINE p == Pick(T)
<1>3. p \in T /\ T \in SUBSET S
  BY <1>2 DEF Pick
<1>4. g[T] = f[p] + g[T \ {p}]
  BY <1>3 DEF IsSum, Round
<1> HIDE DEF p
<1>5. x # p
  BY <1>2, <1>4
<1>6. g[T \ {p}] = f[x] + g[(T \ {p}) \ {x}]
  BY <1>1, <1>2, <1>3, <1>5
<1>7. g[T \ {x}] = f[p] + g[(T \ {x}) \ {p}]
  BY <1>1, <1>2, <1>3, <1>5
<1>8. (T \ {p}) \ {x} = (T \ {x}) \ {p}
  OBVIOUS
<1> DEFINE rest == (T \ {x}) \ {p}
<1>9. f[x] \in Int /\ f[p] \in Int /\ g[rest] \in Int
  BY <1>2, <1>3
<1> HIDE DEF rest
<1>10. g[T] = f[p] + (f[x] + g[rest]) /\ g[T \ {x}] = f[p] + g[rest]
  BY <1>4, <1>6, <1>7, <1>8 DEF rest
<1>11. QED BY <1>2, <1>9, <1>10

(***************************************************************************)
(* The sum is what a solution says of the whole set.                       *)
(***************************************************************************)
LEMMA SumIs ==
    ASSUME NEW S, IsFiniteSet(S), NEW f, \A x \in S : f[x] \in Int
    PROVE  \E g \in [SUBSET S -> Int] :
              /\ IsSum(g, f, S)
              /\ SumFunctionOnSet(f, S) = g[S]
              /\ \A x \in S : g[S] = f[x] + g[S \ {x}]
<1> DEFINE c == CHOOSE g : g = [s \in SUBSET S |->
                  IF s = {} THEN 0
                  ELSE f[CHOOSE x \in s : TRUE] + g[s \ {CHOOSE x \in s : TRUE}]]
<1>1. SumFunctionOnSet(f, S) = c[S]
  BY DEF SumFunctionOnSet, FoldFunctionOnSet, MapThenFoldSet
<1>2. PICK g \in [SUBSET S -> Int] : IsSum(g, f, S)
  BY Solved
<1>3. c = [s \in SUBSET S |->
             IF s = {} THEN 0
             ELSE f[CHOOSE x \in s : TRUE] + c[s \ {CHOOSE x \in s : TRUE}]]
  BY <1>2 DEF IsSum, Round, Pick
<1>4. IsSum(c, f, S)
  BY <1>3 DEF IsSum, Round, Pick
<1> HIDE DEF c
<1>5. \A s \in SUBSET S : c[s] = g[s]
  BY <1>2, <1>4, Agree
<1>6. c[S] = g[S]
  BY <1>5
<1>7. \A s \in SUBSET S, x \in S : x \in s => g[s] = f[x] + g[s \ {x}]
  <2>1. \A s \in SUBSET S : g[s] \in Int
    OBVIOUS
  <2>2. QED BY <1>2, <2>1, AnyOrder
<1>8. \A x \in S : g[S] = f[x] + g[S \ {x}]
  BY <1>7
<1>9. QED BY <1>1, <1>2, <1>6, <1>8

(***************************************************************************)
(* The laws the other proofs use.                                          *)
(***************************************************************************)
\* The sum over nothing is zero.
LEMMA SumEmpty ==
    ASSUME NEW f
    PROVE  SumFunctionOnSet(f, {}) = 0
<1>1. PICK g \in [SUBSET {} -> Int] : IsSum(g, f, {}) /\ SumFunctionOnSet(f, {}) = g[{}]
  BY SumIs, FS_EmptySet
<1>2. g[{}] = 0
  BY <1>1 DEF IsSum, Round
<1>3. QED BY <1>1, <1>2

\* A sum of integers is an integer,
LEMMA SumType ==
    ASSUME NEW S, IsFiniteSet(S), NEW f, \A x \in S : f[x] \in Int
    PROVE  SumFunctionOnSet(f, S) \in Int
<1>1. PICK g \in [SUBSET S -> Int] : SumFunctionOnSet(f, S) = g[S]
  BY SumIs
<1>2. QED BY <1>1

\* and one of natural numbers a natural number.
LEMMA SumNat ==
    ASSUME NEW S, IsFiniteSet(S), NEW f, \A x \in S : f[x] \in Nat
    PROVE  SumFunctionOnSet(f, S) \in Nat
<1>0. \A x \in S : f[x] \in Int
  OBVIOUS
<1>1. PICK g \in [SUBSET S -> Int] : IsSum(g, f, S) /\ SumFunctionOnSet(f, S) = g[S]
  BY <1>0, SumIs
<1> DEFINE Bad == {s \in SUBSET S : g[s] \notin Nat}
<1> SUFFICES ASSUME Bad # {} PROVE FALSE
  BY <1>1
<1>2. PICK T \in Bad : \A x \in T : T \ {x} \notin Bad
  <2>1. Bad \in SUBSET (SUBSET S)
    OBVIOUS
  <2> HIDE DEF Bad
  <2>2. QED BY <2>1, Minimal
<1>3. T \in SUBSET S /\ g[T] \notin Nat
  BY <1>2
<1> HIDE DEF Bad
<1>4. g[T] = Round(f, g, T)
  BY <1>1, <1>3 DEF IsSum
<1>5. T # {}
  BY <1>3, <1>4 DEF Round
<1>6. Pick(T) \in T
  BY <1>5 DEF Pick
<1>7. g[T \ {Pick(T)}] \in Nat /\ f[Pick(T)] \in Nat
  BY <1>2, <1>3, <1>6 DEF Bad
<1>8. QED BY <1>3, <1>4, <1>5, <1>7 DEF Round

\* A sum depends on what f is on the set.
LEMMA SumSame ==
    ASSUME NEW S, IsFiniteSet(S), NEW f, NEW h,
           \A x \in S : f[x] \in Int /\ h[x] = f[x]
    PROVE  SumFunctionOnSet(h, S) = SumFunctionOnSet(f, S)
<1>1. PICK g \in [SUBSET S -> Int] : IsSum(g, f, S) /\ SumFunctionOnSet(f, S) = g[S]
  BY SumIs
<1>2. PICK k \in [SUBSET S -> Int] : IsSum(k, h, S) /\ SumFunctionOnSet(h, S) = k[S]
  BY SumIs
<1>3. \A s \in SUBSET S : g[s] = k[s]
  BY <1>1, <1>2, Agree
<1>4. QED BY <1>1, <1>2, <1>3

\* An element taken out takes its part with it,
LEMMA SumRemove ==
    ASSUME NEW S, IsFiniteSet(S), NEW f, \A y \in S : f[y] \in Int, NEW x \in S
    PROVE  SumFunctionOnSet(f, S) = f[x] + SumFunctionOnSet(f, S \ {x})
<1> DEFINE T == S \ {x}
<1>1. IsFiniteSet(T) /\ T \in SUBSET S
  BY FS_RemoveElement
<1>2. PICK g \in [SUBSET S -> Int] : IsSum(g, f, S) /\ SumFunctionOnSet(f, S) = g[S]
               /\ \A y \in S : g[S] = f[y] + g[S \ {y}]
  BY SumIs
<1>3. PICK k \in [SUBSET T -> Int] : IsSum(k, f, T) /\ SumFunctionOnSet(f, T) = k[T]
  <2>1. \A y \in T : f[y] \in Int
    OBVIOUS
  <2> HIDE DEF T
  <2>2. QED BY <1>1, <2>1, SumIs
<1>4. k[T] = g[T]
  <2>1. \A y \in T : f[y] = f[y]
    OBVIOUS
  <2> HIDE DEF T
  <2>2. \A s \in SUBSET T : k[s] = g[s]
    BY <1>1, <1>2, <1>3, Agree
  <2>3. QED BY <2>2
<1>5. g[S] = f[x] + g[T]
  BY <1>2
<1>6. QED BY <1>2, <1>3, <1>4, <1>5

\* and one put in brings it.
LEMMA SumAdd ==
    ASSUME NEW S, IsFiniteSet(S), NEW f, \A y \in S : f[y] \in Int,
           NEW x, x \notin S, f[x] \in Int
    PROVE  SumFunctionOnSet(f, S \cup {x}) = SumFunctionOnSet(f, S) + f[x]
<1> DEFINE T == S \cup {x}
<1>1. IsFiniteSet(T) /\ x \in T /\ T \ {x} = S
  BY FS_AddElement
<1>2. \A y \in T : f[y] \in Int
  OBVIOUS
<1> HIDE DEF T
<1>3. SumFunctionOnSet(f, T) = f[x] + SumFunctionOnSet(f, S)
  BY <1>1, <1>2, SumRemove
<1>4. SumFunctionOnSet(f, S) \in Int
  BY SumType
<1>5. QED BY <1>3, <1>4 DEF T

(***************************************************************************)
(* Sums by parts.                                                          *)
(***************************************************************************)
\* A set in two parts sums up to what the parts sum up to.
LEMMA SumUnion ==
    ASSUME NEW A, IsFiniteSet(A), NEW B, IsFiniteSet(B), A \cap B = {},
           NEW f, \A x \in A \cup B : f[x] \in Int
    PROVE  SumFunctionOnSet(f, A \cup B)
               = SumFunctionOnSet(f, A) + SumFunctionOnSet(f, B)
<1> DEFINE sum(s) == SumFunctionOnSet(f, s)
           Bad == {s \in SUBSET B : sum(A \cup s) # sum(A) + sum(s)}
<1> SUFFICES ASSUME Bad # {} PROVE FALSE
  OBVIOUS
<1>1. PICK T \in Bad : \A x \in T : T \ {x} \notin Bad
  <2>1. Bad \in SUBSET (SUBSET B)
    OBVIOUS
  <2> HIDE DEF Bad
  <2>2. QED BY <2>1, Minimal
<1>2. T \in SUBSET B /\ sum(A \cup T) # sum(A) + sum(T)
  BY <1>1
<1>3. sum(A) \in Int
  BY SumType
<1>4. T # {}
  <2>1. sum({}) = 0
    BY SumEmpty
  <2>2. A \cup {} = A
    OBVIOUS
  <2>3. sum(A) + 0 = sum(A)
    BY <1>3
  <2> HIDE DEF sum, Bad
  <2>4. ASSUME T = {} PROVE FALSE
    BY <1>2, <2>1, <2>2, <2>3, <2>4
  <2>5. QED BY <2>4
<1>5. PICK x \in T : TRUE
  BY <1>4
<1> DEFINE R == T \ {x}
<1>6. R \in SUBSET B /\ IsFiniteSet(R) /\ x \notin R /\ x \notin A \cup R
  BY <1>2, FS_Subset
<1>7. sum(A \cup R) = sum(A) + sum(R)
  BY <1>1, <1>6
<1>8. T = R \cup {x} /\ A \cup T = (A \cup R) \cup {x}
  OBVIOUS
<1> HIDE DEF R, Bad
<1>9. IsFiniteSet(A \cup R) /\ \A y \in A \cup R : f[y] \in Int
  BY <1>6, FS_Union
<1>10. f[x] \in Int /\ \A y \in R : f[y] \in Int
  BY <1>2, <1>6
<1>11. sum(R \cup {x}) = sum(R) + f[x]
  BY <1>6, <1>10, SumAdd
<1>12. sum((A \cup R) \cup {x}) = sum(A \cup R) + f[x]
  BY <1>6, <1>9, <1>10, SumAdd
<1>13. sum(R) \in Int
  BY <1>6, <1>10, SumType
<1>14. sum(A) + (sum(R) + f[x]) = (sum(A) + sum(R)) + f[x]
  <2> HIDE DEF sum
  <2>1. QED BY <1>3, <1>10, <1>13
<1> HIDE DEF sum
<1>15. QED BY <1>14, <1>2, <1>3, <1>7, <1>8, <1>10, <1>11, <1>12, <1>13

\* Finitely many elements have finitely many keys.
LEMMA FiniteKeys ==
    ASSUME NEW S, IsFiniteSet(S), NEW key
    PROVE  IsFiniteSet({key[x] : x \in S})
<1> DEFINE keys(s) == {key[x] : x \in s}
           Bad == {s \in SUBSET S : ~ IsFiniteSet(keys(s))}
<1> SUFFICES ASSUME Bad # {} PROVE FALSE
  OBVIOUS
<1>1. PICK T \in Bad : \A x \in T : T \ {x} \notin Bad
  <2>1. Bad \in SUBSET (SUBSET S)
    OBVIOUS
  <2> HIDE DEF Bad
  <2>2. QED BY <2>1, Minimal
<1>2. T # {}
  <2>1. keys({}) = {}
    OBVIOUS
  <2>2. QED BY <1>1, <2>1, FS_EmptySet
<1>3. PICK x \in T : TRUE
  BY <1>2
<1>4. IsFiniteSet(keys(T \ {x}))
  BY <1>1
<1>5. keys(T) = keys(T \ {x}) \cup {key[x]}
  OBVIOUS
<1>6. IsFiniteSet(keys(T))
  <2> DEFINE U == keys(T \ {x})
  <2>1. IsFiniteSet(U)
    BY <1>4
  <2> HIDE DEF U
  <2>2. IsFiniteSet(U \cup {key[x]})
    BY <2>1, FS_AddElement
  <2>3. QED BY <1>5, <2>2 DEF U
<1>7. QED BY <1>1, <1>6

\* S and T come in parts, by the key of an element, that sum up to the same,
SameParts(f, S, h, T, key, K, P, Q) ==
    /\ \A x \in S \cup T : key[x] \in K
    /\ \A k \in K : P[k] \subseteq S /\ \A x \in S : x \in P[k] <=> key[x] = k
    /\ \A k \in K : Q[k] \subseteq T /\ \A y \in T : y \in Q[k] <=> key[y] = k
    /\ \A k \in K : SumFunctionOnSet(f, P[k]) = SumFunctionOnSet(h, Q[k])

\* and so they sum up to the same.
LEMMA SumByKey ==
    ASSUME NEW S, IsFiniteSet(S), NEW f, \A x \in S : f[x] \in Int,
           NEW T, IsFiniteSet(T), NEW h, \A y \in T : h[y] \in Int,
           NEW key, NEW K, NEW P, NEW Q, SameParts(f, S, h, T, key, K, P, Q)
    PROVE  SumFunctionOnSet(f, S) = SumFunctionOnSet(h, T)
<1> DEFINE Used == {key[x] : x \in S \cup T}
           S0(q) == {x \in S : key[x] \in q}
           T0(q) == {y \in T : key[y] \in q}
           Bad == {q \in SUBSET Used : SumFunctionOnSet(f, S0(q)) # SumFunctionOnSet(h, T0(q))}
<1>1. S0(Used) = S /\ T0(Used) = T
  OBVIOUS
<1> SUFFICES ASSUME Bad # {} PROVE FALSE
  <2>1. Bad = {} => SumFunctionOnSet(f, S0(Used)) = SumFunctionOnSet(h, T0(Used))
    <3> HIDE DEF S0, T0
    <3>1. QED OBVIOUS
  <2> HIDE DEF S0, T0, Bad, Used
  <2>2. QED BY <1>1, <2>1
<1>2. IsFiniteSet(Used)
  <2> DEFINE U == S \cup T
  <2>1. IsFiniteSet(U)
    BY FS_Union
  <2> HIDE DEF U
  <2>2. IsFiniteSet({key[x] : x \in U})
    BY <2>1, FiniteKeys
  <2>3. QED BY <2>2 DEF U
<1>3. PICK q \in Bad : \A k \in q : q \ {k} \notin Bad
  <2>1. Bad \in SUBSET (SUBSET Used)
    OBVIOUS
  <2> HIDE DEF Bad, Used
  <2>2. QED BY <1>2, <2>1, Minimal
<1>4. q \in SUBSET Used /\ SumFunctionOnSet(f, S0(q)) # SumFunctionOnSet(h, T0(q))
  BY <1>3
<1>5. q # {}
  <2> SUFFICES ASSUME q = {} PROVE FALSE
    OBVIOUS
  <2>1. S0(q) = {} /\ T0(q) = {}
    OBVIOUS
  <2> HIDE DEF S0, T0
  <2>2. QED BY <1>4, <2>1, SumEmpty
<1>6. PICK k \in q : TRUE
  BY <1>5
<1> DEFINE Sk == P[k]
           Tk == Q[k]
           R == q \ {k}
<1>7. SumFunctionOnSet(f, S0(R)) = SumFunctionOnSet(h, T0(R))
  BY <1>3, <1>4
<1>8. /\ SumFunctionOnSet(f, Sk) = SumFunctionOnSet(h, Tk)
      /\ Sk \subseteq S /\ \A x \in S : x \in Sk <=> key[x] = k
      /\ Tk \subseteq T /\ \A y \in T : y \in Tk <=> key[y] = k
  <2>1. k \in K
    BY <1>4, <1>6 DEF SameParts
  <2>2. QED BY <2>1 DEF SameParts
<1>9. /\ S0(q) = S0(R) \cup Sk /\ S0(R) \cap Sk = {}
      /\ T0(q) = T0(R) \cup Tk /\ T0(R) \cap Tk = {}
  <2> HIDE DEF Sk, Tk
  <2>1. QED BY <1>6, <1>8
<1>10. /\ S0(R) \in SUBSET S /\ Sk \in SUBSET S /\ T0(R) \in SUBSET T /\ Tk \in SUBSET T
  BY <1>8
<1> HIDE DEF S0, T0, Sk, Tk, Bad, Used, R
<1>11. IsFiniteSet(S0(R)) /\ IsFiniteSet(Sk) /\ IsFiniteSet(T0(R)) /\ IsFiniteSet(Tk)
  BY <1>10, FS_Subset
<1>12. /\ \A x \in S0(R) \cup Sk : f[x] \in Int
       /\ \A y \in T0(R) \cup Tk : h[y] \in Int
  BY <1>10
<1>13. SumFunctionOnSet(f, S0(R) \cup Sk)
           = SumFunctionOnSet(f, S0(R)) + SumFunctionOnSet(f, Sk)
  BY <1>9, <1>11, <1>12, SumUnion
<1>14. SumFunctionOnSet(h, T0(R) \cup Tk)
           = SumFunctionOnSet(h, T0(R)) + SumFunctionOnSet(h, Tk)
  BY <1>9, <1>11, <1>12, SumUnion
<1>15. QED BY <1>4, <1>7, <1>8, <1>9, <1>13, <1>14
=============================================================================
