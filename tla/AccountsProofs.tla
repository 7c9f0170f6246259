----------------------------- MODULE AccountsProofs -----------------------------
(***************************************************************************)
(* The four safety properties of module Accounts, for any number of users, *)
(* keys, groups, names and requests served at the same time.               *)
(***************************************************************************)
EXTENDS Accounts, FiniteSetTheorems, TLAPS

Labels ==
    {"idle", "user", "group", "ready", "profile", "status", "role", "adjust",
     "groups", "insert", "create", "allow", "audit", "gcreate", "gpatch",
     "gdelete", "lookup", "verify", "session", "keygroup", "count", "newkey"}
Kinds == {"none", "profile", "status", "role", "adjust", "groups", "create",
          "register", "group"}
States == {"none", "active", "disabled"}
Ranks == {"none", "user", "admin", "super"}
Words == States \cup Ranks \cup {"debit", "credit", "grant"}
Account == [role : Ranks, status : States]
Row == [group : Groups \cup {NoGroup}, no : Nat]
APIKey == [status : {"free", "active", "disabled"}, owner : Users,
           group : Groups \cup {NoGroup}]
Counter == [count : Nat, lock : {"no", "yes", "over"}]
Request ==
    [pc : Labels, kind : Kinds, who : Users, role : Ranks,
     grp : Groups \cup {NoGroup}, to : Users, name : Names, val : Words,
     set : SUBSET Groups, seen : SUBSET Row, over : BOOLEAN, no : Nat]

TypeOK ==
    /\ acct \in [Users -> Account] /\ trail \in [Users -> Account]
    /\ default \in [Users -> Groups \cup {NoGroup}]
    /\ allowed \in [Users -> SUBSET Row]
    /\ key \in [Keys -> APIKey]
    /\ fails \in [Names -> Counter]
    /\ req \in [Procs -> Request]
    /\ begun \in Nat

Logging == {"role", "status", "create"}

\* What a request carries fits what it is about to do, and a change that waits
\* for its record is still the last one, unless another came over it.
ReqOK(p) ==
    LET r == req[p] IN
    /\ r.pc = "role" => /\ r.kind = "role" /\ r.val \in Roles /\ Exists(r.to)
                        /\ r.role = "super" /\ r.to # r.who
    /\ r.pc = "status" => /\ r.kind = "status" /\ r.val \in {"active", "disabled"}
                          /\ Exists(r.to)
                          /\ r.val = "disabled" => r.to # r.who
    /\ r.pc = "create" => r.kind \in {"create", "register"} /\ r.val \in Roles
    /\ r.pc \in {"profile", "adjust", "groups", "insert", "gcreate", "gpatch", "gdelete"}
           => r.kind \notin Logging
    /\ r.pc \in {"allow", "audit"} /\ r.kind \in Logging =>
           /\ Exists(r.to)
           /\ r.val \in IF r.kind = "status" THEN {"active", "disabled"} ELSE Roles
           /\ ~r.over => /\ r.kind # "status" => acct[r.to].role = r.val
                         /\ r.kind = "status" => acct[r.to].status = r.val
                         /\ r.kind = "create" => acct[r.to].status = "active"

\* Requests about to make a key for u, and to try a password for n.
Making(u) == {p \in Procs : req[p].pc = "newkey" /\ req[p].who = u}
Trying(n) == {p \in Procs : req[p].pc \in {"lookup", "verify"} /\ req[p].name = n}

KeyBound(u) ==
    Cardinality(KeysOf(u)) + Cardinality(Making(u)) <= KeyLimit - 1 + Cardinality(Procs)

GuessBound(n) ==
    /\ fails[n].lock = "no" => fails[n].count < MaxFailures
    /\ fails[n].lock = "yes" =>
           fails[n].count + Cardinality(Trying(n)) <= MaxFailures - 1 + Cardinality(Procs)
    /\ fails[n].lock = "over" => fails[n].count <= MaxFailures - 1 + Cardinality(Procs)

\* Both halves of an account are as recorded, or a record of that half waits.
Told(u) ==
    \/ u \in crossed
    \/ /\ trail[u].role = acct[u].role
          \/ \E p \in Procs : Pending(p, u, {"role", "create"})
       /\ trail[u].status = acct[u].status
          \/ \E p \in Procs : Pending(p, u, {"status", "create"})

AccountsInv ==
    /\ TypeOK
    /\ \A p \in Procs : ReqOK(p)
    /\ SuperLossHasCause
    /\ \A u \in Users : KeyBound(u) /\ Told(u)
    /\ \A n \in Names : GuessBound(n)

-----------------------------------------------------------------------------
(* Sizes                                                                   *)

\* What the assumption says of the sizes, as numbers.
LEMMA Numbers ==
    /\ KeyLimit \in Nat \ {0} /\ MaxFailures \in Nat \ {0}
    /\ IsFiniteSet(Procs) /\ Cardinality(Procs) \in Nat \ {0}
    /\ IsFiniteSet(Keys)
<1>1. Cardinality(Procs) \in Nat /\ Cardinality(Procs) # 0
  BY AccountsAssumption, FS_CardinalityType, FS_EmptySet DEF AccountsAssumption
<1>2. QED BY <1>1, AccountsAssumption DEF AccountsAssumption

\* Every set that is counted is finite, and those of requests are no larger than Procs.
LEMMA Sizes ==
    /\ \A u \in Users : /\ IsFiniteSet(Making(u)) /\ Cardinality(Making(u)) \in Nat
                        /\ Cardinality(Making(u)) <= Cardinality(Procs)
                        /\ IsFiniteSet(KeysOf(u)) /\ Cardinality(KeysOf(u)) \in Nat
    /\ \A n \in Names : /\ IsFiniteSet(Trying(n)) /\ Cardinality(Trying(n)) \in Nat
                        /\ Cardinality(Trying(n)) <= Cardinality(Procs)
<1>1. ASSUME NEW S \in SUBSET Procs
      PROVE  IsFiniteSet(S) /\ Cardinality(S) \in Nat /\ Cardinality(S) <= Cardinality(Procs)
  BY Numbers, FS_Subset, FS_CardinalityType
<1>2. ASSUME NEW u \in Users PROVE IsFiniteSet(KeysOf(u)) /\ Cardinality(KeysOf(u)) \in Nat
  <2>1. KeysOf(u) \subseteq Keys BY DEF KeysOf
  <2>2. QED BY <2>1, Numbers, FS_Subset, FS_CardinalityType
<1>3. \A u \in Users : Making(u) \in SUBSET Procs BY DEF Making
<1>4. \A n \in Names : Trying(n) \in SUBSET Procs BY DEF Trying
<1>5. QED BY <1>1, <1>2, <1>3, <1>4

\* The same one step later.
LEMMA SizesNext ==
    /\ \A u \in Users : /\ IsFiniteSet(Making(u)') /\ Cardinality(Making(u)') \in Nat
                        /\ Cardinality(Making(u)') <= Cardinality(Procs)
                        /\ IsFiniteSet(KeysOf(u)') /\ Cardinality(KeysOf(u)') \in Nat
    /\ \A n \in Names : /\ IsFiniteSet(Trying(n)') /\ Cardinality(Trying(n)') \in Nat
                        /\ Cardinality(Trying(n)') <= Cardinality(Procs)
<1>1. ASSUME NEW S \in SUBSET Procs
      PROVE  IsFiniteSet(S) /\ Cardinality(S) \in Nat /\ Cardinality(S) <= Cardinality(Procs)
  BY Numbers, FS_Subset, FS_CardinalityType
<1>2. ASSUME NEW u \in Users PROVE IsFiniteSet(KeysOf(u)') /\ Cardinality(KeysOf(u)') \in Nat
  <2>1. KeysOf(u)' \subseteq Keys BY DEF KeysOf
  <2>2. QED BY <2>1, Numbers, FS_Subset, FS_CardinalityType
<1>3. \A u \in Users : Making(u)' \in SUBSET Procs BY DEF Making
<1>4. \A n \in Names : Trying(n)' \in SUBSET Procs BY DEF Trying
<1>5. QED BY <1>1, <1>2, <1>3, <1>4

-----------------------------------------------------------------------------
(* Requests, one field at a time                                           *)

\* The blank request has its type.
LEMMA BlankTyped == Blank \in Request
  <1>1. Anyone \in Users /\ AnyName \in Names
    <2>1. Names # {} /\ Users # {}
      BY AccountsAssumption DEF AccountsAssumption
    <2>2. QED BY <2>1 DEF Anyone, AnyName
  <1>2. QED BY <1>1 DEF Blank, Request, Labels, Kinds, Words, Ranks, States

\* A request with one field of its type replaced is a request.
LEMMA FieldTyped ==
    ASSUME NEW r \in Request
    PROVE  /\ \A v \in Labels : [r EXCEPT !.pc = v] \in Request
           /\ \A v \in Kinds : [r EXCEPT !.kind = v] \in Request
           /\ \A v \in Users : [r EXCEPT !.who = v] \in Request
           /\ \A v \in Ranks : [r EXCEPT !.role = v] \in Request
           /\ \A v \in Groups \cup {NoGroup} : [r EXCEPT !.grp = v] \in Request
           /\ \A v \in Users : [r EXCEPT !.to = v] \in Request
           /\ \A v \in Names : [r EXCEPT !.name = v] \in Request
           /\ \A v \in Words : [r EXCEPT !.val = v] \in Request
           /\ \A v \in SUBSET Groups : [r EXCEPT !.set = v] \in Request
           /\ \A v \in SUBSET Row : [r EXCEPT !.seen = v] \in Request
           /\ \A v \in BOOLEAN : [r EXCEPT !.over = v] \in Request
           /\ \A v \in Nat : [r EXCEPT !.no = v] \in Request
<1>1. \A v \in Labels : [r EXCEPT !.pc = v] \in Request BY DEF Request
<1>2. \A v \in Kinds : [r EXCEPT !.kind = v] \in Request BY DEF Request
<1>3. \A v \in Users : [r EXCEPT !.who = v] \in Request BY DEF Request
<1>4. \A v \in Ranks : [r EXCEPT !.role = v] \in Request BY DEF Request
<1>5. \A v \in Groups \cup {NoGroup} : [r EXCEPT !.grp = v] \in Request BY DEF Request
<1>6. \A v \in Users : [r EXCEPT !.to = v] \in Request BY DEF Request
<1>7. \A v \in Names : [r EXCEPT !.name = v] \in Request BY DEF Request
<1>8. \A v \in Words : [r EXCEPT !.val = v] \in Request BY DEF Request
<1>9. \A v \in SUBSET Groups : [r EXCEPT !.set = v] \in Request BY DEF Request
<1>10. \A v \in SUBSET Row : [r EXCEPT !.seen = v] \in Request BY DEF Request
<1>11. \A v \in BOOLEAN : [r EXCEPT !.over = v] \in Request BY DEF Request
<1>12. \A v \in Nat : [r EXCEPT !.no = v] \in Request BY DEF Request
<1>13. QED
  BY <1>1, <1>2, <1>3, <1>4, <1>5, <1>6, <1>7, <1>8, <1>9, <1>10, <1>11, <1>12

-----------------------------------------------------------------------------
(* What a step leaves alone                                                *)

\* Only the request p moves.
Still(p) == \A q \in Procs \ {p} : req'[q] = req[q]

\* No other moves on, though it may be noted that it comes too late.
Alike(p) ==
    \A q \in Procs \ {p} :
        /\ req'[q].pc = req[q].pc /\ req'[q].kind = req[q].kind
        /\ req'[q].who = req[q].who /\ req'[q].to = req[q].to
        /\ req'[q].name = req[q].name

\* Who stays the same moves on no further.
LEMMA StillAlike == ASSUME NEW p \in Procs, Still(p) PROVE Alike(p)
BY DEF Still, Alike

\* Others stay as they should be, while no account changes.
LEMMA FrameReq ==
    ASSUME AccountsInv, NEW p \in Procs, Still(p), ReqOK(p)', UNCHANGED acct
    PROVE  \A q \in Procs : ReqOK(q)'
<1>1. ASSUME NEW q \in Procs \ {p} PROVE ReqOK(q)'
  <2>1. ReqOK(q) /\ req'[q] = req[q] BY DEF AccountsInv, Still
  <2>2. QED BY <2>1 DEF ReqOK, Exists
<1>2. QED BY <1>1

\* Keys stay within bounds while nobody more makes one.
LEMMA KeysKept ==
    ASSUME AccountsInv, NEW u \in Users,
           KeysOf(u)' \subseteq KeysOf(u), Making(u)' \subseteq Making(u)
    PROVE  KeyBound(u)'
<1>1. Cardinality(Making(u)') <= Cardinality(Making(u)) BY Sizes, FS_Subset
<1>2. Cardinality(KeysOf(u)') <= Cardinality(KeysOf(u)) BY Sizes, FS_Subset
<1>3. KeyBound(u) BY DEF AccountsInv
<1>4. QED BY <1>1, <1>2, <1>3, Sizes, SizesNext, Numbers DEF KeyBound

\* The same for a step of one request that makes no key.
LEMMA FrameKeys ==
    ASSUME AccountsInv, NEW p \in Procs, Alike(p), req'[p].pc # "newkey",
           NEW u \in Users, KeysOf(u)' \subseteq KeysOf(u)
    PROVE  KeyBound(u)'
<1>1. Making(u)' \subseteq Making(u) BY DEF Making, Alike
<1>2. QED BY <1>1, KeysKept

\* Counters stay within bounds while nobody more tries a password.
LEMMA GuessKept ==
    ASSUME AccountsInv, NEW n \in Names, fails'[n] = fails[n],
           fails[n].lock = "yes" => Trying(n)' \subseteq Trying(n)
    PROVE  GuessBound(n)'
<1>1. GuessBound(n) /\ fails[n].count \in Nat BY DEF AccountsInv, TypeOK, Counter
<1>2. CASE fails[n].lock = "yes"
  <2>1. Cardinality(Trying(n)') <= Cardinality(Trying(n)) BY <1>2, Sizes, FS_Subset
  <2>2. QED BY <1>1, <1>2, <2>1, Sizes, SizesNext, Numbers DEF GuessBound
<1>3. CASE fails[n].lock # "yes" BY <1>1, <1>3 DEF GuessBound
<1>4. QED BY <1>2, <1>3

\* The same for a step of one request that starts no guess.
LEMMA FrameGuess ==
    ASSUME AccountsInv, NEW p \in Procs, Alike(p), NEW n \in Names,
           req'[p].pc \in {"lookup", "verify"} =>
               req[p].pc \in {"lookup", "verify"} /\ req'[p].name = req[p].name,
           fails'[n] = fails[n]
    PROVE  GuessBound(n)'
<1>1. Trying(n)' \subseteq Trying(n) BY DEF Trying, Alike
<1>2. QED BY <1>1, GuessKept

\* The trail goes on telling what it told, or somebody is still to write it.
LEMMA FrameTold ==
    ASSUME AccountsInv, NEW p \in Procs, Alike(p), UNCHANGED <<acct, trail>>,
           crossed \subseteq crossed',
           \/ req[p].pc \notin {"allow", "audit"}
           \/ /\ req'[p].pc \in {"allow", "audit"}
              /\ req'[p].kind = req[p].kind /\ req'[p].to = req[p].to
           \/ Unrecorded({p}) \subseteq crossed',
           NEW u \in Users
    PROVE  Told(u)'
<1>1. CASE u \in crossed' BY <1>1 DEF Told
<1>2. CASE u \notin crossed'
  <2>1. Told(u) /\ u \notin crossed BY <1>2 DEF AccountsInv
  <2>2. ASSUME NEW q \in Procs, NEW K \in {{"role", "create"}, {"status", "create"}},
               Pending(q, u, K)
        PROVE  Pending(q, u, K)'
    <3>1. CASE q # p BY <2>2, <3>1 DEF Pending, Alike
    <3>2. CASE q = p
      <4>1. req[p].pc \in {"allow", "audit"} BY <2>2, <3>2 DEF Pending
      <4>2. u \in Unrecorded({p}) BY <2>2, <3>2 DEF Pending, Unrecorded
      <4>3. QED BY <1>2, <2>2, <3>2, <4>1, <4>2 DEF Pending
    <3>3. QED BY <3>1, <3>2
  <2>3. QED BY <2>1, <2>2 DEF Told
<1>3. QED BY <1>1, <1>2

\* A step of one request that changes no account and no record of one.
LEMMA AccountsKept ==
    ASSUME AccountsInv, NEW p \in Procs, Still(p), ReqOK(p)',
           UNCHANGED <<acct, trail, hasty>>, crossed \subseteq crossed',
           \/ req[p].pc \notin {"allow", "audit"}
           \/ /\ req'[p].pc \in {"allow", "audit"}
              /\ req'[p].kind = req[p].kind /\ req'[p].to = req[p].to
           \/ Unrecorded({p}) \subseteq crossed'
    PROVE  /\ \A q \in Procs : ReqOK(q)'
           /\ SuperLossHasCause'
           /\ \A u \in Users : Told(u)'
<1>1. \A q \in Procs : ReqOK(q)' BY FrameReq
<1>2. SuperLossHasCause' BY DEF AccountsInv, SuperLossHasCause, ActiveSuper
<1>3. \A u \in Users : Told(u)' BY StillAlike, FrameTold
<1>4. QED BY <1>1, <1>2, <1>3

\* The same, and it neither makes a key nor tries a password.
LEMMA LocalStep ==
    ASSUME AccountsInv, NEW p \in Procs, TypeOK', Still(p), ReqOK(p)',
           UNCHANGED <<acct, trail, hasty, key, fails>>, crossed \subseteq crossed',
           req'[p].pc # "newkey",
           req'[p].pc \in {"lookup", "verify"} =>
               req[p].pc \in {"lookup", "verify"} /\ req'[p].name = req[p].name,
           \/ req[p].pc \notin {"allow", "audit"}
           \/ /\ req'[p].pc \in {"allow", "audit"}
              /\ req'[p].kind = req[p].kind /\ req'[p].to = req[p].to
           \/ Unrecorded({p}) \subseteq crossed'
    PROVE  AccountsInv'
<1>1. /\ \A q \in Procs : ReqOK(q)'
      /\ SuperLossHasCause'
      /\ \A u \in Users : Told(u)'
  BY AccountsKept
<1>2. \A u \in Users : KeyBound(u)'
  <2>1. \A u \in Users : KeysOf(u)' = KeysOf(u) BY DEF KeysOf, Live
  <2>2. QED BY <2>1, StillAlike, FrameKeys
<1>3. \A n \in Names : GuessBound(n)' BY StillAlike, FrameGuess
<1>4. QED BY <1>1, <1>2, <1>3 DEF AccountsInv

-----------------------------------------------------------------------------
(* How requests move                                                       *)

\* Labels at which nothing is promised yet.
Plain == {"idle", "user", "group", "ready", "lookup", "verify", "session",
          "keygroup", "count", "newkey"}

\* A request at a plain label promises nothing.
LEMMA PlainOK ==
    ASSUME NEW p \in Procs, req'[p].pc \in Plain
    PROVE  ReqOK(p)'
BY DEF ReqOK, Plain

\* A request that ends is blank.
LEMMA EndFacts ==
    ASSUME TypeOK, NEW p \in Procs, End(p)
    PROVE  /\ req' \in [Procs -> Request] /\ Still(p)
           /\ req'[p].pc = "idle" /\ ReqOK(p)'
<1>1. req' \in [Procs -> Request] /\ Still(p) /\ req'[p] = Blank
  BY BlankTyped DEF TypeOK, End, Still
<1>2. req'[p].pc = "idle" BY <1>1 DEF Blank
<1>3. QED BY <1>1, <1>2, PlainOK DEF Plain

\* A request that goes on keeps everything but its place.
LEMMA GotoFacts ==
    ASSUME TypeOK, NEW p \in Procs, NEW l \in Labels, Goto(p, l)
    PROVE  /\ req' \in [Procs -> Request] /\ Still(p)
           /\ req'[p] = [req[p] EXCEPT !.pc = l]
           /\ req'[p].pc = l
           /\ req'[p].kind = req[p].kind /\ req'[p].who = req[p].who
           /\ req'[p].to = req[p].to /\ req'[p].name = req[p].name
           /\ req'[p].val = req[p].val /\ req'[p].over = req[p].over
           /\ req'[p].role = req[p].role
<1>1. /\ [req[p] EXCEPT !.pc = l] \in Request
      /\ req' = [req EXCEPT ![p] = [req[p] EXCEPT !.pc = l]]
  BY FieldTyped DEF TypeOK, Goto
<1>2. req' \in [Procs -> Request] /\ Still(p) /\ req'[p] = [req[p] EXCEPT !.pc = l]
  BY <1>1 DEF TypeOK, Still
<1>3. req[p] \in Request BY DEF TypeOK
<1>4. QED BY <1>2, <1>3 DEF Request

\* A new request is what it was begun with.
LEMMA BeginFacts ==
    ASSUME TypeOK, NEW p \in Procs, NEW r \in Request, Begin(p, r)
    PROVE  /\ req' \in [Procs -> Request] /\ Still(p) /\ begun' \in Nat
           /\ req[p].pc = "idle"
           /\ req'[p].pc = r.pc /\ req'[p].kind = r.kind /\ req'[p].val = r.val
           /\ req'[p].name = r.name
<1>1. begun + 1 \in Nat /\ begun' = begun + 1 BY DEF TypeOK, Begin
<1>2. [r EXCEPT !.no = begun + 1] \in Request BY <1>1, FieldTyped
<1>3. req' = [req EXCEPT ![p] = [r EXCEPT !.no = begun + 1]] BY DEF Begin
<1>4. /\ req' \in [Procs -> Request] /\ Still(p)
      /\ req'[p] = [r EXCEPT !.no = begun + 1]
  BY <1>2, <1>3 DEF TypeOK, Still
<1>5. QED BY <1>1, <1>4 DEF Request, Begin, At

\* The handler may go on with what it was asked for.
LEMMA AskFacts ==
    ASSUME TypeOK, NEW p \in Procs, NEW l \in Labels, NEW k \in Kinds, NEW u \in Users,
           NEW v \in Words, NEW g \in Groups \cup {NoGroup}, NEW set \in SUBSET Groups,
           Ask(p, l, k, u, v, g, set)
    PROVE  /\ TypeOK' /\ Still(p)
           /\ req[p].pc = "ready" /\ req'[p].pc = l /\ req'[p].kind = k
           /\ req'[p].to = u /\ req'[p].val = v
           /\ req'[p].who = req[p].who /\ req'[p].role = req[p].role
           /\ UNCHANGED <<acct, trail, hasty, key, fails, crossed>>
<1> DEFINE a == [req[p] EXCEPT !.pc = l]
           b == [a EXCEPT !.kind = k]
           c == [b EXCEPT !.to = u]
           d == [c EXCEPT !.val = v]
           e == [d EXCEPT !.grp = g]
           f == [e EXCEPT !.set = set]
<1>1. a \in Request BY FieldTyped DEF TypeOK
<1>2. b \in Request BY <1>1, FieldTyped
<1>3. c \in Request BY <1>2, FieldTyped
<1>4. d \in Request BY <1>3, FieldTyped
<1>5. e \in Request BY <1>4, FieldTyped
<1>6. f \in Request BY <1>5, FieldTyped
<1>7. req' = [req EXCEPT ![p] = f] BY Zenon DEF Ask
<1>8. req' \in [Procs -> Request] BY <1>6, <1>7 DEF TypeOK
<1>9. UNCHANGED <<acct, default, allowed, key, fails, begun, trail, hasty, crossed>>
  BY DEF Ask, users, counts, history
<1>10. TypeOK' BY <1>8, <1>9 DEF TypeOK
<1>11. Still(p) /\ req'[p] = f
  BY <1>7 DEF TypeOK, Still
<1>12. /\ f.pc = l /\ f.kind = k /\ f.to = u /\ f.val = v
       /\ f.who = req[p].who /\ f.role = req[p].role
  <2>1. req[p] \in Request
    BY DEF TypeOK
  <2>2. QED BY <2>1 DEF Request
<1>13. req[p].pc = "ready"
  BY DEF Ask, RequireAdmin, At
<1> HIDE DEF a, b, c, d, e, f
<1>14. QED BY <1>9, <1>10, <1>11, <1>12, <1>13

-----------------------------------------------------------------------------
(* Principals                                                              *)

\* A session is presented: nothing is promised yet.
LEMMA BySessionStep ==
    ASSUME AccountsInv, NEW p \in Procs, NEW u \in Users, BySession(p, u)
    PROVE  AccountsInv'
<1> DEFINE a == [Blank EXCEPT !.pc = "user"]
           b == [a EXCEPT !.who = u]
<1>1. a \in Request BY BlankTyped, FieldTyped DEF Labels
<1>2. b \in Request /\ b.pc = "user"
  <2>1. b \in Request BY <1>1, FieldTyped
  <2>2. a.pc = "user" BY BlankTyped DEF Request
  <2>3. b.pc = a.pc BY <1>1 DEF Request
  <2>4. QED BY <2>1, <2>2, <2>3
<1>3. [Blank EXCEPT !.pc = "user", !.who = u] = b BY Zenon
<1> HIDE DEF b
<1>4. TypeOK /\ Begin(p, b) BY <1>3 DEF BySession, AccountsInv
<1>5. /\ req' \in [Procs -> Request] /\ Still(p) /\ begun' \in Nat
      /\ req[p].pc = "idle" /\ req'[p].pc = "user"
  BY <1>2, <1>4, BeginFacts
<1>6. UNCHANGED <<acct, default, allowed, key, fails, trail, hasty, crossed>>
  BY DEF BySession, users, history
<1>7. TypeOK' BY <1>4, <1>5, <1>6 DEF TypeOK
<1>8. ReqOK(p)' BY <1>5, PlainOK DEF Plain
<1>9. QED BY <1>5, <1>6, <1>7, <1>8, LocalStep

\* A key is presented: nothing is promised yet.
LEMMA ByKeyStep ==
    ASSUME AccountsInv, NEW p \in Procs, NEW k \in Keys, ByKey(p, k)
    PROVE  AccountsInv'
<1> DEFINE u == key[k].owner
           g == key[k].group
           a == [Blank EXCEPT !.pc = "user"]
           b == [a EXCEPT !.who = u]
           c == [b EXCEPT !.grp = g]
<1>0. u \in Users /\ g \in Groups \cup {NoGroup} BY DEF AccountsInv, TypeOK, APIKey
<1>1. a \in Request BY BlankTyped, FieldTyped DEF Labels
<1>2. b \in Request BY <1>0, <1>1, FieldTyped
<1>3. c \in Request BY <1>0, <1>2, FieldTyped
<1>4. c.pc = "user" BY BlankTyped DEF Request
<1>5. [Blank EXCEPT !.pc = "user", !.who = u, !.grp = g] = c BY Zenon
<1> HIDE DEF c
<1>6. TypeOK /\ Begin(p, c) BY <1>5 DEF ByKey, AccountsInv
<1>7. /\ req' \in [Procs -> Request] /\ Still(p) /\ begun' \in Nat
      /\ req[p].pc = "idle" /\ req'[p].pc = "user"
  BY <1>3, <1>4, <1>6, BeginFacts
<1>8. UNCHANGED <<acct, default, allowed, key, fails, trail, hasty, crossed>>
  BY DEF ByKey, users, history
<1>9. TypeOK' BY <1>6, <1>7, <1>8 DEF TypeOK
<1>10. ReqOK(p)' BY <1>7, PlainOK DEF Plain
<1>11. QED BY <1>7, <1>8, <1>9, <1>10, LocalStep

\* A request that ends with nothing left to record, or whose record is lost.
LEMMA EndStep ==
    ASSUME AccountsInv, NEW p \in Procs, End(p),
           UNCHANGED <<acct, default, trail, hasty, key, fails, begun>>,
           allowed' \in [Users -> SUBSET Row], crossed \subseteq crossed',
           \/ req[p].pc \notin {"allow", "audit"}
           \/ Unrecorded({p}) \subseteq crossed'
    PROVE  AccountsInv'
<1>1. TypeOK BY DEF AccountsInv
<1>2. /\ req' \in [Procs -> Request] /\ Still(p)
      /\ req'[p].pc = "idle" /\ ReqOK(p)'
  BY <1>1, EndFacts
<1>3. TypeOK' BY <1>1, <1>2 DEF TypeOK
<1>4. QED BY <1>2, <1>3, LocalStep

\* A request that goes on to another statement.
LEMMA GotoStep ==
    ASSUME AccountsInv, NEW p \in Procs, NEW l \in Labels, Goto(p, l), ReqOK(p)',
           UNCHANGED <<acct, trail, hasty, key, fails, crossed, begun>>,
           default' \in [Users -> Groups \cup {NoGroup}],
           allowed' \in [Users -> SUBSET Row],
           l \notin {"newkey", "lookup", "verify"},
           req[p].pc \notin {"allow", "audit"} \/ l = "audit"
    PROVE  AccountsInv'
<1>1. TypeOK BY DEF AccountsInv
<1>2. /\ req' \in [Procs -> Request] /\ Still(p) /\ req'[p].pc = l
      /\ req'[p].kind = req[p].kind /\ req'[p].to = req[p].to
  BY <1>1, GotoFacts
<1>3. TypeOK' BY <1>1, <1>2 DEF TypeOK
<1>4. QED BY <1>2, <1>3, LocalStep

\* The principal's role is read, or the request refused.
LEMMA ReadUserStep ==
    ASSUME AccountsInv, NEW p \in Procs, ReadUser(p)
    PROVE  AccountsInv'
<1>1. /\ TypeOK /\ req[p].pc = "user" /\ req[p] \in Request
      /\ UNCHANGED <<acct, default, allowed, key, fails, trail, hasty, crossed, begun>>
  BY DEF ReadUser, users, counts, history, AccountsInv, TypeOK, At
<1>2. CASE End(p) BY <1>1, <1>2, EndStep DEF TypeOK
<1>3. CASE ~End(p)
  <2> DEFINE l == IF req[p].grp = NoGroup THEN "ready" ELSE "group"
             a == [req[p] EXCEPT !.role = acct[req[p].who].role]
             b == [a EXCEPT !.pc = l]
  <2>1. acct[req[p].who].role \in Ranks /\ l \in Labels
    BY <1>1 DEF TypeOK, Request, Account, Labels
  <2>2. a \in Request BY <1>1, <2>1, FieldTyped
  <2>3. b \in Request BY <2>1, <2>2, FieldTyped
  <2>4. b.pc = l BY <2>2 DEF Request
  <2>5. req' = [req EXCEPT ![p] = b] BY <1>3, Zenon DEF ReadUser
  <2> HIDE DEF b
  <2>6. req' \in [Procs -> Request] /\ Still(p) /\ req'[p].pc = l
    BY <1>1, <2>3, <2>4, <2>5 DEF TypeOK, Still
  <2>7. TypeOK' BY <1>1, <2>6 DEF TypeOK
  <2>8. ReqOK(p)' BY <2>6, PlainOK DEF Plain
  <2>9. QED BY <1>1, <2>6, <2>7, <2>8, LocalStep
<1>4. QED BY <1>2, <1>3

\* The key's group is read, or the request refused.
LEMMA ReadGroupStep ==
    ASSUME AccountsInv, NEW p \in Procs, ReadGroup(p)
    PROVE  AccountsInv'
<1>1. /\ TypeOK /\ req[p].pc = "group"
      /\ UNCHANGED <<acct, default, allowed, key, fails, trail, hasty, crossed, begun>>
  BY DEF ReadGroup, users, counts, history, AccountsInv, At
<1>2. CASE End(p) BY <1>1, <1>2, EndStep DEF TypeOK
<1>3. CASE Goto(p, "ready")
  <2>1. ReqOK(p)' BY <1>1, <1>3, GotoFacts, PlainOK DEF Labels, Plain
  <2>2. QED BY <1>1, <1>3, <2>1, GotoStep DEF Labels, TypeOK
<1>4. QED BY <1>2, <1>3 DEF ReadGroup

\* A lost record is noted in crossed.
LEMMA AbortStep ==
    ASSUME AccountsInv, NEW p \in Procs, Abort(p)
    PROVE  AccountsInv'
<1>1. /\ End(p)
      /\ UNCHANGED <<acct, default, allowed, key, fails, trail, hasty, begun>>
      /\ crossed' = crossed \cup Unrecorded({p})
  BY DEF Abort, users, counts
<1>2. QED BY <1>1, EndStep DEF AccountsInv, TypeOK

-----------------------------------------------------------------------------
(* Administrators                                                          *)

\* A handler that goes on with a change fit for what it is.
LEMMA AskStep ==
    ASSUME AccountsInv, NEW p \in Procs, NEW l \in Labels, NEW k \in Kinds,
           NEW u \in Users, NEW v \in Words, NEW g \in Groups \cup {NoGroup},
           NEW set \in SUBSET Groups, Ask(p, l, k, u, v, g, set),
           l \in {"profile", "status", "role", "adjust", "groups", "create",
                  "gcreate", "gpatch", "gdelete"},
           l = "role" => /\ k = "role" /\ v \in Roles /\ Exists(u)
                         /\ IsSuper(p) /\ NotOneself(p, u),
           l = "status" => /\ k = "status" /\ v \in {"active", "disabled"} /\ Exists(u)
                           /\ v = "disabled" => NotOneself(p, u),
           l = "create" => k = "create" /\ v \in Roles,
           l \notin {"role", "status", "create"} => k \notin Logging
    PROVE  AccountsInv'
<1>1. TypeOK BY DEF AccountsInv
<1>2. /\ TypeOK' /\ Still(p)
      /\ req[p].pc = "ready" /\ req'[p].pc = l /\ req'[p].kind = k
      /\ req'[p].to = u /\ req'[p].val = v
      /\ req'[p].who = req[p].who /\ req'[p].role = req[p].role
      /\ UNCHANGED <<acct, trail, hasty, key, fails, crossed>>
  BY <1>1, AskFacts
<1>3. ReqOK(p)' BY <1>2 DEF ReqOK, IsSuper, NotOneself, Exists
<1>4. QED BY <1>2, <1>3, LocalStep

\* Each handler asks with what its checks allow.
LEMMA AskSteps ==
    ASSUME AccountsInv, NEW p \in Procs,
           \/ \E u \in Users :
                  \/ AskProfile(p, u)
                  \/ \E val \in {"active", "disabled"} : AskStatus(p, u, val)
                  \/ \E val \in Roles : AskRole(p, u, val)
                  \/ \E val \in DOMAIN Amount : AskAdjust(p, u, val)
                  \/ \E set \in SUBSET Rows : AskGroups(p, u, set)
                  \/ \E val \in Roles, g \in Groups \cup {NoGroup} : AskUser(p, u, val, g)
           \/ \E g \in Groups : AskGroup(p, g)
    PROVE  AccountsInv'
<1> Rows \subseteq Groups /\ {} \subseteq Groups BY DEF Rows
<1> Anyone \in Users
  <2>1. Users # {} BY AccountsAssumption DEF AccountsAssumption
  <2>2. QED BY <2>1 DEF Anyone
<1> NoGroup \in Groups \cup {NoGroup} /\ "none" \in Words /\ Roles \subseteq Words
  BY DEF Words, States, Ranks, Roles
<1>1. ASSUME NEW u \in Users, AskProfile(p, u) PROVE AccountsInv'
  <2>1. PICK g \in Rows : Ask(p, "profile", "profile", u, "none", g, {})
    BY <1>1 DEF AskProfile
  <2>2. QED BY <2>1, AskStep DEF Labels, Kinds, Logging
<1>2. ASSUME NEW u \in Users, NEW val \in {"active", "disabled"}, AskStatus(p, u, val)
      PROVE AccountsInv'
  <2>1. val \in Words BY DEF Words, States
  <2>2. QED BY <1>2, <2>1, AskStep DEF AskStatus, Labels, Kinds
<1>3. ASSUME NEW u \in Users, NEW val \in Roles, AskRole(p, u, val) PROVE AccountsInv'
  BY <1>3, AskStep DEF AskRole, Labels, Kinds
<1>4. ASSUME NEW u \in Users, NEW val \in DOMAIN Amount, AskAdjust(p, u, val)
      PROVE AccountsInv'
  <2>1. val \in Words BY DEF Words, Amount
  <2>2. QED BY <1>4, <2>1, AskStep DEF AskAdjust, Labels, Kinds, Logging
<1>5. ASSUME NEW u \in Users, NEW set \in SUBSET Rows, AskGroups(p, u, set)
      PROVE AccountsInv'
  BY <1>5, AskStep DEF AskGroups, Labels, Kinds, Logging
<1>6. ASSUME NEW u \in Users, NEW val \in Roles, NEW g \in Groups \cup {NoGroup},
             AskUser(p, u, val, g)
      PROVE AccountsInv'
  BY <1>6, AskStep DEF AskUser, Labels, Kinds
<1>7. ASSUME NEW g \in Groups, AskGroup(p, g) PROVE AccountsInv'
  <2>1. PICK label \in {"gcreate", "gpatch", "gdelete"}, val \in {"active", "disabled"} :
          Ask(p, label, "group", Anyone, val, g, {})
    BY <1>7 DEF AskGroup
  <2>2. val \in Words /\ label \in Labels BY DEF Words, States, Labels
  <2>3. QED BY <2>1, <2>2, AskStep DEF Kinds, Logging
<1>8. QED BY <1>1, <1>2, <1>3, <1>4, <1>5, <1>6, <1>7

\* Changes nobody asks the trail about: profiles, balances and groups.
LEMMA QuietChanges ==
    ASSUME AccountsInv, NEW p \in Procs,
           \/ UpdateUserProfile(p) \/ ManualBalanceAdjust(p) \/ InsertAllowed(p)
           \/ CreateGroup(p) \/ UpdateGroup(p) \/ DeleteGroup(p)
    PROVE  AccountsInv'
<1>1. TypeOK /\ ReqOK(p) /\ req[p] \in Request BY DEF AccountsInv, TypeOK
<1>2. PICK l \in {"audit", "gpatch"} : Goto(p, l)
  BY DEF UpdateUserProfile, ManualBalanceAdjust, InsertAllowed, CreateGroup,
         UpdateGroup, DeleteGroup
<1>3. /\ req[p].pc \in {"profile", "adjust", "insert", "gcreate", "gpatch", "gdelete"}
      /\ UNCHANGED <<acct, trail, hasty, key, fails, crossed, begun>>
  BY DEF UpdateUserProfile, ManualBalanceAdjust, InsertAllowed, CreateGroup,
         UpdateGroup, DeleteGroup, At, users, counts, history
<1>4. req[p].kind \notin Logging BY <1>1, <1>3 DEF ReqOK
<1>5. l \in Labels BY DEF Labels
<1>6. ReqOK(p)' BY <1>1, <1>2, <1>4, <1>5, GotoFacts DEF ReqOK
<1>7. default' \in [Users -> Groups \cup {NoGroup}]
  <2>1. req[p].grp \in Groups \cup {NoGroup} BY <1>1 DEF Request
  <2>2. QED
    BY <1>1, <2>1 DEF TypeOK, UpdateUserProfile, ManualBalanceAdjust, InsertAllowed,
       CreateGroup, UpdateGroup, DeleteGroup, users
<1>8. allowed' \in [Users -> SUBSET Row]
  <2>1. CASE InsertAllowed(p)
    <3>1. /\ req[p].to \in Users /\ req[p].seen \in SUBSET Row
          /\ req[p].set \in SUBSET Groups /\ req[p].no \in Nat
      BY <1>1 DEF Request
    <3>2. Replaced(allowed[req[p].to], req[p].seen, req[p].set, req[p].no) \in SUBSET Row
      BY <1>1, <3>1 DEF Replaced, GroupsOf, TypeOK, Row
    <3>3. QED BY <1>1, <2>1, <3>1, <3>2 DEF InsertAllowed, TypeOK
  <2>2. CASE ~InsertAllowed(p)
    BY <1>1, <2>2 DEF TypeOK, UpdateUserProfile, ManualBalanceAdjust,
       CreateGroup, UpdateGroup, DeleteGroup, users
  <2>3. QED BY <2>1, <2>2
<1>9. QED BY <1>2, <1>3, <1>5, <1>6, <1>7, <1>8, GotoStep

\* Rows of user_allowed_groups are seen, nothing else changes.
LEMMA DeleteAllowedStep ==
    ASSUME AccountsInv, NEW p \in Procs, DeleteAllowed(p)
    PROVE  AccountsInv'
<1>1. /\ TypeOK /\ ReqOK(p) /\ req[p] \in Request /\ req[p].pc = "groups"
      /\ UNCHANGED <<acct, default, allowed, key, fails, trail, hasty, crossed, begun>>
  BY DEF DeleteAllowed, users, counts, history, AccountsInv, TypeOK, At
<1> DEFINE a == [req[p] EXCEPT !.pc = "insert"]
           b == [a EXCEPT !.seen = allowed[req[p].to]]
<1>2. allowed[req[p].to] \in SUBSET Row BY <1>1 DEF TypeOK, Request
<1>3. a \in Request BY <1>1, FieldTyped DEF Labels
<1>4. b \in Request BY <1>2, <1>3, FieldTyped
<1>5. b.pc = "insert" /\ b.kind = req[p].kind BY <1>1 DEF Request
<1>6. req' = [req EXCEPT ![p] = b] BY Zenon DEF DeleteAllowed
<1> HIDE DEF b
<1>7. /\ req' \in [Procs -> Request] /\ Still(p)
      /\ req'[p].pc = "insert" /\ req'[p].kind = req[p].kind
  BY <1>1, <1>4, <1>5, <1>6 DEF TypeOK, Still
<1>8. TypeOK' BY <1>1, <1>7 DEF TypeOK
<1>9. ReqOK(p)' BY <1>1, <1>7 DEF ReqOK
<1>10. QED BY <1>1, <1>7, <1>8, <1>9, LocalStep

\* Those that come too late are noted, and nobody else changes.
LEMMA OvertakeFacts ==
    ASSUME TypeOK, NEW p \in Procs, NEW l \in Labels, req' = Overtake(p, l)
    PROVE  /\ req' \in [Procs -> Request] /\ Alike(p)
           /\ req'[p].pc = l /\ req'[p].kind = req[p].kind /\ req'[p].to = req[p].to
           /\ req'[p].val = req[p].val /\ req'[p].over = req[p].over
           /\ \A q \in Procs \ {p} :
                  /\ req'[q].role = req[q].role /\ req'[q].val = req[q].val
                  /\ req'[q].over =
                       (req[q].over \/ Pending(q, req[p].to, {req[p].kind, "create"}))
<1>1. \A q \in Procs : req[q] \in Request BY DEF TypeOK
<1>2. /\ [req[p] EXCEPT !.pc = l] \in Request
      /\ req'[p] = [req[p] EXCEPT !.pc = l]
  BY <1>1, FieldTyped DEF Overtake
<1>3. ASSUME NEW q \in Procs \ {p}
      PROVE  /\ req'[q] \in Request
             /\ req'[q].pc = req[q].pc /\ req'[q].kind = req[q].kind
             /\ req'[q].who = req[q].who /\ req'[q].to = req[q].to
             /\ req'[q].name = req[q].name
             /\ req'[q].role = req[q].role /\ req'[q].val = req[q].val
             /\ req'[q].over =
                  (req[q].over \/ Pending(q, req[p].to, {req[p].kind, "create"}))
  <2>1. CASE Pending(q, req[p].to, {req[p].kind, "create"})
    <3>1. req'[q] = [req[q] EXCEPT !.over = TRUE] BY <2>1 DEF Overtake
    <3>2. [req[q] EXCEPT !.over = TRUE] \in Request BY <1>1, FieldTyped
    <3>3. req[q] \in Request BY <1>1
    <3>4. req'[q].over = TRUE BY <3>1, <3>3 DEF Request
    <3>5. LET r == [req[q] EXCEPT !.over = TRUE]
          IN  /\ r.pc = req[q].pc /\ r.kind = req[q].kind /\ r.who = req[q].who
              /\ r.to = req[q].to /\ r.name = req[q].name
              /\ r.role = req[q].role /\ r.val = req[q].val
      BY <3>3 DEF Request
    <3>6. QED BY <2>1, <3>1, <3>2, <3>4, <3>5
  <2>2. CASE ~Pending(q, req[p].to, {req[p].kind, "create"})
    <3>1. req'[q] = req[q] BY <2>2 DEF Overtake
    <3>2. req[q] \in Request /\ req[q].over \in BOOLEAN BY <1>1 DEF Request
    <3>3. QED BY <2>2, <3>1, <3>2
  <2>3. QED BY <2>1, <2>2
<1>4. req' = [q \in Procs |-> req'[q]] BY DEF Overtake
<1>5. \A q \in Procs : req'[q] \in Request BY <1>2, <1>3
<1>6. req' \in [Procs -> Request] BY <1>4, <1>5
<1>7. req[p] \in Request BY <1>1
<1>8. QED BY <1>2, <1>3, <1>6, <1>7 DEF Request, Alike

\* An account changes only by a handler that checked it, and its record waits.
LEMMA SetUserStatusStep ==
    ASSUME AccountsInv, NEW p \in Procs, SetUserStatus(p)
    PROVE  AccountsInv'
<1> DEFINE u == req[p].to
<1>1. /\ TypeOK /\ ReqOK(p) /\ SuperLossHasCause /\ req[p] \in Request
      /\ req[p].pc = "status"
      /\ UNCHANGED <<default, allowed, key, fails, trail, crossed, begun>>
      /\ acct' = [acct EXCEPT ![u].status = req[p].val]
      /\ req' = Overtake(p, "audit")
      /\ hasty' = hasty \cup Unfounded(p)
  BY DEF SetUserStatus, counts, AccountsInv, TypeOK, At
<1>2. /\ req[p].kind = "status" /\ req[p].val \in {"active", "disabled"} /\ Exists(u)
      /\ req[p].val = "disabled" => u # req[p].who
  BY <1>1 DEF ReqOK
<1>3. /\ req' \in [Procs -> Request] /\ Alike(p)
      /\ req'[p].pc = "audit" /\ req'[p].kind = "status" /\ req'[p].to = u
      /\ req'[p].val = req[p].val
      /\ \A q \in Procs \ {p} :
             /\ req'[q].role = req[q].role /\ req'[q].val = req[q].val
             /\ req'[q].over = (req[q].over \/ Pending(q, u, {"status", "create"}))
  BY <1>1, <1>2, OvertakeFacts DEF Labels
<1>4. u \in Users /\ req[p].who \in Users BY <1>1 DEF Request
<1>5. /\ acct' \in [Users -> Account]
      /\ acct'[u].status = req[p].val
      /\ \A w \in Users : acct'[w].role = acct[w].role
      /\ \A w \in Users \ {u} : acct'[w] = acct[w]
  <2>1. acct \in [Users -> Account] BY <1>1 DEF TypeOK
  <2>2. acct[u] \in Account /\ req[p].val \in States BY <1>2, <1>4, <2>1 DEF States
  <2> DEFINE a == [acct[u] EXCEPT !.status = req[p].val]
  <2>3. a \in Account /\ a.status = req[p].val /\ a.role = acct[u].role
    BY <2>2 DEF Account
  <2>4. acct' = [acct EXCEPT ![u] = a] BY <1>1
  <2> HIDE DEF a
  <2>5. QED BY <1>4, <2>1, <2>3, <2>4
<1>6. TypeOK' BY <1>1, <1>3, <1>5 DEF TypeOK
<1>7. ASSUME NEW q \in Procs PROVE ReqOK(q)'
  <2>1. ReqOK(q) /\ req[q].to \in Users BY DEF AccountsInv, TypeOK, Request
  <2>2. CASE q = p BY <1>2, <1>3, <1>4, <1>5, <2>2 DEF ReqOK, Exists
  <2>3. CASE q # p
    <3>1. /\ req'[q].pc = req[q].pc /\ req'[q].kind = req[q].kind
          /\ req'[q].who = req[q].who /\ req'[q].to = req[q].to
          /\ req'[q].role = req[q].role /\ req'[q].val = req[q].val
          /\ ~req'[q].over => ~req[q].over /\ ~Pending(q, u, {"status", "create"})
      BY <1>3, <2>3 DEF Alike
    <3>2. acct[req[q].to].role # "none" => acct'[req[q].to].role # "none"
      BY <1>2, <1>5, <2>1 DEF Roles
    <3>3. CASE req[q].to # u
      <4>1. acct'[req[q].to] = acct[req[q].to] BY <1>5, <2>1, <3>3
      <4>2. QED BY <2>1, <3>1, <4>1 DEF ReqOK, Exists
    <3>4. CASE req[q].to = u
      <4>1. CASE /\ req[q].pc \in {"allow", "audit"}
                 /\ req[q].kind \in {"status", "create"}
        <5>1. req'[q].over BY <3>1, <3>4, <4>1 DEF Pending
        <5>2. QED BY <2>1, <3>1, <3>2, <4>1, <5>1 DEF ReqOK, Exists, Logging
      <4>2. CASE ~(/\ req[q].pc \in {"allow", "audit"}
                   /\ req[q].kind \in {"status", "create"})
        <5>1. acct'[req[q].to].role = acct[req[q].to].role BY <1>5, <2>1
        <5>2. QED BY <2>1, <3>1, <3>2, <4>2, <5>1 DEF ReqOK, Exists, Logging
      <4>3. QED BY <4>1, <4>2
    <3>5. QED BY <3>3, <3>4
  <2>4. QED BY <2>2, <2>3
<1>8. SuperLossHasCause'
  <2>1. CASE hasty' # {} BY <2>1 DEF SuperLossHasCause
  <2>2. CASE hasty' = {}
    <3>1. /\ acct[req[p].who] = [role |-> req[p].role, status |-> "active"]
          /\ ~TargetRequiresSuper(p, u)
      BY <1>1, <2>2 DEF Unfounded
    <3>2. PICK w \in Users : ActiveSuper(w) BY <1>1, <2>2 DEF SuperLossHasCause
    <3>3. CASE w # u BY <1>5, <3>2, <3>3 DEF SuperLossHasCause, ActiveSuper
    <3>4. CASE w = u /\ req[p].val = "active"
      BY <1>4, <1>5, <3>2, <3>4 DEF SuperLossHasCause, ActiveSuper
    <3>5. CASE w = u /\ req[p].val = "disabled"
      <4>1. req[p].role = "super"
        BY <3>1, <3>2, <3>5 DEF TargetRequiresSuper, IsSuper, ActiveSuper
      <4>2. req[p].who # u /\ ActiveSuper(req[p].who)
        BY <1>2, <3>1, <3>5, <4>1 DEF ActiveSuper
      <4>3. QED BY <1>4, <1>5, <4>2 DEF SuperLossHasCause, ActiveSuper
    <3>6. QED BY <1>2, <3>3, <3>4, <3>5
  <2>3. QED BY <2>1, <2>2
<1>9. \A w \in Users : KeyBound(w)'
  <2>1. \A w \in Users : KeysOf(w)' = KeysOf(w) BY <1>1 DEF KeysOf, Live
  <2>2. QED BY <1>3, <2>1, FrameKeys
<1>10. ASSUME NEW w \in Users PROVE Told(w)'
  <2>1. Told(w) BY DEF AccountsInv
  <2>2. \A q \in Procs, K \in {{"role", "create"}, {"status", "create"}} :
            Pending(q, w, K) => Pending(q, w, K)'
    BY <1>1, <1>3 DEF Pending, Alike
  <2>3. CASE w # u BY <1>1, <1>5, <2>1, <2>2, <2>3 DEF Told
  <2>4. CASE w = u
    <3>1. Pending(p, w, {"status", "create"})' BY <1>3, <2>4 DEF Pending
    <3>2. QED BY <1>1, <1>5, <2>1, <2>2, <2>4, <3>1 DEF Told
  <2>5. QED BY <2>3, <2>4
<1>11. \A n \in Names : GuessBound(n)' BY <1>1, <1>3, FrameGuess
<1>12. QED BY <1>6, <1>7, <1>8, <1>9, <1>10, <1>11 DEF AccountsInv

\* Only a super administrator changes a role, and not its own.
LEMMA SetUserRoleStep ==
    ASSUME AccountsInv, NEW p \in Procs, SetUserRole(p)
    PROVE  AccountsInv'
<1> DEFINE u == req[p].to
<1>1. /\ TypeOK /\ ReqOK(p) /\ SuperLossHasCause /\ req[p] \in Request
      /\ req[p].pc = "role"
      /\ UNCHANGED <<default, allowed, key, fails, trail, crossed, begun>>
      /\ acct' = [acct EXCEPT ![u].role = req[p].val]
      /\ req' = Overtake(p, "audit")
      /\ hasty' = hasty \cup Unfounded(p)
  BY DEF SetUserRole, counts, AccountsInv, TypeOK, At
<1>2. /\ req[p].kind = "role" /\ req[p].val \in Roles /\ Exists(u)
      /\ req[p].role = "super" /\ u # req[p].who
  BY <1>1 DEF ReqOK
<1>3. /\ req' \in [Procs -> Request] /\ Alike(p)
      /\ req'[p].pc = "audit" /\ req'[p].kind = "role" /\ req'[p].to = u
      /\ req'[p].val = req[p].val
      /\ \A q \in Procs \ {p} :
             /\ req'[q].role = req[q].role /\ req'[q].val = req[q].val
             /\ req'[q].over = (req[q].over \/ Pending(q, u, {"role", "create"}))
  BY <1>1, <1>2, OvertakeFacts DEF Labels
<1>4. u \in Users /\ req[p].who \in Users BY <1>1 DEF Request
<1>5. /\ acct' \in [Users -> Account]
      /\ acct'[u].role = req[p].val
      /\ \A w \in Users : acct'[w].status = acct[w].status
      /\ \A w \in Users \ {u} : acct'[w] = acct[w]
  BY <1>1, <1>2, <1>4 DEF TypeOK, Account, Ranks, Roles
<1>6. TypeOK' BY <1>1, <1>3, <1>5 DEF TypeOK
<1>7. ASSUME NEW q \in Procs PROVE ReqOK(q)'
  <2>1. ReqOK(q) /\ req[q].to \in Users BY DEF AccountsInv, TypeOK, Request
  <2>2. CASE q = p BY <1>2, <1>3, <1>4, <1>5, <2>2 DEF ReqOK, Exists, Roles
  <2>3. CASE q # p
    <3>1. /\ req'[q].pc = req[q].pc /\ req'[q].kind = req[q].kind
          /\ req'[q].who = req[q].who /\ req'[q].to = req[q].to
          /\ req'[q].role = req[q].role /\ req'[q].val = req[q].val
          /\ ~req'[q].over => ~req[q].over /\ ~Pending(q, u, {"role", "create"})
      BY <1>3, <2>3 DEF Alike
    <3>2. acct[req[q].to].role # "none" => acct'[req[q].to].role # "none"
      BY <1>2, <1>5, <2>1 DEF Roles
    <3>3. CASE req[q].to # u
      <4>1. acct'[req[q].to] = acct[req[q].to] BY <1>5, <2>1, <3>3
      <4>2. QED BY <2>1, <3>1, <4>1 DEF ReqOK, Exists
    <3>4. CASE req[q].to = u
      <4>1. CASE /\ req[q].pc \in {"allow", "audit"}
                 /\ req[q].kind \in {"role", "create"}
        <5>1. req'[q].over BY <3>1, <3>4, <4>1 DEF Pending
        <5>2. QED BY <2>1, <3>1, <3>2, <4>1, <5>1 DEF ReqOK, Exists, Logging
      <4>2. CASE ~(/\ req[q].pc \in {"allow", "audit"}
                   /\ req[q].kind \in {"role", "create"})
        <5>1. acct'[req[q].to].status = acct[req[q].to].status BY <1>5, <2>1
        <5>2. QED BY <2>1, <3>1, <3>2, <4>2, <5>1 DEF ReqOK, Exists, Logging
      <4>3. QED BY <4>1, <4>2
    <3>5. QED BY <3>3, <3>4
  <2>4. QED BY <2>2, <2>3
<1>8. SuperLossHasCause'
  <2>1. CASE hasty' # {} BY <2>1 DEF SuperLossHasCause
  <2>2. CASE hasty' = {}
    <3>1. acct[req[p].who] = [role |-> req[p].role, status |-> "active"]
      BY <1>1, <2>2 DEF Unfounded
    <3>2. ActiveSuper(req[p].who) /\ req[p].who # u BY <1>2, <3>1 DEF ActiveSuper
    <3>3. QED BY <1>4, <1>5, <3>2 DEF SuperLossHasCause, ActiveSuper
  <2>3. QED BY <2>1, <2>2
<1>9. \A w \in Users : KeyBound(w)'
  <2>1. \A w \in Users : KeysOf(w)' = KeysOf(w) BY <1>1 DEF KeysOf, Live
  <2>2. QED BY <1>3, <2>1, FrameKeys
<1>10. ASSUME NEW w \in Users PROVE Told(w)'
  <2>1. Told(w) BY DEF AccountsInv
  <2>2. \A q \in Procs, K \in {{"role", "create"}, {"status", "create"}} :
            Pending(q, w, K) => Pending(q, w, K)'
    BY <1>1, <1>3 DEF Pending, Alike
  <2>3. CASE w # u BY <1>1, <1>5, <2>1, <2>2, <2>3 DEF Told
  <2>4. CASE w = u
    <3>1. Pending(p, w, {"role", "create"})' BY <1>3, <2>4 DEF Pending
    <3>2. QED BY <1>1, <1>5, <2>1, <2>2, <2>4, <3>1 DEF Told
  <2>5. QED BY <2>3, <2>4
<1>11. \A n \in Names : GuessBound(n)' BY <1>1, <1>3, FrameGuess
<1>12. QED BY <1>6, <1>7, <1>8, <1>9, <1>10, <1>11 DEF AccountsInv

\* The trail takes the change over.
LEMMA AuditStep ==
    ASSUME AccountsInv, NEW p \in Procs, Audit(p)
    PROVE  AccountsInv'
<1> DEFINE u == req[p].to
           r == req[p]
<1>1. /\ TypeOK /\ ReqOK(p) /\ r \in Request /\ r.pc = "audit" /\ End(p)
      /\ UNCHANGED <<acct, default, allowed, key, fails, hasty, begun>>
      /\ trail' = Recorded(trail, r)
      /\ crossed' = IF r.over THEN crossed \cup Unrecorded({p}) ELSE crossed
  BY DEF Audit, users, counts, AccountsInv, TypeOK, At
<1>2. u \in Users BY <1>1 DEF Request
<1>3. r.kind \in Logging =>
        /\ r.val \in IF r.kind = "status" THEN {"active", "disabled"} ELSE Roles
        /\ ~r.over => /\ r.kind # "status" => acct[u].role = r.val
                      /\ r.kind = "status" => acct[u].status = r.val
                      /\ r.kind = "create" => acct[u].status = "active"
  BY <1>1 DEF ReqOK
<1>4. /\ trail' \in [Users -> Account]
      /\ \A w \in Users \ {u} : trail'[w] = trail[w]
      /\ r.kind \notin Logging => trail' = trail
      /\ r.kind = "role" => trail'[u].role = r.val /\ trail'[u].status = trail[u].status
      /\ r.kind = "status" => trail'[u].status = r.val /\ trail'[u].role = trail[u].role
      /\ r.kind = "create" => trail'[u].role = r.val /\ trail'[u].status = "active"
  <2>1. CASE r.kind = "role"
    <3>1. trail' = [trail EXCEPT ![u].role = r.val] BY <1>1, <2>1 DEF Recorded
    <3>2. r.val \in Ranks BY <1>3, <2>1 DEF Logging, Roles, Ranks
    <3>3. QED BY <1>1, <1>2, <2>1, <3>1, <3>2 DEF TypeOK, Account, Logging
  <2>2. CASE r.kind = "status"
    <3>1. trail' = [trail EXCEPT ![u].status = r.val] BY <1>1, <2>2 DEF Recorded
    <3>2. r.val \in States BY <1>3, <2>2 DEF Logging, States
    <3>3. QED BY <1>1, <1>2, <2>2, <3>1, <3>2 DEF TypeOK, Account, Logging
  <2>3. CASE r.kind = "create"
    <3>1. trail' = [trail EXCEPT ![u] = [role |-> r.val, status |-> "active"]]
      BY <1>1, <2>3 DEF Recorded
    <3>2. r.val \in Ranks BY <1>3, <2>3 DEF Logging, Roles, Ranks
    <3>3. QED BY <1>1, <1>2, <2>3, <3>1, <3>2 DEF TypeOK, Account, States, Logging
  <2>4. CASE r.kind \notin Logging
    <3>1. trail' = trail BY <1>1, <2>4 DEF Recorded, Logging
    <3>2. QED BY <1>1, <2>4, <3>1 DEF TypeOK, Logging
  <2>5. QED BY <2>1, <2>2, <2>3, <2>4 DEF Logging
<1>5. /\ req' \in [Procs -> Request] /\ Still(p)
      /\ req'[p].pc = "idle" /\ ReqOK(p)' /\ Alike(p)
  BY <1>1, EndFacts, StillAlike
<1>6. TypeOK' BY <1>1, <1>4, <1>5 DEF TypeOK
<1>7. \A q \in Procs : ReqOK(q)' BY <1>1, <1>5, FrameReq
<1>8. SuperLossHasCause' BY <1>1 DEF AccountsInv, SuperLossHasCause, ActiveSuper
<1>9. \A w \in Users : KeyBound(w)'
  <2>1. \A w \in Users : KeysOf(w)' = KeysOf(w) BY <1>1 DEF KeysOf, Live
  <2>2. QED BY <1>5, <2>1, FrameKeys
<1>10. ASSUME NEW w \in Users PROVE Told(w)'
  <2>1. CASE w \in crossed' BY <2>1 DEF Told
  <2>2. CASE w \notin crossed'
    <3>1. Told(w) /\ w \notin crossed BY <1>1, <2>2 DEF AccountsInv
    <3>2. \A q \in Procs \ {p}, K \in {{"role", "create"}, {"status", "create"}} :
              Pending(q, w, K) => Pending(q, w, K)'
      BY <1>5 DEF Pending, Alike
    <3>3. CASE w # u
      <4>1. \A K \in {{"role", "create"}, {"status", "create"}} : ~Pending(p, w, K)
        BY <3>3 DEF Pending
      <4>2. QED BY <1>1, <1>4, <2>2, <3>1, <3>2, <3>3, <4>1 DEF Told
    <3>4. CASE w = u /\ r.kind \notin Logging
      <4>1. \A K \in {{"role", "create"}, {"status", "create"}} : ~Pending(p, w, K)
        BY <3>4 DEF Pending, Logging
      <4>2. QED BY <1>1, <1>4, <2>2, <3>1, <3>2, <3>4, <4>1 DEF Told
    <3>5. CASE w = u /\ r.kind \in Logging
      <4>1. u \in Unrecorded({p}) BY <1>1, <1>2, <3>5 DEF Unrecorded, Pending, Logging
      <4>2. ~r.over BY <1>1, <2>2, <3>5, <4>1
      <4>3. CASE r.kind = "create"
        BY <1>1, <1>3, <1>4, <3>5, <4>2, <4>3 DEF Told, Logging
      <4>4. CASE r.kind = "role"
        <5>1. ~Pending(p, w, {"status", "create"}) BY <4>4 DEF Pending
        <5>2. trail'[u].role = acct'[u].role BY <1>1, <1>3, <1>4, <3>5, <4>2, <4>4
        <5>3. QED BY <1>1, <1>4, <2>2, <3>1, <3>2, <3>5, <4>4, <5>1, <5>2 DEF Told
      <4>5. CASE r.kind = "status"
        <5>1. ~Pending(p, w, {"role", "create"}) BY <4>5 DEF Pending
        <5>2. trail'[u].status = acct'[u].status BY <1>1, <1>3, <1>4, <3>5, <4>2, <4>5
        <5>3. QED BY <1>1, <1>4, <2>2, <3>1, <3>2, <3>5, <4>5, <5>1, <5>2 DEF Told
      <4>6. QED BY <3>5, <4>3, <4>4, <4>5 DEF Logging
    <3>6. QED BY <3>3, <3>4, <3>5
  <2>3. QED BY <2>1, <2>2
<1>11. \A n \in Names : GuessBound(n)' BY <1>1, <1>5, FrameGuess
<1>12. QED BY <1>6, <1>7, <1>8, <1>9, <1>10, <1>11 DEF AccountsInv

-----------------------------------------------------------------------------
(* New accounts                                                            *)

\* A registration begins with the role of a user.
LEMMA RegisterStep ==
    ASSUME AccountsInv, NEW p \in Procs, NEW u \in Users, Register(p, u)
    PROVE  AccountsInv'
<1>1. PICK g \in Groups :
        Begin(p, [Blank EXCEPT !.pc = "create", !.kind = "register",
                               !.to = u, !.val = "user", !.grp = g])
  BY DEF Register
<1> DEFINE a == [Blank EXCEPT !.pc = "create"]
           b == [a EXCEPT !.kind = "register"]
           c == [b EXCEPT !.to = u]
           d == [c EXCEPT !.val = "user"]
           e == [d EXCEPT !.grp = g]
<1>2. a \in Request BY BlankTyped, FieldTyped DEF Labels
<1>3. b \in Request BY <1>2, FieldTyped DEF Kinds
<1>4. c \in Request BY <1>3, FieldTyped
<1>5. d \in Request BY <1>4, FieldTyped DEF Words, Ranks
<1>6. e \in Request BY <1>5, FieldTyped
<1>7. e.pc = "create" /\ e.kind = "register" /\ e.val = "user" BY BlankTyped DEF Request
<1>8. [Blank EXCEPT !.pc = "create", !.kind = "register",
                    !.to = u, !.val = "user", !.grp = g] = e
  BY Zenon
<1> HIDE DEF e
<1>9. TypeOK /\ Begin(p, e) BY <1>1, <1>8 DEF AccountsInv
<1>10. /\ req' \in [Procs -> Request] /\ Still(p) /\ begun' \in Nat
       /\ req[p].pc = "idle" /\ req'[p].pc = "create"
       /\ req'[p].kind = "register" /\ req'[p].val = "user"
  BY <1>6, <1>7, <1>9, BeginFacts
<1>11. UNCHANGED <<acct, default, allowed, key, fails, trail, hasty, crossed>>
  BY DEF Register, users, history
<1>12. TypeOK' BY <1>9, <1>10, <1>11 DEF TypeOK
<1>13. ReqOK(p)' BY <1>10 DEF ReqOK, Roles
<1>14. QED BY <1>10, <1>11, <1>12, <1>13, LocalStep

\* A new account takes the place of none, and its record waits or is not needed.
LEMMA CreateUserStep ==
    ASSUME AccountsInv, NEW p \in Procs, CreateUser(p)
    PROVE  AccountsInv'
<1> DEFINE u == req[p].to
           r == req[p]
           new == [role |-> r.val, status |-> "active"]
           l == IF r.grp # NoGroup THEN "allow"
                ELSE IF r.kind = "register" THEN "ready" ELSE "audit"
<1>1. /\ TypeOK /\ ReqOK(p) /\ r \in Request /\ r.pc = "create" /\ ~Exists(u)
      /\ acct' = [acct EXCEPT ![u] = new]
      /\ default' = [default EXCEPT ![u] = r.grp]
      /\ trail' = IF r.kind = "register" THEN [trail EXCEPT ![u] = new] ELSE trail
      /\ Goto(p, l)
      /\ UNCHANGED <<allowed, key, fails, crossed, hasty, begun>>
  BY DEF CreateUser, counts, AccountsInv, TypeOK, At
<1>2. r.kind \in {"create", "register"} /\ r.val \in Roles BY <1>1 DEF ReqOK
<1>3. u \in Users /\ r.grp \in Groups \cup {NoGroup} BY <1>1 DEF Request
<1>4. new \in Account BY <1>2 DEF Account, Roles, Ranks, States
<1>5. /\ acct' \in [Users -> Account] /\ trail' \in [Users -> Account]
      /\ default' \in [Users -> Groups \cup {NoGroup}]
      /\ acct'[u].role = r.val /\ acct'[u].status = "active"
      /\ \A w \in Users \ {u} : acct'[w] = acct[w] /\ trail'[w] = trail[w]
      /\ r.kind = "register" => trail'[u] = acct'[u]
  BY <1>1, <1>3, <1>4 DEF TypeOK
<1>6. l \in Labels BY DEF Labels
<1>7. /\ req' \in [Procs -> Request] /\ Still(p) /\ Alike(p)
      /\ req'[p].pc = l /\ req'[p].kind = r.kind
      /\ req'[p].to = u /\ req'[p].val = r.val
  BY <1>1, <1>6, GotoFacts, StillAlike
<1>8. TypeOK' BY <1>1, <1>5, <1>7 DEF TypeOK
<1>9. ASSUME NEW q \in Procs PROVE ReqOK(q)'
  <2>1. CASE q = p
    <3>1. r.val # "none" BY <1>2 DEF Roles
    <3>2. QED BY <1>2, <1>5, <1>7, <2>1, <3>1 DEF ReqOK, Exists, Logging
  <2>2. CASE q # p
    <3>1. ReqOK(q) /\ req'[q] = req[q] /\ req[q].to \in Users
      BY <1>7, <2>2 DEF AccountsInv, TypeOK, Request, Still
    <3>2. CASE req[q].to # u
      <4>1. acct'[req[q].to] = acct[req[q].to] BY <1>5, <3>1, <3>2
      <4>2. QED BY <3>1, <4>1 DEF ReqOK, Exists
    <3>3. CASE req[q].to = u BY <1>1, <3>1, <3>3 DEF ReqOK, Exists
    <3>4. QED BY <3>2, <3>3
  <2>3. QED BY <2>1, <2>2
<1>10. SuperLossHasCause'
  <2>1. CASE hasty # {} BY <1>1, <2>1 DEF SuperLossHasCause
  <2>2. CASE \E w \in Users : ActiveSuper(w)
    <3>1. PICK w \in Users : ActiveSuper(w) BY <2>2
    <3>2. w # u BY <1>1, <3>1 DEF ActiveSuper, Exists
    <3>3. QED BY <1>5, <3>1, <3>2 DEF SuperLossHasCause, ActiveSuper
  <2>3. QED BY <2>1, <2>2 DEF AccountsInv, SuperLossHasCause
<1>11. \A w \in Users : KeyBound(w)'
  <2>1. \A w \in Users : KeysOf(w)' = KeysOf(w) BY <1>1 DEF KeysOf, Live
  <2>2. req'[p].pc # "newkey" BY <1>7
  <2>3. QED BY <1>7, <2>1, <2>2, FrameKeys
<1>12. ASSUME NEW w \in Users PROVE Told(w)'
  <2>1. Told(w) BY DEF AccountsInv
  <2>2. \A q \in Procs, K \in {{"role", "create"}, {"status", "create"}} :
            Pending(q, w, K) => Pending(q, w, K)'
    BY <1>1, <1>7 DEF Pending, Alike
  <2>3. CASE w # u BY <1>1, <1>5, <2>1, <2>2, <2>3 DEF Told
  <2>4. CASE w = u /\ r.kind = "register" BY <1>5, <2>4 DEF Told
  <2>5. CASE w = u /\ r.kind = "create"
    <3>1. \A K \in {{"role", "create"}, {"status", "create"}} : Pending(p, w, K)'
      BY <1>7, <2>5 DEF Pending
    <3>2. QED BY <3>1 DEF Told
  <2>6. QED BY <1>2, <2>3, <2>4, <2>5
<1>13. \A n \in Names : GuessBound(n)' BY <1>1, <1>7, FrameGuess
<1>14. QED BY <1>8, <1>9, <1>10, <1>11, <1>12, <1>13 DEF AccountsInv

\* The group of a new account; a record that waits goes on waiting.
LEMMA AllowUserGroupStep ==
    ASSUME AccountsInv, NEW p \in Procs, AllowUserGroup(p)
    PROVE  AccountsInv'
<1>1. /\ TypeOK /\ ReqOK(p) /\ req[p] \in Request /\ req[p].pc = "allow"
      /\ UNCHANGED <<acct, default, key, fails, trail, hasty, crossed, begun>>
      /\ IF req[p].kind = "register" THEN End(p) ELSE Goto(p, "audit")
  BY DEF AllowUserGroup, counts, AccountsInv, TypeOK, At
<1>2. allowed' \in [Users -> SUBSET Row]
  <2> DEFINE rows == allowed[req[p].to]
             row == [group |-> req[p].grp, no |-> req[p].no]
  <2>1. row \in Row /\ req[p].to \in Users BY <1>1 DEF Request, Row
  <2>2. allowed' \in {allowed, [allowed EXCEPT ![req[p].to] = rows \cup {row}]}
    <3>1. CASE UNCHANGED allowed BY <3>1
    <3>2. CASE allowed' = [allowed EXCEPT ![req[p].to] =
                             IF req[p].grp \in GroupsOf(@) THEN @ ELSE @ \cup {row}]
      BY <1>1, <3>2 DEF TypeOK
    <3>3. QED BY <3>1, <3>2 DEF AllowUserGroup
  <2>3. QED BY <1>1, <2>1, <2>2 DEF TypeOK
<1>3. CASE req[p].kind = "register"
  <2>1. Unrecorded({p}) = {} BY <1>3 DEF Unrecorded, Pending
  <2>2. QED BY <1>1, <1>2, <1>3, <2>1, EndStep
<1>4. CASE req[p].kind # "register"
  <2>0. Goto(p, "audit") /\ "audit" \in Labels BY <1>1, <1>4 DEF Labels
  <2>a. /\ req'[p].pc = "audit" /\ req'[p].kind = req[p].kind /\ req'[p].to = req[p].to
        /\ req'[p].val = req[p].val /\ req'[p].over = req[p].over
    BY <1>1, <2>0, GotoFacts
  <2>1. ReqOK(p)' BY <1>1, <2>a DEF ReqOK, Exists
  <2>2. QED BY <1>1, <1>2, <1>4, <2>1, GotoStep DEF Labels, TypeOK
<1>5. QED BY <1>3, <1>4

-----------------------------------------------------------------------------
(* Login                                                                   *)

\* A guess starts only while its name is not locked.
LEMMA LoginStep ==
    ASSUME AccountsInv, NEW p \in Procs, NEW n \in Names, Login(p, n)
    PROVE  AccountsInv'
<1> DEFINE a == [Blank EXCEPT !.pc = "lookup"]
           b == [a EXCEPT !.name = n]
<1>1. /\ TypeOK /\ req[p].pc = "idle" /\ fails[n].lock # "yes"
      /\ UNCHANGED <<acct, default, allowed, key, fails, trail, hasty, crossed, begun>>
  BY DEF Login, Blocked, users, history, AccountsInv, At
<1>2. a \in Request BY BlankTyped, FieldTyped DEF Labels
<1>3. b \in Request BY <1>2, FieldTyped
<1>4. b.pc = "lookup" /\ b.name = n BY BlankTyped DEF Request
<1>5. req' = [req EXCEPT ![p] = b] BY Zenon DEF Login
<1> HIDE DEF b
<1>6. /\ req' \in [Procs -> Request] /\ Still(p)
      /\ req'[p].pc = "lookup" /\ req'[p].name = n
  BY <1>1, <1>3, <1>4, <1>5 DEF TypeOK, Still
<1>7. TypeOK' BY <1>1, <1>6 DEF TypeOK
<1>8. ReqOK(p)' BY <1>6, PlainOK DEF Plain
<1>9. /\ \A q \in Procs : ReqOK(q)'
      /\ SuperLossHasCause'
      /\ \A u \in Users : Told(u)'
  BY <1>1, <1>6, <1>8, AccountsKept
<1>10. \A u \in Users : KeyBound(u)'
  <2>1. \A u \in Users : KeysOf(u)' = KeysOf(u) BY <1>1 DEF KeysOf, Live
  <2>2. QED BY <1>6, <2>1, StillAlike, FrameKeys
<1>11. ASSUME NEW m \in Names PROVE GuessBound(m)'
  <2>1. m # n => Trying(m)' \subseteq Trying(m) BY <1>6 DEF Trying, Still
  <2>2. QED BY <1>1, <2>1, GuessKept
<1>12. QED BY <1>7, <1>9, <1>10, <1>11 DEF AccountsInv

\* A guess on its way stays on its way.
LEMMA LookUpStep ==
    ASSUME AccountsInv, NEW p \in Procs, LookUp(p)
    PROVE  AccountsInv'
<1> DEFINE u == AccountOf[req[p].name]
           v == IF Exists(u) THEN acct[u].status ELSE "none"
           a == [req[p] EXCEPT !.pc = "verify"]
           b == [a EXCEPT !.to = u]
           c == [b EXCEPT !.val = v]
<1>1. /\ TypeOK /\ req[p] \in Request /\ req[p].pc = "lookup"
      /\ UNCHANGED <<acct, default, allowed, key, fails, trail, hasty, crossed, begun>>
  BY DEF LookUp, users, counts, history, AccountsInv, TypeOK, At
<1>2. u \in Users BY <1>1, AccountsAssumption DEF AccountsAssumption, Request
<1>3. v \in Words BY <1>1, <1>2 DEF TypeOK, Account, Words, States
<1>4. a \in Request BY <1>1, FieldTyped DEF Labels
<1>5. b \in Request BY <1>2, <1>4, FieldTyped
<1>6. c \in Request BY <1>3, <1>5, FieldTyped
<1>7. c.pc = "verify" /\ c.name = req[p].name BY <1>1 DEF Request
<1>8. req' = [req EXCEPT ![p] = c] BY Zenon DEF LookUp
<1> HIDE DEF c
<1>9. /\ req' \in [Procs -> Request] /\ Still(p)
      /\ req'[p].pc = "verify" /\ req'[p].name = req[p].name
  BY <1>1, <1>6, <1>7, <1>8 DEF TypeOK, Still
<1>10. TypeOK' BY <1>1, <1>9 DEF TypeOK
<1>11. ReqOK(p)' BY <1>9, PlainOK DEF Plain
<1>12. QED BY <1>1, <1>9, <1>10, <1>11, LocalStep

\* A counter after a failure, seen from one of those that were on their way.
LEMMA FailedBound ==
    ASSUME AccountsInv, NEW n \in Names, NEW p \in Trying(n)
    PROVE  LET f == Failed(fails[n]) IN
           /\ f \in Counter
           /\ f.lock = "no" => f.count < MaxFailures
           /\ f.lock # "over"
           /\ f.lock = "yes" =>
                f.count + Cardinality(Trying(n) \ {p}) <= MaxFailures - 1 + Cardinality(Procs)
<1> DEFINE t == Cardinality(Trying(n))
           c == fails[n].count
           count == (IF fails[n].lock = "over" THEN 0 ELSE c) + 1
           lock == IF count >= MaxFailures THEN "yes" ELSE "no"
<1>1. GuessBound(n) /\ c \in Nat /\ fails[n].lock \in {"no", "yes", "over"}
  BY DEF AccountsInv, TypeOK, Counter
<1>2. t \in Nat /\ t <= Cardinality(Procs) BY Sizes
<1>3. Cardinality(Trying(n) \ {p}) = t - 1
  BY Sizes, FS_RemoveElement
<1>4. Failed(fails[n]) = [count |-> count, lock |-> lock] BY DEF Failed
<1>5. count \in Nat /\ MaxFailures \in Nat \ {0} /\ Cardinality(Procs) \in Nat
  BY <1>1, Numbers
<1>6. count >= MaxFailures => count + (t - 1) <= MaxFailures - 1 + Cardinality(Procs)
  BY <1>1, <1>2, <1>5 DEF GuessBound
<1>7. QED BY <1>3, <1>4, <1>5, <1>6 DEF Counter

\* A wrong password is counted by one that was on its way.
LEMMA RecordFailureStep ==
    ASSUME AccountsInv, NEW p \in Procs, RecordFailure(p)
    PROVE  AccountsInv'
<1>0. PICK n \in Names : n = req[p].name BY DEF AccountsInv, TypeOK, Request
<1> DEFINE fs == [fails EXCEPT ![n] = Failed(@)]
<1>1. /\ TypeOK /\ req[p] \in Request /\ req[p].pc = "verify" /\ End(p)
      /\ fails' = Pruned(fs)
      /\ UNCHANGED <<acct, default, allowed, key, trail, hasty, crossed, begun>>
  BY <1>0 DEF RecordFailure, users, counts, history, AccountsInv, TypeOK, At
<1>2. n \in Names /\ p \in Trying(n) BY <1>0, <1>1 DEF Trying
<1>3. /\ req' \in [Procs -> Request] /\ Still(p)
      /\ req'[p].pc = "idle" /\ ReqOK(p)'
  BY <1>1, EndFacts
<1>4. /\ fs \in [Names -> Counter] /\ fs[n] = Failed(fails[n])
      /\ \A m \in Names \ {n} : fs[m] = fails[m]
  BY <1>1, <1>2, FailedBound DEF TypeOK
<1>5. /\ fails' \in [Names -> Counter]
      /\ \A m \in Names : fails'[m] = fs[m] \/ fails'[m] = Zero
  <2>1. Zero \in Counter BY DEF Zero, Counter
  <2>2. QED BY <1>1, <1>4, <2>1 DEF Pruned
<1>6. TypeOK' BY <1>1, <1>3, <1>5 DEF TypeOK
<1>7. /\ \A q \in Procs : ReqOK(q)'
      /\ SuperLossHasCause'
      /\ \A u \in Users : Told(u)'
  BY <1>1, <1>3, AccountsKept
<1>8. \A u \in Users : KeyBound(u)'
  <2>1. \A u \in Users : KeysOf(u)' = KeysOf(u) BY <1>1 DEF KeysOf, Live
  <2>2. QED BY <1>3, <2>1, StillAlike, FrameKeys
<1>9. ASSUME NEW m \in Names PROVE GuessBound(m)'
  <2>1. CASE fails'[m] = Zero BY <2>1, Numbers DEF Zero, GuessBound
  <2>2. CASE fails'[m] = fs[m] /\ m # n
    <3>1. Trying(m)' \subseteq Trying(m) BY <1>3 DEF Trying, Still
    <3>2. QED BY <1>4, <2>2, <3>1, GuessKept
  <2>3. CASE fails'[m] = fs[m] /\ m = n
    <3>1. Trying(n)' = Trying(n) \ {p} BY <1>2, <1>3 DEF Trying, Still
    <3>2. QED BY <1>2, <1>4, <2>3, <3>1, FailedBound DEF GuessBound
  <2>4. QED BY <1>5, <2>1, <2>2, <2>3
<1>10. QED BY <1>6, <1>7, <1>8, <1>9 DEF AccountsInv

\* A right password clears the counter.
LEMMA ClearFailuresStep ==
    ASSUME AccountsInv, NEW p \in Procs, ClearFailures(p)
    PROVE  AccountsInv'
<1>1. /\ TypeOK /\ req[p] \in Request /\ req[p].pc = "verify" /\ Goto(p, "session")
      /\ fails' = [fails EXCEPT ![req[p].name] = Zero]
      /\ UNCHANGED <<acct, default, allowed, key, trail, hasty, crossed, begun>>
  BY DEF ClearFailures, users, counts, history, AccountsInv, TypeOK, At
<1>2. /\ req' \in [Procs -> Request] /\ Still(p) /\ req'[p].pc = "session"
  BY <1>1, GotoFacts DEF Labels
<1>3. ReqOK(p)' BY <1>2, PlainOK DEF Plain
<1>4. /\ fails' \in [Names -> Counter]
      /\ \A m \in Names : fails'[m] = fails[m] \/ fails'[m] = Zero
  <2>1. Zero \in Counter BY DEF Zero, Counter
  <2>2. QED BY <1>1, <2>1 DEF TypeOK, Request
<1>5. TypeOK' BY <1>1, <1>2, <1>4 DEF TypeOK
<1>6. /\ \A q \in Procs : ReqOK(q)'
      /\ SuperLossHasCause'
      /\ \A u \in Users : Told(u)'
  BY <1>1, <1>2, <1>3, AccountsKept
<1>7. \A u \in Users : KeyBound(u)'
  <2>1. \A u \in Users : KeysOf(u)' = KeysOf(u) BY <1>1 DEF KeysOf, Live
  <2>2. QED BY <1>2, <2>1, StillAlike, FrameKeys
<1>8. ASSUME NEW m \in Names PROVE GuessBound(m)'
  <2>1. CASE fails'[m] = Zero BY <2>1, Numbers DEF Zero, GuessBound
  <2>2. CASE fails'[m] = fails[m] BY <1>2, <2>2, StillAlike, FrameGuess
  <2>3. QED BY <1>4, <2>1, <2>2
<1>9. QED BY <1>5, <1>6, <1>7, <1>8 DEF AccountsInv

\* The lock ends; the count stays until the next failure.
LEMMA UnlockStep ==
    ASSUME AccountsInv, NEW n \in Names, Unlock(n)
    PROVE  AccountsInv'
<1>1. /\ TypeOK /\ fails[n].lock = "yes" /\ fails' = [fails EXCEPT ![n].lock = "over"]
      /\ UNCHANGED <<acct, default, allowed, key, req, trail, hasty, crossed, begun>>
  BY DEF Unlock, users, counts, history, AccountsInv
<1>2. /\ fails' \in [Names -> Counter]
      /\ fails'[n].lock = "over" /\ fails'[n].count = fails[n].count
      /\ \A m \in Names \ {n} : fails'[m] = fails[m]
  BY <1>1 DEF TypeOK, Counter
<1>3. TypeOK' BY <1>1, <1>2 DEF TypeOK
<1>4. /\ \A q \in Procs : ReqOK(q)'
      /\ SuperLossHasCause'
      /\ \A u \in Users : KeyBound(u)' /\ Told(u)'
  <2>1. \A q \in Procs : ReqOK(q)' = ReqOK(q) BY <1>1 DEF ReqOK, Exists
  <2>2. SuperLossHasCause' = SuperLossHasCause BY <1>1 DEF SuperLossHasCause, ActiveSuper
  <2>3. ASSUME NEW u \in Users PROVE KeyBound(u)'
    <3>1. KeysOf(u)' = KeysOf(u) /\ Making(u)' = Making(u)
      BY <1>1 DEF KeysOf, Live, Making
    <3>2. QED BY <3>1, KeysKept
  <2>4. ASSUME NEW u \in Users PROVE Told(u)'
    <3>1. \A q \in Procs, K \in {{"role", "create"}, {"status", "create"}} :
              Pending(q, u, K)' = Pending(q, u, K)
      BY <1>1 DEF Pending
    <3>2. Told(u) BY DEF AccountsInv
    <3>3. QED BY <1>1, <3>1, <3>2 DEF Told
  <2>5. QED BY <2>1, <2>2, <2>3, <2>4 DEF AccountsInv
<1>5. ASSUME NEW m \in Names PROVE GuessBound(m)'
  <2>1. GuessBound(m) /\ Trying(m)' = Trying(m) /\ fails[m].count \in Nat
    BY <1>1 DEF AccountsInv, Trying, TypeOK, Counter
  <2>2. CASE m = n
    BY <1>1, <1>2, <2>1, <2>2, Sizes, Numbers DEF GuessBound
  <2>3. CASE m # n BY <1>2, <2>1, <2>3 DEF GuessBound
  <2>4. QED BY <2>2, <2>3
<1>6. QED BY <1>3, <1>4, <1>5 DEF AccountsInv

\* Sessions come and go.
LEMMA SessionSteps ==
    ASSUME AccountsInv, NEW p \in Procs, CreateAuthSession(p) \/ Logout(p)
    PROVE  AccountsInv'
<1>1. /\ End(p) /\ req[p].pc \in {"session", "ready"}
      /\ UNCHANGED <<acct, default, allowed, key, fails, trail, hasty, crossed, begun>>
  BY DEF CreateAuthSession, Logout, users, counts, history, At
<1>2. QED BY <1>1, EndStep DEF AccountsInv, TypeOK

-----------------------------------------------------------------------------
(* Keys                                                                    *)

\* A key is asked for in a group of its user.
LEMMA AskKeyStep ==
    ASSUME AccountsInv, NEW p \in Procs, NEW g \in Groups, AskKey(p, g)
    PROVE  AccountsInv'
<1> DEFINE a == [req[p] EXCEPT !.pc = "keygroup"]
           b == [a EXCEPT !.grp = g]
<1>1. /\ TypeOK /\ req[p] \in Request /\ req[p].pc = "ready"
      /\ UNCHANGED <<acct, default, allowed, key, fails, trail, hasty, crossed, begun>>
  BY DEF AskKey, users, counts, history, AccountsInv, TypeOK, At
<1>2. a \in Request BY <1>1, FieldTyped DEF Labels
<1>3. b \in Request BY <1>2, FieldTyped
<1>4. b.pc = "keygroup" BY <1>1 DEF Request
<1>5. req' = [req EXCEPT ![p] = b] BY Zenon DEF AskKey
<1> HIDE DEF b
<1>6. req' \in [Procs -> Request] /\ Still(p) /\ req'[p].pc = "keygroup"
  BY <1>1, <1>3, <1>4, <1>5 DEF TypeOK, Still
<1>7. TypeOK' BY <1>1, <1>6 DEF TypeOK
<1>8. ReqOK(p)' BY <1>6, PlainOK DEF Plain
<1>9. QED BY <1>1, <1>6, <1>7, <1>8, LocalStep

\* The group is active.
LEMMA CheckGroupStep ==
    ASSUME AccountsInv, NEW p \in Procs, CheckGroup(p)
    PROVE  AccountsInv'
<1>1. /\ TypeOK /\ req[p].pc = "keygroup" /\ Goto(p, "count")
      /\ UNCHANGED <<acct, default, allowed, key, fails, trail, hasty, crossed, begun>>
  BY DEF CheckGroup, users, counts, history, AccountsInv, At
<1>2. ReqOK(p)' BY <1>1, GotoFacts, PlainOK DEF Labels, Plain
<1>3. QED BY <1>1, <1>2, GotoStep DEF Labels, TypeOK

\* Whoever is about to make a key saw fewer than the limit.
LEMMA CountUserKeysStep ==
    ASSUME AccountsInv, NEW p \in Procs, CountUserKeys(p)
    PROVE  AccountsInv'
<1>0. PICK u \in Users : u = req[p].who BY DEF AccountsInv, TypeOK, Request
<1>1. /\ TypeOK /\ req[p].pc = "count" /\ Goto(p, "newkey")
      /\ Cardinality(KeysOf(u)) < KeyLimit
      /\ UNCHANGED <<acct, default, allowed, key, fails, trail, hasty, crossed, begun>>
  BY <1>0 DEF CountUserKeys, BelowLimit, users, counts, history, AccountsInv, At
<1>2. /\ req' \in [Procs -> Request] /\ Still(p)
      /\ req'[p].pc = "newkey" /\ req'[p].who = u
  BY <1>0, <1>1, GotoFacts DEF Labels
<1>3. ReqOK(p)' BY <1>2, PlainOK DEF Plain
<1>4. TypeOK' BY <1>1, <1>2 DEF TypeOK
<1>5. /\ \A q \in Procs : ReqOK(q)'
      /\ SuperLossHasCause'
      /\ \A w \in Users : Told(w)'
  BY <1>1, <1>2, <1>3, AccountsKept
<1>6. ASSUME NEW w \in Users PROVE KeyBound(w)'
  <2>1. KeysOf(w)' = KeysOf(w) BY <1>1 DEF KeysOf, Live
  <2>2. CASE w = u
    <3>1. Cardinality(KeysOf(w)') < KeyLimit BY <1>1, <2>1, <2>2
    <3>2. QED BY <3>1, SizesNext, Numbers DEF KeyBound
  <2>3. CASE w # u
    <3>1. Making(w)' \subseteq Making(w) BY <1>2, <2>3 DEF Making, Still
    <3>2. QED BY <2>1, <3>1, KeysKept
  <2>4. QED BY <2>2, <2>3
<1>7. \A n \in Names : GuessBound(n)' BY <1>1, <1>2, StillAlike, FrameGuess
<1>8. QED BY <1>4, <1>5, <1>6, <1>7 DEF AccountsInv

\* One more key, one request less that makes one.
LEMMA CreateAPIKeyStep ==
    ASSUME AccountsInv, NEW p \in Procs, CreateAPIKey(p)
    PROVE  AccountsInv'
<1>0. PICK u \in Users, g \in Groups \cup {NoGroup} : u = req[p].who /\ g = req[p].grp
  BY DEF AccountsInv, TypeOK, Request
<1>1. PICK k \in Keys :
        /\ ~Live(k)
        /\ key' = [key EXCEPT ![k] = [status |-> "active", owner |-> u, group |-> g]]
  BY <1>0 DEF CreateAPIKey
<1>2. /\ TypeOK /\ req[p].pc = "newkey" /\ End(p)
      /\ UNCHANGED <<acct, default, allowed, fails, trail, hasty, crossed, begun>>
  BY DEF CreateAPIKey, users, counts, history, AccountsInv, At
<1>3. /\ req' \in [Procs -> Request] /\ Still(p) /\ req'[p].pc = "idle" /\ ReqOK(p)'
  BY <1>2, EndFacts
<1>4. /\ key' \in [Keys -> APIKey]
      /\ key'[k].status = "active" /\ key'[k].owner = u
      /\ \A j \in Keys \ {k} : key'[j] = key[j]
  <2>1. [status |-> "active", owner |-> u, group |-> g] \in APIKey BY DEF APIKey
  <2>2. QED BY <1>1, <1>2, <2>1 DEF TypeOK
<1>5. TypeOK' BY <1>2, <1>3, <1>4 DEF TypeOK
<1>6. /\ \A q \in Procs : ReqOK(q)'
      /\ SuperLossHasCause'
      /\ \A w \in Users : Told(w)'
  BY <1>2, <1>3, AccountsKept
<1>7. ASSUME NEW w \in Users PROVE KeyBound(w)'
  <2>1. CASE w = u
    <3>1. KeysOf(w)' = KeysOf(w) \cup {k} /\ k \notin KeysOf(w)
      BY <1>1, <1>4, <2>1 DEF KeysOf, Live
    <3>2. Making(w)' = Making(w) \ {p} /\ p \in Making(w)
      BY <1>0, <1>2, <1>3, <2>1 DEF Making, Still
    <3>3. Cardinality(KeysOf(w)') = Cardinality(KeysOf(w)) + 1
      BY <3>1, Sizes, FS_AddElement
    <3>4. Cardinality(Making(w)') = Cardinality(Making(w)) - 1
      BY <3>2, Sizes, FS_RemoveElement
    <3>5. KeyBound(w) BY DEF AccountsInv
    <3>6. QED BY <3>3, <3>4, <3>5, Sizes, Numbers DEF KeyBound
  <2>2. CASE w # u
    <3>1. KeysOf(w)' \subseteq KeysOf(w) BY <1>4, <2>2 DEF KeysOf, Live
    <3>2. Making(w)' \subseteq Making(w) BY <1>3 DEF Making, Still
    <3>3. QED BY <3>1, <3>2, KeysKept
  <2>3. QED BY <2>1, <2>2
<1>8. \A n \in Names : GuessBound(n)' BY <1>2, <1>3, StillAlike, FrameGuess
<1>9. QED BY <1>5, <1>6, <1>7, <1>8 DEF AccountsInv

\* A user's other changes to keys make none.
LEMMA OwnKeysSteps ==
    ASSUME AccountsInv, NEW p \in Procs, UpdateAPIKeySelf(p) \/ DeleteAPIKeyByUser(p)
    PROVE  AccountsInv'
<1>1. /\ TypeOK /\ req[p].pc = "ready" /\ End(p)
      /\ UNCHANGED <<acct, default, allowed, fails, trail, hasty, crossed, begun>>
  BY DEF UpdateAPIKeySelf, DeleteAPIKeyByUser, users, counts, history, AccountsInv, At
<1>2. PICK k \in Keys, val \in {"active", "disabled", "free"} :
        Live(k) /\ key' = [key EXCEPT ![k].status = val]
  BY DEF UpdateAPIKeySelf, DeleteAPIKeyByUser, KeysOf
<1>3. /\ req' \in [Procs -> Request] /\ Still(p) /\ req'[p].pc = "idle" /\ ReqOK(p)'
  BY <1>1, EndFacts
<1>4. /\ key' \in [Keys -> APIKey]
      /\ \A j \in Keys : key'[j].owner = key[j].owner
      /\ \A j \in Keys \ {k} : key'[j] = key[j]
  BY <1>1, <1>2 DEF TypeOK, APIKey
<1>5. TypeOK' BY <1>1, <1>3, <1>4 DEF TypeOK
<1>6. /\ \A q \in Procs : ReqOK(q)'
      /\ SuperLossHasCause'
      /\ \A w \in Users : Told(w)'
  BY <1>1, <1>3, AccountsKept
<1>7. ASSUME NEW w \in Users PROVE KeyBound(w)'
  <2>1. KeysOf(w)' \subseteq KeysOf(w) BY <1>2, <1>4 DEF KeysOf, Live
  <2>2. QED BY <1>3, <2>1, StillAlike, FrameKeys
<1>8. \A n \in Names : GuessBound(n)' BY <1>1, <1>3, StillAlike, FrameGuess
<1>9. QED BY <1>5, <1>6, <1>7, <1>8 DEF AccountsInv

-----------------------------------------------------------------------------
(* The whole                                                               *)

\* The process ends: counters and requests are gone, lost records noted.
LEMMA RestartStep ==
    ASSUME AccountsInv, Restart
    PROVE  AccountsInv'
<1>1. /\ TypeOK
      /\ req' = [p \in Procs |-> Blank]
      /\ fails' = [n \in Names |-> [count |-> 0, lock |-> "no"]]
      /\ crossed' = crossed \cup Unrecorded(Procs)
      /\ UNCHANGED <<acct, default, allowed, key, trail, hasty, begun>>
  BY DEF Restart, users, counts, AccountsInv
<1>2. \A p \in Procs : req'[p].pc = "idle" BY <1>1 DEF Blank
<1>3. TypeOK'
  <2>1. req' \in [Procs -> Request] BY <1>1, BlankTyped
  <2>2. fails' \in [Names -> Counter] BY <1>1 DEF Counter
  <2>3. QED BY <1>1, <2>1, <2>2 DEF TypeOK
<1>4. \A p \in Procs : ReqOK(p)' BY <1>2, PlainOK DEF Plain
<1>5. SuperLossHasCause' BY <1>1 DEF AccountsInv, SuperLossHasCause, ActiveSuper
<1>6. ASSUME NEW u \in Users PROVE KeyBound(u)'
  <2>1. KeysOf(u)' \subseteq KeysOf(u) BY <1>1 DEF KeysOf, Live
  <2>2. Making(u)' \subseteq Making(u) BY <1>2 DEF Making
  <2>3. QED BY <2>1, <2>2, KeysKept
<1>7. ASSUME NEW u \in Users PROVE Told(u)'
  <2>1. CASE u \in crossed' BY <2>1 DEF Told
  <2>2. CASE u \notin crossed'
    <3>1. Told(u) /\ u \notin crossed BY <1>1, <2>2 DEF AccountsInv
    <3>2. \A p \in Procs : ~Pending(p, u, {"role", "status", "create"})
      BY <1>1, <2>2 DEF Unrecorded
    <3>3. trail[u].role = acct[u].role /\ trail[u].status = acct[u].status
      BY <3>1, <3>2 DEF Told, Pending
    <3>4. QED BY <1>1, <3>3 DEF Told
  <2>3. QED BY <2>1, <2>2
<1>8. \A n \in Names : GuessBound(n)'
  BY <1>1, Numbers DEF GuessBound
<1>9. QED BY <1>3, <1>4, <1>5, <1>6, <1>7, <1>8 DEF AccountsInv

\* The accounts there at first are recorded, and nobody asks for anything.
LEMMA InitInv == Init => AccountsInv
<1> SUFFICES ASSUME Init PROVE AccountsInv OBVIOUS
<1>1. /\ acct = [u \in Users |->
                  [role |-> IF u \in Supers THEN "super"
                            ELSE IF u \in Admins THEN "admin"
                            ELSE IF u \in Members THEN "user" ELSE "none",
                   status |-> "active"]]
      /\ default \in [Users -> Open \cup {NoGroup}]
      /\ allowed = [u \in Users |-> [group : {default[u]} \ {NoGroup}, no : {0}]]
      /\ fails = [n \in Names |->
                   [count |-> IF n = AnyName THEN MaxFailures - 1 ELSE 0, lock |-> "no"]]
      /\ req = [p \in Procs |-> Blank]
      /\ begun = 0 /\ trail = acct /\ crossed = {} /\ hasty = {}
  BY DEF Init
<1>2. PICK o \in Registered \cap Supers, g \in Open :
        key = [k \in Keys |->
                IF k \in Owned
                THEN [status |-> "active", owner |-> o, group |-> g]
                ELSE [status |-> "free", owner |-> Anyone, group |-> NoGroup]]
  BY DEF Init
<1>3. /\ o \in Users /\ Open \subseteq Groups /\ Anyone \in Users
      /\ IsFiniteSet(Owned) /\ Cardinality(Owned) \in Nat
      /\ Cardinality(Owned) <= KeyLimit
  <2>1. Users # {} BY AccountsAssumption DEF AccountsAssumption
  <2>2. IsFiniteSet(Owned) /\ Cardinality(Owned) \in Nat
    BY AccountsAssumption, FS_Subset, FS_CardinalityType DEF AccountsAssumption
  <2>3. QED BY <2>1, <2>2, AccountsAssumption DEF AccountsAssumption, Anyone
<1>4. TypeOK
  <2>1. acct \in [Users -> Account] BY <1>1 DEF Account, Ranks, States
  <2>2. default \in [Users -> Groups \cup {NoGroup}] BY <1>1, <1>3
  <2>3. allowed \in [Users -> SUBSET Row] BY <1>1, <2>2 DEF Row
  <2>4. key \in [Keys -> APIKey] BY <1>2, <1>3 DEF APIKey
  <2>5. fails \in [Names -> Counter] BY <1>1, Numbers DEF Counter
  <2>6. req \in [Procs -> Request] BY <1>1, BlankTyped
  <2>7. QED BY <1>1, <2>1, <2>2, <2>3, <2>4, <2>5, <2>6 DEF TypeOK
<1>5. \A p \in Procs : req[p].pc = "idle" BY <1>1 DEF Blank
<1>6. \A p \in Procs : ReqOK(p) BY <1>5 DEF ReqOK
<1>7. SuperLossHasCause
  <2>1. ActiveSuper(o) BY <1>1, <1>3 DEF ActiveSuper
  <2>2. QED BY <1>3, <2>1 DEF SuperLossHasCause
<1>8. ASSUME NEW u \in Users PROVE KeyBound(u) /\ Told(u)
  <2>1. KeysOf(u) \subseteq Owned BY <1>2 DEF KeysOf, Live
  <2>2. Cardinality(KeysOf(u)) <= Cardinality(Owned) BY <1>3, <2>1, FS_Subset
  <2>3. Making(u) = {} BY <1>5 DEF Making
  <2>4. Cardinality(Making(u)) = 0 BY <2>3, FS_EmptySet
  <2>5. KeyBound(u) BY <1>3, <2>2, <2>4, Sizes, Numbers DEF KeyBound
  <2>6. QED BY <1>1, <2>5 DEF Told
<1>9. \A n \in Names : GuessBound(n) BY <1>1, Numbers DEF GuessBound
<1>10. QED BY <1>4, <1>6, <1>7, <1>8, <1>9 DEF AccountsInv

\* Stuttering.
LEMMA UnchangedStep ==
    ASSUME AccountsInv, UNCHANGED vars
    PROVE  AccountsInv'
<1>1. UNCHANGED <<acct, default, allowed, key, fails, req, begun, trail, crossed, hasty>>
  BY DEF vars, users, counts, history
<1>2. TypeOK' BY <1>1 DEF AccountsInv, TypeOK
<1>3. \A p \in Procs : ReqOK(p)' BY <1>1 DEF AccountsInv, ReqOK, Exists
<1>4. SuperLossHasCause' BY <1>1 DEF AccountsInv, SuperLossHasCause, ActiveSuper
<1>5. ASSUME NEW u \in Users PROVE KeyBound(u)' /\ Told(u)'
  <2>1. KeysOf(u)' = KeysOf(u) /\ Making(u)' = Making(u)
    BY <1>1 DEF KeysOf, Live, Making
  <2>2. \A q \in Procs, K \in {{"role", "create"}, {"status", "create"}} :
            Pending(q, u, K)' = Pending(q, u, K)
    BY <1>1 DEF Pending
  <2>3. Told(u) BY DEF AccountsInv
  <2>4. Told(u)' BY <1>1, <2>2, <2>3 DEF Told
  <2>5. QED BY <2>1, <2>4, KeysKept
<1>6. ASSUME NEW n \in Names PROVE GuessBound(n)'
  <2>1. Trying(n)' = Trying(n) BY <1>1 DEF Trying
  <2>2. QED BY <1>1, <2>1, GuessKept
<1>7. QED BY <1>2, <1>3, <1>4, <1>5, <1>6 DEF AccountsInv

\* Every step keeps the invariant.
LEMMA NextInv == AccountsInv /\ [Next]_vars => AccountsInv'
<1> SUFFICES ASSUME AccountsInv, [Next]_vars PROVE AccountsInv'
  OBVIOUS
<1>1. ASSUME NEW p \in Procs, Principals(p) PROVE AccountsInv'
  BY <1>1, BySessionStep, ByKeyStep, ReadUserStep, ReadGroupStep, AbortStep DEF Principals
<1>2. ASSUME NEW p \in Procs, Administration(p) PROVE AccountsInv'
  <2>1. CASE UpdateUserProfile(p) \/ ManualBalanceAdjust(p) \/ InsertAllowed(p)
             \/ CreateGroup(p) \/ UpdateGroup(p) \/ DeleteGroup(p)
    BY <2>1, QuietChanges
  <2>2. CASE SetUserStatus(p) BY <2>2, SetUserStatusStep
  <2>3. CASE SetUserRole(p) BY <2>3, SetUserRoleStep
  <2>4. CASE DeleteAllowed(p) BY <2>4, DeleteAllowedStep
  <2>5. CASE Audit(p) BY <2>5, AuditStep
  <2>6. CASE \/ \E u \in Users :
                    \/ AskProfile(p, u)
                    \/ \E val \in {"active", "disabled"} : AskStatus(p, u, val)
                    \/ \E val \in Roles : AskRole(p, u, val)
                    \/ \E val \in DOMAIN Amount : AskAdjust(p, u, val)
                    \/ \E set \in SUBSET Rows : AskGroups(p, u, set)
                    \/ \E val \in Roles, g \in Groups \cup {NoGroup} : AskUser(p, u, val, g)
             \/ \E g \in Groups : AskGroup(p, g)
    BY <2>6, AskSteps
  <2>7. QED BY <1>2, <2>1, <2>2, <2>3, <2>4, <2>5, <2>6 DEF Administration
<1>3. ASSUME NEW p \in Procs, Portal(p) PROVE AccountsInv'
  BY <1>3, RegisterStep, CreateUserStep, AllowUserGroupStep, LoginStep, LookUpStep,
     RecordFailureStep, ClearFailuresStep, SessionSteps, AskKeyStep, CheckGroupStep,
     CountUserKeysStep, CreateAPIKeyStep, OwnKeysSteps
     DEF Portal
<1>4. QED BY <1>1, <1>2, <1>3, UnlockStep, RestartStep, UnchangedStep DEF Next

\* The inductive invariant: what requests carry fits what they do, changes that
\* wait for their record are the last ones, and every request on its way to a
\* new key or a guess is counted in.
THEOREM AccountsInvariant == Spec => []AccountsInv
<1>1. QED BY InitInv, NextInv, PTL DEF Spec

\* For any number of administrators at work: an active super administrator is
\* left unless an account changed on a check that had ceased to hold (admin.go).
THEOREM SuperLossNeedsRace == Spec => []SuperLossHasCause
<1>1. AccountsInv => SuperLossHasCause BY DEF AccountsInv
<1>2. QED BY <1>1, AccountsInvariant, PTL

\* For any limit and any number of requests side by side: each but one exceeds
\* the limit of a user's keys by one at most (portal_keys.go).
THEOREM KeyLimitNearlyHolds == Spec => []KeysBounded
<1>1. AccountsInv => KeysBounded
  <2> SUFFICES ASSUME AccountsInv, NEW u \in Users
               PROVE  Cardinality(KeysOf(u)) <= KeyLimit - 1 + Cardinality(Procs)
    BY DEF KeysBounded
  <2>1. KeyBound(u) BY DEF AccountsInv
  <2>2. QED BY <2>1, Sizes, Numbers DEF KeyBound
<1>2. QED BY <1>1, AccountsInvariant, PTL

\* For any number of names and of logins side by side: a name is locked after
\* MaxFailures wrong passwords and those on their way (portal_auth.go).
THEOREM LockNearlyHolds == Spec => []GuessesBounded
<1>1. AccountsInv => GuessesBounded
  <2> SUFFICES ASSUME AccountsInv, NEW n \in Names
               PROVE  fails[n].count <= MaxFailures - 1 + Cardinality(Procs)
    BY DEF GuessesBounded
  <2>1. /\ GuessBound(n) /\ fails[n].count \in Nat
        /\ fails[n].lock \in {"no", "yes", "over"}
    BY DEF AccountsInv, TypeOK, Counter
  <2>2. QED BY <2>1, Sizes, Numbers DEF GuessBound
<1>2. QED BY <1>1, AccountsInvariant, PTL

\* The audit log tells the role and status of every account where no requests
\* crossed and no record is missing (admin.go, audit).
THEOREM TrailTells == Spec => []AuditTells
<1>1. AccountsInv => AuditTells
  <2> SUFFICES ASSUME AccountsInv, NEW u \in Users, u \notin crossed,
                      \A p \in Procs : ~Pending(p, u, {"role", "status", "create"})
               PROVE  trail[u] = acct[u]
    BY DEF AuditTells
  <2>1. Told(u) /\ trail[u] \in Account /\ acct[u] \in Account
    BY DEF AccountsInv, TypeOK
  <2>2. trail[u].role = acct[u].role /\ trail[u].status = acct[u].status
    BY <2>1 DEF Told, Pending
  <2>3. QED BY <2>1, <2>2 DEF Account
<1>2. QED BY <1>1, AccountsInvariant, PTL
=============================================================================
