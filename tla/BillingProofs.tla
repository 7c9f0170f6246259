----------------------------- MODULE BillingProofs -----------------------------
(***************************************************************************)
(* Proofs about what billing writes: first that the safety properties of   *)
(* Settlement hold for every number of workers, users, requests and        *)
(* deliveries (SettlementInv is inductive; its conjuncts are treated one   *)
(* by one), and that Settlement implements Account while the messages of a *)
(* user take turns, or for a user who never overdraws; then that the usage *)
(* log, the statistics and the reconciliation of module Usage fail for the *)
(* stated causes only.                                                     *)
(***************************************************************************)
EXTENDS Settlement, Usage, Sums, TLAPS

(***************************************************************************)
(* A worker that is not idle works on a delivery of a known task.          *)
(***************************************************************************)
LEMMA JobType ==
    ASSUME TypeOK, HeldByOne, NEW w \in Workers, pc[w] # "idle"
    PROVE  /\ job[w] \in Deliveries
           /\ TaskOf(w) \in Tasks
           /\ TaskOf(w).kind \in {"settle", "refund"}
           /\ TaskOf(w).req \in Requests
           /\ UserOf(w) \in Users
           /\ Charge[TaskOf(w)] \in Nat
<1>1. job[w] \in Deliveries
  BY DEF HeldByOne
<1>2. TaskOf(w) \in Tasks
  BY <1>1 DEF TaskOf, Deliveries
<1>3. TaskOf(w) \in TaskType
  BY <1>2, SettlementAssumption
<1>4. /\ TaskOf(w).kind \in {"settle", "refund"}
      /\ TaskOf(w).req \in Requests
  BY <1>3 DEF TaskType
<1>5. UserOf(w) \in Users
  BY <1>4, SettlementAssumption DEF UserOf
<1>6. Charge[TaskOf(w)] \in Nat
  BY <1>2, SettlementAssumption
<1>7. QED BY <1>1, <1>2, <1>4, <1>5, <1>6

(***************************************************************************)
(* What appending does to the rows of the ledger.                          *)
(***************************************************************************)
LEMMA AppendRow ==
    ASSUME NEW s \in Seq(EntryType), NEW e \in EntryType
    PROVE  /\ Append(s, e) \in Seq(EntryType)
           /\ DOMAIN s = 1 .. Len(s)
           /\ Len(s) \in Nat
           /\ DOMAIN Append(s, e) = 1 .. (Len(s) + 1)
           /\ \A i \in 1 .. Len(s) : Append(s, e)[i] = s[i]
           /\ Append(s, e)[Len(s) + 1] = e
OBVIOUS

(***************************************************************************)
(* The row a worker's transaction inserts is well formed.                  *)
(***************************************************************************)
LEMMA WorkerEntry ==
    ASSUME TypeOK, HeldByOne, NEW w \in Workers, pc[w] # "idle"
    PROVE  Entry(TaskOf(w).kind, TaskOf(w).req, UserOf(w), draft[w]) \in EntryType
<1>1. draft[w] \in DraftType
  BY DEF TypeOK
<1>2. /\ TaskOf(w).kind \in {"settle", "refund"}
      /\ TaskOf(w).req \in Requests
      /\ UserOf(w) \in Users
  BY JobType
<1>3. QED BY <1>1, <1>2 DEF Entry, EntryType, DraftType

(***************************************************************************)
(* Appending a row keeps the links of the chain, and adds one when the row *)
(* continues from the balance.                                             *)
(***************************************************************************)
LEMMA ChainAppend ==
    ASSUME TypeOK, NewestRow, NEW u \in Users, NEW e \in EntryType,
           e.user = u, ledger' = Append(ledger, e)
    PROVE  /\ \A i \in DOMAIN ledger : Chained(i) => Chained(i)'
           /\ e.after = balance[u] + e.amount =>
                \A i \in DOMAIN ledger' \ DOMAIN ledger : Chained(i)'
<1> DEFINE n == Len(ledger)
<1>1. /\ DOMAIN ledger = 1 .. n
      /\ n \in Nat
      /\ DOMAIN ledger' = 1 .. (n + 1)
      /\ \A i \in 1 .. n : ledger'[i] = ledger[i]
      /\ ledger'[n + 1] = e
  BY AppendRow DEF TypeOK
<1>2. ASSUME NEW i \in DOMAIN ledger, Chained(i)
      PROVE  Chained(i)'
  <2>1. ledger'[i] = ledger[i] /\ i \in 1 .. n
    BY <1>1, <1>2
  <2>2. Earlier(i)' = Earlier(i)
    BY <1>1, <2>1 DEF Earlier
  <2>3. \A j \in Earlier(i) : ledger'[j] = ledger[j]
    BY <1>1 DEF Earlier
  <2>4. QED BY <1>2, <2>1, <2>2, <2>3 DEF Chained
<1>3. ASSUME e.after = balance[u] + e.amount,
             NEW i \in DOMAIN ledger' \ DOMAIN ledger
      PROVE  Chained(i)'
  <2>1. i = n + 1 /\ ledger'[i] = e
    BY <1>1, <1>3
  <2>2. Earlier(i)' = {j \in DOMAIN ledger : ledger[j].user = u}
    BY <1>1, <2>1 DEF Earlier
  <2>3. \A j \in DOMAIN ledger : ledger'[j] = ledger[j]
    BY <1>1
  <2>4. QED BY <1>3, <2>1, <2>2, <2>3 DEF NewestRow, Chained
<1>4. QED BY <1>2, <1>3

(***************************************************************************)
(* One booking: a row e is appended for user u and becomes u's balance.    *)
(***************************************************************************)
LEMMA BookingStep ==
    ASSUME TypeOK, NewestRow, BookedOnce, BalanceChain,
           NEW u \in Users, NEW e \in EntryType,
           e.user = u,
           ledger' = Append(ledger, e),
           balance' = [balance EXCEPT ![u] = e.after],
           \/ e.kind = "settle" /\ e.after = 0
           \/ e.after = balance[u] + e.amount,
           e.kind \in {"settle", "refund"} =>
             \A i \in DOMAIN ledger :
                ~(ledger[i].kind = e.kind /\ ledger[i].ref = e.ref)
    PROVE  /\ NewestRow'
           /\ BookedOnce'
           /\ BalanceChain'
           /\ \A t \in Tasks : Done(t) => Done(t)'
<1> DEFINE n == Len(ledger)
<1>1. /\ ledger \in Seq(EntryType)
      /\ balance \in [Users -> Nat]
  BY DEF TypeOK
<1>2. /\ DOMAIN ledger = 1 .. n
      /\ n \in Nat
      /\ DOMAIN ledger' = 1 .. (n + 1)
      /\ \A i \in 1 .. n : ledger'[i] = ledger[i]
      /\ ledger'[n + 1] = e
  BY <1>1, AppendRow
<1>3. /\ balance'[u] = e.after
      /\ \A v \in Users \ {u} : balance'[v] = balance[v]
  BY <1>1
<1> HIDE DEF n
<1>4. NewestRow'
  <2> SUFFICES ASSUME NEW v \in Users
               PROVE  LET own == {i \in DOMAIN ledger' : ledger'[i].user = v} IN
                      \/ own = {} /\ balance'[v] = Opening[v]
                      \/ \E i \in own : /\ \A j \in own : j <= i
                                        /\ balance'[v] = ledger'[i].after
    BY DEF NewestRow
  <2>1. CASE v = u
    <3>1. n + 1 \in {i \in DOMAIN ledger' : ledger'[i].user = v}
      BY <1>2, <2>1
    <3>2. \A j \in DOMAIN ledger' : j <= n + 1
      BY <1>2
    <3>3. QED BY <1>2, <1>3, <2>1, <3>1, <3>2
  <2>2. CASE v # u
    <3>1. {i \in DOMAIN ledger' : ledger'[i].user = v}
            = {i \in DOMAIN ledger : ledger[i].user = v}
      BY <1>2, <2>2
    <3>2. \A i \in DOMAIN ledger : ledger'[i].after = ledger[i].after
      BY <1>2
    <3>3. QED BY <1>3, <2>2, <3>1, <3>2 DEF NewestRow
  <2>3. QED BY <2>1, <2>2
<1>5. BookedOnce'
  BY <1>2 DEF BookedOnce
<1>6. BalanceChain'
  <2>1. ASSUME NEW i \in DOMAIN ledger', ~Emptied(i)'
        PROVE  Chained(i)'
    <3>1. CASE i \in 1 .. n
      <4>1. ~Emptied(i) /\ i \in DOMAIN ledger
        BY <1>2, <2>1, <3>1 DEF Emptied
      <4>2. QED BY <4>1, ChainAppend DEF BalanceChain
    <3>2. CASE i = n + 1
      <4>1. e.after = balance[u] + e.amount
        BY <1>2, <2>1, <3>2 DEF Emptied
      <4>2. QED BY <1>2, <3>2, <4>1, ChainAppend
    <3>3. QED BY <1>2, <2>1, <3>1, <3>2
  <2>2. QED BY <2>1 DEF BalanceChain
<1>7. \A t \in Tasks : Done(t) => Done(t)'
  BY <1>2 DEF Done, Posted
<1>8. QED BY <1>4, <1>5, <1>6, <1>7

-----------------------------------------------------------------------------
\* The two ways the ledger can change in a step: not at all, or by a row that
\* BookingStep covers.
Books ==
    \E u \in Users, e \in EntryType :
        /\ e.user = u
        /\ ledger' = Append(ledger, e)
        /\ balance' = [balance EXCEPT ![u] = e.after]
        /\ \/ e.kind = "settle" /\ e.after = 0
           \/ e.after = balance[u] + e.amount
        /\ e.kind \in {"settle", "refund"} =>
              \A i \in DOMAIN ledger :
                 ~(ledger[i].kind = e.kind /\ ledger[i].ref = e.ref)

\* A commit of w's transaction is such a row.
LEMMA ApplyBooks ==
    ASSUME SettlementInv, NEW w \in Workers, pc[w] = "commit",
           ~Posted(TaskOf(w)), Apply(w)
    PROVE  Books
<1> DEFINE u == UserOf(w)
           e == Entry(TaskOf(w).kind, TaskOf(w).req, u, draft[w])
<1>1. TypeOK /\ HeldByOne /\ OpenTx
  BY DEF SettlementInv
<1>2. u \in Users /\ TaskOf(w).kind \in {"settle", "refund"}
  BY <1>1, JobType
<1>3. e \in EntryType
  BY <1>1, WorkerEntry
<1>4. /\ e.user = u
      /\ e.after = draft[w].after
      /\ e.amount = draft[w].amount
      /\ e.kind = TaskOf(w).kind
      /\ e.ref = TaskOf(w).req
  BY DEF Entry
<1>5. /\ ledger' = Append(ledger, e)
      /\ balance' = [balance EXCEPT ![u] = e.after]
  BY <1>4 DEF Apply
<1>6. \/ e.kind = "settle" /\ e.after = 0
      \/ e.after = balance[u] + e.amount
  BY <1>1, <1>4 DEF OpenTx
<1>7. \A i \in DOMAIN ledger :
         ~(ledger[i].kind = e.kind /\ ledger[i].ref = e.ref)
  BY <1>4 DEF Posted
<1> HIDE DEF u, e
<1>8. QED BY <1>2, <1>3, <1>4, <1>5, <1>6, <1>7 DEF Books

\* A recharge or an adjustment is such a row.
LEMMA BookBooks ==
    ASSUME TypeOK, NEW kind \in {"recharge", "adjust"},
           NEW ref \in Orders \cup Adjusts, NEW u \in Users,
           NEW amount \in Int, balance[u] + amount >= 0,
           Book(kind, ref, u, amount)
    PROVE  Books
<1> DEFINE e == Entry(kind, ref, u, [amount |-> amount, overdraft |-> 0,
                                     after |-> balance[u] + amount])
<1>1. balance[u] \in Nat
  BY DEF TypeOK
<1>2. e \in EntryType
  BY <1>1 DEF Entry, EntryType
<1>3. /\ e.user = u
      /\ e.after = balance[u] + amount
      /\ e.amount = amount
      /\ e.kind \notin {"settle", "refund"}
  BY DEF Entry
<1>4. /\ ledger' = Append(ledger, e)
      /\ balance' = [balance EXCEPT ![u] = e.after]
  BY <1>3 DEF Book
<1> HIDE DEF e
<1>5. QED BY <1>2, <1>3, <1>4 DEF Books

\* So every step either leaves balances and ledger alone or books a row.
LEMMA StepBooks ==
    ASSUME SettlementInv, [Next]_vars
    PROVE  Books \/ UNCHANGED <<balance, ledger>>
<1>1. TypeOK
  BY DEF SettlementInv
<1>2. ASSUME NEW w \in Workers, Commit(w) \/ CommitUnconfirmed(w)
      PROVE  Books
  BY <1>2, ApplyBooks DEF Commit, CommitUnconfirmed
<1>3. ASSUME NEW o \in Orders, Recharge(o)
      PROVE  Books
  <2>1. OrderOwner[o] \in Users /\ OrderAmount[o] \in Nat
    BY SettlementAssumption
  <2>2. balance[OrderOwner[o]] \in Nat
    BY <1>1, <2>1 DEF TypeOK
  <2>3. Book("recharge", o, OrderOwner[o], OrderAmount[o])
    BY <1>3 DEF Recharge
  <2>4. QED BY <1>1, <2>1, <2>2, <2>3, BookBooks
<1>4. ASSUME NEW a \in Adjusts, Adjust(a)
      PROVE  Books
  <2>1. AdjustUser[a] \in Users /\ AdjustDelta[a] \in Int
    BY SettlementAssumption
  <2>2. /\ balance[AdjustUser[a]] + AdjustDelta[a] >= 0
        /\ Book("adjust", a, AdjustUser[a], AdjustDelta[a])
    BY <1>4 DEF Adjust
  <2>3. QED BY <1>1, <2>1, <2>2, BookBooks
<1>5. ASSUME NEW w \in Workers,
             \/ Lookup(w) \/ Debit(w) \/ Miss(w) \/ ReadBalance(w)
             \/ ZeroOut(w) \/ Credit(w) \/ Duplicate(w) \/ Put(w)
             \/ Release(w) \/ Ack(w) \/ Fail(w) \/ Crash(w)
      PROVE  UNCHANGED <<balance, ledger>>
  BY <1>5 DEF Lookup, Debit, Miss, ReadBalance, ZeroOut, Credit, Duplicate,
              Put, Release, Ack, Fail, Crash, rowVars
<1>6. CASE UNCHANGED vars
  BY <1>6 DEF vars, rowVars
<1>7. QED
  BY <1>2, <1>3, <1>4, <1>5, <1>6
     DEF Next, HandlerStep, Publish, Take, ExpireL2, rowVars

\* Booking aside, nothing about ledger and balances is lost in a step.
LEMMA LedgerStep ==
    ASSUME SettlementInv, [Next]_vars
    PROVE  /\ NewestRow'
           /\ BookedOnce'
           /\ BalanceChain'
           /\ \A t \in Tasks : Done(t) => Done(t)'
<1>1. TypeOK /\ NewestRow /\ BookedOnce /\ BalanceChain
  BY DEF SettlementInv
<1>2. CASE Books
  BY <1>1, <1>2, BookingStep DEF Books
<1>3. CASE UNCHANGED <<balance, ledger>>
  BY <1>1, <1>3 DEF NewestRow, BookedOnce, BalanceChain, Chained, Emptied, Earlier,
                    Done, Posted
<1>4. QED BY <1>2, <1>3, StepBooks

-----------------------------------------------------------------------------
\* The types of the row variables and the ledger.
LEMMA RowTypes ==
    ASSUME SettlementInv, [Next]_vars
    PROVE  /\ balance' \in [Users -> Nat]
           /\ ledger' \in Seq(EntryType)
<1>1. TypeOK
  BY DEF SettlementInv
<1>2. CASE Books
  <2>1. PICK u \in Users, e \in EntryType :
          /\ ledger' = Append(ledger, e)
          /\ balance' = [balance EXCEPT ![u] = e.after]
    BY <1>2 DEF Books
  <2>2. e.after \in Nat
    BY DEF EntryType
  <2>3. ledger' \in Seq(EntryType)
    BY <1>1, <2>1, AppendRow DEF TypeOK
  <2>4. balance' \in [Users -> Nat]
    BY <1>1, <2>1, <2>2 DEF TypeOK
  <2>5. QED BY <2>3, <2>4
<1>3. CASE UNCHANGED <<balance, ledger>>
  BY <1>1, <1>3 DEF TypeOK
<1>4. QED BY <1>2, <1>3, StepBooks

\* Ending a transaction keeps the types of the locks and of the drafts.
LEMMA EndTxTypes ==
    ASSUME TypeOK, NEW w \in Workers, EndTx(w)
    PROVE  /\ lock' \in [Users -> Workers \cup {NoWorker}]
           /\ draft' \in [Workers -> DraftType]
BY DEF EndTx, TypeOK, NoDraft, DraftType

\* Every step keeps the types.
LEMMA TypeStep ==
    ASSUME SettlementInv, [Next]_vars
    PROVE  TypeOK'
<1>1. TypeOK /\ HeldByOne /\ OpenTx
  BY DEF SettlementInv
<1>2. balance' \in [Users -> Nat] /\ ledger' \in Seq(EntryType)
  BY RowTypes
<1> USE DEF TypeOK, Steps, Places
<1>3. ASSUME NEW d \in Deliveries, Publish(d)
      PROVE  TypeOK'
  BY <1>1, <1>3 DEF Publish, rowVars, sideVars, workerVars
<1>4. ASSUME NEW w \in Workers, NEW d \in Deliveries, Take(w, d)
      PROVE  TypeOK'
  BY <1>1, <1>4 DEF Take, Goto, rowVars, sideVars
<1>5. ASSUME NEW w \in Workers, pc[w] # "idle"
      PROVE  /\ job[w] \in Deliveries
             /\ TaskOf(w) \in Tasks
             /\ UserOf(w) \in Users
             /\ Charge[TaskOf(w)] \in Nat
             /\ balance[UserOf(w)] \in Nat
  BY <1>1, <1>5, JobType
<1>6. ASSUME NEW w \in Workers, Lookup(w) \/ Miss(w)
      PROVE  TypeOK'
  BY <1>1, <1>6 DEF Lookup, Miss, Goto, rowVars, sideVars, queueVars
<1>7. ASSUME NEW w \in Workers, Debit(w)
      PROVE  TypeOK'
  <2>1. pc[w] # "idle" /\ balance[UserOf(w)] >= Charge[TaskOf(w)]
    BY <1>7 DEF Covers, Debit
  <2>2. [amount |-> -Charge[TaskOf(w)], overdraft |-> 0,
         after |-> balance[UserOf(w)] - Charge[TaskOf(w)]] \in DraftType
    BY <1>5, <2>1 DEF DraftType
  <2>3. QED BY <1>1, <1>5, <1>7, <2>1, <2>2
            DEF Debit, Goto, sideVars, queueVars
<1>8. ASSUME NEW w \in Workers, ReadBalance(w)
      PROVE  TypeOK'
  <2>1. pc[w] # "idle"
    BY <1>8 DEF ReadBalance
  <2>2. [amount |-> -balance[UserOf(w)],
         overdraft |-> Charge[TaskOf(w)] - balance[UserOf(w)],
         after |-> 0] \in DraftType
    BY <1>5, <2>1 DEF DraftType
  <2>3. QED BY <1>1, <1>8, <2>2
            DEF Shortfall, ReadBalance, Goto, rowVars, sideVars, queueVars
<1>9. ASSUME NEW w \in Workers, ZeroOut(w)
      PROVE  TypeOK'
  BY <1>1, <1>5, <1>9 DEF ZeroOut, Goto, sideVars, queueVars
<1>10. ASSUME NEW w \in Workers, Credit(w)
       PROVE  TypeOK'
  <2>1. pc[w] # "idle"
    BY <1>10 DEF Credit
  <2>2. [amount |-> Charge[TaskOf(w)], overdraft |-> 0,
         after |-> balance[UserOf(w)] + Charge[TaskOf(w)]] \in DraftType
    BY <1>5, <2>1 DEF DraftType
  <2>3. QED BY <1>1, <1>5, <1>10, <2>1, <2>2
            DEF Credit, Goto, sideVars, queueVars
<1>11. ASSUME NEW w \in Workers, pc[w] = "commit", Apply(w)
       PROVE  consumed' \in [Users -> Int] /\ behind' \subseteq Tasks
  <2>1. draft[w].amount \in Int
    BY <1>1 DEF DraftType
  <2>2. UserOf(w) \in Users /\ TaskOf(w) \in Tasks
    BY <1>5, <1>11
  <2>3. consumed' \in [Users -> Int]
    BY <1>1, <1>11, <2>1, <2>2 DEF Consumption, Apply
  <2>4. behind' \subseteq Tasks
    BY <1>1, <1>11, <2>2 DEF Apply
  <2>5. QED BY <2>3, <2>4
<1>12. ASSUME NEW w \in Workers, Commit(w)
       PROVE  TypeOK'
  <2>1. consumed' \in [Users -> Int] /\ behind' \subseteq Tasks
    BY <1>11, <1>12 DEF Commit
  <2>2. QED BY <1>1, <1>2, <1>12, <2>1, EndTxTypes
            DEF Commit, Goto, queueVars
<1>13. ASSUME NEW w \in Workers, Duplicate(w)
       PROVE  TypeOK'
  BY <1>1, <1>13, EndTxTypes DEF Duplicate, Goto, sideVars, queueVars
<1>14. ASSUME NEW w \in Workers, Put(w)
       PROVE  TypeOK'
  BY <1>1, <1>5, <1>14 DEF Put, Goto, rowVars, queueVars
<1>15. ASSUME NEW w \in Workers, Release(w)
       PROVE  TypeOK'
  BY <1>1, <1>5, <1>15 DEF Release, Goto, rowVars, queueVars
<1>16. ASSUME NEW w \in Workers, Ack(w)
       PROVE  TypeOK'
  BY <1>1, <1>5, <1>16 DEF Ack, Goto, rowVars, sideVars
<1>17. ASSUME NEW w \in Workers, pc[w] # "idle", Reject(w)
       PROVE  /\ place' \in [Deliveries -> Places]
              /\ tries' \in [Deliveries -> 0 .. MaxRetry]
              /\ job' \in [Workers -> Deliveries \cup {NoDelivery}]
              /\ pc' \in [Workers -> Steps]
  <2>1. job[w] \in Deliveries
    BY <1>5, <1>17
  <2>2. tries[job[w]] \in 0 .. MaxRetry /\ MaxRetry \in Nat
    BY <1>1, <2>1, SettlementAssumption
  <2>3. QED BY <1>1, <1>17, <2>1, <2>2 DEF AfterError, Reject, Goto
<1>18. ASSUME NEW w \in Workers, Fail(w)
       PROVE  TypeOK'
  <2>1. pc[w] # "idle"
    BY <1>18 DEF Fail
  <2>2. l2' \subseteq Tasks /\ missed' \subseteq Tasks
    BY <1>1, <1>5, <1>18, <2>1 DEF Fail
  <2>3. QED BY <1>1, <1>17, <1>18, <2>1, <2>2, EndTxTypes DEF Fail
<1>19. ASSUME NEW w \in Workers, CommitUnconfirmed(w)
       PROVE  TypeOK'
  <2>1. consumed' \in [Users -> Int] /\ behind' \subseteq Tasks
    BY <1>11, <1>19 DEF CommitUnconfirmed
  <2>2. QED BY <1>1, <1>2, <1>17, <1>19, <2>1, EndTxTypes
            DEF CommitUnconfirmed
<1>20. ASSUME NEW w \in Workers, Crash(w)
       PROVE  TypeOK'
  <2>1. crashes' \in 0 .. MaxCrashes
    BY <1>1, <1>20, SettlementAssumption DEF Crash
  <2>2. QED BY <1>1, <1>5, <1>20, <2>1, EndTxTypes
            DEF Returned, Crash, Goto, sideVars
<1>21. ASSUME NEW t \in Tasks, ExpireL2(t)
       PROVE  TypeOK'
  BY <1>1, <1>21 DEF ExpireL2, rowVars, queueVars, workerVars
<1>22. ASSUME NEW o \in Orders, Recharge(o)
       PROVE  TypeOK'
  BY <1>1, <1>2, <1>22, SettlementAssumption DEF Recharge, queueVars, workerVars
<1>23. ASSUME NEW a \in Adjusts, Adjust(a)
       PROVE  TypeOK'
  BY <1>1, <1>2, <1>23 DEF Adjust, queueVars, workerVars
<1>24. CASE UNCHANGED vars
  BY <1>1, <1>24 DEF vars, rowVars, sideVars, queueVars, workerVars
<1>25. QED
  BY <1>3, <1>4, <1>6, <1>7, <1>8, <1>9, <1>10, <1>12, <1>13, <1>14, <1>15,
     <1>16, <1>18, <1>19, <1>20, <1>21, <1>22, <1>23, <1>24
     DEF Next, HandlerStep

-----------------------------------------------------------------------------
\* A delivery is held by at most one worker.
LEMMA HeldStep ==
    ASSUME SettlementInv, [Next]_vars
    PROVE  HeldByOne'
<1>1. TypeOK /\ HeldByOne
  BY DEF SettlementInv
<1> USE DEF HeldByOne, TypeOK
<1>2. ASSUME NEW d \in Deliveries, Publish(d)
      PROVE  HeldByOne'
  BY <1>1, <1>2 DEF Publish, workerVars
<1>3. ASSUME NEW w \in Workers, NEW d \in Deliveries, Take(w, d)
      PROVE  HeldByOne'
  BY <1>1, <1>3 DEF Takeable, Take, Goto
<1>4. ASSUME NEW w \in Workers, pc[w] # "idle", UNCHANGED <<place, job>>,
             NEW step \in Steps, pc' = [pc EXCEPT ![w] = step]
      PROVE  HeldByOne'
  BY <1>1, <1>4
<1>5. ASSUME NEW w \in Workers, pc[w] # "idle", NEW p \in Places,
             place' = [place EXCEPT ![job[w]] = p],
             job' = [job EXCEPT ![w] = NoDelivery],
             Goto(w, "idle")
      PROVE  HeldByOne'
  BY <1>1, <1>5 DEF Goto
<1>6. ASSUME NEW w \in Workers,
             \/ Lookup(w) \/ Debit(w) \/ Miss(w) \/ ReadBalance(w)
             \/ ZeroOut(w) \/ Credit(w) \/ Commit(w) \/ Duplicate(w)
             \/ Put(w) \/ Release(w)
      PROVE  HeldByOne'
  <2>1. pc[w] # "idle" /\ UNCHANGED <<place, job>>
    BY <1>6 DEF Lookup, Debit, Miss, ReadBalance, ZeroOut, Credit, Commit,
                Duplicate, Put, Release, queueVars
  <2>2. \E step \in Steps : pc' = [pc EXCEPT ![w] = step]
    BY <1>6 DEF Lookup, Debit, Miss, ReadBalance, ZeroOut, Credit, Commit,
                Duplicate, Put, Release, Goto, Steps
  <2>3. QED BY <1>4, <2>1, <2>2
<1>7. ASSUME NEW w \in Workers,
             Ack(w) \/ Fail(w) \/ CommitUnconfirmed(w) \/ Crash(w)
      PROVE  HeldByOne'
  <2>1. pc[w] # "idle"
    BY <1>7 DEF Ack, Fail, CommitUnconfirmed, Crash
  <2>2. \E p \in Places : place' = [place EXCEPT ![job[w]] = p]
    BY <1>7 DEF AfterError, Returned, Ack, Fail, CommitUnconfirmed, Crash,
                Reject, Places
  <2>3. job' = [job EXCEPT ![w] = NoDelivery] /\ Goto(w, "idle")
    BY <1>7 DEF Ack, Fail, CommitUnconfirmed, Crash, Reject
  <2>4. QED BY <1>5, <2>1, <2>2, <2>3
<1>8. CASE UNCHANGED <<place, pc, job>>
  BY <1>1, <1>8
<1>9. QED
  BY <1>2, <1>3, <1>6, <1>7, <1>8
     DEF Next, HandlerStep, ExpireL2, Recharge, Adjust, queueVars, workerVars,
         vars

\* The other workers' jobs do not change when w moves.
LEMMA OthersKeep ==
    ASSUME TypeOK, NEW w \in Workers, NEW v \in Workers, v # w,
           \/ job' = job
           \/ \E d : job' = [job EXCEPT ![w] = d]
    PROVE  /\ TaskOf(v)' = TaskOf(v)
           /\ UserOf(v)' = UserOf(v)
BY DEF TypeOK, TaskOf, UserOf

\* What a worker's open transaction is about to commit stays right: no other
\* worker can write the row it has locked.
LEMMA OpenTxStep ==
    ASSUME SettlementInv, [Next]_vars
    PROVE  OpenTx'
<1>1. TypeOK /\ HeldByOne /\ OpenTx
  BY DEF SettlementInv
<1>2. SUFFICES ASSUME NEW v \in Workers, pc'[v] \in {"read", "zero", "commit"}
      PROVE /\ pc'[v] \in {"read", "zero"} => TaskOf(v)'.kind = "settle"
            /\ pc'[v] = "zero" => draft'[v].after = 0
            /\ pc'[v] = "commit" =>
                  /\ lock'[UserOf(v)'] = v
                  /\ \/ TaskOf(v)'.kind = "settle" /\ draft'[v].after = 0
                     \/ draft'[v].after = balance'[UserOf(v)'] + draft'[v].amount
  BY DEF OpenTx
<1> DEFINE Goal ==
            /\ pc'[v] \in {"read", "zero"} => TaskOf(v)'.kind = "settle"
            /\ pc'[v] = "zero" => draft'[v].after = 0
            /\ pc'[v] = "commit" =>
                  /\ lock'[UserOf(v)'] = v
                  /\ \/ TaskOf(v)'.kind = "settle" /\ draft'[v].after = 0
                     \/ draft'[v].after = balance'[UserOf(v)'] + draft'[v].amount
\* v itself does not move: its lock, its draft and its row's balance stay.
<1>3. ASSUME pc'[v] = pc[v], draft'[v] = draft[v],
             TaskOf(v)' = TaskOf(v), UserOf(v)' = UserOf(v),
             lock[UserOf(v)] = v =>
                /\ lock'[UserOf(v)] = v
                /\ balance'[UserOf(v)] = balance[UserOf(v)]
      PROVE  Goal
  BY <1>1, <1>2, <1>3 DEF OpenTx
<1>4. pc[v] # "idle" => UserOf(v) \in Users
  BY <1>1, JobType
<1>5. NoWorker \notin Workers
  BY SettlementAssumption
<1>6. ASSUME NEW d \in Deliveries, Publish(d)
      PROVE  Goal
  BY <1>3, <1>6 DEF Publish, rowVars, workerVars, TaskOf, UserOf
<1>7. ASSUME NEW w \in Workers, NEW d \in Deliveries, Take(w, d)
      PROVE  Goal
  <2>1. v # w
    BY <1>1, <1>2, <1>7 DEF Take, Goto, TypeOK
  <2>2. TaskOf(v)' = TaskOf(v) /\ UserOf(v)' = UserOf(v)
    BY <1>1, <1>7, <2>1, OthersKeep DEF Take
  <2>3. QED BY <1>1, <1>3, <1>7, <2>1, <2>2 DEF Take, Goto, rowVars, TypeOK
<1>8. ASSUME NEW w \in Workers, NEW step, pc' = [pc EXCEPT ![w] = step],
             UNCHANGED job, v # w,
             \/ UNCHANGED draft
             \/ \E x : draft' = [draft EXCEPT ![w] = x],
             \/ UNCHANGED <<lock, balance>>
             \/ /\ lock[UserOf(w)] = NoWorker
                /\ lock' = [lock EXCEPT ![UserOf(w)] = w]
                /\ UNCHANGED balance
             \/ EndTx(w) /\ UNCHANGED balance
             \/ /\ lock[UserOf(w)] = w
                /\ EndTx(w)
                /\ Apply(w)
      PROVE  Goal
  <2>1. TaskOf(v)' = TaskOf(v) /\ UserOf(v)' = UserOf(v)
    BY <1>8, <1>1, OthersKeep
  <2>2. pc'[v] = pc[v] /\ draft'[v] = draft[v]
    BY <1>1, <1>8 DEF TypeOK
  <2>3. lock[UserOf(v)] = v =>
                /\ lock'[UserOf(v)] = v
                /\ balance'[UserOf(v)] = balance[UserOf(v)]
    BY <1>1, <1>2, <1>4, <1>5, <1>8, <2>2 DEF TypeOK, EndTx, Apply
  <2>4. QED BY <1>3, <2>1, <2>2, <2>3
<1>9. ASSUME NEW w \in Workers, Lookup(w) \/ Put(w) \/ Release(w)
      PROVE  Goal
  <2>1. v # w
    BY <1>1, <1>2, <1>9 DEF Lookup, Put, Release, Goto, TypeOK
  <2>2. /\ \E step : pc' = [pc EXCEPT ![w] = step]
        /\ UNCHANGED <<job, draft, lock, balance>>
    BY <1>9 DEF Lookup, Put, Release, Goto, rowVars
  <2>3. QED BY <1>8, <2>1, <2>2
<1>10. ASSUME NEW w \in Workers, Miss(w)
       PROVE  Goal
  <2>1. CASE v = w
    BY <1>1, <1>2, <1>10, <2>1 DEF Miss, Goto, TypeOK, TaskOf
  <2>2. CASE v # w
    BY <1>8, <1>10, <2>2 DEF Miss, Goto, rowVars
  <2>3. QED BY <2>1, <2>2
<1>11. ASSUME NEW w \in Workers, ReadBalance(w)
       PROVE  Goal
  <2>1. CASE v = w
    BY <1>1, <1>2, <1>11, <2>1
       DEF Shortfall, ReadBalance, Goto, TypeOK, TaskOf, OpenTx
  <2>2. CASE v # w
    BY <1>8, <1>11, <2>2 DEF ReadBalance, Goto, rowVars
  <2>3. QED BY <2>1, <2>2
<1>12. ASSUME NEW w \in Workers, ZeroOut(w)
       PROVE  Goal
  <2>1. CASE v = w
    <3>1. UserOf(v) \in Users
      BY <1>4, <1>12, <2>1 DEF ZeroOut
    <3>2. TaskOf(v)' = TaskOf(v) /\ UserOf(v)' = UserOf(v)
      BY <1>12 DEF ZeroOut, TaskOf, UserOf
    <3>3. QED BY <1>1, <1>2, <1>12, <2>1, <3>1, <3>2
              DEF ZeroOut, Goto, TypeOK, OpenTx
  <2>2. CASE v # w
    BY <1>8, <1>12, <2>2 DEF Free, ZeroOut, Goto
  <2>3. QED BY <2>1, <2>2
<1>13. ASSUME NEW w \in Workers, Debit(w) \/ Credit(w)
       PROVE  Goal
  <2>1. CASE v = w
    <3>1. UserOf(v) \in Users /\ Charge[TaskOf(v)] \in Nat
      BY <1>1, <1>13, <2>1, JobType DEF Debit, Credit
    <3>2. TaskOf(v)' = TaskOf(v) /\ UserOf(v)' = UserOf(v)
      BY <1>13 DEF Debit, Credit, TaskOf, UserOf
    <3>3. balance[UserOf(v)] \in Nat
      BY <1>1, <3>1 DEF TypeOK
    <3>4. CASE Debit(w)
      BY <1>1, <2>1, <3>1, <3>2, <3>3, <3>4 DEF Debit, Goto, TypeOK
    <3>5. CASE Credit(w)
      BY <1>1, <2>1, <3>1, <3>2, <3>3, <3>5 DEF Credit, Goto, TypeOK
    <3>6. QED BY <1>13, <3>4, <3>5
  <2>2. CASE v # w
    <3>1. /\ lock[UserOf(w)] = NoWorker
          /\ lock' = [lock EXCEPT ![UserOf(w)] = w]
          /\ UNCHANGED <<balance, job>>
          /\ \E x : draft' = [draft EXCEPT ![w] = x]
          /\ \E step : pc' = [pc EXCEPT ![w] = step]
      BY <1>13 DEF Free, Debit, Credit, Goto
    <3>2. QED BY <1>8, <2>2, <3>1
  <2>3. QED BY <2>1, <2>2
<1>14. ASSUME NEW w \in Workers, Commit(w) \/ Duplicate(w)
       PROVE  Goal
  <2>1. v # w
    BY <1>1, <1>2, <1>14 DEF Commit, Duplicate, Goto, TypeOK
  <2>2. /\ lock[UserOf(w)] = w
        /\ EndTx(w)
        /\ \E x : draft' = [draft EXCEPT ![w] = x]
        /\ UNCHANGED job
        /\ \E step : pc' = [pc EXCEPT ![w] = step]
    BY <1>1, <1>14 DEF Commit, Duplicate, Goto, OpenTx, EndTx
  <2>3. Apply(w) \/ UNCHANGED balance
    BY <1>14 DEF Commit, Duplicate
  <2>4. QED BY <1>8, <2>1, <2>2, <2>3
<1>15. ASSUME NEW w \in Workers,
              Ack(w) \/ Fail(w) \/ CommitUnconfirmed(w) \/ Crash(w)
       PROVE  Goal
  <2>1. v # w
    BY <1>1, <1>2, <1>15
       DEF Ack, Fail, CommitUnconfirmed, Crash, Reject, Goto, TypeOK
  <2>2. TaskOf(v)' = TaskOf(v) /\ UserOf(v)' = UserOf(v)
    BY <1>1, <1>15, <2>1, OthersKeep
       DEF Ack, Fail, CommitUnconfirmed, Crash, Reject
  <2>3. pc'[v] = pc[v] /\ draft'[v] = draft[v]
    BY <1>1, <1>15, <2>1
       DEF Ack, Fail, CommitUnconfirmed, Crash, Reject, Goto, EndTx, TypeOK
  <2>4. lock[UserOf(v)] = v =>
                /\ lock'[UserOf(v)] = v
                /\ balance'[UserOf(v)] = balance[UserOf(v)]
    <3>1. CASE Ack(w) \/ Fail(w) \/ Crash(w)
      BY <1>1, <1>2, <1>4, <1>5, <2>1, <2>3, <3>1
         DEF Ack, Fail, Crash, EndTx, TypeOK, rowVars
    <3>2. CASE CommitUnconfirmed(w)
      BY <1>1, <1>2, <1>4, <1>5, <2>1, <2>3, <3>2
         DEF CommitUnconfirmed, EndTx, Apply, TypeOK, OpenTx
    <3>3. QED BY <1>15, <3>1, <3>2
  <2>5. QED BY <1>3, <2>2, <2>3, <2>4
<1>16. ASSUME NEW t \in Tasks, ExpireL2(t)
       PROVE  Goal
  BY <1>3, <1>16 DEF ExpireL2, rowVars, workerVars, TaskOf, UserOf
<1>17. ASSUME NEW u \in Users, NEW kind, NEW ref, NEW amount,
              Book(kind, ref, u, amount), UNCHANGED <<lock, workerVars>>
       PROVE  Goal
  <2>1. pc'[v] = pc[v] /\ draft'[v] = draft[v]
          /\ TaskOf(v)' = TaskOf(v) /\ UserOf(v)' = UserOf(v)
    BY <1>17 DEF workerVars, TaskOf, UserOf
  <2>2. lock[UserOf(v)] = v => balance'[UserOf(v)] = balance[UserOf(v)]
    BY <1>1, <1>2, <1>4, <1>5, <1>17, <2>1 DEF Free, Book, TypeOK
  <2>3. QED BY <1>3, <1>17, <2>1, <2>2
<1>18. ASSUME NEW o \in Orders, Recharge(o)
       PROVE  Goal
  <2>1. OrderOwner[o] \in Users
    BY SettlementAssumption
  <2>2. QED BY <1>17, <1>18, <2>1 DEF Recharge
<1>19. ASSUME NEW a \in Adjusts, Adjust(a)
       PROVE  Goal
  <2>1. AdjustUser[a] \in Users
    BY SettlementAssumption
  <2>2. QED BY <1>17, <1>19, <2>1 DEF Adjust
<1>20. ASSUME UNCHANGED vars
       PROVE  Goal
  BY <1>3, <1>20 DEF vars, rowVars, workerVars, TaskOf, UserOf
<1> HIDE DEF Goal
<1>21. ASSUME NEW w \in Workers, HandlerStep(w)
       PROVE  Goal
  BY <1>9, <1>10, <1>11, <1>12, <1>13, <1>14, <1>15, <1>21 DEF HandlerStep
<1>22. ASSUME NEW w \in Workers, Fail(w) \/ CommitUnconfirmed(w) \/ Crash(w)
       PROVE  Goal
  BY <1>15, <1>22
<1>23. Goal
  BY <1>6, <1>7, <1>16, <1>18, <1>19, <1>20, <1>21, <1>22 DEF Next
<1>24. QED BY <1>23 DEF Goal

-----------------------------------------------------------------------------
\* Records, acknowledgements, releases and workers past their transaction all
\* stand for tasks that are done.
LEMMA DoneStep ==
    ASSUME SettlementInv, [Next]_vars
    PROVE  PastTx' /\ RecordMeansDone' /\ AckedMeansDone'
<1>1. /\ TypeOK /\ HeldByOne /\ PastTx
      /\ RecordMeansDone /\ AckedMeansDone
  BY DEF SettlementInv
<1>2. \A t \in Tasks : Done(t) => Done(t)'
  BY LedgerStep
<1>3. \A w \in Workers : pc[w] # "idle" =>
         job[w] \in Deliveries /\ TaskOf(w) \in Tasks /\ job[w][1] = TaskOf(w)
  BY <1>1, JobType DEF TaskOf
<1>4. PastTx'
  <2> SUFFICES ASSUME NEW v \in Workers, pc'[v] \in {"put", "release", "ack"}
               PROVE  Done(TaskOf(v))'
    BY DEF PastTx
  <2>1. ASSUME UNCHANGED <<pc, job>>
        PROVE  Done(TaskOf(v))'
    BY <1>1, <1>2, <1>3, <2>1 DEF PastTx, TaskOf
  <2>2. ASSUME NEW w \in Workers, v # w,
               \E step : pc' = [pc EXCEPT ![w] = step],
               job' = job \/ \E d : job' = [job EXCEPT ![w] = d]
        PROVE  Done(TaskOf(v))'
    <3>1. pc'[v] = pc[v] /\ TaskOf(v)' = TaskOf(v)
      BY <1>1, <2>2, OthersKeep DEF TypeOK
    <3>2. Done(TaskOf(v)) /\ TaskOf(v) \in Tasks
      BY <1>1, <1>3, <3>1 DEF PastTx
    <3>3. Done(TaskOf(v))'
      BY <1>2, <3>1, <3>2
    <3>4. QED BY <3>3
  <2>3. ASSUME NEW w \in Workers,
               \/ Debit(w) \/ Miss(w) \/ ReadBalance(w) \/ ZeroOut(w)
               \/ Credit(w) \/ Fail(w) \/ CommitUnconfirmed(w)
               \/ Crash(w) \/ Ack(w) \/ \E d \in Deliveries : Take(w, d)
        PROVE  Done(TaskOf(v))'
    <3>1. v # w
      BY <1>1, <2>3 DEF Debit, Miss, ReadBalance, ZeroOut, Credit, Fail,
         CommitUnconfirmed, Crash, Ack, Take, Reject, Goto, TypeOK
    <3>2. \E step : pc' = [pc EXCEPT ![w] = step]
      BY <2>3 DEF Debit, Miss, ReadBalance, ZeroOut, Credit, Fail,
         CommitUnconfirmed, Crash, Ack, Take, Reject, Goto
    <3>3. job' = job \/ \E d : job' = [job EXCEPT ![w] = d]
      BY <2>3 DEF Debit, Miss, ReadBalance, ZeroOut, Credit, Fail,
         CommitUnconfirmed, Crash, Ack, Take, Reject
    <3>4. QED BY <2>2, <3>1, <3>2, <3>3
  <2>4. ASSUME NEW w \in Workers,
               Lookup(w) \/ Commit(w) \/ Duplicate(w) \/ Put(w) \/ Release(w)
        PROVE  Done(TaskOf(v))'
    <3>1. UNCHANGED job /\ \E step : pc' = [pc EXCEPT ![w] = step]
      BY <2>4 DEF Lookup, Commit, Duplicate, Put, Release, Goto, queueVars
    <3>2. CASE v # w
      BY <2>2, <3>1, <3>2
    <3>3. CASE v = w
      <4>1. TaskOf(v)' = TaskOf(v)
        BY <3>1 DEF TaskOf
      <4>2. pc[w] # "idle"
        BY <2>4 DEF Lookup, Commit, Duplicate, Put, Release
      <4>3. TaskOf(v) \in Tasks
        BY <1>3, <3>3, <4>2
      <4>4. CASE Commit(w)
        <5>1. ledger' = Append(ledger, Entry(TaskOf(w).kind, TaskOf(w).req,
                                             UserOf(w), draft[w]))
          BY <4>4 DEF Commit, Apply
        <5>2. Entry(TaskOf(w).kind, TaskOf(w).req, UserOf(w), draft[w])
                \in EntryType
          BY <1>1, <4>2, WorkerEntry
        <5>3. /\ Len(ledger) + 1 \in DOMAIN ledger'
              /\ ledger'[Len(ledger) + 1].kind = TaskOf(w).kind
              /\ ledger'[Len(ledger) + 1].ref = TaskOf(w).req
          BY <1>1, <5>1, <5>2, AppendRow DEF TypeOK, Entry
        <5>4. QED BY <3>3, <4>1, <5>3 DEF Done, Posted
      <4>5. CASE Duplicate(w) \/ Put(w) \/ Release(w)
        <5>1. Done(TaskOf(v))
          BY <1>1, <3>3, <4>5 DEF Duplicate, Put, Release, PastTx, Done
        <5>2. QED BY <1>2, <4>1, <4>3, <5>1
      <4>6. CASE Lookup(w)
        <5>1. TaskOf(v) \in l2 \/ ~(Charge[TaskOf(v)] > 0)
          BY <1>1, <3>3, <4>6 DEF Lookup, Goto, TypeOK
        <5>2. Charge[TaskOf(v)] \in Nat
          BY <4>3, SettlementAssumption
        <5>3. Done(TaskOf(v))
          BY <1>1, <5>1, <5>2 DEF RecordMeansDone, Done
        <5>4. QED BY <1>2, <4>1, <4>3, <5>3
      <4>7. QED BY <2>4, <4>4, <4>5, <4>6
    <3>4. QED BY <3>2, <3>3
  <2>5. ASSUME \/ \E d \in Deliveries : Publish(d)
               \/ \E t \in Tasks : ExpireL2(t)
               \/ \E o \in Orders : Recharge(o)
               \/ \E a \in Adjusts : Adjust(a)
               \/ UNCHANGED vars
        PROVE  Done(TaskOf(v))'
    BY <2>1, <2>5 DEF Publish, ExpireL2, Recharge, Adjust, vars, workerVars
  <2>6. QED BY <2>3, <2>4, <2>5 DEF Next, HandlerStep
<1>5. ASSUME NEW t \in l2'
      PROVE  t \in l2 \/ \E w \in Workers : pc[w] = "put" /\ t = TaskOf(w)
  BY <1>5 DEF Next, HandlerStep, Publish, Take, Lookup, Debit, Miss,
     ReadBalance, ZeroOut, Credit, Commit, Duplicate, Put, Release, Ack, Fail,
     CommitUnconfirmed, Crash, ExpireL2, Recharge, Adjust, vars, sideVars
<1>6. RecordMeansDone'
  BY <1>1, <1>2, <1>3, <1>5 DEF RecordMeansDone, PastTx, TypeOK
<1>9. ASSUME NEW d \in Deliveries, place'[d] = "acked"
      PROVE  place[d] = "acked"
               \/ \E w \in Workers : pc[w] = "ack" /\ d = job[w]
  <2>0. DOMAIN place = Deliveries
    BY <1>1 DEF TypeOK
  <2>1. ASSUME NEW e \in Deliveries, Publish(e) PROVE place[d] = "acked"
    BY <1>9, <2>0, <2>1 DEF Publish
  <2>2. ASSUME NEW w \in Workers, NEW e \in Deliveries, Take(w, e)
        PROVE  place[d] = "acked"
    BY <1>9, <2>0, <2>2 DEF Take
  <2>3. ASSUME NEW w \in Workers, Fail(w) \/ CommitUnconfirmed(w) PROVE place[d] = "acked"
    BY <1>9, <2>0, <2>3 DEF Fail, CommitUnconfirmed, Reject, AfterError
  <2>4. ASSUME NEW w \in Workers, Crash(w) PROVE place[d] = "acked"
    BY <1>9, <2>0, <2>4 DEF Crash, Returned
  <2>5. ASSUME NEW w \in Workers, Ack(w)
        PROVE  place[d] = "acked" \/ (pc[w] = "ack" /\ d = job[w])
    <3>1. pc[w] = "ack" /\ place' = [place EXCEPT ![job[w]] = "acked"]
      BY <2>5 DEF Ack
    <3>2. d # job[w] => place'[d] = place[d]
      BY <2>0, <3>1
    <3>3. QED BY <1>9, <3>1, <3>2
  <2>6. ASSUME NEW w \in Workers, HandlerStep(w), ~Ack(w) PROVE UNCHANGED place
    BY <2>6 DEF HandlerStep, Lookup, Debit, Miss, ReadBalance, ZeroOut, Credit,
       Commit, Duplicate, Put, Release, queueVars
  <2>7. ASSUME \/ \E t \in Tasks : ExpireL2(t)
               \/ \E o \in Orders : Recharge(o)
               \/ \E a \in Adjusts : Adjust(a)
               \/ UNCHANGED vars
        PROVE  UNCHANGED place
    BY <2>7 DEF ExpireL2, Recharge, Adjust, queueVars, vars
  <2>8. QED
    BY <1>9, <2>1, <2>2, <2>3, <2>4, <2>5, <2>6, <2>7 DEF Next
<1>10. AckedMeansDone'
  <2> SUFFICES ASSUME NEW d \in Deliveries, place'[d] = "acked"
               PROVE  Done(d[1])'
    BY DEF AckedMeansDone
  <2>1. d[1] \in Tasks
    BY DEF Deliveries
  <2>2. Done(d[1])
    BY <1>1, <1>3, <1>9 DEF AckedMeansDone, PastTx
  <2>3. QED BY <1>2, <2>1, <2>2
<1>11. QED BY <1>4, <1>6, <1>10

\* When w moves, no other worker leaves its release or reaches its ack.
LEMMA OneMoves ==
    ASSUME TypeOK, NEW w \in Workers, NEW t,
           \E step : pc' = [pc EXCEPT ![w] = step],
           job' = job \/ \E d : job' = [job EXCEPT ![w] = d]
    PROVE  /\ Releasing(t) => \/ Releasing(t)'
                              \/ pc[w] = "release" /\ TaskOf(w) = t
           /\ (\E v \in Workers : pc'[v] = "ack" /\ TaskOf(v)' = t) =>
                 \/ \E v \in Workers : pc[v] = "ack" /\ TaskOf(v) = t
                 \/ pc'[w] = "ack" /\ TaskOf(w)' = t
<1>1. \A v \in Workers : v # w => pc'[v] = pc[v] /\ TaskOf(v)' = TaskOf(v)
  BY OthersKeep DEF TypeOK
<1>2. QED BY <1>1 DEF Releasing

\* A transaction is opened for a charge only: Lookup ends the handler of a
\* task without one or goes past the transaction.
LEMMA ChargeStep ==
    ASSUME SettlementInv, [Next]_vars
    PROVE  ChargeOpensTx'
<1>1. TypeOK /\ HeldByOne /\ ChargeOpensTx
  BY DEF SettlementInv
<1> SUFFICES ASSUME NEW v \in Workers,
                    pc'[v] \in {"update", "read", "zero", "commit"}
             PROVE  Charge[TaskOf(v)'] > 0
  BY DEF ChargeOpensTx
<1>2. ASSUME pc'[v] = pc[v], TaskOf(v)' = TaskOf(v)
      PROVE  Charge[TaskOf(v)'] > 0
  BY <1>1, <1>2 DEF ChargeOpensTx
<1>3. ASSUME UNCHANGED <<pc, job>>
      PROVE  Charge[TaskOf(v)'] > 0
  BY <1>2, <1>3 DEF TaskOf
<1>4. ASSUME NEW w \in Workers, v # w,
             \E step : pc' = [pc EXCEPT ![w] = step],
             job' = job \/ \E d : job' = [job EXCEPT ![w] = d]
      PROVE  Charge[TaskOf(v)'] > 0
  BY <1>1, <1>2, <1>4, OthersKeep DEF TypeOK
<1>5. ASSUME NEW w \in Workers,
             \/ Fail(w) \/ CommitUnconfirmed(w) \/ Crash(w) \/ Ack(w)
             \/ Commit(w) \/ Duplicate(w) \/ Put(w) \/ Release(w)
             \/ \E d \in Deliveries : Take(w, d)
      PROVE  Charge[TaskOf(v)'] > 0
  <2>1. v # w
    BY <1>1, <1>5 DEF Fail, CommitUnconfirmed, Crash, Ack, Commit, Duplicate,
       Put, Release, Take, Reject, Goto, TypeOK
  <2>2. \E step : pc' = [pc EXCEPT ![w] = step]
    BY <1>5 DEF Fail, CommitUnconfirmed, Crash, Ack, Commit, Duplicate,
       Put, Release, Take, Reject, Goto
  <2>3. job' = job \/ \E d : job' = [job EXCEPT ![w] = d]
    BY <1>5 DEF Fail, CommitUnconfirmed, Crash, Ack, Commit, Duplicate,
       Put, Release, Take, Reject, queueVars
  <2>4. QED BY <1>4, <2>1, <2>2, <2>3
<1>6. ASSUME NEW w \in Workers,
             \/ Debit(w) \/ Miss(w) \/ ReadBalance(w) \/ ZeroOut(w)
             \/ Credit(w) \/ Lookup(w)
      PROVE  Charge[TaskOf(v)'] > 0
  <2>1. UNCHANGED job /\ \E step : pc' = [pc EXCEPT ![w] = step]
    BY <1>6 DEF Debit, Miss, ReadBalance, ZeroOut, Credit, Lookup, Goto,
       queueVars
  <2>2. CASE v # w
    BY <1>4, <2>1, <2>2
  <2>3. CASE v = w /\ Lookup(w)
    BY <1>1, <2>1, <2>3 DEF Lookup, Goto, TaskOf, TypeOK
  <2>4. CASE v = w /\ ~Lookup(w)
    <3>1. pc[w] \in {"update", "read", "zero"}
      BY <1>6, <2>4 DEF Debit, Miss, ReadBalance, ZeroOut, Credit
    <3>2. QED BY <1>1, <2>1, <2>4, <3>1 DEF ChargeOpensTx, TaskOf
  <2>5. QED BY <2>2, <2>3, <2>4
<1>7. ASSUME \/ \E d \in Deliveries : Publish(d)
             \/ \E t \in Tasks : ExpireL2(t)
             \/ \E o \in Orders : Recharge(o)
             \/ \E a \in Adjusts : Adjust(a)
             \/ UNCHANGED vars
      PROVE  Charge[TaskOf(v)'] > 0
  BY <1>3, <1>7 DEF Publish, ExpireL2, Recharge, Adjust, vars, workerVars
<1>8. QED BY <1>5, <1>6, <1>7 DEF Next, HandlerStep

\* Every booking stays on its way to a reset of the hash: the handler that
\* booked it, or the duplicate that found it booked, releases before it
\* acknowledges, and an L2 hit ends a handler early only when the release of
\* the task has been begun or missed.
LEMMA BehindStep ==
    ASSUME SettlementInv, [Next]_vars
    PROVE  BehindCovered'
<1>1. /\ TypeOK /\ HeldByOne /\ PastTx /\ ChargeOpensTx /\ BehindCovered
      /\ RecordMeansDone /\ AckedMeansDone
  BY DEF SettlementInv
<1>2. \A w \in Workers : pc[w] # "idle" =>
         job[w] \in Deliveries /\ TaskOf(w) \in Tasks /\ job[w][1] = TaskOf(w)
  BY <1>1, JobType DEF TaskOf
<1> SUFFICES ASSUME NEW t \in behind'
             PROVE  /\ Charge[t] > 0
                    /\ Finished(t)' => Releasing(t)' \/ t \in missed'
  BY DEF BehindCovered
<1> DEFINE Goal == /\ Charge[t] > 0
                   /\ Finished(t)' => Releasing(t)' \/ t \in missed'
\* A step that finishes nothing more and loses no release or its record.
<1>3. ASSUME t \in behind, Finished(t)' => Finished(t),
             Releasing(t) \/ t \in missed => Releasing(t)' \/ t \in missed'
      PROVE  Goal
  BY <1>1, <1>3 DEF BehindCovered
<1>4. ASSUME UNCHANGED <<pc, job, behind, missed>>, l2' \subseteq l2,
             \A d \in Deliveries : place'[d] = "acked" => place[d] = "acked"
      PROVE  Goal
  <2>1. Releasing(t)' <=> Releasing(t)
    BY <1>4 DEF Releasing, TaskOf
  <2>2. Finished(t)' => Finished(t)
    BY <1>4 DEF Finished, HandledCopy, TaskOf
  <2>3. QED BY <1>3, <1>4, <2>1, <2>2
<1>5. ASSUME NEW w \in Workers, pc[w] # "release", pc'[w] # "ack",
             \E step : pc' = [pc EXCEPT ![w] = step],
             job' = job \/ \E d : job' = [job EXCEPT ![w] = d],
             t \in behind, l2' \subseteq l2, missed \subseteq missed',
             \A d \in Deliveries : place'[d] = "acked" => place[d] = "acked"
      PROVE  Goal
  <2>1. Releasing(t) => Releasing(t)'
    BY <1>1, <1>5, OneMoves
  <2>2. Finished(t)' => Finished(t)
    BY <1>1, <1>5, OneMoves DEF Finished, HandledCopy
  <2>3. QED BY <1>3, <1>5, <2>1, <2>2
<1>6. DOMAIN place = Deliveries
  BY <1>1 DEF TypeOK
<1>7. ASSUME \/ \E d \in Deliveries : Publish(d)
             \/ \E s \in Tasks : ExpireL2(s)
             \/ \E o \in Orders : Recharge(o)
             \/ \E a \in Adjusts : Adjust(a)
             \/ UNCHANGED vars
      PROVE  Goal
  <2>1. UNCHANGED <<pc, job, behind, missed>> /\ l2' \subseteq l2
    BY <1>7 DEF Publish, ExpireL2, Recharge, Adjust, vars, workerVars, sideVars
  <2>2. \A d \in Deliveries : place'[d] = "acked" => place[d] = "acked"
    BY <1>6, <1>7 DEF Publish, ExpireL2, Recharge, Adjust, vars, queueVars
  <2>3. QED BY <1>4, <2>1, <2>2
<1>8. ASSUME NEW w \in Workers, NEW e \in Deliveries, Take(w, e)
      PROVE  Goal
  <2>1. /\ pc[w] # "release" /\ pc'[w] # "ack"
        /\ t \in behind /\ l2' \subseteq l2 /\ missed \subseteq missed'
        /\ \E step : pc' = [pc EXCEPT ![w] = step]
        /\ \E d : job' = [job EXCEPT ![w] = d]
    BY <1>1, <1>8 DEF Take, Goto, TypeOK, sideVars
  <2>2. \A d \in Deliveries : place'[d] = "acked" => place[d] = "acked"
    BY <1>6, <1>8 DEF Take
  <2>3. QED BY <1>5, <2>1, <2>2
<1>9. ASSUME NEW w \in Workers,
             \/ Debit(w) \/ Miss(w) \/ ReadBalance(w) \/ ZeroOut(w)
             \/ Credit(w) \/ Duplicate(w)
      PROVE  Goal
  <2>1. /\ pc[w] # "release" /\ pc'[w] # "ack"
        /\ t \in behind /\ l2' \subseteq l2 /\ missed \subseteq missed'
        /\ \E step : pc' = [pc EXCEPT ![w] = step]
        /\ job' = job /\ place' = place
    BY <1>1, <1>9 DEF Debit, Miss, ReadBalance, ZeroOut, Credit, Duplicate,
       Goto, TypeOK, sideVars, queueVars
  <2>2. QED BY <1>5, <2>1
<1>10. ASSUME NEW w \in Workers, Lookup(w)
       PROVE  Goal
  <2>1. /\ t \in behind /\ l2' = l2 /\ missed' = missed
        /\ \E step : pc' = [pc EXCEPT ![w] = step]
        /\ job' = job /\ place' = place /\ pc[w] = "lookup"
    BY <1>10 DEF Lookup, Goto, sideVars, queueVars
  <2>2. Releasing(t) => Releasing(t)'
    BY <1>1, <2>1, OneMoves
  <2>3. ASSUME pc'[w] = "ack", TaskOf(w)' = t
        PROVE  t \in l2
    <3>1. TaskOf(w) = t
      BY <2>1, <2>3 DEF TaskOf
    <3>2. t \in l2 \/ ~(Charge[t] > 0)
      BY <1>1, <1>10, <2>3, <3>1 DEF Lookup, Goto, TypeOK
    <3>3. QED BY <1>1, <2>1, <3>2 DEF BehindCovered
  <2>4. Finished(t)' => Finished(t)
    BY <1>1, <2>1, <2>3, OneMoves DEF Finished, HandledCopy
  <2>5. QED BY <1>3, <2>1, <2>2, <2>4
<1>11. ASSUME NEW w \in Workers, Commit(w) \/ CommitUnconfirmed(w)
       PROVE  Goal
  <2>1. /\ pc[w] = "commit" /\ pc'[w] # "ack" /\ ~Posted(TaskOf(w))
        /\ behind' = behind \cup {TaskOf(w)}
        /\ l2' = l2 /\ missed' = missed
        /\ \E step : pc' = [pc EXCEPT ![w] = step]
        /\ job' = job \/ \E d : job' = [job EXCEPT ![w] = d]
    BY <1>1, <1>11 DEF Commit, CommitUnconfirmed, Apply, Reject, Goto, TypeOK,
       queueVars
  <2>2. \A d \in Deliveries : place'[d] = "acked" => place[d] = "acked"
    BY <1>6, <1>11 DEF Commit, CommitUnconfirmed, Reject, AfterError, queueVars
  <2>3. CASE t \in behind
    BY <1>5, <2>1, <2>2, <2>3
  <2>4. CASE t \notin behind
    <3>1. t = TaskOf(w) /\ t \in Tasks
      BY <1>2, <2>1, <2>4
    <3>2. Charge[t] > 0
      BY <1>1, <2>1, <3>1 DEF ChargeOpensTx
    <3>3. ~Done(t)
      BY <2>1, <3>1, <3>2 DEF Done
    <3>4. ~Finished(t)
      BY <1>1, <3>3 DEF Finished, HandledCopy, RecordMeansDone, AckedMeansDone,
         PastTx
    <3>5. ~Finished(t)'
      BY <1>1, <2>1, <2>2, <3>4, OneMoves DEF Finished, HandledCopy
    <3>6. QED BY <3>2, <3>5
  <2>5. QED BY <2>3, <2>4
<1>12. ASSUME NEW w \in Workers, Put(w)
       PROVE  Goal
  <2>1. /\ t \in behind /\ l2' = l2 \cup {TaskOf(w)} /\ missed' = missed
        /\ pc' = [pc EXCEPT ![w] = "release"] /\ pc[w] = "put"
        /\ job' = job /\ place' = place
    BY <1>12 DEF Put, Goto, queueVars
  <2>2. pc'[w] = "release" /\ TaskOf(w)' = TaskOf(w)
    BY <1>1, <2>1 DEF TypeOK, TaskOf
  <2>3. CASE t = TaskOf(w)
    BY <1>1, <2>1, <2>2, <2>3 DEF Releasing, BehindCovered
  <2>4. CASE t # TaskOf(w)
    <3>1. Releasing(t) => Releasing(t)'
      BY <1>1, <2>1, OneMoves
    <3>2. Finished(t)' => Finished(t)
      BY <1>1, <2>1, <2>2, <2>4, OneMoves DEF Finished, HandledCopy
    <3>3. QED BY <1>3, <2>1, <3>1, <3>2
  <2>5. QED BY <2>3, <2>4
<1>13. ASSUME NEW w \in Workers, Release(w)
       PROVE  Goal
  <2>1. /\ t \in behind /\ l2' = l2 /\ missed \subseteq missed'
        /\ pc' = [pc EXCEPT ![w] = "ack"] /\ pc[w] = "release"
        /\ job' = job /\ place' = place
    BY <1>13 DEF Release, Goto, queueVars
  <2>2. t = TaskOf(w) => t \in missed'
    BY <1>13 DEF Release, UserOf
  <2>3. TaskOf(w)' = TaskOf(w)
    BY <2>1 DEF TaskOf
  <2>4. CASE t = TaskOf(w)
    BY <1>1, <2>1, <2>2, <2>4 DEF BehindCovered
  <2>5. CASE t # TaskOf(w)
    <3>1. Releasing(t) => Releasing(t)'
      BY <1>1, <2>1, <2>5, OneMoves
    <3>2. Finished(t)' => Finished(t)
      BY <1>1, <2>1, <2>3, <2>5, OneMoves DEF Finished, HandledCopy
    <3>3. QED BY <1>3, <2>1, <3>1, <3>2
  <2>6. QED BY <2>4, <2>5
<1>14. ASSUME NEW w \in Workers, Ack(w)
       PROVE  Goal
  <2>1. /\ t \in behind /\ l2' = l2 /\ missed' = missed
        /\ pc' = [pc EXCEPT ![w] = "idle"] /\ pc[w] = "ack"
        /\ job' = [job EXCEPT ![w] = NoDelivery]
        /\ place' = [place EXCEPT ![job[w]] = "acked"]
    BY <1>14 DEF Ack, Goto, sideVars
  <2>2. pc'[w] # "ack" /\ job[w][1] = TaskOf(w)
    BY <1>1, <1>2, <2>1 DEF TypeOK
  <2>3. Releasing(t) => Releasing(t)'
    BY <1>1, <2>1, OneMoves
  <2>4. HandledCopy(t)' => HandledCopy(t) \/ t = TaskOf(w)
    BY <1>6, <2>1, <2>2 DEF HandledCopy
  <2>5. Finished(t)' => Finished(t)
    BY <1>1, <2>1, <2>2, <2>4, OneMoves DEF Finished
  <2>6. QED BY <1>3, <2>1, <2>3, <2>5
<1>15. ASSUME NEW w \in Workers, Fail(w) \/ Crash(w)
       PROVE  Goal
  <2>1. /\ t \in behind /\ missed \subseteq missed' /\ pc[w] # "idle"
        /\ pc' = [pc EXCEPT ![w] = "idle"]
        /\ \E d : job' = [job EXCEPT ![w] = d]
    BY <1>15 DEF Fail, Crash, Reject, Goto
  <2>2. \A d \in Deliveries : place'[d] = "acked" => place[d] = "acked"
    BY <1>6, <1>15 DEF Fail, Crash, Reject, AfterError, Returned
  <2>3. pc'[w] # "ack" /\ TaskOf(w) \in Tasks
    BY <1>1, <1>2, <2>1 DEF TypeOK
  <2>4. Releasing(t) \/ t \in missed => Releasing(t)' \/ t \in missed'
    BY <1>1, <1>15, <2>1, OneMoves DEF Fail, Crash
  <2>5. CASE t \in l2' /\ t \notin l2
    <3>1. t \in missed'
      BY <1>15, <2>5 DEF Fail, Crash
    <3>2. QED BY <1>1, <2>1, <3>1 DEF BehindCovered
  <2>6. CASE t \in l2' => t \in l2
    <3>1. Finished(t)' => Finished(t)
      BY <1>1, <2>1, <2>2, <2>3, <2>6, OneMoves DEF Finished, HandledCopy
    <3>2. QED BY <1>3, <2>1, <2>4, <3>1
  <2>7. QED BY <2>5, <2>6
<1> HIDE DEF Goal
<1>16. Goal
  BY <1>7, <1>8, <1>9, <1>10, <1>11, <1>12, <1>13, <1>14, <1>15
     DEF Next, HandlerStep
<1>17. QED BY <1>16 DEF Goal

-----------------------------------------------------------------------------
\* The invariant holds before the first message.
LEMMA InitInv == Init => SettlementInv
<1> SUFFICES ASSUME Init
             PROVE  SettlementInv
  OBVIOUS
<1> USE SettlementAssumption
<1>1. TypeOK
  BY DEF Init, TypeOK, Places, Steps, DraftType, NoDraft
<1>2. HeldByOne /\ OpenTx /\ PastTx
  BY DEF Init, HeldByOne, OpenTx, PastTx
<1>3. NewestRow /\ BookedOnce /\ BalanceChain
  BY DEF Init, NewestRow, BookedOnce, BalanceChain
<1>4. RecordMeansDone /\ AckedMeansDone /\ ChargeOpensTx /\ BehindCovered
  BY DEF Init, RecordMeansDone, AckedMeansDone, Deliveries, ChargeOpensTx,
     BehindCovered
<1>5. QED BY <1>1, <1>2, <1>3, <1>4 DEF SettlementInv

\* SettlementInv is an invariant of the billing workers: their messages,
\* workers, crashes, retries and concurrent recharges included.
THEOREM SettlementInvariant == Spec => []SettlementInv
<1>1. SettlementInv /\ [Next]_vars => SettlementInv'
  BY TypeStep, HeldStep, OpenTxStep, LedgerStep, DoneStep, ChargeStep,
     BehindStep DEF SettlementInv
<1>2. QED BY InitInv, <1>1, PTL DEF Spec

\* Type correctness; in particular the balance and every balance_after are
\* never negative.
THEOREM TypeCorrect == Spec => []TypeOK
BY SettlementInvariant, PTL DEF SettlementInv

\* No request is settled twice or refunded twice (applySettleTx and
\* handleRefund under the partial unique indexes).
THEOREM NoDoubleBooking == Spec => []BookedOnce
BY SettlementInvariant, PTL DEF SettlementInv

\* The ledger rows of a user chain their balances, overdrawn settlements
\* excepted: the row lock orders the writers.
THEOREM LedgerChains == Spec => []BalanceChain
BY SettlementInvariant, PTL DEF SettlementInv

\* A message that is acknowledged has its charge booked: none is lost between
\* the L2 record, the transaction and the acknowledgement.
THEOREM NoLostCharge == Spec => []AckedMeansDone
BY SettlementInvariant, PTL DEF SettlementInv

\* The L2 record is written only for booked charges (PutIdempotency comes after
\* the transaction), so the fast path never hides one that was not.
THEOREM BookFirst == Spec => []RecordMeansDone
BY SettlementInvariant, PTL DEF SettlementInv

\* After the message of a charge is acknowledged, the balance hash that does
\* not show it has been dropped, is about to be, or keeps it through a release
\* that failed or was skipped after the L2 record (releaseReserve comes last in
\* both handlers, and the duplicate of applySettleTx goes through it too).
THEOREM ReleaseBeforeAck == Spec => []AckedMeansReset
<1>1. SettlementInv => AckedMeansReset
  BY DEF SettlementInv, BehindCovered, AckedMeansReset, Finished
<1>2. QED BY SettlementInvariant, <1>1, PTL

-----------------------------------------------------------------------------
(***************************************************************************)
(* Workers that take turns.                                                *)
(*                                                                         *)
(* Settlement does not implement Account as it stands: the overdraft       *)
(* branch books a balance it read before it locked the row.  It does as    *)
(* soon as the messages of one user are handled one after the other, which *)
(* is what routing them by user_id would give (docs/06 5.5), whatever the  *)
(* number of workers and users, their crashes and their retries.           *)
(***************************************************************************)
OneAtATime ==
    \A v, w \in Workers :
        pc[v] # "idle" /\ pc[w] # "idle" /\ UserOf(v) = UserOf(w) => v = w

\* What w found in the row still holds when it commits.
SerialTxOf(w) ==
    LET t == TaskOf(w)
        u == UserOf(w) IN
    /\ pc[w] \in {"update", "read", "zero", "commit"} => Charge[t] > 0
    /\ pc[w] = "read" => ~Covers(u, Charge[t])
    /\ pc[w] = "zero" =>
          balance[u] < Charge[t] /\ draft[w].amount = -balance[u]
    /\ pc[w] = "commit" =>
          /\ draft[w].after = Promise!After(t, balance[u])
          /\ draft[w].after = balance[u] + draft[w].amount

SerialTx == \A w \in Workers : SerialTxOf(w)

\* What a booking makes of a balance, in terms of the task.
LEMMA AfterTask ==
    ASSUME NEW t \in Tasks, Charge[t] > 0, NEW m \in Nat
    PROVE  Promise!After(t, m) =
             IF t.kind # "settle" THEN m + Charge[t]
             ELSE IF m >= Charge[t] THEN m - Charge[t] ELSE 0
BY DEF Promise!After, Chargeable

\* A worker's findings survive every step that leaves it and its row alone.
LEMMA SerialKeep ==
    ASSUME SettlementInv, NEW v \in Workers, SerialTxOf(v),
           pc'[v] = pc[v], job'[v] = job[v], draft'[v] = draft[v],
           UNCHANGED rows,
           pc[v] # "idle" => balance'[UserOf(v)] = balance[UserOf(v)]
    PROVE  SerialTxOf(v)'
<1>1. TaskOf(v)' = TaskOf(v) /\ UserOf(v)' = UserOf(v)
  BY DEF TaskOf, UserOf
<1>2. CASE pc[v] = "idle"
  BY <1>2 DEF SerialTxOf
<1>3. CASE pc[v] # "idle"
  <2>1. balance'[UserOf(v)] = balance[UserOf(v)]
    BY <1>3
  <2>2. Promise!After(TaskOf(v), balance[UserOf(v)])'
          = Promise!After(TaskOf(v), balance[UserOf(v)])
    BY <1>1, <2>1 DEF Promise!After
  <2>3. QED BY <1>1, <2>1, <2>2 DEF SerialTxOf, Covers
<1>4. QED BY <1>2, <1>3

\* The steps of the worker itself.
LEMMA SerialOwn ==
    ASSUME SettlementInv, NEW v \in Workers, SerialTxOf(v),
           \/ \E d \in Deliveries : Take(v, d)
           \/ HandlerStep(v) \/ Fail(v) \/ CommitUnconfirmed(v) \/ Crash(v)
    PROVE  SerialTxOf(v)'
<1>1. TypeOK /\ HeldByOne /\ OpenTx
  BY DEF SettlementInv
<1>2. ASSUME pc'[v] \in {"idle", "lookup", "put", "release", "ack"}
      PROVE  SerialTxOf(v)'
  BY <1>2 DEF SerialTxOf
<1>3. CASE \/ \E d \in Deliveries : Take(v, d)
           \/ Commit(v) \/ Duplicate(v) \/ Put(v) \/ Release(v) \/ Ack(v)
           \/ Fail(v) \/ CommitUnconfirmed(v) \/ Crash(v)
  BY <1>1, <1>2, <1>3 DEF Take, Commit, Duplicate, Put, Release, Ack, Fail,
     CommitUnconfirmed, Crash, Reject, Goto, TypeOK
<1>4. CASE Lookup(v) \/ Debit(v) \/ Miss(v) \/ ReadBalance(v) \/ ZeroOut(v)
           \/ Credit(v)
  <2>1. pc[v] # "idle" /\ UNCHANGED <<job, balance, rows>>
    BY <1>4 DEF Lookup, Debit, Miss, ReadBalance, ZeroOut, Credit, rowVars
  <2>2. /\ TaskOf(v) \in Tasks /\ TaskOf(v).kind \in {"settle", "refund"}
        /\ UserOf(v) \in Users
        /\ Charge[TaskOf(v)] \in Nat
    BY <1>1, <2>1, JobType
  <2>3. balance[UserOf(v)] \in Nat
    BY <1>1, <2>2 DEF TypeOK
  <2>4. TaskOf(v)' = TaskOf(v) /\ UserOf(v)' = UserOf(v)
    BY <2>1 DEF TaskOf, UserOf
  <2>5. CASE Lookup(v)
    BY <1>1, <2>4, <2>5 DEF Lookup, Goto, TypeOK, SerialTxOf
  <2>6. CASE Miss(v)
    BY <1>1, <2>1, <2>4, <2>6 DEF Miss, Goto, TypeOK, SerialTxOf, Covers
  <2>7. CASE ReadBalance(v)
    <3>1. /\ pc'[v] = "zero"
          /\ draft'[v].amount = -balance[UserOf(v)]
          /\ pc[v] = "read" /\ UserOf(v) \in rows
      BY <1>1, <2>7 DEF ReadBalance, Shortfall, Goto, TypeOK
    <3>2. Charge[TaskOf(v)] > 0 /\ balance[UserOf(v)] < Charge[TaskOf(v)]
      BY <2>2, <2>3, <3>1 DEF SerialTxOf, Covers
    <3>3. QED BY <2>1, <2>4, <3>1, <3>2 DEF SerialTxOf
  <2>8. ASSUME pc'[v] = "commit", Charge[TaskOf(v)] > 0,
               draft'[v].after = balance[UserOf(v)] + draft'[v].amount,
               draft'[v].after =
                 IF TaskOf(v).kind # "settle"
                 THEN balance[UserOf(v)] + Charge[TaskOf(v)]
                 ELSE IF balance[UserOf(v)] >= Charge[TaskOf(v)]
                      THEN balance[UserOf(v)] - Charge[TaskOf(v)] ELSE 0
        PROVE  SerialTxOf(v)'
    <3>1. draft'[v].after = Promise!After(TaskOf(v), balance[UserOf(v)])
      BY <2>2, <2>3, <2>8, AfterTask
    <3>2. Promise!After(TaskOf(v), balance[UserOf(v)])'
            = Promise!After(TaskOf(v), balance[UserOf(v)])
      BY <2>1, <2>4 DEF Promise!After
    <3>3. QED BY <2>1, <2>4, <2>8, <3>1, <3>2 DEF SerialTxOf
  <2>9. CASE ZeroOut(v)
    <3>1. /\ pc'[v] = "commit" /\ pc[v] = "zero"
          /\ draft'[v] = draft[v]
      BY <1>1, <2>9 DEF ZeroOut, Goto, TypeOK
    <3>2. /\ draft[v].after = 0 /\ TaskOf(v).kind = "settle"
          /\ draft[v].amount = -balance[UserOf(v)]
          /\ balance[UserOf(v)] < Charge[TaskOf(v)]
          /\ Charge[TaskOf(v)] > 0
      BY <1>1, <3>1 DEF OpenTx, SerialTxOf
    <3>3. QED BY <2>2, <2>3, <2>8, <3>1, <3>2
  <2>10. CASE Debit(v)
    <3>1. /\ pc'[v] = "commit" /\ pc[v] = "update"
          /\ TaskOf(v).kind = "settle"
          /\ balance[UserOf(v)] >= Charge[TaskOf(v)]
          /\ draft'[v].amount = -Charge[TaskOf(v)]
          /\ draft'[v].after = balance[UserOf(v)] - Charge[TaskOf(v)]
      BY <1>1, <2>10 DEF Debit, Covers, Goto, TypeOK
    <3>2. Charge[TaskOf(v)] > 0
      BY <3>1 DEF SerialTxOf
    <3>3. QED BY <2>2, <2>3, <2>8, <3>1, <3>2
  <2>11. CASE Credit(v)
    <3>1. /\ pc'[v] = "commit" /\ pc[v] = "update"
          /\ TaskOf(v).kind = "refund"
          /\ draft'[v].amount = Charge[TaskOf(v)]
          /\ draft'[v].after = balance[UserOf(v)] + Charge[TaskOf(v)]
      BY <1>1, <2>11 DEF Credit, Goto, TypeOK
    <3>2. Charge[TaskOf(v)] > 0
      BY <3>1 DEF SerialTxOf
    <3>3. QED BY <2>2, <2>3, <2>8, <3>1, <3>2
  <2>12. QED BY <1>4, <2>5, <2>6, <2>7, <2>9, <2>10, <2>11
<1>5. QED BY <1>3, <1>4 DEF HandlerStep

\* Nothing but a commit, a recharge or an adjustment moves a balance.
LEMMA QuietStep ==
    ASSUME NEW w \in Workers,
           \/ \E d \in Deliveries : Take(w, d)
           \/ HandlerStep(w) /\ ~Commit(w)
           \/ Fail(w) \/ Crash(w)
    PROVE  UNCHANGED <<balance, ledger>>
BY DEF HandlerStep, Take, Lookup, Debit, Miss, ReadBalance, ZeroOut, Credit,
       Duplicate, Put, Release, Ack, Fail, Crash, rowVars

\* A step of w leaves the other workers, and their users' rows, alone.
LEMMA SerialOther ==
    ASSUME SettlementInv, OneAtATime,
           NEW v \in Workers, NEW w \in Workers, v # w,
           \/ \E d \in Deliveries : Take(w, d)
           \/ HandlerStep(w) \/ Fail(w) \/ CommitUnconfirmed(w) \/ Crash(w)
    PROVE  /\ pc'[v] = pc[v] /\ job'[v] = job[v] /\ draft'[v] = draft[v]
           /\ UNCHANGED rows
           /\ pc[v] # "idle" => balance'[UserOf(v)] = balance[UserOf(v)]
<1>1. TypeOK /\ HeldByOne
  BY DEF SettlementInv
<1>2. /\ \E x : pc' = [pc EXCEPT ![w] = x]
      /\ UNCHANGED job \/ \E x : job' = [job EXCEPT ![w] = x]
      /\ UNCHANGED draft \/ \E x : draft' = [draft EXCEPT ![w] = x]
      /\ UNCHANGED rows
  BY DEF HandlerStep, Take, Lookup, Debit, Miss, ReadBalance, ZeroOut, Credit,
         Commit, Duplicate, Put, Release, Ack, Fail, CommitUnconfirmed, Crash,
         Reject, EndTx, Goto, rowVars, queueVars
<1>3. pc'[v] = pc[v] /\ job'[v] = job[v] /\ draft'[v] = draft[v]
  BY <1>1, <1>2 DEF TypeOK
<1>4. ASSUME pc[v] # "idle", Commit(w) \/ CommitUnconfirmed(w)
      PROVE  balance'[UserOf(v)] = balance[UserOf(v)]
  <2>1. pc[w] # "idle" /\ Apply(w)
    BY <1>4 DEF Commit, CommitUnconfirmed
  <2>2. UserOf(v) # UserOf(w)
    BY <1>4, <2>1 DEF OneAtATime
  <2>3. UserOf(v) \in Users /\ UserOf(w) \in Users
    BY <1>1, <1>4, <2>1, JobType
  <2>4. QED BY <1>1, <2>1, <2>2, <2>3 DEF Apply, TypeOK
<1>5. QED BY <1>2, <1>3, <1>4, QuietStep

\* Turns keep the parts of SerialTx.
LEMMA SerialStep ==
    ASSUME SettlementInv, SerialTx, OneAtATime, Orders = {}, Adjusts = {},
           [Next]_vars
    PROVE  SerialTx'
<1> SUFFICES ASSUME NEW v \in Workers
             PROVE  SerialTxOf(v)'
  BY DEF SerialTx
<1>1. SerialTxOf(v)
  BY DEF SerialTx
<1>2. ASSUME NEW w \in Workers,
             \/ \E d \in Deliveries : Take(w, d)
             \/ HandlerStep(w) \/ Fail(w) \/ CommitUnconfirmed(w) \/ Crash(w)
      PROVE  SerialTxOf(v)'
  <2>1. CASE v = w
    BY <1>1, <1>2, <2>1, SerialOwn
  <2>2. CASE v # w
    <3>1. /\ pc'[v] = pc[v] /\ job'[v] = job[v] /\ draft'[v] = draft[v]
          /\ UNCHANGED rows
          /\ pc[v] # "idle" => balance'[UserOf(v)] = balance[UserOf(v)]
      BY <1>2, <2>2, SerialOther
    <3>2. QED BY <1>1, <3>1, SerialKeep
  <2>3. QED BY <2>1, <2>2
<1>3. CASE \/ \E d \in Deliveries : Publish(d)
           \/ \E t \in Tasks : ExpireL2(t)
           \/ UNCHANGED vars
  <2>1. UNCHANGED <<pc, job, draft, rows, balance>>
    BY <1>3 DEF Publish, ExpireL2, vars, rowVars, workerVars
  <2>2. QED BY <1>1, <2>1, SerialKeep
<1>4. QED BY <1>2, <1>3 DEF Next

\* The ledger row of a commit books the worker's task and no other.
LEMMA CommitPosts ==
    ASSUME SettlementInv, NEW w \in Workers, pc[w] = "commit", Apply(w)
    PROVE  \A x \in Tasks : Posted(x)' <=> Posted(x) \/ x = TaskOf(w)
<1> DEFINE t == TaskOf(w)
           e == Entry(t.kind, t.req, UserOf(w), draft[w])
<1>1. TypeOK /\ HeldByOne
  BY DEF SettlementInv
<1>2. t \in Tasks /\ t \in TaskType
  BY <1>1, JobType, SettlementAssumption
<1>3. e \in EntryType /\ ledger \in Seq(EntryType) /\ ledger' = Append(ledger, e)
  BY <1>1, WorkerEntry DEF TypeOK, Apply
<1>4. e.kind = t.kind /\ e.ref = t.req
  BY DEF Entry
<1> HIDE DEF e
<1>5. /\ DOMAIN ledger = 1 .. Len(ledger)
      /\ Len(ledger) \in Nat
      /\ DOMAIN ledger' = 1 .. (Len(ledger) + 1)
      /\ \A i \in 1 .. Len(ledger) : ledger'[i] = ledger[i]
      /\ ledger'[Len(ledger) + 1] = e
  BY <1>3, AppendRow
<1>6. ASSUME NEW x \in Tasks
      PROVE  Posted(x)' <=> Posted(x) \/ x = t
  <2>1. x \in TaskType
    BY SettlementAssumption
  <2>2. x = t <=> e.kind = x.kind /\ e.ref = x.req
    BY <1>2, <1>4, <2>1 DEF TaskType
  <2>3. QED BY <1>5, <2>2 DEF Posted
<1>7. QED BY <1>6

\* The ledger rows that book a task are the tasks Account has booked.
LEMMA CommitBooks ==
    ASSUME SettlementInv, SerialTx, NEW w \in Workers,
           Commit(w) \/ CommitUnconfirmed(w)
    PROVE  Promise!AccountNext
<1> DEFINE t == TaskOf(w)
           u == UserOf(w)
<1>1. TypeOK /\ HeldByOne
  BY DEF SettlementInv
<1>2. pc[w] = "commit" /\ ~Posted(t) /\ Apply(w)
  BY DEF Commit, CommitUnconfirmed
<1>3. t \in Tasks
  BY <1>1, <1>2, JobType
<1>4. balance' = [balance EXCEPT ![u] = draft[w].after]
  BY <1>2 DEF Apply
<1>5. draft[w].after = Promise!After(t, balance[u]) /\ t \in Chargeable
  BY <1>2, <1>3 DEF SerialTx, SerialTxOf, Chargeable
<1>6. \A x \in Tasks : Posted(x)' <=> Posted(x) \/ x = t
  BY <1>2, CommitPosts
<1>7. {x \in Tasks : Posted(x)}' = {x \in Tasks : Posted(x)} \cup {t}
  BY <1>3, <1>6
<1>8. t \notin {x \in Tasks : Posted(x)}
  BY <1>2
<1>9. [x \in Chargeable |-> Owner[x.req]][t] = u
  BY <1>5 DEF UserOf
<1>10. balance' = [balance EXCEPT ![u] = Promise!After(t, @)]
  BY <1>4, <1>5
<1> HIDE DEF t, u
<1>11. Promise!Do(t)
  BY <1>7, <1>8, <1>9, <1>10 DEF Promise!Do
<1>12. QED BY <1>5, <1>11 DEF Promise!AccountNext

\* Every step is a booking of Account or leaves balances and bookings alone.
LEMMA AccountStep ==
    ASSUME SettlementInv, SerialTx, Orders = {}, Adjusts = {}, [Next]_vars
    PROVE  [Promise!AccountNext]_<<balance, {t \in Tasks : Posted(t)}>>
<1>1. CASE \E w \in Workers : Commit(w) \/ CommitUnconfirmed(w)
  BY <1>1, CommitBooks
<1>2. CASE ~\E w \in Workers : Commit(w) \/ CommitUnconfirmed(w)
  <2>1. UNCHANGED <<balance, ledger>>
    BY <1>2, QuietStep DEF Next, HandlerStep, Publish, Take, ExpireL2, vars,
       rowVars
  <2>2. QED BY <2>1 DEF Posted
<1>3. QED BY <1>1, <1>2

\* What holds at the start for the workers and for Account.
LEMMA SerialInit == Init => SerialTx /\ Promise!AccountInit
<1> SUFFICES ASSUME Init PROVE SerialTx /\ Promise!AccountInit
  OBVIOUS
<1>1. SerialTx
  BY DEF Init, SerialTx, SerialTxOf
<1>2. {t \in Tasks : Posted(t)} = {}
  BY DEF Init, Posted
<1>3. QED BY <1>1, <1>2 DEF Init, Promise!AccountInit

\* Refinement: as long as the messages of a user are handled one after the
\* other, every settlement and refund reaches the balance exactly once and for
\* its amount, whatever fails, crashes or is delivered again.
THEOREM TurnsImplementAccount ==
    ASSUME Orders = {}, Adjusts = {}
    PROVE  Spec /\ []OneAtATime => ImplementsAccount
<1>1. SettlementInv /\ SerialTx /\ OneAtATime /\ [Next]_vars => SerialTx'
  BY SerialStep
<1>2. SettlementInv /\ SerialTx /\ [Next]_vars
        => [Promise!AccountNext]_<<balance, {t \in Tasks : Posted(t)}>>
  BY AccountStep
<1>3. QED
  BY <1>1, <1>2, SerialInit, SettlementInvariant, PTL
     DEF Spec, ImplementsAccount, Promise!AccountSpec

\* The same for a single worker per queue, which takes turns by itself.
THEOREM OneWorkerImplementsAccount ==
    ASSUME Orders = {}, Adjusts = {}, \A v, w \in Workers : v = w
    PROVE  Spec => ImplementsAccount
<1>1. OneAtATime
  BY DEF OneAtATime
<1>2. QED BY <1>1, TurnsImplementAccount, PTL

\* Every row of the ledger continues from the row before it, the settlements
\* that emptied a balance included.
WholeChain == \A i \in DOMAIN ledger : Chained(i)

\* Turns keep the whole chain, overdrawn rows included.
LEMMA WholeChainStep ==
    ASSUME SettlementInv, SerialTx, WholeChain, Orders = {}, Adjusts = {},
           [Next]_vars
    PROVE  WholeChain'
<1>1. TypeOK /\ HeldByOne /\ NewestRow
  BY DEF SettlementInv
<1>2. ASSUME NEW w \in Workers, Commit(w) \/ CommitUnconfirmed(w)
      PROVE  WholeChain'
  <2> DEFINE u == UserOf(w)
             e == Entry(TaskOf(w).kind, TaskOf(w).req, u, draft[w])
  <2>1. pc[w] = "commit" /\ Apply(w)
    BY <1>2 DEF Commit, CommitUnconfirmed
  <2>2. u \in Users /\ e \in EntryType
    BY <1>1, <2>1, JobType, WorkerEntry
  <2>3. draft[w].after = balance[u] + draft[w].amount
    BY <2>1 DEF SerialTx, SerialTxOf
  <2>4. e.user = u /\ e.after = balance[u] + e.amount
    BY <2>3 DEF Entry
  <2>5. ledger' = Append(ledger, e)
    BY <2>1 DEF Apply
  <2> HIDE DEF e, u
  <2>6. QED BY <1>1, <2>2, <2>4, <2>5, ChainAppend DEF WholeChain
<1>3. CASE ~\E w \in Workers : Commit(w) \/ CommitUnconfirmed(w)
  <2>1. UNCHANGED <<balance, ledger>>
    BY <1>3, QuietStep DEF Next, HandlerStep, Publish, Take, ExpireL2, vars,
       rowVars
  <2>2. QED BY <2>1 DEF WholeChain, Chained, Earlier
<1>4. QED BY <1>2, <1>3

\* While the messages of a user take turns, balance_after of every row is the
\* one before plus the amount, and the newest one is the balance: each balance
\* is its opening value plus the amounts booked since.
THEOREM TurnsChainLedger ==
    ASSUME Orders = {}, Adjusts = {}
    PROVE  Spec /\ []OneAtATime => [](WholeChain /\ NewestRow)
<1>1. Init => WholeChain
  BY DEF Init, WholeChain
<1>2. SettlementInv /\ SerialTx /\ OneAtATime /\ [Next]_vars => SerialTx'
  BY SerialStep
<1>3. SettlementInv /\ SerialTx /\ WholeChain /\ [Next]_vars => WholeChain'
  BY WholeChainStep
<1>4. SettlementInv => NewestRow
  BY DEF SettlementInv
<1>5. QED
  BY <1>1, <1>2, <1>3, <1>4, SerialInit, SettlementInvariant, PTL DEF Spec

-----------------------------------------------------------------------------
(***************************************************************************)
(* The balance as the sum of the ledger.                                   *)
(***************************************************************************)
Kinds == {"settle", "refund", "recharge", "adjust"}

Agrees(u) == balance[u] = Opening[u] + LedgerSum(u, Kinds)

\* The rows of v in the ledger.
Own(v) == {i \in DOMAIN ledger : ledger[i].user = v /\ ledger[i].kind \in Kinds}

\* What one more row adds to the sum of a user.
LEMMA SumAppend ==
    ASSUME TypeOK, NEW e \in EntryType, ledger' = Append(ledger, e),
           NEW v \in Users
    PROVE  /\ LedgerSum(v, Kinds) \in Int
           /\ e.user # v => LedgerSum(v, Kinds)' = LedgerSum(v, Kinds)
           /\ e.user = v =>
                LedgerSum(v, Kinds)' = LedgerSum(v, Kinds) + e.amount
<1> DEFINE n == Len(ledger)
           A == Own(v)
           B == Own(v)'
           f == [i \in A |-> ledger[i].amount]
           g == [i \in B |-> ledger'[i].amount]
<1>1. /\ DOMAIN ledger = 1 .. n
      /\ n \in Nat
      /\ DOMAIN ledger' = 1 .. (n + 1)
      /\ \A i \in 1 .. n : ledger'[i] = ledger[i] /\ ledger[i] \in EntryType
      /\ ledger'[n + 1] = e
  BY AppendRow DEF TypeOK
<1>2. /\ LedgerSum(v, Kinds) = SumFunctionOnSet(f, A)
      /\ LedgerSum(v, Kinds)' = SumFunctionOnSet(g, B)
  BY DEF LedgerSum, Own, SumFunction
<1>3. IsFiniteSet(A)
  <2>1. IsFiniteSet(1 .. n)
    BY <1>1, FS_Interval
  <2>2. QED BY <1>1, <2>1, FS_Subset DEF Own
<1>4. /\ n + 1 \notin A
      /\ e.user # v => B = A
      /\ e.user = v => B = A \cup {n + 1}
  <2>1. e.kind \in Kinds
    BY DEF EntryType, Kinds
  <2>2. QED BY <1>1, <2>1 DEF Own
<1>5. /\ \A i \in A : f[i] \in Int /\ g[i] = f[i]
      /\ e.user = v => g[n + 1] = e.amount
      /\ e.amount \in Int
  BY <1>1, <1>4 DEF Own, EntryType
<1> HIDE DEF f, g, A, B
<1>6. SumFunctionOnSet(f, A) \in Int /\ SumFunctionOnSet(g, A) = SumFunctionOnSet(f, A)
  BY <1>3, <1>5, SumType, SumSame
<1>7. e.user = v => SumFunctionOnSet(g, A \cup {n + 1}) = SumFunctionOnSet(g, A) + g[n + 1]
  BY <1>1, <1>3, <1>4, <1>5, SumAdd
<1>8. QED BY <1>2, <1>4, <1>5, <1>6, <1>7

\* A row that continues from the balance keeps the balance the sum.
LEMMA SumStep ==
    ASSUME TypeOK, NEW u \in Users, NEW e \in EntryType, e.user = u,
           ledger' = Append(ledger, e),
           balance' = [balance EXCEPT ![u] = e.after],
           NEW v \in Users, Agrees(v),
           v = u => e.after = balance[u] + e.amount
    PROVE  Agrees(v)'
<1>1. /\ balance[v] \in Nat /\ Opening[v] \in Nat /\ e.amount \in Int
      /\ balance'[v] = IF v = u THEN e.after ELSE balance[v]
  BY SettlementAssumption DEF TypeOK, EntryType
<1>2. /\ LedgerSum(v, Kinds) \in Int
      /\ u # v => LedgerSum(v, Kinds)' = LedgerSum(v, Kinds)
      /\ u = v => LedgerSum(v, Kinds)' = LedgerSum(v, Kinds) + e.amount
  BY SumAppend
<1>3. balance[v] = Opening[v] + LedgerSum(v, Kinds)
  BY DEF Agrees
<1>4. CASE u = v
  BY <1>1, <1>2, <1>3, <1>4 DEF Agrees
<1>5. CASE u # v
  BY <1>1, <1>2, <1>3, <1>5 DEF Agrees
<1>6. QED BY <1>4, <1>5

\* At first there is nothing but the opening balances.
LEMMA SumInit == Init => \A u \in Users : Agrees(u)
<1> SUFFICES ASSUME Init, NEW u \in Users
             PROVE  Agrees(u)
  OBVIOUS
<1> DEFINE f == [i \in Own(u) |-> ledger[i].amount]
<1>1. Own(u) = {} /\ LedgerSum(u, Kinds) = SumFunctionOnSet(f, Own(u))
  BY DEF Init, Own, LedgerSum, SumFunction
<1> HIDE DEF f
<1>2. LedgerSum(u, Kinds) = 0
  BY <1>1, SumEmpty
<1>3. QED BY <1>2, SettlementAssumption DEF Init, Agrees

\* The sum does not change without the ledger.
LEMMA SumStill ==
    ASSUME UNCHANGED <<balance, ledger>>, NEW u, Agrees(u)
    PROVE  Agrees(u)'
BY DEF Agrees, LedgerSum

\* In any interleaving of workers, recharges and adjustments the balance of a
\* user is the sum of the user's ledger until a settlement empties it: nothing
\* but the overdraft branch can make the two drift apart.
DriftHasCause ==
    \A u \in Users :
        Agrees(u) \/ \E i \in DOMAIN ledger : ledger[i].user = u /\ Emptied(i)

\* Every step keeps DriftHasCause.
LEMMA DriftStep ==
    ASSUME SettlementInv, DriftHasCause, [Next]_vars
    PROVE  DriftHasCause'
<1>1. TypeOK
  BY DEF SettlementInv
<1>2. ASSUME Books
      PROVE  DriftHasCause'
  <2>1. PICK u \in Users, e \in EntryType :
           /\ e.user = u
           /\ ledger' = Append(ledger, e)
           /\ balance' = [balance EXCEPT ![u] = e.after]
           /\ \/ e.kind = "settle" /\ e.after = 0
              \/ e.after = balance[u] + e.amount
    BY <1>2 DEF Books
  <2>2. /\ DOMAIN ledger = 1 .. Len(ledger)
        /\ Len(ledger) \in Nat
        /\ DOMAIN ledger' = 1 .. (Len(ledger) + 1)
        /\ \A i \in 1 .. Len(ledger) : ledger'[i] = ledger[i]
        /\ ledger'[Len(ledger) + 1] = e
    BY <1>1, <2>1, AppendRow DEF TypeOK
  <2> SUFFICES ASSUME NEW v \in Users
               PROVE  \/ Agrees(v)'
                      \/ \E i \in DOMAIN ledger' :
                            ledger'[i].user = v /\ Emptied(i)'
    BY DEF DriftHasCause
  <2>3. CASE \E i \in DOMAIN ledger : ledger[i].user = v /\ Emptied(i)
    BY <2>2, <2>3 DEF Emptied
  <2>4. CASE Agrees(v) /\ (v = u => e.after = balance[u] + e.amount)
    BY <1>1, <2>1, <2>4, SumStep
  <2>5. CASE v = u /\ e.kind = "settle" /\ e.after = 0
    <3>1. PICK n \in DOMAIN ledger' : n = Len(ledger) + 1
      BY <2>2
    <3>2. ledger'[n].user = v /\ Emptied(n)'
      BY <2>1, <2>2, <2>5, <3>1 DEF Emptied
    <3>3. QED BY <3>1, <3>2
  <2>6. QED BY <2>1, <2>3, <2>4, <2>5 DEF DriftHasCause
<1>3. CASE UNCHANGED <<balance, ledger>>
  <2>1. \A u \in Users : Agrees(u) => Agrees(u)'
    BY <1>3, SumStill
  <2>2. QED BY <1>3, <2>1 DEF DriftHasCause, Emptied
<1>4. QED BY <1>2, <1>3, StepBooks

\* In every interleaving, with every other writer of the balance: a user's
\* balance is the opening one plus the ledger, or a settlement emptied it.
THEOREM OnlyOverdraftsDrift == Spec => []DriftHasCause
<1>1. Init => DriftHasCause
  BY SumInit DEF DriftHasCause
<1>2. SettlementInv /\ DriftHasCause /\ [Next]_vars => DriftHasCause'
  BY DriftStep
<1>3. QED BY <1>1, <1>2, SettlementInvariant, PTL DEF Spec

\* While workers take turns every step keeps all balances the sums.
LEMMA WholeSumStep ==
    ASSUME SettlementInv, SerialTx, Orders = {}, Adjusts = {},
           \A v \in Users : Agrees(v), [Next]_vars
    PROVE  \A v \in Users : Agrees(v)'
<1> SUFFICES ASSUME NEW v \in Users PROVE Agrees(v)'
  OBVIOUS
<1>1. TypeOK /\ HeldByOne
  BY DEF SettlementInv
<1>2. ASSUME NEW w \in Workers, Commit(w) \/ CommitUnconfirmed(w)
      PROVE  Agrees(v)'
  <2> DEFINE u == UserOf(w)
             e == Entry(TaskOf(w).kind, TaskOf(w).req, u, draft[w])
  <2>1. pc[w] = "commit" /\ Apply(w)
    BY <1>2 DEF Commit, CommitUnconfirmed
  <2>2. u \in Users /\ e \in EntryType
    BY <1>1, <2>1, JobType, WorkerEntry
  <2>3. draft[w].after = balance[u] + draft[w].amount
    BY <2>1 DEF SerialTx, SerialTxOf
  <2>4. e.user = u /\ e.after = balance[u] + e.amount /\ e.after = draft[w].after
    BY <2>3 DEF Entry
  <2>5. /\ ledger' = Append(ledger, e)
        /\ balance' = [balance EXCEPT ![u] = e.after]
    BY <2>1, <2>4 DEF Apply
  <2> HIDE DEF e, u
  <2>6. QED BY <1>1, <2>2, <2>4, <2>5, SumStep
<1>3. CASE ~\E w \in Workers : Commit(w) \/ CommitUnconfirmed(w)
  <2>1. UNCHANGED <<balance, ledger>>
    BY <1>3, QuietStep DEF Next, HandlerStep, Publish, Take, ExpireL2, vars,
       rowVars
  <2>2. QED BY <2>1, SumStill
<1>4. QED BY <1>2, <1>3

\* While the messages of a user take turns, every balance is its opening value
\* plus all amounts booked for the user, the overdrafts included.
THEOREM TurnsSumLedger ==
    ASSUME Orders = {}, Adjusts = {}
    PROVE  Spec /\ []OneAtATime => []BalanceIsLedgerSum
<1> DEFINE Whole == \A u \in Users : Agrees(u)
<1>1. SettlementInv /\ SerialTx /\ OneAtATime /\ [Next]_vars => SerialTx'
  BY SerialStep
<1>2. SettlementInv /\ SerialTx /\ Whole /\ [Next]_vars => Whole'
  BY WholeSumStep
<1>3. Init => Whole
  BY SumInit
<1>4. Whole => BalanceIsLedgerSum
  BY DEF Agrees, Kinds, BalanceIsLedgerSum
<1> HIDE DEF Whole
<1>5. QED
  BY <1>1, <1>2, <1>3, <1>4, SerialInit, SettlementInvariant, PTL DEF Spec

-----------------------------------------------------------------------------
(***************************************************************************)
(* A user who never overdraws.                                             *)
(*                                                                         *)
(* Without turns, and with recharges and adjustments in between, a user    *)
(* none of whose settlements enters the overdraft branch still gets what   *)
(* Account promises: the row lock alone orders the bookings then.  Account *)
(* is taken for that user alone, with the three kinds of bookings.         *)
(***************************************************************************)
\* The tasks, orders and adjustments of u,
BookingsOf(u) ==
    [by : {"task"}, of : {t \in Chargeable : Owner[t.req] = u}]
        \cup [by : {"order"}, of : {o \in Orders : OrderOwner[o] = u}]
        \cup [by : {"adjust"}, of : {a \in Adjusts : AdjustUser[a] = u}]

\* their amounts,
Worth(b) ==
    IF b.by = "task" THEN Charge[b.of]
    ELSE IF b.by = "order" THEN OrderAmount[b.of]
    ELSE IF AdjustDelta[b.of] < 0 THEN -AdjustDelta[b.of] ELSE AdjustDelta[b.of]

\* the ones that take,
Takes(b) ==
    \/ b.by = "task" /\ b.of.kind = "settle"
    \/ b.by = "adjust" /\ AdjustDelta[b.of] < 0

\* and those that are booked.
BookedFor(u) ==
    {b \in BookingsOf(u) : \/ b.by = "task" /\ Posted(b.of)
                           \/ b.by = "order" /\ b.of \in paid
                           \/ b.by = "adjust" /\ b.of \in adjusted}

Alone(u) == INSTANCE Account WITH
    Users <- {u},
    Bookings <- BookingsOf(u),
    UserOfB <- [b \in BookingsOf(u) |-> u],
    AmountOf <- [b \in BookingsOf(u) |-> Worth(b)],
    Debits <- {b \in BookingsOf(u) : Takes(b)},
    Start <- [v \in {u} |-> Opening[v]],
    money <- [v \in {u} |-> balance[v]],
    booked <- BookedFor(u)

\* No settlement of u has read a balance that it is about to empty.
NeverShort(u) == \A w \in Workers : pc[w] = "zero" => UserOf(w) # u

\* What w is about to commit is what Account makes of the balance.
SoundTxOf(w) ==
    LET t == TaskOf(w) IN
    /\ pc[w] \in {"update", "read", "commit"} => Charge[t] > 0
    /\ pc[w] = "commit" => draft[w].after = Promise!After(t, balance[UserOf(w)])

SoundTx(u) ==
    \A w \in Workers : pc[w] # "idle" /\ UserOf(w) = u => SoundTxOf(w)

\* The steps of w that stay within its transaction.
LEMMA SoundOwn ==
    ASSUME SettlementInv, NEW w \in Workers, SoundTxOf(w), pc[w] # "zero",
           \/ Lookup(w) \/ Debit(w) \/ Miss(w) \/ ReadBalance(w) \/ ZeroOut(w)
           \/ Credit(w)
    PROVE  SoundTxOf(w)'
<1>1. TypeOK /\ HeldByOne
  BY DEF SettlementInv
<1>2. pc[w] # "idle" /\ UNCHANGED <<job, balance>>
  BY DEF Lookup, Debit, Miss, ReadBalance, ZeroOut, Credit, rowVars
<1>3. /\ TaskOf(w) \in Tasks /\ TaskOf(w).kind \in {"settle", "refund"}
      /\ UserOf(w) \in Users /\ Charge[TaskOf(w)] \in Nat
  BY <1>1, <1>2, JobType
<1>4. balance[UserOf(w)] \in Nat
  BY <1>1, <1>3 DEF TypeOK
<1>5. TaskOf(w)' = TaskOf(w) /\ UserOf(w)' = UserOf(w)
  BY <1>2 DEF TaskOf, UserOf
<1>6. Promise!After(TaskOf(w), balance[UserOf(w)])'
        = Promise!After(TaskOf(w), balance[UserOf(w)])
  BY <1>2, <1>5 DEF Promise!After
<1>7. CASE Lookup(w)
  <2>1. pc'[w] \in {"ack", "put"} \/ (pc'[w] = "update" /\ Charge[TaskOf(w)] > 0)
    BY <1>1, <1>7 DEF Lookup, Goto, TypeOK
  <2>2. QED BY <1>5, <2>1 DEF SoundTxOf
<1>8. CASE Miss(w) \/ ReadBalance(w)
  <2>1. /\ pc'[w] \in {"read", "zero"} /\ pc[w] \in {"update", "read"}
    BY <1>1, <1>8 DEF Miss, ReadBalance, Goto, TypeOK
  <2>2. QED BY <1>5, <2>1 DEF SoundTxOf
<1>9. ASSUME pc'[w] = "commit", Charge[TaskOf(w)] > 0,
             draft'[w].after =
               IF TaskOf(w).kind # "settle"
               THEN balance[UserOf(w)] + Charge[TaskOf(w)]
               ELSE IF balance[UserOf(w)] >= Charge[TaskOf(w)]
                    THEN balance[UserOf(w)] - Charge[TaskOf(w)] ELSE 0
      PROVE  SoundTxOf(w)'
  <2>1. draft'[w].after = Promise!After(TaskOf(w), balance[UserOf(w)])
    BY <1>3, <1>4, <1>9, AfterTask
  <2>2. QED BY <1>5, <1>6, <1>9, <2>1 DEF SoundTxOf
<1>10. CASE Debit(w)
  <2>1. /\ pc'[w] = "commit" /\ pc[w] = "update" /\ TaskOf(w).kind = "settle"
        /\ balance[UserOf(w)] >= Charge[TaskOf(w)]
        /\ draft'[w].after = balance[UserOf(w)] - Charge[TaskOf(w)]
    BY <1>1, <1>10 DEF Debit, Covers, Goto, TypeOK
  <2>2. Charge[TaskOf(w)] > 0
    BY <2>1 DEF SoundTxOf
  <2>3. QED BY <1>9, <2>1, <2>2
<1>11. CASE Credit(w)
  <2>1. /\ pc'[w] = "commit" /\ pc[w] = "update" /\ TaskOf(w).kind = "refund"
        /\ draft'[w].after = balance[UserOf(w)] + Charge[TaskOf(w)]
    BY <1>1, <1>11 DEF Credit, Goto, TypeOK
  <2>2. Charge[TaskOf(w)] > 0
    BY <2>1 DEF SoundTxOf
  <2>3. QED BY <1>9, <2>1, <2>2
<1>12. QED BY <1>7, <1>8, <1>10, <1>11 DEF ZeroOut

\* A worker whose transaction is open keeps its finding as long as it stays
\* where it is and nobody writes its row.
LEMMA SoundKeep ==
    ASSUME NEW v \in Workers, SoundTxOf(v),
           pc'[v] = pc[v], job'[v] = job[v], draft'[v] = draft[v],
           pc[v] = "commit" => balance'[UserOf(v)] = balance[UserOf(v)]
    PROVE  SoundTxOf(v)'
<1>1. TaskOf(v)' = TaskOf(v) /\ UserOf(v)' = UserOf(v)
  BY DEF TaskOf, UserOf
<1>2. CASE pc[v] # "commit"
  BY <1>1, <1>2 DEF SoundTxOf
<1>3. CASE pc[v] = "commit"
  <2>1. balance'[UserOf(v)] = balance[UserOf(v)]
    BY <1>3
  <2>2. Promise!After(TaskOf(v), balance[UserOf(v)])'
          = Promise!After(TaskOf(v), balance[UserOf(v)])
    BY <1>1, <2>1 DEF Promise!After
  <2>3. QED BY <1>1, <2>2 DEF SoundTxOf
<1>4. QED BY <1>2, <1>3

\* The row lock keeps everybody else away from a row that is being written.
LEMMA LockedRow ==
    ASSUME SettlementInv, NEW v \in Workers, pc[v] = "commit",
           \/ \E w \in Workers \ {v} : Commit(w) \/ CommitUnconfirmed(w)
           \/ \E o \in Orders : Recharge(o)
           \/ \E a \in Adjusts : Adjust(a)
    PROVE  balance'[UserOf(v)] = balance[UserOf(v)]
<1>1. TypeOK /\ HeldByOne /\ OpenTx
  BY DEF SettlementInv
<1>2. lock[UserOf(v)] = v /\ UserOf(v) \in Users /\ v # NoWorker
  BY <1>1, JobType, SettlementAssumption DEF OpenTx
<1>3. ASSUME NEW u \in Users \ {UserOf(v)}, NEW m, balance' = [balance EXCEPT ![u] = m]
      PROVE  balance'[UserOf(v)] = balance[UserOf(v)]
  BY <1>1, <1>2, <1>3 DEF TypeOK
<1>4. ASSUME NEW w \in Workers \ {v}, Commit(w) \/ CommitUnconfirmed(w)
      PROVE  balance'[UserOf(v)] = balance[UserOf(v)]
  <2>1. pc[w] = "commit" /\ balance' = [balance EXCEPT ![UserOf(w)] = draft[w].after]
    BY <1>4 DEF Commit, CommitUnconfirmed, Apply
  <2>2. lock[UserOf(w)] = w /\ UserOf(w) \in Users
    BY <1>1, <2>1, JobType DEF OpenTx
  <2>3. QED BY <1>2, <1>3, <2>1, <2>2
<1>5. ASSUME NEW o \in Orders, Recharge(o)
      PROVE  balance'[UserOf(v)] = balance[UserOf(v)]
  <2>1. /\ lock[OrderOwner[o]] = NoWorker
        /\ balance' = [balance EXCEPT ![OrderOwner[o]] =
                          balance[OrderOwner[o]] + OrderAmount[o]]
    BY <1>5 DEF Recharge, Book, Free
  <2>2. OrderOwner[o] \in Users
    BY SettlementAssumption
  <2>3. QED BY <1>2, <1>3, <2>1, <2>2
<1>6. ASSUME NEW a \in Adjusts, Adjust(a)
      PROVE  balance'[UserOf(v)] = balance[UserOf(v)]
  <2>1. /\ lock[AdjustUser[a]] = NoWorker
        /\ balance' = [balance EXCEPT ![AdjustUser[a]] =
                          balance[AdjustUser[a]] + AdjustDelta[a]]
    BY <1>6 DEF Adjust, Book, Free
  <2>2. AdjustUser[a] \in Users
    BY SettlementAssumption
  <2>3. QED BY <1>2, <1>3, <2>1, <2>2
<1>7. QED BY <1>4, <1>5, <1>6

\* Steps of w that move another worker not at all.
LEMMA OtherWorker ==
    ASSUME TypeOK, NEW v \in Workers, NEW w \in Workers \ {v},
           \/ \E d \in Deliveries : Take(w, d)
           \/ HandlerStep(w) \/ Fail(w) \/ CommitUnconfirmed(w) \/ Crash(w)
    PROVE  pc'[v] = pc[v] /\ job'[v] = job[v] /\ draft'[v] = draft[v]
<1>1. /\ \E x : pc' = [pc EXCEPT ![w] = x]
      /\ UNCHANGED job \/ \E x : job' = [job EXCEPT ![w] = x]
      /\ UNCHANGED draft \/ \E x : draft' = [draft EXCEPT ![w] = x]
  BY DEF HandlerStep, Take, Lookup, Debit, Miss, ReadBalance, ZeroOut, Credit,
         Commit, Duplicate, Put, Release, Ack, Fail, CommitUnconfirmed, Crash,
         Reject, EndTx, Goto, rowVars, queueVars
<1>2. QED BY <1>1 DEF TypeOK

\* While u is never short, no step spoils what workers found in u's row.
LEMMA SoundStep ==
    ASSUME SettlementInv, NEW u \in Users, NeverShort(u), SoundTx(u), [Next]_vars
    PROVE  SoundTx(u)'
<1> SUFFICES ASSUME NEW v \in Workers, pc'[v] # "idle", UserOf(v)' = u
             PROVE  SoundTxOf(v)'
  BY DEF SoundTx
<1>1. TypeOK
  BY DEF SettlementInv
<1>2. ASSUME pc'[v] = pc[v], job'[v] = job[v]
      PROVE  SoundTxOf(v)
  <2>1. UserOf(v) = u
    BY <1>2 DEF UserOf, TaskOf
  <2>2. QED BY <1>2, <2>1 DEF SoundTx
<1>3. ASSUME NEW w \in Workers \ {v},
             \/ \E d \in Deliveries : Take(w, d)
             \/ HandlerStep(w) \/ Fail(w) \/ CommitUnconfirmed(w) \/ Crash(w)
      PROVE  SoundTxOf(v)'
  <2>1. pc'[v] = pc[v] /\ job'[v] = job[v] /\ draft'[v] = draft[v]
    BY <1>1, <1>3, OtherWorker
  <2>2. pc[v] = "commit" => balance'[UserOf(v)] = balance[UserOf(v)]
    <3>1. CASE Commit(w) \/ CommitUnconfirmed(w)
      BY <3>1, LockedRow
    <3>2. CASE ~(Commit(w) \/ CommitUnconfirmed(w))
      BY <1>3, <3>2, QuietStep
    <3>3. QED BY <3>1, <3>2
  <2>3. QED BY <1>2, <2>1, <2>2, SoundKeep
<1>4. CASE \/ Lookup(v) \/ Debit(v) \/ Miss(v) \/ ReadBalance(v) \/ ZeroOut(v)
           \/ Credit(v)
  <2>1. pc[v] # "idle" /\ UNCHANGED job
    BY <1>4 DEF Lookup, Debit, Miss, ReadBalance, ZeroOut, Credit
  <2>2. UserOf(v) = u
    BY <2>1 DEF UserOf, TaskOf
  <2>3. pc[v] # "zero" /\ SoundTxOf(v)
    BY <2>1, <2>2 DEF NeverShort, SoundTx
  <2>4. QED BY <1>4, <2>3, SoundOwn
<1>5. CASE \/ \E d \in Deliveries : Take(v, d)
           \/ Commit(v) \/ Duplicate(v) \/ Put(v) \/ Release(v) \/ Ack(v)
           \/ Fail(v) \/ CommitUnconfirmed(v) \/ Crash(v)
  <2>1. pc'[v] \in {"idle", "lookup", "put", "release", "ack"}
    BY <1>1, <1>5 DEF Take, Commit, Duplicate, Put, Release, Ack, Fail,
       CommitUnconfirmed, Crash, Reject, Goto, TypeOK
  <2>2. QED BY <2>1 DEF SoundTxOf
<1>6. CASE \/ \E o \in Orders : Recharge(o)
           \/ \E a \in Adjusts : Adjust(a)
  <2>1. UNCHANGED <<pc, job, draft>>
    BY <1>6 DEF Recharge, Adjust, workerVars
  <2>2. pc[v] = "commit" => balance'[UserOf(v)] = balance[UserOf(v)]
    BY <1>6, LockedRow
  <2>3. QED BY <1>2, <2>1, <2>2, SoundKeep
<1>7. CASE \/ \E d \in Deliveries : Publish(d)
           \/ \E t \in Tasks : ExpireL2(t)
           \/ UNCHANGED vars
  <2>1. UNCHANGED <<pc, job, draft, balance>>
    BY <1>7 DEF Publish, ExpireL2, vars, rowVars, workerVars
  <2>2. QED BY <1>2, <2>1, SoundKeep
<1>8. QED BY <1>3, <1>4, <1>5, <1>6, <1>7 DEF Next, HandlerStep

\* A recharge or an adjustment books no task.
LEMMA BookPosts ==
    ASSUME TypeOK, NEW kind \in {"recharge", "adjust"},
           NEW ref \in Orders \cup Adjusts, NEW u \in Users,
           NEW amount \in Int, balance[u] + amount >= 0,
           Book(kind, ref, u, amount)
    PROVE  \A x \in Tasks : Posted(x)' <=> Posted(x)
<1> DEFINE e == Entry(kind, ref, u, [amount |-> amount, overdraft |-> 0,
                                     after |-> balance[u] + amount])
<1>1. balance[u] \in Nat
  BY DEF TypeOK
<1>2. /\ e \in EntryType /\ e.kind \notin {"settle", "refund"}
      /\ ledger' = Append(ledger, e)
  BY <1>1 DEF Entry, EntryType, Book
<1> HIDE DEF e
<1>3. /\ DOMAIN ledger = 1 .. Len(ledger)
      /\ Len(ledger) \in Nat
      /\ DOMAIN ledger' = 1 .. (Len(ledger) + 1)
      /\ \A i \in 1 .. Len(ledger) : ledger'[i] = ledger[i]
      /\ ledger'[Len(ledger) + 1] = e
  BY <1>2, AppendRow DEF TypeOK
<1>4. ASSUME NEW x \in Tasks PROVE Posted(x)' <=> Posted(x)
  <2>1. x.kind \in {"settle", "refund"}
    BY SettlementAssumption DEF TaskType
  <2>2. QED BY <1>2, <1>3, <2>1 DEF Posted
<1>5. QED BY <1>4

\* What Account makes of a balance, in terms of the booking.
LEMMA AloneAfter ==
    ASSUME NEW u \in Users, NEW b \in BookingsOf(u), NEW m
    PROVE  Alone(u)!After(b, m) =
             IF ~Takes(b) THEN m + Worth(b)
             ELSE IF m >= Worth(b) THEN m - Worth(b) ELSE 0
BY DEF Alone!After

\* A booking of u, as a step of Account.
LEMMA AloneDo ==
    ASSUME TypeOK, NEW u \in Users, NEW b \in BookingsOf(u), b \notin BookedFor(u),
           BookedFor(u)' = BookedFor(u) \cup {b},
           balance' = [balance EXCEPT ![u] = Alone(u)!After(b, balance[u])]
    PROVE  Alone(u)!AccountNext
<1>1. balance'[u] = Alone(u)!After(b, balance[u])
  BY DEF TypeOK
<1>2. [v \in {u} |-> balance'[v]]
        = [[v \in {u} |-> balance[v]] EXCEPT ![u] = Alone(u)!After(b, @)]
  BY <1>1
<1>3. [x \in BookingsOf(u) |-> u][b] = u
  OBVIOUS
<1>4. Alone(u)!Do(b)
  BY <1>2, <1>3 DEF Alone!Do
<1>5. QED BY <1>4 DEF Alone!AccountNext

\* A commit books a task of the worker's user: of u,
LEMMA AloneCommit ==
    ASSUME SettlementInv, NEW u \in Users, SoundTx(u), NEW w \in Workers,
           UserOf(w) = u, Commit(w) \/ CommitUnconfirmed(w)
    PROVE  Alone(u)!AccountNext
<1> DEFINE t == TaskOf(w)
           b == [by |-> "task", of |-> t]
<1>1. TypeOK /\ HeldByOne
  BY DEF SettlementInv
<1>2. /\ pc[w] = "commit" /\ ~Posted(t) /\ Apply(w)
      /\ UNCHANGED <<paid, adjusted>>
  BY DEF Commit, CommitUnconfirmed, sideVars
<1>3. t \in Tasks /\ t.kind \in {"settle", "refund"} /\ Charge[t] \in Nat
  BY <1>1, <1>2, JobType
<1>4. Charge[t] > 0 /\ draft[w].after = Promise!After(t, balance[u])
  BY <1>2 DEF SoundTx, SoundTxOf
<1>5. t \in Chargeable /\ Owner[t.req] = u
  BY <1>3, <1>4 DEF Chargeable, UserOf
<1>6. b \in BookingsOf(u)
  BY <1>5 DEF BookingsOf
<1>7. balance[u] \in Nat
  BY <1>1 DEF TypeOK
<1>8. draft[w].after = Alone(u)!After(b, balance[u])
  <2>1. /\ Worth(b) = Charge[t]
        /\ Takes(b) <=> t.kind = "settle"
    BY DEF Worth, Takes
  <2>2. QED BY <1>3, <1>4, <1>6, <1>7, <2>1, AloneAfter, AfterTask
<1>9. \A x \in Tasks : Posted(x)' <=> Posted(x) \/ x = t
  BY <1>2, CommitPosts
<1>10. b \notin BookedFor(u)
  BY <1>2 DEF BookedFor
<1> HIDE DEF t
<1>11. BookedFor(u)' = BookedFor(u) \cup {b}
  <2>1. BookingsOf(u)' = BookingsOf(u)
    BY DEF BookingsOf, Chargeable
  <2>2. ASSUME NEW c \in BookingsOf(u)
        PROVE  c \in BookedFor(u)' <=> c \in BookedFor(u) \/ c = b
    <3>1. CASE c.by = "task"
      <4>1. c.of \in Tasks /\ (c = b <=> c.of = t)
        BY <3>1 DEF BookingsOf, Chargeable
      <4>2. QED BY <1>9, <2>1, <2>2, <3>1, <4>1 DEF BookedFor
    <3>2. CASE c.by # "task"
      BY <1>2, <2>1, <2>2, <3>2 DEF BookedFor
    <3>3. QED BY <3>1, <3>2
  <2>3. BookedFor(u)' \subseteq BookingsOf(u) /\ BookedFor(u) \subseteq BookingsOf(u)
    BY <2>1 DEF BookedFor
  <2>4. QED BY <1>6, <2>2, <2>3
<1>12. balance' = [balance EXCEPT ![u] = Alone(u)!After(b, balance[u])]
  BY <1>2, <1>8 DEF Apply
<1> HIDE DEF b
<1>13. QED BY <1>1, <1>6, <1>10, <1>11, <1>12, AloneDo

\* or of somebody else.
LEMMA AloneOther ==
    ASSUME SettlementInv, NEW u \in Users, NEW w \in Workers,
           UserOf(w) # u, Commit(w) \/ CommitUnconfirmed(w)
    PROVE  balance'[u] = balance[u] /\ BookedFor(u)' = BookedFor(u)
<1>1. TypeOK /\ HeldByOne
  BY DEF SettlementInv
<1>2. pc[w] = "commit" /\ Apply(w) /\ UNCHANGED <<paid, adjusted>>
  BY DEF Commit, CommitUnconfirmed, sideVars
<1>3. \A x \in Tasks : Posted(x)' <=> Posted(x) \/ x = TaskOf(w)
  BY <1>2, CommitPosts
<1>4. \A x \in Tasks : Owner[x.req] = u => (Posted(x)' <=> Posted(x))
  BY <1>3 DEF UserOf
<1>5. UserOf(w) \in Users
  BY <1>1, <1>2, JobType
<1>6. balance'[u] = balance[u]
  BY <1>1, <1>2, <1>5 DEF Apply, TypeOK
<1>7. BookingsOf(u)' = BookingsOf(u)
  BY DEF BookingsOf, Chargeable
<1>8. ASSUME NEW c \in BookingsOf(u)
      PROVE  c \in BookedFor(u)' <=> c \in BookedFor(u)
  <2>1. c.by = "task" => c.of \in Tasks /\ Owner[c.of.req] = u
    BY DEF BookingsOf, Chargeable
  <2>2. QED BY <1>2, <1>4, <1>7, <1>8, <2>1 DEF BookedFor
<1>9. BookedFor(u)' \subseteq BookingsOf(u) /\ BookedFor(u) \subseteq BookingsOf(u)
  BY <1>7 DEF BookedFor
<1>10. QED BY <1>6, <1>8, <1>9

\* A recharge or an adjustment b of x is booked for x, and for nobody else.
LEMMA AloneBook ==
    ASSUME TypeOK, NEW u \in Users, NEW b, NEW x \in Users,
           NEW kind \in {"recharge", "adjust"}, NEW ref \in Orders \cup Adjusts,
           NEW amount \in Int, balance[x] + amount >= 0, Book(kind, ref, x, amount),
           b = [by |-> IF kind = "recharge" THEN "order" ELSE "adjust", of |-> ref],
           b \in BookingsOf(x), b \notin BookedFor(x),
           IF kind = "recharge" THEN paid' = paid \cup {ref} /\ UNCHANGED adjusted
                                ELSE adjusted' = adjusted \cup {ref} /\ UNCHANGED paid,
           amount = IF Takes(b) THEN -Worth(b) ELSE Worth(b)
    PROVE  [Alone(u)!AccountNext]_<<[v \in {u} |-> balance[v]], BookedFor(u)>>
<1>1. \A y \in Tasks : Posted(y)' <=> Posted(y)
  BY BookPosts
<1>2. BookingsOf(u)' = BookingsOf(u) /\ BookingsOf(x)' = BookingsOf(x)
  BY DEF BookingsOf, Chargeable
<1>3. ASSUME NEW c \in BookingsOf(u)
      PROVE  c \in BookedFor(u)' <=> c \in BookedFor(u) \/ c = b
  <2>1. c.by \in {"task", "order", "adjust"} /\ (c.by = "task" => c.of \in Tasks)
    BY DEF BookingsOf, Chargeable
  <2>2. c = [by |-> c.by, of |-> c.of]
    BY DEF BookingsOf
  <2>3. c = b <=> c.by = b.by /\ c.of = b.of
    BY <2>2
  <2>4. CASE c.by = "task"
    BY <1>1, <1>2, <1>3, <2>1, <2>3, <2>4 DEF BookedFor
  <2>5. CASE c.by = "order"
    BY <1>2, <1>3, <2>3, <2>5 DEF BookedFor
  <2>6. CASE c.by = "adjust"
    BY <1>2, <1>3, <2>3, <2>6 DEF BookedFor
  <2>7. QED BY <2>1, <2>4, <2>5, <2>6
<1>4. BookedFor(u)' \subseteq BookingsOf(u) /\ BookedFor(u) \subseteq BookingsOf(u)
  BY <1>2 DEF BookedFor
<1>5. balance' = [balance EXCEPT ![x] = balance[x] + amount] /\ balance[x] \in Nat
  BY DEF Book, TypeOK
<1>6. CASE x = u
  <2>1. BookedFor(u)' = BookedFor(u) \cup {b}
    BY <1>3, <1>4, <1>6
  <2>2. balance[u] + amount = Alone(u)!After(b, balance[u])
    <3>1. Worth(b) \in Int
      BY SettlementAssumption DEF Worth, BookingsOf, Chargeable
    <3>2. QED BY <1>5, <1>6, <3>1, AloneAfter
  <2>3. balance' = [balance EXCEPT ![u] = Alone(u)!After(b, balance[u])]
    BY <1>5, <1>6, <2>2
  <2>4. QED BY <1>6, <2>1, <2>3, AloneDo
<1>7. CASE x # u
  <2>1. b \notin BookingsOf(u)
    BY <1>7 DEF BookingsOf
  <2>2. BookedFor(u)' = BookedFor(u)
    BY <1>3, <1>4, <2>1
  <2>3. balance'[u] = balance[u]
    BY <1>5, <1>7 DEF TypeOK
  <2>4. QED BY <2>2, <2>3
<1>8. QED BY <1>6, <1>7

\* Every step books for u what Account books, or nothing.
LEMMA AloneStep ==
    ASSUME SettlementInv, NEW u \in Users, SoundTx(u), [Next]_vars
    PROVE  [Alone(u)!AccountNext]_<<[v \in {u} |-> balance[v]], BookedFor(u)>>
<1> DEFINE Goal == [Alone(u)!AccountNext]_<<[v \in {u} |-> balance[v]], BookedFor(u)>>
<1>1. TypeOK
  BY DEF SettlementInv
<1>2. ASSUME NEW w \in Workers, Commit(w) \/ CommitUnconfirmed(w)
      PROVE  Goal
  <2>1. CASE UserOf(w) = u
    BY <1>2, <2>1, AloneCommit
  <2>2. CASE UserOf(w) # u
    BY <1>2, <2>2, AloneOther
  <2>3. QED BY <2>1, <2>2
<1>3. ASSUME NEW o \in Orders, Recharge(o)
      PROVE  Goal
  <2> DEFINE x == OrderOwner[o]
             b == [by |-> "order", of |-> o]
  <2>1. /\ x \in Users /\ OrderAmount[o] \in Nat /\ balance[x] \in Nat
        /\ b \in BookingsOf(x)
    BY <1>1, SettlementAssumption DEF BookingsOf, TypeOK
  <2>2. /\ o \notin paid /\ paid' = paid \cup {o} /\ UNCHANGED adjusted
        /\ Book("recharge", o, x, OrderAmount[o])
    BY <1>3 DEF Recharge
  <2>3. b \notin BookedFor(x)
    BY <2>2 DEF BookedFor
  <2>4. ~Takes(b) /\ Worth(b) = OrderAmount[o]
    BY DEF Takes, Worth
  <2>5. balance[x] + OrderAmount[o] >= 0
    BY <2>1
  <2> HIDE DEF b, x
  <2>6. b = [by |-> IF "recharge" = "recharge" THEN "order" ELSE "adjust", of |-> o]
    BY DEF b
  <2>7. QED BY <1>1, <2>1, <2>2, <2>3, <2>4, <2>5, <2>6, AloneBook
<1>4. ASSUME NEW a \in Adjusts, Adjust(a)
      PROVE  Goal
  <2> DEFINE x == AdjustUser[a]
             b == [by |-> "adjust", of |-> a]
  <2>1. x \in Users /\ AdjustDelta[a] \in Int /\ b \in BookingsOf(x)
    BY SettlementAssumption DEF BookingsOf
  <2>2. /\ a \notin adjusted /\ adjusted' = adjusted \cup {a} /\ UNCHANGED paid
        /\ Book("adjust", a, x, AdjustDelta[a]) /\ balance[x] + AdjustDelta[a] >= 0
    BY <1>4 DEF Adjust
  <2>3. b \notin BookedFor(x)
    BY <2>2 DEF BookedFor
  <2>4. AdjustDelta[a] = IF Takes(b) THEN -Worth(b) ELSE Worth(b)
    BY <2>1 DEF Takes, Worth
  <2> HIDE DEF b, x
  <2>6. b = [by |-> IF "adjust" = "recharge" THEN "order" ELSE "adjust", of |-> a]
    BY DEF b
  <2>7. QED BY <1>1, <2>1, <2>2, <2>3, <2>4, <2>6, AloneBook
<1>5. ASSUME NEW w \in Workers,
             \/ \E d \in Deliveries : Take(w, d)
             \/ HandlerStep(w) /\ ~Commit(w)
             \/ Fail(w) \/ Crash(w)
      PROVE  UNCHANGED <<balance, ledger, paid, adjusted>>
  <2>1. UNCHANGED <<paid, adjusted>>
    BY <1>5 DEF HandlerStep, Take, Lookup, Debit, Miss, ReadBalance, ZeroOut,
       Credit, Duplicate, Put, Release, Ack, Fail, Crash, sideVars
  <2>2. QED BY <1>5, <2>1, QuietStep
<1>6. ASSUME \/ \E d \in Deliveries : Publish(d)
             \/ \E t \in Tasks : ExpireL2(t)
             \/ UNCHANGED vars
      PROVE  UNCHANGED <<balance, ledger, paid, adjusted>>
  BY <1>6 DEF Publish, ExpireL2, vars, rowVars, sideVars
<1>7. ASSUME UNCHANGED <<balance, ledger, paid, adjusted>>
      PROVE  Goal
  <2>1. BookedFor(u)' = BookedFor(u)
    BY <1>7 DEF BookedFor, BookingsOf, Chargeable, Posted
  <2>2. QED BY <1>7, <2>1
<1> HIDE DEF Goal
<1> SUFFICES Goal
  BY DEF Goal
<1>8. CASE \E w \in Workers : \/ \E d \in Deliveries : Take(w, d)
                             \/ HandlerStep(w) \/ Fail(w)
                             \/ CommitUnconfirmed(w) \/ Crash(w)
  BY <1>2, <1>5, <1>7, <1>8
<1>9. QED BY <1>3, <1>4, <1>6, <1>7, <1>8 DEF Next

\* At the start nothing is booked for u.
LEMMA AloneInit ==
    ASSUME NEW u \in Users, Init
    PROVE  SoundTx(u) /\ Alone(u)!AccountInit
<1>1. SoundTx(u)
  BY DEF Init, SoundTx
<1>2. BookedFor(u) = {}
  BY DEF Init, BookedFor, Posted
<1>3. QED BY <1>1, <1>2 DEF Init, Alone!AccountInit

\* Refinement without turns: a user whose settlements find the balance they
\* need is booked every settlement, refund, recharge and adjustment exactly
\* once and for its amount, however many workers handle the messages at a time
\* and whatever the overdrafts of other users.
THEOREM SolventUserImplementsAccount ==
    ASSUME NEW u \in Users
    PROVE  Spec /\ []NeverShort(u) => Alone(u)!AccountSpec
<1>1. SettlementInv /\ NeverShort(u) /\ SoundTx(u) /\ [Next]_vars => SoundTx(u)'
  BY SoundStep
<1>2. SettlementInv /\ SoundTx(u) /\ [Next]_vars
        => [Alone(u)!AccountNext]_<<[v \in {u} |-> balance[v]], BookedFor(u)>>
  BY AloneStep
<1>3. Init => SoundTx(u) /\ Alone(u)!AccountInit
  BY AloneInit
<1>4. QED
  BY <1>1, <1>2, <1>3, SettlementInvariant, PTL DEF Spec, Alone!AccountSpec

-----------------------------------------------------------------------------
(* The usage log, the daily statistics and the reconciliation.             *)

USE DEF queues, tables, notes

\* The days there are.
LEMMA DaysTyped == /\ Days \subseteq Nat /\ 0 \in Days
                   /\ \A d \in Days : d < MaxDay => d + 1 \in Days
BY UsageAssumption DEF Days

\* A worker without a task, typed.
LEMMA IdleTyped == Idle \in Jobs
BY DaysTyped DEF Idle, Jobs

\* The invariant of Usage holds initially.
LEMMA UsageInitInv == UsageInit => UsageTypeOK /\ OnceInv /\ DayInv /\ AlarmInv
<1> SUFFICES ASSUME UsageInit PROVE UsageTypeOK /\ OnceInv /\ DayInv /\ AlarmInv
  OBVIOUS
<1>1. UsageTypeOK
  BY DaysTyped, IdleTyped, FS_EmptySet DEF UsageInit, UsageTypeOK, Idle
<1>2. OnceInv
  BY DEF UsageInit, OnceInv, RowsOf, Elsewhere, At, Idle
<1>3. DayInv
  BY DaysTyped DEF UsageInit, DayInv, OnDay, Idle, Reading
<1>4. AlarmInv
  BY DEF UsageInit, AlarmInv, AlarmHasCause
<1>5. QED BY <1>1, <1>2, <1>3, <1>4

\* What one worker does next, typed.
LEMMA DoTyped ==
    ASSUME UsageTypeOK, NEW w \in Consumers, NEW j \in Jobs, Do(w, j),
           j.pc \in {"insert", "record"} => j.call \in Calls
    PROVE  /\ doing' \in [Consumers -> Jobs]
           /\ \A v \in Consumers :
                 doing'[v].pc \in {"insert", "record"} => doing'[v].call \in Calls
BY DEF UsageTypeOK, Do

\* Every step keeps the types.
LEMMA UsageTypeStep ==
    ASSUME UsageTypeOK, [UsageNext]_usageVars
    PROVE  UsageTypeOK'
<1>1. CASE Midnight
  BY <1>1, DaysTyped DEF Midnight, UsageTypeOK
<1>2. ASSUME NEW c \in Calls, CreateLedger(c) PROVE UsageTypeOK'
  <2>1. PICK amount \in {Cost[c]} \cup Balances :
            open' = open \cup {[call |-> c, day |-> today, amount |-> amount]}
    BY <1>2 DEF CreateLedger
  <2>2. amount \in Nat
    BY UsageAssumption
  <2>3. open' \subseteq Bookings
    BY <2>1, <2>2 DEF UsageTypeOK, Bookings
  <2>4. QED BY <1>2, <2>3 DEF CreateLedger, UsageTypeOK
<1>20. ASSUME NEW row \in open, CommitSettle(row) PROVE UsageTypeOK'
  <2>1. /\ open' \subseteq Bookings /\ booked' \subseteq Bookings
        /\ booked' = booked \cup {row}
    BY <1>20 DEF CommitSettle, UsageTypeOK
  <2>2. IsFiniteSet(booked')
    BY <2>1, FS_AddElement DEF UsageTypeOK
  <2>3. QED BY <1>20, <2>1, <2>2 DEF CommitSettle, UsageTypeOK
<1>21. ASSUME NEW row \in open, RollBackSettle(row) PROVE UsageTypeOK'
  <2>1. row.call \in Calls /\ open' \subseteq Bookings
    BY <1>21 DEF RollBackSettle, UsageTypeOK, Bookings
  <2>2. QED BY <1>21, <2>1 DEF RollBackSettle, UsageTypeOK
<1>3. ASSUME NEW w \in Consumers, NEW c \in Calls,
             KnownAlready(w, c) \/ StampUsageLog(w, c)
      PROVE  UsageTypeOK'
  <2>1. CASE KnownAlready(w, c)
    BY <2>1 DEF KnownAlready, UsageTypeOK
  <2>2. CASE StampUsageLog(w, c)
    <3> DEFINE j == [Idle EXCEPT !.pc = "insert", !.call = c, !.day = today]
    <3>1. j \in Jobs /\ j.call \in Calls
      BY IdleTyped DEF UsageTypeOK, Jobs
    <3>2. Do(w, j) /\ odd' \subseteq Calls
      BY <2>2 DEF StampUsageLog, UsageTypeOK
    <3> HIDE DEF j
    <3>3. QED BY <2>2, <3>1, <3>2, DoTyped DEF StampUsageLog, UsageTypeOK
  <2>3. QED BY <1>3, <2>1, <2>2
<1>4. ASSUME NEW w \in Consumers, InsertUsageLog(w) PROVE UsageTypeOK'
  <2> DEFINE c == doing[w].call
             new == [call |-> c, day |-> doing[w].day,
                     no |-> Cardinality({row \in logs : row.call = c})]
             j == [doing[w] EXCEPT !.pc = "record"]
  <2>1. c \in Calls /\ doing[w] \in Jobs
    BY <1>4 DEF InsertUsageLog, At, UsageTypeOK
  <2>2. Cardinality({row \in logs : row.call = c}) \in Nat
    BY FS_Subset, FS_CardinalityType DEF UsageTypeOK
  <2>3. new \in Logs
    BY <2>1, <2>2 DEF Logs, Jobs
  <2>4. logs' = logs \cup {new} /\ late' \subseteq late \cup {new}
    BY <1>4 DEF InsertUsageLog
  <2>5. IsFiniteSet(logs \cup {new})
    BY FS_AddElement DEF UsageTypeOK
  <2>6. j \in Jobs /\ j.call \in Calls /\ Do(w, j)
    BY <1>4, <2>1 DEF InsertUsageLog, Jobs
  <2> HIDE DEF new, j
  <2>7. logs' \subseteq Logs /\ IsFiniteSet(logs') /\ late' \subseteq Logs
    BY <2>3, <2>4, <2>5 DEF UsageTypeOK
  <2>8. QED BY <1>4, <2>6, <2>7, DoTyped DEF InsertUsageLog, UsageTypeOK
<1>5. ASSUME NEW w \in Consumers, PutIdempotency(w) PROVE UsageTypeOK'
  <2>1. Do(w, Idle) /\ Idle.pc = "idle"
    BY <1>5 DEF PutIdempotency, Idle
  <2>2. record' \in [Calls -> Days \cup {Never}]
    BY <1>5 DEF PutIdempotency, UsageTypeOK
  <2>3. QED BY <1>5, <2>1, <2>2, IdleTyped, DoTyped DEF PutIdempotency, UsageTypeOK
<1>6. ASSUME NEW w \in Consumers, FailUsageWrite(w) PROVE UsageTypeOK'
  <2>1. Do(w, Idle) /\ Idle.pc = "idle"
    BY <1>6 DEF FailUsageWrite, Idle
  <2>2. odd' \subseteq Calls
    BY <1>6 DEF FailUsageWrite, UsageTypeOK
  <2>3. QED BY <1>6, <2>1, <2>2, IdleTyped, DoTyped DEF FailUsageWrite, UsageTypeOK
<1>7. ASSUME NEW w \in Consumers, ReadUsageRows(w) \/ SumUsage(w) PROVE UsageTypeOK'
  <2>1. PICK label \in {"delete", "ledger"} :
            Do(w, [Idle EXCEPT !.pc = label, !.day = Yesterday,
                               !.seen = OnDay(logs, Yesterday)])
    BY <1>7 DEF ReadUsageRows, SumUsage
  <2> DEFINE j == [Idle EXCEPT !.pc = label, !.day = Yesterday,
                               !.seen = OnDay(logs, Yesterday)]
  <2>2. Yesterday \in Days
    BY <1>7, UsageAssumption DEF ReadUsageRows, SumUsage, Yesterday, UsageTypeOK, Days
  <2>3. OnDay(logs, Yesterday) \subseteq Logs
    BY DEF OnDay, UsageTypeOK
  <2>4. j \in Jobs /\ j.pc \notin {"insert", "record"}
    BY <2>2, <2>3, IdleTyped DEF Jobs, Reading
  <2> HIDE DEF j
  <2>5. Do(w, j)
    BY <2>1 DEF j
  <2>6. QED BY <1>7, <2>4, <2>5, DoTyped DEF ReadUsageRows, SumUsage, UsageTypeOK
<1>8. ASSUME NEW w \in Consumers, DeleteStats(w) PROVE UsageTypeOK'
  <2> DEFINE j == [doing[w] EXCEPT !.pc = "write"]
  <2>1. j \in Jobs /\ j.pc \notin {"insert", "record"} /\ Do(w, j)
    BY <1>8 DEF DeleteStats, UsageTypeOK, Jobs, Reading
  <2> HIDE DEF j
  <2>2. QED BY <1>8, <2>1, DoTyped DEF DeleteStats, UsageTypeOK
<1>9. ASSUME NEW w \in Consumers, WriteStats(w) PROVE UsageTypeOK'
  <2>1. /\ doing[w].day \in Days /\ doing[w].seen \subseteq Logs
    BY DEF UsageTypeOK, Jobs
  <2>2. stats' \in [Days -> SUBSET Logs] /\ summed' \subseteq Days
    BY <1>9, <2>1 DEF WriteStats, UsageTypeOK
  <2>3. PICK rivals \in SUBSET Consumers :
            doing' = [v \in Consumers |-> IF v = w THEN Idle
                        ELSE [doing[v] EXCEPT !.crossed = @ \/ v \in rivals]]
    BY <1>9 DEF WriteStats
  <2>4. ASSUME NEW v \in Consumers
        PROVE  /\ doing'[v] \in Jobs
               /\ doing'[v].pc \in {"insert", "record"} => doing'[v].call \in Calls
    <3>1. CASE v = w
      BY <2>3, <3>1, IdleTyped DEF Idle
    <3>2. CASE v # w
      <4>1. doing[v] \in Jobs
        BY DEF UsageTypeOK
      <4>2. (doing[v].crossed \/ v \in rivals) \in BOOLEAN
        OBVIOUS
      <4> DEFINE b == doing[v].crossed \/ v \in rivals
      <4>3. doing'[v] = [doing[v] EXCEPT !.crossed = b]
        BY <2>3, <3>2
      <4>4. b \in BOOLEAN
        OBVIOUS
      <4> HIDE DEF b
      <4>5. QED BY <4>1, <4>3, <4>4 DEF Jobs, UsageTypeOK
    <3>3. QED BY <3>1, <3>2
  <2>5. doing' \in [Consumers -> Jobs]
    <3>1. DOMAIN doing' = Consumers /\ doing' = [v \in Consumers |-> doing'[v]]
      BY <2>3
    <3>2. QED BY <2>4, <3>1
  <2>6. QED BY <1>9, <2>2, <2>4, <2>5 DEF WriteStats, UsageTypeOK
<1>10. ASSUME NEW w \in Consumers, HandleReconcile(w) \/ FailPeriodic(w)
       PROVE  UsageTypeOK'
  <2>1. Do(w, Idle) /\ Idle.pc = "idle"
    BY <1>10 DEF HandleReconcile, FailPeriodic, Idle
  <2>2. alarm' \subseteq Days
    BY <1>10 DEF HandleReconcile, FailPeriodic, UsageTypeOK, Jobs
  <2>3. QED
    BY <1>10, <2>1, <2>2, IdleTyped, DoTyped DEF HandleReconcile, FailPeriodic, UsageTypeOK
<1>11. CASE UNCHANGED usageVars
  BY <1>11 DEF usageVars, UsageTypeOK
<1>12. QED
  BY <1>1, <1>2, <1>20, <1>21, <1>3, <1>4, <1>5, <1>6, <1>7, <1>8, <1>9, <1>10, <1>11
     DEF UsageNext

\* Nothing happens to a call whose rows and record stay, which nobody takes up
\* and nobody lays down.
LEMMA OnceStill ==
    ASSUME UsageTypeOK, OnceInv, logs' = logs, record' = record, odd \subseteq odd',
           \A v \in Consumers :
               /\ doing'[v].pc = doing[v].pc
                     \/ {doing[v].pc, doing'[v].pc} \cap {"insert", "record"} = {}
               /\ doing[v].pc \in {"insert", "record"} => doing'[v].call = doing[v].call
    PROVE  OnceInv'
<1> SUFFICES ASSUME NEW c \in Calls, c \notin odd'
             PROVE  /\ \A v, w \in Elsewhere(c)' : v = w
                    /\ \A w \in Consumers : At(w, "insert")' /\ doing'[w].call = c
                                               => RowsOf(c)' = {}
                    /\ RowsOf(c)' # {} => record'[c] # Never \/ Elsewhere(c)' # {}
                    /\ \A row, other \in RowsOf(c)' : row = other
  BY DEF OnceInv
<1>1. c \notin odd /\ RowsOf(c)' = RowsOf(c)
  BY DEF RowsOf
<1>2. Elsewhere(c)' = Elsewhere(c)
  BY DEF Elsewhere
<1>3. \A w \in Consumers : At(w, "insert")' /\ doing'[w].call = c
                              => At(w, "insert") /\ doing[w].call = c
  BY DEF At
<1>4. QED BY <1>1, <1>2, <1>3 DEF OnceInv

\* Every step keeps OnceInv.
LEMMA OnceStep ==
    ASSUME UsageTypeOK, OnceInv, [UsageNext]_usageVars
    PROVE  OnceInv'
<1>1. CASE \/ Midnight \/ (\E c \in Calls : CreateLedger(c))
           \/ (\E row \in open : CommitSettle(row) \/ RollBackSettle(row))
           \/ (\E w \in Consumers, c \in Calls : KnownAlready(w, c))
           \/ UNCHANGED usageVars
  BY <1>1, OnceStill DEF Midnight, CreateLedger, CommitSettle, RollBackSettle,
     KnownAlready, usageVars
<1>2. ASSUME NEW w \in Consumers, NEW c \in Calls, StampUsageLog(w, c)
      PROVE  OnceInv'
  <2>1. doing' = [doing EXCEPT ![w] =
                    [Idle EXCEPT !.pc = "insert", !.call = c, !.day = today]]
    BY <1>2 DEF StampUsageLog, Do
  <2>2. doing'[w].pc = "insert" /\ doing'[w].call = c
    BY <2>1 DEF UsageTypeOK, Idle
  <2>3. \A v \in Consumers \ {w} : doing'[v] = doing[v]
    BY <2>1 DEF UsageTypeOK
  <2>4. doing[w].pc = "idle" /\ logs' = logs /\ record' = record /\ odd \subseteq odd'
    BY <1>2 DEF StampUsageLog, At
  <2>5. ASSUME NEW d \in Calls, d \notin odd'
        PROVE  /\ \A u, v \in Elsewhere(d)' : u = v
               /\ \A v \in Consumers : At(v, "insert")' /\ doing'[v].call = d
                                          => RowsOf(d)' = {}
               /\ RowsOf(d)' # {} => record'[d] # Never \/ Elsewhere(d)' # {}
               /\ \A row, other \in RowsOf(d)' : row = other
    <3>1. RowsOf(d)' = RowsOf(d) /\ d \notin odd
      BY <2>4, <2>5 DEF RowsOf
    <3>2. CASE d # c
      <4>1. Elsewhere(d)' = Elsewhere(d)
        BY <2>2, <2>3, <2>4, <3>2 DEF Elsewhere
      <4>2. \A v \in Consumers : At(v, "insert")' /\ doing'[v].call = d
                                    => At(v, "insert") /\ doing[v].call = d
        BY <2>2, <2>3, <3>2 DEF At
      <4>3. QED BY <2>4, <3>1, <4>1, <4>2 DEF OnceInv
    <3>3. CASE d = c
      <4>1. record[c] = Never /\ Elsewhere(c) = {}
        BY <1>2, <2>5, <3>3 DEF StampUsageLog, NotKnown
      <4>2. RowsOf(c) = {}
        BY <3>1, <3>3, <4>1 DEF OnceInv
      <4>3. Elsewhere(c)' \subseteq {w}
        BY <2>3, <4>1 DEF Elsewhere
      <4>4. QED BY <3>1, <3>3, <4>2, <4>3
    <3>4. QED BY <3>2, <3>3
  <2>6. QED BY <2>5 DEF OnceInv
<1>3. ASSUME NEW w \in Consumers, InsertUsageLog(w) PROVE OnceInv'
  <2> DEFINE c == doing[w].call
  <2>1. PICK new : new.call = c /\ logs' = logs \cup {new}
    BY <1>3 DEF InsertUsageLog
  <2>2. doing' = [doing EXCEPT ![w].pc = "record"] /\ doing[w].pc = "insert"
    BY <1>3 DEF InsertUsageLog, Do, At, UsageTypeOK
  <2>3. doing'[w].pc = "record" /\ doing'[w].call = c
    BY <2>2 DEF UsageTypeOK, Jobs
  <2>4. \A v \in Consumers \ {w} : doing'[v] = doing[v]
    BY <2>2 DEF UsageTypeOK
  <2>5. record' = record /\ odd' = odd
    BY <1>3 DEF InsertUsageLog
  <2>6. ASSUME NEW d \in Calls, d \notin odd'
        PROVE  /\ \A u, v \in Elsewhere(d)' : u = v
               /\ \A v \in Consumers : At(v, "insert")' /\ doing'[v].call = d
                                          => RowsOf(d)' = {}
               /\ RowsOf(d)' # {} => record'[d] # Never \/ Elsewhere(d)' # {}
               /\ \A row, other \in RowsOf(d)' : row = other
    <3>1. Elsewhere(d)' = Elsewhere(d)
      BY <2>2, <2>3, <2>4 DEF Elsewhere
    <3>2. CASE d # c
      <4>1. RowsOf(d)' = RowsOf(d)
        BY <2>1, <3>2 DEF RowsOf
      <4>2. \A v \in Consumers : At(v, "insert")' /\ doing'[v].call = d
                                    => At(v, "insert") /\ doing[v].call = d
        BY <2>3, <2>4 DEF At
      <4>3. QED BY <2>5, <2>6, <3>1, <4>1, <4>2 DEF OnceInv
    <3>3. CASE d = c
      <4>1. w \in Elsewhere(d) /\ \A v \in Elsewhere(d) : v = w
        BY <2>2, <2>5, <2>6, <3>3 DEF OnceInv, Elsewhere
      <4>2. RowsOf(d) = {}
        BY <2>2, <2>5, <2>6, <3>3 DEF OnceInv, At
      <4>3. RowsOf(d)' = {new}
        BY <2>1, <3>3, <4>2 DEF RowsOf
      <4>4. ASSUME NEW v \in Consumers, At(v, "insert")', doing'[v].call = d
            PROVE  FALSE
        <5>1. v # w /\ v \in Elsewhere(d)
          BY <2>3, <2>4, <4>4 DEF At, Elsewhere
        <5>2. QED BY <4>1, <5>1
      <4>5. QED BY <3>1, <4>1, <4>3, <4>4
    <3>4. QED BY <3>2, <3>3
  <2>7. QED BY <2>6 DEF OnceInv
<1>4. ASSUME NEW w \in Consumers, PutIdempotency(w) \/ FailUsageWrite(w)
      PROVE  OnceInv'
  <2> DEFINE c == doing[w].call
  <2>1. doing' = [doing EXCEPT ![w] = Idle] /\ logs' = logs /\ odd \subseteq odd'
    BY <1>4 DEF PutIdempotency, FailUsageWrite, Do
  <2>2. doing'[w].pc = "idle"
    BY <2>1 DEF UsageTypeOK, Idle
  <2>3. \A v \in Consumers \ {w} : doing'[v] = doing[v]
    BY <2>1 DEF UsageTypeOK
  <2>4. doing[w].pc \in {"insert", "record"} /\ c \in Calls
    BY <1>4 DEF PutIdempotency, FailUsageWrite, At, UsageTypeOK
  <2>5. \A d \in Calls : record[d] # Never => record'[d] # Never
    BY <1>4, DaysTyped DEF PutIdempotency, FailUsageWrite, UsageTypeOK, Never
  <2>6. c \in odd' \/ RowsOf(c) = {} \/ record'[c] # Never
    <3>1. CASE PutIdempotency(w)
      BY <2>4, <3>1, DaysTyped DEF PutIdempotency, UsageTypeOK, Never
    <3>2. CASE FailUsageWrite(w)
      <4>1. doing[w].pc = "record" => c \in odd'
        BY <3>2 DEF FailUsageWrite, At
      <4>2. doing[w].pc = "insert" /\ c \notin odd => RowsOf(c) = {}
        BY <2>4 DEF OnceInv, At
      <4>3. QED BY <2>1, <2>4, <4>1, <4>2
    <3>3. QED BY <1>4, <3>1, <3>2
  <2>7. ASSUME NEW d \in Calls, d \notin odd'
        PROVE  /\ \A u, v \in Elsewhere(d)' : u = v
               /\ \A v \in Consumers : At(v, "insert")' /\ doing'[v].call = d
                                          => RowsOf(d)' = {}
               /\ RowsOf(d)' # {} => record'[d] # Never \/ Elsewhere(d)' # {}
               /\ \A row, other \in RowsOf(d)' : row = other
    <3>1. RowsOf(d)' = RowsOf(d) /\ d \notin odd
      BY <2>1, <2>7 DEF RowsOf
    <3>2. Elsewhere(d)' \subseteq Elsewhere(d) /\ (d # c => Elsewhere(d)' = Elsewhere(d))
      BY <2>2, <2>3 DEF Elsewhere
    <3>3. \A v \in Consumers : At(v, "insert")' /\ doing'[v].call = d
                                  => At(v, "insert") /\ doing[v].call = d
      BY <2>2, <2>3 DEF At
    <3>4. RowsOf(d) # {} => record'[d] # Never \/ Elsewhere(d)' # {}
      BY <2>5, <2>6, <2>7, <3>1, <3>2 DEF OnceInv
    <3>5. QED BY <3>1, <3>2, <3>3, <3>4 DEF OnceInv
  <2>8. QED BY <2>7 DEF OnceInv
<1>5. ASSUME NEW w \in Consumers,
             \/ ReadUsageRows(w) \/ DeleteStats(w) \/ SumUsage(w)
             \/ HandleReconcile(w) \/ FailPeriodic(w)
      PROVE  OnceInv'
  <2>1. PICK j : doing' = [doing EXCEPT ![w] = j] /\ j.pc \notin {"insert", "record"}
    <3>1. CASE ReadUsageRows(w) \/ SumUsage(w)
      <4>1. PICK label \in {"delete", "ledger"} :
                Do(w, [Idle EXCEPT !.pc = label, !.day = Yesterday,
                                   !.seen = OnDay(logs, Yesterday)])
        BY <3>1 DEF ReadUsageRows, SumUsage
      <4> DEFINE k == [Idle EXCEPT !.pc = label, !.day = Yesterday,
                                   !.seen = OnDay(logs, Yesterday)]
      <4>2. k.pc = label
        BY DEF Idle
      <4>3. doing' = [doing EXCEPT ![w] = k]
        BY <4>1 DEF Do
      <4> HIDE DEF k
      <4>4. QED BY <4>2, <4>3
    <3>2. CASE DeleteStats(w)
      <4> DEFINE k == [doing[w] EXCEPT !.pc = "write"]
      <4>1. k.pc = "write"
        BY DEF UsageTypeOK, Jobs
      <4>2. doing' = [doing EXCEPT ![w] = k]
        BY <3>2 DEF DeleteStats, Do
      <4> HIDE DEF k
      <4>3. QED BY <4>1, <4>2
    <3>4. CASE HandleReconcile(w) \/ FailPeriodic(w)
      BY <3>4 DEF HandleReconcile, FailPeriodic, Do, Idle
    <3>5. QED BY <1>5, <3>1, <3>2, <3>4
  <2>2. doing[w].pc \notin {"insert", "record"}
    BY <1>5 DEF ReadUsageRows, DeleteStats, SumUsage, HandleReconcile, FailPeriodic, At
  <2>3. logs' = logs /\ record' = record /\ odd' = odd
    BY <1>5 DEF ReadUsageRows, DeleteStats, SumUsage, HandleReconcile, FailPeriodic
  <2>4. \A v \in Consumers :
            /\ doing'[v].pc = doing[v].pc
                  \/ {doing[v].pc, doing'[v].pc} \cap {"insert", "record"} = {}
            /\ doing[v].pc \in {"insert", "record"} => doing'[v].call = doing[v].call
    BY <2>1, <2>2 DEF UsageTypeOK
  <2>5. QED BY <2>3, <2>4, OnceStill
<1>6. ASSUME NEW w \in Consumers, WriteStats(w) PROVE OnceInv'
  <2>1. /\ \A v \in Consumers \ {w} :
              doing'[v].pc = doing[v].pc /\ doing'[v].call = doing[v].call
        /\ doing'[w].pc = "idle" /\ doing[w].pc = "write"
    BY <1>6 DEF WriteStats, At, UsageTypeOK, Jobs, Idle
  <2>2. logs' = logs /\ record' = record /\ odd' = odd
    BY <1>6 DEF WriteStats
  <2>3. \A v \in Consumers :
            /\ doing'[v].pc = doing[v].pc
                  \/ {doing[v].pc, doing'[v].pc} \cap {"insert", "record"} = {}
            /\ doing[v].pc \in {"insert", "record"} => doing'[v].call = doing[v].call
    BY <2>1
  <2>4. QED BY <2>2, <2>3, OnceStill
<1>7. QED BY <1>1, <1>2, <1>3, <1>4, <1>5, <1>6 DEF UsageNext

\* A call that may not be twice in the log is there at most once.
LEMMA OneRow == OnceInv => LoggedOnce
<1> SUFFICES ASSUME OnceInv, NEW c \in Calls, c \notin odd
             PROVE  ~ (Cardinality(RowsOf(c)) > 1)
  BY DEF LoggedOnce
<1>1. CASE RowsOf(c) = {}
  BY <1>1, FS_EmptySet
<1>2. CASE RowsOf(c) # {}
  <2>1. PICK row \in RowsOf(c) : RowsOf(c) = {row}
    BY <1>2 DEF OnceInv
  <2>2. Cardinality({row}) = 1
    BY FS_Singleton
  <2>3. QED BY <2>1, <2>2
<1>3. QED BY <1>1, <1>2

-----------------------------------------------------------------------------
\* Rows are only added; one for a day that is over is a late one.
Grows ==
    /\ today' \in Days /\ today <= today' /\ logs \subseteq logs' /\ late \subseteq late'
    /\ \A row \in logs' \ logs : row.day <= today' /\ (row.day = today \/ row \in late')

\* Every step only adds rows.
LEMMA Growth ==
    ASSUME UsageTypeOK, DayInv, [UsageNext]_usageVars
    PROVE  Grows
<1>1. today \in Nat
  BY DaysTyped DEF UsageTypeOK
<1>2. CASE UNCHANGED <<today, logs, late>>
  BY <1>1, <1>2 DEF Grows, UsageTypeOK
<1>3. CASE Midnight
  BY <1>1, <1>3, DaysTyped DEF Midnight, Grows, UsageTypeOK
<1>4. ASSUME NEW w \in Consumers, InsertUsageLog(w) PROVE Grows
  <2> DEFINE new == [call |-> doing[w].call, day |-> doing[w].day,
                     no |-> Cardinality({row \in logs : row.call = doing[w].call})]
  <2>1. /\ logs' = logs \cup {new} /\ today' = today
        /\ late' = IF today > doing[w].day THEN late \cup {new} ELSE late
    BY <1>4 DEF InsertUsageLog
  <2>2. new.day <= today /\ new.day \in Nat /\ new.day = doing[w].day
    BY DaysTyped DEF DayInv, UsageTypeOK, Jobs
  <2> HIDE DEF new
  <2>3. new.day = today \/ new \in late'
    BY <1>1, <2>1, <2>2
  <2>4. QED BY <1>1, <2>1, <2>2, <2>3 DEF Grows, UsageTypeOK
<1>5. QED
  BY <1>2, <1>3, <1>4 DEF UsageNext, usageVars, CreateLedger, CommitSettle,
     RollBackSettle, KnownAlready, StampUsageLog,
     PutIdempotency, FailUsageWrite, ReadUsageRows, DeleteStats, WriteStats, SumUsage,
     HandleReconcile, FailPeriodic

\* What is whole of a day stays so.
LEMMA WholeStill ==
    ASSUME UsageTypeOK, Grows, NEW d \in Days, NEW S, WholeDay(S, d)
    PROVE  WholeDay(S, d)'
<1>1. d < today /\ d \in Nat /\ today \in Nat /\ today' \in Nat /\ today <= today'
  BY DaysTyped DEF WholeDay, UsageTypeOK, Grows
<1>2. S \subseteq OnDay(logs', d)
  BY DEF WholeDay, OnDay, Grows
<1>3. ASSUME NEW row \in OnDay(logs', d), row \notin S PROVE row \in late'
  <2>1. CASE row \in logs
    BY <1>3, <2>1 DEF WholeDay, OnDay, Grows
  <2>2. CASE row \notin logs
    BY <1>1, <1>3, <2>2 DEF OnDay, Grows
  <2>3. QED BY <2>1, <2>2
<1>4. QED BY <1>1, <1>2, <1>3 DEF WholeDay, OnDay

\* What is read of a day that is over is all there is of it.
LEMMA ReadWhole ==
    ASSUME UsageTypeOK, DayInv, [UsageNext]_usageVars, NEW v \in Consumers
    PROVE  /\ doing'[v].day \in Nat /\ doing'[v].day <= today
           /\ doing'[v].pc \in Reading => WholeDay(doing'[v].seen, doing'[v].day)
<1> DEFINE Goal == /\ doing'[v].day \in Nat /\ doing'[v].day <= today
                   /\ doing'[v].pc \in Reading => WholeDay(doing'[v].seen, doing'[v].day)
<1>1. today \in Nat /\ doing[v] \in Jobs /\ Idle \in Jobs
  BY DaysTyped, IdleTyped DEF UsageTypeOK
<1>2. CASE doing'[v] = doing[v]
  BY <1>1, <1>2, DaysTyped DEF DayInv, Jobs
<1>3. CASE doing'[v] = Idle
  BY <1>1, <1>3 DEF Idle, Reading
<1>4. ASSUME NEW w \in Consumers, NEW c \in Calls, StampUsageLog(w, c) PROVE Goal
  <2>1. CASE v = w
    <3> DEFINE j == [Idle EXCEPT !.pc = "insert", !.call = c, !.day = today]
    <3>1. doing'[v] = j
      BY <1>4, <2>1 DEF StampUsageLog, Do, UsageTypeOK
    <3>2. j.pc = "insert" /\ j.day = today
      BY <1>1 DEF Jobs
    <3> HIDE DEF j
    <3>3. QED BY <1>1, <3>1, <3>2 DEF Reading
  <2>2. QED BY <1>2, <1>4, <2>1 DEF StampUsageLog, Do, UsageTypeOK
<1>5. ASSUME NEW w \in Consumers, InsertUsageLog(w) \/ DeleteStats(w) PROVE Goal
  <2>1. PICK label \in {"record", "write"} :
            /\ doing' = [doing EXCEPT ![w] = [doing[w] EXCEPT !.pc = label]]
            /\ label = "write" => doing[w].pc = "delete"
    BY <1>5 DEF InsertUsageLog, DeleteStats, Do, At
  <2>2. CASE v = w
    <3>1. /\ doing'[v].pc = label /\ doing'[v].day = doing[v].day
          /\ doing'[v].seen = doing[v].seen
      BY <1>1, <2>1, <2>2 DEF Jobs, UsageTypeOK
    <3>2. label = "write" => WholeDay(doing[v].seen, doing[v].day)
      BY <2>1, <2>2 DEF DayInv, Reading
    <3>3. QED BY <1>1, <3>1, <3>2, DaysTyped DEF DayInv, Jobs, Reading
  <2>3. QED BY <1>2, <2>1, <2>2 DEF UsageTypeOK
<1>6. ASSUME NEW w \in Consumers, ReadUsageRows(w) \/ SumUsage(w) PROVE Goal
  <2>1. CASE v = w
    <3>1. PICK label \in {"delete", "ledger"} :
              Do(w, [Idle EXCEPT !.pc = label, !.day = Yesterday,
                                 !.seen = OnDay(logs, Yesterday)])
      BY <1>6 DEF ReadUsageRows, SumUsage
    <3>2. doing'[v].day = Yesterday /\ doing'[v].seen = OnDay(logs, Yesterday)
      BY <1>1, <2>1, <3>1 DEF Do, UsageTypeOK, Jobs
    <3>3. Yesterday \in Nat /\ Yesterday < today
      BY <1>1, <1>6 DEF ReadUsageRows, SumUsage, Yesterday
    <3>4. QED BY <1>1, <3>2, <3>3 DEF WholeDay
  <2>2. QED BY <1>2, <1>6, <2>1 DEF ReadUsageRows, SumUsage, Do, UsageTypeOK
<1>7. ASSUME NEW w \in Consumers, WriteStats(w) PROVE Goal
  <2>1. CASE v = w
    BY <1>3, <1>7, <2>1 DEF WriteStats
  <2>2. CASE v # w
    <3>1. /\ doing'[v].pc = doing[v].pc /\ doing'[v].day = doing[v].day
          /\ doing'[v].seen = doing[v].seen
      BY <1>1, <1>7, <2>2 DEF WriteStats, Jobs
    <3>2. QED BY <1>1, <3>1, DaysTyped DEF DayInv, Jobs
  <2>3. QED BY <2>1, <2>2
<1>8. ASSUME NEW w \in Consumers,
             PutIdempotency(w) \/ FailUsageWrite(w) \/ HandleReconcile(w) \/ FailPeriodic(w)
      PROVE  Goal
  <2>1. doing' = [doing EXCEPT ![w] = Idle]
    BY <1>8 DEF PutIdempotency, FailUsageWrite, HandleReconcile, FailPeriodic, Do
  <2>2. QED BY <1>2, <1>3, <2>1 DEF UsageTypeOK
<1>9. CASE UNCHANGED doing
  BY <1>2, <1>9
<1>10. QED
  BY <1>4, <1>5, <1>6, <1>7, <1>8, <1>9 DEF UsageNext, usageVars, Midnight,
     CreateLedger, CommitSettle, RollBackSettle, KnownAlready

\* What is written of a day is what was read of it, beside what was there.
LEMMA WrittenWhole ==
    ASSUME UsageTypeOK, DayInv, [UsageNext]_usageVars
    PROVE  /\ \A d \in Days : stats'[d] \subseteq OnDay(logs, d)
           /\ \A d \in summed' : WholeDay(stats'[d], d)
<1>1. CASE UNCHANGED <<stats, summed>>
  BY <1>1 DEF DayInv
<1>2. ASSUME NEW w \in Consumers, WriteStats(w)
      PROVE  /\ \A d \in Days : stats'[d] \subseteq OnDay(logs, d)
             /\ \A d \in summed' : WholeDay(stats'[d], d)
  <2> DEFINE e == doing[w].day
             kept == IF doing[w].crossed THEN stats[e] ELSE {}
  <2>1. /\ e \in Days /\ doing[w].pc = "write"
        /\ stats' = [stats EXCEPT ![e] = kept \cup doing[w].seen]
        /\ summed' = summed \cup {e}
    BY <1>2 DEF WriteStats, At, UsageTypeOK, Jobs
  <2>2. kept \subseteq OnDay(logs, e) /\ WholeDay(doing[w].seen, e)
    BY <2>1 DEF DayInv, Reading
  <2> HIDE DEF e, kept
  <2>3. stats'[e] = kept \cup doing[w].seen /\ \A d \in Days : d # e => stats'[d] = stats[d]
    BY <2>1 DEF UsageTypeOK
  <2>4. WholeDay(stats'[e], e)
    BY <2>2, <2>3 DEF WholeDay
  <2>5. QED BY <2>1, <2>3, <2>4 DEF DayInv, WholeDay, UsageTypeOK
<1>3. QED
  BY <1>1, <1>2 DEF UsageNext, usageVars, Midnight, CreateLedger, CommitSettle,
     RollBackSettle, KnownAlready, StampUsageLog,
     InsertUsageLog, PutIdempotency, FailUsageWrite, ReadUsageRows, DeleteStats, SumUsage,
     HandleReconcile, FailPeriodic

\* Every step keeps DayInv.
LEMMA DayStep ==
    ASSUME UsageTypeOK, DayInv, [UsageNext]_usageVars
    PROVE  DayInv'
<1>1. Grows /\ UsageTypeOK'
  BY Growth, UsageTypeStep
<1>2. today \in Nat /\ today' \in Nat /\ today <= today'
  BY <1>1, DaysTyped DEF Grows, UsageTypeOK
<1>3. \A row \in logs' : row.day <= today'
  <2>1. \A row \in logs : row.day \in Nat /\ row.day <= today
    BY DaysTyped DEF DayInv, UsageTypeOK, Logs
  <2>2. QED BY <1>1, <1>2, <2>1 DEF Grows
<1>4. ASSUME NEW w \in Consumers
      PROVE  /\ doing'[w].day <= today'
             /\ doing'[w].pc \in Reading => WholeDay(doing[w].seen, doing[w].day)'
  <2>1. /\ doing'[w].day \in Nat /\ doing'[w].day <= today
        /\ doing'[w].pc \in Reading => WholeDay(doing'[w].seen, doing'[w].day)
    BY ReadWhole
  <2>2. doing'[w].day \in Days
    BY <1>1 DEF UsageTypeOK, Jobs
  <2>3. PICK d \in Days : d = doing'[w].day
    BY <2>2
  <2>4. PICK S : S = doing'[w].seen
    OBVIOUS
  <2>5. WholeDay(S, d) => WholeDay(S, d)'
    BY <1>1, WholeStill
  <2>6. QED BY <1>2, <2>1, <2>3, <2>4, <2>5 DEF WholeDay
<1>5. ASSUME NEW d \in Days
      PROVE  /\ stats'[d] \subseteq OnDay(logs', d)
             /\ d \in summed' => WholeDay(stats[d], d)'
  <2>1. /\ stats'[d] \subseteq OnDay(logs, d)
        /\ d \in summed' => WholeDay(stats'[d], d)
    BY WrittenWhole
  <2>2. PICK S : S = stats'[d]
    OBVIOUS
  <2>3. WholeDay(S, d) => WholeDay(S, d)'
    BY <1>1, WholeStill
  <2>4. OnDay(logs, d) \subseteq OnDay(logs', d)
    BY <1>1 DEF OnDay, Grows
  <2>5. QED BY <2>1, <2>2, <2>3, <2>4 DEF WholeDay
<1>6. summed' \subseteq Days
  BY <1>1 DEF UsageTypeOK
<1>7. QED BY <1>3, <1>4, <1>5, <1>6 DEF DayInv, OnDay

-----------------------------------------------------------------------------
\* The sums over a part of the rows, by the prices of all of them.
LEMMA ChargedPart ==
    ASSUME NEW R, R \subseteq Logs, IsFiniteSet(R), NEW Q, Q \subseteq R
    PROVE  SumFunctionOnSet([row \in R |-> Cost[row.call]], Q) = Charged(Q)
<1> DEFINE f == [row \in R |-> Cost[row.call]]
           g == [row \in Q |-> Cost[row.call]]
<1>1. IsFiniteSet(Q)
  BY FS_Subset
<1>2. \A row \in Q : g[row] \in Int /\ f[row] = g[row]
  BY UsageAssumption DEF Logs
<1>3. Charged(Q) = SumFunctionOnSet(g, Q)
  <2>1. DOMAIN g = Q
    OBVIOUS
  <2> HIDE DEF g
  <2>2. SumFunction(g) = SumFunctionOnSet(g, Q)
    BY <2>1 DEF SumFunction, SumFunctionOnSet, FoldFunction
  <2>3. QED BY <2>2 DEF Charged, g
<1> HIDE DEF f, g
<1>4. SumFunctionOnSet(f, Q) = SumFunctionOnSet(g, Q)
  BY <1>1, <1>2, SumSame
<1>5. QED BY <1>3, <1>4 DEF f

\* The same for what was booked.
LEMMA SettledPart ==
    ASSUME NEW R, R \subseteq Bookings, IsFiniteSet(R), NEW Q, Q \subseteq R
    PROVE  SumFunctionOnSet([row \in R |-> row.amount], Q) = Settled(Q)
<1> DEFINE f == [row \in R |-> row.amount]
           g == [row \in Q |-> row.amount]
<1>1. IsFiniteSet(Q)
  BY FS_Subset
<1>2. \A row \in Q : g[row] \in Int /\ f[row] = g[row]
  BY DEF Bookings
<1>3. Settled(Q) = SumFunctionOnSet(g, Q)
  <2>1. DOMAIN g = Q
    OBVIOUS
  <2> HIDE DEF g
  <2>2. SumFunction(g) = SumFunctionOnSet(g, Q)
    BY <2>1 DEF SumFunction, SumFunctionOnSet, FoldFunction
  <2>3. QED BY <2>2 DEF Settled, g
<1> HIDE DEF f, g
<1>4. SumFunctionOnSet(f, Q) = SumFunctionOnSet(g, Q)
  BY <1>1, <1>2, SumSame
<1>5. QED BY <1>3, <1>4 DEF f

\* Days whose calls all come out even, and have no late rows, come out even.
LEMMA CauseFound ==
    ASSUME UsageTypeOK, NEW d \in Days, NEW S, WholeDay(S, d),
           Charged(S) # Settled(OnDay(booked, d))
    PROVE  \E c \in Calls : Cause(c, d)
<1> SUFFICES ASSUME \A c \in Calls : ~Uneven(c, d) /\ OnDay(RowsOf(c), d) \cap late = {}
             PROVE  FALSE
  BY DEF Cause
<1> DEFINE R == OnDay(logs, d)
           B == OnDay(booked, d)
           f == [row \in R |-> Cost[row.call]]
           h == [row \in B |-> row.amount]
           key == [row \in R \cup B |-> row.call]
           P == [c \in Calls |-> OnDay(RowsOf(c), d)]
           Q == [c \in Calls |-> OnDay(BookedOf(c), d)]
<1>1. /\ R \subseteq Logs /\ IsFiniteSet(R)
      /\ B \subseteq Bookings /\ IsFiniteSet(B)
  BY FS_Subset DEF OnDay, UsageTypeOK
<1>2. R \cap late = {}
  <2> SUFFICES ASSUME NEW row \in R, row \in late PROVE FALSE
    OBVIOUS
  <2>1. row.call \in Calls /\ row \in OnDay(RowsOf(row.call), d)
    BY <1>1 DEF Logs, OnDay, RowsOf
  <2>2. QED BY <2>1
<1>3. S = R
  BY <1>2 DEF WholeDay
<1>4. /\ \A row \in R : f[row] \in Int /\ key[row] = row.call
      /\ \A row \in B : h[row] \in Int /\ key[row] = row.call
  BY <1>1, UsageAssumption DEF Logs, Bookings
<1>5. \A part \in SUBSET R : SumFunctionOnSet(f, part) = Charged(part)
  <2> HIDE DEF R
  <2>1. QED BY <1>1, ChargedPart
<1>6. \A part \in SUBSET B : SumFunctionOnSet(h, part) = Settled(part)
  <2> HIDE DEF B
  <2>1. QED BY <1>1, SettledPart
<1>7. /\ \A row \in R \cup B : key[row] \in Calls
      /\ \A c \in Calls : P[c] \subseteq R /\ \A row \in R : row \in P[c] <=> key[row] = c
      /\ \A c \in Calls : Q[c] \subseteq B /\ \A row \in B : row \in Q[c] <=> key[row] = c
  BY <1>1, <1>4 DEF OnDay, RowsOf, BookedOf, Logs, Bookings
<1>8. ASSUME NEW c \in Calls
      PROVE  SumFunctionOnSet(f, P[c]) = SumFunctionOnSet(h, Q[c])
  <2>1. Charged(P[c]) = Settled(Q[c])
    BY DEF Uneven
  <2>2. P[c] \in SUBSET R /\ Q[c] \in SUBSET B
    BY <1>7
  <2> HIDE DEF f, h, P, Q, R, B
  <2>3. QED BY <1>5, <1>6, <2>1, <2>2
<1>9. Charged(R) = SumFunctionOnSet(f, R) /\ Settled(B) = SumFunctionOnSet(h, B)
  BY <1>5, <1>6
<1> HIDE DEF R, B, f, h, key, P, Q
<1>10. SumFunctionOnSet(f, R) = SumFunctionOnSet(h, B)
  <2>1. (\A row \in R : f[row] \in Int) /\ (\A row \in B : h[row] \in Int)
    BY <1>4
  <2>2. \A c \in Calls : SumFunctionOnSet(f, P[c]) = SumFunctionOnSet(h, Q[c])
    BY <1>8
  <2>3. SameParts(f, R, h, B, key, Calls, P, Q)
    BY <1>7, <2>2 DEF SameParts
  <2>4. QED BY <1>1, <2>1, <2>3, SumByKey
<1>11. QED BY <1>3, <1>9, <1>10 DEF B

\* What is booked on a day that was reported is tardy.
LEMMA BookedStill ==
    ASSUME UsageTypeOK, [UsageNext]_usageVars, NEW d \in alarm
    PROVE  /\ booked \subseteq booked' /\ tardy \subseteq tardy'
           /\ \A row \in OnDay(booked', d) : row \in OnDay(booked, d) \/ row \in tardy'
<1>1. CASE UNCHANGED <<booked, tardy>>
  BY <1>1
<1>2. ASSUME NEW new \in open, CommitSettle(new)
      PROVE  /\ booked \subseteq booked' /\ tardy \subseteq tardy'
             /\ \A row \in OnDay(booked', d) : row \in OnDay(booked, d) \/ row \in tardy'
  BY <1>2 DEF CommitSettle, OnDay
<1>3. QED
  BY <1>1, <1>2 DEF UsageNext, usageVars, Midnight, CreateLedger, RollBackSettle,
     KnownAlready, StampUsageLog, InsertUsageLog, PutIdempotency, FailUsageWrite,
     ReadUsageRows, DeleteStats, WriteStats, SumUsage, HandleReconcile, FailPeriodic

\* A cause stays one.
LEMMA CauseStays ==
    ASSUME UsageTypeOK, Grows, [UsageNext]_usageVars, NEW d \in alarm, d < today,
           NEW c \in Calls, Cause(c, d)
    PROVE  Cause(c, d)'
<1> DEFINE R == OnDay(RowsOf(c), d)
           B == OnDay(BookedOf(c), d)
<1>0. d \in Days
  BY DEF UsageTypeOK
<1>1. R \subseteq R' /\ late \subseteq late'
  BY DEF OnDay, RowsOf, Grows
<1>2. B \subseteq B' /\ tardy \subseteq tardy'
  BY BookedStill DEF OnDay, BookedOf
<1>3. CASE R' \cap late' # {} \/ B' \cap tardy' # {}
  BY <1>3 DEF Cause
<1>4. CASE R' # R
  <2>1. PICK row \in R' : row \notin R
    BY <1>1, <1>4
  <2>2. row \in logs' \ logs /\ row.day = d
    BY <2>1 DEF OnDay, RowsOf
  <2>3. row \in late'
    BY <1>0, <2>2, DaysTyped DEF Grows, UsageTypeOK
  <2>4. QED BY <1>3, <2>1, <2>3
<1>5. CASE B' # B
  <2>1. PICK row \in B' : row \notin B
    BY <1>2, <1>5
  <2>2. row \in OnDay(booked', d) /\ row \notin OnDay(booked, d)
    BY <2>1 DEF OnDay, BookedOf
  <2>3. row \in tardy'
    BY <2>2, BookedStill
  <2>4. QED BY <1>3, <2>1, <2>3
<1>6. CASE R' = R /\ B' = B /\ Uneven(c, d)
  <2>1. Charged(R) # Settled(B)
    BY <1>6 DEF Uneven
  <2>2. Charged(R') # Settled(B')
    BY <1>6, <2>1 DEF Charged, Settled
  <2>3. QED BY <2>2 DEF Cause, Uneven, Charged, Settled
<1>7. R \cap late # {} => R' \cap late' # {}
  BY <1>1
<1>8. B \cap tardy # {} => B' \cap tardy' # {}
  BY <1>2
<1>9. QED BY <1>3, <1>4, <1>5, <1>6, <1>7, <1>8 DEF Cause

\* A day is reported in a step that writes nothing else.
LEMMA AlarmedAlone ==
    ASSUME [UsageNext]_usageVars, NEW d \in alarm', d \notin alarm
    PROVE  UNCHANGED <<logs, booked, late, tardy>>
BY DEF UsageNext, usageVars, Midnight, CreateLedger, CommitSettle, RollBackSettle,
   KnownAlready, StampUsageLog, InsertUsageLog, PutIdempotency, FailUsageWrite,
   ReadUsageRows, DeleteStats, WriteStats, SumUsage, HandleReconcile, FailPeriodic

\* Every step keeps AlarmInv.
LEMMA AlarmStep ==
    ASSUME UsageTypeOK, DayInv, AlarmInv, [UsageNext]_usageVars
    PROVE  AlarmInv'
<1>1. Grows /\ UsageTypeOK'
  BY Growth, UsageTypeStep
<1>2. today \in Nat /\ today' \in Nat /\ today <= today'
  BY <1>1, DaysTyped DEF Grows, UsageTypeOK
<1>3. ASSUME NEW d \in alarm'
      PROVE  /\ d \in Days /\ d < today
             /\ \E c \in Calls : Cause(c, d)
  <2>1. CASE d \in alarm
    BY <2>1 DEF AlarmInv, AlarmHasCause, UsageTypeOK
  <2>2. CASE d \notin alarm
    <3>1. PICK w \in Consumers : HandleReconcile(w)
      BY <1>3, <2>2 DEF UsageNext, usageVars, Midnight, CreateLedger, CommitSettle,
         RollBackSettle, KnownAlready,
         StampUsageLog, InsertUsageLog, PutIdempotency, FailUsageWrite, ReadUsageRows,
         DeleteStats, WriteStats, SumUsage, FailPeriodic
    <3>2. /\ d = doing[w].day /\ doing[w].pc = "ledger"
          /\ Charged(doing[w].seen) # Settled(OnDay(booked, d))
      BY <1>3, <2>2, <3>1 DEF HandleReconcile, At, SameDay
    <3>3. d \in Days /\ WholeDay(doing[w].seen, d)
      BY <3>2 DEF DayInv, Reading, UsageTypeOK, Jobs
    <3>4. QED BY <3>2, <3>3, CauseFound DEF WholeDay
  <2>3. QED BY <2>1, <2>2
<1>4. ASSUME NEW d \in alarm'
      PROVE  /\ d < today'
             /\ \E c \in Calls : Cause(c, d)'
  <2>1. PICK c \in Calls : Cause(c, d)
    BY <1>3
  <2>2. d \in Days /\ d < today /\ d \in Nat
    BY <1>3, DaysTyped
  <2>3. Cause(c, d)'
    <3>1. CASE d \in alarm
      BY <1>1, <2>1, <2>2, <3>1, CauseStays
    <3>2. CASE d \notin alarm
      <4>1. UNCHANGED <<logs, booked, late, tardy>>
        BY <3>2, AlarmedAlone
      <4>2. QED BY <2>1, <4>1 DEF Cause, Uneven, Charged, Settled, OnDay, RowsOf, BookedOf
    <3>3. QED BY <3>1, <3>2
  <2>4. QED BY <1>2, <2>2, <2>3
<1>5. QED BY <1>4 DEF AlarmInv, AlarmHasCause

-----------------------------------------------------------------------------
\* The invariant of the log, the statistics and the alarms.
UsageInv == UsageTypeOK /\ OnceInv /\ DayInv /\ AlarmInv

\* The invariant of Usage, for any number of workers, calls, messages of a call,
\* days and faults.
THEOREM UsageInvariant == UsageSpec => []UsageInv
<1>1. UsageInit => UsageInv
  BY UsageInitInv DEF UsageInv
<1>2. UsageInv /\ [UsageNext]_usageVars => UsageInv'
  BY UsageTypeStep, OnceStep, DayStep, AlarmStep DEF UsageInv
<1>3. QED BY <1>1, <1>2, PTL DEF UsageSpec

\* No call is in usage_logs twice without a death between row and record, two
\* workers at once, or a message that came after the record had lapsed.
THEOREM SecondRowHasCause == UsageSpec => []LoggedOnce
<1>1. UsageInv => LoggedOnce
  BY OneRow DEF UsageInv
<1>2. QED BY <1>1, UsageInvariant, PTL

\* The statistics of a day are its rows, but for those stamped before midnight
\* that came after it, whoever aggregated it and how often.
THEOREM DaysAddUp == UsageSpec => []StatsComplete
<1>1. UsageInv => StatsComplete
  BY DEF UsageInv, DayInv, WholeDay, StatsComplete
<1>2. QED BY <1>1, UsageInvariant, PTL

\* A day is reported only if one of its calls does not come out even, came late, or
\* was committed after the report: two sums over any number of rows differ only where
\* a call differs (ReconcileDay, applySettleTx).
THEOREM AlarmsAreTrue == UsageSpec => []AlarmHasCause
<1>1. UsageInv => AlarmHasCause
  BY DEF UsageInv, AlarmInv
<1>2. QED BY <1>1, UsageInvariant, PTL
=============================================================================
