---------------------------- MODULE PaymentProofs ----------------------------
(***************************************************************************)
(* Proofs about Payment: however often payments are announced and tasks    *)
(* delivered, an order is credited at most once, by a payment of its own   *)
(* and of its amount, and no callback answered with success is forgotten.  *)
(***************************************************************************)
EXTENDS Payment, TLAPS

\* A callback that has not begun, typed.
LEMMA BlankType == Blank \in Call /\ Blank.seen = "none" /\ Blank.retries = 0
BY PaymentAssumption DEF Blank, Call, Statuses

Labels == {"idle", "check", "queue", "run", "credited", "ack", "done", "dead"}

\* A credit changes one order from unpaid to paid, with a trade nobody has.
LEMMA CreditEffect ==
    ASSUME TypeOK, NEW o \in Orders, NEW t \in Trades, Credit(o, t)
    PROVE  /\ order' \in [Orders -> Order] /\ recharge' \in [Orders -> Nat]
           /\ balance' \in [Users -> Nat]
           /\ order[o].status = "pending" /\ order[o].trade = NoTrade
           /\ order'[o].status = "paid" /\ order'[o].trade = t
           /\ recharge'[o] = recharge[o] + 1
           /\ \A p \in Orders \ {o} :
                  order'[p] = order[p] /\ recharge'[p] = recharge[p]
           /\ \A p \in Orders : order[p].trade # t
           /\ UNCHANGED <<spent, paid>>
<1>1. /\ order[o].status = "pending" /\ order[o].trade = NoTrade
      /\ \A p \in Orders : order[p].trade # t
      /\ UNCHANGED <<spent, paid>>
  BY DEF Credit, Open, Unique
<1>2. [status |-> "paid", trade |-> t] \in Order
  BY DEF Order, Statuses
<1>3. /\ order' \in [Orders -> Order]
      /\ order'[o] = [status |-> "paid", trade |-> t]
      /\ \A p \in Orders \ {o} : order'[p] = order[p]
  BY <1>2 DEF Credit, TypeOK
<1>4. /\ recharge' \in [Orders -> Nat]
      /\ recharge'[o] = recharge[o] + 1
      /\ \A p \in Orders \ {o} : recharge'[p] = recharge[p]
  BY DEF Credit, TypeOK
<1>5. balance' \in [Users -> Nat]
  <2>1. Owner[o] \in Users /\ Amount[o] \in Nat
    BY PaymentAssumption
  <2>2. Credited(Owner[o], o) \in Nat
    BY <2>1 DEF Credited, TypeOK
  <2>3. QED BY <2>1, <2>2 DEF Credit, TypeOK
<1>6. QED BY <1>1, <1>3, <1>4, <1>5

\* A failed task is back in the queue with a retry counted, or dead.
LEMMA FailEffect ==
    ASSUME TypeOK, NEW n \in Callbacks, Fail(n)
    PROVE  /\ pc' \in [Callbacks -> Labels] /\ pc'[n] \in {"queue", "dead"}
           /\ \A m \in Callbacks \ {n} : pc'[m] = pc[m] /\ call'[m] = call[m]
           /\ call' \in [Callbacks -> Call]
           /\ \A m \in Callbacks :
                  /\ call'[m].order = call[m].order /\ call'[m].trade = call[m].trade
                  /\ call'[m].seen = call[m].seen /\ call'[m].retries <= MaxRetry
<1> DEFINE again == [order |-> call[n].order, trade |-> call[n].trade,
                     seen |-> call[n].seen, retries |-> call[n].retries + 1]
<1>1. call[n] \in Call /\ call[n].retries <= MaxRetry /\ call[n].retries \in Nat
  BY DEF TypeOK, Call
<1>2. pc \in [Callbacks -> Labels] /\ call \in [Callbacks -> Call]
  BY DEF TypeOK, Labels
<1>3. CASE Exhausted(n)
  BY <1>2, <1>3 DEF Fail, Goto, TypeOK, Labels
<1>4. CASE ~Exhausted(n)
  <2>1. pc' = [pc EXCEPT ![n] = "queue"]
    BY <1>4 DEF Fail, Goto, Retried
  <2>2. call' = [call EXCEPT ![n] = again]
    <3>1. call' = [call EXCEPT ![n].retries = @ + 1]
      BY <1>4 DEF Fail
    <3>2. [call[n] EXCEPT !.retries = @ + 1] = again
      BY <1>1 DEF Call
    <3>3. QED BY <3>1, <3>2, <1>2
  <2>3. again \in Call /\ again.retries <= MaxRetry
    BY <1>1, <1>4, PaymentAssumption DEF Call, Exhausted
  <2>4. call' \in [Callbacks -> Call] /\ call'[n] = again
        /\ \A m \in Callbacks \ {n} : call'[m] = call[m]
    <3> HIDE DEF again
    <3>1. QED BY <1>2, <2>2, <2>3
  <2>5. pc' \in [Callbacks -> Labels] /\ pc'[n] = "queue"
        /\ \A m \in Callbacks \ {n} : pc'[m] = pc[m]
    BY <1>2, <2>1 DEF Labels
  <2>6. \A m \in Callbacks :
            /\ call'[m].order = call[m].order /\ call'[m].trade = call[m].trade
            /\ call'[m].seen = call[m].seen /\ call'[m].retries <= MaxRetry
    BY <2>3, <2>4 DEF TypeOK
  <2>7. QED BY <2>4, <2>5, <2>6
<1>5. QED BY <1>3, <1>4

\* A step of a callback to a label, other callbacks standing still.
LEMMA GotoEffect ==
    ASSUME TypeOK, NEW n \in Callbacks, NEW label \in Labels, Goto(n, label)
    PROVE  /\ pc' \in [Callbacks -> Labels] /\ pc'[n] = label
           /\ \A m \in Callbacks \ {n} : pc'[m] = pc[m]
BY DEF Goto, TypeOK, Labels

\* An answer is one callback's.
LEMMA AnswerEffect ==
    ASSUME TypeOK, NEW n \in Callbacks, NEW what \in {"success", "refused"}, Answer(n, what)
    PROVE  /\ answer' \in [Callbacks -> {"none", "success", "refused"}]
           /\ answer'[n] = what
           /\ \A m \in Callbacks \ {n} : answer'[m] = answer[m]
BY DEF Answer, TypeOK

\* Faults stay within their bound.
LEMMA FaultType == ASSUME TypeOK, Fault PROVE faults' \in 0 .. MaxFaults
BY PaymentAssumption DEF TypeOK, Fault

\* The user of a callback's order, as often as needed below.
LEMMA UserType == ASSUME TypeOK, NEW n \in Callbacks PROVE User(n) \in Users
BY PaymentAssumption DEF TypeOK, User, Call

-----------------------------------------------------------------------------
(***************************************************************************)
(* Types.                                                                  *)
(***************************************************************************)
LEMMA InitInv == Init => PaymentInv
<1> SUFFICES ASSUME Init PROVE PaymentInv
  OBVIOUS
<1> USE BlankType, PaymentAssumption DEF Init
<1>1. TypeOK
  <2>1. order \in [Orders -> Order]
    BY DEF Order, Statuses
  <2>2. call \in [Callbacks -> Call] /\ \A n \in Callbacks : call[n].retries <= MaxRetry
    OBVIOUS
  <2>3. paid \in [Trades -> SUBSET Orders]
    OBVIOUS
  <2>4. QED BY <2>1, <2>2, <2>3 DEF TypeOK
<1>2. CreditedOnce /\ CreditsBacked /\ UnpaidBare
  BY DEF CreditedOnce, CreditsBacked, UnpaidBare
<1>3. TasksChecked /\ ReadsHold /\ SuccessAccounted
  BY DEF TasksChecked, ReadsHold, SuccessAccounted
<1>4. QED BY <1>1, <1>2, <1>3 DEF PaymentInv

\* What the steps of a callback leave of the types.
LEMMA TypesFrom ==
    ASSUME TypeOK, NEW n \in Callbacks,
           order' \in [Orders -> Order], recharge' \in [Orders -> Nat],
           balance' \in [Users -> Nat], UNCHANGED <<spent, paid, loading, loads>>,
           pc' \in [Callbacks -> Labels], call' \in [Callbacks -> Call],
           \A m \in Callbacks : call'[m].retries <= MaxRetry,
           answer' \in [Callbacks -> {"none", "success", "refused"}],
           cache' \in [Users -> Nat \cup {NoCache}], lost' \in [Users -> BOOLEAN],
           faults' \in 0 .. MaxFaults
    PROVE  TypeOK'
BY DEF TypeOK, Labels

\* Every step keeps the types.
LEMMA TypesKept == ASSUME TypeOK, [Next]_vars PROVE TypeOK'
<1> USE DEF Labels
<1>1. ASSUME NEW o \in Orders, Create(o) PROVE TypeOK'
  <2>1. [status |-> "pending", trade |-> NoTrade] \in Order
    BY DEF Order, Statuses
  <2>2. order' = [order EXCEPT ![o] = [status |-> "pending", trade |-> NoTrade]]
    BY <1>1 DEF Create
  <2>3. order' \in [Orders -> Order]
    <3> HIDE DEF Order
    <3>1. QED BY <2>1, <2>2 DEF TypeOK
  <2>4. QED BY <1>1, <2>3 DEF Create, TypeOK, redis
<1>2. ASSUME NEW o \in Orders, NEW t \in Trades, Pay(t, o) PROVE TypeOK'
  BY <1>2 DEF Pay, TypeOK, tables, redis
<1>3. ASSUME NEW n \in Callbacks, NEW o \in Orders, NEW t \in Trades, Notify(n, o, t)
      PROVE  TypeOK'
  <2> DEFINE c == [order |-> o, trade |-> t, seen |-> order[o].status, retries |-> 0]
  <2>1. c \in Call /\ c.retries <= MaxRetry
    BY PaymentAssumption DEF TypeOK, Call, Order
  <2>2. call' = [call EXCEPT ![n] = c]
    BY <1>3 DEF Notify
  <2>3. call' \in [Callbacks -> Call] /\ \A m \in Callbacks : call'[m].retries <= MaxRetry
    <3> HIDE DEF c
    <3>1. QED BY <2>1, <2>2 DEF TypeOK
  <2>4. pc' \in [Callbacks -> Labels]
    BY <1>3, GotoEffect DEF Notify
  <2>5. QED BY <1>3, <2>3, <2>4 DEF Notify, TypeOK, tables, redis
<1>4. ASSUME NEW n \in Callbacks, Receive(n) PROVE TypeOK'
  <2>1. pc' \in [Callbacks -> Labels]
    BY <1>4, GotoEffect DEF Receive, Duplicate, Mismatch, Accept, Unavailable
  <2>2. answer' \in [Callbacks -> {"none", "success", "refused"}]
    BY <1>4, AnswerEffect
    DEF Receive, Duplicate, Mismatch, Accept, Unavailable, Unpublished
  <2>3. faults' \in 0 .. MaxFaults
    BY <1>4, FaultType
    DEF Receive, Duplicate, Mismatch, Accept, Unavailable, TypeOK
  <2>4. UNCHANGED <<tables, paid, call, redis>>
    BY <1>4 DEF Receive, Duplicate, Mismatch, Accept, Unavailable
  <2>5. QED BY <2>1, <2>2, <2>3, <2>4 DEF TypeOK, tables, redis
<1>5. ASSUME NEW n \in Callbacks, HandleConfirm(n) \/ Crash(n) PROVE TypeOK'
  <2>1. call[n].order \in Orders /\ call[n].trade \in Trades
    BY DEF TypeOK, Call
  <2>2. User(n) \in Users
    BY UserType
  <2>3. CASE Deliver(n) \/ Repeat(n) \/ Ack(n)
    <3>1. pc' \in [Callbacks -> Labels]
      BY <2>3, GotoEffect DEF Deliver, Repeat, Ack
    <3>2. UNCHANGED <<tables, paid, call, answer, redis, faults>>
      BY <2>3 DEF Deliver, Repeat, Ack
    <3>3. QED BY <3>1, <3>2 DEF TypeOK, tables, redis
  <2>4. CASE Confirm(n)
    <3>1. pc' \in [Callbacks -> Labels]
      BY <2>4, GotoEffect DEF Confirm
    <3>2. Credit(call[n].order, call[n].trade) /\ UNCHANGED <<call, answer, redis, faults>>
      BY <2>4 DEF Confirm
    <3>3. QED
      BY <2>1, <3>1, <3>2, CreditEffect, TypesFrom DEF TypeOK, redis
  <2>5. CASE Conflict(n)
    <3>1. Fail(n) /\ UNCHANGED <<tables, paid, answer, redis, faults>>
      BY <2>5 DEF Conflict
    <3>2. QED BY <3>1, FailEffect, TypesFrom DEF TypeOK, redis, tables
  <2>6. CASE Error(n)
    <3>1. Fail(n) /\ faults' \in 0 .. MaxFaults /\ UNCHANGED <<answer, cache, loading, loads>>
      BY <2>6, FaultType DEF Error
    <3>2. CASE UNCHANGED <<tables, paid, lost>>
      BY <3>1, <3>2, FailEffect, TypesFrom DEF TypeOK, tables
    <3>3. CASE Credit(call[n].order, call[n].trade) /\ lost' = [lost EXCEPT ![User(n)] = TRUE]
      <4>1. lost' \in [Users -> BOOLEAN]
        BY <3>3 DEF TypeOK
      <4>2. QED BY <2>1, <3>1, <3>3, <4>1, FailEffect, CreditEffect, TypesFrom DEF TypeOK
    <3>4. QED BY <2>6, <3>2, <3>3 DEF Error
  <2>7. CASE ResetCache(n) \/ ResetFails(n)
    <3>1. pc' \in [Callbacks -> Labels]
      BY <2>7, GotoEffect DEF ResetCache, ResetFails
    <3>2. cache' \in [Users -> Nat \cup {NoCache}]
      BY <2>7 DEF ResetCache, ResetFails, AfterReset, TypeOK
    <3>3. lost' \in [Users -> BOOLEAN]
      BY <2>7 DEF ResetCache, ResetFails, TypeOK
    <3>4. faults' \in 0 .. MaxFaults
      BY <2>7, FaultType DEF ResetCache, ResetFails, TypeOK
    <3>5. UNCHANGED <<tables, paid, call, answer, loading, loads>>
      BY <2>7 DEF ResetCache, ResetFails
    <3>6. QED BY <3>1, <3>2, <3>3, <3>4, <3>5 DEF TypeOK, tables
  <2>8. CASE Crash(n)
    <3>1. pc' \in [Callbacks -> Labels]
      BY <2>8, GotoEffect DEF Crash
    <3>2. lost[User(n)] \in BOOLEAN
      BY <2>2 DEF TypeOK
    <3>3. lost' \in [Users -> BOOLEAN]
      <4> DEFINE l == lost[User(n)] \/ pc[n] = "credited"
      <4>1. lost' = [lost EXCEPT ![User(n)] = l]
        BY <2>8 DEF Crash
      <4>2. l \in BOOLEAN
        OBVIOUS
      <4> HIDE DEF l
      <4>3. QED BY <4>1, <4>2 DEF TypeOK
    <3>4. faults' \in 0 .. MaxFaults /\ UNCHANGED <<tables, paid, call, answer, cache, loading, loads>>
      BY <2>8, FaultType DEF Crash
    <3>5. QED BY <3>1, <3>3, <3>4 DEF TypeOK, tables
  <2>9. QED
    BY <1>5, <2>3, <2>4, <2>5, <2>6, <2>7, <2>8 DEF HandleConfirm
<1>6. ASSUME NEW u \in Users, ReadBalance(u) \/ FillCache(u) \/ Spend(u) PROVE TypeOK'
  <2>1. CASE ReadBalance(u)
    BY <2>1, PaymentAssumption DEF ReadBalance, TypeOK, tables
  <2>2. CASE FillCache(u)
    <3> DEFINE l == loading[u] < balance[u]
    <3>1. lost' = [lost EXCEPT ![u] = l] /\ l \in BOOLEAN
      BY <2>2 DEF FillCache
    <3>2. lost' \in [Users -> BOOLEAN]
      <4> HIDE DEF l
      <4>1. QED BY <3>1 DEF TypeOK
    <3>3. cache' \in [Users -> Nat \cup {NoCache}] /\ loading' \in [Users -> Nat \cup {NoCache}]
      BY <2>2 DEF FillCache, TypeOK
    <3>4. UNCHANGED <<tables, paid, pc, call, answer, loads, faults>>
      BY <2>2 DEF FillCache
    <3>5. QED BY <3>2, <3>3, <3>4 DEF TypeOK, tables
  <2>3. CASE Spend(u)
    BY <2>3, PaymentAssumption DEF Spend, TypeOK
  <2>4. QED BY <1>6, <2>1, <2>2, <2>3
<1>7. CASE UNCHANGED vars
  BY <1>7 DEF vars, tables, redis, TypeOK
<1>8. QED
  BY <1>1, <1>2, <1>3, <1>4, <1>5, <1>6, <1>7 DEF Next

-----------------------------------------------------------------------------
(***************************************************************************)
(* Orders and credits.                                                     *)
(***************************************************************************)
\* A step credits an order for a callback that runs, creates a row, or leaves
\* the orders and their recharge rows alone.
LEMMA OrderSteps ==
    ASSUME TypeOK, [Next]_vars
    PROVE  \/ \E n \in Callbacks :
                  pc[n] = "run" /\ Credit(call[n].order, call[n].trade)
           \/ \E o \in Orders :
                  /\ order[o].status = "none" /\ UNCHANGED <<recharge, paid>>
                  /\ order' = [order EXCEPT ![o] = [status |-> "pending", trade |-> NoTrade]]
           \/ UNCHANGED <<order, recharge>>
<1>1. CASE \E o \in Orders : Create(o)
  BY <1>1 DEF Create
<1>2. ASSUME NEW n \in Callbacks, HandleConfirm(n)
      PROVE  (pc[n] = "run" /\ Credit(call[n].order, call[n].trade))
                 \/ UNCHANGED <<order, recharge>>
  BY <1>2
  DEF HandleConfirm, Deliver, Confirm, Repeat, Conflict, Error, ResetCache, ResetFails,
      Ack, tables
<1>3. ASSUME NEW n \in Callbacks, Receive(n) \/ Crash(n) PROVE UNCHANGED <<order, recharge>>
  BY <1>3 DEF Receive, Duplicate, Mismatch, Accept, Unavailable, Crash, tables
<1>4. ASSUME NEW n \in Callbacks, NEW o \in Orders, NEW t \in Trades, Notify(n, o, t)
      PROVE  UNCHANGED <<order, recharge>>
  BY <1>4 DEF Notify, tables
<1>5. ASSUME NEW o \in Orders, NEW t \in Trades, Pay(t, o)
      PROVE  UNCHANGED <<order, recharge>>
  BY <1>5 DEF Pay, tables
<1>6. ASSUME NEW u \in Users, ReadBalance(u) \/ FillCache(u) \/ Spend(u)
      PROVE  UNCHANGED <<order, recharge>>
  BY <1>6 DEF ReadBalance, FillCache, Spend, tables
<1>7. CASE UNCHANGED vars
  BY <1>7 DEF vars, tables
<1>8. QED BY <1>1, <1>2, <1>3, <1>4, <1>5, <1>6, <1>7 DEF Next

\* A trade that was paid stays so.
LEMMA PaidStays ==
    ASSUME TypeOK, [Next]_vars, NEW t \in Trades, paid[t] # {}
    PROVE  paid'[t] # {}
<1>1. ASSUME NEW s \in Trades, NEW o \in Orders, Pay(s, o) PROVE paid'[t] # {}
  BY <1>1 DEF Pay, TypeOK
<1>2. ASSUME NEW n \in Callbacks, HandleConfirm(n) \/ Receive(n) \/ Crash(n)
      PROVE  paid' = paid
  BY <1>2
  DEF HandleConfirm, Deliver, Confirm, Credit, Repeat, Conflict, Error, ResetCache,
      ResetFails, Ack, Receive, Duplicate, Mismatch, Accept, Unavailable, Crash
<1>3. ASSUME NEW n \in Callbacks, NEW o \in Orders, NEW s \in Trades, Notify(n, o, s)
      PROVE  paid' = paid
  BY <1>3 DEF Notify
<1>4. ASSUME NEW o \in Orders, Create(o) PROVE paid' = paid
  BY <1>4 DEF Create
<1>5. ASSUME NEW u \in Users, ReadBalance(u) \/ FillCache(u) \/ Spend(u) PROVE paid' = paid
  BY <1>5 DEF ReadBalance, FillCache, Spend
<1>6. CASE UNCHANGED vars
  BY <1>6 DEF vars
<1>7. QED BY <1>1, <1>2, <1>3, <1>4, <1>5, <1>6 DEF Next

\* Every step keeps what is known of the orders.
LEMMA OrdersKept ==
    ASSUME PaymentInv, [Next]_vars
    PROVE  /\ CreditedOnce' /\ CreditsBacked' /\ UnpaidBare'
           /\ \A o \in Orders :
                  order[o].status = "paid" =>
                      order'[o] = order[o] /\ recharge'[o] = recharge[o]
<1> USE DEF PaymentInv
<1>1. CASE UNCHANGED <<order, recharge>>
  <2>1. CreditedOnce' /\ UnpaidBare'
    BY <1>1 DEF CreditedOnce, UnpaidBare
  <2>2. CreditsBacked'
    <3>1. ASSUME NEW o \in Orders, order[o].status = "paid"
          PROVE  order[o].trade \in Trades /\ paid'[order[o].trade] # {}
      <4>1. order[o].trade \in Trades /\ paid[order[o].trade] # {}
        BY <3>1 DEF CreditsBacked, TypeOK, Order
      <4>2. QED BY <4>1, PaidStays
    <3>2. QED BY <1>1, <3>1 DEF CreditsBacked
  <2>3. QED BY <1>1, <2>1, <2>2
<1>2. ASSUME NEW o \in Orders, order[o].status = "none", UNCHANGED <<recharge, paid>>,
             order' = [order EXCEPT ![o] = [status |-> "pending", trade |-> NoTrade]]
      PROVE  /\ CreditedOnce' /\ CreditsBacked' /\ UnpaidBare'
             /\ \A p \in Orders :
                    order[p].status = "paid" =>
                        order'[p] = order[p] /\ recharge'[p] = recharge[p]
  <2>1. /\ order'[o].status = "pending" /\ order'[o].trade = NoTrade
        /\ \A p \in Orders \ {o} : order'[p] = order[p]
    BY <1>2 DEF TypeOK
  <2>2. CreditedOnce' /\ UnpaidBare'
    BY <1>2, <2>1 DEF CreditedOnce, UnpaidBare
  <2>3. CreditsBacked'
    BY <1>2, <2>1 DEF CreditsBacked
  <2>4. QED BY <1>2, <2>1, <2>2, <2>3
<1>3. ASSUME NEW n \in Callbacks, pc[n] = "run", Credit(call[n].order, call[n].trade)
      PROVE  /\ CreditedOnce' /\ CreditsBacked' /\ UnpaidBare'
             /\ \A p \in Orders :
                    order[p].status = "paid" =>
                        order'[p] = order[p] /\ recharge'[p] = recharge[p]
  <2> DEFINE o == call[n].order
             t == call[n].trade
  <2>1. o \in Orders /\ t \in Trades
    BY DEF TypeOK, Call
  <2>2. paid[t] # {} /\ Sum[t] = Amount[o]
    BY <1>3 DEF TasksChecked, AmountAgrees
  <2>3. /\ order[o].status = "pending" /\ order'[o].status = "paid" /\ order'[o].trade = t
        /\ recharge'[o] = recharge[o] + 1 /\ paid' = paid
        /\ \A p \in Orders \ {o} : order'[p] = order[p] /\ recharge'[p] = recharge[p]
        /\ \A p \in Orders : order[p].trade # t
    BY <1>3, <2>1, CreditEffect
  <2> HIDE DEF o, t
  <2>4. recharge[o] = 0
    BY <2>1, <2>3 DEF CreditedOnce
  <2>5. CreditedOnce' /\ UnpaidBare'
    BY <2>3, <2>4 DEF CreditedOnce, UnpaidBare
  <2>6. CreditsBacked'
    BY <2>1, <2>2, <2>3, PaymentAssumption DEF CreditsBacked
  <2>7. QED BY <2>3, <2>5, <2>6
<1>4. QED BY <1>1, <1>2, <1>3, OrderSteps

-----------------------------------------------------------------------------
(***************************************************************************)
(* Callbacks and their tasks.                                              *)
(***************************************************************************)
\* The three invariants about callbacks, for one of them.
Checked(n) ==
    /\ pc[n] # "idle" => paid[call[n].trade] # {}
    /\ pc[n] \in {"queue", "run", "credited", "ack", "dead"} => AmountAgrees(n)
    /\ pc[n] \in {"credited", "ack"} => PaidBy(call[n].order, call[n].trade)

Read(n) ==
    /\ call[n].seen = "paid" => order[call[n].order].status = "paid"
    /\ pc[n] \in {"idle", "check"} => answer[n] = "none"

Accounted(n) ==
    answer[n] = "success" =>
        order[call[n].order].status = "paid" \/ pc[n] \in {"queue", "run", "dead"}

Sound(n) == Checked(n) /\ Read(n) /\ Accounted(n)

\* What is known of the callbacks, callback by callback.
LEMMA SoundIs ==
    (\A n \in Callbacks : Sound(n)) <=> (TasksChecked /\ ReadsHold /\ SuccessAccounted)
BY DEF Sound, Checked, Read, Accounted, TasksChecked, ReadsHold, SuccessAccounted

\* A callback that keeps its place, names, reading and answer stays sound.
LEMMA SoundStays ==
    ASSUME PaymentInv, [Next]_vars, NEW n \in Callbacks, Sound(n),
           pc'[n] = pc[n], answer'[n] = answer[n],
           call'[n].order = call[n].order, call'[n].trade = call[n].trade,
           call'[n].seen = call[n].seen
    PROVE  Sound(n)'
<1>1. TypeOK /\ call[n].order \in Orders /\ call[n].trade \in Trades
  BY DEF PaymentInv, TypeOK, Call
<1>2. order[call[n].order].status = "paid" =>
          order'[call[n].order] = order[call[n].order]
  BY <1>1, OrdersKept
<1>3. paid[call[n].trade] # {} => paid'[call[n].trade] # {}
  BY <1>1, PaidStays
<1>4. Checked(n)'
  BY <1>2, <1>3 DEF Sound, Checked, AmountAgrees, PaidBy
<1>5. Read(n)'
  BY <1>2 DEF Sound, Read
<1>6. Accounted(n)'
  BY <1>2 DEF Sound, Accounted
<1>7. QED BY <1>4, <1>5, <1>6 DEF Sound

\* A callback moved on by a handler, with the order it named.
LEMMA SoundMoves ==
    ASSUME PaymentInv, [Next]_vars, NEW n \in Callbacks, Sound(n), pc[n] # "idle",
           call'[n].order = call[n].order, call'[n].trade = call[n].trade,
           call'[n].seen = call[n].seen,
           pc'[n] \notin {"idle", "check"},
           pc'[n] \in {"queue", "run", "credited", "ack", "dead"} => AmountAgrees(n),
           pc'[n] \in {"credited", "ack"} => PaidBy(call[n].order, call[n].trade)',
           answer'[n] = "success" =>
               \/ order'[call[n].order].status = "paid"
               \/ pc'[n] \in {"queue", "run", "dead"}
    PROVE  Sound(n)'
<1>1. TypeOK /\ call[n].order \in Orders /\ call[n].trade \in Trades
  BY DEF PaymentInv, TypeOK, Call
<1>2. order[call[n].order].status = "paid" =>
          order'[call[n].order] = order[call[n].order]
  BY <1>1, OrdersKept
<1>3. paid'[call[n].trade] # {}
  BY <1>1, PaidStays DEF Sound, Checked
<1>4. Checked(n)'
  BY <1>3 DEF Checked, AmountAgrees, PaidBy
<1>5. Read(n)'
  BY <1>2 DEF Sound, Read
<1>6. Accounted(n)'
  BY DEF Accounted
<1>7. QED BY <1>4, <1>5, <1>6 DEF Sound

\* Every step keeps what is known of the callbacks.
LEMMA CallbacksKept ==
    ASSUME PaymentInv, [Next]_vars
    PROVE  \A n \in Callbacks : Sound(n)'
<1>1. TypeOK /\ \A n \in Callbacks : Sound(n)
  BY SoundIs DEF PaymentInv
<1>2. ASSUME UNCHANGED <<pc, call, answer>> PROVE \A n \in Callbacks : Sound(n)'
  BY <1>1, <1>2, SoundStays
<1>3. CASE \E o \in Orders : Create(o) \/ \E t \in Trades : Pay(t, o)
  BY <1>2, <1>3 DEF Create, Pay
<1>4. CASE \E u \in Users : ReadBalance(u) \/ FillCache(u) \/ Spend(u)
  BY <1>2, <1>4 DEF ReadBalance, FillCache, Spend
<1>5. CASE UNCHANGED vars
  BY <1>2, <1>5 DEF vars
<1>6. ASSUME NEW n \in Callbacks, NEW o \in Orders, NEW t \in Trades, Notify(n, o, t)
      PROVE  \A m \in Callbacks : Sound(m)'
  <2>1. /\ pc[n] = "idle" /\ paid[t] # {} /\ UNCHANGED <<order, paid, answer>>
        /\ pc' = [pc EXCEPT ![n] = "check"]
        /\ call' = [call EXCEPT ![n] = [order |-> o, trade |-> t,
                                        seen |-> order[o].status, retries |-> 0]]
    BY <1>6 DEF Notify, Goto, tables
  <2>2. ASSUME NEW m \in Callbacks \ {n} PROVE Sound(m)'
    BY <1>1, <2>1, SoundStays DEF TypeOK
  <2>3. /\ pc'[n] = "check" /\ call'[n].order = o /\ call'[n].trade = t
        /\ call'[n].seen = order[o].status /\ answer'[n] = "none"
    BY <1>1, <2>1 DEF TypeOK, Sound, Read
  <2>4. Sound(n)'
    BY <2>1, <2>3 DEF Sound, Checked, Read, Accounted
  <2>5. QED BY <2>2, <2>4
<1>7. ASSUME NEW n \in Callbacks, Receive(n) PROVE \A m \in Callbacks : Sound(m)'
  <2>1. pc[n] = "check" /\ UNCHANGED <<order, paid, call>>
    BY <1>7 DEF Receive, Duplicate, Mismatch, Accept, Unavailable, tables
  <2>2. /\ \A m \in Callbacks \ {n} : pc'[m] = pc[m] /\ answer'[m] = answer[m]
        /\ pc'[n] \in {"queue", "done"}
    <3>1. CASE Duplicate(n)
      BY <1>1, <3>1, GotoEffect, AnswerEffect DEF Duplicate, Labels
    <3>2. CASE Mismatch(n)
      BY <1>1, <3>2, GotoEffect, AnswerEffect DEF Mismatch, Labels
    <3>3. CASE Accept(n)
      BY <1>1, <3>3, GotoEffect, AnswerEffect DEF Accept, Labels
    <3>4. CASE Unavailable(n)
      BY <1>1, <3>4, GotoEffect, AnswerEffect DEF Unavailable, Unpublished, Labels
    <3>5. QED BY <1>7, <3>1, <3>2, <3>3, <3>4 DEF Receive
  <2>3. pc'[n] = "queue" => AmountAgrees(n)
    <3>1. CASE Duplicate(n) \/ Mismatch(n)
      BY <1>1, <3>1, GotoEffect DEF Duplicate, Mismatch, Labels
    <3>2. CASE Accept(n) \/ Unavailable(n)
      BY <3>2 DEF Accept, Unavailable
    <3>3. QED BY <1>7, <3>1, <3>2 DEF Receive
  <2>4. answer'[n] = "success" => order'[call[n].order].status = "paid" \/ pc'[n] = "queue"
    <3>1. CASE Duplicate(n)
      BY <1>1, <2>1, <3>1 DEF Duplicate, Sound, Read
    <3>2. CASE Mismatch(n) \/ Unavailable(n)
      BY <1>1, <3>2, AnswerEffect DEF Mismatch, Unavailable, Unpublished
    <3>3. CASE Accept(n)
      BY <1>1, <3>3, GotoEffect DEF Accept, Labels
    <3>4. QED BY <1>7, <3>1, <3>2, <3>3 DEF Receive
  <2>5. Sound(n)'
    BY <1>1, <2>1, <2>2, <2>3, <2>4, SoundMoves
  <2>6. QED BY <1>1, <2>1, <2>2, <2>5, SoundStays
<1>8. ASSUME NEW n \in Callbacks, HandleConfirm(n) \/ Crash(n)
      PROVE  \A m \in Callbacks : Sound(m)'
  <2> DEFINE Rest == \A m \in Callbacks \ {n} : pc'[m] = pc[m] /\ call'[m] = call[m]
             Same == /\ call'[n].order = call[n].order
                     /\ call'[n].trade = call[n].trade
                     /\ call'[n].seen = call[n].seen
             Tasked == pc[n] \in {"queue", "run", "credited", "ack"}
  <2>1. ASSUME Tasked, Rest, Same, answer' = answer,
               pc'[n] \in {"queue", "run", "credited", "ack", "dead", "done"},
               pc'[n] \in {"credited", "ack", "done"} =>
                   PaidBy(call[n].order, call[n].trade)'
        PROVE  \A m \in Callbacks : Sound(m)'
    <3>1. AmountAgrees(n) /\ Sound(n)
      BY <1>1, <2>1 DEF Sound, Checked
    <3>2. Sound(n)'
      BY <2>1, <3>1, SoundMoves DEF PaidBy
    <3>3. \A m \in Callbacks \ {n} : Sound(m)'
      BY <1>1, <2>1, SoundStays
    <3>4. QED BY <3>2, <3>3
  <2>2. CASE Deliver(n) \/ Crash(n)
    <3>1. Tasked /\ call' = call /\ answer' = answer
      BY <2>2 DEF Deliver, Crash
    <3>2. pc'[n] \in {"run", "queue"} /\ Rest
      BY <1>1, <2>2, <3>1, GotoEffect DEF Deliver, Crash, Labels
    <3>3. QED BY <2>1, <3>1, <3>2
  <2>3. CASE Confirm(n)
    <3>1. pc[n] = "run" /\ Credit(call[n].order, call[n].trade) /\ UNCHANGED <<call, answer>>
      BY <2>3 DEF Confirm
    <3>2. pc'[n] = "credited" /\ Rest
      BY <1>1, <2>3, <3>1, GotoEffect DEF Confirm, Labels
    <3>3. call[n].order \in Orders /\ call[n].trade \in Trades
      BY <1>1 DEF TypeOK, Call
    <3>4. PaidBy(call[n].order, call[n].trade)'
      BY <1>1, <3>1, <3>3, CreditEffect DEF PaidBy
    <3>5. QED BY <2>1, <3>1, <3>2, <3>4
  <2>4. CASE Repeat(n)
    <3>1. pc[n] = "run" /\ UNCHANGED <<order, call, answer>>
          /\ PaidBy(call[n].order, call[n].trade)
      BY <2>4 DEF Repeat, PaidBy, tables
    <3>2. pc'[n] = "ack" /\ Rest
      BY <1>1, <2>4, <3>1, GotoEffect DEF Repeat, Labels
    <3>3. QED BY <2>1, <3>1, <3>2 DEF PaidBy
  <2>5. CASE Conflict(n) \/ Error(n)
    <3>1. pc[n] = "run" /\ Fail(n) /\ answer' = answer
      BY <2>5 DEF Conflict, Error
    <3>2. pc'[n] \in {"queue", "dead"} /\ Rest /\ Same
      BY <1>1, <3>1, FailEffect
    <3>3. QED BY <2>1, <3>1, <3>2
  <2>6. CASE ResetCache(n) \/ ResetFails(n) \/ Ack(n)
    <3>1. pc[n] \in {"credited", "ack"} /\ UNCHANGED <<order, call, answer>>
      BY <2>6 DEF ResetCache, ResetFails, Ack, tables
    <3>2. PaidBy(call[n].order, call[n].trade)
      BY <1>1, <3>1 DEF Sound, Checked
    <3>3. pc'[n] \in {"ack", "done"} /\ Rest
      BY <1>1, <2>6, <3>1, GotoEffect DEF ResetCache, ResetFails, Ack, Labels
    <3>4. QED BY <2>1, <3>1, <3>2, <3>3 DEF PaidBy
  <2>7. QED BY <1>8, <2>2, <2>3, <2>4, <2>5, <2>6 DEF HandleConfirm
<1>9. QED BY <1>3, <1>4, <1>5, <1>6, <1>7, <1>8 DEF Next

\* Every step keeps the invariant.
LEMMA StepInv == ASSUME PaymentInv, [Next]_vars PROVE PaymentInv'
<1>1. TypeOK'
  BY TypesKept DEF PaymentInv
<1>2. CreditedOnce' /\ CreditsBacked' /\ UnpaidBare'
  BY OrdersKept
<1>3. TasksChecked' /\ ReadsHold' /\ SuccessAccounted'
  <2>1. \A n \in Callbacks : Sound(n)'
    BY CallbacksKept
  <2>2. QED
    BY <2>1
    DEF Sound, Checked, Read, Accounted, TasksChecked, ReadsHold, SuccessAccounted
<1>4. QED BY <1>1, <1>2, <1>3 DEF PaymentInv

-----------------------------------------------------------------------------
(***************************************************************************)
(* Theorems.                                                               *)
(***************************************************************************)
\* The inductive invariant holds of every run.
THEOREM PaymentInvariant == Spec => []PaymentInv
<1>1. Init => PaymentInv
  BY InitInv
<1>2. PaymentInv /\ [Next]_vars => PaymentInv'
  BY StepInv
<1>3. QED BY <1>1, <1>2, PTL DEF Spec

\* An order is credited once when it is paid and never before, for any number
\* of callbacks, repeated deliveries, failures and crashes.
THEOREM NoDoubleCredit == Spec => []CreditedOnce
<1>1. PaymentInv => CreditedOnce
  BY DEF PaymentInv
<1>2. QED BY <1>1, PaymentInvariant, PTL

\* Every credit has a payment of its own and of its amount behind it.
THEOREM EveryCreditBacked == Spec => []CreditsBacked
<1>1. PaymentInv => CreditsBacked
  BY DEF PaymentInv
<1>2. QED BY <1>1, PaymentInvariant, PTL

\* No callback answered with success is forgotten.
THEOREM NoSuccessForgotten == Spec => []SuccessAccounted
<1>1. PaymentInv => SuccessAccounted
  BY DEF PaymentInv
<1>2. QED BY <1>1, PaymentInvariant, PTL

\* A paid order keeps its trade and its one recharge row.
THEOREM PaidStaysFinal == Spec => PaidIsFinal
<1> DEFINE Final == \A o \in Orders :
                        order[o].status = "paid" =>
                            order'[o] = order[o] /\ recharge'[o] = recharge[o]
<1>1. PaymentInv /\ [Next]_vars => [Final]_vars
  BY OrdersKept
<1>2. QED BY <1>1, PaymentInvariant, PTL DEF Spec, PaidIsFinal

-----------------------------------------------------------------------------
(***************************************************************************)
(* The cached balance.                                                     *)
(***************************************************************************)
\* The user has lost a reset, or has a credit whose reset is still to come.
Excused(u) ==
    lost[u] \/ \E n \in Callbacks : pc[n] = "credited" /\ Owner[call[n].order] = u

\* What a step must leave alone for a user's hash to be no more out of date.
LEMMA StaleFrom ==
    ASSUME TypeOK, StaleHasCause, NEW u \in Users,
           cache'[u] = cache[u], balance'[u] = balance[u], lost[u] => lost'[u],
           \A m \in Callbacks :
               pc[m] = "credited" /\ Owner[call[m].order] = u =>
                   lost'[u] \/ (pc'[m] = "credited" /\ call'[m].order = call[m].order),
           cache'[u] # NoCache, cache'[u] < balance'[u]
    PROVE  Excused(u)'
<1>1. Excused(u)
  BY DEF StaleHasCause, Excused, User
<1>2. CASE lost[u]
  BY <1>2 DEF Excused
<1>3. CASE \E m \in Callbacks : pc[m] = "credited" /\ Owner[call[m].order] = u
  <2>1. PICK m \in Callbacks : pc[m] = "credited" /\ Owner[call[m].order] = u
    BY <1>3
  <2>2. lost'[u] \/ (pc'[m] = "credited" /\ Owner[call'[m].order] = u)
    BY <2>1
  <2>3. QED BY <2>2 DEF Excused
<1>4. QED BY <1>1, <1>2, <1>3 DEF Excused

\* A credit touches the balance of its order's user, nobody else's.
LEMMA CreditBalance ==
    ASSUME TypeOK, NEW o \in Orders, NEW t \in Trades, Credit(o, t),
           NEW u \in Users, u # Owner[o]
    PROVE  balance'[u] = balance[u]
BY PaymentAssumption DEF Credit, TypeOK

\* Every step keeps StaleHasCause.
LEMMA StaleKept == ASSUME TypeOK, StaleHasCause, [Next]_vars PROVE StaleHasCause'
<1> SUFFICES ASSUME NEW u \in Users, cache'[u] # NoCache, cache'[u] < balance'[u]
             PROVE  Excused(u)'
  BY DEF StaleHasCause, Excused, User
<1>1. CASE UNCHANGED <<cache, balance, lost, pc, call>>
  BY <1>1, StaleFrom
<1>2. ASSUME NEW n \in Callbacks, NEW o \in Orders, NEW t \in Trades, Notify(n, o, t)
      PROVE  Excused(u)'
  <2>1. pc[n] = "idle" /\ UNCHANGED <<cache, balance, lost>>
    BY <1>2 DEF Notify, tables, redis
  <2>2. \A m \in Callbacks \ {n} : pc'[m] = pc[m] /\ call'[m] = call[m]
    BY <1>2 DEF Notify, Goto, TypeOK
  <2>3. QED BY <2>1, <2>2, StaleFrom
<1>3. ASSUME NEW n \in Callbacks, Receive(n) \/ Deliver(n) \/ Repeat(n) \/ Ack(n)
      PROVE  Excused(u)'
  <2>1. pc[n] # "credited" /\ UNCHANGED <<cache, balance, lost, call>>
    BY <1>3
    DEF Receive, Duplicate, Mismatch, Accept, Unavailable, Deliver, Repeat, Ack, tables, redis
  <2>2. \A m \in Callbacks \ {n} : pc'[m] = pc[m]
    BY <1>3
    DEF Receive, Duplicate, Mismatch, Accept, Unavailable, Deliver, Repeat, Ack, Goto, TypeOK
  <2>3. QED BY <2>1, <2>2, StaleFrom
<1>4. ASSUME NEW n \in Callbacks, Confirm(n) PROVE Excused(u)'
  <2>1. /\ pc[n] = "run" /\ Credit(call[n].order, call[n].trade)
        /\ UNCHANGED <<cache, lost, call>>
    BY <1>4 DEF Confirm, redis
  <2>2. pc'[n] = "credited" /\ \A m \in Callbacks \ {n} : pc'[m] = pc[m]
    BY <1>4 DEF Confirm, Goto, TypeOK
  <2>3. CASE u = Owner[call[n].order]
    BY <2>1, <2>2, <2>3 DEF Excused
  <2>4. CASE u # Owner[call[n].order]
    <3>1. balance'[u] = balance[u]
      BY <2>1, <2>4, CreditBalance DEF TypeOK, Call
    <3>2. QED BY <2>1, <2>2, <3>1, StaleFrom
  <2>5. QED BY <2>3, <2>4
<1>5. ASSUME NEW n \in Callbacks, Conflict(n) \/ Error(n) PROVE Excused(u)'
  <2>1. pc[n] = "run" /\ Fail(n) /\ cache' = cache
    BY <1>5 DEF Conflict, Error, redis
  <2>2. \A m \in Callbacks \ {n} : pc'[m] = pc[m] /\ call'[m] = call[m]
    BY <2>1, FailEffect
  <2>3. CASE UNCHANGED <<balance, lost>>
    BY <2>1, <2>2, <2>3, StaleFrom
  <2>4. CASE /\ Credit(call[n].order, call[n].trade)
             /\ lost' = [lost EXCEPT ![User(n)] = TRUE]
    <3>1. CASE u = User(n)
      BY <2>4, <3>1 DEF Excused, TypeOK
    <3>2. CASE u # User(n)
      <4>1. balance'[u] = balance[u]
        BY <2>4, <3>2, CreditBalance DEF TypeOK, Call, User
      <4>2. lost'[u] = lost[u]
        BY <2>4, <3>2 DEF TypeOK
      <4>3. QED BY <2>1, <2>2, <4>1, <4>2, StaleFrom
    <3>3. QED BY <3>1, <3>2
  <2>5. QED BY <1>5, <2>3, <2>4 DEF Conflict, Error, tables, redis
<1>6. ASSUME NEW n \in Callbacks, ResetCache(n) PROVE Excused(u)'
  <2>1. u # User(n)
    BY <1>6 DEF ResetCache, AfterReset, TypeOK
  <2>2. cache'[u] = cache[u] /\ lost'[u] = lost[u] /\ UNCHANGED <<balance, call>>
    BY <1>6, <2>1 DEF ResetCache, TypeOK, tables
  <2>3. \A m \in Callbacks \ {n} : pc'[m] = pc[m]
    BY <1>6 DEF ResetCache, Goto, TypeOK
  <2>4. QED BY <2>1, <2>2, <2>3, StaleFrom DEF User
<1>7. ASSUME NEW n \in Callbacks, ResetFails(n) PROVE Excused(u)'
  <2>1. lost'[u] = IF u = User(n) THEN TRUE ELSE lost[u]
    BY <1>7 DEF ResetFails, TypeOK
  <2>2. UNCHANGED <<cache, balance, call>>
    BY <1>7 DEF ResetFails, tables
  <2>3. \A m \in Callbacks \ {n} : pc'[m] = pc[m]
    BY <1>7 DEF ResetFails, Goto, TypeOK
  <2>4. QED BY <2>1, <2>2, <2>3, StaleFrom DEF User
<1>8. ASSUME NEW n \in Callbacks, Crash(n) PROVE Excused(u)'
  <2>1. UNCHANGED <<cache, balance, call>>
    BY <1>8 DEF Crash, tables
  <2>2. \A m \in Callbacks \ {n} : pc'[m] = pc[m]
    BY <1>8 DEF Crash, Goto, TypeOK
  <2> DEFINE l == lost[User(n)] \/ pc[n] = "credited"
  <2>3. lost' = [lost EXCEPT ![User(n)] = l]
    BY <1>8 DEF Crash
  <2>4. lost'[u] = IF u = User(n) THEN l ELSE lost[u]
    <3> HIDE DEF l
    <3>1. QED BY <2>3 DEF TypeOK
  <2>5. lost[u] => lost'[u]
    BY <2>4
  <2>6. pc[n] = "credited" /\ Owner[call[n].order] = u => lost'[u]
    BY <2>4 DEF User
  <2>7. QED BY <2>1, <2>2, <2>5, <2>6, StaleFrom
<1>9. ASSUME NEW v \in Users, ReadBalance(v) \/ FillCache(v) \/ Spend(v)
      PROVE  Excused(u)'
  <2>1. CASE ReadBalance(v)
    BY <2>1, StaleFrom DEF ReadBalance, tables
  <2>2. CASE FillCache(v)
    <3> DEFINE l == loading[v] < balance[v]
    <3>1. UNCHANGED <<balance, pc, call>> /\ lost' = [lost EXCEPT ![v] = l]
      BY <2>2 DEF FillCache, tables
    <3>2. lost'[u] = IF u = v THEN l ELSE lost[u]
      <4> HIDE DEF l
      <4>1. QED BY <3>1 DEF TypeOK
    <3>3. cache'[u] = IF u = v THEN loading[v] ELSE cache[u]
      BY <2>2 DEF FillCache, TypeOK
    <3>4. CASE u = v
      <4>1. l
        BY <3>1, <3>3, <3>4
      <4>2. QED BY <3>2, <3>4, <4>1 DEF Excused
    <3>5. CASE u # v
      BY <3>1, <3>2, <3>3, <3>5, StaleFrom
    <3>6. QED BY <3>4, <3>5
  <2>3. CASE Spend(v)
    <3>1. u # v
      BY <2>3 DEF Spend, TypeOK
    <3>2. /\ cache'[u] = cache[u] /\ balance'[u] = balance[u] /\ lost'[u] = lost[u]
          /\ UNCHANGED <<pc, call>>
      BY <2>3, <3>1 DEF Spend, TypeOK
    <3>3. QED BY <3>2, StaleFrom
  <2>4. QED BY <1>9, <2>1, <2>2, <2>3
<1>10. ASSUME NEW o \in Orders, Create(o) \/ \E t \in Trades : Pay(t, o)
       PROVE  Excused(u)'
  BY <1>1, <1>10 DEF Create, Pay, tables, redis
<1>11. CASE UNCHANGED vars
  BY <1>1, <1>11 DEF vars, tables, redis
<1>12. QED
  BY <1>2, <1>3, <1>4, <1>5, <1>6, <1>7, <1>8, <1>9, <1>10, <1>11 DEF Next, HandleConfirm

\* A user's hash stays below the balance for no reason but a reset that is
\* still to come or was lost, or a reload that a credit overtook.
THEOREM StaleOnlyForCause == Spec => []StaleHasCause
<1>1. Init => StaleHasCause
  BY DEF Init, StaleHasCause
<1>2. PaymentInv /\ StaleHasCause /\ [Next]_vars => StaleHasCause'
  BY StaleKept DEF PaymentInv
<1>3. QED BY <1>1, <1>2, PaymentInvariant, PTL DEF Spec
=============================================================================
