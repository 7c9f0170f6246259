------------------------------- MODULE Payment -------------------------------
(***************************************************************************)
(* Recharge orders from the callback of the payment provider to the credit *)
(* (httpserver/portal_pay_notify.go, payment/confirm.go and                *)
(* repository/payment_confirm.go) and the cached balance the credit must   *)
(* make visible.                                                           *)
(*                                                                         *)
(* A callback reads the order without a lock, publishes payment:confirm    *)
(* and answers; the task is delivered at least once and credits the order  *)
(* in one transaction.  The provider repeats callbacks, a payer may pay an *)
(* order twice, and a payment may come back under another order's number.  *)
(***************************************************************************)
EXTENDS Integers, FiniteSetsExt

CONSTANTS
    Users, Orders, Trades,
    Owner,          \* user of an order
    Amount,         \* of an order
    Sum,            \* that moved with a trade at the provider
    Cost,           \* of a call
    NoTrade, NoCache,
    Callbacks,      \* bound: callbacks, each with its task, numbered
    MaxRetry,       \* of critical
    MaxFaults,      \* bound: failures and crashes
    MaxLoads        \* bound: reloads of the cached balance

ASSUME PaymentAssumption ==
    /\ Orders # {} /\ Trades # {}
    /\ Owner \in [Orders -> Users]
    /\ Amount \in [Orders -> Nat \ {0}] /\ Sum \in [Trades -> Nat \ {0}]
    /\ Cost \in Nat \ {0}
    /\ NoTrade \notin Trades /\ NoCache \notin Nat
    /\ Callbacks \subseteq Nat
    /\ MaxRetry \in Nat /\ MaxFaults \in Nat /\ MaxLoads \in Nat

VARIABLES
    order,          \* row of payment_orders; status "none": no row yet
    recharge,       \* recharge rows of the order in billing_ledger
    balance, spent, \* of a user, and what calls have cost
    paid,           \* at the provider: the order a trade paid
    pc,             \* callback, then its task
    call,           \* number and trade it names, the status read, the retries
    answer,         \* to the provider
    cache,          \* the user's hash in Redis
    loading,        \* balance a reload has read and not yet written
    lost,           \* history: the hash fell behind for good
    loads, faults

tables == <<order, recharge, balance, spent>>
redis == <<cache, loading, lost, loads>>
vars == <<tables, paid, pc, call, answer, redis, faults>>

Statuses == {"none", "pending", "paid"}
Order == [status : Statuses, trade : Trades \cup {NoTrade}]
Call == [order : Orders, trade : Trades, seen : Statuses, retries : Nat]

\* Of a callback that has not come.
Blank == [order |-> CHOOSE o \in Orders : TRUE, trade |-> CHOOSE t \in Trades : TRUE,
          seen |-> "none", retries |-> 0]

User(n) == Owner[call[n].order]

-----------------------------------------------------------------------------
Init ==
    /\ order = [o \in Orders |-> [status |-> "none", trade |-> NoTrade]]
    /\ recharge = [o \in Orders |-> 0]
    /\ balance = [u \in Users |-> 0]
    /\ spent = [u \in Users |-> 0]
    /\ paid = [t \in Trades |-> {}]
    /\ pc = [n \in Callbacks |-> "idle"]
    /\ call = [n \in Callbacks |-> Blank]
    /\ answer = [n \in Callbacks |-> "none"]
    /\ cache = [u \in Users |-> NoCache]
    /\ loading = [u \in Users |-> NoCache]
    /\ lost = [u \in Users |-> FALSE]
    /\ loads = 0
    /\ faults = 0

Goto(n, label) == pc' = [pc EXCEPT ![n] = label]

Fault == faults < MaxFaults /\ faults' = faults + 1

\* A row under a number nobody has; a number that is taken is drawn again.
Create(o) ==
    /\ order[o].status = "none"
    /\ order' = [order EXCEPT ![o] = [status |-> "pending", trade |-> NoTrade]]
    /\ UNCHANGED <<recharge, balance, spent, paid, pc, call, answer, redis, faults>>

\* The payer pays an order, be it expired or paid already.
Pay(t, o) ==
    /\ order[o].status # "none" /\ paid[t] = {}
    /\ paid' = [paid EXCEPT ![t] = {o}]
    /\ UNCHANGED <<tables, pc, call, answer, redis, faults>>

\* A callback names a trade and an order, whose row is read.
Notify(n, o, t) ==
    /\ pc[n] = "idle" /\ \A m \in Callbacks : m < n => pc[m] # "idle"
    /\ paid[t] # {} /\ order[o].status # "none"
    /\ call' = [call EXCEPT ![n] = [order |-> o, trade |-> t,
                                    seen |-> order[o].status, retries |-> 0]]
    /\ Goto(n, "check")
    /\ UNCHANGED <<tables, paid, answer, redis, faults>>

Answer(n, what) == answer' = [answer EXCEPT ![n] = what]

\* The order was paid: success, whichever trade paid it.
Duplicate(n) ==
    /\ pc[n] = "check" /\ call[n].seen = "paid"
    /\ Answer(n, "success")
    /\ Goto(n, "done")
    /\ UNCHANGED <<tables, paid, call, redis, faults>>

AmountAgrees(n) == Sum[call[n].trade] = Amount[call[n].order]

\* The amount is not the order's: 400.
Mismatch(n) ==
    /\ pc[n] = "check" /\ call[n].seen = "pending"
    /\ ~AmountAgrees(n)
    /\ Answer(n, "refused")
    /\ Goto(n, "done")
    /\ UNCHANGED <<tables, paid, call, redis, faults>>

\* payment:confirm is published.
Accept(n) ==
    /\ pc[n] = "check" /\ call[n].seen = "pending"
    /\ AmountAgrees(n)
    /\ Answer(n, "success")
    /\ Goto(n, "queue")
    /\ UNCHANGED <<tables, paid, call, redis, faults>>

\* Mutant of Unpublished: the failure is only logged.
Logged == "success"

\* Answer when publishing failed: 503.
Unpublished == "refused"

\* Publishing fails; the broker may have the task all the same.
Unavailable(n) ==
    /\ pc[n] = "check" /\ call[n].seen = "pending"
    /\ AmountAgrees(n)
    /\ Fault
    /\ Answer(n, Unpublished)
    /\ Goto(n, "done") \/ Goto(n, "queue")
    /\ UNCHANGED <<tables, paid, call, redis>>

Deliver(n) ==
    /\ pc[n] = "queue"
    /\ Goto(n, "run")
    /\ UNCHANGED <<tables, paid, call, answer, redis, faults>>

\* Mutant of Open: the row lock without the condition on the status.
Always(o) == order[o].status # "none"

\* The row the conditional update finds.
Open(o) == order[o].status = "pending" /\ order[o].trade = NoTrade

\* Mutant of Unique: no unique index.
NotUnique(t) == TRUE

\* uq_payment_orders_trade_no: no other order has the trade.
Unique(t) == \A o \in Orders : order[o].trade # t

\* The user's balance with the order.
Credited(u, o) == balance[u] + Amount[o]

\* The transaction of ConfirmPayment when it commits a credit.
Credit(o, t) ==
    /\ Open(o) /\ Unique(t)
    /\ order' = [order EXCEPT ![o] = [status |-> "paid", trade |-> t]]
    /\ recharge' = [recharge EXCEPT ![o] = @ + 1]
    /\ balance' = [balance EXCEPT ![Owner[o]] = Credited(Owner[o], o)]
    /\ UNCHANGED <<spent, paid>>

Confirm(n) ==
    /\ pc[n] = "run"
    /\ Credit(call[n].order, call[n].trade)
    /\ Goto(n, "credited")
    /\ UNCHANGED <<call, answer, redis, faults>>

\* The row is paid by this very trade: a repetition, handled without a reset.
Repeat(n) ==
    /\ pc[n] = "run"
    /\ ~Open(call[n].order)
    /\ order[call[n].order] = [status |-> "paid", trade |-> call[n].trade]
    /\ Goto(n, "ack")
    /\ UNCHANGED <<tables, paid, call, answer, redis, faults>>

Exhausted(n) == call[n].retries >= MaxRetry

\* Mutant of Retried: the failure is acked.
Dropped == "done"

\* Where a failed task goes while it has retries left.
Retried == "queue"

\* The handler answers an error.
Fail(n) ==
    IF Exhausted(n)
    THEN Goto(n, "dead") /\ UNCHANGED call
    ELSE Goto(n, Retried) /\ call' = [call EXCEPT ![n].retries = @ + 1]

\* ErrOrderState, or the unique index refuses the trade.
Conflict(n) ==
    /\ pc[n] = "run"
    /\ IF Open(call[n].order)
       THEN ~Unique(call[n].trade)
       ELSE order[call[n].order].trade # call[n].trade
    /\ Fail(n)
    /\ UNCHANGED <<tables, paid, answer, redis, faults>>

\* The transaction fails, or its commit is not heard of.
Error(n) ==
    /\ pc[n] = "run"
    /\ Fault
    /\ Fail(n)
    /\ \/ UNCHANGED <<tables, paid, lost>>
       \/ /\ Credit(call[n].order, call[n].trade)
          /\ lost' = [lost EXCEPT ![User(n)] = TRUE]
    /\ UNCHANGED <<answer, cache, loading, loads>>

\* Mutant of AfterReset: the hash is left as it is.
Kept(u) == cache[u]

\* DEL balance:<user>.
AfterReset(u) == NoCache

ResetCache(n) ==
    /\ pc[n] = "credited"
    /\ cache' = [cache EXCEPT ![User(n)] = AfterReset(User(n))]
    /\ lost' = [lost EXCEPT ![User(n)] = FALSE]
    /\ Goto(n, "ack")
    /\ UNCHANGED <<tables, paid, call, answer, loading, loads, faults>>

\* The owner's lookup or the DEL fails: ignored.
ResetFails(n) ==
    /\ pc[n] = "credited"
    /\ Fault
    /\ lost' = [lost EXCEPT ![User(n)] = TRUE]
    /\ Goto(n, "ack")
    /\ UNCHANGED <<tables, paid, call, answer, cache, loading, loads>>

Ack(n) ==
    /\ pc[n] = "ack"
    /\ Goto(n, "done")
    /\ UNCHANGED <<tables, paid, call, answer, redis, faults>>

\* The worker dies, or its channel goes: the task is delivered again.
Crash(n) ==
    /\ pc[n] \in {"run", "credited", "ack"}
    /\ Fault
    /\ lost' = [lost EXCEPT ![User(n)] = @ \/ pc[n] = "credited"]
    /\ Goto(n, "queue")
    /\ UNCHANGED <<tables, paid, call, answer, cache, loading, loads>>

\* A call finds no hash and reads the balance ...
ReadBalance(u) ==
    /\ cache[u] = NoCache /\ loading[u] = NoCache
    /\ loads < MaxLoads
    /\ loads' = loads + 1
    /\ loading' = [loading EXCEPT ![u] = balance[u]]
    /\ UNCHANGED <<tables, paid, pc, call, answer, cache, lost, faults>>

\* ... and writes it to Redis.
FillCache(u) ==
    /\ loading[u] # NoCache
    /\ cache' = [cache EXCEPT ![u] = loading[u]]
    /\ lost' = [lost EXCEPT ![u] = loading[u] < balance[u]]
    /\ loading' = [loading EXCEPT ![u] = NoCache]
    /\ UNCHANGED <<tables, paid, pc, call, answer, loads, faults>>

\* A call the hash can pay for; its settlement resets the hash.
Spend(u) ==
    /\ cache[u] # NoCache /\ cache[u] >= Cost
    /\ balance[u] >= Cost
    /\ balance' = [balance EXCEPT ![u] = @ - Cost]
    /\ spent' = [spent EXCEPT ![u] = @ + Cost]
    /\ cache' = [cache EXCEPT ![u] = NoCache]
    /\ lost' = [lost EXCEPT ![u] = FALSE]
    /\ UNCHANGED <<order, recharge, paid, pc, call, answer, loading, loads, faults>>

Receive(n) == Duplicate(n) \/ Mismatch(n) \/ Accept(n) \/ Unavailable(n)

HandleConfirm(n) ==
    \/ Deliver(n) \/ Confirm(n) \/ Repeat(n) \/ Conflict(n) \/ Error(n)
    \/ ResetCache(n) \/ ResetFails(n) \/ Ack(n)

Next ==
    \/ \E o \in Orders : Create(o) \/ \E t \in Trades : Pay(t, o)
    \/ \E n \in Callbacks :
           \/ \E o \in Orders, t \in Trades : Notify(n, o, t)
           \/ Receive(n) \/ HandleConfirm(n) \/ Crash(n)
    \/ \E u \in Users : ReadBalance(u) \/ FillCache(u) \/ Spend(u)

Spec == Init /\ [][Next]_vars

\* Handlers run to their end, tasks are delivered, a reload is written.
Fairness ==
    /\ \A n \in Callbacks : WF_vars(Receive(n)) /\ WF_vars(HandleConfirm(n))
    /\ \A u \in Users : WF_vars(FillCache(u))

FairSpec == Spec /\ Fairness

-----------------------------------------------------------------------------
(***************************************************************************)
(* Properties.                                                             *)
(***************************************************************************)
\* Types of the variables; no task has more than MaxRetry retries.
TypeOK ==
    /\ order \in [Orders -> Order]
    /\ recharge \in [Orders -> Nat]
    /\ balance \in [Users -> Nat]
    /\ spent \in [Users -> Nat]
    /\ paid \in [Trades -> SUBSET Orders]
    /\ pc \in [Callbacks ->
               {"idle", "check", "queue", "run", "credited", "ack", "done", "dead"}]
    /\ call \in [Callbacks -> Call]
    /\ \A n \in Callbacks : call[n].retries <= MaxRetry
    /\ answer \in [Callbacks -> {"none", "success", "refused"}]
    /\ cache \in [Users -> Nat \cup {NoCache}]
    /\ loading \in [Users -> Nat \cup {NoCache}]
    /\ lost \in [Users -> BOOLEAN]
    /\ loads \in 0 .. MaxLoads
    /\ faults \in 0 .. MaxFaults

\* However often a payment is announced and its task delivered, an order has
\* one recharge row when it is paid and none before.
CreditedOnce ==
    \A o \in Orders : recharge[o] = IF order[o].status = "paid" THEN 1 ELSE 0

\* Every credit has a payment of its own behind it, of the order's amount: two
\* orders are never paid by one trade.
CreditsBacked ==
    \A o \in Orders :
        order[o].status = "paid" =>
            LET t == order[o].trade
            IN  /\ t # NoTrade /\ paid[t] # {} /\ Sum[t] = Amount[o]
                /\ \A p \in Orders \ {o} : order[p].trade # t

\* A callback answered with success has its order credited, or its task is on
\* its way or dead: none is forgotten because publishing failed.
SuccessAccounted ==
    \A n \in Callbacks :
        answer[n] = "success" =>
            \/ order[call[n].order].status = "paid"
            \/ pc[n] \in {"queue", "run", "dead"}

\* The hash is below the balance only until the credit's reset, or after the
\* reset was lost, or because a reload read before the credit and wrote after.
StaleHasCause ==
    \A u \in Users :
        cache[u] # NoCache /\ cache[u] < balance[u] =>
            lost[u] \/ \E n \in Callbacks : pc[n] = "credited" /\ User(n) = u

\* What paid an order and what was credited for it never changes again.
PaidIsFinal ==
    [][\A o \in Orders :
           order[o].status = "paid" =>
               order'[o] = order[o] /\ recharge'[o] = recharge[o]]_vars

\* A callback answered with success ends with its order paid or its task dead.
SuccessSettles ==
    \A n \in Callbacks :
        answer[n] = "success" ~>
            order[call[n].order].status = "paid" \/ pc[n] = "dead"

(***************************************************************************)
(* The invariant behind CreditedOnce, CreditsBacked and SuccessAccounted.  *)
(***************************************************************************)
PaidBy(o, t) == order[o].status = "paid" /\ order[o].trade = t

\* Only a paid order has a trade.
UnpaidBare == \A o \in Orders : order[o].status # "paid" => order[o].trade = NoTrade

\* A task moves a trade that was paid, of its order's amount.
TasksChecked ==
    \A n \in Callbacks :
        /\ pc[n] # "idle" => paid[call[n].trade] # {}
        /\ pc[n] \in {"queue", "run", "credited", "ack", "dead"} => AmountAgrees(n)
        /\ pc[n] \in {"credited", "ack"} => PaidBy(call[n].order, call[n].trade)

\* What a callback read of an order still holds when it says "paid", and it
\* answers after it has read.
ReadsHold ==
    \A n \in Callbacks :
        /\ call[n].seen = "paid" => order[call[n].order].status = "paid"
        /\ pc[n] \in {"idle", "check"} => answer[n] = "none"

PaymentInv ==
    /\ TypeOK /\ CreditedOnce /\ CreditsBacked /\ UnpaidBare
    /\ TasksChecked /\ ReadsHold /\ SuccessAccounted
=============================================================================
