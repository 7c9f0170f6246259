----------------------------- MODULE Settlement -----------------------------
(***************************************************************************)
(* The worker side of billing: the handlers billing:settle and             *)
(* billing:refund (billing/engine.go) run by concurrent workers over       *)
(* at-least-once deliveries, the recharge and the manual adjustment that   *)
(* write the same balance rows, and the PostgreSQL rows they share.        *)
(*                                                                         *)
(* A handler is split where another transaction can come between: the L2   *)
(* lookup, each statement of the transaction that reads or locks the       *)
(* balance row, the commit, the L2 write, the release of the reservation   *)
(* and the acknowledgement.  PostgreSQL runs READ COMMITTED: a plain       *)
(* SELECT reads the last committed row without waiting, an UPDATE waits    *)
(* for the row lock and re-evaluates its WHERE clause on the row it locks. *)
(* Amounts are whole numbers of the smallest unit.                         *)
(***************************************************************************)
EXTENDS Integers, Sequences, Functions

CONSTANTS
    Workers,        \* consumer goroutines of the critical queue
    NoWorker,       \* holder of an unlocked row
    NoDelivery,     \* job of an idle worker
    Users, Requests, Orders, Adjusts,
    Owner,          \* user of a request
    Tasks,          \* the settle and refund tasks that may be published
    Charge,         \* settle: ComputeCost of the payload; refund: its amount
    Copies,         \* deliveries of one task: publish retries, duplicates
    MaxRetry,       \* x-retry-count at which a failure is dead-lettered
    MaxCrashes,     \* bound: worker crashes
    ResetMayFail,   \* whether Cache.Reset may fail (its error is ignored)
    OrderOwner, OrderAmount,
    AdjustUser, AdjustDelta,
    Opening,        \* balances when the observed window starts
    OpeningRows     \* users that have a user_balances row by then

TaskType == [kind : {"settle", "refund"}, req : Requests]

ASSUME SettlementAssumption ==
    /\ NoWorker \notin Workers
    /\ NoDelivery \notin Tasks \X Copies
    /\ Owner \in [Requests -> Users]
    /\ Tasks \subseteq TaskType
    /\ Charge \in [Tasks -> Nat]
    /\ MaxRetry \in Nat
    /\ MaxCrashes \in Nat
    /\ ResetMayFail \in BOOLEAN
    /\ OrderOwner \in [Orders -> Users]
    /\ OrderAmount \in [Orders -> Nat]
    /\ AdjustUser \in [Adjusts -> Users]
    /\ AdjustDelta \in [Adjusts -> Int]
    /\ Opening \in [Users -> Nat]
    /\ OpeningRows \subseteq Users
    /\ \A u \in Users \ OpeningRows : Opening[u] = 0

Deliveries == Tasks \X Copies

VARIABLES
    balance,    \* user_balances.balance, committed
    consumed,   \* user_balances.total_consumed, committed
    rows,       \* users with a user_balances row
    ledger,     \* billing_ledger, committed, in insertion order
    lock,       \* user -> worker whose open transaction locked the row
    l2,         \* idempotency_records of scopes settle and refund
    behind,     \* booked tasks the cached hash of their user may not show
    missed,     \* tasks with an L2 record whose Cache.Reset failed or was
                \* skipped by a crash or a lost answer
    paid,       \* orders whose recharge is committed
    adjusted,   \* adjustments that were committed
    place,      \* where a delivery is
    tries,      \* x-retry-count of a delivery
    pc, job,    \* per worker: next statement, delivery being handled
    draft,      \* per worker: ledger values the open transaction will commit
    crashes

rowVars == <<balance, consumed, rows, ledger, lock>>
sideVars == <<l2, behind, missed, paid, adjusted>>
queueVars == <<place, tries>>
workerVars == <<pc, job, draft>>
vars == <<rowVars, sideVars, queueVars, workerVars, crashes>>

Places == {"unsent", "queued", "held", "acked", "dead"}
Steps == {"idle", "lookup", "update", "read", "zero", "commit", "put",
          "release", "ack"}

NoDraft == [amount |-> 0, overdraft |-> 0, after |-> 0]
DraftType == [amount : Int, overdraft : Int, after : Nat]

\* One row of billing_ledger; "ref" is request_id, payment_order_id or the
\* adjustment, whichever the type uses.
EntryType ==
    [kind : {"settle", "refund", "recharge", "adjust"},
     ref : Requests \cup Orders \cup Adjusts,
     user : Users, amount : Int, overdraft : Int, after : Nat]

Entry(kind, ref, user, d) ==
    [kind |-> kind, ref |-> ref, user |-> user, amount |-> d.amount,
     overdraft |-> d.overdraft, after |-> d.after]

TaskOf(w) == job[w][1]
UserOf(w) == Owner[TaskOf(w).req]

\* Mutant of Posted: the partial unique indexes are missing.
NoUniqueIndex(t) == t \notin Tasks

\* LedgerExistsByRequestID and the index lookup of uq_ledger_settle and
\* uq_ledger_refund.
Posted(t) ==
    \E i \in DOMAIN ledger : ledger[i].kind = t.kind /\ ledger[i].ref = t.req

-----------------------------------------------------------------------------
Init ==
    /\ balance = Opening
    /\ consumed = [u \in Users |-> 0]
    /\ rows = OpeningRows
    /\ ledger = << >>
    /\ lock = [u \in Users |-> NoWorker]
    /\ l2 = {}
    /\ behind = {}
    /\ missed = {}
    /\ paid = {}
    /\ adjusted = {}
    /\ place = [d \in Deliveries |-> "unsent"]
    /\ tries = [d \in Deliveries |-> 0]
    /\ pc = [w \in Workers |-> "idle"]
    /\ job = [w \in Workers |-> NoDelivery]
    /\ draft = [w \in Workers |-> NoDraft]
    /\ crashes = 0

Goto(w, step) == pc' = [pc EXCEPT ![w] = step]

\* Mutant of Free: the writers do not wait for each other's row lock.
NoRowLock(u) == u \in Users

\* No open transaction has locked u's row.
Free(u) == lock[u] = NoWorker

\* WHERE user_id = u AND balance >= cost, on the committed row.
Covers(u, cost) == u \in rows /\ balance[u] >= cost

\* SendSettle, or any later duplicate of the message: a WAL replay, a
\* republication after a lost confirm, a retry published but not acked.
Publish(d) ==
    /\ place[d] = "unsent"
    /\ place' = [place EXCEPT ![d] = "queued"]
    /\ UNCHANGED <<rowVars, sideVars, tries, workerVars, crashes>>

\* A message in the queue that no consumer holds.
Takeable(d) == place[d] = "queued"

\* A worker takes one message at a time from its channel.
Take(w, d) ==
    /\ pc[w] = "idle"
    /\ Takeable(d)
    /\ place' = [place EXCEPT ![d] = "held"]
    /\ job' = [job EXCEPT ![w] = d]
    /\ Goto(w, "lookup")
    /\ UNCHANGED <<rowVars, sideVars, tries, draft, crashes>>

\* GetIdempotency: a hit ends the handler with success.  A refund of zero
\* ends it too; a settle of zero skips the transaction only.
Lookup(w) ==
    /\ pc[w] = "lookup"
    /\ LET t == TaskOf(w) IN
       Goto(w, IF t \in l2 THEN "ack"
               ELSE IF Charge[t] > 0 THEN "update"
               ELSE IF t.kind = "settle" THEN "put" ELSE "ack")
    /\ UNCHANGED <<rowVars, sideVars, queueVars, job, draft, crashes>>

\* UPDATE ... SET balance = balance - cost WHERE balance >= cost, one row.
Debit(w) ==
    LET u == UserOf(w)
        cost == Charge[TaskOf(w)] IN
    /\ pc[w] = "update"
    /\ TaskOf(w).kind = "settle"
    /\ Free(u)
    /\ Covers(u, cost)
    /\ lock' = [lock EXCEPT ![u] = w]
    /\ draft' = [draft EXCEPT ![w] = [amount |-> -cost, overdraft |-> 0,
                                      after |-> balance[u] - cost]]
    /\ Goto(w, "commit")
    /\ UNCHANGED <<balance, consumed, rows, ledger, sideVars, queueVars, job,
                   crashes>>

\* The same UPDATE matching no row: it does not wait for a locked row whose
\* committed version fails the condition.
Miss(w) ==
    /\ pc[w] = "update"
    /\ TaskOf(w).kind = "settle"
    /\ ~Covers(UserOf(w), Charge[TaskOf(w)])
    /\ Goto(w, "read")
    /\ UNCHANGED <<rowVars, sideVars, queueVars, job, draft, crashes>>

\* Mutant of Shortfall: the whole cost is booked on top of the overdraft.
WholeCost(b, cost) == [amount |-> -cost, overdraft |-> cost - b, after |-> 0]

\* The ledger row of a settlement that exceeds the balance b.
Shortfall(b, cost) == [amount |-> -b, overdraft |-> cost - b, after |-> 0]

\* fetchBalance of the overdraft branch: an unlocked read, from which the
\* values of the ledger row follow.  Without a row it cannot parse the empty
\* result and the handler fails (see Fail).
ReadBalance(w) ==
    LET u == UserOf(w) IN
    /\ pc[w] = "read"
    /\ u \in rows
    /\ draft' = [draft EXCEPT ![w] = Shortfall(balance[u], Charge[TaskOf(w)])]
    /\ Goto(w, "zero")
    /\ UNCHANGED <<rowVars, sideVars, queueVars, job, crashes>>

\* UPDATE ... SET balance = 0, total_consumed = total_consumed + bal: locks
\* the row whatever its balance has become since ReadBalance.
ZeroOut(w) ==
    /\ pc[w] = "zero"
    /\ Free(UserOf(w))
    /\ lock' = [lock EXCEPT ![UserOf(w)] = w]
    /\ Goto(w, "commit")
    /\ UNCHANGED <<balance, consumed, rows, ledger, sideVars, queueVars, job,
                   draft, crashes>>

\* The UPDATE of handleRefund.  Without a row it changes nothing and the
\* fetchBalance after it fails (see Fail).
Credit(w) ==
    LET u == UserOf(w)
        amount == Charge[TaskOf(w)] IN
    /\ pc[w] = "update"
    /\ TaskOf(w).kind = "refund"
    /\ u \in rows
    /\ Free(u)
    /\ lock' = [lock EXCEPT ![u] = w]
    /\ draft' = [draft EXCEPT ![w] = [amount |-> amount, overdraft |-> 0,
                                      after |-> balance[u] + amount]]
    /\ Goto(w, "commit")
    /\ UNCHANGED <<balance, consumed, rows, ledger, sideVars, queueVars, job,
                   crashes>>

\* The transaction of w ends: its row lock and its local values are gone.
EndTx(w) ==
    /\ lock' = [u \in Users |-> IF lock[u] = w THEN NoWorker ELSE lock[u]]
    /\ draft' = [draft EXCEPT ![w] = NoDraft]

\* What w's transaction adds to total_consumed.
Consumption(w) == IF TaskOf(w).kind = "settle" THEN -draft[w].amount ELSE 0

\* The writes that become visible when w's transaction commits.  A balance
\* hash loaded before does not know of them.
Apply(w) ==
    LET u == UserOf(w) IN
    /\ balance' = [balance EXCEPT ![u] = draft[w].after]
    /\ consumed' = [consumed EXCEPT ![u] = @ + Consumption(w)]
    /\ ledger' = Append(ledger, Entry(TaskOf(w).kind, TaskOf(w).req, u, draft[w]))
    /\ behind' = behind \cup {TaskOf(w)}

\* INSERT INTO billing_ledger and COMMIT: no other transaction sees anything
\* between the two, the row is locked.
Commit(w) ==
    /\ pc[w] = "commit"
    /\ ~Posted(TaskOf(w))
    /\ Apply(w)
    /\ EndTx(w)
    /\ Goto(w, "put")
    /\ UNCHANGED <<rows, l2, missed, paid, adjusted, queueVars, job, crashes>>

\* Mutant of Duplicate: the balance is debited outside the transaction that
\* the duplicate row rolls back.
KeepDebit(w) ==
    /\ pc[w] = "commit"
    /\ Posted(TaskOf(w))
    /\ balance' = [balance EXCEPT ![UserOf(w)] = draft[w].after]
    /\ EndTx(w)
    /\ Goto(w, "put")
    /\ UNCHANGED <<consumed, rows, ledger, sideVars, queueVars, job, crashes>>

\* Mutant of Duplicate: a duplicate ends the handler at once, as if the worker
\* that booked the charge had reached its release.
DuplicateEnds(w) ==
    /\ pc[w] = "commit"
    /\ Posted(TaskOf(w))
    /\ EndTx(w)
    /\ Goto(w, "ack")
    /\ UNCHANGED <<balance, consumed, rows, ledger, sideVars, queueVars, job,
                   crashes>>

\* The INSERT hits uq_ledger_settle or uq_ledger_refund: roll back, and go on
\* as after a success.
Duplicate(w) ==
    /\ pc[w] = "commit"
    /\ Posted(TaskOf(w))
    /\ EndTx(w)
    /\ Goto(w, "put")
    /\ UNCHANGED <<balance, consumed, rows, ledger, sideVars, queueVars, job,
                   crashes>>

\* PutIdempotency, after the transaction.
Put(w) ==
    /\ pc[w] = "put"
    /\ l2' = l2 \cup {TaskOf(w)}
    /\ Goto(w, "release")
    /\ UNCHANGED <<rowVars, behind, missed, paid, adjusted, queueVars, job,
                   draft, crashes>>

\* releaseReserve: Cache.Reset deletes the whole balance hash of the user, so
\* that the next load shows every booking made so far.  Its error is dropped.
Release(w) ==
    /\ pc[w] = "release"
    /\ \/ /\ behind' = {t \in behind : Owner[t.req] # UserOf(w)}
          /\ UNCHANGED missed
       \/ /\ ResetMayFail
          /\ missed' = missed \cup {TaskOf(w)}
          /\ UNCHANGED behind
    /\ Goto(w, "ack")
    /\ UNCHANGED <<rowVars, l2, paid, adjusted, queueVars, job, draft,
                   crashes>>

\* handleDelivery after a nil error.
Ack(w) ==
    /\ pc[w] = "ack"
    /\ place' = [place EXCEPT ![job[w]] = "acked"]
    /\ job' = [job EXCEPT ![w] = NoDelivery]
    /\ Goto(w, "idle")
    /\ UNCHANGED <<rowVars, sideVars, tries, draft, crashes>>

\* Mutant of AfterError: a message out of retries is acknowledged.
DropExhausted(d) == IF tries[d] >= MaxRetry THEN "acked" ELSE "queued"

\* Where a failed delivery goes.
AfterError(d) == IF tries[d] >= MaxRetry THEN "dead" ELSE "queued"

\* handleDelivery after an error: dead-letter when the retries are used up,
\* else requeue through a retry bucket with x-retry-count + 1.
Reject(w) ==
    LET d == job[w] IN
    /\ place' = [place EXCEPT ![d] = AfterError(d)]
    /\ tries' = [tries EXCEPT ![d] = IF @ >= MaxRetry THEN @ ELSE @ + 1]
    /\ job' = [job EXCEPT ![w] = NoDelivery]
    /\ Goto(w, "idle")

\* A statement fails or the 30 s handler context expires: the open
\* transaction rolls back and the handler returns the error.  The L2 record
\* may be written all the same when only its answer is lost.
Fail(w) ==
    /\ pc[w] \in {"lookup", "update", "read", "zero", "commit", "put"}
    /\ EndTx(w)
    /\ Reject(w)
    /\ \/ UNCHANGED <<l2, missed>>
       \/ /\ pc[w] = "put"
          /\ l2' = l2 \cup {TaskOf(w)}
          /\ missed' = missed \cup {TaskOf(w)}
    /\ UNCHANGED <<balance, consumed, rows, ledger, behind, paid, adjusted,
                   crashes>>

\* COMMIT takes effect but its answer is lost: the handler returns an error
\* although the charge is booked.
CommitUnconfirmed(w) ==
    /\ pc[w] = "commit"
    /\ ~Posted(TaskOf(w))
    /\ Apply(w)
    /\ EndTx(w)
    /\ Reject(w)
    /\ UNCHANGED <<rows, l2, missed, paid, adjusted, crashes>>

\* Mutant of Returned: automatic acknowledgement on delivery.
AutoAcked(d) == "held"

\* Where an unacknowledged message goes when its consumer is gone.
Returned(d) == "queued"

\* The process dies: PostgreSQL rolls back, the broker requeues the unacked
\* message unchanged.  Between the L2 write and the release it takes the
\* release with it.
Crash(w) ==
    /\ pc[w] # "idle"
    /\ crashes < MaxCrashes
    /\ crashes' = crashes + 1
    /\ EndTx(w)
    /\ place' = [place EXCEPT ![job[w]] = Returned(job[w])]
    /\ job' = [job EXCEPT ![w] = NoDelivery]
    /\ Goto(w, "idle")
    /\ missed' = IF pc[w] = "release" THEN missed \cup {TaskOf(w)} ELSE missed
    /\ UNCHANGED <<balance, consumed, rows, ledger, l2, behind, paid, adjusted,
                   tries>>

\* The 24 h of an idempotency record pass.
ExpireL2(t) ==
    /\ t \in l2
    /\ l2' = l2 \ {t}
    /\ UNCHANGED <<rowVars, behind, missed, paid, adjusted, queueVars,
                   workerVars, crashes>>

\* A whole transaction that credits u by amount and books it; it needs the
\* row lock, and nothing of it shows before it commits.
Book(kind, ref, u, amount) ==
    /\ Free(u)
    /\ balance' = [balance EXCEPT ![u] = @ + amount]
    /\ ledger' = Append(ledger,
                    Entry(kind, ref, u, [amount |-> amount, overdraft |-> 0,
                                         after |-> balance[u] + amount]))

\* ConfirmPayment of a pending order: creates the row when it is missing.
Recharge(o) ==
    /\ o \notin paid
    /\ paid' = paid \cup {o}
    /\ rows' = rows \cup {OrderOwner[o]}
    /\ Book("recharge", o, OrderOwner[o], OrderAmount[o])
    /\ UNCHANGED <<consumed, lock, l2, behind, missed, adjusted, queueVars,
                   workerVars, crashes>>

\* ManualBalanceAdjust: refused when it would make the balance negative or
\* when the user has no row.
Adjust(a) ==
    /\ a \notin adjusted
    /\ AdjustUser[a] \in rows
    /\ balance[AdjustUser[a]] + AdjustDelta[a] >= 0
    /\ adjusted' = adjusted \cup {a}
    /\ Book("adjust", a, AdjustUser[a], AdjustDelta[a])
    /\ UNCHANGED <<consumed, rows, lock, l2, behind, missed, paid, queueVars,
                   workerVars, crashes>>

HandlerStep(w) ==
    \/ Lookup(w)
    \/ Debit(w) \/ Miss(w) \/ ReadBalance(w) \/ ZeroOut(w) \/ Credit(w)
    \/ Commit(w) \/ Duplicate(w)
    \/ Put(w) \/ Release(w) \/ Ack(w)

Next ==
    \/ \E d \in Deliveries : Publish(d)
    \/ \E w \in Workers, d \in Deliveries : Take(w, d)
    \/ \E w \in Workers :
          HandlerStep(w) \/ Fail(w) \/ CommitUnconfirmed(w) \/ Crash(w)
    \/ \E t \in Tasks : ExpireL2(t)
    \/ \E o \in Orders : Recharge(o)
    \/ \E a \in Adjusts : Adjust(a)

Spec == Init /\ [][Next]_vars

(***************************************************************************)
(* A worker that holds a message runs its handler to the end: every        *)
(* handler has its own timeout context, and a statement that cannot        *)
(* proceed ends in Fail.  The broker delivers a queued message while some  *)
(* consumer is up.  Nothing obliges anyone to publish, recharge or adjust. *)
(***************************************************************************)
Fairness ==
    /\ \A w \in Workers : WF_vars(HandlerStep(w) \/ Fail(w))
    /\ WF_vars(\E w \in Workers, d \in Deliveries : Take(w, d))

FairSpec == Spec /\ Fairness

-----------------------------------------------------------------------------
(***************************************************************************)
(* Properties.                                                             *)
(***************************************************************************)
\* Types of the variables; the balance is never negative, which the CHECK
\* constraint of user_balances would otherwise turn into an error.
TypeOK ==
    /\ balance \in [Users -> Nat]
    /\ consumed \in [Users -> Int]
    /\ rows \subseteq Users
    /\ ledger \in Seq(EntryType)
    /\ lock \in [Users -> Workers \cup {NoWorker}]
    /\ l2 \subseteq Tasks
    /\ behind \subseteq Tasks
    /\ missed \subseteq Tasks
    /\ paid \subseteq Orders
    /\ adjusted \subseteq Adjusts
    /\ place \in [Deliveries -> Places]
    /\ tries \in [Deliveries -> 0 .. MaxRetry]
    /\ pc \in [Workers -> Steps]
    /\ job \in [Workers -> Deliveries \cup {NoDelivery}]
    /\ draft \in [Workers -> DraftType]
    /\ crashes \in 0 .. MaxCrashes

\* What a successful handler leaves: the ledger row, or nothing to book.
Done(t) == Posted(t) \/ Charge[t] = 0

\* A request is settled at most once and refunded at most once, however often
\* its message is delivered, retried or handled by two workers at a time.
BookedOnce ==
    \A i, j \in DOMAIN ledger :
        /\ ledger[i].kind \in {"settle", "refund"}
        /\ ledger[i].kind = ledger[j].kind
        /\ ledger[i].ref = ledger[j].ref
        => i = j

\* A settlement that emptied the balance.
Emptied(i) == ledger[i].kind = "settle" /\ ledger[i].after = 0

Earlier(i) == {j \in DOMAIN ledger : j < i /\ ledger[j].user = ledger[i].user}

\* Row i continues from the user's row before it, or from the opening balance.
Chained(i) ==
    \/ /\ Earlier(i) = {}
       /\ ledger[i].after = Opening[ledger[i].user] + ledger[i].amount
    \/ \E j \in Earlier(i) :
          /\ \A k \in Earlier(i) : k <= j
          /\ ledger[i].after = ledger[j].after + ledger[i].amount

\* The rows of a user form a chain, each balance_after being the one before
\* plus the amount, except for a settlement that emptied the balance: that
\* branch books the balance it read before it locked the row.
BalanceChain == \A i \in DOMAIN ledger : ~Emptied(i) => Chained(i)

\* An idempotency record stands for a booked charge, so that the fast path of
\* a redelivery never hides one that was not.
RecordMeansDone == \A t \in l2 : Done(t)

\* A message leaves the queue as handled only when its charge is booked.
AckedMeansDone == \A d \in Deliveries : place[d] = "acked" => Done(d[1])

\* A worker is about to reset the cache for task t.
Releasing(t) == \E w \in Workers : pc[w] = "release" /\ TaskOf(w) = t

HandledCopy(t) == \E d \in Deliveries : place[d] = "acked" /\ d[1] = t

\* Once a message is acknowledged as handled, the cached hash of its user has
\* been dropped since the charge was booked, by this handler or another one, or
\* some worker is about to drop it: whichever copy booked it, whichever found
\* it booked, and wherever they failed.  Only a release that was itself missed
\* after the L2 record was written leaves the hash as it was: the redelivery ends
\* in the L2 hit, against the comment of handleSettle (engine.go:149-151).
AckedMeansReset ==
    \A t \in behind : HandledCopy(t) => Releasing(t) \/ t \in missed

LedgerSum(u, kinds) ==
    LET own == {i \in DOMAIN ledger :
                   ledger[i].user = u /\ ledger[i].kind \in kinds}
    IN  SumFunction([i \in own |-> ledger[i].amount])

\* user_balances.balance is the materialised sum of the ledger
\* (model/billing_ledger.go).
BalanceIsLedgerSum ==
    \A u \in Users :
        balance[u] = Opening[u] +
            LedgerSum(u, {"settle", "refund", "recharge", "adjust"})

Chargeable == {t \in Tasks : Charge[t] > 0}

Promise == INSTANCE Account WITH
    Bookings <- Chargeable,
    UserOfB <- [t \in Chargeable |-> Owner[t.req]],
    AmountOf <- [t \in Chargeable |-> Charge[t]],
    Debits <- {t \in Chargeable : t.kind = "settle"},
    Start <- Opening,
    money <- balance,
    booked <- {t \in Tasks : Posted(t)}

\* Every booking reaches the balance exactly once and for its amount.
ImplementsAccount == Promise!AccountSpec

(***************************************************************************)
(* The invariant the safety properties follow from.                        *)
(***************************************************************************)
\* A delivery being handled is held, by one worker.
HeldByOne ==
    /\ \A w \in Workers :
          pc[w] # "idle" => job[w] \in Deliveries /\ place[job[w]] = "held"
    /\ \A v, w \in Workers :
          pc[v] # "idle" /\ pc[w] # "idle" /\ job[v] = job[w] => v = w

\* An open transaction holds the row, and what it will commit continues from
\* the row's balance unless it empties it.
OpenTx ==
    \A w \in Workers :
        /\ pc[w] \in {"read", "zero"} => TaskOf(w).kind = "settle"
        /\ pc[w] = "zero" => draft[w].after = 0
        /\ pc[w] = "commit" =>
              /\ lock[UserOf(w)] = w
              /\ \/ TaskOf(w).kind = "settle" /\ draft[w].after = 0
                 \/ draft[w].after = balance[UserOf(w)] + draft[w].amount

\* After the transaction the task is done.
PastTx ==
    \A w \in Workers : pc[w] \in {"put", "release", "ack"} => Done(TaskOf(w))

\* Only a charge opens a transaction.
ChargeOpensTx ==
    \A w \in Workers :
        pc[w] \in {"update", "read", "zero", "commit"} => Charge[TaskOf(w)] > 0

\* A redelivery of t would end in the L2 hit, or a copy of it has ended.
Finished(t) ==
    \/ t \in l2
    \/ HandledCopy(t)
    \/ \E w \in Workers : pc[w] = "ack" /\ TaskOf(w) = t

\* A finished task the hash may not show has its release under way or missed.
BehindCovered ==
    \A t \in behind :
        /\ Charge[t] > 0
        /\ Finished(t) => Releasing(t) \/ t \in missed

\* The newest row of a user carries the balance.
NewestRow ==
    \A u \in Users :
        LET own == {i \in DOMAIN ledger : ledger[i].user = u} IN
        \/ own = {} /\ balance[u] = Opening[u]
        \/ \E i \in own : (\A j \in own : j <= i) /\ balance[u] = ledger[i].after

\* Inductive: true initially and preserved by every step.
SettlementInv ==
    /\ TypeOK
    /\ HeldByOne
    /\ OpenTx
    /\ PastTx
    /\ NewestRow
    /\ BookedOnce
    /\ BalanceChain
    /\ RecordMeansDone
    /\ AckedMeansDone
    /\ ChargeOpensTx
    /\ BehindCovered

\* Every message that is published ends booked or dead-lettered.
EventuallyDone ==
    \A d \in Deliveries :
        place[d] = "queued" ~> Done(d[1]) \/ place[d] = "dead"
=============================================================================
