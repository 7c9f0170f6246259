--------------------------------- MODULE Usage ---------------------------------
(***************************************************************************)
(* The record of calls: usage:write appends to usage_logs (billing/        *)
(* engine.go), stats:aggregate sums a day of it up (repository/stats.go)   *)
(* and daily:reconcile compares it with the ledger (repository/            *)
(* reconcile.go).  The workers that run them know nothing of each other;   *)
(* messages are delivered at least once, at any time, on any day.          *)
(***************************************************************************)
EXTENDS Integers, FiniteSets, FiniteSetsExt, Functions

CONSTANTS
    Calls, Cost,        \* calls and what each costs
    Balances,           \* what a settlement may find that its user cannot pay
    Consumers,
    MaxDay, MaxCopies, MaxFaults        \* bounds

ASSUME UsageAssumption ==
    /\ Cost \in [Calls -> Nat \ {0}] /\ Balances \subseteq Nat
    /\ MaxDay \in Nat /\ MaxCopies \in [Calls -> Nat] /\ MaxFaults \in Nat

VARIABLES
    today,      \* the day in Beijing
    copies,     \* messages usage:write of a call in the queue
    due,        \* calls whose billing:settle is on its way
    logs,       \* usage_logs
    record,     \* idempotency_records of usage: when written, last
    open,       \* rows of billing_ledger whose transactions are not committed
    booked,     \* billing_ledger: settle rows
    stats,      \* usage_daily_stats: of a day, the rows summed up
    summed,     \* days stats:aggregate has written
    doing,        \* what the workers do
    alarm,      \* days for which a difference was reported
    faults,
    odd,        \* calls that may be logged twice, for a reason
    late,       \* rows of usage_logs stamped on one day and there on the next
    tardy       \* rows of the ledger there after their day had been reported

queues == <<copies, due, open>>
tables == <<logs, record, booked, stats, summed>>
notes == <<alarm, faults, odd, late, tardy>>
usageVars == <<today, queues, tables, doing, notes>>

Days == 0 .. MaxDay
Never == -10
AnyCall == CHOOSE c \in Calls : TRUE
Idle == [pc |-> "idle", call |-> AnyCall, day |-> 0, seen |-> {}, crossed |-> FALSE]

\* The calls have been answered, and both tasks of a call sent, one, or none;
\* to send one may put it in twice.
Served == {sent \in [Calls -> 0 .. Max(Range(MaxCopies))] :
               \A c \in Calls : sent[c] <= MaxCopies[c]}

UsageInit ==
    /\ today = 0
    /\ copies \in Served /\ due \in SUBSET Calls
    /\ logs = {}
    /\ record = [c \in Calls |-> Never]
    /\ open = {} /\ booked = {}
    /\ stats = [d \in Days |-> {}] /\ summed = {}
    /\ doing = [w \in Consumers |-> Idle]
    /\ alarm = {} /\ faults = 0 /\ odd = {} /\ late = {} /\ tardy = {}

At(w, label) == doing[w].pc = label
Do(w, j) == doing' = [doing EXCEPT ![w] = j]

Midnight ==
    /\ today < MaxDay
    /\ today' = today + 1
    /\ UNCHANGED <<queues, tables, doing, notes>>

-----------------------------------------------------------------------------
(* usage:write                                                             *)

\* A record is good for 24 hours.
Fresh(c) == record[c] = today
Lapsing(c) == record[c] = today - 1

\* GetIdempotency finds it, and the message is done with.
KnownAlready(w, c) ==
    /\ At(w, "idle") /\ copies[c] > 0
    /\ Fresh(c) \/ Lapsing(c)
    /\ copies' = [copies EXCEPT ![c] = @ - 1]
    /\ UNCHANGED <<today, due, open, tables, doing, notes>>

\* Mutant of NotKnown: nobody looks.
NotAsked(c) == TRUE

NotKnown(c) == ~Fresh(c)

Elsewhere(c) == {v \in Consumers : doing[v].pc \in {"insert", "record"} /\ doing[v].call = c}

\* It does not: the row is stamped with the time there is.
StampUsageLog(w, c) ==
    /\ At(w, "idle") /\ copies[c] > 0
    /\ NotKnown(c)
    /\ copies' = [copies EXCEPT ![c] = @ - 1]
    /\ Do(w, [Idle EXCEPT !.pc = "insert", !.call = c, !.day = today])
    /\ odd' = IF (record[c] # Never /\ ~Fresh(c)) \/ Elsewhere(c) # {}
              THEN odd \cup {c} ELSE odd
    /\ UNCHANGED <<today, due, open, tables, alarm, faults, late, tardy>>

\* There is no unique key.
InsertUsageLog(w) ==
    LET c == doing[w].call
        new == [call |-> c, day |-> doing[w].day,
                no |-> Cardinality({row \in logs : row.call = c})]
    IN
    /\ At(w, "insert")
    /\ logs' = logs \cup {new}
    /\ late' = IF today > doing[w].day THEN late \cup {new} ELSE late
    /\ Do(w, [doing[w] EXCEPT !.pc = "record"])
    /\ UNCHANGED <<today, queues, record, booked, stats, summed, alarm, faults, odd, tardy>>

PutIdempotency(w) ==
    /\ At(w, "record")
    /\ record' = [record EXCEPT ![doing[w].call] = today]
    /\ Do(w, Idle)
    /\ UNCHANGED <<today, queues, logs, booked, stats, summed, notes>>

\* The worker dies, or the database does not answer: the message comes again.
FailUsageWrite(w) ==
    LET c == doing[w].call IN
    /\ doing[w].pc \in {"insert", "record"} /\ faults < MaxFaults
    /\ faults' = faults + 1
    /\ copies' = [copies EXCEPT ![c] = @ + 1]
    /\ odd' = IF At(w, "record") THEN odd \cup {c} ELSE odd
    /\ Do(w, Idle)
    /\ UNCHANGED <<today, due, open, tables, alarm, late, tardy>>

\* billing:settle, once for each call (module Settlement).  Its row is stamped in
\* the transaction: with what the call costs, or, where the balance does not
\* suffice, with the balance, which may be more by the time it is read.
CreateLedger(c) ==
    /\ c \in due
    /\ \E amount \in {Cost[c]} \cup Balances :
           open' = open \cup {[call |-> c, day |-> today, amount |-> amount]}
    /\ due' = due \ {c}
    /\ UNCHANGED <<today, copies, tables, doing, notes>>

\* The row is there for others to read.
CommitSettle(row) ==
    /\ row \in open
    /\ open' = open \ {row}
    /\ booked' = booked \cup {row}
    /\ tardy' = IF row.day \in alarm THEN tardy \cup {row} ELSE tardy
    /\ UNCHANGED <<today, copies, due, logs, record, stats, summed, doing, alarm, faults,
                   odd, late>>

\* It never is; the task comes again.
RollBackSettle(row) ==
    /\ row \in open
    /\ open' = open \ {row}
    /\ due' = due \cup {row.call}
    /\ UNCHANGED <<today, copies, tables, doing, notes>>

-----------------------------------------------------------------------------
(* stats:aggregate and daily:reconcile carry no date: the day before the   *)
(* one they are handled on.                                                *)

\* Mutant of Yesterday: the day as it is.
TheDay == today

Yesterday == today - 1

\* DayBoundsUTC
OnDay(S, d) == {row \in S : row.day = d}

\* AggregateUsageDay reads before its transaction.
ReadUsageRows(w) ==
    /\ At(w, "idle") /\ Yesterday >= 0
    /\ Do(w, [Idle EXCEPT !.pc = "delete", !.day = Yesterday,
                          !.seen = OnDay(logs, Yesterday)])
    /\ UNCHANGED <<today, queues, tables, notes>>

DeleteStats(w) ==
    /\ At(w, "delete")
    /\ Do(w, [doing[w] EXCEPT !.pc = "write"])
    /\ UNCHANGED <<today, queues, tables, notes>>

\* Rows another one has inserted since the delete are in the way of
\* uk_usage_daily_dim; with none to insert there is nothing to be in the way.
WriteStats(w) ==
    LET d == doing[w].day
        seen == doing[w].seen
        kept == IF doing[w].crossed THEN stats[d] ELSE {}
        rivals == {v \in Consumers \ {w} : At(v, "write") /\ doing[v].day = d}
    IN
    /\ At(w, "write")
    /\ \A one \in kept, other \in seen : one.call # other.call
    /\ stats' = [stats EXCEPT ![d] = kept \cup seen]
    /\ summed' = summed \cup {d}
    /\ doing' = [v \in Consumers |-> IF v = w THEN Idle
                              ELSE [doing[v] EXCEPT !.crossed = @ \/ v \in rivals]]
    /\ UNCHANGED <<today, queues, logs, record, booked, notes>>

\* ReconcileDay: first the calls, then the ledger.
SumUsage(w) ==
    /\ At(w, "idle") /\ Yesterday >= 0
    /\ Do(w, [Idle EXCEPT !.pc = "ledger", !.day = Yesterday,
                          !.seen = OnDay(logs, Yesterday)])
    /\ UNCHANGED <<today, queues, tables, notes>>

Charged(S) == SumFunction([row \in S |-> Cost[row.call]])
Settled(S) == SumFunction([row \in S |-> row.amount])

\* Mutant of SameDay: the ledger is asked for all there is.
AnyDay(d) == booked

SameDay(d) == OnDay(booked, d)

HandleReconcile(w) ==
    LET d == doing[w].day IN
    /\ At(w, "ledger")
    /\ alarm' = IF Charged(doing[w].seen) # Settled(SameDay(d))
                THEN alarm \cup {d} ELSE alarm
    /\ Do(w, Idle)
    /\ UNCHANGED <<today, queues, tables, faults, odd, late, tardy>>

\* They fail, or their worker does; they are sent again, or the next day's come.
FailPeriodic(w) ==
    /\ doing[w].pc \in {"delete", "write", "ledger"}
    /\ Do(w, Idle)
    /\ UNCHANGED <<today, queues, tables, notes>>

UsageNext ==
    \/ Midnight
    \/ \E c \in Calls : CreateLedger(c)
    \/ \E row \in open : CommitSettle(row) \/ RollBackSettle(row)
    \/ \E w \in Consumers :
           \/ \E c \in Calls : KnownAlready(w, c) \/ StampUsageLog(w, c)
           \/ InsertUsageLog(w) \/ PutIdempotency(w) \/ FailUsageWrite(w)
           \/ ReadUsageRows(w) \/ DeleteStats(w) \/ WriteStats(w)
           \/ SumUsage(w) \/ HandleReconcile(w) \/ FailPeriodic(w)

UsageSpec == UsageInit /\ [][UsageNext]_usageVars
-----------------------------------------------------------------------------
RowsOf(c) == {row \in logs : row.call = c}
BookedOf(c) == {row \in booked : row.call = c}

\* A call is in usage_logs twice only if a worker died between the row and the
\* idempotency record, two of them handled it at once, or its message came
\* again after the record had lapsed (engine.go, handleUsageWrite).
LoggedOnce == \A c \in Calls : Cardinality(RowsOf(c)) > 1 => c \in odd

\* The statistics of a day, once written, are those of its rows, whoever wrote
\* them and however often; only rows stamped before midnight that came after it
\* may be missing (AggregateUsageDay).
StatsComplete ==
    \A d \in summed :
        stats[d] \subseteq OnDay(logs, d) /\ OnDay(logs, d) \ stats[d] \subseteq late

\* A day is reported only if a call of that day was logged twice, was logged or
\* booked on another day or not at all, or was booked at another amount than it
\* cost; or its row in the log came after midnight, or its row in the ledger, which
\* was stamped before, after the report: the two reads at different moments make no
\* difference of their own, and differences between calls that are none add up to
\* none (ReconcileDay, applySettleTx).
Uneven(c, d) == Charged(OnDay(RowsOf(c), d)) # Settled(OnDay(BookedOf(c), d))
Cause(c, d) ==
    \/ Uneven(c, d)
    \/ OnDay(RowsOf(c), d) \cap late # {}
    \/ OnDay(BookedOf(c), d) \cap tardy # {}
AlarmHasCause == \A d \in alarm : \E c \in Calls : Cause(c, d)

(***************************************************************************)
(* The invariants they follow from.                                        *)
(***************************************************************************)
Logs == [call : Calls, day : Days, no : Nat]
Bookings == [call : Calls, day : Days, amount : Nat]
Reading == {"delete", "write", "ledger"}
Jobs == [pc : {"idle", "insert", "record"} \cup Reading, call : Calls \cup {AnyCall},
         day : Days, seen : SUBSET Logs, crossed : BOOLEAN]

UsageTypeOK ==
    /\ today \in Days
    /\ due \subseteq Calls
    /\ logs \subseteq Logs /\ IsFiniteSet(logs)
    /\ record \in [Calls -> Days \cup {Never}]
    /\ open \subseteq Bookings
    /\ booked \subseteq Bookings /\ IsFiniteSet(booked)
    /\ stats \in [Days -> SUBSET Logs] /\ summed \subseteq Days
    /\ doing \in [Consumers -> Jobs]
    /\ alarm \subseteq Days /\ odd \subseteq Calls /\ late \subseteq Logs
    /\ \A w \in Consumers : doing[w].pc \in {"insert", "record"} => doing[w].call \in Calls

\* A call without an excuse for a second row is in the hands of one worker at
\* most, which finds no row of it when it inserts one; once the row is there,
\* that worker or the record keeps every other from taking the call.
OnceInv ==
    \A c \in Calls \ odd :
        /\ \A v, w \in Elsewhere(c) : v = w
        /\ \A w \in Consumers : At(w, "insert") /\ doing[w].call = c => RowsOf(c) = {}
        /\ RowsOf(c) # {} => record[c] # Never \/ Elsewhere(c) # {}
        /\ \A row, other \in RowsOf(c) : row = other

\* S has the rows of a day that is over, the late ones excepted.
WholeDay(S, d) ==
    d < today /\ S \subseteq OnDay(logs, d) /\ OnDay(logs, d) \ S \subseteq late

\* Rows carry a day that has come; what was read, and what was written, of a
\* day is all of it.
DayInv ==
    /\ \A row \in logs : row.day <= today
    /\ \A w \in Consumers : doing[w].day <= today
    /\ \A w \in Consumers : doing[w].pc \in Reading => WholeDay(doing[w].seen, doing[w].day)
    /\ \A d \in Days : stats[d] \subseteq OnDay(logs, d)
    /\ \A d \in summed : WholeDay(stats[d], d)

\* A day that was reported is over, so that its sums change no more but for late
\* and tardy rows.
AlarmInv == AlarmHasCause /\ \A d \in alarm : d < today
=============================================================================
