# CloudFog in TLA+

CloudFog is a gateway for language models, written in Go (`src/backend`): it
takes OpenAI-style requests from customers with prepaid balances, sends them to
one of several upstream channels, streams the answer back and bills the use.
This directory models the parts of it where the interleaving of requests,
workers, administrators, retries, crashes and callbacks decides whether money,
answers and rights come out right; model-checks them on small instances with
TLC; and proves their safety properties for every size of the system with TLAPS.

Every definition is translated from the Go source. A comment names the code a
definition stands for where its name does not; `PROJECT.json` maps every
definition to its lines.

- [1 Inventory](#1-inventory): the parts of the system and what makes each correct
- [2 Modules](#2-modules): how state and actions correspond to the code
- [3 Runs](#3-runs): what TLC checks, the bounds, the fairness
- [4 Proofs](#4-proofs): what is proved, from what, and how
- [5 Disagreements](#5-disagreements-between-code-and-documentation): where the code does something else than it or its documentation says
- [6 Not modelled](#6-what-is-not-modelled) and [7 Plan](#7-plan)

## 1 Inventory

One binary (`cmd/cloudfog`) runs as `api`, `worker`, `scheduler`, or all three.
They share PostgreSQL (accounts, catalogue, balances, ledger, orders,
idempotency records, usage), Redis (the cached balance with its reservations,
audit keys) and RabbitMQ (tasks with retry buckets and a dead letter queue).

```
   administrator   customer's portal     client           payment provider
        |                |                 | chat                | notify
   +----v------+   +-----v-----+   +-------v----------+   +------v------+
   | Catalogue |   | Accounts: |   | Gateway: hold,   |   | pay_notify  |
   | Accounts  |   | login,    |   | route, retry     |   +------+------+
   +----+------+   | keys      |   | Stream           |          |
        | rows     +-----+-----+   +--+--------+------+          |
        +-------------> read by ------+        | usage:write     | payment:confirm
                                      |        | billing:settle  |
        Reserve (Redis) <-- hold -----+        v                 v
          ^                        Resilient enqueuer (WAL file when the broker is away)
          |                                    |
          |        scheduler (Platform) -----> | Publisher (Platform): confirm, return, reconnect
          |         reserve:reclaim, ...       v
          |                        RabbitMQ: queue, retry buckets, DLQ
          |                                    v
          |                        Consumer workers: ack, retry, dead-letter
          |                                    |
          +--- reset --- Settlement, Payment, Reclaim, Usage (PostgreSQL rows)
```

### Components

| component | state it keeps | operations | what makes it hard | what makes it correct |
|---|---|---|---|---|
| **Billing settlement** `billing/engine.go`, `repository/balance.go` | `user_balances`, `billing_ledger`, `idempotency_records` | `handleSettle`, `handleRefund`, recharge, manual adjustment | at-least-once delivery to concurrent workers; READ COMMITTED statements; crash between commit, idempotency record, release and ack | each charge booked once; the ledger is a chain of balances; a message is acked only after its charge is booked, and after the cached balance that does not show it was dropped; balance = sum of the ledger |
| **Reservation** `billing/reserve.go` | hash `balance:<user>` (avail, frozen), audit keys `frozen:<request>` | `Reserve` (script, reload, audit key), `Reset`, `Reclaim` | single Redis commands from many processes; ignored errors; a reclaim that fails or dies; requests of any length | nothing granted twice between two loads; the reclaim returns holds only of requests that are dead or older than the threshold, and forgets none it has not returned |
| **Resilient enqueuer** `task/fallback.go` | WAL file, `replaying`, mutex | `dispatch`, `appendWAL`, `maybeRecover`, `recover` | broker outages, torn writes, crash between append, replay and rename; append beside a replay | a task whose dispatch returned nil is not lost; the replay is not forgotten |
| **Publisher** `task/enqueuer.go`, `task/topology.go` | connection, return and confirm channels | `publish`, reconnect, declarations | late returns, lost confirms, a broker that goes while one waits | `nil` only for a task the broker has |
| **Consumers** `task/consumer.go` | unacked messages, `x-retry-count`, channels | `worker`, `handleDelivery`, shutdown | channel lost while the handler runs, crash between retry and ack, prefetch | no task lost; none given up early; copies and the retry window bounded; every task ends |
| **Payment** `portal_pay_notify.go`, `payment/confirm.go`, `repository/payment_confirm.go` | `payment_orders`, recharge rows, cached balance | order creation, callback, `payment:confirm` | repeated and concurrent callbacks, one trade for two orders, publish failure, crash between commit and cache reset | credited once, by a payment of its own; a success answer is never forgotten; the cached balance is stale for a known reason only |
| **Gateway** `gateway/gateway.go`, `billing_metrics.go`, `router/router.go` | one call: hold, plan, attempts | `Chat`, `tryOnce`, `tryStream`, `emitMetering`, release | failover over models x channels while channels change; Redis failures; a client that leaves | metered once if served, never otherwise; hold kept for the settlement or given back; failover in order |
| **Stream** `adapter/provider.go`, `adapter/{openai,anthropic}/provider.go`, `httpserver/v1.go` | two channels, body, context | `ParseSSE`, `parseStream`, `DecodeStream`, `writeChatStream` | three goroutines that end in any order; cancelled context; stalled client | a truncated answer is not taken for a whole one; what is billed is what was counted, or an estimate |
| **Accounts**: sessions, login lock, API keys, roles, groups `httpserver/portal_auth.go`, `portal_keys.go`, `admin.go`, `admin_users_keys.go`, `admin_groups.go` | users, allowed groups, keys, sessions, audit log; failure counters in memory | register, log in and out, key creation, change and removal; role, status, balance, group and user administration | check and write are separate statements beside the same request of another; the audit record is a statement of its own | a super administrator remains; the limits hold up to what runs side by side; the audit log tells the truth |
| **Catalogue**, pricing and credentials `admin_entities.go`, `admin_channels.go`, `repository/catalog.go`, `pkg/crypto/envelope.go`, `billing/types.go` | providers, models, prices, mappings, channels, their groups, the master key | create, PATCH, soft deletion, binding; the reads of a call; `ComputeCost` | PATCH writes back what it read; a call reads six tables in six statements; keys rotate under running instances | a deleted channel is bound to nothing; no change is undone by another; what was counted at a price is charged, whatever mix of rows the call has read |
| **Usage, statistics, reconciliation** `billing/engine.go` (`usage:write`), `repository/usage.go`, `stats.go`, `reconcile.go` | `usage_logs`, `usage_daily_stats` | insert, aggregate, reconcile | duplicates (no unique index), two aggregations of one day, midnight | one row per request; a day adds up; an alarm has a reason |
| **Roles and scheduler** `cmd/cloudfog/main.go`, `scheduler.go` | processes, the shared publisher, cron | start order, periodic tasks, drain, shutdown | a broker that is not there yet; shutdown beside work in flight | periodic tasks come again after every outage |
| Request decoding, adapter encoding, read-only endpoints, configuration, migrations, frontend | rows; none | pure functions; queries | | no state of their own |

`PROJECT.json` lists all of them with their status, and 40 hazards, each at the
line where it bites, with the properties that watch it. A hazard that a property only
names as its exception has a note that says so. Four no
property watches, and their notes say why: rounding in PostgreSQL, a process whose consumers
have all ended, an order paid twice, and a process that starts without a broker.

### How they interact

A customer registers, logs in and makes a key (`Accounts`); a chat request under
that key is checked and its estimate frozen (`Reserve`), priced and routed by what
the administrators have entered (`Catalogue`), answered (`Gateway`, `Stream`), and
metered: `usage:write` and `billing:settle` go to the resilient enqueuer and
through the publisher (`Platform`) to the broker. Workers (`Consumer`) run the
settlement (`Settlement`), which takes the cost from the balance row and deletes
the user's cached balance, and the hold with it, and write the usage log
(`Usage`). A request that was not served gives its hold back itself; what leaks is returned
by `reserve:reclaim`, which the scheduler posts every 15 minutes. Once a day it has
the usage summed up and compared with the ledger. A recharge
(`Payment`) arrives as a provider's callback, becomes a task and ends in the
same balance row, and in a reset of the same cached balance.

The modules meet at these interfaces, each stated by one and used by the next:

- Platform's `AnswerHasCause` says what the publisher's answers are worth.
  Resilient's primary enqueuer is one step with those outcomes, but for a message
  that was returned and confirmed nil all the same, which Platform has and
  Resilient leaves out: from there on the task is not the enqueuer's any more.
- Resilient keeps a task until the broker has it; Consumer starts from a task
  the broker has and keeps it until its handler succeeded or it is dead.
- Consumer hands tasks out at least once, with failures, crashes and retries;
  that is how Settlement, Payment and Usage receive theirs (`place`/`tries`,
  `pc`/`call.retries` and `copies` are the part of Consumer's protocol they need).
- Settlement's release is Reserve's `Reset`: the user's whole hash goes, and with it the
  holds of the user's other requests. Reserve has the settlement as one
  step, followed by the release; Settlement shows that it is booked once and when the
  release is missed.
- Reserve bounds nothing of how long a request takes. Consumer's `RetryWindow` sums up
  the delays of the retries and the timeouts of the handlers; the wait in the queue, in the
  prefetch and in the WAL file comes on top and has no bound. Section 5 compares that with
  the reclaim's threshold.
- Accounts and Settlement both have the manual adjustment: Accounts asks who
  may make it, Settlement what it does to the ledger.
- Catalogue has the reads Gateway's plan is made of; Gateway takes the channels
  to change at any time, which is what Catalogue does to them.
- Gateway instantiates nothing of these: the hold is one bit and the two
  metering tasks are what it sends.

## 2 Modules

| module | what it is |
|---|---|
| `Account` | abstract: what billing promises (each booking changes the balance once, by its amount, down to zero); instantiated for all users and, in the proofs, for one |
| `Settlement` | settlement and refund handlers against PostgreSQL; recharge and adjustment beside them |
| `Reserve` | the hold in Redis, command by command, and the reclaim task |
| `Resilient` | the enqueuer with its WAL file |
| `Consumer` | workers of one queue, its buckets and its DLQ |
| `Payment` | orders, callbacks, `payment:confirm`, the cached balance |
| `Stream` | one streamed answer: reader, parser, handler, client |
| `Gateway` | one call; EXTENDS `Stream` |
| `Accounts` | users, sessions, login lock, API keys, groups, and the administrators who change them |
| `Catalogue` | providers, models, prices, mappings, channels and their credentials, beside calls that read them |
| `Usage` | the usage log, the daily statistics and the reconciliation |
| `Platform` | one process: its roles, the cron and the publisher they share |
| `MC*` | small instances for TLC |
| `BillingProofs` | theorems about `Settlement` with `Account`, and about `Usage` |
| `ReserveProofs`, `ConsumerProofs`, `PaymentProofs`, `AccountsProofs` | theorems about the module of that name |
| `EnqueuerProofs` | theorems about `Resilient` and `Platform` |
| `GatewayProofs` | theorems about `Gateway` with `Stream`, and about `Catalogue` |
| `Sums` | lemmas about finite sums that the proofs about money rest on |

A few definitions come in pairs: `Verdict` and the like are used by the
actions, and an unused sibling with the same parameters right above them, marked
"Mutant of", is the definition as a plausible bug would have it. Every
property is known to fail under at least one of these (`mutants` in
`PROJECT.json`).

Some variables are history: no handler reads them, and they exist so that a
property can name the cause of what it allows (`hasty`, `crossed`, `mixed`,
`late`, `odd`, `tardy`, `missed`, `blamed`, `broken`, `loaded`). Each is set where two pieces of code
cross or one fails, at that statement and nowhere else; a property of the
form "X, unless a cause is recorded" then says that nothing else can make X fail. Others
only measure what a property speaks of: `behind`, `life`, `age`, `hold`.

Amounts are whole numbers of the smallest unit; time is counted in the periods
that matter (of the reclaim's schedule; of 5 s; days). Bounds are constants named
`Max...`.

### Settlement and Account

A handler is cut where another transaction can come between two of its
statements. `pc[w]` is the next statement of worker `w`, `draft[w]` what its
open transaction will commit, `lock` the row locks.

| action | code |
|---|---|
| `Publish`, `Take`, `Ack`, `Reject`, `Crash` | the broker and `handleDelivery`, as far as this module needs them |
| `Lookup` | the L2 record: a hit acknowledges at once, without the release |
| `Debit` / `Miss` | the conditional UPDATE `balance >= cost` locks the row and takes the money, or finds that the balance does not cover the cost |
| `ReadBalance`, `ZeroOut` | the overdraft branch: SELECT without a lock, then UPDATE to zero |
| `Credit` | the refund's UPSERT |
| `Commit` / `Duplicate` | the ledger row with `ON CONFLICT DO NOTHING`, total_consumed and COMMIT; on a conflict the transaction is rolled back and the handler goes on as done |
| `Put`, `Release` | the L2 record, whose error is the handler's; `Cache.Reset`, which deletes the user's balance hash and whose error is dropped |
| `Fail`, `CommitUnconfirmed` | any statement fails; COMMIT succeeds and its answer is lost |
| `ExpireL2` | records are removed after their time |
| `Recharge`, `Adjust` | the other writers of the row, one transaction each |

The release is modelled by what it does to what the gate reads: `behind` are the booked
tasks the user's cached hash may not show, and a release empties it for the whole user. That
other requests of the user lose their holds with the hash is Reserve's part. `missed` are tasks whose
release failed, or was skipped by a crash or a lost answer, after their L2 record was
written: no redelivery repeats it.

`Account` is the abstract specification. `ImplementsAccount` maps `balance` to
its money and the ledger rows to its bookings.

### Reserve

One Redis command is one step. `Begin` is the call of `Reserve`,
`Grant`/`Refuse`/`Unloaded` are the outcomes of its Lua script, `ReadBalance` and `Fill` the reload, `WriteAudit`
the audit key (its error is ignored). `Abort` and `Release` are the two callers of
`Reset`, whose two DELs are two steps (`Reset`, `DropKey`), since the pipeline is no
transaction; the first takes the hash with every hold of the user. `Serve` and `GiveUp` are the
end of the upstream call, `Settle` the settlement in one step, which may come at any time,
`DeadLetter` one that is given up, `GatewayCrash` a request that is never heard of again. The
reclaim is `Judge` (some of the keys that are old enough, and one ledger query for them: an
error of SCAN, MGET or the query leaves out some or all), then per key
`Return` (script) or `ReturnFails` (its error: `continue`, the key stays), and `Clear` (DEL, whose
error is ignored); `ReclaimCrash` comes between any two of these, and `ReclaimFails` is a
reclaim that is not published or fails for the rest of its period. `Tick` is the next
period, once the reclaim of this one is through or has failed: every key and every request
grows older, keys expire at `TTL`. `life` counts the periods a request has been in flight.
`loaded` and `hold` are history variables: whose holds the present hash
contains, and what it was filled with. When the reclaim returns a hold the hash
does not contain, because it belonged to an earlier hash or was returned before
a crash that came ahead of the DEL, `loaded` grows by as much: that is the one way
by which a hash may promise more than it was filled with, and
`GrantsWithinLoaded` says that there is no other.

### Resilient

One goroutine per dispatched task (`pc[t]`) and the replay (`rpc`). `Deliver`
and `Degrade` are the two outcomes of the primary enqueuer, `Write`/`Tear`/`Sync`
the append under the mutex, `MaybeRecover` and `Trigger` the start of the
replay, `StartReplay`/`Resend`/`EndReplay`/`Rewrite` the replay: it
reads the file, sends line by line and replaces the file with what failed.
`file` is what the operating system sees, `stable` what survives a power cut.
A line that was cut short has `state` other than "good" and spoils the line
appended after it. A line of a task in `Long` is over the scanner's limit of 1 MB
(`fallback.go:171`): while it is there `StartReplay` ends at once and leaves the file
alone, so that nothing in it is lost and nothing is replayed. What is left of such a
line after a torn write may or may not be over the limit.

### Consumer

`place` is where a copy of a message is: free, in the queue, in a bucket
("wait"), in the DLQ, or unacked at a worker. `Take`..`Ack` are
`handleDelivery` in its order: no handler → DLQ (`Reject`); success → `Ack`;
failure → `DeadLetter` when no retry is left, else `Republish` into the bucket
for this retry count and then `Ack`; `Refuse` when the broker does not confirm
the retry, which puts the original back. `Disconnect` closes the channel under
a running handler and returns everything unacked; `Quit` ends a worker whose
channel has closed, and nobody starts it again; `Crash` is the end of the process, by a
crash or a shutdown, and `Restart` its new start. `age` adds the bucket waits and a full timeout for every attempt.
`DeleteBuckets` is an operator who deletes the queues of the retry buckets; from then until
a start or the connect of an enqueuer declares them again (`declared`), `Republish` is confirmed and the
message stored nowhere, because the consumers' channels do not listen for returned messages
(`consumer.go:221`). The tasks this happens to, and those that waited in the buckets, are
in `dropped`, and `NothingLost` says that nothing else is lost.

### Payment

`Create` and `Pay` are the user at the portal and at the provider. A callback
`n` runs `Notify` (order read without a lock), `Duplicate`/`Mismatch`/`Accept`
(the early returns), `Deliver`/`Unavailable`/`Unpublished` (publishing and the answer to the
provider). Its task then runs `Confirm` (the crediting transaction:
conditional update of the order, recharge row, balance), `Repeat` (the order is paid
already by this trade: no reset), `Conflict` (paid by another trade, or the trade
belongs to another order) or `Error` (the transaction fails, or commits and is
not heard of), then `ResetCache`/`ResetFails` and `Ack`; `Crash` at any of
these; the errors end in `Fail`, a retry or the dead letters. A reload of the cached balance
is `ReadBalance` and `FillCache`; `Spend` is a call that pays from it. A
retried task is the same `n` with one retry more.

### Gateway and Stream

`Chat` is `Enter` (fail-closed checks), `CheckBalance`, `Hold`, `Plan` (the
links of the fallback chain times the usable channels, in one set `plan`), `Try`
in the order `Sooner`, then `Meter` for a whole answer or the pipeline for a
streamed one, and `Release` (`releaseRes` on every error return after the hold)
when nothing was served.
`Change` is an administrator or a cooldown that changes a channel, after the
plan too. `Refuse` is every return before the hold. Only a call that is not
streamed reserves (`gateway.go:145`); a streamed one reads the balance.

`Stream` has `ReadEvent`/`ReadEOF`/`ReadError` (ParseSSE, unbuffered channel `raw`),
`Parse`/`ParseEOF`/`ParseCancelled`/`Put` (parser with its select and channel
of capacity `Buffer`, whose sends are outside the select), `Handle`/`HandleClosed`/`Settle`/`Close`
(writeChatStream with its deferred settle and Close), `ClientLeaves` and
`Cancel`. Go's select takes any ready case, so a cancelled context, a read
error and an end of stream race.

An upstream's event is of one of eight kinds: a piece of the answer that is passed on
("delta") or that both parsers drop ("lost": tool calls, undecodable anthropic deltas); counts of
tokens, positive or zero; anything else; the end mark; an error; and the anthropic error
nobody can decode, after which the parser returns without a word ("mute"). `Answer` is what the
parser makes of it: at the end mark it sends its usage whether or not the upstream has
sent one. `counted` is whether that usage is above zero, and `Tokens` is
`resolveStreamTokens`: the upstream's counts when the end has come and they are not all zero, an
estimate else. For a call that is not streamed `Meter` takes the counts as they are.

### Accounts

A request is served by a goroutine `p`; `req[p]` holds what it has read so far
and `req[p].pc` its next statement. A credential, its user and its group are
three reads (`BySession`/`ByKey`, `ReadUser`, `ReadGroup`), after which the
request acts on what it then knew.

| actions | code |
|---|---|
| `AskProfile`, `AskStatus`, `AskRole`, `AskAdjust`, `AskGroups`, `AskUser` | the checks at the head of the handlers in `admin.go` and `admin_users_keys.go`: rank, not oneself, the target's rank, the limit of an adjustment |
| `UpdateUserProfile`, `SetUserStatus`, `SetUserRole`, `ManualBalanceAdjust`, `DeleteAllowed`/`InsertAllowed` | the write that follows, unconditional but for the balance |
| `Audit` | the audit record, a statement of its own; `Abort` and `Restart` may come before it |
| `AskGroup`, `CreateGroup`, `UpdateGroup`, `DeleteGroup` | groups; the second statement of a creation sets the status |
| `Register`, `CreateUser`, `AllowUserGroup` | registration and an administrator's new user, in two transactions |
| `Login`, `LookUp`, `RecordFailure`, `ClearFailures`, `CreateAuthSession`, `Unlock`, `Logout` | the lock is looked at and the failure counted in two critical sections of `Portal.fails`, with the hashing of the password between them; a lock ends with its time, and old counters are pruned when too many names are tracked |
| `AskKey`, `CheckGroup`, `CountUserKeys`, `CreateAPIKey`, `UpdateAPIKeySelf`, `DeleteAPIKeyByUser` | a user's keys; count and insert are two statements |

`hasty` are the accounts changed by a request whose principal or target was no
longer what its check had seen; `trail` is what the audit log last said of each
account; `crossed` are those of which two changes were recorded in another
order than they were made, or one was not recorded at all.

### Catalogue

Handlers of one statement are one action (`CreateModel`, `DeletePrice`,
`SetChannelEnabled`, ...). A PATCH of a price reads the row
(`AskPricePatch`), and writes the whole of it back (`UpdateModelPrice`); a mapping
is looked for and then made (`AskMapping`, `CreateModelMapping`); the groups
of a channel are found, deleted and inserted (`AskChannelGroups`, `ClearChannelGroups`,
`ReplaceChannelGroups`), beside the two statements of a deletion
(`UnbindChannel`, `DeleteChannel`). `RotateMasterKey` starts instances with a new master
key; those that serve requests go on with theirs, and each seals and opens with
the key it was started with (`req[p].key`).

A form is `Filled` field by field: what is not sent (`Keep`), or is an amount sent as ""
(`Empty`), keeps what `Merged` has carried over from the row, which is everything but
`effective_to`. `wanted` is what was last asked for of each field, `mixed` the prices of which two
PATCHes crossed.

A call reads what it needs in the order of `Chat` and the router: the group's
multiplier (`BeginCall`), the model with its fallbacks (`ModelByName`), the
price in force (`CurrentModelPrice`), the channels (`RouteCandidatesByGroup`), the names
they are to be asked for (`MappingRows`); then it opens the credentials of one
of them and is charged by what it read and what was counted (`Reply`, `ComputeCost`: input,
output and cached tokens, and a price per request that no caller asks for).

### Usage

`logs` are the rows of `usage_logs`, `doing[w]` is what worker `w` has in hand.
`StampUsageLog`, `InsertUsageLog`, `PutIdempotency` are `handleUsageWrite`, whose
idempotency record is good for 24 hours (`Lapsing`: since yesterday, so it may be
over or not); `FailUsageWrite` sends the message again. The ledger's row of the same call
is stamped when it is created in the transaction (`CreateLedger`) and there for others
to read when that commits (`CommitSettle`), or never (`RollBackSettle`); its amount is the cost, or
what the balance was when the overdraft branch read it (`Balances`). `ReadUsageRows`, `DeleteStats`, `WriteStats` are
`AggregateUsageDay`, whose read lies before its transaction and whose two transactions at once
meet in the unique key; `SumUsage` and `HandleReconcile` are the two sums of
`ReconcileDay`. Both tasks take the day before the one they are handled on. `odd`
are calls that a worker logged while another did, after a crash between row and
record, or after the record had lapsed; `late` are rows that were stamped before
midnight and inserted after it, `tardy` ledger rows that were committed after their day had
been reported.

### Platform

`roles` is what the process was started as, `stage` and `worker` how far it is.
`startRoles` gives the API its publisher, if there is a broker at that moment;
`runWorker` and `RunConsumers` are the worker's two connections, either of which
ends the process when it fails (`runErr`); `publishPeriodic` is a tick of cron with
`schedulerEnqueuer` before it; `Stop`, `Shutdown`, `waitRoles` the end.

A publish of task `t` is `Publish` (publish and wait for the confirm: stored, or
returned and confirmed all the same, or the connection breaks and the message may
be stored or not), then `ReadReturn`, which takes the first error that waits in
`returnErr`, whoever's it is; or, after a break, `Connect`, `Declare` and `Retry`.
`WatchReturns` and `PassOn` are the goroutine that fills `returnErr`, whose
capacity is `Waiting`. `BrokerDown`, `BrokerUp` and `Unbind` (an operator deletes
the queues) are the broker's doing.

## 3 Runs

`tlc -config <cfg> <module>`; names as in `PROJECT.json`. `accounts`,
`catalogue` and `usage` leave TLC's deadlock check on; it finds nothing there,
since a process may be restarted, or a day summed up, at any time. The other runs
switch it off: each instance has finitely much to do and stops when it is done
(in `platform`, a worker alone whose outages and signals are spent just waits).
That nothing stops earlier is what the liveness properties say: `EventuallyDone`,
`ReplayFollowsDelivery`, `Progress`, `SuccessSettles`, `StreamCallsEnd`, `TicksResume`.

### Runs that pass

| run | instance | shows |
|---|---|---|
| `settlement` | 2 workers, 2 deliveries each of a settlement that overdraws and of the refund of the same request, a recharge, an adjustment; failing release; symmetry over workers and copies | `BookedOnce`, `BalanceChain`, `AckedMeansReset` |
| `settlement_serial` | 1 worker, a settlement that overdraws unless its refund comes first, and one of a user without a balance row, 1 retry, 2 crashes | `ImplementsAccount`, `BalanceIsLedgerSum`, `AckedMeansDone`, `EventuallyDone` |
| `reserve_reclaim` | 2 requests of one user and of any length, one whose estimate is below its cost and one above, together more than the balance; threshold 3, expiry 4 periods; audit, reset, script, DEL and whole reclaims may fail, the reclaim may crash at any step | `GrantsWithinLoaded`, `FrozenBacked`, `ReturnsDeadOnly`, `OnlyExpiryForgets` |
| `resilient` | 3 tasks, one of them never accepted, one with a line over the limit; 1 torn write, 2 changes of the broker, 1 crash | `AckedLossBounded`, `ReplayFollowsDelivery` |
| `consumer` | 2 workers, a task with and one without a handler, 2 retries through buckets of different length, prefetch 2, 1 fault (lost channel, crash, refused retry or deleted buckets) | `NothingLost`, `CopiesBounded`, `RetryWindow`, `Progress` |
| `payment` | 2 orders of a user, 3 trades (one of another amount), 2 callbacks, 1 retry, 1 fault, 1 reload | `CreditedOnce`, `CreditsBacked`, `SuccessAccounted`, `StaleHasCause`, `SuccessSettles` |
| `gateway` | a chain of 2 models whose lists repeat each other, 2 channels, 1 change, 1 Redis failure, 1 crash, up to 2 upstream events of any kind through a channel of 1 (1.8 million states) | `ServedIsMetered`, `HoldHasCause`, `FailoverInOrder`, `WholeAnswer`, `BilledAsCounted`, `StreamCallsEnd` |
| `accounts` | 2 requests at a time; 2 super administrators, an administrator and one who may register; 2 groups, 3 keys with a limit of 1, 2 names, lock after 2 failures; 3 requests, of which 2 besides logins; symmetry over requests and unused keys (1.3 million states) | `SuperLossHasCause`, `KeysBounded`, `GuessesBounded`, `AuditTells` |
| `catalogue` | 2 requests at a time, 3 operations; 2 models, prices and channels, 1 mapping, 1 group; multipliers −1, 0, 2; prices of the past, of today and to come, with an end, an amount that is empty, a negative one, and a price per request alone; 3 counts of tokens, one of them nothing; 2 master keys; symmetry over requests, prices and channels (0.75 million states) | `DeletedIsUnbound`, `PatchKeepsOthers`, `CostSound` |
| `usage` | 2 workers, 2 calls, one of which is sent up to twice and one of which may be booked at less than its cost, one midnight, 1 fault (7.3 million states) | `LoggedOnce`, `StatsComplete`, `AlarmHasCause` |
| `platform` | any single role or all, 2 calls and a periodic task through one publisher with room for 1 returned message, 2 faults (0.6 million states) | `AnswerHasCause`, `TicksResume` |

Types are part of the inductive invariants, which section 4 proves; while they
were being found, each was checked by TLC on the instance of its run.

### The run that finds a violation

| run | property | counterexample |
|---|---|---|
| `settlement_drift` | `BalanceIsLedgerSum` | opening balance 4, costs 5 and 2: the first settlement misses and reads 4, the second is debited and committed, then the first zeroes the 2 that are left and books the 4 it had read |

See section 5 for the line this contradicts.

### Why the bounds are enough

- Two workers and two copies: a charge is booked twice by two handlers of
  the same message, past the lookup at the same time; drift needs two settlements. A third adds
  only more of the same. Crashes and retries are in the serial run, where
  the order of statements of one handler against its own redelivery is the question; that they do no harm to the
  safety properties with several workers is proved (section 4).
- `Threshold` and `TTL` are 45 and 60 min in periods of the 15 minutes between two reclaims; a hold
  must be able to reach the threshold, be judged, survive one crashed or failed reclaim and be judged
  again, or expire. How long requests take has no bound; `life` is counted up to the threshold, beyond which
  it makes no difference. Two requests are enough: a `Fill` that races another's grant overwrites it, and
  the reclaim's return of the forgotten hold then takes what belongs to the other.
- One torn write and two further tasks: a line that is cut, one that is spoilt
  by it, and one that is not. Two changes of the broker: down and up again.
- Two retries use both buckets and the exhaustion; `Ids` has room for
  the copies of both tasks with one fault.
- Two orders and three trades: one trade for two orders, two trades for one,
  a wrong amount, and a callback that names another's order.
- Two models × two channels: every neighbouring pair in the order of attempts
  (same model, next channel; next model, first channel). A channel of one place is full
  with one event; the code's 8 places would only need longer answers. Two events put a piece or
  a count before an end, and a second event behind an end; longer answers are the proofs' part
  (`CompleteIsWhole`, `BilledWhatWasCounted`).
- Two requests cross in every pair of statements; every race of `Accounts` and
  `Catalogue` is one of two requests, and what the first left behind is read by the third.
  With a limit of one key and two failures, both are reached and passed. For
  more requests, keys and failures `Accounts` is proved.
- Two master keys: the current one and the previous one, which still opens. The days of a
  price: yesterday, today, tomorrow, so that a later row takes over, or does not yet.
- One midnight: rows stamped before and inserted after, records written
  before and lapsed after, both tasks on either side. The idempotency record is the only state
  that reaches from one day to the next, and only to the next.
- Two faults of the platform: a publish that breaks and a reconnect that
  breaks; queues deleted and the broker gone; a signal on top of either. `Waiting` is
  8 in the code; with 1 the buffer is full with the first error.

### Fairness and why the code justifies it

- `Settlement`: a worker with a message goes on (every handler has a timeout
  context, so a statement that cannot go on fails), and the broker delivers
  while a worker is up. Nobody is obliged to publish, recharge or adjust, and
  crashes are bounded. One worker in `settlement_serial` stands for what
  sharding the settlement queue by user would give (`docs/06` §5.5), which the
  code does not do; it is the condition under which the refinement holds.
- `Resilient`: strong fairness for the goroutines, because the mutex is now
  and then free; `sync.Mutex` serves a waiter (its starvation mode).
- `Consumer`: strong fairness of delivery per worker, since a worker is often
  busy with something else; weak of handlers (`context.WithTimeout`) and of
  the bucket's TTL.
- `Payment`: callbacks and tasks run to their end, and a reload is written.
- `Gateway`: each goroutine that can go on does. The upstream ends because
  `http.Client.Timeout` (`main.go:183`) covers dial, headers and body; a write
  to a stalled client ends when it reads, leaves or the optional write timeout
  (0 by default) fires. Without that timeout a client that neither reads nor
  leaves holds the handler; the model has it end at last. Fairness
  obliges a goroutine only while it can go on: reader and parser may block for ever, and
  `StreamCallsEnd` shows that the handler still gets its last event or a closed channel, or leaves.
- `Platform`: the broker comes back, a process that ended is started again by
  its supervisor, cron ticks, and the steps of a publish go on. Queues that an
  operator deletes need not come back by themselves: `TicksResume` is about executions
  in which they are there from some time on (`<>[]bound`), as they are after a
  reconnect or a start has declared them and nobody deletes them any more.
- `Reserve`, `Accounts`, `Catalogue` and `Usage` have safety properties only and
  assume nothing.

## 4 Proofs

`tlapm <Name>Proofs.tla` checks every theorem of that module to the last leaf. They hold for
every value of the constants that satisfies the module's `...Assumption`: any
number of users, requests, workers, deliveries, channels, models, events,
retries, crashes and faults. Every safety property of a passing run is proved.

| theorem | statement | besides the module's assumption |
|---|---|---|
| `SettlementInvariant`, `TypeCorrect`, `NoDoubleBooking`, `LedgerChains`, `NoLostCharge`, `BookFirst`, `ReleaseBeforeAck` | `SettlementInv`; `TypeOK`; `BookedOnce`; `BalanceChain`; `AckedMeansDone`; `RecordMeansDone`; `AckedMeansReset` | |
| `OnlyOverdraftsDrift` | `DriftHasCause`: the balance is the sum of the ledger until a settlement empties it | |
| `TurnsImplementAccount`, `TurnsChainLedger`, `TurnsSumLedger` | `ImplementsAccount`; every row continues from the one before it; `BalanceIsLedgerSum` | messages of one user are handled one after the other (`[]OneAtATime`); no recharges and adjustments (`Orders`, `Adjusts` empty) |
| `OneWorkerImplementsAccount` | `ImplementsAccount` | one worker; `Orders`, `Adjusts` empty |
| `SolventUserImplementsAccount` | `Account` for one user: settlements, refunds, recharges and adjustments | none of the user's settlements enters the overdraft branch (`[]NeverShort(u)`) |
| `ReserveInvariant`, `ReclaimSparesTheLiving` | `ReserveInv`; `ReturnsDeadOnly` | |
| `ReclaimNeverForgets` | `OnlyExpiryForgets` | |
| `AmountsTyped` | Reserve's `TypeOK`: neither amount of the hash is negative | |
| `HoldsInvariant`, `GrantsCovered`, `FrozenHasHolds` | avail and frozen against the holds; `GrantsWithinLoaded`; `FrozenBacked` | |
| `ResilientInvariant`, `TearCostsOneTask` | `ResilientInv`; `AckedLossBounded` | |
| `AckedNeverLost` | `NoAckedLoss` | `MaxTears = 0` |
| `ConsumerInvariant`, `AtLeastOnce`, `AllRetriesFirst`, `OneCopyPerFault`, `RetriesEndInTime` | `ConsumerInv`; `NothingLost`; `DeadOnlyWhenExhausted`; `CopiesBounded`; `RetryWindow` | |
| `PaymentInvariant`, `NoDoubleCredit`, `EveryCreditBacked`, `NoSuccessForgotten`, `PaidStaysFinal`, `StaleOnlyForCause` | `PaymentInv`; `CreditedOnce`; `CreditsBacked`; `SuccessAccounted`; `PaidIsFinal`; `StaleHasCause` | |
| `GatewayInvariant`, `MeteredOnce`, `HoldsComeBack`, `AttemptsInOrder`, `HoldIsTheSettlements`, `CompleteIsWhole`, `BilledWhatWasCounted` | `GatewayInv`; `ServedIsMetered`; `HoldHasCause`; `FailoverInOrder`; `ServedKeepsHold`; `WholeAnswer`; `BilledAsCounted` | |
| `AccountsInvariant`, `SuperLossNeedsRace`, `KeyLimitNearlyHolds`, `LockNearlyHolds`, `TrailTells` | `AccountsInv`; `SuperLossHasCause`; `KeysBounded`; `GuessesBounded`; `AuditTells` | |
| `CatalogueInvariant`, `DeletionUnbinds`, `PatchesKeep`, `CallsChargedSoundly` | `CatalogueInv`; `DeletedIsUnbound`; `PatchKeepsOthers`; `CostSound` | |
| `UsageInvariant`, `SecondRowHasCause`, `DaysAddUp`, `AlarmsAreTrue` | the four invariants of `Usage`; `LoggedOnce`; `StatsComplete`; `AlarmHasCause` | |
| `PlatformInvariant`, `AnswersHaveCauses` | `PlatformInv`; `AnswerHasCause` | |
| `KeptQueuesKeepAnswersTrue` | `AnswersTrue`: nil only for a task in a queue, an error for a stored one only after a broken connection | nobody deletes the queues (`[][~Unbind]_platformVars`) |

Each `...Inv` is inductive, some of them beside a module's main invariant.
What each adds to the property it is for, and why:

- **`SettlementInv`.** `BookedOnce` follows from the unique index alone
  (`Commit` wants no such row). The others need the place of every worker: a
  handler past its transaction is done (`PastTx`), so what it
  records and acknowledges is booked. `AckedMeansReset` needs that a task whose redelivery would end in the
  L2 hit has its release under way or missed, as long as the hash may not show it (`BehindCovered`). `BalanceChain` needs that an
  open transaction holds the row lock and continues from the balance under it
  (`OpenTx`, `HeldByOne`), and that the newest row of a user carries the
  balance (`NewestRow`). The exception in `BalanceChain` for rows that emptied the
  balance is where the drift of section 5 enters. `DriftHasCause` is that exception
  summed up: a commit adds its amount to both sides, but for one that emptied the balance.
- **Turns.** That Settlement implements `Account` fails when two messages of a
  user are handled side by side (section 5, 8), and so does the sum of the ledger (section 5, 1). `OneAtATime` is the exact
  condition, and not a promise of the code: routing by user, which `docs/06` §5.5
  proposes and `src/` does not do, would give it. Under it what a transaction has
  read still holds when it commits (`SerialTx`): the amount it books is the one
  `Account` would book. With it the ledger chains without exception and its sum
  is the balance. The refinement maps the initial state, then each step: a commit to
  a booking, everything else to a stutter.
- **A user who never overdraws.** Only the overdraft branch reads a balance that
  it does not hold the lock of. A user who stays out of it therefore needs no turns, and
  recharges and adjustments may come in between: `SolventUserImplementsAccount` takes
  `Account` for that user alone, with all three kinds of bookings. What a worker has found
  in the row holds until it commits (`SoundTx`), because the others find the row locked
  (`LockedRow`); this is weaker than `SerialTx`, which also covers the overdraft's
  unlocked read. The hypothesis is about that user's settlements only: other users
  overdraw as they like. Without it the refinement
  fails: a refund or recharge that comes between the failed UPDATE and `ZeroOut` is taken
  whole, however little the settlement costs (section 5, 8).
- **`ReserveInv`.** `ReturnsDeadOnly` holds because the audit key of a request
  in flight is no older than the request (`KeyAge`), whatever resets, reloads and
  failing reclaims come between: a key that is judged while its request may still be charged
  belongs to one that has been in flight for the threshold. No bound on requests and no
  success of the reclaim is assumed. `OnlyExpiryForgets` needs that what is cleared has left the hash
  or was charged (`LeakInv`), also where a script or a DEL failed before.
- **`Within`.** For a loaded hash, avail plus the holds it contains is at most what it
  was loaded with, and frozen at most the holds. Each command moves one request in or out of
  that sum; the lemmas of `Sums` say what this does to it.
- **`ResilientInv`.** While nothing tore, an acknowledged task is with the
  broker or in a line that was synced (`Whole`), and the replay in progress has
  sent or will write back what is in the file (`Replayed`), which no append can
  change meanwhile because of the mutex (`Exclusive`).
- **`LossInv`.** With torn writes: a tear costs one task, the next one appended, and
  owes it from the moment the line is cut. `Charged` counts what is missing together
  with what an unended line will still cost, both for the file and for what a
  power failure would leave of it; a task whose own write tore was told so
  (`CutRefused`) and does not count.
- **`ConsumerInv`.** A linked worker handles the message the broker keeps for
  it (`InHand`), so its ack frees the right one; before the ack the task was
  handled or a copy with a higher count exists, unless the bucket was missing (`Backed`); the proof picks the
  copy that outlives the step, which may be any of those with a higher count.
  `CopiesBounded` holds because a step adds a live copy of a task only beside one it is about
  to end, or at the price of a fault. `RetryWindow` needs the same bound for messages and workers
  (`Aged`), where the attempt that has just failed counts, too.
- **`PaymentInv`.** What a callback read without a lock may be old, but "paid"
  never is (`ReadsHold`, by `PaidIsFinal`); a task was checked against its order's amount
  before it was published (`TasksChecked`). `StaleHasCause` is inductive beside it.
- **`GatewayInv`.** Where the call is determines what it has sent (`Metered`),
  the local variable `reserved` agrees with Redis (`Frozen`), and the plan's
  remainder lies behind what was tried (`Failover`, by the transitivity of
  `Sooner`). A parser that puts has something to put (`PutHasEvent`).
- **`DeliveryInv`.** As long as no stage was cut off, the pieces delivered and those
  still in a channel or a goroutine's hands are those of a prefix of the upstream's
  script (`NoneLost`), and the end is the last event in any queue (`EndIsLast`); so the handler
  that sees the end has seen everything, and the counts the parser holds are what the script told (`CountIsTold`).
- **`BillInv`.** `BilledAsCounted` speaks of the script as it is when the call is over, by when the
  reader may have read on. The parser stops at the first end mark, so the reader has at most one event
  beyond it, and the counts it holds stay those told before the mark (`Marked`). The usage is
  followed by the end wherever it waits (`UsageIsLast`), so a handler that left with a usage
  has had the end as well.
- **`AccountsInv`.** A count alone is not inductive: a request that has passed
  the check will add one, whatever the count is by then. `KeyBound` and
  `GuessBound` therefore count keys and the requests about to make one, failures and the
  guesses on their way, together. A change keeps a super administrator unless it is
  made on a check that no longer holds, which needs what each request was checked for
  (`ReqOK`). `AuditTells` needs that each half of an account is as recorded or
  has its record waiting at a request that nobody has overtaken (`Told`).
- **`CatalogueInv`.** What a request carries was checked, and is about a row of the
  kind it will write (`About`). Beside that, each property needs what the requests under way
  have read: a PATCH that nobody has overtaken would leave every other field as it
  is (`Patches`); a PUT of groups that was not told finds its channel live, and a
  deletion has seen every binding unless an insert came after it (`Binds`). `CostSound` needs that
  every price, rate and count that can be read is one that was checked; the mix is then harmless.
- **`OnceInv`, `DayInv`, `AlarmInv`.** A call without an excuse is in one worker's
  hands at most, and that worker or the record keeps every other from it
  (`OnceInv`). What an aggregation has read of a day is all of it, and stays all of it but for
  late rows, because the day is over (`WholeDay`). The alarm compares two sums: if no call
  of the day gave cause, every row carries the cost of one booking of the day and
  the other way round, so that the sums are equal (`CauseFound`). Once a day is reported it is over, and a row that
  becomes visible later is late or tardy, which keeps the cause a cause (`AlarmInv`).
- **`PlatformInv`.** What a publish under way has left behind so far
  (`Holds`): nothing while it begins, a stored or a returned message when it was
  confirmed, a broken connection when it is to be sent again. A step of one
  publish leaves the others' part alone. That a message is sent back at all needs a
  deletion of the queues: whoever publishes was given a publisher, and making one declares
  them (`NothingReturned`). Without deletions the answers are therefore true, which is
  what Resilient's `Deliver` takes from the enqueuer it wraps.

Sums and cardinalities range over sets of any size. The sum of a function over a set is
defined by a fold of the community modules, about which no theorem can be cited, since
induction over data takes an operator as its parameter. `Sums` gets
around this: a set on which a law fails would have a finite subset that is minimal among
those, and a minimal one cannot exist. The laws (one element more, two disjoint sets, equal
functions, the same parts in another order) are then plain lemmas.

Only model-checked is liveness: the six properties listed in section 3, since TLAPS does
not reason about fairness and ENABLED.

## 5 Disagreements between code and documentation

One has a run whose counterexample shows it; `findings` in `PROJECT.json`
quotes the line.

1. **The ledger drifts** (`settlement_drift`, `engine.go:193`). The overdraft branch reads the
   balance without a lock and zeroes the row afterwards. What another settlement, refund, recharge or adjustment
   of the user commits in between is booked in its own row and is in the amount read as
   well, or is wiped with the balance, so that the balance is no longer the sum of its rows, as
   `model/billing_ledger.go:5` says it is.

The following show in the models as the exception a passing property must make,
or as what a module cannot promise:

2. **The gate oversells** (`reserve.go:115`, `:122`). A reload or a reset
   forgets the holds of the user's other requests, and a refund's release even that of its own
   request before it is charged (`engine.go:278`); `docs/06:258` and
   `reserve.go:22`, `:77` rule that out. `GrantsWithinLoaded` therefore speaks of one
   hash, between two loads, and `AckedMeansReset` of the balance a user's cached hash shows and not of holds.
3. **The reclaim may return a hold twice** (`reserve.go:204-210`). It returns the
   hold and deletes the key in two commands; after a crash or a failed DEL between them the next one
   returns it again, if others' holds are there to take it from, against `reserve.go:54`.
   `GrantsWithinLoaded` counts this in.
4. **The retry window is longer than the threshold** (`reserve.go:136`, `engine.go:33`). 41 min
   5 s of waits and 11 attempts of up to 30 s make 46 min 35 s (`RetryWindow` for the
   configured values), and waits in the queue, the prefetch and the WAL file come on top without
   bound; the hold is taken for leaked after 45. `ReturnsDeadOnly` therefore says no more than that a
   live request has to be that old.
5. **A low cached balance stays** (`confirm.go:91`). A reload that reads before the
   credit and writes after its reset leaves the old balance, and the hash
   has no TTL, which `confirm.go:85` and `docs/06:414` count on. `StaleHasCause` names it.
6. **Goroutines are left behind** (`openai/provider.go:360-364`, `provider.go:174`). The parser sends into a
   channel of 8 places outside its select, the reader into one without any, and
   neither looks at the context there. A handler that left a full channel, or a parser that left, blocks them for
   ever, which `v1.go:186-187`, `provider.go:58-60`, `docs/04:46` and `docs/03:384` exclude. `StreamCallsEnd`
   says that the call itself ends all the same.
7. **An acknowledged task may be lost** (`fallback.go:91`). After a write that ends in the middle of a line, the next line is appended to
   the remainder and lost on replay although it was acknowledged;
   `fallback.go:23` says no crash at any moment loses a task.
   `AckedLossBounded` states what is true.
8. **A negative overdraft.** A recharge between the failed conditional UPDATE (`engine.go:176`) and the
   read (`:193`) makes a settlement take the whole larger balance and book a
   negative overdraft.
9. **The last super administrators remove each other** (`admin.go:514`).
   `SuperLossHasCause` names the race.
10. **One role's failure is not always everyone's** (`consumer.go:156`): consumers
    that have lost their connection end silently and the process stays, against
    `main.go:168`. `Progress` holds while a worker is left; `Platform` has such
    a worker as "deaf".
11. **An API started without a broker refuses every call, for good** (`main.go:199`,
    `gateway.go:132`), since it asks for its publisher once; the scheduler
    asks again at every tick (`TicksResume`).
12. **Publishing is not "never silently lost"** (`enqueuer.go:39-40`): a
    return that comes after the confirm is told to a later publish, or to nobody.
    `AnswerHasCause` says how much is true.
13. **An audit record may be missing** (`admin.go:249`, "审计不可静默丢失"): its error is
    logged and nothing else, and the second statement of a group's creation leaves
    the first unaudited when it fails. `AuditTells` excepts these.
14. **A missed release is not repeated** (`engine.go:137`). The comment at
    `engine.go:149-151` has the duplicate release too, in case the first one crashed right before its release;
    by then the L2 record may exist, and the redelivery ends there. `AckedMeansReset` excepts `missed`.
15. **A leaked hold may lose its key** (`reserve.go:193`). "Rather wait for the next
    reclaim": between 45 and 60 minutes there is one reclaim, and if it fails the key expires, after which
    no reclaim sees the hold. `OnlyExpiryForgets` says that nothing else takes the key.
16. **Pieces are dropped from complete answers.** `docs/07:147` lists tool calls and `v1.go:199` has a case for
    them; no parser emits them, and anthropic deltas that cannot be decoded are skipped
    (`anthropic/provider.go:300-309`). They are the "lost" events, which `WholeAnswer` does not count.
17. **An answer may be free** (`billing_metrics.go:146`). `docs/06:719-720` wants an estimate where the upstream
    counted nothing; only streams do that, and `BilledAsCounted` is about streams.
18. **A PATCH takes `effective_to` away** (`admin_entities.go:402`), against the comment at `:378-379`.
    `PatchKeepsOthers` leaves that field out (`KeptFields`).
19. **The price per request is never charged** (`types.go:89`): all callers pass `false`, against
    `docs/06:77`. `CostSound` asks only for the counted tokens.
20. **Two rotations shut credentials** (`envelope.go:95`). `docs/08:82-84` and `docs/01:504` have a task
    that re-encrypts; there is none. In `Catalogue` such a channel is passed over (`BuildRuntime`).
21. **Repeats in the log may go unseen** (`stats/reconcile.go`). `docs/06:656` relies on the reconciliation to
    find them; it compares two sums (`repository/reconcile.go:58`), in which a repeat and a gap cancel out.
    `AlarmHasCause` is about false alarms only.

Seen while modelling, and not part of any property:

- Money: `ManualBalanceAdjust` of a user without a balance row fails as
  "insufficient" for a credit too (`repository/admin.go:174-182`).
  `period.go:1` says UTC for what is aggregated; the repositories use
  days of Beijing. `stats:aggregate` and `daily:reconcile` carry no date, so that a
  delayed task handles another day. The aggregation is called idempotent, with its reads
  outside the transaction (`stats.go:16-20`). `usage_logs` has partitions up to
  August 2027 and nothing makes more (`migrations`, `init.up.sql:4`).
  `created_at` in `usage_logs` is the time the worker writes it.
- Prices: a multiplier of 0 is described as giving traffic away
  (`admin_channels.go:189`) and counts as 1 in `ComputeCost`. `effective_to` is read by the
  public list of models (`public.go:41`) and not by `CurrentModelPrice`, so that calls go on at a price
  that has ended. A PATCH empties the long-context prices, and an empty amount keeps the old
  one (`admin_entities.go:380-405`). The channel's multiplier enters the cost
  (`billing_metrics.go:22-24`, `src/README.md:27`), which `docs/06:45` and `:53` leave out. An upsert of a
  provider that omits `bill_on_failure` resets it.
- Metering: tokens written to a cache are never counted by the adapters, though rows have a price for them. An
  anthropic stream that has sent its input count and no other is billed its input and no
  output (`billing_metrics.go:73`), against `docs/06:678`.
- Log: `docs/03:282` gives the insert into `usage_logs` an `ON CONFLICT DO NOTHING`; the table has
  no unique key to conflict with and the code no such clause. `LoggedOnce` names when a call is
  logged twice.
- Routing: `catalog.go:21` says the provider must be active; the query (`:50`) does not
  ask. Mappings are listed by descending and used by ascending priority; two equal ones
  can be made at once. `handleChannelCreate` ignores weight and concurrency. A group
  can be deleted under the keys and users that refer to it.
- Failover: `tryStream` goes on to the next channel after errors that `docs/05:255`
  calls final; `FailoverInOrder` allows it for streams.
  `fallbackChain` uses the group's list and then the model's; `docs/05` §9 has the
  one replace the other. Fallback models are not checked against whitelist
  or status, and the requested model's price applies whichever answers.
  There is no `max_switches` (`docs/05:268`).
- Streams: `http.Client.Timeout` (`main.go:183`) also ends long streams that are
  still active. Tool calls in an OpenAI stream are decoded and never emitted.
- Requests: a client that sends its own `X-Request-ID` (`requestid.go:25`) chooses the key of its
  settlement; a second call under the same one is not settled.
  `Reset` after the client has left never works: it uses the cancelled context.
- Login: e-mail and user name are counted separately, so that an account has two
  counters.
- Start-up and tasks: `Raw("SELECT 1").Error` (`main.go:292`) never executes its query.
  A reconnect of the publisher does not close the old connection. `Task.MaxRetry` is read
  nowhere.

## 6 What is not modelled

`PROJECT.json` lists every component with its status. In short:

- **Left out for good**: request decoding and the encoding side of the adapters
  (pure functions of one request), read-only endpoints (queries), loading of the
  configuration and logging, the migration files (their unique indexes and
  defaults are in the modules), the frontend and deployment.
- **In part**: pricing (`ComputeCost` over small integers; no decimals, no
  long-context prices, no estimate before the call; the two prices of cached tokens are one), encryption (which key and channel a blob is bound
  to; the cryptography is the library's), roles (neither the first administrator
  nor the wiring).

Simplifications inside the modules:

- Settlement: amounts are integers, so that rounding of `numeric(20,10)` is not
  seen. A refund has no producer in `src/`; its handler is modelled all the same.
- Reserve: the settlement is one step, and so are the reclaim's SCAN and its
  ledger query (`Judge`), which may leave out any of the keys.
- Resilient: `delay`; the primary enqueuer is one step.
- Consumer: one queue; its retry buckets go and come back together.
- Payment: calls are one `Spend`; order expiry (`order:close`) and polling
  (`payment:query`) exist in the documentation only.
- Gateway: prices, and the size of token counts; what matters is that a call is metered,
  once, and whether by the upstream's counts, an estimate or nothing. Text is left out.
- Accounts: white lists, names, passwords, expiry dates of keys and sessions; a
  session past its time is one that is not used. `last_used_at` and the like decide nothing.
- Catalogue: one provider, and the prices and mappings of the one model that calls ask for; limits,
  quotas, weights. Nothing in `src/` but the reset writes a channel's circuit, which
  therefore starts open or closed.
- Usage: dimensions and money of the statistics: a statistic is the set of
  rows it sums. A payload with a date, which nothing in `src/` sends.
- Platform: exchanges and queues are one flag; the server's own timeouts; what becomes
  of a task is Consumer's.

## 7 Plan

Written, checked and proved about, in this order: `Settlement` with `Account`, `Reserve`,
`Resilient`, `Consumer`, `Payment`, `Stream` with `Gateway`, `Catalogue`,
`Accounts`, `Usage`, `Platform`.

What is left:

1. The rest of how the modules fit, as refinements: that Reserve's one-step settlement is what
   Settlement does. (That Resilient's one-step primary enqueuer is kept by Platform's
   publisher is `KeptQueuesKeepAnswersTrue`.)
2. Pricing with decimals: cost and estimate against a reference definition with
   the scale of `numeric(20,10)`.
