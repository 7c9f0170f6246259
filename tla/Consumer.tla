------------------------------- MODULE Consumer -------------------------------
(***************************************************************************)
(* The consumers of one business queue (task/consumer.go) and the broker   *)
(* around them: the queue, the retry buckets whose messages come back when *)
(* their TTL is over, and the dead-letter queue.                           *)
(*                                                                         *)
(* A worker has a channel of its own, holds at most Prefetch unacked       *)
(* messages and handles one at a time.  When the channel goes, the broker  *)
(* requeues what was unacked while the handler still runs; a delivery tag  *)
(* is void on a channel that went.                                         *)
(***************************************************************************)
EXTENDS Integers, Sequences, FiniteSets

CONSTANTS
    Tasks,
    Unhandled,      \* tasks that cannot be parsed or have no handler
    Workers,
    Ids,            \* bound: copies of messages the broker keeps at once
    Prefetch,
    MaxRetry,
    Buckets,        \* TTL of the retry buckets, in ascending order
    Timeout,        \* of a handler
    MaxFaults,      \* bound: lost channels, crashes, exits, refused retries,
                    \* deleted buckets
    Backoff         \* what the waits of the first n retries add up to
                    \* (docs/06 4.1)

Min2(a, b) == IF a < b THEN a ELSE b

ASSUME ConsumerAssumption ==
    /\ Tasks # {} /\ Unhandled \subseteq Tasks
    /\ Ids # {} /\ IsFiniteSet(Ids)
    /\ Workers \cap {"free", "queue", "wait", "dlq"} = {}
    /\ Prefetch \in Nat \ {0} /\ MaxRetry \in Nat \ {0}
    /\ Buckets \in Seq(Nat) /\ Buckets # << >>
    /\ Timeout \in Nat /\ MaxFaults \in Nat
    /\ Backoff \in [0 .. MaxRetry -> Nat] /\ Backoff[0] = 0
    /\ \A n \in 1 .. MaxRetry :
          Backoff[n] = Backoff[n - 1] + Buckets[Min2(n, Len(Buckets))]

VARIABLES
    sent,           \* tasks published to the queue
    done,           \* tasks whose handler answered nil at least once
    place,          \* where the copy of a message is; at a worker: unacked
    body,           \* its task, its x-retry-count and its age
    pc,             \* worker
    linked,         \* the channel of the worker is open
    tag, held,      \* the message it handles
    declared,       \* the queues of the retry buckets exist
    dropped,        \* tasks of which the broker dropped a retry
    faults

brokerVars == <<sent, place, body>>
workerVars == <<pc, linked, tag, held>>
topologyVars == <<declared, dropped>>
vars == <<brokerVars, workerVars, topologyVars, done, faults>>

\* The age is the longest time it may have spent in buckets and handlers.
Message == [task : Tasks, retries : Nat, age : Nat]
Fresh(t) == [task |-> t, retries |-> 0, age |-> 0]

\* Contents of a free copy, and tag of a worker with no message.
Blank == Fresh(CHOOSE t \in Tasks : TRUE)
NoTag == CHOOSE id \in Ids : TRUE

Places == {"free", "queue", "wait", "dlq"} \cup Workers

Live(id) == place[id] # "free"
Copies(t) == {id \in Ids : Live(id) /\ body[id].task = t}
Held(w) == {id \in Ids : place[id] = w}
Waiting == {id \in Ids : place[id] = "wait"}

-----------------------------------------------------------------------------
Init ==
    /\ sent = {}
    /\ done = {}
    /\ place = [id \in Ids |-> "free"]
    /\ body = [id \in Ids |-> Blank]
    /\ pc = [w \in Workers |-> "idle"]
    /\ linked = [w \in Workers |-> TRUE]
    /\ tag = [w \in Workers |-> NoTag]
    /\ held = [w \in Workers |-> Blank]
    /\ declared = TRUE
    /\ dropped = {}
    /\ faults = 0

\* The broker stores message m at the given place.
Store(m, at) ==
    \E id \in Ids :
        /\ ~Live(id)
        /\ id = CHOOSE free \in Ids : ~Live(free)
        /\ place' = [place EXCEPT ![id] = at]
        /\ body' = [body EXCEPT ![id] = m]

\* The worker moves the message it handles; void when its channel went.
Move(w, to) ==
    /\ place' = IF linked[w] THEN [place EXCEPT ![tag[w]] = to] ELSE place
    /\ body' = IF linked[w]
               THEN [body EXCEPT ![tag[w]] = IF to = "free" THEN Blank ELSE held[w]]
               ELSE body

Goto(w, label) == pc' = [pc EXCEPT ![w] = label]

\* handleDelivery returns, or dies.
Leave(w, label) ==
    /\ Goto(w, label)
    /\ tag' = [tag EXCEPT ![w] = NoTag]
    /\ held' = [held EXCEPT ![w] = Blank]

Fault == faults < MaxFaults /\ faults' = faults + 1

\* An enqueuer publishes the task.
Publish(t) ==
    /\ t \notin sent
    /\ sent' = sent \cup {t}
    /\ Store(Fresh(t), "queue")
    /\ UNCHANGED <<topologyVars, workerVars, done, faults>>

\* The broker pushes a message to a worker.
Deliver(w) ==
    /\ linked[w]
    /\ Cardinality(Held(w)) < Prefetch
    /\ \E id \in Ids :
           place[id] = "queue" /\ place' = [place EXCEPT ![id] = w]
    /\ UNCHANGED <<topologyVars, sent, body, workerVars, done, faults>>

\* The TTL of a retry bucket is over.
Expire(id) ==
    /\ place[id] = "wait"
    /\ place' = [place EXCEPT ![id] = "queue"]
    /\ UNCHANGED <<topologyVars, sent, body, workerVars, done, faults>>

\* handleDelivery begins with the next message pushed.
Take(w) ==
    /\ pc[w] = "idle" /\ linked[w]
    /\ \E id \in Held(w) :
           /\ tag' = [tag EXCEPT ![w] = id]
           /\ held' = [held EXCEPT ![w] = body[id]]
    /\ Goto(w, "run")
    /\ UNCHANGED <<topologyVars, brokerVars, linked, done, faults>>

\* Mutant of Rejected: Nack with requeue.
Requeued == "queue"

\* Where Nack without requeue sends a message that cannot be handled.
Rejected == "dlq"

\* No task or no handler.
Reject(w) ==
    /\ pc[w] = "run"
    /\ held[w].task \in Unhandled
    /\ Move(w, Rejected)
    /\ Leave(w, "idle")
    /\ UNCHANGED <<topologyVars, sent, linked, done, faults>>

\* The handler answers nil.
Succeed(w) ==
    /\ pc[w] = "run"
    /\ held[w].task \notin Unhandled
    /\ done' = done \cup {held[w].task}
    /\ held' = [held EXCEPT ![w].age = @ + Timeout]
    /\ Goto(w, "ack")
    /\ UNCHANGED <<topologyVars, brokerVars, linked, tag, faults>>

\* No retry is left after n of them.
Exhausted(n) == n >= MaxRetry

\* The handler fails, at the latest by its timeout.
Fail(w) ==
    /\ pc[w] = "run"
    /\ held[w].task \notin Unhandled
    /\ held' = [held EXCEPT ![w].age = @ + Timeout]
    /\ Goto(w, IF Exhausted(held[w].retries) THEN "dead" ELSE "retry")
    /\ UNCHANGED <<topologyVars, brokerVars, linked, tag, done, faults>>

\* Retries used up: Nack without requeue.
DeadLetter(w) ==
    /\ pc[w] = "dead"
    /\ Move(w, "dlq")
    /\ Leave(w, "idle")
    /\ UNCHANGED <<topologyVars, sent, linked, done, faults>>

\* Mutant of Bucket: straight to the last one.
LastBucket(n) == Len(Buckets)

\* retryBucket: one bucket after the other, then the last one.
Bucket(n) == Min2(n + 1, Len(Buckets))

\* Message m with its next retry counted.
Retried(m) ==
    [task |-> m.task,
     retries |-> m.retries + 1,
     age |-> m.age + Buckets[Bucket(m.retries)]]

\* The message goes to its bucket and the broker confirms: also when the
\* exchange of the bucket leads nowhere, because nobody listens on this channel
\* for the message that comes back.
Republish(w) ==
    /\ pc[w] = "retry" /\ linked[w]
    /\ \/ declared /\ Store(Retried(held[w]), "wait") /\ UNCHANGED dropped
       \/ /\ ~declared
          /\ dropped' = dropped \cup {held[w].task}
          /\ UNCHANGED <<place, body>>
    /\ Goto(w, "ack")
    /\ UNCHANGED <<declared, sent, linked, tag, held, done, faults>>

\* Mutant of BackToQueue: the original is acked all the same.
Dropped == "free"

\* Where Nack with requeue leaves a message.
BackToQueue == "queue"

\* The broker refuses the retry or the channel went: Nack with requeue.
Refuse(w) ==
    /\ pc[w] = "retry"
    /\ IF linked[w] THEN Fault ELSE UNCHANGED faults
    /\ Move(w, BackToQueue)
    /\ Leave(w, "idle")
    /\ UNCHANGED <<topologyVars, sent, linked, done>>

\* Mutant of Acked: requeued after the retry was stored.
Returned == "queue"

\* Where Ack leaves a message.
Acked == "free"

\* Ack: after the handler's nil, or once the retry is stored.
Ack(w) ==
    /\ pc[w] = "ack"
    /\ Move(w, Acked)
    /\ Leave(w, "idle")
    /\ UNCHANGED <<topologyVars, sent, linked, done, faults>>

\* The broker requeues what the worker has not acked.
Release(w) ==
    place' = [id \in Ids |-> IF place[id] = w THEN "queue" ELSE place[id]]

\* The channel or connection is lost, whatever the worker is doing.
Disconnect(w) ==
    /\ linked[w]
    /\ Fault
    /\ linked' = [linked EXCEPT ![w] = FALSE]
    /\ Release(w)
    /\ UNCHANGED <<topologyVars, sent, body, pc, tag, held, done>>

\* The closed delivery channel: the worker ends and nobody starts it again.
Quit(w) ==
    /\ pc[w] = "idle" /\ ~linked[w]
    /\ Goto(w, "gone")
    /\ UNCHANGED <<topologyVars, brokerVars, linked, tag, held, done, faults>>

\* The process dies; or it shuts down and its idle worker ends.
Crash(w) ==
    /\ pc[w] # "gone"
    /\ Fault
    /\ linked' = [linked EXCEPT ![w] = FALSE]
    /\ Release(w)
    /\ Leave(w, "gone")
    /\ UNCHANGED <<topologyVars, sent, body, done>>

\* The process is started again: it declares the topology, then consumes.
Restart(w) ==
    /\ pc[w] = "gone"
    /\ Goto(w, "idle")
    /\ linked' = [linked EXCEPT ![w] = TRUE]
    /\ declared' = TRUE
    /\ UNCHANGED <<brokerVars, dropped, tag, held, done, faults>>

\* Somebody deletes the queues of the retry buckets, messages and all.
DeleteBuckets ==
    /\ declared
    /\ Fault
    /\ declared' = FALSE
    /\ dropped' = dropped \cup {body[id].task : id \in Waiting}
    /\ place' = [id \in Ids |-> IF id \in Waiting THEN "free" ELSE place[id]]
    /\ body' = [id \in Ids |-> IF id \in Waiting THEN Blank ELSE body[id]]
    /\ UNCHANGED <<sent, workerVars, done>>

\* An enqueuer connects, which declares the topology too.
Declare ==
    /\ ~declared
    /\ declared' = TRUE
    /\ UNCHANGED <<brokerVars, workerVars, dropped, done, faults>>

Handle(w) ==
    \/ Take(w) \/ Reject(w) \/ Succeed(w) \/ Fail(w)
    \/ DeadLetter(w) \/ Republish(w) \/ Refuse(w) \/ Ack(w) \/ Quit(w)

Next ==
    \/ \E t \in Tasks : Publish(t)
    \/ \E w \in Workers :
           Deliver(w) \/ Handle(w) \/ Disconnect(w) \/ Crash(w) \/ Restart(w)
    \/ \E id \in Ids : Expire(id)
    \/ DeleteBuckets
    \/ Declare

Spec == Init /\ [][Next]_vars

\* The broker delivers and expires, handlers return within their timeout.
Fairness ==
    /\ \A w \in Workers : SF_vars(Deliver(w)) /\ WF_vars(Handle(w))
    /\ \A id \in Ids : WF_vars(Expire(id))

FairSpec == Spec /\ Fairness

-----------------------------------------------------------------------------
(***************************************************************************)
(* Properties.                                                             *)
(***************************************************************************)
\* Types of the variables; no message counts more than MaxRetry retries.
TypeOK ==
    /\ sent \subseteq Tasks
    /\ done \subseteq Tasks
    /\ place \in [Ids -> Places]
    /\ body \in [Ids -> Message]
    /\ \A id \in Ids : body[id].retries <= MaxRetry
    /\ pc \in [Workers -> {"idle", "run", "dead", "retry", "ack", "gone"}]
    /\ linked \in [Workers -> BOOLEAN]
    /\ tag \in [Workers -> Ids]
    /\ held \in [Workers -> Message]
    /\ declared \in BOOLEAN
    /\ dropped \subseteq Tasks
    /\ faults \in 0 .. MaxFaults

\* A published task was handled, or a copy of it is in the queue, in a bucket,
\* with a worker or dead: the retry is stored before the original is acked.
\* Only a missing bucket loses a task, by the retries it held or should have
\* held: the broker confirms what it drops (consumer.go:221).
NothingLost == \A t \in sent \ (done \cup dropped) : Copies(t) # {}

\* Only a task without handler or with all retries behind it is given up.
DeadOnlyWhenExhausted ==
    \A id \in Ids :
        place[id] = "dlq" =>
            body[id].task \in Unhandled \/ body[id].retries = MaxRetry

\* A task has one copy, the one about to be acked not counted, and one more for
\* every fault.
AboutToBeAcked == {tag[w] : w \in {v \in Workers : pc[v] = "ack" /\ linked[v]}}
Standing(t) == Copies(t) \ AboutToBeAcked
CopiesBounded ==
    \A t \in Tasks : Cardinality(Standing(t)) <= 1 + faults

\* With n retries behind it a task is no older than the buckets of these
\* retries add up to, plus a timeout for every attempt, those after a fault
\* included.
Limit(n, attempts) == Backoff[n] + (n + attempts) * Timeout
RetryWindow ==
    \A w \in Workers : held[w].age <= Limit(held[w].retries, 1 + faults)

\* A published task is handled, given up or dropped with a missing bucket,
\* unless every worker has ended.
Progress ==
    \A t \in Tasks :
        t \in sent ~>
            \/ t \in done \cup dropped
            \/ \E id \in Copies(t) : place[id] = "dlq"
            \/ \A w \in Workers : pc[w] = "gone"

(***************************************************************************)
(* The invariants the safety properties follow from.                       *)
(***************************************************************************)
\* The message a linked worker handles is the one the broker keeps for it.
Busy(w) == pc[w] \in {"run", "dead", "retry", "ack"}
InHand ==
    \A w \in Workers :
        Busy(w) /\ linked[w] =>
            /\ place[tag[w]] = w
            /\ body[tag[w]].task = held[w].task
            /\ body[tag[w]].retries = held[w].retries

\* The workers go by the retry count of their message.
Counted ==
    \A w \in Workers :
        /\ held[w].retries <= MaxRetry
        /\ pc[w] = "retry" => held[w].retries < MaxRetry
        /\ pc[w] = "dead" => held[w].retries = MaxRetry

\* Before the ack the task was handled, or a later retry of it is kept, unless
\* the bucket is missing.
Backed ==
    \A w \in Workers :
        pc[w] = "ack" =>
            \/ held[w].task \in done \cup dropped
            \/ \E id \in Copies(held[w].task) : body[id].retries > held[w].retries

\* What the broker keeps was published.
Known == \A id \in Ids : Live(id) => body[id].task \in sent

\* The attempt that dead-letters a message, or is over at a worker, counts too.
Aged ==
    /\ \A id \in Ids :
          body[id].age <=
            Limit(body[id].retries, IF place[id] = "dlq" THEN 1 + faults ELSE faults)
    /\ \A w \in Workers :
          held[w].age <=
            Limit(held[w].retries,
                  IF pc[w] \in {"dead", "retry", "ack"} THEN 1 + faults ELSE faults)

ConsumerInv ==
    TypeOK /\ InHand /\ Counted /\ Backed /\ NothingLost /\ DeadOnlyWhenExhausted
=============================================================================
