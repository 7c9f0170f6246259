------------------------------- MODULE Platform --------------------------------
(***************************************************************************)
(* One process of CloudFog (cmd/cloudfog): the roles it starts, how they   *)
(* stop, the cron that sends the periodic tasks, and the one publisher     *)
(* they share (task/enqueuer.go) before a broker that goes and comes back  *)
(* and whose queues an operator may delete.                                *)
(***************************************************************************)
EXTENDS Naturals, Sequences

CONSTANTS
    Calls,              \* tasks the API publishes, each once
    Tick,               \* the periodic task, published over and over
    Waiting,            \* capacity of returnErr
    MaxFaults           \* bound on what befalls the broker and the process

ASSUME PlatformAssumption ==
    /\ Tick \notin Calls /\ Waiting \in Nat \ {0} /\ MaxFaults \in Nat

VARIABLES
    roles,      \* the process is started with: one of them, or all
    stage,      \* of the process: "off", "starting", "up", "closing", "waiting"
    worker,     \* "off", "starting", "declared", "consuming",
                \* "deaf": its consumers have ended
    ready,      \* schedulerEnqueuer has made the publisher
    prod,       \* gw.Prod and PayEnq: the API was given it
    ch,         \* the publisher's channel: "none", "open", "closed"
    heard,      \* watchReturns listens on it
    pub,        \* where each publish is
    told,       \* what it answered
    returnErr,  \* errors of returned messages, waiting to be read
    running,     \* the broker runs
    bound,      \* its queues are declared and bound
    stored,     \* tasks that were put in a queue
    basket,     \* returned messages on their way to watchReturns
    faults,
    returned, blamed, broken    \* tasks sent back; given another's error; cut off

process == <<roles, stage, worker>>
shared == <<ready, prod>>
link == <<ch, heard>>
answers == <<pub, told>>
amqp == <<running, bound, stored, basket>>
notes == <<faults, returned, blamed, broken>>
platformVars == <<process, shared, link, answers, returnErr, amqp, notes>>

Published == Calls \cup {Tick}

Roles == {"api", "worker", "scheduler"}

PlatformInit ==
    /\ roles \in {{one} : one \in Roles} \cup {Roles}
    /\ stage = "off" /\ worker = "off" /\ ready = FALSE /\ prod = FALSE
    /\ ch = "none" /\ heard = FALSE /\ returnErr = <<>>
    /\ pub = [t \in Published |-> "idle"]
    /\ told = [t \in Published |-> "nothing"]
    /\ running \in BOOLEAN /\ bound \in BOOLEAN /\ stored = {} /\ basket = {}
    /\ faults = 0 /\ returned = {} /\ blamed = {} /\ broken = {}

Answer(t, a) ==
    /\ pub' = [pub EXCEPT ![t] = "idle"]
    /\ told' = [told EXCEPT ![t] = a]
Goes(t, label) == pub' = [pub EXCEPT ![t] = label] /\ UNCHANGED told

-----------------------------------------------------------------------------
(* The broker, and those who look after it                                 *)

Fault == faults < MaxFaults /\ faults' = faults + 1

\* Connections die with it, those of the consumers for good (module Consumer).
BrokerDown ==
    /\ Fault /\ running
    /\ running' = FALSE /\ basket' \in SUBSET basket
    /\ worker' = IF worker = "consuming" THEN "deaf" ELSE worker
    /\ ch' = IF ch = "open" THEN "closed" ELSE ch
    /\ heard' = FALSE
    /\ UNCHANGED <<roles, stage, shared, answers, returnErr, bound, stored, returned, blamed, broken>>

BrokerUp ==
    /\ ~running /\ running' = TRUE
    /\ UNCHANGED <<process, shared, link, answers, returnErr, bound, stored, basket, notes>>

\* Somebody deletes the queues.
Unbind ==
    /\ Fault /\ running /\ bound /\ bound' = FALSE
    /\ worker' = IF worker = "consuming" THEN "deaf" ELSE worker
    /\ UNCHANGED <<roles, stage, shared, link, answers, returnErr, running, stored, basket,
                   returned, blamed, broken>>

-----------------------------------------------------------------------------
(* The publisher                                                           *)

\* schedulerEnqueuer: what is there is used; else it is made, which needs the
\* broker.  A failure is not remembered.
dial == running
EnsureTopology == bound' = TRUE
EnsureBrokerTopology == dial /\ EnsureTopology
NewRabbitEnqueuer ==
    /\ dial
    /\ ch' = "open" /\ heard' = FALSE /\ EnsureTopology /\ ready' = TRUE

\* Mutant of MayTryAgain: the first answer is the last (sync.Once).
Once == ready \/ stage = "starting"

MayTryAgain == TRUE

schedulerEnqueuer(got) ==
    \/ /\ ready /\ got
       /\ UNCHANGED <<ready, link, bound>>
    \/ /\ ~ready /\ got /\ MayTryAgain /\ NewRabbitEnqueuer
    \/ /\ ~ready /\ ~got /\ ~(dial /\ MayTryAgain)
       /\ UNCHANGED <<ready, link, bound>>

\* publish up to the confirm: stored, or sent back and confirmed all the same;
\* or the connection fails, and then the message may have been stored.
Reached(t) ==
    /\ running /\ ch = "open"
    /\ IF bound
       THEN stored' = stored \cup {t} /\ UNCHANGED <<basket, returned>>
       ELSE /\ basket' = IF heard THEN basket \cup {t} ELSE basket
            /\ returned' = returned \cup {t} /\ UNCHANGED stored
CutOff(t) ==
    /\ \/ /\ ch = "closed" /\ UNCHANGED <<stored, ch, heard, faults>>
       \/ /\ ch = "open" /\ running /\ Fault
          /\ ch' = "closed" /\ heard' = FALSE
          /\ \/ bound /\ stored' = stored \cup {t}
             \/ UNCHANGED stored
    /\ broken' = broken \cup {t}
    /\ UNCHANGED <<basket, returned>>

\* Mutant of Confirmed: nobody waits for the broker's word.
Unconfirmed(t, label) ==
    /\ Goes(t, label)
    /\ \/ Reached(t) /\ UNCHANGED <<link, faults, broken>>
       \/ CutOff(t)

Confirmed(t, label) == Reached(t) /\ UNCHANGED <<link, faults, broken>> /\ Goes(t, label)

Publish(t) ==
    /\ pub[t] = "begin"
    /\ \/ Confirmed(t, "sent")
       \/ CutOff(t) /\ Goes(t, "broken")
    /\ UNCHANGED <<process, shared, returnErr, running, bound, blamed>>

\* watchReturns is a goroutine of its own: it may begin after a publish.
WatchReturns ==
    /\ ch = "open" /\ ~heard /\ heard' = TRUE
    /\ UNCHANGED <<process, shared, ch, answers, returnErr, amqp, notes>>

PassOn(t) ==
    /\ t \in basket /\ basket' = basket \ {t}
    /\ returnErr' = IF Len(returnErr) < Waiting THEN Append(returnErr, t) ELSE returnErr
    /\ UNCHANGED <<process, shared, link, answers, running, bound, stored, notes>>

\* The error that has waited longest is the answer, whoever's it is.
ReadReturn(t) ==
    /\ pub[t] = "sent"
    /\ IF returnErr = <<>>
       THEN Answer(t, "ok") /\ UNCHANGED <<returnErr, blamed>>
       ELSE /\ Answer(t, "error") /\ returnErr' = Tail(returnErr)
            /\ blamed' = IF t \in returned THEN blamed ELSE blamed \cup {t}
    /\ UNCHANGED <<process, shared, link, amqp, faults, returned, broken>>

\* reconnectAndRetry, three times under the lock: the channel is closed before
\* the broker is dialled, and stays so if it is not there;
Connect(t) ==
    /\ pub[t] = "broken"
    /\ IF dial THEN ch' = "open" /\ Goes(t, "connected")
               ELSE ch' = (IF ch = "none" THEN "none" ELSE "closed") /\ Answer(t, "error")
    /\ heard' = FALSE
    /\ UNCHANGED <<process, shared, returnErr, amqp, notes>>

\* everything is declared anew;
Declare(t) ==
    /\ pub[t] = "connected"
    /\ IF running /\ ch = "open" THEN EnsureTopology /\ Goes(t, "again")
                                ELSE UNCHANGED bound /\ Answer(t, "error")
    /\ UNCHANGED <<process, shared, link, returnErr, running, stored, basket, notes>>

\* and the message is sent again; what is returned now is not asked for.
Retry(t) ==
    /\ pub[t] = "again"
    /\ \/ Reached(t) /\ Answer(t, "ok") /\ UNCHANGED <<link, faults, broken>>
       \/ CutOff(t) /\ Answer(t, "error")
    /\ UNCHANGED <<process, shared, returnErr, running, bound, blamed>>

-----------------------------------------------------------------------------
(* The roles                                                               *)

\* run, startRoles: the configuration, the database and the schema are there,
\* or the process ends at once.
Start ==
    /\ stage = "off"
    /\ stage' = "starting"
    /\ UNCHANGED <<roles, worker, shared, link, answers, returnErr, amqp, notes>>

\* The API asks for the publisher now and never again; the other roles follow.
startRoles ==
    /\ stage = "starting"
    /\ IF "api" \in roles
       THEN \E got \in BOOLEAN : schedulerEnqueuer(got) /\ prod' = got
       ELSE UNCHANGED <<ready, prod, link, bound>>
    /\ stage' = "up"
    /\ worker' = IF "worker" \in roles THEN "starting" ELSE "off"
    /\ UNCHANGED <<roles, answers, returnErr, running, stored, basket, notes>>

\* A worker that finds no broker ends the whole process,
runErr == worker' = "off" /\ stage' = "closing" /\ UNCHANGED bound

runWorker ==
    /\ stage = "up" /\ worker = "starting"
    /\ \/ EnsureBrokerTopology /\ worker' = "declared" /\ UNCHANGED stage
       \/ ~dial /\ runErr
    /\ UNCHANGED <<roles, shared, link, answers, returnErr, running, stored, basket, notes>>

\* at its second connection too.
RunConsumers ==
    /\ stage = "up" /\ worker = "declared"
    /\ \/ EnsureBrokerTopology /\ worker' = "consuming" /\ UNCHANGED stage
       \/ ~dial /\ runErr
    /\ UNCHANGED <<roles, shared, link, answers, returnErr, running, stored, basket, notes>>

\* A call is answered and its task published, if the API was given a publisher:
\* without one the gateway refuses every call (gateway.go:132), until a restart.
Produce(c) ==
    /\ stage = "up" /\ prod
    /\ pub[c] = "idle" /\ told[c] = "nothing"
    /\ Goes(c, "begin")
    /\ UNCHANGED <<process, shared, link, returnErr, amqp, notes>>

\* cron runs until the process is told to stop.
runScheduler == stage = "up" /\ "scheduler" \in roles

\* publishPeriodic; the queue's consumers have long taken the one before.
publishPeriodic ==
    /\ runScheduler /\ pub[Tick] = "idle"
    /\ \E got \in BOOLEAN :
           /\ schedulerEnqueuer(got)
           /\ pub' = [pub EXCEPT ![Tick] = IF got THEN "begin" ELSE "idle"]
    /\ told' = [told EXCEPT ![Tick] = "nothing"]
    /\ stored' = stored \ {Tick}
    /\ returned' = returned \ {Tick} /\ blamed' = blamed \ {Tick} /\ broken' = broken \ {Tick}
    /\ UNCHANGED <<process, prod, returnErr, running, basket, faults>>

\* A signal, or a role that fails: the API is closed first,
Stop ==
    /\ Fault /\ stage = "up" /\ stage' = "closing"
    /\ UNCHANGED <<roles, worker, shared, link, answers, returnErr, amqp, returned, blamed, broken>>

\* which waits for the calls under way or for its timeout; then the worker and
\* the scheduler, for as long; a tick under way is waited for by nobody.
Shutdown ==
    /\ stage = "closing"
    /\ stage' = "waiting"
    /\ UNCHANGED <<roles, worker, shared, link, answers, returnErr, amqp, notes>>

waitRoles ==
    /\ stage = "waiting"
    /\ stage' = "off" /\ worker' = "off" /\ ready' = FALSE /\ prod' = FALSE
    /\ ch' = "none" /\ heard' = FALSE /\ returnErr' = <<>> /\ basket' = {}
    /\ pub' = [t \in Published |-> "idle"]
    /\ told' = [t \in Published |-> IF pub[t] = "idle" THEN told[t] ELSE "cut"]
    /\ UNCHANGED <<roles, running, bound, stored, notes>>

Broker == BrokerDown \/ BrokerUp \/ Unbind
Publisher ==
    \/ WatchReturns
    \/ \E t \in Published :
           Publish(t) \/ PassOn(t) \/ ReadReturn(t) \/ Connect(t) \/ Declare(t) \/ Retry(t)
Lifecycle == Start \/ startRoles \/ runWorker \/ RunConsumers \/ Shutdown \/ waitRoles
PlatformNext ==
    \/ Broker \/ Publisher \/ Lifecycle \/ Stop
    \/ publishPeriodic \/ \E c \in Calls : Produce(c)

\* Goroutines go on, cron goes off, timeouts end; the supervisor starts the
\* process again, and the broker comes back.
PlatformFairness ==
    /\ WF_platformVars(BrokerUp)
    /\ WF_platformVars(Lifecycle)
    /\ WF_platformVars(publishPeriodic)
    /\ \A t \in Published :
           /\ WF_platformVars(Publish(t)) /\ WF_platformVars(ReadReturn(t))
           /\ WF_platformVars(PassOn(t)) /\ WF_platformVars(Connect(t))
           /\ WF_platformVars(Declare(t)) /\ WF_platformVars(Retry(t))

PlatformSpec == PlatformInit /\ [][PlatformNext]_platformVars /\ PlatformFairness
-----------------------------------------------------------------------------
\* A publish that answers nil has its task in a queue unless the broker sent it
\* back, and one that answers an error leaves none there unless the connection
\* broke under it or it was given the error of another: the two ways the shared
\* returnErr and the confirm lie to their caller (RabbitEnqueuer.publish).
AnswerHasCause ==
    \A t \in Published :
        /\ told[t] = "ok" => t \in stored \cup returned
        /\ told[t] = "error" /\ t \in stored => t \in broken \cup blamed

\* Whatever the broker did when the process started, and whoever asked for the
\* publisher first: as long as the queues are there, periodic tasks reach them
\* again and again (schedulerEnqueuer).
TicksResume ==
    "scheduler" \in roles /\ <>[]bound => []<>(told[Tick] = "ok" /\ Tick \in stored)
=============================================================================
