------------------------------ MODULE Gateway -------------------------------
(***************************************************************************)
(* One call of POST /v1/chat/completions (gateway/gateway.go, Chat): the   *)
(* checks, the hold on the balance, the plan of attempts, the failover     *)
(* from attempt to attempt, the answer, the metering tasks and the release *)
(* of the hold, next to a client that may leave, an administrator who      *)
(* changes the channels and a Redis that may fail.  A streamed answer is   *)
(* the pipeline of Stream.                                                 *)
(***************************************************************************)
EXTENDS Stream

CONSTANTS
    Models,
    Requested,      \* the model the client asks for
    GroupFallbacks, \* the group's fallback_models, in order
    ModelFallbacks, \* the requested model's fallbacks, in order
    NumChannels,    \* the group's channels, numbered by priority, weight, id
    MaxChanges,     \* bound: changes of the channels' state
    MaxFaults,      \* bound: Redis calls that fail
    MaxCrashes      \* bound: the gateway process dies

ASSUME GatewayAssumption ==
    /\ Requested \in Models
    /\ GroupFallbacks \in Seq(Models)
    /\ ModelFallbacks \in Seq(Models)
    /\ NumChannels \in Nat
    /\ MaxChanges \in Nat /\ MaxFaults \in Nat /\ MaxCrashes \in Nat

Channels == 1 .. NumChannels

\* Every model the call may use, with repetitions.
Wanted == <<Requested>> \o GroupFallbacks \o ModelFallbacks

\* fallbackChain: the positions of Wanted that survive the removal of
\* repetitions.
Links == {i \in DOMAIN Wanted : \A j \in 1 .. i - 1 : Wanted[j] # Wanted[i]}

\* An attempt is a link of the chain on a channel.
Attempts == Links \X Channels
Results == {"ok", "retryable", "final"}

VARIABLES
    call,       \* kind of call and configuration: streamed; Res; Prod
    pc,         \* where Chat is
    hold,       \* the request's amount is frozen in Redis
    reserved,   \* Chat's local variable of that name
    usable,     \* channels that are active, schedulable and not cooling down
    routed,     \* channels that were usable when the plan was made
    plan,       \* the attempts Chat has still to make
    tried,      \* the attempts made, in order, with their results
    served,     \* an upstream has answered
    changes, faults, crashes

chatVars == <<call, pc, hold, reserved, plan, routed, tried, served>>
envVars == <<usable, changes, faults, crashes>>
vars == <<chatVars, envVars, streamVars>>

CallType == [stream : BOOLEAN, res : BOOLEAN, prod : BOOLEAN]

Init ==
    /\ StreamInit
    /\ call \in CallType
    /\ pc = "enter"
    /\ hold = FALSE
    /\ reserved = FALSE
    /\ usable = Channels
    /\ routed = {}
    /\ plan = {}
    /\ tried = << >>
    /\ served = FALSE
    /\ changes = 0
    /\ faults = 0
    /\ crashes = 0

Goto(step) == pc' = step

\* Mutant of Abort: an error return that forgets releaseRes.
AbortUnreleased == "done"

\* Where a failure after the hold leads.
Abort == "release"

\* Where a success leads: the hold is the settlement's.
AnswerSent == "done"

\* The failures that leave Chat at once.
Refuse == Goto("done")

\* The fail-closed check, the model's status and the whitelists; any of the
\* lookups may fail.
Enter ==
    /\ pc = "enter"
    /\ \/ Refuse
       \/ ~(call.res /\ ~call.prod) /\ Goto("gate")
    /\ UNCHANGED <<call, hold, reserved, plan, routed, tried, served, envVars,
                   streamVars>>

\* Streams, and every call without Redis: the balance is only read.
CheckBalance ==
    /\ pc = "gate"
    /\ call.stream \/ ~call.res
    /\ Refuse \/ Goto("plan")
    /\ UNCHANGED <<call, hold, reserved, plan, routed, tried, served, envVars,
                   streamVars>>

\* Reserve grants, refuses, or fails: then the hold may have been taken, and
\* Chat does not know.  An estimate of zero needs no hold.
Hold ==
    /\ pc = "gate"
    /\ ~call.stream /\ call.res
    /\ \/ Goto("plan") /\ hold' = TRUE /\ reserved' = TRUE /\ UNCHANGED faults
       \/ Goto("plan") /\ UNCHANGED <<hold, reserved, faults>>
       \/ Refuse /\ UNCHANGED <<hold, reserved, faults>>
       \/ /\ faults < MaxFaults \/ cancelled
          /\ faults' = IF cancelled THEN faults ELSE faults + 1
          /\ Refuse
          /\ hold' \in BOOLEAN
          /\ UNCHANGED reserved
    /\ UNCHANGED <<call, plan, routed, tried, served, usable, changes, crashes,
                   streamVars>>

\* RouteCandidatesByGroup and usableAt, at the time of the plan.
Routable == usable

\* Plan: the chain times the channels; a lookup may fail.  Nothing usable
\* is ErrNoChannel.
Plan ==
    /\ pc = "plan"
    /\ \/ /\ Goto(Abort)
          /\ UNCHANGED <<routed, plan>>
       \/ /\ Routable # {}
          /\ Goto("try")
          /\ routed' = usable
          /\ plan' = Links \X Routable
    /\ UNCHANGED <<call, hold, reserved, tried, served, envVars, streamVars>>

\* Mutant of Sooner: channel by channel instead of model by model.
ChannelFirst(p, q) == p[2] < q[2] \/ (p[2] = q[2] /\ p[1] < q[1])

\* Order of the attempts.
Sooner(p, q) == p[1] < q[1] \/ (p[1] = q[1] /\ p[2] < q[2])

\* tryOnce says that no other channel could do better; tryStream says nothing
\* of the kind.
GivesUp(result) == ~call.stream /\ result = "final"

\* One round of the attempts loop.  The context is looked at before the
\* attempt; cancelled during it, the attempt fails.
Try(p, result) ==
    /\ pc = "try"
    /\ ~cancelled
    /\ p \in plan
    /\ \A q \in plan : q = p \/ Sooner(p, q)
    /\ plan' = plan \ {p}
    /\ tried' = Append(tried, [at |-> p, result |-> result])
    /\ served' = (result = "ok")
    /\ IF result = "ok"
       THEN IF call.stream THEN Goto("stream") /\ Open
                           ELSE Goto("meter") /\ UNCHANGED streamVars
       ELSE /\ Goto(IF GivesUp(result) THEN "release" ELSE "try")
            /\ UNCHANGED streamVars
    /\ UNCHANGED <<call, hold, reserved, routed, envVars>>

\* The loop ends: cancelled, or no attempt is left.
EndOfTries ==
    /\ pc = "try"
    /\ cancelled \/ plan = {}
    /\ Goto("release")
    /\ UNCHANGED <<call, hold, reserved, plan, routed, tried, served, envVars,
                   streamVars>>

\* releaseRes: Reset uses the request's context, so that it fails once that
\* is cancelled; its error is dropped.
Release ==
    /\ pc = "release"
    /\ reserved' = FALSE
    /\ \/ ~reserved /\ UNCHANGED <<hold, faults>>
       \/ reserved /\ ~cancelled /\ hold' = FALSE /\ UNCHANGED faults
       \/ reserved /\ cancelled /\ UNCHANGED <<hold, faults>>
       \/ /\ reserved /\ ~cancelled /\ faults < MaxFaults
          /\ faults' = faults + 1
          /\ UNCHANGED hold
    /\ Goto("done")
    /\ UNCHANGED <<call, plan, routed, tried, served, usable, changes, crashes,
                   streamVars>>

\* notifySettled of an answer that is not streamed: its usage is taken as it
\* is, zero too, for an answer with text or without.
Meter ==
    /\ pc = "meter"
    /\ IF call.prod THEN \E tokens \in {"upstream", "free", "empty"} : Emit(tokens)
                    ELSE UNCHANGED meterVars
    /\ Goto(AnswerSent)
    /\ UNCHANGED <<call, hold, reserved, plan, routed, tried, served, envVars,
                   pipeVars, clientVars, handlerVars>>

\* The stream handler is back.
StreamEnds ==
    /\ pc = "stream"
    /\ handler = "gone"
    /\ Goto("done")
    /\ UNCHANGED <<call, hold, reserved, plan, routed, tried, served, envVars,
                   streamVars>>

\* A channel is suspended, opens its circuit, cools down, or comes back.
Change(c) ==
    /\ changes < MaxChanges
    /\ changes' = changes + 1
    /\ usable' = IF c \in usable THEN usable \ {c} ELSE usable \cup {c}
    /\ UNCHANGED <<chatVars, faults, crashes, streamVars>>

\* The process dies with its goroutines and connections.
Crash ==
    /\ pc \notin {"done", "crashed"}
    /\ crashes < MaxCrashes
    /\ crashes' = crashes + 1
    /\ Goto("crashed")
    /\ reader' = "off"
    /\ parser' = "off"
    /\ handler' = "off"
    /\ body' = "none"
    /\ cancelled' = TRUE
    /\ UNCHANGED <<call, hold, reserved, plan, routed, tried, served, usable,
                   changes, faults, script, raw, outbox, counted, out, client,
                   delivered, usage, finished, meterVars>>

ChatStep ==
    \/ Enter \/ CheckBalance \/ Hold \/ Plan
    \/ \E p \in Attempts, result \in Results : Try(p, result)
    \/ EndOfTries \/ Release \/ Meter \/ StreamEnds

StreamSteps ==
    /\ ReaderStep \/ ParserStep \/ HandlerStep(call.prod)
    /\ UNCHANGED <<chatVars, envVars>>

ClientStep == (ClientLeaves \/ Cancel) /\ UNCHANGED <<chatVars, envVars>>

Next ==
    \/ ChatStep
    \/ StreamSteps
    \/ ClientStep
    \/ \E c \in Channels : Change(c)
    \/ Crash

Spec == Init /\ [][Next]_vars

(***************************************************************************)
(* A goroutine that can go on does so.  Every call of the database, Redis, *)
(* the broker and the upstream ends: the upstream's because the client's   *)
(* Timeout (main.go) covers the dial, the headers and the whole body.      *)
(***************************************************************************)
Fairness ==
    /\ WF_vars(ChatStep)
    /\ WF_vars(ReaderStep /\ UNCHANGED <<chatVars, envVars>>)
    /\ WF_vars(ParserStep /\ UNCHANGED <<chatVars, envVars>>)
    /\ WF_vars(HandlerStep(call.prod) /\ UNCHANGED <<chatVars, envVars>>)

FairSpec == Spec /\ Fairness

-----------------------------------------------------------------------------
(***************************************************************************)
(* Properties.                                                             *)
(***************************************************************************)
\* Types of the variables.
TypeOK ==
    /\ StreamTypeOK
    /\ call \in CallType
    /\ pc \in {"enter", "gate", "plan", "try", "meter", "stream", "release",
               "done", "crashed"}
    /\ hold \in BOOLEAN
    /\ reserved \in BOOLEAN
    /\ usable \subseteq Channels
    /\ routed \subseteq Channels
    /\ plan \subseteq Attempts
    /\ tried \in Seq([at : Attempts, result : Results])
    /\ served \in BOOLEAN
    /\ changes \in 0 .. MaxChanges
    /\ faults \in 0 .. MaxFaults
    /\ crashes \in 0 .. MaxCrashes

\* Metering is tried once for a call an upstream has answered, whichever way
\* the call ended for its client, and never for another; and no task is
\* enqueued twice.
ServedIsMetered ==
    /\ emits <= 1
    /\ emits = 1 => served
    /\ pc = "done" /\ served /\ call.prod => emits = 1
    /\ \A i, j \in DOMAIN tasks : tasks[i] = tasks[j] => i = j

\* A call that no upstream answered leaves its amount frozen only when the
\* release could not work: Redis failed or the client was gone.
HoldHasCause ==
    pc = "done" /\ hold /\ ~served => cancelled \/ faults > 0

\* The gateway never touches the hold of a call that has been served, so that
\* its settlement finds it.
ServedKeepsHold == [][served' => hold' = hold]_vars

\* Failover: only channels that were usable when the plan was made are called,
\* and an attempt is made only after every one of them failed for every model
\* before it in the chain, and those of higher priority for its own model;
\* and each of those failures allowed to go on.
FailoverInOrder ==
    \A j \in DOMAIN tried :
        /\ tried[j].at[2] \in routed
        /\ \A l \in Links, c \in routed :
              l < tried[j].at[1] \/ (l = tried[j].at[1] /\ c < tried[j].at[2])
              => \E i \in 1 .. j - 1 :
                    /\ tried[i].at = <<l, c>>
                    /\ tried[i].result # "ok"
                    /\ tried[i].result = "final" => call.stream

\* Pieces of the answer among the first n events, and what the last of their
\* token counts says.
Pieces(s, n) == Cardinality({i \in 1 .. n : s[i] = "delta"})
Told(s, n) == \E i \in 1 .. n : s[i] = "count" /\ \A j \in i .. n : s[j] # "zero"

\* The handler takes an answer for complete only if the upstream marked its
\* end, after every piece before the mark that a parser passes on was written
\* to the client, and knows then whether the upstream has counted the tokens:
\* in any interleaving of reader, parser, handler and a cancelled context.
WholeAnswer ==
    finished =>
        \E n \in DOMAIN script :
            /\ script[n] = "done"
            /\ delivered = Pieces(script, n)
            /\ usage /\ counted = Told(script, n)

\* A streamed call is billed the upstream's count exactly if its end reached
\* the handler and the upstream had counted by then, else an estimate of what
\* was passed on, which is never nothing: the usage of a stream that broke off
\* is not trusted, and zeros are not (billing_metrics.go:70-71).
BilledAsCounted ==
    call.stream /\ emits = 1 =>
        bill = IF finished /\ \E n \in DOMAIN script :
                                 script[n] = "done" /\ Told(script, n)
               THEN "upstream" ELSE "estimate"

\* Reader and parser may stay behind, one with an event nobody takes, the other
\* with a channel nobody empties, but neither ever keeps a call: every streamed
\* call ends, whatever the upstream sends or omits, wherever the client leaves and
\* whichever of the three goroutines returns first without a word.
StreamCallsEnd == pc = "stream" ~> pc \in {"done", "crashed"}

(***************************************************************************)
(* The invariant the safety properties follow from.                        *)
(***************************************************************************)
\* A parser that puts has something to put.
PutHasEvent == parser \in {"put", "last"} => Len(outbox) > 0

\* Where a call is, against what it has sent.
Metered ==
    /\ pc \in {"enter", "gate", "plan", "try", "release"} => ~served
    /\ pc \in {"enter", "gate", "plan", "try", "release", "meter"} => emits = 0
    /\ pc = "meter" => served
    /\ pc = "stream" =>
          /\ served
          /\ handler \in {"loop", "settle"} => emits = 0
          /\ handler \in {"close", "gone"} /\ call.prod => emits = 1
    /\ pc # "stream" => handler \in {"off", "gone"}
    /\ pc = "stream" => handler # "off"
    /\ emits = 0 => tasks = << >>
    /\ ServedIsMetered

\* The local variable, against Redis.
Frozen ==
    /\ pc \in {"enter", "gate"} => ~hold
    /\ reserved => hold /\ pc \notin {"enter", "gate"}
    /\ reserved /\ pc = "done" => served
    /\ hold /\ ~reserved => pc \in {"done", "crashed"} /\ (cancelled \/ faults > 0)

\* What is left of the plan, against what was tried.
Failover ==
    /\ pc \in {"enter", "gate", "plan"} => tried = << >>
    /\ plan \subseteq Links \X routed
    /\ \A i \in DOMAIN tried : \A q \in plan : Sooner(tried[i].at, q)
    /\ pc = "try" =>
          /\ \A p \in Links \X routed :
                p \in plan \/ \E i \in DOMAIN tried : tried[i].at = p
          /\ \A i \in DOMAIN tried :
                tried[i].result # "ok" /\ (tried[i].result = "final" => call.stream)
    /\ FailoverInOrder

\* Inductive: true initially and preserved by every step.
GatewayInv == TypeOK /\ PutHasEvent /\ Metered /\ Frozen /\ Failover

(***************************************************************************)
(* The invariant behind WholeAnswer.                                       *)
(***************************************************************************)
\* Before an upstream has answered with a stream, nothing of one exists.
Unopened ==
    pc \notin {"stream", "done", "crashed"} =>
        /\ script = << >> /\ out = << >> /\ outbox = << >>
        /\ reader = "off" /\ parser = "off" /\ handler = "off"
        /\ delivered = 0 /\ ~counted /\ ~usage /\ ~finished

\* What the reader offers is the last it has read; what the parser holds.
Stages ==
    /\ reader = "sending" => raw = "error" \/ (script # << >> /\ script[Len(script)] = raw)
    /\ parser = "select" => outbox = << >>
    /\ parser = "put" => outbox = <<"delta">>
    /\ parser = "last" => outbox \in {<<"usage", "done">>, <<"done">>, <<"error">>}

\* The end is the last the handler gets, and the usage comes before it.
EndIsLast ==
    /\ \A i \in DOMAIN out :
          out[i] = "done" =>
              /\ i = Len(out) /\ parser \in {"gone", "off"}
              /\ usage \/ \E j \in 1 .. i - 1 : out[j] = "usage"
    /\ parser = "last" /\ outbox = <<"done">> =>
          usage \/ \E j \in DOMAIN out : out[j] = "usage"

\* The parser holds the end, or has put it.
Ended ==
    \/ parser = "last" /\ outbox # <<"error">>
    \/ \E i \in DOMAIN out : out[i] = "done"

\* The pieces still on their way: to the parser, and to the handler.
Offered == IF reader = "sending" /\ raw = "delta" THEN 1 ELSE 0
Queued == Pieces(out, Len(out))

\* While the handler loops every piece read is written or on its way; once the
\* end is on its way, every piece read before the mark.
NoneLost ==
    handler = "loop" =>
        /\ parser \in {"select", "put"} =>
              delivered + Queued + Len(outbox) + Offered = Pieces(script, Len(script))
        /\ Ended =>
              \E n \in DOMAIN script :
                  /\ script[n] = "done" /\ delivered + Queued = Pieces(script, n)
                  /\ counted = Told(script, n)

\* The events the parser has seen.
Seen == IF reader = "sending" /\ raw # "error" THEN Len(script) - 1 ELSE Len(script)

\* The parser's usage is what the events it has seen told.
CountIsTold == parser \in {"select", "put"} => counted = Told(script, Seen)

\* Nobody handles or parses anything after the end.
EndIsFinal == finished => handler # "loop" /\ parser \in {"gone", "off"}

DeliveryInv ==
    /\ Unopened /\ Stages /\ EndIsLast /\ EndIsFinal /\ NoneLost /\ CountIsTold
    /\ WholeAnswer

(***************************************************************************)
(* The invariant behind BilledAsCounted.                                   *)
(***************************************************************************)
\* The n-th event is the first end mark; the parser stopped at it, so that the
\* reader has at most one event more, which nobody takes.
Marked(n) ==
    /\ script[n] = "done" /\ counted = Told(script, n)
    /\ \A i \in 1 .. n - 1 : script[i] # "done"
    /\ n = Len(script) \/ (n = Len(script) - 1 /\ reader # "scanning")

OneMark ==
    /\ handler = "loop" /\ parser \in {"select", "put"} =>
          \A i \in 1 .. Seen : script[i] # "done"
    /\ finished \/ (handler = "loop" /\ Ended) => \E n \in DOMAIN script : Marked(n)

\* What the handler receives after its first i events is the end.
NextIsEnd(i) ==
    IF i < Len(out) THEN out[i + 1] = "done" ELSE parser = "last" /\ outbox = <<"done">>

\* Nothing comes between the usage and the end, so that a handler which has left
\* with the one has the other.
UsageIsLast ==
    /\ handler = "loop" =>
          /\ usage => NextIsEnd(0)
          /\ \A i \in DOMAIN out : out[i] = "usage" => NextIsEnd(i)
    /\ handler \in {"settle", "close", "gone"} /\ usage => finished

\* What was billed, in the handler's terms.
BilledAsKnown ==
    /\ pc = "meter" => ~call.stream
    /\ call.stream /\ emits = 1 =>
          bill = IF finished /\ counted THEN "upstream" ELSE "estimate"

BillInv == OneMark /\ UsageIsLast /\ BilledAsKnown
=============================================================================
