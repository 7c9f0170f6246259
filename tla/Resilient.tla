------------------------------ MODULE Resilient ------------------------------
(***************************************************************************)
(* The enqueuer that survives a broker outage (task/fallback.go): a task   *)
(* the broker does not take is appended to the WAL file, and the first     *)
(* task it takes again starts a goroutine that replays the file.           *)
(*                                                                         *)
(* Every task is dispatched by a goroutine of its own.  The primary        *)
(* enqueuer is one step; that it answers nil only for a task the broker    *)
(* has is taken for granted here.  The file is a sequence of lines; a line *)
(* that lost its end spoils the next one appended.                         *)
(***************************************************************************)
EXTENDS Integers, FiniteSets, SequencesExt

CONSTANTS
    Tasks,
    Invalid,        \* tasks that Validate or pickBucket refuses
    Long,           \* tasks whose line is longer than the 1 MB readWAL takes
    Nobody,         \* holder of a free mutex
    Recoverer,      \* the replay as holder of the mutex
    MaxTears,       \* bound: writes that end in the middle of a line
    MaxFlaps,       \* bound: how often the broker goes down or up
    MaxCrashes      \* bound: crashes of the process

ASSUME ResilientAssumption ==
    /\ Invalid \subseteq Tasks /\ Long \subseteq Tasks
    /\ Nobody # Recoverer /\ Nobody \notin Tasks /\ Recoverer \notin Tasks
    /\ MaxTears \in Nat /\ MaxFlaps \in Nat /\ MaxCrashes \in Nat

VARIABLES
    up, flaps,      \* the broker is reachable
    broker,         \* tasks the broker took at least once
    file,           \* the WAL
    stable,         \* what of it a power failure leaves
    pc,             \* the goroutine that dispatches a task
    mu,             \* holder of ResilientEnqueuer.mu
    replaying,      \* ResilientEnqueuer.replaying
    rpc,            \* the goroutine recover
    todo, failed,   \* its lines still to replay, and tasks to write back
    tears, crashes

brokerVars == <<up, flaps, broker>>
fileVars == <<file, stable>>
recoverVars == <<replaying, rpc, todo, failed>>
vars == <<brokerVars, fileVars, pc, mu, recoverVars, tears, crashes>>

Phases == {"new", "call", "check", "append", "sync", "ok", "err", "gone"}

\* "good": parses and ends in a newline; "cut": parses, lost the newline;
\* "torn": the start of a line; "bad": what an append after one of these makes.
LineType == [task : Tasks, state : {"good", "cut", "torn", "bad"}]

\* A line that readWAL can parse; it skips the others.
Parses(l) == l.state \in {"good", "cut"}

\* Tasks with a line in f that parses.
Readable(f) == {f[i].task : i \in {j \in DOMAIN f : Parses(f[j])}}

\* The task to name a line by that the appends for s and t share: a long one.
Joint(s, t) == IF s \in Long THEN s ELSE t

\* The last line of f has no newline.
Unended(f) == f # << >> /\ f[Len(f)].state \in {"cut", "torn"}

\* f after O_APPEND of a line for t that ends in the given state.
Appended(f, t, state) ==
    IF Unended(f)
    THEN [f EXCEPT ![Len(f)] =
             [task |-> Joint(@.task, t),
              state |-> IF state = "good" THEN "bad" ELSE "torn"]]
    ELSE Append(f, [task |-> t, state |-> state])

-----------------------------------------------------------------------------
Init ==
    /\ up \in BOOLEAN
    /\ flaps = 0
    /\ broker = {}
    /\ file = << >>
    /\ stable = << >>
    /\ pc = [t \in Tasks |-> "new"]
    /\ mu = Nobody
    /\ replaying = FALSE
    /\ rpc = "off"
    /\ todo = << >>
    /\ failed = << >>
    /\ tears = 0
    /\ crashes = 0

Goto(t, phase) == pc' = [pc EXCEPT ![t] = phase]

\* dispatch calls the primary enqueuer.
Dispatch(t) ==
    /\ pc[t] = "new"
    /\ Goto(t, "call")
    /\ UNCHANGED <<brokerVars, fileVars, mu, recoverVars, tears, crashes>>

\* The broker confirms the task.
Deliver(t) ==
    /\ pc[t] = "call"
    /\ up
    /\ t \notin Invalid
    /\ broker' = broker \cup {t}
    /\ Goto(t, "check")
    /\ UNCHANGED <<up, flaps, fileVars, mu, recoverVars, tears, crashes>>

\* The primary fails: broker down, invalid task, cancelled context; or only the
\* confirm was lost and the broker has the task.
Degrade(t) ==
    /\ pc[t] = "call"
    /\ \/ UNCHANGED broker
       \/ up /\ t \notin Invalid /\ broker' = broker \cup {t}
    /\ Goto(t, "append")
    /\ UNCHANGED <<up, flaps, fileVars, mu, recoverVars, tears, crashes>>

\* Mutant of Trigger: TryLock in place of Lock.
TriggerUnlessBusy ==
    IF mu = Nobody /\ ~replaying /\ file # << >>
    THEN replaying' = TRUE /\ rpc' = "start"
    ELSE UNCHANGED <<replaying, rpc>>

\* Under the mutex: one replay at a time, of a file that is not empty.
Trigger ==
    /\ mu = Nobody
    /\ IF ~replaying /\ file # << >>
       THEN replaying' = TRUE /\ rpc' = "start"
       ELSE UNCHANGED <<replaying, rpc>>

\* maybeRecover, after a delivery.
MaybeRecover(t) ==
    /\ pc[t] = "check"
    /\ Trigger
    /\ Goto(t, "ok")
    /\ UNCHANGED <<brokerVars, fileVars, mu, todo, failed, tears, crashes>>

\* The mutex can be taken.
Free == mu = Nobody

\* appendWAL takes the mutex and writes the line.
Write(t) ==
    /\ pc[t] = "append"
    /\ Free
    /\ mu' = t
    /\ file' = Appended(file, t, "good")
    /\ Goto(t, "sync")
    /\ UNCHANGED <<brokerVars, stable, recoverVars, tears, crashes>>

\* The disk is full, or the machine stops, in the middle of the line: an error
\* for the caller.
Tear(t) ==
    /\ tears < MaxTears
    /\ pc[t] = "append"
    /\ Free
    /\ \E state \in {"cut", "torn"} : file' = Appended(file, t, state)
    /\ stable' \in {stable, file'}
    /\ tears' = tears + 1
    /\ Goto(t, "err")
    /\ UNCHANGED <<brokerVars, mu, recoverVars, crashes>>

\* fsync: the caller may go on when it succeeds.
Sync(t) ==
    /\ pc[t] = "sync"
    /\ mu' = Nobody
    /\ \/ stable' = file /\ Goto(t, "ok")
       \/ stable' \in {stable, file} /\ Goto(t, "err")
    /\ UNCHANGED <<brokerVars, file, recoverVars, tears, crashes>>

\* The deferred end of recover.
EndReplay ==
    /\ mu' = Nobody
    /\ replaying' = FALSE
    /\ rpc' = "off"

\* Lines over the limit of readWAL's scanner: of what is left of a long line,
\* nobody knows.
Overlong(f) == {l \in ToSet(f) : l.task \in Long /\ Parses(l)}
MaybeOverlong(f) == {l \in ToSet(f) : l.task \in Long}

\* recover takes the mutex and reads the whole file: the lines to go through,
\* or the scanner's error, which ends it and leaves the file as it is.
StartReplay ==
    /\ rpc = "start"
    /\ mu = Nobody
    /\ \/ /\ Overlong(file) = {}
          /\ mu' = Recoverer
          /\ rpc' = "replay"
          /\ todo' = file
          /\ failed' = << >>
          /\ UNCHANGED replaying
       \/ /\ MaybeOverlong(file) # {}
          /\ EndReplay
          /\ UNCHANGED <<todo, failed>>
    /\ UNCHANGED <<brokerVars, fileVars, pc, tears, crashes>>

\* Mutant of Kept: the entry of a failed replay is dropped.
Forget(t) == failed

\* Entries to write back when the replay of t fails.
Kept(t) == Append(failed, t)

\* One entry is sent again.  Its failure keeps it, also when the broker took it
\* and only the confirm was lost.
Resend(t) ==
    \/ /\ up /\ t \notin Invalid
       /\ broker' = broker \cup {t}
       /\ failed' \in {failed, Kept(t)}
    \/ /\ ~up \/ t \in Invalid
       /\ failed' = Kept(t)
       /\ UNCHANGED broker

\* The next line of the replay.
Replay ==
    /\ rpc = "replay"
    /\ todo # << >>
    /\ todo' = Tail(todo)
    /\ IF Parses(Head(todo)) THEN Resend(Head(todo).task)
       ELSE UNCHANGED <<broker, failed>>
    /\ UNCHANGED <<up, flaps, fileVars, pc, mu, replaying, rpc, tears, crashes>>

\* rewriteWAL: temporary file, fsync and rename, which happens or does not.  A
\* rename that happened is taken to survive a power failure.
Rewrite ==
    /\ rpc = "replay"
    /\ todo = << >>
    /\ \/ file' = [i \in DOMAIN failed |-> [task |-> failed[i], state |-> "good"]]
       \/ UNCHANGED file
    /\ stable' = file'
    /\ EndReplay
    /\ UNCHANGED <<brokerVars, pc, todo, failed, tears, crashes>>

\* The process dies and starts again, possibly with its machine: what was not
\* synced may be lost, and nobody waits for the tasks in progress.
Crash ==
    /\ crashes < MaxCrashes
    /\ crashes' = crashes + 1
    /\ file' \in {file, stable}
    /\ stable' = file'
    /\ pc' = [t \in Tasks |->
                 IF pc[t] \in {"call", "check", "append", "sync"} THEN "gone"
                 ELSE pc[t]]
    /\ mu' = Nobody
    /\ replaying' = FALSE
    /\ rpc' = "off"
    /\ UNCHANGED <<brokerVars, todo, failed, tears>>

\* The broker goes away or comes back.
Flap ==
    /\ flaps < MaxFlaps
    /\ flaps' = flaps + 1
    /\ up' = ~up
    /\ UNCHANGED <<broker, fileVars, pc, mu, recoverVars, tears, crashes>>

DispatchStep(t) ==
    \/ Deliver(t) \/ Degrade(t) \/ MaybeRecover(t)
    \/ Write(t) \/ Tear(t) \/ Sync(t)

RecoverStep == StartReplay \/ Replay \/ Rewrite

Next ==
    \/ \E t \in Tasks : Dispatch(t) \/ DispatchStep(t)
    \/ RecoverStep
    \/ Crash
    \/ Flap

Spec == Init /\ [][Next]_vars

\* Goroutines run to their end; sync.Mutex serves a waiter sooner or later.
Fairness ==
    /\ \A t \in Tasks : SF_vars(DispatchStep(t))
    /\ SF_vars(RecoverStep)

FairSpec == Spec /\ Fairness

-----------------------------------------------------------------------------
(***************************************************************************)
(* Properties.                                                             *)
(***************************************************************************)
\* Types of the variables.
TypeOK ==
    /\ up \in BOOLEAN
    /\ flaps \in 0 .. MaxFlaps
    /\ broker \subseteq Tasks
    /\ file \in Seq(LineType)
    /\ stable \in Seq(LineType)
    /\ pc \in [Tasks -> Phases]
    /\ mu \in Tasks \cup {Nobody, Recoverer}
    /\ replaying \in BOOLEAN
    /\ rpc \in {"off", "start", "replay"}
    /\ todo \in Seq(LineType)
    /\ failed \in Seq(Tasks)
    /\ tears \in 0 .. MaxTears
    /\ crashes \in 0 .. MaxCrashes

\* A task whose dispatch returned nil is with the broker or in the file, where
\* a replay finds it: no crash at any moment loses it (fallback.go:22-24).
Missing(f, phases) ==
    {t \in Tasks : pc[t] \in phases /\ t \notin broker \cup Readable(f)}
Lost == Missing(file, {"ok"})
NoAckedLoss == Lost = {}

\* What of that is true: every unfinished line costs at most one acknowledged
\* task.  A concurrent append is never cut off by the rewrite, a failed replay
\* is kept, and a crash between any two steps loses nothing.
AckedLossBounded == Cardinality(Lost) <= tears

\* The one trigger is not missed: when a task is delivered while another waits
\* in a whole line of the file, the file is replayed, unless the broker or the
\* process goes away again, or a line is in the file that stops readWAL: then
\* nothing is replayed any more (and AckedLossBounded says nothing is lost).
ReplayFollowsDelivery ==
    \A s \in Tasks, t \in Tasks \ Invalid, n \in 0 .. MaxCrashes :
        /\ pc[s] = "check" /\ crashes = n
        /\ [task |-> t, state |-> "good"] \in ToSet(file)
        ~> t \in broker \/ ~up \/ crashes > n \/ MaybeOverlong(file) # {}

(***************************************************************************)
(* The invariant NoAckedLoss follows from as long as nothing tore.         *)
(***************************************************************************)
\* The mutex is held by the append or the replay in progress.
Exclusive ==
    /\ \A t \in Tasks : pc[t] = "sync" <=> mu = t
    /\ rpc = "replay" <=> mu = Recoverer

\* Only what the broker took starts a replay.
Delivered == \A t \in Tasks : pc[t] = "check" => t \in broker

\* Every line is whole, and an acknowledged one is synced.
Whole ==
    /\ \A i \in DOMAIN file : file[i].state = "good"
    /\ \A i \in DOMAIN stable : stable[i].state = "good"
    /\ \A t \in Tasks : pc[t] = "sync" => t \in Readable(file)
    /\ \A t \in Readable(file) :
           t \in Readable(stable) \cup broker \/ pc[t] \in {"sync", "err", "gone"}

\* The replay has sent, or will write back, everything in the file.
Replayed ==
    rpc = "replay" =>
        \A t \in Readable(file) :
            t \in broker \/ t \in Readable(todo) \/ t \in ToSet(failed)

ResilientInv ==
    /\ TypeOK
    /\ Exclusive
    /\ Delivered
    /\ Replayed
    /\ tears = 0 => Whole /\ NoAckedLoss

(***************************************************************************)
(* The invariant behind AckedLossBounded.                                  *)
(***************************************************************************)
\* A line that lost its newline is of a task whose dispatch failed.
CutRefused(f) == \A i \in DOMAIN f : f[i].state = "cut" => pc[f[i].task] = "err"

\* What the tears so far may have cost in f: a task each, where the line that
\* the next append spoils is one more to come.
Charged(f, phases) ==
    /\ IsFiniteSet(Missing(f, phases))
    /\ Cardinality(Missing(f, phases)) + (IF Unended(f) THEN 1 ELSE 0) <= tears

\* Of the file, that owes also the task being synced, and of what a power
\* failure leaves of it.
LossInv ==
    /\ CutRefused(file) /\ CutRefused(stable)
    /\ Charged(file, {"ok", "sync"}) /\ Charged(stable, {"ok"})
=============================================================================
