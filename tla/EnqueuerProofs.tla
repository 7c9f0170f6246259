---------------------------- MODULE EnqueuerProofs ----------------------------
(***************************************************************************)
(* Proofs about the two enqueuers of package task: Resilient, which keeps  *)
(* what the broker does not take (fallback.go), and the RabbitMQ publisher *)
(* of Platform below it (enqueuer.go), in the last section.                *)
(*                                                                         *)
(* Of Resilient: while no write ends in the middle of a line, a task whose *)
(* dispatch returned nil is with the broker or in the file, whatever       *)
(* crashes, outages, failing syncs and replays interleave.                 *)
(***************************************************************************)
EXTENDS Resilient, Platform, FiniteSetTheorems, TLAPS

\* What readWAL finds, line by line.
LEMMA ReadableIff ==
    ASSUME NEW f, NEW t
    PROVE  t \in Readable(f) <=> \E i \in DOMAIN f : Parses(f[i]) /\ f[i].task = t
BY DEF Readable

\* Appending a line to a file of whole lines keeps them and adds its own.
LEMMA AppendWhole ==
    ASSUME NEW f \in Seq(LineType), NEW t \in Tasks,
           \A i \in DOMAIN f : f[i].state = "good"
    PROVE  /\ Appended(f, t, "good") \in Seq(LineType)
           /\ \A i \in DOMAIN Appended(f, t, "good") : Appended(f, t, "good")[i].state = "good"
           /\ Readable(Appended(f, t, "good")) = Readable(f) \cup {t}
<1> DEFINE line == [task |-> t, state |-> "good"]
<1>1. Appended(f, t, "good") = Append(f, line)
  <2>1. f # << >> => Len(f) \in DOMAIN f
    OBVIOUS
  <2>2. QED BY <2>1 DEF Appended, Unended
<1>2. line \in LineType
  BY DEF LineType
<1>3. /\ DOMAIN Append(f, line) = DOMAIN f \cup {Len(f) + 1}
      /\ \A i \in DOMAIN f : Append(f, line)[i] = f[i]
      /\ Append(f, line)[Len(f) + 1] = line
  BY <1>2
<1>4. Append(f, line) \in Seq(LineType)
  BY <1>2
<1>5. \A i \in DOMAIN Append(f, line) : Append(f, line)[i].state = "good"
  BY <1>3
<1>6. ASSUME NEW s PROVE s \in Readable(Append(f, line)) <=> s \in Readable(f) \cup {t}
  <2> DEFINE g == Append(f, line)
  <2>1. Parses(line) /\ line.task = t
    BY DEF Parses
  <2>2. s \in Readable(g) <=> \E i \in DOMAIN g : Parses(g[i]) /\ g[i].task = s
    BY ReadableIff
  <2>3. s \in Readable(f) <=> \E i \in DOMAIN f : Parses(f[i]) /\ f[i].task = s
    BY ReadableIff
  <2> HIDE DEF line
  <2>4. QED BY <1>3, <2>1, <2>2, <2>3
<1>7. Readable(Append(f, line)) = Readable(f) \cup {t}
  BY <1>6
<1>8. QED
  <2> HIDE DEF line
  <2>1. QED BY <1>1, <1>4, <1>5, <1>7

\* The lines of the rewritten file are the entries to keep.
LEMMA Rewritten ==
    ASSUME NEW q \in Seq(Tasks)
    PROVE  LET f == [i \in DOMAIN q |-> [task |-> q[i], state |-> "good"]] IN
           /\ f \in Seq(LineType)
           /\ \A i \in DOMAIN f : f[i].state = "good"
           /\ Readable(f) = ToSet(q)
<1> DEFINE f == [i \in DOMAIN q |-> [task |-> q[i], state |-> "good"]]
<1>1. f \in Seq(LineType)
  <2>1. DOMAIN q = 1 .. Len(q) /\ Len(q) \in Nat
    OBVIOUS
  <2>2. \A i \in 1 .. Len(q) : q[i] \in Tasks
    OBVIOUS
  <2>3. f \in [1 .. Len(q) -> LineType]
    BY <2>1, <2>2 DEF LineType
  <2>4. QED BY <2>1, <2>3
<1>2. \A i \in DOMAIN f : f[i].state = "good"
  OBVIOUS
<1>3. \A i \in DOMAIN q : Parses(f[i]) /\ f[i].task = q[i]
  BY DEF Parses
<1>4. ASSUME NEW t PROVE t \in Readable(f) <=> t \in ToSet(q)
  BY <1>3, ReadableIff DEF ToSet
<1>5. QED BY <1>1, <1>2, <1>4

\* Going to the next line leaves the entries of the others to replay.
LEMMA NextLine ==
    ASSUME NEW f \in Seq(LineType), f # << >>
    PROVE  /\ Tail(f) \in Seq(LineType)
           /\ \A t \in Readable(f) :
                  t \in Readable(Tail(f)) \/ (Parses(Head(f)) /\ t = Head(f).task)
<1>1. Tail(f) \in Seq(LineType)
  OBVIOUS
<1>2. ASSUME NEW i \in DOMAIN f, i # 1
      PROVE  i - 1 \in DOMAIN Tail(f) /\ Tail(f)[i - 1] = f[i]
  BY <1>2
<1>3. Head(f) = f[1]
  OBVIOUS
<1>4. ASSUME NEW t \in Readable(f)
      PROVE  t \in Readable(Tail(f)) \/ (Parses(Head(f)) /\ t = Head(f).task)
  <2>1. PICK i \in DOMAIN f : Parses(f[i]) /\ f[i].task = t
    BY <1>4, ReadableIff
  <2>2. CASE i = 1
    BY <2>1, <2>2, <1>3
  <2>3. CASE i # 1
    <3>1. i - 1 \in DOMAIN Tail(f) /\ Tail(f)[i - 1] = f[i]
      BY <1>2, <2>3
    <3>2. t \in Readable(Tail(f))
      BY <3>1, <2>1, ReadableIff
    <3>3. QED BY <3>2
  <2>4. QED BY <2>2, <2>3
<1>5. QED BY <1>1, <1>4

\* One more kept entry.
LEMMA KeptToSet ==
    ASSUME NEW q \in Seq(Tasks), NEW t \in Tasks
    PROVE  /\ Append(q, t) \in Seq(Tasks)
           /\ ToSet(Append(q, t)) = ToSet(q) \cup {t}
<1>1. /\ DOMAIN Append(q, t) = DOMAIN q \cup {Len(q) + 1}
      /\ \A i \in DOMAIN q : Append(q, t)[i] = q[i]
      /\ Append(q, t)[Len(q) + 1] = t
  OBVIOUS
<1>2. QED BY <1>1 DEF ToSet

-----------------------------------------------------------------------------
(***************************************************************************)
(* The invariant, one part at a time.                                      *)
(***************************************************************************)
LEMMA InitInv == Init => ResilientInv
<1> SUFFICES ASSUME Init PROVE ResilientInv
  OBVIOUS
<1>1. TypeOK
  <2>1. \A S : << >> \in Seq(S)
    OBVIOUS
  <2>2. file \in Seq(LineType) /\ stable \in Seq(LineType) /\ todo \in Seq(LineType)
    BY <2>1 DEF Init
  <2>3. failed \in Seq(Tasks)
    BY <2>1 DEF Init
  <2>4. pc \in [Tasks -> Phases]
    BY DEF Init, Phases
  <2>5. up \in BOOLEAN /\ replaying \in BOOLEAN
    BY DEF Init
  <2>6. /\ flaps \in 0 .. MaxFlaps /\ tears \in 0 .. MaxTears
        /\ crashes \in 0 .. MaxCrashes
    BY ResilientAssumption DEF Init
  <2>7. /\ broker \subseteq Tasks /\ mu \in Tasks \cup {Nobody, Recoverer}
        /\ rpc \in {"off", "start", "replay"}
    BY DEF Init
  <2>8. QED BY <2>2, <2>3, <2>4, <2>5, <2>6, <2>7 DEF TypeOK
<1>2. Exclusive /\ Delivered /\ Replayed
  BY ResilientAssumption DEF Init, Exclusive, Delivered, Replayed
<1>3. Whole /\ NoAckedLoss
  BY DEF Init, Whole, NoAckedLoss, Lost, Missing, Readable
<1>4. QED BY <1>1, <1>2, <1>3 DEF ResilientInv

\* Appending keeps the type of the file, however the line ends.
LEMMA AppendedType ==
    ASSUME NEW f \in Seq(LineType), NEW t \in Tasks,
           NEW state \in {"good", "cut", "torn"}
    PROVE  Appended(f, t, state) \in Seq(LineType)
<1> DEFINE line(s) == [task |-> t, state |-> s]
<1>1. \A s \in {"good", "cut", "torn", "bad"} : line(s) \in LineType
  BY DEF LineType
<1>2. ASSUME NEW l \in LineType PROVE [f EXCEPT ![Len(f)] = l] \in Seq(LineType)
  <2>1. Len(f) \in Nat /\ f \in [1 .. Len(f) -> LineType]
    OBVIOUS
  <2>2. [f EXCEPT ![Len(f)] = l] \in [1 .. Len(f) -> LineType]
    BY <2>1
  <2>3. \A n \in Nat : \A g \in [1 .. n -> LineType] : g \in Seq(LineType)
    OBVIOUS
  <2>4. QED BY <2>1, <2>2, <2>3
<1>3. ASSUME NEW l \in LineType PROVE Append(f, l) \in Seq(LineType)
  OBVIOUS
<1>4. line(state) \in LineType
  BY <1>1
<1>5. ASSUME f # << >>
      PROVE  [task |-> Joint(f[Len(f)].task, t),
              state |-> IF state = "good" THEN "bad" ELSE "torn"] \in LineType
  <2>1. f[Len(f)] \in LineType
    BY <1>5
  <2>2. Joint(f[Len(f)].task, t) \in Tasks
    BY <2>1 DEF LineType, Joint
  <2>3. QED BY <2>2 DEF LineType
<1>6. Append(f, line(state)) \in Seq(LineType)
  BY <1>3, <1>4
<1>7. CASE f # << >> /\ f[Len(f)].state \in {"cut", "torn"}
  <2> DEFINE joint == [task |-> Joint(f[Len(f)].task, t),
                       state |-> IF state = "good" THEN "bad" ELSE "torn"]
  <2>1. [f EXCEPT ![Len(f)] = joint] \in Seq(LineType)
    BY <1>2, <1>5, <1>7
  <2>2. Appended(f, t, state) = [f EXCEPT ![Len(f)] = joint]
    BY <1>7 DEF Appended, Unended
  <2>3. QED BY <2>1, <2>2
<1>8. CASE ~(f # << >> /\ f[Len(f)].state \in {"cut", "torn"})
  BY <1>6, <1>8 DEF Appended, Unended
<1>9. QED BY <1>7, <1>8

\* What kind of state every action leaves.
LEMMA TypeStep ==
    ASSUME TypeOK, [Next]_vars
    PROVE  TypeOK'
<1> USE ResilientAssumption DEF TypeOK, Phases
<1>1. ASSUME NEW t \in Tasks, Dispatch(t) PROVE TypeOK'
  BY <1>1 DEF Dispatch, Goto, brokerVars, fileVars, recoverVars
<1>2. ASSUME NEW t \in Tasks, Deliver(t) PROVE TypeOK'
  BY <1>2 DEF Deliver, Goto, brokerVars, fileVars, recoverVars
<1>3. ASSUME NEW t \in Tasks, Degrade(t) PROVE TypeOK'
  BY <1>3 DEF Degrade, Goto, brokerVars, fileVars, recoverVars
<1>4. ASSUME NEW t \in Tasks, MaybeRecover(t) PROVE TypeOK'
  BY <1>4 DEF MaybeRecover, Trigger, Goto, brokerVars, fileVars, recoverVars
<1>5. ASSUME NEW t \in Tasks, Write(t) PROVE TypeOK'
  <2>1. file' \in Seq(LineType)
    BY <1>5, AppendedType DEF Write
  <2>2. QED BY <1>5, <2>1 DEF Write, Goto, brokerVars, recoverVars
<1>6. ASSUME NEW t \in Tasks, Tear(t) PROVE TypeOK'
  <2>1. file' \in Seq(LineType)
    <3>1. PICK state \in {"cut", "torn"} : file' = Appended(file, t, state)
      BY <1>6 DEF Tear
    <3>2. QED BY <3>1, AppendedType
  <2>2. QED BY <1>6, <2>1 DEF Tear, Goto, brokerVars, recoverVars
<1>7. ASSUME NEW t \in Tasks, Sync(t) PROVE TypeOK'
  BY <1>7 DEF Sync, Goto, brokerVars, recoverVars
<1>8. CASE StartReplay
  <2>1. UNCHANGED <<up, flaps, broker, file, stable, pc, tears, crashes>>
    BY <1>8 DEF StartReplay, brokerVars, fileVars
  <2>2. mu' \in {Nobody, Recoverer} /\ rpc' \in {"off", "replay"} /\ replaying' \in BOOLEAN
    BY <1>8 DEF StartReplay, EndReplay
  <2>3. CASE todo' = file /\ failed' = << >>
    <3>1. failed' \in Seq(Tasks)
      BY <2>3
    <3>2. QED BY <2>1, <2>2, <2>3, <3>1
  <2>4. CASE UNCHANGED <<todo, failed>>
    BY <2>1, <2>2, <2>4
  <2>5. QED BY <1>8, <2>3, <2>4 DEF StartReplay
<1>9. CASE Replay
  <2>1. todo' \in Seq(LineType)
    BY <1>9, NextLine DEF Replay
  <2>2. Head(todo) \in LineType
    BY <1>9 DEF Replay
  <2>3. Head(todo).task \in Tasks
    BY <2>2 DEF LineType
  <2>4. broker' \subseteq Tasks /\ failed' \in Seq(Tasks)
    BY <1>9, <2>3, KeptToSet DEF Replay, Resend, Kept
  <2>5. QED BY <1>9, <2>1, <2>4 DEF Replay, fileVars
<1>10. CASE Rewrite
  <2>1. file' \in Seq(LineType) /\ stable' \in Seq(LineType)
    BY <1>10, Rewritten DEF Rewrite
  <2>2. UNCHANGED <<up, flaps, broker, pc, todo, failed, tears, crashes>>
    BY <1>10 DEF Rewrite, brokerVars
  <2>3. mu' = Nobody /\ replaying' = FALSE /\ rpc' = "off"
    BY <1>10 DEF Rewrite, EndReplay
  <2>4. QED BY <2>1, <2>2, <2>3
<1>11. CASE Crash
  <2>1. pc' \in [Tasks -> Phases]
    BY <1>11 DEF Crash
  <2>2. file' \in Seq(LineType) /\ stable' \in Seq(LineType)
    BY <1>11 DEF Crash
  <2>3. crashes' \in 0 .. MaxCrashes
    BY <1>11 DEF Crash
  <2>4. mu' = Nobody /\ replaying' = FALSE /\ rpc' = "off"
    BY <1>11 DEF Crash
  <2>5. UNCHANGED <<up, flaps, broker, todo, failed, tears>>
    BY <1>11 DEF Crash, brokerVars
  <2>6. QED BY <2>1, <2>2, <2>3, <2>4, <2>5
<1>12. CASE Flap
  BY <1>12 DEF Flap, fileVars, recoverVars
<1>13. CASE UNCHANGED vars
  BY <1>13 DEF vars, brokerVars, fileVars, recoverVars
<1>14. QED
  BY <1>1, <1>2, <1>3, <1>4, <1>5, <1>6, <1>7, <1>8, <1>9, <1>10, <1>11, <1>12, <1>13
  DEF Next, DispatchStep, RecoverStep

\* The mutex, and what starts a replay.
LEMMA LockStep ==
    ASSUME ResilientInv, [Next]_vars
    PROVE  Exclusive' /\ Delivered'
<1> USE ResilientAssumption DEF ResilientInv, TypeOK, Exclusive, Delivered
<1>1. ASSUME NEW t \in Tasks, Dispatch(t) PROVE Exclusive' /\ Delivered'
  BY <1>1 DEF Dispatch, Goto, brokerVars, fileVars, recoverVars
<1>2. ASSUME NEW t \in Tasks, Deliver(t) PROVE Exclusive' /\ Delivered'
  BY <1>2 DEF Deliver, Goto, brokerVars, fileVars, recoverVars
<1>3. ASSUME NEW t \in Tasks, Degrade(t) PROVE Exclusive' /\ Delivered'
  BY <1>3 DEF Degrade, Goto, brokerVars, fileVars, recoverVars
<1>4. ASSUME NEW t \in Tasks, MaybeRecover(t) PROVE Exclusive' /\ Delivered'
  BY <1>4 DEF MaybeRecover, Trigger, Goto, brokerVars, fileVars, recoverVars
<1>5. ASSUME NEW t \in Tasks, Write(t) PROVE Exclusive' /\ Delivered'
  BY <1>5 DEF Write, Free, Goto, brokerVars, recoverVars
<1>6. ASSUME NEW t \in Tasks, Tear(t) PROVE Exclusive' /\ Delivered'
  BY <1>6 DEF Tear, Free, Goto, brokerVars, recoverVars
<1>7. ASSUME NEW t \in Tasks, Sync(t) PROVE Exclusive' /\ Delivered'
  BY <1>7 DEF Sync, Goto, brokerVars, recoverVars
<1>8. CASE StartReplay
  BY <1>8 DEF StartReplay, EndReplay, brokerVars, fileVars
<1>9. CASE Replay
  BY <1>9 DEF Replay, Resend, fileVars
<1>10. CASE Rewrite
  BY <1>10 DEF Rewrite, EndReplay, brokerVars
<1>11. CASE Crash
  BY <1>11 DEF Crash, brokerVars
<1>12. CASE Flap
  BY <1>12 DEF Flap, fileVars, recoverVars
<1>13. CASE UNCHANGED vars
  BY <1>13 DEF vars, brokerVars, fileVars, recoverVars
<1>14. QED
  BY <1>1, <1>2, <1>3, <1>4, <1>5, <1>6, <1>7, <1>8, <1>9, <1>10, <1>11, <1>12, <1>13
  DEF Next, DispatchStep, RecoverStep

\* The replay covers the file it will replace: nothing is appended meanwhile.
LEMMA ReplayStep ==
    ASSUME ResilientInv, [Next]_vars
    PROVE  Replayed'
<1> USE ResilientAssumption DEF ResilientInv, TypeOK, Exclusive, Replayed
<1>1. ASSUME NEW t \in Tasks, Dispatch(t) PROVE Replayed'
  BY <1>1 DEF Dispatch, brokerVars, fileVars, recoverVars
<1>2. ASSUME NEW t \in Tasks, Deliver(t) PROVE Replayed'
  BY <1>2 DEF Deliver, brokerVars, fileVars, recoverVars
<1>3. ASSUME NEW t \in Tasks, Degrade(t) PROVE Replayed'
  BY <1>3 DEF Degrade, brokerVars, fileVars, recoverVars
<1>4. ASSUME NEW t \in Tasks, MaybeRecover(t) PROVE Replayed'
  BY <1>4 DEF MaybeRecover, Trigger, brokerVars, fileVars, recoverVars
<1>5. ASSUME NEW t \in Tasks, Write(t) PROVE Replayed'
  BY <1>5 DEF Write, Free, recoverVars
<1>6. ASSUME NEW t \in Tasks, Tear(t) PROVE Replayed'
  BY <1>6 DEF Tear, Free, recoverVars
<1>7. ASSUME NEW t \in Tasks, Sync(t) PROVE Replayed'
  BY <1>7 DEF Sync, brokerVars, recoverVars
<1>8. CASE StartReplay
  BY <1>8 DEF StartReplay, EndReplay, brokerVars, fileVars
<1>9. CASE Replay
  <2> DEFINE l == Head(todo)
  <2>0. l \in LineType
    BY <1>9 DEF Replay
  <2>1. l.task \in Tasks
    BY <2>0 DEF LineType
  <2>2. ASSUME NEW t \in Readable(file)'
        PROVE  (t \in broker \/ t \in Readable(todo) \/ t \in ToSet(failed))'
    <3>1. t \in broker \/ t \in Readable(todo) \/ t \in ToSet(failed)
      BY <1>9, <2>2 DEF Replay, fileVars
    <3>a. failed \in Seq(Tasks) /\ ToSet(Append(failed, l.task)) = ToSet(failed) \cup {l.task}
      BY <2>1, KeptToSet
    <3>b. \/ UNCHANGED <<broker, failed>> /\ ~Parses(l)
          \/ broker' = broker \cup {l.task} /\ failed' \in {failed, Append(failed, l.task)}
          \/ failed' = Append(failed, l.task) /\ UNCHANGED broker
      BY <1>9 DEF Replay, Resend, Kept
    <3>2. CASE Parses(l) /\ t = l.task
      BY <3>2, <3>a, <3>b
    <3>3. CASE t \in Readable(todo')
      BY <3>3
    <3>4. broker \subseteq broker' /\ ToSet(failed) \subseteq ToSet(failed')
      BY <3>a, <3>b
    <3>5. CASE t \in Readable(todo)
      BY <1>9, <3>2, <3>3, <3>5, NextLine DEF Replay
    <3>6. QED BY <3>1, <3>4, <3>5
  <2>3. QED BY <2>2
<1>10. CASE Rewrite
  BY <1>10 DEF Rewrite, EndReplay
<1>11. CASE Crash
  BY <1>11 DEF Crash
<1>12. CASE Flap
  BY <1>12 DEF Flap, fileVars, recoverVars
<1>13. CASE UNCHANGED vars
  BY <1>13 DEF vars, brokerVars, fileVars, recoverVars
<1>14. QED
  BY <1>1, <1>2, <1>3, <1>4, <1>5, <1>6, <1>7, <1>8, <1>9, <1>10, <1>11, <1>12, <1>13
  DEF Next, DispatchStep, RecoverStep

\* Whole lines stay whole, and what is acknowledged is kept.
LEMMA WholeStep ==
    ASSUME ResilientInv, [Next]_vars, tears' = 0
    PROVE  Whole' /\ NoAckedLoss'
<1>0. tears = 0 /\ Whole /\ NoAckedLoss
  <2>1. tears = 0
    BY DEF ResilientInv, TypeOK, Next, DispatchStep, RecoverStep, vars, Dispatch, Deliver,
           Degrade, MaybeRecover, Write, Tear, Sync, StartReplay, Replay, Rewrite, Crash, Flap
  <2>2. QED BY <2>1 DEF ResilientInv
<1>00. /\ Invalid \subseteq Tasks /\ Nobody \notin Tasks /\ Recoverer \notin Tasks
       /\ Nobody # Recoverer
  BY ResilientAssumption
<1>000. /\ pc \in [Tasks -> Phases]
        /\ file \in Seq(LineType) /\ stable \in Seq(LineType)
        /\ Exclusive /\ Delivered /\ Replayed
  BY DEF ResilientInv, TypeOK
<1> USE <1>0, <1>00, <1>000 DEF Whole, NoAckedLoss, Lost, Missing
<1>1. ASSUME NEW t \in Tasks, Dispatch(t) PROVE Whole' /\ NoAckedLoss'
  BY <1>1 DEF Dispatch, Goto, brokerVars, fileVars
<1>2. ASSUME NEW t \in Tasks, Deliver(t) PROVE Whole' /\ NoAckedLoss'
  BY <1>2 DEF Deliver, Goto, brokerVars, fileVars
<1>3. ASSUME NEW t \in Tasks, Degrade(t) PROVE Whole' /\ NoAckedLoss'
  BY <1>3 DEF Degrade, Goto, brokerVars, fileVars
<1>4. ASSUME NEW t \in Tasks, MaybeRecover(t) PROVE Whole' /\ NoAckedLoss'
  BY <1>4 DEF MaybeRecover, Goto, brokerVars, fileVars, Delivered
<1>5. ASSUME NEW t \in Tasks, Write(t) PROVE Whole' /\ NoAckedLoss'
  <2>1. /\ \A i \in DOMAIN file' : file'[i].state = "good"
        /\ Readable(file') = Readable(file) \cup {t}
    BY <1>5, AppendWhole DEF Write
  <2>2. QED BY <1>5, <2>1 DEF Write, Goto, brokerVars
<1>6. ASSUME NEW t \in Tasks, Tear(t) PROVE FALSE
  BY <1>6 DEF Tear
<1>7. ASSUME NEW t \in Tasks, Sync(t) PROVE Whole' /\ NoAckedLoss'
  <2>1. /\ pc[t] = "sync" /\ t \in Readable(file)
        /\ UNCHANGED <<file, broker>>
    BY <1>7 DEF Sync, brokerVars
  <2>2. CASE stable' = file /\ Goto(t, "ok")
    BY <2>1, <2>2 DEF Goto
  <2>3. CASE stable' \in {stable, file} /\ Goto(t, "err")
    BY <2>1, <2>3 DEF Goto
  <2>4. QED BY <1>7, <2>2, <2>3 DEF Sync
<1>8. CASE StartReplay
  BY <1>8 DEF StartReplay, EndReplay, brokerVars, fileVars
<1>9. CASE Replay
  BY <1>9 DEF Replay, Resend, fileVars
<1>10. CASE Rewrite
  <2>1. failed \in Seq(Tasks)
    BY DEF ResilientInv, TypeOK
  <2>2. todo = << >> /\ rpc = "replay"
    BY <1>10 DEF Rewrite
  <2>3. Readable(todo) = {}
    BY <2>2 DEF Readable
  <2>4. \A t \in Readable(file) : t \in broker \/ t \in ToSet(failed)
    BY <2>2, <2>3 DEF Replayed
  <2>5. \A t \in Tasks : pc[t] # "sync"
    BY <2>2 DEF Exclusive
  <2>6. CASE UNCHANGED file
    BY <1>10, <2>6 DEF Rewrite, brokerVars
  <2>7. CASE file' = [i \in DOMAIN failed |-> [task |-> failed[i], state |-> "good"]]
    <3>1. /\ \A i \in DOMAIN file' : file'[i].state = "good"
          /\ Readable(file') = ToSet(failed)
      BY <2>1, <2>7, Rewritten
    <3>2. QED BY <1>10, <2>4, <2>5, <3>1 DEF Rewrite, brokerVars
  <2>8. QED BY <1>10, <2>6, <2>7 DEF Rewrite
<1>11. CASE Crash
  BY <1>11 DEF Crash, brokerVars
<1>12. CASE Flap
  BY <1>12 DEF Flap, fileVars
<1>13. CASE UNCHANGED vars
  BY <1>13 DEF vars, brokerVars, fileVars
<1>14. QED
  BY <1>1, <1>2, <1>3, <1>4, <1>5, <1>6, <1>7, <1>8, <1>9, <1>10, <1>11, <1>12, <1>13
  DEF Next, DispatchStep, RecoverStep

-----------------------------------------------------------------------------
(***************************************************************************)
(* The theorems.                                                           *)
(***************************************************************************)
\* The types, the use of the mutex, that the replay covers the file, and,
\* while nothing tore, that files are whole and nothing is lost.
THEOREM ResilientInvariant == Spec => []ResilientInv
<1>1. ResilientInv /\ [Next]_vars => ResilientInv'
  BY TypeStep, LockStep, ReplayStep, WholeStep DEF ResilientInv
<1>2. QED BY InitInv, <1>1, PTL DEF Spec

\* Where appends are all or nothing, "no crash at any moment loses a task"
\* (fallback.go:22-24) is true, for any number of tasks, outages and crashes.
THEOREM AckedNeverLost ==
    ASSUME MaxTears = 0
    PROVE  Spec => []NoAckedLoss
<1>1. ResilientInv => NoAckedLoss
  BY DEF ResilientInv, TypeOK
<1>2. QED BY ResilientInvariant, <1>1, PTL

-----------------------------------------------------------------------------
(***************************************************************************)
(* What tears cost.                                                        *)
(***************************************************************************)
\* An append keeps what was readable but for an unfinished last line, which it
\* spoils; only a tear leaves the last line unfinished again.
LEMMA AppendedEffect ==
    ASSUME NEW f \in Seq(LineType), NEW t \in Tasks,
           NEW state \in {"good", "cut", "torn"},
           NEW g, g = Appended(f, t, state)
    PROVE  /\ Unended(g) <=> state # "good"
           /\ \A u \in Readable(f) :
                  \/ u \in Readable(g)
                  \/ Unended(f) /\ f[Len(f)].state = "cut" /\ u = f[Len(f)].task
           /\ ~Unended(f) /\ state = "good" => t \in Readable(g)
           /\ \A i \in DOMAIN g :
                  g[i].state = "cut" =>
                      (i \in DOMAIN f /\ g[i] = f[i]) \/ (state = "cut" /\ g[i].task = t)
<1>1. Len(f) \in Nat /\ DOMAIN f = 1 .. Len(f)
  OBVIOUS
<1>2. CASE Unended(f)
  <2> DEFINE joint == [task |-> Joint(f[Len(f)].task, t),
                       state |-> IF state = "good" THEN "bad" ELSE "torn"]
  <2>1. g = [f EXCEPT ![Len(f)] = joint]
    BY <1>2 DEF Appended
  <2>2. joint.state = IF state = "good" THEN "bad" ELSE "torn"
    OBVIOUS
  <2>3. f # << >> /\ Len(f) \in DOMAIN f
    BY <1>1, <1>2 DEF Unended
  <2> HIDE DEF joint
  <2>4. /\ DOMAIN g = DOMAIN f /\ g[Len(f)] = joint
        /\ \A i \in DOMAIN f : i # Len(f) => g[i] = f[i]
    BY <2>1, <2>3
  <2>5. g \in Seq(LineType) /\ Len(g) = Len(f) /\ g # << >>
    <3>1. g \in Seq(LineType)
      BY AppendedType
    <3>2. QED BY <3>1, <2>3, <2>4, <1>1
  <2>6. Unended(g) <=> state # "good"
    BY <2>2, <2>4, <2>5 DEF Unended
  <2>7. ASSUME NEW u \in Readable(f)
        PROVE  u \in Readable(g) \/ (f[Len(f)].state = "cut" /\ u = f[Len(f)].task)
    <3>1. PICK i \in DOMAIN f : Parses(f[i]) /\ f[i].task = u
      BY ReadableIff
    <3>2. CASE i = Len(f)
      BY <1>2, <3>1, <3>2 DEF Unended, Parses
    <3>3. CASE i # Len(f)
      BY <3>1, <3>3, <2>4, ReadableIff
    <3>4. QED BY <3>2, <3>3
  <2>8. \A i \in DOMAIN g : g[i].state = "cut" => i \in DOMAIN f /\ g[i] = f[i]
    BY <2>2, <2>4
  <2>9. QED BY <1>2, <2>6, <2>7, <2>8
<1>3. CASE ~Unended(f)
  <2> DEFINE line == [task |-> t, state |-> state]
  <2>1. line \in LineType /\ line.task = t /\ line.state = state
    BY DEF LineType
  <2>2. g = Append(f, line)
    BY <1>3 DEF Appended
  <2> HIDE DEF line
  <2>3. /\ DOMAIN g = DOMAIN f \cup {Len(f) + 1} /\ Len(g) = Len(f) + 1
        /\ \A i \in DOMAIN f : g[i] = f[i]
        /\ g[Len(f) + 1] = line /\ g # << >>
    BY <2>1, <2>2
  <2>4. Unended(g) <=> state # "good"
    BY <2>1, <2>3 DEF Unended
  <2>5. \A u \in Readable(f) : u \in Readable(g)
    BY <2>3, ReadableIff
  <2>6. state = "good" => t \in Readable(g)
    BY <2>1, <2>3, ReadableIff DEF Parses
  <2>7. \A i \in DOMAIN g :
            g[i].state = "cut" =>
                (i \in DOMAIN f /\ g[i] = f[i]) \/ (state = "cut" /\ g[i].task = t)
    BY <2>1, <2>3
  <2>8. QED BY <1>3, <2>4, <2>5, <2>6, <2>7
<1>4. QED BY <1>2, <1>3

\* A dispatch that failed stays so.
LEMMA ErrStays ==
    ASSUME TypeOK, [Next]_vars, NEW t \in Tasks, pc[t] = "err"
    PROVE  pc'[t] = "err"
<1> USE DEF TypeOK, Goto
<1>1. ASSUME NEW s \in Tasks, Dispatch(s) PROVE pc'[t] = "err"
  BY <1>1 DEF Dispatch
<1>2. ASSUME NEW s \in Tasks, DispatchStep(s) PROVE pc'[t] = "err"
  BY <1>2 DEF DispatchStep, Deliver, Degrade, MaybeRecover, Write, Tear, Sync
<1>3. CASE RecoverStep
  BY <1>3 DEF RecoverStep, StartReplay, Replay, Rewrite
<1>4. CASE Crash
  BY <1>4 DEF Crash
<1>5. CASE Flap \/ UNCHANGED vars
  BY <1>5 DEF Flap, vars
<1>6. QED BY <1>1, <1>2, <1>3, <1>4, <1>5 DEF Next

\* What a step makes of the file, and what a power failure leaves of it.
LEMMA FileSteps ==
    ASSUME TypeOK, [Next]_vars
    PROVE  /\ \/ file' = file \/ file' = stable
              \/ \E t \in Tasks, state \in {"good", "cut", "torn"} :
                     /\ file' = Appended(file, t, state)
                     /\ state # "good" => pc'[t] = "err"
              \/ \A i \in DOMAIN file' : file'[i].state = "good"
           /\ stable' \in {stable, file, file'}
<1>1. ASSUME NEW t \in Tasks, Dispatch(t) \/ Deliver(t) \/ Degrade(t) \/ MaybeRecover(t)
      PROVE  UNCHANGED <<file, stable>>
  BY <1>1 DEF Dispatch, Deliver, Degrade, MaybeRecover, fileVars
<1>2. ASSUME NEW t \in Tasks, Write(t)
      PROVE  file' = Appended(file, t, "good") /\ stable' = stable
  BY <1>2 DEF Write
<1>3. ASSUME NEW t \in Tasks, Tear(t)
      PROVE  /\ \E state \in {"cut", "torn"} : file' = Appended(file, t, state)
             /\ pc'[t] = "err" /\ stable' \in {stable, file'}
  BY <1>3 DEF Tear, Goto, TypeOK
<1>4. ASSUME NEW t \in Tasks, Sync(t) PROVE file' = file /\ stable' \in {stable, file}
  BY <1>4 DEF Sync
<1>5. CASE StartReplay \/ Replay \/ Flap \/ UNCHANGED vars
  BY <1>5 DEF StartReplay, Replay, Flap, vars, fileVars
<1>6. CASE Rewrite
  BY <1>6 DEF Rewrite
<1>7. CASE Crash
  BY <1>7 DEF Crash
<1>8. QED
  BY <1>1, <1>2, <1>3, <1>4, <1>5, <1>6, <1>7 DEF Next, DispatchStep, RecoverStep

\* Every step keeps what is known of lines cut short.
LEMMA CutStep ==
    ASSUME TypeOK, CutRefused(file), CutRefused(stable), [Next]_vars
    PROVE  CutRefused(file)' /\ CutRefused(stable)'
<1> DEFINE Refused(f) == \A i \in DOMAIN f : f[i].state = "cut" => pc'[f[i].task] = "err"
<1>1. ASSUME NEW f \in Seq(LineType), CutRefused(f) PROVE Refused(f)
  <2>1. \A i \in DOMAIN f : f[i].task \in Tasks
    <3>1. \A i \in DOMAIN f : f[i] \in LineType
      OBVIOUS
    <3>2. QED BY <3>1 DEF LineType
  <2>2. QED BY <1>1, <2>1, ErrStays DEF CutRefused
<1>2. Refused(file) /\ Refused(stable)
  BY <1>1 DEF TypeOK
<1>3. Refused(file')
  <2>1. ASSUME NEW t \in Tasks, NEW state \in {"good", "cut", "torn"},
               file' = Appended(file, t, state), state # "good" => pc'[t] = "err"
        PROVE  Refused(file')
    <3>1. file \in Seq(LineType)
      BY DEF TypeOK
    <3>2. \A i \in DOMAIN file' :
              file'[i].state = "cut" =>
                  \/ i \in DOMAIN file /\ file'[i] = file[i]
                  \/ state = "cut" /\ file'[i].task = t
      BY <2>1, <3>1, AppendedEffect
    <3>3. QED BY <1>2, <2>1, <3>2
  <2>2. CASE \A i \in DOMAIN file' : file'[i].state = "good"
    BY <2>2
  <2>3. CASE file' = file \/ file' = stable
    BY <1>2, <2>3
  <2>4. QED BY <2>1, <2>2, <2>3, FileSteps
<1>4. Refused(stable')
  BY <1>2, <1>3, FileSteps
<1>5. QED BY <1>3, <1>4 DEF CutRefused

\* Charged, with the phases, the broker and the tears as arguments.
Gone(p, b, f, phases) == {t \in Tasks : p[t] \in phases /\ t \notin b \cup Readable(f)}
Fits(p, b, f, phases, n) ==
    /\ IsFiniteSet(Gone(p, b, f, phases))
    /\ Cardinality(Gone(p, b, f, phases)) + (IF Unended(f) THEN 1 ELSE 0) <= n

\* Fits is Charged, with its variables as parameters.
LEMMA FitsSame ==
    /\ \A f, phases : Charged(f, phases) <=> Fits(pc, broker, f, phases, tears)
    /\ \A phases : Charged(file, phases)' <=> Fits(pc', broker', file', phases, tears')
    /\ \A phases : Charged(stable, phases)' <=> Fits(pc', broker', stable', phases, tears')
BY DEF Charged, Missing, Fits, Gone

\* Fewer missing, and the last line no worse, or paid for.
LEMMA FitsStill ==
    ASSUME NEW p, NEW b, NEW f, NEW P, NEW n \in Nat, Fits(p, b, f, P, n),
           NEW q, NEW c, NEW g, NEW Q, NEW m \in Nat,
           \A t \in Tasks : q[t] \in Q /\ t \notin c \cup Readable(g) =>
                                p[t] \in P /\ t \notin b \cup Readable(f),
           \/ (Unended(g) => Unended(f)) /\ m = n
           \/ m = n + 1
    PROVE  Fits(q, c, g, Q, m)
<1>1. Gone(q, c, g, Q) \subseteq Gone(p, b, f, P)
  BY DEF Gone
<1>2. /\ IsFiniteSet(Gone(q, c, g, Q))
      /\ Cardinality(Gone(q, c, g, Q)) <= Cardinality(Gone(p, b, f, P))
  BY <1>1, FS_Subset DEF Fits
<1>3. Cardinality(Gone(q, c, g, Q)) \in Nat /\ Cardinality(Gone(p, b, f, P)) \in Nat
  BY <1>2, FS_CardinalityType DEF Fits
<1>4. QED BY <1>2, <1>3 DEF Fits

\* The task whose line spoils, or is spoilt by, an unfinished one.
LEMMA FitsSpoilt ==
    ASSUME NEW p, NEW b, NEW f, NEW P, NEW n \in Nat, Fits(p, b, f, P, n),
           NEW q, NEW c, NEW g, NEW Q, NEW s,
           Gone(q, c, g, Q) \subseteq Gone(p, b, f, P) \cup {s},
           Unended(f), ~Unended(g)
    PROVE  Fits(q, c, g, Q, n)
<1>1. /\ IsFiniteSet(Gone(p, b, f, P)) /\ Cardinality(Gone(p, b, f, P)) + 1 <= n
      /\ Cardinality(Gone(p, b, f, P)) \in Nat
  BY FS_CardinalityType DEF Fits
<1>2. ASSUME NEW G, IsFiniteSet(G)
      PROVE  /\ IsFiniteSet(G \cup {s}) /\ Cardinality(G \cup {s}) \in Nat
             /\ Cardinality(G \cup {s}) <= Cardinality(G) + 1
  <2>1. Cardinality(G) \in Nat
    BY <1>2, FS_CardinalityType
  <2>2. CASE s \in G
    <3>1. G \cup {s} = G
      BY <2>2
    <3>2. QED BY <1>2, <2>1, <3>1
  <2>3. CASE s \notin G
    <3>1. IsFiniteSet(G \cup {s}) /\ Cardinality(G \cup {s}) = Cardinality(G) + 1
      BY <1>2, <2>3, FS_AddElement
    <3>2. QED BY <2>1, <3>1
  <2>4. QED BY <2>2, <2>3
<1>3. ASSUME NEW G, IsFiniteSet(G), NEW H, H \subseteq G \cup {s}
      PROVE  IsFiniteSet(H) /\ Cardinality(H) \in Nat /\ Cardinality(H) <= Cardinality(G) + 1
  <2>1. IsFiniteSet(H) /\ Cardinality(H) <= Cardinality(G \cup {s})
    BY <1>2, <1>3, FS_Subset
  <2>2. Cardinality(H) \in Nat /\ Cardinality(G) \in Nat
    BY <1>3, <2>1, FS_CardinalityType
  <2>3. QED BY <1>2, <1>3, <2>1, <2>2
<1>4. /\ IsFiniteSet(Gone(q, c, g, Q)) /\ Cardinality(Gone(q, c, g, Q)) \in Nat
      /\ Cardinality(Gone(q, c, g, Q)) <= Cardinality(Gone(p, b, f, P)) + 1
  BY <1>1, <1>3
<1>5. QED BY <1>1, <1>4 DEF Fits

\* Every step keeps LossInv.
LEMMA LossStep ==
    ASSUME ResilientInv, LossInv, [Next]_vars
    PROVE  LossInv'
<1> DEFINE Waits == {"ok", "sync"}
           FileFits == Fits(pc', broker', file', Waits, tears')
           StableFits == Fits(pc', broker', stable', {"ok"}, tears')
<1>1. /\ pc \in [Tasks -> Phases] /\ file \in Seq(LineType) /\ stable \in Seq(LineType)
      /\ tears \in Nat /\ failed \in Seq(Tasks)
      /\ Exclusive /\ Delivered /\ Replayed /\ TypeOK
  BY DEF ResilientInv, TypeOK
<1>2. Fits(pc, broker, file, Waits, tears) /\ Fits(pc, broker, stable, {"ok"}, tears)
  BY FitsSame DEF LossInv
<1>3. SUFFICES FileFits /\ StableFits
  BY <1>1, FitsSame, CutStep DEF LossInv
<1>4. ASSUME UNCHANGED <<file, stable, tears>>, broker \subseteq broker',
             \A t \in Tasks : /\ pc'[t] \in Waits => pc[t] \in Waits \/ t \in broker'
                              /\ pc'[t] = "ok" => pc[t] = "ok" \/ t \in broker'
      PROVE  FileFits /\ StableFits
  <2>1. \A t \in Tasks : pc'[t] \in Waits /\ t \notin broker' \cup Readable(file) =>
                             pc[t] \in Waits /\ t \notin broker \cup Readable(file)
    BY <1>4
  <2>2. \A t \in Tasks : pc'[t] \in {"ok"} /\ t \notin broker' \cup Readable(stable) =>
                             pc[t] \in {"ok"} /\ t \notin broker \cup Readable(stable)
    BY <1>4
  <2> HIDE DEF Waits
  <2>3. QED BY <1>1, <1>2, <1>4, <2>1, <2>2, FitsStill
<1>5. ASSUME NEW t \in Tasks, Dispatch(t) \/ Deliver(t) \/ Degrade(t)
      PROVE  FileFits /\ StableFits
  <2>1. UNCHANGED <<file, stable, tears>> /\ broker \subseteq broker'
    BY <1>5 DEF Dispatch, Deliver, Degrade, fileVars, brokerVars
  <2>2. pc'[t] \in {"call", "check", "append"} /\ \A s \in Tasks \ {t} : pc'[s] = pc[s]
    BY <1>1, <1>5 DEF Dispatch, Deliver, Degrade, Goto
  <2>3. QED BY <1>4, <2>1, <2>2
<1>6. ASSUME NEW t \in Tasks, MaybeRecover(t) PROVE FileFits /\ StableFits
  <2>1. UNCHANGED <<file, stable, tears, broker>> /\ t \in broker
    BY <1>1, <1>6 DEF MaybeRecover, Delivered, fileVars, brokerVars
  <2>2. \A s \in Tasks \ {t} : pc'[s] = pc[s]
    BY <1>1, <1>6 DEF MaybeRecover, Goto
  <2>3. QED BY <1>4, <2>1, <2>2
<1>7. ASSUME NEW t \in Tasks, Write(t) PROVE FileFits /\ StableFits
  <2>1. /\ file' = Appended(file, t, "good") /\ UNCHANGED <<stable, tears, broker>>
        /\ pc'[t] = "sync" /\ \A s \in Tasks \ {t} : pc'[s] = pc[s]
    BY <1>1, <1>7 DEF Write, Goto, brokerVars
  <2>2. /\ ~Unended(file')
        /\ \A u \in Readable(file) :
               \/ u \in Readable(file')
               \/ Unended(file) /\ file[Len(file)].state = "cut" /\ u = file[Len(file)].task
        /\ ~Unended(file) => t \in Readable(file')
    BY <1>1, <2>1, AppendedEffect
  <2>3. ASSUME NEW u \in Tasks, u \in Readable(file), u \notin Readable(file')
        PROVE  pc[u] = "err"
    <3>1. file[Len(file)].state = "cut" /\ u = file[Len(file)].task /\ Len(file) \in DOMAIN file
      BY <1>1, <2>2, <2>3 DEF Unended
    <3>2. QED BY <3>1 DEF LossInv, CutRefused
  <2>4. \A u \in Tasks :
            pc'[u] \in Waits /\ u \notin broker' \cup Readable(file') =>
                u = t \/ (pc[u] \in Waits /\ u \notin broker \cup Readable(file))
    BY <2>1, <2>3
  <2>5. FileFits
    <3>1. CASE Unended(file)
      <4> HIDE DEF Waits
      <4>1. Gone(pc', broker', file', Waits) \subseteq Gone(pc, broker, file, Waits) \cup {t}
        BY <2>4 DEF Gone
      <4>2. Fits(pc', broker', file', Waits, tears)
        BY <1>1, <1>2, <2>2, <4>1, <3>1, FitsSpoilt
      <4>3. QED BY <2>1, <4>2
    <3>2. CASE ~Unended(file)
      <4>1. t \in Readable(file')
        BY <2>2, <3>2
      <4> HIDE DEF Waits
      <4>2. QED BY <1>1, <1>2, <2>1, <2>2, <2>4, <4>1, FitsStill
    <3>3. QED BY <3>1, <3>2
  <2>6. StableFits
    <3>1. \A s \in Tasks : pc'[s] \in {"ok"} => pc[s] \in {"ok"}
      BY <2>1
    <3>2. QED BY <1>1, <1>2, <2>1, <3>1, FitsStill
  <2>7. QED BY <2>5, <2>6
<1>8. ASSUME NEW t \in Tasks, Tear(t) PROVE FileFits /\ StableFits
  <2>1. PICK state \in {"cut", "torn"} : file' = Appended(file, t, state)
    BY <1>8 DEF Tear
  <2>2. /\ stable' \in {stable, file'} /\ tears' = tears + 1 /\ broker' = broker
        /\ pc'[t] = "err" /\ \A s \in Tasks \ {t} : pc'[s] = pc[s]
        /\ mu = Nobody
    BY <1>1, <1>8 DEF Tear, Free, Goto, brokerVars
  <2>3. \A u \in Readable(file) :
            \/ u \in Readable(file')
            \/ Unended(file) /\ file[Len(file)].state = "cut" /\ u = file[Len(file)].task
    BY <1>1, <2>1, AppendedEffect
  <2>4. ASSUME NEW u \in Tasks, u \in Readable(file), u \notin Readable(file')
        PROVE  pc[u] = "err"
    <3>1. file[Len(file)].state = "cut" /\ u = file[Len(file)].task /\ Len(file) \in DOMAIN file
      BY <1>1, <2>3, <2>4 DEF Unended
    <3>2. QED BY <3>1 DEF LossInv, CutRefused
  <2>5. \A u \in Tasks : pc'[u] \in Waits /\ u \notin broker' \cup Readable(file') =>
                             pc[u] \in Waits /\ u \notin broker \cup Readable(file)
    BY <2>2, <2>4
  <2>6. FileFits
    <3> HIDE DEF Waits
    <3>1. QED BY <1>1, <1>2, <2>2, <2>5, FitsStill
  <2>7. Fits(pc', broker', file', {"ok"}, tears')
    <3>1. \A u \in Tasks : pc'[u] \in {"ok"} /\ u \notin broker' \cup Readable(file') =>
                               pc[u] \in Waits /\ u \notin broker \cup Readable(file)
      BY <2>5
    <3> HIDE DEF Waits
    <3>2. QED BY <1>1, <1>2, <2>2, <3>1, FitsStill
  <2>8. Fits(pc', broker', stable, {"ok"}, tears')
    <3>1. \A u \in Tasks : pc'[u] \in {"ok"} => pc[u] \in {"ok"}
      BY <2>2
    <3>2. QED BY <1>1, <1>2, <2>2, <3>1, FitsStill
  <2>9. QED BY <2>2, <2>6, <2>7, <2>8
<1>9. ASSUME NEW t \in Tasks, Sync(t) PROVE FileFits /\ StableFits
  <2>1. /\ file' = file /\ UNCHANGED <<tears, broker>> /\ pc[t] = "sync"
        /\ \A s \in Tasks \ {t} : pc'[s] = pc[s]
        /\ \/ stable' = file /\ pc'[t] = "ok"
           \/ stable' \in {stable, file} /\ pc'[t] = "err"
    BY <1>1, <1>9 DEF Sync, Goto, brokerVars
  <2>2. \A u \in Tasks : pc'[u] \in Waits => pc[u] \in Waits
    BY <2>1
  <2>3. \A u \in Tasks : pc'[u] \in {"ok"} => pc[u] \in Waits
    BY <2>1
  <2>4. pc'[t] = "err" => \A u \in Tasks : pc'[u] \in {"ok"} => pc[u] \in {"ok"}
    BY <2>1
  <2> HIDE DEF Waits
  <2>5. FileFits
    BY <1>1, <1>2, <2>1, <2>2, FitsStill
  <2>6. Fits(pc', broker', file, {"ok"}, tears')
    BY <1>1, <1>2, <2>1, <2>3, FitsStill
  <2>7. pc'[t] = "err" => Fits(pc', broker', stable, {"ok"}, tears')
    BY <1>1, <1>2, <2>1, <2>4, FitsStill
  <2>8. QED BY <2>1, <2>5, <2>6, <2>7
<1>10. CASE StartReplay \/ Replay \/ Flap \/ UNCHANGED vars
  <2>1. UNCHANGED <<file, stable, tears, pc>> /\ broker \subseteq broker'
    BY <1>10 DEF StartReplay, Replay, Resend, Flap, vars, fileVars, brokerVars
  <2>2. QED BY <1>4, <2>1
<1>11. CASE Rewrite
  <2>1. /\ rpc = "replay" /\ todo = << >> /\ stable' = file'
        /\ UNCHANGED <<tears, broker, pc>>
    BY <1>11 DEF Rewrite, brokerVars
  <2>2. Readable(todo) = {}
    BY <2>1 DEF Readable
  <2>3. \A t \in Readable(file) : t \in broker \/ t \in ToSet(failed)
    BY <1>1, <2>1, <2>2 DEF Replayed
  <2>4. /\ Unended(file') => Unended(file)
        /\ \A t \in Readable(file) : t \in broker \cup Readable(file')
    <3>1. CASE UNCHANGED file
      BY <3>1
    <3>2. CASE file' = [i \in DOMAIN failed |-> [task |-> failed[i], state |-> "good"]]
      <4>1. /\ file' \in Seq(LineType) /\ Readable(file') = ToSet(failed)
            /\ \A i \in DOMAIN file' : file'[i].state = "good"
        BY <1>1, <3>2, Rewritten
      <4>2. ~Unended(file')
        <5>1. file' # << >> => Len(file') \in DOMAIN file'
          BY <4>1
        <5>2. QED BY <4>1, <5>1 DEF Unended
      <4>3. QED BY <2>3, <4>1, <4>2
    <3>3. QED BY <1>11, <3>1, <3>2 DEF Rewrite
  <2>5. \A t \in Tasks : pc'[t] \in Waits /\ t \notin broker' \cup Readable(file') =>
                             pc[t] \in Waits /\ t \notin broker \cup Readable(file)
    BY <2>1, <2>4
  <2>6. \A t \in Tasks : pc'[t] \in {"ok"} /\ t \notin broker' \cup Readable(file') =>
                             pc[t] \in Waits /\ t \notin broker \cup Readable(file)
    BY <2>5
  <2> HIDE DEF Waits
  <2>7. Fits(pc', broker', file', Waits, tears') /\ Fits(pc', broker', file', {"ok"}, tears')
    BY <1>1, <1>2, <2>1, <2>4, <2>5, <2>6, FitsStill
  <2>8. QED BY <2>1, <2>7
<1>12. CASE Crash
  <2>1. /\ file' \in {file, stable} /\ stable' = file' /\ UNCHANGED <<tears, broker>>
        /\ \A t \in Tasks : pc'[t] \in Waits => pc[t] = "ok" /\ pc'[t] = "ok"
    BY <1>1, <1>12 DEF Crash, brokerVars, Phases
  <2>2. \A t \in Tasks : pc'[t] \in Waits => pc[t] \in Waits /\ pc[t] \in {"ok"}
    BY <2>1
  <2>3. \A t \in Tasks : pc'[t] \in {"ok"} => pc[t] \in Waits /\ pc[t] \in {"ok"}
    BY <2>1
  <2> HIDE DEF Waits
  <2>4. /\ Fits(pc', broker', file, Waits, tears') /\ Fits(pc', broker', stable, Waits, tears')
    BY <1>1, <1>2, <2>1, <2>2, FitsStill
  <2>5. /\ Fits(pc', broker', file, {"ok"}, tears')
        /\ Fits(pc', broker', stable, {"ok"}, tears')
    BY <1>1, <1>2, <2>1, <2>3, FitsStill
  <2>6. QED BY <2>1, <2>4, <2>5
<1>13. QED
  BY <1>5, <1>6, <1>7, <1>8, <1>9, <1>10, <1>11, <1>12 DEF Next, DispatchStep, RecoverStep

\* A tear costs at most one acknowledged task, and nothing else costs any: for
\* any number of tasks, tears, outages, replays and crashes.
THEOREM TearCostsOneTask == Spec => []AckedLossBounded
<1>1. Init => LossInv
  <2> SUFFICES ASSUME Init PROVE LossInv
    OBVIOUS
  <2>1. CutRefused(file) /\ CutRefused(stable) /\ ~Unended(file) /\ ~Unended(stable)
    BY DEF Init, CutRefused, Unended
  <2>2. \A phases : phases \in SUBSET {"ok", "sync"} =>
            Missing(file, phases) = {} /\ Missing(stable, phases) = {}
    BY DEF Init, Missing
  <2>3. \A phases : phases \in SUBSET {"ok", "sync"} =>
            Charged(file, phases) /\ Charged(stable, phases)
    <3>1. tears = 0 /\ IsFiniteSet({}) /\ Cardinality({}) = 0
      BY FS_EmptySet DEF Init
    <3>2. ASSUME NEW phases, phases \in SUBSET {"ok", "sync"}
          PROVE  Charged(file, phases) /\ Charged(stable, phases)
      <4>1. Missing(file, phases) = {} /\ Missing(stable, phases) = {}
        BY <2>2, <3>2
      <4>2. QED BY <2>1, <3>1, <4>1 DEF Charged
    <3>3. QED BY <3>2
  <2>4. QED BY <2>1, <2>3 DEF LossInv
<1>2. ResilientInv /\ LossInv /\ [Next]_vars => LossInv'
  BY LossStep
<1>3. ResilientInv /\ LossInv => AckedLossBounded
  <2> SUFFICES ASSUME ResilientInv, LossInv PROVE AckedLossBounded
    OBVIOUS
  <2>1. tears \in Nat
    BY DEF ResilientInv, TypeOK
  <2>2. Missing(file, {"ok"}) \subseteq Missing(file, {"ok", "sync"})
    BY DEF Missing
  <2>3. IsFiniteSet(Missing(file, {"ok", "sync"}))
    BY DEF LossInv, Charged
  <2>4. /\ Cardinality(Missing(file, {"ok"})) <= Cardinality(Missing(file, {"ok", "sync"}))
        /\ IsFiniteSet(Missing(file, {"ok"}))
    BY <2>2, <2>3, FS_Subset
  <2>5. /\ Cardinality(Missing(file, {"ok"})) \in Nat
        /\ Cardinality(Missing(file, {"ok", "sync"})) \in Nat
    BY <2>3, <2>4, FS_CardinalityType
  <2>6. Cardinality(Missing(file, {"ok", "sync"})) + (IF Unended(file) THEN 1 ELSE 0) <= tears
    BY DEF LossInv, Charged
  <2>7. QED BY <2>1, <2>4, <2>5, <2>6 DEF AckedLossBounded, Lost
<1>4. QED BY <1>1, <1>2, <1>3, ResilientInvariant, PTL DEF Spec

-----------------------------------------------------------------------------
(***************************************************************************)
(* Platform: what a publish answers and where its task is, for any number  *)
(* of tasks, faults and waiting errors.                                    *)
(***************************************************************************)
Labels == {"idle", "begin", "sent", "broken", "connected", "again"}
Words == {"nothing", "ok", "error", "cut"}

PublishTyped == pub \in [Published -> Labels] /\ told \in [Published -> Words]

\* A publish under way has not answered, and an answer has its cause.
AnswerLast(t) == pub[t] # "idle" => told[t] = "nothing"
\* Before the message leaves it is nowhere,
Unsent(t) ==
    pub[t] = "begin" \/ (pub[t] = "idle" /\ told[t] = "nothing")
        => t \notin stored \cup returned
\* once confirmed it is in a queue or was sent back, not both,
Settled(t) ==
    pub[t] = "sent" => /\ t \in stored \cup returned
                       /\ ~(t \in stored /\ t \in returned)
\* and it is sent again only when the connection broke.
Broken(t) == pub[t] \in {"broken", "connected", "again"} => t \in broken

Cause(t) ==
    /\ told[t] = "ok" => t \in stored \cup returned
    /\ told[t] = "error" /\ t \in stored => t \in broken \cup blamed

Holds(t) == AnswerLast(t) /\ Unsent(t) /\ Settled(t) /\ Broken(t) /\ Cause(t)

PlatformInv == PublishTyped /\ \A t \in Published : Holds(t)

-----------------------------------------------------------------------------
(* A step of one publish leaves the others alone.                          *)

\* What Holds(t) reads is what it was.
Untouched(t) ==
    /\ pub'[t] = pub[t] /\ told'[t] = told[t]
    /\ (t \in stored') = (t \in stored) /\ (t \in returned') = (t \in returned)
    /\ t \in broken => t \in broken'
    /\ t \in blamed => t \in blamed'

\* A publish whose state a step does not touch stays right.
LEMMA UntouchedHolds ==
    ASSUME NEW t \in Published, Holds(t), Untouched(t)
    PROVE  Holds(t)'
BY DEF Holds, Untouched, AnswerLast, Unsent, Settled, Broken, Cause

\* Answer types.
LEMMA AnswerTyped ==
    ASSUME PublishTyped, NEW t \in Published, NEW a \in Words, Answer(t, a)
    PROVE  /\ PublishTyped' /\ pub'[t] = "idle" /\ told'[t] = a
           /\ \A s \in Published \ {t} : pub'[s] = pub[s] /\ told'[s] = told[s]
BY DEF PublishTyped, Answer, Labels

\* Goes types.
LEMMA GoesTyped ==
    ASSUME PublishTyped, NEW t \in Published, NEW l \in Labels, Goes(t, l)
    PROVE  /\ PublishTyped' /\ pub'[t] = l /\ told'[t] = told[t]
           /\ \A s \in Published \ {t} : pub'[s] = pub[s] /\ told'[s] = told[s]
BY DEF PublishTyped, Goes

\* Where a delivery leaves its message.
LEMMA ReachedWhere ==
    ASSUME NEW t \in Published, Reached(t)
    PROVE  /\ t \in stored' \cup returned'
           /\ t \notin stored \cup returned => ~(t \in stored' /\ t \in returned')
           /\ \A s \in Published \ {t} : /\ (s \in stored') = (s \in stored)
                                     /\ (s \in returned') = (s \in returned)
BY DEF Reached

\* A connection cut under a publish is remembered, and no other task moves.
LEMMA CutOffWhere ==
    ASSUME NEW t \in Published, CutOff(t)
    PROVE  /\ t \in broken' /\ broken \subseteq broken' /\ returned' = returned
           /\ \A s \in Published \ {t} : (s \in stored') = (s \in stored)
BY DEF CutOff

-----------------------------------------------------------------------------
\* Nothing is published at first.
LEMMA PlatformInitInv == PlatformInit => PlatformInv
BY DEF PlatformInit, PlatformInv, PublishTyped, Labels, Words, Holds, AnswerLast, Unsent, Settled, Broken, Cause

\* A step that leaves the answers, the queues and the notes alone.
LEMMA QuietStep ==
    ASSUME PlatformInv, UNCHANGED <<answers, stored, returned, blamed, broken>>
    PROVE  PlatformInv'
BY DEF PlatformInv, PublishTyped, answers, Holds, AnswerLast, Unsent, Settled, Broken, Cause

\* The message is stored, sent back, or the connection breaks.
LEMMA PublishStep ==
    ASSUME PlatformInv, NEW t \in Published, Publish(t)
    PROVE  PlatformInv'
<1>0. PublishTyped /\ pub[t] = "begin" /\ told[t] = "nothing" /\ t \notin stored \cup returned
  BY DEF PlatformInv, Holds, AnswerLast, Unsent, Publish
<1>1. CASE Confirmed(t, "sent")
  <2>1. Reached(t) /\ Goes(t, "sent") /\ UNCHANGED <<broken, blamed>>
    BY <1>1 DEF Confirmed, Publish
  <2>2. PublishTyped' /\ pub'[t] = "sent" /\ told'[t] = "nothing"
    BY <1>0, <2>1, GoesTyped DEF Labels
  <2>3. Holds(t)'
    BY <2>1, <2>2, <1>0, ReachedWhere DEF Holds, AnswerLast, Unsent, Settled, Broken, Cause
  <2>4. \A s \in Published \ {t} : Untouched(s)
    BY <2>1, <1>0, ReachedWhere, GoesTyped DEF Untouched, Labels
  <2>5. QED BY <2>2, <2>3, <2>4, UntouchedHolds DEF PlatformInv
<1>2. CASE CutOff(t) /\ Goes(t, "broken")
  <2>1. UNCHANGED blamed BY DEF Publish
  <2>2. PublishTyped' /\ pub'[t] = "broken" /\ told'[t] = "nothing"
    BY <1>0, <1>2, GoesTyped DEF Labels
  <2>3. Holds(t)'
    BY <1>2, <2>2, <1>0, CutOffWhere DEF Holds, AnswerLast, Unsent, Settled, Broken, Cause
  <2>4. \A s \in Published \ {t} : Untouched(s)
    BY <1>2, <2>1, <1>0, CutOffWhere, GoesTyped DEF Untouched, Labels
  <2>5. QED BY <2>2, <2>3, <2>4, UntouchedHolds DEF PlatformInv
<1>3. QED BY <1>1, <1>2 DEF Publish

\* A confirmed publish answers by what waits in returnErr.
LEMMA ReadReturnStep ==
    ASSUME PlatformInv, NEW t \in Published, ReadReturn(t)
    PROVE  PlatformInv'
<1>0. PublishTyped /\ Holds(t) /\ pub[t] = "sent" /\ UNCHANGED <<stored, returned, broken>>
  BY DEF PlatformInv, ReadReturn, amqp
<1>1. t \in stored \cup returned /\ ~(t \in stored /\ t \in returned)
  BY <1>0 DEF Holds, Settled
<1>2. CASE returnErr = <<>>
  <2>1. Answer(t, "ok") /\ UNCHANGED blamed BY <1>2 DEF ReadReturn
  <2>2. PublishTyped' /\ pub'[t] = "idle" /\ told'[t] = "ok"
    BY <1>0, <2>1, AnswerTyped DEF Words
  <2>3. Holds(t)'
    BY <1>0, <1>1, <2>2 DEF Holds, AnswerLast, Unsent, Settled, Broken, Cause
  <2>4. \A s \in Published \ {t} : Untouched(s)
    BY <1>0, <2>1, AnswerTyped DEF Untouched, Words
  <2>5. QED BY <2>2, <2>3, <2>4, UntouchedHolds DEF PlatformInv
<1>3. CASE returnErr # <<>>
  <2>1. /\ Answer(t, "error")
        /\ blamed' = IF t \in returned THEN blamed ELSE blamed \cup {t}
    BY <1>3 DEF ReadReturn
  <2>2. PublishTyped' /\ pub'[t] = "idle" /\ told'[t] = "error"
    BY <1>0, <2>1, AnswerTyped DEF Words
  <2>3. Holds(t)'
    BY <1>0, <1>1, <2>1, <2>2 DEF Holds, AnswerLast, Unsent, Settled, Broken, Cause
  <2>4. \A s \in Published \ {t} : Untouched(s)
    BY <1>0, <2>1, AnswerTyped DEF Untouched, Words
  <2>5. QED BY <2>2, <2>3, <2>4, UntouchedHolds DEF PlatformInv
<1>4. QED BY <1>2, <1>3

\* A publish that broke ends with an error, or goes on to the next attempt.
LEMMA BrokenStep ==
    ASSUME PlatformInv, NEW t \in Published, pub[t] \in {"broken", "connected", "again"},
           \/ Goes(t, "connected")
           \/ Goes(t, "again")
           \/ Answer(t, "error"),
           UNCHANGED <<stored, returned, blamed, broken>>
    PROVE  PlatformInv'
<1>0. PublishTyped /\ Holds(t) /\ t \in broken /\ told[t] = "nothing"
  BY DEF PlatformInv, Holds, Broken, AnswerLast
<1>1. CASE Answer(t, "error")
  <2>2. PublishTyped' /\ pub'[t] = "idle" /\ told'[t] = "error"
    BY <1>0, <1>1, AnswerTyped DEF Words
  <2>3. Holds(t)'
    BY <1>0, <2>2 DEF Holds, AnswerLast, Unsent, Settled, Broken, Cause
  <2>4. \A s \in Published \ {t} : Untouched(s)
    BY <1>0, <1>1, AnswerTyped DEF Untouched, Words
  <2>5. QED BY <2>2, <2>3, <2>4, UntouchedHolds DEF PlatformInv
<1>2. ASSUME NEW l \in {"connected", "again"}, Goes(t, l)
      PROVE  PlatformInv'
  <2>1. PublishTyped' /\ pub'[t] = l /\ told'[t] = "nothing"
    BY <1>0, <1>2, GoesTyped DEF Labels
  <2>2. Holds(t)'
    BY <1>0, <2>1 DEF Holds, AnswerLast, Unsent, Settled, Broken, Cause
  <2>3. \A s \in Published \ {t} : Untouched(s)
    BY <1>0, <1>2, GoesTyped DEF Untouched, Labels
  <2>4. QED BY <2>1, <2>2, <2>3, UntouchedHolds DEF PlatformInv
<1>3. QED BY <1>1, <1>2

\* The second attempt answers without asking for returns.
LEMMA RetryStep ==
    ASSUME PlatformInv, NEW t \in Published, Retry(t)
    PROVE  PlatformInv'
<1>0. PublishTyped /\ Holds(t) /\ t \in broken /\ UNCHANGED blamed
  BY DEF PlatformInv, Holds, Broken, Retry
<1>1. CASE Reached(t) /\ Answer(t, "ok") /\ UNCHANGED <<link, faults, broken>>
  <2>1. PublishTyped' /\ pub'[t] = "idle" /\ told'[t] = "ok"
    BY <1>0, <1>1, AnswerTyped DEF Words
  <2>2. Holds(t)'
    BY <1>0, <1>1, <2>1, ReachedWhere DEF Holds, AnswerLast, Unsent, Settled, Broken, Cause
  <2>3. \A s \in Published \ {t} : Untouched(s)
    BY <1>0, <1>1, AnswerTyped, ReachedWhere DEF Untouched, Words
  <2>4. QED BY <2>1, <2>2, <2>3, UntouchedHolds DEF PlatformInv
<1>2. CASE CutOff(t) /\ Answer(t, "error")
  <2>1. PublishTyped' /\ pub'[t] = "idle" /\ told'[t] = "error"
    BY <1>0, <1>2, AnswerTyped DEF Words
  <2>2. Holds(t)'
    BY <1>0, <1>2, <2>1, CutOffWhere DEF Holds, AnswerLast, Unsent, Settled, Broken, Cause
  <2>3. \A s \in Published \ {t} : Untouched(s)
    BY <1>0, <1>2, AnswerTyped, CutOffWhere DEF Untouched, Words
  <2>4. QED BY <2>1, <2>2, <2>3, UntouchedHolds DEF PlatformInv
<1>3. QED BY <1>1, <1>2 DEF Retry

\* A call publishes its task once.
LEMMA ProduceStep ==
    ASSUME PlatformInv, NEW c \in Calls, Produce(c)
    PROVE  PlatformInv'
<1>0. /\ c \in Published /\ PublishTyped /\ Holds(c) /\ Goes(c, "begin")
      /\ pub[c] = "idle" /\ told[c] = "nothing"
      /\ UNCHANGED <<stored, returned, blamed, broken>>
  BY DEF PlatformInv, Produce, amqp, notes, Published
<1>1. PublishTyped' /\ pub'[c] = "begin" /\ told'[c] = "nothing"
  BY <1>0, GoesTyped DEF Labels
<1>2. Holds(c)'
  BY <1>0, <1>1 DEF Holds, AnswerLast, Unsent, Settled, Broken, Cause
<1>3. \A s \in Published \ {c} : Untouched(s)
  BY <1>0, GoesTyped DEF Untouched, Labels
<1>4. QED BY <1>1, <1>2, <1>3, UntouchedHolds DEF PlatformInv

\* A tick begins the task's story again.
LEMMA TickStep ==
    ASSUME PlatformInv, publishPeriodic
    PROVE  PlatformInv'
<1>0. PICK l \in {"begin", "idle"} :
        /\ pub' = [pub EXCEPT ![Tick] = l]
        /\ told' = [told EXCEPT ![Tick] = "nothing"]
        /\ stored' = stored \ {Tick}
        /\ returned' = returned \ {Tick} /\ blamed' = blamed \ {Tick}
        /\ broken' = broken \ {Tick}
  BY DEF publishPeriodic
<1>1. PublishTyped /\ Tick \in Published BY DEF PlatformInv, Published
<1>2. PublishTyped' /\ pub'[Tick] = l /\ told'[Tick] = "nothing"
  BY <1>0, <1>1 DEF PublishTyped, Labels, Words
<1>3. Holds(Tick)'
  BY <1>0, <1>2 DEF Holds, AnswerLast, Unsent, Settled, Broken, Cause
<1>4. \A s \in Published \ {Tick} : Untouched(s)
  BY <1>0, <1>1 DEF Untouched, PublishTyped
<1>5. QED BY <1>2, <1>3, <1>4, UntouchedHolds DEF PlatformInv

\* The end of the process cuts every publish off; what was answered stays so.
LEMMA EndStep ==
    ASSUME PlatformInv, waitRoles
    PROVE  PlatformInv'
<1>0. /\ pub' = [t \in Published |-> "idle"]
      /\ told' = [t \in Published |-> IF pub[t] = "idle" THEN told[t] ELSE "cut"]
      /\ UNCHANGED <<stored, returned, blamed, broken>>
  BY DEF waitRoles, notes
<1>1. PublishTyped' BY <1>0 DEF PlatformInv, PublishTyped, Labels, Words
<1>2. ASSUME NEW t \in Published PROVE Holds(t)'
  <2>1. Holds(t) BY DEF PlatformInv
  <2>2. QED BY <1>0, <2>1 DEF Holds, AnswerLast, Unsent, Settled, Broken, Cause
<1>3. QED BY <1>1, <1>2 DEF PlatformInv

-----------------------------------------------------------------------------
\* Every step keeps the invariant.
LEMMA NextInv == PlatformInv /\ [PlatformNext]_platformVars => PlatformInv'
<1> SUFFICES ASSUME PlatformInv, [PlatformNext]_platformVars PROVE PlatformInv'
  OBVIOUS
<1>1. CASE Broker \/ Stop
  <2>1. UNCHANGED <<answers, stored, returned, blamed, broken>>
    BY <1>1 DEF Broker, BrokerDown, BrokerUp, Unbind, Stop, amqp, notes
  <2>2. QED BY <2>1, QuietStep
<1>2. CASE WatchReturns \/ \E t \in Published : PassOn(t)
  <2>1. UNCHANGED <<answers, stored, returned, blamed, broken>>
    BY <1>2 DEF WatchReturns, PassOn, amqp, notes
  <2>2. QED BY <2>1, QuietStep
<1>3. CASE Start \/ startRoles \/ runWorker \/ RunConsumers \/ Shutdown
  <2>1. UNCHANGED <<answers, stored, returned, blamed, broken>>
    BY <1>3 DEF Start, startRoles, runWorker, RunConsumers, Shutdown, amqp, notes
  <2>2. QED BY <2>1, QuietStep
<1>4. CASE \E t \in Published : Connect(t) \/ Declare(t)
  <2>1. PICK t \in Published : Connect(t) \/ Declare(t) BY <1>4
  <2>2. /\ pub[t] \in {"broken", "connected", "again"}
        /\ \/ Goes(t, "connected")
           \/ Goes(t, "again")
           \/ Answer(t, "error")
        /\ UNCHANGED <<stored, returned, blamed, broken>>
    BY <2>1 DEF Connect, Declare, amqp, notes
  <2>3. QED BY <2>2, BrokenStep
<1>5. CASE \E t \in Published : Publish(t) BY <1>5, PublishStep
<1>6. CASE \E t \in Published : ReadReturn(t) BY <1>6, ReadReturnStep
<1>7. CASE \E t \in Published : Retry(t) BY <1>7, RetryStep
<1>8. CASE \E c \in Calls : Produce(c) BY <1>8, ProduceStep
<1>9. CASE publishPeriodic BY <1>9, TickStep
<1>10. CASE waitRoles BY <1>10, EndStep
<1>11. CASE UNCHANGED platformVars
  <2>1. UNCHANGED <<answers, stored, returned, blamed, broken>>
    BY <1>11 DEF platformVars, amqp, notes
  <2>2. QED BY <2>1, QuietStep
<1>12. QED
  BY <1>1, <1>2, <1>3, <1>4, <1>5, <1>6, <1>7, <1>8, <1>9, <1>10, <1>11
     DEF PlatformNext, Publisher, Lifecycle

\* The invariant from which the theorem follows: what a publish under way has
\* left behind so far.
THEOREM PlatformInvariant == PlatformSpec => []PlatformInv
<1>1. QED BY PlatformInitInv, NextInv, PTL DEF PlatformSpec

\* A publish answers nil only for a task that is in a queue or was sent back,
\* and an error for a stored one only if the connection broke or another's
\* return was read (RabbitEnqueuer.publish, enqueuer.go).
THEOREM AnswersHaveCauses == PlatformSpec => []AnswerHasCause
<1>1. PlatformInv => AnswerHasCause
  BY DEF PlatformInv, Holds, Cause, AnswerHasCause
<1>2. QED BY <1>1, PlatformInvariant, PTL

-----------------------------------------------------------------------------
(* While nobody deletes the queues.                                        *)

\* Whoever publishes has a publisher, and making one has declared the queues;
\* so nothing comes back, and no error waits for a caller that is not its own.
NothingReturned ==
    /\ ready => bound
    /\ prod \/ (\E t \in Published : pub[t] # "idle") => ready
    /\ returned = {} /\ basket = {} /\ returnErr = <<>> /\ blamed = {}

\* An answer is the caller's own and true: nil for a task in a queue, an error
\* for one that is not, unless the connection broke under it.
AnswersTrue ==
    \A t \in Published :
        /\ told[t] = "ok" => t \in stored
        /\ told[t] = "error" /\ t \in stored => t \in broken

\* Whoever asks for the publisher and gets it has the queues declared.
LEMMA AskedBound ==
    ASSUME ready => bound, NEW got \in BOOLEAN, schedulerEnqueuer(got)
    PROVE  /\ ready' => bound'
           /\ ready \/ got => ready'
BY DEF schedulerEnqueuer, NewRabbitEnqueuer, EnsureTopology, link

\* A publish that is under way reaches the queues or is cut off.
LEMMA UnderWay ==
    ASSUME PublishTyped, NothingReturned, NEW t \in Published, pub[t] # "idle",
           Reached(t) \/ CutOff(t),
           UNCHANGED <<shared, returnErr, bound, blamed>>
    PROVE  NothingReturned'
<1>1. ready /\ bound /\ UNCHANGED <<ready, prod>>
  BY DEF NothingReturned, shared
<1>2. UNCHANGED <<returned, basket>>
  BY <1>1 DEF Reached, CutOff
<1>3. QED BY <1>1, <1>2 DEF NothingReturned

\* Every step but a deletion of the queues keeps this.
LEMMA ReturnStep ==
    ASSUME PlatformInv, NothingReturned, [PlatformNext]_platformVars,
           [~Unbind]_platformVars
    PROVE  NothingReturned'
<1>0. PublishTyped
  BY DEF PlatformInv
<1>a. ASSUME ready => bound', UNCHANGED <<shared, returnErr, returned, blamed, basket>>,
             \A t \in Published : pub'[t] # "idle" => ready
      PROVE  NothingReturned'
  BY <1>a DEF NothingReturned, shared
<1>1. CASE Unbind
  <2>1. bound /\ ~bound'
    BY <1>1 DEF Unbind
  <2>2. UNCHANGED platformVars
    BY <1>1
  <2>3. QED BY <2>1, <2>2 DEF platformVars, amqp
<1>2. CASE BrokerDown \/ BrokerUp \/ Stop
  <2>1. UNCHANGED <<shared, pub, returnErr, returned, blamed, bound>>
    BY <1>2 DEF BrokerDown, BrokerUp, Stop, answers, amqp, notes
  <2>2. basket' = {}
    BY <1>2 DEF BrokerDown, BrokerUp, Stop, amqp, NothingReturned
  <2>3. QED BY <2>1, <2>2 DEF NothingReturned, shared
<1>3. CASE WatchReturns \/ Start \/ Shutdown
  BY <1>3, <1>a DEF WatchReturns, Start, Shutdown, answers, amqp, notes, NothingReturned
<1>4. CASE runWorker \/ RunConsumers
  <2>1. /\ UNCHANGED <<shared, pub, returnErr, returned, blamed, basket>>
        /\ (bound' = bound) \/ bound'
    BY <1>4 DEF runWorker, RunConsumers, runErr, EnsureBrokerTopology,
       EnsureTopology, answers, notes
  <2>2. QED BY <2>1, <1>a DEF NothingReturned
<1>5. CASE startRoles
  <2>1. /\ ready' => bound'
        /\ ready \/ prod' => ready'
    <3>1. CASE "api" \in roles
      <4>1. PICK got \in BOOLEAN : schedulerEnqueuer(got) /\ prod' = got
        BY <1>5, <3>1 DEF startRoles
      <4>2. QED BY <4>1, AskedBound DEF NothingReturned
    <3>2. CASE "api" \notin roles
      BY <1>5, <3>2 DEF startRoles, NothingReturned
    <3>3. QED BY <3>1, <3>2
  <2>2. UNCHANGED <<pub, returnErr, basket, returned, blamed>>
    BY <1>5 DEF startRoles, answers, notes
  <2>3. QED BY <2>1, <2>2 DEF NothingReturned
<1>6. ASSUME NEW t \in Published, PassOn(t) PROVE NothingReturned'
  BY <1>6 DEF PassOn, NothingReturned
<1>7. ASSUME NEW t \in Published, Publish(t) PROVE NothingReturned'
  <2>1. /\ pub[t] # "idle" /\ (Reached(t) \/ CutOff(t))
        /\ \E l \in {"sent", "broken"} : Goes(t, l)
        /\ UNCHANGED <<shared, returnErr, bound, blamed>>
    BY <1>7 DEF Publish, Confirmed
  <2>2. QED BY <1>0, <2>1, UnderWay
<1>8. ASSUME NEW t \in Published, Retry(t) PROVE NothingReturned'
  <2>1. /\ pub[t] # "idle" /\ (Reached(t) \/ CutOff(t))
        /\ UNCHANGED <<shared, returnErr, bound, blamed>>
    BY <1>8 DEF Retry
  <2>2. QED BY <1>0, <2>1, UnderWay
<1>9. ASSUME NEW t \in Published, ReadReturn(t) PROVE NothingReturned'
  <2>1. /\ Answer(t, "ok") /\ UNCHANGED <<returnErr, blamed>>
        /\ UNCHANGED <<shared, amqp, returned>>
    BY <1>9 DEF ReadReturn, NothingReturned
  <2>2. pub' = [pub EXCEPT ![t] = "idle"]
    BY <2>1 DEF Answer
  <2>3. QED BY <1>0, <1>a, <2>1, <2>2 DEF amqp, NothingReturned, PublishTyped
<1>10. ASSUME NEW t \in Published, Connect(t) \/ Declare(t) PROVE NothingReturned'
  <2>1. /\ pub[t] # "idle" /\ \E l \in Labels : pub' = [pub EXCEPT ![t] = l]
        /\ UNCHANGED <<shared, returnErr, basket, returned, blamed>>
    BY <1>10 DEF Connect, Declare, Goes, Answer, Labels, amqp, notes
  <2>2. (bound' = bound) \/ bound'
    BY <1>10 DEF Connect, Declare, EnsureTopology, amqp
  <2>3. QED BY <1>0, <1>a, <2>1, <2>2 DEF NothingReturned, PublishTyped
<1>11. ASSUME NEW c \in Calls, Produce(c) PROVE NothingReturned'
  <2>1. prod /\ pub' = [pub EXCEPT ![c] = "begin"]
    BY <1>11 DEF Produce, Goes
  <2>2. QED
    BY <1>0, <1>a, <1>11, <2>1 DEF Produce, amqp, notes, NothingReturned, PublishTyped
<1>12. CASE publishPeriodic
  <2>1. PICK got \in BOOLEAN :
          /\ schedulerEnqueuer(got)
          /\ pub' = [pub EXCEPT ![Tick] = IF got THEN "begin" ELSE "idle"]
    BY <1>12 DEF publishPeriodic
  <2>2. /\ returned' = returned \ {Tick} /\ blamed' = blamed \ {Tick}
        /\ UNCHANGED <<prod, returnErr, basket>>
    BY <1>12 DEF publishPeriodic
  <2>3. /\ ready' => bound'
        /\ ready \/ got => ready'
    BY <2>1, AskedBound DEF NothingReturned
  <2>4. \A t \in Published : pub'[t] # "idle" => ready'
    BY <1>0, <2>1, <2>3 DEF PublishTyped, NothingReturned
  <2>5. QED BY <2>2, <2>3, <2>4 DEF NothingReturned
<1>13. CASE waitRoles
  <2>1. /\ ~ready' /\ ~prod' /\ returnErr' = <<>> /\ basket' = {}
        /\ pub' = [t \in Published |-> "idle"]
        /\ UNCHANGED <<returned, blamed>>
    BY <1>13 DEF waitRoles, notes
  <2>2. QED BY <2>1 DEF NothingReturned
<1>14. CASE UNCHANGED platformVars
  BY <1>14 DEF platformVars, shared, answers, amqp, notes, NothingReturned
<1>15. QED
  BY <1>1, <1>2, <1>3, <1>4, <1>5, <1>6, <1>7, <1>8, <1>9, <1>10, <1>11, <1>12,
     <1>13, <1>14
     DEF PlatformNext, Broker, Publisher, Lifecycle

\* As long as nobody deletes the queues the answers of the publisher are true,
\* through every outage of the broker and restart of the process: this is what
\* Resilient takes from its primary enqueuer (Deliver), proved of the one it
\* wraps (RabbitEnqueuer.publish, enqueuer.go).
THEOREM KeptQueuesKeepAnswersTrue ==
    PlatformSpec /\ [][~Unbind]_platformVars => []AnswersTrue
<1>1. PlatformInit => NothingReturned
  BY DEF PlatformInit, NothingReturned
<1>2. /\ PlatformInv /\ NothingReturned
      /\ [PlatformNext]_platformVars /\ [~Unbind]_platformVars
      => NothingReturned'
  BY ReturnStep
<1>3. PlatformInv /\ NothingReturned => AnswersTrue
  BY DEF PlatformInv, Holds, Cause, NothingReturned, AnswersTrue
<1>4. QED BY <1>1, <1>2, <1>3, PlatformInvariant, PTL DEF PlatformSpec
=============================================================================
