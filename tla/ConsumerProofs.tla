---------------------------- MODULE ConsumerProofs ----------------------------
(***************************************************************************)
(* Proofs about Consumer: whatever channels are lost, workers crash and    *)
(* retries are refused, a published task was handled or is still kept, and *)
(* only tasks with all retries behind them are given up.  Its copies never *)
(* outnumber the faults by more than one, and its retries end in time.     *)
(***************************************************************************)
EXTENDS Consumer, FiniteSetTheorems, TLAPS

\* A worker's empty hands, typed.
LEMMA BlankTypes == Blank \in Message /\ NoTag \in Ids /\ Blank.retries = 0
BY ConsumerAssumption DEF Blank, NoTag, Fresh, Message

\* A task as it is published, typed.
LEMMA FreshType ==
    ASSUME NEW t \in Tasks
    PROVE  Fresh(t) \in Message /\ Fresh(t).task = t /\ Fresh(t).retries = 0
BY DEF Fresh, Message

\* A move changes the message in hand only, and only on an open channel.
LEMMA MoveEffect ==
    ASSUME TypeOK, NEW w \in Workers, NEW to \in Places, Move(w, to)
    PROVE  /\ place' \in [Ids -> Places] /\ body' \in [Ids -> Message]
           /\ \A id \in Ids : (id # tag[w] \/ ~linked[w]) =>
                  place'[id] = place[id] /\ body'[id] = body[id]
           /\ linked[w] => place'[tag[w]] = to
           /\ linked[w] /\ to = "free" => body'[tag[w]] = Blank
           /\ linked[w] /\ to # "free" => body'[tag[w]] = held[w]
<1> USE BlankTypes DEF TypeOK
<1>1. tag[w] \in Ids /\ held[w] \in Message
  OBVIOUS
<1>2. CASE linked[w]
  <2> DEFINE m == IF to = "free" THEN Blank ELSE held[w]
  <2>1. m \in Message
    BY <1>1
  <2>2. place' = [place EXCEPT ![tag[w]] = to] /\ body' = [body EXCEPT ![tag[w]] = m]
    BY <1>2 DEF Move
  <2> HIDE DEF m
  <2>3. /\ place' \in [Ids -> Places] /\ body' \in [Ids -> Message]
        /\ \A id \in Ids : id # tag[w] => place'[id] = place[id] /\ body'[id] = body[id]
        /\ place'[tag[w]] = to /\ body'[tag[w]] = m
    BY <1>1, <2>1, <2>2
  <2>4. QED BY <1>2, <2>3 DEF m
<1>3. CASE ~linked[w]
  BY <1>3 DEF Move
<1>4. QED BY <1>2, <1>3

\* Storing a message takes a free copy.
LEMMA StoreEffect ==
    ASSUME TypeOK, NEW m \in Message, NEW at \in Places, Store(m, at)
    PROVE  /\ place' \in [Ids -> Places] /\ body' \in [Ids -> Message]
           /\ \E id \in Ids :
                  /\ place[id] = "free" /\ place'[id] = at /\ body'[id] = m
                  /\ \A o \in Ids \ {id} : place'[o] = place[o] /\ body'[o] = body[o]
<1>1. PICK id \in Ids :
           /\ place[id] = "free"
           /\ place' = [place EXCEPT ![id] = at]
           /\ body' = [body EXCEPT ![id] = m]
  BY DEF Store, Live
<1>2. place \in [Ids -> Places] /\ body \in [Ids -> Message]
  BY DEF TypeOK
<1>3. /\ place' \in [Ids -> Places] /\ body' \in [Ids -> Message]
      /\ place'[id] = at /\ body'[id] = m
      /\ \A o \in Ids \ {id} : place'[o] = place[o] /\ body'[o] = body[o]
  <2> HIDE DEF Message
  <2>1. QED BY <1>1, <1>2
<1>4. QED BY <1>1, <1>3

\* A channel that goes gives everything back to the queue.
LEMMA ReleaseEffect ==
    ASSUME TypeOK, NEW w \in Workers, Release(w)
    PROVE  /\ place' \in [Ids -> Places]
           /\ \A id \in Ids :
                  /\ place[id] = w => place'[id] = "queue"
                  /\ place[id] # w => place'[id] = place[id]
BY DEF Release, TypeOK, Places

\* What the worker keeps when handleDelivery ends.
LEMMA LeaveEffect ==
    ASSUME TypeOK, NEW w \in Workers, NEW label \in {"idle", "gone"}, Leave(w, label)
    PROVE  /\ pc' = [pc EXCEPT ![w] = label]
           /\ tag' \in [Workers -> Ids] /\ held' \in [Workers -> Message]
           /\ held'[w] = Blank
           /\ \A v \in Workers \ {w} : tag'[v] = tag[v] /\ held'[v] = held[v]
<1>1. NoTag \in Ids /\ Blank \in Message
  BY BlankTypes
<1>2. QED BY <1>1 DEF Leave, Goto, TypeOK

\* The handler's time is added to the age and to nothing else.
LEMMA AgedEffect ==
    ASSUME TypeOK, NEW w \in Workers, held' = [held EXCEPT ![w].age = @ + Timeout]
    PROVE  /\ held' \in [Workers -> Message]
           /\ \A v \in Workers : held'[v].task = held[v].task /\ held'[v].retries = held[v].retries
           /\ held'[w].age = held[w].age + Timeout
           /\ \A v \in Workers \ {w} : held'[v] = held[v]
<1>1. held[w] \in Message
  BY DEF TypeOK
<1>2. /\ [held[w] EXCEPT !.age = @ + Timeout] \in Message
      /\ [held[w] EXCEPT !.age = @ + Timeout].task = held[w].task
      /\ [held[w] EXCEPT !.age = @ + Timeout].retries = held[w].retries
      /\ [held[w] EXCEPT !.age = @ + Timeout].age = held[w].age + Timeout
  <2> DEFINE r == held[w]
  <2>1. /\ r.task \in Tasks /\ r.retries \in Nat /\ r.age + Timeout \in Nat
    BY <1>1, ConsumerAssumption DEF Message
  <2>2. [r EXCEPT !.age = @ + Timeout]
          = [task |-> r.task, retries |-> r.retries, age |-> r.age + Timeout]
    BY <1>1 DEF Message
  <2> HIDE DEF r
  <2>3. QED BY <2>1, <2>2 DEF Message, r
<1>3. held' = [held EXCEPT ![w] = [held[w] EXCEPT !.age = @ + Timeout]]
  OBVIOUS
<1> DEFINE m == [held[w] EXCEPT !.age = @ + Timeout]
<1>4. held \in [Workers -> Message]
  BY DEF TypeOK
<1> HIDE DEF m, Message
<1>5. held' = [held EXCEPT ![w] = m] /\ m \in Message
  BY <1>2, <1>3 DEF m
<1>6. /\ held' \in [Workers -> Message] /\ held'[w] = m
      /\ \A v \in Workers \ {w} : held'[v] = held[v]
  BY <1>4, <1>5
<1>7. /\ m.task = held[w].task /\ m.retries = held[w].retries
      /\ m.age = held[w].age + Timeout
  BY <1>2 DEF m
<1>8. QED BY <1>6, <1>7

\* What goes to the retry bucket.
LEMMA RetryMessage ==
    ASSUME TypeOK, NEW w \in Workers
    PROVE  /\ Retried(held[w]) \in Message
           /\ Retried(held[w]).task = held[w].task
           /\ Retried(held[w]).retries = held[w].retries + 1
           /\ Retried(held[w]).age = held[w].age + Buckets[Bucket(held[w].retries)]
<1>1. held[w].task \in Tasks /\ held[w].retries \in Nat /\ held[w].age \in Nat
  BY DEF TypeOK, Message
<1>2. Len(Buckets) \in Nat /\ Len(Buckets) >= 1 /\ Buckets \in [1 .. Len(Buckets) -> Nat]
  BY ConsumerAssumption
<1>3. Bucket(held[w].retries) \in 1 .. Len(Buckets)
  BY <1>1, <1>2 DEF Bucket, Min2
<1>4. Buckets[Bucket(held[w].retries)] \in Nat
  BY <1>2, <1>3
<1>5. QED BY <1>1, <1>4 DEF Retried, Message

-----------------------------------------------------------------------------
\* The invariant holds initially.
LEMMA InitInv == Init => ConsumerInv
<1> SUFFICES ASSUME Init PROVE ConsumerInv
  OBVIOUS
<1> USE BlankTypes, ConsumerAssumption DEF Init
<1>1. TypeOK
  <2>1. sent \subseteq Tasks /\ done \subseteq Tasks
    OBVIOUS
  <2>2. place \in [Ids -> Places]
    BY DEF Places
  <2>3. body \in [Ids -> Message] /\ \A id \in Ids : body[id].retries <= MaxRetry
    <3>1. /\ body = [id \in Ids |-> Blank] /\ Blank \in Message
          /\ Blank.retries = 0 /\ 0 <= MaxRetry
      OBVIOUS
    <3>2. \A id \in Ids : body[id] = Blank
      BY <3>1
    <3>3. \A id \in Ids : body[id] \in Message /\ body[id].retries <= MaxRetry
      BY <3>1, <3>2
    <3>4. body \in [Ids -> Message]
      BY <3>1
    <3>5. QED BY <3>3, <3>4
  <2>4. /\ pc \in [Workers -> {"idle", "run", "dead", "retry", "ack", "gone"}]
        /\ linked \in [Workers -> BOOLEAN]
    OBVIOUS
  <2>5. tag \in [Workers -> Ids] /\ held \in [Workers -> Message]
    OBVIOUS
  <2>6. faults \in 0 .. MaxFaults /\ declared \in BOOLEAN /\ dropped \subseteq Tasks
    OBVIOUS
  <2>7. QED BY <2>1, <2>2, <2>3, <2>4, <2>5, <2>6 DEF TypeOK
<1>2. InHand /\ Backed
  BY DEF InHand, Busy, Backed
<1>3. Counted
  BY DEF Counted
<1>4. NothingLost /\ DeadOnlyWhenExhausted
  BY DEF NothingLost, DeadOnlyWhenExhausted
<1>5. QED BY <1>1, <1>2, <1>3, <1>4 DEF ConsumerInv

\* Types, and that no message counts more than MaxRetry retries.
LEMMA TypeStep ==
    ASSUME ConsumerInv, [Next]_vars
    PROVE  TypeOK'
<1> USE DEF topologyVars
<1>1. TypeOK /\ InHand /\ Counted
  BY DEF ConsumerInv
<1>2. /\ sent \subseteq Tasks /\ done \subseteq Tasks
      /\ place \in [Ids -> Places] /\ body \in [Ids -> Message]
      /\ \A id \in Ids : body[id].retries <= MaxRetry
      /\ pc \in [Workers -> {"idle", "run", "dead", "retry", "ack", "gone"}]
      /\ linked \in [Workers -> BOOLEAN]
      /\ tag \in [Workers -> Ids] /\ held \in [Workers -> Message]
      /\ faults \in 0 .. MaxFaults
      /\ declared \in BOOLEAN /\ dropped \subseteq Tasks
  BY <1>1 DEF TypeOK
<1>3. /\ {"free", "queue", "wait", "dlq"} \subseteq Places
      /\ \A w \in Workers : w \in Places /\ held[w] \in Message /\ tag[w] \in Ids
      /\ \A w \in Workers : held[w].task \in Tasks /\ held[w].retries <= MaxRetry
  BY <1>1, <1>2 DEF Places, Message, Counted
<1>4. MaxRetry \in Nat /\ 0 <= MaxRetry /\ Blank \in Message /\ Blank.retries = 0
  BY ConsumerAssumption, BlankTypes
<1>5. ASSUME Fault PROVE faults' \in 0 .. MaxFaults
  BY <1>2, <1>5, ConsumerAssumption DEF Fault
<1>6. ASSUME NEW w \in Workers, NEW to \in Places, Move(w, to)
      PROVE  /\ place' \in [Ids -> Places] /\ body' \in [Ids -> Message]
             /\ \A id \in Ids : body'[id].retries <= MaxRetry
  <2>1. \A id \in Ids : \/ body'[id] = body[id]
                        \/ body'[id] = Blank
                        \/ body'[id] = held[w]
    BY <1>1, <1>6, MoveEffect
  <2>2. \A id \in Ids : body'[id].retries <= MaxRetry
    <3> HIDE DEF Message, Blank
    <3>1. QED BY <2>1, <1>2, <1>3, <1>4
  <2>3. QED BY <1>1, <1>6, <2>2, MoveEffect
<1>7. ASSUME NEW m \in Message, NEW at \in Places, Store(m, at), m.retries <= MaxRetry
      PROVE  /\ place' \in [Ids -> Places] /\ body' \in [Ids -> Message]
             /\ \A id \in Ids : body'[id].retries <= MaxRetry
  <2>1. \A id \in Ids : body'[id] = body[id] \/ body'[id] = m
    BY <1>1, <1>7, StoreEffect
  <2>2. QED BY <1>1, <1>2, <1>7, <2>1, StoreEffect
<1>10. ASSUME NEW t \in Tasks, Publish(t) PROVE TypeOK'
  <2>1. /\ place' \in [Ids -> Places] /\ body' \in [Ids -> Message]
        /\ \A id \in Ids : body'[id].retries <= MaxRetry
    BY <1>3, <1>4, <1>7, <1>10, FreshType DEF Publish
  <2>2. sent' \subseteq Tasks
    BY <1>2, <1>10 DEF Publish
  <2>3. QED BY <1>2, <1>10, <2>1, <2>2 DEF Publish, TypeOK, workerVars
<1>11. ASSUME NEW w \in Workers, Deliver(w) PROVE TypeOK'
  <2>1. place' \in [Ids -> Places]
    BY <1>2, <1>3, <1>11 DEF Deliver
  <2>2. QED BY <1>2, <1>11, <2>1 DEF Deliver, TypeOK, workerVars
<1>12. ASSUME NEW id \in Ids, Expire(id) PROVE TypeOK'
  <2>1. place' \in [Ids -> Places]
    BY <1>2, <1>3, <1>12 DEF Expire
  <2>2. QED BY <1>2, <1>12, <2>1 DEF Expire, TypeOK, workerVars
<1>13. ASSUME NEW w \in Workers, Take(w) PROVE TypeOK'
  <2>1. tag' \in [Workers -> Ids] /\ held' \in [Workers -> Message]
    <3> HIDE DEF Message
    <3>1. QED BY <1>2, <1>13 DEF Take, Held
  <2>2. QED BY <1>2, <1>13, <2>1 DEF Take, Goto, TypeOK, brokerVars
<1>14. ASSUME NEW w \in Workers, Reject(w) PROVE TypeOK'
  <2>1. Move(w, "dlq") /\ Leave(w, "idle")
    BY <1>14 DEF Reject, Rejected
  <2>2. tag' \in [Workers -> Ids] /\ held' \in [Workers -> Message] /\ pc' = [pc EXCEPT ![w] = "idle"]
    BY <1>1, <2>1, LeaveEffect
  <2>3. QED BY <1>2, <1>3, <1>6, <1>14, <2>1, <2>2 DEF Reject, TypeOK
<1>15. ASSUME NEW w \in Workers, Succeed(w) PROVE TypeOK'
  <2>1. held' \in [Workers -> Message]
    BY <1>1, <1>15, AgedEffect DEF Succeed
  <2>2. QED BY <1>2, <1>3, <1>15, <2>1 DEF Succeed, Goto, TypeOK, brokerVars
<1>16. ASSUME NEW w \in Workers, Fail(w) PROVE TypeOK'
  <2>1. held' \in [Workers -> Message]
    BY <1>1, <1>16, AgedEffect DEF Fail
  <2>2. QED BY <1>2, <1>16, <2>1 DEF Fail, Goto, TypeOK, brokerVars
<1>17. ASSUME NEW w \in Workers, DeadLetter(w) PROVE TypeOK'
  <2>1. Move(w, "dlq") /\ Leave(w, "idle")
    BY <1>17 DEF DeadLetter
  <2>2. tag' \in [Workers -> Ids] /\ held' \in [Workers -> Message] /\ pc' = [pc EXCEPT ![w] = "idle"]
    BY <1>1, <2>1, LeaveEffect
  <2>3. QED BY <1>2, <1>3, <1>6, <1>17, <2>1, <2>2 DEF DeadLetter, TypeOK
<1>18. ASSUME NEW w \in Workers, Republish(w) PROVE TypeOK'
  <2> DEFINE m == Retried(held[w])
  <2>1. m \in Message /\ m.retries = held[w].retries + 1
    BY <1>1, RetryMessage
  <2>2. held[w].retries < MaxRetry /\ held[w].retries \in Nat
    BY <1>1, <1>3, <1>18 DEF Counted, Republish, Message
  <2>3. m.retries <= MaxRetry
    BY <1>4, <2>1, <2>2
  <2> HIDE DEF m
  <2>4. CASE declared
    <3>1. Store(m, "wait") /\ UNCHANGED dropped
      BY <1>18, <2>4 DEF Republish, m
    <3>2. /\ place' \in [Ids -> Places] /\ body' \in [Ids -> Message]
          /\ \A id \in Ids : body'[id].retries <= MaxRetry
      BY <1>3, <1>7, <2>1, <2>3, <3>1
    <3>3. QED BY <1>2, <1>18, <3>1, <3>2 DEF Republish, Goto, TypeOK
  <2>5. CASE ~declared
    <3>1. UNCHANGED <<place, body>> /\ dropped' \subseteq Tasks
      BY <1>2, <1>3, <1>18, <2>5 DEF Republish
    <3>2. QED BY <1>2, <1>18, <3>1 DEF Republish, Goto, TypeOK
  <2>6. QED BY <2>4, <2>5
<1>19. ASSUME NEW w \in Workers, Refuse(w) PROVE TypeOK'
  <2>1. Move(w, "queue") /\ Leave(w, "idle")
    BY <1>19 DEF Refuse, BackToQueue
  <2>2. tag' \in [Workers -> Ids] /\ held' \in [Workers -> Message] /\ pc' = [pc EXCEPT ![w] = "idle"]
    BY <1>1, <2>1, LeaveEffect
  <2>3. faults' \in 0 .. MaxFaults
    BY <1>2, <1>5, <1>19 DEF Refuse
  <2>4. QED BY <1>2, <1>3, <1>6, <1>19, <2>1, <2>2, <2>3 DEF Refuse, TypeOK
<1>20. ASSUME NEW w \in Workers, Ack(w) PROVE TypeOK'
  <2>1. Move(w, "free") /\ Leave(w, "idle")
    BY <1>20 DEF Ack, Acked
  <2>2. tag' \in [Workers -> Ids] /\ held' \in [Workers -> Message] /\ pc' = [pc EXCEPT ![w] = "idle"]
    BY <1>1, <2>1, LeaveEffect
  <2>3. QED BY <1>2, <1>3, <1>6, <1>20, <2>1, <2>2 DEF Ack, TypeOK
<1>21. ASSUME NEW w \in Workers, Disconnect(w) PROVE TypeOK'
  <2>1. place' \in [Ids -> Places]
    BY <1>1, <1>21, ReleaseEffect DEF Disconnect
  <2>2. linked' \in [Workers -> BOOLEAN]
    BY <1>2, <1>21 DEF Disconnect
  <2>3. QED BY <1>2, <1>5, <1>21, <2>1, <2>2 DEF Disconnect, TypeOK
<1>22. ASSUME NEW w \in Workers, Quit(w) PROVE TypeOK'
  BY <1>2, <1>22 DEF Quit, Goto, TypeOK, brokerVars
<1>23. ASSUME NEW w \in Workers, Crash(w) PROVE TypeOK'
  <2>1. place' \in [Ids -> Places]
    BY <1>1, <1>23, ReleaseEffect DEF Crash
  <2>2. linked' \in [Workers -> BOOLEAN]
    BY <1>2, <1>23 DEF Crash
  <2>3. tag' \in [Workers -> Ids] /\ held' \in [Workers -> Message] /\ pc' = [pc EXCEPT ![w] = "gone"]
    BY <1>1, <1>23, LeaveEffect DEF Crash
  <2>4. QED BY <1>2, <1>5, <1>23, <2>1, <2>2, <2>3 DEF Crash, TypeOK
<1>24. ASSUME NEW w \in Workers, Restart(w) PROVE TypeOK'
  <2>1. linked' \in [Workers -> BOOLEAN]
    BY <1>2, <1>24 DEF Restart
  <2>2. QED BY <1>2, <1>24, <2>1 DEF Restart, Goto, TypeOK, brokerVars
<1>25. CASE DeleteBuckets
  <2>1. place' \in [Ids -> Places]
    BY <1>2, <1>3, <1>25 DEF DeleteBuckets
  <2>2. body' \in [Ids -> Message] /\ \A id \in Ids : body'[id].retries <= MaxRetry
    <3>1. \A id \in Ids : body'[id] = body[id] \/ body'[id] = Blank
      BY <1>25 DEF DeleteBuckets
    <3>2. body' = [id \in Ids |-> IF id \in Waiting THEN Blank ELSE body[id]]
      BY <1>25 DEF DeleteBuckets
    <3> HIDE DEF Message
    <3>3. body' \in [Ids -> Message]
      BY <1>2, <1>4, <3>2
    <3>4. QED BY <1>2, <1>4, <3>1, <3>3
  <2>3. \A id \in Ids : body[id].task \in Tasks
    BY <1>2 DEF Message
  <2>4. dropped' \subseteq Tasks
    BY <1>2, <1>25, <2>3 DEF DeleteBuckets, Waiting
  <2>5. faults' \in 0 .. MaxFaults /\ declared' \in BOOLEAN
    BY <1>5, <1>25 DEF DeleteBuckets
  <2>6. QED BY <1>2, <1>25, <2>1, <2>2, <2>4, <2>5 DEF DeleteBuckets, TypeOK, workerVars
<1>26. CASE Declare
  BY <1>2, <1>26 DEF Declare, TypeOK, brokerVars, workerVars
<1>27. CASE UNCHANGED vars
  BY <1>2, <1>27 DEF vars, TypeOK, brokerVars, workerVars
<1>28. QED
  BY <1>10, <1>11, <1>12, <1>13, <1>14, <1>15, <1>16, <1>17, <1>18, <1>19, <1>20,
     <1>21, <1>22, <1>23, <1>24, <1>25, <1>26, <1>27 DEF Next, Handle

\* The message in hand is the broker's, and counted as the worker thinks.
LEMMA HandStep ==
    ASSUME ConsumerInv, [Next]_vars
    PROVE  InHand' /\ Counted'
<1>1. TypeOK /\ InHand /\ Counted
  BY DEF ConsumerInv
<1>2. /\ place \in [Ids -> Places] /\ body \in [Ids -> Message]
      /\ \A id \in Ids : body[id].retries <= MaxRetry
      /\ pc \in [Workers -> {"idle", "run", "dead", "retry", "ack", "gone"}]
      /\ linked \in [Workers -> BOOLEAN]
      /\ tag \in [Workers -> Ids] /\ held \in [Workers -> Message]
  BY <1>1 DEF TypeOK
<1>3. /\ {"free", "queue", "wait", "dlq"} \subseteq Places
      /\ {"free", "queue", "wait", "dlq"} \cap Workers = {}
      /\ MaxRetry \in Nat
  BY ConsumerAssumption DEF Places
<1>4. Blank.retries = 0 /\ Blank.retries <= MaxRetry
  BY BlankTypes, <1>3
<1>5. \A w \in Workers : held[w].retries \in Nat /\ held[w].retries <= MaxRetry
  BY <1>1, <1>2 DEF Counted, Message
\* A worker that ends its message by moving it.
<1>6. ASSUME NEW w \in Workers, NEW to \in {"free", "queue", "wait", "dlq"},
             Move(w, to), Leave(w, "idle"), linked' = linked, Busy(w)
      PROVE  InHand' /\ Counted'
  <2>1. /\ pc' = [pc EXCEPT ![w] = "idle"] /\ held'[w] = Blank
        /\ \A v \in Workers \ {w} : tag'[v] = tag[v] /\ held'[v] = held[v]
    BY <1>1, <1>6, LeaveEffect
  <2>2. pc'[w] = "idle" /\ \A v \in Workers \ {w} : pc'[v] = pc[v]
    BY <1>2, <2>1
  <2>3. Counted'
    BY <1>1, <1>4, <2>1, <2>2 DEF Counted
  <2>4. ASSUME NEW v \in Workers, Busy(v)', linked'[v]
        PROVE  /\ place'[tag'[v]] = v
               /\ body'[tag'[v]].task = held'[v].task
               /\ body'[tag'[v]].retries = held'[v].retries
    <3>1. v # w /\ Busy(v) /\ linked[v]
      BY <1>6, <2>2, <2>4 DEF Busy
    <3>2. /\ place[tag[v]] = v /\ body[tag[v]].task = held[v].task
          /\ body[tag[v]].retries = held[v].retries
      BY <1>1, <3>1 DEF InHand
    <3>3. tag[v] # tag[w] \/ ~linked[w]
      BY <1>1, <1>6, <3>1, <3>2 DEF InHand
    <3>4. place'[tag[v]] = place[tag[v]] /\ body'[tag[v]] = body[tag[v]]
      BY <1>1, <1>2, <1>3, <1>6, <3>3, MoveEffect
    <3>5. QED BY <2>1, <3>1, <3>2, <3>4
  <2>5. QED BY <2>3, <2>4 DEF InHand
\* Messages not in the hands of a worker change, and no worker does.
<1>7. ASSUME UNCHANGED workerVars,
             \A id \in Ids : place[id] \in Workers => place'[id] = place[id] /\ body'[id] = body[id]
      PROVE  InHand' /\ Counted'
  BY <1>1, <1>2, <1>7 DEF InHand, Counted, Busy, workerVars
\* A worker goes on with the message it has.
<1>8. ASSUME NEW w \in Workers, Busy(w), UNCHANGED <<linked, tag>>,
             NEW label \in {"dead", "retry", "ack"}, Goto(w, label),
             \A v \in Workers : held'[v].task = held[v].task /\ held'[v].retries = held[v].retries,
             \A id \in Ids : place[id] \in Workers => place'[id] = place[id] /\ body'[id] = body[id],
             label = "retry" => held[w].retries < MaxRetry,
             label = "dead" => held[w].retries = MaxRetry
      PROVE  InHand' /\ Counted'
  <2>1. pc'[w] = label /\ \A v \in Workers \ {w} : pc'[v] = pc[v]
    BY <1>2, <1>8 DEF Goto
  <2>2. Counted'
    BY <1>1, <1>8, <2>1 DEF Counted
  <2>3. \A v \in Workers : Busy(v)' => Busy(v)
    BY <1>8, <2>1 DEF Busy
  <2>4. InHand'
    BY <1>1, <1>2, <1>8, <2>3 DEF InHand
  <2>5. QED BY <2>2, <2>4
\* A channel that goes takes the hand of its worker only.
<1>9. ASSUME NEW w \in Workers, Release(w), linked' = [linked EXCEPT ![w] = FALSE],
             body' = body,
             \A v \in Workers \ {w} : pc'[v] = pc[v] /\ tag'[v] = tag[v] /\ held'[v] = held[v]
      PROVE  InHand'
  <2>1. ASSUME NEW v \in Workers, Busy(v)', linked'[v]
        PROVE  /\ place'[tag'[v]] = v
               /\ body'[tag'[v]].task = held'[v].task
               /\ body'[tag'[v]].retries = held'[v].retries
    <3>1. v # w /\ linked[v]
      BY <1>2, <1>9, <2>1
    <3>2. Busy(v)
      BY <1>9, <2>1, <3>1 DEF Busy
    <3>3. /\ place[tag[v]] = v /\ body[tag[v]].task = held[v].task
          /\ body[tag[v]].retries = held[v].retries
      BY <1>1, <3>1, <3>2 DEF InHand
    <3>4. place'[tag[v]] = v
      BY <1>1, <1>2, <1>9, <3>1, <3>3, ReleaseEffect
    <3>5. QED BY <1>9, <3>1, <3>3, <3>4
  <2>2. QED BY <2>1 DEF InHand
<1>10. ASSUME NEW t \in Tasks, Publish(t) PROVE InHand' /\ Counted'
  <2>1. Store(Fresh(t), "queue") /\ UNCHANGED workerVars
    BY <1>10 DEF Publish
  <2>2. \A id \in Ids : place[id] \in Workers => place'[id] = place[id] /\ body'[id] = body[id]
    BY <1>1, <1>3, <2>1, FreshType, StoreEffect
  <2>3. QED BY <1>7, <2>1, <2>2
<1>11. ASSUME NEW w \in Workers, Deliver(w) PROVE InHand' /\ Counted'
  <2>1. \A id \in Ids : place[id] \in Workers => place'[id] = place[id] /\ body'[id] = body[id]
    BY <1>2, <1>3, <1>11 DEF Deliver
  <2>2. QED BY <1>7, <1>11, <2>1 DEF Deliver
<1>12. ASSUME NEW id \in Ids, Expire(id) PROVE InHand' /\ Counted'
  <2>1. \A o \in Ids : place[o] \in Workers => place'[o] = place[o] /\ body'[o] = body[o]
    BY <1>2, <1>3, <1>12 DEF Expire
  <2>2. QED BY <1>7, <1>12, <2>1 DEF Expire
<1>13. ASSUME NEW w \in Workers, Take(w) PROVE InHand' /\ Counted'
  <2>1. PICK id \in Ids : /\ place[id] = w
                          /\ tag' = [tag EXCEPT ![w] = id]
                          /\ held' = [held EXCEPT ![w] = body[id]]
    BY <1>13 DEF Take, Held
  <2>2. /\ pc' = [pc EXCEPT ![w] = "run"]
        /\ UNCHANGED <<place, body, linked>>
    BY <1>13 DEF Take, Goto, brokerVars
  <2>3. /\ tag'[w] = id /\ held'[w] = body[id] /\ pc'[w] = "run"
        /\ \A v \in Workers \ {w} : tag'[v] = tag[v] /\ held'[v] = held[v] /\ pc'[v] = pc[v]
    BY <1>2, <2>1, <2>2
  <2>4. Counted'
    BY <1>1, <1>2, <2>3 DEF Counted
  <2>5. InHand'
    BY <1>1, <2>1, <2>2, <2>3 DEF InHand, Busy
  <2>6. QED BY <2>4, <2>5
<1>14. ASSUME NEW w \in Workers, Reject(w) PROVE InHand' /\ Counted'
  BY <1>6, <1>14 DEF Reject, Rejected, Busy
<1>15. ASSUME NEW w \in Workers, Succeed(w) PROVE InHand' /\ Counted'
  <2>1. \A v \in Workers : held'[v].task = held[v].task /\ held'[v].retries = held[v].retries
    BY <1>1, <1>15, AgedEffect DEF Succeed
  <2>2. Busy(w) /\ Goto(w, "ack") /\ UNCHANGED <<linked, tag, place, body>>
    BY <1>15 DEF Succeed, Busy, brokerVars
  <2>3. QED BY <1>8, <2>1, <2>2
<1>16. ASSUME NEW w \in Workers, Fail(w) PROVE InHand' /\ Counted'
  <2>1. \A v \in Workers : held'[v].task = held[v].task /\ held'[v].retries = held[v].retries
    BY <1>1, <1>16, AgedEffect DEF Fail
  <2>2. Busy(w) /\ UNCHANGED <<linked, tag, place, body>>
    BY <1>16 DEF Fail, Busy, brokerVars
  <2>3. CASE Exhausted(held[w].retries)
    <3>1. held[w].retries = MaxRetry /\ Goto(w, "dead")
      BY <1>3, <1>5, <1>16, <2>3 DEF Exhausted, Fail
    <3>2. QED BY <1>8, <2>1, <2>2, <3>1
  <2>4. CASE ~Exhausted(held[w].retries)
    <3>1. held[w].retries < MaxRetry /\ Goto(w, "retry")
      BY <1>3, <1>5, <1>16, <2>4 DEF Exhausted, Fail
    <3>2. QED BY <1>8, <2>1, <2>2, <3>1
  <2>5. QED BY <2>3, <2>4
<1>17. ASSUME NEW w \in Workers, DeadLetter(w) PROVE InHand' /\ Counted'
  BY <1>6, <1>17 DEF DeadLetter, Busy
<1>18. ASSUME NEW w \in Workers, Republish(w) PROVE InHand' /\ Counted'
  <2>1. Retried(held[w]) \in Message
    BY <1>1, RetryMessage
  <2>2. \A id \in Ids : place[id] \in Workers => place'[id] = place[id] /\ body'[id] = body[id]
    <3>1. CASE Store(Retried(held[w]), "wait")
      BY <1>1, <1>3, <2>1, <3>1, StoreEffect
    <3>2. CASE UNCHANGED <<place, body>>
      BY <3>2
    <3>3. QED BY <1>18, <3>1, <3>2 DEF Republish
  <2>3. Busy(w) /\ Goto(w, "ack") /\ UNCHANGED <<linked, tag, held>>
    BY <1>18 DEF Republish, Busy
  <2>4. QED BY <1>8, <2>2, <2>3
<1>19. ASSUME NEW w \in Workers, Refuse(w) PROVE InHand' /\ Counted'
  BY <1>6, <1>19 DEF Refuse, BackToQueue, Busy
<1>20. ASSUME NEW w \in Workers, Ack(w) PROVE InHand' /\ Counted'
  BY <1>6, <1>20 DEF Ack, Acked, Busy
<1>21. ASSUME NEW w \in Workers, Disconnect(w) PROVE InHand' /\ Counted'
  <2>1. Counted'
    BY <1>1, <1>21 DEF Disconnect, Counted
  <2>2. QED BY <1>9, <1>21, <2>1 DEF Disconnect
<1>22. ASSUME NEW w \in Workers, Quit(w) PROVE InHand' /\ Counted'
  BY <1>1, <1>2, <1>22 DEF Quit, Goto, InHand, Counted, Busy, brokerVars
<1>23. ASSUME NEW w \in Workers, Crash(w) PROVE InHand' /\ Counted'
  <2>1. /\ pc' = [pc EXCEPT ![w] = "gone"] /\ held'[w] = Blank
        /\ \A v \in Workers \ {w} : tag'[v] = tag[v] /\ held'[v] = held[v]
    BY <1>1, <1>23, LeaveEffect DEF Crash
  <2>2. pc'[w] = "gone" /\ \A v \in Workers \ {w} : pc'[v] = pc[v]
    BY <1>2, <2>1
  <2>3. Counted'
    BY <1>1, <1>4, <2>1, <2>2 DEF Counted
  <2>4. QED BY <1>9, <1>23, <2>1, <2>2, <2>3 DEF Crash
<1>24. ASSUME NEW w \in Workers, Restart(w) PROVE InHand' /\ Counted'
  BY <1>1, <1>2, <1>24 DEF Restart, Goto, InHand, Counted, Busy, brokerVars
<1>25. CASE DeleteBuckets
  <2>1. \A id \in Ids : place[id] \in Workers => place'[id] = place[id] /\ body'[id] = body[id]
    BY <1>3, <1>25 DEF DeleteBuckets, Waiting
  <2>2. QED BY <1>7, <1>25, <2>1 DEF DeleteBuckets
<1>26. CASE Declare
  BY <1>7, <1>26 DEF Declare, brokerVars
<1>27. CASE UNCHANGED vars
  BY <1>1, <1>27 DEF vars, InHand, Counted, Busy, brokerVars, workerVars
<1>28. QED
  BY <1>10, <1>11, <1>12, <1>13, <1>14, <1>15, <1>16, <1>17, <1>18, <1>19, <1>20,
     <1>21, <1>22, <1>23, <1>24, <1>25, <1>26, <1>27 DEF Next, Handle

\* Whatever is acked was handled or is kept as a later retry.
LEMMA KeptStep ==
    ASSUME ConsumerInv, [Next]_vars
    PROVE  Backed' /\ NothingLost'
<1> DEFINE Keeps == \A id \in Ids :
        Live(id) => /\ Live(id)'
                    /\ body'[id].task = body[id].task
                    /\ body'[id].retries = body[id].retries
<1> USE DEF topologyVars
<1>1. TypeOK /\ InHand /\ Counted /\ Backed /\ NothingLost
  BY DEF ConsumerInv
<1>2. /\ place \in [Ids -> Places] /\ body \in [Ids -> Message]
      /\ pc \in [Workers -> {"idle", "run", "dead", "retry", "ack", "gone"}]
      /\ tag \in [Workers -> Ids] /\ held \in [Workers -> Message]
      /\ \A w \in Workers : held[w].retries \in Nat
  BY <1>1 DEF TypeOK, Message
<1>3. /\ {"free", "queue", "wait", "dlq"} \subseteq Places
      /\ "free" \notin Workers
  BY ConsumerAssumption DEF Places
<1>4. ASSUME Keeps, done \cup dropped \subseteq (done \cup dropped)',
             \A v \in Workers : pc'[v] = "ack" => pc[v] = "ack" /\ held'[v] = held[v]
      PROVE  Backed'
  BY <1>1, <1>4 DEF Backed, Copies
<1>5. ASSUME Keeps, done \cup dropped \subseteq (done \cup dropped)', sent' = sent
      PROVE  NothingLost'
  BY <1>1, <1>5 DEF NothingLost, Copies
<1>6. ASSUME NEW w \in Workers, NEW to \in {"queue", "dlq"}, Move(w, to), Busy(w)
      PROVE  Keeps
  <2>1. linked[w] => /\ body[tag[w]].task = held[w].task
                     /\ body[tag[w]].retries = held[w].retries
    BY <1>1, <1>6 DEF InHand
  <2>2. QED BY <1>1, <1>2, <1>3, <1>6, <2>1, MoveEffect DEF Live
<1>7. ASSUME NEW m \in Message, NEW at \in Places, Store(m, at)
      PROVE  Keeps
  BY <1>1, <1>7, StoreEffect DEF Live
<1>8. ASSUME NEW w \in Workers, Release(w), body' = body
      PROVE  Keeps
  BY <1>1, <1>3, <1>8, ReleaseEffect DEF Live
<1>9. ASSUME NEW w \in Workers, NEW label \in {"idle", "gone"}, Leave(w, label)
      PROVE  \A v \in Workers : pc'[v] = "ack" => pc[v] = "ack" /\ held'[v] = held[v]
  <2>1. pc'[w] = label /\ \A v \in Workers \ {w} : pc'[v] = pc[v] /\ held'[v] = held[v]
    BY <1>1, <1>2, <1>9, LeaveEffect
  <2>2. QED BY <2>1
<1>10. ASSUME NEW t \in Tasks, Publish(t) PROVE Backed' /\ NothingLost'
  <2>1. Store(Fresh(t), "queue") /\ UNCHANGED <<pc, held, done, dropped>> /\ sent' = sent \cup {t}
    BY <1>10 DEF Publish, workerVars
  <2>2. Keeps
    BY <1>3, <1>7, <2>1, FreshType
  <2>3. Backed'
    BY <1>4, <2>1, <2>2
  <2>4. PICK id \in Ids : place'[id] = "queue" /\ body'[id] = Fresh(t)
    BY <1>1, <1>3, <2>1, FreshType, StoreEffect
  <2>5. Copies(t)' # {}
    BY <2>4, FreshType DEF Copies, Live
  <2>6. \A u \in sent \ (done \cup dropped) : Copies(u)' # {}
    BY <1>1, <2>2 DEF NothingLost, Copies
  <2>7. QED BY <2>1, <2>3, <2>5, <2>6 DEF NothingLost
<1>11. ASSUME NEW w \in Workers, Deliver(w) PROVE Backed' /\ NothingLost'
  <2>1. Keeps
    BY <1>2, <1>3, <1>11 DEF Deliver, Live
  <2>2. QED BY <1>4, <1>5, <1>11, <2>1 DEF Deliver, workerVars
<1>12. ASSUME NEW id \in Ids, Expire(id) PROVE Backed' /\ NothingLost'
  <2>1. Keeps
    BY <1>2, <1>3, <1>12 DEF Expire, Live
  <2>2. QED BY <1>4, <1>5, <1>12, <2>1 DEF Expire, workerVars
<1>13. ASSUME NEW w \in Workers, Take(w) PROVE Backed' /\ NothingLost'
  <2>1. Keeps
    BY <1>13 DEF Take, brokerVars, Live
  <2>2. \A v \in Workers : pc'[v] = "ack" => pc[v] = "ack" /\ held'[v] = held[v]
    <3>1. PICK id \in Held(w) : held' = [held EXCEPT ![w] = body[id]]
      BY <1>13 DEF Take
    <3>2. pc'[w] = "run" /\ \A v \in Workers \ {w} : pc'[v] = pc[v] /\ held'[v] = held[v]
      BY <1>2, <1>13, <3>1 DEF Take, Goto
    <3>3. QED BY <3>2
  <2>3. QED BY <1>4, <1>5, <1>13, <2>1, <2>2 DEF Take, brokerVars
<1>14. ASSUME NEW w \in Workers, Reject(w) PROVE Backed' /\ NothingLost'
  <2>1. Keeps
    BY <1>6, <1>14 DEF Reject, Rejected, Busy
  <2>2. QED BY <1>4, <1>5, <1>9, <1>14, <2>1 DEF Reject
<1>15. ASSUME NEW w \in Workers, Succeed(w) PROVE Backed' /\ NothingLost'
  <2>1. Keeps /\ done' = done \cup {held[w].task} /\ UNCHANGED <<sent, dropped>>
    BY <1>15 DEF Succeed, brokerVars, Live
  <2>2. \A v \in Workers : held'[v].task = held[v].task /\ held'[v].retries = held[v].retries
    BY <1>1, <1>15, AgedEffect DEF Succeed
  <2>3. \A v \in Workers \ {w} : pc'[v] = pc[v]
    BY <1>2, <1>15 DEF Succeed, Goto
  <2>4. Backed'
    BY <1>1, <2>1, <2>2, <2>3 DEF Backed, Copies
  <2>5. QED BY <1>5, <2>1, <2>4
<1>16. ASSUME NEW w \in Workers, Fail(w) PROVE Backed' /\ NothingLost'
  <2>1. Keeps /\ UNCHANGED <<done, sent, dropped>>
    BY <1>16 DEF Fail, brokerVars, Live
  <2>2. \A v \in Workers : held'[v].task = held[v].task /\ held'[v].retries = held[v].retries
    BY <1>1, <1>16, AgedEffect DEF Fail
  <2>3. \A v \in Workers : pc'[v] = "ack" => pc[v] = "ack"
    BY <1>2, <1>16 DEF Fail, Goto
  <2>4. Backed'
    BY <1>1, <2>1, <2>2, <2>3 DEF Backed, Copies
  <2>5. QED BY <1>5, <2>1, <2>4
<1>17. ASSUME NEW w \in Workers, DeadLetter(w) PROVE Backed' /\ NothingLost'
  <2>1. Keeps
    BY <1>6, <1>17 DEF DeadLetter, Busy
  <2>2. QED BY <1>4, <1>5, <1>9, <1>17, <2>1 DEF DeadLetter
<1>18. ASSUME NEW w \in Workers, Republish(w) PROVE Backed' /\ NothingLost'
  <2> DEFINE m == Retried(held[w])
  <2>1. m \in Message /\ m.task = held[w].task /\ m.retries = held[w].retries + 1
    BY <1>1, RetryMessage
  <2>2. pc' = [pc EXCEPT ![w] = "ack"] /\ UNCHANGED <<held, done, sent>>
    BY <1>18 DEF Republish, Goto
  <2> HIDE DEF m
  <2>3. Keeps /\ dropped \subseteq dropped'
    <3>1. CASE Store(m, "wait") /\ UNCHANGED dropped
      BY <1>3, <1>7, <2>1, <3>1
    <3>2. CASE UNCHANGED <<place, body>> /\ dropped' = dropped \cup {held[w].task}
      BY <3>2 DEF Live
    <3>3. QED BY <1>18, <3>1, <3>2 DEF Republish, m
  <2>4. \/ held[w].task \in dropped'
        \/ \E o \in Ids : /\ Live(o)' /\ body'[o].task = held[w].task
                          /\ body'[o].retries > held[w].retries
    <3>1. CASE Store(m, "wait")
      <4>1. PICK id \in Ids : place'[id] = "wait" /\ body'[id] = m
        BY <1>1, <1>3, <2>1, <3>1, StoreEffect
      <4>2. Live(id)' /\ body'[id].task = held[w].task
        BY <2>1, <4>1 DEF Live
      <4>3. body'[id].retries > held[w].retries
        BY <1>2, <2>1, <4>1
      <4>4. QED BY <4>2, <4>3
    <3>2. CASE dropped' = dropped \cup {held[w].task}
      BY <3>2
    <3>3. QED BY <1>18, <3>1, <3>2 DEF Republish, m
  <2>5. \A v \in Workers \ {w} : pc'[v] = pc[v]
    BY <1>2, <2>2
  <2>6. ASSUME NEW v \in Workers, pc'[v] = "ack"
        PROVE  \/ held[v].task \in done \cup dropped'
               \/ \E o \in Ids : /\ Live(o)' /\ body'[o].task = held[v].task
                                 /\ body'[o].retries > held[v].retries
    <3>1. CASE v = w
      BY <2>4, <3>1
    <3>2. CASE v # w
      <4>1. pc[v] = "ack"
        BY <2>5, <2>6, <3>2
      <4>2. \/ held[v].task \in done \cup dropped
            \/ \E o \in Ids : /\ Live(o) /\ body[o].task = held[v].task
                              /\ body[o].retries > held[v].retries
        BY <1>1, <4>1 DEF Backed, Copies
      <4>3. QED BY <2>3, <4>2
    <3>3. QED BY <3>1, <3>2
  <2>7. Backed'
    BY <2>2, <2>6 DEF Backed, Copies, Live
  <2>8. QED BY <1>5, <2>2, <2>3, <2>7
<1>19. ASSUME NEW w \in Workers, Refuse(w) PROVE Backed' /\ NothingLost'
  <2>1. Keeps
    BY <1>6, <1>19 DEF Refuse, BackToQueue, Busy
  <2>2. QED BY <1>4, <1>5, <1>9, <1>19, <2>1 DEF Refuse
<1>20. ASSUME NEW w \in Workers, Ack(w) PROVE Backed' /\ NothingLost'
  <2>1. Move(w, "free") /\ Leave(w, "idle") /\ UNCHANGED <<sent, done, dropped>> /\ pc[w] = "ack"
    BY <1>20 DEF Ack, Acked
  <2>2. \A id \in Ids : (id # tag[w] \/ ~linked[w]) => place'[id] = place[id] /\ body'[id] = body[id]
    BY <1>1, <1>3, <2>1, MoveEffect
  <2>3. linked[w] => /\ body[tag[w]].task = held[w].task
                     /\ body[tag[w]].retries = held[w].retries
    BY <1>1, <2>1 DEF InHand, Busy
  <2>4. \A v \in Workers : pc'[v] = "ack" => pc[v] = "ack" /\ held'[v] = held[v]
    BY <1>9, <2>1
  <2>5. PICK keep : keep = {id \in Ids : Live(id) /\ ~(linked[w] /\ id = tag[w])}
    OBVIOUS
  <2>6. \A id \in keep : Live(id)' /\ body'[id] = body[id]
    BY <2>2, <2>5 DEF Live
  <2>7. \/ held[w].task \in done \cup dropped
        \/ \E id \in keep : body[id].task = held[w].task /\ body[id].retries > held[w].retries
    <3>1. CASE held[w].task \in done \cup dropped
      BY <3>1
    <3>2. CASE held[w].task \notin done \cup dropped
      <4>1. PICK id \in Copies(held[w].task) : body[id].retries > held[w].retries
        BY <1>1, <2>1, <3>2 DEF Backed
      <4>2. ~(linked[w] /\ id = tag[w])
        BY <1>2, <2>3, <4>1
      <4>3. QED BY <2>5, <4>1, <4>2 DEF Copies
    <3>3. QED BY <3>1, <3>2
  <2>8. ASSUME NEW t, t \notin done \cup dropped, NEW n \in Nat,
               \E id \in Copies(t) : body[id].retries > n
        PROVE  \E id \in Copies(t)' : body'[id].retries > n
    <3>1. PICK id \in Copies(t) : body[id].retries > n
      BY <2>8
    <3>2. id \in Ids /\ Live(id) /\ body[id].task = t /\ body[id].retries \in Nat
      BY <1>2, <3>1 DEF Copies, Message
    <3>3. CASE id \in keep
      <4>1. Live(id)' /\ body'[id] = body[id]
        BY <2>6, <3>3
      <4>2. id \in Copies(t)' /\ body'[id].retries > n
        BY <3>1, <3>2, <4>1 DEF Copies, Live
      <4>3. QED BY <4>2
    <3>4. CASE id \notin keep
      <4>1. linked[w] /\ id = tag[w]
        BY <2>5, <3>2, <3>4
      <4>2. t = held[w].task /\ held[w].retries > n
        BY <2>3, <3>1, <3>2, <4>1
      <4>3. PICK o \in keep : body[o].task = t /\ body[o].retries > held[w].retries
        BY <2>7, <2>8, <4>2
      <4>4. body[o].retries \in Nat /\ o \in Ids
        BY <1>2, <2>5, <4>3 DEF Message
      <4>5. body'[o].retries > n
        BY <1>2, <2>6, <4>2, <4>3, <4>4
      <4>6. o \in Copies(t)'
        <5>1. Live(o)' /\ body'[o].task = t
          BY <2>6, <4>3
        <5>2. QED BY <4>4, <5>1 DEF Copies, Live
      <4>7. QED BY <4>5, <4>6
    <3>5. QED BY <3>3, <3>4
  <2>9. Backed'
    BY <1>1, <1>2, <2>1, <2>4, <2>8 DEF Backed
  <2>10. ASSUME NEW t \in sent \ (done \cup dropped) PROVE Copies(t)' # {}
    <3>1. PICK id \in Copies(t) : TRUE
      BY <1>1, <2>10 DEF NothingLost
    <3>2. id \in Ids /\ Live(id) /\ body[id].task = t
      BY <3>1 DEF Copies
    <3>3. CASE id \in keep
      <4>1. Live(id)' /\ body'[id] = body[id]
        BY <2>6, <3>3
      <4>2. QED BY <3>2, <4>1 DEF Copies, Live
    <3>4. CASE id \notin keep
      <4>1. linked[w] /\ id = tag[w]
        BY <2>5, <3>2, <3>4
      <4>2. PICK o \in keep : body[o].task = t
        BY <2>3, <2>7, <2>10, <3>2, <4>1
      <4>3. o \in Ids /\ Live(o)' /\ body'[o].task = t
        BY <2>5, <2>6, <4>2
      <4>4. QED BY <4>3 DEF Copies, Live
    <3>5. QED BY <3>3, <3>4
  <2>11. NothingLost'
    BY <2>1, <2>10 DEF NothingLost
  <2>12. QED BY <2>9, <2>11
<1>21. ASSUME NEW w \in Workers, Disconnect(w) PROVE Backed' /\ NothingLost'
  <2>1. Keeps
    BY <1>8, <1>21 DEF Disconnect
  <2>2. QED BY <1>4, <1>5, <1>21, <2>1 DEF Disconnect
<1>22. ASSUME NEW w \in Workers, Quit(w) PROVE Backed' /\ NothingLost'
  <2>1. Keeps
    BY <1>22 DEF Quit, brokerVars, Live
  <2>2. \A v \in Workers : pc'[v] = "ack" => pc[v] = "ack" /\ held'[v] = held[v]
    BY <1>2, <1>22 DEF Quit, Goto
  <2>3. QED BY <1>4, <1>5, <1>22, <2>1, <2>2 DEF Quit, brokerVars
<1>23. ASSUME NEW w \in Workers, Crash(w) PROVE Backed' /\ NothingLost'
  <2>1. Keeps
    BY <1>8, <1>23 DEF Crash
  <2>2. QED BY <1>4, <1>5, <1>9, <1>23, <2>1 DEF Crash
<1>24. ASSUME NEW w \in Workers, Restart(w) PROVE Backed' /\ NothingLost'
  <2>1. Keeps
    BY <1>24 DEF Restart, brokerVars, Live
  <2>2. \A v \in Workers : pc'[v] = "ack" => pc[v] = "ack" /\ held'[v] = held[v]
    BY <1>2, <1>24 DEF Restart, Goto
  <2>3. QED BY <1>4, <1>5, <1>24, <2>1, <2>2 DEF Restart, brokerVars
<1>25. CASE DeleteBuckets
  <2>1. /\ UNCHANGED <<sent, done, pc, held>>
        /\ dropped' = dropped \cup {body[id].task : id \in Waiting}
        /\ \A id \in Ids \ Waiting : place'[id] = place[id] /\ body'[id] = body[id]
    BY <1>25 DEF DeleteBuckets, workerVars
  <2>2. ASSUME NEW t, t \notin dropped', NEW id \in Copies(t)
        PROVE  id \in Copies(t)' /\ body'[id] = body[id]
    <3>1. id \in Ids /\ Live(id) /\ body[id].task = t
      BY <2>2 DEF Copies
    <3>2. id \notin Waiting
      BY <2>1, <2>2, <3>1
    <3>3. Live(id)' /\ body'[id] = body[id]
      BY <2>1, <3>1, <3>2 DEF Live
    <3>4. QED BY <3>1, <3>3 DEF Copies, Live
  <2>3. Backed'
    BY <1>1, <2>1, <2>2 DEF Backed
  <2>4. NothingLost'
    BY <1>1, <2>1, <2>2 DEF NothingLost
  <2>5. QED BY <2>3, <2>4
<1>26. CASE Declare
  <2>1. Keeps
    BY <1>26 DEF Declare, brokerVars, Live
  <2>2. QED BY <1>4, <1>5, <1>26, <2>1 DEF Declare, brokerVars, workerVars
<1>27. CASE UNCHANGED vars
  <2>1. Keeps
    BY <1>27 DEF vars, brokerVars, Live
  <2>2. QED BY <1>4, <1>5, <1>27, <2>1 DEF vars, brokerVars, workerVars
<1>28. QED
  BY <1>10, <1>11, <1>12, <1>13, <1>14, <1>15, <1>16, <1>17, <1>18, <1>19, <1>20,
     <1>21, <1>22, <1>23, <1>24, <1>25, <1>26, <1>27 DEF Next, Handle

\* Only the two Nacks without requeue fill the dead-letter queue.
LEMMA DeadStep ==
    ASSUME ConsumerInv, [Next]_vars
    PROVE  DeadOnlyWhenExhausted'
<1> DEFINE Final(m) == m.task \in Unhandled \/ m.retries = MaxRetry
<1>1. TypeOK /\ InHand /\ Counted /\ DeadOnlyWhenExhausted
  BY DEF ConsumerInv
<1>2. {"free", "queue", "wait", "dlq"} \subseteq Places /\ "dlq" \notin Workers
  BY ConsumerAssumption DEF Places
<1>3. \A id \in Ids : place[id] = "dlq" => Final(body[id])
  BY <1>1 DEF DeadOnlyWhenExhausted
<1>4. ASSUME \A id \in Ids : place'[id] = "dlq" =>
                 \/ place[id] = "dlq" /\ body'[id] = body[id]
                 \/ Final(body'[id])
      PROVE  DeadOnlyWhenExhausted'
  BY <1>3, <1>4 DEF DeadOnlyWhenExhausted
<1>5. ASSUME NEW w \in Workers, NEW to \in {"free", "queue", "dlq"}, Move(w, to),
             to = "dlq" => Final(held[w])
      PROVE  DeadOnlyWhenExhausted'
  BY <1>1, <1>2, <1>4, <1>5, MoveEffect
<1>6. ASSUME NEW m \in Message, NEW at \in {"queue", "wait"}, Store(m, at)
      PROVE  DeadOnlyWhenExhausted'
  BY <1>1, <1>2, <1>4, <1>6, StoreEffect
<1>7. ASSUME NEW w \in Workers, Release(w), body' = body
      PROVE  DeadOnlyWhenExhausted'
  BY <1>1, <1>2, <1>4, <1>7, ReleaseEffect
<1>10. ASSUME NEW t \in Tasks, Publish(t) PROVE DeadOnlyWhenExhausted'
  BY <1>6, <1>10, FreshType DEF Publish
<1>11. ASSUME NEW w \in Workers, Deliver(w) PROVE DeadOnlyWhenExhausted'
  BY <1>1, <1>2, <1>4, <1>11 DEF Deliver, TypeOK
<1>12. ASSUME NEW id \in Ids, Expire(id) PROVE DeadOnlyWhenExhausted'
  BY <1>1, <1>2, <1>4, <1>12 DEF Expire, TypeOK
<1>13. ASSUME NEW w \in Workers, Take(w) \/ Succeed(w) \/ Fail(w) \/ Quit(w) \/ Restart(w)
       PROVE  DeadOnlyWhenExhausted'
  BY <1>4, <1>13 DEF Take, Succeed, Fail, Quit, Restart, brokerVars
<1>14. ASSUME NEW w \in Workers, Reject(w) PROVE DeadOnlyWhenExhausted'
  BY <1>5, <1>14 DEF Reject, Rejected
<1>15. ASSUME NEW w \in Workers, DeadLetter(w) PROVE DeadOnlyWhenExhausted'
  BY <1>1, <1>5, <1>15 DEF DeadLetter, Counted
<1>16. ASSUME NEW w \in Workers, Republish(w) PROVE DeadOnlyWhenExhausted'
  <2>1. CASE Store(Retried(held[w]), "wait")
    BY <1>1, <1>6, <2>1, RetryMessage
  <2>2. CASE UNCHANGED <<place, body>>
    BY <1>4, <2>2
  <2>3. QED BY <1>16, <2>1, <2>2 DEF Republish
<1>17. ASSUME NEW w \in Workers, Refuse(w) PROVE DeadOnlyWhenExhausted'
  BY <1>5, <1>17 DEF Refuse, BackToQueue
<1>18. ASSUME NEW w \in Workers, Ack(w) PROVE DeadOnlyWhenExhausted'
  BY <1>5, <1>18 DEF Ack, Acked
<1>19. ASSUME NEW w \in Workers, Disconnect(w) PROVE DeadOnlyWhenExhausted'
  BY <1>7, <1>19 DEF Disconnect
<1>20. ASSUME NEW w \in Workers, Crash(w) PROVE DeadOnlyWhenExhausted'
  BY <1>7, <1>20 DEF Crash
<1>21. CASE DeleteBuckets
  BY <1>2, <1>4, <1>21 DEF DeleteBuckets, Waiting
<1>22. CASE Declare
  BY <1>4, <1>22 DEF Declare, brokerVars
<1>23. CASE UNCHANGED vars
  BY <1>4, <1>23 DEF vars, brokerVars
<1>24. QED
  BY <1>10, <1>11, <1>12, <1>13, <1>14, <1>15, <1>16, <1>17, <1>18, <1>19, <1>20, <1>21,
     <1>22, <1>23
  DEF Next, Handle

-----------------------------------------------------------------------------
(***************************************************************************)
(* The theorems.                                                           *)
(***************************************************************************)
\* The invariant: what a worker handles is what the broker keeps for it, and an
\* ack is backed by the handler's success or by a later retry.
THEOREM ConsumerInvariant == Spec => []ConsumerInv
<1>1. ConsumerInv /\ [Next]_vars => ConsumerInv'
  BY TypeStep, HandStep, KeptStep, DeadStep DEF ConsumerInv
<1>2. QED BY InitInv, <1>1, PTL DEF Spec

\* No published task is lost before its handler succeeded, whatever channels
\* close, workers crash and retries the broker refuses (consumer.go:221-233),
\* but by a retry bucket that is missing.
THEOREM AtLeastOnce == Spec => []NothingLost
<1>1. ConsumerInv => NothingLost
  BY DEF ConsumerInv
<1>2. QED BY ConsumerInvariant, <1>1, PTL

\* A task with a handler is given up after MaxRetry retries and not before
\* (consumer.go:199-205).
THEOREM AllRetriesFirst == Spec => []DeadOnlyWhenExhausted
<1>1. ConsumerInv => DeadOnlyWhenExhausted
  BY DEF ConsumerInv
<1>2. QED BY ConsumerInvariant, <1>1, PTL

-----------------------------------------------------------------------------
(***************************************************************************)
(* The number of copies of a task.  Apart from Publish and Republish, which *)
(* store one, a step makes no copy; and apart from the steps that count as *)
(* a fault it leaves every copy that is about to be acked so.              *)
(***************************************************************************)
NoNewCopy ==
    \A id \in Ids : Live(id)' => Live(id) /\ body'[id].task = body[id].task

StillAcked(a) == a \in AboutToBeAcked' \/ place'[a] = "free"

QuietCopies ==
    /\ NoNewCopy
    /\ sent' = sent
    /\ \/ faults' = faults /\ \A a \in AboutToBeAcked : StillAcked(a)
       \/ /\ faults' = faults + 1
          /\ \E x \in Ids : \A a \in AboutToBeAcked : a = x \/ StillAcked(a)

\* A step of w can end the ack of its own copy at most.
LEMMA OwnHand ==
    ASSUME TypeOK, NEW w \in Workers,
           \A v \in Workers \ {w} : UNCHANGED <<pc[v], linked[v], tag[v]>>
    PROVE  /\ tag[w] \in Ids
           /\ \A a \in AboutToBeAcked : a = tag[w] \/ StillAcked(a)
           /\ \/ pc[w] # "ack" \/ ~linked[w]
              \/ UNCHANGED <<pc[w], linked[w], tag[w]>>
              \/ place'[tag[w]] = "free"
              => \A a \in AboutToBeAcked : StillAcked(a)
<1>1. tag[w] \in Ids
  BY DEF TypeOK
<1>2. ASSUME NEW a \in AboutToBeAcked
      PROVE  \/ StillAcked(a)
             \/ /\ a = tag[w] /\ pc[w] = "ack" /\ linked[w]
                /\ ~UNCHANGED <<pc[w], linked[w], tag[w]>>
                /\ place'[tag[w]] # "free"
  <2>1. PICK v \in Workers : pc[v] = "ack" /\ linked[v] /\ a = tag[v]
    BY <1>2 DEF AboutToBeAcked
  <2>2. CASE UNCHANGED <<pc[v], linked[v], tag[v]>>
    <3>1. v \in {x \in Workers : pc'[x] = "ack" /\ linked'[x]} /\ a = tag'[v]
      BY <2>1, <2>2
    <3>2. QED BY <3>1 DEF StillAcked, AboutToBeAcked
  <2>3. CASE ~UNCHANGED <<pc[v], linked[v], tag[v]>>
    <3>1. v = w
      BY <2>3
    <3>2. QED BY <2>1, <2>3, <3>1 DEF StillAcked
  <2>4. QED BY <2>2, <2>3
<1>3. QED BY <1>1, <1>2

\* Only a publish, and a retry that reaches its bucket, add copies.
LEMMA CopyStep ==
    ASSUME ConsumerInv, [Next]_vars
    PROVE  \/ \E t \in Tasks : Publish(t)
           \/ \E w \in Workers : Republish(w) /\ declared
           \/ QuietCopies
<1> USE DEF topologyVars, brokerVars, workerVars
<1>1. TypeOK /\ InHand
  BY DEF ConsumerInv
<1>2. /\ place \in [Ids -> Places] /\ body \in [Ids -> Message]
      /\ pc \in [Workers -> {"idle", "run", "dead", "retry", "ack", "gone"}]
      /\ linked \in [Workers -> BOOLEAN]
      /\ tag \in [Workers -> Ids] /\ held \in [Workers -> Message]
  BY <1>1 DEF TypeOK
<1>3. /\ {"free", "queue", "wait", "dlq"} \subseteq Places
      /\ "free" \notin Workers
  BY ConsumerAssumption DEF Places
\* The worker moves its message, or it stays where the broker put it.
<1>4. ASSUME NEW w \in Workers, NEW to \in {"free", "queue", "dlq"}, Move(w, to), Busy(w)
      PROVE  NoNewCopy
  <2>1. linked[w] => /\ place[tag[w]] = w
                     /\ body[tag[w]].task = held[w].task
    BY <1>1, <1>4 DEF InHand
  <2>2. QED BY <1>1, <1>2, <1>3, <1>4, <2>1, MoveEffect DEF NoNewCopy, Live
\* Only the hands of w move, and no fault is counted.
<1>5. ASSUME NoNewCopy, UNCHANGED <<sent, faults>>, NEW w \in Workers,
             \A v \in Workers \ {w} : UNCHANGED <<pc[v], linked[v], tag[v]>>,
             \/ pc[w] # "ack" \/ ~linked[w]
             \/ UNCHANGED <<pc[w], linked[w], tag[w]>>
             \/ place'[tag[w]] = "free"
      PROVE  QuietCopies
  BY <1>1, <1>5, OwnHand DEF QuietCopies
\* The same with a fault.
<1>6. ASSUME NoNewCopy, sent' = sent, faults' = faults + 1, NEW w \in Workers,
             \A v \in Workers \ {w} : UNCHANGED <<pc[v], linked[v], tag[v]>>
      PROVE  QuietCopies
  BY <1>1, <1>6, OwnHand DEF QuietCopies
\* No hand moves.
<1>7. ASSUME NoNewCopy, UNCHANGED <<sent, pc, linked, tag>>,
             faults' = faults
      PROVE  QuietCopies
  BY <1>7 DEF QuietCopies, StillAcked, AboutToBeAcked
<1>8. ASSUME NEW w \in Workers, NEW label \in {"idle", "gone"}, Leave(w, label)
      PROVE  \A v \in Workers \ {w} : UNCHANGED <<pc[v], tag[v]>>
  BY <1>2, <1>8 DEF Leave, Goto
<1>11. ASSUME NEW w \in Workers, Deliver(w) PROVE QuietCopies
  <2>1. NoNewCopy
    BY <1>2, <1>3, <1>11 DEF Deliver, NoNewCopy, Live
  <2>2. QED BY <1>7, <1>11, <2>1 DEF Deliver
<1>12. ASSUME NEW id \in Ids, Expire(id) PROVE QuietCopies
  <2>1. NoNewCopy
    BY <1>2, <1>3, <1>12 DEF Expire, NoNewCopy, Live
  <2>2. QED BY <1>7, <1>12, <2>1 DEF Expire
<1>13. ASSUME NEW w \in Workers,
              Take(w) \/ Succeed(w) \/ Fail(w) \/ Quit(w) \/ Restart(w)
              \/ (Republish(w) /\ ~declared)
       PROVE  QuietCopies
  <2>1. NoNewCopy /\ UNCHANGED <<sent, faults>> /\ pc[w] # "ack"
    BY <1>13 DEF Take, Succeed, Fail, Quit, Restart, Republish, NoNewCopy, Live
  <2>2. /\ \E x : pc' = [pc EXCEPT ![w] = x]
        /\ linked' = linked \/ \E x : linked' = [linked EXCEPT ![w] = x]
        /\ tag' = tag \/ \E x : tag' = [tag EXCEPT ![w] = x]
    BY <1>13 DEF Take, Succeed, Fail, Quit, Restart, Republish, Goto
  <2>3. \A v \in Workers \ {w} : UNCHANGED <<pc[v], linked[v], tag[v]>>
    BY <1>2, <2>2
  <2>4. QED BY <1>5, <2>1, <2>3
<1>14. ASSUME NEW w \in Workers, Reject(w) \/ DeadLetter(w) \/ Refuse(w)
       PROVE  QuietCopies
  <2>1. Busy(w) /\ pc[w] # "ack" /\ UNCHANGED <<sent, linked>>
    BY <1>14 DEF Reject, DeadLetter, Refuse, Busy
  <2>2. (Move(w, "dlq") \/ Move(w, "queue")) /\ Leave(w, "idle")
    BY <1>14 DEF Reject, DeadLetter, Refuse, Rejected, BackToQueue
  <2>3. NoNewCopy /\ \A v \in Workers \ {w} : UNCHANGED <<pc[v], linked[v], tag[v]>>
    BY <1>4, <1>8, <2>1, <2>2
  <2>4. faults' = faults \/ faults' = faults + 1
    BY <1>14 DEF Reject, DeadLetter, Refuse, Fault
  <2>5. QED BY <1>5, <1>6, <2>1, <2>3, <2>4
<1>15. ASSUME NEW w \in Workers, Ack(w) PROVE QuietCopies
  <2>1. Busy(w) /\ Move(w, "free") /\ Leave(w, "idle") /\ UNCHANGED <<sent, linked, faults>>
    BY <1>15 DEF Ack, Acked, Busy
  <2>2. NoNewCopy /\ \A v \in Workers \ {w} : UNCHANGED <<pc[v], linked[v], tag[v]>>
    BY <1>4, <1>8, <2>1
  <2>3. ~linked[w] \/ place'[tag[w]] = "free"
    BY <1>1, <1>3, <2>1, MoveEffect
  <2>4. QED BY <1>5, <2>1, <2>2, <2>3 DEF Live
<1>16. ASSUME NEW w \in Workers, Disconnect(w) \/ Crash(w) PROVE QuietCopies
  <2>1. Release(w) /\ UNCHANGED <<sent, body>> /\ faults' = faults + 1
    BY <1>16 DEF Disconnect, Crash, Fault
  <2>2. NoNewCopy
    BY <1>1, <1>3, <2>1, ReleaseEffect DEF NoNewCopy, Live
  <2>3. \A v \in Workers \ {w} : UNCHANGED <<pc[v], linked[v], tag[v]>>
    BY <1>2, <1>8, <1>16 DEF Disconnect, Crash
  <2>4. QED BY <1>6, <2>1, <2>2, <2>3
<1>17. CASE DeleteBuckets
  <2>1. NoNewCopy
    BY <1>17 DEF DeleteBuckets, NoNewCopy, Live
  <2>2. AboutToBeAcked' = AboutToBeAcked /\ sent' = sent /\ faults' = faults + 1
    BY <1>17 DEF DeleteBuckets, AboutToBeAcked, Fault
  <2>3. \E x \in Ids : TRUE
    BY BlankTypes
  <2>4. QED BY <2>1, <2>2, <2>3 DEF QuietCopies, StillAcked
<1>18. CASE Declare \/ UNCHANGED vars
  <2>1. NoNewCopy
    BY <1>18 DEF Declare, vars, NoNewCopy, Live
  <2>2. QED BY <1>7, <1>18, <2>1 DEF Declare, vars
<1>19. QED
  BY <1>11, <1>12, <1>13, <1>14, <1>15, <1>16, <1>17, <1>18 DEF Next, Handle

\* What a stored message does to the copies of its task and of the others.
LEMMA StoreCopies ==
    ASSUME TypeOK, NEW m \in Message, NEW at \in {"queue", "wait"}, Store(m, at)
    PROVE  \E new \in Ids :
               /\ ~Live(new) /\ Live(new)' /\ body'[new] = m
               /\ \A id \in Ids \ {new} : (Live(id)' <=> Live(id)) /\ body'[id] = body[id]
               /\ \A t : Copies(t)' = IF t = m.task THEN Copies(t) \cup {new}
                                      ELSE Copies(t)
<1>1. PICK new \in Ids :
          /\ place[new] = "free" /\ place'[new] = at /\ body'[new] = m
          /\ \A o \in Ids \ {new} : place'[o] = place[o] /\ body'[o] = body[o]
  BY StoreEffect DEF Places
<1>2. \A t : new \notin Copies(t)
  BY <1>1 DEF Copies, Live
<1>3. \A t : Copies(t)' = IF t = m.task THEN Copies(t) \cup {new} ELSE Copies(t)
  BY <1>1, <1>2 DEF Copies, Live
<1>4. QED BY <1>1, <1>3 DEF Live

\* The retry stands in for the original, which is about to be acked.
LEMMA RepublishCopies ==
    ASSUME ConsumerInv, NEW w \in Workers, Republish(w), declared
    PROVE  /\ tag[w] \in Standing(held[w].task)
           /\ \E new \in Ids : \A t :
                Standing(t)' \subseteq
                    IF t = held[w].task THEN (Standing(t) \ {tag[w]}) \cup {new}
                    ELSE Standing(t)
<1>1. TypeOK /\ InHand
  BY DEF ConsumerInv
<1>2. /\ pc[w] = "retry" /\ linked[w] /\ UNCHANGED <<linked, tag>>
      /\ pc' = [pc EXCEPT ![w] = "ack"]
      /\ Store(Retried(held[w]), "wait")
  BY DEF Republish, Goto
<1>3. /\ tag[w] \in Ids /\ place[tag[w]] = w /\ body[tag[w]].task = held[w].task
      /\ w # "free"
  BY <1>1, <1>2, ConsumerAssumption DEF InHand, Busy, TypeOK
<1>4. tag[w] \notin AboutToBeAcked
  <2>1. ASSUME NEW v \in Workers, pc[v] = "ack", linked[v], tag[v] = tag[w]
        PROVE  FALSE
    <3>1. place[tag[v]] = v
      BY <1>1, <2>1 DEF InHand, Busy
    <3>2. QED BY <1>2, <1>3, <2>1, <3>1
  <2>2. QED BY <2>1 DEF AboutToBeAcked
<1>5. tag[w] \in Standing(held[w].task)
  BY <1>3, <1>4 DEF Standing, Copies, Live
<1>6. AboutToBeAcked' = AboutToBeAcked \cup {tag[w]}
  <2>1. /\ pc'[w] = "ack" /\ \A v \in Workers \ {w} : pc'[v] = pc[v]
        /\ linked' = linked /\ tag' = tag
    BY <1>1, <1>2 DEF TypeOK
  <2>2. QED BY <1>2, <2>1 DEF AboutToBeAcked
<1>7. Retried(held[w]) \in Message /\ Retried(held[w]).task = held[w].task
  BY <1>1, RetryMessage
<1>8. PICK new \in Ids :
          \A t : Copies(t)' = IF t = held[w].task THEN Copies(t) \cup {new}
                             ELSE Copies(t)
  BY <1>1, <1>2, <1>7, StoreCopies
<1>9. QED BY <1>5, <1>6, <1>8 DEF Standing

\* The broker keeps messages of published tasks only.
LEMMA KnownStep ==
    ASSUME ConsumerInv, Known, [Next]_vars
    PROVE  Known'
<1>1. TypeOK /\ InHand
  BY DEF ConsumerInv
<1>2. ASSUME NEW w \in Workers, Republish(w), declared
      PROVE  Known'
  <2>1. Store(Retried(held[w]), "wait") /\ sent' = sent
    BY <1>2 DEF Republish
  <2>2. Retried(held[w]) \in Message /\ Retried(held[w]).task = held[w].task
    BY <1>1, RetryMessage
  <2>3. held[w].task \in sent
    BY <1>2, RepublishCopies DEF Standing, Copies, Known
  <2>4. QED BY <1>1, <2>1, <2>2, <2>3, StoreCopies DEF Known
<1>3. ASSUME NEW t \in Tasks, Publish(t)
      PROVE  Known'
  <2>1. Store(Fresh(t), "queue") /\ sent' = sent \cup {t}
    BY <1>3 DEF Publish
  <2>2. QED BY <1>1, <2>1, FreshType, StoreCopies DEF Known
<1>4. CASE QuietCopies
  BY <1>4 DEF QuietCopies, NoNewCopy, Known
<1>5. QED BY <1>2, <1>3, <1>4, CopyStep

\* The number of elements of a set that grows by one element at most, or trades
\* one for another.
LEMMA Grown ==
    ASSUME NEW S, IsFiniteSet(S), NEW x, NEW T, T \subseteq S \cup {x}
    PROVE  IsFiniteSet(T) /\ Cardinality(T) <= Cardinality(S) + 1
<1>1. /\ IsFiniteSet(S \cup {x}) /\ Cardinality(S) \in Nat
      /\ Cardinality(S \cup {x}) <= Cardinality(S) + 1
  <2>1. Cardinality(S) \in Nat
    BY FS_CardinalityType
  <2>2. /\ IsFiniteSet(S \cup {x})
        /\ Cardinality(S \cup {x})
             = IF x \in S THEN Cardinality(S) ELSE Cardinality(S) + 1
    BY FS_AddElement
  <2>3. QED BY <2>1, <2>2
<1>2. /\ IsFiniteSet(T) /\ Cardinality(T) <= Cardinality(S \cup {x})
  BY <1>1, FS_Subset
<1>3. Cardinality(T) \in Nat /\ Cardinality(S \cup {x}) \in Nat
  BY <1>1, <1>2, FS_CardinalityType
<1>4. QED BY <1>1, <1>2, <1>3

\* One element given for another: no more than before.
LEMMA Traded ==
    ASSUME NEW S, IsFiniteSet(S), NEW a \in S, NEW x, NEW T,
           T \subseteq (S \ {a}) \cup {x}
    PROVE  Cardinality(T) <= Cardinality(S)
<1>1. /\ IsFiniteSet(S \ {a}) /\ Cardinality(S \ {a}) = Cardinality(S) - 1
      /\ Cardinality(S) \in Nat
  BY FS_RemoveElement, FS_CardinalityType
<1>2. Cardinality(T) <= Cardinality(S \ {a}) + 1
  BY <1>1, Grown
<1>3. QED BY <1>1, <1>2

\* So the copies of a task never outnumber the faults by more than one.
LEMMA CopiesStep ==
    ASSUME ConsumerInv, Known, CopiesBounded, [Next]_vars
    PROVE  CopiesBounded'
<1>1. TypeOK
  BY DEF ConsumerInv
<1>2. \A t : IsFiniteSet(Standing(t)) /\ Cardinality(Standing(t)) \in Nat
  <2>1. \A t : Standing(t) \in SUBSET Ids
    BY DEF Standing, Copies
  <2>2. QED BY <2>1, FS_Subset, FS_CardinalityType, ConsumerAssumption
<1>3. faults \in Nat
  BY <1>1, ConsumerAssumption DEF TypeOK
<1>4. \A t \in Tasks : Cardinality(Standing(t)) <= 1 + faults
  BY DEF CopiesBounded
<1>5. ASSUME NEW t \in Tasks, Standing(t)' \subseteq Standing(t)
      PROVE  Cardinality(Standing(t)') <= Cardinality(Standing(t))
  BY <1>2, <1>5, FS_Subset
<1>6. ASSUME NEW t \in Tasks, Publish(t)
      PROVE  CopiesBounded'
  <2>1. /\ Store(Fresh(t), "queue") /\ t \notin sent
        /\ faults' = faults /\ AboutToBeAcked' = AboutToBeAcked
    BY <1>6 DEF Publish, workerVars, AboutToBeAcked
  <2>2. Copies(t) = {}
    BY <2>1 DEF Known, Copies
  <2>3. PICK new \in Ids :
            \A u : Copies(u)' = IF u = t THEN Copies(u) \cup {new} ELSE Copies(u)
    BY <1>1, <2>1, FreshType, StoreCopies
  <2>4. Standing(t)' \subseteq {} \cup {new}
    BY <2>2, <2>3 DEF Standing
  <2>5. Cardinality(Standing(t)') <= 0 + 1
    BY <2>4, Grown, FS_EmptySet
  <2>6. \A u \in Tasks \ {t} : Standing(u)' = Standing(u)
    BY <2>1, <2>3 DEF Standing
  <2>7. ASSUME NEW u \in Tasks
        PROVE  Cardinality(Standing(u)') <= 1 + faults'
    <3>1. CASE u = t
      <4>1. Cardinality(Standing(t)') \in Nat
        BY <2>4, Grown, FS_EmptySet, FS_CardinalityType
      <4>2. QED BY <1>3, <2>1, <2>5, <3>1, <4>1
    <3>2. CASE u # t
      BY <1>4, <2>1, <2>6, <3>2
    <3>3. QED BY <3>1, <3>2
  <2>8. QED BY <2>7 DEF CopiesBounded
<1>7. ASSUME NEW w \in Workers, Republish(w), declared
      PROVE  CopiesBounded'
  <2>1. faults' = faults
    BY <1>7 DEF Republish
  <2>2. ASSUME NEW t \in Tasks
        PROVE  Cardinality(Standing(t)') <= Cardinality(Standing(t))
    <3>1. CASE t = held[w].task
      <4>1. PICK new \in Ids : Standing(t)' \subseteq (Standing(t) \ {tag[w]}) \cup {new}
        BY <1>7, <3>1, RepublishCopies
      <4>2. tag[w] \in Standing(t)
        BY <1>7, <3>1, RepublishCopies
      <4>3. QED BY <1>2, <4>1, <4>2, Traded
    <3>2. CASE t # held[w].task
      BY <1>5, <1>7, <3>2, RepublishCopies
    <3>3. QED BY <3>1, <3>2
  <2>3. \A t \in Tasks : Cardinality(Standing(t)') <= 1 + faults'
    <3>1. \A t \in Tasks : IsFiniteSet(Standing(t)')
      <4>1. \A t \in Tasks : Standing(t)' \in SUBSET Ids
        BY DEF Standing, Copies
      <4>2. QED BY <4>1, FS_Subset, ConsumerAssumption
    <3>2. \A t \in Tasks : Cardinality(Standing(t)') \in Nat
      BY <3>1, FS_CardinalityType
    <3>3. QED BY <1>2, <1>3, <1>4, <2>1, <2>2, <3>2
  <2>4. QED BY <2>3 DEF CopiesBounded
<1>8. CASE QuietCopies
  <2>1. ASSUME NEW t \in Tasks, NEW id \in Standing(t)'
        PROVE  id \in Standing(t) \/ (id \in AboutToBeAcked /\ ~StillAcked(id))
    <3>1. id \in Ids /\ Live(id)' /\ body'[id].task = t /\ id \notin AboutToBeAcked'
      BY <2>1 DEF Standing, Copies, Live
    <3>2. id \in Copies(t)
      BY <1>8, <3>1 DEF QuietCopies, NoNewCopy, Copies
    <3>3. ~StillAcked(id)
      BY <3>1 DEF StillAcked, Live
    <3>4. QED BY <3>2, <3>3 DEF Standing
  <2>2. \/ /\ faults' = faults
           /\ \A t \in Tasks : Standing(t)' \subseteq Standing(t)
        \/ /\ faults' = faults + 1
           /\ \E x \in Ids : \A t \in Tasks : Standing(t)' \subseteq Standing(t) \cup {x}
    BY <1>8, <2>1 DEF QuietCopies
  <2>3. ASSUME NEW t \in Tasks
        PROVE  Cardinality(Standing(t)') <= 1 + faults'
    <3>1. Cardinality(Standing(t)') \in Nat
      <4>1. Standing(t)' \in SUBSET Ids
        BY DEF Standing, Copies
      <4>2. QED BY <4>1, FS_Subset, FS_CardinalityType, ConsumerAssumption
    <3>2. Cardinality(Standing(t)) \in Nat /\ Cardinality(Standing(t)) <= 1 + faults
      BY <1>2, <1>4
    <3>3. CASE faults' = faults /\ Standing(t)' \subseteq Standing(t)
      BY <1>3, <1>5, <3>1, <3>2, <3>3
    <3>4. ASSUME faults' = faults + 1, NEW x \in Ids,
                 Standing(t)' \subseteq Standing(t) \cup {x}
          PROVE  Cardinality(Standing(t)') <= 1 + faults'
      <4>1. Cardinality(Standing(t)') <= Cardinality(Standing(t)) + 1
        BY <1>2, <3>4, Grown
      <4>2. QED BY <1>3, <3>1, <3>2, <3>4, <4>1
    <3>5. QED BY <2>2, <3>3, <3>4
  <2>4. QED BY <2>3 DEF CopiesBounded
<1>9. QED BY <1>6, <1>7, <1>8, CopyStep

\* Copies are counted right initially.
LEMMA InitCopies == Init => Known /\ CopiesBounded
<1> SUFFICES ASSUME Init PROVE Known /\ CopiesBounded
  OBVIOUS
<1>1. \A t \in Tasks : Standing(t) = {}
  BY DEF Init, Standing, Copies, Live
<1>2. faults = 0
  BY DEF Init
<1>3. CopiesBounded
  BY <1>1, <1>2, FS_EmptySet DEF CopiesBounded
<1>4. Known
  BY DEF Init, Known, Live
<1>5. QED BY <1>3, <1>4

\* Redelivery multiplies a task only by faults: every lost channel, crash or
\* refused retry adds one copy at most, and a retry none (consumer.go:221-239).
THEOREM OneCopyPerFault == Spec => []CopiesBounded
<1>1. ConsumerInv /\ Known /\ CopiesBounded /\ [Next]_vars => Known' /\ CopiesBounded'
  BY KnownStep, CopiesStep
<1>2. QED BY InitCopies, ConsumerInvariant, <1>1, PTL DEF Spec

-----------------------------------------------------------------------------
(***************************************************************************)
(* The age of a message.                                                   *)
(***************************************************************************)
LEMMA LimitFacts ==
    ASSUME NEW n \in 0 .. MaxRetry, NEW a \in Nat
    PROVE  /\ Limit(n, a) \in Nat
           /\ \A b \in Nat : a <= b => Limit(n, a) <= Limit(n, b)
           /\ Limit(n, a) + Timeout = Limit(n, 1 + a)
           /\ n < MaxRetry =>
                Limit(n, 1 + a) + Buckets[Bucket(n)] = Limit(n + 1, a)
<1>1. Timeout \in Nat /\ MaxRetry \in Nat /\ Backoff[n] \in Nat
  BY ConsumerAssumption
<1>2. \A x, y \in Nat : /\ x * Timeout \in Nat
                        /\ x <= y => x * Timeout <= y * Timeout
                        /\ x * Timeout + Timeout = (x + 1) * Timeout
  BY <1>1
<1>3. \A b \in Nat : a <= b => Limit(n, a) <= Limit(n, b)
  BY <1>1, <1>2 DEF Limit
<1>4. Limit(n, a) + Timeout = Limit(n, 1 + a)
  <2>1. (n + a) * Timeout + Timeout = (n + a + 1) * Timeout
    BY <1>2
  <2>2. n + (1 + a) = n + a + 1
    OBVIOUS
  <2>3. (n + a) * Timeout \in Nat
    BY <1>2
  <2>4. QED BY <1>1, <2>1, <2>2, <2>3 DEF Limit
<1>5. ASSUME n < MaxRetry
      PROVE  Limit(n, 1 + a) + Buckets[Bucket(n)] = Limit(n + 1, a)
  <2>1. n + 1 \in 1 .. MaxRetry /\ (n + 1) - 1 = n /\ n + (1 + a) = (n + 1) + a
    BY <1>1, <1>5
  <2>2. Backoff[n + 1] = Backoff[n] + Buckets[Min2(n + 1, Len(Buckets))]
    BY <2>1, ConsumerAssumption
  <2>3. Bucket(n) = Min2(n + 1, Len(Buckets))
    BY DEF Bucket
  <2>4. Buckets[Bucket(n)] \in Nat
    <3>1. Len(Buckets) \in Nat /\ Len(Buckets) >= 1
          /\ Buckets \in [1 .. Len(Buckets) -> Nat]
      BY ConsumerAssumption
    <3>2. Bucket(n) \in 1 .. Len(Buckets)
      BY <3>1, <2>3 DEF Min2
    <3>3. QED BY <3>1, <3>2
  <2>5. ((n + 1) + a) * Timeout \in Nat
    BY <1>2, <2>1
  <2>6. QED BY <1>1, <2>1, <2>2, <2>3, <2>4, <2>5 DEF Limit
<1>6. Limit(n, a) \in Nat
  BY <1>1, <1>2 DEF Limit
<1>7. QED BY <1>3, <1>4, <1>5, <1>6

\* Aged, for one message m at a place, or with a worker at a label.
KeptAge(m, at, f) == m.age <= Limit(m.retries, IF at = "dlq" THEN 1 + f ELSE f)
HeldAge(m, label, f) ==
    m.age <= Limit(m.retries, IF label \in {"dead", "retry", "ack"} THEN 1 + f ELSE f)

\* A limit once kept is kept with more faults, and a blank message is young.
LEMMA AgeKeeps ==
    ASSUME NEW m \in Message, m.retries <= MaxRetry, NEW f \in Nat, NEW g \in Nat, f <= g
    PROVE  /\ m.age <= Limit(m.retries, f) => m.age <= Limit(m.retries, g)
           /\ \A at : KeptAge(m, at, f) => KeptAge(m, at, g) /\ KeptAge(m, "dlq", g)
           /\ \A label : HeldAge(m, label, f)
                => HeldAge(m, label, g) /\ m.age <= Limit(m.retries, 1 + f)
           /\ \A label : m.age <= Limit(m.retries, f) => KeptAge(m, label, g) /\ HeldAge(m, label, g)
<1>1. m.retries \in 0 .. MaxRetry /\ m.age \in Nat
  BY ConsumerAssumption DEF Message
<1>2. \A a, b \in Nat : a <= b =>
        /\ Limit(m.retries, a) \in Nat /\ Limit(m.retries, b) \in Nat
        /\ Limit(m.retries, a) <= Limit(m.retries, b)
  BY <1>1, LimitFacts
<1>3. \A a, b \in Nat : a <= b /\ m.age <= Limit(m.retries, a) => m.age <= Limit(m.retries, b)
  BY <1>1, <1>2
<1>4. /\ f <= 1 + f /\ 1 + f <= 1 + g /\ f <= 1 + g /\ g <= 1 + g
      /\ 1 + f \in Nat /\ 1 + g \in Nat
  OBVIOUS
<1>5. QED BY <1>3, <1>4 DEF KeptAge, HeldAge

\* Empty hands have no age to bound.
LEMMA BlankAge ==
    ASSUME NEW f \in Nat
    PROVE  \A at : KeptAge(Blank, at, f) /\ HeldAge(Blank, at, f)
<1>1. Blank.age = 0 /\ Blank.retries = 0 /\ Blank \in Message
  BY BlankTypes DEF Blank, Fresh
<1>2. 0 \in 0 .. MaxRetry
  BY ConsumerAssumption
<1>3. Limit(0, f) \in Nat
  BY <1>2, LimitFacts
<1>4. Blank.age <= Limit(Blank.retries, f)
  BY <1>1, <1>3
<1>5. Blank.retries <= MaxRetry
  BY <1>1, <1>2
<1>6. QED BY <1>1, <1>4, <1>5, AgeKeeps

\* Aged, message by message and worker by worker.
LEMMA AgedParts ==
    Aged <=> /\ \A id \in Ids : KeptAge(body[id], place[id], faults)
             /\ \A w \in Workers : HeldAge(held[w], pc[w], faults)
BY DEF Aged, KeptAge, HeldAge

\* What a worker handles for the time of its handler, and what it waits for.
LEMMA AttemptAge ==
    ASSUME ConsumerInv, Aged, NEW w \in Workers
    PROVE  /\ held[w].age <= Limit(held[w].retries, 1 + faults)
           /\ pc[w] = "run" =>
                /\ held[w].age <= Limit(held[w].retries, faults)
                /\ held[w].age + Timeout <= Limit(held[w].retries, 1 + faults)
           /\ held[w].retries < MaxRetry =>
                Retried(held[w]).age <= Limit(Retried(held[w]).retries, faults)
<1>1. TypeOK /\ Counted
  BY DEF ConsumerInv
<1>2. /\ held[w] \in Message /\ held[w].retries <= MaxRetry
      /\ held[w].retries \in 0 .. MaxRetry /\ held[w].age \in Nat
      /\ faults \in Nat /\ Timeout \in Nat
  BY <1>1, ConsumerAssumption DEF TypeOK, Counted, Message
<1>3. HeldAge(held[w], pc[w], faults)
  BY AgedParts
<1>4. held[w].age <= Limit(held[w].retries, 1 + faults)
  BY <1>2, <1>3, AgeKeeps
<1>5. /\ Limit(held[w].retries, faults) \in Nat
      /\ Limit(held[w].retries, 1 + faults) = Limit(held[w].retries, faults) + Timeout
  BY <1>2, LimitFacts
<1>6. pc[w] = "run" => held[w].age <= Limit(held[w].retries, faults)
  BY <1>3 DEF HeldAge
<1>7. ASSUME held[w].retries < MaxRetry
      PROVE  Retried(held[w]).age <= Limit(Retried(held[w]).retries, faults)
  <2> DEFINE wait == Buckets[Bucket(held[w].retries)]
  <2>1. /\ Retried(held[w]).age = held[w].age + wait
        /\ Retried(held[w]).retries = held[w].retries + 1
        /\ Retried(held[w]) \in Message
    BY <1>1, RetryMessage
  <2>2. Limit(held[w].retries, 1 + faults) + wait = Limit(held[w].retries + 1, faults)
    BY <1>2, <1>7, LimitFacts
  <2>3. wait \in Nat
    <3>1. Len(Buckets) \in Nat /\ Len(Buckets) >= 1
          /\ Buckets \in [1 .. Len(Buckets) -> Nat]
      BY ConsumerAssumption
    <3>2. Bucket(held[w].retries) \in 1 .. Len(Buckets)
      BY <1>2, <3>1 DEF Bucket, Min2
    <3>3. QED BY <3>1, <3>2
  <2>4. Limit(held[w].retries, 1 + faults) \in Nat
    BY <1>2, <1>5
  <2> HIDE DEF wait
  <2>5. QED BY <1>2, <1>4, <2>1, <2>2, <2>3, <2>4
<1>8. QED BY <1>2, <1>4, <1>5, <1>6, <1>7

\* No step makes a message older than its retries and attempts account for.
LEMMA AgedStep ==
    ASSUME ConsumerInv, Aged, [Next]_vars
    PROVE  Aged'
<1> USE DEF topologyVars, brokerVars, workerVars
<1>1. TypeOK /\ InHand /\ Counted
  BY DEF ConsumerInv
<1>2. /\ place \in [Ids -> Places] /\ body \in [Ids -> Message]
      /\ pc \in [Workers -> {"idle", "run", "dead", "retry", "ack", "gone"}]
      /\ tag \in [Workers -> Ids] /\ held \in [Workers -> Message]
      /\ \A id \in Ids : body[id] \in Message /\ body[id].retries <= MaxRetry
      /\ \A w \in Workers : held[w] \in Message /\ held[w].retries <= MaxRetry
  BY <1>1 DEF TypeOK, Counted
<1>3. /\ {"free", "queue", "wait", "dlq"} \subseteq Places
      /\ {"free", "queue", "wait", "dlq"} \cap Workers = {}
  BY ConsumerAssumption DEF Places
<1>4. /\ faults \in Nat /\ faults' \in Nat /\ faults <= faults'
  <2>1. TypeOK'
    BY TypeStep
  <2>2. faults \in Nat /\ faults' \in Nat
    BY <1>1, <2>1, ConsumerAssumption DEF TypeOK
  <2>3. faults' = faults \/ faults' = faults + 1
    BY DEF Next, Publish, Deliver, Handle, Take, Reject, Succeed, Fail, DeadLetter,
       Republish, Refuse, Ack, Quit, Disconnect, Crash, Restart, Expire, DeleteBuckets,
       Declare, Fault, vars
  <2>4. QED BY <2>2, <2>3
<1>5. /\ \A id \in Ids : KeptAge(body[id], place[id], faults)
      /\ \A w \in Workers : HeldAge(held[w], pc[w], faults)
  BY AgedParts
\* Messages that stay, wherever they go but the dead-letter queue, stay young.
<1> DEFINE Stays(id) ==
             \/ body'[id] = body[id] /\ place'[id] = place[id]
             \/ body'[id] = body[id] /\ place'[id] # "dlq" /\ place[id] # "dlq"
             \/ body'[id] = Blank
<1>6. ASSUME NEW id \in Ids, Stays(id)
      PROVE  KeptAge(body'[id], place'[id], faults')
  <2>1. CASE body'[id] = Blank
    BY <1>4, <2>1, BlankAge
  <2>2. CASE body'[id] = body[id] /\ place'[id] = place[id]
    BY <1>2, <1>4, <1>5, <2>2, AgeKeeps
  <2>3. CASE body'[id] = body[id] /\ place'[id] # "dlq" /\ place[id] # "dlq"
    <3>1. body[id].age <= Limit(body[id].retries, faults)
      BY <1>5, <2>3 DEF KeptAge
    <3>2. QED BY <1>2, <1>4, <2>3, <3>1, AgeKeeps
  <2>4. QED BY <1>6, <2>1, <2>2, <2>3
\* So do the workers that keep their message or lose it.
<1>7. ASSUME NEW w \in Workers,
             \/ held'[w] = held[w] /\ pc'[w] = pc[w]
             \/ held'[w] = Blank
      PROVE  HeldAge(held'[w], pc'[w], faults')
  <2>1. CASE held'[w] = Blank
    BY <1>4, <2>1, BlankAge
  <2>2. CASE held'[w] = held[w] /\ pc'[w] = pc[w]
    BY <1>2, <1>4, <1>5, <2>2, AgeKeeps
  <2>3. QED BY <1>7, <2>1, <2>2
<1>8. ASSUME \A id \in Ids : KeptAge(body'[id], place'[id], faults'),
             \A w \in Workers : HeldAge(held'[w], pc'[w], faults')
      PROVE  Aged'
  BY <1>8, AgedParts DEF Aged, KeptAge, HeldAge
\* A worker ends its message: to the queue it counts a fault more.
<1>9. ASSUME NEW w \in Workers, NEW to \in {"free", "queue", "dlq"},
             Move(w, to), Leave(w, "idle"),
             linked[w] => to # "queue" \/ faults' = faults + 1
      PROVE  Aged'
  <2>1. /\ \A id \in Ids : id # tag[w] \/ ~linked[w] =>
                place'[id] = place[id] /\ body'[id] = body[id]
        /\ linked[w] => place'[tag[w]] = to
        /\ linked[w] /\ to = "free" => body'[tag[w]] = Blank
        /\ linked[w] /\ to # "free" => body'[tag[w]] = held[w]
    BY <1>1, <1>3, <1>9, MoveEffect
  <2>2. held[w].age <= Limit(held[w].retries, 1 + faults)
    BY AttemptAge
  <2>3. KeptAge(held[w], to, faults') \/ to = "free" \/ ~linked[w]
    <3>1. CASE to = "dlq"
      <4>1. KeptAge(held[w], "dlq", faults)
        BY <2>2 DEF KeptAge
      <4>2. QED BY <1>2, <1>4, <3>1, <4>1, AgeKeeps
    <3>2. CASE to = "queue" /\ linked[w]
      <4>1. faults' = 1 + faults
        BY <1>4, <1>9, <3>2
      <4>2. QED BY <2>2, <3>2, <4>1 DEF KeptAge
    <3>3. QED BY <1>9, <3>1, <3>2
  <2>4. \A id \in Ids : KeptAge(body'[id], place'[id], faults')
    BY <1>6, <2>1, <2>3
  <2>5. /\ held'[w] = Blank
        /\ \A v \in Workers \ {w} : held'[v] = held[v] /\ pc'[v] = pc[v]
    BY <1>1, <1>2, <1>9, LeaveEffect
  <2>6. \A v \in Workers : HeldAge(held'[v], pc'[v], faults')
    BY <1>7, <2>5
  <2>7. QED BY <1>8, <2>4, <2>6
\* A message is stored that is young enough.
<1>10. ASSUME NEW m \in Message, NEW at \in {"queue", "wait"}, Store(m, at),
              m.retries <= MaxRetry, m.age <= Limit(m.retries, faults)
       PROVE  \A id \in Ids : KeptAge(body'[id], place'[id], faults')
  <2>1. PICK new \in Ids :
            /\ body'[new] = m
            /\ \A o \in Ids \ {new} : place'[o] = place[o] /\ body'[o] = body[o]
    BY <1>1, <1>3, <1>10, StoreEffect
  <2>2. KeptAge(m, place'[new], faults')
    BY <1>4, <1>10, AgeKeeps
  <2>3. QED BY <1>6, <2>1, <2>2
\* The handler is over.
<1>11. ASSUME NEW w \in Workers, Succeed(w) \/ Fail(w)
       PROVE  Aged'
  <2>1. /\ pc[w] = "run" /\ UNCHANGED <<place, body>>
        /\ held' = [held EXCEPT ![w].age = @ + Timeout]
        /\ \E label \in {"dead", "retry", "ack"} : pc' = [pc EXCEPT ![w] = label]
    BY <1>11 DEF Succeed, Fail, Goto
  <2>2. /\ held'[w].retries = held[w].retries
        /\ held'[w].age = held[w].age + Timeout
        /\ \A v \in Workers \ {w} : held'[v] = held[v] /\ pc'[v] = pc[v]
        /\ pc'[w] \in {"dead", "retry", "ack"}
    BY <1>1, <1>2, <2>1, AgedEffect
  <2>3. held'[w].age <= Limit(held'[w].retries, 1 + faults)
    BY <2>1, <2>2, AttemptAge
  <2>4. faults' = faults
    BY <1>11 DEF Succeed, Fail
  <2>5. HeldAge(held'[w], pc'[w], faults')
    BY <2>2, <2>3, <2>4 DEF HeldAge
  <2>6. \A id \in Ids : KeptAge(body'[id], place'[id], faults')
    BY <1>6, <2>1
  <2>7. \A v \in Workers : HeldAge(held'[v], pc'[v], faults')
    BY <1>7, <2>2, <2>5
  <2>8. QED BY <1>8, <2>6, <2>7
<1>12. ASSUME NEW w \in Workers, Take(w)
       PROVE  Aged'
  <2>1. PICK id \in Ids : place[id] = w /\ held' = [held EXCEPT ![w] = body[id]]
    BY <1>12 DEF Take, Held
  <2>2. /\ held'[w] = body[id] /\ pc'[w] = "run" /\ UNCHANGED <<place, body>>
        /\ \A v \in Workers \ {w} : held'[v] = held[v] /\ pc'[v] = pc[v]
    BY <1>2, <1>12, <2>1 DEF Take, Goto
  <2>3. body[id].age <= Limit(body[id].retries, faults)
    BY <1>3, <1>5, <2>1 DEF KeptAge
  <2>4. HeldAge(held'[w], pc'[w], faults')
    BY <1>2, <1>4, <2>2, <2>3, AgeKeeps
  <2>5. \A o \in Ids : KeptAge(body'[o], place'[o], faults')
    BY <1>6, <2>2
  <2>6. \A v \in Workers : HeldAge(held'[v], pc'[v], faults')
    BY <1>7, <2>2, <2>4
  <2>7. QED BY <1>8, <2>5, <2>6
<1>13. ASSUME NEW w \in Workers, Republish(w)
       PROVE  Aged'
  <2>1. /\ UNCHANGED held /\ pc[w] = "retry" /\ pc'[w] = "ack"
        /\ \A v \in Workers \ {w} : pc'[v] = pc[v]
        /\ faults' = faults
    BY <1>2, <1>13 DEF Republish, Goto
  <2>2. HeldAge(held'[w], pc'[w], faults')
    BY <1>5, <2>1 DEF HeldAge
  <2>3. \A v \in Workers : HeldAge(held'[v], pc'[v], faults')
    BY <1>7, <2>1, <2>2
  <2>4. CASE Store(Retried(held[w]), "wait")
    <3>1. held[w].retries < MaxRetry
      BY <1>1, <2>1 DEF Counted
    <3>2. /\ Retried(held[w]) \in Message
          /\ Retried(held[w]).retries <= MaxRetry
      <4>1. /\ Retried(held[w]) \in Message
            /\ Retried(held[w]).retries = held[w].retries + 1
        BY <1>1, RetryMessage
      <4>2. held[w].retries \in Nat /\ MaxRetry \in Nat
        BY <1>2, ConsumerAssumption DEF Message
      <4>3. QED BY <3>1, <4>1, <4>2
    <3>3. Retried(held[w]).age <= Limit(Retried(held[w]).retries, faults)
      BY <3>1, AttemptAge
    <3>4. QED BY <1>8, <1>10, <2>3, <2>4, <3>2, <3>3
  <2>5. CASE UNCHANGED <<place, body>>
    BY <1>6, <1>8, <2>3, <2>5
  <2>6. QED BY <1>13, <2>4, <2>5 DEF Republish
<1>14. ASSUME NEW t \in Tasks, Publish(t)
       PROVE  Aged'
  <2>1. Store(Fresh(t), "queue") /\ UNCHANGED <<pc, held>>
    BY <1>14 DEF Publish
  <2>2. /\ Fresh(t) \in Message /\ Fresh(t).retries = 0 /\ Fresh(t).age = 0
        /\ 0 \in 0 .. MaxRetry
    BY FreshType, ConsumerAssumption DEF Fresh
  <2>3. Fresh(t).age <= Limit(Fresh(t).retries, faults) /\ Fresh(t).retries <= MaxRetry
    BY <1>4, <2>2, LimitFacts
  <2>4. QED BY <1>7, <1>8, <1>10, <2>1, <2>2, <2>3
<1>15. ASSUME NEW w \in Workers, Reject(w) \/ DeadLetter(w) \/ Refuse(w) \/ Ack(w)
       PROVE  Aged'
  <2>1. \E to \in {"free", "queue", "dlq"} :
            /\ Move(w, to) /\ Leave(w, "idle")
            /\ linked[w] => to # "queue" \/ faults' = faults + 1
    BY <1>15 DEF Reject, Rejected, DeadLetter, Refuse, BackToQueue, Ack, Acked, Fault
  <2>2. QED BY <1>9, <2>1
<1>16. ASSUME NEW w \in Workers, Disconnect(w) \/ Crash(w)
       PROVE  Aged'
  <2>1. Release(w) /\ body' = body
    BY <1>16 DEF Disconnect, Crash
  <2>2. \A id \in Ids : KeptAge(body'[id], place'[id], faults')
    BY <1>1, <1>3, <1>6, <2>1, ReleaseEffect
  <2>3. \A v \in Workers : \/ held'[v] = held[v] /\ pc'[v] = pc[v]
                           \/ held'[v] = Blank
    <3>1. CASE Disconnect(w)
      BY <3>1 DEF Disconnect
    <3>2. CASE Crash(w)
      <4>1. /\ held'[w] = Blank /\ pc' = [pc EXCEPT ![w] = "gone"]
            /\ \A v \in Workers \ {w} : held'[v] = held[v]
        BY <1>1, <3>2, LeaveEffect DEF Crash
      <4>2. QED BY <1>2, <4>1
    <3>3. QED BY <1>16, <3>1, <3>2
  <2>4. QED BY <1>7, <1>8, <2>2, <2>3
<1>17. ASSUME NEW w \in Workers, Quit(w) \/ Restart(w)
       PROVE  Aged'
  <2>1. /\ UNCHANGED <<place, body, held>> /\ pc[w] \in {"idle", "gone"}
        /\ \A v \in Workers \ {w} : pc'[v] = pc[v]
        /\ pc'[w] \in {"idle", "gone"} /\ faults' = faults
    BY <1>2, <1>17 DEF Quit, Restart, Goto
  <2>2. HeldAge(held'[w], pc'[w], faults')
    BY <1>5, <2>1 DEF HeldAge
  <2>3. QED BY <1>6, <1>7, <1>8, <2>1, <2>2
<1>18. ASSUME NEW w \in Workers, Deliver(w)
       PROVE  Aged'
  <2>1. UNCHANGED <<body, pc, held>>
    BY <1>18 DEF Deliver
  <2>2. \A id \in Ids : \/ place'[id] = place[id]
                        \/ place'[id] # "dlq" /\ place[id] # "dlq"
    BY <1>2, <1>3, <1>18 DEF Deliver
  <2>3. QED BY <1>6, <1>7, <1>8, <2>1, <2>2
<1>19. ASSUME NEW id \in Ids, Expire(id)
       PROVE  Aged'
  <2>1. UNCHANGED <<body, pc, held>>
    BY <1>19 DEF Expire
  <2>2. \A o \in Ids : \/ place'[o] = place[o]
                       \/ place'[o] # "dlq" /\ place[o] # "dlq"
    BY <1>2, <1>3, <1>19 DEF Expire
  <2>3. QED BY <1>6, <1>7, <1>8, <2>1, <2>2
<1>20. CASE DeleteBuckets
  <2>1. UNCHANGED <<pc, held>>
    BY <1>20 DEF DeleteBuckets
  <2>2. \A o \in Ids : \/ place'[o] = place[o] /\ body'[o] = body[o]
                       \/ body'[o] = Blank
    BY <1>20 DEF DeleteBuckets
  <2>3. QED BY <1>6, <1>7, <1>8, <2>1, <2>2
<1>21. CASE Declare \/ UNCHANGED vars
  <2>1. UNCHANGED <<place, body, pc, held>>
    BY <1>21 DEF Declare, vars
  <2>2. QED BY <1>6, <1>7, <1>8, <2>1
<1>22. QED
  BY <1>11, <1>12, <1>13, <1>14, <1>15, <1>16, <1>17, <1>18, <1>19, <1>20, <1>21
     DEF Next, Handle

\* Nothing has aged initially.
LEMMA InitAged == Init => Aged
<1> SUFFICES ASSUME Init PROVE Aged
  OBVIOUS
<1>1. /\ \A id \in Ids : body[id] = Blank
      /\ \A w \in Workers : held[w] = Blank
      /\ faults = 0
  BY DEF Init
<1>2. 0 \in Nat
  OBVIOUS
<1>3. QED BY <1>1, <1>2, BlankAge, AgedParts

\* The retries of a task end in bounded time: after n of them it is no older
\* than the n buckets and a timeout for every attempt and every fault
\* (retryBucket, consumer.go:254; docs/06 4.1).
THEOREM RetriesEndInTime == Spec => []RetryWindow
<1>1. ConsumerInv /\ Aged /\ [Next]_vars => Aged'
  BY AgedStep
<1>2. ConsumerInv /\ Aged => RetryWindow
  BY AttemptAge DEF RetryWindow
<1>3. QED BY InitAged, ConsumerInvariant, <1>1, <1>2, PTL DEF Spec
=============================================================================
