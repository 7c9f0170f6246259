---------------------------- MODULE ReserveProofs ----------------------------
(***************************************************************************)
(* Proofs about Reserve: its types, with amounts that never go negative;   *)
(* that the reclaim leaves every request alone that may still settle and   *)
(* has not been in flight for the threshold; that the reclaim never drops  *)
(* the key of a leaked hold; and that the holds of a hash never exceed     *)
(* what it was loaded with.  Requests may take any time, and any reclaim   *)
(* may fail.                                                               *)
(***************************************************************************)
EXTENDS Reserve, Sums, TLAPS

\* What reclaimScript moves back is no more than what is frozen.
LEMMA ReturnableBound ==
    ASSUME TypeOK, NEW r \in Requests, cache[Owner[r]] # NoCache
    PROVE  /\ [avail |-> cache[Owner[r]].avail + Returnable(r),
               frozen |-> cache[Owner[r]].frozen - Returnable(r)] \in Hash
           /\ Returnable(r) \in Nat
<1>1. cache[Owner[r]] \in Hash
  BY ReserveAssumption DEF TypeOK
<1>2. /\ cache[Owner[r]].frozen \in Nat
      /\ cache[Owner[r]].avail \in Nat
      /\ Est[r] \in Nat
  BY <1>1, ReserveAssumption DEF Hash
<1>3. Returnable(r) \in Nat /\ Returnable(r) <= cache[Owner[r]].frozen
  BY <1>2 DEF Returnable
<1>4. QED BY <1>2, <1>3 DEF Hash

\* What reserveScript leaves is not negative.
LEMMA GrantBound ==
    ASSUME TypeOK, NEW r \in Requests, Grant(r)
    PROVE  [avail |-> cache[Owner[r]].avail - Est[r],
            frozen |-> cache[Owner[r]].frozen + Est[r]] \in Hash
<1>1. cache[Owner[r]] \in Hash /\ cache[Owner[r]].avail >= Est[r]
  BY ReserveAssumption DEF Grant, Affordable, TypeOK
<1>2. QED BY <1>1, ReserveAssumption DEF Hash

\* Deleting the hash keeps the types.
LEMMA ResetTypes ==
    ASSUME TypeOK, NEW r \in Requests, Reset(r) \/ UNCHANGED redisVars
    PROVE  /\ cache' \in [Users -> Hash \cup {NoCache}]
           /\ audit' \in [Requests -> {NoAudit} \cup Nat]
           /\ loaded' \in [Users -> Nat]
           /\ hold' \subseteq Requests
BY DEF TypeOK, Reset, redisVars

\* Every step keeps the types.
LEMMA TypeStep == TypeOK /\ LoopBound /\ [Next]_vars => TypeOK'
<1> SUFFICES ASSUME TypeOK, LoopBound, [Next]_vars PROVE TypeOK'
  OBVIOUS
<1>0. TypeOK /\ LoopBound
  OBVIOUS
<1> DEFINE Goal == TypeOK'
<1>1. ASSUME NEW r \in Requests,
             \/ Begin(r) \/ Refuse(r) \/ Serve(r) \/ GiveUp(r)
             \/ GatewayCrash(r) \/ DeadLetter(r)
      PROVE  Goal
  BY <1>0, <1>1
     DEF Begin, Refuse, Serve, GiveUp, GatewayCrash, DeadLetter, Goto,
         Phases, pgVars, redisVars, reclaimVars, TypeOK
<1>2. ASSUME NEW r \in Requests, Grant(r) PROVE Goal
  BY <1>0, <1>2, GrantBound, ReserveAssumption
     DEF Grant, Goto, Phases, pgVars, reclaimVars, TypeOK
<1>3. ASSUME NEW r \in Requests, Unloaded(r) PROVE Goal
  <2>1. attempt[r] \in 0 .. 1
    BY <1>0, <1>3 DEF Unloaded, LoopBound, TypeOK
  <2>2. attempt[r] + 1 \in 0 .. 2
    BY <2>1
  <2>3. QED
    BY <1>0, <1>3, <2>2
       DEF Unloaded, Goto, Phases, pgVars, redisVars, reclaimVars, TypeOK
<1>4. ASSUME NEW r \in Requests, ReadBalance(r) PROVE Goal
  BY <1>0, <1>4, ReserveAssumption
     DEF ReadBalance, Goto, Phases, pgVars, redisVars, reclaimVars, TypeOK
<1>5. ASSUME NEW r \in Requests, Fill(r) PROVE Goal
  BY <1>0, <1>5, ReserveAssumption
     DEF Fill, Filled, Hash, Goto, Phases, pgVars, reclaimVars, TypeOK
<1>6. ASSUME NEW r \in Requests, WriteAudit(r) \/ DropKey(r) PROVE Goal
  BY <1>0, <1>6
     DEF WriteAudit, DropKey, Goto, Phases, pgVars, reclaimVars, TypeOK
<1>7. ASSUME NEW r \in Requests, Abort(r) \/ Release(r) PROVE Goal
  <2>1. /\ Reset(r) \/ UNCHANGED redisVars
        /\ pc' \in [Requests -> Phases]
        /\ UNCHANGED <<pgVars, attempt, fetched, life, reclaimVars>>
    BY <1>0, <1>7 DEF Abort, Release, Reset, Goto, Phases, TypeOK
  <2>2. QED
    BY <1>0, <2>1, ResetTypes DEF pgVars, reclaimVars, TypeOK
<1>8. ASSUME NEW r \in Requests, Settle(r) PROVE Goal
  <2>1. (IF pg[Owner[r]] >= Cost[r] THEN pg[Owner[r]] - Cost[r] ELSE 0) \in Nat
    BY <1>0, ReserveAssumption DEF TypeOK
  <2>2. pg' \in [Users -> Nat]
    BY <1>0, <1>8, <2>1 DEF Settle, TypeOK
  <2>3. QED
    BY <1>0, <1>8, <2>2
       DEF Settle, Goto, Phases, redisVars, reclaimVars, TypeOK
<1>9. CASE Judge
  <2>1. \A batch : \A r \in Requests :
           (IF r \in batch THEN Verdict(r) ELSE "none")
              \in {"none", "return", "clear"}
    BY DEF Verdict
  <2>2. QED
    BY <1>0, <1>9, <2>1 DEF Judge, pgVars, redisVars, requestVars, TypeOK
<1>10. ASSUME NEW r \in Requests, Return(r) PROVE Goal
  <2>1. loaded' \in [Users -> Nat]
    BY <1>0, <1>10, ReturnableBound, ReserveAssumption DEF Return, TypeOK
  <2>2. /\ cache' \in [Users -> Hash \cup {NoCache}]
        /\ hold' \subseteq Requests
    BY <1>0, <1>10, ReturnableBound, ReserveAssumption DEF Return, TypeOK
  <2>3. QED
    BY <1>0, <1>10, <2>1, <2>2 DEF Return, pgVars, requestVars, TypeOK
<1>11. ASSUME NEW r \in Requests, Clear(r) \/ ReturnFails(r) PROVE Goal
  BY <1>0, <1>11 DEF Clear, ReturnFails, pgVars, redisVars, requestVars, TypeOK
<1>12. CASE ReclaimCrash \/ ReclaimFails
  BY <1>0, <1>12
     DEF ReclaimCrash, ReclaimFails, pgVars, redisVars, requestVars, TypeOK
<1>13. CASE Tick
  <2>1. life' \in [Requests -> Nat]
    BY <1>0, <1>13 DEF Tick, TypeOK
  <2>2. \A r \in Requests :
           (IF audit[r] = NoAudit \/ audit[r] + 1 >= TTL THEN NoAudit
            ELSE audit[r] + 1) \in {NoAudit} \cup Nat
    BY <1>0 DEF TypeOK
  <2>3. audit' \in [Requests -> {NoAudit} \cup Nat]
    BY <1>13, <2>2 DEF Tick
  <2>4. QED
    BY <1>0, <1>13, <2>1, <2>3 DEF Tick, pgVars, TypeOK
<1>14. CASE UNCHANGED vars
  BY <1>0, <1>14
     DEF vars, pgVars, redisVars, requestVars, reclaimVars, TypeOK
<1>15. QED
  BY <1>1, <1>2, <1>3, <1>4, <1>5, <1>6, <1>7, <1>8, <1>9, <1>10, <1>11,
     <1>12, <1>13, <1>14
     DEF Next, RequestStep, ReclaimStep

\* Every step keeps the bound of the loop.
LEMMA LoopStep == TypeOK /\ LoopBound /\ [Next]_vars => LoopBound'
<1> SUFFICES ASSUME TypeOK, LoopBound, [Next]_vars PROVE LoopBound'
  OBVIOUS
<1>0. pc \in [Requests -> Phases] /\ attempt \in [Requests -> 0..2]
  BY DEF TypeOK
<1> DEFINE Goal == LoopBound'
<1> USE DEF LoopBound
\* Steps that count nothing and leave a request outside the loop, or in it.
<1>a. ASSUME NEW r \in Requests, NEW phase \in Phases,
             phase \in {"new", "script"} => attempt[r] < 2,
             Goto(r, phase), UNCHANGED attempt
      PROVE  Goal
  BY <1>0, <1>a DEF Goto
<1>b. ASSUME UNCHANGED <<pc, attempt>> PROVE Goal
  BY <1>b
<1>1. ASSUME NEW r \in Requests, Begin(r) PROVE Goal
  <2>1. attempt[r] < 2
    BY <1>1 DEF Begin
  <2>2. QED BY <1>1, <1>a, <2>1 DEF Begin, Phases
<1>2. ASSUME NEW r \in Requests, Unloaded(r) PROVE Goal
  <2>1. /\ \A s \in Requests : s # r => pc'[s] = pc[s] /\ attempt'[s] = attempt[s]
        /\ pc'[r] = "read"
    BY <1>0, <1>2 DEF Unloaded, Goto
  <2>2. QED BY <2>1
<1>3. ASSUME NEW r \in Requests, Fill(r) PROVE Goal
  <2>1. CASE attempt[r] < 2
    BY <1>3, <1>a, <2>1 DEF Fill, Phases
  <2>2. CASE ~(attempt[r] < 2)
    BY <1>3, <1>a, <2>2 DEF Fill, Phases
  <2>3. QED BY <2>1, <2>2
<1>4. ASSUME NEW r \in Requests, Grant(r) \/ Refuse(r) \/ ReadBalance(r) PROVE Goal
  BY <1>4, <1>a DEF Grant, Refuse, ReadBalance, Phases
<1>5. ASSUME NEW r \in Requests,
             WriteAudit(r) \/ Serve(r) \/ GiveUp(r) \/ DropKey(r)
      PROVE  Goal
  BY <1>5, <1>a DEF WriteAudit, Serve, GiveUp, DropKey, Phases
<1>6. ASSUME NEW r \in Requests, Abort(r) \/ GatewayCrash(r) PROVE Goal
  BY <1>6, <1>a DEF Abort, Reset, GatewayCrash, Phases
<1>7. ASSUME NEW r \in Requests, Settle(r) \/ Release(r) \/ DeadLetter(r) PROVE Goal
  BY <1>7, <1>a DEF Settle, Release, Reset, DeadLetter, Phases
<1>8. CASE ReclaimStep
  BY <1>8, <1>b DEF ReclaimStep, Judge, Return, ReturnFails, Clear,
     ReclaimCrash, ReclaimFails, requestVars
<1>9. CASE Tick
  BY <1>9, <1>b DEF Tick, requestVars
<1>10. CASE UNCHANGED vars
  BY <1>10, <1>b DEF vars, requestVars
<1>11. QED
  BY <1>1, <1>2, <1>3, <1>4, <1>5, <1>6, <1>7, <1>8, <1>9, <1>10
     DEF Next, RequestStep

\* No step lets the reclaim judge a request in flight before its threshold,
\* and no request leaves the ungranted phases or comes back to flight with a
\* key, a verdict or a ledger row.
LEMMA KeyStep == ReserveInv /\ [Next]_vars => KeyAge' /\ ReturnsDeadOnly'
<1> SUFFICES ASSUME ReserveInv, [Next]_vars
             PROVE  KeyAge' /\ ReturnsDeadOnly'
  OBVIOUS
<1>0. TypeOK /\ KeyAge /\ ReturnsDeadOnly
  BY DEF ReserveInv
<1> DEFINE Goal == KeyAge' /\ ReturnsDeadOnly'
<1> USE ReserveAssumption DEF KeyAge, ReturnsDeadOnly, Alive, InFlight, Ungranted
<1>1. ASSUME NEW r \in Requests,
             \/ Begin(r) \/ Refuse(r) \/ Serve(r) \/ GiveUp(r)
             \/ GatewayCrash(r) \/ DeadLetter(r)
      PROVE  Goal
  BY <1>0, <1>1
     DEF Begin, Refuse, Serve, GiveUp, GatewayCrash, DeadLetter, Goto,
         pgVars, redisVars, reclaimVars, TypeOK
<1>2. ASSUME NEW r \in Requests,
             Grant(r) \/ Unloaded(r) \/ ReadBalance(r) \/ Fill(r)
      PROVE  Goal
  BY <1>0, <1>2
     DEF Grant, Unloaded, ReadBalance, Fill, Goto, NoAudit,
         pgVars, redisVars, reclaimVars, TypeOK
<1>3. ASSUME NEW r \in Requests, WriteAudit(r) PROVE Goal
  BY <1>0, <1>3 DEF WriteAudit, Goto, pgVars, reclaimVars, TypeOK
<1>4. ASSUME NEW r \in Requests, Abort(r) \/ Release(r) \/ DropKey(r)
      PROVE  Goal
  <2>1. /\ pc[r] \in {"abort", "reset", "key"}
        /\ \E phase \in {"key", "done", "lost"} : pc' = [pc EXCEPT ![r] = phase]
        /\ audit' = [audit EXCEPT ![r] = NoAudit] \/ audit' = audit
        /\ UNCHANGED <<booked, life, verdict>>
    BY <1>4 DEF Abort, Release, Reset, DropKey, Goto, pgVars, redisVars,
       reclaimVars
  <2>2. QED
    BY <1>0, <2>1 DEF TypeOK
<1>5. ASSUME NEW r \in Requests, Settle(r) PROVE Goal
  BY <1>0, <1>5 DEF Settle, Goto, redisVars, reclaimVars, TypeOK
<1>6. CASE Judge
  <2>1. PICK batch \in SUBSET {r \in Requests : Expired(audit[r])} :
           verdict' = [r \in Requests |->
                          IF r \in batch THEN Verdict(r) ELSE "none"]
    BY <1>6 DEF Judge
  <2>2. UNCHANGED <<pc, audit, life, booked>>
    BY <1>6 DEF Judge, pgVars, redisVars, requestVars
  <2>3. ASSUME NEW r \in Requests, verdict'[r] # "none"
        PROVE  /\ audit[r] \in Nat /\ audit[r] >= Threshold
               /\ verdict'[r] = "return" => r \notin booked
    BY <1>0, <2>1, <2>3 DEF Expired, NoAudit, Verdict, TypeOK
  <2>4. ASSUME NEW r \in Requests, verdict'[r] # "none", pc[r] \in InFlight
        PROVE  life[r] >= Threshold
    BY <1>0, <2>3, <2>4 DEF TypeOK
  <2>5. ASSUME NEW r \in Requests, pc[r] \in Ungranted
        PROVE  verdict'[r] = "none"
    BY <1>0, <2>3, <2>5 DEF NoAudit
  <2>6. QED
    BY <1>0, <2>2, <2>3, <2>4, <2>5
<1>7. ASSUME NEW r \in Requests, Return(r) \/ ReturnFails(r) \/ Clear(r)
      PROVE  Goal
  <2>1. /\ verdict[r] \in {"return", "clear"}
        /\ \/ verdict' = [verdict EXCEPT ![r] = "none"]
           \/ verdict' = [verdict EXCEPT ![r] = "clear"]
        /\ audit' = [audit EXCEPT ![r] = NoAudit] \/ audit' = audit
        /\ UNCHANGED <<pc, booked, life>>
    BY <1>7 DEF Return, ReturnFails, Clear, pgVars, redisVars, requestVars
  <2>2. /\ verdict' \in [Requests -> {"none", "return", "clear"}]
        /\ \A s \in Requests :
              /\ verdict'[s] = "return" => verdict[s] = "return"
              /\ verdict[s] = "none" => verdict'[s] = "none"
              /\ audit'[s] = audit[s] \/ audit'[s] = NoAudit
    BY <1>0, <2>1 DEF TypeOK
  <2>3. \A s \in Requests : audit'[s] = NoAudit => audit'[s] <= life[s]
    BY <1>0 DEF TypeOK, NoAudit
  <2>4. QED
    BY <1>0, <2>1, <2>2, <2>3
<1>8. CASE ReclaimCrash \/ ReclaimFails
  BY <1>0, <1>8 DEF ReclaimCrash, ReclaimFails, pgVars, redisVars, requestVars
<1>9. CASE Tick
  <2>1. \A r \in Requests :
           /\ life'[r] >= life[r]
           /\ pc[r] \in InFlight => life[r] >= Threshold \/ life'[r] = life[r] + 1
    BY <1>0, <1>9 DEF Tick, TypeOK
  <2>2. \A r \in Requests :
           audit'[r] = NoAudit \/ (audit[r] # NoAudit /\ audit'[r] = audit[r] + 1)
    BY <1>9 DEF Tick
  <2>3. UNCHANGED <<pc, booked, verdict>> /\ life' \in [Requests -> Nat]
    BY <1>0, <1>9 DEF Tick, pgVars, TypeOK
  <2>4. QED
    BY <1>0, <2>1, <2>2, <2>3 DEF TypeOK, NoAudit
<1>10. CASE UNCHANGED vars
  BY <1>0, <1>10 DEF vars, pgVars, redisVars, requestVars, reclaimVars
<1>11. QED
  BY <1>1, <1>2, <1>3, <1>4, <1>5, <1>6, <1>7, <1>8, <1>9, <1>10
     DEF Next, RequestStep, ReclaimStep

\* The invariant holds before the first request.
LEMMA InitInv == Init => ReserveInv
<1> SUFFICES ASSUME Init PROVE ReserveInv
  OBVIOUS
<1>1. TypeOK
  <2>1. /\ pg \in [Users -> Nat] /\ loaded \in [Users -> Nat]
        /\ cache \in [Users -> Hash \cup {NoCache}]
        /\ booked \subseteq Requests /\ hold \subseteq Requests
        /\ outage \in BOOLEAN
    BY ReserveAssumption DEF Init
  <2>2. /\ audit \in [Requests -> {NoAudit} \cup Nat]
        /\ pc \in [Requests -> Phases]
        /\ verdict \in [Requests -> {"none", "return", "clear"}]
    BY DEF Init, Phases
  <2>3. /\ attempt \in [Requests -> 0 .. 2]
        /\ fetched \in [Requests -> Nat] /\ life \in [Requests -> Nat]
    BY DEF Init
  <2>4. QED BY <2>1, <2>2, <2>3 DEF TypeOK
<1>2. LoopBound /\ KeyAge /\ ReturnsDeadOnly
  BY DEF Init, LoopBound, KeyAge, ReturnsDeadOnly, Alive, InFlight, Ungranted
<1>3. QED BY <1>1, <1>2 DEF ReserveInv

\* ReserveInv is an invariant, however long requests take and whatever the
\* reclaim fails to do.
THEOREM ReserveInvariant == Spec => []ReserveInv
<1>1. ReserveInv /\ [Next]_vars => ReserveInv'
  BY TypeStep, LoopStep, KeyStep DEF ReserveInv
<1>2. QED BY InitInv, <1>1, PTL DEF Spec

\* The reclaim only ever decides to return the hold of a request that is dead
\* and was not settled, or of one that has been in flight for the threshold.
THEOREM ReclaimSparesTheLiving == Spec => []ReturnsDeadOnly
BY ReserveInvariant, PTL DEF ReserveInv

\* Every step keeps LeakInv.
LEMMA LeakStep == ReserveInv /\ LeakInv /\ [Next]_vars => LeakInv'
<1> SUFFICES ASSUME ReserveInv, LeakInv, [Next]_vars PROVE LeakInv'
  OBVIOUS
<1>0. TypeOK /\ KeyAge /\ LeakInv
  BY DEF ReserveInv
<1> DEFINE Goal == LeakInv'
<1> USE ReserveAssumption DEF LeakInv
<1>1. ASSUME NEW r \in Requests,
             \/ Begin(r) \/ Refuse(r) \/ Unloaded(r) \/ ReadBalance(r)
             \/ Serve(r) \/ GiveUp(r) \/ GatewayCrash(r) \/ DeadLetter(r)
             \/ WriteAudit(r)
      PROVE  Goal
  <2>1. /\ pc[r] \notin {"reset", "key", "done"}
        /\ \E phase \in Phases : pc' = [pc EXCEPT ![r] = phase]
        /\ UNCHANGED <<verdict, hold, booked, cache>>
    BY <1>1
       DEF Begin, Refuse, Unloaded, ReadBalance, Serve, GiveUp, GatewayCrash,
           DeadLetter, WriteAudit, Goto, Phases, pgVars, redisVars, reclaimVars
  <2>2. QED BY <1>0, <2>1 DEF TypeOK
<1>2. ASSUME NEW r \in Requests, Grant(r) PROVE Goal
  <2>1. verdict[r] = "none" /\ r \notin booked /\ pc[r] = "script"
    BY <1>0, <1>2 DEF Grant, KeyAge, Ungranted
  <2>2. cache'[Owner[r]] # NoCache
    <3>1. cache'[Owner[r]] \in Hash
      BY <1>0, <1>2, GrantBound DEF Grant, TypeOK
    <3>2. QED BY <3>1 DEF Hash
  <2>3. \A u \in Users : cache'[u] = NoCache => cache[u] = NoCache
    BY <1>0, <1>2, <2>2 DEF Grant, TypeOK
  <2>4. QED
    BY <1>0, <1>2, <2>1, <2>2, <2>3
       DEF Grant, Goto, pgVars, reclaimVars, TypeOK
<1>3. ASSUME NEW r \in Requests, Fill(r) PROVE Goal
  <2>1. \A s \in Requests : Owner[s] = Owner[r] => s \notin hold'
    BY <1>3 DEF Fill, Requested
  <2>2. \A u \in Users : u # Owner[r] => cache'[u] = cache[u]
    BY <1>0, <1>3 DEF Fill, TypeOK
  <2>3. hold' \subseteq hold
    BY <1>3 DEF Fill
  <2>4. QED
    BY <1>0, <1>3, <2>1, <2>2, <2>3
       DEF Fill, Goto, pgVars, reclaimVars, TypeOK
<1>4. ASSUME NEW r \in Requests, Abort(r) \/ Release(r) \/ DropKey(r) PROVE Goal
  <2>1. Reset(r) \/ UNCHANGED <<cache, hold>>
    BY <1>4 DEF Abort, Release, DropKey, redisVars
  <2>2. /\ hold' \subseteq hold
        /\ \A s \in Requests : cache'[Owner[s]] = NoCache => s \notin hold'
    <3>1. CASE Reset(r) BY <1>0, <3>1 DEF Reset, Requested, TypeOK
    <3>2. CASE UNCHANGED <<cache, hold>> BY <1>0, <3>2
    <3>3. QED BY <2>1, <3>1, <3>2
  <2>3. /\ UNCHANGED <<verdict, booked>>
        /\ \/ pc[r] = "abort"
           \/ pc'[r] \in {"key", "done"}
        /\ \A s \in Requests : s # r => pc'[s] = pc[s]
    BY <1>0, <1>4 DEF Abort, Release, Reset, DropKey, Goto, pgVars, reclaimVars,
       TypeOK
  <2>4. QED BY <1>0, <2>2, <2>3 DEF TypeOK
<1>5. ASSUME NEW r \in Requests, Settle(r) PROVE Goal
  BY <1>0, <1>5 DEF Settle, Goto, redisVars, reclaimVars, TypeOK
<1>6. CASE Judge
  <2>1. \A r \in Requests : verdict'[r] = "clear" => r \in booked
    BY <1>0, <1>6 DEF Judge, Verdict
  <2>2. QED
    BY <1>0, <1>6, <2>1 DEF Judge, pgVars, redisVars, requestVars
<1>7. ASSUME NEW r \in Requests, Return(r) PROVE Goal
  <2>1. r \notin hold' /\ hold' \subseteq hold
    BY <1>0, <1>7 DEF Return
  <2>2. \A u \in Users : cache'[u] = NoCache => cache[u] = NoCache
    <3>1. CASE cache[Owner[r]] = NoCache
      BY <1>7, <3>1 DEF Return
    <3>2. CASE cache[Owner[r]] # NoCache
      <4>1. cache' = [cache EXCEPT ![Owner[r]] =
                        [avail |-> @.avail + Returnable(r),
                         frozen |-> @.frozen - Returnable(r)]]
        BY <1>7, <3>2 DEF Return
      <4>2. cache'[Owner[r]] \in Hash
        BY <1>0, <3>2, <4>1, ReturnableBound DEF TypeOK
      <4>3. QED BY <1>0, <4>1, <4>2 DEF TypeOK, Hash
    <3>3. QED BY <3>1, <3>2
  <2>3. \A s \in Requests : s # r => verdict'[s] = verdict[s]
    BY <1>0, <1>7 DEF Return, TypeOK
  <2>4. QED
    BY <1>0, <1>7, <2>1, <2>2, <2>3 DEF Return, pgVars, requestVars
<1>8. ASSUME NEW r \in Requests, Clear(r) \/ ReturnFails(r) PROVE Goal
  BY <1>0, <1>8 DEF Clear, ReturnFails, pgVars, redisVars, requestVars, TypeOK
<1>9. CASE ReclaimCrash \/ ReclaimFails
  BY <1>0, <1>9 DEF ReclaimCrash, ReclaimFails, pgVars, redisVars, requestVars
<1>10. CASE Tick
  BY <1>0, <1>10 DEF Tick, pgVars
<1>11. CASE UNCHANGED vars
  BY <1>0, <1>11 DEF vars, pgVars, redisVars, requestVars, reclaimVars
<1>12. QED
  BY <1>1, <1>2, <1>3, <1>4, <1>5, <1>6, <1>7, <1>8, <1>9, <1>10, <1>11
     DEF Next, RequestStep, ReclaimStep

\* No step but the passing of time takes the key of a leaked hold that stays in
\* the hash.
LEMMA KeyKept ==
    ASSUME ReserveInv, LeakInv, [Next]_vars, NEW r \in Requests, Forgotten(r)
    PROVE  Tick
<1> USE DEF Forgotten
<1>0. audit \in [Requests -> {NoAudit} \cup Nat]
  BY DEF ReserveInv, TypeOK
<1>1. ASSUME NEW s \in Requests, WriteAudit(s) PROVE FALSE
  BY <1>0, <1>1 DEF WriteAudit, NoAudit
<1>2. ASSUME NEW s \in Requests, DropKey(s) PROVE FALSE
  <2>1. s # r
    BY <1>2 DEF DropKey
  <2>2. QED
    BY <1>0, <1>2, <2>1 DEF DropKey
<1>3. ASSUME NEW s \in Requests, Clear(s) PROVE FALSE
  <2>1. s # r
    BY <1>3 DEF Clear, LeakInv
  <2>2. QED
    BY <1>0, <1>3, <2>1 DEF Clear
<1>4. ~UNCHANGED audit
  OBVIOUS
<1>5. QED
  BY <1>1, <1>2, <1>3, <1>4
     DEF Next, RequestStep, ReclaimStep, Begin, Grant, Refuse, Unloaded,
         ReadBalance, Fill, Serve, GiveUp, Abort, Reset, Release, Settle,
         DeadLetter, GatewayCrash, Judge, Return, ReturnFails, ReclaimCrash,
         ReclaimFails, redisVars, vars

\* A leaked hold with an audit key keeps it until the hold is returned or the
\* key expires, for any number of users and requests.
THEOREM ReclaimNeverForgets == Spec => OnlyExpiryForgets
<1>1. Init => LeakInv
  BY ReserveAssumption DEF Init, LeakInv
<1>2. Spec => []ReserveInv
  BY ReserveInvariant
<1>3. ReserveInv /\ LeakInv /\ [Next]_vars => LeakInv'
  BY LeakStep
<1>4. ReserveInv /\ LeakInv /\ [Next]_vars =>
        [(\E r \in Requests : Forgotten(r)) => Tick]_vars
  BY KeyKept
<1>5. QED BY <1>1, <1>2, <1>3, <1>4, PTL DEF Spec, OnlyExpiryForgets

\* No amount in Redis or PostgreSQL is ever negative, however long requests
\* take.
THEOREM AmountsTyped == Spec => []TypeOK
<1>1. Init => TypeOK /\ LoopBound
  BY InitInv DEF ReserveInv
<1>2. TypeOK /\ LoopBound /\ [Next]_vars => (TypeOK /\ LoopBound)'
  BY TypeStep, LoopStep
<1>3. QED BY <1>1, <1>2, PTL DEF Spec

-----------------------------------------------------------------------------
(***************************************************************************)
(* The sums of holds.                                                      *)
(***************************************************************************)
Held(u) == hold \cap Requested(u)

\* HoldInv is inductive with holds that can be counted.
Holds == IsFiniteSet(hold) /\ HoldInv

\* What adding or removing the hold of a request does to the sum of its user.
LEMMA HoldSums ==
    ASSUME IsFiniteSet(hold), hold \subseteq Requests, NEW r \in Requests
    PROVE  /\ \A u \in Users : SumEst(Held(u)) \in Nat
           /\ r \notin hold =>
                SumEst((hold \cup {r}) \cap Requested(Owner[r]))
                  = SumEst(Held(Owner[r])) + Est[r]
           /\ r \in hold =>
                SumEst(Held(Owner[r]))
                  = SumEst((hold \ {r}) \cap Requested(Owner[r])) + Est[r]
           /\ SumEst((hold \ {r}) \cap Requested(Owner[r])) \in Nat
           /\ \A u \in Users : u # Owner[r] =>
                /\ (hold \cup {r}) \cap Requested(u) = Held(u)
                /\ (hold \ {r}) \cap Requested(u) = Held(u)
<1>1. ASSUME NEW S, S \subseteq hold
      PROVE  /\ IsFiniteSet(S)
             /\ \A x \in S : Est[x] \in Nat /\ Est[x] \in Int
             /\ SumEst(S) = SumFunctionOnSet(Est, S)
             /\ SumEst(S) \in Nat
  <2>1. IsFiniteSet(S)
    BY <1>1, FS_Subset
  <2>2. \A x \in S : Est[x] \in Nat /\ Est[x] \in Int
    BY <1>1, ReserveAssumption
  <2>3. SumEst(S) = SumFunctionOnSet(Est, S)
    BY DEF SumEst
  <2>4. SumFunctionOnSet(Est, S) \in Nat
    BY <2>1, <2>2, SumNat
  <2>5. QED BY <2>1, <2>2, <2>3, <2>4
<1>2. \A u \in Users : Held(u) \subseteq hold
  BY DEF Held
<1>3. Owner[r] \in Users /\ r \in Requested(Owner[r]) /\ Est[r] \in Nat
  BY ReserveAssumption DEF Requested
<1> DEFINE H == Held(Owner[r])
           G == (hold \ {r}) \cap Requested(Owner[r])
<1>4. H \subseteq hold /\ G \subseteq hold
  BY DEF Held
<1>5. ASSUME r \notin hold
      PROVE  SumEst((hold \cup {r}) \cap Requested(Owner[r])) = SumEst(H) + Est[r]
  <2>1. (hold \cup {r}) \cap Requested(Owner[r]) = H \cup {r} /\ r \notin H
    BY <1>3, <1>5 DEF Held
  <2> HIDE DEF H
  <2>2. SumFunctionOnSet(Est, H \cup {r}) = SumFunctionOnSet(Est, H) + Est[r]
    BY <1>1, <1>3, <1>4, <2>1, SumAdd
  <2>3. SumEst(H \cup {r}) = SumFunctionOnSet(Est, H \cup {r})
    BY DEF SumEst
  <2>4. QED BY <1>1, <1>4, <2>1, <2>2, <2>3
<1>6. ASSUME r \in hold
      PROVE  SumEst(H) = SumEst(G) + Est[r]
  <2>1. r \in H /\ H \ {r} = G
    BY <1>3, <1>6 DEF Held
  <2> HIDE DEF H, G
  <2>2. SumFunctionOnSet(Est, H) = Est[r] + SumFunctionOnSet(Est, H \ {r})
    BY <1>1, <1>4, <2>1, SumRemove
  <2>3. SumEst(H) = Est[r] + SumEst(G)
    BY <1>1, <1>4, <2>1, <2>2
  <2>4. SumEst(G) \in Nat
    BY <1>1, <1>4
  <2>5. QED BY <1>3, <2>3, <2>4
<1>7. ASSUME NEW u \in Users, u # Owner[r]
      PROVE  /\ (hold \cup {r}) \cap Requested(u) = Held(u)
             /\ (hold \ {r}) \cap Requested(u) = Held(u)
  BY <1>7 DEF Held, Requested
<1>8. \A u \in Users : SumEst(Held(u)) \in Nat
  BY <1>1, <1>2
<1>9. SumEst(G) \in Nat
  BY <1>1, <1>4
<1>10. QED BY <1>5, <1>6, <1>7, <1>8, <1>9

\* A hash that a step leaves alone, with its holds.
LEMMA WithinStill ==
    ASSUME NEW u \in Users, Within(u), cache'[u] = cache[u],
           loaded'[u] = loaded[u], Held(u)' = Held(u)
    PROVE  Within(u)'
BY DEF Within, Held, SumEst, Requested

\* reserveScript moves the estimate from what is available to what is held.
LEMMA GrantHolds ==
    ASSUME TypeOK, Holds, NEW r \in Requests, Grant(r)
    PROVE  Holds'
<1> DEFINE o == Owner[r]
<1>1. /\ o \in Users /\ Est[r] \in Nat /\ cache[o] \in Hash
      /\ cache[o] # NoCache
      /\ r \notin hold /\ hold' = hold \cup {r} /\ loaded' = loaded
      /\ cache' = [cache EXCEPT ![o] = [avail |-> @.avail - Est[r],
                                        frozen |-> @.frozen + Est[r]]]
      /\ hold \subseteq Requests /\ IsFiniteSet(hold)
  BY ReserveAssumption DEF Grant, TypeOK, Holds, HoldInv, GrantedOnly
<1>2. IsFiniteSet(hold')
  BY <1>1, FS_AddElement
<1>3. GrantedOnly'
  BY DEF Grant, Goto, TypeOK, Holds, HoldInv, GrantedOnly
<1>4. /\ \A u \in Users : SumEst(Held(u)) \in Nat
      /\ SumEst(Held(o))' = SumEst(Held(o)) + Est[r]
      /\ \A u \in Users : u # o => Held(u)' = Held(u)
  <2>1. SumEst(Held(o))' = SumEst((hold \cup {r}) \cap Requested(o))
    BY <1>1 DEF Held, SumEst
  <2>2. QED BY <1>1, <2>1, HoldSums DEF Held
<1> HIDE DEF o
<1>5. Within(o)'
  <2>1. /\ cache'[o].avail = cache[o].avail - Est[r]
        /\ cache'[o].frozen = cache[o].frozen + Est[r]
        /\ cache[o].avail \in Nat /\ cache[o].frozen \in Nat
        /\ loaded[o] \in Nat
    BY <1>1 DEF TypeOK, Hash
  <2>2. /\ cache[o].avail + SumEst(Held(o)) <= loaded[o]
        /\ cache[o].frozen <= SumEst(Held(o))
    BY <1>1 DEF Holds, HoldInv, Within, Held
  <2>3. SumEst(Held(o)) \in Nat
    BY <1>1, <1>4
  <2>4. /\ cache'[o].avail + SumEst(Held(o))' <= loaded'[o]
        /\ cache'[o].frozen <= SumEst(Held(o))'
    BY <1>1, <1>4, <2>1, <2>2, <2>3
  <2>5. QED BY <2>4 DEF Within, Held
<1>6. ASSUME NEW u \in Users, u # o
      PROVE  Within(u)'
  <2>1. cache'[u] = cache[u] /\ loaded'[u] = loaded[u] /\ Within(u)
    BY <1>1, <1>6 DEF TypeOK, Holds, HoldInv
  <2>2. QED BY <1>4, <1>6, <2>1, WithinStill
<1>7. QED BY <1>2, <1>3, <1>5, <1>6 DEF Holds, HoldInv

\* reload and Reset end all holds of the user.
LEMMA ClearedHolds ==
    ASSUME TypeOK, Holds, GrantedOnly', NEW o \in Users,
           hold' = hold \ Requested(o),
           \/ cache' = [cache EXCEPT ![o] = NoCache] /\ loaded' = loaded
           \/ \E b \in Nat : /\ cache' = [cache EXCEPT ![o] = Filled(o, b)]
                             /\ loaded' = [loaded EXCEPT ![o] = b]
    PROVE  Holds'
<1>1. IsFiniteSet(hold')
  BY FS_Subset DEF Holds, HoldInv
<1>2. Held(o)' = {}
  BY DEF Held
<1>3. SumEst(Held(o))' = 0
  <2>1. SumEst(Held(o))' = SumFunctionOnSet(Est, {})
    BY <1>2 DEF SumEst
  <2>2. QED BY <2>1, SumEmpty
<1>4. Within(o)'
  <2>1. CASE cache' = [cache EXCEPT ![o] = NoCache]
    BY <2>1 DEF Within, Held, TypeOK
  <2>2. ASSUME NEW b \in Nat, cache' = [cache EXCEPT ![o] = Filled(o, b)],
               loaded' = [loaded EXCEPT ![o] = b]
        PROVE  Within(o)'
    <3>1. cache'[o].avail = b /\ cache'[o].frozen = 0 /\ loaded'[o] = b
      BY <2>2 DEF TypeOK, Filled
    <3>2. QED BY <1>3, <3>1 DEF Within, Held
  <2>3. QED BY <2>1, <2>2
<1>5. ASSUME NEW u \in Users, u # o
      PROVE  Within(u)'
  <2>1. cache'[u] = cache[u] /\ loaded'[u] = loaded[u] /\ Within(u)
    BY <1>5 DEF TypeOK, Holds, HoldInv
  <2>2. Held(u)' = Held(u)
    BY <1>5 DEF Held, Requested
  <2>3. QED BY <2>1, <2>2, WithinStill
<1>6. QED BY <1>1, <1>4, <1>5 DEF Holds, HoldInv

\* reclaimScript moves back no more than the hold, or adds what it moves to
\* what the hash was loaded with.
LEMMA ReturnHolds ==
    ASSUME TypeOK, Holds, NEW r \in Requests, Return(r), cache[Owner[r]] # NoCache
    PROVE  Holds'
<1> DEFINE o == Owner[r]
           x == Returnable(r)
<1>1. /\ o \in Users /\ Est[r] \in Nat /\ cache[o] \in Hash
      /\ hold' = hold \ {r}
      /\ cache' = [cache EXCEPT ![o] = [avail |-> @.avail + x,
                                        frozen |-> @.frozen - x]]
      /\ loaded' = IF r \in hold THEN loaded
                   ELSE [loaded EXCEPT ![o] = @ + x]
      /\ hold \subseteq Requests /\ IsFiniteSet(hold) /\ UNCHANGED pc
  BY ReserveAssumption DEF Return, TypeOK, Holds, HoldInv, requestVars
<1>2. IsFiniteSet(hold') /\ GrantedOnly'
  BY <1>1, FS_Subset DEF Holds, HoldInv, GrantedOnly
<1>3. /\ \A u \in Users : SumEst(Held(u)) \in Nat
      /\ SumEst(Held(o))' \in Nat
      /\ r \in hold => SumEst(Held(o)) = SumEst(Held(o))' + Est[r]
      /\ r \notin hold => SumEst(Held(o))' = SumEst(Held(o))
      /\ \A u \in Users : u # o => Held(u)' = Held(u)
  <2>1. SumEst(Held(o))' = SumEst((hold \ {r}) \cap Requested(o))
    BY <1>1 DEF Held, SumEst
  <2>2. r \notin hold => hold \ {r} = hold
    OBVIOUS
  <2>3. QED BY <1>1, <2>1, <2>2, HoldSums DEF Held
<1>4. /\ x \in Nat /\ x <= Est[r] /\ x <= cache[o].frozen
      /\ x = Est[r] \/ x = cache[o].frozen
      /\ cache[o].avail \in Nat /\ cache[o].frozen \in Nat
      /\ loaded[o] \in Nat
  BY <1>1 DEF Returnable, Hash, TypeOK
<1>5. /\ cache'[o].avail = cache[o].avail + x
      /\ cache'[o].frozen = cache[o].frozen - x
      /\ r \in hold => loaded'[o] = loaded[o]
      /\ r \notin hold => loaded'[o] = loaded[o] + x
  BY <1>1 DEF TypeOK
<1>6. ASSUME NEW u \in Users, u # o
      PROVE  Within(u)'
  <2>1. cache'[u] = cache[u] /\ loaded'[u] = loaded[u] /\ Within(u)
    BY <1>1, <1>6 DEF TypeOK, Holds, HoldInv
  <2>2. QED BY <1>3, <1>6, <2>1, WithinStill
<1> HIDE DEF o, x
<1>7. Within(o)'
  <2>1. /\ cache[o].avail + SumEst(Held(o)) <= loaded[o]
        /\ cache[o].frozen <= SumEst(Held(o))
    BY <1>1 DEF o, Holds, HoldInv, Within, Held
  <2>2. SumEst(Held(o)) \in Nat
    BY <1>1, <1>3
  <2>3. CASE r \in hold
    <3>1. /\ cache'[o].avail + SumEst(Held(o))' <= loaded'[o]
          /\ cache'[o].frozen <= SumEst(Held(o))'
      BY <1>1, <1>3, <1>4, <1>5, <2>1, <2>2, <2>3
    <3>2. QED BY <3>1 DEF Within, Held
  <2>4. CASE r \notin hold
    <3>1. /\ cache'[o].avail + SumEst(Held(o))' <= loaded'[o]
          /\ cache'[o].frozen <= SumEst(Held(o))'
      BY <1>1, <1>3, <1>4, <1>5, <2>1, <2>2, <2>4
    <3>2. QED BY <3>1 DEF Within, Held
  <2>5. QED BY <2>3, <2>4
<1>8. QED BY <1>2, <1>6, <1>7 DEF Holds, HoldInv

\* Every step keeps Holds.
LEMMA HoldsStep ==
    ASSUME TypeOK, Holds, [Next]_vars
    PROVE  Holds'
<1>1. ASSUME UNCHANGED <<cache, hold, loaded>>, GrantedOnly'
      PROVE  Holds'
  <2>1. \A u \in Users : Within(u)'
    BY <1>1, WithinStill DEF Holds, HoldInv, Held
  <2>2. QED BY <1>1, <2>1 DEF Holds, HoldInv
<1>2. ASSUME NEW r \in Requests,
             \/ Begin(r) \/ Refuse(r) \/ Unloaded(r) \/ ReadBalance(r)
             \/ WriteAudit(r) \/ Serve(r) \/ GiveUp(r) \/ GatewayCrash(r)
             \/ Settle(r) \/ DeadLetter(r) \/ Clear(r) \/ ReturnFails(r)
             \/ DropKey(r)
      PROVE  Holds'
  <2>1. UNCHANGED <<cache, hold, loaded>>
    BY <1>2 DEF Begin, Refuse, Unloaded, ReadBalance, WriteAudit, Serve, GiveUp,
       GatewayCrash, Settle, DeadLetter, Clear, ReturnFails, DropKey, redisVars
  <2>2. GrantedOnly'
    BY <1>2, <2>1 DEF Begin, Refuse, Unloaded, ReadBalance, WriteAudit, Serve,
       GiveUp, GatewayCrash, Settle, DeadLetter, Clear, ReturnFails, DropKey,
       Goto, requestVars, TypeOK, Holds, HoldInv, GrantedOnly
  <2>3. QED BY <1>1, <2>1, <2>2
<1>3. ASSUME NEW r \in Requests, Grant(r) PROVE Holds'
  BY <1>3, GrantHolds
<1>4. ASSUME NEW r \in Requests, Fill(r) PROVE Holds'
  <2>1. /\ Owner[r] \in Users /\ fetched[r] \in Nat
        /\ hold' = hold \ Requested(Owner[r])
        /\ cache' = [cache EXCEPT ![Owner[r]] = Filled(Owner[r], fetched[r])]
        /\ loaded' = [loaded EXCEPT ![Owner[r]] = fetched[r]]
    BY <1>4, ReserveAssumption DEF Fill, TypeOK
  <2>2. r \notin hold'
    BY <2>1 DEF Requested
  <2>3. GrantedOnly'
    BY <1>4, <2>1, <2>2 DEF Fill, Goto, TypeOK, Holds, HoldInv, GrantedOnly
  <2>4. QED BY <2>1, <2>3, ClearedHolds
<1>5. ASSUME NEW r \in Requests, Abort(r) \/ Release(r) PROVE Holds'
  <2>1. \E phase \in {"key", "done", "lost"} : pc' = [pc EXCEPT ![r] = phase]
    BY <1>5 DEF Abort, Release, Reset, Goto
  <2>2. hold' \subseteq hold
    BY <1>5 DEF Abort, Release, Reset, redisVars
  <2>3. GrantedOnly'
    BY <2>1, <2>2 DEF TypeOK, Holds, HoldInv, GrantedOnly
  <2>4. CASE UNCHANGED redisVars
    BY <1>1, <2>3, <2>4 DEF redisVars
  <2>5. CASE Reset(r)
    <3>1. /\ Owner[r] \in Users
          /\ hold' = hold \ Requested(Owner[r])
          /\ cache' = [cache EXCEPT ![Owner[r]] = NoCache] /\ loaded' = loaded
      BY <2>5, ReserveAssumption DEF Reset
    <3>2. QED BY <2>3, <3>1, ClearedHolds
  <2>6. QED BY <1>5, <2>4, <2>5 DEF Abort, Release
<1>6. ASSUME NEW r \in Requests, Return(r) PROVE Holds'
  <2>1. CASE cache[Owner[r]] # NoCache
    BY <1>6, <2>1, ReturnHolds
  <2>2. CASE cache[Owner[r]] = NoCache
    <3>1. UNCHANGED <<cache, hold, loaded, pc>>
      BY <1>6, <2>2 DEF Return, requestVars
    <3>2. QED BY <1>1, <3>1 DEF Holds, HoldInv, GrantedOnly
  <2>3. QED BY <2>1, <2>2
<1>7. CASE Judge \/ ReclaimCrash \/ ReclaimFails \/ Tick \/ UNCHANGED vars
  <2>1. UNCHANGED <<cache, hold, loaded, pc>>
    BY <1>7 DEF Judge, ReclaimCrash, ReclaimFails, Tick, vars, redisVars,
       requestVars
  <2>2. QED BY <1>1, <2>1 DEF Holds, HoldInv, GrantedOnly
<1>8. QED
  BY <1>2, <1>3, <1>4, <1>5, <1>6, <1>7 DEF Next, RequestStep, ReclaimStep

\* The invariant of the holds: in every interleaving of requests, reloads and
\* reclaims, and however late a request settles.
THEOREM HoldsInvariant == Spec => [](TypeOK /\ Holds)
<1>1. Init => TypeOK /\ LoopBound /\ Holds
  <2>1. Init => TypeOK /\ LoopBound
    BY InitInv DEF ReserveInv
  <2>2. Init => Holds
    BY FS_EmptySet DEF Init, Holds, HoldInv, GrantedOnly, Within
  <2>3. QED BY <2>1, <2>2
<1>2. TypeOK /\ LoopBound /\ Holds /\ [Next]_vars
        => (TypeOK /\ LoopBound /\ Holds)'
  BY TypeStep, LoopStep, HoldsStep
<1>3. QED BY <1>1, <1>2, PTL DEF Spec

\* The holds granted on a hash never exceed what it was loaded with, so that no
\* race of requests spends a balance twice.
THEOREM GrantsCovered == Spec => []GrantsWithinLoaded
<1>1. TypeOK /\ Holds => GrantsWithinLoaded
  <2> SUFFICES ASSUME TypeOK, Holds, NEW u \in Users, cache[u] # NoCache
               PROVE  SumEst(Held(u)) <= loaded[u]
    BY DEF GrantsWithinLoaded, Held
  <2>1. /\ cache[u].avail \in Nat /\ loaded[u] \in Nat
        /\ cache[u].avail + SumEst(Held(u)) <= loaded[u]
    BY DEF TypeOK, Hash, Holds, HoldInv, Within, Held
  <2>2. SumEst(Held(u)) \in Nat
    <3>1. IsFiniteSet(Held(u)) /\ \A x \in Held(u) : Est[x] \in Nat
      BY FS_Subset, ReserveAssumption DEF Holds, Held, TypeOK
    <3>2. SumFunctionOnSet(Est, Held(u)) \in Nat
      BY <3>1, SumNat
    <3>3. QED BY <3>2 DEF SumEst
  <2>3. QED BY <2>1, <2>2
<1>2. QED BY <1>1, HoldsInvariant, PTL

\* What is frozen belongs to requests whose hold the hash contains.
THEOREM FrozenHasHolds == Spec => []FrozenBacked
<1>1. Holds => FrozenBacked
  BY DEF Holds, HoldInv, Within, FrozenBacked
<1>2. QED BY <1>1, HoldsInvariant, PTL
=============================================================================
