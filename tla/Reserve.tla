------------------------------- MODULE Reserve -------------------------------
(***************************************************************************)
(* The reservation of a request's estimated cost in Redis                  *)
(* (billing/reserve.go), from the gateway's pre-check (gateway/gateway.go) *)
(* to the reset after the settlement, the abort, or the reclaim task.      *)
(*                                                                         *)
(* Redis runs one command or script at a time, so each command is a step   *)
(* and everything may come between two of them.  The hash balance:<user>   *)
(* is cache[u], the key frozen:<request> is audit[r].  Time advances in    *)
(* periods of the reclaim schedule; a key is as old as the periods that    *)
(* began since it was written.  Nothing bounds how long a request stays in *)
(* flight, and the reclaim of a period may fail with all its retries.      *)
(***************************************************************************)
EXTENDS Integers, Functions

CONSTANTS
    Users, Requests,
    Owner,          \* user of a request
    Est,            \* estimateCost of a request, positive
    Cost,           \* what its settlement will take
    Opening,        \* balances in PostgreSQL at the start
    NoCache,        \* the hash does not exist
    Threshold,      \* reclaimThreshold, in periods
    TTL,            \* expiry of an audit key, in periods
    AuditMayFail,   \* the SET of the audit key may fail, its error is ignored
    ResetMayFail    \* Reset may fail, its error is ignored

ASSUME ReserveAssumption ==
    /\ Owner \in [Requests -> Users]
    /\ Est \in [Requests -> Nat \ {0}]
    /\ Cost \in [Requests -> Nat]
    /\ Opening \in [Users -> Nat]
    /\ NoCache \notin [avail : Nat, frozen : Nat]
    /\ Threshold \in Nat /\ TTL \in Nat
    /\ AuditMayFail \in BOOLEAN /\ ResetMayFail \in BOOLEAN

VARIABLES
    pg,         \* user_balances.balance
    booked,     \* requests with a row in billing_ledger
    cache,      \* balance:<user>
    audit,      \* age of frozen:<request>, NoAudit without the key
    pc,         \* where a request is
    attempt,    \* iterations of the loop in Reserve that were begun
    fetched,    \* balance read by reload and not yet written
    life,       \* periods the request was in flight since its grant; counted
                \* up to Threshold, beyond which it makes no difference
    verdict,    \* what the running reclaim has decided about a request
    outage,     \* whether the reclaim of this period has failed for good
    loaded,     \* history: the balance the present hash was filled with, and
                \* what the reclaim added to it of holds it does not contain
    hold        \* history: requests whose hold the present hash contains

requestVars == <<pc, attempt, fetched, life>>
redisVars == <<cache, audit, loaded, hold>>
pgVars == <<pg, booked>>
reclaimVars == <<verdict, outage>>
vars == <<pgVars, redisVars, requestVars, reclaimVars>>

NoAudit == -1
Hash == [avail : Nat, frozen : Nat]
Phases == {"new", "script", "read", "fill", "audit", "held", "abort", "queued",
           "reset", "key", "rejected", "failed", "lost", "done"}

\* A granted request that will still settle or abort.
InFlight == {"audit", "held", "abort", "queued"}

Requested(u) == {r \in Requests : Owner[r] = u}
SumEst(S) == SumFunctionOnSet(Est, S)

-----------------------------------------------------------------------------
Init ==
    /\ pg = Opening
    /\ booked = {}
    /\ cache = [u \in Users |-> NoCache]
    /\ audit = [r \in Requests |-> NoAudit]
    /\ pc = [r \in Requests |-> "new"]
    /\ attempt = [r \in Requests |-> 0]
    /\ fetched = [r \in Requests |-> 0]
    /\ life = [r \in Requests |-> 0]
    /\ verdict = [r \in Requests |-> "none"]
    /\ outage = FALSE
    /\ loaded = [u \in Users |-> 0]
    /\ hold = {}

Goto(r, phase) == pc' = [pc EXCEPT ![r] = phase]

\* Reserve is called for a request that is not streamed and costs something.
Begin(r) ==
    /\ pc[r] = "new"
    /\ Goto(r, "script")
    /\ UNCHANGED <<pgVars, redisVars, attempt, fetched, life, reclaimVars>>

\* Mutant of Affordable: the test and the decrement are not one script.
SeenLoaded(r) == loaded[Owner[r]] >= Est[r]

\* bal >= amt in reserveScript.
Affordable(r) == cache[Owner[r]].avail >= Est[r]

\* reserveScript returns 1.
Grant(r) ==
    LET u == Owner[r] IN
    /\ pc[r] = "script"
    /\ cache[u] # NoCache
    /\ Affordable(r)
    /\ cache' = [cache EXCEPT ![u] = [avail |-> @.avail - Est[r],
                                      frozen |-> @.frozen + Est[r]]]
    /\ hold' = hold \cup {r}
    /\ life' = [life EXCEPT ![r] = 0]
    /\ Goto(r, "audit")
    /\ UNCHANGED <<pgVars, audit, loaded, attempt, fetched, reclaimVars>>

\* reserveScript returns 0: the request ends with 402 and keeps the hash.
Refuse(r) ==
    /\ pc[r] = "script"
    /\ cache[Owner[r]] # NoCache
    /\ ~Affordable(r)
    /\ Goto(r, "rejected")
    /\ UNCHANGED <<pgVars, redisVars, attempt, fetched, life, reclaimVars>>

\* reserveScript returns -1: reload.
Unloaded(r) ==
    /\ pc[r] = "script"
    /\ cache[Owner[r]] = NoCache
    /\ attempt' = [attempt EXCEPT ![r] = @ + 1]
    /\ Goto(r, "read")
    /\ UNCHANGED <<pgVars, redisVars, fetched, life, reclaimVars>>

\* reload, first half: BalanceByUserID.
ReadBalance(r) ==
    /\ pc[r] = "read"
    /\ fetched' = [fetched EXCEPT ![r] = pg[Owner[r]]]
    /\ Goto(r, "fill")
    /\ UNCHANGED <<pgVars, redisVars, attempt, life, reclaimVars>>

\* Mutant of Filled: the frozen amount of the hash survives the reload.
KeepFrozen(u, b) ==
    [avail |-> b, frozen |-> IF cache[u] = NoCache THEN 0 ELSE cache[u].frozen]

\* HSET avail b frozen 0.
Filled(u, b) == [avail |-> b, frozen |-> 0]

\* reload, second half: the HSET overwrites a hash that another request has
\* filled meanwhile.  The loop ends after two rounds.
Fill(r) ==
    LET u == Owner[r] IN
    /\ pc[r] = "fill"
    /\ cache' = [cache EXCEPT ![u] = Filled(u, fetched[r])]
    /\ loaded' = [loaded EXCEPT ![u] = fetched[r]]
    /\ hold' = hold \ Requested(u)
    /\ fetched' = [fetched EXCEPT ![r] = 0]
    /\ Goto(r, IF attempt[r] < 2 THEN "script" ELSE "failed")
    /\ UNCHANGED <<pgVars, audit, attempt, life, reclaimVars>>

\* SET frozen:<request>: bookkeeping whose failure is ignored.
WriteAudit(r) ==
    /\ pc[r] = "audit"
    /\ \/ audit' = [audit EXCEPT ![r] = 0]
       \/ AuditMayFail /\ UNCHANGED audit
    /\ Goto(r, "held")
    /\ UNCHANGED <<pgVars, cache, loaded, hold, attempt, fetched, life,
                   reclaimVars>>

\* The upstream call succeeds and notifySettled enqueues billing:settle; an
\* error of the enqueuer is only logged.
Serve(r) ==
    /\ pc[r] = "held"
    /\ Goto(r, "queued") \/ Goto(r, "lost")
    /\ UNCHANGED <<pgVars, redisVars, attempt, fetched, life, reclaimVars>>

\* No channel, all attempts failed, or the client is gone: releaseRes.
GiveUp(r) ==
    /\ pc[r] = "held"
    /\ Goto(r, "abort")
    /\ UNCHANGED <<pgVars, redisVars, attempt, fetched, life, reclaimVars>>

\* Reset, first DEL: every hold of the user goes with the hash.
Reset(r) ==
    LET u == Owner[r] IN
    /\ cache' = [cache EXCEPT ![u] = NoCache]
    /\ hold' = hold \ Requested(u)
    /\ Goto(r, "key")
    /\ UNCHANGED <<audit, loaded>>

\* Reset, second DEL: the pipeline is no transaction, other commands may come
\* between the two, and the connection may break there.
DropKey(r) ==
    /\ pc[r] = "key"
    /\ \/ audit' = [audit EXCEPT ![r] = NoAudit]
       \/ ResetMayFail /\ UNCHANGED audit
    /\ Goto(r, "done")
    /\ UNCHANGED <<pgVars, cache, loaded, hold, attempt, fetched, life,
                   reclaimVars>>

\* releaseRes after a failure; with the client's cancelled context nothing is
\* deleted and the error is dropped.
Abort(r) ==
    /\ pc[r] = "abort"
    /\ \/ Reset(r)
       \/ UNCHANGED redisVars /\ Goto(r, "lost")
    /\ UNCHANGED <<pgVars, attempt, fetched, life, reclaimVars>>

\* The gateway process dies with the request.
GatewayCrash(r) ==
    /\ pc[r] \in {"script", "read", "fill", "audit", "held", "abort"}
    /\ Goto(r, "lost")
    /\ UNCHANGED <<pgVars, redisVars, attempt, fetched, life, reclaimVars>>

\* handleSettle commits (module Settlement has the steps).
Settle(r) ==
    LET u == Owner[r] IN
    /\ pc[r] = "queued"
    /\ pg' = [pg EXCEPT ![u] = IF @ >= Cost[r] THEN @ - Cost[r] ELSE 0]
    /\ booked' = IF Cost[r] > 0 THEN booked \cup {r} ELSE booked
    /\ Goto(r, "reset")
    /\ UNCHANGED <<redisVars, attempt, fetched, life, reclaimVars>>

\* releaseReserve after the settlement.
Release(r) ==
    /\ pc[r] = "reset"
    /\ \/ Reset(r)
       \/ ResetMayFail /\ UNCHANGED redisVars /\ Goto(r, "done")
    /\ UNCHANGED <<pgVars, attempt, fetched, life, reclaimVars>>

\* The retries of the settlement are used up.
DeadLetter(r) ==
    /\ pc[r] = "queued"
    /\ Goto(r, "lost")
    /\ UNCHANGED <<pgVars, redisVars, attempt, fetched, life, reclaimVars>>

\* Mutant of Expired: the threshold is one period short.
TooSoon(age) == age + 1 >= Threshold

\* An audit key older than the threshold.
Expired(age) == age >= Threshold

\* A request with a ledger row keeps its charge, its key is only cleared.
Verdict(r) == IF r \in booked THEN "clear" ELSE "return"

\* Reclaim reads the old audit keys and asks the ledger about them, a SCAN
\* batch at a time: an error of SCAN or MGET, or of the query, leaves out some
\* or all of them.
Judge ==
    /\ \A r \in Requests : verdict[r] = "none"
    /\ \E batch \in SUBSET {r \in Requests : Expired(audit[r])} :
          /\ batch # {}
          /\ verdict' = [r \in Requests |->
                            IF r \in batch THEN Verdict(r) ELSE "none"]
    /\ UNCHANGED <<pgVars, redisVars, requestVars, outage>>

\* min(frozen, amount) in reclaimScript.
Returnable(r) ==
    LET f == cache[Owner[r]].frozen IN IF f < Est[r] THEN f ELSE Est[r]

\* reclaimScript for a leaked hold; -1 without the hash.
Return(r) ==
    LET u == Owner[r] IN
    /\ verdict[r] = "return"
    /\ verdict' = [verdict EXCEPT ![r] = "clear"]
    /\ IF cache[u] = NoCache
       THEN UNCHANGED <<cache, loaded, hold>>
       ELSE /\ cache' = [cache EXCEPT ![u] =
                            [avail |-> @.avail + Returnable(r),
                             frozen |-> @.frozen - Returnable(r)]]
            /\ loaded' = IF r \in hold THEN loaded
                         ELSE [loaded EXCEPT ![u] = @ + Returnable(r)]
            /\ hold' = hold \ {r}
    /\ UNCHANGED <<pgVars, audit, requestVars, outage>>

\* Mutant of ReturnFails: the key goes although the script failed.
ForgetKey(r) ==
    /\ verdict[r] = "return"
    /\ verdict' = [verdict EXCEPT ![r] = "clear"]
    /\ UNCHANGED <<pgVars, redisVars, requestVars, outage>>

\* An error of reclaimScript: the key stays for another reclaim.
ReturnFails(r) ==
    /\ verdict[r] = "return"
    /\ verdict' = [verdict EXCEPT ![r] = "none"]
    /\ UNCHANGED <<pgVars, redisVars, requestVars, outage>>

\* DEL of an audit key that was dealt with; its error is ignored.
Clear(r) ==
    /\ verdict[r] = "clear"
    /\ verdict' = [verdict EXCEPT ![r] = "none"]
    /\ \/ audit' = [audit EXCEPT ![r] = NoAudit]
       \/ UNCHANGED audit
    /\ UNCHANGED <<pgVars, cache, loaded, hold, requestVars, outage>>

\* The worker dies inside Reclaim; the task is delivered again.
ReclaimCrash ==
    /\ \E r \in Requests : verdict[r] # "none"
    /\ verdict' = [r \in Requests |-> "none"]
    /\ UNCHANGED <<pgVars, redisVars, requestVars, outage>>

\* The ledger, Redis, the broker or the scheduler is out for the rest of the
\* period: the reclaim is not published, or fails with its retries.
ReclaimFails ==
    /\ ~outage
    /\ outage' = TRUE
    /\ UNCHANGED <<pgVars, redisVars, requestVars, verdict>>

\* The next period begins: the reclaim has dealt with the old keys of this one
\* or has failed.
Tick ==
    /\ \/ \A r \in Requests : ~Expired(audit[r]) /\ verdict[r] = "none"
       \/ outage
    /\ outage' = FALSE
    /\ life' = [r \in Requests |->
                   IF pc[r] \in InFlight /\ life[r] < Threshold
                   THEN life[r] + 1 ELSE life[r]]
    /\ audit' = [r \in Requests |->
                    IF audit[r] = NoAudit \/ audit[r] + 1 >= TTL THEN NoAudit
                    ELSE audit[r] + 1]
    /\ UNCHANGED <<pgVars, cache, loaded, hold, pc, attempt, fetched, verdict>>

RequestStep(r) ==
    \/ Grant(r) \/ Refuse(r) \/ Unloaded(r) \/ ReadBalance(r) \/ Fill(r)
    \/ WriteAudit(r) \/ Serve(r) \/ GiveUp(r) \/ Abort(r)
    \/ DropKey(r) \/ Settle(r) \/ Release(r) \/ DeadLetter(r)

ReclaimStep ==
    \/ Judge
    \/ \E r \in Requests : Return(r) \/ ReturnFails(r) \/ Clear(r)
    \/ ReclaimCrash
    \/ ReclaimFails

Next ==
    \/ \E r \in Requests : Begin(r) \/ RequestStep(r) \/ GatewayCrash(r)
    \/ ReclaimStep
    \/ Tick

Spec == Init /\ [][Next]_vars

-----------------------------------------------------------------------------
(***************************************************************************)
(* Properties.                                                             *)
(***************************************************************************)
\* Types; neither amount of the hash is ever negative: the script tests before
\* it takes and the reclaim returns at most what is frozen.
TypeOK ==
    /\ pg \in [Users -> Nat]
    /\ booked \subseteq Requests
    /\ cache \in [Users -> Hash \cup {NoCache}]
    /\ audit \in [Requests -> {NoAudit} \cup Nat]
    /\ pc \in [Requests -> Phases]
    /\ attempt \in [Requests -> 0 .. 2]
    /\ fetched \in [Requests -> Nat]
    /\ life \in [Requests -> Nat]
    /\ verdict \in [Requests -> {"none", "return", "clear"}]
    /\ outage \in BOOLEAN
    /\ loaded \in [Users -> Nat]
    /\ hold \subseteq Requests

\* In any interleaving of requests the holds granted on a hash exceed the
\* balance it was loaded with by no more than what the reclaim returned of holds
\* it did not contain: of an earlier hash (reserve.go:58), or once more after a
\* crash before the DEL (reserve.go:204-210).  Nothing else promises twice.
GrantsWithinLoaded ==
    \A u \in Users :
        cache[u] # NoCache => SumEst(hold \cap Requested(u)) <= loaded[u]

\* Nothing is frozen for nobody: the frozen amount belongs to requests that
\* were granted it on this hash and have not had it returned.
FrozenBacked ==
    \A u \in Users :
        cache[u] # NoCache =>
            cache[u].frozen <= SumEst(hold \cap Requested(u))

\* What the two rest on: only a granted request has a hold, and what is
\* available is within what the hash was loaded with beside the holds.
GrantedOnly == \A r \in hold : pc[r] \notin {"new", "script", "read", "fill"}

Within(u) ==
    cache[u] # NoCache =>
        LET held == SumEst(hold \cap Requested(u)) IN
        cache[u].avail + held <= loaded[u] /\ cache[u].frozen <= held

HoldInv == GrantedOnly /\ \A u \in Users : Within(u)

\* A request that may still be charged, or was.
Alive(r) == pc[r] \in InFlight \/ r \in booked

\* The reclaim returns the hold of a request that may still be charged, or was
\* charged after the ledger was asked, only when the request has been in flight
\* for the whole threshold: since its grant, the upstream calls included.  An
\* audit key never passes for older than the request it belongs to, whatever
\* resets, reloads and failed reclaims come between.
ReturnsDeadOnly ==
    \A r \in Requests :
        verdict[r] = "return" /\ Alive(r) => life[r] >= Threshold

\* The invariant ReturnsDeadOnly follows from: the audit key of a request in
\* flight is no older than its grant, and a request that was not granted has
\* neither key nor verdict.
Ungranted == {"new", "script", "read", "fill", "rejected", "failed"}

KeyAge ==
    \A r \in Requests :
        /\ pc[r] \in InFlight => audit[r] <= life[r] \/ life[r] >= Threshold
        /\ pc[r] \in Ungranted => audit[r] = NoAudit /\ verdict[r] = "none"
        /\ pc[r] \in Ungranted \cup InFlight => r \notin booked

\* The loop of Reserve runs at most twice.
LoopBound == \A r \in Requests : pc[r] \in {"new", "script"} => attempt[r] < 2

ReserveInv == TypeOK /\ LoopBound /\ ReturnsDeadOnly /\ KeyAge

\* A hold that has leaked, its request dead without a settlement, loses its audit
\* key, without which no reclaim sees it, while the hash contains it.
Forgotten(r) ==
    /\ pc[r] = "lost" /\ r \in hold'
    /\ audit[r] # NoAudit /\ audit'[r] = NoAudit

\* The reclaim itself never drops the key of a leaked hold before the hold is
\* back: not when reclaimScript fails, when the worker dies between the script
\* and the DEL, when the task is delivered again or when the hash is reset and
\* reloaded under it.  Only the passing of the 60 minutes takes the key.
OnlyExpiryForgets == [][(\E r \in Requests : Forgotten(r)) => Tick]_vars

\* What OnlyExpiryForgets rests on: a key is only cleared when its hold is gone from
\* the hash, or charged, and the request of a charged hold is not lost.
LeakInv ==
    \A r \in Requests :
        /\ verdict[r] = "clear" => r \notin hold \/ r \in booked
        /\ r \in booked => pc[r] \in {"reset", "key", "done"}
        /\ cache[Owner[r]] = NoCache => r \notin hold
=============================================================================
