--------------------------- MODULE GatewayProofs ----------------------------
(***************************************************************************)
(* Proofs about Gateway, for every chain of models, number of channels,    *)
(* length of answer and number of changes, faults and crashes; and about   *)
(* Catalogue, for every set of rows, forms, requests and keys.             *)
(***************************************************************************)
EXTENDS Gateway, Catalogue, FiniteSetTheorems, TLAPS

(***************************************************************************)
(* Types.                                                                  *)
(***************************************************************************)
\* What tasks emitMetering may add.
LEMMA EmitTypes ==
    ASSUME emits \in Nat, tasks \in Seq({"usage", "settle"}), NEW tokens, Emit(tokens)
    PROVE  emits' \in Nat /\ tasks' \in Seq({"usage", "settle"})
<1>1. PICK sent \in {<< >>, <<"usage">>, <<"settle">>, <<"usage", "settle">>} :
          tasks' = tasks \o sent
  BY DEF Emit
<1>2. /\ << >> \in Seq({"usage", "settle"})
      /\ <<"usage">> \in Seq({"usage", "settle"})
      /\ <<"settle">> \in Seq({"usage", "settle"})
      /\ <<"usage", "settle">> \in Seq({"usage", "settle"})
  OBVIOUS
<1>3. sent \in Seq({"usage", "settle"})
  BY <1>2
<1>4. tasks \o sent \in Seq({"usage", "settle"})
  BY <1>3
<1>. QED BY <1>1, <1>4 DEF Emit

\* A step that leaves the stream alone.
LEMMA StreamStutter ==
    ASSUME StreamTypeOK, PutHasEvent, UNCHANGED streamVars
    PROVE  StreamTypeOK' /\ PutHasEvent'
BY DEF StreamTypeOK, PutHasEvent, streamVars, pipeVars, clientVars, meterVars,
   handlerVars

\* The pipeline keeps its types, and a parser that puts has something to put.
LEMMA StreamStepTypes ==
    ASSUME StreamTypeOK, PutHasEvent, StreamSteps
    PROVE  StreamTypeOK' /\ PutHasEvent'
<1> USE StreamAssumption DEF StreamTypeOK, PutHasEvent, pipeVars, clientVars,
        meterVars, handlerVars
<1>1. ASSUME NEW k \in Kinds, ReadEvent(k) PROVE StreamTypeOK' /\ PutHasEvent'
  BY <1>1 DEF ReadEvent
<1>2. ASSUME ReadEOF \/ ReadError PROVE StreamTypeOK' /\ PutHasEvent'
  BY <1>2 DEF ReadEOF, ReadError
<1>3. ASSUME Parse PROVE StreamTypeOK' /\ PutHasEvent'
  <2>1. /\ Answer(raw) \in Seq(Events) /\ Len(Answer(raw)) <= 2
        /\ After(raw) \in {"put", "select", "gone", "last"}
        /\ After(raw) \in {"put", "last"} => Len(Answer(raw)) > 0
    <3>1. CASE raw = "delta"
      BY <3>1 DEF Answer, After, Events
    <3>2. CASE raw = "done"
      BY <3>2 DEF Answer, After, Events
    <3>3. CASE raw \in {"bad", "error"}
      BY <3>3 DEF Answer, After, Events
    <3>4. CASE raw \in {"lost", "count", "zero", "other", "mute"}
      BY <3>4 DEF Answer, After, Events
    <3>. QED BY <3>1, <3>2, <3>3, <3>4 DEF Kinds
  <2>2. /\ outbox' = Answer(raw) /\ parser' = After(raw)
        /\ reader' \in {"scanning", "gone"}
        /\ UNCHANGED <<script, body, raw, out, handler, client, cancelled,
                       delivered, usage, finished, emits, bill, tasks>>
    BY <1>3 DEF Parse
  <2>3. counted' \in BOOLEAN
    <3>1. counted' = (raw = "count" \/ (counted /\ raw # "zero"))
      BY <1>3 DEF Parse, Counts
    <3>. QED BY <3>1, Zenon
  <2>. QED BY <2>1, <2>2, <2>3
<1>4. ASSUME ParseEOF \/ ParseCancelled PROVE StreamTypeOK' /\ PutHasEvent'
  <2>1. <<"error">> \in Seq(Events) /\ Len(<<"error">>) = 1
    BY DEF Events
  <2>2. /\ outbox' = <<"error">> /\ parser' = "last"
        /\ UNCHANGED <<script, body, reader, raw, counted, out, handler, client,
                       cancelled, delivered, usage, finished, emits, bill, tasks>>
    BY <1>4 DEF ParseEOF, ParseCancelled, Ending
  <2>. QED BY <2>1, <2>2
<1>5. ASSUME Put PROVE StreamTypeOK' /\ PutHasEvent'
  <2>1. Len(outbox) > 0 /\ Head(outbox) \in Events /\ Tail(outbox) \in Seq(Events)
        /\ Len(Tail(outbox)) = Len(outbox) - 1
    BY <1>5 DEF Put
  <2>2. out' \in Seq(Events) /\ Len(out') <= Buffer
    BY <1>5, <2>1 DEF Put, Room
  <2>4. /\ outbox' = Tail(outbox)
        /\ parser' = IF Len(outbox) > 1 THEN parser
                     ELSE IF parser = "put" THEN "select" ELSE "gone"
        /\ parser \in {"put", "last"}
        /\ UNCHANGED <<script, body, reader, raw, counted, handler, client,
                       cancelled, delivered, usage, finished, emits, bill, tasks>>
    BY <1>5 DEF Put
  <2>5. /\ parser' \in {"select", "put", "last", "gone"}
        /\ parser' \in {"put", "last"} => Len(outbox') > 0
    BY <2>1, <2>4
  <2>. QED BY <2>1, <2>2, <2>4, <2>5
<1>6. ASSUME Handle PROVE StreamTypeOK' /\ PutHasEvent'
  <2>1. out' \in Seq(Events) /\ Len(out') <= Buffer
    BY <1>6 DEF Handle
  <2>2. /\ handler' \in {"off", "loop", "settle", "close", "gone"}
        /\ delivered' \in Nat /\ usage' \in BOOLEAN /\ finished' \in BOOLEAN
    <3>1. \/ /\ \E written \in BOOLEAN :
                  /\ delivered' = IF written THEN delivered + 1 ELSE delivered
                  /\ handler' = IF written THEN "loop" ELSE Leave
             /\ UNCHANGED <<usage, finished>>
          \/ usage' = TRUE /\ UNCHANGED <<handler, delivered, finished>>
          \/ handler' = Leave /\ UNCHANGED <<delivered, usage, finished>>
          \/ finished' = TRUE /\ handler' = Leave /\ UNCHANGED <<delivered, usage>>
      BY <1>6, Zenon DEF Handle
    <3>2. CASE \E written \in BOOLEAN :
                  /\ delivered' = IF written THEN delivered + 1 ELSE delivered
                  /\ handler' = IF written THEN "loop" ELSE Leave
      <4>1. delivered' \in {delivered, delivered + 1}
        BY <3>2
      <4>2. delivered' \in Nat
        BY <4>1
      <4>3. handler' \in {"loop", "settle"}
        BY <3>2 DEF Leave
      <4>4. usage' \in BOOLEAN /\ finished' \in BOOLEAN
        BY <3>1, Zenon DEF Leave
      <4>. QED BY <4>2, <4>3, <4>4
    <3>3. CASE UNCHANGED delivered
      <4>1. handler' \in {handler, "settle"} /\ delivered' \in Nat
        BY <3>1, <3>3 DEF Leave
      <4>2. usage' \in BOOLEAN /\ finished' \in BOOLEAN
        BY <3>1, Zenon DEF Leave
      <4>. QED BY <4>1, <4>2
    <3>. QED BY <3>1, <3>2, <3>3
  <2>. QED BY <1>6, <2>1, <2>2 DEF Handle
<1>7. ASSUME HandleClosed \/ Close PROVE StreamTypeOK' /\ PutHasEvent'
  <2>1. /\ handler' \in {"settle", "gone"}
        /\ body' \in {body, "closed"} /\ cancelled' \in {cancelled, TRUE}
        /\ UNCHANGED <<script, reader, raw, parser, outbox, counted, out, client,
                       delivered, usage, finished, emits, bill, tasks>>
    <3>1. CASE HandleClosed
      BY <3>1 DEF HandleClosed, Closed, Leave
    <3>2. CASE Close
      BY <3>2 DEF Close
    <3>. QED BY <1>7, <3>1, <3>2
  <2>2. StreamTypeOK'
    <3>1. body' \in {"none", "open", "closed"} /\ cancelled' \in BOOLEAN
      BY <2>1
    <3>. QED BY <2>1, <3>1
  <2>3. PutHasEvent'
    BY <2>1
  <2>. QED BY <2>2, <2>3
<1>8. ASSUME Settle(call.prod) PROVE StreamTypeOK' /\ PutHasEvent'
  <2>1. CASE call.prod
    <3>1. Emit(Tokens) /\ Tokens \in {"upstream", "estimate"}
      BY <1>8, <2>1 DEF Settle, Tokens
    <3>2. /\ emits' \in Nat /\ tasks' \in Seq({"usage", "settle"})
          /\ bill' \in {"upstream", "estimate"}
      BY <3>1, EmitTypes DEF Emit
    <3>. QED BY <1>8, <3>2 DEF Settle
  <2>2. CASE ~call.prod
    BY <1>8, <2>2 DEF Settle
  <2>. QED BY <2>1, <2>2
<1>. QED
  BY <1>1, <1>2, <1>3, <1>4, <1>5, <1>6, <1>7, <1>8
  DEF StreamSteps, ReaderStep, ParserStep, HandlerStep

\* Every step keeps the types.
LEMMA StepTypes ==
    ASSUME TypeOK, PutHasEvent, [Next]_vars
    PROVE  TypeOK' /\ PutHasEvent'
<1> USE GatewayAssumption
<1>1. CASE StreamSteps
  BY <1>1, StreamStepTypes DEF TypeOK, StreamSteps, chatVars, envVars
<1>2. CASE ClientStep
  <2>1. /\ client' \in {"here", "gone"} /\ cancelled' \in BOOLEAN
        /\ UNCHANGED <<pipeVars, meterVars, handlerVars>>
    BY <1>2 DEF TypeOK, StreamTypeOK, ClientStep, ClientLeaves, Cancel
  <2>2. StreamTypeOK' /\ PutHasEvent'
    BY <2>1 DEF TypeOK, StreamTypeOK, PutHasEvent, pipeVars, meterVars, handlerVars
  <2>. QED BY <1>2, <2>2 DEF TypeOK, ClientStep, chatVars, envVars
<1>3. ASSUME NEW c \in Channels, Change(c) PROVE TypeOK' /\ PutHasEvent'
  <2>1. StreamTypeOK' /\ PutHasEvent'
    BY <1>3, StreamStutter DEF Change, TypeOK
  <2>. QED BY <1>3, <2>1 DEF TypeOK, Change, chatVars
<1>4. CASE Crash
  <2>1. StreamTypeOK' /\ PutHasEvent'
    BY <1>4 DEF TypeOK, StreamTypeOK, PutHasEvent, Crash, meterVars
  <2>. QED BY <1>4, <2>1 DEF TypeOK, Crash, Goto
<1>5. CASE Enter \/ CheckBalance \/ EndOfTries \/ StreamEnds
  <2>1. StreamTypeOK' /\ PutHasEvent'
    BY <1>5, StreamStutter DEF Enter, CheckBalance, EndOfTries, StreamEnds, TypeOK
  <2>. QED
    BY <1>5, <2>1 DEF TypeOK, Enter, CheckBalance, EndOfTries, StreamEnds, Refuse,
       Goto, envVars
<1>6. CASE Hold \/ Release
  <2>1. StreamTypeOK' /\ PutHasEvent'
    BY <1>6, StreamStutter DEF Hold, Release, TypeOK
  <2>2. CASE Hold
    <3>1. faults' \in 0 .. MaxFaults
      <4>1. faults' = faults \/ (faults < MaxFaults /\ faults' = faults + 1)
        BY <2>2 DEF Hold
      <4>. QED BY <4>1 DEF TypeOK
    <3>2. hold' \in BOOLEAN /\ reserved' \in BOOLEAN
      BY <2>2, Zenon DEF Hold, TypeOK
    <3>. QED BY <2>1, <2>2, <3>1, <3>2 DEF TypeOK, Hold, Refuse, Goto
  <2>3. CASE Release
    <3>1. faults' \in 0 .. MaxFaults
      <4>1. faults' = faults \/ (faults < MaxFaults /\ faults' = faults + 1)
        BY <2>3 DEF Release
      <4>. QED BY <4>1 DEF TypeOK
    <3>2. hold' \in BOOLEAN /\ reserved' \in BOOLEAN
      BY <2>3, Zenon DEF Release, TypeOK
    <3>. QED BY <2>1, <2>3, <3>1, <3>2 DEF TypeOK, Release, Goto
  <2>. QED BY <1>6, <2>2, <2>3
<1>7. CASE Plan
  <2>1. StreamTypeOK' /\ PutHasEvent'
    BY <1>7, StreamStutter DEF Plan, TypeOK
  <2>. QED
    BY <1>7, <2>1 DEF TypeOK, Plan, Routable, Attempts, Abort, Goto, envVars
<1>8. ASSUME NEW p \in Attempts, NEW result \in Results, Try(p, result)
      PROVE  TypeOK' /\ PutHasEvent'
  <2>1. /\ tried' \in Seq([at : Attempts, result : Results])
        /\ plan' \subseteq Attempts
        /\ served' \in BOOLEAN
    BY <1>8 DEF Try, TypeOK
  <2>2. pc' \in {"stream", "meter", "release", "try"}
    BY <1>8 DEF Try, Goto
  <2>3. StreamTypeOK' /\ PutHasEvent'
    <3>1. CASE UNCHANGED streamVars
      BY <3>1, StreamStutter DEF TypeOK
    <3>2. CASE Open
      <4>1. StreamTypeOK'
        BY <3>2 DEF Open, TypeOK, StreamTypeOK, clientVars, meterVars
      <4>2. PutHasEvent'
        BY <3>2 DEF Open, PutHasEvent
      <4>. QED BY <4>1, <4>2
    <3>. QED BY <1>8, <3>1, <3>2 DEF Try
  <2>. QED BY <1>8, <2>1, <2>2, <2>3 DEF Try, TypeOK, envVars
<1>9. CASE Meter
  <2>1. /\ emits' \in Nat /\ tasks' \in Seq({"usage", "settle"})
        /\ bill' \in {"none", "upstream", "estimate", "free", "empty"}
    <3>1. CASE UNCHANGED meterVars
      BY <3>1 DEF TypeOK, StreamTypeOK, meterVars
    <3>2. ASSUME NEW tokens \in {"upstream", "free", "empty"}, Emit(tokens)
          PROVE  /\ emits' \in Nat /\ tasks' \in Seq({"usage", "settle"})
                 /\ bill' \in {"upstream", "free", "empty"}
      BY <3>2, EmitTypes DEF TypeOK, StreamTypeOK, Emit
    <3>. QED BY <1>9, <3>1, <3>2 DEF Meter
  <2>. QED
    BY <1>9, <2>1 DEF TypeOK, StreamTypeOK, PutHasEvent, Meter, AnswerSent, Goto,
       envVars, pipeVars, clientVars, handlerVars
<1>10. CASE UNCHANGED vars
  BY <1>10 DEF TypeOK, StreamTypeOK, PutHasEvent, vars, chatVars, envVars,
     streamVars, pipeVars, clientVars, meterVars, handlerVars
<1>. QED
  BY <1>1, <1>2, <1>3, <1>4, <1>5, <1>6, <1>7, <1>8, <1>9, <1>10 DEF Next, ChatStep

(***************************************************************************)
(* Metering.                                                               *)
(***************************************************************************)
\* The first call of emitMetering enqueues no task twice.
LEMMA EmitOnce ==
    ASSUME tasks = << >>, emits = 0, NEW tokens, Emit(tokens)
    PROVE  /\ emits' = 1
           /\ \A i, j \in DOMAIN tasks' : tasks'[i] = tasks'[j] => i = j
<1>1. PICK sent \in {<< >>, <<"usage">>, <<"settle">>, <<"usage", "settle">>} :
          tasks' = tasks \o sent
  BY DEF Emit
<1>2. tasks' \in {<< >>, <<"usage">>, <<"settle">>, <<"usage", "settle">>}
  BY <1>1
<1>3. \A i, j \in DOMAIN tasks' : tasks'[i] = tasks'[j] => i = j
  <2>1. CASE tasks' = << >>
    BY <2>1
  <2>2. CASE tasks' = <<"usage">>
    BY <2>2
  <2>3. CASE tasks' = <<"settle">>
    BY <2>3
  <2>4. CASE tasks' = <<"usage", "settle">>
    BY <2>4
  <2>. QED BY <1>2, <2>1, <2>2, <2>3, <2>4
<1>. QED BY <1>3 DEF Emit

\* A step of the pipeline that is not Settle meters nothing; it moves the
\* handler only inside a streamed call.
LEMMA QuietSteps ==
    ASSUME ReaderStep \/ ParserStep \/ Handle \/ HandleClosed \/ Close
    PROVE  /\ UNCHANGED meterVars
           /\ \/ UNCHANGED handler
              \/ handler = "loop" /\ handler' \in {"loop", "settle"}
              \/ handler = "close" /\ handler' = "gone"
<1> USE DEF meterVars, handlerVars
<1>1. ASSUME ReaderStep \/ ParserStep PROVE UNCHANGED <<meterVars, handler>>
  BY <1>1 DEF ReaderStep, ParserStep, ReadEvent, ReadEOF, ReadError, Parse, ParseEOF,
     ParseCancelled, Put
<1>2. ASSUME Handle
      PROVE  UNCHANGED meterVars /\ handler = "loop" /\ handler' \in {"loop", "settle"}
  BY <1>2 DEF Handle, Leave
<1>3. ASSUME HandleClosed \/ Close
      PROVE  /\ UNCHANGED meterVars
             /\ \/ handler = "loop" /\ handler' = "settle"
                \/ handler = "close" /\ handler' = "gone"
  BY <1>3 DEF HandleClosed, Closed, Close, Leave
<1>. QED BY <1>1, <1>2, <1>3

\* Every step keeps the metering where it belongs.
LEMMA StepMetered ==
    ASSUME TypeOK, Metered, [Next]_vars
    PROVE  Metered'
<1> USE DEF Metered, ServedIsMetered
<1>0. call \in CallType /\ served \in BOOLEAN /\ emits \in Nat
  BY DEF TypeOK, StreamTypeOK
<1>1. CASE StreamSteps
  <2>1. UNCHANGED <<call, pc, served>>
    BY <1>1 DEF StreamSteps, chatVars
  <2>2. CASE Settle(call.prod)
    <3>1. handler = "settle" /\ handler' = "close" /\ pc = "stream"
      BY <2>2 DEF Settle
    <3>2. CASE call.prod
      <4>1. tasks = << >> /\ emits = 0 /\ Emit(Tokens)
        BY <2>2, <3>1, <3>2 DEF Settle
      <4>2. emits' = 1 /\ \A i, j \in DOMAIN tasks' : tasks'[i] = tasks'[j] => i = j
        BY <4>1, EmitOnce
      <4>. QED BY <2>1, <3>1, <4>2
    <3>3. CASE ~call.prod
      <4>1. UNCHANGED <<emits, tasks>>
        BY <2>2, <3>3 DEF Settle, meterVars
      <4>. QED BY <2>1, <3>1, <3>3, <4>1
    <3>. QED BY <3>2, <3>3
  <2>3. CASE ReaderStep \/ ParserStep \/ Handle \/ HandleClosed \/ Close
    <3>1. /\ UNCHANGED <<emits, tasks>>
          /\ \/ UNCHANGED handler
             \/ handler = "loop" /\ handler' \in {"loop", "settle"}
             \/ handler = "close" /\ handler' = "gone"
      BY <2>3, QuietSteps DEF meterVars
    <3>. QED BY <2>1, <3>1
  <2>. QED BY <1>1, <2>2, <2>3 DEF StreamSteps, HandlerStep
<1>2. CASE ClientStep
  BY <1>2 DEF ClientStep, ClientLeaves, Cancel, chatVars, meterVars, handlerVars
<1>3. ASSUME NEW c \in Channels, Change(c) PROVE Metered'
  BY <1>3 DEF Change, chatVars, streamVars, meterVars, handlerVars
<1>4. CASE Crash
  BY <1>4 DEF Crash, Goto, meterVars
<1>5. CASE Enter \/ CheckBalance \/ Hold \/ Plan \/ EndOfTries \/ Release
  <2>1. UNCHANGED <<call, served, handler, emits, tasks>>
    BY <1>5 DEF Enter, CheckBalance, Hold, Plan, EndOfTries, Release, streamVars,
       meterVars, handlerVars
  <2>2. /\ pc \in {"enter", "gate", "plan", "try", "release"}
        /\ pc' \in {"enter", "gate", "plan", "try", "release", "done"}
    BY <1>5 DEF Enter, CheckBalance, Hold, Plan, EndOfTries, Release, Goto, Refuse,
       Abort
  <2>. QED BY <2>1, <2>2
<1>6. ASSUME NEW p \in Attempts, NEW result \in Results, Try(p, result)
      PROVE  Metered'
  <2>1. UNCHANGED <<call, emits, tasks>> /\ pc = "try" /\ served' = (result = "ok")
    BY <1>6 DEF Try, Open, streamVars, meterVars
  <2>2. \/ result = "ok" /\ pc' = "stream" /\ handler' = "loop"
        \/ result = "ok" /\ pc' = "meter" /\ handler' = handler
        \/ result # "ok" /\ pc' \in {"release", "try"} /\ handler' = handler
    BY <1>6 DEF Try, Open, Goto, streamVars, handlerVars
  <2>. QED BY <2>1, <2>2
<1>7. CASE Meter
  <2>1. /\ pc = "meter" /\ pc' = "done" /\ emits = 0 /\ tasks = << >> /\ served
        /\ UNCHANGED <<call, served, handler>>
    BY <1>7 DEF Meter, Goto, AnswerSent, handlerVars
  <2>2. CASE call.prod
    <3>1. PICK tokens \in {"upstream", "free", "empty"} : Emit(tokens)
      BY <1>7, <2>2 DEF Meter
    <3>2. emits' = 1 /\ \A i, j \in DOMAIN tasks' : tasks'[i] = tasks'[j] => i = j
      BY <2>1, <3>1, EmitOnce
    <3>. QED BY <2>1, <2>2, <3>2
  <2>3. CASE ~call.prod
    <3>1. UNCHANGED <<emits, tasks>>
      BY <1>7, <2>3 DEF Meter, meterVars
    <3>. QED BY <2>1, <2>3, <3>1
  <2>. QED BY <2>2, <2>3
<1>8. CASE StreamEnds
  BY <1>8 DEF StreamEnds, Goto, streamVars, meterVars, handlerVars
<1>9. CASE UNCHANGED vars
  BY <1>9 DEF vars, chatVars, streamVars, meterVars, handlerVars
<1>. QED
  BY <1>1, <1>2, <1>3, <1>4, <1>5, <1>6, <1>7, <1>8, <1>9 DEF Next, ChatStep

(***************************************************************************)
(* The hold.                                                               *)
(***************************************************************************)
\* A context that is cancelled stays so.
LEMMA CancelledForGood ==
    ASSUME [Next]_vars, cancelled PROVE cancelled'
<1> USE DEF streamVars, clientVars
<1>1. CASE StreamSteps
  BY <1>1 DEF StreamSteps, ReaderStep, ParserStep, HandlerStep, ReadEvent, ReadEOF,
     ReadError, Parse, ParseEOF, ParseCancelled, Put, Handle, HandleClosed, Closed, Settle, Close
<1>2. CASE ClientStep
  BY <1>2 DEF ClientStep, ClientLeaves, Cancel
<1>3. ASSUME NEW c \in Channels, Change(c) PROVE cancelled'
  BY <1>3 DEF Change
<1>4. CASE Crash
  BY <1>4 DEF Crash
<1>5. CASE Enter \/ CheckBalance \/ Hold \/ Plan \/ EndOfTries \/ Release \/ Meter
           \/ StreamEnds
  BY <1>5 DEF Enter, CheckBalance, Hold, Plan, EndOfTries, Release, Meter, StreamEnds
<1>6. ASSUME NEW p \in Attempts, NEW result \in Results, Try(p, result) PROVE cancelled'
  BY <1>6 DEF Try, Open
<1>7. CASE UNCHANGED vars
  BY <1>7 DEF vars
<1>. QED BY <1>1, <1>2, <1>3, <1>4, <1>5, <1>6, <1>7 DEF Next, ChatStep

\* Every step keeps Chat's variable and Redis together.
LEMMA StepFrozen ==
    ASSUME TypeOK, Metered, Frozen, [Next]_vars
    PROVE  Frozen'
<1> USE DEF Frozen
<1>0. /\ faults \in Nat
      /\ cancelled => cancelled'
  BY CancelledForGood, GatewayAssumption DEF TypeOK
<1>1. CASE StreamSteps \/ ClientStep
  BY <1>0, <1>1 DEF StreamSteps, ClientStep, chatVars, envVars
<1>2. ASSUME NEW c \in Channels, Change(c) PROVE Frozen'
  BY <1>0, <1>2 DEF Change, chatVars
<1>3. CASE Crash
  BY <1>0, <1>3 DEF Crash, Goto
<1>4. CASE Enter \/ CheckBalance
  BY <1>0, <1>4 DEF Enter, CheckBalance, Refuse, Goto, envVars
<1>5. CASE Hold
  <2>1. pc = "gate" /\ ~hold /\ ~reserved /\ UNCHANGED cancelled
    BY <1>5 DEF Hold, streamVars, clientVars
  <2>2. \/ pc' = "plan" /\ hold' = TRUE /\ reserved' = TRUE
        \/ pc' \in {"plan", "done"} /\ UNCHANGED <<hold, reserved>>
        \/ pc' = "done" /\ UNCHANGED reserved /\ (cancelled \/ faults' = faults + 1)
    BY <1>5, Zenon DEF Hold, Goto, Refuse
  <2>3. faults' = faults + 1 => faults' > 0
    BY <1>0
  <2>. QED BY <2>1, <2>2, <2>3
<1>6. CASE Plan \/ EndOfTries
  BY <1>0, <1>6 DEF Plan, EndOfTries, Abort, Goto, envVars
<1>7. ASSUME NEW p \in Attempts, NEW result \in Results, Try(p, result) PROVE Frozen'
  <2>1. /\ pc = "try" /\ pc' \in {"stream", "meter", "release", "try"}
        /\ UNCHANGED <<hold, reserved>>
    BY <1>7 DEF Try, Goto
  <2>. QED BY <2>1
<1>8. CASE Release
  <2>1. pc = "release" /\ pc' = "done" /\ ~reserved' /\ UNCHANGED cancelled
    BY <1>8 DEF Release, Goto, streamVars, clientVars
  <2>2. \/ ~reserved /\ UNCHANGED hold
        \/ ~hold'
        \/ cancelled
        \/ faults' = faults + 1
    BY <1>8 DEF Release
  <2>3. faults' = faults + 1 => faults' > 0
    BY <1>0
  <2>. QED BY <2>1, <2>2, <2>3
<1>9. CASE Meter \/ StreamEnds
  BY <1>0, <1>9 DEF Meter, StreamEnds, AnswerSent, Goto, Metered, envVars
<1>10. CASE UNCHANGED vars
  BY <1>10 DEF vars, chatVars, envVars, streamVars, clientVars
<1>. QED
  BY <1>1, <1>2, <1>3, <1>4, <1>5, <1>6, <1>7, <1>8, <1>9, <1>10 DEF Next, ChatStep

(***************************************************************************)
(* Failover.                                                               *)
(***************************************************************************)
\* The links of the chain and the channels are numbers.
LEMMA AttemptsAreNumbers == Links \subseteq Nat /\ Channels \subseteq Nat
<1>1. Wanted \in Seq(Models)
  BY GatewayAssumption DEF Wanted
<1>. QED BY <1>1, GatewayAssumption DEF Links, Channels

\* An attempt keeps the order.
LEMMA TryKeepsOrder ==
    ASSUME TypeOK, Failover, NEW p \in Attempts, NEW result \in Results, Try(p, result)
    PROVE  Failover'
<1> DEFINE n == Len(tried)
<1>1. /\ tried \in Seq([at : Attempts, result : Results])
      /\ pc = "try" /\ p \in plan /\ plan' = plan \ {p}
      /\ tried' = Append(tried, [at |-> p, result |-> result])
      /\ \A q \in plan : q = p \/ Sooner(p, q)
      /\ UNCHANGED <<routed, call>>
  BY DEF TypeOK, Try
<1>2. /\ n \in Nat /\ DOMAIN tried = 1 .. n /\ DOMAIN tried' = 1 .. n + 1
      /\ \A i \in 1 .. n : tried'[i] = tried[i]
      /\ tried'[n + 1].at = p /\ tried'[n + 1].result = result
  BY <1>1
<1>3. p \in Links \X routed
  BY <1>1 DEF Failover
<1>4. pc' \notin {"enter", "gate", "plan"}
  BY DEF Try, Goto
<1>5. plan' \subseteq Links \X routed'
  BY <1>1 DEF Failover
<1>6. \A i \in DOMAIN tried' : \A q \in plan' : Sooner(tried'[i].at, q)
  <2>1. ASSUME NEW i \in 1 .. n, NEW q \in plan' PROVE Sooner(tried'[i].at, q)
    BY <1>1, <1>2 DEF Failover
  <2>2. ASSUME NEW q \in plan' PROVE Sooner(tried'[n + 1].at, q)
    BY <1>1, <1>2
  <2>. QED BY <1>2, <2>1, <2>2
<1>7. pc' = "try" =>
        /\ \A r \in Links \X routed' :
              r \in plan' \/ \E i \in DOMAIN tried' : tried'[i].at = r
        /\ \A i \in DOMAIN tried' :
              tried'[i].result # "ok" /\ (tried'[i].result = "final" => call'.stream)
  <2>1. ASSUME NEW r \in Links \X routed
        PROVE  r \in plan' \/ \E i \in DOMAIN tried' : tried'[i].at = r
    <3>1. r \in plan \/ \E i \in DOMAIN tried : tried[i].at = r
      BY <1>1 DEF Failover
    <3>2. CASE \E i \in 1 .. n : tried[i].at = r
      BY <1>2, <3>2
    <3>3. CASE r = p
      BY <1>2, <3>3
    <3>. QED BY <1>1, <1>2, <3>1, <3>2, <3>3
  <2>2. ASSUME pc' = "try"
        PROVE  result # "ok" /\ (result = "final" => call.stream)
    BY <2>2 DEF Try, Goto, GivesUp
  <2>3. \A i \in 1 .. n :
           tried[i].result # "ok" /\ (tried[i].result = "final" => call.stream)
    BY <1>1, <1>2 DEF Failover
  <2>. QED BY <1>1, <1>2, <2>1, <2>2, <2>3
<1>8. ASSUME NEW l \in Links, NEW c \in routed,
             l < p[1] \/ (l = p[1] /\ c < p[2])
      PROVE  \E i \in 1 .. n :
                /\ tried[i].at = <<l, c>>
                /\ tried[i].result # "ok"
                /\ tried[i].result = "final" => call.stream
  <2>1. l \in Nat /\ c \in Nat /\ p[1] \in Nat /\ p[2] \in Nat
    BY <1>3, AttemptsAreNumbers DEF TypeOK
  <2>2. <<l, c>> # p /\ ~Sooner(p, <<l, c>>)
    BY <1>8, <2>1 DEF Sooner
  <2>3. <<l, c>> \notin plan
    BY <1>1, <2>2
  <2>4. PICK i \in DOMAIN tried : tried[i].at = <<l, c>>
    BY <1>1, <2>3 DEF Failover
  <2>. QED BY <1>1, <1>2, <2>4 DEF Failover
<1>9. ASSUME NEW j \in 1 .. n + 1 PROVE tried'[j].at[2] \in routed
  <2>1. CASE j \in 1 .. n
    BY <1>2, <2>1 DEF Failover, FailoverInOrder
  <2>2. CASE j = n + 1
    BY <1>2, <1>3, <2>2
  <2>. QED BY <1>2, <2>1, <2>2
<1>10. ASSUME NEW j \in 1 .. n + 1, NEW l \in Links, NEW c \in routed,
              l < tried'[j].at[1] \/ (l = tried'[j].at[1] /\ c < tried'[j].at[2])
       PROVE  \E i \in 1 .. j - 1 :
                 /\ tried'[i].at = <<l, c>>
                 /\ tried'[i].result # "ok"
                 /\ tried'[i].result = "final" => call.stream
  <2>1. CASE j \in 1 .. n
    <3>1. tried'[j] = tried[j] /\ j \in DOMAIN tried
      BY <1>2, <2>1
    <3>2. l < tried[j].at[1] \/ (l = tried[j].at[1] /\ c < tried[j].at[2])
      BY <1>10, <3>1
    <3>3. PICK i \in 1 .. j - 1 : /\ tried[i].at = <<l, c>>
                                  /\ tried[i].result # "ok"
                                  /\ tried[i].result = "final" => call.stream
      <4>1. FailoverInOrder
        BY DEF Failover
      <4>. QED BY <3>1, <3>2, <4>1, Zenon DEF FailoverInOrder
    <3>4. i \in 1 .. n /\ tried'[i] = tried[i]
      BY <1>2, <2>1
    <3>. QED BY <3>3, <3>4
  <2>2. CASE j = n + 1
    <3>1. l < p[1] \/ (l = p[1] /\ c < p[2])
      BY <1>2, <1>10, <2>2
    <3>2. PICK i \in 1 .. n : /\ tried[i].at = <<l, c>>
                              /\ tried[i].result # "ok"
                              /\ tried[i].result = "final" => call.stream
      BY <1>8, <3>1
    <3>3. i \in 1 .. j - 1 /\ tried'[i] = tried[i]
      BY <1>2, <2>2
    <3>. QED BY <3>2, <3>3
  <2>. QED BY <1>2, <2>1, <2>2
<1>11. FailoverInOrder'
  <2>1. DOMAIN tried' = 1 .. n + 1 /\ routed' = routed /\ call' = call
    BY <1>1, <1>2
  <2>2. \A j \in 1 .. n + 1 :
           /\ tried'[j].at[2] \in routed
           /\ \A l \in Links, c \in routed :
                 l < tried'[j].at[1] \/ (l = tried'[j].at[1] /\ c < tried'[j].at[2])
                 => \E i \in 1 .. j - 1 :
                       /\ tried'[i].at = <<l, c>>
                       /\ tried'[i].result # "ok"
                       /\ tried'[i].result = "final" => call.stream
    BY <1>9, <1>10, Zenon
  <2> DEFINE First(t, rs, c0, j) ==
          /\ t[j].at[2] \in rs
          /\ \A l \in Links, c \in rs :
                l < t[j].at[1] \/ (l = t[j].at[1] /\ c < t[j].at[2])
                => \E i \in 1 .. j - 1 :
                      /\ t[i].at = <<l, c>>
                      /\ t[i].result # "ok"
                      /\ t[i].result = "final" => c0.stream
  <2>3. FailoverInOrder' <=> \A j \in DOMAIN tried' : First(tried', routed', call', j)
    BY Zenon DEF FailoverInOrder
  <2>4. \A j \in 1 .. n + 1 : First(tried', routed, call, j)
    BY <2>2, Zenon
  <2> HIDE DEF First
  <2>. QED BY <2>1, <2>3, <2>4
<1>. QED BY <1>4, <1>5, <1>6, <1>7, <1>11 DEF Failover

\* Every step keeps the order of the attempts.
LEMMA StepFailover ==
    ASSUME TypeOK, Failover, [Next]_vars
    PROVE  Failover'
<1>0. ASSUME UNCHANGED <<call, routed, tried>> PROVE FailoverInOrder'
  <2> DEFINE InOrder(t, r, k) ==
          \A j \in DOMAIN t :
              /\ t[j].at[2] \in r
              /\ \A l \in Links, c \in r :
                    l < t[j].at[1] \/ (l = t[j].at[1] /\ c < t[j].at[2])
                    => \E i \in 1 .. j - 1 :
                          /\ t[i].at = <<l, c>>
                          /\ t[i].result # "ok"
                          /\ t[i].result = "final" => k.stream
  <2>1. InOrder(tried, routed, call)
    BY DEF Failover, FailoverInOrder
  <2>2. call' = call /\ routed' = routed /\ tried' = tried
    BY <1>0
  <2>3. InOrder(tried', routed', call')
    <3> HIDE DEF InOrder
    <3>. QED BY <2>1, <2>2
  <2>. QED BY <2>3 DEF FailoverInOrder
<1>1. ASSUME UNCHANGED <<call, pc, routed, plan, tried>> PROVE Failover'
  <2>1. FailoverInOrder'
    BY <1>0, <1>1
  <2>. QED BY <1>1, <2>1 DEF Failover
<1>2. CASE StreamSteps \/ ClientStep \/ UNCHANGED vars
  BY <1>1, <1>2 DEF StreamSteps, ClientStep, vars, chatVars
<1>3. ASSUME NEW c \in Channels, Change(c) PROVE Failover'
  BY <1>1, <1>3 DEF Change, chatVars
<1>4. ASSUME UNCHANGED <<call, routed, plan, tried>>,
             pc' \notin {"enter", "gate", "plan", "try"}
      PROVE  Failover'
  <2>1. FailoverInOrder'
    BY <1>0, <1>4
  <2>. QED BY <1>4, <2>1 DEF Failover
<1>5. CASE EndOfTries \/ Release \/ Meter \/ StreamEnds \/ Crash
  BY <1>4, <1>5 DEF EndOfTries, Release, Meter, StreamEnds, Crash, AnswerSent, Goto
<1>6. CASE Enter \/ CheckBalance \/ Hold
  <2>1. /\ UNCHANGED <<call, routed, plan, tried>>
        /\ pc \in {"enter", "gate"} /\ pc' \in {"gate", "plan", "done"}
    BY <1>6 DEF Enter, CheckBalance, Hold, Refuse, Goto
  <2>. QED BY <2>1 DEF Failover, FailoverInOrder
<1>7. CASE Plan
  <2>1. UNCHANGED <<call, tried>> /\ tried = << >>
    BY <1>7 DEF Plan, Failover
  <2>2. CASE pc' = "release" /\ UNCHANGED <<routed, plan>>
    BY <1>4, <2>1, <2>2
  <2>3. CASE pc' = "try" /\ routed' = usable /\ plan' = Links \X usable
    <3>1. DOMAIN tried' = {}
      BY <2>1
    <3>. QED BY <2>3, <3>1 DEF Failover, FailoverInOrder
  <2>. QED BY <1>7, <2>2, <2>3 DEF Plan, Abort, Goto, Routable
<1>8. ASSUME NEW p \in Attempts, NEW result \in Results, Try(p, result) PROVE Failover'
  BY <1>8, TryKeepsOrder
<1>. QED BY <1>2, <1>3, <1>5, <1>6, <1>7, <1>8 DEF Next, ChatStep

(***************************************************************************)
(* The theorems.                                                           *)
(***************************************************************************)
\* The invariant holds initially.
LEMMA InitGatewayInv == Init => GatewayInv
<1> SUFFICES ASSUME Init PROVE GatewayInv
  OBVIOUS
<1> USE GatewayAssumption, StreamAssumption
<1>1. /\ << >> \in Seq(Kinds) /\ << >> \in Seq(Events)
      /\ << >> \in Seq({"usage", "settle"})
      /\ << >> \in Seq([at : Attempts, result : Results])
      /\ Len(<< >>) = 0 /\ DOMAIN << >> = {}
  OBVIOUS
<1>2. StreamTypeOK /\ PutHasEvent
  <2>1. script \in Seq(Kinds) /\ Len(script) <= MaxEvents
    BY <1>1 DEF Init, StreamInit
  <2>2. outbox \in Seq(Events) /\ Len(outbox) <= 2
    BY <1>1 DEF Init, StreamInit
  <2>3. out \in Seq(Events) /\ Len(out) <= Buffer
    BY <1>1 DEF Init, StreamInit
  <2>4. tasks \in Seq({"usage", "settle"}) /\ emits \in Nat /\ delivered \in Nat
    BY <1>1 DEF Init, StreamInit
  <2>5. /\ cancelled \in BOOLEAN /\ usage \in BOOLEAN /\ finished \in BOOLEAN
        /\ counted \in BOOLEAN
    BY Zenon DEF Init, StreamInit
  <2>6. raw \in Kinds \cup {"error"}
    BY DEF Init, StreamInit, Kinds
  <2>7. PutHasEvent
    BY DEF Init, StreamInit, PutHasEvent
  <2>. QED BY <2>1, <2>2, <2>3, <2>4, <2>5, <2>6, <2>7
           DEF Init, StreamInit, StreamTypeOK
<1>3. TypeOK
  <2>1. hold \in BOOLEAN /\ reserved \in BOOLEAN /\ served \in BOOLEAN
    BY Zenon DEF Init
  <2>2. changes \in 0 .. MaxChanges /\ faults \in 0 .. MaxFaults
        /\ crashes \in 0 .. MaxCrashes
    BY DEF Init
  <2>3. tried \in Seq([at : Attempts, result : Results])
    BY <1>1 DEF Init
  <2>. QED BY <1>2, <2>1, <2>2, <2>3 DEF Init, TypeOK
<1>4. Metered
  BY <1>1 DEF Init, StreamInit, Metered, ServedIsMetered
<1>5. Frozen
  BY DEF Init, Frozen
<1>6. Failover
  BY <1>1 DEF Init, Failover, FailoverInOrder
<1>. QED BY <1>2, <1>3, <1>4, <1>5, <1>6 DEF GatewayInv

\* Types, metering, the hold and the order of failover, in every reachable
\* state of a call, for every chain of models, every number of channels and
\* every interleaving with the client, the upstream and a crash.
THEOREM GatewayInvariant == Spec => []GatewayInv
<1>1. GatewayInv /\ [Next]_vars => GatewayInv'
  BY StepTypes, StepMetered, StepFrozen, StepFailover DEF GatewayInv
<1>. QED BY <1>1, InitGatewayInv, PTL DEF Spec

\* A call is metered once if an upstream answered it, and not at all otherwise.
THEOREM MeteredOnce == Spec => []ServedIsMetered
<1>1. GatewayInv => ServedIsMetered
  BY DEF GatewayInv, Metered
<1>. QED BY <1>1, GatewayInvariant, PTL

\* A call that ended unserved leaves money frozen only after a Redis failure
\* or a client that left.
THEOREM HoldsComeBack == Spec => []HoldHasCause
<1>1. GatewayInv => HoldHasCause
  BY DEF GatewayInv, Frozen, HoldHasCause
<1>. QED BY <1>1, GatewayInvariant, PTL

\* No attempt is made before those that come first in the plan have failed.
THEOREM AttemptsInOrder == Spec => []FailoverInOrder
<1>1. GatewayInv => FailoverInOrder
  BY DEF GatewayInv, Failover
<1>. QED BY <1>1, GatewayInvariant, PTL

\* The gateway never gives back the hold of a call it has served.
THEOREM HoldIsTheSettlements == Spec => ServedKeepsHold
<1>1. ASSUME GatewayInv, [Next]_vars, served' PROVE hold' = hold
  <2>1. CASE Hold
    BY <1>1, <2>1 DEF Hold, GatewayInv, Metered
  <2>2. CASE Release
    BY <1>1, <2>2 DEF Release, GatewayInv, Metered
  <2>3. CASE Enter \/ CheckBalance \/ Plan \/ EndOfTries \/ Meter \/ StreamEnds
            \/ Crash
    BY <2>3 DEF Enter, CheckBalance, Plan, EndOfTries, Meter, StreamEnds, Crash
  <2>4. ASSUME NEW p \in Attempts, NEW result \in Results, Try(p, result)
        PROVE  hold' = hold
    BY <2>4 DEF Try
  <2>5. CASE StreamSteps \/ ClientStep \/ UNCHANGED vars
    BY <2>5 DEF StreamSteps, ClientStep, vars, chatVars
  <2>6. ASSUME NEW c \in Channels, Change(c) PROVE hold' = hold
    BY <2>6 DEF Change, chatVars
  <2>. QED BY <1>1, <2>1, <2>2, <2>3, <2>4, <2>5, <2>6 DEF Next, ChatStep
<1>2. GatewayInv /\ [Next]_vars => [served' => hold' = hold]_vars
  BY <1>1
<1>. QED BY <1>2, GatewayInvariant, PTL DEF Spec, ServedKeepsHold

-----------------------------------------------------------------------------
(***************************************************************************)
(* The pieces of a streamed answer.                                        *)
(***************************************************************************)
Positions(s, n) == {i \in 1 .. n : s[i] = "delta"}

\* Pieces counts the positions of a finite set.
LEMMA PiecesType ==
    ASSUME NEW s, NEW n \in Nat
    PROVE  IsFiniteSet(Positions(s, n)) /\ Pieces(s, n) \in Nat
           /\ Pieces(s, n) = Cardinality(Positions(s, n))
<1>1. IsFiniteSet(1 .. n)
  BY FS_Interval
<1>2. IsFiniteSet(Positions(s, n))
  BY <1>1, FS_Subset DEF Positions
<1>. QED BY <1>2, FS_CardinalityType DEF Pieces, Positions

\* Before the first event there is no piece.
LEMMA NoPieces == ASSUME NEW s PROVE Pieces(s, 0) = 0
<1>1. {i \in 1 .. 0 : s[i] = "delta"} = {}
  OBVIOUS
<1>. QED BY <1>1, FS_EmptySet DEF Pieces

\* One more element, one more piece if it is one.
LEMMA PiecesAppend ==
    ASSUME NEW S, NEW s \in Seq(S), NEW e \in S
    PROVE  /\ \A n \in 0 .. Len(s) : Pieces(Append(s, e), n) = Pieces(s, n)
           /\ Pieces(Append(s, e), Len(s) + 1)
                  = Pieces(s, Len(s)) + IF e = "delta" THEN 1 ELSE 0
<1> DEFINE t == Append(s, e)
           L == Len(s)
<1>1. /\ L \in Nat /\ DOMAIN s = 1 .. L /\ t[L + 1] = e
      /\ \A i \in 1 .. L : t[i] = s[i]
  OBVIOUS
<1> HIDE DEF t, L
<1>2. ASSUME NEW n \in 0 .. L PROVE Pieces(t, n) = Pieces(s, n)
  <2>1. {i \in 1 .. n : t[i] = "delta"} = {i \in 1 .. n : s[i] = "delta"}
    BY <1>1
  <2>. QED BY <2>1 DEF Pieces
<1>3. Pieces(t, L + 1) = Pieces(s, L) + IF e = "delta" THEN 1 ELSE 0
  <2>1. Pieces(s, L) \in Nat /\ IsFiniteSet(Positions(s, L))
        /\ Pieces(s, L) = Cardinality(Positions(s, L))
    BY <1>1, PiecesType
  <2>2. Pieces(t, L + 1) = Cardinality(Positions(t, L + 1))
    BY DEF Pieces, Positions
  <2>3. CASE e = "delta"
    <3>1. Positions(t, L + 1) = Positions(s, L) \cup {L + 1}
      BY <1>1, <2>3 DEF Positions
    <3>2. L + 1 \notin Positions(s, L)
      BY <1>1 DEF Positions
    <3>3. Cardinality(Positions(s, L) \cup {L + 1}) = Cardinality(Positions(s, L)) + 1
      BY <2>1, <3>2, FS_AddElement
    <3>. QED BY <2>1, <2>2, <2>3, <3>1, <3>3
  <2>4. CASE e # "delta"
    <3>1. Positions(t, L + 1) = Positions(s, L)
      BY <1>1, <2>4 DEF Positions
    <3>. QED BY <2>1, <2>2, <2>4, <3>1
  <2>. QED BY <2>3, <2>4
<1>. QED BY <1>2, <1>3 DEF t, L

\* The first element gone, and one piece less if it was one.
LEMMA PiecesTail ==
    ASSUME NEW S, NEW s \in Seq(S), s # << >>
    PROVE  Pieces(s, Len(s))
               = Pieces(Tail(s), Len(Tail(s))) + IF Head(s) = "delta" THEN 1 ELSE 0
<1> DEFINE L == Len(s) - 1
           A == Positions(Tail(s), L)
           B == Positions(s, L + 1) \ {1}
           shift == [i \in A |-> i + 1]
<1>1. /\ L \in Nat /\ Len(Tail(s)) = L /\ Len(s) = L + 1 /\ Head(s) = s[1]
      /\ \A i \in 1 .. L : Tail(s)[i] = s[i + 1]
  OBVIOUS
<1> HIDE DEF L
<1>2. shift \in Bijection(A, B)
  <2>1. \A i \in A : i \in 1 .. L /\ i + 1 \in B
    BY <1>1 DEF Positions
  <2>2. shift \in [A -> B]
    BY <2>1
  <2>3. \A i, j \in A : shift[i] = shift[j] => i = j
    BY <1>1, <2>1
  <2>4. ASSUME NEW j \in B PROVE \E i \in A : shift[i] = j
    <3>1. j \in 1 .. L + 1 /\ j # 1 /\ s[j] = "delta"
      BY <2>4 DEF Positions
    <3>2. j - 1 \in 1 .. L /\ Tail(s)[j - 1] = s[j]
      BY <1>1, <3>1
    <3>3. j - 1 \in A /\ shift[j - 1] = j
      BY <1>1, <3>1, <3>2 DEF Positions
    <3>. QED BY <3>3
  <2> HIDE DEF A, B, shift
  <2>5. shift \in Injection(A, B) /\ shift \in Surjection(A, B)
    BY <2>2, <2>3, <2>4 DEF Injection, IsInjective, Surjection
  <2>. QED BY <2>5 DEF Bijection
<1>3. /\ IsFiniteSet(A) /\ Cardinality(A) \in Nat
      /\ Pieces(Tail(s), L) = Cardinality(A)
      /\ IsFiniteSet(Positions(s, L + 1)) /\ Cardinality(Positions(s, L + 1)) \in Nat
      /\ Pieces(s, L + 1) = Cardinality(Positions(s, L + 1))
  BY <1>1, PiecesType
<1>4. Cardinality(B) = Cardinality(A)
  <2>1. ExistsBijection(A, B)
    BY <1>2 DEF ExistsBijection
  <2>. QED BY <1>3, <2>1, FS_Bijection
<1>5. 1 \in Positions(s, L + 1) <=> Head(s) = "delta"
  BY <1>1 DEF Positions
<1>6. CASE Head(s) = "delta"
  <2>1. Cardinality(B) = Cardinality(Positions(s, L + 1)) - 1
    BY <1>3, <1>5, <1>6, FS_RemoveElement
  <2>. QED BY <1>1, <1>3, <1>4, <1>6, <2>1
<1>7. CASE Head(s) # "delta"
  <2>1. B = Positions(s, L + 1)
    BY <1>5, <1>7
  <2>2. Cardinality(Positions(s, L + 1)) = Cardinality(A)
    BY <1>4, <2>1
  <2> HIDE DEF A, B
  <2>. QED BY <1>1, <1>3, <1>7, <2>2
<1>. QED BY <1>6, <1>7

\* One event more: a count is told, zeros take it back.
LEMMA ToldNext ==
    ASSUME NEW s, NEW n \in Nat
    PROVE  Told(s, n + 1) <=> s[n + 1] = "count" \/ (Told(s, n) /\ s[n + 1] # "zero")
<1>1. ASSUME Told(s, n + 1), s[n + 1] # "count" PROVE Told(s, n) /\ s[n + 1] # "zero"
  <2>1. PICK i \in 1 .. n + 1 : s[i] = "count" /\ \A j \in i .. n + 1 : s[j] # "zero"
    BY <1>1 DEF Told
  <2>2. i \in 1 .. n /\ \A j \in i .. n : j \in i .. n + 1
    BY <1>1, <2>1
  <2>3. n + 1 \in i .. n + 1
    BY <2>2
  <2>. QED BY <2>1, <2>2, <2>3 DEF Told
<1>2. ASSUME s[n + 1] = "count" PROVE Told(s, n + 1)
  <2>1. n + 1 \in 1 .. n + 1 /\ \A j \in n + 1 .. n + 1 : j = n + 1
    OBVIOUS
  <2>2. \A j \in n + 1 .. n + 1 : s[j] # "zero"
    BY <1>2, <2>1
  <2>. QED BY <1>2, <2>1, <2>2 DEF Told
<1>3. ASSUME Told(s, n), s[n + 1] # "zero" PROVE Told(s, n + 1)
  <2>1. PICK i \in 1 .. n : s[i] = "count" /\ \A j \in i .. n : s[j] # "zero"
    BY <1>3 DEF Told
  <2>2. i \in 1 .. n + 1 /\ \A j \in i .. n + 1 : j \in i .. n \/ j = n + 1
    OBVIOUS
  <2>3. \A j \in i .. n + 1 : s[j] # "zero"
    BY <1>3, <2>1, <2>2
  <2>. QED BY <2>1, <2>2, <2>3 DEF Told
<1>. QED BY <1>1, <1>2, <1>3

\* What was told by then does not change.
LEMMA ToldAppend ==
    ASSUME NEW S, NEW s \in Seq(S), NEW e \in S, NEW n \in 0 .. Len(s)
    PROVE  Told(Append(s, e), n) = Told(s, n)
<1> DEFINE t == Append(s, e)
<1>1. \A i \in 1 .. n : t[i] = s[i]
  OBVIOUS
<1> HIDE DEF t
<1>2. \A i \in 1 .. n : \A j \in i .. n : j \in 1 .. n
  OBVIOUS
<1>3. Told(t, n) <=> Told(s, n)
  BY <1>1, <1>2 DEF Told
<1>. QED BY <1>3, Zenon DEF t, Told

\* A step that leaves the pipeline alone, or stops all of it.
LEMMA DeliveryStutter ==
    ASSUME DeliveryInv,
           UNCHANGED <<script, raw, outbox, counted, out, delivered, usage, finished>>,
           \/ UNCHANGED <<reader, parser, handler>>
           \/ reader' = "off" /\ parser' = "off" /\ handler' = "off"
           \/ UNCHANGED <<reader, parser>> /\ handler' # "loop" /\ handler # "off",
           pc' \notin {"stream", "done", "crashed"} =>
               pc \notin {"stream", "done", "crashed"}
    PROVE  DeliveryInv'
<1>1. Unopened' /\ Stages'
  BY DEF DeliveryInv, Unopened, Stages
<1>2. EndIsLast'
  BY DEF DeliveryInv, EndIsLast
<1>3. NoneLost'
  BY DEF DeliveryInv, NoneLost, Ended, Offered, Queued
<1>4. EndIsFinal' /\ WholeAnswer'
  BY DEF DeliveryInv, EndIsFinal, WholeAnswer
<1>5. CountIsTold'
  BY DEF DeliveryInv, CountIsTold, Seen
<1>. QED BY <1>1, <1>2, <1>3, <1>4, <1>5 DEF DeliveryInv

\* The reader adds to what was read.
LEMMA DeliveryReader ==
    ASSUME StreamTypeOK, DeliveryInv, ReaderStep, UNCHANGED <<chatVars, envVars>>
    PROVE  DeliveryInv'
<1>1. /\ script \in Seq(Kinds) /\ out \in Seq(Events) /\ delivered \in Nat
      /\ Len(script) \in Nat /\ DOMAIN script = 1 .. Len(script)
  BY DEF StreamTypeOK
<1>2. /\ reader = "scanning" /\ pc' = pc
      /\ UNCHANGED <<parser, outbox, counted, out, handler, delivered, usage, finished>>
  BY DEF ReaderStep, ReadEvent, ReadEOF, ReadError, handlerVars, chatVars
<1>3. Unopened'
  BY <1>2 DEF DeliveryInv, Unopened
<1>4. EndIsLast' /\ EndIsFinal'
  BY <1>2 DEF DeliveryInv, EndIsLast, EndIsFinal
<1>5. ASSUME NEW k \in Kinds, ReadEvent(k) PROVE DeliveryInv'
  <2>1. script' = Append(script, k) /\ raw' = k /\ reader' = "sending"
    BY <1>5 DEF ReadEvent
  <2>2. /\ Len(script') = Len(script) + 1 /\ script' # << >>
        /\ DOMAIN script' = 1 .. Len(script) + 1 /\ script'[Len(script) + 1] = k
        /\ \A n \in DOMAIN script : n \in DOMAIN script' /\ script'[n] = script[n]
    BY <1>1, <2>1
  <2>3. /\ \A n \in 0 .. Len(script) : Pieces(script', n) = Pieces(script, n)
        /\ Pieces(script', Len(script'))
               = Pieces(script, Len(script)) + IF k = "delta" THEN 1 ELSE 0
    BY <1>1, <2>1, <2>2, PiecesAppend
  <2>4. \A n \in DOMAIN script :
            Pieces(script', n) = Pieces(script, n) /\ Told(script', n) = Told(script, n)
    <3>1. \A n \in 0 .. Len(script) : Told(script', n) = Told(script, n)
      BY <1>1, <2>1, ToldAppend
    <3>. QED BY <1>1, <2>3, <3>1
  <2>5. Stages'
    BY <1>2, <2>1, <2>2 DEF DeliveryInv, Stages
  <2>6. NoneLost'
    <3>1. Offered = 0 /\ Offered' = IF k = "delta" THEN 1 ELSE 0
      BY <1>2, <2>1 DEF Offered
    <3>2. Queued' = Queued /\ Queued \in Nat /\ Ended' = Ended /\ Len(outbox) \in Nat
          /\ Pieces(script, Len(script)) \in Nat
      BY <1>1, <1>2, PiecesType DEF Queued, Ended, StreamTypeOK
    <3>3. ASSUME handler = "loop", parser \in {"select", "put"}
          PROVE  delivered + Queued + Len(outbox) + Offered' = Pieces(script', Len(script'))
      <4>1. delivered + Queued + Len(outbox) = Pieces(script, Len(script))
        BY <1>1, <3>1, <3>2, <3>3 DEF DeliveryInv, NoneLost
      <4>. QED BY <1>1, <2>3, <3>1, <3>2, <4>1
    <3>4. ASSUME handler = "loop", Ended
          PROVE  \E n \in DOMAIN script' :
                     /\ script'[n] = "done" /\ delivered + Queued = Pieces(script', n)
                     /\ counted = Told(script', n)
      <4>1. PICK n \in DOMAIN script :
                /\ script[n] = "done" /\ delivered + Queued = Pieces(script, n)
                /\ counted = Told(script, n)
        BY <3>4 DEF DeliveryInv, NoneLost
      <4>. QED BY <2>2, <2>4, <4>1
    <3>. QED BY <1>2, <3>2, <3>3, <3>4 DEF NoneLost
  <2>7. WholeAnswer'
    <3>1. ASSUME finished
          PROVE  \E n \in DOMAIN script' :
                     /\ script'[n] = "done" /\ delivered = Pieces(script', n)
                     /\ usage /\ counted = Told(script', n)
      <4>1. PICK n \in DOMAIN script :
                /\ script[n] = "done" /\ delivered = Pieces(script, n)
                /\ usage /\ counted = Told(script, n)
        BY <3>1 DEF DeliveryInv, WholeAnswer
      <4>. QED BY <2>2, <2>4, <4>1
    <3>. QED BY <1>2, <3>1 DEF WholeAnswer
  <2>8. CountIsTold'
    <3>1. Seen = Len(script)
      BY <1>2 DEF Seen
    <3>2. Seen' = Len(script)
      <4>1. k # "error"
        BY DEF Kinds
      <4>. QED BY <1>1, <2>1, <2>2, <4>1 DEF Seen
    <3>3. Told(script', Len(script)) = Told(script, Len(script))
      <4>1. Len(script) \in 0 .. Len(script)
        BY <1>1
      <4>. QED BY <1>1, <2>1, <4>1, ToldAppend
    <3>. QED BY <1>2, <3>1, <3>2, <3>3 DEF DeliveryInv, CountIsTold
  <2>. QED BY <1>2, <1>3, <1>4, <2>5, <2>6, <2>7, <2>8 DEF DeliveryInv
<1>6. CASE ReadEOF \/ ReadError
  <2>1. /\ UNCHANGED script
        /\ reader' = "gone" \/ (reader' = "sending" /\ raw' = "error")
    BY <1>6 DEF ReadEOF, ReadError
  <2>2. Stages' /\ WholeAnswer'
    BY <1>2, <2>1 DEF DeliveryInv, Stages, WholeAnswer
  <2>3. Offered' = 0 /\ Offered = 0
    BY <1>2, <2>1 DEF Offered
  <2>4. Queued' = Queued /\ Ended' = Ended
    BY <1>2 DEF Queued, Ended
  <2>5. NoneLost'
    BY <1>2, <2>1, <2>3, <2>4 DEF DeliveryInv, NoneLost
  <2>6. CountIsTold'
    <3>1. Seen = Len(script) /\ Seen' = Len(script)
      BY <1>2, <2>1 DEF Seen
    <3>. QED BY <1>2, <2>1, <3>1 DEF DeliveryInv, CountIsTold
  <2>. QED BY <1>3, <1>4, <2>2, <2>5, <2>6 DEF DeliveryInv
<1>. QED BY <1>5, <1>6 DEF ReaderStep

\* The parser takes what is offered, or ends on its own account.
LEMMA DeliveryParse ==
    ASSUME StreamTypeOK, DeliveryInv, Parse \/ ParseEOF \/ ParseCancelled,
           UNCHANGED <<chatVars, envVars>>
    PROVE  DeliveryInv'
<1>1. /\ script \in Seq(Kinds) /\ out \in Seq(Events) /\ delivered \in Nat
      /\ Len(script) \in Nat /\ DOMAIN script = 1 .. Len(script)
      /\ raw \in Kinds \cup {"error"}
  BY DEF StreamTypeOK
<1>2. /\ parser = "select" /\ outbox = << >> /\ pc' = pc
      /\ UNCHANGED <<script, raw, out, handler, delivered, usage, finished>>
  BY DEF Parse, ParseEOF, ParseCancelled, handlerVars, chatVars, DeliveryInv, Stages
<1>3. Unopened' /\ EndIsFinal' /\ WholeAnswer'
  <2>1. ~finished
    BY <1>2 DEF DeliveryInv, EndIsFinal
  <2>2. pc \in {"stream", "done", "crashed"}
    BY <1>2 DEF DeliveryInv, Unopened
  <2>. QED BY <1>2, <2>1, <2>2 DEF EndIsFinal, Unopened, WholeAnswer
<1>4. \A i \in DOMAIN out : out[i] # "done"
  BY <1>2 DEF DeliveryInv, EndIsLast
<1>5. outbox' # <<"done">> /\ UNCHANGED out => EndIsLast'
  BY <1>4 DEF EndIsLast
<1>6. Queued' = Queued /\ Queued \in Nat /\ Len(outbox) = 0
  BY <1>1, <1>2, PiecesType DEF Queued
<1>7. ASSUME parser' \in {"gone", "last"}, outbox' # << >> => outbox' = <<"error">>,
             parser' = "last" => outbox' = <<"error">>,
             reader' \in {reader, "scanning", "gone"}
      PROVE  DeliveryInv'
  <2>1. Stages'
    BY <1>2, <1>7 DEF DeliveryInv, Stages
  <2>2. EndIsLast'
    <3>1. <<"error">> # <<"done">> /\ << >> # <<"done">>
      OBVIOUS
    <3>. QED BY <1>2, <1>5, <1>7, <3>1
  <2>3. ~Ended'
    BY <1>2, <1>4, <1>7 DEF Ended
  <2>4. NoneLost' /\ CountIsTold'
    BY <1>7, <2>3 DEF NoneLost, CountIsTold
  <2>. QED BY <1>3, <2>1, <2>2, <2>4 DEF DeliveryInv
<1>8. CASE ParseEOF \/ ParseCancelled
  BY <1>7, <1>8 DEF ParseEOF, ParseCancelled, Ending
<1>9. CASE Parse
  <2>1. /\ reader = "sending" /\ outbox' = Answer(raw) /\ parser' = After(raw)
        /\ reader' \in {"scanning", "gone"}
    BY <1>9 DEF Parse
  <2>2. CASE raw = "mute" \/ raw \in {"bad", "error"}
    <3>1. /\ raw = "mute" => Answer(raw) = << >> /\ After(raw) = "gone"
          /\ raw \in {"bad", "error"} => Answer(raw) = <<"error">> /\ After(raw) = "last"
      BY DEF Answer, After
    <3>. QED BY <1>7, <2>1, <2>2, <3>1
  <2>3. Offered' = 0
    BY <2>1 DEF Offered
  <2>4. handler = "loop" =>
            delivered + Queued + (IF raw = "delta" THEN 1 ELSE 0) = Pieces(script, Len(script))
    <3>1. Offered = IF raw = "delta" THEN 1 ELSE 0
      BY <2>1 DEF Offered
    <3>. QED BY <1>1, <1>2, <1>6, <3>1 DEF DeliveryInv, NoneLost
  <2>8. ASSUME raw # "error"
        PROVE  counted' = Told(script, Len(script)) /\ Seen' = Len(script)
    <3>1. /\ script # << >> /\ script[Len(script)] = raw
          /\ counted' = Counts(raw)
      BY <1>9, <2>1, <2>8 DEF Parse, DeliveryInv, Stages
    <3>2. Len(script) - 1 \in Nat /\ Len(script) = (Len(script) - 1) + 1
      BY <1>1, <3>1
    <3>3. counted = Told(script, Len(script) - 1)
      BY <1>2, <2>1, <2>8, <3>1 DEF DeliveryInv, CountIsTold, Seen
    <3>4. Told(script, Len(script)) <=>
              raw = "count" \/ (Told(script, Len(script) - 1) /\ raw # "zero")
      <4> HIDE DEF Told
      <4>1. \A n \in Nat : Told(script, n + 1) <=>
               script[n + 1] = "count" \/ (Told(script, n) /\ script[n + 1] # "zero")
        BY ToldNext
      <4>. QED BY <3>1, <3>2, <4>1
    <3>5. counted' = Told(script, Len(script))
      <4>1. /\ counted \in BOOLEAN /\ Counts(raw) \in BOOLEAN
            /\ Told(script, Len(script)) \in BOOLEAN
        BY Zenon DEF StreamTypeOK, Counts, Told
      <4>2. Counts(raw) <=> raw = "count" \/ (Told(script, Len(script) - 1) /\ raw # "zero")
        BY <3>3 DEF Counts
      <4>. QED BY <3>1, <3>4, <4>1, <4>2
    <3>. QED BY <1>2, <2>1, <3>5 DEF Seen
  <2>9. ASSUME raw # "error" PROVE CountIsTold'
    BY <1>2, <2>8, <2>9 DEF CountIsTold
  <2>5. CASE raw = "delta"
    <3>1. outbox' = <<"delta">> /\ parser' = "put" /\ Len(<<"delta">>) = 1
          /\ <<"delta">> # <<"done">>
      BY <2>1, <2>5 DEF Answer, After
    <3>2. Stages' /\ EndIsLast'
      BY <1>2, <1>5, <2>1, <3>1 DEF Stages
    <3>3. ~Ended'
      BY <1>2, <1>4, <3>1 DEF Ended
    <3>4. NoneLost'
      BY <1>1, <1>2, <1>6, <2>3, <2>4, <2>5, <3>1, <3>3 DEF NoneLost
    <3>. QED BY <1>3, <2>5, <2>9, <3>2, <3>4 DEF DeliveryInv
  <2>6. CASE raw \in {"lost", "count", "zero", "other"}
    <3>1. outbox' = << >> /\ parser' = "select" /\ Len(<< >>) = 0
          /\ << >> # <<"done">>
      BY <2>1, <2>6 DEF Answer, After
    <3>2. Stages' /\ EndIsLast'
      BY <1>2, <1>5, <2>1, <3>1 DEF Stages
    <3>3. ~Ended'
      BY <1>2, <1>4, <3>1 DEF Ended
    <3>4. NoneLost'
      BY <1>1, <1>2, <1>6, <2>3, <2>4, <2>6, <3>1, <3>3 DEF NoneLost
    <3>. QED BY <1>3, <2>6, <2>9, <3>2, <3>4 DEF DeliveryInv
  <2>7. CASE raw = "done"
    <3>1. outbox' = <<"usage", "done">> /\ parser' = "last"
          /\ <<"usage", "done">> # <<"done">>
      BY <2>1, <2>7 DEF Answer, After
    <3>2. Stages' /\ EndIsLast'
      BY <1>2, <1>5, <2>1, <3>1 DEF Stages
    <3>3. Len(script) \in DOMAIN script /\ script[Len(script)] = "done"
      BY <1>1, <2>1, <2>7 DEF DeliveryInv, Stages
    <3>4. handler = "loop" => delivered + Queued = Pieces(script, Len(script))
      BY <1>1, <1>6, <2>4, <2>7
    <3>5. NoneLost'
      BY <1>2, <1>6, <2>7, <2>8, <3>1, <3>3, <3>4 DEF NoneLost
    <3>. QED BY <1>3, <2>7, <2>9, <3>2, <3>5 DEF DeliveryInv
  <2>. QED BY <1>1, <2>2, <2>5, <2>6, <2>7 DEF Kinds
<1>. QED BY <1>8, <1>9

\* The parser puts what it holds.
LEMMA DeliveryPut ==
    ASSUME StreamTypeOK, DeliveryInv, Put, UNCHANGED <<chatVars, envVars>>
    PROVE  DeliveryInv'
<1> DEFINE e == Head(outbox)
           L == Len(out)
<1>1. /\ out \in Seq(Events) /\ delivered \in Nat /\ L \in Nat /\ DOMAIN out = 1 .. L
  BY DEF StreamTypeOK
<1>2. /\ parser \in {"put", "last"} /\ outbox' = Tail(outbox) /\ out' = Append(out, e)
      /\ parser' = IF Len(outbox) > 1 THEN parser
                   ELSE IF parser = "put" THEN "select" ELSE "gone"
      /\ pc' = pc
      /\ UNCHANGED <<script, reader, raw, counted, handler, delivered, usage, finished>>
  BY DEF Put, handlerVars, chatVars
<1>3. Unopened' /\ EndIsFinal' /\ WholeAnswer'
  <2>1. ~finished
    BY <1>2 DEF DeliveryInv, EndIsFinal
  <2>. QED BY <1>2, <2>1 DEF DeliveryInv, Unopened, EndIsFinal, WholeAnswer
<1>14. CountIsTold'
  <2>1. Seen' = Seen
    BY <1>2 DEF Seen
  <2>2. parser' \in {"select", "put"} => parser \in {"select", "put"}
    BY <1>2
  <2>. QED BY <1>2, <2>1, <2>2 DEF DeliveryInv, CountIsTold
<1>4. \A i \in DOMAIN out : out[i] # "done"
  BY <1>2 DEF DeliveryInv, EndIsLast
<1>5. \/ parser = "put" /\ outbox = <<"delta">>
      \/ parser = "last" /\ outbox = <<"usage", "done">>
      \/ parser = "last" /\ outbox = <<"done">>
      \/ parser = "last" /\ outbox = <<"error">>
  BY <1>2 DEF DeliveryInv, Stages
<1>6. e \in Events
  BY <1>5 DEF Events
<1> HIDE DEF e, L
<1>7. /\ Len(out') = L + 1 /\ DOMAIN out' = 1 .. L + 1 /\ out'[L + 1] = e
      /\ \A i \in 1 .. L : out'[i] = out[i]
      /\ Queued' = Queued + (IF e = "delta" THEN 1 ELSE 0) /\ Queued \in Nat
  <2>1. /\ Len(out') = L + 1 /\ DOMAIN out' = 1 .. L + 1 /\ out'[L + 1] = e
        /\ \A i \in 1 .. L : out'[i] = out[i]
    BY <1>1, <1>2, <1>6 DEF L
  <2>2. Pieces(Append(out, e), Len(out) + 1)
            = Pieces(out, Len(out)) + IF e = "delta" THEN 1 ELSE 0
    BY <1>1, <1>6, PiecesAppend
  <2>3. Queued \in Nat
    BY <1>1, PiecesType DEF Queued, L
  <2>. QED BY <1>2, <2>1, <2>2, <2>3 DEF Queued, L
<1>8. Offered' = Offered
  BY <1>2 DEF Offered
<1>9. CASE parser = "put" /\ outbox = <<"delta">>
  <2>1. e = "delta" /\ parser' = "select" /\ outbox' = << >>
        /\ Len(outbox) = 1 /\ Len(outbox') = 0
    BY <1>2, <1>9 DEF e
  <2>2. Stages' /\ EndIsLast'
    BY <1>1, <1>2, <1>4, <1>7, <2>1 DEF DeliveryInv, Stages, EndIsLast
  <2>3. ~Ended'
    BY <1>1, <1>4, <1>7, <2>1 DEF Ended
  <2>4. NoneLost'
    <3>1. handler = "loop" =>
              delivered + Queued + 1 + Offered = Pieces(script, Len(script))
      BY <1>9, <2>1 DEF DeliveryInv, NoneLost
    <3>2. Offered \in Nat
      BY DEF Offered
    <3>3. Queued' = Queued + 1 /\ Queued \in Nat
      BY <1>7, <2>1
    <3>4. handler = "loop" =>
              delivered + Queued' + Len(outbox') + Offered = Pieces(script, Len(script))
      BY <1>1, <2>1, <3>1, <3>2, <3>3
    <3>. QED BY <1>2, <1>8, <2>3, <3>4 DEF NoneLost
  <2>. QED BY <1>3, <1>14, <2>2, <2>4 DEF DeliveryInv
<1>10. CASE parser = "last" /\ outbox = <<"usage", "done">>
  <2>1. /\ e = "usage" /\ parser' = "last" /\ outbox' = <<"done">>
        /\ <<"usage", "done">> # <<"error">>
    BY <1>2, <1>10 DEF e
  <2>2. Stages'
    BY <1>2, <2>1 DEF DeliveryInv, Stages
  <2>3. EndIsLast'
    BY <1>1, <1>4, <1>7, <2>1 DEF EndIsLast
  <2>4. NoneLost'
    <3>1. Ended
      BY <1>10, <2>1 DEF Ended
    <3>2. Queued' = Queued
      BY <1>7, <2>1
    <3>. QED BY <1>2, <2>1, <3>1, <3>2 DEF DeliveryInv, NoneLost
  <2>. QED BY <1>3, <1>14, <2>2, <2>3, <2>4 DEF DeliveryInv
<1>11. CASE parser = "last" /\ outbox = <<"done">>
  <2>1. /\ e = "done" /\ parser' = "gone" /\ <<"done">> # <<"error">>
    BY <1>2, <1>11 DEF e
  <2>2. Stages'
    BY <1>2, <2>1 DEF DeliveryInv, Stages
  <2>3. usage \/ \E j \in 1 .. L : out[j] = "usage"
    BY <1>1, <1>11 DEF DeliveryInv, EndIsLast
  <2>4. EndIsLast'
    <3>1. usage' \/ \E j \in 1 .. L : out'[j] = "usage"
      BY <1>2, <1>7, <2>3
    <3>2. ASSUME NEW i \in 1 .. L + 1, out'[i] = "done"
          PROVE  i = L + 1 /\ i - 1 = L
      BY <1>1, <1>4, <1>7, <3>2
    <3>. QED BY <1>7, <2>1, <3>1, <3>2 DEF EndIsLast
  <2>5. NoneLost'
    <3>1. Ended
      BY <1>11, <2>1 DEF Ended
    <3>2. Queued' = Queued
      BY <1>7, <2>1
    <3>. QED BY <1>2, <2>1, <3>1, <3>2 DEF DeliveryInv, NoneLost
  <2>. QED BY <1>3, <1>14, <2>2, <2>4, <2>5 DEF DeliveryInv
<1>12. CASE parser = "last" /\ outbox = <<"error">>
  <2>1. e = "error" /\ parser' = "gone"
    BY <1>2, <1>12 DEF e
  <2>2. Stages' /\ EndIsLast'
    BY <1>1, <1>2, <1>4, <1>7, <2>1 DEF DeliveryInv, Stages, EndIsLast
  <2>3. ~Ended'
    BY <1>1, <1>4, <1>7, <2>1 DEF Ended
  <2>4. NoneLost'
    BY <2>1, <2>3 DEF NoneLost
  <2>. QED BY <1>3, <1>14, <2>2, <2>4 DEF DeliveryInv
<1>. QED BY <1>5, <1>9, <1>10, <1>11, <1>12

\* The handler takes an event: the end finds everything before it written.
LEMMA DeliveryHandle ==
    ASSUME StreamTypeOK, DeliveryInv, Handle, UNCHANGED <<chatVars, envVars>>
    PROVE  DeliveryInv'
<1> DEFINE L == Len(out)
<1>1. /\ out \in Seq(Events) /\ out # << >> /\ delivered \in Nat /\ L \in Nat
      /\ DOMAIN out = 1 .. L /\ 1 \in DOMAIN out /\ Head(out) = out[1]
  BY DEF StreamTypeOK, Handle
<1>2. /\ handler = "loop" /\ out' = Tail(out) /\ pc' = pc
      /\ UNCHANGED <<script, reader, raw, parser, outbox, counted>>
  BY DEF Handle, chatVars
<1>14. CountIsTold'
  BY <1>2 DEF DeliveryInv, CountIsTold, Seen
<1>3. /\ Len(out') = L - 1 /\ DOMAIN out' = 1 .. L - 1
      /\ \A i \in DOMAIN out' : out'[i] = out[i + 1] /\ i + 1 \in DOMAIN out
      /\ \A i \in DOMAIN out : i # 1 => i - 1 \in DOMAIN out' /\ out'[i - 1] = out[i]
  BY <1>1, <1>2
<1>4. /\ Queued' \in Nat
      /\ Head(out) = "delta" => Queued = Queued' + 1
      /\ Head(out) # "delta" => Queued = Queued'
  <2>1. Pieces(out, Len(out))
            = Pieces(Tail(out), Len(Tail(out))) + IF Head(out) = "delta" THEN 1 ELSE 0
    BY <1>1, PiecesTail
  <2>2. Pieces(out', Len(out')) \in Nat
    <3>1. Len(out') \in Nat
      BY <1>1, <1>2
    <3>. QED BY <3>1, PiecesType
  <2>. QED BY <1>2, <2>1, <2>2 DEF Queued
<1> HIDE DEF L
<1>5. Unopened'
  BY <1>2 DEF DeliveryInv, Unopened
<1>6. Stages'
  BY <1>2 DEF DeliveryInv, Stages
<1>7. ~finished
  BY <1>2 DEF DeliveryInv, EndIsFinal
<1>8. (usage => usage') /\ (Head(out) = "usage" => usage') => EndIsLast'
  <2> SUFFICES ASSUME usage => usage', Head(out) = "usage" => usage' PROVE EndIsLast'
    OBVIOUS
  <2>1. ASSUME NEW i \in DOMAIN out', out'[i] = "done"
        PROVE  /\ i = Len(out') /\ parser \in {"gone", "off"}
               /\ usage' \/ \E j \in 1 .. i - 1 : out'[j] = "usage"
    <3>1. i + 1 \in DOMAIN out /\ out[i + 1] = "done" /\ i \in Nat
      BY <1>1, <1>3, <2>1
    <3>2. /\ i + 1 = Len(out) /\ parser \in {"gone", "off"}
          /\ usage \/ \E j \in 1 .. i : out[j] = "usage"
      BY <3>1 DEF DeliveryInv, EndIsLast
    <3>3. ASSUME NEW j \in 1 .. i, out[j] = "usage", ~usage'
          PROVE  j - 1 \in 1 .. i - 1 /\ out'[j - 1] = "usage"
      <4>1. j # 1
        BY <1>1, <3>3
      <4>2. j \in DOMAIN out
        BY <1>1, <3>1
      <4>. QED BY <1>3, <3>1, <3>3, <4>1, <4>2
    <3>4. i = Len(out')
      BY <1>1, <1>3, <3>1, <3>2 DEF L
    <3>. QED BY <3>2, <3>3, <3>4
  <2>2. ASSUME parser = "last", outbox = <<"done">>
        PROVE  usage' \/ \E j \in DOMAIN out' : out'[j] = "usage"
    <3>1. usage \/ \E j \in DOMAIN out : out[j] = "usage"
      BY <2>2 DEF DeliveryInv, EndIsLast
    <3>2. ASSUME NEW j \in DOMAIN out, out[j] = "usage", ~usage'
          PROVE  j - 1 \in DOMAIN out' /\ out'[j - 1] = "usage"
      BY <1>1, <1>3, <3>2
    <3>. QED BY <3>1, <3>2
  <2>. QED BY <1>2, <2>1, <2>2 DEF EndIsLast
<1>9. Head(out) # "done" => (Ended' <=> Ended)
  <2>1. ASSUME NEW i \in DOMAIN out, out[i] = "done", Head(out) # "done"
        PROVE  \E j \in DOMAIN out' : out'[j] = "done"
    <3>1. i # 1
      BY <1>1, <2>1
    <3>. QED BY <1>3, <2>1, <3>1
  <2>. QED BY <1>2, <1>3, <2>1 DEF Ended
<1>10. CASE Head(out) = "delta"
  <2>1. UNCHANGED <<usage, finished>>
    BY <1>10 DEF Handle
  <2>2. \/ delivered' = delivered + 1 /\ handler' = "loop"
        \/ delivered' = delivered /\ handler' = "settle"
    BY <1>10 DEF Handle, Leave
  <2>3. EndIsLast'
    BY <1>8, <1>10, <2>1
  <2>4. NoneLost'
    <3>1. CASE handler' = "settle"
      BY <3>1 DEF NoneLost
    <3>2. CASE delivered' = delivered + 1
      <4>1. delivered' + Queued' = delivered + Queued
        BY <1>1, <1>4, <1>10, <3>2
      <4>2. Ended' <=> Ended
        BY <1>9, <1>10
      <4>3. Offered' = Offered
        BY <1>2 DEF Offered
      <4>. QED BY <1>2, <4>1, <4>2, <4>3 DEF DeliveryInv, NoneLost
    <3>. QED BY <2>2, <3>1, <3>2
  <2>. QED BY <1>5, <1>6, <1>7, <1>14, <2>1, <2>3, <2>4
           DEF DeliveryInv, EndIsFinal, WholeAnswer
<1>11. CASE Head(out) = "usage"
  <2>1. usage' = TRUE /\ UNCHANGED <<handler, delivered, finished>>
    BY <1>11 DEF Handle
  <2>2. EndIsLast'
    BY <1>8, <2>1
  <2>3. NoneLost'
    <3>1. Head(out) # "delta" /\ Head(out) # "done"
      BY <1>11
    <3>2. Queued' = Queued
      BY <1>4, <3>1
    <3>3. Offered' = Offered /\ (Ended' <=> Ended)
      BY <1>2, <1>9, <3>1 DEF Offered
    <3>. QED BY <1>2, <2>1, <3>2, <3>3 DEF DeliveryInv, NoneLost
  <2>. QED BY <1>5, <1>6, <1>7, <1>14, <2>1, <2>2, <2>3
           DEF DeliveryInv, EndIsFinal, WholeAnswer
<1>12. CASE Head(out) = "error"
  <2>1. handler' = "settle" /\ UNCHANGED <<delivered, usage, finished>>
    BY <1>12 DEF Handle, Leave
  <2>2. EndIsLast' /\ NoneLost'
    BY <1>8, <1>12, <2>1 DEF NoneLost
  <2>. QED BY <1>5, <1>6, <1>7, <1>14, <2>1, <2>2
           DEF DeliveryInv, EndIsFinal, WholeAnswer
<1>13. CASE Head(out) = "done"
  <2>1. finished' = TRUE /\ handler' = "settle" /\ UNCHANGED <<delivered, usage>>
    BY <1>13 DEF Handle, Leave
  <2>2. EndIsLast' /\ NoneLost'
    BY <1>8, <1>13, <2>1 DEF NoneLost
  <2>3. L = 1 /\ usage
    <3>1. 1 = Len(out) /\ (usage \/ \E j \in 1 .. 1 - 1 : out[j] = "usage")
      BY <1>1, <1>13 DEF DeliveryInv, EndIsLast
    <3>. QED BY <3>1 DEF L
  <2>4. Queued = 0
    <3>1. Len(out') = 0
      BY <1>3, <2>3
    <3>2. Queued' = 0
      BY <3>1, NoPieces DEF Queued
    <3>. QED BY <1>4, <1>13, <3>2
  <2>5. Ended
    BY <1>1, <1>13 DEF Ended
  <2>6. PICK n \in DOMAIN script :
            /\ script[n] = "done" /\ delivered + Queued = Pieces(script, n)
            /\ counted = Told(script, n)
    BY <1>2, <2>5 DEF DeliveryInv, NoneLost
  <2>7. WholeAnswer'
    BY <1>1, <1>2, <2>1, <2>3, <2>4, <2>6 DEF WholeAnswer
  <2>8. EndIsFinal'
    BY <1>1, <1>2, <1>13, <2>1 DEF DeliveryInv, EndIsLast, EndIsFinal
  <2>. QED BY <1>5, <1>6, <1>14, <2>2, <2>7, <2>8 DEF DeliveryInv
<1>. QED BY <1>10, <1>11, <1>12, <1>13 DEF Handle

\* Every step keeps DeliveryInv.
LEMMA StepDelivery ==
    ASSUME TypeOK, Metered, DeliveryInv, [Next]_vars
    PROVE  DeliveryInv'
<1> USE DEF pipeVars, handlerVars
<1>1. StreamTypeOK
  BY DEF TypeOK
<1>2. CASE StreamSteps
  <2>1. pc' = pc /\ UNCHANGED <<chatVars, envVars>>
    BY <1>2 DEF StreamSteps, chatVars
  <2>2. CASE HandleClosed \/ Settle(call.prod) \/ Close
    <3>1. /\ UNCHANGED <<script, reader, raw, parser, outbox, counted, out, delivered,
                          usage, finished>>
          /\ handler' # "loop" /\ handler # "off"
      BY <2>2 DEF HandleClosed, Closed, Settle, Close, Leave
    <3>. QED BY <2>1, <3>1, DeliveryStutter
  <2>. QED
    BY <1>1, <1>2, <2>1, <2>2, DeliveryReader, DeliveryParse, DeliveryPut, DeliveryHandle
    DEF StreamSteps, ParserStep, HandlerStep
<1>3. CASE ClientStep
  BY <1>3, DeliveryStutter DEF ClientStep, ClientLeaves, Cancel, chatVars
<1>4. ASSUME NEW c \in Channels, Change(c) PROVE DeliveryInv'
  BY <1>4, DeliveryStutter DEF Change, chatVars, streamVars
<1>5. CASE Crash
  BY <1>5, DeliveryStutter DEF Crash, Goto
<1>6. CASE Enter \/ CheckBalance \/ Hold \/ Plan \/ EndOfTries \/ Release \/ Meter
           \/ StreamEnds
  <2>1. UNCHANGED <<script, reader, raw, parser, outbox, counted, out, handler, delivered,
                    usage, finished>>
    BY <1>6 DEF Enter, CheckBalance, Hold, Plan, EndOfTries, Release, Meter, StreamEnds,
       streamVars
  <2>2. pc \notin {"stream", "done", "crashed"} \/ pc' = "done"
    BY <1>6 DEF Enter, CheckBalance, Hold, Plan, EndOfTries, Release, Meter, StreamEnds,
       Goto
  <2>. QED BY <2>1, <2>2, DeliveryStutter
<1>7. ASSUME NEW p \in Attempts, NEW result \in Results, Try(p, result)
      PROVE  DeliveryInv'
  <2>1. pc = "try"
    BY <1>7 DEF Try
  <2>2. CASE UNCHANGED streamVars
    BY <2>1, <2>2, DeliveryStutter DEF streamVars
  <2>3. CASE Open /\ pc' = "stream"
    <3>1. /\ script = << >> /\ out = << >> /\ outbox = << >> /\ delivered = 0
          /\ ~counted /\ ~usage /\ ~finished
      BY <2>1 DEF DeliveryInv, Unopened
    <3>2. /\ UNCHANGED <<script, raw, outbox, counted, out, delivered, usage, finished>>
          /\ reader' = "scanning" /\ parser' = "select" /\ handler' = "loop"
      BY <2>3 DEF Open
    <3>3. Unopened' /\ Stages' /\ EndIsLast' /\ EndIsFinal' /\ WholeAnswer'
      BY <2>3, <3>1, <3>2 DEF Unopened, Stages, EndIsLast, EndIsFinal, WholeAnswer
    <3>5. CountIsTold'
      <4>1. Seen' = 0
        BY <3>1, <3>2 DEF Seen
      <4>2. ~Told(script', 0)
        BY DEF Told
      <4>3. counted' = FALSE /\ Told(script', 0) = FALSE
        <5>1. counted' = counted /\ counted \in BOOLEAN
          BY <1>1, <3>2 DEF StreamTypeOK
        <5>. QED BY <3>1, <4>2, <5>1 DEF Told
      <4>. QED BY <4>1, <4>3 DEF CountIsTold
    <3>4. NoneLost'
      <4>1. Queued' = 0 /\ Offered' = 0 /\ ~Ended'
        BY <3>1, <3>2, NoPieces DEF Queued, Offered, Ended
      <4>2. Len(outbox') = 0 /\ Pieces(script', Len(script')) = 0 /\ delivered' = 0
        BY <3>1, <3>2, NoPieces
      <4>. QED BY <4>1, <4>2 DEF NoneLost
    <3>. QED BY <3>3, <3>4, <3>5 DEF DeliveryInv
  <2>. QED BY <1>7, <2>2, <2>3 DEF Try, Goto
<1>8. CASE UNCHANGED vars
  BY <1>8, DeliveryStutter DEF vars, chatVars, streamVars
<1>. QED
  BY <1>2, <1>3, <1>4, <1>5, <1>6, <1>7, <1>8 DEF Next, ChatStep

\* An answer is taken for complete only if the upstream marked its end; every
\* piece before the mark that a parser passes on was written then, and whether
\* the upstream's counts are used agrees with the last of them before the mark,
\* where it sent none, or zeros, too: for any length of answer, any channel
\* capacity and every interleaving of the goroutines, the client and a crash.
THEOREM CompleteIsWhole == Spec => []WholeAnswer
<1>1. Init => DeliveryInv
  <2> SUFFICES ASSUME Init PROVE DeliveryInv
    OBVIOUS
  <2>1. Unopened /\ Stages /\ EndIsLast /\ NoneLost /\ CountIsTold /\ ~finished
    BY DEF Init, StreamInit, Unopened, Stages, EndIsLast, NoneLost, CountIsTold
  <2>. QED BY <2>1 DEF DeliveryInv, EndIsFinal, WholeAnswer
<1>2. GatewayInv /\ DeliveryInv /\ [Next]_vars => DeliveryInv'
  BY StepDelivery DEF GatewayInv
<1>3. DeliveryInv => WholeAnswer
  BY DEF DeliveryInv
<1>. QED BY <1>1, <1>2, <1>3, GatewayInvariant, PTL DEF Spec

(***************************************************************************)
(* What a streamed call is billed.                                         *)
(***************************************************************************)
\* The first end mark stays the first, whatever becomes of the goroutines.
LEMMA MarkStays ==
    ASSUME OneMark, finished' \/ (handler' = "loop" /\ Ended'),
           finished \/ (handler = "loop" /\ Ended),
           UNCHANGED <<script, counted>>, reader' # "scanning" \/ reader' = reader
    PROVE  \E n \in DOMAIN script' : Marked(n)'
<1>1. PICK n \in DOMAIN script : Marked(n)
  BY DEF OneMark
<1>2. Marked(n)'
  BY <1>1 DEF Marked
<1>. QED BY <1>1, <1>2

\* A step that leaves the pipeline alone, or stops all of it, or that the handler
\* does after its loop.
LEMMA BillStutter ==
    ASSUME OneMark, UsageIsLast,
           UNCHANGED <<script, raw, outbox, counted, out, usage, finished>>,
           \/ UNCHANGED <<reader, parser, handler>>
           \/ reader' = "off" /\ parser' = "off" /\ handler' = "off"
           \/ /\ UNCHANGED <<reader, parser>>
              /\ handler \in {"settle", "close"} /\ handler' \in {"close", "gone"}
    PROVE  OneMark' /\ UsageIsLast'
<1>1. OneMark'
  <2>1. Ended' => Ended
    BY DEF Ended
  <2>2. finished' \/ (handler' = "loop" /\ Ended') => finished \/ (handler = "loop" /\ Ended)
    BY <2>1
  <2>3. reader' # "scanning" \/ reader' = reader
    OBVIOUS
  <2>4. finished' \/ (handler' = "loop" /\ Ended') => \E n \in DOMAIN script' : Marked(n)'
    BY <2>2, <2>3, MarkStays
  <2>5. handler' = "loop" => UNCHANGED <<reader, parser, handler>> /\ Seen' = Seen
    BY DEF Seen
  <2>. QED BY <2>4, <2>5 DEF OneMark
<1>2. UsageIsLast'
  BY DEF UsageIsLast, NextIsEnd
<1>. QED BY <1>1, <1>2

\* The reader has at most one event beyond the mark.
LEMMA BillReader ==
    ASSUME StreamTypeOK, DeliveryInv, OneMark, UsageIsLast, ReaderStep
    PROVE  OneMark' /\ UsageIsLast'
<1>1. /\ script \in Seq(Kinds) /\ Len(script) \in Nat /\ DOMAIN script = 1 .. Len(script)
  BY DEF StreamTypeOK
<1>2. /\ reader = "scanning"
      /\ UNCHANGED <<parser, outbox, counted, out, handler, delivered, usage, finished>>
  BY DEF ReaderStep, ReadEvent, ReadEOF, ReadError, handlerVars
<1>3. UsageIsLast' /\ Ended' = Ended
  BY <1>2 DEF UsageIsLast, NextIsEnd, Ended
<1>4. Seen = Len(script)
  BY <1>2 DEF Seen
<1>5. ASSUME NEW k \in Kinds, ReadEvent(k) PROVE OneMark'
  <2>1. script' = Append(script, k) /\ raw' = k /\ reader' = "sending"
    BY <1>5 DEF ReadEvent
  <2>2. /\ Len(script') = Len(script) + 1 /\ DOMAIN script' = 1 .. Len(script) + 1
        /\ \A n \in DOMAIN script : n \in DOMAIN script' /\ script'[n] = script[n]
    BY <1>1, <2>1
  <2>3. Seen' = Len(script)
    <3>1. k # "error"
      BY DEF Kinds
    <3>. QED BY <1>1, <2>1, <2>2, <3>1 DEF Seen
  <2>4. ASSUME finished' \/ (handler' = "loop" /\ Ended')
        PROVE  \E n \in DOMAIN script' : Marked(n)'
    <3>1. PICK n \in DOMAIN script : Marked(n)
      BY <1>2, <1>3, <2>4 DEF OneMark
    <3>2. n = Len(script) /\ n \in 1 .. Len(script)
      BY <1>1, <1>2, <3>1 DEF Marked
    <3>3. Told(script', n) = Told(script, n)
      <4>1. n \in 0 .. Len(script)
        BY <1>1, <3>2
      <4>. QED BY <1>1, <2>1, <4>1, ToldAppend
    <3>4. \A i \in 1 .. n - 1 : script'[i] = script[i]
      BY <1>1, <2>2, <3>2
    <3>5. n = Len(script') - 1 /\ reader' # "scanning"
      BY <1>1, <2>1, <2>2, <3>2
    <3>6. script'[n] = "done" /\ counted' = Told(script', n)
      BY <1>2, <2>2, <3>1, <3>3 DEF Marked
    <3>7. \A i \in 1 .. n - 1 : script'[i] # "done"
      BY <3>1, <3>4 DEF Marked
    <3>8. Marked(n)'
      BY <3>5, <3>6, <3>7 DEF Marked
    <3>. QED BY <2>2, <3>1, <3>8
  <2>. QED BY <1>1, <1>2, <1>4, <2>2, <2>3, <2>4 DEF OneMark
<1>6. CASE ReadEOF \/ ReadError
  <2>1. UNCHANGED script /\ (reader' = "gone" \/ (reader' = "sending" /\ raw' = "error"))
    BY <1>6 DEF ReadEOF, ReadError
  <2>2. Seen' = Len(script)
    BY <2>1 DEF Seen
  <2>3. finished' \/ (handler' = "loop" /\ Ended') => \E n \in DOMAIN script' : Marked(n)'
    BY <1>2, <1>3, <2>1, MarkStays
  <2>4. handler = "loop" /\ parser \in {"select", "put"} =>
            \A i \in 1 .. Len(script) : script[i] # "done"
    BY <1>4 DEF OneMark
  <2>5. script' = script /\ handler' = handler /\ parser' = parser
    BY <1>2, <2>1
  <2>6. handler' = "loop" /\ parser' \in {"select", "put"} =>
            \A i \in 1 .. Seen' : script'[i] # "done"
    BY <2>2, <2>4, <2>5
  <2>. QED BY <1>3, <2>3, <2>6 DEF OneMark
<1>. QED BY <1>3, <1>5, <1>6 DEF ReaderStep

\* While the parser has not ended there is no usage for the handler, nor the end.
LEMMA NoUsageYet ==
    ASSUME StreamTypeOK, DeliveryInv, UsageIsLast, handler = "loop",
           parser \in {"select", "put", "last"}, outbox # <<"done">>
    PROVE  ~usage /\ \A i \in DOMAIN out : out[i] \notin {"usage", "done"}
<1>1. out \in Seq(Events) /\ Len(out) \in Nat /\ DOMAIN out = 1 .. Len(out)
  BY DEF StreamTypeOK
<1>2. \A i \in DOMAIN out : out[i] # "done"
  BY DEF DeliveryInv, EndIsLast
<1>3. \A i \in 0 .. Len(out) : ~NextIsEnd(i)
  BY <1>1, <1>2 DEF NextIsEnd
<1>. QED BY <1>1, <1>2, <1>3 DEF UsageIsLast

\* The parser takes the first mark, or ends without one.
LEMMA BillParse ==
    ASSUME StreamTypeOK, DeliveryInv, OneMark, UsageIsLast,
           Parse \/ ParseEOF \/ ParseCancelled, DeliveryInv'
    PROVE  OneMark' /\ UsageIsLast'
<1>1. /\ script \in Seq(Kinds) /\ Len(script) \in Nat /\ DOMAIN script = 1 .. Len(script)
      /\ raw \in Kinds \cup {"error"}
  BY DEF StreamTypeOK
<1>2. /\ parser = "select" /\ outbox = << >>
      /\ UNCHANGED <<script, raw, out, handler, delivered, usage, finished>>
  BY DEF Parse, ParseEOF, ParseCancelled, handlerVars, DeliveryInv, Stages
<1>3. ~finished
  BY <1>2 DEF DeliveryInv, EndIsFinal
<1>4. ASSUME handler = "loop"
      PROVE  ~usage /\ \A i \in DOMAIN out : out[i] \notin {"usage", "done"}
  <2>1. << >> # <<"done">>
    OBVIOUS
  <2>. QED BY <1>2, <1>4, <2>1, NoUsageYet
<1>5. UsageIsLast'
  BY <1>2, <1>4 DEF UsageIsLast
<1>6. CASE ParseEOF \/ ParseCancelled
  <2>1. parser' = "last" /\ outbox' = <<"error">>
    BY <1>6 DEF ParseEOF, ParseCancelled, Ending
  <2>2. handler = "loop" => ~Ended'
    BY <1>2, <1>4, <2>1 DEF Ended
  <2>. QED BY <1>2, <1>3, <1>5, <2>1, <2>2 DEF OneMark
<1>7. CASE Parse
  <2>1. /\ reader = "sending" /\ outbox' = Answer(raw) /\ parser' = After(raw)
        /\ reader' = IF raw = "error" THEN "gone" ELSE "scanning"
    BY <1>7 DEF Parse
  <2>2. CASE raw \in {"mute", "bad", "error"}
    <3>1. /\ raw = "mute" => Answer(raw) = << >> /\ After(raw) = "gone"
          /\ raw \in {"bad", "error"} => Answer(raw) = <<"error">> /\ After(raw) = "last"
      BY DEF Answer, After
    <3>2. handler = "loop" => ~Ended'
      BY <1>2, <1>4, <2>1, <2>2, <3>1 DEF Ended
    <3>. QED BY <1>2, <1>3, <1>5, <2>1, <2>2, <3>1, <3>2 DEF OneMark
  <2>3. ASSUME raw \notin {"mute", "bad", "error"}
        PROVE  /\ script # << >> /\ script[Len(script)] = raw
               /\ Seen = Len(script) - 1 /\ Seen' = Len(script)
               /\ Len(script) \in DOMAIN script
    <3>1. script # << >> /\ script[Len(script)] = raw
      BY <2>1, <2>3 DEF DeliveryInv, Stages
    <3>2. Seen = Len(script) - 1 /\ Seen' = Len(script)
      BY <1>2, <2>1, <2>3 DEF Seen
    <3>. QED BY <1>1, <3>1, <3>2
  <2>4. ASSUME raw \notin {"mute", "bad", "error"}, handler = "loop"
        PROVE  \A i \in 1 .. Len(script) - 1 : script[i] # "done"
    BY <1>2, <2>3, <2>4 DEF OneMark
  <2>5. CASE raw \in {"delta", "lost", "count", "zero", "other"}
    <3>1. /\ After(raw) \in {"put", "select"}
          /\ Answer(raw) \in {<<"delta">>, << >>}
      BY <2>5 DEF Answer, After
    <3>2. handler = "loop" => ~Ended'
      BY <1>2, <1>4, <2>1, <3>1 DEF Ended
    <3>3. handler = "loop" => \A i \in 1 .. Len(script) : script[i] # "done"
      BY <1>1, <2>3, <2>4, <2>5
    <3>. QED BY <1>2, <1>3, <1>5, <2>1, <2>3, <2>5, <3>1, <3>2, <3>3 DEF OneMark
  <2>6. CASE raw = "done"
    <3>1. After(raw) = "last"
      BY <2>6 DEF After
    <3>2. ASSUME handler = "loop", Ended' PROVE \E n \in DOMAIN script' : Marked(n)'
      <4>1. PICK n \in DOMAIN script : script[n] = "done" /\ counted' = Told(script, n)
        BY <1>2, <3>2 DEF DeliveryInv, NoneLost
      <4>2. n = Len(script)
        BY <1>1, <2>4, <2>6, <3>2, <4>1
      <4>3. Marked(n)'
        BY <1>2, <2>4, <2>6, <3>2, <4>1, <4>2 DEF Marked
      <4>. QED BY <1>2, <4>1, <4>3
    <3>. QED BY <1>2, <1>3, <1>5, <2>1, <3>1, <3>2 DEF OneMark
  <2>. QED BY <1>1, <2>2, <2>5, <2>6 DEF Kinds
<1>. QED BY <1>6, <1>7

\* The parser puts the usage and then the end, and nothing else after either.
LEMMA BillPut ==
    ASSUME StreamTypeOK, DeliveryInv, OneMark, UsageIsLast, Put
    PROVE  OneMark' /\ UsageIsLast'
<1> DEFINE e == Head(outbox)
           L == Len(out)
<1>1. /\ out \in Seq(Events) /\ L \in Nat /\ DOMAIN out = 1 .. L
  BY DEF StreamTypeOK
<1>2. /\ parser \in {"put", "last"} /\ outbox' = Tail(outbox) /\ out' = Append(out, e)
      /\ parser' = IF Len(outbox) > 1 THEN parser
                   ELSE IF parser = "put" THEN "select" ELSE "gone"
      /\ UNCHANGED <<script, reader, raw, counted, handler, delivered, usage, finished>>
  BY DEF Put, handlerVars
<1>3. ~finished
  BY <1>2 DEF DeliveryInv, EndIsFinal
<1>4. \/ parser = "put" /\ outbox = <<"delta">>
      \/ parser = "last" /\ outbox = <<"usage", "done">>
      \/ parser = "last" /\ outbox = <<"done">>
      \/ parser = "last" /\ outbox = <<"error">>
  BY <1>2 DEF DeliveryInv, Stages
<1>5. e \in Events
  BY <1>4 DEF Events
<1>6. /\ parser = "put" => e = "delta" /\ parser' = "select" /\ outbox' = << >>
      /\ outbox = <<"usage", "done">> =>
            e = "usage" /\ parser' = "last" /\ outbox' = <<"done">>
      /\ outbox = <<"done">> => e = "done" /\ parser' = "gone" /\ outbox' = << >>
      /\ outbox = <<"error">> => e = "error" /\ parser' = "gone" /\ outbox' = << >>
  <2>1. CASE parser = "put" /\ outbox = <<"delta">>
    BY <1>2, <2>1
  <2>2. CASE parser = "last" /\ outbox = <<"usage", "done">>
    BY <1>2, <2>2
  <2>3. CASE parser = "last" /\ outbox = <<"done">>
    BY <1>2, <2>3
  <2>4. CASE parser = "last" /\ outbox = <<"error">>
    BY <1>2, <2>4
  <2>. QED BY <1>4, <2>1, <2>2, <2>3, <2>4
<1> HIDE DEF e, L
<1>7. /\ Len(out') = L + 1 /\ DOMAIN out' = 1 .. L + 1 /\ out'[L + 1] = e
      /\ \A i \in 1 .. L : out'[i] = out[i]
  BY <1>1, <1>2, <1>5 DEF L
<1>8. \A i \in DOMAIN out : out[i] # "done"
  BY <1>2 DEF DeliveryInv, EndIsLast
<1>9. OneMark'
  <2>1. Ended' => Ended
    <3>1. ASSUME NEW i \in DOMAIN out', out'[i] = "done" PROVE e = "done"
      BY <1>1, <1>7, <1>8, <3>1
    <3>2. e = "done" => outbox = <<"done">> /\ <<"done">> # <<"error">>
      BY <1>4, <1>6
    <3>3. parser' = "last" => outbox = <<"usage", "done">> /\ outbox # <<"error">>
      BY <1>4, <1>6
    <3>. QED BY <1>4, <1>6, <3>1, <3>2, <3>3 DEF Ended
  <2>2. finished' \/ (handler' = "loop" /\ Ended') => \E n \in DOMAIN script' : Marked(n)'
    BY <1>2, <2>1, MarkStays
  <2>3. parser' \in {"select", "put"} => parser \in {"select", "put"}
    BY <1>4, <1>6
  <2>4. Seen' = Seen
    BY <1>2 DEF Seen
  <2>. QED BY <1>2, <2>2, <2>3, <2>4 DEF OneMark
<1>10. UsageIsLast'
  <2>1. CASE handler # "loop"
    BY <1>2, <2>1 DEF UsageIsLast
  <2>2. CASE handler = "loop" /\ outbox # <<"done">>
    <3>1. ~usage /\ \A i \in DOMAIN out : out[i] # "usage"
      BY <1>2, <2>2, NoUsageYet
    <3>2. \A i \in DOMAIN out' : out'[i] = "usage" => i = L + 1 /\ e = "usage"
      BY <1>1, <1>7, <3>1
    <3>3. e = "usage" => parser' = "last" /\ outbox' = <<"done">>
      BY <1>4, <1>6
    <3>4. \A i \in DOMAIN out' : out'[i] = "usage" => NextIsEnd(i)'
      BY <1>1, <1>7, <3>2, <3>3 DEF NextIsEnd
    <3>. QED BY <1>2, <2>2, <3>1, <3>4 DEF UsageIsLast
  <2>3. CASE handler = "loop" /\ outbox = <<"done">>
    <3>1. e = "done"
      BY <1>6, <2>3
    <3>2. ASSUME NEW i \in 0 .. L, NextIsEnd(i) PROVE NextIsEnd(i)'
      <4>1. ~(i < L)
        <5>1. i < L => i + 1 \in DOMAIN out /\ out[i + 1] = "done"
          BY <1>1, <3>2 DEF NextIsEnd, L
        <5>. QED BY <1>8, <5>1
      <4>2. i = L
        BY <1>1, <4>1
      <4>. QED BY <1>1, <1>7, <3>1, <4>2 DEF NextIsEnd
    <3>3. \A i \in DOMAIN out' : out'[i] = "usage" => i \in 1 .. L /\ out[i] = "usage"
      BY <1>1, <1>7, <3>1
    <3>4. \A i \in DOMAIN out' : out'[i] = "usage" => NextIsEnd(i) /\ i \in 0 .. L
      BY <1>1, <2>3, <3>3 DEF UsageIsLast
    <3>5. usage => NextIsEnd(0)
      BY <2>3 DEF UsageIsLast
    <3>6. 0 \in 0 .. L
      BY <1>1
    <3>. QED BY <1>2, <2>3, <3>2, <3>3, <3>4, <3>5, <3>6 DEF UsageIsLast
  <2>. QED BY <2>1, <2>2, <2>3
<1>. QED BY <1>9, <1>10

\* The handler that has got the usage gets the end next.
LEMMA BillHandle ==
    ASSUME StreamTypeOK, DeliveryInv, OneMark, UsageIsLast, Handle
    PROVE  OneMark' /\ UsageIsLast'
<1> DEFINE L == Len(out)
<1>1. /\ out \in Seq(Events) /\ out # << >> /\ L \in Nat /\ L > 0
      /\ DOMAIN out = 1 .. L /\ 1 \in DOMAIN out /\ Head(out) = out[1]
  BY DEF StreamTypeOK, Handle
<1>2. /\ handler = "loop" /\ out' = Tail(out)
      /\ UNCHANGED <<script, reader, raw, parser, outbox, counted>>
  BY DEF Handle
<1>3. /\ Len(out') = L - 1 /\ DOMAIN out' = 1 .. L - 1
      /\ \A i \in DOMAIN out' : out'[i] = out[i + 1] /\ i + 1 \in DOMAIN out
  BY <1>1, <1>2
<1> HIDE DEF L
<1>4. ~finished
  BY <1>2 DEF DeliveryInv, EndIsFinal
<1>5. \/ /\ Head(out) \in {"delta", "error"} /\ handler' \in {"loop", "settle"}
         /\ UNCHANGED <<usage, finished>>
      \/ Head(out) = "usage" /\ usage' = TRUE /\ UNCHANGED <<handler, finished>>
      \/ Head(out) = "done" /\ finished' = TRUE /\ handler' = "settle"
  BY DEF Handle, Leave
<1>6. OneMark'
  <2>1. Ended' => Ended
    BY <1>2, <1>3 DEF Ended
  <2>2. finished' => Ended
    BY <1>1, <1>4, <1>5 DEF Ended
  <2>3. finished' \/ (handler' = "loop" /\ Ended') => \E n \in DOMAIN script' : Marked(n)'
    BY <1>2, <2>1, <2>2, MarkStays
  <2>4. Seen' = Seen
    BY <1>2 DEF Seen
  <2>. QED BY <1>2, <2>3, <2>4 DEF OneMark
<1>7. ASSUME NEW i \in 1 .. L, NextIsEnd(i) PROVE NextIsEnd(i - 1)'
  <2>1. CASE i < L
    <3>1. i \in DOMAIN out' /\ out'[i] = out[i + 1] /\ out[i + 1] = "done"
      BY <1>1, <1>3, <1>7, <2>1 DEF NextIsEnd, L
    <3>2. i - 1 < Len(out') /\ (i - 1) + 1 = i
      BY <1>1, <1>3, <2>1
    <3>. QED BY <3>1, <3>2 DEF NextIsEnd
  <2>2. CASE ~(i < L)
    <3>1. parser' = "last" /\ outbox' = <<"done">>
      BY <1>2, <1>7, <2>2 DEF NextIsEnd, L
    <3>2. ~(i - 1 < Len(out'))
      BY <1>1, <1>3, <2>2
    <3>. QED BY <3>1, <3>2 DEF NextIsEnd
  <2>. QED BY <2>1, <2>2
<1>8. usage => Head(out) = "done"
  BY <1>1, <1>2 DEF UsageIsLast, NextIsEnd, L
<1>9. \A i \in DOMAIN out' : out'[i] = "usage" => NextIsEnd(i)'
  <2>1. ASSUME NEW i \in DOMAIN out', out'[i] = "usage" PROVE NextIsEnd(i)'
    <3>1. i + 1 \in DOMAIN out /\ NextIsEnd(i + 1) /\ i + 1 \in 1 .. L
      BY <1>1, <1>2, <1>3, <2>1 DEF UsageIsLast
    <3>2. NextIsEnd((i + 1) - 1)'
      BY <1>7, <3>1
    <3>3. (i + 1) - 1 = i
      BY <1>1, <1>3
    <3>. QED BY <3>2, <3>3
  <2>. QED BY <2>1
<1>10. handler' = "loop" /\ usage' => NextIsEnd(0)'
  <2>1. ASSUME Head(out) = "usage" PROVE NextIsEnd(0)'
    <3>1. NextIsEnd(1) /\ 1 \in 1 .. L
      BY <1>1, <1>2, <2>1 DEF UsageIsLast
    <3>2. NextIsEnd(1 - 1)'
      BY <1>7, <3>1
    <3>. QED BY <3>2
  <2>. QED BY <1>5, <1>8, <2>1
<1>11. handler' \in {"settle", "close", "gone"} /\ usage' => finished'
  BY <1>2, <1>5, <1>8
<1>. QED BY <1>6, <1>9, <1>10, <1>11 DEF UsageIsLast

\* The settlement bills what the handler knows: with the usage it has the end.
LEMMA BillSettle ==
    ASSUME TypeOK, Metered, DeliveryInv, UsageIsLast, BilledAsKnown,
           Settle(call.prod), UNCHANGED <<call, pc>>
    PROVE  BilledAsKnown'
<1>1. /\ handler = "settle" /\ UNCHANGED <<counted, finished, usage>>
  BY DEF Settle, pipeVars
<1>2. pc = "stream" /\ emits = 0
  BY <1>1 DEF Metered
<1>3. usage <=> finished
  BY <1>1 DEF UsageIsLast, DeliveryInv, WholeAnswer
<1>4. ASSUME emits' = 1
      PROVE  bill' = IF finished' /\ counted' THEN "upstream" ELSE "estimate"
  <2>1. CASE call.prod
    <3>1. bill' = Tokens
      BY <2>1 DEF Settle, Emit
    <3>. QED BY <1>1, <1>3, <3>1 DEF Tokens
  <2>2. CASE ~call.prod
    BY <1>2, <1>4, <2>2 DEF Settle, meterVars
  <2>. QED BY <2>1, <2>2
<1>. QED BY <1>2, <1>4 DEF BilledAsKnown

\* A step that meters nothing, of a call that was not metered or whose end and
\* counts stay as they are.
LEMMA BillKept ==
    ASSUME BilledAsKnown, UNCHANGED <<call, emits, bill>>,
           pc' = "meter" => pc = "meter" \/ ~call.stream,
           emits = 0 \/ UNCHANGED <<finished, counted>> \/ (~finished /\ ~finished')
    PROVE  BilledAsKnown'
BY DEF BilledAsKnown

\* Every step keeps BillInv.
LEMMA StepBill ==
    ASSUME TypeOK, Metered, DeliveryInv, DeliveryInv', BillInv, [Next]_vars
    PROVE  BillInv'
<1> USE DEF pipeVars, handlerVars, meterVars
<1>1. StreamTypeOK /\ OneMark /\ UsageIsLast /\ BilledAsKnown
  BY DEF TypeOK, BillInv
<1>2. CASE StreamSteps
  <2>1. UNCHANGED <<call, pc, served>>
    BY <1>2 DEF StreamSteps, chatVars
  <2>2. CASE Settle(call.prod)
    <3>1. BilledAsKnown'
      BY <1>1, <2>1, <2>2, BillSettle
    <3>2. /\ UNCHANGED <<script, raw, outbox, counted, out, usage, finished, reader, parser>>
          /\ handler = "settle" /\ handler' = "close"
      BY <2>2 DEF Settle
    <3>3. OneMark' /\ UsageIsLast'
      BY <1>1, <3>2, BillStutter
    <3>. QED BY <3>1, <3>3 DEF BillInv
  <2>3. CASE Close
    <3>1. /\ UNCHANGED <<script, raw, outbox, counted, out, usage, finished, reader, parser,
                         emits, bill>>
          /\ handler = "close" /\ handler' = "gone"
      BY <2>3 DEF Close
    <3>2. OneMark' /\ UsageIsLast'
      BY <1>1, <3>1, BillStutter
    <3>3. BilledAsKnown'
      BY <1>1, <2>1, <3>1, BillKept
    <3>. QED BY <3>2, <3>3 DEF BillInv
  <2>4. CASE HandleClosed
    <3>1. /\ handler = "loop" /\ handler' = "settle" /\ out = << >> /\ parser = "gone"
          /\ UNCHANGED <<script, raw, outbox, counted, out, usage, finished, reader, parser,
                         emits, bill>>
      BY <2>4 DEF HandleClosed, Closed, Leave
    <3>2. ~usage /\ ~finished
      BY <1>1, <3>1 DEF UsageIsLast, NextIsEnd, DeliveryInv, EndIsFinal
    <3>3. OneMark' /\ UsageIsLast'
      BY <3>1, <3>2 DEF OneMark, UsageIsLast
    <3>4. BilledAsKnown'
      BY <1>1, <2>1, <3>1, BillKept
    <3>. QED BY <3>3, <3>4 DEF BillInv
  <2>5. CASE Handle
    <3>1. handler = "loop" /\ UNCHANGED <<emits, bill>>
      BY <2>5 DEF Handle
    <3>2. emits = 0
      BY <3>1 DEF Metered
    <3>3. BilledAsKnown'
      BY <1>1, <2>1, <3>1, <3>2, BillKept
    <3>. QED BY <1>1, <2>5, <3>3, BillHandle DEF BillInv
  <2>6. CASE ReaderStep
    <3>1. UNCHANGED <<counted, finished, emits, bill>>
      BY <2>6 DEF ReaderStep, ReadEvent, ReadEOF, ReadError
    <3>2. BilledAsKnown'
      BY <1>1, <2>1, <3>1, BillKept
    <3>. QED BY <1>1, <2>6, <3>2, BillReader DEF BillInv
  <2>7. CASE ParserStep
    <3>1. UNCHANGED <<finished, emits, bill>> /\ parser \in {"select", "put", "last"}
      BY <2>7 DEF ParserStep, Parse, ParseEOF, ParseCancelled, Put
    <3>2. ~finished
      BY <3>1 DEF DeliveryInv, EndIsFinal
    <3>3. BilledAsKnown'
      BY <1>1, <2>1, <3>1, <3>2, BillKept
    <3>4. OneMark' /\ UsageIsLast'
      BY <1>1, <2>7, BillParse, BillPut DEF ParserStep
    <3>. QED BY <3>3, <3>4 DEF BillInv
  <2>. QED BY <1>2, <2>2, <2>3, <2>4, <2>5, <2>6, <2>7 DEF StreamSteps, HandlerStep
<1>3. ASSUME UNCHANGED <<script, raw, outbox, counted, out, usage, finished, call, emits,
                         bill>>,
             \/ UNCHANGED <<reader, parser, handler>>
             \/ reader' = "off" /\ parser' = "off" /\ handler' = "off",
             pc' = "meter" => pc = "meter" \/ ~call.stream
      PROVE  BillInv'
  <2>1. OneMark' /\ UsageIsLast'
    BY <1>1, <1>3, BillStutter
  <2>2. BilledAsKnown'
    BY <1>1, <1>3, BillKept
  <2>. QED BY <2>1, <2>2 DEF BillInv
<1>4. CASE ClientStep
  BY <1>3, <1>4 DEF ClientStep, ClientLeaves, Cancel, chatVars
<1>5. ASSUME NEW c \in Channels, Change(c) PROVE BillInv'
  BY <1>3, <1>5 DEF Change, chatVars, streamVars
<1>6. CASE Crash
  BY <1>3, <1>6 DEF Crash, Goto
<1>7. CASE Enter \/ CheckBalance \/ Hold \/ Plan \/ EndOfTries \/ Release \/ StreamEnds
  BY <1>3, <1>7 DEF Enter, CheckBalance, Hold, Plan, EndOfTries, Release, StreamEnds, Goto,
     Refuse, Abort, streamVars
<1>8. CASE Meter
  <2>1. /\ UNCHANGED <<script, raw, outbox, counted, out, usage, finished, reader, parser,
                       handler, call>>
        /\ pc = "meter" /\ pc' = "done"
    BY <1>8 DEF Meter, Goto, AnswerSent
  <2>2. ~call.stream
    BY <1>1, <2>1 DEF BilledAsKnown
  <2>3. BilledAsKnown'
    BY <2>1, <2>2 DEF BilledAsKnown
  <2>4. OneMark' /\ UsageIsLast'
    BY <1>1, <2>1, BillStutter
  <2>. QED BY <2>3, <2>4 DEF BillInv
<1>9. ASSUME NEW p \in Attempts, NEW result \in Results, Try(p, result) PROVE BillInv'
  <2>1. pc = "try" /\ UNCHANGED call
    BY <1>9 DEF Try
  <2>2. CASE UNCHANGED streamVars /\ (pc' = "meter" => ~call.stream)
    BY <1>3, <2>1, <2>2 DEF streamVars
  <2>3. CASE Open /\ pc' = "stream"
    <3>1. script = << >> /\ out = << >> /\ outbox = << >> /\ ~usage /\ ~finished
      BY <2>1 DEF DeliveryInv, Unopened
    <3>2. /\ UNCHANGED <<script, raw, outbox, counted, out, usage, finished, emits, bill>>
          /\ reader' = "scanning" /\ parser' = "select" /\ handler' = "loop"
      BY <2>3 DEF Open
    <3>3. Seen' = 0 /\ ~Ended'
      BY <3>1, <3>2 DEF Seen, Ended
    <3>4. OneMark' /\ UsageIsLast'
      BY <3>1, <3>2, <3>3 DEF OneMark, UsageIsLast
    <3>5. BilledAsKnown'
      BY <1>1, <2>1, <2>3, <3>2, BillKept
    <3>. QED BY <3>4, <3>5 DEF BillInv
  <2>. QED BY <1>9, <2>2, <2>3 DEF Try, Goto
<1>10. CASE UNCHANGED vars
  BY <1>3, <1>10 DEF vars, chatVars, streamVars
<1>. QED
  BY <1>2, <1>4, <1>5, <1>6, <1>7, <1>8, <1>9, <1>10 DEF Next, ChatStep

\* A streamed call is billed the upstream's counts exactly if its end mark reached
\* the handler and the counts before it are no zeros, and an estimate otherwise:
\* for any length of answer, any channel capacity, and events that a reader nobody
\* listens to has read behind the mark.
THEOREM BilledWhatWasCounted == Spec => []BilledAsCounted
<1>1. Init => DeliveryInv /\ BillInv
  <2> SUFFICES ASSUME Init PROVE DeliveryInv /\ BillInv
    OBVIOUS
  <2>1. Unopened /\ Stages /\ EndIsLast /\ NoneLost /\ CountIsTold /\ ~finished
    BY DEF Init, StreamInit, Unopened, Stages, EndIsLast, NoneLost, CountIsTold
  <2>2. DeliveryInv
    BY <2>1 DEF DeliveryInv, EndIsFinal, WholeAnswer
  <2>3. OneMark /\ UsageIsLast /\ BilledAsKnown
    BY <2>1 DEF Init, StreamInit, OneMark, UsageIsLast, BilledAsKnown
  <2>. QED BY <2>2, <2>3 DEF BillInv
<1>2. GatewayInv /\ DeliveryInv /\ BillInv /\ [Next]_vars => DeliveryInv' /\ BillInv'
  <2> SUFFICES ASSUME GatewayInv, DeliveryInv, BillInv, [Next]_vars
               PROVE  DeliveryInv' /\ BillInv'
    OBVIOUS
  <2>1. TypeOK /\ Metered
    BY DEF GatewayInv
  <2>2. DeliveryInv'
    BY <2>1, StepDelivery
  <2>. QED BY <2>1, <2>2, StepBill
<1>3. GatewayInv /\ DeliveryInv /\ BillInv => BilledAsCounted
  <2> SUFFICES ASSUME GatewayInv, DeliveryInv, BillInv, call.stream, emits = 1
               PROVE  bill = IF finished /\ \E n \in DOMAIN script :
                                                script[n] = "done" /\ Told(script, n)
                             THEN "upstream" ELSE "estimate"
    BY DEF BilledAsCounted
  <2>1. bill = IF finished /\ counted THEN "upstream" ELSE "estimate"
    BY DEF BillInv, BilledAsKnown
  <2>2. ASSUME finished
        PROVE  counted <=> \E n \in DOMAIN script : script[n] = "done" /\ Told(script, n)
    <3>1. /\ Len(script) \in Nat /\ DOMAIN script = 1 .. Len(script) /\ counted \in BOOLEAN
      BY DEF GatewayInv, TypeOK, StreamTypeOK
    <3>2. PICK m \in DOMAIN script : Marked(m)
      BY <2>2 DEF BillInv, OneMark
    <3>3. script[m] = "done" /\ (counted <=> Told(script, m))
      BY <3>1, <3>2 DEF Marked
    <3>4. ASSUME NEW n \in DOMAIN script, script[n] = "done", Told(script, n)
          PROVE  Told(script, m)
      <4>1. n = m \/ n = m + 1
        BY <3>1, <3>2, <3>4 DEF Marked
      <4>2. ASSUME n = m + 1 PROVE Told(script, m)
        <5>1. m \in Nat /\ script[m + 1] = "done" /\ Told(script, m + 1)
          BY <3>1, <3>4, <4>2
        <5>. QED BY <5>1, ToldNext
      <4>. QED BY <3>4, <4>1, <4>2
    <3>. QED BY <3>3, <3>4
  <2>. QED BY <2>1, <2>2
<1>. QED BY <1>1, <1>2, <1>3, GatewayInvariant, PTL DEF Spec

(***************************************************************************)
(* The catalogue that the gateway reads while administrators change it.    *)
(***************************************************************************)
\* An empty request, typed.
LEMMA BlankTyped == NoPrice \in Amounts /\ Blank \in Requests /\ About(Blank)
<1>1. NoPrice \in Amounts
  BY CatalogueAssumption DEF NoPrice, Amounts
<1>2. Blank \in Requests
  BY <1>1 DEF Blank, Requests, Labels, NoTokens
<1>3. About(Blank)
  BY DEF Blank, About
<1>4. QED BY <1>1, <1>2, <1>3

\* What is stored and what requests carry.
Typed == CatalogueTypeOK /\ \A p \in Procs : About(req[p])

\* One request changes, in a typed way.
LEMMA ReplacedTyped ==
    ASSUME Typed, NEW p \in Procs, NEW q \in Requests, About(q),
           req' = [req EXCEPT ![p] = q]
    PROVE  req' \in [Procs -> Requests] /\ (\A x \in Procs : About(req[x]))'
<1>1. req' \in [Procs -> Requests]
  BY DEF Typed, CatalogueTypeOK
<1>2. ASSUME NEW x \in Procs PROVE About(req'[x])
  BY DEF Typed, CatalogueTypeOK
<1>3. QED BY <1>1, <1>2 DEF About

\* A request begins: with a number and the key of its instance.
LEMMA BegunTyped ==
    ASSUME Typed, NEW p \in Procs, NEW r \in Requests, About(r), Begin(p, r)
    PROVE  Typed'
<1> DEFINE q == [r EXCEPT !.no = begun + 1, !.key = mk]
<1>1. begun + 1 \in Nat /\ mk \in Nat
  BY DEF Typed, CatalogueTypeOK
<1>2. q \in Requests
  BY <1>1 DEF Requests
<1>3. About(q)
  BY DEF About, Requests
<1>4. req' = [req EXCEPT ![p] = q]
  BY DEF Begin, Update
<1> HIDE DEF q
<1>5. req' \in [Procs -> Requests] /\ (\A x \in Procs : About(req[x]))'
  BY <1>2, <1>3, <1>4, ReplacedTyped
<1>6. begun' \in Nat
  BY <1>1 DEF Begin, Counted
<1>7. QED BY <1>5, <1>6 DEF Begin, rows, history, Typed, CatalogueTypeOK

\* A request ends.
LEMMA EndedTyped ==
    ASSUME Typed, NEW p \in Procs, End(p)
    PROVE  req' \in [Procs -> Requests] /\ (\A x \in Procs : About(req[x]))'
BY BlankTyped, ReplacedTyped DEF End

\* Any number of requests are emptied or marked as overtaken.
LEMMA MarkedTyped ==
    ASSUME Typed, DOMAIN req' = Procs, req' = [x \in Procs |-> req'[x]],
           \A x \in Procs : req'[x] \in {Blank, req[x], [req[x] EXCEPT !.over = TRUE]}
    PROVE  req' \in [Procs -> Requests] /\ (\A x \in Procs : About(req[x]))'
<1>1. ASSUME NEW x \in Procs PROVE req'[x] \in Requests /\ About(req'[x])
  <2>1. CASE req'[x] = Blank
    BY <2>1, BlankTyped
  <2>2. CASE req'[x] = req[x]
    BY <2>2 DEF Typed, CatalogueTypeOK
  <2>3. CASE req'[x] = [req[x] EXCEPT !.over = TRUE]
    <3>1. req[x] \in Requests /\ About(req[x])
      BY DEF Typed, CatalogueTypeOK
    <3> DEFINE q == req[x]
    <3>2. /\ [q EXCEPT !.over = TRUE] \in Requests
          /\ About([q EXCEPT !.over = TRUE])
      BY <3>1 DEF Requests, About
    <3>3. QED BY <2>3, <3>2
  <2>4. QED BY <2>1, <2>2, <2>3
<1>2. QED BY <1>1 DEF About

\* A form of a price.
LEMMA FormTyped ==
    ASSUME NEW form \in PriceForms
    PROVE  form \in [in : Int \cup {Keep, Empty}, out : Int \cup {Keep, Empty},
                     cache : Int \cup {Keep}, per : Int \cup {Keep, Empty},
                     from : Days \cup {Keep}, to : Days \cup {Keep}]
BY CatalogueAssumption

\* A row whose amounts are not negative.
SoundRow(row) ==
    /\ row.in \in Nat /\ row.out \in Nat /\ row.cache \in Nat /\ row.per \in Nat
    /\ row.from \in Days /\ row.to \in Days \cup {Never}

\* What is filled in is what was sent, and the row's where nothing was.
LEMMA FilledFields ==
    ASSUME NEW form, NEW row
    PROVE  /\ Filled(form, row) = [in |-> Filled(form, row).in, out |-> Filled(form, row).out,
                 cache |-> Filled(form, row).cache, per |-> Filled(form, row).per,
                 from |-> Filled(form, row).from, to |-> Filled(form, row).to]
           /\ \A f \in PriceFields :
                 Filled(form, row)[f] = IF Sent(form, f) THEN form[f] ELSE row[f]
<1> DEFINE new == [f \in PriceFields |-> IF Sent(form, f) THEN form[f] ELSE row[f]]
<1>1. Filled(form, row) = new
  BY DEF Filled
<1>2. \A f \in PriceFields : new[f] = IF Sent(form, f) THEN form[f] ELSE row[f]
  OBVIOUS
<1>3. DOMAIN new = PriceFields /\ new = [f \in PriceFields |-> new[f]]
  OBVIOUS
<1> HIDE DEF new
<1>4. new = [in |-> new.in, out |-> new.out, cache |-> new.cache, per |-> new.per,
             from |-> new.from, to |-> new.to]
  BY <1>3 DEF PriceFields
<1>5. QED BY <1>1, <1>2, <1>4

\* What is sent, filled in from a row that is sound, is sound if it has no negative amount.
LEMMA FilledWith ==
    ASSUME NEW form \in PriceForms, NEW row, SoundRow(row),
           \A f \in {"in", "out", "cache", "per"} : Sent(form, f) => form[f] \in Nat
    PROVE  Filled(form, row) \in Amounts
<1> DEFINE new == Filled(form, row)
<1>1. \A f \in PriceFields : new[f] = IF Sent(form, f) THEN form[f] ELSE row[f]
  BY FilledFields
<1>2. new = [in |-> new.in, out |-> new.out, cache |-> new.cache, per |-> new.per,
             from |-> new.from, to |-> new.to]
  BY FilledFields
<1> HIDE DEF new
<1>3. new.in \in Nat /\ new.out \in Nat /\ new.cache \in Nat /\ new.per \in Nat
  BY <1>1 DEF SoundRow, PriceFields
<1>4. new.from \in Days
  BY <1>1, FormTyped DEF SoundRow, PriceFields, Sent
<1>5. new.to \in Days \cup {Never}
  BY <1>1, FormTyped DEF SoundRow, PriceFields, Sent
<1>6. new \in Amounts
  BY <1>2, <1>3, <1>4, <1>5 DEF Amounts
<1>7. QED BY <1>6 DEF new

\* The same once the whole was checked.
LEMMA FilledIn ==
    ASSUME NEW form \in PriceForms, NEW row, SoundRow(row), Valid(Filled(form, row))
    PROVE  Filled(form, row) \in Amounts
<1> DEFINE new == Filled(form, row)
<1>1. \A f \in {"in", "out", "cache", "per"} : Sent(form, f) => new[f] = form[f] /\ form[f] \in Int
  BY FilledFields, FormTyped DEF PriceFields, Sent
<1>2. new.in >= 0 /\ new.out >= 0 /\ new.cache >= 0 /\ new.per >= 0
  BY DEF Valid
<1> HIDE DEF new
<1>3. \A f \in {"in", "out", "cache", "per"} : Sent(form, f) => form[f] \in Nat
  BY <1>1, <1>2
<1>4. QED BY <1>3, FilledWith

\* The same for a PATCH of a row.
LEMMA MergedIn ==
    ASSUME NEW form \in PriceForms, NEW row \in PriceRows, Valid(Merged(form, row))
    PROVE  /\ Merged(form, row) \in Amounts
           /\ \A f \in PriceFields : Sent(form, f) => Merged(form, row)[f] = form[f]
           /\ \A f \in KeptFields : ~Sent(form, f) => Merged(form, row)[f] = row[f]
<1> DEFINE old == [row EXCEPT !.to = Never]
<1>1. SoundRow(old) /\ \A f \in KeptFields : old[f] = row[f]
  BY DEF SoundRow, PriceRows, KeptFields, PriceFields
<1>2. Merged(form, row) = Filled(form, old)
  BY DEF Merged
<1> HIDE DEF old
<1>3. Filled(form, old) \in Amounts
  BY <1>1, <1>2, FilledIn
<1>4. \A f \in PriceFields :
          Filled(form, old)[f] = IF Sent(form, f) THEN form[f] ELSE old[f]
  BY FilledFields
<1>5. QED BY <1>1, <1>2, <1>3, <1>4 DEF KeptFields

\* Three counts at prices that are not negative.
LEMMA SumOfThree ==
    ASSUME NEW a \in Nat, NEW b \in Nat, NEW c \in Nat
    PROVE  a + b + c \in Nat /\ (a + b + c = 0 => a = 0 /\ b = 0 /\ c = 0)
OBVIOUS

\* A quote of no negative amount at multipliers that are not negative either costs
\* nothing only if all that was counted is priced at zero.
LEMMA CostIsSound ==
    ASSUME NEW quote \in Amounts, NEW t \in [in : Nat, out : Nat, cache : Nat],
           NEW r \in Nat, NEW s \in Nat
    PROVE  /\ ComputeCost(quote, t, r, s, FALSE) \in Nat
           /\ ComputeCost(quote, t, r, s, FALSE) = 0 =>
                 \A kind \in {"in", "out", "cache"} : t[kind] > 0 => quote[kind] = 0
<1>1. \A a, b \in Nat : a * b \in Nat
  OBVIOUS
<1>2. \A a, b \in Nat : a * b = 0 => a = 0 \/ b = 0
  OBVIOUS
<1>3. Factor(r, s) \in Nat /\ Factor(r, s) # 0
  BY <1>1 DEF Factor
<1> DEFINE forIn == quote.in * t.in
           forOut == quote.out * t.out
           forCache == quote.cache * t.cache
<1>4. /\ quote.in \in Nat /\ quote.out \in Nat /\ quote.cache \in Nat
      /\ t.in \in Nat /\ t.out \in Nat /\ t.cache \in Nat
  BY DEF Amounts
<1>5. forIn \in Nat /\ forOut \in Nat /\ forCache \in Nat
  BY <1>1, <1>4
<1>6. /\ forIn = 0 => quote.in = 0 \/ t.in = 0
      /\ forOut = 0 => quote.out = 0 \/ t.out = 0
      /\ forCache = 0 => quote.cache = 0 \/ t.cache = 0
  BY <1>2, <1>4
<1>7. ComputeCost(quote, t, r, s, FALSE) = (forIn + forOut + forCache) * Factor(r, s) + 0
  BY DEF ComputeCost
<1> HIDE DEF forIn, forOut, forCache
<1>8. /\ forIn + forOut + forCache \in Nat
      /\ forIn + forOut + forCache = 0 => forIn = 0 /\ forOut = 0 /\ forCache = 0
  BY <1>5, SumOfThree
<1> DEFINE sum == forIn + forOut + forCache
           cost == sum * Factor(r, s)
<1>9. cost \in Nat /\ (cost = 0 => sum = 0)
  <2> HIDE DEF sum
  <2>1. sum \in Nat
    BY <1>8 DEF sum
  <2>2. QED BY <1>1, <1>2, <1>3, <2>1
<1>10. ComputeCost(quote, t, r, s, FALSE) = cost
  <2> HIDE DEF sum
  <2>1. cost + 0 = cost
    BY <1>9
  <2>2. QED BY <1>7, <2>1 DEF sum
<1> HIDE DEF cost
<1>11. cost = 0 => \A kind \in {"in", "out", "cache"} : t[kind] > 0 => quote[kind] = 0
  BY <1>4, <1>6, <1>8, <1>9
<1>12. QED BY <1>9, <1>10, <1>11

\* A first state is typed.
LEMMA TypedInit == CatalogueInit => Typed
<1> SUFFICES ASSUME CatalogueInit PROVE Typed
  OBVIOUS
<1>1. price \in [Prices -> PriceRows]
  <2>1. PICK first \in Prices :
            price = [i \in Prices |->
                       [row |-> IF i = first THEN "live" ELSE "none",
                        in |-> 1, out |-> 2, cache |-> 1, per |-> 0,
                        from |-> Today, to |-> Never]]
    BY DEF CatalogueInit
  <2>2. QED BY <2>1, CatalogueAssumption DEF PriceRows
<1>2. wanted \in [Prices -> Amounts]
  BY CatalogueAssumption DEF CatalogueInit, Amounts
<1>3. channel \in [ChannelIds -> ChannelRows]
  <2>1. PICK first \in ChannelIds, circuit \in {"closed", "open"} :
            channel = [c \in ChannelIds |->
                         IF c = first
                         THEN [NoChannel EXCEPT !.row = "live", !.aad = c,
                                                !.circuit = circuit]
                         ELSE NoChannel]
    BY DEF CatalogueInit
  <2>2. NoChannel \in ChannelRows
    BY DEF NoChannel, ChannelRows
  <2>3. QED BY <2>1, <2>2 DEF ChannelRows
<1>4. bound \in [ChannelIds -> SUBSET Bindings]
  <2>1. PICK first \in ChannelIds :
            bound = [c \in ChannelIds |-> [group : IF c = first THEN Groups ELSE {},
                                          no : {0}]]
    BY DEF CatalogueInit
  <2>2. QED BY <2>1 DEF Bindings
<1>5. /\ rate \in [Groups -> Nat] /\ mk \in Nat /\ begun \in Nat
      /\ model \in [ModelNames -> [status : {"none", "active", "hidden", "deleted"},
                                   fallbacks : SUBSET ModelNames]]
  BY DEF CatalogueInit
<1>6. req \in [Procs -> Requests] /\ \A p \in Procs : About(req[p])
  BY BlankTyped DEF CatalogueInit
<1>7. QED BY <1>1, <1>2, <1>3, <1>4, <1>5, <1>6 DEF Typed, CatalogueTypeOK

\* Providers and models.
LEMMA TypedOffering == ASSUME Typed, Offering PROVE Typed'
<1> USE DEF history
<1>1. ASSUME NEW status, UpsertProvider(status) PROVE Typed'
  BY <1>1 DEF UpsertProvider, Counted, Typed, CatalogueTypeOK, About
<1>2. ASSUME NEW m \in ModelNames, NEW status \in {"active", "hidden"}, CreateModel(m, status)
      PROVE  Typed'
  BY <1>2 DEF CreateModel, Counted, Typed, CatalogueTypeOK, About
<1>3. ASSUME NEW m \in ModelNames, NEW status \in {"active", "hidden", Keep},
             NEW fb \in SUBSET (ModelNames \ {m}), PatchModel(m, status, fb)
      PROVE  Typed'
  <2>1. Fields(model[m], status, fb) \in
            [status : {"none", "active", "hidden", "deleted"}, fallbacks : SUBSET ModelNames]
    BY DEF Fields, Typed, CatalogueTypeOK
  <2>2. model' = [model EXCEPT ![m] = Fields(model[m], status, fb)]
    BY <1>3 DEF PatchModel, UpdateModelFields, Typed, CatalogueTypeOK
  <2>3. QED BY <1>3, <2>1, <2>2 DEF PatchModel, Counted, Typed, CatalogueTypeOK, About
<1>4. ASSUME NEW m \in ModelNames, DeleteModel(m) PROVE Typed'
  BY <1>4 DEF DeleteModel, Counted, Typed, CatalogueTypeOK, About
<1>5. QED BY <1>1, <1>2, <1>3, <1>4 DEF Offering

\* Prices: what is stored was checked, also when it was filled in.
LEMMA TypedPricing == ASSUME Typed, Pricing PROVE Typed'
<1> USE DEF history
<1>1. ASSUME NEW i \in Prices, NEW form \in PriceForms, CreatePrice(i, form) PROVE Typed'
  <2> DEFINE new == Filled(form, NoPrice)
  <2>1. new \in Amounts
    BY <1>1, BlankTyped, FilledIn DEF CreatePrice, SoundRow, Amounts
  <2>2. /\ price' = [price EXCEPT ![i] = Row(new)] /\ Row(new).row = "live"
        /\ wanted' = [wanted EXCEPT ![i] = new]
    BY <1>1 DEF CreatePrice, Row
  <2>3. Row(new) \in PriceRows
    BY <2>1 DEF Row, Amounts, PriceRows
  <2> HIDE DEF new
  <2>4. QED BY <1>1, <2>1, <2>2, <2>3 DEF CreatePrice, Counted, Typed, CatalogueTypeOK, About
<1>2. ASSUME NEW p \in Procs, NEW i \in Prices, NEW form \in PriceForms,
             AskPricePatch(p, i, form)
      PROVE  Typed'
  <2> DEFINE new == Merged(form, price[i])
             r == [Blank EXCEPT !.pc = "price", !.to = i, !.form = form, !.price = new]
  <2>1. /\ new \in Amounts
        /\ \A f \in PriceFields : Sent(form, f) => new[f] = form[f]
    BY <1>2, MergedIn DEF AskPricePatch, Typed, CatalogueTypeOK
  <2>2. r \in Requests /\ About(r)
    <3>1. r \in Requests
      BY <2>1, BlankTyped DEF Requests, Labels, Blank
    <3>2. About(r)
      BY <2>1 DEF About, Blank
    <3>3. QED BY <3>1, <3>2
  <2>3. Begin(p, r)
    BY <1>2 DEF AskPricePatch
  <2> HIDE DEF r
  <2>4. QED BY <2>2, <2>3, BegunTyped
<1>3. ASSUME NEW p \in Procs, UpdateModelPrice(p) PROVE Typed'
  <2> DEFINE i == req[p].to
             new == req[p].price
             form == req[p].form
  <2>1. /\ req[p] \in Requests /\ req[p].pc = "price" /\ i \in Prices
        /\ new \in Amounts /\ form \in PriceForms
        /\ \A f \in PriceFields : Sent(form, f) => new[f] = form[f]
    BY <1>3 DEF UpdateModelPrice, At, Typed, CatalogueTypeOK, About, Requests
  <2>2. Row(new) \in PriceRows
    BY <2>1 DEF Row, Amounts, PriceRows
  <2>3. price' = [price EXCEPT ![i] = Row(new)]
    BY <1>3 DEF UpdateModelPrice
  <2>4. Filled(form, wanted[i]) \in Amounts
    <3>1. SoundRow(wanted[i])
      BY <2>1 DEF SoundRow, Amounts, Typed, CatalogueTypeOK
    <3>2. \A f \in {"in", "out", "cache", "per"} : Sent(form, f) => form[f] \in Nat
      BY <2>1 DEF Amounts, PriceFields
    <3>3. QED BY <2>1, <3>1, <3>2, FilledWith
  <2>5. wanted' = [wanted EXCEPT ![i] = Filled(form, wanted[i])]
    BY <1>3, <2>1 DEF UpdateModelPrice, Typed, CatalogueTypeOK
  <2>6. req' \in [Procs -> Requests] /\ (\A x \in Procs : About(req[x]))'
    <3>1. \A x \in Procs : req'[x] \in {Blank, req[x], [req[x] EXCEPT !.over = TRUE]}
      BY <1>3 DEF UpdateModelPrice
    <3>2. DOMAIN req' = Procs /\ req' = [x \in Procs |-> req'[x]]
      BY <1>3 DEF UpdateModelPrice
    <3>3. QED BY <3>1, <3>2, MarkedTyped
  <2>7. UNCHANGED <<provider, model, channel, bound, mapping, rate, mk, begun>>
    BY <1>3 DEF UpdateModelPrice
  <2> HIDE DEF i, new, form
  <2>8. /\ price' \in [Prices -> PriceRows]
        /\ wanted' \in [Prices -> Amounts]
    BY <2>2, <2>3, <2>4, <2>5 DEF Typed, CatalogueTypeOK
  <2>9. QED BY <2>6, <2>7, <2>8 DEF Typed, CatalogueTypeOK
<1>4. ASSUME NEW i \in Prices, DeletePrice(i) PROVE Typed'
  <2>1. price' \in [Prices -> PriceRows]
    <3>1. price \in [Prices -> PriceRows]
      BY DEF Typed, CatalogueTypeOK
    <3> DEFINE row == [price[i] EXCEPT !.row = "deleted"]
    <3>2. row \in PriceRows
      BY <3>1 DEF PriceRows
    <3>3. price' = [price EXCEPT ![i] = row]
      BY <1>4 DEF DeletePrice
    <3> HIDE DEF row
    <3>4. QED BY <3>1, <3>2, <3>3
  <2>2. QED BY <1>4, <2>1 DEF DeletePrice, Counted, Typed, CatalogueTypeOK, About
<1>5. QED BY <1>1, <1>2, <1>3, <1>4 DEF Pricing

\* Mappings.
LEMMA TypedMapping == ASSUME Typed, Mapping PROVE Typed'
<1> USE DEF history
<1>1. ASSUME NEW p \in Procs, NEW new \in [channel : ChannelIds \cup {Global}, up : Upstreams],
             AskMapping(p, new)
      PROVE  Typed'
  <2> DEFINE r == [Blank EXCEPT !.pc = "mapping", !.new = new]
  <2>1. r \in Requests /\ About(r)
    <3>1. new \in NewMappings
      BY DEF NewMappings
    <3>2. r \in Requests
      BY <3>1, BlankTyped DEF Requests, Labels, Blank
    <3>3. About(r)
      BY DEF About, Blank
    <3>4. QED BY <3>2, <3>3
  <2>2. Begin(p, r)
    BY <1>1 DEF AskMapping
  <2> HIDE DEF r
  <2>3. QED BY <2>1, <2>2, BegunTyped
<1>2. ASSUME NEW p \in Procs, CreateModelMapping(p) PROVE Typed'
  <2>1. req' \in [Procs -> Requests] /\ (\A x \in Procs : About(req[x]))'
    BY <1>2, EndedTyped DEF CreateModelMapping
  <2>2. QED BY <1>2, <2>1 DEF CreateModelMapping, Typed, CatalogueTypeOK
<1>3. ASSUME NEW i \in Mappings, DeleteMapping(i) PROVE Typed'
  BY <1>3 DEF DeleteMapping, Counted, Typed, CatalogueTypeOK, About
<1>4. QED BY <1>1, <1>2, <1>3 DEF Mapping

\* Channels, in one statement.
LEMMA TypedChannels ==
    ASSUME Typed, NEW c \in ChannelIds,
           \/ \E r \in Rates \cup {Keep}, sched \in BOOLEAN : CreateChannel(c, r, sched)
           \/ \E enabled \in BOOLEAN : SetChannelEnabled(c, enabled)
           \/ ResetChannelCircuit(c)
    PROVE  Typed'
<1> USE DEF history
<1>1. ASSUME NEW row \in ChannelRows, channel' = [channel EXCEPT ![c] = row],
             UNCHANGED <<price, model, wanted, bound, rate, mk, req>>, Counted
      PROVE  Typed'
  <2>1. channel' \in [ChannelIds -> ChannelRows]
    BY <1>1 DEF Typed, CatalogueTypeOK
  <2>2. QED BY <1>1, <2>1 DEF Counted, Typed, CatalogueTypeOK, About
<1>2. ASSUME NEW r \in Rates \cup {Keep}, NEW sched \in BOOLEAN, CreateChannel(c, r, sched)
      PROVE  Typed'
  <2> DEFINE row == [NoChannel EXCEPT !.row = "live", !.sched = sched,
                                      !.rate = IF r = Keep THEN 1 ELSE r,
                                      !.key = Seal(c, mk).key, !.aad = Seal(c, mk).aad]
  <2>0. r # Keep => r \in Int /\ r >= 0
    <3>1. r \in Rates => r \in Int
      BY CatalogueAssumption
    <3>2. r # Keep => r \in Rates
      OBVIOUS
    <3>3. NotNegative(r)
      BY <1>2 DEF CreateChannel
    <3>4. QED BY <3>1, <3>2, <3>3 DEF NotNegative
  <2>1. r # Keep => r \in Nat
    BY <2>0
  <2>2. row \in ChannelRows
    BY <2>1 DEF ChannelRows, NoChannel, Seal, Typed, CatalogueTypeOK
  <2>3. channel' = [channel EXCEPT ![c] = row]
    BY <1>2 DEF CreateChannel
  <2> HIDE DEF row
  <2>4. QED BY <1>2, <2>2, <2>3, <1>1 DEF CreateChannel
<1>3. ASSUME NEW enabled \in BOOLEAN, SetChannelEnabled(c, enabled) PROVE Typed'
  <2> DEFINE row == [channel[c] EXCEPT !.status = IF enabled THEN "active" ELSE "disabled",
                                       !.sched = enabled]
  <2>0. channel[c] \in ChannelRows
    BY DEF Typed, CatalogueTypeOK
  <2>1. row \in ChannelRows
    BY <2>0 DEF ChannelRows
  <2>2. channel' = [channel EXCEPT ![c] = row]
    BY <1>3 DEF SetChannelEnabled, Typed, CatalogueTypeOK
  <2> HIDE DEF row
  <2>3. QED BY <1>3, <2>1, <2>2, <1>1 DEF SetChannelEnabled
<1>4. ASSUME ResetChannelCircuit(c) PROVE Typed'
  <2> DEFINE row == [channel[c] EXCEPT !.circuit = "closed"]
  <2>0. channel[c] \in ChannelRows
    BY DEF Typed, CatalogueTypeOK
  <2>1. row \in ChannelRows
    BY <2>0 DEF ChannelRows
  <2>2. channel' = [channel EXCEPT ![c] = row]
    BY <1>4 DEF ResetChannelCircuit, Typed, CatalogueTypeOK
  <2> HIDE DEF row
  <2>3. QED BY <1>4, <2>1, <2>2, <1>1 DEF ResetChannelCircuit
<1>5. QED BY <1>2, <1>3, <1>4

\* Requests about a channel begin.
LEMMA TypedAsks ==
    ASSUME Typed, NEW p \in Procs, NEW c \in ChannelIds,
           \/ \E r \in Rates \cup {Keep}, creds \in BOOLEAN : AskChannelPatch(p, c, r, creds)
           \/ \E set \in SUBSET Groups : AskChannelGroups(p, c, set)
           \/ UnbindChannel(p, c)
    PROVE  Typed'
<1>1. ASSUME NEW r \in Rates \cup {Keep}, NEW creds \in BOOLEAN, AskChannelPatch(p, c, r, creds)
      PROVE  Typed'
  <2> DEFINE q == [Blank EXCEPT !.pc = IF creds THEN "creds" ELSE "fields",
                                !.to = c, !.rate = r]
  <2>0. r # Keep => r \in Int /\ r >= 0
    <3>1. r \in Rates => r \in Int
      BY CatalogueAssumption
    <3>2. r # Keep => r \in Rates
      OBVIOUS
    <3>3. NotNegative(r)
      BY <1>1 DEF AskChannelPatch
    <3>4. QED BY <3>1, <3>2, <3>3 DEF NotNegative
  <2>1. r # Keep => r \in Nat
    BY <2>0
  <2>2. creds \/ r \in Nat
    BY <1>1, <2>1 DEF AskChannelPatch
  <2>3. q \in Requests /\ About(q)
    <3>1. (IF creds THEN "creds" ELSE "fields") \in Labels /\ r \in Nat \cup {Keep}
      BY <2>1 DEF Labels
    <3>2. q \in Requests
      <4> DEFINE a == [Blank EXCEPT !.pc = IF creds THEN "creds" ELSE "fields"]
                 b == [a EXCEPT !.to = c]
                 d == [b EXCEPT !.rate = r]
      <4>1. a \in Requests
        BY <3>1, BlankTyped DEF Requests
      <4>2. b \in Requests
        <5> HIDE DEF a
        <5>. QED BY <4>1 DEF Requests
      <4>3. d \in Requests
        <5> HIDE DEF b
        <5>. QED BY <3>1, <4>2 DEF Requests
      <4>4. q = d
        BY Zenon
      <4>. QED BY <4>3, <4>4
    <3>3. About(q)
      BY <2>1, <2>2 DEF About, Blank
    <3>4. QED BY <3>2, <3>3
  <2>4. Begin(p, q)
    BY <1>1 DEF AskChannelPatch
  <2> HIDE DEF q
  <2>5. QED BY <2>3, <2>4, BegunTyped
<1>2. ASSUME NEW set \in SUBSET Groups, AskChannelGroups(p, c, set) PROVE Typed'
  <2> DEFINE q == [Blank EXCEPT !.pc = "clear", !.to = c, !.set = set]
  <2>1. q \in Requests /\ About(q)
    <3>1. q \in Requests
      BY BlankTyped DEF Requests, Labels, Blank
    <3>2. About(q)
      BY DEF About, Blank
    <3>3. QED BY <3>1, <3>2
  <2>2. Begin(p, q)
    BY <1>2 DEF AskChannelGroups
  <2> HIDE DEF q
  <2>3. QED BY <2>1, <2>2, BegunTyped
<1>3. ASSUME UnbindChannel(p, c) PROVE Typed'
  <2> DEFINE q == [Blank EXCEPT !.pc = "erase", !.to = c, !.seen = bound[c]]
  <2>1. q \in Requests /\ About(q)
    <3>1. bound[c] \in SUBSET Bindings
      BY DEF Typed, CatalogueTypeOK
    <3>2. q \in Requests
      BY <3>1, BlankTyped DEF Requests, Labels, Blank
    <3>3. About(q)
      BY DEF About, Blank
    <3>4. QED BY <3>2, <3>3
  <2>2. Begin(p, q)
    BY <1>3 DEF UnbindChannel
  <2> HIDE DEF q
  <2>3. QED BY <2>1, <2>2, BegunTyped
<1>4. QED BY <1>1, <1>2, <1>3

\* Requests about a channel write.
LEMMA TypedWrites ==
    ASSUME Typed, NEW p \in Procs,
           \/ SetChannelCredentials(p) \/ UpdateChannel(p) \/ ClearChannelGroups(p)
           \/ ReplaceChannelGroups(p) \/ DeleteChannel(p)
    PROVE  Typed'
<1> USE DEF history, rows
<1>q. req[p] \in Requests /\ About(req[p])
  BY DEF Typed, CatalogueTypeOK
<1>1. CASE SetChannelCredentials(p)
  <2> DEFINE c == req[p].to
             row == [channel[c] EXCEPT !.key = Seal(c, req[p].key).key,
                                       !.aad = Seal(c, req[p].key).aad]
             q == IF req[p].rate = Keep THEN Blank ELSE [req[p] EXCEPT !.pc = "fields"]
  <2>1. c \in ChannelIds /\ req[p].key \in Nat
    BY <1>1, <1>q DEF SetChannelCredentials, At, About, Requests
  <2>0. channel[c] \in ChannelRows
    BY <2>1 DEF Typed, CatalogueTypeOK
  <2>2. row \in ChannelRows
    BY <2>0, <2>1 DEF ChannelRows, Seal
  <2>3. channel' = [channel EXCEPT ![c] = row]
    BY <1>1, <2>1 DEF SetChannelCredentials, Typed, CatalogueTypeOK
  <2>4. q \in Requests /\ About(q)
    <3>1. CASE req[p].rate = Keep
      BY <3>1, BlankTyped
    <3>2. CASE req[p].rate # Keep
      <4>1. [req[p] EXCEPT !.pc = "fields"] \in Requests
        BY <1>q DEF Requests, Labels
      <4>2. About([req[p] EXCEPT !.pc = "fields"])
        BY <1>q, <2>1, <3>2 DEF Requests, About
      <4>3. QED BY <3>2, <4>1, <4>2
    <3>3. QED BY <3>1, <3>2
  <2>5. req' = [req EXCEPT ![p] = q]
    BY <1>1 DEF SetChannelCredentials, Update
  <2>6. UNCHANGED <<price, model, wanted, bound, rate, mk, begun>>
    BY <1>1 DEF SetChannelCredentials
  <2> HIDE DEF c, row, q
  <2>7. req' \in [Procs -> Requests] /\ (\A x \in Procs : About(req[x]))'
    BY <2>4, <2>5, ReplacedTyped
  <2>8. channel' \in [ChannelIds -> ChannelRows]
    BY <2>1, <2>2, <2>3 DEF Typed, CatalogueTypeOK
  <2>9. QED BY <2>6, <2>7, <2>8 DEF Typed, CatalogueTypeOK
<1>2. CASE UpdateChannel(p)
  <2> DEFINE c == req[p].to
             row == [channel[c] EXCEPT !.rate = req[p].rate]
  <2>1. c \in ChannelIds /\ req[p].rate \in Nat
    BY <1>2, <1>q DEF UpdateChannel, At, About
  <2>0. channel[c] \in ChannelRows
    BY <2>1 DEF Typed, CatalogueTypeOK
  <2>2. row \in ChannelRows
    BY <2>0, <2>1 DEF ChannelRows
  <2>3. channel' = [channel EXCEPT ![c] = row]
    BY <1>2, <2>1 DEF UpdateChannel, Typed, CatalogueTypeOK
  <2>4. /\ UNCHANGED <<price, model, wanted, bound, rate, mk, begun>>
        /\ End(p)
    BY <1>2 DEF UpdateChannel
  <2> HIDE DEF c, row
  <2>5. req' \in [Procs -> Requests] /\ (\A x \in Procs : About(req[x]))'
    BY <2>4, EndedTyped
  <2>6. channel' \in [ChannelIds -> ChannelRows]
    BY <2>1, <2>2, <2>3 DEF Typed, CatalogueTypeOK
  <2>7. QED BY <2>4, <2>5, <2>6 DEF Typed, CatalogueTypeOK
<1>3. CASE ClearChannelGroups(p)
  <2> DEFINE q == [req[p] EXCEPT !.pc = "bind", !.seen = bound[req[p].to]]
  <2>1. req[p].to \in ChannelIds /\ req[p].pc = "clear"
    BY <1>3, <1>q DEF ClearChannelGroups, At, About
  <2>2. q \in Requests /\ About(q)
    <3>1. bound[req[p].to] \in SUBSET Bindings
      BY <2>1 DEF Typed, CatalogueTypeOK
    <3>2. req[p] \in Requests /\ req[p].rate \in Nat
      BY <1>q, <2>1 DEF About
    <3>3. q \in Requests
      BY <3>1, <3>2 DEF Requests, Labels
    <3>4. About(q)
      BY <2>1, <3>2 DEF Requests, About
    <3>5. QED BY <3>3, <3>4
  <2>3. req' = [req EXCEPT ![p] = q]
    BY <1>3 DEF ClearChannelGroups, Update
  <2> HIDE DEF q
  <2>4. req' \in [Procs -> Requests] /\ (\A x \in Procs : About(req[x]))'
    BY <2>2, <2>3, ReplacedTyped
  <2>5. QED BY <1>3, <2>4 DEF ClearChannelGroups, Typed, CatalogueTypeOK
<1>4. CASE ReplaceChannelGroups(p)
  <2>1. req[p].to \in ChannelIds /\ req[p].set \in SUBSET Groups /\ req[p].no \in Nat
    BY <1>4, <1>q DEF ReplaceChannelGroups, At, About, Requests
  <2>2. PICK S \in SUBSET Bindings : bound' = [bound EXCEPT ![req[p].to] = S]
    <3> DEFINE left == bound[req[p].to] \ req[p].seen
               new == {g \in req[p].set : ~\E row \in left : row.group = g}
    <3>1. left \cup [group : new, no : {req[p].no}] \in SUBSET Bindings
      BY <2>1 DEF Bindings, Typed, CatalogueTypeOK
    <3>2. bound' = [bound EXCEPT ![req[p].to] = left \cup [group : new, no : {req[p].no}]]
      BY <1>4 DEF ReplaceChannelGroups
    <3>3. QED BY <3>1, <3>2
  <2>3. /\ UNCHANGED <<price, model, wanted, channel, rate, mk, begun>>
        /\ End(p)
    BY <1>4 DEF ReplaceChannelGroups
  <2>4. req' \in [Procs -> Requests] /\ (\A x \in Procs : About(req[x]))'
    BY <2>3, EndedTyped
  <2>5. QED BY <2>1, <2>2, <2>3, <2>4 DEF Typed, CatalogueTypeOK
<1>5. CASE DeleteChannel(p)
  <2> DEFINE c == req[p].to
             row == [channel[c] EXCEPT !.row = "deleted"]
  <2>1. c \in ChannelIds
    BY <1>5, <1>q DEF DeleteChannel, At, About
  <2>0. channel[c] \in ChannelRows
    BY <2>1 DEF Typed, CatalogueTypeOK
  <2>2. row \in ChannelRows
    BY <2>0, <2>1 DEF ChannelRows
  <2>3. /\ channel' = [channel EXCEPT ![c] = row]
        /\ bound' = [bound EXCEPT ![c] = bound[c] \ req[p].seen]
    BY <1>5, <2>1 DEF DeleteChannel, Typed, CatalogueTypeOK
  <2>4. UNCHANGED <<price, model, wanted, rate, mk, begun>>
    BY <1>5 DEF DeleteChannel
  <2>5. \A x \in Procs : req'[x] \in {Blank, req[x], [req[x] EXCEPT !.over = TRUE]}
    BY <1>5 DEF DeleteChannel
  <2>6. DOMAIN req' = Procs /\ req' = [x \in Procs |-> req'[x]]
    BY <1>5 DEF DeleteChannel
  <2> HIDE DEF c, row
  <2>7. req' \in [Procs -> Requests] /\ (\A x \in Procs : About(req[x]))'
    BY <2>5, <2>6, MarkedTyped
  <2>8. channel' \in [ChannelIds -> ChannelRows] /\ bound' \in [ChannelIds -> SUBSET Bindings]
    BY <2>1, <2>2, <2>3 DEF Typed, CatalogueTypeOK
  <2>9. QED BY <2>4, <2>7, <2>8 DEF Typed, CatalogueTypeOK
<1>6. QED BY <1>1, <1>2, <1>3, <1>4, <1>5

\* All that changes channels, groups and keys.
LEMMA TypedChannelling == ASSUME Typed, Channelling PROVE Typed'
<1>1. ASSUME NEW g \in Groups, NEW r \in Rates, PatchGroup(g, r) PROVE Typed'
  <2>1. r \in Nat
    BY <1>1, CatalogueAssumption DEF PatchGroup
  <2>2. QED BY <1>1, <2>1 DEF PatchGroup, Counted, history, Typed, CatalogueTypeOK, About
<1>2. ASSUME RotateMasterKey PROVE Typed'
  BY <1>2 DEF RotateMasterKey, rows, history, Typed, CatalogueTypeOK, About
<1>3. QED BY <1>1, <1>2, TypedChannels, TypedAsks, TypedWrites DEF Channelling

\* A call reads, and is charged.
LEMMA TypedCalls == ASSUME Typed, Calls PROVE Typed'
<1> USE DEF history, rows
<1>0. ASSUME NEW p \in Procs, NEW q \in Requests, About(q), Update(p, q),
             UNCHANGED <<rows, mk, begun, history>>
      PROVE  Typed'
  <2>1. req' \in [Procs -> Requests] /\ (\A x \in Procs : About(req[x]))'
    BY <1>0, ReplacedTyped DEF Update
  <2>2. QED BY <1>0, <2>1 DEF Typed, CatalogueTypeOK
<1>1. ASSUME NEW p \in Procs, NEW g \in Groups, BeginCall(p, g) PROVE Typed'
  <2> DEFINE q == [Blank EXCEPT !.pc = "model", !.to = g, !.rate = rate[g]]
  <2>1. q \in Requests /\ About(q)
    <3>1. rate[g] \in Nat
      BY DEF Typed, CatalogueTypeOK
    <3>2. q \in Requests
      BY <3>1, BlankTyped DEF Requests, Labels, Blank
    <3>3. About(q)
      BY <3>1 DEF About, Blank
    <3>4. QED BY <3>2, <3>3
  <2>2. Begin(p, q)
    BY <1>1 DEF BeginCall
  <2> HIDE DEF q
  <2>3. QED BY <2>1, <2>2, BegunTyped
<1>2. ASSUME NEW p \in Procs PROVE req[p] \in Requests /\ About(req[p])
  BY DEF Typed, CatalogueTypeOK
<1>3. ASSUME NEW p \in Procs, ModelByName(p) PROVE Typed'
  <2> DEFINE q == [req[p] EXCEPT !.pc = "quote", !.chain = FallbackChain(Asked)]
  <2>1. FallbackChain(Asked) \in SUBSET ModelNames
    BY CatalogueAssumption DEF FallbackChain, Typed, CatalogueTypeOK
  <2>2. q \in Requests /\ About(q)
    <3>1. /\ req[p] \in Requests /\ req[p].rate \in Nat /\ req[p].to \in Groups
      BY <1>2, <1>3 DEF ModelByName, At, About
    <3>2. q \in Requests
      BY <3>1, <2>1 DEF Requests, Labels
    <3>3. About(q)
      BY <3>1 DEF Requests, About
    <3>4. QED BY <3>2, <3>3
  <2>3. Update(p, q) /\ UNCHANGED <<rows, mk, begun, history>>
    BY <1>3 DEF ModelByName
  <2> HIDE DEF q
  <2>4. QED BY <2>2, <2>3, <1>0
<1>4. ASSUME NEW p \in Procs, CurrentModelPrice(p) PROVE Typed'
  <2>1. ASSUME NEW i \in Prices,
               Update(p, [req[p] EXCEPT !.pc = "channels", !.price = Quote(price[i])])
        PROVE  Typed'
    <3> DEFINE quote == Quote(price[i])
               q == [req[p] EXCEPT !.pc = "channels", !.price = quote]
    <3>1. quote \in Amounts
      BY DEF Quote, Amounts, PriceRows, Typed, CatalogueTypeOK
    <3> HIDE DEF quote
    <3>2. q \in Requests /\ About(q)
      <4>1. /\ req[p] \in Requests /\ req[p].rate \in Nat
            /\ req[p].pc \in {"model", "quote", "channels"} => req[p].to \in Groups
        BY <1>2, <1>4 DEF CurrentModelPrice, At, About
      <4>2. q \in Requests
        BY <4>1, <3>1 DEF Requests, Labels
      <4>3. About(q)
        BY <4>1, <1>4 DEF CurrentModelPrice, At, Requests, About
      <4>4. QED BY <4>2, <4>3
    <3>3. Update(p, q) /\ UNCHANGED <<rows, mk, begun, history>>
      BY <1>4, <2>1 DEF CurrentModelPrice, quote
    <3> HIDE DEF q
    <3>4. QED BY <3>2, <3>3, <1>0
  <2>2. CASE Update(p, [req[p] EXCEPT !.pc = "channels", !.form = Keep])
    <3> DEFINE q == [req[p] EXCEPT !.pc = "channels", !.form = Keep]
    <3>1. q \in Requests /\ About(q)
      <4>1. /\ req[p] \in Requests /\ req[p].rate \in Nat /\ req[p].to \in Groups
        BY <1>2, <1>4 DEF CurrentModelPrice, At, About
      <4>2. q \in Requests
        BY <4>1 DEF Requests, Labels
      <4>3. About(q)
        BY <4>1 DEF Requests, About
      <4>4. QED BY <4>2, <4>3
    <3>2. Update(p, q) /\ UNCHANGED <<rows, mk, begun, history>>
      BY <1>4, <2>2 DEF CurrentModelPrice
    <3> HIDE DEF q
    <3>3. QED BY <3>1, <3>2, <1>0
  <2>3. QED BY <1>4, <2>1, <2>2 DEF CurrentModelPrice
<1>5. ASSUME NEW p \in Procs, RouteCandidatesByGroup(p) PROVE Typed'
  <2> DEFINE found == {c \in Candidates(req[p].to) : UsableAt(c)}
             tries == {[channel |-> c, row |-> channel[c], up |-> Asked] : c \in found}
             q == [req[p] EXCEPT !.pc = "mappings", !.plan = tries]
  <2>1. found \subseteq ChannelIds
    BY DEF Candidates
  <2>2. tries \in SUBSET Tries
    BY <2>1 DEF Tries, Typed, CatalogueTypeOK
  <2> HIDE DEF tries
  <2>3. q \in Requests /\ About(q)
    <3>1. /\ req[p] \in Requests /\ req[p].rate \in Nat
          /\ req[p].pc \in {"model", "quote", "channels"} => req[p].to \in Groups
      BY <1>2, <1>5 DEF RouteCandidatesByGroup, At, About
    <3>2. q \in Requests
      BY <3>1, <2>2 DEF Requests, Labels
    <3>3. About(q)
      BY <3>1, <1>5 DEF RouteCandidatesByGroup, At, Requests, About
    <3>4. QED BY <3>2, <3>3
  <2>4. Update(p, q) /\ UNCHANGED <<rows, mk, begun, history>>
    BY <1>5 DEF RouteCandidatesByGroup, tries
  <2> HIDE DEF q
  <2>5. QED BY <2>3, <2>4, <1>0
<1>6. ASSUME NEW p \in Procs, MappingRows(p) PROVE Typed'
  <2>1. PICK up \in [req[p].plan -> Upstreams \cup {Asked}] :
            Update(p, [req[p] EXCEPT !.pc = "try",
                          !.plan = {[a EXCEPT !.up = up[a]] : a \in req[p].plan}])
    BY <1>2, <1>6 DEF MappingRows, Requests
  <2> DEFINE tries == {[a EXCEPT !.up = up[a]] : a \in req[p].plan}
             q == [req[p] EXCEPT !.pc = "try", !.plan = tries]
  <2>2. req[p].plan \subseteq Tries
    BY <1>2 DEF Requests
  <2>3. tries \in SUBSET Tries
    BY <2>2 DEF Tries
  <2> HIDE DEF tries
  <2>4. q \in Requests /\ About(q)
    <3>1. /\ req[p] \in Requests /\ req[p].rate \in Nat
          /\ req[p].pc \in {"model", "quote", "channels"} => req[p].to \in Groups
      BY <1>2, <1>6 DEF MappingRows, At, About
    <3>2. q \in Requests
      BY <3>1, <2>3 DEF Requests, Labels
    <3>3. About(q)
      BY <3>1, <1>6 DEF MappingRows, At, Requests, About
    <3>4. QED BY <3>2, <3>3
  <2>5. Update(p, q) /\ UNCHANGED <<rows, mk, begun, history>>
    BY <1>6, <2>1 DEF MappingRows, tries
  <2> HIDE DEF q
  <2>6. QED BY <2>4, <2>5, <1>0
<1>7. ASSUME NEW p \in Procs, Reply(p) PROVE Typed'
  <2>1. PICK a \in req[p].plan, used \in TokenCounts :
            Update(p, [req[p] EXCEPT !.pc = "answered", !.plan = {a}, !.used = used,
                !.cost = ComputeCost(req[p].price, used, req[p].rate, a.row.rate, FALSE)])
    BY <1>7 DEF Reply
  <2> DEFINE cost == ComputeCost(req[p].price, used, req[p].rate, a.row.rate, FALSE)
             q == [req[p] EXCEPT !.pc = "answered", !.plan = {a}, !.used = used,
                                 !.cost = cost]
  <2>2. /\ req[p].price \in Amounts /\ req[p].rate \in Nat /\ a \in Tries
        /\ a.row.rate \in Nat /\ used \in [in : Nat, out : Nat, cache : Nat]
    BY <1>2, <1>7, CatalogueAssumption
       DEF Reply, At, About, Requests, Tries, ChannelRows
  <2>3. cost \in Int
    <3>1. \A n \in Nat : n \in Int
      OBVIOUS
    <3>2. cost \in Nat
      BY <2>2, CostIsSound
    <3>3. QED BY <3>1, <3>2
  <2> HIDE DEF cost
  <2>4. q \in Requests /\ About(q)
    <3>1. /\ req[p] \in Requests /\ req[p].rate \in Nat
          /\ req[p].pc \in {"model", "quote", "channels"} => req[p].to \in Groups
      BY <1>2, <1>7 DEF Reply, At, About
    <3>2. q \in Requests
      BY <3>1, <2>2, <2>3 DEF Requests, Labels
    <3>3. About(q)
      BY <3>1, <1>7 DEF Reply, At, Requests, About
    <3>4. QED BY <3>2, <3>3
  <2>5. Update(p, q) /\ UNCHANGED <<rows, mk, begun, history>>
    BY <1>7, <2>1 DEF Reply, cost
  <2> HIDE DEF q
  <2>6. QED BY <2>4, <2>5, <1>0
<1>8. QED BY <1>1, <1>3, <1>4, <1>5, <1>6, <1>7 DEF Calls

\* Every step keeps what is stored and carried typed.
LEMMA TypedStep == ASSUME Typed, [CatalogueNext]_catalogueVars PROVE Typed'
<1>1. ASSUME NEW p \in Procs, Drop(p) PROVE Typed'
  <2>1. req' \in [Procs -> Requests] /\ (\A x \in Procs : About(req[x]))'
    BY <1>1, EndedTyped DEF Drop
  <2>2. QED BY <1>1, <2>1 DEF Drop, rows, history, Typed, CatalogueTypeOK
<1>2. CASE Restart
  <2>1. \A x \in Procs : req'[x] \in {Blank, req[x], [req[x] EXCEPT !.over = TRUE]}
    BY <1>2 DEF Restart
  <2>2. DOMAIN req' = Procs /\ req' = [x \in Procs |-> req'[x]]
    BY <1>2 DEF Restart
  <2>3. req' \in [Procs -> Requests] /\ (\A x \in Procs : About(req[x]))'
    BY <2>1, <2>2, MarkedTyped
  <2>4. QED BY <1>2, <2>3 DEF Restart, rows, history, Typed, CatalogueTypeOK
<1>3. CASE UNCHANGED catalogueVars
  BY <1>3 DEF catalogueVars, rows, history, Typed, CatalogueTypeOK, About
<1>4. QED BY <1>1, <1>2, <1>3, TypedOffering, TypedPricing, TypedMapping,
             TypedChannelling, TypedCalls DEF CatalogueNext

-----------------------------------------------------------------------------
(* Which requests each part of the catalogue moves, and what it leaves.    *)

\* Any other request is as it was.
Moves(labels) == \A x \in Procs : req'[x] = req[x] \/ req'[x].pc \in labels

\* A request that begins has the label it begins with.
LEMMA BegunMoves ==
    ASSUME Typed, NEW p \in Procs, NEW r \in Requests, Begin(p, r)
    PROVE  Moves({r.pc}) /\ UNCHANGED <<rows, mk, history>>
<1>1. req' = [req EXCEPT ![p] = [r EXCEPT !.no = begun + 1, !.key = mk]]
  BY DEF Begin, Update
<1>2. [r EXCEPT !.no = begun + 1, !.key = mk].pc = r.pc
  BY DEF Requests
<1>3. QED BY <1>1, <1>2 DEF Begin, Moves, Typed, CatalogueTypeOK

\* Providers and models concern no request.
LEMMA OfferingMoves ==
    ASSUME Offering PROVE req' = req /\ UNCHANGED <<price, channel, bound, history>>
BY DEF Offering, UpsertProvider, CreateModel, PatchModel, DeleteModel

\* Prices leave the channels alone.
LEMMA PricingMoves ==
    ASSUME Typed, Pricing
    PROVE  Moves({"idle", "price"}) /\ UNCHANGED <<channel, bound, late>>
<1>1. ASSUME NEW i \in Prices, NEW form \in PriceForms, CreatePrice(i, form)
      PROVE  Moves({"idle", "price"}) /\ UNCHANGED <<channel, bound, late>>
  BY <1>1 DEF CreatePrice, Moves
<1>2. ASSUME NEW p \in Procs, NEW i \in Prices, NEW form \in PriceForms,
             AskPricePatch(p, i, form)
      PROVE  Moves({"idle", "price"}) /\ UNCHANGED <<channel, bound, late>>
  BY <1>2 DEF AskPricePatch, Begin, Update, Blank, Moves, rows, history, Typed, CatalogueTypeOK
<1>3. ASSUME NEW p \in Procs, UpdateModelPrice(p)
      PROVE  Moves({"idle", "price"}) /\ UNCHANGED <<channel, bound, late>>
  <2>1. ASSUME NEW x \in Procs PROVE req'[x] = req[x] \/ req'[x].pc \in {"idle", "price"}
    <3>1. req[x] \in Requests
      BY DEF Typed, CatalogueTypeOK
    <3>2. QED BY <1>3, <3>1 DEF UpdateModelPrice, At, Blank, Requests
  <2>2. QED BY <1>3, <2>1 DEF UpdateModelPrice, Moves
<1>4. ASSUME NEW i \in Prices, DeletePrice(i)
      PROVE  Moves({"idle", "price"}) /\ UNCHANGED <<channel, bound, late>>
  BY <1>4 DEF DeletePrice, Moves, history
<1>5. QED BY <1>1, <1>2, <1>3, <1>4 DEF Pricing

\* Mappings leave prices and channels alone.
LEMMA MappingMoves ==
    ASSUME Typed, Mapping
    PROVE  Moves({"idle", "mapping"}) /\ UNCHANGED <<price, channel, bound, history>>
<1> USE DEF Moves, Typed, CatalogueTypeOK
<1>1. ASSUME NEW p \in Procs, NEW new, AskMapping(p, new)
      PROVE  Moves({"idle", "mapping"}) /\ UNCHANGED <<price, channel, bound, history>>
  BY <1>1 DEF AskMapping, Begin, Update, Blank, rows
<1>2. ASSUME NEW p \in Procs, CreateModelMapping(p)
      PROVE  Moves({"idle", "mapping"}) /\ UNCHANGED <<price, channel, bound, history>>
  BY <1>2 DEF CreateModelMapping, End, Blank
<1>3. ASSUME NEW i \in Mappings, DeleteMapping(i)
      PROVE  Moves({"idle", "mapping"}) /\ UNCHANGED <<price, channel, bound, history>>
  BY <1>3 DEF DeleteMapping
<1>4. QED BY <1>1, <1>2, <1>3 DEF Mapping

\* Where a change of a channel may stand.
ChannelLabels == {"idle", "creds", "fields", "clear", "bind", "erase"}

\* Channels leave prices alone.
LEMMA ChannellingMoves ==
    ASSUME Typed, Channelling
    PROVE  Moves(ChannelLabels) /\ UNCHANGED <<price, wanted, mixed>>
<1> DEFINE Goal == Moves(ChannelLabels) /\ UNCHANGED <<price, wanted, mixed>>
<1>1. ASSUME NEW c \in ChannelIds,
             \/ \E r \in Rates \cup {Keep}, sched \in BOOLEAN : CreateChannel(c, r, sched)
             \/ \E enabled \in BOOLEAN : SetChannelEnabled(c, enabled)
             \/ ResetChannelCircuit(c)
      PROVE  Goal
  BY <1>1 DEF CreateChannel, SetChannelEnabled, ResetChannelCircuit, Moves, history
<1>2. ASSUME NEW p \in Procs, NEW c \in ChannelIds,
             \/ \E r \in Rates \cup {Keep}, creds \in BOOLEAN : AskChannelPatch(p, c, r, creds)
             \/ \E set \in SUBSET Groups : AskChannelGroups(p, c, set)
             \/ UnbindChannel(p, c)
      PROVE  Goal
  <2> USE DEF Begin, Update, Blank, Moves, ChannelLabels, rows, history,
              Typed, CatalogueTypeOK
  <2>1. ASSUME NEW r \in Rates \cup {Keep}, NEW creds \in BOOLEAN,
               AskChannelPatch(p, c, r, creds)
        PROVE  Goal
    BY <2>1 DEF AskChannelPatch
  <2>2. ASSUME NEW set \in SUBSET Groups, AskChannelGroups(p, c, set) PROVE Goal
    BY <2>2 DEF AskChannelGroups
  <2>3. CASE UnbindChannel(p, c)
    BY <2>3 DEF UnbindChannel
  <2> HIDE DEF Goal
  <2>4. QED BY <1>2, <2>1, <2>2, <2>3
<1>3. ASSUME NEW p \in Procs,
             \/ SetChannelCredentials(p) \/ UpdateChannel(p) \/ ClearChannelGroups(p)
             \/ ReplaceChannelGroups(p)
      PROVE  Goal
  <2>1. req[p] \in Requests
    BY DEF Typed, CatalogueTypeOK
  <2>2. CASE SetChannelCredentials(p)
    BY <2>1, <2>2 DEF SetChannelCredentials, Update, Blank, Moves, ChannelLabels, history,
                      Requests, Typed, CatalogueTypeOK
  <2>3. CASE UpdateChannel(p)
    BY <2>3 DEF UpdateChannel, End, Blank, Moves, ChannelLabels, history,
                Typed, CatalogueTypeOK
  <2>4. CASE ClearChannelGroups(p)
    BY <2>1, <2>4 DEF ClearChannelGroups, Update, Moves, ChannelLabels, rows, history,
                      Requests, Typed, CatalogueTypeOK
  <2>5. CASE ReplaceChannelGroups(p)
    BY <2>5 DEF ReplaceChannelGroups, End, Blank, Moves, ChannelLabels,
                Typed, CatalogueTypeOK
  <2>6. QED BY <1>3, <2>2, <2>3, <2>4, <2>5
<1>4. ASSUME NEW p \in Procs, DeleteChannel(p) PROVE Goal
  <2>1. ASSUME NEW x \in Procs PROVE req'[x] = req[x] \/ req'[x].pc \in ChannelLabels
    <3>1. req[x] \in Requests
      BY DEF Typed, CatalogueTypeOK
    <3>2. QED BY <1>4, <3>1 DEF DeleteChannel, Blank, ChannelLabels, Requests
  <2>2. QED BY <1>4, <2>1 DEF DeleteChannel, Moves, history
<1>5. ASSUME NEW g \in Groups, NEW r \in Rates, PatchGroup(g, r) PROVE Goal
  BY <1>5 DEF PatchGroup, Moves, history
<1>6. ASSUME RotateMasterKey PROVE Goal
  BY <1>6 DEF RotateMasterKey, Moves, rows, history
<1> HIDE DEF Goal
<1>7. Goal
  BY <1>1, <1>2, <1>3, <1>4, <1>5, <1>6 DEF Channelling
<1>8. QED BY <1>7 DEF Goal

\* Where a call may stand.
CallLabels == {"model", "quote", "channels", "mappings", "try", "answered"}

\* What a call does next, and that it moves alone.
Alone(p) == \A x \in Procs \ {p} : req'[x] = req[x]

\* Each step of a call has its label.
LEMMA CallLabel ==
    ASSUME Typed, NEW p \in Procs
    PROVE  /\ ModelByName(p) => Alone(p) /\ req'[p].pc = "quote"
           /\ CurrentModelPrice(p) => Alone(p) /\ req'[p].pc = "channels"
           /\ RouteCandidatesByGroup(p) => Alone(p) /\ req'[p].pc = "mappings"
           /\ MappingRows(p) => Alone(p) /\ req'[p].pc = "try"
           /\ Reply(p) => Alone(p) /\ req'[p].pc = "answered"
<1> USE DEF Update, Alone, Requests, Typed, CatalogueTypeOK
<1>1. req[p] \in Requests
  OBVIOUS
<1>2. ModelByName(p) => Alone(p) /\ req'[p].pc = "quote"
  BY <1>1 DEF ModelByName
<1>3. ASSUME CurrentModelPrice(p) PROVE Alone(p) /\ req'[p].pc = "channels"
  <2>1. ASSUME NEW quote, req' = [req EXCEPT ![p] =
                                     [req[p] EXCEPT !.pc = "channels", !.price = quote]]
        PROVE  Alone(p) /\ req'[p].pc = "channels"
    BY <1>1, <2>1
  <2>2. ASSUME req' = [req EXCEPT ![p] = [req[p] EXCEPT !.pc = "channels", !.form = Keep]]
        PROVE  Alone(p) /\ req'[p].pc = "channels"
    BY <1>1, <2>2
  <2> HIDE DEF Alone
  <2>3. QED BY <1>3, <2>1, <2>2 DEF CurrentModelPrice
<1>4. RouteCandidatesByGroup(p) => Alone(p) /\ req'[p].pc = "mappings"
  BY <1>1 DEF RouteCandidatesByGroup
<1>5. MappingRows(p) => Alone(p) /\ req'[p].pc = "try"
  BY <1>1 DEF MappingRows
<1>6. Reply(p) => Alone(p) /\ req'[p].pc = "answered"
  BY <1>1 DEF Reply
<1>7. QED BY <1>2, <1>3, <1>4, <1>5, <1>6

\* Calls change nothing that is stored.
LEMMA CallsMove ==
    ASSUME Typed, Calls
    PROVE  Moves(CallLabels) /\ UNCHANGED <<price, channel, bound, history>>
<1>1. ASSUME NEW p \in Procs, NEW g \in Groups, BeginCall(p, g)
      PROVE  Moves(CallLabels) /\ UNCHANGED <<price, channel, bound, history>>
  BY <1>1 DEF BeginCall, Begin, Update, Blank, Moves, CallLabels, rows, Typed, CatalogueTypeOK
<1>2. ASSUME NEW p \in Procs,
             ModelByName(p) \/ CurrentModelPrice(p) \/ RouteCandidatesByGroup(p)
             \/ MappingRows(p) \/ Reply(p)
      PROVE  Moves(CallLabels) /\ UNCHANGED <<price, channel, bound, history>>
  <2>1. UNCHANGED <<price, channel, bound, history>>
    BY <1>2 DEF ModelByName, CurrentModelPrice, RouteCandidatesByGroup, MappingRows, Reply, rows
  <2>2. Alone(p) /\ req'[p].pc \in CallLabels
    BY <1>2, CallLabel DEF CallLabels
  <2>3. QED BY <2>1, <2>2 DEF Alone, Moves
<1>3. QED BY <1>1, <1>2 DEF Calls

\* A request ends, the process dies, or nothing happens.
Ends == (\E p \in Procs : Drop(p)) \/ Restart \/ UNCHANGED catalogueVars

\* Nor does a request that ends.
LEMMA EndsMove ==
    ASSUME Typed, Ends
    PROVE  Moves({"idle"}) /\ UNCHANGED <<price, channel, bound, history>>
BY DEF Ends, Drop, End, Restart, Blank, Moves, catalogueVars, rows, Typed, CatalogueTypeOK

-----------------------------------------------------------------------------
(* Prices.                                                                 *)

\* A step that leaves the prices alone and starts no PATCH of one.
LEMMA PriceQuiet ==
    ASSUME PriceInv, NEW labels, Moves(labels), "price" \notin labels,
           UNCHANGED <<price, wanted, mixed>>
    PROVE  PriceInv'
<1>1. ASSUME NEW x \in Procs PROVE Patches(req[x])'
  <2>1. CASE req'[x] = req[x]
    BY <2>1 DEF PriceInv, Patches
  <2>2. CASE req'[x].pc # "price"
    BY <2>2 DEF Patches
  <2>3. QED BY <2>1, <2>2 DEF Moves
<1>2. QED BY <1>1 DEF PriceInv

\* A price that is created is what was asked for; no PATCH knew its row.
LEMMA PriceCreated ==
    ASSUME Typed, PriceInv, NEW i \in Prices, NEW form \in PriceForms, CreatePrice(i, form)
    PROVE  PriceInv'
<1> DEFINE new == Filled(form, NoPrice)
<1>1. /\ price' = [price EXCEPT ![i] = Row(new)] /\ wanted' = [wanted EXCEPT ![i] = new]
      /\ UNCHANGED <<req, mixed>> /\ price[i].row = "none"
  BY DEF CreatePrice
<1>2. ASSUME NEW x \in Procs PROVE Patches(req[x])'
  <2>1. req[x].pc = "price" => req[x].to # i /\ req[x].to \in Prices
    BY <1>1 DEF PriceInv, Patches, Typed, About
  <2>2. req[x].pc = "price" => price'[req[x].to] = price[req[x].to]
    BY <1>1, <2>1 DEF Typed, CatalogueTypeOK
  <2>3. Patches(req[x])
    BY DEF PriceInv
  <2>4. QED BY <1>1, <2>2, <2>3 DEF Patches
<1> HIDE DEF new
<1>3. ASSUME NEW j \in Prices \ mixed, NEW f \in KeptFields
      PROVE  price'[j][f] = wanted'[j][f]
  <2>1. CASE j = i
    BY <1>1, <2>1 DEF Row, KeptFields, PriceFields, Typed, CatalogueTypeOK
  <2>2. CASE j # i
    BY <1>1, <2>2 DEF PriceInv, Typed, CatalogueTypeOK
  <2>3. QED BY <2>1, <2>2
<1>4. QED BY <1>1, <1>2, <1>3 DEF PriceInv

\* A PATCH begins with what it has read and what it was sent.
LEMMA PriceAsked ==
    ASSUME Typed, PriceInv, NEW p \in Procs, NEW i \in Prices, NEW form \in PriceForms,
           AskPricePatch(p, i, form)
    PROVE  PriceInv'
<1> DEFINE new == Merged(form, price[i])
           r == [Blank EXCEPT !.pc = "price", !.to = i, !.form = form, !.price = new]
           q == [r EXCEPT !.no = begun + 1, !.key = mk]
<1>1. /\ req' = [req EXCEPT ![p] = q] /\ UNCHANGED <<price, wanted, mixed>>
      /\ price[i].row = "live" /\ Valid(new)
  BY DEF AskPricePatch, Begin, Update, rows, history
<1>2. \A f \in KeptFields : ~Sent(form, f) => new[f] = price[i][f]
  BY <1>1, MergedIn DEF Typed, CatalogueTypeOK
<1>3. q.pc = "price" /\ q.to = i /\ q.form = form /\ q.price = new
  BY DEF Blank
<1> HIDE DEF q, new
<1>4. ASSUME NEW x \in Procs PROVE Patches(req[x])'
  <2>1. CASE x = p
    <3>1. req'[x] = q
      BY <1>1, <2>1 DEF Typed, CatalogueTypeOK
    <3>2. QED BY <1>1, <1>2, <1>3, <3>1 DEF Patches
  <2>2. CASE x # p
    BY <1>1, <2>2 DEF PriceInv, Patches, Typed, CatalogueTypeOK
  <2>3. QED BY <2>1, <2>2
<1>5. QED BY <1>1, <1>4 DEF PriceInv

\* A PATCH is written: who else had read the row is told, and without that it is
\* the row as it was but for what was sent.
LEMMA PricePatched ==
    ASSUME Typed, PriceInv, NEW p \in Procs, UpdateModelPrice(p)
    PROVE  PriceInv'
<1> DEFINE i == req[p].to
           new == req[p].price
           form == req[p].form
<1>1. /\ req[p] \in Requests /\ req[p].pc = "price" /\ i \in Prices
      /\ new \in Amounts /\ form \in PriceForms
      /\ \A f \in PriceFields : Sent(form, f) => new[f] = form[f]
  BY DEF UpdateModelPrice, At, Typed, CatalogueTypeOK, About, Requests
<1>2. /\ price' = [price EXCEPT ![i] = Row(new)]
      /\ wanted' = [wanted EXCEPT ![i] = Filled(form, wanted[i])]
      /\ mixed \subseteq mixed'
      /\ req[p].over => i \in mixed'
  BY <1>1 DEF UpdateModelPrice, Typed, CatalogueTypeOK
<1>3. ASSUME NEW x \in Procs PROVE Patches(req[x])'
  <2>1. CASE x = p
    BY <2>1 DEF UpdateModelPrice, Patches, Blank
  <2>2. CASE x # p /\ req[x].pc = "price" /\ req[x].to = i
    <3>1. req'[x] = [req[x] EXCEPT !.over = TRUE]
      BY <2>2 DEF UpdateModelPrice, At
    <3>2. req[x] \in Requests
      BY DEF Typed, CatalogueTypeOK
    <3>3. req'[x].over = TRUE /\ req'[x].to = i
      BY <2>2, <3>1, <3>2 DEF Requests
    <3>4. price'[i].row = "live"
      BY <1>1, <1>2 DEF Row, Typed, CatalogueTypeOK
    <3>5. QED BY <3>3, <3>4 DEF Patches
  <2>3. CASE x # p /\ ~(req[x].pc = "price" /\ req[x].to = i)
    <3>1. req'[x] = req[x]
      BY <2>3 DEF UpdateModelPrice, At
    <3>2. req[x].pc = "price" => req[x].to # i /\ req[x].to \in Prices
      BY <2>3 DEF Typed, About
    <3>3. req[x].pc = "price" => price'[req[x].to] = price[req[x].to]
      BY <1>2, <3>2 DEF Typed, CatalogueTypeOK
    <3>4. Patches(req[x])
      BY DEF PriceInv
    <3>5. QED BY <3>1, <3>3, <3>4 DEF Patches
  <2>4. QED BY <2>1, <2>2, <2>3
<1>4. ASSUME NEW j \in Prices \ mixed', NEW f \in KeptFields
      PROVE  price'[j][f] = wanted'[j][f]
  <2>1. CASE j = i
    <3>1. ~req[p].over /\ i \notin mixed
      BY <1>2, <2>1
    <3>2. price[i][f] = wanted[i][f]
      BY <1>1, <3>1 DEF PriceInv
    <3>3. ~Sent(form, f) => new[f] = price[i][f]
      BY <1>1, <3>1 DEF PriceInv, Patches
    <3>4. Filled(form, wanted[i])[f] = IF Sent(form, f) THEN form[f] ELSE wanted[i][f]
      BY FilledFields DEF KeptFields
    <3>5. Row(new)[f] = new[f]
      BY DEF Row, KeptFields, PriceFields
    <3>6. price'[i][f] = new[f] /\ wanted'[i][f] = Filled(form, wanted[i])[f]
      BY <1>1, <1>2, <3>5 DEF Typed, CatalogueTypeOK
    <3>7. QED BY <1>1, <2>1, <3>2, <3>3, <3>4, <3>6 DEF KeptFields
  <2>2. CASE j # i
    BY <1>1, <1>2, <2>2 DEF PriceInv, Typed, CatalogueTypeOK
  <2>3. QED BY <2>1, <2>2
<1>5. QED BY <1>3, <1>4 DEF PriceInv

\* A price that is deleted keeps its fields.
LEMMA PriceDeleted ==
    ASSUME Typed, PriceInv, NEW i \in Prices, DeletePrice(i)
    PROVE  PriceInv'
<1>1. /\ price' = [price EXCEPT ![i].row = "deleted"]
      /\ UNCHANGED <<req, wanted, mixed>>
  BY DEF DeletePrice, history
<1>2. ASSUME NEW j \in Prices
      PROVE  /\ \A f \in KeptFields : price'[j][f] = price[j][f]
             /\ price'[j].row # "none" \/ price'[j].row = price[j].row
  BY <1>1 DEF KeptFields, PriceFields, PriceRows, Typed, CatalogueTypeOK
<1>3. ASSUME NEW x \in Procs PROVE Patches(req[x])'
  <2>1. Patches(req[x]) /\ (req[x].pc = "price" => req[x].to \in Prices)
    BY DEF PriceInv, Typed, About
  <2>2. QED BY <1>1, <1>2, <2>1 DEF Patches
<1>4. QED BY <1>1, <1>2, <1>3 DEF PriceInv

\* Every step keeps the invariant of the prices.
LEMMA PriceStep ==
    ASSUME Typed, PriceInv, [CatalogueNext]_catalogueVars
    PROVE  PriceInv'
<1>1. CASE Offering
  <2>1. Moves({})
    BY <1>1, OfferingMoves DEF Moves
  <2>2. QED BY <1>1, <2>1, OfferingMoves, PriceQuiet DEF history
<1>2. CASE Pricing
  BY <1>2, PriceCreated, PriceAsked, PricePatched, PriceDeleted DEF Pricing
<1>3. CASE Mapping
  BY <1>3, MappingMoves, PriceQuiet DEF history
<1>4. CASE Channelling
  BY <1>4, ChannellingMoves, PriceQuiet DEF ChannelLabels
<1>5. CASE Calls
  BY <1>5, CallsMove, PriceQuiet DEF CallLabels, history
<1>6. CASE Ends
  BY <1>6, EndsMove, PriceQuiet DEF history
<1>7. QED BY <1>1, <1>2, <1>3, <1>4, <1>5, <1>6 DEF CatalogueNext, Ends

-----------------------------------------------------------------------------
(* Who is bound to a deleted channel.                                      *)

\* Who looks at, or writes, the groups of a channel.
BindLabels == {"clear", "bind", "erase"}

\* A step that deletes no channel, binds none and moves none of these requests.
LEMMA BoundQuiet ==
    ASSUME Typed, BoundInv, UNCHANGED <<bound, late>>,
           \A c \in ChannelIds : \/ channel'[c].row = channel[c].row
                                 \/ channel[c].row = "none" /\ channel'[c].row = "live",
           \A x \in Procs : req'[x] = req[x] \/ req'[x].pc \notin BindLabels
    PROVE  BoundInv'
<1>1. DeletedIsUnbound'
  BY DEF BoundInv, DeletedIsUnbound
<1>2. ASSUME NEW x \in Procs PROVE Binds(req[x])'
  <2>1. CASE req'[x] = req[x]
    <3>1. req[x].pc \in BindLabels => req[x].to \in ChannelIds
      BY DEF Typed, About, BindLabels
    <3>2. Binds(req[x])
      BY DEF BoundInv
    <3>3. QED BY <2>1, <3>1, <3>2 DEF Binds, BindLabels
  <2>2. CASE req'[x].pc \notin BindLabels
    BY <2>2 DEF Binds, BindLabels
  <2>3. QED BY <2>1, <2>2
<1>3. QED BY <1>1, <1>2 DEF BoundInv

\* The same for what concerns no channel at all.
LEMMA BoundStill ==
    ASSUME Typed, BoundInv, NEW labels, Moves(labels), labels \cap BindLabels = {},
           UNCHANGED <<channel, bound, late>>
    PROVE  BoundInv'
BY BoundQuiet DEF Moves

\* Channels change but stay, and no PUT of groups or deletion moves.
LEMMA BoundChannels ==
    ASSUME Typed, BoundInv,
           \/ \E c \in ChannelIds, r \in Rates \cup {Keep}, sched \in BOOLEAN :
                  CreateChannel(c, r, sched)
           \/ \E c \in ChannelIds, enabled \in BOOLEAN : SetChannelEnabled(c, enabled)
           \/ \E c \in ChannelIds : ResetChannelCircuit(c)
           \/ \E p \in Procs : SetChannelCredentials(p) \/ UpdateChannel(p)
           \/ \E g \in Groups, r \in Rates : PatchGroup(g, r)
           \/ RotateMasterKey
    PROVE  BoundInv'
<1> DEFINE Stays == \A c \in ChannelIds :
                        \/ channel'[c].row = channel[c].row
                        \/ channel[c].row = "none" /\ channel'[c].row = "live"
           Others == \A x \in Procs : req'[x] = req[x] \/ req'[x].pc \notin BindLabels
<1>1. ASSUME NEW c \in ChannelIds, NEW r \in Rates \cup {Keep}, NEW sched \in BOOLEAN,
             CreateChannel(c, r, sched)
      PROVE  UNCHANGED <<bound, late>> /\ Stays /\ Others
  BY <1>1 DEF CreateChannel, NoChannel, history, Typed, CatalogueTypeOK
<1>2. ASSUME NEW c \in ChannelIds, NEW enabled \in BOOLEAN, SetChannelEnabled(c, enabled)
      PROVE  UNCHANGED <<bound, late>> /\ Stays /\ Others
  BY <1>2 DEF SetChannelEnabled, history, Typed, CatalogueTypeOK, ChannelRows
<1>3. ASSUME NEW c \in ChannelIds, ResetChannelCircuit(c)
      PROVE  UNCHANGED <<bound, late>> /\ Stays /\ Others
  BY <1>3 DEF ResetChannelCircuit, history, Typed, CatalogueTypeOK, ChannelRows
<1>4. ASSUME NEW p \in Procs, SetChannelCredentials(p)
      PROVE  UNCHANGED <<bound, late>> /\ Stays /\ Others
  <2>1. req[p] \in Requests /\ req[p].to \in ChannelIds
    BY <1>4 DEF SetChannelCredentials, At, Typed, CatalogueTypeOK, About
  <2>2. Stays
    <3>1. channel \in [ChannelIds -> ChannelRows]
      BY DEF Typed, CatalogueTypeOK
    <3>2. \E k, a : channel' = [channel EXCEPT ![req[p].to] = [@ EXCEPT !.key = k, !.aad = a]]
      BY <1>4, <3>1, <2>1 DEF SetChannelCredentials
    <3>3. QED BY <2>1, <3>1, <3>2 DEF ChannelRows
  <2>3. Others
    BY <1>4, <2>1 DEF SetChannelCredentials, Update, Blank, BindLabels, Requests,
                      Typed, CatalogueTypeOK
  <2>4. QED BY <1>4, <2>2, <2>3 DEF SetChannelCredentials, history
<1>5. ASSUME NEW p \in Procs, UpdateChannel(p)
      PROVE  UNCHANGED <<bound, late>> /\ Stays /\ Others
  <2>1. req[p] \in Requests /\ req[p].to \in ChannelIds
    BY <1>5 DEF UpdateChannel, At, Typed, CatalogueTypeOK, About
  <2>2. Stays
    BY <1>5, <2>1 DEF UpdateChannel, Typed, CatalogueTypeOK, ChannelRows
  <2>3. Others
    BY <1>5, <2>1 DEF UpdateChannel, End, Blank, BindLabels, Typed, CatalogueTypeOK
  <2>4. QED BY <1>5, <2>2, <2>3 DEF UpdateChannel, history
<1>6. ASSUME NEW g \in Groups, NEW r \in Rates, PatchGroup(g, r)
      PROVE  UNCHANGED <<bound, late>> /\ Stays /\ Others
  BY <1>6 DEF PatchGroup, history
<1>7. ASSUME RotateMasterKey PROVE UNCHANGED <<bound, late>> /\ Stays /\ Others
  BY <1>7 DEF RotateMasterKey, rows, history
<1>8. UNCHANGED <<bound, late>> /\ Stays /\ Others
  <2> HIDE DEF Stays, Others
  <2>1. QED BY <1>1, <1>2, <1>3, <1>4, <1>5, <1>6, <1>7
<1>9. QED BY <1>8, BoundQuiet

\* One request moves and the channels stay.
LEMMA BoundOne ==
    ASSUME Typed, BoundInv, NEW p \in Procs, NEW q, req' = [req EXCEPT ![p] = q],
           UNCHANGED <<channel, bound, late>>, Binds(q)
    PROVE  BoundInv'
<1>1. DeletedIsUnbound'
  BY DEF BoundInv, DeletedIsUnbound
<1>2. ASSUME NEW x \in Procs PROVE Binds(req[x])'
  <2>1. CASE x = p
    <3>1. req'[x] = q
      BY <2>1 DEF Typed, CatalogueTypeOK
    <3>2. QED BY <3>1 DEF Binds
  <2>2. CASE x # p
    <3>1. req'[x] = req[x]
      BY <2>2 DEF Typed, CatalogueTypeOK
    <3>2. Binds(req[x])
      BY DEF BoundInv
    <3>3. QED BY <3>1, <3>2 DEF Binds
  <2>3. QED BY <2>1, <2>2
<1>3. QED BY <1>1, <1>2 DEF BoundInv

\* A PUT of groups has found its channel, and a deletion sees all there is.
LEMMA BoundAsked ==
    ASSUME Typed, BoundInv, NEW p \in Procs, NEW c \in ChannelIds,
           \/ \E r \in Rates \cup {Keep}, creds \in BOOLEAN : AskChannelPatch(p, c, r, creds)
           \/ \E set \in SUBSET Groups : AskChannelGroups(p, c, set)
           \/ UnbindChannel(p, c)
    PROVE  BoundInv'
<1>1. ASSUME NEW r, Begin(p, r), Binds([r EXCEPT !.no = begun + 1, !.key = mk])
      PROVE  BoundInv'
  BY <1>1, BoundOne DEF Begin, Update, rows, history
<1>2. ASSUME NEW r \in Rates \cup {Keep}, NEW creds \in BOOLEAN, AskChannelPatch(p, c, r, creds)
      PROVE  BoundInv'
  BY <1>1, <1>2 DEF AskChannelPatch, Binds, Blank
<1>3. ASSUME NEW set \in SUBSET Groups, AskChannelGroups(p, c, set) PROVE BoundInv'
  BY <1>1, <1>3 DEF AskChannelGroups, ChannelByID, Binds, Blank
<1>4. ASSUME UnbindChannel(p, c) PROVE BoundInv'
  BY <1>1, <1>4 DEF UnbindChannel, Binds, Blank
<1>5. QED BY <1>2, <1>3, <1>4

\* The DELETE of a PUT: it was told if the channel is gone.
LEMMA BoundCleared ==
    ASSUME Typed, BoundInv, NEW p \in Procs, ClearChannelGroups(p)
    PROVE  BoundInv'
<1> DEFINE q == [req[p] EXCEPT !.pc = "bind", !.seen = bound[req[p].to]]
<1>1. req[p] \in Requests /\ req[p].pc = "clear" /\ Binds(req[p])
  BY DEF ClearChannelGroups, At, BoundInv, Typed, CatalogueTypeOK
<1>2. Binds(q)
  BY <1>1 DEF Binds, Requests
<1>3. req' = [req EXCEPT ![p] = q] /\ UNCHANGED <<channel, bound, late>>
  BY DEF ClearChannelGroups, Update, rows, history
<1> HIDE DEF q
<1>4. QED BY <1>2, <1>3, BoundOne

\* The INSERT of a PUT: the channel is live, or it was told; a deletion under way
\* that does not see the new rows makes the channel a late one.
LEMMA BoundReplaced ==
    ASSUME Typed, BoundInv, NEW p \in Procs, ReplaceChannelGroups(p)
    PROVE  BoundInv'
<1> DEFINE c == req[p].to
<1>1. c \in ChannelIds /\ req[p].pc = "bind" /\ Binds(req[p])
  BY DEF ReplaceChannelGroups, At, About, BoundInv, Typed
<1>2. /\ \A d \in ChannelIds \ {c} : bound'[d] = bound[d]
      /\ UNCHANGED channel
      /\ late \subseteq late'
      /\ req[p].over => c \in late'
      /\ \A x \in Procs : req[x].pc = "erase" /\ req[x].to = c => c \in late'
      /\ \A x \in Procs \ {p} : req'[x] = req[x]
      /\ req'[p] = Blank
  BY DEF ReplaceChannelGroups, At, End, Typed, CatalogueTypeOK
<1>3. DeletedIsUnbound'
  <2>1. ASSUME NEW d \in ChannelIds, channel[d].row = "deleted", bound'[d] # {}
        PROVE  d \in late'
    <3>1. CASE d = c
      BY <1>1, <1>2, <2>1, <3>1 DEF Binds
    <3>2. CASE d # c
      BY <1>2, <2>1, <3>2 DEF BoundInv, DeletedIsUnbound
    <3>3. QED BY <3>1, <3>2
  <2>2. QED BY <1>2, <2>1 DEF DeletedIsUnbound
<1>4. ASSUME NEW x \in Procs PROVE Binds(req[x])'
  <2>1. CASE x = p
    BY <1>2, <2>1 DEF Binds, Blank
  <2>2. CASE x # p
    <3>1. Binds(req[x]) /\ (req[x].pc \in BindLabels => req[x].to \in ChannelIds)
      BY DEF BoundInv, Typed, About, BindLabels
    <3>2. req'[x] = req[x]
      BY <1>2, <2>2
    <3>3. req[x].pc \in {"clear", "bind"} /\ ~req[x].over => channel'[req[x].to].row = "live"
      BY <1>2, <3>1 DEF Binds
    <3>4. ASSUME req[x].pc = "erase", req[x].to \notin late'
          PROVE  bound'[req[x].to] \subseteq req[x].seen
      <4>1. req[x].to # c /\ req[x].to \notin late /\ req[x].to \in ChannelIds
        BY <1>2, <3>1, <3>4 DEF BindLabels
      <4>2. QED BY <1>2, <3>1, <3>4, <4>1 DEF Binds
    <3>5. QED BY <3>2, <3>3, <3>4 DEF Binds
  <2>3. QED BY <2>1, <2>2
<1>5. QED BY <1>3, <1>4 DEF BoundInv

\* A deletion takes the rows it has seen; without a late one that is all of them.
LEMMA BoundDeleted ==
    ASSUME Typed, BoundInv, NEW p \in Procs, DeleteChannel(p)
    PROVE  BoundInv'
<1> DEFINE c == req[p].to
<1>1. c \in ChannelIds /\ req[p].pc = "erase" /\ Binds(req[p])
  BY DEF DeleteChannel, At, About, BoundInv, Typed
<1>2. /\ \A d \in ChannelIds : bound'[d] \subseteq bound[d]
      /\ bound'[c] = bound[c] \ req[p].seen
      /\ \A d \in ChannelIds \ {c} : channel'[d] = channel[d]
      /\ UNCHANGED late
  BY <1>1 DEF DeleteChannel, history, Typed, CatalogueTypeOK
<1>3. DeletedIsUnbound'
  <2>1. ASSUME NEW d \in ChannelIds, channel'[d].row = "deleted", bound'[d] # {}
        PROVE  d \in late
    <3>1. CASE d = c
      BY <1>1, <1>2, <2>1, <3>1 DEF Binds
    <3>2. CASE d # c
      BY <1>2, <2>1, <3>2 DEF BoundInv, DeletedIsUnbound
    <3>3. QED BY <3>1, <3>2
  <2>2. QED BY <1>2, <2>1 DEF DeletedIsUnbound
<1>4. ASSUME NEW x \in Procs PROVE Binds(req[x])'
  <2>0. Binds(req[x]) /\ (req[x].pc \in BindLabels => req[x].to \in ChannelIds)
    BY DEF BoundInv, Typed, About, BindLabels
  <2>1. CASE x = p
    BY <2>1 DEF DeleteChannel, Binds, Blank
  <2>2. CASE x # p /\ req[x].pc \in {"clear", "bind"} /\ req[x].to = c
    <3>1. req'[x] = [req[x] EXCEPT !.over = TRUE]
      BY <2>2 DEF DeleteChannel
    <3>2. req[x] \in Requests
      BY DEF Typed, CatalogueTypeOK
    <3>3. req'[x].over = TRUE /\ req'[x].pc = req[x].pc
      BY <3>1, <3>2 DEF Requests
    <3>4. QED BY <2>2, <3>3 DEF Binds
  <2>3. CASE x # p /\ ~(req[x].pc \in {"clear", "bind"} /\ req[x].to = c)
    <3>1. req'[x] = req[x]
      BY <2>3 DEF DeleteChannel
    <3>2. req[x].pc \in {"clear", "bind"} /\ ~req[x].over => channel'[req[x].to].row = "live"
      BY <1>2, <2>0, <2>3 DEF Binds, BindLabels
    <3>3. req[x].pc = "erase" /\ req[x].to \notin late => bound'[req[x].to] \subseteq req[x].seen
      BY <1>2, <2>0 DEF Binds, BindLabels
    <3>4. QED BY <1>2, <3>1, <3>2, <3>3 DEF Binds
  <2>4. QED BY <2>1, <2>2, <2>3
<1>5. QED BY <1>3, <1>4 DEF BoundInv

\* Every step keeps the invariant of the bindings.
LEMMA BoundStep ==
    ASSUME Typed, BoundInv, [CatalogueNext]_catalogueVars
    PROVE  BoundInv'
<1>1. CASE Offering
  <2>1. Moves({})
    BY <1>1, OfferingMoves DEF Moves
  <2>2. QED BY <1>1, <2>1, OfferingMoves, BoundStill DEF history
<1>2. CASE Pricing
  BY <1>2, PricingMoves, BoundStill DEF BindLabels
<1>3. CASE Mapping
  BY <1>3, MappingMoves, BoundStill DEF BindLabels, history
<1>4. CASE Channelling
  BY <1>4, BoundChannels, BoundAsked, BoundCleared, BoundReplaced, BoundDeleted
     DEF Channelling
<1>5. CASE Calls
  BY <1>5, CallsMove, BoundStill DEF CallLabels, BindLabels, history
<1>6. CASE Ends
  BY <1>6, EndsMove, BoundStill DEF BindLabels, history
<1>7. QED BY <1>1, <1>2, <1>3, <1>4, <1>5, <1>6 DEF CatalogueNext, Ends

-----------------------------------------------------------------------------
(* What a call costs.                                                      *)

\* Every step keeps the charges sound.
LEMMA CostStep ==
    ASSUME Typed, CostSound, [CatalogueNext]_catalogueVars
    PROVE  CostSound'
<1>1. ASSUME NEW labels, Moves(labels), "answered" \notin labels PROVE CostSound'
  BY <1>1 DEF Moves, CostSound, At
<1>2. CASE Calls
  <2>1. ASSUME NEW p \in Procs, Alone(p), req'[p].pc = "answered" =>
                  /\ req'[p].cost >= 0
                  /\ req'[p].cost = 0 =>
                        \A kind \in {"in", "out", "cache"} :
                            req'[p].used[kind] > 0 => req'[p].price[kind] = 0
        PROVE  CostSound'
    BY <2>1 DEF CostSound, At, Alone
  <2>2. ASSUME NEW p \in Procs PROVE req[p] \in Requests /\ About(req[p])
    BY DEF Typed, CatalogueTypeOK
  <2>3. ASSUME NEW p \in Procs, NEW g \in Groups, BeginCall(p, g) PROVE CostSound'
    <3>1. Alone(p) /\ req'[p].pc = "model"
      BY <2>3 DEF BeginCall, Begin, Update, Blank, Alone, Typed, CatalogueTypeOK
    <3>2. QED BY <2>1, <3>1
  <2>4. ASSUME NEW p \in Procs,
               ModelByName(p) \/ CurrentModelPrice(p) \/ RouteCandidatesByGroup(p)
               \/ MappingRows(p)
        PROVE  CostSound'
    BY <2>1, <2>4, CallLabel
  <2>5. ASSUME NEW p \in Procs, Reply(p) PROVE CostSound'
    <3>1. PICK a \in req[p].plan, used \in TokenCounts :
              Update(p, [req[p] EXCEPT !.pc = "answered", !.plan = {a}, !.used = used,
                  !.cost = ComputeCost(req[p].price, used, req[p].rate, a.row.rate, FALSE)])
      BY <2>5 DEF Reply
    <3> DEFINE cost == ComputeCost(req[p].price, used, req[p].rate, a.row.rate, FALSE)
    <3>2. /\ req[p].price \in Amounts /\ req[p].rate \in Nat /\ a.row.rate \in Nat
          /\ used \in [in : Nat, out : Nat, cache : Nat]
      BY <2>2, <2>5, CatalogueAssumption DEF Reply, At, About, Requests, Tries, ChannelRows
    <3>3. /\ cost \in Nat
          /\ cost = 0 => \A kind \in {"in", "out", "cache"} :
                             used[kind] > 0 => req[p].price[kind] = 0
      BY <3>2, CostIsSound
    <3> HIDE DEF cost
    <3>4. req'[p] = [req[p] EXCEPT !.pc = "answered", !.plan = {a}, !.used = used,
                                   !.cost = cost]
      BY <3>1 DEF Update, cost, Typed, CatalogueTypeOK
    <3>5. req'[p].cost = cost /\ req'[p].price = req[p].price /\ req'[p].used = used
      BY <2>2, <3>4 DEF Requests
    <3>6. cost >= 0
      BY <3>3
    <3>7. QED BY <2>1, <2>5, <3>3, <3>5, <3>6, CallLabel
  <2>6. QED BY <1>2, <2>3, <2>4, <2>5 DEF Calls
<1>3. CASE Offering
  <2>1. Moves({})
    BY <1>3, OfferingMoves DEF Moves
  <2>2. QED BY <1>1, <2>1
<1>4. CASE Pricing
  BY <1>1, <1>4, PricingMoves
<1>5. CASE Mapping
  BY <1>1, <1>5, MappingMoves
<1>6. CASE Channelling
  BY <1>1, <1>6, ChannellingMoves DEF ChannelLabels
<1>7. CASE Ends
  BY <1>1, <1>7, EndsMove
<1>8. QED BY <1>2, <1>3, <1>4, <1>5, <1>6, <1>7 DEF CatalogueNext, Ends

-----------------------------------------------------------------------------
(* The theorems.                                                           *)

\* The invariant at the start.
LEMMA CatalogueInitially == CatalogueInit => CatalogueInv
<1> SUFFICES ASSUME CatalogueInit PROVE CatalogueInv
  OBVIOUS
<1>1. Typed
  BY TypedInit
<1>2. \A p \in Procs : req[p].pc = "idle"
  BY DEF CatalogueInit, Blank
<1>3. PriceInv
  <2>0. PICK first \in Prices :
            price = [i \in Prices |->
                       [row |-> IF i = first THEN "live" ELSE "none",
                        in |-> 1, out |-> 2, cache |-> 1, per |-> 0,
                        from |-> Today, to |-> Never]]
    BY DEF CatalogueInit
  <2>1. \A i \in Prices, f \in KeptFields : price[i][f] = wanted[i][f]
    <3>1. ASSUME NEW i \in Prices
          PROVE  /\ price[i].in = wanted[i].in /\ price[i].out = wanted[i].out
                 /\ price[i].cache = wanted[i].cache /\ price[i].per = wanted[i].per
                 /\ price[i].from = wanted[i].from
      BY <2>0 DEF CatalogueInit
    <3>2. QED BY <3>1 DEF KeptFields, PriceFields
  <2>2. QED BY <1>2, <2>1 DEF PriceInv, Patches
<1>4. \A c \in ChannelIds : channel[c].row # "deleted"
  <2>1. PICK first \in ChannelIds, circuit \in {"closed", "open"} :
            channel = [c \in ChannelIds |->
                         IF c = first
                         THEN [NoChannel EXCEPT !.row = "live", !.aad = c,
                                                !.circuit = circuit]
                         ELSE NoChannel]
    BY DEF CatalogueInit
  <2>2. QED BY <2>1 DEF NoChannel
<1>5. BoundInv
  BY <1>2, <1>4 DEF BoundInv, Binds, DeletedIsUnbound
<1>6. CostSound
  BY <1>2 DEF CostSound, At
<1>7. QED BY <1>1, <1>3, <1>5, <1>6 DEF Typed, CatalogueInv

\* The catalogue's invariant: what is stored and what requests carry is well
\* formed, amounts and multipliers are not negative, and the histories of prices
\* and of deletions hold.
THEOREM CatalogueInvariant == CatalogueSpec => []CatalogueInv
<1>1. ASSUME CatalogueInv, [CatalogueNext]_catalogueVars PROVE CatalogueInv'
  <2>1. Typed
    BY <1>1 DEF CatalogueInv, Typed
  <2>2. Typed'
    BY <1>1, <2>1, TypedStep
  <2>3. PriceInv' /\ BoundInv' /\ CostSound'
    BY <1>1, <2>1, PriceStep, BoundStep, CostStep DEF CatalogueInv
  <2>4. QED BY <2>2, <2>3 DEF Typed, CatalogueInv
<1>2. QED BY <1>1, CatalogueInitially, PTL DEF CatalogueSpec

\* A deleted channel is bound to no group, but for a PUT of its groups that had
\* found it before it went (DeleteChannel, ReplaceChannelGroups).
THEOREM DeletionUnbinds == CatalogueSpec => []DeletedIsUnbound
<1>1. CatalogueInv => DeletedIsUnbound
  BY DEF CatalogueInv, BoundInv
<1>2. QED BY <1>1, CatalogueInvariant, PTL

\* The amounts of a price and the day it begins are what was last asked for, unless
\* two PATCHes of it crossed (handlePricePatch, mergePriceReq, UpdateModelPrice).
THEOREM PatchesKeep == CatalogueSpec => []PatchKeepsOthers
<1>1. CatalogueInv => PatchKeepsOthers
  BY DEF CatalogueInv, PriceInv, PatchKeepsOthers
<1>2. QED BY <1>1, CatalogueInvariant, PTL

\* Whatever mix of old and new a call has read, it never pays its user, and it is
\* free only if nothing was counted that has a price per token (ComputeCost and
\* every form it reads from).
THEOREM CallsChargedSoundly == CatalogueSpec => []CostSound
<1>1. CatalogueInv => CostSound
  BY DEF CatalogueInv
<1>2. QED BY <1>1, CatalogueInvariant, PTL
=============================================================================
