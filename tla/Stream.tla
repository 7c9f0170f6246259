------------------------------- MODULE Stream -------------------------------
(***************************************************************************)
(* One streamed answer of an upstream, as three goroutines pass it on:     *)
(* the reader of the response body (adapter.ParseSSE, which hands events   *)
(* over an unbuffered channel), the parser (parseStream of the openai and  *)
(* DecodeStream of the anthropic adapter, which fills a channel of         *)
(* capacity Buffer) and the HTTP handler (writeChatStream), which writes   *)
(* to the client, sends the metering tasks and closes the body.  The       *)
(* client may leave at any time; the request's context is cancelled some   *)
(* time after that, or when the handler returns.                           *)
(***************************************************************************)
EXTENDS Naturals, Sequences, FiniteSetsExt

CONSTANTS
    Buffer,         \* capacity of the channel between parser and handler
    MaxEvents       \* bound: server-sent events of one answer

ASSUME StreamAssumption == Buffer \in Nat \ {0} /\ MaxEvents \in Nat

(***************************************************************************)
(* What an upstream sends: "delta", a piece of text or reasoning; "lost",  *)
(* a piece neither parser passes on (a tool call, an anthropic delta whose *)
(* data is no JSON); "count" and "zero", token counts that are not or are  *)
(* all zero; "other", a ping, a finish reason or the zero count that the   *)
(* anthropic parser ignores; "done", the end mark; "bad", what is or is    *)
(* taken for an error; and "mute", the anthropic "error" whose data is no  *)
(* JSON, after which the parser returns without a word.                    *)
(***************************************************************************)
Kinds == {"delta", "lost", "count", "zero", "other", "done", "bad", "mute"}

\* Events of the channel between parser and handler (ir.StreamEvent).
Events == {"delta", "usage", "done", "error"}

VARIABLES
    script,     \* the events the upstream has sent, in order
    body,       \* the upstream's response body
    reader,     \* goroutine of ParseSSE
    raw,        \* the event the reader offers while "sending"
    parser,     \* goroutine of parseStream
    outbox,     \* what the parser has still to put into the channel
    counted,    \* the parser's usage has a count above zero
    out,        \* the channel
    handler,    \* writeChatStream
    client,     \* whether the client is still connected
    cancelled,  \* the request's context
    delivered,  \* pieces of the answer written to the client
    usage,      \* su.Usage points to the parser's usage
    finished,   \* the handler has received the end of the answer
    emits,      \* calls of emitMetering
    bill,       \* the tokens that were metered
    tasks       \* the tasks that were enqueued

pipeVars == <<script, body, reader, raw, parser, outbox, counted, out>>
clientVars == <<client, cancelled>>
meterVars == <<emits, bill, tasks>>
handlerVars == <<handler, delivered, usage, finished>>
streamVars == <<pipeVars, clientVars, meterVars, handlerVars>>

StreamInit ==
    /\ script = << >>
    /\ body = "none"
    /\ reader = "off"
    /\ raw = "other"
    /\ parser = "off"
    /\ outbox = << >>
    /\ counted = FALSE
    /\ out = << >>
    /\ handler = "off"
    /\ client = "here"
    /\ cancelled = FALSE
    /\ delivered = 0
    /\ usage = FALSE
    /\ finished = FALSE
    /\ emits = 0
    /\ bill = "none"
    /\ tasks = << >>

-----------------------------------------------------------------------------
(***************************************************************************)
(* The reader.                                                             *)
(***************************************************************************)
\* The scanner completes an event.  It may have been buffered before the body
\* was closed.
ReadEvent(k) ==
    /\ reader = "scanning"
    /\ Len(script) < MaxEvents
    /\ script' = Append(script, k)
    /\ raw' = k
    /\ reader' = "sending"
    /\ UNCHANGED <<body, parser, outbox, counted, out, clientVars, meterVars, handlerVars>>

\* The body ends: the channel is closed.
ReadEOF ==
    /\ reader = "scanning"
    /\ reader' = "gone"
    /\ UNCHANGED <<script, body, raw, parser, outbox, counted, out, clientVars,
                   meterVars, handlerVars>>

\* A read fails: connection lost, line too long, client.Timeout, the context
\* cancelled, or the body closed by the handler.
ReadError ==
    /\ reader = "scanning"
    /\ raw' = "error"
    /\ reader' = "sending"
    /\ UNCHANGED <<script, body, parser, outbox, counted, out, clientVars,
                   meterVars, handlerVars>>

-----------------------------------------------------------------------------
(***************************************************************************)
(* The parser.                                                             *)
(***************************************************************************)
\* What an SSE event becomes.  The end sends the usage whether or not the
\* upstream has sent one.
Answer(k) ==
    CASE k = "delta" -> <<"delta">>
      [] k = "done" -> <<"usage", "done">>
      [] k \in {"bad", "error"} -> <<"error">>
      [] OTHER -> << >>

\* Where the parser goes: on to its select, or to its return once everything
\* is put.
After(k) ==
    CASE k = "delta" -> "put"
      [] k \in {"lost", "count", "zero", "other"} -> "select"
      [] k = "mute" -> "gone"
      [] OTHER -> "last"

\* The parser's usage after an event: each count overwrites the one before.
Counts(k) == k = "count" \/ (counted /\ k # "zero")

\* Reader and parser meet: the raw channel has no buffer.
Parse ==
    /\ reader = "sending"
    /\ parser = "select"
    /\ reader' = IF raw = "error" THEN "gone" ELSE "scanning"
    /\ outbox' = Answer(raw)
    /\ parser' = After(raw)
    /\ counted' = Counts(raw)
    /\ UNCHANGED <<script, body, raw, out, clientVars, meterVars, handlerVars>>

\* Mutant of Ending: an answer that ends without its end mark is complete.
SilentEnd == <<"usage", "done">>

\* The event for a body that ended without the end mark.
Ending == <<"error">>

\* The raw channel is closed.
ParseEOF ==
    /\ reader = "gone"
    /\ parser = "select"
    /\ outbox' = Ending
    /\ parser' = "last"
    /\ UNCHANGED <<script, body, reader, raw, counted, out, clientVars,
                   meterVars, handlerVars>>

\* The select may take ctx.Done() although an event is ready.
ParseCancelled ==
    /\ cancelled
    /\ parser = "select"
    /\ outbox' = <<"error">>
    /\ parser' = "last"
    /\ UNCHANGED <<script, body, reader, raw, counted, out, clientVars,
                   meterVars, handlerVars>>

\* A send blocks while the channel is full, cancelled or not.
Room == Len(out) < Buffer

Put ==
    /\ parser \in {"put", "last"}
    /\ Room
    /\ out' = Append(out, Head(outbox))
    /\ outbox' = Tail(outbox)
    /\ parser' = IF Len(outbox) > 1 THEN parser
                 ELSE IF parser = "put" THEN "select" ELSE "gone"
    /\ UNCHANGED <<script, body, reader, raw, counted, clientVars, meterVars,
                   handlerVars>>

-----------------------------------------------------------------------------
(***************************************************************************)
(* The handler.                                                            *)
(***************************************************************************)
\* emitMetering: usage:write, then billing:settle; the error of either is
\* only logged.
Emit(tokens) ==
    /\ emits' = emits + 1
    /\ bill' = tokens
    /\ \E sent \in {<< >>, <<"usage">>, <<"settle">>, <<"usage", "settle">>} :
          tasks' = tasks \o sent

\* Mutant of Leave: the client's leaving returns past the settlement.
ReturnAtOnce == "close"

\* Every end of the loop runs the deferred settle and then the deferred Close.
Leave == "settle"

\* Mutant of Tokens: a usage that is there is believed, zeros and all.
TrustsZeros == IF usage THEN (IF counted THEN "upstream" ELSE "free") ELSE "estimate"

\* resolveStreamTokens, through the pointer to the parser's usage.  The estimate
\* has one input token at least.
Tokens == IF usage /\ counted THEN "upstream" ELSE "estimate"

\* One event of the range loop of writeChatStream.  A write fails when the
\* client has left or the configured write timeout is over.
Handle ==
    /\ handler = "loop"
    /\ out # << >>
    /\ out' = Tail(out)
    /\ \/ /\ Head(out) = "delta"
          /\ \E written \in BOOLEAN :
                /\ delivered' = IF written THEN delivered + 1 ELSE delivered
                /\ handler' = IF written THEN "loop" ELSE Leave
          /\ UNCHANGED <<usage, finished>>
       \/ /\ Head(out) = "usage"
          /\ usage' = TRUE
          /\ UNCHANGED <<handler, delivered, finished>>
       \/ /\ Head(out) = "error"
          /\ handler' = Leave
          /\ UNCHANGED <<delivered, usage, finished>>
       \/ /\ Head(out) = "done"
          /\ finished' = TRUE
          /\ handler' = Leave
          /\ UNCHANGED <<delivered, usage>>
    /\ UNCHANGED <<script, body, reader, raw, parser, outbox, counted, clientVars,
                   meterVars>>

\* Mutant of Closed: the return without an event forgets the close.
ClosedByHand == parser = "gone" /\ raw # "mute"

\* The parser's deferred close of the channel.
Closed == parser = "gone"

\* The channel is closed and empty: the parser went without a last event.
HandleClosed ==
    /\ handler = "loop"
    /\ out = << >>
    /\ Closed
    /\ handler' = Leave
    /\ UNCHANGED <<pipeVars, clientVars, meterVars, delivered, usage, finished>>

\* The deferred settle, once.
Settle(metering) ==
    /\ handler = "settle"
    /\ handler' = "close"
    /\ IF metering THEN Emit(Tokens) ELSE UNCHANGED meterVars
    /\ UNCHANGED <<pipeVars, clientVars, delivered, usage, finished>>

\* The deferred Close; net/http cancels the context when the handler is back.
Close ==
    /\ handler = "close"
    /\ body' = "closed"
    /\ handler' = "gone"
    /\ cancelled' = TRUE
    /\ UNCHANGED <<script, reader, raw, parser, outbox, counted, out, client,
                   meterVars, delivered, usage, finished>>

\* tryStream has got a response: reader and parser start, the handler loops.
Open ==
    /\ body' = "open"
    /\ reader' = "scanning"
    /\ parser' = "select"
    /\ handler' = "loop"
    /\ UNCHANGED <<script, raw, outbox, counted, out, clientVars, meterVars,
                   delivered, usage, finished>>

-----------------------------------------------------------------------------
(***************************************************************************)
(* The client.                                                             *)
(***************************************************************************)
ClientLeaves ==
    /\ client = "here"
    /\ client' = "gone"
    /\ UNCHANGED <<pipeVars, cancelled, meterVars, handlerVars>>

\* The server notices that the connection is gone.
Cancel ==
    /\ client = "gone"
    /\ ~cancelled
    /\ cancelled' = TRUE
    /\ UNCHANGED <<pipeVars, client, meterVars, handlerVars>>

ReaderStep == (\E k \in Kinds : ReadEvent(k)) \/ ReadEOF \/ ReadError
ParserStep == Parse \/ ParseEOF \/ ParseCancelled \/ Put
HandlerStep(metering) == Handle \/ HandleClosed \/ Settle(metering) \/ Close

StreamTypeOK ==
    /\ script \in Seq(Kinds) /\ Len(script) <= MaxEvents
    /\ body \in {"none", "open", "closed"}
    /\ reader \in {"off", "scanning", "sending", "gone"}
    /\ raw \in Kinds \cup {"error"}
    /\ parser \in {"off", "select", "put", "last", "gone"}
    /\ outbox \in Seq(Events) /\ Len(outbox) <= 2
    /\ counted \in BOOLEAN
    /\ out \in Seq(Events) /\ Len(out) <= Buffer
    /\ handler \in {"off", "loop", "settle", "close", "gone"}
    /\ client \in {"here", "gone"}
    /\ cancelled \in BOOLEAN
    /\ delivered \in Nat
    /\ usage \in BOOLEAN
    /\ finished \in BOOLEAN
    /\ emits \in Nat
    /\ bill \in {"none", "upstream", "estimate", "free", "empty"}
    /\ tasks \in Seq({"usage", "settle"})
=============================================================================
