--------------------------- MODULE ProviderStream ---------------------------
(***************************************************************************)
(* One streamed model response: the request, the SSE drain goroutine, its   *)
(* idle watchdog, the bounded chunk channel and the four consumers (the     *)
(* turn loop, a subagent's loop, Send, and the compaction summarizer).      *)
(* An event of the wire is abstracted to what the drain does with it.       *)
(* Sources: src/kit/provider/streaming.go, src/kit/provider/errors.go,      *)
(* src/kit/provider/anthropic.go, src/kit/session/session.go,               *)
(* src/kit/session/subagent.go, src/kit/session/compaction.go.              *)
(***************************************************************************)
EXTENDS Naturals, Sequences, FiniteSets, SequencesExt

CONSTANTS
  Consumer,   \* the consumers to examine: "turn", "subagent", "send", "summary"
  Event,      \* the wire events the server may send
  Status,     \* HTTP statuses of a rejected request
  Buf,        \* capacity of the chunk channel
  MaxEvents   \* bound: events the server sends

StreamBufAssumption == Buf \in Nat \ {0}

ToolStart == {"tool1", "tool2"}

VARIABLES
  consumer,  \* who ranges over the channel
  ctx,       \* the request context: "live" or "done"
  sent,      \* events the server sent
  wire,      \* events sent and not read from the body
  body,      \* "none", "open", "eof", "failed" (transport), "closed" (by an abort)
  buf,       \* events read from the body and not parsed (bufio)
  quiet,     \* no data for the idle timeout
  cause,     \* sseBody.abortErr: "none", "idle", "cancelled"
  drain,     \* the drain goroutine: "off", "loop", "ended"
  todo,      \* sends the drain still makes before it loops or ends
  last,      \* the drain ends after those sends
  block,     \* the open content block: "none", "think" or a tool id
  emitted,   \* tool ids already flushed
  finish,    \* finishReason captured by the drain
  ending,    \* how the drain's read loop ended
  ch,        \* the chunk channel
  got        \* the consumer: result, finish reason, tool calls, text, error

vars == <<consumer, ctx, sent, wire, body, buf, quiet, cause, drain, todo, last, block,
          emitted, finish, ending, ch, got>>

Waiting == [result |-> "none", finish |-> "none", calls |-> <<>>, text |-> FALSE, error |-> "none"]

Init ==
  /\ consumer \in Consumer /\ ctx = "live"
  /\ sent = 0 /\ wire = <<>> /\ body = "none" /\ buf = <<>> /\ quiet = FALSE /\ cause = "none"
  /\ drain = "off" /\ todo = <<>> /\ last = FALSE /\ block = "none" /\ emitted = {}
  /\ finish = "none" /\ ending = "none" /\ ch = <<>> /\ got = Waiting

Server == <<sent, wire>>
Parser == <<block, emitted, finish>>

-----------------------------------------------------------------------------
(* Stream: the request is refused, rejected with a status, or opened.       *)

TransientStatus == {408, 425, 429, 500, 502, 503, 504}
StructuralStatus == {400, 401, 403, 404, 405, 411, 413, 422}

ClassifyHTTP(status) == IF status \in StructuralStatus \ TransientStatus THEN "Structural" ELSE "Transient"

StreamRefused ==
  /\ drain = "off" /\ got.result = "none"
  /\ drain' = "ended"
  /\ got' = [got EXCEPT !.result = "error"]
  /\ UNCHANGED <<consumer, ctx, body, buf, quiet, cause, todo, last, ending, ch>>
  /\ UNCHANGED Server /\ UNCHANGED Parser

StreamRejected(status) ==
  /\ drain = "off" /\ got.result = "none"
  /\ drain' = "ended" /\ ending' = "rejected"
  /\ ch' = <<[type |-> "error", value |-> ClassifyHTTP(status)]>>
  /\ UNCHANGED <<consumer, ctx, body, buf, quiet, cause, todo, last, got>>
  /\ UNCHANGED Server /\ UNCHANGED Parser

StreamOpens ==
  /\ drain = "off" /\ got.result = "none"
  /\ drain' = "loop" /\ body' = "open"
  /\ UNCHANGED <<consumer, ctx, buf, quiet, cause, todo, last, ending, ch, got>>
  /\ UNCHANGED Server /\ UNCHANGED Parser

-----------------------------------------------------------------------------
(* The server and the connection.                                           *)

ServerSends(e) ==
  /\ body = "open" /\ sent < MaxEvents
  /\ sent' = sent + 1 /\ wire' = Append(wire, e)
  /\ UNCHANGED <<consumer, ctx, body, buf, quiet, cause, drain, todo, last, ending, ch, got>>
  /\ UNCHANGED Parser

\* The body ends, after a whole response or in the middle of one, or the connection fails.
BodyEnds(how) ==
  /\ body = "open"
  /\ body' = how
  /\ UNCHANGED <<consumer, ctx, buf, quiet, cause, drain, todo, last, ending, ch, got>>
  /\ UNCHANGED Server /\ UNCHANGED Parser

-----------------------------------------------------------------------------
(* The watchdog, beside the drain until the drain ends.                     *)

IdleElapses ==
  /\ drain = "loop" /\ ~quiet
  /\ quiet' = TRUE
  /\ UNCHANGED <<consumer, ctx, body, buf, cause, drain, todo, last, ending, ch, got>>
  /\ UNCHANGED Server /\ UNCHANGED Parser

Abort(why) ==
  /\ cause = "none" /\ cause' = why
  /\ body' = "closed" /\ wire' = <<>>
  /\ UNCHANGED <<consumer, ctx, sent, buf, quiet, drain, todo, last, ending, ch, got>>
  /\ UNCHANGED Parser

\* Mutant: only the context ends a silent stream.
SseWatchdogDeaf == drain = "loop" /\ ctx = "done" /\ Abort("cancelled")

SseWatchdog ==
  /\ drain = "loop"
  /\ \/ ctx = "done" /\ Abort("cancelled")
     \/ quiet /\ Abort("idle")

-----------------------------------------------------------------------------
(* drainSSE.                                                                *)

Sending(type, value, how) == [type |-> type, value |-> value, how |-> how]

\* flushToolUse: one emission per provider id; flushThinking: the open block.
Flush ==
  IF block \in ToolStart \ emitted THEN <<Sending("tool_use", block, "flush")>>
  ELSE IF block = "think" THEN <<Sending("thinking", block, "flush")>>
  ELSE <<>>

Flushed == emitted' = emitted \union ({block} \intersect ToolStart)

\* Fills the reader's buffer from the body.
Read ==
  /\ drain = "loop" /\ todo = <<>> /\ ~last
  /\ buf = <<>> /\ wire # <<>> /\ body # "closed" /\ ctx = "live"
  /\ buf' = wire /\ wire' = <<>> /\ quiet' = FALSE
  /\ UNCHANGED <<consumer, ctx, sent, body, cause, drain, todo, last, ending, ch, got>>
  /\ UNCHANGED Parser

Done(reason) == Sending("done", IF reason = "none" THEN "end_turn" ELSE reason, "try")

SendAbortError == Sending("error", "Transient", "flush")

Finish(how, sends) ==
  /\ todo' = sends /\ last' = TRUE /\ ending' = how
  /\ UNCHANGED <<consumer, ctx, body, quiet, cause, drain, ch, got>>

\* The context is seen at the top of the loop, before the next line.
SeesCancel ==
  /\ drain = "loop" /\ todo = <<>> /\ ~last /\ ctx = "done"
  /\ Finish("cancelled", <<Done(finish)>>)
  /\ UNCHANGED buf /\ UNCHANGED Server /\ UNCHANGED Parser

ReadFails ==
  /\ drain = "loop" /\ todo = <<>> /\ ~last /\ buf = <<>>
  /\ \/ body = "eof" /\ wire = <<>>
        /\ Finish("eof", Flush \o <<Done(finish)>>) /\ Flushed
     \/ body \in {"closed", "failed"} /\ ctx = "done"
        /\ Finish("cancelled", <<Done(finish)>>) /\ UNCHANGED emitted
     \/ body \in {"closed", "failed"} /\ ctx = "live"
        /\ Finish("aborted", Flush \o <<SendAbortError>>) /\ Flushed
  /\ block' = "none"
  /\ UNCHANGED <<buf, finish>> /\ UNCHANGED Server

\* One parsed event.
Parse ==
  /\ drain = "loop" /\ todo = <<>> /\ ~last /\ ctx = "live" /\ buf # <<>>
  /\ buf' = Tail(buf)
  /\ LET e == Head(buf) IN
     IF e = "[DONE]"
     THEN Finish("[DONE]", Flush \o <<Done(finish)>>) /\ Flushed /\ block' = "none" /\ UNCHANGED finish
     ELSE /\ todo' = CASE e \in ToolStart -> IF block \in ToolStart THEN Flush ELSE <<>>
                       [] e = "think" -> IF block = "think" THEN Flush ELSE <<>>
                       [] e = "stop" -> Flush
                       [] e = "text" -> <<Sending("text", "text", "emit")>>
                       [] OTHER -> <<>>
          /\ block' = CASE e \in ToolStart \union {"think"} -> e [] e = "stop" -> "none" [] OTHER -> block
          /\ IF e \in ToolStart \union {"stop"} THEN Flushed ELSE UNCHANGED emitted
          /\ finish' = IF e = "max_tokens" THEN e ELSE finish
          /\ UNCHANGED <<consumer, ctx, body, quiet, cause, drain, last, ending, ch, got>>
  /\ UNCHANGED Server

\* The next send: "try" never waits, the others wait for room or for the context; an
\* event chunk given up to the context ends the drain.
Send ==
  /\ drain = "loop" /\ todo # <<>>
  /\ LET s == Head(todo) IN
     \/ /\ Len(ch) < Buf
        /\ ch' = Append(ch, [type |-> s.type, value |-> s.value])
        /\ todo' = Tail(todo) /\ UNCHANGED <<last, ending>>
     \/ /\ s.how = "try" /\ Len(ch) = Buf
        /\ todo' = Tail(todo) /\ UNCHANGED <<ch, last, ending>>
     \/ /\ s.how = "flush" /\ ctx = "done"
        /\ todo' = Tail(todo) /\ UNCHANGED <<ch, last, ending>>
     \/ /\ s.how = "emit" /\ ctx = "done"
        /\ todo' = <<Done(finish)>> /\ last' = TRUE /\ ending' = "cancelled" /\ UNCHANGED ch
  /\ UNCHANGED <<consumer, ctx, body, buf, quiet, cause, drain, got>>
  /\ UNCHANGED Server /\ UNCHANGED Parser

\* The channel is closed, the watchdog is stopped and the body closed.
DrainEnds ==
  /\ drain = "loop" /\ last /\ todo = <<>>
  /\ drain' = "ended" /\ body' = "closed"
  /\ UNCHANGED <<consumer, ctx, buf, quiet, cause, todo, last, ending, ch, got>>
  /\ UNCHANGED Server /\ UNCHANGED Parser

-----------------------------------------------------------------------------
(* The consumers.                                                           *)

Cancel ==
  /\ ctx = "live" /\ got.result = "none"
  /\ ctx' = "done"
  /\ UNCHANGED <<consumer, body, buf, quiet, cause, drain, todo, last, ending, ch, got>>
  /\ UNCHANGED Server /\ UNCHANGED Parser

Taken(c) ==
  CASE c.type = "text" -> [got EXCEPT !.text = TRUE]
    [] c.type = "tool_use" -> [got EXCEPT !.calls = Append(@, c.value)]
    [] c.type = "done" -> [got EXCEPT !.finish = c.value]
    [] c.type = "error" -> IF consumer = "send" THEN [got EXCEPT !.error = c.value]
                           ELSE [got EXCEPT !.error = c.value, !.result = "error"]
    [] OTHER -> got

\* Everyone but Send looks at the context before it takes a chunk's content.
Consume ==
  /\ got.result = "none" /\ ch # <<>>
  /\ ch' = Tail(ch)
  /\ got' = IF ctx = "done" /\ consumer # "send" THEN [got EXCEPT !.result = "cancelled"] ELSE Taken(Head(ch))
  /\ UNCHANGED <<consumer, ctx, body, buf, quiet, cause, drain, todo, last, ending>>
  /\ UNCHANGED Server /\ UNCHANGED Parser

\* The channel is closed and empty: only the turn and the summarizer look again.
Outcome ==
  CASE consumer = "send" -> IF got.error # "none" THEN "error" ELSE "ok"
    [] consumer = "subagent" -> "ok"
    [] ctx = "done" -> "cancelled"
    [] consumer = "summary" /\ ~got.text -> "error"
    [] OTHER -> "ok"

ChannelClosed ==
  /\ got.result = "none" /\ ch = <<>> /\ drain = "ended"
  /\ got' = [got EXCEPT !.result = Outcome, !.finish = IF @ = "none" THEN "end_turn" ELSE @]
  /\ UNCHANGED <<consumer, ctx, body, buf, quiet, cause, drain, todo, last, ending, ch>>
  /\ UNCHANGED Server /\ UNCHANGED Parser

-----------------------------------------------------------------------------
DrainStep == Read \/ SeesCancel \/ ReadFails \/ Parse \/ Send \/ DrainEnds
ConsumerStep == Consume \/ ChannelClosed

Next ==
  \/ StreamRefused \/ StreamOpens \/ \E s \in Status : StreamRejected(s)
  \/ \E e \in Event : ServerSends(e)
  \/ \E how \in {"eof", "failed"} : BodyEnds(how)
  \/ IdleElapses \/ SseWatchdog \/ DrainStep \/ Cancel \/ ConsumerStep

Spec == Init /\ [][Next]_vars

\* The two goroutines and the consumer run on, and the ticker ticks; the server owes
\* nothing.
Fairness == WF_vars(DrainStep) /\ WF_vars(ConsumerStep) /\ WF_vars(IdleElapses) /\ WF_vars(SseWatchdog)
FairSpec == Spec /\ Fairness

-----------------------------------------------------------------------------
(* Properties.                                                              *)

TypeOK ==
  /\ consumer \in Consumer /\ ctx \in {"live", "done"} /\ sent \in 0..MaxEvents
  /\ body \in {"none", "open", "eof", "failed", "closed"} /\ cause \in {"none", "idle", "cancelled"}
  /\ drain \in {"off", "loop", "ended"} /\ block \in ToolStart \union {"none", "think"}
  /\ emitted \subseteq ToolStart /\ Len(ch) <= Buf
  /\ got.result \in {"none", "ok", "error", "cancelled"}

(* An aborted stream (idle watchdog, transport failure) never passes for a     *)
(* complete response in the turn loop, however full the channel is and whenever *)
(* the context ends.                                                           *)
AbortIsLoud == consumer = "turn" /\ got.result = "ok" => ending \in {"eof", "[DONE]"}

(* A provider that replays a tool block gets its call run once: no consumer    *)
(* ever holds one id twice.                                                    *)
CallOnce == IsInjective(got.calls)

(* A stream that was opened ends and so does its consumer, also when the server *)
(* goes silent in the middle of it and nobody cancels.                         *)
StreamEnds == (drain = "loop") ~> (drain = "ended" /\ got.result # "none")

(* What streaming.go:330-333 says: at the end of the stream the terminal chunk *)
(* with the captured finish reason is sent.                                    *)
(* Refuted: the terminal chunk is dropped when the stream ends with its        *)
(* channel full.                                                               *)
FinishReasonKept ==
  consumer = "turn" /\ got.result = "ok" => got.finish = (IF finish = "none" THEN "end_turn" ELSE finish)

(* What subagent.go:292-293 says: a subagent's partial response must not       *)
(* masquerade as complete.                                                     *)
(* Refuted: a cancelled stream closes its channel without the error chunk,     *)
(* and the subagent takes that for the end.                                    *)
PartialNeverComplete == consumer = "subagent" /\ got.result = "ok" => ending \in {"eof", "[DONE]"}

(* What streaming.go:167-169 says: a slow consumer is fine, only the server's   *)
(* silence ends the stream.                                                    *)
(* Refuted: the idle clock also runs while the drain waits for the consumer.   *)
SlowConsumerIsFine == [][cause' = "idle" /\ cause = "none" => todo = <<>> \/ Len(ch) < Buf]_vars
=============================================================================
