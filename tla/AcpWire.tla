------------------------------ MODULE AcpWire ------------------------------
(***************************************************************************)
(* What the client sees on the wire around a restart: the frames a live    *)
(* turn showed, the transcript it left, and the replay of that transcript  *)
(* by session/load (internal/acp/replay.go), inside the dispatch of        *)
(* concurrent requests with their post-response slots                      *)
(* (internal/acp/server.go Serve, handleRequest, recoverDispatch).         *)
(*                                                                         *)
(* The first phase writes a transcript the way a turn does: the session    *)
(* appends its own lines, the transcript writer appends a streamed chunk   *)
(* some time after it was shown. Then the process dies, perhaps inside its *)
(* last append, and a new one serves requests.                             *)
(***************************************************************************)
EXTENDS Integers, Sequences, SequencesExt, FiniteSets

CONSTANTS
  Call,          \* tool call ids
  Request,       \* requests of the second process
  MaxLines       \* bound on transcript lines

WireAssumption == MaxLines \in Nat

Method == {"session/new", "session/load", "unknown"}

VARIABLES
  phase,         \* "live" or "serving"
  live,          \* frames the client saw during the live turn
  message,       \* pieces of the assistant message under way
  busq,          \* chunks published and not yet appended by the writer
  log,           \* the transcript's lines
  req,           \* [Request -> method, place, cursor, error, slot]
  wire           \* frames and responses the second process wrote, in order

vars == <<phase, live, message, busq, log, req, wire>>

NoId == "none"
Line(type, id, text) == [type |-> type, id |-> id, text |-> text]
Chunk(text) == [kind |-> "chunk", id |-> NoId, text |-> text]
Card(kind, id) == [kind |-> kind, id |-> id, text |-> <<>>]

Init ==
  /\ phase = "live"
  /\ live = <<>> /\ message = <<>> /\ busq = <<>> /\ log = <<>>
  /\ req = [r \in Request |-> [method |-> "none", pc |-> "none", cursor |-> 0,
                                err |-> FALSE, slot |-> FALSE]]
  /\ wire = <<>>

-----------------------------------------------------------------------------
(* The live turn.                                                          *)
Room == Len(log) + Len(busq) < MaxLines

(* A streamed piece: shown at once, queued for the transcript writer.      *)
LiveChunk ==
  /\ phase = "live" /\ Room /\ Len(message) < 2
  /\ LET piece == Len(message) + 1
     IN /\ live' = Append(live, Chunk(<<piece>>))
        /\ message' = Append(message, piece)
        /\ busq' = Append(busq, <<piece>>)
  /\ UNCHANGED <<phase, log, req, wire>>

(* TranscriptWriter.Run appends the chunk's line.                          *)
WriterAppends ==
  /\ phase = "live" /\ busq # <<>>
  /\ log' = Append(log, Line("agent_message_chunk", NoId, Head(busq)))
  /\ busq' = Tail(busq)
  /\ UNCHANGED <<phase, live, message, req, wire>>

(* The session's own line at the end of the message: the assembled text.   *)
AssistantMessage ==
  /\ phase = "live" /\ Room /\ message # <<>>
  /\ log' = Append(log, Line("assistant_message", NoId, message))
  /\ message' = <<>>
  /\ UNCHANGED <<phase, live, busq, req, wire>>

(* A tool's card, its end, an error with or without a call, a bookkeeping  *)
(* line, and a line longer than the reader's buffer.                       *)
SessionLine(type, id) ==
  /\ phase = "live" /\ Room
  /\ log' = Append(log, Line(type, id, <<>>))
  /\ live' = CASE type = "tool_call" -> Append(live, Card("tool_call", id))
               [] type \in {"tool_result", "error"} /\ id # NoId ->
                    Append(live, Card("tool_call_update", id))
               [] type = "error" /\ id = NoId -> Append(live, Chunk(<<>>))
               [] OTHER -> live
  /\ UNCHANGED <<phase, message, busq, req, wire>>

(* The process dies: what was only queued is gone, the last line may be    *)
(* torn. A new process starts.                                             *)
Restart ==
  /\ phase = "live"
  /\ phase' = "serving"
  /\ log' \in {log} \cup (IF log = <<>> THEN {} ELSE
                          {Append(Front(log), Line("torn", NoId, <<>>))})
  /\ busq' = <<>> /\ message' = <<>>
  /\ UNCHANGED <<live, req, wire>>

-----------------------------------------------------------------------------
(* The dispatch of one request: a goroutine with a recover around it.      *)
To(r, pc) == req' = [req EXCEPT ![r].pc = pc]
Respond(r, ok) ==
  wire' = Append(wire, [kind |-> IF ok THEN "result" ELSE "error", id |-> <<r, NoId>>, text |-> <<>>])
Addressed(r, frame) == [kind |-> frame.kind, id |-> <<r, frame.id>>, text |-> frame.text]
Update(r, frame) == wire' = Append(wire, Addressed(r, frame))
CommandsUpdate == [kind |-> "commands", id |-> NoId, text |-> <<>>]

Dispatch(r, m) ==
  /\ phase = "serving" /\ req[r].pc = "none"
  /\ req' = [req EXCEPT ![r].method = m, ![r].pc = "handler"]
  /\ UNCHANGED <<phase, live, message, busq, log, wire>>

(* handleRequest finds no handler.                                         *)
MethodNotFound(r) ==
  /\ req[r].pc = "handler" /\ req[r].method = "unknown"
  /\ req' = [req EXCEPT ![r].pc = "respond", ![r].err = TRUE]
  /\ UNCHANGED <<phase, live, message, busq, log, wire>>

(* session/new leaves its advertisement in the request's slot.             *)
HandleSessionNew(r) ==
  /\ req[r].pc = "handler" /\ req[r].method = "session/new"
  /\ req' = [req EXCEPT ![r].pc = "respond", ![r].slot = TRUE]
  /\ UNCHANGED <<phase, live, message, busq, log, wire>>

(* session/load: a missing or irregular transcript fails before any frame. *)
ReplayOpen(r) ==
  /\ req[r].pc = "handler" /\ req[r].method = "session/load"
  /\ \/ req' = [req EXCEPT ![r].pc = "replay", ![r].cursor = 1]
     \/ req' = [req EXCEPT ![r].pc = "respond", ![r].err = TRUE]
  /\ UNCHANGED <<phase, live, message, busq, log, wire>>

(* The frame of one line; a line that does not parse, a bookkeeping kind   *)
(* and an unknown kind have none.                                          *)
Framed(l) == l.type \in {"agent_message_chunk", "assistant_message", "tool_call", "tool_result", "error"}
ReplayLineFrame(l) ==
  CASE l.type = "tool_call" -> Card("tool_call", l.id)
    [] l.type = "tool_result" \/ (l.type = "error" /\ l.id # NoId) -> Card("tool_call_update", l.id)
    [] OTHER -> Chunk(l.text)

\* Mutant: a scan that stopped early is taken for the end of the file.
ScanFailsNever(l) == FALSE

(* The scanner gives up at a line longer than its buffer.                  *)
ScanFails(l) == l.type = "oversized"

ReplayStep(r) ==
  /\ req[r].pc = "replay" /\ req[r].cursor <= Len(log)
  /\ LET l == log[req[r].cursor]
     IN IF l.type = "oversized"
          THEN /\ req' = [req EXCEPT ![r].pc = IF ScanFails(l) THEN "respond" ELSE "advertise",
                                     ![r].err = ScanFails(l)]
               /\ UNCHANGED wire
          ELSE /\ req' = [req EXCEPT ![r].cursor = @ + 1]
               /\ IF Framed(l) THEN Update(r, ReplayLineFrame(l)) ELSE UNCHANGED wire
  /\ UNCHANGED <<phase, live, message, busq, log>>

ReplayEnds(r) ==
  /\ req[r].pc = "replay" /\ req[r].cursor > Len(log)
  /\ To(r, "advertise")
  /\ UNCHANGED <<phase, live, message, busq, log, wire>>

(* The commands ride after the last replayed frame; then the barrier, so   *)
(* the response follows them all.                                          *)
LoadAdvertise(r) ==
  /\ req[r].pc = "advertise"
  /\ Update(r, CommandsUpdate)
  /\ To(r, "respond")
  /\ UNCHANGED <<phase, live, message, busq, log>>

(* External: a handler panics before it produced anything.                 *)
HandlerPanics(r) ==
  /\ req[r].pc = "handler"
  /\ To(r, "panic")
  /\ UNCHANGED <<phase, live, message, busq, log, wire>>

(* recoverDispatch answers with an internal error.                         *)
RecoverDispatch(r) ==
  /\ req[r].pc = "panic"
  /\ Respond(r, FALSE)
  /\ To(r, "done")
  /\ UNCHANGED <<phase, live, message, busq, log>>

WriteResponse(r) ==
  /\ req[r].pc = "respond"
  /\ Respond(r, ~req[r].err)
  /\ To(r, "slot")
  /\ UNCHANGED <<phase, live, message, busq, log>>

(* The deferred postResponseSlot.run.                                      *)
SlotRun(r) ==
  /\ req[r].pc = "slot"
  /\ IF req[r].slot THEN Update(r, CommandsUpdate) ELSE UNCHANGED wire
  /\ req' = [req EXCEPT ![r].pc = "done", ![r].slot = FALSE]
  /\ UNCHANGED <<phase, live, message, busq, log>>

LiveNext ==
  \/ LiveChunk \/ WriterAppends \/ AssistantMessage \/ Restart
  \/ \E type \in {"tool_call", "tool_result"}, c \in Call : SessionLine(type, c)
  \/ \E c \in Call \cup {NoId} : SessionLine("error", c)
  \/ \E type \in {"boundary", "oversized"} : SessionLine(type, NoId)

Serving(r) ==
  \/ MethodNotFound(r) \/ HandleSessionNew(r) \/ ReplayOpen(r) \/ ReplayStep(r)
  \/ ReplayEnds(r) \/ LoadAdvertise(r) \/ RecoverDispatch(r) \/ WriteResponse(r) \/ SlotRun(r)

Next ==
  \/ LiveNext
  \/ \E r \in Request, m \in Method : Dispatch(r, m)
  \/ \E r \in Request : HandlerPanics(r) \/ Serving(r)

Spec == Init /\ [][Next]_vars

(* Every handler goroutine that can move does.                             *)
FairSpec == Spec /\ \A r \in Request : WF_vars(Serving(r))

-----------------------------------------------------------------------------
Answer == {"result", "error"}
SentAt(r) == {i \in DOMAIN wire : wire[i].kind \notin Answer /\ wire[i].id[1] = r}
AnswersAt(r) == {i \in DOMAIN wire : wire[i].kind \in Answer /\ wire[i].id[1] = r}
Loaded(r) == req[r].method = "session/load" /\ \E i \in AnswersAt(r) : wire[i].kind = "result"

Lines == [type : {"agent_message_chunk", "assistant_message", "tool_call", "tool_result", "error",
                  "boundary", "oversized", "torn"},
          id : Call \cup {NoId}, text : Seq(Nat)]
Shown == {"chunk", "tool_call", "tool_call_update"}
Requests == [method : Method \cup {"none"},
             pc : {"none", "handler", "replay", "advertise", "respond", "panic", "slot", "done"},
             cursor : 0..(MaxLines + 1), err : BOOLEAN, slot : BOOLEAN]

TypeOK ==
  /\ phase \in {"live", "serving"}
  /\ live \in Seq([kind : Shown, id : Call \cup {NoId}, text : Seq(Nat)])
  /\ message \in Seq(Nat) /\ busq \in Seq(Seq(Nat))
  /\ log \in Seq(Lines) /\ Len(log) + Len(busq) <= MaxLines
  /\ req \in [Request -> Requests]
  /\ wire \in Seq([kind : Shown \cup Answer \cup {"commands"}, id : Request \X (Call \cup {NoId}),
                    text : Seq(Nat)])

(* A client registers a session when it reads session/new's response and   *)
(* drops what came before (server.go, the comment of handleRequest): no    *)
(* frame of that session precedes the response, whatever the other         *)
(* requests write meanwhile.                                               *)
ResponseBeforeUpdates ==
  \A r \in Request : req[r].method = "session/new" =>
    \A i \in SentAt(r) : \E j \in AnswersAt(r) : j < i

(* A load that reports success has shown every line of the transcript, in  *)
(* order, and nothing else: "a half-replayed session must not register as  *)
(* loaded" (replay.go), also when the reader gave up inside the file.      *)
LoadedMeansComplete ==
  \A r \in Request : Loaded(r) =>
    LET shown == {k \in DOMAIN log : Framed(log[k])} IN
    \E at \in [shown -> SentAt(r)], last \in SentAt(r) :
      /\ \A j, k \in shown : j < k => at[j] < at[k]
      /\ \A k \in shown : at[k] < last /\ wire[at[k]] = Addressed(r, ReplayLineFrame(log[k]))
      /\ wire[last] = Addressed(r, CommandsUpdate)
      /\ SentAt(r) = {at[k] : k \in shown} \cup {last}

(* Every request is answered, also one whose handler panicked.             *)
EveryRequestAnswered ==
  \A r \in Request : (req[r].pc = "handler") ~> (AnswersAt(r) # {})

Texts(frames) ==
  FlattenSeq([i \in 1..Len(frames) |-> IF frames[i].kind = "chunk" THEN frames[i].text ELSE <<>>])

(* The head of replay.go: "a restored conversation is pixel-identical in   *)
(* shape to a live one". The transcript holds a message twice, as the      *)
(* chunks that were streamed and as the assembled line, and each is shown. *)
(* Refuted.                                                                *)
RestoredShowsOnce ==
  \A r \in Request :
    Loaded(r) => Len(Texts(SelectSeq(wire, LAMBDA f : f.kind \notin Answer /\ f.id[1] = r)))
                   <= Len(Texts(live))
=============================================================================
