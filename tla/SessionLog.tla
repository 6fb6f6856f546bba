----------------------------- MODULE SessionLog -----------------------------
(* The transcript of one session over crashes and resumes: the lines a     *)
(* turn writes and their order (session.go, subagent.go, compaction.go),   *)
(* what a crash leaves on disk (manager.go), and what a resume appends     *)
(* before the session takes prompts again (reconcile.go, ResumeSession).   *)
(* Every handler hands its lines to todo, and they reach the file one      *)
(* write at a time, so that a crash falls between any two of them.         *)
EXTENDS Projector

CONSTANTS
  Call,        \* tool call ids the provider makes up
  SubCall,     \* a subagent's call ids: the tool names
  MaxTurn, MaxLines, MaxCrash

LogAssumption == IsFiniteSet(Call) /\ NoCall \notin Call \cup SubCall /\ MaxTurn \in Nat

VARIABLES
  file,     \* the lines on disk
  tail,     \* whether the last line ends in a newline: "ended", "partial", "bare"
  todo,     \* lines a handler is about to write
  step,     \* "down", "loading", "idle", "request", "tools"
  turn,     \* the running turn
  counter,  \* turnCounter
  open,     \* calls of the batch being executed
  asked,    \* suspended calls
  sub,      \* the running subagent: [call, turn], or NoSub
  armed,    \* retryCompactedTurn
  attempt,  \* compactionAttemptTurn
  retried,  \* overflowRetried of the running runTurn
  crashes,
  clean     \* whether the load in progress found a terminated last line

vars == <<file, tail, todo, step, turn, counter, open, asked, sub, armed,
          attempt, retried, crashes, clean>>
turnState == <<turn, counter, open, asked, sub, armed, attempt, retried>>

NoSub == [call |-> NoCall, turn |-> NoTurn]

Init ==
  /\ file = <<>> /\ tail = "ended" /\ todo = <<>>
  /\ step = "loading"
  /\ turn = 0 /\ counter = 0 /\ open = {} /\ asked = {} /\ sub = NoSub
  /\ armed = 0 /\ attempt = 0 /\ retried = FALSE
  /\ crashes = 0 /\ clean = TRUE

(***************************************************************************)
(* reconcile.go.                                                           *)
(***************************************************************************)
Lines == Readable(file)
OfCall(lines, kinds, c) == {i \in OfKind(lines, kinds) : lines[i].id = c}
Has(lines, n, kinds) == OfTurn(lines, kinds, n) # {}
Terminal == {"assistant", "canceled", "error", "end", "ask", "subresult"}

(* The last of the lines that open a key, when no line that closes it follows. *)
Unclosed(openers, closers) ==
  LET o == Last0(openers) IN IF o # 0 /\ \A i \in closers : i < o THEN {o} ELSE {}

Ids(lines) == {lines[i].id : i \in DOMAIN lines} \ {NoCall}
Turns(lines) == {lines[i].turn : i \in DOMAIN lines} \ {NoTurn}

OpenCall(lines, c) == Unclosed(OfCall(lines, {"call"}, c), OfCall(lines, {"result", "ask"}, c))
OpenAsk(lines, c) == Unclosed(OfCall(lines, {"ask"}, c), OfCall(lines, {"result"}, c))
OpenSub(lines, n) == Unclosed(OfTurn(lines, {"dispatch"}, n), OfTurn(lines, {"subresult"}, n))

OpenToolCalls(lines) == UNION {OpenCall(lines, c) : c \in Ids(lines)}
OpenAsks(lines) == UNION {OpenAsk(lines, c) : c \in Ids(lines)}
OpenDispatch(lines) == UNION {OpenSub(lines, n) : n \in Turns(lines)}

FirstOf(lines, n, kind) == Min(OfTurn(lines, {kind}, n))
OpenTurns(lines) == {n \in Turns(lines) : Has(lines, n, {"user"}) /\ ~Has(lines, n, Terminal)}
OpenStreams(lines) == {n \in Turns(lines) : Has(lines, n, {"chunk"}) /\ ~Has(lines, n, Terminal)}
SessionEnded(lines) == \E i \in DOMAIN lines : lines[i].kind = "end"

Openers(lines) ==
  OpenToolCalls(lines) \cup OpenAsks(lines) \cup OpenDispatch(lines)
    \cup {FirstOf(lines, n, "user") : n \in OpenTurns(lines)}
    \cup {FirstOf(lines, n, "chunk") : n \in OpenStreams(lines)}

(* The line that settles an opener. *)
Closing(l) ==
  CASE l.kind \in {"call", "ask"} -> Line("result", l.turn, l.id)
    [] l.kind = "dispatch" -> Line("subresult", l.turn, NoCall)
    [] l.kind = "user" -> Line("canceled", l.turn, NoCall)
    [] OTHER -> Line("assistant", l.turn, NoCall)

Closures(lines) ==
  Pick([i \in DOMAIN lines |-> Closing(lines[i])], Openers(lines))
    \o (IF SessionEnded(lines) THEN <<>> ELSE <<Line("end", NoTurn, NoCall)>>)

(* MaxTurnCounter: the highest turn any readable line names. *)
\* Mutant: only prompts are counted.
MaxTurnCounterByUser(lines) == Last0({lines[i].turn : i \in OfKind(lines, {"user"})})
MaxTurnCounter(lines) == Last0({lines[i].turn : i \in DOMAIN lines})

(***************************************************************************)
(* appendLine: one O_APPEND write.  Bytes written after a line without a   *)
(* newline become part of that line, which no longer parses.               *)
(***************************************************************************)
Torn == Line("torn", NoTurn, NoCall)

Write ==
  /\ todo # <<>>
  /\ Len(file) < MaxLines
  /\ todo' = Tail(todo)
  /\ file' = IF tail = "ended" THEN Append(file, Head(todo))
             ELSE SubSeq(file, 1, Len(file) - 1) \o <<Torn>>
  /\ tail' = "ended"
  /\ UNCHANGED <<step, turnState, crashes, clean>>

Room == todo = <<>> /\ Len(file) < MaxLines
Emit(ls) == todo' = ls /\ UNCHANGED <<file, tail, crashes, clean>>
Own(k) == Line(k, turn, NoCall)

(***************************************************************************)
(* The turn loop.                                                          *)
(***************************************************************************)
SessionPrompt ==
  /\ Room /\ step = "idle" /\ counter < MaxTurn
  /\ counter' = counter + 1 /\ turn' = counter + 1
  /\ step' = "request" /\ open' = {} /\ retried' = FALSE
  /\ Emit(<<Line("user", counter + 1, NoCall)>>)
  /\ UNCHANGED <<asked, sub, armed, attempt>>

(* Lines written before the request of an iteration or while it streams. *)
Steered ==
  /\ Room /\ step = "request" /\ ~Has(Lines, turn, {"steering"})
  /\ Emit(<<Own("steering")>>) /\ UNCHANGED <<step, turnState>>
Streamed ==
  /\ Room /\ step = "request" /\ ~Has(Lines, turn, {"chunk"})
  /\ Emit(<<Own("chunk")>>) /\ UNCHANGED <<step, turnState>>

(* compact: the summarizer answers in time and its marker is appended, or  *)
(* the turn goes on without one.                                           *)
Compacted == {<<Own("compaction")>>, <<>>}

(* maybeCompact, over the threshold: one attempt per turn. *)
MaybeCompact ==
  /\ Room /\ step = "request" /\ attempt # turn
  /\ attempt' = turn
  /\ \E ls \in Compacted : Emit(ls)
  /\ UNCHANGED <<step, turn, counter, open, asked, sub, armed, retried>>

OverflowRetry ==
  /\ Room /\ step = "request" /\ ~retried
  /\ retried' = TRUE /\ attempt' = turn /\ armed' = turn
  /\ \E ls \in Compacted : Emit(ls)
  /\ UNCHANGED <<step, turn, counter, open, asked, sub>>

(* The response is a batch; the gate decides which calls it suspends.  The *)
(* ids are the provider's, and new.                                        *)
Fresh == Call \ {file[i].id : i \in DOMAIN file}
Batch(cs) == [k \in DOMAIN cs |-> Line("call", turn, cs[k])]

Respond(cs, suspended) ==
  /\ Room /\ step = "request"
  /\ step' = "tools"
  /\ open' = ToSet(cs) \ suspended
  /\ asked' = asked \cup suspended
  /\ \E think \in {<<>>, <<Own("thinking")>>} : Emit(think \o Batch(cs))
  /\ UNCHANGED <<turn, counter, sub, armed, attempt, retried>>

(* MaybeAppendBoundary: a mutating tool's result is followed by a boundary. *)
AfterResult == {<<>>, <<Own("boundary")>>}

Result(c) ==
  /\ Room /\ step = "tools" /\ c \in open /\ sub = NoSub
  /\ open' = open \ {c}
  /\ \E after \in AfterResult : Emit(<<Line("result", turn, c)>> \o after)
  /\ UNCHANGED <<step, turn, counter, asked, sub, armed, attempt, retried>>

(* DispatchSubagent, inline in the batch: the subagent writes under a turn *)
(* id of its own, and its call ids are its tool names.                     *)
Dispatch(c) ==
  /\ Room /\ step = "tools" /\ c \in open /\ sub = NoSub /\ counter < MaxTurn
  /\ counter' = counter + 1
  /\ sub' = [call |-> c, turn |-> counter + 1]
  /\ Emit(<<Line("dispatch", counter + 1, NoCall), Line("user", counter + 1, NoCall)>>)
  /\ UNCHANGED <<step, turn, open, asked, armed, attempt, retried>>

SubTool(c) ==
  /\ Room /\ step = "tools" /\ sub # NoSub
  /\ Emit(<<Line("call", sub.turn, c), Line("result", sub.turn, c)>>)
  /\ UNCHANGED <<step, turnState>>

SubEnds ==
  /\ Room /\ step = "tools" /\ sub # NoSub
  /\ open' = open \ {sub.call} /\ sub' = NoSub
  /\ Emit(<<Line("subresult", sub.turn, NoCall), Line("result", turn, sub.call)>>)
  /\ UNCHANGED <<step, turn, counter, asked, armed, attempt, retried>>

(* Calls of the batch that are suspended and not yet recorded as such.     *)
(* They are recorded in batch order, which is the order of their lines.    *)
Unrecorded == {c \in asked : ~\E i \in DOMAIN file : file[i].kind = "ask" /\ file[i].id = c}
CallsOf(cs) == {i \in DOMAIN file : file[i].kind = "call" /\ file[i].id \in cs}

BatchDone ==
  /\ Room /\ step = "tools" /\ open = {}
  /\ step' = IF Unrecorded = {} THEN "request" ELSE "idle"
  /\ Emit(Pick([i \in DOMAIN file |-> Line("ask", turn, file[i].id)], CallsOf(Unrecorded)))
  /\ UNCHANGED turnState

(* A dialog is answered: its result joins the transcript under the turn    *)
(* that asked, and that turn runs on, whatever else is still suspended.    *)
ResumeAsk(c) ==
  /\ Room /\ step = "idle" /\ c \in asked
  /\ LET n == file[Max({i \in DOMAIN file : file[i].kind = "call" /\ file[i].id = c})].turn
     IN  turn' = n /\ Emit(<<Line("result", n, c)>>)
  /\ asked' = asked \ {c} /\ step' = "request" /\ retried' = FALSE
  /\ UNCHANGED <<counter, open, sub, armed, attempt>>

(* The turn ends: an answer, a cancellation or an error. *)
TurnEnds(k) ==
  /\ Room /\ step = "request"
  /\ step' = "idle"
  /\ Emit(<<Own(k)>>)
  /\ UNCHANGED turnState

(* /clear: a context-reset boundary under a minted turn id. *)
Clear ==
  /\ Room /\ step = "idle" /\ counter < MaxTurn /\ file # <<>>
  /\ counter' = counter + 1
  /\ Emit(<<Line("reset", counter + 1, NoCall)>>)
  /\ UNCHANGED <<step, turn, open, asked, sub, armed, attempt, retried>>

(***************************************************************************)
(* The process dies; a write in progress may be cut short, also exactly    *)
(* before its newline.                                                     *)
(***************************************************************************)
Crash ==
  /\ step # "down" /\ crashes < MaxCrash
  /\ crashes' = crashes + 1
  /\ \/ UNCHANGED <<file, tail>>
     \/ /\ todo # <<>> /\ tail = "ended" /\ Len(file) < MaxLines
        /\ \/ file' = Append(file, Torn) /\ tail' = "partial"
           \/ file' = Append(file, Head(todo)) /\ tail' = "bare"
  /\ step' = "down" /\ todo' = <<>> /\ turn' = 0 /\ counter' = 0
  /\ open' = {} /\ asked' = {} /\ sub' = NoSub
  /\ armed' = 0 /\ attempt' = 0 /\ retried' = FALSE
  /\ UNCHANGED clean

(* ResumeSession reads the transcript once, then appends and seeds. *)
Load ==
  /\ step = "down"
  /\ step' = "loading"
  /\ todo' = Closures(Lines)
  /\ counter' = MaxTurnCounter(Lines)
  /\ clean' = (tail = "ended")
  /\ UNCHANGED <<file, tail, turn, open, asked, sub, armed, attempt, retried, crashes>>

Loaded ==
  /\ step = "loading" /\ todo = <<>>
  /\ step' = "idle"
  /\ UNCHANGED <<file, tail, todo, turnState, crashes, clean>>

Batches == {cs \in UNION {[1 .. k -> Fresh] : k \in 1 .. 2} : IsInjective(cs)}

Next ==
  \/ Write
  \/ SessionPrompt \/ Steered \/ Streamed \/ MaybeCompact \/ OverflowRetry
  \/ \E cs \in Batches : \E s \in SUBSET ToSet(cs) : Respond(cs, s)
  \/ \E c \in Call : Result(c) \/ Dispatch(c) \/ ResumeAsk(c)
  \/ \E c \in SubCall : SubTool(c)
  \/ SubEnds \/ BatchDone
  \/ \E k \in {"assistant", "canceled", "error"} : TurnEnds(k)
  \/ Clear \/ Crash \/ Load \/ Loaded

Spec == Init /\ [][Next]_vars

(* The transcript holds lines the projector knows, of turns begun so far    *)
(* in this process or an earlier one (transcript.go Line).                 *)
TypeOK ==
  /\ \A i \in DOMAIN file : /\ file[i].kind \in Kind /\ file[i].turn \in 0..MaxTurn
                             /\ file[i].id \in Call \cup SubCall \cup {NoCall}
  /\ tail \in {"ended", "partial", "bare"}
  /\ step \in {"down", "loading", "idle", "request", "tools"}
  /\ {turn, counter, armed, attempt} \subseteq 0..MaxTurn
  /\ open \cup asked \subseteq Call

(***************************************************************************)
(* Properties.                                                             *)
(***************************************************************************)
(* The window a request of the running turn is built from. *)
Window == Project(Lines, turn, armed).mid
Requesting == step = "request" /\ todo = <<>>

(* A call whose result was written after another message had started. *)
Straggler(c) ==
  \E i, j, k \in DOMAIN file :
    /\ i < j /\ j < k
    /\ file[i].kind = "call" /\ file[i].id = c
    /\ \/ file[j].kind \in {"assistant", "steering"}
       \/ file[j].kind \in {"call", "thinking"} /\ \E r \in i .. j : file[r].kind = "result"
    /\ file[k].kind = "result" /\ file[k].id = c

Answers(w, i, c) == \E k \in i + 1 .. Len(w) : w[k].role = "tool" /\ w[k].id = c
Asks(w, i, c) == \E k \in 1 .. i - 1 : w[k].role = "assistant" /\ c \in ToSet(w[k].calls)

PairedBut(w, Late(_)) ==
  \A i \in DOMAIN w :
    /\ w[i].role = "assistant" => \A c \in ToSet(w[i].calls) : Late(c) \/ Answers(w, i, c)
    /\ w[i].role = "tool" => Late(w[i].id) \/ Asks(w, i, w[i].id)

(* Every request the turn loop sends pairs each tool call with its result, *)
(* whatever compaction, retry, steering, boundary, partial answer or       *)
(* resume shaped the window (foldExchanges, boundMidTurn,                  *)
(* boundCompactionTailByBudget); a result that came in after the model had *)
(* moved on is the exception WindowPaired is about.                        *)
PairedWindow == Requesting => PairedBut(Window, Straggler)

(* The claim without the exception (projector.go 835-839): the bounds drop *)
(* only complete exchange groups, so no result loses its call.             *)
(* Refuted: a question answered after another turn had spoken has its      *)
(* result folded without its call.                                         *)
WindowPaired == Requesting => PairedBut(Window, LAMBDA c : FALSE)

(* The request states the running turn's own prompt, never an older one,   *)
(* wherever markers, boundaries and resets fall (findIntentLine), as long  *)
(* as the transcript has that prompt: the first line written after a load  *)
(* may be glued to an unterminated one.                                    *)
IntentIsTheTurns ==
  Requesting /\ Has(Lines, turn, {"user"}) =>
    LET i == Project(Lines, turn, armed).intent
    IN  i # 0 /\ Lines[i].kind = "user" /\ Lines[i].turn = turn

(* A finished load leaves nothing dangling on disk: every call answered,   *)
(* every subagent settled, every prompted turn terminated, even when       *)
(* earlier loads crashed half way (Reconcile, ResumeSession).  A load that *)
(* found an unterminated last line is excepted: its first closure is glued *)
(* to that line.                                                           *)
LoadClosesAll ==
  (step = "loading" /\ todo = <<>> /\ clean /\ crashes > 0) =>
    /\ \A i \in DOMAIN Lines :
         /\ Lines[i].kind = "call" => \E k \in DOMAIN Lines : k > i /\ Lines[k].kind = "result" /\ Lines[k].id = Lines[i].id
         /\ Lines[i].kind = "dispatch" => Has(Lines, Lines[i].turn, {"subresult"})
         /\ Lines[i].kind = "user" => Has(Lines, Lines[i].turn, Terminal)
    /\ SessionEnded(Lines)

(* A prompt, subagent or local command never takes a turn id that a        *)
(* readable line already bears, over any crash and resume (MaxTurnCounter, *)
(* SeedResume).                                                            *)
TurnIdsFresh ==
  [][counter' > counter /\ step # "down" => counter' \notin Turns(Lines)]_vars
=============================================================================
