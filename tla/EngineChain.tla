----------------------------- MODULE EngineChain -----------------------------
(***************************************************************************)
(* The engine's chain of one client prompt: Observe (kit/engine) around    *)
(* the session's turns, the adapter and dispatcher that bind it to the     *)
(* session (kit/internal/enginebridge), the hook executor (kit/hookdag)    *)
(* and the park of runOneTurn (kit/runtime), which lets the request return *)
(* while the chain waits for an ask to settle.  Another client may prompt  *)
(* the session meanwhile.                                                  *)
(*                                                                         *)
(* A transcript line is its turn, its kind and, for an assistant message,  *)
(* what the pattern table finds in it.                                     *)
(***************************************************************************)
EXTENDS Integers, FiniteSets, Sequences, FiniteSetsExt, SequencesExt

CONSTANTS
  MaxContinueInjections,  \* re-fire budget
  Outputs,     \* possible outputs of a finished turn: [text, tool, command]
  HookSteps,   \* the steps of the hook that a "hook" decision triggers
  MaxTurns,    \* turns of the session in the model
  MaxResumes   \* resumptions of suspended turns in the model

EngineAssumption == MaxContinueInjections \in Nat \ {0}

VARIABLES
  log,       \* the transcript
  turns,     \* turns started
  running,   \* turns inside sess.Prompt now: [id, by]
  mutex,     \* holder of the session's turn mutex
  chain,     \* the chain's control state
  settled,   \* the settle channel the chain waits on, or would, is closed
  resumes,
  decisions  \* engine_decision lines: [turn, action]

vars == <<log, turns, running, mutex, chain, settled, resumes, decisions>>

Nobody == "nobody"
NoTurn == 0
Nothing == [text |-> "nothing", tool |-> "nothing", command |-> "nothing"]

Chain0 == [pc |-> "new", turn |-> NoTurn, injections |-> 0, stop |-> "", failed |-> FALSE,
           parked |-> FALSE, cancelled |-> FALSE, step |-> 0]

Line(turn, kind, out) == [turn |-> turn, kind |-> kind, out |-> out]

\* The session has one finished turn before the chain's prompt.
Init ==
  /\ \E out \in Outputs : log = <<Line(1, "user", Nothing), Line(1, "assistant", out)>>
  /\ turns = 1 /\ running = {} /\ mutex = Nobody /\ chain = Chain0
  /\ settled = FALSE /\ resumes = 0 /\ decisions = <<>>

-----------------------------------------------------------------------------
(* Decide *)

\* The first signal wins: a suspension, the text, a handoff tool, the command
\* that started the turn.
Decide(out) ==
  IF out.suspended THEN "suspended"
  ELSE IF out.text # "nothing" THEN out.text
  ELSE IF out.tool # "nothing" THEN out.tool
  ELSE out.command

\* LastTurnOutput scans the transcript backwards to the user message of the
\* newest assistant message's turn: an unresolved suspension above it wins.
LastTurnOutput ==
  LET Idx(P(_)) == {i \in 1 .. Len(log) : P(log[i])}
      Newest(S) == IF S = {} THEN 0 ELSE Max(S)
      a == Newest(Idx(LAMBDA l : l.kind = "assistant"))
      open == {i \in Idx(LAMBDA l : l.kind = "suspended") :
                 \A j \in i + 1 .. Len(log) : ~(log[j].kind = "result" /\ log[j].turn = log[i].turn)}
      s == Newest(open)
      u == IF a = 0 THEN 0
           ELSE Newest({i \in 1 .. a : log[i].kind = "user" /\ log[i].turn = log[a].turn})
  IN  IF s > u
      THEN [turn |-> log[s].turn, suspended |-> TRUE, text |-> "nothing",
            tool |-> "nothing", command |-> "nothing"]
      ELSE [turn |-> IF a = 0 THEN NoTurn ELSE log[a].turn, suspended |-> FALSE,
            text |-> IF a = 0 THEN "nothing" ELSE log[a].out.text,
            tool |-> IF a = 0 THEN "nothing" ELSE log[a].out.tool,
            command |-> IF a = 0 THEN "nothing" ELSE log[a].out.command]

Emit(turn, action) == decisions' = Append(decisions, [turn |-> turn, action |-> action])

-----------------------------------------------------------------------------
(* Turns of the session *)

\* sess.Prompt begins: it numbers the turn and writes the user message.
Begins(by) ==
  /\ turns < MaxTurns
  /\ turns' = turns + 1
  /\ running' = running \cup {[id |-> turns + 1, by |-> by]}
  /\ log' = Append(log, Line(turns + 1, "user", Nothing))

\* sess.Prompt returns `stop`: a finished turn has its assistant message, a
\* suspended one its ask, a failed or cancelled one neither.
Returns(t, stop) ==
  /\ running' = {r \in running : r.id # t}
  /\ \/ stop = "end_turn" /\ \E out \in Outputs : log' = Append(log, Line(t, "assistant", out))
     \/ stop = "ask" /\ log' = Append(log, Line(t, "suspended", Nothing))
     \/ stop \in {"error", "other"} /\ log' = log

\* No ask is open when a turn suspends: the broker holds one.
MaySuspend == ~LastTurnOutput.suspended

-----------------------------------------------------------------------------
(* The chain: runOneTurn and Observe *)

\* Run holds the session's turn mutex and starts the chain with the prompt.
ChainStarts ==
  /\ chain.pc = "new" /\ mutex = Nobody
  /\ Begins("chain")
  /\ mutex' = "run"
  /\ chain' = [chain EXCEPT !.pc = "turn", !.turn = turns + 1]
  /\ UNCHANGED <<settled, resumes, decisions>>

\* The mutex after the chain let go of it: Run keeps it until the chain parks
\* or ends, a parked chain holds it for one injected turn at a time.
Unlocked == IF chain.parked /\ mutex = "chain" THEN Nobody ELSE mutex
Exited == IF chain.parked THEN Unlocked ELSE Nobody

\* The chain's own turn returns.  The first is observed whatever its result;
\* an injected one ends the chain unless it ended or suspended normally.
ChainTurnEnds ==
  /\ chain.pc = "turn"
  /\ \E stop \in {"end_turn", "ask", "error", "other"} :
       /\ chain.cancelled => stop \in {"error", "other"}
       /\ stop = "ask" => MaySuspend
       /\ Returns(chain.turn, stop)
       /\ settled' = IF stop = "ask" THEN FALSE ELSE settled
       /\ LET over == chain.injections > 0 /\ stop \in {"error", "other"}
          IN  /\ chain' = [chain EXCEPT !.stop = stop, !.failed = (stop = "error"),
                                        !.pc = IF over THEN "done" ELSE "look"]
              /\ mutex' = IF over THEN Exited ELSE Unlocked
  /\ UNCHANGED <<turns, resumes, decisions>>

\* The head of Observe's loop: the budget, the cancellation, and for a
\* suspended turn the wait.  A first turn's suspension is decided on at once.
\* AskSettle parks the chain: Run returns and frees the mutex.
Look ==
  /\ chain.pc = "look"
  /\ \/ /\ chain.injections = MaxContinueInjections
        /\ Emit(LastTurnOutput.turn, "budget")
        /\ chain' = [chain EXCEPT !.pc = "done"] /\ mutex' = Exited
     \/ /\ chain.injections < MaxContinueInjections /\ chain.cancelled
        /\ chain' = [chain EXCEPT !.pc = "done", !.stop = "cancelled"] /\ mutex' = Exited
        /\ UNCHANGED decisions
     \/ /\ chain.injections < MaxContinueInjections /\ ~chain.cancelled /\ chain.stop # "ask"
        /\ chain' = [chain EXCEPT !.pc = "decide"]
        /\ UNCHANGED <<mutex, decisions>>
     \/ /\ chain.injections < MaxContinueInjections /\ ~chain.cancelled /\ chain.stop = "ask"
        /\ IF chain.injections = 0 THEN Emit(LastTurnOutput.turn, Decide(LastTurnOutput))
           ELSE UNCHANGED decisions
        /\ chain' = [chain EXCEPT !.pc = "wait", !.parked = TRUE]
        /\ mutex' = Exited
  /\ UNCHANGED <<log, turns, running, settled, resumes>>

\* Mutant: the wait is on the settle channel alone.
SettleOrCancelDeaf ==
  /\ chain.pc = "wait" /\ settled
  /\ chain' = [chain EXCEPT !.pc = IF chain.cancelled THEN "done"
                                   ELSE IF LastTurnOutput.suspended THEN "wait" ELSE "decide",
                            !.stop = IF LastTurnOutput.suspended THEN @ ELSE "end_turn"]
  /\ settled' = (settled /\ ~LastTurnOutput.suspended)
  /\ UNCHANGED <<log, turns, running, mutex, resumes, decisions>>

\* waitAskSettled: a settled ask is read again (for a nested one the chain waits on,
\* on that one's channel), a dead context ends the chain.
SettleOrCancel ==
  /\ chain.pc = "wait" /\ (settled \/ chain.cancelled)
  /\ chain' = [chain EXCEPT !.pc = IF chain.cancelled THEN "done"
                                   ELSE IF LastTurnOutput.suspended THEN "wait" ELSE "decide",
                            !.stop = IF LastTurnOutput.suspended THEN @ ELSE "end_turn"]
  /\ settled' = (settled /\ ~LastTurnOutput.suspended)
  /\ UNCHANGED <<log, turns, running, mutex, resumes, decisions>>

\* Decide and applyDispatcher on what the transcript shows now: a hook is
\* executed, an ask is looked up among the learned answers, a continue goes on
\* and everything else ends the chain.
DecideAndDispatch ==
  /\ chain.pc = "decide"
  /\ LET out == LastTurnOutput
         act == Decide(out)
     IN  \/ /\ act = "continue"
            /\ Emit(out.turn, "continue")
            /\ chain' = [chain EXCEPT !.pc = "inject"] /\ UNCHANGED mutex
         \/ /\ act = "hook"
            /\ chain' = [chain EXCEPT !.pc = "hook", !.step = 1] /\ UNCHANGED <<mutex, decisions>>
         \/ /\ act = "ask"
            /\ \E answer \in {"continue", "other", "pending"} :
                 /\ Emit(out.turn, answer)
                 /\ chain' = [chain EXCEPT !.pc = IF answer = "continue" THEN "inject" ELSE "done"]
                 /\ mutex' = IF answer = "continue" THEN mutex ELSE Exited
         \/ /\ act \in {"nothing", "wait", "suspended"}
            /\ Emit(out.turn, act)
            /\ chain' = [chain EXCEPT !.pc = "done"] /\ mutex' = Exited
  /\ UNCHANGED <<log, turns, running, settled, resumes>>

\* Mutant: after a park the turn is run without queueing for the mutex.
InjectUnqueued ==
  /\ chain.pc = "inject"
  /\ Begins("chain")
  /\ mutex' = IF chain.parked THEN "chain" ELSE mutex
  /\ chain' = [chain EXCEPT !.pc = "turn", !.turn = turns + 1, !.injections = @ + 1]
  /\ UNCHANGED <<settled, resumes, decisions>>

\* The adapter's Run: after a park the injection queues for the turn mutex.
Inject ==
  /\ chain.pc = "inject"
  /\ chain.parked => mutex = Nobody
  /\ Begins("chain")
  /\ mutex' = IF chain.parked THEN "chain" ELSE mutex
  /\ chain' = [chain EXCEPT !.pc = "turn", !.turn = turns + 1, !.injections = @ + 1]
  /\ UNCHANGED <<settled, resumes, decisions>>

-----------------------------------------------------------------------------
(* The hook executor *)

\* The next step, or the end of the hook: its one decision, then the chain.
HookEnds(status) ==
  /\ Emit(LastTurnOutput.turn, status)
  /\ chain' = [chain EXCEPT !.pc = "done", !.step = 0]
  /\ mutex' = Exited

\* What a failed step does: its own on_failure, "halt" and "ask" end the hook.
StepDone(ok) ==
  LET policy == HookSteps[chain.step].onFailure
  IN  IF ok \/ policy = "continue"
      THEN /\ chain' = [chain EXCEPT !.pc = "hook", !.step = @ + 1]
           /\ UNCHANGED <<mutex, decisions>>
      ELSE HookEnds(policy)

\* One step of the hook: a cancelled context ends it, a prompt runs a turn of
\* the session (taking no mutex), a command, a boundary or a wait succeeds or
\* fails.
HookStep ==
  /\ chain.pc = "hook"
  /\ \/ /\ chain.step > Len(HookSteps) /\ HookEnds("completed")
        /\ UNCHANGED <<log, turns, running>>
     \/ /\ chain.step <= Len(HookSteps) /\ chain.cancelled /\ HookEnds("error")
        /\ UNCHANGED <<log, turns, running>>
     \/ /\ chain.step <= Len(HookSteps) /\ ~chain.cancelled
        /\ HookSteps[chain.step].kind = "send-prompt"
        /\ Begins("hook")
        /\ chain' = [chain EXCEPT !.pc = "hookturn", !.turn = turns + 1]
        /\ UNCHANGED <<mutex, decisions>>
     \/ /\ chain.step <= Len(HookSteps) /\ ~chain.cancelled
        /\ HookSteps[chain.step].kind # "send-prompt"
        /\ \E ok \in BOOLEAN : StepDone(ok)
        /\ UNCHANGED <<log, turns, running>>
  /\ UNCHANGED <<settled, resumes>>

HookTurnEnds ==
  /\ chain.pc = "hookturn"
  /\ \E stop \in {"end_turn", "error"} : Returns(chain.turn, stop) /\ StepDone(stop = "end_turn")
  /\ UNCHANGED <<turns, settled, resumes>>

-----------------------------------------------------------------------------
(* The others *)

\* Another prompt of the client, or a scheduled turn, under the turn mutex.
ClientTurn ==
  /\ mutex = Nobody /\ chain.pc # "new"
  /\ Begins("client") /\ mutex' = "client"
  /\ UNCHANGED <<chain, settled, resumes, decisions>>

ClientTurnEnds ==
  /\ mutex = "client"
  /\ \E r \in running : r.by = "client" /\ \E stop \in {"end_turn", "error"} : Returns(r.id, stop)
  /\ mutex' = Nobody
  /\ UNCHANGED <<turns, chain, settled, resumes, decisions>>

\* The operator's reply or the timer resumes the suspended turn under its old
\* id: the result lands, the model goes on, to its answer, a failure or a nested ask,
\* and the settle channel of the suspension it resumed closes.
Resume ==
  /\ LastTurnOutput.suspended /\ resumes < MaxResumes
  /\ resumes' = resumes + 1
  /\ LET t == LastTurnOutput.turn
         answered == Append(log, Line(t, "result", Nothing))
     IN  \/ \E out \in Outputs : log' = Append(answered, Line(t, "assistant", out))
         \/ log' = answered
         \/ log' = Append(answered, Line(t, "suspended", Nothing))
  /\ settled' = TRUE
  /\ UNCHANGED <<turns, running, mutex, chain, decisions>>

\* session/cancel, a close or the end of serving: the chain's context dies.
Cancel ==
  /\ chain.pc \notin {"new", "done"} /\ ~chain.cancelled
  /\ chain' = [chain EXCEPT !.cancelled = TRUE]
  /\ UNCHANGED <<log, turns, running, mutex, settled, resumes, decisions>>

ChainStep == ChainTurnEnds \/ Look \/ SettleOrCancel \/ DecideAndDispatch \/ HookStep \/ HookTurnEnds

Next ==
  \/ ChainStarts \/ ChainStep \/ Inject
  \/ ClientTurn \/ ClientTurnEnds \/ Resume \/ Cancel

\* The chain's goroutine runs, every turn ends, and the mutex, queued first
\* come first served, reaches the chain.
Spec ==
  /\ Init /\ [][Next]_vars
  /\ WF_vars(ChainStep) /\ WF_vars(ClientTurnEnds) /\ SF_vars(Inject)

-----------------------------------------------------------------------------
(* Properties *)

TypeOK ==
  /\ mutex \in {Nobody, "run", "chain", "client"}
  /\ chain.pc \in {"new", "turn", "look", "wait", "decide", "inject", "hook", "hookturn", "done"}
  /\ chain.injections \in 0 .. MaxContinueInjections
  /\ Cardinality(running) <= 2

\* The chain's own turns and the client's exclude each other, before and after
\* the park (runOneTurn: "post-settle injections hold the session turn mutex per
\* turn"), and a finished chain holds nothing.
TurnsQueue ==
  /\ Cardinality({r \in running : r.by # "hook"}) <= 1
  /\ chain.pc = "done" => mutex \in {Nobody, "client"}

\* Turns of one session never overlap, hook prompts included (the per-session
\* serialization of runtime.go: "post-settle injections hold the session turn
\* mutex per turn").
\* Refuted: a hook's prompt runs a turn of the session without taking its
\* mutex.
OneTurnAtATime == Cardinality(running) <= 1

\* Observe "stops on ... a real error": no turn is injected after the prompt's
\* own turn failed.
\* Refuted: after a failed turn the loop reads an older turn's output and
\* continues on it.
StopsOnError == [][Inject => ~chain.failed]_vars

\* A cancelled chain ends (ENG-03, the only off-switch), wherever it is: parked
\* on an ask nobody answers, in a hook, or queueing for the mutex.
CancelEndsChain == chain.cancelled ~> (chain.pc = "done" \/ turns = MaxTurns)
=============================================================================
