----------------------------- MODULE MCAutonomy -----------------------------
(***************************************************************************)
(* What runs with no client waiting for it: due automations, and the       *)
(* engine's chain of turns. A behaviour takes the steps of one of the two, *)
(* chosen at the start: the run explores the sum of their state spaces.    *)
(* It extends Scheduler, whose definitions keep their names, and           *)
(* instantiates the other; the composition's own carry MC.                 *)
(***************************************************************************)
EXTENDS Scheduler

VARIABLES
  focus,  \* the component whose steps a behaviour takes
  \* EngineChain
  log, turns, running, mutex, chain, settled, resumes, decisions

EngineVars == <<log, turns, running, mutex, chain, settled, resumes, decisions>>
allVars == <<focus, vars, EngineVars>>

\* A day of two minutes and a week of seven days stand for the calendar.
MCField == {"minute", "dow"}
MCBounds == [minute |-> <<0, 1>>, dow |-> <<0, 7>>]
MCAt(t, f) == IF f = "minute" THEN t % 2 ELSE (t \div 2) % 7

\* CronCreate and CronUpdate arguments: an expression, one with the 7 that
\* means Sunday, one no minute matches, a delay, and a delay out of bounds.
Item(k, from, to, step) == [kind |-> k, from |-> from, to |-> to, step |-> step]
EveryMinute == [minute |-> {Item("star", 0, 0, 1)}, dow |-> {Item("star", 0, 0, 1)}]
OnSundays == [minute |-> {Item("value", 1, 1, 5)}, dow |-> {Item("range", 6, 7, 1)}]
Never == [minute |-> {Item("value", 0, 0, 5)}, dow |-> {Item("star", 0, 0, 0)}]
Draft(c, d, r, m) == [cron |-> c, delay |-> d, recurring |-> r, maxRuns |-> m]
MCDrafts == {Draft(EveryMinute, 0, FALSE, 2), Draft(OnSundays, 0, TRUE, 0),
           Draft(NoCron, 1, TRUE, 0), Draft(Never, 0, TRUE, 0), Draft(NoCron, 9, TRUE, 0)}
MCPatches == {[cron |-> NoCron, delay |-> Absent, recurring |-> Absent, maxRuns |-> Absent],
            [cron |-> EveryMinute, delay |-> Absent, recurring |-> TRUE, maxRuns |-> Absent],
            [cron |-> NoCron, delay |-> 1, recurring |-> Absent, maxRuns |-> Absent]}

\* What a turn's text, tool result and command output make the engine decide.
Out(t, o, c) == [text |-> t, tool |-> o, command |-> c]
Outputs == {Out("nothing", "nothing", "nothing"), Out("continue", "hook", "nothing"),
            Out("nothing", "hook", "continue"), Out("nothing", "nothing", "ask")}
HookSteps == <<[kind |-> "run-command", onFailure |-> "continue"],
               [kind |-> "send-prompt", onFailure |-> "halt"]>>

Engine == INSTANCE EngineChain WITH
  MaxContinueInjections <- 1, Outputs <- Outputs, HookSteps <- HookSteps,
  MaxTurns <- 4, MaxResumes <- 1

\* What the components assume of their constants.
ASSUME /\ SchedulerAssumption
       /\ Engine!EngineAssumption

\* A component that is out of focus keeps one of its initial states.
MCInit ==
  /\ focus \in {"cron", "engine"}
  /\ Init
  /\ Engine!Init
  /\ focus # "engine" => log[2].out = Out("nothing", "nothing", "nothing")

MCNext ==
  \/ focus = "cron" /\ Next /\ UNCHANGED <<focus, EngineVars>>
  \/ focus = "engine" /\ Engine!Next /\ UNCHANGED <<focus, vars>>

\* The fairness each component states, for the one in focus.
MCFairness ==
  /\ WF_vars(focus = "cron" /\ TickerStep)
  /\ WF_vars(focus = "cron" /\ TurnsEnd)
  /\ SF_vars(focus = "cron" /\ WalkTurn)
  /\ WF_EngineVars(focus = "engine" /\ Engine!ChainStep)
  /\ WF_EngineVars(focus = "engine" /\ Engine!ClientTurnEnds)
  /\ SF_EngineVars(focus = "engine" /\ Engine!Inject)

MCSpec == MCInit /\ [][MCNext]_allVars /\ MCFairness

-----------------------------------------------------------------------------
\* A cancelled chain of turns ends (observe.go).
CancelEndsChain == Engine!CancelEndsChain

\* An injected turn queues behind the running one (enginebridge.go), and both
\* components keep their types.
AutonomySafe == Engine!TurnsQueue /\ Engine!TypeOK /\ TypeOK
=============================================================================
