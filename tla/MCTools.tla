------------------------------ MODULE MCTools ------------------------------
(***************************************************************************)
(* What a tool call starts and must come to an end by itself: commands of  *)
(* the persistent shell, subagents at close, the hooks around a call, the  *)
(* lock of the checkpoint store, and the reaping of closed sessions. A     *)
(* behaviour takes the steps of one component, chosen at the start: the    *)
(* run explores the sum of their state spaces.                             *)
(***************************************************************************)
EXTENDS Naturals, Sequences, FiniteSets

VARIABLES
  focus,  \* the component whose steps a behaviour takes
  \* PtyShell
  mu, open, started, gen, shell, job, outs, ran, tty, readCh, deadCh, notes, call,
  drained,
  \* TaskTracker
  launch, loop, cancelled, running, cancels, waiters, pend, delivered, reap,
  \* HookRunner
  hooks, firing, sh, pipe, tctx, outcome, firings,
  \* StoreLock
  clock, file, pc, since, crashes, stolen,
  \* RunnerSessions
  sessions, built, inc, trackers, wakeInFlight, parked, lastSessionID, closer, down,
  toClose, ctxDone, served, exited

PtyVars == <<mu, open, started, gen, shell, job, outs, ran, tty, readCh, deadCh,
             notes, call, drained>>
SubagentsVars == <<launch, loop, cancelled, running, cancels, waiters, pend,
                   delivered, reap>>
HooksVars == <<hooks, firing, sh, pipe, tctx, outcome, firings>>
LockVars == <<clock, file, pc, since, crashes, stolen>>
RunnerVars == <<sessions, built, inc, trackers, wakeInFlight, parked, lastSessionID,
                closer, down, toClose, ctxDone, served, exited>>
vars == <<focus, PtyVars, SubagentsVars, HooksVars, LockVars, RunnerVars>>

Call == {"c1", "c2"}
Task == {"t1", "t2"}
Process == {1, 2, 3}
Closer == {"k1"}

Pty == INSTANCE PtyShell WITH
  Call <- Call, ChunkBuf <- 1, MaxGen <- 2, MaxOut <- 1
Subagents == INSTANCE TaskTracker WITH
  Task <- Task, Shell <- {"s1"}, Cap <- 1, QueueBound <- 1
Hooks == INSTANCE HookRunner WITH
  NHooks <- 2, Kinds <- {"quick", "hang", "child"},
  Event <- {"PreToolUse", "Stop", "Unmapped"}, MaxFirings <- 2
Lock == INSTANCE StoreLock WITH
  Process <- Process, StaleAfter <- 2, HoldTime <- 1, MaxTime <- 5, MaxCrash <- 1
Runner == INSTANCE RunnerSessions WITH
  Id <- {"a"}, Closer <- Closer, MaxBuilds <- 2, NoId <- "none"

\* What the components assume of their constants.
ASSUME /\ Pty!ChunkBufAssumption /\ Pty!BoundsAssumption
       /\ Subagents!CapAssumption
       /\ Subagents!QueueAssumption
       /\ Subagents!FiniteTasks
       /\ Subagents!DistinctIds
       /\ Hooks!KindsAssumption
       /\ Lock!StoreLockAssumption

\* A component that is out of focus keeps one of its initial states.
Init ==
  /\ focus \in {"shell", "subagents", "hooks", "lock", "runner"}
  /\ Pty!Init
  /\ Subagents!Init
  /\ Hooks!Init
  /\ focus # "hooks" => \A h \in DOMAIN hooks : hooks[h] = [event |-> "Stop", matches |-> TRUE, kind |-> "quick"]
  /\ Lock!Init
  /\ Runner!Init

Next ==
  \/ focus = "shell" /\ Pty!Next /\ UNCHANGED <<focus, SubagentsVars, HooksVars, LockVars, RunnerVars>>
  \/ focus = "subagents" /\ Subagents!Next /\ UNCHANGED <<focus, PtyVars, HooksVars, LockVars, RunnerVars>>
  \/ focus = "hooks" /\ Hooks!Next /\ UNCHANGED <<focus, PtyVars, SubagentsVars, LockVars, RunnerVars>>
  \/ focus = "lock" /\ Lock!Next /\ UNCHANGED <<focus, PtyVars, SubagentsVars, HooksVars, RunnerVars>>
  \/ focus = "runner" /\ Runner!Next /\ UNCHANGED <<focus, PtyVars, SubagentsVars, HooksVars, LockVars>>

\* The fairness each component states, for the one in focus.
Fairness ==
  /\ \A c \in Call : WF_PtyVars(focus = "shell" /\ Pty!Expire(c))
  /\ \A c \in Call : SF_PtyVars(focus = "shell" /\ Pty!RunStep(c))
  /\ \A t \in Task : WF_SubagentsVars(focus = "subagents" /\ Subagents!Goroutine(t))
  /\ \A t \in Task : WF_SubagentsVars(focus = "subagents" /\ t \in cancelled /\ Subagents!RunEnds(t))
  /\ WF_SubagentsVars(focus = "subagents" /\ Subagents!CancelRunning)
  /\ WF_HooksVars(focus = "hooks" /\ Hooks!RunOne)
  /\ WF_HooksVars(focus = "hooks" /\ Hooks!HookDone)
  /\ WF_HooksVars(focus = "hooks" /\ Hooks!TimedOut)
  /\ WF_HooksVars(focus = "hooks" /\ Hooks!ChildEnds)
  /\ WF_LockVars(focus = "lock" /\ Lock!Tick)
  /\ \A p \in Process : WF_LockVars(focus = "lock" /\ Lock!Poll(p))
  /\ \A p \in Process : WF_LockVars(focus = "lock" /\ Lock!Release(p))
  /\ \A k \in Closer : WF_RunnerVars(focus = "runner" /\ Runner!CloseStep(k))
  /\ WF_RunnerVars(focus = "runner" /\ Runner!CloseAll)

Spec == Init /\ [][Next]_vars /\ Fairness

-----------------------------------------------------------------------------
\* A call of the persistent shell returns, whatever the command does (ptty.go).
EveryCallReturns == Pty!EveryCallReturns

\* A hook ends within its timeout, and one that timed out is skipped (hooks.go).
HookBounded == Hooks!TimeoutIsASkip /\ Hooks!HookBounded

\* The lock file of a process that died is removed in the end (store.go).
DeadLockFileGoes == Lock!DeadLockFileGoes

\* A session's close ends every subagent it finds wired (tracker.go).
CloseEndsWired == Subagents!CloseEndsWired

\* A session evicted from the runner's cache gives back what it holds
\* (runtime.go CloseSession).
EvictedIsReaped == Runner!EvictedIsReaped

\* The rest: a call reported as run did run, a lock is exclusive until it is
\* stolen as stale, and the components' types.
ToolsSafe ==
  /\ Pty!TypeOK /\ Pty!OkMeansRan
  /\ Lock!ExclusiveUntilStolen
  /\ Hooks!TypeOK /\ Subagents!TypeOK /\ Runner!TypeOK
=============================================================================
