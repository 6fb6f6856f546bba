----------------------------- MODULE BashTasks -----------------------------
(* internal/coreexec: TaskRegistry, the per-session owner of background    *)
(* Bash processes.  A start takes a slot (state running) or joins a FIFO;  *)
(* launching the process, waiting for it, firing the completion hook and   *)
(* starting the next waiter happen outside the registry mutex, on the      *)
(* caller's goroutine or on the Wait goroutine of an earlier task.         *)
EXTENDS Naturals, Sequences, FiniteSets

CONSTANTS
  Task,        \* the background commands ever started
  Cap,         \* the effective cap (background.bash)
  QueueBound,  \* bgQueueBound
  Caller,      \* stands for a Start call as the launcher of a task
  Nobody       \* no goroutine is launching the task

CapAssumption == Cap \in Nat \ {0}
QueueAssumption == QueueBound \in Nat
FiniteTasks == IsFiniteSet(Task)
LaunchersDiffer == Caller # Nobody /\ {Caller, Nobody} \cap Task = {}

VARIABLES
  state,      \* bgTask.state; none before the task exists
  waiters,    \* the FIFO
  launcher,   \* which goroutine is inside launch for the task
  wait,       \* per task, where the Wait goroutine of its process is
  signalled,  \* tasks whose process group got terminateGroup's ladder
  reap,       \* progress of ReapAll: open, loop, the task being stopped, done
  toStop,     \* the ids ReapAll has still to look at
  withdrawn,  \* history: tasks stopped while they were queued
  failedStart \* history: tasks whose launch failed inside a Start call

vars == <<state, waiters, launcher, wait, signalled, reap, toStop, withdrawn, failedStart>>

State == {"none", "queued", "running", "done", "failed", "stopped"}

(* The Wait goroutine: waiting for the process, about to fire the hook, in *)
(* startNextWaiter's loop, inside launch for a waiter, returned.           *)
Wait == {"none", "wait", "hook", "drain", "launch", "returned"}

Init ==
  /\ state = [t \in Task |-> "none"]
  /\ waiters = <<>>
  /\ launcher = [t \in Task |-> Nobody]
  /\ wait = [t \in Task |-> "none"]
  /\ signalled = {}
  /\ reap = "open"
  /\ toStop = {}
  /\ withdrawn = {}
  /\ failedStart = {}

Live == {t \in Task : state[t] = "running"}

SlotFree == Cardinality(Live) < Cap

(***************************************************************************)
(* StartWithOpts, up to the release of the registry mutex.                 *)
(***************************************************************************)
Start(t) ==
  /\ state[t] = "none"
  /\ SlotFree
  /\ state' = [state EXCEPT ![t] = "running"]
  /\ launcher' = [launcher EXCEPT ![t] = Caller]
  /\ UNCHANGED <<waiters, wait, signalled, reap, toStop, withdrawn, failedStart>>

QueueFull == Len(waiters) >= QueueBound

(* Past the bound the start fails and leaves nothing behind. *)
StartQueued(t) ==
  /\ state[t] = "none"
  /\ ~SlotFree
  /\ ~QueueFull
  /\ state' = [state EXCEPT ![t] = "queued"]
  /\ waiters' = Append(waiters, t)
  /\ UNCHANGED <<launcher, wait, signalled, reap, toStop, withdrawn, failedStart>>

(***************************************************************************)
(* launch, on the goroutine of a Start call or of the finished task w.     *)
(***************************************************************************)
LaunchOK(t) ==
  /\ launcher[t] # Nobody
  /\ launcher' = [launcher EXCEPT ![t] = Nobody]
  /\ wait' = [w \in Task |-> IF w = t THEN "wait"
                             ELSE IF w = launcher[t] THEN "returned" ELSE wait[w]]
  /\ UNCHANGED <<state, waiters, signalled, reap, toStop, withdrawn, failedStart>>

(* The output log, the sandbox wrap or the process start fails.  Start     *)
(* returns the error; startNextWaiter tries the next waiter.               *)
LaunchFails(t) ==
  /\ launcher[t] # Nobody
  /\ state' = [state EXCEPT ![t] = "failed"]
  /\ launcher' = [launcher EXCEPT ![t] = Nobody]
  /\ wait' = [w \in Task |-> IF w = launcher[t] THEN "drain" ELSE wait[w]]
  /\ failedStart' = IF launcher[t] = Caller THEN failedStart \cup {t} ELSE failedStart
  /\ UNCHANGED <<waiters, signalled, reap, toStop, withdrawn>>

(***************************************************************************)
(* The Wait goroutine.                                                     *)
(***************************************************************************)

Terminal(t, ok) ==
  IF ok THEN "done" ELSE IF state[t] = "stopped" THEN "stopped" ELSE "failed"

WaitReturns(t) ==
  /\ wait[t] = "wait"
  /\ \E ok \in BOOLEAN : state' = [state EXCEPT ![t] = Terminal(t, ok)]
  /\ wait' = [wait EXCEPT ![t] = "hook"]
  /\ UNCHANGED <<waiters, launcher, signalled, reap, toStop, withdrawn, failedStart>>

(* The completion hook runs outside every lock (TaskTracker's Complete). *)
Hook(t) ==
  /\ wait[t] = "hook"
  /\ wait' = [wait EXCEPT ![t] = "drain"]
  /\ UNCHANGED <<state, waiters, launcher, signalled, reap, toStop, withdrawn, failedStart>>

(* startNextWaiter's return: no slot, or nobody waits. *)
MayReturn == ~SlotFree \/ waiters = <<>>

DrainReturns(w) ==
  /\ wait[w] = "drain"
  /\ MayReturn
  /\ wait' = [wait EXCEPT ![w] = "returned"]
  /\ UNCHANGED <<state, waiters, launcher, signalled, reap, toStop, withdrawn, failedStart>>

(* The head leaves the FIFO and is marked running in either case; it is    *)
(* launched only if it was still queued.                                   *)
\* Mutant: the state is not looked at again.
StillQueuedAssumed(t) == TRUE
StillQueued(t) == state[t] = "queued"

DrainPops(w) ==
  /\ wait[w] = "drain"
  /\ ~MayReturn
  /\ waiters' = Tail(waiters)
  /\ state' = [state EXCEPT ![Head(waiters)] = "running"]
  /\ \/ /\ StillQueued(Head(waiters))
        /\ launcher' = [launcher EXCEPT ![Head(waiters)] = w]
        /\ wait' = [wait EXCEPT ![w] = "launch"]
     \/ /\ ~StillQueued(Head(waiters))
        /\ UNCHANGED <<launcher, wait>>
  /\ UNCHANGED <<signalled, reap, toStop, withdrawn, failedStart>>

(***************************************************************************)
(* Stop: the state is overwritten; the group is signalled only if a        *)
(* process exists.                                                         *)
(***************************************************************************)
StopMarks(t) ==
  /\ state' = [state EXCEPT ![t] = "stopped"]
  /\ withdrawn' = IF state[t] = "queued" THEN withdrawn \cup {t} ELSE withdrawn
  /\ signalled' = IF wait[t] = "wait" THEN signalled \cup {t} ELSE signalled

Stop(t) ==
  /\ state[t] # "none"
  /\ StopMarks(t)
  /\ UNCHANGED <<waiters, launcher, wait, reap, toStop, failedStart>>

(***************************************************************************)
(* ReapAll: the waiters are stopped and dropped under the mutex, then each *)
(* known id that looks running is stopped, one at a time.                  *)
(***************************************************************************)
Queued(t) == \E n \in DOMAIN waiters : waiters[n] = t

Drop(t) == IF Queued(t) THEN "stopped" ELSE state[t]

ReapAll ==
  /\ reap = "open"
  /\ reap' = "loop"
  /\ state' = [t \in Task |-> Drop(t)]
  /\ withdrawn' = withdrawn \cup {t \in Task : state[t] = "queued" /\ Drop(t) = "stopped"}
  /\ waiters' = <<>>
  /\ toStop' = {t \in Task : state[t] # "none"}
  /\ UNCHANGED <<launcher, wait, signalled, failedStart>>

ReapLookup(t) ==
  /\ reap = "loop"
  /\ t \in toStop
  /\ toStop' = toStop \ {t}
  /\ reap' = IF state[t] = "running" THEN t ELSE "loop"
  /\ UNCHANGED <<state, waiters, launcher, wait, signalled, withdrawn, failedStart>>

ReapStop(t) ==
  /\ reap = t
  /\ reap' = "loop"
  /\ StopMarks(t)
  /\ UNCHANGED <<waiters, launcher, wait, toStop, failedStart>>

ReapDone ==
  /\ reap = "loop"
  /\ toStop = {}
  /\ reap' = "done"
  /\ UNCHANGED <<state, waiters, launcher, wait, signalled, toStop, withdrawn, failedStart>>

Launch(t) == LaunchOK(t) \/ LaunchFails(t)

Handover(t) == Hook(t) \/ DrainReturns(t) \/ DrainPops(t)

Next ==
  \/ \E t \in Task :
       \/ Start(t) \/ StartQueued(t)
       \/ Launch(t)
       \/ WaitReturns(t) \/ Handover(t)
       \/ Stop(t)
       \/ ReapLookup(t) \/ ReapStop(t)
  \/ ReapAll \/ ReapDone

Spec == Init /\ [][Next]_vars

(***************************************************************************)
(* Properties.                                                             *)
(***************************************************************************)
TypeOK ==
  /\ state \in [Task -> State]
  /\ waiters \in Seq(Task) /\ Len(waiters) <= QueueBound
  /\ launcher \in [Task -> Task \cup {Caller, Nobody}]
  /\ wait \in [Task -> Wait]
  /\ signalled \subseteq Task
  /\ reap \in {"open", "loop", "done"} \cup Task
  /\ toStop \subseteq Task
  /\ withdrawn \subseteq Task
  /\ failedStart \subseteq Task

(* At most Cap tasks are running, although the slots are counted by looking *)
(* at states that Stop and the Wait goroutines change outside the registry  *)
(* mutex (StartWithOpts and startNextWaiter, background.go 221-440).        *)
CapHolds == Cardinality(Live) <= Cap

(* A task stopped while it was queued is never launched, however late the  *)
(* FIFO reaches it (TestBackgroundCap_QueuedStop, the stillQueued guard).  *)
WithdrawnNeverRuns ==
  \A t \in withdrawn : launcher[t] = Nobody /\ wait[t] = "none"

(* A queued task is in the FIFO, and while it waits all slots are taken or *)
(* some goroutine will still run startNextWaiter.  Two exceptions: a Start whose own launch failed   *)
(* frees its slot without looking at the FIFO, and a withdrawn waiter that *)
(* left the FIFO holds a slot with no goroutine behind it.                 *)
NoStrandedWaiter ==
  \A q \in Task : state[q] = "queued" =>
    /\ Queued(q)
    /\ \/ ~SlotFree
       \/ \E t \in Task : wait[t] \in {"wait", "hook", "drain", "launch"}
       \/ \E t \in Task : launcher[t] # Nobody
       \/ failedStart # {}
       \/ \E t \in withdrawn : ~Queued(t)

(* A task in state running is being launched or has a process whose end is *)
(* not recorded yet: a waiter that was stopped is skipped for good.        *)
(* Refuted: startNextWaiter stores running (background.go:424) before it   *)
(* looks whether the waiter was stopped.                                   *)
RunningHasProcess ==
  \A t \in Live : launcher[t] # Nobody \/ wait[t] = "wait"

=============================================================================
