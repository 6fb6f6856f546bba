---------------------------- MODULE TaskTracker ----------------------------
(* internal/tasks: the per-session tracker of background subagents.  A     *)
(* registration takes one of Cap slots or joins a FIFO; each subagent runs *)
(* in a goroutine that completes by releasing its slot under the mutex and *)
(* then, in a second critical section, admitting the FIFO head.  start()   *)
(* runs outside the mutex, so a subagent can finish before its cancel func *)
(* is stored.  Closing the session drops the FIFO and cancels what it can  *)
(* reach, in the order of sessionReaper.Reap.                              *)
EXTENDS Naturals, Sequences, FiniteSets

CONSTANTS
  Task,        \* the subagents ever launched (RunBackgroundSubagent calls)
  Shell,       \* background Bash tasks, which only notify here
  Cap,         \* SubagentCap
  QueueBound   \* subagentQueueBound

CapAssumption == Cap \in Nat \ {0}
QueueAssumption == QueueBound \in Nat
FiniteTasks == IsFiniteSet(Task)
DistinctIds == Task \cap Shell = {}

VARIABLES
  launch,     \* per task, how far its launcher got
  loop,       \* per task, where its goroutine is
  cancelled,  \* tasks whose cancelFn has been called by somebody else
  running,    \* runningSubagents
  cancels,    \* the keys of subagentCancels
  waiters,    \* the FIFO
  pend,       \* the ids in the pending queue (deduplicated by id)
  delivered,  \* notifications handed to the model, per id
  reap        \* progress of sessionReaper.Reap

vars == <<launch, loop, cancelled, running, cancels, waiters, pend,
          delivered, reap>>

Id == Task \cup Shell

(***************************************************************************)
(* launch: new, found (the launcher holds the tracker), then waiting or    *)
(* rejected, or admitted (the slot is counted and start() not called),     *)
(* started (the goroutine exists, the cancel func is not stored), wired;   *)
(* waiting tasks may be dropped by a close.                                *)
(***************************************************************************)
Launch == {"new", "found", "waiting", "rejected", "dropped", "admitted", "started", "wired"}

(* loop: none, running, ended (Run returned), released (slot given back,   *)
(* startNextWaiter to run), done.                                          *)
Loop == {"none", "running", "ended", "released", "done"}

Init ==
  /\ launch = [t \in Task |-> "new"]
  /\ loop = [t \in Task |-> "none"]
  /\ cancelled = {}
  /\ running = 0
  /\ cancels = {}
  /\ waiters = <<>>
  /\ pend = {}
  /\ delivered = [i \in Id |-> 0]
  /\ reap = "open"

(***************************************************************************)
(* LaunchBackground finds the tracker as long as Reap has not deleted it,  *)
(* and registers with it later.                                            *)
(***************************************************************************)
LaunchBackground(t) ==
  /\ launch[t] = "new"
  /\ reap # "gone"
  /\ launch' = [launch EXCEPT ![t] = "found"]
  /\ UNCHANGED <<loop, cancelled, running, cancels, waiters, pend, delivered, reap>>

UnderCap == running < Cap
QueueFull == Len(waiters) >= QueueBound

Register(t) ==
  /\ launch[t] = "found"
  /\ UnderCap
  /\ running' = running + 1
  /\ launch' = [launch EXCEPT ![t] = "admitted"]
  /\ UNCHANGED <<loop, cancelled, cancels, waiters, pend, delivered, reap>>

RegisterQueued(t) ==
  /\ launch[t] = "found"
  /\ ~UnderCap
  /\ ~QueueFull
  /\ waiters' = Append(waiters, t)
  /\ launch' = [launch EXCEPT ![t] = "waiting"]
  /\ UNCHANGED <<loop, cancelled, running, cancels, pend, delivered, reap>>

RegisterRejected(t) ==
  /\ launch[t] = "found"
  /\ ~UnderCap
  /\ QueueFull
  /\ launch' = [launch EXCEPT ![t] = "rejected"]
  /\ UNCHANGED <<loop, cancelled, running, cancels, waiters, pend, delivered, reap>>

(* cancel := start(): the goroutine is launched, outside the mutex. *)
Start(t) ==
  /\ launch[t] = "admitted"
  /\ launch' = [launch EXCEPT ![t] = "started"]
  /\ loop' = [loop EXCEPT ![t] = "running"]
  /\ UNCHANGED <<cancelled, running, cancels, waiters, pend, delivered, reap>>

(* subagentCancels[id] = cancel, whatever the goroutine has done by now. *)
WiredCancels(t) == cancels \cup {t}

Wire(t) ==
  /\ launch[t] = "started"
  /\ launch' = [launch EXCEPT ![t] = "wired"]
  /\ cancels' = WiredCancels(t)
  /\ UNCHANGED <<loop, cancelled, running, waiters, pend, delivered, reap>>

(***************************************************************************)
(* The goroutine.  dep.Run returns or panics, and the one Complete of the  *)
(* path taken follows; the exit status is left out.                        *)
(***************************************************************************)
RunEnds(t) ==
  /\ loop[t] = "running"
  /\ loop' = [loop EXCEPT ![t] = "ended"]
  /\ UNCHANGED <<launch, cancelled, running, cancels, waiters, pend, delivered, reap>>

(* pendingQueue.add: a second terminal event of a pending id is ignored. *)
Added(i) == pend \cup {i}

(* releaseSubagentSlot: the count, floored at zero. *)
Released == IF running > 0 THEN running - 1 ELSE 0

Complete(t) ==
  /\ loop[t] = "ended"
  /\ pend' = Added(t)
  /\ running' = Released
  /\ cancels' = cancels \ {t}
  /\ loop' = [loop EXCEPT ![t] = "released"]
  /\ UNCHANGED <<launch, cancelled, waiters, delivered, reap>>

(* The completion of a background Bash task: a notification, no slot. *)
CompleteShell(s) ==
  /\ s \notin pend /\ delivered[s] = 0
  /\ pend' = Added(s)
  /\ UNCHANGED <<launch, loop, cancelled, running, cancels, waiters, delivered, reap>>

(* The freed slot is reoccupied by the waiter. *)
Reoccupied == running + 1

(* startNextWaiter, run by the goroutine that completed; starting and wiring *)
(* the waiter are then Start and Wire of that waiter.                        *)
StartNextWaiter(t) ==
  /\ loop[t] = "released"
  /\ waiters # <<>>
  /\ waiters' = Tail(waiters)
  /\ launch' = [launch EXCEPT ![Head(waiters)] = "admitted"]
  /\ running' = Reoccupied
  /\ loop' = [loop EXCEPT ![t] = "done"]
  /\ UNCHANGED <<cancelled, cancels, pend, delivered, reap>>

\* Mutant: a completion ends without looking for a waiter.
NoWaiterUnchecked == TRUE
NoWaiter == waiters = <<>>

NothingToStart(t) ==
  /\ loop[t] = "released"
  /\ NoWaiter
  /\ loop' = [loop EXCEPT ![t] = "done"]
  /\ UNCHANGED <<launch, cancelled, running, cancels, waiters, pend, delivered, reap>>

Drained == {}

(* Tracker.Drain: the batch is snapshot and cleared in one critical section. *)
Drain ==
  /\ pend # {}
  /\ delivered' = [i \in Id |-> IF i \in pend THEN delivered[i] + 1 ELSE delivered[i]]
  /\ pend' = Drained
  /\ UNCHANGED <<launch, loop, cancelled, running, cancels, waiters, reap>>

(* CancelTask (TaskStop): the entry stays until the task completes. *)
CancelTask(t) ==
  /\ t \in cancels
  /\ cancelled' = cancelled \cup {t}
  /\ UNCHANGED <<launch, loop, running, cancels, waiters, pend, delivered, reap>>

(***************************************************************************)
(* sessionReaper.Reap.                                                     *)
(***************************************************************************)
CancelQueued ==
  /\ reap = "open"
  /\ reap' = "queued dropped"
  /\ launch' = [t \in Task |-> IF launch[t] = "waiting" THEN "dropped" ELSE launch[t]]
  /\ waiters' = <<>>
  /\ UNCHANGED <<loop, cancelled, running, cancels, pend, delivered>>

\* Mutant: the close calls no cancel func.
InvokedNone == {}
Invoked == cancels

CancelRunning ==
  /\ reap = "queued dropped"
  /\ reap' = "running cancelled"
  /\ cancelled' = cancelled \cup Invoked
  /\ cancels' = {}
  /\ UNCHANGED <<launch, loop, running, waiters, pend, delivered>>

DeleteTracker ==
  /\ reap = "running cancelled"
  /\ reap' = "gone"
  /\ UNCHANGED <<launch, loop, cancelled, running, cancels, waiters, pend, delivered>>

Goroutine(t) ==
  \/ Start(t) \/ Wire(t)
  \/ Complete(t) \/ StartNextWaiter(t) \/ NothingToStart(t)

Next ==
  \/ \E t \in Task :
       \/ LaunchBackground(t)
       \/ Register(t) \/ RegisterQueued(t) \/ RegisterRejected(t)
       \/ Goroutine(t)
       \/ RunEnds(t)
       \/ CancelTask(t)
  \/ \E s \in Shell : CompleteShell(s)
  \/ Drain
  \/ CancelQueued \/ CancelRunning \/ DeleteTracker

Spec == Init /\ [][Next]_vars

(***************************************************************************)
(* The code of the tracker and of the goroutines between two Run calls     *)
(* never blocks, so it is weakly fair.  How long Run takes is up to the    *)
(* model and its tools; a cancelled Run returns because its ctx is done.   *)
(***************************************************************************)
FairSpec ==
  /\ Spec
  /\ \A t \in Task : WF_vars(Goroutine(t))
  /\ \A t \in Task : WF_vars(t \in cancelled /\ RunEnds(t))
  /\ WF_vars(CancelRunning)

(***************************************************************************)
(* Properties.                                                             *)
(***************************************************************************)
Finished(t) == loop[t] \in {"released", "done"}

(* The tasks that hold a slot: admitted and not yet released. *)
Holders == {t \in Task : launch[t] \in {"admitted", "started", "wired"} /\ ~Finished(t)}

(* The goroutines between releaseSubagentSlot and startNextWaiter. *)
Completing == {t \in Task : loop[t] = "released"}

TypeOK ==
  /\ launch \in [Task -> Launch]
  /\ loop \in [Task -> Loop]
  /\ cancelled \subseteq Task
  /\ running \in Nat
  /\ cancels \subseteq Task
  /\ waiters \in Seq(Task) /\ Len(waiters) <= QueueBound
  /\ pend \subseteq Id
  /\ delivered \in [Id -> Nat]
  /\ reap \in {"open", "queued dropped", "running cancelled", "gone"}

(* runningSubagents is the number of subagents that hold a slot: no path of *)
(* admission, completion, panic, cancellation or close leaks or frees one   *)
(* twice (releaseSubagentSlot against startNextWaiter, tracker.go 111-239). *)
SlotsCounted == running = Cardinality(Holders)

(* A registration waits only while every slot is taken or the goroutine    *)
(* that freed one is still on its way to startNextWaiter: no interleaving  *)
(* of completions and registrations strands a waiter beside a free slot.   *)
NoStrandedWaiter == waiters # <<>> => running + Cardinality(Completing) >= Cap

(* Exactly one notification per finished task, pending or delivered, for   *)
(* returns, panics and cancellations alike (Complete, pendingQueue.add and *)
(* Drain), and none before it finished.                                    *)
NotifiedOnce ==
  \A t \in Task :
    IF Finished(t) THEN delivered[t] = (IF t \in pend THEN 0 ELSE 1)
                   ELSE delivered[t] = 0 /\ t \notin pend

(* A close ends every subagent whose cancel func it finds, however long    *)
(* its Run would take (CancelRunning, tracker.go 294-316).                 *)
CloseEndsWired ==
  \A t \in Task :
    (reap = "queued dropped" /\ launch[t] = "wired" /\ loop[t] = "running") ~> loop[t] = "done"

=============================================================================
