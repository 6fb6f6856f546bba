-------------------------- MODULE BackgroundProofs --------------------------
(***************************************************************************)
(* Background work, for any number of tasks, any cap and any queue bound.  *)
(* The registry of Bash processes (internal/coreexec): the cap holds       *)
(* although slots are counted by looking at states other goroutines        *)
(* change, a withdrawn waiter is never launched, and no waiter is stranded *)
(* beside a free slot.  The tracker of subagents (internal/tasks): slots   *)
(* are counted exactly, no waiter is left beside a free slot, and each     *)
(* subagent is reported once.                                              *)
(***************************************************************************)
EXTENDS BashTasks, FiniteSetTheorems, TLAPS

\* The tracker has a FIFO and a reaper of its own.
CONSTANT Shell
VARIABLES launch, loop, cancelled, running, cancels, fifo, pend, delivered, reaping

Tracker == INSTANCE TaskTracker WITH waiters <- fifo, reap <- reaping

\* A task that is not admitted has neither launcher nor process.
FreshInv ==
    \A t \in Task : state[t] \in {"none", "queued"} =>
        launcher[t] = Nobody /\ wait[t] = "none" /\ t \notin withdrawn

\* A Wait goroutine that launches a waiter launches one, whose process does not
\* exist yet.
LaunchInv ==
    /\ \A t \in Task : launcher[t] # Nobody => wait[t] = "none"
    /\ \A t \in Task : launcher[t] \in Task => wait[launcher[t]] = "launch"
    /\ \A t, u \in Task : launcher[t] = launcher[u] /\ launcher[t] \in Task => t = u

\* The FIFO names each task once, and only those that wait or were withdrawn.
QueueInv ==
    /\ \A m, n \in 1 .. Len(waiters) : waiters[m] = waiters[n] => m = n
    /\ \A n \in 1 .. Len(waiters) : state[waiters[n]] = "queued" \/ waiters[n] \in withdrawn

\* What takes a slot: a launch, a process, or a withdrawn waiter popped too late.
SlotInv ==
    \A t \in Live : \/ launcher[t] # Nobody \/ wait[t] = "wait"
                    \/ t \in withdrawn /\ ~Queued(t)

\* Somebody will look at the FIFO, or one of the two exceptions holds.
Stirring ==
    \/ \E t \in Task : wait[t] \in {"wait", "hook", "drain", "launch"}
    \/ \E t \in Task : launcher[t] # Nobody
    \/ failedStart # {}
    \/ \E t \in withdrawn : ~Queued(t)

BashInv == /\ TypeOK /\ FreshInv /\ LaunchInv /\ QueueInv /\ SlotInv
           /\ CapHolds /\ WithdrawnNeverRuns /\ NoStrandedWaiter

BashAssumption == CapAssumption /\ QueueAssumption /\ FiniteTasks /\ LaunchersDiffer

-----------------------------------------------------------------------------
\* The slots are counted over a finite set of tasks, and never grow by a step
\* that starts nothing.
LEMMA FewerLive ==
    ASSUME BashAssumption, TypeOK, CapHolds, NEW S \in SUBSET Live
    PROVE  Cardinality(S) <= Cap
<1>1. IsFiniteSet(Live)
  BY FS_Subset DEF BashAssumption, FiniteTasks, Live
<1>2. Cardinality(S) <= Cardinality(Live) /\ Cardinality(S) \in Nat /\ Cardinality(Live) \in Nat
  BY <1>1, FS_Subset, FS_CardinalityType
<1> QED
  BY <1>2 DEF CapHolds, BashAssumption, CapAssumption

\* One more task may take a slot while one is free.
LEMMA OneMoreLive ==
    ASSUME BashAssumption, TypeOK, SlotFree, NEW t \in Task, NEW S \in SUBSET (Live \cup {t})
    PROVE  Cardinality(S) <= Cap
<1>1. IsFiniteSet(Live)
  BY FS_Subset DEF BashAssumption, FiniteTasks, Live
<1> DEFINE c == Cardinality(Live)
<1>c. c \in Nat
  BY <1>1, FS_CardinalityType
<1>2. /\ IsFiniteSet(Live \cup {t}) /\ Cardinality(Live) \in Nat
      /\ Cardinality(Live \cup {t}) <= Cardinality(Live) + 1
      /\ Cardinality(Live \cup {t}) \in Nat
  <2>1. CASE t \in Live
    <3>1. Live \cup {t} = Live
      BY <2>1
    <3> HIDE DEF c
    <3>2. c <= c + 1
      BY <1>c
    <3> QED
      BY <1>1, <1>c, <3>1, <3>2 DEF c
  <2>2. CASE t \notin Live
    <3>1. IsFiniteSet(Live \cup {t}) /\ Cardinality(Live \cup {t}) = c + 1
      BY <1>1, <2>2, FS_AddElement
    <3> HIDE DEF c
    <3>2. c + 1 \in Nat /\ c + 1 <= c + 1
      BY <1>c
    <3> QED
      BY <1>c, <3>1, <3>2 DEF c
  <2> QED
    BY <2>1, <2>2
<1>3. Cardinality(S) <= Cardinality(Live \cup {t}) /\ Cardinality(S) \in Nat
  BY <1>2, FS_Subset, FS_CardinalityType
<1> QED
  BY <1>2, <1>3 DEF SlotFree, BashAssumption, CapAssumption

\* A step that frees no slot, and leaves somebody to look at the FIFO if there
\* was, strands nobody.
LEMMA NobodyStranded ==
    ASSUME NoStrandedWaiter, SlotFree' => SlotFree, Stirring => Stirring',
           \A q \in Task : state'[q] = "queued" => state[q] = "queued" /\ Queued(q)'
    PROVE  NoStrandedWaiter'
  BY DEF NoStrandedWaiter, Stirring

\* The initial state.
LEMMA InitBashInv == BashAssumption /\ Init => BashInv
<1> SUFFICES ASSUME BashAssumption, Init PROVE BashInv
  OBVIOUS
<1> USE DEF Init
<1>1. TypeOK
  BY DEF TypeOK, State, Wait, BashAssumption, QueueAssumption
<1>2. FreshInv /\ LaunchInv /\ QueueInv /\ WithdrawnNeverRuns /\ NoStrandedWaiter
  BY DEF FreshInv, LaunchInv, QueueInv, WithdrawnNeverRuns, NoStrandedWaiter,
     BashAssumption, LaunchersDiffer
<1>3. Live = {}
  BY DEF Live
<1>4. SlotInv /\ CapHolds
  BY <1>3, FS_EmptySet DEF SlotInv, CapHolds, BashAssumption, CapAssumption
<1> QED
  BY <1>1, <1>2, <1>4 DEF BashInv

-----------------------------------------------------------------------------
\* StartWithOpts: a slot is taken, or the FIFO grows while none is free.
LEMMA StartStep ==
    ASSUME BashAssumption, BashInv, NEW t \in Task, Start(t)
    PROVE  BashInv'
<1> USE DEF Start, BashInv
<1>1. launcher' = [launcher EXCEPT ![t] = Caller] /\ Caller \notin Task /\ Caller # Nobody
  BY DEF BashAssumption, LaunchersDiffer
<1>2. TypeOK'
  BY <1>1 DEF TypeOK, State
<1>3. FreshInv' /\ WithdrawnNeverRuns'
  BY <1>1 DEF TypeOK, FreshInv, WithdrawnNeverRuns
<1>4. LaunchInv'
  BY <1>1 DEF TypeOK, FreshInv, LaunchInv
<1>5. QueueInv'
  BY DEF TypeOK, QueueInv, FreshInv
<1>6. Live' = Live \cup {t} /\ CapHolds'
  <2>1. Live' = Live \cup {t}
    BY DEF Live, TypeOK
  <2> QED
    BY <2>1, OneMoreLive DEF CapHolds
<1>7. SlotInv'
  BY <1>1, <1>6 DEF SlotInv, Queued, TypeOK
<1>8. NoStrandedWaiter'
  BY <1>1 DEF NoStrandedWaiter, Queued, TypeOK
<1> QED
  BY <1>2, <1>3, <1>4, <1>5, <1>6, <1>7, <1>8

\* A command that finds every slot taken joins the queue.
LEMMA StartQueuedStep ==
    ASSUME BashAssumption, BashInv, NEW t \in Task, StartQueued(t)
    PROVE  BashInv'
<1> USE DEF StartQueued, BashInv
<1>1. /\ Len(waiters') = Len(waiters) + 1 /\ Len(waiters) \in Nat
      /\ \A n \in 1 .. Len(waiters) : waiters'[n] = waiters[n]
      /\ waiters'[Len(waiters) + 1] = t
  BY DEF TypeOK
<1>2. TypeOK'
  <2>1. Len(waiters') <= QueueBound
    BY <1>1 DEF QueueFull, BashAssumption, QueueAssumption
  <2> QED
    BY <2>1 DEF TypeOK, State
<1>3. FreshInv' /\ WithdrawnNeverRuns' /\ LaunchInv'
  BY DEF TypeOK, FreshInv, WithdrawnNeverRuns, LaunchInv
<1>4. QueueInv'
  <2>1. \A n \in 1 .. Len(waiters) : waiters[n] # t
    BY DEF QueueInv, FreshInv
  <2>2. \A n \in 1 .. Len(waiters') : n \in 1 .. Len(waiters) \/ n = Len(waiters) + 1
    BY <1>1
  <2>3. \A m, n \in 1 .. Len(waiters') : waiters'[m] = waiters'[n] => m = n
    BY <1>1, <2>1, <2>2 DEF QueueInv
  <2>4. \A n \in 1 .. Len(waiters') :
          state'[waiters'[n]] = "queued" \/ waiters'[n] \in withdrawn'
    BY <1>1, <2>1, <2>2 DEF QueueInv, TypeOK
  <2> QED
    BY <2>3, <2>4 DEF QueueInv
<1>5. Live' = Live /\ CapHolds' /\ ~SlotFree'
  <2>1. Live' = Live
    BY DEF Live, TypeOK
  <2> QED
    BY <2>1 DEF CapHolds, SlotFree
<1>6. \A q \in Task : Queued(q)' <=> Queued(q) \/ q = t
  <2>1. DOMAIN waiters = 1 .. Len(waiters) /\ DOMAIN waiters' = 1 .. Len(waiters')
    BY DEF TypeOK
  <2> QED
    BY <1>1, <2>1 DEF Queued
<1>7. SlotInv'
  BY <1>5, <1>6 DEF SlotInv, FreshInv, Live
<1>8. NoStrandedWaiter'
  BY <1>5, <1>6 DEF NoStrandedWaiter, TypeOK
<1> QED
  BY <1>2, <1>3, <1>4, <1>5, <1>7, <1>8

-----------------------------------------------------------------------------
\* launch: the process is there, or the slot is given back and the next waiter
\* tried (by a Wait goroutine) or not (by a Start call).
LEMMA LaunchStep ==
    ASSUME BashAssumption, BashInv, NEW t \in Task, Launch(t)
    PROVE  BashInv'
<1> USE DEF Launch, BashInv
<1>1. /\ launcher[t] # Nobody /\ wait[t] = "none" /\ state[t] \notin {"none", "queued"}
      /\ launcher' = [launcher EXCEPT ![t] = Nobody]
      /\ UNCHANGED <<waiters, signalled, reap, toStop, withdrawn>>
      /\ t \notin withdrawn /\ Nobody \notin Task
  BY DEF LaunchOK, LaunchFails, LaunchInv, FreshInv, WithdrawnNeverRuns, BashAssumption,
     LaunchersDiffer
<1>2. \A u \in Task : u # t /\ wait[u] # "launch" => wait'[u] = wait[u]
  BY <1>1 DEF LaunchOK, LaunchFails, LaunchInv, TypeOK
<1>3. \A u \in Task : wait[u] = "launch" /\ u # launcher[t] => wait'[u] = "launch"
  BY <1>1 DEF LaunchOK, LaunchFails, TypeOK
<1>4. /\ wait' \in [Task -> Wait] /\ state' \in [Task -> State]
      /\ \A u \in Task : u # t => state'[u] = state[u]
      /\ state'[t] \notin {"none", "queued"}
  BY <1>1 DEF LaunchOK, LaunchFails, TypeOK, State, Wait
<1>5. TypeOK'
  BY <1>1, <1>4 DEF LaunchOK, LaunchFails, TypeOK
<1>6. FreshInv'
  BY <1>1, <1>2, <1>4 DEF TypeOK, FreshInv
<1>7. WithdrawnNeverRuns'
  BY <1>1, <1>2 DEF TypeOK, WithdrawnNeverRuns
<1>8. LaunchInv'
  BY <1>1, <1>2, <1>3 DEF TypeOK, LaunchInv
<1>9. QueueInv'
  BY <1>1, <1>4 DEF TypeOK, QueueInv, FreshInv
<1>10. Live' \subseteq Live /\ CapHolds' /\ Live \ {t} = Live' \ {t}
  <2>1. Live' \subseteq Live /\ Live \ {t} = Live' \ {t}
    BY <1>1, <1>4 DEF Live, LaunchOK, LaunchFails, TypeOK
  <2> QED
    BY <2>1, FewerLive DEF CapHolds
<1>11. SlotInv'
  <2>1. CASE LaunchOK(t)
    BY <1>1, <1>2, <1>10, <2>1 DEF LaunchOK, SlotInv, Queued, TypeOK, Live
  <2>2. CASE LaunchFails(t)
    BY <1>1, <1>2, <1>10, <2>2 DEF LaunchFails, SlotInv, Queued, TypeOK, Live
  <2> QED
    BY <2>1, <2>2
<1>12. NoStrandedWaiter'
  <2>1. Stirring'
    <3>1. CASE LaunchOK(t)
      BY <3>1 DEF LaunchOK, Stirring
    <3>2. CASE LaunchFails(t) /\ launcher[t] = Caller
      BY <3>2 DEF LaunchFails, Stirring
    <3>3. CASE LaunchFails(t) /\ launcher[t] \in Task
      BY <3>3 DEF LaunchFails, Stirring
    <3> QED
      BY <1>1, <3>1, <3>2, <3>3 DEF TypeOK
  <2> QED
    BY <1>1, <1>4, <2>1 DEF NoStrandedWaiter, Stirring, Queued
<1> QED
  BY <1>5, <1>6, <1>7, <1>8, <1>9, <1>10, <1>11, <1>12

\* The Wait goroutine until its drain.
LEMMA WaitStep ==
    ASSUME BashAssumption, BashInv, NEW t \in Task, WaitReturns(t) \/ Hook(t)
    PROVE  BashInv'
<1> USE DEF BashInv
<1>1. /\ wait[t] \in {"wait", "hook"} /\ wait'[t] \in {"hook", "drain"}
      /\ \A u \in Task : u # t => wait'[u] = wait[u]
      /\ UNCHANGED <<waiters, launcher, signalled, reap, toStop, withdrawn, failedStart>>
  BY DEF WaitReturns, Hook, TypeOK
<1>2. state[t] \notin {"none", "queued"} /\ t \notin withdrawn /\ launcher[t] = Nobody
  BY <1>1 DEF FreshInv, WithdrawnNeverRuns, LaunchInv
<1>3. /\ wait' \in [Task -> Wait] /\ state' \in [Task -> State]
      /\ \A u \in Task : u # t => state'[u] = state[u]
      /\ state'[t] \notin {"none", "queued"} /\ (state'[t] = "running" => state[t] = "running")
      /\ wait[t] = "wait" => state'[t] # "running"
  BY <1>2 DEF WaitReturns, Hook, Terminal, TypeOK, State, Wait
<1>4. TypeOK'
  BY <1>1, <1>3 DEF TypeOK
<1>5. FreshInv' /\ WithdrawnNeverRuns'
  BY <1>1, <1>2, <1>3 DEF FreshInv, WithdrawnNeverRuns, TypeOK
<1>6. LaunchInv'
  BY <1>1, <1>2 DEF LaunchInv
<1>7. QueueInv'
  BY <1>1, <1>2, <1>3 DEF QueueInv, TypeOK
<1>8. Live' \subseteq Live /\ CapHolds'
  <2>1. Live' \subseteq Live
    BY <1>3 DEF Live
  <2> QED
    BY <2>1, FewerLive DEF CapHolds
<1>9. SlotInv'
  BY <1>1, <1>2, <1>3, <1>8 DEF SlotInv, Queued, Live
<1>10. NoStrandedWaiter'
  BY <1>1, <1>2, <1>3 DEF NoStrandedWaiter, Queued
<1> QED
  BY <1>4, <1>5, <1>6, <1>7, <1>8, <1>9, <1>10

-----------------------------------------------------------------------------
\* startNextWaiter returns only when there is nothing for it to do.
LEMMA DrainReturnsStep ==
    ASSUME BashAssumption, BashInv, NEW w \in Task, DrainReturns(w)
    PROVE  BashInv'
<1> USE DEF DrainReturns, BashInv
<1>1. TypeOK' /\ FreshInv' /\ WithdrawnNeverRuns'
  BY DEF TypeOK, Wait, FreshInv, WithdrawnNeverRuns
<1>2. LaunchInv' /\ QueueInv'
  BY DEF TypeOK, LaunchInv, QueueInv
<1>3. Live' = Live /\ CapHolds'
  BY DEF Live, CapHolds
<1>4. SlotInv'
  BY <1>3 DEF SlotInv, TypeOK, Queued
<1>5. NoStrandedWaiter'
  BY <1>3 DEF NoStrandedWaiter, MayReturn, SlotFree, Queued, TypeOK
<1> QED
  BY <1>1, <1>2, <1>3, <1>4, <1>5

\* startNextWaiter pops the head: a waiter that still waits is launched, a
\* withdrawn one keeps the slot it was given and nobody runs it.
LEMMA DrainPopsStep ==
    ASSUME BashAssumption, BashInv, NEW w \in Task, DrainPops(w)
    PROVE  BashInv'
<1> USE DEF BashInv
<1> DEFINE h == Head(waiters)
<1>1. /\ waiters # <<>> /\ SlotFree /\ wait[w] = "drain" /\ waiters' = Tail(waiters)
      /\ state' = [state EXCEPT ![h] = "running"]
      /\ UNCHANGED <<signalled, reap, toStop, withdrawn, failedStart>>
      /\ \/ /\ state[h] = "queued"
            /\ launcher' = [launcher EXCEPT ![h] = w]
            /\ wait' = [wait EXCEPT ![w] = "launch"]
         \/ /\ state[h] # "queued"
            /\ UNCHANGED <<launcher, wait>>
  BY DEF DrainPops, MayReturn, StillQueued
<1>2. /\ h \in Task /\ h = waiters[1] /\ Len(waiters) \in Nat /\ Len(waiters) >= 1
      /\ Len(waiters') = Len(waiters) - 1 /\ waiters' \in Seq(Task)
      /\ \A n \in 1 .. Len(waiters') : waiters'[n] = waiters[n + 1]
  BY <1>1 DEF TypeOK
<1>3. h # w /\ Nobody \notin Task /\ launcher[h] = Nobody /\ wait[h] = "none"
  <2>1. state[h] = "queued" \/ h \in withdrawn
    BY <1>2 DEF QueueInv
  <2> QED
    BY <1>1, <1>2, <2>1 DEF FreshInv, WithdrawnNeverRuns, BashAssumption, LaunchersDiffer
<1>4. TypeOK'
  <2>1. Len(waiters') <= QueueBound
    BY <1>2 DEF TypeOK, BashAssumption, QueueAssumption
  <2> QED
    BY <1>1, <1>2, <2>1 DEF TypeOK, State, Wait
<1>5. FreshInv'
  BY <1>1, <1>2, <1>3 DEF TypeOK, FreshInv
<1>6. WithdrawnNeverRuns'
  BY <1>1, <1>2, <1>3 DEF TypeOK, FreshInv, WithdrawnNeverRuns
<1>7. LaunchInv'
  <2>1. CASE UNCHANGED <<launcher, wait>>
    BY <2>1 DEF LaunchInv
  <2>2. CASE launcher' = [launcher EXCEPT ![h] = w] /\ wait' = [wait EXCEPT ![w] = "launch"]
    <3>1. \A t \in Task : /\ launcher'[t] = (IF t = h THEN w ELSE launcher[t])
                         /\ wait'[t] = (IF t = w THEN "launch" ELSE wait[t])
      BY <2>2 DEF TypeOK
    <3>2. \A t \in Task : launcher[t] # w
      BY <1>1 DEF LaunchInv
    <3> QED
      BY <1>1, <1>2, <1>3, <3>1, <3>2 DEF LaunchInv
  <2> QED
    BY <1>1, <2>1, <2>2
<1>8. \A n \in 1 .. Len(waiters') : n + 1 \in 1 .. Len(waiters) /\ waiters'[n] # h
  <2>1. \A n \in 1 .. Len(waiters') : n + 1 \in 1 .. Len(waiters) /\ n + 1 # 1
    BY <1>2
  <2> QED
    BY <1>2, <2>1 DEF QueueInv
<1>9. QueueInv'
  <2>1. \A m, n \in 1 .. Len(waiters') : waiters'[m] = waiters'[n] => m = n
    <3> SUFFICES ASSUME NEW m \in 1 .. Len(waiters'), NEW n \in 1 .. Len(waiters'),
                        waiters'[m] = waiters'[n]
                 PROVE  m = n
      OBVIOUS
    <3>1. m + 1 = n + 1
      BY <1>2, <1>8 DEF QueueInv
    <3> QED
      BY <3>1
  <2>2. \A n \in 1 .. Len(waiters') :
          state'[waiters'[n]] = "queued" \/ waiters'[n] \in withdrawn'
    BY <1>1, <1>2, <1>8 DEF QueueInv, TypeOK
  <2> QED
    BY <2>1, <2>2 DEF QueueInv
<1>10. \A q \in Task : q # h => (Queued(q) => Queued(q)')
  <2> SUFFICES ASSUME NEW q \in Task, q # h, NEW n \in 1 .. Len(waiters), waiters[n] = q
               PROVE  \E m \in 1 .. Len(waiters') : waiters'[m] = q
    <3>1. DOMAIN waiters = 1 .. Len(waiters) /\ DOMAIN waiters' = 1 .. Len(waiters')
      BY <1>2 DEF TypeOK
    <3> QED
      BY <1>2, <3>1 DEF Queued
  <2>1. n - 1 \in 1 .. Len(waiters')
    BY <1>2
  <2>2. waiters'[n - 1] = q
    BY <1>2, <2>1
  <2> QED
    BY <2>1, <2>2
<1>11. \A q \in Task : Queued(q)' => Queued(q) /\ q # h
  <2>1. DOMAIN waiters' = 1 .. Len(waiters') /\ DOMAIN waiters = 1 .. Len(waiters)
    BY <1>2 DEF TypeOK
  <2> QED
    BY <1>2, <1>8, <2>1 DEF Queued
<1>12. Live' = Live \cup {h} /\ CapHolds'
  <2>1. Live' = Live \cup {h}
    BY <1>1, <1>2 DEF Live, TypeOK
  <2> QED
    BY <1>1, <1>2, <2>1, OneMoreLive DEF CapHolds
<1>13. SlotInv'
  <2> SUFFICES ASSUME NEW u \in Live'
               PROVE  \/ launcher'[u] # Nobody \/ wait'[u] = "wait"
                      \/ u \in withdrawn' /\ ~Queued(u)'
    BY DEF SlotInv
  <2>1. CASE u = h /\ state[h] = "queued"
    BY <1>1, <1>2, <1>3, <2>1 DEF TypeOK
  <2>2. CASE u = h /\ state[h] # "queued"
    <3>1. h \in withdrawn
      BY <1>2, <2>2 DEF QueueInv
    <3> QED
      BY <1>1, <1>2, <1>11, <2>2, <3>1
  <2>3. CASE u # h
    BY <1>1, <1>2, <1>11, <1>12, <2>3 DEF SlotInv, TypeOK, Live
  <2> QED
    BY <2>1, <2>2, <2>3
<1>14. NoStrandedWaiter'
  <2>1. Stirring'
    BY <1>1 DEF Stirring, TypeOK
  <2> QED
    BY <1>1, <1>2, <1>10, <2>1 DEF NoStrandedWaiter, Stirring, TypeOK
<1> QED
  BY <1>4, <1>5, <1>6, <1>7, <1>9, <1>12, <1>13, <1>14

-----------------------------------------------------------------------------
\* Stop and the per-task stops of ReapAll: the state is overwritten, whatever
\* it was.
LEMMA StopStep ==
    ASSUME BashAssumption, BashInv, NEW t \in Task, Stop(t) \/ ReapStop(t)
    PROVE  BashInv'
<1> USE DEF BashInv
<1>1. /\ state' = [state EXCEPT ![t] = "stopped"]
      /\ withdrawn' = IF state[t] = "queued" THEN withdrawn \cup {t} ELSE withdrawn
      /\ UNCHANGED <<waiters, launcher, wait, toStop, failedStart>>
      /\ signalled' \subseteq Task /\ reap' \in {reap, "loop"}
  BY DEF Stop, ReapStop, StopMarks, TypeOK
<1>2. TypeOK'
  BY <1>1 DEF TypeOK, State
<1>3. FreshInv' /\ WithdrawnNeverRuns'
  BY <1>1 DEF TypeOK, FreshInv, WithdrawnNeverRuns
<1>4. LaunchInv'
  BY <1>1 DEF LaunchInv
<1>5. QueueInv'
  BY <1>1 DEF QueueInv, TypeOK
<1>6. Live' = Live \ {t} /\ CapHolds'
  <2>1. Live' = Live \ {t}
    BY <1>1 DEF Live, TypeOK
  <2> QED
    BY <2>1, FewerLive DEF CapHolds
<1>7. SlotInv'
  BY <1>1, <1>6 DEF SlotInv, Queued
<1>8. NoStrandedWaiter'
  <2>1. CASE state[t] = "running"
    <3>1. launcher[t] # Nobody \/ wait[t] = "wait" \/ (t \in withdrawn /\ ~Queued(t))
      BY <2>1 DEF SlotInv, Live
    <3>2. Stirring'
      BY <1>1, <3>1 DEF Stirring, Queued
    <3> QED
      BY <1>1, <3>2 DEF NoStrandedWaiter, Stirring, Queued, TypeOK
  <2>2. CASE state[t] # "running"
    <3>1. Live' = Live
      BY <1>6, <2>2 DEF Live
    <3>2. SlotFree' => SlotFree
      BY <3>1 DEF SlotFree
    <3>3. Stirring => Stirring'
      BY <1>1 DEF Stirring, Queued
    <3>4. \A q \in Task : state'[q] = "queued" => state[q] = "queued" /\ Queued(q)'
      BY <1>1 DEF NoStrandedWaiter, Queued, TypeOK
    <3> QED
      BY <3>2, <3>3, <3>4, NobodyStranded
  <2> QED
    BY <2>1, <2>2
<1> QED
  BY <1>2, <1>3, <1>4, <1>5, <1>6, <1>7, <1>8

\* ReapAll empties the FIFO: nobody waits any more.
LEMMA ReapAllStep ==
    ASSUME BashAssumption, BashInv, ReapAll
    PROVE  BashInv'
<1> USE DEF ReapAll, BashInv
<1>1. /\ \A t \in Task : state'[t] = Drop(t)
      /\ \A t \in Task : state[t] = "queued" => Queued(t)
  BY DEF NoStrandedWaiter
<1>2. waiters' \in Seq(Task) /\ Len(waiters') = 0 /\ (\A t \in Task : ~Queued(t)')
  BY DEF Queued
<1>3. TypeOK'
  BY <1>2 DEF TypeOK, State, Drop, BashAssumption, QueueAssumption
<1>4. FreshInv'
  BY <1>1 DEF FreshInv, Drop
<1>5. WithdrawnNeverRuns'
  BY DEF WithdrawnNeverRuns, FreshInv
<1>6. LaunchInv'
  BY DEF LaunchInv
<1>7. QueueInv'
  BY <1>2 DEF QueueInv
<1>8. Live' \subseteq Live /\ CapHolds'
  <2>1. Live' \subseteq Live
    BY <1>1 DEF Live, Drop
  <2> QED
    BY <2>1, FewerLive DEF CapHolds
<1>9. SlotInv'
  BY <1>2, <1>8 DEF SlotInv, Live
<1>10. NoStrandedWaiter'
  BY <1>1 DEF NoStrandedWaiter, Drop
<1> QED
  BY <1>3, <1>4, <1>5, <1>6, <1>7, <1>8, <1>9, <1>10

\* The bookkeeping of ReapAll's loop.
LEMMA ReapLoopStep ==
    ASSUME BashAssumption, BashInv, (\E t \in Task : ReapLookup(t)) \/ ReapDone
    PROVE  BashInv'
<1> USE DEF BashInv
<1>1. /\ UNCHANGED <<state, waiters, launcher, wait, signalled, withdrawn, failedStart>>
      /\ reap' \in {"loop", "done"} \cup Task /\ toStop' \subseteq Task
  BY DEF ReapLookup, ReapDone, TypeOK
<1>2. TypeOK' /\ FreshInv' /\ LaunchInv' /\ QueueInv' /\ WithdrawnNeverRuns'
  BY <1>1 DEF TypeOK, FreshInv, LaunchInv, QueueInv, WithdrawnNeverRuns
<1>3. Live' = Live /\ SlotInv' /\ CapHolds'
  BY <1>1 DEF Live, SlotInv, Queued, CapHolds
<1>4. NoStrandedWaiter'
  BY <1>1, <1>3 DEF NoStrandedWaiter, SlotFree, Queued
<1> QED
  BY <1>2, <1>3, <1>4

\* A step that changes nothing keeps the invariant.
LEMMA BashStutter == ASSUME BashInv, UNCHANGED vars PROVE BashInv'
<1> USE DEF BashInv, vars
<1>1. TypeOK' /\ FreshInv' /\ LaunchInv' /\ QueueInv' /\ WithdrawnNeverRuns'
  BY DEF TypeOK, FreshInv, LaunchInv, QueueInv, WithdrawnNeverRuns
<1>2. Live' = Live /\ SlotInv' /\ CapHolds'
  BY DEF Live, SlotInv, Queued, CapHolds
<1>3. NoStrandedWaiter'
  BY <1>2 DEF NoStrandedWaiter, SlotFree, Queued
<1> QED
  BY <1>1, <1>2, <1>3

-----------------------------------------------------------------------------
\* The inductive invariant of the registry.
THEOREM BashInvariance == ASSUME BashAssumption PROVE Spec => []BashInv
<1>1. Init => BashInv
  BY InitBashInv
<1>2. BashInv /\ [Next]_vars => BashInv'
  <2> SUFFICES ASSUME BashInv, [Next]_vars PROVE BashInv'
    OBVIOUS
  <2>1. ASSUME NEW t \in Task, Start(t) \/ StartQueued(t) PROVE BashInv'
    BY <2>1, StartStep, StartQueuedStep
  <2>2. ASSUME NEW t \in Task, Launch(t) \/ WaitReturns(t) PROVE BashInv'
    BY <2>2, LaunchStep, WaitStep
  <2>3. ASSUME NEW t \in Task, Handover(t) PROVE BashInv'
    BY <2>3, WaitStep, DrainReturnsStep, DrainPopsStep DEF Handover
  <2>4. ASSUME NEW t \in Task, Stop(t) \/ ReapStop(t) PROVE BashInv'
    BY <2>4, StopStep
  <2> QED
    BY <2>1, <2>2, <2>3, <2>4, ReapAllStep, ReapLoopStep, BashStutter DEF Next
<1> QED
  BY <1>1, <1>2, PTL DEF Spec

\* A task withdrawn from the FIFO is never launched, whoever reaches it first.
THEOREM WithdrawnStays == ASSUME BashAssumption PROVE Spec => []WithdrawnNeverRuns
<1>1. BashInv => WithdrawnNeverRuns
  BY DEF BashInv
<1> QED
  BY <1>1, BashInvariance, PTL

\* The cap holds, and no waiter is stranded beside a free slot but for the two
\* exceptions NoStrandedWaiter names.
THEOREM CapAndQueue == ASSUME BashAssumption PROVE Spec => [](CapHolds /\ NoStrandedWaiter)
<1>1. BashInv => CapHolds /\ NoStrandedWaiter
  BY DEF BashInv
<1> QED
  BY <1>1, BashInvariance, PTL


(***************************************************************************)
(* The tracker of subagents.                                               *)
(***************************************************************************)
TrackerAssumption ==
    /\ Tracker!CapAssumption /\ Tracker!QueueAssumption
    /\ Tracker!FiniteTasks /\ Tracker!DistinctIds

\* The parts of TypeOK, by what they are about.
TaskTypes ==
    /\ launch \in [Task -> Tracker!Launch] /\ loop \in [Task -> Tracker!Loop]
    /\ cancelled \subseteq Task /\ cancels \subseteq Task
    /\ reaping \in {"open", "queued dropped", "running cancelled", "gone"}

CountTypes == running \in Nat /\ pend \subseteq Tracker!Id /\ delivered \in [Tracker!Id -> Nat]

QueueTypes == fifo \in Seq(Task) /\ Len(fifo) <= QueueBound

Types == TaskTypes /\ CountTypes /\ QueueTypes

\* A goroutine exists from start() on.
PhaseInv == \A t \in Task : loop[t] # "none" <=> launch[t] \in {"started", "wired"}

\* The FIFO names each waiting task at most once.
TrackerQueueInv ==
    /\ \A m, n \in 1 .. Len(fifo) : fifo[m] = fifo[n] => m = n
    /\ \A n \in 1 .. Len(fifo) : launch[fifo[n]] = "waiting"

TrackerInv == /\ Types /\ PhaseInv /\ TrackerQueueInv
              /\ Tracker!SlotsCounted /\ Tracker!NoStrandedWaiter /\ Tracker!NotifiedOnce

-----------------------------------------------------------------------------
\* The instance counts as its module does.
LEMMA SameCounting ==
    \A S : /\ Tracker!IsFiniteSet(S) <=> IsFiniteSet(S)
          /\ Tracker!Cardinality(S) = Cardinality(S)
<1>1. \A S : Tracker!IsFiniteSet(S) <=> IsFiniteSet(S)
  BY DEF IsFiniteSet, Tracker!IsFiniteSet
<1>2. \A S : Tracker!Cardinality(S) = Cardinality(S)
  BY DEF Cardinality, Tracker!Cardinality
<1> QED
  BY <1>1, <1>2

\* Taking an element in or out of a set of tasks counts it.
LEMMA CountTasks ==
    ASSUME Tracker!FiniteTasks, NEW S \in SUBSET Task, NEW t \in Task
    PROVE  /\ Cardinality(S) \in Nat
           /\ t \notin S => Cardinality(S \cup {t}) = Cardinality(S) + 1
           /\ t \in S => Cardinality(S) > 0 /\ Cardinality(S \ {t}) = Cardinality(S) - 1
<1>1. IsFiniteSet(S) /\ Cardinality(S) \in Nat
  BY SameCounting, FS_Subset, FS_CardinalityType DEF Tracker!FiniteTasks
<1>2. t \notin S => Cardinality(S \cup {t}) = Cardinality(S) + 1
  BY <1>1, FS_AddElement
<1>3. t \in S => Cardinality(S) # 0
  BY <1>1, FS_EmptySet
<1>4. Cardinality(S \ {t}) = IF t \in S THEN Cardinality(S) - 1 ELSE Cardinality(S)
  BY <1>1, FS_RemoveElement
<1> QED
  BY <1>1, <1>2, <1>3, <1>4

\* The sets whose sizes the invariants relate are sets of tasks.
LEMMA Counted ==
    ASSUME TrackerAssumption
    PROVE  /\ Tracker!Holders \in SUBSET Task /\ Tracker!Completing \in SUBSET Task
           /\ Cardinality(Tracker!Holders) \in Nat /\ Cardinality(Tracker!Completing) \in Nat /\ Cap \in Nat
  BY SameCounting, FS_Subset, FS_CardinalityType
     DEF Tracker!Holders, Tracker!Completing, TrackerAssumption, Tracker!FiniteTasks,
         Tracker!CapAssumption

\* The FIFO names tasks.
LEMMA Enqueued == ASSUME QueueTypes PROVE \A n \in 1 .. Len(fifo) : fifo[n] \in Task
  BY DEF QueueTypes

\* A step that leaves the FIFO alone, and every waiting task waiting, keeps it.
LEMMA QueueKept ==
    ASSUME QueueTypes, TrackerQueueInv, UNCHANGED fifo,
           \A t \in Task : launch[t] = "waiting" => launch'[t] = "waiting"
    PROVE  QueueTypes' /\ TrackerQueueInv'
<1>1. QueueTypes'
  BY DEF QueueTypes
<1> QED
  BY <1>1, Enqueued DEF TrackerQueueInv

\* The initial state.
LEMMA InitTracker == TrackerAssumption /\ Tracker!Init => TrackerInv
<1> SUFFICES ASSUME TrackerAssumption, Tracker!Init PROVE TrackerInv
  OBVIOUS
<1> USE DEF Tracker!Init
<1>1. Types
  BY DEF Types, TaskTypes, CountTypes, QueueTypes, Tracker!Launch, Tracker!Loop, Tracker!Id,
         TrackerAssumption, Tracker!QueueAssumption
<1>2. PhaseInv /\ TrackerQueueInv /\ Tracker!NoStrandedWaiter
  BY DEF PhaseInv, TrackerQueueInv, Tracker!NoStrandedWaiter
<1>3. Tracker!NotifiedOnce
  BY DEF Tracker!NotifiedOnce, Tracker!Finished, Tracker!Id
<1>4. Tracker!Holders = {}
  BY DEF Tracker!Holders
<1>5. Tracker!SlotsCounted
  BY SameCounting, <1>4, FS_EmptySet DEF Tracker!SlotsCounted
<1> QED
  BY <1>1, <1>2, <1>3, <1>5 DEF TrackerInv

-----------------------------------------------------------------------------
\* A step of one launch that no slot, FIFO or notification takes part in.
LEMMA LaunchMoves ==
    ASSUME TrackerAssumption, TrackerInv, NEW t \in Task,
           \/ Tracker!LaunchBackground(t) \/ Tracker!RegisterRejected(t)
           \/ Tracker!Start(t) \/ Tracker!Wire(t) \/ Tracker!RunEnds(t)
    PROVE  TrackerInv'
<1> USE DEF TrackerInv, Types, Tracker!LaunchBackground, Tracker!RegisterRejected,
    Tracker!Start, Tracker!Wire, Tracker!WiredCancels, Tracker!RunEnds
<1>1. TaskTypes' /\ CountTypes'
  BY DEF TaskTypes, CountTypes, Tracker!Launch, Tracker!Loop
<1>2. PhaseInv'
  BY DEF TaskTypes, PhaseInv
<1>9. QueueTypes' /\ TrackerQueueInv'
  <2>1. \A u \in Task : launch[u] = "waiting" => launch'[u] = "waiting"
    BY DEF TaskTypes
  <2> QED
    BY <2>1, QueueKept
<1>3. \A u \in Task : Tracker!Finished(u)' <=> Tracker!Finished(u)
  BY DEF TaskTypes, PhaseInv, Tracker!Finished
<1>4. Tracker!Holders' = Tracker!Holders
  BY <1>3 DEF Tracker!Holders, TaskTypes, PhaseInv, Tracker!Finished
<1>5. Tracker!Completing' = Tracker!Completing
  BY DEF Tracker!Completing, TaskTypes, PhaseInv
<1>6. Tracker!SlotsCounted' /\ Tracker!NoStrandedWaiter'
  BY <1>4, <1>5 DEF Tracker!SlotsCounted, Tracker!NoStrandedWaiter
<1>7. Tracker!NotifiedOnce'
  BY <1>3 DEF Tracker!NotifiedOnce
<1> QED
  BY <1>1, <1>2, <1>9, <1>6, <1>7

\* RegisterRunning takes a slot that is free.
LEMMA RegisterStep ==
    ASSUME TrackerAssumption, TrackerInv, NEW t \in Task, Tracker!Register(t)
    PROVE  TrackerInv'
<1> USE DEF TrackerInv, Types, Tracker!Register
<1>1. TaskTypes' /\ CountTypes'
  <2>1. running' \in Nat
    BY DEF CountTypes
  <2> QED
    BY <2>1 DEF TaskTypes, CountTypes, Tracker!Launch
<1>2. PhaseInv'
  BY DEF TaskTypes, PhaseInv
<1>9. QueueTypes' /\ TrackerQueueInv'
  <2>1. \A u \in Task : launch[u] = "waiting" => launch'[u] = "waiting"
    BY DEF TaskTypes
  <2> QED
    BY <2>1, QueueKept
<1>3. t \notin Tracker!Holders /\ Tracker!Holders' = Tracker!Holders \cup {t}
  BY DEF Tracker!Holders, Tracker!Finished, TaskTypes, PhaseInv
<1>4. Cardinality(Tracker!Holders') = Cardinality(Tracker!Holders) + 1
  BY <1>3, Counted, CountTasks DEF TrackerAssumption
<1>5. Tracker!Completing' = Tracker!Completing
  BY DEF Tracker!Completing
<1>6. Tracker!SlotsCounted' /\ Tracker!NoStrandedWaiter'
  BY SameCounting, <1>4, <1>5, Counted
     DEF Tracker!SlotsCounted, Tracker!NoStrandedWaiter, CountTypes
<1>7. Tracker!NotifiedOnce'
  BY DEF Tracker!NotifiedOnce, Tracker!Finished
<1> QED
  BY <1>1, <1>2, <1>9, <1>6, <1>7

\* A registration joins the FIFO only while every slot is taken.
LEMMA RegisterQueuedStep ==
    ASSUME TrackerAssumption, TrackerInv, NEW t \in Task, Tracker!RegisterQueued(t)
    PROVE  TrackerInv'
<1> USE DEF TrackerInv, Types, Tracker!RegisterQueued
<1>1. /\ Len(fifo) \in Nat /\ Len(fifo') = Len(fifo) + 1 /\ fifo' \in Seq(Task)
      /\ \A n \in 1 .. Len(fifo) : fifo'[n] = fifo[n]
      /\ fifo'[Len(fifo) + 1] = t
  BY DEF QueueTypes
<1>2. Types'
  <2>1. Len(fifo') <= QueueBound
    BY <1>1 DEF Tracker!QueueFull, TrackerAssumption, Tracker!QueueAssumption
  <2> QED
    BY <1>1, <2>1 DEF TaskTypes, CountTypes, QueueTypes, Tracker!Launch
<1>3. PhaseInv'
  BY DEF TaskTypes, PhaseInv
<1>4. TrackerQueueInv'
  <2>1. \A n \in 1 .. Len(fifo) : fifo[n] # t /\ fifo[n] \in Task
    BY DEF TrackerQueueInv, QueueTypes
  <2>2. \A n \in 1 .. Len(fifo') : n \in 1 .. Len(fifo) \/ n = Len(fifo) + 1
    BY <1>1
  <2>3. \A m, n \in 1 .. Len(fifo') : fifo'[m] = fifo'[n] => m = n
    BY <1>1, <2>1, <2>2 DEF TrackerQueueInv
  <2>4. \A n \in 1 .. Len(fifo') : launch'[fifo'[n]] = "waiting"
    <3>1. launch' = [launch EXCEPT ![t] = "waiting"] /\ launch \in [Task -> Tracker!Launch]
      BY DEF TaskTypes
    <3>2. \A n \in 1 .. Len(fifo) : launch[fifo[n]] = "waiting"
      BY DEF TrackerQueueInv
    <3> QED
      BY <1>1, <2>1, <2>2, <3>1, <3>2
  <2> QED
    BY <2>3, <2>4 DEF TrackerQueueInv
<1>5. Tracker!Holders' = Tracker!Holders /\ Tracker!Completing' = Tracker!Completing
  BY DEF Tracker!Holders, Tracker!Completing, Tracker!Finished, TaskTypes
<1>6. Tracker!SlotsCounted'
  BY <1>5 DEF Tracker!SlotsCounted
<1>7. Tracker!NoStrandedWaiter'
  BY SameCounting, <1>5, Counted DEF Tracker!NoStrandedWaiter, Tracker!UnderCap, CountTypes
<1>8. Tracker!NotifiedOnce'
  BY DEF Tracker!NotifiedOnce, Tracker!Finished
<1> QED
  BY <1>2, <1>3, <1>4, <1>6, <1>7, <1>8

-----------------------------------------------------------------------------
\* Complete gives the slot back, reports the task, and has startNextWaiter
\* still to run.
LEMMA CompleteStep ==
    ASSUME TrackerAssumption, TrackerInv, NEW t \in Task, Tracker!Complete(t)
    PROVE  TrackerInv'
<1> USE DEF TrackerInv, Types, Tracker!Complete
<1>1. t \in Tracker!Holders /\ Tracker!Holders' = Tracker!Holders \ {t} /\ t \notin Tracker!Completing
      /\ Tracker!Completing' = Tracker!Completing \cup {t}
  BY DEF Tracker!Holders, Tracker!Completing, Tracker!Finished, TaskTypes, PhaseInv
<1>2. /\ Cardinality(Tracker!Holders) > 0 /\ Cardinality(Tracker!Holders') = Cardinality(Tracker!Holders) - 1
      /\ Cardinality(Tracker!Completing') = Cardinality(Tracker!Completing) + 1
  BY <1>1, Counted, CountTasks DEF TrackerAssumption
<1>3. running > 0 /\ running' = running - 1
  BY SameCounting, <1>2 DEF Tracker!SlotsCounted, Tracker!Released
<1>4. TaskTypes' /\ CountTypes'
  <2>1. running' \in Nat
    BY <1>3 DEF CountTypes
  <2>2. CountTypes'
    BY <2>1 DEF CountTypes, Tracker!Added, Tracker!Id
  <2>3. TaskTypes'
    BY DEF TaskTypes, Tracker!Loop
  <2> QED
    BY <2>2, <2>3
<1>5. PhaseInv' /\ QueueTypes' /\ TrackerQueueInv'
  BY QueueKept DEF TaskTypes, PhaseInv
<1>6. Tracker!SlotsCounted' /\ Tracker!NoStrandedWaiter'
  BY SameCounting, <1>2, <1>3, Counted
     DEF Tracker!SlotsCounted, Tracker!NoStrandedWaiter, CountTypes
<1>7. Tracker!NotifiedOnce'
  BY DEF Tracker!NotifiedOnce, Tracker!Finished, Tracker!Added, TaskTypes, CountTypes
<1> QED
  BY <1>4, <1>5, <1>6, <1>7

\* startNextWaiter hands the slot to the head of the FIFO.
LEMMA StartNextStep ==
    ASSUME TrackerAssumption, TrackerInv, NEW t \in Task, Tracker!StartNextWaiter(t)
    PROVE  TrackerInv'
<1> USE DEF TrackerInv, Types, Tracker!StartNextWaiter, Tracker!Reoccupied
<1> DEFINE h == Head(fifo)
<1>1. /\ h \in Task /\ h = fifo[1] /\ Len(fifo) \in Nat /\ Len(fifo) >= 1
      /\ Len(fifo') = Len(fifo) - 1 /\ fifo' \in Seq(Task)
      /\ \A n \in 1 .. Len(fifo') : fifo'[n] = fifo[n + 1]
  BY DEF QueueTypes
<1>2. launch[h] = "waiting" /\ h # t
  BY <1>1 DEF TrackerQueueInv, PhaseInv
<1>3. Types'
  <2>1. Len(fifo') <= QueueBound
    BY <1>1 DEF QueueTypes, TrackerAssumption, Tracker!QueueAssumption
  <2> QED
    <3>1. TaskTypes' /\ CountTypes'
      <4>1. running' \in Nat
        BY DEF CountTypes
      <4>2. CountTypes'
        BY <4>1 DEF CountTypes
      <4>3. TaskTypes'
        BY <1>1 DEF TaskTypes, Tracker!Launch, Tracker!Loop
      <4> QED
        BY <4>2, <4>3
    <3> QED
      BY <1>1, <2>1, <3>1 DEF QueueTypes
<1>4. PhaseInv'
  BY <1>1, <1>2 DEF TaskTypes, PhaseInv
<1>5. TrackerQueueInv'
  <2>1. \A n \in 1 .. Len(fifo') :
          n + 1 \in 1 .. Len(fifo) /\ fifo'[n] # h /\ fifo'[n] \in Task
    <3>1. \A n \in 1 .. Len(fifo') : n + 1 \in 1 .. Len(fifo) /\ n + 1 # 1
      BY <1>1
    <3> QED
      BY <1>1, <3>1, Enqueued DEF TrackerQueueInv
  <2>2. ASSUME NEW m \in 1 .. Len(fifo'), NEW n \in 1 .. Len(fifo'),
               fifo'[m] = fifo'[n]
        PROVE  m = n
    <3>1. m + 1 = n + 1
      BY <1>1, <2>1, <2>2 DEF TrackerQueueInv
    <3> QED
      BY <3>1
  <2>3. \A n \in 1 .. Len(fifo') : launch'[fifo'[n]] = "waiting"
    <3>1. launch' = [launch EXCEPT ![h] = "admitted"]
      OBVIOUS
    <3>2. \A n \in 1 .. Len(fifo') : launch[fifo'[n]] = "waiting"
      BY <1>1, <2>1 DEF TrackerQueueInv
    <3> QED
      BY <2>1, <3>1, <3>2 DEF TaskTypes
  <2> QED
    BY <2>2, <2>3 DEF TrackerQueueInv
<1>6. h \notin Tracker!Holders /\ Tracker!Holders' = Tracker!Holders \cup {h}
      /\ t \in Tracker!Completing /\ Tracker!Completing' = Tracker!Completing \ {t}
  BY <1>1, <1>2 DEF Tracker!Holders, Tracker!Completing, Tracker!Finished, TaskTypes, PhaseInv
<1>7. /\ Cardinality(Tracker!Holders') = Cardinality(Tracker!Holders) + 1
      /\ Cardinality(Tracker!Completing') = Cardinality(Tracker!Completing) - 1
  BY <1>1, <1>6, Counted, CountTasks DEF TrackerAssumption
<1>8. Tracker!SlotsCounted'
  BY SameCounting, <1>7 DEF Tracker!SlotsCounted
<1>9. Tracker!NoStrandedWaiter'
  <2>1. running + Cardinality(Tracker!Completing) >= Cap
    BY SameCounting DEF Tracker!NoStrandedWaiter
  <2> QED
    BY SameCounting, <1>7, <2>1, Counted DEF Tracker!NoStrandedWaiter, CountTypes
<1>10. Tracker!NotifiedOnce'
  BY DEF Tracker!NotifiedOnce, Tracker!Finished, TaskTypes
<1> QED
  BY <1>3, <1>4, <1>5, <1>8, <1>9, <1>10

\* startNextWaiter finds nobody.
LEMMA NothingToStartStep ==
    ASSUME TrackerAssumption, TrackerInv, NEW t \in Task, Tracker!NothingToStart(t)
    PROVE  TrackerInv'
<1> USE DEF TrackerInv, Types, Tracker!NothingToStart
<1>1. Types' /\ PhaseInv' /\ TrackerQueueInv'
  BY DEF TaskTypes, CountTypes, QueueTypes, Tracker!Loop, PhaseInv, TrackerQueueInv
<1>2. Tracker!Holders' = Tracker!Holders
  BY DEF Tracker!Holders, Tracker!Finished, TaskTypes
<1>3. Tracker!SlotsCounted' /\ Tracker!NoStrandedWaiter'
  BY <1>2 DEF Tracker!SlotsCounted, Tracker!NoStrandedWaiter, Tracker!NoWaiter
<1>4. Tracker!NotifiedOnce'
  BY DEF Tracker!NotifiedOnce, Tracker!Finished, TaskTypes
<1> QED
  BY <1>1, <1>3, <1>4

-----------------------------------------------------------------------------
\* Notifications: a Bash completion is another id's, and a drain moves what is
\* pending to what is delivered.
LEMMA NotifyStep ==
    ASSUME TrackerAssumption, TrackerInv, (\E s \in Shell : Tracker!CompleteShell(s)) \/ Tracker!Drain
    PROVE  TrackerInv'
<1> USE DEF TrackerInv, Types
<1>1. UNCHANGED <<launch, loop, cancelled, running, cancels, fifo, reaping>>
  BY DEF Tracker!CompleteShell, Tracker!Drain
<1>2. pend' \subseteq Tracker!Id /\ delivered' \in [Tracker!Id -> Nat]
  BY DEF Tracker!CompleteShell, Tracker!Drain, Tracker!Drained, Tracker!Added, Tracker!Id,
         CountTypes
<1>3. Types' /\ PhaseInv' /\ TrackerQueueInv'
  BY <1>1, <1>2 DEF TaskTypes, CountTypes, QueueTypes, PhaseInv, TrackerQueueInv
<1>4. Tracker!Holders' = Tracker!Holders /\ Tracker!Completing' = Tracker!Completing
  BY <1>1 DEF Tracker!Holders, Tracker!Completing, Tracker!Finished
<1>5. Tracker!SlotsCounted' /\ Tracker!NoStrandedWaiter'
  BY <1>1, <1>4 DEF Tracker!SlotsCounted, Tracker!NoStrandedWaiter
<1>6. Tracker!NotifiedOnce'
  <2>1. CASE Tracker!Drain
    BY <1>1, <2>1
       DEF Tracker!Drain, Tracker!Drained, Tracker!NotifiedOnce, Tracker!Finished,
           Tracker!Id, CountTypes
  <2>2. ASSUME NEW s \in Shell, Tracker!CompleteShell(s) PROVE Tracker!NotifiedOnce'
    BY <1>1, <2>2
       DEF Tracker!CompleteShell, Tracker!Added, Tracker!NotifiedOnce, Tracker!Finished,
           TrackerAssumption,
       Tracker!DistinctIds
  <2> QED
    BY <2>1, <2>2
<1> QED
  BY <1>3, <1>5, <1>6

\* Cancellation and close: the FIFO goes, the slots stay with their holders.
LEMMA CloseStep ==
    ASSUME TrackerAssumption, TrackerInv,
           \/ \E t \in Task : Tracker!CancelTask(t)
           \/ Tracker!CancelQueued \/ Tracker!CancelRunning \/ Tracker!DeleteTracker
    PROVE  TrackerInv'
<1> USE DEF TrackerInv, Types
<1>1. UNCHANGED <<loop, running, pend, delivered>>
  BY DEF Tracker!CancelTask, Tracker!CancelQueued, Tracker!CancelRunning, Tracker!DeleteTracker
<1>2. TaskTypes' /\ CountTypes'
  BY <1>1
     DEF Tracker!CancelTask, Tracker!CancelQueued, Tracker!CancelRunning,
         Tracker!DeleteTracker, Tracker!Invoked, TaskTypes,
     CountTypes, Tracker!Launch
<1>3. \A t \in Task : launch'[t] = launch[t] \/ {launch[t], launch'[t]} = {"waiting", "dropped"}
  BY DEF Tracker!CancelTask, Tracker!CancelQueued, Tracker!CancelRunning,
         Tracker!DeleteTracker, TaskTypes
<1>4. fifo' = <<>> \/ (fifo' = fifo /\ launch' = launch)
  BY DEF Tracker!CancelTask, Tracker!CancelQueued, Tracker!CancelRunning, Tracker!DeleteTracker
<1>5. PhaseInv'
  BY <1>1, <1>3 DEF PhaseInv
<1>9. QueueTypes' /\ TrackerQueueInv'
  <2>1. CASE fifo' = <<>>
    <3>1. Len(fifo') = 0 /\ fifo' \in Seq(Task)
      BY <2>1
    <3> QED
      BY <3>1 DEF QueueTypes, TrackerQueueInv, TrackerAssumption, Tracker!QueueAssumption
  <2>2. CASE fifo' = fifo /\ launch' = launch
    BY <2>2, QueueKept
  <2> QED
    BY <1>4, <2>1, <2>2
<1>6. Tracker!Holders' = Tracker!Holders /\ Tracker!Completing' = Tracker!Completing
  BY <1>1, <1>3 DEF Tracker!Holders, Tracker!Completing, Tracker!Finished
<1>7. Tracker!SlotsCounted' /\ Tracker!NoStrandedWaiter'
  BY <1>1, <1>4, <1>6 DEF Tracker!SlotsCounted, Tracker!NoStrandedWaiter
<1>8. Tracker!NotifiedOnce'
  BY <1>1 DEF Tracker!NotifiedOnce, Tracker!Finished
<1> QED
  BY <1>2, <1>5, <1>9, <1>7, <1>8

\* A step that changes nothing keeps the invariant.
LEMMA TrackerStutter == ASSUME TrackerInv, UNCHANGED Tracker!vars PROVE TrackerInv'
<1> USE DEF TrackerInv, Types, Tracker!vars
<1>1. Types' /\ PhaseInv' /\ TrackerQueueInv'
  BY DEF TaskTypes, CountTypes, QueueTypes, PhaseInv, TrackerQueueInv
<1>2. Tracker!Holders' = Tracker!Holders /\ Tracker!Completing' = Tracker!Completing
  BY DEF Tracker!Holders, Tracker!Completing, Tracker!Finished
<1>3. Tracker!SlotsCounted' /\ Tracker!NoStrandedWaiter' /\ Tracker!NotifiedOnce'
  BY <1>2 DEF Tracker!SlotsCounted, Tracker!NoStrandedWaiter, Tracker!NotifiedOnce, Tracker!Finished
<1> QED
  BY <1>1, <1>3

-----------------------------------------------------------------------------
\* The inductive invariant of the tracker.
THEOREM TrackerInvariance == ASSUME TrackerAssumption PROVE Tracker!Spec => []TrackerInv
<1>1. Tracker!Init => TrackerInv
  BY InitTracker
<1>2. TrackerInv /\ [Tracker!Next]_(Tracker!vars) => TrackerInv'
  <2> SUFFICES ASSUME TrackerInv, [Tracker!Next]_(Tracker!vars) PROVE TrackerInv'
    OBVIOUS
  <2>1. ASSUME NEW t \in Task,
               \/ Tracker!LaunchBackground(t) \/ Tracker!RegisterRejected(t) \/ Tracker!RunEnds(t)
               \/ Tracker!Register(t) \/ Tracker!RegisterQueued(t)
        PROVE  TrackerInv'
    BY <2>1, LaunchMoves, RegisterStep, RegisterQueuedStep
  <2>2. ASSUME NEW t \in Task, Tracker!Goroutine(t) PROVE TrackerInv'
    BY <2>2, LaunchMoves, CompleteStep, StartNextStep, NothingToStartStep DEF Tracker!Goroutine
  <2> QED
    BY <2>1, <2>2, NotifyStep, CloseStep, TrackerStutter DEF Tracker!Next
<1> QED
  BY <1>1, <1>2, PTL DEF Tracker!Spec

\* Type correctness of the tracker.
THEOREM TrackerTypes == ASSUME TrackerAssumption PROVE Tracker!Spec => []Tracker!TypeOK
<1>1. TrackerInv => Tracker!TypeOK
  BY DEF TrackerInv, Types, TaskTypes, CountTypes, QueueTypes, Tracker!TypeOK
<1> QED
  BY <1>1, TrackerInvariance, PTL

\* No path of admission, completion, cancellation or close leaks a slot or gives
\* one back twice, and no waiter is left beside a free one.
THEOREM SlotsAndWaiters ==
    ASSUME TrackerAssumption PROVE Tracker!Spec => [](Tracker!SlotsCounted /\ Tracker!NoStrandedWaiter)
<1>1. TrackerInv => Tracker!SlotsCounted /\ Tracker!NoStrandedWaiter
  BY DEF TrackerInv
<1> QED
  BY <1>1, TrackerInvariance, PTL

\* Each subagent is reported once, however it ends, and never before.
THEOREM ReportedOnce == ASSUME TrackerAssumption PROVE Tracker!Spec => []Tracker!NotifiedOnce
<1>1. TrackerInv => Tracker!NotifiedOnce
  BY DEF TrackerInv
<1> QED
  BY <1>1, TrackerInvariance, PTL
-----------------------------------------------------------------------------
(***************************************************************************)
(* The persistent shell: what the window reads as a call's sentinel was    *)
(* printed after that call's command had ended.                            *)
(***************************************************************************)
CONSTANTS Call, ChunkBuf, MaxGen, MaxOut
VARIABLES mu, open, started, gen, shell, job, outs, ran, tty, readCh, deadCh, notes, call, drained

Pty == INSTANCE PtyShell

PtyAssumption == Pty!ChunkBufAssumption /\ Pty!BoundsAssumption

CallRecord == [pc : {"idle", "queued", "launch", "write", "window", "done"}, expired : BOOLEAN,
               capture : SUBSET Pty!Chunk, result : {"none", "ok", "error", "cancelled", "interrupted"}]

\* Output on its way: a sentinel in it tells of a command that ran to its end.
Honest == {k \in Pty!Chunk : k[1] = "sentinel" => k[2] \in ran}

PtyTypes ==
    /\ mu \in Call \union {Pty!NoCall} /\ open \in BOOLEAN /\ started \in BOOLEAN /\ deadCh \in BOOLEAN
    /\ gen \in 0..MaxGen /\ outs \in 0..MaxOut /\ shell \in {"none", "ready", "busy", "gone"}
    /\ job \in Call \union {Pty!NoCall} /\ (shell = "busy" => job \in Call)
    /\ ran \in SUBSET Call /\ call \in [Call -> CallRecord] /\ drained \in BOOLEAN

HonestInv == tty \in Seq(Honest) /\ readCh \in Seq(Honest) /\ Len(readCh) <= ChunkBuf

PtyInv == PtyTypes /\ HonestInv /\ Pty!OkMeansRan

\* More commands that have ended make no sentinel a lie.
LEMMA HonestGrows ==
    ASSUME NEW s \in Seq(Honest), ran \subseteq ran'
    PROVE  s \in Seq(Honest')
<1>1. Honest \subseteq Honest'
  BY DEF Honest, Pty!Chunk
<1>2. Len(s) \in Nat /\ s \in [1..Len(s) -> Honest']
  BY <1>1
<1> QED
  BY <1>2

\* What markDeadLocked leaves.
LEMMA MarkDeadKeeps ==
    ASSUME PtyAssumption, PtyTypes, Pty!MarkDead
    PROVE  /\ open' = FALSE /\ started' \in BOOLEAN /\ gen' \in 0..MaxGen /\ outs' \in 0..MaxOut
           /\ shell' \in {"none", "gone"} /\ job' = Pty!NoCall /\ ran' = ran
           /\ tty' = <<>> /\ readCh' = <<>>
BY DEF PtyAssumption, Pty!BoundsAssumption, PtyTypes, Pty!MarkDead

LEMMA InitPty == ASSUME PtyAssumption, Pty!Init PROVE PtyInv
<1>1. Pty!Fresh \in CallRecord
  BY DEF CallRecord, Pty!Fresh
<1>4. 0 \in 0..MaxGen /\ 0 \in 0..MaxOut
  BY DEF PtyAssumption, Pty!BoundsAssumption
<1>3. PtyTypes
  BY <1>1, <1>4 DEF Pty!Init, PtyTypes
<1>2. HonestInv /\ Pty!OkMeansRan
  BY DEF Pty!Init, HonestInv, Pty!OkMeansRan, Pty!Fresh, PtyAssumption, Pty!ChunkBufAssumption
<1> QED
  BY <1>2, <1>3 DEF PtyInv

\* A call comes, or its timeout fires.
LEMMA CallMoves ==
    ASSUME PtyInv, NEW c \in Call, Pty!BashPersistentRun(c) \/ Pty!Expire(c)
    PROVE  PtyInv'
<1>4. call' \in [Call -> CallRecord]
  <2>1. call \in [Call -> CallRecord]
    BY DEF PtyInv, PtyTypes
  <2>2. CASE Pty!BashPersistentRun(c)
    BY <2>1, <2>2 DEF CallRecord, Pty!BashPersistentRun, Pty!To
  <2>3. CASE Pty!Expire(c)
    BY <2>1, <2>3 DEF CallRecord, Pty!Expire
  <2> QED
    BY <2>2, <2>3
<1>1. PtyTypes'
  BY <1>4 DEF PtyInv, PtyTypes, Pty!BashPersistentRun, Pty!Expire, Pty!Process
<1>2. UNCHANGED <<ran, tty, readCh>> /\ \A d \in Call : call'[d].result = call[d].result
  BY DEF PtyInv, PtyTypes, CallRecord, Pty!BashPersistentRun, Pty!Expire, Pty!To, Pty!Process
<1>3. Honest' = Honest
  BY <1>2 DEF Honest
<1> QED
  BY <1>1, <1>2, <1>3 DEF PtyInv, HonestInv, Pty!OkMeansRan

\* The call that holds the mutex: what it changes, and that it reports an exit status
\* only on a sentinel.
LEMMA HolderStep ==
    ASSUME PtyAssumption, PtyInv, NEW c \in Call, Pty!RunStep(c) \/ Pty!WindowEnds(c)
    PROVE  PtyInv'
<1> USE DEF PtyInv
<1>1. CASE Pty!Run(c)
  <2>1. CASE Pty!LostShell
    <3>1. Pty!MarkDead /\ mu' = c /\ UNCHANGED <<deadCh, drained>> /\ Pty!To(c, "launch")
      BY <1>1, <2>1 DEF Pty!Run
    <3>2. PtyTypes' /\ \A d \in Call : call'[d].result = call[d].result
      BY <3>1, MarkDeadKeeps DEF PtyTypes, CallRecord, Pty!To
    <3>3. HonestInv'
      BY <3>1, MarkDeadKeeps DEF HonestInv, PtyAssumption, Pty!ChunkBufAssumption
    <3> QED
      BY <3>1, <3>2, <3>3, MarkDeadKeeps DEF Pty!OkMeansRan
  <2>2. CASE ~Pty!LostShell
    <3>1. /\ UNCHANGED <<open, started, gen, shell, job, outs, ran, tty, readCh, deadCh, drained>>
          /\ mu' = c /\ Pty!To(c, "launch")
      BY <1>1, <2>2 DEF Pty!Run
    <3>2. PtyTypes' /\ \A d \in Call : call'[d].result = call[d].result
      BY <3>1 DEF PtyTypes, CallRecord, Pty!To
    <3>3. Honest' = Honest
      BY <3>1 DEF Honest
    <3> QED
      BY <3>1, <3>2, <3>3 DEF HonestInv, Pty!OkMeansRan
  <2> QED
    BY <2>1, <2>2
<1>2. CASE Pty!EnsureShell(c)
  <2>1. /\ ran' = ran /\ \A d \in Call : call'[d].result = "ok" => call[d].result = "ok"
        /\ tty' \in {tty, <<>>} /\ readCh' \in {readCh, <<>>}
    BY <1>2 DEF PtyTypes, CallRecord, Pty!EnsureShell, Pty!To, Pty!Return
  <2>2. PtyTypes'
    <3>1. call' \in [Call -> CallRecord]
      BY <1>2 DEF PtyTypes, CallRecord, Pty!EnsureShell, Pty!To, Pty!Return
    <3>2. gen' \in 0..MaxGen /\ outs' \in 0..MaxOut
      BY <1>2 DEF PtyTypes, Pty!EnsureShell, PtyAssumption, Pty!BoundsAssumption
    <3>3. /\ shell' \in {"none", "ready", "busy", "gone"} /\ (shell' = "busy" => job' \in Call)
          /\ job' \in Call \union {Pty!NoCall}
      BY <1>2 DEF PtyTypes, Pty!EnsureShell
    <3>4. /\ mu' \in Call \union {Pty!NoCall} /\ open' \in BOOLEAN /\ started' \in BOOLEAN
          /\ deadCh' \in BOOLEAN /\ drained' \in BOOLEAN /\ ran' \in SUBSET Call
      BY <1>2, <2>1 DEF PtyTypes, Pty!EnsureShell, Pty!Return
    <3> QED
      BY <3>1, <3>2, <3>3, <3>4 DEF PtyTypes
  <2>3. Honest' = Honest
    BY <2>1 DEF Honest
  <2>4. HonestInv'
    <3>1. <<>> \in Seq(Honest) /\ Len(<<>>) <= ChunkBuf
      BY DEF PtyAssumption, Pty!ChunkBufAssumption
    <3> QED
      BY <2>1, <2>3, <3>1 DEF HonestInv
  <2> QED
    BY <2>1, <2>2, <2>4 DEF Pty!OkMeansRan
<1>3. CASE Pty!Write(c)
  <2>1. CASE shell = "gone"
    <3>1. Pty!MarkDead /\ Pty!Return(c, "error") /\ UNCHANGED <<deadCh, drained>>
      BY <1>3, <2>1 DEF Pty!Write
    <3>2. PtyTypes' /\ \A d \in Call : call'[d].result = "ok" => call[d].result = "ok"
      BY <3>1, MarkDeadKeeps DEF PtyTypes, CallRecord, Pty!Return
    <3>3. HonestInv'
      BY <3>1, MarkDeadKeeps DEF HonestInv, PtyAssumption, Pty!ChunkBufAssumption
    <3> QED
      BY <3>1, <3>2, <3>3, MarkDeadKeeps DEF Pty!OkMeansRan
  <2>2. CASE shell # "gone"
    <3>1. /\ readCh' = <<>> /\ shell' = "busy" /\ job' = c /\ outs' = 0 /\ Pty!To(c, "window")
          /\ UNCHANGED <<mu, open, started, gen, ran, tty, deadCh, drained>>
      BY <1>3, <2>2 DEF Pty!Write
    <3>2. PtyTypes' /\ \A d \in Call : call'[d].result = call[d].result
      BY <3>1 DEF PtyTypes, CallRecord, Pty!To, PtyAssumption, Pty!BoundsAssumption
    <3>3. Honest' = Honest
      BY <3>1 DEF Honest
    <3> QED
      BY <3>1, <3>2, <3>3 DEF HonestInv, Pty!OkMeansRan, PtyAssumption, Pty!ChunkBufAssumption
  <2> QED
    BY <2>1, <2>2
<1>4. CASE Pty!WindowCancelled(c) \/ Pty!WindowDead(c) \/ Pty!WindowEnds(c)
  <2>1. /\ Pty!MarkDead /\ UNCHANGED <<deadCh, drained>>
        /\ Pty!Return(c, "cancelled") \/ Pty!Return(c, "interrupted")
    BY <1>4 DEF Pty!WindowCancelled, Pty!WindowDead, Pty!WindowEnds
  <2>4. PICK r \in {"cancelled", "interrupted"} : Pty!Return(c, r)
    BY <2>1
  <2>5. call' \in [Call -> CallRecord] /\ mu' = Pty!NoCall
    BY <2>4 DEF PtyTypes, CallRecord, Pty!Return
  <2>6. \A d \in Call : call'[d].result = "ok" => call[d].result = "ok"
    BY <2>4 DEF PtyTypes, CallRecord, Pty!Return
  <2>2. PtyTypes' /\ \A d \in Call : call'[d].result = "ok" => call[d].result = "ok"
    BY <2>1, <2>5, <2>6, MarkDeadKeeps DEF PtyTypes
  <2>3. HonestInv'
    BY <2>1, MarkDeadKeeps DEF HonestInv, PtyAssumption, Pty!ChunkBufAssumption
  <2> QED
    BY <2>1, <2>2, <2>3, MarkDeadKeeps DEF Pty!OkMeansRan
<1>5. CASE Pty!WindowRead(c)
  <2>1. /\ readCh # <<>> /\ readCh' = Tail(readCh) /\ UNCHANGED <<open, started, gen, deadCh, drained>>
        /\ UNCHANGED <<shell, job, outs, ran, tty>>
    BY <1>5 DEF Pty!WindowRead, Pty!Process
  <2>2. Head(readCh) \in Honest
    BY <2>1 DEF HonestInv
  <2>3. Honest' = Honest
    BY <2>1 DEF Honest
  <2>4. HonestInv'
    BY <2>1, <2>3 DEF HonestInv, PtyAssumption, Pty!ChunkBufAssumption
  <2>5. CASE Pty!ParseSentinel(c, Head(readCh))
    <3>1. Pty!Return(c, "ok") /\ c \in ran
      BY <1>5, <2>2, <2>5 DEF Pty!WindowRead, Pty!ParseSentinel, Honest
    <3>2. PtyTypes' /\ \A d \in Call : d # c => call'[d] = call[d]
      BY <2>1, <3>1 DEF PtyTypes, CallRecord, Pty!Return
    <3> QED
      BY <2>1, <2>4, <3>1, <3>2 DEF Pty!OkMeansRan
  <2>6. CASE ~Pty!ParseSentinel(c, Head(readCh))
    <3>1. call' = [call EXCEPT ![c].capture = @ \union {Head(readCh)}] /\ UNCHANGED mu
      BY <1>5, <2>6 DEF Pty!WindowRead
    <3>2. PtyTypes' /\ \A d \in Call : call'[d].result = call[d].result
      BY <2>1, <2>2, <3>1 DEF PtyTypes, CallRecord, Honest
    <3> QED
      BY <2>1, <2>4, <3>1, <3>2 DEF Pty!OkMeansRan
  <2> QED
    BY <2>5, <2>6
<1> QED
  BY <1>1, <1>2, <1>3, <1>4, <1>5 DEF Pty!RunStep

\* The shell and its goroutines: a sentinel follows the end of its command.
LEMMA ShellStep ==
    ASSUME PtyAssumption, PtyInv,
           \/ \E k \in {"out", "lookalike"} : Pty!Prints(k)
           \/ Pty!Completes \/ Pty!ShellExits \/ Pty!Reaped \/ Pty!Reads
    PROVE  PtyInv'
<1> USE DEF PtyInv
<1>1. UNCHANGED <<mu, open, started, gen, call, drained>> /\ ran \subseteq ran'
  BY DEF Pty!Prints, Pty!Completes, Pty!ShellExits, Pty!Reaped, Pty!Reads, Pty!Manager, Pty!Process
<1>2. PtyTypes'
  <2>1. outs' \in 0..MaxOut /\ ran' \in SUBSET Call /\ deadCh' \in BOOLEAN
    <3> USE DEF PtyTypes
    <3>1. ASSUME NEW k \in {"out", "lookalike"}, Pty!Prints(k)
          PROVE  outs' \in 0..MaxOut /\ ran' = ran /\ deadCh' = deadCh
      BY <3>1 DEF Pty!Prints, PtyAssumption, Pty!BoundsAssumption
    <3>2. CASE Pty!Completes
      <4>1. job \in Call /\ outs' = 0 /\ ran' = ran \union {job} /\ deadCh' = deadCh
        BY <3>2 DEF Pty!Completes
      <4> QED
        BY <4>1 DEF PtyAssumption, Pty!BoundsAssumption
    <3>3. CASE Pty!ShellExits
      BY <3>3 DEF Pty!ShellExits, PtyAssumption, Pty!BoundsAssumption
    <3>4. CASE Pty!Reaped \/ Pty!Reads
      BY <3>4 DEF Pty!Reaped, Pty!Reads, Pty!Process
    <3> QED
      BY <3>1, <3>2, <3>3, <3>4
  <2>2. /\ shell' \in {"none", "ready", "busy", "gone"}
        /\ job' \in Call \union {Pty!NoCall} /\ (shell' = "busy" => job' \in Call)
    BY DEF PtyTypes,
           Pty!Prints, Pty!Completes, Pty!ShellExits, Pty!Reaped, Pty!Reads, Pty!Process
  <2> QED
    BY <1>1, <2>1, <2>2 DEF PtyTypes
<1>3. tty \in Seq(Honest') /\ readCh \in Seq(Honest')
  BY <1>1, HonestGrows DEF HonestInv
<1>4. HonestInv'
  <2>1. ASSUME NEW k \in {"out", "lookalike"}, Pty!Prints(k) PROVE HonestInv'
    <3>1. <<k, job>> \in Honest'
      BY <2>1 DEF PtyTypes, Honest, Pty!Chunk, Pty!Prints
    <3> QED
      BY <2>1, <1>3, <3>1 DEF HonestInv, Pty!Prints
  <2>2. CASE Pty!Completes
    <3>1. <<"sentinel", job>> \in Honest'
      BY <2>2 DEF PtyTypes, Honest, Pty!Chunk, Pty!Completes
    <3>2. readCh' = readCh /\ (tty' = Append(tty, <<"sentinel", job>>) \/ tty' = tty)
      BY <2>2 DEF Pty!Completes
    <3>3. CASE tty' = Append(tty, <<"sentinel", job>>)
      BY <1>3, <3>1, <3>2, <3>3 DEF HonestInv
    <3>4. CASE tty' = tty
      BY <1>3, <3>2, <3>4 DEF HonestInv
    <3> QED
      BY <3>2, <3>3, <3>4
  <2>3. CASE Pty!ShellExits \/ Pty!Reaped
    BY <2>3, <1>3 DEF HonestInv, Pty!ShellExits, Pty!Reaped, Pty!Process
  <2>4. CASE Pty!Reads
    <3>1. Head(tty) \in Honest' /\ Tail(tty) \in Seq(Honest')
      BY <2>4, <1>3 DEF Pty!Reads
    <3>2. readCh' = Append(readCh, Head(tty)) /\ tty' = Tail(tty) /\ Len(readCh) < ChunkBuf
      BY <2>4 DEF Pty!Reads
    <3> QED
      BY <1>3, <3>1, <3>2 DEF HonestInv, PtyAssumption, Pty!ChunkBufAssumption
  <2> QED
    BY <2>1, <2>2, <2>3, <2>4
<1> QED
  BY <1>1, <1>2, <1>4 DEF Pty!OkMeansRan

LEMMA DrainKeeps == ASSUME PtyAssumption, PtyInv, Pty!Drain PROVE PtyInv'
<1> USE DEF PtyInv
<1>1. UNCHANGED <<mu, deadCh, call>> /\ drained' = TRUE
  BY DEF Pty!Drain
<1>2. CASE shell = "none"
  <2>1. UNCHANGED <<open, started, gen, shell, job, outs, ran, tty, readCh>>
    BY <1>2 DEF Pty!Drain
  <2>2. Honest' = Honest
    BY <2>1 DEF Honest
  <2> QED
    BY <1>1, <2>1, <2>2 DEF PtyTypes, HonestInv, Pty!OkMeansRan
<1>3. CASE shell # "none"
  <2>1. Pty!MarkDead
    BY <1>3 DEF Pty!Drain
  <2>2. PtyTypes'
    BY <1>1, <2>1, MarkDeadKeeps DEF PtyTypes
  <2>3. HonestInv'
    BY <2>1, MarkDeadKeeps DEF HonestInv, PtyAssumption, Pty!ChunkBufAssumption
  <2> QED
    BY <1>1, <2>1, <2>2, <2>3, MarkDeadKeeps DEF Pty!OkMeansRan
<1> QED
  BY <1>2, <1>3

\* A call that reports an exit status ran its command to the end, for any calls,
\* shells and channel size: neither its own output nor a neighbour's leftovers can
\* end the capture; with the types of the module.
THEOREM ReportedRan == ASSUME PtyAssumption PROVE Pty!Spec => [](Pty!TypeOK /\ Pty!OkMeansRan)
<1>1. Pty!Init => PtyInv
  BY InitPty
<1>2. PtyInv /\ [Pty!Next]_(Pty!vars) => PtyInv'
  <2> SUFFICES ASSUME PtyInv, [Pty!Next]_(Pty!vars) PROVE PtyInv'
    OBVIOUS
  <2>1. CASE UNCHANGED Pty!vars
    BY <2>1 DEF Pty!vars, PtyInv, PtyTypes, HonestInv, Honest, Pty!OkMeansRan
  <2>2. CASE Pty!Next
    BY <2>2, CallMoves, HolderStep, ShellStep, DrainKeeps DEF Pty!Next
  <2> QED
    BY <2>1, <2>2
<1>3. PtyInv => Pty!TypeOK /\ Pty!OkMeansRan
  BY DEF PtyInv, PtyTypes, HonestInv, CallRecord, Pty!TypeOK
<1> QED
  BY <1>1, <1>2, <1>3, PTL DEF Pty!Spec
=============================================================================
