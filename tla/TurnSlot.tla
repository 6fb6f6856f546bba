------------------------------ MODULE TurnSlot ------------------------------
(***************************************************************************)
(* kit/runtime/runtime.go and cron_wiring.go with kit/session/             *)
(* steerqueue.go: who may run a turn on one session, and what is carried   *)
(* into it.  Client prompts (Run) classify themselves before the session   *)
(* turn mutex and steer a running turn through the SteerQueue; automation  *)
(* firings wait for the mutex; the wake chain only tries it, and delivers  *)
(* task notifications.  Engine chains are off (sess.Prompt runs the turn). *)
(*                                                                         *)
(* A step is one critical section or one lock operation.  registerActive-  *)
(* Turn follows the Lock under it and is left out with /undo, its reader.  *)
(***************************************************************************)
EXTENDS Naturals, FiniteSets

CONSTANTS Client,       \* session/prompt requests
          Automation,   \* due automations, already claimed
          Chain,        \* wake-drain goroutines
          Note,         \* task notifications
          Nobody

VARIABLES mu,           \* the session turn mutex: its holder, or Nobody
          active,       \* turnActive: the client-turn flag
          origin,       \* the session's turn-origin-automation flag
          items,        \* SteerQueue.items, in the order of ticket
          ticket,       \* ticket[c], 0 before c is enqueued
          next,         \* SteerQueue.next
          pc,           \* where each goroutine is
          highest,      \* highest[c]: CancelAll's local
          pending,      \* the tracker's pending notifications
          posted,       \* notifications completed, their drain call still due
          scheduled,    \* notifications whose drain call was made
          batch,        \* batch[w]: what the wake turn of w carries
          inFlight,     \* the wake chain's in-flight flag
          delivered,    \* delivered[x]: history, the turn x was delivered into
          steered       \* steered[c]: history, the client turn c was enqueued for

Actor == Client \cup Automation \cup Chain

SlotAssumption ==
    /\ Client \cap Automation = {} /\ Client \cap Chain = {} /\ Automation \cap Chain = {}
    /\ Client \cap Note = {} /\ Nobody \notin Actor

steerVars == <<items, ticket, next>>
wakeVars  == <<pending, posted, scheduled, batch, inFlight>>
history   == <<delivered, steered>>
vars == <<mu, active, origin, steerVars, pc, highest, wakeVars, history>>

Init ==
    /\ mu = Nobody /\ active = FALSE /\ origin = FALSE
    /\ items = {} /\ ticket = [c \in Client |-> 0] /\ next = 0
    /\ pc = [x \in Actor |-> "idle"] /\ highest = [c \in Client |-> 0]
    /\ pending = {} /\ posted = {} /\ scheduled = {} /\ inFlight = FALSE
    /\ batch = [w \in Chain |-> {}]
    /\ delivered = [x \in Client \cup Note |-> Nobody]
    /\ steered = [c \in Client |-> Nobody]

Go(x, from, to) == pc[x] = from /\ pc' = [pc EXCEPT ![x] = to]

-----------------------------------------------------------------------------
(***************************************************************************)
(* Run: routeSteering, then the turn under the mutex.  A pending ask, a    *)
(* command or non-text input falls through although a turn is active.      *)
(***************************************************************************)
ClassifySteer(c) ==
    /\ active /\ Go(c, "idle", "steer")
    /\ UNCHANGED <<mu, active, origin, steerVars, highest, wakeVars, history>>

ClassifyTurn(c) ==
    /\ Go(c, "idle", "lock")
    /\ UNCHANGED <<mu, active, origin, steerVars, highest, wakeVars, history>>

SteerEnqueue(c) ==
    /\ Go(c, "steer", "done")
    /\ next' = next + 1
    /\ ticket' = [ticket EXCEPT ![c] = next + 1]
    /\ items' = items \cup {c}
    /\ steered' = [steered EXCEPT ![c] = IF active THEN mu ELSE Nobody]
    /\ UNCHANGED <<mu, active, origin, highest, wakeVars, delivered>>

Lock(x) == mu = Nobody /\ mu' = x

ClientLock(c) ==
    /\ Go(c, "lock", "mark") /\ Lock(c)
    /\ UNCHANGED <<active, origin, steerVars, highest, wakeVars, history>>

ClientMark(c) ==
    /\ Go(c, "mark", "loop")
    /\ active' = TRUE
    /\ UNCHANGED <<mu, origin, steerVars, highest, wakeVars, history>>

\* The deferred exits, last in first out: the flag, the steering, the mutex.
ClientUnmark(c) ==
    /\ Go(c, "ended", "read")
    /\ active' = FALSE
    /\ UNCHANGED <<mu, origin, steerVars, highest, wakeVars, history>>

HighestTicket == next

CancelAllRead(c) ==
    /\ Go(c, "read", "cancel")
    /\ highest' = [highest EXCEPT ![c] = HighestTicket]
    /\ UNCHANGED <<mu, active, origin, steerVars, wakeVars, history>>

\* Mutant: the highest ticket itself is left out.
CoveredBelow(c) == {i \in items : ticket[i] < highest[c]}

Covered(c) == {i \in items : ticket[i] <= highest[c]}

CancelThrough(c) ==
    /\ Go(c, "cancel", "unlock")
    /\ items' = items \ Covered(c)
    /\ UNCHANGED <<mu, active, origin, ticket, next, highest, wakeVars, history>>

ClientUnlock(c) ==
    /\ Go(c, "unlock", "done")
    /\ mu' = Nobody
    /\ UNCHANGED <<active, origin, steerVars, highest, wakeVars, history>>

(***************************************************************************)
(* Inside any turn: runTurn drains the queue at a model-request boundary   *)
(* and ends; a turn whose ctx was cancelled resolves the queue first       *)
(* (recordCanceled; an input that arrives inside its CancelAll survives it *)
(* as one that arrives just after).                                        *)
(***************************************************************************)
Boundary(x) ==
    /\ pc[x] = "loop" /\ items # {}
    /\ items' = {}
    /\ delivered' = [d \in Client \cup Note |-> IF d \in items THEN x ELSE delivered[d]]
    /\ UNCHANGED <<mu, active, origin, ticket, next, pc, highest, wakeVars, steered>>

RecordCanceled(x) ==
    /\ Go(x, "loop", "ended")
    /\ items' = {}
    /\ UNCHANGED <<mu, active, origin, ticket, next, highest, wakeVars, history>>

TurnEnds(x) ==
    /\ Go(x, "loop", "ended")
    /\ UNCHANGED <<mu, active, origin, steerVars, highest, wakeVars, history>>

-----------------------------------------------------------------------------
\* runAutomationTurn: the flag before the lock, and reset after the unlock.
AutomationFlag(a) ==
    /\ Go(a, "idle", "lock")
    /\ origin' = TRUE
    /\ UNCHANGED <<mu, active, steerVars, highest, wakeVars, history>>

AutomationLock(a) ==
    /\ Go(a, "lock", "loop") /\ Lock(a)
    /\ UNCHANGED <<active, origin, steerVars, highest, wakeVars, history>>

AutomationUnlock(a) ==
    /\ Go(a, "ended", "reset")
    /\ mu' = Nobody
    /\ UNCHANGED <<active, origin, steerVars, highest, wakeVars, history>>

AutomationReset(a) ==
    /\ Go(a, "reset", "done")
    /\ origin' = FALSE
    /\ UNCHANGED <<mu, active, steerVars, highest, wakeVars, history>>

-----------------------------------------------------------------------------
(***************************************************************************)
(* A background task completes, and its callback asks for a drain.         *)
(***************************************************************************)
Complete(n) ==
    /\ n \notin posted \cup scheduled
    /\ pending' = pending \cup {n}
    /\ posted' = posted \cup {n}
    /\ UNCHANGED <<mu, active, origin, steerVars, pc, highest, scheduled, batch,
                   inFlight, history>>

Claims == ~inFlight         \* flag.CompareAndSwap(false, true)

\* scheduleWakeDrain.
StartChain ==
    \E w \in Chain : Go(w, "idle", "peek") /\ inFlight' = TRUE

Schedule(n) ==
    /\ n \in posted
    /\ posted' = posted \ {n} /\ scheduled' = scheduled \cup {n}
    /\ IF Claims THEN StartChain ELSE UNCHANGED <<pc, inFlight>>
    /\ UNCHANGED <<mu, active, origin, steerVars, highest, pending, batch, history>>

\* wakeDrainChain and drainWakeNotifications.
WakePeek(w) ==
    /\ Go(w, "peek", IF pending = {} THEN "clear" ELSE "try")
    /\ UNCHANGED <<mu, active, origin, steerVars, highest, wakeVars, history>>

WakeBusy(w) ==      \* TryLock failed: sleep one interval, then peek again
    /\ mu # Nobody
    /\ Go(w, "try", "peek")
    /\ UNCHANGED <<mu, active, origin, steerVars, highest, wakeVars, history>>

WakeTake(w) ==
    /\ Go(w, "try", IF pending = {} THEN "unlock" ELSE "flag") /\ Lock(w)
    /\ batch' = [batch EXCEPT ![w] = pending]
    /\ pending' = {}
    /\ UNCHANGED <<active, origin, steerVars, highest, posted, scheduled, inFlight, history>>

WakeOrigin == TRUE

WakeFlag(w) ==
    /\ Go(w, "flag", "loop")
    /\ origin' = WakeOrigin
    /\ delivered' = [d \in Client \cup Note |-> IF d \in batch[w] THEN w ELSE delivered[d]]
    /\ UNCHANGED <<mu, active, steerVars, highest, wakeVars, steered>>

WakeReset(w) ==
    /\ Go(w, "ended", "unlock")
    /\ origin' = FALSE
    /\ UNCHANGED <<mu, active, steerVars, highest, wakeVars, history>>

WakeUnlock(w) ==
    /\ Go(w, "unlock", "clear")
    /\ mu' = Nobody
    /\ UNCHANGED <<active, origin, steerVars, highest, wakeVars, history>>

WakeClear(w) ==     \* the exit defer: flag.Store(false)
    /\ Go(w, "clear", "recheck")
    /\ inFlight' = FALSE
    /\ UNCHANGED <<mu, active, origin, steerVars, highest, pending, posted, scheduled,
                   batch, history>>

\* Mutant: the chain does not look again after it cleared its flag.
RestartNever == FALSE

Restarts == pending # {} /\ Claims

WakeExit(w) ==      \* the gated restart; a restarted chain is the successor
    /\ Go(w, "recheck", IF Restarts THEN "peek" ELSE "idle")
    /\ inFlight' = (Restarts \/ inFlight)
    /\ UNCHANGED <<mu, active, origin, steerVars, highest, pending, posted, scheduled,
                   batch, history>>

-----------------------------------------------------------------------------
ClientStep(c) ==
    \/ SteerEnqueue(c) \/ ClientLock(c) \/ ClientMark(c) \/ ClientUnmark(c)
    \/ CancelAllRead(c) \/ CancelThrough(c) \/ ClientUnlock(c)
AutomationStep(a) ==
    AutomationFlag(a) \/ AutomationLock(a) \/ AutomationUnlock(a) \/ AutomationReset(a)
WakeStep(w) ==
    \/ WakePeek(w) \/ WakeBusy(w) \/ WakeTake(w) \/ WakeFlag(w) \/ WakeReset(w)
    \/ WakeUnlock(w) \/ WakeClear(w) \/ WakeExit(w)

Next ==
    \/ \E c \in Client : ClassifySteer(c) \/ ClassifyTurn(c) \/ ClientStep(c)
    \/ \E a \in Automation : AutomationStep(a)
    \/ \E w \in Chain : WakeStep(w)
    \/ \E n \in Note : Complete(n) \/ Schedule(n)
    \/ \E x \in Actor : Boundary(x) \/ RecordCanceled(x) \/ TurnEnds(x)

Spec == Init /\ [][Next]_vars

(***************************************************************************)
(* Goroutines run and turns end; nothing forces a prompt, a firing or a    *)
(* task to complete.  The wake chain's retry timer fires.                  *)
(***************************************************************************)
FairSpec ==
    /\ Spec
    /\ \A c \in Client : WF_vars(ClientStep(c))
    /\ \A a \in Automation : WF_vars(pc[a] # "idle" /\ AutomationStep(a))
    /\ \A w \in Chain : WF_vars(WakeStep(w))
    /\ \A n \in Note : WF_vars(Schedule(n))
    /\ \A x \in Actor : WF_vars(TurnEnds(x))

-----------------------------------------------------------------------------
\* Type correctness.
TypeOK ==
    /\ mu \in Actor \cup {Nobody} /\ active \in BOOLEAN /\ origin \in BOOLEAN
    /\ items \subseteq Client /\ ticket \in [Client -> 0 .. Cardinality(Client)]
    /\ next \in 0 .. Cardinality(Client) /\ highest \in [Client -> 0 .. next]
    /\ pc \in [Actor -> {"idle", "steer", "lock", "mark", "loop", "ended", "read", "cancel", 
                         "unlock", "done", "reset", "peek", "try", "flag", "clear", "recheck"}]
    /\ pending \subseteq Note /\ posted \subseteq Note /\ scheduled \subseteq Note
    /\ batch \in [Chain -> SUBSET Note] /\ inFlight \in BOOLEAN
    /\ delivered \in [Client \cup Note -> Actor \cup {Nobody}]
    /\ steered \in [Client -> Actor \cup {Nobody}]

InLoop(x) == pc[x] = "loop"

(***************************************************************************)
(* The turn mutex is the serialization point: one turn's model loop at a   *)
(* time, whoever starts it.                                                *)
(***************************************************************************)
OneTurn == \A x, y \in Actor : InLoop(x) /\ InLoop(y) => x = y

(***************************************************************************)
(* What the permission gate reads during a turn is that turn's origin: a   *)
(* human's turn never has its asks declined as unattended, an unattended   *)
(* one never opens a dialog.                                               *)
(***************************************************************************)
OriginIsTheTurns == \A x \in Actor : InLoop(x) => (origin <=> x \notin Client)

(***************************************************************************)
(* An input enqueued while its turn was still marked active reaches that   *)
(* turn or none: the exit's CancelAll misses no such input.                *)
(***************************************************************************)
SteeringStaysInTurn ==
    \A c \in Client : steered[c] # Nobody => delivered[c] \in {steered[c], Nobody}

Working(w) == pc[w] \notin {"idle", "recheck"}

\* At most one drain chain works on the session at a time.
OneWakeChain == \A v, w \in Chain : Working(v) /\ Working(w) => v = w

(***************************************************************************)
(* No notification is lost in the race between a completion and the exit   *)
(* of the chain that would have carried it: each is delivered in a turn.   *)
(***************************************************************************)
EveryNoteDelivered == \A n \in Note : n \in pending ~> delivered[n] # Nobody
=============================================================================
