------------------------------ MODULE AskQueue ------------------------------
(***************************************************************************)
(* kit/session/askqueue.go: the per-session queue in front of the one      *)
(* dialog the operator can have open.  Turn and resume goroutines enqueue, *)
(* a pump goroutine fires, closes and resolves one ask after another, and  *)
(* teardown goroutines drain.  One step is one critical section of q.mu    *)
(* or one call made outside it, so drains interleave with the pump between *)
(* "the fire returned" and "the slot is cleared", and between reading the  *)
(* slot and cancelling it.                                                 *)
(*                                                                         *)
(* Enqueue assigns Seq and appends in one critical section and removals    *)
(* keep the order, so the slice q.queued is its entries in ascending Seq:  *)
(* the model keeps the set and the numbers.  pumpRunning is set and        *)
(* cleared together with firing and never read, so firing stands for both; *)
(* the enqueue counter is seq, and the "ask queued" note is left out.      *)
(***************************************************************************)
EXTENDS Naturals, Sequences, Functions

CONSTANTS Ask, Turn,
          TurnOf,       \* TurnOf[a]: entry.TurnID
          Foreground,   \* entries of AskClassForeground
          Pump,         \* pump goroutines: the code means to run one at a time
          Drainer,      \* teardown goroutines: session/cancel, logout, shutdown
          NoAsk

ASSUME AskAssumption == /\ TurnOf \in [Ask -> Turn]
                        /\ Foreground \subseteq Ask
                        /\ NoAsk \notin Ask

VARIABLES seq,          \* q.seq: the last sequence number given out
          seqNo,        \* seqNo[a]: entry.Seq, 0 before a is enqueued
          queued,       \* q.queued, in the order of seqNo
          open,         \* q.open
          firing,       \* q.firing
          cancelled,    \* asks whose fire ctx has been cancelled
          pc,           \* pc[p]: where goroutine p is in pump()
          cur,          \* cur[p]: its local cur
          outcome,      \* outcome[p]: its local outcome
          dpc,          \* dpc[d]: where goroutine d is in a drain
          target,       \* target[d]: the open entry whose cancel it took
          batch,        \* batch[d]: the entries it drained
          spawned,      \* drained entries whose resolve goroutine has not run
          resolved,     \* resolved[a]: outcomes handed to a's resolve
          fired,        \* history: asks in the order their dialogs opened
          withdrawn     \* history: asks a drain removed from the queue

queueVars == <<seq, seqNo, queued, open, firing>>
pumpVars  == <<pc, cur, outcome>>
drainVars == <<dpc, target, batch>>
history   == <<fired, withdrawn>>

vars == <<queueVars, pumpVars, drainVars, cancelled, spawned, resolved, history>>

Outcome == {"answered", "failed", "cancelled"}

Init ==
    /\ seq = 0 /\ seqNo = [a \in Ask |-> 0]
    /\ queued = {} /\ open = NoAsk /\ firing = FALSE
    /\ cancelled = {} /\ spawned = {} /\ fired = <<>> /\ withdrawn = {}
    /\ pc = [p \in Pump |-> "off"] /\ cur = [p \in Pump |-> NoAsk]
    /\ outcome = [p \in Pump |-> "failed"]
    /\ dpc = [d \in Drainer |-> "idle"] /\ target = [d \in Drainer |-> NoAsk]
    /\ batch = [d \in Drainer |-> {}]
    /\ resolved = [a \in Ask |-> <<>>]

Idle == ~firing

(***************************************************************************)
(* Enqueue: an idle queue promotes the entry itself and starts the pump.   *)
(***************************************************************************)
Enqueue(a) ==
    /\ seqNo[a] = 0
    /\ seq' = seq + 1
    /\ seqNo' = [seqNo EXCEPT ![a] = seq + 1]
    /\ IF Idle
         THEN \E p \in Pump :
                /\ pc[p] = "off"
                /\ firing' = TRUE /\ open' = a
                /\ pc' = [pc EXCEPT ![p] = "top"]
                /\ UNCHANGED queued
         ELSE /\ queued' = queued \cup {a}
              /\ UNCHANGED <<firing, open, pc>>
    /\ UNCHANGED <<cur, outcome, drainVars, cancelled, spawned, resolved, history>>

\* Mutant: the class is ignored.
BeforeNoClass(a, b) == seqNo[a] < seqNo[b]

(***************************************************************************)
(* popHeadLocked: the earliest foreground entry, else the earliest.        *)
(***************************************************************************)
Before(a, b) ==
    \/ a \in Foreground /\ b \notin Foreground
    \/ (a \in Foreground) = (b \in Foreground) /\ seqNo[a] < seqNo[b]

IsHead(a) == a \in queued /\ \A b \in queued \ {a} : Before(a, b)

\* pump(), the critical section at the loop top.
PumpOpen(p) ==          \* the entry Enqueue promoted
    /\ pc[p] = "top" /\ open # NoAsk
    /\ pc' = [pc EXCEPT ![p] = "fire"]
    /\ cur' = [cur EXCEPT ![p] = open]
    /\ fired' = Append(fired, open)
    /\ UNCHANGED <<queueVars, outcome, drainVars, cancelled, spawned, resolved,
                   withdrawn>>

PumpPromote(p) ==
    /\ pc[p] = "top" /\ open = NoAsk
    /\ \E a \in queued :
         /\ IsHead(a)
         /\ open' = a
         /\ queued' = queued \ {a}
         /\ cur' = [cur EXCEPT ![p] = a]
         /\ fired' = Append(fired, a)
    /\ pc' = [pc EXCEPT ![p] = "fire"]
    /\ UNCHANGED <<seq, seqNo, firing, outcome, drainVars, cancelled, spawned,
                   resolved, withdrawn>>

\* Mutant: the pump does not look at the queue.
MayExitBlind == open = NoAsk

MayExit == open = NoAsk /\ queued = {}

PumpExit(p) ==
    /\ pc[p] = "top" /\ MayExit
    /\ firing' = FALSE
    /\ pc' = [pc EXCEPT ![p] = "off"]
    /\ UNCHANGED <<seq, seqNo, queued, open, cur, outcome, drainVars, cancelled,
                   spawned, resolved, history>>

(***************************************************************************)
(* entry.fire(ctx) returns: the client answered (a cancelled answer        *)
(* included), the surface failed or timed out, or the ctx was cancelled.   *)
(* cur.cancel() follows at once.                                           *)
(***************************************************************************)
FireReturns(p, o) ==
    /\ pc[p] = "fire"
    /\ pc' = [pc EXCEPT ![p] = "close"]
    /\ outcome' = [outcome EXCEPT ![p] = o]
    /\ cancelled' = cancelled \cup {cur[p]}
    /\ UNCHANGED <<queueVars, cur, drainVars, spawned, resolved, history>>

FireAnswered(p)  == \E o \in {"answered", "cancelled"} : FireReturns(p, o)
FireFails(p)     == FireReturns(p, "failed")
FireCancelled(p) == cur[p] \in cancelled /\ FireReturns(p, "cancelled")

PumpClose(p) ==
    /\ pc[p] = "close"
    /\ open' = NoAsk
    /\ pc' = [pc EXCEPT ![p] = "resolve"]
    /\ UNCHANGED <<seq, seqNo, queued, firing, cur, outcome, drainVars, cancelled,
                   spawned, resolved, history>>

\* resolve is a whole resumed turn: it starts here and returns later.
PumpResolve(p) ==
    /\ pc[p] = "resolve"
    /\ resolved' = [resolved EXCEPT ![cur[p]] = Append(@, outcome[p])]
    /\ pc' = [pc EXCEPT ![p] = "resuming"]
    /\ UNCHANGED <<queueVars, cur, outcome, drainVars, cancelled, spawned, history>>

PumpLoop(p) ==
    /\ pc[p] = "resuming"
    /\ pc' = [pc EXCEPT ![p] = "top"]
    /\ cur' = [cur EXCEPT ![p] = NoAsk]
    /\ outcome' = [outcome EXCEPT ![p] = "failed"]
    /\ UNCHANGED <<queueVars, drainVars, cancelled, spawned, resolved, history>>

\* Mutant: withdrawn entries stay queued.
RemainingAll(scope) == queued

Remaining(scope) == queued \ scope

(***************************************************************************)
(* DrainTurn and DrainAll: claim under the mutex, cancel outside it, then  *)
(* one goroutine per drained entry.                                        *)
(***************************************************************************)
Drain(d, scope) ==
    /\ dpc[d] = "idle"
    /\ dpc' = [dpc EXCEPT ![d] = "cancel"]
    /\ queued' = Remaining(scope)
    /\ batch' = [batch EXCEPT ![d] = queued \cap scope]
    /\ target' = [target EXCEPT ![d] = IF open \in scope THEN open ELSE NoAsk]
    /\ withdrawn' = withdrawn \cup (queued \cap scope)
    /\ UNCHANGED <<seq, seqNo, open, firing, pumpVars, cancelled, spawned,
                   resolved, fired>>

DrainTurn(d, t) == Drain(d, {a \in Ask : TurnOf[a] = t})
DrainAll(d)     == Drain(d, Ask)

\* Mutant: the nil check is dropped.
CancelFuncUnchecked(d) == {target[d]}

\* cancel is nil when no open entry matched.
CancelFunc(d) == {target[d]} \ {NoAsk}

DrainCancel(d) ==
    /\ dpc[d] = "cancel"
    /\ dpc' = [dpc EXCEPT ![d] = "spawn"]
    /\ cancelled' = cancelled \cup CancelFunc(d)
    /\ UNCHANGED <<queueVars, pumpVars, target, batch, spawned, resolved, history>>

\* Mutant: the open ask is resolved too.
DrainedAndOpen(d) == batch[d] \cup ({target[d]} \ {NoAsk})
\* Mutant: nobody resolves what was withdrawn.
DrainedLost(d)    == {}

Drained(d) == batch[d]

DrainSpawn(d) ==
    /\ dpc[d] = "spawn"
    /\ dpc' = [dpc EXCEPT ![d] = "idle"]
    /\ spawned' = spawned \cup Drained(d)
    /\ batch' = [batch EXCEPT ![d] = {}]
    /\ target' = [target EXCEPT ![d] = NoAsk]
    /\ UNCHANGED <<queueVars, pumpVars, cancelled, resolved, history>>

DrainedResolve(a) ==
    /\ a \in spawned
    /\ spawned' = spawned \ {a}
    /\ resolved' = [resolved EXCEPT ![a] = Append(@, "cancelled")]
    /\ UNCHANGED <<queueVars, pumpVars, drainVars, cancelled, history>>

-----------------------------------------------------------------------------
PumpStep(p) == \/ PumpOpen(p) \/ PumpPromote(p) \/ PumpExit(p)
               \/ PumpClose(p) \/ PumpResolve(p) \/ PumpLoop(p)

Next == \/ \E a \in Ask : Enqueue(a) \/ DrainedResolve(a)
        \/ \E p \in Pump : \/ PumpStep(p) \/ FireAnswered(p)
                           \/ FireFails(p) \/ FireCancelled(p)
        \/ \E d \in Drainer : \/ DrainAll(d)
                              \/ \E t \in Turn : DrainTurn(d, t)
                              \/ DrainCancel(d) \/ DrainSpawn(d)

Spec == Init /\ [][Next]_vars

(***************************************************************************)
(* The Go scheduler runs every goroutine that can run.  A fire whose ctx   *)
(* is cancelled returns; nothing here makes a human answer.                *)
(***************************************************************************)
Fairness == /\ \A p \in Pump : WF_vars(PumpStep(p)) /\ WF_vars(FireCancelled(p))
            /\ \A d \in Drainer : WF_vars(DrainCancel(d) \/ DrainSpawn(d))
            /\ \A a \in Ask : WF_vars(DrainedResolve(a))

FairSpec == Spec /\ Fairness
-----------------------------------------------------------------------------
TypeOK ==
    /\ seq \in Nat /\ seqNo \in [Ask -> Nat] /\ queued \subseteq Ask
    /\ fired \in Seq(Ask)
    /\ open \in Ask \cup {NoAsk} /\ firing \in BOOLEAN
    /\ cancelled \subseteq Ask /\ spawned \subseteq Ask
    /\ withdrawn \subseteq Ask
    /\ pc \in [Pump -> {"off", "top", "fire", "close", "resolve", "resuming"}]
    /\ cur \in [Pump -> Ask \cup {NoAsk}] /\ outcome \in [Pump -> Outcome]
    /\ dpc \in [Drainer -> {"idle", "cancel", "spawn"}]
    /\ target \in [Drainer -> Ask \cup {NoAsk}]
    /\ batch \in [Drainer -> SUBSET Ask]
    /\ resolved \in [Ask -> Seq(Outcome)]

\* One outstanding dialog: no two pump goroutines run at once, so no two fires
\* are in flight, however enqueues race the pump's exit.
OneOutstanding ==
    \A p, r \in Pump : pc[p] # "off" /\ pc[r] # "off" => p = r

\* Nobody waits in an idle queue: entries are queued only while some pump will
\* come back to the loop top (Enqueue appends only when firing).
NoStrandedAsk == queued # {} => \E p \in Pump : pc[p] # "off"

\* A resolve is a full resume of a suspended call, so no ask is resolved twice,
\* by pump and drain together or by two overlapping drains.
ResolvedOnce == \A a \in Ask : Len(resolved[a]) <= 1

\* The zombie-ask ban: an entry a drain took out of the queue never opens a
\* dialog and is only ever resolved cancelled.
NoZombieAsk ==
    \A a \in withdrawn : /\ a \notin Range(fired)
                         /\ resolved[a] \in {<<>>, <<"cancelled">>}

\* Within a priority class dialogs open in enqueue order, across drains,
\* preemptions and idle periods ("scan order IS age order").
FifoInClass ==
    \A i, j \in 1..Len(fired) :
        /\ i < j
        /\ (fired[i] \in Foreground) = (fired[j] \in Foreground)
        => seqNo[fired[i]] < seqNo[fired[j]]

(***************************************************************************)
(* Every suspended call is eventually resumed, provided no fire hangs for  *)
(* ever (acp.Registry.Call bounds a round trip by two windows).            *)
(***************************************************************************)
EveryAskResolved ==
    (\A p \in Pump : []<>(pc[p] # "fire")) =>
        \A a \in Ask : seqNo[a] > 0 ~> resolved[a] # <<>>

-----------------------------------------------------------------------------
\* The refinement mapping.
dialog == INSTANCE OneDialog WITH
            waiting   <- queued,
            shown     <- {open} \ {NoAsk},
            closed    <- {a \in Ask : seqNo[a] > 0} \ (queued \cup {open} \cup withdrawn),
            withdrawn <- withdrawn,
            settled   <- resolved

\* The queue implements OneDialog: one dialog, foreground before background,
\* withdrawn asks unseen, every verdict given once and after its dialog closed.
ImplementsOneDialog == dialog!Spec
=============================================================================
