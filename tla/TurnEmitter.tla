---------------------------- MODULE TurnEmitter ----------------------------
(***************************************************************************)
(* internal/acp/emitter.go: the ordered session/update path.  Producers    *)
(* put frames into a foreground or a background lane, one drain goroutine  *)
(* hands them to the sink, and Barrier callers wait, by comparing two      *)
(* counters, for what was enqueued before them.                            *)
(*                                                                         *)
(* A step is one critical section of t.mu, one channel operation or one    *)
(* call of the sink.  A frame is used once.  Stop's cancel and its join    *)
(* are two steps; the stall sampler only reads lane depths and is left     *)
(* out.                                                                    *)
(***************************************************************************)
EXTENDS Naturals, Sequences, FiniteSets, Functions

CONSTANTS Frame,        \* session/update notifications, and Notify's
          Foreground,   \* the frames of foreground-class handles
          FgCap, BgCap, \* lane capacities
          Producer, Waiter, NoFrame

EmitterAssumption == /\ Foreground \subseteq Frame
                     /\ NoFrame \notin Frame
                     /\ FgCap \in Nat \ {0} /\ BgCap \in Nat \ {0}

VARIABLES fg, bg,       \* t.fg, t.bg
          enqueued,     \* t.enqueued
          written,      \* t.written
          gen,          \* which generation of t.wake is current
          stop,         \* Stop: "no", "joining" (ctx cancelled), "returned"
          dpc,          \* where the drain is
          inflight,     \* the frame it received
          wire,         \* frames the sink accepted, in order
          frame,        \* frame[p]: what p is blocked sending, or NoFrame
          issued,       \* frames whose enqueue has begun
          wpc,          \* wpc[w]: where Barrier caller w is
          target,       \* target[w], snap[w]: Barrier's locals
          snap,
          before        \* history: frames in a lane or beyond at w's call

laneVars    == <<fg, bg>>
drainVars   == <<dpc, inflight, wire>>
produceVars == <<frame, issued>>
waitVars    == <<wpc, target, snap, before>>
vars == <<laneVars, enqueued, written, gen, stop, drainVars, produceVars, waitVars>>

Stopped == stop # "no"          \* t.ctx is done

Written == Range(wire)
Sent == Range(fg) \cup Range(bg) \cup Written \cup ({inflight} \ {NoFrame})

Init ==
    /\ fg = <<>> /\ bg = <<>> /\ enqueued = 0 /\ written = 0 /\ gen = 0
    /\ stop = "no" /\ dpc = "first" /\ inflight = NoFrame /\ wire = <<>>
    /\ frame = [p \in Producer |-> NoFrame] /\ issued = {}
    /\ wpc = [w \in Waiter |-> "idle"] /\ target = [w \in Waiter |-> 0]
    /\ snap = [w \in Waiter |-> 0] /\ before = [w \in Waiter |-> {}]

-----------------------------------------------------------------------------
(***************************************************************************)
(* enqueueUpdate and Notify: count first, then send outside the lock; a    *)
(* send that the stopped emitter refuses takes its count back.             *)
(***************************************************************************)
Bump(p, f) ==
    /\ frame[p] = NoFrame /\ f \notin issued
    /\ enqueued' = enqueued + 1
    /\ frame' = [frame EXCEPT ![p] = f]
    /\ issued' = issued \cup {f}
    /\ UNCHANGED <<laneVars, written, gen, stop, drainVars, waitVars>>

HasRoom(f) == IF f \in Foreground THEN Len(fg) < FgCap ELSE Len(bg) < BgCap

Send(p) ==
    /\ frame[p] # NoFrame /\ HasRoom(frame[p])
    /\ IF frame[p] \in Foreground
         THEN fg' = Append(fg, frame[p]) /\ UNCHANGED bg
         ELSE bg' = Append(bg, frame[p]) /\ UNCHANGED fg
    /\ frame' = [frame EXCEPT ![p] = NoFrame]
    /\ UNCHANGED <<enqueued, written, gen, stop, drainVars, issued, waitVars>>

\* Mutant: the producer does not look at the stopped context.
RefusesNever == FALSE

Refuses == Stopped

Abort(p) ==
    /\ frame[p] # NoFrame /\ Refuses
    /\ enqueued' = enqueued - 1
    /\ frame' = [frame EXCEPT ![p] = NoFrame]
    /\ UNCHANGED <<laneVars, written, gen, stop, drainVars, issued, waitVars>>

-----------------------------------------------------------------------------
(***************************************************************************)
(* drain: foreground without blocking, else whichever lane has a frame.    *)
(***************************************************************************)
Receive(lane) ==
    /\ inflight' = Head(lane)
    /\ dpc' = "write"
    /\ UNCHANGED <<enqueued, written, gen, stop, wire, produceVars, waitVars>>

DrainForeground ==
    /\ dpc \in {"first", "second"} /\ fg # <<>>
    /\ Receive(fg)
    /\ fg' = Tail(fg) /\ UNCHANGED bg

PollsEmpty == dpc = "first" /\ fg = <<>>    \* the first select's default

DrainDefault ==
    /\ PollsEmpty
    /\ dpc' = "second"
    /\ UNCHANGED <<laneVars, enqueued, written, gen, stop, inflight, wire,
                   produceVars, waitVars>>

DrainBackground ==
    /\ dpc = "second" /\ bg # <<>>
    /\ Receive(bg)
    /\ bg' = Tail(bg) /\ UNCHANGED fg

DrainExit ==
    /\ dpc = "second" /\ Stopped
    /\ dpc' = "exit"
    /\ UNCHANGED <<laneVars, enqueued, written, gen, stop, inflight, wire,
                   produceVars, waitVars>>

\* writeOut: the sink call, then the count and the broadcast together.
WriteOut ==
    /\ dpc = "write"
    /\ wire' = Append(wire, inflight)
    /\ inflight' = NoFrame
    /\ dpc' = "book"
    /\ UNCHANGED <<laneVars, enqueued, written, gen, stop, produceVars, waitVars>>

Book ==
    /\ dpc = "book"
    /\ written' = written + 1
    /\ gen' = gen + 1
    /\ dpc' = "first"
    /\ UNCHANGED <<laneVars, enqueued, stop, inflight, wire, produceVars, waitVars>>

-----------------------------------------------------------------------------
(***************************************************************************)
(* Barrier: the target, then check-and-park rounds.  The generation is     *)
(* read in the critical section of the check.                              *)
(***************************************************************************)
Barrier(w) ==
    /\ wpc[w] = "idle"
    /\ wpc' = [wpc EXCEPT ![w] = "check"]
    /\ target' = [target EXCEPT ![w] = enqueued]
    /\ before' = [before EXCEPT ![w] = Sent]
    /\ UNCHANGED <<laneVars, enqueued, written, gen, stop, drainVars,
                   produceVars, snap>>

\* Mutant: the wait ends one frame early.
ReachedOneShort(w) == written + 1 >= target[w]

Reached(w) == written >= target[w]

WakeSnapshot == gen

BarrierCheck(w) ==
    /\ wpc[w] = "check"
    /\ wpc' = [wpc EXCEPT ![w] = IF Reached(w) THEN "flushed" ELSE "parked"]
    /\ snap' = [snap EXCEPT ![w] = WakeSnapshot]
    /\ UNCHANGED <<laneVars, enqueued, written, gen, stop, drainVars,
                   produceVars, target, before>>

BarrierWoken(w) ==
    /\ wpc[w] = "parked" /\ snap[w] < gen
    /\ wpc' = [wpc EXCEPT ![w] = "check"]
    /\ UNCHANGED <<laneVars, enqueued, written, gen, stop, drainVars,
                   produceVars, target, snap, before>>

BarrierLeaves(w) ==
    /\ wpc[w] = "parked"
    /\ wpc' = [wpc EXCEPT ![w] = "gave_up"]
    /\ UNCHANGED <<laneVars, enqueued, written, gen, stop, drainVars,
                   produceVars, target, snap, before>>

BarrierStopped(w) == Stopped /\ BarrierLeaves(w)    \* <-t.ctx.Done()
BarrierCtxDone(w) == BarrierLeaves(w)               \* <-ctx.Done(): turn cancelled

-----------------------------------------------------------------------------
\* Stop: cancel, then wait for the drain (its in-flight write included).
StopCancel ==
    /\ stop = "no"
    /\ stop' = "joining"
    /\ UNCHANGED <<laneVars, enqueued, written, gen, drainVars, produceVars, waitVars>>

Joined == dpc = "exit"

StopReturn ==
    /\ stop = "joining" /\ Joined
    /\ stop' = "returned"
    /\ UNCHANGED <<laneVars, enqueued, written, gen, drainVars, produceVars, waitVars>>

DrainStep == DrainForeground \/ DrainDefault \/ DrainBackground \/ DrainExit
               \/ WriteOut \/ Book

Next ==
    \/ \E p \in Producer : \/ \E f \in Frame : Bump(p, f)
                           \/ Send(p) \/ Abort(p)
    \/ DrainStep
    \/ \E w \in Waiter : \/ Barrier(w) \/ BarrierCheck(w) \/ BarrierWoken(w)
                         \/ BarrierStopped(w) \/ BarrierCtxDone(w)
    \/ StopCancel \/ StopReturn

Spec == Init /\ [][Next]_vars

(***************************************************************************)
(* Goroutines that can run do run; the client keeps reading, so a sink     *)
(* call returns.  Nothing forces a Barrier, a frame, a cancel or a Stop.   *)
(***************************************************************************)
Fairness ==
    /\ WF_vars(DrainStep) /\ WF_vars(StopReturn)
    /\ \A p \in Producer : WF_vars(Send(p) \/ Abort(p))
    /\ \A w \in Waiter : WF_vars(BarrierCheck(w) \/ BarrierWoken(w) \/ BarrierStopped(w))

FairSpec == Spec /\ Fairness

-----------------------------------------------------------------------------
\* Type correctness.
TypeOK ==
    /\ fg \in Seq(Foreground) /\ Len(fg) <= FgCap
    /\ bg \in Seq(Frame \ Foreground) /\ Len(bg) <= BgCap
    /\ enqueued \in Nat /\ written \in Nat /\ gen \in Nat
    /\ stop \in {"no", "joining", "returned"}
    /\ dpc \in {"first", "second", "write", "book", "exit"}
    /\ inflight \in Frame \cup {NoFrame} /\ wire \in Seq(Frame)
    /\ frame \in [Producer -> Frame \cup {NoFrame}] /\ issued \subseteq Frame
    /\ wpc \in [Waiter -> {"idle", "check", "parked", "flushed", "gave_up"}]
    /\ target \in [Waiter -> Nat] /\ snap \in [Waiter -> Nat]
    /\ before \in [Waiter -> SUBSET Frame]

(***************************************************************************)
(* Barrier's contract as its comment states it, while only the foreground  *)
(* lane is in use: when it returns because the count was reached, every    *)
(* frame that was in the lane at its call is on the wire.                  *)
(***************************************************************************)
BarrierFlushes ==
    \A w \in Waiter : wpc[w] = "flushed" /\ issued \subseteq Foreground
                         => before[w] \subseteq Written

(***************************************************************************)
(* What the counters do guarantee with both lanes in use: at most one      *)
(* foreground frame of before the call is still unwritten, because only    *)
(* one background frame can pass it in the drain's second select.          *)
(***************************************************************************)
ForegroundSlipsByOne ==
    \A w \in Waiter : wpc[w] = "flushed" =>
        Cardinality((before[w] \cap Foreground) \ Written) <= 1

(***************************************************************************)
(* Every Barrier ends: no counter value and no missed broadcast leaves a   *)
(* caller parked, whichever order frames, aborts and Stop come in.         *)
(***************************************************************************)
BarrierReturns ==
    \A w \in Waiter : wpc[w] = "check" ~> wpc[w] \in {"flushed", "gave_up"}

\* A producer blocked on a full lane is released by Stop.
ProducersReleased ==
    \A p \in Producer : (Stopped /\ frame[p] # NoFrame) ~> frame[p] = NoFrame

(***************************************************************************)
(* Serve closes the Writer after Stop: once Stop returned the drain hands  *)
(* the sink no further frame.                                              *)
(***************************************************************************)
NoWriteAfterStop == [][stop = "returned" => wire' = wire]_vars
=============================================================================
