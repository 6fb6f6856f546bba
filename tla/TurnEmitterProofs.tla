------------------------- MODULE TurnEmitterProofs -------------------------
(***************************************************************************)
(* The ordered session/update path, for any frames, producers, Barrier     *)
(* callers and lane capacities: what the two counters tell a Barrier about *)
(* the frames that were sent before it, and that the drain is quiet once   *)
(* Stop has returned.                                                      *)
(***************************************************************************)
EXTENDS TurnEmitter, FiniteSetTheorems, TLAPS

\* TypeOK, by what its parts are about.
LaneTypes == /\ fg \in Seq(Foreground) /\ Len(fg) <= FgCap
             /\ bg \in Seq(Frame \ Foreground) /\ Len(bg) <= BgCap

DrainTypes == /\ dpc \in {"first", "second", "write", "book", "exit"}
              /\ inflight \in Frame \cup {NoFrame} /\ wire \in Seq(Frame)
              /\ stop \in {"no", "joining", "returned"}

NumTypes == enqueued \in Nat /\ written \in Nat /\ gen \in Nat

ProduceTypes == frame \in [Producer -> Frame \cup {NoFrame}] /\ issued \subseteq Frame

WaitTypes == /\ wpc \in [Waiter -> {"idle", "check", "parked", "flushed", "gave_up"}]
             /\ target \in [Waiter -> Nat] /\ snap \in [Waiter -> Nat]
             /\ before \in [Waiter -> SUBSET Frame]

Types == LaneTypes /\ DrainTypes /\ NumTypes /\ ProduceTypes /\ WaitTypes

-----------------------------------------------------------------------------
Held    == IF inflight = NoFrame THEN 0 ELSE 1
Load    == Len(wire) + Held + Len(fg) + Len(bg)
Out     == Written \cup ({inflight} \ {NoFrame})     \* left its lane
Blocked == {p \in Producer : frame[p] # NoFrame}

\* The drain holds a frame exactly while it writes, and has exited when Stop
\* returns.
DrainInv == /\ dpc = "write" <=> inflight # NoFrame
            /\ stop = "returned" => dpc = "exit"

\* enqueued counts the frames sent and the producers blocked sending one;
\* written lags the wire by the frame being booked.
CountInv ==
    /\ IsFiniteSet(Blocked) /\ enqueued = Load + Cardinality(Blocked)
    /\ Len(wire) = written + (IF dpc = "book" THEN 1 ELSE 0)
    /\ IsFiniteSet(Written) /\ Cardinality(Written) = Len(wire)
    /\ IsFiniteSet(Sent) /\ Cardinality(Sent) <= Load

\* A frame is in one place.
FrameInv ==
    /\ Sent \subseteq issued
    /\ \A p \in Producer : frame[p] # NoFrame => frame[p] \in issued \ Sent
    /\ \A p, q \in Producer : frame[p] = frame[q] /\ frame[p] # NoFrame => p = q
    /\ IsInjective(fg) /\ IsInjective(bg)
    /\ inflight \notin Written /\ Out \cap (Range(fg) \cup Range(bg)) = {}

\* What a Barrier caller saw stays ahead of what came later: in the foreground
\* lane always, and on the wire but for one frame of the background lane.
OrderInv ==
    \A w \in Waiter :
      /\ before[w] \subseteq Sent
      /\ \A m, n \in 1 .. Len(fg) : n < m /\ fg[m] \in before[w] => fg[n] \in before[w]
      /\ Range(fg) \cap before[w] # {} =>
           /\ Out \subseteq before[w] \/ \E f \in Out : Out \ {f} \subseteq before[w]
           /\ dpc = "second" \/ issued \subseteq Foreground => Out \subseteq before[w]
      /\ issued \subseteq Foreground /\ ~(before[w] \subseteq Written) => Written \subseteq before[w]

\* A Barrier's target is at least the number of frames it waits for.
WaitInv ==
    \A w \in Waiter :
      /\ IsFiniteSet(before[w]) /\ Cardinality(before[w]) <= target[w]
      /\ wpc[w] = "flushed" => target[w] <= written

EmitterInv == Types /\ DrainInv /\ CountInv /\ FrameInv /\ OrderInv /\ WaitInv

-----------------------------------------------------------------------------
\* What a sequence holds, and what an append and a receive do to it.
LEMMA RangeOfSeq ==
    ASSUME NEW S, NEW s \in Seq(S)
    PROVE  /\ Len(s) \in Nat /\ DOMAIN s = 1 .. Len(s)
           /\ Range(s) \subseteq S /\ \A n \in 1 .. Len(s) : s[n] \in Range(s)
           /\ \A x \in Range(s) : \E n \in 1 .. Len(s) : s[n] = x
  BY DEF Range

\* An append adds one element to those of the queue.
LEMMA AppendRange ==
    ASSUME NEW S, NEW s \in Seq(S), NEW x \in S
    PROVE  /\ Append(s, x) \in Seq(S) /\ Len(Append(s, x)) = Len(s) + 1
           /\ \A n \in 1 .. Len(s) : Append(s, x)[n] = s[n]
           /\ Append(s, x)[Len(s) + 1] = x
           /\ Range(Append(s, x)) = Range(s) \cup {x}
           /\ IsInjective(s) /\ x \notin Range(s) => IsInjective(Append(s, x))
<1> DEFINE t == Append(s, x)
<1>1. /\ t \in Seq(S) /\ Len(s) \in Nat /\ Len(t) = Len(s) + 1
      /\ \A n \in 1 .. Len(s) : t[n] = s[n]
      /\ t[Len(s) + 1] = x
      /\ DOMAIN t = 1 .. Len(s) + 1 /\ DOMAIN s = 1 .. Len(s)
  OBVIOUS
<1> HIDE DEF t
<1>2. \A n \in 1 .. Len(s) + 1 : n \in 1 .. Len(s) \/ n = Len(s) + 1
  BY <1>1
<1>3. \A n \in 1 .. Len(s) : n \in 1 .. Len(s) + 1
  BY <1>1
<1>4. Len(s) + 1 \in 1 .. Len(s) + 1
  BY <1>1
<1>5. Range(t) = Range(s) \cup {x}
  BY <1>1, <1>2, <1>3, <1>4 DEF Range
<1>6. IsInjective(s) /\ x \notin Range(s) => IsInjective(t)
  BY <1>1, <1>2 DEF Range, IsInjective
<1> QED
  BY <1>1, <1>5, <1>6 DEF t

\* A receive takes the head and leaves the rest of the queue.
LEMMA TailRange ==
    ASSUME NEW S, NEW s \in Seq(S), s # << >>
    PROVE  /\ Tail(s) \in Seq(S) /\ Len(Tail(s)) = Len(s) - 1 /\ Head(s) \in S
           /\ Len(s) \in Nat /\ Len(s) >= 1 /\ Head(s) = s[1]
           /\ \A n \in 1 .. Len(Tail(s)) : n + 1 \in 1 .. Len(s) /\ Tail(s)[n] = s[n + 1]
           /\ Range(s) = {Head(s)} \cup Range(Tail(s))
           /\ IsInjective(s) => IsInjective(Tail(s)) /\ Head(s) \notin Range(Tail(s))
<1> DEFINE t == Tail(s)
<1>1. /\ t \in Seq(S) /\ Len(s) \in Nat /\ Len(s) >= 1 /\ Len(t) = Len(s) - 1
      /\ Head(s) = s[1] /\ Head(s) \in S
      /\ DOMAIN t = 1 .. Len(t) /\ DOMAIN s = 1 .. Len(s)
      /\ \A n \in 1 .. Len(t) : t[n] = s[n + 1]
  OBVIOUS
<1> HIDE DEF t
<1>2. \A n \in 1 .. Len(t) : n + 1 \in 1 .. Len(s) /\ n + 1 # 1
  BY <1>1
<1>3. \A n \in 1 .. Len(s) : n = 1 \/ (n - 1 \in 1 .. Len(t) /\ t[n - 1] = s[n])
  BY <1>1
<1>4. 1 \in 1 .. Len(s)
  BY <1>1
<1>5. Range(s) = {Head(s)} \cup Range(t)
  BY <1>1, <1>2, <1>3, <1>4 DEF Range
<1>6. ASSUME IsInjective(s) PROVE IsInjective(t) /\ Head(s) \notin Range(t)
  <2>1. ASSUME NEW m \in 1 .. Len(t), NEW n \in 1 .. Len(t), t[m] = t[n] PROVE m = n
    <3>1. m + 1 = n + 1
      BY <1>1, <1>2, <1>6, <2>1 DEF IsInjective
    <3> QED
      BY <3>1
  <2>2. \A n \in 1 .. Len(t) : t[n] # s[1]
    BY <1>1, <1>2, <1>4, <1>6 DEF IsInjective
  <2> QED
    BY <1>1, <2>1, <2>2 DEF IsInjective, Range
<1> QED
  BY <1>1, <1>2, <1>5, <1>6 DEF t

\* One element more or less.
LEMMA OneMore ==
    ASSUME NEW S, IsFiniteSet(S), NEW x
    PROVE  /\ Cardinality(S) \in Nat
           /\ IsFiniteSet(S \cup {x})
           /\ x \notin S => Cardinality(S \cup {x}) = Cardinality(S) + 1
           /\ IsFiniteSet(S \ {x})
           /\ x \in S => Cardinality(S \ {x}) = Cardinality(S) - 1 /\ Cardinality(S) >= 1
<1>1. Cardinality(S) \in Nat
  BY FS_CardinalityType
<1>2. IsFiniteSet(S \cup {x}) /\ (x \notin S => Cardinality(S \cup {x}) = Cardinality(S) + 1)
  BY FS_AddElement
<1>3. /\ IsFiniteSet(S \ {x})
      /\ Cardinality(S \ {x}) = IF x \in S THEN Cardinality(S) - 1 ELSE Cardinality(S)
  BY FS_RemoveElement
<1>4. x \in S => Cardinality(S) # 0
  BY FS_EmptySet
<1> QED
  BY <1>1, <1>2, <1>3, <1>4

\* The lanes hold frames, and their lengths are numbers.
LEMMA Lanes ==
    ASSUME EmitterAssumption, Types
    PROVE  /\ Len(fg) \in Nat /\ Len(bg) \in Nat /\ Len(wire) \in Nat /\ Held \in {0, 1}
           /\ Range(fg) \subseteq Foreground /\ Range(bg) \subseteq Frame \ Foreground
           /\ Written \subseteq Frame /\ NoFrame \notin Frame /\ Foreground \subseteq Frame
           /\ Sent = Range(fg) \cup Range(bg) \cup Out /\ NoFrame \notin Sent
<1>1. fg \in Seq(Foreground) /\ bg \in Seq(Frame \ Foreground) /\ wire \in Seq(Frame)
  BY DEF Types, LaneTypes, DrainTypes
<1>2. NoFrame \notin Frame /\ Foreground \subseteq Frame
  BY DEF EmitterAssumption
<1>3. /\ Len(fg) \in Nat /\ Range(fg) \subseteq Foreground
      /\ Len(bg) \in Nat /\ Range(bg) \subseteq Frame \ Foreground
      /\ Len(wire) \in Nat /\ Range(wire) \subseteq Frame
  BY <1>1, RangeOfSeq
<1> QED
  BY <1>2, <1>3 DEF Held, Sent, Out, Written

\* The number of frames sent is a natural number.
LEMMA LoadNat == ASSUME EmitterAssumption, Types PROVE Load \in Nat
  BY Lanes DEF Load

\* The initial state.
LEMMA InitEmitter == EmitterAssumption /\ Init => EmitterInv
<1> SUFFICES ASSUME EmitterAssumption, Init PROVE EmitterInv
  OBVIOUS
<1> USE DEF Init
<1>1. /\ fg \in Seq(Foreground) /\ bg \in Seq(Frame \ Foreground) /\ wire \in Seq(Frame)
      /\ Len(fg) = 0 /\ Len(bg) = 0 /\ Len(wire) = 0
  OBVIOUS
<1>2. Types
  BY <1>1 DEF Types, LaneTypes, DrainTypes, NumTypes, ProduceTypes, WaitTypes,
     EmitterAssumption
<1>3. Range(fg) = {} /\ Range(bg) = {} /\ Written = {} /\ Sent = {} /\ Blocked = {} /\ Out = {}
  BY DEF Range, Written, Sent, Blocked, Out
<1>4. Load = 0
  BY <1>1 DEF Load, Held
<1>5. CountInv
  BY <1>1, <1>3, <1>4, FS_EmptySet DEF CountInv
<1>6. DrainInv /\ FrameInv
  BY <1>3 DEF DrainInv, FrameInv, IsInjective
<1>7. OrderInv
  BY <1>1, <1>3 DEF OrderInv
<1>8. WaitInv
  BY FS_EmptySet DEF WaitInv
<1> QED
  BY <1>2, <1>5, <1>6, <1>7, <1>8 DEF EmitterInv

-----------------------------------------------------------------------------
\* Steps that move no frame.
LEMMA PipeKept ==
    ASSUME UNCHANGED <<laneVars, inflight, wire>>
    PROVE  /\ Sent' = Sent /\ Out' = Out /\ Written' = Written /\ Load' = Load
           /\ Range(fg)' = Range(fg) /\ Range(bg)' = Range(bg)
  BY DEF laneVars, Sent, Out, Written, Load, Held

\* A step that leaves the lanes and the wire alone keeps the order.
LEMMA OrderKept ==
    ASSUME OrderInv, UNCHANGED <<laneVars, inflight, wire, before>>,
           issued \subseteq issued', dpc' = "second" => dpc = "second" \/ Range(fg) = {}
    PROVE  OrderInv'
<1>1. issued' \subseteq Foreground => issued \subseteq Foreground
  OBVIOUS
<1> QED
  BY <1>1, PipeKept DEF OrderInv, laneVars

\* A producer counts its frame before it sends it.
LEMMA BumpStep ==
    ASSUME EmitterAssumption, EmitterInv, NEW p \in Producer, NEW f \in Frame, Bump(p, f)
    PROVE  EmitterInv'
<1> USE DEF EmitterInv, Bump, drainVars, waitVars
<1>1. f # NoFrame /\ frame' = [frame EXCEPT ![p] = f] /\ frame \in [Producer -> Frame \cup {NoFrame}]
  BY DEF EmitterAssumption, Types, ProduceTypes
<1>2. Blocked' = Blocked \cup {p} /\ p \notin Blocked
  BY <1>1 DEF Blocked
<1>3. /\ Sent' = Sent /\ Out' = Out /\ Written' = Written /\ Load' = Load
      /\ Range(fg)' = Range(fg) /\ Range(bg)' = Range(bg)
  BY PipeKept
<1>4. /\ IsFiniteSet(Blocked') /\ Cardinality(Blocked') = Cardinality(Blocked) + 1
      /\ Cardinality(Blocked) \in Nat /\ Load \in Nat
  BY <1>2, OneMore, LoadNat DEF CountInv
<1>5. Types'
  <2>1. LaneTypes' /\ DrainTypes' /\ ProduceTypes' /\ WaitTypes'
    BY <1>1 DEF Types, LaneTypes, DrainTypes, ProduceTypes, WaitTypes, laneVars
  <2>2. NumTypes'
    BY DEF Types, NumTypes
  <2> QED
    BY <2>1, <2>2 DEF Types
<1>6. CountInv' /\ DrainInv'
  BY <1>3, <1>4 DEF CountInv, DrainInv
<1>7. FrameInv'
  BY <1>1, <1>3 DEF FrameInv, laneVars
<1>8. OrderInv' /\ WaitInv'
  BY OrderKept DEF WaitInv
<1> QED
  BY <1>5, <1>6, <1>7, <1>8

\* A refused send takes its count back.
LEMMA AbortStep ==
    ASSUME EmitterAssumption, EmitterInv, NEW p \in Producer, Abort(p)
    PROVE  EmitterInv'
<1> USE DEF EmitterInv, Abort, drainVars, waitVars
<1>1. frame' = [frame EXCEPT ![p] = NoFrame] /\ frame \in [Producer -> Frame \cup {NoFrame}]
  BY DEF Types, ProduceTypes
<1>2. Blocked' = Blocked \ {p} /\ p \in Blocked
  BY <1>1 DEF Blocked
<1>3. /\ Sent' = Sent /\ Out' = Out /\ Written' = Written /\ Load' = Load
      /\ Range(fg)' = Range(fg) /\ Range(bg)' = Range(bg)
  BY PipeKept
<1>4. /\ IsFiniteSet(Blocked') /\ Cardinality(Blocked') = Cardinality(Blocked) - 1
      /\ Cardinality(Blocked) \in Nat /\ Cardinality(Blocked) >= 1 /\ Load \in Nat
  BY <1>2, OneMore, Lanes DEF CountInv, Load
<1>5. enqueued' = Load + Cardinality(Blocked')
  BY <1>4 DEF CountInv
<1>6. Types'
  <2>1. LaneTypes' /\ DrainTypes' /\ ProduceTypes' /\ WaitTypes'
    BY <1>1 DEF Types, LaneTypes, DrainTypes, ProduceTypes, WaitTypes, laneVars
  <2>2. NumTypes'
    BY <1>4, <1>5 DEF Types, NumTypes
  <2> QED
    BY <2>1, <2>2 DEF Types
<1>7. CountInv' /\ DrainInv'
  BY <1>3, <1>4, <1>5 DEF CountInv, DrainInv
<1>8. FrameInv'
  BY <1>1, <1>3 DEF FrameInv, laneVars
<1>9. OrderInv' /\ WaitInv'
  BY OrderKept DEF WaitInv
<1> QED
  BY <1>6, <1>7, <1>8, <1>9

\* The send puts a frame nobody has seen at the end of its lane.
LEMMA SendStep ==
    ASSUME EmitterAssumption, EmitterInv, NEW p \in Producer, Send(p)
    PROVE  EmitterInv'
<1> DEFINE f == frame[p]
<1> USE DEF EmitterInv, drainVars, waitVars
<1>1. /\ f \in Frame /\ f \in issued \ Sent
      /\ frame' = [frame EXCEPT ![p] = NoFrame]
      /\ frame \in [Producer -> Frame \cup {NoFrame}]
      /\ UNCHANGED <<enqueued, written, gen, stop, dpc, inflight, wire, issued,
                     wpc, target, snap, before>>
  BY DEF Send, Types, ProduceTypes, FrameInv
<1>2. fg \in Seq(Foreground) /\ bg \in Seq(Frame \ Foreground)
  BY DEF Types, LaneTypes
<1>3. /\ LaneTypes'
      /\ Len(fg') + Len(bg') = Len(fg) + Len(bg) + 1
      /\ Range(fg') \cup Range(bg') = Range(fg) \cup Range(bg) \cup {f}
      /\ IsInjective(fg') /\ IsInjective(bg')
      /\ Len(fg') >= Len(fg) /\ Len(fg') \in Nat
      /\ \A n \in 1 .. Len(fg) : fg'[n] = fg[n]
      /\ \A n \in 1 .. Len(fg') : n \in 1 .. Len(fg) \/ fg'[n] = f
      /\ Range(fg') \subseteq Range(fg) \cup {f}
  <2>1. f \notin Range(fg) /\ f \notin Range(bg) /\ IsInjective(fg) /\ IsInjective(bg)
    BY <1>1 DEF Sent, FrameInv
  <2>2. Len(fg) \in Nat /\ Len(bg) \in Nat /\ Len(fg) <= FgCap /\ Len(bg) <= BgCap
        /\ FgCap \in Nat /\ BgCap \in Nat
    BY Lanes DEF Types, LaneTypes, EmitterAssumption
  <2>3. CASE f \in Foreground
    <3>1. fg' = Append(fg, f) /\ bg' = bg /\ Len(fg) < FgCap
      BY <2>3 DEF Send, HasRoom
    <3>2. /\ fg' \in Seq(Foreground) /\ Len(fg') = Len(fg) + 1
          /\ \A n \in 1 .. Len(fg) : fg'[n] = fg[n]
          /\ fg'[Len(fg) + 1] = f
          /\ Range(fg') = Range(fg) \cup {f}
          /\ IsInjective(fg')
      BY <1>2, <2>1, <2>3, <3>1, AppendRange
    <3>3. \A n \in 1 .. Len(fg') : n \in 1 .. Len(fg) \/ n = Len(fg) + 1
      BY <2>2, <3>2
    <3>4. Len(fg') <= FgCap
      BY <2>2, <3>1, <3>2
    <3> QED
      BY <1>2, <2>1, <2>2, <3>1, <3>2, <3>3, <3>4 DEF LaneTypes
  <2>4. CASE f \notin Foreground
    <3>1. bg' = Append(bg, f) /\ fg' = fg /\ Len(bg) < BgCap /\ f \in Frame \ Foreground
      BY <1>1, <2>4 DEF Send, HasRoom
    <3>2. /\ bg' \in Seq(Frame \ Foreground) /\ Len(bg') = Len(bg) + 1
          /\ Range(bg') = Range(bg) \cup {f}
          /\ IsInjective(bg')
      BY <1>2, <2>1, <3>1, AppendRange
    <3>4. Len(bg') <= BgCap
      BY <2>2, <3>1, <3>2
    <3> QED
      BY <1>2, <2>1, <2>2, <3>1, <3>2, <3>4 DEF LaneTypes
  <2> QED
    BY <2>3, <2>4
<1>4. Blocked' = Blocked \ {p} /\ p \in Blocked
  BY <1>1, Lanes DEF Blocked
<1>5. Sent' = Sent \cup {f} /\ f \notin Sent /\ Out' = Out /\ Written' = Written
  BY <1>1, <1>3 DEF Sent, Out, Written
<1>6. /\ IsFiniteSet(Blocked') /\ Cardinality(Blocked') = Cardinality(Blocked) - 1
      /\ Cardinality(Blocked) \in Nat
      /\ IsFiniteSet(Sent') /\ Cardinality(Sent') = Cardinality(Sent) + 1
      /\ Cardinality(Sent) \in Nat
  BY <1>4, <1>5, OneMore DEF CountInv
<1>7. Load' = Load + 1 /\ Load \in Nat
  <2>1. Len(fg') \in Nat /\ Len(bg') \in Nat
    BY <1>3 DEF LaneTypes
  <2> QED
    BY <1>1, <1>3, <2>1, Lanes DEF Load, Held
<1>8. Types'
  BY <1>1, <1>3 DEF Types, DrainTypes, NumTypes, ProduceTypes, WaitTypes
<1>9. CountInv' /\ DrainInv'
  BY <1>1, <1>5, <1>6, <1>7 DEF CountInv, DrainInv
<1>10. FrameInv'
  <2>1. Sent' \subseteq issued'
    BY <1>1, <1>5 DEF FrameInv
  <2>2. \A q \in Producer : frame'[q] # NoFrame => q # p /\ frame'[q] = frame[q] /\ frame[q] # f
    BY <1>1, Lanes DEF FrameInv
  <2>3. \A q \in Producer : frame'[q] # NoFrame => frame'[q] \in issued' \ Sent'
    BY <1>1, <1>5, <2>2 DEF FrameInv
  <2>4. \A q, u \in Producer : frame'[q] = frame'[u] /\ frame'[q] # NoFrame => q = u
    BY <2>2 DEF FrameInv
  <2>5. inflight' \notin Written' /\ Out' \cap (Range(fg') \cup Range(bg')) = {}
    BY <1>1, <1>3, <1>5 DEF FrameInv, Sent, Out
  <2> QED
    BY <1>3, <2>1, <2>3, <2>4, <2>5 DEF FrameInv
<1>11. OrderInv'
  <2> SUFFICES ASSUME NEW w \in Waiter
               PROVE  /\ before[w] \subseteq Sent'
                      /\ \A m, n \in 1 .. Len(fg') :
                           n < m /\ fg'[m] \in before[w] => fg'[n] \in before[w]
                      /\ Range(fg') \cap before[w] # {} => Range(fg) \cap before[w] # {}
    BY <1>1, <1>5 DEF OrderInv
  <2>1. before[w] \subseteq Sent /\ f \notin before[w]
    BY <1>5 DEF OrderInv
  <2>2. ASSUME NEW m \in 1 .. Len(fg'), NEW n \in 1 .. Len(fg'), n < m, fg'[m] \in before[w]
        PROVE  fg'[n] \in before[w]
    <3>1. m \in 1 .. Len(fg)
      BY <1>3, <2>1, <2>2
    <3>2. n \in 1 .. Len(fg)
      BY <2>2, <3>1, Lanes
    <3> QED
      BY <1>3, <2>2, <3>1, <3>2 DEF OrderInv
  <2> QED
    BY <1>3, <1>5, <2>1, <2>2
<1>12. WaitInv'
  BY <1>1 DEF WaitInv
<1> QED
  BY <1>8, <1>9, <1>10, <1>11, <1>12

-----------------------------------------------------------------------------
\* The drain takes the head of a lane: nothing is lost, and only the second
\* select can let a background frame pass.
LEMMA ReceiveStep ==
    ASSUME EmitterAssumption, EmitterInv, DrainForeground \/ DrainBackground
    PROVE  EmitterInv'
<1> USE DEF EmitterInv, produceVars, waitVars
<1>1. /\ inflight = NoFrame /\ Held = 0 /\ dpc \in {"first", "second"} /\ dpc' = "write"
      /\ UNCHANGED <<enqueued, written, gen, stop, wire, frame, issued,
                     wpc, target, snap, before>>
  BY DEF DrainForeground, DrainBackground, Receive, DrainInv, Held
<1>2. fg \in Seq(Foreground) /\ bg \in Seq(Frame \ Foreground)
  BY DEF Types, LaneTypes
<1> DEFINE h == inflight'
<1>3. /\ LaneTypes' /\ h \in Frame
      /\ Len(fg') + Len(bg') + 1 = Len(fg) + Len(bg)
      /\ Len(fg') \in Nat /\ Len(bg') \in Nat
      /\ Range(fg) \cup Range(bg) = Range(fg') \cup Range(bg') \cup {h}
      /\ h \notin Range(fg') \cup Range(bg')
      /\ IsInjective(fg') /\ IsInjective(bg')
      /\ Range(fg') \subseteq Range(fg)
  <2>1. /\ Len(fg) \in Nat /\ Len(bg) \in Nat /\ Len(fg) <= FgCap /\ Len(bg) <= BgCap
        /\ FgCap \in Nat /\ BgCap \in Nat /\ IsInjective(fg) /\ IsInjective(bg)
        /\ Range(fg) \cap Range(bg) = {} /\ Foreground \subseteq Frame
    BY Lanes DEF Types, LaneTypes, EmitterAssumption, FrameInv
  <2>2. CASE DrainForeground
    <3>1. fg # << >> /\ fg' = Tail(fg) /\ bg' = bg /\ h = Head(fg)
      BY <2>2 DEF DrainForeground, Receive
    <3>2. /\ fg' \in Seq(Foreground) /\ Len(fg') = Len(fg) - 1 /\ h \in Foreground
          /\ Len(fg) >= 1 /\ Range(fg) = {h} \cup Range(fg')
          /\ IsInjective(fg') /\ h \notin Range(fg')
      BY <1>2, <2>1, <3>1, TailRange
    <3>3. Len(fg') \in Nat /\ Len(fg') <= FgCap /\ h \notin Range(bg)
      BY <2>1, <3>2
    <3> QED
      BY <1>2, <2>1, <3>1, <3>2, <3>3 DEF LaneTypes
  <2>3. CASE DrainBackground
    <3>1. bg # << >> /\ bg' = Tail(bg) /\ fg' = fg /\ h = Head(bg)
      BY <2>3 DEF DrainBackground, Receive
    <3>2. /\ bg' \in Seq(Frame \ Foreground) /\ Len(bg') = Len(bg) - 1
          /\ h \in Frame \ Foreground
          /\ Len(bg) >= 1 /\ Range(bg) = {h} \cup Range(bg')
          /\ IsInjective(bg') /\ h \notin Range(bg')
      BY <1>2, <2>1, <3>1, TailRange
    <3>3. Len(bg') \in Nat /\ Len(bg') <= BgCap /\ h \notin Range(fg)
      BY <2>1, <3>2
    <3> QED
      BY <1>2, <2>1, <3>1, <3>2, <3>3 DEF LaneTypes
  <2> QED
    BY <2>2, <2>3
<1>4. h # NoFrame /\ Held' = 1
  BY <1>3 DEF EmitterAssumption, Held
<1>5. Out' = Out \cup {h} /\ Out = Written /\ Written' = Written /\ Sent' = Sent
  BY <1>1, <1>3, <1>4 DEF Out, Written, Sent
<1>6. Load' = Load
  BY <1>1, <1>3, <1>4, Lanes DEF Load
<1>7. Types'
  BY <1>1, <1>3 DEF Types, DrainTypes, NumTypes, ProduceTypes, WaitTypes
<1>8. DrainInv'
  BY <1>1, <1>4 DEF DrainInv
<1>9. CountInv'
  <2>1. Blocked' = Blocked
    BY <1>1 DEF Blocked
  <2>2. dpc # "book" /\ dpc' # "book"
    BY <1>1
  <2> QED
    BY <1>1, <1>5, <1>6, <2>1, <2>2 DEF CountInv
<1>10. FrameInv'
  <2>1. h \in Range(fg) \cup Range(bg)
    BY <1>3
  <2>2. h \notin Written
    BY <1>5, <2>1 DEF FrameInv
  <2> QED
    BY <1>1, <1>3, <1>5, <2>2 DEF FrameInv
<1>11. OrderInv'
  <2> SUFFICES ASSUME NEW w \in Waiter
               PROVE  /\ \A m, n \in 1 .. Len(fg') :
                           n < m /\ fg'[m] \in before[w] => fg'[n] \in before[w]
                      /\ Range(fg') \cap before[w] # {} =>
                           /\ Out' \subseteq before[w] \/ \E f \in Out' : Out' \ {f} \subseteq before[w]
                           /\ issued \subseteq Foreground => Out' \subseteq before[w]
    BY <1>1, <1>5 DEF OrderInv
  <2>1. /\ \A m, n \in 1 .. Len(fg) : n < m /\ fg[m] \in before[w] => fg[n] \in before[w]
        /\ Range(fg) \cap before[w] # {} =>
             /\ Out \subseteq before[w] \/ \E f \in Out : Out \ {f} \subseteq before[w]
             /\ dpc = "second" \/ issued \subseteq Foreground => Out \subseteq before[w]
    BY DEF OrderInv
  <2>2. CASE DrainForeground
    <3>1. fg # << >> /\ fg' = Tail(fg) /\ h = Head(fg)
      BY <2>2 DEF DrainForeground, Receive
    <3>2. /\ Len(fg) \in Nat /\ Len(fg) >= 1 /\ h = fg[1] /\ Len(fg') = Len(fg) - 1
          /\ \A n \in 1 .. Len(fg') : n + 1 \in 1 .. Len(fg) /\ fg'[n] = fg[n + 1]
      BY <1>2, <3>1, TailRange
    <3>3. ASSUME NEW m \in 1 .. Len(fg'), NEW n \in 1 .. Len(fg'), n < m, fg'[m] \in before[w]
          PROVE  fg'[n] \in before[w]
      <4>1. n + 1 < m + 1
        BY <3>3
      <4> QED
        BY <2>1, <3>2, <3>3, <4>1
    <3>4. ASSUME Range(fg') \cap before[w] # {} PROVE h \in before[w]
      <4>1. PICK n \in 1 .. Len(fg') : fg'[n] \in before[w]
        BY <1>3, <3>4, RangeOfSeq DEF LaneTypes
      <4>2. 1 < n + 1 /\ 1 \in 1 .. Len(fg)
        BY <3>2
      <4> QED
        BY <2>1, <3>2, <4>1, <4>2
    <3> QED
      BY <1>3, <1>5, <2>1, <3>3, <3>4
  <2>3. CASE DrainBackground
    <3>1. fg' = fg /\ dpc = "second" /\ bg # << >> /\ h = Head(bg)
      BY <2>3 DEF DrainBackground, Receive
    <3>2. ~(issued \subseteq Foreground)
      <4>1. h \in Range(bg) /\ h \in Frame \ Foreground
        BY <1>2, <3>1, TailRange
      <4> QED
        BY <4>1 DEF FrameInv, Sent
    <3>3. Range(fg) \cap before[w] # {} => Out' \ {h} \subseteq before[w]
      BY <1>5, <2>1, <3>1
    <3> QED
      BY <1>5, <2>1, <3>1, <3>2, <3>3
  <2> QED
    BY <2>2, <2>3
<1>12. WaitInv'
  BY <1>1 DEF WaitInv
<1> QED
  BY <1>7, <1>8, <1>9, <1>10, <1>11, <1>12

\* The drain looks for work, or leaves after Stop.
LEMMA PollStep ==
    ASSUME EmitterAssumption, EmitterInv, DrainDefault \/ DrainExit
    PROVE  EmitterInv'
<1> USE DEF EmitterInv, produceVars, waitVars
<1>1. /\ UNCHANGED <<laneVars, enqueued, written, gen, stop, inflight, wire,
                     frame, issued, wpc, target, snap, before>>
      /\ dpc \in {"first", "second"} /\ dpc' \in {"second", "exit"}
      /\ dpc' = "second" => fg = << >>
  BY DEF DrainDefault, DrainExit, PollsEmpty
<1>2. /\ Sent' = Sent /\ Out' = Out /\ Written' = Written /\ Load' = Load
      /\ Range(fg)' = Range(fg) /\ Range(bg)' = Range(bg)
  BY <1>1, PipeKept
<1>3. dpc' = "second" => Range(fg) = {}
  BY <1>1 DEF Range
<1>4. Types'
  BY <1>1 DEF Types, LaneTypes, DrainTypes, NumTypes, ProduceTypes, WaitTypes, laneVars
<1>5. CountInv' /\ DrainInv'
  <2>1. DrainInv'
    <3>1. stop # "returned"
      BY <1>1 DEF DrainInv
    <3> QED
      BY <1>1, <3>1 DEF DrainInv
  <2>2. Blocked' = Blocked
    BY <1>1 DEF Blocked
  <2> QED
    BY <1>1, <1>2, <2>1, <2>2 DEF CountInv
<1>6. FrameInv'
  BY <1>1, <1>2 DEF FrameInv, laneVars
<1>7. OrderInv' /\ WaitInv'
  BY <1>1, <1>3, OrderKept DEF WaitInv
<1> QED
  BY <1>4, <1>5, <1>6, <1>7

\* writeOut: the frame in hand reaches the wire.
LEMMA WriteStep ==
    ASSUME EmitterAssumption, EmitterInv, WriteOut
    PROVE  EmitterInv'
<1> USE DEF EmitterInv, produceVars, waitVars
<1> DEFINE h == inflight
<1>1. /\ dpc = "write" /\ dpc' = "book" /\ inflight' = NoFrame /\ wire' = Append(wire, h)
      /\ UNCHANGED <<fg, bg, enqueued, written, gen, stop, frame, issued,
                     wpc, target, snap, before>>
  BY DEF WriteOut, laneVars
<1>2. h # NoFrame /\ h \in Frame /\ wire \in Seq(Frame) /\ Held = 1 /\ Held' = 0
  BY <1>1 DEF DrainInv, Types, DrainTypes, Held
<1>3. wire' \in Seq(Frame) /\ Len(wire') = Len(wire) + 1 /\ Written' = Written \cup {h}
  BY <1>1, <1>2, AppendRange DEF Written
<1>4. h \notin Written /\ Out' = Out /\ Out = Written \cup {h} /\ Sent' = Sent
  BY <1>1, <1>2, <1>3 DEF FrameInv, Out, Sent
<1>5. Load' = Load
  BY <1>1, <1>2, <1>3, Lanes DEF Load
<1>6. Types' /\ DrainInv'
  BY <1>1, <1>2, <1>3 DEF Types, LaneTypes, DrainTypes, NumTypes, ProduceTypes, WaitTypes,
     DrainInv
<1>7. CountInv'
  <2>1. Blocked' = Blocked
    BY <1>1 DEF Blocked
  <2>2. IsFiniteSet(Written') /\ Cardinality(Written') = Cardinality(Written) + 1
    BY <1>3, <1>4, OneMore DEF CountInv
  <2>3. Len(wire') = written' + 1
    BY <1>1, <1>3 DEF CountInv, Types, NumTypes
  <2> QED
    BY <1>1, <1>3, <1>4, <1>5, <2>1, <2>2, <2>3 DEF CountInv
<1>8. FrameInv'
  BY <1>1, <1>2, <1>3, <1>4, Lanes DEF FrameInv
<1>9. OrderInv'
  <2> SUFFICES ASSUME NEW w \in Waiter, issued \subseteq Foreground,
                      ~(before[w] \subseteq Written')
               PROVE  Written' \subseteq before[w]
    BY <1>1, <1>4 DEF OrderInv
  <2>1. Range(bg) = {}
    BY Lanes DEF FrameInv
  <2>2. Range(fg) \cap before[w] # {}
    BY <1>3, <1>4, <2>1, Lanes DEF OrderInv
  <2> QED
    BY <1>3, <1>4, <2>2 DEF OrderInv
<1>10. WaitInv'
  BY <1>1 DEF WaitInv
<1> QED
  BY <1>6, <1>7, <1>8, <1>9, <1>10

\* The written count and the broadcast follow.
LEMMA BookStep ==
    ASSUME EmitterAssumption, EmitterInv, Book
    PROVE  EmitterInv'
<1> USE DEF EmitterInv, produceVars, waitVars
<1>1. /\ dpc = "book" /\ dpc' = "first" /\ written' = written + 1 /\ gen' = gen + 1
      /\ UNCHANGED <<laneVars, enqueued, stop, inflight, wire, frame, issued,
                     wpc, target, snap, before>>
  BY DEF Book
<1>2. /\ Sent' = Sent /\ Out' = Out /\ Written' = Written /\ Load' = Load
      /\ Range(fg)' = Range(fg) /\ Range(bg)' = Range(bg)
  BY <1>1, PipeKept
<1>3. NumTypes' /\ written <= written'
  BY <1>1 DEF Types, NumTypes
<1>4. Types'
  BY <1>1, <1>3 DEF Types, LaneTypes, DrainTypes, ProduceTypes, WaitTypes, laneVars
<1>5. DrainInv'
  BY <1>1 DEF DrainInv
<1>6. CountInv'
  <2>1. Blocked' = Blocked
    BY <1>1 DEF Blocked
  <2>2. Len(wire') = written' + 0
    BY <1>1 DEF CountInv, Types, NumTypes
  <2> QED
    BY <1>1, <1>2, <2>1, <2>2 DEF CountInv
<1>7. FrameInv'
  BY <1>1, <1>2 DEF FrameInv, laneVars
<1>8. OrderInv'
  BY <1>1, OrderKept
<1>9. WaitInv'
  <2>1. \A w \in Waiter : target[w] <= written => target[w] <= written'
    BY <1>1 DEF Types, NumTypes, WaitTypes
  <2> QED
    BY <1>1, <2>1 DEF WaitInv
<1> QED
  BY <1>4, <1>5, <1>6, <1>7, <1>8, <1>9

-----------------------------------------------------------------------------
\* A Barrier call takes the count for its target: at least the frames in the
\* lanes and beyond, because every one of them was counted first.
LEMMA BarrierStep ==
    ASSUME EmitterAssumption, EmitterInv, NEW w \in Waiter, Barrier(w)
    PROVE  EmitterInv'
<1> USE DEF EmitterInv, Barrier, drainVars, produceVars
<1>1. /\ before' = [before EXCEPT ![w] = Sent] /\ before \in [Waiter -> SUBSET Frame]
      /\ target' = [target EXCEPT ![w] = enqueued] /\ target \in [Waiter -> Nat]
      /\ wpc' = [wpc EXCEPT ![w] = "check"]
      /\ wpc \in [Waiter -> {"idle", "check", "parked", "flushed", "gave_up"}]
  BY DEF Types, WaitTypes
<1>2. /\ Sent' = Sent /\ Out' = Out /\ Written' = Written /\ Load' = Load
      /\ Range(fg)' = Range(fg) /\ Range(bg)' = Range(bg)
  BY PipeKept
<1>3. /\ Sent \subseteq Frame /\ Out \subseteq Sent /\ Written \subseteq Sent
      /\ Range(fg) \subseteq Sent
  <2>1. Written \subseteq Frame /\ inflight \in Frame \cup {NoFrame}
    BY Lanes DEF Types, DrainTypes
  <2> QED
    BY <2>1, Lanes DEF Out
<1>4. WaitTypes'
  <2>1. enqueued \in Nat
    BY DEF Types, NumTypes
  <2> QED
    BY <1>1, <1>3, <2>1 DEF Types, WaitTypes
<1>5. Types' /\ DrainInv'
  BY <1>4 DEF Types, LaneTypes, DrainTypes, NumTypes, ProduceTypes, DrainInv, laneVars
<1>6. CountInv' /\ FrameInv'
  <2>1. Blocked' = Blocked
    BY DEF Blocked
  <2> QED
    BY <1>2, <2>1 DEF CountInv, FrameInv, laneVars
<1>7. OrderInv'
  <2>1. \A n \in 1 .. Len(fg) : fg[n] \in Sent
    BY <1>3, RangeOfSeq DEF Types, LaneTypes
  <2>2. \A v \in Waiter : v # w => before'[v] = before[v]
    BY <1>1
  <2>3. before'[w] = Sent
    BY <1>1
  <2> QED
    BY <1>2, <1>3, <2>1, <2>2, <2>3 DEF OrderInv, laneVars
<1>8. WaitInv'
  <2>1. IsFiniteSet(Sent) /\ Cardinality(Sent) <= enqueued
    <3>1. Cardinality(Blocked) \in Nat /\ Load \in Nat /\ Cardinality(Sent) \in Nat
      BY LoadNat, FS_CardinalityType DEF CountInv
    <3> QED
      BY <3>1 DEF CountInv
  <2> QED
    BY <1>1, <2>1 DEF WaitInv
<1> QED
  BY <1>5, <1>6, <1>7, <1>8

\* A Barrier caller that checks, wakes or leaves: flushed only when its target
\* is reached.
LEMMA WaitStep ==
    ASSUME EmitterAssumption, EmitterInv, NEW w \in Waiter,
           BarrierCheck(w) \/ BarrierWoken(w) \/ BarrierStopped(w) \/ BarrierCtxDone(w)
    PROVE  EmitterInv'
<1> USE DEF EmitterInv, drainVars, produceVars
<1>1. /\ UNCHANGED <<laneVars, enqueued, written, gen, stop, dpc, inflight, wire,
                     frame, issued, target, before>>
      /\ wpc' \in [Waiter -> {"idle", "check", "parked", "flushed", "gave_up"}]
      /\ snap' \in [Waiter -> Nat]
      /\ \A v \in Waiter : wpc'[v] = "flushed" => wpc[v] = "flushed" \/ target[v] <= written
  <2>1. gen \in Nat /\ written \in Nat /\ target[w] \in Nat
    BY DEF Types, NumTypes, WaitTypes
  <2>2. CASE BarrierCheck(w)
    BY <2>1, <2>2 DEF BarrierCheck, Reached, WakeSnapshot, Types, WaitTypes
  <2>3. CASE BarrierWoken(w) \/ BarrierStopped(w) \/ BarrierCtxDone(w)
    BY <2>3 DEF BarrierWoken, BarrierStopped, BarrierCtxDone, BarrierLeaves, Types, WaitTypes
  <2> QED
    BY <2>2, <2>3
<1>2. /\ Sent' = Sent /\ Out' = Out /\ Written' = Written /\ Load' = Load
      /\ Range(fg)' = Range(fg) /\ Range(bg)' = Range(bg) /\ Blocked' = Blocked
  BY <1>1, PipeKept DEF Blocked
<1>3. Types' /\ DrainInv'
  BY <1>1 DEF Types, LaneTypes, DrainTypes, NumTypes, ProduceTypes, WaitTypes, DrainInv,
     laneVars
<1>4. CountInv' /\ FrameInv'
  BY <1>1, <1>2 DEF CountInv, FrameInv, laneVars
<1>5. OrderInv'
  BY <1>1, OrderKept
<1>6. WaitInv'
  BY <1>1 DEF WaitInv
<1> QED
  BY <1>3, <1>4, <1>5, <1>6

\* Stop, and steps that change nothing.
LEMMA StopStep ==
    ASSUME EmitterAssumption, EmitterInv, StopCancel \/ StopReturn \/ UNCHANGED vars
    PROVE  EmitterInv'
<1> USE DEF EmitterInv, drainVars, produceVars, waitVars, vars
<1>1. /\ UNCHANGED <<laneVars, enqueued, written, gen, dpc, inflight, wire,
                     frame, issued, wpc, target, snap, before>>
      /\ stop' \in {stop, "joining", "returned"} /\ (stop' = "returned" => dpc = "exit")
  BY DEF StopCancel, StopReturn, Joined, DrainInv
<1>2. /\ Sent' = Sent /\ Out' = Out /\ Written' = Written /\ Load' = Load
      /\ Range(fg)' = Range(fg) /\ Range(bg)' = Range(bg) /\ Blocked' = Blocked
  BY <1>1, PipeKept DEF Blocked
<1>3. Types' /\ DrainInv'
  BY <1>1 DEF Types, LaneTypes, DrainTypes, NumTypes, ProduceTypes, WaitTypes, DrainInv,
     laneVars
<1>4. CountInv' /\ FrameInv'
  BY <1>1, <1>2 DEF CountInv, FrameInv, laneVars
<1>5. OrderInv' /\ WaitInv'
  BY <1>1, OrderKept DEF WaitInv
<1> QED
  BY <1>3, <1>4, <1>5

-----------------------------------------------------------------------------
\* The inductive invariant of the emitter.
THEOREM EmitterInvariance == ASSUME EmitterAssumption PROVE Spec => []EmitterInv
<1>1. Init => EmitterInv
  BY InitEmitter
<1>2. EmitterInv /\ [Next]_vars => EmitterInv'
  BY BumpStep, SendStep, AbortStep, ReceiveStep, PollStep, WriteStep, BookStep,
     BarrierStep, WaitStep, StopStep DEF Next, DrainStep
<1> QED
  BY <1>1, <1>2, PTL DEF Spec

\* Type correctness of the emitter, lane capacities included.
THEOREM EmitterTypes == ASSUME EmitterAssumption PROVE Spec => []TypeOK
<1>1. EmitterInv => TypeOK
  BY DEF EmitterInv, Types, LaneTypes, DrainTypes, NumTypes, ProduceTypes, WaitTypes, TypeOK
<1> QED
  BY <1>1, EmitterInvariance, PTL

\* What a returned Barrier has counted: as many frames are on the wire as were
\* sent before its call.
LEMMA FlushedCount ==
    ASSUME EmitterAssumption, EmitterInv, NEW w \in Waiter, wpc[w] = "flushed"
    PROVE  /\ IsFiniteSet(before[w]) /\ IsFiniteSet(Written)
           /\ Cardinality(before[w]) \in Nat /\ Cardinality(Written) \in Nat
           /\ Cardinality(before[w]) <= Cardinality(Written)
<1>1. /\ IsFiniteSet(before[w]) /\ Cardinality(before[w]) <= target[w]
      /\ target[w] <= written /\ target[w] \in Nat /\ written \in Nat
  BY DEF EmitterInv, WaitInv, Types, WaitTypes, NumTypes
<1>2. /\ IsFiniteSet(Written) /\ Cardinality(Written) = Len(wire)
      /\ Len(wire) = written \/ Len(wire) = written + 1
  BY <1>1 DEF EmitterInv, CountInv
<1>3. Cardinality(before[w]) \in Nat /\ Cardinality(Written) \in Nat
  BY <1>1, <1>2, FS_CardinalityType
<1> QED
  BY <1>1, <1>2, <1>3

\* Barrier's contract while only the foreground lane is in use.
THEOREM BarrierContract == ASSUME EmitterAssumption PROVE Spec => []BarrierFlushes
<1>1. ASSUME EmitterInv PROVE BarrierFlushes
  <2> SUFFICES ASSUME NEW w \in Waiter, wpc[w] = "flushed", issued \subseteq Foreground,
                      ~(before[w] \subseteq Written)
               PROVE  FALSE
    BY DEF BarrierFlushes
  <2>1. Written \subseteq before[w] /\ Written # before[w]
    BY <1>1 DEF EmitterInv, OrderInv
  <2>2. /\ IsFiniteSet(before[w]) /\ Cardinality(before[w]) \in Nat
        /\ Cardinality(Written) \in Nat /\ Cardinality(before[w]) <= Cardinality(Written)
    BY <1>1, FlushedCount
  <2>3. Cardinality(Written) < Cardinality(before[w])
    <3>1. PICK f \in before[w] : f \notin Written
      OBVIOUS
    <3>2. Written \subseteq before[w] \ {f}
      BY <2>1, <3>1
    <3>3. /\ IsFiniteSet(before[w] \ {f})
          /\ Cardinality(before[w] \ {f}) = Cardinality(before[w]) - 1
      BY <2>2, <3>1, OneMore
    <3>4. Cardinality(Written) <= Cardinality(before[w] \ {f})
      BY <3>2, <3>3, FS_Subset
    <3> QED
      BY <2>2, <3>3, <3>4
  <2> QED
    BY <2>2, <2>3
<1> QED
  BY <1>1, EmitterInvariance, PTL

\* What the counters guarantee with both lanes in use: a returned Barrier leaves
\* at most one foreground frame of before its call unwritten.
THEOREM SlipsByOne == ASSUME EmitterAssumption PROVE Spec => []ForegroundSlipsByOne
<1>1. ASSUME EmitterInv PROVE ForegroundSlipsByOne
  <2> SUFFICES ASSUME NEW w \in Waiter, wpc[w] = "flushed"
               PROVE  Cardinality((before[w] \cap Foreground) \ Written) <= 1
    BY DEF ForegroundSlipsByOne
  <2> DEFINE B == before[w]
             L == (B \cap Foreground) \ Written
  <2>1. /\ IsFiniteSet(B) /\ IsFiniteSet(Written) /\ Cardinality(B) \in Nat
        /\ Cardinality(Written) \in Nat /\ Cardinality(B) <= Cardinality(Written)
    BY <1>1, FlushedCount
  <2>2. /\ Range(bg) \cap Foreground = {} /\ B \subseteq Range(fg) \cup Range(bg) \cup Out
    BY <1>1, Lanes DEF EmitterInv, OrderInv
  <2>3. CASE Range(fg) \cap B = {}
    <3>1. L \subseteq {inflight}
      BY <2>2, <2>3 DEF Out
    <3>2. IsFiniteSet({inflight}) /\ Cardinality({inflight}) = 1
      BY FS_Singleton
    <3>3. Cardinality(L) <= Cardinality({inflight})
      BY <3>1, <3>2, FS_Subset
    <3> QED
      BY <3>2, <3>3
  <2>4. CASE Range(fg) \cap B # {}
    <3>1. PICK f : Out \ {f} \subseteq B
      BY <1>1, <2>4 DEF EmitterInv, OrderInv
    <3> DEFINE W == Written \ {f}
    <3>2. W \subseteq B
      BY <3>1 DEF Out
    <3>3. IsFiniteSet(W) /\ Cardinality(W) \in Nat /\ Cardinality(Written) <= Cardinality(W) + 1
      <4>1. IsFiniteSet(W)
        BY <2>1, OneMore
      <4>2. Cardinality(W) \in Nat
        BY <4>1, FS_CardinalityType
      <4>3. Cardinality(W) = Cardinality(Written) - 1 \/ Cardinality(W) = Cardinality(Written)
        <5>1. f \in Written => Cardinality(W) = Cardinality(Written) - 1
          BY <2>1, OneMore
        <5>2. f \notin Written => W = Written
          OBVIOUS
        <5> QED
          BY <5>1, <5>2
      <4> HIDE DEF W
      <4> QED
        BY <2>1, <4>1, <4>2, <4>3
    <3>4. /\ IsFiniteSet(B \ W) /\ Cardinality(B \ W) = Cardinality(B) - Cardinality(W)
      <4>1. B \cap W = W
        BY <3>2
      <4> QED
        BY <2>1, <4>1, FS_Difference
    <3>5. Cardinality(B \ W) <= 1
      BY <2>1, <3>3, <3>4
    <3>6. L \subseteq B \ W
      OBVIOUS
    <3>7. Cardinality(L) <= Cardinality(B \ W) /\ Cardinality(L) \in Nat
                                              /\ Cardinality(B \ W) \in Nat
      BY <3>4, <3>6, FS_Subset, FS_CardinalityType
    <3> HIDE DEF L, B, W
    <3> QED
      BY <3>5, <3>7 DEF L, B
  <2> QED
    BY <2>3, <2>4
<1> QED
  BY <1>1, EmitterInvariance, PTL

\* Once Stop has returned, the sink gets no further frame.
THEOREM QuietAfterStop == ASSUME EmitterAssumption PROVE Spec => NoWriteAfterStop
<1>1. ASSUME EmitterInv, Next, stop = "returned" PROVE wire' = wire
  <2>1. dpc = "exit"
    BY <1>1 DEF EmitterInv, DrainInv
  <2> QED
    BY <1>1, <2>1 DEF Next, DrainStep, Bump, Send, Abort, DrainForeground, DrainDefault,
       PollsEmpty, DrainBackground, DrainExit, WriteOut, Book, Barrier, BarrierCheck,
       BarrierWoken, BarrierStopped, BarrierCtxDone, BarrierLeaves, StopCancel, StopReturn,
       drainVars
<1>2. EmitterInv /\ [Next]_vars => [stop = "returned" => wire' = wire]_vars
  BY <1>1
<1> QED
  BY <1>2, EmitterInvariance, PTL DEF Spec, NoWriteAfterStop

-----------------------------------------------------------------------------
(***************************************************************************)
(* The dialogs of asks, for any questions, engine asks, forms and answers: *)
(* how often an ask is shown and landed, what of an accepted answer        *)
(* reaches the result, and what is left of a question that fell back.      *)
(***************************************************************************)
CONSTANTS Question, Engine, Fields, Value, Conn
VARIABLES capability, boolCap, negotiation, degraded, pending, entry, form, attempt,
          shown, text, outcome, landed, said

Dialogs == INSTANCE AskDialogs

Asks == Dialogs!Ask

How     == {"answered", "nonanswer", "reply", "timeout", "accepted", "declined"}
Verdict == {"none", "fallback", "valid", "invalid", "decline", "cancelled"}

\* What a validated property may hold.
Validated == {"label", "other", "blank", "bool", "labels", "none"}

DialogTypes ==
    /\ capability \in {"unknown", "ok", "degraded"}
    /\ pending \in Question \union {Dialogs!Nobody} /\ text \in SUBSET Asks
    /\ entry \in [Asks -> {"none", "queued", "open", "resolving", "drained", "over"}]
    /\ attempt \in [Asks -> {0, 1}] /\ shown \in [Asks -> Nat]
    /\ landed \in [Asks -> Seq(How)]
    /\ DOMAIN outcome = Asks /\ DOMAIN said = Asks

\* A form is shown once per round, and a drained ask has no answer to ask again for.
ShowInv ==
    \A a \in Asks : /\ shown[a] <= attempt[a] + 1
                    /\ entry[a] \in {"none", "queued", "drained"} => shown[a] <= attempt[a]
                    /\ entry[a] = "drained" => outcome[a].verdict = "cancelled"

\* What the broker holds has not landed; an engine's ask lands as it ends.
LandInv ==
    /\ \A a \in Asks : entry[a] = "none" => landed[a] = <<>>
    /\ \A a \in Asks : Len(landed[a]) <= 1
    /\ \A q \in Question : pending = q => landed[q] = <<>> /\ entry[q] # "none"
    /\ \A e \in Engine : entry[e] # "over" => landed[e] = <<>>

\* One form is open, with a property for each question; a valid outcome holds what its
\* properties allow, and one that fell back was published.
FormInv ==
    /\ \A a, b \in Asks : entry[a] = "open" /\ entry[b] = "open" => a = b
    /\ \A a \in Asks : entry[a] = "open" => DOMAIN form = DOMAIN Fields[a]
    /\ \A a \in Asks : outcome[a].verdict = "fallback" => a \in text
    /\ \A a \in Asks : outcome[a].verdict = "valid" =>
         \A i \in DOMAIN Fields[a] : i \in DOMAIN outcome[a].content /\ outcome[a].content[i] \in Validated

DialogInv == DialogTypes /\ ShowInv /\ LandInv /\ FormInv /\ Dialogs!AnswerSurvives /\ Dialogs!FallenIsVisible

LEMMA InitDialogs == ASSUME Dialogs!DialogAssumption, Dialogs!Init PROVE DialogInv
<1> USE DEF Dialogs!Init, Asks
<1>1. DialogTypes /\ ShowInv
  BY DEF DialogTypes, ShowInv, Dialogs!NoOutcome
<1>2. LandInv /\ FormInv
  BY DEF LandInv, FormInv, Dialogs!NoOutcome, Dialogs!Ask, Dialogs!DialogAssumption
<1>3. Dialogs!AnswerSurvives
  <2>1. \A q \in Question : landed[q] # <<"answered">>
    BY DEF Dialogs!Ask
  <2> QED
    BY <2>1 DEF Dialogs!AnswerSurvives
<1>4. Dialogs!FallenIsVisible
  BY DEF Dialogs!FallenIsVisible, Dialogs!DialogAssumption, Dialogs!Ask
<1> QED
  BY <1>1, <1>2, <1>3, <1>4 DEF DialogInv

\* The negotiation touches no ask.
LEMMA NegotiationKeeps ==
    ASSUME DialogInv, \/ \E i \in Conn, f, b \in BOOLEAN : Dialogs!HandleInitialize(i, f, b)
                      \/ \E i \in Conn, ok \in BOOLEAN : Dialogs!ProbeEnds(i, ok)
    PROVE  DialogInv'
<1>1. UNCHANGED <<pending, entry, form, attempt, shown, text, outcome, landed, said>>
  BY DEF Dialogs!HandleInitialize, Dialogs!ProbeEnds, Dialogs!Surface
<1>2. capability' \in {"unknown", "ok", "degraded"}
  BY DEF DialogInv, DialogTypes, Dialogs!HandleInitialize, Dialogs!ProbeEnds
<1> QED
  BY <1>1, <1>2 DEF DialogInv, DialogTypes, ShowInv, LandInv, FormInv, Dialogs!AnswerSurvives,
                    Dialogs!FallenIsVisible

\* An ask comes; a question takes the broker.
LEMMA EnqueueKeeps ==
    ASSUME Dialogs!DialogAssumption, DialogInv,
           \/ \E q \in Question : Dialogs!EnqueueElicitationAsk(q)
           \/ \E e \in Engine : Dialogs!EnqueueEngineAsk(e)
    PROVE  DialogInv'
<1> USE DEF Asks, Dialogs!Ask
<1>1. PICK a \in Asks : /\ entry[a] = "none" /\ entry' = [entry EXCEPT ![a] = "queued"]
                        /\ \/ a \in Question /\ pending' = a
                           \/ a \in Engine /\ pending' = pending
                        /\ UNCHANGED <<capability, form, attempt, shown, text, outcome, landed, said>>
  BY DEF Dialogs!EnqueueElicitationAsk, Dialogs!EnqueueEngineAsk, Dialogs!Surface, Dialogs!Negotiated
<1>2. DialogTypes' /\ ShowInv'
  BY <1>1 DEF DialogInv, DialogTypes, ShowInv
<1>3. LandInv'
  BY <1>1 DEF DialogInv, DialogTypes, LandInv, Dialogs!DialogAssumption
<1>4. FormInv'
  BY <1>1 DEF DialogInv, DialogTypes, FormInv
<1>5. Dialogs!AnswerSurvives' /\ Dialogs!FallenIsVisible'
  BY <1>1 DEF DialogInv, DialogTypes, Dialogs!AnswerSurvives, Dialogs!FallenIsVisible
<1> QED
  BY <1>2, <1>3, <1>4, <1>5 DEF DialogInv

\* A form that is answered, not shown, or broken, returns an outcome.
LEMMA ReturnKeeps ==
    ASSUME DialogInv, NEW a \in Asks, NEW out, Dialogs!Returns(a, out),
           entry[a] \in {"queued", "open"},
           out.verdict = "fallback" => a \in text',
           out.verdict = "valid" =>
             \A i \in DOMAIN Fields[a] : i \in DOMAIN out.content /\ out.content[i] \in Validated,
           text' \in {text, text \union {a}}, entry[a] = "open" \/ form' = form,
           UNCHANGED <<capability, pending, attempt, shown, landed, said>>
    PROVE  DialogInv'
<1> USE DEF Dialogs!Returns
<1>5. DialogTypes'
  BY DEF DialogInv, DialogTypes
<1>6. ShowInv'
  BY DEF DialogInv, DialogTypes, ShowInv
<1>1. DialogTypes' /\ ShowInv'
  BY <1>5, <1>6
<1>2. LandInv'
  BY DEF DialogInv, DialogTypes, LandInv, Asks, Dialogs!Ask
<1>3. FormInv'
  <2>1. \A b \in Asks : b # a => outcome'[b] = outcome[b] /\ entry'[b] = entry[b]
    BY DEF DialogInv, DialogTypes
  <2>2. outcome'[a] = out /\ entry'[a] = "resolving"
    BY DEF DialogInv, DialogTypes
  <2>3. \A b \in Asks : entry'[b] = "open" => form' = form
    BY <2>1, <2>2 DEF DialogInv, FormInv
  <2> QED
    BY <2>1, <2>2, <2>3 DEF DialogInv, FormInv
<1>4. Dialogs!AnswerSurvives' /\ Dialogs!FallenIsVisible'
  BY DEF DialogInv, DialogTypes, Dialogs!AnswerSurvives,
                Dialogs!FallenIsVisible, Asks, Dialogs!Ask
<1> QED
  BY <1>1, <1>2, <1>3, <1>4 DEF DialogInv

LEMMA FireKeeps == ASSUME DialogInv, NEW a \in Asks, Dialogs!Fire(a) PROVE DialogInv'
<1>1. CASE Dialogs!Capable
  <2>1. /\ entry[a] = "queued" /\ \A b \in Asks : entry[b] # "open"
        /\ entry' = [entry EXCEPT ![a] = "open"] /\ form' = Dialogs!BuildElicitationForm(a)
        /\ shown' = [shown EXCEPT ![a] = @ + 1]
        /\ UNCHANGED <<capability, text, outcome, pending, attempt, landed, said>>
    BY <1>1 DEF Dialogs!Fire, Dialogs!Negotiated, Asks
  <2>2. DOMAIN form' = DOMAIN Fields[a]
    BY <2>1 DEF Dialogs!BuildElicitationForm
  <2>6. \A b \in Asks : shown'[b] = (IF b = a THEN shown[b] + 1 ELSE shown[b]) /\ shown[b] \in Nat
    BY <2>1 DEF DialogInv, DialogTypes
  <2>7. DialogTypes'
    BY <2>1 DEF DialogInv, DialogTypes
  <2>8. ShowInv'
    <3>1. \A b \in Asks : b # a => entry'[b] = entry[b] /\ shown'[b] = shown[b]
      BY <2>1, <2>6 DEF DialogInv, DialogTypes
    <3>2. entry'[a] = "open" /\ shown'[a] = shown[a] + 1 /\ shown[a] <= attempt[a]
      BY <2>1, <2>6 DEF DialogInv, DialogTypes, ShowInv
    <3>3. attempt[a] \in Nat /\ shown[a] \in Nat
      BY DEF DialogInv, DialogTypes
    <3>4. shown'[a] <= attempt[a] + 1
      BY <3>2, <3>3
    <3> QED
      BY <2>1, <3>1, <3>2, <3>4 DEF DialogInv, ShowInv
  <2>3. DialogTypes' /\ ShowInv'
    BY <2>7, <2>8
  <2>4. LandInv' /\ FormInv'
    BY <2>1, <2>2 DEF DialogInv, DialogTypes, LandInv, FormInv, Asks, Dialogs!Ask
  <2>5. Dialogs!AnswerSurvives' /\ Dialogs!FallenIsVisible'
    BY <2>1 DEF DialogInv, DialogTypes, Dialogs!AnswerSurvives,
                Dialogs!FallenIsVisible, Asks, Dialogs!Ask
  <2> QED
    BY <2>3, <2>4, <2>5 DEF DialogInv
<1>2. CASE ~Dialogs!Capable
  <2>1. /\ entry[a] = "queued" /\ text' = text \union {a}
        /\ Dialogs!Returns(a, [Dialogs!NoOutcome EXCEPT !.verdict = "fallback"])
        /\ UNCHANGED <<capability, form, shown, pending, attempt, landed, said>>
    BY <1>2 DEF Dialogs!Fire, Dialogs!Fallback, Dialogs!Negotiated
  <2>2. [Dialogs!NoOutcome EXCEPT !.verdict = "fallback"].verdict = "fallback"
    BY DEF Dialogs!NoOutcome
  <2> QED
    BY <2>1, <2>2, ReturnKeeps
<1> QED
  BY <1>1, <1>2

\* A valid content has what its properties allow.
LEMMA ValidContent ==
    ASSUME NEW kinds, NEW content, Dialogs!ValidateElicitationContent(kinds, content)
    PROVE  \A i \in DOMAIN kinds : content[i] \in Validated
BY DEF Dialogs!ValidateElicitationContent, Dialogs!ValidatePropValue, Validated

LEMMA OutcomeKeeps ==
    ASSUME DialogInv, NEW a \in Asks,
           \/ Dialogs!RpcErrorFallback(a, FALSE) \/ Dialogs!RpcErrorFallback(a, TRUE)
           \/ Dialogs!Accepts(a) \/ Dialogs!Declines(a)
    PROVE  DialogInv'
<1>1. CASE Dialogs!RpcErrorFallback(a, FALSE) \/ Dialogs!RpcErrorFallback(a, TRUE)
  <2>1. /\ entry[a] = "open" /\ text' = text \union {a}
        /\ Dialogs!Returns(a, [Dialogs!NoOutcome EXCEPT !.verdict = "fallback"])
        /\ UNCHANGED <<capability, shown, pending, attempt, landed, said>>
    BY <1>1 DEF Dialogs!RpcErrorFallback, Dialogs!Fallback, Dialogs!Negotiated
  <2>2. [Dialogs!NoOutcome EXCEPT !.verdict = "fallback"].verdict = "fallback"
    BY DEF Dialogs!NoOutcome
  <2> QED
    BY <2>1, <2>2, ReturnKeeps
<1>2. CASE Dialogs!Accepts(a)
  <2>1. PICK content \in [DOMAIN Fields[a] -> Value \union {Dialogs!Absent}], extra \in BOOLEAN :
          Dialogs!ParseOutcome(a, IF Dialogs!ValidateElicitationContent(form, content)
                                  THEN [verdict |-> "valid", content |-> content, extra |-> extra]
                                  ELSE [Dialogs!NoOutcome EXCEPT !.verdict = "invalid"])
    BY <1>2 DEF Dialogs!Accepts
  <2>2. /\ entry[a] = "open"
        /\ UNCHANGED <<capability, text, shown, pending, attempt, landed, said>>
    BY <2>1 DEF Dialogs!ParseOutcome, Dialogs!Negotiated
  <2>3. CASE Dialogs!ValidateElicitationContent(form, content)
    <3> DEFINE out == [verdict |-> "valid", content |-> content, extra |-> extra]
    <3>1. Dialogs!Returns(a, out)
      BY <2>1, <2>3 DEF Dialogs!ParseOutcome
    <3>2. DOMAIN form = DOMAIN Fields[a]
      BY <2>2 DEF DialogInv, FormInv
    <3>3. out.verdict = "valid" /\ \A i \in DOMAIN Fields[a] : i \in DOMAIN out.content /\ out.content[i] \in Validated
      BY <2>3, <3>2, ValidContent
    <3> HIDE DEF out
    <3> QED
      BY <2>2, <3>1, <3>3, ReturnKeeps
  <2>4. CASE ~Dialogs!ValidateElicitationContent(form, content)
    <3>1. Dialogs!Returns(a, [Dialogs!NoOutcome EXCEPT !.verdict = "invalid"])
      BY <2>1, <2>4 DEF Dialogs!ParseOutcome
    <3>2. [Dialogs!NoOutcome EXCEPT !.verdict = "invalid"].verdict = "invalid"
      BY DEF Dialogs!NoOutcome
    <3> QED
      BY <2>2, <3>1, <3>2, ReturnKeeps
  <2> QED
    BY <2>3, <2>4
<1>3. CASE Dialogs!Declines(a)
  <2>1. PICK v \in {"decline", "cancelled"} : Dialogs!ParseOutcome(a, [Dialogs!NoOutcome EXCEPT !.verdict = v])
    BY <1>3 DEF Dialogs!Declines
  <2>2. /\ entry[a] = "open" /\ Dialogs!Returns(a, [Dialogs!NoOutcome EXCEPT !.verdict = v])
        /\ UNCHANGED <<capability, text, shown, pending, attempt, landed, said>>
    BY <2>1 DEF Dialogs!ParseOutcome, Dialogs!Negotiated
  <2>3. [Dialogs!NoOutcome EXCEPT !.verdict = v].verdict = v
    BY DEF Dialogs!NoOutcome
  <2> QED
    BY <2>2, <2>3, ReturnKeeps
<1> QED
  BY <1>1, <1>2, <1>3

LEMMA DrainTurnKeeps == ASSUME DialogInv, NEW a \in Asks, Dialogs!DrainTurn(a) PROVE DialogInv'
<1>1. /\ entry[a] = "queued" /\ entry' = [entry EXCEPT ![a] = "drained"]
      /\ outcome' = [outcome EXCEPT ![a] = [Dialogs!NoOutcome EXCEPT !.verdict = "cancelled"]]
      /\ UNCHANGED <<capability, form, shown, text, pending, attempt, landed, said>>
  BY DEF Dialogs!DrainTurn, Dialogs!Negotiated, Dialogs!Surface
<1>2. [Dialogs!NoOutcome EXCEPT !.verdict = "cancelled"].verdict = "cancelled"
  BY DEF Dialogs!NoOutcome
<1>3. DialogTypes' /\ ShowInv'
  BY <1>1, <1>2 DEF DialogInv, DialogTypes, ShowInv
<1>4. LandInv' /\ FormInv'
  BY <1>1, <1>2 DEF DialogInv, DialogTypes, LandInv, FormInv, Asks, Dialogs!Ask
<1>5. Dialogs!AnswerSurvives' /\ Dialogs!FallenIsVisible'
  BY <1>1 DEF DialogInv, DialogTypes, Dialogs!AnswerSurvives,
                Dialogs!FallenIsVisible, Asks, Dialogs!Ask
<1> QED
  BY <1>3, <1>4, <1>5 DEF DialogInv

\* Only an accept that did not validate is asked again, and once.
LEMMA ReaskKeeps ==
    ASSUME Dialogs!DialogAssumption, DialogInv, NEW a \in Asks, Dialogs!Resolving(a), Dialogs!Reask(a),
           Dialogs!ElicitationVerdict(outcome[a].verdict, attempt[a]) = "reask",
           outcome' = [outcome EXCEPT ![a] = Dialogs!NoOutcome],
           UNCHANGED <<capability, form, shown, text>>
    PROVE  DialogInv'
<1>1. outcome[a].verdict = "invalid" /\ attempt[a] = 0 /\ entry[a] = "resolving"
  BY DEF Dialogs!ElicitationVerdict, Dialogs!Resolving, DialogInv, ShowInv
<1>2. /\ entry' = [entry EXCEPT ![a] = "queued"] /\ attempt' = [attempt EXCEPT ![a] = @ + 1]
      /\ UNCHANGED <<pending, landed, said>>
  BY DEF Dialogs!Reask
<1>3. Dialogs!NoOutcome.verdict = "none"
  BY DEF Dialogs!NoOutcome
<1>4. DialogTypes' /\ ShowInv'
  BY <1>1, <1>2, <1>3 DEF DialogInv, DialogTypes, ShowInv
<1>5. LandInv' /\ FormInv'
  BY <1>1, <1>2, <1>3 DEF DialogInv, DialogTypes, LandInv, FormInv, Asks, Dialogs!Ask
<1>6. Dialogs!AnswerSurvives' /\ Dialogs!FallenIsVisible'
  BY <1>1, <1>2 DEF DialogInv, DialogTypes, Dialogs!AnswerSurvives,
                Dialogs!FallenIsVisible, Asks, Dialogs!Ask
<1> QED
  BY <1>4, <1>5, <1>6 DEF DialogInv

\* What the rendering of a validated answer shows as nothing is a blank or no choice.
LEMMA Rendered ==
    ASSUME NEW v \in Validated, Dialogs!RenderStructuredValue(v) = ""
    PROVE  v \in {"blank", "none"}
BY DEF Validated, Dialogs!RenderStructuredValue, Dialogs!Absent

\* A claim lands the ask the broker held, which had not landed.
LEMMA ClaimLands ==
    ASSUME Dialogs!DialogAssumption, DialogInv, NEW how \in How, NEW by, NEW content,
           Dialogs!Claim(how, by, content),
           how = "answered" => by \in Question /\
             \A i \in DOMAIN Fields[by] : i \in DOMAIN content /\ content[i] \in Validated,
           \A a \in Asks : entry[a] # "none" => entry'[a] # "none",
           \A a \in Asks : entry'[a] = "none" => entry[a] = "none",
           \A e \in Engine : entry'[e] = entry[e]
    PROVE  /\ landed' \in [Asks -> Seq(How)] /\ DOMAIN said' = Asks /\ pending' = Dialogs!Nobody
           /\ LandInv' /\ Dialogs!AnswerSurvives'
<1> USE DEF Asks, Dialogs!Ask
<1>1. CASE pending = Dialogs!Nobody
  <2>1. UNCHANGED <<pending, landed, said>>
    BY <1>1 DEF Dialogs!Claim
  <2> QED
    BY <1>1, <2>1 DEF DialogInv, DialogTypes, LandInv, Dialogs!AnswerSurvives, Dialogs!DialogAssumption
<1>2. CASE pending # Dialogs!Nobody
  <2>1. /\ pending \in Question /\ landed[pending] = <<>> /\ entry[pending] # "none"
        /\ pending \in Asks /\ pending \notin Engine
    BY <1>2 DEF DialogInv, DialogTypes, LandInv, Dialogs!DialogAssumption
  <2>2. /\ landed' = [landed EXCEPT ![pending] = Append(@, how)] /\ pending' = Dialogs!Nobody
        /\ said' = [said EXCEPT ![pending] =
             [by |-> by, content |-> content, values |-> Dialogs!RenderStructuredReply(pending, content)]]
    BY <1>2 DEF Dialogs!Claim
  <2>3. Append(<<>>, how) = <<how>> /\ <<how>> \in Seq(How) /\ Len(<<how>>) = 1
    OBVIOUS
  <2>4. /\ landed' \in [Asks -> Seq(How)] /\ landed'[pending] = <<how>> /\ DOMAIN said' = Asks
        /\ \A a \in Asks : a # pending => landed'[a] = landed[a] /\ said'[a] = said[a]
    BY <2>1, <2>2, <2>3 DEF DialogInv, DialogTypes
  <2>5. LandInv'
    BY <2>1, <2>2, <2>3, <2>4 DEF DialogInv, DialogTypes, LandInv, Dialogs!DialogAssumption
  <2>6. ASSUME NEW q \in Question, landed'[q] = <<"answered">>, said'[q].by = q,
               NEW i \in DOMAIN Fields[q], said'[q].values[i] = ""
        PROVE  said'[q].content[i] \in {"blank", "none"}
    <3>1. CASE q # pending
      BY <2>4, <2>6, <3>1 DEF DialogInv, Dialogs!AnswerSurvives
    <3>2. CASE q = pending
      <4>1. how = "answered"
        <5>1. <<how>> = <<"answered">>
        BY <2>4, <2>6, <3>2
      <5>2. <<how>>[1] = <<"answered">>[1]
        BY <5>1
      <5> QED
        BY <5>2
      <4>2. said'[q] = [by |-> by, content |-> content, values |-> Dialogs!RenderStructuredReply(q, content)]
        BY <2>1, <2>2, <3>2 DEF DialogInv, DialogTypes
      <4> DEFINE reply == Dialogs!RenderStructuredReply(q, content)
      <4>6. said'[q] = [by |-> by, content |-> content, values |-> reply]
        BY <4>2
      <4> HIDE DEF reply
      <4>7. said'[q].by = by /\ said'[q].content = content /\ said'[q].values = reply
        BY <4>6
      <4>3. by = q /\ said'[q].content = content
        BY <2>6, <4>7
      <4>4. content[i] \in Validated /\ i \in DOMAIN content
        BY <4>1, <4>3
      <4>5. said'[q].values[i] = Dialogs!RenderStructuredValue(content[i])
        BY <4>4, <4>7 DEF reply, Dialogs!RenderStructuredReply
      <4> QED
        BY <2>6, <4>3, <4>4, <4>5, Rendered
    <3> QED
      BY <3>1, <3>2
  <2>7. Dialogs!AnswerSurvives'
    BY <2>6 DEF Dialogs!AnswerSurvives
  <2> QED
    BY <2>2, <2>4, <2>5, <2>7
<1> QED
  BY <1>1, <1>2

LEMMA QuestionResolves ==
    ASSUME Dialogs!DialogAssumption, DialogInv, NEW q \in Question, Dialogs!ResolveElicitationAsk(q)
    PROVE  DialogInv'
<1> DEFINE v == Dialogs!ElicitationVerdict(outcome[q].verdict, attempt[q])
<1>1. /\ q \in Asks /\ Dialogs!Resolving(q) /\ outcome' = [outcome EXCEPT ![q] = Dialogs!NoOutcome]
      /\ UNCHANGED <<capability, form, shown, text>>
  BY DEF Dialogs!ResolveElicitationAsk, Dialogs!Negotiated, Dialogs!Surface, Asks, Dialogs!Ask
<1>2. CASE v = "reask"
  BY <1>1, <1>2, ReaskKeeps DEF Dialogs!ResolveElicitationAsk
<1>3. CASE v # "reask"
  <2>1. /\ entry' = [entry EXCEPT ![q] = "over"] /\ UNCHANGED attempt
        /\ \/ v = "fallen" /\ UNCHANGED <<pending, landed, said>>
           \/ v = "accept" /\ Dialogs!Claim("answered", q, outcome[q].content)
           \/ Dialogs!Claim("nonanswer", q, <<>>)
    BY <1>3 DEF Dialogs!ResolveElicitationAsk
  <2>2. Dialogs!NoOutcome.verdict = "none"
    BY DEF Dialogs!NoOutcome
  <2>3. q \notin Engine /\ entry[q] \in {"resolving", "drained"}
    BY <1>1 DEF Dialogs!DialogAssumption, Dialogs!Resolving
  <2>4. /\ \A a \in Asks : entry[a] # "none" => entry'[a] # "none"
        /\ \A a \in Asks : entry'[a] = "none" => entry[a] = "none"
        /\ \A e \in Engine : entry'[e] = entry[e]
    BY <1>1, <2>1, <2>3 DEF DialogInv, DialogTypes, Asks, Dialogs!Ask
  <2>5. ShowInv'
    <3>1. \A a \in Asks : a # q => entry'[a] = entry[a] /\ outcome'[a] = outcome[a]
      BY <1>1, <2>1 DEF DialogInv, DialogTypes
    <3>2. entry'[q] = "over" /\ shown[q] <= attempt[q] + 1 /\ UNCHANGED <<shown, attempt>>
      BY <1>1, <2>1, <2>3 DEF DialogInv, DialogTypes, ShowInv
    <3> QED
      BY <3>1, <3>2 DEF DialogInv, ShowInv
  <2>6. FormInv'
    BY <1>1, <2>1, <2>2 DEF DialogInv, DialogTypes, FormInv
  <2>7. CASE v = "fallen" /\ UNCHANGED <<pending, landed, said>>
    <3>1. q \in text
      BY <2>7 DEF Dialogs!ElicitationVerdict, DialogInv, FormInv, Asks, Dialogs!Ask
    <3>2. DialogTypes'
      BY <1>1, <2>1, <2>7 DEF DialogInv, DialogTypes
    <3>3. LandInv'
      BY <1>1, <2>1, <2>4, <2>7 DEF DialogInv, DialogTypes, LandInv, Asks, Dialogs!Ask
    <3>4. Dialogs!AnswerSurvives' /\ Dialogs!FallenIsVisible'
      BY <1>1, <2>1, <2>7, <3>1 DEF DialogInv, DialogTypes, Dialogs!AnswerSurvives, Dialogs!FallenIsVisible,
                                    Asks, Dialogs!Ask
    <3> QED
      BY <2>5, <2>6, <3>2, <3>3, <3>4 DEF DialogInv
  <2>8. CASE \/ v = "accept" /\ Dialogs!Claim("answered", q, outcome[q].content)
             \/ Dialogs!Claim("nonanswer", q, <<>>)
    <3>1. v = "accept" =>
            \A i \in DOMAIN Fields[q] : i \in DOMAIN outcome[q].content /\ outcome[q].content[i] \in Validated
      BY <1>1 DEF Dialogs!ElicitationVerdict, DialogInv, FormInv
    <3>2. /\ landed' \in [Asks -> Seq(How)] /\ DOMAIN said' = Asks /\ pending' = Dialogs!Nobody
          /\ LandInv' /\ Dialogs!AnswerSurvives'
      <4>1. CASE v = "accept" /\ Dialogs!Claim("answered", q, outcome[q].content)
        BY <2>4, <3>1, <4>1, ClaimLands DEF How
      <4>2. CASE Dialogs!Claim("nonanswer", q, <<>>)
        BY <2>4, <4>2, ClaimLands DEF How
      <4> QED
        BY <2>8, <4>1, <4>2
    <3>3. DialogTypes'
      BY <1>1, <2>1, <3>2 DEF DialogInv, DialogTypes
    <3>4. Dialogs!FallenIsVisible'
      BY <3>2 DEF Dialogs!FallenIsVisible, Dialogs!DialogAssumption, Dialogs!Ask
    <3> QED
      BY <2>5, <2>6, <3>2, <3>3, <3>4 DEF DialogInv
  <2> QED
    BY <2>1, <2>7, <2>8
<1> QED
  BY <1>2, <1>3

LEMMA EngineLands ==
    ASSUME Dialogs!DialogAssumption, DialogInv, NEW e \in Engine, Dialogs!LandEngineAsk(e)
    PROVE  DialogInv'
<1> DEFINE v == Dialogs!ElicitationVerdict(outcome[e].verdict, attempt[e])
<1>1. /\ e \in Asks /\ e \notin Question /\ Dialogs!Resolving(e)
      /\ outcome' = [outcome EXCEPT ![e] = Dialogs!NoOutcome]
      /\ UNCHANGED <<capability, form, shown, text>>
  BY DEF Dialogs!LandEngineAsk, Dialogs!Negotiated, Dialogs!Surface, Asks, Dialogs!Ask, Dialogs!DialogAssumption
<1>2. CASE v = "reask"
  BY <1>1, <1>2, ReaskKeeps DEF Dialogs!LandEngineAsk
<1>3. CASE v # "reask"
  <2>1. PICK how \in {"accepted", "declined"} : landed' = [landed EXCEPT ![e] = Append(@, how)]
    BY <1>3 DEF Dialogs!LandEngineAsk
  <2>2. entry' = [entry EXCEPT ![e] = "over"] /\ UNCHANGED <<pending, attempt, said>>
    BY <1>3 DEF Dialogs!LandEngineAsk
  <2>3. landed[e] = <<>> /\ entry[e] \in {"resolving", "drained"}
    BY <1>1 DEF DialogInv, LandInv, Dialogs!Resolving
  <2>4. Append(<<>>, how) = <<how>> /\ <<how>> \in Seq(How) /\ Len(<<how>>) = 1
    BY DEF How
  <2>5. Dialogs!NoOutcome.verdict = "none"
    BY DEF Dialogs!NoOutcome
  <2>6. /\ landed' \in [Asks -> Seq(How)] /\ landed'[e] = <<how>>
        /\ \A a \in Asks : a # e => landed'[a] = landed[a]
    BY <1>1, <2>1, <2>3, <2>4 DEF DialogInv, DialogTypes
  <2>11. /\ \A a \in Asks : a # e => entry'[a] = entry[a] /\ outcome'[a] = outcome[a]
         /\ entry'[e] = "over" /\ shown[e] <= attempt[e] + 1 /\ UNCHANGED <<shown, attempt>>
    <3>1. shown[e] \in Nat /\ attempt[e] \in {0, 1} /\ shown[e] <= attempt[e] + 1
      BY <1>1, <2>3 DEF DialogInv, DialogTypes, ShowInv
    <3> QED
      BY <1>1, <2>2, <3>1 DEF DialogInv, DialogTypes
  <2>12. ShowInv'
    BY <2>11 DEF DialogInv, ShowInv
  <2>7. DialogTypes' /\ ShowInv'
    BY <1>1, <2>2, <2>6, <2>12 DEF DialogInv, DialogTypes
  <2>8. LandInv'
    <3>1. \A a \in Asks : Len(landed'[a]) <= 1
      <4>1. Len(landed'[e]) <= 1
        BY <2>4, <2>6
      <4> QED
        BY <2>6, <4>1 DEF DialogInv, LandInv
    <3>2. \A q \in Question : q # e /\ q \in Asks
      BY <1>1 DEF Asks, Dialogs!Ask
    <3>3. \A a \in Engine : a \in Asks
      BY DEF Asks, Dialogs!Ask
    <3> QED
      BY <2>2, <2>6, <2>11, <3>1, <3>2, <3>3 DEF DialogInv, LandInv
  <2>9. FormInv'
    BY <1>1, <2>2, <2>5 DEF DialogInv, DialogTypes, FormInv
  <2>10. Dialogs!AnswerSurvives' /\ Dialogs!FallenIsVisible'
    BY <1>1, <2>2, <2>6 DEF DialogInv, DialogTypes, Dialogs!AnswerSurvives, Dialogs!FallenIsVisible,
                            Asks, Dialogs!Ask
  <2> QED
    BY <2>7, <2>8, <2>9, <2>10 DEF DialogInv
<1> QED
  BY <1>2, <1>3

LEMMA ReplyKeeps == ASSUME Dialogs!DialogAssumption, DialogInv, Dialogs!ClaimedElsewhere PROVE DialogInv'
<1>1. PICK how \in {"reply", "timeout"} : Dialogs!Claim(how, Dialogs!Nobody, <<>>)
  BY DEF Dialogs!ClaimedElsewhere
<1>2. UNCHANGED <<capability, entry, attempt, outcome, form, shown, text>>
  BY DEF Dialogs!ClaimedElsewhere, Dialogs!Negotiated, Dialogs!Surface
<1>3. /\ landed' \in [Asks -> Seq(How)] /\ DOMAIN said' = Asks /\ pending' = Dialogs!Nobody
      /\ LandInv' /\ Dialogs!AnswerSurvives'
  BY <1>1, <1>2, ClaimLands DEF How
<1>4. DialogTypes' /\ ShowInv' /\ FormInv'
  BY <1>2, <1>3 DEF DialogInv, DialogTypes, ShowInv, FormInv
<1>5. Dialogs!FallenIsVisible'
  BY <1>3 DEF Dialogs!FallenIsVisible, Dialogs!DialogAssumption, Dialogs!Ask
<1> QED
  BY <1>3, <1>4, <1>5 DEF DialogInv

\* The inductive invariant of the dialogs.
THEOREM DialogInvariance == ASSUME Dialogs!DialogAssumption PROVE Dialogs!Spec => []DialogInv
<1>1. Dialogs!Init => DialogInv
  BY InitDialogs
<1>2. DialogInv /\ [Dialogs!Next]_(Dialogs!vars) => DialogInv'
  <2> SUFFICES ASSUME DialogInv, [Dialogs!Next]_(Dialogs!vars) PROVE DialogInv'
    OBVIOUS
  <2>1. CASE UNCHANGED Dialogs!vars
    BY <2>1 DEF Dialogs!vars, DialogInv, DialogTypes, ShowInv, LandInv, FormInv,
                Dialogs!AnswerSurvives, Dialogs!FallenIsVisible
  <2>2. ASSUME NEW a \in Asks, Dialogs!SurfaceStep(a) \/ Dialogs!DrainTurn(a) PROVE DialogInv'
    BY <2>2, FireKeeps, OutcomeKeeps, DrainTurnKeeps DEF Dialogs!SurfaceStep
  <2>3. ASSUME NEW a \in Asks, Dialogs!ResolveStep(a) PROVE DialogInv'
    BY <2>3, QuestionResolves, EngineLands DEF Dialogs!ResolveStep, Asks, Dialogs!Ask
  <2> QED
    BY <2>1, <2>2, <2>3, NegotiationKeeps, EnqueueKeeps, ReplyKeeps DEF Dialogs!Next, Asks
<1> QED
  BY <1>1, <1>2, PTL DEF Dialogs!Spec

\* No person sees the form of one ask more than twice and no ask lands twice; what a
\* validated answer's result shows as nothing was a blank or no choice; a question that
\* waits when its dialog is over is on the screen: for any asks, forms and answers, and
\* with the types of the module.
THEOREM AsksAndAnswers ==
    ASSUME Dialogs!DialogAssumption
    PROVE  Dialogs!Spec => [](/\ Dialogs!TypeOK /\ Dialogs!AskedTwiceAtMost
                              /\ Dialogs!AnswerSurvives /\ Dialogs!FallenIsVisible)
<1>3. {0, 1} \subseteq Nat
  OBVIOUS
<1>1. DialogInv => Dialogs!TypeOK
  BY <1>3 DEF DialogInv, DialogTypes, Dialogs!TypeOK, Asks
<1>2. DialogInv => Dialogs!AskedTwiceAtMost /\ Dialogs!AnswerSurvives /\ Dialogs!FallenIsVisible
  BY DEF DialogInv, DialogTypes, ShowInv, LandInv, Dialogs!AskedTwiceAtMost, Asks
<1> QED
  BY <1>1, <1>2, DialogInvariance, PTL
=============================================================================
