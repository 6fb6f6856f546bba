--------------------------- MODULE AskQueueProofs ---------------------------
(***************************************************************************)
(* The ask queue's safety for any number of asks, turns, pump and teardown *)
(* goroutines.  IInv says where an ask can be: new, queued, promoted,      *)
(* fired, withdrawn by one drain, or resolved, and never in two of these.  *)
(***************************************************************************)
EXTENDS AskQueue, TLAPS

Running(p) == pc[p] # "off"

\* firing is exactly "a pump goroutine is running", and there is one.
PumpInv ==
    /\ OneOutstanding
    /\ firing <=> \E p \in Pump : Running(p)
    /\ queued # {} => firing
    /\ open # NoAsk => firing
    /\ \A p \in Pump :
         /\ pc[p] \in {"off", "top"} => cur[p] = NoAsk
         /\ pc[p] \in {"fire", "close"} => cur[p] \in Ask /\ open = cur[p]
         /\ pc[p] \in {"resolve", "resuming"} => cur[p] \in Ask /\ open = NoAsk

\* Sequence numbers are handed out once.
SeqInv ==
    /\ \A a \in Ask : seqNo[a] <= seq
    /\ \A a, b \in Ask : a # b /\ seqNo[a] = seqNo[b] => seqNo[a] = 0

WasFired(a) == \E i \in 1..Len(fired) : fired[i] = a

\* The places of an ask exclude one another.
PlaceInv ==
    /\ \A a \in Ask : seqNo[a] = 0 =>
         /\ a \notin queued /\ a # open /\ ~WasFired(a) /\ a \notin withdrawn
         /\ resolved[a] = <<>>
    /\ \A a \in queued : a # open /\ ~WasFired(a) /\ a \notin withdrawn /\ resolved[a] = <<>>
    /\ open # NoAsk => open \notin withdrawn /\ resolved[open] = <<>>
    /\ \A a \in withdrawn : ~WasFired(a) /\ resolved[a] \in {<<>>, <<"cancelled">>}
    /\ \A p \in Pump :
         /\ pc[p] = "top" /\ open # NoAsk => ~WasFired(open)
         /\ pc[p] \in {"fire", "close", "resolve"} =>
              WasFired(cur[p]) /\ resolved[cur[p]] = <<>>

\* A withdrawn ask belongs to one drain until its resolve goroutine has run.
DrainInv ==
    /\ \A d \in Drainer :
         /\ dpc[d] = "idle" => batch[d] = {}
         /\ batch[d] \subseteq withdrawn
         /\ batch[d] \cap spawned = {}
         /\ \A a \in batch[d] : resolved[a] = <<>>
    /\ \A d, e \in Drainer : d # e => batch[d] \cap batch[e] = {}
    /\ spawned \subseteq withdrawn
    /\ \A a \in spawned : resolved[a] = <<>>

SameClass(a, b) == (a \in Foreground) = (b \in Foreground)

\* What has not fired yet is younger than everything of its class that has.
AgeInv ==
    /\ FifoInClass
    /\ \A a \in Ask, i \in 1..Len(fired) :
         a \in queued \/ (a = open /\ ~WasFired(a)) =>
           (SameClass(a, fired[i]) => seqNo[fired[i]] < seqNo[a])
    /\ open # NoAsk /\ ~WasFired(open) => \A b \in queued : seqNo[open] < seqNo[b]

IInv == TypeOK /\ PumpInv /\ SeqInv /\ PlaceInv /\ DrainInv /\ AgeInv /\ ResolvedOnce

-----------------------------------------------------------------------------
\* What Append does to a sequence's type, length and elements.
LEMMA AppendFacts ==
    ASSUME NEW S, NEW s \in Seq(S), NEW e \in S
    PROVE  /\ Append(s, e) \in Seq(S)
           /\ Len(Append(s, e)) = Len(s) + 1
           /\ \A i \in 1..Len(s) : Append(s, e)[i] = s[i]
           /\ Append(s, e)[Len(s) + 1] = e
           /\ 1..(Len(s) + 1) = 1..Len(s) \cup {Len(s) + 1}
           /\ Len(s) \in Nat
  OBVIOUS

\* Initially everything is empty.
LEMMA InitInv == Init => IInv
<1> SUFFICES ASSUME Init PROVE IInv
  OBVIOUS
<1> USE AskAssumption DEF Init
<1>1. TypeOK
  <2>1. firing \in BOOLEAN
    OBVIOUS
  <2> QED
    BY <2>1 DEF TypeOK, Outcome
<1>2. PumpInv
  BY DEF PumpInv, OneOutstanding, Running
<1>3. SeqInv
  BY DEF SeqInv
<1>4. PlaceInv
  BY DEF PlaceInv, WasFired
<1>5. DrainInv
  BY DEF DrainInv
<1>6. AgeInv
  BY DEF AgeInv, FifoInClass, WasFired
<1>7. ResolvedOnce
  BY DEF ResolvedOnce
<1> QED
  BY <1>1, <1>2, <1>3, <1>4, <1>5, <1>6, <1>7 DEF IInv

\* Types: an Append to a resolution list needs the pump to hold a real ask.
LEMMA TypeStep == TypeOK /\ PumpInv /\ [Next]_vars => TypeOK'
<1> SUFFICES ASSUME TypeOK, PumpInv, [Next]_vars PROVE TypeOK'
  OBVIOUS
<1> USE AskAssumption DEF TypeOK, queueVars, pumpVars, drainVars, history
<1>1. ASSUME NEW a \in Ask, Enqueue(a) PROVE TypeOK'
  <2>1. CASE Idle
    <3>1. firing' \in BOOLEAN
      BY <1>1, <2>1 DEF Enqueue
    <3>2. PICK p \in Pump : pc' = [pc EXCEPT ![p] = "top"]
      BY <1>1, <2>1 DEF Enqueue
    <3>3. open' = a /\ queued' = queued
      BY <1>1, <2>1 DEF Enqueue
    <3> QED
      BY <1>1, <3>1, <3>2, <3>3 DEF Enqueue
  <2>2. CASE ~Idle
    BY <1>1, <2>2 DEF Enqueue
  <2> QED
    BY <2>1, <2>2
<1>2. ASSUME NEW a \in Ask, DrainedResolve(a) PROVE TypeOK'
  <2>1. Append(resolved[a], "cancelled") \in Seq(Outcome)
    BY AppendFacts DEF Outcome
  <2>2. resolved' \in [Ask -> Seq(Outcome)]
    BY <1>2, <2>1 DEF DrainedResolve
  <2> QED
    BY <1>2, <2>2 DEF DrainedResolve
<1>3. ASSUME NEW p \in Pump, PumpOpen(p) PROVE TypeOK'
  BY <1>3 DEF PumpOpen
<1>4. ASSUME NEW p \in Pump, PumpPromote(p) PROVE TypeOK'
  BY <1>4 DEF PumpPromote
<1>5. ASSUME NEW p \in Pump, PumpExit(p) PROVE TypeOK'
  BY <1>5 DEF PumpExit
<1>6. ASSUME NEW p \in Pump, PumpClose(p) PROVE TypeOK'
  BY <1>6 DEF PumpClose
<1>7. ASSUME NEW p \in Pump, PumpResolve(p) PROVE TypeOK'
  <2>1. cur[p] \in Ask /\ resolved[cur[p]] \in Seq(Outcome) /\ outcome[p] \in Outcome
    BY <1>7 DEF PumpResolve, PumpInv
  <2>2. Append(resolved[cur[p]], outcome[p]) \in Seq(Outcome)
    BY <2>1, AppendFacts
  <2>3. resolved' \in [Ask -> Seq(Outcome)]
    BY <1>7, <2>1, <2>2 DEF PumpResolve
  <2> QED
    BY <1>7, <2>3 DEF PumpResolve
<1>8. ASSUME NEW p \in Pump, PumpLoop(p) PROVE TypeOK'
  BY <1>8 DEF PumpLoop, Outcome
<1>9. ASSUME NEW p \in Pump, NEW o \in Outcome, FireReturns(p, o) PROVE TypeOK'
  BY <1>9 DEF FireReturns, PumpInv
<1>10. ASSUME NEW d \in Drainer, NEW scope \in SUBSET Ask, Drain(d, scope) PROVE TypeOK'
  BY <1>10 DEF Drain, Remaining
<1>11. ASSUME NEW d \in Drainer, DrainCancel(d) PROVE TypeOK'
  BY <1>11 DEF DrainCancel, CancelFunc
<1>12. ASSUME NEW d \in Drainer, DrainSpawn(d) PROVE TypeOK'
  BY <1>12 DEF DrainSpawn, Drained
<1>13. CASE UNCHANGED vars
  BY <1>13 DEF vars
<1> QED
  BY <1>1, <1>2, <1>3, <1>4, <1>5, <1>6, <1>7, <1>8, <1>9, <1>10, <1>11, <1>12,
     <1>13 DEF Next, PumpStep, FireAnswered, FireFails, FireCancelled, DrainAll,
     DrainTurn, Outcome

\* The invariant's parts, action by action.
LEMMA EnqueueStep ==
    ASSUME IInv, NEW a \in Ask, Enqueue(a), TypeOK'
    PROVE  IInv'
<1> USE AskAssumption DEF IInv, TypeOK, queueVars, pumpVars, drainVars, history
<1> USE DEF Enqueue
<1>1. PumpInv'
  <2>1. CASE Idle
    BY <2>1 DEF PumpInv, OneOutstanding, Running, Idle
  <2>2. CASE ~Idle
    BY <2>2 DEF PumpInv, OneOutstanding, Running, Idle
  <2> QED
    BY <2>1, <2>2
<1>2. SeqInv'
  BY DEF SeqInv
<1>3. PlaceInv'
  <2>1. CASE Idle
    BY <2>1 DEF PlaceInv, WasFired, PumpInv, Running, Idle
  <2>2. CASE ~Idle
    BY <2>2 DEF PlaceInv, WasFired
  <2> QED
    BY <2>1, <2>2
<1>4. DrainInv'
  BY DEF DrainInv
<1>5. AgeInv'
  <2>1. fired' = fired /\ Len(fired) \in Nat /\ \A i \in 1..Len(fired) : fired[i] \in Ask
    OBVIOUS
  <2>2. \A i \in 1..Len(fired) : fired[i] # a /\ seqNo'[fired[i]] = seqNo[fired[i]]
    BY <2>1 DEF PlaceInv, WasFired
  <2>3. \A i \in 1..Len(fired) : seqNo'[fired[i]] < seqNo'[a]
    BY <2>1, <2>2 DEF SeqInv
  <2>4. FifoInClass'
    <3>1. ASSUME NEW i \in 1..Len(fired), NEW j \in 1..Len(fired), i < j,
                 (fired[i] \in Foreground) = (fired[j] \in Foreground)
          PROVE  seqNo'[fired[i]] < seqNo'[fired[j]]
      BY <2>1, <2>2, <3>1 DEF AgeInv, FifoInClass
    <3> QED
      BY <2>1, <3>1 DEF FifoInClass
  <2>5. ASSUME NEW b \in Ask, NEW i \in 1..Len(fired),
               b \in queued' \/ (b = open' /\ ~WasFired(b)'), SameClass(b, fired[i])
        PROVE  seqNo'[fired[i]] < seqNo'[b]
    <3>1. CASE b = a
      BY <2>3, <3>1
    <3>2. CASE b # a
      <4>1. b \in queued \/ (b = open /\ ~WasFired(b))
        BY <2>1, <2>5, <3>2 DEF WasFired
      <4> QED
        BY <2>1, <2>2, <2>5, <3>2, <4>1 DEF AgeInv
    <3> QED
      BY <3>1, <3>2
  <2>6. open' # NoAsk /\ ~WasFired(open)' => \A b \in queued' : seqNo'[open'] < seqNo'[b]
    <3>1. CASE Idle
      BY <3>1 DEF PumpInv, Idle
    <3>2. CASE ~Idle
      BY <2>1, <3>2 DEF AgeInv, SeqInv, PlaceInv, WasFired
    <3> QED
      BY <3>1, <3>2
  <2> QED
    BY <2>1, <2>4, <2>5, <2>6 DEF AgeInv, SameClass
<1>6. ResolvedOnce'
  BY DEF ResolvedOnce
<1> QED
  BY <1>1, <1>2, <1>3, <1>4, <1>5, <1>6

\* Opening a dialog adds its ask, and nothing else, to the fired ones.
LEMMA FiredStep ==
    ASSUME TypeOK, NEW x \in Ask, fired' = Append(fired, x)
    PROVE  /\ \A b : WasFired(b)' <=> WasFired(b) \/ b = x
           /\ Len(fired) \in Nat /\ Len(fired') = Len(fired) + 1
           /\ fired'[Len(fired) + 1] = x
           /\ \A i \in 1..Len(fired) : fired'[i] = fired[i] /\ fired[i] \in Ask
           /\ 1..Len(fired') = 1..Len(fired) \cup {Len(fired) + 1}
<1>1. fired \in Seq(Ask)
  BY DEF TypeOK
<1>2. /\ Len(fired') = Len(fired) + 1 /\ Len(fired) \in Nat
      /\ fired'[Len(fired) + 1] = x
      /\ \A i \in 1..Len(fired) : fired'[i] = fired[i] /\ fired[i] \in Ask
      /\ 1..Len(fired') = 1..Len(fired) \cup {Len(fired) + 1}
  BY <1>1
<1>3. ASSUME NEW b PROVE WasFired(b)' <=> WasFired(b) \/ b = x
  BY <1>2 DEF WasFired
<1> QED
  BY <1>2, <1>3

\* Age order survives a dialog opening for the ask x, provided x is younger than
\* what its class has fired and older than what its class has waiting.
LEMMA AgeStep ==
    ASSUME TypeOK, AgeInv, NEW x \in Ask, fired' = Append(fired, x), seqNo' = seqNo,
           \A i \in 1..Len(fired) : SameClass(x, fired[i]) => seqNo[fired[i]] < seqNo[x],
           \A b \in Ask : b \in queued' \/ (b = open' /\ b # x /\ ~WasFired(b)) =>
              /\ b \in queued \/ (b = open /\ ~WasFired(b))
              /\ SameClass(b, x) => seqNo[x] < seqNo[b],
           open' = x
    PROVE  AgeInv'
<1>1. /\ \A b : WasFired(b)' <=> WasFired(b) \/ b = x
      /\ Len(fired) \in Nat /\ Len(fired') = Len(fired) + 1
      /\ fired'[Len(fired) + 1] = x
      /\ \A i \in 1..Len(fired) : fired'[i] = fired[i] /\ fired[i] \in Ask
      /\ 1..Len(fired') = 1..Len(fired) \cup {Len(fired) + 1}
  BY FiredStep
<1>2. FifoInClass'
  <2>1. ASSUME NEW i \in 1..Len(fired'), NEW j \in 1..Len(fired'), i < j,
               (fired'[i] \in Foreground) = (fired'[j] \in Foreground)
        PROVE  seqNo[fired'[i]] < seqNo[fired'[j]]
    <3>1. i \in 1..Len(fired)
      BY <1>1, <2>1
    <3>2. CASE j \in 1..Len(fired)
      BY <1>1, <2>1, <3>1, <3>2 DEF AgeInv, FifoInClass
    <3>3. CASE j = Len(fired) + 1
      BY <1>1, <2>1, <3>1, <3>3 DEF SameClass
    <3> QED
      BY <1>1, <3>2, <3>3
  <2> QED
    BY <2>1 DEF FifoInClass
<1>3. ASSUME NEW b \in Ask, NEW i \in 1..Len(fired'),
             b \in queued' \/ (b = open' /\ ~WasFired(b)'), SameClass(b, fired'[i])
      PROVE  seqNo[fired'[i]] < seqNo[b]
  <2>1. b \in queued' \/ (b = open' /\ b # x /\ ~WasFired(b))
    BY <1>1, <1>3
  <2>2. b \in queued \/ (b = open /\ ~WasFired(b))
    BY <2>1
  <2>3. CASE i \in 1..Len(fired)
    BY <1>1, <1>3, <2>2, <2>3 DEF AgeInv
  <2>4. CASE i = Len(fired) + 1
    BY <1>1, <1>3, <2>1, <2>4
  <2> QED
    BY <1>1, <2>3, <2>4
<1>4. WasFired(open)'
  BY <1>1 DEF WasFired
<1> QED
  BY <1>2, <1>3, <1>4 DEF AgeInv, SameClass

\* The pump takes the ask Enqueue promoted: only the fired list and its pc change.
LEMMA PumpOpenStep ==
    ASSUME IInv, NEW p \in Pump, PumpOpen(p), TypeOK'
    PROVE  IInv'
<1> USE AskAssumption DEF IInv, queueVars, pumpVars, drainVars, history, PumpOpen
<1>1. open \in Ask /\ ~WasFired(open)
  BY DEF TypeOK, PlaceInv
<1>2. \A b : WasFired(b)' <=> WasFired(b) \/ b = open
  BY <1>1, FiredStep
<1>3. PumpInv'
  BY <1>1 DEF TypeOK, PumpInv, OneOutstanding, Running
<1>4. SeqInv'
  BY DEF SeqInv
<1>5. PlaceInv'
  <2>1. \A r \in Pump : IF r = p THEN pc'[r] = "fire" /\ cur'[r] = open ELSE pc'[r] = "off"
    BY DEF TypeOK, PumpInv, OneOutstanding
  <2>2. open \notin queued /\ open \notin withdrawn /\ seqNo[open] # 0 /\ resolved[open] = <<>>
    BY <1>1 DEF PlaceInv
  <2>3. \A r \in Pump :
         /\ pc'[r] = "top" /\ open' # NoAsk => ~WasFired(open)'
         /\ pc'[r] \in {"fire", "close", "resolve"} =>
              WasFired(cur[r])' /\ resolved'[cur'[r]] = <<>>
    BY <1>2, <2>1, <2>2 DEF WasFired
  <2> QED
    BY <1>2, <2>2, <2>3 DEF PlaceInv
<1>6. DrainInv'
  BY DEF DrainInv
<1>7. AgeInv'
  <2>1. \A i \in 1..Len(fired) : SameClass(open, fired[i]) => seqNo[fired[i]] < seqNo[open]
    BY <1>1 DEF AgeInv
  <2>2. \A b \in Ask : b \in queued' \/ (b = open' /\ b # open /\ ~WasFired(b)) =>
            b \in queued
    OBVIOUS
  <2>3. \A b \in queued : seqNo[open] < seqNo[b]
    BY <1>1 DEF AgeInv
  <2> QED
    BY <1>1, <2>1, <2>2, <2>3, AgeStep
<1>8. ResolvedOnce'
  BY DEF ResolvedOnce
<1> QED
  BY <1>3, <1>4, <1>5, <1>6, <1>7, <1>8

\* popHeadLocked's choice moves one ask from the queue to the slot, in age order.
LEMMA PumpPromoteStep ==
    ASSUME IInv, NEW p \in Pump, PumpPromote(p), TypeOK'
    PROVE  IInv'
<1> USE AskAssumption DEF IInv, queueVars, pumpVars, drainVars, history
<1>1. PICK x \in queued : /\ IsHead(x) /\ open' = x /\ queued' = queued \ {x}
                          /\ cur' = [cur EXCEPT ![p] = x] /\ fired' = Append(fired, x)
  BY DEF PumpPromote
<1> USE DEF PumpPromote
<1>2. x \in Ask /\ ~WasFired(x)
  BY DEF TypeOK, PlaceInv
<1>3. \A b : WasFired(b)' <=> WasFired(b) \/ b = x
  BY <1>1, <1>2, FiredStep
<1>4. PumpInv'
  BY <1>1, <1>2 DEF TypeOK, PumpInv, OneOutstanding, Running
<1>5. SeqInv'
  BY DEF SeqInv
<1>6. PlaceInv'
  <2>1. \A r \in Pump : IF r = p THEN pc'[r] = "fire" /\ cur'[r] = x ELSE pc'[r] = "off"
    BY <1>1 DEF TypeOK, PumpInv, OneOutstanding
  <2>2. x \notin withdrawn /\ seqNo[x] # 0 /\ resolved[x] = <<>>
    BY <1>2 DEF PlaceInv
  <2>3. \A r \in Pump :
         /\ pc'[r] = "top" /\ open' # NoAsk => ~WasFired(open)'
         /\ pc'[r] \in {"fire", "close", "resolve"} =>
              WasFired(cur[r])' /\ resolved'[cur'[r]] = <<>>
    BY <1>3, <2>1, <2>2 DEF WasFired
  <2> QED
    BY <1>1, <1>3, <2>2, <2>3 DEF PlaceInv
<1>7. DrainInv'
  BY DEF DrainInv
<1>8. AgeInv'
  <2>1. \A i \in 1..Len(fired) : SameClass(x, fired[i]) => seqNo[fired[i]] < seqNo[x]
    BY <1>2 DEF AgeInv
  <2>2. \A b \in Ask : b \in queued' \/ (b = open' /\ b # x /\ ~WasFired(b)) =>
            b \in queued \ {x}
    BY <1>1
  <2>3. \A b \in queued \ {x} : SameClass(b, x) => seqNo[x] < seqNo[b]
    BY <1>1 DEF IsHead, Before, SameClass
  <2> QED
    BY <1>1, <1>2, <2>1, <2>2, <2>3, AgeStep
<1>9. ResolvedOnce'
  BY DEF ResolvedOnce
<1> QED
  BY <1>4, <1>5, <1>6, <1>7, <1>8, <1>9

\* Steps of the pump that touch neither the queue nor a resolution list.
LEMMA PumpQuietStep ==
    ASSUME IInv, NEW p \in Pump, NEW o \in Outcome, TypeOK',
           PumpExit(p) \/ FireReturns(p, o) \/ PumpClose(p) \/ PumpLoop(p)
    PROVE  IInv'
<1> USE AskAssumption DEF IInv, queueVars, pumpVars, drainVars, history
<1> USE DEF PumpExit, MayExit, FireReturns, PumpClose, PumpLoop
<1>1. /\ UNCHANGED <<seq, seqNo, queued, fired, withdrawn, batch, spawned, resolved, dpc>>
      /\ open' \in {open, NoAsk}
      /\ \A b : WasFired(b)' <=> WasFired(b)
  BY DEF WasFired
<1>2. \A r \in Pump : r # p => pc'[r] = "off" /\ pc[r] = "off" /\ cur'[r] = cur[r]
  BY DEF TypeOK, PumpInv, OneOutstanding
<1>3. PumpInv'
  <2>1. CASE PumpExit(p)
    BY <1>2, <2>1 DEF TypeOK, PumpInv, OneOutstanding, Running
  <2>2. CASE FireReturns(p, o)
    BY <1>2, <2>2 DEF TypeOK, PumpInv, OneOutstanding, Running
  <2>3. CASE PumpClose(p)
    BY <1>2, <2>3 DEF TypeOK, PumpInv, OneOutstanding, Running
  <2>4. CASE PumpLoop(p)
    BY <1>2, <2>4 DEF TypeOK, PumpInv, OneOutstanding, Running
  <2> QED
    BY <2>1, <2>2, <2>3, <2>4
<1>4. SeqInv'
  BY <1>1 DEF SeqInv
<1>5. PlaceInv'
  <2>1. /\ pc'[p] \in {"off", "close", "resolve"} \/ (pc'[p] = "top" /\ open' = NoAsk)
        /\ pc'[p] \in {"close", "resolve"} =>
              /\ cur'[p] = cur[p] /\ WasFired(cur[p]) /\ resolved[cur[p]] = <<>>
    BY DEF TypeOK, PumpInv, PlaceInv
  <2>2. ASSUME NEW r \in Pump
        PROVE  /\ pc'[r] = "top" /\ open' # NoAsk => ~WasFired(open)'
               /\ pc'[r] \in {"fire", "close", "resolve"} =>
                    WasFired(cur[r])' /\ resolved'[cur'[r]] = <<>>
    <3>1. CASE r = p
      BY <1>1, <2>1, <3>1 DEF WasFired
    <3>2. CASE r # p
      BY <1>2, <3>2
    <3> QED
      BY <3>1, <3>2
  <2>3. open' # NoAsk => open' \notin withdrawn /\ resolved[open'] = <<>>
    BY <1>1 DEF PlaceInv
  <2>4. \A a \in Ask : a # open => a # open'
    BY <1>1
  <2>5. \A a \in Ask : seqNo[a] = 0 =>
         /\ a \notin queued /\ a # open' /\ ~WasFired(a) /\ a \notin withdrawn
         /\ resolved[a] = <<>>
    BY <2>4 DEF PlaceInv
  <2>6. \A a \in queued : a # open' /\ ~WasFired(a) /\ a \notin withdrawn /\ resolved[a] = <<>>
    BY <2>4 DEF PlaceInv, TypeOK
  <2> QED
    BY <1>1, <2>2, <2>3, <2>5, <2>6 DEF PlaceInv
<1>6. DrainInv'
  BY <1>1 DEF DrainInv
<1>7. AgeInv'
  <2>1. FifoInClass'
    BY <1>1 DEF AgeInv, FifoInClass
  <2>2. open' # NoAsk => open' = open
    BY <1>1
  <2> QED
    BY <1>1, <2>1, <2>2 DEF AgeInv, SameClass
<1>8. ResolvedOnce'
  BY <1>1 DEF ResolvedOnce
<1> QED
  BY <1>3, <1>4, <1>5, <1>6, <1>7, <1>8

\* The pump resolves the ask it holds, which nobody else has resolved.
LEMMA PumpResolveStep ==
    ASSUME IInv, NEW p \in Pump, PumpResolve(p), TypeOK'
    PROVE  IInv'
<1> USE AskAssumption DEF IInv, queueVars, pumpVars, drainVars, history, PumpResolve
<1>1. /\ cur[p] \in Ask /\ WasFired(cur[p]) /\ resolved[cur[p]] = <<>> /\ open = NoAsk
      /\ cur[p] \notin queued /\ cur[p] \notin withdrawn /\ seqNo[cur[p]] # 0
  BY DEF PumpInv, PlaceInv
<1>2. /\ resolved' = [resolved EXCEPT ![cur[p]] = <<outcome[p]>>]
      /\ \A b : WasFired(b)' <=> WasFired(b)
  BY <1>1 DEF WasFired
<1>3. \A r \in Pump : r # p => pc'[r] = "off"
  BY DEF TypeOK, PumpInv, OneOutstanding
<1>4. PumpInv'
  BY <1>1 DEF TypeOK, PumpInv, OneOutstanding, Running
<1>5. SeqInv'
  BY DEF SeqInv
<1>6. PlaceInv'
  <2>1. ASSUME NEW r \in Pump
        PROVE  pc'[r] \notin {"top", "fire", "close", "resolve"}
    BY <1>3 DEF TypeOK
  <2>2. \A a \in Ask \ {cur[p]} : resolved'[a] = resolved[a]
    BY <1>2 DEF TypeOK
  <2> QED
    BY <1>1, <1>2, <2>1, <2>2 DEF PlaceInv, TypeOK
<1>7. DrainInv'
  <2>1. \A a \in withdrawn : resolved'[a] = resolved[a]
    BY <1>1, <1>2 DEF TypeOK
  <2> QED
    BY <2>1 DEF DrainInv
<1>8. AgeInv'
  BY <1>2 DEF AgeInv, FifoInClass, SameClass
<1>9. ResolvedOnce'
  BY <1>1, <1>2 DEF ResolvedOnce, TypeOK
<1> QED
  BY <1>4, <1>5, <1>6, <1>7, <1>8, <1>9

\* A drain moves its scope from the queue to its batch in one critical section.
LEMMA DrainStep ==
    ASSUME IInv, NEW d \in Drainer, NEW scope \in SUBSET Ask, Drain(d, scope), TypeOK'
    PROVE  IInv'
<1> USE AskAssumption DEF IInv, queueVars, pumpVars, drainVars, history, Drain, Remaining
<1>1. \A b : WasFired(b)' <=> WasFired(b)
  BY DEF WasFired
<1>2. PumpInv'
  BY DEF PumpInv, OneOutstanding, Running
<1>3. SeqInv'
  BY DEF SeqInv
<1>4. PlaceInv'
  <2>1. \A a \in queued \cap scope : a # open /\ ~WasFired(a) /\ resolved[a] = <<>> /\ seqNo[a] # 0
    BY DEF PlaceInv, TypeOK
  <2>2. \A r \in Pump :
         /\ pc'[r] = "top" /\ open' # NoAsk => ~WasFired(open)'
         /\ pc'[r] \in {"fire", "close", "resolve"} =>
              WasFired(cur[r])' /\ resolved'[cur'[r]] = <<>>
    BY DEF PlaceInv, WasFired
  <2> QED
    BY <1>1, <2>1, <2>2 DEF PlaceInv
<1>5. DrainInv'
  <2>1. \A a \in queued : a \notin withdrawn /\ resolved[a] = <<>>
    BY DEF PlaceInv
  <2>2. /\ batch'[d] = queued \cap scope
        /\ \A e \in Drainer : e # d => batch'[e] = batch[e] /\ dpc'[e] = dpc[e]
        /\ dpc'[d] = "cancel"
    BY DEF TypeOK
  <2> QED
    BY <2>1, <2>2 DEF DrainInv
<1>6. AgeInv'
  <2>1. FifoInClass'
    BY DEF AgeInv, FifoInClass
  <2> QED
    BY <1>1, <2>1 DEF AgeInv, SameClass
<1>7. ResolvedOnce'
  BY DEF ResolvedOnce
<1> QED
  BY <1>2, <1>3, <1>4, <1>5, <1>6, <1>7

\* The later steps of a drain leave the queue and the pump alone.
LEMMA DrainTailStep ==
    ASSUME IInv, NEW d \in Drainer, DrainCancel(d) \/ DrainSpawn(d), TypeOK'
    PROVE  IInv'
<1> USE AskAssumption DEF IInv, queueVars, pumpVars, drainVars, history
<1> USE DEF DrainCancel, DrainSpawn
<1>1. /\ UNCHANGED <<queueVars, pumpVars, resolved, history>>
      /\ \A b : WasFired(b)' <=> WasFired(b)
  BY DEF WasFired
<1>2. PumpInv'
  BY <1>1 DEF PumpInv, OneOutstanding, Running
<1>3. SeqInv'
  BY <1>1 DEF SeqInv
<1>4. PlaceInv'
  BY <1>1 DEF PlaceInv, WasFired
<1>5. DrainInv'
  <2>1. CASE DrainCancel(d)
    BY <2>1 DEF DrainInv, TypeOK
  <2>2. CASE DrainSpawn(d)
    BY <2>2 DEF DrainInv, Drained, TypeOK
  <2> QED
    BY <2>1, <2>2
<1>6. AgeInv'
  <2>1. FifoInClass'
    BY <1>1 DEF AgeInv, FifoInClass
  <2> QED
    BY <1>1, <2>1 DEF AgeInv, SameClass
<1>7. ResolvedOnce'
  BY <1>1 DEF ResolvedOnce
<1> QED
  BY <1>2, <1>3, <1>4, <1>5, <1>6, <1>7

\* A drained ask's goroutine resolves it, and only it can.
LEMMA DrainedResolveStep ==
    ASSUME IInv, NEW a \in Ask, DrainedResolve(a), TypeOK'
    PROVE  IInv'
<1> USE AskAssumption DEF IInv, queueVars, pumpVars, drainVars, history, DrainedResolve
<1>1. a \in withdrawn /\ resolved[a] = <<>> /\ ~WasFired(a) /\ a \notin queued /\ a # open
      /\ seqNo[a] # 0
  BY DEF DrainInv, PlaceInv
<1>2. /\ resolved' = [resolved EXCEPT ![a] = <<"cancelled">>]
      /\ \A b : WasFired(b)' <=> WasFired(b)
  BY <1>1 DEF WasFired
<1>3. \A b \in Ask \ {a} : resolved'[b] = resolved[b]
  BY <1>2 DEF TypeOK
<1>4. PumpInv'
  BY DEF PumpInv, OneOutstanding, Running
<1>5. SeqInv'
  BY DEF SeqInv
<1>6. PlaceInv'
  <2>1. \A r \in Pump :
         /\ pc'[r] = "top" /\ open' # NoAsk => ~WasFired(open)'
         /\ pc'[r] \in {"fire", "close", "resolve"} =>
              WasFired(cur[r])' /\ resolved'[cur'[r]] = <<>>
    BY <1>1, <1>3 DEF PlaceInv, PumpInv, TypeOK, WasFired
  <2>2. resolved'[a] = <<"cancelled">>
    BY <1>2 DEF TypeOK
  <2> QED
    BY <1>1, <1>2, <1>3, <2>1, <2>2 DEF PlaceInv, TypeOK
<1>7. DrainInv'
  <2>1. \A e \in Drainer : a \notin batch[e]
    BY DEF DrainInv
  <2> QED
    BY <1>3, <2>1 DEF DrainInv, TypeOK
<1>8. AgeInv'
  <2>1. FifoInClass'
    BY DEF AgeInv, FifoInClass
  <2> QED
    BY <1>2, <2>1 DEF AgeInv, SameClass
<1>9. ResolvedOnce'
  BY <1>1, <1>2 DEF ResolvedOnce, TypeOK
<1> QED
  BY <1>4, <1>5, <1>6, <1>7, <1>8, <1>9

\* Every step of the queue preserves the inductive invariant.
LEMMA NextStep == IInv /\ [Next]_vars => IInv'
<1> SUFFICES ASSUME IInv, [Next]_vars PROVE IInv'
  OBVIOUS
<1>1. TypeOK'
  BY TypeStep DEF IInv
<1>2. CASE UNCHANGED vars
  BY <1>2 DEF vars, queueVars, pumpVars, drainVars, history, IInv, TypeOK, PumpInv,
     SeqInv, PlaceInv, DrainInv, AgeInv, ResolvedOnce, OneOutstanding, FifoInClass,
     WasFired, Running, SameClass
<1> QED
  BY <1>1, <1>2, EnqueueStep, PumpOpenStep, PumpPromoteStep, PumpQuietStep,
     PumpResolveStep, DrainStep, DrainTailStep, DrainedResolveStep
     DEF Next, PumpStep, FireAnswered, FireFails, FireCancelled, DrainAll, DrainTurn,
     Outcome

-----------------------------------------------------------------------------
\* The inductive invariant holds in every reachable state of askqueue.go's queue.
THEOREM Invariance == Spec => []IInv
  BY InitInv, NextStep, PTL DEF Spec

\* Every variable keeps its type, for any number of asks and goroutines.
THEOREM TypeCorrect == Spec => []TypeOK
  BY Invariance, PTL DEF IInv

\* askqueue.go's "one-outstanding" contract: one pump, hence one dialog.
THEOREM OneOutstandingAlways == Spec => []OneOutstanding
  BY Invariance, PTL DEF IInv, PumpInv

\* An ask waits only while a pump is running that will reach it.
THEOREM NoStrandedAskAlways == Spec => []NoStrandedAsk
<1>1. IInv => NoStrandedAsk
  BY DEF IInv, PumpInv, Running, NoStrandedAsk
<1> QED
  BY <1>1, Invariance, PTL

\* No ask's resume runs twice, whatever pump and drains do concurrently.
THEOREM ResolvedOnceAlways == Spec => []ResolvedOnce
  BY Invariance, PTL DEF IInv

\* The zombie-ask ban of DrainTurn and DrainAll.
THEOREM NoZombieAskAlways == Spec => []NoZombieAsk
<1>1. IInv => NoZombieAsk
  <2> SUFFICES ASSUME IInv, NEW a \in withdrawn
               PROVE  a \notin Range(fired) /\ resolved[a] \in {<<>>, <<"cancelled">>}
    BY DEF NoZombieAsk
  <2>1. fired \in Seq(Ask) /\ DOMAIN fired = 1..Len(fired)
    BY DEF IInv, TypeOK
  <2> QED
    BY <2>1 DEF IInv, PlaceInv, WasFired, Range
<1> QED
  BY <1>1, Invariance, PTL

\* popHeadLocked's "scan order IS age order": dialogs of a class open in age order.
THEOREM FifoInClassAlways == Spec => []FifoInClass
  BY Invariance, PTL DEF IInv, AgeInv

-----------------------------------------------------------------------------
Closed == {a \in Ask : seqNo[a] > 0} \ (queued \cup {open} \cup withdrawn)

\* Every step of the queue is a step of OneDialog, or leaves its state alone.
LEMMA DialogStep ==
    ASSUME IInv, IInv', [Next]_vars
    PROVE  [dialog!Next]_(dialog!absVars)
<1> USE AskAssumption DEF queueVars, pumpVars, drainVars, history
<1> USE DEF dialog!absVars, dialog!Next, dialog!Outcome, Outcome
<1>1. ASSUME NEW a \in Ask, Enqueue(a) PROVE dialog!Submit(a)
  <2>1. /\ seqNo[a] = 0 /\ seqNo'[a] > 0 /\ \A b \in Ask \ {a} : seqNo'[b] = seqNo[b]
        /\ UNCHANGED <<withdrawn, resolved>>
    BY <1>1 DEF Enqueue, IInv, TypeOK
  <2>2. a \notin queued /\ a # open /\ a \notin withdrawn
    BY <2>1 DEF IInv, PlaceInv
  <2>3. CASE Idle
    <3>1. open' = a /\ queued' = queued
      BY <1>1, <2>3 DEF Enqueue
    <3>2. open = NoAsk /\ queued = {}
      BY <2>3 DEF Idle, IInv, PumpInv
    <3>3. Closed' = Closed
      BY <2>1, <2>2, <3>1, <3>2 DEF Closed
    <3> QED
      BY <2>1, <2>2, <3>1, <3>2, <3>3 DEF dialog!Submit, dialog!Known, Closed
  <2>4. CASE ~Idle
    <3>1. open' = open /\ queued' = queued \cup {a}
      BY <1>1, <2>4 DEF Enqueue
    <3>2. Closed' = Closed
      BY <2>1, <2>2, <3>1 DEF Closed
    <3> QED
      BY <2>1, <2>2, <3>1, <3>2 DEF dialog!Submit, dialog!Known, Closed
  <2> QED
    BY <2>3, <2>4
<1>2. ASSUME NEW p \in Pump, PumpOpen(p) PROVE UNCHANGED dialog!absVars
  BY <1>2 DEF PumpOpen
<1>3. ASSUME NEW p \in Pump, PumpPromote(p) PROVE \E a \in Ask : dialog!Show(a)
  <2>1. PICK a \in queued : IsHead(a) /\ open' = a /\ queued' = queued \ {a}
    BY <1>3 DEF PumpPromote
  <2>2. a \in Ask /\ open = NoAsk /\ seqNo' = seqNo /\ withdrawn' = withdrawn /\ resolved' = resolved
    BY <1>3 DEF PumpPromote, IInv, TypeOK
  <2>3. queued \cap Foreground # {} => a \in Foreground
    BY <2>1 DEF IsHead, Before
  <2> QED
    BY <2>1, <2>2, <2>3 DEF dialog!Show
<1>4. ASSUME NEW p \in Pump, PumpClose(p) PROVE \E a \in Ask : dialog!Close(a)
  <2>1. cur[p] \in Ask /\ open = cur[p] /\ open' = NoAsk
    BY <1>4 DEF PumpClose, IInv, PumpInv
  <2>2. open \notin queued /\ open \notin withdrawn /\ seqNo[open] > 0
    BY <2>1 DEF IInv, PlaceInv, TypeOK
  <2> QED
    BY <1>4, <2>1, <2>2 DEF PumpClose, dialog!Close
<1>5. ASSUME NEW p \in Pump, PumpResolve(p)
      PROVE  \E a \in Ask, o \in Outcome : dialog!Settle(a, o)
  <2>1. /\ cur[p] \in Ask /\ WasFired(cur[p]) /\ resolved[cur[p]] = <<>> /\ open = NoAsk
        /\ outcome[p] \in Outcome
    BY <1>5 DEF PumpResolve, IInv, PumpInv, PlaceInv, TypeOK
  <2>2. cur[p] \notin queued /\ cur[p] \notin withdrawn /\ seqNo[cur[p]] > 0
    BY <2>1 DEF IInv, PlaceInv, TypeOK
  <2>3. resolved' = [resolved EXCEPT ![cur[p]] = <<outcome[p]>>]
    BY <1>5, <2>1 DEF PumpResolve
  <2> QED
    BY <1>5, <2>1, <2>2, <2>3 DEF PumpResolve, dialog!Settle
<1>6. ASSUME NEW p \in Pump, NEW o \in Outcome,
             PumpExit(p) \/ PumpLoop(p) \/ FireReturns(p, o)
      PROVE  UNCHANGED dialog!absVars
  BY <1>6 DEF PumpExit, PumpLoop, FireReturns
<1>7. ASSUME NEW d \in Drainer, NEW scope \in SUBSET Ask, Drain(d, scope)
      PROVE  [dialog!Next]_(dialog!absVars)
  <2>1. /\ queued' = queued \ (queued \cap scope)
        /\ withdrawn' = withdrawn \cup (queued \cap scope)
        /\ UNCHANGED <<seqNo, open, resolved>>
    BY <1>7 DEF Drain, Remaining
  <2>2. Closed' = Closed
    BY <2>1 DEF Closed
  <2>3. CASE queued \cap scope = {}
    BY <2>1, <2>3
  <2>4. CASE queued \cap scope # {}
    <3>1. dialog!Withdraw(queued \cap scope)
      BY <2>1, <2>2, <2>4 DEF dialog!Withdraw, Closed
    <3> QED
      BY <3>1
  <2> QED
    BY <2>3, <2>4
<1>8. ASSUME NEW d \in Drainer, DrainCancel(d) \/ DrainSpawn(d) PROVE UNCHANGED dialog!absVars
  BY <1>8 DEF DrainCancel, DrainSpawn
<1>9. ASSUME NEW a \in Ask, DrainedResolve(a)
      PROVE  \E b \in Ask, o \in Outcome : dialog!Settle(b, o)
  <2>1. a \in withdrawn /\ resolved[a] = <<>>
    BY <1>9 DEF DrainedResolve, IInv, DrainInv
  <2>2. resolved' = [resolved EXCEPT ![a] = <<"cancelled">>]
    BY <1>9, <2>1 DEF DrainedResolve
  <2> QED
    BY <1>9, <2>1, <2>2 DEF DrainedResolve, dialog!Settle
<1>10. CASE UNCHANGED vars
  BY <1>10 DEF vars
<1> QED
  BY <1>1, <1>2, <1>3, <1>4, <1>5, <1>6, <1>7, <1>8, <1>9, <1>10
     DEF Next, PumpStep, FireAnswered, FireFails, FireCancelled, DrainAll, DrainTurn

\* The queue with its pump and drains implements the one-dialog service.
THEOREM Refinement == Spec => ImplementsOneDialog
<1>1. Init => dialog!Init
  BY AskAssumption DEF Init, dialog!Init
<1>2. IInv /\ IInv' /\ [Next]_vars => [dialog!Next]_(dialog!absVars)
  BY DialogStep
<1> QED
  BY <1>1, <1>2, Invariance, PTL DEF Spec, dialog!Spec, ImplementsOneDialog
=============================================================================
