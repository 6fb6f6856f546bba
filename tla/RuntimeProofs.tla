--------------------------- MODULE RuntimeProofs ---------------------------
(***************************************************************************)
(* Components that the runner and the server compose, each under its own   *)
(* name: the event bus (kit/event, runtime.go Run), the outbound request   *)
(* registry (kit/acp), the config surface (acpserve, runtime.go), the turn *)
(* slot (runtime.go, cron_wiring.go, steerqueue.go), slash commands        *)
(* (commands.go, rescan.go), the checkpoint store's lock file and its      *)
(* snapshots (store.go), the session files and their listing (list.go,     *)
(* tombstone.go) and the provider's stream (streaming.go).  For each: an   *)
(* inductive invariant, one lemma per action or group of actions that      *)
(* preserves it, and the theorem.                                          *)
(***************************************************************************)
EXTENDS ConfigSurface, FiniteSetTheorems, WellFoundedInduction, TLAPS

CONSTANTS ClientSession, Buf, MaxTurns, MaxPublish
VARIABLES subs, queue, sending, turn, opened, closed, ctxDone, writer, runForwarder,
          emitted

CONSTANTS Call, Resolver, NoCall
VARIABLES pending, registryClosed, done, ch, pc, attempt, result, callerDone, sent,
          answered, reading, response, cpc, entry, cascades, counted, draining, teardown

CONSTANTS Client, Automation, Chain, Note, Nobody
VARIABLES mu, active, origin, items, ticket, next, slotPc, highest, notes, posted,
          scheduled, batch, inFlight, delivered, steered

CONSTANTS Name, ClassB, ClassA, Prompt
VARIABLES files, stamp, registry, chain, signature, advert, debounce, driver, log,
          turnModel, shown, rootEdits, torn, missed

CONSTANTS Process, StaleAfter, HoldTime, MaxTime, MaxCrash
VARIABLES clock, file, lockPc, since, crashes, stolen

CONSTANTS Grace, PageSize, Horizon
VARIABLES now, transcript, marker, sweep, cursor, listed, moved, deleted

CONSTANTS Consumer, Event, Status, MaxEvents
VARIABLES consumer, ctx, sentEvents, wire, body, buf, quiet, cause, drain, todo, last, block,
          flushed, finish, ending, chunks, got

Bus == INSTANCE EventBus
Registry == INSTANCE RequestRegistry WITH closed <- registryClosed, ctxDone <- callerDone
Slot == INSTANCE TurnSlot WITH pc <- slotPc, pending <- notes
Commands == INSTANCE CommandChain WITH disk <- files, edits <- rootEdits, d <- driver,
                                       pending <- debounce
Lock == INSTANCE StoreLock WITH pc <- lockPc
Store == INSTANCE SessionStore
Stream == INSTANCE ProviderStream WITH sent <- sentEvents, emitted <- flushed, ch <- chunks

(***************************************************************************)
(* The event bus: what a client turn published is with its client when Run *)
(* returns.                                                                *)
(***************************************************************************)
Elems(q) == {q[i] : i \in 1 .. Len(q)}
RunChan(s) == Bus!Chan("run", s, turn[s].n)
Chunk(s, k) == [sess |-> s, turn |-> turn[s].n, n |-> k]
InTurn(s) == turn[s].origin = Bus!Client /\ turn[s].phase \in {"body", "flush"}

\* The Run forwarder lives within its turn, and outlives the body unless the
\* context died; the subscription lives as long as the turn; only the body has a
\* publish in progress.
ForwarderInv ==
  \A s \in Session :
    /\ s \in runForwarder => InTurn(s)
    /\ InTurn(s) => RunChan(s) \in subs
    /\ turn[s].phase = "body" /\ turn[s].origin = Bus!Client /\ s \notin ctxDone => s \in runForwarder
    /\ turn[s].phase # "body" => sending[s] = Bus!Idle
    /\ sending[s] # Bus!Idle => sending[s].event \in Bus!Event
    /\ turn[s].phase # "none" => turn[s].n # 0

\* Every chunk of the turn is in one of three places on its way to the client.
OnItsWay(s, k) ==
  \/ Chunk(s, k) \in emitted[s]
  \/ s \in runForwarder /\ Chunk(s, k) \in Elems(queue[RunChan(s)])
  \/ s \in runForwarder /\ sending[s].event = Chunk(s, k) /\ RunChan(s) \in sending[s].left

ChunkInv ==
  \A s \in Session :
    turn[s].origin = Bus!Client /\ s \notin ctxDone =>
      \A k \in 1 .. turn[s].count : OnItsWay(s, k)

BusInv == Bus!TypeOK /\ ForwarderInv /\ ChunkInv

\* What a send and a receive do to a channel.
LEMMA AppendElems ==
  ASSUME NEW S, NEW q \in Seq(S), NEW e \in S
  PROVE  /\ Append(q, e) \in Seq(S) /\ Len(Append(q, e)) = Len(q) + 1
         /\ Elems(Append(q, e)) = Elems(q) \cup {e}
<1>1. /\ Append(q, e) \in Seq(S) /\ Len(Append(q, e)) = Len(q) + 1 /\ Len(q) \in Nat
      /\ \A i \in 1 .. Len(q) : Append(q, e)[i] = q[i]
      /\ Append(q, e)[Len(q) + 1] = e
  OBVIOUS
<1>2. 1 .. (Len(q) + 1) = (1 .. Len(q)) \cup {Len(q) + 1}
  BY <1>1
<1> HIDE DEF Elems
<1>3. Elems(Append(q, e)) \subseteq Elems(q) \cup {e}
  BY <1>1, <1>2 DEF Elems
<1>4. Elems(q) \subseteq Elems(Append(q, e)) /\ e \in Elems(Append(q, e))
  BY <1>1, <1>2 DEF Elems
<1> QED
  BY <1>1, <1>3, <1>4

\* All but the head of a channel is left by a receive.
LEMMA TailElems ==
  ASSUME NEW S, NEW q \in Seq(S), q # <<>>
  PROVE  /\ Tail(q) \in Seq(S) /\ Len(Tail(q)) = Len(q) - 1 /\ Head(q) \in S
         /\ Elems(q) \subseteq Elems(Tail(q)) \cup {Head(q)}
<1>1. /\ Tail(q) \in Seq(S) /\ Len(Tail(q)) = Len(q) - 1 /\ Head(q) \in S
      /\ Len(q) \in Nat /\ Len(q) > 0 /\ q[1] = Head(q)
      /\ \A i \in 1 .. (Len(q) - 1) : Tail(q)[i] = q[i + 1]
  OBVIOUS
<1>2. ASSUME NEW i \in 1 .. Len(q), i # 1
      PROVE  q[i] \in Elems(Tail(q))
  <2>1. i - 1 \in 1 .. (Len(q) - 1) /\ (i - 1) + 1 = i
    BY <1>1, <1>2
  <2>2. Tail(q)[i - 1] = q[i]
    BY <1>1, <2>1
  <2> QED
    BY <1>1, <2>1, <2>2 DEF Elems
<1> QED
  BY <1>1, <1>2 DEF Elems

\* An empty channel holds nothing.
LEMMA EmptyElems == Elems(<<>>) = {}
  BY DEF Elems

\* A channel belongs to one consumer.
LEMMA Channels ==
  ASSUME Bus!BufAssumption, Bus!TypeOK, NEW s \in Session
  PROVE  /\ \A r \in Bus!Role, n \in 0 .. MaxTurns : Bus!Chan(r, s, n) \in Bus!Channel
         /\ RunChan(s) \in Bus!Channel
         /\ \A t \in Session : RunChan(s) = RunChan(t) => s = t
         /\ \A t \in Session : RunChan(s) # Bus!Chan("writer", t, 0)
         /\ \A t \in Session : RunChan(s) # Bus!Chan("forwarder", t, 0)
  BY DEF Bus!TypeOK, Bus!BufAssumption, RunChan, Bus!Chan, Bus!Channel, Bus!Role

\* The steps that leave the turns, the publishes, the Run forwarders and their
\* queues alone.
LEMMA BusFrame ==
  ASSUME Bus!BufAssumption, BusInv, Bus!TypeOK',
         UNCHANGED <<sending, turn, ctxDone, runForwarder>>,
         \A s \in Session : RunChan(s) \in subs => RunChan(s) \in subs',
         \A s \in Session : emitted[s] \subseteq emitted'[s],
         \A s \in Session : queue'[RunChan(s)] = queue[RunChan(s)]
  PROVE  BusInv'
<1>1. \A s \in Session : RunChan(s)' = RunChan(s) /\ (InTurn(s)' <=> InTurn(s))
  BY DEF RunChan, InTurn, Bus!Chan
<1>2. ForwarderInv'
  BY <1>1 DEF BusInv, ForwarderInv
<1>3. \A s \in Session : \A k \in 1 .. turn[s].count : OnItsWay(s, k) => OnItsWay(s, k)'
  BY <1>1 DEF OnItsWay, Chunk
<1>4. ChunkInv'
  BY <1>3 DEF BusInv, ChunkInv
<1> QED
  BY <1>2, <1>4 DEF BusInv

\* A session of the client opens or closes, and the event log writer subscribes or leaves.
LEMMA BusOpenClose ==
  ASSUME Bus!BufAssumption, BusInv, NEW s \in Session,
         Bus!Open(s) \/ Bus!Close(s) \/ Bus!WriterSubscribe(s) \/ Bus!WriterReturn(s)
  PROVE  BusInv'
<1>1. Bus!TypeOK'
  <2>1. Bus!Chan("forwarder", s, 0) \in Bus!Channel /\ Bus!Chan("writer", s, 0) \in Bus!Channel
    BY Channels DEF BusInv, Bus!Role, Bus!BufAssumption
  <2>2. subs' \subseteq Bus!Channel
    BY <2>1 DEF BusInv, Bus!TypeOK, Bus!Open, Bus!Close, Bus!WriterSubscribe, Bus!WriterReturn,
       Bus!Subscribe, Bus!Unsubscribe
  <2>3. writer' \in [Session -> {"none", "starting", "running", "gone"}]
    BY DEF BusInv, Bus!TypeOK, Bus!Open, Bus!Close, Bus!WriterSubscribe, Bus!WriterReturn
  <2>4. UNCHANGED <<queue, sending, turn, runForwarder, emitted>>
    BY DEF Bus!Open, Bus!Close, Bus!WriterSubscribe, Bus!WriterReturn
  <2> QED
    BY <2>2, <2>3, <2>4 DEF BusInv, Bus!TypeOK
<1>2. UNCHANGED <<queue, sending, turn, ctxDone, runForwarder, emitted>>
  BY DEF Bus!Open, Bus!Close, Bus!WriterSubscribe, Bus!WriterReturn
<1>3. \A t \in Session : RunChan(t) \in subs => RunChan(t) \in subs'
  <2>1. subs \ {Bus!Chan("forwarder", s, 0)} \subseteq subs'
    BY DEF Bus!Open, Bus!Close, Bus!WriterSubscribe, Bus!WriterReturn, Bus!Subscribe,
       Bus!Unsubscribe
  <2> QED
    BY <2>1, Channels DEF BusInv
<1> QED
  BY <1>1, <1>2, <1>3, BusFrame

\* A consumer other than the Run forwarder takes from its own channel.
LEMMA BusConsume ==
  ASSUME Bus!BufAssumption, BusInv, NEW s \in Session, Bus!WriterAppend(s) \/ Bus!Forward(s)
  PROVE  BusInv'
<1>1. PICK r \in {"writer", "forwarder"} :
        /\ queue[Bus!Chan(r, s, 0)] # <<>>
        /\ queue' = [queue EXCEPT ![Bus!Chan(r, s, 0)] = Tail(@)]
        /\ \/ emitted' = emitted
           \/ emitted' = [emitted EXCEPT ![s] = @ \cup {Head(queue[Bus!Chan(r, s, 0)])}]
  BY DEF Bus!WriterAppend, Bus!Forward
<1>2. UNCHANGED <<subs, sending, turn, ctxDone, runForwarder, writer>>
  BY DEF Bus!WriterAppend, Bus!Forward
<1> DEFINE c == Bus!Chan(r, s, 0)
<1>3. c \in Bus!Channel /\ queue[c] \in Seq(Bus!Event) /\ Len(queue[c]) <= Buf
  BY Channels DEF BusInv, Bus!TypeOK, Bus!Role, Bus!BufAssumption
<1>4. /\ Tail(queue[c]) \in Seq(Bus!Event) /\ Len(Tail(queue[c])) <= Buf
      /\ Head(queue[c]) \in Bus!Event
  <2> HIDE DEF c
  <2>1. /\ Tail(queue[c]) \in Seq(Bus!Event) /\ Len(Tail(queue[c])) = Len(queue[c]) - 1
        /\ Head(queue[c]) \in Bus!Event /\ Len(queue[c]) \in Nat
    BY <1>1, <1>3, TailElems DEF c
  <2> QED
    BY <1>3, <2>1 DEF Bus!BufAssumption
<1>5. \A t \in Session : RunChan(t) # c
  BY Channels DEF BusInv
<1>6. queue \in [Bus!Channel -> Seq(Bus!Event)] /\ emitted \in [Session -> SUBSET Bus!Event]
  BY DEF BusInv, Bus!TypeOK
<1>7. queue' = [queue EXCEPT ![c] = Tail(queue[c])]
  BY <1>1
<1> HIDE DEF c
<1>8. Bus!TypeOK'
  <2>1. queue' \in [Bus!Channel -> Seq(Bus!Event)] /\ \A d \in Bus!Channel : Len(queue'[d]) <= Buf
    BY <1>3, <1>4, <1>6, <1>7 DEF BusInv, Bus!TypeOK
  <2>2. emitted' \in [Session -> SUBSET Bus!Event]
    BY <1>1, <1>4, <1>6 DEF c
  <2> QED
    BY <1>2, <2>1, <2>2 DEF BusInv, Bus!TypeOK
<1>9. \A t \in Session : /\ emitted[t] \subseteq emitted'[t]
                         /\ queue'[RunChan(t)] = queue[RunChan(t)]
  <2>1. \A t \in Session : emitted[t] \subseteq emitted'[t]
    BY <1>1, <1>6
  <2>2. \A t \in Session : queue'[RunChan(t)] = queue[RunChan(t)]
    BY <1>5, <1>6, <1>7, Channels DEF BusInv
  <2> QED
    BY <2>1, <2>2
<1> QED
  BY <1>2, <1>8, <1>9, BusFrame

\* A publish reaches for every subscriber, the Run forwarder among them.
LEMMA BusPublish ==
  ASSUME Bus!BufAssumption, BusInv, NEW s \in Session, Bus!Publish(s)
  PROVE  BusInv'
<1> DEFINE e == [sess |-> s, turn |-> turn[s].n, n |-> turn[s].count + 1]
           onSend == IF subs = {} THEN Bus!Idle ELSE [event |-> e, left |-> subs]
<1>1. /\ turn[s].phase = "body" /\ turn[s].count < MaxPublish /\ sending[s] = Bus!Idle
      /\ sending' = [sending EXCEPT ![s] = onSend]
      /\ turn' = [turn EXCEPT ![s].count = @ + 1]
      /\ UNCHANGED <<subs, queue, ctxDone, writer, runForwarder, emitted>>
  BY DEF Bus!Publish
<1>2. turn[s].n \in 1 .. MaxTurns /\ turn[s].count + 1 \in 1 .. MaxPublish
  BY <1>1 DEF BusInv, ForwarderInv, Bus!TypeOK, Bus!BufAssumption
<1>3. e \in Bus!Event
  BY <1>2 DEF Bus!Event
<1>4. Bus!TypeOK'
  <2>1. onSend \in [event : Bus!Event \cup {<<>>}, left : SUBSET Bus!Channel]
    BY <1>3 DEF BusInv, Bus!TypeOK, Bus!Idle
  <2> HIDE DEF e, onSend
  <2>2. sending' \in [Session -> [event : Bus!Event \cup {<<>>}, left : SUBSET Bus!Channel]]
    BY <1>1, <2>1 DEF BusInv, Bus!TypeOK
  <2>3. turn' \in [Session -> [n : 0..MaxTurns, origin : {Bus!Client, Bus!Server},
                           phase : {"none", "body", "flush", "done"}, count : 0..MaxPublish]]
    <3> DEFINE R == [n : 0..MaxTurns, origin : {Bus!Client, Bus!Server},
                     phase : {"none", "body", "flush", "done"}, count : 0..MaxPublish]
    <3>1. turn \in [Session -> R]
      BY DEF BusInv, Bus!TypeOK
    <3>2. turn[s].count + 1 \in 0 .. MaxPublish
      BY <1>2 DEF Bus!BufAssumption
    <3>3. [turn[s] EXCEPT !.count = turn[s].count + 1] \in R
      BY <3>1, <3>2
    <3>4. turn' = [turn EXCEPT ![s] = [turn[s] EXCEPT !.count = turn[s].count + 1]]
      BY <1>1, <3>1
    <3> HIDE DEF R
    <3>5. turn' \in [Session -> R]
      BY <3>1, <3>3, <3>4
    <3> QED
      BY <3>5 DEF R
  <2> QED
    BY <1>1, <2>2, <2>3 DEF BusInv, Bus!TypeOK
<1>5. \A t \in Session : /\ turn'[t].n = turn[t].n /\ turn'[t].origin = turn[t].origin
                         /\ turn'[t].phase = turn[t].phase
                         /\ t # s => turn'[t] = turn[t] /\ sending'[t] = sending[t]
  BY <1>1 DEF BusInv, Bus!TypeOK
<1>6. sending'[s] = onSend /\ turn'[s].count = turn[s].count + 1
  BY <1>1 DEF BusInv, Bus!TypeOK
<1>7. \A t \in Session : RunChan(t)' = RunChan(t) /\ (InTurn(t)' <=> InTurn(t))
  BY <1>5 DEF RunChan, InTurn, Bus!Chan
<1>8. ForwarderInv'
  <2> SUFFICES ASSUME NEW t \in Session PROVE ForwarderInv!(t)'
    BY DEF ForwarderInv
  <2>1. CASE t = s
    BY <1>1, <1>3, <1>5, <1>6, <1>7, <2>1 DEF BusInv, ForwarderInv
  <2>2. CASE t # s
    BY <1>1, <1>5, <1>7, <2>2 DEF BusInv, ForwarderInv
  <2> QED
    BY <2>1, <2>2
<1>9. ChunkInv'
  <2> SUFFICES ASSUME NEW t \in Session, turn'[t].origin = Bus!Client, t \notin ctxDone',
                      NEW k \in 1 .. turn'[t].count
               PROVE  OnItsWay(t, k)'
    BY DEF ChunkInv
  <2>1. Chunk(t, k)' = Chunk(t, k)
    BY <1>5 DEF Chunk
  <2>2. CASE t # s
    <3>1. OnItsWay(t, k)
      BY <1>1, <1>5, <2>2 DEF BusInv, ChunkInv
    <3> QED
      BY <1>1, <1>5, <1>7, <2>1, <2>2, <3>1 DEF OnItsWay
  <2>3. CASE t = s /\ k \in 1 .. turn[s].count
    <3>1. OnItsWay(s, k)
      BY <1>1, <1>5, <2>3 DEF BusInv, ChunkInv
    <3>2. Chunk(s, k) \in emitted[s] \/ (s \in runForwarder /\ Chunk(s, k) \in Elems(queue[RunChan(s)]))
      BY <1>1, <3>1 DEF OnItsWay, Bus!Idle
    <3> QED
      BY <1>1, <1>7, <2>1, <2>3, <3>2 DEF OnItsWay
  <2>4. CASE t = s /\ k = turn[s].count + 1
    <3>1. s \in runForwarder /\ RunChan(s) \in subs
      BY <1>1, <1>5, <2>4 DEF BusInv, ForwarderInv, InTurn
    <3>2. Chunk(s, k) = e
      BY <2>4 DEF Chunk
    <3>3. sending'[s].event = Chunk(s, k) /\ RunChan(s) \in sending'[s].left
      BY <1>6, <3>1, <3>2
    <3> QED
      BY <1>1, <1>7, <2>1, <2>4, <3>1, <3>3 DEF OnItsWay
  <2>5. t = s => k \in 1 .. turn[s].count \/ k = turn[s].count + 1
    BY <1>6 DEF BusInv, Bus!TypeOK
  <2> QED
    BY <2>2, <2>3, <2>4, <2>5
<1> QED
  BY <1>4, <1>8, <1>9 DEF BusInv

\* A send moves the event from the copy to the channel's buffer.
LEMMA BusSend ==
  ASSUME Bus!BufAssumption, BusInv, NEW s \in Session, Bus!Send(s)
  PROVE  BusInv'
<1>1. PICK c \in sending[s].left :
        /\ Len(queue[c]) < Buf
        /\ queue' = [queue EXCEPT ![c] = Append(@, sending[s].event)]
        /\ sending' = [sending EXCEPT ![s] = IF @.left = {c} THEN Bus!Idle ELSE [event |-> @.event, left |-> @.left \ {c}]]
  BY DEF Bus!Send
<1>2. sending[s] # Bus!Idle /\ UNCHANGED <<subs, turn, ctxDone, writer, runForwarder, emitted>>
  BY DEF Bus!Send
<1> DEFINE e == sending[s].event
<1>3. /\ e \in Bus!Event /\ c \in Bus!Channel /\ queue[c] \in Seq(Bus!Event)
      /\ queue \in [Bus!Channel -> Seq(Bus!Event)]
  BY <1>2 DEF BusInv, ForwarderInv, Bus!TypeOK
<1>4. /\ Append(queue[c], e) \in Seq(Bus!Event) /\ Len(Append(queue[c], e)) <= Buf
      /\ Elems(Append(queue[c], e)) = Elems(queue[c]) \cup {e}
  <2>1. /\ Append(queue[c], e) \in Seq(Bus!Event) /\ Len(Append(queue[c], e)) = Len(queue[c]) + 1
        /\ Elems(Append(queue[c], e)) = Elems(queue[c]) \cup {e} /\ Len(queue[c]) \in Nat
    BY <1>3, AppendElems
  <2> QED
    BY <1>1, <2>1 DEF Bus!BufAssumption
<1>5. /\ \A d \in Bus!Channel : queue'[d] = IF d = c THEN Append(queue[c], e) ELSE queue[d]
      /\ queue' \in [Bus!Channel -> Seq(Bus!Event)]
  BY <1>1, <1>3, <1>4
<1>6. /\ sending' \in [Session -> [event : Bus!Event \cup {<<>>}, left : SUBSET Bus!Channel]]
      /\ \A t \in Session : t # s => sending'[t] = sending[t]
      /\ \/ sending[s].left = {c} /\ sending'[s] = Bus!Idle
         \/ sending'[s].event = e /\ sending'[s].left = sending[s].left \ {c}
  <2> DEFINE R == [event : Bus!Event \cup {<<>>}, left : SUBSET Bus!Channel]
             onSend == IF sending[s].left = {c} THEN Bus!Idle ELSE [event |-> sending[s].event, left |-> sending[s].left \ {c}]
  <2>1. sending \in [Session -> R]
    BY DEF BusInv, Bus!TypeOK
  <2>2. /\ onSend \in R
        /\ \/ sending[s].left = {c} /\ onSend = Bus!Idle
           \/ onSend.event = e /\ onSend.left = sending[s].left \ {c}
    BY <2>1 DEF Bus!Idle
  <2>3. sending' = [sending EXCEPT ![s] = onSend]
    BY <1>1, <2>1
  <2> HIDE DEF R, onSend
  <2>4. sending' \in [Session -> R]
    BY <2>1, <2>2, <2>3
  <2>5. sending'[s] = onSend /\ \A t \in Session : t # s => sending'[t] = sending[t]
    BY <2>1, <2>3
  <2> QED
    BY <2>2, <2>4, <2>5 DEF R
<1>7. Bus!TypeOK'
  <2>1. \A d \in Bus!Channel : Len(queue'[d]) <= Buf
    BY <1>4, <1>5 DEF BusInv, Bus!TypeOK
  <2> QED
    BY <1>2, <1>5, <1>6, <2>1 DEF BusInv, Bus!TypeOK
<1>8. \A t \in Session : RunChan(t)' = RunChan(t) /\ (InTurn(t)' <=> InTurn(t)) /\ RunChan(t) \in Bus!Channel
  BY <1>2, Channels DEF RunChan, InTurn, Bus!Chan, BusInv
<1>9. ForwarderInv'
  <2>1. \A t \in Session : turn[t].phase # "body" => sending'[t] = Bus!Idle
    BY <1>2, <1>6 DEF BusInv, ForwarderInv
  <2>2. \A t \in Session : sending'[t] # Bus!Idle => sending'[t].event \in Bus!Event
    BY <1>3, <1>6 DEF BusInv, ForwarderInv
  <2> QED
    BY <1>2, <1>8, <2>1, <2>2 DEF BusInv, ForwarderInv
<1>10. ASSUME NEW t \in Session, NEW k, OnItsWay(t, k) PROVE OnItsWay(t, k)'
  <2>1. Chunk(t, k)' = Chunk(t, k) /\ RunChan(t)' = RunChan(t) /\ RunChan(t) \in Bus!Channel
    BY <1>2, <1>8 DEF Chunk
  <2>2. Elems(queue[RunChan(t)]) \subseteq Elems(queue'[RunChan(t)])
    BY <1>4, <1>5, <2>1
  <2>3. CASE Chunk(t, k) \in emitted[t] \/ (t \in runForwarder /\ Chunk(t, k) \in Elems(queue[RunChan(t)]))
    BY <1>2, <2>1, <2>2, <2>3 DEF OnItsWay
  <2>4. CASE t \in runForwarder /\ sending[t].event = Chunk(t, k) /\ RunChan(t) \in sending[t].left
    <3>1. CASE t = s /\ RunChan(t) = c
      <4>1. Chunk(t, k) \in Elems(queue'[RunChan(t)])
        BY <1>4, <1>5, <2>1, <2>4, <3>1
      <4> QED
        BY <1>2, <2>1, <2>4, <4>1 DEF OnItsWay
    <3>2. CASE ~(t = s /\ RunChan(t) = c)
      <4>1. sending'[t].event = Chunk(t, k) /\ RunChan(t) \in sending'[t].left
        BY <1>6, <2>4, <3>2
      <4> QED
        BY <1>2, <2>1, <2>4, <4>1 DEF OnItsWay
    <3> QED
      BY <3>1, <3>2
  <2> QED
    BY <1>10, <2>3, <2>4 DEF OnItsWay
<1>11. ChunkInv'
  BY <1>2, <1>10 DEF BusInv, ChunkInv
<1> QED
  BY <1>7, <1>9, <1>11 DEF BusInv

\* The type of a turn.
TurnRecord == [n : 0..MaxTurns, origin : {Bus!Client, Bus!Server},
               phase : {"none", "body", "flush", "done"}, count : 0..MaxPublish]

\* A turn starts: its channel is empty and nothing was published in it.
LEMMA BusTurnStart ==
  ASSUME Bus!BufAssumption, BusInv, NEW s \in Session, NEW o \in {Bus!Client, Bus!Server},
         Bus!TurnStart(s, o)
  PROVE  BusInv'
<1> DEFINE new == [n |-> turn[s].n + 1, origin |-> o, phase |-> "body", count |-> 0]
<1>1. /\ turn[s].phase \in {"none", "done"} /\ turn[s].n < MaxTurns
      /\ turn' = [turn EXCEPT ![s] = new]
      /\ ctxDone' = ctxDone \ {s}
      /\ UNCHANGED <<queue, sending, writer, emitted>>
      /\ IF o = Bus!Client THEN /\ subs' = subs \cup {Bus!Chan("run", s, turn[s].n + 1)}
                                /\ runForwarder' = runForwarder \cup {s}
         ELSE UNCHANGED <<subs, runForwarder>>
  BY DEF Bus!TurnStart, Bus!Subscribe
<1>2. turn[s].n + 1 \in 1 .. MaxTurns /\ turn \in [Session -> TurnRecord]
  BY <1>1 DEF BusInv, Bus!TypeOK, Bus!BufAssumption, TurnRecord
<1>3. turn'[s] = new /\ \A t \in Session : t # s => turn'[t] = turn[t]
  BY <1>1, <1>2
<1>4. Bus!TypeOK'
  <2>1. new \in TurnRecord
    BY <1>2 DEF TurnRecord, Bus!BufAssumption
  <2> HIDE DEF new
  <2>2. turn' \in [Session -> TurnRecord]
    BY <1>1, <1>2, <2>1
  <2>3. Bus!Chan("run", s, turn[s].n + 1) \in Bus!Channel
    BY <1>2 DEF Bus!Chan, Bus!Channel, Bus!Role, Bus!BufAssumption
  <2>4. subs' \subseteq Bus!Channel /\ runForwarder' \subseteq Session
    BY <1>1, <2>3 DEF BusInv, Bus!TypeOK
  <2> QED
    BY <1>1, <2>2, <2>4 DEF BusInv, Bus!TypeOK, TurnRecord
<1>5. \A t \in Session : t # s =>
        /\ RunChan(t)' = RunChan(t) /\ (InTurn(t)' <=> InTurn(t))
        /\ t \in runForwarder' <=> t \in runForwarder
        /\ t \in ctxDone' <=> t \in ctxDone
  BY <1>1, <1>3 DEF RunChan, InTurn, Bus!Chan
<1>6. /\ s \notin runForwarder /\ sending[s] = Bus!Idle
      /\ RunChan(s)' = Bus!Chan("run", s, turn[s].n + 1)
      /\ InTurn(s)' <=> o = Bus!Client
  <2>1. s \notin runForwarder /\ sending[s] = Bus!Idle
    BY <1>1 DEF BusInv, ForwarderInv, InTurn
  <2>2. /\ turn'[s].n = turn[s].n + 1 /\ turn'[s].origin = o /\ turn'[s].phase = "body"
    BY <1>3
  <2> HIDE DEF new
  <2>3. RunChan(s)' = Bus!Chan("run", s, turn[s].n + 1)
    BY <2>2 DEF RunChan, Bus!Chan
  <2>4. InTurn(s)' <=> o = Bus!Client
    BY <2>2 DEF InTurn
  <2> QED
    BY <2>1, <2>3, <2>4
<1>7. ForwarderInv'
  <2> SUFFICES ASSUME NEW t \in Session PROVE ForwarderInv!(t)'
    BY DEF ForwarderInv
  <2>1. CASE t = s
    <3>1. s \in runForwarder' <=> o = Bus!Client
      BY <1>1, <1>6
    <3>2. o = Bus!Client => RunChan(s)' \in subs'
      BY <1>1, <1>6
    <3>3. sending'[s] = Bus!Idle /\ turn'[s].n # 0
      BY <1>1, <1>2, <1>3, <1>6
    <3>4. turn'[s].origin = o /\ turn'[s].phase = "body"
      BY <1>3
    <3> HIDE DEF new
    <3> QED
      BY <1>6, <2>1, <3>1, <3>2, <3>3, <3>4
  <2>2. CASE t # s
    <3>1. ForwarderInv!(t)
      BY DEF BusInv, ForwarderInv
    <3>2. /\ subs \subseteq subs' /\ turn'[t] = turn[t] /\ sending' = sending
          /\ RunChan(t)' = RunChan(t) /\ (InTurn(t)' <=> InTurn(t))
          /\ t \in runForwarder' <=> t \in runForwarder
          /\ t \in ctxDone' <=> t \in ctxDone
      BY <1>1, <1>3, <1>5, <2>2
    <3> QED
      BY <3>1, <3>2
  <2> QED
    BY <2>1, <2>2
<1>8. ChunkInv'
  <2> SUFFICES ASSUME NEW t \in Session, turn'[t].origin = Bus!Client, t \notin ctxDone',
                      NEW k \in 1 .. turn'[t].count
               PROVE  OnItsWay(t, k)'
    BY DEF ChunkInv
  <2>1. t # s
    BY <1>3
  <2>2. OnItsWay(t, k) /\ Chunk(t, k)' = Chunk(t, k)
    BY <1>3, <1>5, <2>1 DEF BusInv, ChunkInv, Chunk
  <2> QED
    BY <1>1, <1>5, <2>1, <2>2 DEF OnItsWay
<1> QED
  BY <1>4, <1>7, <1>8 DEF BusInv

\* The context of a turn dies.
LEMMA BusCancel ==
  ASSUME BusInv, NEW s \in Session, Bus!Cancel(s)
  PROVE  BusInv'
<1>1. /\ ctxDone \subseteq ctxDone'
      /\ UNCHANGED <<subs, queue, sending, turn, writer, runForwarder, emitted>>
  BY DEF Bus!Cancel
<1>2. \A t \in Session : RunChan(t)' = RunChan(t) /\ (InTurn(t)' <=> InTurn(t))
  BY <1>1 DEF RunChan, InTurn, Bus!Chan
<1>3. Bus!TypeOK'
  BY <1>1 DEF BusInv, Bus!TypeOK
<1>4. ForwarderInv'
  BY <1>1, <1>2 DEF BusInv, ForwarderInv
<1>5. ChunkInv'
  BY <1>1, <1>2 DEF BusInv, ChunkInv, OnItsWay, Chunk
<1> QED
  BY <1>3, <1>4, <1>5 DEF BusInv

\* The Run forwarder hands the head of its channel to the client.
LEMMA BusRunForward ==
  ASSUME Bus!BufAssumption, BusInv, NEW s \in Session, Bus!RunForward(s)
  PROVE  BusInv'
<1> DEFINE c == RunChan(s)
<1>1. /\ s \in runForwarder /\ queue[c] # <<>>
      /\ queue' = [queue EXCEPT ![c] = Tail(queue[c])]
      /\ emitted' = [emitted EXCEPT ![s] = emitted[s] \cup {Head(queue[c])}]
      /\ UNCHANGED <<subs, sending, turn, ctxDone, writer, runForwarder>>
  BY DEF Bus!RunForward, RunChan
<1>2. /\ c \in Bus!Channel /\ queue[c] \in Seq(Bus!Event) /\ Len(queue[c]) <= Buf
      /\ queue \in [Bus!Channel -> Seq(Bus!Event)] /\ emitted \in [Session -> SUBSET Bus!Event]
  BY Channels DEF BusInv, Bus!TypeOK
<1> HIDE DEF c
<1>3. /\ Tail(queue[c]) \in Seq(Bus!Event) /\ Len(Tail(queue[c])) <= Buf
      /\ Head(queue[c]) \in Bus!Event
      /\ Elems(queue[c]) \subseteq Elems(Tail(queue[c])) \cup {Head(queue[c])}
  <2>1. /\ Tail(queue[c]) \in Seq(Bus!Event) /\ Len(Tail(queue[c])) = Len(queue[c]) - 1
        /\ Head(queue[c]) \in Bus!Event /\ Len(queue[c]) \in Nat
        /\ Elems(queue[c]) \subseteq Elems(Tail(queue[c])) \cup {Head(queue[c])}
    BY <1>1, <1>2, TailElems
  <2> QED
    BY <1>2, <2>1 DEF Bus!BufAssumption
<1>4. Bus!TypeOK'
  <2>1. queue' \in [Bus!Channel -> Seq(Bus!Event)] /\ \A d \in Bus!Channel : Len(queue'[d]) <= Buf
    BY <1>1, <1>2, <1>3 DEF BusInv, Bus!TypeOK
  <2>2. emitted' \in [Session -> SUBSET Bus!Event]
    BY <1>1, <1>2, <1>3
  <2> QED
    BY <1>1, <2>1, <2>2 DEF BusInv, Bus!TypeOK
<1>5. \A t \in Session : /\ RunChan(t)' = RunChan(t) /\ (InTurn(t)' <=> InTurn(t))
                         /\ RunChan(t) \in Bus!Channel /\ (t # s => RunChan(t) # c)
  BY <1>1, Channels DEF RunChan, InTurn, Bus!Chan, BusInv, c
<1>6. ForwarderInv'
  BY <1>1, <1>5 DEF BusInv, ForwarderInv
<1>7. ASSUME NEW t \in Session, NEW k, OnItsWay(t, k) PROVE OnItsWay(t, k)'
  <2>1. Chunk(t, k)' = Chunk(t, k) /\ RunChan(t)' = RunChan(t) /\ emitted[t] \subseteq emitted'[t]
    BY <1>1, <1>2, <1>5 DEF Chunk
  <2>2. CASE t = s
    <3>1. emitted'[s] = emitted[s] \cup {Head(queue[c])} /\ queue'[c] = Tail(queue[c])
      BY <1>1, <1>2
    <3>2. Chunk(s, k) \in Elems(queue[c]) => Chunk(s, k) \in emitted'[s] \/ Chunk(s, k) \in Elems(queue'[c])
      BY <1>3, <3>1
    <3> QED
      BY <1>1, <1>7, <2>1, <2>2, <3>2 DEF OnItsWay, c
  <2>3. CASE t # s
    <3>1. queue'[RunChan(t)] = queue[RunChan(t)]
      BY <1>1, <1>2, <1>5, <2>3
    <3> QED
      BY <1>1, <1>7, <2>1, <3>1 DEF OnItsWay
  <2> QED
    BY <2>2, <2>3
<1>8. ChunkInv'
  BY <1>1, <1>7 DEF BusInv, ChunkInv
<1> QED
  BY <1>4, <1>6, <1>8 DEF BusInv

\* The steps that only move a turn's phase.
LEMMA PhaseMoves ==
  ASSUME BusInv, NEW s \in Session, NEW p \in {"flush", "done"},
         turn' = [turn EXCEPT ![s].phase = p]
  PROVE  /\ turn' \in [Session -> TurnRecord]
         /\ \A t \in Session :
              /\ turn'[t].n = turn[t].n /\ turn'[t].origin = turn[t].origin
              /\ turn'[t].count = turn[t].count
              /\ turn'[t].phase = (IF t = s THEN p ELSE turn[t].phase)
<1>1. turn \in [Session -> TurnRecord]
  BY DEF BusInv, Bus!TypeOK, TurnRecord
<1> DEFINE new == [turn[s] EXCEPT !.phase = p]
<1>2. /\ new \in TurnRecord /\ new.n = turn[s].n /\ new.origin = turn[s].origin
      /\ new.count = turn[s].count /\ new.phase = p
  BY <1>1 DEF TurnRecord
<1>3. turn' = [turn EXCEPT ![s] = new]
  BY <1>1
<1> HIDE DEF new
<1> QED
  BY <1>1, <1>2, <1>3

\* The body of a turn returns: no publish of it is in progress.
LEMMA BusBodyEnds ==
  ASSUME BusInv, NEW s \in Session, Bus!BodyEnds(s)
  PROVE  BusInv'
<1> DEFINE p == IF turn[s].origin = Bus!Client THEN "flush" ELSE "done"
<1>1. /\ turn[s].phase = "body" /\ sending[s] = Bus!Idle
      /\ turn' = [turn EXCEPT ![s].phase = p]
      /\ UNCHANGED <<subs, queue, sending, ctxDone, writer, runForwarder, emitted>>
  BY DEF Bus!BodyEnds
<1>2. p \in {"flush", "done"}
  OBVIOUS
<1>3. /\ turn' \in [Session -> TurnRecord]
      /\ \A t \in Session :
           /\ turn'[t].n = turn[t].n /\ turn'[t].origin = turn[t].origin
           /\ turn'[t].count = turn[t].count
           /\ turn'[t].phase = (IF t = s THEN p ELSE turn[t].phase)
  <2> HIDE DEF p
  <2> QED BY <1>1, <1>2, PhaseMoves
<1>4. \A t \in Session : RunChan(t)' = RunChan(t) /\ (InTurn(t)' <=> InTurn(t))
  BY <1>1, <1>3 DEF RunChan, InTurn, Bus!Chan
<1>5. Bus!TypeOK'
  BY <1>1, <1>3 DEF BusInv, Bus!TypeOK, TurnRecord
<1>6. ForwarderInv'
  BY <1>1, <1>3, <1>4 DEF BusInv, ForwarderInv
<1>7. ChunkInv'
  <2>1. \A t \in Session : \A k : OnItsWay(t, k) => OnItsWay(t, k)'
    BY <1>1, <1>3, <1>4 DEF OnItsWay, Chunk
  <2> QED
    BY <1>1, <1>3, <2>1 DEF BusInv, ChunkInv
<1> QED
  BY <1>5, <1>6, <1>7 DEF BusInv

\* The forwarder of a live context leaves only after it handed over the last
\* chunk: the body is over and the channel empty.
LEMMA BusForwarderLeaves ==
  ASSUME Bus!BufAssumption, BusInv, NEW s \in Session, Bus!RunForwarderLeaves(s)
  PROVE  BusInv'
<1>1. /\ s \in ctxDone \/ (turn[s].phase = "flush" /\ queue[RunChan(s)] = <<>>)
      /\ runForwarder' = runForwarder \ {s}
      /\ UNCHANGED <<subs, queue, sending, turn, ctxDone, writer, emitted>>
  BY DEF Bus!RunForwarderLeaves, RunChan
<1>2. \A t \in Session : RunChan(t)' = RunChan(t) /\ (InTurn(t)' <=> InTurn(t))
  BY <1>1 DEF RunChan, InTurn, Bus!Chan
<1>3. Bus!TypeOK'
  BY <1>1 DEF BusInv, Bus!TypeOK
<1>4. ForwarderInv'
  BY <1>1, <1>2 DEF BusInv, ForwarderInv
<1>5. ChunkInv'
  <2> SUFFICES ASSUME NEW t \in Session, turn[t].origin = Bus!Client, t \notin ctxDone,
                      NEW k \in 1 .. turn[t].count
               PROVE  OnItsWay(t, k)'
    BY <1>1 DEF ChunkInv
  <2>1. OnItsWay(t, k) /\ Chunk(t, k)' = Chunk(t, k)
    BY <1>1 DEF BusInv, ChunkInv, Chunk
  <2>2. CASE t = s
    <3>1. sending[s] = Bus!Idle /\ Elems(queue[RunChan(s)]) = {}
      BY <1>1, <2>2, EmptyElems DEF BusInv, ForwarderInv
    <3>2. Chunk(s, k) \in emitted[s]
      BY <2>1, <2>2, <3>1 DEF OnItsWay, Bus!Idle
    <3> QED
      BY <1>1, <2>1, <2>2, <3>2 DEF OnItsWay
  <2>3. CASE t # s
    BY <1>1, <1>2, <2>1, <2>3 DEF OnItsWay
  <2> QED
    BY <2>2, <2>3
<1> QED
  BY <1>3, <1>4, <1>5 DEF BusInv

\* Run returns after the flush.
LEMMA BusRunReturn ==
  ASSUME Bus!BufAssumption, BusInv, NEW s \in Session, Bus!RunReturn(s)
  PROVE  BusInv'
<1>1. /\ turn[s].phase = "flush" /\ s \notin runForwarder
      /\ turn' = [turn EXCEPT ![s].phase = "done"]
      /\ subs' = subs \ {RunChan(s)}
      /\ UNCHANGED <<queue, sending, ctxDone, writer, runForwarder, emitted>>
  BY DEF Bus!RunReturn, Bus!Unsubscribe, RunChan
<1>3. /\ turn' \in [Session -> TurnRecord]
      /\ \A t \in Session :
           /\ turn'[t].n = turn[t].n /\ turn'[t].origin = turn[t].origin
           /\ turn'[t].count = turn[t].count
           /\ turn'[t].phase = (IF t = s THEN "done" ELSE turn[t].phase)
  BY <1>1, PhaseMoves
<1>4. \A t \in Session : /\ RunChan(t)' = RunChan(t) /\ (t # s => RunChan(t) # RunChan(s))
                         /\ InTurn(t)' <=> InTurn(t) /\ t # s
  BY <1>1, <1>3, Channels DEF RunChan, InTurn, Bus!Chan, BusInv
<1>5. Bus!TypeOK'
  BY <1>1, <1>3 DEF BusInv, Bus!TypeOK, TurnRecord
<1>6. ForwarderInv'
  BY <1>1, <1>3, <1>4 DEF BusInv, ForwarderInv
<1>7. ChunkInv'
  <2>1. \A t \in Session : \A k : OnItsWay(t, k) => OnItsWay(t, k)'
    BY <1>1, <1>3, <1>4 DEF OnItsWay, Chunk
  <2> QED
    BY <1>1, <1>3, <2>1 DEF BusInv, ChunkInv
<1> QED
  BY <1>5, <1>6, <1>7 DEF BusInv

\* The invariant holds initially.
LEMMA BusInit ==
  ASSUME Bus!BufAssumption, Bus!Init
  PROVE  BusInv
<1>1. Bus!TypeOK
  BY DEF Bus!Init, Bus!TypeOK, Bus!BufAssumption, Bus!Idle, Bus!NoTurn, Bus!Client, Bus!Server
<1>2. ForwarderInv
  BY DEF Bus!Init, ForwarderInv, Bus!NoTurn, InTurn
<1>3. ChunkInv
  BY DEF Bus!Init, ChunkInv, Bus!NoTurn
<1> QED
  BY <1>1, <1>2, <1>3 DEF BusInv

\* The invariant of the event bus (kit/event, runtime.go Run), for any sessions, buffer
\* size, turns and events: a chunk of a live client turn is emitted, queued, or being sent.
THEOREM BusInvariance == ASSUME Bus!BufAssumption PROVE Bus!Spec => []BusInv
<1>1. Bus!Init => BusInv
  BY BusInit
<1>2. BusInv /\ [Bus!Next]_(Bus!vars) => BusInv'
  <2> SUFFICES ASSUME BusInv, [Bus!Next]_(Bus!vars) PROVE BusInv'
    OBVIOUS
  <2>1. CASE UNCHANGED Bus!vars
    <3>1. UNCHANGED <<subs, queue, sending, turn, ctxDone, writer, runForwarder, emitted>>
      BY <2>1 DEF Bus!vars
    <3>2. Bus!TypeOK'
      BY <3>1 DEF BusInv, Bus!TypeOK
    <3> QED
      BY <3>1, <3>2, BusFrame
  <2>2. CASE Bus!Next
    BY <2>2, BusOpenClose, BusCancel, BusPublish, BusTurnStart, BusSend, BusConsume,
       BusRunForward, BusBodyEnds, BusForwarderLeaves, BusRunReturn DEF Bus!Next
  <2> QED
    BY <2>1, <2>2
<1> QED
  BY <1>1, <1>2, PTL DEF Bus!Spec

\* When a client turn whose context lives has returned, its client has every
\* chunk it published (runtime.go Run: promptDone, the drain, the unsubscription),
\* for any sessions, buffer size and number of turns.
THEOREM TurnsAreFlushed == ASSUME Bus!BufAssumption PROVE Bus!Spec => []Bus!TurnFlushed
<1>1. ASSUME BusInv PROVE Bus!TurnFlushed
  <2> SUFFICES ASSUME NEW s \in Session, turn[s].origin = Bus!Client, turn[s].phase = "done",
                      s \notin ctxDone, NEW n \in 1 .. turn[s].count
               PROVE  [sess |-> s, turn |-> turn[s].n, n |-> n] \in emitted[s]
    BY DEF Bus!TurnFlushed
  <2>1. OnItsWay(s, n) /\ s \notin runForwarder
    BY <1>1 DEF BusInv, ChunkInv, ForwarderInv, InTurn
  <2> QED
    BY <2>1 DEF OnItsWay, Chunk
<1> QED
  BY <1>1, BusInvariance, PTL

(***************************************************************************)
(* Outbound requests: an entry is resolved once, by whoever wins its       *)
(* compare-and-swap, and only the winner of a cancellation may tell the    *)
(* client.                                                                 *)
(***************************************************************************)
\* A frame is written once per attempt and answered at most once.
FrameInv ==
  \A c \in Call :
    /\ answered[c] <= sent[c]
    /\ sent[c] <= attempt[c]
    /\ pc[c] = "idle" => attempt[c] = 0
    /\ pc[c] \in {"send", "write"} => sent[c] < attempt[c]
    /\ pc[c] \in {"idle", "send", "write", "wait"} => result[c] = "none"

\* Deliver holds an entry and its response, cancelPending an entry.
HoldsInv ==
  /\ reading # NoCall => response \in {"answer", "code_cancelled"}
  /\ \A x \in Registry!Agent : cpc[x] # "none" => entry[x] \in Call

\* The winner of the compare-and-swap decides: before it nothing has happened, a
\* cancelled request never has the client's answer, and one goroutine emits.
Telling(x, c) == cpc[x] \in {"gate", "emit"} /\ entry[x] = c
OutcomeInv ==
  \A c \in Call :
    /\ ch[c] # "empty" \/ result[c] = "answer" \/ counted[c] > 0 => done[c]
    /\ result[c] = "answer" => ch[c] = "empty"
    /\ counted[c] > 0 => ch[c] \in {"empty", "cancelled"} /\ result[c] # "answer"
    /\ counted[c] <= 1 /\ cascades[c] <= counted[c]
    /\ \A x \in Registry!Agent : Telling(x, c) =>
         /\ counted[c] > 0 /\ cascades[c] = 0
         /\ \A y \in Registry!Agent : Telling(y, c) => x = y

RegistryInv == Registry!TypeOK /\ FrameInv /\ HoldsInv /\ OutcomeInv



\* One lemma per step of the registry, and in it one step per part.
LEMMA RegistryRegisterStep ==
  ASSUME Registry!RegistryAssumption, RegistryInv, NEW c \in Call, Registry!Register(c)
  PROVE  RegistryInv'
<1> USE DEF RegistryInv, Registry!Register,
          Registry!callVars, Registry!wireVars, Registry!readVars,
          Registry!cancelVars, Registry!effects, Registry!stopVars
<1>1. Registry!TypeOK'
  BY DEF Registry!TypeOK, Registry!Agent, Registry!MaxSendAttempts
<1>2. FrameInv'
  BY DEF Registry!TypeOK, FrameInv, Registry!MaxSendAttempts, Registry!Retries
<1>3. HoldsInv'
  BY DEF Registry!TypeOK, Registry!RegistryAssumption, HoldsInv, Registry!Agent
<1>4. OutcomeInv'
  BY DEF Registry!TypeOK, HoldsInv, FrameInv, OutcomeInv, Telling, Registry!Agent
<1> QED
  BY <1>1, <1>2, <1>3, <1>4

\* The check and the write of a frame.
LEMMA RegistrySendStep ==
  ASSUME Registry!RegistryAssumption, RegistryInv, NEW c \in Call, Registry!SendCheck(c) \/ Registry!SendWrite(c)
  PROVE  RegistryInv'
<1> USE DEF RegistryInv, Registry!SendCheck, Registry!SendWrite, Registry!Leaves,
          Registry!callVars, Registry!wireVars, Registry!readVars,
          Registry!cancelVars, Registry!effects, Registry!stopVars
<1>1. Registry!TypeOK'
  BY DEF Registry!TypeOK, FrameInv, Registry!MaxSendAttempts
<1>2. FrameInv'
  BY DEF Registry!TypeOK, FrameInv, Registry!MaxSendAttempts, Registry!Retries
<1>3. HoldsInv'
  BY DEF Registry!TypeOK, Registry!RegistryAssumption, HoldsInv, Registry!Agent
<1>4. OutcomeInv'
  BY DEF Registry!TypeOK, HoldsInv, FrameInv, OutcomeInv, Telling, Registry!Agent
<1> QED
  BY <1>1, <1>2, <1>3, <1>4

\* The waiter takes the resolution; a -32800 from the client counts here.
LEMMA RegistrySettleStep ==
  ASSUME Registry!RegistryAssumption, RegistryInv, NEW c \in Call, Registry!Settle(c)
  PROVE  RegistryInv'
<1> USE DEF RegistryInv, Registry!Settle, Registry!Leaves,
          Registry!callVars, Registry!wireVars, Registry!readVars,
          Registry!cancelVars, Registry!effects, Registry!stopVars
<1>1. Registry!TypeOK'
  BY DEF Registry!TypeOK, Registry!Agent
<1>2. FrameInv'
  BY DEF Registry!TypeOK, FrameInv, Registry!MaxSendAttempts, Registry!Retries
<1>3. HoldsInv'
  BY DEF Registry!TypeOK, Registry!RegistryAssumption, HoldsInv, Registry!Agent
<1>4. OutcomeInv'
  BY DEF Registry!TypeOK, HoldsInv, FrameInv, OutcomeInv, Telling, Registry!Agent
<1> QED
  BY <1>1, <1>2, <1>3, <1>4

\* A dead caller context.
LEMMA RegistryCtxStep ==
  ASSUME Registry!RegistryAssumption, RegistryInv, NEW c \in Call, Registry!CtxCancelled(c) \/ Registry!CtxReturn(c)
  PROVE  RegistryInv'
<1> USE DEF RegistryInv, Registry!CtxCancelled, Registry!CtxReturn, Registry!Leaves,
          Registry!callVars, Registry!wireVars, Registry!readVars,
          Registry!cancelVars, Registry!effects, Registry!stopVars
<1>1. Registry!TypeOK'
  BY DEF Registry!TypeOK, Registry!Agent
<1>2. FrameInv'
  BY DEF Registry!TypeOK, FrameInv, Registry!MaxSendAttempts, Registry!Retries
<1>3. HoldsInv'
  BY DEF Registry!TypeOK, Registry!RegistryAssumption, HoldsInv, Registry!Agent
<1>4. OutcomeInv'
  BY DEF Registry!TypeOK, HoldsInv, FrameInv, OutcomeInv, Telling, Registry!Agent
<1> QED
  BY <1>1, <1>2, <1>3, <1>4

\* The window expires: a retry or the fallback.
LEMMA RegistryWindowStep ==
  ASSUME Registry!RegistryAssumption, RegistryInv, NEW c \in Call, Registry!WindowExpires(c)
  PROVE  RegistryInv'
<1> USE DEF RegistryInv, Registry!WindowExpires, Registry!Leaves,
          Registry!callVars, Registry!wireVars, Registry!readVars,
          Registry!cancelVars, Registry!effects, Registry!stopVars
<1>1. Registry!TypeOK'
  <2>1. attempt' \in [Call -> 0 .. Registry!MaxSendAttempts]
    <3>1. Registry!Retries(c) => attempt[c] + 1 \in 0 .. Registry!MaxSendAttempts
      BY DEF Registry!TypeOK, Registry!MaxSendAttempts, Registry!Retries
    <3> QED
      BY <3>1 DEF Registry!TypeOK
  <2> QED
    BY <2>1 DEF Registry!TypeOK
<1>2. FrameInv'
  BY DEF Registry!TypeOK, FrameInv, Registry!MaxSendAttempts, Registry!Retries
<1>3. HoldsInv'
  BY DEF Registry!TypeOK, Registry!RegistryAssumption, HoldsInv, Registry!Agent
<1>4. OutcomeInv'
  BY DEF Registry!TypeOK, HoldsInv, FrameInv, OutcomeInv, Telling, Registry!Agent
<1> QED
  BY <1>1, <1>2, <1>3, <1>4

\* Steps that leave the outcomes alone.
LEMMA RegistryUnregisterStep ==
  ASSUME Registry!RegistryAssumption, RegistryInv, NEW c \in Call, Registry!Unregister(c) \/ Registry!CallerCtxDies(c)
  PROVE  RegistryInv'
<1> USE DEF RegistryInv, Registry!Unregister, Registry!CallerCtxDies,
          Registry!callVars, Registry!wireVars, Registry!readVars,
          Registry!cancelVars, Registry!effects, Registry!stopVars
<1>1. Registry!TypeOK'
  BY DEF Registry!TypeOK, Registry!Agent
<1>2. FrameInv'
  BY DEF Registry!TypeOK, FrameInv, Registry!MaxSendAttempts, Registry!Retries
<1>3. HoldsInv'
  BY DEF Registry!TypeOK, Registry!RegistryAssumption, HoldsInv, Registry!Agent
<1>4. OutcomeInv'
  BY DEF Registry!TypeOK, HoldsInv, FrameInv, OutcomeInv, Telling, Registry!Agent
<1> QED
  BY <1>1, <1>2, <1>3, <1>4

\* Deliver's lookup; Deliver's compare-and-swap.
LEMMA RegistryLookupStep ==
  ASSUME Registry!RegistryAssumption, RegistryInv, NEW c \in Call, NEW r \in {"answer", "code_cancelled"},
         Registry!DeliverLookup(c, r)
  PROVE  RegistryInv'
<1> USE DEF RegistryInv, Registry!DeliverLookup,
          Registry!callVars, Registry!wireVars, Registry!readVars,
          Registry!cancelVars, Registry!effects, Registry!stopVars
<1>1. Registry!TypeOK'
  BY DEF Registry!TypeOK, FrameInv, Registry!MaxSendAttempts
<1>2. FrameInv'
  BY DEF Registry!TypeOK, FrameInv, Registry!MaxSendAttempts, Registry!Retries
<1>3. HoldsInv'
  BY DEF Registry!TypeOK, Registry!RegistryAssumption, HoldsInv, Registry!Agent
<1>4. OutcomeInv'
  BY DEF Registry!TypeOK, HoldsInv, FrameInv, OutcomeInv, Telling, Registry!Agent
<1> QED
  BY <1>1, <1>2, <1>3, <1>4

\* An answer of the client settles its request, if nothing settled it before.
LEMMA RegistryDeliverStep ==
  ASSUME Registry!RegistryAssumption, RegistryInv, Registry!DeliverResolve
  PROVE  RegistryInv'
<1> USE DEF RegistryInv, Registry!DeliverResolve, Registry!Resolves, Registry!Resolution,
          Registry!callVars, Registry!wireVars, Registry!readVars,
          Registry!cancelVars, Registry!effects, Registry!stopVars
<1>1. Registry!TypeOK'
  <2>1. done' \in [Call -> BOOLEAN]
    BY DEF Registry!TypeOK, HoldsInv
  <2>2. ch' \in [Call -> {"empty", "answer", "code_cancelled", "cancelled"}]
    BY DEF Registry!TypeOK, HoldsInv
  <2>3. counted' \in [Call -> Nat]
    BY DEF Registry!TypeOK, HoldsInv
  <2>4. cpc' \in [Registry!Agent -> {"none", "cas", "gate", "emit"}]
    BY DEF Registry!TypeOK
  <2> QED
    BY <2>1, <2>2, <2>3, <2>4 DEF Registry!TypeOK
<1>2. FrameInv'
  BY DEF Registry!TypeOK, FrameInv, Registry!MaxSendAttempts, Registry!Retries
<1>3. HoldsInv'
  BY DEF Registry!TypeOK, Registry!RegistryAssumption, HoldsInv, Registry!Agent
<1>4. OutcomeInv'
  BY DEF Registry!TypeOK, HoldsInv, FrameInv, OutcomeInv, Telling, Registry!Agent
<1> QED
  BY <1>1, <1>2, <1>3, <1>4

\* cancelPending: its lookup, its compare-and-swap, and the cascade.
LEMMA RegistryResolveLookupStep ==
  ASSUME Registry!RegistryAssumption, RegistryInv, NEW c \in Call, NEW x \in Resolver,
         Registry!ResolveLookup(x, c)
  PROVE  RegistryInv'
<1> USE DEF RegistryInv, Registry!ResolveLookup,
          Registry!callVars, Registry!wireVars, Registry!readVars,
          Registry!cancelVars, Registry!effects, Registry!stopVars
<1>1. Registry!TypeOK'
  BY DEF Registry!TypeOK, Registry!Agent
<1>2. FrameInv'
  BY DEF Registry!TypeOK, FrameInv, Registry!MaxSendAttempts, Registry!Retries
<1>3. HoldsInv'
  BY DEF Registry!TypeOK, Registry!RegistryAssumption, HoldsInv, Registry!Agent
<1>4. OutcomeInv'
  BY DEF Registry!TypeOK, HoldsInv, FrameInv, OutcomeInv, Telling, Registry!Agent
<1> QED
  BY <1>1, <1>2, <1>3, <1>4

\* CancelPending settles the request it found, if nothing settled it before.
LEMMA RegistryCancelPendingStep ==
  ASSUME Registry!RegistryAssumption, RegistryInv, NEW x \in Registry!Agent, Registry!CancelPending(x)
  PROVE  RegistryInv'
<1> USE DEF RegistryInv, Registry!CancelPending, Registry!Resolves, Registry!Resolution,
          Registry!callVars, Registry!wireVars, Registry!readVars,
          Registry!cancelVars, Registry!effects, Registry!stopVars
<1>1. Registry!TypeOK'
  <2>1. done' \in [Call -> BOOLEAN]
    BY DEF Registry!TypeOK, HoldsInv
  <2>2. ch' \in [Call -> {"empty", "answer", "code_cancelled", "cancelled"}]
    BY DEF Registry!TypeOK, HoldsInv
  <2>3. counted' \in [Call -> Nat]
    BY DEF Registry!TypeOK, HoldsInv
  <2>4. cpc' \in [Registry!Agent -> {"none", "cas", "gate", "emit"}]
    BY DEF Registry!TypeOK
  <2> QED
    BY <2>1, <2>2, <2>3, <2>4 DEF Registry!TypeOK
<1>2. FrameInv'
  BY DEF Registry!TypeOK, FrameInv, Registry!MaxSendAttempts, Registry!Retries
<1>3. HoldsInv'
  BY DEF Registry!TypeOK, Registry!RegistryAssumption, HoldsInv, Registry!Agent
<1>4. OutcomeInv'
  BY DEF Registry!TypeOK, HoldsInv, FrameInv, OutcomeInv, Telling, Registry!Agent
<1> QED
  BY <1>1, <1>2, <1>3, <1>4

\* The cancel cascade is gated by the close and emitted.
LEMMA RegistryCascadeStep ==
  ASSUME Registry!RegistryAssumption, RegistryInv, NEW x \in Registry!Agent,
         Registry!CascadeGate(x) \/ Registry!CascadeEmit(x)
  PROVE  RegistryInv'
<1> USE DEF RegistryInv, Registry!CascadeGate, Registry!CascadeEmit,
          Registry!callVars, Registry!wireVars, Registry!readVars,
          Registry!cancelVars, Registry!effects, Registry!stopVars
<1>1. Registry!TypeOK'
  BY DEF Registry!TypeOK, HoldsInv
<1>2. FrameInv'
  BY DEF Registry!TypeOK, FrameInv, Registry!MaxSendAttempts, Registry!Retries
<1>3. HoldsInv'
  BY DEF Registry!TypeOK, Registry!RegistryAssumption, HoldsInv, Registry!Agent
<1>4. OutcomeInv'
  BY DEF Registry!TypeOK, HoldsInv, FrameInv, OutcomeInv, Telling, Registry!Agent
<1> QED
  BY <1>1, <1>2, <1>3, <1>4

\* Stop resolves what it took, as a cancellation.
LEMMA RegistryStopResolveStep ==
  ASSUME Registry!RegistryAssumption, RegistryInv, NEW c \in Call, Registry!StopResolve(c)
  PROVE  RegistryInv'
<1> USE DEF RegistryInv, Registry!StopResolve, Registry!Drains, Registry!Resolves, Registry!Resolution,
          Registry!callVars, Registry!wireVars, Registry!readVars,
          Registry!cancelVars, Registry!effects, Registry!stopVars
<1>1. Registry!TypeOK'
  <2>1. done' \in [Call -> BOOLEAN]
    BY DEF Registry!TypeOK, HoldsInv
  <2>2. ch' \in [Call -> {"empty", "answer", "code_cancelled", "cancelled"}]
    BY DEF Registry!TypeOK, HoldsInv
  <2>3. counted' \in [Call -> Nat]
    BY DEF Registry!TypeOK, HoldsInv
  <2>4. cpc' \in [Registry!Agent -> {"none", "cas", "gate", "emit"}]
    BY DEF Registry!TypeOK
  <2> QED
    BY <2>1, <2>2, <2>3, <2>4 DEF Registry!TypeOK
<1>2. FrameInv'
  BY DEF Registry!TypeOK, FrameInv, Registry!MaxSendAttempts, Registry!Retries
<1>3. HoldsInv'
  BY DEF Registry!TypeOK, Registry!RegistryAssumption, HoldsInv, Registry!Agent
<1>4. OutcomeInv'
  BY DEF Registry!TypeOK, HoldsInv, FrameInv, OutcomeInv, Telling, Registry!Agent
<1> QED
  BY <1>1, <1>2, <1>3, <1>4

\* Stop takes the pending requests, and returns once they are settled.
LEMMA RegistryStopStep ==
  ASSUME Registry!RegistryAssumption, RegistryInv, Registry!StopTake \/ Registry!StopReturn \/ Registry!CloseWriter
  PROVE  RegistryInv'
<1> USE DEF RegistryInv, Registry!StopTake, Registry!StopReturn, Registry!CloseWriter,
          Registry!callVars, Registry!wireVars, Registry!readVars,
          Registry!cancelVars, Registry!effects, Registry!stopVars
<1>1. Registry!TypeOK'
  BY DEF Registry!TypeOK, Registry!Agent
<1>2. FrameInv'
  BY DEF Registry!TypeOK, FrameInv, Registry!MaxSendAttempts, Registry!Retries
<1>3. HoldsInv'
  BY DEF Registry!TypeOK, Registry!RegistryAssumption, HoldsInv, Registry!Agent
<1>4. OutcomeInv'
  BY DEF Registry!TypeOK, HoldsInv, FrameInv, OutcomeInv, Telling, Registry!Agent
<1> QED
  BY <1>1, <1>2, <1>3, <1>4

\* Nothing moves.
LEMMA RegistryStutter ==
  ASSUME RegistryInv, UNCHANGED Registry!vars
  PROVE  RegistryInv'
  BY DEF RegistryInv, Registry!TypeOK, FrameInv, HoldsInv, OutcomeInv, Telling, Registry!vars,
         Registry!callVars, Registry!wireVars, Registry!readVars, Registry!cancelVars,
         Registry!effects, Registry!stopVars

\* The inductive invariant of the registry: the compare-and-swap has one winner,
\* and what the winner did decides what the Call returns.
THEOREM RegistryInvariance ==
  ASSUME Registry!RegistryAssumption PROVE Registry!Spec => []RegistryInv
<1>1. Registry!Init => RegistryInv
  <2> SUFFICES ASSUME Registry!Init PROVE RegistryInv
    OBVIOUS
  <2>1. Registry!TypeOK
    <3>1. cascades \in [Call -> Nat] /\ counted \in [Call -> Nat]
      BY DEF Registry!Init
    <3>2. /\ attempt \in [Call -> 0 .. Registry!MaxSendAttempts]
          /\ sent \in [Call -> 0 .. Registry!MaxSendAttempts]
          /\ answered \in [Call -> 0 .. Registry!MaxSendAttempts]
      BY DEF Registry!Init, Registry!MaxSendAttempts
    <3> QED
      BY <3>1, <3>2 DEF Registry!Init, Registry!TypeOK
  <2>2. FrameInv
    BY DEF Registry!Init, FrameInv
  <2>3. HoldsInv
    BY DEF Registry!Init, HoldsInv
  <2>4. OutcomeInv
    BY DEF Registry!Init, OutcomeInv, Telling
  <2> QED
    BY <2>1, <2>2, <2>3, <2>4 DEF RegistryInv
<1>2. RegistryInv /\ [Registry!Next]_(Registry!vars) => RegistryInv'
  BY RegistryRegisterStep, RegistrySendStep, RegistrySettleStep, RegistryCtxStep,
     RegistryWindowStep, RegistryUnregisterStep, RegistryLookupStep, RegistryDeliverStep,
     RegistryResolveLookupStep, RegistryCancelPendingStep, RegistryCascadeStep,
     RegistryStopResolveStep, RegistryStopStep, RegistryStutter
     DEF Registry!Next, Registry!CallStep, Registry!CancelStep, Registry!StopStep
<1> QED
  BY <1>1, <1>2, PTL DEF Registry!Spec

\* "Exactly one resolution and at most one cascade per entry"
\* (request_registry.go), whoever races: caller contexts, resolvers, answers and
\* Stop, for any number of calls.
THEOREM ResolvedOnce ==
  ASSUME Registry!RegistryAssumption PROVE Registry!Spec => []Registry!CancelledOnce
<1>1. RegistryInv => Registry!CancelledOnce
  BY DEF RegistryInv, Registry!TypeOK, OutcomeInv, Registry!CancelledOnce
<1> QED
  BY <1>1, RegistryInvariance, PTL

\* A request that was withdrawn on the wire or counted as cancelled never returns
\* the client's answer.
THEOREM WithdrawnStaysUnanswered ==
  ASSUME Registry!RegistryAssumption PROVE Registry!Spec => []Registry!WithdrawnNeverAnswered
<1>1. RegistryInv => Registry!WithdrawnNeverAnswered
  BY DEF RegistryInv, Registry!TypeOK, OutcomeInv, Registry!WithdrawnNeverAnswered
<1> QED
  BY <1>1, RegistryInvariance, PTL

(***************************************************************************)
(* The config surface: a model that was set reaches every live session.    *)
(***************************************************************************)
\* The progress of a Set has its five fields.
ReqInv ==
  /\ DOMAIN req = Request /\ DOMAIN sessModel = Session
  /\ \A r \in Request : DOMAIN req[r] = {"pc", "option", "target", "frames", "left"}

\* While no two Sets overlap, one is in progress, and it applies the model the
\* runner holds; a session without that model is one it has still to stamp.
StampedBut(S) == effModel # Unset => \A s \in Session \ S : sessModel[s] \in {Unset, effModel}
SetInv ==
  /\ \A q, r \in Request : req[q] # Idle /\ req[r] # Idle => q = r
  /\ \A r \in Request : req[r].pc \in {"push", "stamp"} => req[r].target = effModel
  /\ \/ AllStamped
     \/ \E r \in Request : \/ req[r].pc = "push"
                           \/ req[r].pc = "stamp" /\ StampedBut(req[r].left)

SurfaceInv == ReqInv /\ (overlapped \/ SetInv)

\* A Set that is past its mutex is in progress.
LEMMA IdleRequest == Idle.pc = "idle"
  BY DEF Idle

\* Set under the mutex, in its six forms: nothing is applied yet.
LEMMA SurfaceWrite ==
  ASSUME SurfaceInv, NEW r \in Request, NEW s, NEW o, NEW v, NEW target,
         Write(r, s, o, v), Answer(r, o, target)
  PROVE  SurfaceInv'
<1> DEFINE new == [pc |-> IF target = Unset THEN "notify" ELSE "apply",
                   option |-> o, target |-> target, frames |-> Frames', left |-> {}]
<1>1. /\ req[r] = Idle /\ overlapped' = (overlapped \/ ~Quiet)
      /\ UNCHANGED <<effModel, sessModel>>
      /\ req' = [req EXCEPT ![r] = new]
  BY DEF Write, Answer
<1>2. new.pc \in {"notify", "apply"} /\ DOMAIN new = {"pc", "option", "target", "frames", "left"}
  OBVIOUS
<1> HIDE DEF new
<1>3. ReqInv'
  BY <1>1, <1>2 DEF SurfaceInv, ReqInv
<1>4. ASSUME ~overlapped' PROVE SetInv'
  <2>1. \A q \in Request : req[q] = Idle
    BY <1>1, <1>4 DEF Quiet
  <2>2. \A q \in Request : req'[q] = IF q = r THEN new ELSE Idle
    BY <1>1, <2>1 DEF SurfaceInv, ReqInv
  <2>3. AllStamped
    BY <1>1, <1>4, <2>1, IdleRequest DEF SurfaceInv, SetInv
  <2> QED
    BY <1>1, <1>2, <2>2, <2>3, IdleRequest DEF SetInv, AllStamped
<1> QED
  BY <1>3, <1>4 DEF SurfaceInv

\* The steps that touch neither the Sets in progress nor the models.
LEMMA SurfaceFrame ==
  ASSUME SurfaceInv, UNCHANGED <<req, effModel, sessModel, overlapped>>
  PROVE  SurfaceInv'
  BY DEF SurfaceInv, ReqInv, SetInv, StampedBut, AllStamped

\* A Set moves on.
LEMMA SurfaceMoves ==
  ASSUME SurfaceInv, NEW r \in Request, NEW q, req' = [req EXCEPT ![r] = q],
         DOMAIN q = {"pc", "option", "target", "frames", "left"}, DOMAIN sessModel' = Session,
         req[r] # Idle
  PROVE  /\ ReqInv' /\ req'[r] = q
         /\ \A t \in Request \ {r} : req'[t] = req[t]
         /\ ~overlapped => \A t \in Request \ {r} : req[t] = Idle
  BY DEF SurfaceInv, ReqInv, SetInv

\* The runner applies the model a Set resolved, or refuses it.
LEMMA SurfaceApply ==
  ASSUME SurfaceInv, NEW r \in Request, Apply(r)
  PROVE  SurfaceInv'
<1>1. PICK pc2 \in {"notify", "push"} :
        /\ req' = [req EXCEPT ![r].pc = pc2]
        /\ pc2 = "push" => effModel' = req[r].target
        /\ pc2 = "notify" => effModel' = effModel
  BY DEF Apply
<1>2. req[r].pc = "apply" /\ UNCHANGED <<sessModel, overlapped>>
  BY DEF Apply
<1> DEFINE q == [req[r] EXCEPT !.pc = pc2]
<1>3. /\ DOMAIN q = {"pc", "option", "target", "frames", "left"}
      /\ q.pc = pc2 /\ q.target = req[r].target
  BY DEF SurfaceInv, ReqInv
<1>4. req' = [req EXCEPT ![r] = q]
  BY <1>1
<1> HIDE DEF q
<1>5. /\ ReqInv' /\ req'[r] = q
      /\ \A t \in Request \ {r} : req'[t] = req[t]
      /\ ~overlapped => \A t \in Request \ {r} : req[t] = Idle
  BY <1>2, <1>3, <1>4, SurfaceMoves, IdleRequest DEF SurfaceInv, ReqInv
<1>6. ASSUME ~overlapped PROVE SetInv'
  <2>1. \A t, u \in Request : req'[t] # Idle /\ req'[u] # Idle => t = u
    BY <1>5, <1>6
  <2>2. \A t \in Request : req'[t].pc \in {"push", "stamp"} => req'[t].target = effModel'
    BY <1>1, <1>3, <1>5, <1>6, IdleRequest
  <2>3. CASE pc2 = "push"
    BY <1>3, <1>5, <2>1, <2>2, <2>3 DEF SetInv
  <2>4. CASE pc2 = "notify"
    <3>1. AllStamped
      BY <1>2, <1>5, <1>6, IdleRequest DEF SurfaceInv, SetInv
    <3> QED
      BY <1>1, <1>2, <2>1, <2>2, <2>4, <3>1 DEF SetInv, AllStamped
  <2> QED
    BY <2>3, <2>4
<1> QED
  BY <1>2, <1>5, <1>6 DEF SurfaceInv

\* The sessions are taken after the model was stored: who is not among them has
\* no session, or one that will be built with the new model.
LEMMA SurfaceTaken ==
  ASSUME SurfaceInv, NEW r \in Request, Taken(r)
  PROVE  SurfaceInv'
<1> DEFINE q == [req[r] EXCEPT !.pc = "stamp", !.left = {s \in Session : sessModel[s] # Unset}]
<1>1. req[r].pc = "push" /\ UNCHANGED <<effModel, sessModel, overlapped>> /\ req' = [req EXCEPT ![r] = q]
  BY DEF Taken, live
<1>3. /\ DOMAIN q = {"pc", "option", "target", "frames", "left"}
      /\ q.pc = "stamp" /\ q.target = req[r].target /\ q.left = {s \in Session : sessModel[s] # Unset}
  BY DEF SurfaceInv, ReqInv
<1> HIDE DEF q
<1>5. /\ ReqInv' /\ req'[r] = q
      /\ \A t \in Request \ {r} : req'[t] = req[t]
      /\ ~overlapped => \A t \in Request \ {r} : req[t] = Idle
  BY <1>1, <1>3, SurfaceMoves, IdleRequest DEF SurfaceInv, ReqInv
<1>6. ASSUME ~overlapped PROVE SetInv'
  <2>1. \A t, u \in Request : req'[t] # Idle /\ req'[u] # Idle => t = u
    BY <1>5, <1>6
  <2>2. \A t \in Request : req'[t].pc \in {"push", "stamp"} => req'[t].target = effModel'
    BY <1>1, <1>3, <1>5, <1>6, IdleRequest DEF SurfaceInv, SetInv
  <2>3. effModel' # Unset => \A s \in Session \ req'[r].left : sessModel'[s] \in {Unset, effModel'}
    BY <1>1, <1>3, <1>5
  <2> QED
    BY <1>3, <1>5, <2>1, <2>2, <2>3 DEF SetInv, StampedBut
<1> QED
  BY <1>1, <1>5, <1>6 DEF SurfaceInv

\* One live session is stamped.
LEMMA SurfaceStamp ==
  ASSUME SurfaceInv, NEW r \in Request, NEW s \in Session, Stamp(r, s)
  PROVE  SurfaceInv'
<1> DEFINE q == [req[r] EXCEPT !.left = req[r].left \ {s}]
<1>1. /\ req[r].pc = "stamp" /\ UNCHANGED <<effModel, overlapped>>
      /\ sessModel' = [sessModel EXCEPT ![s] = IF @ = Unset THEN Unset ELSE req[r].target]
      /\ req' = [req EXCEPT ![r] = q]
  BY DEF Stamp, live
<1>2. /\ DOMAIN sessModel' = Session
      /\ \A t \in Session : sessModel'[t] = IF t = s /\ sessModel[s] # Unset THEN req[r].target ELSE sessModel[t]
  BY <1>1 DEF SurfaceInv, ReqInv
<1>3. /\ DOMAIN q = {"pc", "option", "target", "frames", "left"}
      /\ q.pc = "stamp" /\ q.target = req[r].target /\ q.left = req[r].left \ {s}
  BY <1>1 DEF SurfaceInv, ReqInv
<1> HIDE DEF q
<1>5. /\ ReqInv' /\ req'[r] = q
      /\ \A t \in Request \ {r} : req'[t] = req[t]
      /\ ~overlapped => \A t \in Request \ {r} : req[t] = Idle
  BY <1>1, <1>2, <1>3, SurfaceMoves, IdleRequest
<1>6. ASSUME ~overlapped PROVE SetInv'
  <2>1. \A t, u \in Request : req'[t] # Idle /\ req'[u] # Idle => t = u
    BY <1>5, <1>6
  <2>2. \A t \in Request : req'[t].pc \in {"push", "stamp"} => req'[t].target = effModel'
    BY <1>1, <1>3, <1>5, <1>6, IdleRequest DEF SurfaceInv, SetInv
  <2>3. req[r].target = effModel
    BY <1>1, <1>6 DEF SurfaceInv, SetInv
  <2>4. AllStamped \/ StampedBut(req[r].left)
    BY <1>1, <1>5, <1>6, IdleRequest DEF SurfaceInv, SetInv
  <2>5. effModel' # Unset => \A t \in Session \ req'[r].left : sessModel'[t] \in {Unset, effModel'}
    BY <1>1, <1>2, <1>3, <1>5, <2>3, <2>4 DEF StampedBut, AllStamped
  <2> QED
    BY <1>3, <1>5, <2>1, <2>2, <2>5 DEF SetInv, StampedBut
<1> QED
  BY <1>1, <1>5, <1>6 DEF SurfaceInv

\* The Set ends with its notification.
LEMMA SurfaceNotify ==
  ASSUME SurfaceInv, NEW r \in Request, Notify(r)
  PROVE  SurfaceInv'
<1>1. /\ req[r].pc = "notify" \/ (req[r].pc = "stamp" /\ req[r].left = {})
      /\ UNCHANGED <<effModel, sessModel, overlapped>> /\ req' = [req EXCEPT ![r] = Idle]
  BY DEF Notify, live
<1>2. DOMAIN Idle = {"pc", "option", "target", "frames", "left"}
  BY DEF Idle
<1>5. /\ ReqInv' /\ req'[r] = Idle
      /\ \A t \in Request \ {r} : req'[t] = req[t]
      /\ ~overlapped => \A t \in Request \ {r} : req[t] = Idle
  BY <1>1, <1>2, SurfaceMoves, IdleRequest DEF SurfaceInv, ReqInv
<1>6. ASSUME ~overlapped PROVE SetInv'
  <2>1. \A t \in Request : req'[t] = Idle
    BY <1>5, <1>6
  <2>2. AllStamped
    BY <1>1, <1>5, <1>6, IdleRequest DEF SurfaceInv, SetInv, StampedBut, AllStamped
  <2> QED
    BY <1>1, <2>1, <2>2, IdleRequest DEF SetInv, AllStamped
<1> QED
  BY <1>1, <1>5, <1>6 DEF SurfaceInv

\* A session built while a Set is under way reads the model that was stored.
LEMMA SurfaceNewSession ==
  ASSUME SurfaceInv, NEW s \in Session, NewSession(s)
  PROVE  SurfaceInv'
<1>1. /\ UNCHANGED <<req, effModel, overlapped>> /\ DOMAIN sessModel' = Session
      /\ \A t \in Session : t # s => sessModel'[t] = sessModel[t]
      /\ effModel # Unset => sessModel'[s] = effModel
  BY DEF SurfaceInv, ReqInv, NewSession, live, First
<1> QED
  BY <1>1 DEF SurfaceInv, ReqInv, SetInv, StampedBut, AllStamped

\* Initialize and a restart find no Set in progress and no session.
LEMMA SurfaceStarts ==
  ASSUME SurfaceInv, Restart \/ \E f \in Fill : ApplyBlobDefaults(f)
  PROVE  SurfaceInv'
<1>1. /\ req' = req /\ \A r \in Request : req[r] = Idle
      /\ DOMAIN sessModel' = Session /\ \A s \in Session : sessModel'[s] = Unset
  BY DEF SurfaceInv, ReqInv, Restart, ApplyBlobDefaults, Quiet
<1> QED
  BY <1>1, IdleRequest DEF SurfaceInv, ReqInv, SetInv, AllStamped

LEMMA SurfaceInvariance == Spec => []SurfaceInv
<1>1. Init => SurfaceInv
  <2> SUFFICES ASSUME Init PROVE SurfaceInv
    OBVIOUS
  <2>1. DOMAIN Idle = {"pc", "option", "target", "frames", "left"}
    BY DEF Idle
  <2> QED
    BY <2>1, IdleRequest DEF Init, SurfaceInv, ReqInv, SetInv, AllStamped
<1>2. SurfaceInv /\ [Next]_(vars) => SurfaceInv'
  <2> SUFFICES ASSUME SurfaceInv, [Next]_(vars) PROVE SurfaceInv'
    OBVIOUS
  <2>1. ASSUME NEW r \in Request, NEW s,
               \/ \E v \in Pct : SetCompaction(r, s, v)
               \/ \E v \in Mode : SetPermMode(r, s, v)
               \/ \E v \in Days : SetTombstoneGrace(r, s, v)
               \/ \E v \in Cap : SetBackgroundCap(r, s, v)
               \/ \E o \in {"model", "tier"} : \E v \in Values(o) : SetModelOrTier(r, s, o, v)
        PROVE  SurfaceInv'
    <3>1. PICK o, v, target : Write(r, s, o, v) /\ Answer(r, o, target)
      BY <2>1 DEF SetCompaction, SetPermMode, SetTombstoneGrace,
         SetBackgroundCap, SetModelOrTier
    <3> QED
      BY <3>1, SurfaceWrite
  <2>2. ASSUME \/ UNCHANGED vars
               \/ \E r \in Request : SetFails(r)
               \/ \E r \in Request : \E s, o, v : SetAnswers(r, s, o, v)
               \/ \E s \in Session : TurnStarts(s) \/ TurnEnds(s)
        PROVE  SurfaceInv'
    BY <2>2, SurfaceFrame DEF vars, SetFails, SetAnswers,
       TurnStarts, TurnEnds, live
  <2> QED
    BY <2>1, <2>2, SurfaceApply, SurfaceTaken, SurfaceStamp, SurfaceNotify, SurfaceNewSession,
       SurfaceStarts DEF Next
<1> QED
  BY <1>1, <1>2, PTL DEF Spec

\* A model that was set reaches the sessions (ApplyTurnModel, sessionFor): for any
\* sessions and requests, with no Set in progress and none that overlapped
\* another, every live session stamps the model applied last.
THEOREM ModelsReach == Spec => []ModelReachesSessions
<1>1. SurfaceInv => ModelReachesSessions
  BY IdleRequest DEF SurfaceInv, SetInv, ModelReachesSessions, Quiet
<1> QED
  BY <1>1, SurfaceInvariance, PTL

\* No accepted value of the layers is out of its bounds, and the client's defaults
\* fill no retention.
LayerInv ==
  /\ DOMAIN layer = Scope /\ DOMAIN fills = Option
  /\ \A s \in Scope :
       /\ DOMAIN layer[s] = Option
       /\ layer[s]["compaction"] \in {65, 80, Unset}
       /\ layer[s]["grace"] \in {30, 7, Unset}
       /\ layer[s]["cap"] \in {8, 4, Unset}
  /\ fills["compaction"] \in {65, Unset} /\ fills["grace"] = Unset

\* The sessions run on the threshold the layers resolve to, or the Set that wrote it
\* is about to apply it.
Applying(r) == req[r].pc = "apply" /\ req[r].option = "compaction"
PairInv ==
  ~overlapped /\ fills["compaction"] = Unset =>
    /\ liveComp = CompactionPair \/ \E r \in Request : Applying(r)
    /\ \A r \in Request : Applying(r) => req[r].target = CompactionPair

ThresholdInv == LayerInv /\ PairInv

\* What the files and the fills make of the threshold.
Resolved == First(First(First(layer["project"]["compaction"], layer["global"]["compaction"]),
                        fills["compaction"]), 80)
LEMMA PairOf ==
  /\ LayerInv => CompactionPair = Resolved /\ Resolved \in {65, 80}
  /\ LayerInv' => CompactionPair' = Resolved' /\ Resolved' \in {65, 80}
<1>a. ASSUME LayerInv PROVE CompactionPair = Resolved /\ Resolved \in {65, 80}
  <2>1. EffOf("compaction") = First(First(Layered("compaction"), fills["compaction"]), Default["compaction"])
    BY DEF EffOf
  <2>2. Default["compaction"] = 80
    BY DEF Default
  <2>3. /\ layer["project"]["compaction"] \in {65, 80, Unset}
        /\ layer["global"]["compaction"] \in {65, 80, Unset}
        /\ fills["compaction"] \in {65, Unset}
    BY <1>a DEF LayerInv, Scope
  <2> HIDE DEF Default
  <2>4. EffOf("compaction") \in {65, 80}
    BY <2>1, <2>2, <2>3 DEF First, Layered
  <2>5. CompactionPair = EffOf("compaction")
    BY <2>2, <2>4 DEF CompactionPair
  <2> QED
    BY <2>1, <2>2, <2>4, <2>5 DEF Layered, Resolved
<1>b. (LayerInv => CompactionPair = Resolved /\ Resolved \in {65, 80})'
  BY <1>a, PTL
<1> QED
  BY <1>a, <1>b

\* A Set writes its own key of one layer.
LEMMA KeyWritten ==
  ASSUME LayerInv, NEW s \in Scope, NEW o \in Option, NEW v, layer' = Persisted(s, o, v)
  PROVE  /\ DOMAIN layer' = Scope
         /\ \A z \in Scope :
              /\ DOMAIN layer'[z] = Option
              /\ \A p \in Option \ {o} : layer'[z][p] = layer[z][p]
              /\ o # "model" => layer'[z][o] \in {layer[z][o], v}
<1>1. CASE o = "model"
  <2>1. layer' = [layer EXCEPT ![s].model[EffTier] = v]
    BY <1>1 DEF Persisted
  <2> QED
    BY <1>1, <2>1 DEF LayerInv
<1>2. CASE o # "model"
  <2>1. layer' = [layer EXCEPT ![s][o] = v]
    BY <1>2 DEF Persisted
  <2> QED
    BY <1>2, <2>1 DEF LayerInv
<1> QED
  BY <1>1, <1>2

\* A Set of another option leaves the threshold alone.
LEMMA OtherWritten ==
  ASSUME SurfaceInv, ThresholdInv, NEW r \in Request, NEW s \in Scope, NEW o \in Option \ {"compaction"},
         NEW v, NEW target, Write(r, s, o, v), Answer(r, o, target), Unfill(o) \/ fills' = fills,
         o = "grace" => v \in {30, 7}, o = "cap" => v \in {8, 4}
  PROVE  ThresholdInv'
<1>1. /\ layer' = Persisted(s, o, v) /\ req[r] = Idle
      /\ overlapped' = (overlapped \/ ~Quiet) /\ liveComp' = liveComp
  BY DEF Write
<1>2. DOMAIN fills' = Option /\ fills'["compaction"] = fills["compaction"] /\ fills'["grace"] = Unset
  BY DEF ThresholdInv, LayerInv, Unfill, Option
<1>3. /\ DOMAIN layer' = Scope
      /\ \A z \in Scope :
           /\ DOMAIN layer'[z] = Option
           /\ \A p \in Option \ {o} : layer'[z][p] = layer[z][p]
           /\ o # "model" => layer'[z][o] \in {layer[z][o], v}
  BY <1>1, KeyWritten DEF ThresholdInv
<1>4. \A z \in Scope : /\ layer'[z]["compaction"] = layer[z]["compaction"]
                       /\ layer'[z]["grace"] \in {30, 7, Unset} /\ layer'[z]["cap"] \in {8, 4, Unset}
  <2> SUFFICES ASSUME NEW z \in Scope
               PROVE  /\ layer'[z]["compaction"] = layer[z]["compaction"]
                      /\ layer'[z]["grace"] \in {30, 7, Unset} /\ layer'[z]["cap"] \in {8, 4, Unset}
    OBVIOUS
  <2>1. "compaction" \in Option \ {o} /\ "grace" \in Option /\ "cap" \in Option
    BY DEF Option
  <2>2. layer'[z]["compaction"] = layer[z]["compaction"]
    BY <1>3, <2>1
  <2>3. layer[z]["grace"] \in {30, 7, Unset} /\ layer[z]["cap"] \in {8, 4, Unset}
    BY DEF ThresholdInv, LayerInv
  <2>4. layer'[z]["grace"] \in {30, 7, Unset}
    BY <1>3, <2>1, <2>3
  <2>5. layer'[z]["cap"] \in {8, 4, Unset}
    BY <1>3, <2>1, <2>3
  <2> QED
    BY <2>2, <2>4, <2>5
<1>5. LayerInv'
  BY <1>2, <1>3, <1>4 DEF ThresholdInv, LayerInv
<1>6. CompactionPair' = CompactionPair
  BY <1>2, <1>4, <1>5, PairOf DEF ThresholdInv, Scope, Resolved
<1>7. PairInv'
  <2> SUFFICES ASSUME ~overlapped', fills'["compaction"] = Unset
               PROVE  liveComp' = CompactionPair' /\ \A q \in Request : ~Applying(q)'
    BY DEF PairInv
  <2>1. ~overlapped /\ \A q \in Request : req[q] = Idle
    BY <1>1 DEF Quiet
  <2>2. liveComp = CompactionPair
    BY <1>2, <2>1, IdleRequest DEF ThresholdInv, PairInv, Applying
  <2>3. req'[r].option = o /\ \A q \in Request \ {r} : req'[q] = req[q]
    BY DEF Answer, SurfaceInv, ReqInv
  <2>4. \A q \in Request : ~Applying(q)'
    BY <2>1, <2>3, IdleRequest DEF Applying
  <2> QED
    BY <1>1, <1>6, <2>2, <2>4
<1> QED
  BY <1>5, <1>7 DEF ThresholdInv

\* A Set of the threshold hands its effective value to the apply.
LEMMA ThresholdWritten ==
  ASSUME SurfaceAssumption, SurfaceInv, ThresholdInv, NEW r \in Request, NEW s \in Scope, NEW v \in Pct,
         SetCompaction(r, s, v)
  PROVE  ThresholdInv'
<1>1. /\ layer' = Persisted(s, "compaction", v) /\ v \in {65, 80}
      /\ req' = [req EXCEPT ![r] = [pc |-> IF CompactionPair' = Unset THEN "notify" ELSE "apply",
                                    option |-> "compaction", target |-> CompactionPair',
                                    frames |-> Frames', left |-> {}]]
  BY DEF SetCompaction, Write, Answer, Pct
<1>2. DOMAIN fills' = Option /\ fills'["compaction"] = Unset /\ fills'["grace"] = Unset
  BY DEF SetCompaction, ThresholdInv, LayerInv, Unfill, Option
<1>3. "compaction" \in Option /\ "grace" \in Option /\ "cap" \in Option
  BY DEF Option
<1>4. /\ DOMAIN layer' = Scope
      /\ \A z \in Scope :
           /\ DOMAIN layer'[z] = Option
           /\ \A p \in Option \ {"compaction"} : layer'[z][p] = layer[z][p]
           /\ layer'[z]["compaction"] \in {layer[z]["compaction"], v}
  BY <1>1, <1>3, KeyWritten DEF ThresholdInv
<1>5. LayerInv'
  <2>1. \A z \in Scope : /\ layer[z]["compaction"] \in {65, 80, Unset}
                         /\ layer[z]["grace"] \in {30, 7, Unset} /\ layer[z]["cap"] \in {8, 4, Unset}
    BY DEF ThresholdInv, LayerInv
  <2> QED
    BY <1>1, <1>2, <1>3, <1>4, <2>1 DEF LayerInv
<1>6. CompactionPair' \in {65, 80}
  BY <1>5, PairOf
<1>7. CompactionPair' # Unset
  BY <1>6 DEF SurfaceAssumption, Pct
<1>8. Applying(r)' /\ req'[r].target = CompactionPair'
  BY <1>1, <1>7 DEF Applying, SurfaceInv, ReqInv
<1>9. ~overlapped' => \A q \in Request \ {r} : req'[q] = Idle
  BY <1>1 DEF SetCompaction, Write, Quiet, SurfaceInv, ReqInv
<1> QED
  BY <1>5, <1>8, <1>9, IdleRequest DEF ThresholdInv, PairInv, Applying

\* The steps that leave files and fills alone.
LEMMA ThresholdKept ==
  ASSUME ThresholdInv, UNCHANGED <<layer, fills, liveComp, overlapped>>,
         \A r \in Request : req'[r] = req[r] \/ (~Applying(r) /\ ~Applying(r)')
  PROVE  ThresholdInv'
<1>1. LayerInv'
  BY DEF ThresholdInv, LayerInv
<1>2. CompactionPair' = CompactionPair
  BY <1>1, PairOf DEF ThresholdInv, Resolved
<1> QED
  BY <1>1, <1>2 DEF ThresholdInv, PairInv, Applying

\* The apply of a Set.
LEMMA ThresholdApplied ==
  ASSUME SurfaceInv, ThresholdInv, NEW r \in Request, Apply(r)
  PROVE  ThresholdInv'
<1>1. req[r].pc = "apply" /\ UNCHANGED <<layer, fills, overlapped>>
  BY DEF Apply
<1>2. CASE req[r].option # "compaction"
  <2>1. /\ liveComp' = liveComp /\ \A q \in Request \ {r} : req'[q] = req[q]
        /\ req'[r].pc # "apply"
    BY <1>2 DEF Apply, SurfaceInv, ReqInv
  <2>2. ~Applying(r) /\ ~Applying(r)'
    BY <1>2, <2>1 DEF Applying
  <2> QED
    BY <1>1, <2>1, <2>2, ThresholdKept
<1>3. CASE req[r].option = "compaction"
  <2>1. liveComp' = req[r].target
    BY <1>3 DEF Apply
  <2>2. LayerInv'
    BY <1>1 DEF ThresholdInv, LayerInv
  <2>3. CompactionPair' = CompactionPair
    BY <1>1, <2>2, PairOf DEF ThresholdInv, Resolved
  <2>4. ~overlapped => \A q \in Request : req[q] # Idle => q = r
    BY <1>1, IdleRequest DEF SurfaceInv, SetInv
  <2>5. ASSUME ~overlapped, fills["compaction"] = Unset PROVE liveComp' = CompactionPair
    BY <1>1, <1>3, <2>1, <2>5 DEF ThresholdInv, PairInv, Applying
  <2>6. req'[r].pc # "apply" /\ \A q \in Request \ {r} : req'[q] = req[q]
    BY <1>3 DEF Apply, SurfaceInv, ReqInv
  <2>7. ~overlapped => \A q \in Request : ~Applying(q)'
    BY <2>4, <2>6, IdleRequest DEF Applying
  <2> QED
    BY <1>1, <2>2, <2>3, <2>5, <2>7 DEF ThresholdInv, PairInv
<1> QED
  BY <1>2, <1>3

\* Initialize fills the slots no layer sets; a restart resolves the files anew.
LEMMA ThresholdStarts ==
  ASSUME SurfaceInv, ThresholdInv, Restart \/ \E f \in Fill : ApplyBlobDefaults(f)
  PROVE  ThresholdInv'
<1>1. NoFills["compaction"] = Unset /\ NoFills["grace"] = Unset /\ DOMAIN NoFills = Option
  BY DEF NoFills, Option
<1>2. CASE Restart
  <2>1. LayerInv'
    BY <1>1, <1>2 DEF Restart, ThresholdInv, LayerInv
  <2> QED
    BY <1>2, <2>1, IdleRequest DEF Restart, ThresholdInv, PairInv, Applying, Quiet
<1>3. ASSUME NEW f \in Fill, ApplyBlobDefaults(f) PROVE ThresholdInv'
  <2>1. /\ fills = NoFills /\ fills' = f /\ \A r \in Request : req[r] = Idle
        /\ UNCHANGED <<layer, liveComp, req, overlapped>>
    BY <1>3 DEF ApplyBlobDefaults, Quiet
  <2>2. DOMAIN f = Option /\ f["compaction"] \in {65, Unset} /\ f["grace"] = Unset
    BY <1>1 DEF Fill, Option
  <2>3. LayerInv'
    BY <2>1, <2>2 DEF ThresholdInv, LayerInv
  <2>4. f["compaction"] = Unset => CompactionPair' = CompactionPair
    BY <1>1, <2>1, <2>3, PairOf DEF ThresholdInv, Resolved
  <2> QED
    BY <1>1, <2>1, <2>3, <2>4, IdleRequest DEF ThresholdInv, PairInv, Applying
<1> QED
  BY <1>2, <1>3

\* The options in use are the ones shown, and the threshold the sessions run on is the
\* one a restart would resolve while no Set is in progress (config_surface.go): for any
\* requests, sessions, models and tiers.
THEOREM ShownAndLive ==
  ASSUME SurfaceAssumption
  PROVE  Spec => [](ShownIsUsed /\ CompactionLive)
<1>1. Init => ThresholdInv
  <2> SUFFICES ASSUME Init PROVE ThresholdInv
    OBVIOUS
  <2>1. LayerInv
    BY DEF Init, LayerInv, EmptyLayer, NoFills, Option, Scope
  <2>2. CompactionPair = 80
    BY <2>1, PairOf DEF Init, EmptyLayer, NoFills, Option, Scope, First, Resolved
  <2> QED
    BY <2>1, <2>2, IdleRequest DEF Init, ThresholdInv, PairInv, Applying
<1>2. SurfaceInv /\ ThresholdInv /\ [Next]_vars => ThresholdInv'
  <2> SUFFICES ASSUME SurfaceInv, ThresholdInv, [Next]_vars PROVE ThresholdInv'
    OBVIOUS
  <2>1. ASSUME NEW r \in Request, NEW s \in Scope,
               \/ \E v \in Mode : SetPermMode(r, s, v)
               \/ \E v \in Days : SetTombstoneGrace(r, s, v)
               \/ \E v \in Cap : SetBackgroundCap(r, s, v)
               \/ \E o \in {"model", "tier"} : \E v \in Values(o) : SetModelOrTier(r, s, o, v)
        PROVE  ThresholdInv'
    <3>1. PICK o \in Option \ {"compaction"} : \E v, target :
             /\ Write(r, s, o, v) /\ Answer(r, o, target) /\ (Unfill(o) \/ fills' = fills)
             /\ o = "grace" => v \in {30, 7}
             /\ o = "cap" => v \in {8, 4}
      <4>1. ASSUME NEW v \in Mode, SetPermMode(r, s, v) PROVE Write(r, s, "mode", v) /\ Answer(r, "mode", v) /\ Unfill("mode")
        BY <4>1 DEF SetPermMode
      <4>2. ASSUME NEW v \in Days, SetTombstoneGrace(r, s, v)
            PROVE  Write(r, s, "grace", v) /\ Answer(r, "grace", Unset) /\ Unfill("grace") /\ v \in {30, 7}
        BY <4>2 DEF SetTombstoneGrace, Days
      <4>3. ASSUME NEW v \in Cap, SetBackgroundCap(r, s, v)
            PROVE  Write(r, s, "cap", v) /\ Answer(r, "cap", Unset) /\ fills' = fills /\ v \in {8, 4}
        BY <4>3 DEF SetBackgroundCap, Cap
      <4>4. ASSUME NEW o \in {"model", "tier"}, NEW v, SetModelOrTier(r, s, o, v)
            PROVE  Write(r, s, o, v) /\ Answer(r, o, ApplyTarget(o, v)) /\ Unfill(o)
        BY <4>4 DEF SetModelOrTier
      <4>5. {"mode", "grace", "cap", "model", "tier"} = Option \ {"compaction"}
        BY DEF Option
      <4> QED
        BY <2>1, <4>1, <4>2, <4>3, <4>4, <4>5
    <3> QED
      BY <3>1, OtherWritten
  <2>2. ASSUME \/ UNCHANGED vars
               \/ \E r \in Request : SetFails(r)
               \/ \E r \in Request : \E s, o, v : SetAnswers(r, s, o, v)
               \/ \E s \in Session : TurnStarts(s) \/ TurnEnds(s) \/ NewSession(s)
        PROVE  ThresholdInv'
    BY <2>2, ThresholdKept DEF vars, SetFails, SetAnswers, TurnStarts, TurnEnds, NewSession, live
  <2>3. ASSUME NEW r \in Request, Taken(r) \/ Notify(r) \/ \E s \in Session : Stamp(r, s)
        PROVE  ThresholdInv'
    <3>1. /\ UNCHANGED <<layer, fills, liveComp, overlapped>> /\ req[r].pc # "apply"
          /\ req'[r].pc # "apply" /\ \A q \in Request \ {r} : req'[q] = req[q]
      BY <2>3, IdleRequest DEF Taken, Notify, Stamp, live, SurfaceInv, ReqInv
    <3>2. ~Applying(r) /\ ~Applying(r)'
      BY <3>1 DEF Applying
    <3> QED
      BY <3>1, <3>2, ThresholdKept
  <2> QED
    BY <2>1, <2>2, <2>3, ThresholdWritten, ThresholdApplied, ThresholdStarts DEF Next
<1>3. ASSUME ThresholdInv PROVE ShownIsUsed /\ CompactionLive
  <2>1. /\ \A s \in Scope : layer[s]["grace"] \in {30, 7, Unset} /\ layer[s]["cap"] \in {8, 4, Unset}
        /\ fills["grace"] = Unset /\ "project" \in Scope /\ "global" \in Scope
    BY <1>3 DEF ThresholdInv, LayerInv, Scope
  <2>2. Default["grace"] = 30 /\ Default["cap"] = 8
    BY DEF Default
  <2>3. /\ EffOf("grace") = First(First(Layered("grace"), fills["grace"]), Default["grace"])
        /\ EffOf("cap") = EffCap /\ EffCap = First(Layered("cap"), Default["cap"])
    BY DEF EffOf, EffCap
  <2> HIDE DEF Default
  <2>4. EffOf("grace") \in {30, 7} /\ EffCap \in {8, 4}
    BY <2>1, <2>2, <2>3 DEF First, Layered
  <2>5. Frames["grace"] = EffOf("grace") /\ Frames["cap"] = EffOf("cap")
    BY DEF Frames, Option
  <2>6. UsableGrace = EffOf("grace") /\ UsableCap = EffCap
    BY <2>4 DEF UsableGrace, UsableCap
  <2>7. ShownIsUsed
    BY <2>3, <2>5, <2>6 DEF ShownIsUsed
  <2>8. CompactionLive
    <3>1. NoFills["compaction"] = Unset
      BY DEF NoFills, Option
    <3> QED
      BY <1>3, <3>1, IdleRequest DEF ThresholdInv, PairInv, Applying, CompactionLive, Quiet
  <2> QED
    BY <2>7, <2>8
<1> QED
  BY <1>1, <1>2, <1>3, SurfaceInvariance, PTL DEF Spec

(***************************************************************************)
(* The turn slot: one turn at a time, steering that stays in its turn, and *)
(* one wake chain.                                                         *)
(***************************************************************************)
\* The places in the code where an actor holds the session turn mutex.
Held == {"mark", "loop", "ended", "read", "cancel", "unlock", "flag"}

SlotTypes ==
  /\ DOMAIN slotPc = Slot!Actor /\ notes \subseteq Note
  /\ DOMAIN batch = Chain /\ \A w \in Chain : batch[w] \subseteq Note
  /\ DOMAIN ticket = Client /\ DOMAIN highest = Client /\ DOMAIN steered = Client
  /\ DOMAIN delivered = Client \cup Note /\ items \subseteq Client
  /\ next \in Nat /\ \A c \in Client : ticket[c] \in Nat /\ ticket[c] <= next

HolderInv == \A x \in Slot!Actor : slotPc[x] \in Held => mu = x

ActiveInv == active => \E c \in Client : slotPc[c] \in {"loop", "ended"}

\* An input is enqueued once; one that waits is not delivered.
InputInv ==
  \A c \in Client :
    /\ slotPc[c] # "done" => c \notin items /\ delivered[c] = Nobody /\ steered[c] = Nobody
    /\ c \in items => delivered[c] = Nobody

\* An input that was enqueued for a turn waits only while that turn holds the
\* slot and will still drain the queue or cancel the input's ticket.
SteerInv ==
  \A c \in Client : steered[c] # Nobody =>
    /\ delivered[c] \in {steered[c], Nobody}
    /\ c \in items =>
         /\ steered[c] \in Client /\ mu = steered[c]
         /\ \/ slotPc[mu] \in {"loop", "ended", "read"}
            \/ slotPc[mu] = "cancel" /\ ticket[c] <= highest[mu]

ChainInv ==
  \A w \in Chain : Slot!Working(w) => inFlight /\ \A v \in Chain : Slot!Working(v) => v = w

SlotInv == SlotTypes /\ HolderInv /\ ActiveInv /\ InputInv /\ SteerInv /\ ChainInv

\* A step moves at most one actor.
LEMMA SlotMoves ==
  ASSUME SlotTypes, NEW x \in Slot!Actor, NEW a, NEW b, Slot!Go(x, a, b)
  PROVE  /\ slotPc[x] = a /\ slotPc'[x] = b /\ DOMAIN slotPc' = Slot!Actor
         /\ \A y \in Slot!Actor \ {x} : slotPc'[y] = slotPc[y]
  BY DEF SlotTypes, Slot!Go

\* Run: classification, steering, and the turn under the mutex with its exits.
LEMMA SlotClient ==
  ASSUME Slot!SlotAssumption, SlotInv, NEW c \in Client,
         \/ Slot!ClassifySteer(c) \/ Slot!ClassifyTurn(c) \/ Slot!SteerEnqueue(c)
         \/ Slot!ClientLock(c) \/ Slot!ClientMark(c) \/ Slot!ClientUnmark(c)
         \/ Slot!CancelAllRead(c) \/ Slot!CancelThrough(c) \/ Slot!ClientUnlock(c)
  PROVE  SlotInv'
<1>1. CASE Slot!ClassifySteer(c)
  <2>1. SlotTypes'
    BY <1>1, SlotMoves DEF Slot!ClassifySteer, Slot!steerVars, Slot!wakeVars, Slot!history,
       Slot!Actor, SlotInv, SlotTypes
  <2>2. HolderInv' /\ ActiveInv' /\ ChainInv'
    BY <1>1, SlotMoves DEF Slot!ClassifySteer, Slot!steerVars, Slot!wakeVars, Slot!history,
       Slot!SlotAssumption, Slot!Actor, SlotInv, SlotTypes, HolderInv, ActiveInv, ChainInv,
       Slot!Working, Held
  <2>3. InputInv' /\ SteerInv'
    BY <1>1, SlotMoves DEF Slot!ClassifySteer, Slot!steerVars, Slot!wakeVars, Slot!history,
       Slot!SlotAssumption, Slot!Actor, SlotInv, SlotTypes, HolderInv, ActiveInv, InputInv,
       SteerInv, Held
  <2> QED
    BY <2>1, <2>2, <2>3 DEF SlotInv
<1>2. CASE Slot!ClassifyTurn(c)
  <2>1. SlotTypes'
    BY <1>2, SlotMoves DEF Slot!ClassifyTurn, Slot!steerVars, Slot!wakeVars, Slot!history,
       Slot!Actor, SlotInv, SlotTypes
  <2>2. HolderInv' /\ ActiveInv' /\ ChainInv'
    BY <1>2, SlotMoves DEF Slot!ClassifyTurn, Slot!steerVars, Slot!wakeVars, Slot!history,
       Slot!SlotAssumption, Slot!Actor, SlotInv, SlotTypes, HolderInv, ActiveInv, ChainInv,
       Slot!Working, Held
  <2>3. InputInv' /\ SteerInv'
    BY <1>2, SlotMoves DEF Slot!ClassifyTurn, Slot!steerVars, Slot!wakeVars, Slot!history,
       Slot!SlotAssumption, Slot!Actor, SlotInv, SlotTypes, HolderInv, ActiveInv, InputInv,
       SteerInv, Held
  <2> QED
    BY <2>1, <2>2, <2>3 DEF SlotInv
<1>3. CASE Slot!SteerEnqueue(c)
  <2>1. SlotTypes'
    <3>1. /\ DOMAIN slotPc' = Slot!Actor /\ DOMAIN ticket' = Client /\ DOMAIN steered' = Client
          /\ items' \subseteq Client /\ next' = next + 1
          /\ \A b \in Client : ticket'[b] = IF b = c THEN next + 1 ELSE ticket[b]
          /\ UNCHANGED <<notes, batch, highest, delivered>>
      BY <1>3, SlotMoves DEF Slot!SteerEnqueue, Slot!wakeVars, Slot!Actor, SlotInv, SlotTypes
    <3> QED
      BY <3>1 DEF SlotInv, SlotTypes
  <2>2. HolderInv' /\ ActiveInv' /\ ChainInv'
    BY <1>3, SlotMoves DEF Slot!SteerEnqueue, Slot!wakeVars, Slot!SlotAssumption, Slot!Actor,
       SlotInv, SlotTypes, HolderInv, ActiveInv, ChainInv, Slot!Working, Held
  <2>3. InputInv' /\ SteerInv'
    BY <1>3, SlotMoves DEF Slot!SteerEnqueue, Slot!wakeVars, Slot!SlotAssumption, Slot!Actor,
       SlotInv, SlotTypes, HolderInv, ActiveInv, InputInv, SteerInv, Held
  <2> QED
    BY <2>1, <2>2, <2>3 DEF SlotInv
<1>4. CASE Slot!ClientLock(c)
  <2>1. SlotTypes'
    BY <1>4, SlotMoves DEF Slot!ClientLock, Slot!steerVars, Slot!wakeVars, Slot!history,
       Slot!Lock, Slot!Actor, SlotInv, SlotTypes
  <2>2. HolderInv' /\ ActiveInv' /\ ChainInv'
    BY <1>4, SlotMoves DEF Slot!ClientLock, Slot!steerVars, Slot!wakeVars, Slot!history,
       Slot!Lock, Slot!SlotAssumption, Slot!Actor, SlotInv, SlotTypes, HolderInv, ActiveInv,
       ChainInv, Slot!Working, Held
  <2>3. InputInv' /\ SteerInv'
    BY <1>4, SlotMoves DEF Slot!ClientLock, Slot!steerVars, Slot!wakeVars, Slot!history,
       Slot!Lock, Slot!SlotAssumption, Slot!Actor, SlotInv, SlotTypes, HolderInv, ActiveInv,
       InputInv, SteerInv, Held
  <2> QED
    BY <2>1, <2>2, <2>3 DEF SlotInv
<1>5. CASE Slot!ClientMark(c)
  <2>1. SlotTypes'
    BY <1>5, SlotMoves DEF Slot!ClientMark, Slot!steerVars, Slot!wakeVars, Slot!history,
       Slot!Actor, SlotInv, SlotTypes
  <2>2. HolderInv' /\ ActiveInv' /\ ChainInv'
    BY <1>5, SlotMoves DEF Slot!ClientMark, Slot!steerVars, Slot!wakeVars, Slot!history,
       Slot!SlotAssumption, Slot!Actor, SlotInv, SlotTypes, HolderInv, ActiveInv, ChainInv,
       Slot!Working, Held
  <2>3. InputInv' /\ SteerInv'
    BY <1>5, SlotMoves DEF Slot!ClientMark, Slot!steerVars, Slot!wakeVars, Slot!history,
       Slot!SlotAssumption, Slot!Actor, SlotInv, SlotTypes, HolderInv, ActiveInv, InputInv,
       SteerInv, Held
  <2> QED
    BY <2>1, <2>2, <2>3 DEF SlotInv
<1>6. CASE Slot!ClientUnmark(c)
  <2>1. SlotTypes'
    BY <1>6, SlotMoves DEF Slot!ClientUnmark, Slot!steerVars, Slot!wakeVars, Slot!history,
       Slot!Actor, SlotInv, SlotTypes
  <2>2. HolderInv' /\ ActiveInv' /\ ChainInv'
    BY <1>6, SlotMoves DEF Slot!ClientUnmark, Slot!steerVars, Slot!wakeVars, Slot!history,
       Slot!SlotAssumption, Slot!Actor, SlotInv, SlotTypes, HolderInv, ActiveInv, ChainInv,
       Slot!Working, Held
  <2>3. InputInv' /\ SteerInv'
    BY <1>6, SlotMoves DEF Slot!ClientUnmark, Slot!steerVars, Slot!wakeVars, Slot!history,
       Slot!SlotAssumption, Slot!Actor, SlotInv, SlotTypes, HolderInv, ActiveInv, InputInv,
       SteerInv, Held
  <2> QED
    BY <2>1, <2>2, <2>3 DEF SlotInv
<1>7. CASE Slot!CancelAllRead(c)
  <2>1. SlotTypes'
    BY <1>7, SlotMoves DEF Slot!CancelAllRead, Slot!steerVars, Slot!wakeVars, Slot!history,
       Slot!HighestTicket, Slot!Actor, SlotInv, SlotTypes
  <2>2. HolderInv' /\ ActiveInv' /\ ChainInv'
    BY <1>7, SlotMoves DEF Slot!CancelAllRead, Slot!steerVars, Slot!wakeVars, Slot!history,
       Slot!HighestTicket, Slot!SlotAssumption, Slot!Actor, SlotInv, SlotTypes, HolderInv,
       ActiveInv, ChainInv, Slot!Working, Held
  <2>3. InputInv' /\ SteerInv'
    BY <1>7, SlotMoves DEF Slot!CancelAllRead, Slot!steerVars, Slot!wakeVars, Slot!history,
       Slot!HighestTicket, Slot!SlotAssumption, Slot!Actor, SlotInv, SlotTypes, HolderInv,
       ActiveInv, InputInv, SteerInv, Held
  <2> QED
    BY <2>1, <2>2, <2>3 DEF SlotInv
<1>8. CASE Slot!CancelThrough(c)
  <2>1. SlotTypes'
    BY <1>8, SlotMoves DEF Slot!CancelThrough, Slot!wakeVars, Slot!history, Slot!Covered,
       Slot!Actor, SlotInv, SlotTypes
  <2>2. HolderInv' /\ ActiveInv' /\ ChainInv'
    BY <1>8, SlotMoves DEF Slot!CancelThrough, Slot!wakeVars, Slot!history, Slot!Covered,
       Slot!SlotAssumption, Slot!Actor, SlotInv, SlotTypes, HolderInv, ActiveInv, ChainInv,
       Slot!Working, Held
  <2>3. InputInv' /\ SteerInv'
    BY <1>8, SlotMoves DEF Slot!CancelThrough, Slot!wakeVars, Slot!history, Slot!Covered,
       Slot!SlotAssumption, Slot!Actor, SlotInv, SlotTypes, HolderInv, ActiveInv, InputInv,
       SteerInv, Held
  <2> QED
    BY <2>1, <2>2, <2>3 DEF SlotInv
<1>9. CASE Slot!ClientUnlock(c)
  <2>1. SlotTypes'
    BY <1>9, SlotMoves DEF Slot!ClientUnlock, Slot!steerVars, Slot!wakeVars, Slot!history,
       Slot!Actor, SlotInv, SlotTypes
  <2>2. HolderInv' /\ ActiveInv' /\ ChainInv'
    BY <1>9, SlotMoves DEF Slot!ClientUnlock, Slot!steerVars, Slot!wakeVars, Slot!history,
       Slot!SlotAssumption, Slot!Actor, SlotInv, SlotTypes, HolderInv, ActiveInv, ChainInv,
       Slot!Working, Held
  <2>3. InputInv' /\ SteerInv'
    BY <1>9, SlotMoves DEF Slot!ClientUnlock, Slot!steerVars, Slot!wakeVars, Slot!history,
       Slot!SlotAssumption, Slot!Actor, SlotInv, SlotTypes, HolderInv, ActiveInv, InputInv,
       SteerInv, Held
  <2> QED
    BY <2>1, <2>2, <2>3 DEF SlotInv
<1> QED
  BY <1>1, <1>2, <1>3, <1>4, <1>5, <1>6, <1>7, <1>8, <1>9

\* runAutomationTurn.
LEMMA SlotAutomation ==
  ASSUME Slot!SlotAssumption, SlotInv, NEW a \in Automation,
         \/ Slot!AutomationFlag(a) \/ Slot!AutomationLock(a) \/ Slot!AutomationUnlock(a)
         \/ Slot!AutomationReset(a)
  PROVE  SlotInv'
<1>1. CASE Slot!AutomationFlag(a)
  <2>1. SlotTypes'
    BY <1>1, SlotMoves DEF Slot!AutomationFlag, Slot!steerVars, Slot!wakeVars, Slot!history,
       Slot!Actor, SlotInv, SlotTypes
  <2>2. HolderInv' /\ ActiveInv' /\ ChainInv'
    BY <1>1, SlotMoves DEF Slot!AutomationFlag, Slot!steerVars, Slot!wakeVars, Slot!history,
       Slot!SlotAssumption, Slot!Actor, SlotInv, SlotTypes, HolderInv, ActiveInv, ChainInv,
       Slot!Working, Held
  <2>3. InputInv' /\ SteerInv'
    BY <1>1, SlotMoves DEF Slot!AutomationFlag, Slot!steerVars, Slot!wakeVars, Slot!history,
       Slot!SlotAssumption, Slot!Actor, SlotInv, SlotTypes, HolderInv, ActiveInv, InputInv,
       SteerInv, Held
  <2> QED
    BY <2>1, <2>2, <2>3 DEF SlotInv
<1>2. CASE Slot!AutomationLock(a)
  <2>1. SlotTypes'
    BY <1>2, SlotMoves DEF Slot!AutomationLock, Slot!steerVars, Slot!wakeVars, Slot!history,
       Slot!Lock, Slot!Actor, SlotInv, SlotTypes
  <2>2. HolderInv' /\ ActiveInv' /\ ChainInv'
    BY <1>2, SlotMoves DEF Slot!AutomationLock, Slot!steerVars, Slot!wakeVars, Slot!history,
       Slot!Lock, Slot!SlotAssumption, Slot!Actor, SlotInv, SlotTypes, HolderInv, ActiveInv,
       ChainInv, Slot!Working, Held
  <2>3. InputInv' /\ SteerInv'
    BY <1>2, SlotMoves DEF Slot!AutomationLock, Slot!steerVars, Slot!wakeVars, Slot!history,
       Slot!Lock, Slot!SlotAssumption, Slot!Actor, SlotInv, SlotTypes, HolderInv, ActiveInv,
       InputInv, SteerInv, Held
  <2> QED
    BY <2>1, <2>2, <2>3 DEF SlotInv
<1>3. CASE Slot!AutomationUnlock(a)
  <2>1. SlotTypes'
    BY <1>3, SlotMoves DEF Slot!AutomationUnlock, Slot!steerVars, Slot!wakeVars, Slot!history,
       Slot!Actor, SlotInv, SlotTypes
  <2>2. HolderInv' /\ ActiveInv' /\ ChainInv'
    BY <1>3, SlotMoves DEF Slot!AutomationUnlock, Slot!steerVars, Slot!wakeVars, Slot!history,
       Slot!SlotAssumption, Slot!Actor, SlotInv, SlotTypes, HolderInv, ActiveInv, ChainInv,
       Slot!Working, Held
  <2>3. InputInv' /\ SteerInv'
    BY <1>3, SlotMoves DEF Slot!AutomationUnlock, Slot!steerVars, Slot!wakeVars, Slot!history,
       Slot!SlotAssumption, Slot!Actor, SlotInv, SlotTypes, HolderInv, ActiveInv, InputInv,
       SteerInv, Held
  <2> QED
    BY <2>1, <2>2, <2>3 DEF SlotInv
<1>4. CASE Slot!AutomationReset(a)
  <2>1. SlotTypes'
    BY <1>4, SlotMoves DEF Slot!AutomationReset, Slot!steerVars, Slot!wakeVars, Slot!history,
       Slot!Actor, SlotInv, SlotTypes
  <2>2. HolderInv' /\ ActiveInv' /\ ChainInv'
    BY <1>4, SlotMoves DEF Slot!AutomationReset, Slot!steerVars, Slot!wakeVars, Slot!history,
       Slot!SlotAssumption, Slot!Actor, SlotInv, SlotTypes, HolderInv, ActiveInv, ChainInv,
       Slot!Working, Held
  <2>3. InputInv' /\ SteerInv'
    BY <1>4, SlotMoves DEF Slot!AutomationReset, Slot!steerVars, Slot!wakeVars, Slot!history,
       Slot!SlotAssumption, Slot!Actor, SlotInv, SlotTypes, HolderInv, ActiveInv, InputInv,
       SteerInv, Held
  <2> QED
    BY <2>1, <2>2, <2>3 DEF SlotInv
<1> QED
  BY <1>1, <1>2, <1>3, <1>4

\* The wake chain.
LEMMA SlotWake ==
  ASSUME Slot!SlotAssumption, SlotInv, NEW w \in Chain,
         \/ Slot!WakePeek(w) \/ Slot!WakeBusy(w) \/ Slot!WakeTake(w) \/ Slot!WakeFlag(w)
         \/ Slot!WakeReset(w) \/ Slot!WakeUnlock(w) \/ Slot!WakeClear(w)
         \/ Slot!WakeExit(w)
  PROVE  SlotInv'
<1>1. CASE Slot!WakePeek(w)
  <2>1. SlotTypes'
    BY <1>1, SlotMoves DEF Slot!WakePeek, Slot!steerVars, Slot!wakeVars, Slot!history,
       Slot!Actor, SlotInv, SlotTypes
  <2>2. HolderInv' /\ ActiveInv' /\ ChainInv'
    BY <1>1, SlotMoves DEF Slot!WakePeek, Slot!steerVars, Slot!wakeVars, Slot!history,
       Slot!SlotAssumption, Slot!Actor, SlotInv, SlotTypes, HolderInv, ActiveInv, ChainInv,
       Slot!Working, Held
  <2>3. InputInv' /\ SteerInv'
    BY <1>1, SlotMoves DEF Slot!WakePeek, Slot!steerVars, Slot!wakeVars, Slot!history,
       Slot!SlotAssumption, Slot!Actor, SlotInv, SlotTypes, HolderInv, ActiveInv, InputInv,
       SteerInv, Held
  <2> QED
    BY <2>1, <2>2, <2>3 DEF SlotInv
<1>2. CASE Slot!WakeBusy(w)
  <2>1. SlotTypes'
    BY <1>2, SlotMoves DEF Slot!WakeBusy, Slot!steerVars, Slot!wakeVars, Slot!history,
       Slot!Actor, SlotInv, SlotTypes
  <2>2. HolderInv' /\ ActiveInv' /\ ChainInv'
    BY <1>2, SlotMoves DEF Slot!WakeBusy, Slot!steerVars, Slot!wakeVars, Slot!history,
       Slot!SlotAssumption, Slot!Actor, SlotInv, SlotTypes, HolderInv, ActiveInv, ChainInv,
       Slot!Working, Held
  <2>3. InputInv' /\ SteerInv'
    BY <1>2, SlotMoves DEF Slot!WakeBusy, Slot!steerVars, Slot!wakeVars, Slot!history,
       Slot!SlotAssumption, Slot!Actor, SlotInv, SlotTypes, HolderInv, ActiveInv, InputInv,
       SteerInv, Held
  <2> QED
    BY <2>1, <2>2, <2>3 DEF SlotInv
<1>3. CASE Slot!WakeTake(w)
  <2>1. SlotTypes'
    BY <1>3, SlotMoves DEF Slot!WakeTake, Slot!steerVars, Slot!history, Slot!Lock, Slot!Actor,
       SlotInv, SlotTypes
  <2>2. HolderInv' /\ ActiveInv' /\ ChainInv'
    BY <1>3, SlotMoves DEF Slot!WakeTake, Slot!steerVars, Slot!history, Slot!Lock,
       Slot!SlotAssumption, Slot!Actor, SlotInv, SlotTypes, HolderInv, ActiveInv, ChainInv,
       Slot!Working, Held
  <2>3. InputInv' /\ SteerInv'
    BY <1>3, SlotMoves DEF Slot!WakeTake, Slot!steerVars, Slot!history, Slot!Lock,
       Slot!SlotAssumption, Slot!Actor, SlotInv, SlotTypes, HolderInv, ActiveInv, InputInv,
       SteerInv, Held
  <2> QED
    BY <2>1, <2>2, <2>3 DEF SlotInv
<1>4. CASE Slot!WakeFlag(w)
  <2>1. SlotTypes'
    BY <1>4, SlotMoves DEF Slot!WakeFlag, Slot!steerVars, Slot!wakeVars, Slot!Actor, SlotInv,
       SlotTypes
  <2>2. HolderInv' /\ ActiveInv' /\ ChainInv'
    BY <1>4, SlotMoves DEF Slot!WakeFlag, Slot!steerVars, Slot!wakeVars, Slot!SlotAssumption,
       Slot!Actor, SlotInv, SlotTypes, HolderInv, ActiveInv, ChainInv, Slot!Working, Held
  <2>3. InputInv' /\ SteerInv'
    BY <1>4, SlotMoves DEF Slot!WakeFlag, Slot!steerVars, Slot!wakeVars, Slot!SlotAssumption,
       Slot!Actor, SlotInv, SlotTypes, HolderInv, ActiveInv, InputInv, SteerInv, Held
  <2> QED
    BY <2>1, <2>2, <2>3 DEF SlotInv
<1>5. CASE Slot!WakeReset(w)
  <2>1. SlotTypes'
    BY <1>5, SlotMoves DEF Slot!WakeReset, Slot!steerVars, Slot!wakeVars, Slot!history,
       Slot!Actor, SlotInv, SlotTypes
  <2>2. HolderInv' /\ ActiveInv' /\ ChainInv'
    BY <1>5, SlotMoves DEF Slot!WakeReset, Slot!steerVars, Slot!wakeVars, Slot!history,
       Slot!SlotAssumption, Slot!Actor, SlotInv, SlotTypes, HolderInv, ActiveInv, ChainInv,
       Slot!Working, Held
  <2>3. InputInv' /\ SteerInv'
    BY <1>5, SlotMoves DEF Slot!WakeReset, Slot!steerVars, Slot!wakeVars, Slot!history,
       Slot!SlotAssumption, Slot!Actor, SlotInv, SlotTypes, HolderInv, ActiveInv, InputInv,
       SteerInv, Held
  <2> QED
    BY <2>1, <2>2, <2>3 DEF SlotInv
<1>6. CASE Slot!WakeUnlock(w)
  <2>1. SlotTypes'
    BY <1>6, SlotMoves DEF Slot!WakeUnlock, Slot!steerVars, Slot!wakeVars, Slot!history,
       Slot!Actor, SlotInv, SlotTypes
  <2>2. HolderInv' /\ ActiveInv' /\ ChainInv'
    BY <1>6, SlotMoves DEF Slot!WakeUnlock, Slot!steerVars, Slot!wakeVars, Slot!history,
       Slot!SlotAssumption, Slot!Actor, SlotInv, SlotTypes, HolderInv, ActiveInv, ChainInv,
       Slot!Working, Held
  <2>3. InputInv' /\ SteerInv'
    BY <1>6, SlotMoves DEF Slot!WakeUnlock, Slot!steerVars, Slot!wakeVars, Slot!history,
       Slot!SlotAssumption, Slot!Actor, SlotInv, SlotTypes, HolderInv, ActiveInv, InputInv,
       SteerInv, Held
  <2> QED
    BY <2>1, <2>2, <2>3 DEF SlotInv
<1>7. CASE Slot!WakeClear(w)
  <2>1. SlotTypes'
    BY <1>7, SlotMoves DEF Slot!WakeClear, Slot!steerVars, Slot!history, Slot!Actor, SlotInv,
       SlotTypes
  <2>2. HolderInv' /\ ActiveInv' /\ ChainInv'
    BY <1>7, SlotMoves DEF Slot!WakeClear, Slot!steerVars, Slot!history, Slot!SlotAssumption,
       Slot!Actor, SlotInv, SlotTypes, HolderInv, ActiveInv, ChainInv, Slot!Working, Held
  <2>3. InputInv' /\ SteerInv'
    BY <1>7, SlotMoves DEF Slot!WakeClear, Slot!steerVars, Slot!history, Slot!SlotAssumption,
       Slot!Actor, SlotInv, SlotTypes, HolderInv, ActiveInv, InputInv, SteerInv, Held
  <2> QED
    BY <2>1, <2>2, <2>3 DEF SlotInv
<1>8. CASE Slot!WakeExit(w)
  <2>1. SlotTypes'
    BY <1>8, SlotMoves DEF Slot!WakeExit, Slot!steerVars, Slot!history, Slot!Restarts,
       Slot!Claims, Slot!Actor, SlotInv, SlotTypes
  <2>2. HolderInv' /\ ActiveInv'
    BY <1>8, SlotMoves DEF Slot!WakeExit, Slot!steerVars, Slot!history, Slot!Restarts,
       Slot!Claims, Slot!SlotAssumption, Slot!Actor, SlotInv, SlotTypes, HolderInv, ActiveInv,
       ChainInv, Slot!Working, Held
  <2>3. ChainInv'
    <3>1. /\ slotPc[w] = "recheck" /\ ~Slot!Working(w)
          /\ slotPc'[w] = IF Slot!Restarts THEN "peek" ELSE "idle"
          /\ \A v \in Chain \ {w} : slotPc'[v] = slotPc[v]
      BY <1>8, SlotMoves DEF Slot!WakeExit, Slot!Actor, SlotInv, Slot!Working
    <3>2. CASE Slot!Restarts
      BY <1>8, <3>1, <3>2 DEF Slot!WakeExit, Slot!Restarts, Slot!Claims, SlotInv, ChainInv, Slot!Working
    <3>3. CASE ~Slot!Restarts
      BY <1>8, <3>1, <3>3 DEF Slot!WakeExit, SlotInv, ChainInv, Slot!Working
    <3> QED
      BY <3>2, <3>3
  <2>4. InputInv' /\ SteerInv'
    BY <1>8, SlotMoves DEF Slot!WakeExit, Slot!steerVars, Slot!history, Slot!Restarts,
       Slot!Claims, Slot!SlotAssumption, Slot!Actor, SlotInv, SlotTypes, HolderInv, ActiveInv,
       InputInv, SteerInv, Held
  <2> QED
    BY <2>1, <2>2, <2>3, <2>4 DEF SlotInv
<1> QED
  BY <1>1, <1>2, <1>3, <1>4, <1>5, <1>6, <1>7, <1>8

\* Inside a turn: a boundary drains the queue, and the turn ends.
LEMMA SlotTurn ==
  ASSUME Slot!SlotAssumption, SlotInv, NEW x \in Slot!Actor,
         \/ Slot!Boundary(x) \/ Slot!RecordCanceled(x) \/ Slot!TurnEnds(x)
  PROVE  SlotInv'
<1>1. CASE Slot!Boundary(x)
  <2>1. SlotTypes'
    BY <1>1, SlotMoves DEF Slot!Boundary, Slot!wakeVars, Slot!Actor, SlotInv, SlotTypes
  <2>2. HolderInv' /\ ActiveInv' /\ ChainInv'
    BY <1>1, SlotMoves DEF Slot!Boundary, Slot!wakeVars, Slot!SlotAssumption, Slot!Actor,
       SlotInv, SlotTypes, HolderInv, ActiveInv, ChainInv, Slot!Working, Held
  <2>3. InputInv' /\ SteerInv'
    BY <1>1, SlotMoves DEF Slot!Boundary, Slot!wakeVars, Slot!SlotAssumption, Slot!Actor,
       SlotInv, SlotTypes, HolderInv, ActiveInv, InputInv, SteerInv, Held
  <2> QED
    BY <2>1, <2>2, <2>3 DEF SlotInv
<1>2. CASE Slot!RecordCanceled(x)
  <2>1. SlotTypes'
    BY <1>2, SlotMoves DEF Slot!RecordCanceled, Slot!wakeVars, Slot!history, Slot!Actor,
       SlotInv, SlotTypes
  <2>2. HolderInv' /\ ActiveInv' /\ ChainInv'
    BY <1>2, SlotMoves DEF Slot!RecordCanceled, Slot!wakeVars, Slot!history,
       Slot!SlotAssumption, Slot!Actor, SlotInv, SlotTypes, HolderInv, ActiveInv, ChainInv,
       Slot!Working, Held
  <2>3. InputInv' /\ SteerInv'
    BY <1>2, SlotMoves DEF Slot!RecordCanceled, Slot!wakeVars, Slot!history,
       Slot!SlotAssumption, Slot!Actor, SlotInv, SlotTypes, HolderInv, ActiveInv, InputInv,
       SteerInv, Held
  <2> QED
    BY <2>1, <2>2, <2>3 DEF SlotInv
<1>3. CASE Slot!TurnEnds(x)
  <2>1. SlotTypes'
    BY <1>3, SlotMoves DEF Slot!TurnEnds, Slot!steerVars, Slot!wakeVars, Slot!history,
       Slot!Actor, SlotInv, SlotTypes
  <2>2. HolderInv' /\ ActiveInv' /\ ChainInv'
    BY <1>3, SlotMoves DEF Slot!TurnEnds, Slot!steerVars, Slot!wakeVars, Slot!history,
       Slot!SlotAssumption, Slot!Actor, SlotInv, SlotTypes, HolderInv, ActiveInv, ChainInv,
       Slot!Working, Held
  <2>3. InputInv' /\ SteerInv'
    BY <1>3, SlotMoves DEF Slot!TurnEnds, Slot!steerVars, Slot!wakeVars, Slot!history,
       Slot!SlotAssumption, Slot!Actor, SlotInv, SlotTypes, HolderInv, ActiveInv, InputInv,
       SteerInv, Held
  <2> QED
    BY <2>1, <2>2, <2>3 DEF SlotInv
<1> QED
  BY <1>1, <1>2, <1>3

\* A task completes and asks for a drain.
LEMMA SlotNote ==
  ASSUME Slot!SlotAssumption, SlotInv, NEW n \in Note,
         \/ Slot!Complete(n) \/ Slot!Schedule(n)
  PROVE  SlotInv'
<1>1. CASE Slot!Complete(n)
  <2>1. SlotTypes'
    BY <1>1, SlotMoves DEF Slot!Complete, Slot!steerVars, Slot!history, Slot!Actor, SlotInv,
       SlotTypes
  <2>2. HolderInv' /\ ActiveInv' /\ ChainInv'
    BY <1>1, SlotMoves DEF Slot!Complete, Slot!steerVars, Slot!history, Slot!SlotAssumption,
       Slot!Actor, SlotInv, SlotTypes, HolderInv, ActiveInv, ChainInv, Slot!Working, Held
  <2>3. InputInv' /\ SteerInv'
    BY <1>1, SlotMoves DEF Slot!Complete, Slot!steerVars, Slot!history, Slot!SlotAssumption,
       Slot!Actor, SlotInv, SlotTypes, HolderInv, ActiveInv, InputInv, SteerInv, Held
  <2> QED
    BY <2>1, <2>2, <2>3 DEF SlotInv
<1>2. CASE Slot!Schedule(n)
  <2>1. SlotTypes'
    BY <1>2, SlotMoves DEF Slot!Schedule, Slot!steerVars, Slot!history, Slot!Claims,
       Slot!StartChain, Slot!Actor, SlotInv, SlotTypes
  <2>2. HolderInv' /\ ActiveInv' /\ ChainInv'
    BY <1>2, SlotMoves DEF Slot!Schedule, Slot!steerVars, Slot!history, Slot!Claims,
       Slot!StartChain, Slot!SlotAssumption, Slot!Actor, SlotInv, SlotTypes, HolderInv,
       ActiveInv, ChainInv, Slot!Working, Held
  <2>3. InputInv' /\ SteerInv'
    BY <1>2, SlotMoves DEF Slot!Schedule, Slot!steerVars, Slot!history, Slot!Claims,
       Slot!StartChain, Slot!SlotAssumption, Slot!Actor, SlotInv, SlotTypes, HolderInv,
       ActiveInv, InputInv, SteerInv, Held
  <2> QED
    BY <2>1, <2>2, <2>3 DEF SlotInv
<1> QED
  BY <1>1, <1>2

\* The turn slot (runtime.go Run, runAutomationTurn, drainWakeNotifications): the
\* invariant that the three properties below rest on, for any clients, firings,
\* wake chains and notifications.
THEOREM SlotInvariance == ASSUME Slot!SlotAssumption PROVE Slot!Spec => []SlotInv
<1>1. Slot!Init => SlotInv
  BY DEF Slot!Init, Slot!SlotAssumption, Slot!Actor, SlotInv, SlotTypes, HolderInv, ActiveInv,
     InputInv, SteerInv, ChainInv, Slot!Working, Held
<1>2. SlotInv /\ [Slot!Next]_(Slot!vars) => SlotInv'
  <2> SUFFICES ASSUME SlotInv, [Slot!Next]_(Slot!vars) PROVE SlotInv'
    OBVIOUS
  <2>1. CASE UNCHANGED Slot!vars
    BY <2>1 DEF Slot!vars, Slot!steerVars, Slot!wakeVars, Slot!history, SlotInv, SlotTypes,
       HolderInv, ActiveInv, InputInv, SteerInv, ChainInv, Slot!Working
  <2>2. CASE Slot!Next
    BY <2>2, SlotClient, SlotAutomation, SlotWake, SlotTurn, SlotNote DEF Slot!Next,
       Slot!ClientStep, Slot!AutomationStep, Slot!WakeStep
  <2> QED
    BY <2>1, <2>2
<1> QED
  BY <1>1, <1>2, PTL DEF Slot!Spec

\* The session turn mutex serializes the turns: one model loop at a time, whoever
\* starts it (client prompt, automation firing or wake).
THEOREM TurnsSerialize == ASSUME Slot!SlotAssumption PROVE Slot!Spec => []Slot!OneTurn
<1>1. SlotInv => Slot!OneTurn
  BY DEF SlotInv, HolderInv, Held, Slot!OneTurn, Slot!InLoop
<1> QED
  BY <1>1, SlotInvariance, PTL

\* Steering stays in its turn (steerqueue.go CancelAll): an input enqueued while a
\* turn was marked active reaches that turn or none, though inputs arrive between
\* CancelAll's read of the highest ticket and its cut.
THEOREM SteeringStays == ASSUME Slot!SlotAssumption PROVE Slot!Spec => []Slot!SteeringStaysInTurn
<1>1. SlotInv => Slot!SteeringStaysInTurn
  BY DEF SlotInv, SteerInv, Slot!SteeringStaysInTurn
<1> QED
  BY <1>1, SlotInvariance, PTL

\* The wake chain's in-flight flag (scheduleWakeDrain): at most one chain works on
\* the session, though it restarts itself after it cleared the flag.
THEOREM WakeChainAlone == ASSUME Slot!SlotAssumption PROVE Slot!Spec => []Slot!OneWakeChain
<1>1. SlotInv => Slot!OneWakeChain
  BY DEF SlotInv, ChainInv, Slot!OneWakeChain
<1> QED
  BY <1>1, SlotInvariance, PTL

(***************************************************************************)
(* Slash commands: an expansion resolves against a current catalog, or one *)
(* that a refresh on its way makes current, unless a change was let go by. *)
(***************************************************************************)
DriverFields == {"pc", "key", "scan", "ad", "won", "seen", "outcome"}

CommandTypes ==
  /\ DOMAIN files = Name /\ DOMAIN driver = Commands!Driver
  /\ \A x \in Commands!Driver : DOMAIN driver[x] = DriverFields
  /\ stamp \in Nat /\ signature \in Nat /\ signature <= stamp

\* A prompt under way has seen who would answer it now.
SeenInv ==
  \A p \in Prompt : driver[p].pc \notin {"idle", "done"} =>
    driver[p].key \in Commands!Key /\ Commands!Winner(files, driver[p].key) \in driver[p].seen

\* The watcher has an event or is looking, or a change was let go by.
Excused == debounce \/ missed \/ Commands!Rescanning("watch")
Live == registry = files /\ chain = Commands!BuildChain(files)

\* An edit behind a walk is one the watcher heard of, or one let go by.
TornInv == torn => debounce \/ missed

\* Unless an edit fell behind them, every rescan under way holds what is on disk.
WalkInv ==
  ~torn => \A x \in Commands!Driver :
             /\ driver[x].pc = "swap" => driver[x].scan = files
             /\ driver[x].pc = "build" => registry = files
             /\ driver[x].pc \in {"notify", "emit", "note"} => Live

\* A signature that matches the roots vouches for the chain and the registry.
SignatureInv == signature = stamp => Live \/ Excused

\* A prompt that goes on to resolve finds what is on disk, or a rescan is about to
\* swap it in.
ResolveInv ==
  \A p \in Prompt : driver[p].pc = "resolve" /\ driver[p].outcome # "failed" =>
    Commands!Current(p) \/ Excused \/ \E y \in Commands!Driver : Commands!Walked(y)

CommandInv == CommandTypes /\ SeenInv /\ TornInv /\ WalkInv /\ SignatureInv /\ ResolveInv

\* One driver moves.
LEMMA DriverMoves ==
  ASSUME CommandInv, NEW x \in Commands!Driver, NEW q, DOMAIN q = DriverFields,
         driver' = [driver EXCEPT ![x] = q]
  PROVE  /\ driver'[x] = q /\ \A y \in Commands!Driver \ {x} : driver'[y] = driver[y]
         /\ DOMAIN driver' = Commands!Driver
         /\ \A y \in Commands!Driver : DOMAIN driver'[y] = DriverFields
  BY DEF CommandInv, CommandTypes

\* A driver under way moves and keeps its invocation: the prompts have seen what
\* they had seen.
LEMMA SeenStays ==
  ASSUME CommandInv, NEW x \in Commands!Driver, NEW q, DOMAIN q = DriverFields,
         driver' = [driver EXCEPT ![x] = q], files' = files,
         driver[x].pc \notin {"idle", "done"}, q.key = driver[x].key /\ q.seen = driver[x].seen
  PROVE  SeenInv'
<1>1. \A p \in Prompt : driver'[p] = IF p = x THEN q ELSE driver[p]
  BY DriverMoves DEF Commands!Driver
<1> QED
  BY <1>1 DEF CommandInv, SeenInv

\* With the registry and the chain those of the disk, an invocation is answered by
\* the winner on disk, or left as text when that is none to expand.
LEMMA LiveAnswer ==
  ASSUME NEW fs, NEW k \in Commands!Key, NEW won, won = Commands!Winner(fs, k)
  PROVE  (IF won = "authored" \/ (won \in {"skill", "file"} /\ Commands!LookupCommand(fs, k, won))
          THEN won ELSE Commands!None) = Commands!Expandable(won)
<1>1. won \in {"skill", "file"} => k \in Name /\ won \in fs[k]
  BY DEF Commands!Winner, Commands!Key, Commands!Reserved, Commands!None
<1> QED
  BY <1>1 DEF Commands!LookupCommand, Commands!Expandable

\* After a step that leaves the chain and the registry those of the disk, every
\* prompt that goes on to resolve finds what it has seen.
LEMMA LiveCurrent ==
  ASSUME SeenInv', Live', NEW p \in Prompt, driver'[p].pc = "resolve"
  PROVE  Commands!Current(p)'
<1> DEFINE k == driver'[p].key
<1>1. k \in Commands!Key /\ Commands!Winner(files', k) \in driver'[p].seen
  BY DEF SeenInv
<1>2. registry' = files' /\ chain'[k] = Commands!Winner(files', k)
  BY <1>1 DEF Live, Commands!BuildChain
<1>3. Commands!Answer(p)' = Commands!Expandable(Commands!Winner(files', k))
  BY <1>1, <1>2, LiveAnswer DEF Commands!Answer
<1> QED
  BY <1>1, <1>3 DEF Commands!Current

\* What a prompt finds does not change while nothing it looks at does.
LEMMA CurrentStays ==
  ASSUME NEW p \in Prompt, driver'[p].key = driver[p].key, driver[p].seen \subseteq driver'[p].seen,
         UNCHANGED <<registry, chain>>, Commands!Current(p)
  PROVE  Commands!Current(p)'
<1>1. Commands!Answer(p)' = Commands!Answer(p)
  BY DEF Commands!Answer
<1> QED
  BY <1>1 DEF Commands!Current

\* The roots change: the probe's stamp moves, the watcher hears of it, or it is let
\* go by; and the prompts under way see the change.
LEMMA CommandEdit ==
  ASSUME CommandInv, NEW n \in Name, NEW k, NEW moves, NEW noticed, Commands!Edit(n, k, moves, noticed)
  PROVE  CommandInv'
<1>1. /\ DOMAIN files' = Name /\ stamp' = IF moves THEN stamp + 1 ELSE stamp
      /\ UNCHANGED <<registry, chain, signature>>
      /\ DOMAIN driver' = Commands!Driver
      /\ \A x \in Commands!Driver :
           driver'[x] = IF Commands!Active(x)
                        THEN [driver[x] EXCEPT !.seen = driver[x].seen \union {Commands!Winner(files', driver[x].key)}]
                        ELSE driver[x]
  BY DEF CommandInv, CommandTypes, Commands!Edit
<1>2. \A x \in Commands!Driver :
        /\ DOMAIN driver'[x] = DriverFields
        /\ driver'[x].pc = driver[x].pc /\ driver'[x].key = driver[x].key
        /\ driver'[x].outcome = driver[x].outcome
        /\ driver[x].seen \subseteq driver'[x].seen
        /\ Commands!Active(x) => Commands!Winner(files', driver[x].key) \in driver'[x].seen
  BY <1>1 DEF CommandInv, CommandTypes, DriverFields
<1>3. /\ debounce \/ noticed => debounce'
      /\ torn \/ (\E x \in Commands!Driver : Commands!Walked(x)) => torn'
      /\ torn' => torn \/ \E x \in Commands!Driver : Commands!Walked(x)
      /\ missed \/ (~noticed /\ (~moves \/ \E x \in Commands!Driver : Commands!Walked(x))) => missed'
  BY DEF Commands!Edit
<1>4. Commands!Rescanning("watch")' = Commands!Rescanning("watch")
  BY <1>2 DEF Commands!Rescanning, Commands!Walked, Commands!Driver
<1>5. CommandTypes'
  <2>1. stamp' \in Nat /\ signature' \in Nat /\ signature' <= stamp'
    BY <1>1 DEF CommandInv, CommandTypes
  <2> QED
    BY <1>1, <1>2, <2>1 DEF CommandTypes
<1>6. SeenInv'
  BY <1>1, <1>2 DEF CommandInv, SeenInv, Commands!Active, Commands!Driver
<1>7. TornInv'
  BY <1>3 DEF CommandInv, TornInv
<1>8. WalkInv'
  <2>1. ASSUME ~torn', NEW x \in Commands!Driver PROVE driver'[x].pc \notin {"swap", "build", "notify", "emit", "note"}
    BY <1>2, <1>3, <2>1 DEF Commands!Walked
  <2> QED
    BY <2>1 DEF WalkInv
<1>9. SignatureInv'
  <2>1. CASE moves
    <3>1. signature' # stamp'
      BY <1>1, <2>1 DEF CommandInv, CommandTypes
    <3> QED
      BY <3>1 DEF SignatureInv
  <2>2. CASE ~moves
    <3>1. debounce' \/ missed'
      BY <1>3, <2>2
    <3> QED
      BY <3>1 DEF SignatureInv, Excused
  <2> QED
    BY <2>1, <2>2
<1>10. ResolveInv'
  <2> SUFFICES ASSUME NEW p \in Prompt, driver'[p].pc = "resolve", driver'[p].outcome # "failed"
               PROVE  \/ Commands!Current(p)' \/ Excused'
                      \/ (\E y \in Commands!Driver : Commands!Walked(y))'
    BY DEF ResolveInv
  <2>1. driver[p].pc = "resolve" /\ driver[p].outcome # "failed" /\ p \in Commands!Driver
    BY <1>2 DEF Commands!Driver
  <2>2. CASE Commands!Current(p)
    BY <1>1, <1>2, <2>1, <2>2, CurrentStays
  <2>3. CASE Excused
    BY <1>3, <1>4, <2>3 DEF Excused
  <2>4. CASE \E y \in Commands!Driver : Commands!Walked(y)
    BY <1>2, <2>4 DEF Commands!Walked
  <2> QED
    BY <2>1, <2>2, <2>3, <2>4 DEF CommandInv, ResolveInv
<1> QED
  BY <1>5, <1>6, <1>7, <1>8, <1>9, <1>10 DEF CommandInv

\* A rescan begins: by the watcher, which uses its event up, or by a prompt whose
\* probe found the roots changed.
LEMMA CommandBegin ==
  ASSUME CommandInv, NEW x \in Commands!Driver, NEW q, DOMAIN q = DriverFields, q.pc = "scan",
         ~Commands!Rescanning(x), Commands!Begin(x, q), SeenInv',
         UNCHANGED <<files, stamp, registry, chain, signature>>, x = "watch" \/ debounce' = debounce
  PROVE  CommandInv'
<1>1. /\ driver'[x] = q /\ \A y \in Commands!Driver \ {x} : driver'[y] = driver[y]
      /\ DOMAIN driver' = Commands!Driver
      /\ \A y \in Commands!Driver : DOMAIN driver'[y] = DriverFields
  BY DriverMoves DEF Commands!Begin
<1>2. /\ torn /\ (\E y \in Commands!Driver \ {x} : Commands!Rescanning(y)) => torn'
      /\ torn' => missed'
      /\ missed => missed'
  BY DEF Commands!Begin
<1>3. Excused => Excused'
  BY <1>1, <1>2 DEF Excused, Commands!Rescanning, Commands!Walked, Commands!Driver
<1>4. CommandTypes'
  BY <1>1 DEF CommandInv, CommandTypes
<1>5. TornInv'
  BY <1>2 DEF TornInv
<1>6. WalkInv'
  <2>1. CASE torn
    <3>1. ASSUME ~torn', NEW y \in Commands!Driver \ {x}
          PROVE  driver'[y].pc \notin {"swap", "build", "notify", "emit", "note"}
      BY <1>1, <1>2, <2>1, <3>1 DEF Commands!Rescanning, Commands!Walked
    <3> QED
      BY <1>1, <3>1 DEF WalkInv
  <2>2. CASE ~torn
    BY <1>1, <2>2 DEF CommandInv, WalkInv, Live
  <2> QED
    BY <2>1, <2>2
<1>7. SignatureInv'
  BY <1>3 DEF CommandInv, SignatureInv, Live
<1>8. ResolveInv'
  <2> SUFFICES ASSUME NEW p \in Prompt, driver'[p].pc = "resolve", driver'[p].outcome # "failed"
               PROVE  \/ Commands!Current(p)' \/ Excused'
                      \/ (\E y \in Commands!Driver : Commands!Walked(y))'
    BY DEF ResolveInv
  <2>1. driver'[p] = driver[p]
    BY <1>1 DEF Commands!Driver
  <2>2. CASE Commands!Current(p)
    BY <2>1, <2>2, CurrentStays
  <2>3. CASE \E y \in Commands!Driver : Commands!Walked(y)
    BY <1>1, <2>3 DEF Commands!Walked, Commands!Rescanning
  <2> QED
    BY <1>3, <2>1, <2>2, <2>3 DEF CommandInv, ResolveInv
<1> QED
  BY <1>4, <1>5, <1>6, <1>7, <1>8 DEF CommandInv

\* The watcher's debounce timer fires.
LEMMA CommandWatch ==
  ASSUME Commands!ReservedAssumption, CommandInv, Commands!WatchFires
  PROVE  CommandInv'
<1> DEFINE q == [Commands!Idle EXCEPT !.pc = "scan"]
<1>1. /\ driver["watch"].pc = "idle" /\ Commands!Begin("watch", q)
      /\ UNCHANGED <<files, stamp, registry, chain, signature>>
  BY DEF Commands!WatchFires, Commands!Quiet
<1>2. DOMAIN q = DriverFields /\ q.pc = "scan"
  BY DEF Commands!Idle, DriverFields
<1> HIDE DEF q
<1>3. \A p \in Prompt : driver'[p] = driver[p]
  BY <1>1, <1>2, DriverMoves DEF Commands!Begin, Commands!Driver, Commands!ReservedAssumption
<1>4. SeenInv'
  BY <1>1, <1>3 DEF CommandInv, SeenInv
<1> QED
  BY <1>1, <1>2, <1>4, CommandBegin DEF Commands!Rescanning, Commands!Walked, Commands!Driver

\* Where a rescan's step leads, and what it leaves of the catalog.
RescanMove(x, q) ==
  \/ driver[x].pc = "scan" /\ q.pc = "swap" /\ q.scan = files
     /\ UNCHANGED <<registry, chain, signature, missed>>
  \/ driver[x].pc = "scan" /\ q.pc = "idle" /\ missed'
     /\ UNCHANGED <<registry, chain, signature>>
  \/ driver[x].pc = "scan" /\ q.pc = "resolve" /\ q.outcome = "failed" /\ x # "watch"
     /\ UNCHANGED <<registry, chain, signature, missed>>
  \/ driver[x].pc = "swap" /\ q.pc = "build" /\ registry' = driver[x].scan
     /\ UNCHANGED <<chain, signature, missed>>
  \/ driver[x].pc = "build" /\ q.pc = "notify" /\ chain' = Commands!BuildChain(registry)
     /\ UNCHANGED <<registry, signature, missed>>
  \/ driver[x].pc = "notify" /\ q.pc = "emit" /\ UNCHANGED <<registry, chain, signature, missed>>
  \/ driver[x].pc = "emit" /\ q.pc = "note" /\ UNCHANGED <<registry, chain, signature, missed>>
  \/ driver[x].pc = "note" /\ q.pc \in {"idle", "resolve"} /\ signature' = stamp
     /\ (missed /\ torn => missed')
     /\ UNCHANGED <<registry, chain>>

LEMMA RescanMoves ==
  ASSUME CommandInv, NEW x \in Commands!Driver, Commands!RescanStep(x)
  PROVE  \E q : /\ driver' = [driver EXCEPT ![x] = q] /\ DOMAIN q = DriverFields
                /\ q.key = driver[x].key /\ q.seen = driver[x].seen
                /\ RescanMove(x, q)
<1>0. DOMAIN driver[x] = DriverFields /\ x \in DOMAIN driver
  BY DEF CommandInv, CommandTypes
<1>1. CASE Commands!Rediscover(x)
  <2>1. CASE driver' = [driver EXCEPT ![x].scan = files, ![x].pc = "swap"] /\ UNCHANGED missed
    <3> WITNESS [driver[x] EXCEPT !.scan = files, !.pc = "swap"]
    <3>1. driver' = [driver EXCEPT ![x] = [driver[x] EXCEPT !.scan = files, !.pc = "swap"]]
      BY <1>0, <2>1
    <3> QED
      BY <1>0, <1>1, <2>1, <3>1 DEF DriverFields, Commands!Rediscover, RescanMove
  <2>2. CASE x = "watch" /\ Commands!To(x, "idle") /\ missed' = TRUE
    <3> WITNESS [driver[x] EXCEPT !.pc = "idle"]
    <3>1. driver' = [driver EXCEPT ![x] = [driver[x] EXCEPT !.pc = "idle"]]
      BY <2>2 DEF Commands!To
    <3> QED
      BY <1>0, <1>1, <2>2, <3>1 DEF DriverFields, Commands!Rediscover, RescanMove
  <2>3. CASE x # "watch" /\ driver' = [driver EXCEPT ![x].pc = "resolve", ![x].outcome = "failed"]
             /\ UNCHANGED missed
    <3> WITNESS [driver[x] EXCEPT !.pc = "resolve", !.outcome = "failed"]
    <3>1. driver' = [driver EXCEPT ![x] = [driver[x] EXCEPT !.pc = "resolve", !.outcome = "failed"]]
      BY <1>0, <2>3
    <3> QED
      BY <1>0, <1>1, <2>3, <3>1 DEF DriverFields, Commands!Rediscover, RescanMove
  <2> QED
    BY <1>1, <2>1, <2>2, <2>3 DEF Commands!Rediscover
<1>2. CASE Commands!Notify(x)
  <2> DEFINE ad == Commands!Advertisement(chain)
  <2> WITNESS [driver[x] EXCEPT !.ad = ad, !.pc = "emit"]
  <2>1. driver' = [driver EXCEPT ![x] = [driver[x] EXCEPT !.ad = ad, !.pc = "emit"]]
    BY <1>0, <1>2 DEF Commands!Notify
  <2> HIDE DEF ad
  <2> QED
    BY <1>0, <1>2, <2>1 DEF DriverFields, Commands!Notify, RescanMove
<1>3. CASE Commands!Swap(x) \/ Commands!RebuildChain(x) \/ Commands!Emit(x) \/ Commands!NoteChainSignature(x)
  <2>1. PICK t : Commands!To(x, t)
                 /\ (Commands!Swap(x) => t = "build") /\ (Commands!RebuildChain(x) => t = "notify")
                 /\ (Commands!Emit(x) => t = "note")
                 /\ (Commands!NoteChainSignature(x) => t \in {"idle", "resolve"})
    BY <1>3 DEF Commands!Swap, Commands!RebuildChain, Commands!Emit, Commands!NoteChainSignature
  <2> WITNESS [driver[x] EXCEPT !.pc = t]
  <2>2. driver' = [driver EXCEPT ![x] = [driver[x] EXCEPT !.pc = t]]
    BY <2>1 DEF Commands!To
  <2>3. CASE Commands!NoteChainSignature(x)
    <3>1. missed /\ torn => missed'
      BY <2>3 DEF Commands!NoteChainSignature
    <3> QED
      BY <1>0, <2>1, <2>2, <2>3, <3>1 DEF DriverFields, Commands!NoteChainSignature, RescanMove
  <2> QED
    BY <1>0, <1>3, <2>1, <2>2, <2>3 DEF DriverFields, Commands!Swap, Commands!RebuildChain, Commands!Emit,
       RescanMove
<1> QED
  BY <1>1, <1>2, <1>3 DEF Commands!RescanStep

\* The steps of a rescan.
LEMMA CommandRescan ==
  ASSUME Commands!ReservedAssumption, CommandInv, NEW x \in Commands!Driver, Commands!RescanStep(x)
  PROVE  CommandInv'
<1>1. PICK q : /\ driver' = [driver EXCEPT ![x] = q] /\ DOMAIN q = DriverFields
               /\ q.key = driver[x].key /\ q.seen = driver[x].seen
               /\ RescanMove(x, q)
  BY RescanMoves
<1>2. UNCHANGED <<files, stamp, debounce, torn>>
  BY DEF Commands!RescanStep, Commands!Rediscover, Commands!Swap, Commands!RebuildChain,
     Commands!Notify, Commands!Emit, Commands!NoteChainSignature, Commands!Quiet
<1>3. /\ driver'[x] = q /\ \A y \in Commands!Driver \ {x} : driver'[y] = driver[y]
      /\ DOMAIN driver' = Commands!Driver
      /\ \A y \in Commands!Driver : DOMAIN driver'[y] = DriverFields
  BY <1>1, DriverMoves
<1>4. CommandTypes'
  BY <1>1, <1>2, <1>3 DEF CommandInv, CommandTypes, RescanMove
<1>5. SeenInv'
  BY <1>1, <1>2, SeenStays DEF RescanMove
<1>6. TornInv'
  BY <1>1, <1>2 DEF CommandInv, TornInv, RescanMove
<1>7. WalkInv'
  <2> SUFFICES ASSUME ~torn, NEW y \in Commands!Driver
               PROVE  /\ driver'[y].pc = "swap" => driver'[y].scan = files
                      /\ driver'[y].pc = "build" => registry' = files
                      /\ driver'[y].pc \in {"notify", "emit", "note"} =>
                           registry' = files /\ chain' = Commands!BuildChain(files)
    BY <1>2 DEF WalkInv, Live
  <2>1. \A z \in {x, y} : /\ driver[z].pc = "swap" => driver[z].scan = files
                          /\ driver[z].pc = "build" => registry = files
                          /\ driver[z].pc \in {"notify", "emit", "note"} =>
                               registry = files /\ chain = Commands!BuildChain(files)
    BY DEF CommandInv, WalkInv, Live
  <2> QED
    BY <1>1, <1>3, <2>1 DEF RescanMove
<1>8. CASE driver[x].pc = "note"
  <2>1. CASE torn
    <3>1. debounce' \/ missed'
      BY <1>1, <1>2, <1>8, <2>1 DEF CommandInv, TornInv, RescanMove
    <3> QED
      BY <1>4, <1>5, <1>6, <1>7, <3>1 DEF CommandInv, SignatureInv, ResolveInv, Excused
  <2>2. CASE ~torn
    <3>1. Live'
      BY <1>1, <1>2, <1>8, <2>2 DEF CommandInv, WalkInv, Live, RescanMove
    <3> QED
      BY <1>4, <1>5, <1>6, <1>7, <3>1, LiveCurrent DEF CommandInv, SignatureInv, ResolveInv
  <2> QED
    BY <2>1, <2>2
<1>9. CASE driver[x].pc # "note"
  <2>1. missed => missed'
    BY <1>1, <1>9 DEF RescanMove
  <2>2. Commands!Rescanning("watch") => Commands!Rescanning("watch")' \/ missed'
    BY <1>1, <1>3, <1>9 DEF RescanMove, Commands!Rescanning, Commands!Walked, Commands!Driver
  <2>3. Excused => Excused'
    BY <1>2, <2>1, <2>2 DEF Excused
  <2>4. SignatureInv'
    <3> SUFFICES ASSUME signature' = stamp' PROVE Live' \/ Excused'
      BY DEF SignatureInv
    <3>1. CASE Excused
      BY <2>3, <3>1
    <3>2. CASE Live /\ driver[x].pc # "swap"
      BY <1>1, <1>2, <1>9, <3>2 DEF Live, RescanMove
    <3>3. CASE Live /\ driver[x].pc = "swap" /\ torn
      BY <1>2, <2>3, <3>3 DEF CommandInv, TornInv, Excused
    <3>4. CASE Live /\ driver[x].pc = "swap" /\ ~torn
      BY <1>1, <1>2, <1>9, <3>4 DEF CommandInv, WalkInv, Live, RescanMove
    <3>5. Live \/ Excused
      BY <1>1, <1>2, <1>9 DEF CommandInv, SignatureInv, RescanMove
    <3> QED
      BY <3>1, <3>2, <3>3, <3>4, <3>5
  <2>5. ResolveInv'
    <3> SUFFICES ASSUME NEW p \in Prompt, driver'[p].pc = "resolve", driver'[p].outcome # "failed"
                 PROVE  \/ Commands!Current(p)' \/ Excused'
                        \/ (\E y \in Commands!Driver : Commands!Walked(y))'
      BY DEF ResolveInv
    <3>1. driver'[p] = driver[p] /\ p \in Commands!Driver
      BY <1>1, <1>3, <1>9 DEF RescanMove, Commands!Driver
    <3>2. CASE driver[x].pc = "scan"
      <4>1. UNCHANGED <<registry, chain>>
        BY <1>1, <3>2 DEF RescanMove
      <4>2. CASE Commands!Current(p)
        BY <3>1, <4>1, <4>2, CurrentStays
      <4>3. CASE \E y \in Commands!Driver : Commands!Walked(y)
        <5>1. PICK y \in Commands!Driver : Commands!Walked(y)
          BY <4>3
        <5>2. driver'[y] = driver[y]
          BY <1>3, <3>2, <5>1 DEF Commands!Walked
        <5> QED
          BY <5>1, <5>2 DEF Commands!Walked
      <4> QED
        BY <2>3, <3>1, <4>2, <4>3 DEF CommandInv, ResolveInv
    <3>3. CASE driver[x].pc # "scan"
      <4>1. Commands!Walked(x)'
        BY <1>1, <1>3, <1>9, <3>3 DEF RescanMove, Commands!Walked
      <4> QED
        BY <4>1
    <3> QED
      BY <3>2, <3>3
  <2> QED
    BY <1>4, <1>5, <1>6, <1>7, <2>4, <2>5 DEF CommandInv
<1> QED
  BY <1>8, <1>9

\* A prompt moves outside any rescan; one that goes on to resolve has seen the
\* roots match the signature.
LEMMA PromptMoves ==
  ASSUME Commands!ReservedAssumption, CommandInv, NEW p \in Prompt, NEW q, DOMAIN q = DriverFields,
         driver' = [driver EXCEPT ![p] = q], ~Commands!Walked(p),
         q.pc \notin {"scan", "swap", "build", "notify", "emit", "note"},
         q.pc = "resolve" => Commands!DiscoveryFresh, SeenInv',
         UNCHANGED <<files, stamp, registry, chain, signature, debounce, torn, missed>>
  PROVE  CommandInv'
<1>1. /\ driver'[p] = q /\ \A y \in Commands!Driver \ {p} : driver'[y] = driver[y]
      /\ DOMAIN driver' = Commands!Driver
      /\ \A y \in Commands!Driver : DOMAIN driver'[y] = DriverFields
  BY DriverMoves DEF Commands!Driver
<1>2. Excused => Excused'
  BY <1>1 DEF Excused, Commands!Rescanning, Commands!Walked, Commands!Driver, Commands!ReservedAssumption
<1>3. CommandTypes'
  BY <1>1 DEF CommandInv, CommandTypes
<1>4. TornInv' /\ WalkInv'
  BY <1>1 DEF CommandInv, TornInv, WalkInv, Live
<1>5. SignatureInv'
  BY <1>2 DEF CommandInv, SignatureInv, Live
<1>6. ResolveInv'
  <2> SUFFICES ASSUME NEW r \in Prompt, driver'[r].pc = "resolve", driver'[r].outcome # "failed"
               PROVE  \/ Commands!Current(r)' \/ Excused'
                      \/ (\E y \in Commands!Driver : Commands!Walked(y))'
    BY DEF ResolveInv
  <2>1. CASE r = p
    <3>1. Live' \/ Excused'
      BY <1>1, <1>2, <2>1 DEF CommandInv, SignatureInv, Live, Commands!DiscoveryFresh
    <3> QED
      BY <3>1, LiveCurrent
  <2>2. CASE r # p
    <3>1. driver'[r] = driver[r]
      BY <1>1, <2>2 DEF Commands!Driver
    <3>2. CASE Commands!Current(r)
      BY <3>1, <3>2, CurrentStays
    <3>3. CASE \E y \in Commands!Driver : Commands!Walked(y)
      BY <1>1, <3>3 DEF Commands!Walked
    <3> QED
      BY <1>2, <3>1, <3>2, <3>3 DEF CommandInv, ResolveInv
  <2> QED
    BY <2>1, <2>2
<1> QED
  BY <1>3, <1>4, <1>5, <1>6 DEF CommandInv

\* A prompt parses as an invocation.
LEMMA CommandInvoke ==
  ASSUME Commands!ReservedAssumption, CommandInv, NEW p \in Prompt, NEW k \in Commands!Key,
         Commands!Invoke(p, k)
  PROVE  CommandInv'
<1> DEFINE q == [Commands!Idle EXCEPT !.pc = "local", !.key = k, !.seen = {Commands!Winner(files, k)}]
<1>1. /\ driver[p].pc = "idle" /\ driver' = [driver EXCEPT ![p] = q]
      /\ UNCHANGED <<files, stamp, registry, chain, signature, debounce, torn, missed>>
  BY DEF Commands!Invoke, Commands!Quiet
<1>2. /\ DOMAIN q = DriverFields /\ q.pc = "local" /\ q.key = k
      /\ q.seen = {Commands!Winner(files, k)}
  BY DEF Commands!Idle, DriverFields
<1> HIDE DEF q
<1>3. \A r \in Prompt : driver'[r] = IF r = p THEN q ELSE driver[r]
  BY <1>1, <1>2, DriverMoves DEF Commands!Driver
<1>4. SeenInv'
  BY <1>1, <1>2, <1>3 DEF CommandInv, SeenInv
<1> QED
  BY <1>1, <1>2, <1>4, PromptMoves DEF Commands!Walked

\* What a handler answers, and what it leaves in the transcript: a line of its own
\* only when it succeeded.
LEMMA HandlerAnswers ==
  ASSUME NEW p \in Prompt, Commands!RunBuiltinHandler(p) \/ Commands!DispatchAgentSlash(p)
  PROVE  \E o \in {"ok", "failed"} :
           /\ Commands!Answers(p, o)
           /\ log' = IF driver[p].won = "builtin" /\ o = "ok" /\ driver[p].key = "clear"
                     THEN [log EXCEPT ![p] = Append(@, "boundary")]
                     ELSE IF driver[p].won = "builtin" /\ o = "ok" /\ driver[p].key = "compact"
                     THEN [log EXCEPT ![p] = Append(@, "compaction")] ELSE log
<1>1. CASE Commands!DispatchAgentSlash(p)
  BY <1>1 DEF Commands!DispatchAgentSlash
<1>2. CASE Commands!RunBuiltinHandler(p)
  <2>1. CASE Commands!Answers(p, "failed") /\ UNCHANGED log
    BY <2>1
  <2>2. ASSUME NEW default, Commands!Handler(p, default)
        PROVE  \/ Commands!Answers(p, "failed") /\ UNCHANGED log
               \/ Commands!Answers(p, "ok") /\ driver[p].key \notin {"clear", "compact"} /\ UNCHANGED log
               \/ Commands!Answers(p, "ok") /\ driver[p].key = "clear"
                    /\ log' = [log EXCEPT ![p] = Append(@, "boundary")]
               \/ Commands!Answers(p, "ok") /\ driver[p].key = "compact"
                    /\ log' = [log EXCEPT ![p] = Append(@, "compaction")]
    BY <2>2 DEF Commands!Handler, Commands!BuiltinStatus, Commands!BuiltinModel, Commands!BuiltinClear,
       Commands!BuiltinCompact, Commands!BuiltinCost, Commands!BuiltinReports
  <2>3. driver[p].won = "builtin"
    BY <1>2 DEF Commands!RunBuiltinHandler
  <2> QED
    BY <1>2, <2>1, <2>2, <2>3 DEF Commands!RunBuiltinHandler
<1> QED
  BY <1>1, <1>2

\* A command answered locally, and a probe that finds the roots unchanged.
LEMMA CommandLocal ==
  ASSUME Commands!ReservedAssumption, CommandInv, NEW p \in Prompt,
         \/ Commands!TryLocalCommand(p) \/ Commands!RunBuiltinHandler(p) \/ Commands!DispatchAgentSlash(p)
         \/ \E ok \in BOOLEAN : Commands!LocalOutput(p, ok)
         \/ Commands!MaybeFreshRescan(p) /\ Commands!DiscoveryFresh
  PROVE  CommandInv'
<1>0. DOMAIN driver[p] = DriverFields /\ p \in Commands!Driver
  BY DEF CommandInv, CommandTypes, Commands!Driver
<1>1. PICK q :
        /\ driver' = [driver EXCEPT ![p] = q] /\ DOMAIN q = DriverFields
        /\ q.key = driver[p].key /\ q.seen = driver[p].seen
        /\ q.pc \in {"handler", "probe", "output", "done", "resolve"}
        /\ q.pc = "resolve" => Commands!DiscoveryFresh
  <2>1. CASE \E t \in {"handler", "probe", "output", "done", "resolve"} :
               Commands!To(p, t) /\ (t = "resolve" => Commands!DiscoveryFresh)
    <3>1. PICK t \in {"handler", "probe", "output", "done", "resolve"} :
            Commands!To(p, t) /\ (t = "resolve" => Commands!DiscoveryFresh)
      BY <2>1
    <3> WITNESS [driver[p] EXCEPT !.pc = t]
    <3>2. driver' = [driver EXCEPT ![p] = [driver[p] EXCEPT !.pc = t]]
      BY <3>1 DEF Commands!To
    <3> QED
      BY <1>0, <3>1, <3>2 DEF DriverFields
  <2>2. CASE \E w : driver' = [driver EXCEPT ![p].pc = "handler", ![p].won = w]
    <3>1. PICK w : driver' = [driver EXCEPT ![p].pc = "handler", ![p].won = w]
      BY <2>2
    <3> WITNESS [driver[p] EXCEPT !.pc = "handler", !.won = w]
    <3>2. driver' = [driver EXCEPT ![p] = [driver[p] EXCEPT !.pc = "handler", !.won = w]]
      BY <3>1
    <3> QED
      BY <1>0, <3>2 DEF DriverFields
  <2>3. CASE \E o : driver' = [driver EXCEPT ![p].outcome = o, ![p].pc = "output"]
    <3>1. PICK o : driver' = [driver EXCEPT ![p].outcome = o, ![p].pc = "output"]
      BY <2>3
    <3> WITNESS [driver[p] EXCEPT !.outcome = o, !.pc = "output"]
    <3>2. driver' = [driver EXCEPT ![p] = [driver[p] EXCEPT !.outcome = o, !.pc = "output"]]
      BY <3>1
    <3> QED
      BY <1>0, <3>2 DEF DriverFields
  <2> QED
    BY <2>1, <2>2, <2>3, HandlerAnswers DEF Commands!TryLocalCommand, Commands!Answers,
       Commands!LocalOutput, Commands!MaybeFreshRescan
<1>2. /\ driver[p].pc \in {"local", "handler", "output", "probe"}
      /\ UNCHANGED <<files, stamp, registry, chain, signature, debounce, torn, missed>>
  BY DEF Commands!TryLocalCommand, Commands!RunBuiltinHandler, Commands!DispatchAgentSlash,
     Commands!LocalOutput, Commands!MaybeFreshRescan, Commands!Quiet
<1>3. SeenInv'
  BY <1>0, <1>1, <1>2, SeenStays
<1> QED
  BY <1>1, <1>2, <1>3, PromptMoves DEF Commands!Walked

\* A probe that finds the roots changed begins a rescan.
LEMMA CommandProbe ==
  ASSUME CommandInv, NEW p \in Prompt, Commands!MaybeFreshRescan(p), ~Commands!DiscoveryFresh
  PROVE  CommandInv'
<1> DEFINE q == [driver[p] EXCEPT !.pc = "scan"]
<1>0. DOMAIN driver[p] = DriverFields /\ p \in Commands!Driver
  BY DEF CommandInv, CommandTypes, Commands!Driver
<1>1. /\ driver[p].pc = "probe" /\ Commands!Begin(p, q)
      /\ UNCHANGED <<files, stamp, registry, chain, signature, debounce>>
  BY DEF Commands!MaybeFreshRescan, Commands!Quiet
<1>2. DOMAIN q = DriverFields /\ q.key = driver[p].key /\ q.seen = driver[p].seen /\ q.pc = "scan"
  BY <1>0 DEF DriverFields
<1> HIDE DEF q
<1>3. SeenInv'
  BY <1>0, <1>1, <1>2, SeenStays DEF Commands!Begin
<1> QED
  BY <1>0, <1>1, <1>2, <1>3, CommandBegin DEF Commands!Rescanning, Commands!Walked

\* The expansion resolves against the chain and the registry.
LEMMA CommandResolve ==
  ASSUME Commands!ReservedAssumption, CommandInv, NEW p \in Prompt, Commands!ResolveSlashCommand(p)
  PROVE  CommandInv'
<1> DEFINE ans == Commands!Answer(p)
           q == [driver[p] EXCEPT !.pc = "done", !.won = ans]
<1>0. DOMAIN driver[p] = DriverFields /\ p \in Commands!Driver
  BY DEF CommandInv, CommandTypes, Commands!Driver
<1> HIDE DEF ans
<1>1. /\ driver[p].pc = "resolve" /\ driver' = [driver EXCEPT ![p] = q]
      /\ UNCHANGED <<files, stamp, registry, chain, signature, debounce, torn, missed>>
  BY <1>0 DEF Commands!ResolveSlashCommand, Commands!Quiet, ans
<1>2. DOMAIN q = DriverFields /\ q.pc = "done" /\ q.key = driver[p].key /\ q.seen = driver[p].seen
  BY <1>0 DEF DriverFields
<1> HIDE DEF q
<1>3. SeenInv'
  BY <1>0, <1>1, <1>2, SeenStays
<1> QED
  BY <1>1, <1>2, <1>3, PromptMoves DEF Commands!Walked

\* Nothing moves.
LEMMA CommandStutter == ASSUME CommandInv, UNCHANGED Commands!vars PROVE CommandInv'
<1>1. UNCHANGED <<files, stamp, registry, chain, signature, debounce, driver, torn, missed>>
  BY DEF Commands!vars
<1> QED
  BY <1>1 DEF CommandInv, CommandTypes, SeenInv, TornInv, WalkInv, SignatureInv, ResolveInv, Live,
     Excused, Commands!Rescanning, Commands!Walked, Commands!Current, Commands!Answer

\* The invariant of the chain holds from the start on.
LEMMA CommandInvariance ==
  ASSUME Commands!ReservedAssumption PROVE Commands!Spec => []CommandInv
<1>1. Commands!Init => CommandInv
  <2> SUFFICES ASSUME Commands!Init PROVE CommandInv
    OBVIOUS
  <2>1. \A x \in Commands!Driver : driver[x] = Commands!Idle
    BY DEF Commands!Init
  <2>2. DOMAIN Commands!Idle = DriverFields /\ Commands!Idle.pc = "idle"
    BY DEF Commands!Idle, DriverFields
  <2>3. CommandTypes
    BY <2>1, <2>2 DEF Commands!Init, CommandTypes
  <2>4. SeenInv /\ WalkInv /\ ResolveInv
    BY <2>1, <2>2 DEF SeenInv, WalkInv, ResolveInv, Commands!Driver
  <2>5. TornInv /\ SignatureInv
    BY DEF Commands!Init, TornInv, SignatureInv, Live
  <2> QED
    BY <2>3, <2>4, <2>5 DEF CommandInv
<1>2. CommandInv /\ [Commands!Next]_(Commands!vars) => CommandInv'
  BY CommandEdit, CommandWatch, CommandRescan, CommandInvoke, CommandLocal, CommandProbe,
     CommandResolve, CommandStutter DEF Commands!Next, Commands!PromptStep
<1> QED
  BY <1>1, <1>2, PTL DEF Commands!Spec

\* The watcher and the invoke-time probe together (rescan.go loop, rescanAndSwap,
\* maybeFreshRescan): for any names, prompts and edits, at, beneath or inside the
\* directories the probe stats, an expansion resolves against a current catalog, or
\* a rescan is on its way, unless a change was let go by: one that raised no event
\* and moved no time the probe stats or fell behind a rescan's walk, one undone by
\* an older rescan that overlapped, or one whose walk failed; and then only until
\* the next rescan that no edit falls behind.
THEOREM StaleOnlyIfMissed ==
  ASSUME Commands!ReservedAssumption PROVE Commands!Spec => []Commands!FreshUnlessMissed
<1>1. CommandInv => Commands!FreshUnlessMissed
  <2> SUFFICES ASSUME CommandInv, NEW p \in Prompt, driver[p].pc = "resolve",
                      driver[p].outcome # "failed", ~Commands!Refreshing, ~missed
               PROVE  Commands!Current(p)
    BY DEF Commands!FreshUnlessMissed
  <2>1. ~Excused /\ ~\E y \in Commands!Driver : Commands!Walked(y)
    BY DEF Commands!Refreshing, Excused, Commands!Rescanning, Commands!Driver
  <2> QED
    BY <2>1 DEF CommandInv, ResolveInv
<1> QED
  BY <1>1, CommandInvariance, PTL

\* Where a prompt is says what its local command has written so far.
LogInv ==
  /\ DOMAIN log = Prompt
  /\ \A p \in Prompt :
       /\ driver[p].pc \notin {"handler", "output", "done"} => log[p] = <<>>
       /\ driver[p].pc = "handler" => log[p] = <<"echo">>
       /\ driver[p].pc = "output" => log[p] = <<"echo">> \o Commands!OwnLine(p)
       /\ driver[p].pc = "done" =>
            \/ log[p] = <<>>
            \/ \E final \in {"record", "unrecorded"} :
                 log[p] = <<"echo">> \o Commands!OwnLine(p) \o <<"output", final>>

\* A step that writes nothing: each prompt stays where it is, or moves among the
\* places where nothing is written yet.
LEMMA LogQuiet ==
  ASSUME LogInv, log' = log,
         \A p \in Prompt :
           \/ /\ driver'[p].pc = driver[p].pc /\ driver'[p].key = driver[p].key
              /\ driver'[p].won = driver[p].won /\ driver'[p].outcome = driver[p].outcome
           \/ driver[p].pc \notin {"handler", "output", "done"} /\ driver'[p].pc \notin {"handler", "output"}
  PROVE  LogInv'
<1> SUFFICES ASSUME NEW p \in Prompt
             PROVE  /\ driver'[p].pc \notin {"handler", "output", "done"} => log'[p] = <<>>
                    /\ driver'[p].pc = "handler" => log'[p] = <<"echo">>
                    /\ driver'[p].pc = "output" => log'[p] = <<"echo">> \o Commands!OwnLine(p)'
                    /\ driver'[p].pc = "done" =>
                         \/ log'[p] = <<>>
                         \/ \E final \in {"record", "unrecorded"} :
                              log'[p] = <<"echo">> \o Commands!OwnLine(p)' \o <<"output", final>>
  BY DEF LogInv
<1>1. CASE /\ driver'[p].pc = driver[p].pc /\ driver'[p].key = driver[p].key
           /\ driver'[p].won = driver[p].won /\ driver'[p].outcome = driver[p].outcome
  <2>1. Commands!OwnLine(p)' = Commands!OwnLine(p)
    BY <1>1 DEF Commands!OwnLine
  <2> QED
    BY <1>1, <2>1 DEF LogInv
<1>2. CASE driver[p].pc \notin {"handler", "output", "done"} /\ driver'[p].pc \notin {"handler", "output"}
  BY <1>2 DEF LogInv
<1> QED
  BY <1>1, <1>2

\* One prompt writes; the others stay as they are.
LEMMA LogMoves ==
  ASSUME CommandInv, LogInv, NEW p \in Prompt, NEW q, DOMAIN q = DriverFields,
         driver' = [driver EXCEPT ![p] = q], DOMAIN log' = Prompt,
         \A r \in Prompt \ {p} : log'[r] = log[r],
         \/ q.pc = "handler" /\ log'[p] = <<"echo">>
         \/ q.pc = "output" /\ log'[p] = <<"echo">> \o Commands!OwnLine(p)'
         \/ /\ q.pc = "done"
            /\ \E final \in {"record", "unrecorded"} :
                 log'[p] = <<"echo">> \o Commands!OwnLine(p)' \o <<"output", final>>
  PROVE  LogInv'
<1>1. driver'[p] = q /\ \A r \in Prompt \ {p} : driver'[r] = driver[r]
  BY DriverMoves DEF Commands!Driver
<1>2. \A r \in Prompt \ {p} : Commands!OwnLine(r)' = Commands!OwnLine(r)
  BY <1>1 DEF Commands!OwnLine
<1> QED
  BY <1>1, <1>2 DEF LogInv

\* The steps of a command answered locally.
LEMMA LogLocal ==
  ASSUME CommandInv, LogInv, NEW p \in Prompt,
         \/ Commands!TryLocalCommand(p) \/ Commands!RunBuiltinHandler(p) \/ Commands!DispatchAgentSlash(p)
         \/ \E ok \in BOOLEAN : Commands!LocalOutput(p, ok)
  PROVE  LogInv'
<1>0. DOMAIN driver[p] = DriverFields /\ p \in Commands!Driver
  BY DEF CommandInv, CommandTypes, Commands!Driver
<1>1. CASE Commands!TryLocalCommand(p)
  <2>1. CASE /\ log' = [log EXCEPT ![p] = Append(@, "echo")]
             /\ driver' = [driver EXCEPT ![p].pc = "handler", ![p].won = chain[driver[p].key]]
    <3> DEFINE q == [driver[p] EXCEPT !.pc = "handler", !.won = chain[driver[p].key]]
    <3>1. driver' = [driver EXCEPT ![p] = q] /\ DOMAIN q = DriverFields /\ q.pc = "handler"
      BY <1>0, <2>1 DEF DriverFields
    <3>2. log[p] = <<>> /\ DOMAIN log = Prompt
      BY <1>1 DEF LogInv, Commands!TryLocalCommand
    <3>3. log'[p] = <<"echo">> /\ DOMAIN log' = Prompt /\ \A r \in Prompt \ {p} : log'[r] = log[r]
      BY <2>1, <3>2
    <3> HIDE DEF q
    <3> QED
      BY <3>1, <3>3, LogMoves
  <2>2. CASE Commands!To(p, "probe") /\ UNCHANGED log
    <3>1. /\ driver'[p].pc = "probe" /\ driver[p].pc = "local"
          /\ \A r \in Prompt \ {p} : driver'[r] = driver[r]
      BY <1>0, <1>1, <2>2 DEF CommandInv, CommandTypes, Commands!Driver, Commands!To, DriverFields,
         Commands!TryLocalCommand
    <3> QED
      BY <2>2, <3>1, LogQuiet
  <2> QED
    BY <1>1, <2>1, <2>2 DEF Commands!TryLocalCommand
<1>2. CASE Commands!RunBuiltinHandler(p) \/ Commands!DispatchAgentSlash(p)
  <2>1. PICK o \in {"ok", "failed"} :
          /\ Commands!Answers(p, o)
          /\ log' = IF driver[p].won = "builtin" /\ o = "ok" /\ driver[p].key = "clear"
                    THEN [log EXCEPT ![p] = Append(@, "boundary")]
                    ELSE IF driver[p].won = "builtin" /\ o = "ok" /\ driver[p].key = "compact"
                    THEN [log EXCEPT ![p] = Append(@, "compaction")] ELSE log
    BY <1>2, HandlerAnswers
  <2> DEFINE q == [driver[p] EXCEPT !.outcome = o, !.pc = "output"]
  <2>2. driver' = [driver EXCEPT ![p] = q] /\ DOMAIN q = DriverFields /\ q.pc = "output"
        /\ q.outcome = o /\ q.won = driver[p].won /\ q.key = driver[p].key
    BY <1>0, <2>1 DEF Commands!Answers, DriverFields
  <2> HIDE DEF q
  <2>3. driver'[p] = q
    BY <1>0, <2>2, DriverMoves
  <2>4. log[p] = <<"echo">> /\ DOMAIN log = Prompt
    BY <1>2 DEF LogInv, Commands!RunBuiltinHandler, Commands!DispatchAgentSlash
  <2>5. DOMAIN log' = Prompt /\ \A r \in Prompt \ {p} : log'[r] = log[r]
    BY <2>1, <2>4
  <2>6. log'[p] = <<"echo">> \o Commands!OwnLine(p)'
    <3>1. CASE driver[p].won = "builtin" /\ o = "ok" /\ driver[p].key = "clear"
      <4>1. Commands!OwnLine(p)' = <<"boundary">>
        BY <2>2, <2>3, <3>1 DEF Commands!OwnLine
      <4> QED
        BY <2>1, <2>4, <3>1, <4>1
    <3>2. CASE driver[p].won = "builtin" /\ o = "ok" /\ driver[p].key = "compact"
      <4>1. Commands!OwnLine(p)' = <<"compaction">>
        BY <2>2, <2>3, <3>2 DEF Commands!OwnLine
      <4> QED
        BY <2>1, <2>4, <3>2, <4>1
    <3>3. CASE ~(driver[p].won = "builtin" /\ o = "ok" /\ driver[p].key \in {"clear", "compact"})
      <4>1. Commands!OwnLine(p)' = <<>>
        BY <2>2, <2>3, <3>3 DEF Commands!OwnLine
      <4> QED
        BY <2>1, <2>4, <3>3, <4>1
    <3> QED
      BY <3>1, <3>2, <3>3
  <2> QED
    BY <2>2, <2>5, <2>6, LogMoves
<1>3. ASSUME NEW ok \in BOOLEAN, Commands!LocalOutput(p, ok) PROVE LogInv'
  <2> DEFINE q == [driver[p] EXCEPT !.pc = "done"]
             final == IF ok THEN "record" ELSE "unrecorded"
  <2>1. driver' = [driver EXCEPT ![p] = q] /\ DOMAIN q = DriverFields /\ q.pc = "done"
        /\ q.outcome = driver[p].outcome /\ q.won = driver[p].won /\ q.key = driver[p].key
    BY <1>0, <1>3 DEF Commands!LocalOutput, Commands!To, DriverFields
  <2> HIDE DEF q
  <2>2. driver'[p] = q
    BY <1>0, <2>1, DriverMoves
  <2>3. Commands!OwnLine(p)' = Commands!OwnLine(p)
    BY <2>1, <2>2 DEF Commands!OwnLine
  <2>4. log[p] = <<"echo">> \o Commands!OwnLine(p) /\ DOMAIN log = Prompt
    BY <1>3 DEF LogInv, Commands!LocalOutput
  <2>5. log' = [log EXCEPT ![p] = log[p] \o <<"output", final>>] /\ final \in {"record", "unrecorded"}
    BY <1>3 DEF Commands!LocalOutput
  <2> HIDE DEF final
  <2>6. /\ DOMAIN log' = Prompt /\ \A r \in Prompt \ {p} : log'[r] = log[r]
        /\ log'[p] = (<<"echo">> \o Commands!OwnLine(p)) \o <<"output", final>>
    BY <2>4, <2>5
  <2> QED
    BY <2>1, <2>3, <2>5, <2>6, LogMoves
<1> QED
  BY <1>1, <1>2, <1>3

\* The steps that write nothing.
LEMMA LogRest ==
  ASSUME Commands!ReservedAssumption, CommandInv, LogInv,
         \/ \E n \in Name, k \in Commands!Kind, moves, noticed \in BOOLEAN :
              Commands!Edit(n, k, moves, noticed)
         \/ Commands!WatchFires
         \/ \E x \in Commands!Driver : Commands!RescanStep(x)
         \/ \E p \in Prompt, k \in Commands!Key : Commands!Invoke(p, k)
         \/ \E p \in Prompt : Commands!MaybeFreshRescan(p) \/ Commands!ResolveSlashCommand(p)
         \/ UNCHANGED Commands!vars
  PROVE  LogInv'
<1> USE DEF CommandInv, CommandTypes
<1>0. \A x \in Commands!Driver : DOMAIN driver[x] = DriverFields
  OBVIOUS
<1>1. ASSUME NEW n \in Name, NEW k \in Commands!Kind, NEW moves \in BOOLEAN, NEW noticed \in BOOLEAN,
             Commands!Edit(n, k, moves, noticed)
      PROVE  LogInv'
  <2>1. log' = log /\ \A p \in Prompt :
           /\ driver'[p].pc = driver[p].pc /\ driver'[p].key = driver[p].key
           /\ driver'[p].won = driver[p].won /\ driver'[p].outcome = driver[p].outcome
    BY <1>0, <1>1 DEF Commands!Edit, Commands!Driver, DriverFields
  <2> QED
    BY <2>1, LogQuiet
<1>2. CASE Commands!WatchFires
  <2>1. log' = log /\ \A p \in Prompt : driver'[p] = driver[p]
    BY <1>2 DEF Commands!WatchFires, Commands!Begin, Commands!Quiet, Commands!ReservedAssumption, Commands!Driver
  <2> QED
    BY <2>1, LogQuiet
<1>3. ASSUME NEW x \in Commands!Driver, Commands!RescanStep(x) PROVE LogInv'
  <2>1. log' = log /\ driver[x].pc \in {"scan", "swap", "build", "notify", "emit", "note"}
    BY <1>3 DEF Commands!RescanStep, Commands!Rediscover, Commands!Swap, Commands!RebuildChain,
       Commands!Notify, Commands!Emit, Commands!NoteChainSignature, Commands!Quiet
  <2>2. /\ driver'[x].pc \in {"idle", "resolve", "swap", "build", "notify", "emit", "note"}
        /\ \A y \in Commands!Driver \ {x} : driver'[y] = driver[y]
    <3>1. CASE Commands!Rediscover(x)
      BY <1>0, <3>1 DEF Commands!Rediscover, Commands!To, DriverFields
    <3>2. CASE Commands!Notify(x)
      BY <1>0, <3>2 DEF Commands!Notify, DriverFields
    <3>3. CASE Commands!Swap(x) \/ Commands!RebuildChain(x) \/ Commands!Emit(x) \/ Commands!NoteChainSignature(x)
      BY <1>0, <3>3 DEF Commands!Swap, Commands!RebuildChain, Commands!Emit, Commands!NoteChainSignature,
         Commands!To, DriverFields
    <3> QED
      BY <1>3, <3>1, <3>2, <3>3 DEF Commands!RescanStep
  <2> QED
    BY <2>1, <2>2, LogQuiet DEF Commands!Driver
<1>4. ASSUME NEW p \in Prompt, NEW k \in Commands!Key, Commands!Invoke(p, k) PROVE LogInv'
  <2>1. log' = log /\ driver[p].pc = "idle" /\ driver'[p].pc = "local"
        /\ \A r \in Prompt \ {p} : driver'[r] = driver[r]
    BY <1>4 DEF Commands!Invoke, Commands!Quiet, Commands!Idle, Commands!Driver
  <2> QED
    BY <2>1, LogQuiet
<1>5. ASSUME NEW p \in Prompt, Commands!MaybeFreshRescan(p) PROVE LogInv'
  <2>1. log' = log /\ driver[p].pc = "probe" /\ driver'[p].pc \in {"resolve", "scan"}
        /\ \A r \in Prompt \ {p} : driver'[r] = driver[r]
    BY <1>0, <1>5 DEF Commands!MaybeFreshRescan, Commands!Quiet, Commands!Begin, Commands!To, Commands!Driver, DriverFields
  <2> QED
    BY <2>1, LogQuiet
<1>6. ASSUME NEW p \in Prompt, Commands!ResolveSlashCommand(p) PROVE LogInv'
  <2>1. log' = log /\ driver[p].pc = "resolve" /\ driver'[p].pc = "done"
        /\ \A r \in Prompt \ {p} : driver'[r] = driver[r]
    BY <1>0, <1>6 DEF Commands!ResolveSlashCommand, Commands!Quiet, Commands!Driver, DriverFields
  <2> QED
    BY <2>1, LogQuiet
<1>7. CASE UNCHANGED Commands!vars
  BY <1>7, LogQuiet DEF Commands!vars
<1> QED
  BY <1>1, <1>2, <1>3, <1>4, <1>5, <1>6, <1>7

\* Commands answered locally (runtime.go tryLocalCommand): for any prompts, builtins
\* and rescans around them, whatever a handler does, each leaves its echo, its
\* output and its record in this order, and reports a cleared or compacted context
\* exactly when the line that does it was written.
THEOREM LocalRecords ==
  ASSUME Commands!ReservedAssumption PROVE Commands!Spec => []Commands!LocalCommandRecorded
<1>1. Commands!Init => LogInv
  BY DEF Commands!Init, LogInv, Commands!Idle, Commands!Driver
<1>2. CommandInv /\ LogInv /\ [Commands!Next]_(Commands!vars) => LogInv'
  BY LogLocal, LogRest DEF Commands!Next, Commands!PromptStep
<1>3. LogInv => Commands!LocalCommandRecorded
  BY DEF LogInv, Commands!LocalCommandRecorded
<1> QED
  BY <1>1, <1>2, <1>3, CommandInvariance, PTL DEF Commands!Spec

(***************************************************************************)
(* The lock file of the checkpoint store.                                  *)
(***************************************************************************)
\* Until a removal hits another holder's file, who holds has the file, alone.
LockInv ==
  /\ clock \in Nat \ {0} /\ DOMAIN lockPc = Process
  /\ ~stolen => \A p \in Process : lockPc[p] = "holding" =>
                  /\ file # Lock!NoFile
                  /\ \A q \in Process : lockPc[q] = "holding" => q = p

\* Cross-process exclusion (acquireLock): for any processes, stale times and
\* crashes, two processes hold the store's lock only after a steal or a release
\* removed a file that was another live holder's.
THEOREM LockExcludes == Lock!Spec => []Lock!ExclusiveUntilStolen
<1>1. Lock!Init => LockInv
  BY DEF Lock!Init, LockInv
<1>2. LockInv /\ [Lock!Next]_(Lock!vars) => LockInv'
  <2> SUFFICES ASSUME LockInv, [Lock!Next]_(Lock!vars) PROVE LockInv'
    OBVIOUS
  <2>1. CASE Lock!Tick \/ UNCHANGED Lock!vars
    BY <2>1 DEF LockInv, Lock!Tick, Lock!vars
  <2>2. ASSUME NEW p \in Process, Lock!Create(p) PROVE LockInv'
    BY <2>2 DEF LockInv, Lock!Create, Lock!NoFile
  <2>3. ASSUME NEW p \in Process, Lock!Steal(p) PROVE LockInv'
    BY <2>3 DEF LockInv, Lock!Steal, Lock!NoFile
  <2>4. ASSUME NEW p \in Process, Lock!Release(p) PROVE LockInv'
    BY <2>4 DEF LockInv, Lock!Release, Lock!NoFile
  <2>5. ASSUME NEW p \in Process,
               \/ Lock!Begin(p) \/ Lock!SeesStale(p) \/ Lock!GiveUp(p)
               \/ Lock!Crash(p) \/ Lock!Restart(p)
        PROVE  LockInv'
    BY <2>5 DEF LockInv, Lock!Begin, Lock!SeesStale, Lock!GiveUp, Lock!Crash, Lock!Restart
  <2> QED
    BY <2>1, <2>2, <2>3, <2>4, <2>5 DEF Lock!Next
<1>3. LockInv => Lock!ExclusiveUntilStolen
  BY DEF LockInv, Lock!ExclusiveUntilStolen, Lock!OneHolder
<1> QED
  BY <1>1, <1>2, <1>3, PTL DEF Lock!Spec

(***************************************************************************)
(* The sessions of a working directory as files.                           *)
(***************************************************************************)
\* A deleted session keeps its marker as long as it has its transcript; the sweep
\* removes a marker only after the transcript.
StoreInv ==
  /\ now \in 0 .. Horizon /\ DOMAIN transcript = Session /\ DOMAIN marker = Session
  /\ \A s \in Session \cap deleted : transcript[s] = Store!Absent \/ marker[s] # Store!Absent
  /\ DOMAIN sweep = {"at", "rest", "id"} /\ sweep.rest \subseteq Session
  /\ sweep.at \in {"transcript", "marker"} => sweep.id \in Session
  /\ sweep.at = "marker" => transcript[sweep.id] = Store!Absent

\* A deleted session stays hidden (tombstone.go, sweepPair): for any sessions and
\* grace, though a sweep may fail or die between the removals of its two files.
THEOREM DeletedHidden ==
  ASSUME Store!StoreAssumption PROVE Store!Spec => []Store!DeletedStaysHidden
<1> USE DEF Store!Absent
<1>1. Store!Init => StoreInv
  BY DEF Store!Init, StoreInv, Store!SweepIdle, Store!StoreAssumption
<1>2. StoreInv /\ [Store!Next]_(Store!vars) => StoreInv'
  <2> SUFFICES ASSUME StoreInv, [Store!Next]_(Store!vars) PROVE StoreInv'
    OBVIOUS
  <2>1. ASSUME NEW s \in Session, Store!AppendLine(s) PROVE StoreInv'
    BY <2>1 DEF StoreInv, Store!AppendLine, Store!Serving
  <2>2. ASSUME NEW s \in Session, Store!Tombstone(s) PROVE StoreInv'
    <3>1. now # Store!Absent
      BY DEF StoreInv, Store!StoreAssumption
    <3> QED
      BY <2>2, <3>1 DEF StoreInv, Store!Tombstone, Store!Serving
  <2>3. ASSUME NEW s \in Session, Store!SweepPair(s) PROVE StoreInv'
    BY <2>3 DEF StoreInv, Store!SweepPair
  <2>4. CASE Store!RemoveTranscript
    <3>1. /\ sweep' = [sweep EXCEPT !.at = "marker"] /\ sweep.id \in Session
          /\ transcript' = [transcript EXCEPT ![sweep.id] = Store!Absent]
          /\ UNCHANGED <<now, marker, deleted>>
      BY <2>4 DEF StoreInv, Store!RemoveTranscript, Store!PurgeFirst
    <3>2. DOMAIN sweep' = {"at", "rest", "id"} /\ sweep'.rest = sweep.rest /\ sweep'.id = sweep.id
      BY <3>1 DEF StoreInv
    <3> QED
      BY <3>1, <3>2 DEF StoreInv
  <2>5. CASE Store!RemoveMarker
    <3>1. /\ sweep' = [sweep EXCEPT !.at = "next"] /\ sweep.id \in Session
          /\ marker' = [marker EXCEPT ![sweep.id] = Store!Absent] /\ transcript[sweep.id] = Store!Absent
          /\ UNCHANGED <<now, transcript, deleted>>
      BY <2>5 DEF StoreInv, Store!RemoveMarker
    <3>2. DOMAIN sweep' = {"at", "rest", "id"} /\ sweep'.rest = sweep.rest /\ sweep'.at = "next"
      BY <3>1 DEF StoreInv
    <3> QED
      BY <3>1, <3>2 DEF StoreInv
  <2>6. CASE Store!RemoveFails
    <3>1. sweep' = [sweep EXCEPT !.at = "next"] /\ UNCHANGED <<now, transcript, marker, deleted>>
      BY <2>6 DEF Store!RemoveFails
    <3>2. DOMAIN sweep' = {"at", "rest", "id"} /\ sweep'.rest = sweep.rest /\ sweep'.at = "next"
      BY <3>1 DEF StoreInv
    <3> QED
      BY <3>1, <3>2 DEF StoreInv
  <2>7. CASE Store!Restart \/ Store!SweepEnds \/ Store!SweepDies
    BY <2>7 DEF StoreInv, Store!Restart, Store!SweepEnds, Store!SweepDies, Store!SweepIdle
  <2>8. CASE Store!ListStart \/ Store!ListPage \/ UNCHANGED Store!vars
    BY <2>8 DEF StoreInv, Store!ListStart, Store!ListPage, Store!vars
  <2>9. CASE Store!Tick
    <3>1. now' \in 0 .. Horizon
      BY <2>9 DEF StoreInv, Store!Tick, Store!StoreAssumption
    <3> QED
      BY <2>9, <3>1 DEF StoreInv, Store!Tick
  <2> QED
    BY <2>1, <2>2, <2>3, <2>4, <2>5, <2>6, <2>7, <2>8, <2>9 DEF Store!Next
<1>3. StoreInv => Store!DeletedStaysHidden
  BY DEF StoreInv, Store!DeletedStaysHidden, Store!Visible
<1> QED
  BY <1>1, <1>2, <1>3, PTL DEF Store!Spec

(***************************************************************************)
(* The provider's stream: an aborted response is never taken for a whole   *)
(* one by the turn loop.                                                   *)
(***************************************************************************)
ChunkType == {"text", "tool_use", "thinking", "done", "error"}
ChunkValue == {"text", "tool1", "tool2", "think", "none", "end_turn", "max_tokens",
               "Transient", "Structural"}
StreamChunk == [type : ChunkType, value : ChunkValue]
StreamSend == [type : ChunkType, value : ChunkValue, how : {"try", "flush", "emit"}]
HasError(q) == \E i \in 1 .. Len(q) : q[i].type = "error"

\* The error chunk waits for room rather than being dropped.
StreamTypes ==
  /\ todo \in Seq(StreamSend) /\ chunks \in Seq(StreamChunk)
  /\ finish \in ChunkValue /\ block \in ChunkValue
  /\ \A i \in 1 .. Len(todo) : todo[i].type = "error" => todo[i].how = "flush"
  /\ DOMAIN got = {"result", "finish", "calls", "text", "error"}

\* How the drain ended, in terms of where it is.
EndingInv ==
  /\ drain \in {"off", "loop"} /\ ~last => ending = "none"
  /\ drain \in {"off", "loop"} => got.result # "ok"
  /\ drain = "off" => todo = <<>>
  /\ last => drain # "off" /\ ending \in {"eof", "[DONE]", "cancelled", "aborted"}
  /\ drain = "ended" => todo = <<>> /\ (ending # "none" \/ got.result # "none")
  /\ ending \in {"none", "eof", "[DONE]", "cancelled", "aborted", "rejected"}
  /\ ending = "cancelled" => ctx = "done"

\* An abort is on its way to the turn loop until the loop has failed.
LoudInv ==
  consumer = "turn" /\ ending \in {"aborted", "rejected"} =>
    \/ ctx = "done" \/ got.result # "none"
    \/ HasError(chunks) \/ HasError(todo)

StreamInv == StreamTypes /\ EndingInv /\ LoudInv /\ Stream!AbortIsLoud

\* What a send and a receive do to a queue with an error in it.
LEMMA ErrorAppended ==
  ASSUME NEW S, NEW q \in Seq(S), NEW e \in S
  PROVE  HasError(Append(q, e)) <=> HasError(q) \/ e.type = "error"
<1>1. /\ Len(Append(q, e)) = Len(q) + 1 /\ Len(q) \in Nat
      /\ \A i \in 1 .. Len(q) : Append(q, e)[i] = q[i]
      /\ Append(q, e)[Len(q) + 1] = e
  OBVIOUS
<1>2. 1 .. Len(q) + 1 = (1 .. Len(q)) \cup {Len(q) + 1}
  BY <1>1
<1> HIDE DEF HasError
<1> QED
  BY <1>1, <1>2 DEF HasError

\* An error is at the head of a queue or stays in it.
LEMMA ErrorTaken ==
  ASSUME NEW S, NEW q \in Seq(S), q # <<>>, HasError(q)
  PROVE  Head(q).type = "error" \/ HasError(Tail(q))
<1>1. PICK i \in 1 .. Len(q) : q[i].type = "error"
  BY DEF HasError
<1>2. Len(q) \in Nat \ {0} /\ Len(Tail(q)) = Len(q) - 1 /\ Head(q) = q[1]
      /\ \A k \in 1 .. Len(Tail(q)) : Tail(q)[k] = q[k + 1]
  OBVIOUS
<1>3. CASE i = 1
  BY <1>1, <1>2, <1>3
<1>4. CASE i # 1
  <2>1. i - 1 \in 1 .. Len(Tail(q)) /\ Tail(q)[i - 1] = q[i]
    BY <1>2, <1>4
  <2> QED
    BY <1>1, <2>1 DEF HasError
<1> QED
  BY <1>3, <1>4

\* The steps that leave the response as it is.
LEMMA StreamFrame ==
  ASSUME StreamInv, UNCHANGED <<consumer, todo, chunks, finish, block, got, drain, last, ending>>,
         ctx' = ctx \/ ctx' = "done"
  PROVE  StreamInv'
  BY DEF StreamInv, StreamTypes, EndingInv, LoudInv, Stream!AbortIsLoud

\* Stream: refused, rejected or opened.
LEMMA StreamStarts ==
  ASSUME StreamInv,
         Stream!StreamRefused \/ Stream!StreamOpens \/ \E s \in Status : Stream!StreamRejected(s)
  PROVE  StreamInv'
<1>0. drain = "off" /\ ending = "none" /\ ~last
  BY DEF StreamInv, EndingInv, Stream!StreamRefused, Stream!StreamOpens, Stream!StreamRejected
<1>1. CASE Stream!StreamRefused
  BY <1>0, <1>1 DEF StreamInv, StreamTypes, EndingInv, LoudInv, Stream!AbortIsLoud,
     Stream!StreamRefused, Stream!Parser
<1>2. CASE Stream!StreamOpens
  BY <1>0, <1>2 DEF StreamInv, StreamTypes, EndingInv, LoudInv, Stream!AbortIsLoud,
     Stream!StreamOpens, Stream!Parser
<1>3. ASSUME NEW s \in Status, Stream!StreamRejected(s) PROVE StreamInv'
  BY <1>0, <1>3 DEF StreamInv, StreamTypes, EndingInv, LoudInv, HasError, StreamChunk,
     ChunkType, ChunkValue, Stream!AbortIsLoud, Stream!StreamRejected, Stream!ClassifyHTTP, Stream!Parser
<1> QED
  BY <1>1, <1>2, <1>3

\* What the drain flushes is no error.
LEMMA FlushType ==
  ASSUME StreamTypes
  PROVE  /\ Stream!Flush \in Seq(StreamSend)
         /\ \A i \in 1 .. Len(Stream!Flush) : Stream!Flush[i].type # "error"
<1>1. \A x \in StreamSend : <<x>> \in Seq(StreamSend) /\ Len(<<x>>) = 1 /\ <<x>>[1] = x
  OBVIOUS
<1>2. \A i \in 1 .. 1 : i = 1
  OBVIOUS
<1>3. CASE block \in Stream!ToolStart \ flushed
  <2> DEFINE x == Stream!Sending("tool_use", block, "flush")
  <2>1. x \in StreamSend /\ x.type = "tool_use"
    BY DEF StreamTypes, StreamSend, ChunkType, Stream!Sending
  <2>2. Stream!Flush = <<x>>
    BY <1>3 DEF Stream!Flush
  <2> HIDE DEF x
  <2> QED
    BY <1>1, <1>2, <2>1, <2>2
<1>4. CASE block \notin Stream!ToolStart \ flushed /\ block = "think"
  <2> DEFINE x == Stream!Sending("thinking", block, "flush")
  <2>1. x \in StreamSend /\ x.type = "thinking"
    BY DEF StreamTypes, StreamSend, ChunkType, Stream!Sending
  <2>2. Stream!Flush = <<x>>
    BY <1>4 DEF Stream!Flush
  <2> HIDE DEF x
  <2> QED
    BY <1>1, <1>2, <2>1, <2>2
<1>5. CASE block \notin Stream!ToolStart \ flushed /\ block # "think"
  <2>1. Stream!Flush = <<>>
    BY <1>5 DEF Stream!Flush
  <2> QED
    BY <2>1
<1> QED
  BY <1>3, <1>4, <1>5

\* The read loop ends: with an abort, the error chunk follows what is flushed.
LEMMA StreamFinishes ==
  ASSUME StreamInv, NEW how \in {"eof", "[DONE]", "cancelled", "aborted"}, NEW sends \in Seq(StreamSend),
         Stream!Finish(how, sends), drain = "loop", ~last, how = "cancelled" => ctx = "done",
         \A i \in 1 .. Len(sends) : sends[i].type = "error" => sends[i].how = "flush",
         how = "aborted" => HasError(sends), finish' \in ChunkValue, block' \in ChunkValue
  PROVE  StreamInv'
  BY DEF StreamInv, StreamTypes, EndingInv, LoudInv, HasError, Stream!AbortIsLoud, Stream!Finish

\* The sends a loop ends with.
LEMMA LastSends ==
  ASSUME StreamTypes
  PROVE  /\ <<Stream!Done(finish)>> \in Seq(StreamSend)
         /\ \A i \in 1 .. 1 : <<Stream!Done(finish)>>[i].type # "error"
         /\ Stream!Flush \o <<Stream!Done(finish)>> \in Seq(StreamSend)
         /\ \A i \in 1 .. Len(Stream!Flush \o <<Stream!Done(finish)>>) :
              (Stream!Flush \o <<Stream!Done(finish)>>)[i].type # "error"
         /\ Stream!Flush \o <<Stream!SendAbortError>> \in Seq(StreamSend)
         /\ HasError(Stream!Flush \o <<Stream!SendAbortError>>)
         /\ \A i \in 1 .. Len(Stream!Flush \o <<Stream!SendAbortError>>) :
              (Stream!Flush \o <<Stream!SendAbortError>>)[i].type = "error"
                => (Stream!Flush \o <<Stream!SendAbortError>>)[i].how = "flush"
<1> DEFINE f == Stream!Flush
           d == Stream!Done(finish)
           e == Stream!SendAbortError
<1>1. d \in StreamSend /\ d.type = "done"
  BY DEF StreamTypes, StreamSend, ChunkType, ChunkValue, Stream!Done, Stream!Sending
<1>2. e \in StreamSend /\ e.type = "error" /\ e.how = "flush"
  BY DEF StreamSend, ChunkType, ChunkValue, Stream!SendAbortError, Stream!Sending
<1>3. f \in Seq(StreamSend) /\ \A i \in 1 .. Len(f) : f[i].type # "error"
  BY FlushType
<1> HIDE DEF f, d, e
<1>4. ASSUME NEW x \in StreamSend
      PROVE  /\ f \o <<x>> \in Seq(StreamSend) /\ Len(f \o <<x>>) = Len(f) + 1 /\ Len(f) \in Nat
             /\ (f \o <<x>>)[Len(f) + 1] = x
             /\ \A i \in 1 .. Len(f) : (f \o <<x>>)[i] = f[i]
  BY <1>3
<1>5. <<d>> \in Seq(StreamSend) /\ Len(<<d>>) = 1 /\ <<d>>[1] = d
  BY <1>1
<1>6. \A i \in 1 .. Len(f) + 1 : i = Len(f) + 1 \/ i \in 1 .. Len(f)
  BY <1>3
<1>7. /\ f \o <<d>> \in Seq(StreamSend)
      /\ \A i \in 1 .. Len(f \o <<d>>) : (f \o <<d>>)[i].type # "error"
  BY <1>1, <1>3, <1>4, <1>6
<1>8. /\ f \o <<e>> \in Seq(StreamSend)
      /\ \A i \in 1 .. Len(f \o <<e>>) : (f \o <<e>>)[i].type = "error" => (f \o <<e>>)[i].how = "flush"
  BY <1>2, <1>3, <1>4, <1>6
<1>9. HasError(f \o <<e>>)
  <2>1. Len(f) + 1 \in 1 .. Len(f \o <<e>>)
    BY <1>2, <1>4
  <2> QED
    BY <1>2, <1>4, <2>1 DEF HasError
<1> QED
  BY <1>1, <1>5, <1>7, <1>8, <1>9 DEF f, d, e

\* The read loop ends: cancelled, at the end of the body, or aborted.
LEMMA StreamReadFails ==
  ASSUME StreamInv, Stream!SeesCancel \/ Stream!ReadFails
  PROVE  StreamInv'
<1>1. drain = "loop" /\ ~last /\ finish' = finish /\ block' \in ChunkValue
  BY DEF StreamInv, StreamTypes, ChunkValue, Stream!SeesCancel, Stream!ReadFails, Stream!Parser
<1>2. finish' \in ChunkValue
  BY <1>1 DEF StreamInv, StreamTypes
<1>3. CASE Stream!Finish("cancelled", <<Stream!Done(finish)>>) /\ ctx = "done"
  BY <1>1, <1>2, <1>3, LastSends, StreamFinishes DEF StreamInv
<1>4. CASE Stream!Finish("eof", Stream!Flush \o <<Stream!Done(finish)>>)
  BY <1>1, <1>2, <1>4, LastSends, StreamFinishes DEF StreamInv
<1>5. CASE Stream!Finish("aborted", Stream!Flush \o <<Stream!SendAbortError>>)
  BY <1>1, <1>2, <1>5, LastSends, StreamFinishes DEF StreamInv
<1> QED
  BY <1>3, <1>4, <1>5 DEF Stream!SeesCancel, Stream!ReadFails

\* One event is parsed: it adds sends, or ends the loop.
LEMMA StreamParse ==
  ASSUME StreamInv, Stream!Parse
  PROVE  StreamInv'
<1>1. drain = "loop" /\ ~last /\ finish' \in ChunkValue /\ block' \in ChunkValue
  BY DEF StreamInv, StreamTypes, ChunkValue, Stream!Parse, Stream!ToolStart
<1>2. CASE Stream!Finish("[DONE]", Stream!Flush \o <<Stream!Done(finish)>>)
  BY <1>1, <1>2, LastSends, StreamFinishes DEF StreamInv
<1>3. CASE /\ todo' \in {Stream!Flush, <<>>, <<Stream!Sending("text", "text", "emit")>>}
           /\ UNCHANGED <<consumer, ctx, drain, last, ending, chunks, got>>
  <2>1. /\ todo' \in Seq(StreamSend)
        /\ \A i \in 1 .. Len(todo') : todo'[i].type # "error"
    <3> DEFINE x == Stream!Sending("text", "text", "emit")
    <3>1. x \in StreamSend /\ x.type = "text"
      BY DEF StreamSend, ChunkType, ChunkValue, Stream!Sending
    <3>2. todo' \in {Stream!Flush, <<>>, <<x>>}
      BY <1>3
    <3> HIDE DEF x
    <3>3. <<x>> \in Seq(StreamSend) /\ \A i \in 1 .. Len(<<x>>) : <<x>>[i].type # "error"
      BY <3>1
    <3>4. <<>> \in Seq(StreamSend) /\ \A i \in 1 .. Len(<<>>) : <<>>[i].type # "error"
      OBVIOUS
    <3> QED
      BY <3>2, <3>3, <3>4, FlushType DEF StreamInv
  <2>2. ending = "none"
    BY <1>1 DEF StreamInv, EndingInv
  <2> QED
    BY <1>1, <1>3, <2>1, <2>2 DEF StreamInv, StreamTypes, EndingInv, LoudInv, Stream!AbortIsLoud
<1> QED
  BY <1>2, <1>3 DEF Stream!Parse

\* The next send of the drain.
LEMMA StreamSends ==
  ASSUME StreamInv, Stream!Send
  PROVE  StreamInv'
<1> DEFINE s == Head(todo)
<1>0. /\ drain = "loop" /\ todo # <<>>
      /\ UNCHANGED <<consumer, ctx, drain, got, finish, block>>
  BY DEF Stream!Send, Stream!Parser
<1>1. /\ s \in StreamSend /\ s.type \in ChunkType /\ s.value \in ChunkValue
      /\ Tail(todo) \in Seq(StreamSend)
      /\ s.type = "error" => s.how = "flush"
      /\ \A i \in 1 .. Len(Tail(todo)) : Tail(todo)[i].type = "error" => Tail(todo)[i].how = "flush"
  <2>1. /\ Len(todo) \in Nat \ {0} /\ s = todo[1] /\ s \in StreamSend /\ Tail(todo) \in Seq(StreamSend)
        /\ Len(Tail(todo)) = Len(todo) - 1
        /\ \A k \in 1 .. Len(Tail(todo)) : Tail(todo)[k] = todo[k + 1] /\ k + 1 \in 1 .. Len(todo)
    BY <1>0 DEF StreamInv, StreamTypes
  <2> QED
    BY <2>1 DEF StreamInv, StreamTypes, StreamSend
<1>2. HasError(todo) => s.type = "error" \/ HasError(Tail(todo))
  BY <1>0, ErrorTaken DEF StreamInv, StreamTypes
<1>3. CASE /\ chunks' = Append(chunks, [type |-> s.type, value |-> s.value])
           /\ todo' = Tail(todo) /\ UNCHANGED <<last, ending>>
  <2> DEFINE c == [type |-> s.type, value |-> s.value]
  <2>1. c \in StreamChunk /\ c.type = s.type
    BY <1>1 DEF StreamChunk
  <2> HIDE DEF c
  <2>2. /\ Append(chunks, c) \in Seq(StreamChunk)
        /\ HasError(Append(chunks, c)) <=> HasError(chunks) \/ s.type = "error"
    BY <2>1, ErrorAppended DEF StreamInv, StreamTypes
  <2>3. chunks' = Append(chunks, c)
    BY <1>3 DEF c
  <2>4. StreamTypes'
    BY <1>0, <1>1, <1>3, <2>2, <2>3 DEF StreamInv, StreamTypes
  <2>5. HasError(todo) \/ HasError(chunks) => HasError(todo') \/ HasError(chunks')
    BY <1>2, <1>3, <2>2, <2>3
  <2>6. LoudInv'
    BY <1>0, <1>3, <2>5 DEF StreamInv, LoudInv, HasError
  <2> QED
    BY <1>0, <1>3, <2>4, <2>6 DEF StreamInv, EndingInv, Stream!AbortIsLoud
<1>4. CASE /\ s.how = "try" \/ (s.how = "flush" /\ ctx = "done")
           /\ todo' = Tail(todo) /\ UNCHANGED <<chunks, last, ending>>
  <2>1. StreamTypes'
    BY <1>0, <1>1, <1>4 DEF StreamInv, StreamTypes
  <2>2. HasError(todo) => HasError(todo') \/ ctx = "done"
    BY <1>1, <1>2, <1>4
  <2>3. LoudInv'
    BY <1>0, <1>4, <2>2 DEF StreamInv, LoudInv, HasError
  <2> QED
    BY <1>0, <1>4, <2>1, <2>3 DEF StreamInv, EndingInv, Stream!AbortIsLoud
<1>5. CASE /\ ctx = "done" /\ todo' = <<Stream!Done(finish)>> /\ last' = TRUE
           /\ ending' = "cancelled" /\ UNCHANGED chunks
  BY <1>0, <1>5, LastSends DEF StreamInv, StreamTypes, EndingInv, LoudInv, Stream!AbortIsLoud
<1> QED
  BY <1>3, <1>4, <1>5 DEF Stream!Send

\* The drain closes the channel with nothing left to send.
LEMMA StreamDrainEnds ==
  ASSUME StreamInv, Stream!DrainEnds
  PROVE  StreamInv'
<1>1. ~HasError(todo)
  BY DEF Stream!DrainEnds, HasError
<1> QED
  BY <1>1 DEF StreamInv, StreamTypes, EndingInv, LoudInv, HasError, Stream!AbortIsLoud,
     Stream!DrainEnds, Stream!Parser

\* The consumer takes a chunk: the turn loop fails on an error chunk.
LEMMA StreamConsume ==
  ASSUME StreamInv, Stream!Consume
  PROVE  StreamInv'
<1>1. /\ got.result = "none" /\ chunks # <<>> /\ chunks' = Tail(chunks)
      /\ UNCHANGED <<consumer, ctx, todo, drain, last, ending, finish, block>>
  BY DEF Stream!Consume, Stream!Parser
<1>2. /\ DOMAIN got' = {"result", "finish", "calls", "text", "error"}
      /\ got'.result \in {"none", "error", "cancelled"}
      /\ ctx # "done" /\ consumer = "turn" /\ Head(chunks).type = "error" => got'.result = "error"
  <2>1. CASE ctx = "done" /\ consumer # "send"
    BY <1>1, <2>1 DEF StreamInv, StreamTypes, Stream!Consume
  <2>2. CASE ~(ctx = "done" /\ consumer # "send")
    <3>1. got' = Stream!Taken(Head(chunks))
      BY <2>2 DEF Stream!Consume
    <3> QED
      BY <1>1, <3>1 DEF StreamInv, StreamTypes, Stream!Taken
  <2> QED
    BY <2>1, <2>2
<1>3. Tail(chunks) \in Seq(StreamChunk)
  BY <1>1 DEF StreamInv, StreamTypes
<1>4. HasError(chunks) => Head(chunks).type = "error" \/ HasError(Tail(chunks))
  BY <1>1, ErrorTaken DEF StreamInv, StreamTypes
<1>5. StreamTypes'
  BY <1>1, <1>2, <1>3 DEF StreamInv, StreamTypes
<1>6. HasError(chunks) => HasError(chunks') \/ Head(chunks).type = "error"
  BY <1>1, <1>4
<1>7. LoudInv'
  BY <1>1, <1>2, <1>6 DEF StreamInv, LoudInv, HasError
<1> QED
  BY <1>1, <1>2, <1>5, <1>7 DEF StreamInv, EndingInv, Stream!AbortIsLoud

\* The channel is closed and empty: no error can be left on its way.
LEMMA StreamCloses ==
  ASSUME StreamInv, Stream!ChannelClosed
  PROVE  StreamInv'
<1>1. /\ got.result = "none" /\ chunks = <<>> /\ drain = "ended"
      /\ UNCHANGED <<consumer, ctx, todo, drain, last, ending, finish, block, chunks>>
  BY DEF Stream!ChannelClosed, Stream!Parser
<1>2. ~HasError(chunks) /\ ~HasError(todo)
  BY <1>1 DEF StreamInv, EndingInv, HasError
<1>3. /\ DOMAIN got' = {"result", "finish", "calls", "text", "error"}
      /\ got'.result = Stream!Outcome
  BY DEF StreamInv, StreamTypes, Stream!ChannelClosed
<1>4. Stream!Outcome \in {"ok", "error", "cancelled"}
  BY DEF Stream!Outcome
<1>5. consumer = "turn" /\ Stream!Outcome = "ok" => ctx # "done"
  BY DEF Stream!Outcome
<1>6. consumer = "turn" /\ got'.result = "ok" => ending \in {"eof", "[DONE]"}
  BY <1>1, <1>2, <1>3, <1>5 DEF StreamInv, EndingInv, LoudInv
<1> QED
  BY <1>1, <1>3, <1>4, <1>6 DEF StreamInv, StreamTypes, EndingInv, LoudInv, Stream!AbortIsLoud

LEMMA StreamInvariance == Stream!Spec => []StreamInv
<1>1. Stream!Init => StreamInv
  BY DEF Stream!Init, Stream!Waiting, StreamInv, StreamTypes, ChunkValue, EndingInv, LoudInv, Stream!AbortIsLoud
<1>2. StreamInv /\ [Stream!Next]_(Stream!vars) => StreamInv'
  <2> SUFFICES ASSUME StreamInv, [Stream!Next]_(Stream!vars) PROVE StreamInv'
    OBVIOUS
  <2>1. ASSUME \/ \E e \in Event : Stream!ServerSends(e)
               \/ \E how \in {"eof", "failed"} : Stream!BodyEnds(how)
               \/ Stream!IdleElapses \/ Stream!SseWatchdog \/ Stream!Read \/ Stream!Cancel
               \/ UNCHANGED Stream!vars
        PROVE  StreamInv'
    BY <2>1, StreamFrame DEF Stream!ServerSends, Stream!BodyEnds, Stream!IdleElapses,
       Stream!SseWatchdog, Stream!Abort, Stream!Read, Stream!Cancel, Stream!Parser, Stream!vars
  <2> QED
    BY <2>1, StreamStarts, StreamReadFails, StreamParse, StreamSends, StreamDrainEnds,
       StreamConsume, StreamCloses DEF Stream!Next, Stream!DrainStep, Stream!ConsumerStep
<1> QED
  BY <1>1, <1>2, PTL DEF Stream!Spec

\* An aborted response is loud (streaming.go, session.go): for any channel size,
\* events and statuses, whenever the watchdog, the transport or the context ends
\* the stream and however full the channel is, the turn loop takes a response for
\* whole only if the provider ended it.
THEOREM AbortsAreLoud == Stream!Spec => []Stream!AbortIsLoud
<1>1. StreamInv => Stream!AbortIsLoud
  BY DEF StreamInv
<1> QED
  BY <1>1, StreamInvariance, PTL

\* The tool calls in a queue; in a queue that holds none twice.
IsCall(e) == e.type = "tool_use"
Calls(q) == {q[i].value : i \in {k \in 1 .. Len(q) : IsCall(q[k])}}
NoneTwice(q) == \A i, k \in 1 .. Len(q) : IsCall(q[i]) /\ IsCall(q[k]) /\ q[i].value = q[k].value => i = k
HeldCalls(calls) == {calls[i] : i \in 1 .. Len(calls)}

\* A call on its way was flushed, and is in one place on it.
OnceInv ==
  /\ NoneTwice(todo) /\ NoneTwice(chunks)
  /\ got.calls \in Seq(ChunkValue) /\ Stream!CallOnce
  /\ Calls(todo) \cup Calls(chunks) \cup HeldCalls(got.calls) \subseteq flushed
  /\ Calls(todo) \cap Calls(chunks) = {}
  /\ (Calls(todo) \cup Calls(chunks)) \cap HeldCalls(got.calls) = {}

LEMMA CallAppended ==
  ASSUME NEW S, NEW q \in Seq(S), NEW e \in S, NoneTwice(q), IsCall(e) => e.value \notin Calls(q)
  PROVE  /\ NoneTwice(Append(q, e))
         /\ Calls(Append(q, e)) = Calls(q) \cup (IF IsCall(e) THEN {e.value} ELSE {})
<1>1. /\ Len(Append(q, e)) = Len(q) + 1 /\ Len(q) \in Nat
      /\ \A i \in 1 .. Len(q) : Append(q, e)[i] = q[i]
      /\ Append(q, e)[Len(q) + 1] = e
  OBVIOUS
<1>2. 1 .. Len(q) + 1 = (1 .. Len(q)) \cup {Len(q) + 1}
  BY <1>1
<1> HIDE DEF IsCall
<1> DEFINE r == Append(q, e)
<1> HIDE DEF r
<1>3. /\ Len(r) = Len(q) + 1 /\ r[Len(q) + 1] = e
      /\ \A i \in 1 .. Len(q) : r[i] = q[i]
  BY <1>1 DEF r
<1>4. NoneTwice(r)
  <2> SUFFICES ASSUME NEW i \in 1 .. Len(r), NEW k \in 1 .. Len(r),
                      IsCall(r[i]), IsCall(r[k]), r[i].value = r[k].value
               PROVE  i = k
    BY DEF NoneTwice
  <2>1. \A m \in 1 .. Len(q) : IsCall(q[m]) => q[m].value \in Calls(q)
    BY DEF Calls
  <2> QED
    BY <1>2, <1>3, <2>1 DEF NoneTwice
<1>5. Calls(r) = Calls(q) \cup (IF IsCall(e) THEN {e.value} ELSE {})
  <2>1. \A v : v \in Calls(r) <=> \E m \in 1 .. Len(r) : IsCall(r[m]) /\ v = r[m].value
    BY DEF Calls
  <2>2. \A v : v \in Calls(q) <=> \E m \in 1 .. Len(q) : IsCall(q[m]) /\ v = q[m].value
    BY DEF Calls
  <2> QED
    BY <1>2, <1>3, <2>1, <2>2
<1> QED
  BY <1>4, <1>5 DEF r

LEMMA CallTaken ==
  ASSUME NEW S, NEW q \in Seq(S), q # <<>>, NoneTwice(q)
  PROVE  /\ NoneTwice(Tail(q)) /\ Calls(Tail(q)) \subseteq Calls(q)
         /\ IsCall(Head(q)) => Head(q).value \in Calls(q) /\ Head(q).value \notin Calls(Tail(q))
<1>1. /\ Len(q) \in Nat \ {0} /\ Len(Tail(q)) = Len(q) - 1 /\ Head(q) = q[1]
      /\ \A k \in 1 .. Len(Tail(q)) : Tail(q)[k] = q[k + 1]
  OBVIOUS
<1> DEFINE r == Tail(q)
<1> HIDE DEF r
<1> HIDE DEF IsCall
<1>2. \A k \in 1 .. Len(r) : r[k] = q[k + 1] /\ k + 1 \in 1 .. Len(q) /\ k + 1 # 1
  BY <1>1 DEF r
<1>3. NoneTwice(r)
  <2> SUFFICES ASSUME NEW i \in 1 .. Len(r), NEW k \in 1 .. Len(r),
                      IsCall(r[i]), IsCall(r[k]), r[i].value = r[k].value
               PROVE  i = k
    BY DEF NoneTwice
  <2>1. i + 1 = k + 1
    BY <1>2 DEF NoneTwice
  <2> QED
    BY <1>1, <2>1 DEF r
<1>4. \A v : v \in Calls(r) <=> \E m \in 1 .. Len(r) : IsCall(r[m]) /\ v = r[m].value
  BY DEF Calls
<1>5. \A v : v \in Calls(q) <=> \E m \in 1 .. Len(q) : IsCall(q[m]) /\ v = q[m].value
  BY DEF Calls
<1>6. Calls(r) \subseteq Calls(q)
  BY <1>2, <1>4, <1>5
<1>7. ASSUME IsCall(q[1]) PROVE q[1].value \in Calls(q) /\ q[1].value \notin Calls(r)
  <2>1. 1 \in 1 .. Len(q)
    BY <1>1
  <2>2. \A m \in 1 .. Len(r) : IsCall(r[m]) => r[m].value # q[1].value
    BY <1>2, <1>7, <2>1 DEF NoneTwice
  <2> QED
    BY <1>4, <1>5, <1>7, <2>1, <2>2
<1> QED
  BY <1>1, <1>3, <1>6, <1>7 DEF r

\* A queue with no call in it.
LEMMA NoCalls ==
  ASSUME NEW q, \A i \in 1 .. Len(q) : ~IsCall(q[i])
  PROVE  NoneTwice(q) /\ Calls(q) = {}
  BY DEF NoneTwice, Calls

\* What the drain flushes holds the open block's call, if no replay was flushed
\* before; the drain may send one thing after it that is no call.
LEMMA FlushedCalls ==
  ASSUME StreamTypes, NEW x \in StreamSend, ~IsCall(x)
  PROVE  LET new == ({block} \cap Stream!ToolStart) \ flushed IN
         /\ NoneTwice(Stream!Flush) /\ Calls(Stream!Flush) = new
         /\ NoneTwice(Stream!Flush \o <<x>>) /\ Calls(Stream!Flush \o <<x>>) = new
         /\ NoneTwice(<<x>>) /\ Calls(<<x>>) = {} /\ NoneTwice(<<>>) /\ Calls(<<>>) = {}
<1> DEFINE new == ({block} \cap Stream!ToolStart) \ flushed
           f == Stream!Flush
<1>0. f \in Seq(StreamSend)
  BY FlushType
<1>1. NoneTwice(<<>>) /\ Calls(<<>>) = {} /\ NoneTwice(<<x>>) /\ Calls(<<x>>) = {}
  <2>1. \A i \in 1 .. Len(<<x>>) : ~IsCall(<<x>>[i])
    OBVIOUS
  <2>2. \A i \in 1 .. Len(<<>>) : ~IsCall(<<>>[i])
    OBVIOUS
  <2> QED
    BY <2>1, <2>2, NoCalls
<1>2. NoneTwice(f) /\ Calls(f) = new
  <2>1. CASE block \in Stream!ToolStart \ flushed
    <3> DEFINE y == Stream!Sending("tool_use", block, "flush")
    <3>1. f = <<y>> /\ y.value = block /\ IsCall(y) /\ y \in StreamSend
      BY <2>1 DEF Stream!Flush, Stream!Sending, IsCall, StreamTypes, StreamSend, ChunkType
    <3> HIDE DEF y
    <3>2. <<y>> = Append(<<>>, y) /\ <<>> \in Seq(StreamSend)
      OBVIOUS
    <3>3. NoneTwice(Append(<<>>, y)) /\ Calls(Append(<<>>, y)) = {block}
      BY <1>1, <3>1, <3>2, CallAppended
    <3> QED
      BY <2>1, <3>1, <3>2, <3>3
  <2>2. CASE block \notin Stream!ToolStart \ flushed
    <3>1. f = <<>> \/ f = <<Stream!Sending("thinking", block, "flush")>>
      BY <2>2 DEF Stream!Flush
    <3>2. \A i \in 1 .. Len(f) : ~IsCall(f[i])
      <4> DEFINE y == Stream!Sending("thinking", block, "flush")
      <4>1. ~IsCall(y)
        BY DEF IsCall, Stream!Sending
      <4> HIDE DEF y
      <4>2. \A i \in 1 .. Len(<<y>>) : ~IsCall(<<y>>[i])
        BY <4>1
      <4> HIDE DEF f
      <4>3. CASE f = <<>>
        BY <4>3
      <4>4. CASE f = <<y>>
        BY <4>2, <4>4
      <4> QED
        BY <3>1, <4>3, <4>4 DEF y
    <3> QED
      BY <2>2, <3>2, NoCalls
  <2> QED
    BY <2>1, <2>2
<1> HIDE DEF f
<1>3. f \o <<x>> = Append(f, x)
  BY <1>0
<1>4. NoneTwice(f \o <<x>>) /\ Calls(f \o <<x>>) = new
  <2> HIDE DEF new
  <2>1. NoneTwice(Append(f, x)) /\ Calls(Append(f, x)) = Calls(f) \cup (IF IsCall(x) THEN {x.value} ELSE {})
    BY <1>0, <1>2, CallAppended
  <2> QED
    BY <1>2, <1>3, <2>1
<1> QED
  BY <1>1, <1>2, <1>4 DEF f

\* The drain takes on sends whose calls were never flushed before.
LEMMA OnceTodo ==
  ASSUME OnceInv, NoneTwice(todo'), Calls(todo') \subseteq flushed' \ flushed,
         flushed \subseteq flushed', UNCHANGED <<chunks, got>>
  PROVE  OnceInv'
  BY DEF OnceInv, Stream!CallOnce

\* Every read and parse of the drain does.
LEMMA OnceParse ==
  ASSUME StreamInv, OnceInv, Stream!SeesCancel \/ Stream!ReadFails \/ Stream!Parse
  PROVE  OnceInv'
<1> DEFINE x == Stream!Done(finish)
           y == Stream!SendAbortError
           z == Stream!Sending("text", "text", "emit")
           new == ({block} \cap Stream!ToolStart) \ flushed
<1>1. /\ x \in StreamSend /\ ~IsCall(x) /\ y \in StreamSend /\ ~IsCall(y)
      /\ z \in StreamSend /\ ~IsCall(z)
  BY DEF StreamInv, StreamTypes, StreamSend, ChunkType, ChunkValue, IsCall, Stream!Done,
     Stream!SendAbortError, Stream!Sending
<1> HIDE DEF x, y, z
<1>2. ASSUME NEW e \in {x, y, z}
      PROVE  /\ NoneTwice(Stream!Flush) /\ Calls(Stream!Flush) = new
             /\ NoneTwice(Stream!Flush \o <<e>>) /\ Calls(Stream!Flush \o <<e>>) = new
             /\ NoneTwice(<<e>>) /\ Calls(<<e>>) = {} /\ NoneTwice(<<>>) /\ Calls(<<>>) = {}
  BY <1>1, FlushedCalls DEF StreamInv
<1>3. UNCHANGED <<chunks, got>>
  BY DEF Stream!SeesCancel, Stream!ReadFails, Stream!Parse, Stream!Finish
<1>4. CASE flushed' = flushed \cup ({block} \cap Stream!ToolStart)
           /\ todo' \in {Stream!Flush, Stream!Flush \o <<x>>, Stream!Flush \o <<y>>, <<>>}
  <2>1. NoneTwice(todo') /\ Calls(todo') \subseteq new
    BY <1>2, <1>4
  <2> QED
    BY <1>3, <1>4, <2>1, OnceTodo
<1>5. CASE flushed' = flushed /\ todo' \in {<<x>>, <<z>>, <<>>}
  <2>1. NoneTwice(todo') /\ Calls(todo') = {}
    BY <1>2, <1>5
  <2> QED
    BY <1>3, <1>5, <2>1, OnceTodo
<1>6. CASE flushed' = flushed /\ block = "think" /\ todo' = Stream!Flush
  <2>1. new = {}
    BY <1>6 DEF Stream!ToolStart
  <2>2. NoneTwice(todo') /\ Calls(todo') = {}
    BY <1>2, <1>6, <2>1
  <2> QED
    BY <1>3, <1>6, <2>2, OnceTodo
<1>7. CASE Stream!SeesCancel
  BY <1>5, <1>7 DEF Stream!SeesCancel, Stream!Finish, Stream!Parser, x
<1>8. CASE Stream!ReadFails
  BY <1>4, <1>5, <1>8 DEF Stream!ReadFails, Stream!Finish, Stream!Flushed, x, y
<1>9. CASE Stream!Parse
  <2>1. CASE Head(buf) = "[DONE]"
    BY <1>4, <1>9, <2>1 DEF Stream!Parse, Stream!Finish, Stream!Flushed, x
  <2>2. CASE Head(buf) \in Stream!ToolStart
    <3>1. Stream!Flushed /\ (todo' = Stream!Flush \/ todo' = <<>>)
      BY <1>9, <2>2 DEF Stream!Parse, Stream!ToolStart
    <3> QED
      BY <1>4, <3>1 DEF Stream!Flushed
  <2>3. CASE Head(buf) = "stop"
    BY <1>4, <1>9, <2>3 DEF Stream!Parse, Stream!ToolStart, Stream!Flushed
  <2>4. CASE Head(buf) = "think"
    BY <1>5, <1>6, <1>9, <2>4 DEF Stream!Parse, Stream!ToolStart
  <2>5. CASE Head(buf) \notin Stream!ToolStart \cup {"[DONE]", "stop", "think"}
    BY <1>5, <1>9, <2>5 DEF Stream!Parse, z
  <2> QED
    BY <2>1, <2>2, <2>3, <2>4, <2>5
<1> QED
  BY <1>7, <1>8, <1>9

\* A send moves a call to the channel or drops it.
LEMMA OnceSend ==
  ASSUME StreamInv, OnceInv, Stream!Send
  PROVE  OnceInv'
<1> DEFINE s == Head(todo)
           c == [type |-> s.type, value |-> s.value]
<1>1. /\ todo # <<>> /\ s \in StreamSend /\ c \in StreamChunk /\ (IsCall(c) <=> IsCall(s))
      /\ c.value = s.value /\ UNCHANGED <<got, flushed>>
  <2>1. todo # <<>> /\ UNCHANGED <<got, flushed>>
    BY DEF Stream!Send, Stream!Parser
  <2>2. s \in StreamSend
    BY <2>1 DEF StreamInv, StreamTypes
  <2>3. s.type \in ChunkType /\ s.value \in ChunkValue
    BY <2>2 DEF StreamSend
  <2> HIDE DEF s
  <2> QED
    BY <2>1, <2>2, <2>3 DEF StreamChunk, IsCall
<1>2. /\ NoneTwice(Tail(todo)) /\ Calls(Tail(todo)) \subseteq Calls(todo)
      /\ IsCall(s) => s.value \in Calls(todo) /\ s.value \notin Calls(Tail(todo))
  BY <1>1, CallTaken DEF StreamInv, StreamTypes, OnceInv
<1> HIDE DEF c
<1>3. IsCall(c) => c.value \notin Calls(chunks)
  BY <1>1, <1>2 DEF OnceInv
<1>4. /\ NoneTwice(Append(chunks, c))
      /\ Calls(Append(chunks, c)) = Calls(chunks) \cup (IF IsCall(c) THEN {c.value} ELSE {})
  BY <1>1, <1>3, CallAppended DEF StreamInv, StreamTypes, OnceInv
<1>5. CASE chunks' = Append(chunks, c) /\ todo' = Tail(todo)
  BY <1>1, <1>2, <1>4, <1>5 DEF OnceInv, Stream!CallOnce
<1>6. CASE todo' = Tail(todo) /\ chunks' = chunks
  BY <1>1, <1>2, <1>6 DEF OnceInv, Stream!CallOnce
<1>7. CASE todo' = <<Stream!Done(finish)>> /\ chunks' = chunks
  <2>1. Stream!Done(finish) \in StreamSend /\ ~IsCall(Stream!Done(finish))
    BY DEF StreamInv, StreamTypes, StreamSend, ChunkType, ChunkValue, IsCall, Stream!Done,
       Stream!Sending
  <2>2. NoneTwice(todo') /\ Calls(todo') = {}
    BY <1>7, <2>1, FlushedCalls DEF StreamInv
  <2> QED
    BY <1>1, <1>7, <2>2, OnceTodo
<1> QED
  BY <1>5, <1>6, <1>7 DEF Stream!Send, c

\* The consumer takes a chunk: a call of it is new to what it holds.
LEMMA OnceConsume ==
  ASSUME StreamInv, OnceInv, Stream!Consume
  PROVE  OnceInv'
<1> DEFINE c == Head(chunks)
           calls == got.calls
<1>1. /\ chunks # <<>> /\ chunks' = Tail(chunks) /\ UNCHANGED <<todo, flushed>>
      /\ c \in StreamChunk /\ calls \in Seq(ChunkValue)
  BY DEF Stream!Consume, Stream!Parser, StreamInv, StreamTypes, OnceInv
<1>2. /\ NoneTwice(chunks') /\ Calls(chunks') \subseteq Calls(chunks)
      /\ IsCall(c) => c.value \in Calls(chunks) /\ c.value \notin Calls(chunks')
  BY <1>1, CallTaken DEF StreamInv, StreamTypes, OnceInv
<1>3. got'.calls = calls \/ (IsCall(c) /\ got'.calls = Append(calls, c.value))
  <2>1. got'.calls = calls \/ got' = Stream!Taken(c)
    BY DEF Stream!Consume, StreamInv, StreamTypes
  <2> QED
    BY <2>1 DEF Stream!Taken, StreamInv, StreamTypes, IsCall
<1>4. CASE got'.calls = calls
  BY <1>1, <1>2, <1>4 DEF OnceInv, Stream!CallOnce
<1>5. CASE IsCall(c) /\ got'.calls = Append(calls, c.value)
  <2>1. c.value \in ChunkValue /\ c.value \in flushed /\ c.value \notin HeldCalls(calls)
    BY <1>1, <1>2, <1>5 DEF OnceInv, StreamChunk
  <2> DEFINE v == c.value
             new == Append(calls, v)
  <2> HIDE DEF v, calls
  <2>2. /\ new \in Seq(ChunkValue) /\ Len(new) = Len(calls) + 1 /\ Len(calls) \in Nat
        /\ \A i \in 1 .. Len(calls) : new[i] = calls[i]
        /\ new[Len(calls) + 1] = v
    BY <1>1, <2>1 DEF v
  <2>3. 1 .. Len(calls) + 1 = (1 .. Len(calls)) \cup {Len(calls) + 1}
    BY <2>2
  <2>4. DOMAIN new = 1 .. Len(new) /\ DOMAIN calls = 1 .. Len(calls)
    BY <1>1, <2>2
  <2> HIDE DEF new
  <2>5. HeldCalls(new) = HeldCalls(calls) \cup {v}
    BY <2>2, <2>3 DEF HeldCalls
  <2>6. Stream!IsInjective(new)
    <3>1. \A i, k \in 1 .. Len(calls) : calls[i] = calls[k] => i = k
      BY <2>4 DEF OnceInv, Stream!CallOnce, Stream!IsInjective, calls
    <3>2. \A i \in 1 .. Len(calls) : calls[i] # v
      BY <2>1 DEF HeldCalls, v
    <3>3. \A i, k \in 1 .. Len(new) : new[i] = new[k] => i = k
      BY <2>2, <2>3, <3>1, <3>2
    <3> QED
      BY <2>4, <3>3 DEF Stream!IsInjective
  <2>7. got'.calls = new
    BY <1>5 DEF new, v
  <2> QED
    BY <1>1, <1>2, <1>5, <2>1, <2>2, <2>5, <2>6, <2>7 DEF OnceInv, Stream!CallOnce, v, calls
<1> QED
  BY <1>3, <1>4, <1>5

\* A tool block that the provider replays is run once (streaming.go flushToolUse):
\* for any events, statuses and channel size no consumer holds one id twice.
THEOREM CallsRunOnce == Stream!Spec => []Stream!CallOnce
<1>1. Stream!Init => OnceInv
  <2> SUFFICES ASSUME Stream!Init PROVE OnceInv
    OBVIOUS
  <2>1. todo = <<>> /\ chunks = <<>> /\ got.calls = <<>>
    BY DEF Stream!Init, Stream!Waiting
  <2>2. NoneTwice(<<>>) /\ Calls(<<>>) = {} /\ HeldCalls(<<>>) = {} /\ Stream!IsInjective(<<>>)
    BY DEF NoneTwice, Calls, HeldCalls, Stream!IsInjective
  <2> QED
    BY <2>1, <2>2 DEF OnceInv, Stream!CallOnce
<1>2. StreamInv /\ OnceInv /\ [Stream!Next]_(Stream!vars) => OnceInv'
  <2> SUFFICES ASSUME StreamInv, OnceInv, [Stream!Next]_(Stream!vars) PROVE OnceInv'
    OBVIOUS
  <2>1. ASSUME UNCHANGED <<todo, chunks, flushed>>, got'.calls = got.calls PROVE OnceInv'
    BY <2>1 DEF OnceInv, Stream!CallOnce
  <2>2. ASSUME NEW s \in Status, Stream!StreamRejected(s) PROVE OnceInv'
    <3>1. UNCHANGED <<todo, flushed, got>>
      BY <2>2 DEF Stream!StreamRejected, Stream!Parser
    <3>2. Len(chunks') = 1 /\ chunks'[1].type = "error"
      BY <2>2 DEF Stream!StreamRejected
    <3>3. NoneTwice(chunks') /\ Calls(chunks') = {}
      BY <3>2, NoCalls DEF IsCall
    <3> QED
      BY <3>1, <3>3 DEF OnceInv, Stream!CallOnce
  <2>3. ASSUME \/ \E e \in Event : Stream!ServerSends(e)
               \/ \E how \in {"eof", "failed"} : Stream!BodyEnds(how)
               \/ Stream!IdleElapses \/ Stream!SseWatchdog \/ Stream!Read \/ Stream!Cancel
               \/ Stream!StreamOpens \/ Stream!DrainEnds \/ UNCHANGED Stream!vars
        PROVE  OnceInv'
    BY <2>1, <2>3 DEF Stream!ServerSends, Stream!BodyEnds, Stream!IdleElapses, Stream!StreamOpens,
       Stream!DrainEnds, Stream!SseWatchdog, Stream!Abort, Stream!Read, Stream!Cancel,
       Stream!Parser, Stream!vars
  <2>4. ASSUME Stream!StreamRefused \/ Stream!ChannelClosed PROVE OnceInv'
    BY <2>1, <2>4 DEF Stream!StreamRefused, Stream!ChannelClosed, Stream!Parser, StreamInv, StreamTypes
  <2> QED
    BY <2>2, <2>3, <2>4, OnceParse, OnceSend, OnceConsume
       DEF Stream!Next, Stream!DrainStep, Stream!ConsumerStep
<1>3. OnceInv => Stream!CallOnce
  BY DEF OnceInv
<1> QED
  BY <1>1, <1>2, <1>3, StreamInvariance, PTL DEF Stream!Spec

-----------------------------------------------------------------------------
(***************************************************************************)
(* Checkpoints and /undo, for any number of sessions, refs and seconds:    *)
(* the next /undo goes to the snapshot the last one took first.            *)
(***************************************************************************)
CONSTANTS DefaultKeep, PerSession, MaxAge, MaxDepth, MaxTree, MaxUndo
VARIABLES made, store, second, tree, trees, refs, turns, holder, cancelled, undo, undos,
          died, latest

Snapshots == INSTANCE Checkpoint WITH clock <- second, active <- holder, crashes <- died

AnyRef == [s : Session, kind : {"turn", "pre"}, n : Nat, at : Nat, tree : Nat]

\* A store being made is not complete, and a worktree is one that was written.
PlacesInv ==
  /\ made \in 0 .. 4 /\ store \in {"closed", "making", "open", "disabled"}
  /\ store = "making" => made < 4
  /\ second \in Nat \ {0} /\ trees \in Nat /\ tree \in 0 .. trees
  /\ turns \in [Session -> Nat]
  /\ holder \in [Session -> {"idle", "client", "auto", "undo"}]
  /\ \/ undo = Snapshots!NoUndo
     \/ \E p \in {"planned", "minted", "waiting"}, s \in Session :
          undo = [pc |-> p, s |-> s, live |-> undo.live, target |-> undo.target]

\* A ref is of a second gone by and of a tree once written, and its id is its own.
RefsInv ==
  /\ refs \subseteq AnyRef /\ IsFiniteSet(refs)
  /\ \A r \in refs : r.at \in 1 .. second /\ r.tree \in 0 .. trees
  /\ \A r, q \in refs : Snapshots!Id(r) = Snapshots!Id(q) => r = q

\* The pre-restore snapshot minted last precedes what its session has besides.
LatestInv ==
  /\ latest \in [Session -> {Snapshots!NoRef} \cup AnyRef]
  /\ \A s \in Session : latest[s] # Snapshots!NoRef => latest[s].s = s
  /\ \A s \in Session : latest[s] \in refs =>
       \A q \in Snapshots!Mine(refs, s) : q = latest[s] \/ Snapshots!WalkBefore(latest[s], q)

UndoInv == PlacesInv /\ RefsInv /\ LatestInv

-----------------------------------------------------------------------------
\* The instance counts as FiniteSets does.
LEMMA RefsCount == \A S : Snapshots!Cardinality(S) = Cardinality(S)
  BY DEF Cardinality, Snapshots!Cardinality

\* A set of numbers has a smallest.
LEMMA LeastOf ==
  ASSUME NEW S, S \subseteq Nat, S # {}
  PROVE  \E i \in S : \A j \in S : i <= j
<1>1. PICK m \in S : \A k \in S : <<k, m>> \notin OpToRel(<, Nat)
  BY WFMin, NatLessThanWellFounded, Zenon
<1>2. \A k \in S : ~(k < m)
  BY <1>1, Zenon DEF OpToRel
<1> QED
  BY <1>2

\* A finite set of numbers has a greatest.
LEMMA GreatestOf ==
  ASSUME NEW S, S \subseteq Nat, S # {}, IsFiniteSet(S)
  PROVE  \E i \in S : \A j \in S : j <= i
<1> DEFINE Topped(T) == \E i \in T : \A j \in T : j <= i
           Bad == {c \in Nat : \E T \in SUBSET S : T # {} /\ Cardinality(T) = c /\ ~Topped(T)}
<1>1. \A T \in SUBSET S : IsFiniteSet(T) /\ Cardinality(T) \in Nat
  BY FS_Subset, FS_CardinalityType
<1>2. SUFFICES Bad = {}
  BY <1>1
<1>3. SUFFICES ASSUME Bad # {} PROVE FALSE
  OBVIOUS
<1>4. PICK c \in Bad : \A d \in Bad : c <= d
  BY <1>3, LeastOf
<1>5. PICK T \in SUBSET S : T # {} /\ Cardinality(T) = c /\ ~Topped(T)
  BY <1>4
<1>6. PICK x \in T : TRUE
  BY <1>5
<1> DEFINE U == T \ {x}
<1>7. U \in SUBSET S /\ Cardinality(U) = c - 1 /\ c \in Nat /\ Cardinality(U) \in Nat
  BY <1>1, <1>4, <1>5, <1>6, FS_RemoveElement
<1>8. CASE U = {}
  <2>1. \A j \in T : j = x
    BY <1>8
  <2> QED
    BY <1>5, <1>6, <2>1
<1>9. CASE U # {}
  <2>1. Topped(U)
    BY <1>4, <1>7, <1>9
  <2>2. PICK m \in U : \A j \in U : j <= m
    BY <2>1
  <2>3. m \in Nat /\ x \in Nat /\ m \in T /\ x \in T /\ \A j \in T : j \in U \/ j = x
    BY <1>5, <1>6, <2>2
  <2>4. CASE x <= m
    BY <1>5, <2>2, <2>3, <2>4
  <2>5. CASE m < x
    <3>1. \A j \in T : j <= x
      BY <2>2, <2>3, <2>5
    <3> QED
      BY <1>5, <2>3, <3>1
  <2> QED
    BY <2>3, <2>4, <2>5
<1> QED
  BY <1>8, <1>9

\* A pre-restore snapshot is numbered above those its session has.
LEMMA PreAbove ==
  ASSUME UndoInv, NEW s \in Session
  PROVE  /\ Snapshots!NextPre(s) \in Nat
         /\ \A q \in Snapshots!Mine(refs, s) : q.kind = "pre" => q.n < Snapshots!NextPre(s)
<1> DEFINE pres == {q \in Snapshots!Mine(refs, s) : q.kind = "pre"}
           numbers == {r.n : r \in pres}
           all == {0} \cup numbers
<1>1. IsFiniteSet(pres)
  BY FS_Subset DEF UndoInv, RefsInv, Snapshots!Mine
<1>2. IsFiniteSet(numbers)
  <2> DEFINE f == [r \in pres |-> r.n]
  <2>1. f \in Surjection(pres, numbers)
    BY DEF Surjection
  <2> QED
    BY <1>1, <2>1, FS_Surjection
<1>3. all \subseteq Nat /\ IsFiniteSet(all) /\ all # {}
  <2>1. numbers \subseteq Nat
    BY DEF UndoInv, RefsInv, AnyRef, Snapshots!Mine
  <2>2. IsFiniteSet({0})
    BY FS_Singleton
  <2>3. IsFiniteSet({0} \cup numbers)
    BY <1>2, <2>2, FS_Union
  <2> QED
    BY <2>1, <2>3
<1> HIDE DEF all, numbers, pres
<1>4. PICK m \in all : \A j \in all : j <= m
  BY <1>3, GreatestOf
<1>5. Snapshots!Max(all) \in all /\ \A j \in all : j <= Snapshots!Max(all)
  BY <1>3, <1>4 DEF Snapshots!Max
<1>6. Snapshots!NextPre(s) = 1 + Snapshots!Max(all)
  BY DEF Snapshots!NextPre, all, numbers, pres
<1>7. \A q \in Snapshots!Mine(refs, s) : q.kind = "pre" => q.n \in all
  BY DEF all, numbers, pres
<1>8. all \subseteq Nat /\ \A j, k \in Nat : j <= k => 1 + k \in Nat /\ j < 1 + k
  BY <1>3
<1>9. \A j \in all : 1 + Snapshots!Max(all) \in Nat /\ j < 1 + Snapshots!Max(all)
  BY <1>5, <1>8
<1> QED
  BY <1>5, <1>6, <1>7, <1>9

\* A record of one field is no ref.
LEMMA NoRefIsNone == Snapshots!NoRef \notin AnyRef
<1>1. DOMAIN Snapshots!NoRef = {"s"}
  BY DEF Snapshots!NoRef
<1>2. \A r \in AnyRef : "kind" \in DOMAIN r
  BY DEF AnyRef
<1> QED
  BY <1>1, <1>2

\* What takes refs away keeps what was said of them.
LEMMA FewerRefs ==
  ASSUME UndoInv, NEW rs, rs \subseteq refs, PlacesInv', refs' = rs, UNCHANGED <<second, trees, latest>>
  PROVE  UndoInv'
<1>1. IsFiniteSet(rs)
  BY FS_Subset DEF UndoInv, RefsInv
<1>2. RefsInv'
  BY <1>1 DEF UndoInv, RefsInv, Snapshots!Id
<1>3. LatestInv'
  BY DEF UndoInv, LatestInv, Snapshots!Mine, Snapshots!WalkBefore
<1> QED
  BY <1>2, <1>3 DEF UndoInv

\* A snapshot of a session, then the prune.
LEMMA Mints ==
  ASSUME UndoInv, PlacesInv', UNCHANGED <<second, tree, trees>>,
         NEW s \in Session, NEW k \in {"turn", "pre"}, NEW n \in Nat,
         refs' = Snapshots!Prune(Snapshots!Minted(refs, Snapshots!Ref(s, k, n))),
         \/ k = "turn" /\ latest' = [latest EXCEPT ![s] = Snapshots!NoRef]
         \/ /\ k = "pre" /\ latest' = [latest EXCEPT ![s] = Snapshots!Ref(s, k, n)]
            /\ \A q \in Snapshots!Mine(refs, s) : q.kind = "pre" => q.n < n
  PROVE  UndoInv'
<1> DEFINE new == Snapshots!Ref(s, k, n)
<1>1. /\ new \in AnyRef /\ new.at \in 1 .. second /\ new.tree \in 0 .. trees
      /\ new.s = s /\ new.kind = k /\ new.n = n /\ new.at = second
  BY DEF Snapshots!Ref, AnyRef, UndoInv, PlacesInv
<1>2. \A r \in refs' : r = new \/ (r \in refs /\ Snapshots!Id(r) # Snapshots!Id(new))
  BY DEF Snapshots!Prune, Snapshots!Minted
<1>3. IsFiniteSet(refs')
  <2>1. IsFiniteSet(refs \cup {new})
    BY FS_AddElement DEF UndoInv, RefsInv
  <2>2. refs' \subseteq refs \cup {new}
    BY <1>2
  <2> QED
    BY <2>1, <2>2, FS_Subset
<1> HIDE DEF new
<1>4. RefsInv'
  <2>1. refs' \subseteq AnyRef /\ \A r \in refs' : r.at \in 1 .. second' /\ r.tree \in 0 .. trees'
    BY <1>1, <1>2 DEF UndoInv, RefsInv
  <2>2. \A r, q \in refs' : Snapshots!Id(r) = Snapshots!Id(q) => r = q
    BY <1>2 DEF UndoInv, RefsInv
  <2> QED
    BY <1>3, <2>1, <2>2 DEF RefsInv
<1>5. /\ latest' \in [Session -> {Snapshots!NoRef} \cup AnyRef]
      /\ \A o \in Session \ {s} : latest'[o] = latest[o]
      /\ latest'[s] = Snapshots!NoRef \/ (k = "pre" /\ latest'[s] = new)
  BY <1>1 DEF UndoInv, LatestInv, new
<1>6. \A o \in Session : latest'[o] # Snapshots!NoRef => latest'[o].s = o
  BY <1>1, <1>5 DEF UndoInv, LatestInv
<1>7. ASSUME NEW o \in Session \ {s}, latest'[o] \in refs', NEW q \in Snapshots!Mine(refs', o)
      PROVE  q = latest'[o] \/ Snapshots!WalkBefore(latest'[o], q)
  <2>1. latest'[o].s = o
    <3>1. latest'[o] # Snapshots!NoRef
      BY <1>4, <1>7, NoRefIsNone DEF RefsInv
    <3> QED
      BY <1>6, <3>1
  <2>2. latest'[o] \in refs /\ q \in Snapshots!Mine(refs, o)
    BY <1>1, <1>2, <1>7, <2>1 DEF Snapshots!Mine
  <2> QED
    BY <1>5, <2>2 DEF UndoInv, LatestInv
<1>8. ASSUME latest'[s] \in refs', NEW q \in Snapshots!Mine(refs', s), q # latest'[s]
      PROVE  Snapshots!WalkBefore(latest'[s], q)
  <2>1. k = "pre" /\ latest'[s] = new
    BY <1>4, <1>5, <1>8, NoRefIsNone DEF RefsInv
  <2>2. q \in refs /\ q.s = s /\ q \in Snapshots!Mine(refs, s)
    BY <1>2, <1>8, <2>1 DEF Snapshots!Mine
  <2>3. q.kind = "pre" => q.n < n
    BY <2>1, <2>2
  <2>4. /\ q.at <= second /\ q.at \in Nat /\ second \in Nat /\ q.n \in Nat
        /\ q.kind \in {"turn", "pre"}
    BY <2>2 DEF UndoInv, RefsInv, PlacesInv, AnyRef
  <2> QED
    BY <1>1, <2>1, <2>3, <2>4 DEF Snapshots!WalkBefore
<1>9. LatestInv'
  BY <1>5, <1>6, <1>7, <1>8 DEF LatestInv
<1> QED
  BY <1>4, <1>9 DEF UndoInv

\* A step that leaves the refs, the clock's past and the snapshots alone.
LEMMA RefsAlone ==
  ASSUME UndoInv, PlacesInv', UNCHANGED <<refs, latest>>, second' >= second, trees' >= trees
  PROVE  UndoInv'
<1>1. RefsInv'
  <2>1. second \in Nat /\ second' \in Nat /\ trees \in Nat /\ trees' \in Nat
    BY DEF UndoInv, PlacesInv
  <2>2. \A r \in refs : r.at \in 1 .. second /\ r.tree \in 0 .. trees
    BY DEF UndoInv, RefsInv
  <2>3. \A r \in refs : r.at \in 1 .. second' /\ r.tree \in 0 .. trees'
    BY <2>1, <2>2
  <2> QED
    BY <2>3 DEF UndoInv, RefsInv
<1>2. LatestInv'
  BY DEF UndoInv, LatestInv
<1> QED
  BY <1>1, <1>2 DEF UndoInv

\* The store opens, is made, fails and dies; time passes.
LEMMA StoreLives ==
  ASSUME Snapshots!CheckpointAssumption, UndoInv,
         \/ Snapshots!OpenFresh \/ Snapshots!InitStep \/ Snapshots!InitFails \/ Snapshots!OpenExisting
         \/ Snapshots!Crash \/ Snapshots!Second
  PROVE  UndoInv'
<1> USE DEF Snapshots!Complete
<1>1. PlacesInv' /\ UNCHANGED <<refs, latest, trees>> /\ second' >= second
  <2>1. CASE Snapshots!OpenFresh \/ Snapshots!InitStep \/ Snapshots!InitFails \/ Snapshots!OpenExisting
    BY <2>1 DEF UndoInv, PlacesInv, Snapshots!OpenFresh, Snapshots!InitStep, Snapshots!InitFails,
                Snapshots!OpenExisting
  <2>2. CASE Snapshots!Crash
    BY <2>2 DEF UndoInv, PlacesInv, Snapshots!Crash
  <2>3. CASE Snapshots!Second
    BY <2>3 DEF UndoInv, PlacesInv, Snapshots!Second
  <2> QED
    BY <2>1, <2>2, <2>3
<1>2. trees' >= trees
  BY <1>1 DEF UndoInv, PlacesInv
<1> QED
  BY <1>1, <1>2, RefsAlone

\* Sweeps, deletions, and turns with their writes.
LEMMA TurnsRun ==
  ASSUME UndoInv, \/ Snapshots!SessionStart \/ Snapshots!TerminalRestore
                  \/ \E s \in Session : \/ Snapshots!DeleteSession(s) \/ Snapshots!Write(s) \/ Snapshots!EndTurn(s)
                                        \/ \E kind \in {"client", "auto"} : Snapshots!StartTurn(s, kind)
  PROVE  UndoInv'
<1>1. second \in Nat /\ trees \in Nat /\ turns \in [Session -> Nat]
  BY DEF UndoInv, PlacesInv
<1>2. CASE Snapshots!SessionStart
  <2>1. refs' \subseteq refs
    BY <1>2 DEF Snapshots!SessionStart, Snapshots!Sweep
  <2>2. PlacesInv' /\ UNCHANGED <<second, trees, latest>>
    BY <1>2 DEF UndoInv, PlacesInv, Snapshots!SessionStart
  <2> QED
    BY <2>1, <2>2, FewerRefs
<1>3. CASE Snapshots!TerminalRestore
  <2>1. PICK r \in refs : tree' = r.tree
    BY <1>3 DEF Snapshots!TerminalRestore
  <2>2. tree' \in 0 .. trees
    BY <2>1 DEF UndoInv, RefsInv
  <2>3. PlacesInv' /\ UNCHANGED <<second, trees, refs, latest>>
    BY <1>3, <2>2 DEF UndoInv, PlacesInv, Snapshots!TerminalRestore
  <2> QED
    BY <1>1, <2>3, RefsAlone
<1>4. ASSUME NEW s \in Session, Snapshots!DeleteSession(s) PROVE UndoInv'
  <2>1. PlacesInv' /\ UNCHANGED <<second, trees>> /\ latest' = [latest EXCEPT ![s] = Snapshots!NoRef]
    BY <1>4 DEF UndoInv, PlacesInv, Snapshots!DeleteSession
  <2>2. refs' \subseteq refs /\ IsFiniteSet(refs')
    BY <1>4, FS_Subset DEF UndoInv, RefsInv, Snapshots!DeleteSession
  <2>3. RefsInv'
    BY <2>1, <2>2 DEF UndoInv, RefsInv, Snapshots!Id
  <2>4. /\ latest' \in [Session -> {Snapshots!NoRef} \cup AnyRef] /\ latest'[s] = Snapshots!NoRef
        /\ \A o \in Session \ {s} : latest'[o] = latest[o]
    BY <2>1 DEF UndoInv, LatestInv
  <2>5. latest'[s] \notin refs'
    BY <2>3, <2>4, NoRefIsNone DEF RefsInv
  <2>6. \A o \in Session : latest'[o] \in refs' =>
          \A q \in Snapshots!Mine(refs', o) : q = latest'[o] \/ Snapshots!WalkBefore(latest'[o], q)
    BY <2>2, <2>4, <2>5 DEF UndoInv, LatestInv, Snapshots!Mine
  <2>7. LatestInv'
    BY <2>4, <2>6 DEF UndoInv, LatestInv
  <2> QED
    BY <2>1, <2>3, <2>7 DEF UndoInv
<1>5. ASSUME NEW s \in Session, Snapshots!Write(s) \/ Snapshots!EndTurn(s) PROVE UndoInv'
  <2>1. PlacesInv' /\ UNCHANGED <<refs, latest, second>> /\ trees' >= trees
    <3>1. CASE Snapshots!Write(s)
      BY <1>1, <3>1 DEF UndoInv, PlacesInv, Snapshots!Write
    <3>2. CASE Snapshots!EndTurn(s)
      BY <1>1, <3>2 DEF UndoInv, PlacesInv, Snapshots!EndTurn
    <3> QED
      BY <1>5, <3>1, <3>2
  <2> QED
    BY <1>1, <2>1, RefsAlone
<1>6. ASSUME NEW s \in Session, NEW kind \in {"client", "auto"}, Snapshots!StartTurn(s, kind) PROVE UndoInv'
  <2>1. PlacesInv' /\ UNCHANGED <<second, tree, trees>> /\ turns[s] + 1 \in Nat
    BY <1>1, <1>6 DEF UndoInv, PlacesInv, Snapshots!StartTurn
  <2>2. CASE UNCHANGED <<refs, latest>>
    BY <1>1, <2>1, <2>2, RefsAlone
  <2>3. CASE /\ refs' = Snapshots!Prune(Snapshots!Minted(refs, Snapshots!Ref(s, "turn", turns[s] + 1)))
             /\ latest' = [latest EXCEPT ![s] = Snapshots!NoRef]
    BY <2>1, <2>3, Mints
  <2> QED
    BY <1>6, <2>2, <2>3 DEF Snapshots!StartTurn
<1> QED
  BY <1>2, <1>3, <1>4, <1>5, <1>6

\* The steps of /undo.
LEMMA UndoSteps ==
  ASSUME UndoInv, \/ \E s \in Session, depth \in 1 .. MaxDepth : Snapshots!PrepareUndo(s, depth)
                  \/ Snapshots!UndoRefused \/ Snapshots!UndoSnapshot \/ Snapshots!UndoCancels
                  \/ Snapshots!UndoRestore
  PROVE  UndoInv'
<1>1. second \in Nat /\ trees \in Nat /\ turns \in [Session -> Nat]
  BY DEF UndoInv, PlacesInv
<1>2. ASSUME NEW s \in Session, NEW depth \in 1 .. MaxDepth, Snapshots!PrepareUndo(s, depth) PROVE UndoInv'
  <2> DEFINE t == Snapshots!Id(Snapshots!WalkTarget(refs, s, depth))
             l == holder[s] = "client"
  <2>1. undo' = [pc |-> "planned", s |-> s, live |-> l, target |-> t]
    BY <1>2 DEF Snapshots!PrepareUndo
  <2>2. holder' \in [Session -> {"idle", "client", "auto", "undo"}]
        /\ UNCHANGED <<made, store, second, tree, trees, refs, turns, latest>>
    BY <1>2 DEF Snapshots!PrepareUndo, UndoInv, PlacesInv
  <2> HIDE DEF t, l
  <2>3. PlacesInv'
    BY <2>1, <2>2 DEF UndoInv, PlacesInv
  <2> QED
    BY <1>1, <2>2, <2>3, RefsAlone
<1>3. CASE Snapshots!UndoRefused \/ Snapshots!UndoCancels \/ Snapshots!UndoRestore
  <2>1. undo # Snapshots!NoUndo
    BY <1>3 DEF Snapshots!UndoRefused, Snapshots!UndoCancels, Snapshots!UndoRestore, Snapshots!NoUndo
  <2>2. PICK p \in {"planned", "minted", "waiting"}, s \in Session :
          undo = [pc |-> p, s |-> s, live |-> undo.live, target |-> undo.target]
    BY <2>1 DEF UndoInv, PlacesInv
  <2>3. /\ UNCHANGED <<made, store, second, trees, refs, turns, latest>>
        /\ tree' = tree \/ \E r \in refs : tree' = r.tree
        /\ holder' = holder \/ holder' = [holder EXCEPT ![s] = "idle"]
        /\ undo' = Snapshots!NoUndo \/ undo' = [pc |-> "waiting", s |-> s, live |-> undo.live, target |-> undo.target]
    BY <1>3, <2>2 DEF Snapshots!UndoRefused, Snapshots!UndoCancels, Snapshots!UndoRestore, Snapshots!UndoEnds
  <2>4. tree' \in 0 .. trees
    BY <2>3 DEF UndoInv, PlacesInv, RefsInv
  <2>5. holder' \in [Session -> {"idle", "client", "auto", "undo"}]
    BY <2>3 DEF UndoInv, PlacesInv
  <2>6. PlacesInv'
    BY <2>3, <2>4, <2>5 DEF UndoInv, PlacesInv
  <2> QED
    BY <1>1, <2>3, <2>6, RefsAlone
<1>4. CASE Snapshots!UndoSnapshot
  <2>1. undo # Snapshots!NoUndo
    BY <1>4 DEF Snapshots!UndoSnapshot, Snapshots!NoUndo
  <2>2. PICK p \in {"planned", "minted", "waiting"}, s \in Session :
          undo = [pc |-> p, s |-> s, live |-> undo.live, target |-> undo.target]
    BY <2>1 DEF UndoInv, PlacesInv
  <2> DEFINE new == Snapshots!Ref(s, "pre", Snapshots!NextPre(s))
  <2>3. /\ UNCHANGED <<made, store, second, tree, trees, turns>>
        /\ \/ /\ refs' = Snapshots!Prune(Snapshots!Minted(refs, new))
              /\ latest' = [latest EXCEPT ![s] = new]
              /\ undo' = [pc |-> "minted", s |-> s, live |-> undo.live, target |-> undo.target] /\ holder' = holder
           \/ /\ undo' = Snapshots!NoUndo /\ UNCHANGED <<refs, latest>>
              /\ holder' = holder \/ holder' = [holder EXCEPT ![s] = "idle"]
    BY <1>4, <2>2 DEF Snapshots!UndoSnapshot, Snapshots!UndoEnds
  <2> HIDE DEF new
  <2>4. holder' \in [Session -> {"idle", "client", "auto", "undo"}]
    BY <2>3 DEF UndoInv, PlacesInv
  <2>5. PlacesInv'
    BY <2>3, <2>4 DEF UndoInv, PlacesInv
  <2>6. CASE UNCHANGED <<refs, latest>>
    BY <1>1, <2>3, <2>5, <2>6, RefsAlone
  <2>7. CASE /\ refs' = Snapshots!Prune(Snapshots!Minted(refs, new))
             /\ latest' = [latest EXCEPT ![s] = new]
    BY <2>3, <2>5, <2>7, PreAbove, Mints DEF new
  <2> QED
    BY <2>3, <2>6, <2>7
<1> QED
  BY <1>2, <1>3, <1>4

\* The store keeps its refs sound over every step.
THEOREM CheckpointInvariance ==
  ASSUME Snapshots!CheckpointAssumption
  PROVE  Snapshots!Spec => [](Snapshots!TypeOK /\ UndoInv)
<1>1. Snapshots!Init => UndoInv
  <2> SUFFICES ASSUME Snapshots!Init PROVE UndoInv
    OBVIOUS
  <2>1. PlacesInv
    BY DEF Snapshots!Init, PlacesInv
  <2>2. RefsInv
    BY FS_EmptySet DEF Snapshots!Init, RefsInv
  <2>3. LatestInv
    BY DEF Snapshots!Init, LatestInv
  <2> QED
    BY <2>1, <2>2, <2>3 DEF UndoInv
<1>2. UndoInv /\ [Snapshots!Next]_(Snapshots!vars) => UndoInv'
  <2> SUFFICES ASSUME UndoInv, [Snapshots!Next]_(Snapshots!vars) PROVE UndoInv'
    OBVIOUS
  <2>1. CASE UNCHANGED Snapshots!vars
    BY <2>1 DEF Snapshots!vars, UndoInv, PlacesInv, RefsInv, LatestInv
  <2>2. CASE Snapshots!Next
    BY <2>2, StoreLives, TurnsRun, UndoSteps DEF Snapshots!Next
  <2> QED
    BY <2>1, <2>2
<1>3. UndoInv => Snapshots!TypeOK
  <2> SUFFICES ASSUME UndoInv PROVE Snapshots!TypeOK
    OBVIOUS
  <2>1. undo.pc \in {"none", "planned", "minted", "waiting"}
    BY DEF UndoInv, PlacesInv, Snapshots!NoUndo
  <2>2. \A r \in refs : r.s \in Session /\ r.kind \in {"turn", "pre"} /\ r.at \in 1 .. second
    BY DEF UndoInv, RefsInv, AnyRef
  <2> QED
    BY <2>1, <2>2 DEF UndoInv, PlacesInv, Snapshots!TypeOK, Snapshots!Complete
<1> QED
  BY <1>1, <1>2, <1>3, PTL DEF Snapshots!Spec

\* One of two refs of a session precedes the other.
LEMMA WalkIsStrict ==
  ASSUME NEW a \in AnyRef, NEW b \in AnyRef, Snapshots!WalkBefore(a, b)
  PROVE  ~Snapshots!WalkBefore(b, a) /\ a # b
BY DEF Snapshots!WalkBefore, AnyRef

\* The first step of a walk leads to the ref that precedes all others.
LEMMA FirstOfWalk ==
  ASSUME RefsInv, NEW s \in Session, NEW r \in Snapshots!Mine(refs, s),
         \A q \in Snapshots!Mine(refs, s) : q = r \/ Snapshots!WalkBefore(r, q)
  PROVE  Snapshots!WalkTarget(refs, s, 1) = r
<1> DEFINE walk == Snapshots!Mine(refs, s)
           Ahead(q) == {p \in walk : Snapshots!WalkBefore(p, q)}
<1>1. IsFiniteSet(walk) /\ walk \subseteq AnyRef
  BY FS_Subset DEF RefsInv, Snapshots!Mine
<1>2. Cardinality(walk) \in Nat /\ Cardinality(walk) # 0
  BY <1>1, FS_EmptySet, FS_CardinalityType
<1>3. Snapshots!Min({1, Cardinality(walk)}) = 1
  BY <1>2 DEF Snapshots!Min
<1>4. Ahead(r) = {}
  BY <1>1, WalkIsStrict
<1>5. Cardinality(Ahead(r)) = 1 - 1
  BY <1>4, FS_EmptySet
<1>6. ASSUME NEW q \in walk, Cardinality(Ahead(q)) = 1 - 1 PROVE q = r
  <2>1. IsFiniteSet(Ahead(q))
    BY <1>1, FS_Subset
  <2>2. Ahead(q) = {}
    BY <1>6, <2>1, FS_EmptySet
  <2> QED
    BY <2>2
<1>7. Snapshots!WalkTarget(refs, s, 1) = CHOOSE q \in walk : Cardinality(Ahead(q)) = 1 - 1
  BY <1>3, RefsCount DEF Snapshots!WalkTarget
<1> HIDE DEF walk, Ahead
<1>8. r \in walk
  BY DEF walk
<1> QED
  BY <1>5, <1>6, <1>7, <1>8

\* Until its session takes another snapshot, the next /undo goes to the snapshot
\* the last one took first, whatever is pruned, swept, deleted or taken by other
\* sessions meanwhile, and no two refs of a session carry one id (store.go
\* undoWalkTarget, prune, Sweep).
THEOREM UndoIsReversible ==
  ASSUME Snapshots!CheckpointAssumption
  PROVE  Snapshots!Spec => []Snapshots!UndoOfUndo
<1>1. UndoInv => Snapshots!UndoOfUndo
  <2> SUFFICES ASSUME UndoInv PROVE Snapshots!UndoOfUndo
    OBVIOUS
  <2>1. ASSUME NEW s \in Session, latest[s] \in refs PROVE Snapshots!WalkTarget(refs, s, 1) = latest[s]
    <3>1. latest[s].s = s
      BY <2>1, NoRefIsNone DEF UndoInv, LatestInv, RefsInv
    <3>2. latest[s] \in Snapshots!Mine(refs, s)
      BY <2>1, <3>1 DEF Snapshots!Mine
    <3> QED
      BY <2>1, <3>2, FirstOfWalk DEF UndoInv, LatestInv
  <2>2. ASSUME NEW s \in Session
        PROVE  \A r, q \in Snapshots!Mine(refs, s) : Snapshots!Id(r) = Snapshots!Id(q) => r = q
    BY DEF UndoInv, RefsInv, Snapshots!Mine
  <2> QED
    BY <2>1, <2>2 DEF Snapshots!UndoOfUndo
<1> QED
  BY <1>1, CheckpointInvariance, PTL

-----------------------------------------------------------------------------
(***************************************************************************)
(* The listing, for any number of sessions and any page size.              *)
(***************************************************************************)
Headers == Nat \X Nat

\* How a session nobody touched stands in the listing under way.
Listing(s) ==
  /\ listed[s] <= 1
  /\ s \in Store!Visible /\ cursor \in Headers =>
       listed[s] = IF Store!AfterListCursor(Store!Header(s), cursor) THEN 0 ELSE 1
  /\ s \in Store!Visible /\ cursor = Store!Done /\ sweep.at = "idle" /\ (\E v \in Session : listed[v] > 0) =>
       listed[s] = 1

\* Nothing is listed before the first page or while a sweep runs.
PagesInv ==
  /\ now \in 0 .. Horizon
  /\ transcript \in [Session -> Nat] /\ marker \in [Session -> Nat] /\ listed \in [Session -> Nat]
  /\ cursor \in {Store!NoCursor, Store!Done} \cup Headers
  /\ cursor = Store!NoCursor => \A s \in Session : listed[s] = 0
  /\ sweep.at # "idle" => cursor = Store!Done /\ \A s \in Session : listed[s] = 0
  /\ \A s \in Session \ moved : Listing(s)

\* The instance counts, and calls finite, what FiniteSets does.
LEMMA StoreCounts ==
  /\ \A S : Store!Cardinality(S) = Cardinality(S)
  /\ \A S : Store!IsFiniteSet(S) = IsFiniteSet(S)
BY DEF Cardinality, Store!Cardinality, IsFiniteSet, Store!IsFiniteSet

\* Where a listing stands tells a header from a listing not begun or over.
LEMMA CursorsDiffer ==
  /\ Store!NoCursor # Store!Done /\ Store!NoCursor \notin Headers /\ Store!Done \notin Headers
<1>1. Len(Store!NoCursor) = 1 /\ Len(Store!Done) = 1 /\ \A h \in Headers : Len(h) = 2
  BY DEF Store!NoCursor, Store!Done, Headers
<1> QED
  BY <1>1 DEF Store!NoCursor, Store!Done

\* Headers are totally ordered, and a header is after a cursor when the cursor's
\* precedes it.
LEMMA HeaderOrder ==
  ASSUME NEW a \in Headers, NEW b \in Headers
  PROVE  /\ a = b \/ Store!HeaderBefore(a, b) \/ Store!HeaderBefore(b, a)
         /\ Store!HeaderBefore(a, b) => a # b /\ ~Store!HeaderBefore(b, a)
         /\ \A c \in Headers : Store!HeaderBefore(a, b) /\ Store!HeaderBefore(b, c) => Store!HeaderBefore(a, c)
         /\ Store!AfterListCursor(a, b) <=> Store!HeaderBefore(b, a)
<1>1. a = <<a[1], a[2]>> /\ b = <<b[1], b[2]>> /\ a[1] \in Nat /\ a[2] \in Nat /\ b[1] \in Nat /\ b[2] \in Nat
  BY DEF Headers
<1>2. \A c \in Headers : c[1] \in Nat /\ c[2] \in Nat
  BY DEF Headers
<1> QED
  BY <1>1, <1>2 DEF Store!HeaderBefore, Store!AfterListCursor

\* The headers that precede one of a set, and how many they are.
Ahead(R, h) == {g \in R : Store!HeaderBefore(g, h)}

LEMMA Ranks ==
  ASSUME NEW R \in SUBSET Headers, IsFiniteSet(R)
  PROVE  /\ \A h \in R : Cardinality(Ahead(R, h)) \in Nat /\ Cardinality(Ahead(R, h)) < Cardinality(R)
         /\ \A a, b \in R : Store!HeaderBefore(a, b) => Cardinality(Ahead(R, a)) < Cardinality(Ahead(R, b))
         /\ Cardinality(R) \in Nat
<1>1. \A h \in R : IsFiniteSet(Ahead(R, h)) /\ Cardinality(Ahead(R, h)) \in Nat
  BY FS_Subset, FS_CardinalityType DEF Ahead
<1>2. ASSUME NEW S, IsFiniteSet(S), NEW T \in SUBSET S, NEW x \in S \ T
      PROVE  Cardinality(T) < Cardinality(S)
  BY <1>2, FS_Subset, FS_CardinalityType
<1>3. ASSUME NEW h \in R PROVE Cardinality(Ahead(R, h)) < Cardinality(R)
  <2>1. Ahead(R, h) \in SUBSET R /\ h \in R \ Ahead(R, h)
    BY HeaderOrder DEF Ahead
  <2> QED
    BY <1>2, <2>1
<1>4. ASSUME NEW a \in R, NEW b \in R, Store!HeaderBefore(a, b)
      PROVE  Cardinality(Ahead(R, a)) < Cardinality(Ahead(R, b))
  <2>1. a \in Ahead(R, b) \ Ahead(R, a)
    BY <1>4, HeaderOrder DEF Ahead
  <2>2. Ahead(R, a) \in SUBSET Ahead(R, b)
    BY <1>4, HeaderOrder DEF Ahead
  <2> QED
    BY <1>1, <1>2, <2>1, <2>2
<1> QED
  BY <1>1, <1>3, <1>4, FS_CardinalityType

\* A page that does not take all that remains ends with a header that all others
\* of the page precede, and that precedes all that is left.
LEMMA PageSplits ==
  ASSUME NEW R \in SUBSET Headers, IsFiniteSet(R), PageSize \in Nat \ {0}
  PROVE  LET page == {h \in R : Cardinality(Ahead(R, h)) < PageSize}
             end == CHOOSE h \in page : \A g \in page : g = h \/ Store!HeaderBefore(g, h) IN
         /\ Cardinality(R) <= PageSize => page = R
         /\ Cardinality(R) > PageSize =>
              /\ end \in page
              /\ \A g \in page : g = end \/ Store!HeaderBefore(g, end)
              /\ \A g \in R \ page : Store!HeaderBefore(end, g)
<1> DEFINE rank == [h \in R |-> Cardinality(Ahead(R, h))]
           page == {h \in R : Cardinality(Ahead(R, h)) < PageSize}
           end == CHOOSE h \in page : \A g \in page : g = h \/ Store!HeaderBefore(g, h)
<1>1. /\ \A h \in R : rank[h] \in Nat /\ rank[h] < Cardinality(R)
      /\ \A a, b \in R : Store!HeaderBefore(a, b) => rank[a] < rank[b]
      /\ Cardinality(R) \in Nat
  BY Ranks
<1>2. page = {h \in R : rank[h] < PageSize}
  OBVIOUS
<1> HIDE DEF rank, page
<1>3. Cardinality(R) <= PageSize => page = R
  BY <1>1, <1>2
<1>4. ASSUME Cardinality(R) > PageSize
      PROVE  \E h \in page : \A g \in page : g = h \/ Store!HeaderBefore(g, h)
  <2> DEFINE ranks == {rank[h] : h \in R}
             places == {rank[h] : h \in page}
  <2>1. R # {}
    BY <1>4, FS_EmptySet
  <2>2. ranks \subseteq Nat /\ ranks # {}
    BY <1>1, <2>1
  <2>3. PICK x \in ranks : \A y \in ranks : x <= y
    BY <2>2, LeastOf
  <2>4. PICK h \in R : \A g \in R : rank[h] <= rank[g]
    BY <2>3
  <2>5. rank[h] = 0
    <3>1. \A g \in R : ~Store!HeaderBefore(g, h)
      <4> SUFFICES ASSUME NEW g \in R, Store!HeaderBefore(g, h) PROVE FALSE
        OBVIOUS
      <4>1. rank[g] < rank[h] /\ rank[h] <= rank[g] /\ rank[g] \in Nat /\ rank[h] \in Nat
        BY <1>1, <2>4
      <4> QED
        BY <4>1
    <3>2. Ahead(R, h) = {}
      BY <3>1 DEF Ahead
    <3> QED
      BY <3>2, FS_EmptySet DEF rank
  <2>6. h \in page
    BY <1>2, <2>4, <2>5
  <2>7. places \subseteq Nat /\ places # {} /\ \A p \in places : p <= PageSize
    BY <1>1, <1>2, <2>6
  <2>8. IsFiniteSet(places)
    BY <2>7, FS_BoundedSetOfNaturals
  <2>9. PICK x2 \in places : \A y \in places : y <= x2
    BY <2>7, <2>8, GreatestOf
  <2>10. PICK k \in page : \A g \in page : rank[g] <= rank[k]
    BY <2>9
  <2>11. ASSUME NEW g \in page PROVE g = k \/ Store!HeaderBefore(g, k)
    <3>1. g \in R /\ k \in R /\ rank[g] \in Nat /\ rank[k] \in Nat /\ rank[g] <= rank[k]
      BY <1>1, <1>2, <2>10
    <3>2. ~Store!HeaderBefore(k, g)
      BY <1>1, <3>1
    <3> QED
      BY <3>1, <3>2, HeaderOrder
  <2> QED
    BY <2>11
<1>5. ASSUME Cardinality(R) > PageSize
      PROVE  end \in page /\ \A g \in page : g = end \/ Store!HeaderBefore(g, end)
  BY <1>4, <1>5
<1> HIDE DEF end
<1>6. ASSUME Cardinality(R) > PageSize, NEW g \in R \ page PROVE Store!HeaderBefore(end, g)
  <2>1. /\ end \in R /\ rank[end] \in Nat /\ rank[g] \in Nat /\ rank[end] < PageSize /\ ~(rank[g] < PageSize)
        /\ end # g
    BY <1>1, <1>2, <1>5, <1>6
  <2>2. ~Store!HeaderBefore(g, end)
    BY <1>1, <2>1
  <2> QED
    BY <2>1, <2>2, HeaderOrder
<1> QED
  BY <1>3, <1>5, <1>6 DEF page, end

\* A page lists each session of it once.
LEMMA ListPageKeeps ==
  ASSUME Store!StoreAssumption, PagesInv, Store!ListPage PROVE PagesInv'
<1> DEFINE R == Store!Remaining
           P == Store!Page
<1>1. /\ Session \subseteq Nat /\ IsFiniteSet(Session) /\ PageSize \in Nat \ {0}
      /\ transcript \in [Session -> Nat] /\ listed \in [Session -> Nat]
      /\ cursor # Store!Done /\ cursor \in {Store!NoCursor} \cup Headers
      /\ Store!Serving /\ sweep.at = "idle"
  BY StoreCounts DEF Store!StoreAssumption, PagesInv, Store!ListPage, Store!Serving
<1>2. Store!Visible \in SUBSET Session /\ \A s \in Session : Store!Header(s) \in Headers /\ Store!Header(s)[2] = s
  BY <1>1 DEF Store!Visible, Store!Header, Headers
<1>3. /\ R \in SUBSET Headers
      /\ \A s \in Session : Store!Header(s) \in R <=>
           s \in Store!Visible /\ (cursor = Store!NoCursor \/ Store!AfterListCursor(Store!Header(s), cursor))
      /\ \A h \in R : h[2] \in Session /\ h = Store!Header(h[2])
  BY <1>2 DEF Store!Remaining
<1>4. IsFiniteSet(R)
  <2> DEFINE V == {v \in Store!Visible : cursor = Store!NoCursor \/ Store!AfterListCursor(Store!Header(v), cursor)}
             f == [v \in V |-> Store!Header(v)]
  <2>1. IsFiniteSet(V)
    BY <1>1, <1>2, FS_Subset
  <2>2. f \in Surjection(V, R)
    BY DEF Surjection, Store!Remaining
  <2> QED
    BY <2>1, <2>2, FS_Surjection
<1>5. P = {h \in R : Cardinality(Ahead(R, h)) < PageSize}
  BY StoreCounts DEF Store!Page, Ahead
<1>6. /\ UNCHANGED <<now, transcript, marker, sweep, moved>>
      /\ listed' = [s \in Session |-> listed[s] + Cardinality({h \in P : h[2] = s})]
      /\ cursor' = IF Cardinality(R) > PageSize THEN Store!LastOfPage ELSE Store!Done
  BY StoreCounts DEF Store!ListPage
<1> DEFINE end == Store!LastOfPage
<1>7. end = CHOOSE h \in P : \A g \in P : g = h \/ Store!HeaderBefore(g, h)
  BY DEF Store!LastOfPage
<1> HIDE DEF R, P, end
<1>8. /\ Cardinality(R) <= PageSize => P = R
      /\ Cardinality(R) > PageSize =>
           /\ end \in P /\ \A g \in P : g = end \/ Store!HeaderBefore(g, end)
           /\ \A g \in R \ P : Store!HeaderBefore(end, g)
  BY <1>1, <1>3, <1>4, <1>5, <1>7, PageSplits
<1>9. P \in SUBSET R
  BY <1>5
<1>10. ASSUME NEW s \in Session
       PROVE  listed'[s] = IF Store!Header(s) \in P THEN listed[s] + 1 ELSE listed[s]
  <2>1. listed'[s] = listed[s] + Cardinality({h \in P : h[2] = s}) /\ listed[s] \in Nat
    BY <1>1, <1>6
  <2>2. CASE Store!Header(s) \in P
    <3>1. {h \in P : h[2] = s} = {Store!Header(s)}
      BY <1>2, <1>3, <1>9, <2>2
    <3> QED
      BY <2>1, <2>2, <3>1, FS_Singleton
  <2>3. CASE Store!Header(s) \notin P
    <3>1. {h \in P : h[2] = s} = {}
      BY <1>3, <1>9, <2>3
    <3> QED
      BY <2>1, <2>3, <3>1, FS_EmptySet
  <2> QED
    BY <2>2, <2>3
<1>11. Cardinality(R) \in Nat /\ (Cardinality(R) > PageSize \/ Cardinality(R) <= PageSize)
  BY <1>1, <1>4, FS_CardinalityType
<1>12. cursor' \in {Store!Done} \cup Headers /\ (Cardinality(R) > PageSize => cursor' = end /\ end \in Headers)
       /\ (Cardinality(R) <= PageSize => cursor' = Store!Done)
  BY <1>1, <1>3, <1>6, <1>8, <1>9, <1>11 DEF end
<1>13. listed' \in [Session -> Nat]
  <2>1. \A s \in Session : listed'[s] \in Nat
    BY <1>1, <1>10
  <2> QED
    BY <1>6, <2>1
<1>14. ASSUME NEW s \in Session \ moved PROVE Listing(s)'
  <2> DEFINE h == Store!Header(s)
  <2>1. h \in Headers /\ listed[s] \in Nat /\ Listing(s) /\ h' = h /\ (Store!Visible)' = Store!Visible
    BY <1>1, <1>2, <1>6 DEF PagesInv, Store!Header, Store!Visible
  <2>2. CASE h \in P
    <3>1. s \in Store!Visible /\ listed[s] = 0
      <4>1. s \in Store!Visible /\ (cursor = Store!NoCursor \/ Store!AfterListCursor(h, cursor))
        BY <1>3, <1>9, <2>2
      <4>2. CASE cursor = Store!NoCursor
        BY <4>1, <4>2 DEF PagesInv
      <4>3. CASE cursor # Store!NoCursor
        BY <1>1, <2>1, <4>1, <4>3 DEF Listing
      <4> QED
        BY <4>1, <4>2, <4>3
    <3>2. listed'[s] = 1
      BY <1>10, <2>2, <3>1
    <3>3. Cardinality(R) > PageSize => ~Store!AfterListCursor(h, end)
      BY <1>8, <1>12, <2>1, <2>2, HeaderOrder
    <3>4. cursor' \in Headers => cursor' = end /\ ~Store!AfterListCursor(h, cursor')
      BY <1>11, <1>12, <3>3, CursorsDiffer
    <3> HIDE DEF h
    <3>5. Listing(s)' <=>
            /\ listed'[s] <= 1
            /\ s \in Store!Visible /\ cursor' \in Headers =>
                 listed'[s] = IF Store!AfterListCursor(h, cursor') THEN 0 ELSE 1
            /\ s \in Store!Visible /\ cursor' = Store!Done /\ sweep'.at = "idle" /\ (\E v \in Session : listed'[v] > 0)
                 => listed'[s] = 1
      BY <2>1 DEF Listing, h
    <3> QED
      BY <3>2, <3>4, <3>5
  <2>3. CASE h \notin P
    <3>1. listed'[s] = listed[s] /\ listed[s] <= 1
      BY <1>10, <2>1, <2>3 DEF Listing
    <3>2. ASSUME s \in Store!Visible, h \in R
          PROVE  listed[s] = 0 /\ Cardinality(R) > PageSize /\ Store!AfterListCursor(h, end)
      <4>1. Cardinality(R) > PageSize /\ Store!HeaderBefore(end, h)
        BY <1>8, <1>11, <2>3, <3>2
      <4>2. listed[s] = 0
        <5>1. cursor = Store!NoCursor \/ Store!AfterListCursor(h, cursor)
          BY <1>3, <3>2
        <5>2. CASE cursor = Store!NoCursor
          BY <5>2 DEF PagesInv
        <5>3. CASE cursor # Store!NoCursor
          BY <1>1, <2>1, <3>2, <5>1, <5>3 DEF Listing
        <5> QED
          BY <5>2, <5>3
      <4> QED
        BY <1>12, <2>1, <4>1, <4>2, HeaderOrder
    <3>3. ASSUME s \in Store!Visible, h \notin R
          PROVE  listed[s] = 1 /\ (Cardinality(R) > PageSize => ~Store!AfterListCursor(h, end))
      <4>1. cursor \in Headers /\ ~Store!AfterListCursor(h, cursor)
        BY <1>1, <1>3, <3>3
      <4>2. listed[s] = 1
        BY <2>1, <3>3, <4>1 DEF Listing
      <4>3. ASSUME Cardinality(R) > PageSize PROVE ~Store!AfterListCursor(h, end)
        <5>1. end \in R /\ end \in Headers
          BY <1>8, <1>9, <1>12, <4>3
        <5>2. Store!AfterListCursor(end, cursor)
          BY <1>3, <4>1, <5>1, CursorsDiffer
        <5>3. h = cursor \/ Store!HeaderBefore(h, cursor)
          BY <2>1, <4>1, HeaderOrder
        <5>4. Store!HeaderBefore(h, end)
          BY <2>1, <4>1, <5>1, <5>2, <5>3, HeaderOrder
        <5> QED
          BY <2>1, <5>1, <5>4, HeaderOrder
      <4> QED
        BY <4>2, <4>3
    <3>4. cursor' \in Headers => Cardinality(R) > PageSize /\ cursor' = end
      BY <1>11, <1>12, CursorsDiffer
    <3>5. cursor' = Store!Done => ~(Cardinality(R) > PageSize)
      BY <1>12, CursorsDiffer
    <3>6. Listing(s)' <=>
            /\ listed'[s] <= 1
            /\ s \in Store!Visible /\ cursor' \in Headers =>
                 listed'[s] = IF Store!AfterListCursor(h, cursor') THEN 0 ELSE 1
            /\ s \in Store!Visible /\ cursor' = Store!Done /\ sweep'.at = "idle" /\ (\E v \in Session : listed'[v] > 0)
                 => listed'[s] = 1
      BY <2>1 DEF Listing
    <3> HIDE DEF h
    <3> QED
      BY <3>1, <3>2, <3>3, <3>4, <3>5, <3>6
  <2> QED
    BY <2>2, <2>3
<1> QED
  BY <1>1, <1>6, <1>12, <1>13, <1>14, CursorsDiffer DEF PagesInv

\* The other steps touch no session but those they record as moved, or find no
\* listing under way.
LEMMA ListingKeeps ==
  ASSUME Store!StoreAssumption, PagesInv, [Store!Next]_(Store!vars), ~Store!ListPage PROVE PagesInv'
<1> USE DEF Store!Absent
<1>1. Horizon \in Nat /\ now \in Nat /\ Store!Absent \in Nat
  BY DEF Store!StoreAssumption, PagesInv
<1>2. ASSUME NEW s \in Session, Store!AppendLine(s) \/ Store!Tombstone(s) PROVE PagesInv'
  <2>1. /\ transcript' \in [Session -> Nat] /\ marker' \in [Session -> Nat]
        /\ UNCHANGED <<now, sweep, cursor, listed>> /\ moved' = moved \cup {s}
        /\ \A v \in Session \ {s} : transcript'[v] = transcript[v] /\ marker'[v] = marker[v]
    BY <1>1, <1>2 DEF PagesInv, Store!AppendLine, Store!Tombstone
  <2>2. ASSUME NEW v \in Session \ moved' PROVE Listing(v)'
    <3>1. v \in (Store!Visible)' <=> v \in Store!Visible
      BY <2>1, <2>2 DEF Store!Visible
    <3>2. Store!Header(v)' = Store!Header(v) /\ Listing(v)
      BY <2>1, <2>2 DEF Store!Header, PagesInv
    <3> QED
      BY <2>1, <3>1, <3>2 DEF Listing, Store!AfterListCursor
  <2> QED
    BY <2>1, <2>2 DEF PagesInv
<1>3. CASE Store!ListStart \/ Store!Restart
  <2>1. /\ UNCHANGED <<now, transcript, marker>> /\ cursor' \in {Store!NoCursor, Store!Done}
        /\ listed' = [s \in Session |-> 0]
        /\ sweep'.at # "idle" => cursor' = Store!Done
    BY <1>3 DEF Store!ListStart, Store!Restart, Store!Serving
  <2>2. \A s \in Session : listed'[s] = 0
    BY <2>1
  <2>3. \A s \in Session : Listing(s)'
    BY <2>1, <2>2, CursorsDiffer DEF Listing
  <2> QED
    BY <2>1, <2>2, <2>3 DEF PagesInv
<1>4. CASE \/ \E s \in Session : Store!SweepPair(s)
           \/ Store!RemoveTranscript \/ Store!RemoveMarker \/ Store!RemoveFails
           \/ Store!SweepEnds \/ Store!SweepDies
  <2>1. sweep.at # "idle" /\ UNCHANGED <<now, cursor, listed>>
    BY <1>4 DEF Store!SweepPair, Store!RemoveTranscript, Store!PurgeFirst, Store!RemoveMarker, Store!RemoveFails,
                Store!SweepEnds, Store!SweepDies
  <2>2. cursor' = Store!Done /\ \A s \in Session : listed'[s] = 0
    BY <2>1 DEF PagesInv
  <2>3. transcript' \in [Session -> Nat] /\ marker' \in [Session -> Nat]
    BY <1>1, <1>4 DEF PagesInv, Store!SweepPair, Store!RemoveTranscript, Store!PurgeFirst, Store!RemoveMarker,
                      Store!RemoveFails, Store!SweepEnds, Store!SweepDies
  <2>4. \A s \in Session : Listing(s)'
    BY <2>2, CursorsDiffer DEF Listing
  <2> QED
    BY <2>1, <2>2, <2>3, <2>4, CursorsDiffer DEF PagesInv
<1>5. CASE Store!Tick \/ UNCHANGED Store!vars
  <2>1. UNCHANGED <<transcript, marker, sweep, cursor, listed, moved>> /\ now' \in 0 .. Horizon
    BY <1>1, <1>5 DEF Store!Tick, Store!vars, PagesInv
  <2>2. \A s \in Session : Listing(s)' <=> Listing(s)
    BY <2>1 DEF Listing, Store!Visible, Store!Header, Store!AfterListCursor
  <2> QED
    BY <2>1, <2>2 DEF PagesInv
<1> QED
  BY <1>2, <1>3, <1>4, <1>5 DEF Store!Next

\* A client that pages through the listing gets every session nobody touched
\* meanwhile once, for any page size and whatever is written, deleted or swept
\* between two pages (list.go ListSessions, filterAfterCursor).
THEOREM EachListedOnce ==
  ASSUME Store!StoreAssumption PROVE Store!Spec => []Store!ListedOnce
<1>1. Store!Init => PagesInv
  <2> SUFFICES ASSUME Store!Init PROVE PagesInv
    OBVIOUS
  <2>1. /\ now \in 0 .. Horizon /\ transcript \in [Session -> Nat] /\ marker \in [Session -> Nat]
        /\ cursor = Store!Done /\ listed = [s \in Session |-> 0]
    BY DEF Store!Init, Store!Absent, Store!StoreAssumption
  <2>2. listed \in [Session -> Nat] /\ \A s \in Session : listed[s] = 0
    BY <2>1
  <2>3. \A s \in Session : Listing(s)
    BY <2>1, <2>2, CursorsDiffer DEF Listing
  <2> QED
    BY <2>1, <2>2, <2>3 DEF PagesInv
<1>2. PagesInv /\ [Store!Next]_(Store!vars) => PagesInv'
  BY ListPageKeeps, ListingKeeps
<1>3. PagesInv => Store!ListedOnce
  BY DEF PagesInv, Listing, Store!ListedOnce, Store!Serving
<1> QED
  BY <1>1, <1>2, <1>3, PTL DEF Store!Spec
=============================================================================
