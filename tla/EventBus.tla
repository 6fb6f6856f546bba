------------------------------ MODULE EventBus ------------------------------
(***************************************************************************)
(* The in-process event bus (kit/event/bus.go) and everything that hangs   *)
(* on it while sessions stream: the turn that publishes                    *)
(* (session.streamAndEmit), the per-Run forwarder, the session-lifetime    *)
(* forwarder and the transcript writer of each session.  Thought           *)
(* and tool events travel beside the chunks, on the same                   *)
(* consumers; the audit mirror drains its own channels forever and cannot  *)
(* hold a publisher up.                                                    *)
(*                                                                         *)
(* Publish copies the subscriber list of the kind under the lock and then  *)
(* sends to each channel of the copy, waiting for room in a full one (the  *)
(* list's order is left open: a set).  A channel is bounded by Buf; nobody *)
(* ever closes it, and removing it from the list does not take it out of a *)
(* copy a publisher already holds.                                         *)
(***************************************************************************)
EXTENDS Integers, Sequences, FiniteSets

CONSTANTS Session,      \* the sessions one Runner serves
          ClientSession, \* those whose client prompts; the others run automations
          Buf,          \* the capacity of a subscriber's channel
          MaxTurns,     \* bound: turns a session runs
          MaxPublish    \* bound: events one turn publishes

BufAssumption == Buf \in Nat \ {0} /\ MaxTurns \in Nat /\ MaxPublish \in Nat

Client == "client"      \* a turn driven by Runner.Run
Server == "server"      \* a turn no Run subscription exists for

(***************************************************************************)
(* A channel is named by the consumer, its session and the turn it was     *)
(* made for (0: for the session's life).                                   *)
(***************************************************************************)
Role == {"run", "forwarder", "writer"}
Channel == [role : Role, sess : Session, turn : 0..MaxTurns]
Chan(role, s, n) == [role |-> role, sess |-> s, turn |-> n]
Event == [sess : Session, turn : 1..MaxTurns, n : 1..MaxPublish]

VARIABLES
  subs,      \* Bus.subs: the channels subscribed to AgentMessageChunk
  queue,     \* the buffered events of every channel
  sending,   \* the publish in progress of a session's turn: event and channels left
  turn,      \* the session's turn: number, origin, phase, events published
  opened,    \* sessionFor has built the session
  closed,    \* Session.Close has run its OnClose chain
  ctxDone,   \* the request context of the session's turn is cancelled
  writer,    \* the transcript writer's goroutine
  runForwarder, \* the sessions whose Run forwarder goroutine is running
  emitted    \* events handed to the session's client

vars == <<subs, queue, sending, turn, opened, closed, ctxDone, writer, runForwarder,
          emitted>>

Idle == [event |-> <<>>, left |-> {}]
NoTurn == [n |-> 0, origin |-> Client, phase |-> "none", count |-> 0]

TypeOK ==
  /\ subs \subseteq Channel
  /\ queue \in [Channel -> Seq(Event)]
  /\ \A c \in Channel : Len(queue[c]) <= Buf
  /\ sending \in [Session -> [event : Event \cup {<<>>}, left : SUBSET Channel]]
  /\ turn \in [Session -> [n : 0..MaxTurns, origin : {Client, Server},
                           phase : {"none", "body", "flush", "done"}, count : 0..MaxPublish]]
  /\ writer \in [Session -> {"none", "starting", "running", "gone"}]
  /\ runForwarder \subseteq Session
  /\ emitted \in [Session -> SUBSET Event]

Init ==
  /\ subs = {}
  /\ queue = [c \in Channel |-> <<>>]
  /\ sending = [s \in Session |-> Idle]
  /\ turn = [s \in Session |-> NoTurn]
  /\ opened = {} /\ closed = {} /\ ctxDone = {}
  /\ writer = [s \in Session |-> "none"]
  /\ runForwarder = {}
  /\ emitted = [s \in Session |-> {}]

-----------------------------------------------------------------------------
(* The bus. *)
Subscribe(c) == subs' = subs \cup {c}
Unsubscribe(c) == subs' = subs \ {c}

\* Publish takes its copy of the list; with no subscriber the event is dropped.
Publish(s) ==
  /\ turn[s].phase = "body" /\ turn[s].count < MaxPublish
  /\ sending[s] = Idle
  /\ LET e == [sess |-> s, turn |-> turn[s].n, n |-> turn[s].count + 1] IN
       sending' = [sending EXCEPT ![s] =
                     IF subs = {} THEN Idle ELSE [event |-> e, left |-> subs]]
  /\ turn' = [turn EXCEPT ![s].count = @ + 1]
  /\ UNCHANGED <<subs, queue, opened, closed, ctxDone, writer, runForwarder, emitted>>

\* One send of the fan-out: it waits for room in the channel's buffer.
Send(s) ==
  /\ sending[s] # Idle
  /\ \E c \in sending[s].left :
       /\ Len(queue[c]) < Buf
       /\ queue' = [queue EXCEPT ![c] = Append(@, sending[s].event)]
       /\ sending' = [sending EXCEPT ![s] =
                        IF @.left = {c} THEN Idle
                        ELSE [event |-> @.event, left |-> @.left \ {c}]]
  /\ UNCHANGED <<subs, turn, opened, closed, ctxDone, writer, runForwarder, emitted>>

-----------------------------------------------------------------------------
(* Session construction and close. *)

\* sessionFor: the writer's goroutine is started (it subscribes when it runs)
\* and the session-lifetime forwarder is subscribed at once.
Open(s) ==
  /\ s \notin opened
  /\ opened' = opened \cup {s}
  /\ writer' = [writer EXCEPT ![s] = "starting"]
  /\ Subscribe(Chan("forwarder", s, 0))
  /\ UNCHANGED <<queue, sending, turn, closed, ctxDone, runForwarder, emitted>>

\* CloseSession: OnClose unsubscribes the forwarder and cancels the writer.
Close(s) ==
  /\ s \in opened /\ s \notin closed
  /\ closed' = closed \cup {s}
  /\ Unsubscribe(Chan("forwarder", s, 0))
  /\ UNCHANGED <<queue, sending, turn, opened, ctxDone, writer, runForwarder, emitted>>

WriterSubscribe(s) ==
  /\ writer[s] = "starting"
  /\ writer' = [writer EXCEPT ![s] = "running"]
  /\ Subscribe(Chan("writer", s, 0))
  /\ UNCHANGED <<queue, sending, turn, opened, closed, ctxDone, runForwarder, emitted>>

\* The writer appends what it receives, whichever session's turn published it.
WriterAppend(s) ==
  /\ writer[s] = "running"
  /\ LET c == Chan("writer", s, 0) IN
       /\ queue[c] # <<>>
       /\ queue' = [queue EXCEPT ![c] = Tail(@)]
  /\ UNCHANGED <<subs, sending, turn, opened, closed, ctxDone, writer, runForwarder, emitted>>

\* ctx.Done: the writer returns.  Its channels stay subscribed.
WriterReturn(s) ==
  /\ writer[s] = "running" /\ s \in closed
  /\ writer' = [writer EXCEPT ![s] = "gone"]
  /\ UNCHANGED <<subs, queue, sending, turn, opened, closed, ctxDone, runForwarder, emitted>>

\* The session forwarder: another session's events are filtered out, and a
\* running client turn mutes it.  Its goroutines outlive the unsubscription.
ClientTurnActive(s) == turn[s].origin = Client /\ turn[s].phase \in {"body", "flush"}
Forward(s) ==
  /\ LET c == Chan("forwarder", s, 0) IN
       /\ queue[c] # <<>>
       /\ queue' = [queue EXCEPT ![c] = Tail(@)]
       /\ emitted' = IF ClientTurnActive(s) \/ Head(queue[c]).sess # s THEN emitted
                     ELSE [emitted EXCEPT ![s] = @ \cup {Head(queue[c])}]
  /\ UNCHANGED <<subs, sending, turn, opened, closed, ctxDone, writer, runForwarder>>

-----------------------------------------------------------------------------
(* A turn. *)

\* Run marks the client turn and subscribes its forwarder; a
\* timer resume, an automation or a wake turn has none.
TurnStart(s, origin) ==
  /\ s \in opened \ closed /\ (origin = Client => s \in ClientSession)
  /\ turn[s].phase \in {"none", "done"} /\ turn[s].n < MaxTurns
  /\ LET n == turn[s].n + 1 IN
       /\ turn' = [turn EXCEPT ![s] = [n |-> n, origin |-> origin, phase |-> "body", count |-> 0]]
       /\ IF origin = Client
            THEN /\ Subscribe(Chan("run", s, n))
                 /\ runForwarder' = runForwarder \cup {s}
            ELSE UNCHANGED <<subs, runForwarder>>
  /\ ctxDone' = ctxDone \ {s}
  /\ UNCHANGED <<queue, sending, opened, closed, writer, emitted>>

Cancel(s) ==
  /\ turn[s].origin = Client /\ turn[s].phase = "body" /\ s \notin ctxDone
  /\ ctxDone' = ctxDone \cup {s}
  /\ UNCHANGED <<subs, queue, sending, turn, opened, closed, writer, runForwarder, emitted>>

\* The Run forwarder emits whatever the channel holds, unfiltered.
RunForward(s) ==
  /\ s \in runForwarder
  /\ LET c == Chan("run", s, turn[s].n) IN
       /\ queue[c] # <<>>
       /\ queue' = [queue EXCEPT ![c] = Tail(@)]
       /\ emitted' = [emitted EXCEPT ![s] = @ \cup {Head(queue[c])}]
  /\ UNCHANGED <<subs, sending, turn, opened, closed, ctxDone, writer, runForwarder>>

\* The turn's body ends: promptDone is closed (a server turn just ends).
BodyEnds(s) ==
  /\ turn[s].phase = "body" /\ sending[s] = Idle
  /\ turn' = [turn EXCEPT ![s].phase = IF turn[s].origin = Client THEN "flush" ELSE "done"]
  /\ UNCHANGED <<subs, queue, sending, opened, closed, ctxDone, writer, runForwarder, emitted>>

\* The forwarder leaves at once on its context, and on promptDone when the
\* buffer is drained.
\* Mutant RunForwarderLeavesAtOnce: no drain on promptDone.
RunForwarderLeavesAtOnce(s) ==
  /\ s \in runForwarder
  /\ s \in ctxDone \/ turn[s].phase = "flush"
  /\ runForwarder' = runForwarder \ {s}
  /\ UNCHANGED <<subs, queue, sending, turn, opened, closed, ctxDone, writer, emitted>>
RunForwarderLeaves(s) ==
  /\ s \in runForwarder
  /\ \/ s \in ctxDone
     \/ turn[s].phase = "flush" /\ queue[Chan("run", s, turn[s].n)] = <<>>
  /\ runForwarder' = runForwarder \ {s}
  /\ UNCHANGED <<subs, queue, sending, turn, opened, closed, ctxDone, writer, emitted>>

\* Run returns once the forwarder has handed over: the deferred Unsubscribe, then the
\* client-turn mark is cleared.
RunReturn(s) ==
  /\ turn[s].phase = "flush" /\ s \notin runForwarder
  /\ turn' = [turn EXCEPT ![s].phase = "done"]
  /\ Unsubscribe(Chan("run", s, turn[s].n))
  /\ UNCHANGED <<queue, sending, opened, closed, ctxDone, writer, runForwarder, emitted>>

-----------------------------------------------------------------------------
Next ==
  \E s \in Session :
       \/ Open(s) \/ Close(s) \/ Cancel(s)
       \/ Publish(s)
       \/ \E o \in {Client, Server} : TurnStart(s, o)
       \/ Send(s) \/ WriterSubscribe(s) \/ WriterAppend(s) \/ WriterReturn(s) \/ Forward(s)
       \/ RunForward(s) \/ BodyEnds(s) \/ RunForwarderLeaves(s)
       \/ RunReturn(s)

Fairness ==
  /\ \A s \in Session :
       /\ WF_vars(Send(s)) /\ WF_vars(WriterSubscribe(s)) /\ WF_vars(WriterAppend(s))
       /\ WF_vars(Forward(s)) /\ WF_vars(RunForward(s))

Spec == Init /\ [][Next]_vars
FairSpec == Spec /\ Fairness

-----------------------------------------------------------------------------
(* Properties. *)

(***************************************************************************)
(* TurnFlushed: when a client turn whose context was not cancelled has     *)
(* returned, every chunk it published has been handed to its client: Run   *)
(* closes promptDone, waits for the forwarder's drain and only then drops  *)
(* the subscription (runtime.go 1017-1018, 1335-1350), whatever the other  *)
(* sessions publish meanwhile.                                             *)
(***************************************************************************)
TurnFlushed ==
  \A s \in Session :
    (turn[s].origin = Client /\ turn[s].phase = "done" /\ s \notin ctxDone) =>
      \A n \in 1..turn[s].count : [sess |-> s, turn |-> turn[s].n, n |-> n] \in emitted[s]

(***************************************************************************)
(* PublishReturns: a turn that publishes gets its Publish back.  "A slow   *)
(* writer never blocks producers because the bus channels are bounded and  *)
(* the writer drains independently" (transcript_writer.go 15-17).  It does *)
(* not hold: a writer that returned on its context leaves its channels     *)
(* subscribed, and the next full one holds every publisher for good.       *)
(***************************************************************************)
PublishReturns == \A s \in Session : (sending[s] # Idle) ~> (sending[s] = Idle)

\* OwnEventsOnly: a session's client sees only its own session's events.
\* The session forwarder filters, the Run forwarder does not.
\* Refuted.
OwnEventsOnly == \A s \in Session : \A e \in emitted[s] : e.sess = s
=============================================================================
