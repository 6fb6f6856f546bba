------------------------------ MODULE MCTurns ------------------------------
(***************************************************************************)
(* A turn: the slot it holds, its calls with their suspensions, and the    *)
(* provider's stream it reads. A behaviour takes the steps of one          *)
(* component, chosen at the start: the run explores the sum of their state *)
(* spaces.                                                                 *)
(* It extends SessionTurn, whose definitions keep their names, and         *)
(* instantiates the others; the composition's own carry MC.                *)
(***************************************************************************)
EXTENDS SessionTurn, Sequences

VARIABLES
  focus,  \* the component whose steps a behaviour takes
  \* TurnSlot
  mu, active, origin, items, ticket, next, pc, highest, notes, posted, scheduled,
  batch, inFlight, delivered, steered,
  \* ProviderStream
  consumer, ctx, sent, wire, body, buf, quiet, cause, drain, todo, last, block,
  emitted, finish, ending, ch, got

SlotVars == <<mu, active, origin, items, ticket, next, pc, highest, notes, posted,
              scheduled, batch, inFlight, delivered, steered>>
StreamVars == <<consumer, ctx, sent, wire, body, buf, quiet, cause, drain, todo,
                last, block, emitted, finish, ending, ch, got>>
allVars == <<focus, SlotVars, vars, StreamVars>>

Client == {"c1", "c2"}
Automation == {"a1"}
Chain == {"w1", "w2"}
Note == {"n1", "n2"}

Slot == INSTANCE TurnSlot WITH
  Client <- Client, Automation <- Automation, Chain <- Chain, Note <- Note,
  Nobody <- "nobody", pending <- notes
Stream == INSTANCE ProviderStream WITH
  Consumer <- {"turn", "send"},
  Event <- {"text", "tool1", "think", "stop", "max_tokens", "[DONE]"},
  Status <- {400, 503}, Buf <- 1, MaxEvents <- 2

\* What the components assume of their constants.
ASSUME /\ Slot!SlotAssumption /\ NoneAreNone
       /\ Stream!StreamBufAssumption

\* A component that is out of focus keeps one of its initial states.
MCInit ==
  /\ focus \in {"slot", "turn", "stream"}
  /\ Slot!Init
  /\ Init
  /\ Stream!Init
  /\ focus # "stream" => consumer = "turn"

MCNext ==
  \/ focus = "slot" /\ Slot!Next /\ UNCHANGED <<focus, vars, StreamVars>>
  \/ focus = "turn" /\ Next /\ UNCHANGED <<focus, SlotVars, StreamVars>>
  \/ focus = "stream" /\ Stream!Next /\ UNCHANGED <<focus, SlotVars, vars>>

\* The fairness each component states, for the one in focus.
Fairness ==
  /\ \A c \in Client : WF_SlotVars(focus = "slot" /\ Slot!ClientStep(c))
  /\ \A a \in Automation : WF_SlotVars(focus = "slot" /\ pc[a] # "idle" /\ Slot!AutomationStep(a))
  /\ \A w \in Chain : WF_SlotVars(focus = "slot" /\ Slot!WakeStep(w))
  /\ \A n \in Note : WF_SlotVars(focus = "slot" /\ Slot!Schedule(n))
  /\ \A x \in Slot!Actor : WF_SlotVars(focus = "slot" /\ Slot!TurnEnds(x))
  /\ WF_vars(focus = "turn" /\ (TurnEnds \/ Responds))
  /\ WF_vars(focus = "turn" /\ TimerFires)
  /\ \A c \in Call :
       /\ WF_vars(focus = "turn" /\ TimerClaims(c))
       /\ WF_vars(focus = "turn" /\ (ResumePermission(c) \/ ResumeTimedOut(c)))
  /\ WF_StreamVars(focus = "stream" /\ Stream!DrainStep)
  /\ WF_StreamVars(focus = "stream" /\ Stream!ConsumerStep)
  /\ WF_StreamVars(focus = "stream" /\ Stream!IdleElapses)
  /\ WF_StreamVars(focus = "stream" /\ Stream!SseWatchdog)

MCSpec == MCInit /\ [][MCNext]_allVars /\ Fairness

-----------------------------------------------------------------------------
\* A finished task's note reaches a turn in the end (cron_wiring.go).
EveryNoteDelivered == Slot!EveryNoteDelivered

\* A stream ends, also one that goes silent (streaming.go).
StreamEnds == Stream!StreamEnds

\* The rest: one turn and one wake chain at a time, steering consumed by the turn
\* it was meant for; no call forgotten; an aborted stream is reported as one and
\* each call of it is emitted once.
TurnsSafe ==
  /\ Slot!TypeOK /\ Slot!OneTurn /\ Slot!OneWakeChain /\ Slot!SteeringStaysInTurn
  /\ TypeOK /\ NoForgottenCall
  /\ Stream!TypeOK /\ Stream!AbortIsLoud /\ Stream!CallOnce
=============================================================================
