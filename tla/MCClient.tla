------------------------------ MODULE MCClient ------------------------------
(***************************************************************************)
(* The client side of the agent: the ordered emitter, the registry of      *)
(* outbound requests, the wire across a restart, and the dialog surfaces.  *)
(* They share no state, so a behaviour takes the steps of one of them,     *)
(* chosen at the start: the run explores the sum of their state spaces.    *)
(* It extends TurnEmitter, whose definitions keep their names, and         *)
(* instantiates the others; the composition's own carry MC.                *)
(***************************************************************************)
EXTENDS TurnEmitter

VARIABLES
  focus,  \* the component whose steps a behaviour takes
  \* RequestRegistry
  registered, closed, done, ch, pc, tries, result, ctxDone, sent, answered, reading,
  response, cpc, held, cascades, counted, draining, teardown,
  \* AcpWire
  phase, live, message, busq, log, req, frames,
  \* AskDialogs
  capability, boolCap, negotiation, degraded, pending, entry, form, attempt,
  shown, text, outcome, landed, said

RegistryVars == <<registered, closed, done, ch, pc, tries, result, ctxDone, sent,
                  answered, reading, response, cpc, held, cascades, counted,
                  draining, teardown>>
WireVars == <<phase, live, message, busq, log, req, frames>>
DialogsVars == <<capability, boolCap, negotiation, degraded, pending, entry,
                 form, attempt, shown, text, outcome, landed, said>>
allVars == <<focus, vars, RegistryVars, WireVars, DialogsVars>>

Call == {"c1"}
Request == {"r1", "r2"}
Ask == {"q1", "q2", "e1"}
\* An engine's form has one field; one question asks for a text and a selection, the
\* other for a yes or no.
Fields == [a \in Ask |-> CASE a = "e1" -> <<"free">>
                          [] a = "q1" -> <<"free", "multi">>
                          [] a = "q2" -> <<"yesno">>]

Registry == INSTANCE RequestRegistry WITH
  Call <- Call, Resolver <- {"r1", "r2"}, NoCall <- "none", pending <- registered,
  attempt <- tries, entry <- held
Wire == INSTANCE AcpWire WITH
  Call <- {"c1"}, Request <- Request, MaxLines <- 1, wire <- frames
Dialogs == INSTANCE AskDialogs WITH
  Question <- {"q1", "q2"}, Engine <- {"e1"}, Fields <- Fields,
  Value <- {"null", "label", "blank", "none", "bool"}, Conn <- {"i1"}

\* What the components assume of their constants.
ASSUME /\ EmitterAssumption
       /\ Registry!RegistryAssumption
       /\ Dialogs!DialogAssumption
       /\ Wire!WireAssumption

MCInit ==
  /\ focus \in {"emitter", "registry", "wire", "dialogs", "questions"}
  /\ Init
  /\ Registry!Init
  /\ Wire!Init
  /\ Dialogs!Init

\* Two of the asks are raised: a question beside the engine's, or two questions.
MCNext ==
  \/ focus = "emitter" /\ Next /\ UNCHANGED <<focus, RegistryVars, WireVars, DialogsVars>>
  \/ focus = "registry" /\ Registry!Next /\ UNCHANGED <<focus, vars, WireVars, DialogsVars>>
  \/ focus = "wire" /\ Wire!Next /\ UNCHANGED <<focus, vars, RegistryVars, DialogsVars>>
  \/ /\ focus \in {"dialogs", "questions"} /\ Dialogs!Next
     /\ entry'[IF focus = "dialogs" THEN "q2" ELSE "e1"] = "none"
     /\ UNCHANGED <<focus, vars, RegistryVars, WireVars>>

\* The fairness each component states, for the one in focus.
MCFairness ==
  /\ WF_vars(focus = "emitter" /\ DrainStep)
  /\ WF_vars(focus = "emitter" /\ StopReturn)
  /\ \A p \in Producer : WF_vars(focus = "emitter" /\ (Send(p) \/ Abort(p)))
  /\ \A w \in Waiter : WF_vars(focus = "emitter" /\
       (BarrierCheck(w) \/ BarrierWoken(w) \/ BarrierStopped(w)))
  /\ \A c \in Call : WF_RegistryVars(focus = "registry" /\ Registry!CallStep(c))
  /\ \A x \in Registry!Agent : WF_RegistryVars(focus = "registry" /\ Registry!CancelStep(x))
  /\ WF_RegistryVars(focus = "registry" /\ Registry!DeliverResolve)
  /\ WF_RegistryVars(focus = "registry" /\ Registry!StopStep)
  /\ \A r \in Request : WF_WireVars(focus = "wire" /\ Wire!Serving(r))
  /\ \A a \in Ask : SF_DialogsVars(focus = "dialogs" /\ Dialogs!SurfaceStep(a))
  /\ \A a \in Ask : WF_DialogsVars(focus = "dialogs" /\ Dialogs!ResolveStep(a))

MCSpec == MCInit /\ [][MCNext]_allVars /\ MCFairness

-----------------------------------------------------------------------------
\* The emitter comes to rest: nothing is written after Stop returned, and no
\* Barrier and no producer stays parked (emitter.go).
EmitterSettles == NoWriteAfterStop /\ BarrierReturns /\ ProducersReleased

\* Requests end both ways: Stop releases every caller of an outbound one
\* (request_registry.go), every inbound one is answered (server.go).
RequestsSettle == Registry!StopReleases /\ Wire!EveryRequestAnswered

\* An engine's ask lands on its turn, however its dialog went (ask_surface.go).
EngineAskLands == Dialogs!EngineAskLands

\* The rest of what these components keep: lane order; one cancellation per
\* request and no answer for a withdrawn one; no frame before session/new's
\* response; at most two asks of one question, answers and fallbacks kept.
ClientSafe ==
  /\ TypeOK /\ ForegroundSlipsByOne
  /\ Registry!TypeOK /\ Registry!CancelledOnce /\ Registry!WithdrawnNeverAnswered
  /\ Wire!TypeOK /\ Wire!ResponseBeforeUpdates
  /\ Dialogs!TypeOK /\ Dialogs!AskedTwiceAtMost
  /\ Dialogs!AnswerSurvives /\ Dialogs!FallenIsVisible
=============================================================================
