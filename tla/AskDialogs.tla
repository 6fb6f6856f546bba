----------------------------- MODULE AskDialogs -----------------------------
(***************************************************************************)
(* How an ask reaches the person and what its answer becomes: the           *)
(* capability negotiation at initialize, the elicitation form with its      *)
(* schema, the validation of an accept, the one bounded re-ask, the         *)
(* plain-text fallback, and the two families of asks (a suspended           *)
(* question, an engine ask).  Which waiting ask the pump takes next is      *)
(* AskQueue's matter; here the pump takes any, fires it and resolves it     *)
(* before it takes another.                                                 *)
(* Sources: src/internal/acpserve/ask_surface.go,                           *)
(* src/internal/acpserve/kit_adapter.go, src/internal/acp/handlers.go,      *)
(* src/kit/session/ask.go, src/kit/session/askqueue.go (pump, DrainTurn),   *)
(* src/kit/runtime/seams.go.                                                *)
(***************************************************************************)
EXTENDS Naturals, Sequences, FiniteSets, FiniteSetsExt

CONSTANTS
  Question,  \* question-family asks: the suspended turn waits for them
  Engine,    \* engine asks: one free-text answer for the learning store
  Fields,    \* ask -> the kinds of its questions: "free", "choice", "multi", "yesno"
  Value,     \* what a client may answer a property with: "null", "label" (an offered
             \* choice), "other" and "blank" (strings), "bool", "labels" and "none" (lists)
  Conn       \* initialize requests on the connection

Ask == Question \union Engine
Nobody == "nobody"

DialogAssumption == Question \intersect Engine = {} /\ Nobody \notin Ask

Absent == "absent"

VARIABLES
  capability,  \* the cached elicitation-form capability
  boolCap,     \* boolean properties were advertised
  negotiation, \* initialize request -> "idle", "probing", "done"
  degraded,    \* ElicitationAsk.degraded
  pending,     \* the ask the broker holds
  entry,       \* ask -> its surface: "none", "queued", "open" and "resolving" (the pump has
               \* it), "drained" (a drain's goroutine has it), "over"
  form,        \* the property kinds of the form on the client
  attempt,     \* ask -> re-asks made
  shown,       \* ask -> forms shown
  text,        \* asks whose question was published as plain text
  outcome,     \* ask -> the outcome the surface returned
  landed,      \* ask -> how it was resolved, in order
  said         \* ask -> the rendered answers, the ask whose dialog gave them and what it gave

vars == <<capability, boolCap, negotiation, degraded, pending, entry, form, attempt,
          shown, text, outcome, landed, said>>

Unsaid == [by |-> Nobody, content |-> <<>>, values |-> <<>>]
NoOutcome == [verdict |-> "none", content |-> <<>>, extra |-> FALSE]

Init ==
  /\ capability = "unknown" /\ boolCap = FALSE
  /\ negotiation = [i \in Conn |-> "idle"]
  /\ degraded = FALSE /\ pending = Nobody
  /\ entry = [a \in Ask |-> "none"] /\ form = <<>>
  /\ attempt = [a \in Ask |-> 0] /\ shown = [a \in Ask |-> 0]
  /\ text = {} /\ outcome = [a \in Ask |-> NoOutcome]
  /\ landed = [a \in Ask |-> <<>>] /\ said = [a \in Ask |-> Unsaid]

Negotiated == <<capability, boolCap, negotiation>>
Surface == <<degraded, form, shown, text>>

-----------------------------------------------------------------------------
(* initialize: an advertisement settles it; else one sticky probe.          *)

HandleInitialize(i, form_, boolean) ==
  /\ negotiation[i] = "idle"
  /\ boolCap' = (boolCap \/ boolean)
  /\ LET probe == ~form_ /\ capability = "unknown" IN
     /\ capability' = IF form_ THEN "ok" ELSE capability
     /\ negotiation' = [negotiation EXCEPT ![i] = IF probe THEN "probing" ELSE "done"]
  /\ UNCHANGED <<pending, entry, attempt, outcome, landed, said>> /\ UNCHANGED Surface

\* Answered with a result, or with an error, a timeout or a cancel.
ProbeEnds(i, answered) ==
  /\ negotiation[i] = "probing"
  /\ negotiation' = [negotiation EXCEPT ![i] = "done"]
  /\ capability' = IF answered THEN "ok" ELSE "degraded"
  /\ UNCHANGED <<boolCap, pending, entry, attempt, outcome, landed, said>> /\ UNCHANGED Surface

-----------------------------------------------------------------------------
(* Asks.                                                                    *)

\* The turn suspends: the broker holds its ask from now on, in the place of one it
\* held, and the surface is queued.
EnqueueElicitationAsk(q) ==
  /\ entry[q] = "none"
  /\ pending' = q
  /\ entry' = [entry EXCEPT ![q] = "queued"]
  /\ UNCHANGED <<attempt, outcome, landed, said>> /\ UNCHANGED Negotiated /\ UNCHANGED Surface

EnqueueEngineAsk(e) ==
  /\ entry[e] = "none"
  /\ entry' = [entry EXCEPT ![e] = "queued"]
  /\ UNCHANGED <<pending, attempt, outcome, landed, said>> /\ UNCHANGED Negotiated /\ UNCHANGED Surface

Capable == ~degraded /\ capability = "ok"

\* The kind each property is built with.
PropertyKind(kind) == IF kind = "yesno" THEN IF boolCap THEN "boolean" ELSE "choice" ELSE kind

BuildElicitationForm(a) == [i \in DOMAIN Fields[a] |-> PropertyKind(Fields[a][i])]

Returns(a, out) ==
  /\ entry' = [entry EXCEPT ![a] = "resolving"]
  /\ outcome' = [outcome EXCEPT ![a] = out]

\* The plain-text surface: the question is published for the reply to answer.
Fallback(a) ==
  /\ Returns(a, [NoOutcome EXCEPT !.verdict = "fallback"])
  /\ text' = text \union {a}

Fire(a) ==
  /\ entry[a] = "queued" /\ \A b \in Ask : entry[b] \notin {"open", "resolving"}
  /\ IF Capable
     THEN /\ entry' = [entry EXCEPT ![a] = "open"]
          /\ form' = BuildElicitationForm(a)
          /\ shown' = [shown EXCEPT ![a] = @ + 1]
          /\ UNCHANGED <<text, outcome>>
     ELSE Fallback(a) /\ UNCHANGED <<form, shown>>
  /\ UNCHANGED <<degraded, pending, attempt, landed, said>> /\ UNCHANGED Negotiated

\* The client cannot answer: -32601 degrades for good; an error, a timeout or an
\* outcome nobody knows falls back this once.
RpcErrorFallback(a, notFound) ==
  /\ entry[a] = "open"
  /\ degraded' = (degraded \/ notFound)
  /\ Fallback(a) /\ form' = <<>>
  /\ UNCHANGED <<shown, pending, attempt, landed, said>> /\ UNCHANGED Negotiated

\* validatePropValue: a null is no value; the rest is by the property's type.
ValidatePropValue(kind, v) ==
  \/ kind = "free" /\ v \in {"label", "other", "blank"}
  \/ kind = "choice" /\ v = "label"
  \/ kind = "boolean" /\ v = "bool"
  \/ kind = "multi" /\ v \in {"labels", "none"}

ValidateElicitationContent(kinds, content) ==
  \A i \in DOMAIN kinds : content[i] # Absent /\ ValidatePropValue(kinds[i], content[i])

\* The client answers the form and it closes.
ParseOutcome(a, out) ==
  /\ entry[a] = "open"
  /\ Returns(a, out) /\ form' = <<>>
  /\ UNCHANGED <<degraded, shown, text, pending, attempt, landed, said>> /\ UNCHANGED Negotiated

\* Unknown extra keys are tolerated; nobody reads the content of an invalid accept.
Accepts(a) ==
  \E content \in [DOMAIN Fields[a] -> Value \union {Absent}], extra \in BOOLEAN :
    ParseOutcome(a, IF ValidateElicitationContent(form, content)
                    THEN [verdict |-> "valid", content |-> content, extra |-> extra]
                    ELSE [NoOutcome EXCEPT !.verdict = "invalid"])

\* Declined, dismissed, or cancelled with its turn.
Declines(a) == \E v \in {"decline", "cancelled"} : ParseOutcome(a, [NoOutcome EXCEPT !.verdict = v])

\* A drain takes a waiting ask from the queue: it resolves cancelled, unfired.
DrainTurn(a) ==
  /\ entry[a] = "queued"
  /\ entry' = [entry EXCEPT ![a] = "drained"]
  /\ outcome' = [outcome EXCEPT ![a] = [NoOutcome EXCEPT !.verdict = "cancelled"]]
  /\ UNCHANGED <<pending, attempt, landed, said>> /\ UNCHANGED Negotiated /\ UNCHANGED Surface

-----------------------------------------------------------------------------
(* What the outcome becomes.                                                *)

ElicitationVerdict(v, n) ==
  CASE v = "fallback" -> "fallen"
    [] v = "valid" -> "accept"
    [] v = "invalid" /\ n = 0 -> "reask"
    [] OTHER -> "nonanswer"

\* renderStructuredValue: strings, joined lists and booleans; anything else is empty.
RenderStructuredValue(v) == IF v \in {"null", "blank", "none", Absent} THEN "" ELSE v

\* The questions of the claimed ask a, each with what the content has under its key.
RenderStructuredReply(a, content) ==
  [i \in DOMAIN Fields[a] |-> IF i \in DOMAIN content THEN RenderStructuredValue(content[i]) ELSE ""]

Reask(a) ==
  /\ entry' = [entry EXCEPT ![a] = "queued"]
  /\ attempt' = [attempt EXCEPT ![a] = @ + 1]
  /\ UNCHANGED <<pending, landed, said>>

\* The claim takes whatever ask the broker holds, or none.
Claim(how, by, content) ==
  IF pending = Nobody
  THEN UNCHANGED <<pending, landed, said>>
  ELSE /\ landed' = [landed EXCEPT ![pending] = Append(@, how)]
       /\ said' = [said EXCEPT ![pending] =
                     [by |-> by, content |-> content, values |-> RenderStructuredReply(pending, content)]]
       /\ pending' = Nobody

Resolving(a) == entry[a] \in {"resolving", "drained"}

ResolveElicitationAsk(q) ==
  /\ Resolving(q)
  /\ LET v == ElicitationVerdict(outcome[q].verdict, attempt[q]) IN
     IF v = "reask" THEN Reask(q)
     ELSE /\ entry' = [entry EXCEPT ![q] = "over"]
          /\ CASE v = "fallen" -> UNCHANGED <<pending, landed, said>>
               [] v = "accept" -> Claim("answered", q, outcome[q].content)
               [] OTHER -> Claim("nonanswer", q, <<>>)
          /\ UNCHANGED attempt
  /\ outcome' = [outcome EXCEPT ![q] = NoOutcome]
  /\ UNCHANGED Negotiated /\ UNCHANGED Surface

\* engineAskAnswer: exactly one property, and a string.
EngineAskAnswer(out) == ~out.extra /\ out.content[1] \in {"label", "other", "blank"}

\* land: accepted or declined.
\* Mutant: a degraded surface lands nowhere.
LandEngineAskForgets(e) ==
  /\ Resolving(e)
  /\ LET v == ElicitationVerdict(outcome[e].verdict, attempt[e]) IN
     IF v = "reask" THEN Reask(e)
     ELSE /\ entry' = [entry EXCEPT ![e] = "over"]
          /\ landed' = IF v = "fallen" THEN landed ELSE
               [landed EXCEPT ![e] = Append(@, IF v = "accept" /\ EngineAskAnswer(outcome[e]) THEN "accepted" ELSE "declined")]
          /\ UNCHANGED <<pending, attempt, said>>
  /\ outcome' = [outcome EXCEPT ![e] = NoOutcome]
  /\ UNCHANGED Negotiated /\ UNCHANGED Surface

LandEngineAsk(e) ==
  /\ Resolving(e)
  /\ LET v == ElicitationVerdict(outcome[e].verdict, attempt[e]) IN
     IF v = "reask" THEN Reask(e)
     ELSE /\ entry' = [entry EXCEPT ![e] = "over"]
          /\ landed' = [landed EXCEPT ![e] =
               Append(@, IF v = "accept" /\ EngineAskAnswer(outcome[e]) THEN "accepted" ELSE "declined")]
          /\ UNCHANGED <<pending, attempt, said>>
  /\ outcome' = [outcome EXCEPT ![e] = NoOutcome]
  /\ UNCHANGED Negotiated /\ UNCHANGED Surface

\* A plain reply, or the ask's timer.
ClaimedElsewhere ==
  /\ pending # Nobody
  /\ \E how \in {"reply", "timeout"} : Claim(how, Nobody, <<>>)
  /\ UNCHANGED <<entry, attempt, outcome>> /\ UNCHANGED Negotiated /\ UNCHANGED Surface

-----------------------------------------------------------------------------
SurfaceStep(a) == Fire(a) \/ RpcErrorFallback(a, FALSE) \/ RpcErrorFallback(a, TRUE) \/ Accepts(a) \/ Declines(a)
ResolveStep(a) == IF a \in Question THEN ResolveElicitationAsk(a) ELSE LandEngineAsk(a)

Next ==
  \/ \E i \in Conn, f \in BOOLEAN, b \in BOOLEAN : HandleInitialize(i, f, b)
  \/ \E i \in Conn, ok \in BOOLEAN : ProbeEnds(i, ok)
  \/ \E q \in Question : EnqueueElicitationAsk(q)
  \/ \E e \in Engine : EnqueueEngineAsk(e)
  \/ \E a \in Ask : SurfaceStep(a) \/ DrainTurn(a) \/ ResolveStep(a)
  \/ ClaimedElsewhere

Spec == Init /\ [][Next]_vars

\* The queue's pump runs on and a drain's goroutine too; a dialog ends with an answer or
\* its HUMAN-ASK window; the dialog of another ask only delays a firing.
FairSpec == Spec /\ \A a \in Ask : SF_vars(SurfaceStep(a)) /\ WF_vars(ResolveStep(a))

-----------------------------------------------------------------------------
(* Properties.                                                              *)

TypeOK ==
  /\ capability \in {"unknown", "ok", "degraded"}
  /\ pending \in Question \union {Nobody} /\ text \subseteq Ask
  /\ \A a \in Ask : /\ entry[a] \in {"none", "queued", "open", "resolving", "drained", "over"}
                    /\ attempt[a] \in Nat /\ shown[a] \in Nat

(* The re-ask loop is bounded: no person sees the form of one ask more than     *)
(* twice, and no ask lands twice, whoever else claims it meanwhile.             *)
AskedTwiceAtMost == \A a \in Ask : shown[a] <= 2 /\ Len(landed[a]) <= 1

(* An answer that validates is not lost in the rendering: what the result shows *)
(* as nothing was answered with a blank or with no choice, in the form of that  *)
(* very ask; the validation (ask_surface.go) lets nothing pass that the         *)
(* rendering (ask.go) cannot show.                                              *)
AnswerSurvives ==
  \A q \in Question : landed[q] = <<"answered">> /\ said[q].by = q =>
    \A i \in DOMAIN Fields[q] : said[q].values[i] = "" => said[q].content[i] \in {"blank", "none"}

(* A question whose dialog is over and that still waits is on the screen as     *)
(* plain text: it can be answered.                                             *)
FallenIsVisible == \A q \in Question : pending = q /\ entry[q] = "over" => q \in text

(* Every engine ask ends in exactly one of the accepted write and the advisory  *)
(* note, on every client.                                                      *)
EngineAskLands == \A e \in Engine : (entry[e] = "queued") ~> (Len(landed[e]) = 1)

(* What askqueue.go:113-118 says: an ask no plain-text reply can resolve is not *)
(* published as a dead-end question.                                           *)
(* Refuted: an engine's ask falls back to the published text like a question   *)
(* (ask_surface.go:782-788).                                                   *)
NoDeadEndQuestion == text \intersect Engine = {}

(* What server.go:419-423 says: a negotiated capability stays for the           *)
(* connection's lifetime.                                                      *)
(* Refuted: an initialize that overtakes a running probe settles it, and the   *)
(* probe's end degrades it.                                                    *)
NoFlapping == [][capability # "unknown" => capability' = capability]_vars
=============================================================================
