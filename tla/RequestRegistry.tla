-------------------------- MODULE RequestRegistry --------------------------
(***************************************************************************)
(* internal/acp/request_registry.go: outbound id'd requests.  A Call       *)
(* registers, sends, waits on a select (response, caller ctx, window),     *)
(* retries once, and unregisters.  The reader goroutine delivers answers,  *)
(* ResolveCancelled may run anywhere, and Serve's teardown stops the       *)
(* registry and closes the Writer.  Ask dialogs are fired from the queue's *)
(* pump, which no handler waits for, so a Call may be anywhere at teardown.*)
(*                                                                         *)
(* A step is one critical section of r.mu or one CAS.  The send into the   *)
(* entry's buffered channel follows its CAS in one step: between the two   *)
(* the entry only looks as it does before the waiter has been scheduled.   *)
(* A Call is identified with its entry (ids are never reused).             *)
(***************************************************************************)
EXTENDS Naturals, FiniteSets

CONSTANTS Call,         \* calls, and the pending entries they register
          Resolver,     \* goroutines that run ResolveCancelled
          NoCall

RegistryAssumption == NoCall \notin Call

MaxSendAttempts == 2    \* maxSendAttempts

VARIABLES pending,      \* r.pending
          closed,       \* r.closed
          done,         \* done[c]: the entry's CAS guard
          ch,           \* ch[c]: what its buffered(1) channel holds
          pc,           \* pc[c]: where Call c is
          attempt,      \* attempt[c]: its loop counter
          result,       \* result[c]: what it returns
          ctxDone,      \* calls whose caller ctx has died
          sent,         \* sent[c]: frames of c on the wire
          answered,     \* answered[c]: responses the client gave
          reading,      \* the entry Deliver looked up, or NoCall
          response,     \* the response frame Deliver holds
          cpc,          \* cpc[x]: where x is in cancelPending
          entry,        \* entry[x]: for which entry
          cascades,     \* cascades[c]: $/cancel_request notifications
          counted,      \* counted[c]: bumps of the cancel counter
          draining,     \* entries Stop still has to resolve
          teardown      \* "serving", "stopping", "stopped", "writer_closed"

callVars   == <<pc, attempt, result>>
wireVars   == <<sent, answered>>
readVars   == <<reading, response>>
cancelVars == <<cpc, entry>>
effects    == <<cascades, counted>>
stopVars   == <<closed, draining, teardown>>
vars == <<pending, done, ch, callVars, ctxDone, wireVars, readVars, cancelVars,
          effects, stopVars>>

Agent == Call \cup Resolver     \* goroutines that run cancelPending

Init ==
    /\ pending = {} /\ closed = FALSE
    /\ done = [c \in Call |-> FALSE] /\ ch = [c \in Call |-> "empty"]
    /\ pc = [c \in Call |-> "idle"] /\ attempt = [c \in Call |-> 0]
    /\ result = [c \in Call |-> "none"] /\ ctxDone = {}
    /\ sent = [c \in Call |-> 0] /\ answered = [c \in Call |-> 0]
    /\ reading = NoCall /\ response = "none"
    /\ cpc = [x \in Agent |-> "none"] /\ entry = [x \in Agent |-> NoCall]
    /\ cascades = [c \in Call |-> 0] /\ counted = [c \in Call |-> 0]
    /\ draining = {} /\ teardown = "serving"

-----------------------------------------------------------------------------
\* Call: register, refused once the registry is closed.
Register(c) ==
    /\ pc[c] = "idle"
    /\ IF closed
         THEN /\ pc' = [pc EXCEPT ![c] = "returned"]
              /\ result' = [result EXCEPT ![c] = "cancelled"]
              /\ UNCHANGED <<pending, attempt>>
         ELSE /\ pc' = [pc EXCEPT ![c] = "send"]
              /\ attempt' = [attempt EXCEPT ![c] = 1]
              /\ pending' = pending \cup {c}
              /\ UNCHANGED result
    /\ UNCHANGED <<done, ch, ctxDone, wireVars, readVars, cancelVars, effects, stopVars>>

Leaves(c, r) ==     \* a return in Call: the deferred unregister is still due
    /\ pc' = [pc EXCEPT ![c] = "unregister"]
    /\ result' = [result EXCEPT ![c] = r]

\* send: the closed check and the Write are not one critical section.
SendCheck(c) ==
    /\ pc[c] = "send"
    /\ IF closed THEN Leaves(c, "cancelled")
                 ELSE pc' = [pc EXCEPT ![c] = "write"] /\ UNCHANGED result
    /\ UNCHANGED <<pending, done, ch, attempt, ctxDone, wireVars, readVars,
                   cancelVars, effects, stopVars>>

SendWrite(c) ==     \* a send on the closed Writer channel panics
    /\ pc[c] = "write"
    /\ IF teardown = "writer_closed"
         THEN pc' = [pc EXCEPT ![c] = "panicked"] /\ UNCHANGED sent
         ELSE /\ pc' = [pc EXCEPT ![c] = "wait"]
              /\ sent' = [sent EXCEPT ![c] = @ + 1]
    /\ UNCHANGED <<pending, done, ch, attempt, result, ctxDone, answered, readVars,
                   cancelVars, effects, stopVars>>

\* settle: the three outcomes of a delivered resolution.
Settle(c) ==
    /\ pc[c] = "wait" /\ ch[c] # "empty"
    /\ Leaves(c, IF ch[c] = "answer" THEN "answer" ELSE "cancelled")
    /\ counted' = IF ch[c] = "code_cancelled"
                    THEN [counted EXCEPT ![c] = @ + 1] ELSE counted
    /\ ch' = [ch EXCEPT ![c] = "empty"]
    /\ UNCHANGED <<pending, done, attempt, ctxDone, wireVars, readVars, cancelVars,
                   cascades, stopVars>>

CtxCancelled(c) ==
    /\ pc[c] = "wait" /\ c \in ctxDone
    /\ pc' = [pc EXCEPT ![c] = "cancel"]
    /\ cpc' = [cpc EXCEPT ![c] = "cas"]
    /\ entry' = [entry EXCEPT ![c] = c]
    /\ UNCHANGED <<pending, done, ch, attempt, result, ctxDone, wireVars, readVars,
                   effects, stopVars>>

CtxReturn(c) ==
    /\ pc[c] = "cancel" /\ cpc[c] = "none"
    /\ Leaves(c, "cancelled")
    /\ UNCHANGED <<pending, done, ch, attempt, ctxDone, wireVars, readVars,
                   cancelVars, effects, stopVars>>

Retries(c) == attempt[c] < MaxSendAttempts

WindowExpires(c) ==     \* one retry under the same entry, then the fallback
    /\ pc[c] = "wait"
    /\ IF Retries(c)
         THEN /\ pc' = [pc EXCEPT ![c] = "send"]
              /\ attempt' = [attempt EXCEPT ![c] = @ + 1]
              /\ UNCHANGED result
         ELSE Leaves(c, "timeout") /\ UNCHANGED attempt
    /\ UNCHANGED <<pending, done, ch, ctxDone, wireVars, readVars, cancelVars,
                   effects, stopVars>>

Unregister(c) ==
    /\ pc[c] = "unregister"
    /\ pending' = pending \ {c}
    /\ pc' = [pc EXCEPT ![c] = "returned"]
    /\ UNCHANGED <<done, ch, attempt, result, ctxDone, wireVars, readVars,
                   cancelVars, effects, stopVars>>

CallerCtxDies(c) ==
    /\ c \notin ctxDone
    /\ ctxDone' = ctxDone \cup {c}
    /\ UNCHANGED <<pending, done, ch, callVars, wireVars, readVars, cancelVars,
                   effects, stopVars>>

-----------------------------------------------------------------------------
(***************************************************************************)
(* The client answers each frame it got at most once, in any order, with   *)
(* a response or with -32800; Deliver's lookup and its CAS are two steps.  *)
(***************************************************************************)
DeliverLookup(c, r) ==
    /\ reading = NoCall /\ answered[c] < sent[c]
    /\ answered' = [answered EXCEPT ![c] = @ + 1]
    /\ IF c \in pending THEN reading' = c /\ response' = r
                        ELSE UNCHANGED readVars      \* unknown id: dropped
    /\ UNCHANGED <<pending, done, ch, callVars, ctxDone, sent, cancelVars,
                   effects, stopVars>>

\* Mutant: resolved without the compare-and-swap.
ResolvesUnguarded(c) == TRUE

Resolves(c) == ~done[c]     \* entry.done.CompareAndSwap(false, true)

Resolution(c, r) ==
    /\ done' = [done EXCEPT ![c] = TRUE]
    /\ ch' = IF ch[c] = "empty" THEN [ch EXCEPT ![c] = r] ELSE ch

DeliverResolve ==
    /\ reading # NoCall
    /\ IF Resolves(reading) THEN Resolution(reading, response)
                            ELSE UNCHANGED <<done, ch>>
    /\ reading' = NoCall /\ response' = "none"
    /\ UNCHANGED <<pending, callVars, ctxDone, wireVars, cancelVars, effects, stopVars>>

\* ResolveCancelled(id): the lookup; cancelPending follows.
ResolveLookup(x, c) ==
    /\ x \in Resolver /\ entry[x] = NoCall
    /\ c \in pending
    /\ cpc' = [cpc EXCEPT ![x] = "cas"]
    /\ entry' = [entry EXCEPT ![x] = c]
    /\ UNCHANGED <<pending, done, ch, callVars, ctxDone, wireVars, readVars,
                   effects, stopVars>>

CancelPending(x) ==
    /\ cpc[x] = "cas"
    /\ IF Resolves(entry[x])
         THEN /\ Resolution(entry[x], "cancelled")
              /\ counted' = [counted EXCEPT ![entry[x]] = @ + 1]
              /\ cpc' = [cpc EXCEPT ![x] = "gate"]
         ELSE /\ cpc' = [cpc EXCEPT ![x] = "none"]
              /\ UNCHANGED <<done, ch, counted>>
    /\ UNCHANGED <<pending, callVars, ctxDone, wireVars, readVars, entry, cascades,
                   stopVars>>

\* emitCascade: suppressed once closed; the check and the emit are two steps.
CascadeGate(x) ==
    /\ cpc[x] = "gate"
    /\ cpc' = [cpc EXCEPT ![x] = IF closed THEN "none" ELSE "emit"]
    /\ UNCHANGED <<pending, done, ch, callVars, ctxDone, wireVars, readVars, entry,
                   effects, stopVars>>

CascadeEmit(x) ==   \* the stopped emitter refuses the frame
    /\ cpc[x] = "emit"
    /\ cpc' = [cpc EXCEPT ![x] = "none"]
    /\ cascades' = IF teardown = "writer_closed" THEN cascades
                     ELSE [cascades EXCEPT ![entry[x]] = @ + 1]
    /\ UNCHANGED <<pending, done, ch, callVars, ctxDone, wireVars, readVars, entry,
                   counted, stopVars>>

-----------------------------------------------------------------------------
\* Stop: close and take the pending entries, then resolve them one by one.
StopTake ==
    /\ teardown = "serving"
    /\ closed' = TRUE
    /\ draining' = pending
    /\ pending' = {}
    /\ teardown' = "stopping"
    /\ UNCHANGED <<done, ch, callVars, ctxDone, wireVars, readVars, cancelVars, effects>>

\* Mutant: Stop leaves the waiters.
DrainsNone(c) == FALSE

Drains(c) == Resolves(c)

StopResolve(c) ==
    /\ c \in draining
    /\ IF Drains(c)
         THEN /\ Resolution(c, "cancelled")
              /\ counted' = [counted EXCEPT ![c] = @ + 1]
         ELSE UNCHANGED <<done, ch, counted>>
    /\ draining' = draining \ {c}
    /\ UNCHANGED <<pending, callVars, ctxDone, wireVars, readVars, cancelVars,
                   cascades, closed, teardown>>

StopReturn ==
    /\ teardown = "stopping" /\ draining = {}
    /\ teardown' = "stopped"
    /\ UNCHANGED <<pending, done, ch, callVars, ctxDone, wireVars, readVars,
                   cancelVars, effects, closed, draining>>

\* Serve's teardown after registry.Stop: emitter.Stop and out.Close.
CloseWriter ==
    /\ teardown = "stopped"
    /\ teardown' = "writer_closed"
    /\ UNCHANGED <<pending, done, ch, callVars, ctxDone, wireVars, readVars,
                   cancelVars, effects, closed, draining>>

CallStep(c) == Register(c) \/ SendCheck(c) \/ SendWrite(c) \/ Settle(c)
                 \/ CtxCancelled(c) \/ CtxReturn(c) \/ Unregister(c)
CancelStep(x) == CancelPending(x) \/ CascadeGate(x) \/ CascadeEmit(x)
StopStep == (\E c \in Call : StopResolve(c)) \/ StopReturn \/ CloseWriter

Next ==
    \/ \E c \in Call :
         \/ CallStep(c) \/ WindowExpires(c) \/ CallerCtxDies(c)
         \/ \E r \in {"answer", "code_cancelled"} : DeliverLookup(c, r)
         \/ \E x \in Resolver : ResolveLookup(x, c)
    \/ DeliverResolve
    \/ \E x \in Agent : CancelStep(x)
    \/ StopTake \/ StopStep

Spec == Init /\ [][Next]_vars

\* Goroutines run; no window is assumed to expire and no client to answer.
FairSpec ==
    /\ Spec
    /\ \A c \in Call : WF_vars(CallStep(c))
    /\ \A x \in Agent : WF_vars(CancelStep(x))
    /\ WF_vars(DeliverResolve) /\ WF_vars(StopStep)

-----------------------------------------------------------------------------
\* Type correctness.
TypeOK ==
    /\ pending \subseteq Call /\ closed \in BOOLEAN /\ draining \subseteq Call
    /\ done \in [Call -> BOOLEAN]
    /\ ch \in [Call -> {"empty", "answer", "code_cancelled", "cancelled"}]
    /\ pc \in [Call -> {"idle", "send", "write", "wait", "cancel", "unregister",
                        "returned", "panicked"}]
    /\ attempt \in [Call -> 0 .. MaxSendAttempts]
    /\ result \in [Call -> {"none", "answer", "cancelled", "timeout"}]
    /\ ctxDone \subseteq Call
    /\ sent \in [Call -> 0 .. MaxSendAttempts]
    /\ answered \in [Call -> 0 .. MaxSendAttempts]
    /\ reading \in Call \cup {NoCall}
    /\ response \in {"none", "answer", "code_cancelled"}
    /\ cpc \in [Agent -> {"none", "cas", "gate", "emit"}]
    /\ entry \in [Agent -> Call \cup {NoCall}]
    /\ cascades \in [Call -> Nat] /\ counted \in [Call -> Nat]
    /\ teardown \in {"serving", "stopping", "stopped", "writer_closed"}

(***************************************************************************)
(* "Exactly one resolution and at most one cascade per entry": whoever     *)
(* races (caller ctx, ResolveCancelled, answers, Stop), one request is     *)
(* cancelled on the wire and counted as cancelled at most once.            *)
(***************************************************************************)
CancelledOnce == \A c \in Call : cascades[c] <= 1 /\ counted[c] <= 1

(***************************************************************************)
(* A request the agent withdrew on the wire never also succeeds: a Call    *)
(* whose $/cancel_request went out does not return the client's answer.    *)
(***************************************************************************)
WithdrawnNeverAnswered ==
    \A c \in Call : (cascades[c] > 0 \/ counted[c] > 0) => result[c] # "answer"

(***************************************************************************)
(* Serve's teardown comment: no request frame is written once the Writer   *)
(* is closed (a send on its closed channel would take the process down).   *)
(***************************************************************************)
NoWriteAfterClose == \A c \in Call : pc[c] # "panicked"

(***************************************************************************)
(* Stop releases every waiter without waiting for its window: human asks   *)
(* wait ten minutes, and teardown must not.                                *)
(***************************************************************************)
StopReleases ==
    \A c \in Call : (closed /\ pc[c] = "wait") ~> pc[c] \in {"returned", "panicked"}
=============================================================================
