----------------------------- MODULE AcpSession -----------------------------
(***************************************************************************)
(* internal/acp/handlers.go: the life of one session id on the server.     *)
(* Requests run in their own goroutines (prompt, load, close, delete,      *)
(* logout), session/cancel on the reader.  They share the sessions map,    *)
(* the mid-load marker, the tombstone on disk and one sessionState per     *)
(* incarnation of the id, with its stored cancel func and its turn         *)
(* WaitGroup.                                                              *)
(*                                                                         *)
(* A step is one critical section (s.mu or st.mu), one WaitGroup operation *)
(* or one call into the runtime.  Each goroutine serves one request.       *)
(* turnWG is the number of prompts of the incarnation between Add and      *)
(* Done, so it is derived.  Asks are drained in AskQueue's model; the      *)
(* turn itself is in the runtime's.                                        *)
(***************************************************************************)
EXTENDS Naturals, FiniteSets

CONSTANTS Prompt, Loader, Closer, Logout, Canceller, \* request goroutines
          Overlap,      \* whether the client prompts while a prompt is in flight
          Wedges,       \* whether a turn may outlast a close's drain timeout
          NoPrompt

AcpAssumption == /\ Overlap \in BOOLEAN /\ Wedges \in BOOLEAN
                 /\ NoPrompt \notin Prompt /\ IsFiniteSet(Loader)

VARIABLES cur,          \* s.sessions[id]: the incarnation, 0 if absent
          last,         \* incarnations constructed so far
          ready,        \* incarnations with st.ready
          cancel,       \* cancel[i]: the prompt whose CancelFunc st.cancel holds
          loading,      \* s.loading[id]
          tombstone,    \* <id>.deleted exists
          cancelled,    \* prompts whose turn ctx is cancelled
          ppc, pst,     \* prompt handlers: where, and their st
          lpc, lst,     \* load handlers
          kpc, kst,     \* close and delete handlers
          deleting,     \* handlers among them that serve session/delete
          gpc,          \* logout handlers
          npc, nst      \* session/cancel notifications

shared     == <<cur, last, ready, cancel, loading, tombstone, cancelled>>
promptVars == <<ppc, pst>>
loadVars   == <<lpc, lst>>
closeVars  == <<kpc, kst, deleting>>
cancelVars == <<npc, nst>>
vars == <<shared, promptVars, loadVars, closeVars, gpc, cancelVars>>

MaxIncarnation == 1 + Cardinality(Loader)
Incarnation    == 1 .. MaxIncarnation

\* handleSessionNew has made incarnation 1, ready from construction.
Init ==
    /\ cur = 1 /\ last = 1 /\ ready = {1} /\ loading = FALSE /\ tombstone = FALSE
    /\ cancel = [i \in Incarnation |-> NoPrompt] /\ cancelled = {}
    /\ ppc = [p \in Prompt |-> "idle"] /\ pst = [p \in Prompt |-> 0]
    /\ lpc = [l \in Loader |-> "idle"] /\ lst = [l \in Loader |-> 0]
    /\ kpc = [k \in Closer |-> "idle"] /\ kst = [k \in Closer |-> 0]
    /\ deleting = {} /\ gpc = [g \in Logout |-> "idle"]
    /\ npc = [n \in Canceller |-> "idle"] /\ nst = [n \in Canceller |-> 0]

-----------------------------------------------------------------------------
(***************************************************************************)
(* handleSessionPrompt: gate, store the cancel func, Add, re-check, Run,   *)
(* Done, clear the cancel func.                                            *)
(***************************************************************************)
InFlight(p) == ppc[p] \notin {"idle", "done"}
OnDrainSet(i) == {p \in Prompt : pst[p] = i /\ ppc[p] \in {"added", "running"}}

Gate == cur # 0 /\ cur \in ready    \* else one of the typed errors

PromptGate(p) ==
    /\ ppc[p] = "idle"
    /\ Overlap \/ \A q \in Prompt : ~InFlight(q)
    /\ ppc' = [ppc EXCEPT ![p] = IF Gate THEN "gated" ELSE "done"]
    /\ pst' = [pst EXCEPT ![p] = cur]
    /\ UNCHANGED <<shared, loadVars, closeVars, gpc, cancelVars>>

PromptStep(p, from, to) ==
    /\ ppc[p] = from
    /\ ppc' = [ppc EXCEPT ![p] = to]
    /\ UNCHANGED <<pst, loadVars, closeVars, gpc, cancelVars>>

\* Mutant: the prompt does not store its cancel func.
CancelSlotKept(p) == cancel

CancelSlot(p) == [cancel EXCEPT ![pst[p]] = p]

SetCancel(p) ==
    /\ PromptStep(p, "gated", "armed")
    /\ cancel' = CancelSlot(p)
    /\ UNCHANGED <<cur, last, ready, loading, tombstone, cancelled>>

RegisterAdd(p) == PromptStep(p, "armed", "added") /\ UNCHANGED shared

\* registerTurn's liveness check, by identity; the turn's Run follows.
RegisterCheck(p) ==
    /\ PromptStep(p, "added", IF cur = pst[p] THEN "running" ELSE "clear")
    /\ UNCHANGED shared

RunReturns(p) == PromptStep(p, "running", "clear") /\ UNCHANGED shared

ClearCancel(p) ==   \* the deferred setCancel(nil)
    /\ PromptStep(p, "clear", "done")
    /\ cancel' = [cancel EXCEPT ![pst[p]] = NoPrompt]
    /\ UNCHANGED <<cur, last, ready, loading, tombstone, cancelled>>

-----------------------------------------------------------------------------
\* st.cancelTurn().
CancelFunc(i) == {cancel[i]} \ {NoPrompt}

CancelTurn(i) == cancelled' = cancelled \cup CancelFunc(i)

\* handleSessionCancel: lookup, (asks drained,) cancelTurn.
CancelLookup(n) ==
    /\ npc[n] = "idle"
    /\ npc' = [npc EXCEPT ![n] = IF cur = 0 THEN "done" ELSE "found"]
    /\ nst' = [nst EXCEPT ![n] = cur]
    /\ UNCHANGED <<shared, promptVars, loadVars, closeVars, gpc>>

CancelFire(n) ==
    /\ npc[n] = "found"
    /\ npc' = [npc EXCEPT ![n] = "done"]
    /\ CancelTurn(nst[n])
    /\ UNCHANGED <<cur, last, ready, cancel, loading, tombstone, promptVars,
                   loadVars, closeVars, gpc, nst>>

-----------------------------------------------------------------------------
(***************************************************************************)
(* handleSessionClose and handleSessionDelete: the tombstone first (it may *)
(* fail and the delete goes on), then closeSessionSequence, then (delete)  *)
(* the checkpoints.                                                        *)
(***************************************************************************)
CloseStep(k, from, to) ==
    /\ kpc[k] = from
    /\ kpc' = [kpc EXCEPT ![k] = to]
    /\ UNCHANGED <<promptVars, loadVars, gpc, cancelVars>>

DeleteBegin(k) ==
    /\ CloseStep(k, "idle", "lookup")
    /\ deleting' = deleting \cup {k}
    /\ tombstone' \in {TRUE, tombstone}
    /\ UNCHANGED <<kst, cur, last, ready, cancel, loading, cancelled>>

CloseBegin(k) == CloseStep(k, "idle", "lookup") /\ UNCHANGED <<kst, deleting, shared>>

CloseLookup(k) ==
    /\ CloseStep(k, "lookup", IF cur = 0 THEN "done" ELSE "cancel")
    /\ kst' = [kst EXCEPT ![k] = cur]
    /\ UNCHANGED <<deleting, shared>>

CloseCancel(k) ==
    /\ CloseStep(k, "cancel", "wait")
    /\ CancelTurn(kst[k])
    /\ UNCHANGED <<kst, deleting, cur, last, ready, cancel, loading, tombstone>>

CloseDrained(k) == OnDrainSet(kst[k]) = {} /\ CloseStep(k, "wait", "reap")
                     /\ UNCHANGED <<kst, deleting, shared>>

\* The drain timed out: logged, and the close goes on.
CloseForced(k) == Wedges /\ OnDrainSet(kst[k]) # {} /\ CloseStep(k, "wait", "reap")
                    /\ UNCHANGED <<kst, deleting, shared>>

\* closeSessionIfPossible: the runtime closes its session for the id.
CloseReap(k) == CloseStep(k, "reap", "drop") /\ UNCHANGED <<kst, deleting, shared>>

CloseDrop(k) ==
    /\ CloseStep(k, "drop", "done")
    /\ cur' = 0
    /\ UNCHANGED <<kst, deleting, last, ready, cancel, loading, tombstone, cancelled>>

\* handleLogout: reap and drop whatever incarnation is there, no cancel, no wait.
LogoutReap(g) ==
    /\ gpc[g] = "idle"
    /\ gpc' = [gpc EXCEPT ![g] = "drop"]
    /\ UNCHANGED <<shared, promptVars, loadVars, closeVars, cancelVars>>

LogoutDrop(g) ==
    /\ gpc[g] = "drop"
    /\ gpc' = [gpc EXCEPT ![g] = "done"]
    /\ cur' = 0
    /\ UNCHANGED <<last, ready, cancel, loading, tombstone, cancelled, promptVars,
                   loadVars, closeVars, cancelVars>>

-----------------------------------------------------------------------------
(***************************************************************************)
(* LoadSession.                                                            *)
(***************************************************************************)
LoadStep(l, from, to) ==
    /\ lpc[l] = from
    /\ lpc' = [lpc EXCEPT ![l] = to]
    /\ UNCHANGED <<promptVars, closeVars, gpc, cancelVars>>

LoadStat(l) ==
    /\ LoadStep(l, "idle", IF tombstone THEN "done" ELSE "guard")
    /\ UNCHANGED <<lst, shared>>

LoadGuardFree == cur = 0 /\ ~loading

LoadGuard(l) ==     \* live check and marker in one critical section
    /\ LoadStep(l, "guard", IF LoadGuardFree THEN "replay" ELSE "done")
    /\ IF LoadGuardFree
         THEN /\ loading' = TRUE
              /\ last' = last + 1
              /\ lst' = [lst EXCEPT ![l] = last + 1]
         ELSE UNCHANGED <<loading, last, lst>>
    /\ UNCHANGED <<cur, ready, cancel, tombstone, cancelled>>

\* ResumeSession, ReplayTranscript, the advertisement and the Barrier.
LoadReplay(l) == LoadStep(l, "replay", "insert") /\ UNCHANGED <<lst, shared>>
LoadFails(l)  == LoadStep(l, "replay", "end") /\ UNCHANGED <<lst, shared>>

\* Mutant: the tombstone is not checked again before the insert.
InsertsBlindly == TRUE

MayInsert == ~tombstone

LoadInsert(l) ==    \* tombstone re-check and insert in one critical section
    /\ LoadStep(l, "insert", IF MayInsert THEN "ready" ELSE "end")
    /\ cur' = IF MayInsert THEN lst[l] ELSE cur
    /\ UNCHANGED <<lst, last, ready, cancel, loading, tombstone, cancelled>>

LoadReady(l) ==
    /\ LoadStep(l, "ready", "end")
    /\ ready' = ready \cup {lst[l]}
    /\ UNCHANGED <<lst, cur, last, cancel, loading, tombstone, cancelled>>

EndLoading(l) ==    \* the deferred endLoading, on every path past the guard
    /\ LoadStep(l, "end", "done")
    /\ loading' = FALSE
    /\ UNCHANGED <<lst, cur, last, ready, cancel, tombstone, cancelled>>

-----------------------------------------------------------------------------
Next ==
    \/ \E p \in Prompt : \/ PromptGate(p) \/ SetCancel(p) \/ RegisterAdd(p)
                         \/ RegisterCheck(p) \/ RunReturns(p) \/ ClearCancel(p)
    \/ \E n \in Canceller : CancelLookup(n) \/ CancelFire(n)
    \/ \E k \in Closer : \/ CloseBegin(k) \/ DeleteBegin(k) \/ CloseLookup(k)
                         \/ CloseCancel(k) \/ CloseDrained(k) \/ CloseForced(k)
                         \/ CloseReap(k) \/ CloseDrop(k)
    \/ \E g \in Logout : LogoutReap(g) \/ LogoutDrop(g)
    \/ \E l \in Loader : \/ LoadStat(l) \/ LoadGuard(l) \/ LoadReplay(l)
                         \/ LoadFails(l) \/ LoadInsert(l) \/ LoadReady(l)
                         \/ EndLoading(l)

Spec == Init /\ [][Next]_vars

-----------------------------------------------------------------------------
\* Type correctness.
TypeOK ==
    /\ cur \in 0 .. MaxIncarnation /\ last \in Incarnation
    /\ ready \subseteq Incarnation
    /\ cancel \in [Incarnation -> Prompt \cup {NoPrompt}]
    /\ loading \in BOOLEAN /\ tombstone \in BOOLEAN /\ cancelled \subseteq Prompt
    /\ ppc \in [Prompt -> {"idle", "gated", "armed", "added", "running", "clear", "done"}]
    /\ pst \in [Prompt -> 0 .. MaxIncarnation]
    /\ lpc \in [Loader -> {"idle", "guard", "replay", "insert", "ready", "end", "done"}]
    /\ lst \in [Loader -> 0 .. MaxIncarnation]
    /\ kpc \in [Closer -> {"idle", "lookup", "cancel", "wait", "reap", "drop", "done"}]
    /\ kst \in [Closer -> 0 .. MaxIncarnation] /\ deleting \subseteq Closer
    /\ gpc \in [Logout -> {"idle", "drop", "done"}]
    /\ npc \in [Canceller -> {"idle", "found", "done"}]
    /\ nst \in [Canceller -> 0 .. MaxIncarnation]

(***************************************************************************)
(* Deleted stays deleted: once a session/delete whose marker is on disk    *)
(* has returned, no load, however it raced the delete, has the session in  *)
(* the prompt-accepting map.                                               *)
(***************************************************************************)
DeletedStaysDeleted ==
    tombstone /\ (\E k \in deleting : kpc[k] = "done")
              /\ (\A k \in deleting : kpc[k] = "done") => cur = 0

(***************************************************************************)
(* One load at a time, and never onto a live session: the marker is up     *)
(* exactly while one load is past its guard, and the only session that can *)
(* be live meanwhile is the one that load inserted.                        *)
(***************************************************************************)
LoadExclusive ==
    LET past == {l \in Loader : lpc[l] \in {"replay", "insert", "ready", "end"}}
    IN  /\ Cardinality(past) = IF loading THEN 1 ELSE 0
        /\ \A l \in past : cur \in {0, lst[l]}

(***************************************************************************)
(* No prompt runs on an incarnation whose replay has not finished.         *)
(***************************************************************************)
PromptsWaitForReplay ==
    \A p \in Prompt, l \in Loader :
        ppc[p] = "running" /\ pst[p] = lst[l] => lpc[l] \in {"end", "done"}

(***************************************************************************)
(* session/cancel reaches the turn: when the notification's cancelTurn has *)
(* run, every turn then running on that session has its ctx cancelled.     *)
(***************************************************************************)
CancelReachesTurn ==
    [][\A n \in Canceller : npc[n] = "found" /\ npc'[n] = "done" =>
         \A p \in Prompt : ppc[p] = "running" /\ pst[p] = nst[n] => p \in cancelled']_vars

=============================================================================
