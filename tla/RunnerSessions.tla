--------------------------- MODULE RunnerSessions ---------------------------
(***************************************************************************)
(* The runner's session cache: what sessionFor builds, what CloseSession    *)
(* and the serve shutdown take down, and what the process leaves behind.    *)
(* An incarnation is one Session object; the cache hands it out by id.      *)
(* Sources: src/kit/runtime/runtime.go, src/kit/runtime/cron_wiring.go,     *)
(* src/kit/session/session.go, src/kit/mcp/host.go,                         *)
(* src/internal/acpserve/acp_serve.go, src/internal/acp/server.go.          *)
(***************************************************************************)
EXTENDS Naturals, FiniteSets

CONSTANTS
  Id,          \* session ids
  Closer,      \* concurrent session/close, session/delete and logout requests
  MaxBuilds,   \* bound: incarnations ever built
  NoId         \* lastSessionID == ""

VARIABLES
  sessions,    \* Runner.sessions: id -> incarnation, 0 when absent
  built,       \* incarnations built so far
  inc,         \* incarnation -> what it owns
  trackers,    \* Runner.trackers: id -> incarnation whose tracker is bound, 0 none
  wakeInFlight, \* Runner.wakeInFlight: ids that have an entry
  parked,      \* ids with a parked chain registered in parkedCancels
  lastSessionID,
  closer,      \* a CloseSession call: where it is, for which id, holding what
  down,        \* the serve ctx-done goroutine: "idle", "drain", "close", "done"
  toClose,     \* closeAllSessions' snapshot
  ctxDone,     \* the serve context is cancelled
  served,      \* Serve has returned
  exited       \* the process is gone

vars == <<sessions, built, inc, trackers, wakeInFlight, parked, lastSessionID,
          closer, down, toClose, ctxDone, served, exited>>

Incarnation == 1..MaxBuilds
Unbuilt == [id |-> NoId, host |-> "none", toolkit |-> FALSE,
            writer |-> FALSE, forwarder |-> FALSE, turn |-> FALSE, ask |-> FALSE, closed |-> FALSE]

Init ==
  /\ sessions = [i \in Id |-> 0]
  /\ built = 0
  /\ inc = [n \in Incarnation |-> Unbuilt]
  /\ trackers = [i \in Id |-> 0]
  /\ wakeInFlight = {} /\ parked = {}
  /\ lastSessionID = NoId
  /\ closer = [c \in Closer |-> [pc |-> "idle", id |-> NoId, n |-> 0]]
  /\ down = "idle" /\ toClose = {}
  /\ ctxDone = FALSE /\ served = FALSE /\ exited = FALSE

Serving == UNCHANGED <<ctxDone, served, exited, down, toClose>>

-----------------------------------------------------------------------------
(* sessionFor.  The whole build runs under sessMu, so it is one step.       *)

\* A cached session is handed out and becomes the current one.
Adopt(i) ==
  /\ ~exited /\ sessions[i] # 0
  /\ lastSessionID' = i
  /\ UNCHANGED <<sessions, built, inc, trackers, wakeInFlight, parked, closer>>
  /\ Serving

\* mcp.Start: a server that does not connect is skipped, so the host may own none;
\* under a cancelled context none connects.
Connects == IF ctxDone THEN {"nop"} ELSE {"nop", "live"}

\* spawnMCP: a configuration error or an empty server set yields the no-op host.
Hosts == {"nop"} \union Connects

\* attachToolkit: an attach error without a reaper leaves the session on the stub
\* executor.
Toolkits == BOOLEAN

\* The toolkit binds the session's tracker under the id while it attaches.
BindTracker(i, n, toolkit) ==
  trackers' = IF toolkit THEN [trackers EXCEPT ![i] = n] ELSE trackers

\* The session object: its transcript writer and its forwarder run from the start.
NewSession(i, host, toolkit) ==
  [id |-> i, host |-> host, toolkit |-> toolkit, writer |-> TRUE, forwarder |-> TRUE,
   turn |-> FALSE, ask |-> FALSE, closed |-> FALSE]

\* The transcript opens in the project or in the temp directory (when neither does,
\* the session is unavailable and nothing changes); then everything else is built and
\* the session enters the cache.
Build(i, host, toolkit) ==
  /\ ~exited /\ sessions[i] = 0 /\ built < MaxBuilds
  /\ built' = built + 1
  /\ inc' = [inc EXCEPT ![built + 1] = NewSession(i, host, toolkit)]
  /\ sessions' = [sessions EXCEPT ![i] = built + 1]
  /\ BindTracker(i, built + 1, toolkit)
  /\ lastSessionID' = i
  /\ UNCHANGED <<wakeInFlight, parked, closer>>
  /\ Serving

\* session/new, session/load and session/prompt reach sessionFor with the client's id.
ClientBuilds(i) ==
  /\ ~served
  /\ \/ Adopt(i)
     \/ \E h \in Hosts, t \in Toolkits : Build(i, h, t)

\* The scheduler tick reaches it with the id remembered last, closed or not.
TickBuilds ==
  /\ ~ctxDone /\ lastSessionID # NoId
  /\ \/ Adopt(lastSessionID)
     \/ \E h \in Hosts, t \in Toolkits : Build(lastSessionID, h, t)

-----------------------------------------------------------------------------
(* Turns hold the incarnation they were given, evicted or not.              *)

SetInc(n, f, v) == inc' = [inc EXCEPT ![n][f] = v]
Aside == UNCHANGED <<sessions, built, trackers, lastSessionID, closer>> /\ Serving

TurnStarts(i) ==
  /\ ~served /\ sessions[i] # 0 /\ ~inc[sessions[i]].turn
  /\ SetInc(sessions[i], "turn", TRUE)
  /\ Aside /\ UNCHANGED <<wakeInFlight, parked>>

\* A turn opens a permission dialog; it is resolved by an answer or a drain.
AskOpens(n) ==
  /\ ~exited /\ inc[n].turn /\ ~inc[n].ask
  /\ SetInc(n, "ask", TRUE)
  /\ Aside /\ UNCHANGED <<wakeInFlight, parked>>

AskAnswered(n) ==
  /\ ~exited /\ inc[n].ask
  /\ SetInc(n, "ask", FALSE)
  /\ Aside /\ UNCHANGED <<wakeInFlight, parked>>

\* A turn that ends may leave a parked chain behind; a turn waiting on a dialog has
\* not ended.
TurnEnds(n, parks) ==
  /\ ~exited /\ inc[n].turn /\ ~inc[n].ask
  /\ SetInc(n, "turn", FALSE)
  /\ parked' = IF parks THEN parked \union {inc[n].id} ELSE parked
  /\ Aside /\ UNCHANGED wakeInFlight

\* A completion of a background task asks for a wake drain: the entry of wakeInFlight
\* is created whether or not a tracker is bound.
TaskDone(n) ==
  /\ ~ctxDone /\ n <= built /\ inc[n].toolkit /\ ~inc[n].closed
  /\ wakeInFlight' = wakeInFlight \union {inc[n].id}
  /\ Aside /\ UNCHANGED <<inc, parked>>

\* DrainAsks: session/cancel and session/close drain the cached session's dialogs.
DrainAsks(i) ==
  /\ ~served /\ sessions[i] # 0 /\ inc[sessions[i]].ask
  /\ SetInc(sessions[i], "ask", FALSE)
  /\ Aside /\ UNCHANGED <<wakeInFlight, parked>>

-----------------------------------------------------------------------------
(* CloseSession, one step per lock it takes and per call that can block.    *)

CloserAt(c, pc) == closer[c].pc = pc
CloserTo(c, pc) == closer' = [closer EXCEPT ![c].pc = pc]
Else == UNCHANGED <<built, lastSessionID>> /\ Serving

\* cancelParkedChains first: no decision and no injection after the session end.
CloseBegins(c, i) ==
  /\ ~served /\ CloserAt(c, "idle")
  /\ parked' = parked \ {i}
  /\ closer' = [closer EXCEPT ![c] = [pc |-> "evict", id |-> i, n |-> 0]]
  /\ UNCHANGED <<sessions, inc, trackers, wakeInFlight>>
  /\ Else

\* Evict before Close: the cache never hands out a session whose reap is starting.
CloseEvicts(c) ==
  LET i == closer[c].id IN
  /\ ~exited /\ CloserAt(c, "evict")
  /\ sessions' = [sessions EXCEPT ![i] = 0]
  /\ closer' = [closer EXCEPT ![c].pc = IF sessions[i] = 0 THEN "prune" ELSE "reap",
                              ![c].n = sessions[i]]
  /\ UNCHANGED <<inc, trackers, wakeInFlight, parked>>
  /\ Else

\* Session.Close runs OnClose once: the forwarder stops, then the writer's context is
\* cancelled, the toolkit reaped and the host closed.
\* Host.Close ends every connected server and its process group.
CloseHost(h) == IF h = "live" THEN "closed" ELSE h

\* Mutant: the forwarder's wrapper replaces the earlier OnClose instead of calling it.
OnCloseForwarderOnly(x) == [x EXCEPT !.forwarder = FALSE, !.closed = TRUE]

OnClose(x) == [x EXCEPT !.forwarder = FALSE, !.writer = FALSE, !.toolkit = FALSE,
                        !.host = CloseHost(@), !.closed = TRUE]
Reap(n) == IF inc[n].closed THEN inc' = inc ELSE inc' = [inc EXCEPT ![n] = OnClose(@)]

CloseReaps(c) ==
  /\ ~exited /\ CloserAt(c, "reap")
  /\ Reap(closer[c].n)
  /\ CloserTo(c, "prune")
  /\ UNCHANGED <<sessions, trackers, wakeInFlight, parked>>
  /\ Else

\* Then the per-session wake state is pruned by id, unconditionally.
ClosePrunes(c) ==
  LET i == closer[c].id IN
  /\ ~exited /\ CloserAt(c, "prune")
  /\ trackers' = [trackers EXCEPT ![i] = 0]
  /\ wakeInFlight' = wakeInFlight \ {i}
  /\ CloserTo(c, "done")
  /\ UNCHANGED <<sessions, inc, parked>>
  /\ Else

-----------------------------------------------------------------------------
(* The end of the serve.  A signal cancels the context; a goroutine nobody  *)
(* waits for then drains the dialogs and closes the cached sessions.  Serve *)
(* itself returns when its input ends, after its handlers.                  *)

Rest == UNCHANGED <<sessions, built, trackers, wakeInFlight, lastSessionID, closer, exited>>

Signal ==
  /\ ~ctxDone /\ ~exited
  /\ ctxDone' = TRUE
  /\ Rest /\ UNCHANGED <<inc, parked, down, toClose, served>>

\* End of input: Serve waits for the request handlers, closers included, and returns;
\* the deferred stop then cancels the context.
HandlersDone == \A c \in Closer : closer[c].pc \in {"idle", "done"}
ServeReturns ==
  /\ ~served /\ HandlersDone
  /\ served' = TRUE /\ ctxDone' = TRUE
  /\ Rest /\ UNCHANGED <<inc, parked, down, toClose>>

Exit ==
  /\ served /\ ~exited
  /\ exited' = TRUE
  /\ UNCHANGED <<sessions, built, inc, trackers, wakeInFlight, parked,
                 lastSessionID, closer, down, toClose, ctxDone, served>>

DrainAllAsks ==
  /\ ctxDone /\ ~exited /\ down = "idle"
  /\ inc' = [n \in Incarnation |->
               IF \E i \in Id : sessions[i] = n THEN [inc[n] EXCEPT !.ask = FALSE] ELSE inc[n]]
  /\ down' = "drain"
  /\ Rest /\ UNCHANGED <<parked, toClose, ctxDone, served>>

CloseAllSnapshot ==
  /\ ~exited /\ down = "drain"
  /\ toClose' = {sessions[i] : i \in {j \in Id : sessions[j] # 0}}
  /\ down' = "close"
  /\ Rest /\ UNCHANGED <<inc, parked, ctxDone, served>>

CloseAllReaps(n) ==
  /\ ~exited /\ down = "close" /\ n \in toClose
  /\ Reap(n)
  /\ toClose' = toClose \ {n}
  /\ Rest /\ UNCHANGED <<parked, down, ctxDone, served>>

CloseAllParked ==
  /\ ~exited /\ down = "close" /\ toClose = {}
  /\ parked' = {}
  /\ down' = "done"
  /\ Rest /\ UNCHANGED <<inc, toClose, ctxDone, served>>

CloseStep(c) == CloseEvicts(c) \/ CloseReaps(c) \/ ClosePrunes(c)
CloseAll ==
  \/ DrainAllAsks \/ CloseAllSnapshot \/ CloseAllParked
  \/ \E n \in Incarnation : CloseAllReaps(n)

Next ==
  \/ TickBuilds \/ Signal \/ ServeReturns \/ Exit \/ CloseAll
  \/ \E i \in Id : ClientBuilds(i) \/ TurnStarts(i) \/ DrainAsks(i)
  \/ \E n \in Incarnation :
        AskOpens(n) \/ AskAnswered(n) \/ TaskDone(n) \/ \E p \in BOOLEAN : TurnEnds(n, p)
  \/ \E c \in Closer : CloseStep(c) \/ \E i \in Id : CloseBegins(c, i)

Spec == Init /\ [][Next]_vars

\* The goroutine of a close request and the shutdown goroutine run on while the
\* process lives.
Fairness == (\A c \in Closer : WF_vars(CloseStep(c))) /\ WF_vars(CloseAll)
FairSpec == Spec /\ Fairness

-----------------------------------------------------------------------------
(* Properties.                                                              *)

TypeOK ==
  /\ sessions \in [Id -> 0..MaxBuilds] /\ trackers \in [Id -> 0..MaxBuilds]
  /\ built \in 0..MaxBuilds
  /\ \A n \in Incarnation : inc[n].host \in {"none", "nop", "live", "closed"}
  /\ wakeInFlight \subseteq Id /\ parked \subseteq Id
  /\ lastSessionID \in Id \union {NoId}
  /\ \A c \in Closer : closer[c].pc \in {"idle", "evict", "reap", "prune", "done"}
  /\ down \in {"idle", "drain", "close", "done"} /\ toClose \subseteq Incarnation

(* Until the serve ends the cache never hands out a half-reaped session: the  *)
(* incarnation under an id still owns its writer, forwarder and host.  Two    *)
(* closes of one id and a rebuild between them may interleave.               *)
NeverHalfReaped ==
  ~ctxDone => \A i \in Id : sessions[i] # 0 =>
                 /\ ~inc[sessions[i]].closed
                 /\ inc[sessions[i]].writer /\ inc[sessions[i]].forwarder

(* Every incarnation that leaves the cache gives its resources back, whichever *)
(* of several closers evicted it, unless the process ends first.              *)
EvictedIsReaped ==
  \A n \in Incarnation :
     (n <= built /\ \A i \in Id : sessions[i] # n)
       ~> (exited \/ (inc[n].closed /\ inc[n].host # "live" /\ ~inc[n].writer /\ ~inc[n].forwarder))

(* What runtime.go:3270-3275 and acp_serve.go:566-568 say: the ctx-done path   *)
(* closes every live session so that no subprocess outlives the process.       *)
(* Refuted: when Serve ends with its input, and not on ctx, nothing closes     *)
(* the sessions.                                                               *)
NoHostOutlivesProcess == exited => \A n \in Incarnation : inc[n].host # "live"

(* What runtime.go:3266-3269 says: a later sessionFor of the id reconstructs a *)
(* full session.  A full session with a toolkit has its tracker bound.         *)
(* Refuted: a close that prunes late takes the tracker of the rebuilt session  *)
(* with it.                                                                    *)
RebuiltIsFull ==
  \A i \in Id : (sessions[i] # 0 /\ inc[sessions[i]].toolkit) => trackers[i] = sessions[i]

=============================================================================
