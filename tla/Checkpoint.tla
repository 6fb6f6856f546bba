----------------------------- MODULE Checkpoint -----------------------------
(***************************************************************************)
(* The shadow-git checkpoint store (kit/checkpoint/store.go) and /undo     *)
(* (kit/runtime): a snapshot at every turn start, retention, and the walk  *)
(* back through a session's snapshots, while other sessions of the process *)
(* share the one worktree.                                                 *)
(*                                                                         *)
(* A worktree is a version number; a checkpoint ref is a record naming its *)
(* session, family, number, commit second and tree.  Each store operation  *)
(* is one step: it runs under the store's lock, which StoreLock models.    *)
(***************************************************************************)
EXTENDS Integers, FiniteSets, Sequences, FiniteSetsExt, SequencesExt

CONSTANTS
  Session,      \* sessions, ordered as their ids sort
  DefaultKeep,  \* refs the per-snapshot prune leaves in the store
  PerSession,   \* checkpoint.max_per_session of the sweep
  MaxAge,       \* checkpoint.expiry_days of the sweep, in seconds
  MaxDepth,     \* largest depth given to /undo
  MaxTurns, MaxTime, MaxTree, MaxUndo, MaxCrash   \* bounds of the model

CheckpointAssumption ==
  /\ Session \subseteq Nat
  /\ {DefaultKeep, PerSession, MaxAge, MaxDepth} \subseteq Nat \ {0}

VARIABLES
  made,      \* how much of shadow.git is on disk, 0 .. Complete
  store,     \* the process's view: "closed", "making", "open" or "disabled"
  clock,     \* seconds; a commit carries whole seconds
  tree,      \* the worktree
  trees,     \* versions written so far
  refs,      \* refs/checkpoints/*
  turns,     \* turns started per session
  active,    \* what holds each session's turn mutex
  cancelled, \* sessions whose turn was told to stop
  undo,      \* the /undo in progress
  undos, crashes,
  latest     \* History: per session, the pre-restore snapshot minted last,
             \* while no other snapshot of the session followed it

vars == <<made, store, clock, tree, trees, refs, turns, active, cancelled, undo,
          undos, crashes, latest>>

Complete == 4        \* init, core.bare=false, HEAD, root commit
NoUndo == [pc |-> "none"]
NoRef == [s |-> 0]

Usable == store = "open" /\ made = Complete

Init ==
  /\ made = 0 /\ store = "closed" /\ clock = 1 /\ tree = 0 /\ trees = 0
  /\ refs = {} /\ turns = [s \in Session |-> 0]
  /\ active = [s \in Session |-> "idle"] /\ cancelled = {}
  /\ undo = NoUndo /\ undos = 0 /\ crashes = 0
  /\ latest = [s \in Session |-> NoRef]

Id(r) == <<r.s, r.kind, r.n>>

-----------------------------------------------------------------------------
(* Orders of the refs, and what each deletion keeps *)

\* listRefs: by session, then number, "pre" before "turn".
ListBefore(a, b) ==
  \/ a.s < b.s
  \/ a.s = b.s /\ a.n < b.n
  \/ a.s = b.s /\ a.n = b.n /\ a.kind = "pre" /\ b.kind = "turn"

\* prune drops refs from the front of the list until DefaultKeep are left.
Prune(rs) == {r \in rs : Cardinality({q \in rs : ListBefore(r, q)}) < DefaultKeep}

\* Mutant: the tie of one second is broken against the pre-restore snapshot.
WalkBeforeTurnFirst(a, b) ==
  \/ a.at > b.at
  \/ a.at = b.at /\ a.kind = "turn" /\ b.kind = "pre"
  \/ a.at = b.at /\ a.kind = b.kind /\ a.n > b.n

\* undoWalkTarget: newest first; within one second "pre" above "turn", then the
\* higher number.
WalkBefore(a, b) ==
  \/ a.at > b.at
  \/ a.at = b.at /\ a.kind = "pre" /\ b.kind = "turn"
  \/ a.at = b.at /\ a.kind = b.kind /\ a.n > b.n

Mine(rs, s) == {r \in rs : r.s = s}

\* The entry `depth` steps back, clamped to the oldest.
WalkTarget(rs, s, depth) ==
  LET walk == Mine(rs, s)
      Ahead(r) == {q \in walk : WalkBefore(q, r)}
  IN  CHOOSE r \in walk : Cardinality(Ahead(r)) = Min({depth, Cardinality(walk)}) - 1

\* expireByAge and expireByCount: newest first by second, number and ref name.
SweepBefore(a, b) ==
  \/ a.at > b.at
  \/ a.at = b.at /\ a.n > b.n
  \/ a.at = b.at /\ a.n = b.n /\ a.kind = "turn" /\ b.kind = "pre"

Sweep(rs) ==
  LET young == {r \in rs : r.at >= clock - MaxAge}
  IN  {r \in young : Cardinality({q \in Mine(young, r.s) : SweepBefore(q, r)}) < PerSession}

\* commitSnapshot and updateRef: the ref of an id already there is replaced.
Minted(rs, r) == {q \in rs : Id(q) # Id(r)} \cup {r}

Ref(s, kind, n) == [s |-> s, kind |-> kind, n |-> n, at |-> clock, tree |-> tree]
NextPre(s) == 1 + Max({0} \cup {r.n : r \in {q \in Mine(refs, s) : q.kind = "pre"}})

-----------------------------------------------------------------------------
(* The store's life *)

\* Open makes the repository only when its objects directory is missing ...
OpenFresh ==
  /\ store = "closed" /\ made = 0
  /\ made' = 1 /\ store' = "making"
  /\ UNCHANGED <<clock, tree, trees, refs, turns, active, cancelled, undo, undos, crashes, latest>>

\* ... in steps that each reach the disk on their own ...
InitStep ==
  /\ store = "making"
  /\ made' = made + 1
  /\ store' = IF made + 1 = Complete THEN "open" ELSE "making"
  /\ UNCHANGED <<clock, tree, trees, refs, turns, active, cancelled, undo, undos, crashes, latest>>

\* ... any of which may fail: the runner then goes on without a store ...
InitFails ==
  /\ store = "making"
  /\ store' = "disabled"
  /\ UNCHANGED <<made, clock, tree, trees, refs, turns, active, cancelled, undo, undos, crashes, latest>>

\* ... and otherwise takes what it finds.
OpenExisting ==
  /\ store = "closed" /\ made > 0
  /\ store' = "open"
  /\ UNCHANGED <<made, clock, tree, trees, refs, turns, active, cancelled, undo, undos, crashes, latest>>

\* Every session that is built sweeps the store.
SessionStart ==
  /\ Usable
  /\ refs' = Sweep(refs)
  /\ UNCHANGED <<made, store, clock, tree, trees, turns, active, cancelled, undo, undos, crashes, latest>>

Crash ==
  /\ store # "closed" /\ crashes < MaxCrash
  /\ crashes' = crashes + 1
  /\ store' = "closed" /\ active' = [s \in Session |-> "idle"]
  /\ cancelled' = {} /\ undo' = NoUndo
  /\ UNCHANGED <<made, clock, tree, trees, refs, turns, undos, latest>>

Second ==
  /\ clock < MaxTime /\ clock' = clock + 1
  /\ UNCHANGED <<made, store, tree, trees, refs, turns, active, cancelled, undo, undos, crashes, latest>>

\* session/delete removes the session's refs.
DeleteSession(s) ==
  /\ Usable /\ active[s] = "idle" /\ Mine(refs, s) # {}
  /\ refs' = refs \ Mine(refs, s)
  /\ latest' = [latest EXCEPT ![s] = NoRef]
  /\ UNCHANGED <<made, store, clock, tree, trees, turns, active, cancelled, undo, undos, crashes>>

-----------------------------------------------------------------------------
(* Turns *)

\* A turn of the client or of an automation snapshots the worktree first; a
\* failed snapshot is logged and the turn goes on without it.
StartTurn(s, kind) ==
  /\ store \in {"open", "disabled"} /\ active[s] = "idle" /\ turns[s] < MaxTurns
  /\ active' = [active EXCEPT ![s] = kind]
  /\ turns' = [turns EXCEPT ![s] = @ + 1]
  /\ \/ /\ Usable
        /\ refs' = Prune(Minted(refs, Ref(s, "turn", turns[s] + 1)))
        /\ latest' = [latest EXCEPT ![s] = NoRef]
     \/ UNCHANGED <<refs, latest>>
  /\ UNCHANGED <<made, store, clock, tree, trees, cancelled, undo, undos, crashes>>

\* A tool of the turn writes to the shared worktree.
Write(s) ==
  /\ active[s] \in {"client", "auto"} /\ trees < MaxTree
  /\ trees' = trees + 1 /\ tree' = trees + 1
  /\ UNCHANGED <<made, store, clock, refs, turns, active, cancelled, undo, undos, crashes, latest>>

EndTurn(s) ==
  /\ active[s] \in {"client", "auto"}
  /\ active' = [active EXCEPT ![s] = "idle"]
  /\ cancelled' = cancelled \ {s}
  /\ UNCHANGED <<made, store, clock, tree, trees, refs, turns, undo, undos, crashes, latest>>

-----------------------------------------------------------------------------
(* /undo *)

\* prepareUndo lists the refs and picks the target; a command with nothing to
\* restore ends there.  The idle path runs under the session's turn mutex, the
\* active path is routed before it.
PrepareUndo(s, depth) ==
  /\ Usable /\ undo = NoUndo /\ undos < MaxUndo
  /\ active[s] \in {"idle", "client"}
  /\ Mine(refs, s) # {}
  /\ undos' = undos + 1
  /\ undo' = [pc |-> "planned", s |-> s, live |-> active[s] = "client",
              target |-> Id(WalkTarget(refs, s, depth))]
  /\ active' = IF active[s] = "idle" THEN [active EXCEPT ![s] = "undo"] ELSE active
  /\ UNCHANGED <<made, store, clock, tree, trees, refs, turns, cancelled, crashes, latest>>

UndoEnds ==
  /\ undo' = NoUndo
  /\ active' = IF active[undo.s] = "undo" THEN [active EXCEPT ![undo.s] = "idle"] ELSE active

\* workspaceBlockers sees the client turns of the other sessions.
Blocked(s) == \E o \in Session \ {s} : active[o] = "client"

UndoRefused ==
  /\ undo.pc \in {"planned", "minted"} /\ Blocked(undo.s)
  /\ undo.pc = "minted" => undo.live
  /\ UndoEnds
  /\ UNCHANGED <<made, store, clock, tree, trees, refs, turns, cancelled, undos, crashes, latest>>

\* SnapshotPreRestore comes first, and its failure aborts the undo.
UndoSnapshot ==
  /\ undo.pc = "planned" /\ ~Blocked(undo.s)
  /\ \/ LET pre == Ref(undo.s, "pre", NextPre(undo.s))
        IN  /\ refs' = Prune(Minted(refs, pre))
            /\ latest' = [latest EXCEPT ![undo.s] = pre]
            /\ undo' = [undo EXCEPT !.pc = "minted"]
            /\ UNCHANGED active
     \/ UndoEnds /\ UNCHANGED <<refs, latest>>
  /\ UNCHANGED <<made, store, clock, tree, trees, turns, cancelled, undos, crashes>>

\* The active path then cancels the session's own turn ...
UndoCancels ==
  /\ undo.pc = "minted" /\ undo.live /\ ~Blocked(undo.s)
  /\ undo' = [undo EXCEPT !.pc = "waiting"]
  /\ cancelled' = IF active[undo.s] = "client" THEN cancelled \cup {undo.s} ELSE cancelled
  /\ UNCHANGED <<made, store, clock, tree, trees, refs, turns, active, undos, crashes, latest>>

\* ... waits for the turn mutex, and restores the target if it is still there.
UndoRestore ==
  /\ \/ undo.pc = "minted" /\ ~undo.live
     \/ undo.pc = "waiting" /\ active[undo.s] = "idle"
  /\ tree' = IF \E r \in refs : Id(r) = undo.target
             THEN (CHOOSE r \in refs : Id(r) = undo.target).tree ELSE tree
  /\ UndoEnds
  /\ UNCHANGED <<made, store, clock, trees, refs, turns, cancelled, undos, crashes, latest>>

\* `checkpoint restore` in a terminal is another process: no guard, no snapshot.
TerminalRestore ==
  /\ made = Complete
  /\ \E r \in refs : tree' = r.tree
  /\ UNCHANGED <<made, store, clock, trees, refs, turns, active, cancelled, undo, undos, crashes, latest>>

Next ==
  \/ SessionStart \/ TerminalRestore
  \/ OpenFresh \/ InitStep \/ InitFails \/ OpenExisting \/ Crash \/ Second
  \/ \E s \in Session :
       \/ DeleteSession(s) \/ Write(s) \/ EndTurn(s)
       \/ \E kind \in {"client", "auto"} : StartTurn(s, kind)
       \/ \E depth \in 1 .. MaxDepth : PrepareUndo(s, depth)
  \/ UndoRefused \/ UndoSnapshot \/ UndoCancels \/ UndoRestore

Spec == Init /\ [][Next]_vars

-----------------------------------------------------------------------------
(* Properties *)

TypeOK ==
  /\ made \in 0 .. Complete /\ store \in {"closed", "making", "open", "disabled"}
  /\ tree \in 0 .. trees
  /\ \A r \in refs : r.s \in Session /\ r.kind \in {"turn", "pre"} /\ r.at \in 1 .. clock
  /\ active \in [Session -> {"idle", "client", "auto", "undo"}]
  /\ undo.pc \in {"none", "planned", "minted", "waiting"}

\* The walk is reversible (undoWalkTarget): until the session takes another
\* snapshot, the next /undo goes to the snapshot the last one took first, even
\* when both fall into the second of a turn's own snapshot; and no two refs of
\* a session carry one id.
UndoOfUndo ==
  \A s \in Session :
    /\ latest[s] \in refs => WalkTarget(refs, s, 1) = latest[s]
    /\ \A r, q \in Mine(refs, s) : Id(r) = Id(q) => r = q

\* "After each snapshot the store prunes its oldest turn refs beyond this many"
\* (store.go, DefaultKeep): the snapshot just taken, the newest, is not pruned.
\* Refuted: among refs of one second the order is by session, and the newest
\* may come first.
PruneKeepsTheNewest ==
  [][(undo.pc = "planned" /\ undo'.pc = "minted") => latest'[undo.s] \in refs']_vars

\* "Init is idempotent ... a fresh store immediately carries an empty-tree root
\* commit" (store.go, Open): a store that opens can take snapshots.
\* Refuted: a crash inside Init leaves a directory that opens and has no root
\* commit.
OpenedStoreIsUsable == store = "open" => made = Complete
=============================================================================
