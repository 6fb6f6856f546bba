--------------------------- MODULE ProjectMemory ---------------------------
(***************************************************************************)
(* The CLAUDE.md / AGENTS.md files a session is given as context           *)
(* (internal/ecosys/memory.go): the walk from the user's global file down  *)
(* to the working directory, the shared read cache keyed by modification   *)
(* time and size, the per-file cap and the total budget. Sessions are      *)
(* built concurrently, while an editor changes the files.                  *)
(*                                                                         *)
(* A file's version stands for its key (mtime, size) and its content:      *)
(* every edit gives a new one.                                             *)
(***************************************************************************)
EXTENDS Integers, Sequences

CONSTANTS
  Walker,        \* sessions under construction
  Touched,       \* the paths that hold files and are edited
  Big,           \* paths whose content exceeds the per-file cap
  Budget,        \* the total budget, in capped files
  MaxEdits       \* bound on edits

MemoryAssumption == MaxEdits \in Nat /\ Budget \in Nat

Levels == {"assguardUser", "claudeUser", "root", "cwd"}
Files == {"CLAUDE", "AGENTS"}
Path == Levels \X Files
State == {"absent", "dir", "noPerm", "file"}

VARIABLES
  disk,          \* [Path -> State]
  ver,           \* [Path -> version]
  git,           \* the directories that carry a .git marker
  cache,         \* [Path -> [key, content]]: memCache, 0 when absent
  walk,          \* [Walker -> the walk's state]
  edits

vars == <<disk, ver, git, cache, walk, edits>>

NoPath == <<"none", "none">>
Entry(p, what, v) == [path |-> p, what |-> what, ver |-> v]
Fresh == [pc |-> "idle", levels |-> <<>>, todo |-> NoPath, after |-> <<>>,
          key |-> 0, content |-> 0, out |-> <<>>, began |-> [p \in Path |-> 0]]

-----------------------------------------------------------------------------
Init ==
  /\ disk \in [Path -> State]
  /\ \A p \in Path \ Touched : disk[p] = "absent"
  /\ ver = [p \in Path |-> 1]
  /\ git \in SUBSET {"root", "cwd"}
  /\ cache = [p \in Path |-> [key |-> 0, content |-> 0]]
  /\ walk = [w \in Walker |-> Fresh]
  /\ edits = 0

(* External: a file is written, created, or removed.                       *)
Edit(p, st) ==
  /\ edits < MaxEdits
  /\ disk' = [disk EXCEPT ![p] = st]
  /\ ver' = [ver EXCEPT ![p] = @ + 1]
  /\ edits' = edits + 1
  /\ UNCHANGED <<git, cache, walk>>

(* The levels below the user's: from the directory with the .git marker    *)
(* down to the working directory, or the working directory alone.          *)
MemoryLevels == IF "cwd" \notin git /\ "root" \in git THEN <<"root", "cwd">> ELSE <<"cwd">>

Start(w) ==
  /\ walk[w].pc = "idle"
  /\ walk' = [walk EXCEPT ![w] = [Fresh EXCEPT !.pc = "level",
                                    !.levels = <<"assguardUser">> \o MemoryLevels,
                                    !.began = ver]]
  /\ UNCHANGED <<disk, ver, git, cache, edits>>

Present(p) == disk[p] # "absent"
Regular(p) == disk[p] \in {"file", "noPerm"}
Unreadable(p) == Entry(p, "unreadable", 0)

(* One level's plan: the file to read, or none, and the notes after it.    *)
LevelMemory(l) ==
  LET claude == <<l, "CLAUDE">>
      agents == <<l, "AGENTS">>
      NoteIf(p, what) == IF Present(p) THEN <<Entry(p, what, 0)>> ELSE <<>>
  IN CASE Regular(claude) -> [read |-> claude, notes |-> NoteIf(agents, "shadowed")]
       [] ~Regular(claude) /\ Regular(agents) ->
            [read |-> agents, notes |-> NoteIf(claude, "unreadable")]
       [] OTHER -> [read |-> NoPath,
                    notes |-> NoteIf(claude, "unreadable") \o NoteIf(agents, "unreadable")]

(* The user's global level: anything under ~/.ass-guard, readable or not,  *)
(* keeps ~/.claude/CLAUDE.md out; AGENTS.md is not looked for there.       *)
UserGlobalMemory ==
  LET assguard == LevelMemory("assguardUser")
      claude == <<"claudeUser", "CLAUDE">>
  IN IF assguard.read # NoPath \/ assguard.notes # <<>> THEN assguard
     ELSE [read |-> IF Regular(claude) THEN claude ELSE NoPath,
           notes |-> IF Present(claude) /\ ~Regular(claude) THEN <<Unreadable(claude)>> ELSE <<>>]

(* The probe of the next level: both names are looked up, then read.       *)
Probe(w) ==
  /\ walk[w].pc = "level"
  /\ walk[w].levels # <<>>
  /\ LET l == Head(walk[w].levels)
         plan == IF l = "assguardUser" THEN UserGlobalMemory ELSE LevelMemory(l)
     IN walk' = [walk EXCEPT ![w].levels = Tail(@),
                             ![w].pc = IF plan.read = NoPath THEN "level" ELSE "stat",
                             ![w].todo = plan.read,
                             ![w].after = IF plan.read = NoPath THEN <<>> ELSE plan.notes,
                             ![w].out = IF plan.read = NoPath THEN @ \o plan.notes ELSE @]
  /\ UNCHANGED <<disk, ver, git, cache, edits>>

(* An entry of the walk is complete: it is followed by its level's notes.  *)
Emit(w, entry) ==
  walk' = [walk EXCEPT ![w].pc = "level", ![w].todo = NoPath, ![w].after = <<>>,
                       ![w].key = 0, ![w].content = 0,
                       ![w].out = @ \o <<entry>> \o walk[w].after]

(* memCachedRead: the cache answers when the modification time and the     *)
(* size of the stat are the stored ones.                                   *)
CacheHit(p, key) == cache[p].key # 0 /\ cache[p].key = key

(* readMemoryEntry: the stat, and the lookup under the cache's lock.       *)
StatAndLookup(w) ==
  /\ walk[w].pc = "stat"
  /\ LET p == walk[w].todo
     IN IF ~Regular(p) THEN Emit(w, Unreadable(p))
        ELSE IF CacheHit(p, ver[p]) THEN Emit(w, Entry(p, "content", cache[p].content))
        ELSE walk' = [walk EXCEPT ![w].pc = "read", ![w].key = ver[p]]
  /\ UNCHANGED <<disk, ver, git, cache, edits>>

(* The read itself happens outside the lock: the file may have changed.    *)
ReadPrefix(w) ==
  /\ walk[w].pc = "read"
  /\ LET p == walk[w].todo
     IN IF disk[p] = "file"
          THEN walk' = [walk EXCEPT ![w].pc = "store", ![w].content = ver[p]]
          ELSE Emit(w, Unreadable(p))
  /\ UNCHANGED <<disk, ver, git, cache, edits>>

(* The stored entry pairs the earlier stat's key with the content read.    *)
StoreCache(w) ==
  /\ walk[w].pc = "store"
  /\ cache' = [cache EXCEPT ![walk[w].todo] =
                 [key |-> walk[w].key, content |-> walk[w].content]]
  /\ Emit(w, Entry(walk[w].todo, "content", walk[w].content))
  /\ UNCHANGED <<disk, ver, git, edits>>

(* MemoryInjection: files are taken whole while the budget lasts, a file   *)
(* over the cap is cut to it, what does not fit leaves a note.             *)
Weight(p) == IF p \in Big THEN 2 ELSE 1

Fits(entry, left) == Weight(entry.path) <= left
Remaining(out) ==
  LET left[i \in 0..Len(out)] ==
        IF i = 0 THEN Budget
        ELSE IF out[i].what = "content" /\ Fits(out[i], left[i - 1])
             THEN left[i - 1] - Weight(out[i].path) ELSE left[i - 1]
  IN left

Spend(entry, left) ==
  [entry EXCEPT !.what = IF @ # "content" THEN @ ELSE IF ~Fits(entry, left) THEN "overBudget"
                         ELSE IF entry.path \in Big THEN "truncated" ELSE @]

MemoryInjection(w) ==
  /\ walk[w].pc = "level"
  /\ walk[w].levels = <<>>
  /\ LET out == walk[w].out IN
     walk' = [walk EXCEPT ![w].pc = "done",
                ![w].out = [i \in 1..Len(out) |-> Spend(out[i], Remaining(out)[i - 1])]]
  /\ UNCHANGED <<disk, ver, git, cache, edits>>

(* The walker builds another session later: the cache outlives the walk.   *)
Again(w) ==
  /\ walk[w].pc = "done"
  /\ walk' = [walk EXCEPT ![w] = Fresh]
  /\ UNCHANGED <<disk, ver, git, cache, edits>>

Next ==
  \/ \E p \in Touched, st \in State : Edit(p, st)
  \/ \E w \in Walker : \/ Start(w) \/ Probe(w) \/ StatAndLookup(w) \/ ReadPrefix(w)
                       \/ StoreCache(w) \/ MemoryInjection(w) \/ Again(w)

Spec == Init /\ [][Next]_vars

-----------------------------------------------------------------------------
Entries == [path : Path, ver : 0..(MaxEdits + 1),
            what : {"content", "truncated", "shadowed", "unreadable", "overBudget"}]

Versions == 0..(MaxEdits + 1)
Walks == [pc : {"idle", "level", "stat", "read", "store", "done"}, levels : Seq(Levels),
          todo : Path \cup {NoPath}, after : Seq(Entries), key : Versions, content : Versions,
          out : Seq(Entries), began : [Path -> Versions]]

TypeOK ==
  /\ disk \in [Path -> State] /\ ver \in [Path -> 1..(MaxEdits + 1)]
  /\ git \subseteq {"root", "cwd"}
  /\ cache \in [Path -> [key : Versions, content : Versions]]
  /\ walk \in [Walker -> Walks]
  /\ edits \in 0..MaxEdits

(* A session never gets a memory file as it was before its own walk began: *)
(* "content is never served stale within the keyed guarantee" (memory.go). *)
(* A reader that stats, is overtaken by an edit, and stores the new text   *)
(* under the old key, or stores late over a newer entry, is among the      *)
(* interleavings.                                                          *)
NeverStaleMemory ==
  \A w \in Walker : \A i \in 1..Len(walk[w].out) :
    LET e == walk[w].out[i]
    IN e.what \in {"content", "truncated"} => e.ver >= walk[w].began[e.path]

(* The comment of levelMemory: "CLAUDE.md if readable, else AGENTS.md". A  *)
(* CLAUDE.md that stats as a file but cannot be opened still shadows a     *)
(* readable AGENTS.md.                                                     *)
(* Refuted.                                                                *)
ReadableIsRead ==
  \A w \in Walker : walk[w].pc = "done" /\ edits = 0 /\ disk[<<"cwd", "AGENTS">>] = "file"
                      /\ disk[<<"cwd", "CLAUDE">>] # "file"
    => \E i \in 1..Len(walk[w].out) : walk[w].out[i].path = <<"cwd", "AGENTS">>
                                        /\ walk[w].out[i].what # "shadowed"
=============================================================================
