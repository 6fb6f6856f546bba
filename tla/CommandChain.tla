---------------------------- MODULE CommandChain ----------------------------
(***************************************************************************)
(* Slash commands: the resolver chain built over the discovered catalog,    *)
(* the watcher and the invoke-time probe that keep it fresh, the            *)
(* advertisement sent to the client, and the commands answered locally.     *)
(* Sources: src/kit/runtime/commands.go, src/kit/runtime/rescan.go,         *)
(* src/kit/runtime/runtime.go, src/internal/acpserve/catalog_adapter.go.    *)
(***************************************************************************)
EXTENDS Naturals, Sequences, FiniteSets

CONSTANTS
  Name,       \* names a discovered file can carry
  ClassB,     \* reserved names answered by a handler of the agent itself
  ClassA,     \* reserved names expanded from an authored body (/init)
  Model,      \* model slugs the scheduling config declares
  Prompt,     \* prompts of different sessions
  MaxEdits    \* bound: changes of the discovery roots

ReservedAssumption == ClassB \intersect ClassA = {} /\ "watch" \notin Prompt

Reserved == ClassB \union ClassA
Kind == {"skill", "agent", "file"}
Key == Name \union Reserved
Driver == Prompt \union {"watch"}
None == "none"

VARIABLES
  disk,      \* name -> kinds of file now under the discovery roots
  stamp,     \* the modification times of the directories the probe stats
  edits,     \* changes so far
  registry,  \* the adapter's registry: the scan swapped in last
  chain,     \* the live chain: key -> who answers it
  signature, \* the stamp noted for the chain
  advert,    \* the winner set the client received last
  pending,   \* the watcher's debounce timer is armed
  d,         \* driver -> its place in the code and what it holds
  log,       \* prompt -> what its local command wrote, in order
  turnModel, \* the session's own model (Profile.Model), per prompt's session
  shown,     \* the model /status or /cost showed, per prompt
  torn,      \* history: an edit fell behind the walk of a rescan that may be under way
  missed     \* history: a change nobody is bound to look at again

vars == <<disk, stamp, edits, registry, chain, signature, advert, pending, d, log, turnModel, shown,
          torn, missed>>

Empty == [n \in Name |-> {}]
Idle == [pc |-> "idle", key |-> None, scan |-> Empty, ad |-> <<>>, won |-> None, seen |-> {},
         outcome |-> None]

\* buildChain: the builtins claim their names first; a discovered file with a reserved
\* name is refused; then skills, agents and files claim in that order, first writer wins.
Winner(files, k) ==
  IF k \in ClassB THEN "builtin"
  ELSE IF k \in ClassA THEN "authored"
  ELSE IF "skill" \in files[k] THEN "skill"
  ELSE IF "agent" \in files[k] THEN "agent"
  ELSE IF "file" \in files[k] THEN "file" ELSE None
BuildChain(files) == [k \in Key |-> Winner(files, k)]

\* The advertisement is the set of keys the chain answers, with who answers them.
Advertisement(c) == {<<k, c[k]>> : k \in {j \in Key : c[j] # None}}

Init ==
  /\ disk \in [Name -> {{}, {"file"}}]
  /\ stamp = 0 /\ edits = 0
  /\ registry = disk
  /\ chain = BuildChain(disk)
  /\ signature = 0
  /\ advert = Advertisement(chain)
  /\ pending = FALSE
  /\ d = [x \in Driver |-> Idle]
  /\ log = [p \in Prompt |-> <<>>]
  /\ turnModel \in [Prompt -> Model]
  /\ shown = [p \in Prompt |-> None]
  /\ torn = FALSE /\ missed = FALSE

To(x, pc) == d' = [d EXCEPT ![x].pc = pc]
Walked(x) == d[x].pc \in {"swap", "build", "notify", "emit", "note"}
Rescanning(x) == d[x].pc = "scan" \/ Walked(x)

-----------------------------------------------------------------------------
(* The discovery roots change under the agent.  The probe stats the watched  *)
(* directories and walks nothing: an entry added to or removed from one      *)
(* moves a time, a change beneath them (a SKILL.md, a namespace of commands, *)
(* a plugin's tree) or in place moves none.  The watcher may hear of either, *)
(* or of none: a directory that is not armed, an editor's quirk.             *)
Active(x) == x \in Prompt /\ d[x].pc \notin {"idle", "done"}
Edit(n, k, moves, noticed) ==
  LET now == [disk EXCEPT ![n] = IF k \in @ THEN @ \ {k} ELSE @ \union {k}]
      behind == \E x \in Driver : Walked(x)
  IN
  /\ edits < MaxEdits
  /\ disk' = now
  /\ edits' = edits + 1
  /\ stamp' = IF moves THEN stamp + 1 ELSE stamp
  /\ pending' = (pending \/ noticed)
  /\ torn' = (torn \/ behind)
  /\ missed' = (missed \/ (~noticed /\ (~moves \/ behind)))
  /\ d' = [x \in Driver |->
             IF Active(x) THEN [d[x] EXCEPT !.seen = @ \union {Winner(now, d[x].key)}] ELSE d[x]]
  /\ UNCHANGED <<registry, chain, signature, advert, log, turnModel, shown>>

-----------------------------------------------------------------------------
(* rescanAndSwap, run by the watcher's loop and by any prompt, unserialized. *)

Quiet == UNCHANGED <<disk, stamp, edits, log, turnModel, shown>>

\* A rescan that starts beside one that an edit fell behind may be undone by it.
Begin(x, rec) ==
  /\ d' = [d EXCEPT ![x] = rec]
  /\ torn' = (torn /\ \E y \in Driver \ {x} : Rescanning(y))
  /\ missed' = (missed \/ torn')

\* The debounce timer fires: one rescan for the burst.
WatchFires ==
  /\ d["watch"].pc = "idle" /\ pending
  /\ pending' = FALSE
  /\ Begin("watch", [Idle EXCEPT !.pc = "scan"])
  /\ UNCHANGED <<registry, chain, signature, advert>> /\ Quiet

\* Discover walks the roots; on an error the current chain is kept, and the event that
\* made the watcher look is used up.
Rediscover(x) ==
  /\ d[x].pc = "scan"
  /\ \/ d' = [d EXCEPT ![x].scan = disk, ![x].pc = "swap"] /\ UNCHANGED missed
     \/ x = "watch" /\ To(x, "idle") /\ missed' = TRUE
     \/ x # "watch" /\ d' = [d EXCEPT ![x].pc = "resolve", ![x].outcome = "failed"] /\ UNCHANGED missed
  /\ UNCHANGED <<registry, chain, signature, advert, pending, torn>> /\ Quiet

Swap(x) ==
  /\ d[x].pc = "swap"
  /\ registry' = d[x].scan
  /\ To(x, "build")
  /\ UNCHANGED <<chain, signature, advert, pending, torn, missed>> /\ Quiet

RebuildChain(x) ==
  /\ d[x].pc = "build"
  /\ chain' = BuildChain(registry)
  /\ To(x, "notify")
  /\ UNCHANGED <<registry, signature, advert, pending, torn, missed>> /\ Quiet

\* The notify seam reads the live chain, then enqueues the frame.
Notify(x) ==
  /\ d[x].pc = "notify"
  /\ d' = [d EXCEPT ![x].ad = Advertisement(chain), ![x].pc = "emit"]
  /\ UNCHANGED <<registry, chain, signature, advert, pending, torn, missed>> /\ Quiet

Emit(x) ==
  /\ d[x].pc = "emit"
  /\ advert' = d[x].ad
  /\ To(x, "note")
  /\ UNCHANGED <<registry, chain, signature, pending, torn, missed>> /\ Quiet

\* Last, the signature of the roots as they are now is noted for the chain. A rescan
\* that no edit fell behind makes up for what was missed.
NoteChainSignature(x) ==
  /\ d[x].pc = "note"
  /\ signature' = stamp
  /\ missed' = (missed /\ torn)
  /\ To(x, IF x = "watch" THEN "idle" ELSE "resolve")
  /\ UNCHANGED <<registry, chain, advert, pending, torn>> /\ Quiet

-----------------------------------------------------------------------------
(* A prompt that parses as an invocation.  tryLocalCommand looks at the     *)
(* chain as it stands; only the expansion path probes for freshness.        *)

Invoke(p, k) ==
  /\ d[p].pc = "idle"
  /\ d' = [d EXCEPT ![p] = [Idle EXCEPT !.pc = "local", !.key = k, !.seen = {Winner(disk, k)}]]
  /\ UNCHANGED <<registry, chain, signature, advert, pending, torn, missed>> /\ Quiet

\* A builtin is echoed and answered here, an agent is dispatched here, and so is a
\* skill with an empty body; any other invocation falls through to the expansion.
TryLocalCommand(p) ==
  LET won == chain[d[p].key] IN
  /\ d[p].pc = "local"
  /\ \/ /\ won \in {"builtin", "agent", "skill"}
        /\ log' = [log EXCEPT ![p] = Append(@, "echo")]
        /\ d' = [d EXCEPT ![p].pc = "handler", ![p].won = won]
     \/ /\ won \in {"authored", "skill", "file", None}
        /\ To(p, "probe")
        /\ UNCHANGED log
  /\ UNCHANGED <<disk, stamp, edits, registry, chain, signature, advert, pending, turnModel, shown, torn, missed>>

\* The model /status and /cost show: the editor's stamp or the tier's default wins
\* over the session's own model.
StatusModel(p, default) == IF default # None THEN default ELSE turnModel[p]

\* The handlers of the builtins. Each returns its output and an outcome; beyond that a
\* handler changes the session's model, appends a line to the transcript, or does nothing.
Answers(p, o) == d' = [d EXCEPT ![p].outcome = o, ![p].pc = "output"]
Shows(p, default) == shown' = [shown EXCEPT ![p] = StatusModel(p, default)]

BuiltinStatus(p, default) ==
  Shows(p, default) /\ Answers(p, "ok") /\ UNCHANGED <<log, turnModel>>

\* Without an argument the session's own model is shown; a slug the scheduling config
\* declares is stamped on the session; any other is refused.
BuiltinModel(p) ==
  /\ \/ /\ shown' = [shown EXCEPT ![p] = turnModel[p]]
        /\ Answers(p, "ok") /\ UNCHANGED turnModel
     \/ /\ \E m \in Model : turnModel' = [turnModel EXCEPT ![p] = m]
        /\ Answers(p, "ok") /\ UNCHANGED shown
     \/ Answers(p, "failed") /\ UNCHANGED <<turnModel, shown>>
  /\ UNCHANGED log

\* /clear appends the boundary of the context; /compact runs a compaction in place.
BuiltinClear(p) ==
  /\ \/ log' = [log EXCEPT ![p] = Append(@, "boundary")] /\ Answers(p, "ok")
     \/ Answers(p, "failed") /\ UNCHANGED log
  /\ UNCHANGED <<turnModel, shown>>
BuiltinCompact(p) ==
  /\ \/ log' = [log EXCEPT ![p] = Append(@, "compaction")] /\ Answers(p, "ok")
     \/ Answers(p, "failed") /\ UNCHANGED log
  /\ UNCHANGED <<turnModel, shown>>

\* The usage endpoint answers within its budget, or the transcript's own count is
\* priced at the rates of the model shown.
BuiltinCost(p, default) ==
  /\ Shows(p, default) \/ UNCHANGED shown
  /\ Answers(p, "ok") /\ UNCHANGED <<log, turnModel>>

\* The rest report live state (/help the chain, /mcp, /memory, /permissions, /config and
\* /doctor what is configured, /resume the listing) or are modelled elsewhere (/undo).
BuiltinReports(p) ==
  \E o \in {"ok", "failed"} : Answers(p, o) /\ UNCHANGED <<log, turnModel, shown>>

Handler(p, default) ==
  CASE d[p].key = "status"  -> BuiltinStatus(p, default)
    [] d[p].key = "model"   -> BuiltinModel(p)
    [] d[p].key = "clear"   -> BuiltinClear(p)
    [] d[p].key = "compact" -> BuiltinCompact(p)
    [] d[p].key = "cost"    -> BuiltinCost(p, default)
    [] OTHER                -> BuiltinReports(p)

\* A panic of a handler is recovered into a failed outcome, so the invocation is
\* recorded all the same.
RunBuiltinHandler(p) ==
  /\ d[p].pc = "handler" /\ d[p].won = "builtin"
  /\ \/ \E default \in Model \union {None} : Handler(p, default)
     \/ Answers(p, "failed") /\ UNCHANGED <<log, turnModel, shown>>
  /\ UNCHANGED <<disk, stamp, edits, registry, chain, signature, advert, pending, torn, missed>>

\* An agent is dispatched and answers or fails; an empty skill is refused.
DispatchAgentSlash(p) ==
  /\ d[p].pc = "handler" /\ d[p].won \in {"agent", "skill"}
  /\ \E o \in IF d[p].won = "agent" THEN {"ok", "failed"} ELSE {"failed"} : Answers(p, o)
  /\ UNCHANGED <<disk, stamp, edits, registry, chain, signature, advert, pending, log, turnModel, shown, torn, missed>>

\* The output is sent, then the record appended; a record that cannot be written is a
\* note on stderr.
LocalOutput(p, ok) ==
  /\ d[p].pc = "output"
  /\ log' = [log EXCEPT ![p] = @ \o <<"output", IF ok THEN "record" ELSE "unrecorded">>]
  /\ To(p, "done")
  /\ UNCHANGED <<disk, stamp, edits, registry, chain, signature, advert, pending, turnModel, shown, torn, missed>>

\* maybeFreshRescan: roots that still match the noted signature need no rescan.
\* Mutant: the probe trusts the watcher and never rescans.
DiscoveryFreshAlways == TRUE

DiscoveryFresh == signature = stamp

MaybeFreshRescan(p) ==
  /\ d[p].pc = "probe"
  /\ IF DiscoveryFresh
     THEN To(p, "resolve") /\ UNCHANGED <<torn, missed>>
     ELSE Begin(p, [d[p] EXCEPT !.pc = "scan"])
  /\ UNCHANGED <<registry, chain, signature, advert, pending>> /\ Quiet

\* resolveSlashCommand: the chain says who answers, the registry supplies the body; a
\* winner the registry does not hold, a builtin or an agent is plain text.
LookupCommand(files, k, won) == k \in Name /\ won \in files[k]
Answer(p) ==
  LET k == d[p].key
      won == chain[k]
  IN IF won = "authored" \/ (won \in {"skill", "file"} /\ LookupCommand(registry, k, won))
     THEN won ELSE None
ResolveSlashCommand(p) ==
  /\ d[p].pc = "resolve"
  /\ d' = [d EXCEPT ![p].pc = "done", ![p].won = Answer(p)]
  /\ UNCHANGED <<registry, chain, signature, advert, pending, torn, missed>> /\ Quiet

RescanStep(x) == Rediscover(x) \/ Swap(x) \/ RebuildChain(x) \/ Notify(x) \/ Emit(x) \/ NoteChainSignature(x)
PromptStep(p) ==
  \/ TryLocalCommand(p) \/ RunBuiltinHandler(p) \/ DispatchAgentSlash(p)
  \/ \E ok \in BOOLEAN : LocalOutput(p, ok)
  \/ MaybeFreshRescan(p) \/ ResolveSlashCommand(p)

Next ==
  \/ \E n \in Name, k \in Kind, moves, noticed \in BOOLEAN : Edit(n, k, moves, noticed)
  \/ WatchFires
  \/ \E x \in Driver : RescanStep(x)
  \/ \E p \in Prompt : PromptStep(p) \/ \E k \in Key : Invoke(p, k)

Spec == Init /\ [][Next]_vars

-----------------------------------------------------------------------------
(* Properties.                                                              *)

TypeOK ==
  /\ disk \in [Name -> SUBSET Kind] /\ registry \in [Name -> SUBSET Kind]
  /\ edits \in 0..MaxEdits /\ stamp \in 0..edits /\ signature \in 0..stamp
  /\ DOMAIN chain = Key /\ pending \in BOOLEAN
  /\ torn \in BOOLEAN /\ missed \in BOOLEAN
  /\ \A x \in Driver : d[x].pc \in {"idle", "scan", "swap", "build", "notify", "emit", "note", "local",
                                    "handler", "output", "probe", "resolve", "done"}
  /\ turnModel \in [Prompt -> Model] /\ shown \in [Prompt -> Model \union {None}]

(* The prompt would be answered by a file the roots held during its run.        *)
Expandable(w) == IF w \in {"skill", "file", "authored"} THEN w ELSE None
Current(p) == Answer(p) \in {Expandable(w) : w \in d[p].seen}

(* A refresh is on its way: the watcher has an event, or a rescan has walked.   *)
Refreshing == pending \/ Rescanning("watch") \/ \E p \in Prompt : Walked(p)

(* An expansion whose own rescan did not fail resolves against a current        *)
(* catalog, or one that a refresh on its way makes current, except where the    *)
(* code lets a change go by: it raised no event and moved no time the probe     *)
(* stats or fell behind the walk of a rescan, it was undone by an older rescan  *)
(* that overlapped, or the watcher's walk for it failed; and the exception      *)
(* lasts only until the next rescan that no edit falls behind. rescan.go        *)
(* loop, rescanAndSwap, maybeFreshRescan, noteChainSignature.                   *)
FreshUnlessMissed ==
  \A p \in Prompt :
    (d[p].pc = "resolve" /\ d[p].outcome # "failed" /\ ~Refreshing /\ ~missed) => Current(p)

(* What a builtin that succeeded left in the transcript besides its record.     *)
OwnLine(p) ==
  IF d[p].won = "builtin" /\ d[p].outcome = "ok"
  THEN CASE d[p].key = "clear"   -> <<"boundary">>
         [] d[p].key = "compact" -> <<"compaction">>
         [] OTHER                -> <<>>
  ELSE <<>>

(* Every command answered locally leaves its echo, its output and one durable   *)
(* record (or the note that it could not be written), in this order, by the    *)
(* time its prompt returns, whatever its handler does; and its outcome is the  *)
(* truth about the transcript: a context reported cleared or compacted has its *)
(* line, one reported failed has none. runtime.go tryLocalCommand,             *)
(* runBuiltinHandler, commands.go builtinClear, builtinCompact.                *)
LocalCommandRecorded ==
  \A p \in Prompt : (d[p].pc = "done" /\ log[p] # <<>>)
    => \E last \in {"record", "unrecorded"} :
         log[p] = <<"echo">> \o OwnLine(p) \o <<"output", last>>

(* What rescan.go:16-21 says: the invoke-time backstop guarantees that          *)
(* resolution never runs against a stale chain when the watch misses; 223-226:  *)
(* it covers the contents of a directory that could not be armed.               *)
(* Refuted: an edit beneath the directories the probe stats moves no time of    *)
(* theirs, and one inside a rescan is noted as seen by the signature after it.  *)
NeverStale ==
  \A p \in Prompt : (d[p].pc = "resolve" /\ d[p].outcome # "failed") => Current(p)

(* What commands.go:498-500 says: listeners re-advertise from the chain that is *)
(* already live, so at rest the client sees the live winner set.               *)
(* Refuted: of two overlapping rescans the older one may advertise last.       *)
AdvertisedIsLive ==
  (\A x \in Driver : ~Rescanning(x)) => advert = Advertisement(chain)

(* What commands.go:387-389 says: /status resolves the session's effective      *)
(* model.  The session's own stamp (/model) is what its next request uses.      *)
(* Refuted: /status shows the tier's default after /model stamped another.      *)
StatusIsEffective == [][\A p \in Prompt : shown'[p] # shown[p] => shown'[p] = turnModel[p]]_vars
=============================================================================
