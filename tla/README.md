# TLA+ verification of ass-guard-agent

ass-guard is a coding agent that serves one editor over the Agent Client
Protocol (ACP, JSON-RPC over stdio). An editor opens sessions and prompts
them; a session runs turns: a loop of model requests and tool calls over an
append-only transcript. Turns are started by the editor, by scheduled
automations, by an engine that chains them and by completions of background
work. They stop for the operator (permission dialogs, questions) and are
resumed by him, by timers or by cancellation. This directory models the parts
where those actors meet, and what they leave on disk when the process dies.
The modules follow the Go code under `src/`; `PROJECT.json` maps each
definition to the lines it stands for.

## 1. Inventory

| component (source) | state | operations | hard because | modules |
|---|---|---|---|---|
| ask queue (`kit/session/askqueue.go`) | entries with class and sequence number, outstanding entry, pump flag | `Enqueue`, pump, `DrainTurn`, `DrainAll` | pump exit races enqueue; drains race the pump's resolve | `OneDialog`, `AskQueue`, `AskQueueProofs` |
| turn emitter (`internal/acp/emitter.go`) | two bounded lanes, counters, wake channel | `Notify`, drain, `Barrier`, `Stop` | blocking producers, one pair of counters for two lanes, shutdown | `TurnEmitter`, `TurnEmitterProofs` |
| request registry (`internal/acp/request_registry.go`) | pending requests, closed flag | `Call`, `Deliver`, `ResolveCancelled`, `Stop` | retry, late answers, cancellation, teardown | `RequestRegistry`, `RuntimeProofs` |
| ACP server (`internal/acp/handlers.go`, `server.go`, `replay.go`) | sessions map, loading markers, tombstones, cancel slot, post-response slots | new, prompt, cancel, load, close, delete, logout, replay | every handler is a goroutine; check and use are separated by unlocks; transcripts cut off by a crash | `AcpSession`, `AcpWire`, `AcpSessionProofs` |
| ask dialogs (`internal/acpserve/ask_surface.go`) | capability, open form, attempts | negotiate, fire, validate, re-ask, fall back | fallbacks at every step, answers of two families | `AskDialogs`, `TurnEmitterProofs` |
| runner's sessions (`kit/runtime/runtime.go`) | cache, trackers, hosts, forwarders | build, resume, close, shut down | closers race each other and rebuilds | `RunnerSessions`, `AcpSessionProofs` |
| turn slot (`runtime.go`, `cron_wiring.go`, `steerqueue.go`) | turn mutex, active and origin flags, steering queue, wake chain | `Run`, `routeSteering`, automation and wake turns | three kinds of turn on one mutex; flags read outside it | `TurnSlot`, `RuntimeProofs` |
| prompt ingress (`runtime.go`, `imgscale.go`, `catalog.go`, `shaper.go`) | blocks, image files, rules, files | drop and ingest images, answer a question, expand, resolve mentions, shape | files, rules and chain change between the steps | `PromptIngress`, `PromptProofs` |
| turn loop (`kit/session/session.go`, `ask.go`, `gate.go`) | calls, pending ask, timer, settle channels | `Prompt`, `runTurn`, suspensions and resumes | reply, timer, dialogs and later turns compete for one slot | `SessionTurn`, `SessionTurnProofs` |
| provider streams (`kit/provider/streaming.go`) | chunk channel, accumulated calls, idle clock | drain, watchdog, four consumers | silence, cancellation, bodies that end inside a block | `ProviderStream`, `RuntimeProofs` |
| transcript (`manager.go`, `projector.go`, `reconcile.go`, `compaction.go`, `list.go`, `tombstone.go`) | file, window, markers, pages | append, project, compact, resume, list, delete, sweep | crash inside a line, cuts of the window, clocks | `Projector`, `SessionLog`, `SessionStore`, `RuntimeProofs`, `PromptProofs` |
| permission gate (`gate.go`, `planmode.go`, `internal/perm`) | rules in memory and on disk, mode, plan mode | evaluate, ask, persist, reload | verdicts read at different moments, failing saves | `PermissionGate`, `PromptProofs` |
| background subagents (`internal/tasks`) | slot counter, waiters, cancel funcs, notifications | register, complete, cancel, reap | start outside the lock, release and re-admission in two steps | `TaskTracker`, `BackgroundProofs` |
| background commands (`internal/coreexec/background.go`) | per-task state, FIFO | start, launch, wait, stop, reap | every exit drains the FIFO, Stop races the launch | `BashTasks`, `BackgroundProofs` |
| persistent shell (`internal/coreexec/ptty.go`) | shell generation, chunk channel, sentinel | run, restart, drain | hangs, dead shells, sentinel look-alikes | `PtyShell`, `BackgroundProofs` |
| event bus (`kit/event/bus.go`, forwarders, transcript writer) | subscriber lists, bounded channels | subscribe, publish, forward | blocking publishers, leftovers at the end of a turn | `EventBus`, `RuntimeProofs` |
| checkpoints (`kit/checkpoint/store.go`) | refs, tree, lock file | init, snapshot, prune, undo | crash inside init, one-second clocks, stale locks | `Checkpoint`, `StoreLock`, `RuntimeProofs` |
| scheduler (`internal/sched`, `coreexec/cron.go`, `cron_wiring.go`) | automations in memory and on disk, clock | create, update, delete, tick, claim, catch up | claims against updates, failing saves and crashes | `Scheduler`, `AutonomyProofs` |
| engine (`kit/engine`, `enginebridge`, `kit/hookdag`) | chain, parked chain, hook DAG | observe, decide, inject, park, cancel | waits on suspensions; turns by hooks | `EngineChain`, `AutonomyProofs` |
| hooks and plugins (`internal/ecosys`) | registries of two roots, hook lists, processes | discover, merge, reload, fire | shadowing, timeouts with children | `Ecosystem`, `HookRunner`, `SessionTurnProofs` |
| project memory (`internal/ecosys/memory.go`) | read cache, budget | walk, cache, cap | edits between stat and read | `ProjectMemory`, `SessionTurnProofs` |
| commands (`kit/runtime/commands.go`, `rescan.go`) | chain, signature, advertisement | discover, rescan, resolve, answer locally | rescans overlap edits and each other | `CommandChain`, `RuntimeProofs` |
| config surface (`internal/acpserve/config_surface.go`) | two layers, fills, live values | set, apply, advertise, restart | persists under a lock, applies after it | `ConfigSurface`, `RuntimeProofs` |
| model routing (`kit/modelrouting`) | breakers, cost window, semaphore, outcomes | resolve, dispatch, record, replay | checks before the wait, records after the call | `ModelRouting`, `SessionTurnProofs` |

Interactions: the ACP server calls the runner (prompts, loads, closes) and
writes through emitter and registry; the runner owns the session cache, the
turn slot, the bus and the engine; a session asks through gate, queue and
dialogs, streams from a provider that routing chose, writes its transcript, and
starts background work whose completions come back as wake turns. The modules
meet at those calls: what one treats as an environment step is the operation
of another. `SessionTurn` opens dialogs that `AskQueue` orders and
`AskDialogs` shows; `TurnSlot` decides who runs the turns of `SessionTurn`,
`EngineChain` and `Scheduler`; `SessionLog` says what they leave on disk, and
`AcpWire` and `RunnerSessions` what a new process makes of it; `Checkpoint`
assumes the lock that `StoreLock` models; `SessionLog` extends `Projector`.

## 2. Modules

`OneDialog` is the abstract specification of the ask service: asks wait, at
most one is open, each is resolved once with an answer or a cancellation, and
an open one was the oldest of the best class among the waiting. `AskQueue` has
a process per pump goroutine and per drain; the steps are the stretches
between mutex releases. `ImplementsOneDialog` is its refinement of `OneDialog`.

The other modules are written the same way: a process per goroutine, a step
per critical section, file operation or channel operation, and one action for
everything a handler does in between. In detail:

* `TurnEmitter`: two bounded lanes, producers that bump the counter and then
  block or abort, a drain that prefers the foreground lane, `Barrier` with the
  broadcast channel it read under the lock, `Stop`, which cancels and joins.
* `RequestRegistry`: `Call` registers, checks, writes, waits and retries;
  `Deliver`, `ResolveCancelled` and `Stop` look up and resolve separately. A
  window may expire at any time.
* `AcpSession`: one id through its incarnations; prompts, cancels, loads,
  closes, deletes and a logout are processes.
* `AcpWire`: a live turn writes a transcript, the process dies, a new one
  serves requests, each with its post-response slot, its panic path and, for a
  load, the replay line by line.
* `AskDialogs`: negotiation with its probe, a form of typed fields, validation,
  the one re-ask, the fallback to text, engine asks.
* `RunnerSessions`: incarnations with host, writer, forwarder and tracker;
  closers that evict, reap and prune; shutdown by end of input or by context.
* `TurnSlot`: clients, automations and wake chains on the turn mutex; steering
  classified and enqueued in two steps.
* `PromptIngress`: the stages of `Run` before the turn, one image, mention or
  write at a time, under edits of files, rules and commands.
* `SessionTurn`: a response issues a batch of calls that get results or
  suspend; permission answers, replies, dialogs and the timer resume the loop.
* `ProviderStream`: the drain of one response, its watchdog, its terminal
  chunks and the consumer at the other end of a bounded channel.
* `Projector`: the window as a function of the transcript (boundaries, folds,
  mid-turn bound, compaction tail). `SessionLog`: what a session writes, one
  line at a time with a crash between or inside lines, and what a load appends.
  `SessionStore`: listing by pages, tombstones, sweep and restore over days.
* `PermissionGate`: a batch of calls through hooks, rules, mode and plan mode;
  dialogs, persisting, hand edits, reload, crash.
* `TaskTracker`: the launch side of a subagent apart from its goroutine.
  `BashTasks`: a launcher and a Wait goroutine per command. `PtyShell`: calls,
  one shell generation after another, reader and reaper; a reader that ends while
  its shell lives, a command that takes its own sentinel off the terminal (a nested
  shell that runs the echo in the command's place counts as the command's end).
* `EventBus`: publishers over a snapshot of the subscribers, the per-Run and
  the per-session forwarder, the transcript writer.
* `Checkpoint`: refs with second-granular times, prune, undo's plan, snapshot
  and restore as steps, crash. `StoreLock`: lock file, polling, stealing,
  giving up.
* `Scheduler`: cron fields over a small calendar, claims, the two loops that
  fire, updates that read and save in two steps, failing saves, crash.
* `EngineChain`: observe, decide, inject, park and settle, also of a resumed turn
  that asks again; a hook DAG; another client's prompts.
* `Ecosystem`: roots, plugins listed by a registry file of either version or a
  malformed one, shapes of files, merging, reloads; `HookRunner`: one firing
  with timeouts; `ProjectMemory`: walkers over a shared cache.
* `CommandChain`: watcher, probe, resolver and advertisement, and the handlers
  of the commands answered locally: what each echoes, does and records. An edit
  moves a time the probe stats or none (`watchSetSignature` walks nothing), and
  raises an event or none. A runner that never noted a signature never rescans at
  invoke time; `serve` always notes one, so this is left out.
  `ConfigSurface`: sets, layers, live apply; `ModelRouting`: tiers, breakers,
  cost and replay.

The theorems are in the eight `...Proofs` modules, by subject: a component that
is proved about has its theorems in the module section 1 names. Such a module
extends one component and instantiates the others under the names the runs use
(`Slot`, `Bus`, `Registry`, ...).

The `MC` modules say which instances a run checks. An MC module of several
components extends the one whose definitions keep their names and instantiates
the others; what belongs to the composition is named `MCInit`, `MCNext` and
`MCSpec`. Where the properties of a run have theorems, the MC module also
assumes the theorems' hypotheses of its instance, so that TLC evaluates them.

## 3. Runs

`ask_queue` and the four violation runs check one component each. The other
seven put several components into one MC module. The components of such a run
share no state, so an interleaving of two of them says nothing that their own
behaviours do not: the variable `focus` picks at the start the component whose
steps a behaviour takes, and the run explores the sum, not the product, of the
state spaces. Fairness is stated per component, for the one in focus. The named
properties are the components' own; the `...Safe` invariant of a run is the
conjunction of the rest, with the components' type invariants.

| run | components and instance | shows |
|---|---|---|
| `ask_queue` | `AskQueue`: 3 asks of 2 turns (2 classes), 2 pumps, a drain | no stranded, twice resolved or zombie ask, the refinement, every ask resolved |
| `client` | `TurnEmitter`: 3 frames, 2 producers, lanes of one place, a Barrier, a Stop. `RequestRegistry`: a request with its retry, 2 cancellers, Stop. `AcpWire`: 2 requests after a restart. `AskDialogs`: a question of two fields beside an engine's ask, or two questions | `BarrierFlushes`, `EmitterSettles`, `RequestsSettle`, `EngineAskLands`; `ClientSafe`: foreground slips by one at most, one cancellation per request, no answer after withdrawal, response before updates, two asks at most, answers survive, a fallen question is visible |
| `sessions` | `AcpSession`: 2 prompts, 2 loads, a close or delete, a cancel, a logout. `SessionLog`: 2 turns, 3 calls, a subagent's, 7 lines, 2 crashes (5 lines after the second). `SessionStore`: 3 sessions, pages of one, 2 days. `RunnerSessions`: 2 closers, 2 builds. `AcpWire`: 3 lines | `DeletedStaysDeleted`, `CancelReachesTurn`, `PairedWindow`, `TurnIdsFresh`, `LoadedMeansComplete`; `SessionsSafe`: loads exclusive, prompts wait for the replay, the intent is the turn's, a load closes all, listed once, deleted stays hidden, never half reaped |
| `turns` | `TurnSlot`: 2 clients, an automation, 2 wake chains, 2 notes. `SessionTurn`: 2 turns, 3 calls. `ProviderStream`: 2 consumers, 2 events, a channel of one place | `ResultOnce`, `EveryNoteDelivered`, `EverySuspensionSettles`, `StreamEnds`; `TurnsSafe`: one turn, one wake chain, steering stays in its turn, no forgotten call, an abort is loud, no call held twice |
| `background` | `BashTasks`: 3 commands, 1 slot, 2 queue places. `TaskTracker`: 3 subagents, 1 slot, 1 queue place. `EventBus`: 2 turns of a client. `Checkpoint`: 2 sessions, an undo, a crash. `PermissionGate`: 2 batches of 2 calls, 2 hook scopes, 2 edits. `PromptIngress`: 9 prompts, an edit | `NoSilentRun`, `TurnFlushed`, `UndoOfUndo`; `BackgroundSafe`: caps and slots exact, no stranded waiter, a withdrawn command never runs, one notification per task, an acknowledged "always" is kept, images deliverable, no empty body, nothing denied in a prompt, a section per mention |
| `tools` | `PtyShell`: 2 calls, 2 shells. `TaskTracker`. `HookRunner`: 2 hooks that may hang or leave a child. `StoreLock`: 3 processes, a crash. `RunnerSessions` | `EveryCallReturns`, `HookBounded`, `DeadLockFileGoes`, `CloseEndsWired`, `EvictedIsReaped`; `ToolsSafe`: reported means ran, a lock is exclusive until stolen |
| `autonomy` | `Scheduler`: one automation, 4 minutes, three patches, 2 failing saves, a crash. `EngineChain`: 4 turns, an injection, a resume that may ask again, hooks | `FiresOnce`, `EveryDueClaimed`, `CancelEndsChain`; `AutonomySafe`: injected turns queue |
| `config` | `ConfigSurface`: 2 concurrent requests, 2 sets, an edit. `ModelRouting`: 2 dispatches, a slot, a breaker of 2 failures, bindings whose primary lacks a capability. `CommandChain`: 6 builtins, a prompt, 2 edits. `Ecosystem`: 2 roots, 2 plugins, 3 edits. `ProjectMemory`: 2 walkers, an edit | `ModelReachesSessions`, `FreshUnlessMissed`, `PrecedenceHonoured`; `ConfigSafe`: compaction settings live, caps shown are used, local commands recorded, valid configs resolve, no candidate forgotten, no wrong wire, breakers reflect outcomes, repository hooks first, memory never stale |
| `registry_close`, `turn_slot_origin`, `session_turn_answer`, `event_bus_publish` | the component alone | *violations*, below |

Bounds. The sets are as small as the hazard allows, never smaller: an exit
race needs two pumps, class order three asks, an over-full queue one waiter
more than its places, a stale answer two questions, a cut between a call and
its result three calls in a window of two messages, a lost update one edit
between a read and a save. Caps, lane capacities, breaker thresholds, cron
fields and image limits are one to three where the code has larger ones; the
code compares with them and does nothing else. Every asynchronous call appears
a bounded number of times, so deadlock checking is off: all of them may have
happened.

Two of the bounds of `sessions` are conjuncts of its next-state relation. The
ids of tool calls are names the provider makes up, and nothing but equality is
asked of them, so the run mints them in one order (`MintedInOrder`); the other
orders are the same behaviours under other names. After the second crash a
transcript has five lines at most (`ShorterAfterBoth`): enough for a load that
appends nothing because the first one finished, a prompt glued to its last
line, and the request that follows; a single crash has all seven. Prompts and
loads are symmetric (`Symmetry`), which is sound there: the run checks
invariants and action properties, no liveness.

Fairness. Goroutines that the scheduler may run do run (weak fairness of their
steps; a Go mutex is starvation free and contenders are finite). Timers and
watchdogs that were armed fire. A dialog ends because `Call` has a bounded
window; `EverySuspensionSettles` assumes a configured ask timeout, without
which a question nobody answers stays pending, as documented. The surface step
of a dialog is strongly fair: probes and other dialogs disable it only for a
bounded time each. No fairness is assumed of operators, editors, models or
commands; a subagent's run ends when its ctx is cancelled, `BarrierReturns`
needs a writer that makes progress, and `HookBounded` children that let the
pipe go in the end.

### What the violations show

* `registry_close`: `send` tests `closed` and writes after releasing the
  mutex, so teardown can close the Writer in between.
* `turn_slot_origin`: the origin flag is set before the mutex is taken and
  reset after it was released. Wake turns bracket it inside.
* `session_turn_answer`: a dialog's answer claims whatever is pending. The
  dialog of a question that was answered by a reply or a timeout is not closed,
  so its answer may arrive while another question is pending.
* `event_bus_publish`: a transcript writer that returned on its context leaves
  its channels subscribed; the next full one blocks every publisher for good.

### Statements of the code that its model refutes

Besides those four, the modules state promises of comments that the code
keeps only in part. Each is a definition of the module, none is among the
properties of a run; put it into the cfg of the component's instance and TLC
shows the trace. What does hold is what the runs check.

| definition | the statement | why not |
|---|---|---|
| `SessionLog!WindowPaired` | projector.go 835-839: the bounds drop complete groups | a question answered after another turn had spoken has its result folded away from its call |
| `PermissionGate!PlanModeReadOnly` | no mutating call runs in plan mode | a call held for permission in the batch that turns plan mode on runs when it is allowed |
| `AcpWire!RestoredShowsOnce` | replay.go: restored looks like live | a message is shown as its chunks and as its assembled line |
| `AskDialogs!NoDeadEndQuestion` | askqueue.go 113-118: no dead-end question | an engine's ask falls back to published text like a question |
| `AskDialogs!NoFlapping` | server.go 419-423: a negotiated capability stays | the probe of one initialize ends after another settled it |
| `RunnerSessions!NoHostOutlivesProcess` | runtime.go 3270-3275: every live session is closed | nothing closes them when Serve ends with its input |
| `RunnerSessions!RebuiltIsFull` | runtime.go 3266-3269: a rebuilt session is full | a close that prunes late takes its tracker |
| `EventBus!OwnEventsOnly` | a client sees its own session's events | the forwarder of a Run subscribes by kind and does not filter |
| `BashTasks!RunningHasProcess` | a stopped waiter is skipped | `startNextWaiter` stores running (background.go 424) before it looks |
| `ProviderStream!FinishReasonKept` | streaming.go 330-333 | the terminal chunk is dropped when the channel is full |
| `ProviderStream!PartialNeverComplete` | subagent.go 292-293 | a cancelled stream closes without an error chunk |
| `ProviderStream!SlowConsumerIsFine` | streaming.go 167-169 | the idle clock runs while the drain waits for the consumer |
| `PtyShell!RestartNeverSilent`, `NoShellAfterDrain` | ptty.go 33, 571-573 | a shell may die between two looks; a call behind Drain starts a new one |
| `HookRunner!HookBounded` with kind "daemon" | a hook ends with its timeout | `cmd.Run` (hooks.go 499) waits for the pipe of a child that stays |
| `StoreLock!OneHolder` | store.go: O_EXCL is mutual exclusion | two processes see one stale file, the second removes the first one's new lock |
| `Checkpoint!PruneKeepsTheNewest` | store.go: the oldest refs are pruned | among refs of one second the order is by session |
| `Checkpoint!OpenedStoreIsUsable` | a store that opens has a root commit | a crash inside Init |
| `Scheduler!ClaimIsExactlyOnce` | sched.go: nothing is due after a claim | CronUpdate saves a copy it read before the claim |
| `EngineChain!OneTurnAtATime`, `StopsOnError` | turns of a session are serialized; errors stop a chain | a hook's prompt takes no mutex; after a failed turn an older output is read |
| `ModelRouting!StampedOnACopy`, `ReplayMatchesLive` | dispatch.go; outcomes_agg.go | the copy is of a pointer; a replay makes no Allow calls |
| `ConfigSurface!ModelSettles` | runtime.go 3332-3338: every live session is re-stamped with the new model | of two Sets in progress the one stored first may stamp last |
| `ConfigSurface!AdvertisedMode`, `ModeSurvivesRestart` | config_surface.go 1066-1071, 286-288 | frames are computed before the apply; a hidden layer's mode is applied |
| `CommandChain!NeverStale` | rescan.go 16-21, 223-226: the probe covers what the watch misses | `watchSetSignature` (319-339) stats the watched directories only: a change of `skills/<n>/SKILL.md`, under `commands/<ns>/`, in a plugin's tree or in place moves no time it reads, and an edit inside a rescan is noted as seen; `FreshUnlessMissed` says what holds |
| `CommandChain!AdvertisedIsLive`, `StatusIsEffective` | commands.go 498-500, 387-389 | overlapping rescans advertise out of order; /status shows the tier's default |
| `Ecosystem!ShadowsWarned` | every overwrite warns | plugins of one root overwrite each other through `maps.Copy` |
| `ProjectMemory!ReadableIsRead` | CLAUDE.md if readable, else AGENTS.md | one that stats but cannot be opened still shadows |
| `PromptIngress!ReplyIsTheOperators` | runtime.go 3884-3886: a prompt without text is no answer | the placeholder of a dropped image is text and answers the question |
| `PromptIngress!StartedByIsExpanded` | runtime.go 841-842: the same resolution | a rescan between the two |
| `PromptIngress!NoReexpansion`, `NoEmptyExpansion` | catalog.go: substituted literals do not re-expand; commands.go 1358-1360 | later passes rewrite an argument that looks like a positional; a body of one placeholder without arguments is empty |

### Other behaviours the models exhibit

They are in the state spaces, with no property claiming their absence: a
Barrier may return one foreground frame early when background frames are
written meanwhile; an answer is lost when its caller's ctx ends at the same
moment; a steering prompt takes over the cancel slot of the running turn; an
input classified before the end of a turn and enqueued after it reaches the
next one; a prompt may register between a close's drain and its removal from
the map, and a close may remove an incarnation it did not look up; a load that
is refused after `ResumeSession` leaves a runtime session behind; a
registration between release and re-admission exceeds the subagent cap; a Stop
between `running` and `cmd.Start` is lost; a question suspended beside a
permission ask never gets a result; a crash glues the first line a load
appends to the torn one, or, when that load appends nothing, the next prompt,
which is then lost from the transcript and from its own request; a hand edit of the rules is overwritten by the next
save; a fire whose process dies after the claim is gone. (`ClaimForFire` marks
`lastFired` before the turn; the comment at cron_wiring.go 136 still says after.)

## 4. Proofs

The theorems hold for any value of the constants that meets the hypothesis the
theorem states. A component names what it asks of its constants
(`CapAssumption`, `EmitterAssumption`, ...); the MC modules assume the same of
their instances, so TLC evaluates every hypothesis. A property is seldom
inductive alone: each proof names a stronger invariant, shows it by one step
per action, and the other theorems of the component follow from it. The
strengthenings were checked with TLC on the instances of section 3 before they
were proved.

**`AskQueueProofs`.** Type correctness, `OneOutstanding`, `NoStrandedAsk`,
`ResolvedOnce`, `NoZombieAsk`, `FifoInClass`, and that `AskQueue` implements
`OneDialog` (`Refinement`: the initial states map to initial states, each step
to a step or a stutter). `IInv` adds
* `PumpInv`: the firing flag is up exactly while a pump runs, there is one at
  most, asks wait or are open only while it runs, and what it holds is what is
  open (why `Enqueue` may start a pump);
* `SeqInv`: sequence numbers are handed out once and none exceeds the counter;
* `PlaceInv`: new, queued, open, fired, withdrawn and resolved exclude one
  another as they should (why nothing is lost or resolved twice);
* `DrainInv`: a withdrawn ask belongs to one drain until its resolve has run;
* `AgeInv`: what has not fired is younger than all of its class that has.

`OneOutstanding` and `FifoInClass` are proved only: on the instance the
refinement says more.

**`SessionTurnProofs`.** `OneResult` and `NothingForgotten`, from `TurnInv`: a
call nobody issued has no trace (`FreshInv`), and a call waits in one place
(`PlaceInv`), so no two actors can take it to record its result. Calls are lost
only in the two ways `NoForgottenCall` names. Of `ModelRouting` (`RoutesSoundly`): a validated
configuration resolves, no candidate is forgotten, a subagent stays on its
session's provider, breakers say what the outcome store says. `RoutingInv` has
`ConfigInv` (the configuration validated), `WalkInv` (the candidates behind a
dispatch failed or were turned away) and `CountsInv` (a breaker's count is the
number of failures its model's outcomes end with, up to the number that trips
it). Of `ProjectMemory` (`MemoryIsFresh`): no session reads a file as it was
before its walk began. A cached text is at least as new as the key it is stored
under (`CacheSound`), because the stat comes before the read, and so is a read in
progress (`WalksSound`); hence a hit, whose key is the file's present version, is
as new as the file. Of `Ecosystem` (`PrecedenceIsHonoured`): the pairwise merges
amount to the documented chain, for any number of roots and plugins, and a load
that fails changes nothing unless the process starts with it.

**`AcpSessionProofs`.** Of `AcpSession`: a deleted session stays deleted, loads
exclude one another, prompts wait for the replay, a cancel reaches its turn.
`SessionInv` says that a load past its guard has an incarnation of its own, one
per marker (`LoadInv`), that a ready incarnation's replay is over and prompts
are on ready ones (`ReadyInv`), that a handler past its lookup has found one
(`HeldInv`), and that with one prompt in flight the cancel slot holds that
prompt's func (`SlotInv`). Of `RunnerSessions` (`CacheIsWhole`): a cached
session is never half reaped; `CacheInv` says that what is in the cache was
built for its id and is not closed, and that what a closer is about to reap has
left it. Of `AcpWire` (`ReplayIsComplete`): no frame of a new session precedes
its answer, and a load that reports success has shown every line in order, then
the commands, and nothing else. `WireInv` gives, for each place of a handler, the
lines a load has shown so far (an increasing map from lines to places on the
wire, so the frames of other requests in between do not matter), and says that
nobody asks before the restart.

**`BackgroundProofs`.** Of `BashTasks`: the cap and the queue limit are exact
and no command waits beside a free slot (`CapAndQueue`), a withdrawn command
never runs (`WithdrawnStays`). `QueueInv` says that the FIFO names a task once, `LaunchInv` and `SlotInv` what
takes a slot (a launch, a process, a withdrawn waiter popped too late);
`Stirring` says that beside a free slot and a waiting command somebody will look
at the FIFO, or one of the two exceptions holds. Of `TaskTracker`: `SlotsAndWaiters` and
`ReportedOnce`, from `PhaseInv` (a goroutine exists from `start()` on) and
`TrackerQueueInv` (the FIFO names each waiting task once at most). Of `PtyShell`: what is reported as run has run
(`ReportedRan`); the strengthening `HonestInv` says that every sentinel on the
terminal or in the reader's channel is of a command the shell has run.

**`TurnEmitterProofs`.** Of `TurnEmitter`: the Barrier's contract, the
foreground slips by one frame at most, nothing is written after Stop. The
counters are tied to frames and blocked producers (`CountInv`), each frame is in
one place (`FrameInv`), what a Barrier saw stays ahead of what came later, on
the wire but for one frame of the background lane (`OrderInv`), and its target
is at least the number of frames it waits for (`WaitInv`). Of
`AskDialogs` (`AsksAndAnswers`): a question is asked twice at most, an answer
given survives, a question that falls through is visible. `ShowInv` says
that a form is shown once per round, `LandInv` that what the broker holds has
not landed, `FormInv` that one form is open and a valid outcome holds what its
properties allow.

**`PromptProofs`.** Of `PermissionGate`: `GateSound`, a call that passes without
a dialog is justified by rules and hooks. `NeverSilent` and `AlwaysIsKept`, from
`CallInv` (a call that was batched or ran had been justified or answered) and
`StoreInv`: what a persist in progress writes is the store with the answer added
(`SaveInv`), and what was acknowledged is in the open store, edited file or not
(`AckInv`). Of `SessionLog`, for any number of crashes: a turn id is never used
twice (`TurnIdsStayFresh`), a finished load leaves nothing dangling
(`LoadSettles`), and a request states its own turn's prompt (`IntentIsOwn`).
`MintedInv` says that nothing on disk or about to be written bears an id beyond
the counter, which `Loaded` must restore; `SuspendInv` that the call of a
suspended question was written before it; `ClosingInv` that during a load each
opener has its closing line on disk or among those still to be written. The
lemmas on `Pick` (reading a file keeps the order of what parses), `OpenersAre`
and `ClosuresMeet` (the scan finds each opener, the closures meet them all)
carry the argument from the file to what a reader sees. Of `PromptIngress`,
whatever other prompts and the workspace do meanwhile: an image that a user line
refers to was accepted and is within the limits (`ImagesDeliverable`), and a
file denied all along is never shown (`DeniedStaysHidden`). `BlockInv` says of
each place of the ingress loop that what it has put out can be delivered, that
no image is left when the provider takes none, and that what is being persisted
was accepted; it rests on `AcceptedFits` (a scaled image is within the limits,
for any sizes). `MentionInv` says that an absolute path about to be read was
allowed when it was looked at, hence not denied all along.

**`AutonomyProofs`.** Of `Scheduler` (`FiredOnce`): no window and no
one-shot fires twice and no budget is overrun. `SchedInv` relates the copies of
an automation's record to the claims made: the open store's knows of each
(`StoreSound`), the one on disk does or is behind (`DiskSound`), the copy of a
CronUpdate is the record it fetched or is behind it (`CopySound`). Of
`EngineChain` (`TurnsQueueUp`): injected turns queue; `RunningInv` says that a
turn that runs is the one its owner is in, `MutexInv` who holds the run mutex.

**`RuntimeProofs`.** Of `EventBus`: `TurnsAreFlushed`. Of `RequestRegistry`: a
request is settled once and never after its withdrawal. Of `ConfigSurface`: the
model shown reaches the sessions (`ModelsReach`), and the retention, the caps
and the threshold in use are those shown (`ShownAndLive`, from `SurfaceInv` and
`ThresholdInv`). Of `TurnSlot`: one turn, steering stays in its turn, one wake
chain. Of `CommandChain`: a prompt resolves against a stale
catalog only if a change was let go by and no rescan is on its way
(`StaleOnlyIfMissed`), and the local commands leave their record. The history
variables are `torn`, an edit fell behind the walk of a rescan, and `missed`,
nobody is bound to look at a change again; both fall with a rescan that no edit
falls behind. `TornInv`: a torn rescan is one the watcher will repeat, or the
change is missed. `WalkInv`: unless torn, every rescan under way holds what is on
disk, however many overlap. `SignatureInv`: a signature that matches vouches for
registry and chain, but for a pending event or a missed change. `ResolveInv`
carries this to the prompts that have passed the probe. Of `StoreLock`: the lock excludes until it is
stolen. Of `SessionStore`: what is deleted stays hidden, and an untouched session
is listed once (`EachListedOnce`); `PagesInv` says on which side of the cursor the
sessions listed so far are, and a page is the first `PageSize` by rank among what
remains. Of `Checkpoint` (`UndoIsReversible`): the next /undo of a session goes to
the snapshot the last one took; `LatestInv` says that this snapshot precedes
whatever else the session has, which needs ids minted once and seconds that do
not run backwards (`RefsInv`). Of `ProviderStream`: an abort is loud, a call is
held once.

Five properties were stated too strongly until their proofs failed; each is
now stated for what the code does, and the case left out is in section 3:
* `AlwaysKept`: the gate consults what is on disk, except between a hand edit
  and the next open or save;
* `ModelReachesSessions`: of two overlapping Sets the one stored first may
  stamp the sessions last;
* `FiresOnce`: a refused save of the claim, a refused save of the deletion and
  a crash resurrect a fired automation;
* `ValidConfigResolves`: what validation compares is a fallback with the primary
  the file names, which the capability gate may have passed over;
* `IntentIsTheTurns`: it needs a second crash to fail, which showed when the
  instance was given one.

Only model-checked:
* liveness and ENABLED, which are outside of the prover's reach;
* what folds and recursive definitions compute (`PairedWindow`, the cron fields
  of `Scheduler`);
* what is computed with `SelectSeq`, `SortSeq` and `FlattenSeq`, which the provers
  do not interpret: `RepoHooksFirst`, and of `PromptIngress` `NeverEmptyBody` and
  `MentionsSettled`;
* the type invariants of the components that no theorem covers.

## 5. Plan

The components of section 1 are modelled. What is left is to prove more, in
this order.

1. `Ecosystem`: `RepoHooksFirst`, and of `PromptIngress` `NeverEmptyBody` and
   `MentionsSettled`. The flattened sequences they speak of have to be restated
   over index sets first, which says the same in a form the provers can use.
2. An abstract bounded-slot service that both `TaskTracker` and `BashTasks`
   implement.

## 6. Not modelled

* Sandbox policies: built from the configuration and handed to the operating
  system; no state.
* Wire formats, request bodies and headers (`kit/shaper`, `kit/profile`,
  `kit/redact`, `kit/audit`), rendering, wording and logging: formatting, except
  where a property is about it (the replay, the forms, the shaped blocks).
* The file tools, the web tools and the MCP wire protocol: operating-system
  and network calls whose outcome is a result or an error.
* Learning, openspec and loop commands: wrappers over files and child processes.
* Parity, evaluation and profile tooling: offline, no part of the served system.
* Command line, first run and defaults: composition and seed files.
