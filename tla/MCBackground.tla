---------------------------- MODULE MCBackground ----------------------------
(***************************************************************************)
(* What goes on around a turn: the ingress of its prompt, the permission   *)
(* gate, background shell commands and subagents, the event bus with its   *)
(* consumers, and the checkpoints of the workspace. A behaviour takes the  *)
(* steps of one component, chosen at the start: the run explores the sum   *)
(* of their state spaces.                                                  *)
(* It extends PermissionGate, whose definitions keep their names, and      *)
(* instantiates the others; the composition's own carry MC.                *)
(***************************************************************************)
EXTENDS PermissionGate

VARIABLES
  focus,  \* the component whose steps a behaviour takes
  \* BashTasks
  state, waiting, launcher, wait, signalled, reaping, toStop, withdrawn, failedStart,
  \* TaskTracker
  launch, loop, withdrawing, running, cancels, waiters, pend, delivered, reap,
  \* EventBus
  subs, queue, sending, busTurn, opened, closed, ctxDone, writer, runForwarder, emitted,
  \* Checkpoint
  made, checkpoints, clock, tree, trees, refs, turns, active, cancelled, undo, undos,
  crashes, latest,
  \* PromptIngress
  workspace, denied, authority, chain, images, supports, asking, prompt, lines,
  changes, lostImages

CommandsVars == <<state, waiting, launcher, wait, signalled, reaping, toStop,
                  withdrawn, failedStart>>
SubagentsVars == <<launch, loop, withdrawing, running, cancels, waiters, pend,
                   delivered, reap>>
BusVars == <<subs, queue, sending, busTurn, opened, closed, ctxDone, writer,
             runForwarder, emitted>>
UndoVars == <<made, checkpoints, clock, tree, trees, refs, turns, active, cancelled, undo,
              undos, crashes, latest>>
IngressVars == <<workspace, denied, authority, chain, images, supports, asking,
                 prompt, lines, changes, lostImages>>
allVars == <<focus, CommandsVars, SubagentsVars, BusVars, UndoVars, vars, IngressVars>>

\* A compound command with a substitution, plan mode, an MCP tool.
Sub(w, s) == [word |-> w, subst |-> s]
Asks(t, parts) == [tool |-> t, subs |-> parts]
Plain == <<Sub("x", FALSE)>>
MCRequest ==
  {Asks(Bash, <<Sub("git", TRUE), Sub("rm", FALSE)>>), Asks(EnterPlanMode, Plain),
   Asks(<<"mcp", "s", "t">>, Plain)}
Rule(t, star, spec) == [tool |-> t, star |-> star, spec |-> spec]
MCAskClass == {Bash, Task, <<"mcp", "s", "t">>}
MCMutating == {Bash}
MCDocument == [is |-> "ok", deny |-> {Rule(Task, FALSE, "")}, ask |-> {Rule(<<"mcp", "s">>, FALSE, "")},
             allow |-> {Rule(<<>>, TRUE, ""), Rule(Bash, FALSE, "git")}]
MCDocuments == {MCDocument}

\* Prompts with images that fit, are scaled, too large, broken, empty or cannot
\* shrink, with mentions of every kind, arguments of a command, and a parked cancel.
Words(ws) == [kind |-> "text", words |-> ws]
Image(sum, w, h, bytes, encoded, jpeg, format) ==
  [kind |-> "image", data |-> TRUE, base64 |-> TRUE, sum |-> sum, header |-> TRUE, pixels |-> TRUE,
   w |-> w, h |-> h, bytes |-> bytes, encoded |-> encoded, jpeg |-> jpeg, format |-> format]
Prompts ==
  {<<Words(<<"/c", "@f">>), Image("i1", 1, 2, 1, 1, 1, "png")>>,
   <<Image("i2", 4, 2, 2, 3, 2, "png")>>,
   <<Image("i3", 6, 6, 2, 3, 2, "png")>>,
   <<[Image("i4", 1, 1, 1, 1, 1, "png") EXCEPT !.base64 = FALSE], Words(<<"@a", "w", "@d", "@o">>)>>,
   <<[Image("i5", 1, 1, 3, 3, 3, "webp") EXCEPT !.data = FALSE]>>,
   <<Image("i6", 3, 3, 3, 3, 3, "webp")>>,
   <<Words(<<"/d", "$2", "w">>)>>, <<Words(<<"/d">>)>>, <<Words(<<"cancel-ask">>)>>}
Bodies ==
  [c \in {"/c", "/d"} |-> [body |-> IF c = "/c" THEN <<"b", "$1">> ELSE <<"$ARGUMENTS">>,
                            mutating |-> c = "/c"]]
Mentions ==
  [m \in {"@f", "@a", "@d", "@o"} |-> [path |-> IF m \in {"@f", "@o"} THEN "f" ELSE "g",
                                        abs |-> m = "@a", outside |-> m = "@o"]]
Limits == [maxW |-> 3, maxH |-> 3, maxBytes |-> 2, target |-> 2, ceiling |-> 30]

Commands == INSTANCE BashTasks WITH
  Task <- {"t1", "t2", "t3"}, Cap <- 1, QueueBound <- 2, Caller <- "caller",
  Nobody <- "nobody", waiters <- waiting, reap <- reaping
Subagents == INSTANCE TaskTracker WITH
  Task <- {"t1", "t2", "t3"}, Shell <- {"s1"}, Cap <- 1, QueueBound <- 1,
  cancelled <- withdrawing
Bus == INSTANCE EventBus WITH
  Session <- {1}, ClientSession <- {1}, Buf <- 1, MaxTurns <- 2, MaxPublish <- 2,
  turn <- busTurn
Undo == INSTANCE Checkpoint WITH
  Session <- {1, 2}, DefaultKeep <- 3, PerSession <- 2, MaxAge <- 1, MaxDepth <- 1,
  MaxTurns <- 2, MaxTime <- 1, MaxTree <- 1, MaxUndo <- 1, MaxCrash <- 1,
  store <- checkpoints
Ingress == INSTANCE PromptIngress WITH
  Session <- {"s1"}, Prompts <- Prompts, Catalog <- Bodies, Mentions <- Mentions,
  Limits <- Limits, MaxChanges <- 1, log <- lines, files <- workspace,
  run <- prompt, lost <- lostImages, disk <- images

\* What the components assume of their constants.
ASSUME /\ Commands!CapAssumption
       /\ Commands!QueueAssumption
       /\ Commands!FiniteTasks
       /\ Commands!LaunchersDiffer
       /\ Subagents!CapAssumption
       /\ Subagents!QueueAssumption
       /\ Subagents!FiniteTasks
       /\ Subagents!DistinctIds
       /\ Bus!BufAssumption
       /\ Undo!CheckpointAssumption
       /\ Ingress!IngressAssumption
       /\ RequestAssumption
       /\ DocumentAssumption

\* A component that is out of focus keeps one of its initial states.
MCInit ==
  /\ focus \in {"commands", "subagents", "bus", "undo", "gate", "ingress"}
  /\ Commands!Init
  /\ Subagents!Init
  /\ Bus!Init
  /\ Undo!Init
  /\ Init
  /\ focus # "gate" => file = MCDocument
  /\ Ingress!Init
  /\ focus # "ingress" => denied = {} /\ authority /\ asking["s1"] /\ supports["s1"] /\ workspace["f"] = "file" /\ workspace["g"] = "file"

MCNext ==
  \/ focus = "commands" /\ Commands!Next /\ UNCHANGED <<focus, SubagentsVars, BusVars, UndoVars, vars, IngressVars>>
  \/ focus = "subagents" /\ Subagents!Next /\ UNCHANGED <<focus, CommandsVars, BusVars, UndoVars, vars, IngressVars>>
  \/ focus = "bus" /\ Bus!Next /\ UNCHANGED <<focus, CommandsVars, SubagentsVars, UndoVars, vars, IngressVars>>
  \/ focus = "undo" /\ Undo!Next /\ UNCHANGED <<focus, CommandsVars, SubagentsVars, BusVars, vars, IngressVars>>
  \/ focus = "gate" /\ Next /\ UNCHANGED <<focus, CommandsVars, SubagentsVars, BusVars, UndoVars, IngressVars>>
  \/ focus = "ingress" /\ Ingress!Next /\ UNCHANGED <<focus, CommandsVars, SubagentsVars, BusVars, UndoVars, vars>>

MCSpec == MCInit /\ [][MCNext]_allVars

-----------------------------------------------------------------------------
\* A turn that returned has handed every event it published to its client
\* (runtime.go Run).
TurnFlushed == Bus!TurnFlushed

\* Undoing an undo brings the tree back (kit/checkpoint/store.go).
UndoOfUndo == Undo!UndoOfUndo

\* The rest: caps and slot counts are exact, no waiter is left beside a free
\* slot, a command stopped while it was queued never runs, each subagent is
\* notified once, an acknowledged "always" is kept,
\* images are deliverable, no body is empty, nothing denied is shown, each mention
\* has its section, and the components' types.
BackgroundSafe ==
  /\ focus = "commands" =>
       /\ Commands!TypeOK /\ Commands!CapHolds
       /\ Commands!NoStrandedWaiter /\ Commands!WithdrawnNeverRuns
  /\ focus = "subagents" =>
       /\ Subagents!TypeOK /\ Subagents!SlotsCounted
       /\ Subagents!NoStrandedWaiter /\ Subagents!NotifiedOnce
  /\ focus = "bus" => Bus!TypeOK
  /\ focus = "undo" => Undo!TypeOK
  /\ focus = "gate" => AlwaysKept
  /\ focus = "ingress" =>
       /\ Ingress!TypeOK /\ Ingress!DeliverableImages /\ Ingress!NeverEmptyBody
       /\ Ingress!DeniedNeverShown /\ Ingress!MentionsSettled
=============================================================================
