------------------------------ MODULE MCConfig ------------------------------
(***************************************************************************)
(* What configures a turn: the config surface, the routing of models, the  *)
(* command chain and its rescans, the discovered ecosystem and the project *)
(* memory. A behaviour takes the steps of one component, chosen at the     *)
(* start: the run explores the sum of their state spaces.                  *)
(* It extends ConfigSurface, whose definitions keep their names, and       *)
(* instantiates the others; the composition's own carry MC.                *)
(***************************************************************************)
EXTENDS ConfigSurface, TLC

VARIABLES
  focus,  \* the component whose steps a behaviour takes
  \* ModelRouting
  cfg, now, breaker, cost, disp, profile, outcomes,
  \* CommandChain
  files, stamp, rootEdits, registry, chain, signature, advert, pending, driver, log,
  turnModel, shown, torn, missed,
  \* Ecosystem
  tree, unreadable, installed, form, settings, userMCP, catalog, runner, treeEdits,
  \* ProjectMemory
  disk, ver, git, cache, walk, memoryEdits

RoutingVars == <<cfg, now, breaker, cost, disp, profile, outcomes>>
CommandsVars == <<files, stamp, rootEdits, registry, chain, signature, advert, pending,
                  driver, log, turnModel, shown, torn, missed>>
CatalogVars == <<tree, unreadable, installed, form, settings, userMCP, catalog, runner,
                 treeEdits>>
MemoryVars == <<disk, ver, git, cache, walk, memoryEdits>>
allVars == <<focus, vars, RoutingVars, CommandsVars, CatalogVars, MemoryVars>>

\* The config surface: a model of another provider is one tier's floor.
MCModel == {"m1", "m2", "x1"}
MCTier == {"t1", "t2"}
MCProvider == [m \in MCModel |-> IF m = "x1" THEN "other" ELSE "main"]
MCFloorModel == [t \in MCTier |-> IF t = "t1" THEN "m1" ELSE "x1"]
MCFallbacks == [t \in MCTier |-> IF t = "t1" THEN <<"x1", "m2">> ELSE <<"m1">>]

\* Scheduling files: missing providers, undeclared models, a night window that
\* overrides a tier, and a ceiling that degrades or stops.
Offer(p, caps) == [provider |-> p, caps |-> caps]
Offers == ("a" :> Offer("p", {"tools"})) @@ ("b" :> Offer("p", {"tools"})) @@ ("c" :> Offer("q", {}))
Night(h) == [name |-> "night", from |-> 1, to |-> 0, days |-> {}, tiers |-> ("heavy" :> h)]
Scheduling(ps, pr, h, l, w, g) ==
  [models |-> Offers, providers |-> ps, project |-> ("heavy" :> pr),
   tiers |-> ("heavy" :> h) @@ ("light" :> l), windows |-> <<Night(w)>>, degradeTo |-> g]
Configs ==
  {Scheduling(ps, <<"b", "a">>, h, l, w, g) :
     ps \in {{"p", "q"}, {"p"}}, h \in {<<"a", "b">>, <<"a", "c">>}, l \in {<<"c", "a">>, <<"z">>},
     w \in {<<"b">>, <<"a", "z">>}, g \in {"light", "off"}}
  \cup {Scheduling({"p", "q"}, <<"c", "a", "c">>, <<"a", "b">>, <<"c", "a">>, <<"b">>, "light")}

\* Plugin registrations, in the order a registry file lists them.
Installs == {<<>>, <<"ok">>, <<"otherProject", "ok">>, <<"missingPath", "ok">>, <<"badManifest">>}

Touched == {<<"claudeUser", "CLAUDE">>, <<"cwd", "CLAUDE">>}

Routing == INSTANCE ModelRouting WITH
  Configs <- Configs, Dispatcher <- {"d1", "d2"}, Req <- {{}, {"tools"}},
  ConsecutiveFailures <- 2, ErrorRateWindow <- 3, Cooldown <- 1, CostWindow <- 1,
  Ceiling <- 1, ReplayedSpend <- {0, 1}, Slots <- 1, Day <- 2, Horizon <- 1,
  MaxOutcomes <- 2
Commands == INSTANCE CommandChain WITH
  Name <- {"x"}, ClassB <- {"model", "status", "clear", "compact", "cost", "help"}, ClassA <- {"init"},
  Model <- {"m1", "m2"}, Prompt <- {"p"}, MaxEdits <- 2,
  disk <- files, edits <- rootEdits, d <- driver
Catalog == INSTANCE Ecosystem WITH
  Kind <- {"skill", "command", "agent"}, Shape <- {"plain", "badYaml", "empty"},
  PluginKeys <- <<"p", "q">>, Installs <- Installs, Session <- {"s1"},
  MaxEdits <- 3, edits <- treeEdits
Memory == INSTANCE ProjectMemory WITH
  Walker <- {"w1", "w2"}, Touched <- Touched, Big <- {<<"cwd", "CLAUDE">>},
  Budget <- 1, MaxEdits <- 1, edits <- memoryEdits

\* What the components assume of their constants.
ASSUME /\ Commands!ReservedAssumption
       /\ SurfaceAssumption /\ Routing!RoutingAssumption /\ Memory!MemoryAssumption

\* A component that is out of focus keeps one of its initial states.
MCInit ==
  /\ focus \in {"surface", "routing", "commands", "catalog", "memory"}
  /\ Init
  /\ Routing!Init
  /\ focus # "routing" => cost.spent = 0 /\ cfg = CHOOSE c \in Configs : Routing!Validate(c)
  /\ Commands!Init
  /\ focus # "commands" => files["x"] = {} /\ turnModel["p"] = "m1"
  /\ Catalog!Init
  /\ Memory!Init
  /\ focus # "memory" => git = {} /\ \A p \in Touched : disk[p] = "file"

MCNext ==
  \/ focus = "surface" /\ Next /\ UNCHANGED <<focus, RoutingVars, CommandsVars, CatalogVars, MemoryVars>>
  \/ focus = "routing" /\ Routing!Next /\ UNCHANGED <<focus, vars, CommandsVars, CatalogVars, MemoryVars>>
  \/ focus = "commands" /\ Commands!Next /\ UNCHANGED <<focus, vars, RoutingVars, CatalogVars, MemoryVars>>
  \/ focus = "catalog" /\ Catalog!Next /\ UNCHANGED <<focus, vars, RoutingVars, CommandsVars, MemoryVars>>
  \/ focus = "memory" /\ Memory!Next /\ UNCHANGED <<focus, vars, RoutingVars, CommandsVars, CatalogVars>>

MCSpec == MCInit /\ [][MCNext]_allVars

-----------------------------------------------------------------------------
\* The catalog a prompt resolves against is current or about to be, unless the code
\* let a change of the discovery roots go by since (rescan.go).
FreshUnlessMissed == Commands!FreshUnlessMissed

\* The definition in force comes from the highest source that provides one
\* (loader.go).
PrecedenceHonoured == Catalog!PrecedenceHonoured

\* The rest: a compaction setting is live and the caps in use are the
\* ones shown; a local command is recorded; a config that validates resolves, the
\* walk forgets no candidate and crosses no wire, a breaker reflects the outcomes
\* recorded; repository hooks run first; project memory is never served stale;
\* and the components' types.
ConfigSafe ==
  /\ focus = "surface" => TypeOK /\ CompactionLive /\ ShownIsUsed
  /\ focus = "routing" =>
       /\ Routing!TypeOK /\ Routing!ValidConfigResolves /\ Routing!NoCandidateForgotten
       /\ Routing!NoWrongWire /\ Routing!BreakerReflectsOutcomes
  /\ focus = "commands" => Commands!TypeOK /\ Commands!LocalCommandRecorded
  /\ focus = "catalog" => Catalog!TypeOK /\ Catalog!RepoHooksFirst
  /\ focus = "memory" => Memory!TypeOK /\ Memory!NeverStaleMemory
=============================================================================
