----------------------------- MODULE Ecosystem -----------------------------
(***************************************************************************)
(* Discovery of skills, commands, agents, plugins, MCP servers and hooks   *)
(* (internal/ecosys/loader.go), the adapter that keeps the result          *)
(* (internal/acpserve/catalog_adapter.go, discover.go), and the order in   *)
(* which a session's hooks fire (internal/ecosys/hooks.go NewHookRunner).  *)
(*                                                                         *)
(* One name of each kind is followed: skill, command, agent. A file is its *)
(* shape, what the three parsers tell apart; a registry maps a kind's name *)
(* to the root that answers it.                                            *)
(***************************************************************************)
EXTENDS Integers, Sequences, SequencesExt, FiniteSets

CONSTANTS
  Kind,          \* kinds of definition: "skill", "command", "agent"
  Shape,         \* the shapes a definition file may have, see Parses
  PluginKeys,    \* the sorted "name@marketplace" keys, as a sequence
  Installs,      \* the install lists a registry file may hold for one key
  Session,       \* sessions that snapshot the hooks
  MaxEdits       \* bound on edits of the files between loads

TreeRoots == {"claudeProject", "claudeUser", "assguardProject", "assguardUser"}
PluginRoots == {"pluginsProject", "pluginsUser"}
SettingsFiles == {"project", "local", "user"}
NoRoot == "none"
FileState == Shape \cup {"absent"}
Form == {"v1", "v2", "malformed"}

VARIABLES
  tree,          \* [TreeRoots -> [Kind -> FileState]]: the definition files
  unreadable,    \* tree roots whose walk fails with other than ErrNotExist
  installed,     \* [PluginRoots -> [keys -> install list]]
  form,          \* [PluginRoots -> Form]: what installed_plugins.json looks like
  settings,      \* [SettingsFiles -> BOOLEAN]: the file declares one hook
  userMCP,       \* ~/.claude.json: "absent", "server" or "malformed"
  catalog,       \* the adapter's state: reg, servers, hooks, warned
  runner,        \* [Session -> sequence of hooks, or <<>>]: HookRunner.Hooks
  edits

vars == <<tree, unreadable, installed, form, settings, userMCP, catalog, runner, edits>>

EmptyReg == [k \in Kind |-> NoRoot]
Keys == 1..Len(PluginKeys)

-----------------------------------------------------------------------------
(* A skill is dropped when its frontmatter is not YAML; an empty one loads *)
(* under its directory's name.                                             *)
ParseSkill(shape) == shape # "badYaml"

(* An agent needs valid frontmatter and a description or a body.           *)
ParseAgent(shape) == shape \notin {"badYaml", "empty"}

(* A command falls back to the flat view when its frontmatter is not YAML; *)
(* it needs a valid name and a description or a body.                      *)
ParseCommand(shape) == shape \notin {"badName", "empty"}

Parses(k, shape) ==
  /\ shape \notin {"absent", "unreadable"}
  /\ CASE k = "skill" -> ParseSkill(shape)
       [] k = "agent" -> ParseAgent(shape)
       [] k = "command" -> ParseCommand(shape)

(* The walk of one tree root: a file that does not parse is skipped in     *)
(* silence, the others register.                                           *)
LoadTree(r) == [k \in Kind |-> IF Parses(k, tree[r][k]) THEN r ELSE NoRoot]

\* Mutant: the base keeps a name both define.
MergeRegistriesBaseWins(base, overlay) ==
  [k \in Kind |-> IF base[k] # NoRoot THEN base[k] ELSE overlay[k]]

(* base with overlay applied. Two definitions of one name leave one        *)
(* warning that names the winner and the shadowed one.                     *)
MergeRegistries(base, overlay) ==
  [k \in Kind |-> IF overlay[k] # NoRoot THEN overlay[k] ELSE base[k]]

ShadowWarnings(base, overlay) ==
  {<<overlay[k], base[k]>> : k \in {j \in Kind : overlay[j] # NoRoot /\ base[j] # NoRoot}}

(* The entries of one registry file, as <<key, install>>. The v1 array has *)
(* no project paths, and all its entries are taken. Of the installs v2     *)
(* records for a key, the first that is not scoped to another project is   *)
(* taken, whether or not its path resolves. An unrecognised file has none. *)
ParseInstalledPlugins(root) ==
  LET Entries(p, list) == [i \in 1..Len(list) |-> <<p, list[i]>>]
      Applicable(p) == SelectSeq(installed[root][p], LAMBDA i : i # "otherProject")
      First(p) == SubSeq(Applicable(p), 1, IF Applicable(p) = <<>> THEN 0 ELSE 1)
      Taken(p) == Entries(p, IF form[root] = "v1" THEN installed[root][p] ELSE First(p))
  IN IF form[root] = "malformed" THEN <<>> ELSE FlattenSeq([p \in Keys |-> Taken(p)])

(* An entry whose path does not resolve under the root, or that has no     *)
(* readable manifest, is skipped. The keys of the rest, in load order.     *)
ResolvedPlugins(root) ==
  LET loaded == SelectSeq(ParseInstalledPlugins(root),
                          LAMBDA e : e[2] \in {"ok", "otherProject"})
  IN [i \in 1..Len(loaded) |-> loaded[i][1]]

PluginRegistry(root) ==
  LET from == IF ResolvedPlugins(root) # <<>> THEN root ELSE NoRoot
  IN [k \in Kind |-> from]

PluginHooks(root) ==
  LET plugins == ResolvedPlugins(root)
  IN [i \in 1..Len(plugins) |-> [scope |-> "plugin", from |-> <<root, plugins[i]>>]]

SettingsHooks(file, scope) ==
  IF settings[file] THEN <<[scope |-> scope, from |-> <<file, 0>>]>> ELSE <<>>

(* The MCP server both layers may name: the user's file over the plugins', *)
(* the project root's plugins over the user root's.                        *)
MergedServer ==
  LET Names(layer) == IF layer = "claudeJson" THEN userMCP = "server"
                      ELSE ResolvedPlugins(layer) # <<>>
      layers == SelectSeq(<<"claudeJson", "pluginsProject", "pluginsUser">>, Names)
  IN IF layers = <<>> THEN NoRoot ELSE Head(layers)

(* Within each tree the project over the user, .claude over .ass-guard,    *)
(* the trees over the plugin roots. Hooks accumulate: no tier replaces     *)
(* another's.                                                              *)
LoadAll ==
  LET claude   == MergeRegistries(LoadTree("claudeUser"), LoadTree("claudeProject"))
      assguard == MergeRegistries(LoadTree("assguardUser"), LoadTree("assguardProject"))
      core     == MergeRegistries(assguard, claude)
      userPlug == PluginRegistry("pluginsUser")
      projPlug == PluginRegistry("pluginsProject")
      plug     == MergeRegistries(userPlug, projPlug)
  IN [reg     |-> MergeRegistries(plug, core),
      server  |-> MergedServer,
      hooks   |-> PluginHooks("pluginsUser") \o PluginHooks("pluginsProject")
                    \o SettingsHooks("project", "project") \o SettingsHooks("local", "project")
                    \o SettingsHooks("user", "user"),
      warned  |-> ShadowWarnings(LoadTree("claudeUser"), LoadTree("claudeProject"))
                    \cup ShadowWarnings(LoadTree("assguardUser"), LoadTree("assguardProject"))
                    \cup ShadowWarnings(assguard, claude)
                    \cup ShadowWarnings(userPlug, projPlug)
                    \cup ShadowWarnings(plug, core)]

(* Discover fails when a tree root cannot be walked or ~/.claude.json      *)
(* cannot be parsed; every other degradation is a skip.                    *)
DiscoverFails == unreadable # {} \/ userMCP = "malformed"

EmptyCatalog == [reg |-> EmptyReg, server |-> NoRoot, hooks |-> <<>>, warned |-> {}]

-----------------------------------------------------------------------------
(* The process starts on whatever the disk holds; a failed first load      *)
(* leaves an empty registry. The start is a Load from the initial state.   *)
Init ==
  /\ tree = [r \in TreeRoots |-> [k \in Kind |-> "absent"]]
  /\ unreadable = {}
  /\ installed = [r \in PluginRoots |-> [p \in Keys |-> <<>>]]
  /\ form = [r \in PluginRoots |-> "v2"]
  /\ settings = [f \in SettingsFiles |-> FALSE]
  /\ userMCP = "absent"
  /\ catalog = EmptyCatalog
  /\ runner = [s \in Session |-> <<>>]
  /\ edits = 0

(* External: an operator or another program changes the files.             *)
EditTree(r, k, st) ==
  /\ edits < MaxEdits
  /\ tree[r][k] # st
  /\ tree' = [tree EXCEPT ![r][k] = st]
  /\ edits' = edits + 1
  /\ UNCHANGED <<unreadable, installed, form, settings, userMCP, catalog, runner>>

Chmod(r) ==
  /\ edits < MaxEdits
  /\ unreadable' = IF r \in unreadable THEN unreadable \ {r} ELSE unreadable \cup {r}
  /\ edits' = edits + 1
  /\ UNCHANGED <<tree, installed, form, settings, userMCP, catalog, runner>>

EditInstalled(r, p, list) ==
  /\ edits < MaxEdits
  /\ installed[r][p] # list
  /\ installed' = [installed EXCEPT ![r][p] = list]
  /\ edits' = edits + 1
  /\ UNCHANGED <<tree, unreadable, form, settings, userMCP, catalog, runner>>

EditForm(r, f) ==
  /\ edits < MaxEdits
  /\ form[r] # f
  /\ form' = [form EXCEPT ![r] = f]
  /\ edits' = edits + 1
  /\ UNCHANGED <<tree, unreadable, installed, settings, userMCP, catalog, runner>>

EditSettings(f) ==
  /\ edits < MaxEdits
  /\ settings' = [settings EXCEPT ![f] = ~@]
  /\ edits' = edits + 1
  /\ UNCHANGED <<tree, unreadable, installed, form, userMCP, catalog, runner>>

EditUserMCP(st) ==
  /\ edits < MaxEdits
  /\ userMCP # st
  /\ userMCP' = st
  /\ edits' = edits + 1
  /\ UNCHANGED <<tree, unreadable, installed, form, settings, catalog, runner>>

(* catalogAdapter.Rediscover: the fresh state swaps in wholesale, an error *)
(* keeps the previous one. One discovery is one step here; a discovery     *)
(* that the files change under, and two that overlap, are CommandChain's.  *)
Rediscover ==
  /\ catalog' = IF DiscoverFails THEN catalog ELSE LoadAll
  /\ UNCHANGED <<tree, unreadable, installed, form, settings, userMCP, runner, edits>>

(* loadCommandCatalog at a restart: an error leaves an empty registry, and *)
(* no session of the old process survives.                                 *)
LoadCommandCatalog ==
  /\ catalog' = IF DiscoverFails THEN EmptyCatalog ELSE LoadAll
  /\ runner' = [s \in Session |-> <<>>]
  /\ UNCHANGED <<tree, unreadable, installed, form, settings, userMCP, edits>>

ScopeRank(scope) == CASE scope = "project" -> 0 [] scope = "user" -> 1 [] OTHER -> 2

OfScope(hooks, rank) == SelectSeq(hooks, LAMBDA h : ScopeRank(h.scope) = rank)

(* A stable sort by rank, taken once from the live catalog when a session  *)
(* is built.                                                               *)
HookOrder(hooks) == OfScope(hooks, 0) \o OfScope(hooks, 1) \o OfScope(hooks, 2)

NewHookRunner(s) ==
  /\ runner' = [runner EXCEPT ![s] = HookOrder(catalog.hooks)]
  /\ UNCHANGED <<tree, unreadable, installed, form, settings, userMCP, catalog, edits>>

Next ==
  \/ \E r \in TreeRoots, k \in Kind, st \in FileState : EditTree(r, k, st)
  \/ \E r \in TreeRoots : Chmod(r)
  \/ \E r \in PluginRoots, p \in Keys, list \in Installs : EditInstalled(r, p, list)
  \/ \E r \in PluginRoots, f \in Form : EditForm(r, f)
  \/ \E f \in SettingsFiles : EditSettings(f)
  \/ \E st \in {"absent", "server", "malformed"} : EditUserMCP(st)
  \/ Rediscover
  \/ LoadCommandCatalog
  \/ \E s \in Session : NewHookRunner(s)

Spec == Init /\ [][Next]_vars

-----------------------------------------------------------------------------
Providers == TreeRoots \cup PluginRoots
HookConfig == [scope : {"project", "user", "plugin"},
               from : (PluginRoots \X Keys) \cup (SettingsFiles \X {0})]

TypeOK ==
  /\ tree \in [TreeRoots -> [Kind -> FileState]]
  /\ unreadable \subseteq TreeRoots
  /\ installed \in [PluginRoots -> [Keys -> Installs \cup {<<>>}]]
  /\ form \in [PluginRoots -> Form]
  /\ settings \in [SettingsFiles -> BOOLEAN]
  /\ userMCP \in {"absent", "server", "malformed"}
  /\ catalog.reg \in [Kind -> Providers \cup {NoRoot}]
  /\ catalog.server \in PluginRoots \cup {"claudeJson", NoRoot}
  /\ catalog.hooks \in Seq(HookConfig)
  /\ catalog.warned \subseteq Providers \X Providers
  /\ runner \in [Session -> Seq(HookConfig)]
  /\ edits \in 0..MaxEdits

(* The precedence chain the package documents (doc.go, loader.go): project *)
(* over user within a tree, .claude over .ass-guard, both over the plugin  *)
(* roots, the project's plugins over the user's.                           *)
PrecedenceChain ==
  <<"claudeProject", "claudeUser", "assguardProject", "assguardUser",
    "pluginsProject", "pluginsUser">>

Provides(root, k) ==
  IF root \in TreeRoots THEN Parses(k, tree[root][k]) ELSE ResolvedPlugins(root) # <<>>

(* What a load leaves: every name is answered by the first root of the     *)
(* chain that provides it, whatever the order of the pairwise merges. A    *)
(* load that fails changes nothing, unless the process starts with it.     *)
PrecedenceHonoured ==
  [][catalog' # catalog /\ catalog' # EmptyCatalog =>
       \A k \in Kind :
         LET on == {i \in DOMAIN PrecedenceChain : Provides(PrecedenceChain[i], k)}
             first == CHOOSE i \in on : \A j \in on : i <= j
         IN catalog'.reg[k] = IF on = {} THEN NoRoot ELSE PrecedenceChain[first]]_vars

(* A session's hooks fire project settings first, then the user's, then    *)
(* the plugins' (hooks.go, the D-03 order); within a scope in the order of *)
(* the load, settings.json before settings.local.json and the user root's  *)
(* plugins before the project root's, whichever edits and reloads lie      *)
(* between.                                                                *)
RepoHooksFirst ==
  LET LoadOrder == <<"pluginsUser", "pluginsProject", "project", "local", "user">>
      Position(h) == CHOOSE i \in 1..5 : LoadOrder[i] = h.from[1]
  IN \A s \in Session :
       \A i, j \in 1..Len(runner[s]) :
         LET h == runner[s][i]  g == runner[s][j]
         IN i < j => \/ ScopeRank(h.scope) < ScopeRank(g.scope)
                     \/ h.scope = g.scope /\ Position(h) <= Position(g)

(* The comment of mergeRegistries: every same-key overwrite leaves a       *)
(* warning naming the winning and the shadowed file. Two plugins of one    *)
(* root overwrite each other through maps.Copy, which warns of nothing.    *)
(* Refuted on instances with two plugins of one root.                      *)
ShadowsWarned ==
  \A r \in PluginRoots :
    Cardinality({h \in 1..Len(catalog.hooks) : catalog.hooks[h].from[1] = r}) > 1
      => <<r, r>> \in catalog.warned
=============================================================================
