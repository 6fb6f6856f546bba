---------------------------- MODULE ModelRouting ----------------------------
(* kit/modelrouting: a tier name is resolved to a chain of models by time   *)
(* window, project and global table; a dispatch walks the chain past open   *)
(* breakers and the cost ceiling, and every outcome feeds the breaker and   *)
(* the outcome store, from which a later process replays the breakers.      *)
EXTENDS Integers, Sequences, FiniteSets, SequencesExt

CONSTANTS
  Configs,      \* scheduling files an operator may write
  Dispatcher,   \* concurrent dispatches (a turn and its subagents)
  Req,          \* capability requirements, as sets of capabilities
  ConsecutiveFailures, ErrorRateWindow, Cooldown,   \* the breaker's settings
  CostWindow, Ceiling, ReplayedSpend,               \* the cost ceiling's
  Slots,        \* the semaphore's capacity
  Day,          \* slots of a day
  Horizon,      \* bound of the clock
  MaxOutcomes   \* bound of the outcome store

VARIABLES cfg, now, breaker, cost, disp, profile, outcomes
vars == <<cfg, now, breaker, cost, disp, profile, outcomes>>

NoTier == <<>>
Declared == DOMAIN cfg.models

\* The first index of a set of them.
FirstOf(S) == CHOOSE i \in S : \A j \in S : i <= j

(* A binding is a primary and its fallbacks.                               *)
IsTable(tiers) == \A t \in DOMAIN tiers : tiers[t] \in Seq(STRING) \ {<<>>}
RoutingAssumption ==
  /\ ConsecutiveFailures \in Nat \ {0} /\ CostWindow \in Nat \ {0}
  /\ Horizon \in Nat /\ ReplayedSpend \subseteq Nat
  /\ \A c \in Configs :
       /\ IsTable(c.tiers) /\ IsTable(c.project)
       /\ DOMAIN c.windows = 1..Len(c.windows)
       /\ \A i \in DOMAIN c.windows : IsTable(c.windows[i].tiers)

(***************************************************************************)
(* Validate: every binding of every table names declared models, and a     *)
(* fallback has every capability of its primary.                           *)
(***************************************************************************)
CheckBinding(c, b) ==
  \A i \in DOMAIN b :
    /\ b[i] \in DOMAIN c.models
    /\ b[1] \in DOMAIN c.models => c.models[b[1]].caps \subseteq c.models[b[i]].caps

CheckTable(c, tiers) == \A t \in DOMAIN tiers : CheckBinding(c, tiers[t])
(* windowByName: the first window of that name. *)
WindowByName(c, name) == c.windows[CHOOSE i \in DOMAIN c.windows :
                           c.windows[i].name = name /\ \A j \in 1..(i - 1) : c.windows[j].name # name]
Validate(c) ==
  /\ CheckTable(c, c.tiers)
  /\ \A i \in DOMAIN c.windows : CheckTable(c, WindowByName(c, c.windows[i].name).tiers)
  /\ CheckTable(c, c.project)
  /\ \A m \in DOMAIN c.models : c.models[m].provider \in c.providers
  /\ c.degradeTo # "" => c.degradeTo \in DOMAIN c.tiers

(***************************************************************************)
(* Resolve.                                                                *)
(***************************************************************************)
(* A window whose end is not after its start runs past midnight; the day   *)
(* is the day the clock shows.                                             *)
WindowContains(w, t) ==
  LET h == t % Day IN
  /\ w.days = {} \/ (t \div Day) \in w.days
  /\ IF w.from <= w.to THEN w.from <= h /\ h < w.to ELSE w.from <= h \/ h < w.to

ActiveWindows(c, t) == {i \in DOMAIN c.windows : WindowContains(c.windows[i], t)}

ResolveBinding(c, tier, inProject, t) ==
  LET on == ActiveWindows(c, t)
      w == c.windows[FirstOf(on)]
  IN
  IF on # {} /\ tier \in DOMAIN w.tiers THEN w.tiers[tier]
  ELSE IF inProject /\ tier \in DOMAIN c.project THEN c.project[tier]
  ELSE IF tier \in DOMAIN c.tiers THEN c.tiers[tier] ELSE NoTier

Satisfies(c, m, req) == req \subseteq c.models[m].caps

(* The first candidate that has the capabilities becomes the primary.      *)
ApplyCapabilityGate(c, chain, req) ==
  LET ok == {i \in DOMAIN chain : Satisfies(c, chain[i], req)}
  IN  IF ok = {} THEN <<>> ELSE SubSeq(chain, FirstOf(ok), Len(chain))

(* buildTarget finds every model of the binding, and the model's provider. *)
Resolvable(c, b) ==
  b # NoTier /\ \A i \in DOMAIN b : b[i] \in DOMAIN c.models /\ c.models[b[i]].provider \in c.providers
Resolve(c, tier, inProject, t, req) ==
  LET b == ResolveBinding(c, tier, inProject, t) IN
  [ok |-> Resolvable(c, b), chain |-> IF Resolvable(c, b) THEN ApplyCapabilityGate(c, b, req) ELSE <<>>]

(***************************************************************************)
(* The circuit breaker.                                                    *)
(***************************************************************************)
NewCircuitBreaker == [state |-> "Closed", consecutive |-> 0, window |-> <<>>, openedAt |-> 0]

(* The ring buffer keeps the last ErrorRateWindow outcomes. *)
Push(w, v) == LET s == Append(w, v)
              IN  IF Len(s) > ErrorRateWindow THEN Tail(s) ELSE s
Failures(w) == Cardinality({i \in DOMAIN w : ~w[i]})
ErrorRateTrips(w) == Len(w) >= ErrorRateWindow /\ 2 * Failures(w) > Len(w)

Allows(b, t) == b.state # "Open" \/ t - b.openedAt >= Cooldown
AfterAllow(b, t) == IF b.state = "Open" /\ Allows(b, t) THEN [b EXCEPT !.state = "HalfOpen"] ELSE b

RecordSuccess(b) ==
  [b EXCEPT !.consecutive = 0, !.window = Push(@, TRUE),
            !.state = IF @ = "HalfOpen" THEN "Closed" ELSE @]

RecordTransient(b, t) ==
  LET n == [b EXCEPT !.consecutive = IF @ < ConsecutiveFailures THEN @ + 1 ELSE @, !.window = Push(@, FALSE)]
      trips == \/ b.state = "HalfOpen"
               \/ b.state = "Closed" /\ (n.consecutive >= ConsecutiveFailures \/ ErrorRateTrips(n.window))
  IN  IF trips THEN [n EXCEPT !.state = "Open", !.openedAt = t] ELSE n

(* ReplayBreakers: the store's records in time order through a new breaker. *)
Replayed(m) ==
  FoldLeft(LAMBDA b, r : IF r.ok THEN RecordSuccess(b) ELSE RecordTransient(b, r.at),
           NewCircuitBreaker, SelectSeq(outcomes, LAMBDA r : r.model = m))

(* FirstAllowed over the part of the chain the session's provider hosts;   *)
(* with no evidence, or none allowed, the primary stays.                   *)
SameWire(p, chain) == {i \in DOMAIN chain : cfg.models[chain[i]].provider = p}
DemoteIfDenied(p, chain) ==
  LET allowed == {i \in SameWire(p, chain) : Allows(Replayed(chain[i]), now)}
  IN  IF cfg.models[chain[1]].provider # p \/ outcomes = <<>> \/ allowed = {} THEN chain[1]
      ELSE chain[FirstOf(allowed)]

(* resolveSubagentModel: the light tier, or the parent's model ("").       *)
ResolveSubagentModel(p) ==
  LET chain == Resolve(cfg, "light", FALSE, now, {}).chain IN
  IF chain = <<>> \/ cfg.models[chain[1]].provider # p THEN "" ELSE DemoteIfDenied(p, chain)

(***************************************************************************)
(* The cost ceiling.  On the Send path no token count is known, so a       *)
(* dispatch spends nothing; what was spent comes from a replayed store.    *)
(***************************************************************************)
CostStart == [spent |-> 0, degradedSpent |-> 0, window |-> Horizon + 1, degraded |-> FALSE]
Rolled(c) ==
  IF c.window > Horizon THEN [c EXCEPT !.window = now - (now % CostWindow)]
  ELSE IF now - c.window >= CostWindow THEN [CostStart EXCEPT !.window = now - (now % CostWindow)] ELSE c
AfterCheck(c) == LET r == Rolled(c) IN IF r.spent >= Ceiling THEN [r EXCEPT !.degraded = TRUE] ELSE r
CostAction(c) ==
  LET r == AfterCheck(c)
  IN  IF ~r.degraded THEN "allow" ELSE IF r.degradedSpent >= Ceiling THEN "stop" ELSE "degrade"

(***************************************************************************)
(* Dispatch.                                                               *)
(***************************************************************************)
Idle == [at |-> "idle", tier |-> "", chain |-> <<>>, i |-> 0, req |-> {}, degraded |-> FALSE, sent |-> "",
         failed |-> {}, denied |-> {}, result |-> "none"]

Init ==
  /\ cfg \in {c \in Configs : Validate(c)}
  /\ now = 0
  /\ breaker = [m \in Declared |-> NewCircuitBreaker]
  /\ cost \in {[CostStart EXCEPT !.spent = s] : s \in ReplayedSpend}
  /\ disp = [d \in Dispatcher |-> Idle]
  /\ profile = ""
  /\ outcomes = <<>>

Become(d, rec) == disp' = [disp EXCEPT ![d] = rec]
Returns(d, r) == Become(d, [disp[d] EXCEPT !.at = "done", !.result = r])

(* Where the walk goes next: the following candidate, or the end. *)
\* Mutant: the last candidate is not tried.
WalkShort(x) == IF x.i + 1 < Len(x.chain) THEN [x EXCEPT !.i = @ + 1]
                ELSE [x EXCEPT !.at = "done", !.result = IF x.failed # {} THEN "transient" ELSE "skipped"]
Walk(x) == IF x.i < Len(x.chain) THEN [x EXCEPT !.i = @ + 1]
           ELSE [x EXCEPT !.at = "done", !.result = IF x.failed # {} THEN "transient" ELSE "skipped"]

Start(d, tier, req) ==
  /\ disp[d].at \in {"idle", "done"} /\ Len(outcomes) < MaxOutcomes
  /\ Become(d, [Idle EXCEPT !.at = "resolve", !.tier = tier, !.req = req])
  /\ UNCHANGED <<cfg, now, breaker, cost, profile, outcomes>>

ResolveChain(d) ==
  /\ disp[d].at = "resolve"
  /\ LET x == disp[d]
         r == Resolve(cfg, x.tier, TRUE, now, x.req)
     IN  IF r.chain = <<>> THEN Returns(d, IF r.ok THEN "incapable" ELSE "unresolved")
         ELSE Become(d, [x EXCEPT !.at = "walk", !.chain = r.chain, !.i = 1])
  /\ UNCHANGED <<cfg, now, breaker, cost, profile, outcomes>>

(* One candidate up to the semaphore: capability, breaker, cost. *)
Consider(d) ==
  LET x == disp[d]
      m == x.chain[x.i]
      action == CostAction(cost)
      other == cfg.degradeTo # "" /\ cfg.degradeTo # x.tier
  IN
  /\ x.at = "walk"
  /\ IF ~Satisfies(cfg, m, x.req) \/ ~Allows(breaker[m], now)
     THEN /\ Become(d, Walk([x EXCEPT !.denied = @ \cup {m}]))
          /\ UNCHANGED <<breaker, cost>>
     ELSE /\ breaker' = [breaker EXCEPT ![m] = AfterAllow(@, now)]
          /\ cost' = AfterCheck(cost)
          /\ CASE action = "stop" -> Returns(d, "exhausted")
               [] action = "degrade" /\ ~x.degraded /\ other ->
                    Become(d, [x EXCEPT !.at = "resolve", !.tier = cfg.degradeTo, !.degraded = TRUE])
               [] OTHER -> Become(d, [x EXCEPT !.at = "acquire"])
  /\ UNCHANGED <<cfg, now, profile, outcomes>>

Busy == {d \in Dispatcher : disp[d].at \in {"stamped", "call"}}

(* The semaphore, then the candidate's model is written into the profile. *)
Acquire(d) ==
  /\ disp[d].at = "acquire" /\ Cardinality(Busy) < Slots
  /\ profile' = disp[d].chain[disp[d].i]
  /\ Become(d, [disp[d] EXCEPT !.at = "stamped"])
  /\ UNCHANGED <<cfg, now, breaker, cost, outcomes>>

AcquireCancelled(d) ==
  /\ disp[d].at = "acquire"
  /\ Returns(d, "cancelled")
  /\ UNCHANGED <<cfg, now, breaker, cost, profile, outcomes>>

(* The provider reads the model out of the profile it was handed. *)
Send(d) ==
  /\ disp[d].at = "stamped"
  /\ Become(d, [disp[d] EXCEPT !.at = "call", !.sent = profile])
  /\ UNCHANGED <<cfg, now, breaker, cost, profile, outcomes>>

Record(m, ok) == Append(outcomes, [model |-> m, ok |-> ok, at |-> now])

Succeeds(d) ==
  LET m == disp[d].chain[disp[d].i] IN
  /\ disp[d].at = "call"
  /\ breaker' = [breaker EXCEPT ![m] = RecordSuccess(@)]
  /\ outcomes' = Record(m, TRUE)
  /\ Returns(d, "ok")
  /\ UNCHANGED <<cfg, now, cost, profile>>

(* Structural and exhausted errors stop the walk and feed no breaker. *)
FailsForGood(d) ==
  /\ disp[d].at = "call"
  /\ Returns(d, "structural")
  /\ UNCHANGED <<cfg, now, breaker, cost, profile, outcomes>>

FailsTransient(d) ==
  LET x == disp[d]
      m == x.chain[x.i]
  IN
  /\ x.at = "call"
  /\ breaker' = [breaker EXCEPT ![m] = RecordTransient(@, now)]
  /\ outcomes' = Record(m, FALSE)
  /\ Become(d, Walk([x EXCEPT !.at = "walk", !.failed = @ \cup {m}]))
  /\ UNCHANGED <<cfg, now, cost, profile>>

Tick ==
  /\ now < Horizon
  /\ now' = now + 1
  /\ UNCHANGED <<cfg, breaker, cost, disp, profile, outcomes>>

Next ==
  \/ \E d \in Dispatcher :
       \/ \E t \in DOMAIN cfg.tiers, r \in Req : Start(d, t, r)
       \/ ResolveChain(d) \/ Consider(d) \/ Acquire(d) \/ AcquireCancelled(d) \/ Send(d)
       \/ Succeeds(d) \/ FailsForGood(d) \/ FailsTransient(d)
  \/ Tick

Spec == Init /\ [][Next]_vars

(***************************************************************************)
(* Properties.                                                             *)
(***************************************************************************)
Breakers == [state : {"Closed", "Open", "HalfOpen"}, consecutive : 0..ConsecutiveFailures,
             window : Seq(BOOLEAN), openedAt : 0..Horizon]
Dispatches == [at : {"idle", "resolve", "walk", "acquire", "stamped", "call", "done"},
               tier : DOMAIN cfg.tiers \cup {""}, chain : Seq(Declared), i : Nat, req : Req \cup {{}},
               degraded : BOOLEAN, sent : Declared \cup {""}, failed : SUBSET Declared, denied : SUBSET Declared,
               result : {"none", "ok", "unresolved", "incapable", "exhausted", "cancelled", "structural",
                         "transient", "skipped"}]
TypeOK ==
  /\ cfg \in Configs /\ now \in 0..Horizon
  /\ breaker \in [Declared -> Breakers] /\ disp \in [Dispatcher -> Dispatches]
  /\ cost \in [spent : Nat, degradedSpent : Nat, window : Int, degraded : BOOLEAN]
  /\ profile \in Declared \cup {""}
  /\ outcomes \in Seq([model : Declared, ok : BOOLEAN, at : 0..Horizon])

(* A configuration that passed validation never fails at dispatch for a    *)
(* name it does not declare, whatever window is active and whatever tier   *)
(* the cost ceiling degrades to; and no fallback lacks a capability its    *)
(* primary has (Validate, Resolve).  Two windows of one name are excepted: *)
(* windowByName checks the first of them twice.                            *)
ValidConfigResolves ==
  (\A i, j \in DOMAIN cfg.windows : cfg.windows[i].name = cfg.windows[j].name => i = j)
    => /\ \A d \in Dispatcher : disp[d].result # "unresolved"
       /\ \A t \in DOMAIN cfg.tiers : LET b == ResolveBinding(cfg, t, TRUE, now) IN
            \A k \in DOMAIN b : cfg.models[b[1]].caps \subseteq cfg.models[b[k]].caps

(* A closed breaker has seen fewer failures in a row than trip it, and an  *)
(* open one cools down from a failure that is on record, with outcomes of  *)
(* concurrent calls arriving in any order and long after the breaker moved *)
(* (RecordTransient, RecordSuccess, Allow).                                *)
OutcomesOf(m) == {i \in DOMAIN outcomes : outcomes[i].model = m}
Trailing(m) == {k \in OutcomesOf(m) : \A j \in OutcomesOf(m) : k <= j => ~outcomes[j].ok}
BreakerReflectsOutcomes ==
  \A m \in Declared :
    /\ breaker[m].state = "Closed" => Cardinality(Trailing(m)) < ConsecutiveFailures
    /\ breaker[m].state = "Open" => \E k \in OutcomesOf(m) : ~outcomes[k].ok /\ outcomes[k].at = breaker[m].openedAt

(* A dispatch gives up only after every candidate of its chain failed in   *)
(* this dispatch or was turned away by its breaker, and it reports the     *)
(* failure it met (Dispatch).                                              *)
NoCandidateForgotten ==
  \A d \in Dispatcher : disp[d].result \in {"transient", "skipped"} =>
    \A k \in DOMAIN disp[d].chain :
      disp[d].chain[k] \in disp[d].failed \cup disp[d].denied

(* The model a subagent is given runs on the provider its session speaks   *)
(* to, whatever the replayed breakers deny (resolveSubagentModel,          *)
(* demoteIfDeniedLocked).                                                  *)
NoWrongWire ==
  \A p \in cfg.providers :
    LET m == ResolveSubagentModel(p) IN m = "" \/ cfg.models[m].provider = p

(* The model the provider is sent is the candidate the dispatch chose: the *)
(* model is stamped onto a copy of the caller's profile (Dispatch).        *)
(* Refuted: the copy is of the pointer (dispatch.go:248), so concurrent    *)
(* dispatches overwrite each other's model.                                *)
StampedOnACopy ==
  \A d \in Dispatcher : disp[d].at = "call" => disp[d].sent = disp[d].chain[disp[d].i]

(* A process that replays the outcome store lets through what the process  *)
(* that wrote it would have (ReplayBreakers mirrors the outcome-learning   *)
(* points of Dispatch).                                                    *)
(* Refuted: a replay makes no Allow calls, so it never reaches half-open,  *)
(* and a failed probe does not reopen its breaker.                         *)
ReplayMatchesLive ==
  (\A d \in Dispatcher : disp[d].at \in {"idle", "done"})
    => \A m \in Declared : Allows(Replayed(m), now) = Allows(breaker[m], now)
=============================================================================
