-------------------------- MODULE SessionTurnProofs --------------------------
(***************************************************************************)
(* The turn loop and, below it, model routing, project memory and          *)
(* discovery.                                                              *)
(*                                                                         *)
(* The results of tool calls, for any number of turns and calls.  TurnInv  *)
(* says where a call without a result can be: not issued, on a permission  *)
(* dialog, the pending question, claimed by a timer, or lost in one of the *)
(* two ways the code loses a question; and that the first four exclude one *)
(* another, which is why reply, timer and dialog cannot resume it twice.   *)
(***************************************************************************)
EXTENDS SessionTurn, Integers, Sequences, FiniteSets, FiniteSetTheorems, SequenceTheorems,
        WellFoundedInduction, TLAPS

\* A call nobody issued has no trace.
FreshInv ==
  \A c \in Call : issued[c] = NoTurn => results[c] = 0 /\ ~Unresolved(c)

\* A call waits in one place.
PlaceInv ==
  /\ perm \cap claimed = {}
  /\ pending \notin perm \cup claimed

TurnInv == TypeOK /\ ResultOnce /\ FreshInv /\ PlaceInv /\ NoForgottenCall

-----------------------------------------------------------------------------
\* A batch gives a result to the calls that neither ask nor question; they
\* were fresh, and the others keep what they had.
LEMMA RecordedStep ==
  ASSUME NoneAreNone, TurnInv, cur # NoTurn,
         NEW batch \in SUBSET {c \in Call : issued[c] = NoTurn},
         NEW asks \in SUBSET batch, NEW questions \in SUBSET batch,
         Recorded(batch, asks, questions)
  PROVE  /\ issued' \in [Call -> Turn \cup {NoTurn}]
         /\ results' \in [Call -> Nat]
         /\ \A c \in Call \ batch : issued'[c] = issued[c] /\ results'[c] = results[c]
         /\ \A c \in batch : issued'[c] # NoTurn /\ ~Unresolved(c)
         /\ \A c \in asks \cup questions : results'[c] = 0
         /\ \A c \in batch \ (asks \cup questions) : results'[c] = 1
  BY DEF TurnInv, TypeOK, FreshInv, Recorded

\* A prompt starts a turn.
LEMMA PromptStep ==
  ASSUME NoneAreNone, TurnInv, NEW t \in Turn, Prompt(t)
  PROVE  TurnInv'
  BY DEF TurnInv, TypeOK, ResultOnce, FreshInv, PlaceInv, NoForgottenCall, Unresolved,
         Prompt, broker, history

\* The turn returns; what it suspended on is settled later.
LEMMA TurnEndsStep ==
  ASSUME NoneAreNone, TurnInv, TurnEnds
  PROVE  TurnInv'
  BY DEF TurnInv, TypeOK, ResultOnce, FreshInv, PlaceInv, NoForgottenCall, Unresolved,
         TurnEnds, Return, Settles, broker, history

\* The three outcomes of a response with tool calls.
LEMMA AsksPermissionStep ==
  ASSUME NoneAreNone, TurnInv, cur # NoTurn, started' = started,
         NEW batch \in SUBSET {c \in Call : issued[c] = NoTurn}, AsksPermission(batch)
  PROVE  TurnInv'
<1>1. PICK asks \in SUBSET batch, questions \in SUBSET batch :
        /\ asks \cap questions = {}
        /\ Recorded(batch, asks, questions)
        /\ perm' = perm \cup asks
        /\ dropped' = dropped \cup questions
        /\ Return
        /\ UNCHANGED <<broker, dialog, replaced>>
  BY DEF AsksPermission, Enqueued
<1>r. /\ issued' \in [Call -> Turn \cup {NoTurn}]
      /\ results' \in [Call -> Nat]
      /\ \A c \in Call \ batch : issued'[c] = issued[c] /\ results'[c] = results[c]
      /\ \A c \in batch : c \in Call /\ issued'[c] # NoTurn /\ ~Unresolved(c)
      /\ \A c \in (asks \cup questions) : results'[c] = 0
      /\ \A c \in batch \ (asks \cup questions) : results'[c] = 1
  BY <1>1, RecordedStep
<1> USE <1>1, <1>r DEF TurnInv
<1>2. TypeOK'
  BY DEF TypeOK, Return, Settles, broker
<1>3. \A c \in Call : Unresolved(c)' <=> Unresolved(c) \/ c \in asks
  BY DEF Unresolved, broker
<1>4. ResultOnce'
  BY <1>3 DEF ResultOnce
<1>5. FreshInv'
  BY <1>3 DEF FreshInv
<1>6. PlaceInv'
  BY DEF PlaceInv, TypeOK, Unresolved, broker
<1>7. NoForgottenCall'
  BY <1>3 DEF NoForgottenCall
<1> QED
  BY <1>2, <1>4, <1>5, <1>6, <1>7

\* The turn suspends on a question.
LEMMA AsksQuestionStep ==
  ASSUME NoneAreNone, TurnInv, cur # NoTurn, started' = started,
         NEW batch \in SUBSET {c \in Call : issued[c] = NoTurn}, AsksQuestion(batch)
  PROVE  TurnInv'
<1>0. PICK questions \in SUBSET batch : \E q \in questions :
        /\ Recorded(batch, {}, questions)
        /\ Surfaces(q)
        /\ dropped' = dropped \cup (questions \ {q})
        /\ Return
        /\ UNCHANGED <<perm, firing, claimed>>
  BY DEF AsksQuestion
<1>1. PICK q \in questions :
        /\ Recorded(batch, {}, questions)
        /\ Surfaces(q)
        /\ dropped' = dropped \cup (questions \ {q})
        /\ Return
        /\ UNCHANGED <<perm, firing, claimed>>
  BY <1>0
<1>r. /\ issued' \in [Call -> Turn \cup {NoTurn}]
      /\ results' \in [Call -> Nat]
      /\ \A c \in Call \ batch : issued'[c] = issued[c] /\ results'[c] = results[c]
      /\ \A c \in batch : c \in Call /\ issued'[c] # NoTurn /\ ~Unresolved(c)
      /\ \A c \in questions : results'[c] = 0
      /\ \A c \in batch \ questions : results'[c] = 1
  <2>1. {} \in SUBSET batch /\ {} \cup questions = questions
    OBVIOUS
  <2>2. Recorded(batch, {}, questions)
    BY <1>1
  <2> HIDE DEF TurnInv
  <2> QED
    BY <2>1, <2>2, RecordedStep
<1> USE <1>1, <1>r DEF TurnInv
<1>2. TypeOK'
  <2>1. q \in Call /\ pending' = q /\ armed' = q /\ replaced' \subseteq Call
    BY DEF Surfaces, TypeOK
  <2>2. dialog' \in [Call -> {"none", "open", "reopened"}]
    BY <2>1 DEF Surfaces, TypeOK
  <2> QED
    BY <2>1, <2>2 DEF TypeOK, Return, Settles
<1>3. \A c \in Call : Unresolved(c)' <=> c = q \/ c \in perm \/ c \in claimed
  BY DEF Unresolved, Surfaces
<1>4. pending = NoCall \/ pending \in replaced'
  BY DEF Surfaces
<1>5. replaced \subseteq replaced'
  BY DEF Surfaces
<1>6. ResultOnce'
  BY <1>3 DEF ResultOnce, Unresolved
<1>7. FreshInv'
  BY <1>3 DEF FreshInv, Unresolved
<1>8. PlaceInv'
  BY DEF PlaceInv, TypeOK, Unresolved, Surfaces
<1>9. NoForgottenCall'
  BY <1>3, <1>4, <1>5 DEF NoForgottenCall, Unresolved, NoneAreNone
<1> QED
  BY <1>2, <1>6, <1>7, <1>8, <1>9

\* The turn runs the calls of a response.
LEMMA RunsToolsStep ==
  ASSUME NoneAreNone, TurnInv, cur # NoTurn, started' = started,
         NEW batch \in SUBSET {c \in Call : issued[c] = NoTurn}, RunsTools(batch)
  PROVE  TurnInv'
<1>r. /\ issued' \in [Call -> Turn \cup {NoTurn}]
      /\ results' \in [Call -> Nat]
      /\ \A c \in Call \ batch : issued'[c] = issued[c] /\ results'[c] = results[c]
      /\ \A c \in batch : c \in Call /\ issued'[c] # NoTurn /\ ~Unresolved(c)
      /\ \A c \in batch : results'[c] = 1
  BY RecordedStep DEF RunsTools
<1> USE <1>r DEF TurnInv, RunsTools, broker, history
<1>1. TypeOK'
  BY DEF TypeOK
<1>2. \A c \in Call : Unresolved(c)' <=> Unresolved(c)
  BY DEF Unresolved
<1>3. ResultOnce'
  BY <1>2 DEF ResultOnce
<1>4. FreshInv'
  BY <1>2 DEF FreshInv
<1>5. PlaceInv'
  BY DEF PlaceInv
<1>6. NoForgottenCall'
  BY <1>2 DEF NoForgottenCall
<1> QED
  BY <1>1, <1>3, <1>4, <1>5, <1>6

\* Whoever resumes a call takes it out of the place where it waited.
LEMMA ResumeStep ==
  ASSUME NoneAreNone, TurnInv, NEW c \in Call, Unresolved(c), Resume(c),
         UNCHANGED <<started, issued, settled, history>>,
         perm' \subseteq perm, claimed' \subseteq claimed,
         pending' \in {pending, NoCall}, armed' \in {armed, NoCall}, firing' \subseteq firing,
         dialog' \in [Call -> {"none", "open", "reopened"}],
         \A b \in Call : Unresolved(b)' <=> Unresolved(b) /\ b # c
  PROVE  TurnInv'
<1> USE DEF TurnInv, Resume, history
<1>1. issued[c] \in Turn
  BY DEF FreshInv, TypeOK
<1>2. TypeOK'
  <2>1. results[c] \in Nat
    BY DEF TypeOK
  <2>2. results' \in [Call -> Nat]
    BY <2>1 DEF TypeOK
  <2>3. pending' \in Call \cup {NoCall} /\ armed' \in Call \cup {NoCall}
    BY DEF TypeOK
  <2> QED
    BY <1>1, <2>2, <2>3 DEF TypeOK
<1>3. results[c] = 0
  BY DEF ResultOnce, TypeOK
<1>4. ResultOnce'
  BY <1>3 DEF ResultOnce, TypeOK
<1>5. FreshInv'
  BY <1>1 DEF FreshInv, TypeOK, NoneAreNone
<1>6. PlaceInv'
  BY DEF PlaceInv, TypeOK, NoneAreNone
<1>7. NoForgottenCall'
  BY DEF NoForgottenCall, TypeOK
<1> QED
  BY <1>2, <1>4, <1>5, <1>6, <1>7

\* A permission answer resumes its call.
LEMMA ResumePermissionStep ==
  ASSUME NoneAreNone, TurnInv, NEW c \in Call, ResumePermission(c)
  PROVE  TurnInv'
<1>1. Unresolved(c)
  BY DEF ResumePermission, Unresolved
<1>2. \A b \in Call : Unresolved(b)' <=> Unresolved(b) /\ b # c
  BY DEF ResumePermission, PermissionResumed, Unresolved, TurnInv, PlaceInv, broker
<1> QED
  BY <1>1, <1>2, ResumeStep
     DEF ResumePermission, PermissionResumed, TurnInv, TypeOK, broker, history

\* A call its timer claimed gets the timed-out result.
LEMMA ResumeTimedOutStep ==
  ASSUME NoneAreNone, TurnInv, NEW c \in Call, ResumeTimedOut(c)
  PROVE  TurnInv'
<1>1. Unresolved(c)
  BY DEF ResumeTimedOut, Unresolved
<1>2. \A b \in Call : Unresolved(b)' <=> Unresolved(b) /\ b # c
  BY DEF ResumeTimedOut, Unresolved, TurnInv, PlaceInv
<1> QED
  BY <1>1, <1>2, ResumeStep DEF ResumeTimedOut, TurnInv, TypeOK, history

\* Reply and dialog claim the pending question.
LEMMA ClaimStep ==
  ASSUME NoneAreNone, TurnInv, pending # NoCall, Resume(pending), Claim,
         UNCHANGED <<started, issued, perm, firing, claimed, settled, history>>,
         dialog' \in [Call -> {"none", "open", "reopened"}]
  PROVE  TurnInv'
<1>1. pending \in Call /\ Unresolved(pending)
  BY DEF TurnInv, TypeOK, Unresolved
<1>2. \A b \in Call : Unresolved(b)' <=> Unresolved(b) /\ b # pending
  BY DEF Claim, Unresolved, TurnInv, PlaceInv, NoneAreNone
<1> QED
  BY <1>1, <1>2, ResumeStep DEF Claim

\* A question the timer claims stays unresolved.
LEMMA TimerClaimsStep ==
  ASSUME NoneAreNone, TurnInv, NEW c \in Call, TimerClaims(c)
  PROVE  TurnInv'
<1> USE DEF TurnInv, TimerClaims, Claim, ClaimedByTimer, history
<1>1. TypeOK'
  BY DEF TypeOK
<1>2. \A b \in Call : Unresolved(b)' <=> Unresolved(b)
  BY DEF Unresolved, NoneAreNone
<1>3. PlaceInv'
  BY DEF PlaceInv, TypeOK, NoneAreNone
<1> QED
  BY <1>1, <1>2, <1>3 DEF ResultOnce, FreshInv, NoForgottenCall

\* Steps that change neither the results nor the places of calls.
LEMMA QuietStep ==
  ASSUME NoneAreNone, TurnInv,
         \/ TimerFires
         \/ \E c \in Call : DialogReopens(c) \/ DialogFallsBack(c)
         \/ UNCHANGED vars
  PROVE  TurnInv'
<1>1. TypeOK'
  BY DEF TurnInv, TypeOK, TimerFires, DialogReopens, DialogFallsBack, vars, broker, history
<1>2. UNCHANGED <<issued, results, perm, pending, claimed, dropped, replaced>>
  BY DEF TimerFires, DialogReopens, DialogFallsBack, vars, broker, history
<1> QED
  BY <1>1, <1>2
     DEF TurnInv, ResultOnce, FreshInv, PlaceInv, NoForgottenCall, Unresolved

-----------------------------------------------------------------------------
\* The invariant holds initially.
LEMMA InitTurnInv == NoneAreNone /\ Init => TurnInv
  BY DEF NoneAreNone, Init, TurnInv, TypeOK, ResultOnce, FreshInv, PlaceInv,
         NoForgottenCall, Unresolved

\* Every step keeps the invariant.
LEMMA NextTurnInv == NoneAreNone /\ TurnInv /\ [Next]_vars => TurnInv'
<1> SUFFICES ASSUME NoneAreNone, TurnInv, [Next]_vars PROVE TurnInv'
  OBVIOUS
<1>1. CASE \E t \in Turn : Prompt(t)
  BY <1>1, PromptStep
<1>2. CASE Responds
  <2>1. PICK batch \in SUBSET {c \in Call : issued[c] = NoTurn} :
          AsksPermission(batch) \/ AsksQuestion(batch) \/ RunsTools(batch)
    BY <1>2 DEF Responds
  <2>2. cur # NoTurn /\ started' = started
    BY <1>2 DEF Responds
  <2> QED
    BY <2>1, <2>2, AsksPermissionStep, AsksQuestionStep, RunsToolsStep
<1>3. CASE TurnEnds
  BY <1>3, TurnEndsStep
<1>4. CASE Reply
  BY <1>4, ClaimStep DEF Reply, TurnInv, TypeOK
<1>5. ASSUME NEW c \in Call, ResumeDialog(c) PROVE TurnInv'
  BY <1>5, ClaimStep DEF ResumeDialog, TurnInv, TypeOK
<1>6. ASSUME NEW c \in Call, ResumePermission(c) \/ ResumeTimedOut(c) \/ TimerClaims(c)
      PROVE  TurnInv'
  BY <1>6, ResumePermissionStep, ResumeTimedOutStep, TimerClaimsStep
<1>7. CASE TimerFires \/ (\E c \in Call : DialogReopens(c) \/ DialogFallsBack(c))
             \/ UNCHANGED vars
  BY <1>7, QuietStep
<1> QED
  BY <1>1, <1>2, <1>3, <1>4, <1>5, <1>6, <1>7 DEF Next, Resumes

\* The invariant holds in every reachable state.
THEOREM TurnInvariance == ASSUME NoneAreNone PROVE Spec => []TurnInv
<1>1. Init => TurnInv
  BY InitTurnInv
<1>2. TurnInv /\ [Next]_vars => TurnInv'
  BY NextTurnInv
<1> QED
  BY <1>1, <1>2, PTL DEF Spec

\* A tool call gets one result, and once it has it nobody can claim or resume
\* it: for any number of calls, however reply, timer, dialogs and turns race.
THEOREM OneResult == ASSUME NoneAreNone PROVE Spec => []ResultOnce
<1>1. TurnInv => ResultOnce
  BY DEF TurnInv
<1> QED
  BY <1>1, TurnInvariance, PTL

\* An issued call has its result, can still get one, or was lost in a batch or
\* to a later question: the code loses calls in no other way.
THEOREM NothingForgotten == ASSUME NoneAreNone PROVE Spec => [](TypeOK /\ NoForgottenCall)
<1>1. TurnInv => TypeOK /\ NoForgottenCall
  BY DEF TurnInv
<1> QED
  BY <1>1, TurnInvariance, PTL

-----------------------------------------------------------------------------
(***************************************************************************)
(* Model routing, for any scheduling files, dispatches and clocks: the     *)
(* chain a dispatch walks and what it leaves behind, the model a subagent  *)
(* is given, and what the breakers know of the outcomes.                   *)
(***************************************************************************)
CONSTANTS Configs, Dispatcher, Req, ConsecutiveFailures, ErrorRateWindow, Cooldown, CostWindow,
          Ceiling, ReplayedSpend, Slots, Day, Horizon, MaxOutcomes
VARIABLES cfg, now, breaker, cost, disp, profile, outcomes

Routing == INSTANCE ModelRouting

\* The configuration is one that validated.
ConfigInv == cfg \in Configs /\ Routing!Validate(cfg)

\* A dispatch asks for a tier of the table.  The candidates behind it failed or
\* were turned away, all of its chain when it gave up.
UniqueNames ==
  \A i, j \in DOMAIN cfg.windows : cfg.windows[i].name = cfg.windows[j].name => i = j
Sound(x) ==
  /\ x.at # "idle" => x.tier \in DOMAIN cfg.tiers
  /\ x.at \in {"walk", "acquire", "stamped", "call"} =>
       /\ x.i \in 1..Len(x.chain)
       /\ \A k \in 1..(x.i - 1) : x.chain[k] \in x.failed \cup x.denied
  /\ x.at # "done" => x.result = "none"
  /\ x.result \in {"transient", "skipped"} =>
       \A k \in DOMAIN x.chain : x.chain[k] \in x.failed \cup x.denied
  /\ UniqueNames => x.result # "unresolved"
WalkInv == \A d \in Dispatcher : Sound(disp[d])

\* The failures in a row that a breaker counts, up to the number that trips
\* it, are those the store ends with.
CountsInv ==
  \A m \in Routing!Declared :
    /\ IsFiniteSet(Routing!Trailing(m))
    /\ \/ breaker[m].consecutive = Cardinality(Routing!Trailing(m))
       \/ breaker[m].consecutive = ConsecutiveFailures
    /\ breaker[m].state = "Closed" => breaker[m].consecutive < ConsecutiveFailures

RoutingInv ==
  Routing!TypeOK /\ ConfigInv /\ WalkInv /\ CountsInv /\ Routing!BreakerReflectsOutcomes

-----------------------------------------------------------------------------
\* The instance counts as FiniteSets does.
LEMMA RoutingCounts == \A S : Routing!Cardinality(S) = Cardinality(S)
  BY DEF Cardinality, Routing!Cardinality

\* A set of numbers has a smallest.
LEMMA SmallestOf ==
  ASSUME NEW S, S \subseteq Nat, S # {}
  PROVE  \E i \in S : \A j \in S : i <= j
<1>1. PICK m \in S : \A k \in S : <<k, m>> \notin OpToRel(<, Nat)
  BY WFMin, NatLessThanWellFounded, Zenon
<1>2. \A k \in S : ~(k < m)
  BY <1>1, Zenon DEF OpToRel
<1> QED
  BY <1>2

\* The first index of a set is in it.
LEMMA FirstOfMin ==
  ASSUME NEW S, S \subseteq Nat, S # {}
  PROVE  Routing!FirstOf(S) \in S
BY SmallestOf DEF Routing!FirstOf

\* What a tier resolves to is a binding of one of the tables, or none.
LEMMA BindingIsInATable ==
  ASSUME Routing!RoutingAssumption, cfg \in Configs, NEW tier, NEW inProject \in BOOLEAN, NEW t
  PROVE  LET b == Routing!ResolveBinding(cfg, tier, inProject, t)
         IN  \/ b = Routing!NoTier /\ tier \notin DOMAIN cfg.tiers
             \/ /\ b \in Seq(STRING) \ {<<>>}
                /\ \/ \E i \in DOMAIN cfg.windows :
                        tier \in DOMAIN cfg.windows[i].tiers /\ b = cfg.windows[i].tiers[tier]
                   \/ tier \in DOMAIN cfg.project /\ b = cfg.project[tier]
                   \/ tier \in DOMAIN cfg.tiers /\ b = cfg.tiers[tier]
<1> DEFINE on == Routing!ActiveWindows(cfg, t)
           first == Routing!FirstOf(on)
           b == Routing!ResolveBinding(cfg, tier, inProject, t)
<1>1. /\ Routing!IsTable(cfg.tiers) /\ Routing!IsTable(cfg.project)
      /\ DOMAIN cfg.windows = 1..Len(cfg.windows)
      /\ \A i \in DOMAIN cfg.windows : Routing!IsTable(cfg.windows[i].tiers)
  BY DEF Routing!RoutingAssumption
<1>2. on \subseteq DOMAIN cfg.windows
  BY DEF Routing!ActiveWindows
<1>3. on # {} => first \in DOMAIN cfg.windows
  <2>1. DOMAIN cfg.windows \subseteq Nat
    BY <1>1
  <2> QED
    BY <1>2, <2>1, FirstOfMin
<1>4. CASE on # {} /\ tier \in DOMAIN cfg.windows[first].tiers
  <2>1. b = cfg.windows[first].tiers[tier]
    BY <1>4 DEF Routing!ResolveBinding
  <2>2. b \in Seq(STRING) \ {<<>>}
    BY <2>1, <1>1, <1>3, <1>4 DEF Routing!IsTable
  <2> QED
    BY <2>1, <2>2, <1>3, <1>4
<1>5. CASE ~(on # {} /\ tier \in DOMAIN cfg.windows[first].tiers)
  <2>1. b = IF inProject /\ tier \in DOMAIN cfg.project THEN cfg.project[tier]
            ELSE IF tier \in DOMAIN cfg.tiers THEN cfg.tiers[tier] ELSE Routing!NoTier
    BY <1>5 DEF Routing!ResolveBinding
  <2> QED
    BY <2>1, <1>1 DEF Routing!IsTable
<1> QED
  BY <1>4, <1>5

\* A window is the first of its name if no other has it.
LEMMA WindowsAreUnique ==
  ASSUME Routing!RoutingAssumption, cfg \in Configs, UniqueNames,
         NEW i \in DOMAIN cfg.windows
  PROVE  Routing!WindowByName(cfg, cfg.windows[i].name) = cfg.windows[i]
<1> DEFINE P(k) == /\ cfg.windows[k].name = cfg.windows[i].name
                   /\ \A j \in 1..(k - 1) : cfg.windows[j].name # cfg.windows[i].name
<1>1. DOMAIN cfg.windows = 1..Len(cfg.windows)
  BY DEF Routing!RoutingAssumption
<1>2. P(i)
  BY <1>1 DEF UniqueNames
<1>3. \A k \in DOMAIN cfg.windows : P(k) => k = i
  BY DEF UniqueNames
<1>4. (CHOOSE k \in DOMAIN cfg.windows : P(k)) = i
  BY <1>2, <1>3
<1> QED
  BY <1>4 DEF Routing!WindowByName

\* With windows of different names, every binding was checked.
LEMMA BindingIsChecked ==
  ASSUME Routing!RoutingAssumption, cfg \in Configs, Routing!Validate(cfg),
         UniqueNames,
         NEW tier \in DOMAIN cfg.tiers, NEW t
  PROVE  LET b == Routing!ResolveBinding(cfg, tier, TRUE, t)
         IN  /\ Routing!Resolvable(cfg, b)
             /\ \A k \in DOMAIN b : cfg.models[b[1]].caps \subseteq cfg.models[b[k]].caps
<1> DEFINE b == Routing!ResolveBinding(cfg, tier, TRUE, t)
<1>1. /\ b \in Seq(STRING) \ {<<>>}
      /\ \/ \E i \in DOMAIN cfg.windows :
              tier \in DOMAIN cfg.windows[i].tiers /\ b = cfg.windows[i].tiers[tier]
         \/ tier \in DOMAIN cfg.project /\ b = cfg.project[tier]
         \/ tier \in DOMAIN cfg.tiers /\ b = cfg.tiers[tier]
  BY BindingIsInATable
<1>2. /\ Routing!CheckTable(cfg, cfg.tiers) /\ Routing!CheckTable(cfg, cfg.project)
      /\ \A i \in DOMAIN cfg.windows : Routing!CheckTable(cfg, cfg.windows[i].tiers)
  BY WindowsAreUnique DEF Routing!Validate
<1>3. Routing!CheckBinding(cfg, b)
  BY <1>1, <1>2 DEF Routing!CheckTable
<1>4. 1 \in DOMAIN b
  <2> HIDE DEF b
  <2>1. b \in Seq(STRING) /\ b # <<>>
    BY <1>1
  <2>2. Len(b) \in Nat \ {0}
    BY <2>1, EmptySeq
  <2>3. DOMAIN b = 1..Len(b)
    BY <2>1
  <2> QED
    BY <2>2, <2>3
<1>5. \A m \in DOMAIN cfg.models : cfg.models[m].provider \in cfg.providers
  BY DEF Routing!Validate
<1>6. /\ \A k \in DOMAIN b : b[k] \in DOMAIN cfg.models
      /\ \A k \in DOMAIN b : cfg.models[b[1]].caps \subseteq cfg.models[b[k]].caps
  BY <1>3, <1>4 DEF Routing!CheckBinding
<1> QED
  BY <1>1, <1>5, <1>6 DEF Routing!Resolvable, Routing!NoTier

\* A resolved chain is a sequence of declared models.
LEMMA ChainIsDeclared ==
  ASSUME Routing!RoutingAssumption, cfg \in Configs, NEW tier, NEW inProject \in BOOLEAN, NEW t, NEW req
  PROVE  LET chain == Routing!Resolve(cfg, tier, inProject, t, req).chain
         IN  chain \in Seq(Routing!Declared)
<1> DEFINE b == Routing!ResolveBinding(cfg, tier, inProject, t)
           ok == {i \in DOMAIN b : Routing!Satisfies(cfg, b[i], req)}
           first == Routing!FirstOf(ok)
           chain == Routing!Resolve(cfg, tier, inProject, t, req).chain
<1>1. chain = IF Routing!Resolvable(cfg, b) THEN Routing!ApplyCapabilityGate(cfg, b, req) ELSE <<>>
  BY DEF Routing!Resolve
<1>2. CASE Routing!Resolvable(cfg, b) /\ ok # {}
  <2>1. b \in Seq(STRING) /\ \A k \in DOMAIN b : b[k] \in DOMAIN cfg.models
    BY <1>2, BindingIsInATable DEF Routing!Resolvable, Routing!NoTier
  <2>2. first \in 1..Len(b)
    <3>1. ok \subseteq Nat
      BY <2>1
    <3>2. first \in ok
      BY <1>2, <3>1, FirstOfMin
    <3> QED
      BY <2>1, <3>2
  <2>3. chain = SubSeq(b, first, Len(b))
    BY <1>1, <1>2 DEF Routing!ApplyCapabilityGate
  <2> HIDE DEF b, first, chain
  <2>6. Len(b) \in Nat /\ first \in Int /\ DOMAIN b = 1..Len(b)
    BY <2>1, <2>2
  <2>4. \A k \in first..Len(b) : b[k] \in Routing!Declared
    BY <2>1, <2>2, <2>6 DEF Routing!Declared
  <2>5. chain \in Seq(Routing!Declared)
    BY <2>3, <2>4, <2>6, SubSeqProperties
  <2> QED
    BY <2>5 DEF chain
<1>3. CASE ~(Routing!Resolvable(cfg, b) /\ ok # {})
  <2>1. chain = <<>>
    BY <1>1, <1>3 DEF Routing!ApplyCapabilityGate
  <2> QED
    BY <2>1
<1> QED
  BY <1>2, <1>3


\* What the assumption says of the numbers.
LEMMA RoutingNumbers ==
  ASSUME Routing!RoutingAssumption
  PROVE  /\ ConsecutiveFailures \in Nat \ {0} /\ CostWindow \in Nat \ {0}
         /\ Horizon \in Nat /\ ReplayedSpend \subseteq Nat
BY DEF Routing!RoutingAssumption

LEMMA IdleType == Routing!Idle \in Routing!Dispatches
<1>1. <<>> \in Seq(Routing!Declared) /\ {} \in Req \cup {{}} /\ {} \in SUBSET Routing!Declared /\ 0 \in Nat
  OBVIOUS
<1> QED
  BY <1>1, SMTT(30) DEF Routing!Idle, Routing!Dispatches

LEMMA InitRouting == ASSUME Routing!RoutingAssumption, Routing!Init PROVE RoutingInv
<1>1. cfg \in Configs /\ Routing!Validate(cfg) /\ now \in 0..Horizon
  <2>1. cfg \in {c \in Configs : Routing!Validate(c)} /\ now = 0
    BY DEF Routing!Init
  <2>2. now \in 0..Horizon
    BY <2>1, RoutingNumbers
  <2>3. cfg \in Configs
    BY <2>1
  <2>4. Routing!Validate(cfg)
    BY <2>1
  <2> QED
    BY <2>2, <2>3, <2>4
<1>2. breaker = [m \in Routing!Declared |-> Routing!NewCircuitBreaker]
  BY DEF Routing!Init
<1>7. outcomes = <<>>
  BY DEF Routing!Init
<1>8. disp = [d \in Dispatcher |-> Routing!Idle]
  BY DEF Routing!Init
<1>9. profile = ""
  BY DEF Routing!Init
<1>3. \A m \in Routing!Declared : Routing!Trailing(m) = {}
  <2>1. DOMAIN outcomes = {}
    BY <1>7
  <2> QED
    BY <2>1 DEF Routing!Trailing, Routing!OutcomesOf
<1>4. Routing!TypeOK
  <2>1. breaker \in [Routing!Declared -> Routing!Breakers]
    <3>1. <<>> \in Seq(BOOLEAN) /\ 0 \in 0..ConsecutiveFailures /\ 0 \in 0..Horizon
      BY RoutingNumbers
    <3> QED
      BY <1>2, <3>1 DEF Routing!NewCircuitBreaker, Routing!Breakers
  <2>2. cost \in [spent : Nat, degradedSpent : Nat, window : Int, degraded : BOOLEAN]
    <3>1. PICK s \in ReplayedSpend : cost = [Routing!CostStart EXCEPT !.spent = s]
      BY DEF Routing!Init
    <3>2. s \in Nat /\ Horizon + 1 \in Int
      BY RoutingNumbers
    <3> QED
      BY <3>1, <3>2 DEF Routing!CostStart
  <2>3. disp \in [Dispatcher -> Routing!Dispatches]
    BY <1>8, IdleType
  <2>4. outcomes \in Seq([model : Routing!Declared, ok : BOOLEAN, at : 0..Horizon])
    BY <1>7
  <2>5. profile \in Routing!Declared \cup {""}
    BY <1>9
  <2> QED
    BY <1>1, <2>1, <2>2, <2>3, <2>4, <2>5 DEF Routing!TypeOK
<1>5. CountsInv /\ Routing!BreakerReflectsOutcomes
  <2>1. IsFiniteSet({}) /\ Cardinality({}) = 0
    BY FS_EmptySet
  <2>2. \A m \in Routing!Declared : breaker[m].state = "Closed" /\ breaker[m].consecutive = 0
    BY <1>2 DEF Routing!NewCircuitBreaker
  <2>3. 0 < ConsecutiveFailures
    BY RoutingNumbers
  <2>4. \A m \in Routing!Declared : IsFiniteSet(Routing!Trailing(m)) /\ Cardinality(Routing!Trailing(m)) = 0
    BY <1>3, <2>1
  <2>5. CountsInv
    BY <2>2, <2>3, <2>4 DEF CountsInv
  <2>6. Routing!BreakerReflectsOutcomes
    BY <2>2, <2>3, <2>4, RoutingCounts DEF Routing!BreakerReflectsOutcomes
  <2> QED
    BY <2>5, <2>6
<1>6. ConfigInv /\ WalkInv
  <2>1. \A d \in Dispatcher : disp[d].at = "idle" /\ disp[d].result = "none" /\ disp[d].chain = <<>>
    BY <1>8 DEF Routing!Idle
  <2> QED
    BY <1>1, <2>1 DEF ConfigInv, WalkInv, Sound
<1> QED
  BY <1>4, <1>5, <1>6 DEF RoutingInv

\* What an outcome does to the breaker of its model.
LEMMA RecordTypes ==
  ASSUME Routing!RoutingAssumption, now \in 0..Horizon,
         NEW b \in Routing!Breakers
  PROVE  /\ Routing!RecordSuccess(b) \in Routing!Breakers
         /\ Routing!RecordTransient(b, now) \in Routing!Breakers
<1>1. ConsecutiveFailures \in Nat \ {0}
  BY RoutingNumbers
<1>2. \A v \in BOOLEAN : Routing!Push(b.window, v) \in Seq(BOOLEAN)
  <2> SUFFICES ASSUME NEW v \in BOOLEAN PROVE Routing!Push(b.window, v) \in Seq(BOOLEAN)
    OBVIOUS
  <2>1. Append(b.window, v) \in Seq(BOOLEAN) /\ Append(b.window, v) # <<>>
    BY AppendProperties DEF Routing!Breakers
  <2>2. Tail(Append(b.window, v)) \in Seq(BOOLEAN)
    BY <2>1, HeadTailProperties
  <2> QED
    BY <2>1, <2>2 DEF Routing!Push
<1>3. Routing!Push(b.window, TRUE) \in Seq(BOOLEAN) /\ Routing!Push(b.window, FALSE) \in Seq(BOOLEAN)
  BY <1>2
<1>4. Routing!RecordSuccess(b) \in Routing!Breakers
  <2>1. 0 \in 0..ConsecutiveFailures
    BY <1>1
  <2>2. DEFINE w == Routing!Push(b.window, TRUE)
  <2>3. Routing!RecordSuccess(b) = [b EXCEPT !.consecutive = 0, !.window = w,
                                             !.state = IF @ = "HalfOpen" THEN "Closed" ELSE @]
    BY DEF Routing!RecordSuccess
  <2>4. w \in Seq(BOOLEAN)
    BY <1>3
  <2> HIDE DEF w
  <2> QED
    BY <2>1, <2>3, <2>4 DEF Routing!Breakers
<1>5. Routing!RecordTransient(b, now) \in Routing!Breakers
  <2>1. PICK w \in Seq(BOOLEAN) : w = Routing!Push(b.window, FALSE)
    BY <1>3
  <2>2. PICK c \in 0..ConsecutiveFailures :
          c = IF b.consecutive < ConsecutiveFailures THEN b.consecutive + 1 ELSE b.consecutive
    BY <1>1 DEF Routing!Breakers
  <2>3. DEFINE n == [b EXCEPT !.consecutive = c, !.window = w]
  <2>4. Routing!RecordTransient(b, now) = n \/ Routing!RecordTransient(b, now) = [n EXCEPT !.state = "Open", !.openedAt = now]
    BY <2>1, <2>2 DEF Routing!RecordTransient
  <2>5. n \in Routing!Breakers
    BY DEF Routing!Breakers
  <2> HIDE DEF n
  <2> QED
    BY <2>4, <2>5 DEF Routing!Breakers
<1> QED
  BY <1>4, <1>5

LEMMA RecordMoves ==
  ASSUME Routing!RoutingAssumption, now \in 0..Horizon,
         NEW b \in Routing!Breakers
  PROVE  /\ LET s == Routing!RecordSuccess(b)
            IN  /\ s.consecutive = 0 /\ s.openedAt = b.openedAt
                /\ s.state = IF b.state = "HalfOpen" THEN "Closed" ELSE b.state
         /\ LET f == Routing!RecordTransient(b, now)
            IN  /\ f.consecutive = IF b.consecutive < ConsecutiveFailures THEN b.consecutive + 1 ELSE b.consecutive
                /\ f.state = "Closed" => b.state = "Closed" /\ f.consecutive < ConsecutiveFailures
                /\ f.state = "Open" => f.openedAt = now \/ (b.state = "Open" /\ f.openedAt = b.openedAt)
<1>1. ConsecutiveFailures \in Nat \ {0}
  BY RoutingNumbers
<1>2. LET s == Routing!RecordSuccess(b)
      IN  /\ s.consecutive = 0 /\ s.openedAt = b.openedAt
          /\ s.state = IF b.state = "HalfOpen" THEN "Closed" ELSE b.state
  BY DEF Routing!RecordSuccess
<1>3. LET f == Routing!RecordTransient(b, now)
      IN  /\ f.consecutive = IF b.consecutive < ConsecutiveFailures THEN b.consecutive + 1 ELSE b.consecutive
          /\ f.state = "Closed" => b.state = "Closed" /\ f.consecutive < ConsecutiveFailures
          /\ f.state = "Open" => f.openedAt = now \/ (b.state = "Open" /\ f.openedAt = b.openedAt)
  <2>8. PICK w : w = Routing!Push(b.window, FALSE)
    OBVIOUS
  <2> DEFINE n == [b EXCEPT !.consecutive = IF @ < ConsecutiveFailures THEN @ + 1 ELSE @, !.window = w]
             f == Routing!RecordTransient(b, now)
  <2>1. PICK r \in BOOLEAN : r <=> Routing!ErrorRateTrips(n.window)
    OBVIOUS
  <2>2. /\ n.consecutive = IF b.consecutive < ConsecutiveFailures THEN b.consecutive + 1 ELSE b.consecutive
        /\ n.state = b.state /\ n.openedAt = b.openedAt
    OBVIOUS
  <2>3. f = IF \/ b.state = "HalfOpen"
               \/ b.state = "Closed" /\ (n.consecutive >= ConsecutiveFailures \/ r)
            THEN [n EXCEPT !.state = "Open", !.openedAt = now] ELSE n
    BY <2>1, <2>8 DEF Routing!RecordTransient
  <2>4. n.consecutive \in Nat
    BY <1>1, <2>2 DEF Routing!Breakers
  <2>5. CASE f = n /\ ~(b.state = "Closed" /\ n.consecutive >= ConsecutiveFailures) /\ b.state # "HalfOpen"
    <3>1. f.consecutive = n.consecutive /\ f.state = n.state /\ f.openedAt = n.openedAt
      BY <2>5
    <3>2. n.consecutive \in Nat
      BY <2>4
    <3> QED
      BY <1>1, <2>2, <2>5, <3>1, <3>2
  <2>6. CASE f = [n EXCEPT !.state = "Open", !.openedAt = now]
    <3>1. f.consecutive = n.consecutive /\ f.state = "Open" /\ f.openedAt = now
      BY <2>6 DEF Routing!Breakers
    <3> QED
      BY <2>2, <3>1
  <2> QED
    BY <2>3, <2>5, <2>6
<1> QED
  BY <1>2, <1>3

\* An outcome joins the store.
LEMMA RecordedOutcome ==
  ASSUME Routing!TypeOK, NEW m \in Routing!Declared, NEW ok \in BOOLEAN,
         outcomes' = Routing!Record(m, ok)
  PROVE  LET n == Len(outcomes) + 1
         IN  /\ outcomes' \in Seq([model : Routing!Declared, ok : BOOLEAN, at : 0..Horizon])
             /\ n \in Nat /\ n \notin DOMAIN outcomes /\ outcomes'[n] = [model |-> m, ok |-> ok, at |-> now]
             /\ Routing!OutcomesOf(m)' = Routing!OutcomesOf(m) \cup {n}
             /\ Routing!Trailing(m)' = IF ok THEN {} ELSE Routing!Trailing(m) \cup {n}
             /\ \A o : o # m => /\ Routing!OutcomesOf(o)' = Routing!OutcomesOf(o)
                                /\ Routing!Trailing(o)' = Routing!Trailing(o)
             /\ \A i \in DOMAIN outcomes : outcomes'[i] = outcomes[i]
<1> DEFINE n == Len(outcomes) + 1
           R == [model : Routing!Declared, ok : BOOLEAN, at : 0..Horizon]
           new == [model |-> m, ok |-> ok, at |-> now]
<1>1. outcomes \in Seq(R) /\ new \in R /\ outcomes' = Append(outcomes, new)
  BY DEF Routing!TypeOK, Routing!Record
<1>2. /\ outcomes' \in Seq(R) /\ Len(outcomes') = n /\ outcomes'[n] = new
      /\ \A i \in 1..Len(outcomes) : outcomes'[i] = outcomes[i]
  <2> HIDE DEF R, new
  <2> QED
    BY <1>1, AppendProperties
<1>3. n \in Nat /\ DOMAIN outcomes = 1..(n - 1) /\ DOMAIN outcomes' = 1..n
  BY <1>1, <1>2, LenProperties
<1>4. DOMAIN outcomes' = DOMAIN outcomes \cup {n} /\ n \notin DOMAIN outcomes
  BY <1>3
<1> HIDE DEF n, R
<1>5. \A o : Routing!OutcomesOf(o)' = {i \in DOMAIN outcomes \cup {n} : outcomes'[i].model = o}
  BY <1>4 DEF Routing!OutcomesOf
<1>6. Routing!OutcomesOf(m)' = Routing!OutcomesOf(m) \cup {n}
  BY <1>2, <1>3, <1>4, <1>5 DEF Routing!OutcomesOf
<1>7. \A o : o # m => Routing!OutcomesOf(o)' = Routing!OutcomesOf(o)
  BY <1>2, <1>3, <1>4, <1>5 DEF Routing!OutcomesOf
<1>8. \A o : o # m => Routing!Trailing(o)' = Routing!Trailing(o)
  BY <1>2, <1>3, <1>4, <1>7 DEF Routing!Trailing, Routing!OutcomesOf
<1>9. Routing!Trailing(m)' = IF ok THEN {} ELSE Routing!Trailing(m) \cup {n}
  <2>1. \A k \in Routing!OutcomesOf(m) \cup {n} : k <= n
    BY <1>3 DEF Routing!OutcomesOf
  <2>2. \A k \in Routing!OutcomesOf(m) : k \in Nat /\ ~(n <= k)
    BY <1>3 DEF Routing!OutcomesOf
  <2>3. CASE ok
    <3>1. n \in Routing!OutcomesOf(m)' /\ outcomes'[n].ok
      BY <1>2, <1>6, <2>3
    <3>2. \A k \in Routing!OutcomesOf(m)' : k <= n
      BY <1>6, <2>1
    <3>3. Routing!Trailing(m)' = {k \in Routing!OutcomesOf(m)' :
                                   \A j \in Routing!OutcomesOf(m)' : k <= j => ~outcomes'[j].ok}
      BY DEF Routing!Trailing
    <3> QED
      BY <2>3, <3>1, <3>2, <3>3
  <2>4. CASE ~ok
    <3>1. \A k \in Routing!OutcomesOf(m) : outcomes'[k] = outcomes[k]
      BY <1>2, <1>3 DEF Routing!OutcomesOf
    <3> QED
      BY <1>2, <1>6, <2>1, <2>2, <2>4, <3>1 DEF Routing!Trailing
  <2> QED
    BY <2>3, <2>4
<1> QED
  BY <1>1, <1>2, <1>3, <1>4, <1>6, <1>7, <1>8, <1>9 DEF n, R

\* The breaker of the model learns of it.
LEMMA OutcomeCounts ==
  ASSUME Routing!RoutingAssumption, Routing!TypeOK, CountsInv, Routing!BreakerReflectsOutcomes,
         NEW m \in Routing!Declared, NEW ok \in BOOLEAN, UNCHANGED <<cfg, now>>,
         outcomes' = Routing!Record(m, ok),
         breaker' = [breaker EXCEPT ![m] = IF ok THEN Routing!RecordSuccess(@)
                                           ELSE Routing!RecordTransient(@, now)]
  PROVE  /\ CountsInv' /\ Routing!BreakerReflectsOutcomes'
         /\ breaker' \in [Routing!Declared -> Routing!Breakers]
         /\ outcomes' \in Seq([model : Routing!Declared, ok : BOOLEAN, at : 0..Horizon])
<1> DEFINE n == Len(outcomes) + 1
<1>1. breaker \in [Routing!Declared -> Routing!Breakers] /\ now \in 0..Horizon
      /\ ConsecutiveFailures \in Nat \ {0}
  BY DEF Routing!TypeOK, Routing!RoutingAssumption, Routing!Declared
<1>2. /\ outcomes' \in Seq([model : Routing!Declared, ok : BOOLEAN, at : 0..Horizon])
      /\ n \notin DOMAIN outcomes /\ outcomes'[n] = [model |-> m, ok |-> ok, at |-> now]
      /\ Routing!OutcomesOf(m)' = Routing!OutcomesOf(m) \cup {n}
      /\ Routing!Trailing(m)' = IF ok THEN {} ELSE Routing!Trailing(m) \cup {n}
      /\ \A o : o # m => /\ Routing!OutcomesOf(o)' = Routing!OutcomesOf(o)
                         /\ Routing!Trailing(o)' = Routing!Trailing(o)
      /\ \A i \in DOMAIN outcomes : outcomes'[i] = outcomes[i]
  BY <1>1, RecordedOutcome
<1>3. /\ breaker[m] \in Routing!Breakers
      /\ breaker'[m] = IF ok THEN Routing!RecordSuccess(breaker[m]) ELSE Routing!RecordTransient(breaker[m], now)
      /\ \A o \in Routing!Declared : o # m => breaker'[o] = breaker[o]
      /\ DOMAIN breaker' = Routing!Declared
  BY <1>1
<1>4. breaker' \in [Routing!Declared -> Routing!Breakers]
  <2>1. breaker'[m] \in Routing!Breakers
    BY <1>1, <1>3, RecordTypes
  <2> QED
    BY <1>1, <2>1
<1>5. /\ ok => /\ breaker'[m].consecutive = 0 /\ breaker'[m].openedAt = breaker[m].openedAt
               /\ breaker'[m].state = IF breaker[m].state = "HalfOpen" THEN "Closed" ELSE breaker[m].state
      /\ ~ok => LET b == breaker[m]  f == breaker'[m] IN
           /\ f.consecutive = IF b.consecutive < ConsecutiveFailures THEN b.consecutive + 1 ELSE b.consecutive
           /\ f.state = "Closed" => b.state = "Closed" /\ f.consecutive < ConsecutiveFailures
           /\ f.state = "Open" => f.openedAt = now \/ (b.state = "Open" /\ f.openedAt = b.openedAt)
  BY <1>1, <1>3, RecordMoves
<1>6. Routing!Declared' = Routing!Declared
  BY DEF Routing!Declared
<1>7. /\ IsFiniteSet(Routing!Trailing(m)')
      /\ Cardinality(Routing!Trailing(m)') = IF ok THEN 0 ELSE Cardinality(Routing!Trailing(m)) + 1
      /\ Cardinality(Routing!Trailing(m)) \in Nat
  <2>1. IsFiniteSet(Routing!Trailing(m)) /\ n \notin Routing!Trailing(m)
    BY <1>2 DEF CountsInv, Routing!Trailing, Routing!OutcomesOf
  <2>2. CASE ok
    BY <1>2, <2>1, <2>2, FS_EmptySet, FS_CardinalityType
  <2>3. CASE ~ok
    <3>1. Routing!Trailing(m)' = Routing!Trailing(m) \cup {n}
      BY <1>2, <2>3
    <3> HIDE DEF n
    <3> QED
      BY <2>1, <2>3, <3>1, FS_AddElement, FS_CardinalityType
  <2> QED
    BY <2>2, <2>3
<1>8. CountsInv'
  <2>1. ASSUME NEW o \in Routing!Declared, o # m
        PROVE  /\ IsFiniteSet(Routing!Trailing(o)')
               /\ \/ breaker'[o].consecutive = Cardinality(Routing!Trailing(o)')
                  \/ breaker'[o].consecutive = ConsecutiveFailures
               /\ breaker'[o].state = "Closed" => breaker'[o].consecutive < ConsecutiveFailures
    BY <1>2, <1>3, <2>1 DEF CountsInv
  <2>2. /\ \/ breaker'[m].consecutive = Cardinality(Routing!Trailing(m)')
           \/ breaker'[m].consecutive = ConsecutiveFailures
        /\ breaker'[m].state = "Closed" => breaker'[m].consecutive < ConsecutiveFailures
    <3>1. breaker[m].consecutive \in 0..ConsecutiveFailures
      BY <1>3 DEF Routing!Breakers
    <3> QED
      BY <1>1, <1>5, <1>7, <3>1 DEF CountsInv
  <2> QED
    BY <1>6, <1>7, <2>1, <2>2 DEF CountsInv
<1>9. Routing!BreakerReflectsOutcomes'
  <2>1. ASSUME NEW o \in Routing!Declared, o # m
        PROVE  /\ breaker'[o].state = "Closed" => Cardinality(Routing!Trailing(o)') < ConsecutiveFailures
               /\ breaker'[o].state = "Open" =>
                    \E k \in Routing!OutcomesOf(o)' : ~outcomes'[k].ok /\ outcomes'[k].at = breaker'[o].openedAt
    <3>1. /\ Routing!OutcomesOf(o)' = Routing!OutcomesOf(o) /\ Routing!Trailing(o)' = Routing!Trailing(o)
          /\ breaker'[o] = breaker[o]
      BY <1>2, <1>3, <2>1
    <3>2. \A k \in Routing!OutcomesOf(o) : outcomes'[k] = outcomes[k]
      BY <1>2 DEF Routing!OutcomesOf
    <3> QED
      BY <3>1, <3>2, RoutingCounts DEF Routing!BreakerReflectsOutcomes
  <2>2. breaker'[m].state = "Closed" => Cardinality(Routing!Trailing(m)') < ConsecutiveFailures
    BY <1>1, <1>8, <1>6, <1>7 DEF CountsInv
  <2>3. ASSUME breaker'[m].state = "Open"
        PROVE  \E k \in Routing!OutcomesOf(m)' : ~outcomes'[k].ok /\ outcomes'[k].at = breaker'[m].openedAt
    <3>1. CASE ~ok /\ breaker'[m].openedAt = now
      BY <1>2, <3>1
    <3>2. CASE breaker[m].state = "Open" /\ breaker'[m].openedAt = breaker[m].openedAt
      BY <1>2, <3>2 DEF Routing!BreakerReflectsOutcomes, Routing!OutcomesOf
    <3> QED
      BY <1>5, <2>3, <3>1, <3>2
  <2>4. \A o \in Routing!Declared :
          /\ breaker'[o].state = "Closed" => Cardinality(Routing!Trailing(o)') < ConsecutiveFailures
          /\ breaker'[o].state = "Open" =>
               \E k \in Routing!OutcomesOf(o)' : ~outcomes'[k].ok /\ outcomes'[k].at = breaker'[o].openedAt
    BY <2>1, <2>2, <2>3
  <2> QED
    BY <1>6, <2>4, RoutingCounts DEF Routing!BreakerReflectsOutcomes
<1> QED
  BY <1>2, <1>4, <1>8, <1>9


-----------------------------------------------------------------------------
\* A dispatch becomes a sound one.
LEMMA BecomeKeeps ==
  ASSUME disp \in [Dispatcher -> Routing!Dispatches], WalkInv, cfg' = cfg,
         NEW d \in Dispatcher, NEW x \in Routing!Dispatches, Sound(x), Routing!Become(d, x)
  PROVE  disp' \in [Dispatcher -> Routing!Dispatches'] /\ WalkInv'
<1>1. Routing!Dispatches' = Routing!Dispatches /\ (UniqueNames' <=> UniqueNames)
  BY DEF Routing!Dispatches, Routing!Declared, UniqueNames
<1>2. disp' = [disp EXCEPT ![d] = x]
  BY DEF Routing!Become
<1>3. disp'[d] = x /\ \A e \in Dispatcher : e # d => disp'[e] = disp[e]
  BY <1>2
<1>4. disp' \in [Dispatcher -> Routing!Dispatches]
  BY <1>2
<1>5. ASSUME NEW e \in Dispatcher PROVE Sound(disp[e])'
  <2>1. e = d \/ disp'[e] = disp[e]
    BY <1>3
  <2>2. CASE e = d
    BY <1>1, <1>3, <2>2 DEF Sound
  <2>3. CASE disp'[e] = disp[e]
    BY <1>1, <2>3 DEF WalkInv, Sound
  <2> QED
    BY <2>1, <2>2, <2>3
<1> QED
  BY <1>1, <1>4, <1>5 DEF WalkInv

\* A dispatch that returns another result than a given-up walk's is sound.
LEMMA ReturnsKeeps ==
  ASSUME disp \in [Dispatcher -> Routing!Dispatches], WalkInv, cfg' = cfg,
         NEW d \in Dispatcher, disp[d].at # "idle",
         NEW result \in {"ok", "unresolved", "incapable", "exhausted", "cancelled", "structural"},
         UniqueNames => result # "unresolved", Routing!Returns(d, result)
  PROVE  disp' \in [Dispatcher -> Routing!Dispatches'] /\ WalkInv'
<1> DEFINE x == [disp[d] EXCEPT !.at = "done", !.result = result]
<1>1. x \in Routing!Dispatches
  BY DEF Routing!Dispatches
<1>2. x.at = "done" /\ x.result = result /\ x.tier = disp[d].tier
  BY DEF Routing!Dispatches
<1>3. Sound(x)
  <2>1. x.tier \in DOMAIN cfg.tiers
    BY <1>2 DEF WalkInv, Sound
  <2> HIDE DEF x
  <2> QED
    BY <1>2, <2>1 DEF Sound
<1>4. Routing!Become(d, x)
  BY DEF Routing!Returns
<1> HIDE DEF x
<1> QED
  BY <1>1, <1>3, <1>4, BecomeKeeps

\* From a candidate that failed or was turned away the walk goes on soundly.
LEMMA WalkIsSound ==
  ASSUME NEW x \in Routing!Dispatches, x.at = "walk", x.tier \in DOMAIN cfg.tiers, x.result = "none",
         x.i \in 1..Len(x.chain), \A k \in 1..x.i : x.chain[k] \in x.failed \cup x.denied
  PROVE  Routing!Walk(x) \in Routing!Dispatches /\ Sound(Routing!Walk(x))
<1>1. x.chain \in Seq(Routing!Declared) /\ Len(x.chain) \in Nat /\ x.i \in Nat
  BY LenProperties DEF Routing!Dispatches
<1>2. CASE x.i < Len(x.chain)
  <2>6. PICK j \in Nat : j = x.i + 1
    BY <1>1
  <2> DEFINE y == [x EXCEPT !.i = j]
  <2>1. Routing!Walk(x) = y
    BY <1>2, <2>6 DEF Routing!Walk
  <2>2. y \in Routing!Dispatches
    BY DEF Routing!Dispatches
  <2>3. /\ y.i = x.i + 1 /\ y.at = "walk" /\ y.tier = x.tier /\ y.result = "none" /\ y.chain = x.chain
        /\ y.failed = x.failed /\ y.denied = x.denied
    BY <2>6 DEF Routing!Dispatches
  <2> HIDE DEF y
  <2>4. y.i \in 1..Len(y.chain) /\ y.i - 1 = x.i
    BY <1>1, <1>2, <2>3
  <2>5. Sound(y)
    BY <2>3, <2>4 DEF Sound
  <2> QED
    BY <2>1, <2>2, <2>5
<1>3. CASE ~(x.i < Len(x.chain))
  <2> DEFINE r == IF x.failed # {} THEN "transient" ELSE "skipped"
             y == [x EXCEPT !.at = "done", !.result = r]
  <2>1. Routing!Walk(x) = y
    BY <1>3 DEF Routing!Walk
  <2>2. y \in Routing!Dispatches
    BY DEF Routing!Dispatches
  <2>3. /\ y.at = "done" /\ y.tier = x.tier /\ y.result = r /\ y.chain = x.chain
        /\ y.failed = x.failed /\ y.denied = x.denied
    BY DEF Routing!Dispatches
  <2>4. r # "unresolved"
    OBVIOUS
  <2> HIDE DEF y, r
  <2>5. DOMAIN y.chain = 1..x.i
    BY <1>1, <1>3, <2>3
  <2>6. Sound(y)
    BY <2>3, <2>4, <2>5 DEF Sound
  <2> QED
    BY <2>1, <2>2, <2>6
<1> QED
  BY <1>2, <1>3

\* A step that changes neither breakers nor outcomes keeps what they say.
LEMMA EvidenceKeeps ==
  ASSUME RoutingInv, UNCHANGED <<cfg, breaker, outcomes>>
  PROVE  /\ ConfigInv' /\ CountsInv' /\ Routing!BreakerReflectsOutcomes'
BY DEF RoutingInv, ConfigInv, CountsInv, Routing!BreakerReflectsOutcomes, Routing!Declared, Routing!Trailing,
       Routing!OutcomesOf, Routing!Validate

LEMMA StartKeeps ==
  ASSUME RoutingInv, NEW d \in Dispatcher, NEW t \in DOMAIN cfg.tiers, NEW req \in Req,
         Routing!Start(d, t, req)
  PROVE  RoutingInv'
<1> DEFINE x == [Routing!Idle EXCEPT !.at = "resolve", !.tier = t, !.req = req]
<1>1. UNCHANGED <<cfg, now, breaker, cost, profile, outcomes>> /\ Routing!Become(d, x)
  BY DEF Routing!Start
<1>2. x \in Routing!Dispatches
  BY IdleType DEF Routing!Dispatches
<1>3. Sound(x)
  BY DEF Sound, Routing!Idle
<1> HIDE DEF x
<1>4. disp' \in [Dispatcher -> Routing!Dispatches'] /\ WalkInv'
  BY <1>1, <1>2, <1>3, BecomeKeeps DEF RoutingInv, Routing!TypeOK
<1> QED
  BY <1>1, <1>4, EvidenceKeeps DEF RoutingInv, Routing!TypeOK, Routing!Declared, Routing!Breakers


LEMMA ResolveChainKeeps ==
  ASSUME Routing!RoutingAssumption, RoutingInv, NEW d \in Dispatcher, Routing!ResolveChain(d)
  PROVE  RoutingInv'
<1> DEFINE r == Routing!Resolve(cfg, disp[d].tier, TRUE, now, disp[d].req)
<1>1. /\ disp[d].at = "resolve" /\ UNCHANGED <<cfg, now, breaker, cost, profile, outcomes>>
      /\ IF r.chain = <<>> THEN Routing!Returns(d, IF r.ok THEN "incapable" ELSE "unresolved")
         ELSE Routing!Become(d, [disp[d] EXCEPT !.at = "walk", !.chain = r.chain, !.i = 1])
  BY DEF Routing!ResolveChain
<1>2. disp[d].tier \in DOMAIN cfg.tiers /\ disp[d] \in Routing!Dispatches /\ disp[d].result = "none"
  BY <1>1 DEF RoutingInv, Routing!TypeOK, WalkInv, Sound
<1>3. r.chain \in Seq(Routing!Declared)
  BY ChainIsDeclared DEF RoutingInv, Routing!TypeOK
<1>4. UniqueNames => r.ok = TRUE
  <2>1. r.ok = Routing!Resolvable(cfg, Routing!ResolveBinding(cfg, disp[d].tier, TRUE, now))
    BY DEF Routing!Resolve
  <2>2. UniqueNames => Routing!Resolvable(cfg, Routing!ResolveBinding(cfg, disp[d].tier, TRUE, now))
    BY <1>2, BindingIsChecked DEF RoutingInv, ConfigInv
  <2> QED
    BY <2>1, <2>2
<1> HIDE DEF r
<1>5. disp' \in [Dispatcher -> Routing!Dispatches'] /\ WalkInv'
  <2>1. CASE r.chain = <<>>
    <3>1. PICK result \in {"incapable", "unresolved"} :
            (UniqueNames => result # "unresolved") /\ Routing!Returns(d, result)
      BY <1>1, <1>4, <2>1
    <3> QED
      BY <1>1, <3>1, ReturnsKeeps DEF RoutingInv, Routing!TypeOK
  <2>2. CASE r.chain # <<>>
    <3>1. PICK c \in Seq(Routing!Declared) : c = r.chain
      BY <1>3
    <3> DEFINE x == [disp[d] EXCEPT !.at = "walk", !.chain = c, !.i = 1]
    <3>2. x \in Routing!Dispatches
      BY <1>2 DEF Routing!Dispatches
    <3>3. x.at = "walk" /\ x.chain = c /\ x.i = 1 /\ x.tier = disp[d].tier /\ x.result = "none"
      BY <1>2 DEF Routing!Dispatches
    <3>4. Routing!Become(d, x)
      BY <1>1, <2>2, <3>1
    <3> HIDE DEF x
    <3>5. 1 \in 1..Len(x.chain)
      <4>1. Len(c) \in Nat \ {0}
        BY <2>2, <3>1, EmptySeq
      <4> QED
        BY <3>3, <4>1
    <3>6. Sound(x)
      <4>1. 1..(x.i - 1) = {}
        BY <3>3
      <4> QED
        BY <1>2, <3>3, <3>5, <4>1 DEF Sound
    <3> QED
      BY <1>1, <3>2, <3>4, <3>6, BecomeKeeps DEF RoutingInv, Routing!TypeOK
  <2> QED
    BY <2>1, <2>2
<1> QED
  BY <1>1, <1>5, EvidenceKeeps DEF RoutingInv, Routing!TypeOK, Routing!Declared, Routing!Breakers

\* The types of what a step leaves alone.
LEMMA QuietTypes ==
  ASSUME RoutingInv, UNCHANGED <<cfg, now>>
  PROVE  /\ Routing!Declared' = Routing!Declared /\ cfg' \in Configs /\ now' \in 0..Horizon
         /\ Routing!Breakers' = Routing!Breakers
         /\ breaker' = breaker => breaker' \in [Routing!Declared' -> Routing!Breakers']
         /\ cost' = cost => cost' \in [spent : Nat, degradedSpent : Nat, window : Int, degraded : BOOLEAN]
         /\ profile' = profile => profile' \in Routing!Declared' \cup {""}
         /\ outcomes' = outcomes => outcomes' \in Seq([model : Routing!Declared', ok : BOOLEAN, at : 0..Horizon])
BY DEF RoutingInv, Routing!TypeOK, Routing!Declared, Routing!Breakers

\* A step of one dispatch that changes neither breakers nor outcomes.
LEMMA QuietKeeps ==
  ASSUME RoutingInv, UNCHANGED <<cfg, now, breaker, outcomes>>,
         cost' \in [spent : Nat, degradedSpent : Nat, window : Int, degraded : BOOLEAN],
         profile' \in Routing!Declared' \cup {""},
         disp' \in [Dispatcher -> Routing!Dispatches'], WalkInv'
  PROVE  RoutingInv'
BY QuietTypes, EvidenceKeeps DEF RoutingInv, Routing!TypeOK

LEMMA AcquireKeeps ==
  ASSUME RoutingInv, NEW d \in Dispatcher, Routing!Acquire(d) \/ Routing!Send(d)
  PROVE  RoutingInv'
<1> DEFINE x == disp[d]
<1>1. x \in Routing!Dispatches /\ Sound(x)
  BY DEF RoutingInv, Routing!TypeOK, WalkInv
<1>2. CASE Routing!Acquire(d)
  <2> DEFINE y == [x EXCEPT !.at = "stamped"]
  <2>1. /\ x.at = "acquire" /\ profile' = x.chain[x.i] /\ Routing!Become(d, y)
        /\ UNCHANGED <<cfg, now, breaker, cost, outcomes>>
    BY <1>2 DEF Routing!Acquire
  <2>2. y \in Routing!Dispatches
    BY <1>1 DEF Routing!Dispatches
  <2>3. /\ y.at = "stamped" /\ y.chain = x.chain /\ y.i = x.i /\ y.tier = x.tier /\ y.result = x.result
        /\ y.failed = x.failed /\ y.denied = x.denied
    BY <1>1 DEF Routing!Dispatches
  <2> HIDE DEF y
  <2>4. Sound(y)
    BY <1>1, <2>1, <2>3 DEF Sound
  <2>5. profile' \in Routing!Declared'
    <3>1. x.i \in 1..Len(x.chain) /\ x.chain \in Seq(Routing!Declared)
      BY <1>1, <2>1 DEF Sound, Routing!Dispatches
    <3>2. x.chain[x.i] \in Routing!Declared
      BY <3>1
    <3> QED
      BY <2>1, <3>2 DEF Routing!Declared
  <2>6. disp' \in [Dispatcher -> Routing!Dispatches'] /\ WalkInv'
    BY <2>1, <2>2, <2>4, BecomeKeeps DEF RoutingInv, Routing!TypeOK
  <2> QED
    BY <2>1, <2>5, <2>6, QuietTypes, QuietKeeps
<1>3. CASE Routing!Send(d)
  <2>1. PICK p \in Routing!Declared \cup {""} : p = profile
    BY DEF RoutingInv, Routing!TypeOK
  <2> DEFINE y == [x EXCEPT !.at = "call", !.sent = p]
  <2>2. x.at = "stamped" /\ Routing!Become(d, y) /\ UNCHANGED <<cfg, now, breaker, cost, profile, outcomes>>
    BY <1>3, <2>1 DEF Routing!Send
  <2>3. y \in Routing!Dispatches
    BY <1>1 DEF Routing!Dispatches
  <2>4. /\ y.at = "call" /\ y.chain = x.chain /\ y.i = x.i /\ y.tier = x.tier /\ y.result = x.result
        /\ y.failed = x.failed /\ y.denied = x.denied
    BY <1>1 DEF Routing!Dispatches
  <2> HIDE DEF y
  <2>5. Sound(y)
    BY <1>1, <2>2, <2>4 DEF Sound
  <2>6. disp' \in [Dispatcher -> Routing!Dispatches'] /\ WalkInv'
    BY <2>2, <2>3, <2>5, BecomeKeeps DEF RoutingInv, Routing!TypeOK
  <2> QED
    BY <2>2, <2>6, QuietTypes, QuietKeeps
<1> QED
  BY <1>2, <1>3

\* A call that was cancelled at the semaphore, or failed for good.
LEMMA GivesUpKeeps ==
  ASSUME RoutingInv, NEW d \in Dispatcher, Routing!AcquireCancelled(d) \/ Routing!FailsForGood(d)
  PROVE  RoutingInv'
<1>1. PICK result \in {"cancelled", "structural"} : Routing!Returns(d, result) /\ disp[d].at # "idle"
      /\ UNCHANGED <<cfg, now, breaker, cost, profile, outcomes>>
  BY DEF Routing!AcquireCancelled, Routing!FailsForGood
<1>2. disp' \in [Dispatcher -> Routing!Dispatches'] /\ WalkInv'
  BY <1>1, ReturnsKeeps DEF RoutingInv, Routing!TypeOK
<1> QED
  BY <1>1, <1>2, QuietTypes, QuietKeeps


\* Asking a breaker may only move it from open to half-open.
LEMMA AllowKeeps ==
  ASSUME RoutingInv, NEW m \in Routing!Declared, UNCHANGED <<cfg, now, outcomes>>,
         breaker' = [breaker EXCEPT ![m] = Routing!AfterAllow(@, now)]
  PROVE  /\ breaker' \in [Routing!Declared -> Routing!Breakers]
         /\ ConfigInv' /\ CountsInv' /\ Routing!BreakerReflectsOutcomes'
<1>1. breaker \in [Routing!Declared -> Routing!Breakers]
  BY DEF RoutingInv, Routing!TypeOK
<1>2. \A o \in Routing!Declared :
        breaker'[o] = breaker[o] \/ breaker'[o] = [breaker[o] EXCEPT !.state = "HalfOpen"]
  BY <1>1 DEF Routing!AfterAllow
<1>3. \A o \in Routing!Declared :
        /\ breaker'[o] \in Routing!Breakers
        /\ breaker'[o].consecutive = breaker[o].consecutive /\ breaker'[o].openedAt = breaker[o].openedAt
        /\ breaker'[o].state \in {breaker[o].state, "HalfOpen"}
  <2> SUFFICES ASSUME NEW o \in Routing!Declared
               PROVE  /\ breaker'[o] \in Routing!Breakers
                      /\ breaker'[o].consecutive = breaker[o].consecutive /\ breaker'[o].openedAt = breaker[o].openedAt
                      /\ breaker'[o].state \in {breaker[o].state, "HalfOpen"}
    OBVIOUS
  <2>1. breaker[o] \in Routing!Breakers
    BY <1>1
  <2>2. CASE breaker'[o] = breaker[o]
    BY <2>1, <2>2
  <2>3. CASE breaker'[o] = [breaker[o] EXCEPT !.state = "HalfOpen"]
    BY <2>1, <2>3 DEF Routing!Breakers
  <2> QED
    BY <1>2, <2>2, <2>3
<1>4. Routing!Declared' = Routing!Declared /\ DOMAIN breaker' = Routing!Declared
  BY <1>1 DEF Routing!Declared
<1>5. breaker' \in [Routing!Declared -> Routing!Breakers]
  BY <1>1, <1>3, <1>4
<1>6. \A o : Routing!Trailing(o)' = Routing!Trailing(o) /\ Routing!OutcomesOf(o)' = Routing!OutcomesOf(o)
  BY DEF Routing!Trailing, Routing!OutcomesOf
<1>7. CountsInv'
  BY <1>3, <1>4, <1>6 DEF RoutingInv, CountsInv
<1>8. Routing!BreakerReflectsOutcomes'
  BY <1>3, <1>4, <1>6 DEF RoutingInv, Routing!BreakerReflectsOutcomes
<1>9. ConfigInv'
  BY DEF RoutingInv, ConfigInv, Routing!Validate
<1> QED
  BY <1>5, <1>7, <1>8, <1>9

\* What a look at the cost ceiling leaves.
LEMMA CheckTypes ==
  ASSUME Routing!RoutingAssumption, now \in 0..Horizon,
         cost \in [spent : Nat, degradedSpent : Nat, window : Int, degraded : BOOLEAN]
  PROVE  Routing!AfterCheck(cost) \in [spent : Nat, degradedSpent : Nat, window : Int, degraded : BOOLEAN]
<1>1. now \in Int /\ Horizon + 1 \in Int /\ CostWindow \in Nat \ {0}
  BY RoutingNumbers
<1>2. now % CostWindow \in Int
  BY <1>1
<1>3. PICK start \in Int : start = now - (now % CostWindow)
  BY <1>1, <1>2
<1>4. Routing!Rolled(cost) \in [spent : Nat, degradedSpent : Nat, window : Int, degraded : BOOLEAN]
  BY <1>1, <1>3 DEF Routing!Rolled, Routing!CostStart
<1> QED
  BY <1>4 DEF Routing!AfterCheck

LEMMA ConsiderKeeps ==
  ASSUME Routing!RoutingAssumption, RoutingInv, NEW d \in Dispatcher, Routing!Consider(d)
  PROVE  RoutingInv'
<1> DEFINE x == disp[d]
           m == x.chain[x.i]
<1>1. /\ x \in Routing!Dispatches /\ Sound(x) /\ x.at = "walk" /\ UNCHANGED <<cfg, now, profile, outcomes>>
      /\ disp \in [Dispatcher -> Routing!Dispatches] /\ WalkInv
  BY DEF RoutingInv, Routing!TypeOK, WalkInv, Routing!Consider
<1>2. /\ x.i \in 1..Len(x.chain) /\ x.chain \in Seq(Routing!Declared) /\ x.tier \in DOMAIN cfg.tiers
      /\ x.result = "none"
  BY <1>1 DEF Sound, Routing!Dispatches
<1>3. m \in Routing!Declared
  BY <1>2
<1>4. CASE ~Routing!Satisfies(cfg, m, x.req) \/ ~Routing!Allows(breaker[m], now)
  <2> DEFINE y == [x EXCEPT !.denied = @ \cup {m}]
  <2>1. UNCHANGED <<breaker, cost>> /\ Routing!Become(d, Routing!Walk(y))
    BY <1>4 DEF Routing!Consider
  <2>2. x.denied \cup {m} \in SUBSET Routing!Declared
    BY <1>1, <1>3 DEF Routing!Dispatches
  <2>3. y \in Routing!Dispatches
    BY <1>1, <2>2 DEF Routing!Dispatches
  <2>4. /\ y.at = "walk" /\ y.chain = x.chain /\ y.i = x.i /\ y.tier = x.tier /\ y.result = "none"
        /\ y.failed = x.failed /\ y.denied = x.denied \cup {m}
    BY <1>1, <1>2 DEF Routing!Dispatches
  <2> HIDE DEF y
  <2>5. \A k \in 1..y.i : y.chain[k] \in y.failed \cup y.denied
    <3>1. \A k \in 1..(x.i - 1) : x.chain[k] \in x.failed \cup x.denied
      BY <1>1 DEF Sound
    <3>2. \A k \in 1..y.i : k \in 1..(x.i - 1) \/ k = x.i
      BY <1>2, <2>4
    <3> QED
      BY <2>4, <3>1, <3>2
  <2>6. Routing!Walk(y) \in Routing!Dispatches /\ Sound(Routing!Walk(y))
    BY <1>2, <2>3, <2>4, <2>5, WalkIsSound
  <2>7. disp' \in [Dispatcher -> Routing!Dispatches'] /\ WalkInv'
    BY <1>1, <2>1, <2>6, BecomeKeeps
  <2> QED
    BY <1>1, <2>1, <2>7, QuietTypes, QuietKeeps
<1>5. CASE ~(~Routing!Satisfies(cfg, m, x.req) \/ ~Routing!Allows(breaker[m], now))
  <2> DEFINE y == [x EXCEPT !.at = "resolve", !.tier = cfg.degradeTo, !.degraded = TRUE]
             z == [x EXCEPT !.at = "acquire"]
  <2>1. /\ breaker' = [breaker EXCEPT ![m] = Routing!AfterAllow(@, now)]
        /\ cost' = Routing!AfterCheck(cost)
        /\ \/ Routing!Returns(d, "exhausted")
           \/ cfg.degradeTo # "" /\ Routing!Become(d, y)
           \/ Routing!Become(d, z)
    BY <1>5 DEF Routing!Consider
  <2>5. disp' \in [Dispatcher -> Routing!Dispatches'] /\ WalkInv'
    <3>1. CASE Routing!Returns(d, "exhausted")
      BY <1>1, <3>1, ReturnsKeeps
    <3>2. CASE cfg.degradeTo # "" /\ Routing!Become(d, y)
      <4>1. cfg.degradeTo \in DOMAIN cfg.tiers
        BY <3>2 DEF RoutingInv, ConfigInv, Routing!Validate
      <4>2. y \in Routing!Dispatches
        BY <1>1, <4>1 DEF Routing!Dispatches
      <4>3. y.at = "resolve" /\ y.tier = cfg.degradeTo /\ y.result = "none"
        BY <1>1, <1>2 DEF Routing!Dispatches
      <4> HIDE DEF y
      <4>4. Sound(y)
        BY <4>1, <4>3 DEF Sound
      <4> QED
        BY <1>1, <3>2, <4>2, <4>4, BecomeKeeps
    <3>3. CASE Routing!Become(d, z)
      <4>1. z \in Routing!Dispatches
        BY <1>1 DEF Routing!Dispatches
      <4>2. /\ z.at = "acquire" /\ z.chain = x.chain /\ z.i = x.i /\ z.tier = x.tier /\ z.result = "none"
            /\ z.failed = x.failed /\ z.denied = x.denied
        BY <1>1, <1>2 DEF Routing!Dispatches
      <4> HIDE DEF z
      <4>3. Sound(z)
        BY <1>1, <1>2, <4>2 DEF Sound
      <4> QED
        BY <1>1, <3>3, <4>1, <4>3, BecomeKeeps
    <3> QED
      BY <2>1, <3>1, <3>2, <3>3
  <2>6. cost' \in [spent : Nat, degradedSpent : Nat, window : Int, degraded : BOOLEAN]
    BY <2>1, CheckTypes DEF RoutingInv, Routing!TypeOK
  <2>7. /\ breaker' \in [Routing!Declared -> Routing!Breakers]
        /\ ConfigInv' /\ CountsInv' /\ Routing!BreakerReflectsOutcomes'
    BY <1>1, <1>3, <2>1, AllowKeeps
  <2> QED
    BY <1>1, <2>5, <2>6, <2>7, QuietTypes DEF RoutingInv, Routing!TypeOK
<1> QED
  BY <1>4, <1>5

\* An outcome that is recorded.
LEMMA OutcomeKeeps ==
  ASSUME Routing!RoutingAssumption, RoutingInv, NEW d \in Dispatcher,
         Routing!Succeeds(d) \/ Routing!FailsTransient(d)
  PROVE  RoutingInv'
<1> DEFINE x == disp[d]
           m == x.chain[x.i]
<1>1. /\ x \in Routing!Dispatches /\ Sound(x) /\ x.at = "call" /\ UNCHANGED <<cfg, now, cost, profile>>
      /\ disp \in [Dispatcher -> Routing!Dispatches] /\ WalkInv
  BY DEF RoutingInv, Routing!TypeOK, WalkInv, Routing!Succeeds, Routing!FailsTransient
<1>2. /\ x.i \in 1..Len(x.chain) /\ x.chain \in Seq(Routing!Declared) /\ x.tier \in DOMAIN cfg.tiers
      /\ x.result = "none"
  BY <1>1 DEF Sound, Routing!Dispatches
<1>3. m \in Routing!Declared
  BY <1>2
<1>4. PICK ok \in BOOLEAN :
        /\ outcomes' = Routing!Record(m, ok)
        /\ breaker' = [breaker EXCEPT ![m] = IF ok THEN Routing!RecordSuccess(@)
                                             ELSE Routing!RecordTransient(@, now)]
  BY DEF Routing!Succeeds, Routing!FailsTransient
<1>5. disp' \in [Dispatcher -> Routing!Dispatches'] /\ WalkInv'
  <2>1. CASE Routing!Succeeds(d)
    <3>1. Routing!Returns(d, "ok")
      BY <2>1 DEF Routing!Succeeds
    <3> QED
      BY <1>1, <3>1, ReturnsKeeps
  <2>2. CASE Routing!FailsTransient(d)
    <3> DEFINE y == [x EXCEPT !.at = "walk", !.failed = @ \cup {m}]
    <3>1. Routing!Become(d, Routing!Walk(y))
      BY <2>2 DEF Routing!FailsTransient
    <3>2. x.failed \cup {m} \in SUBSET Routing!Declared
      BY <1>1, <1>3 DEF Routing!Dispatches
    <3>3. y \in Routing!Dispatches
      BY <1>1, <3>2 DEF Routing!Dispatches
    <3>4. /\ y.at = "walk" /\ y.chain = x.chain /\ y.i = x.i /\ y.tier = x.tier /\ y.result = "none"
          /\ y.failed = x.failed \cup {m} /\ y.denied = x.denied
      BY <1>1, <1>2 DEF Routing!Dispatches
    <3> HIDE DEF y
    <3>5. \A k \in 1..y.i : y.chain[k] \in y.failed \cup y.denied
      <4>1. \A k \in 1..(x.i - 1) : x.chain[k] \in x.failed \cup x.denied
        BY <1>1 DEF Sound
      <4>2. \A k \in 1..y.i : k \in 1..(x.i - 1) \/ k = x.i
        BY <1>2, <3>4
      <4> QED
        BY <3>4, <4>1, <4>2
    <3>6. Routing!Walk(y) \in Routing!Dispatches /\ Sound(Routing!Walk(y))
      BY <1>2, <3>3, <3>4, <3>5, WalkIsSound
    <3> QED
      BY <1>1, <3>1, <3>6, BecomeKeeps
  <2> QED
    BY <2>1, <2>2
<1>6. /\ CountsInv' /\ Routing!BreakerReflectsOutcomes'
      /\ breaker' \in [Routing!Declared -> Routing!Breakers]
      /\ outcomes' \in Seq([model : Routing!Declared, ok : BOOLEAN, at : 0..Horizon])
  BY <1>1, <1>3, <1>4, OutcomeCounts DEF RoutingInv
<1>7. ConfigInv'
  BY <1>1 DEF RoutingInv, ConfigInv, Routing!Validate
<1> QED
  BY <1>1, <1>5, <1>6, <1>7, QuietTypes DEF RoutingInv, Routing!TypeOK

LEMMA TickKeeps == ASSUME Routing!RoutingAssumption, RoutingInv, Routing!Tick PROVE RoutingInv'
<1>1. now' = now + 1 /\ now < Horizon /\ UNCHANGED <<cfg, breaker, cost, disp, profile, outcomes>>
  BY DEF Routing!Tick
<1>2. now' \in 0..Horizon
  <2>1. now \in 0..Horizon
    BY DEF RoutingInv, Routing!TypeOK
  <2>2. Horizon \in Nat
    BY RoutingNumbers
  <2> QED
    BY <1>1, <2>1, <2>2
<1>3. WalkInv' /\ Routing!Dispatches' = Routing!Dispatches
  BY <1>1 DEF RoutingInv, WalkInv, Sound, UniqueNames, Routing!Dispatches, Routing!Declared
<1> QED
  BY <1>1, <1>2, <1>3, EvidenceKeeps DEF RoutingInv, Routing!TypeOK, Routing!Declared, Routing!Breakers

\* RoutingInv is inductive.
THEOREM RoutingInvariance ==
  ASSUME Routing!RoutingAssumption PROVE Routing!Spec => []RoutingInv
<1>1. Routing!Init => RoutingInv
  BY InitRouting
<1>2. RoutingInv /\ [Routing!Next]_(Routing!vars) => RoutingInv'
  <2>1. ASSUME RoutingInv, Routing!Next PROVE RoutingInv'
    BY <2>1, StartKeeps, ResolveChainKeeps, ConsiderKeeps, AcquireKeeps, GivesUpKeeps, OutcomeKeeps, TickKeeps
    DEF Routing!Next
  <2>2. ASSUME RoutingInv, UNCHANGED Routing!vars PROVE RoutingInv'
    <3>1. UNCHANGED <<cfg, now, breaker, cost, disp, profile, outcomes>>
      BY <2>2 DEF Routing!vars
    <3>2. WalkInv' /\ Routing!Dispatches' = Routing!Dispatches
      BY <2>2, <3>1 DEF RoutingInv, WalkInv, Sound, UniqueNames, Routing!Dispatches, Routing!Declared
    <3> QED
      BY <2>2, <3>1, <3>2, EvidenceKeeps DEF RoutingInv, Routing!TypeOK, Routing!Declared, Routing!Breakers
  <2> QED
    BY <2>1, <2>2
<1> QED
  BY <1>1, <1>2, PTL DEF Routing!Spec

LEMMA PositionsAreNat == \A n \in Nat : \A i : i \in 1..n => i \in Nat
  OBVIOUS

\* The model of a subagent is of its session's provider.
LEMMA SubagentsWire ==
  ASSUME Routing!RoutingAssumption, Routing!TypeOK PROVE Routing!NoWrongWire
<1> SUFFICES ASSUME NEW p \in cfg.providers, Routing!ResolveSubagentModel(p) # ""
             PROVE  cfg.models[Routing!ResolveSubagentModel(p)].provider = p
  BY DEF Routing!NoWrongWire
<1> DEFINE route == Routing!Resolve(cfg, "light", FALSE, now, {}).chain
           allowed == {i \in Routing!SameWire(p, route) : Routing!Allows(Routing!Replayed(route[i]), now)}
<1>1. route # <<>> /\ cfg.models[route[1]].provider = p
      /\ Routing!ResolveSubagentModel(p) = Routing!DemoteIfDenied(p, route)
  BY DEF Routing!ResolveSubagentModel
<1>2. route \in Seq(Routing!Declared)
  BY ChainIsDeclared DEF Routing!TypeOK
<1> HIDE DEF route
<1>3. CASE Routing!DemoteIfDenied(p, route) = route[1]
  BY <1>1, <1>3
<1>4. CASE allowed # {} /\ Routing!DemoteIfDenied(p, route) = route[Routing!FirstOf(allowed)]
  <2>1. allowed \subseteq Nat
    <3>1. DOMAIN route = 1..Len(route) /\ Len(route) \in Nat
      BY <1>2, LenProperties
    <3>2. \A i \in allowed : i \in 1..Len(route)
      BY <3>1 DEF Routing!SameWire
    <3> HIDE DEF allowed
    <3> QED
      BY <3>1, <3>2, PositionsAreNat
  <2>2. Routing!FirstOf(allowed) \in allowed
    BY <1>4, <2>1, FirstOfMin
  <2> QED
    BY <1>1, <1>4, <2>2 DEF Routing!SameWire
<1> QED
  BY <1>3, <1>4 DEF Routing!DemoteIfDenied

\* A configuration that validated resolves every tier at any time to models it
\* declares, no fallback lacks a capability of its primary, and a dispatch never
\* fails for a name (ValidateWithWarnings, Resolver.Resolve).  A dispatch gives up
\* only after every candidate failed or was turned away (Dispatch), a subagent's
\* model is of its session's provider (demoteIfDeniedLocked), and the breakers
\* say what the outcome store says (CircuitBreaker).
THEOREM RoutesSoundly ==
  ASSUME Routing!RoutingAssumption
  PROVE  Routing!Spec => [](/\ Routing!TypeOK /\ Routing!ValidConfigResolves /\ Routing!NoCandidateForgotten
                            /\ Routing!NoWrongWire /\ Routing!BreakerReflectsOutcomes)
<1>1. RoutingInv => Routing!ValidConfigResolves
  <2> SUFFICES ASSUME RoutingInv, UniqueNames
               PROVE  /\ \A d \in Dispatcher : disp[d].result # "unresolved"
                      /\ \A t \in DOMAIN cfg.tiers : LET b == Routing!ResolveBinding(cfg, t, TRUE, now) IN
                           \A k \in DOMAIN b : cfg.models[b[1]].caps \subseteq cfg.models[b[k]].caps
    BY DEF Routing!ValidConfigResolves, UniqueNames
  <2>1. \A d \in Dispatcher : disp[d].result # "unresolved"
    BY DEF RoutingInv, WalkInv, Sound
  <2> QED
    BY <2>1, BindingIsChecked DEF RoutingInv, ConfigInv
<1>2. RoutingInv => Routing!NoCandidateForgotten
  BY DEF RoutingInv, WalkInv, Sound, Routing!NoCandidateForgotten
<1>3. RoutingInv => Routing!NoWrongWire
  BY SubagentsWire DEF RoutingInv
<1>4. RoutingInv => Routing!TypeOK /\ Routing!BreakerReflectsOutcomes
  BY DEF RoutingInv
<1> QED
  BY <1>1, <1>2, <1>3, <1>4, RoutingInvariance, PTL

-----------------------------------------------------------------------------
(***************************************************************************)
(* Project memory, for any number of walks and edits: what the shared read *)
(* cache and a read in progress hold is never older than the key they go   *)
(* by, and never newer than the file.                                      *)
(***************************************************************************)
CONSTANTS Walker, Touched, Big, Budget, MaxEdits
VARIABLES disk, ver, git, cache, walk, edits

Memory == INSTANCE ProjectMemory

\* The cache holds a text at least as new as its key says.
CacheSound == \A p \in Memory!Path : cache[p].key <= cache[p].content /\ cache[p].content <= ver[p]

\* Each edit makes one version.
EditsInv == \A p \in Memory!Path : ver[p] <= edits + 1

\* A text is as new as the walk it is read for.
Served(e) == e.what \in {"content", "truncated"}
Newer(x, e) == Served(e) => e.ver >= x.began[e.path]
WalkSound(x) ==
  /\ \A p \in Memory!Path : x.began[p] <= ver[p]
  /\ x.pc \in {"stat", "read", "store"} => x.todo \in Memory!Path
  /\ x.pc = "read" => x.key <= ver[x.todo]
  /\ x.pc = "store" => /\ x.key <= x.content /\ x.content <= ver[x.todo]
                       /\ x.began[x.todo] <= x.content
  /\ \A i \in DOMAIN x.out : Newer(x, x.out[i])
  /\ \A i \in DOMAIN x.after : ~Served(x.after[i])
WalksSound == \A w \in Walker : WalkSound(walk[w])

MemoryInv == Memory!TypeOK /\ CacheSound /\ EditsInv /\ WalksSound

\* A walk that is replaced by a sound one.
LEMMA WalkMoves ==
  ASSUME MemoryInv, NEW w \in Walker, NEW x \in Memory!Walks, WalkSound(x),
         walk' = [walk EXCEPT ![w] = x], UNCHANGED ver
  PROVE  walk' \in [Walker -> Memory!Walks] /\ WalksSound'
<1>1. walk' \in [Walker -> Memory!Walks]
  BY DEF MemoryInv, Memory!TypeOK
<1>2. \A v \in Walker : walk'[v] = IF v = w THEN x ELSE walk[v]
  BY DEF MemoryInv, Memory!TypeOK
<1>3. \A v \in Walker : WalkSound(walk'[v])
  BY <1>2 DEF MemoryInv, WalksSound
<1>4. WalksSound'
  BY <1>3 DEF WalksSound, WalkSound
<1> QED
  BY <1>1, <1>4

\* Concatenation keeps what holds of every entry.
LEMMA ConcatEntries ==
  ASSUME NEW s \in Seq(Memory!Entries), NEW t \in Seq(Memory!Entries)
  PROVE  /\ s \o t \in Seq(Memory!Entries)
         /\ \A i \in DOMAIN (s \o t) : (\E j \in DOMAIN s : (s \o t)[i] = s[j]) \/ (\E j \in DOMAIN t : (s \o t)[i] = t[j])
<1>1. s \o t \in Seq(Memory!Entries) /\ Len(s \o t) = Len(s) + Len(t)
  BY ConcatProperties
<1>2. /\ DOMAIN (s \o t) = 1..Len(s \o t) /\ DOMAIN s = 1..Len(s) /\ DOMAIN t = 1..Len(t)
      /\ Len(s) \in Nat /\ Len(t) \in Nat
  BY <1>1
<1>3. \A i \in 1..(Len(s) + Len(t)) : (s \o t)[i] = IF i <= Len(s) THEN s[i] ELSE t[i - Len(s)]
  BY ConcatProperties
<1>4. \A i \in 1..(Len(s) + Len(t)) : IF i <= Len(s) THEN i \in 1..Len(s) ELSE i - Len(s) \in 1..Len(t)
  BY <1>2
<1> QED
  BY <1>1, <1>2, <1>3, <1>4

\* The notes of a level: typed, and none is a text.
Notes(s) == s \in Seq(Memory!Entries) /\ \A i \in DOMAIN s : ~Served(s[i])

LEMMA EntryType ==
  ASSUME Memory!MemoryAssumption, NEW p \in Memory!Path, NEW v \in Memory!Versions,
         NEW what \in {"content", "truncated", "shadowed", "unreadable", "overBudget"}
  PROVE  Memory!Entry(p, what, v) \in Memory!Entries /\ Memory!Entry(p, what, v).what = what
BY DEF Memory!Entry, Memory!Entries, Memory!Versions

LEMMA NoNotes == Notes(<<>>)
BY DEF Notes

LEMMA OneNote ==
  ASSUME Memory!MemoryAssumption, NEW p \in Memory!Path, NEW what \in {"shadowed", "unreadable"}
  PROVE  Notes(<<Memory!Entry(p, what, 0)>>)
<1>1. 0 \in Memory!Versions
  BY DEF Memory!Versions, Memory!MemoryAssumption
<1>2. PICK e \in Memory!Entries : e = Memory!Entry(p, what, 0) /\ e.what = what
  BY <1>1, EntryType
<1>3. Notes(<<e>>)
  BY <1>2 DEF Notes, Served
<1> QED
  BY <1>2, <1>3

LEMMA TwoNotes == ASSUME NEW s, NEW t, Notes(s), Notes(t) PROVE Notes(s \o t)
<1>1. s \in Seq(Memory!Entries) /\ t \in Seq(Memory!Entries)
  BY DEF Notes
<1>2. s \o t \in Seq(Memory!Entries)
  BY <1>1, ConcatEntries
<1>3. \A i \in DOMAIN (s \o t) : ~Served((s \o t)[i])
  BY <1>1, ConcatEntries DEF Notes
<1> QED
  BY <1>2, <1>3 DEF Notes

\* What a level's probe plans.
LEMMA PlanSound ==
  ASSUME Memory!MemoryAssumption, NEW l \in Memory!Levels
  PROVE  /\ Memory!LevelMemory(l).read \in Memory!Path \cup {Memory!NoPath}
         /\ Notes(Memory!LevelMemory(l).notes)
<1> DEFINE claude == <<l, "CLAUDE">>
           agents == <<l, "AGENTS">>
           If(p, what) == IF Memory!Present(p) THEN <<Memory!Entry(p, what, 0)>> ELSE <<>>
<1>1. claude \in Memory!Path /\ agents \in Memory!Path
  BY DEF Memory!Path, Memory!Files
<1>2. Notes(If(agents, "shadowed")) /\ Notes(If(claude, "unreadable")) /\ Notes(If(agents, "unreadable"))
  BY <1>1, NoNotes, OneNote
<1>3. Notes(If(claude, "unreadable") \o If(agents, "unreadable"))
  BY <1>2, TwoNotes
<1>4. /\ Memory!LevelMemory(l).read \in {claude, agents, Memory!NoPath}
      /\ \/ Memory!LevelMemory(l).notes = If(agents, "shadowed")
         \/ Memory!LevelMemory(l).notes = If(claude, "unreadable")
         \/ Memory!LevelMemory(l).notes = If(claude, "unreadable") \o If(agents, "unreadable")
  BY DEF Memory!LevelMemory
<1> HIDE DEF claude, agents, If
<1> QED
  BY <1>1, <1>2, <1>3, <1>4

LEMMA UserPlanSound ==
  ASSUME Memory!MemoryAssumption
  PROVE  /\ Memory!UserGlobalMemory.read \in Memory!Path \cup {Memory!NoPath}
         /\ Notes(Memory!UserGlobalMemory.notes)
<1> DEFINE claude == <<"claudeUser", "CLAUDE">>
           note == IF Memory!Present(claude) /\ ~Memory!Regular(claude) THEN <<Memory!Unreadable(claude)>> ELSE <<>>
<1>1. claude \in Memory!Path /\ "assguardUser" \in Memory!Levels
  BY DEF Memory!Path, Memory!Files, Memory!Levels
<1>2. Notes(note)
  BY <1>1, NoNotes, OneNote DEF Memory!Unreadable
<1>3. \/ Memory!UserGlobalMemory = Memory!LevelMemory("assguardUser")
      \/ \E read \in {claude, Memory!NoPath} : Memory!UserGlobalMemory = [read |-> read, notes |-> note]
  BY DEF Memory!UserGlobalMemory
<1> HIDE DEF claude, note
<1> QED
  BY <1>1, <1>2, <1>3, PlanSound

\* A completed entry, followed by the notes of its level.
LEMMA EmitKeeps ==
  ASSUME Memory!MemoryAssumption, MemoryInv, NEW w \in Walker, NEW e \in Memory!Entries,
         Newer(walk[w], e), Memory!Emit(w, e), UNCHANGED ver
  PROVE  walk' \in [Walker -> Memory!Walks] /\ WalksSound'
<1> DEFINE x == walk[w]
           upto == x.out \o <<e>>
           whole == upto \o x.after
<1>1. x \in Memory!Walks /\ WalkSound(x) /\ <<e>> \in Seq(Memory!Entries)
  BY DEF MemoryInv, Memory!TypeOK, WalksSound
<1>2. x.out \in Seq(Memory!Entries) /\ x.after \in Seq(Memory!Entries) /\ 0 \in Memory!Versions
  BY <1>1 DEF Memory!Walks, Memory!Versions, Memory!MemoryAssumption
<1>3. upto \in Seq(Memory!Entries) /\ \A i \in DOMAIN upto : Newer(x, upto[i])
  <2>1. /\ upto \in Seq(Memory!Entries)
        /\ \A i \in DOMAIN upto : (\E j \in DOMAIN x.out : upto[i] = x.out[j])
                                  \/ (\E j \in DOMAIN <<e>> : upto[i] = <<e>>[j])
    BY <1>1, <1>2, ConcatEntries
  <2>2. \A j \in DOMAIN <<e>> : <<e>>[j] = e
    OBVIOUS
  <2> QED
    BY <1>1, <2>1, <2>2 DEF WalkSound
<1> HIDE DEF upto
<1>4. whole \in Seq(Memory!Entries) /\ \A i \in DOMAIN whole : Newer(x, whole[i])
  <2>1. \A i \in DOMAIN x.after : Newer(x, x.after[i])
    BY <1>1 DEF WalkSound, Newer
  <2>2. /\ whole \in Seq(Memory!Entries)
        /\ \A i \in DOMAIN whole : (\E j \in DOMAIN upto : whole[i] = upto[j])
                                   \/ (\E j \in DOMAIN x.after : whole[i] = x.after[j])
    BY <1>2, <1>3, ConcatEntries
  <2> HIDE DEF whole
  <2> QED
    BY <1>3, <2>1, <2>2
<1> DEFINE y == [x EXCEPT !.pc = "level", !.todo = Memory!NoPath, !.after = <<>>, !.key = 0, !.content = 0,
                          !.out = whole]
<1>7. walk' = [walk EXCEPT ![w] = y]
  BY <1>1 DEF Memory!Emit, upto, MemoryInv, Memory!TypeOK
<1> HIDE DEF whole
<1>5. y \in Memory!Walks
  <2>1. <<>> \in Seq(Memory!Entries) /\ Memory!NoPath \in Memory!Path \cup {Memory!NoPath}
    OBVIOUS
  <2>2. PICK none \in Seq(Memory!Entries), p \in Memory!Path \cup {Memory!NoPath}, v \in Memory!Versions,
             s \in Seq(Memory!Entries) :
          y = [x EXCEPT !.pc = "level", !.todo = p, !.after = none, !.key = v, !.content = v, !.out = s]
    BY <1>2, <1>4, <2>1
  <2> HIDE DEF y
  <2> QED
    BY <1>1, <2>2 DEF Memory!Walks
<1>6. y.pc = "level" /\ y.after = <<>> /\ y.out = whole /\ y.began = x.began
  BY <1>1 DEF Memory!Walks
<1> HIDE DEF y
<1>8. WalkSound(y)
  BY <1>1, <1>4, <1>6 DEF WalkSound, Newer
<1> QED
  BY <1>5, <1>7, <1>8, WalkMoves

LEMMA FreshType ==
  ASSUME Memory!MemoryAssumption PROVE Memory!Fresh \in Memory!Walks
<1>1. 0 \in Memory!Versions
  BY DEF Memory!MemoryAssumption, Memory!Versions
<1>2. [p \in Memory!Path |-> 0] \in [Memory!Path -> Memory!Versions]
  BY <1>1
<1>3. <<>> \in Seq(Memory!Entries) /\ <<>> \in Seq(Memory!Levels)
  OBVIOUS
<1>4. PICK s \in Seq(Memory!Entries), ls \in Seq(Memory!Levels), p \in Memory!Path \cup {Memory!NoPath},
           v \in Memory!Versions, b \in [Memory!Path -> Memory!Versions] :
        Memory!Fresh = [pc |-> "idle", levels |-> ls, todo |-> p, after |-> s, key |-> v, content |-> v,
                        out |-> s, began |-> b]
  BY <1>1, <1>2, <1>3 DEF Memory!Fresh
<1> QED
  BY <1>4 DEF Memory!Walks

LEMMA MemoryInit ==
  ASSUME Memory!MemoryAssumption, Memory!Init PROVE MemoryInv
<1>1. MaxEdits \in Nat /\ 0 \in Memory!Versions /\ 1 \in Memory!Versions
  BY DEF Memory!MemoryAssumption, Memory!Versions
<1>2. Memory!Fresh \in Memory!Walks
  BY FreshType
<1>3. Memory!TypeOK
  <2>1. /\ disk \in [Memory!Path -> Memory!State] /\ ver \in [Memory!Path -> 1..(MaxEdits + 1)]
        /\ git \subseteq {"root", "cwd"} /\ edits \in 0..MaxEdits
    BY <1>1 DEF Memory!Init
  <2>2. cache \in [Memory!Path -> [key : Memory!Versions, content : Memory!Versions]]
    BY <1>1 DEF Memory!Init
  <2>3. walk \in [Walker -> Memory!Walks]
    BY <1>2 DEF Memory!Init
  <2> QED
    BY <2>1, <2>2, <2>3 DEF Memory!TypeOK
<1>4. CacheSound /\ EditsInv
  BY DEF CacheSound, EditsInv, Memory!Init
<1>5. WalksSound
  <2>1. /\ Memory!Fresh.pc = "idle" /\ Memory!Fresh.out = <<>> /\ Memory!Fresh.after = <<>>
        /\ \A p \in Memory!Path : Memory!Fresh.began[p] = 0
    BY DEF Memory!Fresh
  <2>2. WalkSound(Memory!Fresh)
    BY <2>1 DEF WalkSound, Memory!Init
  <2> QED
    BY <2>2 DEF WalksSound, Memory!Init
<1> QED
  BY <1>3, <1>4, <1>5 DEF MemoryInv

\* An edit makes the version of one file grow.
LEMMA EditKeeps ==
  ASSUME Memory!MemoryAssumption, MemoryInv, NEW p \in Touched, NEW st \in Memory!State, Memory!Edit(p, st)
  PROVE  MemoryInv'
<1>1. /\ MaxEdits \in Nat /\ edits' = edits + 1 /\ edits < MaxEdits /\ edits \in 0..MaxEdits
      /\ UNCHANGED <<git, cache, walk>> /\ ver' = [ver EXCEPT ![p] = @ + 1]
      /\ disk' = [disk EXCEPT ![p] = st]
  BY DEF Memory!Edit, MemoryInv, Memory!TypeOK, Memory!MemoryAssumption
<1>2. ver \in [Memory!Path -> 1..(MaxEdits + 1)] /\ \A q \in Memory!Path : ver[q] <= edits + 1
  BY DEF MemoryInv, Memory!TypeOK, EditsInv
<1>3. \A q \in Memory!Path : ver'[q] = ver[q] \/ ver'[q] = ver[q] + 1
  BY <1>1, <1>2
<1>4. \A q \in Memory!Path : ver'[q] \in 1..(MaxEdits + 1) /\ ver'[q] <= edits' + 1 /\ ver[q] <= ver'[q]
  BY <1>1, <1>2, <1>3
<1>5. ver' \in [Memory!Path -> 1..(MaxEdits + 1)]
  BY <1>1, <1>2, <1>4
<1>6. disk' \in [Memory!Path -> Memory!State] /\ edits' \in 0..MaxEdits
  <2>1. disk \in [Memory!Path -> Memory!State]
    BY DEF MemoryInv, Memory!TypeOK
  <2>2. edits' \in 0..MaxEdits
    BY <1>1
  <2> QED
    BY <1>1, <2>1, <2>2
<1>7. Memory!TypeOK'
  BY <1>1, <1>5, <1>6 DEF MemoryInv, Memory!TypeOK
<1>8. CacheSound'
  <2> SUFFICES ASSUME NEW q \in Memory!Path
               PROVE  cache[q].key <= cache[q].content /\ cache[q].content <= ver'[q]
    BY <1>1 DEF CacheSound
  <2>1. cache[q].key <= cache[q].content /\ cache[q].content <= ver[q] /\ cache[q].content \in Memory!Versions
    BY DEF MemoryInv, CacheSound, Memory!TypeOK
  <2> QED
    BY <1>2, <1>4, <2>1 DEF Memory!Versions
<1>9. WalksSound'
  <2> SUFFICES ASSUME NEW w \in Walker PROVE WalkSound(walk[w])'
    BY DEF WalksSound
  <2>1. WalkSound(walk[w]) /\ walk[w] \in Memory!Walks /\ walk'[w] = walk[w]
    BY <1>1 DEF MemoryInv, WalksSound, Memory!TypeOK
  <2>2. \A q \in Memory!Path : walk[w].began[q] \in Int /\ ver[q] \in Int /\ ver'[q] \in Int
    BY <1>2, <1>4, <2>1 DEF Memory!Walks, Memory!Versions
  <2>3. \A q \in Memory!Path : walk[w].began[q] <= ver'[q]
    BY <1>4, <2>1, <2>2 DEF WalkSound
  <2>4. walk[w].key \in Int /\ walk[w].content \in Int
    BY <2>1 DEF Memory!Walks, Memory!Versions
  <2>5. walk[w].pc \in {"stat", "read", "store"} => walk[w].todo \in Memory!Path
    BY <2>1 DEF WalkSound
  <2>6. walk[w].pc = "read" => walk[w].key <= ver'[walk[w].todo]
    BY <1>4, <2>1, <2>2, <2>4, <2>5 DEF WalkSound
  <2>7. walk[w].pc = "store" => /\ walk[w].key <= walk[w].content /\ walk[w].content <= ver'[walk[w].todo]
                                /\ walk[w].began[walk[w].todo] <= walk[w].content
    BY <1>4, <2>1, <2>2, <2>4, <2>5 DEF WalkSound
  <2> QED
    BY <2>1, <2>3, <2>5, <2>6, <2>7 DEF WalkSound, Newer
<1> QED
  BY <1>4, <1>7, <1>8, <1>9 DEF MemoryInv, EditsInv

\* A step of a walk leaves the files alone, and the cache unless it stores.
LEMMA WalkStep ==
  ASSUME MemoryInv, UNCHANGED <<disk, ver, git, edits>>,
         walk' \in [Walker -> Memory!Walks], WalksSound',
         cache' \in [Memory!Path -> [key : Memory!Versions, content : Memory!Versions]], CacheSound'
  PROVE  MemoryInv'
BY DEF MemoryInv, Memory!TypeOK, EditsInv

LEMMA CacheStays ==
  ASSUME MemoryInv, UNCHANGED <<cache, ver>>
  PROVE  cache' \in [Memory!Path -> [key : Memory!Versions, content : Memory!Versions]] /\ CacheSound'
BY DEF MemoryInv, Memory!TypeOK, CacheSound

LEMMA MemoryStartKeeps ==
  ASSUME Memory!MemoryAssumption, MemoryInv, NEW w \in Walker, Memory!Start(w) PROVE MemoryInv'
<1> DEFINE ls == <<"assguardUser">> \o Memory!MemoryLevels
<1>1. walk' = [walk EXCEPT ![w] = [Memory!Fresh EXCEPT !.pc = "level", !.levels = ls, !.began = ver]]
      /\ UNCHANGED <<disk, ver, git, cache, edits>>
  BY DEF Memory!Start
<1>2. ls \in Seq(Memory!Levels)
  <2>1. <<"assguardUser">> \in Seq(Memory!Levels) /\ Memory!MemoryLevels \in Seq(Memory!Levels)
    BY DEF Memory!Levels, Memory!MemoryLevels
  <2> QED
    BY <2>1, ConcatProperties
<1>3. 0 \in Memory!Versions /\ ver \in [Memory!Path -> Memory!Versions] /\ \A p \in Memory!Path : ver[p] \in Int
  <2>1. MaxEdits \in Nat /\ ver \in [Memory!Path -> 1..(MaxEdits + 1)]
    BY DEF MemoryInv, Memory!TypeOK, Memory!MemoryAssumption
  <2> QED
    BY <2>1 DEF Memory!Versions
<1> HIDE DEF ls
<1> DEFINE x == [Memory!Fresh EXCEPT !.pc = "level", !.levels = ls, !.began = ver]
<1>5. x \in Memory!Walks
  <2>1. Memory!Fresh \in Memory!Walks
    BY FreshType
  <2> QED
    BY <1>2, <1>3, <2>1 DEF Memory!Walks
<1>6. x.pc = "level" /\ x.after = <<>> /\ x.out = <<>> /\ x.began = ver
  BY DEF Memory!Fresh
<1> HIDE DEF x
<1>7. WalkSound(x)
  BY <1>3, <1>6 DEF WalkSound
<1>8. walk' \in [Walker -> Memory!Walks] /\ WalksSound'
  BY <1>1, <1>5, <1>7, WalkMoves DEF x
<1> QED
  BY <1>1, <1>8, CacheStays, WalkStep

LEMMA ProbeKeeps ==
  ASSUME Memory!MemoryAssumption, MemoryInv, NEW w \in Walker, Memory!Probe(w) PROVE MemoryInv'
<1> DEFINE x == walk[w]
<1>1. x \in Memory!Walks /\ WalkSound(x) /\ x.levels # <<>> /\ x.pc = "level" /\ walk \in [Walker -> Memory!Walks]
  BY DEF MemoryInv, Memory!TypeOK, WalksSound, Memory!Probe
<1>2. /\ x.levels \in Seq(Memory!Levels) /\ x.out \in Seq(Memory!Entries)
      /\ \A i \in DOMAIN x.out : Newer(x, x.out[i])
  BY <1>1 DEF Memory!Walks, WalkSound
<1>3. Head(x.levels) \in Memory!Levels /\ Tail(x.levels) \in Seq(Memory!Levels)
  BY <1>1, <1>2, HeadTailProperties
<1> DEFINE plan == IF Head(x.levels) = "assguardUser" THEN Memory!UserGlobalMemory ELSE Memory!LevelMemory(Head(x.levels))
<1>4. plan.read \in Memory!Path \cup {Memory!NoPath} /\ Notes(plan.notes)
  BY <1>3, PlanSound, UserPlanSound
<1>5. PICK rest \in Seq(Memory!Levels), read \in Memory!Path \cup {Memory!NoPath}, notes \in Seq(Memory!Entries) :
        rest = Tail(x.levels) /\ read = plan.read /\ notes = plan.notes
  BY <1>3, <1>4 DEF Notes
<1>6. walk' = [walk EXCEPT ![w] = [x EXCEPT !.levels = rest,
                             !.pc = IF read = Memory!NoPath THEN "level" ELSE "stat",
                             !.todo = read,
                             !.after = IF read = Memory!NoPath THEN <<>> ELSE notes,
                             !.out = IF read = Memory!NoPath THEN x.out \o notes ELSE x.out]]
      /\ UNCHANGED <<disk, ver, git, cache, edits>>
  BY <1>1, <1>5 DEF Memory!Probe
<1>7. Notes(notes)
  BY <1>4, <1>5
<1> HIDE DEF plan
<1>8. walk' \in [Walker -> Memory!Walks] /\ WalksSound'
  <2>1. CASE read = Memory!NoPath
    <3> DEFINE whole == x.out \o notes
               y == [x EXCEPT !.levels = rest, !.pc = "level", !.todo = read, !.after = <<>>, !.out = whole]
    <3>1. walk' = [walk EXCEPT ![w] = y]
      BY <1>6, <2>1
    <3>2. whole \in Seq(Memory!Entries) /\ \A i \in DOMAIN whole : Newer(x, whole[i])
      <4>1. \A i \in DOMAIN notes : Newer(x, notes[i])
        BY <1>7 DEF Notes, Newer
      <4>2. /\ whole \in Seq(Memory!Entries)
            /\ \A i \in DOMAIN whole : (\E j \in DOMAIN x.out : whole[i] = x.out[j])
                                       \/ (\E j \in DOMAIN notes : whole[i] = notes[j])
        BY <1>2, ConcatEntries
      <4> HIDE DEF whole
      <4> QED
        BY <1>2, <4>1, <4>2
    <3> HIDE DEF whole
    <3>3. y \in Memory!Walks
      <4>1. PICK s \in Seq(Memory!Entries), none \in Seq(Memory!Entries) :
              y = [x EXCEPT !.levels = rest, !.pc = "level", !.todo = read, !.after = none, !.out = s]
        <5>1. <<>> \in Seq(Memory!Entries)
          OBVIOUS
        <5> QED
          BY <3>2, <5>1
      <4> HIDE DEF y
      <4> QED
        BY <1>1, <4>1 DEF Memory!Walks
    <3>4. y.pc = "level" /\ y.after = <<>> /\ y.out = whole /\ y.began = x.began
      BY <1>1 DEF Memory!Walks
    <3> HIDE DEF y
    <3>5. WalkSound(y)
      BY <1>1, <3>2, <3>4 DEF WalkSound, Newer
    <3> QED
      BY <1>6, <3>1, <3>3, <3>5, WalkMoves
  <2>2. CASE read # Memory!NoPath
    <3> DEFINE y == [x EXCEPT !.levels = rest, !.pc = "stat", !.todo = read, !.after = notes]
    <3>1. walk' = [walk EXCEPT ![w] = y]
      BY <1>1, <1>6, <2>2 DEF Memory!Walks
    <3>3. y \in Memory!Walks
      BY <1>1 DEF Memory!Walks
    <3>4. y.pc = "stat" /\ y.todo = read /\ y.after = notes /\ y.out = x.out /\ y.began = x.began
      BY <1>1 DEF Memory!Walks
    <3> HIDE DEF y
    <3>5. WalkSound(y)
      BY <1>1, <1>2, <1>7, <2>2, <3>4 DEF WalkSound, Newer, Notes
    <3> QED
      BY <1>6, <3>1, <3>3, <3>5, WalkMoves
  <2> QED
    BY <2>1, <2>2
<1> QED
  BY <1>6, <1>8, CacheStays, WalkStep

LEMMA StatAndLookupKeeps ==
  ASSUME Memory!MemoryAssumption, MemoryInv, NEW w \in Walker, Memory!StatAndLookup(w) PROVE MemoryInv'
<1> DEFINE x == walk[w]
           p == x.todo
<1>1. /\ x \in Memory!Walks /\ WalkSound(x) /\ x.pc = "stat" /\ walk \in [Walker -> Memory!Walks]
      /\ p \in Memory!Path /\ UNCHANGED <<disk, ver, git, cache, edits>>
  BY DEF MemoryInv, Memory!TypeOK, WalksSound, Memory!StatAndLookup, WalkSound
<1>2. /\ 0 \in Memory!Versions /\ ver[p] \in Memory!Versions /\ ver[p] \in Int
      /\ cache[p].content \in Memory!Versions /\ cache[p].content \in Int
  <2>1. MaxEdits \in Nat /\ ver[p] \in 1..(MaxEdits + 1) /\ cache[p] \in [key : Memory!Versions, content : Memory!Versions]
    BY <1>1 DEF MemoryInv, Memory!TypeOK, Memory!MemoryAssumption
  <2> QED
    BY <2>1 DEF Memory!Versions
<1>3. x.began[p] <= ver[p] /\ x.began[p] \in Int
  BY <1>1 DEF WalkSound, Memory!Walks, Memory!Versions
<1>4. walk' \in [Walker -> Memory!Walks] /\ WalksSound'
  <2>1. CASE Memory!Emit(w, Memory!Unreadable(p))
    <3>1. PICK e \in Memory!Entries : e = Memory!Unreadable(p) /\ e.what = "unreadable"
      BY <1>1, <1>2, EntryType DEF Memory!Unreadable
    <3>2. Newer(x, e)
      BY <3>1 DEF Newer, Served
    <3> QED
      BY <1>1, <2>1, <3>1, <3>2, EmitKeeps
  <2>2. CASE Memory!CacheHit(p, ver[p]) /\ Memory!Emit(w, Memory!Entry(p, "content", cache[p].content))
    <3>1. PICK e \in Memory!Entries : e = Memory!Entry(p, "content", cache[p].content)
      BY <1>1, <1>2, EntryType
    <3>2. e.path = p /\ e.ver = cache[p].content
      BY <3>1 DEF Memory!Entry
    <3>3. ver[p] <= cache[p].content
      BY <1>1, <2>2 DEF Memory!CacheHit, MemoryInv, CacheSound
    <3>4. Newer(x, e)
      BY <1>2, <1>3, <3>2, <3>3 DEF Newer
    <3> QED
      BY <1>1, <2>2, <3>1, <3>4, EmitKeeps
  <2>3. CASE walk' = [walk EXCEPT ![w] = [x EXCEPT !.pc = "read", !.key = ver[p]]]
    <3> DEFINE y == [x EXCEPT !.pc = "read", !.key = ver[p]]
    <3>1. y \in Memory!Walks
      BY <1>1, <1>2 DEF Memory!Walks
    <3>2. /\ y.pc = "read" /\ y.key = ver[p] /\ y.todo = p /\ y.out = x.out /\ y.after = x.after
          /\ y.began = x.began
      BY <1>1 DEF Memory!Walks
    <3> HIDE DEF y
    <3>3. WalkSound(y)
      BY <1>1, <1>2, <3>2 DEF WalkSound, Newer
    <3> QED
      BY <1>1, <2>3, <3>1, <3>3, WalkMoves DEF y
  <2>4. walk' = [walk EXCEPT ![w].pc = "read", ![w].key = ver[p]]
          => walk' = [walk EXCEPT ![w] = [x EXCEPT !.pc = "read", !.key = ver[p]]]
    BY <1>1
  <2> QED
    BY <2>1, <2>2, <2>3, <2>4 DEF Memory!StatAndLookup
<1> QED
  BY <1>1, <1>4, CacheStays, WalkStep

LEMMA ReadPrefixKeeps ==
  ASSUME Memory!MemoryAssumption, MemoryInv, NEW w \in Walker, Memory!ReadPrefix(w) PROVE MemoryInv'
<1> DEFINE x == walk[w]
           p == x.todo
           y == [x EXCEPT !.pc = "store", !.content = ver[p]]
<1>1. /\ x \in Memory!Walks /\ WalkSound(x) /\ x.pc = "read" /\ walk \in [Walker -> Memory!Walks]
      /\ p \in Memory!Path /\ UNCHANGED <<disk, ver, git, cache, edits>>
  BY DEF MemoryInv, Memory!TypeOK, WalksSound, Memory!ReadPrefix, WalkSound
<1>2. 0 \in Memory!Versions /\ ver[p] \in Memory!Versions /\ ver[p] \in Int
  <2>1. MaxEdits \in Nat /\ ver[p] \in 1..(MaxEdits + 1)
    BY <1>1 DEF MemoryInv, Memory!TypeOK, Memory!MemoryAssumption
  <2> QED
    BY <2>1 DEF Memory!Versions
<1>3. walk' = [walk EXCEPT ![w] = y] \/ Memory!Emit(w, Memory!Unreadable(p))
  BY <1>1 DEF Memory!ReadPrefix
<1>4. walk' \in [Walker -> Memory!Walks] /\ WalksSound'
  <2>1. CASE Memory!Emit(w, Memory!Unreadable(p))
    <3>1. PICK e \in Memory!Entries : e = Memory!Unreadable(p) /\ e.what = "unreadable"
      BY <1>1, <1>2, EntryType DEF Memory!Unreadable
    <3>2. Newer(x, e)
      BY <3>1 DEF Newer, Served
    <3> QED
      BY <1>1, <2>1, <3>1, <3>2, EmitKeeps
  <2>2. CASE walk' = [walk EXCEPT ![w] = y]
    <3>1. y \in Memory!Walks
      BY <1>1, <1>2 DEF Memory!Walks
    <3>2. /\ y.pc = "store" /\ y.key = x.key /\ y.content = ver[p] /\ y.todo = p /\ y.out = x.out
          /\ y.after = x.after /\ y.began = x.began
      BY <1>1 DEF Memory!Walks
    <3> HIDE DEF y
    <3>3. WalkSound(y)
      BY <1>1, <1>2, <3>2 DEF WalkSound, Newer
    <3> QED
      BY <1>1, <2>2, <3>1, <3>3, WalkMoves
  <2> QED
    BY <1>3, <2>1, <2>2
<1> QED
  BY <1>1, <1>4, CacheStays, WalkStep

LEMMA StoreCacheKeeps ==
  ASSUME Memory!MemoryAssumption, MemoryInv, NEW w \in Walker, Memory!StoreCache(w) PROVE MemoryInv'
<1> DEFINE x == walk[w]
           p == x.todo
<1>1. /\ x \in Memory!Walks /\ WalkSound(x) /\ x.pc = "store" /\ p \in Memory!Path
      /\ UNCHANGED <<disk, ver, git, edits>>
      /\ cache' = [cache EXCEPT ![p] = [key |-> x.key, content |-> x.content]]
      /\ Memory!Emit(w, Memory!Entry(p, "content", x.content))
  BY DEF MemoryInv, Memory!TypeOK, WalksSound, Memory!StoreCache, WalkSound
<1>2. /\ x.key \in Memory!Versions /\ x.content \in Memory!Versions
      /\ x.key <= x.content /\ x.content <= ver[p] /\ x.began[p] <= x.content
  BY <1>1 DEF WalkSound, Memory!Walks
<1>3. PICK e \in Memory!Entries : e = Memory!Entry(p, "content", x.content)
  BY <1>1, <1>2, EntryType
<1>4. e.path = p /\ e.ver = x.content
  BY <1>3 DEF Memory!Entry
<1>5. x.began[p] \in Int /\ x.content \in Int
  BY <1>1, <1>2 DEF Memory!Walks, Memory!Versions
<1>6. Newer(x, e)
  BY <1>2, <1>4, <1>5 DEF Newer
<1>7. walk' \in [Walker -> Memory!Walks] /\ WalksSound'
  BY <1>1, <1>3, <1>6, EmitKeeps
<1>8. PICK c \in [key : Memory!Versions, content : Memory!Versions] :
        c = [key |-> x.key, content |-> x.content]
  BY <1>2
<1>9. cache' \in [Memory!Path -> [key : Memory!Versions, content : Memory!Versions]]
  BY <1>1, <1>8 DEF MemoryInv, Memory!TypeOK
<1>10. CacheSound'
  <2>1. \A q \in Memory!Path : cache'[q] = IF q = p THEN [key |-> x.key, content |-> x.content] ELSE cache[q]
    BY <1>1 DEF MemoryInv, Memory!TypeOK
  <2>2. \A q \in Memory!Path : cache'[q].key <= cache'[q].content /\ cache'[q].content <= ver[q]
    BY <1>2, <2>1 DEF MemoryInv, CacheSound
  <2> QED
    BY <1>1, <2>2 DEF CacheSound
<1> QED
  BY <1>1, <1>7, <1>9, <1>10, WalkStep

\* The budget turns texts into notes and never the reverse.
LEMMA InjectionKeeps ==
  ASSUME Memory!MemoryAssumption, MemoryInv, NEW w \in Walker, Memory!MemoryInjection(w) PROVE MemoryInv'
<1> DEFINE x == walk[w]
           spent == [i \in 1..Len(x.out) |-> Memory!Spend(x.out[i], Memory!Remaining(x.out)[i - 1])]
           y == [x EXCEPT !.pc = "done", !.out = spent]
<1>1. /\ x \in Memory!Walks /\ WalkSound(x) /\ walk \in [Walker -> Memory!Walks]
      /\ UNCHANGED <<disk, ver, git, cache, edits>> /\ x.out \in Seq(Memory!Entries)
      /\ walk' = [walk EXCEPT ![w] = y]
  BY DEF MemoryInv, Memory!TypeOK, WalksSound, Memory!MemoryInjection, Memory!Walks
<1>2. Len(x.out) \in Nat /\ DOMAIN x.out = 1..Len(x.out)
  BY <1>1
<1>3. \A e \in Memory!Entries : \A left :
        /\ Memory!Spend(e, left) \in Memory!Entries
        /\ Memory!Spend(e, left).path = e.path /\ Memory!Spend(e, left).ver = e.ver
        /\ Served(Memory!Spend(e, left)) => Served(e)
  <2> SUFFICES ASSUME NEW e \in Memory!Entries, NEW left
               PROVE  LET f == Memory!Spend(e, left) IN
                      f \in Memory!Entries /\ f.path = e.path /\ f.ver = e.ver /\ (Served(f) => Served(e))
    OBVIOUS
  <2>1. PICK what \in {"content", "truncated", "shadowed", "unreadable", "overBudget"} :
          /\ Memory!Spend(e, left) = [e EXCEPT !.what = what]
          /\ what # "overBudget" => e.what = what \/ e.what = "content"
    BY DEF Memory!Spend, Memory!Entries
  <2>2. /\ [e EXCEPT !.what = what] \in Memory!Entries /\ [e EXCEPT !.what = what].path = e.path
        /\ [e EXCEPT !.what = what].ver = e.ver /\ [e EXCEPT !.what = what].what = what
    BY DEF Memory!Entries
  <2> QED
    BY <2>1, <2>2 DEF Served
<1>4. \A i \in 1..Len(x.out) : x.out[i] \in Memory!Entries /\ Newer(x, x.out[i])
  BY <1>1, <1>2 DEF WalkSound
<1>5. DOMAIN spent = 1..Len(x.out) /\ \A i \in 1..Len(x.out) : spent[i] \in Memory!Entries /\ Newer(x, spent[i])
  BY <1>3, <1>4 DEF Newer
<1> HIDE DEF spent
<1>6. spent \in Seq(Memory!Entries)
  <2>1. spent = [i \in 1..Len(x.out) |-> spent[i]]
    BY DEF spent
  <2> QED
    BY <1>2, <1>5, <2>1
<1>7. y \in Memory!Walks
  BY <1>1, <1>6 DEF Memory!Walks
<1>8. y.pc = "done" /\ y.after = x.after /\ y.out = spent /\ y.began = x.began
  BY <1>1 DEF Memory!Walks
<1> HIDE DEF y
<1>9. WalkSound(y)
  BY <1>1, <1>5, <1>8 DEF WalkSound, Newer
<1>10. walk' \in [Walker -> Memory!Walks] /\ WalksSound'
  BY <1>1, <1>7, <1>9, WalkMoves
<1> QED
  BY <1>1, <1>10, CacheStays, WalkStep

LEMMA AgainKeeps ==
  ASSUME Memory!MemoryAssumption, MemoryInv, NEW w \in Walker, Memory!Again(w) PROVE MemoryInv'
<1>1. /\ walk' = [walk EXCEPT ![w] = Memory!Fresh] /\ UNCHANGED <<disk, ver, git, cache, edits>>
      /\ Memory!Fresh \in Memory!Walks
  BY FreshType DEF Memory!Again
<1>2. /\ Memory!Fresh.pc = "idle" /\ Memory!Fresh.out = <<>> /\ Memory!Fresh.after = <<>>
      /\ \A p \in Memory!Path : Memory!Fresh.began[p] = 0
  BY DEF Memory!Fresh
<1>3. \A p \in Memory!Path : 0 <= ver[p]
  BY DEF MemoryInv, Memory!TypeOK
<1>4. WalkSound(Memory!Fresh)
  BY <1>2, <1>3 DEF WalkSound
<1>5. walk' \in [Walker -> Memory!Walks] /\ WalksSound'
  BY <1>1, <1>4, WalkMoves
<1> QED
  BY <1>1, <1>5, CacheStays, WalkStep

\* A session never gets a memory file as it was before its own walk began,
\* however walks, edits and the shared cache interleave (memCachedRead).
THEOREM MemoryIsFresh ==
  ASSUME Memory!MemoryAssumption PROVE Memory!Spec => [](Memory!TypeOK /\ Memory!NeverStaleMemory)
<1>1. Memory!Init => MemoryInv
  BY MemoryInit
<1>2. MemoryInv /\ [Memory!Next]_(Memory!vars) => MemoryInv'
  <2>1. ASSUME MemoryInv, Memory!Next PROVE MemoryInv'
    BY <2>1, EditKeeps, MemoryStartKeeps, ProbeKeeps, StatAndLookupKeeps, ReadPrefixKeeps, StoreCacheKeeps,
       InjectionKeeps, AgainKeeps DEF Memory!Next
  <2>2. ASSUME MemoryInv, UNCHANGED Memory!vars PROVE MemoryInv'
    <3>1. UNCHANGED <<disk, ver, git, cache, walk, edits>>
      BY <2>2 DEF Memory!vars
    <3>2. walk' \in [Walker -> Memory!Walks] /\ WalksSound'
      BY <2>2, <3>1 DEF MemoryInv, Memory!TypeOK, WalksSound, WalkSound, Newer
    <3> QED
      BY <2>2, <3>1, <3>2, CacheStays, WalkStep
  <2> QED
    BY <2>1, <2>2
<1>3. MemoryInv => Memory!TypeOK /\ Memory!NeverStaleMemory
  <2> SUFFICES ASSUME MemoryInv, NEW w \in Walker, NEW i \in 1..Len(walk[w].out)
               PROVE  LET e == walk[w].out[i]
                      IN e.what \in {"content", "truncated"} => e.ver >= walk[w].began[e.path]
    BY DEF MemoryInv, Memory!NeverStaleMemory
  <2>1. walk[w].out \in Seq(Memory!Entries) /\ WalkSound(walk[w])
    BY DEF MemoryInv, Memory!TypeOK, Memory!Walks, WalksSound
  <2>2. i \in DOMAIN walk[w].out
    BY <2>1
  <2> QED
    BY <2>1, <2>2 DEF WalkSound, Newer, Served
<1> QED
  BY <1>1, <1>2, <1>3, PTL DEF Memory!Spec

-----------------------------------------------------------------------------
(***************************************************************************)
(* Discovery, for any kinds and files: what the pairwise merges of a load  *)
(* leave for a name.  (edits and MaxEdits are project memory's names.)     *)
(***************************************************************************)
CONSTANTS Kind, Shape, PluginKeys, Installs, Session
VARIABLES tree, unreadable, installed, form, settings, userMCP, catalog, runner

Catalog == INSTANCE Ecosystem

\* A name is answered by the first of the roots that provide it.
LEMMA LoadAnswers ==
  ASSUME NEW k \in Kind
  PROVE  LET has(r) == Catalog!Provides(r, k) IN
         Catalog!LoadAll.reg[k] = IF has("claudeProject") THEN "claudeProject"
                                  ELSE IF has("claudeUser") THEN "claudeUser"
                                  ELSE IF has("assguardProject") THEN "assguardProject"
                                  ELSE IF has("assguardUser") THEN "assguardUser"
                                  ELSE IF has("pluginsProject") THEN "pluginsProject"
                                  ELSE IF has("pluginsUser") THEN "pluginsUser" ELSE Catalog!NoRoot
<1> DEFINE has(r) == Catalog!Provides(r, k)
           from(r) == IF has(r) THEN r ELSE Catalog!NoRoot
           merge(b, o) == IF o # Catalog!NoRoot THEN o ELSE b
<1>1. \A r \in Catalog!TreeRoots : Catalog!LoadTree(r)[k] = from(r)
  BY DEF Catalog!LoadTree, Catalog!Provides
<1>2. \A r \in Catalog!PluginRoots : Catalog!PluginRegistry(r)[k] = from(r)
  BY DEF Catalog!PluginRegistry, Catalog!Provides, Catalog!PluginRoots, Catalog!TreeRoots
<1>3. \A b, o : Catalog!MergeRegistries(b, o)[k] = merge(b[k], o[k])
  BY DEF Catalog!MergeRegistries
<1>4. Catalog!LoadAll.reg[k] =
        merge(merge(from("pluginsUser"), from("pluginsProject")),
              merge(merge(from("assguardUser"), from("assguardProject")),
                    merge(from("claudeUser"), from("claudeProject"))))
  BY <1>1, <1>2, <1>3 DEF Catalog!LoadAll, Catalog!PluginRoots, Catalog!TreeRoots
<1> HIDE DEF has
<1> QED
  BY <1>4 DEF Catalog!NoRoot, has

\* The first root of the chain, written as the property has it.
LEMMA ChainAnswers ==
  ASSUME NEW k \in Kind
  PROVE  LET on == {i \in DOMAIN Catalog!PrecedenceChain : Catalog!Provides(Catalog!PrecedenceChain[i], k)}
             first == CHOOSE i \in on : \A j \in on : i <= j
         IN Catalog!LoadAll.reg[k] = IF on = {} THEN Catalog!NoRoot ELSE Catalog!PrecedenceChain[first]
<1> DEFINE chain == Catalog!PrecedenceChain
           on == {i \in DOMAIN chain : Catalog!Provides(chain[i], k)}
           first == CHOOSE i \in on : \A j \in on : i <= j
<1>1. /\ DOMAIN chain = 1..6
      /\ chain[1] = "claudeProject" /\ chain[2] = "claudeUser" /\ chain[3] = "assguardProject"
      /\ chain[4] = "assguardUser" /\ chain[5] = "pluginsProject" /\ chain[6] = "pluginsUser"
  BY DEF Catalog!PrecedenceChain
<1>2. \A i \in 1..6 : i \in on <=> Catalog!Provides(chain[i], k)
  BY <1>1
<1>3. on \subseteq 1..6
  BY <1>1
<1> HIDE DEF on, chain
<1>4. on # {} => \E i \in on : \A j \in on : i <= j
  <2>1. on \subseteq Nat
    BY <1>3
  <2> QED
    BY <2>1, SmallestOf
<1>5. on # {} => first \in on /\ \A j \in on : first <= j
  BY <1>4
<1> HIDE DEF first
<1>6. CASE on = {}
  <2>1. \A i \in 1..6 : ~Catalog!Provides(chain[i], k)
    BY <1>2, <1>6
  <2> QED
    BY <1>1, <1>6, <2>1, LoadAnswers DEF chain, on, first
<1>7. CASE on # {}
  <2>1. first \in 1..6 /\ Catalog!Provides(chain[first], k)
        /\ \A j \in 1..6 : j < first => ~Catalog!Provides(chain[j], k)
    <3>1. first \in on /\ first \in 1..6 /\ \A j \in on : first <= j
      BY <1>3, <1>5, <1>7
    <3>2. \A j \in 1..6 : j < first => j \notin on
      BY <3>1
    <3> QED
      BY <1>2, <3>1, <3>2
  <2>2. Catalog!LoadAll.reg[k] = chain[first]
    BY <1>1, <2>1, LoadAnswers
  <2> QED
    BY <1>7, <2>2 DEF chain, on, first
<1> QED
  BY <1>6, <1>7

\* Whatever the order of the pairwise merges, every name is answered by the
\* first root of the documented chain that provides it, and a load that fails
\* changes nothing unless the process starts with it (LoadAll, Rediscover).
THEOREM PrecedenceIsHonoured == Catalog!Spec => Catalog!PrecedenceHonoured
<1> DEFINE Answered(c, k) ==
             LET on == {i \in DOMAIN Catalog!PrecedenceChain : Catalog!Provides(Catalog!PrecedenceChain[i], k)}
                 first == CHOOSE i \in on : \A j \in on : i <= j
             IN c.reg[k] = IF on = {} THEN Catalog!NoRoot ELSE Catalog!PrecedenceChain[first]
<1>1. Catalog!Next => catalog' \in {catalog, Catalog!EmptyCatalog, Catalog!LoadAll}
  BY DEF Catalog!Next, Catalog!EditTree, Catalog!Chmod, Catalog!EditInstalled, Catalog!EditForm,
         Catalog!EditSettings, Catalog!EditUserMCP, Catalog!Rediscover, Catalog!LoadCommandCatalog,
         Catalog!NewHookRunner
<1>2. [Catalog!Next]_(Catalog!vars)
        => [catalog' # catalog /\ catalog' # Catalog!EmptyCatalog =>
              \A k \in Kind : Answered(catalog', k)]_(Catalog!vars)
  BY <1>1, ChainAnswers DEF Catalog!vars
<1> QED
  BY <1>2, PTL DEF Catalog!Spec, Catalog!PrecedenceHonoured
=============================================================================
