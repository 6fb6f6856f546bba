------------------------------ MODULE Scheduler ------------------------------
(***************************************************************************)
(* Scheduled automations: the persisted store (internal/sched), the cron   *)
(* tools that edit it inside a turn (internal/coreexec/cron.go) and the    *)
(* two goroutines of the runner that fire what is due as engine-driven     *)
(* turns (kit/runtime/cron_wiring.go): the ticker's walk and the catch-up  *)
(* pass of the first session.                                              *)
(*                                                                         *)
(* Time is counted in minutes, the resolution of a cron expression.        *)
(* Titles, prompts and acknowledgements are left out; a cron expression is *)
(* its fields, each a set of parsed items.                                 *)
(***************************************************************************)
EXTENDS Integers, FiniteSets, Sequences, FiniteSetsExt, SequencesExt

CONSTANTS
  Field,         \* the fields of a cron expression (five in the code)
  Bounds,        \* Bounds[f] = <<lo, hi>>, the legal values of field f
  DowField,      \* the day-of-week field, in which 7 also means 0
  At(_, _),      \* At(t, f): the value of field f at minute t
  Drafts,        \* the arguments CronCreate is called with
  Patches,       \* the arguments CronUpdate is called with
  MaxDelay,      \* maxDelayMinutes
  ScanHorizon,   \* scanHorizon, in minutes
  Absent,        \* an optional argument that was not given
  Corrupt,       \* a store file that does not parse
  MaxAutos, MaxTime, MaxUpdates, MaxCrash, MaxFail   \* bounds of the model

SchedulerAssumption ==
  /\ {MaxDelay, ScanHorizon} \subseteq Nat \ {0}
  /\ {MaxAutos, MaxTime, MaxUpdates, MaxCrash, MaxFail} \subseteq Nat
  /\ DowField \in Field
  /\ \A d \in Drafts : d.maxRuns \in Int

NoCron == <<>>          \* the empty cron string
Nobody == "nobody"      \* the turn mutex is free
NoAutos == <<>>         \* a store without automations

-----------------------------------------------------------------------------
(* Cron expressions *)

ItemError == {-1}

\* parseRangeItem: a range counts up from its first value by the step.
ParseRangeItem(item) ==
  IF item.from > item.to THEN ItemError
  ELSE {v \in item.from .. item.to : (v - item.from) % item.step = 0}

\* parseFieldItem: a star steps over the whole field, a range over itself; a
\* single value ignores its step.  An empty item and a step below 1 are errors.
ParseFieldItem(item, lo, hi) ==
  CASE item.kind = "empty" \/ item.step < 1 -> ItemError
    [] item.kind = "star" /\ item.step >= 1 -> {v \in lo .. hi : (v - lo) % item.step = 0}
    [] item.kind = "range" /\ item.step >= 1 -> ParseRangeItem(item)
    [] item.kind = "value" /\ item.step >= 1 -> {item.from}

\* parseField: the union of the items, every value within the field's bounds.
ParseField(items, lo, hi) == UNION {ParseFieldItem(i, lo, hi) : i \in items}
FieldOK(items, lo, hi) == ParseField(items, lo, hi) \subseteq lo .. hi

\* ParseCron: an expression is a function from every field to its items.
CronParses(expr) ==
  /\ DOMAIN expr = Field
  /\ \A f \in Field : FieldOK(expr[f], Bounds[f][1], Bounds[f][2])

Spec0(expr) == [f \in Field |-> ParseField(expr[f], Bounds[f][1], Bounds[f][2])]

\* Spec.matches: every field holds the time's value, 7 standing for Sunday.
CronMatches(expr, t) ==
  \A f \in Field : \/ At(t, f) \in Spec0(expr)[f]
                   \/ f = DowField /\ At(t, f) = 0 /\ 7 \in Spec0(expr)[f]

\* Spec.Next: the first matching minute after `after`, or the scan limit when
\* the horizon holds none.
CronNext(expr, after) ==
  LET hits == {t \in (after + 1) .. (after + ScanHorizon) : CronMatches(expr, t)}
  IN  IF hits = {} THEN after + 1 + ScanHorizon ELSE Min(hits)

-----------------------------------------------------------------------------
(* What is due *)

Zero == 0    \* time.Time{}: never fired

\* validate: exactly one of cron and delay, the cron parses, the delay is in
\* bounds.  (The title and the prompt are required too; they are always given.)
Valid(a) ==
  /\ (a.cron # NoCron) # (a.delay # 0)
  /\ IF a.cron # NoCron THEN CronParses(a.cron) ELSE a.delay \in 1 .. MaxDelay

From(a) == IF a.lastFired = Zero THEN a.createdAt ELSE a.lastFired

\* missedSlots > 0: a one-shot is due once its delay passed and it never fired,
\* a cron automation once a slot after its last fire has passed.
Missed(a, now) ==
  /\ From(a) < now
  /\ IF a.cron = NoCron
     THEN a.createdAt + a.delay <= now /\ a.lastFired = Zero
     ELSE CronNext(a.cron, From(a)) <= now

DueNow(a, now) == ~a.done /\ Missed(a, now)

\* Mutant: the budget of an earlier run is compared, so one run too many.
FiredOffByOne(a, now) ==
  [a EXCEPT !.lastFired = now, !.runCount = @ + 1,
            !.done = \/ a.cron = NoCron
                     \/ ~a.recurring /\ (a.maxRuns = 0 \/ a.runCount > a.maxRuns)]

\* The bookkeeping of one fire, shared by ClaimForFire and CatchUp: the budget
\* of a finite automation is spent when its last run is claimed.
Fired(a, now) ==
  [a EXCEPT !.lastFired = now, !.runCount = @ + 1,
            !.done = \/ a.cron = NoCron
                     \/ ~a.recurring /\ (a.maxRuns = 0 \/ a.runCount + 1 >= a.maxRuns)]

\* applyCronUpdate: an omitted argument keeps the current value; a cron and a
\* delay replace one another, and recurring=true clears the run budget.
ApplyCronUpdate(cur, p) ==
  LET timed == CASE p.delay # Absent -> [cur EXCEPT !.delay = p.delay, !.cron = NoCron]
                 [] p.delay = Absent /\ p.cron # NoCron ->
                      [cur EXCEPT !.cron = p.cron, !.delay = 0]
                 [] OTHER -> cur
      again == IF p.recurring = Absent THEN timed
               ELSE [timed EXCEPT !.recurring = p.recurring,
                                  !.maxRuns = IF p.recurring THEN 0 ELSE @]
  IN  IF p.maxRuns = Absent THEN again ELSE [again EXCEPT !.maxRuns = p.maxRuns]

-----------------------------------------------------------------------------
VARIABLES
  now,       \* the minute on the clock
  disk,      \* schedules.json: the automations by id, or Corrupt
  autos,     \* the open store's automations by id
  up,        \* the process runs
  hasSession,\* lastSessionID is set
  walk,      \* the ticker goroutine: [pc, ids still to fire, firing]
  catchUp,   \* the catch-up goroutine: the same
  turn,      \* who holds the session's turn mutex
  copy,      \* the record a CronUpdate fetched and has not saved yet
  used,      \* ids given out so far
  spent,     \* [updates, crashes, failures] so far
  \* History: the slots delivered to the process so far, per automation
  lastClaim, \* the latest lastFired a claim of the automation ever set
  runs,      \* claims of the automation under its present budget
  twice,     \* automations of which a window was claimed again
  rewound,   \* automations whose recorded fires were lost from the store
  edited     \* automations whose record a CronUpdate replaced

store == <<disk, autos>>
history == <<lastClaim, runs, twice, rewound, edited>>
vars == <<now, disk, autos, up, hasSession, walk, catchUp, turn, copy, used,
          spent, lastClaim, runs, twice, rewound, edited>>

Id == 1 .. MaxAutos
Idle == [pc |-> "idle", ids |-> <<>>, firing |-> 0]
NoCopy == [id |-> 0]

TypeOK ==
  /\ now \in 1 .. MaxTime
  /\ up \in BOOLEAN /\ hasSession \in BOOLEAN
  /\ disk = Corrupt \/ DOMAIN disk \subseteq Id
  /\ DOMAIN autos \subseteq 1 .. used
  /\ \A g \in {walk, catchUp} :
       /\ g.pc \in {"idle", "walking", "lock", "turn", "done"}
       /\ g.firing \in Id \cup {0} /\ Range(g.ids) \subseteq Id
  /\ turn \in {Nobody, "client", "walk", "catchUp"}
  /\ twice \subseteq Id /\ rewound \subseteq Id /\ edited \subseteq Id

Init ==
  /\ now = 1 /\ disk = NoAutos /\ autos = NoAutos /\ up = TRUE
  /\ hasSession = FALSE /\ walk = Idle /\ catchUp = Idle /\ turn = Nobody
  /\ copy = NoCopy /\ used = 0
  /\ spent = [updates |-> 0, crashes |-> 0, failures |-> 0]
  /\ lastClaim = [i \in Id |-> Zero] /\ runs = [i \in Id |-> 0]
  /\ twice = {} /\ rewound = {} /\ edited = {}

\* persistLocked writes a temp file and renames it: the store reaches the disk
\* whole, or (a full or failing disk) not at all.
Persist ==
  \/ disk' = autos' /\ spent' = spent
  \/ /\ spent.failures < MaxFail
     /\ disk' = disk
     /\ spent' = [spent EXCEPT !.failures = @ + 1]

\* What is due, and in the order of creation, in which it is walked.
DueSet(as, t) == {i \in DOMAIN as : DueNow(as[i], t)}
Due(as, t) == SetToSortSeq(DueSet(as, t), <)

\* The window that is due was claimed already: it began before the latest claim,
\* or it is a one-shot's only one.
ClaimedBefore(i) ==
  \/ From(autos[i]) < lastClaim[i]
  \/ autos[i].cron = NoCron /\ runs[i] # 0

\* The history of claiming the automations `ids` at the present minute.
Claims(ids) ==
  /\ lastClaim' = [i \in Id |-> IF i \in ids THEN now ELSE lastClaim[i]]
  /\ runs' = [i \in Id |-> IF i \in ids THEN runs[i] + 1 ELSE runs[i]]
  /\ twice' = twice \cup {i \in ids : ClaimedBefore(i)}
  /\ UNCHANGED <<rewound, edited>>

-----------------------------------------------------------------------------
(* The ticker: fireDueAutomations and runAutomationTurn *)

\* Mutant: the tick is skipped while a turn runs.
TickWhenIdle ==
  /\ up /\ walk.pc = "idle" /\ hasSession /\ turn = Nobody
  /\ DueSet(autos, now) # {}
  /\ walk' = [pc |-> "walking", ids |-> Due(autos, now), firing |-> 0]
  /\ UNCHANGED <<now, store, up, hasSession, catchUp, turn, copy, used, spent, history>>

\* A tick lists what is due in the current session, if there is one.
Tick ==
  /\ up /\ walk.pc = "idle" /\ hasSession
  /\ DueSet(autos, now) # {}
  /\ walk' = [pc |-> "walking", ids |-> Due(autos, now), firing |-> 0]
  /\ UNCHANGED <<now, store, up, hasSession, catchUp, turn, copy, used, spent, history>>

\* ClaimForFire re-checks the automation under the store's mutex and records
\* the fire before the turn runs; a stale entry of the list is skipped.
ClaimForFire ==
  /\ up /\ walk.pc = "walking" /\ walk.ids # <<>>
  /\ LET i == Head(walk.ids)
     IN  IF i \in DOMAIN autos /\ DueNow(autos[i], now)
         THEN /\ autos' = [autos EXCEPT ![i] = Fired(@, now)]
              /\ Persist
              /\ Claims({i})
              /\ walk' = [pc |-> "lock", ids |-> Tail(walk.ids), firing |-> i]
         ELSE /\ walk' = [walk EXCEPT !.ids = Tail(@)]
              /\ UNCHANGED <<store, spent, history>>
  /\ UNCHANGED <<now, up, hasSession, catchUp, turn, copy, used>>

WalkEnd ==
  /\ up /\ walk.pc = "walking" /\ walk.ids = <<>>
  /\ walk' = Idle
  /\ UNCHANGED <<now, store, up, hasSession, catchUp, turn, copy, used, spent, history>>

\* runAutomationTurn queues behind the active turn of the session ...
WalkTurn ==
  /\ up /\ walk.pc = "lock" /\ turn = Nobody
  /\ turn' = "walk" /\ walk' = [walk EXCEPT !.pc = "turn"]
  /\ UNCHANGED <<now, store, up, hasSession, catchUp, copy, used, spent, history>>

\* ... and a fire whose session cannot be built is dropped, already claimed.
WalkNoSession ==
  /\ up /\ walk.pc = "lock"
  /\ walk' = [walk EXCEPT !.pc = "walking", !.firing = 0]
  /\ UNCHANGED <<now, store, up, hasSession, catchUp, turn, copy, used, spent, history>>

WalkTurnEnds ==
  /\ up /\ walk.pc = "turn" /\ copy = NoCopy
  /\ turn' = Nobody /\ walk' = [walk EXCEPT !.pc = "walking", !.firing = 0]
  /\ UNCHANGED <<now, store, up, hasSession, catchUp, copy, used, spent, history>>

-----------------------------------------------------------------------------
(* The catch-up pass of the process's first session *)

\* sessionFor records the session and starts runCatchUpOnce behind it.
FirstSession ==
  /\ up /\ ~hasSession
  /\ hasSession' = TRUE /\ catchUp' = [Idle EXCEPT !.pc = "walking"]
  /\ UNCHANGED <<now, store, up, walk, turn, copy, used, spent, history>>

\* CatchUp claims every missed automation at once and then fires each.
CatchUp ==
  /\ up /\ catchUp.pc = "walking"
  /\ LET ids == DueSet(autos, now)
     IN  /\ autos' = [i \in DOMAIN autos |-> IF i \in ids THEN Fired(autos[i], now) ELSE autos[i]]
         /\ IF ids = {} THEN UNCHANGED <<disk, spent>> ELSE Persist
         /\ Claims(ids)
         /\ catchUp' = [pc |-> "lock", ids |-> Due(autos, now), firing |-> 0]
  /\ UNCHANGED <<now, up, hasSession, walk, turn, copy, used>>

CatchUpTurn ==
  /\ up /\ catchUp.pc = "lock" /\ catchUp.ids # <<>> /\ turn = Nobody
  /\ turn' = "catchUp"
  /\ catchUp' = [pc |-> "turn", ids |-> Tail(catchUp.ids), firing |-> Head(catchUp.ids)]
  /\ UNCHANGED <<now, store, up, hasSession, walk, copy, used, spent, history>>

CatchUpTurnEnds ==
  /\ up /\ catchUp.pc = "turn" /\ copy = NoCopy
  /\ turn' = Nobody /\ catchUp' = [catchUp EXCEPT !.pc = "lock", !.firing = 0]
  /\ UNCHANGED <<now, store, up, hasSession, walk, copy, used, spent, history>>

CatchUpDone ==
  /\ up /\ catchUp.pc = "lock" /\ catchUp.ids = <<>>
  /\ catchUp' = [Idle EXCEPT !.pc = "done"]
  /\ UNCHANGED <<now, store, up, hasSession, walk, turn, copy, used, spent, history>>

-----------------------------------------------------------------------------
(* Turns of the client, and the cron tools a turn may call *)

ClientTurn ==
  /\ up /\ hasSession /\ turn = Nobody
  /\ turn' = "client"
  /\ UNCHANGED <<now, store, up, hasSession, walk, catchUp, copy, used, spent, history>>

ClientTurnEnds ==
  /\ up /\ turn = "client" /\ copy = NoCopy
  /\ turn' = Nobody
  /\ UNCHANGED <<now, store, up, hasSession, walk, catchUp, copy, used, spent, history>>

\* CronCreate: an invalid draft is refused; a created automation stays in the
\* open store even when writing it failed and the call reported an error.
CronCreate ==
  /\ up /\ turn # Nobody /\ copy = NoCopy /\ used < MaxAutos
  /\ \E d \in Drafts :
       /\ Valid(d)
       /\ autos' = [i \in DOMAIN autos \cup {used + 1} |->
                      IF i = used + 1
                      THEN [cron |-> d.cron, delay |-> d.delay, recurring |-> d.recurring,
                            maxRuns |-> d.maxRuns, lastFired |-> Zero, runCount |-> 0,
                            createdAt |-> now, done |-> FALSE]
                      ELSE autos[i]]
       /\ Persist
  /\ used' = used + 1
  /\ UNCHANGED <<now, up, hasSession, walk, catchUp, turn, copy, history>>

\* CronUpdate fetches the record, patches its copy ...
UpdateGet ==
  /\ up /\ turn # Nobody /\ copy = NoCopy /\ spent.updates < MaxUpdates
  /\ \E i \in DOMAIN autos, p \in Patches :
       copy' = [id |-> i, rec |-> ApplyCronUpdate(autos[i], p)]
  /\ spent' = [spent EXCEPT !.updates = @ + 1]
  /\ UNCHANGED <<now, store, up, hasSession, walk, catchUp, turn, used, history>>

\* ... and Save replaces the whole record by it, if it is valid and still there.
UpdateSave ==
  /\ up /\ copy # NoCopy
  /\ copy' = NoCopy
  /\ IF Valid(copy.rec) /\ copy.id \in DOMAIN autos
     THEN /\ autos' = [autos EXCEPT ![copy.id] = copy.rec]
          /\ Persist
          /\ runs' = [runs EXCEPT ![copy.id] = copy.rec.runCount]
          /\ rewound' = rewound \cup
               (IF copy.rec.runCount < autos[copy.id].runCount THEN {copy.id} ELSE {})
          /\ edited' = edited \cup {copy.id}
          /\ UNCHANGED <<lastClaim, twice>>
     ELSE UNCHANGED <<store, spent, history>>
  /\ UNCHANGED <<now, up, hasSession, walk, catchUp, turn, used>>

CronDelete ==
  /\ up /\ turn # Nobody /\ copy = NoCopy
  /\ \E i \in DOMAIN autos :
       autos' = [j \in DOMAIN autos \ {i} |-> autos[j]]
  /\ Persist
  /\ UNCHANGED <<now, up, hasSession, walk, catchUp, turn, copy, used, history>>

-----------------------------------------------------------------------------
(* The clock, crashes and restarts *)

Minute ==
  /\ now < MaxTime /\ now' = now + 1
  /\ UNCHANGED <<store, up, hasSession, walk, catchUp, turn, copy, used, spent, history>>

\* The process dies: the goroutines and the open store are gone.
Crash ==
  /\ up /\ spent.crashes < MaxCrash
  /\ up' = FALSE /\ hasSession' = FALSE /\ walk' = Idle /\ catchUp' = Idle
  /\ turn' = Nobody /\ copy' = NoCopy /\ autos' = NoAutos
  /\ spent' = [spent EXCEPT !.crashes = @ + 1]
  /\ rewound' = rewound \cup
       (IF disk = Corrupt THEN {} ELSE {i \in DOMAIN disk : disk[i].runCount < runs[i]})
  /\ UNCHANGED <<now, disk, used, lastClaim, runs, twice, edited>>

\* While the process is down the file may be damaged from outside.
Damage ==
  /\ ~up /\ disk # Corrupt /\ spent.crashes = MaxCrash
  /\ disk' = Corrupt
  /\ UNCHANGED <<now, autos, up, hasSession, walk, catchUp, turn, copy, used, spent, history>>

\* Open reads the store; a file that does not parse is renamed away and an
\* empty store is written in its place.
Open ==
  /\ ~up
  /\ up' = TRUE
  /\ autos' = IF disk = Corrupt THEN NoAutos ELSE disk
  /\ disk' = IF disk = Corrupt THEN NoAutos ELSE disk
  /\ UNCHANGED <<now, hasSession, walk, catchUp, turn, copy, used, spent, history>>

TickerStep == Tick \/ ClaimForFire \/ WalkEnd
TurnsEnd == WalkTurnEnds \/ CatchUpTurnEnds \/ ClientTurnEnds \/ UpdateSave

Next ==
  \/ TickerStep \/ WalkTurn \/ WalkNoSession \/ TurnsEnd
  \/ FirstSession \/ CatchUp \/ CatchUpTurn \/ CatchUpDone
  \/ ClientTurn \/ CronCreate \/ UpdateGet \/ CronDelete
  \/ Minute \/ Crash \/ Damage \/ Open

\* The ticker keeps ticking, every turn ends, and the turn mutex, which queues
\* its waiters first come first served after a millisecond, starves nobody.
Spec ==
  /\ Init /\ [][Next]_vars
  /\ WF_vars(TickerStep) /\ WF_vars(TurnsEnd) /\ SF_vars(WalkTurn)

-----------------------------------------------------------------------------
(* Properties *)

\* A window, and so a one-shot, is fired once (ClaimForFire, CatchUp), and a
\* finite automation no more often than its budget, whatever the ticker, the
\* catch-up pass, the client's turns and crashes do: unless the record of the fire
\* itself was lost, by a disk that refused it before a crash or by a CronUpdate
\* that saved a copy fetched before the fire.  A CronUpdate grants a new budget.
FiresOnce ==
  /\ twice \subseteq rewound
  /\ \A i \in DOMAIN autos \ (rewound \cup edited) :
       /\ autos[i].cron = NoCron => runs[i] <= 1
       /\ ~autos[i].recurring => runs[i] <= Max({1, autos[i].maxRuns})

\* The claim is exactly-once (sched.go: "a concurrent due-walk or catch-up pass
\* sees nothing due after the claim wins"): no window is claimed again.
\* Refuted: CronUpdate saves a copy it read before the claim (cron.go:214-225),
\* which rewinds it.
ClaimIsExactlyOnce == twice = {}

\* What is due while a session is open is claimed, or edited away, or the
\* process ends: the ticker never stops for good behind one long turn.
EveryDueClaimed ==
  \A i \in Id :
    (up /\ hasSession /\ i \in DOMAIN autos /\ DueNow(autos[i], now))
      ~> (~up \/ i \notin DOMAIN autos \/ ~DueNow(autos[i], now))
=============================================================================
