--------------------------- MODULE AutonomyProofs ---------------------------
(***************************************************************************)
(* What runs with no client waiting for it.                                *)
(*                                                                         *)
(* A scheduled automation fires a window once (internal/sched): claims by  *)
(* the ticker and by the catch-up pass, CronUpdate's fetch and save, disks *)
(* that refuse a save, crashes and restarts.  What a cron expression       *)
(* matches plays no part: the proofs use of a due automation only that it  *)
(* is not done and that a one-shot has never fired.                        *)
(*                                                                         *)
(* The engine's chain of turns (kit/engine, kit/internal/enginebridge)     *)
(* queues behind the session's turn mutex before and after its park.       *)
(***************************************************************************)
EXTENDS Scheduler, FiniteSetTheorems, TLAPS

CONSTANTS MaxContinueInjections, Outputs, HookSteps, MaxTurns, MaxResumes
VARIABLES log, turns, running, mutex, chain, settled, resumes, decisions

Engine == INSTANCE EngineChain

Fields == {"cron", "delay", "recurring", "maxRuns", "lastFired", "runCount", "createdAt", "done"}

\* A record of the store.
Record(a) ==
  /\ Fields \subseteq DOMAIN a
  /\ a.lastFired \in Nat /\ a.runCount \in Nat /\ a.createdAt \in Nat

\* The budget of an automation no CronUpdate touched, spent only if it is done.
Budget(a) ==
  /\ a.maxRuns \in Int
  /\ a.cron = NoCron => a.runCount = 0 \/ (a.done /\ a.runCount = 1)
  /\ ~a.recurring =>
       \/ a.runCount = 0
       \/ a.runCount < a.maxRuns
       \/ a.done /\ (a.runCount = 1 \/ a.runCount = a.maxRuns)

\* A record that knows of every claim made of its automation.
Sound(i, a) ==
  /\ runs[i] = a.runCount
  /\ lastClaim[i] <= From(a)
  /\ a.lastFired = Zero <=> a.runCount = 0
  /\ i \notin edited => Budget(a)

\* The types that matter here.
Records ==
  /\ now \in Nat \ {0} /\ used \in 0 .. MaxAutos
  /\ DOMAIN autos \subseteq 1 .. used
  /\ \A i \in DOMAIN autos : Record(autos[i])
  /\ disk # Corrupt =>
       DOMAIN disk \subseteq 1 .. used /\ \A i \in DOMAIN disk : Record(disk[i])
  /\ ~up => DOMAIN autos = {} /\ copy = NoCopy
  /\ copy # NoCopy =>
       /\ copy.id \in DOMAIN autos
       /\ Record(copy.rec)

History ==
  /\ lastClaim \in [Id -> Nat] /\ runs \in [Id -> Nat]
  /\ \A i \in Id : i > used => lastClaim[i] = 0 /\ runs[i] = 0
  /\ twice \subseteq rewound

\* The open store's records are sound; one on disk is, unless it is behind.
StoreSound == \A i \in DOMAIN autos \ rewound : Sound(i, autos[i])
DiskSound ==
  disk # Corrupt =>
    \A i \in DOMAIN disk \ rewound :
      /\ disk[i].runCount <= runs[i]
      /\ disk[i].runCount = runs[i] => Sound(i, disk[i])
      /\ ~up => disk[i].runCount = runs[i]

\* The copy of a CronUpdate is the record it fetched, or is behind it.
CopySound ==
  copy # NoCopy =>
    /\ copy.rec.createdAt = autos[copy.id].createdAt
    /\ copy.rec.runCount <= autos[copy.id].runCount
    /\ copy.rec.runCount = autos[copy.id].runCount =>
         copy.rec.lastFired = autos[copy.id].lastFired

SchedInv == Records /\ History /\ StoreSound /\ DiskSound /\ CopySound

-----------------------------------------------------------------------------
\* What a due automation is, of which no more is used.
LEMMA DueFacts ==
  ASSUME NEW a, NEW t, DueNow(a, t)
  PROVE  ~a.done /\ (a.cron = NoCron => a.lastFired = Zero)
  BY DEF DueNow, Missed

\* What a fire records.
LEMMA FiredRecord ==
  ASSUME NEW a, Record(a), NEW t \in Nat \ {0}
  PROVE  /\ Record(Fired(a, t))
         /\ Fired(a, t).lastFired = t /\ Fired(a, t).runCount = a.runCount + 1
         /\ Fired(a, t).cron = a.cron /\ Fired(a, t).recurring = a.recurring
         /\ Fired(a, t).maxRuns = a.maxRuns /\ Fired(a, t).createdAt = a.createdAt
         /\ Fired(a, t).done = (\/ a.cron = NoCron
                                \/ ~a.recurring /\ (a.maxRuns = 0 \/ a.runCount + 1 >= a.maxRuns))
  BY DEF Record, Fired, Fields

\* A fire of a due automation stays within its budget.
LEMMA FiredBudget ==
  ASSUME NEW a, Record(a), Budget(a), NEW t \in Nat \ {0}, DueNow(a, t),
         a.lastFired = Zero <=> a.runCount = 0
  PROVE  Budget(Fired(a, t))
<1>1. ~a.done /\ (a.cron = NoCron => a.runCount = 0)
  BY DueFacts
<1>2. a.runCount \in Nat /\ a.maxRuns \in Int
  BY DEF Record, Budget
<1> DEFINE b == Fired(a, t)
<1>3. /\ b.runCount = a.runCount + 1 /\ b.cron = a.cron
      /\ b.recurring = a.recurring /\ b.maxRuns = a.maxRuns
      /\ b.done = (\/ a.cron = NoCron
                   \/ ~a.recurring /\ (a.maxRuns = 0 \/ a.runCount + 1 >= a.maxRuns))
  BY FiredRecord
<1> HIDE DEF b
<1>4. b.cron = NoCron => b.done /\ b.runCount = 1
  BY <1>1, <1>3
<1>5. ASSUME ~b.recurring
      PROVE  b.runCount < b.maxRuns \/ (b.done /\ (b.runCount = 1 \/ b.runCount = b.maxRuns))
  <2>1. a.runCount = 0 \/ a.runCount < a.maxRuns
    BY <1>1, <1>3, <1>5 DEF Budget
  <2>2. CASE a.maxRuns = 0 \/ a.runCount + 1 >= a.maxRuns
    BY <1>2, <1>3, <1>5, <2>1, <2>2
  <2>3. CASE ~(a.maxRuns = 0 \/ a.runCount + 1 >= a.maxRuns)
    BY <1>2, <1>3, <2>3
  <2> QED
    BY <2>2, <2>3
<1>6. Budget(b)
  BY <1>2, <1>3, <1>4, <1>5 DEF Budget
<1> QED
  BY <1>6 DEF b

\* Claiming due automations: by the ticker one, by the catch-up pass all.
LEMMA Claiming ==
  ASSUME SchedulerAssumption, SchedInv,
         NEW ids \in SUBSET DOMAIN autos, \A i \in ids : DueNow(autos[i], now),
         autos' = [i \in DOMAIN autos |-> IF i \in ids THEN Fired(autos[i], now) ELSE autos[i]],
         disk' = autos' \/ disk' = disk, Claims(ids), UNCHANGED <<now, up, copy, used>>
  PROVE  SchedInv'
<1>1. /\ now \in Nat \ {0} /\ DOMAIN autos' = DOMAIN autos /\ DOMAIN autos \subseteq Id
      /\ \A i \in DOMAIN autos : Record(autos[i])
      /\ \A i \in ids : autos'[i] = Fired(autos[i], now)
      /\ \A i \in DOMAIN autos \ ids : autos'[i] = autos[i]
  BY DEF SchedInv, Records, Id, SchedulerAssumption
<1>2. \A i \in ids : /\ Record(autos'[i]) /\ autos'[i].lastFired = now
                     /\ autos'[i].runCount = autos[i].runCount + 1
                     /\ autos'[i].createdAt = autos[i].createdAt
  <2> SUFFICES ASSUME NEW i \in ids
               PROVE  /\ Record(autos'[i]) /\ autos'[i].lastFired = now
                      /\ autos'[i].runCount = autos[i].runCount + 1
                      /\ autos'[i].createdAt = autos[i].createdAt
    OBVIOUS
  <2>1. now \in Nat \ {0} /\ Record(autos[i]) /\ autos'[i] = Fired(autos[i], now)
    BY <1>1
  <2> HIDE DEF Record
  <2> QED
    BY <2>1, FiredRecord
<1>3. /\ rewound' = rewound /\ edited' = edited
      /\ \A i \in Id : lastClaim'[i] = IF i \in ids THEN now ELSE lastClaim[i]
      /\ \A i \in Id : runs'[i] = IF i \in ids THEN runs[i] + 1 ELSE runs[i]
      /\ lastClaim \in [Id -> Nat] /\ runs \in [Id -> Nat]
  BY DEF Claims, SchedInv, History
<1>4. Records'
  BY <1>1, <1>2 DEF SchedInv, Records
<1>5. \A i \in ids \ rewound : ~ClaimedBefore(i)
  <2> SUFFICES ASSUME NEW i \in ids \ rewound PROVE ~ClaimedBefore(i)
    OBVIOUS
  <2>1. Sound(i, autos[i]) /\ Record(autos[i]) /\ lastClaim[i] \in Nat
    BY <1>1, <1>3 DEF SchedInv, StoreSound
  <2>2. autos[i].cron = NoCron => runs[i] = 0
    BY <2>1, DueFacts DEF Sound
  <2>3. From(autos[i]) \in Nat /\ lastClaim[i] <= From(autos[i])
    BY <2>1 DEF Sound, From, Record, Zero
  <2> QED
    BY <2>1, <2>2, <2>3 DEF ClaimedBefore
<1>6. twice' \subseteq rewound'
  BY <1>3, <1>5 DEF Claims, SchedInv, History
<1>7. History'
  <2>1. lastClaim' \in [Id -> Nat] /\ runs' \in [Id -> Nat]
    BY <1>1, <1>3 DEF Claims
  <2>2. \A i \in Id : i > used => i \notin ids
    BY <1>1 DEF SchedInv, Records, Id
  <2> QED
    BY <1>3, <1>6, <2>1, <2>2 DEF SchedInv, History
<1>8. StoreSound'
  <2> SUFFICES ASSUME NEW i \in DOMAIN autos \ rewound PROVE Sound(i, autos[i])'
    BY <1>1, <1>3 DEF StoreSound
  <2>1. Sound(i, autos[i]) /\ Record(autos[i]) /\ i \in Id
    BY <1>1 DEF SchedInv, StoreSound
  <2>2. CASE i \in ids
    <3>1. runs'[i] = autos'[i].runCount
      BY <1>2, <1>3, <2>1, <2>2 DEF Sound
    <3>2. From(autos[i])' = now /\ lastClaim'[i] = now
      BY <1>1, <1>2, <1>3, <2>1, <2>2 DEF From, Zero
    <3>3. autos'[i].lastFired # Zero /\ autos'[i].runCount # 0
      BY <1>1, <1>2, <2>1, <2>2 DEF Zero, Record
    <3>4. i \notin edited => Budget(autos[i])'
      <4>1. i \notin edited => Budget(Fired(autos[i], now))
        BY <1>1, <2>1, <2>2, FiredBudget DEF Sound
      <4> QED
        BY <1>1, <2>2, <4>1 DEF Budget
    <3> QED
      BY <1>1, <1>3, <3>1, <3>2, <3>3, <3>4 DEF Sound
  <2>3. CASE i \notin ids
    <3>1. autos'[i] = autos[i] /\ runs'[i] = runs[i] /\ lastClaim'[i] = lastClaim[i]
      BY <1>1, <1>3, <2>1, <2>3
    <3> QED
      BY <1>3, <2>1, <3>1 DEF Sound, From, Budget
  <2> QED
    BY <2>2, <2>3
<1>9. DiskSound'
  <2>1. CASE disk' = autos'
    <3>1. \A i \in DOMAIN autos' \ rewound' : runs'[i] = autos'[i].runCount /\ autos'[i].runCount \in Nat
      BY <1>4, <1>8 DEF StoreSound, Sound, Records, Record
    <3> QED
      BY <1>8, <2>1, <3>1 DEF DiskSound, StoreSound, Sound, From, Budget
  <2>2. CASE disk' = disk
    <3> SUFFICES ASSUME disk # Corrupt, NEW i \in DOMAIN disk \ rewound
                 PROVE  /\ disk[i].runCount <= runs'[i]
                        /\ disk[i].runCount = runs'[i] => Sound(i, disk[i])'
                        /\ ~up => disk[i].runCount = runs'[i]
      BY <1>3, <2>2 DEF DiskSound
    <3>1. /\ disk[i].runCount <= runs[i] /\ disk[i].runCount \in Nat /\ runs[i] \in Nat /\ i \in Id
          /\ disk[i].runCount = runs[i] => Sound(i, disk[i])
          /\ ~up => disk[i].runCount = runs[i] /\ i \notin ids
      <4>1. i \in Id /\ disk[i].runCount \in Nat
        BY DEF SchedInv, Records, Record, Id, SchedulerAssumption
      <4>2. ~up => i \notin ids
        BY DEF SchedInv, Records
      <4>3. /\ disk[i].runCount <= runs[i]
            /\ disk[i].runCount = runs[i] => Sound(i, disk[i])
            /\ ~up => disk[i].runCount = runs[i]
        BY DEF SchedInv, DiskSound
      <4> QED
        BY <1>3, <4>1, <4>2, <4>3
    <3>2. CASE i \in ids
      BY <1>3, <3>1, <3>2
    <3>3. CASE i \notin ids
      <4>1. runs'[i] = runs[i] /\ lastClaim'[i] = lastClaim[i]
        BY <1>3, <3>1, <3>3
      <4> QED
        BY <1>3, <2>2, <3>1, <4>1 DEF Sound, From, Budget
    <3> QED
      BY <3>2, <3>3
  <2> QED
    BY <2>1, <2>2
<1>10. CopySound'
  <2> SUFFICES ASSUME copy # NoCopy
               PROVE  /\ copy.rec.createdAt = autos'[copy.id].createdAt
                      /\ copy.rec.runCount <= autos'[copy.id].runCount
                      /\ copy.rec.runCount = autos'[copy.id].runCount =>
                           copy.rec.lastFired = autos'[copy.id].lastFired
    BY DEF CopySound
  <2>1. copy.id \in DOMAIN autos /\ Record(copy.rec) /\ CopySound
    BY DEF SchedInv, Records
  <2>2. CASE copy.id \in ids
    <3>1. /\ autos'[copy.id].runCount = autos[copy.id].runCount + 1
          /\ autos'[copy.id].createdAt = autos[copy.id].createdAt
      BY <1>2, <2>2
    <3>2. autos[copy.id].runCount \in Nat /\ copy.rec.runCount \in Nat
      BY <1>1, <2>1 DEF Record
    <3> QED
      BY <2>1, <3>1, <3>2 DEF CopySound
  <2>3. CASE copy.id \notin ids
    BY <1>1, <2>1, <2>3 DEF CopySound
  <2> QED
    BY <2>2, <2>3
<1> QED
  BY <1>4, <1>7, <1>8, <1>9, <1>10 DEF SchedInv

\* Steps that leave the records and the history alone.
LEMMA Frame ==
  ASSUME SchedInv, now' \in Nat \ {0}, copy' = copy \/ copy' = NoCopy, up' = up,
         UNCHANGED <<disk, autos, used, lastClaim, runs, twice, rewound, edited>>
  PROVE  SchedInv'
<1>1. Records' /\ History'
  BY DEF SchedInv, Records, History
<1>2. StoreSound' /\ DiskSound'
  BY DEF SchedInv, StoreSound, DiskSound, Sound, From, Budget
<1>3. CopySound'
  BY DEF SchedInv, CopySound
<1> QED
  BY <1>1, <1>2, <1>3 DEF SchedInv

LEMMA PersistDisk ==
  ASSUME Persist
  PROVE  disk' = autos' \/ disk' = disk
  BY DEF Persist

LEMMA TickerClaims ==
  ASSUME SchedulerAssumption, SchedInv, ClaimForFire
  PROVE  SchedInv'
<1>1. /\ UNCHANGED <<now, up, copy, used>> /\ now \in Nat \ {0}
      /\ \A i \in DOMAIN autos : Record(autos[i])
  BY DEF ClaimForFire, SchedInv, Records
<1> DEFINE h == Head(walk.ids)
<1>2. CASE h \in DOMAIN autos /\ DueNow(autos[h], now)
  <2>1. /\ autos' = [autos EXCEPT ![h] = Fired(@, now)] /\ Persist /\ Claims({h})
    BY <1>2 DEF ClaimForFire
  <2>2. autos' = [i \in DOMAIN autos |-> IF i \in {h} THEN Fired(autos[i], now) ELSE autos[i]]
    BY <1>2, <2>1
  <2>3. disk' = autos' \/ disk' = disk
    BY <2>1, PersistDisk
  <2> QED
    BY <1>1, <1>2, <2>1, <2>2, <2>3, Claiming
<1>3. CASE ~(h \in DOMAIN autos /\ DueNow(autos[h], now))
  BY <1>1, <1>3, Frame DEF ClaimForFire, store, history
<1> QED
  BY <1>2, <1>3

LEMMA CatchUpClaims ==
  ASSUME SchedulerAssumption, SchedInv, CatchUp
  PROVE  SchedInv'
<1> DEFINE ids == DueSet(autos, now)
<1>1. /\ autos' = [i \in DOMAIN autos |-> IF i \in ids THEN Fired(autos[i], now) ELSE autos[i]]
      /\ Claims(ids) /\ UNCHANGED <<now, up, copy, used>>
      /\ IF ids = {} THEN UNCHANGED <<disk, spent>> ELSE Persist
  BY DEF CatchUp
<1>2. disk' = autos' \/ disk' = disk
  BY <1>1, PersistDisk
<1>3. ids \in SUBSET DOMAIN autos /\ \A i \in ids : DueNow(autos[i], now)
  BY DEF DueSet
<1> QED
  BY <1>1, <1>2, <1>3, Claiming

\* A new automation has an id no claim was made of.
LEMMA Creates ==
  ASSUME SchedulerAssumption, SchedInv, CronCreate
  PROVE  SchedInv'
<1> SUFFICES ASSUME NEW n, n = used + 1 PROVE SchedInv'
  OBVIOUS
<1>1. PICK d \in Drafts :
        /\ autos' = [i \in DOMAIN autos \cup {n} |->
                       IF i = n
                       THEN [cron |-> d.cron, delay |-> d.delay, recurring |-> d.recurring,
                             maxRuns |-> d.maxRuns, lastFired |-> Zero, runCount |-> 0,
                             createdAt |-> now, done |-> FALSE]
                       ELSE autos[i]]
        /\ Persist
  BY DEF CronCreate
<1>2. /\ up /\ copy = NoCopy /\ used < MaxAutos /\ used' = used + 1
      /\ UNCHANGED <<now, up, copy, lastClaim, runs, twice, rewound, edited>>
  BY DEF CronCreate, history
<1>3. /\ used \in 0 .. MaxAutos /\ MaxAutos \in Nat /\ n \in Id /\ n > used
      /\ now \in Nat \ {0} /\ DOMAIN autos \subseteq 1 .. used
      /\ \A i \in DOMAIN autos : Record(autos[i]) /\ i # n
      /\ d.maxRuns \in Int
  BY <1>2 DEF SchedInv, Records, Id, SchedulerAssumption
<1>4. /\ DOMAIN autos' = DOMAIN autos \cup {n} /\ \A i \in DOMAIN autos : autos'[i] = autos[i]
      /\ Record(autos'[n]) /\ autos'[n].lastFired = Zero /\ autos'[n].runCount = 0
      /\ autos'[n].createdAt = now /\ autos'[n].maxRuns = d.maxRuns
  BY <1>1, <1>3 DEF Record, Fields, Zero
<1>5. disk' = autos' \/ disk' = disk
  BY <1>1, PersistDisk
<1>6. Records'
  BY <1>2, <1>3, <1>4, <1>5 DEF SchedInv, Records
<1>7. History'
  BY <1>2, <1>3 DEF SchedInv, History, Id
<1>8. StoreSound'
  <2> SUFFICES ASSUME NEW i \in DOMAIN autos' \ rewound PROVE Sound(i, autos[i])'
    BY <1>2 DEF StoreSound
  <2>1. CASE i = n
    <3>1. lastClaim[n] = 0 /\ runs[n] = 0
      BY <1>3 DEF SchedInv, History
    <3>2. From(autos[n])' = now
      BY <1>4 DEF From, Zero
    <3> QED
      BY <1>2, <1>3, <1>4, <2>1, <3>1, <3>2 DEF Sound, Budget
  <2>2. CASE i # n
    BY <1>2, <1>4, <2>2 DEF SchedInv, StoreSound, Sound, From, Budget
  <2> QED
    BY <2>1, <2>2
<1>9. DiskSound'
  <2>1. CASE disk' = autos'
    BY <1>2, <1>6, <1>8, <2>1 DEF DiskSound, StoreSound, Sound, From, Budget, Records, Record
  <2>2. CASE disk' = disk
    BY <1>2, <2>2 DEF SchedInv, DiskSound, Sound, From, Budget
  <2> QED
    BY <1>5, <2>1, <2>2
<1>10. CopySound'
  BY <1>2 DEF CopySound
<1> QED
  BY <1>6, <1>7, <1>8, <1>9, <1>10 DEF SchedInv

\* A patch leaves what a claim records.
LEMMA PatchedRecord ==
  ASSUME NEW cur, Record(cur), NEW p
  PROVE  /\ Record(ApplyCronUpdate(cur, p))
         /\ ApplyCronUpdate(cur, p).lastFired = cur.lastFired
         /\ ApplyCronUpdate(cur, p).runCount = cur.runCount
         /\ ApplyCronUpdate(cur, p).createdAt = cur.createdAt
<1> DEFINE timed == CASE p.delay # Absent -> [cur EXCEPT !.delay = p.delay, !.cron = NoCron]
                      [] p.delay = Absent /\ p.cron # NoCron ->
                           [cur EXCEPT !.cron = p.cron, !.delay = 0]
                      [] OTHER -> cur
           again == IF p.recurring = Absent THEN timed
                    ELSE [timed EXCEPT !.recurring = p.recurring,
                                       !.maxRuns = IF p.recurring THEN 0 ELSE @]
           Same(b) == /\ Record(b) /\ b.lastFired = cur.lastFired
                      /\ b.runCount = cur.runCount /\ b.createdAt = cur.createdAt
<1>1. Same(timed)
  BY DEF Record, Fields
<1> HIDE DEF timed
<1>2. Same(again)
  BY <1>1 DEF Record, Fields
<1> HIDE DEF again
<1>3. ApplyCronUpdate(cur, p) = IF p.maxRuns = Absent THEN again
                                ELSE [again EXCEPT !.maxRuns = p.maxRuns]
  BY DEF ApplyCronUpdate, again, timed
<1>4. Same(ApplyCronUpdate(cur, p))
  BY <1>2, <1>3 DEF Record, Fields
<1> QED
  BY <1>4

LEMMA Fetches ==
  ASSUME SchedInv, UpdateGet
  PROVE  SchedInv'
<1>1. PICK i \in DOMAIN autos, p \in Patches :
        copy' = [id |-> i, rec |-> ApplyCronUpdate(autos[i], p)]
  BY DEF UpdateGet
<1>2. /\ up /\ UNCHANGED <<now, disk, autos, up, used, lastClaim, runs, twice, rewound, edited>>
  BY DEF UpdateGet, store, history
<1>3. /\ Record(autos[i]) /\ copy'.id = i /\ copy'.rec = ApplyCronUpdate(autos[i], p)
  BY <1>1 DEF SchedInv, Records
<1>4. /\ Record(copy'.rec) /\ copy'.rec.lastFired = autos[i].lastFired
      /\ copy'.rec.runCount = autos[i].runCount /\ copy'.rec.createdAt = autos[i].createdAt
  BY <1>3, PatchedRecord
<1>5. Records' /\ History'
  BY <1>2, <1>3, <1>4 DEF SchedInv, Records, History
<1>6. StoreSound' /\ DiskSound'
  BY <1>2 DEF SchedInv, StoreSound, DiskSound, Sound, From, Budget
<1>7. CopySound'
  BY <1>2, <1>3, <1>4 DEF CopySound, Record
<1> QED
  BY <1>5, <1>6, <1>7 DEF SchedInv

\* A copy that is behind the record it replaces loses the fires in between.
LEMMA Saves ==
  ASSUME SchedulerAssumption, SchedInv, UpdateSave
  PROVE  SchedInv'
<1>1. /\ up /\ copy # NoCopy /\ copy' = NoCopy /\ UNCHANGED <<now, up, used>>
  BY DEF UpdateSave
<1>2. CASE ~(Valid(copy.rec) /\ copy.id \in DOMAIN autos)
  BY <1>1, <1>2, Frame DEF UpdateSave, store, history, SchedInv, Records
<1>3. CASE Valid(copy.rec) /\ copy.id \in DOMAIN autos
  <2> SUFFICES ASSUME NEW k, k = copy.id, NEW rec, rec = copy.rec PROVE SchedInv'
    OBVIOUS
  <2>1. /\ autos' = [autos EXCEPT ![k] = rec] /\ Persist
        /\ runs' = [runs EXCEPT ![k] = rec.runCount]
        /\ rewound' = rewound \cup (IF rec.runCount < autos[k].runCount THEN {k} ELSE {})
        /\ edited' = edited \cup {k}
        /\ UNCHANGED <<lastClaim, twice>>
    BY <1>3 DEF UpdateSave
  <2>2. disk' = autos' \/ disk' = disk
    BY <2>1, PersistDisk
  <2>3. /\ k \in DOMAIN autos /\ k \in Id /\ k <= used /\ Record(rec) /\ Record(autos[k])
        /\ rec.createdAt = autos[k].createdAt /\ rec.runCount <= autos[k].runCount
        /\ rec.runCount = autos[k].runCount => rec.lastFired = autos[k].lastFired
        /\ rec.runCount \in Nat /\ autos[k].runCount \in Nat
        /\ lastClaim \in [Id -> Nat] /\ runs \in [Id -> Nat]
    <3>1. k \in DOMAIN autos /\ Record(rec) /\ Record(autos[k])
      BY <1>1, <1>3 DEF SchedInv, Records
    <3>2. k \in Id /\ k <= used
      BY <3>1 DEF SchedInv, Records, Id, SchedulerAssumption
    <3>3. /\ rec.createdAt = autos[k].createdAt /\ rec.runCount <= autos[k].runCount
          /\ rec.runCount = autos[k].runCount => rec.lastFired = autos[k].lastFired
      BY <1>1 DEF SchedInv, CopySound
    <3> QED
      BY <3>1, <3>2, <3>3 DEF SchedInv, History, Record
  <2>4. /\ DOMAIN autos' = DOMAIN autos /\ autos'[k] = rec /\ runs'[k] = rec.runCount
        /\ \A i \in DOMAIN autos \ {k} : autos'[i] = autos[i]
        /\ \A i \in Id \ {k} : runs'[i] = runs[i]
    BY <2>1, <2>3
  <2>5. Records'
    BY <1>1, <2>2, <2>3, <2>4 DEF SchedInv, Records
  <2>6. History'
    <3>1. runs' \in [Id -> Nat]
      BY <2>1, <2>3
    <3>2. \A i \in Id : i > used => i # k
      BY <2>3 DEF SchedInv, Records, Id
    <3> QED
      BY <1>1, <2>1, <2>4, <3>1, <3>2 DEF SchedInv, History
  <2>7. ASSUME k \notin rewound'
        PROVE  /\ rec.runCount = autos[k].runCount /\ rec.lastFired = autos[k].lastFired
               /\ Sound(k, autos[k]) /\ runs'[k] = runs[k]
    <3>1. rec.runCount = autos[k].runCount /\ k \notin rewound
      BY <2>1, <2>3, <2>7
    <3>2. Sound(k, autos[k])
      BY <2>3, <3>1 DEF SchedInv, StoreSound
    <3> QED
      BY <2>3, <2>4, <3>1, <3>2 DEF Sound
  <2>8. StoreSound'
    <3> SUFFICES ASSUME NEW i \in DOMAIN autos' \ rewound' PROVE Sound(i, autos[i])'
      BY DEF StoreSound
    <3>1. CASE i = k
      <4>1. From(autos[k])' = From(autos[k])
        BY <2>3, <2>4, <2>7, <3>1 DEF From
      <4>2. k \in edited'
        BY <2>1
      <4> QED
        BY <2>1, <2>3, <2>4, <2>7, <3>1, <4>1, <4>2 DEF Sound
    <3>2. CASE i # k
      <4>1. /\ i \in Id /\ i \in DOMAIN autos \ rewound /\ (i \notin edited' => i \notin edited)
            /\ autos'[i] = autos[i] /\ runs'[i] = runs[i] /\ lastClaim'[i] = lastClaim[i]
        BY <2>1, <2>4, <3>2 DEF SchedInv, Records, Id, SchedulerAssumption
      <4> QED
        BY <4>1 DEF SchedInv, StoreSound, Sound, From, Budget
    <3> QED
      BY <3>1, <3>2
  <2>9. DiskSound'
    <3>1. CASE disk' = autos'
      BY <2>5, <2>8, <3>1 DEF DiskSound, StoreSound, Sound, From, Budget, Records, Record
    <3>2. CASE disk' = disk
      <4> SUFFICES ASSUME disk # Corrupt, NEW i \in DOMAIN disk \ rewound'
                   PROVE  /\ disk[i].runCount <= runs'[i]
                          /\ disk[i].runCount = runs'[i] => Sound(i, disk[i])'
        BY <1>1, <3>2 DEF DiskSound
      <4>1. /\ disk[i].runCount <= runs[i] /\ (disk[i].runCount = runs[i] => Sound(i, disk[i]))
            /\ i \in Id /\ i \notin rewound
        BY <2>1 DEF SchedInv, DiskSound, Records, Id, SchedulerAssumption
      <4>2. runs'[i] = runs[i] /\ lastClaim' = lastClaim /\ (i \notin edited' => i \notin edited)
        BY <2>1, <2>4, <2>7, <4>1
      <4> QED
        BY <3>2, <4>1, <4>2 DEF Sound, From, Budget
    <3> QED
      BY <2>2, <3>1, <3>2
  <2>10. CopySound'
    BY <1>1 DEF CopySound
  <2> QED
    BY <2>5, <2>6, <2>8, <2>9, <2>10 DEF SchedInv
<1> QED
  BY <1>2, <1>3

LEMMA Deletes ==
  ASSUME SchedulerAssumption, SchedInv, CronDelete
  PROVE  SchedInv'
<1>1. PICK k \in DOMAIN autos : autos' = [j \in DOMAIN autos \ {k} |-> autos[j]]
  BY DEF CronDelete
<1>2. /\ up /\ copy = NoCopy /\ (disk' = autos' \/ disk' = disk)
      /\ UNCHANGED <<now, up, copy, used, lastClaim, runs, twice, rewound, edited>>
  BY PersistDisk DEF CronDelete, history
<1>3. DOMAIN autos' \subseteq DOMAIN autos /\ \A i \in DOMAIN autos' : autos'[i] = autos[i]
  BY <1>1
<1>4. Records' /\ History'
  BY <1>2, <1>3 DEF SchedInv, Records, History
<1>5. StoreSound'
  BY <1>2, <1>3 DEF SchedInv, StoreSound, Sound, From, Budget
<1>6. DiskSound'
  <2>1. CASE disk' = autos'
    BY <1>2, <1>4, <1>5, <2>1 DEF DiskSound, StoreSound, Sound, From, Budget, Records, Record
  <2>2. CASE disk' = disk
    BY <1>2, <2>2 DEF SchedInv, DiskSound, Sound, From, Budget
  <2> QED
    BY <1>2, <2>1, <2>2
<1>7. CopySound'
  BY <1>2 DEF CopySound
<1> QED
  BY <1>4, <1>5, <1>6, <1>7 DEF SchedInv

\* A crash: what the disk does not know of is lost.
LEMMA Crashes ==
  ASSUME SchedulerAssumption, SchedInv, Crash
  PROVE  SchedInv'
<1>1. /\ ~up' /\ copy' = NoCopy /\ autos' = NoAutos
      /\ rewound' = rewound \cup
           (IF disk = Corrupt THEN {} ELSE {i \in DOMAIN disk : disk[i].runCount < runs[i]})
      /\ UNCHANGED <<now, disk, used, lastClaim, runs, twice, edited>>
  BY DEF Crash
<1>2. DOMAIN autos' = {}
  BY <1>1 DEF NoAutos
<1>3. Records' /\ History'
  BY <1>1, <1>2 DEF SchedInv, Records, History
<1>4. StoreSound' /\ CopySound'
  BY <1>1, <1>2 DEF StoreSound, CopySound
<1>5. DiskSound'
  <2> SUFFICES ASSUME disk # Corrupt, NEW i \in DOMAIN disk \ rewound'
               PROVE  disk[i].runCount = runs[i] /\ Sound(i, disk[i])'
    BY <1>1 DEF DiskSound, SchedInv, Records, Record
  <2>1. /\ disk[i].runCount <= runs[i] /\ (disk[i].runCount = runs[i] => Sound(i, disk[i]))
        /\ i \in Id /\ disk[i].runCount \in Nat /\ runs[i] \in Nat /\ ~(disk[i].runCount < runs[i])
    BY <1>1 DEF SchedInv, DiskSound, Records, Record, History, Id, SchedulerAssumption
  <2>2. disk[i].runCount = runs[i]
    BY <2>1
  <2> QED
    BY <1>1, <2>1, <2>2 DEF Sound, From, Budget
<1> QED
  BY <1>3, <1>4, <1>5 DEF SchedInv

LEMMA Opens ==
  ASSUME SchedInv, Open
  PROVE  SchedInv'
<1>1. /\ ~up /\ up' /\ copy' = copy /\ copy = NoCopy
      /\ autos' = (IF disk = Corrupt THEN NoAutos ELSE disk)
      /\ disk' = (IF disk = Corrupt THEN NoAutos ELSE disk)
      /\ UNCHANGED <<now, used, lastClaim, runs, twice, rewound, edited>>
  BY DEF Open, history, SchedInv, Records
<1>2. CASE disk = Corrupt
  <2>1. DOMAIN autos' = {} /\ DOMAIN disk' = {}
    BY <1>1, <1>2 DEF NoAutos
  <2> QED
    BY <1>1, <2>1 DEF SchedInv, Records, History, StoreSound, DiskSound, CopySound
<1>3. CASE disk # Corrupt
  <2>1. autos' = disk /\ disk' = disk
    BY <1>1, <1>3
  <2>2. Records' /\ History' /\ CopySound'
    BY <1>1, <1>3, <2>1 DEF SchedInv, Records, History, CopySound
  <2>3. StoreSound' /\ DiskSound'
    BY <1>1, <1>3, <2>1 DEF SchedInv, StoreSound, DiskSound, Sound, From, Budget
  <2> QED
    BY <2>2, <2>3 DEF SchedInv
<1> QED
  BY <1>2, <1>3

LEMMA Damages ==
  ASSUME SchedInv, Damage
  PROVE  SchedInv'
<1>1. /\ disk' = Corrupt
      /\ UNCHANGED <<now, autos, up, copy, used, lastClaim, runs, twice, rewound, edited>>
  BY DEF Damage, history
<1>2. Records' /\ History' /\ CopySound' /\ DiskSound'
  BY <1>1 DEF SchedInv, Records, History, CopySound, DiskSound
<1>3. StoreSound'
  BY <1>1 DEF SchedInv, StoreSound, Sound, From, Budget
<1> QED
  BY <1>2, <1>3 DEF SchedInv

-----------------------------------------------------------------------------
LEMMA SchedInit ==
  ASSUME SchedulerAssumption, Init
  PROVE  SchedInv
<1>1. DOMAIN autos = {} /\ DOMAIN disk = {}
  BY DEF Init, NoAutos
<1>2. /\ now = 1 /\ used = 0 /\ up = TRUE /\ copy = NoCopy /\ MaxAutos \in Nat
      /\ lastClaim = [i \in Id |-> 0] /\ runs = [i \in Id |-> 0] /\ twice = {}
  BY DEF Init, Zero, SchedulerAssumption
<1> QED
  BY <1>1, <1>2 DEF SchedInv, Records, History, StoreSound, DiskSound, CopySound

LEMMA SchedStep ==
  ASSUME SchedulerAssumption, SchedInv, [Next]_vars
  PROVE  SchedInv'
<1>0. now \in Nat \ {0} /\ now + 1 \in Nat \ {0}
  BY DEF SchedInv, Records
<1>1. CASE ClaimForFire
  BY <1>1, TickerClaims
<1>2. CASE CatchUp
  BY <1>2, CatchUpClaims
<1>3. CASE CronCreate
  BY <1>3, Creates
<1>4. CASE UpdateGet
  BY <1>4, Fetches
<1>5. CASE UpdateSave
  BY <1>5, Saves
<1>6. CASE CronDelete
  BY <1>6, Deletes
<1>7. CASE Crash
  BY <1>7, Crashes
<1>8. CASE Damage
  BY <1>8, Damages
<1>9. CASE Open
  BY <1>9, Opens
<1>10. CASE Minute
  BY <1>0, <1>10, Frame DEF Minute, store, history
<1>11. CASE \/ Tick \/ WalkEnd \/ WalkTurn \/ WalkNoSession \/ WalkTurnEnds
            \/ FirstSession \/ CatchUpTurn \/ CatchUpTurnEnds \/ CatchUpDone
            \/ ClientTurn \/ ClientTurnEnds
  BY <1>0, <1>11, Frame
     DEF Tick, WalkEnd, WalkTurn, WalkNoSession, WalkTurnEnds, FirstSession, CatchUpTurn,
         CatchUpTurnEnds, CatchUpDone, ClientTurn, ClientTurnEnds, store, history
<1>12. CASE UNCHANGED vars
  BY <1>0, <1>12, Frame DEF vars
<1> QED
  BY <1>1, <1>2, <1>3, <1>4, <1>5, <1>6, <1>7, <1>8, <1>9, <1>10, <1>11, <1>12
     DEF Next, TickerStep, TurnsEnd

\* The greater of 1 and a budget.
LEMMA MaxOfOne ==
  ASSUME NEW m \in Int
  PROVE  Max({1, m}) \in Int /\ Max({1, m}) >= 1 /\ Max({1, m}) >= m
<1>1. \E x \in {1, m} : \A y \in {1, m} : x >= y
  <2>1. CASE m >= 1
    BY <2>1
  <2>2. CASE ~(m >= 1)
    BY <2>2
  <2> QED
    BY <2>1, <2>2
<1>2. Max({1, m}) \in {1, m} /\ \A y \in {1, m} : Max({1, m}) >= y
  BY <1>1 DEF Max
<1> QED
  BY <1>2

\* Every reachable state is sound (sched.go: "the claim holds in-memory; next
\* open re-derives").
THEOREM SchedulerInvariance ==
  ASSUME SchedulerAssumption
  PROVE  Spec => []SchedInv
<1>1. Init => SchedInv
  BY SchedInit
<1>2. SchedInv /\ [Next]_vars => SchedInv'
  BY SchedStep
<1> QED
  BY <1>1, <1>2, PTL DEF Spec

\* A window is claimed once and a budget is never overrun, unless the record of a
\* fire was lost (ClaimForFire, CatchUp).
THEOREM FiredOnce ==
  ASSUME SchedulerAssumption
  PROVE  Spec => []FiresOnce
<1>1. ASSUME SchedInv PROVE FiresOnce
  <2>1. twice \subseteq rewound
    BY <1>1 DEF SchedInv, History
  <2> SUFFICES ASSUME NEW i \in DOMAIN autos \ (rewound \cup edited)
               PROVE  /\ autos[i].cron = NoCron => runs[i] <= 1
                      /\ ~autos[i].recurring => runs[i] <= Max({1, autos[i].maxRuns})
    BY <2>1 DEF FiresOnce
  <2>2. runs[i] = autos[i].runCount /\ Budget(autos[i]) /\ autos[i].runCount \in Nat
    BY <1>1 DEF SchedInv, StoreSound, Sound, Records, Record
  <2>3. autos[i].cron = NoCron => runs[i] <= 1
    BY <2>2 DEF Budget
  <2>4. /\ autos[i].maxRuns \in Int
        /\ ~autos[i].recurring => runs[i] <= 1 \/ runs[i] <= autos[i].maxRuns
    BY <2>2 DEF Budget
  <2>5. /\ Max({1, autos[i].maxRuns}) \in Int /\ Max({1, autos[i].maxRuns}) >= 1
        /\ Max({1, autos[i].maxRuns}) >= autos[i].maxRuns
    BY <2>4, MaxOfOne
  <2> QED
    BY <2>2, <2>3, <2>4, <2>5
<1> QED
  BY <1>1, SchedulerInvariance, PTL

(***************************************************************************)
(* The engine's chain.                                                     *)
(***************************************************************************)
Turn == [id : 1 .. turns, by : {"chain", "hook", "client"}]

ChainPc == {"new", "turn", "look", "wait", "decide", "inject", "hook", "hookturn", "done"}

\* The chain's control state; past the budget check an injection is left.
ChainTypes ==
  /\ {"pc", "turn", "injections", "stop", "failed", "parked", "cancelled", "step"} = DOMAIN chain
  /\ chain.pc \in ChainPc /\ chain.parked \in BOOLEAN
  /\ chain.injections \in 0 .. MaxContinueInjections
  /\ chain.pc \in {"wait", "decide", "inject", "hook", "hookturn"} =>
       chain.injections < MaxContinueInjections
  /\ chain.pc = "wait" => chain.parked

\* A turn that runs is the one its owner is in.
RunningInv ==
  /\ turns \in Nat /\ running \subseteq Turn
  /\ \A r \in running :
       /\ r.by = "chain" => chain.pc = "turn" /\ r.id = chain.turn
       /\ r.by = "hook" => chain.pc = "hookturn" /\ r.id = chain.turn
       /\ r.by = "client" => mutex = "client"
  /\ \A r, t \in running : r.by = "client" /\ t.by = "client" => r = t

\* Run holds the mutex until the chain parks; a parked chain holds it for the
\* turns it injects, and a finished one not at all.
MutexInv ==
  CASE chain.pc = "new" -> mutex = Engine!Nobody /\ ~chain.parked
    [] chain.pc = "done" -> mutex \in {Engine!Nobody, "client"}
    [] chain.pc = "turn" -> mutex = IF chain.parked THEN "chain" ELSE "run"
    [] OTHER -> IF chain.parked THEN mutex \in {Engine!Nobody, "client"} ELSE mutex = "run"

EngineInv == ChainTypes /\ RunningInv /\ MutexInv

\* Two turns of one owner are one.
LEMMA OwnersDiffer ==
  ASSUME EngineInv, NEW r \in running, NEW t \in running
  PROVE  /\ r.by # "hook" /\ t.by # "hook" => r = t
         /\ r.by = "hook" /\ t.by = "hook" => r = t
<1>1. r \in Turn /\ t \in Turn /\ (r.id = t.id /\ r.by = t.by => r = t)
  BY DEF EngineInv, RunningInv, Turn
<1>2. r.by \in {"chain", "hook", "client"} /\ t.by \in {"chain", "hook", "client"}
  BY <1>1 DEF Turn
<1>3. ~(r.by = "chain" /\ t.by = "client") /\ ~(r.by = "client" /\ t.by = "chain")
  BY DEF EngineInv, RunningInv, MutexInv, Engine!Nobody
<1>4. r.by = t.by => r = t
  BY <1>1, <1>2 DEF EngineInv, RunningInv
<1> QED
  BY <1>2, <1>3, <1>4

\* A set whose members are all equal has at most one.
LEMMA AtMostOne ==
  ASSUME NEW S, \A x, y \in S : x = y
  PROVE  IsFiniteSet(S) /\ Cardinality(S) \in Nat /\ Cardinality(S) <= 1
<1>1. CASE S = {}
  BY <1>1, FS_EmptySet
<1>2. CASE S # {}
  <2>1. PICK x \in S : S = {x}
    BY <1>2
  <2> QED
    BY <2>1, FS_Singleton
<1> QED
  BY <1>1, <1>2

LEMMA EngineCounts ==
  \A S : Engine!Cardinality(S) = Cardinality(S)
  BY DEF Cardinality, Engine!Cardinality

\* A turn begins: of a new owner, under the number after the last.
LEMMA TurnBegins ==
  ASSUME EngineInv, NEW by \in {"chain", "hook", "client"}, Engine!Begins(by)
  PROVE  /\ turns' = turns + 1 /\ turns' \in Nat /\ running' \subseteq Turn'
         /\ \A r \in running' : r \in running \/ r = [id |-> turns', by |-> by]
<1>1. /\ turns' = turns + 1 /\ running' = running \cup {[id |-> turns + 1, by |-> by]}
      /\ turns \in Nat /\ running \subseteq Turn
  BY DEF Engine!Begins, EngineInv, RunningInv
<1>2. 1 .. turns \subseteq 1 .. turns' /\ turns + 1 \in 1 .. turns'
  BY <1>1
<1>3. Turn \subseteq Turn' /\ [id |-> turns + 1, by |-> by] \in Turn'
  BY <1>1, <1>2 DEF Turn
<1> QED
  BY <1>1, <1>3

\* A turn returns: nobody else's does.
LEMMA TurnReturns ==
  ASSUME EngineInv, NEW k, NEW stop, Engine!Returns(k, stop), turns' = turns
  PROVE  /\ running' = {r \in running : r.id # k} /\ turns' \in Nat /\ running' \subseteq Turn'
  BY DEF Engine!Returns, EngineInv, RunningInv, Turn

LEMMA EngineBegins ==
  ASSUME Engine!EngineAssumption, EngineInv,
         Engine!ChainStarts \/ Engine!Inject \/ Engine!ClientTurn
  PROVE  EngineInv'
<1>1. CASE Engine!ChainStarts
  <2>1. /\ chain.pc = "new" /\ mutex = Engine!Nobody /\ mutex' = "run" /\ Engine!Begins("chain")
        /\ chain' = [chain EXCEPT !.pc = "turn", !.turn = turns + 1]
    BY <1>1 DEF Engine!ChainStarts
  <2>2. /\ turns' = turns + 1 /\ turns' \in Nat /\ running' \subseteq Turn'
        /\ \A r \in running' : r \in running \/ r = [id |-> turns', by |-> "chain"]
    BY <2>1, TurnBegins
  <2>3. ChainTypes' /\ chain'.pc = "turn" /\ chain'.turn = turns' /\ chain'.parked = chain.parked
    BY <2>1, <2>2 DEF EngineInv, ChainTypes, ChainPc
  <2>4. MutexInv' /\ ~chain'.parked
    BY <2>1, <2>3 DEF EngineInv, MutexInv
  <2>5. \A r \in running : r.by # "chain" /\ r.by # "hook" /\ r.by # "client"
    BY <2>1 DEF EngineInv, RunningInv, Engine!Nobody
  <2>6. RunningInv'
    BY <2>2, <2>3, <2>5 DEF RunningInv
  <2> QED
    BY <2>3, <2>4, <2>6 DEF EngineInv
<1>2. CASE Engine!Inject
  <2>1. /\ chain.pc = "inject" /\ (chain.parked => mutex = Engine!Nobody) /\ Engine!Begins("chain")
        /\ mutex' = IF chain.parked THEN "chain" ELSE mutex
        /\ chain' = [chain EXCEPT !.pc = "turn", !.turn = turns + 1, !.injections = @ + 1]
    BY <1>2 DEF Engine!Inject
  <2>2. /\ turns' = turns + 1 /\ turns' \in Nat /\ running' \subseteq Turn'
        /\ \A r \in running' : r \in running \/ r = [id |-> turns', by |-> "chain"]
    BY <2>1, TurnBegins
  <2>3. ChainTypes' /\ chain'.pc = "turn" /\ chain'.turn = turns' /\ chain'.parked = chain.parked
    <3>1. chain.injections + 1 \in 0 .. MaxContinueInjections
      BY <2>1 DEF EngineInv, ChainTypes, Engine!EngineAssumption
    <3> QED
      BY <2>1, <2>2, <3>1 DEF EngineInv, ChainTypes, ChainPc
  <2>4. MutexInv' /\ mutex \in {Engine!Nobody, "run"}
    BY <2>1, <2>3 DEF EngineInv, MutexInv
  <2>5. \A r \in running : r.by # "chain" /\ r.by # "hook" /\ r.by # "client"
    BY <2>1, <2>4 DEF EngineInv, RunningInv, Engine!Nobody
  <2>6. RunningInv'
    BY <2>2, <2>3, <2>5 DEF RunningInv
  <2> QED
    BY <2>3, <2>4, <2>6 DEF EngineInv
<1>3. CASE Engine!ClientTurn
  <2>1. /\ chain.pc # "new" /\ mutex = Engine!Nobody /\ mutex' = "client"
        /\ Engine!Begins("client") /\ chain' = chain
    BY <1>3 DEF Engine!ClientTurn
  <2>2. /\ turns' = turns + 1 /\ turns' \in Nat /\ running' \subseteq Turn'
        /\ \A r \in running' : r \in running \/ r = [id |-> turns', by |-> "client"]
    BY <2>1, TurnBegins
  <2>3. ChainTypes' /\ MutexInv'
    BY <2>1 DEF EngineInv, ChainTypes, MutexInv, Engine!Nobody
  <2>4. \A r \in running : r.by # "client"
    BY <2>1 DEF EngineInv, RunningInv, Engine!Nobody
  <2>5. RunningInv'
    BY <2>1, <2>2, <2>4 DEF EngineInv, RunningInv
  <2> QED
    BY <2>3, <2>5 DEF EngineInv
<1> QED
  BY <1>1, <1>2, <1>3

\* A step of the chain between two turns keeps the turns, or loses its own.
LEMMA ChainMoves ==
  ASSUME EngineInv, ChainTypes', MutexInv', turns' = turns,
         chain.pc \notin {"new", "done"}, chain'.pc \notin {"turn", "hookturn"},
         \/ running' = running /\ chain.pc \notin {"turn", "hookturn"}
         \/ running' = {r \in running : r.id # chain.turn},
         mutex = "client" => mutex' = "client"
  PROVE  EngineInv'
<1>1. \A r \in running' : r \in running /\ r.by = "client"
  <2> SUFFICES ASSUME NEW r \in running' PROVE r \in running /\ r.by = "client"
    OBVIOUS
  <2>1. r \in running /\ r.by \in {"chain", "hook", "client"}
    BY DEF EngineInv, RunningInv, Turn
  <2> QED
    BY <2>1 DEF EngineInv, RunningInv
<1>2. RunningInv'
  BY <1>1 DEF EngineInv, RunningInv, Turn
<1> QED
  BY <1>2 DEF EngineInv

LEMMA EngineTurnEnds ==
  ASSUME EngineInv, Engine!ChainTurnEnds
  PROVE  EngineInv'
<1>1. PICK stop \in {"end_turn", "ask", "error", "other"} :
        /\ Engine!Returns(chain.turn, stop)
        /\ LET over == chain.injections > 0 /\ stop \in {"error", "other"}
           IN  /\ chain' = [chain EXCEPT !.stop = stop, !.failed = (stop = "error"),
                                         !.pc = IF over THEN "done" ELSE "look"]
               /\ mutex' = IF over THEN Engine!Exited ELSE Engine!Unlocked
  BY DEF Engine!ChainTurnEnds
<1>2. chain.pc = "turn" /\ turns' = turns
  BY DEF Engine!ChainTurnEnds
<1>3. /\ ChainTypes' /\ chain'.pc \in {"done", "look"} /\ chain'.parked = chain.parked
      /\ mutex' = IF chain'.pc = "done" THEN Engine!Exited ELSE Engine!Unlocked
  BY <1>1 DEF EngineInv, ChainTypes, ChainPc
<1>4. mutex = (IF chain.parked THEN "chain" ELSE "run") /\ chain.parked \in BOOLEAN
  BY <1>2 DEF EngineInv, MutexInv, ChainTypes
<1>5. MutexInv'
  BY <1>3, <1>4 DEF MutexInv, Engine!Exited, Engine!Unlocked, Engine!Nobody
<1>6. running' = {r \in running : r.id # chain.turn}
  BY <1>1, <1>2, TurnReturns
<1> QED
  BY <1>2, <1>3, <1>4, <1>5, <1>6, ChainMoves

\* Between two turns the mutex is Run's, or not the chain's.
LEMMA Between ==
  ASSUME EngineInv, chain.pc \in {"look", "wait", "decide", "inject", "hook", "hookturn"}
  PROVE  /\ chain.parked \in BOOLEAN
         /\ IF chain.parked THEN mutex \in {Engine!Nobody, "client"} ELSE mutex = "run"
         /\ Engine!Exited \in {Engine!Nobody, "client"}
         /\ mutex = "client" => Engine!Exited = "client" /\ chain.parked
  BY DEF EngineInv, MutexInv, ChainTypes, Engine!Exited, Engine!Unlocked, Engine!Nobody

LEMMA EngineDecides ==
  ASSUME Engine!EngineAssumption, EngineInv,
         Engine!Look \/ Engine!SettleOrCancel \/ Engine!DecideAndDispatch
  PROVE  EngineInv'
<1>1. /\ chain.pc \in {"look", "wait", "decide"} /\ turns' = turns /\ running' = running
      /\ mutex' \in {mutex, Engine!Exited}
  BY DEF Engine!Look, Engine!SettleOrCancel, Engine!DecideAndDispatch
<1>2. /\ ChainTypes' /\ chain'.pc \in {"wait", "decide", "inject", "hook", "done"}
      /\ \/ chain'.parked = chain.parked /\ mutex' = mutex /\ chain'.pc # "done"
         \/ chain'.parked /\ chain'.pc = "wait" /\ mutex' = Engine!Exited
         \/ chain'.pc = "done" /\ mutex' = Engine!Exited
         \/ chain'.pc = "done" /\ chain'.parked /\ chain.parked /\ mutex' = mutex
  <2>1. CASE Engine!Look
    <3>1. /\ chain.pc = "look" /\ chain.injections \in 0 .. MaxContinueInjections
          /\ MaxContinueInjections \in Nat
      BY <2>1 DEF Engine!Look, Engine!EngineAssumption, EngineInv, ChainTypes
    <3>2. \/ chain' = [chain EXCEPT !.pc = "done"] /\ mutex' = Engine!Exited
          \/ chain' = [chain EXCEPT !.pc = "done", !.stop = "cancelled"] /\ mutex' = Engine!Exited
          \/ /\ chain.injections < MaxContinueInjections
             /\ chain' = [chain EXCEPT !.pc = "decide"] /\ mutex' = mutex
          \/ /\ chain.injections < MaxContinueInjections
             /\ chain' = [chain EXCEPT !.pc = "wait", !.parked = TRUE] /\ mutex' = Engine!Exited
      BY <2>1 DEF Engine!Look
    <3> QED
      BY <3>1, <3>2 DEF EngineInv, ChainTypes, ChainPc
  <2>2. CASE Engine!SettleOrCancel
    BY <2>2 DEF Engine!SettleOrCancel, EngineInv, ChainTypes, ChainPc
  <2>3. CASE Engine!DecideAndDispatch
    BY <2>3 DEF Engine!DecideAndDispatch, EngineInv, ChainTypes, ChainPc
  <2> QED
    BY <2>1, <2>2, <2>3
<1>3. MutexInv'
  BY <1>1, <1>2, Between DEF MutexInv
<1> QED
  BY <1>1, <1>2, <1>3, Between, ChainMoves

LEMMA HookDone ==
  ASSUME EngineInv, NEW ok \in BOOLEAN, Engine!StepDone(ok), chain.pc \in {"hook", "hookturn"}
  PROVE  /\ ChainTypes' /\ chain'.parked = chain.parked
         /\ \/ chain'.pc = "hook" /\ mutex' = mutex
            \/ chain'.pc = "done" /\ mutex' = Engine!Exited
  BY DEF Engine!StepDone, Engine!HookEnds, EngineInv, ChainTypes, ChainPc

LEMMA EngineHooks ==
  ASSUME EngineInv, Engine!HookStep \/ Engine!HookTurnEnds
  PROVE  EngineInv'
<1>1. ASSUME chain.pc \in {"hook", "hookturn"}, ChainTypes', chain'.parked = chain.parked,
             \/ chain'.pc = "hook" /\ mutex' = mutex
             \/ chain'.pc = "done" /\ mutex' = Engine!Exited,
             turns' = turns,
             \/ running' = running /\ chain.pc = "hook"
             \/ running' = {r \in running : r.id # chain.turn}
      PROVE  EngineInv'
  <2>1. MutexInv'
    BY <1>1, Between DEF MutexInv
  <2> QED
    BY <1>1, <2>1, Between, ChainMoves
<1>2. CASE Engine!HookTurnEnds
  <2>1. PICK stop \in {"end_turn", "error"} :
          Engine!Returns(chain.turn, stop) /\ Engine!StepDone(stop = "end_turn")
    BY <1>2 DEF Engine!HookTurnEnds
  <2>2. chain.pc = "hookturn" /\ turns' = turns /\ (stop = "end_turn") \in BOOLEAN
    BY <1>2 DEF Engine!HookTurnEnds
  <2>3. running' = {r \in running : r.id # chain.turn}
    BY <2>1, <2>2, TurnReturns
  <2> QED
    BY <1>1, <2>1, <2>2, <2>3, HookDone
<1>3. ASSUME chain.pc = "hook", \E status : Engine!HookEnds(status), UNCHANGED <<turns, running>>
      PROVE  EngineInv'
  <2>1. /\ ChainTypes' /\ chain'.parked = chain.parked
        /\ chain'.pc = "done" /\ mutex' = Engine!Exited
    BY <1>3 DEF Engine!HookEnds, EngineInv, ChainTypes, ChainPc
  <2> QED
    BY <1>1, <1>3, <2>1
<1>4. ASSUME chain.pc = "hook", NEW ok \in BOOLEAN, Engine!StepDone(ok), UNCHANGED <<turns, running>>
      PROVE  EngineInv'
  BY <1>1, <1>4, HookDone
<1>5. ASSUME chain.pc = "hook", Engine!Begins("hook"), UNCHANGED mutex,
             chain' = [chain EXCEPT !.pc = "hookturn", !.turn = turns + 1]
      PROVE  EngineInv'
  <2>1. /\ turns' = turns + 1 /\ turns' \in Nat /\ running' \subseteq Turn'
        /\ \A r \in running' : r \in running \/ r = [id |-> turns', by |-> "hook"]
    BY <1>5, TurnBegins
  <2>2. /\ ChainTypes' /\ chain'.pc = "hookturn" /\ chain'.turn = turns'
        /\ chain'.parked = chain.parked
    BY <1>5, <2>1 DEF EngineInv, ChainTypes, ChainPc
  <2>3. MutexInv'
    BY <1>5, <2>2, Between DEF MutexInv
  <2>4. \A r \in running : r.by # "chain" /\ r.by # "hook"
    BY <1>5 DEF EngineInv, RunningInv
  <2>5. RunningInv'
    BY <1>5, <2>1, <2>2, <2>4 DEF EngineInv, RunningInv
  <2> QED
    BY <2>2, <2>3, <2>5 DEF EngineInv
<1>6. CASE Engine!HookStep
  <2>1. chain.pc = "hook"
    BY <1>6 DEF Engine!HookStep
  <2>2. \/ UNCHANGED <<turns, running>> /\ \E status : Engine!HookEnds(status)
        \/ /\ Engine!Begins("hook") /\ UNCHANGED mutex
           /\ chain' = [chain EXCEPT !.pc = "hookturn", !.turn = turns + 1]
        \/ UNCHANGED <<turns, running>> /\ \E ok \in BOOLEAN : Engine!StepDone(ok)
    BY <1>6 DEF Engine!HookStep
  <2> QED
    BY <1>3, <1>4, <1>5, <2>1, <2>2
<1> QED
  BY <1>2, <1>6

LEMMA EngineOthers ==
  ASSUME EngineInv, Engine!ClientTurnEnds \/ Engine!Resume \/ Engine!Cancel
                    \/ UNCHANGED Engine!vars
  PROVE  EngineInv'
<1>1. CASE Engine!ClientTurnEnds
  <2>1. PICK r \in running : r.by = "client" /\ \E stop : Engine!Returns(r.id, stop)
    BY <1>1 DEF Engine!ClientTurnEnds
  <2>2. mutex = "client" /\ mutex' = Engine!Nobody /\ turns' = turns /\ chain' = chain
    BY <1>1 DEF Engine!ClientTurnEnds
  <2>3. running' = {t \in running : t.id # r.id} /\ running' \subseteq Turn' /\ turns' \in Nat
    BY <2>1, <2>2, TurnReturns
  <2>4. \A t \in running' : t.by # "client"
    BY <2>1, <2>3 DEF EngineInv, RunningInv
  <2>5. ChainTypes' /\ MutexInv'
    BY <2>2 DEF EngineInv, ChainTypes, MutexInv, Engine!Nobody
  <2>6. RunningInv'
    BY <2>2, <2>3, <2>4 DEF EngineInv, RunningInv
  <2> QED
    BY <2>5, <2>6 DEF EngineInv
<1>2. CASE Engine!Resume
  BY <1>2 DEF Engine!Resume, EngineInv, ChainTypes, RunningInv, MutexInv, Turn
<1>3. CASE Engine!Cancel
  <2>1. /\ chain' = [chain EXCEPT !.cancelled = TRUE] /\ UNCHANGED <<turns, running, mutex>>
    BY <1>3 DEF Engine!Cancel
  <2>2. /\ ChainTypes' /\ chain'.pc = chain.pc /\ chain'.parked = chain.parked
        /\ chain'.turn = chain.turn
    BY <2>1 DEF EngineInv, ChainTypes
  <2>3. MutexInv' /\ RunningInv'
    BY <2>1, <2>2 DEF EngineInv, RunningInv, MutexInv, Turn
  <2> QED
    BY <2>2, <2>3 DEF EngineInv
<1>4. CASE UNCHANGED Engine!vars
  BY <1>4 DEF Engine!vars, EngineInv, ChainTypes, RunningInv, MutexInv, Turn
<1> QED
  BY <1>1, <1>2, <1>3, <1>4

LEMMA EngineStarts ==
  ASSUME Engine!EngineAssumption, Engine!Init
  PROVE  EngineInv
<1>1. /\ chain = Engine!Chain0 /\ turns = 1 /\ running = {} /\ mutex = Engine!Nobody
  BY DEF Engine!Init
<1>2. ChainTypes /\ chain.pc = "new" /\ ~chain.parked
  <2>1. /\ DOMAIN chain = {"pc", "turn", "injections", "stop", "failed", "parked", "cancelled", "step"}
        /\ chain.pc = "new" /\ chain.injections = 0 /\ chain.parked = FALSE
    BY <1>1 DEF Engine!Chain0
  <2>2. 0 \in 0 .. MaxContinueInjections
    BY DEF Engine!EngineAssumption
  <2> QED
    BY <2>1, <2>2 DEF ChainTypes, ChainPc
<1> QED
  BY <1>1, <1>2 DEF EngineInv, RunningInv, MutexInv

\* The owner of a running turn is where it should be, and the mutex with it.
THEOREM EngineInvariance ==
  ASSUME Engine!EngineAssumption
  PROVE  Engine!Spec => []EngineInv
<1>1. Engine!Init => EngineInv
  BY EngineStarts
<1>2. EngineInv /\ [Engine!Next]_(Engine!vars) => EngineInv'
  BY EngineBegins, EngineTurnEnds, EngineDecides, EngineHooks, EngineOthers
     DEF Engine!Next, Engine!ChainStep
<1> QED
  BY <1>1, <1>2, PTL DEF Engine!Spec

\* The chain's turns and the client's exclude each other before and after the
\* park, a finished chain holds nothing, and no more than one hook's turn runs
\* beside them (runOneTurn, enginebridge.go Run).
THEOREM TurnsQueueUp ==
  ASSUME Engine!EngineAssumption
  PROVE  Engine!Spec => [](Engine!TypeOK /\ Engine!TurnsQueue)
<1>1. ASSUME EngineInv PROVE Engine!TypeOK /\ Engine!TurnsQueue
  <2> DEFINE Own == {r \in running : r.by # "hook"}
             Hooks == {r \in running : r.by = "hook"}
  <2>1. /\ IsFiniteSet(Own) /\ Cardinality(Own) \in Nat /\ Cardinality(Own) <= 1
        /\ IsFiniteSet(Hooks) /\ Cardinality(Hooks) \in Nat /\ Cardinality(Hooks) <= 1
    <3>1. \A x, y \in Own : x = y
      BY <1>1, OwnersDiffer
    <3>2. \A x, y \in Hooks : x = y
      BY <1>1, OwnersDiffer
    <3> HIDE DEF Own, Hooks
    <3> QED
      BY <3>1, <3>2, AtMostOne
  <2>2. running = Own \cup Hooks /\ Own \cap Hooks = {}
    OBVIOUS
  <2>3. Cardinality(running) <= 2
    <3>1. Cardinality(Own \cup Hooks) = Cardinality(Own) + Cardinality(Hooks)
                                        - Cardinality(Own \cap Hooks)
      BY <2>1, FS_Union
    <3>2. Cardinality({}) = 0
      BY FS_EmptySet
    <3>3. Cardinality(running) = Cardinality(Own) + Cardinality(Hooks)
      <4>1. Cardinality(running) = Cardinality(Own) + Cardinality(Hooks) - Cardinality({})
        BY <2>2, <3>1
      <4> QED
        BY <2>1, <3>2, <4>1
    <3> QED
      BY <2>1, <3>3
  <2>4. Engine!TurnsQueue
    BY <1>1, <2>1, EngineCounts DEF Engine!TurnsQueue, EngineInv, MutexInv
  <2>5. Engine!TypeOK
    BY <1>1, <2>3, EngineCounts DEF Engine!TypeOK, EngineInv, MutexInv, ChainTypes, ChainPc
  <2> QED
    BY <2>4, <2>5
<1> QED
  BY <1>1, EngineInvariance, PTL
=============================================================================
