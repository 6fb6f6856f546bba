--------------------------- MODULE ConfigSurface ---------------------------
(***************************************************************************)
(* The editor-driven configuration surface                                 *)
(* (internal/acpserve/config_surface.go) and what its hooks reach in the   *)
(* runner: two layer files (project over global over the embedded floor),  *)
(* the in-memory blob of client defaults below them, and the live state    *)
(* that a Set changes after it has persisted.                              *)
(*                                                                         *)
(* Set holds the surface's mutex for validation, persistence and the       *)
(* frames of its answer, and lets it go for the live apply - which waits   *)
(* for every session's turn - and for the notification.                    *)
(***************************************************************************)
EXTENDS Integers, FiniteSets, Sequences

CONSTANTS
  Request,        \* concurrent session/set_config_option requests
  Session,        \* session ids
  Model, Tier,    \* declared models and tiers
  SessionProvider, Provider,  \* the serve's provider; Provider[m] of a model
  FloorTier, FloorModel,      \* the embedded floor's tier and model per tier
  Fallbacks,      \* Fallbacks[t]: the fallback models of a tier, in order
  Denied,         \* models whose replayed breaker is open
  Unset,          \* a slot a layer does not set
  MaxSets,        \* bound: Set calls
  MaxEdits        \* bound: hand edits and restarts

Option == {"model", "tier", "mode", "compaction", "grace", "cap"}
Scope == {"project", "global"}
Mode == {"ungated", "gated"}
Pct == {65, 80, 0}          \* 0 stands for a value out of 1..100
SurfaceAssumption == Unset \notin Pct
Days == {30, 7, 0}          \* 0 stands for a value below the minimum
Cap == {8, 4, 0}            \* a background cap; the checkpoint bounds are handled alike
Default == [mode |-> "ungated", compaction |-> 80, grace |-> 30, cap |-> 8]

\* A layer file: session_tier, tiers.<t>.model, and one scalar per option.
Layer == [tier : Tier \cup {Unset}, model : [Tier -> Model \cup {Unset}],
          mode : Mode \cup {Unset}, compaction : Pct \cup {Unset}, grace : Days \cup {Unset},
          cap : Cap \cup {Unset}]
EmptyLayer == [tier |-> Unset, model |-> [t \in Tier |-> Unset],
               mode |-> Unset, compaction |-> Unset, grace |-> Unset, cap |-> Unset]
NoFills == [o \in Option |-> Unset]
Idle == [pc |-> "idle", option |-> Unset, target |-> Unset, frames |-> NoFills, left |-> {}]

VARIABLES
  layer,      \* the two files
  fills,      \* ConfigSurface.blobFills
  liveMode,   \* Runner.permMode
  liveComp,   \* the compaction threshold the runner hands its sessions
  effModel,   \* Runner.effectiveModel
  sessModel,  \* the model a live session stamps (Unset: no such session)
  busy,       \* sessions whose turn mutex is held
  req,        \* the progress of each Set request
  advertised, \* the option values the client was last told
  sets, edits,
  overlapped  \* history: two Sets of this serve were in progress together

live == <<liveMode, liveComp, effModel>>
vars == <<layer, fills, liveMode, liveComp, effModel, sessModel, busy, req, advertised,
          sets, edits, overlapped>>

-----------------------------------------------------------------------------
(* Resolution. *)
First(a, b) == IF a # Unset THEN a ELSE b
Layered(o) == First(layer["project"][o], layer["global"][o])

\* The denied primary gives way to the first allowed candidate of the session
\* provider; with none allowed it stays.
DemoteIfDenied(t, m) ==
  LET chain == SelectSeq(<<m>> \o Fallbacks[t], LAMBDA x : Provider[x] = SessionProvider)
      ok == {i \in 1..Len(chain) : chain[i] \notin Denied} IN
  IF Provider[m] # SessionProvider \/ ok = {} THEN m
  ELSE chain[CHOOSE i \in ok : \A j \in ok : i <= j]

TierModel(p, g, t) == DemoteIfDenied(t, First(First(p.model[t], g.model[t]), FloorModel[t]))

\* The combined view: a blob fill counts only in a slot no layer sets.
EffTier == First(First(Layered("tier"), fills["tier"]), FloorTier)
EffModel ==
  IF fills["model"] # Unset /\ \A s \in Scope : layer[s].model[EffTier] = Unset
    THEN fills["model"] ELSE TierModel(layer["project"], layer["global"], EffTier)
EffPermMode == liveMode     \* the accessor is wired and never empty
EffCap == First(Layered("cap"), Default["cap"])     \* no blob fill reaches the caps
EffOf(o) == CASE o = "model" -> EffModel
              [] o = "tier"  -> EffTier
              [] o = "mode"  -> EffPermMode
              [] o = "cap"   -> EffCap
              [] OTHER -> First(First(Layered(o), fills[o]), Default[o])

\* The global layer alone, without project or blob.
GlobalTier == First(layer["global"].tier, FloorTier)
GlobalOf(o) == CASE o = "model" -> TierModel(EmptyLayer, layer["global"], GlobalTier)
                 [] o = "tier"  -> GlobalTier
                 [] OTHER -> First(layer["global"][o], Default[o])

Frames == [o \in Option |-> EffOf(o)]

\* EffectivePermMode, EffectiveTombstoneGrace, effectiveCompactionPairLocked.
BootMode == First(Layered("mode"), "ungated")
UsableGrace == IF EffOf("grace") < 1 THEN Default["grace"] ELSE EffOf("grace")
UsableCap == IF EffCap < 1 THEN Default["cap"] ELSE EffCap
CompactionPair == IF EffOf("compaction") \notin 1..100 THEN Default["compaction"]
                  ELSE EffOf("compaction")

\* No Set is in progress.
Quiet == \A r \in Request : req[r] = Idle

-----------------------------------------------------------------------------
Init ==
  /\ layer = [s \in Scope |-> EmptyLayer]
  /\ fills = NoFills
  /\ liveMode = "ungated" /\ liveComp = 80 /\ effModel = Unset
  /\ sessModel = [s \in Session |-> Unset]
  /\ busy = {}
  /\ req = [r \in Request |-> Idle]
  /\ advertised = Frames
  /\ sets = 0 /\ edits = 0 /\ overlapped = FALSE

Values(o) == CASE o = "model" -> Model [] o = "tier" -> Tier [] o = "mode" -> Mode
               [] o = "compaction" -> Pct [] o = "grace" -> Days [] OTHER -> Cap
TypeOK ==
  /\ layer \in [Scope -> Layer]
  /\ \A o \in Option : fills[o] = Unset \/ fills[o] \in Values(o)
  /\ liveMode \in Mode /\ liveComp \in 1..100 /\ effModel \in Model \cup {Unset}
  /\ sessModel \in [Session -> Model \cup {Unset}]
  /\ \A r \in Request : req[r].pc \in {"idle", "apply", "push", "stamp", "notify"}

Basis(s, o) == IF s = "global" THEN GlobalOf(o) ELSE EffOf(o)

\* persistLocked and its siblings: one key of the addressed layer.  The model
\* goes under the combined view's tier, whatever the scope.
Persisted(s, o, v) ==
  IF o = "model" THEN [layer EXCEPT ![s].model[EffTier] = v] ELSE [layer EXCEPT ![s][o] = v]

\* Set under the mutex, when it changes something: the layer is rewritten and
\* the answer's frames are computed - before the apply.  target is what the
\* caller applies after the mutex (Unset: nothing).
Write(r, s, o, v) ==
  /\ req[r] = Idle /\ sets < MaxSets /\ v # Basis(s, o)
  /\ layer' = Persisted(s, o, v)
  /\ sets' = sets + 1
  /\ overlapped' = (overlapped \/ ~Quiet)
  /\ UNCHANGED <<liveMode, liveComp, effModel, sessModel, busy, advertised, edits>>
Answer(r, o, target) ==
  req' = [req EXCEPT ![r] = [pc |-> IF target = Unset THEN "notify" ELSE "apply",
                             option |-> o, target |-> target, frames |-> Frames', left |-> {}]]
Unfill(o) == fills' = [fills EXCEPT ![o] = Unset]

\* The threshold handler hands the effective pair to the apply.
SetCompaction(r, s, v) ==
  /\ v \in 1..100
  /\ Write(r, s, "compaction", v) /\ Unfill("compaction")
  /\ Answer(r, "compaction", CompactionPair')

SetPermMode(r, s, v) ==
  /\ Write(r, s, "mode", v) /\ Unfill("mode")
  /\ Answer(r, "mode", v)

\* Persist-as-apply: the next sweep, or the next session built, reads the file.
SetTombstoneGrace(r, s, v) ==
  /\ v >= 1
  /\ Write(r, s, "grace", v) /\ Unfill("grace")
  /\ Answer(r, "grace", Unset)
SetBackgroundCap(r, s, v) ==
  /\ v >= 1
  /\ Write(r, s, "cap", v) /\ UNCHANGED fills
  /\ Answer(r, "cap", Unset)

\* A model, or a tier's resolved model, is applied when the session's provider
\* serves it; otherwise it is only persisted.
ApplyTarget(o, v) ==
  LET m == IF o = "tier" THEN TierModel(layer["project"], layer["global"], v) ELSE v IN
  IF Provider[m] = SessionProvider THEN m ELSE Unset
SetModelOrTier(r, s, o, v) ==
  /\ Write(r, s, o, v) /\ Unfill(o)
  /\ Answer(r, o, ApplyTarget(o, v))

\* A redundant value is answered without a write; an invalid value, an absent
\* global layer or a failed write leaves everything alone.
SetAnswers(r, s, o, v) ==
  /\ req[r] = Idle /\ sets < MaxSets
  /\ v = Basis(s, o)
  /\ sets' = sets + 1
  /\ advertised' = Frames
  /\ UNCHANGED <<layer, fills, liveMode, liveComp, effModel, sessModel, busy, req, edits, overlapped>>

SetFails(r) ==
  /\ req[r] = Idle /\ sets < MaxSets
  /\ sets' = sets + 1
  /\ UNCHANGED <<layer, fills, liveMode, liveComp, effModel, sessModel, busy, req, advertised, edits, overlapped>>

\* The hooks.  ApplyTurnModel stores the model and then, in a second critical
\* section, takes the sessions to stamp.
Apply(r) ==
  /\ req[r].pc = "apply"
  /\ CASE req[r].option = "mode" ->
            /\ liveMode' = req[r].target
            /\ req' = [req EXCEPT ![r].pc = "notify"]
            /\ UNCHANGED <<liveComp, effModel>>
       [] req[r].option = "compaction" ->
            /\ liveComp' = req[r].target
            /\ req' = [req EXCEPT ![r].pc = "notify"]
            /\ UNCHANGED <<liveMode, effModel>>
       [] OTHER ->
            /\ effModel' = req[r].target
            /\ req' = [req EXCEPT ![r].pc = "push"]
            /\ UNCHANGED <<liveMode, liveComp>>
  /\ UNCHANGED <<layer, fills, sessModel, busy, advertised, sets, edits, overlapped>>

Taken(r) ==
  /\ req[r].pc = "push"
  /\ req' = [req EXCEPT ![r] = [@ EXCEPT !.pc = "stamp", !.left = {s \in Session : sessModel[s] # Unset}]]
  /\ UNCHANGED <<layer, fills, live, sessModel, busy, advertised, sets, edits, overlapped>>

\* SetTurnModel under the session's turn mutex: a running turn is waited for.
\* Mutant StampTry: a session whose turn runs is skipped.
StampTry(r, s) ==
  /\ req[r].pc = "stamp" /\ s \in req[r].left
  /\ sessModel' = [sessModel EXCEPT ![s] = IF @ = Unset \/ s \in busy THEN @ ELSE req[r].target]
  /\ req' = [req EXCEPT ![r].left = @ \ {s}]
  /\ UNCHANGED <<layer, fills, live, busy, advertised, sets, edits, overlapped>>
Stamp(r, s) ==
  /\ req[r].pc = "stamp" /\ s \in req[r].left /\ s \notin busy
  /\ sessModel' = [sessModel EXCEPT ![s] = IF @ = Unset THEN Unset ELSE req[r].target]
  /\ req' = [req EXCEPT ![r].left = @ \ {s}]
  /\ UNCHANGED <<layer, fills, live, busy, advertised, sets, edits, overlapped>>

Notify(r) ==
  /\ req[r].pc = "notify" \/ (req[r].pc = "stamp" /\ req[r].left = {})
  /\ advertised' = req[r].frames
  /\ req' = [req EXCEPT ![r] = Idle]
  /\ UNCHANGED <<layer, fills, live, sessModel, busy, sets, edits, overlapped>>

-----------------------------------------------------------------------------
\* initialize's _meta blob, the connection's first request: it fills slots in
\* memory, and a model it moves becomes the stamp of later sessions.
ApplyBlobDefaults(f) ==
  /\ fills = NoFills /\ f # NoFills /\ edits < MaxEdits /\ Quiet
  /\ \A s \in Session : sessModel[s] = Unset
  /\ fills' = f
  /\ UNCHANGED <<layer, liveMode, liveComp, sessModel, busy, req, sets, overlapped>>
  /\ effModel' = IF EffModel' # EffModel THEN EffModel' ELSE effModel
  /\ advertised' = IF EffTier' # EffTier \/ EffModel' # EffModel
                        \/ EffOf("compaction")' # EffOf("compaction")
                        \/ EffOf("grace")' # EffOf("grace")
                     THEN Frames' ELSE advertised
  /\ edits' = edits + 1

\* sessionFor stamps the effective model, or the default when none was applied.
NewSession(s) ==
  /\ sessModel[s] = Unset
  /\ sessModel' = [sessModel EXCEPT ![s] = First(effModel, TierModel(layer["project"], layer["global"],
                                                              First(Layered("tier"), FloorTier)))]
  /\ UNCHANGED <<layer, fills, live, busy, req, advertised, sets, edits, overlapped>>

TurnStarts(s) ==
  /\ sessModel[s] # Unset /\ s \notin busy
  /\ busy' = busy \cup {s}
  /\ UNCHANGED <<layer, fills, live, sessModel, req, advertised, sets, edits, overlapped>>

TurnEnds(s) ==
  /\ s \in busy
  /\ busy' = busy \ {s}
  /\ UNCHANGED <<layer, fills, live, sessModel, req, advertised, sets, edits, overlapped>>

\* The serve is started again: the boot resolves the live state from the files.
Restart ==
  /\ edits < MaxEdits /\ Quiet
  /\ busy = {}
  /\ edits' = edits + 1
  /\ fills' = NoFills
  /\ liveMode' = BootMode
  /\ overlapped' = FALSE
  /\ UNCHANGED <<layer, busy, req, sets>>
  /\ liveComp' = CompactionPair'
  /\ effModel' = Unset
  /\ sessModel' = [s \in Session |-> Unset]
  /\ advertised' = Frames'

Fill == {[NoFills EXCEPT !["model"] = m, !["tier"] = t, !["compaction"] = c] :
           m \in Model \cup {Unset}, t \in Tier \cup {Unset}, c \in {65, Unset}}

Next ==
  \/ \E r \in Request :
       \/ \E s \in Scope :
            \/ \E v \in Pct : SetCompaction(r, s, v)
            \/ \E v \in Mode : SetPermMode(r, s, v)
            \/ \E v \in Days : SetTombstoneGrace(r, s, v)
            \/ \E v \in Cap : SetBackgroundCap(r, s, v)
            \/ \E o \in {"model", "tier"} : \E v \in Values(o) : SetModelOrTier(r, s, o, v)
            \/ \E o \in Option : \E v \in Values(o) : SetAnswers(r, s, o, v)
       \/ SetFails(r) \/ Apply(r) \/ Taken(r) \/ Notify(r)
       \/ \E s \in Session : Stamp(r, s)
  \/ \E s \in Session : NewSession(s) \/ TurnStarts(s) \/ TurnEnds(s)
  \/ \E f \in Fill : ApplyBlobDefaults(f)
  \/ Restart

Spec == Init /\ [][Next]_vars

-----------------------------------------------------------------------------
(* Properties. *)

(* The retention and the caps in use are the ones the options show: no     *)
(* accepted Set, fill or restart leaves the files with a value that        *)
(* EffectiveTombstoneGrace or EffectiveBackgroundCaps replaces by a        *)
(* default the client never sees (config_surface.go).                      *)
ShownIsUsed == UsableGrace = Frames["grace"] /\ UsableCap = Frames["cap"]

(***************************************************************************)
(* ModelReachesSessions: when no Set is in progress and none overlapped    *)
(* another, every live session stamps the model that was applied last,     *)
(* also a session built while the apply was under way (runtime.go          *)
(* 3339-3367: the model is stored before the sessions are taken, and       *)
(* construction reads it under the same lock).                             *)
(***************************************************************************)
AllStamped == effModel # Unset => \A s \in Session : sessModel[s] \in {Unset, effModel}
ModelReachesSessions == (Quiet /\ ~overlapped) => AllStamped

\* What ApplyTurnModel says of itself (runtime.go 3332-3338): the next request of
\* every session carries the new model.
\* Refuted by two Sets in progress together: the one stored first may stamp last.
ModelSettles == Quiet => AllStamped

(***************************************************************************)
(* CompactionLive: when no Set is in progress and none overlapped another, *)
(* the compaction threshold the sessions run on is the one a restart would *)
(* resolve, whichever scope was written (config_surface.go 906-916, 1012). *)
(***************************************************************************)
CompactionLive ==
  (Quiet /\ ~overlapped /\ fills = NoFills) => liveComp = CompactionPair

(***************************************************************************)
(* AdvertisedMode: "the advertisement can never show a mode the gate is    *)
(* not enforcing" (config_surface.go 1066-1071).  It does not hold: the    *)
(* answer's frames are computed before the accessor is flipped.            *)
(***************************************************************************)
AdvertisedMode == Quiet => advertised["mode"] = liveMode

\* ModeSurvivesRestart: with no Set in progress the mode enforced is the mode
\* the layers resolve to at the next boot (config_surface.go 286-288).
\* Refuted by three Sets: one of the global layer is applied though the project
\* layer hides it.
ModeSurvivesRestart == Quiet => liveMode = BootMode
=============================================================================
