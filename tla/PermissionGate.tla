--------------------------- MODULE PermissionGate ---------------------------
(* kit/session/gate.go, planmode.go, the permission arm of ask.go,          *)
(* internal/perm and the hook verdicts of internal/ecosys: what decides     *)
(* whether a tool call runs, and the file that remembers the operator's     *)
(* "always" answers.                                                        *)
EXTENDS Naturals, Sequences, FiniteSets, SequencesExt

CONSTANTS
  Scope,      \* hook scopes that have a hook; "user" among them
  Call,       \* call slots, 1..n in the order the model emitted them
  Request,    \* what a call may be: [tool, subs], subs as SplitCompound cuts it
  AskClass,   \* tools that mutate or are not concurrency safe (gateAskClass)
  Mutating,   \* tools plan mode refuses (catalog mutability and the extra set)
  Documents,  \* permission documents an operator may write by hand
  MaxBatches, \* bound: batches of calls
  MaxEdits    \* bound: hand edits and restarts

VARIABLES
  slot,      \* per call: its request, where it stands, and whether it may run
  turn,      \* "idle", "gating", or "suspended" on dialogs
  automation, mode, degraded, planOn,
  store,     \* the open store's lists, or Closed
  file,      \* the document on disk: lists, Missing or Corrupt
  saving,    \* the persist in progress, or Quiet
  acked,     \* entries a persist acknowledged
  edited,    \* the file was edited by hand since it was opened or saved
  batches, edits

gateVars == <<turn, automation, mode, degraded, planOn>>
storeVars == <<store, file, saving, acked, edited>>
vars == <<slot, gateVars, storeVars, batches, edits>>

(* Evaluate: only a Bash command is cut in parts, and it has one part      *)
(* at least; any other tool is matched as a whole.                         *)
RequestAssumption ==
  \A r \in Request : /\ Len(r.subs) \in Nat \ {0} /\ DOMAIN r.subs = 1..Len(r.subs)
                     /\ r.tool # <<"Bash">> => Len(r.subs) = 1

(* A document that parses has its three lists.                             *)
DocumentAssumption ==
  \A d \in Documents : d = [is |-> "ok", deny |-> d.deny, ask |-> d.ask, allow |-> d.allow]

(* A document or a store: its state and its three rule lists. *)
Empty(is) == [is |-> is, deny |-> {}, ask |-> {}, allow |-> {}]
Closed == Empty("closed")
Missing == Empty("missing")
Corrupt == Empty("corrupt")
Floor == Empty("ok")
Quiet == [at |-> "quiet", call |-> 0, env |-> Missing, entry |-> <<>>]
NoReq == [tool |-> <<>>, subs |-> <<>>]
NoCall == [req |-> NoReq, at |-> "free", ok |-> FALSE]

Bash == <<"Bash">>
Task == <<"Task">>
EnterPlanMode == <<"EnterPlanMode">>

(***************************************************************************)
(* Rules.  A tool name is the sequence of its parts (mcp, server, tool); a *)
(* selector is such a sequence with a star flag; a specifier is a command  *)
(* prefix or "" for the bare rule.                                         *)
(***************************************************************************)
MatchesTool(r, tool) ==
  IF r.star THEN IsPrefix(r.tool, tool)
  ELSE r.tool = tool \/ (r.tool[1] = "mcp" /\ IsStrictPrefix(r.tool, tool))
Matches(r, tool, sub) == MatchesTool(r, tool) /\ (r.spec = "" \/ r.spec = sub.word)

UnanchoredAllowGlob(r) == r.star /\ ~(r.tool # <<>> /\ r.tool[1] = "mcp" /\ Len(r.tool) > 1)
NewRuleSet(env) == [env EXCEPT !.allow = {r \in @ : ~UnanchoredAllowGlob(r)}]

EvaluateSingle(rs, tool, sub) ==
  IF \E r \in rs.deny : Matches(r, tool, sub) THEN "deny"
  ELSE IF \E r \in rs.ask : Matches(r, tool, sub) THEN "ask"
  ELSE IF ~sub.subst /\ \E r \in rs.allow : Matches(r, tool, sub) THEN "allow"
  ELSE "unmatched"

\* Mutant: one allowed part of a command allows it.
EvaluateCompoundAnyAllow(rs, tool, subs) ==
  LET v == {EvaluateSingle(rs, tool, subs[i]) : i \in DOMAIN subs}
  IN  IF "deny" \in v THEN "deny" ELSE IF "ask" \in v THEN "ask"
      ELSE IF "allow" \in v THEN "allow" ELSE "unmatched"
EvaluateCompound(rs, tool, subs) ==
  LET v == {EvaluateSingle(rs, tool, subs[i]) : i \in DOMAIN subs}
  IN  IF "deny" \in v THEN "deny" ELSE IF "ask" \in v THEN "ask"
      ELSE IF "unmatched" \in v THEN "unmatched" ELSE "allow"

Evaluate(rs, req) ==
  IF req.tool = Bash /\ Len(req.subs) > 1 THEN EvaluateCompound(rs, req.tool, req.subs)
  ELSE EvaluateSingle(rs, req.tool, req.subs[1])

(***************************************************************************)
(* Hook verdicts: one result per scope that has a matching hook.  A hook   *)
(* that fails, times out or prints no decision says "none".                *)
(***************************************************************************)
HookResults == [Scope -> {"deny", "ask", "allow", "none"}]
Says(h, v) == \E s \in Scope : h[s] = v

ResolveVerdict(h) ==
  IF Says(h, "deny") THEN "deny" ELSE IF Says(h, "ask") THEN "ask"
  ELSE IF h["user"] = "allow" THEN "allow" ELSE "none"

(***************************************************************************)
(* gateCall.                                                               *)
(***************************************************************************)
Rules == IF store = Closed THEN Floor ELSE NewRuleSet(store)

AskPath(fromHook) ==
  IF automation THEN "refused"
  ELSE IF ~fromHook /\ mode # "gated" THEN "execute"
  ELSE IF degraded THEN "refused" ELSE "held"

GateCall(req, h) ==
  LET hook == ResolveVerdict(h)
      rule == Evaluate(Rules, req)
  IN  CASE hook = "deny"  -> "refused"
        [] hook = "allow" -> "execute"
        [] hook = "ask"   -> AskPath(TRUE)
        [] OTHER -> CASE rule = "deny"  -> "refused"
                      [] rule = "allow" -> "execute"
                      [] rule = "unmatched" /\ req.tool \notin AskClass -> "execute"
                      [] OTHER -> AskPath(FALSE)

(* For the properties, read off the documents and the hooks themselves:    *)
(* the call may run with no dialog.  A user-scope hook allowed it and no   *)
(* hook objected; or no hook and no deny rule objected to any command, and *)
(* every command is allowed, or the tool needs no approval and no ask rule *)
(* covers it, or a human who wants no dialogs is there.                    *)
Justified(req, h) ==
  LET Covered(rules, i) == \E r \in rules : Matches(r, req.tool, req.subs[i])
      subs == DOMAIN req.subs
  IN  /\ ~Says(h, "deny") /\ ~Says(h, "ask")
      /\ \/ h["user"] = "allow"
         \/ /\ \A i \in subs : ~Covered(Rules.deny, i)
            /\ \/ mode # "gated" /\ ~automation
               \/ /\ \A i \in subs : ~Covered(Rules.ask, i)
                  /\ \/ req.tool \notin AskClass
                     \/ \A i \in subs : ~req.subs[i].subst /\ Covered(Rules.allow, i)

Init ==
  /\ slot = [c \in Call |-> NoCall]
  /\ turn = "idle" /\ automation = FALSE /\ degraded = FALSE /\ planOn = FALSE
  /\ mode = "ungated"
  /\ file \in Documents \cup {Missing}
  /\ store = Closed /\ saving = Quiet /\ acked = {} /\ edited = FALSE
  /\ batches = 0 /\ edits = 0

At(s) == {c \in Call : slot[c].at = s}
Free == {c \in Call : slot[c].at \notin {"pending", "batch", "held", "asked"}}

(* The model's response: its calls are recorded, then taken one by one.    *)
Batch(cs, f, auto) ==
  /\ turn = "idle" \/ (turn = "suspended" /\ saving = Quiet)
  /\ store # Closed \/ file = Missing
  /\ batches < MaxBatches
  /\ (turn = "suspended") => auto = automation
  /\ slot' = [c \in Call |-> IF c \in cs THEN [req |-> f[c], at |-> "pending", ok |-> FALSE] ELSE slot[c]]
  /\ turn' = "gating" /\ automation' = auto
  /\ batches' = batches + 1
  /\ UNCHANGED <<mode, degraded, planOn, storeVars, edits>>

PlanModeBlocks(req) == planOn /\ req.tool \in Mutating

(* A call that is over keeps only how it ended. *)
Moved(c, to, ok) == [req |-> IF to \in {"batch", "held", "asked"} THEN slot[c].req ELSE NoReq, at |-> to, ok |-> ok]
Moves(c, to, ok) == slot' = [slot EXCEPT ![c] = Moved(c, to, ok)]

(* The loop over the response's calls: a subagent call is gated and run on *)
(* the spot, any other passes the plan-mode gate and then the permission   *)
(* gate, and is batched, held for a dialog, or answered with a refusal.    *)
GateOne(c, h) ==
  /\ turn = "gating" /\ c \in At("pending")
  /\ \A d \in At("pending") : c <= d
  /\ LET req == slot[c].req
         v == GateCall(req, h)
     IN  IF req.tool # Task /\ PlanModeBlocks(req) THEN Moves(c, "refused", FALSE)
         ELSE Moves(c, IF v # "execute" THEN v ELSE IF req.tool = Task THEN "ran" ELSE "batch", Justified(req, h))
  /\ UNCHANGED <<gateVars, storeVars, batches, edits>>

(* DispatchBatch and what follows it: every batched call runs, a plan-mode *)
(* entry takes effect, then each held call opens its dialog.               *)
Dispatch ==
  /\ turn = "gating" /\ At("pending") = {}
  /\ slot' = [c \in Call |-> CASE slot[c].at = "batch" -> Moved(c, "ran", slot[c].ok)
                             [] slot[c].at = "held" -> Moved(c, "asked", FALSE)
                             [] OTHER -> slot[c]]
  /\ planOn' = (planOn \/ \E c \in At("batch") : slot[c].req.tool = EnterPlanMode)
  /\ turn' = IF At("held") \cup At("asked") # {} THEN "suspended" ELSE "idle"
  /\ UNCHANGED <<automation, mode, degraded, storeVars, batches, edits>>

(***************************************************************************)
(* The dialog's answer: resolvePermissionOutcome and resumePermissionAsk.  *)
(***************************************************************************)
Asked(c) == turn = "suspended" /\ saving = Quiet /\ c \in At("asked") /\ \A d \in At("asked") : c <= d

(* executeGatedCall runs the call as the loop would have. *)
Runs(c) ==
  /\ Moves(c, "ran", TRUE)
  /\ planOn' = (planOn \/ slot[c].req.tool = EnterPlanMode)

(* A failed surface, an unknown option, a dismissal or reject_once.  A     *)
(* client that does not support the request is not asked again.            *)
Declines(c, unsupported) ==
  /\ Asked(c)
  /\ Moves(c, "refused", FALSE)
  /\ degraded' = (degraded \/ unsupported)
  /\ turn' = IF At("asked") = {c} THEN "idle" ELSE "suspended"
  /\ UNCHANGED <<automation, mode, planOn, storeVars, batches, edits>>

AllowOnce(c) ==
  /\ Asked(c)
  /\ Runs(c)
  /\ turn' = IF At("asked") = {c} THEN "idle" ELSE "suspended"
  /\ UNCHANGED <<automation, mode, degraded, storeVars, batches, edits>>

Entry(c) == [tool |-> slot[c].req.tool, star |-> FALSE, spec |-> ""]

(* allow_always and reject_always persist first; the store's persist goes  *)
(* through its steps below and Answered takes up the call again.           *)
Always(c, list) ==
  /\ Asked(c)
  /\ saving' = [at |-> IF store = Closed THEN "failed" ELSE IF Entry(c) \in store[list] THEN "noop" ELSE "write",
                call |-> c, entry |-> <<list, Entry(c)>>,
                env |-> IF store = Closed THEN Missing ELSE [store EXCEPT ![list] = @ \cup {Entry(c)}]]
  /\ UNCHANGED <<slot, gateVars, store, file, acked, edited, batches, edits>>

(* save: the temporary file, then the rename, then the memory.  Either can *)
(* fail, which leaves both as they were.                                   *)
SaveRename ==
  /\ saving.at = "write"
  /\ \/ file' = saving.env /\ edited' = FALSE /\ saving' = [saving EXCEPT !.at = "memory"]
     \/ saving' = [saving EXCEPT !.at = "failed"] /\ UNCHANGED <<file, edited>>
  /\ UNCHANGED <<slot, gateVars, store, acked, batches, edits>>

SaveMemory ==
  /\ saving.at = "memory"
  /\ store' = saving.env
  /\ saving' = [saving EXCEPT !.at = "noop"]
  /\ UNCHANGED <<slot, gateVars, file, acked, edited, batches, edits>>

Answered ==
  /\ saving.at \in {"noop", "failed"}
  /\ LET c == saving.call IN
       /\ IF saving.entry[1] = "allow" THEN Runs(c)
          ELSE Moves(c, "refused", FALSE) /\ UNCHANGED planOn
       /\ turn' = IF At("asked") = {c} THEN "idle" ELSE "suspended"
  /\ acked' = IF saving.at = "noop" THEN acked \cup {saving.entry} ELSE acked
  /\ saving' = Quiet
  /\ UNCHANGED <<automation, mode, degraded, store, file, edited, batches, edits>>

(***************************************************************************)
(* Everything else that moves.                                             *)
(***************************************************************************)
(* OpenRepaired: a missing file becomes the floor, a corrupt one is put    *)
(* aside for it; the open can fail, and the next session tries again.      *)
(* What was acknowledged is not expected of a document edited by hand.     *)
OpenRepaired ==
  /\ store = Closed /\ turn = "idle"
  /\ store' = IF file \in {Missing, Corrupt} THEN Floor ELSE file
  /\ file' = IF file \in {Missing, Corrupt} THEN Floor ELSE file
  /\ edited' = FALSE /\ acked' = IF edited THEN {} ELSE acked
  /\ UNCHANGED <<slot, gateVars, saving, batches, edits>>

SetMode ==
  /\ mode' = IF mode = "gated" THEN "ungated" ELSE "gated"
  /\ UNCHANGED <<slot, turn, automation, degraded, planOn, storeVars, batches, edits>>

ExitPlanApproved ==
  /\ planOn /\ turn = "idle"
  /\ planOn' = FALSE
  /\ UNCHANGED <<slot, turn, automation, mode, degraded, storeVars, batches, edits>>

HandEdit(doc) ==
  /\ edits < MaxEdits /\ edits' = edits + 1
  /\ file' = doc /\ edited' = TRUE
  /\ UNCHANGED <<slot, gateVars, store, saving, acked, batches>>

(* The process dies anywhere, the middle of a save included. *)
Crash ==
  /\ edits < MaxEdits /\ edits' = edits + 1
  /\ slot' = [c \in Call |-> NoCall]
  /\ turn' = "idle" /\ automation' = FALSE /\ degraded' = FALSE /\ planOn' = FALSE
  /\ store' = Closed /\ saving' = Quiet
  /\ UNCHANGED <<mode, file, acked, edited, batches>>

Next ==
  \/ \E cs \in SUBSET Free \ {{}}, auto \in BOOLEAN : \E f \in [cs -> Request] : Batch(cs, f, auto)
  \/ \E c \in Call, h \in HookResults : GateOne(c, h)
  \/ Dispatch
  \/ \E c \in Call : \/ \E unsupported \in BOOLEAN : Declines(c, unsupported)
                     \/ AllowOnce(c) \/ Always(c, "allow") \/ Always(c, "deny")
  \/ SaveRename \/ SaveMemory \/ Answered
  \/ OpenRepaired \/ SetMode \/ ExitPlanApproved
  \/ \E doc \in Documents \cup {Corrupt} : HandEdit(doc)
  \/ Crash

Spec == Init /\ [][Next]_vars

(***************************************************************************)
(* Properties.                                                             *)
(***************************************************************************)
(* No call runs silently: every call that ran was positively answered in   *)
(* its own dialog or was justified, in the sense above, when the gate saw  *)
(* it (gateCall, Evaluate, ResolveVerdict, resolvePermissionOutcome).      *)
NoSilentRun == \A c \in At("ran") : slot[c].ok

(* An "always" answer that was acknowledged is on disk, and what the gate  *)
(* consults is what is on disk, through failing saves and crashes at any   *)
(* step, unless the file was edited by hand since it was last read or      *)
(* saved (persist, save).                                                  *)
AlwaysKept ==
  edited \/ /\ \A e \in acked : e[2] \in file[e[1]]
            /\ (store # Closed /\ saving.at # "memory") => store = file

(* While plan mode is on no mutating call runs (planModeBlocks): a call    *)
(* that runs in a step was not mutating if plan mode was on before it.     *)
(* Refuted: a call held for permission in the batch that turns plan mode   *)
(* on runs when it is allowed (ask.go executeGatedCall).                   *)
PlanModeReadOnly ==
  [][\A c \in Call : (planOn /\ slot[c].at # "ran" /\ slot'[c].at = "ran") => slot[c].req.tool \notin Mutating]_vars
=============================================================================
