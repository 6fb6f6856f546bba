---------------------------- MODULE PromptProofs ----------------------------
(***************************************************************************)
(* A prompt and its calls, from the blocks a client sends to the lines of  *)
(* the transcript.                                                         *)
(*                                                                         *)
(* The permission gate: what may run without a dialog, for any rules,      *)
(* hooks and requests, and the document that remembers "always" answers,   *)
(* for any documents, number of batches, hand edits and crashes. GateSound *)
(* is about the decision itself: the order in which gateCall, the hook     *)
(* verdicts and the rule evaluation consult their lists never lets a call  *)
(* through that the lists object to.                                       *)
(*                                                                         *)
(* The transcript over crashes and resumes (session.go, reconcile.go), and *)
(* the ingress of a prompt: its images and its mentions (runtime.go,       *)
(* imgscale.go).                                                           *)
(***************************************************************************)
EXTENDS PermissionGate, FiniteSetTheorems, TLAPS

\* A hook verdict "allow" is the user scope's, and no scope objected.
LEMMA HookVerdict ==
  ASSUME NEW h
  PROVE  /\ ResolveVerdict(h) = "allow" =>
              ~Says(h, "deny") /\ ~Says(h, "ask") /\ h["user"] = "allow"
         /\ ResolveVerdict(h) = "none" => ~Says(h, "deny") /\ ~Says(h, "ask")
         /\ ResolveVerdict(h) \in {"deny", "ask", "allow", "none"}
  BY DEF ResolveVerdict

\* A rule list covers a command.
Covers(rules, tool, sub) == \E r \in rules : Matches(r, tool, sub)

\* What the verdict on one command says of the three lists.
LEMMA SingleVerdict ==
  ASSUME NEW rs, NEW tool, NEW sub
  PROVE  LET v == EvaluateSingle(rs, tool, sub)
         IN  /\ v \in {"deny", "ask", "allow", "unmatched"}
             /\ v # "deny" => ~Covers(rs.deny, tool, sub)
             /\ v \in {"allow", "unmatched"} => ~Covers(rs.ask, tool, sub)
             /\ v = "allow" => ~sub.subst /\ Covers(rs.allow, tool, sub)
  BY DEF EvaluateSingle, Covers

\* What the verdict on a whole request says of each of its commands: deny and
\* ask are kept off by every one, and allowed means that every one is.
LEMMA RequestVerdict ==
  ASSUME RequestAssumption, NEW rs, NEW req \in Request
  PROVE  LET v == Evaluate(rs, req)
         IN  /\ v \in {"deny", "ask", "allow", "unmatched"}
             /\ \A i \in DOMAIN req.subs :
                  /\ v # "deny" => ~Covers(rs.deny, req.tool, req.subs[i])
                  /\ v \in {"allow", "unmatched"} => ~Covers(rs.ask, req.tool, req.subs[i])
                  /\ v = "allow" => ~req.subs[i].subst /\ Covers(rs.allow, req.tool, req.subs[i])
<1> DEFINE one(i) == EvaluateSingle(rs, req.tool, req.subs[i])
           v == Evaluate(rs, req)
<1>1. /\ DOMAIN req.subs = 1 .. Len(req.subs) /\ Len(req.subs) \in Nat \ {0}
      /\ req.tool # Bash => Len(req.subs) = 1
  BY DEF RequestAssumption, Bash
<1>2. \A i : /\ one(i) \in {"deny", "ask", "allow", "unmatched"}
             /\ one(i) # "deny" => ~Covers(rs.deny, req.tool, req.subs[i])
             /\ one(i) \in {"allow", "unmatched"} => ~Covers(rs.ask, req.tool, req.subs[i])
             /\ one(i) = "allow" => ~req.subs[i].subst /\ Covers(rs.allow, req.tool, req.subs[i])
  BY SingleVerdict
<1>3. CASE req.tool = Bash /\ Len(req.subs) > 1
  <2>1. v = EvaluateCompound(rs, req.tool, req.subs)
    BY <1>3 DEF Evaluate
  <2>2. /\ v \in {"deny", "ask", "allow", "unmatched"}
        /\ \A i \in DOMAIN req.subs :
             /\ v # "deny" => one(i) # "deny"
             /\ v \in {"allow", "unmatched"} => one(i) \notin {"deny", "ask"}
             /\ v = "allow" => one(i) \notin {"deny", "ask", "unmatched"}
    BY <2>1 DEF EvaluateCompound
  <2> HIDE DEF one, v
  <2> QED
    BY <1>2, <2>2 DEF v
<1>4. CASE ~(req.tool = Bash /\ Len(req.subs) > 1)
  <2>1. v = one(1)
    BY <1>4 DEF Evaluate
  <2>2. Len(req.subs) = 1
    <3>1. CASE req.tool = Bash
      <4>1. ~(Len(req.subs) > 1)
        BY <1>4, <3>1
      <4>2. Len(req.subs) \in Nat \ {0}
        BY <1>1
      <4>3. ASSUME NEW n \in Nat \ {0}, ~(n > 1) PROVE n = 1
        BY <4>3
      <4> QED
        BY <4>1, <4>2, <4>3
    <3>2. CASE req.tool # Bash
      BY <1>1, <3>2
    <3> QED
      BY <3>1, <3>2
  <2>3. \A i \in DOMAIN req.subs : i = 1
    BY <1>1, <2>2
  <2> HIDE DEF one, v
  <2> QED
    BY <1>2, <2>1, <2>3 DEF v
<1> QED
  BY <1>3, <1>4

\* The gate is sound (gateCall): whatever the rules, the hooks, the mode and the
\* request, a call it lets run without a dialog is justified: no hook and no
\* deny rule objects to any part of it, and what asks for an answer is waived by
\* the user's hook, by allow rules for every part, or by an ungated human.
THEOREM GateSound ==
  ASSUME RequestAssumption, NEW req \in Request, NEW h, GateCall(req, h) = "execute"
  PROVE  Justified(req, h)
<1> DEFINE hook == ResolveVerdict(h)
           rule == Evaluate(Rules, req)
<1>1. /\ hook = "allow" => ~Says(h, "deny") /\ ~Says(h, "ask") /\ h["user"] = "allow"
      /\ hook = "none" => ~Says(h, "deny") /\ ~Says(h, "ask")
      /\ hook \in {"deny", "ask", "allow", "none"}
  BY HookVerdict
<1>2. /\ rule \in {"deny", "ask", "allow", "unmatched"}
      /\ \A i \in DOMAIN req.subs :
           /\ rule # "deny" => ~Covers(Rules.deny, req.tool, req.subs[i])
           /\ rule \in {"allow", "unmatched"} => ~Covers(Rules.ask, req.tool, req.subs[i])
           /\ rule = "allow" => ~req.subs[i].subst /\ Covers(Rules.allow, req.tool, req.subs[i])
  BY RequestVerdict
<1>3. \/ hook = "allow"
      \/ /\ hook = "none"
         /\ \/ rule = "allow"
            \/ rule = "unmatched" /\ req.tool \notin AskClass
            \/ rule # "deny" /\ mode # "gated" /\ ~automation
  <2> HIDE DEF hook, rule
  <2>1. "execute" = CASE hook = "deny"  -> "refused"
        [] hook = "allow" -> "execute"
        [] hook = "ask"   -> AskPath(TRUE)
        [] OTHER -> CASE rule = "deny"  -> "refused"
                      [] rule = "allow" -> "execute"
                      [] rule = "unmatched" /\ req.tool \notin AskClass -> "execute"
                      [] OTHER -> AskPath(FALSE)
    BY DEF GateCall, hook, rule
  <2> QED
    BY <1>1, <1>2, <2>1 DEF AskPath
<1> HIDE DEF hook, rule
<1> QED
  BY <1>1, <1>2, <1>3 DEF Justified, Covers

-----------------------------------------------------------------------------
\* A call that waits for the gate is a request, and one that was batched or ran
\* had been justified or answered.
CallInv ==
  /\ slot = [c \in Call |-> slot[c]]
  /\ \A c \in Call : /\ slot[c].at = "pending" => slot[c].req \in Request
                     /\ slot[c].at \in {"batch", "ran"} => slot[c].ok

\* Nothing recorded about a call changes but by a gate, a batch or an answer.
LEMMA MovesCall ==
  ASSUME CallInv, NEW c \in Call, NEW to, NEW ok, Moves(c, to, ok),
         to # "pending", to \in {"batch", "ran"} => ok
  PROVE  CallInv'
  BY DEF CallInv, Moves, Moved

\* Every step keeps the calls' invariant: what ran was justified when it was decided.
LEMMA CallStep ==
  ASSUME RequestAssumption, CallInv, [Next]_vars
  PROVE  CallInv'
<1>1. ASSUME NEW cs \in SUBSET Free \ {{}}, NEW auto \in BOOLEAN, NEW f \in [cs -> Request],
             Batch(cs, f, auto)
      PROVE  CallInv'
  BY <1>1 DEF CallInv, Batch
<1>2. ASSUME NEW c \in Call, NEW h \in HookResults, GateOne(c, h)
      PROVE  CallInv'
  <2> DEFINE req == slot[c].req
             v == GateCall(req, h)
  <2>1. req \in Request
    BY <1>2 DEF CallInv, GateOne, At
  <2>2. v = "execute" => Justified(req, h)
    BY <2>1, GateSound
  <2>3. v \in {"execute", "refused", "held"}
    BY DEF GateCall, AskPath
  <2>4. \/ Moves(c, "refused", FALSE)
        \/ Moves(c, IF v # "execute" THEN v ELSE IF req.tool = Task THEN "ran" ELSE "batch", Justified(req, h))
    BY <1>2 DEF GateOne
  <2> HIDE DEF req, v
  <2>5. CASE Moves(c, "refused", FALSE)
    BY <2>5, MovesCall
  <2>6. CASE Moves(c, IF v # "execute" THEN v ELSE IF req.tool = Task THEN "ran" ELSE "batch", Justified(req, h))
    <3> DEFINE to == IF v # "execute" THEN v ELSE IF req.tool = Task THEN "ran" ELSE "batch"
    <3>1. to # "pending" /\ (to \in {"batch", "ran"} => Justified(req, h))
      BY <2>2, <2>3
    <3> QED
      BY <2>6, <3>1, MovesCall
  <2> QED
    BY <2>4, <2>5, <2>6
<1>3. ASSUME Dispatch PROVE CallInv'
  BY <1>3 DEF CallInv, Dispatch, Moved
<1>4. ASSUME NEW c \in Call, NEW unsupported \in BOOLEAN, Declines(c, unsupported)
      PROVE  CallInv'
  BY <1>4, MovesCall DEF Declines
<1>5. ASSUME NEW c \in Call, AllowOnce(c) PROVE CallInv'
  BY <1>5, MovesCall DEF AllowOnce, Runs
<1>6. ASSUME Answered PROVE CallInv'
  BY <1>6 DEF Answered, Runs, Moves, Moved, CallInv
<1>7. ASSUME Crash PROVE CallInv'
  BY <1>7 DEF Crash, CallInv, NoCall
<1>8. ASSUME UNCHANGED slot PROVE CallInv'
  BY <1>8 DEF CallInv
<1>9. QED
  BY <1>1, <1>2, <1>3, <1>4, <1>5, <1>6, <1>7, <1>8
     DEF Next, Always, SaveRename, SaveMemory, OpenRepaired, SetMode, ExitPlanApproved,
         HandEdit, vars

\* No call runs silently (gateCall, resolvePermissionOutcome): for any rules,
\* hooks and batches, every call that ran was answered in its dialog or justified
\* when the gate saw it.
THEOREM NeverSilent == ASSUME RequestAssumption PROVE Spec => []NoSilentRun
<1>1. Init => CallInv
  BY DEF Init, CallInv, NoCall
<1>2. CallInv /\ [Next]_vars => CallInv'
  BY CallStep
<1>3. CallInv => NoSilentRun
  BY DEF CallInv, NoSilentRun, At
<1> QED
  BY <1>1, <1>2, <1>3, PTL DEF Spec

-----------------------------------------------------------------------------
List == {"deny", "allow"}
IsDoc(d) == DOMAIN d = {"is", "deny", "ask", "allow"}

DocInv ==
  /\ IsDoc(store) /\ IsDoc(file) /\ IsDoc(saving.env)
  /\ saving = [at |-> saving.at, call |-> saving.call, env |-> saving.env, entry |-> saving.entry]

\* A persist in progress keeps the turn suspended and the store open; what it
\* writes is the store with the answer added, and it acknowledges what the store
\* holds.
SaveInv ==
  /\ saving.at # "quiet" => turn = "suspended"
  /\ saving.at \in {"write", "memory"} =>
       /\ store # Closed /\ saving.entry[1] \in List
       /\ saving.entry[2] \in saving.env[saving.entry[1]]
       /\ \A l \in List : store[l] \subseteq saving.env[l]
  /\ saving.at = "memory" /\ ~edited => file = saving.env
  /\ saving.at = "noop" =>
       store # Closed /\ saving.entry[1] \in List /\ saving.entry[2] \in store[saving.entry[1]]

\* What was acknowledged is in the open store, edited file or not.
AckInv ==
  /\ \A e \in acked : e[1] \in List
  /\ store # Closed => \A e \in acked : e[2] \in store[e[1]]

StoreInv == DocInv /\ SaveInv /\ AckInv /\ AlwaysKept

\* The empty documents hold no entry.
LEMMA EmptyDocs ==
  /\ IsDoc(Closed) /\ IsDoc(Missing) /\ IsDoc(Corrupt) /\ IsDoc(Floor)
  /\ \A l \in List : Closed[l] = {} /\ Missing[l] = {} /\ Corrupt[l] = {}
  BY DEF IsDoc, Closed, Missing, Corrupt, Floor, Empty, List

\* An "always" answer starts from the open store.
LEMMA AlwaysStep ==
  ASSUME StoreInv, NEW c \in Call, NEW list \in List, Always(c, list)
  PROVE  StoreInv'
<1> DEFINE env == [store EXCEPT ![list] = @ \cup {Entry(c)}]
<1>1. /\ IsDoc(env)
      /\ Entry(c) \in env[list]
      /\ \A l \in List : store[l] \subseteq env[l]
  <2> HIDE DEF Entry
  <2>1. IsDoc(store)
    BY DEF StoreInv, DocInv
  <2> QED
    BY <2>1 DEF IsDoc, List
<1> HIDE DEF env
<1>2. saving' = [at |-> IF store = Closed THEN "failed" ELSE IF Entry(c) \in store[list] THEN "noop" ELSE "write",
                 call |-> c, entry |-> <<list, Entry(c)>>,
                 env |-> IF store = Closed THEN Missing ELSE env]
  BY DEF Always, env
<1>3. turn = "suspended" /\ saving = Quiet /\ UNCHANGED <<turn, store, file, acked, edited>>
  BY DEF Always, Asked, gateVars
<1>4. DocInv'
  BY <1>1, <1>2, <1>3, EmptyDocs DEF StoreInv, DocInv
<1>5. SaveInv'
  <2> HIDE DEF Entry
  <2> QED BY <1>1, <1>2, <1>3 DEF SaveInv
<1>6. AckInv' /\ AlwaysKept'
  BY <1>2, <1>3 DEF StoreInv, AckInv, AlwaysKept, Quiet
<1> QED
  BY <1>4, <1>5, <1>6 DEF StoreInv

\* save renames the new document over whatever is there, or fails and leaves it.
LEMMA SaveRenameStep ==
  ASSUME StoreInv, SaveRename
  PROVE  StoreInv'
<1>1. CASE file' = saving.env /\ edited' = FALSE /\ saving' = [saving EXCEPT !.at = "memory"]
  BY <1>1 DEF StoreInv, DocInv, SaveInv, AckInv, AlwaysKept, SaveRename, gateVars
<1>2. CASE saving' = [saving EXCEPT !.at = "failed"] /\ UNCHANGED <<file, edited>>
  BY <1>2 DEF StoreInv, DocInv, SaveInv, AckInv, AlwaysKept, SaveRename, gateVars
<1> QED
  BY <1>1, <1>2 DEF SaveRename

\* An answer of "always" put into the rules in memory.
LEMMA SaveMemoryStep ==
  ASSUME StoreInv, SaveMemory
  PROVE  StoreInv'
<1>1. /\ saving.at = "memory" /\ store' = saving.env
      /\ saving' = [saving EXCEPT !.at = "noop"]
      /\ UNCHANGED <<turn, file, acked, edited>>
  BY DEF SaveMemory, gateVars
<1>2. DocInv'
  BY <1>1 DEF StoreInv, DocInv
<1>3. AckInv'
  BY <1>1 DEF StoreInv, AckInv, SaveInv
<1>4. SaveInv'
  <2>1. saving'.at = "noop" /\ saving'.entry = saving.entry
    BY <1>1 DEF StoreInv, DocInv
  <2>2. saving.entry[1] \in List /\ saving.entry[2] \in store'[saving.entry[1]]
    BY <1>1 DEF StoreInv, SaveInv
  <2>3. store' # Closed
    BY <2>2, EmptyDocs
  <2> QED
    BY <1>1, <2>1, <2>2, <2>3 DEF StoreInv, SaveInv
<1>5. AlwaysKept'
  BY <1>1 DEF StoreInv, SaveInv, AlwaysKept
<1> QED
  BY <1>2, <1>3, <1>4, <1>5 DEF StoreInv

\* The save of an "always" answer returns, and the answer is acknowledged if it was kept.
LEMMA AnsweredStep ==
  ASSUME StoreInv, Answered
  PROVE  StoreInv'
<1>1. /\ saving.at \in {"noop", "failed"} /\ saving' = Quiet
      /\ acked' = IF saving.at = "noop" THEN acked \cup {saving.entry} ELSE acked
      /\ UNCHANGED <<store, file, edited>>
  BY DEF Answered
<1>2. DocInv'
  BY <1>1, EmptyDocs DEF StoreInv, DocInv, Quiet
<1>3. SaveInv'
  BY <1>1 DEF SaveInv, Quiet
<1>4. AckInv' /\ AlwaysKept'
  BY <1>1 DEF StoreInv, SaveInv, AckInv, AlwaysKept, Quiet
<1> QED
  BY <1>2, <1>3, <1>4 DEF StoreInv

\* The rules file opened or repaired at start.
LEMMA OpenStep ==
  ASSUME StoreInv, OpenRepaired
  PROVE  StoreInv'
<1>1. /\ turn = "idle" /\ saving.at = "quiet"
      /\ store' = file' /\ ~edited' /\ acked' = (IF edited THEN {} ELSE acked)
      /\ file' = IF file \in {Missing, Corrupt} THEN Floor ELSE file
      /\ UNCHANGED <<turn, saving>>
  BY DEF StoreInv, SaveInv, OpenRepaired, gateVars
<1>2. DocInv'
  BY <1>1, EmptyDocs DEF StoreInv, DocInv
<1>3. SaveInv'
  BY <1>1 DEF SaveInv
<1>4. \A e \in acked' : e[1] \in List /\ e[2] \in file'[e[1]]
  BY <1>1, EmptyDocs DEF StoreInv, AckInv, AlwaysKept
<1>5. AckInv' /\ AlwaysKept'
  BY <1>1, <1>4 DEF AckInv, AlwaysKept
<1> QED
  BY <1>2, <1>3, <1>5 DEF StoreInv

\* The user edits the rules file by hand.
LEMMA HandEditStep ==
  ASSUME DocumentAssumption, StoreInv, NEW doc \in Documents \cup {Corrupt}, HandEdit(doc)
  PROVE  StoreInv'
<1>1. IsDoc(doc)
  BY EmptyDocs DEF DocumentAssumption, IsDoc
<1> QED
  BY <1>1 DEF StoreInv, DocInv, SaveInv, AckInv, AlwaysKept, HandEdit, gateVars

\* The process dies between two steps of a save.
LEMMA CrashStep ==
  ASSUME StoreInv, Crash
  PROVE  StoreInv'
  BY EmptyDocs DEF StoreInv, DocInv, SaveInv, AckInv, AlwaysKept, Crash, Quiet

\* Every other step leaves the store alone, and takes the turn out of suspension
\* only when no persist is in progress.
LEMMA ElsewhereStep ==
  ASSUME StoreInv, UNCHANGED storeVars, saving.at = "quiet" \/ UNCHANGED turn
  PROVE  StoreInv'
  BY DEF StoreInv, DocInv, SaveInv, AckInv, AlwaysKept, storeVars

\* An acknowledged "always" is kept (Store.persist, Store.save): for any
\* documents and any number of hand edits and crashes, an acknowledged answer is
\* on disk and the gate consults what is on disk, except between a hand edit and
\* the next open or save.
THEOREM AlwaysIsKept == ASSUME DocumentAssumption PROVE Spec => []AlwaysKept
<1>1. Init => StoreInv
  <2> SUFFICES ASSUME Init PROVE StoreInv
    OBVIOUS
  <2>1. IsDoc(file)
    BY EmptyDocs DEF Init, DocumentAssumption, IsDoc
  <2> QED
    BY <2>1, EmptyDocs DEF Init, StoreInv, DocInv, SaveInv, AckInv, AlwaysKept, Quiet
<1>2. StoreInv /\ [Next]_vars => StoreInv'
  <2> SUFFICES ASSUME StoreInv, [Next]_vars PROVE StoreInv'
    OBVIOUS
  <2>0. (turn # "suspended" \/ saving = Quiet) => saving.at = "quiet"
    BY DEF StoreInv, SaveInv, Quiet
  <2>1. ASSUME NEW cs, NEW f, NEW auto, Batch(cs, f, auto) PROVE StoreInv'
    BY <2>0, <2>1, ElsewhereStep DEF Batch
  <2>2. ASSUME NEW c, NEW h, GateOne(c, h) PROVE StoreInv'
    BY <2>2, ElsewhereStep DEF GateOne, gateVars
  <2>3. ASSUME Dispatch PROVE StoreInv'
    BY <2>0, <2>3, ElsewhereStep DEF Dispatch
  <2>4. ASSUME NEW c, NEW unsupported, Declines(c, unsupported) PROVE StoreInv'
    BY <2>0, <2>4, ElsewhereStep DEF Declines, Asked
  <2>5. ASSUME NEW c, AllowOnce(c) PROVE StoreInv'
    BY <2>0, <2>5, ElsewhereStep DEF AllowOnce, Asked
  <2>6. ASSUME SetMode \/ ExitPlanApproved PROVE StoreInv'
    BY <2>6, ElsewhereStep DEF SetMode, ExitPlanApproved
  <2>7. ASSUME UNCHANGED vars PROVE StoreInv'
    BY <2>7, ElsewhereStep DEF vars, gateVars, storeVars
  <2>8. ASSUME NEW c \in Call, Always(c, "allow") \/ Always(c, "deny") PROVE StoreInv'
    BY <2>8, AlwaysStep DEF List
  <2> QED
    BY <2>1, <2>2, <2>3, <2>4, <2>5, <2>6, <2>7, <2>8, SaveRenameStep, SaveMemoryStep,
       AnsweredStep, OpenStep, HandEditStep, CrashStep DEF Next
<1>3. StoreInv => AlwaysKept
  BY DEF StoreInv
<1> QED
  BY <1>1, <1>2, <1>3, PTL DEF Spec

-----------------------------------------------------------------------------
(***************************************************************************)
(* The transcript of a session over crashes and resumes, for any number of *)
(* calls, turns, lines and crashes: turn ids stay fresh, and a load leaves *)
(* nothing dangling.                                                       *)
(***************************************************************************)
CONSTANTS SubCall, MaxTurn, MaxLines, MaxCrash, MidTurnWindowMessages, MaxFilesTouched, TailAllowance
VARIABLES logFile, logTail, logTodo, logStep, logTurn, logCounter, logOpen, logAsked, logSub,
          logArmed, logAttempt, logRetried, logCrashes, logClean

Log == INSTANCE SessionLog WITH
  file <- logFile, tail <- logTail, todo <- logTodo, step <- logStep, turn <- logTurn,
  counter <- logCounter, open <- logOpen, asked <- logAsked, sub <- logSub, armed <- logArmed,
  attempt <- logAttempt, retried <- logRetried, crashes <- logCrashes, clean <- logClean

AnyLine == [kind : Log!Kind, turn : 0 .. MaxTurn, id : Call \cup SubCall \cup {Log!NoCall}]

\* Bytes that do not parse name no turn, what opens a turn names one, and what
\* awaits a result names its call.
SoundLine ==
  {l \in AnyLine : /\ l.kind = "torn" => l.turn = 0
                   /\ l.kind \in {"user", "dispatch"} => l.turn # 0
                   /\ l.kind \in {"call", "ask"} => l.id # Log!NoCall}

FormInv ==
  /\ logFile \in Seq(SoundLine) /\ logTodo \in Seq(SoundLine)
  /\ logTail \in {"ended", "partial", "bare"} /\ (logTail # "ended" => logFile # <<>>)
  /\ logStep \in {"down", "loading", "idle", "request", "tools"}
  /\ logStep = "down" => logTodo = <<>> /\ logTurn = 0 /\ logAsked = {} /\ logSub = Log!NoSub
  /\ {logTurn, logCounter, logArmed, logAttempt} \subseteq 0 .. MaxTurn
  /\ logOpen \subseteq Call /\ logAsked \subseteq Call
  /\ logSub = Log!NoSub \/ logSub \in [call : Call, turn : 1 .. MaxTurn]

\* Nothing bears a turn id beyond the counter while the process lives.
MintedInv ==
  logStep # "down" =>
    /\ logTurn <= logCounter /\ logSub.turn <= logCounter
    /\ \A i \in DOMAIN logFile : logFile[i].turn <= logCounter
    /\ \A i \in DOMAIN logTodo : logTodo[i].turn <= logCounter

Called(c) ==
  \/ \E i \in DOMAIN logFile : logFile[i].kind = "call" /\ logFile[i].id = c
  \/ \E i \in DOMAIN logTodo : logTodo[i].kind = "call" /\ logTodo[i].id = c

\* The call of a suspended question is on disk or about to be: what is glued to an
\* unterminated line is the first line of a prompt or of a load.
SuspendInv ==
  /\ logTail # "ended" => /\ logAsked = {} /\ logStep # "tools"
                          /\ logStep = "request" => logTodo # <<>>
  /\ \A c \in logAsked : Called(c)

\* What a turn is owed is on disk or about to be.
Due(kinds, n) ==
  \/ \E k \in DOMAIN logFile : logFile[k].kind \in kinds /\ logFile[k].turn = n
  \/ \E k \in DOMAIN logTodo : logTodo[k].kind \in kinds /\ logTodo[k].turn = n

DueAfter(i) ==
  \/ \E k \in DOMAIN logFile : k > i /\ logFile[k].kind = "result" /\ logFile[k].id = logFile[i].id
  \/ \E k \in DOMAIN logTodo : logTodo[k].kind = "result" /\ logTodo[k].id = logFile[i].id

ClosingInv ==
  logStep = "loading" /\ logClean /\ logCrashes > 0 =>
    /\ logTail = "ended"
    /\ \A k \in DOMAIN logTodo : logTodo[k].kind \notin {"call", "dispatch", "user"}
    /\ \A i \in DOMAIN logFile :
         /\ logFile[i].kind = "call" => DueAfter(i)
         /\ logFile[i].kind = "dispatch" => Due({"subresult"}, logFile[i].turn)
         /\ logFile[i].kind = "user" => Due(Log!Terminal, logFile[i].turn)
    /\ \/ \E k \in DOMAIN logFile : logFile[k].kind = "end"
       \/ \E k \in DOMAIN logTodo : logTodo[k].kind = "end"

TranscriptInv == FormInv /\ MintedInv /\ SuspendInv /\ ClosingInv

-----------------------------------------------------------------------------
\* The instance counts as FiniteSets does.
LEMMA LogCounts ==
  /\ \A S : Log!Cardinality(S) = Cardinality(S)
  /\ \A S : Log!IsFiniteSet(S) = IsFiniteSet(S)
BY DEF Cardinality, Log!Cardinality, IsFiniteSet, Log!IsFiniteSet

\* Ranks number the members of a finite set of positions in their order.
LEMMA RankNumbers ==
  ASSUME NEW n \in Nat, NEW I \in SUBSET (0 .. n)
  PROVE  /\ IsFiniteSet(I) /\ Cardinality(I) \in Nat
         /\ \A i \in I : Log!Rank(I, i) \in 1 .. Cardinality(I)
         /\ \A i, j \in I : i < j => Log!Rank(I, i) < Log!Rank(I, j)
         /\ \A i, j \in I : Log!Rank(I, i) = Log!Rank(I, j) => i = j
         /\ \A k \in 1 .. Cardinality(I) : \E i \in I : Log!Rank(I, i) = k
<1> DEFINE low(i) == {j \in I : j <= i}
           rank == [i \in I |-> Cardinality(low(i))]
<1>1. IsFiniteSet(I) /\ Cardinality(I) \in Nat
  <2>1. IsFiniteSet(0 .. n)
    BY FS_Interval
  <2>2. IsFiniteSet(I)
    BY <2>1, FS_Subset
  <2> QED
    BY <2>2, FS_CardinalityType
<1>0. \A i \in I : i \in Nat
  OBVIOUS
<1>2. \A i \in I : Log!Rank(I, i) = rank[i]
  BY LogCounts DEF Log!Rank
<1>3. \A i \in I : IsFiniteSet(low(i)) /\ rank[i] \in Nat /\ rank[i] <= Cardinality(I)
  BY <1>1, FS_Subset, FS_CardinalityType
<1>4. ASSUME NEW i \in I PROVE rank[i] # 0
  <2>1. i \in low(i)
    OBVIOUS
  <2> QED
    BY <1>3, <2>1, FS_EmptySet
<1>5. ASSUME NEW i \in I, NEW j \in I, i < j PROVE rank[i] < rank[j]
  <2>0. i \in Nat /\ j \in Nat /\ \A x \in I : x <= i => x <= j
    BY <1>0, <1>5
  <2>1. low(i) \in SUBSET low(j) /\ j \in low(j) /\ j \notin low(i)
    <3>1. j <= j /\ ~(j <= i)
      BY <1>5, <2>0
    <3> QED
      BY <2>0, <3>1, Zenon
  <2>2. low(i) # low(j)
    BY <2>1
  <2> QED
    BY <1>3, <2>1, <2>2, FS_Subset
<1> HIDE DEF low
<1>6. rank \in Injection(I, 1 .. Cardinality(I))
  <2>1. rank \in [I -> 1 .. Cardinality(I)]
    BY <1>1, <1>3, <1>4
  <2>2. ASSUME NEW i \in I, NEW j \in I, rank[i] = rank[j] PROVE i = j
    <3>1. i \in Nat /\ j \in Nat /\ rank[i] \in Nat /\ rank[j] \in Nat
      BY <1>0, <1>3
    <3>2. ~(i < j) /\ ~(j < i)
      BY <1>5, <2>2, <3>1
    <3> QED
      BY <3>1, <3>2
  <2> QED
    BY <2>1, <2>2, Zenon DEF Injection, IsInjective
<1>7. rank \in Surjection(I, 1 .. Cardinality(I))
  <2>1. IsFiniteSet(1 .. Cardinality(I)) /\ Cardinality(1 .. Cardinality(I)) = Cardinality(I)
    BY <1>1, FS_Interval
  <2> QED
    BY <1>1, <1>6, <2>1, FS_Injection
<1>8. \A k \in 1 .. Cardinality(I) : \E i \in I : rank[i] = k
  BY <1>7 DEF Surjection
<1>9. \A i \in I : rank[i] \in 1 .. Cardinality(I)
  BY <1>1, <1>3, <1>4
<1>10. \A i, j \in I : rank[i] = rank[j] => i = j
  BY <1>6, Zenon DEF Injection, IsInjective
<1> HIDE DEF rank
<1> QED
  BY <1>1, <1>2, <1>5, <1>8, <1>9, <1>10

\* Some positions have a first and a last.
LEMMA EndsOf ==
  ASSUME NEW n \in Nat, NEW S \in SUBSET (0 .. n), S # {}
  PROVE  /\ \E i \in S : \A j \in S : j <= i
         /\ \E i \in S : \A j \in S : i <= j
<1>1. /\ Cardinality(S) \in Nat
      /\ \A i \in S : Log!Rank(S, i) \in 1 .. Cardinality(S)
      /\ \A i, j \in S : i < j => Log!Rank(S, i) < Log!Rank(S, j)
      /\ \A k \in 1 .. Cardinality(S) : \E i \in S : Log!Rank(S, i) = k
  BY RankNumbers
<1>0. S \subseteq Nat
  OBVIOUS
<1>2. 1 \in 1 .. Cardinality(S) /\ Cardinality(S) \in 1 .. Cardinality(S)
  <2>1. PICK x \in S : Log!Rank(S, x) \in 1 .. Cardinality(S)
    BY <1>1
  <2> QED
    BY <1>1, <2>1
<1>3. PICK i \in S : Log!Rank(S, i) = Cardinality(S)
  BY <1>1, <1>2
<1>4. PICK k \in S : Log!Rank(S, k) = 1
  BY <1>1, <1>2
<1>5. ASSUME NEW j \in S PROVE ~(i < j) /\ ~(j < k)
  BY <1>0, <1>1, <1>3, <1>4
<1> QED
  BY <1>0, <1>5

\* What is picked is what is at the positions, each at its rank.
LEMMA PickFacts ==
  ASSUME NEW s, NEW n \in Nat, NEW I \in SUBSET (1 .. n)
  PROVE  /\ DOMAIN Log!Pick(s, I) = 1 .. Cardinality(I)
         /\ \A i \in I : Log!Pick(s, I)[Log!Rank(I, i)] = s[i]
         /\ \A k \in 1 .. Cardinality(I) : \E i \in I : Log!Pick(s, I)[k] = s[i]
         /\ \A T : (\A i \in I : s[i] \in T) => Log!Pick(s, I) \in Seq(T)
<1>0. I \in SUBSET (0 .. n)
  OBVIOUS
<1> DEFINE at(k) == CHOOSE i \in I : Log!Rank(I, i) = k
<1>1. Log!Pick(s, I) = [k \in 1 .. Cardinality(I) |-> s[at(k)]]
  BY LogCounts DEF Log!Pick
<1>2. \A k \in 1 .. Cardinality(I) : at(k) \in I /\ Log!Rank(I, at(k)) = k
  <2>1. \A k \in 1 .. Cardinality(I) : \E i \in I : Log!Rank(I, i) = k
    BY <1>0, RankNumbers
  <2> QED
    BY <2>1
<1>3. ASSUME NEW i \in I PROVE Log!Rank(I, i) \in 1 .. Cardinality(I) /\ at(Log!Rank(I, i)) = i
  <2> DEFINE k == Log!Rank(I, i)
  <2>1. k \in 1 .. Cardinality(I)
    BY <1>0, RankNumbers
  <2>2. at(k) \in I /\ Log!Rank(I, at(k)) = k
    BY <1>2, <2>1
  <2> QED
    BY <1>0, <2>1, <2>2, RankNumbers
<1>4. Cardinality(I) \in Nat
  BY <1>0, RankNumbers
<1> HIDE DEF at
<1>5. \A i \in I : Log!Pick(s, I)[Log!Rank(I, i)] = s[i]
  BY <1>1, <1>3
<1>6. \A k \in 1 .. Cardinality(I) : Log!Pick(s, I)[k] = s[at(k)]
  BY <1>1
<1>7. ASSUME NEW T, \A i \in I : s[i] \in T PROVE Log!Pick(s, I) \in Seq(T)
  <2>1. \A k \in 1 .. Cardinality(I) : s[at(k)] \in T
    BY <1>2, <1>7
  <2> QED
    BY <1>1, <1>4, <2>1
<1> QED
  BY <1>1, <1>2, <1>5, <1>6, <1>7

\* The last of some positions, and 0 for none.
LEMMA Last0Is ==
  ASSUME NEW n \in Nat, NEW S \in SUBSET (0 .. n)
  PROVE  /\ S = {} => Log!Last0(S) = 0
         /\ S # {} => Log!Last0(S) \in S /\ \A i \in S : i <= Log!Last0(S)
<1>1. S # {} => \E i \in S : \A j \in S : j <= i
  BY EndsOf
<1> QED
  BY <1>1 DEF Log!Last0, Log!Max

\* The lines read are those on disk that parse, each at its rank among them.
Kept(f) == {i \in DOMAIN f : f[i].kind # "torn"}

LEMMA ReadableFacts ==
  ASSUME NEW f \in Seq(SoundLine)
  PROVE  LET L == Log!Readable(f)
             K == Kept(f) IN
         /\ L \in Seq(SoundLine) /\ Len(L) = Cardinality(K) /\ Len(L) \in Nat
         /\ \A k \in DOMAIN L : \E i \in K : L[k] = f[i] /\ Log!Rank(K, i) = k
         /\ \A i \in K : Log!Rank(K, i) \in DOMAIN L /\ L[Log!Rank(K, i)] = f[i]
         /\ \A i, j \in K : i < j => Log!Rank(K, i) < Log!Rank(K, j)
         /\ \A k \in DOMAIN L : L[k].kind # "torn"
<1> DEFINE K == Kept(f)
           n == Len(f)
           L == Log!Pick(f, K)
<1>1. n \in Nat /\ K \in SUBSET (1 .. n) /\ \A i \in K : f[i] \in SoundLine /\ f[i].kind # "torn"
  BY DEF Kept
<1>2. Log!Readable(f) = L
  BY DEF Log!Readable, Kept
<1> HIDE DEF K, n
<1>3. /\ DOMAIN L = 1 .. Cardinality(K)
      /\ \A i \in K : L[Log!Rank(K, i)] = f[i]
      /\ L \in Seq(SoundLine)
  BY <1>1, PickFacts
<1>0. K \in SUBSET (0 .. n)
  BY <1>1
<1>4. /\ Cardinality(K) \in Nat
      /\ \A i \in K : Log!Rank(K, i) \in 1 .. Cardinality(K)
      /\ \A i, j \in K : i < j => Log!Rank(K, i) < Log!Rank(K, j)
      /\ \A k \in 1 .. Cardinality(K) : \E i \in K : Log!Rank(K, i) = k
  BY <1>0, <1>1, RankNumbers
<1>5. Len(L) = Cardinality(K)
  BY <1>3, <1>4
<1> HIDE DEF L
<1>6. \A k \in DOMAIN L : \E i \in K : L[k] = f[i] /\ Log!Rank(K, i) = k
  BY <1>3, <1>4
<1>7. \A k \in DOMAIN L : L[k].kind # "torn"
  BY <1>1, <1>6
<1> QED
  BY <1>2, <1>3, <1>4, <1>5, <1>6, <1>7 DEF K

\* The last opener is open, or something that closes it comes after it.
LEMMA UnclosedIs ==
  ASSUME NEW n \in Nat, NEW S \in SUBSET (1 .. n), NEW T \in SUBSET (1 .. n), S \cap T = {}
  PROVE  /\ Log!Unclosed(S, T) \subseteq S
         /\ \A i \in S : \/ \E o \in S : Log!Unclosed(S, T) = {o}
                         \/ \E o \in T : i < o
<1> DEFINE o == Log!Last0(S)
<1>1. S \in SUBSET (0 .. n) /\ 0 \notin S
  OBVIOUS
<1>2. S = {} => o = 0
  BY <1>1, Last0Is
<1>3. S # {} => o \in S /\ \A i \in S : i <= o
  BY <1>1, Last0Is
<1>4. Log!Unclosed(S, T) = IF o # 0 /\ \A i \in T : i < o THEN {o} ELSE {}
  BY DEF Log!Unclosed
<1> HIDE DEF o
<1>5. Log!Unclosed(S, T) \subseteq S
  BY <1>1, <1>2, <1>3, <1>4
<1>6. ASSUME NEW i \in S, NEW j \in T, ~(j < o) PROVE i < j
  <2>1. i \in Nat /\ j \in Nat /\ o \in S /\ i <= o
    BY <1>3
  <2>2. o \in Nat /\ o # j
    BY <2>1
  <2> QED
    BY <1>6, <2>1, <2>2
<1> QED
  BY <1>1, <1>3, <1>4, <1>5, <1>6

\* What is open is an opener of its kind.
LEMMA OpenAre ==
  ASSUME NEW L \in Seq(SoundLine)
  PROVE  /\ \A c : Log!OpenCall(L, c) \subseteq Log!OfCall(L, {"call"}, c)
         /\ \A c : Log!OpenAsk(L, c) \subseteq Log!OfCall(L, {"ask"}, c)
         /\ \A n : Log!OpenSub(L, n) \subseteq Log!OfTurn(L, {"dispatch"}, n)
         /\ \A i \in DOMAIN L : L[i].kind = "call" =>
              \/ \E o \in Log!OfCall(L, {"call"}, L[i].id) : Log!OpenCall(L, L[i].id) = {o}
              \/ \E o \in Log!OfCall(L, {"result", "ask"}, L[i].id) : i < o
         /\ \A i \in DOMAIN L : L[i].kind = "ask" =>
              \/ \E o \in Log!OfCall(L, {"ask"}, L[i].id) : Log!OpenAsk(L, L[i].id) = {o}
              \/ \E o \in Log!OfCall(L, {"result"}, L[i].id) : i < o
         /\ \A i \in DOMAIN L : L[i].kind = "dispatch" =>
              \/ \E o \in Log!OfTurn(L, {"dispatch"}, L[i].turn) : Log!OpenSub(L, L[i].turn) = {o}
              \/ \E o \in Log!OfTurn(L, {"subresult"}, L[i].turn) : i < o
<1>1. Len(L) \in Nat /\ DOMAIN L = 1 .. Len(L)
  OBVIOUS
<1>2. \A i \in DOMAIN L : /\ L[i].kind = "call" => i \in Log!OfCall(L, {"call"}, L[i].id)
                          /\ L[i].kind = "ask" => i \in Log!OfCall(L, {"ask"}, L[i].id)
                          /\ L[i].kind = "dispatch" => i \in Log!OfTurn(L, {"dispatch"}, L[i].turn)
  BY DEF Log!OfCall, Log!OfTurn, Log!OfKind
<1>3. ASSUME NEW c
      PROVE  /\ Log!OpenCall(L, c) \subseteq Log!OfCall(L, {"call"}, c)
             /\ \A i \in Log!OfCall(L, {"call"}, c) :
                  \/ \E o \in Log!OfCall(L, {"call"}, c) : Log!OpenCall(L, c) = {o}
                  \/ \E o \in Log!OfCall(L, {"result", "ask"}, c) : i < o
  <2> DEFINE S == Log!OfCall(L, {"call"}, c)
             T == Log!OfCall(L, {"result", "ask"}, c)
  <2>1. S \in SUBSET (1 .. Len(L)) /\ T \in SUBSET (1 .. Len(L)) /\ S \cap T = {}
    BY <1>1 DEF Log!OfCall, Log!OfTurn, Log!OfKind
  <2> HIDE DEF S, T
  <2>2. Log!OpenCall(L, c) = Log!Unclosed(S, T)
    BY DEF Log!OpenCall, S, T
  <2>3. /\ Log!Unclosed(S, T) \subseteq S
        /\ \A i \in S : (\E o \in S : Log!Unclosed(S, T) = {o}) \/ \E o \in T : i < o
    BY <1>1, <2>1, UnclosedIs
  <2> QED
    BY <2>2, <2>3, Zenon DEF S, T
<1>4. ASSUME NEW c
      PROVE  /\ Log!OpenAsk(L, c) \subseteq Log!OfCall(L, {"ask"}, c)
             /\ \A i \in Log!OfCall(L, {"ask"}, c) :
                  \/ \E o \in Log!OfCall(L, {"ask"}, c) : Log!OpenAsk(L, c) = {o}
                  \/ \E o \in Log!OfCall(L, {"result"}, c) : i < o
  <2> DEFINE S == Log!OfCall(L, {"ask"}, c)
             T == Log!OfCall(L, {"result"}, c)
  <2>1. S \in SUBSET (1 .. Len(L)) /\ T \in SUBSET (1 .. Len(L)) /\ S \cap T = {}
    BY <1>1 DEF Log!OfCall, Log!OfTurn, Log!OfKind
  <2> HIDE DEF S, T
  <2>2. Log!OpenAsk(L, c) = Log!Unclosed(S, T)
    BY DEF Log!OpenAsk, S, T
  <2>3. /\ Log!Unclosed(S, T) \subseteq S
        /\ \A i \in S : (\E o \in S : Log!Unclosed(S, T) = {o}) \/ \E o \in T : i < o
    BY <1>1, <2>1, UnclosedIs
  <2> QED
    BY <2>2, <2>3, Zenon DEF S, T
<1>5. ASSUME NEW c
      PROVE  /\ Log!OpenSub(L, c) \subseteq Log!OfTurn(L, {"dispatch"}, c)
             /\ \A i \in Log!OfTurn(L, {"dispatch"}, c) :
                  \/ \E o \in Log!OfTurn(L, {"dispatch"}, c) : Log!OpenSub(L, c) = {o}
                  \/ \E o \in Log!OfTurn(L, {"subresult"}, c) : i < o
  <2> DEFINE S == Log!OfTurn(L, {"dispatch"}, c)
             T == Log!OfTurn(L, {"subresult"}, c)
  <2>1. S \in SUBSET (1 .. Len(L)) /\ T \in SUBSET (1 .. Len(L)) /\ S \cap T = {}
    BY <1>1 DEF Log!OfCall, Log!OfTurn, Log!OfKind
  <2> HIDE DEF S, T
  <2>2. Log!OpenSub(L, c) = Log!Unclosed(S, T)
    BY DEF Log!OpenSub, S, T
  <2>3. /\ Log!Unclosed(S, T) \subseteq S
        /\ \A i \in S : (\E o \in S : Log!Unclosed(S, T) = {o}) \/ \E o \in T : i < o
    BY <1>1, <2>1, UnclosedIs
  <2> QED
    BY <2>2, <2>3, Zenon DEF S, T
<1> QED
  BY <1>2, <1>3, <1>4, <1>5, Zenon

\* The first line of a kind a turn has.
LEMMA FirstOfIs ==
  ASSUME NEW L \in Seq(SoundLine), NEW n, NEW kind, Log!Has(L, n, {kind})
  PROVE  Log!FirstOf(L, n, kind) \in Log!OfTurn(L, {kind}, n)
<1> DEFINE S == Log!OfTurn(L, {kind}, n)
<1>1. S # {} /\ S \in SUBSET (0 .. Len(L)) /\ Len(L) \in Nat
  BY DEF Log!Has, Log!OfTurn, Log!OfKind
<1> HIDE DEF S
<1>2. \E i \in S : \A j \in S : i <= j
  BY <1>1, EndsOf
<1>3. Log!Min(S) \in S
  BY <1>2 DEF Log!Min
<1> QED
  BY <1>3 DEF S, Log!FirstOf

LEMMA OpenersAre ==
  ASSUME NEW L \in Seq(SoundLine)
  PROVE  /\ Log!Openers(L) \subseteq DOMAIN L
         /\ \A i \in Log!Openers(L) : L[i].kind \in {"call", "ask", "dispatch", "user", "chunk"}
<1>1. \A K, c : /\ \A i \in Log!OfCall(L, K, c) : i \in DOMAIN L /\ L[i].kind \in K
                /\ \A i \in Log!OfTurn(L, K, c) : i \in DOMAIN L /\ L[i].kind \in K
  BY DEF Log!OfCall, Log!OfTurn, Log!OfKind
<1>2. \A n \in Log!OpenTurns(L) : Log!FirstOf(L, n, "user") \in Log!OfTurn(L, {"user"}, n)
  BY FirstOfIs DEF Log!OpenTurns
<1>3. \A n \in Log!OpenStreams(L) : Log!FirstOf(L, n, "chunk") \in Log!OfTurn(L, {"chunk"}, n)
  BY FirstOfIs DEF Log!OpenStreams
<1>4. ASSUME NEW i \in Log!Openers(L)
      PROVE  i \in DOMAIN L /\ L[i].kind \in {"call", "ask", "dispatch", "user", "chunk"}
  <2>1. CASE \E c : i \in Log!OpenCall(L, c)
    BY <1>1, <2>1, OpenAre
  <2>2. CASE \E c : i \in Log!OpenAsk(L, c)
    BY <1>1, <2>2, OpenAre
  <2>3. CASE \E n : i \in Log!OpenSub(L, n)
    BY <1>1, <2>3, OpenAre
  <2>4. CASE \E n : i \in Log!OfTurn(L, {"user"}, n)
    BY <1>1, <2>4
  <2>5. CASE \E n : i \in Log!OfTurn(L, {"chunk"}, n)
    BY <1>1, <2>5
  <2> QED
    BY <1>2, <1>3, <2>1, <2>2, <2>3, <2>4, <2>5, Zenon
    DEF Log!Openers, Log!OpenToolCalls, Log!OpenAsks, Log!OpenDispatch
<1> QED
  BY <1>4

LEMMA ClosingIs ==
  ASSUME NEW l \in SoundLine
  PROVE  /\ Log!Closing(l) \in SoundLine
         /\ Log!Closing(l).kind \in {"result", "subresult", "canceled", "assistant"}
         /\ Log!Closing(l).turn = l.turn
         /\ l.kind \in {"call", "ask"} => Log!Closing(l).kind = "result" /\ Log!Closing(l).id = l.id
         /\ l.kind = "dispatch" => Log!Closing(l).kind = "subresult"
         /\ l.kind = "user" => Log!Closing(l).kind = "canceled"
BY DEF Log!Closing, Log!Line, SoundLine, AnyLine, Log!Kind

\* What a load appends: sound lines that open nothing, of turns the transcript
\* names, one for each opener, and the end of the session last.
LEMMA ClosuresAre ==
  ASSUME Log!LogAssumption, NEW L \in Seq(SoundLine)
  PROVE  LET C == Log!Closures(L) IN
         /\ C \in Seq(SoundLine)
         /\ \A k \in DOMAIN C : /\ C[k].kind \in {"result", "subresult", "canceled", "assistant", "end"}
                                /\ C[k].turn = 0 \/ \E i \in DOMAIN L : C[k].turn = L[i].turn
         /\ \A i \in Log!Openers(L) : \E k \in DOMAIN C : C[k] = Log!Closing(L[i])
         /\ ~Log!SessionEnded(L) => \E k \in DOMAIN C : C[k].kind = "end"
<1> DEFINE O == Log!Openers(L)
           c == [i \in DOMAIN L |-> Log!Closing(L[i])]
           P == Log!Pick(c, O)
           e == Log!Line("end", Log!NoTurn, Log!NoCall)
           E == IF Log!SessionEnded(L) THEN <<>> ELSE <<e>>
<1>1. Len(L) \in Nat /\ DOMAIN L = 1 .. Len(L) /\ O \in SUBSET (1 .. Len(L))
  BY OpenersAre
<1>2. Log!Closures(L) = P \o E
  BY DEF Log!Closures
<1>3. \A i \in O : c[i] = Log!Closing(L[i]) /\ c[i] \in SoundLine
  BY <1>1, ClosingIs
<1>4. e \in SoundLine /\ e.kind = "end" /\ e.turn = 0
  BY DEF Log!Line, SoundLine, AnyLine, Log!Kind, Log!NoTurn, Log!NoCall, Log!LogAssumption
<1> HIDE DEF O, c, e
<1>5. /\ DOMAIN P = 1 .. Cardinality(O) /\ Cardinality(O) \in Nat
      /\ \A k \in 1 .. Cardinality(O) : \E i \in O : P[k] = c[i]
      /\ \A i \in O : P[Log!Rank(O, i)] = c[i]
      /\ \A i \in O : Log!Rank(O, i) \in 1 .. Cardinality(O)
  <2>1. Cardinality(O) \in Nat /\ \A i \in O : Log!Rank(O, i) \in 1 .. Cardinality(O)
    <3>1. O \in SUBSET (0 .. Len(L))
      BY <1>1
    <3> QED
      BY <1>1, <3>1, RankNumbers
  <2>2. /\ DOMAIN P = 1 .. Cardinality(O)
        /\ \A k \in 1 .. Cardinality(O) : \E i \in O : P[k] = c[i]
        /\ \A i \in O : P[Log!Rank(O, i)] = c[i]
    BY <1>1, PickFacts
  <2> QED
    BY <2>1, <2>2
<1>6. P \in Seq(SoundLine)
  BY <1>1, <1>3, PickFacts
<1> HIDE DEF P
<1>7. /\ E \in Seq(SoundLine) /\ Len(E) \in {0, 1}
      /\ \A k \in DOMAIN E : E[k] = e
      /\ ~Log!SessionEnded(L) => Len(E) = 1 /\ E[1] = e
  BY <1>4
<1> HIDE DEF E
<1>8. /\ P \o E \in Seq(SoundLine) /\ Len(P \o E) = Len(P) + Len(E) /\ DOMAIN (P \o E) = 1 .. Len(P) + Len(E)
      /\ \A k \in 1 .. Len(P) : (P \o E)[k] = P[k]
      /\ \A k \in Len(P) + 1 .. Len(P) + Len(E) : (P \o E)[k] = E[k - Len(P)]
      /\ Len(P) = Cardinality(O)
  BY <1>5, <1>6, <1>7
<1>9. ASSUME NEW k \in DOMAIN (P \o E)
      PROVE  /\ (P \o E)[k].kind \in {"result", "subresult", "canceled", "assistant", "end"}
             /\ (P \o E)[k].turn = 0 \/ \E i \in DOMAIN L : (P \o E)[k].turn = L[i].turn
  <2>1. CASE k <= Len(P)
    <3>1. PICK i \in O : P[k] = c[i]
      BY <1>5, <1>8, <2>1
    <3>2. (P \o E)[k] = Log!Closing(L[i]) /\ L[i] \in SoundLine /\ i \in DOMAIN L
      BY <1>1, <1>3, <1>8, <2>1, <3>1
    <3> QED
      BY <3>2, ClosingIs
  <2>2. CASE k > Len(P)
    <3>1. (P \o E)[k] = e
      BY <1>7, <1>8, <2>2
    <3> QED
      BY <1>4, <3>1
  <2> QED
    BY <1>8, <2>1, <2>2
<1>10. ASSUME NEW i \in O PROVE \E k \in DOMAIN (P \o E) : (P \o E)[k] = Log!Closing(L[i])
  <2> DEFINE k == Log!Rank(O, i)
  <2>1. k \in 1 .. Len(P) /\ P[k] = Log!Closing(L[i])
    BY <1>3, <1>5, <1>8
  <2> HIDE DEF k
  <2>2. k \in DOMAIN (P \o E)
    BY <1>7, <1>8, <2>1
  <2>3. (P \o E)[k] = P[k]
    BY <1>8, <2>1
  <2> QED
    BY <2>1, <2>2, <2>3
<1>11. ~Log!SessionEnded(L) => \E k \in DOMAIN (P \o E) : (P \o E)[k].kind = "end"
  <2> SUFFICES ASSUME ~Log!SessionEnded(L) PROVE (P \o E)[Len(P) + 1].kind = "end" /\ Len(P) + 1 \in DOMAIN (P \o E)
    OBVIOUS
  <2>1. Len(E) = 1 /\ E[1] = e /\ Len(P) \in Nat
    BY <1>5, <1>7, <1>8
  <2>2. (P \o E)[Len(P) + 1] = E[(Len(P) + 1) - Len(P)] /\ (Len(P) + 1) - Len(P) = 1
    BY <1>8, <2>1
  <2> QED
    BY <1>4, <1>8, <2>1, <2>2
<1> QED
  BY <1>2, <1>8, <1>9, <1>10, <1>11 DEF O

\* Every expectation of a transcript is met in it or by what a load appends.
LEMMA ClosuresMeet ==
  ASSUME Log!LogAssumption, NEW L \in Seq(SoundLine)
  PROVE  LET C == Log!Closures(L) IN
         /\ \A i \in DOMAIN L : L[i].kind = "call" =>
              \/ \E j \in DOMAIN L : i < j /\ L[j].kind = "result" /\ L[j].id = L[i].id
              \/ \E k \in DOMAIN C : C[k].kind = "result" /\ C[k].id = L[i].id
         /\ \A i \in DOMAIN L : L[i].kind = "dispatch" =>
              \/ \E j \in DOMAIN L : L[j].kind = "subresult" /\ L[j].turn = L[i].turn
              \/ \E k \in DOMAIN C : C[k].kind = "subresult" /\ C[k].turn = L[i].turn
         /\ \A i \in DOMAIN L : L[i].kind = "user" =>
              \/ \E j \in DOMAIN L : L[j].kind \in Log!Terminal /\ L[j].turn = L[i].turn
              \/ \E k \in DOMAIN C : C[k].kind \in Log!Terminal /\ C[k].turn = L[i].turn
         /\ \/ \E j \in DOMAIN L : L[j].kind = "end"
            \/ \E k \in DOMAIN C : C[k].kind = "end"
<1> DEFINE C == Log!Closures(L)
           Settles(i) == \E k \in DOMAIN C : C[k] = Log!Closing(L[i])
<1>1. \A i \in Log!Openers(L) : Settles(i)
  BY ClosuresAre
<1>2. ~Log!SessionEnded(L) => \E k \in DOMAIN C : C[k].kind = "end"
  BY ClosuresAre
<1>3. \A i \in DOMAIN L : L[i] \in SoundLine /\ i \in Nat
  OBVIOUS
<1> HIDE DEF C
<1>4. \A i \in DOMAIN L :
        /\ L[i].kind \in {"call", "ask"} => L[i].id \in Log!Ids(L)
        /\ L[i].kind \in {"dispatch", "user"} => L[i].turn \in Log!Turns(L)
  BY <1>3 DEF Log!Ids, Log!Turns, SoundLine, AnyLine, Log!NoTurn
<1>5. \A K, c : \A o \in Log!OfCall(L, K, c) : o \in DOMAIN L /\ L[o].kind \in K /\ L[o].id = c
  BY DEF Log!OfCall, Log!OfKind
<1>6. \A K, c : \A o \in Log!OfTurn(L, K, c) : o \in DOMAIN L /\ L[o].kind \in K /\ L[o].turn = c
  BY DEF Log!OfTurn, Log!OfKind
<1>7. ASSUME NEW i \in DOMAIN L, L[i].kind = "ask"
      PROVE  \/ \E j \in DOMAIN L : i < j /\ L[j].kind = "result" /\ L[j].id = L[i].id
             \/ \E k \in DOMAIN C : C[k].kind = "result" /\ C[k].id = L[i].id
  <2>1. CASE \E o \in Log!OfCall(L, {"ask"}, L[i].id) : Log!OpenAsk(L, L[i].id) = {o}
    <3>1. PICK o \in Log!OfCall(L, {"ask"}, L[i].id) : Log!OpenAsk(L, L[i].id) = {o}
      BY <2>1
    <3>2. o \in Log!Openers(L)
      BY <1>4, <1>7, <3>1 DEF Log!Openers, Log!OpenAsks
    <3>3. o \in DOMAIN L /\ L[o].kind = "ask" /\ L[o].id = L[i].id
      BY <1>5, <3>1
    <3>4. PICK k \in DOMAIN C : C[k] = Log!Closing(L[o])
      BY <1>1, <3>2
    <3> QED
      BY <1>3, <3>3, <3>4, ClosingIs
  <2>2. CASE \E o \in Log!OfCall(L, {"result"}, L[i].id) : i < o
    BY <1>5, <2>2
  <2> QED
    BY <1>7, <2>1, <2>2, OpenAre
<1>8. ASSUME NEW i \in DOMAIN L, L[i].kind = "call"
      PROVE  \/ \E j \in DOMAIN L : i < j /\ L[j].kind = "result" /\ L[j].id = L[i].id
             \/ \E k \in DOMAIN C : C[k].kind = "result" /\ C[k].id = L[i].id
  <2>1. CASE \E o \in Log!OfCall(L, {"call"}, L[i].id) : Log!OpenCall(L, L[i].id) = {o}
    <3>1. PICK o \in Log!OfCall(L, {"call"}, L[i].id) : Log!OpenCall(L, L[i].id) = {o}
      BY <2>1
    <3>2. o \in Log!Openers(L)
      BY <1>4, <1>8, <3>1 DEF Log!Openers, Log!OpenToolCalls
    <3>3. o \in DOMAIN L /\ L[o].kind = "call" /\ L[o].id = L[i].id
      BY <1>5, <3>1
    <3>4. PICK k \in DOMAIN C : C[k] = Log!Closing(L[o])
      BY <1>1, <3>2
    <3> QED
      BY <1>3, <3>3, <3>4, ClosingIs
  <2>2. CASE \E o \in Log!OfCall(L, {"result", "ask"}, L[i].id) : i < o
    <3>1. PICK o \in DOMAIN L : i < o /\ L[o].kind \in {"result", "ask"} /\ L[o].id = L[i].id
      BY <1>5, <2>2
    <3>2. CASE L[o].kind = "result"
      BY <3>1, <3>2
    <3>3. CASE L[o].kind = "ask"
      <4>1. \A j \in DOMAIN L : o < j => i < j
        BY <1>3, <3>1
      <4> QED
        BY <1>7, <3>1, <3>3, <4>1
    <3> QED
      BY <3>1, <3>2, <3>3
  <2> QED
    BY <1>8, <2>1, <2>2, OpenAre
<1>9. ASSUME NEW i \in DOMAIN L, L[i].kind = "dispatch"
      PROVE  \/ \E j \in DOMAIN L : L[j].kind = "subresult" /\ L[j].turn = L[i].turn
             \/ \E k \in DOMAIN C : C[k].kind = "subresult" /\ C[k].turn = L[i].turn
  <2>1. CASE \E o \in Log!OfTurn(L, {"dispatch"}, L[i].turn) : Log!OpenSub(L, L[i].turn) = {o}
    <3>1. PICK o \in Log!OfTurn(L, {"dispatch"}, L[i].turn) : Log!OpenSub(L, L[i].turn) = {o}
      BY <2>1
    <3>2. o \in Log!Openers(L)
      BY <1>4, <1>9, <3>1 DEF Log!Openers, Log!OpenDispatch
    <3>3. o \in DOMAIN L /\ L[o].kind = "dispatch" /\ L[o].turn = L[i].turn
      BY <1>6, <3>1
    <3>4. PICK k \in DOMAIN C : C[k] = Log!Closing(L[o])
      BY <1>1, <3>2
    <3> QED
      BY <1>3, <3>3, <3>4, ClosingIs
  <2>2. CASE \E o \in Log!OfTurn(L, {"subresult"}, L[i].turn) : i < o
    BY <1>6, <2>2
  <2> QED
    BY <1>9, <2>1, <2>2, OpenAre
<1>10. ASSUME NEW i \in DOMAIN L, L[i].kind = "user"
       PROVE  \/ \E j \in DOMAIN L : L[j].kind \in Log!Terminal /\ L[j].turn = L[i].turn
              \/ \E k \in DOMAIN C : C[k].kind \in Log!Terminal /\ C[k].turn = L[i].turn
  <2> DEFINE n == L[i].turn
  <2>1. CASE Log!Has(L, n, Log!Terminal)
    BY <1>6, <2>1 DEF Log!Has
  <2>2. CASE ~Log!Has(L, n, Log!Terminal)
    <3>1. Log!Has(L, n, {"user"})
      BY <1>10 DEF Log!Has, Log!OfTurn, Log!OfKind
    <3>2. n \in Log!OpenTurns(L)
      BY <1>4, <1>10, <2>2, <3>1 DEF Log!OpenTurns
    <3> DEFINE o == Log!FirstOf(L, n, "user")
    <3>3. o \in Log!Openers(L)
      BY <3>2, Zenon DEF Log!Openers
    <3>4. o \in DOMAIN L /\ L[o].kind = "user" /\ L[o].turn = n
      <4>1. o \in Log!OfTurn(L, {"user"}, n)
        BY <3>1, FirstOfIs
      <4> HIDE DEF o
      <4> QED
        BY <1>6, <4>1
    <3>5. PICK k \in DOMAIN C : C[k] = Log!Closing(L[o])
      BY <1>1, <3>3
    <3> HIDE DEF o
    <3> QED
      BY <1>3, <3>4, <3>5, ClosingIs DEF Log!Terminal
  <2> QED
    BY <2>1, <2>2
<1> QED
  BY <1>2, <1>7, <1>8, <1>9, <1>10 DEF C, Log!SessionEnded

\* The same of the file the transcript is read from.
LEMMA LoadMeets ==
  ASSUME Log!LogAssumption, NEW f \in Seq(SoundLine)
  PROVE  LET C == Log!Closures(Log!Readable(f)) IN
         /\ \A i \in DOMAIN f : f[i].kind = "call" =>
              \/ \E j \in DOMAIN f : i < j /\ f[j].kind = "result" /\ f[j].id = f[i].id
              \/ \E k \in DOMAIN C : C[k].kind = "result" /\ C[k].id = f[i].id
         /\ \A i \in DOMAIN f : f[i].kind = "dispatch" =>
              \/ \E j \in DOMAIN f : f[j].kind = "subresult" /\ f[j].turn = f[i].turn
              \/ \E k \in DOMAIN C : C[k].kind = "subresult" /\ C[k].turn = f[i].turn
         /\ \A i \in DOMAIN f : f[i].kind = "user" =>
              \/ \E j \in DOMAIN f : f[j].kind \in Log!Terminal /\ f[j].turn = f[i].turn
              \/ \E k \in DOMAIN C : C[k].kind \in Log!Terminal /\ C[k].turn = f[i].turn
         /\ \/ \E j \in DOMAIN f : f[j].kind = "end"
            \/ \E k \in DOMAIN C : C[k].kind = "end"
<1> DEFINE L == Log!Readable(f)
           C == Log!Closures(L)
           K == Kept(f)
           at(i) == Log!Rank(K, i)
<1>1. L \in Seq(SoundLine)
  BY ReadableFacts
<1>2. \A k \in DOMAIN L : \E i \in K : L[k] = f[i] /\ at(i) = k
  BY ReadableFacts
<1>3. \A i \in K : at(i) \in DOMAIN L /\ L[at(i)] = f[i] /\ i \in Nat /\ i \in DOMAIN f
  <2>1. \A i \in K : at(i) \in DOMAIN L /\ L[at(i)] = f[i]
    BY ReadableFacts
  <2>2. \A i \in K : i \in Nat /\ i \in DOMAIN f
    BY DEF Kept
  <2> QED
    BY <2>1, <2>2
<1>4. \A i, j \in K : i < j => at(i) < at(j)
  BY ReadableFacts
<1>5. \A i \in DOMAIN f : f[i].kind \in {"call", "dispatch", "user"} => i \in K
  BY DEF Kept
<1> HIDE DEF L, C, K, at
<1>6. ASSUME NEW i \in K, NEW j \in K, at(i) < at(j) PROVE i < j
  <2>1. at(i) \in Nat /\ at(j) \in Nat /\ i \in Nat /\ j \in Nat
    BY <1>1, <1>3
  <2>2. i # j /\ ~(j < i)
    BY <1>4, <1>6, <2>1
  <2> QED
    BY <2>1, <2>2
<1>7. /\ \A i \in DOMAIN L : L[i].kind = "call" =>
           \/ \E j \in DOMAIN L : i < j /\ L[j].kind = "result" /\ L[j].id = L[i].id
           \/ \E k \in DOMAIN C : C[k].kind = "result" /\ C[k].id = L[i].id
      /\ \A i \in DOMAIN L : L[i].kind = "dispatch" =>
           \/ \E j \in DOMAIN L : L[j].kind = "subresult" /\ L[j].turn = L[i].turn
           \/ \E k \in DOMAIN C : C[k].kind = "subresult" /\ C[k].turn = L[i].turn
      /\ \A i \in DOMAIN L : L[i].kind = "user" =>
           \/ \E j \in DOMAIN L : L[j].kind \in Log!Terminal /\ L[j].turn = L[i].turn
           \/ \E k \in DOMAIN C : C[k].kind \in Log!Terminal /\ C[k].turn = L[i].turn
      /\ (\E j \in DOMAIN L : L[j].kind = "end") \/ \E k \in DOMAIN C : C[k].kind = "end"
  BY <1>1, ClosuresMeet DEF C
<1>8. ASSUME NEW i \in DOMAIN f, f[i].kind = "call"
      PROVE  \/ \E j \in DOMAIN f : i < j /\ f[j].kind = "result" /\ f[j].id = f[i].id
             \/ \E k \in DOMAIN C : C[k].kind = "result" /\ C[k].id = f[i].id
  <2>1. i \in K /\ at(i) \in DOMAIN L /\ L[at(i)] = f[i]
    BY <1>3, <1>5, <1>8
  <2>2. CASE \E k \in DOMAIN C : C[k].kind = "result" /\ C[k].id = f[i].id
    BY <2>2
  <2>3. CASE \E m \in DOMAIN L : at(i) < m /\ L[m].kind = "result" /\ L[m].id = f[i].id
    <3>1. PICK m \in DOMAIN L : at(i) < m /\ L[m].kind = "result" /\ L[m].id = f[i].id
      BY <2>3
    <3>2. PICK j \in K : L[m] = f[j] /\ at(j) = m
      BY <1>2
    <3> QED
      BY <1>3, <1>6, <2>1, <3>1, <3>2
  <2> QED
    BY <1>7, <1>8, <2>1, <2>2, <2>3
<1>9. \A T, n : (\E m \in DOMAIN L : L[m].kind \in T /\ L[m].turn = n)
                  => \E j \in DOMAIN f : f[j].kind \in T /\ f[j].turn = n
  BY <1>2, <1>3
<1>10. ASSUME NEW i \in DOMAIN f, f[i].kind = "dispatch"
       PROVE  \/ \E j \in DOMAIN f : f[j].kind = "subresult" /\ f[j].turn = f[i].turn
              \/ \E k \in DOMAIN C : C[k].kind = "subresult" /\ C[k].turn = f[i].turn
  <2>1. at(i) \in DOMAIN L /\ L[at(i)] = f[i]
    BY <1>3, <1>5, <1>10
  <2>2. \/ \E j \in DOMAIN L : L[j].kind \in {"subresult"} /\ L[j].turn = f[i].turn
        \/ \E k \in DOMAIN C : C[k].kind = "subresult" /\ C[k].turn = f[i].turn
    BY <1>7, <1>10, <2>1
  <2>3. (\E m \in DOMAIN L : L[m].kind \in {"subresult"} /\ L[m].turn = f[i].turn)
          => \E j \in DOMAIN f : f[j].kind \in {"subresult"} /\ f[j].turn = f[i].turn
    BY <1>9, Zenon
  <2> QED
    BY <2>2, <2>3
<1>11. ASSUME NEW i \in DOMAIN f, f[i].kind = "user"
       PROVE  \/ \E j \in DOMAIN f : f[j].kind \in Log!Terminal /\ f[j].turn = f[i].turn
              \/ \E k \in DOMAIN C : C[k].kind \in Log!Terminal /\ C[k].turn = f[i].turn
  <2>1. at(i) \in DOMAIN L /\ L[at(i)] = f[i]
    BY <1>3, <1>5, <1>11
  <2> QED
    BY <1>7, <1>9, <1>11, <2>1
<1>12. (\E j \in DOMAIN f : f[j].kind = "end") \/ \E k \in DOMAIN C : C[k].kind = "end"
  BY <1>2, <1>3, <1>7
<1> QED
  BY <1>8, <1>10, <1>11, <1>12 DEF C, L

-----------------------------------------------------------------------------
LEMMA LineIs ==
  ASSUME Log!LogAssumption
  PROVE  /\ \A k, n, c : Log!Line(k, n, c).kind = k /\ Log!Line(k, n, c).turn = n /\ Log!Line(k, n, c).id = c
         /\ \A k \in Log!Kind \ {"torn", "user", "dispatch", "call", "ask"}, n \in 0 .. MaxTurn,
               c \in Call \cup SubCall \cup {Log!NoCall} : Log!Line(k, n, c) \in SoundLine
         /\ \A k \in {"user", "dispatch"}, n \in 1 .. MaxTurn : Log!Line(k, n, Log!NoCall) \in SoundLine
         /\ \A k \in {"call", "ask"}, n \in 0 .. MaxTurn, c \in Call \cup SubCall : Log!Line(k, n, c) \in SoundLine
         /\ Log!Torn \in SoundLine /\ Log!Torn.kind = "torn" /\ Log!Torn.turn = 0
<1>1. \A k, n, c : Log!Line(k, n, c).kind = k /\ Log!Line(k, n, c).turn = n /\ Log!Line(k, n, c).id = c
  BY DEF Log!Line
<1>2. \A k \in Log!Kind, n \in 0 .. MaxTurn, c \in Call \cup SubCall \cup {Log!NoCall} :
        Log!Line(k, n, c) \in AnyLine
  BY DEF Log!Line, AnyLine
<1>3. Log!NoCall \notin Call \cup SubCall /\ MaxTurn \in Nat
  BY DEF Log!LogAssumption
<1>4. {"torn", "user", "dispatch", "call", "ask"} \subseteq Log!Kind
  BY DEF Log!Kind
<1>5. Log!Torn \in SoundLine /\ Log!Torn.kind = "torn" /\ Log!Torn.turn = 0
  BY <1>1, <1>2, <1>3, <1>4 DEF Log!Torn, SoundLine, Log!NoTurn
<1> QED
  BY <1>1, <1>2, <1>3, <1>4, <1>5 DEF SoundLine

\* No subagent, or one of a turn begun.
SubOf(s, n) == s = Log!NoSub \/ (s \in [call : Call, turn : 1 .. MaxTurn] /\ s.turn <= n)

\* A handler that hands over lines keeps the invariant when its lines are sound
\* and of turns begun, and nothing is suspended without its call.
LEMMA HandOver ==
  ASSUME Log!LogAssumption, TranscriptInv, Log!Room, logStep \notin {"down", "loading"},
         UNCHANGED <<logFile, logTail, logCrashes, logClean>>,
         logTodo' \in Seq(SoundLine), logCounter' \in 0 .. MaxTurn, logCounter <= logCounter',
         \A k \in DOMAIN logTodo' : logTodo'[k].turn <= logCounter',
         logStep' \in {"idle", "request", "tools"}, logTurn' \in 0 .. MaxTurn, logTurn' <= logCounter',
         logArmed' \in 0 .. MaxTurn, logAttempt' \in 0 .. MaxTurn,
         logOpen' \subseteq Call, logAsked' \subseteq Call,
         SubOf(logSub', logCounter'),
         logTail # "ended" => /\ logAsked' = {} /\ logStep' # "tools"
                              /\ logStep' = "request" => logTodo' # <<>>,
         \A c \in logAsked' : \/ c \in logAsked
                              \/ \E k \in DOMAIN logTodo' : logTodo'[k].kind = "call" /\ logTodo'[k].id = c
  PROVE  TranscriptInv'
<1>1. FormInv'
  BY DEF TranscriptInv, FormInv, SubOf
<1>2. MintedInv'
  <2>1. logSub'.turn <= logCounter'
    BY DEF Log!NoSub, Log!NoTurn, SubOf
  <2>2. \A i \in DOMAIN logFile : logFile[i].turn <= logCounter /\ logFile[i].turn \in Nat
    BY DEF TranscriptInv, FormInv, MintedInv, SoundLine, AnyLine
  <2>3. \A i \in DOMAIN logFile' : logFile'[i].turn <= logCounter'
    <3>1. logCounter \in Nat /\ logCounter' \in Nat
      BY DEF TranscriptInv, FormInv
    <3> QED
      BY <2>2, <3>1
  <2> QED
    BY <2>1, <2>3 DEF MintedInv
<1>3. SuspendInv'
  <2>1. \A c \in logAsked : \E i \in DOMAIN logFile : logFile[i].kind = "call" /\ logFile[i].id = c
    BY DEF TranscriptInv, SuspendInv, Called, Log!Room
  <2> QED
    BY <2>1 DEF SuspendInv, Called
<1>4. ClosingInv'
  BY DEF ClosingInv
<1> QED
  BY <1>1, <1>2, <1>3, <1>4 DEF TranscriptInv

\* While a turn runs and has nothing to write, the file ends in a newline.
LEMMA EndedInTurn ==
  ASSUME TranscriptInv, Log!Room, logStep \in {"request", "tools"}
  PROVE  logTail = "ended"
BY DEF TranscriptInv, SuspendInv, Log!Room

\* What the invariant says of the values a handler uses.
LEMMA TranscriptValues ==
  ASSUME Log!LogAssumption, TranscriptInv, logStep # "down"
  PROVE  /\ MaxTurn \in Nat
         /\ logTurn \in 0 .. MaxTurn /\ logCounter \in 0 .. MaxTurn /\ logTurn <= logCounter
         /\ logArmed \in 0 .. MaxTurn /\ logAttempt \in 0 .. MaxTurn
         /\ logOpen \subseteq Call /\ logAsked \subseteq Call
         /\ \A n \in 0 .. MaxTurn : logCounter <= n => SubOf(logSub, n)
         /\ logTail # "ended" => logAsked = {}
<1>1. \A n \in 0 .. MaxTurn : logCounter <= n => SubOf(logSub, n)
  <2> SUFFICES ASSUME NEW n \in 0 .. MaxTurn, logCounter <= n, logSub # Log!NoSub PROVE SubOf(logSub, n)
    BY DEF SubOf
  <2>1. logSub \in [call : Call, turn : 1 .. MaxTurn] /\ logSub.turn <= logCounter /\ logCounter \in Nat
    BY DEF TranscriptInv, FormInv, MintedInv
  <2> QED
    BY <2>1 DEF SubOf
<1> QED
  BY <1>1 DEF TranscriptInv, FormInv, MintedInv, SuspendInv, Log!LogAssumption

LEMMA PromptKeeps ==
  ASSUME Log!LogAssumption, TranscriptInv, Log!SessionPrompt \/ Log!Clear PROVE TranscriptInv'
<1> DEFINE n == logCounter + 1
<1>1. Log!Room /\ logStep = "idle" /\ logCounter < MaxTurn
  BY DEF Log!SessionPrompt, Log!Clear
<1>2. n \in 1 .. MaxTurn /\ n \in 0 .. MaxTurn /\ logCounter <= n /\ logTurn <= n
  BY <1>1, TranscriptValues
<1> HIDE DEF n
<1>3. CASE Log!SessionPrompt
  <2>1. /\ logCounter' = n /\ logTurn' = n /\ logStep' = "request" /\ logOpen' = {}
        /\ logTodo' = <<Log!Line("user", n, Log!NoCall)>>
        /\ UNCHANGED <<logFile, logTail, logCrashes, logClean, logAsked, logSub, logArmed, logAttempt>>
    BY <1>3 DEF Log!SessionPrompt, Log!Emit, n
  <2>2. Log!Line("user", n, Log!NoCall) \in SoundLine /\ Log!Line("user", n, Log!NoCall).turn = n
    BY <1>2, LineIs
  <2>3. logTodo' \in Seq(SoundLine) /\ logTodo' # <<>> /\ \A k \in DOMAIN logTodo' : logTodo'[k].turn = n
    BY <2>1, <2>2
  <2>4. SubOf(logSub', n)
    BY <1>1, <1>2, <2>1, TranscriptValues
  <2> QED
    BY <1>1, <1>2, <2>1, <2>3, <2>4, TranscriptValues, HandOver
<1>4. CASE Log!Clear
  <2>1. /\ logCounter' = n /\ logTodo' = <<Log!Line("reset", n, Log!NoCall)>>
        /\ UNCHANGED <<logFile, logTail, logCrashes, logClean, logStep, logTurn, logOpen, logAsked, logSub,
                       logArmed, logAttempt>>
    BY <1>4 DEF Log!Clear, Log!Emit, n
  <2>2. Log!Line("reset", n, Log!NoCall) \in SoundLine /\ Log!Line("reset", n, Log!NoCall).turn = n
    BY <1>2, LineIs DEF Log!Kind
  <2>3. logTodo' \in Seq(SoundLine) /\ \A k \in DOMAIN logTodo' : logTodo'[k].turn = n
    BY <2>1, <2>2
  <2>4. SubOf(logSub', n)
    BY <1>1, <1>2, <2>1, TranscriptValues
  <2> QED
    BY <1>1, <1>2, <2>1, <2>3, <2>4, TranscriptValues, HandOver
<1> QED
  BY <1>3, <1>4

LEMMA StreamingKeeps ==
  ASSUME Log!LogAssumption, TranscriptInv,
         Log!Steered \/ Log!Streamed \/ Log!MaybeCompact \/ Log!OverflowRetry
           \/ \E k \in {"assistant", "canceled", "error"} : Log!TurnEnds(k)
  PROVE  TranscriptInv'
<1>1. Log!Room /\ logStep = "request" /\ logStep' \in {"request", "idle"}
  BY DEF Log!Steered, Log!Streamed, Log!MaybeCompact, Log!OverflowRetry, Log!TurnEnds, Log!turnState
<1>2. logTail = "ended"
  BY <1>1, EndedInTurn
<1>3. /\ UNCHANGED <<logFile, logTail, logCrashes, logClean, logTurn, logCounter, logOpen, logAsked, logSub>>
      /\ logArmed' \in {logArmed, logTurn} /\ logAttempt' \in {logAttempt, logTurn}
  BY DEF Log!Steered, Log!Streamed, Log!MaybeCompact, Log!OverflowRetry, Log!TurnEnds, Log!Emit, Log!turnState
<1>4. \A k \in {"steering", "chunk", "compaction", "assistant", "canceled", "error"} :
        Log!Own(k) \in SoundLine /\ Log!Own(k).turn = logTurn
  BY <1>1, LineIs, TranscriptValues DEF Log!Own, Log!Kind
<1>5. \/ logTodo' = <<>>
      \/ \E k \in {"steering", "chunk", "compaction", "assistant", "canceled", "error"} : logTodo' = <<Log!Own(k)>>
  BY DEF Log!Steered, Log!Streamed, Log!MaybeCompact, Log!OverflowRetry, Log!TurnEnds, Log!Emit, Log!Compacted
<1>6. logTodo' \in Seq(SoundLine) /\ \A k \in DOMAIN logTodo' : logTodo'[k].turn = logTurn
  <2>1. CASE logTodo' = <<>>
    BY <2>1
  <2>2. CASE \E k \in {"steering", "chunk", "compaction", "assistant", "canceled", "error"} : logTodo' = <<Log!Own(k)>>
    <3>1. PICK l \in SoundLine : l.turn = logTurn /\ logTodo' = <<l>>
      BY <1>4, <2>2
    <3> QED
      BY <3>1
  <2> QED
    BY <1>5, <2>1, <2>2
<1>7. SubOf(logSub', logCounter')
  BY <1>1, <1>3, TranscriptValues
<1> QED
  BY <1>1, <1>2, <1>3, <1>6, <1>7, TranscriptValues, HandOver

LEMMA RespondKeeps ==
  ASSUME Log!LogAssumption, TranscriptInv,
         NEW cs \in Log!Batches, NEW s \in SUBSET Log!ToSet(cs), Log!Respond(cs, s)
  PROVE  TranscriptInv'
<1>1. Log!Room /\ logStep = "request" /\ logStep' = "tools" /\ logTail = "ended"
  BY EndedInTurn DEF Log!Respond
<1>2. PICK n \in 1 .. 2 : cs \in [1 .. n -> Call]
  BY DEF Log!Batches, Log!Fresh
<1>3. Log!ToSet(cs) = {cs[k] : k \in 1 .. n}
  BY <1>2 DEF Log!ToSet
<1>4. /\ UNCHANGED <<logFile, logTail, logCrashes, logClean, logTurn, logCounter, logSub, logArmed, logAttempt>>
      /\ logOpen' = Log!ToSet(cs) \ s /\ logAsked' = logAsked \cup s
      /\ \/ logTodo' = <<>> \o Log!Batch(cs)
         \/ logTodo' = <<Log!Own("thinking")>> \o Log!Batch(cs)
  BY DEF Log!Respond, Log!Emit
<1> DEFINE B == Log!Batch(cs)
<1>5. B = [k \in 1 .. n |-> Log!Line("call", logTurn, cs[k])]
  BY <1>2 DEF Log!Batch
<1>6. \A k \in 1 .. n : /\ Log!Line("call", logTurn, cs[k]) \in SoundLine
                         /\ Log!Line("call", logTurn, cs[k]).turn = logTurn
                         /\ Log!Line("call", logTurn, cs[k]).kind = "call"
                         /\ Log!Line("call", logTurn, cs[k]).id = cs[k]
  BY <1>1, <1>2, LineIs, TranscriptValues
<1>7. /\ B \in Seq(SoundLine) /\ Len(B) = n
      /\ \A k \in 1 .. n : B[k].turn = logTurn /\ B[k].kind = "call" /\ B[k].id = cs[k]
  BY <1>5, <1>6
<1>8. Log!Own("thinking") \in SoundLine /\ Log!Own("thinking").turn = logTurn
  BY <1>1, LineIs, TranscriptValues DEF Log!Own, Log!Kind
<1> HIDE DEF B
<1>9. /\ logTodo' \in Seq(SoundLine) /\ \A k \in DOMAIN logTodo' : logTodo'[k].turn = logTurn
      /\ \A k \in 1 .. n : \E m \in DOMAIN logTodo' : logTodo'[m] = B[k]
  <2>1. CASE logTodo' = <<>> \o B
    <3>1. logTodo' = B
      BY <1>7, <2>1
    <3> QED
      BY <1>7, <3>1
  <2>2. CASE logTodo' = <<Log!Own("thinking")>> \o B
    <3>1. PICK t \in SoundLine : t.turn = logTurn /\ logTodo' = <<t>> \o B
      BY <1>8, <2>2
    <3>2. /\ <<t>> \o B \in Seq(SoundLine) /\ Len(<<t>> \o B) = n + 1 /\ (<<t>> \o B)[1] = t
          /\ \A k \in 1 .. n : (<<t>> \o B)[k + 1] = B[k]
      BY <1>7
    <3>3. \A m \in 1 .. n + 1 : m = 1 \/ (m - 1 \in 1 .. n /\ (m - 1) + 1 = m)
      OBVIOUS
    <3>4. DOMAIN logTodo' = 1 .. n + 1
      BY <3>1, <3>2
    <3>5. \A m \in 1 .. n + 1 : logTodo'[m].turn = logTurn
      BY <1>7, <3>1, <3>2, <3>3
    <3>6. \A k \in 1 .. n : k + 1 \in 1 .. n + 1 /\ logTodo'[k + 1] = B[k]
      BY <3>1, <3>2
    <3> QED
      BY <3>1, <3>2, <3>4, <3>5, <3>6
  <2> QED
    BY <1>4, <2>1, <2>2 DEF B
<1>10. logOpen' \subseteq Call /\ logAsked' \subseteq Call
  BY <1>1, <1>2, <1>3, <1>4, TranscriptValues
<1>11. \A c \in logAsked' : \/ c \in logAsked
                            \/ \E k \in DOMAIN logTodo' : logTodo'[k].kind = "call" /\ logTodo'[k].id = c
  <2> SUFFICES ASSUME NEW c \in s
               PROVE  \E k \in DOMAIN logTodo' : logTodo'[k].kind = "call" /\ logTodo'[k].id = c
    BY <1>4
  <2>1. PICK k \in 1 .. n : cs[k] = c
    BY <1>3
  <2> QED
    BY <1>7, <1>9, <2>1
<1>12. SubOf(logSub', logCounter')
  BY <1>1, <1>4, TranscriptValues
<1> QED
  BY <1>1, <1>4, <1>9, <1>10, <1>11, <1>12, TranscriptValues, HandOver

LEMMA ToolKeeps ==
  ASSUME Log!LogAssumption, TranscriptInv,
         \/ \E c \in Call : Log!Result(c) \/ Log!Dispatch(c)
         \/ \E c \in SubCall : Log!SubTool(c)
         \/ Log!SubEnds
  PROVE  TranscriptInv'
<1>1. Log!Room /\ logStep = "tools" /\ logStep' = "tools" /\ logTail = "ended"
  BY EndedInTurn DEF Log!Result, Log!Dispatch, Log!SubTool, Log!SubEnds, Log!turnState
<1>2. /\ UNCHANGED <<logFile, logTail, logCrashes, logClean, logTurn, logAsked, logArmed, logAttempt>>
      /\ logOpen' \subseteq Call
  BY <1>1, TranscriptValues DEF Log!Result, Log!Dispatch, Log!SubTool, Log!SubEnds, Log!turnState, Log!Emit
<1>3. /\ logTodo' \in Seq(SoundLine) /\ \A k \in DOMAIN logTodo' : logTodo'[k].turn <= logCounter'
      /\ logCounter' \in 0 .. MaxTurn /\ logCounter <= logCounter' /\ SubOf(logSub', logCounter')
  <2>1. ASSUME NEW c \in Call, Log!Result(c)
        PROVE <1>3
    <3>1. UNCHANGED <<logCounter, logSub>>
      BY <2>1 DEF Log!Result
    <3>2. /\ Log!Line("result", logTurn, c) \in SoundLine /\ Log!Line("result", logTurn, c).turn = logTurn
          /\ Log!Own("boundary") \in SoundLine /\ Log!Own("boundary").turn = logTurn
      BY <1>1, LineIs, TranscriptValues DEF Log!Own, Log!Kind
    <3>3. PICK a, b \in SoundLine : /\ a.turn = logTurn /\ b.turn = logTurn
                                    /\ logTodo' = <<a>> \o <<>> \/ logTodo' = <<a>> \o <<b>>
      BY <2>1, <3>2 DEF Log!Result, Log!Emit, Log!AfterResult
    <3>4. ASSUME logTodo' = <<a>> \o <<>>
          PROVE  logTodo' \in Seq(SoundLine) /\ \A k \in DOMAIN logTodo' : logTodo'[k].turn = logTurn
      <4>1. logTodo' = <<a>>
        BY <3>4
      <4> QED
        BY <3>3, <4>1
    <3>5. ASSUME logTodo' = <<a>> \o <<b>>
          PROVE  logTodo' \in Seq(SoundLine) /\ \A k \in DOMAIN logTodo' : logTodo'[k].turn = logTurn
      <4>1. /\ <<a>> \o <<b>> \in Seq(SoundLine) /\ Len(<<a>> \o <<b>>) = 2
            /\ (<<a>> \o <<b>>)[1] = a /\ (<<a>> \o <<b>>)[2] = b
        OBVIOUS
      <4> QED
        BY <3>3, <3>5, <4>1
    <3>6. logTodo' \in Seq(SoundLine) /\ \A k \in DOMAIN logTodo' : logTodo'[k].turn = logTurn
      BY <3>3, <3>4, <3>5
    <3> QED
      BY <1>1, <3>1, <3>6, TranscriptValues
  <2>2. ASSUME NEW c \in Call, Log!Dispatch(c)
        PROVE <1>3
    <3> DEFINE n == logCounter + 1
    <3>1. logCounter' = n /\ logSub' = [call |-> c, turn |-> n] /\ logCounter < MaxTurn
          /\ logTodo' = <<Log!Line("dispatch", n, Log!NoCall), Log!Line("user", n, Log!NoCall)>>
      BY <2>2 DEF Log!Dispatch, Log!Emit
    <3>2. n \in 1 .. MaxTurn /\ n \in 0 .. MaxTurn /\ logCounter <= n
      BY <1>1, <3>1, TranscriptValues
    <3> HIDE DEF n
    <3>3. /\ Log!Line("dispatch", n, Log!NoCall) \in SoundLine /\ Log!Line("dispatch", n, Log!NoCall).turn = n
          /\ Log!Line("user", n, Log!NoCall) \in SoundLine /\ Log!Line("user", n, Log!NoCall).turn = n
      BY <3>2, LineIs
    <3>4. logTodo' \in Seq(SoundLine) /\ \A k \in DOMAIN logTodo' : logTodo'[k].turn = n
      BY <3>1, <3>3
    <3>5. SubOf(logSub', n)
      BY <3>1, <3>2 DEF SubOf
    <3> QED
      BY <3>1, <3>2, <3>4, <3>5
  <2>3. ASSUME NEW c \in SubCall, Log!SubTool(c)
        PROVE <1>3
    <3>1. UNCHANGED <<logCounter, logSub>> /\ logSub # Log!NoSub
          /\ logTodo' = <<Log!Line("call", logSub.turn, c), Log!Line("result", logSub.turn, c)>>
      BY <2>3 DEF Log!SubTool, Log!Emit, Log!turnState
    <3>2. SubOf(logSub, logCounter) /\ logCounter \in 0 .. MaxTurn
      BY <1>1, TranscriptValues
    <3>3. logSub.turn \in 0 .. MaxTurn /\ logSub.turn <= logCounter
      BY <3>1, <3>2 DEF SubOf
    <3>4. /\ Log!Line("call", logSub.turn, c) \in SoundLine /\ Log!Line("call", logSub.turn, c).turn = logSub.turn
          /\ Log!Line("result", logSub.turn, c) \in SoundLine /\ Log!Line("result", logSub.turn, c).turn = logSub.turn
      BY <3>3, LineIs DEF Log!Kind
    <3>5. logTodo' \in Seq(SoundLine) /\ \A k \in DOMAIN logTodo' : logTodo'[k].turn = logSub.turn
      BY <3>1, <3>4
    <3> QED
      BY <3>1, <3>2, <3>3, <3>5
  <2>4. ASSUME Log!SubEnds
        PROVE <1>3
    <3>1. UNCHANGED logCounter /\ logSub' = Log!NoSub /\ logSub # Log!NoSub
          /\ logTodo' = <<Log!Line("subresult", logSub.turn, Log!NoCall), Log!Line("result", logTurn, logSub.call)>>
      BY <2>4 DEF Log!SubEnds, Log!Emit
    <3>2. SubOf(logSub, logCounter) /\ logCounter \in 0 .. MaxTurn /\ logTurn \in 0 .. MaxTurn /\ logTurn <= logCounter
      BY <1>1, TranscriptValues
    <3>3. logSub.turn \in 0 .. MaxTurn /\ logSub.turn <= logCounter /\ logSub.call \in Call
      BY <3>1, <3>2 DEF SubOf
    <3>4. PICK a, b \in SoundLine : a.turn = logSub.turn /\ b.turn = logTurn /\ logTodo' = <<a, b>>
      BY <3>1, <3>2, <3>3, LineIs DEF Log!Kind
    <3>5. logTodo' \in Seq(SoundLine) /\ \A k \in DOMAIN logTodo' : logTodo'[k].turn <= logCounter
      BY <3>2, <3>3, <3>4
    <3>6. SubOf(logSub', logCounter')
      BY <3>1 DEF SubOf
    <3> QED
      BY <3>1, <3>2, <3>5, <3>6
  <2> QED
    BY <2>1, <2>2, <2>3, <2>4
<1>4. logTurn <= logCounter'
  <2>1. logTurn \in Nat /\ logCounter \in Nat /\ logTurn <= logCounter
    BY <1>1, TranscriptValues
  <2> QED
    BY <1>3, <2>1
<1> QED
  BY <1>1, <1>2, <1>3, <1>4, TranscriptValues, HandOver

LEMMA BatchDoneKeeps ==
  ASSUME Log!LogAssumption, TranscriptInv, Log!BatchDone PROVE TranscriptInv'
<1> DEFINE I == Log!CallsOf(Log!Unrecorded)
           A == [i \in DOMAIN logFile |-> Log!Line("ask", logTurn, logFile[i].id)]
           T == Log!Pick(A, I)
           Own == {l \in SoundLine : l.turn = logTurn}
<1>1. Log!Room /\ logStep = "tools" /\ logStep' \in {"request", "idle"} /\ logTail = "ended"
  BY EndedInTurn DEF Log!BatchDone, Log!turnState
<1>2. /\ UNCHANGED <<logFile, logTail, logCrashes, logClean, logTurn, logCounter, logOpen, logAsked, logSub,
                     logArmed, logAttempt>>
      /\ logTodo' = T
  BY DEF Log!BatchDone, Log!turnState, Log!Emit
<1>3. Len(logFile) \in Nat /\ I \in SUBSET (1 .. Len(logFile)) /\ DOMAIN logFile = 1 .. Len(logFile)
  BY DEF TranscriptInv, FormInv, Log!CallsOf
<1>4. \A i \in I : logFile[i].id \in Call
  BY <1>1, TranscriptValues DEF Log!CallsOf, Log!Unrecorded
<1> HIDE DEF I
<1>5. \A i \in I : A[i] \in Own
  BY <1>1, <1>3, <1>4, LineIs, TranscriptValues
<1> HIDE DEF A, Own
<1>6. T \in Seq(Own)
  BY <1>3, <1>5, PickFacts
<1> HIDE DEF T
<1>7. T \in Seq(SoundLine) /\ \A k \in DOMAIN T : T[k].turn = logTurn
  BY <1>6 DEF Own
<1>8. SubOf(logSub', logCounter')
  BY <1>1, <1>2, TranscriptValues
<1> QED
  BY <1>1, <1>2, <1>7, <1>8, TranscriptValues, HandOver

LEMMA ResumeAskKeeps ==
  ASSUME Log!LogAssumption, TranscriptInv, NEW c \in Call, Log!ResumeAsk(c) PROVE TranscriptInv'
<1> DEFINE S == {i \in DOMAIN logFile : logFile[i].kind = "call" /\ logFile[i].id = c}
           n == logFile[Log!Max(S)].turn
<1>1. Log!Room /\ logStep = "idle" /\ c \in logAsked /\ logTail = "ended"
  BY TranscriptValues DEF Log!ResumeAsk
<1>2. /\ UNCHANGED <<logFile, logTail, logCrashes, logClean, logCounter, logOpen, logSub, logArmed, logAttempt>>
      /\ logTurn' = n /\ logTodo' = <<Log!Line("result", n, c)>> /\ logAsked' = logAsked \ {c}
      /\ logStep' = "request"
  BY DEF Log!ResumeAsk, Log!Emit
<1>3. S # {} /\ S \in SUBSET (0 .. Len(logFile)) /\ Len(logFile) \in Nat
  BY <1>1 DEF TranscriptInv, FormInv, SuspendInv, Called, Log!Room
<1>4. Log!Max(S) \in S
  <2>1. Log!Last0(S) \in S
    BY <1>3, Last0Is
  <2> QED
    BY <1>3, <2>1 DEF Log!Last0
<1>5. n \in 0 .. MaxTurn /\ n <= logCounter
  BY <1>1, <1>4 DEF TranscriptInv, FormInv, MintedInv, SoundLine, AnyLine
<1> HIDE DEF n, S
<1>6. Log!Line("result", n, c) \in SoundLine /\ Log!Line("result", n, c).turn = n
  BY <1>5, LineIs DEF Log!Kind
<1>7. logTodo' \in Seq(SoundLine) /\ \A k \in DOMAIN logTodo' : logTodo'[k].turn = n
  BY <1>2, <1>6
<1>8. SubOf(logSub', logCounter')
  BY <1>1, <1>2, TranscriptValues
<1> QED
  BY <1>1, <1>2, <1>5, <1>7, <1>8, TranscriptValues, HandOver

LEMMA WriteKeeps ==
  ASSUME Log!LogAssumption, TranscriptInv, Log!Write PROVE TranscriptInv'
<1> DEFINE h == Head(logTodo)
           glued == SubSeq(logFile, 1, Len(logFile) - 1) \o <<Log!Torn>>
<1>1. /\ logTodo # <<>> /\ logTodo' = Tail(logTodo) /\ logTail' = "ended"
      /\ logFile' = IF logTail = "ended" THEN Append(logFile, h) ELSE glued
      /\ UNCHANGED <<logStep, logTurn, logCounter, logOpen, logAsked, logSub, logArmed, logAttempt, logCrashes, logClean>>
  BY DEF Log!Write, Log!turnState
<1>2. /\ logFile \in Seq(SoundLine) /\ logTodo \in Seq(SoundLine) /\ (logTail # "ended" => logFile # <<>>)
      /\ logStep # "down"
  BY <1>1 DEF TranscriptInv, FormInv
<1>3. /\ h \in SoundLine /\ h = logTodo[1] /\ 1 \in DOMAIN logTodo
      /\ Tail(logTodo) \in Seq(SoundLine) /\ Len(Tail(logTodo)) = Len(logTodo) - 1 /\ Len(logTodo) \in Nat \ {0}
      /\ \A k \in DOMAIN Tail(logTodo) : k + 1 \in DOMAIN logTodo /\ Tail(logTodo)[k] = logTodo[k + 1]
  BY <1>1, <1>2
<1>4. \A k \in DOMAIN logTodo : k = 1 \/ (k - 1 \in DOMAIN Tail(logTodo) /\ Tail(logTodo)[k - 1] = logTodo[k])
  BY <1>3
<1>5. CASE logTail = "ended"
  <2>1. /\ logFile' \in Seq(SoundLine) /\ Len(logFile') = Len(logFile) + 1 /\ Len(logFile) \in Nat
        /\ DOMAIN logFile' = 1 .. Len(logFile) + 1 /\ DOMAIN logFile = 1 .. Len(logFile)
        /\ logFile'[Len(logFile) + 1] = h /\ \A i \in DOMAIN logFile : logFile'[i] = logFile[i]
    BY <1>1, <1>2, <1>3, <1>5
  <2> HIDE DEF h
  <2>2. FormInv'
    BY <1>1, <1>2, <1>3, <2>1 DEF TranscriptInv, FormInv
  <2>3. \A i \in DOMAIN logFile' : i \in DOMAIN logFile \/ (i = Len(logFile) + 1 /\ logFile'[i] = logTodo[1])
    BY <1>3, <2>1
  <2>4. \A i \in DOMAIN logFile : i \in DOMAIN logFile' /\ logFile'[i] = logFile[i] /\ Len(logFile) + 1 > i
    BY <2>1
  <2>5. \A P : (\E k \in DOMAIN logTodo : logTodo[k] = P)
               => logFile'[Len(logFile) + 1] = P \/ \E k \in DOMAIN logTodo' : logTodo'[k] = P
    BY <1>1, <1>3, <1>4, <2>1
  <2>6. Len(logFile) + 1 \in DOMAIN logFile'
    BY <2>1
  <2>7. MintedInv'
    <3>1. /\ logTurn <= logCounter /\ logSub.turn <= logCounter
          /\ \A i \in DOMAIN logFile : logFile[i].turn <= logCounter
          /\ \A k \in DOMAIN logTodo : logTodo[k].turn <= logCounter
      BY <1>2 DEF TranscriptInv, MintedInv
    <3>2. \A i \in DOMAIN logFile' : logFile'[i].turn <= logCounter
      BY <1>3, <2>3, <2>4, <3>1
    <3>3. \A k \in DOMAIN logTodo' : logTodo'[k].turn <= logCounter
      BY <1>1, <1>3, <3>1
    <3> QED
      BY <1>1, <3>1, <3>2, <3>3 DEF MintedInv
  <2>8. SuspendInv'
    <3>1. ASSUME NEW c \in logAsked PROVE Called(c)'
      <4>1. Called(c)
        BY <3>1 DEF TranscriptInv, SuspendInv
      <4> QED
        BY <2>4, <2>5, <2>6, <4>1 DEF Called
    <3> QED
      BY <1>1, <3>1 DEF SuspendInv
  <2>9. ClosingInv'
    <3> SUFFICES ASSUME logStep = "loading", logClean, logCrashes > 0 PROVE ClosingInv'
      BY <1>1 DEF ClosingInv
    <3>1. /\ \A k \in DOMAIN logTodo : logTodo[k].kind \notin {"call", "dispatch", "user"}
          /\ \A i \in DOMAIN logFile :
               /\ logFile[i].kind = "call" => DueAfter(i)
               /\ logFile[i].kind = "dispatch" => Due({"subresult"}, logFile[i].turn)
               /\ logFile[i].kind = "user" => Due(Log!Terminal, logFile[i].turn)
          /\ \/ \E k \in DOMAIN logFile : logFile[k].kind = "end"
             \/ \E k \in DOMAIN logTodo : logTodo[k].kind = "end"
      BY DEF TranscriptInv, ClosingInv
    <3>2. \A k \in DOMAIN logTodo' : logTodo'[k].kind \notin {"call", "dispatch", "user"}
      BY <1>1, <1>3, <3>1
    <3>3. \A i \in DOMAIN logFile' : logFile'[i].kind \in {"call", "dispatch", "user"} => i \in DOMAIN logFile
      BY <1>3, <2>3, <3>1
    <3>4. \A i \in DOMAIN logFile : DueAfter(i) => DueAfter(i)'
      <4> SUFFICES ASSUME NEW i \in DOMAIN logFile, DueAfter(i) PROVE DueAfter(i)'
        OBVIOUS
      <4> QED
        BY <2>4, <2>5, <2>6 DEF DueAfter
    <3>5. \A T, n : Due(T, n) => Due(T, n)'
      <4> SUFFICES ASSUME NEW T, NEW n, Due(T, n) PROVE Due(T, n)'
        OBVIOUS
      <4> QED
        BY <2>4, <2>5, <2>6 DEF Due
    <3>6. \/ \E k \in DOMAIN logFile' : logFile'[k].kind = "end"
          \/ \E k \in DOMAIN logTodo' : logTodo'[k].kind = "end"
      BY <2>4, <2>5, <2>6, <3>1
    <3>7. ASSUME NEW i \in DOMAIN logFile', logFile'[i].kind \in {"call", "dispatch", "user"}
          PROVE  /\ logFile'[i].kind = "call" => DueAfter(i)'
                 /\ logFile'[i].kind = "dispatch" => Due({"subresult"}, logFile[i].turn)'
                 /\ logFile'[i].kind = "user" => Due(Log!Terminal, logFile[i].turn)'
      BY <2>4, <3>1, <3>3, <3>4, <3>5, <3>7
    <3> QED
      BY <1>1, <3>2, <3>6, <3>7 DEF ClosingInv
  <2> QED
    BY <2>2, <2>7, <2>8, <2>9 DEF TranscriptInv
<1>6. CASE logTail # "ended"
  <2>1. Len(logFile) \in Nat \ {0} /\ logFile' = glued
    BY <1>1, <1>2, <1>6
  <2>2. /\ logFile' \in Seq(SoundLine) /\ DOMAIN logFile' = DOMAIN logFile
        /\ \A i \in DOMAIN logFile' : logFile'[i] \in {logFile[i], Log!Torn}
    BY <1>2, <2>1, LineIs
  <2>3. FormInv'
    BY <1>1, <1>2, <1>3, <2>2 DEF TranscriptInv, FormInv
  <2>4. MintedInv'
    <3>1. /\ logTurn <= logCounter /\ logSub.turn <= logCounter
          /\ \A i \in DOMAIN logFile : logFile[i].turn <= logCounter
          /\ \A k \in DOMAIN logTodo : logTodo[k].turn <= logCounter
          /\ 0 <= logCounter
      BY <1>2 DEF TranscriptInv, MintedInv, FormInv
    <3>2. \A i \in DOMAIN logFile' : logFile'[i].turn <= logCounter
      BY <2>2, <3>1, LineIs
    <3>3. \A k \in DOMAIN logTodo' : logTodo'[k].turn <= logCounter
      BY <1>1, <1>3, <3>1
    <3> QED
      BY <1>1, <3>1, <3>2, <3>3 DEF MintedInv
  <2>5. SuspendInv' /\ ClosingInv'
    BY <1>1, <1>6 DEF TranscriptInv, SuspendInv, ClosingInv
  <2> QED
    BY <2>3, <2>4, <2>5 DEF TranscriptInv
<1> QED
  BY <1>5, <1>6

LEMMA CrashKeeps ==
  ASSUME Log!LogAssumption, TranscriptInv, Log!Crash PROVE TranscriptInv'
<1>1. /\ logStep' = "down" /\ logTodo' = <<>> /\ logTurn' = 0 /\ logCounter' = 0
      /\ logOpen' = {} /\ logAsked' = {} /\ logSub' = Log!NoSub /\ logArmed' = 0 /\ logAttempt' = 0
      /\ \/ UNCHANGED <<logFile, logTail>>
         \/ logFile' = Append(logFile, Log!Torn) /\ logTail' = "partial"
         \/ logTodo # <<>> /\ logFile' = Append(logFile, Head(logTodo)) /\ logTail' = "bare"
  BY DEF Log!Crash
<1>2. /\ logFile \in Seq(SoundLine) /\ logTodo \in Seq(SoundLine) /\ (logTail # "ended" => logFile # <<>>)
      /\ logTail \in {"ended", "partial", "bare"} /\ MaxTurn \in Nat
  BY DEF TranscriptInv, FormInv, Log!LogAssumption
<1>3. logFile' \in Seq(SoundLine) /\ logTail' \in {"ended", "partial", "bare"} /\ (logTail' # "ended" => logFile' # <<>>)
  <2>1. CASE UNCHANGED <<logFile, logTail>>
    BY <1>2, <2>1
  <2>2. ASSUME NEW l \in SoundLine, logFile' = Append(logFile, l), logTail' \in {"partial", "bare"} PROVE <1>3
    <3>1. Append(logFile, l) \in Seq(SoundLine) /\ Append(logFile, l) # <<>>
      BY <1>2
    <3> QED
      BY <2>2, <3>1
  <2>3. logTodo # <<>> => Head(logTodo) \in SoundLine
    BY <1>2
  <2> QED
    BY <1>1, <2>1, <2>2, <2>3, LineIs
<1>4. FormInv'
  <2>1. <<>> \in Seq(SoundLine)
    OBVIOUS
  <2> QED
    BY <1>1, <1>2, <1>3, <2>1 DEF FormInv
<1> QED
  BY <1>1, <1>4 DEF TranscriptInv, MintedInv, SuspendInv, ClosingInv

LEMMA LoadKeeps ==
  ASSUME Log!LogAssumption, TranscriptInv, Log!Load PROVE TranscriptInv'
<1> DEFINE L == Log!Readable(logFile)
           C == Log!Closures(L)
<1>1. /\ logStep = "down" /\ logStep' = "loading" /\ logTodo' = C /\ logCounter' = Log!MaxTurnCounter(L)
      /\ logClean' = (logTail = "ended")
      /\ UNCHANGED <<logFile, logTail, logTurn, logOpen, logAsked, logSub, logArmed, logAttempt, logCrashes>>
  BY DEF Log!Load, Log!Lines
<1>2. logFile \in Seq(SoundLine) /\ MaxTurn \in Nat
  BY DEF TranscriptInv, FormInv, Log!LogAssumption
<1>3. /\ L \in Seq(SoundLine)
      /\ \A k \in DOMAIN L : \E i \in DOMAIN logFile : L[k] = logFile[i]
      /\ \A i \in DOMAIN logFile : logFile[i].kind = "torn" \/ \E k \in DOMAIN L : L[k] = logFile[i]
  <2>1. /\ L \in Seq(SoundLine) /\ \A k \in DOMAIN L : \E i \in Kept(logFile) : L[k] = logFile[i]
        /\ \A i \in Kept(logFile) : \E k \in DOMAIN L : L[k] = logFile[i]
    BY <1>2, ReadableFacts
  <2> QED
    BY <2>1 DEF Kept
<1> HIDE DEF L
<1>4. /\ C \in Seq(SoundLine)
      /\ \A k \in DOMAIN C : /\ C[k].kind \in {"result", "subresult", "canceled", "assistant", "end"}
                             /\ C[k].turn = 0 \/ \E i \in DOMAIN L : C[k].turn = L[i].turn
  BY <1>3, ClosuresAre
<1> HIDE DEF C
<1>5. /\ Log!MaxTurnCounter(L) \in 0 .. MaxTurn
      /\ \A k \in DOMAIN L : L[k].turn <= Log!MaxTurnCounter(L)
  <2> DEFINE S == {L[i].turn : i \in DOMAIN L}
  <2>1. \A k \in DOMAIN L : L[k].turn \in 0 .. MaxTurn
    BY <1>3 DEF SoundLine, AnyLine
  <2>2. S \in SUBSET (0 .. MaxTurn)
    BY <2>1
  <2>3. \A k \in DOMAIN L : L[k].turn \in S
    OBVIOUS
  <2> HIDE DEF S
  <2>4. /\ S = {} => Log!Last0(S) = 0
        /\ S # {} => Log!Last0(S) \in S /\ \A i \in S : i <= Log!Last0(S)
    BY <1>2, <2>2, Last0Is
  <2>5. Log!MaxTurnCounter(L) = Log!Last0(S)
    BY DEF Log!MaxTurnCounter, S
  <2>6. CASE S = {}
    BY <1>2, <2>3, <2>4, <2>5, <2>6
  <2>7. CASE S # {}
    <3>1. Log!Last0(S) \in S /\ \A k \in DOMAIN L : L[k].turn <= Log!Last0(S)
      BY <2>3, <2>4, <2>7
    <3> QED
      BY <2>2, <2>5, <3>1
  <2> QED
    BY <2>6, <2>7
<1>6. FormInv'
  BY <1>1, <1>4, <1>5 DEF TranscriptInv, FormInv
<1>7. logTurn = 0 /\ logSub = Log!NoSub /\ logAsked = {}
  BY <1>1 DEF TranscriptInv, FormInv
<1>8. MintedInv'
  <2>1. \A i \in DOMAIN logFile : logFile[i].turn <= logCounter'
    <3> SUFFICES ASSUME NEW i \in DOMAIN logFile PROVE logFile[i].turn <= logCounter'
      OBVIOUS
    <3>1. logFile[i] \in SoundLine
      BY <1>2
    <3>2. CASE logFile[i].kind = "torn"
      BY <1>1, <1>5, <3>1, <3>2 DEF SoundLine
    <3>3. CASE \E k \in DOMAIN L : L[k] = logFile[i]
      BY <1>1, <1>5, <3>3
    <3> QED
      BY <1>3, <3>2, <3>3
  <2>2. \A k \in DOMAIN C : C[k].turn <= logCounter'
    BY <1>1, <1>4, <1>5
  <2> QED
    BY <1>1, <1>5, <1>7, <2>1, <2>2 DEF MintedInv, Log!NoSub, Log!NoTurn
<1>9. SuspendInv'
  BY <1>1, <1>7 DEF SuspendInv
<1>10. ClosingInv'
  <2>1. /\ \A i \in DOMAIN logFile : logFile[i].kind = "call" =>
             \/ \E j \in DOMAIN logFile : i < j /\ logFile[j].kind = "result" /\ logFile[j].id = logFile[i].id
             \/ \E k \in DOMAIN C : C[k].kind = "result" /\ C[k].id = logFile[i].id
        /\ \A i \in DOMAIN logFile : logFile[i].kind = "dispatch" =>
             \/ \E j \in DOMAIN logFile : logFile[j].kind = "subresult" /\ logFile[j].turn = logFile[i].turn
             \/ \E k \in DOMAIN C : C[k].kind = "subresult" /\ C[k].turn = logFile[i].turn
        /\ \A i \in DOMAIN logFile : logFile[i].kind = "user" =>
             \/ \E j \in DOMAIN logFile : logFile[j].kind \in Log!Terminal /\ logFile[j].turn = logFile[i].turn
             \/ \E k \in DOMAIN C : C[k].kind \in Log!Terminal /\ C[k].turn = logFile[i].turn
        /\ (\E j \in DOMAIN logFile : logFile[j].kind = "end") \/ \E k \in DOMAIN C : C[k].kind = "end"
    BY <1>2, LoadMeets DEF C, L
  <2>2. \A i \in DOMAIN logFile : i \in Nat
    BY <1>2
  <2>3. ASSUME NEW i \in DOMAIN logFile PROVE logFile[i].kind = "call" => DueAfter(i)'
    BY <1>1, <2>1, <2>2 DEF DueAfter
  <2>4. ASSUME NEW i \in DOMAIN logFile
        PROVE  /\ logFile[i].kind = "dispatch" => Due({"subresult"}, logFile[i].turn)'
               /\ logFile[i].kind = "user" => Due(Log!Terminal, logFile[i].turn)'
    BY <1>1, <2>1 DEF Due
  <2> QED
    BY <1>1, <1>4, <2>1, <2>3, <2>4 DEF ClosingInv
<1> QED
  BY <1>6, <1>8, <1>9, <1>10 DEF TranscriptInv

\* The turn ids, the suspensions and the closures are sound after any crash.
THEOREM TranscriptInvariance ==
  ASSUME Log!LogAssumption PROVE Log!Spec => []TranscriptInv
<1>1. Log!Init => TranscriptInv
  <2> SUFFICES ASSUME Log!Init PROVE TranscriptInv
    OBVIOUS
  <2>1. MaxTurn \in Nat /\ <<>> \in Seq(SoundLine)
    BY DEF Log!LogAssumption
  <2> QED
    BY <2>1 DEF Log!Init, TranscriptInv, FormInv, MintedInv, SuspendInv, ClosingInv, Log!NoSub, Log!NoTurn
<1>2. TranscriptInv /\ [Log!Next]_(Log!vars) => TranscriptInv'
  <2> SUFFICES ASSUME TranscriptInv, [Log!Next]_(Log!vars) PROVE TranscriptInv'
    OBVIOUS
  <2>1. CASE UNCHANGED Log!vars
    BY <2>1 DEF Log!vars, TranscriptInv, FormInv, MintedInv, SuspendInv, ClosingInv, Called, Due, DueAfter
  <2>2. CASE Log!Loaded
    <3>1. /\ logStep' = "idle" /\ logStep = "loading" /\ logTodo = <<>>
          /\ UNCHANGED <<logFile, logTail, logTodo, logTurn, logCounter, logOpen, logAsked, logSub, logArmed, logAttempt>>
      BY <2>2 DEF Log!Loaded, Log!turnState
    <3> QED
      BY <3>1 DEF TranscriptInv, FormInv, MintedInv, SuspendInv, ClosingInv, Called
  <2>3. CASE \E cs \in Log!Batches : \E s \in SUBSET Log!ToSet(cs) : Log!Respond(cs, s)
    BY <2>3, RespondKeeps
  <2>4. CASE \E c \in Call : Log!ResumeAsk(c)
    BY <2>4, ResumeAskKeeps
  <2>5. CASE Log!Write \/ Log!SessionPrompt \/ Log!Clear \/ Log!Crash \/ Log!Load \/ Log!BatchDone
    BY <2>5, WriteKeeps, PromptKeeps, CrashKeeps, LoadKeeps, BatchDoneKeeps
  <2>6. CASE Log!Steered \/ Log!Streamed \/ Log!MaybeCompact \/ Log!OverflowRetry
               \/ \E k \in {"assistant", "canceled", "error"} : Log!TurnEnds(k)
    BY <2>6, StreamingKeeps
  <2>7. CASE \/ \E c \in Call : Log!Result(c) \/ Log!Dispatch(c)
             \/ \E c \in SubCall : Log!SubTool(c)
             \/ Log!SubEnds
    BY <2>7, ToolKeeps
  <2> QED
    BY <2>1, <2>2, <2>3, <2>4, <2>5, <2>6, <2>7, Zenon DEF Log!Next
<1> QED
  BY <1>1, <1>2, PTL DEF Log!Spec

\* A prompt, a subagent or a local command takes a turn id no readable line
\* bears, over any number of crashes and resumes (seed.go MaxTurnCounter,
\* SeedResume).
THEOREM TurnIdsStayFresh ==
  ASSUME Log!LogAssumption PROVE Log!Spec => Log!TurnIdsFresh
<1> DEFINE Fresh == logCounter' > logCounter /\ logStep # "down" => logCounter' \notin Log!Turns(Log!Lines)
<1>1. ASSUME TranscriptInv, Log!Next, logCounter' > logCounter, logStep # "down"
      PROVE  logCounter' = logCounter + 1
  <2>1. logCounter \in Nat
    BY <1>1 DEF TranscriptInv, FormInv
  <2>2. CASE logCounter' = logCounter \/ logStep' = "down"
    <3>1. logStep' = "down" => logCounter' = 0
      BY <1>1, <2>1 DEF Log!Next, Log!Crash, Log!Write, Log!SessionPrompt, Log!Steered, Log!Streamed,
        Log!MaybeCompact, Log!OverflowRetry, Log!Respond, Log!Result, Log!Dispatch, Log!ResumeAsk, Log!SubTool,
        Log!SubEnds, Log!BatchDone, Log!TurnEnds, Log!Clear, Log!Load, Log!Loaded, Log!turnState
    <3> QED
      BY <1>1, <2>1, <2>2, <3>1
  <2>3. CASE logCounter' # logCounter /\ logStep' # "down"
    BY <1>1, <2>3 DEF Log!Next, Log!Crash, Log!Write, Log!SessionPrompt, Log!Steered, Log!Streamed,
      Log!MaybeCompact, Log!OverflowRetry, Log!Respond, Log!Result, Log!Dispatch, Log!ResumeAsk, Log!SubTool,
      Log!SubEnds, Log!BatchDone, Log!TurnEnds, Log!Clear, Log!Load, Log!Loaded, Log!turnState
  <2> QED
    BY <2>2, <2>3
<1>2. TranscriptInv /\ [Log!Next]_(Log!vars) => [Fresh]_(Log!vars)
  <2> SUFFICES ASSUME TranscriptInv, Log!Next, logCounter' > logCounter, logStep # "down"
               PROVE  logCounter' \notin Log!Turns(Log!Lines)
    BY DEF Fresh
  <2>1. logFile \in Seq(SoundLine) /\ logCounter \in Nat /\ \A i \in DOMAIN logFile : logFile[i].turn <= logCounter
    BY DEF TranscriptInv, FormInv, MintedInv
  <2>2. \A k \in DOMAIN Log!Lines : \E i \in DOMAIN logFile : Log!Lines[k] = logFile[i]
    <3>1. \A k \in DOMAIN Log!Lines : \E i \in Kept(logFile) : Log!Lines[k] = logFile[i]
      BY <2>1, ReadableFacts DEF Log!Lines
    <3> QED
      BY <3>1 DEF Kept
  <2>3. logCounter' = logCounter + 1
    BY <1>1
  <2>4. \A k \in DOMAIN Log!Lines : Log!Lines[k].turn # logCounter'
    BY <2>1, <2>2, <2>3
  <2> QED
    BY <2>4 DEF Log!Turns
<1> QED
  BY <1>2, TranscriptInvariance, PTL DEF Log!Spec, Log!TurnIdsFresh, Fresh

\* A finished load leaves nothing dangling: every call is answered after it was
\* made, every subagent settled, every prompted turn ended, though earlier loads
\* crashed half way, unless it found an unterminated last line (reconcile.go).
THEOREM LoadSettles ==
  ASSUME Log!LogAssumption PROVE Log!Spec => []Log!LoadClosesAll
<1>1. TranscriptInv => Log!LoadClosesAll
  <2> SUFFICES ASSUME TranscriptInv, logStep = "loading", logTodo = <<>>, logClean, logCrashes > 0
               PROVE  /\ \A i \in DOMAIN Log!Lines :
                           /\ Log!Lines[i].kind = "call" =>
                                \E k \in DOMAIN Log!Lines : k > i /\ Log!Lines[k].kind = "result"
                                                                  /\ Log!Lines[k].id = Log!Lines[i].id
                           /\ Log!Lines[i].kind = "dispatch" => Log!Has(Log!Lines, Log!Lines[i].turn, {"subresult"})
                           /\ Log!Lines[i].kind = "user" => Log!Has(Log!Lines, Log!Lines[i].turn, Log!Terminal)
                      /\ Log!SessionEnded(Log!Lines)
    BY DEF Log!LoadClosesAll
  <2> DEFINE L == Log!Lines
             K == Kept(logFile)
             at(i) == Log!Rank(K, i)
  <2>1. /\ logFile \in Seq(SoundLine)
        /\ \A i \in DOMAIN logFile :
             /\ logFile[i].kind = "call" => \E k \in DOMAIN logFile : k > i /\ logFile[k].kind = "result"
                                                                       /\ logFile[k].id = logFile[i].id
             /\ logFile[i].kind = "dispatch" => \E k \in DOMAIN logFile : logFile[k].kind = "subresult"
                                                                          /\ logFile[k].turn = logFile[i].turn
             /\ logFile[i].kind = "user" => \E k \in DOMAIN logFile : logFile[k].kind \in Log!Terminal
                                                                      /\ logFile[k].turn = logFile[i].turn
        /\ \E k \in DOMAIN logFile : logFile[k].kind = "end"
    BY DEF TranscriptInv, FormInv, ClosingInv, Due, DueAfter
  <2>2. /\ L \in Seq(SoundLine)
        /\ \A k \in DOMAIN L : \E i \in K : L[k] = logFile[i] /\ at(i) = k
        /\ \A i \in K : at(i) \in DOMAIN L /\ L[at(i)] = logFile[i]
        /\ \A i, j \in K : i < j => at(i) < at(j)
    BY <2>1, ReadableFacts DEF Log!Lines
  <2>3. /\ \A i \in K : i \in DOMAIN logFile /\ i \in Nat
        /\ \A i \in DOMAIN logFile : logFile[i].kind # "torn" => i \in K
    BY <2>1 DEF Kept
  <2>4. "torn" \notin Log!Terminal
    BY DEF Log!Terminal
  <2> HIDE DEF L, K, at
  <2>5. ASSUME NEW m \in DOMAIN L
        PROVE  /\ L[m].kind = "call" => \E k \in DOMAIN L : k > m /\ L[k].kind = "result" /\ L[k].id = L[m].id
               /\ L[m].kind = "dispatch" => \E k \in DOMAIN L : L[k].kind = "subresult" /\ L[k].turn = L[m].turn
               /\ L[m].kind = "user" => \E k \in DOMAIN L : L[k].kind \in Log!Terminal /\ L[k].turn = L[m].turn
    <3>1. PICK i \in K : L[m] = logFile[i] /\ at(i) = m
      BY <2>2
    <3>2. i \in DOMAIN logFile
      BY <2>3
    <3>3. ASSUME L[m].kind = "call"
          PROVE  \E k \in DOMAIN L : k > m /\ L[k].kind = "result" /\ L[k].id = L[m].id
      <4>1. PICK j \in DOMAIN logFile : j > i /\ logFile[j].kind = "result" /\ logFile[j].id = logFile[i].id
        BY <2>1, <3>1, <3>2, <3>3
      <4>2. j \in K /\ i \in Nat /\ j \in Nat
        BY <2>3, <4>1
      <4>3. at(j) \in DOMAIN L /\ L[at(j)] = logFile[j] /\ at(i) < at(j)
        BY <2>2, <4>1, <4>2
      <4> QED
        BY <2>2, <3>1, <4>1, <4>3
    <3>4. ASSUME L[m].kind = "dispatch"
          PROVE  \E k \in DOMAIN L : L[k].kind = "subresult" /\ L[k].turn = L[m].turn
      <4>1. PICK j \in DOMAIN logFile : logFile[j].kind = "subresult" /\ logFile[j].turn = logFile[i].turn
        BY <2>1, <3>1, <3>2, <3>4
      <4> QED
        BY <2>2, <2>3, <3>1, <4>1
    <3>5. ASSUME L[m].kind = "user"
          PROVE  \E k \in DOMAIN L : L[k].kind \in Log!Terminal /\ L[k].turn = L[m].turn
      <4>1. PICK j \in DOMAIN logFile : logFile[j].kind \in Log!Terminal /\ logFile[j].turn = logFile[i].turn
        BY <2>1, <3>1, <3>2, <3>5
      <4> QED
        BY <2>2, <2>3, <2>4, <3>1, <4>1
    <3> QED
      BY <3>3, <3>4, <3>5
  <2>6. \E k \in DOMAIN L : L[k].kind = "end"
    BY <2>1, <2>2, <2>3
  <2> QED
    BY <2>5, <2>6 DEF L, Log!Has, Log!OfTurn, Log!OfKind, Log!SessionEnded
<1> QED
  BY <1>1, TranscriptInvariance, PTL

\* The line a projection takes for the request is the first one its search finds.
LEMMA FirstFound ==
  ASSUME NEW a, NEW b, NEW c, NEW d, a # 0
  PROVE  Log!FirstNonZero(<<a, b, c, d>>) = a
<1> DEFINE s == <<a, b, c, d>>
           nz == {i \in DOMAIN s : s[i] # 0}
<1>1. DOMAIN s = 1 .. 4 /\ s[1] = a
  OBVIOUS
<1>2. nz \subseteq 1 .. 4 /\ 1 \in nz
  BY <1>1
<1> HIDE DEF nz
<1>3. Log!Min(nz) = 1
  <2>1. \A x \in nz : (\A y \in nz : x <= y) => x = 1
    BY <1>2
  <2>2. \A y \in nz : 1 <= y
    BY <1>2
  <2> QED
    BY <1>2, <2>1, <2>2 DEF Log!Min
<1>4. Log!FirstNonZero(s) = IF nz = {} THEN 0 ELSE s[Log!Min(nz)]
  BY DEF Log!FirstNonZero, nz
<1> QED
  BY <1>1, <1>2, <1>3, <1>4

LEMMA OwnFound ==
  ASSUME NEW L \in Seq(SoundLine), NEW n, NEW A \in SUBSET DOMAIN L, NEW B,
         \E u \in A : L[u].kind = "user" /\ L[u].turn = n
  PROVE  LET i == Log!FindIntentLine(L, A, B, n)
         IN  i \in A /\ L[i].kind = "user" /\ L[i].turn = n
<1> DEFINE S == {i \in A : L[i].kind = "user" /\ L[i].turn = n}
           i == Log!LastUserOf(L, A, n)
<1>1. i = Log!Last0(S)
  BY DEF Log!LastUserOf
<1>2. Len(L) \in Nat /\ S \in SUBSET (0 .. Len(L)) /\ S # {} /\ 0 \notin S
  OBVIOUS
<1>3. i \in S
  BY <1>1, <1>2, Last0Is
<1>4. Log!FindIntentLine(L, A, B, n) = i
  BY <1>2, <1>3, FirstFound DEF Log!FindIntentLine
<1> QED
  BY <1>3, <1>4

\* The prompt of a turn lies behind every marker, boundary and reset its
\* projection looks at.
LEMMA AnchorIs ==
  ASSUME NEW L \in Seq(SoundLine), NEW n, Log!Has(L, n, {"user"})
  PROVE  LET u == Log!ProjectedUserIdx(L, n)
         IN  /\ u \in DOMAIN L /\ L[u].kind = "user" /\ L[u].turn = n
             /\ \A K : Log!LastBefore(L, n, K) \in Nat /\ Log!LastBefore(L, n, K) < u
<1> DEFINE own == Log!OfTurn(L, {"user"}, n)
           u == Log!ProjectedUserIdx(L, n)
<1>1. own # {} /\ \A i \in own : i \in DOMAIN L /\ L[i].kind = "user" /\ L[i].turn = n
  BY DEF Log!Has, Log!OfTurn, Log!OfKind
<1>2. u = Log!Last0(own)
  BY <1>1 DEF Log!ProjectedUserIdx
<1> HIDE DEF own, u
<1>3. Len(L) \in Nat /\ DOMAIN L = 1 .. Len(L) /\ own \in SUBSET (0 .. Len(L))
  BY <1>1
<1>4. u \in own
  BY <1>1, <1>2, <1>3, Last0Is
<1>5. u \in DOMAIN L /\ u # 0 /\ u \in Nat
  BY <1>1, <1>3, <1>4
<1>6. ASSUME NEW K
      PROVE  Log!LastBefore(L, n, K) \in Nat /\ Log!LastBefore(L, n, K) < u
  <2> DEFINE S == {i \in Log!OfKind(L, K) : u = 0 \/ i < u}
  <2>1. Log!LastBefore(L, n, K) = Log!Last0(S)
    BY DEF Log!LastBefore, u
  <2>2. S \in SUBSET (0 .. Len(L)) /\ \A i \in S : i < u
    BY <1>3, <1>5 DEF Log!OfKind
  <2> HIDE DEF S
  <2>3. Log!Last0(S) = 0 \/ Log!Last0(S) \in S
    BY <1>3, <2>2, Last0Is
  <2>4. \A i \in S : i \in Nat /\ i < u
    BY <1>3, <2>2
  <2>5. 0 \in Nat /\ 0 < u
    BY <1>5
  <2> QED
    BY <2>1, <2>3, <2>4, <2>5
<1> QED
  BY <1>1, <1>4, <1>5, <1>6 DEF u

\* Every request states the prompt of its own turn, whatever markers, boundaries
\* and resets the transcript has (projector.go findIntentLine).
THEOREM IntentIsOwn ==
  ASSUME Log!LogAssumption PROVE Log!Spec => []Log!IntentIsTheTurns
<1>1. TranscriptInv => Log!IntentIsTheTurns
  <2> SUFFICES ASSUME TranscriptInv, Log!Has(Log!Lines, logTurn, {"user"})
               PROVE  LET i == Log!Project(Log!Lines, logTurn, logArmed).intent
                      IN  i # 0 /\ Log!Lines[i].kind = "user" /\ Log!Lines[i].turn = logTurn
    BY DEF Log!IntentIsTheTurns
  <2> DEFINE L == Log!Lines
             n == logTurn
             u == Log!ProjectedUserIdx(L, n)
             Own(i) == i # 0 /\ L[i].kind = "user" /\ L[i].turn = n
  <2>1. L \in Seq(SoundLine)
    BY ReadableFacts DEF TranscriptInv, FormInv, Log!Lines
  <2>2. /\ u \in DOMAIN L /\ Own(u) /\ u \in Nat
        /\ \A K : Log!LastBefore(L, n, K) \in Nat /\ Log!LastBefore(L, n, K) < u
    BY <2>1, AnchorIs
  <2> HIDE DEF L, n, u
  <2>3. DOMAIN L = 1 .. Len(L) /\ Len(L) \in Nat
    BY <2>1
  <2>4. ASSUME NEW k \in Nat, k < u, NEW B
        PROVE  Own(Log!FindIntentLine(L, k + 1 .. Len(L), B, n))
    <3> DEFINE A == k + 1 .. Len(L)
    <3>1. A \in SUBSET DOMAIN L /\ u \in A /\ 0 \notin A
      BY <2>2, <2>3, <2>4
    <3> HIDE DEF A
    <3>2. \E i \in A : L[i].kind = "user" /\ L[i].turn = n
      BY <2>2, <3>1
    <3>3. LET i == Log!FindIntentLine(L, A, B, n)
          IN  i \in A /\ L[i].kind = "user" /\ L[i].turn = n
      BY <2>1, <3>1, <3>2, OwnFound
    <3> QED
      BY <3>1, <3>3 DEF A
  <2>5. \A r : Log!ProjectFullReset(L, r, n).intent = Log!FindIntentLine(L, r + 1 .. Len(L), {}, n)
    BY DEF Log!ProjectFullReset, Log!Projection
  <2>6. \A m : Log!ProjectCompacted(L, m, n).intent = Log!FindIntentLine(L, m + 1 .. Len(L), 1 .. m - 1, n)
    BY DEF Log!ProjectCompacted, Log!Projection
  <2>7. \A m : Log!ProjectSameTurnCompacted(L, m, n).intent = u
    BY <2>2 DEF Log!ProjectSameTurnCompacted, Log!Projection, u
  <2>8. Own(Log!ProjectPlain(L, n).intent)
    <3> DEFINE cut == Log!SplitAtResetBoundary(L, n)
               b == Log!ResetBoundaryIdx(L, n)
    <3>1. Log!ProjectPlain(L, n).intent = Log!FindIntentLine(L, cut[2] .. Len(L), 1 .. cut[1], n)
      BY DEF Log!ProjectPlain, Log!Projection
    <3>2. b \in Nat /\ b < u
      BY <2>2 DEF Log!ResetBoundaryIdx
    <3>3. cut = IF b # 0 THEN <<b - 1, b + 1>> ELSE <<u - 1, u>>
      BY <2>2 DEF Log!SplitAtResetBoundary, u
    <3> HIDE DEF cut, b
    <3>4. cut[2] = IF b # 0 THEN b + 1 ELSE (u - 1) + 1
      BY <2>2, <3>3
    <3>5. u - 1 \in Nat /\ u - 1 < u
      BY <2>2
    <3> QED
      BY <2>4, <3>1, <3>2, <3>4, <3>5
  <2>9. Own(Log!Project(L, n, logArmed).intent)
    <3> DEFINE r == Log!FullResetBoundaryIdx(L, n)
               m == Log!CompactionMarkerIdx(L, n)
               st == IF logArmed = n THEN Log!SameTurnMarkerIdx(L, n) ELSE 0
               p == Log!Project(L, n, logArmed)
    <3>1. r \in Nat /\ r < u /\ m \in Nat /\ m < u
      BY <2>2 DEF Log!FullResetBoundaryIdx, Log!CompactionMarkerIdx
    <3>2. \/ p = Log!ProjectSameTurnCompacted(L, st, n)
          \/ p = Log!ProjectFullReset(L, r, n)
          \/ p = Log!ProjectCompacted(L, m, n)
          \/ p = Log!ProjectPlain(L, n)
      BY DEF Log!Project
    <3> QED
      BY <2>2, <2>4, <2>5, <2>6, <2>7, <2>8, <3>1, <3>2
  <2> QED
    BY <2>9 DEF L, n
<1> QED
  BY <1>1, TranscriptInvariance, PTL

-----------------------------------------------------------------------------
(***************************************************************************)
(* Prompt ingress: what a prompt's images and mentions become, while other *)
(* prompts, rule edits and a rescan run beside it.                         *)
(***************************************************************************)
CONSTANTS Session, Prompts, Catalog, Mentions, Limits, MaxChanges
VARIABLES workspace, denied, authority, commands, images, supports, asking, ingress, noted,
          changes, lostImages

Ingress == INSTANCE PromptIngress WITH
  files <- workspace, chain <- commands, disk <- images, run <- ingress, log <- noted,
  lost <- lostImages

\* What a block of a prompt may be before it is persisted.
Sent == {Ingress!Text(<<Ingress!Undelivered>>)} \cup (UNION {Ingress!ToSet(p) : p \in Prompts})

Within(b) == b.w <= Limits.maxW /\ b.h <= Limits.maxH /\ b.bytes <= Limits.maxBytes
Delivered(s, b) == supports[s] /\ b \in images \cup lostImages /\ Within(b)

Loop == {"ingress", "original", "scaled"}
Early == {"idle", "drop"} \cup Loop
Verdict(b) == Ingress!ValidateAndScaleImage(b).kind

\* Every reference the loop has put out is of an image that can be delivered, and
\* what it is about to persist was accepted.
BlockInv(s) ==
  LET r == ingress[s] IN
  /\ r.at \in Early => noted[s] = <<>>
  /\ r.at = "drop" => r.blocks \in Seq(Sent) /\ r.out = <<>>
  /\ r.at \in Loop =>
       /\ r.todo \in Seq(Sent) /\ r.out \in Seq(Sent \cup images \cup lostImages)
       /\ ~supports[s] => \A i \in DOMAIN r.todo : ~Ingress!IsImage(r.todo[i])
       /\ \A i \in DOMAIN r.out : Ingress!Ref(r.out[i]) => Delivered(s, r.out[i])
  /\ r.at \in {"original", "scaled"} =>
       /\ r.todo # <<>> /\ Ingress!IsImage(Head(r.todo))
       /\ Verdict(Head(r.todo)) \in (IF r.at = "scaled" THEN {"scaled"} ELSE {"fits", "scaled"})
  /\ r.at \notin Early =>
       /\ \E n \in Nat : DOMAIN r.blocks = 1 .. n
       /\ \A i \in DOMAIN r.blocks : Ingress!Ref(r.blocks[i]) => Delivered(s, r.blocks[i])

\* An absolute path is looked at before it is read: what was allowed then is not
\* denied ever since the prompt came.
MentionInv(s) ==
  LET r == ingress[s]
      m == Mentions[Head(r.todo)] IN
  /\ r.always \subseteq denied
  /\ \E S : r.shown \in Seq(S)
  /\ r.at = "reading" /\ m.abs => m.path \notin r.always
  /\ \A i \in DOMAIN r.shown :
       authority /\ r.shown[i][2] = "file" => Mentions[r.shown[i][1]].path \notin r.always

IngressInv ==
  /\ DOMAIN ingress = Session /\ DOMAIN noted = Session
  /\ \A s \in Session : DOMAIN ingress[s] = DOMAIN Ingress!Idle
  /\ \A s \in Session : BlockInv(s) /\ MentionInv(s)

LEMMA SeqGrows ==
  ASSUME NEW S, NEW T, S \subseteq T, NEW q \in Seq(S)
  PROVE  q \in Seq(T)
OBVIOUS

LEMMA SentIs ==
  ASSUME Ingress!IngressAssumption
  PROVE  /\ \A p \in Prompts : p \in Seq(Sent)
         /\ Ingress!Text(<<Ingress!Undelivered>>) \in Sent
         /\ \A b \in Sent :
              /\ ~Ingress!Ref(b)
              /\ Ingress!IsImage(b) => {b.w, b.h, b.bytes, b.encoded, b.jpeg} \subseteq Nat
<1>1. \A b \in Sent : b = Ingress!Text(<<Ingress!Undelivered>>) \/ \E p \in Prompts : b \in Ingress!ToSet(p)
  BY DEF Sent
<1>2. ASSUME NEW p \in Prompts
      PROVE  p \in Seq(Sent)
  <2>1. p \in Seq(Ingress!ToSet(p))
    BY DEF Ingress!IngressAssumption
  <2>2. Ingress!ToSet(p) \subseteq Sent
    BY DEF Sent
  <2> QED
    BY <2>1, <2>2, SeqGrows
<1> DEFINE u == Ingress!Text(<<Ingress!Undelivered>>)
<1>3. u.kind = "text" /\ u \in Sent
  BY DEF Ingress!Text, Sent
<1>4. \A p \in Prompts : \A b \in Ingress!ToSet(p) :
        /\ b.kind \in {"text", "image"}
        /\ b.kind = "image" => {b.w, b.h, b.bytes, b.encoded, b.jpeg} \subseteq Nat
  BY DEF Ingress!IngressAssumption
<1> HIDE DEF u
<1>5. \A b \in Sent : /\ b.kind \in {"text", "image"}
                      /\ b.kind = "image" => {b.w, b.h, b.bytes, b.encoded, b.jpeg} \subseteq Nat
  BY <1>1, <1>3, <1>4 DEF u
<1> QED
  BY <1>2, <1>3, <1>5 DEF Ingress!Ref, Ingress!IsImage, u

\* An image that is scaled fits the limits (imgscale.go fitLongEdge).
LEMMA FitIs ==
  ASSUME NEW w \in Nat, NEW h \in Nat, NEW t \in Nat, NEW long \in Nat,
         w <= long, h <= long, t >= 1, long > t
  PROVE  (w * t) \div long \in Nat /\ (w * t) \div long <= t
<1>1. w * t <= long * t /\ w * t \in Nat /\ long * t \in Nat
  OBVIOUS
<1> DEFINE q == (w * t) \div long
<1>2. q \in Nat /\ q * long <= w * t
  BY <1>1
<1>3. q * long <= long * t
  BY <1>1, <1>2
<1> HIDE DEF q
<1>4. CASE q >= t + 1
  <2>1. q * long >= (t + 1) * long
    BY <1>2, <1>4
  <2>2. (t + 1) * long = t * long + long /\ long * t = t * long
    OBVIOUS
  <2> QED
    BY <1>3, <2>1, <2>2
<1> QED
  BY <1>2, <1>4 DEF q

\* What is persisted of an accepted image is within the limits
\* (imgscale.go ValidateAndScaleImage).
LEMMA AcceptedFits ==
  ASSUME Ingress!IngressAssumption, NEW b \in Sent, Ingress!IsImage(b)
  PROVE  LET v == Ingress!ValidateAndScaleImage(b)
         IN  /\ v # Ingress!Nothing => v.kind \in {"fits", "scaled"}
             /\ v.kind = "fits" => Within(b)
             /\ v.kind = "scaled" => Within(v)
<1> DEFINE v == Ingress!ValidateAndScaleImage(b)
           over == b.w > Limits.maxW \/ b.h > Limits.maxH \/ b.bytes > Limits.maxBytes
           fit == Ingress!FitLongEdge(b.w, b.h)
           size == Ingress!EncodeScaled(b)
           long == Ingress!Max({b.w, b.h})
<1>1. /\ {b.w, b.h, b.bytes, b.encoded, b.jpeg} \subseteq Nat
      /\ {Limits.maxW, Limits.maxH, Limits.maxBytes, Limits.target} \subseteq Nat
      /\ 1 <= Limits.target /\ Limits.target <= Limits.maxW /\ Limits.target <= Limits.maxH
  BY SentIs DEF Ingress!IngressAssumption
<1>2. \/ v = Ingress!Nothing
      \/ v = [kind |-> "fits", w |-> b.w, h |-> b.h, bytes |-> b.bytes] /\ ~over
      \/ v = [kind |-> "scaled", w |-> fit[1], h |-> fit[2], bytes |-> size] /\ size <= Limits.maxBytes
  <2>1. size \in Nat
    BY <1>1 DEF Ingress!EncodeScaled
  <2>2. ~(size > Limits.maxBytes) => size <= Limits.maxBytes
    BY <1>1, <2>1
  <2> QED
    BY <2>2 DEF Ingress!ValidateAndScaleImage
<1>3. fit[1] <= Limits.maxW /\ fit[2] <= Limits.maxH
  <2>1. long \in Nat /\ b.w <= long /\ b.h <= long
    <3>1. \E x \in {b.w, b.h} : \A y \in {b.w, b.h} : x >= y
      BY <1>1
    <3>2. long \in {b.w, b.h} /\ \A y \in {b.w, b.h} : long >= y
      BY <3>1 DEF Ingress!Max
    <3> QED
      BY <1>1, <3>2
  <2> HIDE DEF long
  <2>2. CASE long <= Limits.target
    <3>1. fit = <<b.w, b.h>>
      BY <2>2 DEF Ingress!FitLongEdge, long
    <3>2. b.w <= Limits.maxW /\ b.h <= Limits.maxH
      BY <1>1, <2>1, <2>2
    <3> QED
      BY <3>1, <3>2
  <2>3. CASE ~(long <= Limits.target)
    <3> DEFINE Fit(n) == Ingress!Max({1, (n * Limits.target) \div long})
    <3>1. fit = <<Fit(b.w), Fit(b.h)>>
      BY <2>3 DEF Ingress!FitLongEdge, long
    <3>2. ASSUME NEW n \in {b.w, b.h}
          PROVE  Fit(n) \in Nat /\ Fit(n) <= Limits.target
      <4> DEFINE q == (n * Limits.target) \div long
      <4>1. q \in Nat /\ q <= Limits.target
        <5>1. n \in Nat /\ n <= long /\ long > Limits.target /\ Limits.target \in Nat
          BY <1>1, <2>1, <2>3
        <5> QED
          BY <1>1, <2>1, <5>1, FitIs
      <4> HIDE DEF q
      <4>2. \E x \in {1, q} : \A y \in {1, q} : x >= y
        BY <4>1
      <4>3. Ingress!Max({1, q}) \in {1, q}
        BY <4>2 DEF Ingress!Max
      <4> QED
        BY <1>1, <4>1, <4>3 DEF q
    <3>3. {Fit(b.w), Fit(b.h)} \subseteq Nat /\ Fit(b.w) <= Limits.target /\ Fit(b.h) <= Limits.target
      BY <3>2
    <3>4. fit[1] = Fit(b.w) /\ fit[2] = Fit(b.h)
      BY <3>1
    <3> HIDE DEF Fit
    <3> QED
      BY <1>1, <3>3, <3>4
  <2> QED
    BY <2>2, <2>3
<1> HIDE DEF v, fit, size
<1>4. CASE v = Ingress!Nothing
  BY <1>4 DEF v, Ingress!Nothing
<1>5. CASE v = [kind |-> "fits", w |-> b.w, h |-> b.h, bytes |-> b.bytes] /\ ~over
  <2>1. v.kind = "fits"
    BY <1>5
  <2>2. Within(b)
    BY <1>1, <1>5 DEF Within
  <2> QED
    BY <2>1, <2>2 DEF v
<1>6. CASE v = [kind |-> "scaled", w |-> fit[1], h |-> fit[2], bytes |-> size] /\ size <= Limits.maxBytes
  <2>1. v.kind = "scaled" /\ v.w = fit[1] /\ v.h = fit[2] /\ v.bytes = size
    BY <1>6
  <2> QED
    BY <1>3, <1>6, <2>1 DEF v, Within
<1> QED
  BY <1>2, <1>4, <1>5, <1>6

\* Of the other prompts nothing changes but what may be on disk.
StepOf(s) ==
  /\ DOMAIN ingress' = Session /\ DOMAIN noted' = Session
  /\ \A t \in Session : DOMAIN ingress'[t] = DOMAIN Ingress!Idle
  /\ \A t \in Session \ {s} : ingress'[t] = ingress[t] /\ noted'[t] = noted[t]
  /\ images \cup lostImages \subseteq images' \cup lostImages'
  /\ UNCHANGED <<supports, authority, denied>>

LEMMA Untouched ==
  ASSUME NEW t, BlockInv(t), MentionInv(t), ingress'[t] = ingress[t], noted'[t] = noted[t],
         images \cup lostImages \subseteq images' \cup lostImages', UNCHANGED <<supports, authority, denied>>
  PROVE  BlockInv(t)' /\ MentionInv(t)'
<1>1. MentionInv(t)'
  BY DEF MentionInv
<1>2. \A b : Delivered(t, b) => Delivered(t, b)'
  BY DEF Delivered, Within
<1>3. \A q \in Seq(Sent \cup images \cup lostImages) : q \in Seq(Sent \cup images' \cup lostImages')
  <2>1. Sent \cup images \cup lostImages \subseteq Sent \cup images' \cup lostImages'
    OBVIOUS
  <2> QED
    BY <2>1, SeqGrows
<1> QED
  BY <1>1, <1>2, <1>3 DEF BlockInv, Loop, Early

LEMMA StepKeeps ==
  ASSUME IngressInv, NEW s \in Session, StepOf(s), BlockInv(s)', MentionInv(s)'
  PROVE  IngressInv'
<1>1. ASSUME NEW t \in Session, t # s
      PROVE  BlockInv(t)' /\ MentionInv(t)'
  BY <1>1, Untouched DEF IngressInv, StepOf
<1>2. (\A t \in Session : DOMAIN ingress[t] = DOMAIN Ingress!Idle)'
  BY DEF StepOf
<1>3. (DOMAIN ingress = Session /\ DOMAIN noted = Session)'
  BY DEF StepOf
<1>4. (\A t \in Session : BlockInv(t) /\ MentionInv(t))'
  BY <1>1
<1> QED
  BY <1>2, <1>3, <1>4 DEF IngressInv

\* Past the loop a step leaves the blocks alone, or puts a text in place of one.
LEMMA BlocksStay ==
  ASSUME IngressInv, NEW s \in Session, StepOf(s),
         ingress[s].at \notin Early, ingress'[s].at \notin Early,
         DOMAIN ingress'[s].blocks = DOMAIN ingress[s].blocks,
         \A i \in DOMAIN ingress[s].blocks :
           \/ ingress'[s].blocks[i] = ingress[s].blocks[i]
           \/ ~Ingress!Ref(ingress'[s].blocks[i])
  PROVE  BlockInv(s)'
<1>1. \A b : Delivered(s, b) => Delivered(s, b)'
  BY DEF Delivered, Within, StepOf
<1>2. /\ \E n \in Nat : DOMAIN ingress[s].blocks = 1 .. n
      /\ \A i \in DOMAIN ingress[s].blocks : Ingress!Ref(ingress[s].blocks[i]) => Delivered(s, ingress[s].blocks[i])
  BY DEF IngressInv, BlockInv
<1>3. (\A i \in DOMAIN ingress[s].blocks : Ingress!Ref(ingress[s].blocks[i]) => Delivered(s, ingress[s].blocks[i]))'
  BY <1>1, <1>2
<1>4. (\E n \in Nat : DOMAIN ingress[s].blocks = 1 .. n)'
  BY <1>2
<1>5. (ingress[s].at \notin Early)' /\ Loop \subseteq Early /\ "drop" \in Early
      /\ {"original", "scaled"} \subseteq Early
  BY DEF Early, Loop
<1> QED
  BY <1>3, <1>4, <1>5 DEF BlockInv

LEMMA MentionsStay ==
  ASSUME IngressInv, NEW s \in Session, StepOf(s), ingress'[s].at # "reading",
         ingress'[s].always = ingress[s].always, ingress'[s].shown = ingress[s].shown
  PROVE  MentionInv(s)'
  BY DEF IngressInv, MentionInv, StepOf

\* The loops over a prompt's blocks pick as those over a transcript do.
LEMMA SamePick == \A q, I : Ingress!Pick(q, I) = Log!Pick(q, I)
BY DEF Ingress!Pick, Log!Pick, Ingress!Rank, Log!Rank, Ingress!Cardinality, Log!Cardinality,
  Ingress!IsFiniteSet, Log!IsFiniteSet

LEMMA PickedOf ==
  ASSUME NEW q, NEW n \in Nat, DOMAIN q = 1 .. n, NEW I \in SUBSET DOMAIN q, NEW k \in DOMAIN Ingress!Pick(q, I)
  PROVE  \E i \in I : Ingress!Pick(q, I)[k] = q[i]
<1>1. I \in SUBSET (1 .. n)
  OBVIOUS
<1>2. /\ DOMAIN Log!Pick(q, I) = 1 .. Cardinality(I)
      /\ \A j \in 1 .. Cardinality(I) : \E i \in I : Log!Pick(q, I)[j] = q[i]
  BY <1>1, PickFacts
<1> QED
  BY <1>2, SamePick

LEMMA Picked ==
  ASSUME NEW S, NEW q \in Seq(S), NEW I \in SUBSET DOMAIN q
  PROVE  /\ Ingress!Pick(q, I) \in Seq(S)
         /\ \A k \in DOMAIN Ingress!Pick(q, I) : \E i \in I : Ingress!Pick(q, I)[k] = q[i]
<1>1. Len(q) \in Nat /\ DOMAIN q = 1 .. Len(q) /\ \A i \in I : q[i] \in S
  OBVIOUS
<1>2. Log!Pick(q, I) \in Seq(S)
  BY <1>1, PickFacts
<1>3. \A k \in DOMAIN Ingress!Pick(q, I) : \E i \in I : Ingress!Pick(q, I)[k] = q[i]
  BY <1>1, PickedOf
<1> QED
  BY <1>2, <1>3, SamePick

\* What a step does to the prompt that takes it.
FieldsOf == DOMAIN Ingress!Idle
Becomes(s, r) == ingress' = [ingress EXCEPT ![s] = r]

LEMMA Placed ==
  ASSUME IngressInv, NEW s \in Session, NEW r, Becomes(s, r), DOMAIN r = FieldsOf,
         noted' = noted \/ \E l : noted' = [noted EXCEPT ![s] = l],
         images \cup lostImages \subseteq images' \cup lostImages',
         UNCHANGED <<supports, authority, denied>>
  PROVE  StepOf(s) /\ ingress'[s] = r
  BY DEF IngressInv, StepOf, Becomes, FieldsOf

\* A prompt comes.
LEMMA ArriveKeeps ==
  ASSUME Ingress!IngressAssumption, IngressInv, NEW s \in Session, NEW p \in Prompts, NEW e \in BOOLEAN,
         Ingress!Arrive(s, p, e)
  PROVE  IngressInv'
<1> DEFINE r == [Ingress!Idle EXCEPT !.at = "drop", !.typed = p, !.blocks = p, !.engine = e, !.always = denied]
<1>1. /\ DOMAIN r = FieldsOf /\ r.at = "drop" /\ r.blocks = p /\ r.out = <<>>
      /\ r.always = denied /\ r.shown = <<>>
  BY DEF Ingress!Idle, FieldsOf
<1>2. /\ Becomes(s, r) /\ noted' = noted /\ ingress[s].at = "idle"
      /\ UNCHANGED <<images, lostImages, supports, authority, denied>>
  BY DEF Ingress!Arrive, Ingress!At, Ingress!World, Becomes
<1> HIDE DEF r
<1>3. StepOf(s) /\ ingress'[s] = r
  BY <1>1, <1>2, Placed
<1>4. noted'[s] = <<>>
  BY <1>2 DEF IngressInv, BlockInv, Early
<1>5. BlockInv(s)'
  BY <1>1, <1>3, <1>4, SentIs DEF BlockInv, Early, Loop
<1>6. MentionInv(s)'
  <2>1. ingress'[s].always = denied' /\ ingress'[s].at = "drop" /\ ingress'[s].shown = <<>>
    BY <1>1, <1>2, <1>3
  <2>2. <<>> \in Seq({}) /\ DOMAIN <<>> = {}
    OBVIOUS
  <2> QED
    BY <2>1, <2>2 DEF MentionInv
<1> QED
  BY <1>3, <1>5, <1>6, StepKeeps

\* The placeholder of what was dropped goes behind the rest.
LEMMA TextBorne ==
  ASSUME Ingress!IngressAssumption, NEW S, Sent \subseteq S, NEW q \in Seq(S)
  PROVE  LET b == Ingress!EnsureTextBearingBlock(q)
         IN  b \in Seq(S) /\ \A i \in DOMAIN b : b[i] = Ingress!Text(<<Ingress!Undelivered>>) \/ \E j \in DOMAIN q : b[i] = q[j]
<1> DEFINE u == Ingress!Text(<<Ingress!Undelivered>>)
           b == Ingress!EnsureTextBearingBlock(q)
<1>1. b = q \/ b = Append(q, u)
  BY DEF Ingress!EnsureTextBearingBlock
<1>2. u \in S
  BY SentIs
<1> HIDE DEF u, b
<1>3. Append(q, u) \in Seq(S) /\ \A i \in DOMAIN Append(q, u) : Append(q, u)[i] = u \/ \E j \in DOMAIN q : Append(q, u)[i] = q[j]
  BY <1>2
<1>4. b \in Seq(S) /\ \A i \in DOMAIN b : b[i] = u \/ \E j \in DOMAIN q : b[i] = q[j]
  BY <1>1, <1>3
<1> QED
  BY <1>4 DEF u, b

\* The images go, when the provider takes none (dropUnsupportedImages).
LEMMA DropKeeps ==
  ASSUME Ingress!IngressAssumption, IngressInv, NEW s \in Session, Ingress!DropUnsupportedImages(s)
  PROVE  IngressInv'
<1> DEFINE q == ingress[s].blocks
           I == {i \in DOMAIN q : ~Ingress!IsImage(q[i])}
           plain == ~\E i \in DOMAIN q : Ingress!IsImage(q[i])
           keep == IF supports[s] \/ plain THEN q ELSE Ingress!EnsureTextBearingBlock(Ingress!Pick(q, I))
           r == [ingress[s] EXCEPT !.at = "ingress", !.todo = keep]
<1>1. ingress[s].at = "drop" /\ q \in Seq(Sent) /\ ingress[s].out = <<>> /\ noted[s] = <<>>
  BY DEF IngressInv, BlockInv, Early, Ingress!DropUnsupportedImages, Ingress!At
<1>2. Becomes(s, r) /\ noted' = noted /\ UNCHANGED <<images, lostImages, supports, authority, denied>>
  BY DEF IngressInv, Ingress!Idle, Ingress!DropUnsupportedImages, Ingress!World, Becomes
<1>3. keep \in Seq(Sent) /\ (~supports[s] => \A i \in DOMAIN keep : ~Ingress!IsImage(keep[i]))
  <2>1. CASE supports[s] \/ plain
    BY <1>1, <2>1
  <2>2. CASE ~(supports[s] \/ plain)
    <3> DEFINE k == Ingress!Pick(q, I)
               b == Ingress!EnsureTextBearingBlock(k)
    <3>1. k \in Seq(Sent) /\ \A i \in DOMAIN k : ~Ingress!IsImage(k[i])
      BY <1>1, Picked
    <3> HIDE DEF k
    <3>2. b \in Seq(Sent) /\ \A i \in DOMAIN b : b[i] = Ingress!Text(<<Ingress!Undelivered>>) \/ \E j \in DOMAIN k : b[i] = k[j]
      BY <3>1, TextBorne
    <3>3. ~Ingress!IsImage(Ingress!Text(<<Ingress!Undelivered>>))
      BY DEF Ingress!IsImage, Ingress!Text
    <3>4. keep = b
      BY <2>2 DEF k
    <3> QED
      BY <3>1, <3>2, <3>3, <3>4
  <2> QED
    BY <2>1, <2>2
<1> HIDE DEF keep, q
<1>4. /\ DOMAIN r = FieldsOf /\ r.at = "ingress" /\ r.todo = keep /\ r.out = <<>>
      /\ r.always = ingress[s].always /\ r.shown = ingress[s].shown
  BY <1>1 DEF IngressInv, Ingress!Idle, FieldsOf
<1> HIDE DEF r
<1>5. StepOf(s) /\ ingress'[s] = r
  BY <1>2, <1>4, Placed
<1>6. BlockInv(s)'
  <2>1. /\ (ingress[s].at)' = "ingress" /\ (ingress[s].todo)' = keep /\ (ingress[s].out)' = <<>>
        /\ (noted[s])' = <<>> /\ supports' = supports
    BY <1>1, <1>2, <1>4, <1>5
  <2>2. (ingress[s].out \in Seq(Sent \cup images \cup lostImages))'
    BY <2>1
  <2>3. (\A i \in DOMAIN ingress[s].out : Ingress!Ref(ingress[s].out[i]) => Delivered(s, ingress[s].out[i]))'
    BY <2>1
  <2> QED
    BY <1>3, <2>1, <2>2, <2>3 DEF BlockInv, Early, Loop
<1>7. MentionInv(s)'
  BY <1>4, <1>5, MentionsStay
<1> QED
  BY <1>5, <1>6, <1>7, StepKeeps

\* The loop has dealt with a block.
LEMMA BlockDone ==
  ASSUME IngressInv, NEW s \in Session, StepOf(s), ingress[s].at \in Loop, ingress[s].todo # <<>>,
         noted' = noted, ingress'[s].at = "ingress", ingress'[s].todo = Tail(ingress[s].todo),
         \/ ingress'[s].out = ingress[s].out
         \/ \E c : /\ ingress'[s].out = Append(ingress[s].out, c)
                   /\ c \in Sent \cup images' \cup lostImages'
                   /\ Ingress!Ref(c) => Delivered(s, c)'
  PROVE  BlockInv(s)'
<1> DEFINE S == Sent \cup images \cup lostImages
           T == Sent \cup images' \cup lostImages'
           q == ingress[s].out
           w == ingress[s].todo
<1>1. /\ q \in Seq(S) /\ w \in Seq(Sent) /\ noted[s] = <<>>
      /\ ~supports[s] => \A i \in DOMAIN w : ~Ingress!IsImage(w[i])
      /\ \A i \in DOMAIN q : Ingress!Ref(q[i]) => Delivered(s, q[i])
  BY DEF IngressInv, BlockInv, Early
<1>2. \A b : Delivered(s, b) => Delivered(s, b)'
  BY DEF Delivered, Within, StepOf
<1>3. q \in Seq(T)
  <2>1. S \subseteq T
    BY DEF StepOf
  <2> QED
    BY <1>1, <2>1, SeqGrows
<1>4. (/\ ingress[s].out \in Seq(Sent \cup images \cup lostImages)
       /\ \A i \in DOMAIN ingress[s].out : Ingress!Ref(ingress[s].out[i]) => Delivered(s, ingress[s].out[i]))'
  <2>1. CASE ingress'[s].out = q
    BY <1>1, <1>2, <1>3, <2>1
  <2>2. CASE \E c : /\ ingress'[s].out = Append(q, c) /\ c \in T /\ (Ingress!Ref(c) => Delivered(s, c)')
    <3>1. PICK c : ingress'[s].out = Append(q, c) /\ c \in T /\ (Ingress!Ref(c) => Delivered(s, c)')
      BY <2>2
    <3> HIDE DEF T, q
    <3>2. /\ Append(q, c) \in Seq(T)
          /\ \A i \in DOMAIN Append(q, c) : Append(q, c)[i] = c \/ (i \in DOMAIN q /\ Append(q, c)[i] = q[i])
      BY <1>3, <3>1
    <3> QED
      BY <1>1, <1>2, <3>1, <3>2 DEF T
  <2> QED
    BY <2>1, <2>2
<1>5. /\ (ingress[s].todo)' \in Seq(Sent)
      /\ ~supports'[s] => \A i \in DOMAIN ingress'[s].todo : ~Ingress!IsImage(ingress'[s].todo[i])
  <2> HIDE DEF w
  <2>1. Tail(w) \in Seq(Sent) /\ \A i \in DOMAIN Tail(w) : i + 1 \in DOMAIN w /\ Tail(w)[i] = w[i + 1]
    BY <1>1 DEF w
  <2> QED
    BY <1>1, <2>1 DEF w, StepOf
<1>6. ingress'[s].at = "ingress" /\ noted'[s] = <<>>
  BY <1>1
<1> QED
  BY <1>4, <1>5, <1>6 DEF BlockInv, Early, Loop

\* The next block passes, is dropped, or is an image to persist.
LEMMA IngressBlockKeeps ==
  ASSUME Ingress!IngressAssumption, IngressInv, NEW s \in Session, Ingress!IngressBlock(s)
  PROVE  IngressInv'
<1> DEFINE o == ingress[s]
           b == Head(o.todo)
           pass == Ingress!Passes(o, b)
           drop == Ingress!Drops(o)
           keep == [o EXCEPT !.at = "original"]
<1>1. /\ o.at = "ingress" /\ o.todo # <<>> /\ noted' = noted /\ o.todo \in Seq(Sent) /\ b \in Sent
      /\ UNCHANGED <<images, lostImages, supports, authority, denied>>
  BY DEF IngressInv, BlockInv, Loop, Ingress!IngressBlock, Ingress!At, Ingress!World
<1>2. \/ Becomes(s, pass)
      \/ Becomes(s, drop)
      \/ /\ Becomes(s, keep)
         /\ Ingress!IsImage(b) /\ Ingress!ValidateAndScaleImage(b) # Ingress!Nothing
  <2>1. PICK nx : Becomes(s, nx) /\ nx = CASE ~Ingress!Carries(b) -> pass
           [] Ingress!Carries(b) /\ (~b.base64 \/ Ingress!ValidateAndScaleImage(b) = Ingress!Nothing) -> drop
           [] OTHER -> keep
    BY DEF Ingress!IngressBlock, Becomes
  <2> HIDE DEF pass, drop, keep, b
  <2>2. Ingress!Carries(b) => Ingress!IsImage(b)
    BY DEF Ingress!Carries
  <2> QED
    BY <2>1, <2>2
<1>3. DOMAIN o = FieldsOf
  BY DEF IngressInv, FieldsOf
<1>4. CASE Becomes(s, pass)
  <2>1. /\ DOMAIN pass = FieldsOf /\ pass.at = "ingress" /\ pass.todo = Tail(o.todo) /\ pass.out = Append(o.out, b)
        /\ pass.always = o.always /\ pass.shown = o.shown
    BY <1>3 DEF Ingress!Passes, FieldsOf, Ingress!Idle
  <2> HIDE DEF pass
  <2>2. StepOf(s) /\ ingress'[s] = pass
    BY <1>1, <1>4, <2>1, Placed
  <2>3. ~Ingress!Ref(b)
    BY <1>1, SentIs
  <2>4. BlockInv(s)'
    BY <1>1, <2>1, <2>2, <2>3, BlockDone DEF Loop
  <2>5. MentionInv(s)'
    BY <2>1, <2>2, MentionsStay
  <2> QED
    BY <2>2, <2>4, <2>5, StepKeeps
<1>5. CASE Becomes(s, drop)
  <2>1. /\ DOMAIN drop = FieldsOf /\ drop.at = "ingress" /\ drop.todo = Tail(o.todo) /\ drop.out = o.out
        /\ drop.always = o.always /\ drop.shown = o.shown
    BY <1>3 DEF Ingress!Drops, FieldsOf, Ingress!Idle
  <2> HIDE DEF drop
  <2>2. StepOf(s) /\ ingress'[s] = drop
    BY <1>1, <1>5, <2>1, Placed
  <2>3. BlockInv(s)'
    BY <1>1, <2>1, <2>2, BlockDone DEF Loop
  <2>4. MentionInv(s)'
    BY <2>1, <2>2, MentionsStay
  <2> QED
    BY <2>2, <2>3, <2>4, StepKeeps
<1>6. CASE Becomes(s, keep) /\ Ingress!IsImage(b) /\ Ingress!ValidateAndScaleImage(b) # Ingress!Nothing
  <2>1. /\ DOMAIN keep = FieldsOf /\ keep.at = "original" /\ keep.todo = o.todo /\ keep.out = o.out
        /\ keep.always = o.always /\ keep.shown = o.shown
    BY <1>3 DEF FieldsOf, Ingress!Idle
  <2> HIDE DEF keep
  <2>2. StepOf(s) /\ ingress'[s] = keep
    BY <1>1, <1>6, <2>1, Placed
  <2>3. Verdict(b) \in {"fits", "scaled"}
    BY <1>1, <1>6, AcceptedFits DEF Verdict
  <2>4. /\ noted[s] = <<>> /\ o.out \in Seq(Sent \cup images \cup lostImages)
        /\ ~supports[s] => \A i \in DOMAIN o.todo : ~Ingress!IsImage(o.todo[i])
        /\ \A i \in DOMAIN o.out : Ingress!Ref(o.out[i]) => Delivered(s, o.out[i])
    BY <1>1 DEF IngressInv, BlockInv, Early, Loop
  <2>5. \A c : Delivered(s, c)' <=> Delivered(s, c)
    BY <1>1 DEF Delivered, Within
  <2>6. BlockInv(s)'
    BY <1>1, <1>6, <2>1, <2>2, <2>3, <2>4, <2>5 DEF BlockInv, Early, Loop, Verdict
  <2>7. MentionInv(s)'
    BY <2>1, <2>2, MentionsStay
  <2> QED
    BY <2>2, <2>6, <2>7, StepKeeps
<1> QED
  BY <1>2, <1>4, <1>5, <1>6

\* An image, or its scaled copy, is written or is not (writeImageAtomic).
LEMMA PersistKeeps ==
  ASSUME Ingress!IngressAssumption, IngressInv, NEW s \in Session, NEW stage \in {"original", "scaled"},
         NEW ok \in BOOLEAN, Ingress!PersistImage(s, stage, ok)
  PROVE  IngressInv'
<1> DEFINE o == ingress[s]
           b == Head(o.todo)
           v == Ingress!ValidateAndScaleImage(b)
           ref == Ingress!ImageRefFor(b, IF stage = "scaled" THEN v ELSE b, stage = "scaled")
           drop == Ingress!Drops(o)
           scale == [o EXCEPT !.at = "scaled"]
           pass == Ingress!Passes(o, ref)
<1>1. /\ o.at = stage /\ o.at \in Loop /\ o.todo # <<>> /\ noted' = noted /\ o.todo \in Seq(Sent) /\ b \in Sent
      /\ Ingress!IsImage(b) /\ v.kind \in (IF stage = "scaled" THEN {"scaled"} ELSE {"fits", "scaled"})
      /\ lostImages' = lostImages /\ images' = IF ok THEN images \cup {ref} ELSE images
      /\ UNCHANGED <<supports, authority, denied>>
  BY DEF IngressInv, BlockInv, Loop, Ingress!PersistImage, Ingress!At, Ingress!World, Verdict
<1>2. /\ ~ok => Becomes(s, drop)
      /\ ok /\ stage = "original" /\ v.kind = "scaled" => Becomes(s, scale)
      /\ ok /\ ~(stage = "original" /\ v.kind = "scaled") => Becomes(s, pass)
  <2>1. ingress' = [ingress EXCEPT ![s] =
          CASE ~ok -> Ingress!Drops(@)
            [] ok /\ stage = "original" /\ v.kind = "scaled" -> [@ EXCEPT !.at = "scaled"]
            [] OTHER -> Ingress!Passes(@, ref)]
    BY DEF Ingress!PersistImage
  <2> HIDE DEF v, ref
  <2> QED
    BY <2>1 DEF Becomes, IngressInv
<1>3. DOMAIN o = FieldsOf
  BY DEF IngressInv, FieldsOf
<1>4. /\ \A i \in DOMAIN o.todo : ~supports[s] => ~Ingress!IsImage(o.todo[i])
      /\ supports[s]
  <2>1. ~supports[s] => \A i \in DOMAIN o.todo : ~Ingress!IsImage(o.todo[i])
    BY <1>1 DEF IngressInv, BlockInv
  <2>2. b = o.todo[1] /\ 1 \in DOMAIN o.todo
    BY <1>1
  <2> QED
    BY <1>1, <2>1, <2>2
<1>5. images \cup lostImages \subseteq images' \cup lostImages'
  BY <1>1
<1>6. CASE ~ok
  <2>1. /\ DOMAIN drop = FieldsOf /\ drop.at = "ingress" /\ drop.todo = Tail(o.todo) /\ drop.out = o.out
        /\ drop.always = o.always /\ drop.shown = o.shown
    BY <1>3 DEF Ingress!Drops, FieldsOf, Ingress!Idle
  <2> HIDE DEF drop
  <2>2. StepOf(s) /\ ingress'[s] = drop
    BY <1>1, <1>2, <1>5, <1>6, <2>1, Placed
  <2>3. BlockInv(s)'
    BY <1>1, <2>1, <2>2, BlockDone
  <2>4. MentionInv(s)'
    BY <2>1, <2>2, MentionsStay
  <2> QED
    BY <2>2, <2>3, <2>4, StepKeeps
<1>7. CASE ok /\ stage = "original" /\ v.kind = "scaled"
  <2>1. /\ DOMAIN scale = FieldsOf /\ scale.at = "scaled" /\ scale.todo = o.todo /\ scale.out = o.out
        /\ scale.always = o.always /\ scale.shown = o.shown
    BY <1>3 DEF FieldsOf, Ingress!Idle
  <2> HIDE DEF scale
  <2>2. StepOf(s) /\ ingress'[s] = scale
    BY <1>1, <1>2, <1>5, <1>7, <2>1, Placed
  <2>3. /\ noted[s] = <<>> /\ o.out \in Seq(Sent \cup images \cup lostImages)
        /\ \A i \in DOMAIN o.out : Ingress!Ref(o.out[i]) => Delivered(s, o.out[i])
    BY <1>1 DEF IngressInv, BlockInv, Early, Loop
  <2>4. o.out \in Seq(Sent \cup images' \cup lostImages')
    <3>1. Sent \cup images \cup lostImages \subseteq Sent \cup images' \cup lostImages'
      BY <1>5
    <3> QED
      BY <2>3, <3>1, SeqGrows
  <2>5. \A c : Delivered(s, c) => Delivered(s, c)'
    BY <1>1, <1>5 DEF Delivered, Within
  <2>6. (\A i \in DOMAIN ingress[s].out : Ingress!Ref(ingress[s].out[i]) => Delivered(s, ingress[s].out[i]))'
    BY <2>1, <2>2, <2>3, <2>5
  <2>7. /\ (ingress[s].at)' = "scaled" /\ (ingress[s].todo)' = o.todo /\ (noted[s])' = <<>>
        /\ (ingress[s].out \in Seq(Sent \cup images \cup lostImages))' /\ supports'[s]
    BY <1>1, <1>4, <2>1, <2>2, <2>3, <2>4
  <2>8. Verdict(Head(o.todo)) = "scaled"
    BY <1>7 DEF Verdict
  <2>9. BlockInv(s)'
    BY <1>1, <2>6, <2>7, <2>8 DEF BlockInv, Early, Loop, Verdict
  <2>10. MentionInv(s)'
    BY <2>1, <2>2, MentionsStay
  <2> QED
    BY <2>2, <2>9, <2>10, StepKeeps
<1>8. CASE ok /\ ~(stage = "original" /\ v.kind = "scaled")
  <2>1. /\ DOMAIN pass = FieldsOf /\ pass.at = "ingress" /\ pass.todo = Tail(o.todo) /\ pass.out = Append(o.out, ref)
        /\ pass.always = o.always /\ pass.shown = o.shown
    BY <1>3 DEF Ingress!Passes, FieldsOf, Ingress!Idle
  <2> HIDE DEF pass
  <2>2. StepOf(s) /\ ingress'[s] = pass
    BY <1>1, <1>2, <1>5, <1>8, <2>1, Placed
  <2>3. Within(ref)
    <3>1. CASE stage = "scaled"
      <4>1. ref.w = v.w /\ ref.h = v.h /\ ref.bytes = v.bytes
        BY <3>1 DEF Ingress!ImageRefFor
      <4>2. Within(v)
        BY <1>1, <3>1, AcceptedFits
      <4> QED
        BY <4>1, <4>2 DEF Within
    <3>2. CASE stage = "original"
      <4>1. ref.w = b.w /\ ref.h = b.h /\ ref.bytes = b.bytes
        BY <3>2 DEF Ingress!ImageRefFor
      <4>2. Within(b)
        BY <1>1, <1>8, <3>2, AcceptedFits
      <4> QED
        BY <4>1, <4>2 DEF Within
    <3> QED
      BY <3>1, <3>2
  <2> HIDE DEF ref
  <2>4. PICK c : c = ref
    OBVIOUS
  <2>5. c \in images' /\ Delivered(s, c)'
    BY <1>1, <1>4, <1>8, <2>3, <2>4 DEF Delivered, Within
  <2>6. BlockInv(s)'
    BY <1>1, <2>1, <2>2, <2>4, <2>5, BlockDone
  <2>7. MentionInv(s)'
    BY <2>1, <2>2, MentionsStay
  <2> QED
    BY <2>2, <2>6, <2>7, StepKeeps
<1> QED
  BY <1>6, <1>7, <1>8

\* The blocks that go on are the loop's output.
LEMMA IngressEndsKeeps ==
  ASSUME Ingress!IngressAssumption, IngressInv, NEW s \in Session, Ingress!IngressEnds(s)
  PROVE  IngressInv'
<1> DEFINE o == ingress[s]
           S == Sent \cup images \cup lostImages
           q == IF o.dropped THEN Ingress!EnsureTextBearingBlock(o.out) ELSE o.out
           r == [o EXCEPT !.at = "reply", !.blocks = q]
<1>1. /\ o.at = "ingress" /\ noted' = noted /\ o.out \in Seq(S)
      /\ \A i \in DOMAIN o.out : Ingress!Ref(o.out[i]) => Delivered(s, o.out[i])
      /\ DOMAIN o = FieldsOf
      /\ UNCHANGED <<images, lostImages, supports, authority, denied>>
  BY DEF IngressInv, BlockInv, Loop, Ingress!IngressEnds, Ingress!At, Ingress!World, FieldsOf
<1>2. Becomes(s, r)
  BY DEF IngressInv, Ingress!Idle, Ingress!IngressEnds, Becomes
<1>3. q \in Seq(S) /\ \A i \in DOMAIN q : Ingress!Ref(q[i]) => Delivered(s, q[i])
  <2> DEFINE e == Ingress!EnsureTextBearingBlock(o.out)
  <2>1. e \in Seq(S) /\ \A i \in DOMAIN e : e[i] = Ingress!Text(<<Ingress!Undelivered>>) \/ \E j \in DOMAIN o.out : e[i] = o.out[j]
    BY <1>1, TextBorne
  <2>2. ~Ingress!Ref(Ingress!Text(<<Ingress!Undelivered>>))
    BY DEF Ingress!Ref, Ingress!Text
  <2> HIDE DEF e
  <2>3. \A i \in DOMAIN e : Ingress!Ref(e[i]) => Delivered(s, e[i])
    BY <1>1, <2>1, <2>2
  <2> QED
    BY <1>1, <2>1, <2>3 DEF e
<1> HIDE DEF q, S
<1>4. /\ DOMAIN r = FieldsOf /\ r.at = "reply" /\ r.blocks = q
      /\ r.always = o.always /\ r.shown = o.shown
  BY <1>1 DEF FieldsOf, Ingress!Idle
<1> HIDE DEF r
<1>5. StepOf(s) /\ ingress'[s] = r
  BY <1>1, <1>2, <1>4, Placed
<1>6. BlockInv(s)'
  <2>1. \A c : Delivered(s, c) => Delivered(s, c)'
    BY <1>1 DEF Delivered, Within
  <2>2. (\A i \in DOMAIN ingress[s].blocks : Ingress!Ref(ingress[s].blocks[i]) => Delivered(s, ingress[s].blocks[i]))'
    BY <1>3, <1>4, <1>5, <2>1
  <2>3. (\E n \in Nat : DOMAIN ingress[s].blocks = 1 .. n)'
    <3>1. Len(q) \in Nat /\ DOMAIN q = 1 .. Len(q)
      BY <1>3
    <3> QED
      BY <1>4, <1>5, <3>1
  <2>4. (ingress[s].at)' = "reply"
    BY <1>4, <1>5
  <2> QED
    BY <2>2, <2>3, <2>4 DEF BlockInv, Early, Loop
<1>7. MentionInv(s)'
  BY <1>4, <1>5, MentionsStay
<1> QED
  BY <1>5, <1>6, <1>7, StepKeeps

\* A prompt that waits for none of this: it answers, is resolved, is appended or
\* is sent.
LEMMA QuietKeeps ==
  ASSUME IngressInv, NEW s \in Session,
         \/ Ingress!RouteAskReply(s) \/ Ingress!InvocationFor(s) \/ Ingress!MentionsEnd(s)
         \/ (\E ok \in BOOLEAN : Ingress!AppendUserMessage(s, ok)) \/ Ingress!Shape(s)
  PROVE  IngressInv'
<1> DEFINE o == ingress[s]
<1>1. /\ o.at \notin Early /\ ingress'[s].at \notin Early \cup {"reading"}
      /\ ingress'[s].blocks = o.blocks /\ ingress'[s].always = o.always /\ ingress'[s].shown = o.shown
      /\ UNCHANGED <<images, lostImages, supports, authority, denied>>
  BY DEF IngressInv, Ingress!RouteAskReply, Ingress!InvocationFor, Ingress!MentionsEnd, Ingress!AppendUserMessage,
    Ingress!Shape, Ingress!At, Ingress!World, Ingress!Idle, Early, Loop
<1>2. /\ DOMAIN ingress' = Session /\ DOMAIN noted' = Session /\ DOMAIN ingress'[s] = DOMAIN o
      /\ \A t \in Session \ {s} : ingress'[t] = ingress[t] /\ noted'[t] = noted[t]
  BY DEF IngressInv, Ingress!RouteAskReply, Ingress!InvocationFor, Ingress!MentionsEnd, Ingress!AppendUserMessage,
    Ingress!Shape, Ingress!World
<1>3. StepOf(s)
  BY <1>1, <1>2 DEF StepOf, IngressInv
<1>4. BlockInv(s)'
  BY <1>1, <1>3, BlocksStay
<1>5. MentionInv(s)'
  BY <1>1, <1>3, MentionsStay
<1> QED
  BY <1>3, <1>4, <1>5, StepKeeps

\* A command's body takes the place of its invocation.
LEMMA ExpandKeeps ==
  ASSUME IngressInv, NEW s \in Session, NEW bOk \in BOOLEAN, NEW pOk \in BOOLEAN,
         Ingress!ExpandUserBlocks(s, bOk, pOk)
  PROVE  IngressInv'
<1> DEFINE o == ingress[s]
           b == o.blocks
           j == Ingress!FirstTextBlockIndex(b)
           key == Ingress!Invoked(Ingress!FirstText(b))
           words == IF key = "" THEN Ingress!FirstText(b)
                    ELSE Ingress!Expand(Catalog[key].body, Tail(Ingress!FirstText(b)))
           l == IF key = "" THEN noted[s]
                ELSE Ingress!Wrote(Ingress!Wrote(noted[s], bOk /\ Catalog[key].mutating, "boundary"), pOk, "command")
<1>1. /\ o.at = "expand" /\ UNCHANGED <<images, lostImages, supports, authority, denied>>
      /\ \/ ingress' = [ingress EXCEPT ![s].at = "append"] /\ noted' = noted
         \/ /\ ingress' = [ingress EXCEPT ![s].at = "mentions", ![s].blocks[j] = Ingress!Text(words),
                                          ![s].expanded = key, ![s].todo = Ingress!ParseMentions(words)]
            /\ noted' = [noted EXCEPT ![s] = l]
  <2>1. CASE j = 0
    BY <2>1 DEF Ingress!ExpandUserBlocks, Ingress!At, Ingress!World
  <2>2. CASE j # 0
    BY <2>2 DEF Ingress!ExpandUserBlocks, Ingress!At, Ingress!World
  <2> QED
    BY <2>1, <2>2
<1> HIDE DEF key, words, l
<1> HIDE DEF j
<1>2. /\ ingress'[s].at \in {"append", "mentions"} /\ ingress'[s].always = o.always /\ ingress'[s].shown = o.shown
      /\ DOMAIN ingress'[s].blocks = DOMAIN b
      /\ \A i \in DOMAIN b : ingress'[s].blocks[i] = b[i] \/ ingress'[s].blocks[i] = Ingress!Text(words)
  BY <1>1 DEF IngressInv, Ingress!Idle
<1>3. /\ DOMAIN ingress' = Session /\ DOMAIN noted' = Session /\ DOMAIN ingress'[s] = DOMAIN o
      /\ \A t \in Session \ {s} : ingress'[t] = ingress[t] /\ noted'[t] = noted[t]
  BY <1>1 DEF IngressInv
<1>4. StepOf(s)
  BY <1>1, <1>3 DEF StepOf, IngressInv
<1>5. ~Ingress!Ref(Ingress!Text(words))
  BY DEF Ingress!Ref, Ingress!Text
<1>6. o.at \notin Early /\ ingress'[s].at \notin Early \cup {"reading"}
  BY <1>1, <1>2 DEF Early, Loop
<1>7. BlockInv(s)'
  BY <1>2, <1>4, <1>5, <1>6, BlocksStay
<1>8. MentionInv(s)'
  BY <1>2, <1>4, <1>6, MentionsStay
<1> QED
  BY <1>4, <1>7, <1>8, StepKeeps

\* A mention is settled: what is shown of a file was not denied all along.
LEMMA SettleKeeps ==
  ASSUME IngressInv, NEW s \in Session, NEW form, NEW ok \in BOOLEAN,
         ingress[s].at \in {"mentions", "reading"}, Ingress!Settles(s, form, ok),
         UNCHANGED <<images, lostImages, supports, authority, denied>>,
         authority /\ form = "file" => Mentions[Head(ingress[s].todo)].path \notin ingress[s].always
  PROVE  IngressInv'
<1> DEFINE o == ingress[s]
           e == <<Head(o.todo), form>>
           q == Append(o.shown, e)
           r == [o EXCEPT !.at = "mentions", !.todo = Tail(@), !.seen = {}, !.shown = q]
<1>1. (\E S : o.shown \in Seq(S)) /\ o.always \subseteq denied /\ DOMAIN o = FieldsOf
      /\ \A i \in DOMAIN o.shown :
           authority /\ o.shown[i][2] = "file" => Mentions[o.shown[i][1]].path \notin o.always
  BY DEF IngressInv, MentionInv, FieldsOf
<1>2. Becomes(s, r) /\ \E l : noted' = [noted EXCEPT ![s] = l]
  <2>1. Becomes(s, r)
    BY DEF Ingress!Settles, Becomes, IngressInv, Ingress!Idle
  <2>2. noted' = [noted EXCEPT ![s] = Ingress!Wrote(noted[s], ok, "mention")]
    BY DEF Ingress!Settles
  <2> QED
    BY <2>1, <2>2
<1>3. (\E S : q \in Seq(S)) /\ \A i \in DOMAIN q : q[i] = e \/ (i \in DOMAIN o.shown /\ q[i] = o.shown[i])
  <2>1. PICK S : o.shown \in Seq(S)
    BY <1>1
  <2> DEFINE T == S \cup {e}
  <2>2. o.shown \in Seq(T) /\ e \in T
    BY <2>1, SeqGrows
  <2> HIDE DEF T, e
  <2>3. q \in Seq(T) /\ \A i \in DOMAIN q : q[i] = e \/ (i \in DOMAIN o.shown /\ q[i] = o.shown[i])
    BY <2>2
  <2> QED
    BY <2>3
<1> HIDE DEF q
<1>4. /\ DOMAIN r = FieldsOf /\ r.at = "mentions" /\ r.blocks = o.blocks /\ r.always = o.always /\ r.shown = q
  BY <1>1 DEF FieldsOf, Ingress!Idle
<1> HIDE DEF r
<1>5. StepOf(s) /\ ingress'[s] = r
  BY <1>2, <1>4, Placed
<1>6. BlockInv(s)'
  <2>1. o.at \notin Early /\ r.at \notin Early
    BY <1>4 DEF Early, Loop
  <2> QED
    BY <1>4, <1>5, <2>1, BlocksStay
<1>7. MentionInv(s)'
  <2>1. ASSUME NEW i \in DOMAIN q, authority, q[i][2] = "file"
        PROVE  Mentions[q[i][1]].path \notin o.always
    <3>1. CASE q[i] = e
      BY <2>1, <3>1
    <3>2. CASE i \in DOMAIN o.shown /\ q[i] = o.shown[i]
      BY <1>1, <2>1, <3>2
    <3> QED
      BY <1>3, <3>1, <3>2
  <2>2. /\ (ingress[s].at)' = "mentions" /\ (ingress[s].always)' = o.always /\ (ingress[s].shown)' = q
        /\ authority' = authority /\ denied' = denied
    BY <1>4, <1>5
  <2> HIDE DEF e
  <2> QED
    BY <1>1, <1>3, <2>1, <2>2 DEF MentionInv
<1> QED
  BY <1>5, <1>6, <1>7, StepKeeps

\* A mention is looked at.
LEMMA StatKeeps ==
  ASSUME IngressInv, NEW s \in Session, NEW ok \in BOOLEAN, Ingress!StatMention(s, ok)
  PROVE  IngressInv'
<1> DEFINE o == ingress[s]
           m == Mentions[Head(o.todo)]
           r == [o EXCEPT !.at = "reading", !.seen = {workspace[m.path]}]
<1>1. o.at = "mentions" /\ UNCHANGED <<images, lostImages, supports, authority, denied>>
  BY DEF Ingress!StatMention, Ingress!At, Ingress!World
<1>2. \/ Ingress!Settles(s, "unresolved", ok) \/ Ingress!Settles(s, "denied", ok)
      \/ /\ m.abs => authority /\ ~Ingress!ReadDenied(m.path)
         /\ Becomes(s, r) /\ noted' = noted
  <2>1. Becomes(s, r) <=> ingress' = [ingress EXCEPT ![s].at = "reading", ![s].seen = {workspace[m.path]}]
    BY DEF Becomes, IngressInv, Ingress!Idle
  <2>2. CASE (m.abs /\ ~authority) \/ m.outside
    BY <2>2 DEF Ingress!StatMention
  <2>3. CASE ~((m.abs /\ ~authority) \/ m.outside) /\ m.abs /\ Ingress!ReadDenied(m.path)
    BY <2>3 DEF Ingress!StatMention
  <2>4. CASE ~((m.abs /\ ~authority) \/ m.outside) /\ ~(m.abs /\ Ingress!ReadDenied(m.path))
    BY <2>1, <2>4 DEF Ingress!StatMention
  <2> QED
    BY <2>2, <2>3, <2>4
<1>3. CASE Ingress!Settles(s, "unresolved", ok) \/ Ingress!Settles(s, "denied", ok)
  BY <1>1, <1>3, SettleKeeps
<1>4. CASE /\ m.abs => authority /\ ~Ingress!ReadDenied(m.path)
           /\ Becomes(s, r) /\ noted' = noted
  <2>1. /\ DOMAIN r = FieldsOf /\ r.at = "reading" /\ r.blocks = o.blocks /\ r.todo = o.todo
        /\ r.always = o.always /\ r.shown = o.shown
    BY DEF IngressInv, FieldsOf, Ingress!Idle
  <2> HIDE DEF r
  <2>2. StepOf(s) /\ ingress'[s] = r
    BY <1>1, <1>4, <2>1, Placed
  <2>3. BlockInv(s)'
    <3>1. o.at \notin Early /\ r.at \notin Early
      BY <1>1, <2>1 DEF Early, Loop
    <3> QED
      BY <2>1, <2>2, <3>1, BlocksStay
  <2>4. MentionInv(s)'
    <3>1. /\ o.always \subseteq denied /\ \E S : o.shown \in Seq(S)
          /\ \A i \in DOMAIN o.shown :
               authority /\ o.shown[i][2] = "file" => Mentions[o.shown[i][1]].path \notin o.always
      BY DEF IngressInv, MentionInv
    <3>2. m.abs => m.path \notin o.always
      BY <1>4, <3>1 DEF Ingress!ReadDenied
    <3> QED
      BY <1>1, <2>1, <2>2, <3>1, <3>2 DEF MentionInv
  <2> QED
    BY <2>2, <2>3, <2>4, StepKeeps
<1> QED
  BY <1>2, <1>3, <1>4

\* A mention is read.
LEMMA ReadKeeps ==
  ASSUME IngressInv, NEW s \in Session, NEW ok \in BOOLEAN, Ingress!ReadMention(s, ok)
  PROVE  IngressInv'
<1> DEFINE o == ingress[s]
           m == Mentions[Head(o.todo)]
<1>1. o.at = "reading" /\ UNCHANGED <<images, lostImages, supports, authority, denied>>
  BY DEF Ingress!ReadMention, Ingress!At, Ingress!World
<1>2. \/ \E form : form # "file" /\ Ingress!Settles(s, form, ok)
      \/ (m.abs \/ ~Ingress!ReadDenied(m.path)) /\ Ingress!Settles(s, "file", ok)
  <2>1. CASE o.seen = {"dir"}
    BY <2>1 DEF Ingress!ReadMention
  <2>2. CASE o.seen # {"dir"} /\ ~m.abs /\ Ingress!ReadDenied(m.path)
    BY <2>2 DEF Ingress!ReadMention
  <2>3. CASE o.seen # {"dir"} /\ ~(~m.abs /\ Ingress!ReadDenied(m.path))
    BY <2>3 DEF Ingress!ReadMention
  <2> QED
    BY <2>1, <2>2, <2>3
<1>3. CASE \E form : form # "file" /\ Ingress!Settles(s, form, ok)
  BY <1>1, <1>3, SettleKeeps
<1>4. CASE (m.abs \/ ~Ingress!ReadDenied(m.path)) /\ Ingress!Settles(s, "file", ok)
  <2>1. o.always \subseteq denied /\ (m.abs => m.path \notin o.always)
    BY <1>1 DEF IngressInv, MentionInv
  <2>2. authority => m.path \notin o.always
    BY <1>4, <2>1 DEF Ingress!ReadDenied
  <2> QED
    BY <1>1, <1>4, <2>2, SettleKeeps
<1> QED
  BY <1>2, <1>3, <1>4

\* The world changes around the prompts.
LEMMA WorldKeeps ==
  ASSUME IngressInv, ingress' = ingress, noted' = noted,
         images \cup lostImages \subseteq images' \cup lostImages', UNCHANGED <<supports, authority, denied>>
  PROVE  IngressInv'
<1>1. \A t \in Session : BlockInv(t)' /\ MentionInv(t)'
  BY Untouched DEF IngressInv
<1>2. (DOMAIN ingress = Session /\ DOMAIN noted = Session /\ \A s \in Session : DOMAIN ingress[s] = DOMAIN Ingress!Idle)'
  BY DEF IngressInv
<1> QED
  BY <1>1, <1>2 DEF IngressInv

\* What a prompt has been denied all along shrinks with the rules.
LEMMA RulesKeep ==
  ASSUME IngressInv, NEW p, Ingress!EditRules(p)
  PROVE  IngressInv'
<1>1. /\ noted' = noted /\ UNCHANGED <<images, lostImages, supports, authority>>
      /\ ingress' = [s \in Session |-> [ingress[s] EXCEPT !.always = @ \cap denied']]
  BY DEF Ingress!EditRules
<1>2. ASSUME NEW s \in Session
      PROVE  /\ DOMAIN ingress'[s] = DOMAIN Ingress!Idle
             /\ BlockInv(s)' /\ MentionInv(s)'
  <2> DEFINE o == ingress[s]
  <2>1. /\ DOMAIN ingress'[s] = DOMAIN o /\ ingress'[s].at = o.at /\ ingress'[s].blocks = o.blocks
        /\ ingress'[s].todo = o.todo /\ ingress'[s].out = o.out /\ ingress'[s].shown = o.shown
        /\ ingress'[s].always = o.always \cap denied' /\ noted'[s] = noted[s]
        /\ DOMAIN o = DOMAIN Ingress!Idle
    BY <1>1 DEF IngressInv, Ingress!Idle
  <2>2. \A b : Delivered(s, b)' <=> Delivered(s, b)
    BY <1>1 DEF Delivered, Within
  <2>3. BlockInv(s)'
    BY <1>1, <2>1, <2>2 DEF IngressInv, BlockInv, Early, Loop
  <2>4. MentionInv(s)'
    BY <1>1, <2>1 DEF IngressInv, MentionInv
  <2> QED
    BY <2>1, <2>3, <2>4
<1>3. DOMAIN ingress' = Session /\ DOMAIN noted' = Session
  BY <1>1 DEF IngressInv
<1> QED
  BY <1>2, <1>3 DEF IngressInv

LEMMA IngressStarts ==
  ASSUME Ingress!Init
  PROVE  IngressInv
<1>1. /\ ingress = [s \in Session |-> Ingress!Idle] /\ noted = [s \in Session |-> <<>>]
  BY DEF Ingress!Init
<1>2. Ingress!Idle.at = "idle" /\ Ingress!Idle.always = {} /\ Ingress!Idle.shown = <<>>
  BY DEF Ingress!Idle
<1>3. <<>> \in Seq({}) /\ DOMAIN <<>> = {}
  OBVIOUS
<1>4. ASSUME NEW s \in Session
      PROVE  DOMAIN ingress[s] = DOMAIN Ingress!Idle /\ BlockInv(s) /\ MentionInv(s)
  <2>1. ingress[s] = Ingress!Idle /\ noted[s] = <<>>
    BY <1>1
  <2>2. BlockInv(s)
    BY <1>2, <2>1 DEF BlockInv, Early, Loop
  <2>3. MentionInv(s)
    BY <1>2, <1>3, <2>1 DEF MentionInv
  <2> QED
    BY <2>1, <2>2, <2>3
<1> QED
  BY <1>1, <1>4 DEF IngressInv

LEMMA IngressSteps ==
  ASSUME Ingress!IngressAssumption, IngressInv, [Ingress!Next]_(Ingress!vars)
  PROVE  IngressInv'
<1>1. CASE UNCHANGED Ingress!vars
  BY <1>1, WorldKeeps DEF Ingress!vars
<1>2. ASSUME NEW s \in Session, Ingress!Step(s)
      PROVE  IngressInv'
  <2>1. CASE \E p \in Prompts, e \in BOOLEAN : Ingress!Arrive(s, p, e)
    BY <2>1, ArriveKeeps
  <2>2. CASE Ingress!DropUnsupportedImages(s)
    BY <2>2, DropKeeps
  <2>3. CASE Ingress!IngressBlock(s)
    BY <2>3, IngressBlockKeeps
  <2>4. CASE Ingress!IngressEnds(s)
    BY <2>4, IngressEndsKeeps
  <2>5. CASE \E ok \in BOOLEAN : Ingress!PersistImage(s, "original", ok) \/ Ingress!PersistImage(s, "scaled", ok)
    BY <2>5, PersistKeeps
  <2>6. CASE \E b \in BOOLEAN, p \in BOOLEAN : Ingress!ExpandUserBlocks(s, b, p)
    BY <2>6, ExpandKeeps
  <2>7. CASE \E ok \in BOOLEAN : Ingress!StatMention(s, ok)
    BY <2>7, StatKeeps
  <2>8. CASE \E ok \in BOOLEAN : Ingress!ReadMention(s, ok)
    BY <2>8, ReadKeeps
  <2>9. CASE \/ Ingress!RouteAskReply(s) \/ Ingress!InvocationFor(s) \/ Ingress!MentionsEnd(s)
             \/ (\E ok \in BOOLEAN : Ingress!AppendUserMessage(s, ok)) \/ Ingress!Shape(s)
    BY <2>9, QuietKeeps
  <2> QED
    BY <1>2, <2>1, <2>2, <2>3, <2>4, <2>5, <2>6, <2>7, <2>8, <2>9 DEF Ingress!Step
<1>3. CASE \E p \in Ingress!Path, k \in {"file", "dir", "unreadable", "absent"} : Ingress!EditFile(p, k)
  BY <1>3, WorldKeeps DEF Ingress!EditFile
<1>4. CASE \E p \in Ingress!Path : Ingress!EditRules(p)
  BY <1>4, RulesKeep
<1>5. CASE \E c \in DOMAIN Catalog : Ingress!Rescan(c)
  BY <1>5, WorldKeeps DEF Ingress!Rescan
<1>6. CASE \E f \in images : Ingress!LoseImage(f)
  BY <1>6, WorldKeeps DEF Ingress!LoseImage
<1>7. CASE \E s \in Session : Ingress!AskTimesOut(s)
  BY <1>7, WorldKeeps DEF Ingress!AskTimesOut
<1> QED
  BY <1>1, <1>2, <1>3, <1>4, <1>5, <1>6, <1>7 DEF Ingress!Next

\* The loop's invariant, of every step of every prompt and of what changes around
\* them (Runner.Run's ingress, runtime.go 3046-3117; imgscale.go).
THEOREM IngressInvariance == ASSUME Ingress!IngressAssumption PROVE Ingress!Spec => []IngressInv
<1>1. Ingress!Init => IngressInv
  BY IngressStarts
<1>2. IngressInv /\ [Ingress!Next]_(Ingress!vars) => IngressInv'
  BY IngressSteps
<1> QED
  BY <1>1, <1>2, PTL DEF Ingress!Spec

\* An image that a user line refers to was accepted for a provider that takes
\* images, is within the provider's limits, and is on disk unless it was taken
\* away there, however many sessions ingest at the same time (runtime.go
\* ingestPromptImages, imgscale.go ValidateAndScaleImage).
THEOREM ImagesDeliverable ==
  ASSUME Ingress!IngressAssumption PROVE Ingress!Spec => []Ingress!DeliverableImages
<1>1. IngressInv => Ingress!DeliverableImages
  <2> SUFFICES ASSUME IngressInv, NEW s \in Session, "user" \in Ingress!ToSet(noted[s]),
                      NEW b \in Ingress!ToSet(Ingress!ImageBlocksOf(ingress[s].blocks))
               PROVE  Delivered(s, b)
    BY DEF Ingress!DeliverableImages, Delivered, Within
  <2> DEFINE q == ingress[s].blocks
             I == {i \in DOMAIN q : Ingress!Ref(q[i])}
  <2>1. ingress[s].at \notin Early
    BY DEF IngressInv, BlockInv, Ingress!ToSet
  <2>2. /\ \E n \in Nat : DOMAIN q = 1 .. n
        /\ \A i \in DOMAIN q : Ingress!Ref(q[i]) => Delivered(s, q[i])
    BY <2>1 DEF IngressInv, BlockInv
  <2>3. PICK k \in DOMAIN Ingress!Pick(q, I) : b = Ingress!Pick(q, I)[k]
    BY DEF Ingress!ImageBlocksOf, Ingress!ToSet
  <2>4. \E i \in I : Ingress!Pick(q, I)[k] = q[i]
    <3>1. I \in SUBSET DOMAIN q
      OBVIOUS
    <3> HIDE DEF I, q
    <3> QED
      BY <2>2, <2>3, <3>1, PickedOf
  <2> QED
    BY <2>2, <2>3, <2>4
<1> QED
  BY <1>1, IngressInvariance, PTL

\* A file denied from the prompt's arrival on never gets its content into the
\* prompt, whatever is edited between the look at a mention and its reading
\* (runtime.go resolveMention).
THEOREM DeniedStaysHidden ==
  ASSUME Ingress!IngressAssumption PROVE Ingress!Spec => []Ingress!DeniedNeverShown
<1>1. IngressInv => Ingress!DeniedNeverShown
  BY DEF IngressInv, MentionInv, Ingress!DeniedNeverShown
<1> QED
  BY <1>1, IngressInvariance, PTL
=============================================================================
