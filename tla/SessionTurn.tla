---------------------------- MODULE SessionTurn ----------------------------
(* kit/session: the turn loop (runTurn) with its suspensions.  A response  *)
(* of the model names tool calls; each gets a result, or suspends on a     *)
(* permission dialog of the ask queue, or on a question held by AskBroker. *)
(* A suspension ends the loop.  The loop of the same turn is re-entered by *)
(* whoever resolves it: the dialog's answer, the operator's reply, the ask *)
(* timer.  All of them run under the session's turn mutex, but the timer   *)
(* claims the pending ask before it waits for the mutex, and an answered   *)
(* question dialog claims whatever is pending by then.                     *)
EXTENDS Naturals, FiniteSets

CONSTANTS
  Turn,     \* turns the session may start
  Call,     \* tool calls the model may issue
  NoTurn,   \* no loop is running: the turn mutex is free
  NoCall    \* no call

NoneAreNone == NoTurn \notin Turn /\ NoCall \notin Call

VARIABLES
  started,    \* turns that have begun
  cur,        \* the turn whose loop holds the mutex
  owes,       \* the suspension whose settle channel closes when it returns
  issued,     \* per call, the turn of its tool_call line
  results,    \* per call, the number of its tool_result lines
  perm,       \* calls with an unresolved permission ask
  pending,    \* AskBroker.pending
  armed,      \* the call whose timer is armed
  firing,     \* timers that have fired and not yet claimed
  claimed,    \* asks claimed by a timer that waits for the mutex
  dialog,     \* per call, its question dialog; none when it has ended
  settled,    \* suspensions whose settle channel is closed
  dropped,    \* history: questions of a batch that were never surfaced
  replaced    \* history: pending questions replaced by a later Surface

vars == <<started, cur, owes, issued, results, perm, pending, armed, firing,
          claimed, dialog, settled, dropped, replaced>>

broker == <<pending, armed, firing, claimed>>

history == <<dropped, replaced>>

Init ==
  /\ started = {}
  /\ cur = NoTurn
  /\ owes = NoCall
  /\ issued = [c \in Call |-> NoTurn]
  /\ results = [c \in Call |-> 0]
  /\ perm = {}
  /\ pending = NoCall
  /\ armed = NoCall
  /\ firing = {}
  /\ claimed = {}
  /\ dialog = [c \in Call |-> "none"]
  /\ settled = {}
  /\ dropped = {}
  /\ replaced = {}

(***************************************************************************)
(* Prompt: a client prompt that is no reply, an automation or a wake turn. *)
(* None of them waits for a pending ask.                                   *)
(***************************************************************************)
Prompt(t) ==
  /\ cur = NoTurn
  /\ t \notin started
  /\ started' = started \cup {t}
  /\ cur' = t
  /\ UNCHANGED <<owes, issued, results, perm, broker, dialog, settled, history>>

(* The loop returns to its caller, which closes the settle channel of the  *)
(* suspension it resumed.                                                  *)
\* Mutant: the settle channel is left open.
SettlesNever == settled
Settles == IF owes = NoCall THEN settled ELSE settled \cup {owes}

Return ==
  /\ cur' = NoTurn
  /\ owes' = NoCall
  /\ settled' = Settles

(* end_turn, cancellation, a projector or stream error, the iteration bound. *)
TurnEnds ==
  /\ cur # NoTurn
  /\ Return
  /\ UNCHANGED <<started, issued, results, perm, broker, dialog, history>>

(***************************************************************************)
(* One iteration with tool calls.  asks are the calls whose gate verdict   *)
(* is suspend; questions the ones whose executor suspends; the others get  *)
(* their result now: executed, denied, declined, refused in plan mode.     *)
(***************************************************************************)
Recorded(batch, asks, questions) ==
  /\ issued' = [c \in Call |-> IF c \in batch THEN cur ELSE issued[c]]
  /\ results' = [c \in Call |-> IF c \in batch \ (asks \cup questions)
                                THEN results[c] + 1 ELSE results[c]]

(* suspendForPermission for every suspended call, in batch order; a        *)
(* suspended question of the same batch is not looked at any more.         *)
Enqueued(asks) == asks

AsksPermission(batch) ==
  \E asks \in SUBSET batch \ {{}}, questions \in SUBSET batch :
    /\ asks \cap questions = {}
    /\ Recorded(batch, asks, questions)
    /\ perm' = perm \cup Enqueued(asks)
    /\ dropped' = dropped \cup questions
    /\ Return
    /\ UNCHANGED <<broker, dialog, replaced>>

(* suspendForAsk and AskBroker.Surface.  The broker has one slot: a later  *)
(* suspended call of the batch wins, and an ask that is still pending is   *)
(* replaced together with its timer.  A plan approval opens no dialog.     *)
Surfaces(q) ==
  /\ pending' = q
  /\ armed' = q
  /\ replaced' = IF pending = NoCall THEN replaced ELSE replaced \cup {pending}
  /\ \E d \in {"none", "open"} : dialog' = [dialog EXCEPT ![q] = d]

AsksQuestion(batch) ==
  \E questions \in SUBSET batch \ {{}} : \E q \in questions :
    /\ Recorded(batch, {}, questions)
    /\ Surfaces(q)
    /\ dropped' = dropped \cup (questions \ {q})
    /\ Return
    /\ UNCHANGED <<perm, firing, claimed>>

RunsTools(batch) ==
  /\ Recorded(batch, {}, {})
  /\ UNCHANGED <<cur, owes, settled, perm, broker, dialog, history>>

Responds ==
  /\ cur # NoTurn
  /\ \E batch \in SUBSET {c \in Call : issued[c] = NoTurn} \ {{}} :
       AsksPermission(batch) \/ AsksQuestion(batch) \/ RunsTools(batch)
  /\ UNCHANGED started

(***************************************************************************)
(* The common resume: the call's result is appended and the loop of its    *)
(* turn re-entered, under the turn mutex.                                  *)
(***************************************************************************)
Resume(c) ==
  /\ cur = NoTurn
  /\ cur' = issued[c]
  /\ owes' = c
  /\ results' = [results EXCEPT ![c] = @ + 1]

(* The ask queue resolves each entry once (AskQueue, ResolvedOnce), on a   *)
(* goroutine that waits for the mutex: an answer shows no effect before.   *)
PermissionResumed(c) == perm \ {c}

ResumePermission(c) ==
  /\ c \in perm
  /\ Resume(c)
  /\ perm' = PermissionResumed(c)
  /\ UNCHANGED <<started, issued, broker, dialog, settled, history>>

(***************************************************************************)
(* AskBroker.Claim: the pending ask is taken and its timer disarmed.       *)
(***************************************************************************)
\* Mutant: the claim leaves the question pending.
ClaimKeeps == pending' = pending /\ armed' = NoCall
Claim == pending' = NoCall /\ armed' = NoCall

(* routeAskReply: the reply or the parked-cancel phrase, with the mutex. *)
Reply ==
  /\ pending # NoCall
  /\ Resume(pending)
  /\ Claim
  /\ UNCHANGED <<started, issued, perm, firing, claimed, dialog, settled, history>>

(* The timer's goroutine is started and may claim much later: Stop does    *)
(* not call it back.                                                       *)
TimerFires ==
  /\ armed # NoCall
  /\ firing' = firing \cup {armed}
  /\ armed' = NoCall
  /\ UNCHANGED <<started, cur, owes, issued, results, perm, pending, claimed,
                 dialog, settled, history>>

ClaimedByTimer == claimed \cup ({pending} \ {NoCall})

TimerClaims(c) ==
  /\ c \in firing
  /\ firing' = firing \ {c}
  /\ Claim
  /\ claimed' = ClaimedByTimer
  /\ UNCHANGED <<started, cur, owes, issued, results, perm, dialog, settled, history>>

ResumeTimedOut(c) ==
  /\ c \in claimed
  /\ Resume(c)
  /\ claimed' = claimed \ {c}
  /\ UNCHANGED <<started, issued, perm, pending, armed, firing, dialog, settled, history>>

(***************************************************************************)
(* A question's dialog ends on a goroutine that takes the mutex to look at *)
(* the outcome: an accept that violates the form is asked again once; a    *)
(* fallback leaves the ask to reply and timer; a decision (accepted,       *)
(* declined, cancelled) claims the pending ask, whichever it is            *)
(* (ResolveAskStructured, resumeElicitationNonAnswer), or finds none.      *)
(***************************************************************************)
DialogReopens(c) ==
  /\ cur = NoTurn
  /\ dialog[c] = "open"
  /\ dialog' = [dialog EXCEPT ![c] = "reopened"]
  /\ UNCHANGED <<started, cur, owes, issued, results, perm, broker, settled, history>>

DialogFallsBack(c) ==
  /\ cur = NoTurn
  /\ dialog[c] # "none"
  /\ dialog' = [dialog EXCEPT ![c] = "none"]
  /\ UNCHANGED <<started, cur, owes, issued, results, perm, broker, settled, history>>

ResumeDialog(c) ==
  /\ dialog[c] # "none"
  /\ pending # NoCall
  /\ Resume(pending)
  /\ Claim
  /\ dialog' = [dialog EXCEPT ![c] = "none"]
  /\ UNCHANGED <<started, issued, perm, firing, claimed, settled, history>>

Resumes(c) ==
  \/ ResumePermission(c) \/ ResumeTimedOut(c) \/ ResumeDialog(c)
  \/ DialogReopens(c) \/ DialogFallsBack(c)

Next ==
  \/ \E t \in Turn : Prompt(t)
  \/ Responds \/ TurnEnds
  \/ Reply \/ TimerFires
  \/ \E c \in Call : TimerClaims(c) \/ Resumes(c)

Spec == Init /\ [][Next]_vars

(***************************************************************************)
(* A loop ends (maxIterations); the mutex is handed on; dialogs end by     *)
(* their ask window (RequestRegistry); a configured ask timeout fires.     *)
(***************************************************************************)
FairSpec ==
  /\ Spec
  /\ WF_vars(TurnEnds \/ Responds)
  /\ WF_vars(TimerFires)
  /\ \A c \in Call : WF_vars(TimerClaims(c)) /\ WF_vars(ResumePermission(c) \/ ResumeTimedOut(c))

(***************************************************************************)
(* Properties.                                                             *)
(***************************************************************************)
TypeOK ==
  /\ started \subseteq Turn
  /\ cur \in Turn \cup {NoTurn}
  /\ owes \in Call \cup {NoCall}
  /\ issued \in [Call -> Turn \cup {NoTurn}]
  /\ results \in [Call -> Nat]
  /\ perm \subseteq Call
  /\ pending \in Call \cup {NoCall}
  /\ armed \in Call \cup {NoCall}
  /\ firing \subseteq Call
  /\ claimed \subseteq Call
  /\ dialog \in [Call -> {"none", "open", "reopened"}]
  /\ settled \subseteq Call
  /\ dropped \subseteq Call
  /\ replaced \subseteq Call

(* A call without a result can still get one: its permission ask is        *)
(* unresolved, it is the pending question, or the timer has claimed it.    *)
Unresolved(c) == c \in perm \/ c = pending \/ c \in claimed

(* A tool call gets one result, and once it has it nobody can claim or     *)
(* resume it any more: reply, timer and dialog race for one claim, and a   *)
(* permission answer resumes its call once.                                *)
ResultOnce ==
  \A c \in Call : results[c] <= 1 /\ (results[c] = 1 => ~Unresolved(c))

(* A call that was issued has its result or is unresolved.  The only       *)
(* losses are questions that share a batch with another suspension, and    *)
(* pending questions replaced by a turn that started meanwhile.            *)
NoForgottenCall ==
  \A c \in Call :
    issued[c] # NoTurn /\ results[c] = 0 => Unresolved(c) \/ c \in dropped \cup replaced

(* ResolveAskStructured fails once the timer or a reply has won the claim: *)
(* the answer of a dialog resumes its own question and no other.           *)
AnswerMatchesAsk == [][\A c \in Call : ResumeDialog(c) => pending = c]_vars

(* Every suspended call that was surfaced is resolved, and its settle      *)
(* signal closed for the engine that waits on it.                          *)
EverySuspensionSettles ==
  \A c \in Call : Unresolved(c) ~> (c \in settled \/ c \in replaced)

=============================================================================
