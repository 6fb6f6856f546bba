----------------------------- MODULE HookRunner -----------------------------
(***************************************************************************)
(* The firing of one session's hooks (internal/ecosys/hooks.go: Fire,      *)
(* matchingHooks, runOne, classifyHookRun). Hooks run one after another,   *)
(* each a shell process under a deadline of its own; the turn waits. What  *)
(* exec.Cmd.Run waits for is external: the shell's end AND the end of its  *)
(* output, which any process that inherited the pipe keeps open. The code  *)
(* sets no WaitDelay and no process group.                                 *)
(***************************************************************************)
EXTENDS Integers, Sequences

CONSTANTS
  NHooks,        \* number of configured hooks, in firing order
  Kinds,         \* what a hook command may be, see below
  Event,         \* events a firing may be for
  MaxFirings     \* bound on firings

(* "quick" ends by itself; "hang" runs until it is killed; "child" ends    *)
(* but leaves a process that holds the output for a while; "daemon" leaves *)
(* one that holds it for ever.                                             *)
KindsAssumption == Kinds \subseteq {"quick", "hang", "child", "daemon"}

Hook == 1..NHooks
MappedEvents == {"PreToolUse", "PostToolUse", "UserPromptSubmit", "Stop"}
ToolEvents == {"PreToolUse", "PostToolUse"}

VARIABLES
  hooks,         \* [Hook -> [event, matches, kind]]: the runner's snapshot
  firing,        \* the firing under way: event, the hooks left; or idle
  sh,            \* the shell: "none", "running", or its end: "0", "1", "2", "killed"
  pipe,          \* who else holds the shell's output: "none", "child", "daemon"
  tctx,          \* the hook's deadline: "none", "live" or "done"
  outcome,       \* the last firing's HookOutcome
  firings

vars == <<hooks, firing, sh, pipe, tctx, outcome, firings>>

Idle == [event |-> "none", left |-> <<>>, message |-> <<>>]

(* The matcher applies to the tool events only; a matcher that does not    *)
(* compile, or does not match the tool, selects nothing.                   *)
MatchingHooks(event) ==
  SelectSeq([h \in Hook |-> h],
            LAMBDA h : hooks[h].event = event
                         /\ (event \in ToolEvents => hooks[h].matches))

Init ==
  /\ hooks \in [Hook -> [event : Event, matches : BOOLEAN, kind : Kinds]]
  /\ firing = Idle
  /\ sh = "none" /\ pipe = "none" /\ tctx = "none"
  /\ outcome = [proceed |-> TRUE, message |-> <<>>]
  /\ firings = 0

(* Fire: with no hooks, an unmapped event or no match, nothing runs.       *)
Fire(event) ==
  /\ firing = Idle
  /\ firings < MaxFirings
  /\ firings' = firings + 1
  /\ IF event \in MappedEvents /\ MatchingHooks(event) # <<>>
       THEN /\ firing' = [event |-> event, left |-> MatchingHooks(event), message |-> <<>>]
            /\ UNCHANGED outcome
       ELSE /\ outcome' = [proceed |-> TRUE, message |-> <<>>]
            /\ UNCHANGED firing
  /\ UNCHANGED <<hooks, sh, pipe, tctx>>

(* runOne up to cmd.Run: the deadline starts with the process.             *)
RunOne ==
  /\ firing # Idle
  /\ sh = "none"
  /\ sh' = "running" /\ tctx' = "live" /\ pipe' = "none"
  /\ UNCHANGED <<hooks, firing, outcome, firings>>

Current == Head(firing.left)

(* External: what still holds the output once the shell is gone.           *)
Orphan == IF hooks[Current].kind \in {"child", "daemon"} THEN hooks[Current].kind ELSE "none"

(* External: the shell ends by itself with a status, a "hang" never does.  *)
ShellExits(code) ==
  /\ sh = "running"
  /\ hooks[Current].kind # "hang"
  /\ sh' = code
  /\ pipe' = Orphan
  /\ UNCHANGED <<hooks, firing, tctx, outcome, firings>>

(* External: a child that inherited the output ends.                       *)
ChildEnds ==
  /\ pipe = "child"
  /\ pipe' = "none"
  /\ UNCHANGED <<hooks, firing, sh, tctx, outcome, firings>>

\* Mutant: the command is not bound to the deadline.
TimedOutUnbound ==
  /\ tctx = "live"
  /\ tctx' = "done"
  /\ UNCHANGED <<hooks, firing, sh, pipe, outcome, firings>>

(* The deadline passes: CommandContext kills the shell, and only it.       *)
TimedOut ==
  /\ tctx = "live"
  /\ tctx' = "done"
  /\ IF sh = "running" THEN sh' = "killed" /\ pipe' = Orphan ELSE UNCHANGED <<sh, pipe>>
  /\ UNCHANGED <<hooks, firing, outcome, firings>>

RunReturns == sh \notin {"none", "running"} /\ pipe = "none"

(* After cmd.Run: an expired deadline outranks the exit status; exit 2     *)
(* refuses, any other failure is skipped, success carries its output.      *)
ClassifyHookRun ==
  CASE tctx = "done" -> "skipped"
    [] tctx # "done" /\ sh = "2" -> "refused"
    [] tctx # "done" /\ sh = "0" -> "stdout"
    [] OTHER -> "skipped"

(* The switch of Fire's loop: only a refusal of PreToolUse ends the firing *)
(* early; everywhere else exit 2 is logged and the next hook runs.         *)
HookDone ==
  /\ RunReturns
  /\ LET class == ClassifyHookRun
         message == IF class = "stdout" THEN Append(firing.message, Current) ELSE firing.message
         refuses == class = "refused" /\ firing.event = "PreToolUse"
         ends == refuses \/ Len(firing.left) = 1
     IN /\ firing' = IF ends THEN Idle
                     ELSE [firing EXCEPT !.left = Tail(@), !.message = message]
        /\ outcome' = IF ~ends THEN outcome
                      ELSE [proceed |-> ~refuses,
                            message |-> IF refuses THEN <<Current>> ELSE message]
  /\ sh' = "none" /\ tctx' = "none"
  /\ UNCHANGED <<hooks, pipe, firings>>

Next ==
  \/ \E e \in Event : Fire(e)
  \/ RunOne
  \/ \E code \in {"0", "1", "2"} : ShellExits(code)
  \/ ChildEnds
  \/ TimedOut
  \/ HookDone

Spec == Init /\ [][Next]_vars

(* The Runner's own steps are taken, timers fire, and a "quick" process or *)
(* a "child" that can end does: nothing is assumed of "hang" or "daemon".  *)
Fairness ==
  /\ WF_vars(RunOne) /\ WF_vars(HookDone) /\ WF_vars(TimedOut) /\ WF_vars(ChildEnds)

FairSpec == Spec /\ Fairness

-----------------------------------------------------------------------------
TypeOK ==
  /\ hooks \in [Hook -> [event : Event, matches : BOOLEAN, kind : Kinds]]
  /\ firing.event \in Event \cup {"none"}
  /\ firing.left \in Seq(Hook) /\ firing.message \in Seq(Hook)
  /\ sh \in {"none", "running", "0", "1", "2", "killed"}
  /\ pipe \in {"none", "child", "daemon"}
  /\ tctx \in {"none", "live", "done"}
  /\ outcome.proceed \in BOOLEAN /\ outcome.message \in Seq(Hook)
  /\ firings \in 0..MaxFirings

(* A hook that was cut off by its deadline never refuses a call and never  *)
(* adds context: "a timeout is a skip, fail-open" (runOne, classify).      *)
TimeoutIsASkip ==
  [][HookDone /\ tctx = "done" =>
       /\ firing' # Idle => firing'.message = firing.message
       /\ firing' = Idle => outcome' = [proceed |-> TRUE, message |-> firing.message]]_vars

(* hooks.go:6-8 and the comment after cmd.Run: every firing is bounded, a  *)
(* timed-out hook's orphan "never blocks this path".                       *)
(* It holds for hooks whose children let go of the output; with a          *)
(* "daemon", cmd.Run waits for the pipe and it is refuted.                 *)
HookBounded == (firing # Idle) ~> (firing = Idle)
=============================================================================
