------------------------------ MODULE PtyShell ------------------------------
(***************************************************************************)
(* The persistent shell of a session: one shell on a pty, shared by every   *)
(* persistent Bash call, with a sentinel per call, lazy restarts and the    *)
(* drain at session close.  A generation is one shell process with its      *)
(* reader goroutine, its channel and its reaper.                            *)
(* Sources: src/internal/coreexec/ptty.go, src/internal/coreexec/bash.go.   *)
(***************************************************************************)
EXTENDS Naturals, Sequences, FiniteSets

CONSTANTS
  Call,      \* persistent Bash calls
  ChunkBuf,  \* capacity of a generation's chunk channel
  MaxGen,    \* bound: shells ever started
  MaxOut     \* bound: output chunks of one command

ChunkBufAssumption == ChunkBuf \in Nat \ {0}
BoundsAssumption == MaxGen \in Nat /\ MaxOut \in Nat

NoCall == "nobody"

VARIABLES
  mu,       \* PTYManager.mu: who holds it
  open,     \* ptmx # nil
  started,  \* a shell was ever launched
  gen,      \* generations launched
  shell,    \* the current generation's process: "none", "ready", "busy", "gone"
  job,      \* the call whose command the shell is running
  outs,     \* chunks that command printed
  ran,      \* calls whose command the shell ran to its end
  tty,      \* output not read from the master yet
  readCh,   \* the chunk channel
  deadCh,   \* the reaper closed the generation's dead channel
  notes,    \* restart notes given
  call,     \* call -> its place, its context, its capture and its result
  drained   \* Drain has returned

vars == <<mu, open, started, gen, shell, job, outs, ran, tty, readCh, deadCh, notes, call, drained>>

Fresh == [pc |-> "idle", expired |-> FALSE, capture |-> {}, result |-> "none"]
Chunk == {"out", "lookalike", "sentinel"} \X Call

Init ==
  /\ mu = NoCall /\ open = FALSE /\ started = FALSE /\ gen = 0
  /\ shell = "none" /\ job = NoCall /\ outs = 0 /\ ran = {}
  /\ tty = <<>> /\ readCh = <<>> /\ deadCh = FALSE
  /\ notes = 0
  /\ call = [c \in Call |-> Fresh]
  /\ drained = FALSE

Process == <<shell, job, outs, ran, tty>>
To(c, pc) == call' = [call EXCEPT ![c].pc = pc]

-----------------------------------------------------------------------------
(* A call.  Its timeout runs from the start, the wait for mu included.      *)

BashPersistentRun(c) ==
  /\ call[c].pc = "idle"
  /\ To(c, "queued")
  /\ UNCHANGED <<mu, open, started, gen, readCh, deadCh, notes, drained>> /\ UNCHANGED Process

Expire(c) ==
  /\ call[c].pc \in {"queued", "launch", "write", "window"} /\ ~call[c].expired
  /\ call' = [call EXCEPT ![c].expired = TRUE]
  /\ UNCHANGED <<mu, open, started, gen, readCh, deadCh, notes, drained>> /\ UNCHANGED Process

\* markDeadLocked: the group is killed, the master and the input pipe are closed.
MarkDead ==
  /\ shell' = IF shell = "none" THEN "none" ELSE "gone"
  /\ open' = FALSE
  /\ job' = NoCall /\ outs' = 0 /\ tty' = <<>> /\ readCh' = <<>>
  /\ UNCHANGED <<started, gen, ran>>

Return(c, result) ==
  /\ call' = [call EXCEPT ![c].pc = "done", ![c].result = result]
  /\ mu' = NoCall

\* A shell that was launched and is gone is restarted, and the restart is noted.
LostShell == started /\ (~open \/ deadCh)

Run(c) ==
  /\ call[c].pc = "queued" /\ mu = NoCall
  /\ mu' = c
  /\ To(c, "launch")
  /\ IF LostShell
     THEN MarkDead /\ notes' = notes + 1
     ELSE UNCHANGED <<open, started, gen, shell, job, outs, ran, tty, readCh, notes>>
  /\ UNCHANGED <<deadCh, drained>>

\* ensureShell keeps a live shell; else it opens a pty and starts one, with a reader
\* and a reaper of its own, or fails.
EnsureShell(c) ==
  /\ mu = c /\ call[c].pc = "launch"
  /\ \/ /\ open /\ ~deadCh
        /\ To(c, "write")
        /\ UNCHANGED <<mu, open, started, gen, shell, job, outs, ran, tty, readCh, deadCh>>
     \/ /\ ~open \/ deadCh
        /\ gen < MaxGen
        /\ open' = TRUE /\ started' = TRUE /\ gen' = gen + 1
        /\ shell' = "ready" /\ job' = NoCall /\ outs' = 0 /\ tty' = <<>>
        /\ readCh' = <<>> /\ deadCh' = FALSE
        /\ To(c, "write")
        /\ UNCHANGED <<mu, ran>>
     \/ /\ ~open \/ deadCh
        /\ Return(c, "error")
        /\ UNCHANGED <<open, started, gen, shell, job, outs, ran, tty, readCh, deadCh>>
  /\ UNCHANGED <<notes, drained>>

\* drainStale empties the channel, then the command and its sentinel echo are written;
\* the write fails when the shell is gone.
Write(c) ==
  /\ mu = c /\ call[c].pc = "write"
  /\ IF shell = "gone"
     THEN MarkDead /\ Return(c, "error")
     ELSE /\ readCh' = <<>>
          /\ shell' = "busy" /\ job' = c /\ outs' = 0
          /\ To(c, "window")
          /\ UNCHANGED <<mu, open, started, gen, ran, tty>>
  /\ UNCHANGED <<deadCh, notes, drained>>

\* readWindow: whichever of the three is ready, in any order.
\* Mutant: any sentinel-looking line ends the capture.
ParseSentinelAny(c, chunk) == chunk[1] \in {"sentinel", "lookalike"}

ParseSentinel(c, chunk) == chunk = <<"sentinel", c>>

\* Mutant: the window waits for the sentinel alone.
WindowCancelledDeaf(c) ==
  /\ mu = c /\ call[c].pc = "window" /\ call[c].expired /\ deadCh
  /\ MarkDead /\ Return(c, "cancelled")
  /\ UNCHANGED <<deadCh, notes, drained>>

WindowCancelled(c) ==
  /\ mu = c /\ call[c].pc = "window" /\ call[c].expired
  /\ MarkDead /\ Return(c, "cancelled")
  /\ UNCHANGED <<deadCh, notes, drained>>

WindowDead(c) ==
  /\ mu = c /\ call[c].pc = "window" /\ deadCh
  /\ MarkDead /\ Return(c, "interrupted")
  /\ UNCHANGED <<deadCh, notes, drained>>

WindowRead(c) ==
  /\ mu = c /\ call[c].pc = "window" /\ readCh # <<>>
  /\ readCh' = Tail(readCh)
  /\ IF ParseSentinel(c, Head(readCh))
     THEN Return(c, "ok")
     ELSE /\ call' = [call EXCEPT ![c].capture = @ \union {Head(readCh)}]
          /\ UNCHANGED mu
  /\ UNCHANGED <<open, started, gen, deadCh, notes, drained>> /\ UNCHANGED Process

\* The reader ends with the master's error while the shell lives: its descriptors were
\* closed or sent elsewhere. No fairness: nothing makes a reader end.
WindowEnds(c) ==
  /\ mu = c /\ call[c].pc = "window"
  /\ MarkDead /\ Return(c, "interrupted")
  /\ UNCHANGED <<deadCh, notes, drained>>

-----------------------------------------------------------------------------
(* The shell, its reaper and its reader.                                    *)

Manager == <<mu, open, started, gen, notes, call, drained>>

\* The command prints; its output may look like somebody's sentinel.
Prints(kind) ==
  /\ shell = "busy" /\ outs < MaxOut
  /\ outs' = outs + 1
  /\ tty' = Append(tty, <<kind, job>>)
  /\ UNCHANGED <<shell, job, ran, readCh, deadCh>> /\ UNCHANGED Manager

\* The command ends and the sentinel echo runs after it, unless the command read the
\* echo as its own input. One that starts a shell on that input counts as ended: that
\* shell runs the echo and the later commands.
Completes ==
  /\ shell = "busy"
  /\ shell' = "ready"
  /\ ran' = ran \union {job}
  /\ tty' \in {Append(tty, <<"sentinel", job>>), tty}
  /\ job' = NoCall /\ outs' = 0
  /\ UNCHANGED <<readCh, deadCh>> /\ UNCHANGED Manager

\* The command exits the shell, or somebody kills it.
ShellExits ==
  /\ shell \in {"ready", "busy"}
  /\ shell' = "gone" /\ job' = NoCall /\ outs' = 0
  /\ UNCHANGED <<ran, tty, readCh, deadCh>> /\ UNCHANGED Manager

Reaped ==
  /\ shell = "gone" /\ ~deadCh
  /\ deadCh' = TRUE
  /\ UNCHANGED Process /\ UNCHANGED readCh /\ UNCHANGED Manager

\* The reader blocks while the channel is full and stops at the reap.
Reads ==
  /\ open /\ ~deadCh /\ tty # <<>> /\ Len(readCh) < ChunkBuf
  /\ readCh' = Append(readCh, Head(tty))
  /\ tty' = Tail(tty)
  /\ UNCHANGED <<shell, job, outs, ran, deadCh>> /\ UNCHANGED Manager

-----------------------------------------------------------------------------
(* Drain: the session close waits for mu, then ends the shell.              *)
Drain ==
  /\ mu = NoCall /\ ~drained
  /\ drained' = TRUE
  /\ IF shell = "none" THEN UNCHANGED <<open, started, gen, shell, job, outs, ran, tty, readCh>> ELSE MarkDead
  /\ UNCHANGED <<mu, deadCh, notes, call>>

RunStep(c) == Run(c) \/ EnsureShell(c) \/ Write(c) \/ WindowCancelled(c) \/ WindowDead(c) \/ WindowRead(c)

Next ==
  \/ \E c \in Call : BashPersistentRun(c) \/ Expire(c) \/ RunStep(c) \/ WindowEnds(c)
  \/ \E k \in {"out", "lookalike"} : Prints(k)
  \/ Completes \/ ShellExits \/ Reaped \/ Reads \/ Drain

Spec == Init /\ [][Next]_vars

\* The timers fire, the goroutine of a call runs on, and mu is handed on to a call
\* that waits for it.
Fairness == \A c \in Call : WF_vars(Expire(c)) /\ SF_vars(RunStep(c))
FairSpec == Spec /\ Fairness

-----------------------------------------------------------------------------
(* Properties.                                                              *)

TypeOK ==
  /\ mu \in Call \union {NoCall} /\ open \in BOOLEAN /\ started \in BOOLEAN
  /\ gen \in 0..MaxGen /\ shell \in {"none", "ready", "busy", "gone"}
  /\ job \in Call \union {NoCall} /\ outs \in 0..MaxOut /\ ran \subseteq Call
  /\ Len(readCh) <= ChunkBuf /\ deadCh \in BOOLEAN /\ drained \in BOOLEAN
  /\ \A c \in Call : call[c].capture \subseteq Chunk

(* A call that reports an exit status ran its command to the end in the shell: *)
(* neither its own output nor a neighbour's leftovers can end the capture.     *)
OkMeansRan == \A c \in Call : call[c].result = "ok" => c \in ran

(* What ptty.go:33 says: a dead shell restarts on the next call with a visible *)
(* note, never silently.  A shell that dies between Run's look and ensureShell's *)
(* is replaced without one.                                                    *)
(* Refuted.                                                                    *)
RestartNeverSilent == gen > 0 => notes >= gen - 1

(* Every persistent call returns, also when its command never does, the shell   *)
(* dies under it or another call holds the shell.                              *)
EveryCallReturns == \A c \in Call : (call[c].pc = "queued") ~> (call[c].pc = "done")

(* What ptty.go:571-573 says: session close sweeps the shell, no orphans.       *)
(* Refuted: a call that waited for the mutex behind Drain starts a new shell.   *)
NoShellAfterDrain == (drained /\ mu = NoCall) => shell \in {"none", "gone"}
=============================================================================
