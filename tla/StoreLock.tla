------------------------------ MODULE StoreLock ------------------------------
(***************************************************************************)
(* The cross-process lock file of the checkpoint store (acquireLock in     *)
(* kit/checkpoint/store.go): created with O_EXCL, polled while it exists,  *)
(* and stolen once its modification time is lockStaleAfter old.            *)
(***************************************************************************)
EXTENDS Integers, FiniteSets

CONSTANTS
  Process,     \* processes sharing the workspace: a server, a terminal restore
  StaleAfter,  \* lockStaleAfter
  HoldTime,    \* an operation that does not die lasts less than this
  MaxTime, MaxCrash

StoreLockAssumption == StaleAfter \in Nat \ {0} /\ HoldTime \in Nat

VARIABLES
  clock,
  file,      \* the lock file: its modification time, or 0 when there is none
  pc,        \* "idle", "polling", "stale" (saw an old file), "holding", "dead"
  since,     \* when the process began to hold
  crashes,
  stolen     \* History: a file was removed that was not the old one that was seen

vars == <<clock, file, pc, since, crashes, stolen>>

NoFile == 0

Init ==
  /\ clock = 1 /\ file = NoFile /\ pc = [p \in Process |-> "idle"]
  /\ since = [p \in Process |-> 0] /\ crashes = 0 /\ stolen = FALSE

Begin(p) ==
  /\ pc[p] = "idle" /\ pc' = [pc EXCEPT ![p] = "polling"]
  /\ UNCHANGED <<clock, file, since, crashes, stolen>>

\* OpenFile with O_CREATE and O_EXCL succeeds for one process.
Create(p) ==
  /\ pc[p] = "polling" /\ file = NoFile
  /\ file' = clock /\ pc' = [pc EXCEPT ![p] = "holding"]
  /\ since' = [since EXCEPT ![p] = clock]
  /\ UNCHANGED <<clock, crashes, stolen>>

\* The poll reads the file's age ...
SeesStale(p) ==
  /\ pc[p] = "polling" /\ file # NoFile /\ clock - file >= StaleAfter
  /\ pc' = [pc EXCEPT ![p] = "stale"]
  /\ UNCHANGED <<clock, file, since, crashes, stolen>>

\* Mutant: the file that was found old is left where it is.
StealLeaves(p) ==
  /\ pc[p] = "stale"
  /\ pc' = [pc EXCEPT ![p] = "polling"]
  /\ UNCHANGED <<clock, file, since, crashes, stolen>>

\* ... and removes whatever file is there by then.
Steal(p) ==
  /\ pc[p] = "stale"
  /\ file' = NoFile /\ pc' = [pc EXCEPT ![p] = "polling"]
  /\ stolen' = (stolen \/ \E q \in Process : pc[q] = "holding")
  /\ UNCHANGED <<clock, since, crashes>>

\* The caller's context ends while it polls: for a file that is there, or one that
\* cannot be opened for another reason.
GiveUp(p) ==
  /\ pc[p] = "polling"
  /\ pc' = [pc EXCEPT ![p] = "idle"]
  /\ UNCHANGED <<clock, file, since, crashes, stolen>>

\* release removes the file by its path, whoever created it.
Release(p) ==
  /\ pc[p] = "holding"
  /\ file' = NoFile /\ pc' = [pc EXCEPT ![p] = "idle"]
  /\ stolen' = (stolen \/ \E q \in Process \ {p} : pc[q] = "holding")
  /\ UNCHANGED <<clock, since, crashes>>

Crash(p) ==
  /\ pc[p] = "holding" /\ crashes < MaxCrash
  /\ pc' = [pc EXCEPT ![p] = "dead"] /\ crashes' = crashes + 1
  /\ UNCHANGED <<clock, file, since, stolen>>

Restart(p) ==
  /\ pc[p] = "dead" /\ pc' = [pc EXCEPT ![p] = "idle"]
  /\ UNCHANGED <<clock, file, since, crashes, stolen>>

\* Time passes, but no live operation outlasts HoldTime.
Tick ==
  /\ clock < MaxTime
  /\ \A p \in Process : pc[p] = "holding" => clock - since[p] < HoldTime
  /\ clock' = clock + 1
  /\ UNCHANGED <<file, pc, since, crashes, stolen>>

Next ==
  \/ Tick
  \/ \E p \in Process : \/ Begin(p) \/ Create(p) \/ SeesStale(p) \/ Steal(p) \/ GiveUp(p)
                        \/ Release(p) \/ Crash(p) \/ Restart(p)

Poll(p) == Create(p) \/ SeesStale(p) \/ Steal(p)

\* Processes keep polling, operations end, and time passes.
Spec ==
  /\ Init /\ [][Next]_vars /\ WF_vars(Tick)
  /\ \A p \in Process : WF_vars(Poll(p)) /\ WF_vars(Release(p))

-----------------------------------------------------------------------------
(* Properties *)

\* A crashed holder never wedges the store (acquireLock): whoever waits sees the very
\* file it waits for go, released by its holder or stolen from a dead one, unless it
\* gives up first; while there is time left to grow old in, and though others poll,
\* steal, hold and die meanwhile.
DeadLockFileGoes ==
  \A m \in 1 .. MaxTime - StaleAfter, p \in Process :
    (pc[p] = "polling" /\ file = m) ~> (file # m \/ pc[p] = "idle")

\* Cross-process mutual exclusion (acquireLock: "the lock file is created with
\* O_EXCL (cross-process mutual exclusion)").
\* Refuted: two processes see one stale file, and the second removes the lock
\* the first has just created.
OneHolder == \A p, q \in Process : pc[p] = "holding" /\ pc[q] = "holding" => p = q

\* The exclusion is only lost by a removal that hit another holder's file.
ExclusiveUntilStolen == stolen \/ OneHolder
=============================================================================
