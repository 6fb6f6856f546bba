----------------------------- MODULE MCSessions -----------------------------
(***************************************************************************)
(* Sessions: the ACP server's table of them, the runner's, the transcript  *)
(* each one writes and reads back after a crash, its replay to a client,   *)
(* and the store of transcripts on disk. A behaviour takes the steps of    *)
(* one component, chosen at the start: the run explores the sum of their   *)
(* state spaces.                                                           *)
(* It extends AcpSession, whose definitions keep their names, and          *)
(* instantiates the others; the composition's own carry MC.                *)
(***************************************************************************)
EXTENDS AcpSession, Sequences, TLC

VARIABLES
  focus,  \* the component whose steps a behaviour takes
  \* SessionLog
  file, tail, todo, step, turn, counter, open, asked, sub, armed, attempt, retried,
  crashes, clean,
  \* SessionStore
  now, transcript, marker, sweep, cursor, listed, moved, deleted,
  \* RunnerSessions
  sessions, built, inc, trackers, wakeInFlight, parked, lastSessionID, closer, down,
  toClose, ctxDone, served, exited,
  \* AcpWire
  phase, live, message, busq, log, req, wire

LogVars == <<file, tail, todo, step, turn, counter, open, asked, sub, armed,
             attempt, retried, crashes, clean>>
StoreVars == <<now, transcript, marker, sweep, cursor, listed, moved, deleted>>
RunnerVars == <<sessions, built, inc, trackers, wakeInFlight, parked, lastSessionID,
                closer, down, toClose, ctxDone, served, exited>>
ReplayVars == <<phase, live, message, busq, log, req, wire>>
allVars == <<focus, vars, LogVars, StoreVars, RunnerVars, ReplayVars>>

Log == INSTANCE SessionLog WITH
  MidTurnWindowMessages <- 2, MaxFilesTouched <- 1, TailAllowance <- 3,
  Call <- {"c1", "c2", "c3"}, SubCall <- {"Bash"}, MaxTurn <- 2, MaxLines <- 7,
  MaxCrash <- 2
Store == INSTANCE SessionStore WITH
  Session <- 1..3, Grace <- 1, PageSize <- 1, Horizon <- 2
Runner == INSTANCE RunnerSessions WITH
  Id <- {"a"}, Closer <- {"k1", "k2"}, MaxBuilds <- 2, NoId <- "none"
Replay == INSTANCE AcpWire WITH
  Call <- {"c1"}, Request <- {"r1"}, MaxLines <- 3

\* What the components assume of their constants.
ASSUME /\ Store!StoreAssumption /\ AcpAssumption /\ Log!LogAssumption /\ Replay!WireAssumption

MCInit ==
  /\ focus \in {"server", "log", "store", "runner", "replay"}
  /\ Init
  /\ Log!Init
  /\ Store!Init
  /\ Runner!Init
  /\ Replay!Init

\* Two bounds of the log's behaviours. The ids of calls are arbitrary names, so
\* the run mints them in one order; and a transcript that saw both crashes stays
\* two lines shorter.
CallIds == <<"c1", "c2", "c3">>
MintedInOrder ==
  LET lines == file' \o todo'
  IN  \A i \in DOMAIN lines, k \in 2 .. 3 :
        lines[i].id = CallIds[k] => \E j \in 1 .. i - 1 : lines[j].id = CallIds[k - 1]
ShorterAfterBoth == crashes' = 2 => Len(file') <= 5

MCNext ==
  \/ focus = "server" /\ Next /\ UNCHANGED <<focus, LogVars, StoreVars, RunnerVars, ReplayVars>>
  \/ /\ focus = "log" /\ Log!Next /\ MintedInOrder /\ ShorterAfterBoth
     /\ UNCHANGED <<focus, vars, StoreVars, RunnerVars, ReplayVars>>
  \/ focus = "store" /\ Store!Next /\ UNCHANGED <<focus, vars, LogVars, RunnerVars, ReplayVars>>
  \/ focus = "runner" /\ Runner!Next /\ UNCHANGED <<focus, vars, LogVars, StoreVars, ReplayVars>>
  \/ focus = "replay" /\ Replay!Next /\ UNCHANGED <<focus, vars, LogVars, StoreVars, RunnerVars>>

MCSpec == MCInit /\ [][MCNext]_allVars

\* The server tells neither prompts nor loads apart, and the properties of the run
\* are invariants and action properties.
Symmetry == Permutations(Prompt) \cup Permutations(Loader)

-----------------------------------------------------------------------------
\* The window a request is built from pairs every call with its result
\* (projector.go).
PairedWindow == Log!PairedWindow

\* A turn started after a restart has an id no line carries yet (manager.go).
TurnIdsFresh == Log!TurnIdsFresh

\* A load that reports success has shown the whole transcript (replay.go).
LoadedMeansComplete == Replay!LoadedMeansComplete

\* The rest of what these components keep: loads exclude each other and prompts
\* wait for the replay; the intent line is the turn's own; a load closes every
\* open ask; a listing shows each session once and no deleted one; the runner's
\* cache hands out no half-reaped session.
SessionsSafe ==
  /\ focus = "server" => TypeOK /\ LoadExclusive /\ PromptsWaitForReplay
  /\ focus = "log" => Log!TypeOK /\ Log!IntentIsTheTurns /\ Log!LoadClosesAll
  /\ focus = "store" => Store!ListedOnce /\ Store!DeletedStaysHidden
  /\ focus = "runner" => Runner!TypeOK /\ Runner!NeverHalfReaped
  /\ focus = "replay" => Replay!TypeOK
=============================================================================
