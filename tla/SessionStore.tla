---------------------------- MODULE SessionStore ----------------------------
(* kit/session/list.go and tombstone.go: the sessions of a working         *)
(* directory as the files of its store.  A session is a transcript file;   *)
(* deleting it writes a marker beside the transcript, a sweep at start-up  *)
(* removes pairs whose grace expired, and a listing is read page by page   *)
(* with a cursor that names the last session of the page before.           *)
EXTENDS Naturals, FiniteSets

CONSTANTS
  Session,    \* session ids, numbers in their string order
  Grace,      \* days a deleted session is kept
  PageSize,
  Horizon     \* bound of the clock

VARIABLES
  now,
  transcript, \* per session, the modification time of its transcript, or Absent
  marker,     \* per session, the modification time of its marker, or Absent
  sweep,      \* the sweep: its phase and the entries it has yet to visit
  cursor,     \* where the client's listing stands: NoCursor, a header, or Done
  listed,     \* per session, how often this listing returned it
  moved,      \* sessions created, written to or deleted during this listing
  deleted     \* sessions a client was told are deleted

vars == <<now, transcript, marker, sweep, cursor, listed, moved, deleted>>

Absent == 1000

StoreAssumption ==
  /\ Horizon \in Nat /\ Horizon < Absent
  /\ Session \subseteq Nat /\ IsFiniteSet(Session)
  /\ PageSize \in Nat \ {0}

NoCursor == <<"none">>
Done == <<"done">>
SweepIdle == [at |-> "idle", rest |-> {}, id |-> 0]

Init ==
  /\ now = 0
  /\ transcript = [s \in Session |-> Absent]
  /\ marker = [s \in Session |-> Absent]
  /\ sweep = SweepIdle
  /\ cursor = Done
  /\ listed = [s \in Session |-> 0]
  /\ moved = {}
  /\ deleted = {}

Serving == sweep.at = "idle"

(* A line is appended: the file is created or its time moves. *)
AppendLine(s) ==
  /\ Serving /\ s \notin deleted
  /\ transcript' = [transcript EXCEPT ![s] = now]
  /\ moved' = moved \cup {s}
  /\ UNCHANGED <<now, marker, sweep, cursor, listed, deleted>>

(* Tombstone: the marker is created or truncated, the transcript kept. *)
Tombstone(s) ==
  /\ Serving /\ transcript[s] # Absent
  /\ marker' = [marker EXCEPT ![s] = now]
  /\ deleted' = deleted \cup {s}
  /\ moved' = moved \cup {s}
  /\ UNCHANGED <<now, transcript, sweep, cursor, listed>>

(***************************************************************************)
(* ListSessions.                                                           *)
(***************************************************************************)
(* scanStoreEntry: a transcript without a marker. *)
Visible == {s \in Session : transcript[s] # Absent /\ marker[s] = Absent}
Header(s) == <<transcript[s], s>>

(* Newest first; the id breaks ties. *)
HeaderBefore(a, b) == a[1] > b[1] \/ (a[1] = b[1] /\ a[2] < b[2])

\* Mutant: the id does not break a tie of times.
AfterListCursorByTime(h, c) == h[1] < c[1]
AfterListCursor(h, c) == h[1] < c[1] \/ (h[1] = c[1] /\ h[2] > c[2])

Remaining == {Header(s) : s \in {v \in Visible : cursor = NoCursor \/ AfterListCursor(Header(v), cursor)}}

(* The first PageSize of what remains, and the last of those. *)
Page == {h \in Remaining : Cardinality({g \in Remaining : HeaderBefore(g, h)}) < PageSize}
LastOfPage == CHOOSE h \in Page : \A g \in Page : g = h \/ HeaderBefore(g, h)

ListStart ==
  /\ Serving /\ cursor = Done
  /\ cursor' = NoCursor
  /\ listed' = [s \in Session |-> 0]
  /\ moved' = {}
  /\ UNCHANGED <<now, transcript, marker, sweep, deleted>>

ListPage ==
  /\ Serving /\ cursor # Done
  /\ listed' = [s \in Session |-> listed[s] + Cardinality({h \in Page : h[2] = s})]
  /\ cursor' = IF Cardinality(Remaining) > PageSize THEN LastOfPage ELSE Done
  /\ UNCHANGED <<now, transcript, marker, sweep, moved, deleted>>

(***************************************************************************)
(* SweepTombstones, run when the server starts; entries are read once.     *)
(***************************************************************************)
Restart ==
  /\ Serving
  /\ sweep' = [at |-> "next", rest |-> {s \in Session : marker[s] # Absent}, id |-> 0]
  /\ cursor' = Done
  /\ listed' = [s \in Session |-> 0]
  /\ UNCHANGED <<now, transcript, marker, moved, deleted>>

Expired(s) == now - marker[s] > Grace

SweepPair(s) ==
  /\ sweep.at = "next" /\ s \in sweep.rest
  /\ sweep' = [at |-> IF transcript[s] = Absent THEN "marker"
                      ELSE IF Expired(s) THEN "transcript" ELSE "next",
               rest |-> sweep.rest \ {s}, id |-> s]
  /\ UNCHANGED <<now, transcript, marker, cursor, listed, moved, deleted>>

(* os.Remove of the transcript, then of the marker; each may fail, which *)
(* leaves the pair to the next sweep.                                    *)
PurgeFirst ==
  /\ sweep.at = "transcript"
  /\ transcript' = [transcript EXCEPT ![sweep.id] = Absent] /\ UNCHANGED marker

RemoveTranscript ==
  /\ PurgeFirst
  /\ sweep' = [sweep EXCEPT !.at = "marker"]
  /\ UNCHANGED <<now, cursor, listed, moved, deleted>>

RemoveMarker ==
  /\ sweep.at = "marker"
  /\ marker' = [marker EXCEPT ![sweep.id] = Absent]
  /\ sweep' = [sweep EXCEPT !.at = "next"]
  /\ UNCHANGED <<now, transcript, cursor, listed, moved, deleted>>

RemoveFails ==
  /\ sweep.at \in {"transcript", "marker"}
  /\ sweep' = [sweep EXCEPT !.at = "next"]
  /\ UNCHANGED <<now, transcript, marker, cursor, listed, moved, deleted>>

SweepEnds ==
  /\ sweep.at = "next" /\ sweep.rest = {}
  /\ sweep' = SweepIdle
  /\ UNCHANGED <<now, transcript, marker, cursor, listed, moved, deleted>>

(* The process dies in the sweep and is started again later. *)
SweepDies ==
  /\ sweep.at # "idle"
  /\ sweep' = SweepIdle
  /\ UNCHANGED <<now, transcript, marker, cursor, listed, moved, deleted>>

Tick ==
  /\ now < Horizon
  /\ now' = now + 1
  /\ UNCHANGED <<transcript, marker, sweep, cursor, listed, moved, deleted>>

Next ==
  \/ \E s \in Session : AppendLine(s) \/ Tombstone(s) \/ SweepPair(s)
  \/ ListStart \/ ListPage
  \/ Restart \/ RemoveTranscript \/ RemoveMarker \/ RemoveFails
  \/ SweepEnds \/ SweepDies \/ Tick

Spec == Init /\ [][Next]_vars

(***************************************************************************)
(* Properties.                                                             *)
(***************************************************************************)
(* A client that pages through the listing gets every session nobody       *)
(* touched meanwhile exactly once, whatever else is written, created or    *)
(* deleted between two pages (filterAfterCursor, afterListCursor).         *)
ListedOnce ==
  \A s \in Session \ moved :
    /\ listed[s] <= 1
    /\ (cursor = Done /\ s \in Visible /\ Serving /\ \E v \in Session : listed[v] > 0) => listed[s] = 1

(* A session the client was told is deleted never shows up again, though   *)
(* a sweep may fail or die between removing its two files (sweepPair: the  *)
(* transcript goes first).                                                 *)
DeletedStaysHidden == deleted \cap Visible = {}
=============================================================================
