------------------------------ MODULE Projector ------------------------------
(* kit/session/projector.go: the window of messages the model sees,        *)
(* extracted from the transcript without a model call.  Transcript lines   *)
(* and messages are records whose texts are left out; a line is told apart *)
(* by its kind, its turn and, for tool lines, its call id.  All operators  *)
(* here are functions of the transcript and of the turn projected.         *)
EXTENDS Naturals, Sequences, FiniteSets, SequencesExt, FiniteSetsExt

CONSTANTS
  MidTurnWindowMessages,  \* the count bound of the window
  MaxFilesTouched,        \* the files a mechanical summary names
  TailAllowance           \* 60% of the context limit less the summary; 0 means unset

(***************************************************************************)
(* Transcript lines.  "torn" stands for bytes the reader cannot parse.     *)
(***************************************************************************)
NoTurn == 0
NoCall == "none"
Kind == {"user", "assistant", "chunk", "thinking", "call", "result", "ask",
         "steering", "boundary", "reset", "compaction", "dispatch",
         "subresult", "canceled", "error", "start", "end", "plan", "torn"}
Line(k, n, c) == [kind |-> k, turn |-> n, id |-> c]

(* The elements of s at the positions in I, in their order. *)
Rank(I, i) == Cardinality({j \in I : j <= i})
Pick(s, I) == [k \in 1 .. Cardinality(I) |-> s[CHOOSE i \in I : Rank(I, i) = k]]

(* readTranscriptFile: unparsable lines are skipped, wherever they are. *)
Readable(file) == Pick(file, {i \in DOMAIN file : file[i].kind # "torn"})

Last0(S) == IF S = {} THEN 0 ELSE Max(S)
OfKind(lines, kinds) == {i \in DOMAIN lines : lines[i].kind \in kinds}
OfTurn(lines, kinds, n) == {i \in OfKind(lines, kinds) : lines[i].turn = n}

(* projectedUserIdx: the turn's last user line, or the last one of any turn. *)
ProjectedUserIdx(lines, n) ==
  LET own == OfTurn(lines, {"user"}, n)
  IN  Last0(IF own # {} THEN own ELSE OfKind(lines, {"user"}))

(* The last line of a set of kinds that precedes the turn's user message. *)
LastBefore(lines, n, kinds) ==
  LET u == ProjectedUserIdx(lines, n)
  IN  Last0({i \in OfKind(lines, kinds) : u = 0 \/ i < u})

IsBoundary == {"boundary", "reset"}
CompactionMarkerIdx(lines, n) == LastBefore(lines, n, {"compaction"})
FullResetBoundaryIdx(lines, n) == LastBefore(lines, n, {"reset"})
ResetBoundaryIdx(lines, n) == LastBefore(lines, n, IsBoundary)
SameTurnMarkerIdx(lines, n) == Last0(OfTurn(lines, {"compaction"}, n))
TurnAnchorOf(lines, n) == Last0(OfTurn(lines, {"user"}, n)) + 1

BoundaryAfterMarker(lines, m, n) ==
  LET u == ProjectedUserIdx(lines, n)
  IN  \E i \in m + 1 .. Len(lines) : lines[i].kind \in IsBoundary /\ (u = 0 \/ i < u)

(***************************************************************************)
(* foldExchanges.                                                          *)
(***************************************************************************)
UserMessage(n) == [role |-> "user", calls |-> <<>>, id |-> NoCall, think |-> FALSE, turn |-> n]
ToolMessage(c) == [role |-> "tool", calls |-> <<>>, id |-> c, think |-> FALSE, turn |-> NoTurn]
AssistantMessage(cs, th) ==
  [role |-> "assistant", calls |-> cs, id |-> NoCall, think |-> th, turn |-> NoTurn]

ResultIDsOf(lines) == {lines[i].id : i \in OfKind(lines, {"result"})}

(* A result whose call is outside the lines folded is dropped. *)
Paired(a, c) == c \in a.names

(* Only answered calls are projected. *)
Answered(pending, has) == SelectSeq(pending, LAMBDA c : c \in has)

FlushBatch(a, has) ==
  LET batch == Answered(a.pending, has)
  IN  [a EXCEPT !.out = IF batch = <<>> THEN @ ELSE Append(@, AssistantMessage(batch, a.think)),
                !.pending = <<>>, !.think = FALSE]

(* parseThinkingBlock: a thinking line of unknown type stashes nothing; the *)
(* lines modelled are the ones it accepts.                                  *)
FoldLine(a, l, has) ==
  CASE l.kind = "call" ->
         [a EXCEPT !.pending = Append(@, l.id), !.names = @ \cup {l.id}]
    [] l.kind = "steering" ->
         LET f == FlushBatch(a, has) IN [f EXCEPT !.out = Append(@, UserMessage(l.turn))]
    [] l.kind = "thinking" -> [a EXCEPT !.think = TRUE]
    [] l.kind = "result" ->
         LET f == FlushBatch(a, has)
         IN  IF Paired(f, l.id) THEN [f EXCEPT !.out = Append(@, ToolMessage(l.id))] ELSE f
    [] l.kind = "assistant" ->
         LET f == FlushBatch(a, has)
             th == a.think /\ f.out = a.out
         IN  [f EXCEPT !.out = Append(@, AssistantMessage(<<>>, th))]
    [] OTHER -> a

FoldLines(lines) ==
  LET has == ResultIDsOf(lines)
      start == [out |-> <<>>, pending |-> <<>>, names |-> {}, think |-> FALSE]
  IN  FlushBatch(FoldLeft(LAMBDA a, l : FoldLine(a, l, has), start, lines), has).out

(* filterTurn = TRUE, anchored after the turn's own user message. *)
AccumulateMidTurn(lines, n) ==
  FoldLines(SelectSeq(SubSeq(lines, TurnAnchorOf(lines, n), Len(lines)),
                      LAMBDA l : l.turn = n))

(* filterTurn = FALSE, every line after a compaction marker. *)
FoldTail(lines, m) == FoldLines(SubSeq(lines, m + 1, Len(lines)))

(***************************************************************************)
(* The two bounds of a window.  Both cut where a group starts.             *)
(***************************************************************************)
Heads(msgs) == {i \in DOMAIN msgs : msgs[i].role # "tool"}
From(msgs, S) == IF S = {} THEN <<>> ELSE SubSeq(msgs, Min(S), Len(msgs))

\* Mutant: the cut ignores the exchange groups.
BoundMidTurnBlunt(msgs) ==
  IF Len(msgs) <= MidTurnWindowMessages THEN msgs
  ELSE From(msgs, {i \in DOMAIN msgs : i > Len(msgs) - MidTurnWindowMessages})
BoundMidTurn(msgs) ==
  IF Len(msgs) <= MidTurnWindowMessages THEN msgs
  ELSE From(msgs, {i \in Heads(msgs) : i > Len(msgs) - MidTurnWindowMessages})

(* messageCost: one unit for a message and one for each call of its batch. *)
MessageCost(m) == 1 + Len(m.calls)
CostFrom(msgs, i) == FoldLeft(LAMBDA t, m : t + MessageCost(m), 0, SubSeq(msgs, i, Len(msgs)))

(* The newest groups that fit; the newest group even when it does not. *)
BoundTailByBudget(msgs, allowance) ==
  LET fits == {i \in Heads(msgs) : CostFrom(msgs, i) <= allowance}
  IN  From(msgs, IF fits = {} /\ Heads(msgs) # {} THEN {Max(Heads(msgs))} ELSE fits)

BoundCompactionTail(msgs) ==
  IF TailAllowance = 0 THEN BoundMidTurn(msgs) ELSE BoundTailByBudget(msgs, TailAllowance)

(***************************************************************************)
(* findIntentLine: the turn's user line, then any, after the reset point;  *)
(* then the same before it.  0 when there is none.                         *)
(***************************************************************************)
LastUser(lines, S) == Last0({i \in S : lines[i].kind = "user"})
LastUserOf(lines, S, n) == Last0({i \in S : lines[i].kind = "user" /\ lines[i].turn = n})

FirstNonZero(s) == LET nz == {i \in DOMAIN s : s[i] # 0}
                   IN  IF nz = {} THEN 0 ELSE s[Min(nz)]

FindIntentLine(lines, after, before, n) ==
  FirstNonZero(<<LastUserOf(lines, after, n), LastUser(lines, after),
                 LastUserOf(lines, before, n), LastUser(lines, before)>>)

(* extractSummary over the first k lines: the last user and assistant lines *)
(* and the first MaxFilesTouched files; a file stands for its call.         *)
ExtractSummary(lines, k) ==
  LET calls == SelectSeq(SubSeq(lines, 1, k), LAMBDA l : l.kind = "call")
  IN  [user |-> LastUser(lines, 1 .. k),
       assistant |-> Last0({i \in 1 .. k : lines[i].kind = "assistant"}),
       files |-> SubSeq(calls, 1, IF Len(calls) < MaxFilesTouched THEN Len(calls) ELSE MaxFilesTouched)]

NoSummary == [user |-> 0, assistant |-> 0, files |-> <<>>]

(* splitAtResetBoundary: <<last line before, first line after>>. *)
SplitAtResetBoundary(lines, n) ==
  LET b == ResetBoundaryIdx(lines, n)
      u == ProjectedUserIdx(lines, n)
  IN  CASE b # 0 -> <<b - 1, b + 1>>
        [] b = 0 /\ u # 0 -> <<u - 1, u>>
        [] OTHER -> <<Len(lines), Len(lines) + 1>>

(***************************************************************************)
(* A projection: where its summary comes from (a marker's line, or a       *)
(* mechanical one), the line of the current request, and the messages.     *)
(***************************************************************************)
Projection(marker, summary, intent, mid) ==
  [marker |-> marker, summary |-> summary, intent |-> intent, mid |-> mid]

ProjectFullReset(lines, r, n) ==
  Projection(0, NoSummary, FindIntentLine(lines, r + 1 .. Len(lines), {}, n),
             BoundMidTurn(AccumulateMidTurn(lines, n)))

ProjectCompacted(lines, m, n) ==
  Projection(m, NoSummary, FindIntentLine(lines, m + 1 .. Len(lines), 1 .. m - 1, n),
             IF BoundaryAfterMarker(lines, m, n)
             THEN BoundMidTurn(AccumulateMidTurn(lines, n))
             ELSE BoundCompactionTail(FoldTail(lines, m)))

ProjectSameTurnCompacted(lines, m, n) ==
  LET u == ProjectedUserIdx(lines, n)
  IN  Projection(m, NoSummary,
                 IF u # 0 THEN u ELSE FindIntentLine(lines, m + 1 .. Len(lines), 1 .. m - 1, n),
                 BoundCompactionTail(FoldTail(lines, m)))

ProjectPlain(lines, n) ==
  LET cut == SplitAtResetBoundary(lines, n)
  IN  Projection(0, ExtractSummary(lines, cut[1]),
                 FindIntentLine(lines, cut[2] .. Len(lines), 1 .. cut[1], n),
                 BoundMidTurn(AccumulateMidTurn(lines, n)))

(* armed is the turn whose overflow retry projects after its own marker. *)
Project(lines, n, armed) ==
  LET r == FullResetBoundaryIdx(lines, n)
      m == CompactionMarkerIdx(lines, n)
      st == IF armed = n THEN SameTurnMarkerIdx(lines, n) ELSE 0
  IN  CASE st # 0 -> ProjectSameTurnCompacted(lines, st, n)
        [] st = 0 /\ r # 0 /\ r > m -> ProjectFullReset(lines, r, n)
        [] st = 0 /\ m # 0 /\ m > r -> ProjectCompacted(lines, m, n)
        [] OTHER -> ProjectPlain(lines, n)
=============================================================================
