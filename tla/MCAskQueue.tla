----------------------------- MODULE MCAskQueue -----------------------------
(* Three asks of two turns, one of them foreground: the foreground ask can  *)
(* overtake, two background asks can be compared for age, and a drain of    *)
(* one turn leaves the other's entries behind.                              *)
EXTENDS AskQueue, TLC

CONSTANTS a1, a2, a3, t1, t2

MCAsk        == {a1, a2, a3}
MCTurn       == {t1, t2}
MCTurnOf     == a1 :> t1 @@ a2 :> t2 @@ a3 :> t1
MCForeground == {a3}
=============================================================================
