----------------------------- MODULE OneDialog -----------------------------
(***************************************************************************)
(* What the ask queue promises its callers, with no queue, pump or drain   *)
(* in sight: at most one dialog is on the operator's screen, a foreground  *)
(* ask is never kept waiting behind a background one, an ask withdrawn     *)
(* before it was shown is never shown, and every ask is settled once, with *)
(* a verdict that follows from how it left the screen.                     *)
(***************************************************************************)
EXTENDS Sequences

CONSTANTS Ask,          \* the asks of one session
          Foreground    \* those raised by the operator's own turn

Outcome == {"answered", "failed", "cancelled"}

VARIABLES waiting,      \* asks submitted and not yet shown
          shown,        \* the dialog on screen: at most one ask
          closed,       \* asks whose dialog has been taken off screen
          withdrawn,    \* asks taken back before they were ever shown
          settled       \* settled[a]: the verdicts handed to a's owner

absVars == <<waiting, shown, closed, withdrawn, settled>>

Known == waiting \cup shown \cup closed \cup withdrawn

Init == /\ waiting = {} /\ shown = {} /\ closed = {} /\ withdrawn = {}
        /\ settled = [a \in Ask |-> <<>>]

\* A new ask waits, or is shown at once when nobody else is in line.
Submit(a) ==
    /\ a \notin Known
    /\ \/ waiting' = waiting \cup {a} /\ UNCHANGED shown
       \/ shown = {} /\ waiting = {} /\ shown' = {a} /\ UNCHANGED waiting
    /\ UNCHANGED <<closed, withdrawn, settled>>

\* The next dialog: a background ask only when no foreground ask waits.
Show(a) ==
    /\ shown = {} /\ a \in waiting
    /\ waiting \cap Foreground # {} => a \in Foreground
    /\ shown' = {a} /\ waiting' = waiting \ {a}
    /\ UNCHANGED <<closed, withdrawn, settled>>

Close(a) ==
    /\ shown = {a}
    /\ shown' = {} /\ closed' = closed \cup {a}
    /\ UNCHANGED <<waiting, withdrawn, settled>>

Withdraw(S) ==
    /\ S # {} /\ S \subseteq waiting
    /\ waiting' = waiting \ S /\ withdrawn' = withdrawn \cup S
    /\ UNCHANGED <<shown, closed, settled>>

\* Settled once; an ask nobody saw can only be settled as cancelled.
Settle(a, o) ==
    /\ settled[a] = <<>>
    /\ a \in closed \/ (a \in withdrawn /\ o = "cancelled")
    /\ settled' = [settled EXCEPT ![a] = <<o>>]
    /\ UNCHANGED <<waiting, shown, closed, withdrawn>>

Next == \/ \E a \in Ask : Submit(a) \/ Show(a) \/ Close(a)
        \/ \E S \in SUBSET waiting : Withdraw(S)
        \/ \E a \in Ask, o \in Outcome : Settle(a, o)

Spec == Init /\ [][Next]_absVars
=============================================================================
