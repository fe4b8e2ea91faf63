------------------------------ MODULE Switches ------------------------------
(***************************************************************************)
(* What a toggle promises: every call that is answered turns its switch    *)
(* over, and shows what it turned it to, so that two answered calls for a  *)
(* key cancel out.  A switch that is muddled may be set to either side, or *)
(* shown off whichever side it is on.                                      *)
(***************************************************************************)
CONSTANT Key     \* The switches

VARIABLES
    on,          \* Those that are on
    shown,       \* What was announced last of each
    muddled      \* Those that no promise holds for any more

Init == on = {} /\ shown = [k \in Key |-> FALSE] /\ muddled = {}

\* Turn the switch to a side, and say so.
Set(k, side) ==
    /\ on' = IF side THEN on \cup {k} ELSE on \ {k}
    /\ shown' = [shown EXCEPT ![k] = side]
    /\ UNCHANGED muddled

TurnOn(k) == (k \notin on \/ k \in muddled) /\ Set(k, TRUE)

TurnOff(k) == (k \in on \/ k \in muddled) /\ Set(k, FALSE)

ShowOff(k) ==
    /\ k \in muddled
    /\ shown' = [shown EXCEPT ![k] = FALSE]
    /\ UNCHANGED <<on, muddled>>

Muddle(k) ==
    /\ muddled' = muddled \cup {k}
    /\ UNCHANGED <<on, shown>>

Next == \E k \in Key : TurnOn(k) \/ TurnOff(k) \/ ShowOff(k) \/ Muddle(k)

Spec == Init /\ [][Next]_<<on, shown, muddled>>

=============================================================================
