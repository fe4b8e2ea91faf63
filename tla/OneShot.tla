------------------------------- MODULE OneShot -------------------------------
(***************************************************************************)
(* What a row scheduled for later promises: it acts while it is due and at *)
(* no other time, once; it ends cancelled without having acted, or settled,*)
(* and stays so.  Only a row whose job was interrupted may act once more,  *)
(* and a row that is barred while it has not acted never does.             *)
(***************************************************************************)
EXTENDS Naturals

CONSTANT Row     \* The rows

VARIABLES
    fate,        \* "none", "armed", "due", "cancelled" or "dispatched"
    effects,     \* How often the row has acted
    excused,     \* The rows whose job was interrupted
    barred       \* The rows that may not act any more

Spent(r) == effects[r] # 0 /\ r \notin excused

Init ==
    /\ fate = [r \in Row |-> "none"]
    /\ effects = [r \in Row |-> 0]
    /\ excused = {} /\ barred = {}

Moves(R, from, to) ==
    /\ \A r \in R : fate[r] \in from
    /\ fate' = [r \in Row |-> IF r \in R THEN to ELSE fate[r]]
    /\ UNCHANGED <<effects, excused, barred>>

Arm(r) == Moves({r}, {"none"}, "armed")

FallDue(r) == Moves({r}, {"armed"}, "due")

Cancel(r) == ~Spent(r) /\ Moves({r}, {"armed", "due"}, "cancelled")

Act(r) ==
    /\ fate[r] = "due" /\ ~Spent(r) /\ r \notin barred
    /\ effects' = [effects EXCEPT ![r] = @ + 1]
    /\ UNCHANGED <<fate, excused, barred>>

\* One job settles the rows it claimed together.
Settle(R) == Moves(R, {"due"}, "dispatched")

Interrupt(R) ==
    /\ \A r \in R : fate[r] = "due"
    /\ excused' = excused \cup R
    /\ UNCHANGED <<fate, effects, barred>>

Bar(R) ==
    /\ \A r \in R : fate[r] = "due" /\ effects[r] = 0
    /\ barred' = barred \cup R
    /\ UNCHANGED <<fate, effects, excused>>

Next ==
    \/ \E r \in Row : Arm(r) \/ FallDue(r) \/ Cancel(r) \/ Act(r)
    \/ \E R \in SUBSET Row : Settle(R) \/ Interrupt(R) \/ Bar(R)

Spec == Init /\ [][Next]_<<fate, effects, excused, barred>>

=============================================================================
