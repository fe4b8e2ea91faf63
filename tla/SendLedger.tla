----------------------------- MODULE SendLedger -----------------------------
(***************************************************************************)
(* What a send queue promises, whatever drains it: each attempt to hand a  *)
(* row out is granted, claimed by one worker, and then spent or given up.  *)
(* No crash, late verdict or second worker makes an attempt out of nothing,*)
(* and an attempt given up comes back only by another grant.  Both send    *)
(* queues implement this specification.                                    *)
(***************************************************************************)
EXTENDS Naturals

CONSTANTS
    Row,      \* The queued rows
    Worker    \* The processes that drain the queue

VARIABLES
    open,     \* Is an attempt at the row there to be claimed?
    held,     \* The workers that hold an attempt they have not made yet
    handed,   \* How often the row was handed out
    granted   \* How many attempts the row was granted

Init ==
    /\ open = [r \in Row |-> FALSE]
    /\ held = [r \in Row |-> {}]
    /\ handed = [r \in Row |-> 0]
    /\ granted = [r \in Row |-> 0]

\* A row is enqueued, or somebody entitled to asks for another attempt.
Grant(R) ==
    /\ \A r \in R : ~open[r]
    /\ open' = [r \in Row |-> open[r] \/ r \in R]
    /\ granted' = [r \in Row |-> IF r \in R THEN granted[r] + 1 ELSE granted[r]]
    /\ UNCHANGED <<held, handed>>

\* A worker takes a batch: each attempt leaves the queue for one worker.
Claim(w, R) ==
    /\ \A r \in R : open[r] /\ w \notin held[r]
    /\ open' = [r \in Row |-> open[r] /\ r \notin R]
    /\ held' = [r \in Row |-> IF r \in R THEN held[r] \cup {w} ELSE held[r]]
    /\ UNCHANGED <<handed, granted>>

HandOut(w, r) ==
    /\ w \in held[r]
    /\ held' = [held EXCEPT ![r] = @ \ {w}]
    /\ handed' = [handed EXCEPT ![r] = @ + 1]
    /\ UNCHANGED <<open, granted>>

\* A worker gives up what it holds of R, and the rows in Q leave the queue.
GiveUp(w, R, Q) ==
    /\ open' = [r \in Row |-> open[r] /\ r \notin Q]
    /\ held' = [r \in Row |-> IF r \in R THEN held[r] \ {w} ELSE held[r]]
    /\ UNCHANGED <<handed, granted>>

Next ==
    \/ \E R \in SUBSET Row : Grant(R)
    \/ \E w \in Worker :
        \/ \E R \in SUBSET Row : Claim(w, R)
        \/ \E r \in Row : HandOut(w, r)
        \/ \E R, Q \in SUBSET Row : GiveUp(w, R, Q)

Spec == Init /\ [][Next]_<<open, held, handed, granted>>

=============================================================================
