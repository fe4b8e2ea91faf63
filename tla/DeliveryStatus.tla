--------------------------- MODULE DeliveryStatus ---------------------------
(***************************************************************************)
(* What a recipient's delivery badge promises, whatever queue drives it: a *)
(* notification is minted once as 'ready', and from then on it only climbs *)
(* the lattice, along declared moves, until a failure freezes it or the    *)
(* retention job reaps it.  Both send queues implement this specification. *)
(***************************************************************************)
EXTENDS StatusLattice

CONSTANT Row      \* The notification rows

VARIABLE status   \* Their status, "none" before and "reaped" after their life

Live(r) == status[r] \in NotificationStatuses

\* One post mints the notification of every recipient.
Mint(R) ==
    /\ \A r \in R : status[r] = "none"
    /\ status' = [r \in Row |-> IF r \in R THEN "ready" ELSE status[r]]

\* One transaction may advance several rows to one target.
Advance(target, R) ==
    /\ \A r \in R : /\ Live(r)
                    /\ Outranks(target, status[r])
                    /\ NotificationWriteAllowed(status[r], target)
    /\ status' = [r \in Row |-> IF r \in R THEN target ELSE status[r]]

Reap(R) ==
    /\ \A r \in R : Live(r)
    /\ status' = [r \in Row |-> IF r \in R THEN "reaped" ELSE status[r]]

Init == status = [r \in Row |-> "none"]

Next ==
    \E R \in SUBSET Row :
        \/ Mint(R)
        \/ \E target \in NotificationStatuses : Advance(target, R)
        \/ Reap(R)

Spec == Init /\ [][Next]_status

=============================================================================
