------------------------------ MODULE EventLog ------------------------------
(***************************************************************************)
(* What an outbox promises those who listen: what is broadcast is a row of *)
(* a committed transaction, and each life of the replica broadcasts it at  *)
(* most once.  How the rows are found, by polling a window through a map   *)
(* of what was seen, is the tailer's own affair.                           *)
(***************************************************************************)
EXTENDS Sequences

CONSTANT Event      \* The rows

VARIABLES
    committed,      \* Those whose transaction has committed
    log,            \* What this life has broadcast, in order
    delivered       \* What any life has broadcast

InLog(e) == \E i \in DOMAIN log : log[i] = e

Init == committed = {} /\ log = <<>> /\ delivered = {}

CommitRow(e) ==
    /\ committed' = committed \cup {e}
    /\ UNCHANGED <<log, delivered>>

Publish(e) ==
    /\ e \in committed /\ ~InLog(e)
    /\ log' = Append(log, e)
    /\ delivered' = delivered \cup {e}
    /\ UNCHANGED committed

StartOver ==
    /\ log' = <<>>
    /\ UNCHANGED <<committed, delivered>>

Next == (\E e \in Event : CommitRow(e) \/ Publish(e)) \/ StartOver

Spec == Init /\ [][Next]_<<committed, log, delivered>>

=============================================================================
