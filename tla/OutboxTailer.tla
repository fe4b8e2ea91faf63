---------------------------- MODULE OutboxTailer ----------------------------
(***************************************************************************)
(* The outbox and the tailer of one replica: transactions stage rows and   *)
(* commit them later, and each pass of poll_once re-reads a window of the  *)
(* outbox and publishes what its dedup map has not seen.  A pass reads     *)
(* once and then publishes row by row, and a restart may interrupt it.     *)
(***************************************************************************)
EXTENDS Integers, Sequences

CONSTANTS
    Event,       \* The outbox rows, as numbers: the order of their ids
    Window,      \* The tailer's replay and dedup window
    CommitLag,   \* How long a transaction may stay open after staging
    PollGap,     \* The longest time between two completed passes
    MaxClock,    \* Bound on the clock
    MaxRestarts  \* Bound on the replica's restarts

ASSUME TailerAssumption ==
    /\ Event \subseteq Nat \ {0}
    /\ {Window, CommitLag, PollGap, MaxClock, MaxRestarts} \subseteq Nat

VARIABLES
    now,        \* The clock
    outbox,     \* "none", "staged" in an open transaction, or "committed"
    stamp,      \* occurred_at of each row, set when it is staged
    seen,       \* The dedup map
    batch,      \* Rows of the current pass that are still to be published
    sending,    \* The event that is in the ring and not yet broadcast, or 0
    readAt,     \* When the current pass read the outbox
    passed,     \* When the last completed pass read it
    feed,       \* What this life of the replica has broadcast, in order
    published,  \* History: what any life of the replica has broadcast
    restarts    \* History: the replica's restarts

clock == <<now, readAt, passed>>
rows == <<outbox, stamp>>
tailer == <<seen, batch, sending>>
output == <<feed, published>>
vars == <<clock, rows, tailer, output, restarts>>

Init ==
    /\ now = 0 /\ readAt = 0 /\ passed = 0
    /\ outbox = [e \in Event |-> "none"]
    /\ stamp = [e \in Event |-> 0]
    /\ seen = {} /\ batch = {} /\ sending = 0
    /\ feed = <<>> /\ published = {}
    /\ restarts = 0

-----------------------------------------------------------------------------
(***************************************************************************)
(* The writers and the clock.  CommitLag and PollGap are assumptions on    *)
(* the environment, and so guards of the clock.                            *)
(***************************************************************************)
\* Faulty variant: a row stamped by a clock that runs behind.
StageBackdated(e) ==
    /\ outbox[e] = "none"
    /\ outbox' = [outbox EXCEPT ![e] = "staged"]
    /\ stamp' = [stamp EXCEPT ![e] = now - 1]
    /\ UNCHANGED <<clock, tailer, output, restarts>>

Stage(e) ==
    /\ outbox[e] = "none"
    /\ outbox' = [outbox EXCEPT ![e] = "staged"]
    /\ stamp' = [stamp EXCEPT ![e] = now]
    /\ UNCHANGED <<clock, tailer, output, restarts>>

Commit(e) ==
    /\ outbox[e] = "staged"
    /\ outbox' = [outbox EXCEPT ![e] = "committed"]
    /\ UNCHANGED <<clock, stamp, tailer, output, restarts>>

Rollback(e) ==
    /\ outbox[e] = "staged"
    /\ outbox' = [outbox EXCEPT ![e] = "none"]
    /\ stamp' = [stamp EXCEPT ![e] = 0]
    /\ UNCHANGED <<clock, tailer, output, restarts>>

Tick ==
    /\ now < MaxClock
    /\ now < passed + PollGap
    /\ \A e \in Event : outbox[e] = "staged" => now < stamp[e] + CommitLag
    /\ now' = now + 1
    /\ UNCHANGED <<readAt, passed, rows, tailer, output, restarts>>

-----------------------------------------------------------------------------
(***************************************************************************)
(* The tailer: one pass of poll_once, and the registry's publish.          *)
(***************************************************************************)
InWindow(e) == stamp[e] > now - Window

Busy == batch # {} \/ sending # 0

\* Faulty variant: a dedup map pruned to a shorter horizon than the query's.
KeptTooShort == {e \in seen : stamp[e] >= now}

\* What pruning leaves in the dedup map.
Kept == {e \in seen : InWindow(e)}

\* Faulty variant: a high-watermark in place of the overlapping window.
FreshAboveWatermark ==
    {e \in Event : outbox[e] = "committed" /\ stamp[e] >= passed /\ e \notin Kept}

\* The rows the query returns and the map has not seen.
Fresh == {e \in Event : outbox[e] = "committed" /\ InWindow(e) /\ e \notin Kept}

Poll ==
    /\ ~Busy
    /\ seen' = Kept \cup Fresh
    /\ batch' = Fresh
    /\ readAt' = now
    /\ passed' = IF Fresh = {} THEN now ELSE passed
    /\ UNCHANGED <<now, rows, sending, output, restarts>>

\* ORDER BY occurred_at, id.
Precedes(e, f) == stamp[e] < stamp[f] \/ (stamp[e] = stamp[f] /\ e <= f)

\* publish puts the next event into the registry's ring ...
Remember(e) ==
    /\ sending = 0
    /\ e \in batch /\ \A f \in batch : Precedes(e, f)
    /\ batch' = batch \ {e}
    /\ sending' = e
    /\ UNCHANGED <<clock, rows, seen, output, restarts>>

\* ... and, with the ring's lock released, broadcasts it.
Broadcast ==
    /\ sending # 0
    /\ feed' = Append(feed, sending)
    /\ published' = published \cup {sending}
    /\ sending' = 0
    /\ passed' = IF batch = {} THEN readAt ELSE passed
    /\ UNCHANGED <<now, readAt, rows, seen, batch, restarts>>

\* Faulty variant: a dedup map that outlives the replica.
RestartKeepingMap ==
    /\ restarts < MaxRestarts
    /\ restarts' = restarts + 1
    /\ batch' = {} /\ sending' = 0
    /\ readAt' = passed
    /\ feed' = <<>>
    /\ UNCHANGED <<now, passed, rows, seen, published>>

\* The replica dies, and its next life starts with an empty map.
Restart ==
    /\ restarts < MaxRestarts
    /\ restarts' = restarts + 1
    /\ seen' = {} /\ batch' = {} /\ sending' = 0
    /\ readAt' = passed
    /\ feed' = <<>>
    /\ UNCHANGED <<now, passed, rows, published>>

-----------------------------------------------------------------------------
TailerStep == Poll \/ Broadcast \/ \E e \in Event : Remember(e)

Next ==
    \/ \E e \in Event : Stage(e) \/ Commit(e) \/ Rollback(e)
    \/ Tick
    \/ TailerStep
    \/ Restart

Spec == Init /\ [][Next]_vars

\* The tailer's loop keeps running; no writer has to do anything.
FairSpec == Spec /\ WF_vars(TailerStep)

-----------------------------------------------------------------------------
(***************************************************************************)
(* Type invariant: the tailer works on rows.                               *)
(***************************************************************************)
TypeOK ==
    /\ now \in Nat /\ readAt \in Nat /\ passed \in Nat /\ restarts \in Nat
    /\ outbox \in [Event -> {"none", "staged", "committed"}]
    /\ stamp \in [Event -> Nat]
    /\ seen \in SUBSET Event /\ batch \in SUBSET Event
    /\ published \in SUBSET Event
    /\ sending \in Event \cup {0}
    /\ feed \in Seq(Event)

\* No committed row leaves the window unpublished, however late its
\* transaction commits and whatever restarts interrupt a pass, as long as the
\* commit lag and the gap between completed passes fit into the window.
NoneSkipped ==
    CommitLag + PollGap < Window =>
        \A e \in Event : outbox[e] = "committed" /\ ~InWindow(e) => e \in published

\* One life of the replica broadcasts a row once, though each pass reads the
\* window again: an id leaves the map no sooner than its row leaves the query.
PublishedOnce ==
    \A i, j \in DOMAIN feed : feed[i] = feed[j] => i = j

\* The tailer implements the event log: nothing that is not committed is ever
\* broadcast, and nothing twice in a life of the replica.
Committed == {e \in Event : outbox[e] = "committed"}

Outlet == INSTANCE EventLog WITH
    committed <- Committed, log <- feed, delivered <- published

LogSpec == Outlet!Spec

\* Liveness, under FairSpec: a row that is committed in good time is eventually broadcast, also when its
\* first publication dies with the replica.
CommittedIsPublished ==
    \A e \in Event :
        outbox[e] = "committed" /\ CommitLag + PollGap < Window ~> e \in published

=============================================================================
