----------------------------- MODULE Presences -----------------------------
(***************************************************************************)
(* Presence rows.  A poll, and in the same shape a manual status, inserts  *)
(* the row ON CONFLICT DO NOTHING and then updates it; the retention job   *)
(* deletes the rows whose last poll is too old.                            *)
(***************************************************************************)
EXTENDS Callers

VARIABLES
    presence,  \* Each row: "none", "fresh" or "stale"
    polling,   \* The row each worker has still to update, or "none"
    reaped,    \* History: workers whose row was deleted before that
    online     \* History: partners whose answered poll has not grown old

presenceVars == <<presence, polling, reaped, online>>

PresencesInit ==
    /\ presence = [p \in Partner |-> "none"]
    /\ polling = [w \in Worker |-> "none"]
    /\ reaped = {} /\ online = {}

-----------------------------------------------------------------------------
\* The insert succeeds, and the update that follows changes nothing.
PollFirst(p) ==
    /\ presence[p] = "none"
    /\ Call
    /\ presence' = [presence EXCEPT ![p] = "fresh"]
    /\ online' = online \cup {p}
    /\ UNCHANGED <<polling, reaped>>

PollAgain(w, p) ==
    /\ polling[w] = "none" /\ presence[p] # "none"
    /\ Call
    /\ polling' = [polling EXCEPT ![w] = p]
    /\ UNCHANGED <<presence, reaped, online>>

\* The update may find no row, and the call is answered all the same.
RefreshLastPoll(w) ==
    LET p == polling[w] IN
    /\ p # "none"
    /\ presence' = [presence EXCEPT ![p] = IF @ = "none" THEN @ ELSE "fresh"]
    /\ online' = IF w \in reaped /\ presence[p] = "none" THEN online ELSE online \cup {p}
    /\ polling' = [polling EXCEPT ![w] = "none"]
    /\ reaped' = reaped \ {w}
    /\ UNCHANGED calls

LosePoll(w) ==
    /\ polling[w] # "none"
    /\ polling' = [polling EXCEPT ![w] = "none"]
    /\ reaped' = reaped \ {w}
    /\ UNCHANGED <<calls, presence, online>>

\* Hours go by.
GrowStale(p) ==
    /\ presence[p] = "fresh"
    /\ presence' = [presence EXCEPT ![p] = "stale"]
    /\ online' = online \ {p}
    /\ UNCHANGED <<calls, polling, reaped>>

Stale == {p \in Partner : presence[p] = "stale"}

\* Faulty variant: the rows are deleted whatever their age.
ReapAny ==
    /\ \E p \in Partner : presence[p] # "none"
    /\ presence' = [p \in Partner |-> "none"]
    /\ reaped' = reaped \cup {w \in Worker : polling[w] # "none"}
    /\ UNCHANGED <<calls, polling, online>>

\* The DELETE looks at a row again that was updated while it waited.
PresenceGc ==
    /\ Stale # {}
    /\ presence' = [p \in Partner |-> IF p \in Stale THEN "none" ELSE presence[p]]
    /\ reaped' = reaped \cup {w \in Worker : polling[w] \in Stale}
    /\ UNCHANGED <<calls, polling, online>>

-----------------------------------------------------------------------------
PresencesNext ==
    \/ \E p \in Partner :
           PollFirst(p) \/ GrowStale(p) \/ \E w \in Worker : PollAgain(w, p)
    \/ \E w \in Worker : RefreshLastPoll(w) \/ LosePoll(w)
    \/ PresenceGc

PresencesTypeOK ==
    /\ presence \in [Partner -> {"none", "fresh", "stale"}]
    /\ polling \in [Worker -> Partner \cup {"none"}]
    /\ reaped \in SUBSET Worker /\ online \in SUBSET Partner

\* Whoever's poll was answered has a row until hours go by: the retention job
\* takes one from a caller only if it has grown stale and the job commits
\* between the caller's two statements (refresh_last_poll, presence_gc).
KeptOnline == \A p \in online : presence[p] = "fresh"

=============================================================================
