----------------------------- MODULE Activities -----------------------------
(***************************************************************************)
(* Activities and their completion, action_done: one transaction that      *)
(* posts a note, archives the row if it is still active, and only then     *)
(* chains the next activity.                                               *)
(***************************************************************************)
EXTENDS ThreadMessages

CONSTANTS
    Activity,  \* The rows on the document that a user schedules
    Chaining   \* Those of a type that triggers, with a spec of the next one

ASSUME ActivityAssumption ==
    Chaining \subseteq Activity /\ "none" \notin Activity

VARIABLES
    activity,  \* Each row: "none", "active" or "done"
    next,      \* The activities each row has been followed by
    doing,     \* The row that each worker's call completes, or "none"
    verdict    \* What its archiving UPDATE found: "none", "newly" or "already"

activityVars == <<activity, next, doing, verdict>>

ActivitiesInit ==
    /\ activity = [a \in Activity |-> "none"]
    /\ next = [a \in Activity |-> 0]
    /\ doing = [w \in Worker |-> "none"]
    /\ verdict = [w \in Worker |-> "none"]

-----------------------------------------------------------------------------
Schedule(a) ==
    /\ activity[a] = "none"
    /\ Request
    /\ activity' = [activity EXCEPT ![a] = "active"]
    /\ UNCHANGED <<tables, faults, next, doing, verdict>>

\* The row is read without a lock, done or not, and the note is inserted.
BeginDone(w, a) ==
    /\ doing[w] = "none" /\ activity[a] # "none"
    /\ Request
    /\ doing' = [doing EXCEPT ![w] = a]
    /\ UNCHANGED <<tables, faults, activity, next, verdict>>

\* Another call has archived the row and has not committed.
Archiving(a) == \E w \in Worker : doing[w] = a /\ verdict[w] = "newly"

\* Faulty variant: the activity that was read before decides.
ArchiveStale(w) ==
    /\ doing[w] # "none" /\ verdict[w] = "none"
    /\ verdict' = [verdict EXCEPT ![w] =
                     IF activity[doing[w]] = "active" THEN "newly" ELSE "already"]
    /\ UNCHANGED <<threadVars, activity, next, doing>>

\* UPDATE ... WHERE active, which waits for the row's lock.
ArchiveDone(w) ==
    /\ doing[w] # "none" /\ verdict[w] = "none"
    /\ ~Archiving(doing[w])
    /\ verdict' = [verdict EXCEPT ![w] =
                     IF activity[doing[w]] = "active" THEN "newly" ELSE "already"]
    /\ UNCHANGED <<threadVars, activity, next, doing>>

EndsDone(w) ==
    /\ doing' = [doing EXCEPT ![w] = "none"]
    /\ verdict' = [verdict EXCEPT ![w] = "none"]

CommitNote(w) ==
    /\ MessagePost(doing[w], "document", {})
    /\ EndsDone(w)
    /\ UNCHANGED bounds

CommitDone(w) ==
    /\ verdict[w] = "newly"
    /\ activity' = [activity EXCEPT ![doing[w]] = "done"]
    /\ next' = [next EXCEPT ![doing[w]] = IF doing[w] \in Chaining THEN @ + 1 ELSE @]
    /\ CommitNote(w)

\* A second completion posts its note all the same.
CommitAgain(w) ==
    /\ verdict[w] = "already"
    /\ CommitNote(w)
    /\ UNCHANGED <<activity, next>>

LoseDone(w) ==
    /\ doing[w] # "none"
    /\ Fault
    /\ EndsDone(w)
    /\ UNCHANGED <<tables, work, activity, next>>

-----------------------------------------------------------------------------
Complete(w) == ArchiveDone(w) \/ CommitDone(w) \/ CommitAgain(w)

ActivitiesNext ==
    \/ \E a \in Activity : Schedule(a) \/ \E w \in Worker : BeginDone(w, a)
    \/ \E w \in Worker : Complete(w) \/ LoseDone(w)

-----------------------------------------------------------------------------
ActivitiesTypeOK ==
    /\ activity \in [Activity -> {"none", "active", "done"}]
    /\ next \in [Activity -> Nat]
    /\ doing \in [Worker -> Activity \cup {"none"}]
    /\ verdict \in [Worker -> {"none", "newly", "already"}]

\* An activity is done exactly with its note on the document and, if its type
\* triggers, one successor: repeated and racing completions chain nothing more,
\* and a lost one leaves neither (action_done).
DoneIsWhole ==
    \A a \in Activity :
        /\ activity[a] = "done" => From(a) # {}
        /\ next[a] = IF activity[a] = "done" /\ a \in Chaining THEN 1 ELSE 0

=============================================================================
