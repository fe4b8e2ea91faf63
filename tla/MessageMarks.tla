---------------------------- MODULE MessageMarks ----------------------------
(***************************************************************************)
(* Marks on a message that a call toggles: a reaction, which is keyed by   *)
(* message, identity and content, or a star.  The call deletes the row,    *)
(* and inserts it ON CONFLICT DO NOTHING if there was none to delete.      *)
(***************************************************************************)
EXTENDS Callers

CONSTANT Mark  \* The keys

ASSUME MarksAssumption == "none" \notin Mark

VARIABLES
    marks,     \* The rows
    toggling,  \* The key each worker's call toggles, or "none"
    found,     \* What its last statement did
    told,      \* The state of each key that was answered and announced last
    clashed    \* History: keys that two calls found off at the same time

markVars == <<marks, toggling, found, told, clashed>>

MarksInit ==
    /\ marks = {}
    /\ toggling = [w \in Worker |-> "none"]
    /\ found = [w \in Worker |-> "nothing"]
    /\ told = [k \in Mark |-> FALSE]
    /\ clashed = {}

\* Another call for the key has done one of these and has not committed.
Elsewhere(w, done) ==
    \E v \in Worker \ {w} : toggling[v] = toggling[w] /\ found[v] \in done

-----------------------------------------------------------------------------
Toggle(w, k) ==
    /\ toggling[w] = "none"
    /\ Call
    /\ toggling' = [toggling EXCEPT ![w] = k]
    /\ UNCHANGED <<marks, found, told, clashed>>

\* The DELETE waits for another one, and does not see a row that another call
\* has inserted and not committed.
DeleteMark(w) ==
    LET k == toggling[w] IN
    /\ k # "none" /\ found[w] = "nothing"
    /\ ~Elsewhere(w, {"deleted"})
    /\ found' = [found EXCEPT ![w] = IF k \in marks THEN "deleted" ELSE "missing"]
    /\ clashed' = IF k \notin marks /\ Elsewhere(w, {"missing", "inserted"})
                  THEN clashed \cup {k} ELSE clashed
    /\ UNCHANGED <<calls, marks, toggling, told>>

\* The INSERT waits for both, and then it may find the row there.
InsertMark(w) ==
    /\ found[w] = "missing"
    /\ ~Elsewhere(w, {"deleted", "inserted"})
    /\ found' = [found EXCEPT ![w] = IF toggling[w] \in marks THEN "conflict" ELSE "inserted"]
    /\ UNCHANGED <<calls, marks, toggling, told, clashed>>

EndsToggle(w) ==
    /\ toggling' = [toggling EXCEPT ![w] = "none"]
    /\ found' = [found EXCEPT ![w] = "nothing"]

\* Faulty variant: the call returns from the off arm without a commit.
CommitOn(w) ==
    /\ found[w] \in {"deleted", "inserted", "conflict"}
    /\ marks' = IF found[w] = "inserted" THEN marks \cup {toggling[w]} ELSE marks
    /\ told' = [told EXCEPT ![toggling[w]] = found[w] = "inserted"]
    /\ EndsToggle(w)
    /\ UNCHANGED <<calls, clashed>>

\* The answer, and the event that goes out with the commit, is whether this
\* call has inserted a row.
CommitToggle(w) ==
    /\ found[w] \in {"deleted", "inserted", "conflict"}
    /\ marks' = CASE found[w] = "deleted" -> marks \ {toggling[w]}
                  [] found[w] = "inserted" -> marks \cup {toggling[w]}
                  [] OTHER -> marks
    /\ told' = [told EXCEPT ![toggling[w]] = found[w] = "inserted"]
    /\ EndsToggle(w)
    /\ UNCHANGED <<calls, clashed>>

LoseToggle(w) ==
    /\ toggling[w] # "none"
    /\ EndsToggle(w)
    /\ UNCHANGED <<calls, marks, told, clashed>>

-----------------------------------------------------------------------------
MarksNext ==
    \E w \in Worker :
        \/ \E k \in Mark : Toggle(w, k)
        \/ DeleteMark(w) \/ InsertMark(w) \/ CommitToggle(w) \/ LoseToggle(w)

MarksTypeOK ==
    /\ marks \in SUBSET Mark /\ clashed \in SUBSET Mark
    /\ toggling \in [Worker -> Mark \cup {"none"}]
    /\ found \in [Worker -> {"nothing", "deleted", "missing", "inserted", "conflict"}]
    /\ told \in [Mark -> BOOLEAN]

\* What was announced last of a mark is its state, unless two calls have found
\* it off at the same time: the second to insert announces "off" over a row that
\* stays (toggle, toggle_star).
ToldAsIs == \A k \in Mark \ clashed : told[k] = (k \in marks)

\* The marks implement switches: a toggle that is answered has turned its mark
\* over, however calls for it overlap, but for a mark that two calls have found
\* off at the same time (toggle, toggle_star).
Marks == INSTANCE Switches WITH
    Key <- Mark, on <- marks, shown <- told, muddled <- clashed

MarksSpec == Marks!Spec

=============================================================================
