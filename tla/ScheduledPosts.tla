--------------------------- MODULE ScheduledPosts ---------------------------
(***************************************************************************)
(* Post-later: mail_scheduled_messages and dispatch_due_scheduled.  The    *)
(* dispatch claims the due rows in an outer transaction that it commits    *)
(* last; the permission check, the post and the notice of a failure each   *)
(* run on the pool, and so commit on their own.                            *)
(***************************************************************************)
EXTENDS ThreadMessages

CONSTANTS
    Scheduled,  \* The rows
    ToWall,     \* Those that go to their author's wall, the rest to the document
    Recipients, \* Whom they notify
    Extra       \* Bound: the rows that are armed only after all the others

ASSUME ScheduledAssumption ==
    /\ ToWall \subseteq Scheduled
    /\ Recipients \subseteq Partner
    /\ Extra \subseteq Scheduled
    /\ {"none", "notice"} \cap Scheduled = {}

VARIABLES
    post,         \* Each row: "none", "armed", "due", "cancelled", "dispatched"
    claimed,      \* What each worker's outer transaction has locked
    todo,         \* The part of it that is still to be dispatched
    firing,       \* The row it is at, or "none"
    phase,        \* How far it is with it
    allowed,      \* Whether the author may post on the document
    interrupted,  \* History: rows whose outer transaction was lost
    barred,       \* History: rows first claimed when their author had no permission
    notices,      \* History: the notices of failures, and what became of them
    dropped       \* History: rows whose last notice's transaction failed

noticeVars == <<notices, dropped>>
scheduledVars ==
    <<post, claimed, todo, firing, phase, allowed, interrupted, barred, noticeVars>>

ScheduledInit ==
    /\ post = [r \in Scheduled |-> "none"]
    /\ claimed = [w \in Worker |-> {}] /\ todo = [w \in Worker |-> {}]
    /\ firing = [w \in Worker |-> "none"]
    /\ phase = [w \in Worker |-> "idle"]
    /\ allowed = TRUE /\ interrupted = {} /\ barred = {}
    /\ notices = {} /\ dropped = {}

Locked(r) == \E w \in Worker : r \in claimed[w]

CanPost(r) == r \in ToWall \/ allowed

ThreadOf(r) == IF r \in ToWall THEN "wall" ELSE "document"

-----------------------------------------------------------------------------
(***************************************************************************)
(* The author, the clock and the host's access rules.                      *)
(***************************************************************************)
ArmScheduledMessage(r) ==
    /\ post[r] = "none" /\ CanPost(r)
    /\ r \in Extra => \A q \in Scheduled \ Extra : post[q] # "none"
    /\ Request
    /\ post' = [post EXCEPT ![r] = "armed"]
    /\ UNCHANGED <<tables, faults, claimed, todo, firing, phase, allowed,
                   interrupted, barred, noticeVars>>

FallDue(r) ==
    /\ post[r] = "armed"
    /\ post' = [post EXCEPT ![r] = "due"]
    /\ UNCHANGED <<threadVars, claimed, todo, firing, phase, allowed, interrupted,
                   barred, noticeVars>>

\* The author's row is read FOR UPDATE, which waits for a claim to end.
CancelScheduledMessage(r) ==
    /\ post[r] \in {"armed", "due"} /\ ~Locked(r)
    /\ post' = [post EXCEPT ![r] = "cancelled"]
    /\ UNCHANGED <<threadVars, claimed, todo, firing, phase, allowed, interrupted,
                   barred, noticeVars>>

Revoke ==
    /\ allowed /\ allowed' = FALSE
    /\ UNCHANGED <<threadVars, post, claimed, todo, firing, phase, interrupted,
                   barred, noticeVars>>

-----------------------------------------------------------------------------
(***************************************************************************)
(* The dispatch.                                                           *)
(***************************************************************************)
\* Faulty variant: FOR UPDATE in a transaction of its own, which keeps no lock.
DueUnlocked == {r \in Scheduled : post[r] = "due"}

\* FOR UPDATE SKIP LOCKED; the batch of a hundred is not reached.
DueScheduled == {r \in Scheduled : post[r] = "due" /\ ~Locked(r)}

ClaimScheduled(w) ==
    /\ phase[w] = "idle" /\ DueScheduled # {}
    /\ claimed' = [claimed EXCEPT ![w] = DueScheduled]
    /\ todo' = [todo EXCEPT ![w] = DueScheduled]
    /\ phase' = [phase EXCEPT ![w] = "next"]
    /\ barred' = barred \cup {r \in DueScheduled : ~CanPost(r) /\ From(r) = {}}
    /\ UNCHANGED <<tables, bounds, post, firing, allowed, interrupted, noticeVars>>

\* The next row is deleted in the outer transaction, and its author checked.
CheckPermission(w, r) ==
    /\ phase[w] = "next" /\ r \in todo[w]
    /\ firing' = [firing EXCEPT ![w] = r]
    /\ todo' = [todo EXCEPT ![w] = @ \ {r}]
    /\ phase' = [phase EXCEPT ![w] = IF CanPost(r) THEN "post" ELSE "notice"]
    /\ UNCHANGED <<threadVars, post, claimed, allowed, interrupted, barred,
                   noticeVars>>

PostScheduled(w) ==
    /\ phase[w] = "post"
    /\ MessagePost(firing[w], ThreadOf(firing[w]), Recipients)
    /\ phase' = [phase EXCEPT ![w] = "next"]
    /\ firing' = [firing EXCEPT ![w] = "none"]
    /\ UNCHANGED <<bounds, post, claimed, todo, allowed, interrupted, barred,
                   noticeVars>>

\* Any error of the post is a failure of the row.
PostFails(w) ==
    /\ phase[w] = "post"
    /\ Fault
    /\ phase' = [phase EXCEPT ![w] = "notice"]
    /\ UNCHANGED <<tables, work, post, claimed, todo, firing, allowed,
                   interrupted, barred, noticeVars>>

NoticeEnds(w) ==
    /\ phase[w] = "notice"
    /\ phase' = [phase EXCEPT ![w] = "next"]
    /\ firing' = [firing EXCEPT ![w] = "none"]
    /\ UNCHANGED <<work, post, claimed, todo, allowed, interrupted, barred>>

\* Faulty variant: any message on the wall, whoever wrote it.
AnyWall == On("wall")

\* What the author has written on his own wall; a notice's carrier has no author.
OwnWall == {i \in On("wall") : messages[i].from \in Scheduled}

Latest == {i \in OwnWall : \A j \in OwnWall : j <= i}

\* The notice rides the author's latest wall message, or one minted for it.
Carriers == IF OwnWall = {} THEN {Len(messages) + 1} ELSE Latest

\* The unique index admits one inbox row of the author for a carrier: a second
\* notice on it is refused, and the refusal is swallowed.
NotifyAuthorOfFailure(w) ==
    /\ NoticeEnds(w)
    /\ IF OwnWall = {}
       THEN MessagePost("notice", "wall", {Author})
       ELSE notified' = notified \cup (Carriers \X {Author}) /\ UNCHANGED messages
    /\ notices' = notices \cup
           {[row |-> firing[w], on |-> i, refused |-> <<i, Author>> \in notified] :
                i \in Carriers}
    /\ dropped' = dropped \ {firing[w]}
    /\ UNCHANGED faults

\* Neither is a failure of the notice's own transaction reported.
NoticeFails(w) ==
    /\ NoticeEnds(w)
    /\ Fault
    /\ dropped' = dropped \cup {firing[w]}
    /\ UNCHANGED <<tables, notices>>

EndsDispatch(w) ==
    /\ claimed' = [claimed EXCEPT ![w] = {}]
    /\ todo' = [todo EXCEPT ![w] = {}]
    /\ firing' = [firing EXCEPT ![w] = "none"]
    /\ phase' = [phase EXCEPT ![w] = "idle"]

CommitScheduled(w) ==
    /\ phase[w] = "next" /\ todo[w] = {}
    /\ post' = [r \in Scheduled |-> IF r \in claimed[w] THEN "dispatched" ELSE post[r]]
    /\ EndsDispatch(w)
    /\ UNCHANGED <<tables, bounds, allowed, interrupted, barred, noticeVars>>

\* The task dies, or its outer transaction does: the rows are there again.
LoseClaim(w) ==
    /\ phase[w] # "idle"
    /\ Fault
    /\ interrupted' = interrupted \cup claimed[w]
    /\ EndsDispatch(w)
    /\ UNCHANGED <<tables, work, post, allowed, barred, noticeVars>>

-----------------------------------------------------------------------------
DispatchScheduled(w) ==
    \/ ClaimScheduled(w)
    \/ \E r \in Scheduled : CheckPermission(w, r)
    \/ PostScheduled(w) \/ NotifyAuthorOfFailure(w) \/ CommitScheduled(w)

ScheduledNext ==
    \/ \E r \in Scheduled :
           ArmScheduledMessage(r) \/ FallDue(r) \/ CancelScheduledMessage(r)
    \/ Revoke
    \/ \E w \in Worker :
           DispatchScheduled(w) \/ PostFails(w) \/ NoticeFails(w) \/ LoseClaim(w)

-----------------------------------------------------------------------------
ScheduledTypeOK ==
    /\ post \in [Scheduled -> {"none", "armed", "due", "cancelled", "dispatched"}]
    /\ claimed \in [Worker -> SUBSET Scheduled]
    /\ todo \in [Worker -> SUBSET Scheduled]
    /\ firing \in [Worker -> Scheduled \cup {"none"}]
    /\ phase \in [Worker -> {"idle", "next", "post", "notice"}]
    /\ allowed \in BOOLEAN
    /\ interrupted \in SUBSET Scheduled /\ barred \in SUBSET Scheduled
    /\ notices \in SUBSET [row : Scheduled, on : Nat, refused : BOOLEAN]
    /\ dropped \in SUBSET Scheduled

\* A scheduled message is posted once, or it is cancelled and not posted:
\* SKIP LOCKED and the deletion keep live dispatches and the author's cancel
\* apart, and only a dispatch that had posted and then lost its outer transaction
\* breaks it.  What its author had lost the permission for when it was claimed
\* is not posted at all, however it was armed (dispatch_due_scheduled).
ScheduledFate ==
    \A r \in Scheduled :
        /\ r \notin interrupted => \A i, j \in From(r) : i = j
        /\ r \notin interrupted /\ post[r] = "cancelled" => From(r) = {}
        /\ r \in barred => From(r) = {}

\* Each row implements the one-shot: it posts while it is due and at no other
\* time, and only an interrupted dispatch lets it post again.
Posted == [r \in Scheduled |-> Cardinality(From(r))]

Shot == INSTANCE OneShot WITH
    Row <- Scheduled, fate <- post, effects <- Posted, excused <- interrupted

ShotSpec == Shot!Spec

\* Each row that a dispatch deletes without posting it, barred or failed, has its
\* own notice (notify_author_of_failure), unless the notice's transaction failed.
\* Two notices never share the author's inbox row: one is refused its row only
\* on a message that the author wrote himself and another notice, or the message's
\* own recipients, got to first; with no such message every failure is told.  And
\* of what stands posted the author is not told that it failed.
UnpostedIsNoticed ==
    /\ \A r \in Scheduled :
           post[r] = "dispatched" /\ From(r) = {} /\ r \notin dropped =>
               \E n \in notices : n.row = r
    /\ \A n \in notices :
           /\ n.on \in On("wall") /\ <<n.on, Author>> \in notified
           /\ n.row \notin interrupted => From(n.row) = {}
           /\ ~n.refused => \A m \in notices : m.on = n.on /\ ~m.refused => m = n
           /\ n.refused =>
                  /\ messages[n.on].from \in Scheduled
                  /\ \/ Author \in Recipients
                     \/ \E m \in notices : m.on = n.on /\ ~m.refused

=============================================================================
