------------------------- MODULE HeldNotifications -------------------------
(***************************************************************************)
(* Notify-later: mail_message_schedules and dispatch_due_notify.  One      *)
(* transaction claims the due rows, fans each one's message out to the     *)
(* followers of its thread and deletes the rows, so that one refused       *)
(* insert takes the whole batch back.                                      *)
(***************************************************************************)
EXTENDS ThreadMessages

CONSTANT Held  \* The rows

VARIABLES
    hold,    \* Each row: "none", "armed", "due", "cancelled", "fired"
    target,  \* The message it holds the notifications of, 0 before it is armed
    batch    \* The rows each worker's transaction has locked

heldVars == <<hold, target, batch>>

HeldInit ==
    /\ hold = [h \in Held |-> "none"]
    /\ target = [h \in Held |-> 0]
    /\ batch = [w \in Worker |-> {}]

InBatch(h) == \E w \in Worker : h \in batch[w]

\* The row's foreign key is all that is asked of the message.
ArmNotify(h, i) ==
    /\ hold[h] = "none"
    /\ i \in DOMAIN messages
    /\ Request
    /\ hold' = [hold EXCEPT ![h] = "armed"]
    /\ target' = [target EXCEPT ![h] = i]
    /\ UNCHANGED <<tables, faults, batch>>

FallDueNotify(h) ==
    /\ hold[h] = "armed"
    /\ hold' = [hold EXCEPT ![h] = "due"]
    /\ UNCHANGED <<threadVars, target, batch>>

\* The DELETE waits for the row's lock.
CancelNotify(h) ==
    /\ hold[h] \in {"armed", "due"} /\ ~InBatch(h)
    /\ hold' = [hold EXCEPT ![h] = "cancelled"]
    /\ UNCHANGED <<threadVars, target, batch>>

-----------------------------------------------------------------------------
(***************************************************************************)
(* The dispatch.                                                           *)
(***************************************************************************)
DueNotify == {h \in Held : hold[h] = "due" /\ ~InBatch(h)}

ClaimNotify(w) ==
    /\ batch[w] = {} /\ DueNotify # {}
    /\ batch' = [batch EXCEPT ![w] = DueNotify]
    /\ UNCHANGED <<tables, bounds, hold, target>>

\* The inbox rows of a held message.
FanOut(h) == {target[h]} \X FollowersOf(messages[target[h]].thread)

Twins(h, g) == h # g /\ FanOut(h) \cap FanOut(g) # {}

\* The unique index of a message and a partner refuses an insert: there is
\* such a row already, or another row of the batch inserts it too.
Refused(rows) ==
    \E h \in rows : FanOut(h) \cap notified # {} \/ \E g \in rows : Twins(h, g)

EndsBatch(w) == batch' = [batch EXCEPT ![w] = {}]

\* Faulty variant: a transaction per row, and a refused one deleted all the same.
FireEach(w) ==
    /\ batch[w] # {}
    /\ notified' = notified \cup UNION {FanOut(h) : h \in {g \in batch[w] : ~Refused({g})}}
    /\ hold' = [h \in Held |-> IF h \in batch[w] THEN "fired" ELSE hold[h]]
    /\ EndsBatch(w)
    /\ UNCHANGED <<messages, bounds, target>>

\* Faulty variant: a message whose thread has no followers is passed over.
FireFollowed(w) ==
    /\ batch[w] # {} /\ ~Refused(batch[w])
    /\ notified' = notified \cup UNION {FanOut(h) : h \in batch[w]}
    /\ hold' = [h \in Held |->
                  IF h \in batch[w] /\ FanOut(h) # {} THEN "fired" ELSE hold[h]]
    /\ EndsBatch(w)
    /\ UNCHANGED <<messages, bounds, target>>

FireNotify(w) ==
    /\ batch[w] # {} /\ ~Refused(batch[w])
    /\ notified' = notified \cup UNION {FanOut(h) : h \in batch[w]}
    /\ hold' = [h \in Held |-> IF h \in batch[w] THEN "fired" ELSE hold[h]]
    /\ EndsBatch(w)
    /\ UNCHANGED <<messages, bounds, target>>

\* A refused insert, and the rows are due again.
RefuseNotify(w) ==
    /\ batch[w] # {} /\ Refused(batch[w])
    /\ EndsBatch(w)
    /\ UNCHANGED <<tables, bounds, hold, target>>

\* The task dies, or the database ends its transaction.
LoseBatch(w) ==
    /\ batch[w] # {}
    /\ Fault
    /\ EndsBatch(w)
    /\ UNCHANGED <<tables, work, hold, target>>

-----------------------------------------------------------------------------
DispatchNotify(w) == ClaimNotify(w) \/ FireNotify(w) \/ RefuseNotify(w)

HeldNext ==
    \/ \E h \in Held :
           \/ \E i \in DOMAIN messages : ArmNotify(h, i)
           \/ FallDueNotify(h) \/ CancelNotify(h)
    \/ \E w \in Worker : DispatchNotify(w) \/ LoseBatch(w)

-----------------------------------------------------------------------------
HeldTypeOK ==
    /\ hold \in [Held -> {"none", "armed", "due", "cancelled", "fired"}]
    /\ target \in [Held -> Nat]
    /\ batch \in [Worker -> SUBSET Held]

\* A row that has fired has reached every follower of its message's thread: the
\* batch deletes no row whose fan-out was refused or lost (one transaction in
\* dispatch_due_notify, and the unique index of message and partner).
FiredReachesFollowers ==
    \A h \in Held : hold[h] = "fired" => FanOut(h) \subseteq notified

\* Liveness: the due rows fire or are cancelled, unless one of them holds a
\* message that a follower has a row of: it takes back every batch with it.
Poisoned(h) == Refused({h}) \/ \E g \in Held : hold[g] = "due" /\ Twins(h, g)

HeldIsSettled ==
    (\E h \in Held : hold[h] = "due") ~>
        \/ \A h \in Held : hold[h] # "due"
        \/ \E g \in Held : hold[g] = "due" /\ Poisoned(g)

=============================================================================
