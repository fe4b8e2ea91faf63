---------------------------- MODULE StatusLattice ----------------------------
(***************************************************************************)
(* The status vocabularies of the send queues and the guards PostgreSQL    *)
(* puts on every write of them: the shared rank of the monotonic triggers, *)
(* the declared transition tables, and the one map from an sms state to a  *)
(* notification status.  Mind the inverted labels of the source: 'pending' *)
(* reads "Sent" (accepted by the carrier) and 'sent' reads "Delivered".    *)
(***************************************************************************)
EXTENDS Integers

SmsStates ==
    {"outgoing", "process", "pending", "sent", "error", "canceled"}

NotificationStatuses ==
    {"ready", "process", "pending", "sent", "bounce", "exception", "canceled"}

MailStates == {"outgoing", "sent", "received", "exception", "cancel"}

\* messaging.messaging_status_rank: both vocabularies reduce to one lattice.
StatusRank(v) ==
    CASE v \in {"ready", "outgoing"} -> 0
      [] v = "process" -> 1
      [] v = "pending" -> 2
      [] v = "sent" -> 3
      [] v \in {"bounce", "exception", "error", "canceled"} -> 100

\* Faulty variant: the two vocabularies taken for one.
UnmappedStatus(state) == state

\* sms_state_to_notification_status: the identity but for two renamed values.
NotificationStatusOf(state) ==
    CASE state = "error" -> "exception"
      [] state = "outgoing" -> "ready"
      [] OTHER -> state

(***************************************************************************)
(* The declared transitions; a write of any other pair is refused.         *)
(***************************************************************************)
SmsTransitions ==
    ({"outgoing"} \X {"canceled", "process"})
    \cup ({"pending"} \X {"canceled", "error", "sent"})
    \cup ({"process"} \X {"canceled", "error", "outgoing", "pending", "sent"})

NotificationTransitions ==
    ({"exception"} \X {"bounce", "pending"})
    \cup ({"pending"} \X {"bounce", "canceled", "exception", "sent"})
    \cup ({"process"} \X
            {"bounce", "canceled", "exception", "pending", "sent"})
    \cup ({"ready"} \X {"canceled", "exception", "pending", "process", "sent"})

MailTransitions ==
    ({"exception"} \X {"cancel", "outgoing", "sent"})
    \cup ({"outgoing"} \X {"cancel", "exception", "sent"})
    \cup ({"sent"} \X {"received"})

(***************************************************************************)
(* What the triggers let through.  A refused write raises, and the whole   *)
(* transaction it belongs to is rolled back.  The one rank regression an   *)
(* sms row may make is the write that mints its `swept_at` marker.         *)
(***************************************************************************)
SmsWriteAllowed(old, new, mintsSweptAt) ==
    \/ new = old
    \/ /\ <<old, new>> \in SmsTransitions
       /\ StatusRank(new) >= StatusRank(old) \/ mintsSweptAt

NotificationWriteAllowed(old, new) ==
    \/ new = old
    \/ /\ <<old, new>> \in NotificationTransitions
       /\ StatusRank(new) >= StatusRank(old)

MailWriteAllowed(old, new) ==
    \/ new = old
    \/ <<old, new>> \in MailTransitions

\* advance_notification_status writes only where the target outranks the row.
Outranks(target, current) == StatusRank(target) > StatusRank(current)

==============================================================================
