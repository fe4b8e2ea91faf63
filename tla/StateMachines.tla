--------------------------- MODULE StateMachines ---------------------------
(***************************************************************************)
(* The state machines of the entities, whose verbs the transition          *)
(* endpoints take.  Each is the set of its arms, <<from, verb, to>>.  The  *)
(* hand-written SQL never asks them: what the two have in common are the   *)
(* transition tables that the triggers check.                              *)
(***************************************************************************)
EXTENDS StatusLattice, TLAPS

SmsMachine ==
    ({"outgoing"} \X {"pickup"} \X {"process"})
    \cup ({"process"} \X {"iap_accepted"} \X {"pending"})
    \cup ({"process", "pending"} \X {"delivery_confirmed"} \X {"sent"})
    \cup ({"process", "pending"} \X {"send_failed"} \X {"error"})
    \cup ({"process"} \X {"stuck_requeued"} \X {"outgoing"})
    \cup ({"outgoing", "process", "pending"} \X {"canceled"} \X {"canceled"})

NotificationMachine ==
    ({"ready"} \X {"dispatch_started"} \X {"process"})
    \cup ({"process", "exception"} \X {"smtp_accepted"} \X {"pending"})
    \cup ({"pending"} \X {"delivery_confirmed"} \X {"sent"})
    \cup ({"process"} \X {"instant_delivered"} \X {"sent"})
    \cup ({"pending", "process", "exception"} \X {"bounced"} \X {"bounce"})
    \cup ({"process", "pending"} \X {"send_failed"} \X {"exception"})
    \cup ({"ready"} \X {"accepted_unpicked"} \X {"pending"})
    \cup ({"ready"} \X {"delivered_unpicked"} \X {"sent"})
    \cup ({"ready"} \X {"failed_unpicked"} \X {"exception"})
    \cup ({"ready", "process", "pending"} \X {"canceled"} \X {"canceled"})

MailMachine ==
    ({"outgoing", "exception"} \X {"smtp_accepted"} \X {"sent"})
    \cup ({"outgoing"} \X {"smtp_failed"} \X {"exception"})
    \cup ({"sent"} \X {"inbound_acknowledged"} \X {"received"})
    \cup ({"exception"} \X {"requeued"} \X {"outgoing"})
    \cup ({"outgoing", "exception"} \X {"cancelled"} \X {"cancel"})

PresenceMachine ==
    ({"away", "offline"} \X {"go_online"} \X {"online"})
    \cup ({"online", "offline"} \X {"go_away"} \X {"away"})
    \cup ({"online", "away"} \X {"go_offline"} \X {"offline"})

PresenceTransitions ==
    ({"away"} \X {"offline", "online"})
    \cup ({"offline"} \X {"away", "online"})
    \cup ({"online"} \X {"away", "offline"})

Moves(machine) == {<<arm[1], arm[3]>> : arm \in machine}

-----------------------------------------------------------------------------
\* Whatever the machine of an sms lets through is declared to its trigger, and
\* the other way round, so that neither an endpoint nor the SQL of the queue can
\* make a move that the other calls impossible (can_transition,
\* sms_state_transition_check).
THEOREM SmsMachineIsDeclared == Moves(SmsMachine) = SmsTransitions
<1>1. ASSUME NEW arm \in SmsMachine
      PROVE  <<arm[1], arm[3]>> \in SmsTransitions
  BY DEF SmsMachine, SmsTransitions
<1>2. ASSUME NEW move \in SmsTransitions
      PROVE  \E arm \in SmsMachine : move = <<arm[1], arm[3]>>
  <2>1. move = <<move[1], move[2]>>
    BY DEF SmsTransitions
  <2>2. \/ <<move[1], "pickup", move[2]>> \in SmsMachine
        \/ <<move[1], "iap_accepted", move[2]>> \in SmsMachine
        \/ <<move[1], "delivery_confirmed", move[2]>> \in SmsMachine
        \/ <<move[1], "send_failed", move[2]>> \in SmsMachine
        \/ <<move[1], "stuck_requeued", move[2]>> \in SmsMachine
        \/ <<move[1], "canceled", move[2]>> \in SmsMachine
    BY DEF SmsTransitions, SmsMachine
  <2> QED  BY <2>1, <2>2
<1> QED  BY <1>1, <1>2 DEF Moves

\* The machine of a notification and its trigger declare the same moves (can_transition,
\* mail_notifications_notification_status_transition_check).
THEOREM NotificationMachineIsDeclared == Moves(NotificationMachine) = NotificationTransitions
<1>1. ASSUME NEW arm \in NotificationMachine
      PROVE  <<arm[1], arm[3]>> \in NotificationTransitions
  BY DEF NotificationMachine, NotificationTransitions
<1>2. ASSUME NEW move \in NotificationTransitions
      PROVE  \E arm \in NotificationMachine : move = <<arm[1], arm[3]>>
  <2>1. move = <<move[1], move[2]>>
    BY DEF NotificationTransitions
  <2>2. \/ <<move[1], "dispatch_started", move[2]>> \in NotificationMachine
        \/ <<move[1], "smtp_accepted", move[2]>> \in NotificationMachine
        \/ <<move[1], "delivery_confirmed", move[2]>> \in NotificationMachine
        \/ <<move[1], "instant_delivered", move[2]>> \in NotificationMachine
        \/ <<move[1], "bounced", move[2]>> \in NotificationMachine
        \/ <<move[1], "send_failed", move[2]>> \in NotificationMachine
        \/ <<move[1], "accepted_unpicked", move[2]>> \in NotificationMachine
        \/ <<move[1], "delivered_unpicked", move[2]>> \in NotificationMachine
        \/ <<move[1], "failed_unpicked", move[2]>> \in NotificationMachine
        \/ <<move[1], "canceled", move[2]>> \in NotificationMachine
    BY DEF NotificationTransitions, NotificationMachine
  <2> QED  BY <2>1, <2>2
<1> QED  BY <1>1, <1>2 DEF Moves

\* The machine of a mail and its trigger declare the same moves (can_transition,
\* mails_state_transition_check).
THEOREM MailMachineIsDeclared == Moves(MailMachine) = MailTransitions
<1>1. ASSUME NEW arm \in MailMachine
      PROVE  <<arm[1], arm[3]>> \in MailTransitions
  BY DEF MailMachine, MailTransitions
<1>2. ASSUME NEW move \in MailTransitions
      PROVE  \E arm \in MailMachine : move = <<arm[1], arm[3]>>
  <2>1. move = <<move[1], move[2]>>
    BY DEF MailTransitions
  <2>2. \/ <<move[1], "smtp_accepted", move[2]>> \in MailMachine
        \/ <<move[1], "smtp_failed", move[2]>> \in MailMachine
        \/ <<move[1], "inbound_acknowledged", move[2]>> \in MailMachine
        \/ <<move[1], "requeued", move[2]>> \in MailMachine
        \/ <<move[1], "cancelled", move[2]>> \in MailMachine
    BY DEF MailTransitions, MailMachine
  <2> QED  BY <2>1, <2>2
<1> QED  BY <1>1, <1>2 DEF Moves

\* The machine of a presence and its trigger declare the same moves (can_transition,
\* mail_presences_status_transition_check).
THEOREM PresenceMachineIsDeclared == Moves(PresenceMachine) = PresenceTransitions
<1>1. ASSUME NEW arm \in PresenceMachine
      PROVE  <<arm[1], arm[3]>> \in PresenceTransitions
  BY DEF PresenceMachine, PresenceTransitions
<1>2. ASSUME NEW move \in PresenceTransitions
      PROVE  \E arm \in PresenceMachine : move = <<arm[1], arm[3]>>
  <2>1. move = <<move[1], move[2]>>
    BY DEF PresenceTransitions
  <2>2. \/ <<move[1], "go_online", move[2]>> \in PresenceMachine
        \/ <<move[1], "go_away", move[2]>> \in PresenceMachine
        \/ <<move[1], "go_offline", move[2]>> \in PresenceMachine
    BY DEF PresenceTransitions, PresenceMachine
  <2> QED  BY <2>1, <2>2
<1> QED  BY <1>1, <1>2 DEF Moves

\* One arm of the notification's machine can never be taken: the monotonic
\* trigger refuses to bring an exception back to pending.  Every other move that
\* the machine lets through is one that the triggers let through.
THEOREM RefusedArm ==
    \A arm \in NotificationMachine :
        ~NotificationWriteAllowed(arm[1], arm[3]) <=>
            arm = <<"exception", "smtp_accepted", "pending">>
  BY DEF NotificationMachine, NotificationWriteAllowed, NotificationTransitions,
         StatusRank

\* The requeue of a stuck message is the one arm of the sms machine that the
\* triggers refuse to a writer that sets no swept_at marker.
THEOREM RequeueNeedsMarker ==
    \A arm \in SmsMachine :
        ~SmsWriteAllowed(arm[1], arm[3], FALSE) <=> arm[2] = "stuck_requeued"
  BY DEF SmsMachine, SmsWriteAllowed, SmsTransitions, StatusRank

=============================================================================
