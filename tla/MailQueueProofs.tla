--------------------------- MODULE MailQueueProofs ---------------------------
(***************************************************************************)
(* Theorems about the mail queue, for every set of mails and recipients,   *)
(* every finite set of drainers, every batch size and bound on requeues.   *)
(***************************************************************************)
EXTENDS MailQueue, FiniteSetTheorems, TLAPS

\* A drainer's round trip, when there is one, is about a row.
LEMMA CallRow ==
    ASSUME NEW c \in Calls, c # NoCall
    PROVE  c.row \in Mail /\ c = [row |-> c.row, answer |-> c.answer]
BY MailAssumption DEF Calls, NoCall

-----------------------------------------------------------------------------
(***************************************************************************)
(* Type correctness.                                                       *)
(***************************************************************************)

\* The pump writes enum values.
LEMMA PumpType ==
    ASSUME TypeOK, NEW m \in Mail, NEW target \in {"pending", "exception"},
           AdvanceLinkedNotifications(m, target)
    PROVE  notif' \in [Row -> NotificationStatuses \cup {"none", "reaped"}]
BY DEF TypeOK, AdvanceLinkedNotifications, NotificationStatuses

\* A verdict writes enum values.
LEMMA MarkType ==
    ASSUME TypeOK, NEW m \in Mail, MarkSent(m) \/ MarkFailed(m)
    PROVE  /\ mail' \in [Mail -> MailStates \cup {"none"}]
           /\ failure' \in [Mail -> {"null", "unknown", "reason"}]
           /\ notif' \in [Row -> NotificationStatuses \cup {"none", "reaped"}]
<1>1. CASE MarkSent(m)
  BY <1>1, PumpType DEF MarkSent, TypeOK, MailStates
<1>2. CASE MarkFailed(m)
  BY <1>2, PumpType DEF MarkFailed, TypeOK, MailStates
<1> QED
  BY <1>1, <1>2

\* The type invariant holds initially.
LEMMA InitTypeOK == Init => TypeOK
BY DEF Init, TypeOK, Calls

\* Every step of the queue preserves the type invariant.
LEMMA NextTypeOK == TypeOK /\ [Next]_vars => TypeOK'
<1> SUFFICES ASSUME TypeOK, [Next]_vars PROVE TypeOK'
  OBVIOUS
<1>1. ASSUME NEW m \in Mail, NEW linked \in BOOLEAN, NEW deferred \in BOOLEAN,
             Enqueue(m, linked, deferred)
      PROVE  TypeOK'
  <2>1. due' \in [Mail -> BOOLEAN]
    BY <1>1 DEF TypeOK, Enqueue
  <2>2. notif' \in [Row -> NotificationStatuses \cup {"none", "reaped"}]
    BY <1>1 DEF TypeOK, Enqueue, NotificationStatuses
  <2>3. mail' \in [Mail -> MailStates \cup {"none"}]
    BY <1>1 DEF TypeOK, Enqueue, MailStates
  <2>4. UNCHANGED <<failure, todo, call, accepted, sends, requeues>>
    BY <1>1 DEF Enqueue, drainers
  <2> QED
    BY <2>1, <2>2, <2>3, <2>4 DEF TypeOK
<1>2. ASSUME NEW m \in Mail, FallDue(m) \/ Requeue(m)
      PROVE  TypeOK'
  <2>1. CASE FallDue(m)
    <3>1. due' \in [Mail -> BOOLEAN]
      BY <2>1 DEF TypeOK, FallDue
    <3>2. UNCHANGED <<mail, failure, notif, todo, call, accepted, sends, requeues>>
      BY <2>1 DEF FallDue, drainers
    <3> QED
      BY <3>1, <3>2 DEF TypeOK
  <2>2. CASE Requeue(m)
    <3>1. /\ mail' \in [Mail -> MailStates \cup {"none"}]
          /\ failure' \in [Mail -> {"null", "unknown", "reason"}]
          /\ requeues' \in [Mail -> Nat]
      BY <2>2 DEF TypeOK, Requeue, MailStates
    <3>2. UNCHANGED <<due, notif, todo, call, accepted, sends>>
      BY <2>2 DEF Requeue, drainers
    <3> QED
      BY <3>1, <3>2 DEF TypeOK
  <2> QED
    BY <1>2, <2>1, <2>2
<1>3. ASSUME NEW d \in Drainer, NEW M \in SUBSET Mail, ClaimBatch(d, M)
      PROVE  TypeOK'
  BY <1>3 DEF TypeOK, ClaimBatch, MailStates
<1>4. ASSUME NEW d \in Drainer, NEW m \in Mail, Send(d, m)
      PROVE  TypeOK'
  BY <1>4 DEF TypeOK, Send, database, Calls
<1>5. ASSUME NEW d \in Drainer, NEW m \in Mail, RefuseHeaders(d, m)
      PROVE  TypeOK'
  BY <1>5, MarkType DEF TypeOK, RefuseHeaders
<1>6. ASSUME NEW d \in Drainer, NEW verdict \in Verdicts, NEW taken \in BOOLEAN,
             Answer(d, verdict, taken)
      PROVE  TypeOK'
  <2>1. call[d].row \in Mail /\ [call[d] EXCEPT !.answer = verdict] \in Calls
    BY <1>6, CallRow DEF TypeOK, Answer, Calls
  <2> QED
    BY <1>6, <2>1 DEF TypeOK, Answer, database
<1>7. ASSUME NEW d \in Drainer, LandVerdict(d)
      PROVE  TypeOK'
  <2>1. call[d].row \in Mail
    BY <1>7, CallRow DEF TypeOK, LandVerdict, Answered, NoCall, Verdicts
  <2> QED
    BY <1>7, <2>1, MarkType DEF TypeOK, LandVerdict, Calls
<1>8. ASSUME NEW d \in Drainer, Crash(d)
      PROVE  TypeOK'
  <2>1. accepted' \in [Mail -> BOOLEAN]
    BY <1>8 DEF TypeOK, Crash
  <2> QED
    BY <1>8, <2>1 DEF TypeOK, Crash, database, Calls
<1>9. ASSUME NEW R \in SUBSET Row, NotificationGc(R)
      PROVE  TypeOK'
  BY <1>9 DEF TypeOK, NotificationGc, drainers
<1>10. CASE UNCHANGED vars
  BY <1>10 DEF TypeOK, vars
<1> QED
  BY <1>1, <1>2, <1>3, <1>4, <1>5, <1>6, <1>7, <1>8, <1>9, <1>10
  DEF Next, DrainStep

\* The type invariant: every column keeps an enum value and a drainer's memory
\* refers to rows, whatever the interleaving.
THEOREM TypeCorrect == Spec => []TypeOK
BY InitTypeOK, NextTypeOK, PTL DEF Spec

-----------------------------------------------------------------------------
(***************************************************************************)
(* The number of sends.  What counts against a mail's budget is each send  *)
(* made, each claim a drainer still has to send, and the claim that a row  *)
(* not yet taken is good for; only a human's requeue adds to the budget.   *)
(***************************************************************************)
Waiting(m) == {d \in Drainer : m \in todo[d]}

Claimable(m) == IF mail[m] \in {"none", "outgoing"} THEN 1 ELSE 0

SendBudget ==
    \A m \in Mail : sends[m] + Cardinality(Waiting(m)) + Claimable(m) <= 1 + requeues[m]

\* The drainers that wait to send a mail are a finite set.
LEMMA WaitingFinite ==
    \A m : IsFiniteSet(Waiting(m)) /\ Cardinality(Waiting(m)) \in Nat
<1> TAKE m
<1>1. Waiting(m) \subseteq Drainer
  BY DEF Waiting
<1> QED
  BY <1>1, MailAssumption, FS_Subset, FS_CardinalityType

\* A step that gives no drainer new work keeps the budget of a mail, as long
\* as it neither sends the mail nor makes it claimable.
LEMMA BudgetKept ==
    ASSUME TypeOK, TypeOK', SendBudget, NEW m \in Mail,
           \A d \in Drainer : m \in todo'[d] => m \in todo[d],
           sends'[m] = sends[m], requeues'[m] = requeues[m],
           Claimable(m)' <= Claimable(m)
    PROVE  sends'[m] + Cardinality(Waiting(m)') + Claimable(m)' <= 1 + requeues'[m]
<1>1. Waiting(m)' \subseteq Waiting(m)
  BY DEF Waiting
<1>2. Cardinality(Waiting(m)') <= Cardinality(Waiting(m))
  BY <1>1, WaitingFinite, FS_Subset
<1>3. Cardinality(Waiting(m)') \in Nat /\ Cardinality(Waiting(m)) \in Nat
  BY <1>1, WaitingFinite, FS_Subset, FS_CardinalityType
<1> QED
  BY <1>2, <1>3 DEF SendBudget, TypeOK, Claimable

\* No verdict makes a mail claimable.
LEMMA MarkNotClaimable ==
    ASSUME TypeOK, NEW r \in Mail, MarkSent(r) \/ MarkFailed(r), NEW m \in Mail
    PROVE  Claimable(m)' <= Claimable(m)
BY DEF MarkSent, MarkFailed, AwaitsVerdict, Claimable, TypeOK

\* Every step keeps every mail within its budget.
LEMMA NextBudget == TypeOK /\ SendBudget /\ [Next]_vars => SendBudget'
<1> SUFFICES ASSUME TypeOK, TypeOK', SendBudget, [Next]_vars, NEW m \in Mail
             PROVE  sends'[m] + Cardinality(Waiting(m)') + Claimable(m)'
                        <= 1 + requeues'[m]
  BY NextTypeOK DEF SendBudget
<1> DEFINE Goal == sends'[m] + Cardinality(Waiting(m)') + Claimable(m)'
                       <= 1 + requeues'[m]
<1>1. ASSUME NEW r \in Mail, NEW linked \in BOOLEAN, NEW deferred \in BOOLEAN,
             Enqueue(r, linked, deferred)
      PROVE  Goal
  BY <1>1, BudgetKept DEF Enqueue, drainers, Claimable, TypeOK
<1>2. ASSUME NEW r \in Mail, FallDue(r)
      PROVE  Goal
  BY <1>2, BudgetKept DEF FallDue, drainers, Claimable
<1>3. ASSUME NEW r \in Mail, Requeue(r)
      PROVE  Goal
  <2>1. CASE m = r
    <3>1. Waiting(m)' = Waiting(m) /\ sends' = sends
      BY <1>3 DEF Requeue, drainers, Waiting
    <3>2. requeues'[m] = requeues[m] + 1 /\ Claimable(m) = 0 /\ Claimable(m)' = 1
      BY <1>3, <2>1 DEF Requeue, Claimable, TypeOK
    <3> QED
      BY <3>1, <3>2, WaitingFinite DEF SendBudget, TypeOK
  <2>2. CASE m # r
    BY <1>3, <2>2, BudgetKept DEF Requeue, drainers, Claimable, TypeOK
  <2> QED
    BY <2>1, <2>2
<1>4. ASSUME NEW d \in Drainer, NEW M \in SUBSET Mail, ClaimBatch(d, M)
      PROVE  Goal
  <2>1. CASE m \in M
    <3>1. d \notin Waiting(m) /\ Waiting(m)' = Waiting(m) \cup {d}
      BY <1>4, <2>1 DEF ClaimBatch, Idle, Waiting, TypeOK
    <3>2. Cardinality(Waiting(m)') = Cardinality(Waiting(m)) + 1
      BY <3>1, WaitingFinite, FS_AddElement
    <3>3. Claimable(m) = 1 /\ Claimable(m)' = 0
      BY <1>4, <2>1 DEF ClaimBatch, Claimable
    <3>4. sends' = sends /\ requeues' = requeues
      BY <1>4 DEF ClaimBatch
    <3> QED
      BY <3>2, <3>3, <3>4, WaitingFinite DEF SendBudget, TypeOK
  <2>2. CASE m \notin M
    BY <1>4, <2>2, BudgetKept DEF ClaimBatch, Claimable, TypeOK
  <2> QED
    BY <2>1, <2>2
<1>5. ASSUME NEW d \in Drainer, NEW r \in Mail, Send(d, r)
      PROVE  Goal
  <2>1. CASE m = r
    <3>1. d \in Waiting(m) /\ Waiting(m)' = Waiting(m) \ {d}
      BY <1>5, <2>1 DEF Send, Waiting, TypeOK
    <3>2. Cardinality(Waiting(m)') = Cardinality(Waiting(m)) - 1
      BY <3>1, WaitingFinite, FS_RemoveElement
    <3>3. sends'[m] = sends[m] + 1 /\ requeues' = requeues
      BY <1>5, <2>1 DEF Send, TypeOK
    <3>4. Claimable(m)' = Claimable(m)
      BY <1>5 DEF Send, database, Claimable
    <3> QED
      BY <3>2, <3>3, <3>4, WaitingFinite DEF SendBudget, TypeOK, Claimable
  <2>2. CASE m # r
    BY <1>5, <2>2, BudgetKept DEF Send, database, Claimable, TypeOK
  <2> QED
    BY <2>1, <2>2
<1>6. ASSUME NEW d \in Drainer, NEW r \in Mail, RefuseHeaders(d, r)
      PROVE  Goal
  BY <1>6, MarkNotClaimable, BudgetKept DEF RefuseHeaders, TypeOK
<1>7. ASSUME NEW d \in Drainer, NEW verdict \in Verdicts, NEW taken \in BOOLEAN,
             Answer(d, verdict, taken)
      PROVE  Goal
  BY <1>7, BudgetKept DEF Answer, database, Claimable
<1>8. ASSUME NEW d \in Drainer, LandVerdict(d)
      PROVE  Goal
  <2>1. call[d].row \in Mail
    BY <1>8, CallRow DEF TypeOK, LandVerdict, Answered, NoCall, Verdicts
  <2>2. Claimable(m)' <= Claimable(m)
    BY <1>8, <2>1, MarkNotClaimable DEF LandVerdict
  <2> QED
    BY <1>8, <2>2, BudgetKept DEF LandVerdict
<1>9. ASSUME NEW d \in Drainer, Crash(d)
      PROVE  Goal
  BY <1>9, BudgetKept DEF Crash, database, Claimable, TypeOK
<1>10. ASSUME NEW R \in SUBSET Row, NotificationGc(R)
       PROVE  Goal
  BY <1>10, BudgetKept DEF NotificationGc, drainers, Claimable
<1>11. CASE UNCHANGED vars
  BY <1>11, BudgetKept DEF vars, Claimable
<1> QED
  BY <1>1, <1>2, <1>3, <1>4, <1>5, <1>6, <1>7, <1>8, <1>9, <1>10, <1>11
  DEF Next, DrainStep

\* The budget holds initially: one claim to come, and nobody at work.
LEMMA InitBudget == Init => SendBudget
<1> SUFFICES ASSUME Init, NEW m \in Mail
             PROVE  sends[m] + Cardinality(Waiting(m)) + Claimable(m) <= 1 + requeues[m]
  BY DEF SendBudget
<1>1. Waiting(m) = {}
  BY DEF Init, Waiting
<1> QED
  BY <1>1, FS_EmptySet DEF Init, Claimable

\* Every attempt beyond the first was asked for by a human.
THEOREM NeverSilentlyRetriedHolds == Spec => []NeverSilentlyRetried
<1>1. TypeOK /\ SendBudget => NeverSilentlyRetried
  <2> SUFFICES ASSUME TypeOK, SendBudget, NEW m \in Mail
               PROVE  sends[m] <= 1 + requeues[m]
    BY DEF NeverSilentlyRetried
  <2> QED
    BY WaitingFinite DEF SendBudget, Claimable, TypeOK
<1> QED
  BY <1>1, InitTypeOK, NextTypeOK, InitBudget, NextBudget, PTL DEF Spec

\* No crash, verdict or race leaves a mail claimable that was tried already,
\* unless a human put it back.
THEOREM ClaimableIsOwedHolds == Spec => []ClaimableIsOwed
<1>1. TypeOK /\ SendBudget => ClaimableIsOwed
  <2> SUFFICES ASSUME TypeOK, SendBudget, NEW m \in Mail, mail[m] = "outgoing"
               PROVE  sends[m] + Cardinality(Waiting(m)) <= requeues[m]
    BY DEF ClaimableIsOwed, Waiting
  <2> QED
    BY WaitingFinite DEF SendBudget, Claimable, TypeOK
<1> QED
  BY <1>1, InitTypeOK, NextTypeOK, InitBudget, NextBudget, PTL DEF Spec

-----------------------------------------------------------------------------
(***************************************************************************)
(* Rows, failures and badges.  A mail that was never enqueued has no       *)
(* badge, and the queue's verdicts leave a badge three statuses to show.   *)
(***************************************************************************)
BadgeValues ==
    \A r \in Row : notif[r] \in {"none", "reaped", "ready", "pending", "exception"}

UnbornIsBlank ==
    \A m \in Mail : mail[m] = "none" => \A r \in Linked(m) : notif[r] = "none"

BadgeInv ==
    BadgeValues /\ UnbornIsBlank /\ FailureIsDiagnosable /\ BadgesFollowVerdict

\* What a linked badge shows after a verdict's pump, and that no other moves.
LEMMA PumpedBadge ==
    ASSUME BadgeValues, NEW m \in Mail, NEW target \in {"pending", "exception"},
           AdvanceLinkedNotifications(m, target), NEW r \in Row
    PROVE  /\ r \notin Linked(m) => notif'[r] = notif[r]
           /\ notif'[r] \in {"none", "reaped", "ready", "pending", "exception"}
           /\ notif[r] = "none" => notif'[r] = "none"
           /\ r \in Linked(m) /\ notif'[r] \in NotificationStatuses =>
                  notif'[r] \in {target, "exception"}
<1>1. notif'[r] = IF r \in Linked(m) /\ Advances(r, target) THEN target ELSE notif[r]
  BY DEF AdvanceLinkedNotifications
<1>2. /\ StatusRank("ready") = 0 /\ StatusRank("pending") = 2
      /\ StatusRank("exception") = 100
  BY DEF StatusRank
<1>3. Advances(r, target) => notif[r] \in {"ready", "pending"}
  BY <1>2 DEF Advances, Outranks, NotificationStatuses, BadgeValues
<1>4. notif[r] = "ready" => Advances(r, target)
  BY <1>2 DEF Advances, Outranks, NotificationStatuses
<1>5. notif[r] = "pending" /\ target = "exception" => Advances(r, target)
  BY <1>2 DEF Advances, Outranks, NotificationStatuses
<1> QED
  BY <1>1, <1>3, <1>4, <1>5 DEF BadgeValues, NotificationStatuses

\* A badge belongs to one mail.
LEMMA LinkedDisjoint ==
    ASSUME NEW m \in Mail, NEW k \in Mail, NEW r \in Linked(m), r \in Linked(k)
    PROVE  m = k /\ r \in Row
BY DEF Linked, Row

\* Both verdicts keep rows, failures and badges in step.
LEMMA MarkBadge ==
    ASSUME TypeOK, BadgeInv, NEW k \in Mail, mail[k] # "none",
           MarkSent(k) \/ MarkFailed(k)
    PROVE  BadgeInv'
<1>1. CASE UNCHANGED <<mail, failure, notif>>
  BY <1>1
  DEF BadgeInv, BadgeValues, UnbornIsBlank, FailureIsDiagnosable, BadgesFollowVerdict
<1>2. ASSUME NEW state \in {"sent", "exception"}, NEW target, NEW why,
             state = "sent" => target = "pending" /\ why = "null",
             state = "exception" => target = "exception" /\ why = "reason",
             mail' = [mail EXCEPT ![k] = state],
             failure' = [failure EXCEPT ![k] = why],
             AdvanceLinkedNotifications(k, target)
      PROVE  BadgeInv'
  <2>1. target \in {"pending", "exception"}
    BY <1>2
  <2>2. BadgeValues'
    BY <1>2, <2>1, PumpedBadge DEF BadgeInv, BadgeValues
  <2>3. UnbornIsBlank'
    BY <1>2, <2>1, PumpedBadge, LinkedDisjoint DEF BadgeInv, UnbornIsBlank, TypeOK
  <2>4. FailureIsDiagnosable'
    BY <1>2 DEF BadgeInv, FailureIsDiagnosable, TypeOK
  <2>5. BadgesFollowVerdict'
    <3> SUFFICES ASSUME NEW m \in Mail, NEW r \in Linked(m),
                        notif'[r] \in NotificationStatuses
                 PROVE  /\ mail'[m] = "sent" => notif'[r] \in {"pending", "exception"}
                        /\ failure'[m] = "reason" => notif'[r] = "exception"
      BY DEF BadgesFollowVerdict
    <3>1. r \in Row
      BY LinkedDisjoint
    <3>2. CASE m = k
      BY <1>2, <2>1, <3>1, <3>2, PumpedBadge DEF BadgeInv, TypeOK
    <3>3. CASE m # k
      <4>1. notif'[r] = notif[r]
        BY <1>2, <2>1, <3>1, <3>3, PumpedBadge, LinkedDisjoint DEF BadgeInv
      <4> QED
        BY <1>2, <3>3, <4>1 DEF BadgeInv, BadgesFollowVerdict, TypeOK
    <3> QED
      BY <3>2, <3>3
  <2> QED
    BY <2>2, <2>3, <2>4, <2>5 DEF BadgeInv
<1>3. CASE MarkSent(k)
  BY <1>1, <1>2, <1>3 DEF MarkSent
<1>4. CASE MarkFailed(k)
  BY <1>1, <1>2, <1>4 DEF MarkFailed
<1> QED
  BY <1>3, <1>4

\* A drainer only ever holds enqueued mails, and a mail once enqueued stays.
HeldIsEnqueued ==
    \A d \in Drainer, m \in Mail : m \in todo[d] \/ call[d].row = m => mail[m] # "none"

\* Every step keeps the drainers' rows enqueued.
LEMMA NextHeld == TypeOK /\ HeldIsEnqueued /\ [Next]_vars => HeldIsEnqueued'
<1> SUFFICES ASSUME TypeOK, HeldIsEnqueued, [Next]_vars
             PROVE  HeldIsEnqueued'
  OBVIOUS
<1> DEFINE Held(d, m) == m \in todo[d] \/ call[d].row = m
<1>1. \A m \in Mail : mail[m] # "none" => mail'[m] # "none"
  BY DEF Next, DrainStep, vars, Enqueue, FallDue, ClaimBatch, Send, Answer, MarkSent,
         MarkFailed, LandVerdict, RefuseHeaders, Crash, Requeue, NotificationGc,
         database, TypeOK
<1>2. \A d \in Drainer, m \in Mail : Held(d, m)' =>
          Held(d, m) \/ mail'[m] = "exception"
  BY MailAssumption
  DEF Next, DrainStep, vars, Enqueue, FallDue, ClaimBatch, Send, Answer, LandVerdict,
      RefuseHeaders, Crash, Requeue, NotificationGc, drainers, TypeOK, NoCall, Calls
<1> QED
  BY <1>1, <1>2 DEF HeldIsEnqueued

\* Every step keeps rows, failures and badges in step.
LEMMA NextBadgeInv ==
    TypeOK /\ HeldIsEnqueued /\ BadgeInv /\ [Next]_vars => BadgeInv'
<1> SUFFICES ASSUME TypeOK, HeldIsEnqueued, BadgeInv, [Next]_vars
             PROVE  BadgeInv'
  OBVIOUS
<1> USE DEF BadgeInv
<1>1. ASSUME NEW m \in Mail, NEW linked \in BOOLEAN, NEW deferred \in BOOLEAN,
             Enqueue(m, linked, deferred)
      PROVE  BadgeInv'
  <2>1. \A r \in Row : \/ notif'[r] = notif[r]
                       \/ r \in Linked(m) /\ notif'[r] = "ready"
    BY <1>1 DEF Enqueue
  <2>2. /\ \A k \in Mail : k # m => mail'[k] = mail[k]
        /\ mail'[m] = "outgoing" /\ mail[m] = "none" /\ failure' = failure
    BY <1>1 DEF Enqueue, TypeOK
  <2>3. BadgeValues'
    BY <2>1 DEF BadgeValues
  <2>4. UnbornIsBlank'
    BY <2>1, <2>2, LinkedDisjoint DEF UnbornIsBlank
  <2>5. FailureIsDiagnosable'
    BY <2>2 DEF FailureIsDiagnosable
  <2>6. failure[m] = "null"
    BY <2>2 DEF FailureIsDiagnosable
  <2>7. BadgesFollowVerdict'
    BY <2>1, <2>2, <2>6, LinkedDisjoint DEF BadgesFollowVerdict
  <2> QED
    BY <2>3, <2>4, <2>5, <2>7
<1>2. ASSUME NEW d \in Drainer, NEW M \in SUBSET Mail, ClaimBatch(d, M)
      PROVE  BadgeInv'
  BY <1>2
  DEF ClaimBatch, TypeOK, BadgeValues, UnbornIsBlank, FailureIsDiagnosable,
      BadgesFollowVerdict
<1>3. ASSUME NEW m \in Mail, Requeue(m)
      PROVE  BadgeInv'
  BY <1>3
  DEF Requeue, TypeOK, BadgeValues, UnbornIsBlank, FailureIsDiagnosable,
      BadgesFollowVerdict
<1>4. ASSUME NEW d \in Drainer, NEW m \in Mail, RefuseHeaders(d, m)
      PROVE  BadgeInv'
  BY <1>4, MarkBadge DEF RefuseHeaders, HeldIsEnqueued
<1>5. ASSUME NEW d \in Drainer, LandVerdict(d)
      PROVE  BadgeInv'
  <2>1. call[d].row \in Mail
    BY <1>5, CallRow DEF TypeOK, LandVerdict, Answered, NoCall, Verdicts
  <2> QED
    BY <1>5, <2>1, MarkBadge DEF LandVerdict, HeldIsEnqueued
<1>6. ASSUME NEW R \in SUBSET Row, NotificationGc(R)
      PROVE  BadgeInv'
  <2>1. \A r \in Row : \/ notif'[r] = notif[r]
                       \/ notif[r] \in NotificationStatuses /\ notif'[r] = "reaped"
    BY <1>6 DEF NotificationGc
  <2>2. mail' = mail /\ failure' = failure
    BY <1>6 DEF NotificationGc
  <2>3. BadgeValues' /\ FailureIsDiagnosable'
    BY <2>1, <2>2 DEF BadgeValues, FailureIsDiagnosable
  <2>4. UnbornIsBlank' /\ BadgesFollowVerdict'
    BY <2>1, <2>2, LinkedDisjoint
    DEF UnbornIsBlank, BadgesFollowVerdict, NotificationStatuses
  <2> QED
    BY <2>3, <2>4
<1>7. CASE UNCHANGED <<mail, failure, notif>>
  BY <1>7
  DEF BadgeValues, UnbornIsBlank, FailureIsDiagnosable, BadgesFollowVerdict
<1> QED
  BY <1>1, <1>2, <1>3, <1>4, <1>5, <1>6, <1>7
  DEF Next, DrainStep, vars, database, FallDue, Send, Answer, Crash

\* The invariants above hold of every reachable state.
LEMMA InitBadgeInv == Init => HeldIsEnqueued /\ BadgeInv
BY MailAssumption
DEF Init, HeldIsEnqueued, NoCall, BadgeInv, BadgeValues, UnbornIsBlank,
    FailureIsDiagnosable, BadgesFollowVerdict, Linked, Row, NotificationStatuses

\* The invariants together, as one fact about every behaviour.
LEMMA BadgeInvariant == Spec => [](TypeOK /\ HeldIsEnqueued /\ BadgeInv)
BY InitTypeOK, NextTypeOK, InitBadgeInv, NextHeld, NextBadgeInv, PTL DEF Spec

\* A failed row always says why, through every crash, verdict and requeue.
THEOREM FailureIsDiagnosableHolds == Spec => []FailureIsDiagnosable
BY BadgeInvariant, PTL DEF BadgeInv

\* The badges of a mail follow the verdict on it.
THEOREM BadgesFollowVerdictHolds == Spec => []BadgesFollowVerdict
BY BadgeInvariant, PTL DEF BadgeInv

\* No verdict, however late, meets a transition the triggers refuse.
THEOREM VerdictNeverRefusedHolds == Spec => []VerdictNeverRefused
<1>1. TypeOK /\ BadgeInv => VerdictNeverRefused
  <2> SUFFICES ASSUME BadgeInv, NEW m \in Mail, NEW v \in {"sent", "exception"},
                      AwaitsVerdict(m)
               PROVE  /\ MailWriteAllowed(mail[m], v)
                      /\ \A r \in Linked(m) :
                           LET target == IF v = "sent" THEN "pending" ELSE v
                           IN  Advances(r, target) =>
                                   NotificationWriteAllowed(notif[r], target)
    BY DEF VerdictNeverRefused
  <2>1. MailWriteAllowed(mail[m], v)
    BY DEF AwaitsVerdict, MailWriteAllowed, MailTransitions
  <2>2. ASSUME NEW r \in Linked(m), NEW target \in {"pending", "exception"},
               Advances(r, target)
        PROVE  NotificationWriteAllowed(notif[r], target)
    <3>1. notif[r] \in {"ready", "pending", "exception"}
      BY <2>2, LinkedDisjoint DEF BadgeInv, BadgeValues, Advances, NotificationStatuses
    <3> QED
      BY <2>2, <3>1
      DEF Advances, Outranks, NotificationWriteAllowed, NotificationTransitions,
          StatusRank
  <2> QED
    BY <2>1, <2>2
<1> QED
  BY <1>1, BadgeInvariant, PTL


-----------------------------------------------------------------------------
(***************************************************************************)
(* The truth of "Sent".  A drainer that brings home a 250 has seen the     *)
(* server take the copy, and nothing is ever un-taken.                     *)
(***************************************************************************)
AnswersAreTrue ==
    \A d \in Drainer : call[d].answer = "Sent" => accepted[call[d].row]

SentInv == AnswersAreTrue /\ SentIsTrue

\* A verdict keeps "Sent" true if it is a true one.
LEMMA MarkSentInv ==
    ASSUME TypeOK, BadgeInv, SentIsTrue, NEW k \in Mail, UNCHANGED accepted,
           \/ MarkSent(k) /\ accepted[k]
           \/ MarkFailed(k)
    PROVE  SentIsTrue'
<1> SUFFICES ASSUME NEW m \in Mail,
                    mail'[m] = "sent" \/ \E r \in Linked(m) : notif'[r] = "pending"
             PROVE  accepted[m]
  BY DEF SentIsTrue
<1>1. CASE UNCHANGED <<mail, notif>>
  BY <1>1 DEF SentIsTrue
<1>2. ASSUME NEW state \in {"sent", "exception"}, NEW target,
             state = "sent" => target = "pending" /\ accepted[k],
             state = "exception" => target = "exception",
             mail' = [mail EXCEPT ![k] = state],
             AdvanceLinkedNotifications(k, target)
      PROVE  accepted[m]
  <2>1. CASE mail'[m] = "sent"
    BY <1>2, <2>1 DEF SentIsTrue, TypeOK
  <2>2. ASSUME NEW r \in Linked(m), notif'[r] = "pending"
        PROVE  accepted[m]
    <3>1. r \in Row
      BY LinkedDisjoint
    <3>2. notif[r] = "pending" \/ (r \in Linked(k) /\ target = "pending")
      BY <1>2, <2>2, <3>1 DEF AdvanceLinkedNotifications
    <3> QED
      BY <1>2, <3>2, LinkedDisjoint DEF SentIsTrue
  <2> QED
    BY <2>1, <2>2
<1>3. CASE MarkSent(k) /\ accepted[k]
  BY <1>1, <1>2, <1>3 DEF MarkSent
<1>4. CASE MarkFailed(k)
  BY <1>1, <1>2, <1>4 DEF MarkFailed
<1> QED
  BY <1>3, <1>4

\* Every step keeps "Sent" true.
LEMMA NextSentInv == TypeOK /\ BadgeInv /\ SentInv /\ [Next]_vars => SentInv'
<1> SUFFICES ASSUME TypeOK, BadgeInv, SentInv, [Next]_vars
             PROVE  SentInv'
  OBVIOUS
<1> USE DEF SentInv
<1>1. ASSUME NEW m \in Mail, NEW linked \in BOOLEAN, NEW deferred \in BOOLEAN,
             Enqueue(m, linked, deferred)
      PROVE  SentInv'
  <2>1. AnswersAreTrue'
    BY <1>1 DEF Enqueue, drainers, AnswersAreTrue
  <2>2. \A k \in Mail : mail'[k] = "sent" => mail[k] = "sent"
    BY <1>1 DEF Enqueue, TypeOK
  <2>3. \A k \in Mail : \A r \in Linked(k) :
            notif'[r] = "pending" => notif[r] = "pending"
    BY <1>1, LinkedDisjoint DEF Enqueue
  <2> QED
    BY <1>1, <2>1, <2>2, <2>3 DEF Enqueue, SentIsTrue
<1>2. ASSUME NEW d \in Drainer, NEW M \in SUBSET Mail, ClaimBatch(d, M)
      PROVE  SentInv'
  BY <1>2 DEF ClaimBatch, TypeOK, AnswersAreTrue, SentIsTrue
<1>3. ASSUME NEW m \in Mail, Requeue(m)
      PROVE  SentInv'
  BY <1>3 DEF Requeue, drainers, TypeOK, AnswersAreTrue, SentIsTrue
<1>4. ASSUME NEW d \in Drainer, NEW m \in Mail, RefuseHeaders(d, m)
      PROVE  SentInv'
  BY <1>4, MarkSentInv DEF RefuseHeaders, AnswersAreTrue
<1>5. ASSUME NEW d \in Drainer, LandVerdict(d)
      PROVE  SentInv'
  <2>1. call[d].row \in Mail
    BY <1>5, CallRow DEF TypeOK, LandVerdict, Answered, NoCall, Verdicts
  <2>2. AnswersAreTrue'
    BY <1>5 DEF LandVerdict, AnswersAreTrue, TypeOK, NoCall
  <2>3. SentIsTrue'
    BY <1>5, <2>1, MarkSentInv DEF LandVerdict, AnswersAreTrue
  <2> QED
    BY <2>2, <2>3
<1>6. ASSUME NEW R \in SUBSET Row, NotificationGc(R)
      PROVE  SentInv'
  <2>1. \A k \in Mail : \A r \in Linked(k) :
            notif'[r] = "pending" => notif[r] = "pending"
    BY <1>6, LinkedDisjoint DEF NotificationGc
  <2> QED
    BY <1>6, <2>1 DEF NotificationGc, drainers, AnswersAreTrue, SentIsTrue
<1>7. ASSUME NEW d \in Drainer, NEW m \in Mail, Send(d, m)
      PROVE  SentInv'
  BY <1>7 DEF Send, database, TypeOK, AnswersAreTrue, SentIsTrue
<1>8. ASSUME NEW d \in Drainer, NEW verdict \in Verdicts, NEW taken \in BOOLEAN,
             Answer(d, verdict, taken)
      PROVE  SentInv'
  <2>1. call[d].row \in Mail
    BY <1>8, CallRow DEF TypeOK, Answer
  <2>2. /\ \A m \in Mail : accepted[m] => accepted'[m]
        /\ verdict = "Sent" => accepted'[call[d].row]
    BY <1>8, <2>1 DEF Answer, TypeOK
  <2>3. \A e \in Drainer : call'[e].row = call[e].row /\ (e # d => call'[e] = call[e])
    BY <1>8 DEF Answer, TypeOK, Calls, NoCall
  <2>4. call'[d].answer = verdict
    BY <1>8, <2>1, CallRow DEF Answer, TypeOK
  <2>5. AnswersAreTrue'
    <3> SUFFICES ASSUME NEW e \in Drainer, call'[e].answer = "Sent"
                 PROVE  accepted'[call'[e].row]
      BY DEF AnswersAreTrue
    <3>1. CASE e = d
      BY <2>2, <2>3, <2>4, <3>1
    <3>2. CASE e # d
      <4>1. call[e].row \in Mail
        BY <2>3, <3>2, CallRow DEF TypeOK, NoCall
      <4> QED
        BY <2>2, <2>3, <3>2, <4>1 DEF AnswersAreTrue
    <3> QED
      BY <3>1, <3>2
  <2>6. SentIsTrue'
    BY <1>8, <2>2 DEF Answer, database, SentIsTrue
  <2> QED
    BY <2>5, <2>6
<1>9. ASSUME NEW d \in Drainer, Crash(d)
      PROVE  SentInv'
  <2>1. \A m \in Mail : accepted[m] => accepted'[m]
    BY <1>9 DEF Crash, TypeOK
  <2>2. \A e \in Drainer : call'[e] = call[e] \/ call'[e] = NoCall
    BY <1>9 DEF Crash, TypeOK
  <2>3. AnswersAreTrue'
    <3> SUFFICES ASSUME NEW e \in Drainer, call'[e].answer = "Sent"
                 PROVE  accepted'[call'[e].row]
      BY DEF AnswersAreTrue
    <3>1. call'[e] = call[e]
      BY <2>2 DEF NoCall
    <3>2. call[e].row \in Mail
      BY <3>1, CallRow DEF TypeOK, NoCall
    <3> QED
      BY <2>1, <3>1, <3>2 DEF AnswersAreTrue
  <2> QED
    BY <1>9, <2>1, <2>3 DEF Crash, database, SentIsTrue
<1>10. CASE UNCHANGED <<mail, notif, call, accepted>>
  BY <1>10 DEF AnswersAreTrue, SentIsTrue
<1> QED
  BY <1>1, <1>2, <1>3, <1>4, <1>5, <1>6, <1>7, <1>8, <1>9, <1>10
  DEF Next, DrainStep, vars, FallDue, drainers

\* No row and no badge says "Sent" of a mail no server took a copy of.
THEOREM SentIsTrueHolds == Spec => []SentIsTrue
<1>1. Init => SentInv
  BY LinkedDisjoint DEF Init, SentInv, AnswersAreTrue, SentIsTrue, NoCall
<1>2. Spec => [](TypeOK /\ BadgeInv /\ SentInv)
  BY <1>1, InitTypeOK, NextTypeOK, InitBadgeInv, NextHeld, NextBadgeInv,
     NextSentInv, PTL DEF Spec
<1> QED
  BY <1>2, PTL DEF SentInv

-----------------------------------------------------------------------------
(***************************************************************************)
(* Finality, and the abstract badge.                                       *)
(***************************************************************************)

\* Both verdicts leave a sent mail alone.
LEMMA MarkKeepsSent ==
    ASSUME TypeOK, NEW k \in Mail, MarkSent(k) \/ MarkFailed(k),
           NEW m \in Mail, mail[m] = "sent"
    PROVE  mail'[m] = "sent"
BY DEF MarkSent, MarkFailed, AwaitsVerdict, TypeOK

\* A sent mail is final: no requeue, late verdict or crash takes it back.
THEOREM SentIsFinalHolds == Spec => SentIsFinal
<1>1. TypeOK /\ [Next]_vars =>
          [\A m \in Mail : mail[m] = "sent" => mail'[m] = "sent"]_vars
  <2> SUFFICES ASSUME TypeOK, Next, NEW m \in Mail, mail[m] = "sent"
               PROVE  mail'[m] = "sent"
    OBVIOUS
  <2>1. ASSUME NEW d \in Drainer, LandVerdict(d)
        PROVE  mail'[m] = "sent"
    <3>1. call[d].row \in Mail
      BY <2>1, CallRow DEF TypeOK, LandVerdict, Answered, NoCall, Verdicts
    <3> QED
      BY <2>1, <3>1, MarkKeepsSent DEF LandVerdict
  <2>2. ASSUME NEW d \in Drainer, NEW k \in Mail, RefuseHeaders(d, k)
        PROVE  mail'[m] = "sent"
    BY <2>2, MarkKeepsSent DEF RefuseHeaders
  <2> QED
    BY <2>1, <2>2
    DEF Next, DrainStep, database, TypeOK, Enqueue, FallDue, Requeue, ClaimBatch, Send,
        Answer, Crash, NotificationGc
<1> QED
  BY <1>1, InitTypeOK, NextTypeOK, PTL DEF Spec, SentIsFinal

\* A verdict advances the linked badges it outranks, or none.
LEMMA MarkIsBadgeStep ==
    ASSUME BadgeInv, NEW k \in Mail, MarkSent(k) \/ MarkFailed(k)
    PROVE  [Badge!Next]_notif
<1>1. ASSUME NEW target \in {"pending", "exception"},
             AdvanceLinkedNotifications(k, target)
      PROVE  Badge!Next
  <2> DEFINE R == {r \in Row : r \in Linked(k) /\ Advances(r, target)}
  <2>1. ASSUME NEW r \in R
        PROVE  /\ Badge!Live(r) /\ Outranks(target, notif[r])
               /\ NotificationWriteAllowed(notif[r], target)
    <3>1. notif[r] \in {"ready", "pending", "exception"}
      BY <2>1 DEF BadgeInv, BadgeValues, Advances, NotificationStatuses
    <3> QED
      BY <2>1, <3>1
      DEF Advances, Outranks, NotificationWriteAllowed, NotificationTransitions,
          StatusRank, Badge!Live, Badge!NotificationStatuses, NotificationStatuses
  <2>2. notif' = [r \in Row |-> IF r \in R THEN target ELSE notif[r]]
    BY <1>1 DEF AdvanceLinkedNotifications
  <2>3. Badge!Advance(target, R)
    BY <2>1, <2>2
    DEF Badge!Advance, Badge!Live, Badge!Outranks, Badge!NotificationWriteAllowed,
        Badge!NotificationTransitions, Badge!StatusRank, Outranks, StatusRank,
        NotificationWriteAllowed, NotificationTransitions
  <2>4. R \in SUBSET Row /\ target \in NotificationStatuses
    BY DEF NotificationStatuses
  <2> QED
    BY <2>3, <2>4 DEF Badge!Next, Badge!NotificationStatuses, NotificationStatuses
<1> QED
  BY <1>1 DEF MarkSent, MarkFailed

\* Every step of the queue is a step of the badges, or leaves them alone.
LEMMA NextBadge ==
    TypeOK /\ HeldIsEnqueued /\ BadgeInv /\ [Next]_vars => [Badge!Next]_notif
<1> SUFFICES ASSUME TypeOK, HeldIsEnqueued, BadgeInv, [Next]_vars
             PROVE  [Badge!Next]_notif
  OBVIOUS
<1>1. ASSUME NEW m \in Mail, NEW linked \in BOOLEAN, NEW deferred \in BOOLEAN,
             Enqueue(m, linked, deferred)
      PROVE  [Badge!Next]_notif
  <2> DEFINE R == IF linked THEN Linked(m) ELSE {}
  <2>1. R \in SUBSET Row /\ \A r \in R : notif[r] = "none"
    BY <1>1, LinkedDisjoint DEF Enqueue, BadgeInv, UnbornIsBlank
  <2>2. notif' = [r \in Row |-> IF r \in R THEN "ready" ELSE notif[r]]
    BY <1>1 DEF Enqueue
  <2> HIDE DEF R
  <2>3. Badge!Mint(R)
    BY <2>1, <2>2 DEF Badge!Mint
  <2> QED
    BY <2>1, <2>3 DEF Badge!Next
<1>2. ASSUME NEW d \in Drainer, NEW m \in Mail, RefuseHeaders(d, m)
      PROVE  [Badge!Next]_notif
  BY <1>2, MarkIsBadgeStep DEF RefuseHeaders
<1>3. ASSUME NEW d \in Drainer, LandVerdict(d)
      PROVE  [Badge!Next]_notif
  <2>1. call[d].row \in Mail
    BY <1>3, CallRow DEF TypeOK, LandVerdict, Answered, NoCall, Verdicts
  <2> QED
    BY <1>3, <2>1, MarkIsBadgeStep DEF LandVerdict
<1>4. ASSUME NEW R \in SUBSET Row, NotificationGc(R)
      PROVE  [Badge!Next]_notif
  <2>1. Badge!Reap(R)
    BY <1>4
    DEF NotificationGc, Badge!Reap, Badge!Live, Badge!NotificationStatuses,
        NotificationStatuses
  <2> QED
    BY <2>1 DEF Badge!Next
<1>5. CASE UNCHANGED notif
  BY <1>5
<1> QED
  BY <1>1, <1>2, <1>3, <1>4, <1>5
  DEF Next, DrainStep, vars, database, FallDue, Requeue, ClaimBatch, Send, Answer, Crash

\* The linked notifications of a mail implement the abstract badge: minted
\* once, they only climb along declared moves, until the retention job.
THEOREM ImplementsBadge == Spec => BadgeSpec
<1>1. Init => Badge!Init
  BY DEF Init, Badge!Init
<1> QED
  BY <1>1, BadgeInvariant, NextBadge, PTL DEF Spec, BadgeSpec, Badge!Spec

-----------------------------------------------------------------------------
(***************************************************************************)
(* The queue implements the ledger of send attempts.                       *)
(***************************************************************************)
ledger == <<Open, HolderOf, sends, Granted>>

\* Nobody requeues a mail that was never enqueued.
UnbornUnasked == \A m \in Mail : mail[m] = "none" => requeues[m] = 0

\* Every step leaves the requeues of an unborn mail at zero.
LEMMA NextUnasked == TypeOK /\ UnbornUnasked /\ [Next]_vars => UnbornUnasked'
<1> SUFFICES ASSUME TypeOK, UnbornUnasked, [Next]_vars
             PROVE  UnbornUnasked'
  OBVIOUS
<1>1. \A m \in Mail : mail[m] # "none" => mail'[m] # "none"
  BY DEF Next, DrainStep, vars, Enqueue, FallDue, ClaimBatch, Send, Answer, MarkSent,
         MarkFailed, LandVerdict, RefuseHeaders, Crash, Requeue, NotificationGc,
         database, TypeOK
<1>2. \A m \in Mail : requeues'[m] = requeues[m] \/ mail[m] = "exception"
  BY DEF Next, DrainStep, vars, Enqueue, FallDue, ClaimBatch, Send, Answer,
         LandVerdict, RefuseHeaders, Crash, Requeue, NotificationGc, TypeOK
<1> QED
  BY <1>1, <1>2 DEF UnbornUnasked

\* A verdict takes its row out of the queue, whichever state it finds it in.
LEMMA MarkWithdraws ==
    ASSUME TypeOK, NEW m \in Mail, MarkSent(m) \/ MarkFailed(m), requeues' = requeues
    PROVE  /\ Open' = [k \in Mail |-> Open[k] /\ k \notin {m}]
           /\ Granted' = Granted
BY DEF MarkSent, MarkFailed, AwaitsVerdict, Open, Granted, TypeOK

\* Every step of the queue is a step of the ledger, or leaves it alone.
LEMMA NextLedger == TypeOK /\ UnbornUnasked /\ [Next]_vars => [Ledger!Next]_ledger
<1> SUFFICES ASSUME TypeOK, UnbornUnasked, [Next]_vars
             PROVE  [Ledger!Next]_ledger
  OBVIOUS
<1>1. ASSUME NEW m \in Mail, NEW linked \in BOOLEAN, NEW deferred \in BOOLEAN,
             Enqueue(m, linked, deferred)
      PROVE  [Ledger!Next]_ledger
  <2>1. mail[m] = "none" /\ requeues[m] = 0
    BY <1>1 DEF Enqueue, UnbornUnasked
  <2>2. \A k \in {m} : ~Open[k]
    BY <2>1 DEF Open
  <2>3. Open' = [k \in Mail |-> Open[k] \/ k \in {m}]
    BY <1>1 DEF Enqueue, Open, TypeOK
  <2>4. Granted' = [k \in Mail |-> IF k \in {m} THEN Granted[k] + 1 ELSE Granted[k]]
    BY <1>1, <2>1 DEF Enqueue, Granted, TypeOK
  <2>5. UNCHANGED <<HolderOf, sends>>
    BY <1>1 DEF Enqueue, drainers, HolderOf
  <2>6. Ledger!Grant({m})
    BY <2>2, <2>3, <2>4, <2>5 DEF Ledger!Grant
  <2> QED
    BY <2>6 DEF Ledger!Next
\* A resend by hand grants one more attempt.
<1>2. ASSUME NEW m \in Mail, Requeue(m)
      PROVE  [Ledger!Next]_ledger
  <2>1. \A k \in {m} : ~Open[k]
    BY <1>2 DEF Requeue, Open
  <2>2. Open' = [k \in Mail |-> Open[k] \/ k \in {m}]
    BY <1>2 DEF Requeue, Open, TypeOK
  <2>3. Granted' = [k \in Mail |-> IF k \in {m} THEN Granted[k] + 1 ELSE Granted[k]]
    BY <1>2 DEF Requeue, Granted, TypeOK
  <2>4. UNCHANGED <<HolderOf, sends>>
    BY <1>2 DEF Requeue, drainers, HolderOf
  <2>5. Ledger!Grant({m})
    BY <2>1, <2>2, <2>3, <2>4 DEF Ledger!Grant
  <2> QED
    BY <2>5 DEF Ledger!Next
<1>3. ASSUME NEW d \in Drainer, NEW M \in SUBSET Mail, ClaimBatch(d, M)
      PROVE  [Ledger!Next]_ledger
  <2>1. \A m \in M : Open[m] /\ d \notin HolderOf[m]
    BY <1>3 DEF ClaimBatch, Idle, Open, HolderOf
  <2>2. Open' = [m \in Mail |-> Open[m] /\ m \notin M]
    BY <1>3 DEF ClaimBatch, Open, TypeOK
  <2>3. HolderOf' = [m \in Mail |-> IF m \in M THEN HolderOf[m] \cup {d} ELSE HolderOf[m]]
    <3>1. \A m \in Mail : HolderOf'[m] =
              IF m \in M THEN HolderOf[m] \cup {d} ELSE HolderOf[m]
      BY <1>3 DEF ClaimBatch, Idle, HolderOf, TypeOK
    <3> QED
      BY <3>1 DEF HolderOf
  <2>4. Granted' = Granted /\ sends' = sends
    BY <1>3 DEF ClaimBatch, Granted, TypeOK
  <2>5. Ledger!Claim(d, M)
    BY <2>1, <2>2, <2>3, <2>4 DEF Ledger!Claim
  <2> QED
    BY <2>5 DEF Ledger!Next
<1>4. ASSUME NEW d \in Drainer, NEW m \in Mail, Send(d, m)
      PROVE  [Ledger!Next]_ledger
  <2>1. d \in HolderOf[m] /\ HolderOf' = [HolderOf EXCEPT ![m] = @ \ {d}]
    <3>1. \A k \in Mail :
              HolderOf'[k] = IF k = m THEN HolderOf[k] \ {d} ELSE HolderOf[k]
      BY <1>4 DEF Send, HolderOf, TypeOK
    <3> QED
      BY <1>4, <3>1 DEF Send, HolderOf
  <2>2. sends' = [sends EXCEPT ![m] = @ + 1] /\ UNCHANGED <<Open, Granted>>
    BY <1>4 DEF Send, database, Open, Granted
  <2>3. Ledger!HandOut(d, m)
    BY <2>1, <2>2 DEF Ledger!HandOut
  <2> QED
    BY <2>3 DEF Ledger!Next
\* The header guard's refusal gives the attempt up, and fails a row that a
\* human may meanwhile have requeued.
<1>5. ASSUME NEW d \in Drainer, NEW m \in Mail, RefuseHeaders(d, m)
      PROVE  [Ledger!Next]_ledger
  <2>1. HolderOf' = [k \in Mail |-> IF k \in {m} THEN HolderOf[k] \ {d} ELSE HolderOf[k]]
    <3>1. \A k \in Mail :
              HolderOf'[k] = IF k \in {m} THEN HolderOf[k] \ {d} ELSE HolderOf[k]
      BY <1>5 DEF RefuseHeaders, HolderOf, TypeOK
    <3> QED
      BY <3>1 DEF HolderOf
  <2>2. /\ Open' = [k \in Mail |-> Open[k] /\ k \notin {m}]
        /\ Granted' = Granted
    BY <1>5, MarkWithdraws DEF RefuseHeaders
  <2>3. Ledger!GiveUp(d, {m}, {m})
    BY <1>5, <2>1, <2>2 DEF RefuseHeaders, Ledger!GiveUp
  <2> QED
    BY <2>3 DEF Ledger!Next
<1>6. ASSUME NEW d \in Drainer, LandVerdict(d)
      PROVE  [Ledger!Next]_ledger
  <2> DEFINE m == call[d].row
  <2>1. m \in Mail
    BY <1>6, CallRow DEF TypeOK, LandVerdict, Answered, NoCall, Verdicts
  <2>2. (MarkSent(m) \/ MarkFailed(m)) /\ UNCHANGED <<todo, sends, requeues>>
    BY <1>6 DEF LandVerdict
  <2> HIDE DEF m
  <2>3. /\ Open' = [k \in Mail |-> Open[k] /\ k \notin {m}]
        /\ Granted' = Granted
    BY <2>1, <2>2, MarkWithdraws
  <2>4. HolderOf' = [k \in Mail |-> IF k \in {} THEN HolderOf[k] \ {d} ELSE HolderOf[k]]
    BY <2>2 DEF HolderOf
  <2>5. Ledger!GiveUp(d, {}, {m})
    BY <2>2, <2>3, <2>4 DEF Ledger!GiveUp
  <2> QED
    BY <2>1, <2>5 DEF Ledger!Next
<1>7. ASSUME NEW d \in Drainer, Crash(d)
      PROVE  [Ledger!Next]_ledger
  <2>1. HolderOf' = [m \in Mail |-> IF m \in Mail THEN HolderOf[m] \ {d} ELSE HolderOf[m]]
    <3>1. \A m \in Mail : HolderOf'[m] = HolderOf[m] \ {d}
      BY <1>7 DEF Crash, HolderOf, TypeOK
    <3> QED
      BY <3>1 DEF HolderOf
  <2>2. UNCHANGED <<Open, Granted, sends>>
    BY <1>7 DEF Crash, database, Open, Granted
  <2>3. Open' = [m \in Mail |-> Open[m] /\ m \notin {}]
    BY <2>2 DEF Open
  <2>4. Ledger!GiveUp(d, Mail, {})
    BY <2>1, <2>2, <2>3 DEF Ledger!GiveUp
  <2> QED
    BY <2>4 DEF Ledger!Next
<1>8. CASE UNCHANGED <<mail, requeues, todo, sends>>
  BY <1>8 DEF ledger, Open, HolderOf, Granted
<1> QED
  BY <1>1, <1>2, <1>3, <1>4, <1>5, <1>6, <1>7, <1>8
  DEF Next, DrainStep, vars, FallDue, Answer, NotificationGc, database, drainers

\* Each attempt to hand a mail to the transport was granted by its insert or by
\* a human's resend, claimed by one drainer, and then made once or given up.
THEOREM ImplementsLedger == Spec => LedgerSpec
<1>1. Init => Ledger!Init /\ UnbornUnasked
  BY DEF Init, Ledger!Init, Open, HolderOf, Granted, UnbornUnasked
<1> QED
  BY <1>1, InitTypeOK, NextTypeOK, NextUnasked, NextLedger, PTL
  DEF Spec, LedgerSpec, Ledger!Spec, ledger

-----------------------------------------------------------------------------
(***************************************************************************)
(* The writes of the queue and the transition trigger.                     *)
(***************************************************************************)

\* What the trigger says of the writes the queue makes.
LEMMA QueueWritesAllowed ==
    /\ MailWriteAllowed("exception", "outgoing")
    /\ \A from \in {"outgoing", "exception"} :
           MailWriteAllowed(from, "sent") /\ MailWriteAllowed(from, "exception")
BY DEF MailWriteAllowed, MailTransitions

\* Every write of a mail row in every reachable step is one its trigger lets
\* through: a pass never ends because the table refused a write.
THEOREM WritesAreLegalHolds == Spec => WritesAreLegal
<1> DEFINE Legal(m) == mail[m] \in MailStates => MailWriteAllowed(mail[m], mail'[m])
<1>a. ASSUME NEW m \in Mail, mail'[m] = mail[m] PROVE Legal(m)
  BY <1>a DEF MailWriteAllowed
<1>b. ASSUME TypeOK, NEW k \in Mail, MarkSent(k) \/ MarkFailed(k),
             NEW m \in Mail, mail'[m] # mail[m]
      PROVE  Legal(m)
  <2>1. mail[m] \in {"outgoing", "exception"} /\ mail'[m] \in {"sent", "exception"}
    BY <1>b DEF MarkSent, MarkFailed, AwaitsVerdict, TypeOK
  <2> QED
    BY <2>1, QueueWritesAllowed
<1>1. TypeOK /\ [Next]_vars => \A m \in Mail : Legal(m)
  <2> SUFFICES ASSUME TypeOK, [Next]_vars, NEW m \in Mail, mail'[m] # mail[m]
               PROVE  Legal(m)
    BY <1>a
  <2>1. ASSUME NEW k \in Mail, NEW linked \in BOOLEAN, NEW deferred \in BOOLEAN,
               Enqueue(k, linked, deferred)
        PROVE  Legal(m)
    BY <2>1 DEF Enqueue, TypeOK, MailStates
  <2>2. ASSUME NEW d \in Drainer, NEW M \in SUBSET Mail, ClaimBatch(d, M)
        PROVE  Legal(m)
    <3>1. mail[m] = "outgoing" /\ mail'[m] = "exception"
      BY <2>2 DEF ClaimBatch, TypeOK
    <3> QED
      BY <3>1, QueueWritesAllowed
  <2>3. ASSUME NEW k \in Mail, Requeue(k)
        PROVE  Legal(m)
    <3>1. mail[m] = "exception" /\ mail'[m] = "outgoing"
      BY <2>3 DEF Requeue, TypeOK
    <3> QED
      BY <3>1, QueueWritesAllowed
  <2>4. ASSUME NEW d \in Drainer, NEW k \in Mail, RefuseHeaders(d, k)
        PROVE  Legal(m)
    BY <2>4, <1>b DEF RefuseHeaders
  <2>5. ASSUME NEW d \in Drainer, LandVerdict(d)
        PROVE  Legal(m)
    <3>1. call[d].row \in Mail
      BY <2>5, CallRow DEF TypeOK, LandVerdict, Answered, NoCall, Verdicts
    <3> QED
      BY <2>5, <3>1, <1>b DEF LandVerdict
  <2> QED
    BY <2>1, <2>2, <2>3, <2>4, <2>5
    DEF Next, DrainStep, vars, FallDue, Send, Answer, Crash, NotificationGc, database
<1> QED
  BY <1>1, InitTypeOK, NextTypeOK, PTL DEF Spec, WritesAreLegal

==============================================================================
