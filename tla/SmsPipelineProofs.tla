-------------------------- MODULE SmsPipelineProofs --------------------------
(***************************************************************************)
(* Theorems about the SMS pipeline, for every set of rows, every finite    *)
(* set of drainers, every batch size and either answer to SlowDrainers.    *)
(***************************************************************************)
EXTENDS SmsPipeline, FiniteSetTheorems, TLAPS

-----------------------------------------------------------------------------
(***************************************************************************)
(* Lemmas about the vocabularies.                                          *)
(***************************************************************************)

\* Every verdict becomes one of the four states a drained row may take.
LEMMA OutcomeStateType ==
    ASSUME NEW v \in Verdicts
    PROVE  OutcomeState(v) \in {"process", "pending", "sent", "error"}
BY DEF Verdicts, OutcomeState

\* The map lands in the notification vocabulary.
LEMMA NotificationStatusOfType ==
    ASSUME NEW state \in SmsStates
    PROVE  NotificationStatusOf(state) \in NotificationStatuses
BY DEF SmsStates, NotificationStatuses, NotificationStatusOf

\* A callback is one of the four states the webhook admits.
LEMMA ReportsType ==
    ASSUME NEW c \in CarrierStates
    PROVE  Reports(c) \subseteq {"process", "pending", "sent", "error"}
BY DEF CarrierStates, Reports

\* A provider's reply is a verdict and a new carrier state, and it says
\* "Delivered" only of a delivered message.
LEMMA RepliesType ==
    ASSUME NEW c \in CarrierStates, NEW reply \in Replies(c)
    PROVE  /\ reply.answer \in Verdicts
           /\ reply.after \in CarrierStates
           /\ reply.answer = "Delivered" => reply.after = "delivered"
           /\ c = "delivered" => reply.after = "delivered"
BY DEF Replies, CarrierStates, Verdicts

\* A drainer's round trip, when there is one, is about a row.
LEMMA CallRow ==
    ASSUME NEW c \in Calls, c # NoCall
    PROVE  c.row \in Sms /\ c = [row |-> c.row, answer |-> c.answer]
BY SmsAssumption DEF Calls, NoCall

-----------------------------------------------------------------------------
(***************************************************************************)
(* Type correctness.                                                       *)
(***************************************************************************)

\* The type invariant holds initially.
LEMMA InitTypeOK == Init => TypeOK
BY DEF Init, TypeOK, CarrierStates, Calls

\* Every step of the pipeline preserves the type invariant.
LEMMA NextTypeOK == TypeOK /\ [Next]_vars => TypeOK'
<1> SUFFICES ASSUME TypeOK, [Next]_vars PROVE TypeOK'
    OBVIOUS
<1> USE DEF TypeOK
<1>1. ASSUME NEW s \in Sms, NEW linked \in BOOLEAN, Enqueue(s, linked)
      PROVE  TypeOK'
  BY <1>1 DEF Enqueue, drainers, SmsStates, NotificationStatuses
<1>2. ASSUME NEW d \in Drainer, NEW S \in SUBSET Sms, ClaimBatch(d, S)
      PROVE  TypeOK'
  BY <1>2 DEF ClaimBatch, SmsStates
<1>3. ASSUME NEW d \in Drainer, NEW s \in Sms, Send(d, s)
      PROVE  TypeOK'
  BY <1>3 DEF Send, database, Calls
<1>4. ASSUME NEW d \in Drainer, NEW reply, Answer(d, reply)
      PROVE  TypeOK'
  <2>1. call[d] \in Calls /\ call[d] # NoCall
    BY <1>4 DEF Answer
  <2>2. call[d].row \in Sms
    BY <2>1, CallRow
  <2>3. reply.answer \in Verdicts /\ reply.after \in CarrierStates
    BY <1>4, <2>2, RepliesType DEF Answer
  <2>4. [call[d] EXCEPT !.answer = reply.answer] \in Calls
    BY <2>1, <2>3, CallRow DEF Calls
  <2> QED
    BY <1>4, <2>2, <2>3, <2>4 DEF Answer, database
<1>5. ASSUME NEW d \in Drainer, LandOutcome(d)
      PROVE  TypeOK'
  <2> DEFINE s == call[d].row
             target == OutcomeState(call[d].answer)
  <2>1. s \in Sms /\ target \in SmsStates
    BY <1>5, CallRow, OutcomeStateType
    DEF LandOutcome, Answered, NoCall, Verdicts, SmsStates
  <2>2. NotificationStatusOf(target) \in NotificationStatuses
    BY <2>1, NotificationStatusOfType
  <2> HIDE DEF s, target
  <2>3. ApplyOutcome(s, target) /\ MirrorTracker(s, target) /\ Pump(s, target)
        /\ call' = [call EXCEPT ![d] = NoCall]
        /\ UNCHANGED <<swept, todo, carrier, sends>>
    BY <1>5 DEF LandOutcome, s, target
  <2> QED
    BY <2>1, <2>2, <2>3 DEF ApplyOutcome, MirrorTracker, Pump, Calls
<1>6. ASSUME NEW d \in Drainer, AbortPass(d)
      PROVE  TypeOK'
  BY <1>6 DEF AbortPass, database, Calls
<1>7. ASSUME NEW d \in Drainer, Crash(d)
      PROVE  TypeOK'
  <2>1. carrier' \in [Sms -> CarrierStates]
    <3>1. CASE call[d] = NoCall \/ Answered(d)
      BY <1>7, <3>1 DEF Crash
    <3>2. CASE ~(call[d] = NoCall \/ Answered(d))
      BY <1>7, <3>2, CallRow, RepliesType DEF Crash
    <3> QED
      BY <3>1, <3>2
  <2> QED
    BY <1>7, <2>1 DEF Crash, database, Calls
<1>8. ASSUME NEW s \in Sms, NEW fate \in {"delivered", "failed"}, Settle(s, fate)
      PROVE  TypeOK'
  BY <1>8 DEF Settle, database, drainers, CarrierStates
<1>9. ASSUME NEW s \in Sms, NEW report \in SmsStates, AdvanceState(s, report)
      PROVE  TypeOK'
  BY <1>9, NotificationStatusOfType
  DEF AdvanceState, MirrorTracker, Pump, drainers
<1>10. ASSUME NEW S \in SUBSET Sms, SweepStuckProcess(S)
       PROVE  TypeOK'
  BY <1>10 DEF SweepStuckProcess, drainers, SmsStates
<1>11. ASSUME NEW S \in SUBSET Sms, SmsGc(S)
       PROVE  TypeOK'
  BY <1>11 DEF SmsGc, drainers
<1>12. CASE UNCHANGED vars
  BY <1>12 DEF vars
<1> QED
  BY <1>1, <1>2, <1>3, <1>4, <1>5, <1>6, <1>7, <1>8, <1>9, <1>10, <1>11, <1>12
  DEF Next, DrainStep, Sweep

\* The type invariant: every column keeps an enum value and a drainer's memory
\* refers to rows, whatever the interleaving.
THEOREM TypeCorrect == Spec => []TypeOK
BY InitTypeOK, NextTypeOK, PTL DEF Spec

-----------------------------------------------------------------------------
(***************************************************************************)
(* The number of sends.  What counts against a row's budget is each send   *)
(* made, each claim a drainer still has to send, and the claim that a row  *)
(* not yet taken is good for; only the sweep, once, adds to the budget.    *)
(***************************************************************************)
Waiting(s) == {d \in Drainer : s \in todo[d]}

Claimable(s) == IF sms[s] \in {"none", "outgoing"} THEN 1 ELSE 0

Budget(s) == IF swept[s] THEN 2 ELSE 1

SendBudget ==
    \A s \in Sms : sends[s] + Cardinality(Waiting(s)) + Claimable(s) <= Budget(s)

\* The drainers that wait to send a row are a finite set.
LEMMA WaitingFinite ==
    \A s : IsFiniteSet(Waiting(s)) /\ Cardinality(Waiting(s)) \in Nat
<1> TAKE s
<1>1. Waiting(s) \subseteq Drainer
  BY DEF Waiting
<1> QED
  BY <1>1, SmsAssumption, FS_Subset, FS_CardinalityType

\* A step that gives no drainer new work keeps the budget of a row, as long as
\* it neither sends the row nor makes it claimable.
LEMMA BudgetKept ==
    ASSUME TypeOK, TypeOK', SendBudget, NEW s \in Sms,
           \A d \in Drainer : s \in todo'[d] => s \in todo[d],
           sends'[s] = sends[s], swept[s] => swept'[s],
           Claimable(s)' <= Claimable(s)
    PROVE  sends'[s] + Cardinality(Waiting(s)') + Claimable(s)' <= Budget(s)'
<1>1. Waiting(s)' \subseteq Waiting(s)
  BY DEF Waiting
<1>2. Cardinality(Waiting(s)') <= Cardinality(Waiting(s))
  BY <1>1, WaitingFinite, FS_Subset
<1>3. Cardinality(Waiting(s)') \in Nat /\ Cardinality(Waiting(s)) \in Nat
  BY <1>1, WaitingFinite, FS_Subset, FS_CardinalityType
<1> QED
  BY <1>2, <1>3 DEF SendBudget, TypeOK, Budget, Claimable

\* The budget holds initially: one claim to come, and nobody at work.
LEMMA InitBudget == Init => SendBudget
<1> SUFFICES ASSUME Init, NEW s \in Sms
             PROVE  sends[s] + Cardinality(Waiting(s)) + Claimable(s) <= Budget(s)
  BY DEF SendBudget
<1>1. Waiting(s) = {}
  BY DEF Init, Waiting
<1> QED
  BY <1>1, FS_EmptySet DEF Init, Claimable, Budget

\* Every step keeps every row within its budget.
LEMMA NextBudget == TypeOK /\ SendBudget /\ [Next]_vars => SendBudget'
<1> SUFFICES ASSUME TypeOK, TypeOK', SendBudget, [Next]_vars, NEW s \in Sms
             PROVE  sends'[s] + Cardinality(Waiting(s)') + Claimable(s)'
                        <= Budget(s)'
  BY NextTypeOK DEF SendBudget
<1> DEFINE Goal == sends'[s] + Cardinality(Waiting(s)') + Claimable(s)' <= Budget(s)'
<1>1. ASSUME NEW r \in Sms, NEW linked \in BOOLEAN, Enqueue(r, linked)
      PROVE  Goal
  BY <1>1, BudgetKept DEF Enqueue, drainers, Claimable, TypeOK
<1>2. ASSUME NEW d \in Drainer, NEW S \in SUBSET Sms, ClaimBatch(d, S)
      PROVE  Goal
  <2>1. CASE s \in S
    <3>1. d \notin Waiting(s) /\ Waiting(s)' = Waiting(s) \cup {d}
      BY <1>2, <2>1 DEF ClaimBatch, Waiting, TypeOK
    <3>2. Cardinality(Waiting(s)') = Cardinality(Waiting(s)) + 1
      BY <3>1, WaitingFinite, FS_AddElement
    <3>3. Claimable(s) = 1 /\ Claimable(s)' = 0
      BY <1>2, <2>1 DEF ClaimBatch, Claimable
    <3>4. sends' = sends /\ Budget(s)' = Budget(s)
      BY <1>2 DEF ClaimBatch, Budget
    <3> QED
      BY <3>2, <3>3, <3>4, WaitingFinite DEF SendBudget, TypeOK, Budget
  <2>2. CASE s \notin S
    BY <1>2, <2>2, BudgetKept DEF ClaimBatch, Claimable, TypeOK
  <2> QED
    BY <2>1, <2>2
<1>3. ASSUME NEW d \in Drainer, NEW r \in Sms, Send(d, r)
      PROVE  Goal
  <2>1. CASE s = r
    <3>1. d \in Waiting(s) /\ Waiting(s)' = Waiting(s) \ {d}
      BY <1>3, <2>1 DEF Send, Waiting, TypeOK
    <3>2. Cardinality(Waiting(s)') = Cardinality(Waiting(s)) - 1
      BY <3>1, WaitingFinite, FS_RemoveElement
    <3>3. sends'[s] = sends[s] + 1
      BY <1>3, <2>1 DEF Send, TypeOK
    <3>4. Claimable(s)' = Claimable(s) /\ Budget(s)' = Budget(s)
      BY <1>3 DEF Send, database, Claimable, Budget
    <3> QED
      BY <3>2, <3>3, <3>4, WaitingFinite DEF SendBudget, TypeOK, Budget, Claimable
  <2>2. CASE s # r
    BY <1>3, <2>2, BudgetKept DEF Send, database, Claimable, TypeOK
  <2> QED
    BY <2>1, <2>2
<1>4. ASSUME NEW d \in Drainer, NEW reply, Answer(d, reply)
      PROVE  Goal
  BY <1>4, BudgetKept DEF Answer, database, Claimable
<1>5. ASSUME NEW d \in Drainer, LandOutcome(d)
      PROVE  Goal
  <2>1. Claimable(s)' <= Claimable(s)
    BY <1>5, OutcomeStateType
    DEF LandOutcome, ApplyOutcome, Answered, Claimable, TypeOK
  <2> QED
    BY <1>5, <2>1, BudgetKept DEF LandOutcome
<1>6. ASSUME NEW d \in Drainer, AbortPass(d)
      PROVE  Goal
  BY <1>6, BudgetKept DEF AbortPass, database, Claimable, TypeOK
<1>7. ASSUME NEW d \in Drainer, Crash(d)
      PROVE  Goal
  BY <1>7, BudgetKept DEF Crash, database, Claimable, TypeOK
<1>8. ASSUME NEW r \in Sms, NEW fate \in {"delivered", "failed"}, Settle(r, fate)
      PROVE  Goal
  BY <1>8, BudgetKept DEF Settle, database, drainers, Claimable
<1>9. ASSUME NEW r \in Sms, NEW report \in SmsStates, AdvanceState(r, report)
      PROVE  Goal
  <2>1. report \in {"process", "pending", "sent", "error"}
    BY <1>9, ReportsType DEF AdvanceState, TypeOK
  <2>2. Claimable(s)' <= Claimable(s)
    BY <1>9, <2>1 DEF AdvanceState, ReportMatches, Claimable, TypeOK
  <2> QED
    BY <1>9, <2>2, BudgetKept DEF AdvanceState, drainers
<1>10. ASSUME NEW S \in SUBSET Sms, SweepStuckProcess(S)
       PROVE  Goal
  <2>1. CASE s \in S /\ Requeueable(s)
    <3>1. Waiting(s)' = Waiting(s) /\ sends' = sends
      BY <1>10 DEF SweepStuckProcess, drainers, Waiting
    <3>2. Budget(s) = 1 /\ Budget(s)' = 2
      BY <1>10, <2>1 DEF SweepStuckProcess, Requeueable, Budget, TypeOK
    <3>3. Claimable(s) = 0 /\ Claimable(s)' = 1
      BY <1>10, <2>1 DEF SweepStuckProcess, Stuck, Claimable, TypeOK
    <3> QED
      BY <3>1, <3>2, <3>3, WaitingFinite DEF SendBudget, TypeOK
  <2>2. CASE ~(s \in S /\ Requeueable(s))
    BY <1>10, <2>2, BudgetKept DEF SweepStuckProcess, drainers, Claimable, TypeOK
  <2> QED
    BY <2>1, <2>2
<1>11. ASSUME NEW S \in SUBSET Sms, SmsGc(S)
       PROVE  Goal
  BY <1>11, BudgetKept DEF SmsGc, drainers, Claimable, TypeOK
<1>12. CASE UNCHANGED vars
  BY <1>12, BudgetKept DEF vars, Claimable
<1> QED
  BY <1>1, <1>2, <1>3, <1>4, <1>5, <1>6, <1>7, <1>8, <1>9, <1>10, <1>11, <1>12
  DEF Next, DrainStep, Sweep

\* No interleaving of drainers, crashes, aborted passes, callbacks and sweeps
\* hands a message to the provider twice, or three times once swept.
THEOREM NeverOverSentHolds == Spec => []NeverOverSent
<1>1. TypeOK /\ SendBudget => NeverOverSent
  <2> SUFFICES ASSUME TypeOK, SendBudget, NEW s \in Sms
               PROVE  sends[s] <= IF swept[s] THEN 2 ELSE 1
    BY DEF NeverOverSent
  <2> QED
    BY WaitingFinite DEF SendBudget, Budget, Claimable, TypeOK
<1> QED
  BY <1>1, InitTypeOK, NextTypeOK, InitBudget, NextBudget, PTL DEF Spec

-----------------------------------------------------------------------------
(***************************************************************************)
(* Who holds a row.  A row the queue still owns and the sweep never touched *)
(* is untouched everywhere; ClaimsDisjoint is inductive beside that.       *)
(***************************************************************************)
Untouched(s) ==
    /\ sends[s] = 0 /\ carrier[s] = "none"
    /\ \A d \in Drainer : ~Holds(d, s)
    /\ sms[s] = "outgoing" => tracker[s] = "process"
    /\ notif[s] \in {"none", "ready"}

QueuedIsUntouched ==
    \A s \in Sms : sms[s] \in {"none", "outgoing"} /\ ~swept[s] => Untouched(s)

UnbornIsBlank ==
    \A s \in Sms : sms[s] = "none" => ~swept[s] /\ notif[s] = "none"

OwnershipInv == QueuedIsUntouched /\ UnbornIsBlank /\ ClaimsDisjoint

\* The ownership invariant holds initially.
LEMMA InitOwnership == Init => OwnershipInv
BY SmsAssumption
DEF Init, OwnershipInv, QueuedIsUntouched, UnbornIsBlank, ClaimsDisjoint,
    Untouched, Holds, NoCall

\* A step that gives no drainer new work keeps claims disjoint.
LEMMA DisjointKept ==
    ASSUME ClaimsDisjoint,
           \A d \in Drainer, s \in Sms : Holds(d, s)' => Holds(d, s),
           \A s \in Sms : swept[s] => swept'[s]
    PROVE  ClaimsDisjoint'
BY DEF ClaimsDisjoint

\* A step that touches only rows out of the queue, or takes rows out of it,
\* keeps the queued rows untouched.
LEMMA UntouchedKept ==
    ASSUME QueuedIsUntouched, UnbornIsBlank,
           \A s \in Sms : sms'[s] \in {"none", "outgoing"} /\ ~swept'[s] =>
               /\ sms[s] = sms'[s] /\ ~swept[s]
               /\ Untouched(s) => Untouched(s)',
           \A s \in Sms : sms'[s] = "none" =>
               /\ sms[s] = "none" /\ swept'[s] = swept[s]
               /\ Untouched(s) => notif'[s] = notif[s]
    PROVE  QueuedIsUntouched' /\ UnbornIsBlank'
BY DEF QueuedIsUntouched, UnbornIsBlank

\* Every step preserves the ownership invariant.
LEMMA NextOwnership == TypeOK /\ OwnershipInv /\ [Next]_vars => OwnershipInv'
<1> SUFFICES ASSUME TypeOK, OwnershipInv, [Next]_vars
             PROVE  OwnershipInv'
  OBVIOUS
<1> USE DEF OwnershipInv
<1>1. ASSUME NEW r \in Sms, NEW linked \in BOOLEAN, Enqueue(r, linked)
      PROVE  OwnershipInv'
  <2>1. ClaimsDisjoint'
    BY <1>1, DisjointKept DEF Enqueue, drainers, Holds
  <2>2. QueuedIsUntouched'
    BY <1>1 DEF Enqueue, drainers, QueuedIsUntouched, UnbornIsBlank, Untouched,
                Holds, TypeOK
  <2>3. UnbornIsBlank'
    BY <1>1 DEF Enqueue, UnbornIsBlank, TypeOK
  <2> QED
    BY <2>1, <2>2, <2>3
<1>2. ASSUME NEW d \in Drainer, NEW S \in SUBSET Sms, ClaimBatch(d, S)
      PROVE  OwnershipInv'
  <2>1. ClaimsDisjoint'
    <3> SUFFICES ASSUME NEW a \in Drainer, NEW b \in Drainer, NEW s \in Sms,
                        a # b, Holds(a, s)', Holds(b, s)', ~swept'[s]
                 PROVE  FALSE
      BY DEF ClaimsDisjoint
    <3>1. ~swept[s]
      BY <1>2 DEF ClaimBatch
    <3>2. \A e \in Drainer : e # d => (Holds(e, s)' <=> Holds(e, s))
      BY <1>2 DEF ClaimBatch, Holds, TypeOK
    <3>3. Holds(d, s)' => s \in S
      BY <1>2, SmsAssumption DEF ClaimBatch, Holds, NoCall, TypeOK
    <3>4. s \in S => \A e \in Drainer : ~Holds(e, s)
      BY <1>2, <3>1 DEF ClaimBatch, QueuedIsUntouched, Untouched
    <3> QED
      BY <3>1, <3>2, <3>3, <3>4 DEF ClaimsDisjoint
  <2>2. QueuedIsUntouched' /\ UnbornIsBlank'
    <3>1. \A s \in Sms : sms'[s] \in {"none", "outgoing"} =>
              s \notin S /\ sms[s] = sms'[s]
      BY <1>2 DEF ClaimBatch, TypeOK
    <3>2. \A s \in Sms : s \notin S /\ Untouched(s) => Untouched(s)'
      BY <1>2 DEF ClaimBatch, Untouched, Holds, TypeOK
    <3> QED
      BY <1>2, <3>1, <3>2, UntouchedKept DEF ClaimBatch
  <2> QED
    BY <2>1, <2>2
<1>3. ASSUME NEW d \in Drainer, NEW r \in Sms, Send(d, r)
      PROVE  OwnershipInv'
  <2>1. Holds(d, r)
    BY <1>3 DEF Send, Holds
  <2>2. \A e \in Drainer, s \in Sms : Holds(e, s)' => Holds(e, s)
    BY <1>3 DEF Send, Holds, TypeOK
  <2>3. \A s \in Sms : Untouched(s) => Untouched(s)'
    BY <1>3, <2>1, <2>2 DEF Send, database, Untouched, TypeOK
  <2> QED
    BY <1>3, <2>2, <2>3, DisjointKept, UntouchedKept DEF Send, database
<1>4. ASSUME NEW d \in Drainer, NEW reply, Answer(d, reply)
      PROVE  OwnershipInv'
  <2>1. Holds(d, call[d].row) /\ call[d] \in Calls
    BY <1>4 DEF Answer, Holds, TypeOK
  <2>2. \A e \in Drainer, s \in Sms : Holds(e, s)' => Holds(e, s)
    BY <1>4, <2>1 DEF Answer, Holds, TypeOK, Calls, NoCall
  <2>3. \A s \in Sms : Untouched(s) => Untouched(s)'
    BY <1>4, <2>1, <2>2 DEF Answer, database, Untouched, TypeOK
  <2> QED
    BY <1>4, <2>2, <2>3, DisjointKept, UntouchedKept DEF Answer, database
<1>5. ASSUME NEW d \in Drainer, LandOutcome(d)
      PROVE  OwnershipInv'
  <2> DEFINE r == call[d].row
             target == OutcomeState(call[d].answer)
  <2>1. Holds(d, r) /\ r \in Sms
    BY <1>5, CallRow DEF LandOutcome, Answered, Holds, TypeOK, NoCall, Verdicts
  <2>2. \A e \in Drainer, s \in Sms : Holds(e, s)' => Holds(e, s)
    BY <1>5, SmsAssumption DEF LandOutcome, Holds, TypeOK, NoCall
  <2>3. target \in {"process", "pending", "sent", "error"}
    BY <1>5, OutcomeStateType DEF LandOutcome, Answered
  <2>4. \A s \in Sms : s # r =>
            sms'[s] = sms[s] /\ tracker'[s] = tracker[s] /\ notif'[s] = notif[s]
    BY <1>5, <2>1 DEF LandOutcome, ApplyOutcome, MirrorTracker, Pump, TypeOK
  <2>5. \A s \in Sms : Untouched(s) => s # r /\ Untouched(s)'
    BY <1>5, <2>1, <2>2, <2>4 DEF LandOutcome, Untouched
  <2>6. sms'[r] = IF sms[r] = "process" THEN target ELSE sms[r]
    BY <1>5, <2>1 DEF LandOutcome, ApplyOutcome, TypeOK
  <2>7. \A s \in Sms : sms'[s] \in {"none", "outgoing"} => sms'[s] = sms[s]
    BY <2>3, <2>4, <2>6
  <2>8. swept' = swept
    BY <1>5 DEF LandOutcome
  <2> HIDE DEF r, target
  <2> QED
    BY <2>2, <2>4, <2>5, <2>7, <2>8, DisjointKept, UntouchedKept
<1>6. ASSUME NEW d \in Drainer, AbortPass(d) \/ Crash(d)
      PROVE  OwnershipInv'
  <2>1. \A e \in Drainer, s \in Sms : Holds(e, s)' => Holds(e, s)
    BY <1>6, SmsAssumption DEF AbortPass, Crash, Holds, TypeOK, NoCall
  <2>2. \A s \in Sms : carrier'[s] = carrier[s] \/ Holds(d, s)
    BY <1>6 DEF AbortPass, Crash, Holds, TypeOK
  <2>3. \A s \in Sms : Untouched(s) => Untouched(s)'
    BY <1>6, <2>1, <2>2 DEF AbortPass, Crash, database, Untouched
  <2>4. UNCHANGED <<sms, swept, notif>>
    BY <1>6 DEF AbortPass, Crash, database
  <2> QED
    BY <2>1, <2>3, <2>4, DisjointKept, UntouchedKept
<1>7. ASSUME NEW r \in Sms, NEW fate \in {"delivered", "failed"}, Settle(r, fate)
      PROVE  OwnershipInv'
  <2>1. \A s \in Sms : Untouched(s) => Untouched(s)'
    BY <1>7 DEF Settle, database, drainers, Untouched, Holds, TypeOK
  <2> QED
    BY <1>7, <2>1, DisjointKept, UntouchedKept DEF Settle, database, drainers, Holds
<1>8. ASSUME NEW r \in Sms, NEW report \in SmsStates, AdvanceState(r, report)
      PROVE  OwnershipInv'
  <2>1. report \in {"process", "pending", "sent", "error"}
    BY <1>8, ReportsType DEF AdvanceState, TypeOK
  <2>2. sms[r] \notin {"none", "outgoing"} /\ sms'[r] \notin {"none", "outgoing"}
    BY <1>8, <2>1 DEF AdvanceState, ReportMatches, TypeOK
  <2>3. \A s \in Sms : s # r =>
            sms'[s] = sms[s] /\ tracker'[s] = tracker[s] /\ notif'[s] = notif[s]
    BY <1>8 DEF AdvanceState, MirrorTracker, Pump, TypeOK
  <2>4. \A e \in Drainer, s \in Sms : Holds(e, s)' <=> Holds(e, s)
    BY <1>8 DEF AdvanceState, drainers, Holds
  <2>5. \A s \in Sms : s # r /\ Untouched(s) => Untouched(s)'
    BY <1>8, <2>3, <2>4 DEF AdvanceState, Untouched
  <2>6. swept' = swept
    BY <1>8 DEF AdvanceState
  <2> QED
    BY <2>2, <2>3, <2>4, <2>5, <2>6, DisjointKept, UntouchedKept
<1>9. ASSUME NEW S \in SUBSET Sms, SweepStuckProcess(S)
      PROVE  OwnershipInv'
  <2>1. \A s \in Sms : sms'[s] \in {"none", "outgoing"} /\ ~swept'[s] =>
            sms'[s] = sms[s] /\ ~swept[s]
    BY <1>9 DEF SweepStuckProcess, TypeOK
  <2>2. \A s \in Sms : sms'[s] = "none" => sms[s] = "none" /\ swept'[s] = swept[s]
    BY <1>9 DEF SweepStuckProcess, Stuck, TypeOK
  <2>3. \A s \in Sms : sms'[s] = sms[s] /\ Untouched(s) => Untouched(s)'
    BY <1>9 DEF SweepStuckProcess, drainers, Untouched, Holds
  <2>4. \A s \in Sms : swept[s] => swept'[s]
    BY <1>9 DEF SweepStuckProcess, TypeOK
  <2>5. \A e \in Drainer, s \in Sms : Holds(e, s)' <=> Holds(e, s)
    BY <1>9 DEF SweepStuckProcess, drainers, Holds
  <2>6. notif' = notif
    BY <1>9 DEF SweepStuckProcess
  <2> QED
    BY <2>1, <2>2, <2>3, <2>4, <2>5, <2>6, DisjointKept, UntouchedKept
<1>10. ASSUME NEW S \in SUBSET Sms, SmsGc(S)
       PROVE  OwnershipInv'
  <2>1. \A s \in Sms : sms'[s] \in {"none", "outgoing"} => sms'[s] = sms[s]
    BY <1>10 DEF SmsGc, TypeOK
  <2>2. \A s \in Sms : sms'[s] = sms[s] /\ Untouched(s) => Untouched(s)'
    BY <1>10 DEF SmsGc, drainers, Untouched, Holds
  <2> QED
    BY <1>10, <2>1, <2>2, DisjointKept, UntouchedKept DEF SmsGc, drainers, Holds
<1>11. CASE UNCHANGED vars
  BY <1>11
  DEF vars, QueuedIsUntouched, UnbornIsBlank, ClaimsDisjoint, Untouched, Holds
<1> QED
  BY <1>1, <1>2, <1>3, <1>4, <1>5, <1>6, <1>7, <1>8, <1>9, <1>10, <1>11
  DEF Next, DrainStep, Sweep

\* No two drainers ever hold a row the sweep has not handed over.
THEOREM ClaimsDisjointHolds == Spec => []ClaimsDisjoint
BY InitTypeOK, NextTypeOK, InitOwnership, NextOwnership, PTL
DEF Spec, OwnershipInv

\* A queued row that was never swept has not been dispatched: the premise on
\* which advance_state refuses verdicts for 'outgoing' rows.
THEOREM OutgoingIsUndispatchedHolds == Spec => []OutgoingIsUndispatched
<1>1. OwnershipInv => OutgoingIsUndispatched
  BY DEF OwnershipInv, QueuedIsUntouched, Untouched, OutgoingIsUndispatched
<1> QED
  BY <1>1, InitTypeOK, NextTypeOK, InitOwnership, NextOwnership, PTL DEF Spec

-----------------------------------------------------------------------------
(***************************************************************************)
(* The truth of "Delivered".  Besides the three tables, a drainer may carry *)
(* the claim home in an answer that has not landed yet.                    *)
(***************************************************************************)
AnswersAreTrue ==
    \A d \in Drainer : call[d].answer = "Delivered" =>
        carrier[call[d].row] = "delivered"

DeliveryInv == DeliveredIsTrue /\ AnswersAreTrue

\* A delivered message stays delivered.
LEMMA DeliveredIsStable ==
    ASSUME TypeOK, [Next]_vars, NEW s \in Sms, carrier[s] = "delivered"
    PROVE  carrier'[s] = "delivered"
<1> USE DEF TypeOK
<1>1. ASSUME NEW d \in Drainer, NEW reply, Answer(d, reply)
      PROVE  carrier'[s] = "delivered"
  BY <1>1, RepliesType, CallRow DEF Answer
<1>2. ASSUME NEW d \in Drainer, Crash(d)
      PROVE  carrier'[s] = "delivered"
  BY <1>2, RepliesType, CallRow DEF Crash
<1>3. ASSUME NEW r \in Sms, NEW fate \in {"delivered", "failed"}, Settle(r, fate)
      PROVE  carrier'[s] = "delivered"
  BY <1>3 DEF Settle
<1>4. CASE UNCHANGED carrier
  BY <1>4
<1> QED
  BY <1>1, <1>2, <1>3, <1>4
  DEF Next, DrainStep, Sweep, vars, Enqueue, ClaimBatch, Send, LandOutcome,
      AbortPass, AdvanceState, SweepStuckProcess, SmsGc

\* Every step keeps "Delivered" true.
LEMMA NextDelivery == TypeOK /\ DeliveryInv /\ [Next]_vars => DeliveryInv'
<1> SUFFICES ASSUME TypeOK, TypeOK', DeliveryInv, [Next]_vars
             PROVE  DeliveryInv'
  BY NextTypeOK
<1> USE DEF DeliveryInv
\* Tables that say no more than they did, and answers nobody gave.
<1>a. ASSUME \A s \in Sms : "sent" \in {sms'[s], tracker'[s], notif'[s]} =>
                 "sent" \in {sms[s], tracker[s], notif[s]}
      PROVE  DeliveredIsTrue'
  BY <1>a, DeliveredIsStable DEF DeliveredIsTrue
<1>b. ASSUME \A d \in Drainer : call'[d] = call[d] \/ call'[d].answer # "Delivered"
      PROVE  AnswersAreTrue'
  <2> SUFFICES ASSUME NEW d \in Drainer, call'[d].answer = "Delivered"
               PROVE  carrier'[call'[d].row] = "delivered"
    BY DEF AnswersAreTrue
  <2>1. call'[d] = call[d] /\ call[d] # NoCall
    BY <1>b DEF NoCall
  <2> QED
    BY <2>1, CallRow, DeliveredIsStable DEF AnswersAreTrue, TypeOK
\* A write of one verdict to one row's tables, true of the row.
<1>c. ASSUME NEW s \in Sms, NEW target,
             target = "sent" => carrier[s] = "delivered",
             sms'[s] \in {sms[s], target}, MirrorTracker(s, target), Pump(s, target),
             \A r \in Sms : r # s => sms'[r] = sms[r]
      PROVE  DeliveredIsTrue'
  <2>1. NotificationStatusOf(target) = "sent" => target = "sent"
    BY DEF NotificationStatusOf
  <2>2. "sent" \in {sms'[s], tracker'[s], notif'[s]} => carrier[s] = "delivered"
    BY <1>c, <2>1 DEF MirrorTracker, Pump, DeliveredIsTrue, TypeOK
  <2>3. \A r \in Sms : r # s => tracker'[r] = tracker[r] /\ notif'[r] = notif[r]
    BY <1>c DEF MirrorTracker, Pump, TypeOK
  <2> QED
    BY <1>c, <2>2, <2>3, DeliveredIsStable DEF DeliveredIsTrue
<1>1. ASSUME NEW r \in Sms, NEW linked \in BOOLEAN, Enqueue(r, linked)
      PROVE  DeliveryInv'
  BY <1>1, <1>a, <1>b DEF Enqueue, drainers, TypeOK
<1>2. ASSUME NEW d \in Drainer, NEW S \in SUBSET Sms, ClaimBatch(d, S)
      PROVE  DeliveryInv'
  BY <1>2, <1>a, <1>b DEF ClaimBatch, TypeOK
<1>3. ASSUME NEW d \in Drainer, NEW r \in Sms, Send(d, r)
      PROVE  DeliveryInv'
  BY <1>3, <1>a, <1>b DEF Send, database, TypeOK
<1>4. ASSUME NEW d \in Drainer, NEW reply, Answer(d, reply)
      PROVE  DeliveryInv'
  <2>1. DeliveredIsTrue'
    BY <1>4, <1>a DEF Answer, database
  <2>2. call[d] \in Calls /\ call[d] # NoCall
    BY <1>4 DEF Answer, TypeOK
  <2>3. call[d].row \in Sms
    BY <2>2, CallRow
  <2>4. /\ carrier'[call[d].row] = reply.after
        /\ reply.answer = "Delivered" => reply.after = "delivered"
    BY <1>4, <2>3, RepliesType DEF Answer, TypeOK
  <2>5. call'[d].row = call[d].row /\ call'[d].answer = reply.answer
    BY <1>4, <2>2, CallRow DEF Answer, TypeOK
  <2>6. ASSUME NEW e \in Drainer, e # d, call'[e].answer = "Delivered"
        PROVE  carrier'[call'[e].row] = "delivered"
    <3>1. call'[e] = call[e] /\ call[e] # NoCall
      BY <1>4, <2>6 DEF Answer, TypeOK, NoCall
    <3> QED
      BY <2>6, <3>1, CallRow, DeliveredIsStable DEF AnswersAreTrue, TypeOK
  <2> QED
    BY <2>1, <2>4, <2>5, <2>6 DEF AnswersAreTrue
<1>5. ASSUME NEW d \in Drainer, LandOutcome(d)
      PROVE  DeliveryInv'
  <2> DEFINE s == call[d].row
             target == OutcomeState(call[d].answer)
  <2>1. s \in Sms
    BY <1>5, CallRow DEF LandOutcome, Answered, TypeOK, NoCall, Verdicts
  <2>2. target = "sent" => call[d].answer = "Delivered"
    BY <1>5 DEF LandOutcome, Answered, OutcomeState, Verdicts
  <2>3. target = "sent" => carrier[s] = "delivered"
    BY <2>2 DEF AnswersAreTrue
  <2>4. /\ sms'[s] \in {sms[s], target}
        /\ \A r \in Sms : r # s => sms'[r] = sms[r]
    BY <1>5, <2>1 DEF LandOutcome, ApplyOutcome, TypeOK
  <2>5. MirrorTracker(s, target) /\ Pump(s, target)
    BY <1>5 DEF LandOutcome
  <2>6. AnswersAreTrue'
    BY <1>5, <1>b DEF LandOutcome, NoCall, TypeOK
  <2> HIDE DEF s, target
  <2> QED
    BY <2>1, <2>3, <2>4, <2>5, <2>6, <1>c
<1>6. ASSUME NEW d \in Drainer, AbortPass(d) \/ Crash(d)
      PROVE  DeliveryInv'
  BY <1>6, <1>a, <1>b DEF AbortPass, Crash, database, NoCall, TypeOK
<1>7. ASSUME NEW r \in Sms, NEW fate \in {"delivered", "failed"}, Settle(r, fate)
      PROVE  DeliveryInv'
  BY <1>7, <1>a, <1>b DEF Settle, database, drainers
<1>8. ASSUME NEW r \in Sms, NEW report \in SmsStates, AdvanceState(r, report)
      PROVE  DeliveryInv'
  <2>1. report = "sent" => carrier[r] = "delivered"
    BY <1>8 DEF AdvanceState, Reports, TypeOK, CarrierStates
  <2>2. /\ sms'[r] = report
        /\ \A s \in Sms : s # r => sms'[s] = sms[s]
    BY <1>8 DEF AdvanceState, TypeOK
  <2>3. MirrorTracker(r, report) /\ Pump(r, report)
    BY <1>8 DEF AdvanceState
  <2>4. AnswersAreTrue'
    BY <1>8, <1>b DEF AdvanceState, drainers
  <2> QED
    BY <2>1, <2>2, <2>3, <2>4, <1>c
<1>9. ASSUME NEW S \in SUBSET Sms, SweepStuckProcess(S)
      PROVE  DeliveryInv'
  BY <1>9, <1>a, <1>b DEF SweepStuckProcess, drainers, TypeOK
<1>10. ASSUME NEW S \in SUBSET Sms, SmsGc(S)
       PROVE  DeliveryInv'
  BY <1>10, <1>a, <1>b DEF SmsGc, drainers, TypeOK
<1>11. CASE UNCHANGED vars
  BY <1>11, <1>a, <1>b DEF vars
<1> QED
  BY <1>1, <1>2, <1>3, <1>4, <1>5, <1>6, <1>7, <1>8, <1>9, <1>10, <1>11
  DEF Next, DrainStep, Sweep

\* Whoever wrote it, drainer or webhook, and however late: a table says
\* "Delivered" only of a delivered message.
THEOREM DeliveredIsTrueHolds == Spec => []DeliveredIsTrue
<1>1. Init => DeliveryInv
  BY DEF Init, DeliveryInv, DeliveredIsTrue, AnswersAreTrue, NoCall
<1> QED
  BY <1>1, InitTypeOK, NextTypeOK, NextDelivery, PTL DEF Spec, DeliveryInv

-----------------------------------------------------------------------------
(***************************************************************************)
(* The recipient's badge.                                                  *)
(***************************************************************************)

\* The map keeps the rank, and every status has one.
LEMMA MapKeepsRank ==
    ASSUME NEW state \in SmsStates
    PROVE  /\ StatusRank(NotificationStatusOf(state)) = StatusRank(state)
           /\ StatusRank(state) \in Int
BY DEF SmsStates, NotificationStatusOf, StatusRank

\* Every notification status has a rank.
LEMMA NotificationRankType ==
    ASSUME NEW status \in NotificationStatuses
    PROVE  StatusRank(status) \in Int
BY DEF NotificationStatuses, StatusRank

\* After a transaction ran the pump, the badge has caught up with the verdict
\* and has not fallen.
LEMMA PumpCatchesUp ==
    ASSUME TypeOK, NEW s \in Sms, NEW target \in SmsStates, Pump(s, target),
           notif[s] # "none"
    PROVE  /\ notif'[s] # "none"
           /\ ~Outranks(target, notif'[s])
           /\ \A state \in SmsStates :
                  ~Outranks(state, notif[s]) => ~Outranks(state, notif'[s])
<1>1. notif[s] \in NotificationStatuses /\ StatusRank(notif[s]) \in Int
  BY NotificationRankType DEF TypeOK
<1>2. NotificationStatusOf(target) \in NotificationStatuses
  BY NotificationStatusOfType
<1>3. \A state \in SmsStates : StatusRank(state) \in Int
  BY MapKeepsRank
<1>4. CASE PumpAdvances(s, target)
  <2>1. notif'[s] = NotificationStatusOf(target)
    BY <1>4 DEF Pump, TypeOK
  <2>2. StatusRank(notif'[s]) = StatusRank(target)
    BY <2>1, MapKeepsRank
  <2>3. StatusRank(notif'[s]) > StatusRank(notif[s])
    BY <1>4, <2>1 DEF PumpAdvances, Outranks
  <2>4. notif'[s] # "none"
    BY <1>2, <2>1 DEF NotificationStatuses
  <2> QED
    BY <1>1, <1>3, <2>2, <2>3, <2>4 DEF Outranks
<1>5. CASE ~PumpAdvances(s, target)
  <2>1. notif'[s] = notif[s]
    BY <1>5 DEF Pump
  <2>2. ~(StatusRank(target) > StatusRank(notif[s]))
    BY <1>5, MapKeepsRank DEF PumpAdvances, Outranks
  <2> QED
    BY <2>1, <2>2 DEF Outranks
<1> QED
  BY <1>4, <1>5

\* A transaction that writes one row's verdict and pumps it.
LEMMA VerdictIsCovered ==
    ASSUME TypeOK, BadgeCoversRow, NEW s \in Sms, NEW target \in SmsStates,
           Pump(s, target), sms'[s] \in {sms[s], target},
           \A r \in Sms : r # s => sms'[r] = sms[r]
    PROVE  BadgeCoversRow'
<1>1. \A r \in Sms : r # s => notif'[r] = notif[r]
  BY DEF Pump, TypeOK
<1>2. notif[s] = "none" => notif'[s] = "none"
  BY DEF Pump, PumpAdvances
<1>3. sms'[s] \in {"pending", "sent", "error"} /\ notif'[s] # "none" =>
          ~Outranks(sms'[s], notif'[s])
  BY <1>2, PumpCatchesUp DEF BadgeCoversRow, SmsStates
<1> QED
  BY <1>1, <1>3 DEF BadgeCoversRow

\* Every step keeps the badge level with the row.
LEMMA NextCovered == TypeOK /\ BadgeCoversRow /\ [Next]_vars => BadgeCoversRow'
<1> SUFFICES ASSUME TypeOK, BadgeCoversRow, [Next]_vars
             PROVE  BadgeCoversRow'
  OBVIOUS
\* Steps that move rows only to states the badge need not cover.
<1>a. ASSUME \A s \in Sms : sms'[s] \in {"pending", "sent", "error"} =>
                 sms'[s] = sms[s] /\ notif'[s] = notif[s]
      PROVE  BadgeCoversRow'
  BY <1>a DEF BadgeCoversRow
<1>1. ASSUME NEW r \in Sms, NEW linked \in BOOLEAN, Enqueue(r, linked)
      PROVE  BadgeCoversRow'
  BY <1>1, <1>a DEF Enqueue, TypeOK
<1>2. ASSUME NEW d \in Drainer, NEW S \in SUBSET Sms, ClaimBatch(d, S)
      PROVE  BadgeCoversRow'
  BY <1>2, <1>a DEF ClaimBatch, TypeOK
<1>3. ASSUME NEW d \in Drainer, LandOutcome(d)
      PROVE  BadgeCoversRow'
  <2> DEFINE s == call[d].row
             target == OutcomeState(call[d].answer)
  <2>1. s \in Sms
    BY <1>3, CallRow DEF LandOutcome, Answered, TypeOK, NoCall, Verdicts
  <2>2. target \in SmsStates
    BY <1>3, OutcomeStateType DEF LandOutcome, Answered, SmsStates
  <2>3. /\ sms'[s] \in {sms[s], target}
        /\ \A r \in Sms : r # s => sms'[r] = sms[r]
    BY <1>3, <2>1 DEF LandOutcome, ApplyOutcome, TypeOK
  <2>4. Pump(s, target)
    BY <1>3 DEF LandOutcome
  <2> HIDE DEF s, target
  <2> QED
    BY <2>1, <2>2, <2>3, <2>4, VerdictIsCovered
<1>4. ASSUME NEW r \in Sms, NEW report \in SmsStates, AdvanceState(r, report)
      PROVE  BadgeCoversRow'
  <2>1. /\ sms'[r] = report
        /\ \A s \in Sms : s # r => sms'[s] = sms[s]
    BY <1>4 DEF AdvanceState, TypeOK
  <2> QED
    BY <1>4, <2>1, VerdictIsCovered DEF AdvanceState
<1>5. ASSUME NEW S \in SUBSET Sms, SweepStuckProcess(S) \/ SmsGc(S)
      PROVE  BadgeCoversRow'
  BY <1>5, <1>a DEF SweepStuckProcess, SmsGc, TypeOK
<1>6. CASE UNCHANGED <<sms, notif>>
  BY <1>6, <1>a
<1> QED
  BY <1>1, <1>2, <1>3, <1>4, <1>5, <1>6
  DEF Next, DrainStep, Sweep, vars, Send, Answer, AbortPass, Crash, Settle, database

\* The recipient's badge never lags the verdict its sms row carries, whichever
\* of drainer and webhook brought the verdict.
THEOREM BadgeCoversRowHolds == Spec => []BadgeCoversRow
<1>1. Init => BadgeCoversRow
  BY DEF Init, BadgeCoversRow
<1> QED
  BY <1>1, InitTypeOK, NextTypeOK, NextCovered, PTL DEF Spec

-----------------------------------------------------------------------------
(***************************************************************************)
(* The pipeline implements the abstract delivery badge.                    *)
(***************************************************************************)

\* A transaction whose pump did not raise advances one badge or none.
LEMMA PumpIsAdvance ==
    ASSUME TypeOK, NEW s \in Sms, NEW target \in SmsStates,
           Pump(s, target), ~PumpRaises(s, target)
    PROVE  [Badge!Next]_notif
<1> DEFINE status == NotificationStatusOf(target)
<1>1. CASE PumpAdvances(s, target)
  <2>1. status \in NotificationStatuses
    BY NotificationStatusOfType
  <2>2. /\ notif[s] \in NotificationStatuses
        /\ Outranks(status, notif[s])
        /\ NotificationWriteAllowed(notif[s], status)
    BY <1>1 DEF PumpAdvances, PumpRaises, TypeOK
  <2>3. notif' = [r \in Sms |-> IF r \in {s} THEN status ELSE notif[r]]
    BY <1>1 DEF Pump, TypeOK
  <2>4. Badge!Advance(status, {s})
    BY <2>2, <2>3
    DEF Badge!Advance, Badge!Live, Badge!Outranks, Badge!StatusRank, Outranks,
        StatusRank, Badge!NotificationWriteAllowed, NotificationWriteAllowed,
        Badge!NotificationTransitions, NotificationTransitions,
        Badge!NotificationStatuses, NotificationStatuses
  <2>5. status \in Badge!NotificationStatuses
    BY <2>1 DEF Badge!NotificationStatuses, NotificationStatuses
  <2> HIDE DEF status
  <2> QED
    BY <2>4, <2>5 DEF Badge!Next
<1>2. CASE ~PumpAdvances(s, target)
  BY <1>2 DEF Pump
<1> QED
  BY <1>1, <1>2

\* Every step of the pipeline is a step of the badge, or leaves it alone.
LEMMA NextBadge == TypeOK /\ OwnershipInv /\ [Next]_vars => [Badge!Next]_notif
<1> SUFFICES ASSUME TypeOK, OwnershipInv, [Next]_vars
             PROVE  [Badge!Next]_notif
  OBVIOUS
<1>1. ASSUME NEW s \in Sms, NEW linked \in BOOLEAN, Enqueue(s, linked)
      PROVE  [Badge!Next]_notif
  <2>1. notif[s] = "none"
    BY <1>1 DEF Enqueue, OwnershipInv, UnbornIsBlank
  <2>2. CASE linked
    <3>1. notif' = [r \in Sms |-> IF r \in {s} THEN "ready" ELSE notif[r]]
      BY <1>1, <2>2 DEF Enqueue, TypeOK
    <3>2. Badge!Mint({s})
      BY <2>1, <3>1 DEF Badge!Mint
    <3> QED
      BY <3>2 DEF Badge!Next
  <2>3. CASE ~linked
    BY <1>1, <2>1, <2>3 DEF Enqueue, TypeOK
  <2> QED
    BY <2>2, <2>3
<1>2. ASSUME NEW d \in Drainer, LandOutcome(d)
      PROVE  [Badge!Next]_notif
  <2> DEFINE s == call[d].row
             target == OutcomeState(call[d].answer)
  <2>1. s \in Sms
    BY <1>2, CallRow DEF LandOutcome, Answered, TypeOK, NoCall, Verdicts
  <2>2. target \in SmsStates
    BY <1>2, OutcomeStateType DEF LandOutcome, Answered, SmsStates
  <2>3. Pump(s, target) /\ ~PumpRaises(s, target)
    BY <1>2 DEF LandOutcome
  <2> HIDE DEF s, target
  <2> QED
    BY <2>1, <2>2, <2>3, PumpIsAdvance
<1>3. ASSUME NEW s \in Sms, NEW report \in SmsStates, AdvanceState(s, report)
      PROVE  [Badge!Next]_notif
  BY <1>3, PumpIsAdvance DEF AdvanceState, ReportRaises
<1>4. CASE UNCHANGED notif
  BY <1>4
<1> QED
  BY <1>1, <1>2, <1>3, <1>4
  DEF Next, DrainStep, Sweep, vars, ClaimBatch, Send, Answer, AbortPass, Crash,
      Settle, SweepStuckProcess, SmsGc, database

\* The linked notifications implement the abstract badge: they only climb,
\* along declared moves, and a failure freezes them.
THEOREM ImplementsBadge == Spec => BadgeSpec
<1>1. Init => Badge!Init
  BY DEF Init, Badge!Init
<1> QED
  BY <1>1, InitTypeOK, NextTypeOK, InitOwnership, NextOwnership, NextBadge, PTL
  DEF Spec, BadgeSpec, Badge!Spec

-----------------------------------------------------------------------------
(***************************************************************************)
(* The pipeline implements the ledger of send attempts.                    *)
(***************************************************************************)
ledger == <<Open, HolderOf, sends, Granted>>

\* Steps the ledger does not see: no row enters or leaves the queue, no drainer
\* takes work or drops it, and no marker is minted.
LEMMA LedgerStutters ==
    ASSUME TypeOK, UNCHANGED <<todo, sends>>,
           \A s \in Sms : /\ sms'[s] = "outgoing" <=> sms[s] = "outgoing"
                          /\ sms'[s] = "none" <=> sms[s] = "none"
                          /\ swept'[s] = swept[s]
    PROVE  [Ledger!Next]_ledger
BY DEF ledger, Open, HolderOf, Granted

\* Every step of the pipeline is a step of the ledger, or leaves it alone.
LEMMA NextLedger == TypeOK /\ OwnershipInv /\ [Next]_vars => [Ledger!Next]_ledger
<1> SUFFICES ASSUME TypeOK, OwnershipInv, [Next]_vars
             PROVE  [Ledger!Next]_ledger
  OBVIOUS
<1>1. ASSUME NEW r \in Sms, NEW linked \in BOOLEAN, Enqueue(r, linked)
      PROVE  [Ledger!Next]_ledger
  <2>1. sms[r] = "none" /\ ~swept[r]
    BY <1>1 DEF Enqueue, OwnershipInv, UnbornIsBlank
  <2>2. \A s \in {r} : ~Open[s]
    BY <2>1 DEF Open
  <2>3. Open' = [s \in Sms |-> Open[s] \/ s \in {r}]
    BY <1>1 DEF Enqueue, Open, TypeOK
  <2>4. Granted' = [s \in Sms |-> IF s \in {r} THEN Granted[s] + 1 ELSE Granted[s]]
    BY <1>1, <2>1 DEF Enqueue, Granted, TypeOK
  <2>5. UNCHANGED <<HolderOf, sends>>
    BY <1>1 DEF Enqueue, drainers, HolderOf
  <2>6. Ledger!Grant({r})
    BY <2>2, <2>3, <2>4, <2>5 DEF Ledger!Grant
  <2> QED
    BY <2>6 DEF Ledger!Next
<1>2. ASSUME NEW d \in Drainer, NEW S \in SUBSET Sms, ClaimBatch(d, S)
      PROVE  [Ledger!Next]_ledger
  <2>1. \A s \in S : Open[s] /\ d \notin HolderOf[s]
    BY <1>2 DEF ClaimBatch, Open, HolderOf
  <2>2. Open' = [s \in Sms |-> Open[s] /\ s \notin S]
    BY <1>2 DEF ClaimBatch, Open, TypeOK
  <2>3. HolderOf' = [s \in Sms |-> IF s \in S THEN HolderOf[s] \cup {d} ELSE HolderOf[s]]
    <3>1. \A s \in Sms : HolderOf'[s] =
              IF s \in S THEN HolderOf[s] \cup {d} ELSE HolderOf[s]
      BY <1>2 DEF ClaimBatch, HolderOf, TypeOK
    <3> QED
      BY <3>1 DEF HolderOf
  <2>4. Granted' = Granted /\ sends' = sends
    BY <1>2 DEF ClaimBatch, Granted, TypeOK
  <2>5. Ledger!Claim(d, S)
    BY <2>1, <2>2, <2>3, <2>4 DEF Ledger!Claim
  <2> QED
    BY <2>5 DEF Ledger!Next
<1>3. ASSUME NEW d \in Drainer, NEW r \in Sms, Send(d, r)
      PROVE  [Ledger!Next]_ledger
  <2>1. d \in HolderOf[r] /\ HolderOf' = [HolderOf EXCEPT ![r] = @ \ {d}]
    <3>1. \A s \in Sms :
              HolderOf'[s] = IF s = r THEN HolderOf[s] \ {d} ELSE HolderOf[s]
      BY <1>3 DEF Send, HolderOf, TypeOK
    <3> QED
      BY <1>3, <3>1 DEF Send, HolderOf
  <2>2. sends' = [sends EXCEPT ![r] = @ + 1] /\ UNCHANGED <<Open, Granted>>
    BY <1>3 DEF Send, database, Open, Granted
  <2>3. Ledger!HandOut(d, r)
    BY <2>1, <2>2 DEF Ledger!HandOut
  <2> QED
    BY <2>3 DEF Ledger!Next
\* A drainer that dies or aborts its pass gives up everything it still holds.
<1>4. ASSUME NEW d \in Drainer, AbortPass(d) \/ Crash(d)
      PROVE  [Ledger!Next]_ledger
  <2>1. HolderOf' = [s \in Sms |-> IF s \in Sms THEN HolderOf[s] \ {d} ELSE HolderOf[s]]
    <3>1. \A s \in Sms : HolderOf'[s] = HolderOf[s] \ {d}
      BY <1>4 DEF AbortPass, Crash, HolderOf, TypeOK
    <3> QED
      BY <3>1 DEF HolderOf
  <2>2. UNCHANGED <<Open, Granted, sends>>
    BY <1>4 DEF AbortPass, Crash, database, Open, Granted
  <2>3. Open' = [s \in Sms |-> Open[s] /\ s \notin {}]
    BY <2>2 DEF Open
  <2>4. Ledger!GiveUp(d, Sms, {})
    BY <2>1, <2>2, <2>3 DEF Ledger!GiveUp
  <2> QED
    BY <2>4 DEF Ledger!Next
<1>5. ASSUME NEW d \in Drainer, LandOutcome(d)
      PROVE  [Ledger!Next]_ledger
  <2>1. OutcomeState(call[d].answer) \notin {"none", "outgoing"}
    BY <1>5, OutcomeStateType DEF LandOutcome, Answered
  <2> QED
    BY <1>5, <2>1, LedgerStutters DEF LandOutcome, ApplyOutcome, TypeOK
<1>6. ASSUME NEW r \in Sms, NEW report \in SmsStates, AdvanceState(r, report)
      PROVE  [Ledger!Next]_ledger
  <2>1. report \notin {"none", "outgoing"}
    BY <1>6, ReportsType DEF AdvanceState, TypeOK
  <2> QED
    BY <1>6, <2>1, LedgerStutters DEF AdvanceState, ReportMatches, drainers, TypeOK
<1>7. ASSUME NEW S \in SUBSET Sms, SweepStuckProcess(S)
      PROVE  [Ledger!Next]_ledger
  <2> DEFINE R == {s \in S : Requeueable(s)}
  <2>1. \A s \in R : sms[s] = "process" /\ ~swept[s]
    BY <1>7 DEF SweepStuckProcess, Stuck, Requeueable
  <2>2. /\ sms' = [s \in Sms |-> IF s \in R THEN "outgoing" ELSE sms[s]]
        /\ swept' = [s \in Sms |-> swept[s] \/ s \in R]
        /\ UNCHANGED <<todo, sends>>
    BY <1>7 DEF SweepStuckProcess, drainers
  <2>3. R \subseteq Sms
    OBVIOUS
  <2> HIDE DEF R
  <2>4. \A s \in R : ~Open[s]
    BY <2>1, <2>3 DEF Open
  <2>5. Open' = [s \in Sms |-> Open[s] \/ s \in R]
    <3>1. \A s \in Sms : sms'[s] = "outgoing" <=> sms[s] = "outgoing" \/ s \in R
      BY <2>2
    <3> QED
      BY <3>1 DEF Open
  <2>6. Granted' = [s \in Sms |-> IF s \in R THEN Granted[s] + 1 ELSE Granted[s]]
    <3>1. \A s \in R : Granted[s] = 1 /\ Granted'[s] = 2
      <4>1. \A s \in R : sms'[s] = "outgoing" /\ swept'[s]
        BY <2>2, <2>3
      <4> QED
        BY <2>1, <2>3, <4>1 DEF Granted
    <3>2. \A s \in Sms \ R : Granted'[s] = Granted[s]
      <4>1. \A s \in Sms \ R : sms'[s] = sms[s] /\ (swept'[s] <=> swept[s])
        BY <2>2
      <4> QED
        BY <4>1 DEF Granted
    <3>3. \A s \in Sms : Granted'[s] = IF s \in R THEN Granted[s] + 1 ELSE Granted[s]
      BY <3>1, <3>2
    <3> QED
      BY <3>3 DEF Granted
  <2>7. UNCHANGED <<HolderOf, sends>>
    BY <2>2 DEF HolderOf
  <2>8. Ledger!Grant(R)
    BY <2>4, <2>5, <2>6, <2>7 DEF Ledger!Grant
  <2> QED
    BY <2>8, <2>3 DEF Ledger!Next
<1>8. ASSUME NEW S \in SUBSET Sms, SmsGc(S)
      PROVE  [Ledger!Next]_ledger
  BY <1>8, LedgerStutters DEF SmsGc, drainers, TypeOK
<1>9. CASE UNCHANGED <<sms, swept, todo, sends>>
  BY <1>9 DEF ledger, Open, HolderOf, Granted
<1> QED
  BY <1>1, <1>2, <1>3, <1>4, <1>5, <1>6, <1>7, <1>8, <1>9
  DEF Next, DrainStep, Sweep, vars, Answer, Settle, database, drainers

\* Each attempt to hand a message to the provider was granted by its insert or
\* by its one sweep, claimed by one drainer, and then made once or lost.
THEOREM ImplementsLedger == Spec => LedgerSpec
<1>1. Init => Ledger!Init
  BY DEF Init, Ledger!Init, Open, HolderOf, Granted
<1> QED
  BY <1>1, InitTypeOK, NextTypeOK, InitOwnership, NextOwnership, NextLedger, PTL
  DEF Spec, LedgerSpec, Ledger!Spec, ledger

-----------------------------------------------------------------------------
(***************************************************************************)
(* The writes of the queue and the triggers of the table.                  *)
(***************************************************************************)

\* What the triggers say of the writes the drainer and the sweep make.
LEMMA DrainWritesAllowed ==
    /\ SmsWriteAllowed("outgoing", "process", FALSE)
    /\ SmsWriteAllowed("process", "outgoing", TRUE)
    /\ \A target \in {"process", "pending", "sent", "error"} :
           SmsWriteAllowed("process", target, FALSE)
BY DEF SmsWriteAllowed, SmsTransitions, StatusRank

\* Every write of an sms row in every reachable step is one its triggers let
\* through: none of the queue's own transactions can be refused by them.
THEOREM WritesAreLegalHolds == Spec => WritesAreLegal
<1> DEFINE Legal(s) == sms[s] \in SmsStates /\ sms'[s] \in SmsStates =>
               SmsWriteAllowed(sms[s], sms'[s], ~swept[s] /\ swept'[s])
<1>a. ASSUME NEW s \in Sms, sms'[s] = sms[s] PROVE Legal(s)
  BY <1>a DEF SmsWriteAllowed
<1>1. TypeOK /\ [Next]_vars => \A s \in Sms : Legal(s)
  <2> SUFFICES ASSUME TypeOK, [Next]_vars, NEW s \in Sms, sms'[s] # sms[s]
               PROVE  Legal(s)
    BY <1>a
  <2>1. ASSUME NEW r \in Sms, NEW linked \in BOOLEAN, Enqueue(r, linked)
        PROVE  Legal(s)
    BY <2>1 DEF Enqueue, TypeOK, SmsStates
  <2>2. ASSUME NEW d \in Drainer, NEW S \in SUBSET Sms, ClaimBatch(d, S)
        PROVE  Legal(s)
    <3>1. sms[s] = "outgoing" /\ sms'[s] = "process" /\ swept'[s] = swept[s]
      BY <2>2 DEF ClaimBatch, TypeOK
    <3> QED
      BY <3>1, DrainWritesAllowed DEF TypeOK
  <2>3. ASSUME NEW d \in Drainer, LandOutcome(d)
        PROVE  Legal(s)
    <3>1. OutcomeState(call[d].answer) \in {"process", "pending", "sent", "error"}
      BY <2>3, OutcomeStateType DEF LandOutcome, Answered
    <3>2. /\ sms[s] = "process" /\ swept'[s] = swept[s]
          /\ sms'[s] = OutcomeState(call[d].answer)
      BY <2>3 DEF LandOutcome, ApplyOutcome, TypeOK
    <3> QED
      BY <3>1, <3>2, DrainWritesAllowed DEF TypeOK
  <2>4. ASSUME NEW r \in Sms, NEW report \in SmsStates, AdvanceState(r, report)
        PROVE  Legal(s)
    <3>1. s = r /\ sms'[s] = report /\ swept'[s] = swept[s]
      BY <2>4 DEF AdvanceState, TypeOK
    <3>2. SmsWriteAllowed(sms[s], report, FALSE)
      BY <2>4, <3>1 DEF AdvanceState, ReportRaises
    <3> QED
      BY <3>1, <3>2 DEF TypeOK
  <2>5. ASSUME NEW S \in SUBSET Sms, SweepStuckProcess(S)
        PROVE  Legal(s)
    <3>1. /\ sms[s] = "process" /\ sms'[s] = "outgoing"
          /\ ~swept[s] /\ swept'[s]
      BY <2>5 DEF SweepStuckProcess, Stuck, Requeueable, TypeOK
    <3> QED
      BY <3>1, DrainWritesAllowed
  <2>6. ASSUME NEW S \in SUBSET Sms, SmsGc(S)
        PROVE  Legal(s)
    BY <2>6 DEF SmsGc, TypeOK, SmsStates
  <2> QED
    BY <2>1, <2>2, <2>3, <2>4, <2>5, <2>6
    DEF Next, DrainStep, Sweep, vars, Send, Answer, AbortPass, Crash, Settle, database
<1> QED
  BY <1>1, InitTypeOK, NextTypeOK, PTL DEF Spec, WritesAreLegal

=============================================================================
