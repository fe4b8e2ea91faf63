----------------------------- MODULE SmsPipeline -----------------------------
(***************************************************************************)
(* The SMS send queue: the `sms` rows, their trackers and the linked       *)
(* notifications, written by concurrent drainers (process_queue), by the   *)
(* provider's status webhook (advance_state), by the stuck-row sweep and   *)
(* by the retention job.  Every action is one database transaction or one  *)
(* half of a provider round trip; a row lock, held to commit, orders the   *)
(* transactions that write the same sms row.                               *)
(***************************************************************************)
EXTENDS StatusLattice, FiniteSets

CONSTANTS
    Sms,          \* The sms rows that may be enqueued
    Drainer,      \* The scheduler workers that may run process_queue
    Batch,        \* process_queue's claim limit
    SlowDrainers  \* May a live drainer hold a row past the stuck threshold?

ASSUME SmsAssumption ==
    /\ "none" \notin Sms
    /\ IsFiniteSet(Drainer)
    /\ Batch \in Nat \ {0}
    /\ SlowDrainers \in BOOLEAN

VARIABLES
    sms,      \* State column of each row; "none" before, "gone" after its life
    swept,    \* Does the row carry the `swept_at` marker?
    tracker,  \* State column of the row's tracker
    notif,    \* Status of the linked notification, "none" when there is none
    todo,     \* Claimed rows a drainer has not sent yet (its process memory)
    call,     \* The drainer's current provider round trip
    carrier,  \* What really became of the message at the provider
    sends     \* History: how often the row was handed to the provider

vars == <<sms, swept, tracker, notif, todo, call, carrier, sends>>
database == <<sms, swept, tracker, notif>>
drainers == <<todo, call>>

-----------------------------------------------------------------------------
(***************************************************************************)
(* The provider's vocabulary.                                              *)
(***************************************************************************)
Verdicts == {"Processing", "Accepted", "Delivered", "Err"}

CarrierStates == {"none", "accepted", "delivered", "failed"}

\* Faulty variant: the label of 'pending' ("Sent") taken for its value.
OutcomeStateByLabel(verdict) ==
    CASE verdict = "Processing" -> "process"
      [] verdict \in {"Accepted", "Delivered"} -> "sent"
      [] verdict = "Err" -> "error"

\* The sms state apply_outcome_in_tx derives from the port's answer.
OutcomeState(verdict) ==
    CASE verdict = "Processing" -> "process"
      [] verdict = "Accepted" -> "pending"
      [] verdict = "Delivered" -> "sent"
      [] verdict = "Err" -> "error"

\* The callbacks the provider may send, late, repeated and in any order, once
\* it knows this much about the message.
Reports(c) ==
    CASE c = "none" -> {}
      [] c = "accepted" -> {"process", "pending"}
      [] c = "delivered" -> {"process", "pending", "sent"}
      [] c = "failed" -> {"process", "pending", "error"}

NoCall == [row |-> "none", answer |-> "none"]

Calls == {NoCall} \cup [row : Sms, answer : Verdicts \cup {"none"}]

Answered(d) == call[d].answer \in Verdicts

Holds(d, s) == s \in todo[d] \/ call[d].row = s

-----------------------------------------------------------------------------
(***************************************************************************)
(* The notification pump, shared by the drainer and the webhook.           *)
(***************************************************************************)
PumpAdvances(s, target) ==
    notif[s] # "none" /\ Outranks(NotificationStatusOf(target), notif[s])

\* Faulty variant: the transition check left in its shadow (warning) form.
PumpOnlyWarns(s, target) == FALSE

\* The rank guard lets the write through and the transition check refuses it.
PumpRaises(s, target) ==
    /\ PumpAdvances(s, target)
    /\ ~NotificationWriteAllowed(notif[s], NotificationStatusOf(target))

Pump(s, target) ==
    notif' = IF PumpAdvances(s, target)
             THEN [notif EXCEPT ![s] = NotificationStatusOf(target)]
             ELSE notif

MirrorTracker(s, target) ==
    tracker' = [tracker EXCEPT ![s] = NotificationStatusOf(target)]

-----------------------------------------------------------------------------
Init ==
    /\ sms = [s \in Sms |-> "none"]
    /\ swept = [s \in Sms |-> FALSE]
    /\ tracker = [s \in Sms |-> "none"]
    /\ notif = [s \in Sms |-> "none"]
    /\ todo = [d \in Drainer |-> {}]
    /\ call = [d \in Drainer |-> NoCall]
    /\ carrier = [s \in Sms |-> "none"]
    /\ sends = [s \in Sms |-> 0]

\* The row, its tracker and, for a thread post, its notification are one
\* transaction; a composer's bulk sms has no notification.
Enqueue(s, linked) ==
    /\ sms[s] = "none"
    /\ sms' = [sms EXCEPT ![s] = "outgoing"]
    /\ tracker' = [tracker EXCEPT ![s] = "process"]
    /\ notif' = [notif EXCEPT ![s] = IF linked THEN "ready" ELSE "none"]
    /\ UNCHANGED <<swept, drainers, carrier, sends>>

\* Faulty variant: a claim that also takes rows already in 'process'.
ClaimBatchUnguarded(d, S) ==
    /\ todo[d] = {} /\ call[d] = NoCall
    /\ S # {} /\ Cardinality(S) <= Batch
    /\ \A s \in S : sms[s] \in {"outgoing", "process"}
    /\ sms' = [s \in Sms |-> IF s \in S THEN "process" ELSE sms[s]]
    /\ todo' = [todo EXCEPT ![d] = S]
    /\ UNCHANGED <<swept, tracker, notif, call, carrier, sends>>

\* Faulty variant: a claim that leaves swept rows alone.
ClaimBatchUnswept(d, S) ==
    /\ todo[d] = {} /\ call[d] = NoCall
    /\ S # {} /\ Cardinality(S) <= Batch
    /\ \A s \in S : sms[s] = "outgoing" /\ ~swept[s]
    /\ sms' = [s \in Sms |-> IF s \in S THEN "process" ELSE sms[s]]
    /\ todo' = [todo EXCEPT ![d] = S]
    /\ UNCHANGED <<swept, tracker, notif, call, carrier, sends>>

\* One committed claim.  Rows another transaction has locked are skipped, so
\* the batch is some outgoing rows and not always the first ones.
ClaimBatch(d, S) ==
    /\ todo[d] = {} /\ call[d] = NoCall
    /\ S # {} /\ Cardinality(S) <= Batch
    /\ \A s \in S : sms[s] = "outgoing"
    /\ sms' = [s \in Sms |-> IF s \in S THEN "process" ELSE sms[s]]
    /\ todo' = [todo EXCEPT ![d] = S]
    /\ UNCHANGED <<swept, tracker, notif, call, carrier, sends>>

\* port.send leaves for the provider, outside any transaction.
Send(d, s) ==
    /\ call[d] = NoCall /\ s \in todo[d]
    /\ todo' = [todo EXCEPT ![d] = @ \ {s}]
    /\ call' = [call EXCEPT ![d] = [row |-> s, answer |-> "none"]]
    /\ sends' = [sends EXCEPT ![s] = @ + 1]
    /\ UNCHANGED <<database, carrier>>

\* How the provider answers a request, and what it then does with it.  An Err
\* may follow a refusal, a request that never arrived, or a lost reply.
Replies(before) ==
    { [answer |-> a, after |-> IF before = "delivered" THEN before ELSE "accepted"]
        : a \in {"Processing", "Accepted", "Err"} }
    \cup { [answer |-> "Delivered", after |-> "delivered"],
           [answer |-> "Err", after |-> before] }

Answer(d, reply) ==
    /\ call[d] # NoCall /\ ~Answered(d)
    /\ reply \in Replies(carrier[call[d].row])
    /\ call' = [call EXCEPT ![d].answer = reply.answer]
    /\ carrier' = [carrier EXCEPT ![call[d].row] = reply.after]
    /\ UNCHANGED <<database, todo, sends>>

\* The first write of the outcome transaction: state-guarded on 'process'.
ApplyOutcome(s, target) ==
    sms' = IF sms[s] = "process" THEN [sms EXCEPT ![s] = target] ELSE sms

\* apply_outcome_in_tx: the row write may match nothing, but the tracker
\* mirror and the pump run all the same.
LandOutcome(d) ==
    LET s == call[d].row
        target == OutcomeState(call[d].answer)
    IN  /\ Answered(d)
        /\ ~PumpRaises(s, target)
        /\ ApplyOutcome(s, target)
        /\ MirrorTracker(s, target)
        /\ Pump(s, target)
        /\ call' = [call EXCEPT ![d] = NoCall]
        /\ UNCHANGED <<swept, todo, carrier, sends>>

\* The pump raised: the outcome is rolled back, and the `?` ends the pass with
\* the rest of the batch still claimed.
OutcomeRaises(d) ==
    /\ Answered(d)
    /\ PumpRaises(call[d].row, OutcomeState(call[d].answer))

AbortPass(d) ==
    /\ OutcomeRaises(d)
    /\ call' = [call EXCEPT ![d] = NoCall]
    /\ todo' = [todo EXCEPT ![d] = {}]
    /\ UNCHANGED <<database, carrier, sends>>

\* The process dies; a request on the wire may still reach the provider.
Crash(d) ==
    /\ todo[d] # {} \/ call[d] # NoCall
    /\ todo' = [todo EXCEPT ![d] = {}]
    /\ call' = [call EXCEPT ![d] = NoCall]
    /\ IF call[d] = NoCall \/ Answered(d)
       THEN UNCHANGED carrier
       ELSE \E reply \in Replies(carrier[call[d].row]) :
                carrier' = [carrier EXCEPT ![call[d].row] = reply.after]
    /\ UNCHANGED <<database, sends>>

\* The provider learns the fate of a message it accepted.
Settle(s, fate) ==
    /\ carrier[s] = "accepted"
    /\ carrier' = [carrier EXCEPT ![s] = fate]
    /\ UNCHANGED <<database, drainers, sends>>

-----------------------------------------------------------------------------
(***************************************************************************)
(* A verified webhook callback.  It matches a 'process' or 'pending' row   *)
(* that is not already in the reported state, and any refused write rolls  *)
(* the whole call back.                                                    *)
(***************************************************************************)
ReportMatches(s, report) ==
    sms[s] \in {"process", "pending"} /\ sms[s] # report

ReportRaises(s, report) ==
    /\ ReportMatches(s, report)
    /\ \/ ~SmsWriteAllowed(sms[s], report, FALSE)
       \/ PumpRaises(s, report)

\* Faulty variant: the row and its tracker advance without the pump.
AdvanceStateWithoutPump(s, report) ==
    /\ report \in Reports(carrier[s])
    /\ ReportMatches(s, report)
    /\ ~ReportRaises(s, report)
    /\ sms' = [sms EXCEPT ![s] = report]
    /\ MirrorTracker(s, report)
    /\ UNCHANGED <<swept, notif, drainers, carrier, sends>>

AdvanceState(s, report) ==
    /\ report \in Reports(carrier[s])
    /\ ReportMatches(s, report)
    /\ ~ReportRaises(s, report)
    /\ sms' = [sms EXCEPT ![s] = report]
    /\ MirrorTracker(s, report)
    /\ Pump(s, report)
    /\ UNCHANGED <<swept, drainers, carrier, sends>>

-----------------------------------------------------------------------------
(***************************************************************************)
(* The housekeeping jobs.  Age is abstracted: any set of 'process' rows    *)
(* may have passed the stuck threshold, and SlowDrainers says whether rows *)
(* in a live drainer's hands are among them.                               *)
(***************************************************************************)
Stuck(s) ==
    /\ sms[s] = "process"
    /\ SlowDrainers \/ \A d \in Drainer : ~Holds(d, s)

\* Faulty variant: the marker is minted but not consulted.
RequeueableAgain(s) == SmsWriteAllowed(sms[s], "outgoing", TRUE)

\* Faulty variant: the monotonic guard without the sweep's escape.
RequeueableWithoutEscape(s) ==
    ~swept[s] /\ SmsWriteAllowed(sms[s], "outgoing", FALSE)

\* Rows already swept once are alerted on but left in place.
Requeueable(s) ==
    ~swept[s] /\ SmsWriteAllowed(sms[s], "outgoing", TRUE)

\* Faulty variant: the requeue forgets to mint the marker.
SweepWithoutMarker(S) ==
    LET requeued == {s \in S : Requeueable(s)}
    IN  /\ requeued # {}
        /\ \A s \in S : Stuck(s)
        /\ sms' = [s \in Sms |-> IF s \in requeued THEN "outgoing" ELSE sms[s]]
        /\ UNCHANGED <<swept, tracker, notif, drainers, carrier, sends>>

SweepStuckProcess(S) ==
    LET requeued == {s \in S : Requeueable(s)}
    IN  /\ requeued # {}
        /\ \A s \in S : Stuck(s)
        /\ sms' = [s \in Sms |-> IF s \in requeued THEN "outgoing" ELSE sms[s]]
        /\ swept' = [s \in Sms |-> swept[s] \/ s \in requeued]
        /\ UNCHANGED <<tracker, notif, drainers, carrier, sends>>

\* The retention job deletes terminal rows; trackers and notifications stay.
SmsGc(S) ==
    /\ S # {}
    /\ \A s \in S : sms[s] \in {"sent", "error", "canceled"}
    /\ sms' = [s \in Sms |-> IF s \in S THEN "gone" ELSE sms[s]]
    /\ UNCHANGED <<swept, tracker, notif, drainers, carrier, sends>>

-----------------------------------------------------------------------------
DrainStep(d) ==
    \/ \E S \in SUBSET Sms : ClaimBatch(d, S)
    \/ \E s \in Sms : Send(d, s)
    \/ \E reply \in UNION {Replies(c) : c \in CarrierStates} : Answer(d, reply)
    \/ LandOutcome(d)
    \/ AbortPass(d)

Sweep == \E S \in SUBSET Sms : SweepStuckProcess(S)

Next ==
    \/ \E s \in Sms, linked \in BOOLEAN : Enqueue(s, linked)
    \/ \E d \in Drainer : DrainStep(d) \/ Crash(d)
    \/ \E s \in Sms, fate \in {"delivered", "failed"} : Settle(s, fate)
    \/ \E s \in Sms, report \in SmsStates : AdvanceState(s, report)
    \/ Sweep
    \/ \E S \in SUBSET Sms : SmsGc(S)

Spec == Init /\ [][Next]_vars

\* The scheduler keeps re-running the drain and sweep jobs, every provider
\* call returns (the HTTP client answers or errors), and nothing else is owed:
\* no callback, no retention pass and no crash has to happen.
FairSpec ==
    /\ Spec
    /\ \A d \in Drainer : WF_vars(DrainStep(d))
    /\ WF_vars(Sweep)

-----------------------------------------------------------------------------
(***************************************************************************)
(* Type invariant: the columns hold enum values, and the process memory of *)
(* a drainer refers to rows.                                               *)
(***************************************************************************)
TypeOK ==
    /\ sms \in [Sms -> SmsStates \cup {"none", "gone"}]
    /\ swept \in [Sms -> BOOLEAN]
    /\ tracker \in [Sms -> NotificationStatuses \cup {"none"}]
    /\ notif \in [Sms -> NotificationStatuses \cup {"none"}]
    /\ todo \in [Drainer -> SUBSET Sms]
    /\ call \in [Drainer -> Calls]
    /\ carrier \in [Sms -> CarrierStates]
    /\ sends \in [Sms -> Nat]

-----------------------------------------------------------------------------
(***************************************************************************)
(* Safety.                                                                 *)
(***************************************************************************)

\* A message is handed to the provider at most once, and once more only after
\* the sweep has taken it away from a drainer: crashes, late outcomes, aborted
\* passes and callbacks never cost a recipient another copy.
NeverOverSent == \A s \in Sms : sends[s] <= IF swept[s] THEN 2 ELSE 1

\* Concurrent drainers hold disjoint rows (FOR UPDATE SKIP LOCKED and the
\* state guard of the claim), except for a row the sweep took from a live one.
ClaimsDisjoint ==
    \A d, e \in Drainer, s \in Sms :
        d # e /\ Holds(d, s) /\ Holds(e, s) => swept[s]

\* An 'outgoing' row has not been dispatched, as advance_state relies on:
\* unless it was swept, nobody holds it, the provider has not seen it, and
\* neither its tracker nor its notification has moved.
OutgoingIsUndispatched ==
    \A s \in Sms : sms[s] = "outgoing" /\ ~swept[s] =>
        /\ sends[s] = 0 /\ carrier[s] = "none"
        /\ \A d \in Drainer : ~Holds(d, s)
        /\ tracker[s] = "process" /\ notif[s] \in {"none", "ready"}

\* No table says "Delivered" of a message the provider has not delivered,
\* through the inverted labels and whichever of drainer and webhook wrote it.
DeliveredIsTrue ==
    \A s \in Sms : "sent" \in {sms[s], tracker[s], notif[s]} =>
        carrier[s] = "delivered"

\* The recipient's badge never lags the queue row: whatever verdict the row
\* carries, its linked notification has climbed at least as high.
BadgeCoversRow ==
    \A s \in Sms : sms[s] \in {"pending", "sent", "error"} /\ notif[s] # "none" =>
        ~Outranks(sms[s], notif[s])

\* Every write of an sms row, by drainer, webhook, sweep or claim, is one the
\* triggers let through; the requeue alone needs the marker it mints.  So no
\* write the actions leave unguarded can raise, and none needs an error path.
WritesAreLegal ==
    [][\A s \in Sms : sms[s] \in SmsStates /\ sms'[s] \in SmsStates =>
           SmsWriteAllowed(sms[s], sms'[s], ~swept[s] /\ swept'[s])]_vars

\* The queue implements the ledger of attempts: the row's insert grants one,
\* the sweep that marks the row grants the other, and nothing else does.
Open == [s \in Sms |-> sms[s] = "outgoing"]

HolderOf == [s \in Sms |-> {d \in Drainer : s \in todo[d]}]

Granted == [s \in Sms |-> IF sms[s] = "none" THEN 0 ELSE IF swept[s] THEN 2 ELSE 1]

Ledger == INSTANCE SendLedger WITH
    Row <- Sms, Worker <- Drainer, handed <- sends, granted <- Granted,
    open <- Open, held <- HolderOf

LedgerSpec == Ledger!Spec

\* The linked notifications implement the abstract delivery badge.
Badge == INSTANCE DeliveryStatus WITH Row <- Sms, status <- notif

BadgeSpec == Badge!Spec

-----------------------------------------------------------------------------
(***************************************************************************)
(* Liveness, under FairSpec.                                               *)
(***************************************************************************)

\* A queued row, also one the sweep put back, is eventually claimed.
EveryRowIsClaimed ==
    \A s \in Sms : sms[s] = "outgoing" ~> sms[s] # "outgoing"

\* A row whose drainer died, aborted its pass or got no final verdict is
\* resolved or requeued: nothing waits in 'process' before its one retry.
OrphansAreRequeued ==
    \A s \in Sms : sms[s] = "process" /\ ~swept[s] ~> sms[s] # "process" \/ swept[s]

-----------------------------------------------------------------------------
(***************************************************************************)
(* What comments of the code say, and the code does not do.                *)
(***************************************************************************)

\* advance_state: "notification status, tracker, and the bus event stay in
\* lockstep; ... the TRACKER mirror is the durable delivery fact".
TrackerInLockstep ==
    \A s \in Sms : sms[s] \in {"sent", "error"} =>
        tracker[s] = NotificationStatusOf(sms[s])

\* advance_state: "a regression or a re-assertion matches zero rows", so no
\* callback the provider may send makes the call fail.
ReportsNeverRaise ==
    \A s \in Sms : \A report \in Reports(carrier[s]) : ~ReportRaises(s, report)

\* find_stuck_process: "'process' means a drainer claimed the row and never
\* wrote an outcome", so an unswept row in 'process' has an unmoved badge.
ProcessMeansNoOutcome ==
    \A s \in Sms : sms[s] = "process" /\ ~swept[s] => notif[s] \in {"none", "ready"}

==============================================================================
