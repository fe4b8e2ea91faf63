------------------------------ MODULE MailQueue ------------------------------
(***************************************************************************)
(* The outgoing mail queue: the `mails` rows and the notifications linked  *)
(* to them, written by concurrent drainers (process_queue), by a human's   *)
(* manual requeue and by the notification retention job.  A claim writes   *)
(* 'exception' before the transport is tried; the verdict of each row then *)
(* lands in a transaction of its own.                                      *)
(***************************************************************************)
EXTENDS StatusLattice, FiniteSets

CONSTANTS
    Mail,        \* The mails rows that may be enqueued
    Malformed,   \* Those whose stored headers the drainer's guard refuses
    Recipient,   \* The recipients a thread post notifies by one mail
    Drainer,     \* The scheduler workers that may run process_queue
    Batch,       \* process_queue's claim limit
    MaxRequeues  \* Bound on the manual requeues of one mail

ASSUME MailAssumption ==
    /\ "none" \notin Mail
    /\ Malformed \subseteq Mail
    /\ IsFiniteSet(Drainer)
    /\ Batch \in Nat \ {0}
    /\ MaxRequeues \in Nat

VARIABLES
    mail,      \* State column of each row, "none" before it is enqueued
    failure,   \* failure_type and failure_reason: "null", "unknown" with no
               \* reason (the claim's pre-write), or "reason"
    due,       \* Is scheduled_date null or past?
    notif,     \* Status of each recipient's linked notification
    todo,      \* Claimed rows a drainer has not sent yet (its process memory)
    call,      \* The drainer's current transport round trip
    accepted,  \* Did the mail server ever accept a copy?
    sends,     \* History: how often the row was handed to the transport
    requeues   \* History: how often a human requeued the row

vars == <<mail, failure, due, notif, todo, call, accepted, sends, requeues>>
database == <<mail, failure, due, notif>>
drainers == <<todo, call>>

Linked(m) == {m} \X Recipient

Row == Mail \X Recipient

Verdicts == {"Sent", "Err"}

NoCall == [row |-> "none", answer |-> "none"]

Calls == {NoCall} \cup [row : Mail, answer : Verdicts \cup {"none"}]

Answered(d) == call[d].answer \in Verdicts

Idle(d) == todo[d] = {} /\ call[d] = NoCall

-----------------------------------------------------------------------------
Init ==
    /\ mail = [m \in Mail |-> "none"]
    /\ failure = [m \in Mail |-> "null"]
    /\ due = [m \in Mail |-> FALSE]
    /\ notif = [r \in Row |-> "none"]
    /\ todo = [d \in Drainer |-> {}]
    /\ call = [d \in Drainer |-> NoCall]
    /\ accepted = [m \in Mail |-> FALSE]
    /\ sends = [m \in Mail |-> 0]
    /\ requeues = [m \in Mail |-> 0]

\* A thread post mints the mail and one 'ready' notification per recipient in
\* one transaction, due at once; a direct enqueue links none and may be deferred.
Enqueue(m, linked, deferred) ==
    /\ mail[m] = "none"
    /\ ~(linked /\ deferred)
    /\ mail' = [mail EXCEPT ![m] = "outgoing"]
    /\ due' = [due EXCEPT ![m] = ~deferred]
    /\ notif' = [r \in Row |->
                   IF linked /\ r \in Linked(m) THEN "ready" ELSE notif[r]]
    /\ UNCHANGED <<failure, drainers, accepted, sends, requeues>>

\* The clock passes the mail's scheduled_date.
FallDue(m) ==
    /\ mail[m] # "none" /\ ~due[m]
    /\ due' = [due EXCEPT ![m] = TRUE]
    /\ UNCHANGED <<mail, failure, notif, drainers, accepted, sends, requeues>>

\* Faulty variant: a claim that retries failed rows by itself.
ClaimBatchRetrying(d, M) ==
    /\ Idle(d)
    /\ M # {} /\ Cardinality(M) <= Batch
    /\ \A m \in M : mail[m] \in {"outgoing", "exception"} /\ due[m]
    /\ mail' = [m \in Mail |-> IF m \in M THEN "exception" ELSE mail[m]]
    /\ failure' = [m \in Mail |-> IF m \in M THEN "unknown" ELSE failure[m]]
    /\ todo' = [todo EXCEPT ![d] = M]
    /\ UNCHANGED <<due, notif, call, accepted, sends, requeues>>

\* Faulty variant: a claim without the crash-safety pre-write.
ClaimBatchInMemory(d, M) ==
    /\ Idle(d)
    /\ M # {} /\ Cardinality(M) <= Batch
    /\ \A m \in M : mail[m] = "outgoing" /\ due[m]
    /\ todo' = [todo EXCEPT ![d] = M]
    /\ UNCHANGED <<database, call, accepted, sends, requeues>>

\* Faulty variant: scheduled_date compared the wrong way round.
ClaimBatchEarly(d, M) ==
    /\ Idle(d)
    /\ M # {} /\ Cardinality(M) <= Batch
    /\ \A m \in M : mail[m] = "outgoing" /\ ~due[m]
    /\ mail' = [m \in Mail |-> IF m \in M THEN "exception" ELSE mail[m]]
    /\ failure' = [m \in Mail |-> IF m \in M THEN "unknown" ELSE failure[m]]
    /\ todo' = [todo EXCEPT ![d] = M]
    /\ UNCHANGED <<due, notif, call, accepted, sends, requeues>>

\* One committed claim of unlocked due rows, the crash-safety pre-write in it.
ClaimBatch(d, M) ==
    /\ Idle(d)
    /\ M # {} /\ Cardinality(M) <= Batch
    /\ \A m \in M : mail[m] = "outgoing" /\ due[m]
    /\ mail' = [m \in Mail |-> IF m \in M THEN "exception" ELSE mail[m]]
    /\ failure' = [m \in Mail |-> IF m \in M THEN "unknown" ELSE failure[m]]
    /\ todo' = [todo EXCEPT ![d] = M]
    /\ UNCHANGED <<due, notif, call, accepted, sends, requeues>>

\* port.send leaves for the mail server, outside any transaction.
Send(d, m) ==
    /\ call[d] = NoCall /\ m \in todo[d] \ Malformed
    /\ todo' = [todo EXCEPT ![d] = @ \ {m}]
    /\ call' = [call EXCEPT ![d] = [row |-> m, answer |-> "none"]]
    /\ sends' = [sends EXCEPT ![m] = @ + 1]
    /\ UNCHANGED <<database, accepted, requeues>>

\* The mail server accepts or refuses; a copy it accepted may still come back
\* as an error when the connection dies before its 250 arrives.
Answer(d, verdict, taken) ==
    /\ call[d] # NoCall /\ ~Answered(d)
    /\ verdict = "Sent" => taken
    /\ call' = [call EXCEPT ![d].answer = verdict]
    /\ accepted' = [accepted EXCEPT ![call[d].row] = @ \/ taken]
    /\ UNCHANGED <<database, todo, sends, requeues>>

-----------------------------------------------------------------------------
(***************************************************************************)
(* The verdict transactions.  Both are guarded on the states a verdict may *)
(* land on, and pump the linked notifications only when they matched.      *)
(***************************************************************************)
\* Faulty variant: a verdict lands on whatever state the row is in.
AwaitsAnyVerdict(m) == mail[m] # "none"

AwaitsVerdict(m) == mail[m] \in {"outgoing", "exception"}

\* Faulty variant: the pump without its rank guard.
AdvancesAnywhere(r, target) ==
    notif[r] \in NotificationStatuses /\ notif[r] # target

Advances(r, target) ==
    notif[r] \in NotificationStatuses /\ Outranks(target, notif[r])

AdvanceLinkedNotifications(m, target) ==
    notif' = [r \in Row |->
                IF r \in Linked(m) /\ Advances(r, target) THEN target ELSE notif[r]]

MarkSent(m) ==
    IF AwaitsVerdict(m)
    THEN /\ mail' = [mail EXCEPT ![m] = "sent"]
         /\ failure' = [failure EXCEPT ![m] = "null"]
         /\ AdvanceLinkedNotifications(m, "pending")
    ELSE UNCHANGED <<mail, failure, notif>>

\* Faulty variant: the adapter's failure code stored as it came.
MarkFailedRaw(m) ==
    IF AwaitsVerdict(m)
    THEN /\ mail' = [mail EXCEPT ![m] = "exception"]
         /\ failure' = [failure EXCEPT ![m] = "provider-500"]
         /\ AdvanceLinkedNotifications(m, "exception")
    ELSE UNCHANGED <<mail, failure, notif>>

\* Faulty variant: a failure that does not reach the notifications.
MarkFailedSilently(m) ==
    IF AwaitsVerdict(m)
    THEN /\ mail' = [mail EXCEPT ![m] = "exception"]
         /\ failure' = [failure EXCEPT ![m] = "reason"]
         /\ UNCHANGED notif
    ELSE UNCHANGED <<mail, failure, notif>>

MarkFailed(m) ==
    IF AwaitsVerdict(m)
    THEN /\ mail' = [mail EXCEPT ![m] = "exception"]
         /\ failure' = [failure EXCEPT ![m] = "reason"]
         /\ AdvanceLinkedNotifications(m, "exception")
    ELSE UNCHANGED <<mail, failure, notif>>

\* Faulty variant: any answer from the transport taken for a 250.
LandAnyVerdict(d) ==
    /\ Answered(d)
    /\ MarkSent(call[d].row)
    /\ call' = [call EXCEPT ![d] = NoCall]
    /\ UNCHANGED <<due, todo, accepted, sends, requeues>>

LandVerdict(d) ==
    /\ Answered(d)
    /\ IF call[d].answer = "Sent" THEN MarkSent(call[d].row)
                                  ELSE MarkFailed(call[d].row)
    /\ call' = [call EXCEPT ![d] = NoCall]
    /\ UNCHANGED <<due, todo, accepted, sends, requeues>>

\* The header guard refuses the stored object; the row fails without a send.
RefuseHeaders(d, m) ==
    /\ call[d] = NoCall /\ m \in todo[d] \cap Malformed
    /\ MarkFailed(m)
    /\ todo' = [todo EXCEPT ![d] = @ \ {m}]
    /\ UNCHANGED <<due, call, accepted, sends, requeues>>

\* The process dies; a copy on the wire may still be accepted.
Crash(d) ==
    /\ ~Idle(d)
    /\ todo' = [todo EXCEPT ![d] = {}]
    /\ call' = [call EXCEPT ![d] = NoCall]
    /\ IF call[d] = NoCall \/ Answered(d)
       THEN UNCHANGED accepted
       ELSE \E taken \in BOOLEAN :
                accepted' = [accepted EXCEPT ![call[d].row] = @ \/ taken]
    /\ UNCHANGED <<database, sends, requeues>>

-----------------------------------------------------------------------------
\* Faulty variant: a resend that keeps the old failure on the row.
RequeueKeepingFailure(m) ==
    /\ mail[m] = "exception" /\ requeues[m] < MaxRequeues
    /\ mail' = [mail EXCEPT ![m] = "outgoing"]
    /\ requeues' = [requeues EXCEPT ![m] = @ + 1]
    /\ UNCHANGED <<failure, due, notif, drainers, accepted, sends>>

\* A human resends a failed row.  A row in a drainer's hands looks failed too.
Requeue(m) ==
    /\ mail[m] = "exception" /\ requeues[m] < MaxRequeues
    /\ mail' = [mail EXCEPT ![m] = "outgoing"]
    /\ failure' = [failure EXCEPT ![m] = "null"]
    /\ requeues' = [requeues EXCEPT ![m] = @ + 1]
    /\ UNCHANGED <<due, notif, drainers, accepted, sends>>

\* The retention job deletes old notifications, whatever their status.
NotificationGc(R) ==
    /\ R # {}
    /\ \A r \in R : notif[r] \in NotificationStatuses
    /\ notif' = [r \in Row |-> IF r \in R THEN "reaped" ELSE notif[r]]
    /\ UNCHANGED <<mail, failure, due, drainers, accepted, sends, requeues>>

-----------------------------------------------------------------------------
DrainStep(d) ==
    \/ \E M \in SUBSET Mail : ClaimBatch(d, M)
    \/ \E m \in Mail : Send(d, m) \/ RefuseHeaders(d, m)
    \/ \E verdict \in Verdicts, taken \in BOOLEAN : Answer(d, verdict, taken)
    \/ LandVerdict(d)

Next ==
    \/ \E m \in Mail, linked, deferred \in BOOLEAN : Enqueue(m, linked, deferred)
    \/ \E m \in Mail : FallDue(m) \/ Requeue(m)
    \/ \E d \in Drainer : DrainStep(d) \/ Crash(d)
    \/ \E R \in SUBSET Row : NotificationGc(R)

Spec == Init /\ [][Next]_vars

\* The scheduler keeps re-running the drain job, the transport answers every
\* call (its client has a timeout), and the clock advances.
FairSpec ==
    /\ Spec
    /\ \A d \in Drainer : WF_vars(DrainStep(d))
    /\ \A m \in Mail : WF_vars(FallDue(m))

-----------------------------------------------------------------------------
(***************************************************************************)
(* Type invariant: the columns hold enum values, and the process memory of *)
(* a drainer refers to rows.                                               *)
(***************************************************************************)
TypeOK ==
    /\ mail \in [Mail -> MailStates \cup {"none"}]
    /\ failure \in [Mail -> {"null", "unknown", "reason"}]
    /\ due \in [Mail -> BOOLEAN]
    /\ notif \in [Row -> NotificationStatuses \cup {"none", "reaped"}]
    /\ todo \in [Drainer -> SUBSET Mail]
    /\ call \in [Drainer -> Calls]
    /\ accepted \in [Mail -> BOOLEAN]
    /\ sends \in [Mail -> Nat]
    /\ requeues \in [Mail -> Nat]

(***************************************************************************)
(* Safety.                                                                 *)
(***************************************************************************)

\* Every attempt beyond the first was asked for by a human: neither a crash
\* nor a late verdict, nor two drainers, ever hand a mail out again.
NeverSilentlyRetried == \A m \in Mail : sends[m] <= 1 + requeues[m]

\* "never a falsely-reclaimable 'outgoing'": a claimable row has had no more
\* attempts, made or still in a drainer's hands, than humans asked for.
ClaimableIsOwed ==
    \A m \in Mail : mail[m] = "outgoing" =>
        sends[m] + Cardinality({d \in Drainer : m \in todo[d]}) <= requeues[m]

\* Whatever crash interrupted it, a failed row says why it failed, and a row
\* that is not failed carries no stale failure.
FailureIsDiagnosable ==
    \A m \in Mail : mail[m] = "exception" <=> failure[m] # "null"

\* A verdict on the mail is a verdict on its badges: delivered to the server,
\* no live badge still waits; failed with a reason, every live badge says so.
BadgesFollowVerdict ==
    \A m \in Mail : \A r \in Linked(m) : notif[r] \in NotificationStatuses =>
        /\ mail[m] = "sent" => notif[r] \in {"pending", "exception"}
        /\ failure[m] = "reason" => notif[r] = "exception"

\* "Sent" is true, on the row and on every badge: a server took a copy.
SentIsTrue ==
    \A m \in Mail :
        mail[m] = "sent" \/ (\E r \in Linked(m) : notif[r] = "pending") =>
            accepted[m]

\* No verdict, however late, meets a transition the triggers refuse; a refusal
\* would end the pass with the rest of its batch stranded.
VerdictNeverRefused ==
    \A m \in Mail : (\E d \in Drainer : m \in todo[d] \/ call[d].row = m) =>
        \A v \in {"sent", "exception"} :
            /\ AwaitsVerdict(m) => MailWriteAllowed(mail[m], v)
            /\ \A r \in Linked(m) :
                 LET target == IF v = "sent" THEN "pending" ELSE v
                 IN  AwaitsVerdict(m) /\ Advances(r, target) =>
                         NotificationWriteAllowed(notif[r], target)

\* A sent mail is final: no requeue, late verdict or crash takes it back.
SentIsFinal == [][\A m \in Mail : mail[m] = "sent" => mail'[m] = "sent"]_vars

\* Every write of a mail row, claim, verdict or requeue, is one the transition
\* trigger lets through, whatever state the write finds the row in.
WritesAreLegal ==
    [][\A m \in Mail : mail[m] \in MailStates =>
           MailWriteAllowed(mail[m], mail'[m])]_vars

\* The queue implements the ledger of attempts: the row's insert grants one and
\* each manual requeue another; a late verdict may withdraw a requeued row.
Open == [m \in Mail |-> mail[m] = "outgoing"]

HolderOf == [m \in Mail |-> {d \in Drainer : m \in todo[d]}]

Granted == [m \in Mail |-> IF mail[m] = "none" THEN 0 ELSE 1 + requeues[m]]

Ledger == INSTANCE SendLedger WITH
    Row <- Mail, Worker <- Drainer, handed <- sends, granted <- Granted,
    open <- Open, held <- HolderOf

LedgerSpec == Ledger!Spec

\* The linked notifications implement the abstract delivery badge.
Badge == INSTANCE DeliveryStatus WITH status <- notif

BadgeSpec == Badge!Spec

\* Liveness: a queued row is eventually claimed, once it is due.
EveryMailIsClaimed ==
    \A m \in Mail : mail[m] = "outgoing" ~> mail[m] # "outgoing"

==============================================================================
