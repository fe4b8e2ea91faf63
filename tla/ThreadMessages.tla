--------------------------- MODULE ThreadMessages ---------------------------
(***************************************************************************)
(* The tables that the writers of threads share: mail_messages and the     *)
(* inbox rows of mail_notifications.                                       *)
(***************************************************************************)
EXTENDS Integers, Sequences, FiniteSets

CONSTANTS
    Worker,     \* The tasks that may run each job or request at the same time
    Partner,    \* The partners with an inbox
    Author,     \* The partner who schedules messages
    Followers,  \* Who follows the document
    MaxWork,    \* Bound on the requests: rows armed, mails delivered, ...
    MaxFaults   \* Bound on failed transactions and dead tasks

ASSUME ThreadAssumption ==
    /\ Author \in Partner /\ Followers \subseteq Partner
    /\ MaxWork \in Nat /\ MaxFaults \in Nat

VARIABLES
    messages,  \* mail_messages, in the order they were committed
    notified,  \* The inbox rows: pairs of a message and a partner
    work,      \* The requests so far
    faults     \* The failures so far

tables == <<messages, notified>>
bounds == <<work, faults>>
threadVars == <<tables, bounds>>

\* The document, the author's own wall, and a landing with a model but no record.
Threads == {"document", "wall", "none"}

ThreadsInit ==
    /\ messages = <<>> /\ notified = {}
    /\ work = 0 /\ faults = 0

\* The stored messages that stem from a row, a mail or an activity.
From(x) == {i \in DOMAIN messages : messages[i].from = x}

On(thread) == {i \in DOMAIN messages : messages[i].thread = thread}

FollowersOf(thread) == IF thread = "document" THEN Followers ELSE {}

\* What message_post commits: the message, and an inbox row per recipient.
MessagePost(x, thread, recipients) ==
    /\ messages' = Append(messages, [from |-> x, thread |-> thread])
    /\ notified' = notified \cup ({Len(messages) + 1} \X recipients)

Request == work < MaxWork /\ work' = work + 1
Fault == faults < MaxFaults /\ faults' = faults + 1

=============================================================================
