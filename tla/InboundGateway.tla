--------------------------- MODULE InboundGateway ---------------------------
(***************************************************************************)
(* The inbound mail gateway, process_inbound: relays deliver a mail at     *)
(* least once, and each call runs one transaction of several statements    *)
(* at READ COMMITTED.  A call starts here with its token accepted.         *)
(***************************************************************************)
EXTENDS ThreadMessages

CONSTANTS
    Mail,        \* The mails that the relays have to deliver
    Identified,  \* Those with a Message-ID
    Trusted,     \* Those from an allowed sender
    Aliased,     \* Those addressed to an alias of the document
    Defaulted,   \* Those that come in by a server with a default model
    Parent       \* The mail each one replies to, or "none"

ASSUME InboundAssumption ==
    /\ Identified \cup Trusted \cup Aliased \cup Defaulted \subseteq Mail
    /\ Parent \in [Mail -> Mail \cup {"none"}]
    /\ "none" \notin Mail

VARIABLES
    serving,  \* The mail each worker's call is about, or "none"
    step,     \* How far the call is
    since,    \* The messages that were stored when it began
    landing,  \* The thread that its ladder found
    relayed,  \* The mails that a relay has begun to deliver
    answers   \* History: the outcomes the relays were answered

inboundVars == <<serving, step, since, landing, relayed, answers>>

InboundInit ==
    /\ serving = [w \in Worker |-> "none"]
    /\ step = [w \in Worker |-> "idle"]
    /\ since = [w \in Worker |-> 0]
    /\ landing = [w \in Worker |-> "none"]
    /\ relayed = {} /\ answers = {}

-----------------------------------------------------------------------------
(***************************************************************************)
(* The relays.                                                             *)
(***************************************************************************)
Answered(m) == \E a \in answers : a.mail = m

Begin(w, m) ==
    /\ step[w] = "idle"
    /\ serving' = [serving EXCEPT ![w] = m]
    /\ step' = [step EXCEPT ![w] = "probe"]
    /\ since' = [since EXCEPT ![w] = Len(messages)]
    /\ relayed' = relayed \cup {m}
    /\ UNCHANGED <<tables, faults, landing, answers>>

\* A first delivery, one that did not wait for the answer to the last, or one
\* whose answer was lost ...
Deliver(w, m) == Request /\ Begin(w, m)

\* ... and the next try after an error or no answer at all.
Retry(w, m) ==
    /\ m \in relayed /\ ~Answered(m)
    /\ \A v \in Worker : serving[v] # m
    /\ Begin(w, m)
    /\ UNCHANGED work

-----------------------------------------------------------------------------
(***************************************************************************)
(* The call.                                                               *)
(***************************************************************************)
EndsCall(w) ==
    /\ serving' = [serving EXCEPT ![w] = "none"]
    /\ step' = [step EXCEPT ![w] = "idle"]
    /\ since' = [since EXCEPT ![w] = 0]
    /\ landing' = [landing EXCEPT ![w] = "none"]
    /\ UNCHANGED relayed

Answer(w, outcome) ==
    /\ EndsCall(w)
    /\ UNCHANGED bounds
    /\ answers' = answers \cup {[mail |-> serving[w], outcome |-> outcome, since |-> since[w]]}

\* The message that a Message-ID finds; a NULL one finds none.
Stored(m) == IF m \in Identified THEN From(m) ELSE {}

ProbeDuplicate(w) ==
    /\ step[w] = "probe" /\ Stored(serving[w]) # {}
    /\ Answer(w, "duplicate")
    /\ UNCHANGED tables

RejectSender(w) ==
    /\ step[w] = "probe" /\ Stored(serving[w]) = {}
    /\ serving[w] \notin Trusted
    /\ Answer(w, "rejected")
    /\ UNCHANGED tables

\* Faulty variant: the aliases are tried before the parent.
AliasFirst(m) ==
    IF m \in Aliased /\ (On("document") # {} \/ m \in Defaulted) THEN "document"
    ELSE IF Parent[m] # "none" /\ Stored(Parent[m]) # {}
    THEN messages[CHOOSE i \in Stored(Parent[m]) : TRUE].thread
    ELSE IF m \in Defaulted THEN "none" ELSE "unroutable"

\* The ladder: the parent's thread, an alias whose thread has a message to
\* learn its model from, the server's default model.
Route(m) ==
    IF Parent[m] # "none" /\ Stored(Parent[m]) # {}
    THEN messages[CHOOSE i \in Stored(Parent[m]) : TRUE].thread
    ELSE IF m \in Aliased /\ (On("document") # {} \/ m \in Defaulted) THEN "document"
    ELSE IF m \in Defaulted THEN "none" ELSE "unroutable"

Drop(w) ==
    /\ step[w] = "route" /\ Route(serving[w]) = "unroutable"
    /\ Answer(w, "dropped")
    /\ UNCHANGED tables

Advances(w, to) ==
    /\ step' = [step EXCEPT ![w] = to]
    /\ UNCHANGED <<threadVars, serving, since, relayed, answers>>

\* Faulty variant: no probe, the unique index alone.
PassUnprobed(w) ==
    /\ step[w] = "probe" /\ serving[w] \in Trusted
    /\ Advances(w, "route")
    /\ UNCHANGED landing

PassAllowlist(w) ==
    /\ step[w] = "probe" /\ Stored(serving[w]) = {}
    /\ serving[w] \in Trusted
    /\ Advances(w, "route")
    /\ UNCHANGED landing

\* Faulty variant: an unroutable mail is stored like any other.
FollowAny(w) ==
    /\ step[w] = "route"
    /\ landing' = [landing EXCEPT ![w] = Route(serving[w])]
    /\ Advances(w, "insert")

FollowLadder(w) ==
    /\ step[w] = "route" /\ Route(serving[w]) # "unroutable"
    /\ landing' = [landing EXCEPT ![w] = Route(serving[w])]
    /\ Advances(w, "insert")

\* Another call has inserted the same Message-ID and has not committed.
Contended(w) ==
    /\ serving[w] \in Identified
    /\ \E v \in Worker \ {w} : serving[v] = serving[w] /\ step[v] = "commit"

\* The insert waits for a contender ...
InsertMessage(w) ==
    /\ step[w] = "insert" /\ ~Contended(w)
    /\ Stored(serving[w]) = {}
    /\ Advances(w, "commit")
    /\ UNCHANGED landing

\* Faulty variant: the loser answers as soon as it meets its contender.
LoseEarly(w) ==
    /\ step[w] = "insert"
    /\ Contended(w) \/ Stored(serving[w]) # {}
    /\ Answer(w, "duplicate")
    /\ UNCHANGED tables

\* ... and when that has committed the insert is refused.  The second probe then
\* runs in an aborted transaction, so that the call ends with an error.
LoseRace(w) ==
    /\ step[w] = "insert" /\ ~Contended(w)
    /\ Stored(serving[w]) # {}
    /\ EndsCall(w)
    /\ UNCHANGED <<threadVars, answers>>

CommitMessage(w) ==
    /\ step[w] = "commit"
    /\ MessagePost(serving[w], landing[w], {})
    /\ Answer(w, "routed")

\* The message is stored, and the answer is lost on its way to the relay.
LoseAnswer(w) ==
    /\ step[w] = "commit"
    /\ Fault
    /\ MessagePost(serving[w], landing[w], {})
    /\ EndsCall(w)
    /\ UNCHANGED <<work, answers>>

\* The call dies or its transaction fails, and the relay has no answer.
LoseCall(w) ==
    /\ step[w] # "idle"
    /\ Fault
    /\ EndsCall(w)
    /\ UNCHANGED <<tables, work, answers>>

-----------------------------------------------------------------------------
Serve(w) ==
    \/ ProbeDuplicate(w) \/ RejectSender(w) \/ PassAllowlist(w)
    \/ Drop(w) \/ FollowLadder(w)
    \/ InsertMessage(w) \/ LoseRace(w) \/ CommitMessage(w)

InboundNext ==
    \E w \in Worker :
        \/ \E m \in Mail : Deliver(w, m) \/ Retry(w, m)
        \/ Serve(w) \/ LoseAnswer(w) \/ LoseCall(w)

-----------------------------------------------------------------------------
Outcomes == {"duplicate", "rejected", "dropped", "routed"}

InboundTypeOK ==
    /\ serving \in [Worker -> Mail \cup {"none"}]
    /\ step \in [Worker -> {"idle", "probe", "route", "insert", "commit"}]
    /\ since \in [Worker -> Nat]
    /\ landing \in [Worker -> Threads]
    /\ relayed \in SUBSET Mail
    /\ answers \in SUBSET [mail : Mail, outcome : Outcomes, since : Nat]

\* A relay is told "routed" or "duplicate", and so forgets the mail, only when
\* the mail is stored for good, and one with a Message-ID is stored once: two
\* calls may both pass the probe, and the first to insert may yet be lost.
AcceptedIsStoredOnce ==
    /\ \A a \in answers : a.outcome \in {"routed", "duplicate"} => From(a.mail) # {}
    /\ \A m \in Identified : \A i, j \in From(m) : i = j

\* The messages that were there when an answered call had begun.
Known(a) == 1 .. a.since

KnownParent(a) ==
    IF Parent[a.mail] = "none" THEN {} ELSE Stored(Parent[a.mail]) \cap Known(a)

\* A call misses nothing that was stored when it began: it drops a mail only if
\* no message had its parent's Message-ID or was on its alias's thread, and a
\* reply lands on its known parent's thread whatever else would place it.
RoutedAsKnown ==
    \A a \in answers :
        /\ a.outcome = "dropped" => KnownParent(a) = {}
        /\ a.outcome = "dropped" /\ a.mail \in Aliased => On("document") \cap Known(a) = {}
        /\ a.outcome = "routed" => \A i \in KnownParent(a) :
               \E j \in From(a.mail) : j > a.since /\ messages[j].thread = messages[i].thread

\* The gateway implements the intake of mails: it stores what it accepts, and
\* recognises a Message-ID that is stored instead of storing it again.
Copies == [m \in Mail |-> Cardinality(From(m))]

Accepted ==
    {m \in Mail : \E a \in answers : a.mail = m /\ a.outcome \in {"routed", "duplicate"}}

Intake == INSTANCE MailIntake WITH copies <- Copies, accepted <- Accepted

IntakeSpec == Intake!Spec

\* Liveness: the mails that relays keep trying are all answered in the end, also
\* when calls for them die or lose the race.
DeliveredIsAnswered ==
    (\E m \in relayed : ~Answered(m)) ~> (\A m \in relayed : Answered(m))

=============================================================================
