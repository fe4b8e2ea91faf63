------------------------ MODULE ThreadTrafficProofs ------------------------
(***************************************************************************)
(* Proofs about the writers of threads, for every set of workers, rows,    *)
(* mails and activities and every bound: the type invariant, and each      *)
(* safety invariant of the runs.  No job or call needs a lock that another *)
(* component knows of; what they share is that messages are only appended. *)
(***************************************************************************)
EXTENDS ThreadTraffic, FiniteSetTheorems, TLAPS

Entry == [from : Scheduled \cup Mail \cup Activity \cup {"notice"}, thread : Threads]

\* A dispatch works on the rows it has claimed, which are due and nobody else's.
Claims ==
    \A w \in Worker :
        /\ phase[w] \in {"post", "notice"} => firing[w] \in claimed[w] \ todo[w]
        /\ phase[w] \in {"idle", "next"} => firing[w] = "none"
        /\ todo[w] \subseteq claimed[w]
        /\ \A r \in claimed[w] : post[r] = "due"
        /\ \A v \in Worker \ {w} : claimed[v] \cap claimed[w] = {}

\* A held row names a message, and only a due one is in a batch, in one.
Holds ==
    /\ \A h \in Held : hold[h] # "none" => target[h] \in DOMAIN messages
    /\ \A w \in Worker : \A h \in batch[w] : hold[h] = "due"
    /\ \A w \in Worker : \A v \in Worker \ {w} : batch[v] \cap batch[w] = {}

\* A call that has begun is about a mail, and began no later than now.
Calling ==
    \A w \in Worker :
        /\ step[w] # "idle" => serving[w] \in Mail
        /\ since[w] <= Len(messages)

\* A completion that has archived its row is the only one to have.
Completions ==
    \A w \in Worker :
        /\ verdict[w] # "none" => doing[w] # "none"
        /\ verdict[w] = "newly" =>
               /\ activity[doing[w]] = "active"
               /\ \A v \in Worker \ {w} :
                      ~(doing[v] = doing[w] /\ verdict[v] = "newly")

Base == TypeOK /\ Claims /\ Holds /\ Calling /\ Completions

-----------------------------------------------------------------------------
(***************************************************************************)
(* The message table.                                                      *)
(***************************************************************************)
Posts(x, thread) ==
    messages' = Append(messages, [from |-> x, thread |-> thread])

\* What a post adds, and what it leaves.
LEMMA PostAdds ==
    ASSUME messages \in Seq(Entry),
           NEW x \in Scheduled \cup Mail \cup Activity \cup {"notice"},
           NEW thread \in Threads, Posts(x, thread)
    PROVE  /\ messages' \in Seq(Entry)
           /\ Len(messages') = Len(messages) + 1
           /\ DOMAIN messages = 1 .. Len(messages)
           /\ DOMAIN messages' = 1 .. (Len(messages) + 1)
           /\ Len(messages) \in Nat
           /\ \A i \in DOMAIN messages : messages'[i] = messages[i]
           /\ messages'[Len(messages) + 1] = [from |-> x, thread |-> thread]
<1>1. [from |-> x, thread |-> thread] \in Entry
  BY DEF Entry
<1> QED BY <1>1 DEF Posts

\* The message table after a step: as it was, or with a post from one of a set.
Changes(writers) ==
    \/ UNCHANGED messages
    \/ \E x \in writers, thread \in Threads : Posts(x, thread)

\* What any change of it keeps.
LEMMA OnlyAppended ==
    ASSUME messages \in Seq(Entry),
           Changes(Scheduled \cup Mail \cup Activity \cup {"notice"})
    PROVE  /\ messages' \in Seq(Entry)
           /\ Len(messages) \in Nat /\ Len(messages') \in Nat
           /\ Len(messages) <= Len(messages')
           /\ DOMAIN messages = 1 .. Len(messages)
           /\ DOMAIN messages' = 1 .. Len(messages')
           /\ \A i \in DOMAIN messages : i \in DOMAIN messages' /\ messages'[i] = messages[i]
<1>1. CASE UNCHANGED messages
  BY <1>1
<1>2. ASSUME NEW x \in Scheduled \cup Mail \cup Activity \cup {"notice"},
             NEW thread \in Threads, Posts(x, thread)
      PROVE  /\ messages' \in Seq(Entry)
             /\ Len(messages) \in Nat /\ Len(messages') \in Nat
             /\ Len(messages) <= Len(messages')
             /\ DOMAIN messages = 1 .. Len(messages)
             /\ DOMAIN messages' = 1 .. Len(messages')
             /\ \A i \in DOMAIN messages : i \in DOMAIN messages' /\ messages'[i] = messages[i]
  <2>1. /\ messages' \in Seq(Entry)
        /\ Len(messages') = Len(messages) + 1
        /\ DOMAIN messages = 1 .. Len(messages)
        /\ DOMAIN messages' = 1 .. (Len(messages) + 1)
        /\ Len(messages) \in Nat
        /\ \A i \in DOMAIN messages : messages'[i] = messages[i]
    BY <1>2, PostAdds
  <2> QED BY <2>1
<1> QED BY <1>1, <1>2 DEF Changes

-----------------------------------------------------------------------------
(***************************************************************************)
(* Type correctness: what the actions of each component keep.              *)
(***************************************************************************)
ThreadTypes ==
    /\ messages \in Seq(Entry)
    /\ notified \in SUBSET (Nat \X Partner)
    /\ work \in Nat /\ faults \in Nat

\* What message_post keeps of the types and does to the table.
LEMMA PostKeepsTypes ==
    ASSUME ThreadTypes, NEW x \in Scheduled \cup Mail \cup Activity \cup {"notice"},
           NEW thread \in Threads, NEW recipients \in SUBSET Partner,
           MessagePost(x, thread, recipients)
    PROVE  /\ messages' \in Seq(Entry)
           /\ notified' \in SUBSET (Nat \X Partner)
           /\ Posts(x, thread)
           /\ notified \subseteq notified'
<1>1. Posts(x, thread)
  BY DEF MessagePost, Posts
<1>2. messages' \in Seq(Entry) /\ Len(messages) \in Nat
  BY <1>1, PostAdds DEF ThreadTypes
<1> QED BY <1>1, <1>2 DEF MessagePost, ThreadTypes

\* The dispatch of scheduled posts.
LEMMA ScheduledStep ==
    ASSUME Base, ScheduledNext
    PROVE  /\ ThreadTypes' /\ ScheduledTypeOK' /\ Claims'
           /\ Changes(Scheduled \cup {"notice"}) /\ notified \subseteq notified'
<1> USE ThreadAssumption, ScheduledAssumption
<1>0. ThreadTypes /\ ScheduledTypeOK /\ Claims
  BY DEF Base, TypeOK, ThreadTypes, Entry
<1> USE DEF ScheduledTypeOK, Claims, noticeVars
<1>1. ASSUME NEW r \in Scheduled, ArmScheduledMessage(r) \/ FallDue(r) \/ CancelScheduledMessage(r)
      PROVE  /\ ThreadTypes' /\ ScheduledTypeOK' /\ Claims'
             /\ UNCHANGED <<messages, notified>>
  <2>1. ThreadTypes' /\ UNCHANGED <<messages, notified, claimed, todo, firing, phase, allowed, interrupted, barred>>
    BY <1>0, <1>1 DEF ArmScheduledMessage, FallDue, CancelScheduledMessage, Request,
                      threadVars, tables, bounds, ThreadTypes
  <2>2. /\ ScheduledTypeOK'
        /\ \A w \in Worker : \A q \in claimed[w] : post'[q] = post[q]
    BY <1>0, <1>1, <2>1 DEF ArmScheduledMessage, FallDue, CancelScheduledMessage, Locked
  <2> QED BY <1>0, <2>1, <2>2
<1>2. CASE Revoke
  BY <1>0, <1>2 DEF Revoke, threadVars, tables, bounds, ThreadTypes, Changes
<1>3. ASSUME NEW w \in Worker, ClaimScheduled(w)
      PROVE  /\ ThreadTypes' /\ ScheduledTypeOK' /\ Claims'
             /\ UNCHANGED <<messages, notified>>
  <2>1. ThreadTypes' /\ UNCHANGED <<messages, notified>> /\ ScheduledTypeOK'
    BY <1>0, <1>3 DEF ClaimScheduled, DueScheduled, tables, bounds, ThreadTypes
  <2>2. DueScheduled \subseteq Scheduled /\ \A r \in DueScheduled : post[r] = "due" /\ ~Locked(r)
    BY DEF DueScheduled
  <2>3. Claims'
    BY <1>0, <1>3, <2>2 DEF ClaimScheduled, Locked
  <2> QED BY <2>1, <2>3
<1>4. ASSUME NEW w \in Worker, NEW r \in Scheduled, CheckPermission(w, r)
      PROVE  /\ ThreadTypes' /\ ScheduledTypeOK' /\ Claims'
             /\ UNCHANGED <<messages, notified>>
  BY <1>0, <1>4 DEF CheckPermission, threadVars, tables, bounds, ThreadTypes
<1>5. ASSUME NEW w \in Worker, PostScheduled(w)
      PROVE  /\ ThreadTypes' /\ ScheduledTypeOK' /\ Claims'
             /\ Changes(Scheduled \cup {"notice"}) /\ notified \subseteq notified'
  <2>1. /\ firing[w] \in Scheduled /\ ThreadOf(firing[w]) \in Threads
        /\ MessagePost(firing[w], ThreadOf(firing[w]), Recipients)
    BY <1>0, <1>5 DEF PostScheduled, ThreadOf, Threads
  <2>2. /\ messages' \in Seq(Entry) /\ notified' \in SUBSET (Nat \X Partner)
        /\ Posts(firing[w], ThreadOf(firing[w])) /\ notified \subseteq notified'
    BY <1>0, <2>1, PostKeepsTypes
  <2>3. ThreadTypes' /\ Changes(Scheduled \cup {"notice"})
    BY <1>0, <1>5, <2>1, <2>2 DEF PostScheduled, bounds, ThreadTypes, Changes
  <2>4. ScheduledTypeOK' /\ Claims'
    BY <1>0, <1>5 DEF PostScheduled
  <2> QED BY <2>2, <2>3, <2>4
<1>6. ASSUME NEW w \in Worker, PostFails(w)
      PROVE  /\ ThreadTypes' /\ ScheduledTypeOK' /\ Claims'
             /\ UNCHANGED <<messages, notified>>
  BY <1>0, <1>6 DEF PostFails, Fault, tables, ThreadTypes
<1>7. ASSUME NEW w \in Worker, NoticeEnds(w), dropped' \in SUBSET Scheduled,
             notices' \in SUBSET [row : Scheduled, on : Nat, refused : BOOLEAN]
      PROVE  ScheduledTypeOK' /\ Claims'
  BY <1>0, <1>7 DEF NoticeEnds
<1>a. ASSUME NEW w \in Worker, NoticeEnds(w)
      PROVE  firing[w] \in Scheduled
  BY <1>0, <1>a DEF NoticeEnds
<1>8. ASSUME NEW w \in Worker, NotifyAuthorOfFailure(w)
      PROVE  /\ ThreadTypes' /\ Changes(Scheduled \cup {"notice"})
             /\ notified \subseteq notified'
  <2>1. CASE OwnWall = {}
    <3>1. MessagePost("notice", "wall", {Author}) /\ UNCHANGED <<work, faults>>
      BY <1>8, <2>1 DEF NotifyAuthorOfFailure, NoticeEnds
    <3>2. /\ "notice" \in Scheduled \cup Mail \cup Activity \cup {"notice"}
          /\ "wall" \in Threads /\ {Author} \in SUBSET Partner
      BY DEF Threads
    <3>3. /\ messages' \in Seq(Entry) /\ notified' \in SUBSET (Nat \X Partner)
          /\ Posts("notice", "wall") /\ notified \subseteq notified'
      BY <1>0, <3>1, <3>2, PostKeepsTypes
    <3>4. Changes(Scheduled \cup {"notice"})
      BY <3>2, <3>3 DEF Changes
    <3> QED BY <1>0, <3>1, <3>3, <3>4 DEF ThreadTypes
  <2>2. CASE OwnWall # {}
    <3>1. /\ notified' = notified \cup (Latest \X {Author})
          /\ UNCHANGED <<messages, work, faults>>
      BY <1>8, <2>2 DEF NotifyAuthorOfFailure, NoticeEnds, Carriers
    <3>2. Latest \subseteq Nat
      BY <1>0 DEF Latest, OwnWall, On, ThreadTypes
    <3>3. Latest \X {Author} \subseteq Nat \X Partner
      BY <3>2
    <3>4. notified' \in SUBSET (Nat \X Partner) /\ notified \subseteq notified'
      BY <1>0, <3>1, <3>3 DEF ThreadTypes
    <3>5. ThreadTypes'
      BY <1>0, <3>1, <3>4 DEF ThreadTypes
    <3> QED BY <3>1, <3>4, <3>5 DEF Changes
  <2> QED BY <2>1, <2>2
<1>b. ASSUME NEW w \in Worker, NotifyAuthorOfFailure(w)
      PROVE  ScheduledTypeOK' /\ Claims'
  <2>1. /\ NoticeEnds(w) /\ firing[w] \in Scheduled
        /\ dropped' = dropped \ {firing[w]}
        /\ notices' = notices \cup
               {[row |-> firing[w], on |-> i, refused |-> <<i, Author>> \in notified] :
                    i \in Carriers}
    BY <1>a, <1>b DEF NotifyAuthorOfFailure
  <2>2. Carriers \subseteq Nat
    BY <1>0 DEF Carriers, Latest, OwnWall, On, ThreadTypes
  <2>3. dropped' \in SUBSET Scheduled
    BY <1>0, <2>1
  <2>4. ASSUME NEW i \in Carriers
        PROVE  [row |-> firing[w], on |-> i, refused |-> <<i, Author>> \in notified]
                   \in [row : Scheduled, on : Nat, refused : BOOLEAN]
    <3>1. (<<i, Author>> \in notified) \in BOOLEAN
      OBVIOUS
    <3> QED BY <2>1, <2>2, <3>1
  <2>5. notices \in SUBSET [row : Scheduled, on : Nat, refused : BOOLEAN]
    BY <1>0
  <2>6. notices' \in SUBSET [row : Scheduled, on : Nat, refused : BOOLEAN]
    BY <2>1, <2>4, <2>5
  <2> QED BY <1>7, <2>1, <2>3, <2>6
<1>9. ASSUME NEW w \in Worker, NoticeFails(w)
      PROVE  /\ ThreadTypes' /\ ScheduledTypeOK' /\ Claims'
             /\ UNCHANGED <<messages, notified>>
  <2>1. /\ NoticeEnds(w) /\ firing[w] \in Scheduled /\ UNCHANGED notices
        /\ dropped' = dropped \cup {firing[w]}
    BY <1>a, <1>9 DEF NoticeFails
  <2>2. ScheduledTypeOK' /\ Claims'
    BY <1>0, <1>7, <2>1
  <2>3. ThreadTypes' /\ UNCHANGED <<messages, notified>>
    BY <1>0, <1>9 DEF NoticeFails, NoticeEnds, Fault, tables, ThreadTypes
  <2> QED BY <2>2, <2>3
<1>10. ASSUME NEW w \in Worker, CommitScheduled(w)
       PROVE  /\ ThreadTypes' /\ ScheduledTypeOK' /\ Claims'
              /\ UNCHANGED <<messages, notified>>
  <2>1. ThreadTypes' /\ UNCHANGED <<messages, notified>> /\ ScheduledTypeOK'
    BY <1>0, <1>10 DEF CommitScheduled, EndsDispatch, tables, bounds, ThreadTypes
  <2>2. Claims'
    BY <1>0, <1>10 DEF CommitScheduled, EndsDispatch
  <2> QED BY <2>1, <2>2
<1>11. ASSUME NEW w \in Worker, LoseClaim(w)
       PROVE  /\ ThreadTypes' /\ ScheduledTypeOK' /\ Claims'
              /\ UNCHANGED <<messages, notified>>
  <2>1. ThreadTypes' /\ UNCHANGED <<messages, notified>> /\ ScheduledTypeOK'
    BY <1>0, <1>11 DEF LoseClaim, EndsDispatch, Fault, tables, ThreadTypes
  <2>2. Claims'
    BY <1>0, <1>11 DEF LoseClaim, EndsDispatch
  <2> QED BY <2>1, <2>2
<1> QED BY <1>1, <1>2, <1>3, <1>4, <1>5, <1>6, <1>8, <1>9, <1>b, <1>10, <1>11
        DEF ScheduledNext, DispatchScheduled, Changes

\* The dispatch of held notifications, which posts nothing.
LEMMA HeldStep ==
    ASSUME Base, HeldNext
    PROVE  /\ ThreadTypes' /\ HeldTypeOK' /\ Holds'
           /\ UNCHANGED messages /\ notified \subseteq notified'
<1> USE ThreadAssumption
<1>0. ThreadTypes /\ HeldTypeOK /\ Holds
  BY DEF Base, TypeOK, ThreadTypes, Entry
<1> USE DEF HeldTypeOK, Holds
<1>1. ASSUME NEW h \in Held, NEW i \in DOMAIN messages, ArmNotify(h, i)
      PROVE  /\ ThreadTypes' /\ HeldTypeOK' /\ Holds'
             /\ UNCHANGED <<messages, notified>>
  BY <1>0, <1>1 DEF ArmNotify, Request, tables, ThreadTypes
<1>2. ASSUME NEW h \in Held, FallDueNotify(h) \/ CancelNotify(h)
      PROVE  /\ ThreadTypes' /\ HeldTypeOK' /\ Holds'
             /\ UNCHANGED <<messages, notified>>
  <2>1. ThreadTypes' /\ UNCHANGED <<messages, notified, target, batch>>
    BY <1>0, <1>2 DEF FallDueNotify, CancelNotify, threadVars, tables, bounds, ThreadTypes
  <2>2. /\ HeldTypeOK' /\ hold[h] # "none" /\ \A w \in Worker : hold'[h] = "due" \/ h \notin batch[w]
        /\ \A g \in Held : g # h => hold'[g] = hold[g]
    BY <1>0, <1>2, <2>1 DEF FallDueNotify, CancelNotify, InBatch
  <2> QED BY <1>0, <2>1, <2>2
<1>3. ASSUME NEW w \in Worker, ClaimNotify(w)
      PROVE  /\ ThreadTypes' /\ HeldTypeOK' /\ Holds'
             /\ UNCHANGED <<messages, notified>>
  BY <1>0, <1>3 DEF ClaimNotify, DueNotify, InBatch, tables, bounds, ThreadTypes
<1>4. ASSUME NEW w \in Worker, FireNotify(w)
      PROVE  /\ ThreadTypes' /\ HeldTypeOK' /\ Holds'
             /\ UNCHANGED messages /\ notified \subseteq notified'
  <2>1. ASSUME NEW h \in Held
        PROVE  FanOut(h) \subseteq Nat \X Partner
    BY <1>0 DEF FanOut, FollowersOf
  <2>2. UNION {FanOut(h) : h \in batch[w]} \subseteq Nat \X Partner
    BY <1>0, <2>1
  <2>3. ThreadTypes' /\ UNCHANGED messages /\ notified \subseteq notified'
    BY <1>0, <1>4, <2>2 DEF FireNotify, bounds, ThreadTypes
  <2>4. HeldTypeOK'
    BY <1>0, <1>4 DEF FireNotify, EndsBatch
  <2>5. ASSUME NEW v \in Worker, v # w, NEW h \in batch[v]
        PROVE  h \notin batch[w]
    BY <1>0, <2>5
  <2> QED BY <1>0, <1>4, <2>3, <2>4, <2>5 DEF FireNotify, EndsBatch
<1>5. ASSUME NEW w \in Worker, RefuseNotify(w) \/ LoseBatch(w)
      PROVE  /\ ThreadTypes' /\ HeldTypeOK' /\ Holds'
             /\ UNCHANGED <<messages, notified>>
  <2>1. ThreadTypes' /\ UNCHANGED <<messages, notified, hold, target>>
    BY <1>0, <1>5 DEF RefuseNotify, LoseBatch, Fault, tables, bounds, ThreadTypes
  <2>2. batch' = [batch EXCEPT ![w] = {}]
    BY <1>5 DEF RefuseNotify, LoseBatch, EndsBatch
  <2> QED BY <1>0, <2>1, <2>2
<1> QED BY <1>1, <1>2, <1>3, <1>4, <1>5 DEF HeldNext, DispatchNotify

\* The calls of the gateway.
LEMMA InboundStep ==
    ASSUME Base, InboundNext
    PROVE  /\ ThreadTypes' /\ InboundTypeOK' /\ Calling'
           /\ Changes(Mail) /\ notified \subseteq notified'
<1> USE InboundAssumption
<1>0. ThreadTypes /\ InboundTypeOK /\ Calling
  BY DEF Base, TypeOK, ThreadTypes, Entry
<1>a. Len(messages) \in Nat
  BY <1>0 DEF ThreadTypes
<1> USE DEF InboundTypeOK, Calling
<1>1. ASSUME NEW w \in Worker, NEW m \in Mail, Deliver(w, m) \/ Retry(w, m)
      PROVE  /\ ThreadTypes' /\ InboundTypeOK' /\ Calling'
             /\ UNCHANGED <<messages, notified>>
  <2>1. ThreadTypes' /\ UNCHANGED <<messages, notified>>
    BY <1>0, <1>1 DEF Deliver, Retry, Begin, Request, tables, ThreadTypes
  <2>2. Begin(w, m)
    BY <1>1 DEF Deliver, Retry
  <2> QED BY <1>0, <1>a, <2>1, <2>2 DEF Begin
<1>2. ASSUME NEW w \in Worker, EndsCall(w), messages' \in Seq(Entry),
             Len(messages) <= Len(messages'), Len(messages') \in Nat
      PROVE  /\ serving' \in [Worker -> Mail \cup {"none"}]
             /\ step' \in [Worker -> {"idle", "probe", "route", "insert", "commit"}]
             /\ since' \in [Worker -> Nat]
             /\ landing' \in [Worker -> Threads]
             /\ relayed' \in SUBSET Mail
             /\ Calling'
  BY <1>0, <1>a, <1>2 DEF EndsCall, Threads
<1>3. ASSUME NEW w \in Worker, NEW outcome \in Outcomes, step[w] # "idle",
             Answer(w, outcome)
      PROVE  answers' \in SUBSET [mail : Mail, outcome : Outcomes, since : Nat]
  BY <1>0, <1>3 DEF Answer
<1>4. ASSUME NEW w \in Worker, ProbeDuplicate(w) \/ RejectSender(w) \/ Drop(w)
      PROVE  /\ ThreadTypes' /\ InboundTypeOK' /\ Calling'
             /\ UNCHANGED <<messages, notified>>
  <2>1. /\ ThreadTypes' /\ UNCHANGED <<messages, notified>> /\ step[w] # "idle"
        /\ EndsCall(w) /\ \E outcome \in Outcomes : Answer(w, outcome)
    BY <1>0, <1>4 DEF ProbeDuplicate, RejectSender, Drop, Answer, Outcomes, tables, bounds,
                      ThreadTypes
  <2> QED BY <1>0, <1>a, <1>2, <1>3, <2>1 DEF ThreadTypes
<1>5. ASSUME NEW w \in Worker, PassAllowlist(w) \/ InsertMessage(w)
      PROVE  /\ ThreadTypes' /\ InboundTypeOK' /\ Calling'
             /\ UNCHANGED <<messages, notified>>
  BY <1>0, <1>5 DEF PassAllowlist, InsertMessage, Advances, threadVars, tables, bounds,
                    ThreadTypes
<1>6. ASSUME NEW w \in Worker, FollowLadder(w)
      PROVE  /\ ThreadTypes' /\ InboundTypeOK' /\ Calling'
             /\ UNCHANGED <<messages, notified>>
  <2>1. serving[w] \in Mail
    BY <1>0, <1>6 DEF FollowLadder
  <2>2. Route(serving[w]) \in Threads
    <3>1. Stored(Parent[serving[w]]) \subseteq DOMAIN messages
      BY DEF Stored, From
    <3>2. Stored(Parent[serving[w]]) # {} =>
              (CHOOSE i \in Stored(Parent[serving[w]]) : TRUE) \in DOMAIN messages
      BY <3>1
    <3>3. ASSUME NEW i \in DOMAIN messages
          PROVE  messages[i].thread \in Threads
      <4>1. messages[i] \in Entry
        BY <1>0 DEF ThreadTypes
      <4> QED BY <4>1 DEF Entry
    <3> QED BY <1>6, <3>2, <3>3 DEF FollowLadder, Route, Threads
  <2> QED BY <1>0, <1>6, <2>2 DEF FollowLadder, Advances, threadVars, tables, bounds,
                                  ThreadTypes
<1>7. ASSUME NEW w \in Worker, LoseRace(w) \/ LoseCall(w)
      PROVE  /\ ThreadTypes' /\ InboundTypeOK' /\ Calling'
             /\ UNCHANGED <<messages, notified>>
  <2>1. /\ ThreadTypes' /\ UNCHANGED <<messages, notified, answers>> /\ EndsCall(w)
    BY <1>0, <1>7 DEF LoseRace, LoseCall, Fault, threadVars, tables, bounds, ThreadTypes
  <2> QED BY <1>0, <1>a, <1>2, <2>1 DEF ThreadTypes
<1>8. ASSUME NEW w \in Worker, CommitMessage(w) \/ LoseAnswer(w)
      PROVE  /\ ThreadTypes' /\ InboundTypeOK' /\ Calling'
             /\ Changes(Mail) /\ notified \subseteq notified'
  <2>1. /\ serving[w] \in Mail /\ landing[w] \in Threads /\ step[w] # "idle"
        /\ MessagePost(serving[w], landing[w], {}) /\ EndsCall(w)
    BY <1>0, <1>8 DEF CommitMessage, LoseAnswer, Answer
  <2>2. /\ messages' \in Seq(Entry) /\ notified' \in SUBSET (Nat \X Partner)
        /\ Posts(serving[w], landing[w]) /\ notified \subseteq notified'
    BY <1>0, <2>1, PostKeepsTypes
  <2>3. Len(messages) <= Len(messages') /\ Len(messages') \in Nat
    <3>1. serving[w] \in Scheduled \cup Mail \cup Activity \cup {"notice"}
      BY <2>1
    <3>2. Len(messages') = Len(messages) + 1
      BY <1>0, <2>1, <2>2, <3>1, PostAdds DEF ThreadTypes
    <3> QED BY <1>a, <3>2
  <2>4. ThreadTypes'
    BY <1>0, <1>8, <2>2 DEF CommitMessage, LoseAnswer, Answer, Fault, bounds, ThreadTypes
  <2>5. answers' \in SUBSET [mail : Mail, outcome : Outcomes, since : Nat]
    BY <1>0, <1>3, <1>8, <2>1 DEF CommitMessage, LoseAnswer, Outcomes
  <2> QED BY <1>2, <2>1, <2>2, <2>3, <2>4, <2>5 DEF Changes
<1> QED BY <1>1, <1>4, <1>5, <1>6, <1>7, <1>8 DEF InboundNext, Serve, Changes

\* The completions of activities.
LEMMA ActivitiesStep ==
    ASSUME Base, ActivitiesNext
    PROVE  /\ ThreadTypes' /\ ActivitiesTypeOK' /\ Completions'
           /\ Changes(Activity) /\ notified \subseteq notified'
<1> USE ActivityAssumption
<1>0. ThreadTypes /\ ActivitiesTypeOK /\ Completions
  BY DEF Base, TypeOK, ThreadTypes, Entry
<1> USE DEF ActivitiesTypeOK, Completions
<1>1. ASSUME NEW a \in Activity, Schedule(a)
      PROVE  /\ ThreadTypes' /\ ActivitiesTypeOK' /\ Completions'
             /\ UNCHANGED <<messages, notified>>
  BY <1>0, <1>1 DEF Schedule, Request, tables, ThreadTypes
<1>2. ASSUME NEW w \in Worker, NEW a \in Activity, BeginDone(w, a)
      PROVE  /\ ThreadTypes' /\ ActivitiesTypeOK' /\ Completions'
             /\ UNCHANGED <<messages, notified>>
  BY <1>0, <1>2 DEF BeginDone, Request, tables, ThreadTypes
<1>3. ASSUME NEW w \in Worker, ArchiveDone(w)
      PROVE  /\ ThreadTypes' /\ ActivitiesTypeOK' /\ Completions'
             /\ UNCHANGED <<messages, notified>>
  <2>1. ThreadTypes' /\ UNCHANGED <<messages, notified>> /\ ActivitiesTypeOK'
    BY <1>0, <1>3 DEF ArchiveDone, threadVars, tables, bounds, ThreadTypes
  <2>2. Completions'
    BY <1>0, <1>3 DEF ArchiveDone, Archiving
  <2> QED BY <2>1, <2>2
<1>4. ASSUME NEW w \in Worker, verdict[w] # "none", CommitNote(w)
      PROVE  /\ ThreadTypes' /\ Changes(Activity) /\ notified \subseteq notified'
  <2>1. /\ doing[w] \in Activity /\ "document" \in Threads
        /\ MessagePost(doing[w], "document", {}) /\ UNCHANGED bounds
    BY <1>0, <1>4 DEF CommitNote, Threads
  <2>2. /\ messages' \in Seq(Entry) /\ notified' \in SUBSET (Nat \X Partner)
        /\ Posts(doing[w], "document") /\ notified \subseteq notified'
    BY <1>0, <2>1, PostKeepsTypes
  <2> QED BY <1>0, <2>1, <2>2 DEF bounds, ThreadTypes, Changes
<1>5. ASSUME NEW w \in Worker, CommitDone(w)
      PROVE  ActivitiesTypeOK' /\ Completions'
  BY <1>0, <1>5 DEF CommitDone, CommitNote, EndsDone
<1>6. ASSUME NEW w \in Worker, CommitAgain(w)
      PROVE  ActivitiesTypeOK' /\ Completions'
  BY <1>0, <1>6 DEF CommitAgain, CommitNote, EndsDone
<1>7. ASSUME NEW w \in Worker, LoseDone(w)
      PROVE  /\ ThreadTypes' /\ ActivitiesTypeOK' /\ Completions'
             /\ UNCHANGED <<messages, notified>>
  BY <1>0, <1>7 DEF LoseDone, EndsDone, Fault, tables, ThreadTypes
<1>8. ASSUME NEW w \in Worker, CommitDone(w) \/ CommitAgain(w)
      PROVE  verdict[w] # "none" /\ CommitNote(w)
  BY <1>8 DEF CommitDone, CommitAgain
<1> QED BY <1>1, <1>2, <1>3, <1>4, <1>5, <1>6, <1>7, <1>8
        DEF ActivitiesNext, Complete, Changes

\* What any step keeps: the types, the claims, and the messages that were there.
LEMMA StepKeeps ==
    ASSUME Base, [Next]_vars
    PROVE  /\ Base' /\ notified \subseteq notified'
           /\ Changes(Scheduled \cup Mail \cup Activity \cup {"notice"})
<1>1. Base <=> /\ ThreadTypes /\ ScheduledTypeOK /\ HeldTypeOK /\ InboundTypeOK
               /\ ActivitiesTypeOK /\ Claims /\ Holds /\ Calling /\ Completions
  BY DEF Base, TypeOK, ThreadTypes, Entry
<1>2. Base' <=> /\ ThreadTypes' /\ ScheduledTypeOK' /\ HeldTypeOK' /\ InboundTypeOK'
                /\ ActivitiesTypeOK' /\ Claims' /\ Holds' /\ Calling' /\ Completions'
  BY DEF Base, TypeOK, ThreadTypes, Entry
<1>3. ASSUME Changes(Scheduled \cup Mail \cup Activity \cup {"notice"})
      PROVE  /\ UNCHANGED heldVars => HeldTypeOK' /\ Holds'
             /\ UNCHANGED inboundVars => InboundTypeOK' /\ Calling'
  <2>1. /\ Len(messages) <= Len(messages')
        /\ Len(messages) \in Nat /\ Len(messages') \in Nat
        /\ \A i \in DOMAIN messages : i \in DOMAIN messages'
    BY <1>1, <1>3, OnlyAppended DEF ThreadTypes
  <2>2. UNCHANGED heldVars => HeldTypeOK' /\ Holds'
    BY <1>1, <2>1 DEF heldVars, HeldTypeOK, Holds
  <2>3. UNCHANGED inboundVars => InboundTypeOK' /\ Calling'
    BY <1>1, <2>1 DEF inboundVars, InboundTypeOK, Calling
  <2> QED BY <2>2, <2>3
<1>4. UNCHANGED scheduledVars => ScheduledTypeOK' /\ Claims'
  BY <1>1 DEF scheduledVars, noticeVars, ScheduledTypeOK, Claims
<1>5. UNCHANGED activityVars => ActivitiesTypeOK' /\ Completions'
  BY <1>1 DEF activityVars, ActivitiesTypeOK, Completions
<1>6. ASSUME ScheduledNext, UNCHANGED <<heldVars, inboundVars, activityVars>>
      PROVE  /\ Base' /\ notified \subseteq notified'
             /\ Changes(Scheduled \cup Mail \cup Activity \cup {"notice"})
  <2>1. /\ ThreadTypes' /\ ScheduledTypeOK' /\ Claims'
        /\ Changes(Scheduled \cup {"notice"}) /\ notified \subseteq notified'
    BY <1>6, ScheduledStep
  <2>2. Changes(Scheduled \cup Mail \cup Activity \cup {"notice"})
    BY <2>1 DEF Changes
  <2> QED BY <1>2, <1>3, <1>5, <1>6, <2>1, <2>2
<1>7. ASSUME HeldNext, UNCHANGED <<scheduledVars, inboundVars, activityVars>>
      PROVE  /\ Base' /\ notified \subseteq notified'
             /\ Changes(Scheduled \cup Mail \cup Activity \cup {"notice"})
  <2>1. /\ ThreadTypes' /\ HeldTypeOK' /\ Holds'
        /\ UNCHANGED messages /\ notified \subseteq notified'
    BY <1>7, HeldStep
  <2>2. Changes(Scheduled \cup Mail \cup Activity \cup {"notice"})
    BY <2>1 DEF Changes
  <2> QED BY <1>2, <1>3, <1>4, <1>5, <1>7, <2>1, <2>2
<1>8. ASSUME InboundNext, UNCHANGED <<scheduledVars, heldVars, activityVars>>
      PROVE  /\ Base' /\ notified \subseteq notified'
             /\ Changes(Scheduled \cup Mail \cup Activity \cup {"notice"})
  <2>1. /\ ThreadTypes' /\ InboundTypeOK' /\ Calling'
        /\ Changes(Mail) /\ notified \subseteq notified'
    BY <1>8, InboundStep
  <2>2. Changes(Scheduled \cup Mail \cup Activity \cup {"notice"})
    BY <2>1 DEF Changes
  <2> QED BY <1>2, <1>3, <1>4, <1>5, <1>8, <2>1, <2>2
<1>9. ASSUME ActivitiesNext, UNCHANGED <<scheduledVars, heldVars, inboundVars>>
      PROVE  /\ Base' /\ notified \subseteq notified'
             /\ Changes(Scheduled \cup Mail \cup Activity \cup {"notice"})
  <2>1. /\ ThreadTypes' /\ ActivitiesTypeOK' /\ Completions'
        /\ Changes(Activity) /\ notified \subseteq notified'
    BY <1>9, ActivitiesStep
  <2>2. Changes(Scheduled \cup Mail \cup Activity \cup {"notice"})
    BY <2>1 DEF Changes
  <2> QED BY <1>2, <1>3, <1>4, <1>9, <2>1, <2>2
<1>10. ASSUME UNCHANGED vars
       PROVE  /\ Base' /\ notified \subseteq notified'
              /\ Changes(Scheduled \cup Mail \cup Activity \cup {"notice"})
  <2>1. UNCHANGED <<messages, notified, work, faults>>
    BY <1>10 DEF vars, threadVars, tables, bounds
  <2>2. ThreadTypes' /\ Changes(Scheduled \cup Mail \cup Activity \cup {"notice"})
    BY <1>1, <2>1 DEF ThreadTypes, Changes
  <2>3. UNCHANGED <<scheduledVars, heldVars, inboundVars, activityVars>>
    BY <1>10 DEF vars
  <2> QED BY <1>2, <1>3, <1>4, <1>5, <2>1, <2>2, <2>3
<1> QED BY <1>6, <1>7, <1>8, <1>9, <1>10 DEF Next

\* The start.
LEMMA InitBase == ASSUME Init PROVE Base
<1> USE ThreadAssumption DEF Init
<1>1. /\ messages = <<>> /\ notified = {} /\ work = 0 /\ faults = 0
  BY DEF ThreadsInit
<1>2. ScheduledTypeOK /\ Claims
  BY DEF ScheduledInit, ScheduledTypeOK, Claims
<1>3. HeldTypeOK /\ Holds
  BY DEF HeldInit, HeldTypeOK, Holds
<1>4. InboundTypeOK /\ Calling
  BY <1>1 DEF InboundInit, InboundTypeOK, Calling, Threads
<1>5. ActivitiesTypeOK /\ Completions
  BY DEF ActivitiesInit, ActivitiesTypeOK, Completions
<1> QED BY <1>1, <1>2, <1>3, <1>4, <1>5 DEF Base, TypeOK

LEMMA BaseHolds == Spec => []Base
<1>1. Init => Base
  BY InitBase
<1>2. Base /\ [Next]_vars => Base'
  BY StepKeeps
<1> QED BY <1>1, <1>2, PTL DEF Spec

\* The writers of threads keep their tables, claims and calls in their types,
\* whatever they do at the same time (TypeOK).
THEOREM TypeCorrect == Spec => []TypeOK
<1>1. Base => TypeOK
  BY DEF Base
<1> QED BY <1>1, BaseHolds, PTL

-----------------------------------------------------------------------------
(***************************************************************************)
(* Who wrote what.                                                         *)
(***************************************************************************)
Writers == Scheduled \cup Mail \cup Activity \cup {"notice"}

\* A step adds no message of anyone it does not post for.
LEMMA FromOthers ==
    ASSUME messages \in Seq(Entry), NEW W \in SUBSET Writers, Changes(W), NEW y, y \notin W
    PROVE  From(y)' = From(y)
<1>1. CASE UNCHANGED messages
  BY <1>1 DEF From
<1>2. ASSUME NEW x \in W, NEW thread \in Threads, Posts(x, thread)
      PROVE  From(y)' = From(y)
  <2>1. x \in Scheduled \cup Mail \cup Activity \cup {"notice"} /\ x # y
    BY DEF Writers
  <2>2. /\ DOMAIN messages = 1 .. Len(messages)
        /\ DOMAIN messages' = 1 .. (Len(messages) + 1)
        /\ Len(messages) \in Nat
        /\ \A i \in DOMAIN messages : messages'[i] = messages[i]
        /\ messages'[Len(messages) + 1] = [from |-> x, thread |-> thread]
    BY <1>2, <2>1, PostAdds
  <2>3. messages'[Len(messages) + 1].from # y
    BY <2>1, <2>2
  <2>4. DOMAIN messages' = DOMAIN messages \cup {Len(messages) + 1}
    BY <2>2
  <2> QED BY <2>2, <2>3, <2>4 DEF From
<1> QED BY <1>1, <1>2 DEF Changes

\* A post adds one message to its writer, at the end, on its thread.
LEMMA FromWriter ==
    ASSUME messages \in Seq(Entry), NEW x \in Writers, NEW thread \in Threads,
           Posts(x, thread)
    PROVE  /\ From(x)' = From(x) \cup {Len(messages) + 1}
           /\ Len(messages) + 1 \notin From(x)
           /\ messages'[Len(messages) + 1].thread = thread
           /\ \A t : On(t) \subseteq On(t)'
           /\ Len(messages) + 1 \in On(thread)'
<1>1. /\ DOMAIN messages = 1 .. Len(messages)
      /\ DOMAIN messages' = 1 .. (Len(messages) + 1)
      /\ Len(messages) \in Nat
      /\ \A i \in DOMAIN messages : messages'[i] = messages[i]
      /\ messages'[Len(messages) + 1] = [from |-> x, thread |-> thread]
  BY PostAdds DEF Writers
<1>2. DOMAIN messages' = DOMAIN messages \cup {Len(messages) + 1}
  BY <1>1
<1>3. Len(messages) + 1 \notin DOMAIN messages
  BY <1>1
<1> QED BY <1>1, <1>2, <1>3 DEF From, On

\* Nothing that was written goes away.
LEMMA WrittenStays ==
    ASSUME messages \in Seq(Entry), Changes(Writers)
    PROVE  /\ \A y : From(y) \subseteq From(y)'
           /\ \A t : On(t) \subseteq On(t)'
<1>1. \A i \in DOMAIN messages : i \in DOMAIN messages' /\ messages'[i] = messages[i]
  BY OnlyAppended DEF Writers
<1> QED BY <1>1 DEF From, On

\* What each component can write.
LEMMA StepWrites ==
    ASSUME Base, Next
    PROVE  /\ messages \in Seq(Entry)
           /\ \/ ScheduledNext /\ Changes(Scheduled \cup {"notice"})
              \/ HeldNext /\ Changes({}) /\ UNCHANGED <<scheduledVars, inboundVars, activityVars>>
              \/ InboundNext /\ Changes(Mail) /\ UNCHANGED <<scheduledVars, heldVars, activityVars>>
              \/ ActivitiesNext /\ Changes(Activity) /\ UNCHANGED <<scheduledVars, heldVars, inboundVars>>
<1>1. messages \in Seq(Entry)
  BY DEF Base, TypeOK, Entry
<1>2. UNCHANGED messages => Changes({})
  BY DEF Changes
<1> QED BY <1>1, <1>2, ScheduledStep, HeldStep, InboundStep, ActivitiesStep DEF Next

-----------------------------------------------------------------------------
(***************************************************************************)
(* Held notifications.                                                     *)
(***************************************************************************)
LEMMA FiredStep ==
    ASSUME Base, FiredReachesFollowers, [Next]_vars
    PROVE  FiredReachesFollowers'
<1>1. messages \in Seq(Entry) /\ HeldTypeOK /\ Holds
  BY DEF Base, TypeOK, Entry
<1>2. /\ notified \subseteq notified'
      /\ \A i \in DOMAIN messages : i \in DOMAIN messages' /\ messages'[i] = messages[i]
  BY <1>1, StepKeeps, OnlyAppended
<1>3. ASSUME NEW h \in Held, hold[h] = "fired", target'[h] = target[h]
      PROVE  FanOut(h)' \subseteq notified'
  <2>1. target[h] \in DOMAIN messages /\ FanOut(h) \subseteq notified
    BY <1>1, <1>3 DEF Holds, FiredReachesFollowers
  <2>2. FanOut(h)' = FanOut(h)
    BY <1>2, <1>3, <2>1 DEF FanOut
  <2> QED BY <1>2, <2>1, <2>2
<1>4. ASSUME UNCHANGED heldVars
      PROVE  FiredReachesFollowers'
  BY <1>3, <1>4 DEF heldVars, FiredReachesFollowers
<1>5. ASSUME NEW w \in Worker, FireNotify(w)
      PROVE  FiredReachesFollowers'
  <2>1. ASSUME NEW h \in Held, hold'[h] = "fired", h \in batch[w]
        PROVE  FanOut(h)' \subseteq notified'
    <3>1. FanOut(h)' = FanOut(h)
      BY <1>5 DEF FireNotify, FanOut
    <3>2. FanOut(h) \subseteq notified'
      BY <1>5, <2>1 DEF FireNotify
    <3> QED BY <3>1, <3>2
  <2>2. ASSUME NEW h \in Held, hold'[h] = "fired", h \notin batch[w]
        PROVE  hold[h] = "fired" /\ target'[h] = target[h]
    BY <1>1, <1>5, <2>2 DEF FireNotify
  <2> QED BY <1>3, <2>1, <2>2 DEF FiredReachesFollowers
<1>6. ASSUME HeldNext, ~\E w \in Worker : FireNotify(w), NEW h \in Held, hold'[h] = "fired"
      PROVE  hold[h] = "fired" /\ target'[h] = target[h]
  BY <1>1, <1>6 DEF HeldNext, DispatchNotify, ArmNotify, FallDueNotify, CancelNotify,
     ClaimNotify, RefuseNotify, LoseBatch, HeldTypeOK
<1>7. CASE HeldNext
  BY <1>3, <1>5, <1>6, <1>7 DEF FiredReachesFollowers
<1> QED BY <1>4, <1>7 DEF Next, vars

\* A row that fired has reached every follower, whatever else posts and notifies
\* meanwhile (dispatch_due_notify).
THEOREM FiredReachesFollowersHolds == Spec => []FiredReachesFollowers
<1>1. Init => FiredReachesFollowers
  BY DEF Init, HeldInit, FiredReachesFollowers
<1>2. Base /\ FiredReachesFollowers /\ [Next]_vars => FiredReachesFollowers'
  BY FiredStep
<1> QED BY <1>1, <1>2, BaseHolds, PTL DEF Spec

-----------------------------------------------------------------------------
(***************************************************************************)
(* Activities.                                                             *)
(***************************************************************************)
LEMMA DoneStep ==
    ASSUME Base, DoneIsWhole, [Next]_vars
    PROVE  DoneIsWhole'
<1> USE ActivityAssumption
<1>1. /\ messages \in Seq(Entry) /\ ActivitiesTypeOK /\ Completions
      /\ Changes(Writers)
  BY StepKeeps DEF Base, TypeOK, Entry, Writers
<1>2. \A a : From(a) \subseteq From(a)'
  BY <1>1, WrittenStays
<1>3. CASE UNCHANGED <<activity, next>>
  BY <1>2, <1>3 DEF DoneIsWhole
<1>4. ASSUME NEW a \in Activity, Schedule(a)
      PROVE  DoneIsWhole'
  BY <1>1, <1>2, <1>4 DEF Schedule, DoneIsWhole, ActivitiesTypeOK
<1>5. ASSUME NEW w \in Worker, NEW b \in Activity, b = doing[w], CommitDone(w)
      PROVE  DoneIsWhole'
  <2>1. activity[b] = "active" /\ Posts(b, "document")
    BY <1>1, <1>5 DEF CommitDone, CommitNote, MessagePost, Posts, Completions, ActivitiesTypeOK
  <2>2. From(b)' # {}
    <3>1. b \in Writers /\ "document" \in Threads
      BY DEF Writers, Threads
    <3>2. From(b)' = From(b) \cup {Len(messages) + 1}
      BY <1>1, <2>1, <3>1, FromWriter
    <3> QED BY <3>2
  <2>3. /\ activity' = [activity EXCEPT ![b] = "done"]
        /\ next' = [next EXCEPT ![b] = IF b \in Chaining THEN @ + 1 ELSE @]
    BY <1>5 DEF CommitDone
  <2>4. next[b] = 0
    BY <2>1 DEF DoneIsWhole
  <2>5. /\ activity'[b] = "done"
        /\ next'[b] = IF b \in Chaining THEN 1 ELSE 0
    BY <1>1, <2>3, <2>4 DEF ActivitiesTypeOK
  <2>6. \A a \in Activity \ {b} : activity'[a] = activity[a] /\ next'[a] = next[a]
    BY <1>1, <2>3 DEF ActivitiesTypeOK
  <2>7. ASSUME NEW a \in Activity, a # b
        PROVE  /\ activity'[a] = "done" => From(a)' # {}
               /\ next'[a] = IF activity'[a] = "done" /\ a \in Chaining THEN 1 ELSE 0
    BY <1>2, <2>6, <2>7 DEF DoneIsWhole
  <2> QED BY <2>2, <2>5, <2>7 DEF DoneIsWhole
<1>6. ASSUME ActivitiesNext, ~\E a \in Activity : Schedule(a), ~\E w \in Worker : CommitDone(w)
      PROVE  UNCHANGED <<activity, next>>
  BY <1>6 DEF ActivitiesNext, Complete, BeginDone, ArchiveDone, CommitAgain, LoseDone
<1>7. \A w \in Worker : CommitDone(w) => doing[w] \in Activity
  BY <1>1 DEF CommitDone, Completions, ActivitiesTypeOK
<1> QED BY <1>3, <1>4, <1>5, <1>6, <1>7 DEF Next, vars, activityVars

\* An activity is done with its note and its one successor, or not at all,
\* however many calls complete it and whichever are lost (action_done).
THEOREM DoneIsWholeHolds == Spec => []DoneIsWhole
<1>1. Init => DoneIsWhole
  BY DEF Init, ActivitiesInit, DoneIsWhole
<1>2. Base /\ DoneIsWhole /\ [Next]_vars => DoneIsWhole'
  BY DoneStep
<1> QED BY <1>1, <1>2, BaseHolds, PTL DEF Spec

-----------------------------------------------------------------------------
(***************************************************************************)
(* The gateway.                                                            *)
(***************************************************************************)
\* Between a call's insert and its commit no other call has its Message-ID.
Inserts ==
    \A w \in Worker : step[w] = "commit" /\ serving[w] \in Identified =>
        /\ From(serving[w]) = {}
        /\ \A v \in Worker \ {w} : ~(serving[v] = serving[w] /\ step[v] = "commit")

Stores == Inserts /\ AcceptedIsStoredOnce

\* A call that takes a step short of its commit, and what it may answer.
LEMMA QuietStep ==
    ASSUME Base, Stores, UNCHANGED messages, NEW w \in Worker,
           \A v \in Worker \ {w} : serving'[v] = serving[v] /\ step'[v] = step[v],
           step'[w] # "commit",
           \A a \in answers' : a \in answers
               \/ (a.outcome \in {"routed", "duplicate"} => From(a.mail) # {})
    PROVE  Stores'
<1>1. \A y : From(y)' = From(y)
  BY DEF From
<1>2. AcceptedIsStoredOnce'
  BY <1>1 DEF Stores, AcceptedIsStoredOnce
<1> QED BY <1>1, <1>2 DEF Stores, Inserts

\* A commit, answered or not.
LEMMA CommitStep ==
    ASSUME Base, Stores, NEW w \in Worker, NEW m \in Mail, m = serving[w],
           step[w] = "commit", EndsCall(w), MessagePost(m, landing[w], {}),
           \A a \in answers' : a \in answers \/ a.mail = m
    PROVE  Stores'
<1> USE InboundAssumption
<1>1. /\ messages \in Seq(Entry) /\ InboundTypeOK
      /\ m \in Writers /\ landing[w] \in Threads
  BY DEF Base, TypeOK, Entry, InboundTypeOK, Writers
<1>2. Posts(m, landing[w])
  BY DEF MessagePost, Posts
<1>3. From(m)' = From(m) \cup {Len(messages) + 1}
  BY <1>1, <1>2, FromWriter
<1>4. ASSUME NEW y, y # m
      PROVE  From(y)' = From(y)
  <2>1. Changes({m}) /\ {m} \in SUBSET Writers
    BY <1>1, <1>2 DEF Changes
  <2> QED BY <1>1, <1>4, <2>1, FromOthers
<1>5. /\ step'[w] = "idle"
      /\ \A v \in Worker \ {w} : serving'[v] = serving[v] /\ step'[v] = step[v]
  BY <1>1 DEF EndsCall, InboundTypeOK
<1>6. Inserts'
  BY <1>4, <1>5 DEF Stores, Inserts
<1>7. ASSUME NEW a \in answers', a.outcome \in {"routed", "duplicate"}
      PROVE  From(a.mail)' # {}
  <2>1. CASE a.mail = m
    BY <1>3, <2>1
  <2>2. CASE a.mail # m
    <3>1. From(a.mail)' = From(a.mail)
      BY <1>4, <2>2
    <3> QED BY <1>7, <2>2, <3>1 DEF Stores, AcceptedIsStoredOnce
  <2> QED BY <2>1, <2>2
<1>8. ASSUME NEW n \in Identified
      PROVE  \A i, j \in From(n)' : i = j
  <2>1. CASE n = m
    <3>1. From(n) = {}
      BY <1>8, <2>1 DEF Stores, Inserts
    <3> QED BY <1>3, <2>1, <3>1
  <2>2. CASE n # m
    BY <1>4, <2>2 DEF Stores, AcceptedIsStoredOnce
  <2> QED BY <2>1, <2>2
<1> QED BY <1>6, <1>7, <1>8 DEF Stores, AcceptedIsStoredOnce

LEMMA StoresStep ==
    ASSUME Base, Stores, [Next]_vars
    PROVE  Stores'
<1> USE InboundAssumption, TrafficAssumption
<1>1. messages \in Seq(Entry) /\ InboundTypeOK
  BY DEF Base, TypeOK, Entry
<1>2. ASSUME UNCHANGED inboundVars, NEW W \in SUBSET Writers, Changes(W), W \cap Mail = {}
      PROVE  Stores'
  <2>1. \A m \in Mail : From(m)' = From(m)
    BY <1>1, <1>2, FromOthers
  <2>2. \A a \in answers : a.mail \in Mail
    BY <1>1 DEF InboundTypeOK
  <2>3. Inserts'
    BY <1>2, <2>1 DEF Stores, Inserts, inboundVars
  <2>4. AcceptedIsStoredOnce'
    BY <1>2, <2>1, <2>2 DEF Stores, AcceptedIsStoredOnce, inboundVars
  <2> QED BY <2>3, <2>4 DEF Stores
<1>3. ASSUME NEW w \in Worker,
             \/ \E m \in Mail : Deliver(w, m) \/ Retry(w, m)
             \/ RejectSender(w) \/ PassAllowlist(w) \/ Drop(w) \/ FollowLadder(w)
             \/ LoseRace(w) \/ LoseCall(w) \/ ProbeDuplicate(w)
      PROVE  Stores'
  <2>1. UNCHANGED messages
    BY <1>3 DEF Deliver, Retry, Begin, RejectSender, PassAllowlist, Drop, FollowLadder,
       LoseRace, LoseCall, ProbeDuplicate, Advances, threadVars, tables
  <2>2. /\ \A v \in Worker \ {w} : serving'[v] = serving[v] /\ step'[v] = step[v]
        /\ step'[w] # "commit"
    BY <1>1, <1>3 DEF Deliver, Retry, Begin, RejectSender, PassAllowlist, Drop, FollowLadder,
       LoseRace, LoseCall, ProbeDuplicate, Advances, Answer, EndsCall, InboundTypeOK
  <2>3. \A a \in answers' : a \in answers
            \/ (a.outcome \in {"routed", "duplicate"} => From(a.mail) # {})
    <3>1. CASE ProbeDuplicate(w)
      <4>1. /\ From(serving[w]) # {}
            /\ answers' = answers \cup {[mail |-> serving[w], outcome |-> "duplicate", since |-> since[w]]}
        BY <3>1 DEF ProbeDuplicate, Answer, Stored
      <4> QED BY <4>1
    <3>2. CASE RejectSender(w)
      <4>1. answers' = answers \cup {[mail |-> serving[w], outcome |-> "rejected", since |-> since[w]]}
        BY <3>2 DEF RejectSender, Answer
      <4> QED BY <4>1
    <3>3. CASE Drop(w)
      <4>1. answers' = answers \cup {[mail |-> serving[w], outcome |-> "dropped", since |-> since[w]]}
        BY <3>3 DEF Drop, Answer
      <4> QED BY <4>1
    <3>4. CASE ~(ProbeDuplicate(w) \/ RejectSender(w) \/ Drop(w))
      BY <1>3, <3>4 DEF Deliver, Retry, Begin, PassAllowlist, FollowLadder, LoseRace,
         LoseCall, Advances
    <3> QED BY <3>1, <3>2, <3>3, <3>4
  <2> QED BY <2>1, <2>2, <2>3, QuietStep
<1>4. ASSUME NEW w \in Worker, InsertMessage(w)
      PROVE  Stores'
  <2>1. /\ \A y : From(y)' = From(y)
        /\ UNCHANGED <<serving, answers>>
        /\ \A v \in Worker \ {w} : step'[v] = step[v]
        /\ serving[w] \in Identified => From(serving[w]) = {}
        /\ \A v \in Worker \ {w} : serving[w] \in Identified =>
               ~(serving[v] = serving[w] /\ step[v] = "commit")
    BY <1>1, <1>4 DEF InsertMessage, Advances, threadVars, tables, From, Stored, Contended,
       InboundTypeOK
  <2>2. Inserts'
    BY <2>1 DEF Stores, Inserts
  <2> QED BY <2>1, <2>2 DEF Stores, AcceptedIsStoredOnce
<1>5. ASSUME NEW w \in Worker, CommitMessage(w) \/ LoseAnswer(w)
      PROVE  Stores'
  <2>1. /\ step[w] = "commit" /\ EndsCall(w) /\ MessagePost(serving[w], landing[w], {})
        /\ \A a \in answers' : a \in answers \/ a.mail = serving[w]
    BY <1>5 DEF CommitMessage, LoseAnswer, Answer
  <2>2. serving[w] \in Mail
    BY <1>1, <2>1 DEF Base, Calling
  <2> QED BY <2>1, <2>2, CommitStep
<1>6. CASE InboundNext
  BY <1>3, <1>4, <1>5, <1>6 DEF InboundNext, Serve
<1>7. CASE UNCHANGED vars
  <2>1. UNCHANGED inboundVars /\ Changes({})
    BY <1>7 DEF vars, threadVars, tables, Changes
  <2> QED BY <1>2, <2>1
<1>8. CASE Next
  <2>1. /\ Scheduled \cup {"notice"} \in SUBSET Writers /\ (Scheduled \cup {"notice"}) \cap Mail = {}
        /\ Activity \in SUBSET Writers /\ Activity \cap Mail = {}
        /\ {} \in SUBSET Writers
    BY DEF Writers
  <2>2. InboundNext \/ UNCHANGED inboundVars
    BY <1>8 DEF Next
  <2> QED BY <1>2, <1>6, <1>8, <2>1, <2>2, StepWrites
<1> QED BY <1>7, <1>8

LEMMA StoresHolds == Spec => []Stores
<1>1. Init => Stores
  BY DEF Init, InboundInit, ThreadsInit, Stores, Inserts, AcceptedIsStoredOnce, From
<1>2. Base /\ Stores /\ [Next]_vars => Stores'
  BY StoresStep
<1> QED BY <1>1, <1>2, BaseHolds, PTL DEF Spec

\* A mail that a relay may forget is stored, and once if it has a Message-ID,
\* however its deliveries race, die and repeat (process_inbound).
THEOREM AcceptedIsStoredOnceHolds == Spec => []AcceptedIsStoredOnce
<1>1. Stores => AcceptedIsStoredOnce
  BY DEF Stores
<1> QED BY <1>1, StoresHolds, PTL

\* The messages of a mail's parent among the first ones.
Heard(m, n) == (IF Parent[m] = "none" THEN {} ELSE Stored(Parent[m])) \cap (1 .. n)

\* A call that has its landing has it from its parent, if that was there.
Landed ==
    /\ \A a \in answers : a.since <= Len(messages)
    /\ \A w \in Worker : step[w] \in {"insert", "commit"} =>
           \A i \in Heard(serving[w], since[w]) : messages[i].thread = landing[w]

\* What was among the first messages stays what it was.
LEMMA HeardStays ==
    ASSUME messages \in Seq(Entry), Changes(Writers),
           NEW n \in Nat, n <= Len(messages)
    PROVE  /\ \A m : Heard(m, n)' = Heard(m, n)
           /\ \A m : \A i \in Heard(m, n) : messages'[i] = messages[i]
           /\ \A t : (On(t) \cap (1 .. n))' = On(t) \cap (1 .. n)
<1>1. /\ DOMAIN messages = 1 .. Len(messages)
      /\ DOMAIN messages' = 1 .. Len(messages')
      /\ Len(messages) \in Nat /\ Len(messages') \in Nat
      /\ Len(messages) <= Len(messages')
      /\ \A i \in DOMAIN messages : messages'[i] = messages[i]
  BY OnlyAppended DEF Writers
<1>2. ASSUME NEW i \in 1 .. n
      PROVE  i \in DOMAIN messages /\ i \in DOMAIN messages' /\ messages'[i] = messages[i]
  BY <1>1
<1>3. \A m : From(m)' \cap (1 .. n) = From(m) \cap (1 .. n)
  BY <1>2 DEF From
<1>4. \A m : Heard(m, n)' = Heard(m, n)
  BY <1>3 DEF Heard, Stored
<1>5. \A t : (On(t) \cap (1 .. n))' = On(t) \cap (1 .. n)
  BY <1>2 DEF On
<1>6. \A m : \A i \in Heard(m, n) : messages'[i] = messages[i]
  BY <1>2 DEF Heard
<1> QED BY <1>4, <1>5, <1>6

\* What an answer that is already given says stays true.
LEMMA AnswersStay ==
    ASSUME messages \in Seq(Entry), Changes(Writers), NEW a,
           a.mail \in Mail, a.since \in Nat, a.since <= Len(messages)
    PROVE  /\ KnownParent(a)' = KnownParent(a)
           /\ \A i \in KnownParent(a) : messages'[i] = messages[i]
           /\ (On("document") \cap Known(a))' = On("document") \cap Known(a)
           /\ \A j \in From(a.mail) : j \in From(a.mail)' /\ messages'[j] = messages[j]
<1>1. KnownParent(a) = Heard(a.mail, a.since) /\ Known(a) = 1 .. a.since
  BY DEF KnownParent, Known, Heard
<1>2. KnownParent(a)' = Heard(a.mail, a.since)'
  BY DEF KnownParent, Known, Heard
<1>3. /\ Heard(a.mail, a.since)' = Heard(a.mail, a.since)
      /\ \A i \in Heard(a.mail, a.since) : messages'[i] = messages[i]
      /\ (On("document") \cap (1 .. a.since))' = On("document") \cap (1 .. a.since)
  BY HeardStays
<1>4. \A i \in DOMAIN messages : i \in DOMAIN messages' /\ messages'[i] = messages[i]
  BY OnlyAppended DEF Writers
<1> QED BY <1>1, <1>2, <1>3, <1>4 DEF From, Known

\* The messages of the table are entries, each on one of the threads.
LEMMA OnThreads ==
    ASSUME messages \in Seq(Entry), NEW i \in DOMAIN messages
    PROVE  messages[i].thread \in Threads
<1>1. messages[i] \in Entry
  OBVIOUS
<1> QED BY <1>1 DEF Entry

\* A call that is past its ladder and does not move keeps its landing.
LEMMA LandingStays ==
    ASSUME Base, Landed, Changes(Writers), NEW w \in Worker,
           step[w] \in {"insert", "commit"},
           serving'[w] = serving[w], since'[w] = since[w], landing'[w] = landing[w]
    PROVE  \A i \in Heard(serving[w], since[w])' : messages'[i].thread = landing'[w]
<1>1. /\ messages \in Seq(Entry) /\ since[w] \in Nat /\ since[w] <= Len(messages)
  BY DEF Base, TypeOK, Entry, Calling, InboundTypeOK
<1>2. PICK m : m = serving[w]
  OBVIOUS
<1>3. PICK n \in Nat : n = since[w]
  BY <1>1
<1>4. /\ Heard(m, n)' = Heard(m, n)
      /\ \A i \in Heard(m, n) : messages'[i] = messages[i]
  BY <1>1, <1>3, HeardStays
<1>5. \A i \in Heard(m, n) : messages[i].thread = landing[w]
  BY <1>2, <1>3 DEF Landed
<1>6. Heard(serving[w], since[w])' = Heard(m, n)'
  BY <1>2, <1>3 DEF Heard
<1> QED BY <1>4, <1>5, <1>6

\* What is true of one answer.
Routed(a) ==
    /\ a.outcome = "dropped" => KnownParent(a) = {}
    /\ a.outcome = "dropped" /\ a.mail \in Aliased => On("document") \cap Known(a) = {}
    /\ a.outcome = "routed" => \A i \in KnownParent(a) :
           \E j \in From(a.mail) : j > a.since /\ messages[j].thread = messages[i].thread

LEMMA RoutedStays ==
    ASSUME Base, Landed, RoutedAsKnown, Changes(Writers), NEW a \in answers
    PROVE  Routed(a)' /\ a.since <= Len(messages')
<1>1. /\ messages \in Seq(Entry) /\ a.mail \in Mail /\ a.since \in Nat
      /\ a.since <= Len(messages)
  BY DEF Base, TypeOK, Entry, InboundTypeOK, Landed
<1>2. /\ KnownParent(a)' = KnownParent(a)
      /\ \A i \in KnownParent(a) : messages'[i] = messages[i]
      /\ (On("document") \cap Known(a))' = On("document") \cap Known(a)
      /\ \A j \in From(a.mail) : j \in From(a.mail)' /\ messages'[j] = messages[j]
  BY <1>1, AnswersStay
<1>3. Routed(a)
  BY DEF RoutedAsKnown, Routed
<1>4. Routed(a)'
  <2>1. a.outcome = "routed" => \A i \in KnownParent(a)' :
           \E j \in From(a.mail)' : j > a.since /\ messages'[j].thread = messages'[i].thread
    BY <1>2, <1>3 DEF Routed
  <2> QED BY <1>2, <1>3, <2>1 DEF Routed
<1>5. Len(messages) \in Nat /\ Len(messages') \in Nat /\ Len(messages) <= Len(messages')
  BY <1>1, OnlyAppended DEF Writers
<1> QED BY <1>1, <1>4, <1>5

\* What a step has to show of the answers it adds and the calls it moves.
LEMMA RoutedKept ==
    ASSUME Base, Landed, RoutedAsKnown, Changes(Writers),
           \A a \in answers' : a \in answers \/ (Routed(a)' /\ a.since <= Len(messages')),
           \A w \in Worker : step'[w] \in {"insert", "commit"} =>
               \/ /\ step[w] \in {"insert", "commit"}
                  /\ serving'[w] = serving[w] /\ since'[w] = since[w]
                  /\ landing'[w] = landing[w]
               \/ \A i \in Heard(serving[w], since[w])' : messages'[i].thread = landing'[w]
    PROVE  Landed' /\ RoutedAsKnown'
<1>1. \A a \in answers' : Routed(a)' /\ a.since <= Len(messages')
  BY RoutedStays
<1>2. RoutedAsKnown'
  BY <1>1 DEF RoutedAsKnown, Routed
<1>3. \A w \in Worker : step'[w] \in {"insert", "commit"} =>
          \A i \in Heard(serving[w], since[w])' : messages'[i].thread = landing'[w]
  BY LandingStays
<1> QED BY <1>1, <1>2, <1>3 DEF Landed

\* What the ladder finds for a reply whose parent is there.
LEMMA RouteOfReply ==
    ASSUME messages \in Seq(Entry), AcceptedIsStoredOnce, NEW m \in Mail,
           Parent[m] # "none", NEW i \in Stored(Parent[m])
    PROVE  Route(m) = messages[i].thread
<1>1. PICK p : p = Parent[m]
  OBVIOUS
<1>2. p \in Identified /\ i \in From(p) /\ Stored(p) = From(p)
  BY <1>1 DEF Stored
<1>3. \A j \in Stored(p) : j = i
  BY <1>2 DEF AcceptedIsStoredOnce
<1>4. (CHOOSE j \in Stored(p) : TRUE) = i
  BY <1>1, <1>3
<1>5. Route(m) = messages[CHOOSE j \in Stored(p) : TRUE].thread
  BY <1>1 DEF Route
<1> QED BY <1>4, <1>5

LEMMA DropStep ==
    ASSUME Base, Stores, NEW w \in Worker, Drop(w), NEW a \in answers' \ answers
    PROVE  Routed(a)'
<1>1. messages \in Seq(Entry) /\ serving[w] \in Mail /\ UNCHANGED messages
  BY DEF Base, TypeOK, Entry, Calling, InboundTypeOK, Drop, tables
<1>2. a = [mail |-> serving[w], outcome |-> "dropped", since |-> since[w]]
  BY DEF Drop, Answer
<1>3. PICK m \in Mail : m = serving[w] /\ m = a.mail
  BY <1>1, <1>2
<1>4. Route(m) = "unroutable"
  BY <1>3 DEF Drop
<1>5. Parent[m] = "none" \/ Stored(Parent[m]) = {}
  <2>1. ASSUME Parent[m] # "none", NEW i \in Stored(Parent[m])
        PROVE  FALSE
    <3>1. Route(m) = messages[i].thread
      BY <1>1, <2>1, RouteOfReply DEF Stores
    <3>2. i \in DOMAIN messages
      BY DEF Stored, From
    <3>3. messages[i].thread \in Threads
      BY <1>1, <3>2, OnThreads
    <3> QED BY <1>4, <3>1, <3>3 DEF Threads
  <2> QED BY <2>1
<1>6. m \in Aliased => On("document") = {}
  BY <1>4, <1>5 DEF Route
<1>7. KnownParent(a)' = KnownParent(a) /\ (On("document") \cap Known(a))' = On("document") \cap Known(a)
  BY <1>1 DEF KnownParent, Known, Stored, From, On
<1>8. a.outcome = "dropped"
  BY <1>2
<1> QED BY <1>3, <1>5, <1>6, <1>7, <1>8 DEF Routed, KnownParent

LEMMA CommitRoutes ==
    ASSUME Base, Landed, NEW w \in Worker, CommitMessage(w), NEW a \in answers' \ answers
    PROVE  Routed(a)'
<1>1. /\ messages \in Seq(Entry) /\ serving[w] \in Mail /\ landing[w] \in Threads
      /\ since[w] \in Nat /\ since[w] <= Len(messages) /\ step[w] = "commit"
  BY DEF Base, TypeOK, Entry, Calling, InboundTypeOK, CommitMessage
<1>2. a = [mail |-> serving[w], outcome |-> "routed", since |-> since[w]]
  BY DEF CommitMessage, Answer
<1>3. PICK m \in Mail, n \in Nat : m = serving[w] /\ n = since[w]
  BY <1>1
<1>4. a.mail = m /\ a.since = n /\ a.outcome = "routed"
  BY <1>2, <1>3
<1>5. Posts(m, landing[w]) /\ m \in Writers
  BY <1>3 DEF CommitMessage, MessagePost, Posts, Writers
<1>6. Changes(Writers)
  BY <1>1, <1>5 DEF Changes
<1>7. /\ Len(messages) + 1 \in From(m)'
      /\ messages'[Len(messages) + 1].thread = landing[w]
  BY <1>1, <1>5, FromWriter
<1>8. KnownParent(a)' = KnownParent(a) /\ \A i \in KnownParent(a) : messages'[i] = messages[i]
  BY <1>1, <1>3, <1>4, <1>6, AnswersStay
<1>9. KnownParent(a) = Heard(m, n)
  BY <1>4 DEF KnownParent, Known, Heard
<1>10. \A i \in KnownParent(a) : messages[i].thread = landing[w]
  BY <1>1, <1>3, <1>9 DEF Landed
<1>11. Len(messages) + 1 > n
  BY <1>1, <1>3
<1>12. \A i \in KnownParent(a)' :
           \E j \in From(a.mail)' : j > a.since /\ messages'[j].thread = messages'[i].thread
  BY <1>4, <1>7, <1>8, <1>10, <1>11
<1> QED BY <1>4, <1>12 DEF Routed

LEMMA RoutedStep ==
    ASSUME Base, Stores, Landed, RoutedAsKnown, [Next]_vars
    PROVE  Landed' /\ RoutedAsKnown'
<1>1. /\ messages \in Seq(Entry) /\ InboundTypeOK /\ Calling /\ Changes(Writers)
      /\ Len(messages) <= Len(messages')
  BY StepKeeps, OnlyAppended DEF Base, TypeOK, Entry, Writers
<1>2. CASE UNCHANGED inboundVars
  BY <1>1, <1>2, RoutedKept DEF inboundVars
<1>3. ASSUME NEW w \in Worker, EndsCall(w)
      PROVE  \A v \in Worker : step'[v] \in {"insert", "commit"} =>
                 /\ step[v] \in {"insert", "commit"}
                 /\ serving'[v] = serving[v] /\ since'[v] = since[v]
                 /\ landing'[v] = landing[v]
  BY <1>1, <1>3 DEF EndsCall, InboundTypeOK
<1>4. ASSUME NEW w \in Worker, NEW outcome, Answer(w, outcome), NEW a \in answers' \ answers
      PROVE  a.outcome = outcome /\ a.since <= Len(messages')
  <2>1. a = [mail |-> serving[w], outcome |-> outcome, since |-> since[w]]
    BY <1>4 DEF Answer
  <2>2. since[w] \in Nat /\ since[w] <= Len(messages) /\ Len(messages) \in Nat /\ Len(messages') \in Nat
    BY <1>1, OnlyAppended DEF Calling, InboundTypeOK, Writers
  <2> QED BY <1>1, <2>1, <2>2
<1>5. ASSUME NEW w \in Worker, NEW m \in Mail, Deliver(w, m) \/ Retry(w, m)
      PROVE  Landed' /\ RoutedAsKnown'
  <2>1. /\ UNCHANGED answers
        /\ \A v \in Worker : step'[v] \in {"insert", "commit"} =>
               /\ step[v] \in {"insert", "commit"}
               /\ serving'[v] = serving[v] /\ since'[v] = since[v]
               /\ landing'[v] = landing[v]
    BY <1>1, <1>5 DEF Deliver, Retry, Begin, InboundTypeOK
  <2> QED BY <1>1, <2>1, RoutedKept
<1>6. ASSUME NEW w \in Worker, ProbeDuplicate(w) \/ RejectSender(w)
      PROVE  Landed' /\ RoutedAsKnown'
  <2>1. Answer(w, "duplicate") \/ Answer(w, "rejected")
    BY <1>6 DEF ProbeDuplicate, RejectSender
  <2>2. ASSUME NEW a \in answers' \ answers
        PROVE  Routed(a)' /\ a.since <= Len(messages')
    <3>1. a.outcome \notin {"dropped", "routed"} /\ a.since <= Len(messages')
      BY <1>4, <2>1
    <3> QED BY <3>1 DEF Routed
  <2>3. EndsCall(w)
    BY <2>1 DEF Answer
  <2> QED BY <1>1, <1>3, <2>2, <2>3, RoutedKept
<1>7. ASSUME NEW w \in Worker, Drop(w)
      PROVE  Landed' /\ RoutedAsKnown'
  <2>1. Answer(w, "dropped") /\ EndsCall(w)
    BY <1>7 DEF Drop, Answer
  <2>2. \A a \in answers' \ answers : Routed(a)' /\ a.since <= Len(messages')
    BY <1>4, <1>7, <2>1, DropStep
  <2> QED BY <1>1, <1>3, <2>1, <2>2, RoutedKept
<1>8. ASSUME NEW w \in Worker, PassAllowlist(w) \/ InsertMessage(w)
      PROVE  Landed' /\ RoutedAsKnown'
  <2>1. /\ UNCHANGED answers
        /\ \A v \in Worker : step'[v] \in {"insert", "commit"} =>
               /\ step[v] \in {"insert", "commit"}
               /\ serving'[v] = serving[v] /\ since'[v] = since[v]
               /\ landing'[v] = landing[v]
    BY <1>1, <1>8 DEF PassAllowlist, InsertMessage, Advances, InboundTypeOK
  <2> QED BY <1>1, <2>1, RoutedKept
<1>9. ASSUME NEW w \in Worker, FollowLadder(w)
      PROVE  Landed' /\ RoutedAsKnown'
  <2>1. /\ step[w] = "route" /\ landing' = [landing EXCEPT ![w] = Route(serving[w])]
        /\ step' = [step EXCEPT ![w] = "insert"]
        /\ UNCHANGED <<messages, serving, since, answers>>
    BY <1>9 DEF FollowLadder, Advances, threadVars, tables
  <2>2. PICK m \in Mail : m = serving[w]
    BY <1>1, <2>1 DEF Calling
  <2>3. ASSUME NEW i \in Heard(m, since[w])
        PROVE  messages[i].thread = Route(m)
    <3>1. Parent[m] # "none" /\ i \in Stored(Parent[m])
      BY <2>3 DEF Heard
    <3> QED BY <1>1, <3>1, RouteOfReply DEF Stores
  <2>4. landing'[w] = Route(m)
    BY <1>1, <2>1, <2>2 DEF InboundTypeOK
  <2>5. Heard(serving[w], since[w])' = Heard(m, since[w])
    BY <2>1, <2>2 DEF Heard, Stored, From
  <2>6. \A i \in Heard(serving[w], since[w])' : messages'[i].thread = landing'[w]
    BY <2>1, <2>3, <2>4, <2>5
  <2>7. \A v \in Worker : v # w =>
            step'[v] = step[v] /\ serving'[v] = serving[v] /\ since'[v] = since[v]
                /\ landing'[v] = landing[v]
    BY <1>1, <2>1 DEF InboundTypeOK
  <2> QED BY <1>1, <2>1, <2>6, <2>7, RoutedKept
<1>10. ASSUME NEW w \in Worker, CommitMessage(w)
       PROVE  Landed' /\ RoutedAsKnown'
  <2>1. Answer(w, "routed") /\ EndsCall(w)
    BY <1>10 DEF CommitMessage, Answer
  <2>2. \A a \in answers' \ answers : Routed(a)' /\ a.since <= Len(messages')
    BY <1>4, <1>10, <2>1, CommitRoutes
  <2> QED BY <1>1, <1>3, <2>1, <2>2, RoutedKept
<1>11. ASSUME NEW w \in Worker, LoseRace(w) \/ LoseAnswer(w) \/ LoseCall(w)
       PROVE  Landed' /\ RoutedAsKnown'
  <2>1. EndsCall(w) /\ UNCHANGED answers
    BY <1>11 DEF LoseRace, LoseAnswer, LoseCall
  <2> QED BY <1>1, <1>3, <2>1, RoutedKept
<1>12. InboundNext \/ UNCHANGED inboundVars
  BY DEF Next, vars
<1> QED BY <1>2, <1>5, <1>6, <1>7, <1>8, <1>9, <1>10, <1>11, <1>12 DEF InboundNext, Serve

\* A reply goes to the thread of its parent and no mail is dropped that a
\* message of its conversation or of its alias's thread would have placed,
\* if it was stored when the call began (the ladder of process_inbound).
THEOREM RoutedAsKnownHolds == Spec => []RoutedAsKnown
<1>1. Init => Landed /\ RoutedAsKnown
  BY DEF Init, InboundInit, Landed, RoutedAsKnown
<1>2. Base /\ Stores /\ Landed /\ RoutedAsKnown /\ [Next]_vars => Landed' /\ RoutedAsKnown'
  BY RoutedStep
<1> QED BY <1>1, <1>2, BaseHolds, StoresHolds, PTL DEF Spec

-----------------------------------------------------------------------------
(***************************************************************************)
(* Scheduled posts.                                                        *)
(***************************************************************************)
\* A dispatch has dealt with a row that it has claimed.
Handled(r) == \E w \in Worker : r \in claimed[w] \ todo[w] /\ firing[w] # r

\* A row that was posted, by a dispatch that is not interrupted, is dispatched
\* or will be by its commit; a barred one is never up for its post.
Fate(r) ==
    /\ r \notin interrupted => \A i, j \in From(r) : i = j
    /\ r \notin interrupted /\ From(r) # {} => post[r] = "dispatched" \/ Handled(r)
    /\ r \in barred =>
           /\ From(r) = {} /\ ~CanPost(r)
           /\ \A w \in Worker : ~(firing[w] = r /\ phase[w] = "post")

Fates ==
    /\ \A w \in Worker : phase[w] = "idle" => claimed[w] = {}
    /\ \A r \in Scheduled : Fate(r)

\* A step that posts no row, and forgets none that it has dealt with.
LEMMA FateKept ==
    ASSUME Fates, NEW r \in Scheduled, From(r)' = From(r),
           interrupted \subseteq interrupted',
           r \notin interrupted' /\ From(r) # {} /\ (post[r] = "dispatched" \/ Handled(r))
               => post'[r] = "dispatched" \/ Handled(r)',
           allowed' => allowed,
           r \in barred' => r \in barred \/ (From(r) = {} /\ ~CanPost(r)),
           r \in barred' => \A w \in Worker :
               ~(firing'[w] = r /\ phase'[w] = "post")
    PROVE  Fate(r)'
<1>1. Fate(r)
  BY DEF Fates
<1>2. CanPost(r)' => CanPost(r)
  BY DEF CanPost
<1> QED BY <1>1, <1>2 DEF Fate

LEMMA FatesStep ==
    ASSUME Base, Fates, [Next]_vars
    PROVE  Fates'
<1> USE ScheduledAssumption, TrafficAssumption
<1>1. messages \in Seq(Entry) /\ ScheduledTypeOK /\ Claims
  BY DEF Base, TypeOK, Entry
<1>2. ASSUME UNCHANGED scheduledVars, \A r \in Scheduled : From(r)' = From(r)
      PROVE  Fates'
  <2>1. \A r \in Scheduled : Handled(r)' <=> Handled(r)
    BY <1>2 DEF Handled, scheduledVars
  <2>2. \A r \in Scheduled : Fate(r)'
    BY <1>2, <2>1 DEF Fates, Fate, CanPost, scheduledVars
  <2> QED BY <1>2, <2>2 DEF Fates, scheduledVars
<1>3. UNCHANGED messages => \A r \in Scheduled : From(r)' = From(r)
  BY DEF From
<1>4. ASSUME NEW q \in Scheduled, ArmScheduledMessage(q) \/ FallDue(q) \/ CancelScheduledMessage(q)
      PROVE  Fates'
  <2>1. UNCHANGED <<messages, claimed, todo, firing, phase, allowed, interrupted, barred>>
    BY <1>4 DEF ArmScheduledMessage, FallDue, CancelScheduledMessage, threadVars, tables
  <2>2. ASSUME NEW r \in Scheduled, post[r] = "dispatched" \/ Handled(r)
        PROVE  post'[r] = "dispatched" \/ Handled(r)'
    BY <1>1, <1>4, <2>1, <2>2 DEF ArmScheduledMessage, FallDue, CancelScheduledMessage,
       Handled, ScheduledTypeOK
  <2>3. \A r \in Scheduled : r \in barred => \A w \in Worker : ~(firing[w] = r /\ phase[w] = "post")
    BY DEF Fates, Fate
  <2>4. \A r \in Scheduled : Fate(r)'
    BY <1>3, <2>1, <2>2, <2>3, FateKept
  <2> QED BY <2>1, <2>4 DEF Fates
<1>5. CASE Revoke
  <2>1. /\ UNCHANGED <<messages, post, claimed, todo, firing, phase, interrupted, barred>>
        /\ ~allowed'
    BY <1>5 DEF Revoke, threadVars, tables
  <2>2. \A r \in Scheduled : Handled(r)' <=> Handled(r)
    BY <2>1 DEF Handled
  <2>3. \A r \in Scheduled : r \in barred => \A w \in Worker : ~(firing[w] = r /\ phase[w] = "post")
    BY DEF Fates, Fate
  <2>4. \A r \in Scheduled : Fate(r)'
    BY <1>3, <2>1, <2>2, <2>3, FateKept
  <2> QED BY <2>1, <2>4 DEF Fates
<1>6. ASSUME NEW w \in Worker, ClaimScheduled(w)
      PROVE  Fates'
  <2>1. /\ UNCHANGED <<messages, post, firing, allowed, interrupted>>
        /\ claimed' = [claimed EXCEPT ![w] = DueScheduled]
        /\ todo' = [todo EXCEPT ![w] = DueScheduled]
        /\ phase' = [phase EXCEPT ![w] = "next"] /\ phase[w] = "idle" /\ claimed[w] = {}
        /\ barred' = barred \cup {r \in DueScheduled : ~CanPost(r) /\ From(r) = {}}
    BY <1>6 DEF ClaimScheduled, tables, Fates
  <2>2. ASSUME NEW r \in Scheduled, Handled(r)
        PROVE  Handled(r)'
    BY <1>1, <2>1, <2>2 DEF Handled, ScheduledTypeOK
  <2>3. ASSUME NEW r \in Scheduled, r \in barred', NEW v \in Worker,
               firing'[v] = r, phase'[v] = "post"
        PROVE  FALSE
    <3>1. phase[v] = "post" /\ firing[v] = r
      BY <1>1, <2>1, <2>3 DEF ScheduledTypeOK
    <3>2. r \notin barred
      BY <3>1 DEF Fates, Fate
    <3>3. r \in DueScheduled
      BY <2>1, <2>3, <3>2
    <3>4. r \in claimed[v]
      BY <1>1, <3>1 DEF Claims
    <3> QED BY <3>3, <3>4 DEF DueScheduled, Locked
  <2>4. \A r \in Scheduled : r \in barred' => r \in barred \/ (From(r) = {} /\ ~CanPost(r))
    BY <2>1
  <2>5. \A r \in Scheduled : Fate(r)'
    BY <1>3, <2>1, <2>2, <2>3, <2>4, FateKept
  <2>6. \A v \in Worker : phase'[v] = "idle" => claimed'[v] = {}
    BY <1>1, <2>1 DEF Fates, ScheduledTypeOK
  <2> QED BY <2>5, <2>6 DEF Fates
<1>7. ASSUME NEW w \in Worker, NEW q \in Scheduled, CheckPermission(w, q)
      PROVE  Fates'
  <2>1. /\ UNCHANGED <<messages, post, claimed, allowed, interrupted, barred>>
        /\ firing' = [firing EXCEPT ![w] = q]
        /\ todo' = [todo EXCEPT ![w] = @ \ {q}]
        /\ phase' = [phase EXCEPT ![w] = IF CanPost(q) THEN "post" ELSE "notice"]
        /\ phase[w] = "next" /\ q \in todo[w] /\ firing[w] = "none"
    BY <1>1, <1>7 DEF CheckPermission, threadVars, tables, Claims
  <2>2. ASSUME NEW r \in Scheduled, Handled(r)
        PROVE  Handled(r)'
    <3>1. PICK v \in Worker : r \in claimed[v] \ todo[v] /\ firing[v] # r
      BY <2>2 DEF Handled
    <3>2. CASE v = w
      <4>1. r # q
        BY <2>1, <3>1, <3>2
      <4>2. r \in claimed'[w] \ todo'[w] /\ firing'[w] # r
        BY <1>1, <2>1, <3>1, <3>2, <4>1 DEF ScheduledTypeOK
      <4> QED BY <4>2 DEF Handled
    <3>3. CASE v # w
      <4>1. r \in claimed'[v] \ todo'[v] /\ firing'[v] # r
        BY <1>1, <2>1, <3>1, <3>3 DEF ScheduledTypeOK
      <4> QED BY <4>1 DEF Handled
    <3> QED BY <3>2, <3>3
  <2>3. ASSUME NEW r \in Scheduled, r \in barred, NEW v \in Worker
        PROVE  ~(firing'[v] = r /\ phase'[v] = "post")
    <3>1. ~CanPost(r) /\ ~(firing[v] = r /\ phase[v] = "post")
      BY <2>3 DEF Fates, Fate
    <3> QED BY <1>1, <2>1, <3>1 DEF ScheduledTypeOK
  <2>4. \A r \in Scheduled : Fate(r)'
    BY <1>3, <2>1, <2>2, <2>3, FateKept
  <2>5. \A v \in Worker : phase'[v] = "idle" => claimed'[v] = {}
    BY <1>1, <2>1 DEF Fates, ScheduledTypeOK
  <2> QED BY <2>4, <2>5 DEF Fates
<1>8. ASSUME NEW w \in Worker, NEW q \in Scheduled, q = firing[w], PostScheduled(w)
      PROVE  Fates'
  <2>1. /\ UNCHANGED <<post, claimed, todo, allowed, interrupted, barred>>
        /\ phase' = [phase EXCEPT ![w] = "next"]
        /\ firing' = [firing EXCEPT ![w] = "none"]
        /\ phase[w] = "post" /\ q \in claimed[w] \ todo[w]
        /\ Posts(q, ThreadOf(q)) /\ ThreadOf(q) \in Threads
    BY <1>1, <1>8 DEF PostScheduled, MessagePost, Posts, Claims, ThreadOf, Threads
  <2>2. From(q)' = From(q) \cup {Len(messages) + 1}
    BY <1>1, <2>1, FromWriter DEF Writers
  <2>3. ASSUME NEW r \in Scheduled, r # q
        PROVE  From(r)' = From(r)
    <3>1. Changes({q}) /\ {q} \in SUBSET Writers
      BY <2>1 DEF Changes, Writers
    <3> QED BY <1>1, <2>3, <3>1, FromOthers
  <2>4. q \notin barred
    BY <1>8, <2>1 DEF Fates, Fate
  <2>5. q \notin interrupted => From(q) = {}
    <3>1. post[q] = "due"
      BY <1>1, <2>1 DEF Claims
    <3>2. ~Handled(q)
      BY <1>1, <1>8, <2>1 DEF Claims, Handled
    <3> QED BY <3>1, <3>2 DEF Fates, Fate
  <2>6. Handled(q)'
    <3>1. q \in claimed'[w] \ todo'[w] /\ firing'[w] # q
      BY <1>1, <2>1 DEF ScheduledTypeOK
    <3> QED BY <3>1 DEF Handled
  <2>7. Fate(q)'
    BY <2>1, <2>2, <2>4, <2>5, <2>6 DEF Fate
  <2>8. ASSUME NEW r \in Scheduled, r # q
        PROVE  Fate(r)'
    <3>1. Handled(r) => Handled(r)'
      <4>1. \A v \in Worker : r \in claimed[v] \ todo[v] /\ firing[v] # r =>
                r \in claimed'[v] \ todo'[v] /\ firing'[v] # r
        BY <1>1, <2>1 DEF ScheduledTypeOK
      <4> QED BY <4>1 DEF Handled
    <3>2. r \in barred => \A v \in Worker : ~(firing'[v] = r /\ phase'[v] = "post")
      BY <1>1, <2>1 DEF Fates, Fate, ScheduledTypeOK
    <3> QED BY <2>1, <2>3, <2>8, <3>1, <3>2, FateKept
  <2>9. \A v \in Worker : phase'[v] = "idle" => claimed'[v] = {}
    BY <1>1, <2>1 DEF Fates, ScheduledTypeOK
  <2> QED BY <2>7, <2>8, <2>9 DEF Fates
<1>9. ASSUME NEW w \in Worker, PostFails(w) \/ NoticeEnds(w),
             \A r \in Scheduled : From(r)' = From(r)
      PROVE  Fates'
  <2>1. /\ UNCHANGED <<post, claimed, todo, allowed, interrupted, barred>>
        /\ \E f \in {firing[w], "none"} : firing' = [firing EXCEPT ![w] = f]
        /\ \E p \in {"next", "notice"} : phase' = [phase EXCEPT ![w] = p]
    <3>1. CASE PostFails(w)
      <4>1. firing' = [firing EXCEPT ![w] = firing[w]]
        BY <1>1, <3>1 DEF PostFails, ScheduledTypeOK
      <4> QED BY <3>1, <4>1 DEF PostFails
    <3>2. CASE NoticeEnds(w)
      BY <3>2 DEF NoticeEnds
    <3> QED BY <1>9, <3>1, <3>2
  <2>2. ASSUME NEW r \in Scheduled
        PROVE  Handled(r) => Handled(r)'
    <3>1. \A v \in Worker : r \in claimed[v] \ todo[v] /\ firing[v] # r =>
              r \in claimed'[v] \ todo'[v] /\ firing'[v] # r
      BY <1>1, <2>1 DEF ScheduledTypeOK
    <3> QED BY <3>1 DEF Handled
  <2>3. ASSUME NEW r \in Scheduled, r \in barred, NEW v \in Worker
        PROVE  ~(firing'[v] = r /\ phase'[v] = "post")
    <3>1. ~(firing[v] = r /\ phase[v] = "post")
      BY <2>3 DEF Fates, Fate
    <3> QED BY <1>1, <2>1, <3>1 DEF ScheduledTypeOK
  <2>4. \A r \in Scheduled : Fate(r)'
    BY <1>9, <2>1, <2>2, <2>3, FateKept
  <2>5. \A v \in Worker : phase'[v] = "idle" => claimed'[v] = {}
    BY <1>1, <2>1 DEF Fates, ScheduledTypeOK
  <2> QED BY <2>4, <2>5 DEF Fates
<1>10. ASSUME NEW w \in Worker, CommitScheduled(w) \/ LoseClaim(w)
       PROVE  Fates'
  <2>1. /\ UNCHANGED <<messages, allowed, barred>>
        /\ EndsDispatch(w) /\ interrupted \subseteq interrupted'
    BY <1>10 DEF CommitScheduled, LoseClaim, tables
  <2>2. ASSUME NEW r \in Scheduled, r \notin interrupted', post[r] = "dispatched" \/ Handled(r)
        PROVE  post'[r] = "dispatched" \/ Handled(r)'
    <3>1. CASE r \in claimed[w]
      BY <1>1, <1>10, <2>2, <3>1 DEF CommitScheduled, LoseClaim
    <3>2. CASE r \notin claimed[w]
      <4>1. post'[r] = post[r]
        BY <1>1, <1>10, <3>2 DEF CommitScheduled, LoseClaim
      <4>2. ASSUME NEW v \in Worker, r \in claimed[v] \ todo[v], firing[v] # r
            PROVE  r \in claimed'[v] \ todo'[v] /\ firing'[v] # r
        BY <1>1, <2>1, <3>2, <4>2 DEF EndsDispatch, ScheduledTypeOK
      <4> QED BY <2>2, <4>1, <4>2 DEF Handled
    <3> QED BY <3>1, <3>2
  <2>3. ASSUME NEW r \in Scheduled, r \in barred, NEW v \in Worker
        PROVE  ~(firing'[v] = r /\ phase'[v] = "post")
    <3>1. ~(firing[v] = r /\ phase[v] = "post")
      BY <2>3 DEF Fates, Fate
    <3> QED BY <1>1, <2>1, <3>1 DEF EndsDispatch, ScheduledTypeOK
  <2>4. \A r \in Scheduled : Fate(r)'
    BY <1>3, <2>1, <2>2, <2>3, FateKept
  <2>5. \A v \in Worker : phase'[v] = "idle" => claimed'[v] = {}
    BY <1>1, <2>1 DEF Fates, EndsDispatch, ScheduledTypeOK
  <2> QED BY <2>4, <2>5 DEF Fates
<1>11. ASSUME NEW w \in Worker, NotifyAuthorOfFailure(w) \/ NoticeFails(w)
       PROVE  NoticeEnds(w) /\ \A r \in Scheduled : From(r)' = From(r)
  <2>1. NoticeEnds(w)
    BY <1>11 DEF NotifyAuthorOfFailure, NoticeFails
  <2>2. UNCHANGED messages \/ Posts("notice", "wall")
    BY <1>11 DEF NotifyAuthorOfFailure, NoticeFails, MessagePost, Posts, tables
  <2>3. Changes({"notice"}) /\ {"notice"} \in SUBSET Writers
    BY <2>2 DEF Changes, Threads, Writers
  <2> QED BY <1>1, <2>1, <2>3, FromOthers
<1>12. CASE ScheduledNext
  <2>1. ASSUME NEW w \in Worker, PostScheduled(w)
        PROVE  firing[w] \in Scheduled
    BY <1>1, <2>1 DEF PostScheduled, Claims, ScheduledTypeOK
  <2>2. ASSUME NEW w \in Worker, PostFails(w)
        PROVE  \A r \in Scheduled : From(r)' = From(r)
    BY <1>3, <2>2 DEF PostFails, tables
  <2> QED BY <1>4, <1>5, <1>6, <1>7, <1>8, <1>9, <1>10, <1>11, <1>12, <2>1, <2>2
          DEF ScheduledNext, DispatchScheduled
<1>13. CASE Next /\ ~ScheduledNext
  <2>1. UNCHANGED scheduledVars
    BY <1>13 DEF Next
  <2>2. /\ Mail \in SUBSET Writers /\ Activity \in SUBSET Writers /\ {} \in SUBSET Writers
        /\ \A r \in Scheduled : r \notin Mail /\ r \notin Activity
    BY DEF Writers
  <2>3. Changes({}) \/ Changes(Mail) \/ Changes(Activity)
    BY <1>13, StepWrites
  <2>4. \A r \in Scheduled : From(r)' = From(r)
    BY <1>1, <2>2, <2>3, FromOthers
  <2> QED BY <1>2, <2>1, <2>4
<1>14. CASE UNCHANGED vars
  BY <1>2, <1>3, <1>14 DEF vars, threadVars, tables
<1> QED BY <1>12, <1>13, <1>14

LEMMA FatesHold == Spec => []Fates
<1>1. Init => Fates
  BY DEF Init, ScheduledInit, ThreadsInit, Fates, Fate, From, Handled
<1>2. Base /\ Fates /\ [Next]_vars => Fates'
  BY FatesStep
<1> QED BY <1>1, <1>2, BaseHolds, PTL DEF Spec

\* A scheduled message is posted at most once, and not at all when it was
\* cancelled or its author had lost the permission, unless a dispatch that had
\* claimed it was interrupted (dispatch_due_scheduled).
THEOREM ScheduledFateHolds == Spec => []ScheduledFate
<1>1. Base /\ Fates => ScheduledFate
  <2>1. SUFFICES ASSUME Base, Fates, NEW r \in Scheduled,
                        r \notin interrupted, post[r] = "cancelled"
                 PROVE  From(r) = {}
    BY DEF Fates, Fate, ScheduledFate
  <2>2. ~Handled(r)
    BY <2>1 DEF Handled, Base, Claims
  <2> QED BY <2>1, <2>2 DEF Fates, Fate
<1> QED BY <1>1, BaseHolds, FatesHold, PTL

-----------------------------------------------------------------------------
(***************************************************************************)
(* A scheduled message implements the one-shot.                            *)
(***************************************************************************)
shot == <<post, Posted, interrupted, barred>>

\* The messages of a row are finitely many, and none is the empty set.
LEMMA FromFinite ==
    ASSUME messages \in Seq(Entry), NEW r
    PROVE  /\ IsFiniteSet(From(r)) /\ Cardinality(From(r)) \in Nat
           /\ Cardinality(From(r)) = 0 <=> From(r) = {}
<1>1. From(r) \subseteq 1 .. Len(messages) /\ Len(messages) \in Nat
  BY DEF From
<1>2. IsFiniteSet(1 .. Len(messages))
  BY <1>1, FS_Interval
<1>3. IsFiniteSet(From(r))
  BY <1>1, <1>2, FS_Subset
<1> QED BY <1>3, FS_CardinalityType, FS_EmptySet

\* A step that posts no row leaves the count of posts alone.
LEMMA PostedKept ==
    ASSUME \A r \in Scheduled : From(r)' = From(r)
    PROVE  Posted' = Posted
BY DEF Posted

\* A row that nobody has locked, and that is still to be sent, has not been
\* posted, unless its dispatch was interrupted.
LEMMA UnlockedIsUnspent ==
    ASSUME Base, Fates, NEW r \in Scheduled, post[r] \in {"armed", "due"},
           \A w \in Worker : r \in claimed[w] \ todo[w] => firing[w] = r
    PROVE  ~Shot!Spent(r)
<1>1. messages \in Seq(Entry)
  BY DEF Base, TypeOK, Entry
<1>2. ~Handled(r)
  BY DEF Handled
<1>3. r \notin interrupted => From(r) = {}
  BY <1>2 DEF Fates, Fate
<1> QED BY <1>1, <1>3, FromFinite DEF Shot!Spent, Posted

\* Every step of the dispatch, its callers and the other writers is a step of
\* the one-shot, or leaves it alone.
LEMMA ShotStep ==
    ASSUME Base, Fates, [Next]_vars
    PROVE  [Shot!Next]_shot
<1> USE ScheduledAssumption, TrafficAssumption
<1>1. messages \in Seq(Entry) /\ ScheduledTypeOK /\ Claims
  BY DEF Base, TypeOK, Entry
<1>2. UNCHANGED messages => Posted' = Posted
  BY PostedKept DEF From
<1>3. ASSUME NEW q \in Scheduled,
             ArmScheduledMessage(q) \/ FallDue(q) \/ CancelScheduledMessage(q)
      PROVE  Shot!Next
  <2>1. UNCHANGED <<messages, interrupted, barred>>
    BY <1>3 DEF ArmScheduledMessage, FallDue, CancelScheduledMessage, threadVars, tables
  <2>2. UNCHANGED <<Posted, interrupted, barred>>
    BY <1>2, <2>1
  <2>3. CASE ArmScheduledMessage(q)
    <3>1. post[q] = "none" /\ post' = [post EXCEPT ![q] = "armed"]
      BY <2>3 DEF ArmScheduledMessage
    <3>2. Shot!Moves({q}, {"none"}, "armed")
      BY <1>1, <2>2, <3>1 DEF Shot!Moves, ScheduledTypeOK
    <3> QED BY <3>2 DEF Shot!Arm, Shot!Next
  <2>4. CASE FallDue(q)
    <3>1. post[q] = "armed" /\ post' = [post EXCEPT ![q] = "due"]
      BY <2>4 DEF FallDue
    <3>2. Shot!Moves({q}, {"armed"}, "due")
      BY <1>1, <2>2, <3>1 DEF Shot!Moves, ScheduledTypeOK
    <3> QED BY <3>2 DEF Shot!FallDue, Shot!Next
  <2>5. CASE CancelScheduledMessage(q)
    <3>1. ~Shot!Spent(q)
      BY <2>5, UnlockedIsUnspent DEF CancelScheduledMessage, Locked
    <3>2. post[q] \in {"armed", "due"} /\ post' = [post EXCEPT ![q] = "cancelled"]
      BY <2>5 DEF CancelScheduledMessage
    <3>3. Shot!Moves({q}, {"armed", "due"}, "cancelled")
      BY <1>1, <2>2, <3>2 DEF Shot!Moves, ScheduledTypeOK
    <3> QED BY <3>1, <3>3 DEF Shot!Cancel, Shot!Next
  <2> QED BY <1>3, <2>3, <2>4, <2>5
\* The rows whose authors have lost the permission are barred by their claim.
<1>4. ASSUME NEW w \in Worker, ClaimScheduled(w)
      PROVE  Shot!Next
  <2> DEFINE R == {r \in DueScheduled : ~CanPost(r) /\ From(r) = {}}
  <2>1. \A r \in R : r \in Scheduled /\ post[r] = "due" /\ Posted[r] = 0
    BY <1>1, FromFinite DEF DueScheduled, Posted
  <2>2. UNCHANGED <<post, Posted, interrupted>> /\ barred' = barred \cup R
    BY <1>2, <1>4 DEF ClaimScheduled, tables
  <2> HIDE DEF R
  <2>3. Shot!Bar(R)
    BY <2>1, <2>2 DEF Shot!Bar
  <2> QED BY <2>1, <2>3 DEF Shot!Next
<1>5. ASSUME NEW w \in Worker, PostScheduled(w)
      PROVE  Shot!Next
  <2>0. firing[w] \in claimed[w] \ todo[w]
    BY <1>1, <1>5 DEF PostScheduled, Claims
  <2>1. PICK q \in Scheduled : q = firing[w] /\ q \in claimed[w] \ todo[w] /\ post[q] = "due"
    BY <1>1, <2>0 DEF Claims, ScheduledTypeOK
  <2>2. /\ phase[w] = "post" /\ Posts(q, ThreadOf(q)) /\ ThreadOf(q) \in Threads
        /\ UNCHANGED <<post, interrupted, barred>>
    BY <1>5, <2>1 DEF PostScheduled, MessagePost, Posts, ThreadOf, Threads
  <2>3. q \notin barred
    BY <2>1, <2>2 DEF Fates, Fate
  <2>4. \A v \in Worker : q \in claimed[v] \ todo[v] => firing[v] = q
    BY <1>1, <2>1 DEF Claims
  <2>5. ~Shot!Spent(q)
    BY <2>1, <2>4, UnlockedIsUnspent
  <2>6. Posted' = [Posted EXCEPT ![q] = @ + 1]
    <3> q \in Writers
      BY <2>1 DEF Writers
    <3>1. /\ From(q)' = From(q) \cup {Len(messages) + 1}
          /\ Len(messages) + 1 \notin From(q)
      BY <1>1, <2>2, FromWriter
    <3>2. Cardinality(From(q)') = Cardinality(From(q)) + 1
      BY <1>1, <3>1, FromFinite, FS_AddElement
    <3>3. \A r \in Scheduled : r # q => From(r)' = From(r)
      <4>1. Changes({q}) /\ {q} \in SUBSET Writers
        BY <2>1, <2>2 DEF Changes, Writers
      <4> QED BY <1>1, <4>1, FromOthers
    <3>4. \A r \in Scheduled : Posted'[r] = IF r = q THEN Posted[q] + 1 ELSE Posted[r]
      BY <3>2, <3>3 DEF Posted
    <3> QED BY <2>1, <3>4 DEF Posted
  <2>7. Shot!Act(q)
    BY <2>1, <2>2, <2>3, <2>5, <2>6 DEF Shot!Act
  <2> QED BY <2>1, <2>7 DEF Shot!Next
<1>6. ASSUME NEW w \in Worker, CommitScheduled(w)
      PROVE  Shot!Next
  <2>1. claimed[w] \in SUBSET Scheduled /\ \A r \in claimed[w] : post[r] \in {"due"}
    BY <1>1 DEF Claims, ScheduledTypeOK
  <2>2. UNCHANGED <<Posted, interrupted, barred>>
    BY <1>2, <1>6 DEF CommitScheduled, tables
  <2>3. Shot!Settle(claimed[w])
    BY <1>6, <2>1, <2>2 DEF CommitScheduled, Shot!Settle, Shot!Moves
  <2> QED BY <2>1, <2>3 DEF Shot!Next
<1>7. ASSUME NEW w \in Worker, LoseClaim(w)
      PROVE  Shot!Next
  <2>1. claimed[w] \in SUBSET Scheduled /\ \A r \in claimed[w] : post[r] = "due"
    BY <1>1 DEF Claims, ScheduledTypeOK
  <2>2. UNCHANGED <<post, Posted, barred>>
    BY <1>2, <1>7 DEF LoseClaim, tables
  <2>3. Shot!Interrupt(claimed[w])
    BY <1>7, <2>1, <2>2 DEF LoseClaim, Shot!Interrupt
  <2> QED BY <2>1, <2>3 DEF Shot!Next
\* Notices are posted, but not in the name of any row.
<1>8. ASSUME NEW w \in Worker, NotifyAuthorOfFailure(w) \/ NoticeFails(w)
      PROVE  UNCHANGED shot
  <2>1. UNCHANGED messages \/ Posts("notice", "wall")
    BY <1>8 DEF NotifyAuthorOfFailure, NoticeFails, MessagePost, Posts, tables
  <2>2. Changes({"notice"}) /\ {"notice"} \in SUBSET Writers
    BY <2>1 DEF Changes, Threads, Writers
  <2>3. \A r \in Scheduled : From(r)' = From(r)
    BY <1>1, <2>2, FromOthers
  <2> QED BY <1>8, <2>3, PostedKept
          DEF NotifyAuthorOfFailure, NoticeFails, NoticeEnds, shot
<1>9. CASE ScheduledNext
  <2>1. ASSUME NEW w \in Worker, PostFails(w) \/ \E r \in Scheduled : CheckPermission(w, r)
        PROVE  UNCHANGED shot
    BY <1>2, <2>1 DEF CheckPermission, PostFails, threadVars, tables, shot
  <2>2. CASE Revoke
    BY <1>2, <2>2 DEF Revoke, threadVars, tables, shot
  <2> QED BY <1>3, <1>4, <1>5, <1>6, <1>7, <1>8, <1>9, <2>1, <2>2
          DEF ScheduledNext, DispatchScheduled
<1>10. CASE Next /\ ~ScheduledNext
  <2>1. UNCHANGED scheduledVars
    BY <1>10 DEF Next
  <2>2. /\ Mail \in SUBSET Writers /\ Activity \in SUBSET Writers /\ {} \in SUBSET Writers
        /\ \A r \in Scheduled : r \notin Mail /\ r \notin Activity
    BY DEF Writers
  <2>3. Changes({}) \/ Changes(Mail) \/ Changes(Activity)
    BY <1>10, StepWrites
  <2>4. \A r \in Scheduled : From(r)' = From(r)
    BY <1>1, <2>2, <2>3, FromOthers
  <2> QED BY <2>1, <2>4, PostedKept DEF scheduledVars, shot
<1>11. CASE UNCHANGED vars
  BY <1>2, <1>11 DEF vars, threadVars, tables, scheduledVars, shot
<1> QED BY <1>9, <1>10, <1>11

\* A scheduled message implements the one-shot: it is posted while it is due
\* and at no other time, once, and ends cancelled unposted or dispatched for
\* good; only an interrupted dispatch lets it be posted again, and a claim made
\* without the author's permission bars it (dispatch_due_scheduled).
THEOREM ImplementsShot == Spec => ShotSpec
<1>1. Init => Shot!Init
  <2> SUFFICES ASSUME Init PROVE Shot!Init
    OBVIOUS
  <2>1. \A r \in Scheduled : From(r) = {}
    BY DEF Init, ThreadsInit, From
  <2>2. Posted = [r \in Scheduled |-> 0]
    BY <2>1, FS_EmptySet DEF Posted
  <2> QED BY <2>2 DEF Init, ScheduledInit, Shot!Init
<1>2. Base /\ Fates /\ [Next]_vars => [Shot!Next]_shot
  BY ShotStep
<1> QED BY <1>1, <1>2, BaseHolds, FatesHold, PTL DEF Spec, ShotSpec, Shot!Spec, shot

-----------------------------------------------------------------------------
(***************************************************************************)
(* The notice of a scheduled message that could not be posted.             *)
(***************************************************************************)
Heeded(r) == \E n \in notices : n.row = r

Dealt(r) == post[r] = "dispatched" \/ Handled(r)

\* The author's inbox row for a message is a notice's, or a recipient's.
Owned(i) == Author \in Recipients \/ \E n \in notices : n.on = i /\ ~n.refused

\* A dispatch that is done with a row has posted it or had its notice.
Heeds == \A r \in Scheduled : From(r) = {} /\ r \notin dropped /\ Dealt(r) => Heeded(r)

\* The inbox rows are of messages, and what the author wrote on his wall has one of
\* his only from a notice or for a recipient; of those messages one is the latest.
Inboxes ==
    /\ \A p \in notified : p[1] \in DOMAIN messages
    /\ \A i \in OwnWall : <<i, Author>> \in notified => Owned(i)
    /\ OwnWall # {} => Latest # {}

\* What is so of a notice: its row is dealt with, and not posted.
Stands(n) ==
    /\ n.on \in On("wall") /\ <<n.on, Author>> \in notified
    /\ n.row \notin interrupted => From(n.row) = {} /\ Dealt(n.row)
    /\ ~n.refused => \A m \in notices : m.on = n.on /\ ~m.refused => m = n
    /\ n.refused => n.on \in OwnWall /\ Owned(n.on)

Notices == Heeds /\ Inboxes /\ \A n \in notices : Stands(n)

\* The notices are kept by all steps but two.
LEMMA NoticeSteps ==
    ASSUME [Next]_vars
    PROVE  \/ UNCHANGED noticeVars
           \/ \E w \in Worker : NotifyAuthorOfFailure(w) \/ NoticeFails(w)
<1>1. CASE UNCHANGED scheduledVars
  BY <1>1 DEF scheduledVars
<1>2. CASE ScheduledNext
  BY <1>2 DEF ScheduledNext, DispatchScheduled, ArmScheduledMessage, FallDue,
     CancelScheduledMessage, Revoke, ClaimScheduled, CheckPermission, PostScheduled,
     PostFails, CommitScheduled, LoseClaim
<1> QED BY <1>1, <1>2 DEF Next, vars

\* Messages are appended, so that there always is a latest one.
LEMMA LatestStays ==
    ASSUME messages \in Seq(Entry), Changes(Writers), OwnWall # {} => Latest # {}
    PROVE  OwnWall' # {} => Latest' # {}
<1>1. CASE UNCHANGED messages
  BY <1>1 DEF OwnWall, Latest, On
<1>2. ASSUME NEW x \in Writers, NEW thread \in Threads, Posts(x, thread)
      PROVE  OwnWall' # {} => Latest' # {}
  <2>1. /\ DOMAIN messages = 1 .. Len(messages)
        /\ DOMAIN messages' = 1 .. (Len(messages) + 1)
        /\ Len(messages) \in Nat
        /\ \A i \in DOMAIN messages : messages'[i] = messages[i]
    BY <1>2, PostAdds DEF Writers
  <2>2. \A i \in DOMAIN messages : i \in OwnWall' <=> i \in OwnWall
    BY <2>1 DEF OwnWall, On
  <2>3. OwnWall \subseteq DOMAIN messages /\ OwnWall' \subseteq DOMAIN messages'
    BY DEF OwnWall, On
  <2>4. CASE Len(messages) + 1 \in OwnWall'
    <3>1. \A j \in OwnWall' : j <= Len(messages) + 1
      BY <2>1, <2>3
    <3> QED BY <2>4, <3>1 DEF Latest
  <2>5. CASE Len(messages) + 1 \notin OwnWall'
    <3>1. OwnWall' = OwnWall
      BY <2>1, <2>2, <2>3, <2>5
    <3> QED BY <3>1 DEF Latest
  <2> QED BY <2>4, <2>5
<1> QED BY <1>1, <1>2 DEF Changes

\* What is on the author's wall in his name stays there.
LEMMA WallStays ==
    ASSUME messages \in Seq(Entry), Changes(Writers)
    PROVE  /\ \A i \in DOMAIN messages :
                  i \in DOMAIN messages' /\ (i \in OwnWall' <=> i \in OwnWall)
           /\ OwnWall \subseteq OwnWall' /\ OwnWall \subseteq DOMAIN messages
<1>1. \A i \in DOMAIN messages : i \in DOMAIN messages' /\ messages'[i] = messages[i]
  BY OnlyAppended DEF Writers
<1>2. \A i \in DOMAIN messages : i \in OwnWall' <=> i \in OwnWall
  BY <1>1 DEF OwnWall, On
<1>3. OwnWall \subseteq DOMAIN messages
  BY DEF OwnWall, On
<1> QED BY <1>1, <1>2, <1>3

\* Which inbox rows a post adds: those of its recipients.
LEMMA PostNotifies ==
    ASSUME Base, Inboxes, NEW x \in Writers, NEW thread \in Threads, NEW recipients,
           MessagePost(x, thread, recipients),
           x \in Scheduled => recipients = Recipients,
           notices \subseteq notices'
    PROVE  Inboxes'
<1>1. messages \in Seq(Entry) /\ Posts(x, thread) /\ Changes(Writers)
  BY DEF MessagePost, Posts, Changes, Base, TypeOK, Entry
<1>2. /\ DOMAIN messages = 1 .. Len(messages)
      /\ DOMAIN messages' = 1 .. (Len(messages) + 1)
      /\ Len(messages) \in Nat
      /\ messages'[Len(messages) + 1] = [from |-> x, thread |-> thread]
  BY <1>1, PostAdds DEF Writers
<1>3. /\ \A i \in DOMAIN messages : i \in DOMAIN messages' /\ (i \in OwnWall' <=> i \in OwnWall)
      /\ OwnWall' # {} => Latest' # {}
  BY <1>1, WallStays, LatestStays DEF Inboxes
<1>4. \A p \in notified' :
          p \in notified \/ (p[1] = Len(messages) + 1 /\ p[2] \in recipients)
  BY DEF MessagePost
<1>5. \A p \in notified' : p[1] \in DOMAIN messages'
  BY <1>2, <1>3, <1>4 DEF Inboxes
<1>6. ASSUME NEW i \in OwnWall', <<i, Author>> \in notified'
      PROVE  Owned(i)'
  <2>1. CASE i \in DOMAIN messages
    <3>1. i \in OwnWall /\ i # Len(messages) + 1
      BY <1>2, <1>3, <1>6, <2>1
    <3>2. <<i, Author>> \in notified
      BY <1>4, <1>6, <3>1
    <3> QED BY <3>1, <3>2 DEF Inboxes, Owned
  <2>2. CASE i \notin DOMAIN messages
    <3>1. i = Len(messages) + 1
      BY <1>2, <1>6, <2>2 DEF OwnWall, On
    <3>2. x \in Scheduled
      BY <1>2, <1>6, <3>1 DEF OwnWall
    <3>3. <<i, Author>> \notin notified
      BY <2>2 DEF Inboxes
    <3>4. Author \in Recipients
      BY <1>4, <1>6, <3>2, <3>3
    <3> QED BY <3>4 DEF Owned
  <2> QED BY <2>1, <2>2
<1> QED BY <1>3, <1>5, <1>6 DEF Inboxes

\* The two ways to carry a notice, and what they leave.
LEMMA NoticeAdds ==
    ASSUME Base, Inboxes, NEW w \in Worker, NotifyAuthorOfFailure(w)
    PROVE  /\ Carriers # {}
           /\ \A i \in Carriers :
                  /\ i \in On("wall")' /\ <<i, Author>> \in notified'
                  /\ <<i, Author>> \in notified => i \in OwnWall
           /\ Inboxes'
<1> USE TrafficAssumption
<1>1. /\ messages \in Seq(Entry) /\ DOMAIN messages = 1 .. Len(messages)
      /\ Len(messages) \in Nat
  BY DEF Base, TypeOK, Entry
<1>2. notices \subseteq notices'
  BY DEF NotifyAuthorOfFailure
<1>3. CASE OwnWall = {}
  <2>1. /\ MessagePost("notice", "wall", {Author}) /\ Posts("notice", "wall")
        /\ Carriers = {Len(messages) + 1}
        /\ "notice" \in Writers /\ "wall" \in Threads /\ "notice" \notin Scheduled
    BY <1>3, ScheduledAssumption
       DEF NotifyAuthorOfFailure, MessagePost, Posts, Carriers, Writers, Threads
  <2>2. Len(messages) + 1 \in On("wall")'
    BY <1>1, <2>1, FromWriter
  <2>3. <<Len(messages) + 1, Author>> \in notified'
    BY <2>1 DEF MessagePost
  <2>4. <<Len(messages) + 1, Author>> \notin notified
    <3>1. Len(messages) + 1 \notin DOMAIN messages
      BY <1>1
    <3> QED BY <3>1 DEF Inboxes
  <2>5. Inboxes'
    BY <1>2, <2>1, PostNotifies
  <2> QED BY <2>1, <2>2, <2>3, <2>4, <2>5
<1>4. CASE OwnWall # {}
  <2>1. /\ notified' = notified \cup (Latest \X {Author}) /\ UNCHANGED messages
        /\ Carriers = Latest /\ Latest # {}
        /\ notices' = notices \cup
               {[row |-> firing[w], on |-> i, refused |-> <<i, Author>> \in notified] :
                    i \in Latest}
    BY <1>4 DEF NotifyAuthorOfFailure, Carriers, Inboxes
  <2>2. OwnWall' = OwnWall /\ Latest' = Latest /\ On("wall")' = On("wall")
    BY <2>1 DEF OwnWall, Latest, On
  <2>3. Latest \subseteq OwnWall /\ OwnWall \subseteq On("wall") /\ OwnWall \subseteq DOMAIN messages
    BY DEF Latest, OwnWall, On
  <2>4. \A p \in notified' : p[1] \in DOMAIN messages'
    BY <2>1, <2>3 DEF Inboxes
  <2>5. ASSUME NEW i \in OwnWall, <<i, Author>> \in notified'
        PROVE  Owned(i)'
    <3>1. CASE <<i, Author>> \in notified
      BY <1>2, <3>1 DEF Inboxes, Owned
    <3>2. CASE <<i, Author>> \notin notified
      <4> DEFINE n == [row |-> firing[w], on |-> i, refused |-> <<i, Author>> \in notified]
      <4>1. i \in Latest
        BY <2>1, <2>5, <3>2
      <4>2. n \in notices'
        BY <2>1, <4>1
      <4>3. n.on = i /\ ~n.refused
        BY <3>2
      <4> QED BY <4>2, <4>3 DEF Owned
    <3> QED BY <3>1, <3>2
  <2>6. Inboxes'
    BY <2>1, <2>2, <2>4, <2>5 DEF Inboxes
  <2> QED BY <2>1, <2>2, <2>3, <2>6
<1> QED BY <1>3, <1>4

\* The author's inbox under every step.
LEMMA InboxesStep ==
    ASSUME Base, Inboxes, [Next]_vars
    PROVE  Inboxes'
<1> USE TrafficAssumption
<1>1. messages \in Seq(Entry) /\ Base
  BY DEF Base, TypeOK, Entry
<1>2. notices \subseteq notices'
  BY NoticeSteps DEF noticeVars, NotifyAuthorOfFailure, NoticeFails
<1>3. CASE UNCHANGED <<messages, notified>>
  <2>1. OwnWall' = OwnWall /\ Latest' = Latest
    BY <1>3 DEF OwnWall, Latest, On
  <2>2. \A i : Owned(i) => Owned(i)'
    BY <1>2 DEF Owned
  <2> QED BY <1>3, <2>1, <2>2 DEF Inboxes
<1>4. ASSUME NEW w \in Worker, FireNotify(w)
      PROVE  Inboxes'
  <2>1. UNCHANGED messages /\ notified' = notified \cup UNION {FanOut(h) : h \in batch[w]}
    BY <1>4 DEF FireNotify
  <2>2. OwnWall' = OwnWall /\ Latest' = Latest
    BY <2>1 DEF OwnWall, Latest, On
  <2>3. ASSUME NEW h \in batch[w], NEW p \in FanOut(h)
        PROVE  p[1] \in DOMAIN messages /\ p[1] \notin OwnWall
    <3>1. h \in Held /\ target[h] \in DOMAIN messages
      BY DEF Base, TypeOK, HeldTypeOK, Holds
    <3>2. p[1] = target[h] /\ FollowersOf(messages[target[h]].thread) # {}
      BY DEF FanOut
    <3>3. messages[target[h]].thread # "wall"
      BY <3>2 DEF FollowersOf
    <3> QED BY <3>1, <3>2, <3>3 DEF OwnWall, On
  <2>4. \A p \in notified' : p[1] \in DOMAIN messages'
    BY <2>1, <2>3 DEF Inboxes
  <2>5. ASSUME NEW i \in OwnWall, <<i, Author>> \in notified'
        PROVE  Owned(i)'
    <3>1. <<i, Author>> \in notified
      BY <2>1, <2>3, <2>5
    <3> QED BY <1>2, <3>1 DEF Inboxes, Owned
  <2> QED BY <2>2, <2>4, <2>5 DEF Inboxes
<1>5. ASSUME NEW w \in Worker, PostScheduled(w)
      PROVE  Inboxes'
  <2>1. /\ firing[w] \in Writers /\ ThreadOf(firing[w]) \in Threads
        /\ MessagePost(firing[w], ThreadOf(firing[w]), Recipients)
    BY <1>5 DEF PostScheduled, Base, TypeOK, ScheduledTypeOK, Claims, ThreadOf, Threads, Writers
  <2> QED BY <1>2, <2>1, PostNotifies
<1>6. ASSUME NEW w \in Worker, CommitMessage(w) \/ LoseAnswer(w)
      PROVE  Inboxes'
  <2>1. /\ serving[w] \in Writers /\ serving[w] \notin Scheduled /\ landing[w] \in Threads
        /\ MessagePost(serving[w], landing[w], {})
    BY <1>6 DEF CommitMessage, LoseAnswer, Base, TypeOK, InboundTypeOK, Calling, Writers
  <2> QED BY <1>2, <2>1, PostNotifies
<1>7. ASSUME NEW w \in Worker, CommitDone(w) \/ CommitAgain(w)
      PROVE  Inboxes'
  <2>1. /\ doing[w] \in Writers /\ doing[w] \notin Scheduled /\ "document" \in Threads
        /\ MessagePost(doing[w], "document", {})
    BY <1>7 DEF CommitDone, CommitAgain, CommitNote, Base, TypeOK, ActivitiesTypeOK,
                Completions, Writers, Threads
  <2> QED BY <1>2, <2>1, PostNotifies
<1>8. CASE ScheduledNext
  <2>1. ASSUME NEW r \in Scheduled, NEW w \in Worker,
               \/ ArmScheduledMessage(r) \/ FallDue(r) \/ CancelScheduledMessage(r)
               \/ Revoke \/ ClaimScheduled(w) \/ CheckPermission(w, r) \/ PostFails(w)
               \/ NoticeFails(w) \/ CommitScheduled(w) \/ LoseClaim(w)
        PROVE  UNCHANGED <<messages, notified>>
    BY <2>1 DEF ArmScheduledMessage, FallDue, CancelScheduledMessage, Revoke,
       ClaimScheduled, CheckPermission, PostFails, NoticeFails, CommitScheduled,
       LoseClaim, threadVars, tables
  <2>2. CASE Revoke
    BY <1>3, <2>2 DEF Revoke, threadVars, tables
  <2>3. ASSUME NEW r \in Scheduled,
               ArmScheduledMessage(r) \/ FallDue(r) \/ CancelScheduledMessage(r)
        PROVE  UNCHANGED <<messages, notified>>
    BY <2>3 DEF ArmScheduledMessage, FallDue, CancelScheduledMessage, threadVars, tables
  <2>4. ASSUME NEW w \in Worker,
               \/ ClaimScheduled(w) \/ PostFails(w) \/ NoticeFails(w)
               \/ CommitScheduled(w) \/ LoseClaim(w)
        PROVE  UNCHANGED <<messages, notified>>
    BY <2>4 DEF ClaimScheduled, PostFails, NoticeFails, CommitScheduled, LoseClaim, tables
  <2> QED BY <1>3, <1>5, <1>8, <2>1, <2>2, <2>3, <2>4, NoticeAdds
          DEF ScheduledNext, DispatchScheduled
<1>9. CASE HeldNext
  BY <1>3, <1>4, <1>9 DEF HeldNext, DispatchNotify, ArmNotify, FallDueNotify, CancelNotify,
     ClaimNotify, RefuseNotify, LoseBatch, threadVars, tables
<1>10. CASE InboundNext
  BY <1>3, <1>6, <1>10 DEF InboundNext, Serve, Deliver, Retry, Begin, ProbeDuplicate,
     RejectSender, PassAllowlist, Drop, FollowLadder, InsertMessage, LoseRace, LoseCall,
     Advances, threadVars, tables
<1>11. CASE ActivitiesNext
  BY <1>3, <1>7, <1>11 DEF ActivitiesNext, Complete, Schedule, BeginDone, ArchiveDone,
     LoseDone, threadVars, tables
<1> QED BY <1>3, <1>8, <1>9, <1>10, <1>11 DEF Next, vars, threadVars, tables

\* A row that is dealt with stays so and is not posted, unless its dispatch is lost.
LEMMA DealtStays ==
    ASSUME Base, Fates, [Next]_vars, NEW r \in Scheduled, Dealt(r), r \notin interrupted'
    PROVE  r \notin interrupted /\ From(r)' = From(r) /\ Dealt(r)'
<1> USE ScheduledAssumption, TrafficAssumption
<1>1. messages \in Seq(Entry) /\ ScheduledTypeOK /\ Claims
  BY DEF Base, TypeOK, Entry
<1>2. UNCHANGED messages => From(r)' = From(r)
  BY DEF From
<1>3. CASE (Next /\ ~ScheduledNext) \/ UNCHANGED vars
  <2>1. UNCHANGED scheduledVars
    BY <1>3 DEF Next, vars
  <2>2. Dealt(r)'
    BY <2>1 DEF Dealt, Handled, scheduledVars
  <2>3. /\ Mail \in SUBSET Writers /\ Activity \in SUBSET Writers /\ {} \in SUBSET Writers
        /\ r \notin Mail /\ r \notin Activity
    BY DEF Writers
  <2>4. UNCHANGED messages \/ Changes({}) \/ Changes(Mail) \/ Changes(Activity)
    BY <1>3, StepWrites DEF vars, threadVars, tables
  <2>5. From(r)' = From(r)
    BY <1>1, <1>2, <2>3, <2>4, FromOthers
  <2> QED BY <2>1, <2>2, <2>5 DEF scheduledVars
<1>4. ASSUME NEW q \in Scheduled, ArmScheduledMessage(q) \/ FallDue(q) \/ CancelScheduledMessage(q)
      PROVE  r \notin interrupted /\ From(r)' = From(r) /\ Dealt(r)'
  <2>1. UNCHANGED <<messages, claimed, todo, firing, interrupted>>
    BY <1>4 DEF ArmScheduledMessage, FallDue, CancelScheduledMessage, threadVars, tables
  <2>2. post[r] = "dispatched" => post'[r] = "dispatched"
    BY <1>1, <1>4 DEF ArmScheduledMessage, FallDue, CancelScheduledMessage, ScheduledTypeOK
  <2> QED BY <1>2, <2>1, <2>2 DEF Dealt, Handled
<1>5. CASE Revoke
  BY <1>2, <1>5 DEF Revoke, Dealt, Handled, threadVars, tables
\* A step of the dispatch that takes no row back.
<1>6. ASSUME \A v \in Worker : r \in claimed[v] \ todo[v] /\ firing[v] # r =>
                 r \in claimed'[v] \ todo'[v] /\ firing'[v] # r,
             UNCHANGED <<post, interrupted>>, From(r)' = From(r)
      PROVE  r \notin interrupted /\ From(r)' = From(r) /\ Dealt(r)'
  BY <1>6 DEF Dealt, Handled
<1>7. ASSUME NEW w \in Worker, ClaimScheduled(w)
      PROVE  r \notin interrupted /\ From(r)' = From(r) /\ Dealt(r)'
  <2>1. claimed[w] = {}
    BY <1>7 DEF ClaimScheduled, Fates
  <2>2. \A v \in Worker : r \in claimed[v] \ todo[v] /\ firing[v] # r =>
            r \in claimed'[v] \ todo'[v] /\ firing'[v] # r
    BY <1>1, <1>7, <2>1 DEF ClaimScheduled, ScheduledTypeOK
  <2> QED BY <1>2, <1>6, <1>7, <2>2 DEF ClaimScheduled, tables
<1>8. ASSUME NEW w \in Worker, NEW q \in Scheduled, CheckPermission(w, q)
      PROVE  r \notin interrupted /\ From(r)' = From(r) /\ Dealt(r)'
  <2>1. \A v \in Worker : r \in claimed[v] \ todo[v] /\ firing[v] # r =>
            r \in claimed'[v] \ todo'[v] /\ firing'[v] # r
    BY <1>1, <1>8 DEF CheckPermission, ScheduledTypeOK
  <2> QED BY <1>2, <1>6, <1>8, <2>1 DEF CheckPermission, threadVars, tables
<1>9. ASSUME NEW w \in Worker, PostScheduled(w)
      PROVE  r \notin interrupted /\ From(r)' = From(r) /\ Dealt(r)'
  <2>1. firing[w] \in claimed[w] \ todo[w] /\ firing[w] \in Scheduled
    BY <1>1, <1>9 DEF PostScheduled, Claims, ScheduledTypeOK
  <2>2. r # firing[w]
    BY <1>1, <2>1 DEF Claims, Dealt, Handled
  <2>3. Changes({firing[w]}) /\ {firing[w]} \in SUBSET Writers
    BY <1>9, <2>1 DEF PostScheduled, MessagePost, Posts, Changes, ThreadOf, Threads, Writers
  <2>4. From(r)' = From(r)
    BY <1>1, <2>2, <2>3, FromOthers
  <2>5. \A v \in Worker : r \in claimed[v] \ todo[v] /\ firing[v] # r =>
            r \in claimed'[v] \ todo'[v] /\ firing'[v] # r
    BY <1>1, <1>9, ScheduledAssumption DEF PostScheduled, ScheduledTypeOK
  <2> QED BY <1>6, <1>9, <2>4, <2>5 DEF PostScheduled
<1>10. ASSUME NEW w \in Worker, PostFails(w)
       PROVE  r \notin interrupted /\ From(r)' = From(r) /\ Dealt(r)'
  BY <1>2, <1>10 DEF PostFails, Dealt, Handled, tables
<1>11. ASSUME NEW w \in Worker, NotifyAuthorOfFailure(w) \/ NoticeFails(w)
       PROVE  r \notin interrupted /\ From(r)' = From(r) /\ Dealt(r)'
  <2>1. NoticeEnds(w) /\ (UNCHANGED messages \/ Posts("notice", "wall"))
    BY <1>11 DEF NotifyAuthorOfFailure, NoticeFails, MessagePost, Posts, tables
  <2>2. Changes({"notice"}) /\ {"notice"} \in SUBSET Writers
    BY <2>1 DEF Changes, Threads, Writers
  <2>3. From(r)' = From(r)
    BY <1>1, <2>2, FromOthers
  <2>4. \A v \in Worker : r \in claimed[v] \ todo[v] /\ firing[v] # r =>
            r \in claimed'[v] \ todo'[v] /\ firing'[v] # r
    BY <1>1, <2>1, ScheduledAssumption DEF NoticeEnds, ScheduledTypeOK
  <2> QED BY <1>6, <2>1, <2>3, <2>4 DEF NoticeEnds
<1>12. ASSUME NEW w \in Worker, CommitScheduled(w) \/ LoseClaim(w)
       PROVE  r \notin interrupted /\ From(r)' = From(r) /\ Dealt(r)'
  <2>1. /\ UNCHANGED messages /\ EndsDispatch(w) /\ interrupted \subseteq interrupted'
    BY <1>12 DEF CommitScheduled, LoseClaim, tables
  <2>2. CASE r \in claimed[w]
    BY <1>1, <1>2, <1>12, <2>1, <2>2 DEF CommitScheduled, LoseClaim, Dealt
  <2>3. CASE r \notin claimed[w]
    <3>1. post'[r] = post[r]
      BY <1>1, <1>12, <2>3 DEF CommitScheduled, LoseClaim
    <3>2. ASSUME NEW v \in Worker, r \in claimed[v] \ todo[v], firing[v] # r
          PROVE  r \in claimed'[v] \ todo'[v] /\ firing'[v] # r
      BY <1>1, <2>1, <2>3, <3>2 DEF EndsDispatch, ScheduledTypeOK
    <3> QED BY <1>2, <2>1, <3>1, <3>2 DEF Dealt, Handled
  <2> QED BY <2>2, <2>3
<1>13. CASE ScheduledNext
  BY <1>4, <1>5, <1>7, <1>8, <1>9, <1>10, <1>11, <1>12, <1>13
     DEF ScheduledNext, DispatchScheduled
<1> QED BY <1>3, <1>13

\* No row is ever cleared of an interruption.
LEMMA InterruptedStays ==
    ASSUME [Next]_vars
    PROVE  interrupted \subseteq interrupted'
<1>1. CASE UNCHANGED scheduledVars
  BY <1>1 DEF scheduledVars
<1>2. CASE ScheduledNext
  BY <1>2 DEF ScheduledNext, DispatchScheduled, ArmScheduledMessage, FallDue,
     CancelScheduledMessage, Revoke, ClaimScheduled, CheckPermission, PostScheduled,
     PostFails, NotifyAuthorOfFailure, NoticeFails, NoticeEnds, CommitScheduled, LoseClaim
<1> QED BY <1>1, <1>2 DEF Next, vars

\* A dispatch gets done with a row by posting it, or by its notice or the loss of
\* that.
LEMMA HeedsStep ==
    ASSUME Base, Heeds, Inboxes, [Next]_vars
    PROVE  Heeds'
<1> USE ScheduledAssumption, TrafficAssumption
<1>1. /\ messages \in Seq(Entry) /\ ScheduledTypeOK /\ Claims /\ Changes(Writers)
  BY StepKeeps DEF Base, TypeOK, Entry, Writers
<1>2. \A y : From(y) \subseteq From(y)'
  BY <1>1, WrittenStays
<1>3. SUFFICES ASSUME NEW r \in Scheduled, From(r)' = {}, r \notin dropped', Dealt(r)',
                      ~Heeded(r)'
               PROVE  FALSE
  BY DEF Heeds
<1>4. ASSUME NEW w \in Worker, NotifyAuthorOfFailure(w)
      PROVE  firing[w] # r
  <2>1. PICK i \in Carriers : TRUE
    BY <1>4, NoticeAdds
  <2> DEFINE n == [row |-> firing[w], on |-> i, refused |-> <<i, Author>> \in notified]
  <2>2. n \in notices' /\ n.row = firing[w]
    BY <1>4, <2>1 DEF NotifyAuthorOfFailure
  <2> QED BY <1>3, <2>2 DEF Heeded
<1>5. notices \subseteq notices' /\ r \notin dropped
  BY <1>3, <1>4, NoticeSteps DEF noticeVars, NotifyAuthorOfFailure, NoticeFails
<1>6. ~Dealt(r)
  BY <1>2, <1>3, <1>5 DEF Heeds, Heeded
<1>7. ~UNCHANGED scheduledVars
  BY <1>3, <1>6 DEF scheduledVars, Dealt, Handled
<1>8. ScheduledNext
  BY <1>7 DEF Next, vars
<1>9. ASSUME \A v \in Worker : r \in claimed'[v] \ todo'[v] /\ firing'[v] # r =>
                 r \in claimed[v] \ todo[v] /\ firing[v] # r,
             post'[r] = "dispatched" => post[r] = "dispatched"
      PROVE  FALSE
  BY <1>3, <1>6, <1>9 DEF Dealt, Handled
<1>10. ASSUME NEW q \in Scheduled,
              ArmScheduledMessage(q) \/ FallDue(q) \/ CancelScheduledMessage(q)
       PROVE  FALSE
  <2>1. UNCHANGED <<claimed, todo, firing>>
    BY <1>10 DEF ArmScheduledMessage, FallDue, CancelScheduledMessage
  <2>2. post'[r] = "dispatched" => post[r] = "dispatched"
    BY <1>1, <1>10 DEF ArmScheduledMessage, FallDue, CancelScheduledMessage, ScheduledTypeOK
  <2> QED BY <1>9, <2>1, <2>2
<1>11. CASE Revoke
  BY <1>9, <1>11 DEF Revoke
<1>12. ASSUME NEW w \in Worker, ClaimScheduled(w)
       PROVE  FALSE
  BY <1>1, <1>9, <1>12 DEF ClaimScheduled, ScheduledTypeOK
<1>13. ASSUME NEW w \in Worker, NEW q \in Scheduled, CheckPermission(w, q)
       PROVE  FALSE
  <2>1. firing[w] = "none"
    BY <1>1, <1>13 DEF CheckPermission, Claims
  <2>2. \A v \in Worker : r \in claimed'[v] \ todo'[v] /\ firing'[v] # r =>
            r \in claimed[v] \ todo[v] /\ firing[v] # r
    BY <1>1, <1>13, <2>1 DEF CheckPermission, ScheduledTypeOK
  <2> QED BY <1>9, <1>13, <2>2 DEF CheckPermission
\* A worker that ends the row it is at is done with that and with no other.
<1>14. ASSUME NEW w \in Worker, firing[w] # r,
              firing' = [firing EXCEPT ![w] = "none"], UNCHANGED <<post, claimed, todo>>
       PROVE  FALSE
  <2>1. \A v \in Worker : r \in claimed'[v] \ todo'[v] /\ firing'[v] # r =>
            r \in claimed[v] \ todo[v] /\ firing[v] # r
    BY <1>1, <1>14 DEF ScheduledTypeOK
  <2> QED BY <1>9, <1>14, <2>1
<1>15. ASSUME NEW w \in Worker, PostScheduled(w)
       PROVE  FALSE
  <2>1. PICK q \in Scheduled : q = firing[w]
    BY <1>1, <1>15 DEF PostScheduled, Claims, ScheduledTypeOK
  <2>2. Posts(q, ThreadOf(q)) /\ ThreadOf(q) \in Threads
    BY <1>15, <2>1 DEF PostScheduled, MessagePost, Posts, ThreadOf, Threads
  <2>3. From(q)' = From(q) \cup {Len(messages) + 1}
    BY <1>1, <2>2, FromWriter DEF Writers
  <2>4. r # q
    BY <1>3, <2>3
  <2> QED BY <1>14, <1>15, <2>1, <2>4 DEF PostScheduled
<1>16. ASSUME NEW w \in Worker, PostFails(w)
       PROVE  FALSE
  BY <1>9, <1>16 DEF PostFails
<1>17. ASSUME NEW w \in Worker, NotifyAuthorOfFailure(w)
       PROVE  FALSE
  BY <1>4, <1>14, <1>17 DEF NotifyAuthorOfFailure, NoticeEnds
<1>18. ASSUME NEW w \in Worker, NoticeFails(w)
       PROVE  FALSE
  <2>1. firing[w] # r
    BY <1>3, <1>18 DEF NoticeFails
  <2> QED BY <1>14, <1>18, <2>1 DEF NoticeFails, NoticeEnds
<1>19. ASSUME NEW w \in Worker, CommitScheduled(w)
       PROVE  FALSE
  <2>1. r \notin claimed[w]
    BY <1>1, <1>6, <1>19 DEF CommitScheduled, Claims, Dealt, Handled
  <2>2. post'[r] = post[r]
    BY <1>1, <1>19, <2>1 DEF CommitScheduled
  <2>3. \A v \in Worker : r \in claimed'[v] \ todo'[v] /\ firing'[v] # r =>
            r \in claimed[v] \ todo[v] /\ firing[v] # r
    BY <1>1, <1>19 DEF CommitScheduled, EndsDispatch, ScheduledTypeOK
  <2> QED BY <1>9, <2>2, <2>3
<1>20. ASSUME NEW w \in Worker, LoseClaim(w)
       PROVE  FALSE
  <2>1. \A v \in Worker : r \in claimed'[v] \ todo'[v] /\ firing'[v] # r =>
            r \in claimed[v] \ todo[v] /\ firing[v] # r
    BY <1>1, <1>20 DEF LoseClaim, EndsDispatch, ScheduledTypeOK
  <2> QED BY <1>9, <1>20, <2>1 DEF LoseClaim
<1> QED BY <1>8, <1>10, <1>11, <1>12, <1>13, <1>15, <1>16, <1>17, <1>18, <1>19, <1>20
        DEF ScheduledNext, DispatchScheduled

\* A row whose notice is due was not posted, unless a dispatch of it was lost.
LEMMA NoticeIsTrue ==
    ASSUME Base, Fates, NEW w \in Worker, phase[w] = "notice"
    PROVE  firing[w] \notin interrupted => From(firing[w]) = {}
<1>1. /\ firing[w] \in claimed[w] \ todo[w] /\ firing[w] \in Scheduled
      /\ post[firing[w]] = "due"
      /\ \A v \in Worker \ {w} : claimed[v] \cap claimed[w] = {}
  BY DEF Base, TypeOK, ScheduledTypeOK, Claims
<1>2. ~Handled(firing[w])
  BY <1>1 DEF Handled
<1> QED BY <1>1, <1>2 DEF Fates, Fate

\* Old notices stand, and so does the new one.
LEMMA StandsStep ==
    ASSUME Base, Fates, Notices, [Next]_vars
    PROVE  \A n \in notices' : Stands(n)'
<1> USE ScheduledAssumption, TrafficAssumption
<1>1. /\ messages \in Seq(Entry) /\ ScheduledTypeOK /\ Claims
      /\ Changes(Writers) /\ notified \subseteq notified'
  BY StepKeeps DEF Base, TypeOK, Entry, Writers
<1>2. /\ On("wall") \subseteq On("wall")' /\ OwnWall \subseteq OwnWall'
      /\ \A i : Owned(i) => Owned(i)'
  <2>1. notices \subseteq notices'
    BY NoticeSteps DEF noticeVars, NotifyAuthorOfFailure, NoticeFails
  <2> QED BY <1>1, <2>1, WrittenStays, WallStays DEF Owned
<1>3. ASSUME NEW n \in notices
      PROVE  /\ n.on \in On("wall")' /\ <<n.on, Author>> \in notified'
             /\ n.row \notin interrupted' => From(n.row)' = {} /\ Dealt(n.row)'
             /\ n.refused => n.on \in OwnWall' /\ Owned(n.on)'
  <2>1. Stands(n) /\ n.row \in Scheduled
    BY <1>1 DEF Notices, ScheduledTypeOK
  <2>2. ASSUME n.row \notin interrupted'
        PROVE  From(n.row)' = {} /\ Dealt(n.row)'
    <3>1. n.row \notin interrupted
      BY <2>2, InterruptedStays
    <3>2. From(n.row) = {} /\ Dealt(n.row)
      BY <2>1, <3>1 DEF Stands
    <3> QED BY <2>1, <2>2, <3>2, DealtStays
  <2> QED BY <1>1, <1>2, <2>1, <2>2 DEF Stands
<1>4. CASE UNCHANGED notices
  <2>1. ASSUME NEW n \in notices
        PROVE  Stands(n)'
    <3>1. Stands(n)
      BY DEF Notices
    <3> QED BY <1>3, <1>4, <3>1 DEF Stands
  <2> QED BY <1>4, <2>1
<1>5. ASSUME NEW w \in Worker, NotifyAuthorOfFailure(w)
      PROVE  \A n \in notices' : Stands(n)'
  <2>1. /\ notices' = notices \cup
               {[row |-> firing[w], on |-> i, refused |-> <<i, Author>> \in notified] :
                    i \in Carriers}
        /\ phase[w] = "notice" /\ NoticeEnds(w)
    BY <1>5 DEF NotifyAuthorOfFailure, NoticeEnds
  <2>2. \A i \in Carriers :
            /\ i \in On("wall")' /\ <<i, Author>> \in notified'
            /\ <<i, Author>> \in notified => i \in OwnWall
    BY <1>5, NoticeAdds DEF Notices
  <2>3. \A n \in notices : <<n.on, Author>> \in notified
    BY DEF Notices, Stands
  <2>4. ASSUME NEW n \in notices', NEW m \in notices', ~n.refused, ~m.refused, m.on = n.on
        PROVE  m = n
    <3>1. CASE n \in notices /\ m \in notices
      BY <2>4, <3>1 DEF Notices, Stands
    <3>2. ASSUME NEW k \in notices' \ notices, ~k.refused
          PROVE  /\ <<k.on, Author>> \notin notified
                 /\ k = [row |-> firing[w], on |-> k.on, refused |-> FALSE]
      <4>1. PICK i \in Carriers :
                k = [row |-> firing[w], on |-> i, refused |-> <<i, Author>> \in notified]
        BY <2>1, <3>2
      <4>2. k.on = i /\ ~(<<i, Author>> \in notified)
        BY <3>2, <4>1
      <4>3. (<<i, Author>> \in notified) = FALSE
        BY <4>2
      <4> QED BY <4>1, <4>2, <4>3
    <3>3. CASE n \notin notices
      BY <2>3, <2>4, <3>2, <3>3
    <3>4. CASE m \notin notices
      BY <2>3, <2>4, <3>2, <3>4
    <3> QED BY <3>1, <3>3, <3>4
  <2>5. ASSUME NEW n \in notices' \ notices
        PROVE  /\ n.on \in On("wall")' /\ <<n.on, Author>> \in notified'
               /\ n.row \notin interrupted' => From(n.row)' = {} /\ Dealt(n.row)'
               /\ n.refused => n.on \in OwnWall' /\ Owned(n.on)'
    <3>1. PICK i \in Carriers :
              n = [row |-> firing[w], on |-> i, refused |-> <<i, Author>> \in notified]
      BY <2>1, <2>5
    <3>2. n.row = firing[w] /\ n.on = i /\ (n.refused <=> <<i, Author>> \in notified)
      BY <3>1
    <3>q. PICK q \in Scheduled : q = firing[w] /\ q \in claimed[w] \ todo[w]
      BY <1>1, <2>1 DEF Claims, ScheduledTypeOK
    <3>3. n.refused => n.on \in OwnWall' /\ Owned(n.on)'
      <4>1. ASSUME n.refused
            PROVE  i \in OwnWall /\ Owned(i)
        BY <2>2, <3>2, <4>1 DEF Notices, Inboxes
      <4> QED BY <1>2, <3>2, <4>1
    <3>4. Dealt(q)'
      <4>1. q \in claimed'[w] \ todo'[w] /\ firing'[w] # q
        BY <1>1, <2>1, <3>q DEF NoticeEnds, ScheduledTypeOK
      <4> QED BY <4>1 DEF Dealt, Handled
    <3>5. q \notin interrupted' => From(q)' = {}
      <4>1. UNCHANGED messages \/ Posts("notice", "wall")
        BY <1>5 DEF NotifyAuthorOfFailure, MessagePost, Posts
      <4>2. Changes({"notice"}) /\ {"notice"} \in SUBSET Writers
        BY <4>1 DEF Changes, Threads, Writers
      <4>3. From(q)' = From(q)
        BY <1>1, <4>2, FromOthers
      <4> QED BY <2>1, <3>q, <4>3, NoticeIsTrue DEF NoticeEnds
    <3> QED BY <2>2, <3>1, <3>2, <3>3, <3>4, <3>5, <3>q
  <2>6. ASSUME NEW n \in notices'
        PROVE  /\ n.on \in On("wall")' /\ <<n.on, Author>> \in notified'
               /\ n.row \notin interrupted' => From(n.row)' = {} /\ Dealt(n.row)'
               /\ n.refused => n.on \in OwnWall' /\ Owned(n.on)'
    <3>1. CASE n \in notices
      BY <1>3, <3>1
    <3>2. CASE n \notin notices
      BY <2>5, <3>2
    <3> QED BY <3>1, <3>2
  <2> QED BY <2>4, <2>6 DEF Stands
<1>6. UNCHANGED notices \/ \E w \in Worker : NotifyAuthorOfFailure(w)
  BY NoticeSteps DEF noticeVars, NoticeFails
<1> QED BY <1>4, <1>5, <1>6

\* Each row that a dispatch deletes unposted has its own notice, which the author
\* finds in his inbox unless an earlier one took its place on a message of his own;
\* and what stands posted has none (notify_author_of_failure).
THEOREM UnpostedIsNoticedHolds == Spec => []UnpostedIsNoticed
<1>1. Init => Notices
  BY DEF Init, ScheduledInit, ThreadsInit, Notices, Heeds, Inboxes, Dealt, Handled,
         OwnWall, On
<1>2. Base /\ Fates /\ Notices /\ [Next]_vars => Notices'
  BY HeedsStep, InboxesStep, StandsStep DEF Notices
<1>3. Notices => UnpostedIsNoticed
  <2>1. Heeds => \A r \in Scheduled :
            post[r] = "dispatched" /\ From(r) = {} /\ r \notin dropped =>
                \E n \in notices : n.row = r
    BY DEF Heeds, Heeded, Dealt
  <2>2. ASSUME Notices, NEW n \in notices
        PROVE  /\ n.on \in On("wall") /\ <<n.on, Author>> \in notified
               /\ n.row \notin interrupted => From(n.row) = {}
               /\ ~n.refused => \A m \in notices : m.on = n.on /\ ~m.refused => m = n
               /\ n.refused => messages[n.on].from \in Scheduled /\ Owned(n.on)
    BY <2>2 DEF Notices, Stands, OwnWall
  <2> QED BY <2>1, <2>2 DEF Notices, Owned, UnpostedIsNoticed
<1> QED BY <1>1, <1>2, <1>3, BaseHolds, FatesHold, PTL DEF Spec

-----------------------------------------------------------------------------
(***************************************************************************)
(* The gateway implements the intake of mails.                             *)
(***************************************************************************)
intake == <<Copies, Accepted>>

\* What stores no mail leaves the copies alone.
LEMMA CopiesKept ==
    ASSUME \A m \in Mail : From(m)' = From(m)
    PROVE  Copies' = Copies
BY DEF Copies

\* An answer that accepts nothing, or none at all.
LEMMA AcceptsNothing ==
    ASSUME \/ answers' = answers
           \/ \E a : answers' = answers \cup {a} /\ a.outcome \in {"rejected", "dropped"}
    PROVE  Accepted' = Accepted
BY DEF Accepted

\* An answer that accepts a mail.
LEMMA AcceptsOne ==
    ASSUME NEW m \in Mail, NEW n, NEW outcome \in {"routed", "duplicate"},
           answers' = answers \cup {[mail |-> m, outcome |-> outcome, since |-> n]}
    PROVE  Accepted' = Accepted \cup {m}
<1> DEFINE a == [mail |-> m, outcome |-> outcome, since |-> n]
<1>a. a.mail = m /\ a.outcome \in {"routed", "duplicate"} /\ answers' = answers \cup {a}
  OBVIOUS
<1> HIDE DEF a
<1>1. \A x \in Mail : x \in Accepted' <=> x \in Accepted \/ x = m
  BY <1>a DEF Accepted
<1>2. Accepted \subseteq Mail /\ Accepted' \subseteq Mail
  BY DEF Accepted
<1> QED BY <1>1, <1>2

\* A commit stores its mail, which no message carries yet if it has a
\* Message-ID.
LEMMA CommitStores ==
    ASSUME Base, Stores, NEW w \in Worker, NEW m \in Mail, m = serving[w],
           step[w] = "commit", MessagePost(m, landing[w], {})
    PROVE  Intake!Store(m)
<1>1. messages \in Seq(Entry) /\ m \in Writers /\ landing[w] \in Threads
  BY DEF Base, TypeOK, Entry, InboundTypeOK, Writers
<1>2. Posts(m, landing[w])
  BY DEF MessagePost, Posts
<1>3. From(m)' = From(m) \cup {Len(messages) + 1} /\ Len(messages) + 1 \notin From(m)
  BY <1>1, <1>2, FromWriter
<1>4. Cardinality(From(m)') = Cardinality(From(m)) + 1
  BY <1>1, <1>3, FromFinite, FS_AddElement
<1>5. \A x \in Mail : x # m => From(x)' = From(x)
  <2>1. Changes({m}) /\ {m} \in SUBSET Writers
    BY <1>1, <1>2 DEF Changes
  <2> QED BY <1>1, <2>1, FromOthers
<1>6. Copies' = [Copies EXCEPT ![m] = @ + 1]
  BY <1>4, <1>5 DEF Copies
<1>7. m \in Identified => Copies[m] = 0
  BY <1>1, FromFinite DEF Stores, Inserts, Copies
<1> QED BY <1>6, <1>7 DEF Intake!Store

\* Every step of a call's is one of the intake's, or none.
LEMMA IntakeStep ==
    ASSUME Base, Stores, [Next]_vars
    PROVE  [Intake!Next]_intake
<1> USE InboundAssumption, TrafficAssumption
<1>1. messages \in Seq(Entry) /\ InboundTypeOK
  BY DEF Base, TypeOK, Entry
<1>2. UNCHANGED messages => Copies' = Copies
  BY CopiesKept DEF From
<1>3. ASSUME NEW w \in Worker,
             \/ \E m \in Mail : Deliver(w, m) \/ Retry(w, m)
             \/ PassAllowlist(w) \/ FollowLadder(w) \/ InsertMessage(w)
             \/ LoseRace(w) \/ LoseCall(w)
      PROVE  UNCHANGED intake
  <2>1. UNCHANGED <<messages, answers>>
    BY <1>3 DEF Deliver, Retry, Begin, PassAllowlist, FollowLadder, InsertMessage,
       LoseRace, LoseCall, Advances, threadVars, tables
  <2> QED BY <1>2, <2>1, AcceptsNothing DEF intake
<1>4. ASSUME NEW w \in Worker, RejectSender(w) \/ Drop(w)
      PROVE  UNCHANGED intake
  <2>1. /\ UNCHANGED messages
        /\ \E a : answers' = answers \cup {a} /\ a.outcome \in {"rejected", "dropped"}
    <3>1. PICK outcome \in {"rejected", "dropped"} : Answer(w, outcome) /\ UNCHANGED messages
      BY <1>4 DEF RejectSender, Drop, tables
    <3>2. [mail |-> serving[w], outcome |-> outcome, since |-> since[w]].outcome = outcome
      OBVIOUS
    <3> QED BY <3>1, <3>2 DEF Answer
  <2> QED BY <1>2, <2>1, AcceptsNothing DEF intake
<1>5. ASSUME NEW w \in Worker, ProbeDuplicate(w)
      PROVE  Intake!Next
  <2>1. PICK m \in Mail : m = serving[w]
    BY <1>1, <1>5 DEF ProbeDuplicate, Base, Calling
  <2>2. /\ m \in Identified /\ From(m) # {} /\ UNCHANGED messages
        /\ answers' = answers \cup {[mail |-> m, outcome |-> "duplicate", since |-> since[w]]}
    BY <1>5, <2>1 DEF ProbeDuplicate, Answer, Stored, tables
  <2>3. Copies[m] # 0 /\ Copies' = Copies /\ Accepted' = Accepted \cup {m}
    BY <1>1, <1>2, <2>1, <2>2, FromFinite, AcceptsOne DEF Copies
  <2> QED BY <2>2, <2>3 DEF Intake!Recognise, Intake!Next
<1>6. ASSUME NEW w \in Worker, CommitMessage(w) \/ LoseAnswer(w)
      PROVE  Intake!Next
  <2>1. step[w] = "commit" /\ MessagePost(serving[w], landing[w], {})
    BY <1>6 DEF CommitMessage, LoseAnswer
  <2>2. PICK m \in Mail : m = serving[w]
    BY <2>1 DEF Base, Calling
  <2>3. Intake!Store(m)
    BY <2>1, <2>2, CommitStores
  <2>4. CASE CommitMessage(w)
    <3>1. answers' = answers \cup {[mail |-> m, outcome |-> "routed", since |-> since[w]]}
      BY <2>2, <2>4 DEF CommitMessage, Answer
    <3> QED BY <2>3, <3>1, AcceptsOne DEF Intake!Accept, Intake!Next
  <2>5. CASE LoseAnswer(w)
    <3>1. Accepted' = Accepted
      BY <2>5, AcceptsNothing DEF LoseAnswer
    <3> QED BY <2>3, <3>1 DEF Intake!StoreUnanswered, Intake!Next
  <2> QED BY <1>6, <2>4, <2>5
<1>7. CASE InboundNext
  BY <1>3, <1>4, <1>5, <1>6, <1>7 DEF InboundNext, Serve
<1>8. CASE Next /\ ~InboundNext
  <2>1. /\ Scheduled \cup {"notice"} \in SUBSET Writers
        /\ Activity \in SUBSET Writers /\ {} \in SUBSET Writers
        /\ \A m \in Mail : m \notin Scheduled \cup {"notice"} /\ m \notin Activity
    BY DEF Writers
  <2>2. Changes({}) \/ Changes(Scheduled \cup {"notice"}) \/ Changes(Activity)
    BY <1>8, StepWrites
  <2>3. \A m \in Mail : From(m)' = From(m)
    BY <1>1, <2>1, <2>2, FromOthers
  <2>4. answers' = answers
    BY <1>8 DEF Next, inboundVars
  <2> QED BY <2>3, <2>4, CopiesKept, AcceptsNothing DEF intake
<1>9. CASE UNCHANGED vars
  <2>1. UNCHANGED <<messages, answers>>
    BY <1>9 DEF vars, threadVars, tables, inboundVars
  <2> QED BY <1>2, <2>1, AcceptsNothing DEF intake
<1> QED BY <1>7, <1>8, <1>9

\* The gateway implements the intake of mails: what a relay may forget is
\* stored, a mail with a Message-ID once, and a call that is answered
\* "duplicate" has found it, however deliveries race, die and repeat
\* (process_inbound).
THEOREM ImplementsIntake == Spec => IntakeSpec
<1>1. Init => Intake!Init
  <2> SUFFICES ASSUME Init PROVE Intake!Init
    OBVIOUS
  <2>1. \A m \in Mail : From(m) = {}
    BY DEF Init, ThreadsInit, From
  <2>2. Copies = [m \in Mail |-> 0]
    BY <2>1, FS_EmptySet DEF Copies
  <2>3. Accepted = {}
    BY DEF Init, InboundInit, Accepted
  <2> QED BY <2>2, <2>3 DEF Intake!Init
<1>2. Base /\ Stores /\ [Next]_vars => [Intake!Next]_intake
  BY IntakeStep
<1> QED BY <1>1, <1>2, BaseHolds, StoresHolds, PTL
        DEF Spec, IntakeSpec, Intake!Spec, intake

=============================================================================
