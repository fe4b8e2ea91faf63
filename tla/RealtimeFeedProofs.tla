------------------------- MODULE RealtimeFeedProofs -------------------------
(***************************************************************************)
(* Proofs about the realtime feed, for every number of clients, streams    *)
(* and events and every capacity: it adds nothing to what the tailer may   *)
(* do, its type invariant, and that the connection count is honest.        *)
(***************************************************************************)
EXTENDS RealtimeFeed, FiniteSetTheorems, SequenceTheorems, TLAPS

-----------------------------------------------------------------------------
(***************************************************************************)
(* The tailer inside the feed.                                             *)
(***************************************************************************)

\* A step of the feed is a step of the tailer or leaves it alone.
LEMMA NextIsTailerStep ==
    ASSUME [Next]_vars
    PROVE  [Tailer!Next]_(Tailer!vars)
<1> USE DEF Tailer!vars, Tailer!clock, Tailer!rows, Tailer!tailer, Tailer!output
<1>1. CASE Upstream
  BY <1>1 DEF Upstream, Tailer!Next
<1>2. CASE TailerStep
  BY <1>2 DEF TailerStep, Remember, Tailer!Next, Tailer!TailerStep
<1>3. CASE \E t \in Stream : StreamStep(t)
  BY <1>3 DEF StreamStep, upstream
<1>4. CASE \E c \in Client : ClientStep(c)
  BY <1>4 DEF ClientStep, upstream
<1>5. CASE Restart
  BY <1>5 DEF Restart, Tailer!Next
<1>6. CASE UNCHANGED vars
  BY <1>6 DEF vars, upstream
<1> QED BY <1>1, <1>2, <1>3, <1>4, <1>5, <1>6 DEF Next

\* The feed implements the tailer: what is proved of the tailer alone, that no
\* row is skipped and none broadcast twice, holds with any streams attached.
THEOREM ImplementsTailer == Spec => Tailer!Spec
<1>1. Init => Tailer!Init
  BY DEF Init
<1>2. [Next]_vars => [Tailer!Next]_(Tailer!vars)
  BY NextIsTailerStep
<1> QED BY <1>1, <1>2, PTL DEF Spec, Tailer!Spec

-----------------------------------------------------------------------------
(***************************************************************************)
(* Type correctness.                                                       *)
(***************************************************************************)
\* What the tailer does keeps its own variables in their types.
LEMMA TailerNextType ==
    ASSUME Tailer!TypeOK, [Tailer!Next]_(Tailer!vars)
    PROVE  Tailer!TypeOK'
<1> USE FeedAssumption DEF Tailer!TypeOK, Tailer!clock, Tailer!rows, Tailer!tailer,
        Tailer!output
<1>1. CASE \E e \in Event : Tailer!Stage(e)
  BY <1>1 DEF Tailer!Stage
<1>2. CASE \E e \in Event : Tailer!Commit(e)
  BY <1>2 DEF Tailer!Commit
<1>3. CASE \E e \in Event : Tailer!Rollback(e)
  BY <1>3 DEF Tailer!Rollback
<1>4. CASE Tailer!Tick
  BY <1>4 DEF Tailer!Tick
<1>5. CASE Tailer!Poll
  BY <1>5 DEF Tailer!Poll, Tailer!Kept, Tailer!Fresh
<1>6. CASE Tailer!Broadcast
  BY <1>6 DEF Tailer!Broadcast
<1>7. CASE \E e \in Event : Tailer!Remember(e)
  BY <1>7 DEF Tailer!Remember
<1>8. CASE Tailer!Restart
  BY <1>8 DEF Tailer!Restart
<1>9. CASE UNCHANGED Tailer!vars
  BY <1>9 DEF Tailer!vars
<1> QED BY <1>1, <1>2, <1>3, <1>4, <1>5, <1>6, <1>7, <1>8, <1>9
        DEF Tailer!Next, Tailer!TailerStep

StreamTypes ==
    /\ ring \in Seq(Event) /\ slots \in Nat
    /\ phase \in [Stream -> Phases]
    /\ owner \in [Stream -> Client \cup {"none"}]
    /\ listening \in [Client -> Stream \cup {"none"}]
    /\ last \in [Client -> Event \cup {0}]
    /\ heard \in SUBSET Client
    /\ replay \in [Stream -> Seq(Event)]
    /\ next \in [Stream -> Nat]
    /\ frames \in [Stream -> Seq(Event)]

Open == {t \in Stream : phase[t] # "none"}

\* A subscribed receiver has a position, and every open stream has its slot.
StreamInv ==
    /\ \A t \in Stream : phase[t] \in {"subscribed", "live"} => next[t] >= 1
    /\ slots = Cardinality(Open)
    /\ slots <= MaxStreams

IInv == Tailer!TypeOK /\ StreamTypes /\ StreamInv

\* The open streams can be counted.
LEMMA OpenFinite == IsFiniteSet(Open)
BY FeedAssumption, FS_Subset DEF Open

\* A step that opens or closes no stream and counts none keeps the count.
LEMMA SameOpen ==
    ASSUME phase \in [Stream -> Phases], UNCHANGED slots,
           \A t \in Stream : phase'[t] = "none" <=> phase[t] = "none"
    PROVE  slots' = slots /\ Open' = Open
BY DEF Open

\* The end of a stream's task gives its one slot back.
LEMMA CloseReleases ==
    ASSUME IInv, NEW t \in Stream, phase[t] # "none", Close(t), UNCHANGED ring
    PROVE  StreamTypes' /\ StreamInv'
<1> USE DEF IInv, StreamTypes
<1>1. /\ phase' = [phase EXCEPT ![t] = "none"]
      /\ owner' = [owner EXCEPT ![t] = "none"]
      /\ replay' = [replay EXCEPT ![t] = <<>>]
      /\ next' = [next EXCEPT ![t] = 0]
      /\ frames' = [frames EXCEPT ![t] = <<>>]
      /\ UNCHANGED <<listening, last, heard>> /\ slots' = slots - 1
  BY DEF Close, Discard, clients
<1>2. Open' = Open \ {t} /\ t \in Open
  BY <1>1 DEF Open, Phases
<1>3. Cardinality(Open') = Cardinality(Open) - 1
  BY <1>2, OpenFinite, FS_RemoveElement
<1>4. slots >= 1
  BY <1>2, OpenFinite, FS_EmptySet DEF StreamInv
<1>5. StreamInv'
  BY <1>1, <1>3, <1>4, FeedAssumption DEF StreamInv
<1>6. StreamTypes'
  BY <1>1, <1>4 DEF Phases
<1> QED BY <1>5, <1>6

-----------------------------------------------------------------------------
\* What a stream takes next is an event.
LEMMA UpcomingType ==
    ASSUME IInv, NEW t \in Stream, HasNext(t)
    PROVE  Upcoming(t) \in Event
<1> USE DEF IInv, StreamTypes, Tailer!TypeOK
<1>1. CASE replay[t] # <<>>
  BY <1>1 DEF Upcoming
<1>2. CASE replay[t] = <<>>
  <2>1. next[t] \in 1..Len(feed)
    BY <1>2 DEF HasNext, StreamInv
  <2> QED BY <1>2, <2>1 DEF Upcoming
<1> QED BY <1>1, <1>2

\* A replay consists of events.
LEMMA ReplayType ==
    ASSUME ring \in Seq(Event), NEW e
    PROVE  ReplayAfter(e) \in Seq(Event)
<1>1. CASE \E i \in DOMAIN ring : ring[i] = e
  <2> DEFINE k == CHOOSE i \in DOMAIN ring : ring[i] = e
  <2>1. k \in DOMAIN ring
    BY <1>1
  <2> HIDE DEF k
  <2>2. k \in Int /\ k + 1 \in Int /\ Len(ring) \in Int /\ k >= 1
    BY <2>1
  <2>3. \A j \in (k + 1)..Len(ring) : ring[j] \in Event
    BY <2>2
  <2>4. SubSeq(ring, k + 1, Len(ring)) \in Seq(Event)
    BY <2>2, <2>3, SubSeqProperties
  <2> QED BY <1>1, <2>4 DEF ReplayAfter, k
<1>2. CASE ~\E i \in DOMAIN ring : ring[i] = e
  BY <1>2 DEF ReplayAfter
<1> QED BY <1>1, <1>2

\* The steps of a stream.
LEMMA StreamStepInv ==
    ASSUME IInv, NEW t \in Stream, StreamStep(t)
    PROVE  StreamTypes' /\ StreamInv'
<1> USE FeedAssumption DEF IInv, StreamTypes, Phases
<1> ring' = ring /\ feed' = feed
  BY DEF StreamStep, upstream
<1> \/ Snapshot(t) \/ Subscribe(t) \/ Spawn(t) \/ Cancel(t)
    \/ Forward(t) \/ FailSend(t) \/ Lag(t)
  BY DEF StreamStep
<1>1. CASE Snapshot(t)
  <2>1. /\ phase[t] = "reserved" /\ phase' = [phase EXCEPT ![t] = "snapshot"]
        /\ replay' = [replay EXCEPT ![t] = ReplayAfter(last[owner[t]])]
        /\ UNCHANGED <<owner, listening, last, heard, next, frames, slots>>
    BY <1>1 DEF Snapshot, clients
  <2>2. ReplayAfter(last[owner[t]]) \in Seq(Event)
    BY ReplayType
  <2>3. StreamTypes'
    BY <2>1, <2>2
  <2>4. slots' = slots /\ Open' = Open
    BY <2>1, SameOpen
  <2> QED BY <2>1, <2>3, <2>4 DEF StreamInv
<1>2. CASE Subscribe(t)
  <2>1. /\ phase[t] = "snapshot" /\ phase' = [phase EXCEPT ![t] = "subscribed"]
        /\ next' = [next EXCEPT ![t] = Len(feed) + 1]
        /\ UNCHANGED <<owner, listening, last, heard, replay, frames, slots>>
    BY <1>2 DEF Subscribe, clients
  <2>2. Len(feed) \in Nat
    BY DEF Tailer!TypeOK
  <2>3. StreamTypes'
    BY <2>1, <2>2
  <2>4. slots' = slots /\ Open' = Open
    BY <2>1, SameOpen
  <2> QED BY <2>1, <2>2, <2>3, <2>4 DEF StreamInv
<1>3. CASE Spawn(t)
  <2>1. /\ phase[t] = "subscribed" /\ phase' = [phase EXCEPT ![t] = "live"]
        /\ UNCHANGED <<owner, listening, last, heard, replay, next, frames, slots>>
    BY <1>3 DEF Spawn, clients, forwarders
  <2>2. StreamTypes'
    BY <2>1
  <2>3. slots' = slots /\ Open' = Open
    BY <2>1, SameOpen
  <2> QED BY <2>1, <2>2, <2>3 DEF StreamInv
<1>4. CASE Cancel(t)
  BY <1>4, CloseReleases DEF Cancel
<1>5. CASE Forward(t)
  <2>1. Upcoming(t) \in Event
    BY <1>5, UpcomingType DEF Forward
  <2>2. UNCHANGED <<phase, owner, listening, slots>>
    BY <1>5 DEF Forward, handlers
  <2>3. frames' \in [Stream -> Seq(Event)]
    BY <1>5, <2>1 DEF Forward
  <2>4. last' \in [Client -> Event \cup {0}] /\ heard' \in SUBSET Client
    <3>1. CASE Upcoming(t) \in Permitted
      <4>1. owner[t] \in Client
        BY <1>5, <3>1 DEF Forward, Listening
      <4>2. /\ last' = [last EXCEPT ![owner[t]] = Upcoming(t)]
            /\ heard' = heard \cup {owner[t]}
        BY <1>5, <3>1 DEF Forward
      <4> QED BY <2>1, <4>1, <4>2
    <3>2. CASE Upcoming(t) \notin Permitted
      BY <1>5, <3>2 DEF Forward
    <3> QED BY <3>1, <3>2
  <2>5. /\ replay' \in [Stream -> Seq(Event)] /\ next' \in [Stream -> Nat]
        /\ \A s \in Stream : next'[s] >= next[s]
    <3>1. CASE replay[t] # <<>>
      <4>1. replay' = [replay EXCEPT ![t] = Tail(replay[t])] /\ next' = next
        BY <1>5, <3>1 DEF Forward
      <4>2. Tail(replay[t]) \in Seq(Event)
        BY <3>1, HeadTailProperties
      <4> QED BY <4>1, <4>2
    <3>2. CASE replay[t] = <<>>
      <4>1. replay' = replay /\ next' = [next EXCEPT ![t] = next[t] + 1]
        BY <1>5, <3>2 DEF Forward
      <4> QED BY <4>1
    <3> QED BY <3>1, <3>2
  <2>6. slots' = slots /\ Open' = Open
    BY <2>2 DEF Open
  <2>7. StreamTypes'
    BY <2>2, <2>3, <2>4, <2>5
  <2>8. \A s \in Stream : phase'[s] \in {"subscribed", "live"} => next'[s] >= 1
    BY <2>2, <2>5 DEF StreamInv
  <2>9. slots' = Cardinality(Open') /\ slots' <= MaxStreams
    BY <2>6 DEF StreamInv
  <2> QED BY <2>7, <2>8, <2>9 DEF StreamInv
<1>6. CASE FailSend(t)
  BY <1>6, CloseReleases DEF FailSend, HasNext
<1>7. CASE Lag(t)
  <2>1. /\ next' = [next EXCEPT ![t] = Len(feed) - Capacity + 1]
        /\ UNCHANGED <<phase, owner, listening, last, heard, replay, frames, slots>>
    BY <1>7 DEF Lag, clients, handlers
  <2>2. Len(feed) \in Nat /\ Len(feed) - next[t] >= Capacity
    BY <1>7 DEF Lag, Lagging, Tailer!TypeOK
  <2>3. Len(feed) - Capacity + 1 \in Nat /\ Len(feed) - Capacity + 1 >= 1
    BY <2>2
  <2>4. StreamTypes'
    BY <2>1, <2>3
  <2>5. slots' = slots /\ Open' = Open
    BY <2>1 DEF Open
  <2> QED BY <2>1, <2>3, <2>4, <2>5 DEF StreamInv
<1> QED BY <1>1, <1>2, <1>3, <1>4, <1>5, <1>6, <1>7

\* The steps of a client.
LEMMA ClientStepInv ==
    ASSUME IInv, NEW c \in Client, ClientStep(c)
    PROVE  StreamTypes' /\ StreamInv'
<1> USE FeedAssumption DEF IInv, StreamTypes, Phases
<1> ring' = ring
  BY DEF ClientStep
<1>1. CASE Leave(c)
  <2>1. /\ listening' = [listening EXCEPT ![c] = "none"]
        /\ UNCHANGED <<last, heard, replay, next, frames, phase, owner, slots>>
    BY <1>1 DEF Leave, forwarders, handlers
  <2>2. StreamTypes'
    BY <2>1
  <2>3. Open' = Open
    BY <2>1 DEF Open
  <2> QED BY <2>1, <2>2, <2>3 DEF StreamInv
<1>2. CASE \E t \in Stream : Reserve(t, c)
  <2> PICK t \in Stream : Reserve(t, c)
    BY <1>2
  <2>1. /\ phase[t] = "none" /\ slots < MaxStreams /\ slots' = slots + 1
        /\ phase' = [phase EXCEPT ![t] = "reserved"]
        /\ owner' = [owner EXCEPT ![t] = c]
        /\ listening' = [listening EXCEPT ![c] = t]
        /\ UNCHANGED <<last, heard, replay, next, frames>>
    BY DEF Reserve, forwarders
  <2>2. StreamTypes'
    BY <2>1
  <2>3. Open' = Open \cup {t} /\ t \notin Open
    BY <2>1 DEF Open
  <2>4. Cardinality(Open') = Cardinality(Open) + 1
    BY <2>3, OpenFinite, FS_AddElement
  <2> QED BY <2>1, <2>2, <2>4 DEF StreamInv
<1> QED BY <1>1, <1>2 DEF ClientStep

\* Every step keeps the invariant.
LEMMA NextInv ==
    ASSUME IInv, [Next]_vars
    PROVE  IInv'
<1> USE FeedAssumption
<1>1. Tailer!TypeOK'
  BY NextIsTailerStep, TailerNextType DEF IInv
<1>2. CASE Upstream \/ UNCHANGED vars
  <2>1. UNCHANGED <<ring, slots, phase, owner, listening, last, heard, replay, next,
                    frames>>
    BY <1>2 DEF Upstream, vars, streams, clients, forwarders, handlers
  <2> QED BY <1>1, <2>1 DEF IInv, StreamTypes, StreamInv, Open
<1>3. CASE TailerStep
  <2>1. UNCHANGED <<slots, phase, owner, listening, last, heard, replay, next, frames>>
    BY <1>3 DEF TailerStep, Remember, streams, clients, forwarders, handlers
  <2>2. ring' \in Seq(Event)
    <3>1. CASE ring' = ring
      BY <3>1 DEF IInv, StreamTypes
    <3>2. CASE \E e \in Event : ring' = Bounded(Append(ring, e))
      <4> PICK e \in Event : ring' = Bounded(Append(ring, e))
        BY <3>2
      <4>1. Append(ring, e) \in Seq(Event) /\ Append(ring, e) # <<>>
        BY AppendProperties DEF IInv, StreamTypes
      <4>2. Tail(Append(ring, e)) \in Seq(Event)
        BY <4>1, HeadTailProperties
      <4> QED BY <4>1, <4>2 DEF Bounded
    <3> QED BY <1>3, <3>1, <3>2 DEF TailerStep, Remember
  <2> QED BY <1>1, <2>1, <2>2 DEF IInv, StreamTypes, StreamInv, Open
<1>4. CASE \E t \in Stream : StreamStep(t)
  BY <1>1, <1>4, StreamStepInv DEF IInv
<1>5. CASE \E c \in Client : ClientStep(c)
  BY <1>1, <1>5, ClientStepInv DEF IInv
<1>6. CASE Restart
  <2>1. /\ ring' = <<>> /\ slots' = 0 /\ last' = last /\ heard' = {}
        /\ phase' = [t \in Stream |-> "none"]
        /\ owner' = [t \in Stream |-> "none"]
        /\ listening' = [c \in Client |-> "none"]
        /\ replay' = [t \in Stream |-> <<>>]
        /\ next' = [t \in Stream |-> 0]
        /\ frames' = [t \in Stream |-> <<>>]
    BY <1>6 DEF Restart
  <2>2. StreamTypes'
    BY <2>1 DEF IInv, StreamTypes, Phases
  <2>3. Open' = {}
    BY <2>1 DEF Open
  <2> QED BY <1>1, <2>1, <2>2, <2>3, FS_EmptySet DEF IInv, StreamInv
<1> QED BY <1>2, <1>3, <1>4, <1>5, <1>6 DEF Next

\* The invariant holds.
LEMMA Invariance == Spec => []IInv
<1>1. Init => IInv
  <2> SUFFICES ASSUME Init PROVE IInv
    OBVIOUS
  <2>1. Tailer!TypeOK
    BY FeedAssumption DEF Init, Tailer!Init, Tailer!TypeOK
  <2>2. StreamTypes
    BY DEF Init, StreamTypes, Phases
  <2>3. Open = {}
    BY DEF Init, Open
  <2> QED BY <2>1, <2>2, <2>3, FS_EmptySet, FeedAssumption
          DEF Init, IInv, StreamInv
<1>2. IInv /\ [Next]_vars => IInv'
  BY NextInv
<1> QED BY <1>1, <1>2, PTL DEF Spec

\* Streams are owned by clients and carry events.
THEOREM TypeCorrect == Spec => []TypeOK
<1>1. IInv => TypeOK
  BY DEF IInv, StreamTypes, TypeOK
<1> QED BY <1>1, Invariance, PTL

\* The registry counts exactly the open streams, and at most MaxStreams.
THEOREM SlotsAreHonestHolds == Spec => []SlotsAreHonest
<1>1. IInv => SlotsAreHonest
  BY DEF IInv, StreamInv, SlotsAreHonest, Open
<1> QED BY <1>1, Invariance, PTL

=============================================================================
