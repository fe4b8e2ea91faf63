---------------------------- MODULE RealtimeFeed ----------------------------
(***************************************************************************)
(* The realtime feed of one replica: the tailer (OutboxTailer), the        *)
(* registry's replay ring and broadcast channel, and the SSE streams of    *)
(* one identity.  Publication and a stream's opening are several steps,    *)
(* since the tailer and every handler and forwarder are tasks of their     *)
(* own.                                                                    *)
(***************************************************************************)
EXTENDS Integers, Sequences, FiniteSets

CONSTANTS
    Event, Window, CommitLag, PollGap, MaxClock, MaxRestarts,  \* The tailer's
    Client,      \* The browser tabs of one identity
    Stream,      \* The streams it may hold open, left ones included
    Permitted,   \* The events the identity's allowlist lets through
    Capacity,    \* Of the ring and of the broadcast channel
    MaxStreams   \* Streams an identity may hold

ASSUME FeedAssumption ==
    /\ Event \subseteq Nat \ {0}
    /\ {Window, CommitLag, PollGap, MaxClock, MaxRestarts} \subseteq Nat
    /\ Permitted \subseteq Event
    /\ IsFiniteSet(Stream)
    /\ "none" \notin Stream \cup Client
    /\ Capacity \in Nat \ {0} /\ MaxStreams \in Nat \ {0}

VARIABLES
    now, outbox, stamp, seen, batch, sending, readAt, passed, feed, published,
    restarts,   \* The tailer's
    ring,       \* The registry's replay ring
    slots,      \* Its connection count of the identity
    phase,      \* How far each stream is in its opening
    owner,      \* The client that opened it
    listening,  \* The stream each client reads
    last,       \* Each client's Last-Event-ID, 0 before its first frame
    replay,     \* What each stream's forwarder has left to replay
    next,       \* Its receiver's position in the broadcast
    frames,     \* History: the events each open stream has handled
    heard       \* History: clients with an event of this life of the replica

Tailer == INSTANCE OutboxTailer

upstream ==
    <<now, outbox, stamp, seen, batch, sending, readAt, passed, feed, published,
      restarts>>
clients == <<listening, last, heard>>
forwarders == <<replay, next, frames>>
handlers == <<phase, owner, slots>>
streams == <<clients, forwarders, handlers>>
vars == <<upstream, ring, streams>>

Phases == {"none", "reserved", "snapshot", "subscribed", "live"}

Init ==
    /\ Tailer!Init
    /\ ring = <<>> /\ slots = 0
    /\ phase = [t \in Stream |-> "none"]
    /\ owner = [t \in Stream |-> "none"]
    /\ listening = [c \in Client |-> "none"]
    /\ last = [c \in Client |-> 0]
    /\ heard = {}
    /\ replay = [t \in Stream |-> <<>>]
    /\ next = [t \in Stream |-> 0]
    /\ frames = [t \in Stream |-> <<>>]

-----------------------------------------------------------------------------
(***************************************************************************)
(* The tailer's steps, and the ring that publish keeps.                    *)
(***************************************************************************)
Bounded(queue) ==
    IF Len(queue) > Capacity THEN Tail(queue) ELSE queue

Remember(e) ==
    /\ Tailer!Remember(e)
    /\ ring' = Bounded(Append(ring, e))
    /\ UNCHANGED streams

TailerStep ==
    \/ \E e \in Event : Remember(e)
    \/ (Tailer!Poll \/ Tailer!Broadcast) /\ UNCHANGED <<ring, streams>>

\* The writers and the clock.
Upstream ==
    /\ Tailer!Tick
       \/ \E e \in Event : Tailer!Stage(e) \/ Tailer!Commit(e) \/ Tailer!Rollback(e)
    /\ UNCHANGED <<ring, streams>>

-----------------------------------------------------------------------------
(***************************************************************************)
(* A stream's opening.  The handler awaits nothing before it subscribes,   *)
(* so only then can it notice that its client has left.                    *)
(***************************************************************************)
Listening(t) == owner[t] # "none" /\ listening[owner[t]] = t

\* A client over the cap is answered 429, which changes nothing.
Reserve(t, c) ==
    /\ phase[t] = "none" /\ listening[c] = "none"
    /\ slots < MaxStreams
    /\ slots' = slots + 1
    /\ phase' = [phase EXCEPT ![t] = "reserved"]
    /\ owner' = [owner EXCEPT ![t] = c]
    /\ listening' = [listening EXCEPT ![c] = t]
    /\ UNCHANGED <<last, heard, forwarders>>

\* Faulty variant: the watermark itself is replayed too, known or not.
ReplayFrom(e) ==
    IF \E i \in DOMAIN ring : ring[i] = e
    THEN LET i == CHOOSE i \in DOMAIN ring : ring[i] = e
         IN  SubSeq(ring, i, Len(ring))
    ELSE <<e>> \o ring

\* The events after the watermark; the whole ring if it is not there.
ReplayAfter(e) ==
    IF \E i \in DOMAIN ring : ring[i] = e
    THEN LET i == CHOOSE i \in DOMAIN ring : ring[i] = e
         IN  SubSeq(ring, i + 1, Len(ring))
    ELSE ring

Snapshot(t) ==
    /\ phase[t] = "reserved"
    /\ phase' = [phase EXCEPT ![t] = "snapshot"]
    /\ replay' = [replay EXCEPT ![t] = ReplayAfter(last[owner[t]])]
    /\ UNCHANGED <<clients, next, frames, owner, slots>>

\* Faulty variant: a receiver that starts with what the channel still holds.
SubscribeFromOldest(t) ==
    /\ phase[t] = "snapshot"
    /\ phase' = [phase EXCEPT ![t] = "subscribed"]
    /\ next' = [next EXCEPT ![t] = 1]
    /\ UNCHANGED <<clients, replay, frames, owner, slots>>

Subscribe(t) ==
    /\ phase[t] = "snapshot"
    /\ phase' = [phase EXCEPT ![t] = "subscribed"]
    /\ next' = [next EXCEPT ![t] = Len(feed) + 1]
    /\ UNCHANGED <<clients, replay, frames, owner, slots>>

\* The forwarder starts, and its client takes the session frame.
Spawn(t) ==
    /\ phase[t] = "subscribed" /\ Listening(t)
    /\ phase' = [phase EXCEPT ![t] = "live"]
    /\ UNCHANGED <<clients, forwarders, owner, slots>>

Discard(t) ==
    /\ phase' = [phase EXCEPT ![t] = "none"]
    /\ owner' = [owner EXCEPT ![t] = "none"]
    /\ replay' = [replay EXCEPT ![t] = <<>>]
    /\ next' = [next EXCEPT ![t] = 0]
    /\ frames' = [frames EXCEPT ![t] = <<>>]
    /\ UNCHANGED clients

\* Faulty variant: a task that ends without dropping its guard.
CloseLeaking(t) == Discard(t) /\ UNCHANGED slots

\* The stream's task ends, and its guard releases the slot.
Close(t) == Discard(t) /\ slots' = slots - 1

\* The client left before the forwarder's first frame.
Cancel(t) ==
    /\ phase[t] = "subscribed" /\ ~Listening(t)
    /\ Close(t)

-----------------------------------------------------------------------------
(***************************************************************************)
(* The forwarder: the replay first, then the broadcast.                    *)
(***************************************************************************)
Lagging(t) == Len(feed) - next[t] >= Capacity

HasNext(t) ==
    /\ phase[t] = "live"
    /\ replay[t] # <<>> \/ (next[t] <= Len(feed) /\ ~Lagging(t))

Upcoming(t) == IF replay[t] # <<>> THEN Head(replay[t]) ELSE feed[next[t]]

\* A permitted event reaches the client; any other is dropped.
Forward(t) ==
    /\ HasNext(t)
    /\ Listening(t) \/ Upcoming(t) \notin Permitted
    /\ IF replay[t] # <<>>
       THEN replay' = [replay EXCEPT ![t] = Tail(@)] /\ UNCHANGED next
       ELSE next' = [next EXCEPT ![t] = @ + 1] /\ UNCHANGED replay
    /\ frames' = [frames EXCEPT ![t] = Append(@, Upcoming(t))]
    /\ IF Upcoming(t) \in Permitted
       THEN /\ last' = [last EXCEPT ![owner[t]] = Upcoming(t)]
            /\ heard' = heard \cup {owner[t]}
       ELSE UNCHANGED <<last, heard>>
    /\ UNCHANGED <<listening, handlers>>

\* The send to a client that has left fails, which ends the task.
FailSend(t) ==
    /\ HasNext(t)
    /\ ~Listening(t) /\ Upcoming(t) \in Permitted
    /\ Close(t)

\* A receiver that fell behind is moved to the oldest value the channel holds.
Lag(t) ==
    /\ phase[t] = "live" /\ replay[t] = <<>> /\ Lagging(t)
    /\ next' = [next EXCEPT ![t] = Len(feed) - Capacity + 1]
    /\ UNCHANGED <<clients, replay, frames, handlers>>

Leave(c) ==
    /\ listening[c] # "none"
    /\ listening' = [listening EXCEPT ![c] = "none"]
    /\ UNCHANGED <<last, heard, forwarders, handlers>>

\* The replica restarts with an empty ring; the clients keep their watermarks.
Restart ==
    /\ Tailer!Restart
    /\ ring' = <<>> /\ slots' = 0
    /\ phase' = [t \in Stream |-> "none"]
    /\ owner' = [t \in Stream |-> "none"]
    /\ listening' = [c \in Client |-> "none"]
    /\ heard' = {}
    /\ replay' = [t \in Stream |-> <<>>]
    /\ next' = [t \in Stream |-> 0]
    /\ frames' = [t \in Stream |-> <<>>]
    /\ UNCHANGED last

-----------------------------------------------------------------------------
StreamStep(t) ==
    /\ \/ Snapshot(t) \/ Subscribe(t) \/ Spawn(t) \/ Cancel(t)
       \/ Forward(t) \/ FailSend(t) \/ Lag(t)
    /\ UNCHANGED <<upstream, ring>>

ClientStep(c) ==
    /\ Leave(c) \/ \E t \in Stream : Reserve(t, c)
    /\ UNCHANGED <<upstream, ring>>

Next ==
    \/ Upstream
    \/ TailerStep
    \/ \E t \in Stream : StreamStep(t)
    \/ \E c \in Client : ClientStep(c)
    \/ Restart

Spec == Init /\ [][Next]_vars

\* The tailer and every spawned task keep running; no event, client or restart
\* has to come.
FairSpec ==
    /\ Spec
    /\ WF_vars(TailerStep)
    /\ \A t \in Stream : WF_vars(StreamStep(t))

-----------------------------------------------------------------------------
(***************************************************************************)
(* Type invariant: streams are owned by clients and carry events.          *)
(***************************************************************************)
TypeOK ==
    /\ Tailer!TypeOK
    /\ ring \in Seq(Event) /\ slots \in Nat
    /\ phase \in [Stream -> Phases]
    /\ owner \in [Stream -> Client \cup {"none"}]
    /\ listening \in [Client -> Stream \cup {"none"}]
    /\ last \in [Client -> Event \cup {0}]
    /\ heard \in SUBSET Client
    /\ replay \in [Stream -> Seq(Event)]
    /\ next \in [Stream -> Nat]
    /\ frames \in [Stream -> Seq(Event)]

(***************************************************************************)
(* Safety.                                                                 *)
(***************************************************************************)

\* In the order of publication, the event in the ring but not yet broadcast
\* comes last.
PublicationLog == IF sending = 0 THEN feed ELSE Append(feed, sending)

Place(e) == CHOOSE i \in DOMAIN PublicationLog : PublicationLog[i] = e

\* What a stream handles, replay and broadcast together, is in publication
\* order, and at most one event comes twice: the one that was in the ring and
\* not yet broadcast when the stream opened.
FramesInOrder ==
    \A t \in Stream :
        /\ \A i, j \in DOMAIN frames[t] :
               i < j => Place(frames[t][i]) <= Place(frames[t][j])
        /\ Cardinality({i \in 2..Len(frames[t]) :
                           frames[t][i] = frames[t][i - 1]}) <= 1

\* The streams implement readers of one log: each handles events of it upwards,
\* for as long as it is open, and may handle the last one again, once.  A client's
\* watermark goes up too, through whatever streams it leaves and opens, and only
\* a new life of the replica lets it start over.
Watermark == [c \in Client |-> IF c \in heard THEN Place(last[c]) ELSE 0]

Readers == INSTANCE LogReaders WITH
    log <- PublicationLog, handled <- frames, mark <- Watermark

ReadersSpec == Readers!Spec

\* The registry counts the streams that are open, from the reservation to the
\* end of the forwarder, and there are never more than the cap.
SlotsAreHonest ==
    /\ slots = Cardinality({t \in Stream : phase[t] # "none"})
    /\ slots <= MaxStreams

-----------------------------------------------------------------------------
(***************************************************************************)
(* What comments and a test of the code say, and the code does not do.     *)
(***************************************************************************)

\* stream: "a broadcast receiver only sees post-subscribe sends, so this order
\* cannot double-deliver or drop": a stream's replay joins the broadcast.
HandoverIsExact ==
    \A t \in Stream : phase[t] = "live" =>
        LET coming == frames[t] \o replay[t]
                      \o SubSeq(PublicationLog, next[t], Len(PublicationLog))
        IN  \A i \in 2..Len(coming) : Place(coming[i]) = Place(coming[i - 1]) + 1

\* ConnectionGuard: "releasing on drop keeps the cap honest even when a client
\* vanishes mid-stream", and a test: "drop(held); // releases the slots".
LeftSlotIsReleased ==
    \A t \in Stream :
        phase[t] # "none" /\ ~Listening(t) ~> phase[t] = "none" \/ Listening(t)

=============================================================================
