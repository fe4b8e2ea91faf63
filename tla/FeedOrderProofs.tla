-------------------------- MODULE FeedOrderProofs --------------------------
(***************************************************************************)
(* Proof that every stream of the realtime feed handles events in the      *)
(* order of their publication, and at most one of them twice, for every    *)
(* number of clients, streams and events and every capacity, and that no   *)
(* client's watermark goes back, so that the feed implements LogReaders.   *)
(* A sequence of publications without repetition gives every event its     *)
(* place; the lemmas on sequences come first, the steps of the feed, the   *)
(* watermarks and the refinement after them.                               *)
(***************************************************************************)
EXTENDS RealtimeFeedProofs

-----------------------------------------------------------------------------
(***************************************************************************)
(* Places in a log L, for a stream that has handled f and has r left to    *)
(* replay, and reads its n-th broadcast next.                              *)
(***************************************************************************)
Injective(L) == \A i, j \in DOMAIN L : L[i] = L[j] => i = j

InLog(L, e) == \E p \in DOMAIN L : L[p] = e

At(L, e) == CHOOSE i \in DOMAIN L : L[i] = e

Extends(L, M) ==
    /\ Len(L) <= Len(M)
    /\ \A i \in DOMAIN L : M[i] = L[i]

\* f goes up the log, r goes up strictly, and r comes after f.
InOrder(L, f, r) ==
    /\ \A i \in DOMAIN f : InLog(L, f[i])
    /\ \A i \in DOMAIN r : InLog(L, r[i])
    /\ \A i, j \in DOMAIN f : i < j => At(L, f[i]) <= At(L, f[j])
    /\ \A i, j \in DOMAIN r : i < j => At(L, r[i]) < At(L, r[j])
    /\ \A i \in DOMAIN f, j \in DOMAIN r : At(L, f[i]) < At(L, r[j])

UpTo(L, s, n) == \A i \in DOMAIN s : At(L, s[i]) <= n

Repeats(f) == {i \in 2..Len(f) : f[i] = f[i - 1]}

\* One repetition at most, and after it the stream is past the place it had.
OneRepeat(L, f, r, n) ==
    \/ Repeats(f) = {}
    \/ /\ r = <<>> /\ \A i \in DOMAIN f : At(L, f[i]) < n
       /\ \E d \in Nat : Repeats(f) = {d}

\* What holds of a stream in phase p, when k events have been broadcast.
StreamOrder(L, k, p, f, r, n) ==
    /\ p # "live" => f = <<>>
    /\ InOrder(L, f, r)
    /\ p \in {"subscribed", "live"} => n <= k + 1 /\ UpTo(L, f, n) /\ UpTo(L, r, n)
    /\ OneRepeat(L, f, r, n)

\* The last elements of L.
EndOf(L, r) ==
    /\ Len(r) <= Len(L)
    /\ \A i \in DOMAIN r : r[i] = L[Len(L) - Len(r) + i]

\* An end of the log grows with it, whether or not its first element goes.
LEMMA EndAppend ==
    ASSUME NEW S, NEW L \in Seq(S), NEW r \in Seq(S), NEW e \in S, EndOf(L, r)
    PROVE  EndOf(Append(L, e), Append(r, e)) /\ EndOf(Append(L, e), Tail(Append(r, e)))
<1> DEFINE M == Append(L, e)
           q == Append(r, e)
<1>1. /\ Len(L) \in Nat /\ DOMAIN L = 1..Len(L)
      /\ Len(M) = Len(L) + 1 /\ M[Len(L) + 1] = e
      /\ \A i \in 1..Len(L) : M[i] = L[i]
  BY AppendProperties
<1>2. /\ Len(r) \in Nat /\ DOMAIN r = 1..Len(r) /\ q \in Seq(S) /\ q # <<>>
      /\ Len(q) = Len(r) + 1 /\ DOMAIN q = 1..(Len(r) + 1)
      /\ q[Len(r) + 1] = e
      /\ \A i \in 1..Len(r) : q[i] = r[i]
  BY AppendProperties
<1> HIDE DEF M, q
<1>3. /\ Len(r) <= Len(L)
      /\ \A i \in 1..Len(r) : r[i] = L[Len(L) - Len(r) + i]
  BY <1>2 DEF EndOf
<1>4. \A i \in 1..(Len(r) + 1) : q[i] = M[Len(L) - Len(r) + i]
  <2> SUFFICES ASSUME NEW i \in 1..(Len(r) + 1)
               PROVE  q[i] = M[Len(L) - Len(r) + i]
    OBVIOUS
  <2>1. CASE i \in 1..Len(r)
    <3>1. Len(L) - Len(r) + i \in 1..Len(L)
      BY <1>1, <1>2, <1>3, <2>1
    <3> QED BY <1>1, <1>2, <1>3, <2>1, <3>1
  <2>2. CASE i = Len(r) + 1
    BY <1>1, <1>2, <2>2
  <2> QED BY <1>2, <2>1, <2>2
<1>5. EndOf(M, q)
  <2>1. Len(M) - Len(q) = Len(L) - Len(r) /\ Len(q) <= Len(M)
    BY <1>1, <1>2, <1>3
  <2> QED BY <1>2, <1>4, <2>1 DEF EndOf
<1>6. EndOf(M, Tail(q))
  <2>1. /\ Len(Tail(q)) = Len(r) /\ DOMAIN Tail(q) = 1..Len(r)
        /\ \A i \in 1..Len(r) : Tail(q)[i] = q[i + 1]
    BY <1>2, HeadTailProperties
  <2> DEFINE s == Tail(q)
  <2> HIDE DEF s
  <2>2. Len(s) = Len(r) /\ DOMAIN s = 1..Len(r) /\ Len(s) <= Len(M)
    BY <1>1, <1>2, <1>3, <2>1 DEF s
  <2>3. ASSUME NEW i \in 1..Len(r)
        PROVE  s[i] = M[Len(M) - Len(s) + i]
    <3>1. i + 1 \in 1..(Len(r) + 1) /\ s[i] = q[i + 1]
      BY <1>2, <2>1 DEF s
    <3>2. s[i] = M[Len(L) - Len(r) + (i + 1)]
      BY <1>4, <3>1
    <3>3. Len(L) - Len(r) + (i + 1) = Len(M) - Len(s) + i
      BY <1>1, <1>2, <2>2
    <3> QED BY <3>2, <3>3
  <2>4. EndOf(M, s)
    BY <2>2, <2>3 DEF EndOf
  <2> QED BY <2>4 DEF s
<1> QED BY <1>5, <1>6 DEF M, q

\* An event's place is where it is.
LEMMA AtPlace ==
    ASSUME NEW L, Injective(L), NEW p \in DOMAIN L
    PROVE  At(L, L[p]) = p
BY DEF Injective, At

\* An event keeps its place when the log grows.
LEMMA AtGrows ==
    ASSUME NEW S, NEW L \in Seq(S), NEW M \in Seq(S), Extends(L, M), Injective(M),
           NEW e, InLog(L, e)
    PROVE  InLog(M, e) /\ At(M, e) = At(L, e)
<1> PICK p \in DOMAIN L : L[p] = e
  BY DEF InLog
<1>1. p \in DOMAIN M /\ M[p] = e
  BY DEF Extends
<1>2. At(M, e) = p
  BY <1>1, AtPlace
<1>3. Injective(L)
  BY DEF Extends, Injective
<1>4. At(L, e) = p
  BY <1>3, AtPlace
<1> QED BY <1>1, <1>2, <1>4 DEF InLog

\* A place is one of the log.
LEMMA AtBound ==
    ASSUME NEW L, NEW e, InLog(L, e)
    PROVE  At(L, e) \in DOMAIN L
BY DEF InLog, At

\* What is in order stays so when the log grows.
LEMMA OrderGrows ==
    ASSUME NEW S, NEW L \in Seq(S), NEW M \in Seq(S), Extends(L, M), Injective(M),
           NEW f, NEW r, NEW n, InOrder(L, f, r)
    PROVE  /\ InOrder(M, f, r)
           /\ UpTo(L, f, n) => UpTo(M, f, n)
           /\ UpTo(L, r, n) => UpTo(M, r, n)
           /\ OneRepeat(L, f, r, n) => OneRepeat(M, f, r, n)
<1>1. \A i \in DOMAIN f : InLog(M, f[i]) /\ At(M, f[i]) = At(L, f[i])
  BY AtGrows DEF InOrder
<1>2. \A i \in DOMAIN r : InLog(M, r[i]) /\ At(M, r[i]) = At(L, r[i])
  BY AtGrows DEF InOrder
<1>3. InOrder(M, f, r)
  BY <1>1, <1>2 DEF InOrder
<1>4. UpTo(L, f, n) => UpTo(M, f, n)
  BY <1>1 DEF UpTo
<1>5. UpTo(L, r, n) => UpTo(M, r, n)
  BY <1>2 DEF UpTo
<1>6. OneRepeat(L, f, r, n) => OneRepeat(M, f, r, n)
  BY <1>1 DEF OneRepeat
<1> QED BY <1>3, <1>4, <1>5, <1>6

\* Handling an event repeats at most the one handled last.
LEMMA RepeatsAppend ==
    ASSUME NEW S, NEW f \in Seq(S), NEW e \in S
    PROVE  /\ Repeats(Append(f, e)) \subseteq Repeats(f) \cup {Len(f) + 1}
           /\ Repeats(f) \subseteq Repeats(Append(f, e))
           /\ (\A i \in DOMAIN f : f[i] # e) => Repeats(Append(f, e)) = Repeats(f)
<1> DEFINE g == Append(f, e)
<1>1. /\ Len(g) = Len(f) + 1 /\ Len(f) \in Nat /\ DOMAIN f = 1..Len(f)
      /\ \A i \in 1..Len(f) : g[i] = f[i]
      /\ g[Len(f) + 1] = e
  BY AppendProperties
<1> HIDE DEF g
<1>2. Repeats(g) \subseteq Repeats(f) \cup {Len(f) + 1}
  BY <1>1 DEF Repeats
<1>3. Repeats(f) \subseteq Repeats(g)
  BY <1>1 DEF Repeats
<1>4. ASSUME \A i \in DOMAIN f : f[i] # e PROVE Len(f) + 1 \notin Repeats(g)
  BY <1>1, <1>4 DEF Repeats
<1> QED BY <1>2, <1>3, <1>4 DEF g

\* Handling the head of the replay.
LEMMA TakeReplay ==
    ASSUME NEW S, NEW L \in Seq(S), Injective(L), NEW f \in Seq(S), NEW r \in Seq(S),
           r # <<>>, InOrder(L, f, r), NEW n, OneRepeat(L, f, r, n)
    PROVE  /\ InOrder(L, Append(f, Head(r)), Tail(r))
           /\ OneRepeat(L, Append(f, Head(r)), Tail(r), n)
           /\ UpTo(L, f, n) /\ UpTo(L, r, n) =>
                  UpTo(L, Append(f, Head(r)), n) /\ UpTo(L, Tail(r), n)
<1> DEFINE g == Append(f, Head(r))
           s == Tail(r)
<1>1. /\ Head(r) \in S /\ Head(r) = r[1] /\ 1 \in DOMAIN r
      /\ Len(r) \in Nat /\ DOMAIN r = 1..Len(r)
      /\ \A i \in DOMAIN s : s[i] = r[i + 1] /\ i + 1 \in DOMAIN r /\ i \in Nat /\ i > 0
  BY HeadTailProperties, EmptySeq
<1>2. /\ Len(f) \in Nat /\ DOMAIN f = 1..Len(f) /\ DOMAIN g = 1..(Len(f) + 1)
      /\ \A i \in DOMAIN f : g[i] = f[i]
      /\ g[Len(f) + 1] = r[1]
  BY <1>1, AppendProperties
<1>3. \A i \in DOMAIN f : f[i] # Head(r)
  <2>1. At(L, r[1]) \in Int
    BY <1>1, AtBound DEF InOrder
  <2> QED BY <1>1, <2>1 DEF InOrder
<1>4. Repeats(g) = {}
  <2>1. Repeats(f) = {}
    BY DEF OneRepeat
  <2> QED BY <1>1, <1>3, <2>1, RepeatsAppend
<1> HIDE DEF g, s
<1>5. \A i \in DOMAIN g : (i \in DOMAIN f /\ g[i] = f[i]) \/ (i = Len(f) + 1 /\ g[i] = r[1])
  BY <1>2
<1>6. InOrder(L, g, s)
  <2>1. \A i \in DOMAIN f : At(L, f[i]) \in Int
    BY AtBound DEF InOrder
  <2>2. \A i \in DOMAIN r : At(L, r[i]) \in Int
    BY AtBound DEF InOrder
  <2>3. \A i \in DOMAIN g : InLog(L, g[i])
    BY <1>1, <1>5 DEF InOrder
  <2>4. \A i \in DOMAIN s : InLog(L, s[i])
    BY <1>1 DEF InOrder
  <2>5. \A i, j \in DOMAIN g : i < j => At(L, g[i]) <= At(L, g[j])
    <3> SUFFICES ASSUME NEW i \in DOMAIN g, NEW j \in DOMAIN g, i < j
                 PROVE  At(L, g[i]) <= At(L, g[j])
      OBVIOUS
    <3>1. i \in DOMAIN f
      BY <1>2
    <3>2. CASE j \in DOMAIN f
      BY <1>2, <3>1, <3>2 DEF InOrder
    <3>3. CASE j = Len(f) + 1
      BY <1>1, <1>2, <2>1, <2>2, <3>1, <3>3 DEF InOrder
    <3> QED BY <1>5, <3>2, <3>3
  <2>6. \A i, j \in DOMAIN s : i < j => At(L, s[i]) < At(L, s[j])
    BY <1>1 DEF InOrder
  <2>7. \A i \in DOMAIN g, j \in DOMAIN s : At(L, g[i]) < At(L, s[j])
    <3> SUFFICES ASSUME NEW i \in DOMAIN g, NEW j \in DOMAIN s
                 PROVE  At(L, g[i]) < At(L, s[j])
      OBVIOUS
    <3>1. j + 1 \in DOMAIN r /\ s[j] = r[j + 1] /\ 1 < j + 1
      BY <1>1
    <3>2. At(L, r[1]) < At(L, r[j + 1])
      BY <1>1, <3>1 DEF InOrder
    <3> QED BY <1>1, <1>5, <3>1, <3>2 DEF InOrder
  <2> QED BY <2>3, <2>4, <2>5, <2>6, <2>7 DEF InOrder
<1>7. OneRepeat(L, g, s, n)
  BY <1>4 DEF OneRepeat
<1>8. ASSUME UpTo(L, f, n), UpTo(L, r, n) PROVE UpTo(L, g, n) /\ UpTo(L, s, n)
  BY <1>1, <1>5, <1>8 DEF UpTo
<1> QED BY <1>6, <1>7, <1>8 DEF g, s

\* Handling the next broadcast, once the replay is over.
LEMMA TakeBroadcast ==
    ASSUME NEW S, NEW L \in Seq(S), Injective(L), NEW f \in Seq(S),
           NEW n \in DOMAIN L, InOrder(L, f, <<>>), UpTo(L, f, n),
           OneRepeat(L, f, <<>>, n)
    PROVE  /\ InOrder(L, Append(f, L[n]), <<>>)
           /\ UpTo(L, Append(f, L[n]), n + 1)
           /\ OneRepeat(L, Append(f, L[n]), <<>>, n + 1)
<1> DEFINE g == Append(f, L[n])
<1>1. /\ Len(f) \in Nat /\ DOMAIN f = 1..Len(f) /\ DOMAIN g = 1..(Len(f) + 1)
      /\ \A i \in DOMAIN f : g[i] = f[i]
      /\ g[Len(f) + 1] = L[n] /\ L[n] \in S /\ n \in Nat
  BY AppendProperties
<1>2. At(L, L[n]) = n
  BY AtPlace
<1>3. /\ Repeats(g) \subseteq Repeats(f) \cup {Len(f) + 1}
      /\ Repeats(f) \subseteq Repeats(g)
      /\ (\A i \in DOMAIN f : f[i] # L[n]) => Repeats(g) = Repeats(f)
  BY <1>1, RepeatsAppend
<1> HIDE DEF g
<1>4. \A i \in DOMAIN g : (i \in DOMAIN f /\ g[i] = f[i]) \/ (i = Len(f) + 1 /\ g[i] = L[n])
  BY <1>1
<1>5. \A i \in DOMAIN f : InLog(L, f[i]) /\ At(L, f[i]) \in Nat /\ At(L, f[i]) <= n
  BY AtBound DEF InOrder, UpTo
<1>6. \A i \in DOMAIN g : At(L, g[i]) \in Nat /\ At(L, g[i]) <= n
  BY <1>1, <1>2, <1>4, <1>5
<1>7. InOrder(L, g, <<>>)
  <2>1. \A i \in DOMAIN g : InLog(L, g[i])
    BY <1>4, <1>5 DEF InLog
  <2>2. \A i, j \in DOMAIN g : i < j => At(L, g[i]) <= At(L, g[j])
    <3> SUFFICES ASSUME NEW i \in DOMAIN g, NEW j \in DOMAIN g, i < j
                 PROVE  At(L, g[i]) <= At(L, g[j])
      OBVIOUS
    <3>1. i \in DOMAIN f
      BY <1>1
    <3>2. CASE j \in DOMAIN f
      BY <1>1, <3>1, <3>2 DEF InOrder
    <3>3. CASE j = Len(f) + 1
      BY <1>1, <1>2, <1>5, <3>1, <3>3
    <3> QED BY <1>4, <3>2, <3>3
  <2> QED BY <2>1, <2>2 DEF InOrder
<1>8. UpTo(L, g, n + 1)
  BY <1>1, <1>6 DEF UpTo
<1>9. OneRepeat(L, g, <<>>, n + 1)
  <2>1. \A i \in DOMAIN g : At(L, g[i]) < n + 1
    BY <1>1, <1>6
  <2>2. CASE Repeats(f) = {}
    <3>1. Repeats(g) = {} \/ Repeats(g) = {Len(f) + 1}
      BY <1>3, <2>2
    <3> QED BY <1>1, <2>1, <3>1 DEF OneRepeat
  <2>3. CASE Repeats(f) # {}
    <3>1. (\A i \in DOMAIN f : At(L, f[i]) < n) /\ \E d \in Nat : Repeats(f) = {d}
      BY <2>3 DEF OneRepeat
    <3>2. \A i \in DOMAIN f : f[i] # L[n]
      BY <1>2, <1>1, <3>1
    <3> QED BY <1>3, <2>1, <3>1, <3>2 DEF OneRepeat
  <2> QED BY <2>2, <2>3
<1> QED BY <1>7, <1>8, <1>9 DEF g

-----------------------------------------------------------------------------
(***************************************************************************)
(* The log of the feed.                                                    *)
(***************************************************************************)
Once == INSTANCE OutboxTailerProofs

\* The tailer inside the feed is the tailer that was proved to publish once.
LEMMA SameTailer == Tailer!Spec => Once!Spec
<1>1. Tailer!Init => Once!Init
  BY DEF Tailer!Init, Once!Init
<1>2. [Tailer!Next]_(Tailer!vars) => [Once!Next]_(Once!vars)
  BY DEF Tailer!Next, Once!Next, Tailer!vars, Once!vars,
     Tailer!clock, Once!clock, Tailer!rows, Once!rows, Tailer!tailer, Once!tailer,
     Tailer!output, Once!output, Tailer!Stage, Once!Stage, Tailer!Commit,
     Once!Commit, Tailer!Rollback, Once!Rollback, Tailer!Tick, Once!Tick,
     Tailer!TailerStep, Once!TailerStep, Tailer!Poll, Once!Poll,
     Tailer!Busy, Once!Busy, Tailer!Kept, Once!Kept, Tailer!Fresh, Once!Fresh,
     Tailer!InWindow, Once!InWindow, Tailer!Precedes, Once!Precedes,
     Tailer!Remember, Once!Remember, Tailer!Broadcast, Once!Broadcast,
     Tailer!Restart, Once!Restart
<1> QED BY <1>1, <1>2, PTL DEF Tailer!Spec, Once!Spec

\* What is proved of the tailer alone holds inside the feed.
LEMMA OnceInFeed == Spec => []Once!OnceInv
<1>1. Once!Spec => []Once!OnceInv
  BY FeedAssumption, Once!OnceHolds
<1> QED BY <1>1, ImplementsTailer, SameTailer, PTL

\* The ring is the end of the log.
RingInv == EndOf(PublicationLog, ring)

OrderInv ==
    \A t \in Stream :
        StreamOrder(PublicationLog, Len(feed), phase[t], frames[t], replay[t], next[t])

LogInjective == Injective(PublicationLog)

FeedInv == RingInv /\ OrderInv

\* The log consists of events, each of them once.
LEMMA LogFacts ==
    ASSUME IInv
    PROVE  /\ PublicationLog \in Seq(Event) /\ feed \in Seq(Event)
           /\ Extends(feed, PublicationLog) /\ Len(PublicationLog) <= Len(feed) + 1
           /\ Once!OnceInv => Injective(PublicationLog)
<1> USE DEF IInv, Tailer!TypeOK
<1>1. CASE sending = 0
  BY <1>1 DEF PublicationLog, Extends, Injective, Once!OnceInv, Once!PublishedOnce
<1>2. CASE sending \in Event
  <2>1. PublicationLog = Append(feed, sending)
    BY <1>2, FeedAssumption DEF PublicationLog
  <2>2. /\ PublicationLog \in Seq(Event)
        /\ Len(feed) \in Nat /\ DOMAIN feed = 1..Len(feed)
        /\ Len(PublicationLog) = Len(feed) + 1
        /\ DOMAIN PublicationLog = 1..(Len(feed) + 1)
        /\ \A i \in DOMAIN feed : PublicationLog[i] = feed[i]
        /\ PublicationLog[Len(feed) + 1] = sending
    BY <1>2, <2>1, AppendProperties
  <2>3. Once!OnceInv => Injective(PublicationLog)
    <3> SUFFICES ASSUME Once!OnceInv PROVE Injective(PublicationLog)
      OBVIOUS
    <3>1. /\ \A i, j \in DOMAIN feed : feed[i] = feed[j] => i = j
          /\ \A i \in DOMAIN feed : feed[i] # sending
      BY DEF Once!OnceInv, Once!PublishedOnce, Once!DisjointInv
    <3>2. \A i \in DOMAIN PublicationLog : i \in DOMAIN feed \/ i = Len(feed) + 1
      BY <2>2
    <3> QED BY <2>2, <3>1, <3>2 DEF Injective
  <2> QED BY <2>2, <2>3 DEF Extends
<1> QED BY <1>1, <1>2

\* The log only grows while the replica lives.
LEMMA LogGrows ==
    ASSUME IInv, IInv', [Next]_vars, ~Restart
    PROVE  Extends(PublicationLog, PublicationLog') /\ Len(feed) <= Len(feed')
<1> USE DEF IInv, Tailer!TypeOK
<1>1. CASE sending' = sending /\ feed' = feed
  BY <1>1, LogFacts DEF PublicationLog, Extends
<1>2. CASE \E e \in Event : Remember(e)
  <2> PICK e \in Event : Remember(e)
    BY <1>2
  <2>1. sending = 0 /\ sending' = e /\ feed' = feed
    BY DEF Remember, Tailer!Remember, Tailer!output
  <2>2. PublicationLog = feed /\ PublicationLog' = Append(feed, e)
    BY <2>1, FeedAssumption DEF PublicationLog
  <2> QED BY <2>1, <2>2, AppendProperties DEF Extends
<1>3. CASE Tailer!Broadcast
  <2>1. sending # 0 /\ sending' = 0 /\ feed' = Append(feed, sending)
    BY <1>3 DEF Tailer!Broadcast
  <2>2. PublicationLog' = PublicationLog
    BY <2>1 DEF PublicationLog
  <2> QED BY <2>1, <2>2, LogFacts, AppendProperties DEF Extends
<1>4. CASE ~(\E e \in Event : Remember(e)) /\ ~Tailer!Broadcast
  BY <1>1, <1>4
     DEF Next, Upstream, TailerStep, Tailer!Tick, Tailer!Stage, Tailer!Commit,
         Tailer!Rollback, Tailer!Poll, Tailer!tailer, Tailer!output, StreamStep,
         ClientStep, upstream, vars
<1> QED BY <1>2, <1>3, <1>4

-----------------------------------------------------------------------------
(***************************************************************************)
(* The ring.                                                               *)
(***************************************************************************)

\* Publication keeps the ring the end of the log.
LEMMA RememberKeepsRing ==
    ASSUME IInv, RingInv, NEW e \in Event, Remember(e)
    PROVE  RingInv'
<1>1. /\ PublicationLog = feed /\ PublicationLog' = Append(feed, e)
      /\ ring' = Bounded(Append(ring, e))
  BY FeedAssumption DEF Remember, Tailer!Remember, Tailer!output, PublicationLog
<1>2. feed \in Seq(Event) /\ ring \in Seq(Event)
  BY DEF IInv, Tailer!TypeOK, StreamTypes
<1>3. EndOf(feed, ring)
  BY <1>1 DEF RingInv
<1>4. /\ EndOf(PublicationLog', Append(ring, e))
      /\ EndOf(PublicationLog', Tail(Append(ring, e)))
  BY <1>1, <1>2, <1>3, EndAppend
<1> QED BY <1>1, <1>4 DEF RingInv, Bounded

\* What a stream takes from the ring goes up the log.
LEMMA ReplayInOrder ==
    ASSUME IInv, RingInv, Injective(PublicationLog), NEW e
    PROVE  InOrder(PublicationLog, <<>>, ReplayAfter(e))
<1> DEFINE L == PublicationLog
           r == ReplayAfter(e)
<1>1. /\ L \in Seq(Event) /\ Len(L) \in Nat /\ DOMAIN L = 1..Len(L)
      /\ Len(ring) \in Nat /\ DOMAIN ring = 1..Len(ring) /\ Len(ring) <= Len(L)
      /\ ring \in Seq(Event)
  BY LogFacts DEF RingInv, EndOf, IInv, StreamTypes
<1>2. \E k \in Nat : \A i \in DOMAIN r :
          i \in Nat /\ k + i \in DOMAIN ring /\ r[i] = ring[k + i]
  <2>1. CASE \E i \in DOMAIN ring : ring[i] = e
    <3> DEFINE k == CHOOSE i \in DOMAIN ring : ring[i] = e
    <3>1. k \in DOMAIN ring /\ r = SubSeq(ring, k + 1, Len(ring))
      BY <2>1 DEF ReplayAfter
    <3> HIDE DEF k, r
    <3>2. k \in Nat /\ k <= Len(ring)
      BY <1>1, <3>1
    <3>3. /\ DOMAIN r = 1..(Len(ring) - k)
          /\ \A i \in 1..(Len(ring) - k) : r[i] = ring[k + i]
      BY <1>1, <3>1, <3>2, SubSeqProperties
    <3>4. \A i \in DOMAIN r : i \in Nat /\ k + i \in DOMAIN ring /\ r[i] = ring[k + i]
      BY <1>1, <3>2, <3>3
    <3> QED BY <3>2, <3>4
  <2>2. CASE ~\E i \in DOMAIN ring : ring[i] = e
    <3>1. r = ring
      BY <2>2 DEF ReplayAfter
    <3>2. \A i \in DOMAIN ring : i \in Nat /\ 0 + i = i
      BY <1>1
    <3> QED BY <3>1, <3>2
  <2> QED BY <2>1, <2>2
<1>3. PICK k \in Nat : \A i \in DOMAIN r :
          i \in Nat /\ k + i \in DOMAIN ring /\ r[i] = ring[k + i]
  BY <1>2
<1> DEFINE d == Len(L) - Len(ring) + k
<1>4. \A i \in DOMAIN r : i \in Nat /\ d + i \in DOMAIN L /\ r[i] = L[d + i]
  <2> SUFFICES ASSUME NEW i \in DOMAIN r
               PROVE  i \in Nat /\ d + i \in DOMAIN L /\ r[i] = L[d + i]
    OBVIOUS
  <2>1. i \in Nat /\ k + i \in 1..Len(ring) /\ r[i] = ring[k + i]
    BY <1>1, <1>3
  <2>2. ring[k + i] = L[Len(L) - Len(ring) + (k + i)]
    BY <1>1, <2>1 DEF RingInv, EndOf
  <2>3. Len(L) - Len(ring) + (k + i) = d + i /\ d + i \in 1..Len(L)
    BY <1>1, <2>1
  <2> QED BY <1>1, <2>1, <2>2, <2>3
<1>5. d \in Int
  BY <1>1
<1> HIDE DEF L, r, d
<1>6. Injective(L)
  BY DEF L
<1>7. \A i \in DOMAIN r : InLog(L, r[i]) /\ At(L, r[i]) = d + i
  BY <1>4, <1>6, AtPlace DEF InLog
<1>8. InOrder(L, <<>>, r)
  BY <1>4, <1>5, <1>7 DEF InOrder
<1> QED BY <1>8 DEF L, r

-----------------------------------------------------------------------------
(***************************************************************************)
(* The streams.                                                            *)
(***************************************************************************)

\* A stream that has handled nothing has repeated nothing.
LEMMA NothingRepeated ==
    ASSUME NEW L, NEW r, NEW n
    PROVE  OneRepeat(L, <<>>, r, n) /\ UpTo(L, <<>>, n)
<1>1. Repeats(<<>>) = {}
  BY DEF Repeats
<1> QED BY <1>1 DEF OneRepeat, UpTo

\* A stream that is not there is in order.
LEMMA ClosedInOrder ==
    ASSUME NEW L, NEW k, NEW n
    PROVE  StreamOrder(L, k, "none", <<>>, <<>>, n)
BY NothingRepeated DEF StreamOrder, InOrder

\* The tailer's steps and the writers' leave the streams in order.
LEMMA UpstreamOrder ==
    ASSUME IInv, IInv', [Next]_vars, Injective(PublicationLog'), OrderInv,
           ~Restart, UNCHANGED <<phase, frames, replay, next>>
    PROVE  OrderInv'
<1>1. /\ PublicationLog \in Seq(Event) /\ PublicationLog' \in Seq(Event)
      /\ Len(feed) \in Nat /\ Len(feed') \in Nat
  <2>1. sending' \in Event \cup {0} /\ feed' \in Seq(Event)
    BY DEF IInv, Tailer!TypeOK
  <2>2. PublicationLog' \in Seq(Event)
    BY <2>1, AppendProperties DEF PublicationLog
  <2> QED BY <2>1, <2>2, LogFacts
<1>2. Extends(PublicationLog, PublicationLog') /\ Len(feed) <= Len(feed')
  BY LogGrows
<1> SUFFICES ASSUME NEW t \in Stream
             PROVE  StreamOrder(PublicationLog', Len(feed'), phase[t], frames[t],
                                replay[t], next[t])
  BY DEF OrderInv
<1> DEFINE f == frames[t]
           r == replay[t]
           n == next[t]
<1>3. StreamOrder(PublicationLog, Len(feed), phase[t], f, r, n)
  BY DEF OrderInv
<1>4. n \in Nat
  BY DEF IInv, StreamTypes
<1> HIDE DEF f, r, n
<1>5. /\ InOrder(PublicationLog', f, r)
      /\ UpTo(PublicationLog, f, n) => UpTo(PublicationLog', f, n)
      /\ UpTo(PublicationLog, r, n) => UpTo(PublicationLog', r, n)
      /\ OneRepeat(PublicationLog, f, r, n) => OneRepeat(PublicationLog', f, r, n)
  BY <1>1, <1>2, <1>3, OrderGrows DEF StreamOrder
<1>6. StreamOrder(PublicationLog', Len(feed'), phase[t], f, r, n)
  BY <1>1, <1>2, <1>3, <1>4, <1>5 DEF StreamOrder
<1> QED BY <1>6 DEF f, r, n

\* The steps of a stream keep it in order.
LEMMA StreamStepOrder ==
    ASSUME IInv, FeedInv, Injective(PublicationLog), NEW t \in Stream, StreamStep(t)
    PROVE  StreamOrder(PublicationLog, Len(feed), phase'[t], frames'[t], replay'[t],
                       next'[t])
<1> DEFINE L == PublicationLog
           k == Len(feed)
<1>1. /\ L \in Seq(Event) /\ feed \in Seq(Event) /\ k \in Nat /\ DOMAIN feed = 1..k
      /\ Len(L) <= k + 1 /\ Len(L) \in Nat /\ DOMAIN L = 1..Len(L)
      /\ k <= Len(L) /\ \A i \in DOMAIN feed : L[i] = feed[i]
  BY LogFacts DEF Extends
<1>2. /\ frames[t] \in Seq(Event) /\ replay[t] \in Seq(Event) /\ next[t] \in Nat
      /\ phase \in [Stream -> Phases] /\ frames \in [Stream -> Seq(Event)]
      /\ replay \in [Stream -> Seq(Event)] /\ next \in [Stream -> Nat]
      /\ phase[t] \in {"subscribed", "live"} => next[t] >= 1
  BY DEF IInv, StreamTypes, StreamInv
<1>3. StreamOrder(L, k, phase[t], frames[t], replay[t], next[t])
  BY DEF FeedInv, OrderInv
<1>4. Injective(L)
  OBVIOUS
<1> SUFFICES StreamOrder(L, k, phase'[t], frames'[t], replay'[t], next'[t])
  OBVIOUS
<1>5. CASE Snapshot(t)
  <2> DEFINE r == ReplayAfter(last[owner[t]])
  <2>1. /\ phase'[t] = "snapshot" /\ phase[t] = "reserved" /\ replay'[t] = r
        /\ frames'[t] = frames[t] /\ next'[t] = next[t]
    BY <1>2, <1>5 DEF Snapshot
  <2>2. frames[t] = <<>>
    BY <1>3, <2>1 DEF StreamOrder
  <2>3. InOrder(L, <<>>, r)
    BY ReplayInOrder DEF FeedInv
  <2> HIDE DEF L, k, r
  <2> QED BY <2>1, <2>2, <2>3, NothingRepeated DEF StreamOrder
<1>6. CASE Subscribe(t)
  <2>1. /\ phase'[t] = "subscribed" /\ phase[t] = "snapshot" /\ next'[t] = k + 1
        /\ frames'[t] = frames[t] /\ replay'[t] = replay[t]
    BY <1>2, <1>6 DEF Subscribe
  <2> HIDE DEF L, k
  <2>2. frames[t] = <<>> /\ InOrder(L, <<>>, replay[t])
    BY <1>3, <2>1 DEF StreamOrder
  <2>3. UpTo(L, replay[t], k + 1)
    BY <1>1, <2>2, AtBound DEF UpTo, InOrder
  <2> QED BY <1>1, <2>1, <2>2, <2>3, NothingRepeated DEF StreamOrder
<1>7. CASE Spawn(t)
  <2>1. /\ phase'[t] = "live" /\ phase[t] = "subscribed" /\ next'[t] = next[t]
        /\ frames'[t] = frames[t] /\ replay'[t] = replay[t]
    BY <1>2, <1>7 DEF Spawn, forwarders
  <2> QED BY <1>3, <2>1 DEF StreamOrder
<1>8. CASE Cancel(t) \/ FailSend(t)
  <2>1. /\ phase'[t] = "none" /\ frames'[t] = <<>> /\ replay'[t] = <<>>
    BY <1>2, <1>8 DEF Cancel, FailSend, Close, Discard
  <2> QED BY <2>1, ClosedInOrder
<1>9. CASE Forward(t)
  <2>1. /\ phase[t] = "live" /\ phase'[t] = "live"
        /\ replay[t] # <<>> \/ next[t] <= k
        /\ frames'[t] = Append(frames[t], Upcoming(t))
    BY <1>2, <1>9 DEF Forward, HasNext, handlers
  <2>2. CASE replay[t] # <<>>
    <3>1. /\ replay'[t] = Tail(replay[t]) /\ next'[t] = next[t]
          /\ Upcoming(t) = Head(replay[t])
      BY <1>2, <1>9, <2>2 DEF Forward, Upcoming
    <3> HIDE DEF L, k
    <3> QED BY <1>1, <1>2, <1>3, <1>4, <2>1, <2>2, <3>1, TakeReplay DEF StreamOrder
  <2>3. CASE replay[t] = <<>>
    <3>1. next[t] \in DOMAIN feed
      BY <1>1, <1>2, <2>1, <2>3
    <3>2. /\ replay'[t] = <<>> /\ next'[t] = next[t] + 1
          /\ Upcoming(t) = L[next[t]] /\ next[t] \in DOMAIN L
      BY <1>1, <1>2, <1>9, <2>3, <3>1 DEF Forward, Upcoming
    <3> HIDE DEF L, k
    <3>3. /\ InOrder(L, frames[t], <<>>) /\ UpTo(L, frames[t], next[t])
          /\ OneRepeat(L, frames[t], <<>>, next[t])
      BY <1>3, <2>1, <2>3 DEF StreamOrder
    <3>4. /\ InOrder(L, frames'[t], <<>>) /\ UpTo(L, frames'[t], next'[t])
          /\ OneRepeat(L, frames'[t], <<>>, next'[t])
      BY <1>1, <1>2, <1>4, <2>1, <3>2, <3>3, TakeBroadcast
    <3>5. UpTo(L, <<>>, next'[t]) /\ next'[t] <= k + 1
      BY <1>1, <1>2, <2>1, <2>3, <3>2 DEF UpTo
    <3> QED BY <2>1, <3>2, <3>4, <3>5 DEF StreamOrder
  <2> QED BY <2>2, <2>3
<1>10. CASE Lag(t)
  <2>1. /\ phase'[t] = phase[t] /\ phase[t] = "live" /\ replay[t] = <<>>
        /\ next'[t] = k - Capacity + 1 /\ k - next[t] >= Capacity
        /\ frames'[t] = frames[t] /\ replay'[t] = replay[t]
    BY <1>2, <1>10 DEF Lag, Lagging, handlers
  <2>2. next'[t] \in Nat /\ next[t] <= next'[t] /\ next'[t] <= k + 1
    BY <1>1, <1>2, <2>1, FeedAssumption
  <2> HIDE DEF L, k
  <2>3. \A i \in DOMAIN frames[t] : At(L, frames[t][i]) \in Nat
    BY <1>1, <1>3, AtBound DEF StreamOrder, InOrder
  <2>4. UpTo(L, frames[t], next'[t]) /\ UpTo(L, <<>>, next'[t])
    BY <1>2, <1>3, <2>1, <2>2, <2>3 DEF StreamOrder, UpTo
  <2>5. OneRepeat(L, frames[t], <<>>, next'[t])
    BY <1>2, <1>3, <2>1, <2>2, <2>3 DEF StreamOrder, OneRepeat
  <2> QED BY <1>3, <2>1, <2>2, <2>4, <2>5 DEF StreamOrder
<1> QED BY <1>5, <1>6, <1>7, <1>8, <1>9, <1>10 DEF StreamStep

\* Every step keeps the ring and the streams in order.
LEMMA NextOrder ==
    ASSUME IInv, IInv', FeedInv, [Next]_vars, Injective(PublicationLog),
           Injective(PublicationLog')
    PROVE  FeedInv'
<1>1. CASE Restart
  <2>1. /\ ring' = <<>> /\ feed' = <<>> /\ sending' = 0
        /\ phase' = [t \in Stream |-> "none"]
        /\ replay' = [t \in Stream |-> <<>>]
        /\ frames' = [t \in Stream |-> <<>>]
    BY <1>1 DEF Restart, Tailer!Restart
  <2>2. RingInv'
    BY <2>1 DEF RingInv, EndOf, PublicationLog
  <2>3. OrderInv'
    BY <2>1, ClosedInOrder DEF OrderInv
  <2> QED BY <2>2, <2>3 DEF FeedInv
<1>2. CASE Upstream \/ TailerStep \/ UNCHANGED vars
  <2>1. UNCHANGED <<phase, frames, replay, next>>
    BY <1>2 DEF Upstream, TailerStep, Remember, vars, streams, forwarders, handlers
  <2>2. OrderInv'
    <3>1. CASE Restart
      BY <1>1, <3>1 DEF FeedInv
    <3>2. CASE ~Restart
      BY <2>1, <3>2, UpstreamOrder DEF FeedInv
    <3> QED BY <3>1, <3>2
  <2>3. RingInv'
    <3>1. CASE \E e \in Event : Remember(e)
      BY <3>1, RememberKeepsRing DEF FeedInv
    <3>2. CASE ~(\E e \in Event : Remember(e))
      <4>1. ring' = ring /\ PublicationLog' = PublicationLog
        <5>1. CASE Tailer!Broadcast
          <6>1. sending # 0 /\ sending' = 0 /\ feed' = Append(feed, sending)
            BY <5>1 DEF Tailer!Broadcast
          <6>2. PublicationLog' = PublicationLog
            BY <6>1 DEF PublicationLog
          <6>3. ring' = ring
            BY <1>2, <3>2, <5>1 DEF TailerStep, Upstream, vars
          <6> QED BY <6>2, <6>3
        <5>2. CASE ~Tailer!Broadcast
          <6>1. ring' = ring /\ sending' = sending /\ feed' = feed
            BY <1>2, <3>2, <5>2
               DEF Upstream, TailerStep, Tailer!Tick, Tailer!Stage, Tailer!Commit,
                   Tailer!Rollback, Tailer!Poll, Tailer!tailer, Tailer!output,
                   upstream, vars
          <6> QED BY <6>1 DEF PublicationLog
        <5> QED BY <5>1, <5>2
      <4> QED BY <4>1 DEF FeedInv, RingInv
    <3> QED BY <3>1, <3>2
  <2> QED BY <2>2, <2>3 DEF FeedInv
<1>3. ASSUME NEW t \in Stream, StreamStep(t)
      PROVE  FeedInv'
  <2>1. ring' = ring /\ feed' = feed /\ PublicationLog' = PublicationLog
    BY <1>3 DEF StreamStep, upstream, PublicationLog
  <2>2. \A s \in Stream \ {t} :
            /\ phase'[s] = phase[s] /\ frames'[s] = frames[s]
            /\ replay'[s] = replay[s] /\ next'[s] = next[s]
    BY <1>3 DEF IInv, StreamTypes, StreamStep, Snapshot, Subscribe, Spawn, Cancel,
       Forward, FailSend, Lag, Close, Discard, forwarders, handlers
  <2>3. StreamOrder(PublicationLog, Len(feed), phase'[t], frames'[t], replay'[t],
                    next'[t])
    BY <1>3, StreamStepOrder
  <2>4. OrderInv'
    BY <2>1, <2>2, <2>3 DEF FeedInv, OrderInv
  <2> QED BY <2>1, <2>4 DEF FeedInv, RingInv
<1>4. ASSUME NEW c \in Client, ClientStep(c)
      PROVE  FeedInv'
  <2>1. /\ ring' = ring /\ feed' = feed /\ PublicationLog' = PublicationLog
        /\ UNCHANGED <<frames, replay, next>>
    BY <1>4 DEF ClientStep, Leave, Reserve, upstream, PublicationLog, forwarders
  <2>2. \A t \in Stream : \/ phase'[t] = phase[t]
                          \/ phase'[t] = "reserved" /\ phase[t] = "none"
    <3>1. CASE Leave(c)
      BY <3>1 DEF Leave, handlers
    <3>2. ASSUME NEW t \in Stream, Reserve(t, c)
          PROVE  phase[t] = "none" /\ phase' = [phase EXCEPT ![t] = "reserved"]
      BY <3>2 DEF Reserve
    <3> QED BY <1>4, <3>1, <3>2 DEF IInv, StreamTypes, ClientStep
  <2>3. OrderInv'
    BY <2>1, <2>2 DEF FeedInv, OrderInv, StreamOrder
  <2> QED BY <2>1, <2>3 DEF FeedInv, RingInv
<1> QED BY <1>1, <1>2, <1>3, <1>4 DEF Next

-----------------------------------------------------------------------------
\* A stream that is in order handles at most one event twice.
LEMMA OrderedFrames == IInv /\ OrderInv => FramesInOrder
<1> SUFFICES ASSUME IInv, OrderInv, NEW t \in Stream
             PROVE  /\ \A i, j \in DOMAIN frames[t] : i < j =>
                           Place(frames[t][i]) <= Place(frames[t][j])
                    /\ Cardinality(Repeats(frames[t])) <= 1
  BY DEF FramesInOrder, Repeats
<1>1. /\ InOrder(PublicationLog, frames[t], replay[t])
      /\ OneRepeat(PublicationLog, frames[t], replay[t], next[t])
  BY DEF OrderInv, StreamOrder
<1>2. \A i, j \in DOMAIN frames[t] : i < j =>
          Place(frames[t][i]) <= Place(frames[t][j])
  BY <1>1 DEF InOrder, At, Place
<1>3. Cardinality(Repeats(frames[t])) <= 1
  <2>1. Repeats(frames[t]) = {} \/ \E d \in Nat : Repeats(frames[t]) = {d}
    BY <1>1 DEF OneRepeat
  <2> QED BY <2>1, FS_EmptySet, FS_Singleton
<1> QED BY <1>2, <1>3

\* The invariant holds from the start.
LEMMA FeedInvHolds == Spec => []FeedInv
<1>1. Init => FeedInv
  <2> SUFFICES ASSUME Init PROVE FeedInv
    OBVIOUS
  <2>1. RingInv
    BY DEF Init, Tailer!Init, RingInv, EndOf, PublicationLog
  <2>2. OrderInv
    BY ClosedInOrder DEF Init, OrderInv
  <2> QED BY <2>1, <2>2 DEF FeedInv
<1>2. IInv /\ Once!OnceInv => LogInjective
  BY LogFacts DEF LogInjective
<1>3. /\ IInv /\ IInv' /\ FeedInv /\ [Next]_vars /\ LogInjective /\ LogInjective'
      => FeedInv'
  BY NextOrder DEF LogInjective
<1> QED BY <1>1, <1>2, <1>3, Invariance, OnceInFeed, PTL DEF Spec

\* Replay and broadcast together reach a stream in the order of publication,
\* and at most one event reaches it twice, whatever lags, restarts and
\* reconnects there are.
THEOREM FramesInOrderHolds == Spec => []FramesInOrder
BY OrderedFrames, Invariance, FeedInvHolds, PTL DEF FeedInv

-----------------------------------------------------------------------------
(***************************************************************************)
(* The watermarks.  A client that has an event of this life is in the log, *)
(* and what the stream it listens to has left lies after it.               *)
(***************************************************************************)
Resumes(L, m, p, r, n) ==
    /\ p \in {"snapshot", "subscribed", "live"} =>
           \A i \in DOMAIN r : At(L, m) < At(L, r[i])
    /\ p \in {"subscribed", "live"} => At(L, m) <= n

ClientResumes(c) ==
    /\ InLog(PublicationLog, last[c])
    /\ \A t \in Stream : owner[t] = c /\ listening[c] = t =>
           Resumes(PublicationLog, last[c], phase[t], replay[t], next[t])

MarkInv == \A c \in heard : ClientResumes(c)

\* The log is one of events, before and after a step.
LEMMA LogTypes ==
    ASSUME IInv, IInv'
    PROVE  PublicationLog \in Seq(Event) /\ PublicationLog' \in Seq(Event)
<1>1. sending' \in Event \cup {0} /\ feed' \in Seq(Event)
  BY DEF IInv, Tailer!TypeOK
<1>2. PublicationLog' \in Seq(Event)
  BY <1>1, AppendProperties DEF PublicationLog
<1> QED BY <1>2, LogFacts

\* What is replayed to a client with a watermark in the log lies after it,
\* whether or not the ring still has it.
LEMMA ReplayAbove ==
    ASSUME IInv, RingInv, Injective(PublicationLog), NEW e, InLog(PublicationLog, e)
    PROVE  \A i \in DOMAIN ReplayAfter(e) :
               At(PublicationLog, e) < At(PublicationLog, ReplayAfter(e)[i])
<1> DEFINE L == PublicationLog
           r == ReplayAfter(e)
           d == Len(L) - Len(ring)
<1>1. /\ L \in Seq(Event) /\ Len(L) \in Nat /\ DOMAIN L = 1..Len(L)
      /\ Len(ring) \in Nat /\ DOMAIN ring = 1..Len(ring) /\ Len(ring) <= Len(L)
      /\ \A i \in DOMAIN ring : ring[i] = L[d + i]
      /\ ring \in Seq(Event)
  BY LogFacts DEF RingInv, EndOf, IInv, StreamTypes
<1>2. Injective(L) /\ d \in Nat /\ PublicationLog = L
  BY <1>1
<1> HIDE DEF L
<1>3. \A i \in DOMAIN ring : d + i \in DOMAIN L /\ At(L, ring[i]) = d + i
  <2> SUFFICES ASSUME NEW i \in DOMAIN ring
               PROVE  d + i \in DOMAIN L /\ At(L, ring[i]) = d + i
    OBVIOUS
  <2>1. d + i \in DOMAIN L
    BY <1>1
  <2> QED BY <1>1, <1>2, <2>1, AtPlace
<1> HIDE DEF d
<1>4. PICK p \in DOMAIN L : L[p] = e
  BY <1>2 DEF InLog
<1>5. At(L, e) = p /\ p \in Nat
  BY <1>1, <1>2, <1>4, AtPlace
<1>6. CASE \E i \in DOMAIN ring : ring[i] = e
  <2> DEFINE k == CHOOSE i \in DOMAIN ring : ring[i] = e
  <2>1. k \in DOMAIN ring /\ ring[k] = e /\ r = SubSeq(ring, k + 1, Len(ring))
    BY <1>6 DEF ReplayAfter
  <2> HIDE DEF k, r
  <2>2. p = d + k
    BY <1>3, <1>5, <2>1
  <2>3. k \in Nat /\ k <= Len(ring)
    BY <1>1, <2>1
  <2>4. /\ DOMAIN r = 1..(Len(ring) - k)
        /\ \A i \in 1..(Len(ring) - k) : r[i] = ring[k + i]
    BY <1>1, <2>1, <2>3, SubSeqProperties
  <2>5. ASSUME NEW i \in DOMAIN r
        PROVE  At(L, e) < At(L, r[i])
    <3>1. i \in Nat /\ i > 0 /\ k + i \in DOMAIN ring /\ r[i] = ring[k + i]
      BY <1>1, <2>3, <2>4
    <3>2. At(L, r[i]) = d + (k + i)
      BY <1>3, <3>1
    <3> QED BY <1>2, <1>5, <2>2, <2>3, <3>1, <3>2
  <2> QED BY <1>2, <2>5 DEF r
<1>7. CASE ~\E i \in DOMAIN ring : ring[i] = e
  <2>1. r = ring
    BY <1>7 DEF ReplayAfter
  <2>2. p <= d
    <3> SUFFICES ASSUME ~(p <= d) PROVE FALSE
      OBVIOUS
    <3>1. p - d \in DOMAIN ring /\ d + (p - d) = p
      BY <1>1, <1>2, <1>4, <1>5 DEF d
    <3>2. ring[p - d] = L[d + (p - d)]
      BY <1>1, <3>1
    <3> QED BY <1>4, <1>7, <3>1, <3>2
  <2>3. \A i \in DOMAIN ring : p < d + i
    BY <1>1, <1>2, <1>5, <2>2
  <2> QED BY <1>2, <1>3, <1>5, <2>1, <2>3
<1> QED BY <1>6, <1>7

\* A client resumes from the same place when the log grows under it.
LEMMA ResumesAfterGrowth ==
    ASSUME IInv, IInv', OrderInv, MarkInv, Injective(PublicationLog'), [Next]_vars,
           ~Restart, UNCHANGED <<last, heard, owner, listening, phase, replay, next>>
    PROVE  MarkInv'
<1>1. /\ PublicationLog \in Seq(Event) /\ PublicationLog' \in Seq(Event)
      /\ Extends(PublicationLog, PublicationLog')
  BY LogTypes, LogGrows
<1> SUFFICES ASSUME NEW c \in heard
             PROVE  /\ InLog(PublicationLog', last[c])
                    /\ \A t \in Stream : owner[t] = c /\ listening[c] = t =>
                           Resumes(PublicationLog', last[c], phase[t], replay[t], next[t])
  BY DEF MarkInv, ClientResumes
<1>2. InLog(PublicationLog, last[c])
  BY DEF MarkInv, ClientResumes
<1>3. /\ InLog(PublicationLog', last[c])
      /\ At(PublicationLog', last[c]) = At(PublicationLog, last[c])
  BY <1>1, <1>2, AtGrows
<1>4. ASSUME NEW t \in Stream, owner[t] = c, listening[c] = t
      PROVE  Resumes(PublicationLog', last[c], phase[t], replay[t], next[t])
  <2>1. Resumes(PublicationLog, last[c], phase[t], replay[t], next[t])
    BY <1>4 DEF MarkInv, ClientResumes
  <2>2. \A i \in DOMAIN replay[t] : InLog(PublicationLog, replay[t][i])
    BY DEF OrderInv, StreamOrder, InOrder
  <2>3. \A i \in DOMAIN replay[t] :
            At(PublicationLog', replay[t][i]) = At(PublicationLog, replay[t][i])
    BY <1>1, <2>2, AtGrows
  <2> QED BY <1>3, <2>1, <2>3 DEF Resumes
<1> QED BY <1>3, <1>4

\* A step of the stream that a client listens to leaves the client where its
\* last event was, and what is left of the stream after that.
LEMMA OwnStepResumes ==
    ASSUME IInv, FeedInv, MarkInv, Injective(PublicationLog), NEW t \in Stream,
           StreamStep(t), NEW c \in heard', owner[t] = c, listening[c] = t
    PROVE  /\ InLog(PublicationLog, last'[c])
           /\ Resumes(PublicationLog, last'[c], phase'[t], replay'[t], next'[t])
<1> DEFINE L == PublicationLog
           r == replay[t]
           n == next[t]
           k == Len(feed)
<1>1. /\ L \in Seq(Event) /\ feed \in Seq(Event) /\ k \in Nat /\ DOMAIN feed = 1..k
      /\ Len(L) <= k + 1 /\ Len(L) \in Nat /\ DOMAIN L = 1..Len(L)
      /\ k <= Len(L) /\ \A i \in DOMAIN feed : L[i] = feed[i]
  BY LogFacts DEF Extends
<1>2. /\ r \in Seq(Event) /\ n \in Nat /\ phase \in [Stream -> Phases]
      /\ replay \in [Stream -> Seq(Event)] /\ next \in [Stream -> Nat]
      /\ last \in [Client -> Event \cup {0}] /\ heard \in SUBSET Client
      /\ owner \in [Stream -> Client \cup {"none"}]
      /\ phase[t] \in {"subscribed", "live"} => n >= 1
  BY DEF IInv, StreamTypes, StreamInv
<1>3. StreamOrder(L, k, phase[t], frames[t], r, n)
  BY DEF FeedInv, OrderInv
<1>4. Injective(L) /\ PublicationLog = L
  OBVIOUS
<1>5. c \in heard => InLog(L, last[c]) /\ Resumes(L, last[c], phase[t], r, n)
  BY DEF MarkInv, ClientResumes
<1>6. CASE Snapshot(t) \/ Subscribe(t) \/ Spawn(t) \/ Lag(t)
  <2>1. c \in heard /\ last' = last
    BY <1>6 DEF Snapshot, Subscribe, Spawn, Lag, clients
  <2>2. At(L, last[c]) \in Nat /\ At(L, last[c]) <= Len(L)
    BY <1>1, <1>5, <2>1, AtBound
  <2>3. CASE Snapshot(t)
    <3>1. phase'[t] = "snapshot" /\ replay'[t] = ReplayAfter(last[c])
      BY <1>2, <2>3 DEF Snapshot
    <3>2. \A i \in DOMAIN ReplayAfter(last[c]) :
              At(L, last[c]) < At(L, ReplayAfter(last[c])[i])
      BY <1>5, <2>1, ReplayAbove DEF FeedInv
    <3> QED BY <1>5, <2>1, <3>1, <3>2 DEF Resumes
  <2>4. CASE Subscribe(t)
    <3>1. /\ phase[t] = "snapshot" /\ phase'[t] = "subscribed"
          /\ replay'[t] = r /\ next'[t] = k + 1
      BY <1>2, <2>4 DEF Subscribe
    <3> HIDE DEF L, k, r, n
    <3> QED BY <1>1, <1>4, <1>5, <2>1, <2>2, <3>1 DEF Resumes
  <2>5. CASE Spawn(t)
    <3>1. /\ phase[t] = "subscribed" /\ phase'[t] = "live"
          /\ replay'[t] = r /\ next'[t] = n
      BY <1>2, <2>5 DEF Spawn, forwarders
    <3> HIDE DEF L, k, r, n
    <3> QED BY <1>4, <1>5, <2>1, <3>1 DEF Resumes
  <2>6. CASE Lag(t)
    <3>1. /\ phase[t] = "live" /\ phase'[t] = phase[t] /\ replay'[t] = r
          /\ next'[t] = k - Capacity + 1 /\ k - n >= Capacity
      BY <1>2, <2>6 DEF Lag, Lagging, handlers
    <3>2. next'[t] \in Nat /\ n <= next'[t]
      BY <1>1, <1>2, <3>1, FeedAssumption
    <3> HIDE DEF L, k, r, n
    <3> QED BY <1>2, <1>4, <1>5, <2>1, <2>2, <3>1, <3>2 DEF Resumes
  <2> QED BY <1>6, <2>3, <2>4, <2>5, <2>6
<1>7. CASE Cancel(t) \/ FailSend(t)
  <2>1. ~Listening(t)
    BY <1>7 DEF Cancel, FailSend
  <2>2. UNCHANGED heard
    BY <1>7 DEF Cancel, FailSend, Close, Discard, clients
  <2>3. c \in Client /\ c # "none"
    BY <1>2, <2>2, FeedAssumption
  <2> QED BY <2>1, <2>3 DEF Listening
<1>8. CASE Forward(t)
  <2> DEFINE e == Upcoming(t)
  <2>1. /\ phase[t] = "live" /\ phase'[t] = "live"
        /\ r # <<>> \/ n <= k
    BY <1>8 DEF Forward, HasNext, handlers
  <2>2. /\ e \in Permitted => last'[c] = e
        /\ e \notin Permitted => last'[c] = last[c] /\ c \in heard
    BY <1>2, <1>8 DEF Forward, Listening
  <2> HIDE DEF e
  <2>3. CASE r # <<>>
    <3>1. /\ replay'[t] = Tail(r) /\ next'[t] = n /\ e = Head(r)
      BY <1>2, <1>8, <2>3 DEF Forward, Upcoming, e
    <3> DEFINE s == Tail(r)
    <3>2. /\ Head(r) = r[1] /\ 1 \in DOMAIN r /\ DOMAIN r \subseteq Nat
          /\ \A i \in DOMAIN s : s[i] = r[i + 1] /\ i + 1 \in DOMAIN r /\ 1 < i + 1
      BY <1>2, <2>3, HeadTailProperties, EmptySeq
    <3> HIDE DEF L, k, r, n, s
    <3>3. /\ InLog(L, e) /\ At(L, e) <= n
          /\ \A i \in DOMAIN s : At(L, e) < At(L, s[i])
      <4>1. InOrder(L, frames[t], r) /\ UpTo(L, r, n)
        BY <1>3, <2>1 DEF StreamOrder
      <4>2. e = r[1] /\ 1 \in DOMAIN r
        BY <3>1, <3>2
      <4>3. InLog(L, e) /\ At(L, e) <= n
        BY <4>1, <4>2 DEF InOrder, UpTo
      <4>4. \A i, j \in DOMAIN r : i < j => At(L, r[i]) < At(L, r[j])
        BY <4>1 DEF InOrder
      <4>5. \A i \in DOMAIN s : At(L, r[1]) < At(L, r[i + 1])
        BY <3>2, <4>4
      <4> QED BY <3>2, <4>2, <4>3, <4>5
    <3>4. CASE e \in Permitted
      BY <1>4, <2>1, <2>2, <3>1, <3>3, <3>4 DEF Resumes, s
    <3>5. CASE e \notin Permitted
      <4>1. /\ InLog(L, last[c]) /\ At(L, last[c]) <= n
            /\ \A i \in DOMAIN r : At(L, last[c]) < At(L, r[i])
        BY <1>5, <2>1, <2>2, <3>5 DEF Resumes
      <4>2. last'[c] = last[c] /\ replay'[t] = s
        BY <2>2, <3>1, <3>5 DEF s
      <4>3. \A i \in DOMAIN s : At(L, last[c]) < At(L, s[i])
        BY <3>2, <4>1
      <4> QED BY <1>4, <2>1, <3>1, <4>1, <4>2, <4>3 DEF Resumes
    <3> QED BY <3>4, <3>5
  <2>4. CASE r = <<>>
    <3>1. n \in DOMAIN feed
      <4>1. n >= 1 /\ n <= k
        BY <1>2, <2>1, <2>4
      <4> HIDE DEF n, k
      <4> QED BY <1>1, <1>2, <4>1
    <3>2. replay'[t] = <<>> /\ next'[t] = n + 1 /\ e = L[n] /\ n \in DOMAIN L
      BY <1>1, <1>2, <1>8, <2>4, <3>1 DEF Forward, Upcoming, e
    <3>3. InLog(L, e) /\ At(L, e) = n
      BY <1>4, <3>2, AtPlace DEF InLog
    <3> HIDE DEF L, k, r, n
    <3>4. CASE e \in Permitted
      BY <1>2, <1>4, <2>2, <3>2, <3>3, <3>4 DEF Resumes
    <3>5. CASE e \notin Permitted
      <4>1. At(L, last[c]) \in Nat
        BY <1>1, <1>5, <2>2, <3>5, AtBound
      <4>2. InLog(L, last[c]) /\ At(L, last[c]) <= n
        BY <1>5, <2>1, <2>2, <3>5 DEF Resumes
      <4>3. At(L, last[c]) <= n + 1
        BY <1>2, <4>1, <4>2
      <4> QED BY <1>4, <2>2, <3>2, <3>5, <4>2, <4>3 DEF Resumes
    <3> QED BY <3>4, <3>5
  <2> QED BY <2>3, <2>4
<1> QED BY <1>6, <1>7, <1>8 DEF StreamStep

\* A step of a stream touches no other, and no client but the one it serves.
LEMMA StreamStepIsLocal ==
    ASSUME IInv, NEW t \in Stream, StreamStep(t)
    PROVE  /\ UNCHANGED <<listening, sending, feed>>
           /\ owner'[t] \in {owner[t], "none"}
           /\ \A s \in Stream \ {t} :
                  /\ owner'[s] = owner[s] /\ phase'[s] = phase[s]
                  /\ replay'[s] = replay[s] /\ next'[s] = next[s]
           /\ \A c \in Client : ~(owner[t] = c /\ listening[c] = t) =>
                  last'[c] = last[c] /\ (c \in heard' => c \in heard)
<1> USE DEF IInv, StreamTypes
<1>1. UNCHANGED <<sending, feed>>
  BY DEF StreamStep, upstream
<1>2. CASE Forward(t)
  <2>1. UNCHANGED <<owner, phase, listening>>
    BY <1>2 DEF Forward, handlers
  <2>2. \A s \in Stream \ {t} : replay'[s] = replay[s] /\ next'[s] = next[s]
    BY <1>2 DEF Forward
  <2>3. ASSUME NEW c \in Client, ~(owner[t] = c /\ listening[c] = t)
        PROVE  last'[c] = last[c] /\ (c \in heard' => c \in heard)
    <3>1. CASE Upcoming(t) \in Permitted
      <4>1. /\ owner[t] # c /\ heard' = heard \cup {owner[t]}
            /\ last' = [last EXCEPT ![owner[t]] = Upcoming(t)]
        BY <1>2, <2>3, <3>1 DEF Forward, Listening
      <4> QED BY <4>1
    <3>2. CASE Upcoming(t) \notin Permitted
      BY <1>2, <3>2 DEF Forward
    <3> QED BY <3>1, <3>2
  <2> QED BY <1>1, <2>1, <2>2, <2>3
<1>3. CASE Cancel(t) \/ FailSend(t)
  BY <1>1, <1>3 DEF Cancel, FailSend, Close, Discard, clients
<1>4. CASE Snapshot(t) \/ Subscribe(t) \/ Spawn(t) \/ Lag(t)
  BY <1>1, <1>4 DEF Snapshot, Subscribe, Spawn, Lag, clients, forwarders, handlers
<1> QED BY <1>2, <1>3, <1>4 DEF StreamStep

\* Every step leaves every client where it resumes.
LEMMA NextMarks ==
    ASSUME IInv, IInv', FeedInv, MarkInv, [Next]_vars, Injective(PublicationLog),
           Injective(PublicationLog')
    PROVE  MarkInv'
<1>1. CASE Restart
  BY <1>1 DEF Restart, MarkInv
<1>2. CASE (Upstream \/ TailerStep \/ UNCHANGED vars) /\ ~Restart
  <2>1. UNCHANGED <<last, heard, owner, listening, phase, replay, next>>
    BY <1>2 DEF Upstream, TailerStep, Remember, vars, streams, clients, forwarders,
       handlers
  <2> QED BY <1>2, <2>1, ResumesAfterGrowth DEF FeedInv
<1>3. ASSUME NEW t \in Stream, StreamStep(t)
      PROVE  MarkInv'
  <2>1. /\ UNCHANGED listening /\ PublicationLog' = PublicationLog
        /\ owner'[t] \in {owner[t], "none"}
        /\ \A s \in Stream \ {t} :
               /\ owner'[s] = owner[s] /\ phase'[s] = phase[s]
               /\ replay'[s] = replay[s] /\ next'[s] = next[s]
        /\ \A c \in Client : ~(owner[t] = c /\ listening[c] = t) =>
               last'[c] = last[c] /\ (c \in heard' => c \in heard)
    BY <1>3, StreamStepIsLocal DEF PublicationLog
  <2> SUFFICES ASSUME NEW c \in heard'
               PROVE  /\ InLog(PublicationLog, last'[c])
                      /\ \A s \in Stream : owner'[s] = c /\ listening[c] = s =>
                             Resumes(PublicationLog, last'[c], phase'[s], replay'[s],
                                     next'[s])
    BY <2>1 DEF MarkInv, ClientResumes
  <2>2. c \in Client /\ c # "none"
    BY FeedAssumption DEF IInv, StreamTypes
  <2>3. CASE owner[t] = c /\ listening[c] = t
    <3>1. /\ InLog(PublicationLog, last'[c])
          /\ Resumes(PublicationLog, last'[c], phase'[t], replay'[t], next'[t])
      BY <1>3, <2>3, OwnStepResumes
    <3> QED BY <2>3, <3>1
  <2>4. CASE ~(owner[t] = c /\ listening[c] = t)
    <3>1. last'[c] = last[c] /\ c \in heard
      BY <2>1, <2>2, <2>4
    <3>2. ClientResumes(c)
      BY <3>1 DEF MarkInv
    <3>3. ASSUME NEW s \in Stream, owner'[s] = c, listening[c] = s
          PROVE  Resumes(PublicationLog, last'[c], phase'[s], replay'[s], next'[s])
      <4>1. s # t
        BY <2>1, <2>2, <2>4, <3>3
      <4>2. /\ owner[s] = c /\ phase'[s] = phase[s] /\ replay'[s] = replay[s]
            /\ next'[s] = next[s]
        BY <2>1, <3>3, <4>1
      <4> QED BY <3>1, <3>2, <3>3, <4>2 DEF ClientResumes
    <3> QED BY <3>1, <3>2, <3>3 DEF ClientResumes
  <2> QED BY <2>3, <2>4
<1>4. ASSUME NEW c \in Client, ClientStep(c)
      PROVE  MarkInv'
  <2>1. UNCHANGED <<last, heard, replay, next>> /\ PublicationLog' = PublicationLog
    BY <1>4 DEF ClientStep, Leave, Reserve, upstream, PublicationLog, forwarders
  <2> SUFFICES ASSUME NEW d \in heard
               PROVE  /\ InLog(PublicationLog, last[d])
                      /\ \A s \in Stream : owner'[s] = d /\ listening'[d] = s =>
                             Resumes(PublicationLog, last[d], phase'[s], replay[s],
                                     next[s])
    BY <2>1 DEF MarkInv, ClientResumes
  <2>2. ClientResumes(d) /\ d \in Client
    BY DEF MarkInv, IInv, StreamTypes
  <2>3. ASSUME NEW s \in Stream, owner'[s] = d, listening'[d] = s
        PROVE  Resumes(PublicationLog, last[d], phase'[s], replay[s], next[s])
    <3>1. CASE Leave(c)
      <4>1. /\ listening' = [listening EXCEPT ![c] = "none"]
            /\ UNCHANGED <<phase, owner>> /\ s # "none"
        BY <3>1, FeedAssumption DEF Leave, handlers
      <4>2. listening[d] = s
        BY <2>2, <2>3, <4>1 DEF IInv, StreamTypes
      <4> QED BY <2>2, <2>3, <4>1, <4>2 DEF ClientResumes
    <3>2. ASSUME NEW t \in Stream, Reserve(t, c)
          PROVE  Resumes(PublicationLog, last[d], phase'[s], replay[s], next[s])
      <4>1. /\ listening' = [listening EXCEPT ![c] = t]
            /\ phase' = [phase EXCEPT ![t] = "reserved"]
            /\ owner' = [owner EXCEPT ![t] = c]
        BY <3>2 DEF Reserve
      <4>2. CASE s = t
        BY <4>1, <4>2 DEF Resumes, IInv, StreamTypes
      <4>3. CASE s # t
        <5>1. phase'[s] = phase[s] /\ owner[s] = d /\ listening[d] = s
          BY <2>2, <2>3, <4>1, <4>3 DEF IInv, StreamTypes
        <5> QED BY <2>2, <5>1 DEF ClientResumes
      <4> QED BY <4>2, <4>3
    <3> QED BY <1>4, <3>1, <3>2 DEF ClientStep
  <2> QED BY <2>2, <2>3 DEF ClientResumes
<1> QED BY <1>1, <1>2, <1>3, <1>4 DEF Next

\* The watermarks are in the log, always.
LEMMA MarkInvHolds == Spec => []MarkInv
<1>1. Init => MarkInv
  BY DEF Init, MarkInv
<1>2. IInv /\ Once!OnceInv => LogInjective
  BY LogFacts DEF LogInjective
<1>3. /\ IInv /\ IInv' /\ FeedInv /\ MarkInv /\ [Next]_vars
      /\ LogInjective /\ LogInjective'
      => MarkInv'
  BY NextMarks DEF LogInjective
<1> QED BY <1>1, <1>2, <1>3, Invariance, OnceInFeed, FeedInvHolds, PTL DEF Spec

-----------------------------------------------------------------------------
(***************************************************************************)
(* The streams implement readers of one log.                               *)
(***************************************************************************)
reading == <<PublicationLog, frames, Watermark>>

\* A sequence that goes up the log ends where or before its next event is; it
\* ends there only if that event repeats.
LEMMA Upwards ==
    ASSUME NEW S, NEW L \in Seq(S), Injective(L), NEW f \in Seq(S), f # <<>>,
           NEW p \in DOMAIN L, NEW r, NEW n,
           InOrder(L, Append(f, L[p]), r), OneRepeat(L, Append(f, L[p]), r, n)
    PROVE  \E q \in DOMAIN L :
               /\ L[q] = f[Len(f)]
               /\ q < p \/ (q = p /\ Repeats(f) = {})
<1> DEFINE g == Append(f, L[p])
           k == Len(f)
           q == At(L, f[k])
<1>1. /\ L[p] \in S /\ k \in Nat /\ k > 0 /\ k \in DOMAIN f
      /\ Len(g) = k + 1 /\ DOMAIN g = 1..(k + 1) /\ g[k + 1] = L[p]
      /\ g[k] = f[k]
      /\ DOMAIN L \subseteq Int
  BY EmptySeq, AppendProperties
<1>2. Repeats(f) \subseteq Repeats(g)
  BY <1>1, RepeatsAppend
<1>3. \A i \in Repeats(f) : i <= k
  BY <1>1 DEF Repeats
<1> HIDE DEF g, k
<1>4. q \in DOMAIN L /\ L[q] = f[k]
  BY <1>1 DEF InOrder, InLog, At, g
<1>5. q <= p
  <2>1. At(L, g[k]) <= At(L, g[k + 1])
    <3>1. k \in DOMAIN g /\ k + 1 \in DOMAIN g /\ k < k + 1
      BY <1>1
    <3> QED BY <3>1 DEF InOrder, g
  <2> QED BY <1>1, <2>1, AtPlace
<1>6. ASSUME q = p
      PROVE  Repeats(f) = {}
  <2>1. g[k + 1] = g[(k + 1) - 1] /\ k + 1 \in 2..Len(g)
    BY <1>1, <1>4, <1>6
  <2>2. k + 1 \in Repeats(g)
    BY <2>1 DEF Repeats
  <2>3. PICK d \in Nat : Repeats(g) = {d}
    BY <2>2 DEF OneRepeat, g
  <2>4. \A i \in Repeats(f) : i = k + 1
    BY <1>2, <2>2, <2>3
  <2> QED BY <1>1, <1>3, <2>4
<1>7. q < p \/ (q = p /\ Repeats(f) = {})
  BY <1>1, <1>4, <1>5, <1>6
<1> QED BY <1>4, <1>7 DEF k

\* A client's watermark is the place of its last event, before and after a step.
LEMMA WatermarkIs ==
    ASSUME Injective(PublicationLog), NEW c \in Client, c \in heard,
           NEW p \in DOMAIN PublicationLog, PublicationLog[p] = last[c]
    PROVE  Watermark[c] = p
BY DEF Watermark, Place, Injective

LEMMA WatermarkBecomes ==
    ASSUME Injective(PublicationLog'), NEW c \in Client, c \in heard',
           NEW p \in DOMAIN PublicationLog', PublicationLog'[p] = last'[c]
    PROVE  Watermark'[c] = p
BY DEF Watermark, Place, Injective

\* A client that has an event of this life and takes no step keeps its watermark.
LEMMA WatermarkStays ==
    ASSUME IInv, IInv', MarkInv, Injective(PublicationLog'),
           Extends(PublicationLog, PublicationLog'),
           NEW c \in Client, last'[c] = last[c], c \in heard' <=> c \in heard
    PROVE  Watermark'[c] = Watermark[c]
<1>1. CASE c \in heard
  <2> PICK p \in DOMAIN PublicationLog : PublicationLog[p] = last[c]
    BY <1>1 DEF MarkInv, ClientResumes, InLog
  <2>1. p \in DOMAIN PublicationLog' /\ PublicationLog'[p] = last[c]
    BY LogTypes, LogFacts DEF Extends
  <2>2. Injective(PublicationLog)
    BY DEF Extends, Injective
  <2> QED BY <1>1, <2>1, <2>2, WatermarkIs, WatermarkBecomes
<1>2. CASE c \notin heard
  BY <1>2 DEF Watermark
<1> QED BY <1>1, <1>2

\* Publication enters the event into the log, ahead of its broadcast, and every
\* watermark keeps its place.
LEMMA RememberPublishes ==
    ASSUME IInv, IInv', MarkInv, Injective(PublicationLog'), NEW e \in Event,
           Remember(e)
    PROVE  Readers!Publish(e)
<1>1. /\ PublicationLog = feed /\ PublicationLog' = Append(feed, e)
      /\ UNCHANGED <<frames, last, heard>>
  BY FeedAssumption
     DEF Remember, Tailer!Remember, Tailer!output, PublicationLog, streams,
         forwarders, clients
<1>2. feed \in Seq(Event)
  BY DEF IInv, Tailer!TypeOK
<1>3. ~Readers!InLog(e)
  <2> SUFFICES ASSUME NEW i \in DOMAIN feed, feed[i] = e PROVE FALSE
    BY <1>1 DEF Readers!InLog
  <2>1. Len(feed) \in Nat /\ i \in 1..Len(feed)
    BY <1>2
  <2>2. /\ i \in DOMAIN PublicationLog' /\ Len(feed) + 1 \in DOMAIN PublicationLog'
        /\ PublicationLog'[i] = e /\ PublicationLog'[Len(feed) + 1] = e
    BY <1>1, <1>2, <2>1, AppendProperties
  <2>3. i = Len(feed) + 1
    BY <2>2 DEF Injective
  <2> QED BY <2>1, <2>3
<1>4. Watermark' = Watermark
  <2>1. Extends(PublicationLog, PublicationLog')
    BY <1>1, <1>2, AppendProperties DEF Extends
  <2>2. \A c \in Client : Watermark'[c] = Watermark[c]
    BY <1>1, <2>1, WatermarkStays
  <2>3. Watermark' = [c \in Client |-> Watermark'[c]]
    BY DEF Watermark
  <2>4. Watermark = [c \in Client |-> Watermark[c]]
    BY DEF Watermark
  <2> QED BY <2>2, <2>3, <2>4
<1> QED BY <1>1, <1>3, <1>4 DEF Readers!Publish

\* What a stream handles is the next event of the log for it, and a client that
\* is sent it had nothing after it.
LEMMA ForwardHandles ==
    ASSUME IInv, IInv', FeedInv, MarkInv, Injective(PublicationLog), NEW t \in Stream,
           StreamStep(t), Forward(t)
    PROVE  \E p \in DOMAIN PublicationLog :
               Readers!Skip(t, p) \/ \E c \in Client : Readers!Send(t, p, c)
<1> DEFINE L == PublicationLog
           f == frames[t]
           r == replay[t]
           n == next[t]
           e == Upcoming(t)
<1>1. /\ L \in Seq(Event) /\ f \in Seq(Event) /\ r \in Seq(Event) /\ n \in Nat
      /\ e \in Event /\ Extends(feed, L) /\ Injective(L) /\ feed \in Seq(Event)
      /\ L' = L /\ PublicationLog = L
      /\ phase[t] \in {"subscribed", "live"} => n >= 1
  BY LogFacts, UpcomingType
     DEF IInv, StreamTypes, StreamInv, Forward, StreamStep, upstream, PublicationLog
<1>2. frames' = [frames EXCEPT ![t] = Append(f, e)] /\ frames'[t] = Append(f, e)
  BY DEF Forward, IInv, StreamTypes
<1>3. /\ InOrder(L, Append(f, e), replay'[t])
      /\ OneRepeat(L, Append(f, e), replay'[t], next'[t])
  BY <1>2, StreamStepOrder DEF StreamOrder
<1>4. InLog(L, e)
  <2>1. Len(f) + 1 \in DOMAIN Append(f, e) /\ Append(f, e)[Len(f) + 1] = e
    BY <1>1, AppendProperties
  <2> QED BY <1>3, <2>1 DEF InOrder
<1> PICK p \in DOMAIN L : L[p] = e
  BY <1>4 DEF InLog
<1>5. At(L, e) = p /\ p \in Nat /\ p > 0
  BY <1>1, AtPlace
<1>6. Readers!Handle(t, p)
  <2>1. ASSUME f # <<>>
        PROVE  \E q \in DOMAIN L :
                   L[q] = f[Len(f)] /\ (q < p \/ (q = p /\ ~Readers!Repeated(f)))
    <3>1. PICK q \in DOMAIN L : L[q] = f[Len(f)] /\ (q < p \/ (q = p /\ Repeats(f) = {}))
      BY <1>1, <1>3, <2>1, Upwards
    <3>2. Repeats(f) = {} => ~Readers!Repeated(f)
      BY DEF Repeats, Readers!Repeated
    <3> QED BY <3>1, <3>2
  <2>2. Readers!Follows(p, f)
    BY <1>1, <2>1 DEF Readers!Follows
  <2> QED BY <1>1, <1>2, <2>2 DEF Readers!Handle
<1>7. CASE e \in Permitted
  <2> PICK c \in Client : c = owner[t] /\ listening[c] = t
    BY <1>7 DEF Forward, Listening, IInv, StreamTypes
  <2>1. /\ last' = [last EXCEPT ![c] = e] /\ heard' = heard \cup {c}
        /\ last \in [Client -> Event \cup {0}]
    BY <1>7 DEF Forward, IInv, StreamTypes
  <2>2. Watermark[c] <= p
    <3>1. CASE c \in heard
      <4>1. At(L, last[c]) <= p
        <5>1. /\ Resumes(L, last[c], phase[t], r, n) /\ InLog(L, last[c])
              /\ phase[t] = "live"
              /\ r # <<>> \/ n <= Len(feed)
          BY <3>1 DEF MarkInv, ClientResumes, Forward, HasNext
        <5>2. At(L, last[c]) \in Int
          BY <1>1, <5>1, AtBound
        <5>3. CASE r # <<>>
          <6>1. e = r[1] /\ 1 \in DOMAIN r
            BY <1>1, <5>3, HeadTailProperties, EmptySeq DEF Upcoming
          <6>2. At(L, last[c]) < At(L, r[1])
            BY <5>1, <6>1 DEF Resumes
          <6> QED BY <1>5, <5>2, <6>1, <6>2
        <5>4. CASE r = <<>>
          <6>1. n \in DOMAIN feed
            <7>1. n >= 1 /\ n <= Len(feed)
              BY <1>1, <5>1, <5>4
            <7> HIDE DEF n
            <7> QED BY <1>1, <7>1
          <6>2. e = L[n] /\ n \in DOMAIN L
            BY <1>1, <5>4, <6>1 DEF Upcoming, Extends
          <6>3. p = n
            BY <1>1, <1>5, <6>2, AtPlace
          <6> QED BY <5>1, <6>3 DEF Resumes
        <5> QED BY <5>3, <5>4
      <4> QED BY <3>1, <4>1 DEF Watermark, Place, At
    <3>2. CASE c \notin heard
      BY <1>5, <3>2 DEF Watermark
    <3> QED BY <3>1, <3>2
  <2>3. Watermark' = [Watermark EXCEPT ![c] = p]
    <3>1. Watermark'[c] = p
      BY <1>1, <2>1, WatermarkBecomes
    <3>2. Extends(PublicationLog, PublicationLog')
      BY <1>1 DEF Extends
    <3>3. \A d \in Client \ {c} : Watermark'[d] = Watermark[d]
      BY <1>1, <2>1, <3>2, WatermarkStays
    <3>4. Watermark' = [d \in Client |-> Watermark'[d]]
      BY DEF Watermark
    <3>5. Watermark = [d \in Client |-> Watermark[d]]
      BY DEF Watermark
    <3> QED BY <3>1, <3>3, <3>4, <3>5
  <2>4. Readers!Send(t, p, c)
    BY <1>6, <2>2, <2>3 DEF Readers!Send
  <2> QED BY <2>4
<1>8. CASE e \notin Permitted
  <2>1. Watermark' = Watermark
    BY <1>1, <1>8 DEF Forward, Watermark, Place
  <2> QED BY <1>6, <2>1 DEF Readers!Skip
<1> QED BY <1>7, <1>8

\* A step of a stream is a step of a reader, or no step of it.
LEMMA StreamStepReads ==
    ASSUME IInv, IInv', FeedInv, MarkInv, Injective(PublicationLog), NEW t \in Stream,
           StreamStep(t)
    PROVE  Readers!Next \/ UNCHANGED reading
<1>1. PublicationLog' = PublicationLog
  BY DEF StreamStep, upstream, PublicationLog
<1>2. CASE Forward(t)
  BY <1>2, ForwardHandles DEF Readers!Next
<1>3. CASE Cancel(t) \/ FailSend(t)
  <2>1. /\ frames' = [frames EXCEPT ![t] = <<>>]
        /\ UNCHANGED <<last, heard>>
    BY <1>3 DEF Cancel, FailSend, Close, Discard, clients
  <2>2. Watermark' = Watermark
    BY <1>1, <2>1 DEF Watermark, Place
  <2>3. Readers!Leave(t)
    BY <1>1, <2>1, <2>2 DEF Readers!Leave
  <2> QED BY <2>3 DEF Readers!Next
<1>4. CASE Snapshot(t) \/ Subscribe(t) \/ Spawn(t) \/ Lag(t)
  <2>1. UNCHANGED <<frames, last, heard>>
    BY <1>4 DEF Snapshot, Subscribe, Spawn, Lag, clients, forwarders
  <2>2. Watermark' = Watermark
    BY <1>1, <2>1 DEF Watermark, Place
  <2> QED BY <1>1, <2>1, <2>2 DEF reading
<1> QED BY <1>2, <1>3, <1>4 DEF StreamStep

\* Every step of the feed is a step of the readers, or no step of them.
LEMMA NextReads ==
    ASSUME IInv, IInv', FeedInv, MarkInv, Injective(PublicationLog),
           Injective(PublicationLog'), [Next]_vars
    PROVE  Readers!Next \/ UNCHANGED reading
<1>1. CASE \E e \in Event : Remember(e)
  BY <1>1, RememberPublishes DEF Readers!Next
<1>2. CASE Restart
  <2>1. /\ PublicationLog' = <<>> /\ heard' = {}
        /\ frames' = [t \in Stream |-> <<>>]
    BY <1>2 DEF Restart, Tailer!Restart, PublicationLog
  <2>2. Watermark' = [c \in Client |-> 0]
    BY <2>1 DEF Watermark
  <2>3. Readers!StartOver
    BY <2>1, <2>2 DEF Readers!StartOver
  <2> QED BY <2>3 DEF Readers!Next
<1>3. CASE \E t \in Stream : StreamStep(t)
  BY <1>3, StreamStepReads
<1>4. CASE /\ Upstream \/ TailerStep \/ UNCHANGED vars
              \/ \E c \in Client : ClientStep(c)
           /\ ~(\E e \in Event : Remember(e)) /\ ~Restart
  <2>1. UNCHANGED <<frames, last, heard>>
    BY <1>4 DEF Upstream, TailerStep, ClientStep, Leave, Reserve, vars, streams,
       clients, forwarders
  <2>2. PublicationLog' = PublicationLog
    <3>1. CASE Tailer!Broadcast
      <4>1. sending # 0 /\ sending' = 0 /\ feed' = Append(feed, sending)
        BY <3>1 DEF Tailer!Broadcast
      <4> QED BY <4>1 DEF PublicationLog
    <3>2. CASE ~Tailer!Broadcast
      <4>1. sending' = sending /\ feed' = feed
        BY <1>4, <3>2
           DEF Upstream, TailerStep, ClientStep, Tailer!Tick, Tailer!Stage,
               Tailer!Commit, Tailer!Rollback, Tailer!Poll, Tailer!tailer,
               Tailer!output, upstream, vars
      <4> QED BY <4>1 DEF PublicationLog
    <3> QED BY <3>1, <3>2
  <2>3. Watermark' = Watermark
    BY <2>1, <2>2 DEF Watermark, Place
  <2> QED BY <2>1, <2>2, <2>3 DEF reading
<1> QED BY <1>1, <1>2, <1>3, <1>4 DEF Next

\* The feed implements readers of one log: every stream handles the log upwards,
\* the last event perhaps twice, and no client is ever sent an event before the
\* one it was sent last, however it leaves and opens streams, lags or reconnects.
THEOREM ImplementsReaders == Spec => ReadersSpec
<1>1. Init => Readers!Init
  <2> SUFFICES ASSUME Init PROVE Readers!Init
    OBVIOUS
  <2>1. PublicationLog = <<>> /\ frames = [t \in Stream |-> <<>>]
    BY DEF Init, Tailer!Init, PublicationLog
  <2>2. Watermark = [c \in Client |-> 0]
    BY DEF Init, Watermark
  <2> QED BY <2>1, <2>2 DEF Readers!Init
<1>2. IInv /\ Once!OnceInv => LogInjective
  BY LogFacts DEF LogInjective
<1>3. /\ IInv /\ IInv' /\ FeedInv /\ MarkInv /\ [Next]_vars
      /\ LogInjective /\ LogInjective'
      => [Readers!Next]_reading
  BY NextReads DEF LogInjective
<1> QED BY <1>1, <1>2, <1>3, Invariance, OnceInFeed, FeedInvHolds, MarkInvHolds, PTL
        DEF Spec, ReadersSpec, Readers!Spec, reading

-----------------------------------------------------------------------------
\* Inside the feed too, no committed row leaves the tailer's window unpublished
\* while the commit lag and the gap between passes fit into it: a ring, streams
\* and clients take nothing from the tailer.
THEOREM NoneSkippedInFeed == Spec => []Tailer!NoneSkipped
<1>1. Once!Spec => []Once!NoneSkipped
  BY FeedAssumption, Once!NoneSkippedHolds
<1>2. Once!NoneSkipped => Tailer!NoneSkipped
  BY DEF Once!NoneSkipped, Tailer!NoneSkipped, Once!InWindow, Tailer!InWindow
<1> QED BY <1>1, <1>2, ImplementsTailer, SameTailer, PTL

=============================================================================
