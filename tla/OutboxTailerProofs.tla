------------------------- MODULE OutboxTailerProofs -------------------------
(***************************************************************************)
(* Proofs about the tailer, for every set of rows, every window and every  *)
(* number of restarts: its type invariant, that a row is broadcast once in *)
(* a life of the replica, that none is skipped while the commit lag and    *)
(* the gap between passes fit into the window, and that the tailer         *)
(* implements the event log.                                               *)
(***************************************************************************)
EXTENDS OutboxTailer, TLAPS

-----------------------------------------------------------------------------
(***************************************************************************)
(* Type correctness.                                                       *)
(***************************************************************************)

\* One step keeps the variables in their types.
LEMMA NextType ==
    ASSUME TypeOK, [Next]_vars
    PROVE  TypeOK'
<1> USE TailerAssumption DEF TypeOK, clock, rows, tailer, output
<1>1. CASE \E e \in Event : Stage(e) \/ Commit(e) \/ Rollback(e)
  <2> PICK e \in Event : Stage(e) \/ Commit(e) \/ Rollback(e)
    BY <1>1
  <2>1. CASE Stage(e)
    BY <2>1 DEF Stage
  <2>2. CASE Commit(e)
    BY <2>2 DEF Commit
  <2>3. CASE Rollback(e)
    BY <2>3 DEF Rollback
  <2> QED BY <2>1, <2>2, <2>3
<1>2. CASE Tick
  BY <1>2 DEF Tick
<1>3. CASE Poll
  BY <1>3 DEF Poll, Kept, Fresh
<1>4. CASE Broadcast
  BY <1>4 DEF Broadcast
<1>5. CASE \E e \in Event : Remember(e)
  BY <1>5 DEF Remember
<1>6. CASE Restart
  BY <1>6 DEF Restart
<1>7. CASE UNCHANGED vars
  BY <1>7 DEF vars
<1> QED BY <1>1, <1>2, <1>3, <1>4, <1>5, <1>6, <1>7 DEF Next, TailerStep

\* The tailer works on rows, whatever writers and restarts do.
THEOREM TypeCorrect == Spec => []TypeOK
<1>1. Init => TypeOK
  BY DEF Init, TypeOK
<1>2. TypeOK /\ [Next]_vars => TypeOK'
  BY NextType
<1> QED BY <1>1, <1>2, PTL DEF Spec

-----------------------------------------------------------------------------
(***************************************************************************)
(* Each row is broadcast once in a life of the replica.                    *)
(***************************************************************************)
InFeed(e) == \E i \in DOMAIN feed : feed[i] = e

\* What has left the outbox in this life is committed, and in the dedup map
\* for as long as the query would return it.
HandledInv ==
    \A e \in Event : e \in batch \/ e = sending \/ InFeed(e) =>
        /\ outbox[e] = "committed"
        /\ InWindow(e) => e \in seen

\* A row is in one place on its way out.
DisjointInv ==
    /\ sending \notin batch
    /\ \A i \in DOMAIN feed : feed[i] \notin batch /\ feed[i] # sending

OnceInv == HandledInv /\ DisjointInv /\ PublishedOnce

\* A pass reads no row again that this life has broadcast.
LEMMA PollOnce ==
    ASSUME TypeOK, OnceInv, Poll
    PROVE  OnceInv'
<1> USE TailerAssumption DEF TypeOK, OnceInv, Poll, clock, rows, output
<1>1. feed' = feed /\ sending' = sending /\ sending = 0 /\ batch = {}
  BY DEF Busy
<1>2. \A e \in Event : InFeed(e)' <=> InFeed(e)
  BY <1>1 DEF InFeed
<1>3. \A e \in Event : InWindow(e)' <=> InWindow(e)
  BY DEF InWindow
<1>4. HandledInv'
  BY <1>1, <1>2, <1>3 DEF HandledInv, Kept, Fresh
<1>5. DisjointInv'
  <2>1. \A i \in DOMAIN feed : feed[i] \in Event /\ InFeed(feed[i])
    BY DEF InFeed
  <2>2. \A i \in DOMAIN feed : feed[i] \notin Fresh
    BY <2>1 DEF HandledInv, Fresh, Kept
  <2> QED BY <1>1, <2>1, <2>2 DEF DisjointInv, Fresh
<1>6. PublishedOnce'
  BY <1>1 DEF PublishedOnce
<1> QED BY <1>4, <1>5, <1>6

\* The broadcast appends a row that is neither in the feed nor in the batch.
LEMMA BroadcastOnce ==
    ASSUME TypeOK, OnceInv, Broadcast
    PROVE  OnceInv'
<1> USE TailerAssumption DEF TypeOK, OnceInv, Broadcast, rows, clock
<1>1. sending \in Event /\ feed' = Append(feed, sending) /\ sending' = 0
      /\ batch' = batch /\ seen' = seen
  OBVIOUS
<1>2. /\ Len(feed') = Len(feed) + 1
      /\ DOMAIN feed' = 1..(Len(feed) + 1)
      /\ \A i \in DOMAIN feed : feed'[i] = feed[i]
      /\ feed'[Len(feed) + 1] = sending
      /\ DOMAIN feed = 1..Len(feed)
      /\ Len(feed) \in Nat
  BY <1>1
<1>3. \A i \in DOMAIN feed' : i \in DOMAIN feed \/ i = Len(feed) + 1
  BY <1>2
<1>4. \A e \in Event : InFeed(e)' => InFeed(e) \/ e = sending
  BY <1>2, <1>3 DEF InFeed
<1>5. HandledInv'
  <2>1. \A e \in Event : InWindow(e)' <=> InWindow(e)
    BY DEF InWindow
  <2> QED BY <1>1, <1>4, <2>1 DEF HandledInv
<1>6. DisjointInv'
  <2>1. \A i \in DOMAIN feed : feed[i] \in Event /\ feed[i] # 0
    OBVIOUS
  <2> QED BY <1>1, <1>2, <1>3, <2>1 DEF DisjointInv
<1>7. PublishedOnce'
  <2>1. \A i \in DOMAIN feed : feed[i] # sending
    BY DEF DisjointInv
  <2> QED BY <1>2, <1>3, <2>1 DEF PublishedOnce
<1> QED BY <1>5, <1>6, <1>7

\* Every step keeps the invariant.
LEMMA NextOnce ==
    ASSUME TypeOK, OnceInv, [Next]_vars
    PROVE  OnceInv'
<1> USE TailerAssumption DEF TypeOK, clock, rows, tailer, output
<1>1. CASE \E e \in Event : Stage(e) \/ Commit(e) \/ Rollback(e)
  <2> PICK e \in Event : Stage(e) \/ Commit(e) \/ Rollback(e)
    BY <1>1
  <2>1. UNCHANGED <<now, seen, batch, sending, feed>>
    BY DEF Stage, Commit, Rollback
  <2>2. outbox[e] # "committed" /\ \A f \in Event \ {e} :
            outbox'[f] = outbox[f] /\ stamp'[f] = stamp[f]
    BY DEF Stage, Commit, Rollback
  <2>3. \A f \in Event : InFeed(f)' <=> InFeed(f)
    BY <2>1 DEF InFeed
  <2>4. HandledInv'
    BY <2>1, <2>2, <2>3 DEF OnceInv, HandledInv, InWindow
  <2> QED BY <2>1, <2>4 DEF OnceInv, DisjointInv, PublishedOnce
<1>2. CASE Tick
  <2>1. UNCHANGED <<outbox, stamp, seen, batch, sending, feed>> /\ now' = now + 1
    BY <1>2 DEF Tick
  <2>2. \A e \in Event : InWindow(e)' => InWindow(e)
    BY <2>1 DEF InWindow
  <2>3. \A f \in Event : InFeed(f)' <=> InFeed(f)
    BY <2>1 DEF InFeed
  <2>4. HandledInv'
    BY <2>1, <2>2, <2>3 DEF OnceInv, HandledInv
  <2> QED BY <2>1, <2>4 DEF OnceInv, DisjointInv, PublishedOnce
<1>3. CASE Poll
  BY <1>3, PollOnce
<1>4. CASE Broadcast
  BY <1>4, BroadcastOnce
<1>5. CASE \E e \in Event : Remember(e)
  <2> PICK e \in Event : Remember(e)
    BY <1>5
  <2>1. /\ UNCHANGED <<now, outbox, stamp, seen, feed>>
        /\ batch' = batch \ {e} /\ sending' = e /\ e \in batch
    BY DEF Remember
  <2>2. \A f \in Event : InFeed(f)' <=> InFeed(f)
    BY <2>1 DEF InFeed
  <2>3. HandledInv'
    BY <2>1, <2>2 DEF OnceInv, HandledInv, InWindow
  <2>4. DisjointInv'
    BY <2>1 DEF OnceInv, DisjointInv
  <2> QED BY <2>1, <2>3, <2>4 DEF OnceInv, PublishedOnce
<1>6. CASE Restart
  <2>1. feed' = <<>> /\ batch' = {} /\ sending' = 0
    BY <1>6 DEF Restart
  <2> QED BY <2>1 DEF OnceInv, HandledInv, DisjointInv, PublishedOnce, InFeed
<1>7. CASE UNCHANGED vars
  BY <1>7 DEF vars, OnceInv, HandledInv, DisjointInv, PublishedOnce, InFeed,
     InWindow
<1> QED BY <1>1, <1>2, <1>3, <1>4, <1>5, <1>6, <1>7 DEF Next, TailerStep

\* A row is in one place on its way out, for as long as the replica lives.
LEMMA OnceHolds == Spec => []OnceInv
<1>1. Init => OnceInv
  BY TailerAssumption DEF Init, OnceInv, HandledInv, DisjointInv, PublishedOnce,
     InFeed
<1>2. TypeOK /\ OnceInv /\ [Next]_vars => OnceInv'
  BY NextOnce
<1> QED BY <1>1, <1>2, TypeCorrect, PTL DEF Spec

\* A life of the replica broadcasts a row once, though each pass of the tailer
\* reads the whole window again.
THEOREM PublishedOnceHolds == Spec => []PublishedOnce
<1>1. OnceInv => PublishedOnce
  BY DEF OnceInv
<1> QED BY <1>1, OnceHolds, PTL

-----------------------------------------------------------------------------
(***************************************************************************)
(* No row is skipped.                                                      *)
(***************************************************************************)

\* What the environment is assumed to keep, and how the times of a pass lie.
ClockInv ==
    /\ passed <= readAt /\ readAt <= now
    /\ now <= passed + PollGap
    /\ \A e \in Event : outbox[e] = "staged" => now <= stamp[e] + CommitLag

\* The dedup map hides only what is published or about to be.
SeenInv == seen \subseteq published \cup batch \cup {sending}

\* A pass that read the outbox after a row's last moment to commit has the row,
\* and once it has completed the row is published.
PassInv ==
    \A e \in Event : outbox[e] = "committed" /\ e \notin published =>
        /\ passed <= stamp[e] + CommitLag
        /\ Busy /\ e \notin batch /\ e # sending => readAt <= stamp[e] + CommitLag

SkipInv == ClockInv /\ SeenInv /\ PassInv

Fits == CommitLag + PollGap < Window

\* A pass that reads late enough to miss no commit still finds the row in the
\* window.
LEMMA PollSkipsNone ==
    ASSUME TypeOK, SkipInv, Fits, Poll
    PROVE  SkipInv'
<1> USE TailerAssumption DEF TypeOK, SkipInv, clock, rows, output
<1>1. /\ batch = {} /\ sending = 0 /\ sending' = 0 /\ published' = published
      /\ outbox' = outbox /\ stamp' = stamp /\ now' = now
      /\ seen' = Kept \cup Fresh /\ batch' = Fresh /\ readAt' = now
      /\ passed' = IF Fresh = {} THEN now ELSE passed
  BY DEF Poll, Busy
<1>2. ClockInv'
  BY <1>1 DEF ClockInv
<1>3. SeenInv'
  BY <1>1 DEF SeenInv, Kept, Fresh
<1>4. ASSUME NEW e \in Event, outbox[e] = "committed", e \notin published,
             e \notin Fresh
      PROVE  now <= stamp[e] + CommitLag
  <2>1. passed <= stamp[e] + CommitLag /\ now <= passed + PollGap
    BY <1>4 DEF PassInv, ClockInv
  <2>2. InWindow(e)
    BY <2>1 DEF Fits, InWindow
  <2>3. e \in seen
    BY <1>4, <2>2 DEF Fresh, Kept
  <2> QED BY <1>1, <1>4, <2>3 DEF SeenInv
<1>5. PassInv'
  <2> SUFFICES ASSUME NEW e \in Event, outbox[e] = "committed", e \notin published
               PROVE  /\ passed' <= stamp[e] + CommitLag
                      /\ Busy' /\ e \notin Fresh => now <= stamp[e] + CommitLag
    BY <1>1 DEF PassInv
  <2>1. e \notin Fresh => now <= stamp[e] + CommitLag
    BY <1>4
  <2>2. passed' <= stamp[e] + CommitLag
    BY <1>1, <2>1 DEF PassInv
  <2> QED BY <2>1, <2>2
<1> QED BY <1>2, <1>3, <1>5

\* Every step keeps the invariant.
LEMMA NextSkipsNone ==
    ASSUME TypeOK, SkipInv, Fits, [Next]_vars
    PROVE  SkipInv'
<1> USE TailerAssumption DEF TypeOK, SkipInv, clock, rows, tailer, output
<1>1. CASE \E e \in Event : Stage(e) \/ Commit(e) \/ Rollback(e)
  <2> PICK e \in Event : Stage(e) \/ Commit(e) \/ Rollback(e)
    BY <1>1
  <2>1. UNCHANGED <<now, readAt, passed, seen, batch, sending, published>>
    BY DEF Stage, Commit, Rollback
  <2>2. \A f \in Event \ {e} : outbox'[f] = outbox[f] /\ stamp'[f] = stamp[f]
    BY DEF Stage, Commit, Rollback
  <2>3. \/ outbox'[e] = "staged" /\ stamp'[e] = now
        \/ outbox'[e] = "none"
        \/ outbox[e] = "staged" /\ outbox'[e] = "committed" /\ stamp'[e] = stamp[e]
    BY DEF Stage, Commit, Rollback
  <2>4. ClockInv'
    <3>1. \A f \in Event : outbox'[f] = "staged" => now <= stamp'[f] + CommitLag
      BY <2>2, <2>3 DEF ClockInv
    <3> QED BY <2>1, <3>1 DEF ClockInv
  <2>5. SeenInv'
    BY <2>1 DEF SeenInv
  <2>6. PassInv'
    <3>1. \A f \in Event : outbox'[f] = "committed" =>
             \/ outbox[f] = "committed" /\ stamp'[f] = stamp[f]
             \/ now <= stamp'[f] + CommitLag
      BY <2>2, <2>3 DEF ClockInv
    <3>2. passed <= now /\ readAt <= now
      BY DEF ClockInv
    <3>3. Busy' <=> Busy
      BY <2>1 DEF Busy
    <3>4. \A f \in Event : stamp'[f] \in Nat
      BY NextType DEF TypeOK
    <3>5. ASSUME NEW f \in Event, outbox'[f] = "committed", f \notin published
          PROVE  /\ passed <= stamp'[f] + CommitLag
                 /\ Busy /\ f \notin batch /\ f # sending => readAt <= stamp'[f] + CommitLag
      <4>1. CASE outbox[f] = "committed" /\ stamp'[f] = stamp[f]
        BY <3>5, <4>1 DEF PassInv
      <4>2. CASE now <= stamp'[f] + CommitLag
        <5>1. /\ {now, passed, readAt, stamp'[f], CommitLag} \subseteq Nat
              /\ passed <= now /\ readAt <= now
          BY <3>2, <3>4
        <5>2. passed <= stamp'[f] + CommitLag /\ readAt <= stamp'[f] + CommitLag
          BY <4>2, <5>1
        <5> QED BY <5>2
      <4> QED BY <3>1, <3>5, <4>1, <4>2
    <3> QED BY <2>1, <3>3, <3>5 DEF PassInv
  <2> QED BY <2>4, <2>5, <2>6
<1>2. CASE Tick
  <2>1. /\ UNCHANGED <<readAt, passed, outbox, stamp, seen, batch, sending, published>>
        /\ now' = now + 1 /\ now < passed + PollGap
        /\ \A e \in Event : outbox[e] = "staged" => now < stamp[e] + CommitLag
    BY <1>2 DEF Tick
  <2>2. ClockInv'
    BY <2>1 DEF ClockInv
  <2> QED BY <2>1, <2>2 DEF SeenInv, PassInv, Busy
<1>3. CASE Poll
  BY <1>3, PollSkipsNone
<1>4. CASE Broadcast
  <2>1. /\ UNCHANGED <<now, readAt, outbox, stamp, seen, batch>>
        /\ published' = published \cup {sending} /\ sending # 0 /\ sending' = 0
        /\ passed' = IF batch = {} THEN readAt ELSE passed
    BY <1>4 DEF Broadcast
  <2>2. ClockInv'
    BY <2>1 DEF ClockInv
  <2>3. SeenInv'
    BY <2>1 DEF SeenInv
  <2>4. PassInv'
    <3> SUFFICES ASSUME NEW e \in Event, outbox[e] = "committed",
                        e \notin published, e # sending
                 PROVE  /\ passed' <= stamp[e] + CommitLag
                        /\ e \notin batch => readAt <= stamp[e] + CommitLag
      BY <2>1 DEF PassInv
    <3>1. Busy
      BY <2>1 DEF Busy
    <3>2. e \notin batch => readAt <= stamp[e] + CommitLag
      BY <3>1 DEF PassInv
    <3>3. passed <= stamp[e] + CommitLag
      BY DEF PassInv
    <3> QED BY <2>1, <3>2, <3>3
  <2> QED BY <2>2, <2>3, <2>4
<1>5. CASE \E e \in Event : Remember(e)
  <2> PICK e \in Event : Remember(e)
    BY <1>5
  <2>1. /\ UNCHANGED <<now, readAt, passed, outbox, stamp, seen, published>>
        /\ batch' = batch \ {e} /\ sending' = e /\ e \in batch /\ sending = 0
    BY DEF Remember
  <2>2. ClockInv'
    BY <2>1 DEF ClockInv
  <2>3. SeenInv'
    BY <2>1 DEF SeenInv
  <2>4. PassInv'
    BY <2>1 DEF PassInv, Busy
  <2> QED BY <2>2, <2>3, <2>4
<1>6. CASE Restart
  <2>1. /\ UNCHANGED <<now, passed, outbox, stamp, published>>
        /\ seen' = {} /\ batch' = {} /\ sending' = 0 /\ readAt' = passed
    BY <1>6 DEF Restart
  <2>2. ClockInv'
    BY <2>1 DEF ClockInv
  <2> QED BY <2>1, <2>2 DEF SeenInv, PassInv, Busy
<1>7. CASE UNCHANGED vars
  BY <1>7 DEF vars, ClockInv, SeenInv, PassInv, Busy
<1> QED BY <1>1, <1>2, <1>3, <1>4, <1>5, <1>6, <1>7 DEF Next, TailerStep

\* No committed row leaves the tailer's window unpublished, as long as the
\* commit lag and the gap between passes fit into it.
THEOREM NoneSkippedHolds == Spec => []NoneSkipped
<1>1. CASE Fits
  <2>1. Init => SkipInv
    BY TailerAssumption DEF Init, SkipInv, ClockInv, SeenInv, PassInv
  <2>2. TypeOK /\ SkipInv /\ [Next]_vars => SkipInv'
    BY <1>1, NextSkipsNone
  <2>3. TypeOK /\ SkipInv => NoneSkipped
    <3> SUFFICES ASSUME TypeOK, SkipInv, NEW e \in Event,
                        outbox[e] = "committed", ~InWindow(e), e \notin published
                 PROVE  FALSE
      BY DEF NoneSkipped
    <3>1. passed <= stamp[e] + CommitLag /\ now <= passed + PollGap
      BY DEF SkipInv, PassInv, ClockInv
    <3> QED BY <1>1, <3>1, TailerAssumption DEF TypeOK, InWindow, Fits
  <2> QED BY <2>1, <2>2, <2>3, TypeCorrect, PTL DEF Spec
<1>2. CASE ~Fits
  BY <1>2, PTL DEF NoneSkipped, Fits
<1> QED BY <1>1, <1>2

-----------------------------------------------------------------------------
(***************************************************************************)
(* The tailer implements the event log.                                    *)
(***************************************************************************)
entries == <<Committed, feed, published>>

\* What does not touch the rows' states and the feed is a stutter of the log.
LEMMA LogStutters ==
    ASSUME UNCHANGED <<outbox, feed, published>>
    PROVE  UNCHANGED entries
<1>1. Committed' = Committed
  BY DEF Committed
<1> QED BY <1>1 DEF entries

\* A commit enters one row into the log's source, and only a commit does.
LEMMA WritersStep ==
    ASSUME TypeOK, NEW e \in Event, Stage(e) \/ Commit(e) \/ Rollback(e)
    PROVE  Outlet!CommitRow(e) \/ UNCHANGED entries
<1>1. UNCHANGED <<feed, published>> /\ outbox[e] # "committed"
  BY DEF Stage, Commit, Rollback, output
<1>2. \A f \in Event \ {e} : outbox'[f] = outbox[f]
  BY DEF TypeOK, Stage, Commit, Rollback
<1>3. CASE Commit(e)
  <2>1. outbox'[e] = "committed"
    BY <1>3 DEF TypeOK, Commit
  <2>2. Committed' = Committed \cup {e}
    BY <1>2, <2>1 DEF Committed
  <2> QED BY <1>1, <2>2 DEF Outlet!CommitRow
<1>4. CASE Stage(e) \/ Rollback(e)
  <2>1. outbox'[e] # "committed"
    BY <1>4 DEF TypeOK, Stage, Rollback
  <2>2. Committed' = Committed
    BY <1>1, <1>2, <2>1 DEF Committed
  <2> QED BY <1>1, <2>2 DEF entries
<1> QED BY <1>3, <1>4

\* Every step of the tailer's is one of the log's, or none.
LEMMA NextLog ==
    ASSUME TypeOK, OnceInv, [Next]_vars
    PROVE  [Outlet!Next]_entries
<1>1. CASE \E e \in Event : Stage(e) \/ Commit(e) \/ Rollback(e)
  BY <1>1, WritersStep DEF Outlet!Next
<1>2. CASE Broadcast
  <2>1. sending \in Event
    BY <1>2 DEF Broadcast, TypeOK
  <2>2. sending \in Committed /\ ~Outlet!InLog(sending)
    BY <2>1 DEF OnceInv, HandledInv, DisjointInv, Committed, Outlet!InLog
  <2>3. Committed' = Committed
    BY <1>2 DEF Broadcast, rows, Committed
  <2>4. Outlet!Publish(sending)
    BY <1>2, <2>2, <2>3 DEF Broadcast, Outlet!Publish
  <2> QED BY <2>1, <2>4 DEF Outlet!Next
<1>3. CASE Restart
  <2>1. Committed' = Committed
    BY <1>3 DEF Restart, rows, Committed
  <2>2. Outlet!StartOver
    BY <1>3, <2>1 DEF Restart, Outlet!StartOver
  <2> QED BY <2>2 DEF Outlet!Next
<1>4. CASE Tick \/ Poll \/ (\E e \in Event : Remember(e)) \/ UNCHANGED vars
  BY <1>4, LogStutters DEF Tick, Poll, Remember, vars, rows, output
<1> QED BY <1>1, <1>2, <1>3, <1>4 DEF Next, TailerStep

\* The tailer implements the event log: it broadcasts committed rows alone, and
\* each once in a life of the replica, however often its passes read it.
THEOREM ImplementsLog == Spec => LogSpec
<1>1. Init => Outlet!Init
  BY DEF Init, Outlet!Init, Committed
<1>2. TypeOK /\ OnceInv /\ [Next]_vars => [Outlet!Next]_entries
  BY NextLog
<1> QED BY <1>1, <1>2, TypeCorrect, OnceHolds, PTL
        DEF Spec, LogSpec, Outlet!Spec, entries

=============================================================================
