----------------------------- MODULE LogReaders -----------------------------
(***************************************************************************)
(* What a feed promises its streams and those who listen: there is one log *)
(* of events, without repetition, and each stream handles events of it,    *)
(* upwards.  A stream may leave out events, and it may handle the last one *)
(* again, once.  What it sends a client moves the client's mark, which     *)
(* never goes down, whichever stream it came by.                           *)
(***************************************************************************)
EXTENDS Naturals, Sequences

CONSTANTS Event, Stream, Client

VARIABLES
    log,        \* The events, in the order of their publication
    handled,    \* What each open stream has handled
    mark        \* The place of the last event each client was sent, or 0

InLog(e) == \E i \in DOMAIN log : log[i] = e

Repeated(f) == \E i \in 2..Len(f) : f[i] = f[i - 1]

\* May a stream that has handled f handle the p-th event next?
Follows(p, f) ==
    f # <<>> =>
        \E q \in DOMAIN log :
            /\ log[q] = f[Len(f)]
            /\ q < p \/ (q = p /\ ~Repeated(f))

Init ==
    /\ log = <<>>
    /\ handled = [t \in Stream |-> <<>>]
    /\ mark = [c \in Client |-> 0]

Publish(e) ==
    /\ ~InLog(e)
    /\ log' = Append(log, e)
    /\ UNCHANGED <<handled, mark>>

Handle(t, p) ==
    /\ Follows(p, handled[t])
    /\ handled' = [handled EXCEPT ![t] = Append(@, log[p])]
    /\ UNCHANGED log

Skip(t, p) == Handle(t, p) /\ UNCHANGED mark

Send(t, p, c) ==
    /\ Handle(t, p)
    /\ mark[c] <= p
    /\ mark' = [mark EXCEPT ![c] = p]

Leave(t) ==
    /\ handled' = [handled EXCEPT ![t] = <<>>]
    /\ UNCHANGED <<log, mark>>

StartOver ==
    /\ log' = <<>>
    /\ handled' = [t \in Stream |-> <<>>]
    /\ mark' = [c \in Client |-> 0]

Next ==
    \/ \E e \in Event : Publish(e)
    \/ \E t \in Stream :
           \/ Leave(t)
           \/ \E p \in DOMAIN log : Skip(t, p) \/ \E c \in Client : Send(t, p, c)
    \/ StartOver

Spec == Init /\ [][Next]_<<log, handled, mark>>

=============================================================================
