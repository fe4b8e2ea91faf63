--------------------------- MODULE ChannelMembers ---------------------------
(***************************************************************************)
(* Members: join, leave and the two read pointers.  A mark claims its      *)
(* member row with SKIP LOCKED and holds it; a join and a leave read first *)
(* and write later, without a lock in between.                             *)
(***************************************************************************)
EXTENDS DiscussChannels

CONSTANT MaxMessage  \* Bound on the messages, which are named by their order

ASSUME MembersAssumption == MaxMessage \in Nat

VARIABLES
    pointer,   \* The newest message each member has seen, and has fetched
    visiting,  \* What each worker's call is about
    read,      \* History: the messages whose mark was answered, per pointer
    out,       \* History: seats that were given up with no join under way
    revived    \* History: chats that a member left and came back to

memberVars == <<pointer, visiting, read, out, revived>>

Pointers == {"seen", "fetched"}
Message == 1 .. MaxMessage
Seats == Channel \X Partner

Idle == [verb |-> "none"]
Visit == [verb : Pointers \cup {"join", "leave"}, seat : Seats, message : Message \cup {0}]

MembersInit ==
    /\ pointer = [k \in Pointers |-> [s \in Seats |-> 0]]
    /\ visiting = [w \in Worker |-> Idle]
    /\ read = [k \in Pointers |-> [s \in Seats |-> {}]]
    /\ out = {} /\ revived = {}

Doing(verbs, s) == \E w \in Worker : visiting[w].verb \in verbs /\ visiting[w].seat = s

\* The member row is locked by a mark.
Claimed(s) == Doing(Pointers, s)

-----------------------------------------------------------------------------
Enters(w, verb, s, m) ==
    /\ visiting[w] = Idle
    /\ Call
    /\ visiting' = [visiting EXCEPT ![w] = [verb |-> verb, seat |-> s, message |-> m]]

Leaves(w) == visiting' = [visiting EXCEPT ![w] = Idle]

\* A row that is locked is as good as none: the call ends with NotMember.
ClaimMember(w, k, s, m) ==
    /\ Live(s[1], s[2]) /\ ~Claimed(s)
    /\ Enters(w, k, s, m)
    /\ UNCHANGED <<channelVars, pointer, read, out, revived>>

\* Faulty variant: the pointer is set to whatever was marked last.
AdvanceAny(w) ==
    LET v == visiting[w] IN
    /\ v.verb \in Pointers
    /\ pointer' = [pointer EXCEPT ![v.verb][v.seat] = v.message]
    /\ read' = [read EXCEPT ![v.verb][v.seat] = @ \cup {v.message}]
    /\ Leaves(w)
    /\ UNCHANGED <<calls, channelVars, out, revived>>

\* The pointer moves to a newer message only, and the call is answered either way.
AdvancePointer(w) ==
    LET v == visiting[w] IN
    /\ v.verb \in Pointers
    /\ pointer' = [pointer EXCEPT ![v.verb][v.seat] = IF v.message > @ THEN v.message ELSE @]
    /\ read' = [read EXCEPT ![v.verb][v.seat] = @ \cup {v.message}]
    /\ Leaves(w)
    /\ UNCHANGED <<calls, channelVars, out, revived>>

\* Faulty variant: the row of a member who left will do.
JoinAgain(w, s) ==
    /\ seat[s[1]][s[2]] # "none" \/ Open(s[1])
    /\ Enters(w, "join", s, 0)
    /\ out' = IF Open(s[1]) THEN out \ {s} ELSE out
    /\ UNCHANGED <<channelVars, pointer, read, revived>>

\* A member may join again, anyone else an open channel ...
Join(w, s) ==
    /\ Live(s[1], s[2]) \/ Open(s[1])
    /\ Enters(w, "join", s, 0)
    /\ out' = IF Open(s[1]) THEN out \ {s} ELSE out
    /\ UNCHANGED <<channelVars, pointer, read, revived>>

\* ... and whatever has happened since, a row is inserted or comes back, with
\* the pointers that it had.
UpsertJoin(w) ==
    LET s == visiting[w].seat IN
    /\ visiting[w].verb = "join"
    /\ seat' = [seat EXCEPT ![s[1]][s[2]] = "live"]
    /\ revived' = IF kind[s[1]] = "chat" /\ ~Live(s[1], s[2])
                  THEN revived \cup {s[1]} ELSE revived
    /\ Leaves(w)
    /\ UNCHANGED <<calls, kind, archived, founders, minting, pair, overtaken, raced,
                   pointer, read, out>>

Leave(w, s) ==
    /\ Live(s[1], s[2])
    /\ Enters(w, "leave", s, 0)
    /\ UNCHANGED <<channelVars, pointer, read, out, revived>>

\* The UPDATE waits for a mark, and finds nothing if another leave was first.
SoftDeleteMember(w) ==
    LET s == visiting[w].seat IN
    /\ visiting[w].verb = "leave" /\ ~Claimed(s)
    /\ seat' = [seat EXCEPT ![s[1]][s[2]] = "left"]
    /\ out' = IF Doing({"join"}, s) THEN out ELSE out \cup {s}
    /\ Leaves(w)
    /\ UNCHANGED <<calls, kind, archived, founders, minting, pair, overtaken, raced,
                   pointer, read, revived>>

LoseVisit(w) ==
    /\ visiting[w] # Idle
    /\ Leaves(w)
    /\ UNCHANGED <<calls, channelVars, pointer, read, out, revived>>

-----------------------------------------------------------------------------
MembersNext ==
    \E w \in Worker :
        \/ \E s \in Seats :
               \/ \E k \in Pointers, m \in Message : ClaimMember(w, k, s, m)
               \/ Join(w, s) \/ Leave(w, s)
        \/ AdvancePointer(w) \/ UpsertJoin(w) \/ SoftDeleteMember(w) \/ LoseVisit(w)

MembersTypeOK ==
    /\ pointer \in [Pointers -> [Seats -> Message \cup {0}]]
    /\ visiting \in [Worker -> Visit \cup {Idle}]
    /\ read \in [Pointers -> [Seats -> SUBSET Message]]
    /\ out \in SUBSET Seats /\ revived \in SUBSET Channel

\* Each pointer is at the newest of the messages that its member's answered
\* marks named, in whatever order they came and however often he left and
\* joined again in between (mark_as_read, mark_fetched, upsert_join).
PointerIsNewestRead ==
    \A k \in Pointers, s \in Seats :
        /\ pointer[k][s] \in read[k][s] \cup {0}
        /\ \A m \in read[k][s] : m <= pointer[k][s]

\* Only a public channel takes members: everyone in another was there from the
\* start, and who leaves for good, with no join of his under way, is out until
\* he joins while the channel is open (join, leave).
EntersByRight ==
    /\ \A s \in out : ~Live(s[1], s[2])
    /\ \A c \in Channel, p \in Partner :
           Live(c, p) /\ kind[c] # "public" => p \in founders[c]

\* Two live chats of one pair come only from two calls that minted at the same
\* time, or from a member who left and whose join was under way
\* (get_or_create_chat).
ForksWereRaced ==
    \A two \in Pairs : \A c, d \in Chats(two) :
        c # d => {c, d} \cap (raced \cup revived) # {}

=============================================================================
