-------------------------- MODULE DiscussChannels --------------------------
(***************************************************************************)
(* Channels and 1:1 chats: create, get_or_create_chat and archive.  A chat *)
(* is found by the set of its live members, first in a transaction of its  *)
(* own, then in the one that mints it, and no index holds a pair to one    *)
(* chat.                                                                   *)
(***************************************************************************)
EXTENDS Callers

CONSTANT Channel  \* The ids of channels to come

VARIABLES
    kind,      \* Each channel: "none", "public", "private" or "chat"
    archived,  \* Those that are soft-deleted
    founders,  \* History: whom each channel was created with
    seat,      \* Each member row: "none", "live" or "left"
    minting,   \* How far each worker's search for a chat is
    pair,      \* The pair it is for
    overtaken, \* History: workers whose pair got a chat since their last search
    raced      \* History: chats that such a worker minted

channelVars ==
    <<kind, archived, founders, seat, minting, pair, overtaken, raced>>

ChannelsInit ==
    /\ kind = [c \in Channel |-> "none"]
    /\ archived = {}
    /\ founders = [c \in Channel |-> {}]
    /\ seat = [c \in Channel |-> [p \in Partner |-> "none"]]
    /\ minting = [w \in Worker |-> "idle"]
    /\ pair = [w \in Worker |-> {}]
    /\ overtaken = {} /\ raced = {}

\* Faulty variant: a chat with oneself.
PairsOrSelf == {two \in SUBSET Partner : \E a, b \in two : two = {a, b}}

Pairs == {two \in SUBSET Partner : \E a, b \in two : a # b /\ two = {a, b}}

Live(c, p) == seat[c][p] = "live"

\* The live chats whose live partners are exactly the two.
Chats(two) ==
    {c \in Channel : /\ kind[c] = "chat" /\ c \notin archived
                     /\ {p \in Partner : Live(c, p)} = two}

Open(c) == kind[c] = "public" /\ c \notin archived

-----------------------------------------------------------------------------
\* The channel and its first members, in one transaction.
Found(c, type, members) ==
    /\ kind[c] = "none"
    /\ kind' = [kind EXCEPT ![c] = type]
    /\ founders' = [founders EXCEPT ![c] = members]
    /\ seat' = [seat EXCEPT ![c] = [p \in Partner |-> IF p \in members THEN "live" ELSE "none"]]

\* A chat is refused here; a group is as closed as a private channel.
Create(c, type, creator) ==
    /\ Call
    /\ Found(c, type, creator)
    /\ UNCHANGED <<archived, minting, pair, overtaken, raced>>

\* The call that finds a chat at once ends without a trace.
FindChat(w, two) ==
    /\ minting[w] = "idle" /\ Chats(two) = {}
    /\ minting' = [minting EXCEPT ![w] = "again"]
    /\ pair' = [pair EXCEPT ![w] = two]
    /\ UNCHANGED <<calls, kind, archived, founders, seat, overtaken, raced>>

EndsMint(w) ==
    /\ minting' = [minting EXCEPT ![w] = "idle"]
    /\ pair' = [pair EXCEPT ![w] = {}]

\* Faulty variant: the chat is minted on the word of the first search.
FindOnce(w) ==
    /\ minting[w] = "again"
    /\ minting' = [minting EXCEPT ![w] = "mint"]
    /\ UNCHANGED <<calls, kind, archived, founders, seat, overtaken, raced, pair>>

FindAgain(w) ==
    /\ minting[w] = "again"
    /\ IF Chats(pair[w]) = {}
       THEN minting' = [minting EXCEPT ![w] = "mint"] /\ UNCHANGED pair
       ELSE EndsMint(w)
    /\ UNCHANGED <<calls, kind, archived, founders, seat, overtaken, raced>>

Rivals(w) == {v \in Worker : minting[v] = "mint" /\ pair[v] = pair[w]}

\* The members' unique indexes are per channel, so that the insert never fails.
MintChat(w, c) ==
    /\ minting[w] = "mint"
    /\ Found(c, "chat", pair[w])
    /\ overtaken' = (overtaken \cup Rivals(w)) \ {w}
    /\ raced' = IF w \in overtaken THEN raced \cup {c} ELSE raced
    /\ EndsMint(w)
    /\ UNCHANGED <<calls, archived>>

\* No search is repeated after an error: the call is over.
LoseMint(w) ==
    /\ minting[w] # "idle"
    /\ EndsMint(w)
    /\ overtaken' = overtaken \ {w}
    /\ UNCHANGED <<calls, kind, archived, founders, seat, raced>>

\* The members keep their rows.
Archive(c) ==
    /\ kind[c] # "none" /\ c \notin archived
    /\ Call
    /\ archived' = archived \cup {c}
    /\ UNCHANGED <<kind, founders, seat, minting, pair, overtaken, raced>>

-----------------------------------------------------------------------------
ChannelsNext ==
    \/ \E c \in Channel :
           \/ \E type \in {"public", "private"} :
                  \E creator \in {{}} \cup {{p} : p \in Partner} : Create(c, type, creator)
           \/ Archive(c)
           \/ \E w \in Worker : MintChat(w, c)
    \/ \E w \in Worker :
           \/ \E two \in Pairs : FindChat(w, two)
           \/ FindAgain(w) \/ LoseMint(w)

ChannelsTypeOK ==
    /\ kind \in [Channel -> {"none", "public", "private", "chat"}]
    /\ archived \in SUBSET Channel /\ raced \in SUBSET Channel
    /\ founders \in [Channel -> SUBSET Partner]
    /\ seat \in [Channel -> [Partner -> {"none", "live", "left"}]]
    /\ minting \in [Worker -> {"idle", "again", "mint"}]
    /\ pair \in [Worker -> SUBSET Partner]
    /\ \A w \in Worker : minting[w] # "idle" => \E a, b \in pair[w] : a # b
    /\ overtaken \in SUBSET Worker

=============================================================================
