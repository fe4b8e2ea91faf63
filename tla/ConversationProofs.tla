------------------------- MODULE ConversationProofs -------------------------
(***************************************************************************)
(* Proofs about the calls of a conversation, for every set of tasks,       *)
(* partners, channels and keys and every bound: the type invariant, and    *)
(* each safety invariant of the run.                                       *)
(***************************************************************************)
EXTENDS Conversation, TLAPS

-----------------------------------------------------------------------------
(***************************************************************************)
(* Marks: a key that no two calls have found off at the same time has one  *)
(* call at most between its DELETE and its commit that found no row, and   *)
(* there is none.                                                          *)
(***************************************************************************)
Toggles ==
    \A w \in Worker :
        /\ found[w] # "nothing" => toggling[w] \in Mark
        /\ found[w] = "conflict" => toggling[w] \in clashed
        /\ found[w] \in {"missing", "inserted"} /\ toggling[w] \notin clashed =>
               /\ toggling[w] \notin marks
               /\ \A v \in Worker \ {w} :
                      ~(toggling[v] = toggling[w] /\ found[v] \in {"missing", "inserted"})

MarksBase == MarksTypeOK /\ Toggles /\ ToldAsIs

LEMMA MarksStep ==
    ASSUME MarksBase, MarksNext
    PROVE  MarksBase'
<1> USE MarksAssumption DEF MarksBase, MarksTypeOK
<1>1. ASSUME NEW w \in Worker, NEW k \in Mark, Toggle(w, k)
      PROVE  MarksBase'
  <2>1. found[w] = "nothing"
    BY <1>1 DEF Toggle, Toggles
  <2>2. Toggles'
    BY <1>1, <2>1 DEF Toggle, Toggles
  <2> QED BY <1>1, <2>2 DEF Toggle, ToldAsIs
<1>2. ASSUME NEW w \in Worker, NEW k \in Mark, k = toggling[w], DeleteMark(w)
      PROVE  MarksBase'
  <2>1. /\ UNCHANGED <<marks, toggling, told>>
        /\ found' = [found EXCEPT ![w] = IF k \in marks THEN "deleted" ELSE "missing"]
        /\ clashed \subseteq clashed' /\ clashed' \in SUBSET Mark
        /\ k \in marks \/ k \in clashed' \/ ~Elsewhere(w, {"missing", "inserted"})
    BY <1>2 DEF DeleteMark
  <2>2. MarksTypeOK'
    BY <2>1
  <2>3. Toggles'
    BY <1>2, <2>1 DEF Toggles, Elsewhere
  <2> QED BY <2>1, <2>2, <2>3 DEF ToldAsIs
<1>3. ASSUME NEW w \in Worker, InsertMark(w)
      PROVE  MarksBase'
  <2>1. /\ UNCHANGED <<marks, toggling, told, clashed>> /\ found[w] = "missing"
        /\ found' = [found EXCEPT ![w] = IF toggling[w] \in marks THEN "conflict" ELSE "inserted"]
    BY <1>3 DEF InsertMark
  <2>2. Toggles'
    BY <2>1 DEF Toggles
  <2> QED BY <2>1, <2>2 DEF ToldAsIs
<1>4. ASSUME NEW w \in Worker, NEW k \in Mark, k = toggling[w], CommitToggle(w)
      PROVE  MarksBase'
  <2>1. /\ toggling' = [toggling EXCEPT ![w] = "none"]
        /\ found' = [found EXCEPT ![w] = "nothing"]
        /\ told' = [told EXCEPT ![k] = (found[w] = "inserted")]
        /\ found[w] \in {"deleted", "inserted", "conflict"} /\ UNCHANGED clashed
    BY <1>4 DEF CommitToggle, EndsToggle
  <2>2. /\ found[w] = "deleted" => marks' = marks \ {k}
        /\ found[w] = "inserted" => marks' = marks \cup {k}
        /\ found[w] = "conflict" => marks' = marks
    BY <1>4 DEF CommitToggle
  <2>3. MarksTypeOK'
    BY <2>1, <2>2
  <2>4. ASSUME NEW v \in Worker, v # w, found[v] \in {"missing", "inserted"},
               toggling[v] \notin clashed
        PROVE  toggling[v] \notin marks'
    <3>1. toggling[v] \notin marks
      BY <2>4 DEF Toggles
    <3>2. found[w] = "inserted" => toggling[v] # k
      BY <1>4, <2>4 DEF Toggles
    <3> QED BY <2>1, <2>2, <3>1, <3>2
  <2>5. Toggles'
    BY <2>1, <2>4 DEF Toggles
  <2>6. k \notin clashed => (told'[k] <=> k \in marks')
    BY <1>4, <2>1, <2>2 DEF Toggles
  <2>7. \A j \in Mark \ {k} : told'[j] = told[j] /\ (j \in marks' <=> j \in marks)
    BY <2>1, <2>2
  <2>8. ASSUME NEW j \in Mark \ clashed
        PROVE  told'[j] = (j \in marks')
    <3>1. told'[j] \in BOOLEAN
      BY <2>3
    <3>2. CASE j = k
      BY <2>6, <2>8, <3>1, <3>2
    <3>3. CASE j # k
      <4>1. told[j] = (j \in marks)
        BY <2>8 DEF ToldAsIs
      <4>2. told'[j] = told[j] /\ (j \in marks' <=> j \in marks)
        BY <2>7, <3>3
      <4>3. (j \in marks') = (j \in marks)
        BY <4>2
      <4> QED BY <4>1, <4>2, <4>3, Zenon
    <3> QED BY <3>2, <3>3
  <2>9. ToldAsIs'
    BY <2>1, <2>8 DEF ToldAsIs
  <2> QED BY <2>3, <2>5, <2>9
<1>5. ASSUME NEW w \in Worker, LoseToggle(w)
      PROVE  MarksBase'
  <2>1. Toggles'
    BY <1>5 DEF LoseToggle, EndsToggle, Toggles
  <2> QED BY <1>5, <2>1 DEF LoseToggle, EndsToggle, ToldAsIs
<1>6. \A w \in Worker : DeleteMark(w) \/ CommitToggle(w) => toggling[w] \in Mark
  BY DEF DeleteMark, CommitToggle, Toggles
<1> QED BY <1>1, <1>2, <1>3, <1>4, <1>5, <1>6 DEF MarksNext

-----------------------------------------------------------------------------
(***************************************************************************)
(* Followers: a call that is between its statements still has its row, or  *)
(* is known to have lost it.                                               *)
(***************************************************************************)
Promises ==
    /\ promised = subtypes
    /\ \A p \in Partner : p \notin followers => subtypes[p] = {}
    /\ \A w \in Worker :
           subscribing[w] # NoUpdate /\ w \notin cut => subscribing[w].partner \in followers

FollowersBase == FollowersTypeOK /\ Promises

LEMMA AppliedType ==
    ASSUME NEW u \in Update, NEW list \in SUBSET Subtype
    PROVE  Applied(u, list) \in SUBSET Subtype
BY DEF Applied, Update

LEMMA FollowersStep ==
    ASSUME FollowersBase, FollowersNext
    PROVE  FollowersBase'
<1> USE DEF FollowersBase, FollowersTypeOK
<1>1. \A u \in Update : u # NoUpdate /\ u.partner \in Partner
  <2>1. SUFFICES ASSUME NEW u \in Update
                 PROVE  u # NoUpdate /\ u.partner \in Partner
    OBVIOUS
  <2>2. u.policy \in {"replace", "update"} /\ u.partner \in Partner
    BY DEF Update
  <2>3. NoUpdate.policy = "none"
    BY DEF NoUpdate
  <2> QED BY <2>2, <2>3
<1>2. ASSUME NEW p \in Partner, NEW list \in SUBSET Subtype, SubscribeNew(p, list)
      PROVE  FollowersBase'
  <2>1. FollowersTypeOK'
    BY <1>2 DEF SubscribeNew
  <2>2. Promises'
    BY <1>2 DEF SubscribeNew, Promises
  <2> QED BY <2>1, <2>2
<1>3. ASSUME NEW p \in Partner, NEW list \in SUBSET Subtype, NEW w \in Worker,
             NEW policy \in {"replace", "update"}, SubscribeAgain(w, p, list, policy)
      PROVE  FollowersBase'
  <2>1. PICK u : u = [policy |-> policy, partner |-> p, subtypes |-> list]
    OBVIOUS
  <2>2. u \in Update /\ u.partner = p /\ p \in followers
    BY <1>3, <2>1 DEF Update, SubscribeAgain
  <2>3. /\ UNCHANGED <<followers, subtypes, cut, promised>>
        /\ subscribing' = [subscribing EXCEPT ![w] = u]
    BY <1>3, <2>1 DEF SubscribeAgain
  <2> QED BY <2>2, <2>3 DEF Promises
<1>4. ASSUME NEW w \in Worker, NEW u, u = subscribing[w], ApplyPolicy(w)
      PROVE  FollowersBase'
  <2>1. /\ u \in Update /\ u.partner \in Partner /\ u # NoUpdate
        /\ UNCHANGED followers
        /\ subtypes' = [subtypes EXCEPT ![u.partner] =
                          IF u.partner \in followers THEN Applied(u, @) ELSE @]
        /\ promised' = [promised EXCEPT ![u.partner] = IF Missed(w) THEN @ ELSE Applied(u, @)]
        /\ subscribing' = [subscribing EXCEPT ![w] = NoUpdate]
        /\ cut' = cut \ {w}
    BY <1>1, <1>4 DEF ApplyPolicy
  <2>2. Missed(w) <=> u.partner \notin followers
    BY <1>4, <2>1 DEF Missed, Promises
  <2>3. promised' = subtypes'
    BY <2>1, <2>2 DEF Promises
  <2>4. FollowersTypeOK'
    <3>1. Applied(u, subtypes[u.partner]) \in SUBSET Subtype
      BY <2>1, AppliedType
    <3>2. subtypes' \in [Partner -> SUBSET Subtype]
      BY <2>1, <3>1
    <3> QED BY <2>1, <2>3, <3>2
  <2>5. \A p \in Partner : p \notin followers => subtypes'[p] = {}
    BY <2>1 DEF Promises
  <2>6. \A v \in Worker : subscribing'[v] # NoUpdate /\ v \notin cut' =>
            subscribing'[v].partner \in followers
    BY <2>1 DEF Promises
  <2> QED BY <2>1, <2>3, <2>4, <2>5, <2>6 DEF Promises
<1>5. ASSUME NEW p \in Partner, Unsubscribe(p)
      PROVE  FollowersBase'
  <2>1. FollowersTypeOK'
    BY <1>5 DEF Unsubscribe
  <2>2. Promises'
    BY <1>5 DEF Unsubscribe, Promises
  <2> QED BY <2>1, <2>2
<1>6. ASSUME NEW w \in Worker, LoseSubscribe(w)
      PROVE  FollowersBase'
  <2>1. FollowersTypeOK'
    BY <1>6 DEF LoseSubscribe
  <2>2. Promises'
    BY <1>6 DEF LoseSubscribe, Promises
  <2> QED BY <2>1, <2>2
<1> QED BY <1>2, <1>3, <1>4, <1>5, <1>6 DEF FollowersNext

-----------------------------------------------------------------------------
(***************************************************************************)
(* Presences, in the same way.                                             *)
(***************************************************************************)
Polls ==
    \A w \in Worker : polling[w] # "none" /\ w \notin reaped => presence[polling[w]] # "none"

PresencesBase == PresencesTypeOK /\ Polls /\ KeptOnline

LEMMA PresencesStep ==
    ASSUME PresencesBase, PresencesNext
    PROVE  PresencesBase'
<1> USE CallersAssumption DEF PresencesBase, PresencesTypeOK, Polls, KeptOnline
<1>1. ASSUME NEW p \in Partner, PollFirst(p) \/ GrowStale(p)
      PROVE  PresencesBase'
  BY <1>1 DEF PollFirst, GrowStale
<1>2. ASSUME NEW p \in Partner, NEW w \in Worker, PollAgain(w, p)
      PROVE  PresencesBase'
  BY <1>2 DEF PollAgain
<1>3. ASSUME NEW w \in Worker, RefreshLastPoll(w)
      PROVE  PresencesBase'
  BY <1>3 DEF RefreshLastPoll
<1>4. ASSUME NEW w \in Worker, LosePoll(w)
      PROVE  PresencesBase'
  BY <1>4 DEF LosePoll
<1>5. CASE PresenceGc
  BY <1>5 DEF PresenceGc, Stale
<1> QED BY <1>1, <1>2, <1>3, <1>4, <1>5 DEF PresencesNext

-----------------------------------------------------------------------------
(***************************************************************************)
(* Channels and members.                                                   *)
(***************************************************************************)
\* A visit is to a channel that is there; a join is of one who may be in.
Visits ==
    \A w \in Worker : visiting[w] # Idle =>
        LET s == visiting[w].seat IN
        /\ kind[s[1]] # "none"
        /\ visiting[w].verb \in Pointers => visiting[w].message \in Message
        /\ visiting[w].verb = "join" =>
               s \notin out /\ (kind[s[1]] = "public" \/ s[2] \in founders[s[1]])

\* Whoever is out has left, and whoever sits in a closed channel founded it.
Rights ==
    /\ \A s \in out : seat[s[1]][s[2]] = "left"
    /\ \A c \in Channel, p \in Partner : kind[c] = "none" => seat[c][p] = "none"
    /\ \A c \in Channel, p \in Partner :
           Live(c, p) /\ kind[c] # "public" => p \in founders[c]

\* A call that is to mint a chat, and was not overtaken, knows of all chats of its
\* pair but those that were raced or revived.
Mints ==
    /\ \A c \in Channel : kind[c] = "chat" => founders[c] \in Pairs
    /\ \A w \in Worker : minting[w] # "idle" => pair[w] \in Pairs
    /\ \A w \in Worker : minting[w] = "mint" /\ w \notin overtaken =>
           Chats(pair[w]) \subseteq raced \cup revived

ChannelsBase ==
    /\ ChannelsTypeOK /\ MembersTypeOK /\ Visits /\ Rights
    /\ Mints /\ ForksWereRaced /\ PointerIsNewestRead

\* Someone's visit is to a seat, on one of its errands.
LEMMA VisitIsThere ==
    ASSUME MembersTypeOK, NEW w \in Worker, visiting[w].verb \in Pointers \cup {"join", "leave"}
    PROVE  /\ visiting[w] # Idle /\ visiting[w] \in Visit
           /\ visiting[w].seat \in Seats
           /\ visiting[w].seat[1] \in Channel /\ visiting[w].seat[2] \in Partner
<1>1. visiting[w] # Idle
  BY DEF Idle, Pointers
<1>2. visiting[w] \in Visit
  BY <1>1 DEF MembersTypeOK
<1>3. visiting[w].seat \in Seats
  BY <1>2 DEF Visit
<1> QED BY <1>1, <1>2, <1>3 DEF Seats

\* Two different partners, and nobody else.
LEMMA PairsArePartners ==
    ASSUME NEW two \in Pairs
    PROVE  two \in SUBSET Partner /\ \E a, b \in two : a # b /\ two = {a, b}
BY DEF Pairs

\* The chats of a pair are those of one kind, not archived, and with these two live.
LEMMA FoundStep ==
    ASSUME ChannelsBase, NEW c \in Channel, NEW type \in {"public", "private", "chat"},
           NEW members \in SUBSET Partner, Found(c, type, members),
           UNCHANGED <<archived, memberVars>>
    PROVE  /\ kind' \in [Channel -> {"none", "public", "private", "chat"}]
           /\ founders' \in [Channel -> SUBSET Partner]
           /\ seat' \in [Channel -> [Partner -> {"none", "live", "left"}]]
           /\ MembersTypeOK' /\ Visits' /\ Rights' /\ PointerIsNewestRead'
           /\ \A d \in Channel : kind'[d] = "chat" =>
                  founders'[d] \in Pairs \/ (d = c /\ type = "chat" /\ founders'[d] = members)
           /\ \A two : Chats(two)' \subseteq Chats(two) \cup {c} /\ c \notin Chats(two)
           /\ \A two : c \in Chats(two)' => type = "chat" /\ two = members
<1> USE DEF ChannelsBase, ChannelsTypeOK
<1>1. /\ kind[c] = "none"
      /\ kind' = [kind EXCEPT ![c] = type]
      /\ founders' = [founders EXCEPT ![c] = members]
      /\ seat' = [seat EXCEPT ![c] = [p \in Partner |-> IF p \in members THEN "live" ELSE "none"]]
      /\ UNCHANGED <<archived, pointer, visiting, read, out, revived>>
  BY DEF Found, memberVars
<1>2. /\ kind' \in [Channel -> {"none", "public", "private", "chat"}]
      /\ founders' \in [Channel -> SUBSET Partner]
      /\ seat' \in [Channel -> [Partner -> {"none", "live", "left"}]]
  BY <1>1
<1>3. MembersTypeOK' /\ PointerIsNewestRead'
  BY <1>1 DEF MembersTypeOK, PointerIsNewestRead
<1>4. \A d \in Channel : d # c =>
          kind'[d] = kind[d] /\ founders'[d] = founders[d] /\ seat'[d] = seat[d]
  BY <1>1
<1>5. Visits'
  <2>1. SUFFICES ASSUME NEW w \in Worker, visiting[w] # Idle,
                        NEW s \in Seats, s = visiting[w].seat
                 PROVE  /\ kind'[s[1]] # "none"
                        /\ visiting[w].verb \in Pointers => visiting[w].message \in Message
                        /\ visiting[w].verb = "join" =>
                               s \notin out /\ (kind'[s[1]] = "public" \/ s[2] \in founders'[s[1]])
    <3>1. \A w \in Worker : visiting[w] # Idle => visiting[w].seat \in Seats
      BY DEF MembersTypeOK, Visit
    <3> QED BY <1>1, <3>1 DEF Visits
  <2>2. s[1] \in Channel /\ s[1] # c
    BY <1>1, <2>1 DEF Visits, Seats
  <2> QED BY <1>4, <2>1, <2>2 DEF Visits
<1>6. Rights'
  <2>1. \A s \in out : s[1] \in Channel /\ s[2] \in Partner
    BY DEF MembersTypeOK, Seats
  <2>2. \A s \in out : s[1] # c
    BY <1>1, <2>1 DEF Rights
  <2>3. \A p \in Partner : seat'[c][p] = IF p \in members THEN "live" ELSE "none"
    BY <1>1
  <2>4. kind'[c] = type /\ founders'[c] = members
    BY <1>1
  <2>5. \A s \in out : seat'[s[1]][s[2]] = "left"
    BY <1>4, <2>1, <2>2 DEF Rights
  <2>6. \A d \in Channel, p \in Partner : kind'[d] = "none" => seat'[d][p] = "none"
    BY <1>4, <2>4 DEF Rights
  <2>7. \A d \in Channel, p \in Partner :
            seat'[d][p] = "live" /\ kind'[d] # "public" => p \in founders'[d]
    BY <1>4, <2>3, <2>4 DEF Rights, Live
  <2> QED BY <1>1, <2>5, <2>6, <2>7 DEF Rights, Live
<1>7. \A d \in Channel : kind'[d] = "chat" =>
          founders'[d] \in Pairs \/ (d = c /\ type = "chat" /\ founders'[d] = members)
  BY <1>1, <1>4 DEF Mints
<1>8. \A two : Chats(two)' \subseteq Chats(two) \cup {c} /\ c \notin Chats(two)
  BY <1>1, <1>4 DEF Chats, Live
<1>9. \A two : c \in Chats(two)' => type = "chat" /\ two = members
  <2>1. {p \in Partner : Live(c, p)}' = members
    BY <1>1 DEF Live
  <2> QED BY <1>1, <2>1 DEF Chats
<1> QED BY <1>2, <1>3, <1>5, <1>6, <1>7, <1>8, <1>9

\* A search that takes a step and mints nothing.
LEMMA SearchStep ==
    ASSUME ChannelsBase, NEW w \in Worker, NEW two \in Pairs \cup {{}},
           NEW far \in {"idle", "again", "mint"},
           minting' = [minting EXCEPT ![w] = far], pair' = [pair EXCEPT ![w] = two],
           far # "idle" => two \in Pairs,
           far = "mint" => Chats(two) = {},
           overtaken \ {w} \subseteq overtaken', overtaken' \in SUBSET Worker,
           UNCHANGED <<kind, archived, founders, seat, raced, memberVars>>
    PROVE  ChannelsBase'
<1> USE DEF ChannelsBase, ChannelsTypeOK
<1>1. \A t : Chats(t)' = Chats(t)
  BY DEF Chats, Live
<1>2. two \in SUBSET Partner /\ (far # "idle" => \E a, b \in two : a # b)
  BY PairsArePartners
<1>3. ChannelsTypeOK'
  BY <1>2
<1>4. MembersTypeOK' /\ Visits' /\ Rights' /\ PointerIsNewestRead'
  BY DEF memberVars, MembersTypeOK, Visits, Rights, PointerIsNewestRead, Live
<1>5. ForksWereRaced'
  BY <1>1 DEF ForksWereRaced, memberVars
<1>6. ASSUME NEW v \in Worker, minting'[v] = "mint", v \notin overtaken', NEW t, t = pair'[v]
      PROVE  Chats(t)' \subseteq raced' \cup revived'
  <2>1. CASE v = w
    BY <1>1, <1>6, <2>1
  <2>2. CASE v # w
    BY <1>1, <1>6, <2>2 DEF Mints, memberVars
  <2> QED BY <2>1, <2>2
<1>7. Mints'
  <2>1. \A v \in Worker : minting'[v] # "idle" => pair'[v] \in Pairs
    BY DEF Mints
  <2>2. ASSUME NEW v \in Worker, minting'[v] = "mint", v \notin overtaken'
        PROVE  Chats(pair[v])' \subseteq raced' \cup revived'
    <3>1. PICK t : t = pair'[v]
      OBVIOUS
    <3>2. Chats(pair[v])' = Chats(t)'
      BY <3>1 DEF Chats
    <3> QED BY <1>6, <2>2, <3>1, <3>2
  <2> QED BY <2>1, <2>2 DEF Mints
<1> QED BY <1>3, <1>4, <1>5, <1>7

LEMMA MintStep ==
    ASSUME ChannelsBase, NEW w \in Worker, NEW c \in Channel, NEW two, two = pair[w],
           MintChat(w, c), UNCHANGED memberVars
    PROVE  ChannelsBase'
<1> USE DEF ChannelsBase, ChannelsTypeOK
<1>1. /\ minting[w] = "mint" /\ Found(c, "chat", two)
      /\ overtaken' = (overtaken \cup Rivals(w)) \ {w}
      /\ raced' = IF w \in overtaken THEN raced \cup {c} ELSE raced
      /\ minting' = [minting EXCEPT ![w] = "idle"] /\ pair' = [pair EXCEPT ![w] = {}]
      /\ UNCHANGED <<archived, revived>>
  BY DEF MintChat, EndsMint, memberVars
<1>2. two \in Pairs /\ two \in SUBSET Partner
  BY <1>1, PairsArePartners DEF Mints
<1>3. /\ kind' \in [Channel -> {"none", "public", "private", "chat"}]
      /\ founders' \in [Channel -> SUBSET Partner]
      /\ seat' \in [Channel -> [Partner -> {"none", "live", "left"}]]
      /\ MembersTypeOK' /\ Visits' /\ Rights' /\ PointerIsNewestRead'
      /\ \A d \in Channel : kind'[d] = "chat" => founders'[d] \in Pairs
      /\ \A t : Chats(t)' \subseteq Chats(t) \cup {c} /\ c \notin Chats(t)
      /\ \A t : c \in Chats(t)' => t = two
  <2>1. UNCHANGED <<archived, memberVars>>
    BY <1>1
  <2> QED BY <1>1, <1>2, <2>1, FoundStep
<1>4. ChannelsTypeOK'
  BY <1>1, <1>3 DEF Rivals
<1>5. w \notin overtaken => Chats(two) \subseteq raced \cup revived
  BY <1>1 DEF Mints
<1>6. ForksWereRaced'
  <2>1. SUFFICES ASSUME NEW t \in Pairs, NEW d \in Chats(t)', NEW e \in Chats(t)', d # e
                 PROVE  {d, e} \cap (raced' \cup revived') # {}
    BY DEF ForksWereRaced
  <2>2. CASE d # c /\ e # c
    BY <1>1, <1>3, <2>1, <2>2 DEF ForksWereRaced
  <2>3. CASE d = c \/ e = c
    <3>1. t = two
      BY <1>3, <2>1, <2>3
    <3>2. CASE w \in overtaken
      BY <1>1, <2>3, <3>2
    <3>3. CASE w \notin overtaken
      BY <1>1, <1>3, <1>5, <2>1, <2>3, <3>1, <3>3
    <3> QED BY <3>2, <3>3
  <2> QED BY <2>2, <2>3
<1>7. ASSUME NEW v \in Worker, minting'[v] = "mint", v \notin overtaken'
      PROVE  Chats(pair[v])' \subseteq raced' \cup revived'
  <2>1. v # w /\ minting[v] = "mint" /\ pair'[v] = pair[v] /\ v \notin overtaken
    BY <1>1, <1>7
  <2>2. PICK t : t = pair[v] /\ t = pair'[v]
    BY <2>1
  <2>3. t # two
    BY <1>1, <1>7, <2>1, <2>2 DEF Rivals
  <2>4. Chats(pair[v])' = Chats(t)'
    BY <2>2 DEF Chats
  <2>5. Chats(t) \subseteq raced \cup revived
    BY <2>1, <2>2 DEF Mints
  <2>6. Chats(t)' \subseteq Chats(t)
    BY <1>3, <2>3
  <2> QED BY <1>1, <2>4, <2>5, <2>6
<1>8. Mints'
  BY <1>1, <1>3, <1>7 DEF Mints
<1> QED BY <1>3, <1>4, <1>6, <1>8

LEMMA ChannelsStep ==
    ASSUME ChannelsBase, ChannelsNext, UNCHANGED memberVars
    PROVE  ChannelsBase'
<1> USE DEF ChannelsBase, ChannelsTypeOK
<1>1. ASSUME NEW c \in Channel, NEW type \in {"public", "private"},
             NEW creator \in SUBSET Partner, Create(c, type, creator)
      PROVE  ChannelsBase'
  <2>1. Found(c, type, creator) /\ UNCHANGED <<archived, minting, pair, overtaken, raced>>
    BY <1>1 DEF Create
  <2>2. /\ kind' \in [Channel -> {"none", "public", "private", "chat"}]
        /\ founders' \in [Channel -> SUBSET Partner]
        /\ seat' \in [Channel -> [Partner -> {"none", "live", "left"}]]
        /\ MembersTypeOK' /\ Visits' /\ Rights' /\ PointerIsNewestRead'
        /\ \A d \in Channel : kind'[d] = "chat" => founders'[d] \in Pairs
        /\ \A t : Chats(t)' \subseteq Chats(t) \cup {c} /\ c \notin Chats(t)
        /\ \A t : c \notin Chats(t)'
    <3>1. type \in {"public", "private", "chat"} /\ type # "chat"
      OBVIOUS
    <3> QED BY <2>1, <3>1, FoundStep
  <2>3. \A t : Chats(t)' \subseteq Chats(t)
    BY <2>2
  <2>4. UNCHANGED revived
    BY DEF memberVars
  <2>5. ForksWereRaced'
    BY <2>1, <2>3, <2>4 DEF ForksWereRaced
  <2>6. Mints'
    <3>1. ASSUME NEW v \in Worker, minting'[v] = "mint", v \notin overtaken'
          PROVE  Chats(pair[v])' \subseteq raced' \cup revived'
      <4>1. PICK t : t = pair[v]
        OBVIOUS
      <4>2. Chats(pair[v])' = Chats(t)'
        BY <2>1, <4>1 DEF Chats
      <4> QED BY <2>1, <2>3, <2>4, <3>1, <4>1, <4>2 DEF Mints
    <3> QED BY <2>1, <2>2, <3>1 DEF Mints
  <2> QED BY <2>1, <2>2, <2>5, <2>6
<1>2. ASSUME NEW c \in Channel, Archive(c)
      PROVE  ChannelsBase'
  <2>1. /\ UNCHANGED <<kind, founders, seat, minting, pair, overtaken, raced>>
        /\ archived' = archived \cup {c}
        /\ UNCHANGED <<pointer, visiting, read, out, revived>>
    BY <1>2 DEF Archive, memberVars
  <2>2. \A t : Chats(t)' \subseteq Chats(t)
    BY <2>1 DEF Chats, Live
  <2>3. ChannelsTypeOK' /\ MembersTypeOK' /\ PointerIsNewestRead'
    BY <2>1 DEF MembersTypeOK, PointerIsNewestRead
  <2>4. Visits' /\ Rights'
    BY <2>1 DEF Visits, Rights, Live
  <2>5. ForksWereRaced'
    BY <2>1, <2>2 DEF ForksWereRaced
  <2>6. Mints'
    <3>1. ASSUME NEW v \in Worker, minting'[v] = "mint", v \notin overtaken'
          PROVE  Chats(pair[v])' \subseteq raced' \cup revived'
      <4>1. PICK t : t = pair[v]
        OBVIOUS
      <4>2. Chats(pair[v])' = Chats(t)'
        BY <2>1, <4>1 DEF Chats
      <4> QED BY <2>1, <2>2, <3>1, <4>1, <4>2 DEF Mints
    <3> QED BY <2>1, <3>1 DEF Mints
  <2> QED BY <2>3, <2>4, <2>5, <2>6
<1>3. ASSUME NEW w \in Worker, NEW two \in Pairs, FindChat(w, two)
      PROVE  ChannelsBase'
  <2>1. /\ minting' = [minting EXCEPT ![w] = "again"] /\ pair' = [pair EXCEPT ![w] = two]
        /\ UNCHANGED <<kind, archived, founders, seat, overtaken, raced, memberVars>>
    BY <1>3 DEF FindChat
  <2> QED BY <2>1, SearchStep
<1>4. ASSUME NEW w \in Worker, FindAgain(w)
      PROVE  ChannelsBase'
  <2>1. UNCHANGED <<kind, archived, founders, seat, overtaken, raced, memberVars>>
    BY <1>4 DEF FindAgain
  <2>2. CASE Chats(pair[w]) = {}
    <3>1. PICK two : two = pair[w]
      OBVIOUS
    <3>2. two \in Pairs /\ Chats(two) = {}
      BY <1>4, <2>2, <3>1 DEF FindAgain, Mints
    <3>3. minting' = [minting EXCEPT ![w] = "mint"] /\ pair' = [pair EXCEPT ![w] = two]
      BY <1>4, <2>2, <3>1 DEF FindAgain
    <3> QED BY <2>1, <3>2, <3>3, SearchStep
  <2>3. CASE Chats(pair[w]) # {}
    <3>1. minting' = [minting EXCEPT ![w] = "idle"] /\ pair' = [pair EXCEPT ![w] = {}]
      BY <1>4, <2>3 DEF FindAgain, EndsMint
    <3> QED BY <2>1, <3>1, SearchStep
  <2> QED BY <2>2, <2>3
<1>5. ASSUME NEW w \in Worker, LoseMint(w)
      PROVE  ChannelsBase'
  <2>1. /\ minting' = [minting EXCEPT ![w] = "idle"] /\ pair' = [pair EXCEPT ![w] = {}]
        /\ overtaken' = overtaken \ {w}
        /\ UNCHANGED <<kind, archived, founders, seat, raced, memberVars>>
    BY <1>5 DEF LoseMint, EndsMint
  <2> QED BY <2>1, SearchStep
<1>6. \A p \in Partner : {p} \in SUBSET Partner
  OBVIOUS
<1> QED BY <1>1, <1>2, <1>3, <1>4, <1>5, <1>6, MintStep DEF ChannelsNext

\* A call on a member that begins.
LEMMA EntersStep ==
    ASSUME ChannelsBase, NEW w \in Worker, NEW verb \in Pointers \cup {"join", "leave"},
           NEW s \in Seats, NEW m \in Message \cup {0}, Enters(w, verb, s, m),
           kind[s[1]] # "none", verb \in Pointers => m \in Message,
           out' \subseteq out,
           verb = "join" => s \notin out' /\ (kind[s[1]] = "public" \/ s[2] \in founders[s[1]]),
           UNCHANGED <<channelVars, pointer, read, revived>>
    PROVE  ChannelsBase'
<1> USE DEF ChannelsBase
<1>1. UNCHANGED <<kind, archived, founders, seat, minting, pair, overtaken, raced>>
  BY DEF channelVars
<1>2. ChannelsTypeOK' /\ PointerIsNewestRead' /\ Rights'
  BY <1>1 DEF ChannelsTypeOK, PointerIsNewestRead, Rights, Live
<1>3. \A t : Chats(t)' = Chats(t)
  BY <1>1 DEF Chats, Live
<1>4. ForksWereRaced'
  BY <1>1, <1>3 DEF ForksWereRaced
<1>5. Mints'
  <2>1. \A v \in Worker : Chats(pair[v])' = Chats(pair[v])
    BY <1>1 DEF Chats, Live
  <2> QED BY <1>1, <2>1 DEF Mints
<1>6. PICK v : v = [verb |-> verb, seat |-> s, message |-> m]
  OBVIOUS
<1>7. /\ v \in Visit /\ v.verb = verb /\ v.seat = s /\ v.message = m
      /\ visiting' = [visiting EXCEPT ![w] = v]
  BY <1>6 DEF Visit, Enters
<1>8. MembersTypeOK'
  BY <1>7 DEF MembersTypeOK
<1>9. Visits'
  <2>1. visiting'[w] = v /\ \A u \in Worker \ {w} : visiting'[u] = visiting[u]
    BY <1>7 DEF MembersTypeOK
  <2> QED BY <1>1, <1>7, <2>1 DEF Visits
<1> QED BY <1>2, <1>4, <1>5, <1>8, <1>9

\* A call on a member that ends, and leaves its row as it is.
LEMMA LeavesStep ==
    ASSUME ChannelsBase, NEW w \in Worker, Leaves(w),
           UNCHANGED <<channelVars, out, revived>>,
           pointer' \in [Pointers -> [Seats -> Message \cup {0}]],
           read' \in [Pointers -> [Seats -> SUBSET Message]],
           PointerIsNewestRead'
    PROVE  ChannelsBase'
<1> USE DEF ChannelsBase
<1>1. UNCHANGED <<kind, archived, founders, seat, minting, pair, overtaken, raced>>
  BY DEF channelVars
<1>2. ChannelsTypeOK' /\ Rights'
  BY <1>1 DEF ChannelsTypeOK, Rights, Live
<1>3. \A t : Chats(t)' = Chats(t)
  BY <1>1 DEF Chats, Live
<1>4. ForksWereRaced'
  BY <1>1, <1>3 DEF ForksWereRaced
<1>5. Mints'
  <2>1. \A v \in Worker : Chats(pair[v])' = Chats(pair[v])
    BY <1>1 DEF Chats, Live
  <2> QED BY <1>1, <2>1 DEF Mints
<1>6. visiting' = [visiting EXCEPT ![w] = Idle]
  BY DEF Leaves
<1>7. MembersTypeOK'
  BY <1>6 DEF MembersTypeOK
<1>8. Visits'
  <2>1. visiting'[w] = Idle /\ \A u \in Worker \ {w} : visiting'[u] = visiting[u]
    BY <1>6 DEF MembersTypeOK
  <2> QED BY <1>1, <2>1 DEF Visits
<1> QED BY <1>2, <1>4, <1>5, <1>7, <1>8

\* A seat that changes hands: what that is to the chats.
LEMMA SeatStep ==
    ASSUME ChannelsBase, NEW w \in Worker, visiting[w] # Idle,
           NEW c \in Channel, NEW p \in Partner, visiting[w].seat = <<c, p>>,
           NEW now \in {"live", "left"}, seat' = [seat EXCEPT ![c][p] = now],
           now = "live" => kind[c] = "public" \/ p \in founders[c],
           now = "live" => <<c, p>> \notin out',
           out' \subseteq out \cup {<<c, p>>},
           revived' \in SUBSET Channel, revived \subseteq revived',
           now = "live" /\ kind[c] = "chat" /\ ~Live(c, p) => c \in revived',
           \A v \in Worker : v # w /\ visiting[v].verb = "join" /\ visiting[v].seat = <<c, p>> =>
               <<c, p>> \notin out' \ out,
           Leaves(w),
           UNCHANGED <<kind, archived, founders, minting, pair, overtaken, raced, pointer, read>>
    PROVE  ChannelsBase'
<1> USE DEF ChannelsBase
<1>1. /\ \A d \in Channel, q \in Partner :
             seat'[d][q] = IF d = c /\ q = p THEN now ELSE seat[d][q]
      /\ ChannelsTypeOK'
  BY DEF ChannelsTypeOK
<1>2. /\ visiting' = [visiting EXCEPT ![w] = Idle] /\ <<c, p>> \in Seats
      /\ MembersTypeOK' /\ PointerIsNewestRead'
  <2>1. visiting' = [visiting EXCEPT ![w] = Idle] /\ <<c, p>> \in Seats
    BY DEF Leaves, Seats
  <2>2. visiting' \in [Worker -> Visit \cup {Idle}]
    BY <2>1 DEF MembersTypeOK
  <2>3. out' \in SUBSET Seats
    BY <2>1 DEF MembersTypeOK
  <2>4. MembersTypeOK'
    BY <2>2, <2>3 DEF MembersTypeOK
  <2>5. PointerIsNewestRead'
    BY DEF PointerIsNewestRead
  <2> QED BY <2>1, <2>4, <2>5
<1>3. kind[c] # "none"
  <2>1. <<c, p>>[1] = c
    OBVIOUS
  <2> QED BY <2>1 DEF Visits
<1>4. Rights'
  <2>1. ASSUME NEW s \in out'
        PROVE  seat'[s[1]][s[2]] = "left"
    <3>1. s \in Seats /\ s = <<s[1], s[2]>> /\ s[1] \in Channel /\ s[2] \in Partner
      BY <1>2, <2>1 DEF MembersTypeOK, Seats
    <3>2. CASE s = <<c, p>>
      BY <1>1, <2>1, <3>1, <3>2
    <3>3. CASE s # <<c, p>>
      <4>1. seat[s[1]][s[2]] = "left"
        BY <2>1, <3>3 DEF Rights
      <4>2. ~(s[1] = c /\ s[2] = p)
        BY <3>1, <3>3
      <4> QED BY <1>1, <3>1, <4>1, <4>2
    <3> QED BY <3>2, <3>3
  <2>2. \A d \in Channel, q \in Partner : kind'[d] = "none" => seat'[d][q] = "none"
    BY <1>1, <1>3 DEF Rights
  <2>3. \A d \in Channel, q \in Partner :
            seat'[d][q] = "live" /\ kind'[d] # "public" => q \in founders'[d]
    BY <1>1 DEF Rights, Live
  <2> QED BY <2>1, <2>2, <2>3 DEF Rights, Live
<1>5. Visits'
  <2>1. visiting'[w] = Idle /\ \A u \in Worker \ {w} : visiting'[u] = visiting[u]
    BY <1>2 DEF MembersTypeOK
  <2>2. ASSUME NEW u \in Worker \ {w}, visiting[u].verb = "join", visiting[u] # Idle
        PROVE  visiting[u].seat \notin out'
    BY <2>2 DEF Visits
  <2> QED BY <2>1, <2>2 DEF Visits
<1>6. ASSUME NEW t \in Pairs
      PROVE  Chats(t)' \subseteq Chats(t) \cup revived'
  <2>1. SUFFICES ASSUME NEW d \in Chats(t)', d \notin revived'
                 PROVE  d \in Chats(t)
    OBVIOUS
  <2>2. /\ d \in Channel /\ kind[d] = "chat" /\ d \notin archived
        /\ \A q \in Partner : seat'[d][q] = "live" <=> q \in t
        /\ t \subseteq Partner
    BY <2>1 DEF Chats, Live
  <2>3. CASE \A q \in Partner : Live(d, q) <=> seat'[d][q] = "live"
    BY <2>2, <2>3 DEF Chats
  <2>4. CASE ~\A q \in Partner : Live(d, q) <=> seat'[d][q] = "live"
    <3>1. d = c /\ ~(Live(c, p) <=> now = "live")
      BY <1>1, <2>2, <2>4 DEF Live
    <3>2. now = "left" /\ Live(c, p)
      BY <2>1, <2>2, <3>1
    <3>3. p \in founders[c] /\ founders[c] \in Pairs
      BY <2>2, <3>1, <3>2 DEF Rights, Mints
    <3>4. \A q \in t : q \in founders[c] /\ q # p
      BY <1>1, <2>2, <3>1, <3>2 DEF Rights, Live
    <3>5. \E a, b \in founders[c] : a # b /\ founders[c] = {a, b}
      BY <3>3, PairsArePartners
    <3>6. \E a, b \in t : a # b
      BY PairsArePartners
    <3> QED BY <3>3, <3>4, <3>5, <3>6
  <2> QED BY <2>3, <2>4
<1>7. ForksWereRaced'
  <2>1. SUFFICES ASSUME NEW t \in Pairs, NEW d \in Chats(t)', NEW e \in Chats(t)', d # e
                 PROVE  {d, e} \cap (raced' \cup revived') # {}
    BY DEF ForksWereRaced
  <2> QED BY <1>6, <2>1 DEF ForksWereRaced
<1>8. Mints'
  <2>1. ASSUME NEW v \in Worker, minting'[v] = "mint", v \notin overtaken'
        PROVE  Chats(pair[v])' \subseteq raced' \cup revived'
    <3>1. PICK t : t = pair[v]
      OBVIOUS
    <3>2. Chats(pair[v])' = Chats(t)'
      BY <3>1 DEF Chats
    <3>3. t \in Pairs /\ Chats(t) \subseteq raced \cup revived
      BY <2>1, <3>1 DEF Mints
    <3> QED BY <1>6, <3>2, <3>3
  <2> QED BY <2>1 DEF Mints
<1> QED BY <1>1, <1>2, <1>4, <1>5, <1>7, <1>8

LEMMA MembersStep ==
    ASSUME ChannelsBase, MembersNext
    PROVE  ChannelsBase'
<1> USE DEF ChannelsBase
<1>1. \A s \in Seats : s[1] \in Channel /\ s[2] \in Partner /\ s = <<s[1], s[2]>>
  BY DEF Seats
<1>2. ASSUME NEW w \in Worker, NEW s \in Seats, NEW k \in Pointers, NEW m \in Message,
             ClaimMember(w, k, s, m)
      PROVE  ChannelsBase'
  <2>1. kind[s[1]] # "none"
    BY <1>1, <1>2 DEF ClaimMember, Live, Rights
  <2>2. k # "join" /\ k \in Pointers \cup {"join", "leave"} /\ m \in Message \cup {0}
    BY DEF Pointers
  <2>3. Enters(w, k, s, m) /\ UNCHANGED <<channelVars, pointer, read, out, revived>>
    BY <1>2 DEF ClaimMember
  <2> QED BY <2>1, <2>2, <2>3, EntersStep
<1>3. ASSUME NEW w \in Worker, NEW s \in Seats, Join(w, s)
      PROVE  ChannelsBase'
  <2>1. CASE Open(s[1])
    BY <1>3, <2>1, EntersStep DEF Join, Open, Pointers
  <2>2. CASE ~Open(s[1])
    <3>1. Live(s[1], s[2]) /\ UNCHANGED out
      BY <1>3, <2>2 DEF Join
    <3>2. /\ kind[s[1]] # "none" /\ s \notin out
          /\ kind[s[1]] = "public" \/ s[2] \in founders[s[1]]
      BY <1>1, <3>1 DEF Live, Rights
    <3>3. /\ "join" \in Pointers \cup {"join", "leave"} /\ "join" \notin Pointers
          /\ 0 \in Message \cup {0} /\ Enters(w, "join", s, 0)
          /\ UNCHANGED <<channelVars, pointer, read, revived>>
      BY <1>3 DEF Join, Pointers
    <3> QED BY <3>1, <3>2, <3>3, EntersStep
  <2> QED BY <2>1, <2>2
<1>4. ASSUME NEW w \in Worker, NEW s \in Seats, Leave(w, s)
      PROVE  ChannelsBase'
  <2>1. kind[s[1]] # "none"
    BY <1>1, <1>4 DEF Leave, Live, Rights
  <2>2. /\ "leave" \in Pointers \cup {"join", "leave"} /\ "leave" \notin Pointers
        /\ 0 \in Message \cup {0} /\ Enters(w, "leave", s, 0)
        /\ UNCHANGED <<channelVars, pointer, read, out, revived>>
    BY <1>4 DEF Leave, Pointers
  <2> QED BY <2>1, <2>2, EntersStep
<1>5. ASSUME NEW w \in Worker, AdvancePointer(w)
      PROVE  ChannelsBase'
  <2>1. PICK k \in Pointers, s \in Seats, m \in Message :
            visiting[w].verb = k /\ visiting[w].seat = s /\ visiting[w].message = m
    <3>1. visiting[w].verb \in Pointers
      BY <1>5 DEF AdvancePointer
    <3> QED BY <3>1, VisitIsThere DEF Visits
  <2>2. /\ pointer' = [pointer EXCEPT ![k][s] = IF m > @ THEN m ELSE @]
        /\ read' = [read EXCEPT ![k][s] = @ \cup {m}]
        /\ Leaves(w) /\ UNCHANGED <<channelVars, out, revived>>
    BY <1>5, <2>1 DEF AdvancePointer
  <2>3. /\ pointer' \in [Pointers -> [Seats -> Message \cup {0}]]
        /\ read' \in [Pointers -> [Seats -> SUBSET Message]]
    BY <2>2 DEF MembersTypeOK
  <2>4. PointerIsNewestRead'
    <3>1. /\ pointer'[k][s] = IF m > pointer[k][s] THEN m ELSE pointer[k][s]
          /\ read'[k][s] = read[k][s] \cup {m}
      BY <2>2 DEF MembersTypeOK
    <3>2. \A j \in Pointers, t \in Seats : ~(j = k /\ t = s) =>
              pointer'[j][t] = pointer[j][t] /\ read'[j][t] = read[j][t]
      BY <2>2 DEF MembersTypeOK
    <3>3. pointer[k][s] \in Int /\ m \in Int /\ read[k][s] \subseteq Int
      BY MembersAssumption DEF MembersTypeOK, Message
    <3> QED BY <3>1, <3>2, <3>3 DEF PointerIsNewestRead
  <2> QED BY <2>2, <2>3, <2>4, LeavesStep
<1>6. ASSUME NEW w \in Worker, LoseVisit(w)
      PROVE  ChannelsBase'
  <2>1. Leaves(w) /\ UNCHANGED <<channelVars, pointer, read, out, revived>>
    BY <1>6 DEF LoseVisit
  <2>2. PointerIsNewestRead'
    BY <2>1 DEF PointerIsNewestRead
  <2> QED BY <2>1, <2>2, LeavesStep DEF MembersTypeOK
<1>7. ASSUME NEW w \in Worker, UpsertJoin(w)
      PROVE  ChannelsBase'
  <2>1. visiting[w].verb = "join" /\ visiting[w] # Idle /\ visiting[w].seat \in Seats
    <3>1. visiting[w].verb = "join"
      BY <1>7 DEF UpsertJoin
    <3> QED BY <3>1, VisitIsThere
  <2>2. PICK c \in Channel, p \in Partner : visiting[w].seat = <<c, p>>
    BY <2>1 DEF Seats
  <2>3. /\ <<c, p>>[1] = c /\ <<c, p>>[2] = p
        /\ seat' = [seat EXCEPT ![c][p] = "live"]
        /\ revived' = IF kind[c] = "chat" /\ ~Live(c, p) THEN revived \cup {c} ELSE revived
        /\ Leaves(w)
        /\ UNCHANGED <<kind, archived, founders, minting, pair, overtaken, raced,
                       pointer, read, out>>
    BY <1>7, <2>2 DEF UpsertJoin
  <2>4. <<c, p>> \notin out /\ (kind[c] = "public" \/ p \in founders[c])
    BY <2>1, <2>2, <2>3 DEF Visits
  <2>5. revived' \in SUBSET Channel /\ revived \subseteq revived'
    BY <2>3 DEF MembersTypeOK
  <2> QED BY <2>1, <2>2, <2>3, <2>4, <2>5, SeatStep
<1>8. ASSUME NEW w \in Worker, SoftDeleteMember(w)
      PROVE  ChannelsBase'
  <2>1. visiting[w].verb = "leave" /\ visiting[w] # Idle /\ visiting[w].seat \in Seats
    <3>1. visiting[w].verb = "leave"
      BY <1>8 DEF SoftDeleteMember
    <3> QED BY <3>1, VisitIsThere
  <2>2. PICK c \in Channel, p \in Partner : visiting[w].seat = <<c, p>>
    BY <2>1 DEF Seats
  <2>3. /\ seat' = [seat EXCEPT ![c][p] = "left"]
        /\ out' = IF Doing({"join"}, <<c, p>>) THEN out ELSE out \cup {<<c, p>>}
        /\ Leaves(w)
        /\ UNCHANGED <<kind, archived, founders, minting, pair, overtaken, raced,
                       pointer, read, revived>>
    BY <1>8, <2>2 DEF SoftDeleteMember
  <2>4. \A v \in Worker : visiting[v].verb = "join" /\ visiting[v].seat = <<c, p>> =>
            <<c, p>> \notin out' \ out
    BY <2>3 DEF Doing
  <2> QED BY <2>1, <2>2, <2>3, <2>4, SeatStep DEF MembersTypeOK
<1> QED BY <1>2, <1>3, <1>4, <1>5, <1>6, <1>7, <1>8 DEF MembersNext

-----------------------------------------------------------------------------
(***************************************************************************)
(* All of them together.                                                   *)
(***************************************************************************)
Kept == calls \in Nat /\ ChannelsBase /\ MarksBase /\ FollowersBase /\ PresencesBase

LEMMA InitKept == ASSUME Init PROVE Kept
<1> USE CallersAssumption, MarksAssumption DEF Init
<1>1. ChannelsBase
  <2> USE DEF ChannelsInit, MembersInit
  <2>1. ChannelsTypeOK /\ MembersTypeOK
    BY DEF ChannelsTypeOK, MembersTypeOK
  <2>2. Visits /\ Rights /\ PointerIsNewestRead
    BY DEF Visits, Rights, Live, PointerIsNewestRead
  <2>3. \A t : Chats(t) = {}
    BY DEF Chats
  <2>4. Mints /\ ForksWereRaced
    BY <2>3 DEF Mints, ForksWereRaced
  <2> QED BY <2>1, <2>2, <2>4 DEF ChannelsBase
<1>2. MarksBase
  <2>1. MarksTypeOK /\ Toggles
    BY DEF MarksInit, MarksTypeOK, Toggles
  <2>2. \A k \in Mark : told[k] = FALSE /\ ~(k \in marks)
    BY DEF MarksInit
  <2>3. ToldAsIs
    <3>1. \A k \in Mark : (k \in marks) = FALSE
      BY <2>2
    <3> QED BY <2>2, <3>1, Zenon DEF ToldAsIs
  <2> QED BY <2>1, <2>3 DEF MarksBase
<1>3. FollowersBase
  BY DEF FollowersInit, FollowersBase, FollowersTypeOK, Promises
<1>4. PresencesBase
  BY DEF PresencesInit, PresencesBase, PresencesTypeOK, Polls, KeptOnline
<1>5. calls \in Nat
  OBVIOUS
<1> QED BY <1>1, <1>2, <1>3, <1>4, <1>5 DEF Kept

\* A component that no step of its own touches keeps what it has.
LEMMA OthersKept ==
    /\ MarksBase /\ UNCHANGED markVars => MarksBase'
    /\ FollowersBase /\ UNCHANGED followerVars => FollowersBase'
    /\ PresencesBase /\ UNCHANGED presenceVars => PresencesBase'
    /\ ChannelsBase /\ UNCHANGED <<channelVars, memberVars>> => ChannelsBase'
<1>1. MarksBase /\ UNCHANGED markVars => MarksBase'
  BY DEF markVars, MarksBase, MarksTypeOK, Toggles, ToldAsIs
<1>2. FollowersBase /\ UNCHANGED followerVars => FollowersBase'
  BY DEF followerVars, FollowersBase, FollowersTypeOK, Promises
<1>3. PresencesBase /\ UNCHANGED presenceVars => PresencesBase'
  BY DEF presenceVars, PresencesBase, PresencesTypeOK, Polls, KeptOnline
<1>4. ASSUME ChannelsBase, UNCHANGED <<channelVars, memberVars>>
      PROVE  ChannelsBase'
  <2> USE <1>4 DEF channelVars, memberVars, ChannelsBase
  <2>1. ChannelsTypeOK' /\ MembersTypeOK'
    BY DEF ChannelsTypeOK, MembersTypeOK
  <2>2. Visits' /\ Rights' /\ PointerIsNewestRead'
    BY DEF Visits, Rights, Live, PointerIsNewestRead
  <2>3. /\ \A t : Chats(t)' = Chats(t)
        /\ \A v \in Worker : Chats(pair[v])' = Chats(pair[v])
    BY DEF Chats, Live
  <2>4. Mints' /\ ForksWereRaced'
    BY <2>3 DEF Mints, ForksWereRaced
  <2> QED BY <2>1, <2>2, <2>4
<1> QED BY <1>1, <1>2, <1>3, <1>4

\* The calls are only counted.
LEMMA CallsCount ==
    ASSUME calls \in Nat, Next
    PROVE  calls' \in Nat
<1>1. UNCHANGED calls \/ Call
  <2>1. CASE ChannelsNext
    BY <2>1 DEF ChannelsNext, Create, Archive, MintChat, FindChat, FindAgain, LoseMint
  <2>2. CASE MembersNext
    BY <2>2 DEF MembersNext, ClaimMember, Join, Leave, Enters, AdvancePointer, UpsertJoin,
       SoftDeleteMember, LoseVisit
  <2>3. CASE MarksNext
    BY <2>3 DEF MarksNext, Toggle, DeleteMark, InsertMark, CommitToggle, LoseToggle
  <2>4. CASE FollowersNext
    BY <2>4 DEF FollowersNext, SubscribeNew, SubscribeAgain, ApplyPolicy, Unsubscribe,
       LoseSubscribe
  <2>5. CASE PresencesNext
    BY <2>5 DEF PresencesNext, PollFirst, PollAgain, RefreshLastPoll, LosePoll, GrowStale,
       PresenceGc
  <2> QED BY <2>1, <2>2, <2>3, <2>4, <2>5 DEF Next
<1> QED BY <1>1 DEF Call

LEMMA KeptHolds == Spec => []Kept
<1>1. Init => Kept
  BY InitKept
<1>2. Kept /\ [Next]_vars => Kept'
  <2>1. ASSUME Kept, Next
        PROVE  Kept'
    <3>1. calls' \in Nat
      BY <2>1, CallsCount DEF Kept
    <3>2. ChannelsBase'
      BY <2>1, ChannelsStep, MembersStep, OthersKept DEF Kept, Next
    <3>3. MarksBase' /\ FollowersBase' /\ PresencesBase'
      BY <2>1, MarksStep, FollowersStep, PresencesStep, OthersKept DEF Kept, Next
    <3> QED BY <3>1, <3>2, <3>3 DEF Kept
  <2>2. ASSUME Kept, UNCHANGED vars
        PROVE  Kept'
    BY <2>2, OthersKept DEF Kept, vars
  <2> QED BY <2>1, <2>2
<1> QED BY <1>1, <1>2, PTL DEF Spec

\* Channels, members, marks, followers and presences stay in their types,
\* whatever calls they serve at the same time (TypeOK).
THEOREM TypeCorrect == Spec => []TypeOK
<1>1. Kept => TypeOK
  BY DEF Kept, TypeOK, ChannelsBase, MarksBase, FollowersBase, PresencesBase
<1> QED BY <1>1, KeptHolds, PTL

\* A read pointer is at the newest message of its member's answered marks, in
\* whatever order they were served (mark_as_read, mark_fetched).
THEOREM PointerIsNewestReadHolds == Spec => []PointerIsNewestRead
<1>1. Kept => PointerIsNewestRead
  BY DEF Kept, ChannelsBase
<1> QED BY <1>1, KeptHolds, PTL

\* Nobody sits in a closed channel who was not there from its start, and a member
\* who left for good is not in (join, leave).
THEOREM EntersByRightHolds == Spec => []EntersByRight
<1>1. Kept => EntersByRight
  <2>1. SUFFICES ASSUME Kept
                 PROVE  EntersByRight
    OBVIOUS
  <2>2. \A s \in out : seat[s[1]][s[2]] # "live"
    BY <2>1 DEF Kept, ChannelsBase, Rights
  <2> QED BY <2>1, <2>2 DEF Kept, ChannelsBase, Rights, EntersByRight, Live
<1> QED BY <1>1, KeptHolds, PTL

\* A pair has two live chats only if two calls minted them at the same time, or a
\* member came back to one he had left (get_or_create_chat).
THEOREM ForksWereRacedHolds == Spec => []ForksWereRaced
<1>1. Kept => ForksWereRaced
  BY DEF Kept, ChannelsBase
<1> QED BY <1>1, KeptHolds, PTL

\* The last announcement of a mark is its state, unless two calls found it off
\* at the same time (toggle, toggle_star).
THEOREM ToldAsIsHolds == Spec => []ToldAsIs
<1>1. Kept => ToldAsIs
  BY DEF Kept, MarksBase
<1> QED BY <1>1, KeptHolds, PTL

\* Followers' lists and presences are as their last callers were answered, unless
\* a row was deleted between a call's two statements (subscribe, refresh_last_poll).
THEOREM UpsertsAreKeptHolds == Spec => []UpsertsAreKept
<1>1. Kept => UpsertsAreKept
  BY DEF Kept, FollowersBase, Promises, PresencesBase, UpsertsAreKept,
     SubscribedAsAnswered
<1> QED BY <1>1, KeptHolds, PTL

-----------------------------------------------------------------------------
(***************************************************************************)
(* The marks implement switches.                                           *)
(***************************************************************************)
switches == <<marks, told, clashed>>

\* A call that has deleted a row, and has not committed, is the only one of its
\* mark, and the row is there until it commits.
Deletes ==
    \A w \in Worker : found[w] = "deleted" =>
        /\ toggling[w] \in marks
        /\ \A v \in Worker \ {w} : ~(toggling[v] = toggling[w] /\ found[v] = "deleted")

\* The row's lock keeps it so.
LEMMA DeletesStep ==
    ASSUME MarksTypeOK, Toggles, Deletes, MarksNext
    PROVE  Deletes'
<1> USE DEF MarksTypeOK
<1>1. ASSUME NEW w \in Worker, NEW k \in Mark, Toggle(w, k)
      PROVE  Deletes'
  <2>1. found[w] # "deleted"
    BY <1>1, MarksAssumption DEF Toggle, Toggles
  <2> QED BY <1>1, <2>1 DEF Toggle, Deletes
<1>2. ASSUME NEW w \in Worker, NEW k, k = toggling[w], DeleteMark(w)
      PROVE  Deletes'
  <2>1. /\ UNCHANGED <<marks, toggling>> /\ ~Elsewhere(w, {"deleted"})
        /\ found' = [found EXCEPT ![w] = IF k \in marks THEN "deleted" ELSE "missing"]
    BY <1>2 DEF DeleteMark
  <2>2. \A v \in Worker \ {w} : ~(toggling[v] = k /\ found[v] = "deleted")
    BY <1>2, <2>1 DEF Elsewhere
  <2> QED BY <1>2, <2>1, <2>2 DEF Deletes
<1>3. ASSUME NEW w \in Worker, InsertMark(w)
      PROVE  Deletes'
  BY <1>3 DEF InsertMark, Deletes
<1>4. ASSUME NEW w \in Worker, NEW k, k = toggling[w], CommitToggle(w)
      PROVE  Deletes'
  <2>1. /\ toggling' = [toggling EXCEPT ![w] = "none"]
        /\ found' = [found EXCEPT ![w] = "nothing"]
        /\ marks' = marks \ {k} \/ marks \subseteq marks'
        /\ found[w] # "deleted" => marks \subseteq marks'
    BY <1>4 DEF CommitToggle, EndsToggle
  <2>2. ASSUME NEW v \in Worker, v # w, found[v] = "deleted"
        PROVE  toggling[v] \in marks'
    <3>1. toggling[v] \in marks
      BY <2>2 DEF Deletes
    <3>2. found[w] = "deleted" => toggling[v] # k
      BY <1>4, <2>2 DEF Deletes
    <3> QED BY <2>1, <3>1, <3>2
  <2> QED BY <2>1, <2>2 DEF Deletes
<1>5. ASSUME NEW w \in Worker, LoseToggle(w)
      PROVE  Deletes'
  BY <1>5 DEF LoseToggle, EndsToggle, Deletes
<1> QED BY <1>1, <1>2, <1>3, <1>4, <1>5 DEF MarksNext

\* What a commit answers, it has turned the mark to.
LEMMA CommitTurns ==
    ASSUME MarksTypeOK, Toggles, Deletes, NEW w \in Worker, NEW k \in Mark,
           k = toggling[w], CommitToggle(w)
    PROVE  Marks!TurnOn(k) \/ Marks!TurnOff(k) \/ Marks!ShowOff(k)
<1>1. /\ told' = [told EXCEPT ![k] = (found[w] = "inserted")]
      /\ UNCHANGED clashed
      /\ found[w] \in {"deleted", "inserted", "conflict"}
  BY DEF CommitToggle
<1>2. CASE found[w] = "deleted"
  <2>1. marks' = marks \ {k} /\ k \in marks
    BY <1>2 DEF CommitToggle, Deletes
  <2>2. told' = [told EXCEPT ![k] = FALSE]
    BY <1>1, <1>2
  <2> QED BY <1>1, <2>1, <2>2 DEF Marks!TurnOff, Marks!Set
<1>3. CASE found[w] = "inserted"
  <2>1. marks' = marks \cup {k} /\ (k \notin marks \/ k \in clashed)
    BY <1>3 DEF CommitToggle, Toggles
  <2>2. told' = [told EXCEPT ![k] = TRUE]
    BY <1>1, <1>3
  <2> QED BY <1>1, <2>1, <2>2 DEF Marks!TurnOn, Marks!Set
<1>4. CASE found[w] = "conflict"
  <2>1. marks' = marks /\ k \in clashed
    BY <1>4 DEF CommitToggle, Toggles
  <2>2. told' = [told EXCEPT ![k] = FALSE]
    BY <1>1, <1>4
  <2> QED BY <1>1, <2>1, <2>2 DEF Marks!ShowOff
<1> QED BY <1>1, <1>2, <1>3, <1>4

\* Every step of a toggle's is one of the switches', or none.
LEMMA NextSwitches ==
    ASSUME MarksTypeOK, Toggles, Deletes, MarksNext
    PROVE  [Marks!Next]_switches
<1>1. PICK w \in Worker :
          \/ \E k \in Mark : Toggle(w, k)
          \/ DeleteMark(w) \/ InsertMark(w) \/ CommitToggle(w) \/ LoseToggle(w)
  BY DEF MarksNext
<1>2. CASE (\E k \in Mark : Toggle(w, k)) \/ InsertMark(w) \/ LoseToggle(w)
  BY <1>2 DEF Toggle, InsertMark, LoseToggle, switches
<1>3. CASE DeleteMark(w)
  <2>1. toggling[w] \in Mark
    BY <1>3 DEF DeleteMark, MarksTypeOK
  <2>2. Marks!Muddle(toggling[w]) \/ UNCHANGED switches
    BY <1>3 DEF DeleteMark, Marks!Muddle, switches
  <2> QED BY <2>1, <2>2 DEF Marks!Next
<1>4. CASE CommitToggle(w)
  <2>1. toggling[w] \in Mark
    BY <1>4 DEF CommitToggle, Toggles
  <2> QED BY <1>4, <2>1, CommitTurns DEF Marks!Next
<1> QED BY <1>1, <1>2, <1>3, <1>4

\* A step leaves the marks alone, or is one of theirs.
LEMMA MarksOrOthers ==
    ASSUME [Next]_vars
    PROVE  MarksNext \/ UNCHANGED markVars
BY DEF Next, vars

\* An answered toggle has turned its mark over, so that two of them cancel out,
\* and is announced as it is, however the calls overlap: all but those for a
\* mark that two calls have found off at the same time (toggle, toggle_star).
THEOREM ImplementsMarks == Spec => MarksSpec
<1>1. Init => Deletes /\ Marks!Init
  BY DEF Init, MarksInit, Deletes, Marks!Init
<1>2. Kept /\ Deletes /\ [Next]_vars => Deletes'
  <2>1. Deletes /\ UNCHANGED markVars => Deletes'
    BY DEF Deletes, markVars
  <2> QED BY <2>1, DeletesStep, MarksOrOthers DEF Kept, MarksBase
<1>3. Kept /\ Deletes /\ [Next]_vars => [Marks!Next]_switches
  BY NextSwitches, MarksOrOthers DEF Kept, MarksBase, markVars, switches
<1> QED BY <1>1, <1>2, <1>3, KeptHolds, PTL DEF Spec, MarksSpec, Marks!Spec, switches

=============================================================================
