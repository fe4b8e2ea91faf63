------------------------- MODULE DocumentFollowers -------------------------
(***************************************************************************)
(* The followers of a document: subscribe inserts the row ON CONFLICT DO   *)
(* NOTHING, and on a conflict applies its policy in a second statement of  *)
(* the same transaction; unsubscribe deletes the row.                      *)
(***************************************************************************)
EXTENDS Callers

CONSTANT Subtype  \* What a follower may be told about

VARIABLES
    followers,    \* The partners with a row
    subtypes,     \* The list of each row, {} without one
    subscribing,  \* The update each worker has still to make, or NoUpdate
    cut,          \* History: workers whose row was deleted before that
    promised      \* History: the list that each partner's answered calls add up to

followerVars == <<followers, subtypes, subscribing, cut, promised>>

NoUpdate == [policy |-> "none"]
Update == [policy : {"replace", "update"}, partner : Partner, subtypes : SUBSET Subtype]

FollowersInit ==
    /\ followers = {}
    /\ subtypes = [p \in Partner |-> {}]
    /\ subscribing = [w \in Worker |-> NoUpdate]
    /\ cut = {}
    /\ promised = [p \in Partner |-> {}]

-----------------------------------------------------------------------------
SubscribeNew(p, list) ==
    /\ p \notin followers
    /\ Call
    /\ followers' = followers \cup {p}
    /\ subtypes' = [subtypes EXCEPT ![p] = list]
    /\ promised' = [promised EXCEPT ![p] = list]
    /\ UNCHANGED <<subscribing, cut>>

\* A call that skips the row is over, and one that forces it replaces its list.
SubscribeAgain(w, p, list, policy) ==
    /\ subscribing[w] = NoUpdate /\ p \in followers
    /\ Call
    /\ subscribing' = [subscribing EXCEPT ![w] =
                         [policy |-> policy, partner |-> p, subtypes |-> list]]
    /\ UNCHANGED <<followers, subtypes, cut, promised>>

\* What a list becomes under a policy.
Applied(u, list) == IF u.policy = "update" THEN list \cup u.subtypes ELSE u.subtypes

\* The row was deleted between the statements and is not there again.
Missed(w) == w \in cut /\ subscribing[w].partner \notin followers

\* Faulty variant: the union is not taken.
ReplaceAlways(w) ==
    LET u == subscribing[w] IN
    /\ u # NoUpdate
    /\ subtypes' = [subtypes EXCEPT ![u.partner] =
                      IF u.partner \in followers THEN u.subtypes ELSE @]
    /\ promised' = [promised EXCEPT ![u.partner] = IF Missed(w) THEN @ ELSE Applied(u, @)]
    /\ subscribing' = [subscribing EXCEPT ![w] = NoUpdate]
    /\ cut' = cut \ {w}
    /\ UNCHANGED <<calls, followers>>

\* The list is read and written by one UPDATE, which may find no row; the answer
\* is "updated" all the same.
ApplyPolicy(w) ==
    LET u == subscribing[w] IN
    /\ u # NoUpdate
    /\ subtypes' = [subtypes EXCEPT ![u.partner] =
                      IF u.partner \in followers THEN Applied(u, @) ELSE @]
    /\ promised' = [promised EXCEPT ![u.partner] = IF Missed(w) THEN @ ELSE Applied(u, @)]
    /\ subscribing' = [subscribing EXCEPT ![w] = NoUpdate]
    /\ cut' = cut \ {w}
    /\ UNCHANGED <<calls, followers>>

Unsubscribe(p) ==
    /\ p \in followers
    /\ Call
    /\ followers' = followers \ {p}
    /\ subtypes' = [subtypes EXCEPT ![p] = {}]
    /\ promised' = [promised EXCEPT ![p] = {}]
    /\ cut' = cut \cup {w \in Worker : subscribing[w] # NoUpdate /\ subscribing[w].partner = p}
    /\ UNCHANGED subscribing

LoseSubscribe(w) ==
    /\ subscribing[w] # NoUpdate
    /\ subscribing' = [subscribing EXCEPT ![w] = NoUpdate]
    /\ cut' = cut \ {w}
    /\ UNCHANGED <<calls, followers, subtypes, promised>>

-----------------------------------------------------------------------------
FollowersNext ==
    \/ \E p \in Partner :
           \/ Unsubscribe(p)
           \/ \E list \in SUBSET Subtype :
                  \/ SubscribeNew(p, list)
                  \/ \E w \in Worker, policy \in {"replace", "update"} :
                         SubscribeAgain(w, p, list, policy)
    \/ \E w \in Worker : ApplyPolicy(w) \/ LoseSubscribe(w)

FollowersTypeOK ==
    /\ followers \in SUBSET Partner
    /\ subtypes \in [Partner -> SUBSET Subtype]
    /\ subscribing \in [Worker -> Update \cup {NoUpdate}]
    /\ cut \in SUBSET Worker
    /\ promised \in [Partner -> SUBSET Subtype]

\* A follower's list is what the answered calls add up to since he was last
\* unsubscribed, racing ones included; only a call whose row was deleted between
\* its two statements is answered in vain (subscribe).
SubscribedAsAnswered ==
    \A p \in Partner :
        promised[p] # {} => p \in followers /\ subtypes[p] = promised[p]

=============================================================================
