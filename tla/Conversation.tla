---------------------------- MODULE Conversation ----------------------------
(***************************************************************************)
(* The calls of a conversation together: channels and their members, marks *)
(* on messages, followers and presences, each served by the same tasks.    *)
(***************************************************************************)
EXTENDS ChannelMembers, MessageMarks, DocumentFollowers, Presences

vars ==
    <<calls, channelVars, memberVars, markVars, followerVars, presenceVars>>

Init ==
    /\ calls = 0
    /\ ChannelsInit /\ MembersInit /\ MarksInit /\ FollowersInit /\ PresencesInit

Next ==
    \/ ChannelsNext /\ UNCHANGED <<memberVars, markVars, followerVars, presenceVars>>
    \/ MembersNext /\ UNCHANGED <<markVars, followerVars, presenceVars>>
    \/ MarksNext /\ UNCHANGED <<channelVars, memberVars, followerVars, presenceVars>>
    \/ FollowersNext /\ UNCHANGED <<channelVars, memberVars, markVars, presenceVars>>
    \/ PresencesNext /\ UNCHANGED <<channelVars, memberVars, markVars, followerVars>>

Spec == Init /\ [][Next]_vars

TypeOK ==
    /\ calls \in Nat
    /\ ChannelsTypeOK /\ MembersTypeOK /\ MarksTypeOK
    /\ FollowersTypeOK /\ PresencesTypeOK

\* A row that is inserted, or else updated by a second statement, is as its last
\* caller was answered unless it was deleted between the two: a follower's list
\* and a presence alike.
UpsertsAreKept == SubscribedAsAnswered /\ KeptOnline

=============================================================================
