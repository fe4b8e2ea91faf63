--------------------------- MODULE MCConversation ---------------------------
(***************************************************************************)
(* Conversation with interchangeable workers, channels and marks.          *)
(***************************************************************************)
EXTENDS Conversation, TLC

Symmetric == Permutations(Worker) \cup Permutations(Channel) \cup Permutations(Partner)

=============================================================================
