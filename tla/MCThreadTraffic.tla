-------------------------- MODULE MCThreadTraffic --------------------------
(***************************************************************************)
(* Model values for ThreadTraffic: a question that only its server's       *)
(* default model places, the answer to it, which is also sent to the       *)
(* document's alias, and a mail without a Message-ID from a sender who is  *)
(* not allowed.                                                            *)
(***************************************************************************)
EXTENDS ThreadTraffic

CONSTANTS question, answer, stranger

MCMail == {question, answer, stranger}
MCKnown == {question, answer}
MCParent == [m \in MCMail |-> IF m = answer THEN question ELSE "none"]

=============================================================================
