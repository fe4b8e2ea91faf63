----------------------------- MODULE MailIntake -----------------------------
(***************************************************************************)
(* What the gateway promises a relay, which forgets a mail once it is told *)
(* that the mail was accepted: that one is stored.  A mail with an identity*)
(* is stored once and recognised from then on; each acceptance of any      *)
(* other stores it afresh.  A relay whose answer is lost knows nothing.    *)
(***************************************************************************)
EXTENDS Naturals

CONSTANTS
    Mail,       \* The mails
    Identified  \* Those that can be recognised

VARIABLES
    copies,     \* How often each mail is stored
    accepted    \* Those that a relay was told of

Init == copies = [m \in Mail |-> 0] /\ accepted = {}

Store(m) ==
    /\ m \in Identified => copies[m] = 0
    /\ copies' = [copies EXCEPT ![m] = @ + 1]

Accept(m) == Store(m) /\ accepted' = accepted \cup {m}

StoreUnanswered(m) == Store(m) /\ UNCHANGED accepted

Recognise(m) ==
    /\ m \in Identified /\ copies[m] # 0
    /\ accepted' = accepted \cup {m}
    /\ UNCHANGED copies

Next == \E m \in Mail : Accept(m) \/ StoreUnanswered(m) \/ Recognise(m)

Spec == Init /\ [][Next]_<<copies, accepted>>

=============================================================================
