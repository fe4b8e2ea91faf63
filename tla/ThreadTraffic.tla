--------------------------- MODULE ThreadTraffic ---------------------------
(***************************************************************************)
(* The writers of threads together: scheduled posts, held notifications,   *)
(* the inbound gateway and activities, over one message table.  They meet  *)
(* in it: a held row fans out whatever message it names, a note or a post  *)
(* teaches the gateway an alias's model, a wall post carries the notices.  *)
(***************************************************************************)
EXTENDS ScheduledPosts, HeldNotifications, InboundGateway, Activities

\* Where a message comes from says which of them wrote it.
ASSUME TrafficAssumption ==
    /\ Mail \cap (Scheduled \cup Activity \cup {"notice"}) = {}
    /\ Scheduled \cap Activity = {}
    /\ "notice" \notin Activity

vars == <<threadVars, scheduledVars, heldVars, inboundVars, activityVars>>

Init ==
    /\ ThreadsInit
    /\ ScheduledInit /\ HeldInit /\ InboundInit /\ ActivitiesInit

Next ==
    \/ ScheduledNext /\ UNCHANGED <<heldVars, inboundVars, activityVars>>
    \/ HeldNext /\ UNCHANGED <<scheduledVars, inboundVars, activityVars>>
    \/ InboundNext /\ UNCHANGED <<scheduledVars, heldVars, activityVars>>
    \/ ActivitiesNext /\ UNCHANGED <<scheduledVars, heldVars, inboundVars>>

Spec == Init /\ [][Next]_vars

(***************************************************************************)
(* The job runner keeps calling the two dispatches, the calls that have    *)
(* begun run on, and a relay that was not answered tries again.  No author,*)
(* user or clock has to do anything.                                       *)
(***************************************************************************)
Jobs ==
    /\ \E w \in Worker : DispatchScheduled(w)
    /\ UNCHANGED <<heldVars, inboundVars, activityVars>>

NotifyJobs ==
    /\ \E w \in Worker : DispatchNotify(w)
    /\ UNCHANGED <<scheduledVars, inboundVars, activityVars>>

Calls ==
    /\ \E w \in Worker : Serve(w) \/ \E m \in Mail : Retry(w, m)
    /\ UNCHANGED <<scheduledVars, heldVars, activityVars>>

Fairness == WF_vars(Jobs) /\ WF_vars(NotifyJobs) /\ WF_vars(Calls)

FairSpec == Spec /\ Fairness

TypeOK ==
    /\ messages \in Seq([from : Scheduled \cup Mail \cup Activity \cup {"notice"},
                         thread : Threads])
    /\ notified \in SUBSET (Nat \X Partner)
    /\ work \in Nat /\ faults \in Nat
    /\ ScheduledTypeOK /\ HeldTypeOK /\ InboundTypeOK /\ ActivitiesTypeOK

=============================================================================
