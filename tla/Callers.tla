------------------------------ MODULE Callers ------------------------------
(***************************************************************************)
(* The tasks that serve the calls of a conversation, each in transactions  *)
(* of its own at READ COMMITTED, and a bound on those calls.               *)
(***************************************************************************)
EXTENDS Integers, FiniteSets

CONSTANTS
    Worker,   \* The tasks that may serve a call at the same time
    Partner,  \* Who calls
    MaxCalls  \* Bound on the calls that find something to do

ASSUME CallersAssumption == "none" \notin Partner /\ MaxCalls \in Nat

VARIABLE calls  \* The calls so far

Call == calls < MaxCalls /\ calls' = calls + 1

=============================================================================
