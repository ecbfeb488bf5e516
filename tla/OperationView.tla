---------------------------- MODULE OperationView ----------------------------
(***************************************************************************)
(* What a client of background compute operations can rely on, as it reads *)
(* it from get_compute_operation (_view in                                 *)
(* server/runtime/compute_operations.py): a session has one operation at a *)
(* time; a stop, once reported, stays; an end comes once, is final, and    *)
(* goes with the stop that was accepted: a stopped operation never ends    *)
(* completed, and one that ends as stopped was stopped for that reason.    *)
(* ComputeOperations is shown to implement this module.                    *)
(***************************************************************************)
CONSTANTS Operations, SessionOf, Results

VARIABLES status,       \* "none" before submit answers, "open", "terminal"
          stop_reason,  \* stopReason
          result        \* how it ended: status and errorCode

view == <<status, stop_reason, result>>
Reasons == {"cancelled", "budget_exceeded"}

Init ==
    /\ status = [c \in Operations |-> "none"]
    /\ stop_reason = [c \in Operations |-> "none"]
    /\ result = [c \in Operations |-> "none"]

\* submit answers with the operation's id.
Open(c) ==
    /\ status[c] = "none"
    /\ \A d \in Operations : SessionOf[d] = SessionOf[c] => status[d] # "open"
    /\ status' = [status EXCEPT ![c] = "open"]
    /\ UNCHANGED <<stop_reason, result>>

\* A cancellation or the deadline is accepted, at most one of them.
Stop(c) ==
    /\ status[c] # "terminal" /\ stop_reason[c] = "none"
    /\ \E why \in Reasons : stop_reason' = [stop_reason EXCEPT ![c] = why]
    /\ UNCHANGED <<status, result>>

Terminate(c) ==
    /\ status[c] = "open"
    /\ status' = [status EXCEPT ![c] = "terminal"]
    /\ \E r \in Results :
        /\ r = "completed" => stop_reason[c] = "none"
        /\ r \in Reasons => stop_reason[c] = r
        /\ result' = [result EXCEPT ![c] = r]
    /\ UNCHANGED stop_reason

Next == \E c \in Operations : Open(c) \/ Stop(c) \/ Terminate(c)

Spec == Init /\ [][Next]_view
=============================================================================
