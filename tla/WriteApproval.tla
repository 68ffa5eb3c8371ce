---------------------------- MODULE WriteApproval ----------------------------
(***************************************************************************)
(* What the master promises for each write that needs its approval, with   *)
(* no handlers, locks or tables: a request is filed once and decided once; *)
(* approving it and executing its write are one event, and a rejected      *)
(* request is never executed.                                              *)
(***************************************************************************)
EXTENDS Naturals

CONSTANT Requests

VARIABLES status,   \* what has been decided for each request
          applied   \* how often its write was executed

vars == <<status, applied>>

Init ==
    /\ status = [r \in Requests |-> "unfiled"]
    /\ applied = [r \in Requests |-> 0]

Becomes(r, from, to) ==
    /\ status[r] = from
    /\ status' = [status EXCEPT ![r] = to]

File(r) == Becomes(r, "unfiled", "pending") /\ UNCHANGED applied

Approve(r) ==
    /\ Becomes(r, "pending", "approved")
    /\ applied' = [applied EXCEPT ![r] = @ + 1]

Reject(r) == Becomes(r, "pending", "rejected") /\ UNCHANGED applied

Next == \E r \in Requests : File(r) \/ Approve(r) \/ Reject(r)

Spec == Init /\ [][Next]_vars
=============================================================================
