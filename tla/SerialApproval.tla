--------------------------- MODULE SerialApproval ----------------------------
(***************************************************************************)
(* The master keeps the promise of WriteApproval as long as decisions are  *)
(* made one at a time: one browser tab of the dashboard, which waits for   *)
(* the answer to each click (streamlit_app.py).  Direct writes and new     *)
(* requests still run between the steps of a decision.                     *)
(***************************************************************************)
EXTENDS Master

ASSUME OneDecisionAtATime == \A c, d \in Calls : c = d

(***************************************************************************)
(* The refinement mapping: a request counts as approved from the moment    *)
(* its write is executed, while the table still says pending.              *)
(***************************************************************************)
Executed(r) == \E c \in Calls : calls[c].at = "executed" /\ calls[c].request = r

decision ==
    [r \in RequestIDs |->
        IF pendingRequests[r] = NoRequest THEN "unfiled"
        ELSE IF Executed(r) THEN "approved"
        ELSE pendingRequests[r].status]

Approval == INSTANCE WriteApproval WITH Requests <- RequestIDs, status <- decision

\* Every request is decided once, is executed exactly when it is approved, and
\* never when it is rejected (ApprovePendingWrite, RejectPendingWrite).
KeepsApproval == Approval!Spec
=============================================================================
