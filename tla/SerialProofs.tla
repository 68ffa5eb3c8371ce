----------------------------- MODULE SerialProofs ----------------------------
(***************************************************************************)
(* When decisions are made one at a time, the master implements            *)
(* WriteApproval.                                                          *)
(***************************************************************************)
EXTENDS SerialApproval, MasterProofs

(***************************************************************************)
(* The key fact: between the test of the status and the save, the request  *)
(* stays pending, since nobody else decides.  Two overlapping decisions    *)
(* break it, and RejectedNotApplied with it.                               *)
(***************************************************************************)
InDecision == \A c \in Calls : calls[c].at # "idle" => IsPending(calls[c].request)

\* A request was executed once when it is approved, and never otherwise.
CountedOnce ==
    \A r \in RequestIDs : applied[r] = IF decision[r] = "approved" THEN 1 ELSE 0

SerialInv == InDecision /\ CountedOnce

\* What the refinement mapping says of an entry, by the running call.
LEMMA DecisionIs ==
  ASSUME NEW r \in RequestIDs
  PROVE  decision[r] = IF pendingRequests[r] = NoRequest THEN "unfiled"
                       ELSE IF Executed(r) THEN "approved" ELSE pendingRequests[r].status
  BY DEF decision

\* A running call is the only one, so that no other request is being executed.
LEMMA OnlyCall ==
  ASSUME MasterTypeOK, NEW c \in Calls, calls[c].at # "idle", NEW r \in RequestIDs
  PROVE  Executed(r) <=> calls[c].at = "executed" /\ calls[c].request = r
<1>1. \A d \in Calls : d = c
  BY OneDecisionAtATime
<1> QED
  BY <1>1 DEF Executed, MasterTypeOK, CallState

\* Without a running call nothing is being executed.
LEMMA NoCall ==
  ASSUME NEW c \in Calls, calls[c] = Idle, NEW r \in RequestIDs
  PROVE  ~ Executed(r)
  BY OneDecisionAtATime DEF Executed, Idle

(***************************************************************************)
(* The steps, as WriteApproval sees them.                                  *)
(***************************************************************************)
Unseen == UNCHANGED <<decision, applied>>

\* A new request is filed in the abstract.
LEMMA ApproveWriteFiles ==
  ASSUME MasterTypeOK, ApprovalInv, NEW request \in ApproveWriteRequest, ApproveWrite(request)
  PROVE  Approval!File(nextPendingID) /\ nextPendingID \in RequestIDs
<1> DEFINE n == nextPendingID
<1>1. /\ n \in RequestIDs
      /\ pendingRequests'[n] # NoRequest /\ pendingRequests'[n].status = "pending"
      /\ \A r \in RequestIDs \ {n} : pendingRequests'[r] = pendingRequests[r]
      /\ calls' = calls /\ applied' = applied
  BY Filed
<1>2. pendingRequests[n] = NoRequest
  BY <1>1, FreshRequest DEF ApprovalInv
<1>3. ~ Executed(n) /\ \A r \in RequestIDs : Executed(r)' <=> Executed(r)
  BY <1>1, RunningCall DEF Executed, MasterTypeOK
<1>4. decision[n] = "unfiled"
  BY <1>1, <1>2 DEF decision
<1>5. decision' = [decision EXCEPT ![n] = "pending"]
  BY <1>1, <1>3 DEF decision
<1> QED
  BY <1>1, <1>4, <1>5 DEF Approval!File, Approval!Becomes

\* The step that executes the write approves the request in the abstract.
LEMMA ExecuteApproves ==
  ASSUME MasterTypeOK, InDecision, NEW c \in Calls, ExecutePendingWrite(c)
  PROVE  Approval!Approve(calls[c].request) /\ calls[c].request \in RequestIDs
<1> DEFINE r == calls[c].request
<1>1. /\ r \in RequestIDs
      /\ pendingRequests[r] # NoRequest /\ pendingRequests[r].status = "pending"
  BY RunningCall DEF ExecutePendingWrite, InDecision, IsPending
<1>2. \A q \in RequestIDs : ~ Executed(q)
  BY OnlyCall DEF ExecutePendingWrite
<1>3. calls'[c].at = "executed" /\ calls'[c].request = r /\ \A d \in Calls : d = c
  BY OneDecisionAtATime DEF ExecutePendingWrite, MasterTypeOK, CallState
<1>4. \A q \in RequestIDs : Executed(q)' <=> q = r
  BY <1>3 DEF Executed
<1>5. decision[r] = "pending"
  BY <1>1, <1>2, DecisionIs
<1>6. decision' = [decision EXCEPT ![r] = "approved"]
  BY <1>1, <1>2, <1>4 DEF decision, ExecutePendingWrite
<1> QED
  BY <1>1, <1>5, <1>6 DEF Approval!Approve, Approval!Becomes, ExecutePendingWrite

\* Saving an approval changes nothing in the abstract.
LEMMA SaveApprovedStutters ==
  ASSUME MasterTypeOK, NEW c \in Calls, SaveApproved(c)
  PROVE  Unseen
<1> DEFINE r == calls[c].request
<1>1. /\ r \in RequestIDs
      /\ pendingRequests[r] # NoRequest
      /\ pendingRequests'[r] # NoRequest /\ pendingRequests'[r].status = "approved"
      /\ \A q \in RequestIDs \ {r} : pendingRequests'[q] = pendingRequests[q]
      /\ calls' = [calls EXCEPT ![c] = Idle]
      /\ applied' = applied
  BY Saved DEF SaveApproved
<1>2. \A q \in RequestIDs : Executed(q) <=> q = r
  BY OnlyCall DEF SaveApproved, SavePendingRequest
<1>3. \A q \in RequestIDs : ~ Executed(q)'
  BY <1>1, OneDecisionAtATime DEF Executed, MasterTypeOK, Idle
<1> QED
  BY <1>1, <1>2, <1>3 DEF Unseen, decision

\* Saving a rejection rejects the request in the abstract.
LEMMA SaveRejectedRejects ==
  ASSUME MasterTypeOK, InDecision, NEW c \in Calls, SaveRejected(c)
  PROVE  Approval!Reject(calls[c].request) /\ calls[c].request \in RequestIDs
<1> DEFINE r == calls[c].request
<1>1. /\ r \in RequestIDs
      /\ pendingRequests'[r] # NoRequest /\ pendingRequests'[r].status = "rejected"
      /\ \A q \in RequestIDs \ {r} : pendingRequests'[q] = pendingRequests[q]
      /\ calls' = [calls EXCEPT ![c] = Idle]
      /\ applied' = applied
  BY Saved DEF SaveRejected
<1>2. pendingRequests[r] # NoRequest /\ pendingRequests[r].status = "pending"
  BY DEF SaveRejected, SavePendingRequest, InDecision, IsPending
<1>3. \A q \in RequestIDs : ~ Executed(q)
  BY OnlyCall DEF SaveRejected, SavePendingRequest
<1>4. \A q \in RequestIDs : ~ Executed(q)'
  BY <1>1, OneDecisionAtATime DEF Executed, MasterTypeOK, Idle
<1>5. decision[r] = "pending"
  BY <1>1, <1>2, <1>3, DecisionIs
<1>6. decision' = [decision EXCEPT ![r] = "rejected"]
  BY <1>1, <1>3, <1>4 DEF decision
<1> QED
  BY <1>1, <1>5, <1>6 DEF Approval!Reject, Approval!Becomes

\* The other steps are not seen: direct writes, the reading of a request, and
\* an execution that fails.
LEMMA OthersStutter ==
  ASSUME MasterTypeOK,
         \/ UNCHANGED requestVars
         \/ \E c \in Calls, r \in RequestIDs : BeginApprove(c, r) \/ BeginReject(c, r)
         \/ \E c \in Calls : RefusePendingWrite(c)
  PROVE  Unseen
<1>1. CASE UNCHANGED requestVars
  BY <1>1 DEF Unseen, decision, Executed, requestVars
<1>2. ASSUME NEW c \in Calls, \A d \in Calls : d = c,
             calls[c].at # "executed", calls'[c].at # "executed",
             UNCHANGED <<pendingRequests, applied>>
      PROVE  Unseen
  <2>1. \A r \in RequestIDs : ~ Executed(r) /\ ~ Executed(r)'
    BY <1>2 DEF Executed
  <2> QED
    BY <1>2, <2>1 DEF Unseen, decision
<1>3. ASSUME NEW c \in Calls, NEW r \in RequestIDs, NEW to \in {"approving", "rejecting"},
             BeginDecision(c, r, to)
      PROVE  Unseen
  <2>1. calls[c].at # "executed" /\ calls'[c].at # "executed"
    BY <1>3 DEF BeginDecision, MasterTypeOK, Idle
  <2> QED
    BY <1>2, <1>3, <2>1, OneDecisionAtATime DEF BeginDecision
<1>4. ASSUME NEW c \in Calls, RefusePendingWrite(c)
      PROVE  Unseen
  <2>1. calls[c].at # "executed" /\ calls'[c].at # "executed"
    BY <1>4 DEF RefusePendingWrite, MasterTypeOK, Idle
  <2> QED
    BY <1>2, <1>4, <2>1, OneDecisionAtATime DEF RefusePendingWrite
<1> QED
  BY <1>1, <1>3, <1>4 DEF BeginApprove, BeginReject

\* Every step of the master is a step of WriteApproval or is not seen by it.
LEMMA StepRefines ==
  ASSUME MasterTypeOK, ApprovalInv, InDecision, MasterNext
  PROVE  \/ \E r \in RequestIDs : Approval!File(r) \/ Approval!Approve(r) \/ Approval!Reject(r)
         \/ Unseen
<1>1. CASE \E request \in ApproveWriteRequest : ApproveWrite(request)
  BY <1>1, ApproveWriteFiles
<1>2. CASE \E c \in Calls : ExecutePendingWrite(c)
  BY <1>2, ExecuteApproves
<1>3. CASE \E c \in Calls : SaveApproved(c)
  BY <1>3, SaveApprovedStutters
<1>4. CASE \E c \in Calls : SaveRejected(c)
  BY <1>4, SaveRejectedRejects
<1>5. CASE \/ UNCHANGED requestVars
           \/ \E c \in Calls, r \in RequestIDs : BeginApprove(c, r) \/ BeginReject(c, r)
           \/ \E c \in Calls : RefusePendingWrite(c)
  BY <1>5, OthersStutter
<1> QED
  BY <1>1, <1>2, <1>3, <1>4, <1>5
  DEF MasterNext, CreateClient, UpdateClient, DeleteClient

-----------------------------------------------------------------------------
\* The request a call decides on stays pending until that call saves it.
LEMMA NextKeepsInDecision ==
  ASSUME MasterTypeOK, InDecision, MasterNext
  PROVE  InDecision'
<1>1. CASE UNCHANGED requestVars
  BY <1>1 DEF requestVars, InDecision, IsPending
<1>2. ASSUME NEW request \in ApproveWriteRequest, ApproveWrite(request)
      PROVE  InDecision'
  <2>1. \A c \in Calls : calls[c].at # "idle" =>
            /\ calls[c].request \in RequestIDs \ {nextPendingID}
            /\ IsPending(calls[c].request)
    BY RunningCall DEF InDecision, MasterTypeOK
  <2>2. /\ calls' = calls
        /\ \A r \in RequestIDs \ {nextPendingID} : pendingRequests'[r] = pendingRequests[r]
    BY <1>2, Filed
  <2> QED
    BY <2>1, <2>2 DEF InDecision, IsPending
<1>3. ASSUME NEW c \in Calls, NEW r \in RequestIDs, NEW to \in {"approving", "rejecting"},
             BeginDecision(c, r, to)
      PROVE  InDecision'
  <2>1. calls'[c].at = to /\ calls'[c].request = r /\ \A d \in Calls : d = c
    BY <1>3, OneDecisionAtATime DEF BeginDecision, MasterTypeOK
  <2> QED
    BY <1>3, <2>1 DEF BeginDecision, InDecision, IsPending
<1>4. ASSUME NEW c \in Calls, ExecutePendingWrite(c)
      PROVE  InDecision'
  BY <1>4, OneDecisionAtATime
  DEF ExecutePendingWrite, InDecision, IsPending, MasterTypeOK, CallState
<1>5. ASSUME NEW c \in Calls, RefusePendingWrite(c) \/ SaveApproved(c) \/ SaveRejected(c)
      PROVE  InDecision'
  <2>1. calls'[c].at = "idle" /\ \A d \in Calls : d = c
    BY <1>5, OneDecisionAtATime
    DEF RefusePendingWrite, SaveApproved, SaveRejected, SavePendingRequest, MasterTypeOK, Idle
  <2> QED
    BY <2>1 DEF InDecision
<1> QED
  BY <1>1, <1>2, <1>3, <1>4, <1>5
  DEF MasterNext, CreateClient, UpdateClient, DeleteClient, BeginApprove, BeginReject

\* A request is counted in the step that approves it, and in no other.
LEMMA NextKeepsCount ==
  ASSUME MasterTypeOK, ApprovalInv, SerialInv, MasterNext
  PROVE  CountedOnce'
<1>1. ASSUME NEW r \in RequestIDs, NEW from, NEW to, Approval!Becomes(r, from, to)
      PROVE  \A q \in RequestIDs : decision'[q] = IF q = r THEN to ELSE decision[q]
  <2>1. DOMAIN decision = RequestIDs
    BY DEF decision
  <2>2. decision' = [decision EXCEPT ![r] = to]
    BY <1>1 DEF Approval!Becomes
  <2> QED
    BY <2>1, <2>2
<1>2. ASSUME NEW r \in RequestIDs, Approval!File(r) \/ Approval!Reject(r)
      PROVE  CountedOnce'
  <2>1. PICK from \in {"unfiled", "pending"}, to \in {"pending", "rejected"} :
            Approval!Becomes(r, from, to) /\ applied' = applied
    BY <1>2 DEF Approval!File, Approval!Reject
  <2>2. \A q \in RequestIDs : decision'[q] = IF q = r THEN to ELSE decision[q]
    BY <1>1, <2>1
  <2>3. decision[r] = from
    BY <2>1 DEF Approval!Becomes
  <2> QED
    BY <2>1, <2>2, <2>3 DEF SerialInv, CountedOnce
<1>3. ASSUME NEW r \in RequestIDs, Approval!Approve(r)
      PROVE  CountedOnce'
  <2>1. Approval!Becomes(r, "pending", "approved") /\ applied' = [applied EXCEPT ![r] = @ + 1]
    BY <1>3 DEF Approval!Approve
  <2>2. \A q \in RequestIDs : decision'[q] = IF q = r THEN "approved" ELSE decision[q]
    BY <1>1, <2>1
  <2>3. decision[r] = "pending"
    BY <2>1 DEF Approval!Becomes
  <2>4. \A q \in RequestIDs : applied'[q] = IF q = r THEN applied[r] + 1 ELSE applied[q]
    BY <2>1 DEF MasterTypeOK
  <2> QED
    BY <2>2, <2>3, <2>4 DEF SerialInv, CountedOnce
<1>4. CASE Unseen
  BY <1>4 DEF Unseen, SerialInv, CountedOnce
<1> QED
  BY <1>2, <1>3, <1>4, StepRefines DEF SerialInv

\* Decisions made one at a time keep the request pending until it is saved, and
\* execute it once.
THEOREM SerialCorrect == MasterSpec => []SerialInv
<1>1. MasterInit => SerialInv
  BY DEF MasterInit, SerialInv, InDecision, CountedOnce, decision, Idle
<1>2. MasterTypeOK /\ ApprovalInv /\ SerialInv /\ [MasterNext]_masterVars => SerialInv'
  <2>1. CASE UNCHANGED masterVars
    BY <2>1 DEF masterVars, SerialInv, InDecision, IsPending, CountedOnce, decision, Executed
  <2>2. ASSUME MasterTypeOK, ApprovalInv, SerialInv, MasterNext
        PROVE  SerialInv'
    BY <2>2, NextKeepsInDecision, NextKeepsCount DEF SerialInv
  <2> QED
    BY <2>1, <2>2
<1> QED
  BY <1>1, <1>2, MasterTypeCorrect, ApprovalCorrect, PTL DEF MasterSpec

\* The master implements WriteApproval: every request is decided once, and its
\* write is executed exactly when it is approved.
THEOREM MasterKeepsApproval == MasterSpec => KeepsApproval
<1>1. MasterInit => Approval!Init
  BY DEF MasterInit, Approval!Init, decision
<1>2. MasterTypeOK /\ ApprovalInv /\ SerialInv /\ [MasterNext]_masterVars
        => [Approval!Next]_(Approval!vars)
  <2>1. CASE UNCHANGED masterVars
    BY <2>1 DEF masterVars, Approval!vars, decision, Executed
  <2>2. ASSUME MasterTypeOK, ApprovalInv, SerialInv, MasterNext
        PROVE  [Approval!Next]_(Approval!vars)
    BY <2>2, StepRefines DEF Approval!Next, Approval!vars, Unseen, SerialInv
  <2> QED
    BY <2>1, <2>2
<1> QED
  BY <1>1, <1>2, MasterTypeCorrect, ApprovalCorrect, SerialCorrect, PTL
  DEF MasterSpec, KeepsApproval, Approval!Spec

\* A rejected request was not executed, when decisions do not overlap.
THEOREM RejectedNotAppliedSerially == MasterSpec => []RejectedNotApplied
<1>1. MasterTypeOK /\ SerialInv => RejectedNotApplied
  <2> SUFFICES ASSUME MasterTypeOK, SerialInv, NEW r \in RequestIDs,
                      pendingRequests[r] # NoRequest, pendingRequests[r].status = "rejected"
               PROVE  applied[r] = 0
    BY DEF RejectedNotApplied
  <2>1. ~ Executed(r)
    BY DEF Executed, SerialInv, InDecision, IsPending
  <2>2. decision[r] = "rejected"
    BY <2>1, DecisionIs
  <2> QED
    BY <2>2 DEF SerialInv, CountedOnce
<1> QED
  BY <1>1, MasterTypeCorrect, SerialCorrect, PTL

\* A request is executed at most once, when decisions do not overlap.
THEOREM AppliedOnceSerially == MasterSpec => []AppliedAtMostOnce
<1>1. SerialInv => AppliedAtMostOnce
  BY DEF SerialInv, CountedOnce, AppliedAtMostOnce
<1> QED
  BY <1>1, SerialCorrect, PTL
=============================================================================
