---------------------------- MODULE MasterProofs ----------------------------
(***************************************************************************)
(* Proofs about the master, for every set of national IDs, details and     *)
(* calls and every value of the bounds.                                    *)
(***************************************************************************)
EXTENDS Master, TLAPS, FiniteSetTheorems

(***************************************************************************)
(* What the operations of the repository preserve.                         *)
(***************************************************************************)
\* Create keeps a repository well formed, as long as there is an ID left.
LEMMA CreatedType ==
  ASSUME NEW repo \in Repository, NEW client \in Client, repo.nextID \in IDs
  PROVE  Created(repo, client) \in Repository
  BY MaxIDAssumption DEF Created, Repository, IDs

\* Update, and Insert's first half, keep a repository well formed.
LEMMA StoredType ==
  ASSUME NEW repo \in Repository, NEW id \in IDs, NEW client \in Client
  PROVE  Stored(repo, id, client) \in Repository
  BY DEF Stored, Repository

\* Delete keeps a repository well formed.
LEMMA DeletedType ==
  ASSUME NEW repo \in Repository, NEW id \in IDs
  PROVE  Deleted(repo, id) \in Repository
  BY DEF Deleted, Repository

\* Create keeps national IDs unique: no row has the new one.
LEMMA CreatedUnique ==
  ASSUME NEW repo \in Repository, NEW client \in Client, repo.nextID \in IDs,
         Unique(repo), CanCreate(repo, client)
  PROVE  Unique(Created(repo, client))
  BY DEF Created, Repository, Unique, Has, CanCreate, NoOtherHas

\* Update keeps national IDs unique: no other row has the new one.
LEMMA StoredUnique ==
  ASSUME NEW repo \in Repository, NEW id \in IDs, NEW client \in Client,
         Unique(repo), CanUpdate(repo, id, client)
  PROVE  Unique(Stored(repo, id, client))
  BY DEF Stored, Repository, Unique, Has, CanUpdate, NoOtherHas

\* Delete keeps national IDs unique.
LEMMA DeletedUnique ==
  ASSUME NEW repo \in Repository, NEW id \in IDs, Unique(repo)
  PROVE  Unique(Deleted(repo, id))
  BY DEF Deleted, Repository, Unique, Has

-----------------------------------------------------------------------------
(***************************************************************************)
(* The three writes have one shape: a payload is added to the log, the row *)
(* it names becomes what the payload says, and an insert takes nextID.     *)
(***************************************************************************)
Written(p) ==
    /\ log' = Append(log, p)
    /\ repository' \in Repository
    /\ \A i \in IDs \ {p.id} : repository'.clients[i] = repository.clients[i]
    /\ repository'.clients[p.id] = IF p.operation = "delete" THEN NoClient ELSE p.client
    /\ IF p.operation = "insert"
       THEN p.id = repository.nextID /\ repository'.nextID = repository.nextID + 1
       ELSE Has(repository, p.id) /\ repository'.nextID = repository.nextID

\* A create is such a write.
LEMMA CreateIsWrite ==
  ASSUME MasterTypeOK, NEW client \in Client, WriteCreate(client)
  PROVE  \E p \in Payload : Written(p)
<1> DEFINE p == [operation |-> "insert", id |-> repository.nextID, client |-> client]
<1>1. repository \in Repository /\ repository.nextID \in IDs
  BY DEF MasterTypeOK, WriteCreate
<1>2. p \in Payload
  BY <1>1 DEF Payload
<1>3. repository' \in Repository
  BY <1>1, CreatedType DEF WriteCreate
<1>4. log' = Append(log, p)
  BY DEF WriteCreate, Replicate
<1>5. Written(p)
  BY <1>1, <1>3, <1>4 DEF Written, WriteCreate, Created, Repository
<1> QED
  BY <1>2, <1>5

\* An update is such a write.
LEMMA UpdateIsWrite ==
  ASSUME MasterTypeOK, NEW id \in IDs, NEW client \in Client, WriteUpdate(id, client)
  PROVE  \E p \in Payload : Written(p)
<1> DEFINE p == [operation |-> "update", id |-> id, client |-> client]
<1>1. repository \in Repository
  BY DEF MasterTypeOK
<1>2. p \in Payload
  BY DEF Payload
<1>3. repository' \in Repository
  BY <1>1, StoredType DEF WriteUpdate
<1>4. log' = Append(log, p)
  BY DEF WriteUpdate, Replicate
<1>5. Written(p)
  BY <1>1, <1>3, <1>4 DEF Written, WriteUpdate, CanUpdate, Stored, Repository
<1> QED
  BY <1>2, <1>5

\* A delete is such a write.
LEMMA DeleteIsWrite ==
  ASSUME MasterTypeOK, NEW id \in IDs, WriteDelete(id)
  PROVE  \E p \in Payload : Written(p)
<1> DEFINE p == [operation |-> "delete", id |-> id, client |-> repository.clients[id]]
<1>1. repository \in Repository
  BY DEF MasterTypeOK
<1>2. p \in Payload
  BY <1>1 DEF Payload, WriteDelete, Has, Repository
<1>3. repository' \in Repository
  BY <1>1, DeletedType DEF WriteDelete
<1>4. log' = Append(log, p)
  BY DEF WriteDelete, Replicate
<1>5. Written(p)
  BY <1>1, <1>3, <1>4 DEF Written, WriteDelete, Deleted, Repository
<1> QED
  BY <1>2, <1>5

\* A handler that decides on a request has read it from the table.
LEMMA RunningCall ==
  ASSUME MasterTypeOK, NEW c \in Calls, calls[c].at # "idle"
  PROVE  /\ calls[c].request \in RequestIDs
         /\ calls[c].request < nextPendingID
         /\ pendingRequests[calls[c].request] \in PendingWriteRequest
         /\ calls[c].copy \in PendingWriteRequest
<1>1. /\ calls[c].request \in 1 .. (nextPendingID - 1)
      /\ calls[c].copy \in PendingWriteRequest
  BY DEF MasterTypeOK, CallState, Idle
<1>2. calls[c].request \in RequestIDs /\ calls[c].request < nextPendingID
  BY <1>1, BoundsAssumption DEF MasterTypeOK, RequestIDs
<1> QED
  BY <1>1, <1>2 DEF MasterTypeOK

\* Every other step leaves the table of clients and the log alone.
LEMMA StepKinds ==
  ASSUME MasterTypeOK, MasterNext
  PROVE  \/ \E p \in Payload : Written(p)
         \/ UNCHANGED <<repository, log>>
<1>1. ASSUME NEW client \in Client, CreateClient(client)
      PROVE  \E p \in Payload : Written(p)
  BY <1>1, CreateIsWrite DEF CreateClient
<1>2. ASSUME NEW id \in IDs, NEW client \in Client, UpdateClient(id, client)
      PROVE  \E p \in Payload : Written(p)
  BY <1>2, UpdateIsWrite DEF UpdateClient
<1>3. ASSUME NEW id \in IDs, DeleteClient(id)
      PROVE  \E p \in Payload : Written(p)
  BY <1>3, DeleteIsWrite DEF DeleteClient
<1>4. ASSUME NEW c \in Calls, ExecutePendingWrite(c)
      PROVE  \E p \in Payload : Written(p)
  <2> DEFINE request == calls[c].copy
  <2>1. request \in PendingWriteRequest
    BY <1>4, RunningCall DEF ExecutePendingWrite
  <2>2. CASE request.operation = "create" /\ WriteCreate(request.client)
    BY <2>1, <2>2, CreateIsWrite DEF PendingWriteRequest
  <2>3. CASE request.operation = "update" /\ WriteUpdate(request.client_id, request.client)
    <3>1. request.client_id \in IDs /\ request.client \in Client
      BY <2>1, <2>3 DEF PendingWriteRequest
    <3> QED
      BY <2>3, <3>1, UpdateIsWrite
  <2>4. CASE request.operation = "delete" /\ WriteDelete(request.client_id)
    <3>1. request.client_id \in IDs
      BY <2>1, <2>4 DEF PendingWriteRequest
    <3> QED
      BY <2>4, <3>1, DeleteIsWrite
  <2> QED
    BY <1>4, <2>2, <2>3, <2>4 DEF ExecutePendingWrite
<1> QED
  BY <1>1, <1>2, <1>3, <1>4
  DEF MasterNext, ApproveWrite, BeginApprove, BeginReject, BeginDecision,
      RefusePendingWrite, SaveApproved, SaveRejected, SavePendingRequest

-----------------------------------------------------------------------------
(***************************************************************************)
(* Type correctness.                                                       *)
(***************************************************************************)
\* The table of requests after a save is still well formed.
LEMMA SaveType ==
  ASSUME MasterTypeOK, NEW c \in Calls, NEW at \in {"executed", "rejecting"},
         NEW status \in Status, SavePendingRequest(c, at, status)
  PROVE  MasterTypeOK'
<1>1. /\ calls[c].request \in RequestIDs
      /\ pendingRequests[calls[c].request] \in PendingWriteRequest
      /\ calls[c].copy \in PendingWriteRequest
  BY RunningCall DEF SavePendingRequest
<1>2. [calls[c].copy EXCEPT !.status = status] \in PendingWriteRequest
  BY <1>1 DEF PendingWriteRequest
<1>3. pendingRequests' \in [RequestIDs -> PendingWriteRequest \cup {NoRequest}]
  BY <1>1, <1>2 DEF SavePendingRequest, MasterTypeOK
<1>4. \A r \in RequestIDs : pendingRequests'[r] # NoRequest <=> pendingRequests[r] # NoRequest
  BY <1>1, <1>2, NoRequestAssumption DEF SavePendingRequest, MasterTypeOK
<1>5. calls' \in [Calls -> CallState] /\ \A d \in Calls : calls'[d] = Idle \/ calls'[d] = calls[d]
  BY DEF SavePendingRequest, MasterTypeOK, CallState, Idle
<1> QED
  BY <1>3, <1>4, <1>5 DEF SavePendingRequest, MasterTypeOK

\* The master's variables always have the values their declarations promise;
\* the filed requests are numbered without a gap, and a running decision is
\* about a filed request.
THEOREM MasterTypeCorrect == MasterSpec => []MasterTypeOK
<1>1. MasterInit => MasterTypeOK
  BY MaxIDAssumption, BoundsAssumption, NoRequestAssumption
  DEF MasterInit, MasterTypeOK, NewClientRepository, Repository, IDs, CallState, Idle,
      RequestIDs
<1>2. MasterTypeOK /\ [MasterNext]_masterVars => MasterTypeOK'
  <2> SUFFICES ASSUME MasterTypeOK, MasterNext PROVE MasterTypeOK'
    BY DEF MasterTypeOK, masterVars
  <2>1. ASSUME NEW p \in Payload, Written(p)
        PROVE  repository' \in Repository /\ log' \in Seq(Payload)
    BY <2>1 DEF Written, MasterTypeOK
  <2>2. repository' \in Repository /\ log' \in Seq(Payload)
    BY <2>1, StepKinds DEF MasterTypeOK
  <2>3. CASE UNCHANGED requestVars
    BY <2>2, <2>3 DEF requestVars, MasterTypeOK
  <2>4. ASSUME NEW request \in ApproveWriteRequest, ApproveWrite(request)
        PROVE  MasterTypeOK'
    <3> DEFINE filed == [operation |-> request.operation,
                         client_id |-> request.client_id,
                         client    |-> request.client,
                         status    |-> "pending"]
    <3>1. filed \in PendingWriteRequest
      BY <2>4 DEF ApproveWrite, ApprovalValid, ApproveWriteRequest, PendingWriteRequest, Status
    <3>2. /\ nextPendingID \in RequestIDs
          /\ pendingRequests' = [pendingRequests EXCEPT ![nextPendingID] = filed]
          /\ nextPendingID' = nextPendingID + 1
          /\ UNCHANGED <<repository, calls, log, applied>>
      BY <2>4 DEF ApproveWrite
    <3>3. pendingRequests' \in [RequestIDs -> PendingWriteRequest \cup {NoRequest}]
      BY <3>1, <3>2 DEF MasterTypeOK
    <3>4. \A r \in RequestIDs : pendingRequests'[r] # NoRequest <=> r < nextPendingID'
      BY <3>1, <3>2, NoRequestAssumption, BoundsAssumption DEF MasterTypeOK, RequestIDs
    <3>5. nextPendingID' \in 1 .. (MaxRequests + 1)
      BY <3>2, BoundsAssumption DEF RequestIDs
    <3>6. \A c \in Calls :
              \/ calls'[c] = Idle
              \/ calls'[c].request \in 1 .. (nextPendingID' - 1) /\ calls'[c].copy # NoRequest
      BY <3>2, BoundsAssumption DEF MasterTypeOK
    <3> QED
      BY <3>2, <3>3, <3>4, <3>5, <3>6 DEF MasterTypeOK
  <2>5. ASSUME NEW c \in Calls, NEW r \in RequestIDs,
               NEW decision \in {"approving", "rejecting"}, BeginDecision(c, r, decision)
        PROVE  MasterTypeOK'
    <3>1. r \in 1 .. (nextPendingID - 1) /\ pendingRequests[r] # NoRequest
      BY <2>5, BoundsAssumption DEF BeginDecision, IsPending, MasterTypeOK, RequestIDs
    <3>2. pendingRequests[r] \in PendingWriteRequest
      BY <3>1 DEF MasterTypeOK
    <3> DEFINE begun == [at |-> decision, request |-> r, copy |-> pendingRequests[r]]
    <3>3. calls' = [calls EXCEPT ![c] = begun]
      BY <2>5 DEF BeginDecision
    <3>4. begun \in CallState /\ begun.request = r /\ begun.copy = pendingRequests[r]
      BY <3>2 DEF CallState
    <3>5. calls' \in [Calls -> CallState]
      BY <3>3, <3>4 DEF MasterTypeOK
    <3>6. ASSUME NEW d \in Calls
          PROVE  \/ calls'[d] = Idle
                 \/ calls'[d].request \in 1 .. (nextPendingID - 1) /\ calls'[d].copy # NoRequest
      <4>1. calls'[d] = IF d = c THEN begun ELSE calls[d]
        BY <3>3 DEF MasterTypeOK
      <4> QED
        BY <3>1, <3>4, <4>1 DEF MasterTypeOK
    <3> QED
      BY <2>5, <3>5, <3>6 DEF BeginDecision, MasterTypeOK
  <2>6. ASSUME NEW c \in Calls, ExecutePendingWrite(c)
        PROVE  MasterTypeOK'
    <3>1. calls[c].request \in RequestIDs /\ calls[c] # Idle
      BY <2>6, RunningCall DEF ExecutePendingWrite, Idle
    <3>2. calls' \in [Calls -> CallState]
      BY <2>6 DEF ExecutePendingWrite, MasterTypeOK, CallState
    <3>3. \A d \in Calls : /\ calls'[d].request = calls[d].request
                         /\ calls'[d].copy = calls[d].copy
      BY <2>6 DEF ExecutePendingWrite, MasterTypeOK, CallState
    <3>4. \A d \in Calls :
              \/ calls'[d] = Idle
              \/ calls'[d].request \in 1 .. (nextPendingID - 1) /\ calls'[d].copy # NoRequest
      BY <2>6, <3>1, <3>3 DEF ExecutePendingWrite, MasterTypeOK
    <3>5. applied' \in [RequestIDs -> Nat]
      BY <2>6, <3>1 DEF ExecutePendingWrite, MasterTypeOK
    <3> QED
      BY <2>2, <2>6, <3>2, <3>4, <3>5 DEF ExecutePendingWrite, MasterTypeOK
  <2>7. ASSUME NEW c \in Calls, RefusePendingWrite(c)
        PROVE  MasterTypeOK'
    BY <2>7 DEF RefusePendingWrite, MasterTypeOK, CallState, Idle
  <2>8. ASSUME NEW c \in Calls, SaveApproved(c) \/ SaveRejected(c)
        PROVE  MasterTypeOK'
    BY <2>8, SaveType DEF SaveApproved, SaveRejected, Status
  <2> QED
    BY <2>3, <2>4, <2>5, <2>6, <2>7, <2>8
    DEF MasterNext, CreateClient, UpdateClient, DeleteClient, BeginApprove, BeginReject
<1> QED
  BY <1>1, <1>2, PTL DEF MasterSpec

-----------------------------------------------------------------------------
(***************************************************************************)
(* The table of clients and the log.  An ID in the log or in the table is  *)
(* below nextID, which is why an insert is the first entry about its ID.   *)
(***************************************************************************)
LogBelowNextID == \A n \in DOMAIN log : log[n].id < repository.nextID

TableInv ==
    /\ NationalIDUnique
    /\ LogBelowNextID
    /\ JournalMatchesRepository
    /\ OneLifePerID

\* An entry added to the log leaves the older ones where they are.
LEMMA Appended ==
  ASSUME log \in Seq(Payload), NEW p \in Payload, log' = Append(log, p)
  PROVE  /\ Len(log) \in Nat
         /\ DOMAIN log = 1 .. Len(log)
         /\ DOMAIN log' = 1 .. (Len(log) + 1)
         /\ \A n \in DOMAIN log : log'[n] = log[n] /\ log[n] \in Payload
         /\ log'[Len(log) + 1] = p
  OBVIOUS

\* A write keeps the log and the table in step.
LEMMA WriteKeepsJournal ==
  ASSUME MasterTypeOK, JournalMatchesRepository, NEW p \in Payload, Written(p)
  PROVE  JournalMatchesRepository'
<1> DEFINE k == Len(log) + 1
<1>1. /\ log \in Seq(Payload)
      /\ log' = Append(log, p)
  BY DEF MasterTypeOK, Written
<1>2. /\ k \in DOMAIN log'
      /\ \A n \in DOMAIN log' : n <= k
      /\ DOMAIN log' = DOMAIN log \cup {k}
      /\ \A n \in DOMAIN log : log'[n] = log[n] /\ n \in Nat
      /\ log'[k] = p
  BY <1>1, Appended
<1> SUFFICES ASSUME NEW i \in IDs
             PROVE  IF WritesTo(i)' = {}
                    THEN ~ Has(repository', i)
                    ELSE \E n \in WritesTo(i)' :
                            /\ \A m \in WritesTo(i)' : m <= n
                            /\ repository'.clients[i] =
                                 IF log'[n].operation = "delete" THEN NoClient
                                 ELSE log'[n].client
  BY DEF JournalMatchesRepository
<1>3. CASE i = p.id
  <2>1. k \in WritesTo(i)' /\ \A m \in WritesTo(i)' : m <= k
    BY <1>2, <1>3 DEF WritesTo
  <2>2. repository'.clients[i] = IF log'[k].operation = "delete" THEN NoClient ELSE log'[k].client
    BY <1>2, <1>3 DEF Written
  <2> QED
    BY <2>1, <2>2
<1>4. CASE i # p.id
  <2>1. WritesTo(i)' = WritesTo(i)
    BY <1>2, <1>4 DEF WritesTo
  <2>2. repository'.clients[i] = repository.clients[i]
    BY <1>4 DEF Written
  <2>3. \A n \in WritesTo(i) : log'[n] = log[n]
    BY <1>2 DEF WritesTo
  <2> QED
    BY <2>1, <2>2, <2>3 DEF JournalMatchesRepository, Has
<1> QED
  BY <1>3, <1>4

\* A write gives no ID a second life: an insert takes an ID the log does not
\* have, and a row that can be updated or deleted has not been deleted.
LEMMA WriteKeepsLives ==
  ASSUME MasterTypeOK, LogBelowNextID, JournalMatchesRepository, OneLifePerID,
         NEW p \in Payload, Written(p)
  PROVE  OneLifePerID' /\ LogBelowNextID'
<1> DEFINE k == Len(log) + 1
<1>1. /\ log \in Seq(Payload)
      /\ log' = Append(log, p)
      /\ repository.nextID \in Nat /\ repository'.nextID \in Nat
      /\ p.id \in IDs
  BY DEF MasterTypeOK, Written, Repository, Payload
<1>2. /\ k \in Nat
      /\ \A n \in DOMAIN log : n < k /\ n \in Nat /\ log'[n] = log[n] /\ log[n].id \in Nat
      /\ DOMAIN log' = DOMAIN log \cup {k}
      /\ log'[k] = p
  BY <1>1, Appended DEF Payload, IDs
<1>3. ASSUME p.operation # "insert"
      PROVE  /\ p.id < repository.nextID
             /\ \A m \in DOMAIN log : log[m].id = p.id => log[m].operation # "delete"
  <2>1. Has(repository, p.id)
    BY <1>3 DEF Written
  <2>2. PICK n \in WritesTo(p.id) :
            /\ \A m \in WritesTo(p.id) : m <= n
            /\ repository.clients[p.id] =
                 IF log[n].operation = "delete" THEN NoClient ELSE log[n].client
    BY <1>1, <2>1 DEF JournalMatchesRepository
  <2>3. n \in DOMAIN log /\ log[n].id = p.id /\ log[n].operation # "delete"
    BY <2>1, <2>2 DEF WritesTo, Has
  <2>4. ASSUME NEW m \in DOMAIN log, log[m].id = p.id, log[m].operation = "delete"
        PROVE  FALSE
    <3>1. n <= m
      BY <2>3, <2>4 DEF OneLifePerID
    <3>2. m <= n
      BY <2>2, <2>4 DEF WritesTo
    <3> QED
      BY <1>2, <2>3, <2>4, <3>1, <3>2
  <2>5. p.id < repository.nextID
    BY <2>3 DEF LogBelowNextID
  <2> QED
    BY <2>4, <2>5
<1>4. LogBelowNextID'
  <2>1. p.id < repository'.nextID
    BY <1>1, <1>3 DEF Written, IDs
  <2>2. repository.nextID <= repository'.nextID
    BY <1>1 DEF Written
  <2> QED
    BY <1>1, <1>2, <2>1, <2>2 DEF LogBelowNextID
<1>5. p.operation = "insert" => \A m \in DOMAIN log : log[m].id # p.id
  BY <1>1, <1>2 DEF Written, LogBelowNextID
<1>6. OneLifePerID'
  <2> SUFFICES ASSUME NEW m \in DOMAIN log', NEW n \in DOMAIN log'
               PROVE  /\ log'[n].operation = "insert" /\ m # n /\ log'[m].id = log'[n].id => n < m
                      /\ log'[m].operation = "delete" /\ log'[n].id = log'[m].id => n <= m
    BY DEF OneLifePerID
  <2>1. CASE m \in DOMAIN log /\ n \in DOMAIN log
    BY <1>2, <2>1 DEF OneLifePerID
  <2>2. CASE m = k /\ n \in DOMAIN log
    BY <1>2, <2>2
  <2>3. CASE n = k /\ m \in DOMAIN log
    BY <1>2, <1>3, <1>5, <2>3
  <2>4. CASE m = k /\ n = k
    BY <1>2, <2>4
  <2> QED
    BY <1>2, <2>1, <2>2, <2>3, <2>4
<1> QED
  BY <1>4, <1>6

\* No step gives two clients of the master one national ID.
LEMMA NextKeepsUnique ==
  ASSUME MasterTypeOK, NationalIDUnique, MasterNext
  PROVE  NationalIDUnique'
<1>1. repository \in Repository
  BY DEF MasterTypeOK
<1>2. ASSUME NEW client \in Client, WriteCreate(client)
      PROVE  NationalIDUnique'
  BY <1>1, <1>2, CreatedUnique DEF WriteCreate, NationalIDUnique
<1>3. ASSUME NEW id \in IDs, NEW client \in Client, WriteUpdate(id, client)
      PROVE  NationalIDUnique'
  BY <1>1, <1>3, StoredUnique DEF WriteUpdate, NationalIDUnique
<1>4. ASSUME NEW id \in IDs, WriteDelete(id)
      PROVE  NationalIDUnique'
  BY <1>1, <1>4, DeletedUnique DEF WriteDelete, NationalIDUnique
<1>5. ASSUME NEW c \in Calls, ExecutePendingWrite(c)
      PROVE  NationalIDUnique'
  <2> DEFINE request == calls[c].copy
  <2>1. request \in PendingWriteRequest
    BY <1>5, RunningCall DEF ExecutePendingWrite
  <2>2. CASE request.operation = "create" /\ WriteCreate(request.client)
    BY <1>2, <2>1, <2>2 DEF PendingWriteRequest
  <2>3. CASE request.operation = "update" /\ WriteUpdate(request.client_id, request.client)
    <3>1. request.client_id \in IDs /\ request.client \in Client
      BY <2>1, <2>3 DEF PendingWriteRequest
    <3> QED
      BY <1>3, <2>3, <3>1
  <2>4. CASE request.operation = "delete" /\ WriteDelete(request.client_id)
    <3>1. request.client_id \in IDs
      BY <2>1, <2>4 DEF PendingWriteRequest
    <3> QED
      BY <1>4, <2>4, <3>1
  <2> QED
    BY <1>5, <2>2, <2>3, <2>4 DEF ExecutePendingWrite
<1>6. ASSUME UNCHANGED repository
      PROVE  NationalIDUnique'
  BY <1>6 DEF NationalIDUnique
<1> QED
  BY <1>2, <1>3, <1>4, <1>5, <1>6
  DEF MasterNext, CreateClient, UpdateClient, DeleteClient, ApproveWrite, BeginApprove,
      BeginReject, BeginDecision, RefusePendingWrite, SaveApproved, SaveRejected,
      SavePendingRequest

\* The table of clients has unique national IDs, is what the log says, and
\* never hands out an ID twice, whatever direct writes and approvals overlap.
THEOREM TableCorrect == MasterSpec => []TableInv
<1>1. MasterInit => TableInv
  BY DEF MasterInit, TableInv, NationalIDUnique, Unique, LogBelowNextID, OneLifePerID,
         JournalMatchesRepository, WritesTo, Has, NewClientRepository
<1>2. MasterTypeOK /\ TableInv /\ [MasterNext]_masterVars => TableInv'
  <2> SUFFICES ASSUME MasterTypeOK, TableInv, [MasterNext]_masterVars
               PROVE  TableInv'
    OBVIOUS
  <2>1. ASSUME UNCHANGED <<repository, log>>
        PROVE  (LogBelowNextID /\ JournalMatchesRepository /\ OneLifePerID)'
    BY <2>1 DEF TableInv, LogBelowNextID, JournalMatchesRepository, OneLifePerID, WritesTo, Has
  <2>2. ASSUME NEW p \in Payload, Written(p)
        PROVE  (LogBelowNextID /\ JournalMatchesRepository /\ OneLifePerID)'
    BY <2>2, WriteKeepsJournal, WriteKeepsLives DEF TableInv
  <2>3. NationalIDUnique'
    BY NextKeepsUnique DEF TableInv, masterVars, NationalIDUnique
  <2> QED
    BY <2>1, <2>2, <2>3, StepKinds DEF TableInv, masterVars
<1> QED
  BY <1>1, <1>2, MasterTypeCorrect, PTL DEF MasterSpec

\* National IDs are unique on the master.
THEOREM NationalIDUniqueAlways == MasterSpec => []NationalIDUnique
  BY TableCorrect, PTL DEF TableInv

\* The log always tells what the table has.
THEOREM JournalAlways == MasterSpec => []JournalMatchesRepository
  BY TableCorrect, PTL DEF TableInv

\* An ID has one life.
THEOREM OneLifeAlways == MasterSpec => []OneLifePerID
  BY TableCorrect, PTL DEF TableInv

-----------------------------------------------------------------------------
(***************************************************************************)
(* The approval workflow: what holds however many decisions overlap.       *)
(*                                                                         *)
(* A call that has executed its request has been counted; with             *)
(* AppliedIsDecided, whose second disjunct is such a call, this is         *)
(* inductive.                                                              *)
(***************************************************************************)
ExecutedIsApplied ==
    \A c \in Calls : calls[c].at = "executed" => applied[calls[c].request] > 0

ApprovalInv == ApprovedWasApplied /\ AppliedIsDecided /\ ExecutedIsApplied

\* The entry a new request takes is free, and its write was never executed.
LEMMA FreshRequest ==
  ASSUME MasterTypeOK, AppliedIsDecided, nextPendingID \in RequestIDs
  PROVE  pendingRequests[nextPendingID] = NoRequest /\ ~ applied[nextPendingID] > 0
<1>1. pendingRequests[nextPendingID] = NoRequest
  BY BoundsAssumption DEF MasterTypeOK, RequestIDs
<1>2. ASSUME NEW c \in Calls PROVE ~ (calls[c].at = "executed" /\ calls[c].request = nextPendingID)
  BY RunningCall DEF MasterTypeOK
<1> QED
  BY <1>1, <1>2 DEF AppliedIsDecided

\* What ApproveWrite does to the table: one free entry is filled.
LEMMA Filed ==
  ASSUME MasterTypeOK, NEW request \in ApproveWriteRequest, ApproveWrite(request)
  PROVE  /\ nextPendingID \in RequestIDs
         /\ pendingRequests'[nextPendingID].status = "pending"
         /\ pendingRequests'[nextPendingID] # NoRequest
         /\ \A r \in RequestIDs \ {nextPendingID} : pendingRequests'[r] = pendingRequests[r]
         /\ UNCHANGED <<repository, calls, log, applied>>
<1> DEFINE filed == [operation |-> request.operation,
                     client_id |-> request.client_id,
                     client    |-> request.client,
                     status    |-> "pending"]
<1>1. filed \in PendingWriteRequest
  BY DEF ApproveWrite, ApprovalValid, ApproveWriteRequest, PendingWriteRequest, Status
<1>2. nextPendingID \in RequestIDs /\ pendingRequests' = [pendingRequests EXCEPT ![nextPendingID] = filed]
  BY DEF ApproveWrite
<1> QED
  BY <1>1, <1>2, NoRequestAssumption DEF ApproveWrite, MasterTypeOK

\* What the end of a decision does to the table: the copy takes its entry.
LEMMA Saved ==
  ASSUME MasterTypeOK, NEW c \in Calls, NEW at \in {"executed", "rejecting"},
         NEW status \in {"approved", "rejected"}, SavePendingRequest(c, at, status)
  PROVE  LET r == calls[c].request IN
         /\ r \in RequestIDs
         /\ pendingRequests[r] # NoRequest
         /\ calls[c].copy \in PendingWriteRequest
         /\ pendingRequests'[r] = [calls[c].copy EXCEPT !.status = status]
         /\ pendingRequests'[r] # NoRequest
         /\ pendingRequests'[r].status = status
         /\ \A q \in RequestIDs \ {r} : pendingRequests'[q] = pendingRequests[q]
         /\ calls' = [calls EXCEPT ![c] = Idle]
         /\ UNCHANGED <<repository, nextPendingID, log, applied>>
<1> DEFINE r == calls[c].request
<1>1. /\ r \in RequestIDs
      /\ pendingRequests[r] \in PendingWriteRequest
      /\ calls[c].copy \in PendingWriteRequest
  BY RunningCall DEF SavePendingRequest
<1>2. [calls[c].copy EXCEPT !.status = status] \in PendingWriteRequest
  BY <1>1 DEF PendingWriteRequest, Status
<1> QED
  BY <1>1, <1>2, NoRequestAssumption
  DEF SavePendingRequest, MasterTypeOK, PendingWriteRequest

\* An approved request was executed, and an executed one is decided or about
\* to be, however many administrators decide at the same time.
THEOREM ApprovalCorrect == MasterSpec => []ApprovalInv
<1>1. MasterInit => ApprovalInv
  BY DEF MasterInit, ApprovalInv, ApprovedWasApplied, AppliedIsDecided, ExecutedIsApplied, Idle
<1>2. MasterTypeOK /\ ApprovalInv /\ [MasterNext]_masterVars => ApprovalInv'
  <2> SUFFICES ASSUME MasterTypeOK, ApprovalInv, MasterNext PROVE ApprovalInv'
    BY DEF ApprovalInv, ApprovedWasApplied, AppliedIsDecided, ExecutedIsApplied, masterVars
  <2>1. CASE UNCHANGED requestVars
    BY <2>1 DEF requestVars, ApprovalInv, ApprovedWasApplied, AppliedIsDecided, ExecutedIsApplied
  <2>2. ASSUME NEW request \in ApproveWriteRequest, ApproveWrite(request)
        PROVE  ApprovalInv'
    <3>1. ~ applied[nextPendingID] > 0
      BY <2>2, FreshRequest DEF ApproveWrite, ApprovalInv
    <3> QED
      BY <2>2, <3>1, Filed
      DEF ApprovalInv, ApprovedWasApplied, AppliedIsDecided, ExecutedIsApplied
  <2>3. ASSUME NEW c \in Calls, NEW r \in RequestIDs,
               NEW decision \in {"approving", "rejecting"}, BeginDecision(c, r, decision)
        PROVE  ApprovalInv'
    <3>1. \A d \in Calls : calls'[d] = calls[d] \/ calls'[d].at = decision
      BY <2>3 DEF BeginDecision, MasterTypeOK
    <3>2. \A d \in Calls : calls[d].at = "executed" => calls'[d] = calls[d]
      BY <2>3 DEF BeginDecision, MasterTypeOK, Idle
    <3> QED
      BY <2>3, <3>1, <3>2
      DEF BeginDecision, ApprovalInv, ApprovedWasApplied, AppliedIsDecided, ExecutedIsApplied
  <2>4. ASSUME NEW c \in Calls, ExecutePendingWrite(c)
        PROVE  ApprovalInv'
    <3> DEFINE r == calls[c].request
    <3>1. r \in RequestIDs
      BY <2>4, RunningCall DEF ExecutePendingWrite
    <3>2. /\ calls'[c].at = "executed" /\ calls'[c].request = r
          /\ \A d \in Calls \ {c} : calls'[d] = calls[d]
      BY <2>4 DEF ExecutePendingWrite, MasterTypeOK, CallState
    <3>3. /\ applied'[r] > 0
          /\ \A q \in RequestIDs \ {r} : applied'[q] = applied[q]
          /\ \A q \in RequestIDs : applied[q] > 0 => applied'[q] > 0
      BY <2>4, <3>1 DEF ExecutePendingWrite, MasterTypeOK
    <3>4. ApprovedWasApplied'
      BY <2>4, <3>3 DEF ExecutePendingWrite, ApprovalInv, ApprovedWasApplied
    <3>5. AppliedIsDecided'
      <4> SUFFICES ASSUME NEW q \in RequestIDs, applied'[q] > 0
                   PROVE  \/ pendingRequests'[q] # NoRequest /\ pendingRequests'[q].status # "pending"
                          \/ \E d \in Calls : calls'[d].at = "executed" /\ calls'[d].request = q
        BY DEF AppliedIsDecided
      <4>1. CASE q = r
        BY <3>2, <4>1
      <4>2. CASE q # r
        <5>1. \/ pendingRequests[q] # NoRequest /\ pendingRequests[q].status # "pending"
              \/ \E d \in Calls : calls[d].at = "executed" /\ calls[d].request = q
          BY <3>3, <4>2 DEF ApprovalInv, AppliedIsDecided
        <5>2. ASSUME NEW d \in Calls, calls[d].at = "executed" /\ calls[d].request = q
              PROVE  calls'[d].at = "executed" /\ calls'[d].request = q
          BY <2>4, <3>2, <5>2 DEF ExecutePendingWrite
        <5> QED
          BY <2>4, <5>1, <5>2 DEF ExecutePendingWrite
      <4> QED
        BY <4>1, <4>2
    <3>6. ExecutedIsApplied'
      <4> SUFFICES ASSUME NEW d \in Calls, calls'[d].at = "executed"
                   PROVE  applied'[calls'[d].request] > 0
        BY DEF ExecutedIsApplied
      <4>1. CASE d = c
        BY <3>2, <3>3, <4>1
      <4>2. CASE d # c
        BY <3>2, <3>3, <4>2, RunningCall DEF ApprovalInv, ExecutedIsApplied
      <4> QED
        BY <4>1, <4>2
    <3> QED
      BY <3>4, <3>5, <3>6 DEF ApprovalInv
  <2>5. ASSUME NEW c \in Calls, RefusePendingWrite(c)
        PROVE  ApprovalInv'
    <3>1. /\ \A d \in Calls : calls'[d] = calls[d] \/ calls'[d].at = "idle"
          /\ \A d \in Calls : calls[d].at = "executed" => calls'[d] = calls[d]
      BY <2>5 DEF RefusePendingWrite, MasterTypeOK, Idle
    <3> QED
      BY <2>5, <3>1
      DEF RefusePendingWrite, ApprovalInv, ApprovedWasApplied, AppliedIsDecided, ExecutedIsApplied
  <2>6. ASSUME NEW c \in Calls, NEW at \in {"executed", "rejecting"},
               NEW status \in {"approved", "rejected"}, SavePendingRequest(c, at, status),
               status = "approved" => at = "executed"
        PROVE  ApprovalInv'
    <3> DEFINE r == calls[c].request
    <3>1. /\ calls' = [calls EXCEPT ![c] = Idle]
          /\ applied' = applied
          /\ r \in RequestIDs
          /\ pendingRequests'[r] # NoRequest
          /\ pendingRequests'[r].status = status
          /\ \A q \in RequestIDs \ {r} : pendingRequests'[q] = pendingRequests[q]
      BY <2>6, Saved
    <3>2. /\ \A d \in Calls \ {c} : calls'[d] = calls[d]
          /\ calls'[c].at = "idle"
      BY <3>1 DEF MasterTypeOK, Idle
    <3>3. ExecutedIsApplied'
      BY <3>1, <3>2 DEF ApprovalInv, ExecutedIsApplied
    <3>4. status = "approved" => applied[r] > 0
      BY <2>6 DEF SavePendingRequest, ApprovalInv, ExecutedIsApplied
    <3>5. ApprovedWasApplied'
      BY <3>1, <3>4 DEF ApprovalInv, ApprovedWasApplied
    <3>6. AppliedIsDecided'
      <4> SUFFICES ASSUME NEW q \in RequestIDs, applied'[q] > 0
                   PROVE  \/ pendingRequests'[q] # NoRequest /\ pendingRequests'[q].status # "pending"
                          \/ \E d \in Calls : calls'[d].at = "executed" /\ calls'[d].request = q
        BY DEF AppliedIsDecided
      <4>1. CASE q = r
        BY <3>1, <4>1
      <4>2. CASE q # r
        <5>1. \/ pendingRequests[q] # NoRequest /\ pendingRequests[q].status # "pending"
              \/ \E d \in Calls : calls[d].at = "executed" /\ calls[d].request = q
          BY <3>1 DEF ApprovalInv, AppliedIsDecided
        <5>2. ASSUME NEW d \in Calls, calls[d].at = "executed" /\ calls[d].request = q
              PROVE  calls'[d].at = "executed" /\ calls'[d].request = q
          BY <3>2, <4>2, <5>2
        <5> QED
          BY <3>1, <4>2, <5>1, <5>2
      <4> QED
        BY <4>1, <4>2
    <3> QED
      BY <3>3, <3>5, <3>6 DEF ApprovalInv
  <2> QED
    BY <2>1, <2>2, <2>3, <2>4, <2>5, <2>6
    DEF MasterNext, CreateClient, UpdateClient, DeleteClient, BeginApprove, BeginReject,
        SaveApproved, SaveRejected
<1> QED
  BY <1>1, <1>2, MasterTypeCorrect, PTL DEF MasterSpec

\* An approved request was executed.
THEOREM ApprovedWasAppliedAlways == MasterSpec => []ApprovedWasApplied
  BY ApprovalCorrect, PTL DEF ApprovalInv

\* An executed request is decided, or is about to be saved as approved.
THEOREM AppliedIsDecidedAlways == MasterSpec => []AppliedIsDecided
  BY ApprovalCorrect, PTL DEF ApprovalInv

-----------------------------------------------------------------------------
(***************************************************************************)
(* What a request asks for.  A handler overwrites an entry of the table    *)
(* with the copy it read before, so that the entry keeps its content only  *)
(* because every copy that is still held has it: it was read from the      *)
(* entry, and whatever was saved since was a copy of the entry too.  The   *)
(* status is another matter: copies differ from the table in it.           *)
(***************************************************************************)
AsksForSame(p, q) ==
    /\ p.operation = q.operation
    /\ p.client_id = q.client_id
    /\ p.client = q.client

CopiesAgree ==
    \A c \in Calls : calls[c].at # "idle" =>
        AsksForSame(calls[c].copy, pendingRequests[calls[c].request])

\* A save leaves what the entry asks for as it was.
LEMMA SavedAsksForSame ==
  ASSUME MasterTypeOK, CopiesAgree, NEW c \in Calls, NEW at \in {"executed", "rejecting"},
         NEW status \in {"approved", "rejected"}, SavePendingRequest(c, at, status)
  PROVE  AsksForSame(pendingRequests'[calls[c].request], pendingRequests[calls[c].request])
<1>1. AsksForSame(calls[c].copy, pendingRequests[calls[c].request])
  BY DEF CopiesAgree, SavePendingRequest
<1>2. AsksForSame([calls[c].copy EXCEPT !.status = status], calls[c].copy)
  BY Saved DEF AsksForSame, PendingWriteRequest
<1> QED
  BY <1>1, <1>2, Saved DEF AsksForSame

\* The copy a handler holds asks for what the table shows under its number.
THEOREM CopiesAgreeAlways == MasterSpec => []CopiesAgree
<1>1. MasterInit => CopiesAgree
  BY DEF MasterInit, CopiesAgree, Idle
<1>2. MasterTypeOK /\ CopiesAgree /\ [MasterNext]_masterVars => CopiesAgree'
  <2> SUFFICES ASSUME MasterTypeOK, CopiesAgree, [MasterNext]_masterVars
               PROVE  CopiesAgree'
    OBVIOUS
  <2>1. CASE UNCHANGED requestVars \/ UNCHANGED masterVars
    BY <2>1 DEF requestVars, masterVars, CopiesAgree
  <2>2. ASSUME NEW request \in ApproveWriteRequest, ApproveWrite(request)
        PROVE  CopiesAgree'
    <3>1. \A c \in Calls : calls[c].at # "idle" =>
              calls[c].request \in RequestIDs \ {nextPendingID}
      BY RunningCall DEF MasterTypeOK
    <3> QED
      BY <2>2, <3>1, Filed DEF CopiesAgree
  <2>3. ASSUME NEW c \in Calls, NEW r \in RequestIDs,
               NEW decision \in {"approving", "rejecting"}, BeginDecision(c, r, decision)
        PROVE  CopiesAgree'
    <3>1. /\ calls'[c].request = r /\ calls'[c].copy = pendingRequests[r]
          /\ \A d \in Calls \ {c} : calls'[d] = calls[d]
      BY <2>3 DEF BeginDecision, MasterTypeOK
    <3> QED
      BY <2>3, <3>1 DEF BeginDecision, CopiesAgree, AsksForSame
  <2>4. ASSUME NEW c \in Calls, ExecutePendingWrite(c)
        PROVE  CopiesAgree'
    <3>1. /\ calls[c].at # "idle"
          /\ calls'[c].request = calls[c].request /\ calls'[c].copy = calls[c].copy
          /\ \A d \in Calls \ {c} : calls'[d] = calls[d]
      BY <2>4 DEF ExecutePendingWrite, MasterTypeOK, CallState
    <3> QED
      BY <2>4, <3>1 DEF ExecutePendingWrite, CopiesAgree
  <2>5. ASSUME NEW c \in Calls, RefusePendingWrite(c)
        PROVE  CopiesAgree'
    BY <2>5 DEF RefusePendingWrite, CopiesAgree, MasterTypeOK, Idle
  <2>6. ASSUME NEW c \in Calls, NEW at \in {"executed", "rejecting"},
               NEW status \in {"approved", "rejected"}, SavePendingRequest(c, at, status)
        PROVE  CopiesAgree'
    <3>1. \A r \in RequestIDs :
              r = calls[c].request \/ pendingRequests'[r] = pendingRequests[r]
      BY <2>6, Saved
    <3>2. AsksForSame(pendingRequests'[calls[c].request], pendingRequests[calls[c].request])
      BY <2>6, SavedAsksForSame
    <3>3. calls'[c].at = "idle" /\ \A d \in Calls \ {c} : calls'[d] = calls[d]
      BY <2>6 DEF SavePendingRequest, MasterTypeOK, Idle
    <3>4. \A d \in Calls : calls[d].at # "idle" => calls[d].request \in RequestIDs
      BY RunningCall
    <3> QED
      BY <3>1, <3>2, <3>3, <3>4 DEF CopiesAgree, AsksForSame
  <2> QED
    BY <2>1, <2>2, <2>3, <2>4, <2>5, <2>6
    DEF MasterNext, CreateClient, UpdateClient, DeleteClient, BeginApprove, BeginReject,
        SaveApproved, SaveRejected
<1> QED
  BY <1>1, <1>2, MasterTypeCorrect, PTL DEF MasterSpec

\* One entry of the table in one step: it stays filed, keeps its content, and
\* never goes back to pending.
StaysFiled(r) ==
    pendingRequests[r] # NoRequest =>
      /\ pendingRequests'[r] # NoRequest
      /\ pendingRequests'[r].operation = pendingRequests[r].operation
      /\ pendingRequests'[r].client_id = pendingRequests[r].client_id
      /\ pendingRequests'[r].client = pendingRequests[r].client
      /\ pendingRequests'[r].status = "pending" => pendingRequests[r].status = "pending"

\* No handler overwrites a filed request with another, or reopens a decided one.
THEOREM RequestsStableAlways == MasterSpec => RequestsAreStable
<1>1. MasterTypeOK /\ AppliedIsDecided /\ CopiesAgree /\ [MasterNext]_masterVars
        => [\A r \in RequestIDs : StaysFiled(r)]_masterVars
  <2> SUFFICES ASSUME MasterTypeOK, AppliedIsDecided, CopiesAgree, MasterNext, NEW r \in RequestIDs
               PROVE  StaysFiled(r)
    OBVIOUS
  <2>1. CASE UNCHANGED pendingRequests
    BY <2>1 DEF StaysFiled
  <2>2. ASSUME NEW request \in ApproveWriteRequest, ApproveWrite(request)
        PROVE  StaysFiled(r)
    BY <2>2, Filed, FreshRequest DEF StaysFiled
  <2>3. ASSUME NEW c \in Calls, NEW at \in {"executed", "rejecting"},
               NEW status \in {"approved", "rejected"}, SavePendingRequest(c, at, status)
        PROVE  StaysFiled(r)
    <3>1. CASE r = calls[c].request
      <4>1. AsksForSame(pendingRequests'[r], pendingRequests[r])
        BY <2>3, <3>1, SavedAsksForSame
      <4> QED
        BY <2>3, <3>1, <4>1, Saved DEF StaysFiled, AsksForSame
    <3>2. CASE r # calls[c].request
      BY <2>3, <3>2, Saved DEF StaysFiled
    <3> QED
      BY <3>1, <3>2
  <2> QED
    BY <2>1, <2>2, <2>3
    DEF MasterNext, CreateClient, UpdateClient, DeleteClient, requestVars, BeginApprove,
        BeginReject, BeginDecision, ExecutePendingWrite, RefusePendingWrite, SaveApproved,
        SaveRejected
<1> QED
  BY <1>1, MasterTypeCorrect, AppliedIsDecidedAlways, CopiesAgreeAlways, PTL
  DEF MasterSpec, RequestsAreStable, StaysFiled

-----------------------------------------------------------------------------
(***************************************************************************)
(* How often a request is executed.  While it is pending, every execution  *)
(* belongs to a call that has yet to save it.  Once it is decided, no call *)
(* begins, and each execution still to come belongs to a call that read it *)
(* as pending: of the calls there are, those that have executed it and     *)
(* those that may are different ones.                                      *)
(***************************************************************************)
Handling(r, at) == {c \in Calls : calls[c].at = at /\ calls[c].request = r}

Undecided(r) == pendingRequests[r] = NoRequest \/ pendingRequests[r].status = "pending"

Accounted(r) ==
    IF Undecided(r)
    THEN applied[r] = Cardinality(Handling(r, "executed"))
    ELSE applied[r] + Cardinality(Handling(r, "approving")) <= Cardinality(Calls)

OverlapInv == \A r \in RequestIDs : Accounted(r)

\* The calls at one stage of a request are a finite number.
LEMMA HandlingFinite ==
  ASSUME NEW r, NEW at
  PROVE  /\ IsFiniteSet(Handling(r, at))
         /\ Cardinality(Handling(r, at)) \in Nat
         /\ Cardinality(Handling(r, at)) <= Cardinality(Calls)
BY CallsAssumption, FS_Subset, FS_CardinalityType DEF Handling

\* Calls that have executed a request and calls that may are at most all.
LEMMA DisjointStages ==
  ASSUME NEW r
  PROVE  Cardinality(Handling(r, "executed")) + Cardinality(Handling(r, "approving"))
           <= Cardinality(Calls)
<1> DEFINE done == Handling(r, "executed")
           open == Handling(r, "approving")
<1>1. done \cap open = {}
  BY DEF Handling
<1>2. IsFiniteSet(done) /\ IsFiniteSet(open)
  BY HandlingFinite
<1>3. Cardinality(done \cup open) = Cardinality(done) + Cardinality(open) - Cardinality(done \cap open)
  BY <1>2, FS_Union
<1>4. Cardinality(done \cup open) <= Cardinality(Calls)
  BY CallsAssumption, FS_Subset DEF Handling
<1>5. Cardinality(done) \in Nat /\ Cardinality(open) \in Nat
  BY <1>2, FS_CardinalityType
<1>6. Cardinality(done \cap open) = 0
  BY <1>1, FS_EmptySet
<1> QED
  BY <1>3, <1>4, <1>5, <1>6

\* No request is executed more often than decisions overlap.
THEOREM AppliedOncePerCallAlways == MasterSpec => []AppliedOncePerCall
<1>1. MasterInit => OverlapInv
  <2> SUFFICES ASSUME MasterInit, NEW r \in RequestIDs  PROVE Accounted(r)
    BY DEF OverlapInv
  <2>1. Handling(r, "executed") = {}
    BY DEF MasterInit, Handling, Idle
  <2> QED
    BY <2>1, FS_EmptySet DEF MasterInit, Accounted, Undecided
<1>2. MasterTypeOK /\ OverlapInv /\ [MasterNext]_masterVars => OverlapInv'
  <2> SUFFICES ASSUME MasterTypeOK, OverlapInv, [MasterNext]_masterVars,
                      NEW q \in RequestIDs
               PROVE  Accounted(q)'
    BY DEF OverlapInv
  <2>1. Accounted(q) /\ applied[q] \in Nat
    BY DEF OverlapInv, MasterTypeOK
  <2>2. CASE UNCHANGED requestVars \/ UNCHANGED masterVars
    BY <2>1, <2>2 DEF requestVars, masterVars, Accounted, Undecided, Handling
  <2>3. ASSUME NEW request \in ApproveWriteRequest, ApproveWrite(request)
        PROVE  Accounted(q)'
    <3>1. Handling(q, "executed")' = Handling(q, "executed")
      BY <2>3, Filed DEF Handling
    <3>2. Handling(q, "approving")' = Handling(q, "approving")
      BY <2>3, Filed DEF Handling
    <3>3. CASE q = nextPendingID
      <4>1. pendingRequests[q] = NoRequest
        BY <3>3, BoundsAssumption DEF MasterTypeOK, RequestIDs
      <4> QED
        BY <2>1, <2>3, <3>1, <3>3, <4>1, Filed DEF Accounted, Undecided
    <3>4. CASE q # nextPendingID
      BY <2>1, <2>3, <3>1, <3>2, <3>4, Filed DEF Accounted, Undecided
    <3> QED
      BY <3>3, <3>4
  <2>4. ASSUME NEW c \in Calls, NEW r \in RequestIDs,
               NEW decision \in {"approving", "rejecting"}, BeginDecision(c, r, decision)
        PROVE  Accounted(q)'
    <3>1. /\ calls'[c].at = decision /\ calls'[c].request = r
          /\ \A d \in Calls \ {c} : calls'[d] = calls[d]
      BY <2>4 DEF BeginDecision, MasterTypeOK
    <3>2. \A at \in {"executed", "approving"} : c \notin Handling(q, at)
      BY <2>4 DEF BeginDecision, Handling, Idle
    <3>3. Handling(q, "executed")' = Handling(q, "executed")
      BY <3>1, <3>2 DEF Handling
    <3>4. CASE q = r
      BY <2>1, <2>4, <3>3, <3>4 DEF BeginDecision, IsPending, Accounted, Undecided
    <3>5. CASE q # r
      <4>1. Handling(q, "approving")' = Handling(q, "approving")
        BY <3>1, <3>2, <3>5 DEF Handling
      <4> QED
        BY <2>1, <2>4, <3>3, <4>1 DEF BeginDecision, Accounted, Undecided
    <3> QED
      BY <3>4, <3>5
  <2>5. ASSUME NEW c \in Calls, ExecutePendingWrite(c)
        PROVE  Accounted(q)'
    <3> DEFINE r == calls[c].request
               done == Handling(q, "executed")
               open == Handling(q, "approving")
    <3>1. calls[c].at = "approving" /\ calls[c].request = r /\ r \in RequestIDs
      BY <2>5, RunningCall DEF ExecutePendingWrite, MasterTypeOK, CallState
    <3>2. /\ calls'[c].at = "executed" /\ calls'[c].request = r
          /\ \A d \in Calls \ {c} : calls'[d] = calls[d]
      BY <2>5 DEF ExecutePendingWrite, MasterTypeOK, CallState
    <3>3. UNCHANGED pendingRequests
      BY <2>5 DEF ExecutePendingWrite
    <3>4. CASE q = r
      <4>1. applied'[q] = applied[q] + 1
        BY <2>5, <3>4 DEF ExecutePendingWrite, MasterTypeOK
      <4>2. done' = done \cup {c} /\ c \notin done
        BY <3>1, <3>2, <3>4 DEF Handling
      <4>3. open' = open \ {c} /\ c \in open
        BY <3>1, <3>2, <3>4 DEF Handling
      <4>4. Cardinality(done') = Cardinality(done) + 1
        BY <4>2, HandlingFinite, FS_AddElement
      <4>5. Cardinality(open') = Cardinality(open) - 1
        BY <4>3, HandlingFinite, FS_RemoveElement
      <4>6. Cardinality(open) \in Nat /\ Cardinality(done) \in Nat /\ Cardinality(Calls) \in Nat
        BY HandlingFinite, CallsAssumption, FS_CardinalityType
      <4> QED
        BY <2>1, <3>3, <4>1, <4>4, <4>5, <4>6 DEF Accounted, Undecided
    <3>5. CASE q # r
      <4>1. done' = done /\ open' = open
        BY <3>1, <3>2, <3>5 DEF Handling
      <4>2. applied'[q] = applied[q]
        BY <2>5, <3>5 DEF ExecutePendingWrite, MasterTypeOK
      <4> QED
        BY <2>1, <3>3, <4>1, <4>2 DEF Accounted, Undecided
    <3> QED
      BY <3>4, <3>5
  <2>6. ASSUME NEW c \in Calls, RefusePendingWrite(c)
        PROVE  Accounted(q)'
    <3> DEFINE done == Handling(q, "executed")
               open == Handling(q, "approving")
    <3>1. /\ calls[c].at = "approving" /\ calls'[c] = Idle
          /\ \A d \in Calls \ {c} : calls'[d] = calls[d]
      BY <2>6 DEF RefusePendingWrite, MasterTypeOK
    <3>2. done' = done
      BY <3>1 DEF Handling, Idle
    <3>3. open' = open \ {c}
      BY <3>1 DEF Handling, Idle
    <3>4. Cardinality(open') <= Cardinality(open) /\ Cardinality(open') \in Nat
      BY <3>3, HandlingFinite, FS_Subset, FS_CardinalityType
    <3>5. Cardinality(open) \in Nat /\ Cardinality(Calls) \in Nat
      BY HandlingFinite, CallsAssumption, FS_CardinalityType
    <3> QED
      BY <2>1, <2>6, <3>2, <3>4, <3>5 DEF RefusePendingWrite, Accounted, Undecided
  <2>7. ASSUME NEW c \in Calls, NEW at \in {"executed", "rejecting"},
               NEW status \in {"approved", "rejected"}, SavePendingRequest(c, at, status)
        PROVE  Accounted(q)'
    <3> DEFINE r == calls[c].request
               done == Handling(q, "executed")
               open == Handling(q, "approving")
    <3>1. /\ calls[c].at = at
          /\ calls'[c] = Idle
          /\ \A d \in Calls \ {c} : calls'[d] = calls[d]
          /\ applied' = applied
          /\ pendingRequests'[r] # NoRequest
          /\ pendingRequests'[r].status = status
          /\ \A s \in RequestIDs \ {r} : pendingRequests'[s] = pendingRequests[s]
      BY <2>7, Saved DEF SavePendingRequest, MasterTypeOK
    <3>2. open' = open
      BY <3>1 DEF Handling, Idle
    <3>3. CASE q = r
      <4>1. applied[q] + Cardinality(open) <= Cardinality(Calls)
        <5>1. CASE Undecided(q)
          BY <2>1, <5>1, DisjointStages DEF Accounted
        <5>2. CASE ~ Undecided(q)
          BY <2>1, <5>2 DEF Accounted
        <5> QED
          BY <5>1, <5>2
      <4> QED
        BY <3>1, <3>2, <3>3, <4>1 DEF Accounted, Undecided
    <3>4. CASE q # r
      <4>1. done' = done
        BY <3>1, <3>4 DEF Handling, Idle
      <4> QED
        BY <2>1, <3>1, <3>2, <3>4, <4>1 DEF Accounted, Undecided
    <3> QED
      BY <3>3, <3>4
  <2> QED
    BY <2>2, <2>3, <2>4, <2>5, <2>6, <2>7
    DEF MasterNext, CreateClient, UpdateClient, DeleteClient, BeginApprove, BeginReject,
        SaveApproved, SaveRejected
<1>3. MasterTypeOK /\ OverlapInv => AppliedOncePerCall
  <2> SUFFICES ASSUME MasterTypeOK, NEW r \in RequestIDs, Accounted(r)
               PROVE  applied[r] <= Cardinality(Calls)
    BY DEF OverlapInv, AppliedOncePerCall
  <2>1. applied[r] \in Nat
    BY DEF MasterTypeOK
  <2>2. Cardinality(Calls) \in Nat /\ Cardinality(Handling(r, "approving")) \in Nat
    BY HandlingFinite, CallsAssumption, FS_CardinalityType
  <2> QED
    BY <2>1, <2>2, HandlingFinite DEF Accounted
<1> QED
  BY <1>1, <1>2, <1>3, MasterTypeCorrect, PTL DEF MasterSpec
=============================================================================
