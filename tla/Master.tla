------------------------------- MODULE Master -------------------------------
(***************************************************************************)
(* The master node: internal/handlers/client_handler.go over the master's  *)
(* repository, with the calls into internal/replication.                   *)
(*                                                                         *)
(* Gin runs every HTTP request in its own goroutine.  A handler touches    *)
(* the shared state only inside the repository's mutex or pendingMu, so    *)
(* the atomic steps are those critical sections.  CreateClient,            *)
(* UpdateClient and DeleteClient have one that matters: DeleteClient's     *)
(* earlier GetByID only supplies the row of the message, of which a        *)
(* replica uses the ID.  A decision on a pending request has three: it     *)
(* reads the request and tests its status, executes the write, and saves   *)
(* the request with its new status; other requests run in between.         *)
(*                                                                         *)
(* Replicate starts one goroutine per slave, which is slow by any amount,  *)
(* so nobody can tell a late call of Replicate from an early one whose     *)
(* goroutines are slow: the call is made in the step that changes the      *)
(* repository, and `log` is the sequence of the payloads in the order the  *)
(* repository's mutex gave to the writes.  Reads change nothing and are    *)
(* left out (ListClients, ListPendingWrites, HealthCheck).                 *)
(***************************************************************************)
EXTENDS ClientStore, Sequences, FiniteSets

CONSTANTS Calls,        \* BOUND: the approve and reject calls that can overlap
          NoRequest,    \* an unused entry of the table of pending requests
          MaxRequests,  \* BOUND: the pending requests ever filed
          MaxWrites     \* BOUND: the writes the master performs

ASSUME BoundsAssumption == MaxRequests \in Nat /\ MaxWrites \in Nat

ASSUME CallsAssumption == IsFiniteSet(Calls)

VARIABLES repository,       \* h.repository
          pendingRequests,  \* h.pendingRequests
          nextPendingID,    \* h.nextPendingID
          calls,            \* the approve and reject handlers that are running
          log,              \* history: the payloads given to Replicate, in the mutex's order
          applied           \* history: how often each request was executed

masterVars == <<repository, pendingRequests, nextPendingID, calls, log, applied>>

RequestIDs == 1 .. MaxRequests

Status == {"pending", "approved", "rejected"}

(***************************************************************************)
(* The bodies POST /approve-write can carry.  client_id 0 stands for an    *)
(* absent or non-positive one, NoClient for a client that fails the        *)
(* binding tags of CreateClientRequest; a slave that forwards a DELETE     *)
(* sends the zero client, which fails them.                                *)
(***************************************************************************)
ApproveWriteRequest ==
    [operation : {"create"}, client_id : {0}, client : Client \cup {NoClient}]
      \cup
    [operation : {"update", "delete"}, client_id : IDs \cup {0},
     client : Client \cup {NoClient}]

PendingWriteRequest ==
    [operation : {"create"}, client_id : {0}, client : Client, status : Status]
      \cup
    [operation : {"update", "delete"}, client_id : IDs, client : Client, status : Status]

ASSUME NoRequestAssumption == NoRequest \notin PendingWriteRequest

Payload == [operation : {"insert", "update", "delete"}, id : IDs, client : Client]

\* A handler of a decision and its variable pendingRequest: the request's
\* number and the rest of the struct, as the handler read it.
CallState == [at : {"idle", "approving", "executed", "rejecting"},
              request : RequestIDs \cup {0},
              copy : PendingWriteRequest \cup {NoRequest}]

Idle == [at |-> "idle", request |-> 0, copy |-> NoRequest]

MasterTypeOK ==
    /\ repository \in Repository
    /\ pendingRequests \in [RequestIDs -> PendingWriteRequest \cup {NoRequest}]
    /\ nextPendingID \in 1 .. (MaxRequests + 1)
    /\ calls \in [Calls -> CallState]
    /\ log \in Seq(Payload)
    /\ applied \in [RequestIDs -> Nat]
    /\ \A r \in RequestIDs : pendingRequests[r] # NoRequest <=> r < nextPendingID
    /\ \A c \in Calls : \/ calls[c] = Idle
                        \/ calls[c].request \in 1 .. (nextPendingID - 1) /\ calls[c].copy # NoRequest

MasterInit ==
    /\ repository = NewClientRepository
    /\ pendingRequests = [r \in RequestIDs |-> NoRequest]
    /\ nextPendingID = 1
    /\ calls = [c \in Calls |-> Idle]
    /\ log = <<>>
    /\ applied = [r \in RequestIDs |-> 0]

-----------------------------------------------------------------------------
(***************************************************************************)
(* The three writes: the repository operation and the Replicate call that  *)
(* follows it when it succeeds.                                            *)
(***************************************************************************)
Replicate(operation, id, client) ==
    /\ Len(log) < MaxWrites   \* BOUND
    /\ log' = Append(log, [operation |-> operation, id |-> id, client |-> client])

WriteCreate(client) ==
    /\ repository.nextID \in IDs   \* BOUND
    /\ CanCreate(repository, client)
    /\ repository' = Created(repository, client)
    /\ Replicate("insert", repository.nextID, client)

WriteUpdate(id, client) ==
    /\ CanUpdate(repository, id, client)
    /\ repository' = Stored(repository, id, client)
    /\ Replicate("update", id, client)

\* Mutant: the delete is not replicated.
WriteDeleteSilently(id) ==
    /\ Has(repository, id)
    /\ repository' = Deleted(repository, id)
    /\ UNCHANGED log

WriteDelete(id) ==
    /\ Has(repository, id)
    /\ repository' = Deleted(repository, id)
    /\ Replicate("delete", id, repository.clients[id])

requestVars == <<pendingRequests, nextPendingID, calls, applied>>

\* POST /clients, PUT /clients/:id and DELETE /clients/:id on the master.
CreateClient(client) == WriteCreate(client) /\ UNCHANGED requestVars

UpdateClient(id, client) == WriteUpdate(id, client) /\ UNCHANGED requestVars

DeleteClient(id) == WriteDelete(id) /\ UNCHANGED requestVars

-----------------------------------------------------------------------------
(***************************************************************************)
(* POST /approve-write.  The binding validates the nested client whatever  *)
(* the operation is, then validateApprovalRequest wants a client ID for    *)
(* update and delete.  A request that passes is filed as pending: this     *)
(* handler never answers Approved.                                         *)
(***************************************************************************)
ApprovalValid(request) ==
    /\ request.client # NoClient
    /\ request.operation # "create" => request.client_id \in IDs

\* Mutant: the table's counter is not advanced.
ApproveWriteSameID(request) ==
    /\ ApprovalValid(request)
    /\ nextPendingID \in RequestIDs
    /\ pendingRequests' = [pendingRequests EXCEPT ![nextPendingID] =
                             [operation |-> request.operation,
                              client_id |-> request.client_id,
                              client    |-> request.client,
                              status    |-> "pending"]]
    /\ UNCHANGED <<repository, nextPendingID, calls, log, applied>>

ApproveWrite(request) ==
    /\ ApprovalValid(request)
    /\ nextPendingID \in RequestIDs   \* BOUND
    /\ pendingRequests' = [pendingRequests EXCEPT ![nextPendingID] =
                             [operation |-> request.operation,
                              client_id |-> request.client_id,
                              client    |-> request.client,
                              status    |-> "pending"]]
    /\ nextPendingID' = nextPendingID + 1
    /\ UNCHANGED <<repository, calls, log, applied>>

-----------------------------------------------------------------------------
(***************************************************************************)
(* POST /pending-writes/:id/approve and /reject.  The handler copies the   *)
(* request out of the table under the read lock and tests the copy's       *)
(* status.  From then on it works with the copy: it executes what the copy *)
(* asks for, and at the end puts the copy, with a new status, into the     *)
(* table, over whatever other handlers left there.                         *)
(***************************************************************************)
\* Mutant: any filed request passes.
IsPendingUnchecked(r) == pendingRequests[r] # NoRequest

IsPending(r) ==
    /\ pendingRequests[r] # NoRequest
    /\ pendingRequests[r].status = "pending"

BeginDecision(c, r, decision) ==
    /\ calls[c] = Idle
    /\ IsPending(r)
    /\ calls' = [calls EXCEPT ![c] = [at |-> decision, request |-> r,
                                      copy |-> pendingRequests[r]]]
    /\ UNCHANGED <<repository, pendingRequests, nextPendingID, log, applied>>

BeginApprove(c, r) == BeginDecision(c, r, "approving")

BeginReject(c, r) == BeginDecision(c, r, "rejecting")

(***************************************************************************)
(* executePendingWrite.  A write that succeeds goes on to the save; one    *)
(* that fails ends the call, and the request stays as it is.               *)
(***************************************************************************)
CanExecute(request) ==
    \/ request.operation = "create" /\ CanCreate(repository, request.client)
    \/ request.operation = "update" /\ CanUpdate(repository, request.client_id, request.client)
    \/ request.operation = "delete" /\ Has(repository, request.client_id)

ExecutePendingWrite(c) ==
    LET request == calls[c].copy
    IN  /\ calls[c].at = "approving"
        /\ \/ request.operation = "create" /\ WriteCreate(request.client)
           \/ request.operation = "update" /\ WriteUpdate(request.client_id, request.client)
           \/ request.operation = "delete" /\ WriteDelete(request.client_id)
        /\ calls' = [calls EXCEPT ![c].at = "executed"]
        /\ applied' = [applied EXCEPT ![calls[c].request] = @ + 1]
        /\ UNCHANGED <<pendingRequests, nextPendingID>>

\* Mutant: a write that failed is saved as approved too.
RefusePendingWriteSaved(c) ==
    /\ calls[c].at = "approving"
    /\ ~ CanExecute(calls[c].copy)
    /\ calls' = [calls EXCEPT ![c].at = "executed"]
    /\ UNCHANGED <<repository, pendingRequests, nextPendingID, log, applied>>

RefusePendingWrite(c) ==
    /\ calls[c].at = "approving"
    /\ ~ CanExecute(calls[c].copy)
    /\ calls' = [calls EXCEPT ![c] = Idle]
    /\ UNCHANGED <<repository, pendingRequests, nextPendingID, log, applied>>

\* savePendingRequest, the end of both handlers: the whole copy goes into the
\* table, without a second look at what is there.
SavePendingRequest(c, at, status) ==
    /\ calls[c].at = at
    /\ pendingRequests' = [pendingRequests EXCEPT ![calls[c].request] =
                             [calls[c].copy EXCEPT !.status = status]]
    /\ calls' = [calls EXCEPT ![c] = Idle]
    /\ UNCHANGED <<repository, nextPendingID, log, applied>>

\* Mutant: the approval handler saves the copy it read, still pending.
SaveApprovedStale(c) == SavePendingRequest(c, "executed", "pending")

SaveApproved(c) == SavePendingRequest(c, "executed", "approved")

\* Mutant: the rejection handler saves the copy it read, still pending.
SaveRejectedStale(c) == SavePendingRequest(c, "rejecting", "pending")

SaveRejected(c) == SavePendingRequest(c, "rejecting", "rejected")

-----------------------------------------------------------------------------
MasterNext ==
    \/ \E client \in Client : CreateClient(client)
    \/ \E id \in IDs, client \in Client : UpdateClient(id, client)
    \/ \E id \in IDs : DeleteClient(id)
    \/ \E request \in ApproveWriteRequest : ApproveWrite(request)
    \/ \E c \in Calls, r \in RequestIDs : BeginApprove(c, r)
    \/ \E c \in Calls, r \in RequestIDs : BeginReject(c, r)
    \/ \E c \in Calls : ExecutePendingWrite(c)
    \/ \E c \in Calls : RefusePendingWrite(c)
    \/ \E c \in Calls : SaveApproved(c)
    \/ \E c \in Calls : SaveRejected(c)

MasterSpec == MasterInit /\ [][MasterNext]_masterVars

-----------------------------------------------------------------------------
(***************************************************************************)
(* Safety of the table of clients                                          *)
(***************************************************************************)
\* No two clients of the master have one national ID, whichever mix of
\* direct and approved creates and updates ran (repository Create, Update).
NationalIDUnique == Unique(repository)

WritesTo(i) == {n \in DOMAIN log : log[n].id = i}

\* The payloads given to Replicate tell the whole story of the table: the
\* last one about an ID says what the master has under it.  A replica that
\* applies all of them in order has the master's table.
JournalMatchesRepository ==
    \A i \in IDs :
        IF WritesTo(i) = {}
        THEN ~ Has(repository, i)
        ELSE \E n \in WritesTo(i) :
                /\ \A m \in WritesTo(i) : m <= n
                /\ repository.clients[i] =
                     IF log[n].operation = "delete" THEN NoClient ELSE log[n].client

\* An ID has one life: the first payload about it, and no other, is an
\* insert, and nothing follows its delete.  The master never gives the ID of
\* a deleted client to a new one (nextID only grows).
OneLifePerID ==
    \A m, n \in DOMAIN log :
        /\ log[n].operation = "insert" /\ m # n /\ log[m].id = log[n].id => n < m
        /\ log[m].operation = "delete" /\ log[n].id = log[m].id => n <= m

(***************************************************************************)
(* Safety of the approval workflow                                         *)
(***************************************************************************)
\* A request the table shows as approved has been executed
\* (ApprovePendingWrite saves only after executePendingWrite succeeded).
ApprovedWasApplied ==
    \A r \in RequestIDs :
        /\ pendingRequests[r] # NoRequest
        /\ pendingRequests[r].status = "approved"
        => applied[r] > 0

\* A request that was executed is not offered for a decision again once the
\* handler that executed it is done, so no later approval repeats the write.
AppliedIsDecided ==
    \A r \in RequestIDs :
        applied[r] > 0 =>
            \/ pendingRequests[r] # NoRequest /\ pendingRequests[r].status # "pending"
            \/ \E c \in Calls : calls[c].at = "executed" /\ calls[c].request = r

\* The status test of ApprovePendingWrite bounds the damage of overlapping
\* decisions: only a call that began before the first save can execute the
\* request, so it is executed at most as often as calls overlap.
AppliedOncePerCall == \A r \in RequestIDs : applied[r] <= Cardinality(Calls)

\* A filed request keeps its number, its operation and its client for ever,
\* and once decided it never becomes pending again, although a handler puts a
\* whole copy into the table that it read before it executed the write, when
\* other handlers may have saved theirs in between.
RequestsAreStable ==
    [][\A r \in RequestIDs :
          pendingRequests[r] # NoRequest =>
            /\ pendingRequests'[r] # NoRequest
            /\ pendingRequests'[r].operation = pendingRequests[r].operation
            /\ pendingRequests'[r].client_id = pendingRequests[r].client_id
            /\ pendingRequests'[r].client = pendingRequests[r].client
            /\ pendingRequests'[r].status = "pending" => pendingRequests[r].status = "pending"
      ]_masterVars

\* What the status test of both handlers is for ("write request is not
\* pending"): a request that was rejected has not been executed.
RejectedNotApplied ==
    \A r \in RequestIDs :
        /\ pendingRequests[r] # NoRequest
        /\ pendingRequests[r].status = "rejected"
        => applied[r] = 0

\* And a request is executed at most once.
AppliedAtMostOnce == \A r \in RequestIDs : applied[r] <= 1
=============================================================================
