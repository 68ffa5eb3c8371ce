----------------------------- MODULE ClientStore -----------------------------
(***************************************************************************)
(* The in-memory client tables of the nodes, as pure operators:            *)
(*   internal/repositories/client_repository.go        (the master)        *)
(*   internal/slave/repositories/client_repository.go  (Slave1 and Slave3) *)
(*   app.py: clients_db and next_id                    (Slave2 and Slave4) *)
(*                                                                         *)
(* A Go repository operation holds the repository's mutex from its first   *)
(* statement to its return, so one operation is one atomic change of one   *)
(* repository; the modules that use this one turn it into an action.       *)
(*                                                                         *)
(* A repository is a record of the fields `clients` (the map, total here:  *)
(* NoClient is an absent key) and `nextID`.  A client is its national ID,  *)
(* which the code compares, and its details (name, phone, e-mail, balance),*)
(* which it only copies.  The ID is the key, in the code also a field.     *)
(***************************************************************************)
EXTENDS Naturals

CONSTANTS NationalIDs,  \* the national IDs clients can have
          Details,      \* name, phone, e-mail and balance, together
          NoClient,     \* no row, or a request body that fails validation
          MaxID         \* BOUND: the largest client ID handed out

Client == [national_id : NationalIDs, details : Details]

ASSUME MaxIDAssumption == MaxID \in Nat
ASSUME NoClientAssumption == NoClient \notin Client

IDs == 1 .. MaxID

Repository == [clients : [IDs -> Client \cup {NoClient}], nextID : 1 .. (MaxID + 1)]

NewClientRepository == [clients |-> [i \in IDs |-> NoClient], nextID |-> 1]

Has(repo, id) == repo.clients[id] # NoClient

NoOtherHas(repo, ids, nid) ==
    \A i \in ids : Has(repo, i) => repo.clients[i].national_id # nid

-----------------------------------------------------------------------------
(***************************************************************************)
(* Create, the same on the master and on a Go slave.  The ID is nextID,    *)
(* the national ID must be new.                                            *)
(***************************************************************************)
CanCreate(repo, client) == NoOtherHas(repo, IDs, client.national_id)

Created(repo, client) ==
    [clients |-> [repo.clients EXCEPT ![repo.nextID] = client],
     nextID  |-> repo.nextID + 1]

(***************************************************************************)
(* Update, on the master and on a Go slave: the row must exist and no      *)
(* other row may have the national ID.                                     *)
(***************************************************************************)
\* Mutant: the uniqueness loop of Update is missing.
CanUpdateUnchecked(repo, id, client) == Has(repo, id)

CanUpdate(repo, id, client) ==
    /\ Has(repo, id)
    /\ NoOtherHas(repo, IDs \ {id}, client.national_id)

Stored(repo, id, client) == [repo EXCEPT !.clients[id] = client]

(***************************************************************************)
(* Delete: the row must exist (Has); the counter keeps its value.          *)
(***************************************************************************)
\* Mutant: the counter falls back, so that the ID is handed out again.
DeletedReuse(repo, id) ==
    [repo EXCEPT !.clients[id] = NoClient, !.nextID = id]

Deleted(repo, id) == [repo EXCEPT !.clients[id] = NoClient]

(***************************************************************************)
(* Insert, on a slave only: store the row under the ID the sender chose,   *)
(* whatever is there, and move the counter past that ID.  There is no      *)
(* uniqueness check.                                                       *)
(***************************************************************************)
\* Mutant: the slave numbers the row itself.
InsertedOwnID(repo, id, client) == Created(repo, client)

\* Mutant: Insert leaves the counter alone.
InsertedNoAdvance(repo, id, client) == Stored(repo, id, client)

\* Mutant: the counter is moved one too far.
InsertedTooFar(repo, id, client) ==
    [clients |-> [repo.clients EXCEPT ![id] = client],
     nextID  |-> IF id >= repo.nextID THEN id + 2 ELSE repo.nextID]

Inserted(repo, id, client) ==
    [clients |-> [repo.clients EXCEPT ![id] = client],
     nextID  |-> IF id >= repo.nextID THEN id + 1 ELSE repo.nextID]

-----------------------------------------------------------------------------
(***************************************************************************)
(* What the tables are meant to satisfy, said of one repository.           *)
(***************************************************************************)
Unique(repo) ==
    \A i, j \in IDs : /\ Has(repo, i)
                      /\ Has(repo, j)
                      /\ repo.clients[i].national_id = repo.clients[j].national_id
                      => i = j

Fresh(repo) == \A i \in IDs : Has(repo, i) => i < repo.nextID
=============================================================================
