---------------------------- MODULE ClusterProofs ----------------------------
(***************************************************************************)
(* Proofs about the tables of the whole cluster, for any number of slaves  *)
(* of both kinds, any writes and overlaps, any order of arrival, any loss  *)
(* and any restart, the master's included.                                 *)
(***************************************************************************)
EXTENDS Cluster, TLAPS

\* What is in the log stays in its place.
LEMMA Appended ==
  ASSUME NEW S, NEW s \in Seq(S), NEW p \in S, NEW t, t = Append(s, p)
  PROVE  /\ t \in Seq(S)
         /\ DOMAIN t = DOMAIN s \cup {Len(s) + 1}
         /\ Len(s) + 1 \notin DOMAIN s
         /\ Len(s) + 1 \in Nat \ {0}
         /\ Len(t) = Len(s) + 1
         /\ \A k \in DOMAIN s : t[k] = s[k]
         /\ t[Len(s) + 1] = p
  OBVIOUS

(***************************************************************************)
(* A write adds one payload: p is the payload, k its place.                *)
(***************************************************************************)
Adds(n, p, k) ==
    /\ p \in Payload
    /\ p.from = n
    /\ k \in Nat
    /\ k \notin DOMAIN log
    /\ log' \in Seq(Payload)
    /\ DOMAIN log' = DOMAIN log \cup {k}
    /\ \A j \in DOMAIN log : log'[j] = log[j]
    /\ log'[k] = p
    /\ known' = [known EXCEPT ![n] = @ \cup {k}]
    /\ inflight' = [s \in Slaves |-> IF s # n THEN inflight[s] \cup {k} ELSE inflight[s]]

LEMMA ReplicateAdds ==
  ASSUME TypeOK, NEW n \in Nodes, NEW operation \in {"insert", "update", "delete"},
         NEW id \in IDs, NEW client \in Client, NEW knew \in SUBSET Places,
         Replicate(n, operation, id, client, knew)
  PROVE  Adds(n, [from |-> n, operation |-> operation, id |-> id,
                  client |-> client, knew |-> knew], Len(log) + 1)
<1> DEFINE p == [from |-> n, operation |-> operation, id |-> id,
                 client |-> client, knew |-> knew]
<1>1. p \in Payload /\ log \in Seq(Payload) /\ log' = Append(log, p)
  BY DEF Payload, TypeOK, Replicate
<1> HIDE DEF p
<1>2. /\ log' \in Seq(Payload)
      /\ DOMAIN log' = DOMAIN log \cup {Len(log) + 1}
      /\ Len(log) + 1 \notin DOMAIN log
      /\ Len(log) + 1 \in Nat
      /\ \A j \in DOMAIN log : log'[j] = log[j]
      /\ log'[Len(log) + 1] = p
  BY <1>1, Appended
<1>3. p.from = n
  BY DEF p
<1>4. \A s \in Slaves : s \in Receivers(n) <=> s # n
  BY DEF Receivers
<1> QED
  BY <1>1, <1>2, <1>3, <1>4 DEF Adds, Replicate

(***************************************************************************)
(* The operations on one table.                                            *)
(***************************************************************************)
LEMMA NewType == NewClientRepository \in Repository
  BY MaxIDAssumption DEF NewClientRepository, Repository, IDs

LEMMA StoredType ==
  ASSUME NEW repo \in Repository, NEW id \in IDs, NEW client \in Client
  PROVE  /\ Stored(repo, id, client) \in Repository
         /\ Stored(repo, id, client).nextID = repo.nextID
         /\ \A i \in IDs : Stored(repo, id, client).clients[i]
                             = IF i = id THEN client ELSE repo.clients[i]
  BY DEF Stored, Repository

LEMMA DeletedType ==
  ASSUME NEW repo \in Repository, NEW id \in IDs
  PROVE  /\ Deleted(repo, id) \in Repository
         /\ Deleted(repo, id).nextID = repo.nextID
         /\ \A i \in IDs : Deleted(repo, id).clients[i]
                             = IF i = id THEN NoClient ELSE repo.clients[i]
  BY DEF Deleted, Repository

LEMMA InsertedType ==
  ASSUME NEW repo \in Repository, NEW id \in IDs, NEW client \in Client
  PROVE  /\ Inserted(repo, id, client) \in Repository
         /\ Inserted(repo, id, client).nextID >= repo.nextID
         /\ Inserted(repo, id, client).nextID > id
         /\ \A i \in IDs : Inserted(repo, id, client).clients[i]
                             = IF i = id THEN client ELSE repo.clients[i]
  BY MaxIDAssumption DEF Inserted, Repository, IDs

LEMMA CreatedType ==
  ASSUME NEW repo \in Repository, NEW client \in Client, repo.nextID \in IDs
  PROVE  Created(repo, client) = Inserted(repo, repo.nextID, client)
  BY MaxIDAssumption DEF Created, Inserted, Repository, IDs

\* A payload leaves a well formed table.
LEMMA AppliedType ==
  ASSUME TypeOK, NEW s \in Slaves, NEW p \in Payload
  PROVE  Applied(s, p) \in Repository
<1>1. tables[s] \in Repository /\ p.id \in IDs /\ p.client \in Client
  BY DEF TypeOK, Payload, Nodes
<1>2. /\ Deleted(tables[s], p.id) \in Repository
      /\ Inserted(tables[s], p.id, p.client) \in Repository
      /\ Stored(tables[s], p.id, p.client) \in Repository
  BY <1>1, DeletedType, InsertedType, StoredType
<1> QED
  BY <1>1, <1>2 DEF Applied

\* What a payload does to a table: the counter does not fall and is past the ID of
\* an insert accepted by a Go slave; a row is changed by a payload with its ID,
\* and only a delete removes it.
LEMMA AppliedRows ==
  ASSUME TypeOK, NEW s \in Slaves, NEW p \in Payload, NEW repo, repo = Applied(s, p)
  PROVE  /\ repo.nextID >= tables[s].nextID
         /\ p.operation = "insert" /\ s \in GoSlaves /\ Valid(s, p.client) => p.id < repo.nextID
         /\ p.operation = "insert" /\ Valid(s, p.client) => repo.clients[p.id] = p.client
         /\ \A i \in IDs : \/ repo.clients[i] = tables[s].clients[i]
                           \/ i = p.id /\ p.operation # "delete" /\ repo.clients[i] = p.client
                           \/ i = p.id /\ p.operation = "delete" /\ repo.clients[i] = NoClient
         /\ \A i \in IDs : Has(repo, i) =>
               \/ Has(tables[s], i)
               \/ /\ i = p.id
                  /\ p.operation = "insert"
                  /\ Valid(s, p.client)
<1>1. /\ tables[s] \in Repository
      /\ p.id \in IDs
      /\ p.client \in Client
      /\ p.operation \in {"insert", "update", "delete"}
  BY DEF TypeOK, Payload, Nodes
<1>2. tables[s].nextID \in Nat /\ p.id \in Nat
  BY <1>1 DEF Repository, IDs
<1>3. CASE ~ Accepts(s, p)
  <2>1. Applied(s, p) = tables[s]
    BY <1>3 DEF Applied
  <2> QED
    BY <1>1, <1>2, <1>3, <2>1 DEF Accepts
<1>4. CASE Accepts(s, p) /\ p.operation = "delete"
  <2>1. repo = Deleted(tables[s], p.id)
    BY <1>4 DEF Applied
  <2> QED
    BY <1>1, <1>2, <1>4, <2>1, DeletedType DEF Has
<1>5. CASE Accepts(s, p) /\ p.operation = "insert" /\ s \in GoSlaves
  <2>1. repo = Inserted(tables[s], p.id, p.client)
    BY <1>5 DEF Applied
  <2>2. /\ repo \in Repository
        /\ repo.nextID >= tables[s].nextID
        /\ repo.nextID > p.id
        /\ \A i \in IDs : repo.clients[i] = IF i = p.id THEN p.client ELSE tables[s].clients[i]
    BY <1>1, <2>1, InsertedType
  <2>3. p.id < repo.nextID
    BY <1>2, <2>2 DEF Repository
  <2>4. Valid(s, p.client)
    BY <1>5 DEF Accepts
  <2> QED
    BY <1>1, <1>5, <2>2, <2>3, <2>4 DEF Has
<1>6. CASE Accepts(s, p) /\ p.operation # "delete" /\ ~ (p.operation = "insert" /\ s \in GoSlaves)
  <2>1. repo = Stored(tables[s], p.id, p.client)
    BY <1>6 DEF Applied
  <2>2. p.operation # "insert" => Has(tables[s], p.id)
    BY <1>6 DEF Accepts
  <2>3. Valid(s, p.client)
    BY <1>6 DEF Accepts
  <2> QED
    BY <1>1, <1>2, <1>6, <2>1, <2>2, <2>3, StoredType DEF Has
<1> QED
  BY <1>3, <1>4, <1>5, <1>6

(***************************************************************************)
(* The writes, with the place their payload gets.                          *)
(***************************************************************************)
LEMMA Creates ==
  ASSUME TypeOK, NEW n \in Nodes, NEW client \in Client, CreateClient(n, client)
  PROVE  /\ tables[n] \in Repository
         /\ tables[n].nextID \in IDs
         /\ Adds(n, [from |-> n, operation |-> "insert", id |-> tables[n].nextID,
                     client |-> client, knew |-> known[n]], Len(log) + 1)
<1>1. tables[n] \in Repository /\ tables[n].nextID \in IDs
  BY DEF TypeOK, CreateClient
<1>2. known[n] \in SUBSET Places
  BY DEF TypeOK, Places
<1> QED
  BY <1>1, <1>2, ReplicateAdds DEF CreateClient

LEMMA Updates ==
  ASSUME TypeOK, NEW n \in Nodes, NEW id \in IDs, NEW client \in Client,
         UpdateClient(n, id, client)
  PROVE  /\ tables[n] \in Repository
         /\ Adds(n, [from |-> n, operation |-> "update", id |-> id,
                     client |-> client, knew |-> known[n]], Len(log) + 1)
<1>1. known[n] \in SUBSET Places /\ tables[n] \in Repository
  BY DEF TypeOK, Places
<1> QED
  BY <1>1, ReplicateAdds DEF UpdateClient

LEMMA Deletes ==
  ASSUME TypeOK, NEW n \in Nodes, NEW id \in IDs, DeleteClient(n, id)
  PROVE  /\ tables[n] \in Repository
         /\ tables[n].clients[id] \in Client
         /\ Adds(n, [from |-> n, operation |-> "delete", id |-> id,
                     client |-> tables[n].clients[id], knew |-> known[n]], Len(log) + 1)
<1>1. known[n] \in SUBSET Places /\ tables[n] \in Repository
  BY DEF TypeOK, Places
<1>2. tables[n].clients[id] \in Client
  BY <1>1 DEF DeleteClient, Has, Repository
<1> QED
  BY <1>1, <1>2, ReplicateAdds DEF DeleteClient

LEMMA Stores ==
  ASSUME TypeOK, NEW s \in PythonSlaves, NEW c \in creating[s], StoreClient(s, c)
  PROVE  /\ tables[s] \in Repository
         /\ c.id \in IDs
         /\ c.client \in Client
         /\ Adds(s, [from |-> s, operation |-> "insert", id |-> c.id,
                     client |-> c.client, knew |-> Seen(s, c)], Len(log) + 1)
<1>1. c \in Creating /\ s \in Nodes
  BY DEF TypeOK, Nodes, Slaves
<1>2. c.id \in IDs /\ c.client \in Client /\ c.knew \in SUBSET Places
  BY <1>1 DEF Creating
<1>3. known[s] \in SUBSET Places /\ tables[s] \in Repository
  BY <1>1 DEF TypeOK, Places
<1>4. Seen(s, c) \in SUBSET Places
  BY <1>2, <1>3 DEF Seen
<1> QED
  BY <1>1, <1>2, <1>3, <1>4, ReplicateAdds DEF StoreClient

\* An ID taken is the counter's, which moves on.
LEMMA Takes ==
  ASSUME TypeOK, NEW s \in PythonSlaves, NEW client \in Client, TakeID(s, client)
  PROVE  /\ tables[s] \in Repository
         /\ tables[s].nextID \in IDs
         /\ [tables[s] EXCEPT !.nextID = @ + 1] \in Repository
         /\ tables' = [tables EXCEPT ![s] = [tables[s] EXCEPT !.nextID = @ + 1]]
         /\ [id |-> tables[s].nextID, client |-> client, knew |-> known[s]] \in Creating
<1>1. tables[s] \in Repository /\ tables[s].nextID \in IDs /\ known[s] \in SUBSET Places
  BY DEF TypeOK, TakeID, Nodes, Slaves, Places
<1>2. [tables[s] EXCEPT !.nextID = @ + 1] \in Repository
  BY <1>1, MaxIDAssumption DEF Repository, IDs
<1>3. tables' = [tables EXCEPT ![s] = [tables[s] EXCEPT !.nextID = @ + 1]]
  BY DEF TakeID
<1>4. [id |-> tables[s].nextID, client |-> client, knew |-> known[s]] \in Creating
  BY <1>1 DEF Creating
<1> QED
  BY <1>1, <1>2, <1>3, <1>4

\* The second half of insert_client moves the counter past the row's ID.
CounterMoved(repo, id) == [repo EXCEPT !.nextID = IF id >= @ THEN id + 1 ELSE @]

LEMMA Moves ==
  ASSUME TypeOK, NEW s \in PythonSlaves, NEW k \in advancing[s], MoveCounter(s, k)
  PROVE  /\ tables[s] \in Repository
         /\ log[k] \in Payload
         /\ CounterMoved(tables[s], log[k].id) \in Repository
         /\ CounterMoved(tables[s], log[k].id).clients = tables[s].clients
         /\ CounterMoved(tables[s], log[k].id).nextID >= tables[s].nextID
         /\ CounterMoved(tables[s], log[k].id).nextID > log[k].id
         /\ tables' = [tables EXCEPT ![s] = CounterMoved(tables[s], log[k].id)]
<1>1. tables[s] \in Repository
  BY DEF TypeOK, Nodes, Slaves
<1>2. log[k] \in Payload
  BY DEF TypeOK
<1>3. log[k].id \in IDs
  BY <1>2 DEF Payload
<1>4. tables' = [tables EXCEPT ![s] = CounterMoved(tables[s], log[k].id)]
  BY DEF MoveCounter, CounterMoved
<1>5. /\ CounterMoved(tables[s], log[k].id) \in Repository
      /\ CounterMoved(tables[s], log[k].id).clients = tables[s].clients
      /\ CounterMoved(tables[s], log[k].id).nextID >= tables[s].nextID
      /\ CounterMoved(tables[s], log[k].id).nextID > log[k].id
  BY <1>1, <1>3, MaxIDAssumption DEF CounterMoved, Repository, IDs
<1> QED
  BY <1>1, <1>2, <1>4, <1>5

(***************************************************************************)
(* Types                                                                   *)
(***************************************************************************)
\* A write that leaves a well formed table keeps the types of all variables.
LEMMA AddsTypes ==
  ASSUME TypeOK, NEW n \in Nodes, NEW p, NEW k, Adds(n, p, k),
         NEW repo \in Repository, tables' = [tables EXCEPT ![n] = repo],
         advancing' = advancing, restarts' = restarts,
         creating' \in [PythonSlaves -> SUBSET Creating],
         started' \in 0 .. MaxWrites, overlapped' \in BOOLEAN, outOfStep' \in BOOLEAN
  PROVE  TypeOK'
<1>1. tables' \in [Nodes -> Repository]
  BY DEF TypeOK
<1>2. DOMAIN log \subseteq DOMAIN log' /\ k \in DOMAIN log' /\ log' \in Seq(Payload)
  BY DEF Adds
<1>3. advancing' \in [PythonSlaves -> SUBSET DOMAIN log']
  BY <1>2 DEF TypeOK
<1>4. inflight' \in [Slaves -> SUBSET DOMAIN log']
  BY <1>2 DEF TypeOK, Adds
<1>5. known' \in [Nodes -> SUBSET DOMAIN log']
  BY <1>2 DEF TypeOK, Adds
<1> QED
  BY <1>1, <1>2, <1>3, <1>4, <1>5 DEF TypeOK

LEMMA BeginTypes ==
  ASSUME TypeOK, NEW n \in Nodes, Begin(n)
  PROVE  started' \in 0 .. MaxWrites /\ overlapped' \in BOOLEAN /\ outOfStep' \in BOOLEAN
  BY ClusterAssumption DEF Begin, TypeOK

LEMMA InitTypes == Init => TypeOK
<1> SUFFICES ASSUME Init PROVE TypeOK
  OBVIOUS
<1>1. log \in Seq(Payload)
  BY DEF Init
<1>2. tables \in [Nodes -> Repository]
  BY NewType DEF Init
<1>3. /\ creating \in [PythonSlaves -> SUBSET Creating]
      /\ advancing \in [PythonSlaves -> SUBSET DOMAIN log]
  BY DEF Init
<1>4. /\ inflight \in [Slaves -> SUBSET DOMAIN log]
      /\ known \in [Nodes -> SUBSET DOMAIN log]
  BY DEF Init
<1>5. started \in 0 .. MaxWrites /\ restarts \in 0 .. MaxRestarts
  BY ClusterAssumption DEF Init
<1> QED
  BY <1>1, <1>2, <1>3, <1>4, <1>5 DEF Init, TypeOK

LEMMA StepTypes == TypeOK /\ [Next]_vars => TypeOK'
<1> SUFFICES ASSUME TypeOK, [Next]_vars PROVE TypeOK'
  OBVIOUS
<1>1. CASE UNCHANGED vars
  BY <1>1 DEF vars, TypeOK
<1>2. ASSUME NEW n \in Nodes, NEW client \in Client, CreateClient(n, client) PROVE TypeOK'
  <2>1. Created(tables[n], client) \in Repository
    <3>1. tables[n] \in Repository /\ tables[n].nextID \in IDs
      BY <1>2, Creates
    <3>2. Inserted(tables[n], tables[n].nextID, client) \in Repository
      BY <3>1, InsertedType
    <3> QED
      BY <3>1, <3>2, CreatedType
  <2>2. /\ tables' = [tables EXCEPT ![n] = Created(tables[n], client)]
        /\ creating' \in [PythonSlaves -> SUBSET Creating]
        /\ advancing' = advancing
        /\ restarts' = restarts
    BY <1>2 DEF CreateClient, TypeOK
  <2>3. Begin(n)
    BY <1>2 DEF CreateClient
  <2> QED
    BY <1>2, <2>1, <2>2, <2>3, Creates, BeginTypes, AddsTypes
<1>3. ASSUME NEW n \in Nodes, NEW id \in IDs, NEW client \in Client,
             UpdateClient(n, id, client)
      PROVE  TypeOK'
  <2>1. Stored(tables[n], id, client) \in Repository
    BY <1>3, Updates, StoredType
  <2>2. /\ tables' = [tables EXCEPT ![n] = Stored(tables[n], id, client)]
        /\ creating' \in [PythonSlaves -> SUBSET Creating]
        /\ advancing' = advancing
        /\ restarts' = restarts
    BY <1>3 DEF UpdateClient, TypeOK
  <2>3. Begin(n)
    BY <1>3 DEF UpdateClient
  <2> QED
    BY <1>3, <2>1, <2>2, <2>3, Updates, BeginTypes, AddsTypes
<1>4. ASSUME NEW n \in Nodes, NEW id \in IDs, DeleteClient(n, id) PROVE TypeOK'
  <2>1. Deleted(tables[n], id) \in Repository
    BY <1>4, Deletes, DeletedType
  <2>2. /\ tables' = [tables EXCEPT ![n] = Deleted(tables[n], id)]
        /\ creating' \in [PythonSlaves -> SUBSET Creating]
        /\ advancing' = advancing
        /\ restarts' = restarts
    BY <1>4 DEF DeleteClient, TypeOK
  <2>3. Begin(n)
    BY <1>4 DEF DeleteClient
  <2> QED
    BY <1>4, <2>1, <2>2, <2>3, Deletes, BeginTypes, AddsTypes
<1>5. ASSUME NEW s \in PythonSlaves, NEW client \in Client, TakeID(s, client) PROVE TypeOK'
  <2>1. tables' \in [Nodes -> Repository]
    BY <1>5, Takes DEF TypeOK
  <2>2. creating' \in [PythonSlaves -> SUBSET Creating]
    <3> DEFINE c == [id |-> tables[s].nextID, client |-> client, knew |-> known[s]]
    <3>1. c \in Creating
      BY <1>5, Takes
    <3>2. creating' = [creating EXCEPT ![s] = creating[s] \cup {c}]
      BY <1>5 DEF TakeID
    <3> HIDE DEF c
    <3> QED
      BY <3>1, <3>2 DEF TypeOK
  <2>3. started' \in 0 .. MaxWrites /\ overlapped' \in BOOLEAN /\ outOfStep' \in BOOLEAN
    BY <1>5, BeginTypes DEF TakeID, Nodes, Slaves
  <2> QED
    BY <1>5, <2>1, <2>2, <2>3 DEF TakeID, TypeOK
<1>6. ASSUME NEW s \in PythonSlaves, NEW c \in creating[s], StoreClient(s, c) PROVE TypeOK'
  <2>1. s \in Nodes /\ Stored(tables[s], c.id, c.client) \in Repository
    BY <1>6, Stores, StoredType DEF Nodes, Slaves
  <2>2. /\ tables' = [tables EXCEPT ![s] = Stored(tables[s], c.id, c.client)]
        /\ creating' \in [PythonSlaves -> SUBSET Creating]
        /\ advancing' = advancing
        /\ restarts' = restarts
        /\ started' \in 0 .. MaxWrites
        /\ overlapped' \in BOOLEAN
        /\ outOfStep' \in BOOLEAN
    BY <1>6 DEF StoreClient, TypeOK
  <2> QED
    BY <1>6, <2>1, <2>2, Stores, AddsTypes
<1>7. ASSUME NEW s \in Slaves, NEW k \in inflight[s], Deliver(s, k) PROVE TypeOK'
  <2>1. k \in DOMAIN log /\ log[k] \in Payload
    BY DEF TypeOK
  <2>2. Applied(s, log[k]) \in Repository
    BY <2>1, AppliedType
  <2>3. /\ tables' \in [Nodes -> Repository]
        /\ inflight' \in [Slaves -> SUBSET DOMAIN log]
    BY <1>7, <2>2 DEF Deliver, TypeOK
  <2>4. /\ advancing' \in [PythonSlaves -> SUBSET DOMAIN log]
        /\ known' \in [Nodes -> SUBSET DOMAIN log]
    BY <1>7, <2>1 DEF Deliver, TypeOK
  <2> QED
    BY <1>7, <2>3, <2>4 DEF Deliver, TypeOK
<1>8. ASSUME NEW s \in PythonSlaves, NEW k \in advancing[s], MoveCounter(s, k) PROVE TypeOK'
  <2>1. k \in DOMAIN log
    BY DEF TypeOK
  <2>2. tables' \in [Nodes -> Repository]
    BY <1>8, Moves DEF TypeOK
  <2> QED
    BY <1>8, <2>1, <2>2 DEF MoveCounter, TypeOK
<1>9. ASSUME NEW s \in Slaves, NEW k \in inflight[s], Lose(s, k) PROVE TypeOK'
  BY <1>9 DEF Lose, TypeOK
<1>10. ASSUME NEW n \in Nodes, Restart(n) PROVE TypeOK'
  <2>1. tables' \in [Nodes -> Repository]
    BY <1>10, NewType DEF Restart, TypeOK
  <2> QED
    BY <1>10, <2>1, ClusterAssumption DEF Restart, TypeOK
<1> QED
  BY <1>1, <1>2, <1>3, <1>4, <1>5, <1>6, <1>7, <1>8, <1>9, <1>10 DEF Next

\* All variables always have the values they promise.
THEOREM ClusterTypeCorrect == Spec => []TypeOK
  BY InitTypes, StepTypes, PTL DEF Spec

-----------------------------------------------------------------------------
(***************************************************************************)
(* The way of a payload: it is sent to others than its writer, and is on   *)
(* its way, between the locks of app.py, or handled, and only one of them. *)
(* A create goes by writes that were there when it took its ID.            *)
(***************************************************************************)
Travels ==
    /\ \A k \in DOMAIN log : log[k].knew \subseteq DOMAIN log
    /\ \A s \in Slaves : \A k \in inflight[s] : log[k].from # s /\ k \notin known[s]
    /\ \A s \in PythonSlaves : \A k \in advancing[s] :
          /\ Inserts(k)
          /\ log[k].from # s
          /\ k \notin known[s]
          /\ k \notin inflight[s]
    /\ \A s \in PythonSlaves : \A c \in creating[s] :
          /\ c.knew \subseteq DOMAIN log
          /\ \A k \in c.knew : k \notin inflight[s] /\ k \notin advancing[s]

LEMMA AddsTravels ==
  ASSUME TypeOK, Travels, NEW n \in Nodes, NEW p, NEW k, Adds(n, p, k),
         p.knew \subseteq DOMAIN log, advancing' = advancing,
         \A s \in PythonSlaves : creating'[s] \subseteq creating[s]
  PROVE  Travels'
<1>1. \A j \in DOMAIN log' : log'[j].knew \subseteq DOMAIN log'
  BY DEF Travels, Adds
<1>2. \A s \in Slaves : \A j \in inflight'[s] : log'[j].from # s /\ j \notin known'[s]
  <2> SUFFICES ASSUME NEW s \in Slaves, NEW j \in inflight'[s]
               PROVE  log'[j].from # s /\ j \notin known'[s]
    OBVIOUS
  <2>1. s \in Nodes /\ inflight[s] \subseteq DOMAIN log /\ known[s] \subseteq DOMAIN log
    BY DEF TypeOK, Nodes
  <2>2. /\ j \in inflight[s] \/ (j = k /\ s # n)
        /\ known'[s] = IF s = n THEN known[s] \cup {k} ELSE known[s]
    BY <2>1 DEF Adds, TypeOK
  <2>3. j \in inflight[s] => log[j].from # s /\ j \notin known[s]
    BY DEF Travels
  <2> QED
    BY <2>1, <2>2, <2>3 DEF Adds
<1>3. \A s \in PythonSlaves : \A j \in advancing'[s] :
          /\ Inserts(j)'
          /\ log'[j].from # s
          /\ j \notin known'[s]
          /\ j \notin inflight'[s]
  <2> SUFFICES ASSUME NEW s \in PythonSlaves, NEW j \in advancing[s]
               PROVE  /\ Inserts(j)'
                      /\ log'[j].from # s
                      /\ j \notin known'[s]
                      /\ j \notin inflight'[s]
    OBVIOUS
  <2>1. s \in Nodes /\ s \in Slaves /\ j \in DOMAIN log
    BY DEF TypeOK, Nodes, Slaves
  <2>2. Inserts(j) /\ log[j].from # s /\ j \notin known[s] /\ j \notin inflight[s]
    BY DEF Travels
  <2>3. known'[s] \subseteq known[s] \cup {k} /\ inflight'[s] \subseteq inflight[s] \cup {k}
    BY <2>1 DEF Adds, TypeOK
  <2> QED
    BY <2>1, <2>2, <2>3 DEF Adds, Inserts
<1>4. \A s \in PythonSlaves : \A c \in creating'[s] :
          /\ c.knew \subseteq DOMAIN log'
          /\ \A j \in c.knew : j \notin inflight'[s] /\ j \notin advancing'[s]
  <2> SUFFICES ASSUME NEW s \in PythonSlaves, NEW c \in creating[s], NEW j \in c.knew
               PROVE  j \in DOMAIN log' /\ j \notin inflight'[s] /\ j \notin advancing[s]
    OBVIOUS
  <2>1. s \in Slaves
    BY DEF Slaves
  <2>2. j \in DOMAIN log /\ j \notin inflight[s] /\ j \notin advancing[s]
    BY DEF Travels
  <2>3. inflight'[s] \subseteq inflight[s] \cup {k}
    BY <2>1 DEF Adds
  <2> QED
    BY <2>2, <2>3 DEF Adds
<1> QED
  BY <1>1, <1>2, <1>3, <1>4 DEF Travels

LEMMA InitTravels == Init => Travels
  BY DEF Init, Travels

LEMMA StepTravels == TypeOK /\ Travels /\ [Next]_vars => Travels'
<1> SUFFICES ASSUME TypeOK, Travels, [Next]_vars PROVE Travels'
  OBVIOUS
<1>0. \A n \in Nodes : known[n] \subseteq DOMAIN log
  BY DEF TypeOK
<1>1. CASE UNCHANGED vars
  BY <1>1 DEF vars, Travels, Inserts
<1>2. ASSUME NEW n \in Nodes, NEW client \in Client, CreateClient(n, client) PROVE Travels'
  <2> DEFINE p == [from |-> n, operation |-> "insert", id |-> tables[n].nextID,
                   client |-> client, knew |-> known[n]]
  <2>1. p.knew \subseteq DOMAIN log
    BY <1>0
  <2>2. Adds(n, p, Len(log) + 1)
    BY <1>2, Creates
  <2>3. advancing' = advancing /\ \A s \in PythonSlaves : creating'[s] \subseteq creating[s]
    BY <1>2 DEF CreateClient
  <2> HIDE DEF p
  <2> QED
    BY <2>1, <2>2, <2>3, AddsTravels
<1>3. ASSUME NEW n \in Nodes, NEW id \in IDs, NEW client \in Client,
             UpdateClient(n, id, client)
      PROVE  Travels'
  <2> DEFINE p == [from |-> n, operation |-> "update", id |-> id,
                   client |-> client, knew |-> known[n]]
  <2>1. p.knew \subseteq DOMAIN log
    BY <1>0
  <2>2. Adds(n, p, Len(log) + 1)
    BY <1>3, Updates
  <2>3. advancing' = advancing /\ \A s \in PythonSlaves : creating'[s] \subseteq creating[s]
    BY <1>3 DEF UpdateClient
  <2> HIDE DEF p
  <2> QED
    BY <2>1, <2>2, <2>3, AddsTravels
<1>4. ASSUME NEW n \in Nodes, NEW id \in IDs, DeleteClient(n, id) PROVE Travels'
  <2> DEFINE p == [from |-> n, operation |-> "delete", id |-> id,
                   client |-> tables[n].clients[id], knew |-> known[n]]
  <2>1. p.knew \subseteq DOMAIN log
    BY <1>0
  <2>2. Adds(n, p, Len(log) + 1)
    BY <1>4, Deletes
  <2>3. advancing' = advancing /\ \A s \in PythonSlaves : creating'[s] \subseteq creating[s]
    BY <1>4 DEF DeleteClient
  <2> HIDE DEF p
  <2> QED
    BY <2>1, <2>2, <2>3, AddsTravels
<1>5. ASSUME NEW s \in PythonSlaves, NEW client \in Client, TakeID(s, client) PROVE Travels'
  <2> DEFINE new == [id |-> tables[s].nextID, client |-> client, knew |-> known[s]]
  <2>1. /\ creating' = [creating EXCEPT ![s] = creating[s] \cup {new}]
        /\ UNCHANGED <<advancing, log, inflight, known>>
    BY <1>5 DEF TakeID
  <2>2. new.knew = known[s] /\ s \in Slaves /\ s \in Nodes
    BY DEF Slaves, Nodes
  <2> HIDE DEF new
  <2>3. \A j \in known[s] : j \notin inflight[s] /\ j \notin advancing[s]
    BY <2>2 DEF Travels
  <2>4. \A t \in PythonSlaves : \A c \in creating'[t] :
            c \in creating[t] \/ (t = s /\ c = new)
    BY <2>1 DEF TypeOK
  <2>5. \A t \in PythonSlaves : \A c \in creating'[t] :
            /\ c.knew \subseteq DOMAIN log
            /\ \A j \in c.knew : j \notin inflight[t] /\ j \notin advancing[t]
    BY <1>0, <2>2, <2>3, <2>4 DEF Travels
  <2> QED
    BY <2>1, <2>5 DEF Travels, Inserts
<1>6. ASSUME NEW s \in PythonSlaves, NEW c \in creating[s], StoreClient(s, c) PROVE Travels'
  <2>1. /\ s \in Nodes
        /\ advancing' = advancing
        /\ \A t \in PythonSlaves : creating'[t] \subseteq creating[t]
    BY <1>6 DEF StoreClient, Slaves, Nodes, TypeOK
  <2> DEFINE p == [from |-> s, operation |-> "insert", id |-> c.id,
                   client |-> c.client, knew |-> Seen(s, c)]
  <2>2. Seen(s, c) \subseteq DOMAIN log
    BY <1>0, <2>1 DEF Seen, Travels
  <2>3. p.knew \subseteq DOMAIN log
    BY <2>2
  <2>4. Adds(s, p, Len(log) + 1)
    BY <1>6, Stores
  <2> HIDE DEF p
  <2> QED
    BY <2>1, <2>3, <2>4, AddsTravels
<1>7. ASSUME NEW s \in Slaves, NEW k \in inflight[s], Deliver(s, k) PROVE Travels'
  <2>1. /\ UNCHANGED <<creating, log>>
        /\ inflight' = [inflight EXCEPT ![s] = @ \ {k}]
    BY <1>7 DEF Deliver
  <2>2. k \in DOMAIN log /\ log[k].from # s /\ k \notin known[s] /\ s \in Nodes
    BY DEF TypeOK, Travels, Nodes
  <2>3. \A t \in PythonSlaves : k \in inflight[t] =>
            k \notin advancing[t] /\ \A c \in creating[t] : k \notin c.knew
    BY DEF Travels
  <2>4. CASE Unfinished(s, k)
    <3>1. /\ s \in PythonSlaves
          /\ Inserts(k)
          /\ advancing' = [advancing EXCEPT ![s] = @ \cup {k}]
          /\ known' = known
      BY <1>7, <2>2, <2>4 DEF Deliver, Unfinished, Inserts
    <3>2. \A t \in PythonSlaves : \A j \in advancing'[t] :
              /\ Inserts(j)
              /\ log[j].from # t
              /\ j \notin known[t]
              /\ j \notin inflight'[t]
      BY <2>1, <2>2, <3>1 DEF Travels, TypeOK, Slaves
    <3>3. \A t \in PythonSlaves : \A c \in creating[t] :
              \A j \in c.knew : j \notin inflight'[t] /\ j \notin advancing'[t]
      BY <2>1, <2>3, <3>1 DEF Travels, TypeOK, Slaves
    <3> QED
      BY <2>1, <3>1, <3>2, <3>3 DEF Travels, Inserts, TypeOK
  <2>5. CASE ~ Unfinished(s, k)
    <3>1. /\ advancing' = advancing
          /\ known' = [known EXCEPT ![s] = @ \cup {k}]
      BY <1>7, <2>5 DEF Deliver
    <3>2. \A t \in Slaves : \A j \in inflight'[t] : log[j].from # t /\ j \notin known'[t]
      BY <2>1, <3>1 DEF Travels, TypeOK, Nodes
    <3>3. \A t \in PythonSlaves : \A j \in advancing[t] : j \notin known'[t] /\ j \notin inflight'[t]
      BY <2>1, <2>3, <3>1 DEF Travels, TypeOK, Slaves, Nodes
    <3>4. \A t \in PythonSlaves : inflight'[t] \subseteq inflight[t]
      BY <2>1 DEF TypeOK, Slaves
    <3> QED
      BY <2>1, <3>1, <3>2, <3>3, <3>4 DEF Travels, Inserts
  <2> QED
    BY <2>4, <2>5
<1>8. ASSUME NEW s \in PythonSlaves, NEW k \in advancing[s], MoveCounter(s, k) PROVE Travels'
  <2>1. /\ UNCHANGED <<creating, log, inflight>>
        /\ advancing' = [advancing EXCEPT ![s] = @ \ {k}]
        /\ known' = [known EXCEPT ![s] = @ \cup {k}]
    BY <1>8 DEF MoveCounter
  <2>2. k \notin inflight[s]
    BY DEF Travels
  <2>3. \A t \in Slaves : \A j \in inflight[t] : j \notin known'[t]
    BY <2>1, <2>2 DEF Travels, TypeOK, Nodes
  <2>4. \A t \in PythonSlaves :
            /\ advancing'[t] \subseteq advancing[t]
            /\ \A j \in advancing'[t] : j \notin known'[t]
    BY <2>1 DEF Travels, TypeOK, Slaves, Nodes
  <2> QED
    BY <2>1, <2>3, <2>4 DEF Travels, Inserts
<1>9. ASSUME NEW s \in Slaves, NEW k \in inflight[s], Lose(s, k) PROVE Travels'
  <2>1. /\ UNCHANGED <<creating, advancing, log, known>>
        /\ \A t \in Slaves : inflight'[t] \subseteq inflight[t]
    BY <1>9 DEF Lose, TypeOK
  <2> QED
    BY <2>1 DEF Travels, Inserts, Slaves
<1>10. ASSUME NEW n \in Nodes, Restart(n) PROVE Travels'
  <2>1. /\ UNCHANGED <<log, inflight>>
        /\ \A m \in Nodes : known'[m] \subseteq known[m]
        /\ \A s \in PythonSlaves : /\ creating'[s] \subseteq creating[s]
                                   /\ advancing'[s] \subseteq advancing[s]
    BY <1>10 DEF Restart, TypeOK
  <2> QED
    BY <2>1 DEF Travels, Inserts, Slaves, Nodes
<1> QED
  BY <1>1, <1>2, <1>3, <1>4, <1>5, <1>6, <1>7, <1>8, <1>9, <1>10 DEF Next

-----------------------------------------------------------------------------
(***************************************************************************)
(* Counters.  A node's counter is past the IDs of the inserts it knows and *)
(* accepted, past the IDs its creates hold, and past its rows.  A create   *)
(* that holds an ID shares it with no other create and with no insert it   *)
(* goes by.                                                                *)
(***************************************************************************)
Counters ==
    /\ \A n \in Nodes : \A j \in known[n] :
          Inserts(j) /\ Valid(n, log[j].client) => log[j].id < tables[n].nextID
    /\ \A s \in PythonSlaves : \A c \in creating[s] :
          /\ c.id < tables[s].nextID
          /\ \A j \in Seen(s, c) : Inserts(j) => log[j].id # c.id
          /\ \A d \in creating[s] : d.id = c.id => d = c
    /\ CountersCoverRows

LEMMA AddsCounters ==
  ASSUME TypeOK, Travels, Counters, NEW n \in Nodes, NEW p, NEW k, Adds(n, p, k),
         NEW repo \in Repository, tables' = [tables EXCEPT ![n] = repo],
         advancing' = advancing,
         repo.nextID >= tables[n].nextID,
         p.operation = "insert" => p.id < repo.nextID,
         \A i \in IDs : Has(repo, i) => Has(tables[n], i) \/ i < repo.nextID,
         \A s \in PythonSlaves : creating'[s] \subseteq creating[s],
         \A s \in PythonSlaves : \A c \in creating'[s] :
             s = n /\ p.operation = "insert" => p.id # c.id
  PROVE  Counters'
<1>1. \A m \in Nodes : /\ tables[m] \in Repository
                       /\ known[m] \subseteq DOMAIN log
                       /\ tables'[m] = IF m = n THEN repo ELSE tables[m]
                       /\ known'[m] = IF m = n THEN known[m] \cup {k} ELSE known[m]
  BY DEF TypeOK, Adds
<1>2. \A m \in Nodes : /\ tables[m].nextID \in Nat
                       /\ tables'[m].nextID \in Nat
                       /\ tables'[m].nextID >= tables[m].nextID
  <2>1. \A r \in Repository : r.nextID \in Nat /\ r.nextID >= r.nextID
    BY DEF Repository
  <2> QED
    BY <1>1, <2>1
<1>3. \A j \in DOMAIN log : /\ log[j].id \in IDs
                            /\ Inserts(j)' <=> Inserts(j)
                            /\ log'[j] = log[j]
  <2> SUFFICES ASSUME NEW j \in DOMAIN log
               PROVE  log[j].id \in IDs /\ (Inserts(j)' <=> Inserts(j)) /\ log'[j] = log[j]
    OBVIOUS
  <2>1. log[j] \in Payload
    BY DEF TypeOK
  <2>2. log'[j] = log[j] /\ j \in DOMAIN log'
    BY DEF Adds
  <2> QED
    BY <2>1, <2>2 DEF Inserts, Payload
<1>4. (Inserts(k)' <=> p.operation = "insert") /\ log'[k] = p /\ k \notin DOMAIN log
  BY DEF Adds, Inserts
<1>5. \A i \in IDs : i \in Nat
  BY DEF IDs
<1>6. \A m \in Nodes : \A j \in known'[m] :
          Inserts(j)' /\ Valid(m, log'[j].client) => log'[j].id < tables'[m].nextID
  <2> SUFFICES ASSUME NEW m \in Nodes, NEW j \in known'[m], Inserts(j)',
                      Valid(m, log'[j].client)
               PROVE  log'[j].id < tables'[m].nextID
    OBVIOUS
  <2>1. CASE j \in known[m]
    <3>1. j \in DOMAIN log /\ Inserts(j) /\ log'[j] = log[j]
      BY <1>1, <1>3, <2>1
    <3>2. log[j].id < tables[m].nextID
      BY <2>1, <3>1 DEF Counters
    <3>3. log[j].id \in Nat
      BY <1>3, <1>5, <3>1
    <3> QED
      BY <1>2, <3>1, <3>2, <3>3
  <2>2. CASE j \notin known[m]
    BY <1>1, <1>4, <2>2
  <2> QED
    BY <2>1, <2>2
<1>7. ASSUME NEW s \in PythonSlaves, NEW c \in creating'[s]
      PROVE  /\ c.id < tables'[s].nextID
             /\ \A j \in Seen(s, c)' : Inserts(j)' => log'[j].id # c.id
             /\ \A d \in creating'[s] : d.id = c.id => d = c
  <2>1. s \in Nodes /\ c \in creating[s]
    BY DEF Nodes, Slaves
  <2>2. c.id \in Nat
    BY <1>5, <2>1 DEF TypeOK, Creating
  <2>3. c.id < tables'[s].nextID
    BY <1>2, <2>1, <2>2 DEF Counters
  <2>4. ASSUME NEW j \in Seen(s, c)', Inserts(j)' PROVE log'[j].id # c.id
    <3>1. c.knew \subseteq DOMAIN log
      BY <2>1 DEF Travels
    <3>2. CASE j = k
      <4>1. j \in known'[s] /\ log'[j].from = s /\ p.from = n
        BY <1>4, <3>1, <3>2 DEF Seen, Adds
      <4> QED
        BY <1>4, <2>4, <3>2, <4>1
    <3>3. CASE j # k
      <4>0. j \in c.knew \/ (j \in known'[s] /\ log'[j].from = s)
        BY DEF Seen
      <4> DEFINE own == log'[j].from = s
      <4>a. known'[s] \subseteq known[s] \cup {k}
        BY <1>1, <2>1
      <4> HIDE DEF own
      <4>b. j \in known'[s] => j \in known[s]
        BY <3>3, <4>a
      <4>1. j \in c.knew \/ (j \in known[s] /\ own)
        BY <4>0, <4>b DEF own
      <4>2. j \in DOMAIN log
        BY <1>1, <2>1, <3>1, <4>1
      <4>3. j \in Seen(s, c) /\ Inserts(j) /\ log'[j] = log[j]
        BY <1>3, <2>4, <4>1, <4>2 DEF Seen, own
      <4> QED
        BY <2>1, <4>3 DEF Counters
    <3> QED
      BY <3>2, <3>3
  <2>5. \A d \in creating'[s] : d.id = c.id => d = c
    BY <2>1 DEF Counters
  <2> QED
    BY <2>3, <2>4, <2>5
<1>8. CountersCoverRows'
  <2> SUFFICES ASSUME NEW m \in Nodes, NEW i \in IDs, Has(tables'[m], i)
               PROVE  \/ i < tables'[m].nextID
                      \/ m \in PythonSlaves /\ \E j \in advancing[m] : log'[j].id = i
    BY DEF CountersCoverRows
  <2>1. CASE Has(tables[m], i)
    <3>1. \/ i < tables[m].nextID
          \/ m \in PythonSlaves /\ \E j \in advancing[m] : log[j].id = i
      BY <2>1 DEF Counters, CountersCoverRows
    <3>2. i < tables[m].nextID => i < tables'[m].nextID
      BY <1>2, <1>5
    <3>3. m \in PythonSlaves => \A j \in advancing[m] : j \in DOMAIN log
      BY DEF TypeOK
    <3> QED
      BY <1>3, <3>1, <3>2, <3>3
  <2>2. CASE ~ Has(tables[m], i)
    BY <1>1, <2>2
  <2> QED
    BY <2>1, <2>2
<1> QED
  BY <1>6, <1>7, <1>8 DEF Counters

LEMMA InitCounters == Init => Counters
  BY DEF Init, Counters, CountersCoverRows, Has, NewClientRepository

\* A step of one node that writes nothing: its counter does not fall, what it
\* knows more of is below the counter, and so is every row it has more.
NodeStep(n, repo) ==
    /\ log' = log
    /\ tables' = [tables EXCEPT ![n] = repo]
    /\ \A m \in Nodes \ {n} : known'[m] = known[m]
    /\ \A s \in PythonSlaves \ {n} : creating'[s] = creating[s] /\ advancing'[s] = advancing[s]
    /\ \A j \in known'[n] : Inserts(j) /\ Valid(n, log[j].client) => log[j].id < repo.nextID
    /\ n \in PythonSlaves => \A c \in creating'[n] :
          /\ c.id < repo.nextID
          /\ \A j \in Seen(n, c)' : Inserts(j) => log[j].id # c.id
          /\ \A d \in creating'[n] : d.id = c.id => d = c
    /\ \A i \in IDs : Has(repo, i) =>
          \/ i < repo.nextID
          \/ n \in PythonSlaves /\ \E k \in advancing'[n] : log[k].id = i

LEMMA NodeCounters ==
  ASSUME TypeOK, Counters, NEW n \in Nodes, NEW repo \in Repository, NodeStep(n, repo)
  PROVE  Counters'
<1> USE DEF NodeStep
<1>1. \A m \in Nodes : tables'[m] = IF m = n THEN repo ELSE tables[m]
  BY DEF TypeOK
<1>2. \A s \in PythonSlaves : s \in Nodes
  BY DEF Nodes, Slaves
<1>3. \A j : Inserts(j)' <=> Inserts(j)
  BY DEF Inserts
<1>4. \A m \in Nodes : \A j \in known'[m] :
          Inserts(j) /\ Valid(m, log[j].client) => log[j].id < tables'[m].nextID
  BY <1>1 DEF Counters
<1>5. ASSUME NEW s \in PythonSlaves, NEW c \in creating'[s]
      PROVE  /\ c.id < tables'[s].nextID
             /\ \A j \in Seen(s, c)' : Inserts(j) => log[j].id # c.id
             /\ \A d \in creating'[s] : d.id = c.id => d = c
  <2>1. CASE s = n
    BY <1>1, <1>2, <2>1
  <2>2. CASE s # n
    <3>1. tables'[s] = tables[s] /\ creating'[s] = creating[s] /\ known'[s] = known[s]
      BY <1>1, <1>2, <2>2
    <3>2. Seen(s, c)' = Seen(s, c)
      BY <3>1 DEF Seen
    <3> QED
      BY <3>1, <3>2 DEF Counters
  <2> QED
    BY <2>1, <2>2
<1>6. CountersCoverRows'
  <2> SUFFICES ASSUME NEW m \in Nodes, NEW i \in IDs, Has(tables'[m], i)
               PROVE  \/ i < tables'[m].nextID
                      \/ m \in PythonSlaves /\ \E k \in advancing'[m] : log[k].id = i
    BY DEF CountersCoverRows
  <2>1. CASE m = n
    BY <1>1, <2>1
  <2>2. CASE m # n
    BY <1>1, <2>2 DEF Counters, CountersCoverRows
  <2> QED
    BY <2>1, <2>2
<1> QED
  BY <1>3, <1>4, <1>5, <1>6 DEF Counters

LEMMA StepCounters == TypeOK /\ Travels /\ Counters /\ [Next]_vars => Counters'
<1> SUFFICES ASSUME TypeOK, Travels, Counters, [Next]_vars PROVE Counters'
  OBVIOUS
<1>a. /\ \A s \in PythonSlaves : s \in Nodes /\ s \in Slaves
      /\ \A i \in IDs : i \in Nat
      /\ \A r \in Repository : r.nextID \in Nat
      /\ tables \in [Nodes -> Repository]
  BY DEF Nodes, Slaves, IDs, Repository, TypeOK
<1>b. \A j \in DOMAIN log : log[j] \in Payload /\ log[j].id \in IDs
  <2>1. \A j \in DOMAIN log : log[j] \in Payload
    BY DEF TypeOK
  <2>2. \A p \in Payload : p.id \in IDs
    BY DEF Payload
  <2> QED
    BY <2>1, <2>2
<1>c. \A n \in Nodes : \A j \in known[n] : j \in DOMAIN log /\ log[j].id \in Nat
  BY <1>a, <1>b DEF TypeOK
<1>1. CASE UNCHANGED vars
  BY <1>1 DEF vars, Counters, CountersCoverRows, Inserts, Seen
<1>2. ASSUME NEW n \in Nodes, NEW client \in Client, CreateClient(n, client) PROVE Counters'
  <2> DEFINE p == [from |-> n, operation |-> "insert", id |-> tables[n].nextID,
                   client |-> client, knew |-> known[n]]
  <2> DEFINE repo == Inserted(tables[n], tables[n].nextID, client)
  <2>1. /\ tables[n] \in Repository
        /\ tables[n].nextID \in IDs
        /\ Adds(n, p, Len(log) + 1)
    BY <1>2, Creates
  <2>2. /\ tables' = [tables EXCEPT ![n] = Created(tables[n], client)]
        /\ advancing' = advancing
        /\ creating' = creating
        /\ n \notin PythonSlaves
    BY <1>2, ClusterAssumption DEF CreateClient, GoNodes, Slaves
  <2>3. tables' = [tables EXCEPT ![n] = repo]
    BY <2>1, <2>2, CreatedType
  <2>4. /\ repo \in Repository
        /\ repo.nextID >= tables[n].nextID
        /\ repo.nextID > p.id
        /\ \A i \in IDs : repo.clients[i] = IF i = p.id THEN client ELSE tables[n].clients[i]
    BY <2>1, InsertedType
  <2>5. p.id = tables[n].nextID
    OBVIOUS
  <2> HIDE DEF p, repo
  <2>6. p.id < repo.nextID
    BY <1>a, <2>1, <2>4, <2>5
  <2>7. \A i \in IDs : Has(repo, i) => Has(tables[n], i) \/ i < repo.nextID
    BY <2>4, <2>6 DEF Has
  <2> QED
    BY <2>1, <2>2, <2>3, <2>4, <2>6, <2>7, AddsCounters
<1>3. ASSUME NEW n \in Nodes, NEW id \in IDs, NEW client \in Client,
             UpdateClient(n, id, client)
      PROVE  Counters'
  <2> DEFINE p == [from |-> n, operation |-> "update", id |-> id,
                   client |-> client, knew |-> known[n]]
  <2> DEFINE repo == Stored(tables[n], id, client)
  <2>1. tables[n] \in Repository /\ Adds(n, p, Len(log) + 1)
    BY <1>3, Updates
  <2>2. /\ tables' = [tables EXCEPT ![n] = repo]
        /\ advancing' = advancing
        /\ creating' = creating
        /\ Has(tables[n], id)
    BY <1>3 DEF UpdateClient, MayUpdate
  <2>3. /\ repo \in Repository
        /\ repo.nextID = tables[n].nextID
        /\ \A i \in IDs : repo.clients[i] = IF i = id THEN client ELSE tables[n].clients[i]
    BY <2>1, StoredType
  <2>4. p.operation # "insert"
    OBVIOUS
  <2> HIDE DEF p, repo
  <2>5. repo.nextID >= tables[n].nextID
    BY <1>a, <2>3
  <2>6. \A i \in IDs : Has(repo, i) => Has(tables[n], i)
    BY <2>2, <2>3 DEF Has
  <2> QED
    BY <2>1, <2>2, <2>3, <2>4, <2>5, <2>6, AddsCounters
<1>4. ASSUME NEW n \in Nodes, NEW id \in IDs, DeleteClient(n, id) PROVE Counters'
  <2> DEFINE p == [from |-> n, operation |-> "delete", id |-> id,
                   client |-> tables[n].clients[id], knew |-> known[n]]
  <2> DEFINE repo == Deleted(tables[n], id)
  <2>1. tables[n] \in Repository /\ Adds(n, p, Len(log) + 1)
    BY <1>4, Deletes
  <2>2. /\ tables' = [tables EXCEPT ![n] = repo]
        /\ advancing' = advancing
        /\ creating' = creating
    BY <1>4 DEF DeleteClient
  <2>3. /\ repo \in Repository
        /\ repo.nextID = tables[n].nextID
        /\ \A i \in IDs : repo.clients[i] = IF i = id THEN NoClient ELSE tables[n].clients[i]
    BY <2>1, DeletedType
  <2>4. p.operation # "insert"
    OBVIOUS
  <2> HIDE DEF p, repo
  <2>5. repo.nextID >= tables[n].nextID
    BY <1>a, <2>3
  <2>6. \A i \in IDs : Has(repo, i) => Has(tables[n], i)
    BY <2>3 DEF Has
  <2> QED
    BY <2>1, <2>2, <2>3, <2>4, <2>5, <2>6, AddsCounters
<1>5. ASSUME NEW s \in PythonSlaves, NEW client \in Client, TakeID(s, client) PROVE Counters'
  <2> DEFINE new == [id |-> tables[s].nextID, client |-> client, knew |-> known[s]]
  <2> DEFINE repo == [tables[s] EXCEPT !.nextID = @ + 1]
  <2>1. /\ tables[s] \in Repository
        /\ repo \in Repository
        /\ tables' = [tables EXCEPT ![s] = repo]
        /\ s \in Nodes
    BY <1>a, <1>5, Takes
  <2>2. /\ creating' = [creating EXCEPT ![s] = creating[s] \cup {new}]
        /\ UNCHANGED <<advancing, log, known>>
    BY <1>5 DEF TakeID
  <2>3. /\ new.id = tables[s].nextID
        /\ new.knew = known[s]
        /\ repo.nextID = tables[s].nextID + 1
        /\ repo.clients = tables[s].clients
        /\ tables[s].nextID \in Nat
    BY <1>a, <2>1 DEF Repository
  <2> HIDE DEF new, repo
  <2>4. creating'[s] = creating[s] \cup {new}
    BY <2>2 DEF TypeOK
  <2>5. \A j \in known[s] : Inserts(j) => log[j].id < tables[s].nextID
    <3>1. s \notin GoNodes
      BY ClusterAssumption DEF GoNodes, Slaves
    <3> QED
      BY <2>1, <3>1 DEF Counters, Valid
  <2>6. \A j \in known[s] : Inserts(j) => log[j].id \in Nat
    BY <1>c, <2>1
  <2>7. \A c \in creating[s] : c.id \in Nat /\ c.id < tables[s].nextID
    BY <1>a DEF TypeOK, Creating, Counters
  <2>8. \A c \in creating'[s] :
            /\ c.id < repo.nextID
            /\ \A d \in creating'[s] : d.id = c.id => d = c
    BY <2>3, <2>4, <2>7 DEF Counters
  <2>9. ASSUME NEW c \in creating'[s], NEW j \in Seen(s, c)', Inserts(j)
        PROVE  log[j].id # c.id
    <3>1. j \in Seen(s, c)
      BY <2>2 DEF Seen
    <3>2. CASE c \in creating[s]
      BY <2>9, <3>1, <3>2 DEF Counters
    <3>3. CASE c = new
      BY <2>3, <2>5, <2>6, <2>9, <3>1, <3>3 DEF Seen
    <3> QED
      BY <2>4, <3>2, <3>3
  <2>10. \A i \in IDs : Has(repo, i) => \/ i < repo.nextID
                                        \/ \E k \in advancing'[s] : log[k].id = i
    BY <1>a, <2>1, <2>2, <2>3 DEF Has, Counters, CountersCoverRows
  <2>11. \A j \in known'[s] : Inserts(j) /\ Valid(s, log[j].client) => log[j].id < repo.nextID
    BY <2>2, <2>3, <2>5, <2>6
  <2>12. \A t \in PythonSlaves \ {s} : creating'[t] = creating[t] /\ advancing'[t] = advancing[t]
    BY <2>2 DEF TypeOK
  <2>14. NodeStep(s, repo)
    BY <2>1, <2>2, <2>8, <2>9, <2>10, <2>11, <2>12 DEF NodeStep
  <2> QED
    BY <2>1, <2>14, NodeCounters
<1>6. ASSUME NEW s \in PythonSlaves, NEW c \in creating[s], StoreClient(s, c) PROVE Counters'
  <2> DEFINE p == [from |-> s, operation |-> "insert", id |-> c.id,
                   client |-> c.client, knew |-> Seen(s, c)]
  <2> DEFINE repo == Stored(tables[s], c.id, c.client)
  <2>1. /\ tables[s] \in Repository
        /\ c.id \in IDs
        /\ c.client \in Client
        /\ Adds(s, p, Len(log) + 1)
    BY <1>6, Stores
  <2>2. /\ tables' = [tables EXCEPT ![s] = repo]
        /\ advancing' = advancing
        /\ creating' = [creating EXCEPT ![s] = creating[s] \ {c}]
    BY <1>6 DEF StoreClient
  <2>3. /\ repo \in Repository
        /\ repo.nextID = tables[s].nextID
        /\ \A i \in IDs : repo.clients[i] = IF i = c.id THEN c.client ELSE tables[s].clients[i]
    BY <2>1, StoredType
  <2>4. p.id = c.id
    OBVIOUS
  <2> HIDE DEF p, repo
  <2>5. c.id < tables[s].nextID
    BY DEF Counters
  <2>6. repo.nextID >= tables[s].nextID
    BY <1>a, <2>3
  <2>7. \A i \in IDs : Has(repo, i) => Has(tables[s], i) \/ i < repo.nextID
    BY <2>3, <2>5 DEF Has
  <2>8. \A t \in PythonSlaves : creating'[t] \subseteq creating[t]
    BY <2>2 DEF TypeOK
  <2>9. \A t \in PythonSlaves : \A d \in creating'[t] : t = s => p.id # d.id
    BY <2>2, <2>4 DEF TypeOK, Counters
  <2>10. p.id < repo.nextID
    BY <2>3, <2>4, <2>5
  <2>11. \A t \in PythonSlaves : \A d \in creating'[t] :
             t = s /\ p.operation = "insert" => p.id # d.id
    BY <2>9
  <2>12. /\ tables' = [tables EXCEPT ![s] = repo]
         /\ advancing' = advancing
         /\ repo \in Repository
         /\ s \in Nodes
    BY <1>a, <2>2, <2>3
  <2> QED
    BY <2>1, <2>6, <2>7, <2>8, <2>10, <2>11, <2>12, AddsCounters

<1>7. ASSUME NEW s \in Slaves, NEW k \in inflight[s], Deliver(s, k) PROVE Counters'
  <2> DEFINE repo == Applied(s, log[k])
  <2>1. /\ s \in Nodes
        /\ k \in DOMAIN log
        /\ log[k] \in Payload
        /\ log[k].id \in IDs
        /\ tables[s] \in Repository
    BY <1>b DEF TypeOK, Nodes
  <2>2. /\ UNCHANGED <<creating, log>>
        /\ tables' = [tables EXCEPT ![s] = repo]
        /\ known'[s] \subseteq known[s] \cup {k}
        /\ \A m \in Nodes \ {s} : known'[m] = known[m]
        /\ \A t \in PythonSlaves \ {s} : advancing'[t] = advancing[t]
    BY <1>7, <2>1 DEF Deliver, TypeOK
  <2>3. repo \in Repository
    BY <2>1, AppliedType
  <2>4. /\ repo.nextID >= tables[s].nextID
        /\ Inserts(k) /\ s \in GoSlaves /\ Valid(s, log[k].client) => log[k].id < repo.nextID
        /\ \A i \in IDs : Has(repo, i) =>
               Has(tables[s], i) \/ (i = log[k].id /\ Inserts(k) /\ Valid(s, log[k].client))
    BY <2>1, AppliedRows DEF Inserts
  <2> HIDE DEF repo
  <2>5. tables[s].nextID \in Nat /\ repo.nextID \in Nat
    BY <1>a, <2>1, <2>3
  <2>6. s \in PythonSlaves /\ Inserts(k) =>
            known'[s] = known[s] /\ advancing'[s] = advancing[s] \cup {k}
    BY <1>7 DEF Deliver, Unfinished, Inserts, TypeOK
  <2>7. s \in PythonSlaves => advancing[s] \subseteq advancing'[s]
    BY <1>7 DEF Deliver, TypeOK
  <2>8. \A j \in known[s] : log[j].id \in Nat
    BY <1>c, <2>1
  <2>9. \A j \in known'[s] : Inserts(j) /\ Valid(s, log[j].client) => log[j].id < repo.nextID
    <3> SUFFICES ASSUME NEW j \in known'[s], Inserts(j), Valid(s, log[j].client)
                 PROVE  log[j].id < repo.nextID
      OBVIOUS
    <3>1. CASE j \in known[s]
      <4>1. log[j].id < tables[s].nextID
        BY <2>1, <3>1 DEF Counters
      <4> QED
        BY <2>4, <2>5, <2>8, <3>1, <4>1
    <3>2. CASE j \notin known[s]
      <4>1. j = k /\ s \notin PythonSlaves
        BY <2>2, <2>6, <3>2
      <4> QED
        BY <2>4, <4>1 DEF Slaves
    <3> QED
      BY <3>1, <3>2
  <2>10. ASSUME s \in PythonSlaves, NEW c \in creating'[s]
         PROVE  /\ c.id < repo.nextID
                /\ \A j \in Seen(s, c)' : Inserts(j) => log[j].id # c.id
                /\ \A d \in creating'[s] : d.id = c.id => d = c
    <3>1. c \in creating[s] /\ c.id \in Nat
      BY <1>a, <2>2, <2>10 DEF TypeOK, Creating
    <3>2. c.id < repo.nextID
      BY <2>4, <2>5, <2>10, <3>1 DEF Counters
    <3>3. log[k].from # s
      BY DEF Travels
    <3>4. \A j \in Seen(s, c)' : j \in Seen(s, c)
      BY <2>2, <3>3 DEF Seen
    <3> QED
      BY <2>2, <2>10, <3>1, <3>2, <3>4 DEF Counters
  <2>11. \A i \in IDs : Has(repo, i) =>
             \/ i < repo.nextID
             \/ s \in PythonSlaves /\ \E j \in advancing'[s] : log[j].id = i
    <3> SUFFICES ASSUME NEW i \in IDs, Has(repo, i)
                 PROVE  \/ i < repo.nextID
                        \/ s \in PythonSlaves /\ \E j \in advancing'[s] : log[j].id = i
      OBVIOUS
    <3>1. CASE Has(tables[s], i)
      <4>1. \/ i < tables[s].nextID
            \/ s \in PythonSlaves /\ \E j \in advancing[s] : log[j].id = i
        BY <2>1, <3>1 DEF Counters, CountersCoverRows
      <4>2. i < tables[s].nextID => i < repo.nextID
        BY <1>a, <2>4, <2>5
      <4> QED
        BY <2>7, <4>1, <4>2
    <3>2. CASE ~ Has(tables[s], i)
      BY <2>4, <2>6, <3>2 DEF Slaves
    <3> QED
      BY <3>1, <3>2
  <2>12. \A t \in PythonSlaves \ {s} : creating'[t] = creating[t]
    BY <2>2
  <2>13. NodeStep(s, repo)
    BY <2>2, <2>9, <2>10, <2>11, <2>12 DEF NodeStep
  <2> QED
    BY <2>1, <2>3, <2>13, NodeCounters
<1>8. ASSUME NEW s \in PythonSlaves, NEW k \in advancing[s], MoveCounter(s, k) PROVE Counters'
  <2> DEFINE repo == CounterMoved(tables[s], log[k].id)
  <2>1. /\ tables[s] \in Repository
        /\ log[k].id \in IDs
        /\ repo \in Repository
        /\ repo.clients = tables[s].clients
        /\ repo.nextID >= tables[s].nextID
        /\ repo.nextID > log[k].id
        /\ tables' = [tables EXCEPT ![s] = repo]
    BY <1>8, Moves DEF Payload
  <2> HIDE DEF repo
  <2>2. /\ UNCHANGED <<creating, log>>
        /\ s \in Nodes
        /\ known'[s] = known[s] \cup {k}
        /\ advancing'[s] = advancing[s] \ {k}
        /\ \A m \in Nodes \ {s} : known'[m] = known[m]
        /\ \A t \in PythonSlaves \ {s} : advancing'[t] = advancing[t]
    BY <1>a, <1>8 DEF MoveCounter, TypeOK
  <2>3. /\ tables[s].nextID \in Nat
        /\ repo.nextID \in Nat
        /\ log[k].id \in Nat
        /\ log[k].id < repo.nextID
    BY <1>a, <2>1
  <2>4. \A j \in known[s] : log[j].id \in Nat
    BY <1>c, <2>2
  <2>5. \A j \in known'[s] : Inserts(j) /\ Valid(s, log[j].client) => log[j].id < repo.nextID
    <3> SUFFICES ASSUME NEW j \in known'[s], Inserts(j), Valid(s, log[j].client)
                 PROVE  log[j].id < repo.nextID
      OBVIOUS
    <3>1. CASE j \in known[s]
      <4>1. log[j].id < tables[s].nextID
        BY <2>2, <3>1 DEF Counters
      <4> QED
        BY <2>1, <2>3, <2>4, <3>1, <4>1
    <3> QED
      BY <2>2, <2>3, <3>1
  <2>6. ASSUME NEW c \in creating'[s]
        PROVE  /\ c.id < repo.nextID
               /\ \A j \in Seen(s, c)' : Inserts(j) => log[j].id # c.id
               /\ \A d \in creating'[s] : d.id = c.id => d = c
    <3>1. c \in creating[s] /\ c.id \in Nat
      BY <1>a, <2>2 DEF TypeOK, Creating
    <3>2. c.id < repo.nextID
      BY <2>1, <2>3, <3>1 DEF Counters
    <3>3. log[k].from # s
      BY DEF Travels
    <3>4. \A j \in Seen(s, c)' : j \in Seen(s, c)
      BY <2>2, <3>3 DEF Seen
    <3> QED
      BY <2>2, <3>1, <3>2, <3>4 DEF Counters
  <2>7. \A i \in IDs : Has(repo, i) =>
             \/ i < repo.nextID
             \/ s \in PythonSlaves /\ \E j \in advancing'[s] : log[j].id = i
    <3> SUFFICES ASSUME NEW i \in IDs, Has(repo, i)
                 PROVE  \/ i < repo.nextID
                        \/ \E j \in advancing'[s] : log[j].id = i
      OBVIOUS
    <3>1. \/ i < tables[s].nextID
          \/ \E j \in advancing[s] : log[j].id = i
      BY <2>1, <2>2 DEF Has, Counters, CountersCoverRows
    <3>2. i < tables[s].nextID => i < repo.nextID
      BY <1>a, <2>1, <2>3
    <3> QED
      BY <2>2, <2>3, <3>1, <3>2
  <2>8. \A t \in PythonSlaves \ {s} : creating'[t] = creating[t]
    BY <2>2
  <2>9. NodeStep(s, repo)
    BY <2>1, <2>2, <2>5, <2>6, <2>7, <2>8 DEF NodeStep
  <2> QED
    BY <2>1, <2>2, <2>9, NodeCounters
<1>9. ASSUME NEW s \in Slaves, NEW k \in inflight[s], Lose(s, k) PROVE Counters'
  BY <1>9 DEF Lose, Counters, CountersCoverRows, Inserts, Seen
<1>10. ASSUME NEW n \in Nodes, Restart(n) PROVE Counters'
  <2>1. /\ log' = log
        /\ known'[n] = {}
        /\ \A m \in Nodes \ {n} : known'[m] = known[m] /\ tables'[m] = tables[m]
        /\ tables'[n] = NewClientRepository
        /\ n \in PythonSlaves => creating'[n] = {}
        /\ \A t \in PythonSlaves \ {n} : /\ creating'[t] = creating[t]
                                         /\ advancing'[t] = advancing[t]
    BY <1>10 DEF Restart, TypeOK
  <2>2. \A i \in IDs : ~ Has(NewClientRepository, i)
    BY DEF Has, NewClientRepository
  <2>3. \A m \in Nodes : \A j \in known'[m] :
          Inserts(j)' /\ Valid(m, log'[j].client) => log'[j].id < tables'[m].nextID
    BY <2>1 DEF Counters, Inserts
  <2>4. ASSUME NEW s \in PythonSlaves, NEW c \in creating'[s]
        PROVE  /\ c.id < tables'[s].nextID
               /\ \A j \in Seen(s, c)' : Inserts(j)' => log'[j].id # c.id
               /\ \A d \in creating'[s] : d.id = c.id => d = c
    <3>1. /\ s # n
          /\ s \in Nodes
          /\ creating'[s] = creating[s]
          /\ known'[s] = known[s]
          /\ tables'[s] = tables[s]
      BY <1>a, <2>1, <2>4
    <3>2. Seen(s, c)' = Seen(s, c)
      BY <2>1, <3>1 DEF Seen
    <3> QED
      BY <2>1, <3>1, <3>2 DEF Counters, Inserts
  <2>5. CountersCoverRows'
    BY <2>1, <2>2 DEF Counters, CountersCoverRows
  <2> QED
    BY <2>3, <2>4, <2>5 DEF Counters
<1> QED
  BY <1>1, <1>2, <1>3, <1>4, <1>5, <1>6, <1>7, <1>8, <1>9, <1>10 DEF Next

\* The counters are always past the rows and the inserts a node knows.
LEMMA CountersAlways == Spec => [](TypeOK /\ Travels /\ Counters)
<1>1. Init => TypeOK /\ Travels /\ Counters
  BY InitTypes, InitTravels, InitCounters
<1>2. TypeOK /\ Travels /\ Counters /\ [Next]_vars => (TypeOK /\ Travels /\ Counters)'
  BY StepTypes, StepTravels, StepCounters
<1> QED
  BY <1>1, <1>2, PTL DEF Spec

\* A table's counter is past its rows, but between the two locks of app.py's
\* insert_client.
THEOREM CountersCoverRowsAlways == Spec => []CountersCoverRows
<1>1. Counters => CountersCoverRows
  BY DEF Counters
<1> QED
  BY <1>1, CountersAlways, PTL

-----------------------------------------------------------------------------
(***************************************************************************)
(* New clients get new IDs, as far as the node that chooses can know.      *)
(***************************************************************************)
LEMMA AddsFresh ==
  ASSUME TypeOK, Travels, IDsAreFresh, NEW n \in Nodes, NEW p, NEW k, Adds(n, p, k),
         k \notin p.knew,
         p.operation = "insert" =>
             \A j \in DOMAIN log : /\ j \in p.knew
                                   /\ Inserts(j)
                                   /\ Valid(n, log[j].client)
                                   => log[j].id # p.id
  PROVE  IDsAreFresh'
<1> SUFFICES ASSUME NEW i \in DOMAIN log', NEW j \in DOMAIN log',
                    Inserts(i)', Inserts(j)', log'[i].id = log'[j].id,
                    Valid(log'[j].from, log'[i].client)
             PROVE  i \notin log'[j].knew
  BY DEF IDsAreFresh
<1>1. /\ \A x \in DOMAIN log : log'[x] = log[x] /\ (Inserts(x)' <=> Inserts(x))
      /\ DOMAIN log' = DOMAIN log \cup {k}
      /\ k \notin DOMAIN log
      /\ log'[k] = p
      /\ p.from = n
      /\ Inserts(k)' => p.operation = "insert"
  BY DEF Adds, Inserts
<1>2. CASE j = k
  <2>1. CASE i = k
    BY <1>1, <1>2, <2>1
  <2>2. CASE i # k
    BY <1>1, <1>2, <2>2
  <2> QED
    BY <2>1, <2>2
<1>3. CASE j # k /\ i = k
  BY <1>1, <1>3 DEF Travels
<1>4. CASE j # k /\ i # k
  BY <1>1, <1>4 DEF IDsAreFresh
<1> QED
  BY <1>2, <1>3, <1>4

LEMMA StepFresh == TypeOK /\ Travels /\ Counters /\ IDsAreFresh /\ [Next]_vars => IDsAreFresh'
<1> SUFFICES ASSUME TypeOK, Travels, Counters, IDsAreFresh, [Next]_vars PROVE IDsAreFresh'
  OBVIOUS
<1>0. /\ \A n \in Nodes : known[n] \subseteq DOMAIN log
      /\ Len(log) + 1 \notin DOMAIN log
      /\ \A s \in PythonSlaves : s \in Nodes
  BY DEF TypeOK, Nodes, Slaves
<1>1. ASSUME UNCHANGED log PROVE IDsAreFresh'
  BY <1>1 DEF IDsAreFresh, Inserts
<1>2. ASSUME NEW n \in Nodes, NEW client \in Client, CreateClient(n, client) PROVE IDsAreFresh'
  <2> DEFINE p == [from |-> n, operation |-> "insert", id |-> tables[n].nextID,
                   client |-> client, knew |-> known[n]]
  <2>1. tables[n].nextID \in IDs /\ Adds(n, p, Len(log) + 1)
    BY <1>2, Creates
  <2>2. p.id = tables[n].nextID /\ p.knew = known[n]
    OBVIOUS
  <2> HIDE DEF p
  <2>3. \A j \in DOMAIN log : /\ j \in p.knew
                              /\ Inserts(j)
                              /\ Valid(n, log[j].client)
                              => log[j].id # p.id
    <3> SUFFICES ASSUME NEW j \in known[n], Inserts(j), Valid(n, log[j].client)
                 PROVE  log[j].id # tables[n].nextID
      BY <2>2
    <3>1. log[j].id < tables[n].nextID
      BY DEF Counters
    <3>2. tables[n].nextID \in Nat
      BY <2>1 DEF IDs
    <3> QED
      BY <3>1, <3>2
  <2> QED
    BY <1>0, <2>1, <2>2, <2>3, AddsFresh
<1>3. ASSUME NEW n \in Nodes, NEW id \in IDs, NEW client \in Client,
             UpdateClient(n, id, client)
      PROVE  IDsAreFresh'
  <2> DEFINE p == [from |-> n, operation |-> "update", id |-> id,
                   client |-> client, knew |-> known[n]]
  <2>1. Adds(n, p, Len(log) + 1)
    BY <1>3, Updates
  <2>2. p.operation # "insert" /\ p.knew = known[n]
    OBVIOUS
  <2> HIDE DEF p
  <2> QED
    BY <1>0, <2>1, <2>2, AddsFresh
<1>4. ASSUME NEW n \in Nodes, NEW id \in IDs, DeleteClient(n, id) PROVE IDsAreFresh'
  <2> DEFINE p == [from |-> n, operation |-> "delete", id |-> id,
                   client |-> tables[n].clients[id], knew |-> known[n]]
  <2>1. Adds(n, p, Len(log) + 1)
    BY <1>4, Deletes
  <2>2. p.operation # "insert" /\ p.knew = known[n]
    OBVIOUS
  <2> HIDE DEF p
  <2> QED
    BY <1>0, <2>1, <2>2, AddsFresh
<1>5. ASSUME NEW s \in PythonSlaves, NEW c \in creating[s], StoreClient(s, c)
      PROVE  IDsAreFresh'
  <2> DEFINE p == [from |-> s, operation |-> "insert", id |-> c.id,
                   client |-> c.client, knew |-> Seen(s, c)]
  <2>1. Adds(s, p, Len(log) + 1)
    BY <1>5, Stores
  <2>2. p.id = c.id /\ p.knew = Seen(s, c)
    OBVIOUS
  <2> HIDE DEF p
  <2>3. Seen(s, c) \subseteq DOMAIN log
    BY <1>0 DEF Seen, Travels
  <2>4. \A j \in DOMAIN log : j \in p.knew /\ Inserts(j) => log[j].id # p.id
    BY <2>2 DEF Counters
  <2> QED
    BY <1>0, <2>1, <2>2, <2>3, <2>4, AddsFresh
<1>6. ASSUME NEW s \in PythonSlaves, NEW client \in Client, TakeID(s, client)
      PROVE  UNCHANGED log
  BY <1>6 DEF TakeID
<1>7. ASSUME NEW s \in Slaves, NEW k \in inflight[s], Deliver(s, k) \/ Lose(s, k)
      PROVE  UNCHANGED log
  BY <1>7 DEF Deliver, Lose
<1>8. ASSUME NEW s \in PythonSlaves, NEW k \in advancing[s], MoveCounter(s, k)
      PROVE  UNCHANGED log
  BY <1>8 DEF MoveCounter
<1>9. ASSUME NEW n \in Nodes, Restart(n) PROVE UNCHANGED log
  BY <1>9 DEF Restart
<1>10. CASE UNCHANGED vars
  BY <1>1, <1>10 DEF vars
<1> QED
  BY <1>1, <1>2, <1>3, <1>4, <1>5, <1>6, <1>7, <1>8, <1>9, <1>10 DEF Next

\* Two new clients share an ID only if the node that chose later did not know of
\* the other one: this is how far IDs can be trusted when masters change.
THEOREM IDsAreFreshAlways == Spec => []IDsAreFresh
<1>1. Init => IDsAreFresh
  BY DEF Init, IDsAreFresh
<1> QED
  BY <1>1, StepFresh, CountersAlways, PTL DEF Spec

-----------------------------------------------------------------------------
(***************************************************************************)
(* A create of app.py overwrites a row only if the insert of the row was   *)
(* handled while the create held its ID.                                   *)
(***************************************************************************)
\* A step after which the rows that creates hold the IDs of are the old ones, and
\* the inserts that explain them are still there and still unseen.
LEMMA KeepsExplanation ==
  ASSUME OverwritesOnlyInARace,
         \A s \in PythonSlaves : \A c \in creating'[s] :
             /\ c \in creating[s]
             /\ Has(tables'[s], c.id) => Has(tables[s], c.id)
             /\ \A k \in (known[s] \cup advancing[s]) \ Seen(s, c) :
                   Inserts(k) => /\ k \in (known'[s] \cup advancing'[s]) \ Seen(s, c)'
                                 /\ Inserts(k)'
                                 /\ log'[k].id = log[k].id
  PROVE  OverwritesOnlyInARace'
  BY DEF OverwritesOnlyInARace

LEMMA AddsOverwrites ==
  ASSUME TypeOK, OverwritesOnlyInARace, NEW n \in Nodes, NEW p, NEW k, Adds(n, p, k),
         advancing' = advancing,
         \A s \in PythonSlaves : \A c \in creating'[s] :
             /\ c \in creating[s]
             /\ Has(tables'[s], c.id) => Has(tables[s], c.id)
  PROVE  OverwritesOnlyInARace'
<1> SUFFICES ASSUME NEW s \in PythonSlaves, NEW c \in creating'[s],
                    NEW j \in (known[s] \cup advancing[s]) \ Seen(s, c), Inserts(j)
             PROVE  /\ j \in (known'[s] \cup advancing'[s]) \ Seen(s, c)'
                    /\ Inserts(j)'
                    /\ log'[j].id = log[j].id
  BY KeepsExplanation
<1>1. s \in Nodes /\ j \in DOMAIN log /\ j # k
  BY DEF Inserts, Adds, Nodes, Slaves
<1>2. log'[j] = log[j] /\ Inserts(j)'
  BY <1>1 DEF Adds, Inserts
<1>3. known'[s] = known[s] \/ known'[s] = known[s] \cup {k}
  BY <1>1 DEF Adds, TypeOK
<1>4. j \notin Seen(s, c)'
  BY <1>1, <1>2, <1>3 DEF Seen
<1> QED
  BY <1>2, <1>3, <1>4

LEMMA StepOverwrites ==
  TypeOK /\ Travels /\ Counters /\ OverwritesOnlyInARace /\ [Next]_vars => OverwritesOnlyInARace'
<1> SUFFICES ASSUME TypeOK, Travels, Counters, OverwritesOnlyInARace, [Next]_vars
             PROVE  OverwritesOnlyInARace'
  OBVIOUS
<1>a. /\ \A s \in PythonSlaves : s \in Nodes /\ s \in Slaves /\ s \notin GoNodes
      /\ \A s \in PythonSlaves : \A c \in creating[s] : c.id \in IDs
      /\ tables \in [Nodes -> Repository]
  BY ClusterAssumption DEF Nodes, Slaves, GoNodes, TypeOK, Creating
<1>1. CASE UNCHANGED vars
  BY <1>1 DEF vars, OverwritesOnlyInARace, Inserts, Seen
<1>2. ASSUME NEW n \in Nodes, NEW client \in Client, CreateClient(n, client)
      PROVE  OverwritesOnlyInARace'
  <2>1. Adds(n, [from |-> n, operation |-> "insert", id |-> tables[n].nextID,
                 client |-> client, knew |-> known[n]], Len(log) + 1)
    BY <1>2, Creates
  <2>2. \A s \in PythonSlaves : s # n /\ tables'[s] = tables[s] /\ creating'[s] = creating[s]
    BY <1>a, <1>2 DEF CreateClient
  <2>3. advancing' = advancing
    BY <1>2 DEF CreateClient
  <2> QED
    BY <2>1, <2>2, <2>3, AddsOverwrites
<1>3. ASSUME NEW n \in Nodes, NEW id \in IDs, NEW client \in Client,
             UpdateClient(n, id, client)
      PROVE  OverwritesOnlyInARace'
  <2>1. /\ tables[n] \in Repository
        /\ Adds(n, [from |-> n, operation |-> "update", id |-> id,
                    client |-> client, knew |-> known[n]], Len(log) + 1)
    BY <1>3, Updates
  <2>2. /\ tables' = [tables EXCEPT ![n] = Stored(tables[n], id, client)]
        /\ Has(tables[n], id)
        /\ UNCHANGED <<creating, advancing>>
    BY <1>3 DEF UpdateClient, MayUpdate
  <2>3. \A i \in IDs : Has(Stored(tables[n], id, client), i) => Has(tables[n], i)
    BY <2>1, <2>2, StoredType DEF Has
  <2>4. \A s \in PythonSlaves : \A c \in creating'[s] :
            c \in creating[s] /\ (Has(tables'[s], c.id) => Has(tables[s], c.id))
    BY <1>a, <2>2, <2>3
  <2> QED
    BY <2>1, <2>2, <2>4, AddsOverwrites
<1>4. ASSUME NEW n \in Nodes, NEW id \in IDs, DeleteClient(n, id) PROVE OverwritesOnlyInARace'
  <2>1. /\ tables[n] \in Repository
        /\ Adds(n, [from |-> n, operation |-> "delete", id |-> id,
                    client |-> tables[n].clients[id], knew |-> known[n]], Len(log) + 1)
    BY <1>4, Deletes
  <2>2. /\ tables' = [tables EXCEPT ![n] = Deleted(tables[n], id)]
        /\ UNCHANGED <<creating, advancing>>
    BY <1>4 DEF DeleteClient
  <2>3. \A i \in IDs : Has(Deleted(tables[n], id), i) => Has(tables[n], i)
    BY <2>1, DeletedType DEF Has
  <2>4. \A s \in PythonSlaves : \A c \in creating'[s] :
            c \in creating[s] /\ (Has(tables'[s], c.id) => Has(tables[s], c.id))
    BY <1>a, <2>2, <2>3
  <2> QED
    BY <2>1, <2>2, <2>4, AddsOverwrites
<1>5. ASSUME NEW s \in PythonSlaves, NEW client \in Client, TakeID(s, client)
      PROVE  OverwritesOnlyInARace'
  <2> DEFINE new == [id |-> tables[s].nextID, client |-> client, knew |-> known[s]]
  <2>1. /\ tables[s].nextID \in IDs
        /\ tables' = [tables EXCEPT ![s] = [tables[s] EXCEPT !.nextID = @ + 1]]
    BY <1>5, Takes
  <2>0. tables[s].nextID \in Nat
    BY <2>1 DEF IDs
  <2>2. /\ creating' = [creating EXCEPT ![s] = creating[s] \cup {new}]
        /\ UNCHANGED <<advancing, log, known>>
    BY <1>5 DEF TakeID
  <2>3. new.id = tables[s].nextID /\ new.knew = known[s]
    OBVIOUS
  <2> HIDE DEF new
  <2>4. \A t \in PythonSlaves : tables'[t].clients = tables[t].clients
    BY <1>a, <2>1 DEF Repository
  <2> SUFFICES ASSUME NEW t \in PythonSlaves, NEW c \in creating'[t], Has(tables'[t], c.id)
               PROVE  \E k \in (known[t] \cup advancing[t]) \ Seen(t, c) :
                         Inserts(k) /\ log[k].id = c.id
    BY <2>2 DEF OverwritesOnlyInARace, Inserts, Seen
  <2>5. Has(tables[t], c.id)
    BY <2>4 DEF Has
  <2>6. CASE c \in creating[t]
    BY <2>5, <2>6 DEF OverwritesOnlyInARace
  <2>7. CASE t = s /\ c = new
    <3>1. \E k \in advancing[s] : log[k].id = c.id
      BY <1>a, <2>0, <2>1, <2>3, <2>5, <2>7 DEF Counters, CountersCoverRows
    <3>2. \A k \in advancing[s] : Inserts(k) /\ k \notin known[s]
      BY DEF Travels
    <3>3. \A k \in advancing[s] : k \notin Seen(s, c)
      BY <2>3, <2>7, <3>2 DEF Seen
    <3> QED
      BY <2>7, <3>1, <3>2, <3>3
  <2> QED
    BY <2>2, <2>6, <2>7 DEF TypeOK
<1>6. ASSUME NEW s \in PythonSlaves, NEW c \in creating[s], StoreClient(s, c)
      PROVE  OverwritesOnlyInARace'
  <2>1. /\ tables[s] \in Repository
        /\ c.id \in IDs
        /\ c.client \in Client
        /\ Adds(s, [from |-> s, operation |-> "insert", id |-> c.id,
                    client |-> c.client, knew |-> Seen(s, c)], Len(log) + 1)
    BY <1>6, Stores
  <2>2. /\ tables' = [tables EXCEPT ![s] = Stored(tables[s], c.id, c.client)]
        /\ creating' = [creating EXCEPT ![s] = creating[s] \ {c}]
        /\ advancing' = advancing
    BY <1>6 DEF StoreClient
  <2>3. \A i \in IDs : Has(Stored(tables[s], c.id, c.client), i) => Has(tables[s], i) \/ i = c.id
    BY <2>1, StoredType DEF Has
  <2>4. \A t \in PythonSlaves : \A d \in creating'[t] :
            d \in creating[t] /\ (t = s => d.id # c.id)
    BY <2>2 DEF TypeOK, Counters
  <2>5. \A t \in PythonSlaves : \A d \in creating'[t] :
            d \in creating[t] /\ (Has(tables'[t], d.id) => Has(tables[t], d.id))
    BY <1>a, <2>2, <2>3, <2>4
  <2> QED
    BY <1>a, <2>1, <2>2, <2>5, AddsOverwrites
<1>7. ASSUME NEW s \in Slaves, NEW k \in inflight[s], Deliver(s, k) PROVE OverwritesOnlyInARace'
  <2>1. /\ s \in Nodes
        /\ k \in DOMAIN log
        /\ log[k] \in Payload
        /\ log[k].from # s
        /\ k \notin known[s]
    BY DEF TypeOK, Nodes, Travels
  <2>2. /\ UNCHANGED <<creating, log>>
        /\ tables' = [tables EXCEPT ![s] = Applied(s, log[k])]
    BY <1>7 DEF Deliver
  <2>3. \A i \in IDs : Has(Applied(s, log[k]), i) =>
            Has(tables[s], i) \/ (i = log[k].id /\ Inserts(k))
    BY <2>1, AppliedRows DEF Inserts
  <2>4. \A t \in PythonSlaves :
            /\ known[t] \cup advancing[t] \subseteq known'[t] \cup advancing'[t]
            /\ known'[t] \subseteq known[t] \cup (IF t = s THEN {k} ELSE {})
            /\ t = s /\ Inserts(k) => k \in advancing'[t]
    BY <1>a, <1>7, <2>1 DEF Deliver, Unfinished, Inserts, TypeOK
  <2>5. \A t \in PythonSlaves : \A c \in creating[t] : Seen(t, c)' \subseteq Seen(t, c)
    BY <2>1, <2>2, <2>4 DEF Seen
  <2> SUFFICES ASSUME NEW t \in PythonSlaves, NEW c \in creating[t], Has(tables'[t], c.id)
               PROVE  \E j \in (known'[t] \cup advancing'[t]) \ Seen(t, c)' :
                         Inserts(j) /\ log[j].id = c.id
    BY <2>2 DEF OverwritesOnlyInARace, Inserts
  <2>6. CASE Has(tables[t], c.id)
    <3>1. \E j \in (known[t] \cup advancing[t]) \ Seen(t, c) : Inserts(j) /\ log[j].id = c.id
      BY <2>6 DEF OverwritesOnlyInARace
    <3> QED
      BY <2>4, <2>5, <3>1
  <2>7. CASE ~ Has(tables[t], c.id)
    <3>1. t = s /\ c.id = log[k].id /\ Inserts(k)
      BY <1>a, <2>2, <2>3, <2>7
    <3>2. k \in advancing'[t]
      BY <2>4, <3>1
    <3>3. k \notin Seen(t, c)
      BY <2>1, <3>1 DEF Seen, Travels
    <3> QED
      BY <2>5, <3>1, <3>2, <3>3
  <2> QED
    BY <2>6, <2>7
<1>8. ASSUME NEW s \in PythonSlaves, NEW k \in advancing[s], MoveCounter(s, k)
      PROVE  OverwritesOnlyInARace'
  <2>1. /\ UNCHANGED <<creating, log>>
        /\ tables' = [tables EXCEPT ![s] = CounterMoved(tables[s], log[k].id)]
        /\ CounterMoved(tables[s], log[k].id).clients = tables[s].clients
    BY <1>8, Moves DEF MoveCounter
  <2>2. \A t \in PythonSlaves : tables'[t].clients = tables[t].clients
    BY <1>a, <2>1
  <2>3. \A t \in PythonSlaves :
            /\ known[t] \cup advancing[t] \subseteq known'[t] \cup advancing'[t]
            /\ known'[t] \subseteq known[t] \cup (IF t = s THEN {k} ELSE {})
    BY <1>a, <1>8 DEF MoveCounter, TypeOK
  <2>4. log[k].from # s
    BY DEF Travels
  <2>5. \A t \in PythonSlaves : \A c \in creating[t] : Seen(t, c)' \subseteq Seen(t, c)
    BY <2>1, <2>3, <2>4 DEF Seen
  <2> QED
    BY <2>1, <2>2, <2>3, <2>5, KeepsExplanation DEF Has, Inserts
<1>9. ASSUME NEW s \in Slaves, NEW k \in inflight[s], Lose(s, k) PROVE OverwritesOnlyInARace'
  BY <1>9 DEF Lose, OverwritesOnlyInARace, Inserts, Seen
<1>10. ASSUME NEW n \in Nodes, Restart(n) PROVE OverwritesOnlyInARace'
  <2>1. \A s \in PythonSlaves :
            IF s = n
            THEN creating'[s] = {}
            ELSE /\ tables'[s] = tables[s]
                 /\ creating'[s] = creating[s]
                 /\ advancing'[s] = advancing[s]
                 /\ known'[s] = known[s]
    BY <1>a, <1>10 DEF Restart, TypeOK
  <2>2. log' = log
    BY <1>10 DEF Restart
  <2> QED
    BY <2>1, <2>2 DEF OverwritesOnlyInARace, Inserts, Seen
<1> QED
  BY <1>1, <1>2, <1>3, <1>4, <1>5, <1>6, <1>7, <1>8, <1>9, <1>10 DEF Next

\* A create of app.py takes a row's place only in the race of the two locks.
THEOREM OverwritesOnlyInARaceAlways == Spec => []OverwritesOnlyInARace
<1>1. Init => OverwritesOnlyInARace
  BY DEF Init, OverwritesOnlyInARace
<1> QED
  BY <1>1, StepOverwrites, CountersAlways, PTL DEF Spec

-----------------------------------------------------------------------------
(***************************************************************************)
(* Rows come from writes, stay, and on a Go node pass its binding.         *)
(***************************************************************************)
\* The ID of an insert that a node has handled is taken until it handles a delete.
IDsStayTaken ==
    \A n \in Nodes : \A k \in Handled(n) :
        Inserts(k) /\ Valid(n, log[k].client) =>
            \/ Has(tables[n], log[k].id)
            \/ \E d \in Handled(n) : log[d].operation = "delete" /\ log[d].id = log[k].id

RowsValid == \A n \in GoNodes, i \in IDs : Has(tables[n], i) => Valid(n, tables[n].clients[i])

Rows == RowsWereWritten /\ IDsStayTaken /\ RowsValid

\* A node performs or handles the payload at place k, which may be a new one.
Handles(n, k, repo) ==
    /\ \A j \in DOMAIN log : log'[j] = log[j]
    /\ DOMAIN log \subseteq DOMAIN log'
    /\ k \in DOMAIN log'
    /\ log'[k] \in Payload
    /\ tables' = [tables EXCEPT ![n] = repo]
    /\ Handled(n)' = Handled(n) \cup {k}
    /\ \A m \in Nodes \ {n} : Handled(m)' = Handled(m)
    /\ \A i \in IDs : \/ repo.clients[i] = tables[n].clients[i]
                      \/ /\ i = log'[k].id
                         /\ log'[k].operation # "delete"
                         /\ repo.clients[i] = log'[k].client
                         /\ Valid(n, log'[k].client)
                      \/ /\ i = log'[k].id
                         /\ log'[k].operation = "delete"
                         /\ repo.clients[i] = NoClient
    /\ log'[k].operation = "insert" /\ Valid(n, log'[k].client) => Has(repo, log'[k].id)

LEMMA HandledIsLogged ==
  ASSUME TypeOK, NEW n \in Nodes PROVE Handled(n) \subseteq DOMAIN log
  BY DEF TypeOK, Handled

LEMMA HandlesRows ==
  ASSUME TypeOK, Rows, NEW n \in Nodes, NEW k, NEW repo, Handles(n, k, repo) PROVE Rows'
<1>1. /\ \A j \in DOMAIN log : log'[j] = log[j] /\ (Inserts(j)' <=> Inserts(j))
      /\ \A m \in Nodes : Handled(m) \subseteq Handled(m)' /\ Handled(m) \subseteq DOMAIN log
      /\ \A m \in Nodes : tables'[m] = IF m = n THEN repo ELSE tables[m]
      /\ log'[k].client # NoClient
      /\ \A m \in GoNodes : m \in Nodes
  BY HandledIsLogged, NoClientAssumption
  DEF Handles, Inserts, TypeOK, Payload, GoNodes, Nodes, Slaves
<1>2. RowsWereWritten'
  <2> SUFFICES ASSUME NEW m \in Nodes, NEW i \in IDs, Has(tables'[m], i)
               PROVE  \E j \in Handled(m)' : /\ log'[j].id = i
                                             /\ log'[j].operation # "delete"
                                             /\ log'[j].client = tables'[m].clients[i]
    BY DEF RowsWereWritten
  <2>1. CASE tables'[m].clients[i] = tables[m].clients[i]
    <3>1. \E j \in Handled(m) : /\ log[j].id = i
                                /\ log[j].operation # "delete"
                                /\ log[j].client = tables[m].clients[i]
      BY <2>1 DEF Has, Rows, RowsWereWritten
    <3> QED
      BY <1>1, <2>1, <3>1
  <2>2. CASE tables'[m].clients[i] # tables[m].clients[i]
    <3>1. m = n /\ tables'[m] = repo /\ repo.clients[i] # NoClient
      BY <1>1, <2>2 DEF Has
    <3>2. /\ i = log'[k].id
          /\ log'[k].operation # "delete"
          /\ repo.clients[i] = log'[k].client
      BY <2>2, <3>1 DEF Handles
    <3>3. k \in Handled(m)'
      BY <3>1 DEF Handles
    <3> QED
      BY <3>1, <3>2, <3>3
  <2> QED
    BY <2>1, <2>2
<1>3. IDsStayTaken'
  <2> SUFFICES ASSUME NEW m \in Nodes, NEW j \in Handled(m)', Inserts(j)',
                      Valid(m, log'[j].client)
               PROVE  \/ Has(tables'[m], log'[j].id)
                      \/ \E d \in Handled(m)' : /\ log'[d].operation = "delete"
                                                /\ log'[d].id = log'[j].id
    BY DEF IDsStayTaken
  <2> DEFINE Gone == \E d \in Handled(m)' : log'[d].operation = "delete" /\ log'[d].id = log'[j].id
  <2>1. CASE j \in Handled(m)
    <3>1. j \in DOMAIN log /\ log'[j] = log[j] /\ Inserts(j)
      BY <1>1, <2>1
    <3>2. \/ Has(tables[m], log[j].id)
          \/ \E d \in Handled(m) : log[d].operation = "delete" /\ log[d].id = log[j].id
      BY <2>1, <3>1 DEF Rows, IDsStayTaken
    <3>3. CASE Has(tables[m], log[j].id)
      <4>0. log[j] \in Payload
        BY <3>1 DEF TypeOK
      <4>1. log[j].id \in IDs
        BY <4>0 DEF Payload
      <4>2. CASE tables'[m].clients[log[j].id] = tables[m].clients[log[j].id]
        BY <3>1, <3>3, <4>2 DEF Has
      <4>3. CASE tables'[m].clients[log[j].id] # tables[m].clients[log[j].id]
        <5>1. m = n /\ tables'[m] = repo
          BY <1>1, <4>3
        <5>2. CASE repo.clients[log[j].id] = log'[k].client
          BY <1>1, <3>1, <5>1, <5>2 DEF Has
        <5>3. CASE log[j].id = log'[k].id /\ log'[k].operation = "delete"
          BY <3>1, <5>1, <5>3 DEF Handles
        <5> QED
          BY <4>1, <4>3, <5>1, <5>2, <5>3 DEF Handles
      <4> QED
        BY <4>2, <4>3
    <3>4. CASE \E d \in Handled(m) : log[d].operation = "delete" /\ log[d].id = log[j].id
      BY <1>1, <3>1, <3>4
    <3> QED
      BY <3>2, <3>3, <3>4
  <2>2. CASE j \notin Handled(m)
    <3>1. m = n /\ j = k
      BY <2>2 DEF Handles
    <3> QED
      BY <1>1, <3>1 DEF Handles, Inserts
  <2> QED
    BY <2>1, <2>2
<1>4. RowsValid'
  <2> SUFFICES ASSUME NEW m \in GoNodes, NEW i \in IDs, Has(tables'[m], i)
               PROVE  Valid(m, tables'[m].clients[i])
    BY DEF RowsValid
  <2>1. CASE tables'[m].clients[i] = tables[m].clients[i]
    BY <2>1 DEF Has, Rows, RowsValid
  <2>2. CASE tables'[m].clients[i] # tables[m].clients[i]
    BY <1>1, <2>2 DEF Has, Handles
  <2> QED
    BY <2>1, <2>2
<1> QED
  BY <1>2, <1>3, <1>4 DEF Rows

\* A step that leaves the rows, and what has been handled, as they are.
LEMMA SameRows ==
  ASSUME TypeOK, Rows, log' = log,
         \A n \in Nodes : tables'[n].clients = tables[n].clients /\ Handled(n)' = Handled(n)
  PROVE  Rows'
<1>1. \A n \in GoNodes : n \in Nodes
  BY DEF GoNodes, Nodes, Slaves
<1> QED
  BY <1>1 DEF Rows, RowsWereWritten, IDsStayTaken, RowsValid, Has, Inserts

LEMMA AddsHandles ==
  ASSUME TypeOK, NEW n \in Nodes, NEW p, NEW k, Adds(n, p, k), advancing' = advancing
  PROVE  /\ \A j \in DOMAIN log : log'[j] = log[j]
         /\ DOMAIN log \subseteq DOMAIN log'
         /\ k \in DOMAIN log'
         /\ log'[k] = p
         /\ p \in Payload
         /\ Handled(n)' = Handled(n) \cup {k}
         /\ \A m \in Nodes \ {n} : Handled(m)' = Handled(m)
<1>1. known' = [known EXCEPT ![n] = known[n] \cup {k}]
  BY DEF Adds
<1>2. Handled(n)' = Handled(n) \cup {k}
  BY <1>1 DEF Handled, TypeOK
<1>3. \A m \in Nodes \ {n} : Handled(m)' = Handled(m)
  BY <1>1 DEF Handled, TypeOK
<1> QED
  BY <1>2, <1>3 DEF Adds

LEMMA InitRows == Init => Rows
  BY DEF Init, Rows, RowsWereWritten, IDsStayTaken, RowsValid, Has, NewClientRepository, Handled,
         GoNodes, Nodes, Slaves

LEMMA StepRows == TypeOK /\ Travels /\ Rows /\ [Next]_vars => Rows'
<1> SUFFICES ASSUME TypeOK, Travels, Rows, [Next]_vars PROVE Rows'
  OBVIOUS
<1>a. /\ \A s \in Slaves : s \in Nodes
      /\ \A s \in PythonSlaves : s \in Nodes /\ s \in Slaves /\ s \notin GoNodes
      /\ tables \in [Nodes -> Repository]
  BY ClusterAssumption DEF Nodes, Slaves, GoNodes, TypeOK
<1>1. CASE UNCHANGED vars
  BY <1>1, SameRows DEF vars, Handled
<1>2. ASSUME NEW n \in Nodes, NEW client \in Client, CreateClient(n, client) PROVE Rows'
  <2> DEFINE p == [from |-> n, operation |-> "insert", id |-> tables[n].nextID,
                   client |-> client, knew |-> known[n]]
  <2> DEFINE repo == Inserted(tables[n], tables[n].nextID, client)
  <2>1. /\ tables[n] \in Repository
        /\ tables[n].nextID \in IDs
        /\ Adds(n, p, Len(log) + 1)
    BY <1>2, Creates
  <2>2. advancing' = advancing /\ Valid(n, client)
    BY <1>2 DEF CreateClient
  <2>3. tables' = [tables EXCEPT ![n] = repo]
    BY <1>2, <2>1, CreatedType DEF CreateClient
  <2>4. \A i \in IDs : repo.clients[i] = IF i = p.id THEN p.client ELSE tables[n].clients[i]
    BY <2>1, InsertedType
  <2>5. p.operation = "insert" /\ p.client = client /\ p.id \in IDs
    BY <2>1
  <2> HIDE DEF p, repo
  <2>6. Has(repo, p.id)
    BY <2>4, <2>5, NoClientAssumption DEF Has
  <2>7. Handles(n, Len(log) + 1, repo)
    BY <2>1, <2>2, <2>3, <2>4, <2>5, <2>6, AddsHandles DEF Handles
  <2> QED
    BY <2>7, HandlesRows
<1>3. ASSUME NEW n \in Nodes, NEW id \in IDs, NEW client \in Client,
             UpdateClient(n, id, client)
      PROVE  Rows'
  <2> DEFINE p == [from |-> n, operation |-> "update", id |-> id,
                   client |-> client, knew |-> known[n]]
  <2> DEFINE repo == Stored(tables[n], id, client)
  <2>1. tables[n] \in Repository /\ Adds(n, p, Len(log) + 1)
    BY <1>3, Updates
  <2>2. /\ tables' = [tables EXCEPT ![n] = repo]
        /\ advancing' = advancing
        /\ Valid(n, client)
    BY <1>3 DEF UpdateClient, MayUpdate
  <2>3. \A i \in IDs : repo.clients[i] = IF i = p.id THEN p.client ELSE tables[n].clients[i]
    BY <2>1, StoredType
  <2>4. p.operation = "update" /\ p.client = client
    OBVIOUS
  <2> HIDE DEF p, repo
  <2>5. Handles(n, Len(log) + 1, repo)
    BY <2>1, <2>2, <2>3, <2>4, AddsHandles DEF Handles
  <2> QED
    BY <2>5, HandlesRows
<1>4. ASSUME NEW n \in Nodes, NEW id \in IDs, DeleteClient(n, id) PROVE Rows'
  <2> DEFINE p == [from |-> n, operation |-> "delete", id |-> id,
                   client |-> tables[n].clients[id], knew |-> known[n]]
  <2> DEFINE repo == Deleted(tables[n], id)
  <2>1. tables[n] \in Repository /\ Adds(n, p, Len(log) + 1)
    BY <1>4, Deletes
  <2>2. /\ tables' = [tables EXCEPT ![n] = repo]
        /\ advancing' = advancing
    BY <1>4 DEF DeleteClient
  <2>3. \A i \in IDs : repo.clients[i] = IF i = p.id THEN NoClient ELSE tables[n].clients[i]
    BY <2>1, DeletedType
  <2>4. p.operation = "delete"
    OBVIOUS
  <2> HIDE DEF p, repo
  <2>5. Handles(n, Len(log) + 1, repo)
    BY <2>1, <2>2, <2>3, <2>4, AddsHandles DEF Handles
  <2> QED
    BY <2>5, HandlesRows
<1>5. ASSUME NEW s \in PythonSlaves, NEW client \in Client, TakeID(s, client) PROVE Rows'
  <2>1. tables' = [tables EXCEPT ![s] = [tables[s] EXCEPT !.nextID = @ + 1]]
    BY <1>5, Takes
  <2>2. \A n \in Nodes : tables'[n].clients = tables[n].clients
    BY <1>a, <2>1 DEF Repository
  <2>3. UNCHANGED <<log, known, advancing>>
    BY <1>5 DEF TakeID
  <2> QED
    BY <2>2, <2>3, SameRows DEF Handled
<1>6. ASSUME NEW s \in PythonSlaves, NEW c \in creating[s], StoreClient(s, c) PROVE Rows'
  <2> DEFINE p == [from |-> s, operation |-> "insert", id |-> c.id,
                   client |-> c.client, knew |-> Seen(s, c)]
  <2> DEFINE repo == Stored(tables[s], c.id, c.client)
  <2>1. /\ tables[s] \in Repository
        /\ c.id \in IDs
        /\ c.client \in Client
        /\ Adds(s, p, Len(log) + 1)
    BY <1>6, Stores
  <2>2. /\ tables' = [tables EXCEPT ![s] = repo]
        /\ advancing' = advancing
    BY <1>6 DEF StoreClient
  <2>3. \A i \in IDs : repo.clients[i] = IF i = p.id THEN p.client ELSE tables[s].clients[i]
    BY <2>1, StoredType
  <2>4. p.operation = "insert" /\ p.client \in Client /\ p.id \in IDs
    BY <2>1
  <2> HIDE DEF p, repo
  <2>5. Valid(s, p.client)
    BY <1>a DEF Valid
  <2>6. Has(repo, p.id)
    BY <2>3, <2>4, NoClientAssumption DEF Has
  <2>7. Handles(s, Len(log) + 1, repo)
    BY <1>a, <2>1, <2>2, <2>3, <2>4, <2>5, <2>6, AddsHandles DEF Handles
  <2> QED
    BY <1>a, <2>7, HandlesRows
<1>7. ASSUME NEW s \in Slaves, NEW k \in inflight[s], Deliver(s, k) PROVE Rows'
  <2> DEFINE repo == Applied(s, log[k])
  <2>1. /\ s \in Nodes
        /\ k \in DOMAIN log
        /\ log[k] \in Payload
        /\ tables[s] \in Repository
    BY DEF TypeOK, Nodes
  <2>2. log' = log /\ tables' = [tables EXCEPT ![s] = repo]
    BY <1>7 DEF Deliver
  <2>3. /\ log[k].operation = "insert" /\ Valid(s, log[k].client) =>
              repo.clients[log[k].id] = log[k].client
        /\ \A i \in IDs :
              \/ repo.clients[i] = tables[s].clients[i]
              \/ i = log[k].id /\ log[k].operation # "delete" /\ repo.clients[i] = log[k].client
              \/ i = log[k].id /\ log[k].operation = "delete" /\ repo.clients[i] = NoClient
    BY <2>1, AppliedRows
  <2>4. Valid(s, log[k].client) \/ repo = tables[s]
    BY DEF Applied, Accepts
  <2> HIDE DEF repo
  <2>5. \A i \in IDs :
            \/ repo.clients[i] = tables[s].clients[i]
            \/ /\ i = log[k].id
               /\ log[k].operation # "delete"
               /\ repo.clients[i] = log[k].client
               /\ Valid(s, log[k].client)
            \/ i = log[k].id /\ log[k].operation = "delete" /\ repo.clients[i] = NoClient
    BY <2>3, <2>4
  <2>6. log[k].client # NoClient
    BY <2>1, NoClientAssumption DEF Payload
  <2>7. Handled(s)' = Handled(s) \cup {k}
    BY <1>7, <2>1, ClusterAssumption DEF Deliver, Handled, Unfinished, TypeOK
  <2>8. \A m \in Nodes \ {s} : Handled(m)' = Handled(m)
    BY <1>7 DEF Deliver, Handled, TypeOK
  <2>9. Handles(s, k, repo)
    BY <2>1, <2>2, <2>3, <2>5, <2>6, <2>7, <2>8 DEF Handles, Has
  <2> QED
    BY <2>1, <2>9, HandlesRows
<1>8. ASSUME NEW s \in PythonSlaves, NEW k \in advancing[s], MoveCounter(s, k) PROVE Rows'
  <2>1. /\ tables' = [tables EXCEPT ![s] = CounterMoved(tables[s], log[k].id)]
        /\ CounterMoved(tables[s], log[k].id).clients = tables[s].clients
    BY <1>8, Moves
  <2>2. \A n \in Nodes : tables'[n].clients = tables[n].clients
    BY <1>a, <2>1
  <2>3. log' = log /\ \A n \in Nodes : Handled(n)' = Handled(n)
    BY <1>a, <1>8 DEF MoveCounter, Handled, TypeOK
  <2> QED
    BY <2>2, <2>3, SameRows
<1>9. ASSUME NEW s \in Slaves, NEW k \in inflight[s], Lose(s, k) PROVE Rows'
  BY <1>9, SameRows DEF Lose, Handled
<1>10. ASSUME NEW n \in Nodes, Restart(n) PROVE Rows'
  <2>1. /\ log' = log
        /\ tables'[n] = NewClientRepository
        /\ Handled(n)' = {}
        /\ \A m \in Nodes \ {n} : tables'[m] = tables[m] /\ Handled(m)' = Handled(m)
    BY <1>10 DEF Restart, Handled, TypeOK
  <2>2. \A i \in IDs : ~ Has(NewClientRepository, i)
    BY DEF Has, NewClientRepository
  <2>3. \A m \in GoNodes : m \in Nodes
    BY DEF GoNodes, Nodes, Slaves
  <2> QED
    BY <2>1, <2>2, <2>3 DEF Rows, RowsWereWritten, IDsStayTaken, RowsValid, Inserts
<1> QED
  BY <1>1, <1>2, <1>3, <1>4, <1>5, <1>6, <1>7, <1>8, <1>9, <1>10 DEF Next

LEMMA RowsAlways == Spec => []Rows
  BY InitRows, StepRows, CountersAlways, PTL DEF Spec

\* Every row of every table was written by somebody acting as master, under its ID.
THEOREM RowsWereWrittenAlways == Spec => []RowsWereWritten
<1>1. Rows => RowsWereWritten
  BY DEF Rows
<1> QED
  BY <1>1, RowsAlways, PTL

\* A client leaves the table of a node that handled its insert only by a delete,
\* and gives its place only to an update of its ID or to a client that collides
\* with it.  The row was written by somebody; if by an insert, then IDsAreFresh
\* says that neither of the two writers knew of the other's.
THEOREM ClientsStayAlways == Spec => []ClientsStay
<1>1. TypeOK /\ Rows /\ IDsAreFresh => ClientsStay
  <2> SUFFICES ASSUME TypeOK, Rows, IDsAreFresh, NEW n \in Nodes, NEW k \in Handled(n),
                      Inserts(k), Valid(n, log[k].client)
               PROVE  IF Has(tables[n], log[k].id)
                      THEN \E w \in Handled(n) :
                              /\ w = k \/ log[w].operation = "update" \/ Collide(w, k)
                              /\ log[w].id = log[k].id
                              /\ log[w].client = tables[n].clients[log[k].id]
                      ELSE \E d \in Handled(n) : /\ log[d].operation = "delete"
                                                /\ log[d].id = log[k].id
    BY DEF ClientsStay
  <2>1. CASE ~ Has(tables[n], log[k].id)
    BY <2>1 DEF Rows, IDsStayTaken
  <2>2. CASE Has(tables[n], log[k].id)
    <3>1. k \in DOMAIN log /\ log[k].id \in IDs
      <4>1. k \in DOMAIN log
        BY DEF Inserts
      <4>2. log[k] \in Payload
        BY <4>1 DEF TypeOK
      <4> QED
        BY <4>1, <4>2 DEF Payload
    <3>2. PICK w \in Handled(n) : /\ log[w].id = log[k].id
                                  /\ log[w].operation # "delete"
                                  /\ log[w].client = tables[n].clients[log[k].id]
      BY <2>2, <3>1 DEF Rows, RowsWereWritten
    <3>3. w \in DOMAIN log
      BY HandledIsLogged
    <3>4. log[w].operation = "update" \/ Inserts(w)
      <4>1. log[w] \in Payload
        BY <3>3 DEF TypeOK
      <4> QED
        BY <3>2, <3>3, <4>1 DEF Payload, Inserts
    <3>5. ASSUME Inserts(w), w # k
          PROVE  Collide(w, k)
      <4>1. Unaware(w, k)
        BY <3>1, <3>2, <3>3, <3>5 DEF IDsAreFresh, Unaware
      <4>2. Unaware(k, w)
        BY <3>1, <3>2, <3>3, <3>5 DEF IDsAreFresh, Unaware
      <4> QED
        BY <3>2, <3>5, <4>1, <4>2 DEF Collide
    <3> QED
      BY <2>2, <3>2, <3>4, <3>5
  <2> QED
    BY <2>1, <2>2
<1> QED
  BY <1>1, RowsAlways, ClusterTypeCorrect, IDsAreFreshAlways, PTL

-----------------------------------------------------------------------------
(***************************************************************************)
(* One write at a time, by Go nodes that have all earlier ones.  Then only *)
(* the last payload is ever on its way, and there are two tables: the one  *)
(* with all payloads, and the one without the last.  A node that missed    *)
(* nothing has one of them, or in app.py the rows of the one and the       *)
(* counter of the other.                                                   *)
(***************************************************************************)
Orderly == ~ overlapped /\ ~ outOfStep

OnlyTheLast ==
    /\ \A s \in Slaves : inflight[s] \subseteq {Len(log)}
    /\ \A s \in PythonSlaves : creating[s] = {} /\ advancing[s] \subseteq {Len(log)}

Performed(repo, p) ==
    IF p.operation = "delete" THEN Deleted(repo, p.id)
    ELSE IF p.operation = "insert" THEN Inserted(repo, p.id, p.client)
    ELSE Stored(repo, p.id, p.client)

\* Every node whose table this is accepts the payload.
Fits(repo, p) ==
    /\ p.client.details \notin BadEmails
    /\ p.operation # "insert" => Has(repo, p.id)
    /\ p.operation = "update" => CanUpdate(repo, p.id, p.client)

LacksTheLast(n) == known[n] = DOMAIN log \ {Len(log)}

TwoTables(previous, latest) ==
    /\ Len(log) = 0 => latest = NewClientRepository
    /\ Len(log) = 1 => previous = NewClientRepository
    /\ Len(log) > 0 => /\ latest = Performed(previous, log[Len(log)])
                       /\ Fits(previous, log[Len(log)])
    /\ \A n \in Nodes : UpToDate(n) => tables[n] = latest
    /\ \A s \in Slaves : Len(log) \in inflight[s] /\ LacksTheLast(s) => tables[s] = previous
    /\ \A s \in PythonSlaves : Len(log) \in advancing[s] /\ LacksTheLast(s) =>
          tables[s] = [clients |-> latest.clients, nextID |-> previous.nextID]

Serial ==
    Orderly => /\ OnlyTheLast
               /\ \E previous, latest \in Repository : TwoTables(previous, latest)

\* A Go slave and a Python slave make of a payload that fits what its sender did.
LEMMA FittingIsPerformed ==
  ASSUME NEW s \in Slaves, NEW p \in Payload, Fits(tables[s], p)
  PROVE  /\ s \in GoSlaves \/ p.operation # "insert" =>
               Applied(s, p) = Performed(tables[s], p)
         /\ s \in PythonSlaves /\ p.operation = "insert" =>
               Applied(s, p) = Stored(tables[s], p.id, p.client)
<1>1. p.operation \in {"insert", "update", "delete"}
  BY DEF Payload
<1>2. Accepts(s, p)
  BY DEF Accepts, Fits, Valid, MayUpdate
<1>3. s \in PythonSlaves => s \notin GoSlaves
  BY ClusterAssumption
<1> QED
  BY <1>1, <1>2, <1>3 DEF Applied, Performed, Slaves

\* The two halves of insert_client are an insert.
LEMMA TwoHalves ==
  ASSUME NEW repo \in Repository, NEW id \in IDs, NEW client \in Client
  PROVE  /\ Stored(repo, id, client) = [clients |-> Inserted(repo, id, client).clients,
                                        nextID  |-> repo.nextID]
         /\ CounterMoved([clients |-> Inserted(repo, id, client).clients,
                          nextID  |-> repo.nextID], id) = Inserted(repo, id, client)
  BY DEF Stored, Inserted, CounterMoved, Repository

LEMMA PerformedType ==
  ASSUME NEW repo \in Repository, NEW p \in Payload PROVE Performed(repo, p) \in Repository
<1>1. p.id \in IDs /\ p.client \in Client
  BY DEF Payload
<1> QED
  BY <1>1, StoredType, DeletedType, InsertedType DEF Performed

\* A write begun in good order finds nothing on its way and the latest table.
LEMMA AddsSerial ==
  ASSUME TypeOK, Serial, Orderly', NEW n \in GoNodes, Begin(n), NEW p, NEW k,
         k = Len(log) + 1, Adds(n, p, k), Len(log') = k,
         tables' = [tables EXCEPT ![n] = Performed(tables[n], p)], Fits(tables[n], p),
         creating' = creating, advancing' = advancing
  PROVE  Serial'
<1>1. /\ Orderly
      /\ Quiet
      /\ known[n] = DOMAIN log
      /\ n \in Nodes
  BY DEF Orderly, Begin, GoNodes, Nodes, Slaves
<1>2. PICK previous \in Repository, latest \in Repository : TwoTables(previous, latest)
  BY <1>1 DEF Serial
<1>3. tables[n] = latest
  BY <1>1, <1>2 DEF TwoTables, UpToDate
<1>4. /\ Len(log) \in Nat
      /\ DOMAIN log = 1 .. Len(log)
      /\ k \notin DOMAIN log
      /\ k > 0
  BY DEF TypeOK
<1>5. Performed(latest, p) \in Repository
  BY PerformedType DEF Adds
<1>6. OnlyTheLast'
  BY <1>1 DEF OnlyTheLast, Quiet, Adds
<1>7. \A m \in Nodes : /\ known[m] \subseteq DOMAIN log
                       /\ known'[m] = IF m = n THEN known[m] \cup {k} ELSE known[m]
                       /\ tables'[m] = IF m = n THEN Performed(latest, p) ELSE tables[m]
  BY <1>3 DEF TypeOK, Adds
<1>8. DOMAIN log' = DOMAIN log \cup {k} /\ log'[k] = p
  BY DEF Adds
<1>9. \A m \in Nodes : UpToDate(m)' => tables'[m] = Performed(latest, p)
  BY <1>4, <1>7, <1>8 DEF UpToDate
<1>10. ASSUME NEW s \in Slaves, k \in inflight'[s], LacksTheLast(s)'
       PROVE  tables'[s] = latest
  <2>0. s \in Nodes /\ s # n
    BY <1>1, <1>10 DEF Nodes, Adds, Quiet
  <2>1. s \in Nodes /\ s # n /\ known[s] = DOMAIN log
    BY <1>4, <1>7, <1>8, <1>10, <2>0 DEF LacksTheLast
  <2> QED
    BY <1>2, <1>7, <2>1 DEF TwoTables, UpToDate
<1>11. \A s \in PythonSlaves : advancing'[s] = {}
  BY <1>1 DEF Quiet
<1>12. /\ Len(log') = 0 => Performed(latest, p) = NewClientRepository
       /\ Len(log') = 1 => latest = NewClientRepository
  BY <1>2, <1>4 DEF TwoTables
<1>13. Fits(latest, p)
  BY <1>3
<1>14. TwoTables(latest, Performed(latest, p))'
  BY <1>8, <1>9, <1>10, <1>11, <1>12, <1>13 DEF TwoTables
<1> QED
  BY <1>2, <1>5, <1>6, <1>14 DEF Serial

LEMMA InitSerial == Init => Serial
<1> SUFFICES ASSUME Init PROVE Serial
  OBVIOUS
<1>1. OnlyTheLast
  BY DEF Init, OnlyTheLast
<1>2. /\ Len(log) = 0
      /\ \A n \in Nodes : tables[n] = NewClientRepository
      /\ \A s \in Slaves : inflight[s] = {}
      /\ \A s \in PythonSlaves : advancing[s] = {}
  BY DEF Init
<1>3. TwoTables(NewClientRepository, NewClientRepository)
  BY <1>2 DEF TwoTables
<1> QED
  BY <1>1, <1>3, NewType DEF Serial

LEMMA StepSerial == TypeOK /\ Travels /\ Rows /\ Serial /\ [Next]_vars => Serial'
<1> SUFFICES ASSUME TypeOK, Travels, Rows, Serial, [Next]_vars, Orderly' PROVE Serial'
  BY DEF Serial
<1>a. /\ \A s \in Slaves : s \in Nodes
      /\ \A s \in PythonSlaves : s \in Nodes /\ s \in Slaves /\ s \notin GoNodes
      /\ \A n \in Nodes : n \in GoNodes \/ n \in PythonSlaves
      /\ tables \in [Nodes -> Repository]
  BY ClusterAssumption DEF Nodes, Slaves, GoNodes, TypeOK
<1>b. /\ Len(log) \in Nat
      /\ DOMAIN log = 1 .. Len(log)
      /\ \A s \in Slaves : inflight[s] \subseteq DOMAIN log
      /\ \A s \in PythonSlaves : advancing[s] \subseteq DOMAIN log
  BY DEF TypeOK
<1>1. CASE UNCHANGED vars
  <2>1. UNCHANGED <<tables, creating, advancing, log, inflight, known, overlapped, outOfStep>>
    BY <1>1 DEF vars
  <2>2. OnlyTheLast' <=> OnlyTheLast
    BY <2>1 DEF OnlyTheLast
  <2>3. \A previous, latest : TwoTables(previous, latest)' <=> TwoTables(previous, latest)
    BY <2>1 DEF TwoTables, UpToDate, LacksTheLast
  <2> QED
    BY <2>1, <2>2, <2>3 DEF Serial, Orderly
<1>2. ASSUME NEW n \in Nodes, NEW client \in Client, CreateClient(n, client) PROVE Serial'
  <2> DEFINE p == [from |-> n, operation |-> "insert", id |-> tables[n].nextID,
                   client |-> client, knew |-> known[n]]
  <2>1. /\ tables[n] \in Repository
        /\ tables[n].nextID \in IDs
        /\ Adds(n, p, Len(log) + 1)
    BY <1>2, Creates
  <2>2. /\ Begin(n)
        /\ n \in GoNodes
        /\ client.details \notin BadEmails
        /\ UNCHANGED <<creating, advancing>>
    BY <1>2 DEF CreateClient, Valid
  <2>3. Performed(tables[n], p) = Inserted(tables[n], tables[n].nextID, client)
    BY DEF Performed
  <2>4. tables' = [tables EXCEPT ![n] = Performed(tables[n], p)]
    BY <1>2, <2>1, <2>3, CreatedType DEF CreateClient
  <2>5. Fits(tables[n], p)
    BY <2>2 DEF Fits
  <2>6. Len(log') = Len(log) + 1
    BY <1>2 DEF CreateClient, Replicate, TypeOK
  <2> HIDE DEF p
  <2> QED
    BY <2>1, <2>2, <2>4, <2>5, <2>6, AddsSerial
<1>3. ASSUME NEW n \in Nodes, NEW id \in IDs, NEW client \in Client,
             UpdateClient(n, id, client)
      PROVE  Serial'
  <2> DEFINE p == [from |-> n, operation |-> "update", id |-> id,
                   client |-> client, knew |-> known[n]]
  <2>1. Adds(n, p, Len(log) + 1)
    BY <1>3, Updates
  <2>2. Begin(n) /\ MayUpdate(n, id, client) /\ UNCHANGED <<creating, advancing>>
    BY <1>3 DEF UpdateClient
  <2>3. n \in GoNodes
    BY <1>a, <2>2 DEF Begin, Orderly
  <2>4. Performed(tables[n], p) = Stored(tables[n], id, client)
    BY DEF Performed
  <2>5. tables' = [tables EXCEPT ![n] = Performed(tables[n], p)]
    BY <1>3, <2>4 DEF UpdateClient
  <2>6. Fits(tables[n], p)
    BY <2>2, <2>3 DEF Fits, MayUpdate, Valid
  <2>7. Len(log') = Len(log) + 1
    BY <1>3 DEF UpdateClient, Replicate, TypeOK
  <2> HIDE DEF p
  <2> QED
    BY <2>1, <2>2, <2>3, <2>5, <2>6, <2>7, AddsSerial
<1>4. ASSUME NEW n \in Nodes, NEW id \in IDs, DeleteClient(n, id) PROVE Serial'
  <2> DEFINE p == [from |-> n, operation |-> "delete", id |-> id,
                   client |-> tables[n].clients[id], knew |-> known[n]]
  <2>1. Adds(n, p, Len(log) + 1)
    BY <1>4, Deletes
  <2>2. Begin(n) /\ Has(tables[n], id) /\ UNCHANGED <<creating, advancing>>
    BY <1>4 DEF DeleteClient
  <2>3. n \in GoNodes
    BY <1>a, <2>2 DEF Begin, Orderly
  <2>4. Performed(tables[n], p) = Deleted(tables[n], id)
    BY DEF Performed
  <2>5. tables' = [tables EXCEPT ![n] = Performed(tables[n], p)]
    BY <1>4, <2>4 DEF DeleteClient
  <2>6. Fits(tables[n], p)
    BY <2>2, <2>3 DEF Fits, Rows, RowsValid, Valid
  <2>7. Len(log') = Len(log) + 1
    BY <1>4 DEF DeleteClient, Replicate, TypeOK
  <2> HIDE DEF p
  <2> QED
    BY <2>1, <2>2, <2>3, <2>5, <2>6, <2>7, AddsSerial
<1>5. ASSUME NEW s \in PythonSlaves, NEW client \in Client, TakeID(s, client) PROVE Serial'
  BY <1>5 DEF TakeID, Begin, Orderly
<1>c. ASSUME UNCHANGED <<overlapped, outOfStep>>
      PROVE  /\ OnlyTheLast
             /\ \E previous, latest \in Repository : TwoTables(previous, latest)
  BY <1>c DEF Serial, Orderly
<1>6. ASSUME NEW s \in PythonSlaves, NEW c \in creating[s], StoreClient(s, c) PROVE Serial'
  BY <1>6, <1>c DEF StoreClient, OnlyTheLast
<1>7. ASSUME NEW s \in Slaves, NEW k \in inflight[s], Deliver(s, k) PROVE Serial'
  <2>1. /\ UNCHANGED <<log, creating, overlapped, outOfStep>>
        /\ tables' = [tables EXCEPT ![s] = Applied(s, log[k])]
        /\ inflight' = [inflight EXCEPT ![s] = inflight[s] \ {k}]
    BY <1>7 DEF Deliver
  <2>2. OnlyTheLast
    BY <1>c, <2>1
  <2>3. PICK previous \in Repository, latest \in Repository : TwoTables(previous, latest)
    BY <1>c, <2>1
  <2>4. k = Len(log) /\ k > 0 /\ log[k] \in Payload /\ k \notin known[s] /\ k \in DOMAIN log
    BY <1>b, <2>2 DEF OnlyTheLast, TypeOK, Travels
  <2>5. /\ latest = Performed(previous, log[k])
        /\ Fits(previous, log[k])
        /\ LacksTheLast(s) => tables[s] = previous
    BY <2>3, <2>4 DEF TwoTables
  <2>6. /\ \A m \in Nodes \ {s} : tables'[m] = tables[m] /\ known'[m] = known[m]
        /\ \A t \in PythonSlaves \ {s} : advancing'[t] = advancing[t]
        /\ \A t \in Slaves : inflight'[t] \subseteq inflight[t]
        /\ tables'[s] = Applied(s, log[k])
    BY <1>7, <1>a, <2>1 DEF Deliver, TypeOK
  <2>7. CASE Unfinished(s, k)
    <3>1. /\ s \in PythonSlaves
          /\ log[k].operation = "insert"
          /\ known'[s] = known[s]
          /\ advancing'[s] \subseteq {k}
      BY <1>7, <2>2, <2>4, <2>7 DEF Deliver, Unfinished, TypeOK, OnlyTheLast
    <3>2. LacksTheLast(s) => tables'[s] = [clients |-> latest.clients, nextID |-> previous.nextID]
      <4>1. log[k].id \in IDs /\ log[k].client \in Client
        BY <2>4 DEF Payload
      <4>2. latest = Inserted(previous, log[k].id, log[k].client)
        BY <2>5, <3>1 DEF Performed
      <4>3. LacksTheLast(s) => tables'[s] = Stored(previous, log[k].id, log[k].client)
        BY <2>4, <2>5, <2>6, <3>1, FittingIsPerformed
      <4> QED
        BY <4>1, <4>2, <4>3, TwoHalves
    <3>3. OnlyTheLast'
      BY <2>1, <2>2, <2>4, <2>6, <3>1 DEF OnlyTheLast
    <3>4. TwoTables(previous, latest)'
      <4>1. \A n \in Nodes : UpToDate(n)' => tables'[n] = latest
        BY <2>1, <2>3, <2>4, <2>6, <3>1 DEF TwoTables, UpToDate
      <4>2. \A t \in Slaves : Len(log) \in inflight'[t] /\ LacksTheLast(t)' => tables'[t] = previous
        <5>1. k \notin inflight'[s]
          BY <2>1 DEF TypeOK
        <5> QED
          BY <1>a, <2>1, <2>3, <2>4, <2>6, <5>1 DEF TwoTables, LacksTheLast
      <4>3. \A t \in PythonSlaves : Len(log) \in advancing'[t] /\ LacksTheLast(t)' =>
                tables'[t] = [clients |-> latest.clients, nextID |-> previous.nextID]
        BY <1>a, <2>1, <2>3, <2>6, <3>1, <3>2 DEF TwoTables, LacksTheLast
      <4> QED
        BY <2>1, <2>3, <4>1, <4>2, <4>3 DEF TwoTables
    <3> QED
      BY <3>3, <3>4 DEF Serial
  <2>8. CASE ~ Unfinished(s, k)
    <3>1. /\ advancing' = advancing
          /\ known'[s] = known[s] \cup {k}
          /\ s \in GoSlaves \/ log[k].operation # "insert"
      BY <1>7, <1>a, <2>8 DEF Deliver, Unfinished, TypeOK, Slaves
    <3>2. UpToDate(s)' => tables'[s] = latest
      <4>1. UpToDate(s)' => LacksTheLast(s)
        BY <2>1, <2>4, <3>1 DEF UpToDate, LacksTheLast
      <4>2. LacksTheLast(s) => tables'[s] = Performed(previous, log[k])
        BY <2>4, <2>5, <2>6, <3>1, FittingIsPerformed
      <4> QED
        BY <2>5, <4>1, <4>2
    <3>3. ~ LacksTheLast(s)'
      BY <2>1, <2>4, <3>1 DEF LacksTheLast
    <3>4. OnlyTheLast'
      BY <1>a, <2>1, <2>2, <2>6, <3>1 DEF OnlyTheLast
    <3>5. TwoTables(previous, latest)'
      <4>1. \A n \in Nodes : UpToDate(n)' => tables'[n] = latest
        BY <2>1, <2>3, <2>6, <3>2 DEF TwoTables, UpToDate
      <4>2. \A t \in Slaves : Len(log) \in inflight'[t] /\ LacksTheLast(t)' => tables'[t] = previous
        BY <1>a, <2>1, <2>3, <2>6, <3>3 DEF TwoTables, LacksTheLast
      <4>3. \A t \in PythonSlaves : Len(log) \in advancing[t] /\ LacksTheLast(t)' =>
                tables'[t] = [clients |-> latest.clients, nextID |-> previous.nextID]
        BY <1>a, <2>1, <2>3, <2>6, <3>3 DEF TwoTables, LacksTheLast
      <4> QED
        BY <2>1, <2>3, <3>1, <4>1, <4>2, <4>3 DEF TwoTables
    <3> QED
      BY <3>4, <3>5 DEF Serial
  <2> QED
    BY <2>7, <2>8
<1>8. ASSUME NEW s \in PythonSlaves, NEW k \in advancing[s], MoveCounter(s, k) PROVE Serial'
  <2>1. /\ UNCHANGED <<log, inflight, creating, overlapped, outOfStep>>
        /\ tables' = [tables EXCEPT ![s] = CounterMoved(tables[s], log[k].id)]
        /\ log[k] \in Payload
    BY <1>8, Moves DEF MoveCounter
  <2>2. OnlyTheLast
    BY <1>c, <2>1
  <2>3. PICK previous \in Repository, latest \in Repository : TwoTables(previous, latest)
    BY <1>c, <2>1
  <2>4. /\ k = Len(log)
        /\ k > 0
        /\ k \in DOMAIN log
        /\ k \notin known[s]
        /\ log[k].operation = "insert"
    BY <1>b, <2>2 DEF OnlyTheLast, Travels, Inserts
  <2>5. /\ latest = Inserted(previous, log[k].id, log[k].client)
        /\ LacksTheLast(s) =>
              tables[s] = [clients |-> latest.clients, nextID |-> previous.nextID]
    BY <2>3, <2>4 DEF TwoTables, Performed
  <2>6. /\ \A m \in Nodes \ {s} : tables'[m] = tables[m] /\ known'[m] = known[m]
        /\ \A t \in PythonSlaves : advancing'[t] \subseteq advancing[t]
        /\ k \notin advancing'[s]
        /\ known'[s] = known[s] \cup {k}
        /\ tables'[s] = CounterMoved(tables[s], log[k].id)
    BY <1>8, <1>a, <2>1 DEF MoveCounter, TypeOK
  <2>7. UpToDate(s)' => tables'[s] = latest
    <3>1. UpToDate(s)' => LacksTheLast(s)
      BY <2>1, <2>4, <2>6 DEF UpToDate, LacksTheLast
    <3>2. log[k].id \in IDs /\ log[k].client \in Client
      BY <2>1 DEF Payload
    <3> QED
      BY <2>5, <2>6, <3>1, <3>2, TwoHalves
  <2>8. ~ LacksTheLast(s)'
    BY <2>1, <2>4, <2>6 DEF LacksTheLast
  <2>9. OnlyTheLast'
    BY <2>1, <2>2, <2>6 DEF OnlyTheLast
  <2>10. TwoTables(previous, latest)'
    <3>1. \A n \in Nodes : UpToDate(n)' => tables'[n] = latest
      BY <2>1, <2>3, <2>6, <2>7 DEF TwoTables, UpToDate
    <3>2. \A t \in Slaves : Len(log) \in inflight[t] /\ LacksTheLast(t)' => tables'[t] = previous
      BY <1>a, <2>1, <2>3, <2>6, <2>8 DEF TwoTables, LacksTheLast
    <3>3. \A t \in PythonSlaves : Len(log) \in advancing'[t] /\ LacksTheLast(t)' =>
              tables'[t] = [clients |-> latest.clients, nextID |-> previous.nextID]
      BY <1>a, <2>1, <2>3, <2>6, <2>8 DEF TwoTables, LacksTheLast
    <3> QED
      BY <2>1, <2>3, <3>1, <3>2, <3>3 DEF TwoTables
  <2> QED
    BY <2>9, <2>10 DEF Serial
<1>9. ASSUME NEW s \in Slaves, NEW k \in inflight[s], Lose(s, k) PROVE Serial'
  <2>1. /\ UNCHANGED <<tables, creating, advancing, log, known, overlapped, outOfStep>>
        /\ \A t \in Slaves : inflight'[t] \subseteq inflight[t]
    BY <1>9 DEF Lose, TypeOK
  <2>2. PICK previous \in Repository, latest \in Repository : TwoTables(previous, latest)
    BY <1>c, <2>1
  <2>3. OnlyTheLast'
    BY <1>c, <2>1 DEF OnlyTheLast
  <2>4. TwoTables(previous, latest)'
    BY <2>1, <2>2 DEF TwoTables, UpToDate, LacksTheLast
  <2> QED
    BY <2>3, <2>4 DEF Serial
<1>10. ASSUME NEW n \in Nodes, Restart(n) PROVE Serial'
  <2>1. /\ UNCHANGED <<log, inflight, overlapped, outOfStep>>
        /\ known'[n] = {}
        /\ tables'[n] = NewClientRepository
        /\ n \in PythonSlaves => advancing'[n] = {}
        /\ \A m \in Nodes \ {n} : tables'[m] = tables[m] /\ known'[m] = known[m]
        /\ \A s \in PythonSlaves : /\ creating'[s] \subseteq creating[s]
                                   /\ advancing'[s] \subseteq advancing[s]
    BY <1>10, <1>a DEF Restart, TypeOK
  <2>2. PICK previous \in Repository, latest \in Repository : TwoTables(previous, latest)
    BY <1>c, <2>1
  <2>3. OnlyTheLast'
    BY <1>c, <2>1 DEF OnlyTheLast
  <2>4. UpToDate(n)' => Len(log) = 0
    <3>1. Len(log) # 0 => 1 \in DOMAIN log
      BY <1>b
    <3> QED
      BY <2>1, <3>1 DEF UpToDate
  <2>5. n \in Slaves /\ Len(log) \in inflight[n] /\ LacksTheLast(n)' => Len(log) = 1
    BY <1>b, <2>1 DEF LacksTheLast
  <2>6. \A m \in Nodes : UpToDate(m)' => tables'[m] = latest
    BY <2>1, <2>2, <2>4 DEF TwoTables, UpToDate
  <2>7. \A t \in Slaves : Len(log) \in inflight[t] /\ LacksTheLast(t)' => tables'[t] = previous
    BY <1>a, <2>1, <2>2, <2>5 DEF TwoTables, LacksTheLast
  <2>8. \A t \in PythonSlaves : Len(log) \in advancing'[t] /\ LacksTheLast(t)' =>
            tables'[t] = [clients |-> latest.clients, nextID |-> previous.nextID]
    BY <1>a, <2>1, <2>2 DEF TwoTables, LacksTheLast
  <2>9. TwoTables(previous, latest)'
    BY <2>1, <2>2, <2>6, <2>7, <2>8 DEF TwoTables
  <2> QED
    BY <2>3, <2>9 DEF Serial
<1> QED
  BY <1>1, <1>2, <1>3, <1>4, <1>5, <1>6, <1>7, <1>8, <1>9, <1>10 DEF Next

\* Master and slaves agree when writes do not overlap and a writer in Go has all
\* earlier ones: no slave then refuses what another node accepted, and the two
\* locks of app.py come to what the one of the Go repository does.
THEOREM SerialWritesAgreeAlways == Spec => []SerialWritesAgree
<1>1. Spec => []Serial
  BY InitSerial, StepSerial, CountersAlways, RowsAlways, PTL DEF Spec
<1>2. Serial => SerialWritesAgree
  BY DEF Serial, Orderly, TwoTables, SerialWritesAgree
<1> QED
  BY <1>1, <1>2, PTL
==============================================================================
