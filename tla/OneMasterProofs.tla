--------------------------- MODULE OneMasterProofs ---------------------------
(***************************************************************************)
(* While only the master writes, Cluster implements Replication.           *)
(***************************************************************************)
EXTENDS OneMaster, ClusterProofs, WellFoundedInduction

-----------------------------------------------------------------------------
(***************************************************************************)
(* The greatest of a set of numbers                                        *)
(***************************************************************************)
LEMMA MaxIs ==
  ASSUME NEW S, \A x \in S : x \in Nat, NEW m \in S, \A x \in S : x <= m
  PROVE  Max(S) = m
<1>1. m \in S /\ \A y \in S : m >= y
  OBVIOUS
<1>2. Max(S) \in S /\ \A y \in S : Max(S) >= y
  BY <1>1 DEF Max
<1>3. Max(S) \in Nat /\ m \in Nat /\ Max(S) >= m /\ Max(S) <= m
  BY <1>2
<1> HIDE DEF Max
<1> QED
  BY <1>3

LEMMA MaxExists ==
  ASSUME NEW S, \A x \in S : x \in Nat, S # {}, NEW b \in Nat, \A x \in S : x <= b
  PROVE  Max(S) \in S /\ Max(S) \in Nat /\ \A x \in S : x <= Max(S)
<1> DEFINE R == {ss \in Nat \X Nat : ss[1] < ss[2]}
           T == {n \in Nat : \E x \in S : n = b - x}
<1>1. IsWellFoundedOn(R, Nat)
  BY NatLessThanWellFounded DEF OpToRel
<1>2. T \subseteq Nat /\ T # {}
  <2>1. PICK x \in S : TRUE
    OBVIOUS
  <2>2. b - x \in Nat
    BY <2>1
  <2> QED
    BY <2>1, <2>2
<1> HIDE DEF R
<1>3. PICK y \in T : \A z \in T : ~ (<<z, y>> \in R)
  BY <1>1, <1>2, WFMin
<1>4. PICK m \in S : y = b - m
  OBVIOUS
<1>5. ASSUME NEW x \in S PROVE x <= m
  <2>1. x \in Nat /\ m \in Nat /\ x <= b /\ m <= b /\ b - x \in Nat
    OBVIOUS
  <2>2. ~ (<<b - x, y>> \in R) /\ y \in Nat
    BY <1>2, <1>3, <2>1
  <2>3. ~ (b - x < y)
    BY <2>1, <2>2 DEF R
  <2> QED
    BY <1>4, <2>1, <2>3
<1>6. Max(S) = m
  BY <1>5, MaxIs
<1> QED
  BY <1>5, <1>6

\* One more number.
LEMMA MaxOfMore ==
  ASSUME NEW S, \A x \in S : x \in Nat, S # {}, NEW b \in Nat, \A x \in S : x <= b, NEW n \in Nat
  PROVE  Max(S \cup {n}) = IF n >= Max(S) THEN n ELSE Max(S)
<1>1. Max(S) \in S /\ Max(S) \in Nat /\ \A x \in S : x <= Max(S)
  BY MaxExists
<1>2. CASE n >= Max(S)
  <2>1. \A x \in S \cup {n} : x \in Nat /\ x <= n
    BY <1>1, <1>2
  <2> QED
    BY <1>2, <2>1, MaxIs
<1>3. CASE ~ (n >= Max(S))
  <2>1. \A x \in S \cup {n} : x \in Nat /\ x <= Max(S)
    BY <1>1, <1>3
  <2> QED
    BY <1>1, <1>3, <2>1, MaxIs
<1> QED
  BY <1>2, <1>3

-----------------------------------------------------------------------------
(***************************************************************************)
(* OneMaster is a restriction of Cluster: its facts carry over.            *)
(***************************************************************************)
LEMMA InsideCluster == OneMasterSpec => Spec
<1>1. Slaves \subseteq Nodes /\ Master \in Nodes
  BY DEF Nodes
<1>2. [OneMasterNext]_oneMasterVars => [Next]_vars
  BY <1>1 DEF OneMasterNext, MasterWrites, Next, oneMasterVars
<1>3. OneMasterInit => Init
  BY DEF OneMasterInit
<1> QED
  BY <1>2, <1>3, PTL DEF OneMasterSpec, Spec

\* Every write begun is in the log, and was checked by the master's binding.
OneWriter ==
    /\ started = Len(log)
    /\ \A k \in DOMAIN log : Valid(Master, log[k].client)

OneMasterInv == TypeOK /\ Travels /\ Rows /\ OneWriter /\ pipelined \in [Slaves -> BOOLEAN]

LEMMA MasterAdds ==
  ASSUME TypeOK, OneWriter, NEW operation \in {"insert", "update", "delete"}, NEW id \in IDs,
         NEW client \in Client, Valid(Master, client), Begin(Master),
         Replicate(Master, operation, id, client, known[Master])
  PROVE  OneWriter'
<1> DEFINE p == [from |-> Master, operation |-> operation, id |-> id,
                 client |-> client, knew |-> known[Master]]
<1>1. p \in Payload
  BY DEF Payload, TypeOK, Nodes, Places
<1>2. log \in Seq(Payload) /\ log' = Append(log, p)
  BY DEF TypeOK, Replicate
<1> HIDE DEF p
<1>3. /\ DOMAIN log' = DOMAIN log \cup {Len(log) + 1}
      /\ Len(log') = Len(log) + 1
      /\ \A k \in DOMAIN log : log'[k] = log[k]
      /\ log'[Len(log) + 1] = p
  BY <1>1, <1>2, Appended
<1>4. p.client = client
  BY DEF p
<1> QED
  BY <1>3, <1>4 DEF OneWriter, Begin, Valid

LEMMA NextKeepsOneWriter ==
  ASSUME TypeOK, Rows, OneWriter, [OneMasterNext]_oneMasterVars
  PROVE  OneWriter'
<1>0. Master \in Nodes /\ Master \in GoNodes
  BY DEF Nodes, GoNodes
<1>1. CASE UNCHANGED <<started, log>>
  BY <1>1 DEF OneWriter, Valid
<1>2. ASSUME NEW client \in Client, CreateClient(Master, client) PROVE OneWriter'
  BY <1>2, MasterAdds DEF CreateClient
<1>3. ASSUME NEW id \in IDs, NEW client \in Client, UpdateClient(Master, id, client) PROVE OneWriter'
  BY <1>3, MasterAdds DEF UpdateClient, MayUpdate
<1>4. ASSUME NEW id \in IDs, DeleteClient(Master, id) PROVE OneWriter'
  <2>1. Has(tables[Master], id) /\ Valid(Master, tables[Master].clients[id])
    BY <1>0, <1>4 DEF DeleteClient, Rows, RowsValid
  <2>2. tables[Master].clients[id] \in Client
    BY <1>0, <2>1 DEF TypeOK, Repository, Has
  <2> QED
    BY <1>4, <2>1, <2>2, MasterAdds DEF DeleteClient
<1> QED
  BY <1>1, <1>2, <1>3, <1>4
     DEF OneMasterNext, MasterWrites, oneMasterVars, vars, Deliver, MoveCounter, Lose, Restart

LEMMA OneMasterInvAlways == OneMasterSpec => []OneMasterInv
<1>1. OneMasterInit => OneWriter /\ pipelined \in [Slaves -> BOOLEAN]
  BY DEF OneMasterInit, Init, OneWriter
<1>2. /\ pipelined \in [Slaves -> BOOLEAN] /\ [OneMasterNext]_oneMasterVars
      => (pipelined \in [Slaves -> BOOLEAN])'
  BY DEF OneMasterNext, oneMasterVars
<1> QED
  BY <1>1, <1>2, InsideCluster, CountersAlways, RowsAlways, NextKeepsOneWriter, PTL
     DEF OneMasterSpec, OneMasterInv

-----------------------------------------------------------------------------
(***************************************************************************)
(* What the mapping sees of a step                                         *)
(***************************************************************************)
LEMMA ReachedNumbers ==
  ASSUME TypeOK, NEW s \in PythonSlaves
  PROVE  /\ \A x \in Reached(s) : x \in Nat
         /\ Reached(s) # {}
         /\ \A x \in Reached(s) : x <= MaxID + 1
         /\ MaxID + 1 \in Nat
<1>1. tables[s].nextID \in 1 .. (MaxID + 1)
  BY DEF TypeOK, Nodes, Slaves, Repository
<1>2. \A k \in advancing[s] : log[k].id \in 1 .. MaxID
  <2>1. \A k \in DOMAIN log : log[k] \in Payload
    BY DEF TypeOK
  <2>2. advancing[s] \subseteq DOMAIN log
    BY DEF TypeOK
  <2> QED
    BY <2>1, <2>2 DEF Payload, IDs
<1> QED
  BY <1>1, <1>2, MaxIDAssumption DEF Reached

\* A write of the master: one more payload, sent to every slave.
LEMMA MasterSends ==
  ASSUME TypeOK, NEW operation \in {"insert", "update", "delete"}, NEW id \in IDs,
         NEW client \in Client, Replicate(Master, operation, id, client, known[Master]),
         \A s \in Slaves : tables'[s] = tables[s], advancing' = advancing
  PROVE  /\ Sent' = Append(Sent, [operation |-> operation, id |-> id, client |-> client])
         /\ Sent' # Sent
         /\ log' # log
         /\ Len(Sent) = Len(log)
         /\ inflight' = [s \in Slaves |-> inflight[s] \cup (DOMAIN Sent' \ DOMAIN Sent)]
         /\ \A s \in Slaves : Finished(s)' = Finished(s) /\ Missed(s)' = Missed(s)
<1> DEFINE p == [from |-> Master, operation |-> operation, id |-> id,
                 client |-> client, knew |-> known[Master]]
           q == [operation |-> operation, id |-> id, client |-> client]
           k == Len(log) + 1
<1>1. p \in Payload
  BY DEF Payload, TypeOK, Nodes, Places
<1>2. log \in Seq(Payload) /\ log' = Append(log, p)
  BY DEF TypeOK, Replicate
<1>3. p.operation = operation /\ p.id = id /\ p.client = client
  OBVIOUS
<1> HIDE DEF p
<1>4. /\ DOMAIN log' = DOMAIN log \cup {k}
      /\ k \notin DOMAIN log
      /\ Len(log') = k
      /\ \A j \in DOMAIN log : log'[j] = log[j]
      /\ log'[k] = p
  BY <1>1, <1>2, Appended
<1>5. DOMAIN log = 1 .. Len(log) /\ Len(log) \in Nat
  BY <1>2
<1>6. Sent \in Seq(Replicas!Payload) /\ Len(Sent) = Len(log) /\ DOMAIN Sent = DOMAIN log
  <2>1. \A j \in DOMAIN log : log[j] \in Payload
    BY <1>2
  <2>2. \A j \in 1 .. Len(log) : Sent[j] \in Replicas!Payload
    BY <1>5, <2>1 DEF Sent, Payload, Replicas!Payload, IDs, Replicas!IDs, Client, Replicas!Client
  <2>3. Sent \in [1 .. Len(log) -> Replicas!Payload]
    BY <1>5, <2>2 DEF Sent
  <2> QED
    BY <1>5, <2>3
<1>7. Sent' = Append(Sent, q)
  <2>1. q \in Replicas!Payload
    BY DEF Replicas!Payload, IDs, Replicas!IDs, Client, Replicas!Client
  <2> HIDE DEF q
  <2>2. /\ DOMAIN Append(Sent, q) = 1 .. k
        /\ \A j \in 1 .. Len(log) : Append(Sent, q)[j] = Sent[j]
        /\ Append(Sent, q)[k] = q
        /\ Append(Sent, q) \in Seq(Replicas!Payload)
    <3> DEFINE S == Replicas!Payload
    <3>1. q \in S /\ Sent \in Seq(S)
      BY <1>6, <2>1
    <3> HIDE DEF S
    <3>2. /\ DOMAIN Append(Sent, q) = 1 .. Len(Sent) + 1
          /\ \A j \in 1 .. Len(Sent) : Append(Sent, q)[j] = Sent[j]
          /\ Append(Sent, q)[Len(Sent) + 1] = q
          /\ Append(Sent, q) \in Seq(S)
      BY <3>1
    <3> QED
      BY <1>6, <3>2 DEF S
  <2>3. DOMAIN Sent' = 1 .. k
    BY <1>4, <1>5 DEF Sent
  <2>4. \A j \in 1 .. k : Sent'[j] = Append(Sent, q)[j]
    <3>1. \A j \in DOMAIN log : Sent'[j] = Sent[j]
      BY <1>4 DEF Sent
    <3>2. Sent'[k] = q
      BY <1>3, <1>4 DEF Sent, q
    <3> QED
      BY <1>5, <2>2, <3>1, <3>2
  <2> DEFINE f == Append(Sent, q)
  <2>5. f \in [1 .. k -> Replicas!Payload]
    <3>1. f \in Seq(Replicas!Payload) /\ DOMAIN f = 1 .. k
      BY <2>2
    <3> HIDE DEF f
    <3> QED
      BY <3>1
  <2>6. Sent' = [j \in 1 .. k |-> Sent'[j]]
    BY <2>3 DEF Sent
  <2>7. \A j \in 1 .. k : Sent'[j] = f[j]
    BY <2>4
  <2> HIDE DEF f
  <2>8. Sent' = f
    BY <2>5, <2>6, <2>7
  <2> QED
    BY <2>8 DEF f
<1>8. DOMAIN Sent' \ DOMAIN Sent = {k} /\ Sent' # Sent /\ log' # log
  <2>1. DOMAIN Sent' = DOMAIN log' /\ DOMAIN Sent = DOMAIN log
    BY DEF Sent
  <2> QED
    BY <1>4, <2>1
<1>9. inflight' = [s \in Slaves |-> inflight[s] \cup {k}]
  BY ClusterAssumption DEF Replicate, Receivers
<1>10. ASSUME NEW s \in Slaves PROVE Finished(s)' = Finished(s) /\ Missed(s)' = Missed(s)
  <2>1. s \in PythonSlaves => advancing[s] \subseteq DOMAIN log
    BY DEF TypeOK
  <2>2. s \in PythonSlaves => Reached(s)' = Reached(s)
    BY <1>4, <2>1 DEF Reached
  <2>3. known'[s] = known[s]
    BY ClusterAssumption DEF Replicate, TypeOK, Nodes
  <2>4. inflight'[s] = inflight[s] \cup {k}
    BY <1>9
  <2>5. Handled(s)' = Handled(s)
    BY <2>3 DEF Handled
  <2>6. Finished(s)' = Finished(s)
    BY <2>2 DEF Finished
  <2>7. Missed(s)' = Missed(s)
    BY <1>4, <2>4, <2>5 DEF Missed
  <2> QED
    BY <2>6, <2>7
<1> QED
  BY <1>6, <1>7, <1>8, <1>9, <1>10

\* Both modules build on ClientStore, with the same clients and IDs.
LEMMA SameStore ==
  /\ Replicas!IDs = IDs /\ Replicas!Client = Client
  /\ Replicas!NewClientRepository = NewClientRepository
  /\ \A repo, id : Replicas!Has(repo, id) <=> Has(repo, id)
  /\ \A repo, client : Replicas!CanCreate(repo, client) <=> CanCreate(repo, client)
  /\ \A repo, client : Replicas!Created(repo, client) = Created(repo, client)
  /\ \A repo, id, client : Replicas!CanUpdate(repo, id, client) <=> CanUpdate(repo, id, client)
  /\ \A repo, id, client : Replicas!Stored(repo, id, client) = Stored(repo, id, client)
  /\ \A repo, id : Replicas!Deleted(repo, id) = Deleted(repo, id)
  /\ \A repo, id, client : Replicas!Inserted(repo, id, client) = Inserted(repo, id, client)
<1>1. /\ Replicas!IDs = IDs /\ Replicas!Client = Client
      /\ Replicas!NewClientRepository = NewClientRepository
  BY DEF Replicas!IDs, IDs, Replicas!Client, Client, Replicas!NewClientRepository,
         NewClientRepository
<1>2. \A repo, id : Replicas!Has(repo, id) <=> Has(repo, id)
  BY DEF Replicas!Has, Has
<1>3. \A repo, ids, nid : Replicas!NoOtherHas(repo, ids, nid) <=> NoOtherHas(repo, ids, nid)
  BY <1>2 DEF Replicas!NoOtherHas, NoOtherHas
<1>4. \A repo, client : Replicas!CanCreate(repo, client) <=> CanCreate(repo, client)
  BY <1>1, <1>3 DEF Replicas!CanCreate, CanCreate
<1>5. \A repo, id, client : Replicas!CanUpdate(repo, id, client) <=> CanUpdate(repo, id, client)
  BY <1>1, <1>2, <1>3 DEF Replicas!CanUpdate, CanUpdate
<1>6. /\ \A repo, client : Replicas!Created(repo, client) = Created(repo, client)
      /\ \A repo, id, client : Replicas!Stored(repo, id, client) = Stored(repo, id, client)
      /\ \A repo, id : Replicas!Deleted(repo, id) = Deleted(repo, id)
      /\ \A repo, id, client : Replicas!Inserted(repo, id, client) = Inserted(repo, id, client)
  BY DEF Replicas!Created, Created, Replicas!Stored, Stored, Replicas!Deleted, Deleted,
         Replicas!Inserted, Inserted
<1> QED
  BY <1>1, <1>2, <1>4, <1>5, <1>6

-----------------------------------------------------------------------------
(***************************************************************************)
(* The steps                                                               *)
(***************************************************************************)
\* A write of the master is one of Replication.
LEMMA MasterWriteIsMasterStep ==
  ASSUME OneMasterInv, MasterWrites,
         pipelined' = [s \in Slaves |-> pipelined[s] \/ (log' # log /\ inflight[s] # {})]
  PROVE  Replicas!Next
<1> USE SameStore
<1>0. /\ TypeOK /\ RowsValid /\ Master \in Nodes /\ Master \in GoNodes /\ Master \notin Slaves
      /\ started = Len(log) /\ tables \in [Nodes -> Repository]
  BY ClusterAssumption DEF OneMasterInv, OneWriter, Rows, Nodes, GoNodes, TypeOK
<1>1. ASSUME NEW operation \in {"insert", "update", "delete"}, NEW id \in IDs,
             NEW client \in Client, NEW repo, Begin(Master),
             Replicate(Master, operation, id, client, known[Master]),
             tables' = [tables EXCEPT ![Master] = repo], advancing' = advancing
      PROVE  /\ Replicas!Replicate(operation, id, client)
             /\ Replicas!Send
             /\ tables'[Master] = repo
             /\ [s \in Slaves |-> Finished(s)]' = [s \in Slaves |-> Finished(s)]
             /\ [s \in Slaves |-> Missed(s)]' = [s \in Slaves |-> Missed(s)]
  <2>1. \A s \in Slaves : tables'[s] = tables[s]
    BY <1>0, <1>1
  <2>2. /\ Sent' = Append(Sent, [operation |-> operation, id |-> id, client |-> client])
        /\ Sent' # Sent
        /\ log' # log
        /\ Len(Sent) = Len(log)
        /\ inflight' = [s \in Slaves |-> inflight[s] \cup (DOMAIN Sent' \ DOMAIN Sent)]
        /\ \A s \in Slaves : Finished(s)' = Finished(s) /\ Missed(s)' = Missed(s)
    BY <1>0, <1>1, <2>1, MasterSends
  <2>3. Len(Sent) < MaxWrites
    BY <1>0, <1>1, <2>2 DEF Begin
  <2>4. Replicas!Replicate(operation, id, client)
    BY <2>2, <2>3 DEF Replicas!Replicate
  <2>5. Replicas!Send
    BY <2>2 DEF Replicas!Send
  <2>6. tables'[Master] = repo
    BY <1>0, <1>1
  <2> QED
    BY <2>2, <2>4, <2>5, <2>6
<1>2. ASSUME NEW client \in Client, CreateClient(Master, client) PROVE Replicas!Next
  <2>1. Replicas!CreateClient(client) /\ Replicas!Send
        /\ [s \in Slaves |-> Finished(s)]' = [s \in Slaves |-> Finished(s)]
        /\ [s \in Slaves |-> Missed(s)]' = [s \in Slaves |-> Missed(s)]
    BY <1>1, <1>2 DEF CreateClient, Replicas!CreateClient, Replicas!WriteCreate, Replicas!requestVars
  <2> QED
    BY <2>1 DEF Replicas!Next, Replicas!MasterStep, Replicas!MasterNext
<1>3. ASSUME NEW id \in IDs, NEW client \in Client, UpdateClient(Master, id, client)
      PROVE  Replicas!Next
  <2>1. Replicas!UpdateClient(id, client) /\ Replicas!Send
        /\ [s \in Slaves |-> Finished(s)]' = [s \in Slaves |-> Finished(s)]
        /\ [s \in Slaves |-> Missed(s)]' = [s \in Slaves |-> Missed(s)]
    BY <1>0, <1>1, <1>3 DEF UpdateClient, MayUpdate, Replicas!UpdateClient, Replicas!WriteUpdate,
                            Replicas!requestVars
  <2> QED
    BY <2>1 DEF Replicas!Next, Replicas!MasterStep, Replicas!MasterNext
<1>4. ASSUME NEW id \in IDs, DeleteClient(Master, id) PROVE Replicas!Next
  <2>1. tables[Master].clients[id] \in Client
    BY <1>0, <1>4 DEF DeleteClient, Has, Repository
  <2>2. Replicas!DeleteClient(id) /\ Replicas!Send
        /\ [s \in Slaves |-> Finished(s)]' = [s \in Slaves |-> Finished(s)]
        /\ [s \in Slaves |-> Missed(s)]' = [s \in Slaves |-> Missed(s)]
    BY <1>1, <1>4, <2>1 DEF DeleteClient, Replicas!DeleteClient, Replicas!WriteDelete,
                            Replicas!requestVars
  <2> QED
    BY <2>2 DEF Replicas!Next, Replicas!MasterStep, Replicas!MasterNext
<1> QED
  BY <1>2, <1>3, <1>4 DEF MasterWrites

\* What changes one slave only.
LEMMA OneSlave ==
  ASSUME OneMasterInv, NEW s \in Slaves, log' = log,
         \A n \in Nodes \ {s} : tables'[n] = tables[n],
         \A t \in PythonSlaves \ {s} : advancing'[t] = advancing[t],
         \A n \in Nodes \ {s} : known'[n] = known[n],
         \A t \in Slaves \ {s} : inflight'[t] = inflight[t]
  PROVE  /\ tables'[Master] = tables[Master]
         /\ Sent' = Sent
         /\ \A t \in Slaves \ {s} : Finished(t)' = Finished(t) /\ Missed(t)' = Missed(t)
<1>1. Master \in Nodes \ {s} /\ \A t \in Slaves : t \in Nodes
  BY ClusterAssumption DEF Nodes
<1>2. Sent' = Sent
  BY DEF Sent
<1>3. ASSUME NEW t \in Slaves \ {s} PROVE Finished(t)' = Finished(t) /\ Missed(t)' = Missed(t)
  <2>1. /\ tables'[t] = tables[t] /\ known'[t] = known[t] /\ inflight'[t] = inflight[t]
        /\ t \in PythonSlaves => advancing'[t] = advancing[t]
    BY <1>1
  <2>2. Handled(t)' = Handled(t)
    BY <2>1 DEF Handled
  <2> QED
    BY <2>1, <2>2 DEF Finished, Reached, Missed
<1> QED
  BY <1>1, <1>2, <1>3

\* Outside the writes of the master nothing is pipelined.
LEMMA NotPipelined ==
  ASSUME OneMasterInv, log' = log,
         pipelined' = [s \in Slaves |-> pipelined[s] \/ (log' # log /\ inflight[s] # {})]
  PROVE  pipelined' = pipelined
<1>1. pipelined \in [Slaves -> BOOLEAN]
  BY DEF OneMasterInv
<1>2. \A s \in Slaves : pipelined'[s] = pipelined[s]
  BY <1>1
<1> QED
  BY <1>1, <1>2

\* A slave does with a payload what Replication says, though the counter of a
\* Python slave comes later.
LEMMA AppliedIsReplicated ==
  ASSUME OneMasterInv, NEW s \in Slaves, NEW k \in inflight[s], Deliver(s, k)
  PROVE  Finished(s)' = Replicas!Replicated(s, Finished(s), Sent[k])
<1> USE SameStore
<1> DEFINE p == log[k]
           repo == tables[s]
<1>0. /\ s \in Nodes /\ s # Master /\ tables \in [Nodes -> Repository]
      /\ TypeOK /\ k \in DOMAIN log /\ p \in Payload
      /\ Valid(s, p.client)
  BY ClusterAssumption DEF OneMasterInv, OneWriter, TypeOK, Nodes, GoNodes, Valid
<1>1. /\ Sent[k].operation = p.operation /\ Sent[k].id = p.id /\ Sent[k].client = p.client
      /\ p.operation \in {"insert", "update", "delete"} /\ p.id \in IDs
      /\ repo \in Repository
  BY <1>0 DEF Sent, Payload
<1>2. tables'[s] = Applied(s, p)
  BY <1>0 DEF Deliver
<1>3. CASE s \in GoSlaves
  <2>1. s \notin PythonSlaves /\ s \in GoNodes
    BY <1>3, ClusterAssumption DEF GoNodes
  <2>2. Finished(s)' = Applied(s, p) /\ Finished(s) = repo
    BY <1>2, <2>1 DEF Finished
  <2>3. p.operation = "update" => (Accepts(s, p) <=> Replicas!AcceptsUpdate(s, repo, Sent[k]))
    BY <1>0, <1>1, <2>1 DEF Accepts, MayUpdate, CanUpdate, Replicas!AcceptsUpdate
  <2>4. p.operation = "delete" => (Accepts(s, p) <=> Has(repo, p.id))
    BY <1>0 DEF Accepts
  <2>5. p.operation = "insert" => Accepts(s, p)
    BY <1>0 DEF Accepts
  <2> HIDE DEF p, repo
  <2> QED
    BY <1>1, <1>3, <2>2, <2>3, <2>4, <2>5 DEF Applied, Replicas!Replicated, p, repo
<1>4. CASE s \in PythonSlaves
  <2> DEFINE m == Max(Reached(s))
             F == [repo EXCEPT !.nextID = m]
  <2>1. s \notin GoNodes /\ s \notin GoSlaves
    BY <1>0, <1>4, ClusterAssumption DEF GoNodes
  <2>2. Finished(s) = F /\ F.clients = repo.clients /\ F.nextID = m
    BY <1>1, <1>4 DEF Finished, Repository
  <2>3. \A i \in IDs : Has(F, i) <=> Has(repo, i)
    BY <2>2 DEF Has
  <2>4. CASE p.operation = "insert"
    <3>1. tables'[s] = Stored(repo, p.id, p.client) /\ tables'[s].nextID = repo.nextID
      BY <1>0, <1>1, <1>2, <2>1, <2>4 DEF Applied, Accepts, Stored, Repository
    <3>2. advancing'[s] = advancing[s] \cup {k} /\ log' = log
      BY <1>0, <1>4, <2>4 DEF Deliver, Unfinished, TypeOK
    <3>3. Reached(s)' = Reached(s) \cup {p.id + 1}
      BY <3>1, <3>2 DEF Reached
    <3>4. p.id + 1 \in Nat /\ p.id \in Nat
      BY <1>1, MaxIDAssumption DEF IDs
    <3>5. Max(Reached(s)') = IF p.id + 1 >= m THEN p.id + 1 ELSE m
      BY <1>0, <1>4, <3>3, <3>4, ReachedNumbers, MaxOfMore
    <3>6. m \in Nat
      BY <1>0, <1>4, ReachedNumbers, MaxExists
    <3>7. Max(Reached(s)') = IF p.id >= m THEN p.id + 1 ELSE m
      BY <3>4, <3>5, <3>6
    <3>8. Finished(s)' = [tables'[s] EXCEPT !.nextID = Max(Reached(s)')]
      BY <1>4 DEF Finished
    <3>9. Finished(s)' = Inserted(F, p.id, p.client)
      BY <1>1, <2>2, <3>1, <3>7, <3>8 DEF Inserted, Stored, Repository
    <3> QED
      BY <1>1, <2>2, <2>4, <3>9 DEF Replicas!Replicated
  <2>5. CASE p.operation # "insert"
    <3>1. advancing'[s] = advancing[s] /\ log' = log
      BY <1>0, <1>4, <2>5 DEF Deliver, Unfinished
    <3>2. tables'[s].nextID = repo.nextID
      BY <1>1, <1>2, <2>1, <2>5 DEF Applied, Stored, Deleted, Repository
    <3>3. Finished(s)' = [Applied(s, p) EXCEPT !.nextID = m]
      BY <1>2, <1>4, <3>1, <3>2 DEF Finished, Reached
    <3>4. Accepts(s, p) <=> Has(repo, p.id)
      BY <1>0, <1>1, <2>1, <2>5 DEF Accepts, MayUpdate
    <3>5. p.operation = "update" => (Accepts(s, p) <=> Replicas!AcceptsUpdate(s, F, Sent[k]))
      BY <1>1, <1>4, <2>3, <3>4 DEF Replicas!AcceptsUpdate
    <3>6. Applied(s, p) = IF ~ Has(repo, p.id) THEN repo
                          ELSE IF p.operation = "delete" THEN Deleted(repo, p.id)
                          ELSE Stored(repo, p.id, p.client)
      BY <1>1, <2>1, <2>5, <3>4 DEF Applied
    <3>7. /\ [Deleted(repo, p.id) EXCEPT !.nextID = m] = Deleted(F, p.id)
          /\ [Stored(repo, p.id, p.client) EXCEPT !.nextID = m] = Stored(F, p.id, p.client)
      BY <1>1 DEF Deleted, Stored, Repository
    <3>8. Replicas!Replicated(s, F, Sent[k]) =
            IF ~ Has(F, p.id) THEN F
            ELSE IF p.operation = "delete" THEN Deleted(F, p.id)
            ELSE Stored(F, p.id, p.client)
      BY <1>1, <2>3, <2>5, <3>4, <3>5 DEF Replicas!Replicated
    <3> QED
      BY <1>1, <2>2, <2>3, <3>3, <3>6, <3>7, <3>8
  <2> QED
    BY <2>4, <2>5
<1> QED
  BY <1>3, <1>4 DEF Slaves

LEMMA DeliverIsDeliver ==
  ASSUME OneMasterInv, NEW s \in Slaves, NEW k \in inflight[s], Deliver(s, k),
         pipelined' = pipelined
  PROVE  Replicas!Deliver(s, k)
<1>0. /\ s \in Nodes /\ s # Master /\ TypeOK /\ log' = log
      /\ inflight \in [Slaves -> SUBSET DOMAIN log] /\ k \in DOMAIN log
  BY ClusterAssumption DEF OneMasterInv, TypeOK, Nodes, Deliver
<1>1. inflight' = [inflight EXCEPT ![s] = @ \ {k}]
  BY DEF Deliver
<1>2. /\ \A n \in Nodes \ {s} : tables'[n] = tables[n] /\ known'[n] = known[n]
      /\ \A t \in PythonSlaves \ {s} : advancing'[t] = advancing[t]
      /\ \A t \in Slaves \ {s} : inflight'[t] = inflight[t]
  BY <1>0 DEF Deliver, TypeOK
<1>3. /\ tables'[Master] = tables[Master] /\ Sent' = Sent
      /\ \A t \in Slaves \ {s} : Finished(t)' = Finished(t) /\ Missed(t)' = Missed(t)
  BY <1>0, <1>2, OneSlave
<1>4. Finished(s)' = Replicas!Replicated(s, Finished(s), Sent[k])
  BY AppliedIsReplicated
<1>5. Missed(s)' = Missed(s)
  <2>1. Handled(s)' = Handled(s) \cup {k}
    BY <1>0 DEF Deliver, Unfinished, Handled, TypeOK
  <2>2. inflight'[s] = inflight[s] \ {k}
    BY <1>0, <1>1
  <2> QED
    BY <1>0, <2>1, <2>2 DEF Missed
<1>6. [t \in Slaves |-> Finished(t)]' =
        [[t \in Slaves |-> Finished(t)] EXCEPT ![s] = Replicas!Replicated(s, @, Sent[k])]
  BY <1>3, <1>4
<1>7. [t \in Slaves |-> Missed(t)]' = [t \in Slaves |-> Missed(t)]
  BY <1>3, <1>5
<1> QED
  BY <1>1, <1>3, <1>6, <1>7 DEF Replicas!Deliver, Replicas!masterVars

\* The second lock of insert_client is what Replication does not see.
LEMMA MoveCounterIsStutter ==
  ASSUME OneMasterInv, NEW s \in PythonSlaves, NEW k \in advancing[s], MoveCounter(s, k),
         pipelined' = pipelined
  PROVE  UNCHANGED Replicas!vars
<1>0. /\ s \in Nodes /\ s \in Slaves /\ TypeOK /\ log' = log /\ inflight' = inflight
      /\ tables \in [Nodes -> Repository] /\ tables[s] \in Repository
      /\ advancing \in [PythonSlaves -> SUBSET DOMAIN log]
      /\ known \in [Nodes -> SUBSET DOMAIN log] /\ k \in DOMAIN log
  BY DEF OneMasterInv, TypeOK, Nodes, Slaves, MoveCounter
<1>1. /\ \A n \in Nodes \ {s} : tables'[n] = tables[n] /\ known'[n] = known[n]
      /\ \A t \in PythonSlaves \ {s} : advancing'[t] = advancing[t]
      /\ \A t \in Slaves \ {s} : inflight'[t] = inflight[t]
  BY <1>0 DEF MoveCounter
<1>2. /\ tables'[Master] = tables[Master] /\ Sent' = Sent
      /\ \A t \in Slaves \ {s} : Finished(t)' = Finished(t) /\ Missed(t)' = Missed(t)
  BY <1>0, <1>1, OneSlave
<1>3. /\ advancing'[s] = advancing[s] \ {k}
      /\ known'[s] = known[s] \cup {k}
      /\ tables'[s] = [tables[s] EXCEPT !.nextID =
                         IF log[k].id >= @ THEN log[k].id + 1 ELSE @]
  BY <1>0 DEF MoveCounter
<1>4. Missed(s)' = Missed(s)
  BY <1>0, <1>3 DEF Missed, Handled
<1>5. Finished(s)' = Finished(s)
  <2> DEFINE m == Max(Reached(s))
             n == tables[s].nextID
             i == log[k].id
             S == Reached(s)'
  <2>1. /\ m \in Reached(s) /\ m \in Nat /\ \A x \in Reached(s) : x <= m
        /\ \A x \in Reached(s) : x \in Nat
    BY <1>0, ReachedNumbers, MaxExists
  <2>2. n \in Reached(s) /\ i + 1 \in Reached(s)
    BY DEF Reached
  <2>3. n \in Nat /\ i \in Nat
    <3>1. log[k] \in Payload
      BY <1>0 DEF TypeOK
    <3> QED
      BY <2>1, <2>2, <3>1 DEF Payload, IDs
  <2>4. n <= m /\ i + 1 <= m
    BY <2>1, <2>2
  <2>5. tables'[s].nextID = IF i >= n THEN i + 1 ELSE n
    BY <1>0, <1>3 DEF Repository
  <2>6. S = {tables'[s].nextID} \cup {log[j].id + 1 : j \in advancing[s] \ {k}}
    BY <1>0, <1>3 DEF Reached
  <2>7. \A x \in S : x \in Nat /\ x <= m
    <3>1. \A j \in advancing[s] : log[j].id + 1 \in Reached(s)
      BY DEF Reached
    <3>2. tables'[s].nextID \in Nat /\ tables'[s].nextID <= m
      BY <2>3, <2>4, <2>5
    <3> QED
      BY <2>1, <2>6, <3>1, <3>2
  <2>8. m \in S
    <3>1. CASE m = n \/ m = i + 1
      BY <2>3, <2>4, <2>5, <2>6, <3>1
    <3>2. CASE ~ (m = n \/ m = i + 1)
      BY <2>1, <2>6, <3>2 DEF Reached
    <3> QED
      BY <3>1, <3>2
  <2>9. Max(S) = m
    <3> HIDE DEF S, m
    <3> QED
      BY <2>7, <2>8, MaxIs
  <2>10. Finished(s)' = [tables'[s] EXCEPT !.nextID = m] /\ Finished(s) = [tables[s] EXCEPT !.nextID = m]
    BY <2>9 DEF Finished
  <2> HIDE DEF m
  <2> QED
    BY <1>0, <1>3, <2>10 DEF Repository
<1> QED
  BY <1>0, <1>2, <1>4, <1>5 DEF Replicas!vars, Replicas!masterVars, Replicas!replicaVars

LEMMA LoseIsLose ==
  ASSUME OneMasterInv, NEW s \in Slaves, NEW k \in inflight[s], Lose(s, k),
         pipelined' = pipelined
  PROVE  Replicas!Lose(s, k)
<1>0. /\ s \in Nodes /\ TypeOK /\ log' = log /\ k \in DOMAIN log
      /\ UNCHANGED <<tables, advancing, known>>
      /\ inflight \in [Slaves -> SUBSET DOMAIN log]
      /\ inflight' = [inflight EXCEPT ![s] = @ \ {k}]
  BY DEF OneMasterInv, TypeOK, Nodes, Lose
<1>1. /\ tables'[Master] = tables[Master] /\ Sent' = Sent
      /\ \A t \in Slaves \ {s} : Finished(t)' = Finished(t) /\ Missed(t)' = Missed(t)
  BY <1>0, OneSlave
<1>2. Finished(s)' = Finished(s)
  BY <1>0 DEF Finished, Reached
<1>3. Missed(s)' = Missed(s) \cup {k}
  <2>1. k \notin Handled(s)
    BY DEF OneMasterInv, Travels, Handled
  <2>2. Handled(s)' = Handled(s) /\ inflight'[s] = inflight[s] \ {k}
    BY <1>0 DEF Handled
  <2> QED
    BY <1>0, <2>1, <2>2 DEF Missed
<1>4. [t \in Slaves |-> Finished(t)]' = [t \in Slaves |-> Finished(t)]
  BY <1>1, <1>2
<1>5. [t \in Slaves |-> Missed(t)]' =
        [[t \in Slaves |-> Missed(t)] EXCEPT ![s] = @ \cup {k}]
  BY <1>1, <1>3
<1> QED
  BY <1>0, <1>1, <1>4, <1>5 DEF Replicas!Lose, Replicas!masterVars

LEMMA RestartIsRestart ==
  ASSUME OneMasterInv, NEW s \in Slaves, Restart(s), pipelined' = pipelined
  PROVE  Replicas!Restart(s)
<1>0. /\ s \in Nodes /\ TypeOK /\ log' = log /\ inflight' = inflight
      /\ tables \in [Nodes -> Repository] /\ known \in [Nodes -> SUBSET DOMAIN log]
      /\ tables' = [tables EXCEPT ![s] = NewClientRepository]
      /\ known' = [known EXCEPT ![s] = {}]
      /\ advancing' = [t \in PythonSlaves |-> IF t = s THEN {} ELSE advancing[t]]
  BY DEF OneMasterInv, TypeOK, Nodes, Restart
<1>1. /\ tables'[Master] = tables[Master] /\ Sent' = Sent
      /\ \A t \in Slaves \ {s} : Finished(t)' = Finished(t) /\ Missed(t)' = Missed(t)
  <2>1. /\ \A n \in Nodes \ {s} : tables'[n] = tables[n] /\ known'[n] = known[n]
        /\ \A t \in PythonSlaves \ {s} : advancing'[t] = advancing[t]
        /\ \A t \in Slaves \ {s} : inflight'[t] = inflight[t]
    BY <1>0
  <2> QED
    BY <1>0, <2>1, OneSlave
<1>2. tables'[s] = NewClientRepository
  BY <1>0
<1>3. Finished(s)' = NewClientRepository
  <2>1. CASE s \in PythonSlaves
    <3>1. advancing'[s] = {}
      BY <1>0, <2>1
    <3>2. Reached(s)' = {1}
      BY <1>2, <3>1 DEF Reached, NewClientRepository
    <3>3. Max(Reached(s)') = 1
      BY <3>2, MaxIs
    <3> QED
      BY <1>2, <2>1, <3>3 DEF Finished, NewClientRepository
  <2> QED
    BY <1>2, <2>1 DEF Finished
<1>4. Missed(s)' = DOMAIN log \ inflight[s]
  <2>1. Handled(s)' = {}
    BY <1>0 DEF Handled
  <2> QED
    BY <1>0, <2>1 DEF Missed
<1>5. [t \in Slaves |-> Finished(t)]' =
        [[t \in Slaves |-> Finished(t)] EXCEPT ![s] = Replicas!NewClientRepository]
  BY <1>1, <1>3, SameStore
<1>6. [t \in Slaves |-> Missed(t)]' =
        [[t \in Slaves |-> Missed(t)] EXCEPT ![s] = DOMAIN Sent \ inflight[s]]
  BY <1>1, <1>4 DEF Sent
<1> QED
  BY <1>0, <1>1, <1>5, <1>6 DEF Replicas!Restart, Replicas!masterVars

LEMMA StepOfReplication ==
  ASSUME OneMasterInv, [OneMasterNext]_oneMasterVars
  PROVE  [Replicas!Next]_Replicas!vars
<1>1. CASE UNCHANGED oneMasterVars
  BY <1>1 DEF oneMasterVars, vars, Replicas!vars, Replicas!masterVars, Replicas!replicaVars,
              Sent, Finished, Reached, Missed, Handled
<1> SUFFICES ASSUME OneMasterNext PROVE Replicas!Next \/ UNCHANGED Replicas!vars
  BY <1>1
<1>2. log' = log => pipelined' = pipelined
  BY NotPipelined DEF OneMasterNext
<1>3. CASE MasterWrites
  BY <1>3, MasterWriteIsMasterStep DEF OneMasterNext
<1>4. ASSUME NEW s \in Slaves, NEW k \in inflight[s], Deliver(s, k) PROVE Replicas!Next
  <2>1. pipelined' = pipelined
    BY <1>2, <1>4 DEF Deliver
  <2> QED
    BY <1>4, <2>1, DeliverIsDeliver DEF Replicas!Next
<1>5. ASSUME NEW s \in PythonSlaves, NEW k \in advancing[s], MoveCounter(s, k)
      PROVE  UNCHANGED Replicas!vars
  <2>1. pipelined' = pipelined
    BY <1>2, <1>5 DEF MoveCounter
  <2> QED
    BY <1>5, <2>1, MoveCounterIsStutter
<1>6. ASSUME NEW s \in Slaves, NEW k \in inflight[s], Lose(s, k) PROVE Replicas!Next
  <2>1. pipelined' = pipelined
    BY <1>2, <1>6 DEF Lose
  <2> QED
    BY <1>6, <2>1, LoseIsLose DEF Replicas!Next
<1>7. ASSUME NEW s \in Slaves, Restart(s) PROVE Replicas!Next
  <2>1. pipelined' = pipelined
    BY <1>2, <1>7 DEF Restart
  <2> QED
    BY <1>7, <2>1, RestartIsRestart DEF Replicas!Next
<1> QED
  BY <1>3, <1>4, <1>5, <1>6, <1>7 DEF OneMasterNext

LEMMA InitOfReplication == OneMasterInit => Replicas!Init
<1> SUFFICES ASSUME OneMasterInit PROVE Replicas!Init
  OBVIOUS
<1>1. /\ tables = [n \in Nodes |-> NewClientRepository] /\ Master \in Nodes
      /\ \A s \in Slaves : s \in Nodes
      /\ log = <<>> /\ inflight = [s \in Slaves |-> {}]
      /\ advancing = [s \in PythonSlaves |-> {}]
      /\ pipelined = [s \in Slaves |-> FALSE]
  BY DEF OneMasterInit, Init, Nodes
<1>2. Sent = <<>>
  BY <1>1 DEF Sent
<1>3. ASSUME NEW s \in Slaves PROVE Finished(s) = NewClientRepository /\ Missed(s) = {}
  <2>1. s \in PythonSlaves => Max(Reached(s)) = 1
    <3>1. s \in PythonSlaves => Reached(s) = {1}
      BY <1>1 DEF Reached, NewClientRepository
    <3>2. Max({1}) = 1
      BY MaxIs
    <3> QED
      BY <3>1, <3>2
  <2>2. Finished(s) = NewClientRepository
    BY <1>1, <2>1 DEF Finished, NewClientRepository
  <2>3. Missed(s) = {}
    BY <1>1 DEF Missed
  <2> QED
    BY <2>2, <2>3
<1>4. Replicas!MasterInit
  BY <1>1, <1>2, SameStore DEF Replicas!MasterInit, Replicas!RequestIDs
<1> QED
  BY <1>1, <1>3, <1>4, SameStore DEF Replicas!Init

THEOREM KeepsReplicationAlways == OneMasterSpec => KeepsReplication
<1> QED
  BY InitOfReplication, StepOfReplication, OneMasterInvAlways, PTL
     DEF OneMasterSpec, KeepsReplication, Replicas!Spec
=============================================================================
