-------------------------- MODULE ReplicationProofs --------------------------
(***************************************************************************)
(* Proofs about the replicas, for any number of slaves of both kinds, any  *)
(* order of arrival, any loss and any restart of a slave.                  *)
(***************************************************************************)
EXTENDS Replication, MasterProofs

\* The master inside the composition is the master: what is proved of it alone
\* holds here.
LEMMA MasterInside == Spec => MasterSpec
<1>1. Init => MasterInit
  BY DEF Init
<1>2. [Next]_vars => [MasterNext]_masterVars
  BY DEF Next, MasterStep, Deliver, Lose, Restart, vars, masterVars
<1> QED
  BY <1>1, <1>2, PTL DEF Spec, MasterSpec

(***************************************************************************)
(* What a step of the master is for a slave.                               *)
(***************************************************************************)
SentTo(s, k) ==
    /\ inflight'[s] = inflight[s] \cup {k}
    /\ pipelined'[s] = (pipelined[s] \/ inflight[s] # {})

\* A write of the master sends its payload to every slave; another step of the
\* master sends nothing.
LEMMA MasterStepKinds ==
  ASSUME TypeOK, MasterStep
  PROVE  \/ /\ \E p \in Payload : Written(p)
            /\ DOMAIN log' = DOMAIN log \cup {Len(log) + 1}
            /\ \A s \in Slaves : SentTo(s, Len(log) + 1)
         \/ /\ UNCHANGED <<repository, log>>
            /\ \A s \in Slaves : inflight'[s] = inflight[s] /\ pipelined'[s] = pipelined[s]
<1>1. CASE UNCHANGED <<repository, log>>
  BY <1>1 DEF MasterStep, Send, TypeOK
<1>2. ASSUME NEW p \in Payload, Written(p)
      PROVE  /\ DOMAIN log' = DOMAIN log \cup {Len(log) + 1}
             /\ \A s \in Slaves : SentTo(s, Len(log) + 1)
  <2>1. log \in Seq(Payload) /\ log' = Append(log, p)
    BY <1>2 DEF TypeOK, MasterTypeOK, Written
  <2>2. /\ DOMAIN log' = DOMAIN log \cup {Len(log) + 1}
        /\ Len(log) + 1 \notin DOMAIN log
        /\ log' # log
    BY <2>1, Appended
  <2>3. DOMAIN log' \ DOMAIN log = {Len(log) + 1}
    BY <2>2
  <2> QED
    BY <2>2, <2>3 DEF MasterStep, Send, SentTo, TypeOK
<1> QED
  BY <1>1, <1>2, StepKinds DEF MasterStep, TypeOK

\* A replica that handles a payload is a well formed repository.
LEMMA ReplicatedType ==
  ASSUME NEW s \in Slaves, NEW repo \in Repository, NEW p \in Payload
  PROVE  Replicated(s, repo, p) \in Repository
<1>1. p.id \in IDs /\ p.client \in Client
  BY DEF Payload
<1>2. Inserted(repo, p.id, p.client) \in Repository
  BY <1>1, MaxIDAssumption DEF Inserted, Repository, IDs
<1>3. Stored(repo, p.id, p.client) \in Repository
  BY <1>1, StoredType
<1>4. Deleted(repo, p.id) \in Repository
  BY <1>1, DeletedType
<1> QED
  BY <1>2, <1>3, <1>4 DEF Replicated, Payload

\* A new repository is a well formed one.
LEMMA NewType == NewClientRepository \in Repository
  BY MaxIDAssumption DEF NewClientRepository, Repository, IDs

\* The variables of the composition always have the values they promise.
THEOREM TypeCorrect == Spec => []TypeOK
<1>1. Init => TypeOK
  <2> SUFFICES ASSUME Init PROVE TypeOK
    OBVIOUS
  <2>1. MasterTypeOK
    BY MaxIDAssumption, BoundsAssumption, NoRequestAssumption
    DEF Init, MasterInit, MasterTypeOK, NewClientRepository, Repository, IDs, CallState, Idle,
        RequestIDs
  <2> QED
    BY <2>1, NewType DEF Init, TypeOK
<1>2. TypeOK /\ MasterTypeOK' /\ [Next]_vars => TypeOK'
  <2> SUFFICES ASSUME TypeOK, MasterTypeOK', [Next]_vars PROVE TypeOK'
    OBVIOUS
  <2>1. CASE UNCHANGED vars
    BY <2>1 DEF vars, replicaVars, masterVars, TypeOK
  <2>2. CASE MasterStep
    <3>1. DOMAIN log \subseteq DOMAIN log'
      BY <2>2, MasterStepKinds
    <3> QED
      BY <2>2, <3>1 DEF MasterStep, Send, TypeOK
  <2>3. ASSUME NEW s \in Slaves, NEW n \in inflight[s], Deliver(s, n) PROVE TypeOK'
    <3>1. log[n] \in Payload /\ replicas[s] \in Repository
      BY DEF TypeOK, MasterTypeOK
    <3>2. Replicated(s, replicas[s], log[n]) \in Repository
      BY <3>1, ReplicatedType
    <3> QED
      BY <2>3, <3>2 DEF Deliver, TypeOK, masterVars
  <2>4. ASSUME NEW s \in Slaves, NEW n \in inflight[s], Lose(s, n) PROVE TypeOK'
    BY <2>4 DEF Lose, TypeOK, masterVars
  <2>5. ASSUME NEW s \in Slaves, Restart(s) PROVE TypeOK'
    BY <2>5, NewType DEF Restart, TypeOK, masterVars
  <2> QED
    BY <2>1, <2>2, <2>3, <2>4, <2>5 DEF Next
<1>3. Spec => []MasterTypeOK
  BY MasterInside, MasterTypeCorrect, PTL
<1> QED
  BY <1>1, <1>2, <1>3, PTL DEF Spec

-----------------------------------------------------------------------------
(***************************************************************************)
(* Every ID handed out was handed out by an insert in the log.             *)
(***************************************************************************)
IsInsertOf(n, i) == log[n].operation = "insert" /\ log[n].id = i

IDsWereInserted ==
    \A i \in IDs : i < repository.nextID => \E n \in DOMAIN log : IsInsertOf(n, i)

\* The master numbers its clients one by one.
LEMMA IDsInsertedAlways == MasterSpec => []IDsWereInserted
<1>1. MasterInit => IDsWereInserted
  BY DEF MasterInit, IDsWereInserted, NewClientRepository, IDs
<1>2. MasterTypeOK /\ IDsWereInserted /\ [MasterNext]_masterVars => IDsWereInserted'
  <2> SUFFICES ASSUME MasterTypeOK, IDsWereInserted, [MasterNext]_masterVars
               PROVE  IDsWereInserted'
    OBVIOUS
  <2>1. CASE UNCHANGED <<repository, log>>
    BY <2>1 DEF IDsWereInserted, IsInsertOf
  <2>2. ASSUME NEW p \in Payload, Written(p) PROVE IDsWereInserted'
    <3>1. /\ log \in Seq(Payload)
          /\ log' = Append(log, p)
          /\ repository.nextID \in Nat
      BY <2>2 DEF MasterTypeOK, Written, Repository
    <3>2. /\ DOMAIN log' = DOMAIN log \cup {Len(log) + 1}
          /\ \A n \in DOMAIN log : log'[n] = log[n]
          /\ log'[Len(log) + 1] = p
      BY <3>1, Appended
    <3> SUFFICES ASSUME NEW i \in IDs, i < repository'.nextID
                 PROVE  \E n \in DOMAIN log' : log'[n].operation = "insert" /\ log'[n].id = i
      BY DEF IDsWereInserted, IsInsertOf
    <3>3. CASE i < repository.nextID
      BY <3>2, <3>3 DEF IDsWereInserted, IsInsertOf
    <3>4. CASE ~ (i < repository.nextID)
      <4>1. p.operation = "insert" /\ p.id = i
        BY <2>2, <3>1, <3>4 DEF Written, IDs
      <4> QED
        BY <3>2, <4>1
    <3> QED
      BY <3>3, <3>4
  <2> QED
    BY <2>1, <2>2, StepKinds DEF masterVars
<1> QED
  BY <1>1, <1>2, MasterTypeCorrect, PTL DEF MasterSpec

(***************************************************************************)
(* What the proofs about the slaves need of the master.                    *)
(***************************************************************************)
MasterInv == TableInv /\ IDsWereInserted

\* The facts about the master hold in the composition.
LEMMA MasterInvAlways == Spec => []MasterInv
  BY MasterInside, TableCorrect, IDsInsertedAlways, PTL DEF MasterInv

\* A row of the master was inserted, and no delete of it is in the log.
LEMMA PresentRow ==
  ASSUME TypeOK, MasterInv, NEW i \in IDs, Has(repository, i)
  PROVE  /\ \E n \in DOMAIN log : IsInsertOf(n, i)
         /\ \A n \in DOMAIN log : log[n].id = i => log[n].operation # "delete"
<1>1. PICK n \in WritesTo(i) :
          /\ \A m \in WritesTo(i) : m <= n
          /\ repository.clients[i] =
               IF log[n].operation = "delete" THEN NoClient ELSE log[n].client
  BY DEF MasterInv, TableInv, JournalMatchesRepository
<1>2. n \in DOMAIN log /\ log[n].id = i /\ log[n].operation # "delete"
  BY <1>1 DEF WritesTo, Has
<1>3. ASSUME NEW m \in DOMAIN log, log[m].id = i, log[m].operation = "delete" PROVE FALSE
  <2>1. n <= m
    BY <1>2, <1>3 DEF MasterInv, TableInv, OneLifePerID
  <2>2. m <= n
    BY <1>1, <1>3 DEF WritesTo
  <2>3. m \in Nat /\ n \in Nat
    BY <1>2 DEF TypeOK, MasterTypeOK
  <2> QED
    BY <1>2, <1>3, <2>1, <2>2, <2>3
<1>4. i < repository.nextID
  BY <1>2 DEF MasterInv, TableInv, LogBelowNextID
<1> QED
  BY <1>3, <1>4 DEF MasterInv, IDsWereInserted

-----------------------------------------------------------------------------
(***************************************************************************)
(* The rows of a replica.  MissingInsert is an insert the slave has not    *)
(* handled; the counter lags behind the master's only for such inserts.    *)
(***************************************************************************)
MissingInsert(s, i) == \E n \in inflight[s] \cup lost[s] : IsInsertOf(n, i)

CounterCovers ==
    \A s \in Slaves :
        /\ replicas[s].nextID <= repository.nextID
        /\ \A i \in IDs :
              replicas[s].nextID <= i /\ i < repository.nextID => MissingInsert(s, i)

RowsInv == NoMissingRow /\ RowsCameFromMaster /\ CounterCovers

\* What one payload does to a replica.
LEMMA ReplicatedRows ==
  ASSUME NEW s \in Slaves, NEW repo \in Repository, NEW p \in Payload,
         NEW new, new = Replicated(s, repo, p)
  PROVE  /\ \A i \in IDs \ {p.id} : new.clients[i] = repo.clients[i]
         /\ p.operation = "insert" =>
               /\ new.clients[p.id] = p.client
               /\ new.nextID = IF p.id >= repo.nextID THEN p.id + 1 ELSE repo.nextID
         /\ p.operation = "update" =>
               /\ \/ new.clients[p.id] = repo.clients[p.id]
                  \/ new.clients[p.id] = p.client /\ Has(repo, p.id)
               /\ new.nextID = repo.nextID
         /\ p.operation = "delete" =>
               /\ new.clients[p.id] = NoClient
               /\ new.nextID = repo.nextID
<1>1. CASE p.operation = "insert"
  BY <1>1 DEF Replicated, Inserted, Repository, Payload
<1>2. CASE p.operation = "update"
  BY <1>2 DEF Replicated, Stored, AcceptsUpdate, CanUpdate, Has, Repository, Payload
<1>3. CASE p.operation = "delete"
  BY <1>3 DEF Replicated, Deleted, Has, Repository, Payload
<1> QED
  BY <1>1, <1>2, <1>3 DEF Payload

\* A step of the master keeps the facts about the rows.
LEMMA MasterStepKeepsRows ==
  ASSUME TypeOK, MasterInv, RowsInv, MasterStep
  PROVE  RowsInv'
<1>1. CASE UNCHANGED <<repository, log>> /\ \A s \in Slaves : inflight'[s] = inflight[s]
  BY <1>1 DEF MasterStep, RowsInv, NoMissingRow, RowsCameFromMaster, CounterCovers,
              MissingInsert, IsInsertOf
<1>2. ASSUME NEW p \in Payload, Written(p),
             DOMAIN log' = DOMAIN log \cup {Len(log) + 1},
             \A s \in Slaves : SentTo(s, Len(log) + 1)
      PROVE  RowsInv'
  <2> DEFINE k == Len(log) + 1
  <2>1. /\ log \in Seq(Payload) /\ log' = Append(log, p)
        /\ repository \in Repository /\ repository' \in Repository
        /\ repository.nextID \in Nat
        /\ p.id \in IDs
    BY <1>2 DEF TypeOK, MasterTypeOK, Written, Repository, Payload
  <2>2. /\ \A n \in DOMAIN log : log'[n] = log[n] /\ n # k
        /\ log'[k] = p
    BY <2>1, Appended
  <2>3. \A s \in Slaves : /\ inflight[s] \subseteq DOMAIN log
                          /\ lost[s] \subseteq DOMAIN log
                          /\ inflight'[s] = inflight[s] \cup {k}
    BY <1>2 DEF TypeOK, SentTo
  <2>4. replicas' = replicas /\ lost' = lost
    BY DEF MasterStep
  <2>5. \A s \in Slaves, i \in IDs : MissingInsert(s, i) => MissingInsert(s, i)'
    BY <2>2, <2>3, <2>4 DEF MissingInsert, IsInsertOf
  <2>6. p.operation = "insert" => \A s \in Slaves : MissingInsert(s, p.id)'
    BY <2>2, <2>3 DEF MissingInsert, IsInsertOf
  <2>7. NoMissingRow'
    <3> SUFFICES ASSUME NEW s \in Slaves, NEW i \in IDs,
                        Has(repository', i), ~ Has(replicas[s], i)
                 PROVE  MissingInsert(s, i)'
      BY <2>4 DEF NoMissingRow, MissingInsert, IsInsertOf
    <3>1. CASE i = p.id /\ p.operation = "insert"
      BY <2>6, <3>1
    <3>2. CASE Has(repository, i)
      BY <2>5, <3>2 DEF RowsInv, NoMissingRow, MissingInsert, IsInsertOf
    <3> QED
      BY <1>2, <3>1, <3>2 DEF Written, Has
  <2>8. RowsCameFromMaster'
    BY <2>2, <2>3, <2>4, <1>2 DEF RowsInv, RowsCameFromMaster
  <2>9. CounterCovers'
    <3> SUFFICES ASSUME NEW s \in Slaves
                 PROVE  /\ replicas[s].nextID <= repository'.nextID
                        /\ \A i \in IDs :
                             replicas[s].nextID <= i /\ i < repository'.nextID
                               => MissingInsert(s, i)'
      BY <2>4 DEF CounterCovers
    <3>1. /\ replicas[s].nextID \in Nat
          /\ replicas[s].nextID <= repository.nextID
      BY DEF RowsInv, CounterCovers, TypeOK, Repository
    <3>2. \/ repository'.nextID = repository.nextID
          \/ /\ p.operation = "insert" /\ p.id = repository.nextID
             /\ repository'.nextID = repository.nextID + 1
      BY <1>2 DEF Written
    <3>3. \A i \in IDs : i < repository'.nextID =>
            i < repository.nextID \/ (p.operation = "insert" /\ i = p.id)
      BY <2>1, <3>2 DEF IDs
    <3> QED
      BY <2>1, <2>5, <2>6, <3>1, <3>2, <3>3 DEF RowsInv, CounterCovers
  <2> QED
    BY <2>7, <2>8, <2>9 DEF RowsInv
<1> QED
  BY <1>1, <1>2, MasterStepKinds

\* So does the arrival of a payload, whichever comes first.
LEMMA DeliverKeepsRows ==
  ASSUME TypeOK, MasterInv, RowsInv, NEW s \in Slaves, NEW n \in inflight[s], Deliver(s, n)
  PROVE  RowsInv'
<1> DEFINE p == log[n]
           new == Replicated(s, replicas[s], p)
<1>0. n \in DOMAIN log /\ log \in Seq(Payload) /\ replicas[s] \in Repository
  BY DEF TypeOK, MasterTypeOK
<1> HIDE DEF new
<1>1. n \in DOMAIN log /\ p \in Payload /\ replicas[s] \in Repository /\ p.id \in IDs
  <2>1. log[n] \in Payload
    BY <1>0
  <2> QED
    BY <1>0, <2>1 DEF Payload
<1>2. /\ replicas'[s] = new
      /\ \A t \in Slaves \ {s} : replicas'[t] = replicas[t]
      /\ inflight'[s] = inflight[s] \ {n}
      /\ \A t \in Slaves \ {s} : inflight'[t] = inflight[t]
      /\ lost' = lost /\ log' = log /\ repository' = repository
  BY DEF new, Deliver, TypeOK, masterVars
<1>3. \A t \in Slaves, i \in IDs :
        MissingInsert(t, i) => MissingInsert(t, i)' \/ (t = s /\ IsInsertOf(n, i))
  BY <1>2 DEF MissingInsert, IsInsertOf
<1>4. /\ \A i \in IDs \ {p.id} : new.clients[i] = replicas[s].clients[i]
      /\ p.operation = "insert" =>
            /\ new.clients[p.id] = p.client
            /\ new.nextID = IF p.id >= replicas[s].nextID THEN p.id + 1 ELSE replicas[s].nextID
      /\ p.operation = "update" =>
            /\ \/ new.clients[p.id] = replicas[s].clients[p.id]
               \/ new.clients[p.id] = p.client /\ Has(replicas[s], p.id)
            /\ new.nextID = replicas[s].nextID
      /\ p.operation = "delete" =>
            /\ new.clients[p.id] = NoClient
            /\ new.nextID = replicas[s].nextID
  BY <1>1, ReplicatedRows DEF new
<1>5. NoMissingRow'
  <2> SUFFICES ASSUME NEW t \in Slaves, NEW i \in IDs,
                      Has(repository, i), ~ Has(replicas'[t], i)
               PROVE  MissingInsert(t, i)'
    BY <1>2 DEF NoMissingRow, MissingInsert, IsInsertOf
  <2>1. log[n].id = i => log[n].operation # "delete"
    BY <1>1, PresentRow
  <2>2. p.client # NoClient
    BY <1>1, NoClientAssumption DEF Payload
  <2>3. ~ Has(replicas[t], i) /\ ~ (t = s /\ IsInsertOf(n, i))
    BY <1>1, <1>2, <1>4, <2>1, <2>2 DEF Has, IsInsertOf, Payload
  <2>4. MissingInsert(t, i)
    BY <2>3 DEF RowsInv, NoMissingRow, MissingInsert, IsInsertOf
  <2> QED
    BY <1>3, <2>3, <2>4
<1>6. RowsCameFromMaster'
  <2> SUFFICES ASSUME NEW t \in Slaves, NEW i \in IDs, Has(replicas'[t], i)
               PROVE  \E m \in DOMAIN log \ inflight'[t] :
                        /\ log[m].id = i
                        /\ log[m].operation # "delete"
                        /\ log[m].client = replicas'[t].clients[i]
    BY <1>2 DEF RowsCameFromMaster
  <2>1. CASE replicas'[t].clients[i] = replicas[t].clients[i]
    <3>1. Has(replicas[t], i)
      BY <2>1 DEF Has
    <3>2. PICK m \in DOMAIN log \ inflight[t] :
              /\ log[m].id = i
              /\ log[m].operation # "delete"
              /\ log[m].client = replicas[t].clients[i]
      BY <3>1 DEF RowsInv, RowsCameFromMaster
    <3>3. m \in DOMAIN log \ inflight'[t]
      BY <1>2, <3>2
    <3> QED
      BY <2>1, <3>2, <3>3
  <2>2. CASE replicas'[t].clients[i] # replicas[t].clients[i]
    <3>1. t = s /\ i = p.id /\ p.operation # "delete" /\ replicas'[t].clients[i] = p.client
      BY <1>1, <1>2, <1>4, <2>2 DEF Payload, Has
    <3> QED
      BY <1>1, <1>2, <3>1
  <2> QED
    BY <2>1, <2>2
<1>7. CounterCovers'
  <2> SUFFICES ASSUME NEW t \in Slaves
               PROVE  /\ replicas'[t].nextID <= repository.nextID
                      /\ \A i \in IDs :
                           replicas'[t].nextID <= i /\ i < repository.nextID
                             => MissingInsert(t, i)'
    BY <1>2 DEF CounterCovers
  <2>1. /\ replicas[t].nextID \in Nat /\ repository.nextID \in Nat
        /\ replicas[t].nextID <= repository.nextID
        /\ \A i \in IDs : replicas[t].nextID <= i /\ i < repository.nextID => MissingInsert(t, i)
    BY DEF RowsInv, CounterCovers, TypeOK, MasterTypeOK, Repository
  <2>2. CASE t # s
    BY <1>2, <1>3, <2>1, <2>2
  <2>3. CASE t = s /\ p.operation = "insert"
    <3>1. p.id < repository.nextID
      BY <1>1 DEF MasterInv, TableInv, LogBelowNextID
    <3>2. replicas'[t].nextID = IF p.id >= replicas[t].nextID THEN p.id + 1 ELSE replicas[t].nextID
      BY <1>2, <1>4, <2>3
    <3>3. \A i \in IDs : IsInsertOf(n, i) => i < replicas'[t].nextID
      BY <2>1, <3>2 DEF IsInsertOf, IDs
    <3>4. \A i \in IDs : replicas'[t].nextID <= i => replicas[t].nextID <= i /\ ~ IsInsertOf(n, i)
      BY <1>1, <2>1, <3>2, <3>3 DEF IDs
    <3>5. replicas'[t].nextID <= repository.nextID
      BY <1>1, <2>1, <3>1, <3>2 DEF IDs
    <3> QED
      BY <1>3, <2>1, <3>4, <3>5
  <2>4. CASE t = s /\ p.operation # "insert"
    <3>1. replicas'[t].nextID = replicas[t].nextID /\ \A i \in IDs : ~ IsInsertOf(n, i)
      BY <1>1, <1>2, <1>4, <2>4 DEF Payload, IsInsertOf
    <3> QED
      BY <1>3, <2>1, <3>1
  <2> QED
    BY <2>2, <2>3, <2>4
<1> QED
  BY <1>5, <1>6, <1>7 DEF RowsInv

\* So do a loss and the restart of a slave: both only move payloads to the lost
\* ones.
LEMMA FailureKeepsRows ==
  ASSUME TypeOK, MasterInv, RowsInv, NEW s \in Slaves,
         Restart(s) \/ \E n \in inflight[s] : Lose(s, n)
  PROVE  RowsInv'
<1>1. ASSUME NEW n \in inflight[s], Lose(s, n) PROVE RowsInv'
  <2>1. /\ \A t \in Slaves : inflight'[t] \cup lost'[t] = inflight[t] \cup lost[t]
        /\ \A t \in Slaves : inflight'[t] \subseteq inflight[t]
        /\ replicas' = replicas /\ log' = log /\ repository' = repository
    BY <1>1 DEF Lose, TypeOK, masterVars
  <2> QED
    BY <2>1 DEF RowsInv, NoMissingRow, RowsCameFromMaster, CounterCovers, MissingInsert,
                IsInsertOf
<1>2. ASSUME Restart(s) PROVE RowsInv'
  <2>1. /\ replicas'[s] = NewClientRepository
        /\ \A t \in Slaves \ {s} : replicas'[t] = replicas[t] /\ lost'[t] = lost[t]
        /\ inflight'[s] \cup lost'[s] = DOMAIN log
        /\ inflight' = inflight /\ log' = log /\ repository' = repository
    BY <1>2 DEF Restart, TypeOK, masterVars
  <2>2. repository.nextID \in Nat /\ 1 <= repository.nextID
    BY DEF TypeOK, MasterTypeOK, Repository
  <2>3. \A i \in IDs : ~ Has(NewClientRepository, i)
    BY DEF Has, NewClientRepository
  <2>4. \A i \in IDs : Has(repository, i) \/ i < repository.nextID => MissingInsert(s, i)'
    BY <2>1, PresentRow DEF MissingInsert, IsInsertOf, MasterInv, IDsWereInserted
  <2>5. NoMissingRow'
    BY <2>1, <2>4 DEF RowsInv, NoMissingRow, MissingInsert, IsInsertOf
  <2>6. RowsCameFromMaster'
    BY <2>1, <2>3 DEF RowsInv, RowsCameFromMaster
  <2>7. CounterCovers'
    <3> SUFFICES ASSUME NEW t \in Slaves
                 PROVE  /\ replicas'[t].nextID <= repository.nextID
                        /\ \A i \in IDs :
                             replicas'[t].nextID <= i /\ i < repository.nextID
                               => MissingInsert(t, i)'
      BY <2>1 DEF CounterCovers
    <3>1. CASE t = s
      BY <2>1, <2>2, <2>4, <3>1 DEF NewClientRepository
    <3>2. CASE t # s
      BY <2>1, <3>2 DEF RowsInv, CounterCovers, MissingInsert, IsInsertOf
    <3> QED
      BY <3>1, <3>2
  <2> QED
    BY <2>5, <2>6, <2>7 DEF RowsInv
<1> QED
  BY <1>1, <1>2

\* A replica shows only what the master had, misses only what it was not given,
\* and its counter lags only for inserts it was not given.
THEOREM RowsCorrect == Spec => []RowsInv
<1>1. Init => RowsInv
  <2> SUFFICES ASSUME Init PROVE RowsInv
    OBVIOUS
  <2>1. repository = NewClientRepository /\ \A s \in Slaves : replicas[s] = NewClientRepository
    BY DEF Init, MasterInit
  <2>2. /\ \A i \in IDs : ~ Has(NewClientRepository, i) /\ 1 <= i
        /\ NewClientRepository.nextID = 1
    BY DEF NewClientRepository, Has, IDs
  <2>3. \A i \in IDs : ~ (1 <= i /\ i < 1)
    BY DEF IDs
  <2> QED
    BY <2>1, <2>2, <2>3 DEF RowsInv, NoMissingRow, RowsCameFromMaster, CounterCovers
<1>2. TypeOK /\ MasterInv /\ RowsInv /\ [Next]_vars => RowsInv'
  <2>1. CASE UNCHANGED vars
    BY <2>1 DEF vars, replicaVars, masterVars, RowsInv, NoMissingRow, RowsCameFromMaster,
                CounterCovers, MissingInsert, IsInsertOf
  <2> QED
    BY <2>1, MasterStepKeepsRows, DeliverKeepsRows, FailureKeepsRows DEF Next
<1> QED
  BY <1>1, <1>2, TypeCorrect, MasterInvAlways, PTL DEF Spec

\* A row a slave does not have was not given to it.
THEOREM NoMissingRowAlways == Spec => []NoMissingRow
  BY RowsCorrect, PTL DEF RowsInv

\* A row a slave has was the master's.
THEOREM RowsCameFromMasterAlways == Spec => []RowsCameFromMaster
  BY RowsCorrect, PTL DEF RowsInv

\* A slave that missed no insert has the master's counter.
THEOREM CounterCatchesUpAlways == Spec => []CounterCatchesUp
<1>1. TypeOK /\ RowsInv => CounterCatchesUp
  <2> SUFFICES ASSUME TypeOK, RowsInv, NEW s \in Slaves,
                      replicas[s].nextID # repository.nextID
               PROVE  \E n \in inflight[s] \cup lost[s] : log[n].operation = "insert"
    BY DEF CounterCatchesUp, RowsInv, CounterCovers
  <2> DEFINE i == repository.nextID - 1
  <2>1. i \in IDs /\ replicas[s].nextID <= i /\ i < repository.nextID
    BY MaxIDAssumption DEF RowsInv, CounterCovers, TypeOK, MasterTypeOK, Repository, IDs
  <2> QED
    BY <2>1 DEF RowsInv, CounterCovers, MissingInsert, IsInsertOf
<1> QED
  BY <1>1, TypeCorrect, RowsCorrect, PTL

-----------------------------------------------------------------------------
(***************************************************************************)
(* Convergence.  Without pipelining and losses a slave is at any time one  *)
(* payload behind the master, or none.  The other two facts are for a      *)
(* restart: it loses nothing only if nothing had been handled.             *)
(***************************************************************************)
AtMostOneBehind(s) ==
    ~ pipelined[s] /\ lost[s] = {} =>
        \/ inflight[s] = {} /\ replicas[s] = repository
        \/ /\ inflight[s] = {Len(log)}
           /\ Replicated(s, replicas[s], log[Len(log)]) = repository

NothingHandled(s) == inflight[s] = DOMAIN log => replicas[s] = NewClientRepository

ConvergeInv ==
    \A s \in Slaves :
        /\ inflight[s] \cap lost[s] = {}
        /\ NothingHandled(s)
        /\ AtMostOneBehind(s)

\* Two repositories with the same rows and the same counter are the same.
LEMMA SameRepository ==
  ASSUME NEW a \in Repository, NEW b \in Repository, a.nextID = b.nextID,
         \A i \in IDs : a.clients[i] = b.clients[i]
  PROVE  a = b
<1>1. a.clients = b.clients
  BY DEF Repository
<1> QED
  BY <1>1 DEF Repository

\* A slave that equals the master before a write equals it again once it has
\* handled the payload: Insert, Update and Delete of the slave do what Create,
\* Update and Delete of the master did, and the slave refuses nothing.
LEMMA ReplicaFollows ==
  ASSUME TypeOK, NationalIDUnique', NEW p \in Payload, Written(p), NEW s \in Slaves
  PROVE  Replicated(s, repository, p) = repository'
<1> DEFINE new == Replicated(s, repository, p)
<1>1. repository \in Repository /\ repository' \in Repository /\ p.id \in IDs
  BY DEF TypeOK, MasterTypeOK, Written, Payload
<1>2. new \in Repository
  BY <1>1, ReplicatedType
<1>3. CASE p.operation = "update"
  <2>1. Has(repository, p.id) /\ p.client # NoClient /\ repository'.clients[p.id] = p.client
    BY <1>3, NoClientAssumption DEF Written, Payload
  <2>2. NoOtherHas(repository, IDs \ {p.id}, p.client.national_id)
    <3> SUFFICES ASSUME NEW i \in IDs \ {p.id}, Has(repository, i),
                        repository.clients[i].national_id = p.client.national_id
                 PROVE  FALSE
      BY DEF NoOtherHas
    <3>1. repository'.clients[i] = repository.clients[i]
      BY DEF Written
    <3> QED
      BY <1>1, <2>1, <3>1 DEF NationalIDUnique, Unique, Has
  <2>3. new = Stored(repository, p.id, p.client)
    BY <1>3, <2>1, <2>2 DEF Replicated, AcceptsUpdate, CanUpdate
  <2>4. new.nextID = repository'.nextID /\ \A i \in IDs : new.clients[i] = repository'.clients[i]
    <3>1. repository'.nextID = repository.nextID
      BY <1>3 DEF Written
    <3>2. \A i \in IDs \ {p.id} : repository'.clients[i] = repository.clients[i]
      BY DEF Written
    <3> HIDE DEF new
    <3> QED
      BY <1>1, <2>1, <2>3, <3>1, <3>2 DEF Stored, Repository
  <2> QED
    BY <1>1, <1>2, <2>4, SameRepository
<1>4. CASE p.operation = "insert"
  <2>1. new = Inserted(repository, p.id, p.client)
    BY <1>4 DEF Replicated
  <2>2. p.id = repository.nextID /\ repository'.nextID = repository.nextID + 1
    BY <1>4 DEF Written
  <2>3. new.nextID = repository'.nextID /\ \A i \in IDs : new.clients[i] = repository'.clients[i]
    <3>1. repository'.clients[p.id] = p.client
      BY <1>4 DEF Written
    <3>2. \A i \in IDs \ {p.id} : repository'.clients[i] = repository.clients[i]
      BY DEF Written
    <3>3. repository.nextID \in Nat
      BY <1>1 DEF Repository
    <3> HIDE DEF new
    <3> QED
      BY <1>1, <2>1, <2>2, <3>1, <3>2, <3>3 DEF Inserted, Repository
  <2> QED
    BY <1>1, <1>2, <2>3, SameRepository
<1>5. CASE p.operation = "delete"
  <2>1. new = Deleted(repository, p.id)
    BY <1>5 DEF Replicated, Written
  <2>2. new.nextID = repository'.nextID /\ \A i \in IDs : new.clients[i] = repository'.clients[i]
    BY <1>1, <1>5, <2>1 DEF Deleted, Written, Repository
  <2> QED
    BY <1>1, <1>2, <2>2, SameRepository
<1> QED
  BY <1>3, <1>4, <1>5 DEF Payload

\* A step of the master leaves a slave at most one payload behind.
LEMMA MasterStepKeepsConverge ==
  ASSUME TypeOK, MasterInv', ConvergeInv, MasterStep
  PROVE  ConvergeInv'
<1>0. replicas' = replicas /\ lost' = lost
  BY DEF MasterStep
<1>1. CASE UNCHANGED <<repository, log>>
           /\ \A s \in Slaves : inflight'[s] = inflight[s] /\ pipelined'[s] = pipelined[s]
  BY <1>0, <1>1 DEF ConvergeInv, NothingHandled, AtMostOneBehind, Replicated, AcceptsUpdate
<1>2. ASSUME NEW p \in Payload, Written(p),
             DOMAIN log' = DOMAIN log \cup {Len(log) + 1},
             \A s \in Slaves : SentTo(s, Len(log) + 1)
      PROVE  ConvergeInv'
  <2> DEFINE k == Len(log) + 1
  <2>1. log \in Seq(Payload) /\ log' = Append(log, p)
    BY <1>2 DEF TypeOK, MasterTypeOK, Written
  <2>2. k \notin DOMAIN log /\ Len(log') = k /\ log'[k] = p
    BY <2>1, Appended
  <2> SUFFICES ASSUME NEW s \in Slaves
               PROVE  /\ inflight'[s] \cap lost'[s] = {}
                      /\ NothingHandled(s)'
                      /\ AtMostOneBehind(s)'
    BY DEF ConvergeInv
  <2>3. /\ inflight'[s] = inflight[s] \cup {k}
        /\ pipelined'[s] = (pipelined[s] \/ inflight[s] # {})
        /\ inflight[s] \subseteq DOMAIN log /\ lost[s] \subseteq DOMAIN log
    BY <1>2 DEF SentTo, TypeOK
  <2>4. inflight'[s] \cap lost'[s] = {}
    BY <1>0, <2>2, <2>3 DEF ConvergeInv
  <2>5. NothingHandled(s)'
    <3>1. inflight'[s] = DOMAIN log' => inflight[s] = DOMAIN log
      BY <1>2, <2>2, <2>3
    <3> QED
      BY <1>0, <3>1 DEF ConvergeInv, NothingHandled
  <2>6. ASSUME ~ pipelined'[s], lost'[s] = {}
        PROVE  inflight'[s] = {Len(log')} /\ Replicated(s, replicas[s], p) = repository'
    <3>1. inflight[s] = {} /\ replicas[s] = repository
      BY <1>0, <2>3, <2>6 DEF ConvergeInv, AtMostOneBehind
    <3>2. NationalIDUnique'
      BY DEF MasterInv, TableInv
    <3> QED
      BY <1>2, <2>2, <2>3, <3>1, <3>2, ReplicaFollows
  <2>7. AtMostOneBehind(s)'
    BY <1>0, <2>2, <2>6 DEF AtMostOneBehind, Replicated, AcceptsUpdate
  <2> QED
    BY <2>4, <2>5, <2>7
<1> QED
  BY <1>1, <1>2, MasterStepKinds

\* So does the arrival of a payload.
LEMMA DeliverKeepsConverge ==
  ASSUME TypeOK, ConvergeInv, NEW s \in Slaves, NEW n \in inflight[s], Deliver(s, n)
  PROVE  ConvergeInv'
<1>1. /\ replicas'[s] = Replicated(s, replicas[s], log[n])
      /\ \A t \in Slaves \ {s} : replicas'[t] = replicas[t] /\ inflight'[t] = inflight[t]
      /\ inflight'[s] = inflight[s] \ {n}
      /\ pipelined' = pipelined /\ lost' = lost /\ log' = log /\ repository' = repository
      /\ n \in DOMAIN log
  BY DEF Deliver, TypeOK, masterVars
<1> SUFFICES ASSUME NEW t \in Slaves
             PROVE  /\ inflight'[t] \cap lost'[t] = {}
                    /\ NothingHandled(t)'
                    /\ AtMostOneBehind(t)'
  BY DEF ConvergeInv
<1>2. CASE t # s
  BY <1>1, <1>2 DEF ConvergeInv, NothingHandled, AtMostOneBehind, Replicated, AcceptsUpdate
<1>3. CASE t = s
  <2>1. inflight'[s] \cap lost'[s] = {}
    BY <1>1 DEF ConvergeInv
  <2>2. NothingHandled(s)'
    BY <1>1 DEF NothingHandled
  <2>3. ~ pipelined[s] /\ lost[s] = {} => inflight'[s] = {} /\ replicas'[s] = repository
    BY <1>1 DEF ConvergeInv, AtMostOneBehind
  <2>4. AtMostOneBehind(s)'
    BY <1>1, <2>3 DEF AtMostOneBehind
  <2> QED
    BY <1>3, <2>1, <2>2, <2>4
<1> QED
  BY <1>2, <1>3

\* A loss ends the promise for the slave; a restart does too, unless the slave
\* had handled nothing yet.
LEMMA FailureKeepsConverge ==
  ASSUME TypeOK, ConvergeInv, NEW s \in Slaves,
         Restart(s) \/ \E n \in inflight[s] : Lose(s, n)
  PROVE  ConvergeInv'
<1>1. ASSUME NEW n \in inflight[s], Lose(s, n) PROVE ConvergeInv'
  <2>1. /\ replicas' = replicas
        /\ \A t \in Slaves \ {s} : inflight'[t] = inflight[t] /\ lost'[t] = lost[t]
        /\ inflight'[s] = inflight[s] \ {n}
        /\ lost'[s] = lost[s] \cup {n}
        /\ pipelined' = pipelined /\ log' = log /\ repository' = repository
        /\ n \in DOMAIN log
    BY <1>1 DEF Lose, TypeOK, masterVars
  <2> SUFFICES ASSUME NEW t \in Slaves
               PROVE  /\ inflight'[t] \cap lost'[t] = {}
                      /\ NothingHandled(t)'
                      /\ AtMostOneBehind(t)'
    BY DEF ConvergeInv
  <2>2. CASE t # s
    BY <2>1, <2>2 DEF ConvergeInv, NothingHandled, AtMostOneBehind, Replicated, AcceptsUpdate
  <2>3. CASE t = s
    BY <2>1, <2>3 DEF ConvergeInv, NothingHandled, AtMostOneBehind
  <2> QED
    BY <2>2, <2>3
<1>2. ASSUME Restart(s) PROVE ConvergeInv'
  <2>1. /\ replicas'[s] = NewClientRepository
        /\ \A t \in Slaves \ {s} : replicas'[t] = replicas[t] /\ lost'[t] = lost[t]
        /\ inflight' = inflight
        /\ lost'[s] = DOMAIN log \ inflight[s]
        /\ pipelined' = pipelined /\ log' = log /\ repository' = repository
        /\ inflight[s] \subseteq DOMAIN log /\ lost[s] \subseteq DOMAIN log
    BY <1>2 DEF Restart, TypeOK, masterVars
  <2> SUFFICES ASSUME NEW t \in Slaves
               PROVE  /\ inflight'[t] \cap lost'[t] = {}
                      /\ NothingHandled(t)'
                      /\ AtMostOneBehind(t)'
    BY DEF ConvergeInv
  <2>2. CASE t # s
    BY <2>1, <2>2 DEF ConvergeInv, NothingHandled, AtMostOneBehind, Replicated, AcceptsUpdate
  <2>3. CASE t = s
    <3>1. inflight'[s] \cap lost'[s] = {} /\ NothingHandled(s)'
      BY <2>1 DEF NothingHandled
    <3>2. ASSUME lost'[s] = {} PROVE lost[s] = {} /\ replicas'[s] = replicas[s]
      BY <2>1, <3>2 DEF ConvergeInv, NothingHandled
    <3>3. AtMostOneBehind(s)'
      BY <2>1, <3>2 DEF ConvergeInv, AtMostOneBehind, Replicated, AcceptsUpdate
    <3> QED
      BY <2>3, <3>1, <3>3
  <2> QED
    BY <2>2, <2>3
<1> QED
  BY <1>1, <1>2

\* A slave is at most one payload behind, if it gets each before the next write.
THEOREM ConvergeCorrect == Spec => []ConvergeInv
<1>1. Init => ConvergeInv
  BY DEF Init, MasterInit, ConvergeInv, NothingHandled, AtMostOneBehind
<1>2. TypeOK /\ MasterInv' /\ ConvergeInv /\ [Next]_vars => ConvergeInv'
  <2>1. CASE UNCHANGED vars
    BY <2>1 DEF vars, replicaVars, masterVars, ConvergeInv, NothingHandled, AtMostOneBehind,
                Replicated, AcceptsUpdate
  <2> QED
    BY <2>1, MasterStepKeepsConverge, DeliverKeepsConverge, FailureKeepsConverge DEF Next
<1> QED
  BY <1>1, <1>2, TypeCorrect, MasterInvAlways, PTL DEF Spec

\* A slave that missed nothing, and got each payload before the next write, has
\* the master's repository.
THEOREM SerialWritesConvergeAlways == Spec => []SerialWritesConverge
<1>1. TypeOK /\ ConvergeInv => SerialWritesConverge
  BY DEF ConvergeInv, AtMostOneBehind, SerialWritesConverge
<1> QED
  BY <1>1, TypeCorrect, ConvergeCorrect, PTL
=============================================================================
