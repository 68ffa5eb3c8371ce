------------------------------ MODULE Cluster --------------------------------
(***************************************************************************)
(* All tables together: the master, and slaves that also write as          *)
(* temporary masters.                                                      *)
(*                                                                         *)
(* Any slave may perform a write at any time: in Failover a slow master    *)
(* and failed health checks suffice (createDuringFailover and its          *)
(* neighbours in Go, _local_create and its neighbours in app.py).  It      *)
(* sends the write to the other slaves and not to the master, which has no *)
(* /replicate.  Any process may be started again with an empty table; the  *)
(* master then counts from 1 again.                                        *)
(*                                                                         *)
(* The steps are the critical sections.  On the master and on a Go slave a *)
(* write is one; in app.py a create takes its ID under next_id_lock and    *)
(* stores the row under db_lock, and insert_client stores the row under    *)
(* db_lock and moves the counter under next_id_lock.  As in Replication a  *)
(* payload is sent in the step that changes the table, and the sends to a  *)
(* slave are a set of places in the log: any can arrive next or be lost.   *)
(***************************************************************************)
EXTENDS ClientStore, Sequences

CONSTANTS Master,
          GoSlaves,      \* Slave1 and Slave3
          PythonSlaves,  \* Slave2 and Slave4
          BadEmails,     \* details with an e-mail that only app.py lets pass
          MaxWrites,     \* BOUND: the writes begun
          MaxRestarts    \* BOUND: how often a process is started again

Slaves == GoSlaves \cup PythonSlaves

GoNodes == {Master} \cup GoSlaves

Nodes == {Master} \cup Slaves

ASSUME ClusterAssumption ==
    /\ Master \notin Slaves
    /\ GoSlaves \cap PythonSlaves = {}
    /\ BadEmails \subseteq Details
    /\ MaxWrites \in Nat
    /\ MaxRestarts \in Nat

VARIABLES tables,      \* the repository of every node
          creating,    \* app.py: the creates that have an ID and no row yet
          advancing,   \* app.py: the inserts that have a row and did not move the counter
          log,         \* history: the payloads, whoever sent them
          inflight,    \* the payloads sent to each slave and not yet handled
          known,       \* history: the payloads a node wrote or handled since its start
          started,     \* the number of writes begun
          overlapped,  \* history: has a write begun before all others had ended
          outOfStep,   \* history: has a node written that was behind, or runs app.py
          restarts

vars == <<tables, creating, advancing, log, inflight, known,
          started, overlapped, outOfStep, restarts>>

Places == Nat \ {0}   \* of the log

Payload == [from : Nodes,                               \* whoever acted as master
            operation : {"insert", "update", "delete"},
            id : IDs,
            client : Client,
            knew : SUBSET Places]                       \* history: what it knew of when it chose

Creating == [id : IDs, client : Client, knew : SUBSET Places]

TypeOK ==
    /\ tables \in [Nodes -> Repository]
    /\ creating \in [PythonSlaves -> SUBSET Creating]
    /\ advancing \in [PythonSlaves -> SUBSET DOMAIN log]
    /\ log \in Seq(Payload)
    /\ inflight \in [Slaves -> SUBSET DOMAIN log]
    /\ known \in [Nodes -> SUBSET DOMAIN log]
    /\ started \in 0 .. MaxWrites
    /\ overlapped \in BOOLEAN
    /\ outOfStep \in BOOLEAN
    /\ restarts \in 0 .. MaxRestarts

Init ==
    /\ tables = [n \in Nodes |-> NewClientRepository]
    /\ creating = [s \in PythonSlaves |-> {}]
    /\ advancing = [s \in PythonSlaves |-> {}]
    /\ log = <<>>
    /\ inflight = [s \in Slaves |-> {}]
    /\ known = [n \in Nodes |-> {}]
    /\ started = 0
    /\ overlapped = FALSE
    /\ outOfStep = FALSE
    /\ restarts = 0

-----------------------------------------------------------------------------
(***************************************************************************)
(* Writes                                                                  *)
(***************************************************************************)
\* No send and no handler is under way.
Quiet ==
    /\ \A s \in Slaves : inflight[s] = {}
    /\ \A s \in PythonSlaves : creating[s] = {} /\ advancing[s] = {}

Begin(n) ==
    /\ started < MaxWrites   \* BOUND
    /\ started' = started + 1
    /\ overlapped' = (overlapped \/ ~ Quiet)
    /\ outOfStep' = (outOfStep \/ n \in PythonSlaves \/ known[n] # DOMAIN log)

\* The URLs given to replication.New, the loop of _replicate_to_all.
Receivers(n) == Slaves \ {n}

Replicate(n, operation, id, client, knew) ==
    /\ log' = Append(log, [from |-> n, operation |-> operation, id |-> id,
                           client |-> client, knew |-> knew])
    /\ known' = [known EXCEPT ![n] = @ \cup {Len(log) + 1}]
    /\ inflight' = [s \in Slaves |-> IF s \in Receivers(n)
                                     THEN inflight[s] \cup {Len(log) + 1}
                                     ELSE inflight[s]]

\* The binding tags of a Go node look at the e-mail address.
Valid(n, client) == n \in GoNodes => client.details \notin BadEmails

CreateClient(n, client) ==
    /\ n \in GoNodes
    /\ Begin(n)
    /\ tables[n].nextID \in IDs   \* BOUND
    /\ Valid(n, client)
    /\ CanCreate(tables[n], client)
    /\ tables' = [tables EXCEPT ![n] = Created(@, client)]
    /\ Replicate(n, "insert", tables[n].nextID, client, known[n])
    /\ UNCHANGED <<creating, advancing, restarts>>

\* Go looks for other rows with the national ID, app.py does not.
MayUpdate(n, id, client) ==
    /\ Has(tables[n], id)
    /\ Valid(n, client)
    /\ n \in GoNodes => CanUpdate(tables[n], id, client)

UpdateClient(n, id, client) ==
    /\ Begin(n)
    /\ MayUpdate(n, id, client)
    /\ tables' = [tables EXCEPT ![n] = Stored(@, id, client)]
    /\ Replicate(n, "update", id, client, known[n])
    /\ UNCHANGED <<creating, advancing, restarts>>

\* The earlier GetByID of a Go slave only gets the row to send; of that row the
\* receivers use the ID.
DeleteClient(n, id) ==
    /\ Begin(n)
    /\ Has(tables[n], id)
    /\ tables' = [tables EXCEPT ![n] = Deleted(@, id)]
    /\ Replicate(n, "delete", id, tables[n].clients[id], known[n])
    /\ UNCHANGED <<creating, advancing, restarts>>

\* Mutant: the counter is read under the lock and moved with the row.
TakeIDUnmoved(s, client) ==
    /\ Begin(s)
    /\ tables[s].nextID \in IDs
    /\ creating' = [creating EXCEPT ![s] = @ \cup {[id     |-> tables[s].nextID,
                                                    client |-> client,
                                                    knew   |-> known[s]]}]
    /\ UNCHANGED <<tables, advancing, log, inflight, known, restarts>>

\* _local_create, under next_id_lock.
TakeID(s, client) ==
    /\ Begin(s)
    /\ tables[s].nextID \in IDs   \* BOUND
    /\ creating' = [creating EXCEPT ![s] = @ \cup {[id     |-> tables[s].nextID,
                                                    client |-> client,
                                                    knew   |-> known[s]]}]
    /\ tables' = [tables EXCEPT ![s].nextID = @ + 1]
    /\ UNCHANGED <<advancing, log, inflight, known, restarts>>

\* What a create of app.py goes by: what had been handled when it took its ID,
\* and the slave's own writes.
Seen(s, c) == c.knew \cup {k \in known[s] : log[k].from = s}

\* _local_create, under db_lock, and the sends that follow.
StoreClient(s, c) ==
    /\ c \in creating[s]
    /\ creating' = [creating EXCEPT ![s] = @ \ {c}]
    /\ tables' = [tables EXCEPT ![s] = Stored(@, c.id, c.client)]
    /\ Replicate(s, "insert", c.id, c.client, Seen(s, c))
    /\ UNCHANGED <<advancing, started, overlapped, outOfStep, restarts>>

-----------------------------------------------------------------------------
(***************************************************************************)
(* The /replicate handlers.  A Go slave binds the whole payload, that of a *)
(* delete too.  What is refused changes nothing and is not sent again.     *)
(***************************************************************************)
\* Mutant: a row is looked up by its national ID.
AcceptsByNationalID(s, p) ==
    /\ Valid(s, p.client)
    /\ p.operation # "insert" => ~ NoOtherHas(tables[s], IDs, p.client.national_id)

Accepts(s, p) ==
    /\ Valid(s, p.client)
    /\ p.operation # "insert" => Has(tables[s], p.id)
    /\ p.operation = "update" => MayUpdate(s, p.id, p.client)

Applied(s, p) ==
    IF ~ Accepts(s, p)
    THEN tables[s]
    ELSE CASE p.operation = "delete" -> Deleted(tables[s], p.id)
           [] p.operation = "insert" /\ s \in GoSlaves
                                     -> Inserted(tables[s], p.id, p.client)
           [] OTHER                  -> Stored(tables[s], p.id, p.client)

\* insert_client leaves its second lock to MoveCounter, which ends the handler.
Unfinished(s, k) == s \in PythonSlaves /\ log[k].operation = "insert"

Deliver(s, k) ==
    /\ k \in inflight[s]
    /\ inflight' = [inflight EXCEPT ![s] = @ \ {k}]
    /\ tables' = [tables EXCEPT ![s] = Applied(s, log[k])]
    /\ IF Unfinished(s, k)
       THEN /\ advancing' = [advancing EXCEPT ![s] = @ \cup {k}]
            /\ known' = known
       ELSE /\ known' = [known EXCEPT ![s] = @ \cup {k}]
            /\ advancing' = advancing
    /\ UNCHANGED <<creating, log, started, overlapped, outOfStep, restarts>>

\* Mutant: the comparison is off by one.
MoveCounterLate(s, k) ==
    /\ k \in advancing[s]
    /\ advancing' = [advancing EXCEPT ![s] = @ \ {k}]
    /\ known' = [known EXCEPT ![s] = @ \cup {k}]
    /\ tables' = [tables EXCEPT ![s].nextID = IF log[k].id > @ THEN log[k].id + 1 ELSE @]
    /\ UNCHANGED <<creating, log, inflight, started, overlapped, outOfStep, restarts>>

MoveCounter(s, k) ==
    /\ k \in advancing[s]
    /\ advancing' = [advancing EXCEPT ![s] = @ \ {k}]
    /\ known' = [known EXCEPT ![s] = @ \cup {k}]
    /\ tables' = [tables EXCEPT ![s].nextID = IF log[k].id >= @ THEN log[k].id + 1 ELSE @]
    /\ UNCHANGED <<creating, log, inflight, started, overlapped, outOfStep, restarts>>

\* The send fails or times out.
Lose(s, k) ==
    /\ k \in inflight[s]
    /\ inflight' = [inflight EXCEPT ![s] = @ \ {k}]
    /\ UNCHANGED <<tables, creating, advancing, log, known,
                   started, overlapped, outOfStep, restarts>>

Restart(n) ==
    /\ restarts < MaxRestarts   \* BOUND
    /\ restarts' = restarts + 1
    /\ tables' = [tables EXCEPT ![n] = NewClientRepository]
    /\ known' = [known EXCEPT ![n] = {}]
    /\ creating' = [s \in PythonSlaves |-> IF s = n THEN {} ELSE creating[s]]
    /\ advancing' = [s \in PythonSlaves |-> IF s = n THEN {} ELSE advancing[s]]
    /\ UNCHANGED <<log, inflight, started, overlapped, outOfStep>>

Next ==
    \/ \E n \in Nodes, client \in Client : CreateClient(n, client)
    \/ \E n \in Nodes, id \in IDs, client \in Client : UpdateClient(n, id, client)
    \/ \E n \in Nodes, id \in IDs : DeleteClient(n, id)
    \/ \E s \in PythonSlaves, client \in Client : TakeID(s, client)
    \/ \E s \in PythonSlaves : \E c \in creating[s] : StoreClient(s, c)
    \/ \E s \in Slaves : \E k \in inflight[s] : Deliver(s, k)
    \/ \E s \in PythonSlaves : \E k \in advancing[s] : MoveCounter(s, k)
    \/ \E s \in Slaves : \E k \in inflight[s] : Lose(s, k)
    \/ \E n \in Nodes : Restart(n)

Spec == Init /\ [][Next]_vars

-----------------------------------------------------------------------------
Inserts(k) == k \in DOMAIN log /\ log[k].operation = "insert"

\* Two new clients get one ID only if their nodes did not know of each other's:
\* neither two creates of one process, however they overlap, nor a create after
\* the replicated insert of the other repeat an ID, deleted clients' included.
\* A Go slave does not learn from an insert it refused.
IDsAreFresh ==
    \A j, k \in DOMAIN log :
        /\ Inserts(j) /\ Inserts(k) /\ log[j].id = log[k].id
        /\ Valid(log[k].from, log[j].client)
        => j \notin log[k].knew

\* The counter of every node is past the rows of its table, so that a create
\* takes no row's place, but in app.py while an insert is between its locks.
CountersCoverRows ==
    \A n \in Nodes, i \in IDs :
        Has(tables[n], i) =>
            \/ i < tables[n].nextID
            \/ n \in PythonSlaves /\ \E k \in advancing[n] : log[k].id = i

\* A create of app.py puts its client in the place of another one only if the
\* insert of that one was handled at the same time.
OverwritesOnlyInARace ==
    \A s \in PythonSlaves : \A c \in creating[s] :
        Has(tables[s], c.id) =>
            \E k \in (known[s] \cup advancing[s]) \ Seen(s, c) :
                Inserts(k) /\ log[k].id = c.id

Handled(n) == IF n \in PythonSlaves THEN known[n] \cup advancing[n] ELSE known[n]

\* Whoever acts as master, every row was written by one of them under its ID,
\* and has reached the node since its start.
RowsWereWritten ==
    \A n \in Nodes, i \in IDs :
        Has(tables[n], i) =>
            \E k \in Handled(n) : /\ log[k].id = i
                                  /\ log[k].operation # "delete"
                                  /\ log[k].client = tables[n].clients[i]

\* The writer of k did not know of the insert j, or is a Go node that refused it.
Unaware(k, j) == j \in log[k].knew => ~ Valid(log[k].from, log[j].client)

\* Two inserts under one ID whose writers did not know of each other's.
Collide(j, k) ==
    /\ Inserts(j) /\ Inserts(k) /\ j # k
    /\ log[j].id = log[k].id
    /\ Unaware(j, k) /\ Unaware(k, j)

\* A client whose insert a node has handled leaves its table only by a delete of
\* its ID, and gives its place only to an update of this ID, or to the insert of
\* another client under it whose writer did not know of this one.  No other
\* write, in no order, removes or replaces it: a create of the node itself does
\* neither, if it began after the insert was handled.
ClientsStay ==
    \A n \in Nodes : \A k \in Handled(n) :
        Inserts(k) /\ Valid(n, log[k].client) =>
            IF Has(tables[n], log[k].id)
            THEN \E w \in Handled(n) : /\ w = k \/ log[w].operation = "update" \/ Collide(w, k)
                                      /\ log[w].id = log[k].id
                                      /\ log[w].client = tables[n].clients[log[k].id]
            ELSE \E d \in Handled(n) : log[d].operation = "delete" /\ log[d].id = log[k].id

UpToDate(n) == known[n] = DOMAIN log

\* If no two writes overlap, and only Go nodes that had all the writes before
\* wrote, any two nodes that have all the writes are equal, master, Go slave or
\* Python slave: the checks such a writer makes are those of its receivers.
SerialWritesAgree ==
    ~ overlapped /\ ~ outOfStep =>
        \A m, n \in Nodes : UpToDate(m) /\ UpToDate(n) => tables[m] = tables[n]

\* "sends parallel HTTP POST /replicate requests to all other nodes": a client
\* that all slaves have is on the master, too.
MasterHasTheWrites ==
    /\ Quiet
    /\ restarts = 0
    /\ \A s \in Slaves : UpToDate(s)
    => \A i \in IDs : (\A s \in Slaves : Has(tables[s], i)) => Has(tables[Master], i)
=============================================================================
