---------------------------- MODULE Replication -----------------------------
(***************************************************************************)
(* The master with the slaves it replicates to: internal/replication on    *)
(* one side, POST /replicate of internal/slave and of app.py on the other. *)
(*                                                                         *)
(* Replicate gives one payload to one goroutine per slave, which sends it  *)
(* once with a timeout of five seconds; nothing orders two goroutines and  *)
(* nothing is sent again.  So inflight[s], the payloads that slave s may   *)
(* still receive, is a set of places in the master's log: any member can   *)
(* arrive next, and any member can be lost.  A slave keeps its table in    *)
(* memory, and a restarted slave comes back empty.                         *)
(***************************************************************************)
EXTENDS Master

CONSTANTS Slaves,        \* the URLs given to replication.New
          PythonSlaves   \* those that run app.py (Slave2 and Slave4)

ASSUME SlavesAssumption == PythonSlaves \subseteq Slaves

VARIABLES replicas,   \* the repository of each slave
          inflight,   \* the payloads sent to each slave and not yet handled
          lost,       \* history: the payloads a slave missed, or forgot by a restart
          pipelined   \* history: was a write issued while one was in flight to the slave

replicaVars == <<replicas, inflight, lost, pipelined>>

vars == <<masterVars, replicaVars>>

TypeOK ==
    /\ MasterTypeOK
    /\ replicas \in [Slaves -> Repository]
    /\ inflight \in [Slaves -> SUBSET DOMAIN log]
    /\ lost \in [Slaves -> SUBSET DOMAIN log]
    /\ pipelined \in [Slaves -> BOOLEAN]

Init ==
    /\ MasterInit
    /\ replicas = [s \in Slaves |-> NewClientRepository]
    /\ inflight = [s \in Slaves |-> {}]
    /\ lost = [s \in Slaves |-> {}]
    /\ pipelined = [s \in Slaves |-> FALSE]

-----------------------------------------------------------------------------
\* Mutant: the payload goes to no slave that still has one in flight.
SendSkipsBusy ==
    /\ inflight' = [s \in Slaves |-> IF inflight[s] = {}
                                     THEN DOMAIN log' \ DOMAIN log
                                     ELSE inflight[s]]
    /\ pipelined' = [s \in Slaves |-> pipelined[s] \/ (log' # log /\ inflight[s] # {})]

\* The goroutines Replicate starts: what the step added to the log, to every slave.
Send ==
    /\ inflight' = [s \in Slaves |-> inflight[s] \cup (DOMAIN log' \ DOMAIN log)]
    /\ pipelined' = [s \in Slaves |-> pipelined[s] \/ (log' # log /\ inflight[s] # {})]

MasterStep == MasterNext /\ Send /\ UNCHANGED <<replicas, lost>>

-----------------------------------------------------------------------------
(***************************************************************************)
(* The Replicate handlers.  A Go slave refuses an update that would repeat *)
(* a national ID, app.py does not look.  An update or delete of an absent  *)
(* row is answered 404 (Go) or 500 (Python) and changes nothing; the       *)
(* sender logs the answer and forgets the payload.  insert_client of       *)
(* app.py stores the row and moves the counter under two locks, one after  *)
(* the other: Deliver is the moment of the first.  The counter is moved    *)
(* early in the model, which no other handler of this module can tell:     *)
(* OneMaster shows it.                                                     *)
(***************************************************************************)
\* Mutant: a Go slave does not leave the row itself out of the comparison.
AcceptsUpdateSelfConflict(s, repo, p) ==
    IF s \in PythonSlaves
    THEN Has(repo, p.id)
    ELSE Has(repo, p.id) /\ NoOtherHas(repo, IDs, p.client.national_id)

AcceptsUpdate(s, repo, p) ==
    IF s \in PythonSlaves
    THEN Has(repo, p.id)
    ELSE CanUpdate(repo, p.id, p.client)

Replicated(s, repo, p) ==
    CASE p.operation = "insert" -> Inserted(repo, p.id, p.client)
      [] p.operation = "update" /\ AcceptsUpdate(s, repo, p) -> Stored(repo, p.id, p.client)
      [] p.operation = "delete" /\ Has(repo, p.id) -> Deleted(repo, p.id)
      [] OTHER -> repo

Deliver(s, n) ==
    /\ n \in inflight[s]
    /\ replicas' = [replicas EXCEPT ![s] = Replicated(s, @, log[n])]
    /\ inflight' = [inflight EXCEPT ![s] = @ \ {n}]
    /\ UNCHANGED <<masterVars, lost, pipelined>>

\* The slave is down, unreachable or too slow: the goroutine logs and ends.
Lose(s, n) ==
    /\ n \in inflight[s]
    /\ inflight' = [inflight EXCEPT ![s] = @ \ {n}]
    /\ lost' = [lost EXCEPT ![s] = @ \cup {n}]
    /\ UNCHANGED <<masterVars, replicas, pipelined>>

\* The slave's process is started again; what it had applied is gone.
Restart(s) ==
    /\ replicas' = [replicas EXCEPT ![s] = NewClientRepository]
    /\ lost' = [lost EXCEPT ![s] = DOMAIN log \ inflight[s]]
    /\ UNCHANGED <<masterVars, inflight, pipelined>>

Next ==
    \/ MasterStep
    \/ \E s \in Slaves : \E n \in inflight[s] : Deliver(s, n)
    \/ \E s \in Slaves : \E n \in inflight[s] : Lose(s, n)
    \/ \E s \in Slaves : Restart(s)

Spec == Init /\ [][Next]_vars

(***************************************************************************)
(* The sender's timeout ends every send, one way or the other.             *)
(***************************************************************************)
Settle(s) == \E n \in inflight[s] : Deliver(s, n) \/ Lose(s, n)

FairSpec == Spec /\ \A s \in Slaves : WF_vars(Settle(s))

-----------------------------------------------------------------------------
(***************************************************************************)
(* Safety                                                                  *)
(***************************************************************************)
\* A client the master has is on a slave too, or its insert is still on the
\* way to that slave or was missed by it: no order of arrival of the updates
\* and deletes of other clients, and none of this one's, hides a row.
NoMissingRow ==
    \A s \in Slaves, i \in IDs :
        Has(repository, i) /\ ~ Has(replicas[s], i) =>
            \E n \in inflight[s] \cup lost[s] : log[n].operation = "insert" /\ log[n].id = i

\* What a slave shows under an ID, the master had under this ID at some time:
\* no mixture of two clients, no row under another client's ID.
RowsCameFromMaster ==
    \A s \in Slaves, i \in IDs :
        Has(replicas[s], i) =>
            \E n \in DOMAIN log \ inflight[s] :
                /\ log[n].id = i
                /\ log[n].operation # "delete"
                /\ log[n].client = replicas[s].clients[i]

\* A slave's ID counter never runs ahead of the master's, and has reached it
\* once no insert is missing: a slave that then takes over as temporary master
\* gives a new client an ID the master never used, deleted clients included
\* (in app.py once the handlers of the inserts have ended).
CounterCatchesUp ==
    \A s \in Slaves :
        /\ replicas[s].nextID <= repository.nextID
        /\ \/ replicas[s].nextID = repository.nextID
           \/ \E n \in inflight[s] \cup lost[s] : log[n].operation = "insert"

\* If every write was issued only after the one before had reached the slave,
\* and none was missed, the slave's repository is the master's, on the Go and
\* on the Python slaves.
SerialWritesConverge ==
    \A s \in Slaves :
        ~ pipelined[s] /\ lost[s] = {} /\ inflight[s] = {} => replicas[s] = repository

\* "Every successful write on the master is copied to all slave nodes": once
\* all payloads arrived and none was missed, the tables are equal.
CopiedToAllSlaves ==
    \A s \in Slaves :
        lost[s] = {} /\ inflight[s] = {} => replicas[s].clients = repository.clients

(***************************************************************************)
(* Liveness                                                                *)
(***************************************************************************)
\* A client that stays on the master gets to every slave that misses nothing.
RowsArrive ==
    \A s \in Slaves, i \in IDs :
        <>[](Has(repository, i) /\ lost[s] = {}) => <>[]Has(replicas[s], i)
=============================================================================
