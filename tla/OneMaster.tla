----------------------------- MODULE OneMaster -------------------------------
(***************************************************************************)
(* The cluster while nobody but the master writes and the master keeps     *)
(* running.  Replication models this case on its own and in less detail:   *)
(* it moves the counter of a Python slave together with the row, though    *)
(* insert_client of app.py does so under a second lock; it leaves out what *)
(* a Go slave's binding refuses, because the master's binding lets no such *)
(* client pass; and it writes down what a slave missed.  The mapping below *)
(* says how Replication sees the tables of Cluster.                        *)
(***************************************************************************)
EXTENDS Cluster, FiniteSetsExt

VARIABLE pipelined   \* history: was a write issued while one was in flight to the slave

oneMasterVars == <<vars, pipelined>>

OneMasterInit == Init /\ pipelined = [s \in Slaves |-> FALSE]

MasterWrites ==
    \/ \E client \in Client : CreateClient(Master, client)
    \/ \E id \in IDs, client \in Client : UpdateClient(Master, id, client)
    \/ \E id \in IDs : DeleteClient(Master, id)

OneMasterNext ==
    /\ \/ MasterWrites
       \/ \E s \in Slaves : \E k \in inflight[s] : Deliver(s, k)
       \/ \E s \in PythonSlaves : \E k \in advancing[s] : MoveCounter(s, k)
       \/ \E s \in Slaves : \E k \in inflight[s] : Lose(s, k)
       \/ \E s \in Slaves : Restart(s)
    /\ pipelined' = [s \in Slaves |-> pipelined[s] \/ (log' # log /\ inflight[s] # {})]

OneMasterSpec == OneMasterInit /\ [][OneMasterNext]_oneMasterVars

-----------------------------------------------------------------------------
(***************************************************************************)
(* The mapping                                                             *)
(***************************************************************************)
\* The payloads as the slaves get them.
Sent == [k \in DOMAIN log |-> [operation |-> log[k].operation,
                               id        |-> log[k].id,
                               client    |-> log[k].client]]

\* The counter a Python slave has, and those that its inserts between the two
\* locks will give it.
Reached(s) == {tables[s].nextID} \cup {log[k].id + 1 : k \in advancing[s]}

\* The repository of a slave once the inserts it is at are over.
Finished(s) == IF s \in PythonSlaves THEN [tables[s] EXCEPT !.nextID = Max(Reached(s))]
                                     ELSE tables[s]

\* What was sent to a slave and will not be in its table: lost, or forgotten.
Missed(s) == DOMAIN log \ (Handled(s) \cup inflight[s])

\* A write of the master may be an approved one: Cluster does not ask where it
\* comes from, and there are no pending requests in this instance.
Replicas == INSTANCE Replication WITH
    Calls           <- {},
    NoRequest       <- NoClient,
    MaxRequests     <- 0,
    repository      <- tables[Master],
    pendingRequests <- [r \in 1 .. 0 |-> NoClient],
    nextPendingID   <- 1,
    calls           <- [c \in {} |-> NoClient],
    log             <- Sent,
    applied         <- [r \in 1 .. 0 |-> 0],
    replicas        <- [s \in Slaves |-> Finished(s)],
    lost            <- [s \in Slaves |-> Missed(s)]

\* While only the master writes, every step of Cluster is a step of Replication
\* or, at the second lock of insert_client, none at all.  So no interleaving of
\* the two locks with other payloads, losses and restarts leads to rows, or to
\* counters once they are moved, that one step for both could not lead to.
KeepsReplication == Replicas!Spec
=============================================================================
