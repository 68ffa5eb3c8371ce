# Distributed Banking System: specifications and proofs

TLA+ models of the Distributed Banking System, the TLC instances that check
them, and proofs of the most important properties for all values of the
constants (TLAPS). Line numbers refer to the sources under `src/`.

1. [The system](#1-the-system)
2. [Components: state, operations, properties](#2-components)
3. [What is hard](#3-what-is-hard)
4. [Modules](#4-modules)
5. [Runs](#5-runs)
6. [Proofs](#6-proofs)
7. [Disagreements between code and documentation](#7-disagreements)
8. [What is not modelled](#8-what-is-not-modelled)
9. [Plan](#9-plan)

## 1. The system

A table of bank clients is kept in memory by five processes and persisted by
none of them:

| Process | Code | Language |
|---|---|---|
| Master | `cmd/api`, `internal/handlers`, `internal/repositories`, `internal/replication` | Go |
| Slave1, Slave3 | `cmd/slave`, `cmd/slave3`, `internal/slave/...`, `internal/failover` | Go |
| Slave2, Slave4 | `app.py`, `app_slave4.py` | Python |

    user --POST/PUT/DELETE--> Master --POST /replicate (one goroutine per slave)--> every slave
    user --write--> slave --POST /approve-write--> Master         files the write as pending
                    slave --the write itself----> Master          only if the first call failed
                    slave --GET /health---------> other slaves    only if the second failed: election
                    slave --the write itself----> elected slave   or performs it as temporary master
    administrator --approve / reject (dashboard)--> Master        performs or drops the pending write
    temporary master --POST /replicate----------> the other slaves

`streamlit_app.py` is a dashboard over the same HTTP interface; it also computes
which node it believes to be master.

## 2. Components

**Client tables** (`internal/repositories/client_repository.go`,
`internal/slave/repositories/client_repository.go`, `clients_db` in `app.py`).
State: a map from IDs to clients, and the next ID. Operations: Create, Update,
Delete, and on slaves Insert, which takes the ID from the message. In Go every
operation is one critical section of the table's mutex. Correct when national
IDs are unique and IDs are never used twice.

**Master handlers** (`internal/handlers/client_handler.go`). State: the table,
the map of pending requests and its counter (under `pendingMu`). Operations:
direct create, update, delete; file a request (`/approve-write`); list, approve
and reject requests. Correct when every change reaches the replicator, requests
are stable, and a request is executed exactly when it is approved, once.

**Replicator and `/replicate`** (`internal/replication/replicator.go`,
`Replicate` on the slaves). State: the running goroutines, and the slaves'
tables. Each goroutine sends one payload once, with a timeout of 5 s. Correct
when what a slave shows comes from the master, nothing is missing without a
reason, and a slave's ID counter is fit for taking over.

**Election** (`internal/failover/election.go`, `_elect_master` in `app.py`,
`get_active_master` in `streamlit_app.py`). No state. Ranks the nodes found
online by the distance of their IPv4 address to the failed master's, then by
name. Correct when all implementations agree on equal input.

**Write forwarding and failover** (`ForwardWrite` in
`internal/slave/handlers/client_handler.go`, `forward_write` in `app.py`).
State: one running handler per forwarded write, spread over up to all nodes.
Correct when at most one slave becomes temporary master for a write, the write
does not circle, answers are true, and handlers end.

**Temporary-master writes** (`handleAsTemporaryMaster`, `_handle_local_write`).
The elected slave performs the write on its own table and replicates it to the
other slaves, never to the master. Correct when no client gets an ID that another
client is known to have, no row is lost but by a delete, and nodes that have had the
same writes one after the other agree. What cannot be kept, because each node counts
its own IDs and nothing tells the master, is shown by a counterexample.

**Dashboard, configuration, routing, HTML view, CI**: see section 8.

## 3. What is hard

- **Interleaving.** Gin and `ThreadingHTTPServer` run every request
  concurrently. A decision on a pending request holds no lock between reading
  the request, executing it and saving its status (`client_handler.go:109-130`).
  `app.py` stores a replicated row and moves the counter in two lock regions,
  and takes an ID and stores the row of a local create in two others.
- **Ordering.** Nothing orders two replication goroutines, so an update can
  arrive before the insert of its row, or an old update after a new one.
- **Loss.** A failed send is logged and never repeated. A restarted slave is
  empty and gets nothing again. A restarted master is empty and counts from 1.
- **Timeouts.** A call that timed out may still be performed by the node that
  received it. In `app.py` a timeout while reading an answer is not a `URLError`
  and ends in a 500 instead of a failover.
- **Stale views.** Health checks are made one by one and used after the last;
  two slaves can see different nodes online.
- **Asymmetric replicas.** A Go slave refuses an update whose national ID some
  other row of its own, possibly stale, has; a Python slave does not look.

- **Forgotten requests.** A restarted master numbers pending requests from 1 again,
  so that a click on a list shown before the restart decides another request.

`PROJECT.json` lists each hazard at its line with the properties that cover it. Three
have none, because the code lets them happen: the forgotten requests (nothing tells the
two apart), the national IDs that a temporary master in Python does not check, and the
payloads that a Go node's binding refuses. The last two are conditions of `SerialWritesAgree`,
`IDsAreFresh` and `ClientsStay`, which fail without them.

## 4. Modules

| Module | Models | Builds on |
|---|---|---|
| `ClientStore` | the operations of the client tables, as operators | |
| `Master` | the master's handlers | `ClientStore` |
| `WriteApproval` | abstract: what the master promises for each pending write | |
| `SerialApproval` | the master with one decision at a time, refining `WriteApproval` | `Master`, `WriteApproval` |
| `Replication` | the master composed with its slaves' tables and the sends between them | `Master` |
| `Election` | the ranking in its three implementations, as operators | |
| `ElectionViews` | two electors, or a slave and the dashboard, with views of their own, for any URLs the nodes may have | `Election` |
| `ForwardedWrite` | abstract: what the cluster promises for one write given to a slave | |
| `Failover` | the journey of one write through slaves, master and temporary master, refining `ForwardedWrite` | `Election`, `ForwardedWrite` |
| `Cluster` | the tables of all nodes, where slaves write too and every process restarts | `ClientStore` |
| `OneMaster` | the part of `Cluster` where only the master writes, refining `Replication` | `Cluster`, `Replication` |
| `MasterProofs`, `SerialProofs`, `ReplicationProofs`, `ElectionProofs`, `ElectionViewsProofs`, `FailoverProofs`, `ClusterProofs`, `OneMasterProofs` | the theorems | the module named |
| `MCMaster`, `MCSerial`, `MCReplication`, `MCElection`, `MCFailover`, `MCCluster`, `MCOneMaster` | instances for TLC | the module named (`MCElection`: `ElectionViews`) |

An operator marked "Mutant" in a comment is a plausible bug of the code and is
used by no specification; each property was seen to fail when one of them takes
the place of the definition it follows.

### ClientStore

A repository is a record of `clients` (total on `IDs`, with `NoClient` for an
absent key) and `nextID`. A client is its national ID, which the code compares,
and its `details` (name, phone, e-mail, balance), which it only copies. `Created`,
`Stored`, `Deleted` and `Inserted` are the effects of Create, Update, Delete and
Insert; `CanCreate`, `CanUpdate` and `Has` are the tests that come before them.

### Master

The state is `repository`, `pendingRequests`, `nextPendingID`, the running
decision handlers `calls`, and two history variables: `log`, the payloads given
to `Replicate`, and `applied`, how often each pending request was executed.

The atomic steps are the critical sections. `CreateClient`, `UpdateClient` and
`DeleteClient` have one that matters, filing a request has one, and a decision
has three: `BeginApprove`/`BeginReject` (read the request, test the status),
`ExecutePendingWrite` or `RefusePendingWrite`, and `SaveApproved`/`SaveRejected`.
The handler works with a copy of the request (`calls[c].copy`) from the first of
them on: it executes what the copy asks for, and `SavePendingRequest` puts the
whole copy, with its new status, into the table. What is there by then does not matter
to it, so `RequestsAreStable` has to say that this undoes no other handler's work.

*Why `Replicate` is in the step of the repository.* The handler calls it after the
mutex is released. It only starts one goroutine per slave, and a goroutine is
slow by any amount before it sends. Every order of sends that is possible with
late calls is possible with early calls and slow goroutines, and nothing else
can see the call. So `log` lists the payloads in the order of the mutex.

### SerialApproval and WriteApproval

`WriteApproval` has, for each request, a status and a counter; approving and
executing are one event. The master keeps this promise as long as decisions do
not overlap, which is how the dashboard makes them (one tab waits for each
answer). The refinement mapping counts a request as approved from the moment it
is executed, while the table still says pending. Without that assumption the
promise is broken: run `reject_race`.

### Replication

`inflight[s]` is the set of places in `log` that slave `s` may still receive: any
member may arrive next (`Deliver`) or be lost (`Lose`). `Restart` empties a slave.
`lost` and `pipelined` are history. `Replicated` is what the handler of
`/replicate` does, with the difference between the Go and the Python slaves in
`AcceptsUpdate`. The two lock regions of `insert_client` in `app.py` are one
step here: between them no other handler of this module reads the counter.
`Cluster` takes them apart, where local creates do read it, and `OneMaster` shows that
without such creates one step is enough.

### Election

`url` gives each node a host and a port; a host is an IPv4 address, `localhost`,
or another name, which counts as address 0 as in the code. Each implementation is
translated for itself:

- `ElectMaster` is that of the slaves: it leaves out the failed URL, ranks by
  (distance, name) and takes the `First`. `Distance` is the one of `election.go`, on
  `uint32`: `Minus` wraps around at 2^32 (`Octets`^4), and the code avoids the wrap by
  subtracting the smaller address from the larger. `AbsDistance` is the one of `app.py`
  and the dashboard, `abs` of integers of any size. That the two agree is not assumed: it is
  in `ElectsSortedFirst`, whose reference sorts by `AbsDistance`, and proved (`DistanceIsAbs`).
- `GetActiveMaster` is that of the dashboard: it shows the main master when it sees it,
  otherwise builds triples of distance, order and name (`NodeTuple`, `ActiveCandidates`),
  leaving out the main master by its name and not by its URL, and takes the name of the
  first triple (`SortsBefore`).

`socket.inet_aton` also accepts short forms such as `10.1`, which Go's
`net.ParseIP` does not; such addresses in a configuration would make Go and Python slaves rank
differently, and are left out.

In `ElectionViews` the configuration is the choice of `placement` in `Init`: any
URLs, of which some may be the same by mistake. Slaves and dashboard are assumed to be given the
same configuration. `here` and `there` are the nodes
that two electors find online; they change node by node and need not agree,
because each elector makes its own health checks. In `DashboardAgrees` the first is a
slave and the second the dashboard, which asks for `/clients` instead of `/health`. The
two choose alike unless one does not see the other's choice. The only other exception is
a node that was given the main master's URL: the slaves leave it out, the
dashboard does not.

### Failover

One write is given to one slave (`Submit`). `calls[s]` is the handler of slave
`s`: its stage, the health checks made so far and their results, and its answer.
`Reach`/`Miss` make a call to the master or fail to; `GiveUpOnMaster` is a
timeout, a cut connection or (Go) a cancelled request context, all of which may
come before or after the master handled the call, because the master handles
what is in `toMaster` in steps of its own. `Probe` is one health check,
`TakeOver` performs the write as temporary master, `Delegate` hands it to the
elected slave, whose handler starts from the beginning. A crash ends the
handlers of the node (`dead`); a started node knows nothing of them.

The kinds of writes are told apart by who turns them down: `write` and `delete`
are valid, `wrongEmail` passes in `app.py` only, `incomplete` is noticed by the
Python slaves and not by the Go ones, `unusable` has no JSON or no positive ID.
The tables are a free choice here: a valid write is performed or refused.

`HandlersAdvance` says what a step may never do to a handler: go back to a stage it
has left, or check a node twice. `ForwardedWrite` is the promise without its machinery: the
master acts at most once on each of the two calls a slave makes, at most
one slave performs the write and answers with it, and answers are given once, for a reason. The
mapping reads a call as handled when the master has replied to it, whether or not
the caller still waits; what the master and each slave performed is
`executed`; and a handler's answer is the slave's answer. Elections, crashes, timeouts
and delegations are stutters, or answers.

### Cluster

`Failover` shows that a slave may take over although the master runs, and that
two slaves may do so for two writes. `Cluster` therefore lets any node perform a
write at any time, and follows what that does to the tables. The node sends the
payload to `Receivers`: the slaves except itself, never the master, which has no
`/replicate`.

The steps are the critical sections, and they differ by language. On a Go node
(`GoNodes`) `CreateClient`, `UpdateClient` and `DeleteClient` are one step each.
In `app.py` a create is `TakeID` (under `next_id_lock`) and `StoreClient` (under
`db_lock`); a replicated insert is `Deliver` (stores the row) and `MoveCounter`.
`creating` and `advancing` hold the handlers between their two locks. What a
receiver refuses is `Accepts`: a Go node validates the client by its binding tags
(`Valid`; `BadEmails` are details whose e-mail passes in `app.py` only) and looks
for other rows with its national ID on an update; a Python slave does neither.
`Lose` is a failed or late send. `Restart` empties any node, the master included,
so that its IDs start at 1 again.

History, read by no guard: `log` (who sent what), `known` (the places in `log` a
node wrote or handled since its start), `knew` in a payload (what its writer knew),
`overlapped` (a write began before all others were handled) and `outOfStep` (a
writer was behind, or was a Python slave, whose checks are weaker than its
receivers'). The payload of a local write is sent in the step of the table, for
the reason given under Master.

The properties say what is left of the guarantees of one master:

- `IDsAreFresh`: an ID is given twice only by nodes that did not know of each other's
  insert. It is about the order of the two locks of `_local_create` and of `Insert`.
- `CountersCoverRows`: the counter is past every row, except between the two locks
  of `insert_client`, where `OverwritesOnlyInARace` describes what can happen: a create
  that took its ID there, or before the insert came, puts its client over the
  other. This race is in the code; the property says that a create of `app.py` overwrites
  in no other case. Inserts that arrive are not its subject.
- `RowsWereWritten`: rows come from writers under their ID.
- `ClientsStay`: what may become of a client whose insert a node has handled. Its row leaves only by
  a delete of the ID. Another client takes its place only by an update of the ID,
  or by an insert under the same ID where neither writer knew of the other's (`Collide`):
  the insert of a restarted master, of a master that never got a temporary master's clients, or
  of one of two temporary masters. Such collisions are what the code does; that nothing
  else, in any order of the locks and messages, removes or replaces a client is the property.
- `SerialWritesAgree`: writes that do not overlap, by Go nodes that have all earlier
  writes, leave any two nodes that have all writes equal. Each condition is
  needed: TLC finds a counterexample when one is left out.

### OneMaster

`Replication` and `Cluster` describe the same sends and the same handlers of `/replicate`, and differ in
three things: `Replication` moves a Python slave's counter with the row, knows no
binding on the slaves, and writes down what is lost instead of what is known. `OneMaster` is `Cluster` cut
down to the writes of a master that keeps running, any losses, and restarts of the slaves, and maps it to
`Replication`: the journal without the writer's name, each slave's table with the counter
it will have once the inserts between the locks are over (`Finished`), and as lost what was sent and
is neither in flight nor handled (`Missed`). `MoveCounter` is a stutter. So the two
models agree where both apply, and what is shown of `Replication` holds with two locks.

## 5. Runs

| Run | cfg | Shows |
|---|---|---|
| `master` | `MCMaster.cfg` | consistency of table, journal and requests under two overlapping decisions and direct writes; a request is executed at most once per decision |
| `serial` | `MCSerial.cfg` | refinement of `WriteApproval` with one decision at a time |
| `replication` | `MCReplication.cfg` | what slaves may be relied on for under reordering, loss and restarts; rows arrive |
| `election` | `MCElection.cfg` | the slaves' ranking on 32-bit addresses equals every sort by the absolute distance, electors agree, and the dashboard's own program agrees with them, for all placements and pairs of views |
| `failover` | `MCFailover.cfg` | one temporary master, no circles, true answers, approval first; handlers only go forward; refinement of `ForwardedWrite` |
| `failover_ends` | `MCFailoverEnds.cfg` | every handler ends |
| `cluster` | `MCCluster.cfg` | fresh IDs, counters, where rows come from, what may take a client's place, and agreement, when every node may write and restart |
| `reject_race` | `MCRejectRace.cfg` | counterexample: the table shows a request as rejected that was executed |
| `reordered` | `MCReordered.cfg` | counterexample: all sends arrive and a slave differs |
| `two_masters` | `MCTwoMasters.cfg` | counterexample: master and temporary master perform one write |
| `delete_rejected` | `MCDeleteRejected.cfg` | counterexample: a delete through a slave is turned down |
| `master_behind` | `MCMasterBehind.cfg` | counterexample: all slaves have a client, the master does not |

**Bounds and why they are enough.**

- `master`: 2 IDs, 2 national IDs, 2 requests, 2 overlapping decisions, 4 writes.
  Two clients suffice for a conflict of national IDs, two decisions for every
  race on one request and one request each, four writes for a create, update,
  delete and a create that follows. `Details` has one member: the code never
  compares details, and updates differ by their national ID. National IDs and
  calls are interchangeable and used as symmetry sets (no liveness is checked).
- `serial`: the same with one decision at a time.
- `replication`: one Go and one Python slave, 2 IDs, 2 national IDs, 2 details,
  3 writes. Slaves do not talk to each other here, so one of each kind is enough
  for invariants of a single slave. Three payloads overtake each other in all six orders.
  Restarts and losses are unbounded.
- `election`: four nodes, each at any of five hosts (localhost, an unknown name,
  and addresses close to localhost on both sides and far from it), Slave2 with a port of its own or
  the main master's, so that it may have the main master's URL: 1250 placements, all pairs of
  views. An octet goes up to 127 instead of 255 (`Octets`), the least for which 127.0.0.1 is an
  address, and a word is `Octets`^4, so that TLC's integers hold it. Distances wrap in it as in the code.
- `failover`: three slaves, two Go and one Python, the closest, and two at equal
  distance. The longest journey visits all three. One crash anywhere, and restarts. `failover_ends`
  checks liveness with one slave of each kind.
- `cluster`: the master, a Go slave and a Python slave, so that every pair of
  languages meets as writer and receiver and two temporary masters meet each
  other; 2 IDs, 2 national IDs, details with a good and a bad e-mail, 3 writes and
  1 restart of any node (971 thousand states). Two writes race, the third tells
  the difference. A second Python slave gives more than 14 million states and is
  left to the proofs, which are for any number of slaves, writes and restarts.
- `MCOneMaster.cfg` is not among the runs: it checks the refinement that `OneMasterProofs` proves
  on an instance of the size of `cluster`, and can be run beside them (178 thousand states).
- The bounds `MaxID`, `MaxRequests`, `MaxWrites`, `MaxCrashes`, `MaxRestarts` appear as guards marked
  `\* BOUND`.

**Deadlock.** The check is off where the system really may stop: users and
administrators need not act, and in `failover` a write that was answered is over.
In `cluster` the bounds on writes and restarts end it as well.

**Fairness.** `Replication!FairSpec` assumes `WF(Settle(s))`: as long as a send to
`s` is running, one of them ends, by arrival or by loss. The sender's HTTP client
has a timeout of 5 s, so each goroutine ends, and there are finitely many.
`Failover!FairSpec` assumes `WF(Handle(s))`: a running handler goes on. Each
call it makes has a timeout (3 s, 2 s for health checks), so it never blocks for ever. Users,
administrators, the master's side of a call, crashes and restarts are not fair.

## 6. Proofs

The theorems hold for all sets of slaves, calls, clients and national IDs, all
IDs up to any bound, any number of writes, crashes and restarts, and all addresses. They use only the
assumptions stated with the constants. Of these, two say that a set is finite: `Nodes`, which
the configuration lists, and `Calls`, the handlers that run at once; they are
needed where something is counted.

- **`MasterProofs`.** `MasterTypeCorrect`; then `TableInv`: national IDs are
  unique, the journal determines the table, an ID has one life. These need
  each other and one strengthening, `LogBelowNextID` (every ID in the journal is
  below the counter): without it an insert could revive an ID. `StepKinds` reduces
  the ten actions to "writes one payload" or "leaves table and log alone".
  For the approval workflow, `ApprovalInv` strengthens `ApprovedWasApplied` and
  `AppliedIsDecided` with `ExecutedIsApplied` (a handler that is about to save
  has executed). `RequestsStableAlways` is an action property. As handlers put whole
  copies into the table, it rests on `CopiesAgreeAlways`: the copy a handler holds asks for
  the same write as the request in the table, whoever saved in between; only its
  status may be old, and both handlers replace that. `AppliedOncePerCallAlways`
  bounds what overlapping decisions can do. Its invariant is `OverlapInv`: while a request is
  pending, it was executed exactly by the handlers that have executed and not yet saved;
  once decided, the times it was executed and the handlers that still may
  execute it are together no more than all handlers. It is a bound on
  cardinalities, so the handlers at each stage are shown to be finite and disjoint first.
- **`SerialProofs`.** `MasterKeepsApproval`: `MasterSpec => WriteApproval!Spec` under
  the mapping, if decisions do not overlap. The key is `InDecision`: between test
  and save the request stays pending. `RejectedNotAppliedSerially` and
  `AppliedOnceSerially` follow.
- **`ReplicationProofs`.** `MasterInside` shows that the composition implements
  `MasterSpec`, so the facts about the table carry over. `RowsInv` has
  `NoMissingRow`, `RowsCameFromMaster` and `CounterCovers` (every ID of the journal whose
  insert is not missing is below the slave's counter), of which `CounterCatchesUp`
  is a consequence. `ConvergeInv` says a slave without overlapping sends and
  losses is at most one payload behind.
- **`ElectionProofs`.** Natural numbers have least elements (from the library's
  well-founded induction, which needs no operator parameter here), `Closer` is a
  strict total order, so the elected node exists and is unique. `ElectionAgrees`:
  two electors that see each other's choice online agree. `DistanceIsAbs`: on addresses, which
  are below `Octets`^4 (`NumericFits`), the 32-bit distance is the absolute difference. With it
  the dashboard's order on triples is `Closer` (`SortsLikeCloser`) and the node it shows is
  the closest of its own candidates (`ShownIsClosest`), which are not the slaves'.
  `DashboardElects` compares the two choices over two views and any URLs.
- **`FailoverProofs`.** `StepKinds` sorts the actions by what they do to a handler.
  `JourneyInv` is the argument: at most one handler decides at a time; every handler
  started before it belongs to a slave farther from the master (`OneDecides`), which
  waits or is over; while one decides, no slave has written (`NotYet`); one
  that wrote is answered and was elected by its own complete view (`ByElected`).
  From it follow `OneTemporaryMaster`, `ForwardingDescends` and
  `TemporaryMasterIsClosest`. `AnswersInv` adds that the master's replies in flight
  are true, and that truth lasts. `Undisturbed` is the invariant behind `ApprovalFirst`.
  `HandlersAdvanceAlways` rests on `Advances`, shown action by action; a delegating step
  changes two handlers, and the other one was idle.
  `KeepsForwardedWriteAlways` is the refinement. Its invariant `PromiseInv` joins the two above
  with `CallsOnce`: a call that was replied to is not on its way any more, and one that
  is on its way or replied to was made by a handler that is past it and, by
  `HandlersAdvance`, never comes back to make it again. This is what makes the master handle a call once.
  Each action then maps to a step of `ForwardedWrite` or a stutter.
- **`ElectionViewsProofs`.** `SameUnlessUnseenAlways` and `DashboardAgreesAlways` carry
  `ElectionAgrees` and `DashboardElects` to every reachable pair of views.
  `ElectsSortedFirstAlways` compares with sorting, with no recursion: a sorted listing
  begins with the least node (`SortedHead`), and there is one (`SortedListExists`), because placing
  each candidate by the number of candidates that are not farther is such a listing.
- **`ClusterProofs`.** Four invariants, each on top of the ones before. `Travels`: a
  payload is at one place on its way to a slave (in flight, between the locks, or
  known), never comes back to its writer, and what a create knew when it took its
  ID is over. `Counters` adds to `CountersCoverRows` that a counter is past every insert
  its node knows, and that no two creates between their locks hold one ID; it
  needs `Travels`, because an insert between its locks has a row but no counter.
  `IDsAreFreshAlways` and `OverwritesOnlyInARaceAlways` follow from it. `Rows` joins
  `RowsWereWritten` and what only a delete may do (`IDsStayTaken`: the ID of an insert that was handled
  is taken until then) with `RowsValid` (a Go node has only clients its binding
  lets pass). `ClientsStayAlways` needs `Rows` and `IDsAreFresh`: the row under an ID was
  written by an update or an insert, and the writer of another insert did not know of this one. `Serial` says that in an orderly history all nodes that are up to date
  have one table, `latest`, and those that miss only the last payload have
  `previous`, on which every receiver accepts that payload. `Adds` describes what
  local writes have in common, so that each invariant is shown once for them.
- **`OneMasterProofs`.** `KeepsReplicationAlways`: `OneMasterSpec => Replication!Spec` under the mapping. `OneMaster`
  is inside `Cluster` (`InsideCluster`), so `Travels` and `Rows` carry over; with `OneWriter`
  (every payload passed the master's binding, so that no slave's binding refuses it) they are
  the invariant. `AppliedIsReplicated` compares what the two models do with a payload, and
  `MoveCounterIsStutter` shows that the second lock changes nothing in `Finished`. Both need
  that `Max` of a bounded set of numbers is its greatest member (`MaxExists`), again from
  well-foundedness. Theorems of an instance cannot be cited in this prover, so the invariants of
  `Replication` are not repeated for `OneMaster`: they follow from the refinement.

**Only model-checked.** The liveness properties `RowsArrive` and `EveryCallEnds`
(liveness under fairness is out of reach of the prover), and the five counterexamples.

## 7. Disagreements

Each has a run whose counterexample is short and readable.

1. `reject_race` (`client_handler.go:140`): with two overlapping decisions the
   table can show as rejected a request that was executed, and which save comes last decides what it
   ends as, although the handlers refuse to decide what is
   "not pending" (`:141`).
2. `reordered` (`replicator.go:53`): "Every successful write on the master is
   copied to all slave nodes" (`client_handler.go:166`) fails when two sends
   overtake each other, with no loss.
3. `two_masters` (`internal/slave/handlers/client_handler.go:126`): a master that does not answer an
   approval call, and the direct call not in time, is taken for an offline one; it and the elected slave both perform the write (`README.md:179-180`).
4. `delete_rejected` (`internal/models/client.go:34`): a slave's approval request for
   a delete carries an empty client, which the master's binding refuses whatever
   the operation is, so deletes through a slave are always answered 403 (`README.md:178`).
5. `master_behind` (`app.py:457`): the active master "sends parallel HTTP `POST /replicate`
   requests to all other nodes" (`README.md:183`), but a temporary master leaves the
   main master out, in both languages (`cmd/slave/main.go:24-28`), and the
   master, even one that ran all the time, never gets the client.

`README.md:180` also names Slave1 as the temporary master, where the code elects
the closest node; with the default addresses, all of them localhost, this is Slave1 by name.

## 8. What is not modelled

- HTTP, JSON and the wording of messages; logging; `htmlview`; page rendering and
  forms of `streamlit_app.py`. Its `get_active_master` is in `Election`; its approve and
  reject buttons are the calls of `Master`: one tab at a time is `SerialApproval`, two tabs
  at once are the two calls of the run `master`.
- Parsing of URLs, addresses and environment variables: the models start from
  structured URLs, and `ElectionViews` from any choice of them.
- Routes and ports. Who replicates to whom is `Receivers`, who takes part in elections
  is `Nodes`. CI.
- Reads (`ListClients`, `GetByID`, `ListPendingWrites`): they take one lock and change nothing.
- Journeys of several writes in one model. The handlers of two forwarded writes
  share no state on a slave but its table, so one write is followed in `Failover`, and
  what many do to the tables is in `Cluster`, whose writes any slave may begin at
  any time. A write that two nodes perform is two writes of `Cluster`.
- `Cluster` begins a write only if it will be performed: a refused one is answered and
  changes nothing. The approval of writes on the master, and the pending requests
  that its restart forgets, are not in it; `Master` has the approval, without a restart.

## 9. Plan

Done, in this order, most important behaviour first: `ClientStore`, `Master`,
`SerialApproval`/`WriteApproval`, `Replication`, `Election`, `Failover`, `Cluster`,
`ElectionViews`, `ForwardedWrite`, `OneMaster`, and their proofs. Every safety and action property
the passing runs check is proved. The table of a Python slave, once planned as a module
of its own, is part of `Cluster`, where the writers it races with are.

What could follow: `Failover` and `Cluster` in one module, so that a write performed
twice is seen as two rows; `Master` with a restart, to show what an administrator's old list may
decide; larger instances of `cluster` by simulation.
