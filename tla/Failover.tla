------------------------------ MODULE Failover -------------------------------
(***************************************************************************)
(* The journey of one write that a user gives to a slave: ForwardWrite in  *)
(* internal/slave/handlers/client_handler.go (Slave1 and Slave3) and       *)
(* forward_write in app.py (Slave2 and Slave4).                            *)
(*                                                                         *)
(* The handler asks the master for approval; if that call fails it sends   *)
(* the write to the master itself; if that fails too it elects a temporary *)
(* master, and either is the elected node and performs the write, or hands *)
(* it to the elected node, whose handler starts from the beginning.        *)
(*                                                                         *)
(* A call fails at once when its node cannot be reached, and later when    *)
(* the caller gives up: its timeout of three seconds, a connection cut by  *)
(* a crash, or on a Go slave a request context cancelled because the       *)
(* caller's own caller gave up.  A node that was reached still handles     *)
(* the call, before or after its caller has given up.                      *)
(*                                                                         *)
(* Writes meet only in the tables of clients, which are left out here: a   *)
(* table accepts or refuses a valid write by a free choice.                *)
(***************************************************************************)
EXTENDS Election

CONSTANTS Master,        \* the main master, by its name
          PythonSlaves,  \* Slave2 and Slave4
          URL,           \* the configured URL of each node
          MaxCrashes     \* BOUND: how often a node crashes

Slaves == Nodes \ {Master}

ASSUME FailoverAssumption ==
    /\ Master \in Nodes
    /\ PythonSlaves \subseteq Slaves
    /\ DOMAIN URL = Nodes
    /\ \A n \in Nodes : URL[n].host \in Hosts
    /\ \A m, n \in Nodes : URL[m] = URL[n] => m = n
    /\ MaxCrashes \in Nat

VARIABLES kind,      \* what the user sends
          calls,     \* the ForwardWrite handler of each slave
          toMaster,  \* the calls that reached the master and are not handled yet
          replies,   \* the master's answers
          up,        \* the nodes that are running
          filed,     \* history: how often the master filed the write as pending
          executed,  \* history: how often each node performed the write
          disturbed, \* history: has a call failed or a node crashed
          crashes

vars == <<kind, calls, toMaster, replies, up, filed, executed, disturbed, crashes>>

(***************************************************************************)
(* A create or update with a valid body; one whose e-mail address is       *)
(* wrong, which app.py does not notice; one that lacks a field, which a Go *)
(* slave leaves to the master to find; one that no slave can use, without  *)
(* JSON in the body or a positive ID in the path; a delete.                *)
(***************************************************************************)
Kinds == {"write", "wrongEmail", "incomplete", "unusable", "delete"}

Answers == {"pending",      \* 202, with the number of the filed request
            "rejected",     \* 403
            "done",         \* 201, 200 or 204
            "refused",      \* 400, 404 or 500 from the handler of the write
            "unavailable",  \* 503
            "error"}        \* 500, an exception nobody caught in app.py

Stages == {"idle", "received", "approving", "unapproved", "forwarding",
           "electing", "delegated", "answered", "dead"}

Call == [stage : Stages,
         probed : SUBSET Slaves,      \* the nodes whose health was checked
         online : SUBSET Slaves,      \* those found online
         answer : Answers \cup {"none"}]

NoCall == [stage |-> "idle", probed |-> {}, online |-> {}, answer |-> "none"]

MasterCall == [from : Slaves, operation : {"approve", "forward"}]

Reply == [call : MasterCall, answer : Answers]

FailoverTypeOK ==
    /\ kind \in Kinds
    /\ calls \in [Slaves -> Call]
    /\ toMaster \subseteq MasterCall
    /\ replies \subseteq Reply
    /\ up \subseteq Nodes
    /\ filed \in Nat
    /\ executed \in [Nodes -> Nat]
    /\ disturbed \in BOOLEAN
    /\ crashes \in 0 .. MaxCrashes
    /\ \A s \in Slaves : /\ calls[s].online \subseteq calls[s].probed
                         /\ calls[s].answer # "none" <=> calls[s].stage = "answered"

Init ==
    /\ kind \in Kinds
    /\ calls = [s \in Slaves |-> NoCall]
    /\ toMaster = {}
    /\ replies = {}
    /\ up = Nodes
    /\ filed = 0
    /\ executed = [n \in Nodes |-> 0]
    /\ disturbed = FALSE
    /\ crashes = 0

-----------------------------------------------------------------------------
Goes(s, from, to) ==
    /\ calls[s].stage = from
    /\ calls' = [calls EXCEPT ![s].stage = to]

AnswerWith(s, answer) ==
    calls' = [calls EXCEPT ![s].stage = "answered", ![s].answer = answer]

Fails(s, from, to) == Goes(s, from, to) /\ disturbed' = TRUE

\* A user sends the write to a slave, from the dashboard or with another client.
Submit(s) ==
    /\ s \in up
    /\ \A t \in Slaves : calls[t].stage = "idle"
    /\ Goes(s, "idle", "received")
    /\ UNCHANGED <<kind, toMaster, replies, up, filed, executed, disturbed, crashes>>

(***************************************************************************)
(* buildApprovalRequest turns down what it cannot read without asking the  *)
(* master; _build_approval_payload looks at the fields too.                *)
(***************************************************************************)
Unreadable(s) == kind = "unusable" \/ (kind = "incomplete" /\ s \in PythonSlaves)

RejectBody(s) ==
    /\ calls[s].stage = "received"
    /\ Unreadable(s)
    /\ AnswerWith(s, "rejected")
    /\ UNCHANGED <<kind, toMaster, replies, up, filed, executed, disturbed, crashes>>

(***************************************************************************)
(* The two calls to the master.  Both an answer to the approval call and   *)
(* one to the direct call end the handler: the master answers an approval  *)
(* call with pending or not approved, never with approved.                 *)
(***************************************************************************)
Reach(s, operation, from, waiting) ==
    /\ Master \in up
    /\ Goes(s, from, waiting)
    /\ toMaster' = toMaster \cup {[from |-> s, operation |-> operation]}
    /\ UNCHANGED <<kind, replies, up, filed, executed, disturbed, crashes>>

\* No connection: an error of client.Do in Go, a URLError in Python.
Miss(s, from, next) ==
    /\ Fails(s, from, next)
    /\ UNCHANGED <<kind, toMaster, replies, up, filed, executed, crashes>>

\* Mutant: the Go handler skips the approval call.
AskApprovalSkipped(s) ==
    \/ Reach(s, "forward", "received", "forwarding")
    \/ Miss(s, "received", "electing")

AskApproval(s) ==
    /\ ~ Unreadable(s)
    /\ \/ Reach(s, "approve", "received", "approving")
       \/ Miss(s, "received", "unapproved")

ForwardToMaster(s) ==
    \/ Reach(s, "forward", "unapproved", "forwarding")
    \/ Miss(s, "unapproved", "electing")

MasterAnswers(s) ==
    /\ \E reply \in replies :
          /\ reply.call.from = s
          /\ calls[s].stage = IF reply.call.operation = "approve"
                              THEN "approving" ELSE "forwarding"
          /\ AnswerWith(s, reply.answer)
    /\ UNCHANGED <<kind, toMaster, replies, up, filed, executed, disturbed, crashes>>

\* Giving up after the connection was made: Go goes on with the next step, in
\* app.py only URLError is caught and the timeout of a read is none.
GiveUp(s, waiting, next) ==
    /\ IF s \in PythonSlaves
       THEN /\ calls[s].stage = waiting
            /\ AnswerWith(s, "error")
            /\ disturbed' = TRUE
       ELSE Fails(s, waiting, next)
    /\ UNCHANGED <<kind, toMaster, replies, up, filed, executed, crashes>>

\* Mutant: the direct call has no timeout.
GiveUpOnApproval(s) == GiveUp(s, "approving", "unapproved")

GiveUpOnMaster(s) ==
    \/ GiveUp(s, "approving", "unapproved")
    \/ GiveUp(s, "forwarding", "electing")

-----------------------------------------------------------------------------
(***************************************************************************)
(* The master's side.  ApproveWrite files what passes the validation of a  *)
(* create, which the empty client of a delete does not; the handler of a   *)
(* direct write performs it, or refuses it.                                *)
(***************************************************************************)
Executes(n) == executed' = [executed EXCEPT ![n] = @ + 1]

\* Mutant: the master handles a call again, as if its sender had retried it.
MasterRepliesAgain(call, answer) ==
    /\ toMaster' = toMaster
    /\ replies' = replies \cup {[call |-> call, answer |-> answer]}

MasterReplies(call, answer) ==
    /\ toMaster' = toMaster \ {call}
    /\ replies' = replies \cup {[call |-> call, answer |-> answer]}

MasterFiles(call) ==
    /\ call \in toMaster
    /\ call.operation = "approve"
    /\ IF kind = "write"
       THEN filed' = filed + 1 /\ MasterReplies(call, "pending")
       ELSE filed' = filed /\ MasterReplies(call, "rejected")
    /\ UNCHANGED <<kind, calls, up, executed, disturbed, crashes>>

\* Mutant: the handler answers success when the table refused the write.
MasterWritesHopefully(call) ==
    /\ call \in toMaster
    /\ call.operation = "forward"
    /\ \/ kind \in {"write", "delete"} /\ Executes(Master)
       \/ executed' = executed
    /\ MasterReplies(call, "done")
    /\ UNCHANGED <<kind, calls, up, filed, disturbed, crashes>>

MasterWrites(call) ==
    /\ call \in toMaster
    /\ call.operation = "forward"
    /\ \/ kind \in {"write", "delete"} /\ Executes(Master) /\ MasterReplies(call, "done")
       \/ executed' = executed /\ MasterReplies(call, "refused")
    /\ UNCHANGED <<kind, calls, up, filed, disturbed, crashes>>

-----------------------------------------------------------------------------
(***************************************************************************)
(* The election: the health checks, one after the other in the order of    *)
(* allNodes, and the use of their results after the last.  A check of a    *)
(* node that is running can fail too (two seconds).  The node itself is    *)
(* not asked.                                                              *)
(***************************************************************************)
IsNext(s, n) ==
    /\ n \in Slaves \ calls[s].probed
    /\ \A m \in Slaves \ calls[s].probed : Order[n] <= Order[m]

\* Mutant: the node asks itself too, and may not be in time.
ProbeSelfToo(s, n, online) ==
    /\ calls[s].stage = "electing"
    /\ IsNext(s, n)
    /\ online => n \in up
    /\ calls' = [calls EXCEPT ![s].probed = @ \cup {n},
                              ![s].online = IF online THEN @ \cup {n} ELSE @]
    /\ disturbed' = (disturbed \/ ~ online)
    /\ UNCHANGED <<kind, toMaster, replies, up, filed, executed, crashes>>

Probe(s, n, online) ==
    /\ calls[s].stage = "electing"
    /\ IsNext(s, n)
    /\ online => n \in up
    /\ n = s => online
    /\ calls' = [calls EXCEPT ![s].probed = @ \cup {n},
                              ![s].online = IF online THEN @ \cup {n} ELSE @]
    /\ disturbed' = (disturbed \/ ~ online)
    /\ UNCHANGED <<kind, toMaster, replies, up, filed, executed, crashes>>

Elected(s) == ElectMaster(URL, URL[Master], calls[s].online)

\* Mutant: the first node found online, if it is the best so far, is taken.
DecidedEarly(s) == calls[s].stage = "electing" /\ calls[s].online # {}

Decided(s) == calls[s].stage = "electing" /\ calls[s].probed = Slaves

\* handleAsTemporaryMaster, _handle_local_write.
Storable(s) == kind \in {"write", "delete"} \/ (s \in PythonSlaves /\ kind = "wrongEmail")

TakeOver(s) ==
    /\ Decided(s)
    /\ Elected(s) = s
    /\ \/ Storable(s) /\ Executes(s) /\ AnswerWith(s, "done")
       \/ executed' = executed /\ AnswerWith(s, "refused")
    /\ UNCHANGED <<kind, toMaster, replies, up, filed, disturbed, crashes>>

\* forwardTo the elected node, which starts a handler of its own.
Delegate(s) ==
    /\ Decided(s)
    /\ LET e == Elected(s) IN
        /\ e \in up \ {s}
        /\ calls' = [calls EXCEPT ![s].stage = "delegated",
                                  ![e] = [NoCall EXCEPT !.stage = "received"]]
    /\ UNCHANGED <<kind, toMaster, replies, up, filed, executed, disturbed, crashes>>

\* Mutant: a node that gets no answer from the elected one does the write itself.
DelegateFailsOver(s) ==
    /\ \/ Decided(s) /\ Elected(s) # s
       \/ calls[s].stage = "delegated"
    /\ Executes(s)
    /\ AnswerWith(s, "done")
    /\ disturbed' = TRUE
    /\ UNCHANGED <<kind, toMaster, replies, up, filed, crashes>>

\* The elected node cannot be reached, or does not answer in time.
DelegateFails(s) ==
    \/ /\ Decided(s)
       /\ Elected(s) # s
       /\ AnswerWith(s, "unavailable")
       /\ disturbed' = TRUE
       /\ UNCHANGED <<kind, toMaster, replies, up, filed, executed, crashes>>
    \/ /\ calls[s].stage = "delegated"
       /\ AnswerWith(s, IF s \in PythonSlaves THEN "error" ELSE "unavailable")
       /\ disturbed' = TRUE
       /\ UNCHANGED <<kind, toMaster, replies, up, filed, executed, crashes>>

\* Mutant: the answer is taken before it is there.
DelegateAnswersEarly(s) ==
    /\ calls[s].stage = "delegated"
    /\ AnswerWith(s, calls[Elected(s)].answer)
    /\ UNCHANGED <<kind, toMaster, replies, up, filed, executed, disturbed, crashes>>

DelegateAnswers(s) ==
    /\ calls[s].stage = "delegated"
    /\ calls[Elected(s)].stage = "answered"
    /\ AnswerWith(s, calls[Elected(s)].answer)
    /\ UNCHANGED <<kind, toMaster, replies, up, filed, executed, disturbed, crashes>>

-----------------------------------------------------------------------------
\* A process ends; its handlers end with it.  A started process knows nothing
\* of them.
Crash(n) ==
    /\ n \in up
    /\ crashes < MaxCrashes   \* BOUND
    /\ crashes' = crashes + 1
    /\ up' = up \ {n}
    /\ disturbed' = TRUE
    /\ calls' = [s \in Slaves |->
                   IF s = n /\ calls[s].stage \notin {"idle", "answered"}
                   THEN [calls[s] EXCEPT !.stage = "dead"]
                   ELSE calls[s]]
    /\ toMaster' = IF n = Master THEN {} ELSE toMaster
    /\ UNCHANGED <<kind, replies, filed, executed>>

Restart(n) ==
    /\ n \in Nodes \ up
    /\ up' = up \cup {n}
    /\ UNCHANGED <<kind, calls, toMaster, replies, filed, executed, disturbed, crashes>>

Handle(s) ==
    \/ RejectBody(s)
    \/ AskApproval(s)
    \/ ForwardToMaster(s)
    \/ MasterAnswers(s)
    \/ GiveUpOnMaster(s)
    \/ \E n \in Slaves, online \in BOOLEAN : Probe(s, n, online)
    \/ TakeOver(s)
    \/ Delegate(s)
    \/ DelegateFails(s)
    \/ DelegateAnswers(s)

Next ==
    \/ \E s \in Slaves : Submit(s)
    \/ \E s \in Slaves : Handle(s)
    \/ \E call \in toMaster : MasterFiles(call)
    \/ \E call \in toMaster : MasterWrites(call)
    \/ \E n \in Nodes : Crash(n)
    \/ \E n \in Nodes : Restart(n)

Spec == Init /\ [][Next]_vars

(***************************************************************************)
(* A running handler goes on: every call it makes ends, at the latest by   *)
(* its timeout.  The master, users, crashes and restarts are not fair.     *)
(***************************************************************************)
FairSpec == Spec /\ \A s \in Slaves : WF_vars(Handle(s))
-----------------------------------------------------------------------------
(***************************************************************************)
(* Safety                                                                  *)
(***************************************************************************)
\* Whatever the slaves believe about each other, at most one of them performs
\* the write as temporary master, and it does so once: a handler hands the
\* write on or performs it, and never both (the end of ForwardWrite).
OneTemporaryMaster ==
    \A s, t \in Slaves :
        /\ executed[s] <= 1
        /\ executed[s] > 0 /\ executed[t] > 0 => s = t

\* A slave hands a write only to one closer to the master than itself, even
\* with stale and differing views of who is online: no write goes in circles,
\* and no slave waits for one that waits for it.
ForwardingDescends ==
    \A s \in Slaves :
        calls[s].stage = "delegated" => Closer(URL, URL[Master], Elected(s), s)

\* A slave performs a write only after it has checked all the others and found
\* every one that is closer to the master offline.
TemporaryMasterIsClosest ==
    \A s, t \in Slaves :
        executed[s] > 0 /\ Closer(URL, URL[Master], t, s) =>
            t \in calls[s].probed \ calls[s].online

\* Every answer that reached a slave's user is true when it says that the write
\* was done, or filed, by whichever node, however many nodes passed it on.
AnswersAreTrue ==
    \A s \in Slaves :
        /\ calls[s].answer = "done" => \E n \in Nodes : executed[n] > 0
        /\ calls[s].answer = "pending" => filed > 0

\* As long as no call fails and no node crashes, a write given to a slave is
\* performed by nobody without the decision of an administrator.
ApprovalFirst == ~ disturbed => \A n \in Nodes : executed[n] = 0

\* "If Master is offline, forwarded to Slave1 which temporarily acts as
\* Master": the master or the temporary master performs the write, not both.
OneMasterPerWrite == \A s \in Slaves : executed[s] > 0 => executed[Master] = 0

\* "When a user submits a client operation (POST, PUT, DELETE) to any slave
\* node, the slave forwards it to the active master": a delete is not turned
\* down when everything works.
DeleteIsForwarded ==
    kind = "delete" /\ ~ disturbed => \A s \in Slaves : calls[s].answer # "rejected"

(***************************************************************************)
(* What a handler may do                                                   *)
(***************************************************************************)
Rank(stage) ==
    CASE stage = "idle" -> 0
      [] stage = "received" -> 1
      [] stage = "approving" -> 2
      [] stage = "unapproved" -> 3
      [] stage = "forwarding" -> 4
      [] stage = "electing" -> 5
      [] stage = "delegated" -> 6
      [] OTHER -> 7

\* A handler only goes forward, and an election checks a new node every time:
\* no chain of failures, elections and crashes gives a slave the write twice or
\* sends a handler back to a call it has made.
HandlersAdvance ==
    [][\A s \in Slaves :
          \/ calls'[s] = calls[s]
          \/ Rank(calls[s].stage) < Rank(calls'[s].stage)
          \/ /\ calls[s].stage = "electing" /\ calls'[s].stage = "electing"
             /\ calls[s].probed \subseteq calls'[s].probed
             /\ calls[s].probed # calls'[s].probed
      ]_vars

\* The handlers, the master and the elections together keep the promise of
\* ForwardedWrite: the master handles a call of a slave once, although callers
\* give up and others take the write on, and no answer is taken back.
Write == INSTANCE ForwardedWrite WITH
    handled   <- {reply.call : reply \in replies},
    performed <- executed[Master],
    temporary <- [s \in Slaves |-> executed[s]],
    answers   <- [s \in Slaves |-> calls[s].answer]

KeepsForwardedWrite == Write!Spec

(***************************************************************************)
(* Liveness                                                                *)
(***************************************************************************)
\* Every handler comes to an end: its user gets an answer unless its node
\* crashes, though the master and the elected nodes may stay silent.
EveryCallEnds ==
    \A s \in Slaves : calls[s].stage # "idle" ~> calls[s].stage \in {"answered", "dead"}
=============================================================================
