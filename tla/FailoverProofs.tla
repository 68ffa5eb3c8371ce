--------------------------- MODULE FailoverProofs ----------------------------
(***************************************************************************)
(* Proofs about the journey of a write, for any number of slaves in either *)
(* language, any addresses and any number of crashes.                      *)
(***************************************************************************)
EXTENDS Failover, ElectionProofs

LEMMA URLPlaced == Placed(URL, URL[Master])
  BY FailoverAssumption DEF Placed

\* Only a slave found online is elected, and Nobody is not a node.
LEMMA ElectedSlave ==
  ASSUME FailoverTypeOK, NEW s \in Slaves, Elected(s) \in Nodes
  PROVE  Elected(s) \in calls[s].online /\ Elected(s) \in Slaves
<1>1. Candidates(URL, URL[Master], calls[s].online) # {}
  BY NobodyAssumption DEF Elected, ElectMaster
<1>2. PICK n : n \in Candidates(URL, URL[Master], calls[s].online)
  BY <1>1
<1>3. Elected(s) \in Candidates(URL, URL[Master], calls[s].online)
  BY <1>2, URLPlaced, ElectedIsClosest DEF Elected
<1>4. calls[s].online \subseteq Slaves
  BY DEF FailoverTypeOK, Call
<1> QED
  BY <1>3, <1>4 DEF Candidates

\* A slave that found itself online elects itself or a closer slave.
LEMMA ElectedOverSelf ==
  ASSUME FailoverTypeOK, NEW s \in Slaves, NEW t \in Slaves, t \in calls[s].online
  PROVE  /\ Elected(s) \in Slaves
         /\ Elected(s) = t \/ Closer(URL, URL[Master], Elected(s), t)
<1>1. t \in Nodes /\ URL[t] # URL[Master]
  BY FailoverAssumption DEF Slaves
<1>2. t \in Candidates(URL, URL[Master], calls[s].online)
  BY <1>1 DEF Candidates
<1>3. /\ Elected(s) \in Candidates(URL, URL[Master], calls[s].online)
      /\ Elected(s) = t \/ Closer(URL, URL[Master], Elected(s), t)
  BY <1>2, URLPlaced, ElectedIsClosest DEF Elected
<1> QED
  BY <1>3, ElectedSlave DEF Candidates

-----------------------------------------------------------------------------
(***************************************************************************)
(* What a step does to the handlers and to the writes of the slaves: a     *)
(* handler starts, goes on, checks a node, ends, performs the write, hands *)
(* it on, a node crashes, or nothing of this changes.                      *)
(***************************************************************************)
Deciding == {"received", "approving", "unapproved", "forwarding", "electing"}

SameWrites == \A t \in Slaves : executed'[t] = executed[t]

Starts(s) ==
    /\ \A t \in Slaves : calls[t].stage = "idle"
    /\ calls' = [calls EXCEPT ![s].stage = "received"]
    /\ SameWrites

GoesOn(s) ==
    /\ calls[s].stage \in Deciding
    /\ \E to \in Deciding : calls' = [calls EXCEPT ![s].stage = to]
    /\ SameWrites

Checks(s) ==
    /\ calls[s].stage \in Deciding
    /\ \E n \in Slaves, online \in BOOLEAN :
          /\ n = s => online
          /\ calls' = [calls EXCEPT ![s].probed = @ \cup {n},
                                    ![s].online = IF online THEN @ \cup {n} ELSE @]
    /\ SameWrites

Ends(s) ==
    /\ calls[s].stage \in Deciding \cup {"delegated"}
    /\ \E answer \in Answers : AnswerWith(s, answer)
    /\ SameWrites

Performs(s) ==
    /\ Decided(s)
    /\ Elected(s) = s
    /\ AnswerWith(s, "done")
    /\ Executes(s)

HandsOn(s) ==
    /\ Decided(s)
    /\ Elected(s) \in Slaves \ {s}
    /\ calls' = [calls EXCEPT ![s].stage = "delegated",
                              ![Elected(s)] = [NoCall EXCEPT !.stage = "received"]]
    /\ SameWrites

Dies(n) ==
    /\ calls' = [s \in Slaves |->
                   IF s = n /\ calls[s].stage \notin {"idle", "answered"}
                   THEN [calls[s] EXCEPT !.stage = "dead"]
                   ELSE calls[s]]
    /\ SameWrites

Elsewhere == calls' = calls /\ SameWrites

\* A handler that has handed the write on waits for another slave.
Waiting == \A s \in Slaves : calls[s].stage = "delegated" => Elected(s) \in Slaves \ {s}

LEMMA StepKinds ==
  ASSUME FailoverTypeOK, Waiting, Next
  PROVE  \/ \E s \in Slaves : \/ Starts(s) \/ GoesOn(s) \/ Checks(s) \/ Ends(s)
                              \/ Performs(s) \/ HandsOn(s)
         \/ \E n \in Nodes : Dies(n)
         \/ Elsewhere
<1>1. CASE \E s \in Slaves : Submit(s)
  BY <1>1 DEF Submit, Goes, Starts, SameWrites
<1>2. ASSUME NEW s \in Slaves, Handle(s)
      PROVE  \/ GoesOn(s) \/ Checks(s) \/ Ends(s) \/ Performs(s) \/ HandsOn(s)
  <2>1. CASE RejectBody(s)
    BY <2>1 DEF RejectBody, Ends, Deciding, Answers, SameWrites
  <2>2. CASE AskApproval(s)
    BY <2>2 DEF AskApproval, Reach, Miss, Fails, Goes, GoesOn, Deciding, SameWrites
  <2>3. CASE ForwardToMaster(s)
    BY <2>3 DEF ForwardToMaster, Reach, Miss, Fails, Goes, GoesOn, Deciding, SameWrites
  <2>4. CASE MasterAnswers(s)
    <3>1. PICK reply \in replies :
              /\ calls[s].stage = IF reply.call.operation = "approve"
                                  THEN "approving" ELSE "forwarding"
              /\ AnswerWith(s, reply.answer)
      BY <2>4 DEF MasterAnswers
    <3>2. reply.answer \in Answers
      BY <3>1 DEF FailoverTypeOK, Reply
    <3> QED
      BY <2>4, <3>1, <3>2 DEF MasterAnswers, Ends, Deciding, SameWrites
  <2>5. CASE GiveUpOnMaster(s)
    BY <2>5 DEF GiveUpOnMaster, GiveUp, Fails, Goes, GoesOn, Ends, Answers, Deciding, SameWrites
  <2>6. CASE \E n \in Slaves, online \in BOOLEAN : Probe(s, n, online)
    BY <2>6 DEF Probe, Checks, Deciding, SameWrites
  <2>7. CASE TakeOver(s)
    BY <2>7 DEF TakeOver, Performs, Ends, Decided, Deciding, Answers, SameWrites
  <2>8. CASE Delegate(s)
    <3>1. Elected(s) \in Nodes \ {s}
      BY <2>8 DEF Delegate, FailoverTypeOK
    <3> QED
      BY <2>8, <3>1, ElectedSlave DEF Delegate, HandsOn, SameWrites
  <2>9. CASE DelegateFails(s)
    BY <2>9 DEF DelegateFails, Ends, Decided, Deciding, Answers, SameWrites
  <2>10. CASE DelegateAnswers(s)
    <3>1. Elected(s) \in Slaves
      BY <2>10 DEF DelegateAnswers, Waiting
    <3>2. calls[Elected(s)].answer \in Answers
      BY <2>10, <3>1 DEF DelegateAnswers, FailoverTypeOK, Call
    <3> QED
      BY <2>10, <3>2 DEF DelegateAnswers, Ends, SameWrites
  <2> QED
    BY <1>2, <2>1, <2>2, <2>3, <2>4, <2>5, <2>6, <2>7, <2>8, <2>9, <2>10 DEF Handle
<1>3. CASE \E call \in toMaster : MasterFiles(call)
  BY <1>3 DEF MasterFiles, Elsewhere, SameWrites
<1>4. CASE \E call \in toMaster : MasterWrites(call)
  <2>1. \A t \in Slaves : t # Master
    BY DEF Slaves
  <2> QED
    BY <1>4, <2>1 DEF MasterWrites, Executes, Elsewhere, SameWrites, FailoverTypeOK, Slaves
<1>5. CASE \E n \in Nodes : Crash(n)
  BY <1>5 DEF Crash, Dies, SameWrites
<1>6. CASE \E n \in Nodes : Restart(n)
  BY <1>6 DEF Restart, Elsewhere, SameWrites
<1> QED
  BY <1>1, <1>2, <1>3, <1>4, <1>5, <1>6 DEF Next

-----------------------------------------------------------------------------
(***************************************************************************)
(* Types                                                                   *)
(***************************************************************************)
\* The part of FailoverTypeOK that is about the handlers.
CallsOK ==
    /\ calls \in [Slaves -> Call]
    /\ \A s \in Slaves : /\ calls[s].online \subseteq calls[s].probed
                         /\ calls[s].answer # "none" <=> calls[s].stage = "answered"

\* A handler whose call is replaced by a well-formed one.
LEMMA CallReplaced ==
  ASSUME CallsOK, NEW s \in Slaves, NEW c \in Call,
         c.online \subseteq c.probed,
         c.answer # "none" <=> c.stage = "answered",
         calls' = [calls EXCEPT ![s] = c]
  PROVE  CallsOK'
  BY DEF CallsOK

LEMMA NextKeepsCalls ==
  ASSUME FailoverTypeOK, Waiting, Next
  PROVE  CallsOK'
<1>0. /\ CallsOK
      /\ \A s \in Slaves :
            /\ calls[s] \in Call
            /\ calls[s].online \subseteq calls[s].probed
            /\ calls[s].answer # "none" <=> calls[s].stage = "answered"
  <2>1. CallsOK
    BY DEF FailoverTypeOK, CallsOK
  <2>2. \A s \in Slaves : calls[s] \in Call
    BY <2>1 DEF CallsOK
  <2> QED
    BY <2>1, <2>2, Zenon DEF CallsOK
<1>1. ASSUME NEW s \in Slaves, Starts(s)  PROVE CallsOK'
  BY <1>0, <1>1 DEF Starts, CallsOK, Call, Stages
<1>2. ASSUME NEW s \in Slaves, GoesOn(s)  PROVE CallsOK'
  BY <1>0, <1>2 DEF GoesOn, Deciding, CallsOK, Call, Stages
<1>3. ASSUME NEW s \in Slaves, Checks(s)  PROVE CallsOK'
  <2>1. PICK n \in Slaves, online \in BOOLEAN :
            calls' = [calls EXCEPT ![s].probed = @ \cup {n},
                                   ![s].online = IF online THEN @ \cup {n} ELSE @]
    BY <1>3 DEF Checks
  <2> DEFINE asked == calls[s].probed \cup {n}
             seen == IF online THEN calls[s].online \cup {n} ELSE calls[s].online
             c == [[calls[s] EXCEPT !.probed = asked] EXCEPT !.online = seen]
  <2>2. calls' = [calls EXCEPT ![s] = c]
    BY <1>0, <2>1 DEF CallsOK
  <2>3. asked \in SUBSET Slaves /\ seen \in SUBSET asked
    <3>1. calls[s].probed \subseteq Slaves /\ calls[s].online \subseteq calls[s].probed
      BY <1>0 DEF Call
    <3> QED
      BY <3>1
  <2> HIDE DEF asked, seen
  <2>4. c \in Call
    <3>1. [calls[s] EXCEPT !.probed = asked] \in Call
      BY <1>0, <2>3 DEF Call
    <3> QED
      BY <2>3, <3>1 DEF Call
  <2>5. /\ c.online = seen /\ c.probed = asked
        /\ c.answer = calls[s].answer /\ c.stage = calls[s].stage
    BY <1>0 DEF Call
  <2> HIDE DEF c
  <2>6. c.answer # "none" <=> c.stage = "answered"
    BY <1>0, <2>5
  <2>7. c.online \subseteq c.probed
    BY <2>3, <2>5
  <2> QED
    BY <1>0, <2>2, <2>4, <2>6, <2>7, CallReplaced
<1>4. ASSUME NEW s \in Slaves, NEW answer \in Answers, AnswerWith(s, answer)
      PROVE  CallsOK'
  <2> DEFINE c == [[calls[s] EXCEPT !.stage = "answered"] EXCEPT !.answer = answer]
  <2>1. calls' = [calls EXCEPT ![s] = c]
    BY <1>0, <1>4 DEF AnswerWith, CallsOK
  <2>2. answer # "none"
    BY DEF Answers
  <2>3. c \in Call
    <3>1. [calls[s] EXCEPT !.stage = "answered"] \in Call
      BY <1>0 DEF Call, Stages
    <3> QED
      BY <3>1 DEF Call
  <2>4. /\ c.online = calls[s].online /\ c.probed = calls[s].probed
        /\ c.answer = answer /\ c.stage = "answered"
    BY <1>0 DEF Call
  <2> HIDE DEF c
  <2>5. c.online \subseteq c.probed /\ (c.answer # "none" <=> c.stage = "answered")
    BY <1>0, <2>2, <2>4
  <2> QED
    BY <1>0, <2>1, <2>3, <2>5, CallReplaced
<1>5. ASSUME NEW s \in Slaves, Ends(s)  PROVE CallsOK'
  BY <1>4, <1>5 DEF Ends
<1>6. ASSUME NEW s \in Slaves, Performs(s)  PROVE CallsOK'
  BY <1>4, <1>6 DEF Performs, Answers
<1>7. ASSUME NEW s \in Slaves, HandsOn(s)  PROVE CallsOK'
  <2> DEFINE c == [NoCall EXCEPT !.stage = "received"]
             d == [calls EXCEPT ![s].stage = "delegated"]
  <2>1. PICK t \in Slaves \ {s} : calls' = [d EXCEPT ![t] = c]
    BY <1>7 DEF HandsOn
  <2>2. calls[s].stage = "electing"
    BY <1>7 DEF HandsOn, Decided
  <2>3. /\ d \in [Slaves -> Call]
        /\ \A u \in Slaves : /\ d[u].online \subseteq d[u].probed
                             /\ d[u].answer # "none" <=> d[u].stage = "answered"
    BY <1>0, <2>2 DEF CallsOK, Call, Stages
  <2>4. c \in Call /\ c.online = {} /\ c.answer = "none" /\ c.stage = "received"
    BY DEF NoCall, Call, Stages
  <2> HIDE DEF c, d
  <2>5. calls' \in [Slaves -> Call] /\ \A u \in Slaves : calls'[u] = IF u = t THEN c ELSE d[u]
    BY <2>1, <2>3, <2>4
  <2> QED
    BY <2>3, <2>4, <2>5 DEF CallsOK
<1>8. ASSUME NEW n \in Nodes, Dies(n)  PROVE CallsOK'
  BY <1>0, <1>8 DEF Dies, CallsOK, Call, Stages
<1>9. CASE Elsewhere
  BY <1>0, <1>9 DEF Elsewhere, CallsOK
<1> QED
  BY <1>1, <1>2, <1>3, <1>5, <1>6, <1>7, <1>8, <1>9, StepKinds

\* A slave waits for the node it elected, which is not itself: the view it
\* elected from does not change any more.
LEMMA NextKeepsWaiting ==
  ASSUME FailoverTypeOK, Waiting, Next
  PROVE  Waiting'
<1> USE DEF FailoverTypeOK, Call, Waiting, Elected
<1>1. ASSUME NEW s \in Slaves, Starts(s)  PROVE Waiting'
  BY <1>1 DEF Starts
<1>2. ASSUME NEW s \in Slaves, GoesOn(s)  PROVE Waiting'
  BY <1>2 DEF GoesOn, Deciding
<1>3. ASSUME NEW s \in Slaves, Checks(s)  PROVE Waiting'
  BY <1>3 DEF Checks, Deciding
<1>4. ASSUME NEW s \in Slaves, Ends(s)  PROVE Waiting'
  BY <1>4 DEF Ends, AnswerWith
<1>5. ASSUME NEW s \in Slaves, Performs(s)  PROVE Waiting'
  BY <1>5 DEF Performs, AnswerWith
<1>6. ASSUME NEW s \in Slaves, HandsOn(s)  PROVE Waiting'
  BY <1>6 DEF HandsOn, NoCall
<1>7. ASSUME NEW n \in Nodes, Dies(n)  PROVE Waiting'
  BY <1>7 DEF Dies
<1>8. CASE Elsewhere
  BY <1>8 DEF Elsewhere
<1> QED
  BY <1>1, <1>2, <1>3, <1>4, <1>5, <1>6, <1>7, <1>8, StepKinds

\* What the master answers is an answer.
LEMMA RepliesType ==
  ASSUME FailoverTypeOK, NEW call \in toMaster, NEW answer \in Answers,
         MasterReplies(call, answer)
  PROVE  toMaster' \subseteq MasterCall /\ replies' \subseteq Reply
  BY DEF FailoverTypeOK, MasterReplies, Reply

\* The other variables keep their types in every step.
LEMMA NextKeepsOthers ==
  ASSUME FailoverTypeOK, Next
  PROVE  /\ kind' \in Kinds
         /\ toMaster' \subseteq MasterCall
         /\ replies' \subseteq Reply
         /\ up' \subseteq Nodes
         /\ filed' \in Nat
         /\ executed' \in [Nodes -> Nat]
         /\ disturbed' \in BOOLEAN
         /\ crashes' \in 0 .. MaxCrashes
<1> USE DEF FailoverTypeOK
<1>1. ASSUME NEW s \in Slaves, Submit(s) \/ Handle(s)
      PROVE  /\ UNCHANGED <<kind, replies, up, filed, crashes>>
             /\ toMaster' \subseteq MasterCall
             /\ executed' \in [Nodes -> Nat]
             /\ disturbed' \in BOOLEAN
  <2>1. CASE Submit(s) \/ RejectBody(s) \/ MasterAnswers(s)
    BY <2>1 DEF Submit, RejectBody, MasterAnswers
  <2>2. CASE AskApproval(s) \/ ForwardToMaster(s)
    <3>1. \/ \E operation \in {"approve", "forward"} :
                /\ toMaster' = toMaster \cup {[from |-> s, operation |-> operation]}
                /\ UNCHANGED <<kind, replies, up, filed, executed, disturbed, crashes>>
          \/ /\ disturbed' = TRUE
             /\ UNCHANGED <<kind, toMaster, replies, up, filed, executed, crashes>>
      BY <2>2 DEF AskApproval, ForwardToMaster, Reach, Miss, Fails
    <3>2. \A operation \in {"approve", "forward"} :
              [from |-> s, operation |-> operation] \in MasterCall
      BY DEF MasterCall
    <3>3. executed \in [Nodes -> Nat] /\ toMaster \subseteq MasterCall /\ disturbed \in BOOLEAN
      OBVIOUS
    <3> QED
      BY <3>1, <3>2, <3>3
  <2>3. CASE GiveUpOnMaster(s)
    BY <2>3 DEF GiveUpOnMaster, GiveUp, Fails
  <2>4. CASE \E n \in Slaves, online \in BOOLEAN : Probe(s, n, online)
    BY <2>4 DEF Probe
  <2>5. CASE TakeOver(s)
    <3>1. \/ Executes(s)
          \/ executed' = executed
      BY <2>5 DEF TakeOver
    <3>2. executed' \in [Nodes -> Nat]
      BY <3>1 DEF Executes, Slaves
    <3> QED
      BY <2>5, <3>2 DEF TakeOver
  <2>6. CASE Delegate(s) \/ DelegateFails(s) \/ DelegateAnswers(s)
    BY <2>6 DEF Delegate, DelegateFails, DelegateAnswers
  <2> QED
    BY <1>1, <2>1, <2>2, <2>3, <2>4, <2>5, <2>6 DEF Handle
<1>2. ASSUME NEW call \in toMaster, MasterFiles(call)
      PROVE  /\ UNCHANGED <<kind, up, executed, disturbed, crashes>>
             /\ toMaster' \subseteq MasterCall /\ replies' \subseteq Reply /\ filed' \in Nat
  BY <1>2, RepliesType DEF MasterFiles, Answers
<1>3. ASSUME NEW call \in toMaster, MasterWrites(call)
      PROVE  /\ UNCHANGED <<kind, up, filed, disturbed, crashes>>
             /\ toMaster' \subseteq MasterCall /\ replies' \subseteq Reply
             /\ executed' \in [Nodes -> Nat]
  BY <1>3, RepliesType, FailoverAssumption DEF MasterWrites, Executes, Answers
<1>4. ASSUME NEW n \in Nodes, Crash(n) \/ Restart(n)
      PROVE  /\ UNCHANGED <<kind, replies, filed, executed>>
             /\ toMaster' \subseteq MasterCall /\ up' \subseteq Nodes
             /\ disturbed' \in BOOLEAN /\ crashes' \in 0 .. MaxCrashes
  <2>1. CASE Crash(n)
    <3>1. crashes' \in 0 .. MaxCrashes
      BY <2>1, FailoverAssumption DEF Crash
    <3>2. toMaster' \in {{}, toMaster}
      BY <2>1 DEF Crash
    <3> QED
      BY <2>1, <3>1, <3>2 DEF Crash
  <2>2. CASE Restart(n)
    BY <2>2 DEF Restart
  <2> QED
    BY <1>4, <2>1, <2>2
<1> QED
  BY <1>1, <1>2, <1>3, <1>4 DEF Next

TypeInv == FailoverTypeOK /\ Waiting

\* The variables of the journey have their types, and a slave that waits waits
\* for another slave.
THEOREM TypesCorrect == Spec => []TypeInv
<1>1. Init => TypeInv
  <2> SUFFICES ASSUME Init  PROVE TypeInv
    OBVIOUS
  <2>1. NoCall \in Call
    BY DEF NoCall, Call, Stages
  <2>2. \A s \in Slaves : calls[s] = NoCall
    BY DEF Init
  <2>3. calls \in [Slaves -> Call]
    BY <2>1 DEF Init
  <2>4. crashes \in 0 .. MaxCrashes
    BY FailoverAssumption DEF Init
  <2>5. Waiting
    BY <2>2 DEF Waiting, NoCall
  <2> QED
    BY <2>2, <2>3, <2>4, <2>5 DEF Init, TypeInv, FailoverTypeOK, NoCall
<1>2. TypeInv /\ [Next]_vars => TypeInv'
  <2> SUFFICES ASSUME TypeInv, [Next]_vars  PROVE TypeInv'
    OBVIOUS
  <2>1. CASE Next
    <3>1. FailoverTypeOK'
      BY <2>1, NextKeepsCalls, NextKeepsOthers DEF TypeInv, FailoverTypeOK, CallsOK
    <3>2. Waiting'
      BY <2>1, NextKeepsWaiting DEF TypeInv
    <3> QED
      BY <3>1, <3>2 DEF TypeInv
  <2>2. CASE UNCHANGED vars
    BY <2>2 DEF vars, TypeInv, FailoverTypeOK, Waiting, Elected
  <2> QED
    BY <2>1, <2>2
<1> QED
  BY <1>1, <1>2, PTL DEF Spec

\* FailoverTypeOK, for every set of slaves.
THEOREM FailoverTypeCorrect == Spec => []FailoverTypeOK
<1>1. TypeInv => FailoverTypeOK
  BY DEF TypeInv
<1> QED
  BY <1>1, TypesCorrect, PTL

-----------------------------------------------------------------------------
(***************************************************************************)
(* The journey: one slave at a time decides about the write, it is closer  *)
(* to the master than all that have had it, and as long as one decides,    *)
(* none has performed the write.                                           *)
(***************************************************************************)
SelfChecked == \A s \in Slaves : s \in calls[s].probed => s \in calls[s].online

AllChecked == \A s \in Slaves : calls[s].stage = "delegated" => calls[s].probed = Slaves

OneDecides ==
    \A s, t \in Slaves :
        calls[s].stage \in Deciding /\ t # s =>
            /\ calls[t].stage \notin Deciding
            /\ calls[t].stage # "idle" => Closer(URL, URL[Master], s, t)

NotYet == \A s, t \in Slaves : calls[s].stage \in Deciding => executed[t] = 0

ByElected ==
    \A s \in Slaves :
        executed[s] > 0 =>
            calls[s].stage = "answered" /\ calls[s].probed = Slaves /\ Elected(s) = s

JourneyInv ==
    TypeInv /\ SelfChecked /\ AllChecked /\ OneDecides /\ NotYet /\ ByElected /\ OneTemporaryMaster

\* The steps that leave the views of the slaves and their writes alone and move
\* one handler, or none.
LEMMA JourneyGoesOn ==
  ASSUME JourneyInv, NEW s \in Slaves, Starts(s) \/ GoesOn(s) \/ Ends(s)
  PROVE  SelfChecked' /\ AllChecked' /\ OneDecides' /\ NotYet' /\ ByElected' /\ OneTemporaryMaster'
<1>1. /\ calls \in [Slaves -> Call]
      /\ executed \in [Nodes -> Nat]
      /\ \A t \in Slaves : t \in Nodes /\ calls[t] \in Call /\ executed[t] \in Nat
  BY DEF JourneyInv, TypeInv, FailoverTypeOK, Slaves
<1>2. \A t \in Slaves : /\ calls'[t].probed = calls[t].probed
                        /\ calls'[t].online = calls[t].online
                        /\ t # s => calls'[t].stage = calls[t].stage
                        /\ executed'[t] = executed[t]
  BY <1>1 DEF Starts, GoesOn, Ends, AnswerWith, SameWrites, Call
<1>3. \A t \in Slaves : Elected(t)' = Elected(t)
  BY <1>2 DEF Elected
<1>4. /\ calls'[s].stage \in Deciding \cup {"answered"}
      /\ executed[s] = 0 \/ calls'[s].stage = "answered"
      /\ calls'[s].stage \in Deciding =>
            \/ calls[s].stage \in Deciding
            \/ \A t \in Slaves : calls[t].stage = "idle" /\ executed[t] = 0
  <2>1. CASE Starts(s)
    <3>1. \A t \in Slaves : calls[t].stage = "idle"
      BY <2>1 DEF Starts
    <3>2. \A t \in Slaves : executed[t] = 0
      BY <1>1, <3>1 DEF JourneyInv, ByElected
    <3>3. calls'[s].stage = "received"
      BY <1>1, <2>1 DEF Starts, Call
    <3> QED
      BY <3>1, <3>2, <3>3 DEF Deciding
  <2>2. CASE GoesOn(s)
    <3>1. calls'[s].stage \in Deciding
      BY <1>1, <2>2 DEF GoesOn, Call
    <3> QED
      BY <2>2, <3>1 DEF GoesOn, JourneyInv, NotYet
  <2>3. CASE Ends(s)
    <3>1. calls'[s].stage = "answered"
      <4>1. PICK answer \in Answers :
                calls' = [calls EXCEPT ![s].stage = "answered", ![s].answer = answer]
        BY <2>3 DEF Ends, AnswerWith
      <4> QED
        BY <1>1, <4>1 DEF Call
    <3> QED
      BY <3>1 DEF Deciding
  <2> QED
    BY <2>1, <2>2, <2>3
<1>5. SelfChecked'
  BY <1>2 DEF JourneyInv, SelfChecked
<1>6. AllChecked'
  BY <1>2, <1>4 DEF JourneyInv, AllChecked, Deciding
<1>7. OneDecides'
  <2>1. ASSUME NEW u \in Slaves, NEW t \in Slaves, calls'[u].stage \in Deciding, t # u
        PROVE  /\ calls'[t].stage \notin Deciding
               /\ calls'[t].stage # "idle" => Closer(URL, URL[Master], u, t)
    <3>1. CASE \A v \in Slaves : calls[v].stage = "idle" /\ executed[v] = 0
      BY <1>2, <2>1, <3>1 DEF Deciding
    <3>2. CASE calls[u].stage \in Deciding
      <4>1. calls[t].stage \notin Deciding
        BY <2>1, <3>2 DEF JourneyInv, OneDecides
      <4>2. calls'[t].stage # "idle" => calls[t].stage # "idle"
        BY <1>2, <3>2, <2>1, <4>1 DEF Starts, GoesOn, Ends, Deciding
      <4>3. calls'[t].stage \notin Deciding
        BY <1>2, <1>4, <2>1, <3>2, <4>1 DEF Deciding
      <4> QED
        BY <2>1, <3>2, <4>2, <4>3 DEF JourneyInv, OneDecides
    <3> QED
      BY <1>2, <1>4, <2>1, <3>1, <3>2
  <2> QED
    BY <2>1 DEF OneDecides
<1>8. NotYet'
  BY <1>2, <1>4 DEF JourneyInv, NotYet
<1>9. ByElected'
  BY <1>1, <1>2, <1>3, <1>4 DEF JourneyInv, ByElected
<1>10. OneTemporaryMaster'
  BY <1>2 DEF JourneyInv, OneTemporaryMaster
<1> QED
  BY <1>5, <1>6, <1>7, <1>8, <1>9, <1>10

\* A check of a node changes only what the checking slave knows.
LEMMA JourneyChecks ==
  ASSUME JourneyInv, NEW s \in Slaves, Checks(s)
  PROVE  SelfChecked' /\ AllChecked' /\ OneDecides' /\ NotYet' /\ ByElected' /\ OneTemporaryMaster'
<1>1. /\ calls \in [Slaves -> Call]
      /\ \A t \in Slaves : calls[t] \in Call
  BY DEF JourneyInv, TypeInv, FailoverTypeOK
<1>2. PICK n \in Slaves, online \in BOOLEAN :
          /\ n = s => online
          /\ calls' = [calls EXCEPT ![s].probed = @ \cup {n},
                                    ![s].online = IF online THEN @ \cup {n} ELSE @]
  BY DEF Checks
<1>3. \A t \in Slaves : /\ calls'[t].stage = calls[t].stage
                        /\ executed'[t] = executed[t]
                        /\ t # s => calls'[t] = calls[t]
  BY <1>1, <1>2 DEF Checks, SameWrites, Call
<1>4. calls'[s].probed = calls[s].probed \cup {n}
      /\ calls'[s].online = IF online THEN calls[s].online \cup {n} ELSE calls[s].online
  BY <1>1, <1>2 DEF Call
<1>5. calls[s].stage \in Deciding /\ executed[s] = 0
  BY DEF Checks, JourneyInv, NotYet
<1>6. SelfChecked'
  <2>1. s \in calls'[s].probed => s \in calls'[s].online
    <3>1. CASE online
      BY <1>4, <3>1 DEF JourneyInv, SelfChecked
    <3>2. CASE ~ online
      BY <1>2, <1>4, <3>2 DEF JourneyInv, SelfChecked
    <3> QED
      BY <3>1, <3>2
  <2>2. \A t \in Slaves \ {s} : t \in calls'[t].probed => t \in calls'[t].online
    BY <1>3 DEF JourneyInv, SelfChecked
  <2> QED
    BY <2>1, <2>2 DEF SelfChecked
<1>7. AllChecked'
  BY <1>3, <1>5 DEF JourneyInv, AllChecked, Deciding
<1>8. OneDecides' /\ NotYet' /\ OneTemporaryMaster'
  BY <1>3 DEF JourneyInv, OneDecides, NotYet, OneTemporaryMaster
<1>9. ByElected'
  BY <1>3, <1>5 DEF JourneyInv, ByElected, Elected
<1> QED
  BY <1>6, <1>7, <1>8, <1>9

\* The elected slave performs the write: it was the one that decided.
LEMMA JourneyPerforms ==
  ASSUME JourneyInv, NEW s \in Slaves, Performs(s)
  PROVE  SelfChecked' /\ AllChecked' /\ OneDecides' /\ NotYet' /\ ByElected' /\ OneTemporaryMaster'
<1>1. /\ calls \in [Slaves -> Call]
      /\ executed \in [Nodes -> Nat]
      /\ \A t \in Slaves : t \in Nodes /\ calls[t] \in Call
  BY DEF JourneyInv, TypeInv, FailoverTypeOK, Slaves
<1>2. calls[s].stage \in Deciding /\ calls[s].probed = Slaves /\ Elected(s) = s
  BY DEF Performs, Decided, Deciding
<1>3. \A t \in Slaves : executed[t] = 0 /\ (t # s => calls[t].stage \notin Deciding)
  BY <1>2 DEF JourneyInv, NotYet, OneDecides
<1>4. calls' = [calls EXCEPT ![s].stage = "answered", ![s].answer = "done"]
  BY DEF Performs, AnswerWith
<1>5. /\ \A t \in Slaves : /\ calls'[t].probed = calls[t].probed
                           /\ calls'[t].online = calls[t].online
                           /\ t # s => calls'[t].stage = calls[t].stage
      /\ calls'[s].stage = "answered"
  BY <1>1, <1>4 DEF Call
<1>6. \A t \in Slaves : executed'[t] = IF t = s THEN 1 ELSE 0
  BY <1>1, <1>3 DEF Performs, Executes
<1>7. \A t \in Slaves : calls'[t].stage \notin Deciding
  BY <1>3, <1>5 DEF Deciding
<1>8. SelfChecked'
  BY <1>5 DEF JourneyInv, SelfChecked
<1>9. AllChecked'
  BY <1>5 DEF JourneyInv, AllChecked
<1>10. OneDecides' /\ NotYet'
  BY <1>7 DEF OneDecides, NotYet
<1>11. ByElected'
  BY <1>2, <1>5, <1>6 DEF ByElected, Elected
<1>12. OneTemporaryMaster'
  BY <1>6 DEF OneTemporaryMaster
<1> QED
  BY <1>8, <1>9, <1>10, <1>11, <1>12

\* A slave that has found itself online and checked all others hands the write
\* on to a closer one only, so that the order of the journey descends.
LEMMA JourneyHandsOn ==
  ASSUME JourneyInv, NEW s \in Slaves, HandsOn(s)
  PROVE  SelfChecked' /\ AllChecked' /\ OneDecides' /\ NotYet' /\ ByElected' /\ OneTemporaryMaster'
<1> DEFINE e == Elected(s)
<1>1. /\ calls \in [Slaves -> Call]
      /\ \A t \in Slaves : t \in Nodes /\ calls[t] \in Call
      /\ FailoverTypeOK
  BY DEF JourneyInv, TypeInv, FailoverTypeOK, Slaves
<1>2. calls[s].stage \in Deciding /\ calls[s].probed = Slaves /\ e \in Slaves \ {s}
  BY DEF HandsOn, Decided, Deciding
<1>3. \A t \in Slaves :
          /\ executed[t] = 0
          /\ t # s => /\ calls[t].stage \notin Deciding
                      /\ calls[t].stage # "idle" => Closer(URL, URL[Master], s, t)
  BY <1>2 DEF JourneyInv, NotYet, OneDecides
<1>4. Closer(URL, URL[Master], e, s)
  BY <1>1, <1>2, ElectedOverSelf DEF JourneyInv, SelfChecked
<1> HIDE DEF e
<1>5. calls' = [calls EXCEPT ![s].stage = "delegated",
                             ![e] = [NoCall EXCEPT !.stage = "received"]]
  BY DEF HandsOn, e
<1>6. /\ calls'[s].stage = "delegated"
      /\ calls'[s].probed = calls[s].probed /\ calls'[s].online = calls[s].online
      /\ calls'[e] = [NoCall EXCEPT !.stage = "received"]
      /\ \A t \in Slaves \ {s, e} : calls'[t] = calls[t]
  BY <1>1, <1>2, <1>5 DEF Call
<1>7. calls'[e].stage = "received" /\ calls'[e].probed = {}
  BY <1>6 DEF NoCall
<1>8. \A t \in Slaves : executed'[t] = 0
  BY <1>3 DEF HandsOn, SameWrites
<1>9. SelfChecked'
  BY <1>2, <1>6, <1>7 DEF JourneyInv, SelfChecked
<1>10. AllChecked'
  BY <1>2, <1>6, <1>7 DEF JourneyInv, AllChecked
<1>11. OneDecides'
  <2>1. ASSUME NEW u \in Slaves, NEW t \in Slaves, calls'[u].stage \in Deciding, t # u
        PROVE  /\ calls'[t].stage \notin Deciding
               /\ calls'[t].stage # "idle" => Closer(URL, URL[Master], u, t)
    <3>1. u = e
      BY <1>3, <1>6, <2>1 DEF Deciding
    <3>2. CASE t = s
      BY <1>4, <1>6, <3>1, <3>2 DEF Deciding
    <3>3. CASE t # s
      <4>1. calls'[t] = calls[t]
        BY <1>6, <2>1, <3>1, <3>3
      <4>2. calls[t].stage # "idle" => Closer(URL, URL[Master], s, t)
        BY <1>3, <3>3
      <4>3. Closer(URL, URL[Master], s, t) => Closer(URL, URL[Master], e, t)
        BY <1>1, <1>2, <1>4, URLPlaced, CloserTransitive
      <4> QED
        BY <1>3, <3>1, <3>3, <4>1, <4>2, <4>3
    <3> QED
      BY <3>2, <3>3
  <2> QED
    BY <2>1 DEF OneDecides
<1>12. NotYet' /\ ByElected' /\ OneTemporaryMaster'
  BY <1>8 DEF NotYet, ByElected, OneTemporaryMaster
<1> QED
  BY <1>9, <1>10, <1>11, <1>12

\* A crash ends handlers, and what was answered stays answered.
LEMMA JourneyDies ==
  ASSUME JourneyInv, NEW n \in Nodes, Dies(n)
  PROVE  SelfChecked' /\ AllChecked' /\ OneDecides' /\ NotYet' /\ ByElected' /\ OneTemporaryMaster'
<1>1. \A t \in Slaves : calls[t] \in Call
  BY DEF JourneyInv, TypeInv, FailoverTypeOK
<1>2. \A t \in Slaves : /\ calls'[t].probed = calls[t].probed
                        /\ calls'[t].online = calls[t].online
                        /\ \/ calls'[t].stage = calls[t].stage
                           \/ /\ calls'[t].stage = "dead"
                              /\ calls[t].stage \notin {"idle", "answered"}
                        /\ executed'[t] = executed[t]
  BY <1>1 DEF Dies, SameWrites, Call
<1>3. SelfChecked' /\ AllChecked' /\ NotYet' /\ OneTemporaryMaster'
  BY <1>2 DEF JourneyInv, SelfChecked, AllChecked, NotYet, OneTemporaryMaster, Deciding
<1>4. OneDecides'
  BY <1>2 DEF JourneyInv, OneDecides, Deciding
<1>5. ByElected'
  BY <1>2 DEF JourneyInv, ByElected, Elected
<1> QED
  BY <1>3, <1>4, <1>5

\* The inductive invariant of the journey.
THEOREM JourneyCorrect == Spec => []JourneyInv
<1>1. Init => SelfChecked /\ AllChecked /\ OneDecides /\ NotYet /\ ByElected /\ OneTemporaryMaster
  <2> SUFFICES ASSUME Init
               PROVE  /\ SelfChecked /\ AllChecked /\ OneDecides
                      /\ NotYet /\ ByElected /\ OneTemporaryMaster
    OBVIOUS
  <2>1. \A s \in Slaves : calls[s] = NoCall /\ executed[s] = 0
    BY DEF Init, Slaves
  <2>2. NoCall.stage = "idle" /\ NoCall.probed = {}
    BY DEF NoCall
  <2> QED
    BY <2>1, <2>2 DEF SelfChecked, AllChecked, OneDecides, NotYet, ByElected,
                      OneTemporaryMaster, Deciding
<1>2. TypeInv' /\ JourneyInv /\ [Next]_vars => JourneyInv'
  <2> SUFFICES ASSUME TypeInv', JourneyInv, [Next]_vars  PROVE JourneyInv'
    OBVIOUS
  <2>1. CASE Next
    <3> USE DEF JourneyInv
    <3>1. ASSUME NEW s \in Slaves, Starts(s) \/ GoesOn(s) \/ Ends(s)  PROVE JourneyInv'
      BY <3>1, JourneyGoesOn
    <3>2. ASSUME NEW s \in Slaves, Checks(s)  PROVE JourneyInv'
      BY <3>2, JourneyChecks
    <3>3. ASSUME NEW s \in Slaves, Performs(s)  PROVE JourneyInv'
      BY <3>3, JourneyPerforms
    <3>4. ASSUME NEW s \in Slaves, HandsOn(s)  PROVE JourneyInv'
      BY <3>4, JourneyHandsOn
    <3>5. ASSUME NEW n \in Nodes, Dies(n)  PROVE JourneyInv'
      BY <3>5, JourneyDies
    <3>6. CASE Elsewhere
      BY <3>6 DEF Elsewhere, SameWrites, SelfChecked, AllChecked, OneDecides, NotYet,
                  ByElected, OneTemporaryMaster, Elected
    <3> QED
      BY <2>1, <3>1, <3>2, <3>3, <3>4, <3>5, <3>6, StepKinds DEF TypeInv
  <2>2. CASE UNCHANGED vars
    BY <2>2 DEF vars, JourneyInv, SelfChecked, AllChecked, OneDecides, NotYet,
                ByElected, OneTemporaryMaster, Elected
  <2> QED
    BY <2>1, <2>2
<1>3. Init /\ TypeInv => JourneyInv
  BY <1>1 DEF JourneyInv
<1> QED
  BY <1>2, <1>3, TypesCorrect, PTL DEF Spec

\* Whatever the slaves believe about each other, one of them at most performs
\* the write as temporary master, once (the end of ForwardWrite).
THEOREM OneTemporaryMasterAlways == Spec => []OneTemporaryMaster
<1>1. JourneyInv => OneTemporaryMaster
  BY DEF JourneyInv
<1> QED
  BY <1>1, JourneyCorrect, PTL

\* A slave that has handed a write on waits for one closer to the master: no
\* circles, for any number of slaves.
THEOREM ForwardingDescendsAlways == Spec => []ForwardingDescends
<1>1. JourneyInv => ForwardingDescends
  <2> SUFFICES ASSUME JourneyInv, NEW s \in Slaves, calls[s].stage = "delegated"
               PROVE  Closer(URL, URL[Master], Elected(s), s)
    BY DEF ForwardingDescends
  <2>1. s \in calls[s].online
    BY DEF JourneyInv, AllChecked, SelfChecked
  <2>2. Elected(s) # s
    BY DEF JourneyInv, TypeInv, Waiting
  <2> QED
    BY <2>1, <2>2, ElectedOverSelf DEF JourneyInv, TypeInv
<1> QED
  BY <1>1, JourneyCorrect, PTL

\* A slave that performs a write found every closer one offline.
THEOREM TemporaryMasterIsClosestAlways == Spec => []TemporaryMasterIsClosest
<1>1. JourneyInv => TemporaryMasterIsClosest
  <2> SUFFICES ASSUME JourneyInv, NEW s \in Slaves, NEW t \in Slaves,
                      executed[s] > 0, Closer(URL, URL[Master], t, s)
               PROVE  t \in calls[s].probed \ calls[s].online
    BY DEF TemporaryMasterIsClosest
  <2>1. calls[s].probed = Slaves /\ Elected(s) = s
    BY DEF JourneyInv, ByElected
  <2>2. s \in Nodes /\ t \in Nodes
    BY DEF Slaves
  <2>3. ~ Closer(URL, URL[Master], s, t) /\ t # s
    BY <2>2, URLPlaced, CloserAsymmetric
  <2>4. t \notin calls[s].online
    BY <2>1, <2>3, ElectedOverSelf DEF JourneyInv, TypeInv
  <2> QED
    BY <2>1, <2>4
<1> QED
  BY <1>1, JourneyCorrect, PTL

-----------------------------------------------------------------------------
(***************************************************************************)
(* Answers                                                                 *)
(***************************************************************************)
Done == \E n \in Nodes : executed[n] > 0

TrueAnswer(answer) == (answer = "done" => Done) /\ (answer = "pending" => filed > 0)

AnswersInv ==
    /\ TypeInv
    /\ \A s \in Slaves : TrueAnswer(calls[s].answer)
    /\ \A reply \in replies : TrueAnswer(reply.answer)

\* What was performed or filed stays so: an answer that is true remains true.
LEMMA TruthLasts ==
  ASSUME FailoverTypeOK, Next, NEW answer, TrueAnswer(answer)
  PROVE  TrueAnswer(answer)'
<1>1. filed \in Nat /\ \A n \in Nodes : executed[n] \in Nat
  BY DEF FailoverTypeOK
<1>2. filed' = filed \/ filed' = filed + 1
  BY DEF Next, Submit, Handle, RejectBody, AskApproval, ForwardToMaster, Reach, Miss,
         MasterAnswers, GiveUpOnMaster, GiveUp, Probe, TakeOver, Delegate, DelegateFails,
         DelegateAnswers, MasterFiles, MasterWrites, Crash, Restart
<1>3. executed' = executed \/ \E n \in Nodes : Executes(n)
  <2>1. \A s \in Slaves : s \in Nodes
    BY DEF Slaves
  <2> QED
    BY <2>1, FailoverAssumption
    DEF Next, Submit, Handle, RejectBody, AskApproval, ForwardToMaster, Reach, Miss,
         MasterAnswers, GiveUpOnMaster, GiveUp, Probe, TakeOver, Delegate, DelegateFails,
         DelegateAnswers, MasterFiles, MasterWrites, Crash, Restart
<1>4. \A n \in Nodes : executed[n] > 0 => executed'[n] > 0
  <2>1. ASSUME NEW m \in Nodes, Executes(m), NEW n \in Nodes, executed[n] > 0
        PROVE  executed'[n] > 0
    BY <1>1, <2>1 DEF Executes, FailoverTypeOK
  <2> QED
    BY <1>3, <2>1
<1> QED
  BY <1>1, <1>2, <1>4 DEF TrueAnswer, Done

\* Only the answers of the master, of the elected slave and of a write just
\* performed say done or pending; every other step leaves the answers alone.
LEMMA Answering ==
  ASSUME AnswersInv, Next
  PROVE  \/ \E s \in Slaves, answer \in Answers : AnswerWith(s, answer) /\ TrueAnswer(answer)'
         \/ \A t \in Slaves : calls'[t].answer \in {calls[t].answer, "none"}
<1>1. /\ FailoverTypeOK /\ Waiting
      /\ calls \in [Slaves -> Call]
      /\ \A t \in Slaves : calls[t] \in Call
  BY DEF AnswersInv, TypeInv, FailoverTypeOK
<1>2. \A answer \in {"rejected", "refused", "unavailable", "error"} :
          answer \in Answers /\ TrueAnswer(answer)'
  BY DEF Answers, TrueAnswer
<1>3. ASSUME NEW s \in Slaves, NEW from, NEW to, Goes(s, from, to)
      PROVE  \A t \in Slaves : calls'[t].answer = calls[t].answer
  BY <1>1, <1>3 DEF Goes, Call
<1>4. CASE \E s \in Slaves : Submit(s)
  BY <1>3, <1>4 DEF Submit
<1>5. ASSUME NEW s \in Slaves, Handle(s)
      PROVE  \/ \E answer \in Answers : AnswerWith(s, answer) /\ TrueAnswer(answer)'
             \/ \A t \in Slaves : calls'[t].answer \in {calls[t].answer, "none"}
  <2>1. CASE RejectBody(s)
    BY <1>2, <2>1 DEF RejectBody
  <2>2. CASE AskApproval(s) \/ ForwardToMaster(s)
    BY <1>3, <2>2 DEF AskApproval, ForwardToMaster, Reach, Miss, Fails
  <2>3. CASE MasterAnswers(s)
    <3>1. PICK reply \in replies : AnswerWith(s, reply.answer)
      BY <2>3 DEF MasterAnswers
    <3>2. reply.answer \in Answers
      BY <1>1 DEF FailoverTypeOK, Reply
    <3>3. TrueAnswer(reply.answer)'
      BY <1>1, TruthLasts DEF AnswersInv
    <3> QED
      BY <3>1, <3>2, <3>3
  <2>4. CASE GiveUpOnMaster(s)
    BY <1>2, <1>3, <2>4 DEF GiveUpOnMaster, GiveUp, Fails
  <2>5. CASE \E n \in Slaves, online \in BOOLEAN : Probe(s, n, online)
    BY <1>1, <2>5 DEF Probe, Call
  <2>6. CASE TakeOver(s)
    <3>1. CASE Executes(s) /\ AnswerWith(s, "done")
      <4>1. s \in Nodes
        BY DEF Slaves
      <4>2. executed'[s] > 0
        BY <1>1, <3>1, <4>1 DEF Executes, FailoverTypeOK
      <4>3. Done'
        BY <4>1, <4>2 DEF Done
      <4>4. TrueAnswer("done")' /\ "done" \in Answers
        BY <4>3 DEF TrueAnswer, Answers
      <4> QED
        BY <3>1, <4>4
    <3>2. CASE AnswerWith(s, "refused")
      BY <1>2, <3>2
    <3> QED
      BY <2>6, <3>1, <3>2 DEF TakeOver
  <2>7. CASE Delegate(s)
    <3>1. PICK e \in Nodes \ {s} :
              calls' = [calls EXCEPT ![s].stage = "delegated",
                                     ![e] = [NoCall EXCEPT !.stage = "received"]]
      BY <1>1, <2>7 DEF Delegate, FailoverTypeOK
    <3>2. [NoCall EXCEPT !.stage = "received"].answer = "none"
      BY DEF NoCall
    <3> QED
      BY <1>1, <3>1, <3>2 DEF Call
  <2>8. CASE DelegateFails(s)
    BY <1>2, <2>8 DEF DelegateFails
  <2>9. CASE DelegateAnswers(s)
    <3>1. Elected(s) \in Slaves /\ calls[Elected(s)].stage = "answered"
      BY <1>1, <2>9 DEF DelegateAnswers, Waiting
    <3>2. PICK answer \in Answers : answer = calls[Elected(s)].answer
      BY <1>1, <3>1 DEF FailoverTypeOK, Call
    <3>3. TrueAnswer(answer)
      BY <3>1, <3>2 DEF AnswersInv
    <3>4. TrueAnswer(answer)'
      BY <1>1, <3>3, TruthLasts
    <3>5. AnswerWith(s, answer)
      BY <2>9, <3>2 DEF DelegateAnswers, AnswerWith
    <3> QED
      BY <3>4, <3>5
  <2> QED
    BY <1>5, <2>1, <2>2, <2>3, <2>4, <2>5, <2>6, <2>7, <2>8, <2>9 DEF Handle
<1>6. CASE \/ \E call \in toMaster : MasterFiles(call) \/ MasterWrites(call)
           \/ \E n \in Nodes : Restart(n)
  BY <1>6 DEF MasterFiles, MasterWrites, Restart
<1>7. CASE \E n \in Nodes : Crash(n)
  BY <1>1, <1>7 DEF Crash, Call
<1> QED
  BY <1>4, <1>5, <1>6, <1>7 DEF Next

\* The calls hold true answers after a step.
LEMMA CallsStayTrue ==
  ASSUME AnswersInv, Next, NEW t \in Slaves
  PROVE  TrueAnswer(calls[t].answer)'
<1>1. FailoverTypeOK /\ calls \in [Slaves -> Call]
  BY DEF AnswersInv, TypeInv, FailoverTypeOK
<1>2. TrueAnswer("none")'
  BY DEF TrueAnswer
<1>3. PICK old : old = calls[t].answer
  OBVIOUS
<1>4. TrueAnswer(old)
  BY <1>3 DEF AnswersInv
<1>5. TrueAnswer(old)'
  BY <1>1, <1>4, TruthLasts
<1>6. ASSUME NEW s \in Slaves, NEW answer \in Answers, AnswerWith(s, answer)
      PROVE  calls'[t].answer \in {old, answer}
  BY <1>1, <1>3, <1>6 DEF AnswerWith, Call
<1>7. PICK new : new = calls'[t].answer
  OBVIOUS
<1>8. TrueAnswer(new)'
  BY <1>2, <1>3, <1>5, <1>6, <1>7, Answering
<1> QED
  BY <1>7, <1>8 DEF TrueAnswer, Done

\* The master sends true answers.
LEMMA RepliesStayTrue ==
  ASSUME AnswersInv, Next
  PROVE  \A reply \in replies' : TrueAnswer(reply.answer)'
<1>1. FailoverTypeOK
  BY DEF AnswersInv, TypeInv
<1>2. ASSUME NEW reply \in replies
      PROVE  TrueAnswer(reply.answer)'
  BY <1>1, <1>2, TruthLasts DEF AnswersInv
<1>3. ASSUME NEW call \in toMaster, MasterFiles(call)
      PROVE  \E answer : MasterReplies(call, answer) /\ TrueAnswer(answer)'
  <2>1. filed' = filed + 1 => TrueAnswer("pending")'
    BY <1>1 DEF TrueAnswer, FailoverTypeOK
  <2>2. TrueAnswer("rejected")'
    BY DEF TrueAnswer
  <2> QED
    BY <1>3, <2>1, <2>2 DEF MasterFiles
<1>4. ASSUME NEW call \in toMaster, MasterWrites(call)
      PROVE  \E answer : MasterReplies(call, answer) /\ TrueAnswer(answer)'
  <2>1. TrueAnswer("refused")'
    BY DEF TrueAnswer
  <2>2. ASSUME Executes(Master)
        PROVE  TrueAnswer("done")'
    <3>1. Master \in Nodes
      BY FailoverAssumption
    <3>2. executed'[Master] > 0
      BY <1>1, <2>2, <3>1 DEF Executes, FailoverTypeOK
    <3> QED
      BY <3>1, <3>2 DEF TrueAnswer, Done
  <2> QED
    BY <1>4, <2>1, <2>2 DEF MasterWrites
<1>5. \/ replies' = replies
      \/ \E call \in toMaster : MasterFiles(call) \/ MasterWrites(call)
  BY DEF Next, Submit, Handle, RejectBody, AskApproval, ForwardToMaster, Reach, Miss,
         MasterAnswers, GiveUpOnMaster, GiveUp, Probe, TakeOver, Delegate, DelegateFails,
         DelegateAnswers, Crash, Restart
<1>6. ASSUME NEW call, NEW answer, MasterReplies(call, answer), TrueAnswer(answer)'
      PROVE  \A reply \in replies' : TrueAnswer(reply.answer)'
  <2>1. SUFFICES ASSUME NEW reply \in replies'
                 PROVE  TrueAnswer(reply.answer)'
    OBVIOUS
  <2>2. reply \in replies \/ reply = [call |-> call, answer |-> answer]
    BY <1>6 DEF MasterReplies
  <2>3. CASE reply = [call |-> call, answer |-> answer]
    <3>1. reply.answer = answer
      BY <2>3
    <3> QED
      BY <1>6, <3>1 DEF TrueAnswer
  <2> QED
    BY <1>2, <2>2, <2>3
<1> QED
  BY <1>2, <1>3, <1>4, <1>5, <1>6

THEOREM AnswersCorrect == Spec => []AnswersInv
<1>1. TypeInv /\ Init => AnswersInv
  BY DEF AnswersInv, Init, NoCall, TrueAnswer
<1>2. TypeInv' /\ AnswersInv /\ [Next]_vars => AnswersInv'
  <2> SUFFICES ASSUME TypeInv', AnswersInv, [Next]_vars
               PROVE  AnswersInv'
    OBVIOUS
  <2>1. CASE Next
    BY <2>1, CallsStayTrue, RepliesStayTrue DEF AnswersInv
  <2>2. CASE UNCHANGED vars
    BY <2>2 DEF vars, AnswersInv, TrueAnswer, Done
  <2> QED
    BY <2>1, <2>2
<1> QED
  BY <1>1, <1>2, TypesCorrect, PTL DEF Spec

\* AnswersAreTrue: an answer that says the write was done, or filed, is true,
\* whatever was lost, cut off or passed on on its way.
THEOREM AnswersAreTrueAlways == Spec => []AnswersAreTrue
<1>1. AnswersInv => AnswersAreTrue
  BY DEF AnswersInv, TrueAnswer, Done, AnswersAreTrue
<1> QED
  BY <1>1, AnswersCorrect, PTL

-----------------------------------------------------------------------------
(***************************************************************************)
(* Approval first                                                          *)
(***************************************************************************)
Undisturbed ==
    /\ \A s \in Slaves : calls[s].stage \in {"idle", "received", "approving", "answered"}
    /\ \A call \in toMaster : call.operation = "approve"
    /\ \A n \in Nodes : executed[n] = 0

\* While nothing fails, the handlers do not get beyond the approval call.
LEMMA ApprovalLasts ==
  ASSUME TypeInv, ~ disturbed => Undisturbed, Next
  PROVE  ~ disturbed' => Undisturbed'
<1>1. FailoverTypeOK
  BY DEF TypeInv
<1>2. calls \in [Slaves -> Call] /\ \A t \in Slaves : calls[t] \in Call
  BY <1>1 DEF FailoverTypeOK
<1>3. ASSUME NEW s \in Slaves, NEW stage \in {"received", "approving"},
             calls' = [calls EXCEPT ![s].stage = stage],
             \A call \in toMaster' \ toMaster : call.operation = "approve",
             UNCHANGED <<executed, disturbed>>
      PROVE  ~ disturbed' => Undisturbed'
  <2>1. \A t \in Slaves : calls'[t].stage \in {calls[t].stage, stage}
    BY <1>2, <1>3 DEF Call
  <2> QED
    BY <1>3, <2>1 DEF Undisturbed
<1>4. ASSUME NEW s \in Slaves, NEW answer, AnswerWith(s, answer),
             UNCHANGED <<toMaster, executed, disturbed>>
      PROVE  ~ disturbed' => Undisturbed'
  <2>1. \A t \in Slaves : calls'[t].stage \in {calls[t].stage, "answered"}
    BY <1>2, <1>4 DEF Call, AnswerWith
  <2> QED
    BY <1>4, <2>1 DEF Undisturbed
<1>5. CASE \E s \in Slaves : Submit(s)
  BY <1>3, <1>5 DEF Submit, Goes
<1>6. ASSUME NEW s \in Slaves, Handle(s)
      PROVE  ~ disturbed' => Undisturbed'
  <2>1. CASE RejectBody(s)
    BY <1>4, <2>1 DEF RejectBody
  <2>2. CASE AskApproval(s)
    <3>1. CASE Reach(s, "approve", "received", "approving")
      <4>1. \A call \in toMaster' \ toMaster : call.operation = "approve"
        BY <3>1 DEF Reach
      <4>2. /\ calls' = [calls EXCEPT ![s].stage = "approving"]
            /\ UNCHANGED <<executed, disturbed>>
        BY <3>1 DEF Reach, Goes
      <4> QED
        BY <1>3, <4>1, <4>2
    <3> QED
      BY <2>2, <3>1 DEF AskApproval, Miss, Fails
  <2>3. CASE ForwardToMaster(s)
    BY <2>3 DEF ForwardToMaster, Reach, Miss, Fails, Goes, Undisturbed
  <2>4. CASE MasterAnswers(s)
    BY <1>4, <2>4 DEF MasterAnswers
  <2>5. CASE GiveUpOnMaster(s) \/ DelegateFails(s)
    BY <2>5 DEF GiveUpOnMaster, GiveUp, Fails, DelegateFails
  <2>6. CASE \/ \E n \in Slaves, online \in BOOLEAN : Probe(s, n, online)
             \/ TakeOver(s)
             \/ Delegate(s)
    BY <2>6 DEF Probe, TakeOver, Delegate, Decided, Undisturbed
  <2>7. CASE DelegateAnswers(s)
    BY <1>4, <2>7 DEF DelegateAnswers
  <2> QED
    BY <1>6, <2>1, <2>2, <2>3, <2>4, <2>5, <2>6, <2>7 DEF Handle
<1>7. CASE \E call \in toMaster : MasterFiles(call)
  BY <1>7 DEF MasterFiles, MasterReplies, Undisturbed
<1>8. CASE \E call \in toMaster : MasterWrites(call)
  BY <1>8 DEF MasterWrites, Undisturbed
<1>9. CASE \E n \in Nodes : Crash(n) \/ Restart(n)
  BY <1>9 DEF Crash, Restart, Undisturbed
<1> QED
  BY <1>5, <1>6, <1>7, <1>8, <1>9 DEF Next

\* ApprovalFirst: while no call fails and no node crashes, a write given to any
\* of the slaves is performed by nobody.
THEOREM ApprovalFirstAlways == Spec => []ApprovalFirst
<1> DEFINE Approved == ~ disturbed => Undisturbed
<1>1. Init => Approved
  BY DEF Init, NoCall, Undisturbed
<1>2. TypeInv /\ Approved /\ [Next]_vars => Approved'
  <2>1. CASE UNCHANGED vars
    BY <2>1 DEF vars, Undisturbed
  <2> QED
    BY <2>1, ApprovalLasts
<1>3. Approved => ApprovalFirst
  BY DEF Undisturbed, ApprovalFirst
<1> HIDE DEF Approved
<1> QED
  BY <1>1, <1>2, <1>3, TypesCorrect, PTL DEF Spec

-----------------------------------------------------------------------------
(***************************************************************************)
(* Handlers only go forward: no slave gets the write twice.                *)
(***************************************************************************)
Advances(s) ==
    \/ calls'[s] = calls[s]
    \/ Rank(calls[s].stage) < Rank(calls'[s].stage)
    \/ /\ calls[s].stage = "electing" /\ calls'[s].stage = "electing"
       /\ calls[s].probed \subseteq calls'[s].probed
       /\ calls[s].probed # calls'[s].probed

LEMMA RankNat ==
  ASSUME NEW stage
  PROVE  /\ Rank(stage) \in 0 .. 7
         /\ stage \in Stages \ {"answered", "dead"} => Rank(stage) < 7
  BY DEF Rank, Stages

\* The slave a write is handed to has not had it: every slave that has had it
\* is farther from the master than the one that decides, the elected is closer.
LEMMA ElectedIsIdle ==
  ASSUME JourneyInv, NEW s \in Slaves, Decided(s), Elected(s) \in Nodes \ {s}
  PROVE  Elected(s) \in Slaves /\ calls[Elected(s)].stage = "idle"
<1>1. FailoverTypeOK /\ calls[s].stage \in Deciding /\ s \in calls[s].online
  BY DEF JourneyInv, TypeInv, SelfChecked, Decided, Deciding
<1>2. Elected(s) \in Slaves /\ Closer(URL, URL[Master], Elected(s), s)
  BY <1>1, ElectedOverSelf
<1>3. ~ Closer(URL, URL[Master], s, Elected(s))
  BY <1>2, URLPlaced, CloserAsymmetric DEF Slaves
<1> QED
  BY <1>1, <1>2, <1>3 DEF JourneyInv, OneDecides

\* The step of a handler leaves the others as they are.
LEMMA OneAdvances ==
  ASSUME FailoverTypeOK, NEW s \in Slaves, Advances(s),
         \A t \in Slaves \ {s} : calls'[t] = calls[t]
  PROVE  \A t \in Slaves : Advances(t)
  BY DEF Advances

LEMMA GoesAdvances ==
  ASSUME FailoverTypeOK, NEW s \in Slaves, NEW from, NEW to, Goes(s, from, to),
         Rank(from) < Rank(to)
  PROVE  \A t \in Slaves : Advances(t)
<1>1. calls \in [Slaves -> Call] /\ calls[s] \in Call
  BY DEF FailoverTypeOK
<1>2. calls'[s].stage = to /\ \A t \in Slaves \ {s} : calls'[t] = calls[t]
  BY <1>1 DEF Goes, Call
<1>3. Advances(s)
  BY <1>2 DEF Advances, Goes
<1> QED
  BY <1>2, <1>3, OneAdvances

LEMMA AnswerAdvances ==
  ASSUME FailoverTypeOK, NEW s \in Slaves, NEW answer, AnswerWith(s, answer),
         calls[s].stage \notin {"answered", "dead"}
  PROVE  \A t \in Slaves : Advances(t)
<1>1. calls \in [Slaves -> Call] /\ calls[s] \in Call
  BY DEF FailoverTypeOK
<1>2. calls'[s].stage = "answered" /\ \A t \in Slaves \ {s} : calls'[t] = calls[t]
  BY <1>1 DEF AnswerWith, Call
<1>3. Rank(calls[s].stage) < 7 /\ Rank("answered") = 7
  BY <1>1, RankNat DEF Call, Rank
<1>4. Advances(s)
  BY <1>2, <1>3 DEF Advances
<1> QED
  BY <1>2, <1>4, OneAdvances

\* HandlersAdvance, of one step.
LEMMA NextAdvances ==
  ASSUME JourneyInv, Next
  PROVE  \A t \in Slaves : Advances(t)
<1>1. FailoverTypeOK /\ calls \in [Slaves -> Call] /\ \A t \in Slaves : calls[t] \in Call
  BY DEF JourneyInv, TypeInv, FailoverTypeOK
<1>2. CASE calls' = calls
  BY <1>2 DEF Advances
<1>3. ASSUME NEW s \in Slaves, Submit(s)  PROVE \A t \in Slaves : Advances(t)
  BY <1>1, <1>3, GoesAdvances DEF Submit, Rank
<1>4. ASSUME NEW s \in Slaves, Handle(s)  PROVE \A t \in Slaves : Advances(t)
  <2>1. CASE RejectBody(s) \/ MasterAnswers(s) \/ TakeOver(s) \/ DelegateFails(s) \/ DelegateAnswers(s)
    <3>1. calls[s].stage \notin {"answered", "dead"}
      BY <2>1 DEF RejectBody, MasterAnswers, TakeOver, DelegateFails, DelegateAnswers, Decided
    <3>2. \E answer : AnswerWith(s, answer)
      BY <2>1 DEF RejectBody, MasterAnswers, TakeOver, DelegateFails, DelegateAnswers
    <3> QED
      BY <1>1, <3>1, <3>2, AnswerAdvances
  <2>2. CASE AskApproval(s) \/ ForwardToMaster(s)
    <3>1. \/ Goes(s, "received", "approving") \/ Goes(s, "received", "unapproved")
          \/ Goes(s, "unapproved", "forwarding") \/ Goes(s, "unapproved", "electing")
      BY <2>2 DEF AskApproval, ForwardToMaster, Reach, Miss, Fails
    <3> QED
      BY <1>1, <3>1, GoesAdvances DEF Rank
  <2>3. CASE GiveUpOnMaster(s)
    <3>1. \/ calls[s].stage \in {"approving", "forwarding"} /\ AnswerWith(s, "error")
          \/ Goes(s, "approving", "unapproved") \/ Goes(s, "forwarding", "electing")
      BY <2>3 DEF GiveUpOnMaster, GiveUp, Fails
    <3> QED
      BY <1>1, <3>1, AnswerAdvances, GoesAdvances DEF Rank
  <2>4. ASSUME NEW n \in Slaves, NEW online \in BOOLEAN, Probe(s, n, online)
        PROVE  \A t \in Slaves : Advances(t)
    <3>1. /\ calls'[s].stage = calls[s].stage
          /\ calls'[s].probed = calls[s].probed \cup {n}
          /\ \A t \in Slaves \ {s} : calls'[t] = calls[t]
      BY <1>1, <2>4 DEF Probe, Call
    <3>2. calls[s].stage = "electing" /\ n \notin calls[s].probed
      BY <2>4 DEF Probe, IsNext
    <3>3. Advances(s)
      BY <3>1, <3>2 DEF Advances
    <3> QED
      BY <1>1, <3>1, <3>3, OneAdvances
  <2>5. CASE Delegate(s)
    <3> DEFINE e == Elected(s)
    <3>1. e \in Slaves \ {s} /\ calls[e].stage = "idle"
      BY <1>1, <2>5, ElectedIsIdle DEF Delegate, FailoverTypeOK
    <3>2. calls[s].stage = "electing"
      BY <2>5 DEF Delegate, Decided
    <3> HIDE DEF e
    <3>3. calls' = [calls EXCEPT ![s].stage = "delegated",
                                 ![e] = [NoCall EXCEPT !.stage = "received"]]
      BY <2>5 DEF Delegate, e
    <3>4. /\ calls'[s].stage = "delegated" /\ calls'[e].stage = "received"
          /\ \A t \in Slaves \ {s, e} : calls'[t] = calls[t]
      BY <1>1, <3>1, <3>3 DEF Call, NoCall
    <3>5. Advances(s) /\ Advances(e)
      BY <3>1, <3>2, <3>4 DEF Advances, Rank
    <3> QED
      BY <3>4, <3>5 DEF Advances
  <2> QED
    BY <1>4, <2>1, <2>2, <2>3, <2>4, <2>5 DEF Handle
<1>5. ASSUME NEW n \in Nodes, Crash(n)  PROVE \A t \in Slaves : Advances(t)
  <2> SUFFICES ASSUME NEW t \in Slaves, calls'[t] # calls[t]  PROVE Advances(t)
    BY DEF Advances
  <2>1. calls[t].stage \notin {"idle", "answered"} /\ calls'[t] = [calls[t] EXCEPT !.stage = "dead"]
    BY <1>5 DEF Crash
  <2>2. calls'[t].stage = "dead"
    BY <1>1, <2>1 DEF Call
  <2>3. calls[t].stage # "dead"
    BY <1>1, <2>1 DEF Call
  <2>4. Rank(calls[t].stage) < 7 /\ Rank("dead") = 7
    BY <1>1, <2>1, <2>3, RankNat DEF Call, Rank
  <2> QED
    BY <2>2, <2>4 DEF Advances
<1>6. CASE \/ \E call \in toMaster : MasterFiles(call) \/ MasterWrites(call)
           \/ \E n \in Nodes : Restart(n)
  BY <1>2, <1>6 DEF MasterFiles, MasterWrites, Restart
<1> QED
  BY <1>3, <1>4, <1>5, <1>6 DEF Next

\* A handler never goes back, whatever fails, and every health check is of a
\* node it has not asked: the measure by which every call must end.
THEOREM HandlersAdvanceAlways == Spec => HandlersAdvance
<1>1. JourneyInv /\ [Next]_vars => [\A s \in Slaves : Advances(s)]_vars
  BY NextAdvances
<1> QED
  BY <1>1, JourneyCorrect, PTL DEF Spec, HandlersAdvance, Advances

-----------------------------------------------------------------------------
(***************************************************************************)
(* Each of the two calls of a slave reaches the master at most once: before *)
(* a handler makes one, the master does not know it.                       *)
(***************************************************************************)
Known(call) == call \in toMaster \/ \E reply \in replies : reply.call = call

MadeBy(s, operation) == [from |-> s, operation |-> operation]

CallsOnce ==
    /\ \A reply \in replies : reply.call \notin toMaster
    /\ \A s \in Slaves :
          /\ Rank(calls[s].stage) < 2 => ~ Known(MadeBy(s, "approve"))
          /\ Rank(calls[s].stage) < 4 => ~ Known(MadeBy(s, "forward"))

\* What a step does to the calls the master knows: it handles one, one more
\* reaches it, some are lost, or nothing.
LEMMA MasterSteps ==
  ASSUME Next
  PROVE  \/ /\ toMaster' \subseteq toMaster
            /\ replies' = replies
         \/ /\ \E s \in Slaves : \/ Reach(s, "approve", "received", "approving")
                                 \/ Reach(s, "forward", "unapproved", "forwarding")
         \/ /\ \E call \in toMaster, answer \in Answers : MasterReplies(call, answer)
  BY DEF Next, Submit, Handle, RejectBody, AskApproval, ForwardToMaster, Miss,
         MasterAnswers, GiveUpOnMaster, GiveUp, Probe, TakeOver, Delegate, DelegateFails,
         DelegateAnswers, MasterFiles, MasterWrites, Crash, Restart, Answers

LEMMA NextKeepsCallsOnce ==
  ASSUME JourneyInv, CallsOnce, Next
  PROVE  CallsOnce'
<1>1. calls \in [Slaves -> Call] /\ \A t \in Slaves : calls[t] \in Call
  BY DEF JourneyInv, TypeInv, FailoverTypeOK
<1>2. \A t \in Slaves : Rank(calls[t].stage) <= Rank(calls'[t].stage)
  BY RankNat, NextAdvances DEF Advances
<1>3. ASSUME \A call : Known(call)' => Known(call),
             \A reply \in replies' : reply.call \notin toMaster'
      PROVE  CallsOnce'
  <2> SUFFICES ASSUME NEW t \in Slaves
               PROVE  /\ Rank(calls'[t].stage) < 2 => ~ Known(MadeBy(t, "approve"))'
                      /\ Rank(calls'[t].stage) < 4 => ~ Known(MadeBy(t, "forward"))'
    BY <1>3 DEF CallsOnce, MadeBy
  <2>1. /\ Rank(calls'[t].stage) < 2 => Rank(calls[t].stage) < 2
        /\ Rank(calls'[t].stage) < 4 => Rank(calls[t].stage) < 4
    BY <1>2, RankNat
  <2> QED
    BY <1>3, <2>1 DEF CallsOnce
<1>4. CASE toMaster' \subseteq toMaster /\ replies' = replies
  BY <1>3, <1>4 DEF CallsOnce, Known
<1>5. ASSUME NEW call \in toMaster, NEW answer \in Answers, MasterReplies(call, answer)
      PROVE  CallsOnce'
  <2>1. /\ toMaster' = toMaster \ {call}
        /\ \A reply \in replies' : reply \in replies \/ reply.call = call
    BY <1>5 DEF MasterReplies
  <2> QED
    BY <1>3, <1>5, <2>1 DEF CallsOnce, Known
<1>6. ASSUME NEW s \in Slaves, NEW operation \in {"approve", "forward"}, NEW from, NEW waiting,
             Reach(s, operation, from, waiting),
             \/ operation = "approve" /\ from = "received" /\ waiting = "approving"
             \/ operation = "forward" /\ from = "unapproved" /\ waiting = "forwarding"
      PROVE  CallsOnce'
  <2>1. /\ calls[s].stage = from /\ calls'[s].stage = waiting
        /\ toMaster' = toMaster \cup {MadeBy(s, operation)} /\ replies' = replies
    BY <1>1, <1>6 DEF Reach, Goes, MadeBy, Call
  <2>2. ~ Known(MadeBy(s, operation))
    BY <1>6, <2>1 DEF CallsOnce, Rank
  <2>3. \A reply \in replies' : reply.call \notin toMaster'
    BY <2>1, <2>2 DEF CallsOnce, Known
  <2>4. \A call : Known(call)' => Known(call) \/ call = MadeBy(s, operation)
    BY <2>1 DEF Known
  <2>5. ASSUME NEW t \in Slaves
        PROVE  /\ Rank(calls'[t].stage) < 2 => ~ Known(MadeBy(t, "approve"))'
               /\ Rank(calls'[t].stage) < 4 => ~ Known(MadeBy(t, "forward"))'
    <3>1. /\ Rank(calls'[t].stage) < 2 => ~ Known(MadeBy(t, "approve"))
          /\ Rank(calls'[t].stage) < 4 => ~ Known(MadeBy(t, "forward"))
      BY <1>2, RankNat DEF CallsOnce
    <3>2. MadeBy(t, "approve") = MadeBy(s, operation) => t = s /\ operation = "approve"
      BY DEF MadeBy
    <3>3. MadeBy(t, "forward") = MadeBy(s, operation) => t = s /\ operation = "forward"
      BY DEF MadeBy
    <3> QED
      BY <1>6, <2>1, <2>4, <3>1, <3>2, <3>3 DEF Rank
  <2> QED
    BY <2>3, <2>5 DEF CallsOnce, MadeBy
<1> QED
  BY <1>4, <1>5, <1>6, MasterSteps

\* The invariant behind the refinement: journey, answers and calls.
PromiseInv == JourneyInv /\ AnswersInv /\ CallsOnce

THEOREM PromiseCorrect == Spec => []PromiseInv
<1>1. Init => CallsOnce
  BY DEF Init, CallsOnce, Known
<1>2. JourneyInv /\ CallsOnce /\ [Next]_vars => CallsOnce'
  <2>1. CASE UNCHANGED vars
    BY <2>1 DEF vars, CallsOnce, Known
  <2> QED
    BY <2>1, NextKeepsCallsOnce
<1> QED
  BY <1>1, <1>2, JourneyCorrect, AnswersCorrect, PTL DEF Spec, PromiseInv

-----------------------------------------------------------------------------
(***************************************************************************)
(* The handlers implement ForwardedWrite.                                  *)
(***************************************************************************)
\* What the mapping does not see: the progress of the handlers.
LEMMA NothingPromised ==
  ASSUME \A t \in Slaves : calls'[t].answer = calls[t].answer,
         UNCHANGED <<replies, filed, executed>>
  PROVE  UNCHANGED Write!vars
  BY DEF Write!vars

\* A slave answers once, and what it says is true at this moment.
LEMMA AnswerIsKept ==
  ASSUME FailoverTypeOK, NEW s \in Slaves, NEW answer \in Answers, TrueAnswer(answer),
         AnswerWith(s, answer), calls[s].stage # "answered",
         UNCHANGED <<replies, filed, executed>>
  PROVE  Write!Next
<1>1. calls \in [Slaves -> Call] /\ \A t \in Slaves : calls[t] \in Call
  BY DEF FailoverTypeOK
<1>2. calls[s].answer = "none"
  BY DEF FailoverTypeOK
<1>3. \A t \in Slaves : calls'[t].answer = IF t = s THEN answer ELSE calls[t].answer
  BY <1>1 DEF AnswerWith, Call
<1>4. Write!Becomes(s, answer)
  BY <1>2, <1>3 DEF Write!Becomes
<1>5. answer = "done" => executed[Master] > 0 \/ \E t \in Slaves : executed[t] > 0
  BY DEF TrueAnswer, Done, Slaves
<1>6. answer = "pending" => filed > 0
  BY DEF TrueAnswer
<1>7. Write!Answer(s, answer)
  BY <1>4, <1>5, <1>6 DEF Write!Answer
<1> QED
  BY <1>7 DEF Write!Next

\* The elected slave performs the write: nobody has done so in its place.
LEMMA TakeOverIsKept ==
  ASSUME JourneyInv, NEW s \in Slaves, Decided(s), Executes(s), AnswerWith(s, "done"),
         UNCHANGED <<replies, filed>>
  PROVE  Write!Next
<1>1. /\ calls \in [Slaves -> Call] /\ \A t \in Slaves : calls[t] \in Call
      /\ executed \in [Nodes -> Nat] /\ s # Master /\ s \in Nodes
      /\ calls[s].stage = "electing" /\ calls[s].answer = "none"
  BY FailoverAssumption DEF JourneyInv, TypeInv, FailoverTypeOK, Slaves, Decided
<1>2. \A t \in Slaves : executed[t] = 0
  BY <1>1 DEF JourneyInv, NotYet, Deciding
<1>3. /\ \A t \in Slaves : executed'[t] = IF t = s THEN 1 ELSE 0
      /\ executed'[Master] = executed[Master]
  BY <1>1, <1>2, FailoverAssumption DEF Executes, Slaves
<1>4. \A t \in Slaves : calls'[t].answer = IF t = s THEN "done" ELSE calls[t].answer
  BY <1>1 DEF AnswerWith, Call
<1>5. Write!Becomes(s, "done")
  BY <1>1, <1>4 DEF Write!Becomes
<1>6. Write!TakeOver(s)
  BY <1>2, <1>3, <1>5 DEF Write!TakeOver
<1> QED
  BY <1>6 DEF Write!Next

\* The master handles a call that it has not handled before.
LEMMA HandledOnce ==
  ASSUME CallsOnce, NEW call \in toMaster, NEW answer, MasterReplies(call, answer)
  PROVE  /\ call \notin {reply.call : reply \in replies}
         /\ {reply.call : reply \in replies'} = {reply.call : reply \in replies} \cup {call}
<1> DEFINE new == [call |-> call, answer |-> answer]
<1>1. call \notin {reply.call : reply \in replies}
  BY DEF CallsOnce
<1>2. new.call = call
  OBVIOUS
<1> HIDE DEF new
<1>3. replies' = replies \cup {new}
  BY DEF MasterReplies, new
<1>4. {reply.call : reply \in replies'} = {reply.call : reply \in replies} \cup {call}
  BY <1>2, <1>3
<1> QED
  BY <1>1, <1>4

\* Every step keeps the promise, or is not about it.
LEMMA NextKeepsPromise ==
  ASSUME PromiseInv, Next
  PROVE  Write!Next \/ UNCHANGED Write!vars
<1>1. /\ FailoverTypeOK /\ Waiting /\ JourneyInv /\ AnswersInv /\ CallsOnce
      /\ calls \in [Slaves -> Call] /\ \A t \in Slaves : calls[t] \in Call
      /\ executed \in [Nodes -> Nat]
  BY DEF PromiseInv, JourneyInv, TypeInv, FailoverTypeOK
<1>2. \A answer \in {"rejected", "refused", "unavailable", "error"} :
          answer \in Answers /\ TrueAnswer(answer)
  BY DEF Answers, TrueAnswer
<1>3. ASSUME NEW s \in Slaves, NEW from, NEW to, Goes(s, from, to)
      PROVE  \A t \in Slaves : calls'[t].answer = calls[t].answer
  BY <1>1, <1>3 DEF Goes, Call
<1>4. CASE \E s \in Slaves : Submit(s)
  BY <1>3, <1>4, NothingPromised DEF Submit
<1>5. ASSUME NEW s \in Slaves, Handle(s)
      PROVE  Write!Next \/ UNCHANGED Write!vars
  <2>1. CASE RejectBody(s) \/ DelegateFails(s)
    <3>1. /\ \E answer \in {"rejected", "unavailable", "error"} : AnswerWith(s, answer)
          /\ calls[s].stage # "answered"
          /\ UNCHANGED <<replies, filed, executed>>
      BY <2>1 DEF RejectBody, DelegateFails, Decided
    <3> QED
      BY <1>1, <1>2, <3>1, AnswerIsKept
  <2>2. CASE AskApproval(s) \/ ForwardToMaster(s)
    <3>1. UNCHANGED <<replies, filed, executed>>
      BY <2>2 DEF AskApproval, ForwardToMaster, Reach, Miss
    <3>2. \A t \in Slaves : calls'[t].answer = calls[t].answer
      BY <1>3, <2>2 DEF AskApproval, ForwardToMaster, Reach, Miss, Fails
    <3> QED
      BY <3>1, <3>2, NothingPromised
  <2>3. CASE MasterAnswers(s)
    <3>1. PICK reply \in replies : AnswerWith(s, reply.answer)
      BY <2>3 DEF MasterAnswers
    <3>2. reply.answer \in Answers /\ TrueAnswer(reply.answer)
      BY <1>1 DEF FailoverTypeOK, Reply, AnswersInv
    <3>3. calls[s].stage # "answered" /\ UNCHANGED <<replies, filed, executed>>
      BY <2>3 DEF MasterAnswers
    <3> QED
      BY <1>1, <3>1, <3>2, <3>3, AnswerIsKept
  <2>4. CASE GiveUpOnMaster(s)
    <3>1. UNCHANGED <<replies, filed, executed>>
      BY <2>4 DEF GiveUpOnMaster, GiveUp
    <3>2. \/ AnswerWith(s, "error") /\ calls[s].stage # "answered"
          \/ \A t \in Slaves : calls'[t].answer = calls[t].answer
      BY <1>3, <2>4 DEF GiveUpOnMaster, GiveUp, Fails
    <3> QED
      BY <1>1, <1>2, <3>1, <3>2, AnswerIsKept, NothingPromised
  <2>5. CASE \E n \in Slaves, online \in BOOLEAN : Probe(s, n, online)
    <3>1. \A t \in Slaves : calls'[t].answer = calls[t].answer
      BY <1>1, <2>5 DEF Probe, Call
    <3> QED
      BY <2>5, <3>1, NothingPromised DEF Probe
  <2>6. CASE TakeOver(s)
    <3>1. CASE executed' = executed /\ AnswerWith(s, "refused")
      BY <1>1, <1>2, <2>6, <3>1, AnswerIsKept DEF TakeOver, Decided
    <3>2. CASE Executes(s) /\ AnswerWith(s, "done")
      BY <1>1, <2>6, <3>2, TakeOverIsKept DEF TakeOver
    <3> QED
      BY <2>6, <3>1, <3>2 DEF TakeOver
  <2>7. CASE Delegate(s)
    <3> DEFINE e == Elected(s)
    <3>1. e \in Slaves \ {s} /\ calls[e].stage = "idle"
      BY <1>1, <2>7, ElectedIsIdle DEF Delegate, FailoverTypeOK
    <3> HIDE DEF e
    <3>2. calls' = [calls EXCEPT ![s].stage = "delegated",
                                 ![e] = [NoCall EXCEPT !.stage = "received"]]
      BY <2>7 DEF Delegate, e
    <3>3. calls[e].answer = "none"
      BY <1>1, <3>1 DEF FailoverTypeOK
    <3>4. \A t \in Slaves : calls'[t].answer = calls[t].answer
      BY <1>1, <3>1, <3>2, <3>3 DEF Call, NoCall
    <3> QED
      BY <2>7, <3>4, NothingPromised DEF Delegate
  <2>8. CASE DelegateAnswers(s)
    <3>1. Elected(s) \in Slaves /\ calls[Elected(s)].stage = "answered"
      BY <1>1, <2>8 DEF DelegateAnswers, Waiting
    <3>2. PICK answer \in Answers : answer = calls[Elected(s)].answer
      BY <1>1, <3>1 DEF FailoverTypeOK, Call
    <3>3. TrueAnswer(answer)
      BY <1>1, <3>1, <3>2 DEF AnswersInv
    <3>4. AnswerWith(s, answer) /\ calls[s].stage # "answered"
      BY <2>8, <3>2 DEF DelegateAnswers, AnswerWith
    <3> QED
      BY <1>1, <2>8, <3>3, <3>4, AnswerIsKept DEF DelegateAnswers
  <2> QED
    BY <1>5, <2>1, <2>2, <2>3, <2>4, <2>5, <2>6, <2>7, <2>8 DEF Handle
<1>6. ASSUME NEW call \in toMaster, MasterFiles(call)
      PROVE  Write!Next
  <2>1. call.from \in Slaves /\ call = [from |-> call.from, operation |-> "approve"]
    BY <1>1, <1>6 DEF FailoverTypeOK, MasterCall, MasterFiles
  <2>2. \E answer : MasterReplies(call, answer)
    BY <1>6 DEF MasterFiles
  <2>3. Write!Handles(call)
    BY <1>1, <2>2, HandledOnce DEF Write!Handles
  <2>4. filed' \in {filed, filed + 1} /\ UNCHANGED <<calls, executed>>
    BY <1>6 DEF MasterFiles
  <2>5. Write!MasterFiles(call.from)
    BY <2>1, <2>3, <2>4 DEF Write!MasterFiles
  <2> QED
    BY <2>1, <2>5 DEF Write!Next
<1>7. ASSUME NEW call \in toMaster, MasterWrites(call)
      PROVE  Write!Next
  <2>1. call.from \in Slaves /\ call = [from |-> call.from, operation |-> "forward"]
    BY <1>1, <1>7 DEF FailoverTypeOK, MasterCall, MasterWrites
  <2>2. \E answer : MasterReplies(call, answer)
    BY <1>7 DEF MasterWrites
  <2>3. Write!Handles(call)
    BY <1>1, <2>2, HandledOnce DEF Write!Handles
  <2>4. /\ executed'[Master] \in {executed[Master], executed[Master] + 1}
        /\ \A t \in Slaves : executed'[t] = executed[t]
        /\ UNCHANGED <<filed, calls>>
    BY <1>1, <1>7, FailoverAssumption DEF MasterWrites, Executes, Slaves
  <2>5. Write!MasterWrites(call.from)
    BY <2>1, <2>3, <2>4 DEF Write!MasterWrites
  <2> QED
    BY <2>1, <2>5 DEF Write!Next
<1>8. ASSUME NEW n \in Nodes, Crash(n) \/ Restart(n)
      PROVE  UNCHANGED Write!vars
  <2>1. \A t \in Slaves : calls'[t].answer = calls[t].answer
    BY <1>1, <1>8 DEF Crash, Restart, Call
  <2> QED
    BY <1>8, <2>1, NothingPromised DEF Crash, Restart
<1> QED
  BY <1>4, <1>5, <1>6, <1>7, <1>8 DEF Next

\* The journey of a write, with its timeouts, elections and crashes, implements
\* the promise of ForwardedWrite, for any number of slaves.
THEOREM KeepsForwardedWriteAlways == Spec => KeepsForwardedWrite
<1>1. Init => Write!Init
  BY FailoverAssumption DEF Init, NoCall, Slaves, Write!Init
<1>2. PromiseInv /\ [Next]_vars => [Write!Next]_(Write!vars)
  <2>1. CASE UNCHANGED vars
    BY <2>1 DEF vars, Write!vars
  <2> QED
    BY <2>1, NextKeepsPromise
<1> QED
  BY <1>1, <1>2, PromiseCorrect, PTL DEF Spec, Write!Spec, KeepsForwardedWrite
=============================================================================
