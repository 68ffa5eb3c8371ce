--------------------------- MODULE ForwardedWrite ----------------------------
(***************************************************************************)
(* What the cluster promises for one write that a user gives to a slave,   *)
(* with no timeouts, health checks, elections or crashes: the master files *)
(* or performs it at most once for each call of each slave, one slave at   *)
(* most performs it in the master's place, once and before it answers, and *)
(* every slave answers once and truthfully.                                *)
(***************************************************************************)
EXTENDS Naturals

CONSTANTS Slaves, Answers

VARIABLES handled,    \* the slaves' calls the master has handled
          filed,      \* how often the master filed the write as pending
          performed,  \* how often it performed it
          temporary,  \* and how often each slave performed it
          answers     \* what each slave has answered, "none" at first

vars == <<handled, filed, performed, temporary, answers>>

Init ==
    /\ handled = {}
    /\ filed = 0
    /\ performed = 0
    /\ temporary = [s \in Slaves |-> 0]
    /\ answers = [s \in Slaves |-> "none"]

Handles(call) == call \notin handled /\ handled' = handled \cup {call}

MasterFiles(s) ==
    /\ Handles([from |-> s, operation |-> "approve"])
    /\ filed' \in {filed, filed + 1}
    /\ UNCHANGED <<performed, temporary, answers>>

MasterWrites(s) ==
    /\ Handles([from |-> s, operation |-> "forward"])
    /\ performed' \in {performed, performed + 1}
    /\ UNCHANGED <<filed, temporary, answers>>

Becomes(s, answer) ==
    /\ answers[s] = "none"
    /\ answers' = [answers EXCEPT ![s] = answer]

TakeOver(s) ==
    /\ \A t \in Slaves : temporary[t] = 0
    /\ temporary' = [temporary EXCEPT ![s] = 1]
    /\ Becomes(s, "done")
    /\ UNCHANGED <<handled, filed, performed>>

Answer(s, answer) ==
    /\ answer = "done" => performed > 0 \/ \E t \in Slaves : temporary[t] > 0
    /\ answer = "pending" => filed > 0
    /\ Becomes(s, answer)
    /\ UNCHANGED <<handled, filed, performed, temporary>>

Next ==
    \E s \in Slaves : \/ MasterFiles(s) \/ MasterWrites(s) \/ TakeOver(s)
                      \/ \E answer \in Answers : Answer(s, answer)

Spec == Init /\ [][Next]_vars
=============================================================================
