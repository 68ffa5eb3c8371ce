---------------------------- MODULE ElectionViews ----------------------------
(***************************************************************************)
(* Two electors of one cluster: any two of the slaves (ForwardWrite,       *)
(* forward_write), or a slave and the dashboard.  Each keeps no state: it  *)
(* asks the nodes when it elects (CheckHealth of election.go and           *)
(* _check_node_health of app.py GET /health, node_is_online of             *)
(* streamlit_app.py GETs /clients), so each has a view of its own of who   *)
(* is online.  Views change node by node.                                  *)
(***************************************************************************)
EXTENDS Election, FiniteSets

CONSTANTS MainMaster,  \* the node of mainMasterURL
          Placements   \* the URLs the configuration may give the nodes

\* Nodes may share a machine, and by mistake even a URL.
ASSUME PlacementsAssumption ==
    /\ MainMaster \in Nodes
    /\ \A url \in Placements : \A n \in Nodes : url[n].host \in Hosts

ASSUME NodesAssumption == IsFiniteSet(Nodes)

VARIABLES placement,  \* the URLs, the same on every node
          here,       \* the nodes that one elector finds online
          there       \* and those the other one does

inputs == <<placement, here, there>>

Init ==
    /\ placement \in Placements
    /\ here = Nodes \ {MainMaster}
    /\ there = Nodes \ {MainMaster}

Flip(view, n) == IF n \in view THEN view \ {n} ELSE view \cup {n}

Next ==
    \E n \in Nodes :
        \/ here' = Flip(here, n) /\ UNCHANGED <<placement, there>>
        \/ there' = Flip(there, n) /\ UNCHANGED <<placement, here>>

Spec == Init /\ [][Next]_inputs

Elected(view) == ElectMaster(placement, placement[MainMaster], view)

ViewsTypeOK ==
    /\ placement \in Placements
    /\ here \subseteq Nodes
    /\ there \subseteq Nodes

-----------------------------------------------------------------------------
(***************************************************************************)
(* The reference: both implementations sort the nodes they find online,    *)
(* without the failed master, by the pair (distance, order), and take the  *)
(* first.  The distance is the one of app.py, a number of any size.  A     *)
(* sorted list holds every one of them once, no later one with a smaller   *)
(* pair than an earlier one.                                               *)
(***************************************************************************)
Others(view) == {n \in Nodes \cap view : placement[n] # placement[MainMaster]}

SortKey(n) ==
    <<AbsDistance(Address(placement[n]), Address(placement[MainMaster])), Order[n]>>

KeyLess(k, l) == k[1] < l[1] \/ (k[1] = l[1] /\ k[2] < l[2])

SortedLists(view) ==
    {list \in [1 .. Cardinality(Others(view)) -> Others(view)] :
        /\ \A n \in Others(view) : \E i \in DOMAIN list : list[i] = n
        /\ \A i, j \in DOMAIN list :
              i < j => ~ KeyLess(SortKey(list[j]), SortKey(list[i]))}

\* The candidates can be sorted, and however they are, the head of the list is
\* the elected node (election.go, the sort at the end of ElectMaster; app.py,
\* candidates.sort): the 32 bits of election.go do not make another choice.
ElectsSortedFirst ==
    {IF 1 \in DOMAIN list THEN list[1] ELSE Nobody : list \in SortedLists(here)}
        = {Elected(here)}

\* Two electors choose different masters only if one of them does not see the
\* other's choice online: ties are broken alike on every node, whatever the
\* addresses are.
SameUnlessUnseen ==
    \/ Elected(here) = Elected(there)
    \/ Elected(here) \notin there
    \/ Elected(there) \notin here

\* With the main master offline to it, the dashboard shows the node a slave
\* elects, though it computes it by another program from a view of its own,
\* unless one of the two does not see the other's choice online, or the node
\* shown was given the main master's URL: slaves leave out every node at this
\* URL, the dashboard only the one with the main master's name.
DashboardAgrees ==
    LET elected == Elected(here)
        shown == GetActiveMaster(placement, MainMaster, there)
    IN  MainMaster \notin there =>
            \/ shown = elected
            \/ shown \in Nodes \ here
            \/ elected \in Nodes \ there
            \/ shown \in Nodes /\ placement[shown] = placement[MainMaster]
=============================================================================
