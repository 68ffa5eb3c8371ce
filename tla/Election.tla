------------------------------ MODULE Election -------------------------------
(***************************************************************************)
(* The election of a temporary master, as pure operators:                  *)
(*   internal/failover/election.go                (Slave1 and Slave3)      *)
(*   app.py: _elect_master and what it calls      (Slave2 and Slave4)      *)
(*   streamlit_app.py: get_active_master          (the dashboard)          *)
(*                                                                         *)
(* A URL is a record of its host and the rest of it.  A host is a tuple of *)
(* four octets, or localhost, or another name, which no node resolves: it  *)
(* counts as address 0, like everything that is not an IPv4 address.       *)
(***************************************************************************)
EXTENDS Integers

CONSTANTS Nodes,      \* the names in allNodes and ALL_NODES
          Order,      \* nodeNameOrder: Master 0, Slave1 1, and so on
          Localhost,  \* the host "localhost", or none at all
          OtherName,  \* any other host that is not an IPv4 address
          Octets,     \* BOUND: one more than the largest octet, 256 in the code
          Nobody      \* nil, None: no node is elected

ASSUME OrderAssumption ==
    /\ Order \in [Nodes -> Nat]
    /\ \A m, n \in Nodes : Order[m] = Order[n] => m = n

ASSUME NobodyAssumption == Nobody \notin Nodes

\* The loopback address is one of the addresses.
ASSUME OctetsAssumption == Octets \in Nat /\ Octets > 127

IPv4 == [1 .. 4 -> 0 .. (Octets - 1)]

Loopback == <<127, 0, 0, 1>>

Hosts == IPv4 \cup {Localhost, OtherName}

ExtractIP(host) == IF host = Localhost THEN Loopback ELSE host

IPToNumeric(ip) ==
    IF ip = OtherName
    THEN 0
    ELSE ((ip[1] * Octets + ip[2]) * Octets + ip[3]) * Octets + ip[4]

Address(url) == IPToNumeric(ExtractIP(url.host))

\* The subtraction of two uint32, 2^32 being Octets^4, which wraps around.
Minus(a, b) == (a - b) % (Octets * Octets * Octets * Octets)

\* Mutant: one subtraction, whichever address is larger.
DistanceWraps(a, b) == Minus(a, b)

\* The distance of election.go, of type uint32.
Distance(a, b) == IF a >= b THEN Minus(a, b) ELSE Minus(b, a)

\* The distance of app.py and the dashboard, abs of an int of any size.
AbsDistance(a, b) == IF a >= b THEN a - b ELSE b - a

-----------------------------------------------------------------------------
(***************************************************************************)
(* Ranking.  `url` gives every node its URL, `failed` is the failed        *)
(* master's.  Nodes are compared by distance, then by name.                *)
(***************************************************************************)
DistanceTo(url, failed, n) == Distance(Address(url[n]), Address(failed))

Closer(url, failed, m, n) ==
    LET dm == DistanceTo(url, failed, m)
        dn == DistanceTo(url, failed, n)
    IN  dm < dn \/ (dm = dn /\ Order[m] < Order[n])

\* Every node found online whose URL is not the failed one.
Candidates(url, failed, online) == {n \in Nodes \cap online : url[n] # failed}

\* Mutant: no tie-break, and an unstable sort whose result among equals
\* depends on how many there are.
FirstUnstable(url, failed, candidates) ==
    LET nearest == {n \in candidates : \A m \in candidates :
                      DistanceTo(url, failed, n) <= DistanceTo(url, failed, m)}
    IN  CHOOSE n \in nearest : \A m \in nearest :
            IF nearest = candidates THEN Order[n] <= Order[m] ELSE Order[n] >= Order[m]

First(url, failed, candidates) ==
    CHOOSE n \in candidates : \A m \in candidates : ~ Closer(url, failed, m, n)

ElectMaster(url, failed, online) ==
    IF Candidates(url, failed, online) = {}
    THEN Nobody
    ELSE First(url, failed, Candidates(url, failed, online))

-----------------------------------------------------------------------------
(***************************************************************************)
(* The dashboard has an election of its own, which it shows as the active  *)
(* master.  It asks the main master first, leaves it out by its name, not  *)
(* by its URL, and sorts triples of distance, order and name by the first  *)
(* two.                                                                    *)
(***************************************************************************)
NodeTuple(url, mainMaster, n) ==
    <<AbsDistance(Address(url[n]), Address(url[mainMaster])), Order[n], n>>

ActiveCandidates(url, mainMaster, online) ==
    {NodeTuple(url, mainMaster, n) : n \in (Nodes \ {mainMaster}) \cap online}

\* Mutant: the sort compares the names' order alone.
SortsBeforeByName(x, y) == x[2] < y[2]

SortsBefore(x, y) == x[1] < y[1] \/ (x[1] = y[1] /\ x[2] < y[2])

GetActiveMaster(url, mainMaster, online) ==
    LET candidates == ActiveCandidates(url, mainMaster, online)
        first == CHOOSE x \in candidates : \A y \in candidates : ~ SortsBefore(y, x)
    IN  IF mainMaster \in online
        THEN mainMaster
        ELSE IF candidates = {} THEN Nobody ELSE first[3]
=============================================================================
