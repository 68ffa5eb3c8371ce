--------------------------- MODULE ElectionProofs ----------------------------
(***************************************************************************)
(* Proofs about the election, for every set of nodes, all addresses and    *)
(* any size of an octet: there is a closest candidate, it is the only one, *)
(* and so two electors differ only where their views do.                   *)
(***************************************************************************)
EXTENDS Election, TLAPS, WellFoundedInduction

\* Every URL in use has a host ExtractIP and IPToNumeric know.
Placed(url, failed) ==
    /\ failed.host \in Hosts
    /\ \A n \in Nodes : url[n].host \in Hosts

-----------------------------------------------------------------------------
(***************************************************************************)
(* Numbers                                                                 *)
(***************************************************************************)
\* A set of naturals has a least member.
LEMMA LeastNatural ==
  ASSUME NEW T, T \subseteq Nat, T # {}
  PROVE  \E x \in T : \A y \in T : x <= y
<1> DEFINE R == {ss \in Nat \X Nat : ss[1] < ss[2]}
<1>1. IsWellFoundedOn(R, Nat)
  BY NatLessThanWellFounded DEF OpToRel
<1> HIDE DEF R
<1>2. PICK x \in T : \A y \in T : ~ (<<y, x>> \in R)
  BY <1>1, WFMin
<1>3. ASSUME NEW y \in T  PROVE x <= y
  <2>1. ~ (<<y, x>> \in R)
    BY <1>2
  <2>2. ASSUME y < x  PROVE <<y, x>> \in R
    BY <2>2 DEF R
  <2> QED
    BY <2>1, <2>2
<1> QED
  BY <1>3

\* A number below a bound and one more octet are below the bound times Octets.
LEMMA NextOctet ==
  ASSUME NEW bound \in Nat, NEW a \in Nat, a < bound, NEW d \in 0 .. (Octets - 1)
  PROVE  a * Octets + d \in Nat /\ a * Octets + d < bound * Octets
<1>1. Octets \in Nat
  BY OctetsAssumption
<1>2. (a + 1) * Octets <= bound * Octets
  <2>1. a + 1 <= bound
    OBVIOUS
  <2> QED
    BY <1>1, <2>1
<1>3. (a + 1) * Octets = a * Octets + Octets
  BY <1>1
<1>4. a * Octets \in Nat /\ bound * Octets \in Nat
  BY <1>1
<1> QED
  BY <1>1, <1>2, <1>3, <1>4

Words == Octets * Octets * Octets * Octets

\* The number of an address fits into its word (IPToNumeric).
LEMMA NumericFits ==
  ASSUME NEW ip \in IPv4 \cup {Loopback, OtherName}
  PROVE  IPToNumeric(ip) \in Nat /\ IPToNumeric(ip) < Words
<1>1. /\ Octets \in Nat /\ Octets > 0
      /\ Octets * Octets \in Nat /\ Octets * Octets > 0
      /\ Octets * Octets * Octets \in Nat /\ Octets * Octets * Octets > 0
      /\ Words > 0
  <2>1. Octets \in Nat /\ Octets > 0
    BY OctetsAssumption
  <2>2. ASSUME NEW a \in Nat, a > 0  PROVE a * Octets \in Nat /\ a * Octets > 0
    BY <2>1, <2>2
  <2> QED
    BY <2>1, <2>2 DEF Words
<1>2. CASE ip = OtherName
  BY <1>1, <1>2 DEF IPToNumeric
<1>3. CASE ip # OtherName
  <2>1. /\ ip[1] \in 0 .. (Octets - 1) /\ ip[2] \in 0 .. (Octets - 1)
        /\ ip[3] \in 0 .. (Octets - 1) /\ ip[4] \in 0 .. (Octets - 1)
    BY <1>3, OctetsAssumption DEF IPv4, Loopback
  <2>2. /\ ip[1] * Octets + ip[2] \in Nat
        /\ ip[1] * Octets + ip[2] < Octets * Octets
    BY <1>1, <2>1, NextOctet
  <2>3. /\ (ip[1] * Octets + ip[2]) * Octets + ip[3] \in Nat
        /\ (ip[1] * Octets + ip[2]) * Octets + ip[3] < Octets * Octets * Octets
    BY <1>1, <2>1, <2>2, NextOctet
  <2>4. /\ ((ip[1] * Octets + ip[2]) * Octets + ip[3]) * Octets + ip[4] \in Nat
        /\ ((ip[1] * Octets + ip[2]) * Octets + ip[3]) * Octets + ip[4] < Words
    BY <1>1, <2>1, <2>3, NextOctet DEF Words
  <2> QED
    BY <1>3, <2>4 DEF IPToNumeric
<1> QED
  BY <1>2, <1>3

\* A natural below the modulus is its own remainder.
LEMMA SmallRemainder ==
  ASSUME NEW a \in Nat, NEW w \in Nat, a < w
  PROVE  a % w = a
  BY SMT

\* The two subtractions of election.go do not wrap around: its distance is the
\* one that app.py computes with integers of any size.
LEMMA DistanceIsAbs ==
  ASSUME NEW a \in Nat, NEW b \in Nat, a < Words, b < Words
  PROVE  Distance(a, b) = AbsDistance(a, b) /\ AbsDistance(a, b) \in Nat
<1>1. Words \in Nat
  BY OctetsAssumption DEF Words
<1>2. CASE a >= b
  <2>1. a - b \in Nat /\ a - b < Words
    BY <1>1, <1>2
  <2> QED
    BY <1>1, <1>2, <2>1, SmallRemainder DEF Distance, Minus, AbsDistance, Words
<1>3. CASE ~ a >= b
  <2>1. b - a \in Nat /\ b - a < Words
    BY <1>1, <1>3
  <2> QED
    BY <1>1, <1>3, <2>1, SmallRemainder DEF Distance, Minus, AbsDistance, Words
<1> QED
  BY <1>2, <1>3

\* A slave's distance to the failed master is the true one, and a natural.
LEMMA DistanceNat ==
  ASSUME NEW url, NEW failed, Placed(url, failed), NEW n \in Nodes
  PROVE  /\ DistanceTo(url, failed, n) = AbsDistance(Address(url[n]), Address(failed))
         /\ DistanceTo(url, failed, n) \in Nat
<1>1. ExtractIP(url[n].host) \in IPv4 \cup {Loopback, OtherName}
  BY DEF Placed, ExtractIP, Hosts
<1>2. ExtractIP(failed.host) \in IPv4 \cup {Loopback, OtherName}
  BY DEF Placed, ExtractIP, Hosts
<1>3. /\ Address(url[n]) \in Nat /\ Address(url[n]) < Words
      /\ Address(failed) \in Nat /\ Address(failed) < Words
  BY <1>1, <1>2, NumericFits DEF Address
<1> QED
  BY <1>3, DistanceIsAbs DEF DistanceTo

-----------------------------------------------------------------------------
(***************************************************************************)
(* The ranking is a strict total order of the nodes.                       *)
(***************************************************************************)
\* Of two nodes one is closer, since no two have the same place in the order.
LEMMA CloserTotal ==
  ASSUME NEW url, NEW failed, Placed(url, failed),
         NEW m \in Nodes, NEW n \in Nodes, m # n
  PROVE  Closer(url, failed, m, n) \/ Closer(url, failed, n, m)
<1>1. DistanceTo(url, failed, m) \in Nat /\ DistanceTo(url, failed, n) \in Nat
  BY DistanceNat
<1>2. Order[m] \in Nat /\ Order[n] \in Nat /\ Order[m] # Order[n]
  BY OrderAssumption
<1> QED
  BY <1>1, <1>2 DEF Closer

\* Neither of two nodes is closer than the other and the other than it.
LEMMA CloserAsymmetric ==
  ASSUME NEW url, NEW failed, Placed(url, failed),
         NEW m \in Nodes, NEW n \in Nodes, Closer(url, failed, m, n)
  PROVE  ~ Closer(url, failed, n, m)
<1>1. DistanceTo(url, failed, m) \in Nat /\ DistanceTo(url, failed, n) \in Nat
  BY DistanceNat
<1>2. Order[m] \in Nat /\ Order[n] \in Nat
  BY OrderAssumption
<1> QED
  BY <1>1, <1>2 DEF Closer

\* The ranking is transitive.
LEMMA CloserTransitive ==
  ASSUME NEW url, NEW failed, Placed(url, failed),
         NEW l \in Nodes, NEW m \in Nodes, NEW n \in Nodes,
         Closer(url, failed, l, m), Closer(url, failed, m, n)
  PROVE  Closer(url, failed, l, n)
<1>1. /\ DistanceTo(url, failed, l) \in Nat
      /\ DistanceTo(url, failed, m) \in Nat
      /\ DistanceTo(url, failed, n) \in Nat
  BY DistanceNat
<1>2. Order[l] \in Nat /\ Order[m] \in Nat /\ Order[n] \in Nat
  BY OrderAssumption
<1> QED
  BY <1>1, <1>2 DEF Closer

-----------------------------------------------------------------------------
(***************************************************************************)
(* The elected node                                                        *)
(***************************************************************************)
\* Any candidates, finitely many or not, have a first one: the least distance,
\* and of those at this distance the least place in the order.
LEMMA FirstExists ==
  ASSUME NEW url, NEW failed, Placed(url, failed),
         NEW candidates, candidates \subseteq Nodes, candidates # {}
  PROVE  /\ First(url, failed, candidates) \in candidates
         /\ \A m \in candidates : ~ Closer(url, failed, m, First(url, failed, candidates))
<1> DEFINE distances == {DistanceTo(url, failed, n) : n \in candidates}
<1>1. distances \subseteq Nat /\ distances # {}
  BY DistanceNat
<1>2. PICK d \in distances : \A e \in distances : d <= e
  BY <1>1, LeastNatural
<1> DEFINE nearest == {n \in candidates : DistanceTo(url, failed, n) = d}
<1> DEFINE orders == {Order[n] : n \in nearest}
<1>3. orders \subseteq Nat /\ orders # {}
  BY <1>2, OrderAssumption
<1>4. PICK o \in orders : \A q \in orders : o <= q
  BY <1>3, LeastNatural
<1>5. PICK f \in candidates : DistanceTo(url, failed, f) = d /\ Order[f] = o
  BY <1>4
<1>6. ASSUME NEW m \in candidates  PROVE ~ Closer(url, failed, m, f)
  <2>1. DistanceTo(url, failed, m) \in Nat /\ d \in Nat /\ d <= DistanceTo(url, failed, m)
    BY <1>1, <1>2, <1>6
  <2>2. Order[m] \in Nat /\ o \in Nat
    BY <1>3, <1>4, <1>6, OrderAssumption
  <2>3. DistanceTo(url, failed, m) = d => o <= Order[m]
    BY <1>4, <1>6
  <2> QED
    BY <1>5, <2>1, <2>2, <2>3 DEF Closer
<1>7. \E n \in candidates : \A m \in candidates : ~ Closer(url, failed, m, n)
  BY <1>6
<1> QED
  BY <1>7 DEF First

\* The elected node is a candidate, and every other candidate is farther.
LEMMA ElectedIsClosest ==
  ASSUME NEW url, NEW failed, Placed(url, failed), NEW online,
         NEW n \in Candidates(url, failed, online)
  PROVE  LET e == ElectMaster(url, failed, online)
         IN  e \in Candidates(url, failed, online) /\ (e = n \/ Closer(url, failed, e, n))
<1> DEFINE e == ElectMaster(url, failed, online)
<1>1. e = First(url, failed, Candidates(url, failed, online))
  BY DEF ElectMaster
<1>2. Candidates(url, failed, online) \subseteq Nodes
  BY DEF Candidates
<1>3. e \in Candidates(url, failed, online) /\ ~ Closer(url, failed, n, e)
  BY <1>1, <1>2, FirstExists
<1> QED
  BY <1>2, <1>3, CloserTotal

\* Two electors that see each other's choice online choose the same node: the
\* slaves can disagree on the temporary master only through their health checks.
THEOREM ElectionAgrees ==
  ASSUME NEW url, NEW failed, Placed(url, failed), NEW here, NEW there,
         ElectMaster(url, failed, here) \in there \ {Nobody},
         ElectMaster(url, failed, there) \in here \ {Nobody}
  PROVE  ElectMaster(url, failed, here) = ElectMaster(url, failed, there)
<1> DEFINE a == ElectMaster(url, failed, here)
           b == ElectMaster(url, failed, there)
<1>1. Candidates(url, failed, here) # {} /\ Candidates(url, failed, there) # {}
  BY DEF ElectMaster
<1>2. a \in Candidates(url, failed, here) /\ b \in Candidates(url, failed, there)
  BY <1>1, ElectedIsClosest
<1>3. b \in Candidates(url, failed, here) /\ a \in Candidates(url, failed, there)
  BY <1>2 DEF Candidates
<1>4. (a = b \/ Closer(url, failed, a, b)) /\ (b = a \/ Closer(url, failed, b, a))
  BY <1>3, ElectedIsClosest
<1>5. a \in Nodes /\ b \in Nodes
  BY <1>2 DEF Candidates
<1> QED
  BY <1>4, <1>5, CloserAsymmetric

-----------------------------------------------------------------------------
(***************************************************************************)
(* The dashboard's election.  Its sort by tuples and the slaves' ranking   *)
(* are two programs, which compare two nodes alike; what they leave out    *)
(* differs.                                                                *)
(***************************************************************************)
\* Tuples are sorted as the slaves rank their nodes.
LEMMA SortsLikeCloser ==
  ASSUME NEW url, NEW mainMaster, Placed(url, url[mainMaster]), NEW m \in Nodes, NEW n \in Nodes
  PROVE  SortsBefore(NodeTuple(url, mainMaster, m), NodeTuple(url, mainMaster, n))
           <=> Closer(url, url[mainMaster], m, n)
BY DistanceNat DEF SortsBefore, NodeTuple, Closer

\* With the main master out of its view, the dashboard shows a node it finds
\* online, and every other such node is farther.
LEMMA ShownIsClosest ==
  ASSUME NEW url, NEW mainMaster \in Nodes, Placed(url, url[mainMaster]), NEW online,
         mainMaster \notin online, NEW n \in Nodes \cap online
  PROVE  LET shown == GetActiveMaster(url, mainMaster, online)
         IN  shown \in Nodes \cap online /\ (shown = n \/ Closer(url, url[mainMaster], shown, n))
<1> DEFINE failed == url[mainMaster]
           others == (Nodes \ {mainMaster}) \cap online
           tuple(m) == NodeTuple(url, mainMaster, m)
           candidates == ActiveCandidates(url, mainMaster, online)
           first == CHOOSE x \in candidates : \A y \in candidates : ~ SortsBefore(y, x)
           shown == GetActiveMaster(url, mainMaster, online)
<1>1. candidates = {tuple(m) : m \in others}
  BY DEF ActiveCandidates
<1>2. n \in others /\ others \subseteq Nodes
  OBVIOUS
<1>3. PICK f \in others : \A m \in others : ~ Closer(url, failed, m, f)
  BY <1>2, FirstExists
<1>4. tuple(f) \in candidates /\ \A y \in candidates : ~ SortsBefore(y, tuple(f))
  BY <1>1, <1>3, SortsLikeCloser
<1>5. first \in candidates /\ \A y \in candidates : ~ SortsBefore(y, first)
  BY <1>4
<1>6. PICK s \in others : first = tuple(s)
  BY <1>1, <1>5
<1>7. shown = s
  <2>1. shown = first[3]
    BY <1>4 DEF GetActiveMaster
  <2>2. tuple(s)[3] = s
    BY DEF NodeTuple
  <2> QED
    BY <1>6, <2>1, <2>2
<1>8. ~ Closer(url, failed, n, s)
  <2>1. tuple(n) \in candidates
    BY <1>1, <1>2
  <2>2. ~ SortsBefore(tuple(n), tuple(s))
    BY <1>5, <1>6, <2>1
  <2> QED
    BY <2>2, SortsLikeCloser
<1>9. s = n \/ Closer(url, failed, s, n)
  BY <1>2, <1>8, CloserTotal
<1> HIDE DEF shown
<1> QED
  BY <1>2, <1>7, <1>9 DEF shown

\* The dashboard shows the node a slave elects, unless one of them does not see
\* the other's choice, or the shown node has the main master's URL.
THEOREM DashboardElects ==
  ASSUME NEW url, NEW mainMaster \in Nodes, Placed(url, url[mainMaster]),
         NEW here, NEW there, mainMaster \notin there
  PROVE  LET elected == ElectMaster(url, url[mainMaster], here)
             shown == GetActiveMaster(url, mainMaster, there)
         IN  \/ shown = elected
             \/ shown \in Nodes \ here
             \/ elected \in Nodes \ there
             \/ shown \in Nodes /\ url[shown] = url[mainMaster]
<1> DEFINE failed == url[mainMaster]
           elected == ElectMaster(url, failed, here)
           shown == GetActiveMaster(url, mainMaster, there)
           Agree == \/ shown = elected
                    \/ shown \in Nodes \ here
                    \/ elected \in Nodes \ there
                    \/ shown \in Nodes /\ url[shown] = failed
<1> SUFFICES Agree
  OBVIOUS
<1>1. elected = Nobody \/ elected \in Candidates(url, failed, here)
  BY ElectedIsClosest DEF ElectMaster
<1>2. shown = Nobody \/ shown \in Nodes
  <2>1. CASE Nodes \cap there = {}
    BY <2>1 DEF GetActiveMaster, ActiveCandidates
  <2>2. CASE Nodes \cap there # {}
    BY <2>2, ShownIsClosest
  <2> QED
    BY <2>1, <2>2
<1> HIDE DEF elected, shown
<1>3. CASE shown \in Nodes /\ shown \in here /\ url[shown] # failed
  <2>1. shown \in Candidates(url, failed, here)
    BY <1>3 DEF Candidates
  <2>2. /\ elected \in Candidates(url, failed, here)
        /\ elected = shown \/ Closer(url, failed, elected, shown)
    BY <2>1, ElectedIsClosest DEF elected
  <2>3. elected \in Nodes
    BY <2>2 DEF Candidates
  <2>4. CASE elected \in there
    <3>1. shown = elected \/ Closer(url, failed, shown, elected)
      BY <2>3, <2>4, ShownIsClosest DEF shown
    <3>2. shown = elected
      BY <1>3, <2>2, <2>3, <3>1, CloserAsymmetric
    <3> QED
      BY <3>2
  <2> QED
    BY <2>3, <2>4
<1>4. CASE shown = Nobody
  <2>1. Nodes \cap there = {}
    BY <1>4, ShownIsClosest, NobodyAssumption DEF shown
  <2> QED
    BY <1>1, <1>4, <2>1 DEF Candidates
<1> QED
  BY <1>2, <1>3, <1>4
=============================================================================
