------------------------- MODULE ElectionViewsProofs -------------------------
(***************************************************************************)
(* What the checks of ElectionViews say of four nodes holds for any number *)
(* of nodes at any addresses.                                              *)
(***************************************************************************)
EXTENDS ElectionViews, ElectionProofs, FiniteSetTheorems

LEMMA ViewsTypeCorrect == Spec => []ViewsTypeOK
<1>1. Init => ViewsTypeOK
  BY DEF Init, ViewsTypeOK
<1>2. ViewsTypeOK /\ [Next]_inputs => ViewsTypeOK'
  BY DEF ViewsTypeOK, Next, inputs, Flip
<1> QED
  BY <1>1, <1>2, PTL DEF Spec

\* The candidates are the nodes the reference sorts, and a node comes before
\* another in the sort if it is closer.
LEMMA SortsByCloseness ==
  ASSUME ViewsTypeOK, NEW view
  PROVE  /\ Others(view) = Candidates(placement, placement[MainMaster], view)
         /\ \A m, n \in Nodes : KeyLess(SortKey(m), SortKey(n))
                                  <=> Closer(placement, placement[MainMaster], m, n)
<1>1. Placed(placement, placement[MainMaster])
  BY PlacementsAssumption DEF ViewsTypeOK, Placed
<1>2. \A m, n \in Nodes : KeyLess(SortKey(m), SortKey(n))
                            <=> Closer(placement, placement[MainMaster], m, n)
  BY <1>1, DistanceNat DEF KeyLess, SortKey, Closer
<1> QED
  BY <1>2 DEF Others, Candidates

\* Only the elected node can head a sorted list: it is in the list, and it is
\* closer than whoever stands before it.
LEMMA SortedHead ==
  ASSUME ViewsTypeOK, NEW view, NEW list \in SortedLists(view)
  PROVE  (IF 1 \in DOMAIN list THEN list[1] ELSE Nobody) = Elected(view)
<1> DEFINE C == Others(view)
           e == Elected(view)
<1>1. C \subseteq Nodes /\ IsFiniteSet(C) /\ Cardinality(C) \in Nat
  BY NodesAssumption, FS_Subset, FS_CardinalityType DEF Others
<1>2. list \in [1 .. Cardinality(C) -> C]
  BY DEF SortedLists
<1>3. CASE C = {}
  <2>1. Cardinality(C) = 0
    BY <1>3, FS_EmptySet
  <2>2. 1 \notin DOMAIN list
    BY <1>2, <2>1
  <2> QED
    BY <1>3, <2>2, SortsByCloseness DEF Elected, ElectMaster
<1>4. CASE C # {}
  <2>1. Placed(placement, placement[MainMaster])
    BY PlacementsAssumption DEF ViewsTypeOK, Placed
  <2>2. e \in C /\ \A n \in C : e = n \/ Closer(placement, placement[MainMaster], e, n)
    BY <1>4, <2>1, SortsByCloseness, ElectedIsClosest DEF Elected
  <2>3. PICK i \in 1 .. Cardinality(C) : list[i] = e
    BY <1>2, <2>2 DEF SortedLists
  <2>4. 1 \in 1 .. Cardinality(C) /\ list[1] \in C
    BY <1>1, <1>2, <2>3
  <2>5. ASSUME i # 1  PROVE list[1] = e
    <3>1. ~ KeyLess(SortKey(list[i]), SortKey(list[1]))
      BY <1>1, <1>2, <2>3, <2>4, <2>5 DEF SortedLists
    <3> QED
      BY <1>1, <2>2, <2>3, <2>4, <3>1, SortsByCloseness
  <2> QED
    BY <1>2, <2>3, <2>4, <2>5
<1> QED
  BY <1>3, <1>4

\* There is a sorted list: every candidate stands where the number of those
\* that are no farther puts it, and no two of them stand in one place.
LEMMA SortedListExists ==
  ASSUME ViewsTypeOK, NEW view
  PROVE  SortedLists(view) # {}
<1> DEFINE C == Others(view)
           N == Cardinality(C)
           before(m, n) == Closer(placement, placement[MainMaster], m, n)
           downTo(n) == {m \in C : m = n \/ before(m, n)}
           place == [n \in C |-> Cardinality(downTo(n))]
<1>1. C \subseteq Nodes /\ IsFiniteSet(C) /\ N \in Nat
  BY NodesAssumption, FS_Subset, FS_CardinalityType DEF Others
<1>2. Placed(placement, placement[MainMaster])
  BY PlacementsAssumption DEF ViewsTypeOK, Placed
<1>3. /\ \A m, n \in C : m # n => before(m, n) \/ before(n, m)
      /\ \A m, n \in C : before(m, n) => ~ before(n, m)
      /\ \A l, m, n \in C : before(l, m) /\ before(m, n) => before(l, n)
  <2>1. \A m, n \in C : m # n => before(m, n) \/ before(n, m)
    BY <1>1, <1>2, CloserTotal
  <2>2. \A m, n \in C : before(m, n) => ~ before(n, m)
    BY <1>1, <1>2, CloserAsymmetric
  <2>3. \A l, m, n \in C : before(l, m) /\ before(m, n) => before(l, n)
    BY <1>1, <1>2, CloserTransitive
  <2> QED
    BY <2>1, <2>2, <2>3
<1> HIDE DEF before
<1>4. ASSUME NEW n \in C
      PROVE  IsFiniteSet(downTo(n)) /\ place[n] = Cardinality(downTo(n)) /\ place[n] \in 1 .. N
  <2>1. downTo(n) \in SUBSET C /\ n \in downTo(n)
    OBVIOUS
  <2>2. IsFiniteSet(downTo(n)) /\ Cardinality(downTo(n)) <= N
    BY <1>1, <2>1, FS_Subset
  <2>3. Cardinality(downTo(n)) \in Nat /\ Cardinality(downTo(n)) # 0
    BY <2>1, <2>2, FS_CardinalityType, FS_EmptySet
  <2> QED
    BY <1>1, <2>2, <2>3
<1>5. ASSUME NEW m \in C, NEW n \in C, before(m, n)
      PROVE  place[m] < place[n]
  <2>1. downTo(m) \in SUBSET downTo(n)
    BY <1>3, <1>5
  <2>2. n \in downTo(n) /\ n \notin downTo(m)
    BY <1>3, <1>5
  <2>3. Cardinality(downTo(m)) <= Cardinality(downTo(n))
    BY <1>4, <2>1, FS_Subset
  <2>4. Cardinality(downTo(m)) # Cardinality(downTo(n))
    BY <1>4, <2>1, <2>2, FS_Subset
  <2>5. place[m] \in Nat /\ place[n] \in Nat
    BY <1>1, <1>4
  <2> QED
    BY <1>4, <2>3, <2>4, <2>5
<1> HIDE DEF downTo, place
<1>6. \A m, n \in C : place[m] = place[n] => m = n
  <2> SUFFICES ASSUME NEW m \in C, NEW n \in C, m # n  PROVE place[m] # place[n]
    OBVIOUS
  <2>1. before(m, n) \/ before(n, m)
    BY <1>3
  <2>2. place[m] \in Nat /\ place[n] \in Nat
    BY <1>1, <1>4
  <2> QED
    BY <1>5, <2>1, <2>2
<1>7. \A i \in 1 .. N : \E n \in C : place[n] = i
  <2>1. place \in [C -> 1 .. N]
    BY <1>4 DEF place
  <2>2. place \in Injection(C, 1 .. N)
    BY <1>6, <2>1 DEF Injection, IsInjective
  <2>3. IsFiniteSet(1 .. N) /\ Cardinality(1 .. N) = N
    BY <1>1, FS_Interval
  <2>4. place \in Surjection(C, 1 .. N)
    BY <2>2, <2>3, FS_Injection
  <2> QED
    BY <2>4 DEF Surjection
<1> DEFINE list == [i \in 1 .. N |-> CHOOSE n \in C : place[n] = i]
<1>8. \A i \in 1 .. N : list[i] \in C /\ place[list[i]] = i
  BY <1>7
<1>9. \A n \in C : \E i \in 1 .. N : list[i] = n
  BY <1>4, <1>6, <1>8
<1>10. ASSUME NEW i \in 1 .. N, NEW j \in 1 .. N, i < j
       PROVE  ~ KeyLess(SortKey(list[j]), SortKey(list[i]))
  <2>1. list[i] \in C /\ list[j] \in C /\ place[list[i]] = i /\ place[list[j]] = j
    BY <1>8
  <2>2. ~ before(list[j], list[i])
    BY <1>1, <1>5, <1>10, <2>1
  <2> QED
    BY <1>1, <2>1, <2>2, SortsByCloseness DEF before
<1>11. list \in [1 .. N -> C]
  BY <1>8
<1>12. DOMAIN list = 1 .. N
  OBVIOUS
<1> HIDE DEF list
<1>13. \A i, j \in DOMAIN list : i < j => ~ KeyLess(SortKey(list[j]), SortKey(list[i]))
  BY <1>10, <1>12
<1>14. list \in SortedLists(view)
  BY <1>9, <1>11, <1>12, <1>13 DEF SortedLists
<1> QED
  BY <1>14

\* The elected node is the head of the sorted candidates, whatever their number
\* and their addresses are.
THEOREM ElectsSortedFirstAlways == Spec => []ElectsSortedFirst
<1>1. ViewsTypeOK => ElectsSortedFirst
  BY SortedHead, SortedListExists DEF ElectsSortedFirst
<1> QED
  BY <1>1, ViewsTypeCorrect, PTL

\* The slaves can only disagree on a temporary master that one of them finds
\* offline.
THEOREM SameUnlessUnseenAlways == Spec => []SameUnlessUnseen
<1>1. ViewsTypeOK => SameUnlessUnseen
  <2> SUFFICES ASSUME ViewsTypeOK, Elected(here) \in there, Elected(there) \in here
               PROVE  Elected(here) = Elected(there)
    BY DEF SameUnlessUnseen
  <2>1. Placed(placement, placement[MainMaster])
    BY PlacementsAssumption DEF ViewsTypeOK, Placed
  <2>2. Elected(here) # Nobody /\ Elected(there) # Nobody
    BY NobodyAssumption DEF ViewsTypeOK
  <2> QED
    BY <2>1, <2>2, ElectionAgrees DEF Elected
<1> QED
  BY <1>1, ViewsTypeCorrect, PTL

\* The dashboard shows the node the slaves elect, or one of the two elects from
\* a view without the other's choice, or the shown node has the master's URL.
THEOREM DashboardAgreesAlways == Spec => []DashboardAgrees
<1>1. ViewsTypeOK => DashboardAgrees
  <2> SUFFICES ASSUME ViewsTypeOK  PROVE DashboardAgrees
    OBVIOUS
  <2>1. MainMaster \in Nodes /\ Placed(placement, placement[MainMaster])
    BY PlacementsAssumption DEF ViewsTypeOK, Placed
  <2> QED
    BY <2>1, DashboardElects DEF DashboardAgrees, Elected
<1> QED
  BY <1>1, ViewsTypeCorrect, PTL
=============================================================================
