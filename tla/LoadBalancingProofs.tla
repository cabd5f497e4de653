------------------------ MODULE LoadBalancingProofs ------------------------
(***************************************************************************)
(* What the default load balancers guarantee for any nodes, names, topics  *)
(* and services: one node per name, new nodes first, overtaken at most     *)
(* once; and round robin for what shares no node with anything else.       *)
(***************************************************************************)
EXTENDS LoadBalancing, FiniteSetTheorems, WellFoundedInduction, TLAPS

----------------------------------------------------------------------------
(* What sorted(), groupby() and min() amount to: one node of each set of     *)
(* rivals is chosen, and none of its rivals was chosen before it.            *)

IsLeastRecent(m, others) == \A x \in others : lastUsed[m] <= lastUsed[x]

LEMMA LeastNatural ==
    ASSUME NEW T \in SUBSET Nat, T # {}
    PROVE  \E x \in T : \A y \in T : x <= y
<1> DEFINE R == {p \in Nat \X Nat : p[1] < p[2]}
<1>1. IsWellFoundedOn(R, Nat)
  BY NatLessThanWellFounded DEF OpToRel
<1>2. PICK x \in T : \A y \in T : <<y, x>> \notin R
  BY <1>1, WFMin
<1>3. \A y \in T : ~ (y < x)
  BY <1>2
<1> QED
  BY <1>3

LEMMA RivalsOf ==
    ASSUME TypeOK, NEW k \in Keys, NEW n \in Nodes
    PROVE  Rivals(k, n) \subseteq candidates[k] /\ Rivals(k, n) \subseteq Nodes
BY DEF TypeOK, Rivals

LEMMA SameGroupIsEquivalence ==
    ASSUME NEW k \in Keys, NEW l, NEW m, NEW n
    PROVE  /\ SameGroup(k, n, n)
           /\ SameGroup(k, m, n) => SameGroup(k, n, m)
           /\ SameGroup(k, l, m) /\ SameGroup(k, m, n) => SameGroup(k, l, n)
BY DEF SameGroup

\* An order of the candidates has each of them at one place.
LEMMA OrderOfCandidates ==
    ASSUME TypeOK, NEW k \in Keys, NEW o \in Orders(k)
    PROVE  /\ Cardinality(candidates[k]) \in Nat
           /\ DOMAIN o = 1..Cardinality(candidates[k])
           /\ \A i \in DOMAIN o : o[i] \in candidates[k] /\ o[i] \in Nodes
           /\ \A n \in candidates[k] : \E i \in DOMAIN o : o[i] = n
<1>1. candidates[k] \subseteq Nodes
  BY DEF TypeOK
<1>2. Cardinality(candidates[k]) \in Nat
  BY <1>1, BalancingAssumption, FS_Subset, FS_CardinalityType
<1> QED
  BY <1>1, <1>2 DEF Orders, Bijection, Injection, Surjection

\* min() returns a node of the group that has the least time.
LEMMA LeastRecentOfGroup ==
    ASSUME TypeOK, NEW k \in Keys, NEW o \in Orders(k),
           NEW group \in SUBSET DOMAIN o, group # {}
    PROVE  \E i \in group : /\ LeastRecent(o, group) = o[i]
                            /\ \A j \in group : lastUsed[o[i]] <= lastUsed[o[j]]
<1> DEFINE Size == Cardinality(Nodes)
           Time(j) == lastUsed[o[j]] + Size
           IsFirstLeast(i) == \A j \in group :
                \/ lastUsed[o[i]] < lastUsed[o[j]]
                \/ lastUsed[o[i]] = lastUsed[o[j]] /\ i <= j
<1>1. Size \in Nat /\ group \subseteq Nat
  BY BalancingAssumption, FS_CardinalityType, OrderOfCandidates
<1>2. \A j \in group : lastUsed[o[j]] \in Int /\ Time(j) \in Nat
  BY <1>1, OrderOfCandidates DEF TypeOK
<1> DEFINE Times == {Time(j) : j \in group}
<1>3. PICK v \in Times : \A t \in Times : v <= t
  <2>1. Times \in SUBSET Nat /\ Times # {}
    BY <1>2
  <2> HIDE DEF Times
  <2> QED
    BY <2>1, LeastNatural
<1> DEFINE Firsts == {j \in group : Time(j) = v}
<1>4. PICK i \in Firsts : \A j \in Firsts : i <= j
  <2>1. Firsts \in SUBSET Nat /\ Firsts # {}
    BY <1>1, <1>3
  <2> HIDE DEF Firsts
  <2> QED
    BY <2>1, LeastNatural
<1>5. ASSUME NEW j \in group
      PROVE  \/ lastUsed[o[i]] < lastUsed[o[j]]
             \/ lastUsed[o[i]] = lastUsed[o[j]] /\ i <= j
  <2>1. Time(i) = v /\ Time(i) <= Time(j) /\ (Time(j) = v => i <= j)
    BY <1>3, <1>4
  <2> QED
    BY <1>1, <1>2, <1>4, <2>1
<1>6. \E c \in group : IsFirstLeast(c)
  BY <1>4, <1>5
<1>7. LeastRecent(o, group) = o[CHOOSE c \in group : IsFirstLeast(c)]
  BY DEF LeastRecent
<1>8. PICK c \in group : c = (CHOOSE d \in group : IsFirstLeast(d)) /\ IsFirstLeast(c)
  BY <1>6
<1>9. \A j \in group : lastUsed[o[c]] <= lastUsed[o[j]]
  BY <1>2, <1>8
<1> QED
  BY <1>7, <1>8, <1>9

\* Since the list is sorted, groupby() finds all rivals together.
LEMMA GroupIsRivals ==
    ASSUME TypeOK, NEW k \in Keys, NEW o \in Lists(k), NEW i \in Starts(k, o),
           NEW j \in DOMAIN o, SameGroup(k, o[j], o[i])
    PROVE  j \in GroupFrom(k, o, i)
<1>1. /\ o \in Orders(k) /\ i \in DOMAIN o
      /\ \A a, b \in DOMAIN o : k \in Topics /\ a < b => NameOf[o[a]] <= NameOf[o[b]]
  BY DEF Lists, Starts
<1>2. DOMAIN o = 1..Cardinality(candidates[k]) /\ Cardinality(candidates[k]) \in Nat
  BY <1>1, OrderOfCandidates
<1>3. CASE k \in Services
  BY <1>1, <1>2, <1>3 DEF Starts, GroupFrom, SameGroup
<1>4. CASE k \notin Services
  <2>1. \A a \in DOMAIN o : NameOf[o[a]] \in Int
    BY <1>1, OrderOfCandidates, BalancingAssumption DEF Names
  <2>2. k \in Topics /\ NameOf[o[j]] = NameOf[o[i]]
    BY <1>4 DEF Keys, SameGroup
  <2>3. i <= j
    <3>1. SUFFICES ASSUME j < i PROVE FALSE
      BY <1>1, <1>2
    <3>2. i # 1 /\ i - 1 \in DOMAIN o /\ j <= i - 1 /\ i - 1 < i
      BY <1>1, <1>2, <3>1
    <3>3. NameOf[o[i - 1]] # NameOf[o[i]]
      BY <3>2 DEF Starts, SameGroup
    <3>4. NameOf[o[i - 1]] <= NameOf[o[i]]
      BY <1>1, <2>2, <3>2
    <3>5. NameOf[o[j]] <= NameOf[o[i - 1]]
      BY <1>1, <1>2, <2>1, <2>2, <3>2
    <3> QED
      BY <1>1, <2>1, <2>2, <3>2, <3>3, <3>4, <3>5
  <2>4. ASSUME NEW l \in i..j PROVE NameOf[o[l]] = NameOf[o[i]]
    <3>1. l \in DOMAIN o /\ i <= l /\ l <= j
      BY <1>1, <1>2
    <3>2. (i < l => NameOf[o[i]] <= NameOf[o[l]]) /\ (l < j => NameOf[o[l]] <= NameOf[o[j]])
      BY <1>1, <2>2, <3>1
    <3> QED
      BY <1>1, <1>2, <2>1, <2>2, <3>1, <3>2
  <2> QED
    BY <2>3, <2>4 DEF GroupFrom, SameGroup
<1> QED
  BY <1>3, <1>4

\* Two groups that start at different places are of different names.
LEMMA OneStart ==
    ASSUME TypeOK, NEW k \in Keys, NEW o \in Lists(k),
           NEW i \in Starts(k, o), NEW j \in Starts(k, o), SameGroup(k, o[i], o[j])
    PROVE  i = j
<1>1. o \in Orders(k) /\ i \in DOMAIN o /\ j \in DOMAIN o
  BY DEF Lists, Starts
<1>2. DOMAIN o = 1..Cardinality(candidates[k]) /\ Cardinality(candidates[k]) \in Nat
  BY <1>1, OrderOfCandidates
<1>3. ASSUME NEW a \in Starts(k, o), NEW b \in Starts(k, o), SameGroup(k, o[b], o[a])
      PROVE  ~ (a < b)
  <2> SUFFICES ASSUME a < b PROVE FALSE
    OBVIOUS
  <2>1. a \in 1..Cardinality(candidates[k]) /\ b \in 1..Cardinality(candidates[k])
    BY <1>2 DEF Starts
  <2>2. b \in GroupFrom(k, o, a)
    BY <1>1, <1>2, <1>3, <2>1, GroupIsRivals
  <2>3. b - 1 \in a..b /\ b # 1
    BY <1>2, <2>1
  <2>4. SameGroup(k, o[b - 1], o[a])
    BY <2>2, <2>3 DEF GroupFrom
  <2>5. SameGroup(k, o[b - 1], o[b])
    BY <1>3, <2>4 DEF SameGroup
  <2> QED
    BY <2>3, <2>5 DEF Starts
<1>4. SameGroup(k, o[j], o[i])
  BY SameGroupIsEquivalence
<1> QED
  BY <1>1, <1>2, <1>3, <1>4

\* Each candidate is in the group of some start.
LEMMA SomeStart ==
    ASSUME TypeOK, NEW k \in Keys, NEW o \in Lists(k), NEW n \in candidates[k]
    PROVE  \E i \in Starts(k, o) : SameGroup(k, o[i], n)
<1> DEFINE T == {i \in DOMAIN o : SameGroup(k, o[i], n)}
<1>1. o \in Orders(k)
  BY DEF Lists
<1>2. DOMAIN o = 1..Cardinality(candidates[k]) /\ Cardinality(candidates[k]) \in Nat
  BY <1>1, OrderOfCandidates
<1>3. T \subseteq Nat /\ T # {}
  <2>1. PICK i \in DOMAIN o : o[i] = n
    BY <1>1, OrderOfCandidates
  <2>2. i \in T
    BY <2>1, SameGroupIsEquivalence
  <2> QED
    BY <1>2, <2>2
<1>4. PICK i \in T : \A j \in T : i <= j
  BY <1>3, LeastNatural
<1>5. ASSUME i # 1 PROVE ~ SameGroup(k, o[i - 1], o[i])
  <2>1. i - 1 \in DOMAIN o /\ ~ (i <= i - 1)
    BY <1>2, <1>4, <1>5
  <2>2. ~ SameGroup(k, o[i - 1], n)
    BY <1>4, <2>1
  <2> QED
    BY <1>4, <2>2 DEF SameGroup
<1> QED
  BY <1>4, <1>5 DEF Starts

\* What is chosen: exactly one of each candidate's rivals, the least recent one.
LEMMA ChoiceOf ==
    ASSUME TypeOK, NEW k \in Keys, NEW S \in Choices(k)
    PROVE  /\ S \subseteq candidates[k]
           /\ \A n \in candidates[k] : \E m \in S :
                S \cap Rivals(k, n) = {m} /\ IsLeastRecent(m, Rivals(k, n))
<1>1. PICK o \in Lists(k) : S = {LeastRecent(o, GroupFrom(k, o, i)) : i \in Starts(k, o)}
  BY DEF Choices
<1>2. o \in Orders(k)
  BY DEF Lists
<1>3. DOMAIN o = 1..Cardinality(candidates[k]) /\ Cardinality(candidates[k]) \in Nat
  BY <1>2, OrderOfCandidates
<1>4. ASSUME NEW i \in Starts(k, o)
      PROVE  \E c \in GroupFrom(k, o, i) :
                /\ LeastRecent(o, GroupFrom(k, o, i)) = o[c]
                /\ \A j \in GroupFrom(k, o, i) : lastUsed[o[c]] <= lastUsed[o[j]]
  <2>1. i \in DOMAIN o /\ i \in Int
    BY <1>3 DEF Starts
  <2>2. GroupFrom(k, o, i) \in SUBSET DOMAIN o
    BY DEF GroupFrom
  <2>3. i \in GroupFrom(k, o, i)
    BY <2>1, GroupIsRivals, SameGroupIsEquivalence
  <2> QED
    BY <1>2, <2>2, <2>3, LeastRecentOfGroup
<1>5. ASSUME NEW i \in Starts(k, o), NEW c \in GroupFrom(k, o, i)
      PROVE  c \in DOMAIN o /\ SameGroup(k, o[c], o[i])
  BY <1>3 DEF GroupFrom, Starts
<1>6. S \subseteq candidates[k]
  BY <1>1, <1>2, <1>4, <1>5, OrderOfCandidates
<1>7. ASSUME NEW n \in candidates[k]
      PROVE  \E m \in S : S \cap Rivals(k, n) = {m} /\ IsLeastRecent(m, Rivals(k, n))
  <2>1. PICK i \in Starts(k, o) : SameGroup(k, o[i], n)
    BY SomeStart
  <2> DEFINE m == LeastRecent(o, GroupFrom(k, o, i))
  <2>2. PICK c \in GroupFrom(k, o, i) :
            /\ m = o[c]
            /\ \A j \in GroupFrom(k, o, i) : lastUsed[o[c]] <= lastUsed[o[j]]
    BY <1>4
  <2>3. m \in S /\ m \in candidates[k]
    BY <1>1, <1>6
  <2>4. m \in Rivals(k, n)
    BY <1>5, <2>1, <2>2, <2>3 DEF Rivals, SameGroup
  <2>5. ASSUME NEW x \in S, x \in Rivals(k, n) PROVE x = m
    <3>1. PICK j \in Starts(k, o) : x = LeastRecent(o, GroupFrom(k, o, j))
      BY <1>1
    <3>2. PICK d \in GroupFrom(k, o, j) : x = o[d]
      BY <1>4, <3>1
    <3>3. SameGroup(k, x, o[j]) /\ SameGroup(k, x, n)
      BY <1>5, <2>5, <3>2 DEF Rivals
    <3>4. SameGroup(k, o[i], o[j])
      BY <2>1, <3>3 DEF SameGroup
    <3> QED
      BY <3>1, <3>4, OneStart
  <2>6. IsLeastRecent(m, Rivals(k, n))
    <3> SUFFICES ASSUME NEW x \in Rivals(k, n) PROVE lastUsed[m] <= lastUsed[x]
      BY DEF IsLeastRecent
    <3>1. PICK j \in DOMAIN o : o[j] = x
      BY <1>2, OrderOfCandidates DEF Rivals
    <3>2. SameGroup(k, o[j], o[i])
      BY <2>1, <3>1 DEF Rivals, SameGroup
    <3> QED
      BY <2>2, <3>1, <3>2, GroupIsRivals
  <2> QED
    BY <2>3, <2>4, <2>5, <2>6
<1> QED
  BY <1>6, <1>7

\* A chosen node is the least recent of its rivals, and one of them.
LEMMA ChosenIsLeastRecent ==
    ASSUME TypeOK, NEW k \in Keys, NEW S \in Choices(k), NEW n \in S
    PROVE  /\ n \in candidates[k] /\ n \in Nodes /\ n \in Rivals(k, n)
           /\ S \cap Rivals(k, n) = {n}
           /\ IsLeastRecent(n, Rivals(k, n))
<1>1. n \in candidates[k] /\ n \in Nodes /\ n \in Rivals(k, n)
  BY ChoiceOf, SameGroupIsEquivalence DEF TypeOK, Rivals
<1>2. PICK m \in S : S \cap Rivals(k, n) = {m} /\ IsLeastRecent(m, Rivals(k, n))
  BY <1>1, ChoiceOf
<1> QED
  BY <1>1, <1>2

----------------------------------------------------------------------------

\* Times after the start mark the nodes that were chosen before.
UsedIsLater == \A n \in Nodes : n \in used <=> lastUsed[n] > 0

\* Who overtook a node was chosen after it.
OvertakerIsLater ==
    \A k \in Keys, n \in Nodes : \A m \in overtook[k][n] : lastUsed[n] < lastUsed[m]

IInv ==
    /\ TypeOK
    /\ UsedIsLater
    /\ OvertakerIsLater

LEMMA InitIInv == Init => IInv
<1> SUFFICES ASSUME Init PROVE IInv
  OBVIOUS
<1> USE BalancingAssumption
<1>1. Cardinality(Nodes) \in Nat
  BY FS_CardinalityType
<1>2. \A n \in Nodes :
        lastUsed[n] \in Int /\ -Cardinality(Nodes) <= lastUsed[n] /\ lastUsed[n] < 0
  BY <1>1 DEF Init
<1>3. lastUsed \in [Nodes -> Int]
  BY <1>1 DEF Init
<1>4. TypeOK
  BY <1>2, <1>3 DEF Init, TypeOK, Nobody
<1>5. UsedIsLater /\ OvertakerIsLater
  BY <1>2 DEF Init, UsedIsLater, OvertakerIsLater, Nobody
<1> QED
  BY <1>4, <1>5 DEF IInv

\* A choice gives the chosen later times than any node has.
LEMMA ChosenIsLater ==
    ASSUME TypeOK, NEW k \in Keys, NEW S \in Choices(k), Use(k, S)
    PROVE  /\ S \subseteq candidates[k] /\ S \subseteq Nodes
           /\ clock' \in Nat /\ lastUsed' \in [Nodes -> Int]
           /\ \A n \in S : clock < lastUsed'[n] /\ lastUsed'[n] <= clock'
           /\ \A n \in Nodes \ S : lastUsed'[n] = lastUsed[n] /\ lastUsed'[n] <= clock'
<1> USE BalancingAssumption DEF TypeOK
<1>1. S \subseteq candidates[k] /\ S \subseteq Nodes
  BY ChoiceOf
<1>2. clock' = clock + NumNames /\ clock' \in Nat
  BY DEF Use
<1>3. \A n \in Nodes : NameOf[n] \in Int /\ 1 <= NameOf[n] /\ NameOf[n] <= NumNames
  BY DEF Names
<1>4. lastUsed' \in [Nodes -> Int]
  BY <1>3 DEF Use
<1>5. \A n \in Nodes : lastUsed'[n] = IF n \in S THEN clock + NameOf[n] ELSE lastUsed[n]
  BY DEF Use
<1> QED
  BY <1>1, <1>2, <1>3, <1>4, <1>5

LEMMA ChooseTypeOK ==
    ASSUME TypeOK, NEW k \in Keys, Choose(k) PROVE TypeOK'
<1>1. PICK S \in Choices(k) :
        /\ Use(k, S)
        /\ last' = [key |-> k, nodes |-> S]
        /\ used' = used \cup S
        /\ overtook' = [j \in Keys |-> [n \in Nodes |->
                IF n \in S THEN {}
                ELSE IF j = k /\ n \in candidates[k]
                THEN overtook[j][n] \cup (S \cap Rivals(k, n))
                ELSE overtook[j][n]]]
        /\ owed' = [owed EXCEPT ![k] = [n \in Nodes |->
                IF n \in S THEN Rivals(k, n) \ {n} ELSE owed[k][n] \ S]]
  BY DEF Choose
<1>2. /\ S \subseteq Nodes /\ clock' \in Nat /\ lastUsed' \in [Nodes -> Int]
      /\ \A n \in Nodes : -Cardinality(Nodes) <= lastUsed'[n] /\ lastUsed'[n] <= clock'
  <2>1. Cardinality(Nodes) \in Nat
    BY BalancingAssumption, FS_CardinalityType
  <2>2. /\ S \subseteq Nodes /\ clock' \in Nat /\ lastUsed' \in [Nodes -> Int]
        /\ \A n \in S : clock < lastUsed'[n] /\ lastUsed'[n] <= clock'
        /\ \A n \in Nodes \ S : lastUsed'[n] = lastUsed[n] /\ lastUsed'[n] <= clock'
    BY <1>1, ChosenIsLater
  <2>3. clock \in Nat /\ \A n \in Nodes : lastUsed[n] \in Int /\ -Cardinality(Nodes) <= lastUsed[n]
    BY DEF TypeOK
  <2>4. ASSUME NEW n \in Nodes PROVE -Cardinality(Nodes) <= lastUsed'[n] /\ lastUsed'[n] <= clock'
    BY <2>1, <2>2, <2>3
  <2> QED
    BY <2>2, <2>4
<1>3. overtook' \in [Keys -> [Nodes -> SUBSET Nodes]]
  BY <1>1, <1>2, RivalsOf DEF TypeOK
<1>4. owed' \in [Keys -> [Nodes -> SUBSET Nodes]]
  <2>1. [n \in Nodes |-> IF n \in S THEN Rivals(k, n) \ {n} ELSE owed[k][n] \ S]
            \in [Nodes -> SUBSET Nodes]
    BY RivalsOf DEF TypeOK
  <2> QED
    BY <1>1, <2>1 DEF TypeOK
<1>5. candidates' = candidates
  BY DEF Choose
<1> QED
  BY <1>1, <1>2, <1>3, <1>4, <1>5 DEF TypeOK

LEMMA ChooseIInv == ASSUME IInv, NEW k \in Keys, Choose(k) PROVE IInv'
<1>1. PICK S \in Choices(k) :
        /\ Use(k, S)
        /\ used' = used \cup S
        /\ overtook' = [j \in Keys |-> [n \in Nodes |->
                IF n \in S THEN {}
                ELSE IF j = k /\ n \in candidates[k]
                THEN overtook[j][n] \cup (S \cap Rivals(k, n))
                ELSE overtook[j][n]]]
  BY DEF Choose
<1>2. TypeOK /\ TypeOK'
  BY ChooseTypeOK DEF IInv
<1>3. /\ S \subseteq Nodes
      /\ \A n \in S : clock < lastUsed'[n]
      /\ \A n \in Nodes \ S : lastUsed'[n] = lastUsed[n]
  BY <1>1, <1>2, ChosenIsLater
<1>4. clock \in Nat /\ \A n \in Nodes : lastUsed[n] \in Int /\ lastUsed[n] <= clock
                                        /\ lastUsed'[n] \in Int
  BY <1>2 DEF TypeOK
<1>5. UsedIsLater'
  BY <1>1, <1>3, <1>4 DEF IInv, UsedIsLater
<1>6. OvertakerIsLater'
  <2> SUFFICES ASSUME NEW j \in Keys, NEW n \in Nodes, NEW m \in overtook'[j][n]
               PROVE  lastUsed'[n] < lastUsed'[m]
    BY DEF OvertakerIsLater
  <2>1. n \notin S /\ m \in Nodes /\ (m \in overtook[j][n] \/ m \in S)
    BY <1>1, <1>2 DEF TypeOK
  <2>2. m \in overtook[j][n] => lastUsed[n] < lastUsed[m]
    BY DEF IInv, OvertakerIsLater
  <2> QED
    BY <1>3, <1>4, <2>1, <2>2
<1> QED
  BY <1>2, <1>5, <1>6 DEF IInv

LEMMA SetTopologyIInv == IInv /\ SetTopology => IInv'
<1> SUFFICES ASSUME IInv, SetTopology PROVE IInv'
  OBVIOUS
<1>1. owed' \in [Keys -> [Nodes -> SUBSET Nodes]]
  BY DEF IInv, TypeOK, SetTopology
<1> QED
  BY <1>1 DEF IInv, TypeOK, SetTopology, UsedIsLater, OvertakerIsLater

LEMMA NextIInv == IInv /\ [Next]_vars => IInv'
<1>1. IInv /\ UNCHANGED vars => IInv'
  BY DEF IInv, TypeOK, UsedIsLater, OvertakerIsLater, vars
<1> QED
  BY <1>1, ChooseIInv, SetTopologyIInv DEF Next

LEMMA Invariance == Spec => []IInv
BY InitIInv, NextIInv, PTL DEF Spec

\* A step that moves the clock is a choice for last'.key of last'.nodes.
LEMMA ClockMoves ==
    ASSUME [Next]_vars, clock' # clock
    PROVE  \E k \in Keys : \E S \in Choices(k) :
            last' = [key |-> k, nodes |-> S] /\ Choose(k) /\ candidates' = candidates
BY DEF Next, vars, SetTopology, Choose

----------------------------------------------------------------------------

\* Every reachable state is of the declared type, and no node's time is ahead of
\* the clock.
THEOREM TypeCorrect == Spec => []TypeOK
<1>1. IInv => TypeOK
  BY DEF IInv
<1> QED
  BY Invariance, <1>1, PTL

\* Exactly one node of each name that listens to a topic gets a message on it.
THEOREM AlwaysOnePerName == Spec => OnePerName
<1>1. IInv /\ [Next]_vars =>
        [clock' # clock /\ last'.key \in Topics =>
            /\ last'.nodes \subseteq candidates[last'.key]
            /\ \A n \in candidates[last'.key] :
                Cardinality({m \in last'.nodes : NameOf[m] = NameOf[n]}) = 1]_vars
  <2> SUFFICES ASSUME IInv, [Next]_vars, clock' # clock, last'.key \in Topics
               PROVE  /\ last'.nodes \subseteq candidates[last'.key]
                      /\ \A n \in candidates[last'.key] :
                          Cardinality({m \in last'.nodes : NameOf[m] = NameOf[n]}) = 1
    OBVIOUS
  <2>1. PICK k \in Keys : \E S \in Choices(k) : last' = [key |-> k, nodes |-> S]
    BY ClockMoves
  <2>2. PICK S \in Choices(k) : last' = [key |-> k, nodes |-> S]
    BY <2>1
  <2>3. k \in Topics /\ k \notin Services /\ S \subseteq candidates[k]
    BY <2>2, BalancingAssumption, ChoiceOf DEF IInv
  <2>4. ASSUME NEW n \in candidates[k]
        PROVE  Cardinality({m \in S : NameOf[m] = NameOf[n]}) = 1
    <3>1. PICK m \in S : S \cap Rivals(k, n) = {m}
      BY ChoiceOf DEF IInv
    <3>2. {x \in S : NameOf[x] = NameOf[n]} = {m}
      BY <2>3, <3>1 DEF Rivals, SameGroup
    <3> QED
      BY <3>2, FS_Singleton
  <2> QED
    BY <2>2, <2>3, <2>4
<1> QED
  BY Invariance, <1>1, PTL DEF Spec, OnePerName

\* No node is chosen again while a rival has never been chosen.
THEOREM AlwaysNewNodesFirst == Spec => NewNodesFirst
<1>1. IInv /\ [Next]_vars =>
        [clock' # clock => \A n \in last'.nodes :
            n \in used => Rivals(last'.key, n) \subseteq used]_vars
  <2> SUFFICES ASSUME IInv, [Next]_vars, clock' # clock,
                      NEW n \in last'.nodes, n \in used
               PROVE  Rivals(last'.key, n) \subseteq used
    OBVIOUS
  <2>1. PICK k \in Keys : \E S \in Choices(k) : last' = [key |-> k, nodes |-> S]
    BY ClockMoves
  <2>2. PICK S \in Choices(k) : last' = [key |-> k, nodes |-> S]
    BY <2>1
  <2>3. n \in S /\ n \in candidates[k] /\ n \in Nodes /\ n \in Rivals(k, n)
    BY <2>2, ChosenIsLeastRecent DEF IInv
  <2>4. IsLeastRecent(n, Rivals(k, n))
    BY <2>3, ChosenIsLeastRecent DEF IInv
  <2>5. \A x \in Rivals(k, n) : x \in Nodes /\ lastUsed[n] <= lastUsed[x]
    BY <2>3, <2>4, RivalsOf DEF IInv, IsLeastRecent
  <2> QED
    BY <2>2, <2>3, <2>5 DEF IInv, TypeOK, UsedIsLater
<1> QED
  BY Invariance, <1>1, PTL DEF Spec, NewNodesFirst

\* No rival passes over a waiting node twice.
THEOREM AlwaysNoSecondOvertaking == Spec => NoSecondOvertaking
<1>1. IInv /\ [Next]_vars =>
        [clock' # clock => \A n \in candidates[last'.key] \ last'.nodes :
            last'.nodes \cap Rivals(last'.key, n) \cap overtook[last'.key][n] = {}]_vars
  <2> SUFFICES ASSUME IInv, [Next]_vars, clock' # clock,
                      NEW n \in candidates[last'.key], NEW m \in last'.nodes,
                      m \in Rivals(last'.key, n)
               PROVE  m \notin overtook[last'.key][n]
    OBVIOUS
  <2>1. PICK k \in Keys : \E S \in Choices(k) : last' = [key |-> k, nodes |-> S]
    BY ClockMoves
  <2>2. PICK S \in Choices(k) : last' = [key |-> k, nodes |-> S]
    BY <2>1
  <2>3. n \in Nodes /\ m \in Nodes /\ m \in S /\ n \in Rivals(k, n)
    BY <2>2, ChosenIsLeastRecent, SameGroupIsEquivalence DEF IInv, TypeOK, Rivals
  <2>4. lastUsed[m] <= lastUsed[n]
    <3>1. PICK x \in S : S \cap Rivals(k, n) = {x} /\ IsLeastRecent(x, Rivals(k, n))
      BY <2>2, ChoiceOf DEF IInv
    <3>2. x = m
      BY <2>2, <2>3, <3>1
    <3> QED
      BY <2>3, <3>1, <3>2 DEF IsLeastRecent
  <2> QED
    BY <2>2, <2>3, <2>4 DEF IInv, TypeOK, OvertakerIsLater
<1> QED
  BY Invariance, <1>1, PTL DEF Spec, NoSecondOvertaking

----------------------------------------------------------------------------
(* Round robin for a topic or service that shares no node with another.      *)

Alone(k) == \A j \in Keys \ {k} : candidates[j] \cap candidates[k] = {}

\* Who is owed a message was chosen before the node it is owed on account of.
OwedIsEarlier(k) ==
    \A n \in Nodes : \A m \in owed[k][n] :
        /\ n \in candidates[k]
        /\ m \in Rivals(k, n)
        /\ lastUsed[m] < lastUsed[n]

LEMMA InitOwed == ASSUME NEW k \in Keys PROVE Init => OwedIsEarlier(k)
BY DEF Init, OwedIsEarlier, Nobody

\* A choice for the key itself.
LEMMA ChooseOwed ==
    ASSUME IInv, NEW k \in Keys, OwedIsEarlier(k), Choose(k)
    PROVE  OwedIsEarlier(k)'
<1>1. PICK S \in Choices(k) :
        /\ Use(k, S)
        /\ owed' = [owed EXCEPT ![k] = [n \in Nodes |->
                IF n \in S THEN Rivals(k, n) \ {n} ELSE owed[k][n] \ S]]
  BY DEF Choose
<1>2. TypeOK /\ TypeOK' /\ candidates' = candidates
  BY ChooseTypeOK DEF IInv, Choose
<1>3. /\ S \subseteq Nodes /\ S \subseteq candidates[k]
      /\ \A n \in S : clock < lastUsed'[n]
      /\ \A n \in Nodes \ S : lastUsed'[n] = lastUsed[n]
  BY <1>1, <1>2, ChosenIsLater
<1>4. clock \in Nat /\ \A n \in Nodes : lastUsed[n] \in Int /\ lastUsed[n] <= clock
                                        /\ lastUsed'[n] \in Int
  BY <1>2 DEF TypeOK
<1> SUFFICES ASSUME NEW n \in Nodes, NEW m \in owed'[k][n]
             PROVE  /\ n \in candidates[k]
                    /\ m \in Rivals(k, n)
                    /\ lastUsed'[m] < lastUsed'[n]
  BY <1>2 DEF OwedIsEarlier, Rivals
<1>5. CASE n \in S
  <2>1. m \in Rivals(k, n) /\ m # n /\ m \in Nodes
    BY <1>1, <1>2, <1>5, RivalsOf DEF TypeOK
  <2>2. m \notin S
    BY <1>2, <1>5, <2>1, ChosenIsLeastRecent
  <2> QED
    BY <1>3, <1>4, <1>5, <2>1, <2>2
<1>6. CASE n \notin S
  <2>1. m \in owed[k][n] /\ m \notin S /\ m \in Nodes
    BY <1>1, <1>2, <1>6 DEF TypeOK
  <2> QED
    BY <1>3, <1>6, <2>1 DEF OwedIsEarlier
<1> QED
  BY <1>5, <1>6

\* A choice for another key, which leaves the nodes of this one alone.
LEMMA ChooseElse ==
    ASSUME IInv, NEW k \in Keys, Alone(k), OwedIsEarlier(k), NEW j \in Keys \ {k}, Choose(j)
    PROVE  OwedIsEarlier(k)'
<1>1. PICK S \in Choices(j) :
        /\ Use(j, S)
        /\ owed' = [owed EXCEPT ![j] = [n \in Nodes |->
                IF n \in S THEN Rivals(j, n) \ {n} ELSE owed[j][n] \ S]]
  BY DEF Choose
<1>2. TypeOK /\ candidates' = candidates /\ owed'[k] = owed[k]
  BY <1>1 DEF IInv, TypeOK, Choose
<1>3. \A n \in candidates[k] : n \in Nodes /\ lastUsed'[n] = lastUsed[n]
  <2>1. S \subseteq candidates[j] /\ \A n \in Nodes \ S : lastUsed'[n] = lastUsed[n]
    BY <1>1, <1>2, ChosenIsLater
  <2>2. candidates[k] \subseteq Nodes
    BY <1>2 DEF TypeOK
  <2> QED
    BY <2>1, <2>2 DEF Alone
<1> QED
  BY <1>2, <1>3 DEF OwedIsEarlier, Rivals

LEMMA SetTopologyOwed ==
    ASSUME IInv, NEW k \in Keys, OwedIsEarlier(k), SetTopology
    PROVE  OwedIsEarlier(k)'
<1> SUFFICES ASSUME NEW n \in Nodes, NEW m \in owed'[k][n]
             PROVE  /\ n \in candidates'[k]
                    /\ m \in Rivals(k, n)'
                    /\ lastUsed'[m] < lastUsed'[n]
  BY DEF OwedIsEarlier
<1>1. n \in candidates'[k] /\ m \in owed[k][n] /\ m \in candidates'[k]
  BY DEF SetTopology
<1> QED
  BY <1>1 DEF SetTopology, OwedIsEarlier, Rivals

LEMMA NextOwed ==
    ASSUME NEW k \in Keys
    PROVE  IInv /\ Alone(k) /\ OwedIsEarlier(k) /\ [Next]_vars => OwedIsEarlier(k)'
<1>1. OwedIsEarlier(k) /\ UNCHANGED vars => OwedIsEarlier(k)'
  BY DEF OwedIsEarlier, Rivals, vars
<1> QED
  BY <1>1, ChooseOwed, ChooseElse, SetTopologyOwed DEF Next

\* Who is chosen owes nothing.
LEMMA ChosenOwesNone ==
    ASSUME IInv, [Next]_vars, clock' # clock, OwedIsEarlier(last'.key),
           NEW n \in last'.nodes
    PROVE  owed[last'.key][n] = {}
<1>1. PICK k \in Keys : \E S \in Choices(k) : last' = [key |-> k, nodes |-> S]
  BY ClockMoves
<1>2. PICK S \in Choices(k) : last' = [key |-> k, nodes |-> S]
  BY <1>1
<1> SUFFICES ASSUME NEW m \in owed[k][n] PROVE FALSE
  BY <1>2
<1>3. /\ n \in S /\ n \in candidates[k] /\ n \in Nodes /\ n \in Rivals(k, n)
      /\ IsLeastRecent(n, Rivals(k, n))
  BY <1>2, ChosenIsLeastRecent DEF IInv
<1>4. m \in Rivals(k, n) /\ m \in Nodes /\ lastUsed[m] < lastUsed[n]
  BY <1>2, <1>3, RivalsOf DEF OwedIsEarlier, IInv
<1>5. lastUsed[n] <= lastUsed[m]
  BY <1>3, <1>4 DEF IsLeastRecent
<1> QED
  BY <1>3, <1>4, <1>5 DEF IInv, TypeOK

\* A topic or a service whose nodes have no other, at any time, is served round
\* robin, whatever nodes come and go and whatever the others are used for.
THEOREM RoundRobinWhenAlone ==
    ASSUME NEW k \in Keys
    PROVE  Spec /\ []Alone(k) =>
            [][clock' # clock /\ last'.key = k =>
                \A n \in last'.nodes : owed[k][n] = {}]_vars
<1>1. Spec /\ []Alone(k) => []OwedIsEarlier(k)
  BY InitOwed, NextOwed, Invariance, PTL DEF Spec
<1>2. IInv /\ OwedIsEarlier(k) /\ [Next]_vars =>
        [clock' # clock /\ last'.key = k => \A n \in last'.nodes : owed[k][n] = {}]_vars
  BY ChosenOwesNone
<1> QED
  BY Invariance, <1>1, <1>2, PTL DEF Spec

NoSharing == \A k \in Keys : Alone(k)

\* If no two topics or services ever share a node, each is served round robin.
THEOREM RoundRobinWithoutSharing == Spec /\ []NoSharing => RoundRobin
<1> DEFINE AllOwed == \A k \in Keys : OwedIsEarlier(k)
<1>1. Init => AllOwed
  BY InitOwed
<1>2. IInv /\ NoSharing /\ AllOwed /\ [Next]_vars => AllOwed'
  BY NextOwed DEF NoSharing
<1>3. IInv /\ AllOwed /\ [Next]_vars =>
        [clock' # clock => \A n \in last'.nodes : owed[last'.key][n] = {}]_vars
  <2> SUFFICES ASSUME IInv, AllOwed, [Next]_vars, clock' # clock, NEW n \in last'.nodes
               PROVE  owed[last'.key][n] = {}
    OBVIOUS
  <2>1. last'.key \in Keys
    BY ClockMoves
  <2> QED
    BY <2>1, ChosenOwesNone
<1> QED
  BY Invariance, <1>1, <1>2, <1>3, PTL DEF Spec, RoundRobin
=============================================================================
