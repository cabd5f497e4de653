--------------------------- MODULE LoadBalancing ---------------------------
(***************************************************************************)
(* Which nodes a message or a request goes to: the default balancers that  *)
(* build_peer_selector() (rosy/node/builder.py) makes, over the lookup     *)
(* tables of MeshTopologyManager.  One LeastRecentLoadBalancer serves all  *)
(* services, and within each group of nodes of one name all topics.        *)
(*                                                                         *)
(* A choice does not suspend and is one step.  Time is that of             *)
(* time.monotonic_ns(), which is taken to differ between two choices.      *)
(***************************************************************************)
EXTENDS Integers, FiniteSets, Functions

CONSTANTS
    Nodes,         \* the nodes that ever are in the mesh
    NumNames,      \* names are 1..NumNames, in their sorting order
    NameOf,        \* the name of each node
    Topics,
    Services,
    MaxTime        \* bound: time up to which choices are explored

Keys == Topics \cup Services
Names == 1..NumNames

ASSUME BalancingAssumption ==
    /\ IsFiniteSet(Nodes)
    /\ NumNames \in Nat
    /\ NameOf \in [Nodes -> Names]
    /\ Topics \cap Services = {}
    /\ MaxTime \in Nat

VARIABLES
    candidates,    \* the nodes that listen to each topic or provide each service
    lastUsed,      \* _last_used
    clock,         \* time_func()
    last,          \* history: the latest choice
    used,          \* history: the nodes that were chosen before
    overtook,      \* history: who was chosen for a key since a node was last
                   \* chosen for anything, while that node could have been
    owed           \* history: the rivals that got nothing for a key since a
                   \* node's latest message for it, though they were there

vars == <<candidates, lastUsed, clock, last, used, overtook, owed>>

Nobody == [k \in Keys |-> [n \in Nodes |-> {}]]

TypeOK ==
    /\ candidates \in [Keys -> SUBSET Nodes]
    /\ lastUsed \in [Nodes -> Int]
    /\ clock \in Nat
    /\ \A n \in Nodes : -Cardinality(Nodes) <= lastUsed[n] /\ lastUsed[n] <= clock
    /\ last \in [key : Keys, nodes : SUBSET Nodes]
    /\ used \in SUBSET Nodes
    /\ overtook \in [Keys -> [Nodes -> SUBSET Nodes]]
    /\ owed \in [Keys -> [Nodes -> SUBSET Nodes]]

\* A variant with a mistake: a node's default may be later than the choices made.
InitLate ==
    /\ candidates = [k \in Keys |-> {}]
    /\ lastUsed = [n \in Nodes |-> NumNames + NameOf[n]]
    /\ clock = 0
    /\ last \in [key : Keys, nodes : {{}}]
    /\ used = {}
    /\ overtook = Nobody
    /\ owed = Nobody

\* The defaults in _last_used are random times before the first choice.
Init ==
    /\ candidates = [k \in Keys |-> {}]
    /\ lastUsed \in {f \in [Nodes -> -Cardinality(Nodes) .. -1] :
                        \A m, n \in Nodes : f[m] = f[n] => m = n}
    /\ clock = 0
    /\ last \in [key : Keys, nodes : {{}}]
    /\ used = {}
    /\ overtook = Nobody
    /\ owed = Nobody

----------------------------------------------------------------------------

\* set_topology().  Nothing is forgotten of nodes that leave.
SetTopology ==
    /\ candidates' \in [Keys -> SUBSET Nodes]
    /\ owed' = [k \in Keys |-> [n \in Nodes |->
                    IF n \in candidates'[k] THEN owed[k][n] \cap candidates'[k] ELSE {}]]
    /\ UNCHANGED <<lastUsed, clock, last, used, overtook>>

\* Nodes of one group: group_key() tells a topic's nodes apart by name, while a
\* service's are all one group.
SameGroup(k, m, n) == k \in Services \/ NameOf[m] = NameOf[n]

\* The nodes that compete with a node.
Rivals(k, n) == {m \in candidates[k] : SameGroup(k, m, n)}

\* The candidates in any order, as the lookup tables give them.
Orders(k) == Bijection(1..Cardinality(candidates[k]), candidates[k])

\* A variant with a mistake: groupby() is given the list as it is.
ListsUnsorted(k) == Orders(k)

\* The lists that are grouped: sorted() orders a topic's nodes by name.
Lists(k) ==
    {o \in Orders(k) : \A i, j \in DOMAIN o :
        k \in Topics /\ i < j => NameOf[o[i]] <= NameOf[o[j]]}

\* groupby(): a group starts at the head of the list and wherever the group
\* differs from that of the node before, and goes on while it is the same.
Starts(k, o) == {i \in DOMAIN o : i = 1 \/ ~SameGroup(k, o[i - 1], o[i])}
GroupFrom(k, o, i) == {j \in DOMAIN o : i <= j /\ \A l \in i..j : SameGroup(k, o[l], o[i])}

\* _get_least_recent_node(): min() returns the first of those with the least time.
LeastRecent(o, group) ==
    o[CHOOSE i \in group : \A j \in group :
        \/ lastUsed[o[i]] < lastUsed[o[j]]
        \/ lastUsed[o[i]] = lastUsed[o[j]] /\ i <= j]

\* What GroupingTopicLoadBalancer or LeastRecentLoadBalancer may return: the
\* choices of all groups, chained.
Choices(k) == {{LeastRecent(o, GroupFrom(k, o, i)) : i \in Starts(k, o)} : o \in Lists(k)}

\* A variant with a mistake: only the choices for services are remembered.
UseForServices(k, S) ==
    /\ lastUsed' = [n \in Nodes |-> IF n \in S /\ k \in Services
                                    THEN clock + NameOf[n] ELSE lastUsed[n]]
    /\ clock' = clock + NumNames

\* The groups are in the order of their names, each choice a little later.
Use(k, S) ==
    /\ lastUsed' = [n \in Nodes |-> IF n \in S THEN clock + NameOf[n] ELSE lastUsed[n]]
    /\ clock' = clock + NumNames

\* get_nodes_for_topic() or get_node_for_service(), when there is a candidate.
Choose(k) ==
    /\ candidates[k] # {}
    /\ clock + NumNames <= MaxTime
    /\ \E S \in Choices(k) :
        /\ Use(k, S)
        /\ last' = [key |-> k, nodes |-> S]
        /\ used' = used \cup S
        /\ overtook' = [j \in Keys |-> [n \in Nodes |->
                IF n \in S THEN {}
                ELSE IF j = k /\ n \in candidates[k]
                THEN overtook[j][n] \cup (S \cap Rivals(k, n))
                ELSE overtook[j][n]]]
        /\ owed' = [owed EXCEPT ![k] = [n \in Nodes |->
                IF n \in S THEN Rivals(k, n) \ {n} ELSE owed[k][n] \ S]]
    /\ UNCHANGED candidates

Next ==
    \/ SetTopology
    \/ \E k \in Keys : Choose(k)

Spec == Init /\ [][Next]_vars

----------------------------------------------------------------------------
(* Properties.  A step that moves the clock is a choice, and last' says what *)
(* was chosen.                                                               *)

\* A message goes to exactly one node of each name that listens to its topic.
OnePerName ==
    [][clock' # clock /\ last'.key \in Topics =>
        /\ last'.nodes \subseteq candidates[last'.key]
        /\ \A n \in candidates[last'.key] :
            Cardinality({m \in last'.nodes : NameOf[m] = NameOf[n]}) = 1]_vars

\* A node that just joined is chosen before any of its rivals is chosen again,
\* as the comment in LeastRecentLoadBalancer.__init__ promises.
NewNodesFirst ==
    [][clock' # clock =>
        \A n \in last'.nodes :
            n \in used => Rivals(last'.key, n) \subseteq used]_vars

\* A node that waits to be chosen is passed over by each rival at most once,
\* though all topics and services share one record and nodes come and go.
NoSecondOvertaking ==
    [][clock' # clock =>
        \A n \in candidates[last'.key] \ last'.nodes :
            last'.nodes \cap Rivals(last'.key, n) \cap overtook[last'.key][n] = {}]_vars

\* Round robin for each topic and service: a node is sent another message only
\* when all rivals that were there all along have been sent one since.
RoundRobin ==
    [][clock' # clock => \A n \in last'.nodes : owed[last'.key][n] = {}]_vars
=============================================================================
