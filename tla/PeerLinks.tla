------------------------------ MODULE PeerLinks ------------------------------
(***************************************************************************)
(* Who has which connection to whom in one process: the connections that   *)
(* PeerConnectionManager keeps, the outboxes that NodeOutboxManager keeps, *)
(* the service calls under way, and TopologyChangedHandler, which takes    *)
(* all of it down for nodes that leave the mesh.                           *)
(*                                                                         *)
(* A step is what the event loop runs between two suspensions.  What an    *)
(* outbox or a call does with a connection it got is "using" here; the     *)
(* modules Outbox and ServiceCaller have the details.                      *)
(***************************************************************************)
EXTENDS Naturals, FiniteSets

CONSTANTS
    Nodes,
    Calls,         \* service calls, each made once
    Target,        \* the node each call is made to
    Conns,         \* bound: the connections that are ever made
    MaxChanges,    \* bound: how often discovery reports another set of nodes
    NoConn,
    NoNode,
    CloseFails     \* whether wait_closed() may raise an OSError other than a
                   \* ConnectionError, such as the TimeoutError of a dead host

ASSUME LinksAssumption ==
    /\ Target \in [Calls -> Nodes]
    /\ Nodes \cap Calls = {}
    /\ NoNode \notin Nodes
    /\ NoConn \notin Conns
    /\ MaxChanges \in Nat
    /\ CloseFails \in BOOLEAN

\* Who calls get_connection(): the calls, and the task of each node's outbox,
\* for which the node stands.
Users == Nodes \cup Calls
Peer(u) == IF u \in Nodes THEN u ELSE Target[u]

VARIABLES
    found,         \* the nodes discovery knows
    changes,       \* how often they changed
    changed,       \* _topology_changed
    topology,      \* the nodes of MeshTopologyManager.topology
    handler,       \* where the handler is, for which node, and what is left
    registered,    \* the nodes of _outboxes
    cancelling,    \* the outboxes whose task is being cancelled
    pc,            \* where each user is
    conn,          \* the connection each user got
    cached,        \* _connections
    status,        \* the state of each connection
    peerOf,        \* the node each connection leads to
    excused        \* history: the nodes that were removed while get_connection()
                   \* was under way for them, or were left over by a failed removal

vars == <<found, changes, changed, topology, handler, registered, cancelling,
          pc, conn, cached, status, peerOf, excused>>

discoveryVars == <<found, changes, changed>>
handlerVars == <<topology, handler, excused>>
outboxVars == <<registered, cancelling>>
userVars == <<pc, conn>>
connVars == <<cached, status, peerOf>>

\* "broken" is closing on its own; "closed" is after close() was called.
Statuses == {"unused", "open", "broken", "closed"}
Getting == {"locking", "closing", "building"}

TypeOK ==
    /\ found \in SUBSET Nodes
    /\ changes \in 0..MaxChanges
    /\ changed \in BOOLEAN
    /\ topology \in SUBSET Nodes
    /\ handler \in [at : {"idle", "stopping", "closing"},
                    node : Nodes \cup {NoNode}, todo : SUBSET Nodes]
    /\ handler.at = "idle" <=> handler.node = NoNode
    /\ registered \in SUBSET Nodes
    /\ cancelling \in SUBSET Nodes
    /\ pc \in [Users -> Getting \cup {"none", "get", "using", "done"}]
    /\ \A n \in Nodes : pc[n] # "done"
    /\ \A c \in Calls : pc[c] # "get"
    /\ conn \in [Users -> Conns \cup {NoConn}]
    /\ \A u \in Users : pc[u] = "using" => conn[u] # NoConn
    /\ cached \in [Nodes -> Conns \cup {NoConn}]
    /\ status \in [Conns -> Statuses]
    /\ peerOf \in [Conns -> Nodes \cup {NoNode}]
    /\ excused \in SUBSET Nodes

Idle == [at |-> "idle", node |-> NoNode, todo |-> {}]

Init ==
    /\ found = {} /\ changes = 0 /\ changed = FALSE
    /\ topology = {} /\ handler = Idle
    /\ registered = {} /\ cancelling = {}
    /\ pc = [u \in Users |-> "none"]
    /\ conn = [u \in Users |-> NoConn]
    /\ cached = [n \in Nodes |-> NoConn]
    /\ status = [k \in Conns |-> "unused"]
    /\ peerOf = [k \in Conns |-> NoNode]
    /\ excused = {}

----------------------------------------------------------------------------
(* get_connection() *)

UsersOf(n) == {u \in Users : Peer(u) = n}

HasLock(u) == pc[u] \in {"closing", "building"}

\* The lock of get_connection() is given to those who wait, and only to others
\* when nobody waits.
Uncontended(n) == \A u \in UsersOf(n) : pc[u] \notin Getting

\* What get_connection() does with the lock until it returns or suspends.
Enter(u) ==
    LET n == Peer(u)
        k == cached[n]
    IN  \/ /\ k = NoConn
           /\ pc' = [pc EXCEPT ![u] = "building"]
           /\ UNCHANGED <<conn, connVars>>
        \/ /\ k # NoConn /\ status[k] = "open"
           /\ pc' = [pc EXCEPT ![u] = "using"]
           /\ conn' = [conn EXCEPT ![u] = k]
           /\ UNCHANGED connVars
        \/ /\ k # NoConn /\ status[k] # "open"
           /\ pc' = [pc EXCEPT ![u] = "closing"]
           /\ cached' = [cached EXCEPT ![n] = NoConn]
           /\ status' = [status EXCEPT ![k] = "closed"]
           /\ UNCHANGED <<conn, peerOf>>

GetConnection(u) ==
    \/ /\ Uncontended(Peer(u))
       /\ Enter(u)
    \/ /\ ~Uncontended(Peer(u))
       /\ pc' = [pc EXCEPT ![u] = "locking"]
       /\ UNCHANGED <<conn, connVars>>

\* An outbox is about to be cancelled, and its task can only end.
Running(u) == u \notin cancelling

\* A variant with a mistake: there is no lock.
AcquireUnlocked(u) ==
    /\ pc[u] = "locking" /\ Running(u)
    /\ Enter(u)
    /\ UNCHANGED <<discoveryVars, handlerVars, outboxVars>>

Acquire(u) ==
    /\ pc[u] = "locking" /\ Running(u)
    /\ \A v \in UsersOf(Peer(u)) : ~HasLock(v)
    /\ Enter(u)
    /\ UNCHANGED <<discoveryVars, handlerVars, outboxVars>>

\* The old connection has closed, with an error that is ignored or without.
Closed(u) ==
    /\ pc[u] = "closing" /\ Running(u)
    /\ pc' = [pc EXCEPT ![u] = "building"]
    /\ UNCHANGED <<discoveryVars, handlerVars, outboxVars, conn, connVars>>

Built(u) ==
    /\ pc[u] = "building" /\ Running(u)
    /\ \E k \in Conns :
        /\ status[k] = "unused"
        /\ status' = [status EXCEPT ![k] = "open"]
        /\ peerOf' = [peerOf EXCEPT ![k] = Peer(u)]
        /\ cached' = [cached EXCEPT ![Peer(u)] = k]
        /\ conn' = [conn EXCEPT ![u] = k]
    /\ pc' = [pc EXCEPT ![u] = "using"]
    /\ UNCHANGED <<discoveryVars, handlerVars, outboxVars>>

\* A variant with a mistake: an error ends the task of an outbox.
AfterErrorEnds(u) == IF u \in Nodes THEN "none" ELSE "done"

\* Where an error leaves its user: an outbox logs it and takes the next message.
AfterError(u) == IF u \in Nodes THEN "get" ELSE "done"

CannotClose(u) ==
    /\ CloseFails
    /\ pc[u] = "closing" /\ Running(u)
    /\ pc' = [pc EXCEPT ![u] = AfterError(u)]
    /\ UNCHANGED <<discoveryVars, handlerVars, outboxVars, conn, connVars>>

CannotBuild(u) ==
    /\ pc[u] = "building" /\ Running(u)
    /\ pc' = [pc EXCEPT ![u] = AfterError(u)]
    /\ UNCHANGED <<discoveryVars, handlerVars, outboxVars, conn, connVars>>

----------------------------------------------------------------------------
(* Outboxes and calls *)

\* TopicSender.send() hands the first message to a node's outbox.
CreateOutbox(n) ==
    /\ n \in topology \ registered
    /\ registered' = registered \cup {n}
    /\ pc' = [pc EXCEPT ![n] = "get"]
    /\ UNCHANGED <<discoveryVars, handlerVars, cancelling, conn, connVars>>

\* The outbox takes a message; it had at least one, and how many there are is
\* left open.
Take(n) ==
    /\ pc[n] = "get" /\ Running(n)
    /\ GetConnection(n)
    /\ UNCHANGED <<discoveryVars, handlerVars, outboxVars>>

\* The message is written, or dropped with an error.
Sent(n) ==
    /\ pc[n] = "using" /\ Running(n)
    /\ pc' = [pc EXCEPT ![n] = "get"]
    /\ UNCHANGED <<discoveryVars, handlerVars, outboxVars, conn, connVars>>

OutboxEnds(n) ==
    /\ n \in cancelling
    /\ cancelling' = cancelling \ {n}
    /\ pc' = [pc EXCEPT ![n] = "none"]
    /\ UNCHANGED <<discoveryVars, handlerVars, registered, conn, connVars>>

Call(c) ==
    /\ pc[c] = "none"
    /\ Target[c] \in topology
    /\ GetConnection(c)
    /\ UNCHANGED <<discoveryVars, handlerVars, outboxVars>>

\* The answer is there; nobody promises that it ever is.
Answered(c) ==
    /\ pc[c] = "using"
    /\ pc' = [pc EXCEPT ![c] = "done"]
    /\ UNCHANGED <<discoveryVars, handlerVars, outboxVars, conn, connVars>>

\* The response handler saw the end of the connection.
CallFails(c) ==
    /\ pc[c] = "using"
    /\ status[conn[c]] # "open"
    /\ pc' = [pc EXCEPT ![c] = "done"]
    /\ UNCHANGED <<discoveryVars, handlerVars, outboxVars, conn, connVars>>

CancelCall(c) ==
    /\ pc[c] \in Getting \cup {"using"}
    /\ pc' = [pc EXCEPT ![c] = "done"]
    /\ UNCHANGED <<discoveryVars, handlerVars, outboxVars, conn, connVars>>

\* The peer or the network breaks a connection, and the transport notices.
Break(k) ==
    /\ status[k] = "open"
    /\ status' = [status EXCEPT ![k] = "broken"]
    /\ UNCHANGED <<discoveryVars, handlerVars, outboxVars, userVars, cached, peerOf>>

----------------------------------------------------------------------------
(* Discovery and the handler *)

\* A variant with a mistake: a change that is reported while the handler runs is
\* lost, as if the event were cleared after the handler.
DiscoverUnheard ==
    /\ changes < MaxChanges
    /\ changes' = changes + 1
    /\ changed' = (handler = Idle)
    /\ found' \in SUBSET Nodes \ {found}
    /\ UNCHANGED <<handlerVars, outboxVars, userVars, connVars>>

\* What discovery knows may be back to what it was by the time it is asked.
Discover ==
    /\ changes < MaxChanges
    /\ changes' = changes + 1
    /\ changed' = TRUE
    /\ found' \in SUBSET Nodes \ {found}
    /\ UNCHANGED <<handlerVars, outboxVars, userVars, connVars>>

\* close_connection(), when there is one: the handler waits for it to close.
CloseConnection(n, todo) ==
    /\ cached[n] # NoConn
    /\ cached' = [cached EXCEPT ![n] = NoConn]
    /\ status' = [status EXCEPT ![cached[n]] = "closed"]
    /\ handler' = [at |-> "closing", node |-> n, todo |-> todo]

\* get_connection() is under way for n and may keep a connection later.
Late(S) == {n \in S : ~Uncontended(n)}

TakenDown(S) == excused' = (excused \ S) \cup Late(S)

NothingOf(n) == n \notin registered /\ cached[n] = NoConn

\* The loop over the removed nodes up to its next suspension, after it is done
\* with those passed.  Nodes without outbox and connection are passed over, and
\* the order of the rest is open.
Advance(passed, todo) ==
    \/ /\ \A n \in todo : NothingOf(n)
       /\ handler' = Idle
       /\ TakenDown(passed \cup todo)
       /\ UNCHANGED <<outboxVars, cached, status>>
    \/ \E n \in todo : \E rest \in SUBSET (todo \ {n}) :
        /\ \A m \in todo \ (rest \cup {n}) : NothingOf(m)
        /\ \/ /\ n \in registered
              /\ registered' = registered \ {n}
              /\ cancelling' = cancelling \cup {n}
              /\ handler' = [at |-> "stopping", node |-> n, todo |-> rest]
              /\ TakenDown(passed \cup (todo \ (rest \cup {n})))
              /\ UNCHANGED <<cached, status>>
           \/ /\ n \notin registered
              /\ CloseConnection(n, rest)
              /\ TakenDown(passed \cup (todo \ rest))
              /\ UNCHANGED outboxVars

HandleChange ==
    /\ changed /\ handler = Idle
    /\ changed' = FALSE
    /\ topology' = found
    /\ Advance({}, topology \ found)
    /\ UNCHANGED <<found, changes, userVars, peerOf>>

\* A variant with a mistake: the connection is left to the next get_connection().
OutboxStoppedOnly ==
    /\ handler.at = "stopping" /\ handler.node \notin cancelling
    /\ Advance({handler.node}, handler.todo)
    /\ UNCHANGED <<discoveryVars, topology, userVars, peerOf>>

\* cancel_task() returns, and the node's connection is next.
OutboxStopped ==
    /\ handler.at = "stopping" /\ handler.node \notin cancelling
    /\ \/ /\ CloseConnection(handler.node, handler.todo)
          /\ TakenDown({handler.node})
          /\ UNCHANGED outboxVars
       \/ /\ cached[handler.node] = NoConn
          /\ Advance({handler.node}, handler.todo)
    /\ UNCHANGED <<discoveryVars, topology, userVars, peerOf>>

ConnectionClosed ==
    /\ handler.at = "closing"
    /\ Advance({}, handler.todo)
    /\ UNCHANGED <<discoveryVars, topology, userVars, peerOf>>

\* The error ends the handler; the nodes it did not come to stay as they are.
ConnectionCannotClose ==
    /\ CloseFails
    /\ handler.at = "closing"
    /\ handler' = Idle
    /\ excused' = excused \cup handler.todo
    /\ UNCHANGED <<discoveryVars, topology, outboxVars, userVars, connVars>>

Next ==
    \/ \E u \in Users : \/ Acquire(u) \/ Closed(u) \/ Built(u)
                        \/ CannotClose(u) \/ CannotBuild(u)
    \/ \E n \in Nodes : CreateOutbox(n) \/ Take(n) \/ Sent(n) \/ OutboxEnds(n)
    \/ \E c \in Calls : Call(c) \/ Answered(c) \/ CallFails(c) \/ CancelCall(c)
    \/ \E k \in Conns : Break(k)
    \/ Discover \/ HandleChange \/ OutboxStopped
    \/ ConnectionClosed \/ ConnectionCannotClose

Spec == Init /\ [][Next]_vars

\* The event loop runs what is ready; sockets close and connection attempts end.
\* Whether a call is answered is up to the peer.
Fairness ==
    /\ \A u \in Users :
        /\ SF_vars(Acquire(u))
        /\ WF_vars(Closed(u) \/ CannotClose(u))
        /\ WF_vars(Built(u) \/ CannotBuild(u))
    /\ \A n \in Nodes : WF_vars(Take(n)) /\ WF_vars(Sent(n)) /\ WF_vars(OutboxEnds(n))
    /\ \A c \in Calls : WF_vars(CallFails(c))
    /\ WF_vars(HandleChange)
    /\ WF_vars(OutboxStopped)
    /\ WF_vars(ConnectionClosed \/ ConnectionCannotClose)

FairSpec == Spec /\ Fairness

----------------------------------------------------------------------------
(* Properties *)

\* A connection that nobody closed is the one kept for its node: there is never
\* a second one to the same node, and none that the handler could not find.
NoStrayConnection ==
    \A k \in Conns :
        status[k] \in {"open", "broken"} => peerOf[k] \in Nodes /\ cached[peerOf[k]] = k

\* NodeOutbox.send() never finds its task done: an outbox that can be found
\* runs, and where there is none no task is left to send next to a new one.
OutboxesRun ==
    \A n \in Nodes :
        IF n \in registered THEN pc[n] # "none" /\ n \notin cancelling
                            ELSE pc[n] = "none" \/ (n \in cancelling /\ handler.node = n)

\* Nothing stays behind for a node that left, but what get_connection() is doing
\* for it just then and what a removal that failed did not come to.
LeaversAreForgotten ==
    \A n \in Nodes \ (topology \cup handler.todo \cup {handler.node} \cup excused) :
        n \notin registered /\ cached[n] = NoConn

\* A message that finds the kept connection lost goes on to a new connection:
\* the mesh should "automatically reconnect" (README), and get_connection() is
\* tested to return a new connection when the cached one is closed.
LostIsReplaced ==
    [][\A n \in Nodes : pc[n] = "closing" => pc'[n] # "get"]_vars

\* The topology catches up with discovery, which makes MaxChanges changes at
\* most: the handler never hangs on what it takes down.
TopologyIsCurrent == <>[](topology = found)

\* A call that waits for an answer when its node leaves ends, unless the node is
\* found again before the removal, or the removal of some node fails first.
CallsToLeaversEnd ==
    \A c \in Calls :
        (pc[c] = "using" /\ Target[c] \in topology \ found)
            ~> (pc[c] = "done" \/ Target[c] \in found \cup excused)
=============================================================================
