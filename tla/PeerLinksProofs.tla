-------------------------- MODULE PeerLinksProofs --------------------------
(***************************************************************************)
(* For any nodes, calls and connections: one live connection to a node at  *)
(* most, an outbox that can be found runs, and nothing stays behind for a  *)
(* node that left but what LeaversAreForgotten excuses.                    *)
(***************************************************************************)
EXTENDS PeerLinks, TLAPS

\* One user at a time has a node's lock, and for it there is no connection kept.
LockIsExclusive ==
    \A u, v \in Users : HasLock(u) /\ HasLock(v) /\ Peer(u) = Peer(v) => u = v

HolderFoundNone == \A u \in Users : HasLock(u) => cached[Peer(u)] = NoConn

\* A kept connection leads to its node, and was not closed here.
KeptIsLive ==
    \A n \in Nodes : cached[n] # NoConn =>
        peerOf[cached[n]] = n /\ status[cached[n]] \in {"open", "broken"}

LinksInv ==
    /\ LockIsExclusive
    /\ HolderFoundNone
    /\ KeptIsLive
    /\ NoStrayConnection

\* The handler works on nodes that left, and forgets them when it is done.
HandlerOnLeavers ==
    /\ handler.at = "idle" => handler = Idle
    /\ handler.todo \cap topology = {}
    /\ handler.node \notin topology \cup handler.todo

CancelledIsHandled ==
    \A n \in cancelling : handler.at = "stopping" /\ handler.node = n /\ pc[n] # "none"

TakenFromRegistry == handler.at # "idle" => handler.node \notin registered

OutboxInv ==
    /\ HandlerOnLeavers
    /\ CancelledIsHandled
    /\ TakenFromRegistry
    /\ OutboxesRun

\* Nothing is kept for n, and nobody is about to keep anything.
Clean(n) == NothingOf(n) /\ Uncontended(n)

LeaversInv ==
    /\ \A n \in Nodes \ (topology \cup handler.todo \cup {handler.node} \cup excused) : Clean(n)
    /\ handler.at = "closing" => handler.node \in excused \/ Clean(handler.node)

IInv == TypeOK /\ LinksInv /\ OutboxInv /\ LeaversInv

----------------------------------------------------------------------------
(* What the steps are made of *)

LEMMA PeerIsNode ==
    /\ \A u \in Users : Peer(u) \in Nodes
    /\ \A n \in Nodes : n \in Users /\ Peer(n) = n
    /\ \A c \in Calls : c \in Users /\ c \notin Nodes /\ Peer(c) = Target[c]
  BY LinksAssumption DEF Users, Peer

\* get_connection() leaves its user with a live connection, or with the lock.
LEMMA EnterType ==
    ASSUME TypeOK, NEW u \in Users, Enter(u)
    PROVE  /\ pc' \in [Users -> Getting \cup {"none", "get", "using", "done"}]
           /\ \E x \in {"building", "using", "closing"} : pc' = [pc EXCEPT ![u] = x]
           /\ conn' \in [Users -> Conns \cup {NoConn}]
           /\ \A v \in Users : pc'[v] = "using" => conn'[v] # NoConn
           /\ cached' \in [Nodes -> Conns \cup {NoConn}]
           /\ status' \in [Conns -> Statuses]
           /\ peerOf' = peerOf
<1> DEFINE n == Peer(u)
           k == cached[n]
<1>1. n \in Nodes /\ k \in Conns \cup {NoConn}
  BY PeerIsNode DEF TypeOK
<1>2. CASE k = NoConn /\ pc' = [pc EXCEPT ![u] = "building"] /\ UNCHANGED <<conn, connVars>>
  BY <1>2 DEF TypeOK, connVars, Getting
<1>3. CASE k # NoConn /\ pc' = [pc EXCEPT ![u] = "using"]
           /\ conn' = [conn EXCEPT ![u] = k] /\ UNCHANGED connVars
  BY <1>1, <1>3 DEF TypeOK, connVars, Getting
<1>4. CASE /\ k # NoConn
           /\ pc' = [pc EXCEPT ![u] = "closing"]
           /\ cached' = [cached EXCEPT ![n] = NoConn]
           /\ status' = [status EXCEPT ![k] = "closed"]
           /\ UNCHANGED <<conn, peerOf>>
  BY <1>1, <1>4 DEF TypeOK, Getting, Statuses
<1> QED
  BY <1>2, <1>3, <1>4 DEF Enter

LEMMA GetConnectionType ==
    ASSUME TypeOK, NEW u \in Users, GetConnection(u)
    PROVE  /\ pc' \in [Users -> Getting \cup {"none", "get", "using", "done"}]
           /\ \E x \in Getting \cup {"using"} : pc' = [pc EXCEPT ![u] = x]
           /\ conn' \in [Users -> Conns \cup {NoConn}]
           /\ \A v \in Users : pc'[v] = "using" => conn'[v] # NoConn
           /\ cached' \in [Nodes -> Conns \cup {NoConn}]
           /\ status' \in [Conns -> Statuses]
           /\ peerOf' = peerOf
<1>1. CASE Uncontended(Peer(u)) /\ Enter(u)
  BY <1>1, EnterType DEF Getting
<1>2. CASE pc' = [pc EXCEPT ![u] = "locking"] /\ UNCHANGED <<conn, connVars>>
  BY <1>2 DEF TypeOK, connVars, Getting
<1> QED
  BY <1>1, <1>2 DEF GetConnection

LEMMA CloseType ==
    ASSUME TypeOK, NEW n \in Nodes, NEW todo \in SUBSET Nodes, CloseConnection(n, todo)
    PROVE  /\ cached' \in [Nodes -> Conns \cup {NoConn}]
           /\ status' \in [Conns -> Statuses]
           /\ handler' = [at |-> "closing", node |-> n, todo |-> todo]
           /\ handler' \in [at : {"idle", "stopping", "closing"},
                            node : Nodes \cup {NoNode}, todo : SUBSET Nodes]
           /\ handler'.node # NoNode
  BY LinksAssumption DEF CloseConnection, TypeOK, Statuses

LEMMA AdvanceType ==
    ASSUME TypeOK, NEW passed \in SUBSET Nodes, NEW todo \in SUBSET Nodes, Advance(passed, todo)
    PROVE  /\ handler' \in [at : {"idle", "stopping", "closing"},
                            node : Nodes \cup {NoNode}, todo : SUBSET Nodes]
           /\ handler'.at = "idle" <=> handler'.node = NoNode
           /\ registered' \in SUBSET Nodes
           /\ cancelling' \in SUBSET Nodes
           /\ cached' \in [Nodes -> Conns \cup {NoConn}]
           /\ status' \in [Conns -> Statuses]
           /\ excused' \in SUBSET Nodes
<1> DEFINE Goal ==
           /\ handler' \in [at : {"idle", "stopping", "closing"},
                            node : Nodes \cup {NoNode}, todo : SUBSET Nodes]
           /\ handler'.at = "idle" <=> handler'.node = NoNode
           /\ registered' \in SUBSET Nodes
           /\ cancelling' \in SUBSET Nodes
           /\ cached' \in [Nodes -> Conns \cup {NoConn}]
           /\ status' \in [Conns -> Statuses]
           /\ excused' \in SUBSET Nodes
<1>1. CASE /\ handler' = Idle
           /\ TakenDown(passed \cup todo)
           /\ UNCHANGED <<outboxVars, cached, status>>
  BY <1>1 DEF TypeOK, Idle, TakenDown, Late, outboxVars
<1>2. ASSUME NEW n \in todo, NEW rest \in SUBSET (todo \ {n}),
             registered' = registered \ {n},
             cancelling' = cancelling \cup {n},
             handler' = [at |-> "stopping", node |-> n, todo |-> rest],
             TakenDown(passed \cup (todo \ (rest \cup {n}))),
             UNCHANGED <<cached, status>>
      PROVE  Goal
  BY <1>2, LinksAssumption DEF TypeOK, TakenDown, Late
<1>3. ASSUME NEW n \in todo, NEW rest \in SUBSET (todo \ {n}),
             CloseConnection(n, rest),
             TakenDown(passed \cup (todo \ rest)),
             UNCHANGED outboxVars
      PROVE  Goal
  <2>1. n \in Nodes /\ rest \in SUBSET Nodes
    OBVIOUS
  <2>2. handler'.at = "closing"
    BY <1>3 DEF CloseConnection
  <2> QED
    BY <1>3, <2>1, <2>2, CloseType DEF TypeOK, TakenDown, Late, outboxVars
<1> QED
  BY <1>1, <1>2, <1>3 DEF Advance

----------------------------------------------------------------------------
(* Types *)

LEMMA InitIInv == Init => IInv
<1> SUFFICES ASSUME Init PROVE IInv
  OBVIOUS
<1>1. TypeOK
  <2>1. /\ handler.at = "idle" /\ handler.node = NoNode
        /\ handler \in [at : {"idle", "stopping", "closing"},
                     node : Nodes \cup {NoNode}, todo : SUBSET Nodes]
    BY DEF Init, Idle
  <2>2. /\ pc \in [Users -> Getting \cup {"none", "get", "using", "done"}]
        /\ \A u \in Users : pc[u] = "none"
    BY DEF Init
  <2>3. /\ \A n \in Nodes : pc[n] # "done"
        /\ \A c \in Calls : pc[c] # "get"
        /\ \A u \in Users : pc[u] = "using" => conn[u] # NoConn
    BY <2>2 DEF Users
  <2>4. /\ conn \in [Users -> Conns \cup {NoConn}]
        /\ cached \in [Nodes -> Conns \cup {NoConn}]
        /\ status \in [Conns -> Statuses]
        /\ peerOf \in [Conns -> Nodes \cup {NoNode}]
    BY DEF Init, Statuses
  <2>5. /\ changes \in 0..MaxChanges
        /\ found \in SUBSET Nodes /\ topology \in SUBSET Nodes
        /\ registered \in SUBSET Nodes /\ cancelling \in SUBSET Nodes
        /\ excused \in SUBSET Nodes
    BY LinksAssumption DEF Init
  <2>6. changed \in BOOLEAN
    BY Zenon DEF Init
  <2> QED
    BY <2>1, <2>2, <2>3, <2>4, <2>5, <2>6 DEF TypeOK
<1>2. LinksInv
  <2>1. \A u \in Users : ~HasLock(u)
    BY DEF Init, HasLock
  <2>2. LockIsExclusive /\ HolderFoundNone
    BY <2>1 DEF LockIsExclusive, HolderFoundNone
  <2>3. KeptIsLive /\ NoStrayConnection
    BY DEF Init, KeptIsLive, NoStrayConnection
  <2> QED
    BY <2>2, <2>3 DEF LinksInv
<1>3. OutboxInv
  BY LinksAssumption DEF Init, OutboxInv, HandlerOnLeavers, CancelledIsHandled, TakenFromRegistry, OutboxesRun, Idle, Users
<1>4. LeaversInv
  BY DEF Init, LeaversInv, Clean, NothingOf, Uncontended, UsersOf, Idle, Getting
<1> QED
  BY <1>1, <1>2, <1>3, <1>4 DEF IInv

LEMMA TypeStep == TypeOK /\ [Next]_vars => TypeOK'
<1> SUFFICES ASSUME TypeOK, [Next]_vars PROVE TypeOK'
  OBVIOUS
<1> USE DEF discoveryVars, handlerVars, outboxVars, userVars, connVars
<1>1. ASSUME NEW u \in Users, Acquire(u) PROVE TypeOK'
  <2>1. pc[u] = "locking" /\ Enter(u)
    BY <1>1 DEF Acquire
  <2>2. PICK x \in {"building", "using", "closing"} : pc' = [pc EXCEPT ![u] = x]
    BY <2>1, EnterType
  <2>3. (\A n \in Nodes : pc'[n] # "done") /\ (\A c \in Calls : pc'[c] # "get")
    BY <2>2, PeerIsNode DEF TypeOK
  <2> QED
    BY <1>1, <2>1, <2>3, EnterType DEF Acquire, TypeOK
<1>2. ASSUME NEW u \in Users, Closed(u) \/ CannotClose(u) \/ CannotBuild(u) PROVE TypeOK'
  BY <1>2, PeerIsNode DEF Closed, CannotClose, CannotBuild, AfterError, TypeOK, Getting
<1>3. ASSUME NEW u \in Users, Built(u) PROVE TypeOK'
  <2>1. PICK k \in Conns :
            /\ status' = [status EXCEPT ![k] = "open"]
            /\ peerOf' = [peerOf EXCEPT ![k] = Peer(u)]
            /\ cached' = [cached EXCEPT ![Peer(u)] = k]
            /\ conn' = [conn EXCEPT ![u] = k]
    BY <1>3 DEF Built
  <2>2. pc' = [pc EXCEPT ![u] = "using"] /\ Peer(u) \in Nodes
    BY <1>3, PeerIsNode DEF Built
  <2>3. UNCHANGED <<found, changes, changed, topology, handler, excused, registered, cancelling>>
    BY <1>3 DEF Built
  <2>4. k # NoConn
    BY LinksAssumption
  <2> QED
    BY <2>1, <2>2, <2>3, <2>4 DEF TypeOK, Statuses, Getting
<1>4. ASSUME NEW n \in Nodes, Take(n) PROVE TypeOK'
  <2>1. PICK x \in Getting \cup {"using"} : pc' = [pc EXCEPT ![n] = x]
    BY <1>4, GetConnectionType, PeerIsNode DEF Take
  <2>2. (\A m \in Nodes : pc'[m] # "done") /\ (\A c \in Calls : pc'[c] # "get")
    BY <2>1, PeerIsNode DEF TypeOK, Getting
  <2> QED
    BY <1>4, <2>2, GetConnectionType, PeerIsNode DEF Take, TypeOK
<1>5. ASSUME NEW n \in Nodes, CreateOutbox(n) \/ Sent(n) \/ OutboxEnds(n) PROVE TypeOK'
  BY <1>5, PeerIsNode DEF CreateOutbox, Sent, OutboxEnds, TypeOK, Getting
<1>6. ASSUME NEW c \in Calls, Call(c) PROVE TypeOK'
  <2>1. PICK x \in Getting \cup {"using"} : pc' = [pc EXCEPT ![c] = x]
    BY <1>6, GetConnectionType, PeerIsNode DEF Call
  <2>2. (\A m \in Nodes : pc'[m] # "done") /\ (\A d \in Calls : pc'[d] # "get")
    BY <2>1, PeerIsNode DEF TypeOK, Getting
  <2> QED
    BY <1>6, <2>2, GetConnectionType, PeerIsNode DEF Call, TypeOK
<1>7. ASSUME NEW c \in Calls, Answered(c) \/ CallFails(c) \/ CancelCall(c) PROVE TypeOK'
  BY <1>7, PeerIsNode DEF Answered, CallFails, CancelCall, TypeOK, Getting
<1>8. ASSUME NEW k \in Conns, Break(k) PROVE TypeOK'
  BY <1>8 DEF Break, TypeOK, Statuses
<1>9. CASE Discover
  BY <1>9, LinksAssumption DEF Discover, TypeOK
<1>10. CASE HandleChange
  <2>1. Advance({}, topology \ found)
    BY <1>10 DEF HandleChange
  <2> QED
    BY <1>10, <2>1, AdvanceType DEF HandleChange, TypeOK
<1>11. CASE OutboxStopped
  <2>1. handler.node \in Nodes /\ handler.todo \in SUBSET Nodes
    BY <1>11 DEF OutboxStopped, TypeOK
  <2>2. CASE CloseConnection(handler.node, handler.todo) /\ TakenDown({handler.node}) /\ UNCHANGED outboxVars
    <3>1. handler'.at = "closing"
      BY <2>2 DEF CloseConnection
    <3> QED
      BY <1>11, <2>1, <2>2, <3>1, CloseType DEF OutboxStopped, TypeOK, TakenDown, Late
  <2>3. CASE Advance({handler.node}, handler.todo)
    BY <1>11, <2>1, <2>3, AdvanceType DEF OutboxStopped, TypeOK
  <2> QED
    BY <1>11, <2>2, <2>3 DEF OutboxStopped
<1>12. CASE ConnectionClosed
  <2>1. handler.todo \in SUBSET Nodes
    BY DEF TypeOK
  <2> QED
    BY <1>12, <2>1, AdvanceType DEF ConnectionClosed, TypeOK
<1>13. CASE ConnectionCannotClose
  BY <1>13 DEF ConnectionCannotClose, TypeOK, Idle
<1>14. CASE UNCHANGED vars
  BY <1>14 DEF vars, TypeOK
<1> QED
  BY <1>1, <1>2, <1>3, <1>4, <1>5, <1>6, <1>7, <1>8, <1>9, <1>10, <1>11, <1>12, <1>13, <1>14 DEF Next

----------------------------------------------------------------------------
(* Connections *)

\* Leaving get_connection() or a connection, or any step of which connections
\* know nothing, keeps the books.
LEMMA LinksKept ==
    ASSUME LinksInv, UNCHANGED connVars,
           \A u \in Users : HasLock(u)' => HasLock(u)
    PROVE  LinksInv'
  BY DEF LinksInv, LockIsExclusive, HolderFoundNone, KeptIsLive, NoStrayConnection, connVars, HasLock

LEMMA LinksEnter ==
    ASSUME TypeOK, LinksInv, NEW u \in Users, Enter(u),
           pc[u] \notin {"closing", "building"},
           \A v \in UsersOf(Peer(u)) : ~HasLock(v)
    PROVE  LinksInv'
<1> DEFINE n == Peer(u)
           k == cached[n]
<1>1. n \in Nodes
  BY PeerIsNode
<1>2. PICK x : pc' = [pc EXCEPT ![u] = x]
  BY EnterType
<1>3. \A v \in Users : v # u => (HasLock(v)' <=> HasLock(v))
  BY <1>2 DEF HasLock, TypeOK
<1>4. \A v \in Users : HasLock(v) => Peer(v) # n
  BY DEF UsersOf
<1>5. LockIsExclusive'
  BY <1>3, <1>4 DEF LinksInv, LockIsExclusive, Peer
<1>6. CASE k = NoConn /\ UNCHANGED <<conn, connVars>>
  BY <1>3, <1>5, <1>6 DEF LinksInv, HolderFoundNone, KeptIsLive, NoStrayConnection, connVars
<1>7. CASE k # NoConn /\ pc' = [pc EXCEPT ![u] = "using"] /\ UNCHANGED connVars
  <2>1. ~HasLock(u)'
    BY <1>7 DEF HasLock, TypeOK
  <2> QED
    BY <1>3, <1>5, <1>7, <2>1 DEF LinksInv, HolderFoundNone, KeptIsLive, NoStrayConnection, connVars
<1>8. CASE /\ k # NoConn
           /\ cached' = [cached EXCEPT ![n] = NoConn]
           /\ status' = [status EXCEPT ![k] = "closed"]
           /\ UNCHANGED <<conn, peerOf>>
  <2>1. k \in Conns /\ peerOf[k] = n
    BY <1>1, <1>8 DEF TypeOK, LinksInv, KeptIsLive
  <2>2. HolderFoundNone'
    BY <1>1, <1>3, <1>8, PeerIsNode DEF LinksInv, HolderFoundNone, TypeOK, Peer
  <2>3. KeptIsLive' /\ NoStrayConnection'
    BY <1>1, <1>8, <2>1 DEF LinksInv, KeptIsLive, NoStrayConnection, TypeOK, Statuses
  <2> QED
    BY <1>5, <2>2, <2>3 DEF LinksInv
<1> QED
  BY <1>6, <1>7, <1>8 DEF Enter

LEMMA LinksGet ==
    ASSUME TypeOK, LinksInv, NEW u \in Users, GetConnection(u),
           pc[u] \notin {"closing", "building"}
    PROVE  LinksInv'
<1>1. CASE Uncontended(Peer(u)) /\ Enter(u)
  <2>1. \A v \in UsersOf(Peer(u)) : ~HasLock(v)
    BY <1>1 DEF Uncontended, Getting, HasLock
  <2> QED
    BY <1>1, <2>1, LinksEnter
<1>2. CASE pc' = [pc EXCEPT ![u] = "locking"] /\ UNCHANGED <<conn, connVars>>
  <2>1. \A v \in Users : HasLock(v)' => HasLock(v)
    BY <1>2 DEF HasLock, TypeOK
  <2> QED
    BY <1>2, <2>1, LinksKept
<1> QED
  BY <1>1, <1>2 DEF GetConnection

\* Closing a kept connection without the lock.
LEMMA LinksClose ==
    ASSUME TypeOK, LinksInv, NEW n \in Nodes, NEW todo, CloseConnection(n, todo),
           UNCHANGED <<pc, peerOf>>
    PROVE  LinksInv'
<1>1. cached[n] \in Conns /\ peerOf[cached[n]] = n
  BY DEF CloseConnection, TypeOK, LinksInv, KeptIsLive
<1>2. LockIsExclusive'
  BY DEF LinksInv, LockIsExclusive, HasLock, Peer
<1>3. HolderFoundNone'
  BY PeerIsNode DEF LinksInv, HolderFoundNone, HasLock, CloseConnection, TypeOK, Peer
<1>4. KeptIsLive' /\ NoStrayConnection'
  BY <1>1 DEF LinksInv, KeptIsLive, NoStrayConnection, CloseConnection, TypeOK, Statuses
<1> QED
  BY <1>2, <1>3, <1>4 DEF LinksInv

LEMMA LinksAdvance ==
    ASSUME TypeOK, LinksInv, NEW passed, NEW todo \in SUBSET Nodes,
           Advance(passed, todo), UNCHANGED <<pc, peerOf>>
    PROVE  LinksInv'
<1>1. CASE UNCHANGED <<cached, status>>
  BY <1>1, LinksKept DEF connVars, HasLock
<1>2. ASSUME NEW n \in todo, NEW rest, CloseConnection(n, rest) PROVE LinksInv'
  <2>1. n \in Nodes
    OBVIOUS
  <2> QED
    BY <1>2, <2>1, LinksClose
<1> QED
  BY <1>1, <1>2 DEF Advance

LEMMA LinksStep == TypeOK /\ LinksInv /\ [Next]_vars => LinksInv'
<1> SUFFICES ASSUME TypeOK, LinksInv, [Next]_vars PROVE LinksInv'
  OBVIOUS
<1> USE DEF discoveryVars, handlerVars, outboxVars, userVars
<1>1. ASSUME NEW u \in Users, Acquire(u) PROVE LinksInv'
  BY <1>1, LinksEnter DEF Acquire
<1>2. ASSUME NEW u \in Users, Closed(u) PROVE LinksInv'
  <2>1. \A v \in Users : HasLock(v)' => HasLock(v)
    BY <1>2 DEF Closed, HasLock, TypeOK
  <2> QED
    BY <1>2, <2>1, LinksKept DEF Closed
<1>3. ASSUME NEW u \in Users, CannotClose(u) \/ CannotBuild(u) PROVE LinksInv'
  <2>1. \A v \in Users : HasLock(v)' => HasLock(v)
    BY <1>3 DEF CannotClose, CannotBuild, AfterError, HasLock, TypeOK
  <2> QED
    BY <1>3, <2>1, LinksKept DEF CannotClose, CannotBuild
<1>4. ASSUME NEW u \in Users, Built(u) PROVE LinksInv'
  <2> DEFINE n == Peer(u)
  <2>1. PICK k \in Conns :
            /\ status[k] = "unused"
            /\ status' = [status EXCEPT ![k] = "open"]
            /\ peerOf' = [peerOf EXCEPT ![k] = n]
            /\ cached' = [cached EXCEPT ![n] = k]
    BY <1>4 DEF Built
  <2>2. n \in Nodes /\ HasLock(u) /\ k # NoConn
    BY <1>4, PeerIsNode, LinksAssumption DEF Built, HasLock
  <2>3. cached[n] = NoConn
    BY <2>2 DEF LinksInv, HolderFoundNone
  <2>4. ~HasLock(u)' /\ \A v \in Users : v # u => (HasLock(v)' <=> HasLock(v))
    BY <1>4 DEF Built, HasLock, TypeOK
  <2>5. LockIsExclusive'
    BY <2>4 DEF LinksInv, LockIsExclusive, Peer
  <2>6. HolderFoundNone'
    BY <2>1, <2>2, <2>4, PeerIsNode DEF LinksInv, LockIsExclusive, HolderFoundNone, TypeOK, Peer
  <2>7. KeptIsLive'
    BY <2>1, <2>2 DEF LinksInv, KeptIsLive, TypeOK
  <2>8. NoStrayConnection'
    BY <2>1, <2>2, <2>3, LinksAssumption DEF LinksInv, NoStrayConnection, TypeOK
  <2> QED
    BY <2>5, <2>6, <2>7, <2>8 DEF LinksInv
<1>5. ASSUME NEW n \in Nodes, Take(n) PROVE LinksInv'
  BY <1>5, LinksGet, PeerIsNode DEF Take
<1>6. ASSUME NEW n \in Nodes, CreateOutbox(n) \/ Sent(n) \/ OutboxEnds(n) PROVE LinksInv'
  <2>1. \A v \in Users : HasLock(v)' => HasLock(v)
    BY <1>6 DEF CreateOutbox, Sent, OutboxEnds, HasLock, TypeOK
  <2> QED
    BY <1>6, <2>1, LinksKept DEF CreateOutbox, Sent, OutboxEnds
<1>7. ASSUME NEW c \in Calls, Call(c) PROVE LinksInv'
  BY <1>7, LinksGet, PeerIsNode DEF Call
<1>8. ASSUME NEW c \in Calls, Answered(c) \/ CallFails(c) \/ CancelCall(c) PROVE LinksInv'
  <2>1. \A v \in Users : HasLock(v)' => HasLock(v)
    BY <1>8 DEF Answered, CallFails, CancelCall, HasLock, TypeOK
  <2> QED
    BY <1>8, <2>1, LinksKept DEF Answered, CallFails, CancelCall
<1>9. ASSUME NEW k \in Conns, Break(k) PROVE LinksInv'
  BY <1>9 DEF Break, LinksInv, LockIsExclusive, HolderFoundNone, KeptIsLive, NoStrayConnection, HasLock, Peer, TypeOK, Statuses
<1>10. CASE Discover \/ ConnectionCannotClose \/ UNCHANGED vars
  BY <1>10, LinksKept DEF Discover, ConnectionCannotClose, vars, connVars, HasLock
<1>11. CASE HandleChange
  <2>1. topology \ found \in SUBSET Nodes
    BY DEF TypeOK
  <2> QED
    BY <1>11, <2>1, LinksAdvance DEF HandleChange
<1>12. CASE OutboxStopped
  <2>1. handler.node \in Nodes /\ handler.todo \in SUBSET Nodes
    BY <1>12 DEF OutboxStopped, TypeOK
  <2> QED
    BY <1>12, <2>1, LinksAdvance, LinksClose DEF OutboxStopped
<1>13. CASE ConnectionClosed
  <2>1. handler.todo \in SUBSET Nodes
    BY DEF TypeOK
  <2> QED
    BY <1>13, <2>1, LinksAdvance DEF ConnectionClosed
<1> QED
  BY <1>1, <1>2, <1>3, <1>4, <1>5, <1>6, <1>7, <1>8, <1>9, <1>10, <1>11, <1>12, <1>13 DEF Next

----------------------------------------------------------------------------
(* Outboxes *)

\* Steps of users that neither start nor end an outbox, nor move the handler.
LEMMA OutboxKept ==
    ASSUME OutboxInv, UNCHANGED <<topology, handler, registered, cancelling>>,
           \A n \in Nodes : pc'[n] = "none" <=> pc[n] = "none",
           cancelling \in SUBSET Nodes
    PROVE  OutboxInv'
  BY DEF OutboxInv, HandlerOnLeavers, CancelledIsHandled, TakenFromRegistry, OutboxesRun

\* Nothing is being cancelled when the handler goes on, and all nodes it went
\* through are without an outbox.
LEMMA OutboxAdvance ==
    ASSUME TypeOK, LinksAssumption, cancelling = {}, NEW passed, NEW todo \in SUBSET Nodes,
           \A n \in Nodes : n \in registered <=> pc[n] # "none",
           todo \cap topology' = {}, topology' \in SUBSET Nodes,
           Advance(passed, todo), UNCHANGED pc
    PROVE  OutboxInv'
<1>1. CASE handler' = Idle /\ UNCHANGED outboxVars
  <2>1. HandlerOnLeavers' /\ TakenFromRegistry' /\ NoNode \notin topology'
    BY <1>1, LinksAssumption DEF Idle, HandlerOnLeavers, TakenFromRegistry
  <2> QED
    BY <1>1, <2>1 DEF OutboxInv, CancelledIsHandled, OutboxesRun, outboxVars
<1>2. ASSUME NEW n \in todo, NEW rest \in SUBSET (todo \ {n}), n \in registered,
             registered' = registered \ {n}, cancelling' = cancelling \cup {n},
             handler' = [at |-> "stopping", node |-> n, todo |-> rest]
      PROVE  OutboxInv'
  BY <1>2 DEF OutboxInv, HandlerOnLeavers, CancelledIsHandled, TakenFromRegistry, OutboxesRun
<1>3. ASSUME NEW n \in todo, NEW rest \in SUBSET (todo \ {n}), n \notin registered,
             CloseConnection(n, rest), UNCHANGED outboxVars
      PROVE  OutboxInv'
  BY <1>3 DEF CloseConnection, OutboxInv, HandlerOnLeavers, CancelledIsHandled, TakenFromRegistry, OutboxesRun, outboxVars
<1> QED
  BY <1>1, <1>2, <1>3 DEF Advance

\* Without a cancellation under way, who is registered is who runs.
LEMMA RegisteredRuns ==
    ASSUME OutboxInv, cancelling = {}
    PROVE  \A n \in Nodes : n \in registered <=> pc[n] # "none"
  BY DEF OutboxInv, OutboxesRun

LEMMA OutboxStep == TypeOK /\ OutboxInv /\ [Next]_vars => OutboxInv'
<1> SUFFICES ASSUME TypeOK, OutboxInv, [Next]_vars PROVE OutboxInv'
  OBVIOUS
<1> USE DEF discoveryVars, handlerVars
<1>1. ASSUME NEW u \in Users,
             Acquire(u) \/ Closed(u) \/ Built(u) \/ CannotClose(u) \/ CannotBuild(u)
      PROVE  OutboxInv'
  <2>1. PICK x : pc' = [pc EXCEPT ![u] = x] /\ (u \in Nodes => x # "none")
    BY <1>1, EnterType DEF Acquire, Closed, Built, CannotClose, CannotBuild, AfterError
  <2>2. pc[u] # "none"
    BY <1>1 DEF Acquire, Closed, Built, CannotClose, CannotBuild
  <2>3. \A n \in Nodes : pc'[n] = "none" <=> pc[n] = "none"
    BY <2>1, <2>2, PeerIsNode DEF TypeOK
  <2>4. UNCHANGED <<topology, handler, registered, cancelling>>
    BY <1>1 DEF Acquire, Closed, Built, CannotClose, CannotBuild, outboxVars
  <2> QED
    BY <2>3, <2>4, OutboxKept DEF TypeOK
<1>2. ASSUME NEW n \in Nodes, Take(n) \/ Sent(n) PROVE OutboxInv'
  <2>1. PICK x : pc' = [pc EXCEPT ![n] = x] /\ x # "none"
    BY <1>2, GetConnectionType, PeerIsNode DEF Take, Sent, Getting
  <2>2. \A m \in Nodes : pc'[m] = "none" <=> pc[m] = "none"
    BY <1>2, <2>1, PeerIsNode DEF TypeOK, Take, Sent
  <2> QED
    BY <1>2, <2>2, OutboxKept DEF Take, Sent, outboxVars, TypeOK
<1>3. ASSUME NEW n \in Nodes, CreateOutbox(n) PROVE OutboxInv'
  <2>1. n \in topology \ registered /\ n \notin cancelling
    BY <1>3 DEF CreateOutbox, OutboxInv, CancelledIsHandled, HandlerOnLeavers
  <2>2. \A m \in Nodes : pc'[m] = IF m = n THEN "get" ELSE pc[m]
    BY <1>3, PeerIsNode DEF CreateOutbox, TypeOK
  <2> QED
    BY <1>3, <2>1, <2>2 DEF CreateOutbox, OutboxInv, HandlerOnLeavers, CancelledIsHandled, TakenFromRegistry, OutboxesRun, TypeOK
<1>4. ASSUME NEW n \in Nodes, OutboxEnds(n) PROVE OutboxInv'
  <2>1. n \in cancelling /\ handler.at = "stopping" /\ handler.node = n /\ n \notin registered
    BY <1>4 DEF OutboxEnds, OutboxInv, CancelledIsHandled, TakenFromRegistry
  <2>2. \A m \in Nodes : pc'[m] = IF m = n THEN "none" ELSE pc[m]
    BY <1>4, PeerIsNode DEF OutboxEnds, TypeOK
  <2> QED
    BY <1>4, <2>1, <2>2 DEF OutboxEnds, OutboxInv, HandlerOnLeavers, CancelledIsHandled, TakenFromRegistry, OutboxesRun, TypeOK
<1>5. ASSUME NEW c \in Calls, Call(c) \/ Answered(c) \/ CallFails(c) \/ CancelCall(c) PROVE OutboxInv'
  <2>1. PICK x : pc' = [pc EXCEPT ![c] = x]
    BY <1>5, GetConnectionType, PeerIsNode DEF Call, Answered, CallFails, CancelCall
  <2>2. \A m \in Nodes : pc'[m] = pc[m]
    BY <2>1, PeerIsNode DEF TypeOK
  <2> QED
    BY <1>5, <2>2, OutboxKept DEF Call, Answered, CallFails, CancelCall, outboxVars, TypeOK
<1>6. CASE Discover \/ (\E k \in Conns : Break(k)) \/ UNCHANGED vars
  BY <1>6, OutboxKept DEF Discover, Break, vars, userVars, outboxVars, TypeOK
<1>7. CASE HandleChange
  <2>1. cancelling = {} /\ topology \ found \in SUBSET Nodes /\ topology' = found /\ found \in SUBSET Nodes
    BY <1>7 DEF HandleChange, OutboxInv, CancelledIsHandled, Idle, TypeOK
  <2> QED
    BY <1>7, <2>1, RegisteredRuns, OutboxAdvance, LinksAssumption DEF HandleChange, userVars
<1>8. CASE OutboxStopped
  <2>1. cancelling = {} /\ handler.node \in Nodes /\ handler.todo \in SUBSET Nodes
    BY <1>8 DEF OutboxStopped, OutboxInv, CancelledIsHandled, TypeOK
  <2>2. handler.todo \cap topology' = {} /\ topology' = topology /\ topology \in SUBSET Nodes
    BY <1>8 DEF OutboxStopped, OutboxInv, HandlerOnLeavers, TypeOK
  <2>3. CASE CloseConnection(handler.node, handler.todo) /\ UNCHANGED outboxVars
    BY <1>8, <2>1, <2>2, <2>3 DEF OutboxStopped, CloseConnection, userVars, outboxVars,
        OutboxInv, HandlerOnLeavers, CancelledIsHandled, TakenFromRegistry, OutboxesRun
  <2>4. CASE Advance({handler.node}, handler.todo)
    BY <1>8, <2>1, <2>2, <2>4, RegisteredRuns, OutboxAdvance, LinksAssumption DEF OutboxStopped, userVars
  <2> QED
    BY <1>8, <2>3, <2>4 DEF OutboxStopped
<1>9. CASE ConnectionClosed
  <2>1. /\ cancelling = {} /\ handler.todo \in SUBSET Nodes
        /\ handler.todo \cap topology' = {} /\ topology' \in SUBSET Nodes
    BY <1>9 DEF ConnectionClosed, OutboxInv, CancelledIsHandled, HandlerOnLeavers, TypeOK
  <2> QED
    BY <1>9, <2>1, RegisteredRuns, OutboxAdvance, LinksAssumption DEF ConnectionClosed, userVars
<1>10. CASE ConnectionCannotClose
  <2>1. cancelling = {}
    BY <1>10 DEF ConnectionCannotClose, OutboxInv, CancelledIsHandled
  <2>2. handler' = Idle /\ UNCHANGED <<topology, registered, cancelling, pc>>
    BY <1>10 DEF ConnectionCannotClose, outboxVars, userVars
  <2>3. NoNode \notin topology
    BY LinksAssumption DEF TypeOK
  <2>4. HandlerOnLeavers' /\ TakenFromRegistry'
    BY <2>2, <2>3 DEF HandlerOnLeavers, TakenFromRegistry, Idle
  <2> QED
    BY <2>1, <2>2, <2>4 DEF OutboxInv, CancelledIsHandled, OutboxesRun
<1> QED
  BY <1>1, <1>2, <1>3, <1>4, <1>5, <1>6, <1>7, <1>8, <1>9, <1>10 DEF Next

----------------------------------------------------------------------------
(* Leavers *)

\* A step that registers no outbox, keeps no connection and starts nothing for
\* nodes that were clean leaves them clean.
LEMMA LeaversKept ==
    ASSUME TypeOK, OutboxInv, LeaversInv, UNCHANGED <<topology, handler, excused>>,
           \A n \in Nodes \ topology : Clean(n) => Clean(n)'
    PROVE  LeaversInv'
<1>1. handler.at = "closing" => handler.node \in Nodes \ topology
  BY DEF TypeOK, OutboxInv, HandlerOnLeavers
<1>2. handler.at = "closing" /\ Clean(handler.node) => Clean(handler.node)'
  BY <1>1
<1> QED
  BY <1>2 DEF LeaversInv

LEMMA LeaversAdvance ==
    ASSUME TypeOK, NEW passed \in SUBSET Nodes, NEW todo \in SUBSET Nodes,
           Advance(passed, todo), UNCHANGED pc,
           \A n \in passed : NothingOf(n),
           \A n \in Nodes \ (topology' \cup passed \cup todo \cup excused) : Clean(n)
    PROVE  LeaversInv'
<1>1. CASE /\ \A n \in todo : NothingOf(n)
           /\ handler' = Idle
           /\ TakenDown(passed \cup todo)
           /\ UNCHANGED <<outboxVars, cached, status>>
  BY <1>1 DEF LeaversInv, Clean, NothingOf, Uncontended, TakenDown, Late, Idle, outboxVars, UsersOf, Peer
<1>2. ASSUME NEW n \in todo, NEW rest \in SUBSET (todo \ {n}),
             \A m \in todo \ (rest \cup {n}) : NothingOf(m),
             registered' = registered \ {n},
             handler' = [at |-> "stopping", node |-> n, todo |-> rest],
             TakenDown(passed \cup (todo \ (rest \cup {n}))),
             UNCHANGED <<cached, status>>
      PROVE  LeaversInv'
  BY <1>2 DEF LeaversInv, Clean, NothingOf, Uncontended, TakenDown, Late, UsersOf, Peer
<1>3. ASSUME NEW n \in todo, NEW rest \in SUBSET (todo \ {n}),
             \A m \in todo \ (rest \cup {n}) : NothingOf(m),
             n \notin registered,
             CloseConnection(n, rest),
             TakenDown(passed \cup (todo \ rest)),
             UNCHANGED outboxVars
      PROVE  LeaversInv'
  BY <1>3 DEF LeaversInv, Clean, NothingOf, Uncontended, TakenDown, Late, CloseConnection, outboxVars, UsersOf, Peer, TypeOK
<1> QED
  BY <1>1, <1>2, <1>3 DEF Advance

LEMMA LeaversStep == TypeOK /\ OutboxInv /\ LeaversInv /\ [Next]_vars => LeaversInv'
<1> SUFFICES ASSUME TypeOK, OutboxInv, LeaversInv, [Next]_vars PROVE LeaversInv'
  OBVIOUS
<1> USE DEF discoveryVars, handlerVars
<1>1. ASSUME NEW u \in Users,
             Acquire(u) \/ Closed(u) \/ Built(u) \/ CannotClose(u) \/ CannotBuild(u)
      PROVE  LeaversInv'
  <2>1. pc[u] \in Getting
    BY <1>1 DEF Acquire, Closed, Built, CannotClose, CannotBuild, Getting
  <2>2. \A n \in Nodes : Clean(n) => n # Peer(u)
    BY <2>1 DEF Clean, Uncontended, UsersOf
  <2>3. \A v \in Users : v # u => pc'[v] = pc[v]
    BY <1>1, EnterType DEF Acquire, Closed, Built, CannotClose, CannotBuild, TypeOK
  <2>4. \A n \in Nodes : n # Peer(u) => cached'[n] = cached[n]
    BY <1>1 DEF Acquire, Enter, Closed, Built, CannotClose, CannotBuild, TypeOK, connVars
  <2>5. UNCHANGED <<topology, handler, excused, registered>>
    BY <1>1 DEF Acquire, Closed, Built, CannotClose, CannotBuild, outboxVars
  <2>6. \A n \in Nodes : Clean(n) => Clean(n)'
    BY <2>2, <2>3, <2>4, <2>5 DEF Clean, NothingOf, Uncontended, UsersOf, Peer
  <2> QED
    BY <2>5, <2>6, LeaversKept
<1>2. ASSUME NEW n \in Nodes, Take(n) PROVE LeaversInv'
  <2>1. n \in registered
    BY <1>2 DEF Take, OutboxInv, OutboxesRun, Running
  <2>2. \A v \in Users : v # n => pc'[v] = pc[v]
    BY <1>2, GetConnectionType, PeerIsNode DEF Take, TypeOK
  <2>3. \A m \in Nodes : m # n => cached'[m] = cached[m]
    BY <1>2, PeerIsNode DEF Take, GetConnection, Enter, TypeOK, connVars
  <2>4. \A m \in Nodes : Clean(m) => Clean(m)'
    BY <1>2, <2>1, <2>2, <2>3, PeerIsNode DEF Take, outboxVars, Clean, NothingOf, Uncontended, UsersOf, Peer
  <2> QED
    BY <1>2, <2>4, LeaversKept DEF Take
<1>3. ASSUME NEW n \in Nodes, CreateOutbox(n) PROVE LeaversInv'
  <2>1. \A v \in Users : pc'[v] = IF v = n THEN "get" ELSE pc[v]
    BY <1>3, PeerIsNode DEF CreateOutbox, TypeOK
  <2>2. \A m \in Nodes \ topology : Clean(m) => Clean(m)'
    BY <1>3, <2>1 DEF CreateOutbox, Clean, NothingOf, Uncontended, UsersOf, Peer, Getting, connVars
  <2> QED
    BY <1>3, <2>2, LeaversKept DEF CreateOutbox
<1>4. ASSUME NEW n \in Nodes, Sent(n) \/ OutboxEnds(n) PROVE LeaversInv'
  <2>1. \A v \in Users : pc'[v] = pc[v] \/ pc'[v] \in {"get", "none"}
    BY <1>4, PeerIsNode DEF Sent, OutboxEnds, TypeOK
  <2>2. \A m \in Nodes : Clean(m) => Clean(m)'
    BY <1>4, <2>1 DEF Sent, OutboxEnds, outboxVars, Clean, NothingOf, Uncontended, UsersOf, Peer, Getting, connVars
  <2> QED
    BY <1>4, <2>2, LeaversKept DEF Sent, OutboxEnds
<1>5. ASSUME NEW c \in Calls, Call(c) PROVE LeaversInv'
  <2>1. Peer(c) \in topology
    BY <1>5, PeerIsNode DEF Call
  <2>2. \A v \in Users : v # c => pc'[v] = pc[v]
    BY <1>5, GetConnectionType, PeerIsNode DEF Call, TypeOK
  <2>3. \A m \in Nodes : m # Peer(c) => cached'[m] = cached[m]
    BY <1>5, PeerIsNode DEF Call, GetConnection, Enter, TypeOK, connVars
  <2>4. \A m \in Nodes \ topology : Clean(m) => Clean(m)'
    BY <1>5, <2>1, <2>2, <2>3 DEF Call, outboxVars, Clean, NothingOf, Uncontended, UsersOf, Peer
  <2> QED
    BY <1>5, <2>4, LeaversKept DEF Call
<1>6. ASSUME NEW c \in Calls, Answered(c) \/ CallFails(c) \/ CancelCall(c) PROVE LeaversInv'
  <2>1. \A v \in Users : pc'[v] = pc[v] \/ pc'[v] = "done"
    BY <1>6, PeerIsNode DEF Answered, CallFails, CancelCall, TypeOK
  <2>2. \A m \in Nodes : Clean(m) => Clean(m)'
    BY <1>6, <2>1 DEF Answered, CallFails, CancelCall, outboxVars, Clean, NothingOf, Uncontended, UsersOf, Peer, Getting, connVars
  <2> QED
    BY <1>6, <2>2, LeaversKept DEF Answered, CallFails, CancelCall
<1>7. CASE Discover \/ (\E k \in Conns : Break(k)) \/ UNCHANGED vars
  <2>1. \A m \in Nodes : Clean(m) => Clean(m)'
    BY <1>7 DEF Discover, Break, vars, outboxVars, userVars, connVars, Clean, NothingOf, Uncontended, UsersOf, Peer
  <2> QED
    BY <1>7, <2>1, LeaversKept DEF Discover, Break, vars
<1>8. CASE HandleChange
  <2>1. topology \ found \in SUBSET Nodes /\ topology' = found
    BY <1>8 DEF HandleChange, TypeOK
  <2>2. \A n \in Nodes \ (topology \cup excused) : Clean(n)
    BY <1>8, LinksAssumption DEF HandleChange, LeaversInv, Idle
  <2> QED
    BY <1>8, <2>1, <2>2, LeaversAdvance DEF HandleChange, userVars
<1>9. CASE OutboxStopped
  <2> DEFINE n == handler.node
  <2>1. n \in Nodes /\ handler.todo \in SUBSET Nodes /\ topology' = topology
    BY <1>9 DEF OutboxStopped, TypeOK
  <2>2. n \notin registered
    BY <1>9 DEF OutboxStopped, OutboxInv, TakenFromRegistry
  <2>3. \A m \in Nodes \ (topology \cup handler.todo \cup {n} \cup excused) : Clean(m)
    BY DEF LeaversInv
  <2>4. CASE CloseConnection(n, handler.todo) /\ TakenDown({n}) /\ UNCHANGED outboxVars
    BY <1>9, <2>1, <2>2, <2>3, <2>4 DEF OutboxStopped, LeaversInv, Clean, NothingOf, Uncontended,
        TakenDown, Late, CloseConnection, outboxVars, userVars, UsersOf, Peer, TypeOK
  <2>5. CASE cached[n] = NoConn /\ Advance({n}, handler.todo)
    <3>1. \A m \in {n} : NothingOf(m)
      BY <2>2, <2>5 DEF NothingOf
    <3>2. {n} \in SUBSET Nodes
      BY <2>1
    <3> QED
      BY <1>9, <2>1, <2>3, <2>5, <3>1, <3>2, LeaversAdvance DEF OutboxStopped, userVars
  <2> QED
    BY <1>9, <2>4, <2>5 DEF OutboxStopped
<1>10. CASE ConnectionClosed
  <2>1. handler.todo \in SUBSET Nodes /\ topology' = topology
    BY <1>10 DEF ConnectionClosed, TypeOK
  <2>2. \A m \in Nodes \ (topology \cup handler.todo \cup excused) : Clean(m)
    BY <1>10 DEF ConnectionClosed, LeaversInv
  <2> QED
    BY <1>10, <2>1, <2>2, LeaversAdvance DEF ConnectionClosed, userVars
<1>11. CASE ConnectionCannotClose
  <2>1. \A m \in Nodes \ (topology \cup handler.todo \cup excused) : Clean(m)
    BY <1>11 DEF ConnectionCannotClose, LeaversInv
  <2>2. \A m \in Nodes : Clean(m) => Clean(m)'
    BY <1>11 DEF ConnectionCannotClose, outboxVars, userVars, connVars, Clean, NothingOf, Uncontended, UsersOf, Peer
  <2>3. handler'.at = "idle" /\ handler'.todo = {}
    BY <1>11 DEF ConnectionCannotClose, Idle
  <2> QED
    BY <1>11, <2>1, <2>2, <2>3 DEF ConnectionCannotClose, LeaversInv
<1> QED
  BY <1>1, <1>2, <1>3, <1>4, <1>5, <1>6, <1>7, <1>8, <1>9, <1>10, <1>11 DEF Next

----------------------------------------------------------------------------
(* Connections in use *)

\* What get_connection() returned leads to the user's node.
UsedLeads ==
    \A u \in Users : pc[u] = "using" =>
        conn[u] \in Conns /\ peerOf[conn[u]] = Peer(u) /\ status[conn[u]] # "unused"

\* Connections that are in use stay what they are, and nobody gets another one.
LEMMA UsedKept ==
    ASSUME TypeOK, UsedLeads,
           \A u \in Users : pc'[u] = "using" => pc[u] = "using" /\ conn'[u] = conn[u],
           \A k \in Conns : status[k] # "unused" =>
                            status'[k] # "unused" /\ peerOf'[k] = peerOf[k]
    PROVE  UsedLeads'
BY DEF UsedLeads, Peer

LEMMA UsedEnter ==
    ASSUME TypeOK, LinksInv, UsedLeads, NEW u \in Users, Enter(u)
    PROVE  UsedLeads'
<1> DEFINE n == Peer(u)
           k == cached[n]
<1>1. n \in Nodes /\ k \in Conns \cup {NoConn}
  BY PeerIsNode DEF TypeOK
<1>2. \A v \in Users : v # u => pc'[v] = pc[v] /\ conn'[v] = conn[v]
  BY DEF Enter, TypeOK
<1>3. peerOf' = peerOf /\ \A x \in Conns : status[x] # "unused" => status'[x] # "unused"
  BY <1>1 DEF Enter, connVars, TypeOK
<1>4. pc'[u] = "using" => conn'[u] = k /\ k \in Conns /\ peerOf[k] = n /\ status[k] # "unused"
  BY <1>1 DEF Enter, TypeOK, LinksInv, KeptIsLive
<1> QED
  BY <1>2, <1>3, <1>4 DEF UsedLeads, Peer

LEMMA UsedGet ==
    ASSUME TypeOK, LinksInv, UsedLeads, NEW u \in Users, GetConnection(u)
    PROVE  UsedLeads'
<1>1. CASE pc' = [pc EXCEPT ![u] = "locking"] /\ UNCHANGED <<conn, connVars>>
  BY <1>1, UsedKept DEF TypeOK, connVars
<1> QED
  BY <1>1, UsedEnter DEF GetConnection

LEMMA UsedStep == TypeOK /\ LinksInv /\ UsedLeads /\ [Next]_vars => UsedLeads'
<1> SUFFICES ASSUME TypeOK, LinksInv, UsedLeads, [Next]_vars PROVE UsedLeads'
  OBVIOUS
<1> USE DEF connVars, userVars, outboxVars, handlerVars, discoveryVars
<1>1. ASSUME NEW u \in Users, Acquire(u) PROVE UsedLeads'
  BY <1>1, UsedEnter DEF Acquire
<1>2. ASSUME NEW u \in Users, Closed(u) \/ CannotClose(u) \/ CannotBuild(u) PROVE UsedLeads'
  BY <1>2, UsedKept DEF Closed, CannotClose, CannotBuild, AfterError, TypeOK
<1>3. ASSUME NEW u \in Users, Built(u) PROVE UsedLeads'
  <2>1. PICK k \in Conns :
            /\ status[k] = "unused"
            /\ status' = [status EXCEPT ![k] = "open"]
            /\ peerOf' = [peerOf EXCEPT ![k] = Peer(u)]
            /\ conn' = [conn EXCEPT ![u] = k]
    BY <1>3 DEF Built
  <2>2. pc' = [pc EXCEPT ![u] = "using"] /\ Peer(u) \in Nodes
    BY <1>3, PeerIsNode DEF Built
  <2> QED
    BY <2>1, <2>2 DEF UsedLeads, TypeOK, Peer
<1>4. ASSUME NEW n \in Nodes, Take(n) PROVE UsedLeads'
  BY <1>4, UsedGet, PeerIsNode DEF Take
<1>5. ASSUME NEW n \in Nodes, CreateOutbox(n) \/ Sent(n) \/ OutboxEnds(n) PROVE UsedLeads'
  BY <1>5, UsedKept, PeerIsNode DEF CreateOutbox, Sent, OutboxEnds, TypeOK
<1>6. ASSUME NEW c \in Calls, Call(c) PROVE UsedLeads'
  BY <1>6, UsedGet, PeerIsNode DEF Call
<1>7. ASSUME NEW c \in Calls, Answered(c) \/ CallFails(c) \/ CancelCall(c) PROVE UsedLeads'
  BY <1>7, UsedKept, PeerIsNode DEF Answered, CallFails, CancelCall, TypeOK
<1>8. ASSUME NEW k \in Conns, Break(k) PROVE UsedLeads'
  BY <1>8, UsedKept DEF Break, TypeOK
<1>9. CASE Discover \/ ConnectionCannotClose \/ UNCHANGED vars
  BY <1>9, UsedKept DEF Discover, ConnectionCannotClose, vars
<1>10. CASE HandleChange \/ OutboxStopped \/ ConnectionClosed
  <2>1. UNCHANGED <<pc, conn, peerOf>>
    BY <1>10 DEF HandleChange, OutboxStopped, ConnectionClosed
  <2>2. \A k \in Conns : status[k] # "unused" => status'[k] # "unused"
    <3>1. status' = status \/ \E n, todo : CloseConnection(n, todo)
      BY <1>10 DEF HandleChange, OutboxStopped, ConnectionClosed, Advance
    <3>2. ASSUME NEW n, NEW todo, CloseConnection(n, todo)
          PROVE  \A k \in Conns : status[k] # "unused" => status'[k] # "unused"
      BY <3>2 DEF CloseConnection, TypeOK
    <3> QED
      BY <3>1, <3>2
  <2> QED
    BY <2>1, <2>2, UsedKept
<1> QED
  BY <1>1, <1>2, <1>3, <1>4, <1>5, <1>6, <1>7, <1>8, <1>9, <1>10 DEF Next

----------------------------------------------------------------------------
(* Results *)

LEMMA AlwaysIInv == Spec => []IInv
<1>1. IInv /\ [Next]_vars => IInv'
  BY TypeStep, LinksStep, OutboxStep, LeaversStep DEF IInv
<1> QED
  BY <1>1, InitIInv, PTL DEF Spec

\* Type correctness of links, registry and handler.
THEOREM TypeCorrect == Spec => []TypeOK
<1>1. IInv => TypeOK
  BY DEF IInv
<1> QED
  BY <1>1, AlwaysIInv, PTL

\* Whatever get_connection() is asked for by outboxes and calls, and wherever
\* they are cancelled while the handler closes connections without the lock, each
\* live connection is the only one to its node and the one kept for it.
THEOREM NeverStrayConnection == Spec => []NoStrayConnection
<1>1. IInv => NoStrayConnection
  BY DEF IInv, LinksInv
<1> QED
  BY <1>1, AlwaysIInv, PTL

\* send() never finds an outbox whose task is done.
THEOREM OutboxesAlwaysRun == Spec => []OutboxesRun
<1>1. IInv => OutboxesRun
  BY DEF IInv, OutboxInv
<1> QED
  BY <1>1, AlwaysIInv, PTL

\* The handler leaves nothing behind for a node that left, but for get_connection()
\* under way and a removal that failed.
THEOREM LeaversAlwaysForgotten == Spec => []LeaversAreForgotten
<1>1. IInv => LeaversAreForgotten
  BY DEF IInv, LeaversInv, LeaversAreForgotten, Clean, NothingOf
<1> QED
  BY <1>1, AlwaysIInv, PTL

\* The handler has yet to come to the connection of n, or need not.
StillLinked(n) ==
    \/ n \in topology \cup handler.todo \cup excused
    \/ handler.at = "stopping" /\ handler.node = n

\* No call waits in vain for a node that left: when the handler is done with the
\* node's connection, that of each call that uses one to the node is closed, so
\* that the call's response handler sees its end.  Nothing else says so: a call
\* got its connection long before, and the handler knows of those that are kept.
THEOREM CallsToLeaversAreCut ==
    Spec => [](\A c \in Calls :
                pc[c] = "using" /\ ~StillLinked(Target[c]) => status[conn[c]] = "closed")
<1>1. Init => UsedLeads
  BY DEF Init, UsedLeads
<1>2. Spec => []UsedLeads
  BY <1>1, AlwaysIInv, UsedStep, PTL DEF Spec, IInv
<1>3. IInv /\ UsedLeads =>
        \A c \in Calls : pc[c] = "using" /\ ~StillLinked(Target[c]) => status[conn[c]] = "closed"
  <2> SUFFICES ASSUME IInv, UsedLeads, NEW c \in Calls, pc[c] = "using", ~StillLinked(Target[c])
               PROVE  status[conn[c]] = "closed"
    OBVIOUS
  <2> DEFINE n == Target[c]
             k == conn[c]
  <2>1. n \in Nodes /\ k \in Conns /\ k # NoConn /\ peerOf[k] = n /\ status[k] # "unused"
    BY PeerIsNode, LinksAssumption DEF UsedLeads
  <2>2. cached[n] = NoConn
    <3>1. CASE n # handler.node
      BY <2>1, <3>1 DEF StillLinked, IInv, LeaversInv, Clean, NothingOf
    <3>2. CASE n = handler.node
      <4>1. handler.at = "closing"
        BY <2>1, <3>2, LinksAssumption DEF StillLinked, IInv, TypeOK
      <4> QED
        BY <3>2, <4>1 DEF StillLinked, IInv, LeaversInv, Clean, NothingOf
    <3> QED
      BY <3>1, <3>2
  <2>3. status[k] \notin {"open", "broken"}
    BY <2>1, <2>2 DEF IInv, LinksInv, NoStrayConnection
  <2>4. status[k] \in Statuses
    BY <2>1 DEF IInv, TypeOK
  <2> QED
    BY <2>1, <2>3, <2>4 DEF Statuses
<1> QED
  BY <1>2, <1>3, AlwaysIInv, PTL
=============================================================================
