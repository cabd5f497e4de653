--------------------------- MODULE ServiceCaller ---------------------------
(***************************************************************************)
(* rosy/node/service/caller.py: the calls one node has under way to one    *)
(* peer, the tables of futures they wait on, and one response handler task *)
(* for each connection that is in a table.                                 *)
(*                                                                         *)
(* A step is what the event loop runs between two suspensions of a call or *)
(* of a handler.  Connections are numbered in the order they are opened;   *)
(* conn is the one PeerConnectionManager has cached.  Encoding a request   *)
(* writes to memory and does not suspend.  The peer answers requests in    *)
(* any order (it runs a task for each) or closes the connection; being     *)
(* answered and the handler's reading of the answer are one step.          *)
(***************************************************************************)
EXTENDS Integers, FiniteSets

CONSTANTS
    Calls,          \* the calls, a set of model values
    NoCall,         \* not a call
    MaxIds,         \* max_request_ids
    MaxReaders,     \* bound: connections to the peer that are opened
    Garbled         \* whether an answer may fail to decode

Ids == 0..(MaxIds - 1)
Readers == 1..MaxReaders

ASSUME CallerAssumption ==
    /\ NoCall \notin Calls
    /\ MaxIds \in Nat \ {0}
    /\ MaxReaders \in Nat \ {0}
    /\ Garbled \in BOOLEAN

VARIABLES
    pc,          \* where each call is suspended, or how it ended
    reader,      \* the connection each call uses, 0 before it has one
    id,          \* the request id of each call, once it has one
    future,      \* the state of each call's response future
    answer,      \* the call whose answer that future holds
    nextId,      \* _next_request_id
    known,       \* the readers in _response_futures; each has a handler task
    futures,     \* _response_futures: for each reader, whose future an id has
    writerLock,  \* the call that holds each connection's writer, or NoCall
    conn,        \* the connection that is cached, 0 before the first
    closing,     \* the connections whose writer is closing
    eof,         \* the connections the peer sends no more data on
    asked,       \* requests [id, call] whose answer was not yet read
    delivered    \* history: the calls whose request reached the peer

callVars == <<pc, reader, id, future, answer>>
tableVars == <<nextId, known, futures>>
netVars == <<conn, closing, eof, asked, delivered>>
vars == <<callVars, tableVars, writerLock, netVars>>

Active == {"connecting", "locking", "draining", "waiting"}
Ended == {"returned", "failed", "exhausted", "cancelled"}
Request == [id : Ids, call : Calls]

TypeOK ==
    /\ pc \in [Calls -> {"idle"} \cup Active \cup Ended]
    /\ reader \in [Calls -> {0} \cup Readers]
    /\ id \in [Calls -> Ids]
    /\ future \in [Calls -> {"none", "pending", "result", "exception", "cancelled"}]
    /\ answer \in [Calls -> Calls \cup {NoCall}]
    /\ nextId \in Ids
    /\ known \in SUBSET Readers
    /\ futures \in [Readers -> [Ids -> Calls \cup {NoCall}]]
    /\ writerLock \in [Readers -> Calls \cup {NoCall}]
    /\ conn \in {0} \cup Readers
    /\ closing \in SUBSET Readers
    /\ eof \in SUBSET Readers
    /\ asked \in [Readers -> SUBSET Request]
    /\ delivered \in SUBSET Calls

NoFutures == [i \in Ids |-> NoCall]

Init ==
    /\ pc = [c \in Calls |-> "idle"]
    /\ reader = [c \in Calls |-> 0]
    /\ id = [c \in Calls |-> 0]
    /\ future = [c \in Calls |-> "none"]
    /\ answer = [c \in Calls |-> NoCall]
    /\ nextId = 0
    /\ known = {}
    /\ futures = [r \in Readers |-> NoFutures]
    /\ writerLock = [r \in Readers |-> NoCall]
    /\ conn = 0
    /\ closing = {}
    /\ eof = {}
    /\ asked = [r \in Readers |-> {}]
    /\ delivered = {}

----------------------------------------------------------------------------
(* Variants of the definitions below with a plausible mistake in them.  No   *)
(* specification uses them; they show that the properties can fail.          *)

\* Takes the next request id without a look at the table.
NextFreeUnchecked(r) == {nextId}

\* Completes the first future there is, as if answers came in order.
HandleResponseInOrder(r, q) ==
    /\ r \in known
    /\ q \in asked[r]
    /\ asked' = [asked EXCEPT ![r] = @ \ {q}]
    /\ \E c \in Calls :
        /\ future[c] = "pending"
        /\ futures[r][id[c]] = c
        /\ future' = [future EXCEPT ![c] = "result"]
        /\ answer' = [answer EXCEPT ![c] = q.call]
    /\ UNCHANGED <<pc, reader, id, tableVars, writerLock, conn, closing, eof,
                   delivered>>

\* Drops the table without failing the futures in it.
EndHandlerForgets(r) ==
    /\ future' = future
    /\ futures' = [futures EXCEPT ![r] = NoFutures]
    /\ known' = known \ {r}

----------------------------------------------------------------------------
(* A call.                                                                 *)

\* call() finds a node that hosts the service and asks for a connection to it,
\* or there is none and it raises ValueError.
Start(c) ==
    /\ pc[c] = "idle"
    /\ pc' = [pc EXCEPT ![c] = "connecting"]
    /\ UNCHANGED <<reader, id, future, answer, tableVars, writerLock, netVars>>

NoNode(c) ==
    /\ pc[c] = "idle"
    /\ pc' = [pc EXCEPT ![c] = "failed"]
    /\ UNCHANGED <<reader, id, future, answer, tableVars, writerLock, netVars>>

ConnectFails(c) ==
    /\ pc[c] = "connecting"
    /\ pc' = [pc EXCEPT ![c] = "failed"]
    /\ UNCHANGED <<reader, id, future, answer, tableVars, writerLock, netVars>>

\* get_connection() returns the cached connection unless its writer is closing;
\* that the peer has closed its side is not noticed.
Obtain(r) ==
    \/ conn # 0 /\ conn \notin closing /\ r = conn
    \/ (conn = 0 \/ conn \in closing) /\ r = conn + 1

Free(r) == {i \in Ids : futures[r][i] = NoCall}

\* How many increments _find_next_available_request_id needs to get to i.
Distance(i) == (i - nextId) % MaxIds

NextFree(r) == {i \in Free(r) : \A j \in Free(r) : Distance(i) <= Distance(j)}

\* From get_connection()'s return to the wait for the writer's lock: a handler is
\* started unless there is one, an id is taken and the future entered under it.
\* The request may fail to encode, which leaves the future where it is.
Register(c) ==
    /\ pc[c] = "connecting"
    /\ \E r \in Readers, end \in {"locking", "failed"} :
        /\ Obtain(r)
        /\ conn' = r
        /\ known' = known \cup {r}
        /\ reader' = [reader EXCEPT ![c] = r]
        /\ \E i \in NextFree(r) :
            /\ id' = [id EXCEPT ![c] = i]
            /\ nextId' = (i + 1) % MaxIds
            /\ futures' = [futures EXCEPT ![r][i] = c]
            /\ future' = [future EXCEPT ![c] = "pending"]
            /\ pc' = [pc EXCEPT ![c] = end]
    /\ UNCHANGED <<answer, writerLock, closing, eof, asked, delivered>>

\* The same when no id is free: ServiceRequestError.
Exhausted(c) ==
    /\ pc[c] = "connecting"
    /\ \E r \in Readers :
        /\ Obtain(r)
        /\ conn' = r
        /\ known' = known \cup {r}
        /\ Free(r) = {}
    /\ pc' = [pc EXCEPT ![c] = "exhausted"]
    /\ UNCHANGED <<reader, id, future, answer, nextId, futures, writerLock,
                   closing, eof, asked, delivered>>

\* The lock is acquired and the request written; a peer that has closed does not
\* get it.
LockAndWrite(c) ==
    /\ pc[c] = "locking"
    /\ LET r == reader[c]
       IN  /\ writerLock[r] = NoCall
           /\ writerLock' = [writerLock EXCEPT ![r] = c]
           /\ IF r \in eof
              THEN UNCHANGED <<asked, delivered>>
              ELSE /\ asked' = [asked EXCEPT ![r] = @ \cup {[id |-> id[c], call |-> c]}]
                   /\ delivered' = delivered \cup {c}
    /\ pc' = [pc EXCEPT ![c] = "draining"]
    /\ UNCHANGED <<reader, id, future, answer, tableVars, conn, closing, eof>>

\* drain() returns and the lock is released.
Drained(c) ==
    /\ pc[c] = "draining"
    /\ reader[c] \notin closing
    /\ writerLock' = [writerLock EXCEPT ![reader[c]] = NoCall]
    /\ pc' = [pc EXCEPT ![c] = "waiting"]
    /\ UNCHANGED <<reader, id, future, answer, tableVars, netVars>>

\* drain() raises because the connection was lost: the lock is released, the
\* future stays in the table.
DrainFails(c) ==
    /\ pc[c] = "draining"
    /\ reader[c] \in closing
    /\ writerLock' = [writerLock EXCEPT ![reader[c]] = NoCall]
    /\ pc' = [pc EXCEPT ![c] = "failed"]
    /\ UNCHANGED <<reader, id, future, answer, tableVars, netVars>>

\* A variant with a mistake: the future stays in the table.
ResumeKeepsId(c) ==
    /\ pc[c] = "waiting"
    /\ future[c] = "result"
    /\ pc' = [pc EXCEPT ![c] = "returned"]
    /\ UNCHANGED <<reader, id, future, answer, tableVars, writerLock, netVars>>

\* The future has its result.  The id is removed from the table that the reader
\* has now, which may be a later one than the future was entered in.  The
\* response may report an error of the service, which call() raises.
Resume(c) ==
    /\ pc[c] = "waiting"
    /\ future[c] = "result"
    /\ futures' = [futures EXCEPT ![reader[c]][id[c]] = NoCall]
    /\ pc' = [pc EXCEPT ![c] = "returned"]
    /\ UNCHANGED <<reader, id, future, answer, nextId, known, writerLock, netVars>>

\* The future has an exception; the table is gone with its handler.
ResumeFailed(c) ==
    /\ pc[c] = "waiting"
    /\ future[c] = "exception"
    /\ pc' = [pc EXCEPT ![c] = "failed"]
    /\ UNCHANGED <<reader, id, future, answer, tableVars, writerLock, netVars>>

\* The task that called is cancelled, by a timeout for instance.  The lock is
\* released if it is held; the future stays in the table, and is cancelled with
\* the task if that awaits it.
Cancel(c) ==
    /\ pc[c] \in Active
    /\ pc' = [pc EXCEPT ![c] = "cancelled"]
    /\ writerLock' = IF pc[c] = "draining"
                     THEN [writerLock EXCEPT ![reader[c]] = NoCall]
                     ELSE writerLock
    /\ future' = IF pc[c] = "waiting" /\ future[c] = "pending"
                 THEN [future EXCEPT ![c] = "cancelled"]
                 ELSE future
    /\ UNCHANGED <<reader, id, answer, tableVars, netVars>>

----------------------------------------------------------------------------
(* The response handlers.                                                  *)

\* _handle_one_response(): the future under the response's id gets the response
\* unless it is done; an id that is not in the table is ignored.
HandleResponse(r, q) ==
    /\ r \in known
    /\ q \in asked[r]
    /\ asked' = [asked EXCEPT ![r] = @ \ {q}]
    /\ LET c == futures[r][q.id]
       IN  IF c # NoCall /\ future[c] = "pending"
           THEN /\ future' = [future EXCEPT ![c] = "result"]
                /\ answer' = [answer EXCEPT ![c] = q.call]
           ELSE UNCHANGED <<future, answer>>
    /\ UNCHANGED <<pc, reader, id, tableVars, writerLock, conn, closing, eof,
                   delivered>>

\* The calls whose future the end of r's handler fails.
Pending(r) == {c \in Calls : future[c] = "pending" /\ \E i \in Ids : futures[r][i] = c}

\* A variant with a mistake: futures that are done are failed again, which raises
\* at the first one and leaves the others pending.
EndHandlerRaises(r) ==
    /\ future' = [c \in Calls |->
                    IF c \in Pending(r) /\ (\A i \in Ids : futures[r][i] \in Pending(r) \cup {NoCall})
                    THEN "exception" ELSE future[c]]
    /\ futures' = [futures EXCEPT ![r] = NoFutures]
    /\ known' = known \ {r}

\* The handler's "finally", which runs without suspending.
EndHandler(r) ==
    /\ future' = [c \in Calls |-> IF c \in Pending(r) THEN "exception" ELSE future[c]]
    /\ futures' = [futures EXCEPT ![r] = NoFutures]
    /\ known' = known \ {r}

\* The reader is at its end, once it gave out the data it had.
HandlerAtEof(r) ==
    /\ r \in known
    /\ r \in eof
    /\ asked[r] = {}
    /\ EndHandler(r)
    /\ UNCHANGED <<pc, reader, id, answer, nextId, writerLock, netVars>>

\* A response cannot be decoded; the handler ends but the connection lives on.
\* The next response can be read, because the length of this one was known.
HandlerFails(r, q) ==
    /\ Garbled
    /\ r \in known
    /\ q \in asked[r]
    /\ asked' = [asked EXCEPT ![r] = @ \ {q}]
    /\ EndHandler(r)
    /\ UNCHANGED <<pc, reader, id, answer, nextId, writerLock, conn, closing, eof,
                   delivered>>

----------------------------------------------------------------------------
(* The connections.                                                        *)

\* The peer closes its side; some of its answers may still be on their way.
PeerCloses(r) ==
    /\ r <= conn
    /\ r \notin eof
    /\ eof' = eof \cup {r}
    /\ \E kept \in SUBSET asked[r] : asked' = [asked EXCEPT ![r] = kept]
    /\ UNCHANGED <<callVars, tableVars, writerLock, conn, closing, delivered>>

\* The connection is lost, or closed because the node left the mesh.
ConnectionLost(r) ==
    /\ r <= conn
    /\ r \notin closing
    /\ closing' = closing \cup {r}
    /\ eof' = eof \cup {r}
    /\ \E kept \in SUBSET asked[r] : asked' = [asked EXCEPT ![r] = kept]
    /\ UNCHANGED <<callVars, tableVars, writerLock, conn, delivered>>

CallStep(c) ==
    \/ Start(c)
    \/ NoNode(c)
    \/ ConnectFails(c)
    \/ Register(c)
    \/ Exhausted(c)
    \/ LockAndWrite(c)
    \/ Drained(c)
    \/ DrainFails(c)
    \/ Resume(c)
    \/ ResumeFailed(c)
    \/ Cancel(c)

HandlerStep(r) ==
    \/ \E q \in asked[r] : HandleResponse(r, q) \/ HandlerFails(r, q)
    \/ HandlerAtEof(r)

Next ==
    \/ \E c \in Calls : CallStep(c)
    \/ \E r \in Readers : HandlerStep(r) \/ PeerCloses(r) \/ ConnectionLost(r)

Spec == Init /\ [][Next]_vars

\* The event loop runs what can run.  A connection attempt and drain() end, as in
\* Outbox; the lock's waiters are served in order; the peer answers each request
\* or closes the connection, which is an assumption about the service's callback.
Fairness ==
    /\ \A c \in Calls :
        /\ WF_vars(ConnectFails(c) \/ Register(c) \/ Exhausted(c))
        /\ SF_vars(LockAndWrite(c))
        /\ WF_vars(Drained(c) \/ DrainFails(c))
        /\ WF_vars(Resume(c) \/ ResumeFailed(c))
    /\ \A r \in Readers :
        /\ \A q \in Request : WF_vars(HandleResponse(r, q) \/ HandlerFails(r, q))
        /\ WF_vars(HandlerAtEof(r))

FairSpec == Spec /\ Fairness

----------------------------------------------------------------------------
(* Properties.                                                             *)

\* A call is given the answer to its own request, although request ids are used
\* again, calls are cancelled at any point and answers come in any order.
OwnAnswer == \A c \in Calls : answer[c] \in {c, NoCall}

\* A call that still waits has its future under its id in the table of its
\* reader, where a handler will find it: nobody waits on a future that no handler
\* can complete or fail.
WaiterIsRegistered ==
    \A c \in Calls :
        pc[c] \in {"locking", "draining", "waiting"} /\ future[c] = "pending"
        => reader[c] \in known /\ futures[reader[c]][id[c]] = c

\* The lock is held by a call that drains, and by no other.
LockHolderDrains ==
    \A r \in Readers, c \in Calls :
        writerLock[r] = c <=> pc[c] = "draining" /\ reader[c] = r

\* Whether a call's own next step can be taken.
CanMove(c) ==
    \/ pc[c] \in {"connecting", "draining"}
    \/ pc[c] = "locking" /\ writerLock[reader[c]] = NoCall
    \/ pc[c] = "waiting" /\ future[c] \in {"result", "exception"}

\* A call under way is never stuck: it can go on, or waits for a lock whose holder
\* can, or a live handler has its answer still to come or is about to fail it.
NoCallIsStuck ==
    \A c \in Calls : pc[c] \in Active =>
        \/ CanMove(c)
        \/ /\ pc[c] = "locking"
           /\ \E d \in Calls : writerLock[reader[c]] = d /\ CanMove(d)
        \/ /\ pc[c] = "waiting"
           /\ reader[c] \in known
           /\ reader[c] \in eof \/ [id |-> id[c], call |-> c] \in asked[reader[c]]

\* A call as RemoteCall sees it.
Status(p) ==
    CASE p = "idle" -> "idle"
      [] p \in Active -> "open"
      [] p = "returned" -> "returned"
      [] OTHER -> "failed"

\* Every call keeps the promise of RemoteCall: delivered at most once, ended
\* once, with its own answer or with an error.
Promise == INSTANCE RemoteCall WITH
    status <- [c \in Calls |-> Status(pc[c])],
    answer <- [c \in Calls |-> IF pc[c] = "returned" THEN answer[c] ELSE NoCall]
ImplementsRemoteCall == Promise!Spec

\* Every call ends, provided that the peer answers or closes.
EveryCallEnds == \A c \in Calls : pc[c] = "connecting" ~> pc[c] \in Ended

\* The calls that keep an id: those under way, and those that were cancelled or
\* failed before their answer, which give it back only with the connection.
Keepers == {c \in Calls : pc[c] \in {"locking", "draining", "waiting", "failed", "cancelled"}}

\* caller.py's error "All ... request IDs are in use": a call is refused only if
\* each id of its connection was kept by another call; none is lost by a call
\* that was answered, in whatever order ids are taken and given back.
RefusedOnlyWhenTaken ==
    [][\A c \in Calls : pc[c] = "connecting" /\ pc'[c] = "exhausted" =>
        \A i \in Ids : \E d \in Keepers \ {c} : reader[d] = conn' /\ id[d] = i]_vars
=============================================================================
