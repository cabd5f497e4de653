------------------------ MODULE ServiceCallerProofs ------------------------
(***************************************************************************)
(* For every number of calls, request ids and connections: when answers    *)
(* can be decoded, a call only ever gets the answer to its own request,    *)
(* and ServiceCaller implements RemoteCall, however often ids are reused.  *)
(***************************************************************************)
EXTENDS ServiceCaller, FiniteSetTheorems, TLAPS

\* A connection that has nothing more to give.
Dead(r) == r \in eof /\ asked[r] = {}

\* The future of the call is where an answer to it would be looked up.
Entered(c) == reader[c] \in known /\ futures[reader[c]][id[c]] = c

Early == {"idle", "connecting", "locking"}

\* A request that may still be answered is entered, its call has no result yet,
\* and it was delivered.
AskedIsEntered ==
    \A r \in Readers : \A q \in asked[r] :
        /\ pc[q.call] \notin Early
        /\ q.call \in delivered
        /\ reader[q.call] = r
        /\ id[q.call] = q.id
        /\ r \in known
        /\ futures[r][q.id] = q.call
        /\ future[q.call] # "result"

\* A call that has an id is entered, unless its connection has ended: there the
\* table may be another one by now.
EnteredOrDead ==
    \A c \in Calls :
        pc[c] \in {"locking", "draining", "waiting"} =>
            /\ reader[c] \in Readers
            /\ Entered(c) \/ Dead(reader[c])

\* Results are the caller's own, and come after the request was delivered and
\* before the call returns.
ResultIsOwn ==
    \A c \in Calls :
        IF future[c] = "result"
        THEN answer[c] = c /\ c \in delivered
        ELSE answer[c] = NoCall /\ pc[c] # "returned"

DeliveredIsNotEarly == \A c \in delivered : pc[c] \notin Early

IInv ==
    /\ TypeOK
    /\ AskedIsEntered
    /\ EnteredOrDead
    /\ ResultIsOwn
    /\ DeliveredIsNotEarly

----------------------------------------------------------------------------
(* Type correctness.                                                       *)

LEMMA ModIsId == \A i \in Ids : (i + 1) % MaxIds \in Ids
BY CallerAssumption DEF Ids

LEMMA InitTypeOK == Init => TypeOK
<1> SUFFICES ASSUME Init PROVE TypeOK
  OBVIOUS
<1>1. 0 \in Ids
  BY CallerAssumption DEF Ids
<1>2. futures \in [Readers -> [Ids -> Calls \cup {NoCall}]]
  BY DEF Init, NoFutures
<1> QED
  BY <1>1, <1>2 DEF Init, TypeOK

LEMMA CallTypeOK == ASSUME TypeOK, NEW c \in Calls, CallStep(c) PROVE TypeOK'
<1> USE DEF Active, Ended
<1>1. CASE Start(c) \/ NoNode(c) \/ ConnectFails(c) \/ ResumeFailed(c)
  BY <1>1 DEF TypeOK, Start, NoNode, ConnectFails, ResumeFailed, tableVars, netVars
<1>2. CASE Register(c)
  <2> PICK r \in Readers, end \in {"locking", "failed"} :
        /\ conn' = r
        /\ known' = known \cup {r}
        /\ reader' = [reader EXCEPT ![c] = r]
        /\ \E i \in NextFree(r) :
            /\ id' = [id EXCEPT ![c] = i]
            /\ nextId' = (i + 1) % MaxIds
            /\ futures' = [futures EXCEPT ![r][i] = c]
            /\ future' = [future EXCEPT ![c] = "pending"]
            /\ pc' = [pc EXCEPT ![c] = end]
    BY <1>2 DEF Register
  <2> PICK i \in NextFree(r) :
        /\ id' = [id EXCEPT ![c] = i]
        /\ nextId' = (i + 1) % MaxIds
        /\ futures' = [futures EXCEPT ![r][i] = c]
        /\ future' = [future EXCEPT ![c] = "pending"]
        /\ pc' = [pc EXCEPT ![c] = end]
    OBVIOUS
  <2>1. i \in Ids /\ nextId' \in Ids
    BY ModIsId DEF NextFree, Free
  <2>2. futures' \in [Readers -> [Ids -> Calls \cup {NoCall}]]
    BY <2>1 DEF TypeOK
  <2> QED
    BY <1>2, <2>1, <2>2 DEF TypeOK, Register
<1>3. CASE Exhausted(c)
  BY <1>3 DEF TypeOK, Exhausted
<1>4. CASE LockAndWrite(c)
  <2> DEFINE q == [id |-> id[c], call |-> c]
  <2>1. q \in Request
    BY DEF TypeOK, Request
  <2>2. asked' \in [Readers -> SUBSET Request] /\ delivered' \in SUBSET Calls
    BY <1>4, <2>1 DEF TypeOK, LockAndWrite
  <2>3. writerLock' \in [Readers -> Calls \cup {NoCall}]
    BY <1>4 DEF TypeOK, LockAndWrite
  <2> QED
    BY <1>4, <2>2, <2>3 DEF TypeOK, LockAndWrite, tableVars
<1>5. CASE Drained(c) \/ DrainFails(c)
  BY <1>5 DEF TypeOK, Drained, DrainFails, tableVars, netVars
<1>6. CASE Resume(c)
  BY <1>6 DEF TypeOK, Resume, netVars
<1>7. CASE Cancel(c)
  <2>1. writerLock' \in [Readers -> Calls \cup {NoCall}]
    BY <1>7 DEF TypeOK, Cancel
  <2>2. future' \in [Calls -> {"none", "pending", "result", "exception", "cancelled"}]
    BY <1>7 DEF TypeOK, Cancel
  <2> QED
    BY <1>7, <2>1, <2>2 DEF TypeOK, Cancel, tableVars, netVars
<1> QED
  BY <1>1, <1>2, <1>3, <1>4, <1>5, <1>6, <1>7 DEF CallStep

LEMMA EndHandlerTypes ==
    ASSUME TypeOK, NEW r \in Readers, EndHandler(r)
    PROVE  /\ future' \in [Calls -> {"none", "pending", "result", "exception", "cancelled"}]
           /\ futures' \in [Readers -> [Ids -> Calls \cup {NoCall}]]
           /\ known' \in SUBSET Readers
<1>1. NoFutures \in [Ids -> Calls \cup {NoCall}]
  BY DEF NoFutures
<1> QED
  BY <1>1 DEF TypeOK, EndHandler

LEMMA ReaderTypeOK ==
    ASSUME TypeOK, NEW r \in Readers,
           HandlerStep(r) \/ PeerCloses(r) \/ ConnectionLost(r)
    PROVE  TypeOK'
<1>1. CASE HandlerAtEof(r)
  BY <1>1, EndHandlerTypes DEF TypeOK, HandlerAtEof, netVars
<1>2. ASSUME NEW q \in asked[r], HandlerFails(r, q) PROVE TypeOK'
  BY <1>2, EndHandlerTypes DEF TypeOK, HandlerFails
<1>3. ASSUME NEW q \in asked[r], HandleResponse(r, q) PROVE TypeOK'
  <2>1. q \in Request /\ q.id \in Ids /\ q.call \in Calls
    BY DEF TypeOK, Request
  <2>2. /\ future' \in [Calls -> {"none", "pending", "result", "exception", "cancelled"}]
        /\ answer' \in [Calls -> Calls \cup {NoCall}]
    BY <1>3, <2>1 DEF TypeOK, HandleResponse
  <2> QED
    BY <1>3, <2>2 DEF TypeOK, HandleResponse, tableVars
<1>4. CASE PeerCloses(r)
  BY <1>4 DEF TypeOK, PeerCloses, callVars, tableVars
<1>5. CASE ConnectionLost(r)
  BY <1>5 DEF TypeOK, ConnectionLost, callVars, tableVars
<1> QED
  BY <1>1, <1>2, <1>3, <1>4, <1>5 DEF HandlerStep

LEMMA StutterTypeOK == TypeOK /\ UNCHANGED vars => TypeOK'
BY DEF TypeOK, vars, callVars, tableVars, netVars

LEMMA NextTypeOK == TypeOK /\ [Next]_vars => TypeOK'
BY CallTypeOK, ReaderTypeOK, StutterTypeOK DEF Next

\* Every reachable state is of the declared type: ids stay below
\* max_request_ids, tables hold calls, only opened connections are known.
THEOREM TypeCorrect == Spec => []TypeOK
BY InitTypeOK, NextTypeOK, PTL DEF Spec

----------------------------------------------------------------------------
(* A call's own answer.                                                    *)

LEMMA InitIInv == Init => IInv
BY InitTypeOK DEF Init, IInv, AskedIsEntered, EnteredOrDead, ResultIsOwn,
   DeliveredIsNotEarly

\* Steps of a call that move only its pc, and not back to an early place.
LEMMA MoveIInv ==
    ASSUME IInv, TypeOK', NEW c \in Calls, NEW p, pc' = [pc EXCEPT ![c] = p],
           UNCHANGED <<reader, id, future, answer, tableVars, netVars>>,
           \/ pc[c] \in Early
           \/ p \notin Early,
           p \in Early => pc[c] \in {"idle", "connecting"} /\ p = "connecting",
           p # "returned",
           p \in {"draining", "waiting"} => pc[c] \in {"draining", "waiting"}
    PROVE  IInv'
<1>1. AskedIsEntered'
  BY DEF IInv, AskedIsEntered, TypeOK, Request, Early, tableVars, netVars
<1>2. EnteredOrDead'
  BY DEF IInv, EnteredOrDead, Entered, Dead, TypeOK, Early, tableVars, netVars
<1>3. ResultIsOwn' /\ DeliveredIsNotEarly'
  BY DEF IInv, ResultIsOwn, DeliveredIsNotEarly, TypeOK, Early, tableVars, netVars
<1> QED
  BY <1>1, <1>2, <1>3 DEF IInv

LEMMA CallIInvSimple ==
    ASSUME IInv, TypeOK', NEW c \in Calls,
           Start(c) \/ NoNode(c) \/ ConnectFails(c) \/ ResumeFailed(c)
           \/ Drained(c) \/ DrainFails(c)
    PROVE  IInv'
BY MoveIInv DEF Start, NoNode, ConnectFails, ResumeFailed, Drained, DrainFails, Early

LEMMA CancelIInv == ASSUME IInv, TypeOK', NEW c \in Calls, Cancel(c) PROVE IInv'
<1>1. /\ \A d \in Calls : future'[d] = "result" <=> future[d] = "result"
      /\ \A d \in Calls : d # c => pc'[d] = pc[d]
      /\ pc'[c] = "cancelled"
      /\ UNCHANGED <<reader, id, answer, tableVars, netVars>>
  BY DEF IInv, TypeOK, Cancel
<1>2. AskedIsEntered'
  BY <1>1 DEF IInv, AskedIsEntered, TypeOK, Request, Early, tableVars, netVars
<1>3. EnteredOrDead'
  BY <1>1 DEF IInv, EnteredOrDead, Entered, Dead, tableVars, netVars
<1>4. ResultIsOwn' /\ DeliveredIsNotEarly'
  BY <1>1 DEF IInv, ResultIsOwn, DeliveredIsNotEarly, TypeOK, Early, netVars
<1> QED
  BY <1>2, <1>3, <1>4 DEF IInv

\* The id that is taken is free, so no entry that matters is overwritten.
LEMMA RegisterIInv == ASSUME IInv, TypeOK', NEW c \in Calls, Register(c) PROVE IInv'
<1> PICK r \in Readers, end \in {"locking", "failed"} :
        /\ known' = known \cup {r}
        /\ reader' = [reader EXCEPT ![c] = r]
        /\ \E i \in NextFree(r) :
            /\ id' = [id EXCEPT ![c] = i]
            /\ futures' = [futures EXCEPT ![r][i] = c]
            /\ future' = [future EXCEPT ![c] = "pending"]
            /\ pc' = [pc EXCEPT ![c] = end]
  BY DEF Register
<1> PICK i \in NextFree(r) :
        /\ id' = [id EXCEPT ![c] = i]
        /\ futures' = [futures EXCEPT ![r][i] = c]
        /\ future' = [future EXCEPT ![c] = "pending"]
        /\ pc' = [pc EXCEPT ![c] = end]
  OBVIOUS
<1>1. i \in Ids /\ futures[r][i] = NoCall /\ pc[c] = "connecting"
  BY DEF NextFree, Free, Register
<1>2. UNCHANGED <<answer, eof, asked, delivered>>
  BY DEF Register
<1>3. \A s \in Readers, j \in Ids :
        futures'[s][j] = IF s = r /\ j = i THEN c ELSE futures[s][j]
  BY <1>1 DEF IInv, TypeOK
<1>4. AskedIsEntered'
  <2> SUFFICES ASSUME NEW s \in Readers, NEW q \in asked[s]
               PROVE  /\ pc'[q.call] \notin Early
                      /\ q.call \in delivered
                      /\ reader'[q.call] = s
                      /\ id'[q.call] = q.id
                      /\ s \in known'
                      /\ futures'[s][q.id] = q.call
                      /\ future'[q.call] # "result"
    BY <1>2 DEF AskedIsEntered
  <2>1. q.call \in Calls /\ q.id \in Ids /\ q.call # NoCall
    BY CallerAssumption DEF IInv, TypeOK, Request
  <2>2. /\ pc[q.call] \notin Early /\ q.call \in delivered
        /\ reader[q.call] = s /\ id[q.call] = q.id /\ s \in known
        /\ futures[s][q.id] = q.call /\ future[q.call] # "result"
    BY DEF IInv, AskedIsEntered
  <2>3. q.call # c
    BY <1>1, <2>2 DEF Early
  <2> QED
    BY <1>1, <1>3, <2>1, <2>2, <2>3 DEF IInv, TypeOK
<1>5. EnteredOrDead'
  <2> SUFFICES ASSUME NEW d \in Calls, pc'[d] \in {"locking", "draining", "waiting"}
               PROVE  reader'[d] \in Readers /\ (Entered(d)' \/ Dead(reader[d])')
    BY DEF EnteredOrDead
  <2>1. CASE d = c
    BY <1>1, <1>3, <2>1 DEF IInv, TypeOK, Entered
  <2>2. CASE d # c
    <3>1. pc[d] \in {"locking", "draining", "waiting"} /\ reader'[d] = reader[d]
          /\ id'[d] = id[d] /\ id[d] \in Ids /\ d # NoCall
      BY <2>2, CallerAssumption DEF IInv, TypeOK
    <3>2. reader[d] \in Readers /\ (Entered(d) \/ Dead(reader[d]))
      BY <3>1 DEF IInv, EnteredOrDead
    <3>3. Entered(d) => Entered(d)'
      BY <1>1, <1>3, <3>1, <3>2 DEF Entered
    <3> QED
      BY <1>2, <3>1, <3>2, <3>3 DEF Dead
  <2> QED
    BY <2>1, <2>2
<1>6. ResultIsOwn' /\ DeliveredIsNotEarly'
  <2>1. c \notin delivered
    BY <1>1 DEF IInv, DeliveredIsNotEarly, Early
  <2>2. answer[c] = NoCall
    BY <2>1 DEF IInv, ResultIsOwn
  <2> QED
    BY <1>2, <2>1, <2>2 DEF IInv, TypeOK, ResultIsOwn, DeliveredIsNotEarly
<1> QED
  BY <1>4, <1>5, <1>6 DEF IInv

LEMMA ExhaustedIInv == ASSUME IInv, TypeOK', NEW c \in Calls, Exhausted(c) PROVE IInv'
<1>1. /\ known \subseteq known'
      /\ pc' = [pc EXCEPT ![c] = "exhausted"]
      /\ UNCHANGED <<reader, id, future, answer, futures, eof, asked, delivered>>
  BY DEF Exhausted
<1>2. AskedIsEntered'
  BY <1>1 DEF IInv, AskedIsEntered, TypeOK, Request, Early
<1>3. EnteredOrDead'
  BY <1>1 DEF IInv, EnteredOrDead, Entered, Dead, TypeOK
<1>4. ResultIsOwn' /\ DeliveredIsNotEarly'
  BY <1>1 DEF IInv, ResultIsOwn, DeliveredIsNotEarly, TypeOK, Early
<1> QED
  BY <1>2, <1>3, <1>4 DEF IInv

\* A request that is delivered is entered, because its connection is not dead.
LEMMA LockAndWriteIInv ==
    ASSUME IInv, TypeOK', NEW c \in Calls, LockAndWrite(c) PROVE IInv'
<1> DEFINE r == reader[c]
           new == [id |-> id[c], call |-> c]
<1>1. /\ pc[c] = "locking" /\ pc' = [pc EXCEPT ![c] = "draining"]
      /\ UNCHANGED <<reader, id, future, answer, known, futures, eof>>
  BY DEF LockAndWrite, tableVars
<1>2. r \in Readers /\ (Entered(c) \/ Dead(r))
  BY <1>1 DEF IInv, EnteredOrDead
<1>3. CASE r \in eof
  <2>1. UNCHANGED <<asked, delivered>>
    BY <1>3 DEF LockAndWrite
  <2>2. AskedIsEntered'
    BY <1>1, <2>1 DEF IInv, AskedIsEntered, TypeOK, Request, Early
  <2>3. EnteredOrDead'
    BY <1>1, <2>1 DEF IInv, EnteredOrDead, Entered, Dead, TypeOK
  <2>4. ResultIsOwn' /\ DeliveredIsNotEarly'
    BY <1>1, <2>1 DEF IInv, ResultIsOwn, DeliveredIsNotEarly, TypeOK, Early
  <2> QED
    BY <2>2, <2>3, <2>4 DEF IInv
<1>4. CASE r \notin eof
  <2>1. /\ asked' = [asked EXCEPT ![r] = @ \cup {new}]
        /\ delivered' = delivered \cup {c}
    BY <1>4 DEF LockAndWrite
  <2>2. Entered(c)
    BY <1>2, <1>4 DEF Dead
  <2>3. c \notin delivered /\ future[c] # "result"
    BY <1>1 DEF IInv, DeliveredIsNotEarly, ResultIsOwn, Early
  <2>4. AskedIsEntered'
    <3> SUFFICES ASSUME NEW s \in Readers, NEW q \in asked'[s]
                 PROVE  /\ pc'[q.call] \notin Early
                        /\ q.call \in delivered'
                        /\ reader[q.call] = s
                        /\ id[q.call] = q.id
                        /\ s \in known
                        /\ futures[s][q.id] = q.call
                        /\ future[q.call] # "result"
      BY <1>1 DEF AskedIsEntered
    <3>1. CASE q \in asked[s]
      <4>1. q.call \in Calls
        BY <3>1 DEF IInv, TypeOK, Request
      <4> QED
        BY <1>1, <2>1, <3>1, <4>1 DEF IInv, TypeOK, AskedIsEntered, Early
    <3>2. CASE q \notin asked[s]
      <4>1. s = r /\ q = new
        BY <1>2, <2>1, <3>2 DEF IInv, TypeOK
      <4> QED
        BY <1>1, <2>1, <2>2, <2>3, <4>1 DEF IInv, TypeOK, Entered, Early
    <3> QED
      BY <3>1, <3>2
  <2>5. EnteredOrDead'
    <3> SUFFICES ASSUME NEW d \in Calls, pc'[d] \in {"locking", "draining", "waiting"}
                 PROVE  reader[d] \in Readers /\ (Entered(d) \/ Dead(reader[d])')
      BY <1>1 DEF EnteredOrDead, Entered
    <3>1. CASE d = c
      BY <1>2, <2>2, <3>1
    <3>2. CASE d # c
      <4>1. reader[d] \in Readers /\ (Entered(d) \/ Dead(reader[d]))
        BY <1>1, <3>2 DEF IInv, TypeOK, EnteredOrDead
      <4> QED
        BY <1>1, <1>4, <2>1, <4>1 DEF IInv, TypeOK, Dead
    <3> QED
      BY <3>1, <3>2
  <2>6. ResultIsOwn' /\ DeliveredIsNotEarly'
    BY <1>1, <2>1, <2>3 DEF IInv, ResultIsOwn, DeliveredIsNotEarly, TypeOK, Early
  <2> QED
    BY <2>4, <2>5, <2>6 DEF IInv
<1> QED
  BY <1>3, <1>4

\* The entry that is popped is the call's own, or the connection has ended.
LEMMA ResumeIInv == ASSUME IInv, TypeOK', NEW c \in Calls, Resume(c) PROVE IInv'
<1> DEFINE r == reader[c]
<1>1. /\ pc[c] = "waiting" /\ future[c] = "result"
      /\ pc' = [pc EXCEPT ![c] = "returned"]
      /\ futures' = [futures EXCEPT ![r][id[c]] = NoCall]
      /\ UNCHANGED <<reader, id, future, answer, known, eof, asked, delivered>>
  BY DEF Resume, netVars
<1>2. r \in Readers /\ (Entered(c) \/ Dead(r)) /\ id[c] \in Ids
  BY <1>1 DEF IInv, EnteredOrDead, TypeOK
<1>3. \A s \in Readers, j \in Ids :
        futures'[s][j] = IF s = r /\ j = id[c] THEN NoCall ELSE futures[s][j]
  BY <1>1, <1>2 DEF IInv, TypeOK
<1>4. AskedIsEntered'
  <2> SUFFICES ASSUME NEW s \in Readers, NEW q \in asked[s]
               PROVE  /\ pc'[q.call] \notin Early
                      /\ q.call \in delivered
                      /\ reader[q.call] = s
                      /\ id[q.call] = q.id
                      /\ s \in known
                      /\ futures'[s][q.id] = q.call
                      /\ future[q.call] # "result"
    BY <1>1 DEF AskedIsEntered
  <2>1. q.call \in Calls /\ q.id \in Ids
    BY DEF IInv, TypeOK, Request
  <2>2. /\ pc[q.call] \notin Early /\ q.call \in delivered
        /\ reader[q.call] = s /\ id[q.call] = q.id /\ s \in known
        /\ futures[s][q.id] = q.call /\ future[q.call] # "result"
    BY DEF IInv, AskedIsEntered
  <2>3. ~(s = r /\ q.id = id[c])
    BY <1>1, <1>2, <2>2 DEF Entered, Dead
  <2> QED
    BY <1>1, <1>3, <2>1, <2>2, <2>3 DEF IInv, TypeOK, Early
<1>5. EnteredOrDead'
  <2> SUFFICES ASSUME NEW d \in Calls, pc'[d] \in {"locking", "draining", "waiting"}
               PROVE  reader[d] \in Readers /\ (Entered(d)' \/ Dead(reader[d]))
    BY <1>1 DEF EnteredOrDead, Dead
  <2>1. d # c /\ pc[d] \in {"locking", "draining", "waiting"} /\ id[d] \in Ids
    BY <1>1 DEF IInv, TypeOK
  <2>2. reader[d] \in Readers /\ (Entered(d) \/ Dead(reader[d]))
    BY <2>1 DEF IInv, EnteredOrDead
  <2>3. Entered(d) /\ ~Dead(reader[d]) => Entered(d)'
    BY <1>1, <1>2, <1>3, <2>1, <2>2 DEF Entered
  <2> QED
    BY <2>2, <2>3
<1>6. ResultIsOwn' /\ DeliveredIsNotEarly'
  BY <1>1 DEF IInv, ResultIsOwn, DeliveredIsNotEarly, TypeOK, Early
<1> QED
  BY <1>4, <1>5, <1>6 DEF IInv

\* The entry under a request's id is the call that made it.
LEMMA HandleResponseIInv ==
    ASSUME IInv, TypeOK', NEW r \in Readers, NEW q \in asked[r], HandleResponse(r, q)
    PROVE  IInv'
<1> DEFINE c == q.call
<1>1. /\ c \in Calls /\ c # NoCall /\ q \in Request
      /\ pc[c] \notin Early /\ c \in delivered
      /\ futures[r][q.id] = c /\ future[c] # "result"
  BY CallerAssumption DEF IInv, TypeOK, Request, AskedIsEntered
<1>2. /\ asked' = [asked EXCEPT ![r] = @ \ {q}]
      /\ UNCHANGED <<pc, reader, id, known, futures, eof, delivered>>
  BY DEF HandleResponse, tableVars
<1>3. \/ /\ future' = [future EXCEPT ![c] = "result"]
         /\ answer' = [answer EXCEPT ![c] = c]
      \/ UNCHANGED <<future, answer>>
  BY <1>1 DEF HandleResponse
<1>4. \A s \in Readers : asked'[s] \subseteq asked[s] /\ q \notin asked'[r]
  BY <1>2 DEF IInv, TypeOK
<1>5. AskedIsEntered'
  <2> SUFFICES ASSUME NEW s \in Readers, NEW p \in asked'[s]
               PROVE  /\ pc[p.call] \notin Early
                      /\ p.call \in delivered
                      /\ reader[p.call] = s
                      /\ id[p.call] = p.id
                      /\ s \in known
                      /\ futures[s][p.id] = p.call
                      /\ future'[p.call] # "result"
    BY <1>2 DEF AskedIsEntered
  <2>1. p \in asked[s] /\ p \in Request
    BY <1>4 DEF IInv, TypeOK
  <2>2. /\ pc[p.call] \notin Early /\ p.call \in delivered
        /\ reader[p.call] = s /\ id[p.call] = p.id /\ s \in known
        /\ futures[s][p.id] = p.call /\ future[p.call] # "result"
    BY <2>1 DEF IInv, AskedIsEntered
  <2>3. reader[c] = r /\ id[c] = q.id
    BY DEF IInv, AskedIsEntered
  <2>4. p.call # c
    <3> SUFFICES ASSUME p.call = c PROVE FALSE
      OBVIOUS
    <3>1. s = r /\ p.id = q.id
      BY <2>2, <2>3
    <3>2. p = q
      BY <1>1, <2>1, <3>1 DEF Request
    <3> QED
      BY <1>4, <3>1, <3>2
  <2> QED
    BY <1>1, <1>3, <2>1, <2>2, <2>4 DEF IInv, TypeOK, Request
<1>6. EnteredOrDead'
  BY <1>2, <1>4 DEF IInv, EnteredOrDead, Entered, Dead
<1>7. ResultIsOwn' /\ DeliveredIsNotEarly'
  BY <1>1, <1>2, <1>3 DEF IInv, TypeOK, ResultIsOwn, DeliveredIsNotEarly
<1> QED
  BY <1>5, <1>6, <1>7 DEF IInv

\* The table that is cleared is that of a connection that has ended.
LEMMA HandlerAtEofIInv ==
    ASSUME IInv, TypeOK', NEW r \in Readers, HandlerAtEof(r) PROVE IInv'
<1>1. /\ Dead(r)
      /\ known' = known \ {r}
      /\ futures' = [futures EXCEPT ![r] = NoFutures]
      /\ UNCHANGED <<pc, reader, id, answer, eof, asked, delivered>>
  BY DEF HandlerAtEof, EndHandler, Dead, netVars
<1>2. \A c \in Calls : future'[c] = "result" <=> future[c] = "result"
  BY DEF HandlerAtEof, EndHandler, Pending
<1>3. AskedIsEntered'
  BY <1>1, <1>2 DEF IInv, TypeOK, Request, AskedIsEntered, Dead
<1>4. EnteredOrDead'
  BY <1>1 DEF IInv, TypeOK, EnteredOrDead, Entered, Dead
<1>5. ResultIsOwn' /\ DeliveredIsNotEarly'
  BY <1>1, <1>2 DEF IInv, ResultIsOwn, DeliveredIsNotEarly
<1> QED
  BY <1>3, <1>4, <1>5 DEF IInv

\* Requests may be lost with their connection.
LEMMA ConnectionIInv ==
    ASSUME IInv, TypeOK', NEW r \in Readers, PeerCloses(r) \/ ConnectionLost(r)
    PROVE  IInv'
<1>1. /\ eof' = eof \cup {r}
      /\ UNCHANGED <<callVars, tableVars, delivered>>
      /\ \A s \in Readers : asked'[s] \subseteq asked[s]
  BY DEF PeerCloses, ConnectionLost, IInv, TypeOK
<1>2. AskedIsEntered'
  BY <1>1 DEF IInv, AskedIsEntered, callVars, tableVars
<1>3. EnteredOrDead'
  BY <1>1 DEF IInv, EnteredOrDead, Entered, Dead, callVars, tableVars
<1>4. ResultIsOwn' /\ DeliveredIsNotEarly'
  BY <1>1 DEF IInv, ResultIsOwn, DeliveredIsNotEarly, callVars
<1> QED
  BY <1>2, <1>3, <1>4 DEF IInv

LEMMA StutterIInv == IInv /\ UNCHANGED vars => IInv'
BY DEF IInv, TypeOK, AskedIsEntered, EnteredOrDead, Entered, Dead, ResultIsOwn,
   DeliveredIsNotEarly, vars, callVars, tableVars, netVars

LEMMA NextIInv == ASSUME Garbled = FALSE, IInv, [Next]_vars PROVE IInv'
<1>1. TypeOK'
  BY NextTypeOK DEF IInv
<1>2. ASSUME NEW c \in Calls, CallStep(c) PROVE IInv'
  BY <1>1, <1>2, CallIInvSimple, CancelIInv, RegisterIInv, ExhaustedIInv,
     LockAndWriteIInv, ResumeIInv DEF CallStep
<1>3. ASSUME NEW r \in Readers,
             HandlerStep(r) \/ PeerCloses(r) \/ ConnectionLost(r)
      PROVE  IInv'
  BY <1>1, <1>3, HandleResponseIInv, HandlerAtEofIInv, ConnectionIInv
     DEF HandlerStep, HandlerFails
<1> QED
  BY <1>2, <1>3, StutterIInv DEF Next

LEMMA Invariance == ASSUME Garbled = FALSE PROVE Spec => []IInv
<1>1. IInv /\ [Next]_vars => IInv'
  BY NextIInv
<1> QED
  BY InitIInv, <1>1, PTL DEF Spec

\* As long as answers decode, no call is ever given the answer to another call,
\* however small max_request_ids is, however many calls are cancelled and in
\* whatever order the peer answers.
THEOREM AlwaysOwnAnswer == ASSUME Garbled = FALSE PROVE Spec => []OwnAnswer
<1>1. IInv => OwnAnswer
  BY DEF IInv, ResultIsOwn, OwnAnswer
<1> QED
  BY Invariance, <1>1, PTL

----------------------------------------------------------------------------
(* Who keeps an id, and who holds the lock; whether answers decode or not.  *)

\* The table of a connection holds calls that took their id from it and were
\* not answered.
TableHoldsKeepers ==
    \A r \in Readers, i \in Ids :
        LET d == futures[r][i]
        IN  d # NoCall => d \in Keepers /\ reader[d] = r /\ id[d] = i

Writing == {"locking", "draining"}

HaveReader == \A c \in Calls : pc[c] \in Writing \cup {"waiting"} => reader[c] \in Readers

CInv == TypeOK /\ TableHoldsKeepers /\ HaveReader /\ LockHolderDrains

LEMMA InitCInv == Init => CInv
BY InitTypeOK, CallerAssumption
   DEF Init, CInv, TableHoldsKeepers, HaveReader, LockHolderDrains, NoFutures, Writing

\* Tables and ids as they were, and each keeper still one.
LEMMA KeepersStay ==
    ASSUME CInv, UNCHANGED <<reader, id, futures>>, Keepers \subseteq Keepers'
    PROVE  TableHoldsKeepers'
BY DEF CInv, TableHoldsKeepers

LEMMA CallCInv == ASSUME CInv, TypeOK', NEW c \in Calls, CallStep(c) PROVE CInv'
<1> USE CallerAssumption DEF Writing, Keepers
<1>1. CASE Start(c) \/ NoNode(c) \/ ConnectFails(c) \/ ResumeFailed(c)
  <2>1. TableHoldsKeepers'
    <3>1. UNCHANGED <<reader, id, futures>>
      BY <1>1 DEF Start, NoNode, ConnectFails, ResumeFailed, tableVars
    <3>2. Keepers \subseteq Keepers'
      BY <1>1 DEF CInv, TypeOK, Start, NoNode, ConnectFails, ResumeFailed
    <3> QED
      BY <3>1, <3>2, KeepersStay
  <2>2. HaveReader' /\ LockHolderDrains'
    BY <1>1 DEF CInv, TypeOK, HaveReader, LockHolderDrains, Start, NoNode,
       ConnectFails, ResumeFailed
  <2> QED
    BY <2>1, <2>2 DEF CInv
<1>2. CASE Register(c)
  <2> PICK r \in Readers, end \in {"locking", "failed"} :
        /\ reader' = [reader EXCEPT ![c] = r]
        /\ \E i \in NextFree(r) :
            /\ id' = [id EXCEPT ![c] = i]
            /\ futures' = [futures EXCEPT ![r][i] = c]
            /\ pc' = [pc EXCEPT ![c] = end]
    BY <1>2 DEF Register
  <2> PICK i \in NextFree(r) :
        /\ id' = [id EXCEPT ![c] = i]
        /\ futures' = [futures EXCEPT ![r][i] = c]
        /\ pc' = [pc EXCEPT ![c] = end]
    OBVIOUS
  <2>1. i \in Ids /\ pc[c] = "connecting" /\ UNCHANGED writerLock
    BY <1>2 DEF NextFree, Free, Register
  <2>2. \A s \in Readers, j \in Ids :
          futures'[s][j] = IF s = r /\ j = i THEN c ELSE futures[s][j]
    BY <2>1 DEF CInv, TypeOK
  <2>3. TableHoldsKeepers'
    BY <2>1, <2>2 DEF CInv, TypeOK, TableHoldsKeepers
  <2>4. HaveReader' /\ LockHolderDrains'
    BY <2>1 DEF CInv, TypeOK, HaveReader, LockHolderDrains
  <2> QED
    BY <2>3, <2>4 DEF CInv
<1>3. CASE Exhausted(c)
  <2>1. Keepers \subseteq Keepers'
    BY <1>3 DEF CInv, TypeOK, Exhausted
  <2>2. TableHoldsKeepers'
    BY <1>3, <2>1, KeepersStay DEF Exhausted
  <2>3. HaveReader' /\ LockHolderDrains'
    BY <1>3 DEF CInv, TypeOK, HaveReader, LockHolderDrains, Exhausted
  <2> QED
    BY <2>2, <2>3 DEF CInv
<1>4. CASE LockAndWrite(c)
  <2>1. /\ pc[c] = "locking" /\ pc' = [pc EXCEPT ![c] = "draining"]
        /\ writerLock[reader[c]] = NoCall
        /\ writerLock' = [writerLock EXCEPT ![reader[c]] = c]
        /\ UNCHANGED <<reader, id, futures>>
    BY <1>4 DEF LockAndWrite, tableVars
  <2>2. TableHoldsKeepers'
    <3>1. Keepers \subseteq Keepers'
      BY <2>1 DEF CInv, TypeOK
    <3> QED
      BY <2>1, <3>1, KeepersStay
  <2>3. HaveReader' /\ LockHolderDrains'
    BY <2>1 DEF CInv, TypeOK, HaveReader, LockHolderDrains
  <2> QED
    BY <2>2, <2>3 DEF CInv
<1>5. CASE Drained(c) \/ DrainFails(c)
  <2>1. /\ pc[c] = "draining"
        /\ pc' = [pc EXCEPT ![c] = "waiting"] \/ pc' = [pc EXCEPT ![c] = "failed"]
        /\ writerLock' = [writerLock EXCEPT ![reader[c]] = NoCall]
        /\ UNCHANGED <<reader, id, futures>>
    BY <1>5 DEF Drained, DrainFails, tableVars
  <2>2. TableHoldsKeepers'
    <3>1. Keepers \subseteq Keepers'
      BY <2>1 DEF CInv, TypeOK
    <3> QED
      BY <2>1, <3>1, KeepersStay
  <2>3. HaveReader' /\ LockHolderDrains'
    BY <2>1 DEF CInv, TypeOK, HaveReader, LockHolderDrains
  <2> QED
    BY <2>2, <2>3 DEF CInv
<1>6. CASE Resume(c)
  <2>1. /\ pc[c] = "waiting" /\ pc' = [pc EXCEPT ![c] = "returned"]
        /\ futures' = [futures EXCEPT ![reader[c]][id[c]] = NoCall]
        /\ reader[c] \in Readers /\ id[c] \in Ids
        /\ UNCHANGED <<reader, id, writerLock>>
    BY <1>6 DEF CInv, TypeOK, HaveReader, Resume
  <2>2. \A s \in Readers, j \in Ids :
          futures'[s][j] = IF s = reader[c] /\ j = id[c] THEN NoCall ELSE futures[s][j]
    BY <2>1 DEF CInv, TypeOK
  <2>3. \A d \in Keepers : d # c => d \in Keepers'
    BY <2>1 DEF CInv, TypeOK
  <2>4. TableHoldsKeepers'
    <3> SUFFICES ASSUME NEW s \in Readers, NEW j \in Ids, futures'[s][j] # NoCall
                 PROVE  LET d == futures'[s][j]
                        IN  d \in Keepers' /\ reader'[d] = s /\ id'[d] = j
      BY DEF TableHoldsKeepers
    <3>1. futures'[s][j] = futures[s][j] /\ ~(s = reader[c] /\ j = id[c])
      BY <2>2
    <3>2. LET d == futures[s][j] IN d \in Keepers /\ reader[d] = s /\ id[d] = j
      BY <3>1 DEF CInv, TableHoldsKeepers
    <3> QED
      BY <2>1, <2>3, <3>1, <3>2
  <2>5. HaveReader' /\ LockHolderDrains'
    BY <2>1 DEF CInv, TypeOK, HaveReader, LockHolderDrains
  <2> QED
    BY <2>4, <2>5 DEF CInv
<1>7. CASE Cancel(c)
  <2>1. TableHoldsKeepers'
    <3>1. UNCHANGED <<reader, id, futures>>
      BY <1>7 DEF Cancel, tableVars
    <3>2. Keepers \subseteq Keepers'
      BY <1>7 DEF CInv, TypeOK, Cancel, Active
    <3> QED
      BY <3>1, <3>2, KeepersStay
  <2>2. HaveReader' /\ LockHolderDrains'
    BY <1>7 DEF CInv, TypeOK, HaveReader, LockHolderDrains, Cancel, Active
  <2> QED
    BY <2>1, <2>2 DEF CInv
<1> QED
  BY <1>1, <1>2, <1>3, <1>4, <1>5, <1>6, <1>7 DEF CallStep

LEMMA ReaderCInv ==
    ASSUME CInv, TypeOK', NEW r \in Readers,
           HandlerStep(r) \/ PeerCloses(r) \/ ConnectionLost(r)
    PROVE  CInv'
<1>1. UNCHANGED <<pc, reader, id, writerLock>>
  BY DEF HandlerStep, HandleResponse, HandlerFails, HandlerAtEof, PeerCloses,
     ConnectionLost, callVars
<1>2. futures' = futures \/ futures' = [futures EXCEPT ![r] = NoFutures]
  BY DEF HandlerStep, HandleResponse, HandlerFails, HandlerAtEof, PeerCloses,
     ConnectionLost, EndHandler, tableVars
<1>3. TableHoldsKeepers'
  BY <1>1, <1>2 DEF CInv, TypeOK, TableHoldsKeepers, Keepers, NoFutures
<1>4. HaveReader' /\ LockHolderDrains'
  BY <1>1 DEF CInv, HaveReader, LockHolderDrains
<1> QED
  BY <1>3, <1>4 DEF CInv

LEMMA NextCInv == CInv /\ [Next]_vars => CInv'
<1>1. CInv /\ [Next]_vars => TypeOK'
  BY NextTypeOK DEF CInv
<1>2. CInv /\ UNCHANGED vars => CInv'
  BY DEF CInv, TypeOK, TableHoldsKeepers, Keepers, HaveReader, LockHolderDrains,
     vars, callVars, tableVars, netVars
<1> QED
  BY <1>1, <1>2, CallCInv, ReaderCInv DEF Next

LEMMA CInvariance == Spec => []CInv
BY InitCInv, NextCInv, PTL DEF Spec

\* The lock of each writer is held by the call that drains there and by no
\* other, however calls are cancelled and fail.
THEOREM AlwaysLockHolderDrains == Spec => []LockHolderDrains
<1>1. CInv => LockHolderDrains
  BY DEF CInv
<1> QED
  BY CInvariance, <1>1, PTL

\* A call is refused only if every id of its connection is kept by a call that
\* is under way, was cancelled or failed.
THEOREM AlwaysRefusedOnlyWhenTaken == Spec => RefusedOnlyWhenTaken
<1> DEFINE Refusal ==
      \A c \in Calls : pc[c] = "connecting" /\ pc'[c] = "exhausted" =>
        \A i \in Ids : \E d \in Keepers \ {c} : reader[d] = conn' /\ id[d] = i
<1>1. CInv /\ [Next]_vars => [Refusal]_vars
  <2> SUFFICES ASSUME CInv, Next, NEW c \in Calls, pc[c] = "connecting",
                      pc'[c] = "exhausted", NEW i \in Ids
               PROVE  \E d \in Keepers \ {c} : reader[d] = conn' /\ id[d] = i
    BY DEF vars, callVars
  <2>1. Exhausted(c)
    <3>1. ASSUME NEW e \in Calls, CallStep(e) PROVE Exhausted(c)
      <4>1. e # c => pc'[c] = pc[c]
        BY <3>1 DEF CallStep, Start, NoNode, ConnectFails, Register, Exhausted,
           LockAndWrite, Drained, DrainFails, Resume, ResumeFailed, Cancel,
           CInv, TypeOK
      <4> QED
        BY <3>1, <4>1 DEF CallStep, Start, NoNode, ConnectFails, Register, Exhausted,
           LockAndWrite, Drained, DrainFails, Resume, ResumeFailed, Cancel,
           CInv, TypeOK
    <3>2. ASSUME NEW r \in Readers,
                 HandlerStep(r) \/ PeerCloses(r) \/ ConnectionLost(r)
          PROVE  pc' = pc
      BY <3>2 DEF HandlerStep, HandleResponse, HandlerFails, HandlerAtEof, PeerCloses,
         ConnectionLost, callVars
    <3> QED
      BY <3>1, <3>2 DEF Next
  <2>2. conn' \in Readers /\ Free(conn') = {}
    BY <2>1 DEF Exhausted
  <2>3. futures[conn'][i] # NoCall
    BY <2>2 DEF Free
  <2>4. LET d == futures[conn'][i]
        IN  d \in Keepers /\ reader[d] = conn' /\ id[d] = i
    BY <2>2, <2>3 DEF CInv, TableHoldsKeepers
  <2>5. c \notin Keepers
    BY DEF Keepers
  <2> QED
    BY <2>4, <2>5
<1> QED
  BY CInvariance, <1>1, PTL DEF Spec, RefusedOnlyWhenTaken

----------------------------------------------------------------------------
(* Who waits is registered, as long as ids do not wrap around.             *)

Registered == {c \in Calls : reader[c] # 0}

NoReaderEarly == \A c \in Calls : pc[c] \in {"idle", "connecting"} => reader[c] = 0

\* Ids are given out in order, one to each call.
IdsInOrder ==
    /\ Cardinality(Registered) < MaxIds => nextId = Cardinality(Registered)
    /\ \A c \in Registered : id[c] < Cardinality(Registered)
    /\ \A c, d \in Registered : c # d => id[c] # id[d]

WInv == CInv /\ NoReaderEarly /\ IdsInOrder /\ WaiterIsRegistered

LEMMA InitWInv == Init => WInv
<1> SUFFICES ASSUME Init PROVE WInv
  OBVIOUS
<1>1. Registered = {} /\ Cardinality({}) = 0
  BY FS_EmptySet DEF Init, Registered
<1> QED
  BY <1>1, InitCInv DEF Init, WInv, NoReaderEarly, IdsInOrder, WaiterIsRegistered

LEMMA DistanceIsZero ==
    \A i, j \in Ids : (i - i) % MaxIds = 0 /\ (i - j) % MaxIds \in Nat
                    /\ ((i - j) % MaxIds = 0 => i = j)
<1> SUFFICES ASSUME NEW i \in Ids, NEW j \in Ids
             PROVE  /\ (i - i) % MaxIds = 0 /\ (i - j) % MaxIds \in Nat
                    /\ (i - j) % MaxIds = 0 => i = j
  OBVIOUS
<1>1. (i - i) % MaxIds = 0 /\ (i - j) % MaxIds \in Nat
  BY CallerAssumption DEF Ids
<1>2. (i - j) % MaxIds = 0 => i = j
  BY CallerAssumption DEF Ids
<1> QED
  BY <1>1, <1>2

\* The id a call takes is the next one, which nobody has had before.
LEMMA TakesNextId ==
    ASSUME IsFiniteSet(Calls), Cardinality(Calls) <= MaxIds, WInv,
           NEW c \in Calls, pc[c] = "connecting", NEW r \in Readers, NEW i \in NextFree(r)
    PROVE  /\ c \notin Registered
           /\ Cardinality(Registered) \in Nat /\ Cardinality(Registered) < MaxIds
           /\ Cardinality(Registered \cup {c}) = Cardinality(Registered) + 1
           /\ i = Cardinality(Registered) /\ nextId = i
           /\ i \in Ids /\ futures[r][i] = NoCall
<1> DEFINE n == Cardinality(Registered)
<1>1. c \notin Registered
  BY DEF WInv, NoReaderEarly, Registered
<1>2. IsFiniteSet(Registered) /\ n \in Nat
  BY FS_Subset, FS_CardinalityType DEF Registered
<1>3. Cardinality(Registered \cup {c}) = n + 1
  BY <1>1, <1>2, FS_AddElement
<1>4. n + 1 <= Cardinality(Calls) /\ Cardinality(Calls) \in Nat
  BY <1>3, FS_Subset, FS_CardinalityType DEF Registered
<1>5. n < MaxIds /\ nextId = n /\ n \in Ids
  BY <1>2, <1>4, CallerAssumption DEF WInv, IdsInOrder, Ids
<1>6. n \in Free(r)
  <2> SUFFICES ASSUME futures[r][n] # NoCall PROVE FALSE
    BY <1>5 DEF Free
  <2> DEFINE d == futures[r][n]
  <2>1. d \in Calls /\ reader[d] = r /\ id[d] = n
    BY <1>5 DEF WInv, CInv, TableHoldsKeepers, Keepers
  <2>2. d \in Registered
    BY <2>1 DEF Registered, Readers
  <2> QED
    BY <1>2, <2>1, <2>2 DEF WInv, IdsInOrder
<1>7. i \in Ids /\ futures[r][i] = NoCall /\ Distance(i) <= Distance(n)
  BY <1>6 DEF NextFree, Free
<1>8. i = n
  BY <1>5, <1>7, DistanceIsZero DEF Distance
<1> QED
  BY <1>1, <1>2, <1>3, <1>5, <1>7, <1>8

LEMMA RegisterWInv ==
    ASSUME IsFiniteSet(Calls), Cardinality(Calls) <= MaxIds, WInv, NEW c \in Calls, Register(c)
    PROVE  NoReaderEarly' /\ IdsInOrder' /\ WaiterIsRegistered'
<1>1. PICK r \in Readers, end \in {"locking", "failed"} :
        /\ known' = known \cup {r}
        /\ reader' = [reader EXCEPT ![c] = r]
        /\ \E i \in NextFree(r) :
            /\ id' = [id EXCEPT ![c] = i]
            /\ nextId' = (i + 1) % MaxIds
            /\ futures' = [futures EXCEPT ![r][i] = c]
            /\ future' = [future EXCEPT ![c] = "pending"]
            /\ pc' = [pc EXCEPT ![c] = end]
  BY DEF Register
<1>2. PICK i \in NextFree(r) :
        /\ id' = [id EXCEPT ![c] = i]
        /\ nextId' = (i + 1) % MaxIds
        /\ futures' = [futures EXCEPT ![r][i] = c]
        /\ future' = [future EXCEPT ![c] = "pending"]
        /\ pc' = [pc EXCEPT ![c] = end]
  BY <1>1
<1>3. TypeOK /\ pc[c] = "connecting"
  BY DEF WInv, CInv, Register
<1> DEFINE n == Cardinality(Registered)
<1>4. /\ c \notin Registered /\ n \in Nat /\ n < MaxIds
      /\ Cardinality(Registered \cup {c}) = n + 1
      /\ i = n /\ i \in Ids /\ futures[r][i] = NoCall
  BY <1>3, TakesNextId
<1>5. Registered' = Registered \cup {c}
  BY <1>1, <1>3, CallerAssumption DEF Registered, TypeOK, Readers
<1>6. Cardinality(Registered') = n + 1
  BY <1>4, <1>5
<1> HIDE DEF n
<1>7. NoReaderEarly'
  BY <1>1, <1>2, <1>3 DEF WInv, NoReaderEarly, TypeOK
<1>8. IdsInOrder'
  <2>1. n + 1 < MaxIds => nextId' = n + 1
    BY <1>2, <1>4, CallerAssumption
  <2>2. \A d \in Registered : id[d] < n /\ id[d] \in Nat /\ id'[d] = id[d]
    BY <1>2, <1>3, <1>4, CallerAssumption DEF WInv, IdsInOrder, n, TypeOK, Ids, Registered
  <2>3. id'[c] = n
    BY <1>2, <1>3, <1>4 DEF TypeOK
  <2>4. \A d \in Registered \cup {c} : id'[d] < n + 1
    BY <1>4, <2>2, <2>3
  <2>5. \A d, e \in Registered \cup {c} : d # e => id'[d] # id'[e]
    BY <1>4, <2>2, <2>3 DEF WInv, IdsInOrder
  <2> QED
    BY <1>5, <1>6, <2>1, <2>4, <2>5 DEF IdsInOrder
<1>9. WaiterIsRegistered'
  <2>1. \A s \in Readers, j \in Ids :
          futures'[s][j] = IF s = r /\ j = i THEN c ELSE futures[s][j]
    BY <1>2, <1>3, <1>4 DEF TypeOK
  <2> SUFFICES ASSUME NEW d \in Calls, pc'[d] \in {"locking", "draining", "waiting"},
                      future'[d] = "pending"
               PROVE  reader'[d] \in known' /\ futures'[reader'[d]][id'[d]] = d
    BY DEF WaiterIsRegistered
  <2>2. CASE d = c
    BY <1>1, <1>2, <1>3, <1>4, <2>1, <2>2 DEF TypeOK
  <2>3. CASE d # c
    <3>1. /\ reader'[d] = reader[d] /\ id'[d] = id[d] /\ pc'[d] = pc[d]
          /\ future'[d] = future[d]
      BY <1>1, <1>2, <1>3, <2>3 DEF TypeOK
    <3>2. reader[d] \in known /\ futures[reader[d]][id[d]] = d
      BY <3>1 DEF WInv, WaiterIsRegistered
    <3>3. reader[d] \in Readers /\ id[d] \in Ids /\ d # NoCall
      BY <1>3, <3>2, CallerAssumption DEF TypeOK
    <3> QED
      BY <1>1, <1>4, <2>1, <3>1, <3>2, <3>3
  <2> QED
    BY <2>2, <2>3
<1> QED
  BY <1>7, <1>8, <1>9

LEMMA CallWInv ==
    ASSUME IsFiniteSet(Calls), Cardinality(Calls) <= MaxIds, WInv, NEW c \in Calls, CallStep(c)
    PROVE  NoReaderEarly' /\ IdsInOrder' /\ WaiterIsRegistered'
<1>1. CASE Register(c)
  BY <1>1, RegisterWInv
\* Nothing but Register() gives out ids.
<1>2. ASSUME UNCHANGED <<reader, id, nextId>>
      PROVE  IdsInOrder'
  BY <1>2 DEF WInv, IdsInOrder, Registered
<1>3. TypeOK
  BY DEF WInv, CInv
<1>4. CASE Resume(c)
  <2>1. /\ pc[c] = "waiting" /\ pc' = [pc EXCEPT ![c] = "returned"]
        /\ futures' = [futures EXCEPT ![reader[c]][id[c]] = NoCall]
        /\ UNCHANGED <<reader, id, nextId, known, future>>
    BY <1>4 DEF Resume
  <2>2. reader[c] \in Readers /\ id[c] \in Ids /\ c \in Registered
    BY <1>3, <2>1 DEF WInv, CInv, HaveReader, TypeOK, Registered, Readers
  <2>3. NoReaderEarly'
    BY <1>3, <2>1 DEF WInv, NoReaderEarly, TypeOK
  <2>4. WaiterIsRegistered'
    <3> SUFFICES ASSUME NEW d \in Calls, pc'[d] \in {"locking", "draining", "waiting"},
                        future[d] = "pending"
                 PROVE  reader[d] \in known /\ futures'[reader[d]][id[d]] = d
      BY <2>1 DEF WaiterIsRegistered
    <3>1. d # c /\ pc[d] = pc'[d]
      BY <1>3, <2>1 DEF TypeOK
    <3>2. reader[d] \in known /\ futures[reader[d]][id[d]] = d /\ reader[d] \in Readers
      BY <1>3, <3>1 DEF WInv, WaiterIsRegistered, TypeOK
    <3>3. id[d] \in Ids /\ id[d] # id[c]
      BY <1>3, <2>2, <3>1, <3>2 DEF WInv, IdsInOrder, Registered, TypeOK, Readers
    <3> QED
      BY <1>3, <2>1, <2>2, <3>2, <3>3 DEF TypeOK
  <2> QED
    BY <1>2, <2>1, <2>3, <2>4
<1>5. CASE Cancel(c)
  BY <1>2, <1>3, <1>5
     DEF Cancel, tableVars, Active, WInv, NoReaderEarly, WaiterIsRegistered, TypeOK
<1>6. CASE \/ Start(c) \/ NoNode(c) \/ ConnectFails(c) \/ Exhausted(c) \/ LockAndWrite(c)
           \/ Drained(c) \/ DrainFails(c) \/ ResumeFailed(c)
  <2>1. /\ UNCHANGED <<reader, id, nextId, future, futures>>
        /\ known \subseteq known'
        /\ \E p \in {"connecting", "failed", "exhausted", "draining", "waiting"} :
            /\ pc' = [pc EXCEPT ![c] = p]
            /\ p = "connecting" => pc[c] = "idle"
            /\ p = "draining" => pc[c] = "locking"
            /\ p = "waiting" => pc[c] = "draining"
    BY <1>6 DEF Start, NoNode, ConnectFails, Exhausted, LockAndWrite, Drained, DrainFails,
       ResumeFailed, tableVars
  <2> QED
    BY <1>2, <1>3, <2>1 DEF WInv, NoReaderEarly, WaiterIsRegistered, TypeOK
<1> QED
  BY <1>1, <1>4, <1>5, <1>6 DEF CallStep

LEMMA ReaderWInv ==
    ASSUME WInv, NEW r \in Readers, HandlerStep(r) \/ PeerCloses(r) \/ ConnectionLost(r)
    PROVE  NoReaderEarly' /\ IdsInOrder' /\ WaiterIsRegistered'
<1>1. UNCHANGED <<pc, reader, id, nextId>> /\ TypeOK
  BY DEF HandlerStep, HandleResponse, HandlerFails, HandlerAtEof, PeerCloses, ConnectionLost,
     callVars, tableVars, WInv, CInv
<1>2. NoReaderEarly' /\ IdsInOrder'
  BY <1>1 DEF WInv, NoReaderEarly, IdsInOrder, Registered
<1>3. CASE /\ UNCHANGED <<known, futures>>
           /\ \A c \in Calls : future'[c] = "pending" => future[c] = "pending"
  <2> SUFFICES ASSUME NEW c \in Calls, pc[c] \in {"locking", "draining", "waiting"},
                      future'[c] = "pending"
               PROVE  reader[c] \in known /\ futures[reader[c]][id[c]] = c
    BY <1>1, <1>2, <1>3 DEF WaiterIsRegistered
  <2> QED
    BY <1>3 DEF WInv, WaiterIsRegistered
<1>4. CASE EndHandler(r)
  <2> SUFFICES ASSUME NEW c \in Calls, pc[c] \in {"locking", "draining", "waiting"},
                      future'[c] = "pending"
               PROVE  reader[c] \in known' /\ futures'[reader[c]][id[c]] = c
    BY <1>1, <1>2 DEF WaiterIsRegistered
  <2>1. future[c] = "pending" /\ c \notin Pending(r)
    BY <1>4 DEF EndHandler
  <2>2. reader[c] \in known /\ futures[reader[c]][id[c]] = c
    BY <2>1 DEF WInv, WaiterIsRegistered
  <2>3. reader[c] # r
    BY <1>1, <2>1, <2>2 DEF Pending, TypeOK
  <2> QED
    BY <1>1, <1>4, <2>2, <2>3 DEF EndHandler, TypeOK
<1>5. ASSUME NEW q \in asked[r], HandleResponse(r, q)
      PROVE  \A c \in Calls : future'[c] = "pending" => future[c] = "pending"
  BY <1>1, <1>5 DEF HandleResponse, TypeOK
<1> QED
  BY <1>2, <1>3, <1>4, <1>5
     DEF HandlerStep, HandleResponse, HandlerFails, HandlerAtEof, PeerCloses, ConnectionLost,
         callVars, tableVars

LEMMA NextWInv ==
    ASSUME IsFiniteSet(Calls), Cardinality(Calls) <= MaxIds
    PROVE  WInv /\ [Next]_vars => WInv'
<1>1. WInv /\ UNCHANGED vars => NoReaderEarly' /\ IdsInOrder' /\ WaiterIsRegistered'
  BY DEF WInv, NoReaderEarly, IdsInOrder, Registered, WaiterIsRegistered, vars, callVars,
     tableVars
<1> SUFFICES ASSUME WInv, [Next]_vars PROVE WInv'
  OBVIOUS
<1>2. CInv'
  BY NextCInv DEF WInv
<1>3. NoReaderEarly' /\ IdsInOrder' /\ WaiterIsRegistered'
  BY <1>1, CallWInv, ReaderWInv DEF Next
<1> QED
  BY <1>2, <1>3 DEF WInv

\* With at least as many ids as calls, a call that waits can be completed or
\* failed by a live handler, also when answers fail to decode.
THEOREM AlwaysWaiterIsRegistered ==
    ASSUME IsFiniteSet(Calls), Cardinality(Calls) <= MaxIds
    PROVE  Spec => []WaiterIsRegistered
<1>1. WInv => WaiterIsRegistered
  BY DEF WInv
<1> QED
  BY InitWInv, NextWInv, <1>1, PTL DEF Spec

----------------------------------------------------------------------------
(* Nobody is stuck.                                                        *)

\* A future is pending or done from the time it is entered until its call ends.
FutureIsSet ==
    \A c \in Calls : pc[c] \in Writing \cup {"waiting"} =>
        future[c] \in {"pending", "result", "exception"}

\* What was written and not answered is with the peer, or the peer has closed.
StillAsked ==
    \A c \in Calls :
        pc[c] \in {"draining", "waiting"} /\ future[c] = "pending" =>
            \/ reader[c] \in eof
            \/ [id |-> id[c], call |-> c] \in asked[reader[c]]

AnswerInv == FutureIsSet /\ StillAsked

LEMMA InitAnswerInv == Init => AnswerInv
BY DEF Init, AnswerInv, FutureIsSet, StillAsked, Writing

LEMMA CallAnswerInv ==
    ASSUME WInv, AnswerInv, NEW c \in Calls, CallStep(c) PROVE AnswerInv'
<1>1. TypeOK /\ HaveReader
  BY DEF WInv, CInv
<1>2. CASE Register(c)
  <2>1. PICK r \in Readers, i \in Ids, end \in {"locking", "failed"} :
          /\ reader' = [reader EXCEPT ![c] = r]
          /\ id' = [id EXCEPT ![c] = i]
          /\ future' = [future EXCEPT ![c] = "pending"]
          /\ pc' = [pc EXCEPT ![c] = end]
    BY <1>2 DEF Register, NextFree, Free
  <2>2. UNCHANGED <<eof, asked>>
    BY <1>2 DEF Register
  <2> QED
    BY <1>1, <2>1, <2>2 DEF AnswerInv, FutureIsSet, StillAsked, TypeOK, Writing
<1>3. CASE LockAndWrite(c)
  <2>1. /\ pc[c] = "locking" /\ pc' = [pc EXCEPT ![c] = "draining"]
        /\ UNCHANGED <<reader, id, future, eof>>
        /\ IF reader[c] \in eof THEN UNCHANGED asked
           ELSE asked' = [asked EXCEPT ![reader[c]] = @ \cup {[id |-> id[c], call |-> c]}]
    BY <1>3 DEF LockAndWrite
  <2>2. reader[c] \in Readers
    BY <1>1, <2>1 DEF HaveReader, Writing
  <2>3. \A r \in Readers : asked[r] \subseteq asked'[r]
    BY <1>1, <2>1, <2>2 DEF TypeOK
  <2>4. reader[c] \in eof \/ [id |-> id[c], call |-> c] \in asked'[reader[c]]
    BY <1>1, <2>1, <2>2 DEF TypeOK
  <2>5. FutureIsSet'
    BY <1>1, <2>1 DEF AnswerInv, FutureIsSet, TypeOK, Writing
  <2>6. StillAsked'
    <3> SUFFICES ASSUME NEW d \in Calls, pc'[d] \in {"draining", "waiting"},
                        future[d] = "pending", reader[d] \notin eof
                 PROVE  [id |-> id[d], call |-> d] \in asked'[reader[d]]
      BY <2>1 DEF StillAsked
    <3>1. CASE d = c
      BY <2>4, <3>1
    <3>2. CASE d # c
      <4>1. pc[d] \in {"draining", "waiting"}
        BY <1>1, <2>1, <3>2 DEF TypeOK
      <4>2. reader[d] \in Readers
        BY <1>1, <4>1 DEF HaveReader, Writing
      <4> QED
        BY <2>3, <4>1, <4>2 DEF AnswerInv, StillAsked
    <3> QED
      BY <3>1, <3>2
  <2> QED
    BY <2>5, <2>6 DEF AnswerInv
<1>4. CASE Cancel(c)
  <2>1. /\ pc' = [pc EXCEPT ![c] = "cancelled"]
        /\ \A d \in Calls : d # c => future'[d] = future[d]
        /\ UNCHANGED <<reader, id, eof, asked>>
    BY <1>1, <1>4 DEF Cancel, netVars, TypeOK
  <2> QED
    BY <1>1, <2>1 DEF AnswerInv, FutureIsSet, StillAsked, TypeOK, Writing
<1>5. CASE \/ Start(c) \/ NoNode(c) \/ ConnectFails(c) \/ Exhausted(c)
           \/ Drained(c) \/ DrainFails(c) \/ Resume(c) \/ ResumeFailed(c)
  <2>1. /\ UNCHANGED <<reader, id, future, eof, asked>>
        /\ \E p \in {"connecting", "failed", "exhausted", "returned", "waiting"} :
            /\ pc' = [pc EXCEPT ![c] = p]
            /\ p = "waiting" => pc[c] = "draining"
    BY <1>5 DEF Start, NoNode, ConnectFails, Exhausted, Drained, DrainFails, Resume,
       ResumeFailed, netVars
  <2> QED
    BY <1>1, <2>1 DEF AnswerInv, FutureIsSet, StillAsked, TypeOK, Writing
<1> QED
  BY <1>2, <1>3, <1>4, <1>5 DEF CallStep

LEMMA ReaderAnswerInv ==
    ASSUME WInv, AnswerInv, NEW r \in Readers,
           HandlerStep(r) \/ PeerCloses(r) \/ ConnectionLost(r)
    PROVE  AnswerInv'
<1>1. TypeOK /\ HaveReader /\ UNCHANGED <<pc, reader, id>>
  BY DEF WInv, CInv, HandlerStep, HandleResponse, HandlerFails, HandlerAtEof, PeerCloses,
     ConnectionLost, callVars
\* A future that is pending afterwards was pending, and is not in r's table if the
\* handler ended.
<1>2. ASSUME EndHandler(r)
      PROVE  /\ FutureIsSet'
             /\ \A c \in Calls :
                 pc[c] \in {"draining", "waiting"} /\ future'[c] = "pending"
                 => future[c] = "pending" /\ reader[c] # r
  <2>1. future' = [c \in Calls |-> IF c \in Pending(r) THEN "exception" ELSE future[c]]
    BY <1>2 DEF EndHandler
  <2>2. FutureIsSet'
    BY <1>1, <2>1 DEF AnswerInv, FutureIsSet
  <2>3. ASSUME NEW c \in Calls, pc[c] \in {"draining", "waiting"}, future'[c] = "pending"
        PROVE  future[c] = "pending" /\ reader[c] # r
    <3>1. future[c] = "pending" /\ c \notin Pending(r)
      BY <2>1, <2>3
    <3>2. futures[reader[c]][id[c]] = c /\ id[c] \in Ids
      BY <1>1, <2>3, <3>1 DEF WInv, WaiterIsRegistered, TypeOK
    <3> QED
      BY <3>1, <3>2 DEF Pending
  <2> QED
    BY <2>2, <2>3
<1>3. CASE HandlerAtEof(r)
  <2>1. UNCHANGED <<eof, asked>>
    BY <1>3 DEF HandlerAtEof, netVars
  <2> QED
    BY <1>1, <1>2, <1>3, <2>1 DEF HandlerAtEof, AnswerInv, StillAsked
<1>4. ASSUME NEW q \in asked[r], HandlerFails(r, q)
      PROVE  AnswerInv'
  <2>1. asked' = [asked EXCEPT ![r] = @ \ {q}] /\ UNCHANGED eof
    BY <1>4 DEF HandlerFails
  <2>2. \A s \in Readers : s # r => asked'[s] = asked[s]
    BY <1>1, <2>1 DEF TypeOK
  <2>3. FutureIsSet'
    BY <1>2, <1>4 DEF HandlerFails
  <2>4. StillAsked'
    <3> SUFFICES ASSUME NEW c \in Calls, pc[c] \in {"draining", "waiting"},
                        future'[c] = "pending", reader[c] \notin eof
                 PROVE  [id |-> id[c], call |-> c] \in asked'[reader[c]]
      BY <1>1, <2>1 DEF StillAsked
    <3>1. future[c] = "pending" /\ reader[c] # r
      BY <1>2, <1>4 DEF HandlerFails
    <3>2. reader[c] \in Readers
      BY <1>1 DEF HaveReader, Writing
    <3> QED
      BY <2>2, <3>1, <3>2 DEF AnswerInv, StillAsked
  <2> QED
    BY <2>3, <2>4 DEF AnswerInv
\* The answer that is read completes the future under its id, so what is still
\* pending is another call's.
<1>5. ASSUME NEW q \in asked[r], HandleResponse(r, q)
      PROVE  AnswerInv'
  <2> DEFINE o == futures[r][q.id]
  <2>1. /\ asked' = [asked EXCEPT ![r] = @ \ {q}] /\ UNCHANGED eof
        /\ IF o # NoCall /\ future[o] = "pending"
           THEN future' = [future EXCEPT ![o] = "result"]
           ELSE UNCHANGED future
    BY <1>5 DEF HandleResponse
  <2>2. q.id \in Ids /\ o \in Calls \cup {NoCall}
    BY <1>1 DEF TypeOK, Request
  <2>3. \A c \in Calls : future'[c] = future[c] \/ future'[c] = "result"
    BY <1>1, <2>1, <2>2 DEF TypeOK
  <2>4. FutureIsSet'
    BY <1>1, <2>3 DEF AnswerInv, FutureIsSet
  <2>5. StillAsked'
    <3> SUFFICES ASSUME NEW c \in Calls, pc[c] \in {"draining", "waiting"},
                        future'[c] = "pending", reader[c] \notin eof
                 PROVE  [id |-> id[c], call |-> c] \in asked'[reader[c]]
      BY <1>1, <2>1 DEF StillAsked
    <3>1. future[c] = "pending" /\ reader[c] \in Readers
      BY <1>1, <2>3 DEF HaveReader, Writing
    <3>2. [id |-> id[c], call |-> c] \in asked[reader[c]]
      BY <3>1 DEF AnswerInv, StillAsked
    <3>3. futures[reader[c]][id[c]] = c
      BY <3>1 DEF WInv, WaiterIsRegistered
    <3>4. reader[c] = r => q # [id |-> id[c], call |-> c]
      BY <1>1, <2>1, <2>2, <3>1, <3>3, CallerAssumption DEF TypeOK
    <3> QED
      BY <1>1, <2>1, <3>1, <3>2, <3>4 DEF TypeOK
  <2> QED
    BY <2>4, <2>5 DEF AnswerInv
<1>6. CASE PeerCloses(r) \/ ConnectionLost(r)
  <2>1. /\ eof' = eof \cup {r} /\ UNCHANGED future
        /\ \E kept \in SUBSET asked[r] : asked' = [asked EXCEPT ![r] = kept]
    BY <1>6 DEF PeerCloses, ConnectionLost, callVars
  <2>2. \A s \in Readers : s # r => asked'[s] = asked[s]
    BY <1>1, <2>1 DEF TypeOK
  <2>3. \A c \in Calls : pc[c] \in {"draining", "waiting"} => reader[c] \in Readers
    BY <1>1 DEF HaveReader, Writing
  <2> QED
    BY <1>1, <2>1, <2>2, <2>3 DEF AnswerInv, FutureIsSet, StillAsked
<1> QED
  BY <1>3, <1>4, <1>5, <1>6 DEF HandlerStep

\* With at least as many ids as calls, no call that is under way is ever stuck,
\* whatever is cancelled, lost, closed or garbled: the safety half of
\* EveryCallEnds.
THEOREM AlwaysNoCallIsStuck ==
    ASSUME IsFiniteSet(Calls), Cardinality(Calls) <= MaxIds
    PROVE  Spec => []NoCallIsStuck
<1>1. WInv /\ AnswerInv /\ UNCHANGED vars => AnswerInv'
  BY DEF AnswerInv, FutureIsSet, StillAsked, vars, callVars, netVars
<1>2. WInv /\ AnswerInv /\ [Next]_vars => WInv' /\ AnswerInv'
  BY <1>1, NextWInv, CallAnswerInv, ReaderAnswerInv DEF Next
<1>3. WInv /\ AnswerInv => NoCallIsStuck
  <2> SUFFICES ASSUME WInv, AnswerInv, NEW c \in Calls, pc[c] \in Active, ~CanMove(c)
               PROVE  \/ /\ pc[c] = "locking"
                         /\ \E d \in Calls : writerLock[reader[c]] = d /\ CanMove(d)
                      \/ /\ pc[c] = "waiting"
                         /\ reader[c] \in known
                         /\ \/ reader[c] \in eof
                            \/ [id |-> id[c], call |-> c] \in asked[reader[c]]
    BY DEF NoCallIsStuck
  <2>1. pc[c] = "locking" \/ pc[c] = "waiting"
    BY DEF Active, CanMove
  <2>2. CASE pc[c] = "locking"
    <3>1. reader[c] \in Readers /\ writerLock[reader[c]] # NoCall
      BY <2>2 DEF CanMove, WInv, CInv, HaveReader, Writing
    <3>2. writerLock[reader[c]] \in Calls
      BY <3>1 DEF WInv, CInv, TypeOK
    <3>3. pc[writerLock[reader[c]]] = "draining"
      BY <3>1, <3>2 DEF WInv, CInv, LockHolderDrains
    <3> QED
      BY <2>2, <3>2, <3>3 DEF CanMove
  <2>3. CASE pc[c] = "waiting"
    <3>1. future[c] = "pending"
      BY <2>3 DEF CanMove, AnswerInv, FutureIsSet
    <3> QED
      BY <2>3, <3>1 DEF WInv, WaiterIsRegistered, AnswerInv, StillAsked
  <2> QED
    BY <2>1, <2>2, <2>3
<1> QED
  BY InitWInv, InitAnswerInv, <1>2, <1>3, PTL DEF Spec

----------------------------------------------------------------------------
(* Refinement of RemoteCall.                                               *)

\* What RemoteCall sees of the state.
AbsStatus == [c \in Calls |-> Status(pc[c])]
AbsAnswer == [c \in Calls |-> IF pc[c] = "returned" THEN answer[c] ELSE NoCall]

LEMMA StatusOf ==
    /\ Status("idle") = "idle"
    /\ \A p \in Active : Status(p) = "open"
    /\ Status("returned") = "returned"
    /\ \A p \in {"failed", "exhausted", "cancelled"} : Status(p) = "failed"
BY DEF Status, Active

LEMMA InitPromise == Init => Promise!Init
<1> SUFFICES ASSUME Init PROVE Promise!Init
  OBVIOUS
<1>1. \A c \in Calls : Status(pc[c]) = "idle" /\ pc[c] = "idle"
  BY StatusOf DEF Init
<1> QED
  BY <1>1 DEF Init, Promise!Init

\* A step of one call changes what RemoteCall sees at that call only.
LEMMA CallSeen ==
    ASSUME TypeOK, NEW c \in Calls, NEW p, pc' = [pc EXCEPT ![c] = p],
           UNCHANGED answer, pc[c] # "returned"
    PROVE  /\ AbsStatus' = [AbsStatus EXCEPT ![c] = Status(p)]
           /\ p = "returned" => AbsAnswer' = [AbsAnswer EXCEPT ![c] = answer[c]]
           /\ p # "returned" => UNCHANGED AbsAnswer
BY DEF TypeOK, AbsStatus, AbsAnswer

\* So a step to a status and an answer that were there before is a stutter.
LEMMA CallUnseen ==
    ASSUME TypeOK, NEW c \in Calls, NEW p, pc' = [pc EXCEPT ![c] = p],
           UNCHANGED answer, pc[c] \in Active, p \in Active
    PROVE  UNCHANGED <<AbsStatus, AbsAnswer>>
<1>1. Status(p) = Status(pc[c]) /\ p # "returned" /\ pc[c] # "returned"
  BY StatusOf DEF Active
<1> QED
  BY <1>1, CallSeen DEF AbsStatus, AbsAnswer

LEMMA CallPromise ==
    ASSUME IInv, NEW c \in Calls, CallStep(c)
    PROVE  Promise!Next \/ UNCHANGED Promise!vars
<1>0. TypeOK
  BY DEF IInv
<1>1. CASE Start(c)
  <2>1. pc[c] = "idle" /\ pc' = [pc EXCEPT ![c] = "connecting"]
        /\ UNCHANGED <<answer, delivered>>
    BY <1>1 DEF Start, netVars
  <2>2. Status(pc[c]) = "idle" /\ Status("connecting") = "open"
    BY <2>1, StatusOf DEF Active
  <2>3. UNCHANGED AbsAnswer /\ AbsStatus' = [AbsStatus EXCEPT ![c] = "open"]
    <3>1. pc[c] # "returned" /\ UNCHANGED answer
      BY <2>1
    <3>2. UNCHANGED AbsAnswer /\ AbsStatus' = [AbsStatus EXCEPT ![c] = Status("connecting")]
      <4> DEFINE p == "connecting"
      <4>1. p # "returned" /\ pc' = [pc EXCEPT ![c] = p]
        BY <2>1
      <4> HIDE DEF p
      <4>2. UNCHANGED AbsAnswer /\ AbsStatus' = [AbsStatus EXCEPT ![c] = Status(p)]
        BY <1>0, <3>1, <4>1, CallSeen
      <4> QED
        BY <4>2 DEF p
    <3> QED
      BY <2>2, <3>2
  <2>4. Promise!Start(c)
    BY <2>1, <2>2, <2>3 DEF Promise!Start, AbsStatus, AbsAnswer
  <2> QED
    BY <2>4 DEF Promise!Next
<1>2. ASSUME NEW p \in {"failed", "exhausted", "cancelled"},
             pc[c] \in Active \cup {"idle"}, pc' = [pc EXCEPT ![c] = p],
             UNCHANGED <<answer, delivered>>
      PROVE  Promise!Next
  <2>1. /\ Status(pc[c]) \in {"idle", "open"} /\ Status(p) = "failed"
        /\ pc[c] # "returned" /\ p # "returned"
    BY <1>2, StatusOf DEF Active
  <2>2. /\ AbsStatus' = [AbsStatus EXCEPT ![c] = Status(p)]
        /\ UNCHANGED AbsAnswer
    BY <1>0, <1>2, <2>1, CallSeen
  <2>3. Promise!Fail(c)
    BY <1>2, <2>1, <2>2 DEF Promise!Fail, AbsStatus, AbsAnswer
  <2> QED
    BY <2>3 DEF Promise!Next
<1>3. CASE \/ NoNode(c) \/ ConnectFails(c) \/ Exhausted(c) \/ DrainFails(c)
           \/ ResumeFailed(c) \/ Cancel(c)
  BY <1>2, <1>3 DEF NoNode, ConnectFails, Exhausted, DrainFails, ResumeFailed,
     Cancel, Active, netVars
<1>4. CASE Register(c)
  <2>1. PICK p \in {"locking", "failed"} : pc' = [pc EXCEPT ![c] = p]
    BY <1>4 DEF Register
  <2>2. pc[c] = "connecting" /\ UNCHANGED <<answer, delivered>>
    BY <1>4 DEF Register
  <2>3. CASE p = "failed"
    BY <1>2, <2>1, <2>2, <2>3 DEF Active
  <2>4. CASE p = "locking"
    <3>1. UNCHANGED <<AbsStatus, AbsAnswer>>
      BY <1>0, <2>1, <2>2, <2>4, CallUnseen DEF Active
    <3> QED
      BY <2>2, <3>1 DEF Promise!vars, AbsStatus, AbsAnswer
  <2> QED
    BY <2>3, <2>4
<1>5. CASE LockAndWrite(c)
  <2>1. /\ pc[c] = "locking" /\ pc' = [pc EXCEPT ![c] = "draining"]
        /\ UNCHANGED answer
        /\ delivered' \in {delivered, delivered \cup {c}}
    BY <1>5 DEF LockAndWrite
  <2>2. UNCHANGED <<AbsStatus, AbsAnswer>>
    BY <1>0, <2>1, CallUnseen DEF Active
  <2>3. c \notin delivered /\ Status(pc[c]) = "open"
    BY <2>1, StatusOf DEF IInv, DeliveredIsNotEarly, Early, Active
  <2>4. CASE delivered' = delivered
    BY <2>2, <2>4 DEF Promise!vars, AbsStatus, AbsAnswer
  <2>5. CASE delivered' = delivered \cup {c}
    <3>1. Promise!Deliver(c)
      BY <2>2, <2>3, <2>5 DEF Promise!Deliver, AbsStatus, AbsAnswer
    <3> QED
      BY <3>1 DEF Promise!Next
  <2> QED
    BY <2>1, <2>4, <2>5
<1>6. CASE Drained(c)
  <2>1. /\ pc[c] = "draining" /\ pc' = [pc EXCEPT ![c] = "waiting"]
        /\ UNCHANGED <<answer, delivered>>
    BY <1>6 DEF Drained, netVars
  <2>2. UNCHANGED <<AbsStatus, AbsAnswer>>
    BY <1>0, <2>1, CallUnseen DEF Active
  <2> QED
    BY <2>1, <2>2 DEF Promise!vars, AbsStatus, AbsAnswer
<1>7. CASE Resume(c)
  <2>1. /\ pc[c] = "waiting" /\ pc' = [pc EXCEPT ![c] = "returned"]
        /\ UNCHANGED <<answer, delivered>> /\ future[c] = "result"
    BY <1>7 DEF Resume, netVars
  <2>2. answer[c] = c /\ c \in delivered
    BY <2>1 DEF IInv, ResultIsOwn
  <2>3. Status(pc[c]) = "open" /\ Status("returned") = "returned"
    BY <2>1, StatusOf DEF Active
  <2>4. /\ AbsStatus' = [AbsStatus EXCEPT ![c] = "returned"]
        /\ AbsAnswer' = [AbsAnswer EXCEPT ![c] = c]
    <3>1. pc[c] # "returned" /\ pc' = [pc EXCEPT ![c] = "returned"] /\ UNCHANGED answer
      BY <2>1
    <3>2. /\ AbsStatus' = [AbsStatus EXCEPT ![c] = Status("returned")]
          /\ AbsAnswer' = [AbsAnswer EXCEPT ![c] = answer[c]]
      BY <1>0, <3>1, CallSeen
    <3> QED
      BY <2>2, <2>3, <3>2
  <2>5. Promise!Return(c)
    BY <2>1, <2>2, <2>3, <2>4 DEF Promise!Return, AbsStatus, AbsAnswer
  <2> QED
    BY <2>5 DEF Promise!Next
<1> QED
  BY <1>1, <1>3, <1>4, <1>5, <1>6, <1>7 DEF CallStep

\* Nothing else changes what RemoteCall sees: an answer that arrives is seen when
\* its call resumes.
LEMMA ReaderPromise ==
    ASSUME IInv, NEW r \in Readers,
           HandlerStep(r) \/ PeerCloses(r) \/ ConnectionLost(r)
    PROVE  UNCHANGED Promise!vars
<1>1. UNCHANGED <<pc, delivered>>
  BY DEF HandlerStep, HandleResponse, HandlerAtEof, HandlerFails, PeerCloses,
     ConnectionLost, callVars, netVars
<1>2. \A c \in Calls : pc[c] = "returned" => answer'[c] = answer[c]
  <2>1. CASE UNCHANGED answer
    BY <2>1
  <2>2. ASSUME NEW q \in asked[r], HandleResponse(r, q)
        PROVE  \A c \in Calls : pc[c] = "returned" => answer'[c] = answer[c]
    <3>1. answer' = answer \/ (future[q.call] = "pending"
                               /\ answer' = [answer EXCEPT ![q.call] = q.call])
      BY <2>2 DEF HandleResponse, IInv, AskedIsEntered
    <3> QED
      BY <3>1 DEF IInv, TypeOK, ResultIsOwn
  <2> QED
    BY <2>1, <2>2 DEF HandlerStep, HandlerAtEof, HandlerFails, PeerCloses,
       ConnectionLost, callVars
<1> QED
  BY <1>1, <1>2 DEF Promise!vars

LEMMA NextPromise ==
    ASSUME IInv, [Next]_vars PROVE [Promise!Next]_(Promise!vars)
<1>1. UNCHANGED vars => UNCHANGED Promise!vars
  BY DEF vars, callVars, netVars, Promise!vars
<1> QED
  BY <1>1, CallPromise, ReaderPromise DEF Next

\* As long as answers decode, a call is delivered at most once and ends once,
\* with its own answer or an error.
THEOREM Refinement == ASSUME Garbled = FALSE PROVE Spec => ImplementsRemoteCall
<1>1. IInv /\ [Next]_vars => [Promise!Next]_(Promise!vars)
  BY NextPromise
<1> QED
  BY InitPromise, Invariance, <1>1, PTL DEF Spec, ImplementsRemoteCall, Promise!Spec
=============================================================================
