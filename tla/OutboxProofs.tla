---------------------------- MODULE OutboxProofs ----------------------------
(***************************************************************************)
(* What Outbox guarantees for every queue size, ttl and bound: its type    *)
(* invariant, the two invariants of the queue, its two action properties   *)
(* and that it implements TopicChannel.                                    *)
(***************************************************************************)
EXTENDS Outbox, SequenceTheorems, TLAPS

\* The task holds an item exactly while it works on one, and that item is older
\* than every item that waits.
ItemIsOlder ==
    /\ Len(queue) <= sent
    /\ task \in {"get", "done"} => item = NoItem
    /\ task \notin {"get", "done"} => item.msg \in 1..(sent - Len(queue))

\* Only the task that drains holds the lock for the outbox.
LockIsTheTasks == (writerLock = "outbox") <=> (task = "draining")

\* What was written is older than what is still to be written.
WrittenIsOlder ==
    /\ Channel!LastDelivered <= sent - Len(queue)
    /\ task \in {"connecting", "locking"} => Channel!LastDelivered < item.msg

IInv ==
    /\ TypeOK
    /\ UnfinishedIsExact
    /\ QueueIsNewestSuffix
    /\ ItemIsOlder
    /\ LockIsTheTasks
    /\ WrittenIsOlder

LEMMA InitIInv == Init => IInv
<1> SUFFICES ASSUME Init PROVE IInv
  OBVIOUS
<1>1. TypeOK
  <2>1. queue \in Seq(Item) /\ Len(queue) <= MaxSize /\ written \in Seq(Nat)
    BY OutboxAssumption DEF Init
  <2>2. item \in Item /\ task \in TaskState
    BY DEF Init, TaskState, Item, NoItem
  <2>3. /\ unfinished \in Int /\ now \in Nat /\ sent \in Nat
        /\ writerLock \in {"free", "outbox", "caller"}
    BY DEF Init
  <2>4. cancelling \in BOOLEAN
    BY DEF Init
  <2> QED
    BY <2>1, <2>2, <2>3, <2>4 DEF TypeOK
<1>2. UnfinishedIsExact /\ QueueIsNewestSuffix /\ ItemIsOlder /\ LockIsTheTasks
  BY DEF Init, UnfinishedIsExact, QueueIsNewestSuffix, ItemIsOlder,
         LockIsTheTasks, NoItem
<1>3. WrittenIsOlder
  BY DEF Init, WrittenIsOlder, Channel!LastDelivered
<1> QED
  BY <1>1, <1>2, <1>3 DEF IInv

LEMMA SendIInv == IInv /\ Send => IInv'
<1> SUFFICES ASSUME IInv, Send PROVE IInv'
  OBVIOUS
<1> DEFINE new == [msg |-> sent + 1, deadline |-> now + Ttl]
<1> USE OutboxAssumption
<1>0. new \in Item /\ queue \in Seq(Item) /\ sent \in Nat /\ sent' = sent + 1
  BY DEF IInv, TypeOK, Item, Send
<1>1. CASE Len(queue) = MaxSize /\ queue' = Append(Tail(queue), new)
           /\ unfinished' = unfinished - 1 + 1
  <2>1. /\ queue' \in Seq(Item) /\ Len(queue') = Len(queue)
        /\ \A i \in 1..Len(queue) - 1 : queue'[i] = queue[i + 1]
        /\ queue'[Len(queue)] = new
    BY <1>0, <1>1
  <2>2. TypeOK'
    BY <1>1, <2>1 DEF IInv, TypeOK, Send
  <2>3. UnfinishedIsExact' /\ LockIsTheTasks'
    BY <1>1, <2>1 DEF IInv, TypeOK, Send, UnfinishedIsExact, LockIsTheTasks
  <2>4. QueueIsNewestSuffix'
    BY <1>0, <1>1, <2>1 DEF IInv, TypeOK, Send, QueueIsNewestSuffix
  <2>5. ItemIsOlder' /\ WrittenIsOlder'
    BY <1>0, <1>1, <2>1 DEF IInv, TypeOK, Send, ItemIsOlder, WrittenIsOlder,
       Channel!LastDelivered
  <2> QED
    BY <2>2, <2>3, <2>4, <2>5 DEF IInv
<1>2. CASE Len(queue) < MaxSize /\ queue' = Append(queue, new)
           /\ unfinished' = unfinished + 1
  <2>1. /\ queue' \in Seq(Item) /\ Len(queue') = Len(queue) + 1
        /\ \A i \in 1..Len(queue) : queue'[i] = queue[i]
        /\ queue'[Len(queue) + 1] = new
    BY <1>0, <1>2
  <2>2. TypeOK'
    BY <1>2, <2>1 DEF IInv, TypeOK, Send
  <2>3. UnfinishedIsExact' /\ LockIsTheTasks'
    BY <1>2, <2>1 DEF IInv, TypeOK, Send, UnfinishedIsExact, LockIsTheTasks
  <2>4. QueueIsNewestSuffix'
    BY <1>0, <1>2, <2>1 DEF IInv, TypeOK, Send, QueueIsNewestSuffix
  <2>5. ItemIsOlder' /\ WrittenIsOlder'
    BY <1>0, <1>2, <2>1 DEF IInv, TypeOK, Send, ItemIsOlder, WrittenIsOlder,
       Channel!LastDelivered
  <2> QED
    BY <2>2, <2>3, <2>4, <2>5 DEF IInv
<1> QED
  BY <1>1, <1>2 DEF Send

\* The two ways of taking the head off the queue.
LEMMA TakeIInv == IInv /\ (Take \/ TakeExpired) => IInv'
<1> SUFFICES ASSUME IInv, Take \/ TakeExpired PROVE IInv'
  OBVIOUS
<1> USE OutboxAssumption
<1>0. /\ queue \in Seq(Item) /\ queue # <<>> /\ queue' = Tail(queue)
      /\ sent \in Nat /\ sent' = sent /\ written' = written
  BY DEF IInv, TypeOK, Take, TakeExpired
<1>1. /\ queue' \in Seq(Item) /\ Len(queue') = Len(queue) - 1 /\ Len(queue) > 0
      /\ Len(queue) \in Nat /\ Head(queue) \in Item /\ Head(queue) = queue[1]
      /\ \A i \in 1..Len(queue') : queue'[i] = queue[i + 1]
  BY <1>0
<1>2. queue[1].msg = sent - Len(queue) + 1
  BY <1>1 DEF IInv, QueueIsNewestSuffix
<1>3. QueueIsNewestSuffix'
  BY <1>0, <1>1 DEF IInv, QueueIsNewestSuffix
<1>4. CASE TakeExpired
  <2>1. TypeOK'
    BY <1>1, <1>4 DEF IInv, TypeOK, TakeExpired, Finish, TaskState, Item, NoItem
  <2>2. UnfinishedIsExact' /\ LockIsTheTasks'
    BY <1>1, <1>4 DEF IInv, TypeOK, TakeExpired, Finish, UnfinishedIsExact,
       LockIsTheTasks, ItemIsOlder
  <2>3. ItemIsOlder' /\ WrittenIsOlder'
    BY <1>0, <1>1, <1>4 DEF IInv, TypeOK, TakeExpired, Finish, ItemIsOlder,
       WrittenIsOlder, Channel!LastDelivered
  <2> QED
    BY <1>3, <2>1, <2>2, <2>3 DEF IInv
<1>5. CASE Take
  <2>1. TypeOK'
    BY <1>1, <1>5 DEF IInv, TypeOK, Take, TaskState
  <2>2. item' = Head(queue) /\ item'.msg = sent - Len(queue) + 1 /\ item' # NoItem
    <3>1. item' = Head(queue) /\ item'.msg = sent - Len(queue) + 1
      BY <1>1, <1>2, <1>5 DEF Take
    <3>2. item'.msg > 0
      BY <1>0, <1>1, <3>1 DEF IInv, ItemIsOlder
    <3> QED
      BY <3>1, <3>2 DEF NoItem
  <2>3. UnfinishedIsExact' /\ LockIsTheTasks'
    BY <1>1, <1>5, <2>2 DEF IInv, TypeOK, Take, UnfinishedIsExact,
       LockIsTheTasks, ItemIsOlder
  <2>4. ItemIsOlder'
    BY <1>0, <1>1, <1>5, <2>2 DEF IInv, Take, ItemIsOlder
  <2>5. WrittenIsOlder'
    BY <1>0, <1>1, <1>5, <2>2 DEF IInv, TypeOK, Take, WrittenIsOlder,
       Channel!LastDelivered
  <2> QED
    BY <1>3, <2>1, <2>3, <2>4, <2>5 DEF IInv
<1> QED
  BY <1>4, <1>5

\* The ends of an iteration that leave the queue as it is.
LEMMA FinishIInv ==
    IInv /\ (ConnectFails \/ LockedTooLate \/ Drained \/ Cancelled) => IInv'
<1> SUFFICES ASSUME IInv, ConnectFails \/ LockedTooLate \/ Drained \/ Cancelled
             PROVE  IInv'
  OBVIOUS
<1>0. queue' = queue /\ sent' = sent /\ written' = written /\ item' = NoItem
  BY DEF ConnectFails, LockedTooLate, Drained, Cancelled, Finish
<1>1. task' \in {"get", "done"}
  BY DEF ConnectFails, LockedTooLate, Drained, Cancelled, Finish
<1>2. TypeOK'
  BY <1>0, <1>1 DEF IInv, TypeOK, ConnectFails, LockedTooLate, Drained,
     Cancelled, Finish, TaskState, Item, NoItem
<1>3. task \notin {"get", "done"} => item # NoItem
  BY DEF IInv, TypeOK, ItemIsOlder, NoItem
<1>4. UnfinishedIsExact'
  BY <1>0, <1>3 DEF IInv, TypeOK, UnfinishedIsExact, ConnectFails,
     LockedTooLate, Drained, Cancelled, Finish, ItemIsOlder
<1>5. QueueIsNewestSuffix' /\ ItemIsOlder'
  BY <1>0, <1>1 DEF IInv, QueueIsNewestSuffix, ItemIsOlder
<1>6. LockIsTheTasks'
  BY <1>1 DEF IInv, LockIsTheTasks, ConnectFails, LockedTooLate, Drained,
     Cancelled, Finish
<1>7. WrittenIsOlder'
  BY <1>0, <1>1 DEF IInv, WrittenIsOlder, Channel!LastDelivered
<1> QED
  BY <1>2, <1>4, <1>5, <1>6, <1>7 DEF IInv

LEMMA ConnectedIInv == IInv /\ Connected => IInv'
BY DEF IInv, Connected, TypeOK, TaskState, UnfinishedIsExact,
   QueueIsNewestSuffix, ItemIsOlder, LockIsTheTasks, WrittenIsOlder,
   Channel!LastDelivered

LEMMA LockedAndWriteIInv == IInv /\ LockedAndWrite => IInv'
<1> SUFFICES ASSUME IInv, LockedAndWrite PROVE IInv'
  OBVIOUS
<1>0. /\ written \in Seq(Nat) /\ item \in Item /\ item.msg \in Nat
      /\ written' = Append(written, item.msg)
  BY DEF IInv, TypeOK, Item, LockedAndWrite
<1>1. written' \in Seq(Nat) /\ Channel!LastDelivered' = item.msg
  BY <1>0 DEF Channel!LastDelivered
<1>2. TypeOK'
  BY <1>1 DEF IInv, TypeOK, LockedAndWrite, TaskState
<1>3. UnfinishedIsExact' /\ QueueIsNewestSuffix' /\ ItemIsOlder' /\ LockIsTheTasks'
  BY DEF IInv, LockedAndWrite, UnfinishedIsExact, QueueIsNewestSuffix,
     ItemIsOlder, LockIsTheTasks
<1>4. WrittenIsOlder'
  BY <1>1 DEF IInv, TypeOK, LockedAndWrite, ItemIsOlder, WrittenIsOlder
<1> QED
  BY <1>2, <1>3, <1>4 DEF IInv

\* Steps that touch neither the queue nor what was taken or written.
LEMMA SurroundingsIInv ==
    IInv /\ (Stop \/ CallerLocks \/ CallerReleases \/ Tick \/ UNCHANGED vars)
    => IInv'
<1> SUFFICES ASSUME IInv,
                    Stop \/ CallerLocks \/ CallerReleases \/ Tick \/ UNCHANGED vars
             PROVE  IInv'
  OBVIOUS
<1>1. UNCHANGED <<queue, unfinished, task, item, sent, written>>
  BY DEF Stop, CallerLocks, CallerReleases, Tick, vars
<1>2. cancelling' \in BOOLEAN
  BY DEF IInv, TypeOK, Stop, CallerLocks, CallerReleases, Tick, vars
<1>3. now' \in Nat
  BY DEF IInv, TypeOK, Stop, CallerLocks, CallerReleases, Tick, vars
<1>4. /\ writerLock' \in {"free", "outbox", "caller"}
      /\ writerLock' = "outbox" <=> writerLock = "outbox"
  BY DEF IInv, TypeOK, Stop, CallerLocks, CallerReleases, Tick, vars
<1>5. TypeOK'
  BY <1>1, <1>2, <1>3, <1>4 DEF IInv, TypeOK
<1> QED
  BY <1>1, <1>4, <1>5 DEF IInv, UnfinishedIsExact, QueueIsNewestSuffix,
     ItemIsOlder, LockIsTheTasks, WrittenIsOlder, Channel!LastDelivered

LEMMA NextIInv == IInv /\ [Next]_vars => IInv'
BY SendIInv, TakeIInv, FinishIInv, ConnectedIInv, LockedAndWriteIInv,
   SurroundingsIInv DEF Next, TaskStep

LEMMA Invariance == Spec => []IInv
BY InitIInv, NextIInv, PTL DEF Spec

----------------------------------------------------------------------------

\* Every reachable state of an outbox is of the declared type; in particular
\* its queue never exceeds maxsize.
THEOREM TypeCorrect == Spec => []TypeOK
<1>1. IInv => TypeOK
  BY DEF IInv
<1> QED
  BY Invariance, <1>1, PTL

\* task_done() is called once for each item, however it leaves the queue.
THEOREM UnfinishedIsAlwaysExact == Spec => []UnfinishedIsExact
<1>1. IInv => UnfinishedIsExact
  BY DEF IInv
<1> QED
  BY Invariance, <1>1, PTL

\* A full queue always gives up its oldest message.
THEOREM QueueAlwaysNewestSuffix == Spec => []QueueIsNewestSuffix
<1>1. IInv => QueueIsNewestSuffix
  BY DEF IInv
<1> QED
  BY Invariance, <1>1, PTL

\* No step writes a message at or after its deadline.
THEOREM NeverWrittenExpired == Spec => NothingWrittenExpired
<1>1. IInv /\ [Next]_vars => [written' # written => now < item.deadline]_vars
  <2> SUFFICES ASSUME IInv, Next, written' # written
               PROVE  now < item.deadline
    BY DEF vars
  <2>1. LockedAndWrite
    BY DEF Next, TaskStep, Send, Stop, TakeExpired, Take, Connected,
       ConnectFails, LockedTooLate, Drained, Cancelled, CallerLocks,
       CallerReleases, Tick
  <2>2. now \in Nat /\ item.deadline \in Nat
    BY DEF IInv, TypeOK, Item
  <2> QED
    BY <2>1, <2>2 DEF LockedAndWrite, Expired
<1> QED
  BY Invariance, <1>1, PTL DEF Spec, NothingWrittenExpired

\* After stop() has returned the outbox neither writes nor holds the lock.
THEOREM AlwaysQuietWhenStopped == Spec => QuietWhenStopped
<1>1. IInv /\ IInv' /\ [Next]_vars
      => [task = "done" => written' = written /\ (writerLock # "outbox")']_vars
  <2> SUFFICES ASSUME IInv, IInv', Next, task = "done"
               PROVE  written' = written /\ writerLock' # "outbox"
    BY DEF vars
  <2>1. written' = written /\ task' = task
    BY DEF Next, TaskStep, Send, Stop, TakeExpired, Take, Connected,
       ConnectFails, LockedTooLate, LockedAndWrite, Drained, Cancelled,
       CallerLocks, CallerReleases, Tick
  <2> QED
    BY <2>1 DEF IInv, LockIsTheTasks
<1> QED
  BY Invariance, <1>1, PTL DEF Spec, QuietWhenStopped

\* What is held is in the task's hand or has the place in the queue that its number
\* gives it, and not both.
HeldHasPlace ==
    \A m \in 1..sent :
        /\ Held(m) <=> item.msg = m \/ m > sent - Len(queue)
        /\ item.msg = m => m <= sent - Len(queue)

LEMMA IInvHeldHasPlace == IInv => HeldHasPlace
<1> SUFFICES ASSUME IInv, NEW m \in 1..sent
             PROVE  /\ Held(m) <=> item.msg = m \/ m > sent - Len(queue)
                    /\ item.msg = m => m <= sent - Len(queue)
  BY DEF HeldHasPlace
<1> DEFINE old == sent - Len(queue)
<1>1. sent \in Nat /\ Len(queue) \in Nat /\ m \in Nat /\ m > 0 /\ m <= sent /\ old \in Nat
  BY DEF IInv, TypeOK, ItemIsOlder
<1>2. \A i \in 1..Len(queue) : queue[i].msg = old + i
  BY DEF IInv, QueueIsNewestSuffix
<1>3. (\E i \in 1..Len(queue) : queue[i].msg = m) <=> m > old
  <2>1. ASSUME m > old
        PROVE  \E i \in 1..Len(queue) : queue[i].msg = m
    <3>1. m - old \in 1..Len(queue) /\ old + (m - old) = m
      BY <1>1, <2>1
    <3> QED
      BY <1>2, <3>1
  <2>2. ASSUME NEW i \in 1..Len(queue), queue[i].msg = m
        PROVE  m > old
    <3>1. m = old + i
      BY <1>2, <2>2
    <3> QED
      BY <1>1, <3>1
  <2> QED
    BY <2>1, <2>2
<1>4. item.msg = m => m <= old
  BY <1>1 DEF IInv, ItemIsOlder, NoItem
<1> QED
  BY <1>3, <1>4 DEF Held

\* How the task's steps change what is left to do: the head of the queue leaves it
\* or the queue stays, and the task gets on by a stage at least.
LEMMA TaskMovesOn ==
    ASSUME IInv, HeldHasPlace, HeldHasPlace', TaskStep, NEW m \in 1..sent, Held(m)'
    PROVE  Held(m) /\ ToGo(m)' < ToGo(m)
<1> DEFINE old == sent - Len(queue)
<1>1. /\ sent \in Nat /\ sent' = sent /\ Len(queue) \in Nat /\ old \in Nat
      /\ m \in Nat /\ m > 0 /\ task \in TaskState
  BY DEF IInv, TypeOK, ItemIsOlder, TaskStep, TakeExpired, Take, Connected, ConnectFails,
     LockedTooLate, LockedAndWrite, Drained, Cancelled
<1>2. /\ Held(m) <=> item.msg = m \/ m > old
      /\ item.msg = m => m <= old
  BY DEF HeldHasPlace
<1>3. /\ item'.msg = m \/ m > sent - Len(queue')
      /\ item'.msg = m => m <= sent - Len(queue')
  BY <1>1 DEF HeldHasPlace
<1>4. CASE Take \/ TakeExpired
  <2>1. /\ task = "get" /\ item = NoItem /\ queue # <<>> /\ queue' = Tail(queue)
        /\ queue \in Seq(Item)
        /\ \/ task' = "connecting" /\ item' = Head(queue)
           \/ task' = "get" /\ item' = NoItem
    BY <1>4 DEF IInv, TypeOK, ItemIsOlder, Take, TakeExpired, Finish
  <2>2. Len(queue') = Len(queue) - 1 /\ Head(queue) = queue[1] /\ Len(queue) > 0
    BY <2>1
  <2>3. Head(queue).msg = old + 1
    BY <2>2 DEF IInv, QueueIsNewestSuffix
  <2>4. m >= old + 1 /\ item.msg # m /\ (task' = "get" => m > old + 1)
    BY <1>1, <1>3, <2>1, <2>2, <2>3 DEF NoItem
  <2>5. Held(m)
    BY <1>1, <1>2, <2>4
  <2>6. ToGo(m) = 4 * (m - old) + 1
    BY <2>1, <2>4 DEF ToGo
  <2>7. CASE task' = "get"
    <3>1. item'.msg # m
      BY <1>1, <2>1, <2>7 DEF NoItem
    <3>2. ToGo(m)' = 4 * (m - (sent - Len(queue'))) + 1
      BY <1>1, <2>7, <3>1 DEF ToGo
    <3> QED
      BY <1>1, <2>2, <2>5, <2>6, <3>2
  <2>8. CASE task' = "connecting"
    <3>1. item'.msg = m => ToGo(m)' = 4 * 0 + 4
      BY <2>8 DEF ToGo
    <3>2. item'.msg # m => ToGo(m)' = 4 * (m - (sent - Len(queue'))) + 4
      BY <1>1, <2>8 DEF ToGo
    <3> QED
      BY <1>1, <2>2, <2>4, <2>5, <2>6, <3>1, <3>2
  <2> QED
    BY <2>1, <2>7, <2>8
<1>5. CASE Connected \/ LockedAndWrite
  <2>1. /\ queue' = queue /\ item' = item
        /\ \/ task = "connecting" /\ task' = "locking"
           \/ task = "locking" /\ task' = "draining"
    BY <1>5 DEF Connected, LockedAndWrite
  <2>2. Held(m)
    BY <1>2, <1>3, <2>1
  <2> DEFINE place == IF item.msg = m THEN 0 ELSE m - old
  <2>3. place \in Int
    BY <1>1
  <2>4. /\ task = "connecting" => ToGo(m) = 4 * place + 4 /\ ToGo(m)' = 4 * place + 3
        /\ task = "locking" => ToGo(m) = 4 * place + 3 /\ ToGo(m)' = 4 * place + 2
    BY <1>1, <2>1 DEF ToGo
  <2> HIDE DEF place
  <2> QED
    BY <2>1, <2>2, <2>3, <2>4
<1>6. CASE ConnectFails \/ LockedTooLate \/ Drained \/ Cancelled
  <2>1. /\ queue' = queue /\ item' = NoItem
        /\ \/ task \in {"connecting", "locking", "draining"} /\ task' \in {"get", "done"}
           \/ task = "get" /\ task' = "done"
    BY <1>1, <1>6 DEF ConnectFails, LockedTooLate, Drained, Cancelled, Finish, TaskState
  <2>2. m > old /\ item.msg # m /\ item'.msg # m
    BY <1>1, <1>2, <1>3, <2>1 DEF NoItem
  <2> DEFINE left == [done |-> 0, get |-> 1, draining |-> 2, locking |-> 3, connecting |-> 4]
  <2>3. ToGo(m) = 4 * (m - old) + left[task] /\ ToGo(m)' = 4 * (m - old) + left[task']
    BY <1>1, <2>1, <2>2 DEF ToGo
  <2>4. left[task'] < left[task] /\ left[task] \in Int /\ left[task'] \in Int
    BY <2>1
  <2> HIDE DEF left
  <2> QED
    BY <1>1, <1>2, <2>2, <2>3, <2>4
<1> QED
  BY <1>4, <1>5, <1>6 DEF TaskStep

\* Making room lets go of the oldest message and brings the others forward.
LEMMA SendMovesOn ==
    ASSUME IInv, HeldHasPlace, HeldHasPlace', Send, NEW m \in 1..sent, Held(m)'
    PROVE  Held(m) /\ ToGo(m)' <= ToGo(m)
<1> DEFINE old == sent - Len(queue)
<1>1. /\ sent \in Nat /\ sent' = sent + 1 /\ Len(queue) \in Nat /\ m \in Nat /\ m <= sent
      /\ task' = task /\ item' = item /\ task \in TaskState
  BY DEF IInv, TypeOK, Send
<1>2. Len(queue') \in {Len(queue), Len(queue) + 1}
  <2> DEFINE new == [msg |-> sent + 1, deadline |-> now + Ttl]
  <2>1. queue \in Seq(Item) /\ new \in Item
    BY OutboxAssumption, <1>1 DEF IInv, TypeOK, Item
  <2>2. CASE queue' = Append(queue, new)
    BY <2>1, <2>2
  <2>3. CASE queue' = Append(Tail(queue), new) /\ Len(queue) = MaxSize
    <3>1. queue # <<>>
      BY <2>1, <2>3, OutboxAssumption
    <3> QED
      BY <2>1, <2>3, <3>1
  <2> QED
    BY <2>2, <2>3 DEF Send
<1>3. /\ Held(m) <=> item.msg = m \/ m > old
      /\ item.msg = m \/ m > sent + 1 - Len(queue')
  BY <1>1 DEF HeldHasPlace
<1>4. Held(m)
  BY <1>1, <1>2, <1>3
<1> DEFINE left == [done |-> 0, get |-> 1, draining |-> 2, locking |-> 3, connecting |-> 4]
<1>5. left[task] \in Int
  BY <1>1 DEF TaskState
<1>6. /\ ToGo(m) = 4 * (IF item.msg = m THEN 0 ELSE m - old) + left[task]
      /\ ToGo(m)' = 4 * (IF item.msg = m THEN 0 ELSE m - (sent + 1 - Len(queue'))) + left[task]
  BY <1>1 DEF ToGo
<1> HIDE DEF left
<1> QED
  BY <1>1, <1>2, <1>4, <1>5, <1>6

\* No message falls back in the outbox, and each step of its task brings all that
\* it keeps nearer to leaving.
THEOREM MessagesAlwaysMoveOn == Spec => MessagesMoveOn
<1>1. Spec => [](IInv /\ HeldHasPlace)
  BY Invariance, IInvHeldHasPlace, PTL
<1>2. /\ IInv /\ HeldHasPlace /\ IInv' /\ HeldHasPlace' /\ [Next]_vars
      => [\A m \in 1..sent : Held(m)' =>
            /\ Held(m)
            /\ ToGo(m)' <= ToGo(m)
            /\ TaskStep => ToGo(m)' < ToGo(m)]_vars
  <2> SUFFICES ASSUME IInv, IInv', HeldHasPlace, HeldHasPlace', Next, NEW m \in 1..sent,
                      Held(m)'
               PROVE  /\ Held(m)
                      /\ ToGo(m)' <= ToGo(m)
                      /\ TaskStep => ToGo(m)' < ToGo(m)
    BY DEF vars
  <2>1. ToGo(m) \in Int /\ ToGo(m)' \in Int
    BY DEF ToGo, IInv, TypeOK, TaskState
  <2>2. TaskStep => Held(m) /\ ToGo(m)' < ToGo(m)
    BY TaskMovesOn
  <2>3. CASE TaskStep
    BY <2>1, <2>2, <2>3
  <2>4. CASE Send
    BY <2>2, <2>4, SendMovesOn
  <2>5. CASE Stop \/ CallerLocks \/ CallerReleases \/ Tick
    <3>1. UNCHANGED <<queue, item, task, sent>>
      BY <2>5 DEF Stop, CallerLocks, CallerReleases, Tick
    <3> QED
      BY <2>1, <2>2, <3>1 DEF Held, ToGo
  <2> QED
    BY <2>3, <2>4, <2>5 DEF Next
<1> QED
  BY <1>1, <1>2, PTL DEF Spec, MessagesMoveOn

\* A task is never at rest while it has a message, unless it was told to stop or
\* waits for a service call's lock.
THEOREM TaskIsAlwaysReady == Spec => []TaskIsReady
<1> DEFINE DoneIsCancelled == task = "done" => cancelling
<1>1. Init => DoneIsCancelled
  BY DEF Init
<1>2. IInv /\ DoneIsCancelled /\ [Next]_vars => DoneIsCancelled'
  BY DEF Next, TaskStep, Send, Stop, TakeExpired, Take, Connected, ConnectFails, LockedTooLate,
     LockedAndWrite, Drained, Cancelled, CallerLocks, CallerReleases, Tick, vars, Finish
<1>3. IInv /\ DoneIsCancelled => TaskIsReady
  <2> SUFFICES ASSUME IInv, DoneIsCancelled, NEW m \in 1..sent, Held(m), ~cancelling
               PROVE  \/ task \in {"connecting", "draining"}
                      \/ task = "get" /\ queue # <<>>
                      \/ task = "locking" /\ writerLock \in {"free", "caller"}
    BY DEF TaskIsReady
  <2>1. task \in {"get", "connecting", "locking", "draining"}
    BY DEF IInv, TypeOK, TaskState
  <2>2. CASE task = "get"
    <3>1. sent \in Nat /\ queue \in Seq(Item) /\ item.msg = 0
      BY <2>2 DEF IInv, TypeOK, ItemIsOlder, NoItem
    <3>2. \E i \in 1..Len(queue) : queue[i].msg = m
      BY <3>1 DEF Held
    <3> QED
      BY <2>2, <3>1, <3>2
  <2>3. CASE task = "locking"
    BY <2>3 DEF IInv, TypeOK, LockIsTheTasks
  <2> QED
    BY <2>1, <2>2, <2>3
<1> QED
  BY Invariance, <1>1, <1>2, <1>3, PTL DEF Spec

\* Whatever the outbox does is allowed of an at-most-once channel that keeps the
\* order of its messages.
THEOREM Refinement == Spec => ImplementsChannel
<1>1. Init => Channel!Init
  BY DEF Init, Channel!Init
<1>2. IInv /\ [Next]_vars => [Channel!Next]_(Channel!vars)
  <2> SUFFICES ASSUME IInv, [Next]_vars
               PROVE  Channel!Next \/ UNCHANGED Channel!vars
    OBVIOUS
  <2>1. CASE Send
    BY <2>1 DEF Send, Channel!Next, Channel!Offer
  <2>2. CASE LockedAndWrite
    <3>1. /\ item.msg \in Channel!LastDelivered + 1 .. sent
          /\ Channel!LastDelivered \in Int
      BY <2>2 DEF IInv, TypeOK, Item, LockedAndWrite, ItemIsOlder,
         WrittenIsOlder, Channel!LastDelivered
    <3>2. Channel!Deliver(item.msg)
      BY <2>2, <3>1 DEF LockedAndWrite, Channel!Deliver
    <3> QED
      BY <3>1, <3>2 DEF Channel!Next
  <2>3. CASE UNCHANGED <<sent, written>>
    BY <2>3 DEF Channel!vars
  <2> QED
    BY <2>1, <2>2, <2>3 DEF Next, TaskStep, Stop, TakeExpired, Take, Connected,
       ConnectFails, LockedTooLate, Drained, Cancelled, CallerLocks,
       CallerReleases, Tick, vars
<1> QED
  BY Invariance, <1>1, <1>2, PTL DEF Spec, ImplementsChannel, Channel!Spec
=============================================================================
