------------------------------- MODULE Outbox -------------------------------
(***************************************************************************)
(* One NodeOutbox of rosy/node/topic/outbox.py: the bounded queue of topic *)
(* messages for one peer, and the task that takes them off the queue, gets *)
(* a connection, waits for the writer's lock and writes.                   *)
(*                                                                         *)
(* A step is what the event loop runs between two suspensions.  While the  *)
(* task is suspended anything else may run: send() by the node's users,    *)
(* stop() by the topology handler, a service call that takes the same      *)
(* writer's lock, and the passing of time.  The messages are numbered in   *)
(* the order of the send() calls.                                          *)
(***************************************************************************)
EXTENDS Integers, Sequences

CONSTANTS
    MaxSize,       \* maxsize of the queue
    Ttl,           \* ttl of a message, in ticks of the event loop's clock
    MaxMessages,   \* bound: send() calls explored
    MaxTime        \* bound: ticks of the clock explored

ASSUME OutboxAssumption ==
    /\ MaxSize \in Nat \ {0}
    /\ Ttl \in Nat
    /\ MaxMessages \in Nat
    /\ MaxTime \in Nat

VARIABLES
    queue,         \* asyncio.Queue: the items (message, deadline) that wait
    unfinished,    \* the queue's count of items put and not yet task_done()
    task,          \* where the task is suspended, or "done"
    item,          \* the item the task took off the queue, or NoItem
    cancelling,    \* stop() has called task.cancel()
    writerLock,    \* holder of the lock of the connection's LockableWriter
    now,           \* loop_time()
    sent,          \* history: number of send() calls that were accepted
    written        \* history: the messages given to writer.write(), in order

vars == <<queue, unfinished, task, item, cancelling, writerLock, now,
          sent, written>>

Item == [msg : Nat, deadline : Nat]
NoItem == [msg |-> 0, deadline |-> 0]

TaskState == {"get", "connecting", "locking", "draining", "done"}

TypeOK ==
    /\ queue \in Seq(Item)
    /\ Len(queue) <= MaxSize
    /\ unfinished \in Int
    /\ task \in TaskState
    /\ item \in Item
    /\ cancelling \in BOOLEAN
    /\ writerLock \in {"free", "outbox", "caller"}
    /\ now \in Nat
    /\ sent \in Nat
    /\ written \in Seq(Nat)

Init ==
    /\ queue = <<>>
    /\ unfinished = 0
    /\ task = "get"
    /\ item = NoItem
    /\ cancelling = FALSE
    /\ writerLock = "free"
    /\ now = 0
    /\ sent = 0
    /\ written = <<>>

----------------------------------------------------------------------------
(* Variants of the steps below with a plausible mistake in them.  No         *)
(* specification uses them; they show that the properties can fail.          *)

\* Drops the oldest item without a task_done() for it.
SendForgetsTaskDone ==
    /\ sent < MaxMessages
    /\ task # "done"
    /\ LET kept == IF Len(queue) = MaxSize THEN Tail(queue) ELSE queue
       IN  queue' = Append(kept, [msg |-> sent + 1, deadline |-> now + Ttl])
    /\ unfinished' = unfinished + 1
    /\ sent' = sent + 1
    /\ UNCHANGED <<task, item, cancelling, writerLock, now, written>>

\* Makes room at the wrong end of the queue.
SendDropsNewest ==
    /\ sent < MaxMessages
    /\ task # "done"
    /\ LET full == Len(queue) = MaxSize
           kept == IF full THEN SubSeq(queue, 1, MaxSize - 1) ELSE queue
       IN  /\ queue' = Append(kept, [msg |-> sent + 1, deadline |-> now + Ttl])
           /\ unfinished' = IF full THEN unfinished ELSE unfinished + 1
    /\ sent' = sent + 1
    /\ UNCHANGED <<task, item, cancelling, writerLock, now, written>>

\* Retries a message whose connection failed by queueing it again.
ConnectFailsRequeues ==
    /\ task = "connecting"
    /\ ~cancelling
    /\ Len(queue) < MaxSize
    /\ queue' = Append(queue, item)
    /\ item' = NoItem
    /\ task' = "get"
    /\ UNCHANGED <<unfinished, cancelling, writerLock, now, sent, written>>

\* Lets the exception of a failed connection end the task.
ConnectFailsKillsTask ==
    /\ task = "connecting"
    /\ ~cancelling
    /\ item' = NoItem
    /\ task' = "done"
    /\ unfinished' = unfinished - 1
    /\ UNCHANGED <<queue, cancelling, writerLock, now, sent, written>>

\* Checks the deadline only when the item is taken off the queue.
LockedAndWriteUnchecked ==
    /\ task = "locking"
    /\ ~cancelling
    /\ writerLock = "free"
    /\ writerLock' = "outbox"
    /\ written' = Append(written, item.msg)
    /\ task' = "draining"
    /\ UNCHANGED <<queue, unfinished, item, cancelling, now, sent>>

\* Locks the writer without "async with".
CancelledKeepsLock ==
    /\ cancelling
    /\ task # "done"
    /\ task' = "done"
    /\ item' = NoItem
    /\ unfinished' = IF task = "get" THEN unfinished ELSE unfinished - 1
    /\ UNCHANGED <<queue, cancelling, writerLock, now, sent, written>>

\* Catches the CancelledError of a send with the other exceptions.
CancelledIsSwallowed ==
    /\ cancelling
    /\ task # "done"
    /\ task' = IF task = "get" THEN "done" ELSE "get"
    /\ item' = NoItem
    /\ cancelling' = (task = "get")
    /\ writerLock' = IF task = "draining" THEN "free" ELSE writerLock
    /\ unfinished' = IF task = "get" THEN unfinished ELSE unfinished - 1
    /\ UNCHANGED <<queue, now, sent, written>>

----------------------------------------------------------------------------
(* The users of the outbox.                                                *)

\* send(): when the queue is full the oldest item makes room for the new one.
\* It runs without suspending.  A finished task makes it raise.
Send ==
    /\ sent < MaxMessages
    /\ task # "done"
    /\ LET new == [msg |-> sent + 1, deadline |-> now + Ttl]
       IN  \/ /\ Len(queue) = MaxSize
              /\ queue' = Append(Tail(queue), new)
              /\ unfinished' = unfinished - 1 + 1
           \/ /\ Len(queue) < MaxSize
              /\ queue' = Append(queue, new)
              /\ unfinished' = unfinished + 1
    /\ sent' = sent + 1
    /\ UNCHANGED <<task, item, cancelling, writerLock, now, written>>

\* stop(), up to the point where cancel_task() waits for the task to end.
Stop ==
    /\ task # "done"
    /\ ~cancelling
    /\ cancelling' = TRUE
    /\ UNCHANGED <<queue, unfinished, task, item, writerLock, now, sent, written>>

----------------------------------------------------------------------------
(* The task.  Once cancel() was called its next step is the cancellation.  *)

Expired(i) == now >= i.deadline

\* The end of an iteration of _run(): task_done() for the item it took.
Finish ==
    /\ item' = NoItem
    /\ task' = "get"
    /\ unfinished' = unfinished - 1

\* queue.get() returns the oldest item; when it is expired already, it is
\* counted as done and the loop goes round without suspending.
TakeExpired ==
    /\ task = "get"
    /\ ~cancelling
    /\ queue # <<>>
    /\ Expired(Head(queue))
    /\ queue' = Tail(queue)
    /\ Finish
    /\ UNCHANGED <<cancelling, writerLock, now, sent, written>>

Take ==
    /\ task = "get"
    /\ ~cancelling
    /\ queue # <<>>
    /\ ~Expired(Head(queue))
    /\ queue' = Tail(queue)
    /\ item' = Head(queue)
    /\ task' = "connecting"
    /\ UNCHANGED <<unfinished, cancelling, writerLock, now, sent, written>>

\* get_connection() returns: the connection of before, or a new one, whose
\* writer nobody has locked.
Connected ==
    /\ task = "connecting"
    /\ ~cancelling
    /\ task' = "locking"
    /\ writerLock' \in {writerLock, "free"}
    /\ UNCHANGED <<queue, unfinished, item, cancelling, now, sent, written>>

\* get_connection() raises; _run() logs the error and the item is given up.
ConnectFails ==
    /\ task = "connecting"
    /\ ~cancelling
    /\ Finish
    /\ UNCHANGED <<queue, cancelling, writerLock, now, sent, written>>

\* The lock is acquired too late: the writer is released again, unused.
LockedTooLate ==
    /\ task = "locking"
    /\ ~cancelling
    /\ writerLock = "free"
    /\ Expired(item)
    /\ Finish
    /\ UNCHANGED <<queue, cancelling, writerLock, now, sent, written>>

\* The lock is acquired in time: write(), then drain() with the lock held.
LockedAndWrite ==
    /\ task = "locking"
    /\ ~cancelling
    /\ writerLock = "free"
    /\ ~Expired(item)
    /\ writerLock' = "outbox"
    /\ written' = Append(written, item.msg)
    /\ task' = "draining"
    /\ UNCHANGED <<queue, unfinished, item, cancelling, now, sent>>

\* drain() returns or raises; an exception is logged, and either way the lock
\* is released and the iteration ends.
Drained ==
    /\ task = "draining"
    /\ ~cancelling
    /\ writerLock' = "free"
    /\ Finish
    /\ UNCHANGED <<queue, cancelling, now, sent, written>>

\* CancelledError is raised where the task is suspended.  The lock is released
\* if it was held, task_done() is called if an item was taken, and the loop is
\* left.
Cancelled ==
    /\ cancelling
    /\ task # "done"
    /\ task' = "done"
    /\ item' = NoItem
    /\ writerLock' = IF task = "draining" THEN "free" ELSE writerLock
    /\ unfinished' = IF task = "get" THEN unfinished ELSE unfinished - 1
    /\ UNCHANGED <<queue, cancelling, now, sent, written>>

----------------------------------------------------------------------------
(* The surroundings: a ServiceCaller on the same connection, and time.     *)

CallerLocks ==
    /\ writerLock = "free"
    /\ writerLock' = "caller"
    /\ UNCHANGED <<queue, unfinished, task, item, cancelling, now, sent, written>>

CallerReleases ==
    /\ writerLock = "caller"
    /\ writerLock' = "free"
    /\ UNCHANGED <<queue, unfinished, task, item, cancelling, now, sent, written>>

Tick ==
    /\ now < MaxTime
    /\ now' = now + 1
    /\ UNCHANGED <<queue, unfinished, task, item, cancelling, writerLock, sent,
                   written>>

TaskStep ==
    \/ TakeExpired
    \/ Take
    \/ Connected
    \/ ConnectFails
    \/ LockedTooLate
    \/ LockedAndWrite
    \/ Drained
    \/ Cancelled

Next ==
    \/ Send
    \/ Stop
    \/ TaskStep
    \/ CallerLocks
    \/ CallerReleases
    \/ Tick

Spec == Init /\ [][Next]_vars

\* The event loop runs a task that can run; a connection attempt ends, by the
\* operating system's timeouts if not before; drain() ends, because the peer reads
\* again or its TCP connection is broken (setup_socket sets TCP_USER_TIMEOUT).
\* The lock is strongly fair because asyncio.Lock wakes its waiters in order.
Fairness ==
    /\ WF_vars(TakeExpired \/ Take)
    /\ WF_vars(Connected \/ ConnectFails)
    /\ SF_vars(LockedTooLate \/ LockedAndWrite)
    /\ WF_vars(Drained)
    /\ WF_vars(Cancelled)
    /\ WF_vars(CallerReleases)

FairSpec == Spec /\ Fairness

----------------------------------------------------------------------------
(* Properties.                                                             *)

Held(m) == item.msg = m \/ \E i \in 1..Len(queue) : queue[i].msg = m

\* The queue's count of unfinished items is the items that wait plus the one
\* the task works on, whatever mix of drops, errors and cancellation happened.
\* send() and _run() each call task_done() for items the other put or took: were
\* the count too low, task_done() would raise ValueError out of send() or end
\* the task from within its "finally".
UnfinishedIsExact ==
    unfinished = Len(queue) + (IF item = NoItem THEN 0 ELSE 1)

\* The messages that wait are always the most recent ones without a gap:
\* making room never discards a message that is newer than one it keeps.
QueueIsNewestSuffix ==
    \A i \in 1..Len(queue) : queue[i].msg = sent - Len(queue) + i

\* Nothing is written at or after its deadline, however long the connection
\* and the lock took.
NothingWrittenExpired ==
    [][written' # written => now < item.deadline]_vars

\* Once stop() has returned nothing more is written and the lock is not kept.
QuietWhenStopped ==
    [][task = "done" => written' = written /\ (writerLock # "outbox")']_vars

\* How much is left to do before a message that is held has left: its place in
\* the queue, 0 when the task has it in hand, and what the task has left to do.
ToGo(m) ==
    LET place == IF item.msg = m THEN 0 ELSE m - (sent - Len(queue))
        left == [done |-> 0, get |-> 1, draining |-> 2, locking |-> 3, connecting |-> 4]
    IN  4 * place + left[task]

\* No message falls back: what has left does not return, making room only brings
\* the others forward, and each step of the task, an error or a cancellation too,
\* brings every message that it leaves in the outbox nearer to leaving.
MessagesMoveOn ==
    [][\A m \in 1..sent : Held(m)' =>
        /\ Held(m)
        /\ ToGo(m)' <= ToGo(m)
        /\ TaskStep => ToGo(m)' < ToGo(m)]_vars

\* While a message is held, the task can go on, unless stop() was called or a
\* service call has the lock it waits for.
TaskIsReady ==
    \A m \in 1..sent : Held(m) /\ ~cancelling =>
        \/ task \in {"connecting", "draining"}
        \/ task = "get" /\ queue # <<>>
        \/ task = "locking" /\ writerLock \in {"free", "caller"}

\* The outbox delivers at most once and in order.
Channel == INSTANCE TopicChannel WITH offered <- sent, delivered <- written
ImplementsChannel == Channel!Spec

\* A message never stays in a running outbox: it is written, dropped, expired
\* or given up, and one message's failure does not keep the next ones.
EveryMessageLeaves ==
    \A m \in 1..MaxMessages :
        (Held(m) /\ ~cancelling) ~> (~Held(m) \/ cancelling)

\* stop() comes back: the task ends wherever it was suspended.
StopReturns == cancelling ~> task = "done"
=============================================================================
