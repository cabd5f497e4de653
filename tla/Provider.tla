------------------------------ MODULE Provider ------------------------------
(***************************************************************************)
(* The receiving side of nodes: rosy/node/clienthandler.py with            *)
(* topic/messagehandler.py and service/requesthandler.py, for nodes that   *)
(* send each other topic messages and call each other's services, also     *)
(* from within their callbacks and handlers.                               *)
(*                                                                         *)
(* A link is the connection one node opened to another.  Topic messages    *)
(* wait in an outbox and are then written to the stream of the link; a     *)
(* request is written to the stream at once (Outbox and ServiceCaller have *)
(* the details).  The other node's ClientHandler reads the stream, awaits  *)
(* the callback of a topic message before it reads on, and starts a task   *)
(* for a request.  Answers go back on the same link.                       *)
(*                                                                         *)
(* The codecs write an answer without suspending, so it is one step and    *)
(* the writer's lock is never waited for.  An answer that is written and   *)
(* read is one step, too.                                                  *)
(***************************************************************************)
EXTENDS Integers, Sequences, FiniteSets

CONSTANTS
    Nodes,
    Topics,
    Services,
    NoService,      \* not a service
    Nested,         \* the service of its peer that the user's callback for a
                    \* topic, or handler of a service, calls and waits for
    Unencodable,    \* the services that may return what cannot be encoded
    Script,         \* bound: what users send on each link, in this order
    Changing,       \* bound: the callbacks and handlers that come and go
    Fragile,        \* bound: the links that may be lost
    Cancellable,    \* bound: what may be ended by a CancelledError
    MaxFrames       \* bound: messages and requests that are sent

Ids == 1..MaxFrames
Names == Topics \cup Services
Links == {l \in Nodes \X Nodes : l[1] # l[2]}
Back(l) == <<l[2], l[1]>>

ASSUME ProviderAssumption ==
    /\ Topics \cap Services = {}
    /\ NoService \notin Names
    /\ Nested \in [Names -> Services \cup {NoService}]
    /\ Unencodable \subseteq Services
    /\ Script \in [Links -> Seq(Names)]
    /\ Changing \subseteq Nodes \X Names
    /\ Fragile \subseteq Links
    /\ Cancellable \subseteq Names
    /\ MaxFrames \in Nat

VARIABLES
    frames,     \* the messages and requests sent, in order: on which link, of
                \* which name, and from within which other one (0: none)
    stage,      \* what became of each
    outbox,     \* the topic messages that were not yet written to each link
    stream,     \* what was written to each link and not yet read
    blocked,    \* the message whose callback the link's ClientHandler awaits
    link,       \* "open", "ending" (no more is sent on it), or "closed"
    torn,       \* the links on which the end of an answer is missing
    offered     \* the callbacks and handlers of each node

vars == <<frames, stage, outbox, stream, blocked, link, torn, offered>>

Frame == [link : Links, name : Names, parent : 0..MaxFrames]
Unread == {"unsent", "queued", "sent"}
AtWork == {"running", "calling"}
Unanswered == {"torn", "garbled", "dropped", "cancelled"}
Stages == Unread \cup {"task"} \cup AtWork \cup {"done", "answered"} \cup Unanswered

TypeOK ==
    /\ frames \in Seq(Frame)
    /\ Len(frames) <= MaxFrames
    /\ stage \in [Ids -> Stages]
    /\ outbox \in [Links -> Seq(Ids)]
    /\ stream \in [Links -> Seq(Ids)]
    /\ blocked \in [Links -> 0..MaxFrames]
    /\ link \in [Links -> {"open", "ending", "closed"}]
    /\ torn \in SUBSET Links
    /\ offered \in SUBSET (Nodes \X Names)

Init ==
    /\ frames = <<>>
    /\ stage = [i \in Ids |-> "unsent"]
    /\ outbox = [l \in Links |-> <<>>]
    /\ stream = [l \in Links |-> <<>>]
    /\ blocked = [l \in Links |-> 0]
    /\ link = [l \in Links |-> "open"]
    /\ torn = {}
    /\ offered = Nodes \X Names

IsTopic(i) == frames[i].name \in Topics
Here(i) == <<frames[i].link[2], frames[i].name>>    \* who serves it
Children(i) == {j \in DOMAIN frames : frames[j].parent = i}

\* The call that i waits for has come to an end.
CallEnded(i) ==
    \A j \in Children(i) : stage[j] = "answered" \/ link[frames[j].link] # "open"

----------------------------------------------------------------------------
(* The sending nodes.                                                      *)

NewFrame(l, name, parent) ==
    /\ Len(frames) < MaxFrames
    /\ frames' = Append(frames, [link |-> l, name |-> name, parent |-> parent])

\* Node.send(): the message goes to the outbox of the node.
Send(l, t) ==
    /\ link[l] = "open"
    /\ NewFrame(l, t, 0)
    /\ stage' = [stage EXCEPT ![Len(frames')] = "queued"]
    /\ outbox' = [outbox EXCEPT ![l] = Append(@, Len(frames'))]
    /\ UNCHANGED <<stream, blocked, link, torn, offered>>

\* A variant with a mistake: the message stays in the outbox.
FlushKeeps(l) ==
    /\ link[l] = "open"
    /\ outbox[l] # <<>>
    /\ stream' = [stream EXCEPT ![l] = Append(@, Head(outbox[l]))]
    /\ stage' = [stage EXCEPT ![Head(outbox[l])] = "sent"]
    /\ UNCHANGED <<frames, outbox, blocked, link, torn, offered>>

\* The outbox's task writes its next message.
Flush(l) ==
    /\ link[l] = "open"
    /\ outbox[l] # <<>>
    /\ outbox' = [outbox EXCEPT ![l] = Tail(@)]
    /\ stream' = [stream EXCEPT ![l] = Append(@, Head(outbox[l]))]
    /\ stage' = [stage EXCEPT ![Head(outbox[l])] = "sent"]
    /\ UNCHANGED <<frames, blocked, link, torn, offered>>

\* Node.call() from the user's own task.
CallService(l, s) ==
    /\ link[l] = "open"
    /\ NewFrame(l, s, 0)
    /\ stage' = [stage EXCEPT ![Len(frames')] = "sent"]
    /\ stream' = [stream EXCEPT ![l] = Append(@, Len(frames'))]
    /\ UNCHANGED <<outbox, blocked, link, torn, offered>>

\* The peer closes its connection: what it has written can still be read.
PeerCloses(l) ==
    /\ l \in Fragile
    /\ link[l] = "open"
    /\ link' = [link EXCEPT ![l] = "ending"]
    /\ outbox' = [outbox EXCEPT ![l] = <<>>]
    /\ UNCHANGED <<frames, stage, stream, blocked, torn, offered>>

----------------------------------------------------------------------------
(* Variants with a plausible mistake, for showing that the properties can  *)
(* fail.                                                                   *)

\* Starts a task for the callback of a message.
TakeMessageInTask(l) ==
    /\ link[l] # "closed"
    /\ stream[l] # <<>>
    /\ IsTopic(Head(stream[l]))
    /\ stream' = [stream EXCEPT ![l] = Tail(@)]
    /\ stage' = [stage EXCEPT ![Head(stream[l])] = "running"]
    /\ UNCHANGED <<frames, outbox, blocked, link, torn, offered>>

\* Takes a request for a service that is gone for something not to answer.
StartHandlerOrNot(i) ==
    /\ stage[i] = "task"
    /\ stage' = [stage EXCEPT ![i] = IF Here(i) \in offered THEN "running" ELSE "done"]
    /\ UNCHANGED <<frames, outbox, stream, blocked, link, torn, offered>>

\* Forgets that the callback raised an error, and with it the connection.
CallbackEndsReader(i) ==
    /\ \/ stage[i] = "running"
       \/ (stage[i] = "calling" /\ CallEnded(i))
    /\ IsTopic(i)
    /\ stage' = [stage EXCEPT ![i] = "done"]
    /\ UNCHANGED <<frames, outbox, stream, blocked, link, torn, offered>>

----------------------------------------------------------------------------
(* ClientHandler.handle_client(), one for each link.                       *)

CanRead(l) ==
    /\ link[l] # "closed"
    /\ blocked[l] = 0

\* Closes the connection, which _close_on_return() does however the handler
\* ends.  What was not read is lost, and so is what was to be sent.
CloseLink(l) ==
    /\ link' = [link EXCEPT ![l] = "closed"]
    /\ stream' = [stream EXCEPT ![l] = <<>>]
    /\ outbox' = [outbox EXCEPT ![l] = <<>>]

\* A topic message: handle_message() awaits its callback.  Without a callback it
\* calls None, and logs the TypeError.
TakeMessage(l) ==
    /\ CanRead(l)
    /\ stream[l] # <<>>
    /\ LET i == Head(stream[l]) IN
        /\ IsTopic(i)
        /\ IF Here(i) \in offered
           THEN /\ stage' = [stage EXCEPT ![i] = "running"]
                /\ blocked' = [blocked EXCEPT ![l] = i]
           ELSE /\ stage' = [stage EXCEPT ![i] = "done"]
                /\ UNCHANGED blocked
    /\ stream' = [stream EXCEPT ![l] = Tail(@)]
    /\ UNCHANGED <<frames, outbox, link, torn, offered>>

\* A service request: a task is created for it, and the next frame is read.
TakeRequest(l) ==
    /\ CanRead(l)
    /\ stream[l] # <<>>
    /\ ~IsTopic(Head(stream[l]))
    /\ stage' = [stage EXCEPT ![Head(stream[l])] = "task"]
    /\ stream' = [stream EXCEPT ![l] = Tail(@)]
    /\ UNCHANGED <<frames, outbox, blocked, link, torn, offered>>

\* A frame that does not decode (its data has a class that this node cannot
\* import, for instance) ends the handler with an error.
ReadFails(l) ==
    /\ l \in Fragile
    /\ CanRead(l)
    /\ stream[l] # <<>>
    /\ CloseLink(l)
    /\ UNCHANGED <<frames, stage, blocked, torn, offered>>

\* EOFError: the handler returns.
ReadEof(l) ==
    /\ CanRead(l)
    /\ link[l] = "ending"
    /\ stream[l] = <<>>
    /\ CloseLink(l)
    /\ UNCHANGED <<frames, stage, blocked, torn, offered>>

----------------------------------------------------------------------------
(* ServiceRequestHandler.handle_request(), a task for each request.        *)

\* What becomes of the answer that is written for request i.  A connection that
\* is closed drops what is written to it.
Written(i) ==
    LET l == frames[i].link
    IN  IF link[l] # "open" THEN "dropped"
        ELSE IF l \in torn THEN "garbled"
        ELSE "answered"

Respond(i) ==
    /\ stage' = [stage EXCEPT ![i] = Written(i)]
    /\ UNCHANGED torn

\* If the result cannot be encoded, its id and status are on the wire already:
\* whoever reads the link takes what follows for the rest of this answer.
RespondTorn(i) ==
    /\ frames[i].name \in Unencodable
    /\ Written(i) = "answered"
    /\ stage' = [stage EXCEPT ![i] = "torn"]
    /\ torn' = torn \cup {frames[i].link}

\* The task looks up the handler when it first runs; if there is none, it
\* answers with an error.
StartHandler(i) ==
    /\ stage[i] = "task"
    /\ IF Here(i) \in offered
       THEN /\ stage' = [stage EXCEPT ![i] = "running"]
            /\ UNCHANGED torn
       ELSE Respond(i)
    /\ UNCHANGED <<frames, outbox, stream, blocked, link, offered>>

----------------------------------------------------------------------------
(* The user's callbacks and handlers.                                      *)

\* It calls a service of the peer and waits.
CallBack(i) ==
    /\ stage[i] = "running"
    /\ Nested[frames[i].name] # NoService
    /\ LET l == Back(frames[i].link) IN
        /\ link[l] = "open"
        /\ NewFrame(l, Nested[frames[i].name], i)
        /\ stream' = [stream EXCEPT ![l] = Append(@, Len(frames'))]
    /\ stage' = [stage EXCEPT ![i] = "calling", ![Len(frames')] = "sent"]
    /\ UNCHANGED <<outbox, blocked, link, torn, offered>>

\* It can end: it did not call, or its call has returned or raised.
Finished(i) ==
    \/ stage[i] = "running"
    \/ (stage[i] = "calling" /\ CallEnded(i))

\* A callback returns, or raises an Exception, which is logged: the handler
\* reads on.
CallbackEnds(i) ==
    /\ Finished(i)
    /\ IsTopic(i)
    /\ stage' = [stage EXCEPT ![i] = "done"]
    /\ blocked' = [blocked EXCEPT ![frames[i].link] = 0]
    /\ UNCHANGED <<frames, outbox, stream, link, torn, offered>>

\* A handler returns, or raises an Exception, whose text is the answer.
HandlerEnds(i) ==
    /\ Finished(i)
    /\ ~IsTopic(i)
    /\ Respond(i) \/ RespondTorn(i)
    /\ UNCHANGED <<frames, outbox, stream, blocked, link, offered>>

\* CancelledError is in ALLOWED_EXCEPTIONS: from a callback it ends the
\* ClientHandler.
CallbackCancelled(i) ==
    /\ stage[i] \in AtWork
    /\ frames[i].name \in Cancellable
    /\ IsTopic(i)
    /\ stage' = [stage EXCEPT ![i] = "done"]
    /\ blocked' = [blocked EXCEPT ![frames[i].link] = 0]
    /\ CloseLink(frames[i].link)
    /\ UNCHANGED <<frames, torn, offered>>

\* It is not an Exception: from a handler it ends the task without an answer.
HandlerCancelled(i) ==
    /\ stage[i] \in AtWork
    /\ frames[i].name \in Cancellable
    /\ ~IsTopic(i)
    /\ stage' = [stage EXCEPT ![i] = "cancelled"]
    /\ UNCHANGED <<frames, outbox, stream, blocked, link, torn, offered>>

\* listen(), stop_listening(), add_service() and remove_service().
Offer(c) ==
    /\ offered' = offered \cup {c}
    /\ UNCHANGED <<frames, stage, outbox, stream, blocked, link, torn>>

Withdraw(c) ==
    /\ offered' = offered \ {c}
    /\ UNCHANGED <<frames, stage, outbox, stream, blocked, link, torn>>

----------------------------------------------------------------------------
\* The number of messages and requests the users have sent on a link.
Scripted(l) ==
    Cardinality({i \in DOMAIN frames : frames[i].link = l /\ frames[i].parent = 0})

Sending(l) ==
    \/ /\ Scripted(l) < Len(Script[l])
       /\ LET name == Script[l][Scripted(l) + 1]
          IN  IF name \in Topics THEN Send(l, name) ELSE CallService(l, name)
    \/ PeerCloses(l)

Reading(l) == TakeMessage(l) \/ TakeRequest(l) \/ ReadFails(l) \/ ReadEof(l)

Working(i) ==
    \/ StartHandler(i)
    \/ CallBack(i)
    \/ CallbackEnds(i)
    \/ HandlerEnds(i)

Next ==
    \/ \E l \in Links : Sending(l) \/ Flush(l) \/ Reading(l)
    \/ \E i \in Ids :
        Working(i) \/ CallbackCancelled(i) \/ HandlerCancelled(i)
    \/ \E c \in Changing : Offer(c) \/ Withdraw(c)

Spec == Init /\ [][Next]_vars

\* The event loop runs what is ready, outboxes drain, and the user's callbacks
\* end, apart from the calls that they wait for.  Each of these steps takes one
\* frame further, so none of them can keep another from its turn for good.
Fairness ==
    /\ WF_vars(\E l \in Links : Flush(l) \/ Reading(l))
    /\ WF_vars(\E i \in Ids : Working(i))

FairSpec == Spec /\ Fairness

----------------------------------------------------------------------------
(* Properties.                                                             *)

\* The callbacks for the topic messages of one link run one after the other, in
\* the order in which the messages were sent, though the handlers of requests
\* between them run beside them: when a message is taken from the stream, the
\* callback of each message sent before it has ended.
TopicsInOrder ==
    \A i, j \in DOMAIN frames :
        /\ i < j
        /\ IsTopic(i)
        /\ IsTopic(j)
        /\ frames[i].link = frames[j].link
        /\ stage[j] \notin Unread
        => stage[i] = "done"

\* The callback that the link's ClientHandler awaits waits for an answer.
WaitingCallback(l) == blocked[l] # 0 /\ stage[blocked[l]] = "calling"

\* Two nodes have callbacks that wait for answers from each other, and neither
\* node reads the other's request before its own callback has ended.
MutualWait(l) == WaitingCallback(l) /\ WaitingCallback(Back(l))

\* A callback waits for a handler that calls the callback's node in turn, which
\* does not read that request before the callback has ended.
WaitsForItself(l) ==
    /\ WaitingCallback(l)
    /\ \E j \in Children(blocked[l]) : stage[j] = "calling"

\* A link on which nobody is answered any more.
Lost(l) == link[l] # "open" \/ l \in torn

\* What happens between the two nodes of link l may never come to an end.
Excused(l) ==
    \/ MutualWait(l)
    \/ \E m \in {l, Back(l)} :
        \/ WaitsForItself(m)
        \/ Lost(m)
        \/ \E j \in DOMAIN frames : frames[j].link = m /\ stage[j] = "cancelled"

\* Requests are answered whatever other handlers wait for, also if handlers call
\* back the node that called them, unless callbacks wait for each other or for
\* themselves, the connection is lost, or the handler or one that it waits for is
\* cancelled.
RequestsAreAnswered ==
    []<>(\A i \in DOMAIN frames :
            ~IsTopic(i) => stage[i] = "answered" \/ Excused(frames[i].link))

\* Under the same conditions every topic message is taken and its callback ends:
\* an error in a callback, or a callback that is gone, costs no later message.
MessagesAreHandled ==
    []<>(\A i \in DOMAIN frames :
            IsTopic(i) => stage[i] = "done" \/ Excused(frames[i].link))

\* How far a message or request has come.
Way == [unsent |-> 0, queued |-> 1, sent |-> 2, task |-> 3, running |-> 4, calling |-> 5,
        done |-> 6, answered |-> 6, torn |-> 6, garbled |-> 6, dropped |-> 6, cancelled |-> 6]

\* Each message is written once and its callback runs once; each request is
\* handled once and answered once at most, whatever ends, fails or is cancelled
\* meanwhile: what was begun is not begun again, and what has ended is not touched.
HandledOnce ==
    [][\A i \in Ids : stage'[i] # stage[i] => Way[stage[i]] < Way[stage'[i]]]_vars

\* The event loop, an outbox, or a callback or handler that need not wait can
\* take a step: some action that Fairness speaks of is enabled.
CanGoOn ==
    \/ \E l \in Links : link[l] = "open" /\ outbox[l] # <<>>
    \/ \E l \in Links : CanRead(l) /\ (stream[l] # <<>> \/ link[l] = "ending")
    \/ \E i \in Ids : stage[i] = "task" \/ Finished(i)

\* However calls are nested, and however many callbacks and handlers wait: when
\* nothing can go on, all there was to do is done, but for what is excused.
NothingIsStuck ==
    ~CanGoOn =>
        \A i \in DOMAIN frames :
            \/ stage[i] = IF IsTopic(i) THEN "done" ELSE "answered"
            \/ Excused(frames[i].link)
=============================================================================
