# A verification project for rosy

rosy is a Python library for building meshes of nodes that send each other
topic messages and call each other's services.  This directory holds TLA+
models of its core, the TLC runs that check them on small instances, and proofs
that TLAPS checks for every size.  All paths below are relative to the
repository's `src/rosy/`.

## The system

Everything but the discovery browser's thread runs on one asyncio event loop per
process, so the unit of interleaving is what runs between two suspensions
(`await`s that really suspend).  That is what an action is in every module.

| Component | State it keeps | Operations | Interacts with |
|---|---|---|---|
| `NodeOutbox`, `NodeOutboxManager` (`node/topic/outbox.py`) | bounded queue of messages with deadlines, one task per peer | `send`, `stop`, the task's loop | connection manager, the writer's lock |
| `TopicSender` (`node/topic/sender.py`) | none | `send`: select peers, encode once, hand to each outbox | peer selector, outboxes |
| `ServiceCaller` (`node/service/caller.py`) | next request id; per connection a table of futures and a handler task | `call`, the response handler | peer selector, connections, writer's lock |
| `PeerConnectionManager` (`node/peer/connection.py`) | cached connection and lock per node | `get_connection`, `close_connection` | outboxes, caller, topology handler |
| `MeshTopologyManager`, `TopologyChangedHandler` (`node/topology.py`) | the topology, lookup tables by topic and service | `set_topology`; on change: stop outboxes and close connections of nodes that left | discovery, all of the above |
| Load balancers (`node/loadbalancing.py`) | last time each node was chosen | `choose_nodes`, `choose_node` | peer selector |
| `ClientHandler`, `ServiceRequestHandler`, `TopicMessageHandler` (`node/clienthandler.py`, `node/service/requesthandler.py`, `node/topic/messagehandler.py`) | a task per connection and per request | decode, call back, respond | the user's callbacks |
| `ZeroconfNodeDiscovery` (`discovery/zeroconf.py`) | nodes by service name, a monitor task per node, a "changed" event | state change events, monitor checks, removal | topology handler, zeroconf's thread |
| `Node` (`node/node.py`), `ServersManager` (`node/servers.py`) | life cycle state, callbacks by topic and service | `start`, `stop`, `listen`, `add_service`, `depends_on_listener`, ... | everything |
| `ProcessManager` (`procman.py`) | list of child processes | `popen`, `add`, `stop`, `wait` | the operating system |
| Codecs (`codec.py`, `node/codec.py`, `node/*/codec.py`) | none | `encode`, `decode` | connections |
| Command line tools (`cli/`) | none of their own | bag recording and playing, echo, send, call, launch | `Node` |

What is hard in it: messages that outlive their deadline while the task waits;
cancellation at every suspension; two kinds of users sharing a connection; ids
that are used again; answers that come late, out of order, or not at all; a node
that leaves while something is being sent to it; monitor tasks that race with
discovery events.  `PROJECT.json` lists these hazards at their lines.

## Modules

### Outbox: the queue of topic messages for one peer

`Outbox` models one `NodeOutbox`.  `queue` and `unfinished` are the
`asyncio.Queue` with its count of unfinished items, `task` says where `_run()`
is suspended (`get`, `connecting` in `get_connection()`, `locking` in
`LockableWriter.__aenter__`, `draining` in `drain()`), `item` is the item it
holds.  `Send` and `Stop` are the public operations; each remaining action is
one resumption of the task, and `Cancelled` is the resumption by a
`CancelledError` wherever it was suspended.  A service call on the same
connection is reduced to what it does to the lock.  Messages are numbered, and
`sent` and `written` record the history.

`TopicChannel` is the abstract specification: the "Guarantees" of the
repository's README (at most once, in order) for one sender and one receiver.
`Outbox` implements it with `offered <- sent`, `delivered <- written`.  What the
kernel does with written bytes and what happens across two connections to the
same peer is outside this module.

| Run | Bounds | Shows |
|---|---|---|
| `outbox` | queue of 2, ttl of 2 ticks, 5 messages, 4 ticks | the books, the order, the deadlines, quiet after `stop()`, no message falls back (`MessagesMoveOn`), refinement of `TopicChannel`; every message leaves a running outbox; `stop()` returns |

A queue of 2 fills, drops and refills with 5 messages while a third place is the
task's hand; 4 ticks let messages expire in the queue, during the connection and
at the lock, and let younger messages outlive older ones.

Fairness: the event loop runs what is ready (weak fairness of each resumption).
Connection attempts end by the operating system's timeouts.  `drain()` ends
because the peer reads again or, on a TCP connection, `TCP_USER_TIMEOUT`
(`socket.py`) breaks it; on a Unix socket only the peer's reading justifies the
assumption.  `asyncio.Lock` serves its waiters in order, hence strong fairness
for the lock, and its other holders release it.  The 10 seconds after which
`cancel_task()` gives up are not modelled: a cancelled task ends at its next
resumption, whatever it waits for.

### ServiceCaller: calls and their answers

`ServiceCaller` models the calls of one node to one peer over successive
connections (`Readers`).  `futures[r]` is `_response_futures[r]`, a table from
request ids to calls; `known` are the readers that are keys of it, which are
exactly those with a live handler task.  `Register` is everything `call()` does
from the return of `get_connection()` to the wait for the lock, without
suspending: start a handler unless there is one, find a free id, enter the
future, encode.  `Resume` pops the id from whatever table the reader has *then*.
`Cancel` strikes at any suspension.  A handler ends at the end of the stream
(`HandlerAtEof`) or, if `Garbled`, when an answer does not decode
(`HandlerFails`: for instance a pickled result whose class the caller cannot
import); either way it fails and clears the table, and only in the first case is
the connection finished.  A connection whose peer has closed its side but whose
writer is not closing is still handed out by `get_connection()`; a call on it
starts a new handler, which ends at once and fails the call.  The peer answers
in any order or closes; what keeps it from answering is in `Provider`.

`RemoteCall` is the abstract specification: a request reaches the provider at
most once, and a call ends once, with its own answer or an error.

| Run | Bounds | Shows |
|---|---|---|
| `caller_ids_reused` | 3 calls, 2 ids, 2 connections, answers decode | own answers only, refinement of `RemoteCall`, though ids are reused; a call is refused only when each id is kept by a call that is under way, unanswered, or was given up |
| `caller_garbled` | 2 calls, 2 ids, 2 connections, answers may not decode | whoever waits is registered with a live handler and has its answer or the end of its connection still to come, or waits for a lock whose holder can go on; every call ends |
| `caller_wrong_answer` | 3 calls, 2 ids, 1 connection, answers may not decode | **violation**: a call returns the answer to another call |

Two ids for three calls make ids wrap around; as many ids as calls make sure
they do not.  The real bound is 65536, which a connection that makes a thousand
calls a second goes through in about a minute.

The fairness is that of `Outbox`, and that the peer answers each request or
closes the connection.

What `caller_wrong_answer` shows: `_response_handler()` ends when an answer does
not decode, and forgets all ids of the connection, but leaves the connection
open.  A peer that is slow to answer one of the forgotten requests answers it
after its id was given to a new call, which returns the wrong result.

`RefusedOnlyWhenTaken` names what keeps an id.  Besides the calls under way these
are calls that were given up: `_get_request_id_and_response_future()` has no
`try` around its `yield`, so cancellation (for example
`asyncio.wait_for(node.call(...))`), an argument that cannot be encoded, or a
failed `drain()` leave the future in the table for as long as the connection
lives.  For a call whose request was written that is right, as the run shows: the
id is not given out again before the late answer has come and gone.  For one
whose request was never written the id is lost.

### LoadBalancing: who gets the next message

`LoadBalancing` models `PeerSelector` with the default balancers of
`build_peer_selector()` over the lookup tables of `MeshTopologyManager`.
`candidates` are those tables, `lastUsed` is `_last_used`, one record for all
topics and services.  `Choose` is `get_nodes_for_topic()` or
`get_node_for_service()`, `SetTopology` any change of the mesh.  `Choices`
follows the code: the candidates come as a list in any order (`Orders`), a
topic's list is sorted by name (`Lists`), `groupby()` cuts it where the name
changes (`Starts`, `GroupFrom`), and `min()` takes the first of those with the
least time in each group (`LeastRecent`).  A service's list is one group.
`Rivals` are the nodes that ought to compete, all candidates of a service and the
namesakes among a topic's; that the groups are just these is proved.
The random default times are distinct
values before time 0.  `time.monotonic_ns()` is taken to differ between two
choices, which holds where its resolution is fine; on a system with a coarse
clock, choices within one tick tie and the first node of the list is chosen
again.

`overtook` and `owed` are histories: who was chosen before a node that waits, and
who has not had its turn since a node's latest.

| Run | Bounds | Shows |
|---|---|---|
| `balancing` | 3 nodes, 2 names, 1 topic, 1 service, 4 choices | a message goes to one listener of each name; new nodes first; nobody is passed over twice by the same rival |

Three nodes make two namesakes and a stranger; four choices are enough for a
node to be passed over for one key, chosen for the other and come back.

That the choice is round robin for a topic or service whose nodes have no other is
proved in `LoadBalancingProofs` and not repeated by a run.  With two topics on one node it is
*not* round robin, because of the shared record: with two listeners of one name on two
topics that are sent in turn, one gets all messages of the first topic and the
other all of the second.  `NoSecondOvertaking` is what does hold with any number
of topics and services.

### PeerLinks: connections, outboxes and nodes that leave

`PeerLinks` puts together `PeerConnectionManager`, `NodeOutboxManager`, the
service calls and `TopologyChangedHandler`.  A *user* of connections is a call or
the task of a node's outbox; `pc` says where it is in `get_connection()`
(`locking`, `closing` the old connection, `building` the new one) or that it is
`using` what it got, whose details are those of `Outbox` and `ServiceCaller`.
Who has a node's lock follows from `pc`.  `cached` is `_connections`, `registered`
the keys of `_outboxes`, `cancelling` the outboxes being stopped.  `status` of a
connection is `open`, `broken` (the transport is closing by itself, which
`is_closing()` tells) or `closed` (somebody called `close()`).

`handler` is where the topology handler is suspended: `stopping` an outbox or
`closing` a connection of one node, with the nodes left `todo`.  `Advance` is its
loop up to the next suspension; the order of the nodes is left open.  The event
between discovery and handler is `changed`, cleared before the handler looks at
the nodes.  Where the event is set again meanwhile, the code goes on without a
suspension and the model takes two steps, which only adds interleavings.

Not in this module: a codec of the user's that suspends while it encodes a topic
message, so that an outbox is asked for after its node left; `stop()` of the
node while the handler runs.

| Run | Bounds | Shows |
|---|---|---|
| `links` | 2 nodes, 1 call, 2 connections, 3 changes, closing may fail | one live connection to a node at most, and it is the one kept; an outbox that can be found runs; what stays behind for a node that left; the topology catches up with discovery; calls that wait for a leaver end |
| `links_lost` | 1 node, 2 connections, closing may fail | **violation**: a lost connection is not replaced |

An outbox and a call are two users that meet at each place of
`get_connection()`, two nodes let one removal wait or fail before the other, and
three changes let a node come, leave and come again.  Connections and changes
run out in these instances, so the runs do not check for deadlock.

Fairness: as in `Outbox`; and sockets that are closed do close.  For a Unix
socket whose peer reads no more, nothing in the code sees to that, and then the
handler and with it the topology would hang.  No fairness makes peers answer.

`LeaversAreForgotten` says exactly what may stay behind for a node that left,
with the history `excused`: a connection that `get_connection()` was about to
make when the handler passed, which nobody closes until the node joins again and
leaves again; and everything of the nodes that came after one whose connection
raised an error as it was closed, for the error ends the handler's loop.

`links_lost` shows what such an error does elsewhere.  A connection to a host
that died is ended by `ETIMEDOUT`; `wait_closed()` raises that `TimeoutError`
again, `close_ignoring_errors()` ignores only `ConnectionError`, and
`get_connection()` raises instead of connecting anew.  The message or call that
came first is lost, the next one gets a connection.

### Provider: messages and requests as they are received

`Provider` models the `ClientHandler`s of all nodes, one for each *link*, the
connection that one node opened to another; what the other one answers goes back
on it.  `frames` numbers all messages and requests in the order in which they
were sent, `stage[i]` is what became of frame `i`, `outbox` and `stream` are where
it waits.  `TakeMessage` and `TakeRequest` are the two branches of
`handle_client()`: the first awaits the callback (`blocked`), the second creates a
task, which looks for its handler when it first runs (`StartHandler`).
`CallBack` is a user's callback or handler that itself calls a service of the
peer and waits.  `HandlerEnds` writes the answer, or, if the result cannot be
encoded, its id and status only (`RespondTorn`); after that the caller reads what
follows as the rest of it (`torn`, `garbled`).  Errors and cancellation of
callbacks and handlers are treated differently, as in the code: an `Exception` is
logged or answered, a `CancelledError` ends the `ClientHandler` from a callback,
and from a handler it ends the task without an answer.

The outbox and the caller's table are in `Outbox` and `ServiceCaller`; here a
message is written in order and a request at once, so a request can overtake the
topic messages sent before it.  The README's promise of order therefore holds of
the messages among each other, which is what `TopicsInOrder` says of their
callbacks.

| Run | Bounds | Shows |
|---|---|---|
| `provider` | 2 nodes, 1 topic, 2 services, 5 frames; the callback calls a service whose handler calls back another one; one link may be lost, one handler comes and goes, one result may not encode, a callback and a handler may be cancelled | callbacks run one at a time in the order of the messages; nothing is handled or answered twice; every request is answered and every message handled, unless excused, and whenever nothing can go on that has come about |

The scripts let one node send a message, a request and a message, the other a
request and a message, so that both callbacks and both handlers can be at work at
once and call each other.  Five frames are what both send; where they send less,
there is room for nested calls, two of them for a callback whose call leads back
to its own node.

Two things that the code allows are left out of this module.  A node may be its
own peer, when it listens to its own topic or hosts the service it calls; `Links`
are between different nodes only, so the connection of a node to itself, and a
callback that waits for an answer on the connection it was read from, are not
explored.  And a callback or handler calls back only the node
that sent the message or request it works on: circles through a third node are not
explored.

`Excused` says what may keep a frame between two nodes waiting for ever:
`MutualWait`, two callbacks that wait for answers from each other's node, which
neither reads before its callback has ended; `WaitsForItself`, a callback that
waits for a handler which calls the callback's node in turn, and that node does
not read the call before the callback has ended (deadlocks both, which only a
cancellation or the end of a connection can break); a link that was lost or torn;
and a handler that was cancelled, for its caller is never told.  Handlers may call
each other back to any depth, as the reader does not wait for them.

`NothingIsStuck` says this without fairness: if no action that `Fairness` speaks
of is enabled, everything was handled and answered or is excused.  `CanGoOn` is
that enabledness, written with the state: a message in an open outbox, a stream
that can be read, a task that has not begun, or a callback or handler with nothing
left to wait for.

Fairness: the event loop runs what is ready, outboxes drain, and the user's
callbacks end, apart from the calls that they wait for.

### Discovery: monitors, removals and the table of nodes

`Discovery` models `ZeroconfNodeDiscovery` for the services that other nodes
announce.  `record[n]` is what the network says of service `n` (external);
`events` are the browser's events that its thread has not yet handed to the loop,
one at a time, waiting for each.  `monitors` is `_node_monitors`, `monitor[m]` the
state of each task ever started, `table` is `_service_name_to_node`, `changed` the
event and `caller` the task that calls the callback.  `_stop_monitoring_node()` is
run by the event's coroutine (*stopper* 0) and by the removal that monitor `m`
starts as a task of its own (stopper `m`); both look up the monitor, wait for its
end and pop what is there then (`StopAtOnce`, `StopMonitor`, `Stopped`,
`StopFails`).  A pop that finds nothing raises `KeyError`, which from stopper 0
ends the browser's thread (`browsing`).  `stop()` is `Stop`, `Joined`,
`CancelNext`, `Close`.

| Run | Bounds | Shows |
|---|---|---|
| `discovery` | 2 services, 1 version, 3 events | no change of the table is missed; no entry is left that nobody watches, and no service that was announced goes without a monitor; nothing is at work after `stop()`; the topology catches up with the network, but for `raced` services |
| `discovery_stale` | 1 service, 2 versions, 2 events | **violation**: the topology does not catch up |

Three events of two services let one service be announced, lost and announced
again while a removal of its first monitor is on its way and the other service's
event waits behind it.  A number of events is a bound; records may run out at any
time besides.

What `discovery_stale` shows: a monitor that finds no record starts the removal
of its node and ends; before the removal runs, the node is announced again and has
a new monitor.  The removal takes that for its own, cancels it and drops the
node, which is there and stays missing until its record changes.  `raced` is the
history of the services that met this; `CatchesUp`, `EntriesAreWatched` and
`ServicesAreWatched` hold of all others, and as long as the browser's thread lives.

Fairness: loop and thread run what is ready, lookups are answered (they have a
timeout), the callback returns; `links` shows when it does.

### NodeLife: one node from its making to its end

`NodeLife` models `Node` with the `CallbackManager`s of topics and services and
`ServersManager`.  `starter` and `stopper` say where `start()` and `stop()` are
suspended; `stop()` goes through the parts of discovery (`caller`, `browser`,
`monitors`, `zeroconf`) and then the servers, one `at` a time.  `callbacks[n]` is
`none`, `plain` or `wrapped` by `depends_on_listener()`; `pausing` and `waiters`
count the callbacks of a topic that are in `stop_listening()` and the tasks they
left to listen again.  `published` is what zeroconf announces of the node, `spec`
what `start()` is about to register.  That `async_register_service()` raises an
error if the node's name is announced already, or zeroconf closed, is external.

| Run | Bounds | Shows |
|---|---|---|
| `nodelife` | 2 topics that depend on each other, 1 service, 2 server providers (one unsupported, one that may fail), the browser may not stop in time, 3 changes | a started node announces what it offers; the user's last word holds; `stop()` comes to every part and returns; a circle of waiting callbacks wakes up |

Two providers are one that is skipped and one that serves or fails.  Three changes
let the user listen to both topics and then stop or replace one, or another node
join in between.

`AdvertisesWhatItOffers` holds although `listen()` may announce the node before
`start()` registers it: then the registration fails, and with it `start()`, though
the node is up and announced.  `LastWordHolds` exempts a word that was said while
a callback of `depends_on_listener()` was out of the way (`unclear`): the task it
left listens again whatever became of the topic.  `StopComesToAll` exempts a
cancelled `stop()` and servers that `start()` opened after it.

Fairness: every wait of `stop()` has a timeout, discovery reports what it is told,
and the tasks run when they can.  `start()` need not end.

### Codecs: the bytes on a connection

`Codecs` models the codecs of `codec.py` and the codecs of messages, requests and
responses as `build_node_message_codec()` puts them together, as operators from
values to bytes and back.  An encoding has the bytes it wrote and whether it ended
without an error (`Then` puts two together); a decoding ends `ok`, `short` (it
waits for bytes) or `unknown`.  The connection is `wire` for messages and
requests, `back` for responses.  `SendFrame` is encoding to a `BufferWriter`, so
that an error leaves nothing; `Answer` encodes right to the connection, so that an
error leaves what came before it.  `int.to_bytes()`, `int.from_bytes()` and
`readexactly()` are external.  A byte has `Base` values, and the powers of `Base`,
the parts of a sequence and the value of a number's bytes are recursive functions
(`Power`, `EncodedUpTo`, `DecodedUpTo`, `ValueUpTo`), so that they can be proved
about.

| Run | Bounds | Shows |
|---|---|---|
| `codecs` | bytes of 4 values, widths of 1 or 2 bytes, 8 messages and requests, 5 responses, 3 of each under way | what was sent is read as it was sent; responses are misread only after one that could not be encoded; integers keep value and sign |

With four values a byte, lengths, ids and counts overflow at 3 as the real ones do
at 255 and 65535, and the list has for each something that just fits and
something that just does not.

An observation: `byte_length()` takes the magnitude of a signed integer and leaves
no room for its sign, so `VariableLengthIntCodec` refuses signed values such as
128..255 that would fit in two bytes.  It never writes a wrong one, which is what
`IntsRoundTrip` says, and rosy itself uses the codec for none.  The run tries all
integers up to three bytes, the longest that a header of four values can announce.

## Proofs

Each proof module has an inductive invariant `IInv`, lemmas that each action
keeps it, and theorems for what the runs check.  They hold for every value of the
constants that the module's assumption allows.

* `OutboxProofs`: what `outbox` checks, except liveness.  `IInv` adds three
  facts: the item in the task's hand is older than all that wait
  (`ItemIsOlder`), only a task that drains has the lock (`LockIsTheTasks`), and
  what was written is older than what is still to be written
  (`WrittenIsOlder`).  The last is what makes the order of `TopicChannel`
  inductive: dropping from the front of the queue and giving up the item in hand
  only ever widen the gap.  Two theorems come near to `EveryMessageLeaves`.
  `MessagesMoveOn` measures what a message has to go (`ToGo`: its place in the
  queue and the task's stage): it never grows, and each step of the task lessens
  it, whatever fails.  `TaskIsReady` says that the task can take a step while there
  is a message, unless `stop()` was called or a service call has the lock.
* `ServiceCallerProofs`: type correctness; `OwnAnswer` and the refinement of
  `RemoteCall` where answers decode (`Garbled = FALSE`), which
  `caller_wrong_answer` shows to be necessary.  The key of `IInv` is
  `AskedIsEntered`: a request the peer has not answered has its id, and its own
  call's future under that id, in the table of a connection that is not dead, so
  the id cannot be given out twice.  A second invariant, `CInv`, needs no
  assumption on the answers: what is in a table is a call that took its id from
  it and was not answered (`TableHoldsKeepers`), which gives
  `RefusedOnlyWhenTaken`, and the holder of a lock drains (`LockHolderDrains`).
  `WaiterIsRegistered` needs that there are as many ids as calls (`WInv`: ids are
  given out in order, so no two calls have the same): when ids come round, a call
  that resumes may remove the entry of another one, because `call()` looks up the
  table by its reader again and a table may have been made anew since.
  On top of `WInv`, `AnswerInv` (a future is pending or done while its call is under
  way, and what was written and not answered is with the peer or the peer has
  closed) carries `NoCallIsStuck`, the safety half of `EveryCallEnds`: the only
  other way for a future to stay pending would be an answer that is read for it
  and not given to it.
* `LoadBalancingProofs`: the first lemmas say what sorting, grouping and `min()` come
  to.  In a sorted list a group has all rivals of its nodes (`GroupIsRivals`), no
  two groups are of one name (`OneStart`) and each candidate is in one
  (`SomeStart`); the finitely many times of a group have a least
  (`LeastRecentOfGroup`).  So exactly one of each set of rivals is chosen, and one
  of the least recent (`ChoiceOf`), which is what `AlwaysOnePerName` and the others
  rest on.  Without `sorted()` the first of these fails, as the run's mutant shows.
  `IInv` says that times after the start mark the nodes
  used before, and that who overtook a waiting node was chosen after it.  Round
  robin is proved of each topic or service that shares no node with another
  (`RoundRobinWhenAlone`; `RoundRobinWithoutSharing` for all of them at once):
  then whoever is owed a message was chosen before the node on whose account it
  is owed (`OwedIsEarlier`), which a choice for another key of the same nodes
  would turn around.
* `PeerLinksProofs`: `LinksInv` (the lock is exclusive, its holder found no
  connection kept, what is kept is live and leads to its node) carries
  `NoStrayConnection`; `OutboxInv` (the handler works on nodes that left, and
  who is cancelled is whom it waits for) carries `OutboxesRun`; `LeaversInv`
  (what the handler is done with is clean or excused, and nobody is in
  `get_connection()` for it) carries `LeaversAreForgotten`.  That closing needs
  no lock is the point of the first: the handler can only take away what
  `get_connection()` has not got its hands on.  `UsedLeads` (what
  `get_connection()` returned leads to the user's node, whatever became of it)
  with the first and the third gives `CallsToLeaversAreCut`, the safety half of
  `CallsToLeaversEnd`: a live connection would be the one kept for the node, and
  none is kept.
* `DiscoveryProofs`: `BooksInv` (each event starts at most one monitor, monitors
  are born in order, whoever stops has a cause and waits for a monitor that was
  born, and a registered monitor was started for its service) carries `TypeOK`.
  `ShownInv` (while there is a task that calls the callback, the callback has
  seen the table as it is or the event is set) carries `NoChangeMissed`, and
  `QuietInv` (once the browser's thread has ended, each monitor still at work is
  on the list of `stop()`) carries `QuietAfterStop`.  `WatchInv` carries
  `EntriesAreWatched`: for a service that was not raced, a monitor at work that
  nobody cancelled is the one in the table of monitors; one that ended has a
  stopper, and one that was cancelled was cancelled by the browser's event, which
  waits for it.  The case that could break it is a removal that waits, and a
  removal waits only for a monitor that is not its own (`RemovalsDoNotWait`).
  `PresentInv` carries `ServicesAreWatched`: the last event that waits for a
  service that is there is its announcement, so whatever the events before it take
  down is built again, and a service without an event that waits has a monitor
  that has not ended.  `SettledIsCurrent` then says what discovery is for without
  a word about fairness: where all the waiting has ended and each lookup would only
  find what is in the table already, the callback was shown exactly the services
  that the network knows, with their last records.  It is the safety half of
  `CatchesUp`.
* `NodeLifeProofs`: `LifeInv` (one server for each provider at most, nothing starts
  after `stop()`) carries `TypeOK`; `AdvertInv` (what `start()` is about to register
  is what the node is, unless an update has announced that before) carries
  `AdvertisesWhatItOffers`; `WordInv` (only a callback of `depends_on_listener()`
  is ever out of the way) carries `LastWordHolds`; `StopInv` (what `stop()` has
  passed has stopped or is among its errors, servers it has yet to come to are
  open) carries `StopComesToAll`.  Two more theorems are what `StopReturns` rests on:
  `StopMovesOn` measures what `stop()` has left to come to (`StepsLeft`, which each
  of its steps lessens and nothing adds to, servers that `start()` opens meanwhile
  neither), and `StopCanGoOn` says that it can take a step wherever it is
  (`PartsInv`: zeroconf is there until `stop()` comes to it).  `NobodyWaitsInVain`
  is the safety half of `ChainWakes`: it puts `LastWordHolds` and
  `AdvertisesWhatItOffers` together.  A topic that another one depends on is
  listened to or waits for a listener; if that is there, the wait could end; if not,
  the topic is announced, this node has seen it, and who depends on it could go on.
* `ProviderProofs`: `IInv` follows each message on its way.  Outboxes and streams
  hold what is queued and written, the oldest first (`OutboxInOrder`,
  `StreamInOrder`); nothing is beside them, and a callback at work is the one its
  handler awaits (`NothingAstray`); so no message is written before an older one
  or taken before the older one's callback has ended (`NoOvertaking`, which gives
  `TopicsInOrder`).  `WaitInv` says who waits for what: a nested call goes back to
  the node of the request it is part of, and is younger (`CallsGoBack`); what a
  reader waits for is at work (`AwaitedAreAtWork`); and a request is in a stream,
  at work, answered, or lost with its link (`RequestsAreAccounted`).  Then
  `NothingIsStuck` follows: where nothing can go on, an unread stream has a reader
  that waits for a callback, which waits for a call, which is unread too (then two
  wait for each other) or at work and calling (then the callback waits for
  itself); so the streams of the two nodes are empty, and the youngest of the
  handlers that wait for a call has none left to wait for.
  `HandledOnce` follows from `IInv` alone: what is taken from an outbox or a stream
  is still where `OutboxInOrder` and `StreamInOrder` say, and the numbers given out
  are new.  `LoopLeadsOn` adds that each step of the loop does take something a
  stage further, or closes a link.

* `CodecsProofs`: decoding inverts encoding, for bytes of any number of values
  (at least four, which the prefixes and the status of a response take) and widths
  of any number of bytes.  That a number is the number of its bytes
  (`ToBytes`, `FromBytes`) and that a sequence is decoded item by item to what was
  encoded item by item are inductions over recursive functions.  The library's
  theorems of induction cannot be used for them, but its well-founded sets can:
  each set of natural numbers has a least one (`LeastNatural`), so a set that holds
  0 and with each number the next one holds all (`SetInduction`), and a recursive
  function is what its equation says (`RecursionOnNat`).  Each encoder then has a lemma that its
  decoder, given what it wrote and anything after it, returns the value and what
  came after it; `FrameInverts` and `AnswerInverts` put these together.
  `FramesRefused` and `AnswersTorn` say exactly what is refused.  `IInv` says what
  is on the connection: the bytes of the messages that were sent and not yet read,
  cut where each of them ends (`FramesInv`), and the same of the responses up to
  the one that was torn (`AnswersInv`), which carries `FramesInStep` and
  `AnswersInStep`.

Only model-checked are the liveness properties, as fairness and ENABLED are out
of the prover's reach.  Of `EveryMessageLeaves`, `MessagesMoveOn` and
`TaskIsReady` prove all but that the task is scheduled and the lock given back.
Of `EveryCallEnds`, `NoCallIsStuck` proves that a call never waits for something
that cannot come.  Of `CallsToLeaversEnd`, `CallsToLeaversAreCut` proves that a call
to a leaver always finds its connection closed in the end, and of
`CatchesUp`, `SettledIsCurrent` proves that discovery can come to rest nowhere
else.  Of those of `provider`, `NeverStuck` proves one half: an execution does
not stop before all is done.  `LoopLeadsOn` with `AlwaysHandledOnce` proves what
the other half rests on: each step that fairness speaks of takes a frame a stage
further or closes a link, no step takes one back, and there are no more frames
than `MaxFrames`.  Of those of `nodelife`, `StopMovesOn` and `StopCanGoOn` prove
that `stop()` ends when it is scheduled, and `NobodyWaitsInVain` that a chain of
topics comes to rest nowhere but awake.  That these make up a liveness property is a
step of temporal logic with ENABLED, and stays with TLC.  All the invariants and
action properties of the runs are proved.  `TaskIsReady`, `StopCanGoOn`,
`StopMovesOn` and `NobodyWaitsInVain` hold in the runs' instances too, and are left
to the proofs.

## Not modelled

* `ProcessManager`: sequential, SIGTERM, a wait, SIGKILL; its only partner is the
  operating system.
* The command line tools and demos: sequential users of `Node`.
* The builder and the data types: wiring and records, except
  `build_peer_selector()` (in `LoadBalancing`) and `build_node_message_codec()` (in
  `Codecs`).
* Load balancers without state (`NoopTopicLoadBalancer`, `RandomLoadBalancer`):
  they promise nothing about who is chosen.
* In which order addresses are tried and the socket options: I/O.
* The names of zeroconf services, their type, and the compressed record: formats.
* `wait_for_service_provider()` and the proxies of topics and services: thin uses
  of what is modelled.

## What could come next

A composition of `NodeLife` with `Discovery`, in which one node's announcements
are another one's events; the process manager, whose children may end at any point
between two signals; an abstract specification of `Discovery` (a table that
follows what was announced) and its refinement.
