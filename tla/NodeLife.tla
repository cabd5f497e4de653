------------------------------ MODULE NodeLife ------------------------------
(***************************************************************************)
(* One node from its making to its end: Node of rosy/node/node.py with the *)
(* CallbackManagers of its listeners and services and the ServersManager   *)
(* of rosy/node/servers.py.  Discovery is seen as its parts that start and *)
(* stop, and as what it announces of the node.                             *)
(*                                                                         *)
(* A step is what the event loop runs between two suspensions of start(),  *)
(* stop(), a callback made by depends_on_listener(), or the task it        *)
(* leaves behind.  listen(), stop_listening(), add_service() and           *)
(* remove_service() change the callbacks and hand the new announcement to  *)
(* zeroconf without suspending; what they wait for later is its broadcast. *)
(***************************************************************************)
EXTENDS Integers, Sequences

CONSTANTS
    Topics,
    Services,
    Needs,          \* the topic that a topic's callback depends on, if it is made
                    \* by depends_on_listener()
    Providers,      \* how many server providers there are
    Unsupported,    \* the providers that the system does not support
    Faulty,         \* the providers whose server may fail to start
    Slow,           \* bound: the parts of discovery that may fail to stop
    MaxChanges      \* bound: what users change, here and elsewhere

Names == Topics \cup Services
Servers == 1..Providers
Parts == {"caller", "browser", "monitors", "zeroconf"}

ASSUME NodeLifeAssumption ==
    /\ Topics \cap Services = {}
    /\ Needs \in [Topics -> Topics]
    /\ Providers \in Nat \ {0}
    /\ Unsupported \subseteq Servers
    /\ Faulty \subseteq Servers
    /\ Slow \subseteq Parts
    /\ MaxChanges \in Nat

VARIABLES
    state,      \* Node._state
    starter,    \* where start() is
    provider,   \* the server provider it is at
    stopper,    \* where stop() is: at a part of discovery, or at the servers
    alive,      \* the parts of discovery that run
    errors,     \* those that did not stop as they should
    cancelled,  \* stop() was cancelled
    opened,     \* ServersManager._servers
    server,     \* the state of each server
    at,         \* which of the servers stop() has come to
    late,       \* history: servers opened when stop() had ended
    spec,       \* what start() registers
    published,  \* what is announced of the node
    callbacks,  \* the callbacks of topics and the handlers of services
    pausing,    \* how often the callback of a topic is in stop_listening()
    waiters,    \* the tasks that wait to listen to a topic again
    elsewhere,  \* the topics that other nodes listen to
    seen,       \* the topics of this node, as its own topology has them
    word,       \* history: what the user said last of a name
    changes     \* what was changed so far

lifeVars == <<state, starter, provider, stopper, alive, errors, cancelled, opened, server, at, late, spec>>
userVars == <<callbacks, pausing, waiters, word>>
meshVars == <<elsewhere, seen>>
vars == <<lifeVars, published, userVars, meshVars, changes>>

After == [caller |-> "browser", browser |-> "monitors",
          monitors |-> "zeroconf", zeroconf |-> "servers"]
Unpublished == [known |-> FALSE, keys |-> {}, specs |-> {}]
Announcement == [known : BOOLEAN, keys : SUBSET Names, specs : SUBSET Servers]
Kinds == {"none", "plain", "wrapped"}
Elems(q) == {q[i] : i \in DOMAIN q}

TypeOK ==
    /\ state \in {"initialized", "started", "stopped"}
    /\ starter \in {"idle", "servers", "registering", "done", "failed"}
    /\ provider \in Servers
    /\ stopper \in Parts \cup {"idle", "servers", "done", "failed"}
    /\ alive \in SUBSET Parts
    /\ errors \in SUBSET Parts
    /\ cancelled \in BOOLEAN
    /\ opened \in Seq(Servers)
    /\ server \in [Servers -> {"none", "open", "closed", "stuck"}]
    /\ at \in 1..(Providers + 1)
    /\ late \in SUBSET Servers
    /\ spec \in Announcement
    /\ published \in Announcement
    /\ callbacks \in [Names -> Kinds]
    /\ pausing \in [Topics -> Nat]
    /\ waiters \in [Topics -> Nat]
    /\ elsewhere \in SUBSET Topics
    /\ seen \in SUBSET Topics
    /\ word \in [Names -> Kinds \cup {"unclear"}]
    /\ changes \in 0..MaxChanges

Init ==
    /\ state = "initialized"
    /\ starter = "idle"
    /\ provider = 1
    /\ stopper = "idle"
    /\ alive = {"zeroconf"}
    /\ errors = {}
    /\ cancelled = FALSE
    /\ opened = <<>>
    /\ server = [p \in Servers |-> "none"]
    /\ at = 1
    /\ late = {}
    /\ spec = Unpublished
    /\ published = Unpublished
    /\ callbacks = [n \in Names |-> "none"]
    /\ pausing = [t \in Topics |-> 0]
    /\ waiters = [t \in Topics |-> 0]
    /\ elsewhere = {}
    /\ seen = {}
    /\ word = [n \in Names |-> "none"]
    /\ changes = 0

Stopped == stopper \in {"done", "failed"}

\* _build_node_spec(), for callbacks c and the servers o.
NodeSpec(c, o) ==
    [known |-> TRUE, keys |-> {n \in Names : c[n] # "none"}, specs |-> Elems(o)]

----------------------------------------------------------------------------
(* Variants with a plausible mistake, for showing that the properties can  *)
(* fail.                                                                   *)

\* An error of a part of discovery ends stop(), without "finally".
PartFailsAtOnce ==
    /\ stopper \in (Slow \cap alive) \cup ({"caller", "browser"} \ alive)
    /\ errors' = errors \cup {stopper}
    /\ stopper' = "failed"
    /\ UNCHANGED <<state, starter, provider, alive, cancelled, opened, server, at, late,
                   spec, published, userVars, meshVars, changes>>

\* There is no limit on how long to wait for a server.
ServerClosesUntimed ==
    /\ stopper = "servers"
    /\ at \in DOMAIN opened
    /\ server[opened[at]] = "open"
    /\ \E s \in {"closed", "stuck"} :
        /\ server' = [server EXCEPT ![opened[at]] = s]
        /\ at' = IF s = "closed" THEN at + 1 ELSE at
    /\ UNCHANGED <<state, starter, provider, stopper, alive, errors, cancelled, opened, late,
                   spec, published, userVars, meshVars, changes>>

\* A registration does not look whether the node is announced already.
RegisteredOver ==
    /\ starter = "registering"
    /\ published' = spec
    /\ starter' = "done"
    /\ UNCHANGED <<state, provider, stopper, alive, errors, cancelled, opened,
                   server, at, late, spec, userVars, meshVars, changes>>

\* The callback looks once more, and leaves no task behind if others listen now.
PauseEndsOnce(t) ==
    /\ pausing[t] > 0
    /\ pausing' = [pausing EXCEPT ![t] = @ - 1]
    /\ waiters' = [waiters EXCEPT ![t] = IF Needs[t] \in elsewhere THEN @ ELSE @ + 1]
    /\ UNCHANGED <<lifeVars, published, callbacks, word, meshVars, changes>>

\* The waiting task asks other nodes only.
ResumeElsewhere(t) ==
    /\ waiters[t] > 0
    /\ Needs[t] \in elsewhere
    /\ waiters' = [waiters EXCEPT ![t] = @ - 1]
    /\ callbacks' = [callbacks EXCEPT ![t] = "wrapped"]
    /\ UNCHANGED <<lifeVars, published, pausing, word, meshVars, changes>>

----------------------------------------------------------------------------
(* start()                                                                 *)

\* The state is set first: a node is started once, whatever becomes of it.  The
\* parts of discovery start without suspending.
Start ==
    /\ state = "initialized"
    /\ state' = "started"
    /\ starter' = "servers"
    /\ alive' = Parts
    /\ UNCHANGED <<provider, stopper, errors, cancelled, opened, server, at, late, spec,
                   published, userVars, meshVars, changes>>

\* What follows a provider, once there are the servers o: the next one, or the
\* registration of what the node is then; or an error, if there is no server.
AfterProvider(o) ==
    \/ /\ provider < Providers
       /\ provider' = provider + 1
       /\ UNCHANGED <<starter, spec>>
    \/ /\ provider = Providers
       /\ o # <<>>
       /\ starter' = "registering"
       /\ spec' = NodeSpec(callbacks, o)
       /\ UNCHANGED provider
    \/ /\ provider = Providers
       /\ o = <<>>
       /\ starter' = "failed"
       /\ UNCHANGED <<provider, spec>>

ServerStarts ==
    /\ starter = "servers"
    /\ provider \notin Unsupported
    /\ opened' = Append(opened, provider)
    /\ server' = [server EXCEPT ![provider] = "open"]
    /\ late' = IF Stopped THEN late \cup {provider} ELSE late
    /\ AfterProvider(opened')
    /\ UNCHANGED <<state, stopper, alive, errors, cancelled, at, published,
                   userVars, meshVars, changes>>

\* UnsupportedProviderError is logged.
ServerUnsupported ==
    /\ starter = "servers"
    /\ provider \in Unsupported
    /\ AfterProvider(opened)
    /\ UNCHANGED <<state, stopper, alive, errors, cancelled, opened, server, at,
                   late, published, userVars, meshVars, changes>>

\* Any other error ends start() as it is: the servers before stay open.
ServerFails ==
    /\ starter = "servers"
    /\ provider \in Faulty
    /\ starter' = "failed"
    /\ UNCHANGED <<state, provider, stopper, alive, errors, cancelled, opened,
                   server, at, late, spec, published, userVars, meshVars, changes>>

\* async_register_service() looks for a node of that name before it announces
\* this one.  It raises an error if there is one, such as from an update of this
\* node that overtook it, or if zeroconf was closed.
Registered ==
    /\ starter = "registering"
    /\ IF "zeroconf" \in alive /\ ~published.known
       THEN /\ published' = spec
            /\ starter' = "done"
       ELSE /\ starter' = "failed"
            /\ UNCHANGED published
    /\ UNCHANGED <<state, provider, stopper, alive, errors, cancelled, opened,
                   server, at, late, spec, userVars, meshVars, changes>>

----------------------------------------------------------------------------
(* stop()                                                                  *)

Stop ==
    /\ state # "stopped"
    /\ state' = "stopped"
    /\ stopper' = "caller"
    /\ UNCHANGED <<starter, provider, alive, errors, cancelled, opened, server, at, late,
                   spec, published, userVars, meshVars, changes>>

\* The next part of ZeroconfNodeDiscovery.stop(), or the servers.
NextPart == stopper' = After[stopper]

PartStops ==
    /\ stopper \in Parts
    /\ stopper \in alive \cup {"monitors"}
    /\ alive' = alive \ {stopper}
    /\ published' = IF stopper = "zeroconf" THEN Unpublished ELSE published
    /\ NextPart
    /\ UNCHANGED <<state, starter, provider, errors, cancelled, opened, server, at, late,
                   spec, userVars, meshVars, changes>>

\* It does not stop in time, raises an error, or was never started.
PartFails ==
    /\ stopper \in (Slow \cap alive) \cup ({"caller", "browser"} \ alive)
    /\ errors' = errors \cup {stopper}
    /\ NextPart
    /\ UNCHANGED <<state, starter, provider, alive, cancelled, opened, server, at, late,
                   spec, published, userVars, meshVars, changes>>

\* CancelledError is no Exception: the other parts are left, not the servers.
StopCancelled ==
    /\ stopper \in Parts
    /\ cancelled' = TRUE
    /\ stopper' = "servers"
    /\ UNCHANGED <<state, starter, provider, alive, errors, opened, server, at, late, spec,
                   published, userVars, meshVars, changes>>

\* Each server is closed; that its connections do not end in time is logged.
ServerCloses ==
    /\ stopper = "servers"
    /\ at \in DOMAIN opened
    /\ \E s \in {"closed", "stuck"} : server' = [server EXCEPT ![opened[at]] = s]
    /\ at' = at + 1
    /\ UNCHANGED <<state, starter, provider, stopper, alive, errors, cancelled, opened, late,
                   spec, published, userVars, meshVars, changes>>

\* stop() is cancelled while it waits for a server: the rest stay open.
CloseCancelled ==
    /\ stopper = "servers"
    /\ at \in DOMAIN opened
    /\ server' = [server EXCEPT ![opened[at]] = "stuck"]
    /\ cancelled' = TRUE
    /\ stopper' = "failed"
    /\ UNCHANGED <<state, starter, provider, alive, errors, opened, at, late, spec, published,
                   userVars, meshVars, changes>>

StopEnds ==
    /\ stopper = "servers"
    /\ at \notin DOMAIN opened
    /\ stopper' = IF errors = {} /\ ~cancelled THEN "done" ELSE "failed"
    /\ UNCHANGED <<state, starter, provider, alive, errors, cancelled, opened, server, at,
                   late, spec, published, userVars, meshVars, changes>>

----------------------------------------------------------------------------
(* The user's callbacks and handlers, and what is announced of them.       *)

\* update_node(): a zeroconf that is closed announces nothing any more.
UpdateNode(node) == published' = IF "zeroconf" \in alive THEN node ELSE published

\* register(), once the callbacks are c.
Register(c) ==
    /\ callbacks' = c
    /\ UpdateNode(NodeSpec(c, opened))

\* A task of depends_on_listener() may yet listen to n again.
Pending(n) == n \in Topics /\ (pausing[n] > 0 \/ waiters[n] > 0)

\* The user says what n should be.  (Bound: nothing is changed after stop().)
Say(n, kind) ==
    /\ ~Stopped
    /\ changes < MaxChanges
    /\ changes' = changes + 1
    /\ word' = [word EXCEPT ![n] = IF Pending(n) THEN "unclear" ELSE kind]

\* listen(), with a callback of its own or one by depends_on_listener().
Listen(n, kind) ==
    /\ Say(n, kind)
    /\ Register([callbacks EXCEPT ![n] = kind])
    /\ UNCHANGED <<lifeVars, pausing, waiters, meshVars>>

\* stop_listening(), which registers only if there was a callback.
StopListening(n) ==
    /\ Say(n, "none")
    /\ IF callbacks[n] = "none"
       THEN UNCHANGED <<callbacks, published>>
       ELSE Register([callbacks EXCEPT ![n] = "none"])
    /\ UNCHANGED <<lifeVars, pausing, waiters, meshVars>>

\* add_service() and remove_service() do the same with handlers.
AddService(s) == Listen(s, "plain")
RemoveService(s) == StopListening(s)

\* topic_has_listeners()
HasListeners(t) == t \in elsewhere \cup seen

\* The callback made by depends_on_listener() gets a message, and nobody listens
\* to what it would send: it stops listening.
Pause(t) ==
    /\ opened # <<>>
    /\ callbacks[t] = "wrapped"
    /\ ~HasListeners(Needs[t])
    /\ Register([callbacks EXCEPT ![t] = "none"])
    /\ pausing' = [pausing EXCEPT ![t] = @ + 1]
    /\ UNCHANGED <<lifeVars, waiters, word, meshVars, changes>>

\* stop_listening() returns, and the callback leaves a task behind.
PauseEnds(t) ==
    /\ pausing[t] > 0
    /\ pausing' = [pausing EXCEPT ![t] = @ - 1]
    /\ waiters' = [waiters EXCEPT ![t] = @ + 1]
    /\ UNCHANGED <<lifeVars, published, callbacks, word, meshVars, changes>>

\* wait_for_listener() finds a listener, and the task listens again, whatever
\* became of the topic meanwhile.
Resume(t) ==
    /\ waiters[t] > 0
    /\ HasListeners(Needs[t])
    /\ waiters' = [waiters EXCEPT ![t] = @ - 1]
    /\ Register([callbacks EXCEPT ![t] = "wrapped"])
    /\ UNCHANGED <<lifeVars, pausing, word, meshVars, changes>>

\* Discovery reports this node to itself, as it reports the others.
Hears == {"caller", "browser"} \subseteq alive

SeeOwn ==
    /\ Hears
    /\ seen # published.keys \cap Topics
    /\ seen' = published.keys \cap Topics
    /\ UNCHANGED <<lifeVars, published, userVars, elsewhere, changes>>

SeeOthers ==
    /\ ~Stopped
    /\ Hears
    /\ changes < MaxChanges
    /\ changes' = changes + 1
    /\ elsewhere' \in SUBSET Topics \ {elsewhere}
    /\ UNCHANGED <<lifeVars, published, userVars, seen>>

----------------------------------------------------------------------------
Starting == ServerStarts \/ ServerUnsupported \/ ServerFails \/ Registered

Stopping == PartStops \/ PartFails \/ ServerCloses \/ StopEnds

Next ==
    \/ Start \/ Starting
    \/ Stop \/ Stopping \/ StopCancelled \/ CloseCancelled
    \/ \E t \in Topics : Listen(t, "plain") \/ Listen(t, "wrapped")
    \/ \E t \in Topics : StopListening(t)
    \/ \E s \in Services : AddService(s) \/ RemoveService(s)
    \/ \E t \in Topics : Pause(t) \/ PauseEnds(t) \/ Resume(t)
    \/ SeeOwn \/ SeeOthers

Spec == Init /\ [][Next]_vars

\* The event loop runs what is ready, every wait of stop() has a timeout, and
\* discovery reports what it is told.
Fairness ==
    /\ WF_vars(Stopping)
    /\ WF_vars(SeeOwn)
    /\ \A t \in Topics : WF_vars(PauseEnds(t)) /\ WF_vars(Resume(t))

FairSpec == Spec /\ Fairness

----------------------------------------------------------------------------
(* Properties.                                                             *)

\* A node that start() has returned for is announced with all the topics it
\* listens to, all the services it provides and all its servers, however calls
\* of listen() and the like, and the pauses of callbacks, met with start().
AdvertisesWhatItOffers ==
    starter = "done" /\ "zeroconf" \in alive => published = NodeSpec(callbacks, opened)

\* The user's last word on a name holds, unless it was said while a callback of
\* depends_on_listener() was out of the way: only a callback that waits to listen
\* again is missing, and a callback that was replaced or stopped stays so.
LastWordHolds ==
    \A n \in Names :
        \/ word[n] = "unclear"
        \/ callbacks[n] = word[n]
        \/ word[n] = "wrapped" /\ Pending(n)

\* However stop() ends, it came to every part: what still runs of discovery did
\* not stop in time, and a server is open only if stop() was cancelled or if
\* start() opened it afterwards.
StopComesToAll ==
    Stopped /\ ~cancelled =>
        /\ alive \subseteq errors
        /\ \A p \in Servers : server[p] = "open" => p \in late

\* What stop() has left to come to: parts of discovery, then servers.
StepsLeft ==
    LET left == [idle |-> 6, caller |-> 5, browser |-> 4, monitors |-> 3, zeroconf |-> 2,
                 servers |-> 1, done |-> 0, failed |-> 0]
    IN  left[stopper] + (Providers + 1 - at)

\* Nothing gives stop() more to come to, servers that start() opens meanwhile
\* neither, and each of its steps leaves less.
StopMovesOn ==
    [][/\ StepsLeft' <= StepsLeft
       /\ Stopping \/ StopCancelled \/ CloseCancelled => StepsLeft' < StepsLeft]_vars

\* At each point stop() can go on: a part can stop, or fail to, and what it closes
\* last is there until then.
StopCanGoOn ==
    /\ stopper \in Parts => \/ stopper \in alive \cup {"monitors"}
                            \/ stopper \in {"caller", "browser"}
    /\ stopper = "servers" => at \in DOMAIN opened \/ at = Len(opened) + 1

\* stop() ends, whatever does not.
StopReturns == (stopper = "caller") ~> Stopped

\* The topic that t depends on is certain to be listened to: by others, or by
\* this node once others listen to what that one depends on.
Grounded(t) ==
    LET d == Needs[t]
    IN  d \in elsewhere \/ (word[d] \in {"plain", "wrapped"} /\ Needs[d] \in elsewhere)

\* Nothing is left to do for discovery and the callbacks: this node has seen what it
\* announced, and whoever waits for a listener would not find one.
Settled ==
    /\ Hears => seen = published.keys \cap Topics
    /\ \A t \in Topics : pausing[t] = 0 /\ (waiters[t] > 0 => ~HasListeners(Needs[t]))

\* A chain of topics that depend on each other comes to rest nowhere but awake.
NobodyWaitsInVain ==
    state = "started" /\ starter = "done" /\ Settled =>
        \A t \in Topics : Grounded(t) => waiters[t] = 0

\* Topics that depend on each other do not wait for each other for ever, once
\* another node listens to one of them.
ChainWakes ==
    \A t \in Topics :
        <>[](state = "started" /\ starter = "done" /\ Grounded(t)) => <>[](waiters[t] = 0)
=============================================================================
