----------------------------- MODULE Discovery -----------------------------
(***************************************************************************)
(* rosy/discovery/zeroconf.py: how a node keeps its table of the other     *)
(* nodes up to date.                                                       *)
(*                                                                         *)
(* The zeroconf library keeps a record of each service it hears of, and    *)
(* its browser thread reports changes one at a time: it waits until the    *)
(* coroutine for one event has ended before it takes the next.  For each   *)
(* service a monitor task looks the record up from time to time.  A        *)
(* monitor that finds no record starts a removal, a task of its own.  The  *)
(* event's coroutine and the removals share the code that stops a monitor; *)
(* both are "stoppers" here: stopper 0 serves the event at the head of the *)
(* queue, stopper m is the removal that monitor m started.                 *)
(*                                                                         *)
(* A step is what the event loop runs between two suspensions.  Tasks that *)
(* are ready run in any order, for how many rounds of the loop it takes    *)
(* until a task is told of another's end depends on Python's version.  The *)
(* lock around lookups only delays them, and is left out.                  *)
(***************************************************************************)
EXTENDS Integers, Sequences, FiniteSets

CONSTANTS
    Names,              \* the names of services
    Versions,           \* the contents a service's record may have
    MaxEvents           \* bound: the events the browser reports

Monitors == 1..MaxEvents        \* each event starts at most one
Stoppers == 0..MaxEvents
None == 0                       \* no record, no monitor, not in the table

ASSUME DiscoveryAssumption ==
    /\ MaxEvents \in Nat
    /\ Versions \subseteq Nat \ {None}

VARIABLES
    record,         \* what get_service_info() finds for each service
    events,         \* what the browser has yet to report or is reporting
    reported,       \* how many events there were
    browsing,       \* whether the browser's thread lives
    stopper,        \* the state of each stopper
    waitsFor,       \* the monitor whose end it waits for
    monitor,        \* the state of each monitor
    started,        \* the services of the monitors that were started
    cancelled,      \* the monitors that were cancelled
    monitors,       \* _node_monitors: the monitor of each service, or None
    table,          \* _service_name_to_node
    changed,        \* _topology_changed
    caller,         \* the state of _monitor_for_topology_changes()
    shown,          \* the table that it last gave to the callback
    phase,          \* how far stop() has come
    todo,           \* the monitors that stop() has yet to see ended
    raced           \* history: services of which a removal took down another
                    \* monitor than the one that had started it

zcVars == <<record, events, reported, browsing>>
stopVars == <<stopper, waitsFor>>
monVars == <<monitor, started, cancelled>>
callVars == <<caller, shown, phase, todo>>
vars == <<zcVars, stopVars, monVars, monitors, table, changed, callVars, raced>>

Event == [name : Names, kind : {"start", "remove"}]

TypeOK ==
    /\ record \in [Names -> {None} \cup Versions]
    /\ events \in Seq(Event)
    /\ reported \in 0..MaxEvents
    /\ browsing \in BOOLEAN
    /\ stopper \in [Stoppers -> {"idle", "ready", "waiting"}]
    /\ waitsFor \in [Stoppers -> {None} \cup Monitors]
    /\ monitor \in [Monitors -> {"unborn", "checking", "looking", "ended"}]
    /\ started \in Seq(Names)
    /\ Len(started) <= MaxEvents
    /\ cancelled \in SUBSET Monitors
    /\ monitors \in [Names -> {None} \cup Monitors]
    /\ table \in [Names -> {None} \cup Versions]
    /\ changed \in BOOLEAN
    /\ caller \in {"waiting", "calling", "ended"}
    /\ shown \in [Names -> {None} \cup Versions]
    /\ phase \in {"running", "joining", "cancelling", "stopped"}
    /\ todo \in SUBSET Monitors
    /\ raced \in SUBSET Names

Init ==
    /\ record = [n \in Names |-> None]
    /\ events = <<>>
    /\ reported = 0
    /\ browsing = TRUE
    /\ stopper = [k \in Stoppers |-> "idle"]
    /\ waitsFor = [k \in Stoppers |-> None]
    /\ monitor = [m \in Monitors |-> "unborn"]
    /\ started = <<>>
    /\ cancelled = {}
    /\ monitors = [n \in Names |-> None]
    /\ table = [n \in Names |-> None]
    /\ changed = FALSE
    /\ caller = "waiting"
    /\ shown = [n \in Names |-> None]
    /\ phase = "running"
    /\ todo = {}
    /\ raced = {}

----------------------------------------------------------------------------
(* The zeroconf library.                                                   *)

Report(n, kind) ==
    /\ reported < MaxEvents
    /\ reported' = reported + 1
    /\ events' = Append(events, [name |-> n, kind |-> kind])
    /\ UNCHANGED <<browsing, stopVars, monVars, monitors, table, changed, callVars, raced>>

\* A node joins, comes back, or announces other topics and services.
Announce(n) ==
    /\ phase = "running"
    /\ \E v \in Versions : record' = [record EXCEPT ![n] = v]
    /\ Report(n, "start")

\* A node says that it leaves.
Goodbye(n) ==
    /\ phase = "running"
    /\ record[n] # None
    /\ record' = [record EXCEPT ![n] = None]
    /\ Report(n, "remove")

\* A node dies or is cut off: its record runs out, and nobody is told.
Expire(n) ==
    /\ phase = "running"
    /\ record[n] # None
    /\ record' = [record EXCEPT ![n] = None]
    /\ UNCHANGED <<events, reported, browsing, stopVars, monVars, monitors,
                   table, changed, callVars, raced>>

\* The browser's thread starts the coroutine for its next event.
TakeEvent ==
    /\ browsing
    /\ events # <<>>
    /\ stopper[0] = "idle"
    /\ stopper' = [stopper EXCEPT ![0] = "ready"]
    /\ UNCHANGED <<zcVars, waitsFor, monVars, monitors, table, changed, callVars, raced>>

----------------------------------------------------------------------------
(* Variants with a plausible mistake, for showing that the properties can  *)
(* fail.                                                                   *)

\* Clears the event again when the callback has returned.
ShownAndClears ==
    /\ caller = "calling"
    /\ caller' = "waiting"
    /\ changed' = FALSE
    /\ UNCHANGED <<zcVars, stopVars, monVars, monitors, table, shown, phase, todo, raced>>

\* Ends the monitor but leaves the node in the table.
NotFoundKeeps(m) ==
    /\ monitor[m] = "looking"
    /\ m \notin cancelled
    /\ phase # "stopped"
    /\ record[started[m]] = None
    /\ monitor' = [monitor EXCEPT ![m] = "ended"]
    /\ UNCHANGED <<zcVars, stopVars, started, cancelled, monitors, table, changed,
                   callVars, raced>>

\* Lists the monitors before the browser's thread has ended.
JoinedEarly ==
    /\ phase = "joining"
    /\ phase' = "cancelling"
    /\ todo' = {m \in Monitors : \E n \in Names : monitors[n] = m}
    /\ UNCHANGED <<zcVars, stopVars, monVars, monitors, table, changed, caller,
                   shown, raced>>

----------------------------------------------------------------------------
(* _start_monitoring_node() and _remove_node().                            *)

Name(k) == IF k = 0 THEN Head(events).name ELSE started[k]
Kind(k) == IF k = 0 THEN Head(events).kind ELSE "remove"

\* The stopper is done; the thread that waits for stopper 0 goes on.
Leave(k) ==
    /\ stopper' = [stopper EXCEPT ![k] = "idle"]
    /\ waitsFor' = [waitsFor EXCEPT ![k] = None]
    /\ events' = IF k = 0 THEN Tail(events) ELSE events

\* A mistake: takes out the monitor and leaves the node in the table.
ProceedKeepsNode(k) ==
    LET n == Name(k)
        new == Len(started) + 1
    IN  /\ Leave(k)
        /\ IF Kind(k) = "start"
           THEN /\ started' = Append(started, n)
                /\ monitor' = [monitor EXCEPT ![new] = "checking"]
                /\ monitors' = [monitors EXCEPT ![n] = new]
           ELSE /\ monitors' = [monitors EXCEPT ![n] = None]
                /\ UNCHANGED <<started, monitor>>
        /\ UNCHANGED <<table, changed>>

\* A mistake: a service that still has an entry gets no new monitor.
ProceedKeepsOld(k) ==
    LET n == Name(k)
        new == Len(started) + 1
    IN  /\ Leave(k)
        /\ IF Kind(k) # "start"
           THEN /\ monitors' = [monitors EXCEPT ![n] = None]
                /\ table' = [table EXCEPT ![n] = None]
                /\ changed' = (changed \/ table[n] # None)
                /\ UNCHANGED <<started, monitor>>
           ELSE IF monitors[n] = None
           THEN /\ started' = Append(started, n)
                /\ monitor' = [monitor EXCEPT ![new] = "checking"]
                /\ monitors' = [monitors EXCEPT ![n] = new]
                /\ UNCHANGED <<table, changed>>
           ELSE UNCHANGED <<started, monitor, monitors, table, changed>>

\* What follows once there is no monitor left: a new one, or no node.
Proceed(k) ==
    LET n == Name(k)
        new == Len(started) + 1
    IN  /\ Leave(k)
        /\ IF Kind(k) = "start"
           THEN /\ started' = Append(started, n)
                /\ monitor' = [monitor EXCEPT ![new] = "checking"]
                /\ monitors' = [monitors EXCEPT ![n] = new]
                /\ UNCHANGED <<table, changed>>
           ELSE /\ monitors' = [monitors EXCEPT ![n] = None]
                /\ table' = [table EXCEPT ![n] = None]
                /\ changed' = (changed \/ table[n] # None)
                /\ UNCHANGED <<started, monitor>>

\* A removal that finds another monitor than its own.
Races(k) == k # 0 /\ monitors[Name(k)] \notin {None, k}
Note(k) == raced' = IF Races(k) THEN raced \cup {Name(k)} ELSE raced

\* _stop_monitoring_node() finds no monitor, or one that has ended.
StopAtOnce(k) ==
    /\ stopper[k] = "ready"
    /\ LET m == monitors[Name(k)] IN m # None => monitor[m] = "ended"
    /\ Proceed(k)
    /\ Note(k)
    /\ UNCHANGED <<record, reported, browsing, cancelled, callVars>>

\* It cancels the monitor and waits for its end.
StopMonitor(k) ==
    /\ stopper[k] = "ready"
    /\ LET m == monitors[Name(k)] IN
        /\ m # None
        /\ monitor[m] # "ended"
        /\ cancelled' = cancelled \cup {m}
        /\ waitsFor' = [waitsFor EXCEPT ![k] = m]
    /\ stopper' = [stopper EXCEPT ![k] = "waiting"]
    /\ Note(k)
    /\ UNCHANGED <<zcVars, monitor, started, monitors, table, changed, callVars>>

\* The monitor has ended, and whatever monitor there is now is taken out.
Stopped(k) ==
    /\ stopper[k] = "waiting"
    /\ monitor[waitsFor[k]] = "ended"
    /\ monitors[Name(k)] # None
    /\ Proceed(k)
    /\ Note(k)
    /\ UNCHANGED <<record, reported, browsing, cancelled, callVars>>

\* Another stopper was faster: pop() raises KeyError.  It ends the removal; from
\* the event's coroutine it goes to the browser's thread and ends that.
StopFails(k) ==
    /\ stopper[k] = "waiting"
    /\ monitor[waitsFor[k]] = "ended"
    /\ monitors[Name(k)] = None
    /\ Leave(k)
    /\ browsing' = (browsing /\ k # 0)
    /\ UNCHANGED <<record, reported, monVars, monitors, table, changed, callVars,
                   raced>>

----------------------------------------------------------------------------
(* _monitor_node().                                                        *)

\* _check_node() looks whether the task is still the current monitor, first and
\* after each sleep.  If not, it raises an error, which ends the task.
Check(m) ==
    /\ monitor[m] = "checking"
    /\ m \notin cancelled
    /\ monitor' = [monitor EXCEPT
            ![m] = IF monitors[started[m]] = m THEN "looking" ELSE "ended"]
    /\ UNCHANGED <<zcVars, stopVars, started, cancelled, monitors, table, changed,
                   callVars, raced>>

\* get_service_info() returns a record, which goes to the table; then the
\* monitor sleeps.
Found(m) ==
    /\ monitor[m] = "looking"
    /\ m \notin cancelled
    /\ phase # "stopped"
    /\ LET n == started[m] IN
        /\ record[n] # None
        /\ table' = [table EXCEPT ![n] = record[n]]
        /\ changed' = (changed \/ table[n] # record[n])
    /\ monitor' = [monitor EXCEPT ![m] = "checking"]
    /\ UNCHANGED <<zcVars, stopVars, started, cancelled, monitors, callVars, raced>>

\* It returns None: a removal is started, and the monitor ends.
NotFound(m) ==
    /\ monitor[m] = "looking"
    /\ m \notin cancelled
    /\ phase # "stopped"
    /\ record[started[m]] = None
    /\ stopper' = [stopper EXCEPT ![m] = "ready"]
    /\ monitor' = [monitor EXCEPT ![m] = "ended"]
    /\ UNCHANGED <<zcVars, waitsFor, started, cancelled, monitors, table, changed,
                   callVars, raced>>

\* The monitor was cancelled (the lookup is shielded and goes on for nobody), or
\* zeroconf is closed and the lookup fails.
MonitorEnds(m) ==
    /\ monitor[m] \in {"checking", "looking"}
    /\ \/ m \in cancelled
       \/ monitor[m] = "looking" /\ phase = "stopped"
    /\ monitor' = [monitor EXCEPT ![m] = "ended"]
    /\ UNCHANGED <<zcVars, stopVars, started, cancelled, monitors, table, changed,
                   callVars, raced>>

----------------------------------------------------------------------------
(* _monitor_for_topology_changes().                                        *)

\* It clears the event and calls the callback with the table of now.
Show ==
    /\ caller = "waiting"
    /\ changed
    /\ changed' = FALSE
    /\ caller' = "calling"
    /\ shown' = table
    /\ UNCHANGED <<zcVars, stopVars, monVars, monitors, table, phase, todo, raced>>

\* The callback returns, or raises an error, which is logged.
Shown ==
    /\ caller = "calling"
    /\ caller' = "waiting"
    /\ UNCHANGED <<zcVars, stopVars, monVars, monitors, table, changed, shown, phase,
                   todo, raced>>

----------------------------------------------------------------------------
(* stop().                                                                 *)

\* First the task that calls the callback is cancelled, and has ended.
Stop ==
    /\ phase = "running"
    /\ phase' = "joining"
    /\ caller' = "ended"
    /\ UNCHANGED <<zcVars, stopVars, monVars, monitors, table, changed, shown, todo,
                   raced>>

\* The browser's thread has reported what it had to, and ended.
Joined ==
    /\ phase = "joining"
    /\ browsing => events = <<>>
    /\ phase' = "cancelling"
    /\ todo' = {m \in Monitors : \E n \in Names : monitors[n] = m}
    /\ browsing' = FALSE
    /\ UNCHANGED <<record, events, reported, stopVars, monVars, monitors, table,
                   changed, caller, shown, raced>>

\* The monitors that were registered then are cancelled one after the other.
CancelNext(m) ==
    /\ m \in todo
    /\ monitor[m] # "ended"
    /\ todo \cap cancelled = {}
    /\ cancelled' = cancelled \cup {m}
    /\ UNCHANGED <<zcVars, stopVars, monitor, started, monitors, table, changed,
                   callVars, raced>>

SeenEnded(m) ==
    /\ m \in todo
    /\ monitor[m] = "ended"
    /\ todo' = todo \ {m}
    /\ UNCHANGED <<zcVars, stopVars, monVars, monitors, table, changed, caller,
                   shown, phase, raced>>

\* They have ended, and zeroconf is closed.
Close ==
    /\ phase = "cancelling"
    /\ todo = {}
    /\ phase' = "stopped"
    /\ UNCHANGED <<zcVars, stopVars, monVars, monitors, table, changed, caller,
                   shown, todo, raced>>

----------------------------------------------------------------------------
Zeroconf == \E n \in Names : Announce(n) \/ Goodbye(n) \/ Expire(n)

Stopping(k) == StopAtOnce(k) \/ StopMonitor(k) \/ Stopped(k) \/ StopFails(k)

Monitoring(m) == Check(m) \/ Found(m) \/ NotFound(m) \/ MonitorEnds(m)

Closing == Joined \/ Close \/ \E m \in Monitors : CancelNext(m) \/ SeenEnded(m)

Next ==
    \/ Zeroconf
    \/ TakeEvent
    \/ \E k \in Stoppers : Stopping(k)
    \/ \E m \in Monitors : Monitoring(m)
    \/ Show
    \/ Shown
    \/ Stop
    \/ Closing

Spec == Init /\ [][Next]_vars

\* The event loop and the browser's thread run what is ready, lookups are
\* answered, and the callback returns.
Fairness ==
    /\ WF_vars(TakeEvent)
    /\ \A k \in Stoppers : WF_vars(Stopping(k))
    /\ \A m \in Monitors : WF_vars(Monitoring(m))
    /\ WF_vars(Show \/ Shown)
    /\ WF_vars(Closing)

FairSpec == Spec /\ Fairness

----------------------------------------------------------------------------
(* Properties.                                                             *)

\* No change of the table is missed, however many come while the callback runs:
\* when the task waits and the event is not set, the callback has seen the table
\* as it is.
NoChangeMissed == caller = "waiting" /\ ~changed => shown = table

\* A node in the table has a monitor at work, which will notice when it is gone,
\* or a stopper is about to give it one or to take it out: whatever the order in
\* which events, lookups and removals come, no entry is left behind that nobody
\* watches.  Only a removal that met a new monitor can spoil it.
EntriesAreWatched ==
    \A n \in Names :
        table[n] # None =>
            \/ monitors[n] # None /\ monitor[monitors[n]] # "ended"
            \/ \E k \in Stoppers : stopper[k] # "idle" /\ Name(k) = n
            \/ n \in raced \/ ~browsing \/ phase # "running"

\* A service that the network knows has a monitor at work, which nobody has
\* cancelled and which will put it into the table, or the browser has an event of
\* it to see to: no announcement is lost, whichever monitors and removals of the
\* service it meets.  Only a removal that met a new monitor can spoil it.
ServicesAreWatched ==
    \A n \in Names :
        record[n] # None =>
            \/ /\ monitors[n] \notin {None} \cup cancelled
               /\ monitor[monitors[n]] # "ended"
            \/ \E i \in DOMAIN events : events[i].name = n
            \/ n \in raced \/ ~browsing \/ phase # "running"

\* When stop() has returned, the callback is not called again and no monitor
\* asks zeroconf anything.
QuietAfterStop ==
    phase = "stopped" =>
        /\ caller = "ended"
        /\ \A n \in Names : monitors[n] # None => monitor[monitors[n]] = "ended"

\* What is shown of service n is what the network says of it.
Current(n) == table[n] = record[n] /\ shown[n] = record[n]

\* The mesh topology catches up with the network: with services that were
\* announced again, and with services that left or were lost silently.  Only a
\* removal that met a new monitor of the same service can spoil it.
CatchesUp ==
    []<>(phase # "running" \/ \A n \in Names : Current(n) \/ n \in raced \/ ~browsing)

\* README "How does it work?": each node maintains the current mesh topology, in
\* which it finds all currently listening nodes.
MaintainsTopology == []<>(phase # "running" \/ \A n \in Names : Current(n))
=============================================================================
