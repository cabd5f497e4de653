-------------------------- MODULE DiscoveryProofs --------------------------
(***************************************************************************)
(* For any services, versions and number of events: no change of the table *)
(* is missed, stop() leaves nothing at work, a node in the table and one   *)
(* that the network knows is watched, and where discovery has come to rest *)
(* the table is what the network says.                                     *)
(***************************************************************************)
EXTENDS Discovery, TLAPS

\* Each event starts a monitor at most, so there are monitors enough.
EventsAreCounted == Len(started) + Len(events) <= reported

\* Monitors are born in the order of their numbers.
BirthsInOrder == \A m \in Monitors : monitor[m] = "unborn" <=> m > Len(started)

\* What stops is the browser's event, or the removal of a monitor that ended.
StoppersHaveCause ==
    \A k \in Stoppers : stopper[k] # "idle" =>
        IF k = 0 THEN browsing /\ events # <<>> ELSE k <= Len(started) /\ monitor[k] = "ended"

\* It waits for a monitor of its service.
WaitsForBorn ==
    \A k \in Stoppers : stopper[k] = "waiting" => waitsFor[k] \in 1..Len(started)

RegisteredIsBorn ==
    \A n \in Names : monitors[n] # None =>
        monitors[n] \in 1..Len(started) /\ started[monitors[n]] = n

BooksInv ==
    /\ EventsAreCounted
    /\ BirthsInOrder
    /\ StoppersHaveCause
    /\ WaitsForBorn
    /\ RegisteredIsBorn

----------------------------------------------------------------------------
(* Type correctness                                                        *)

LEMMA StopperType ==
    ASSUME TypeOK, BooksInv, NEW k \in Stoppers, stopper[k] # "idle"
    PROVE  /\ Name(k) \in Names
           /\ Kind(k) \in {"start", "remove"}
           /\ k = 0 => events # <<>> /\ Head(events) \in Event /\ Tail(events) \in Seq(Event)
                       /\ Len(Tail(events)) = Len(events) - 1
           /\ Kind(k) = "start" => k = 0
<1>1. CASE k = 0
  <2>1. events # <<>> /\ events \in Seq(Event)
    BY <1>1 DEF BooksInv, StoppersHaveCause, TypeOK
  <2>2. Head(events) \in Event /\ Tail(events) \in Seq(Event) /\ Len(Tail(events)) = Len(events) - 1
    BY <2>1
  <2> QED
    BY <1>1, <2>1, <2>2 DEF Name, Kind, Event
<1>2. CASE k # 0
  <2>1. k \in 1..Len(started)
    BY <1>2, DiscoveryAssumption DEF BooksInv, StoppersHaveCause, Stoppers
  <2> QED
    BY <1>2, <2>1 DEF Name, Kind, TypeOK
<1> QED
  BY <1>1, <1>2

\* The next monitor is still to be born when an event starts one.
LEMMA RoomForNext ==
    ASSUME TypeOK, BooksInv, NEW k \in Stoppers, stopper[k] # "idle", Kind(k) = "start"
    PROVE  Len(started) + 1 \in Monitors /\ monitor[Len(started) + 1] = "unborn"
<1>1. k = 0 /\ events # <<>>
  BY StopperType
<1>2. Len(started) \in Nat /\ Len(events) \in Nat /\ Len(events) > 0
  BY <1>1 DEF TypeOK
<1>3. reported \in Nat /\ reported <= MaxEvents
  BY DiscoveryAssumption DEF TypeOK
<1>4. Len(started) + 1 <= MaxEvents
  BY <1>2, <1>3, DiscoveryAssumption DEF BooksInv, EventsAreCounted
<1>5. Len(started) + 1 \in Monitors
  BY <1>2, <1>4, DiscoveryAssumption DEF Monitors
<1> QED
  BY <1>2, <1>5 DEF BooksInv, BirthsInOrder, TypeOK

\* What a stopper does last, by the kind of what it serves.
LEMMA ProceedType ==
    ASSUME TypeOK, BooksInv, NEW k \in Stoppers, stopper[k] # "idle", Proceed(k)
    PROVE  /\ events' \in Seq(Event)
           /\ stopper' = [stopper EXCEPT ![k] = "idle"]
           /\ waitsFor' = [waitsFor EXCEPT ![k] = None]
           /\ started' \in Seq(Names)
           /\ Len(started') <= MaxEvents
           /\ monitor' \in [Monitors -> {"unborn", "checking", "looking", "ended"}]
           /\ monitors' \in [Names -> {None} \cup Monitors]
           /\ table' \in [Names -> {None} \cup Versions]
           /\ changed' \in BOOLEAN
<1>1. /\ Name(k) \in Names
      /\ k = 0 => Tail(events) \in Seq(Event)
  BY StopperType
<1>2. events' \in Seq(Event) /\ stopper' = [stopper EXCEPT ![k] = "idle"]
      /\ waitsFor' = [waitsFor EXCEPT ![k] = None]
  BY <1>1 DEF Proceed, Leave, TypeOK
<1>3. CASE Kind(k) = "start"
  <2>1. Len(started) + 1 \in Monitors
    BY <1>3, RoomForNext
  <2>2. started' = Append(started, Name(k)) /\ started \in Seq(Names)
    BY <1>3 DEF Proceed, TypeOK
  <2>3. started' \in Seq(Names) /\ Len(started') = Len(started) + 1
    BY <2>2, <1>1
  <2>4. Len(started') <= MaxEvents
    BY <2>1, <2>3, DiscoveryAssumption DEF Monitors
  <2>5. monitor' \in [Monitors -> {"unborn", "checking", "looking", "ended"}]
    BY <1>3, <2>1 DEF Proceed, TypeOK
  <2>6. /\ monitors' \in [Names -> {None} \cup Monitors]
        /\ UNCHANGED <<table, changed>>
    BY <1>1, <1>3, <2>1 DEF Proceed, TypeOK
  <2> QED
    BY <1>2, <2>3, <2>4, <2>5, <2>6 DEF TypeOK
<1>4. CASE Kind(k) # "start"
  BY <1>1, <1>2, <1>4 DEF Proceed, TypeOK
<1> QED
  BY <1>3, <1>4

LEMMA InitType == Init => TypeOK /\ BooksInv
  BY DiscoveryAssumption
     DEF Init, TypeOK, BooksInv, EventsAreCounted, BirthsInOrder, StoppersHaveCause, WaitsForBorn,
         RegisteredIsBorn, None, Monitors, Stoppers

\* The steps by which a stopper ends: at once, or when the monitor has ended.
LEMMA ProceedKeepsBooks ==
    ASSUME TypeOK, BooksInv, NEW k \in Stoppers, stopper[k] # "idle", Proceed(k),
           UNCHANGED <<record, reported, browsing, cancelled, callVars>>, Note(k)
    PROVE  TypeOK' /\ BooksInv'
<1>1. TypeOK'
  <2>1. raced' \in SUBSET Names
    BY StopperType DEF Note, TypeOK
  <2> QED
    BY <2>1, ProceedType DEF TypeOK, callVars
<1>2. /\ Name(k) \in Names
      /\ k = 0 => Len(Tail(events)) = Len(events) - 1
      /\ Kind(k) = "start" => k = 0
  BY StopperType
<1>3. k = 0 => events' = Tail(events)
  BY DEF Proceed, Leave
<1>4. k # 0 => events' = events
  BY DEF Proceed, Leave
<1>5. /\ Len(started) \in Nat /\ Len(events) \in Nat /\ reported \in Nat
      /\ stopper' = [stopper EXCEPT ![k] = "idle"] /\ waitsFor' = [waitsFor EXCEPT ![k] = None]
  BY DEF Proceed, Leave, TypeOK
<1>6. CASE Kind(k) = "start"
  <2> DEFINE new == Len(started) + 1
  <2>1. new \in Monitors /\ monitor[new] = "unborn"
    BY <1>6, RoomForNext
  <2>2. /\ started' = Append(started, Name(k))
        /\ monitor' = [monitor EXCEPT ![new] = "checking"]
        /\ monitors' = [monitors EXCEPT ![Name(k)] = new]
    BY <1>6 DEF Proceed
  <2>3. /\ Len(started') = new /\ started'[new] = Name(k)
        /\ \A i \in 1..Len(started) : started'[i] = started[i]
    BY <1>2, <2>2 DEF TypeOK
  <2>4. EventsAreCounted'
    <3>1. Len(events') = Len(events) - 1 /\ reported' = reported
      BY <1>2, <1>3, <1>6
    <3>2. Len(started) + Len(events) <= reported
      BY DEF BooksInv, EventsAreCounted
    <3> QED
      BY <1>5, <2>3, <3>1, <3>2 DEF EventsAreCounted
  <2>5. BirthsInOrder'
    BY <1>5, <2>1, <2>2, <2>3, DiscoveryAssumption DEF BooksInv, BirthsInOrder, TypeOK, Monitors
  <2>6. StoppersHaveCause'
    <3> SUFFICES ASSUME NEW j \in Stoppers, stopper'[j] # "idle"
                 PROVE  IF j = 0 THEN browsing' /\ events' # <<>>
                        ELSE j <= Len(started') /\ monitor'[j] = "ended"
      BY DEF StoppersHaveCause
    <3>1. j # k /\ j # 0 /\ stopper[j] # "idle"
      BY <1>2, <1>5, <1>6 DEF TypeOK
    <3>2. j <= Len(started) /\ monitor[j] = "ended" /\ j \in Monitors /\ j # new
      BY <3>1, <2>1, DiscoveryAssumption DEF BooksInv, StoppersHaveCause, Stoppers, Monitors
    <3> QED
      BY <1>5, <2>2, <2>3, <3>1, <3>2, DiscoveryAssumption DEF TypeOK, Monitors
  <2>7. WaitsForBorn'
    <3> SUFFICES ASSUME NEW j \in Stoppers, stopper'[j] = "waiting"
                 PROVE  waitsFor'[j] \in 1..Len(started')
      BY DEF WaitsForBorn
    <3>1. j # k /\ stopper[j] = "waiting" /\ waitsFor'[j] = waitsFor[j]
      BY <1>5 DEF TypeOK
    <3> QED
      BY <1>5, <2>3, <3>1 DEF BooksInv, WaitsForBorn
  <2>8. RegisteredIsBorn'
    <3> SUFFICES ASSUME NEW n \in Names, monitors'[n] # None
                 PROVE  monitors'[n] \in 1..Len(started') /\ started'[monitors'[n]] = n
      BY DEF RegisteredIsBorn
    <3>1. CASE n = Name(k)
      BY <1>5, <2>2, <2>3, <3>1 DEF TypeOK
    <3>2. CASE n # Name(k)
      <4>1. monitors'[n] = monitors[n]
        BY <2>2, <3>2 DEF TypeOK
      <4> QED
        BY <1>5, <2>3, <4>1 DEF BooksInv, RegisteredIsBorn
    <3> QED
      BY <3>1, <3>2
  <2> QED
    BY <1>1, <2>4, <2>5, <2>6, <2>7, <2>8 DEF BooksInv
<1>7. CASE Kind(k) # "start"
  <2>1. /\ UNCHANGED <<started, monitor>>
        /\ monitors' = [monitors EXCEPT ![Name(k)] = None]
    BY <1>7 DEF Proceed
  <2>2. EventsAreCounted'
    BY <1>2, <1>3, <1>4, <1>5, <2>1 DEF BooksInv, EventsAreCounted
  <2>3. BirthsInOrder'
    BY <2>1 DEF BooksInv, BirthsInOrder
  <2>4. StoppersHaveCause'
    BY <1>4, <1>5, <2>1 DEF BooksInv, StoppersHaveCause, TypeOK
  <2>5. WaitsForBorn'
    BY <1>5, <2>1 DEF BooksInv, WaitsForBorn, TypeOK
  <2>6. RegisteredIsBorn'
    BY <1>2, <2>1 DEF BooksInv, RegisteredIsBorn, TypeOK
  <2> QED
    BY <1>1, <2>2, <2>3, <2>4, <2>5, <2>6 DEF BooksInv
<1> QED
  BY <1>6, <1>7

LEMMA ActionTypes ==
    ASSUME TypeOK, BooksInv, [Next]_vars
    PROVE  TypeOK' /\ BooksInv'
<1> USE DEF BooksInv, EventsAreCounted, BirthsInOrder, StoppersHaveCause, WaitsForBorn,
            RegisteredIsBorn
<1>1. ASSUME NEW n \in Names, Announce(n) PROVE TypeOK' /\ BooksInv'
  BY SMTT(20), <1>1, DiscoveryAssumption DEF Announce, Report, TypeOK, Event, stopVars, monVars, callVars, Monitors
<1>2. ASSUME NEW n \in Names, Goodbye(n) PROVE TypeOK' /\ BooksInv'
  BY SMTT(20), <1>2, DiscoveryAssumption DEF Goodbye, Report, TypeOK, Event, stopVars, monVars, callVars, Monitors
<1>3. ASSUME NEW n \in Names, Expire(n) PROVE TypeOK' /\ BooksInv'
  BY <1>3 DEF Expire, TypeOK, stopVars, monVars, callVars
<1>4. CASE TakeEvent
  BY <1>4 DEF TakeEvent, TypeOK, zcVars, monVars, callVars, Stoppers
<1>5. ASSUME NEW k \in Stoppers, Stopping(k) PROVE TypeOK' /\ BooksInv'
  <2>1. CASE StopAtOnce(k)
    BY <2>1, ProceedKeepsBooks DEF StopAtOnce
  <2>2. CASE StopMonitor(k)
    BY <2>2, StopperType DEF StopMonitor, Note, TypeOK, zcVars, callVars
  <2>3. CASE Stopped(k)
    BY <2>3, ProceedKeepsBooks DEF Stopped
  <2>4. CASE StopFails(k)
    BY <2>4, StopperType DEF StopFails, Leave, TypeOK, monVars, callVars, Stoppers
  <2> QED
    BY <1>5, <2>1, <2>2, <2>3, <2>4 DEF Stopping
<1>6. ASSUME NEW m \in Monitors, Monitoring(m) PROVE TypeOK' /\ BooksInv'
  <2>1. CASE Check(m)
    BY <2>1, DiscoveryAssumption DEF Check, TypeOK, zcVars, stopVars, callVars, Stoppers, Monitors
  <2>2. CASE Found(m)
    BY <2>2, DiscoveryAssumption DEF Found, TypeOK, zcVars, stopVars, callVars, Stoppers, Monitors
  <2>3. CASE NotFound(m)
    <3>1. m \in Stoppers /\ m # 0 /\ m <= Len(started)
      BY <2>3, DiscoveryAssumption DEF NotFound, Stoppers, Monitors, TypeOK
    <3>2. TypeOK'
      BY <2>3 DEF NotFound, TypeOK, zcVars, callVars
    <3> QED
      BY <2>3, <3>1, <3>2 DEF NotFound, TypeOK, zcVars, callVars
  <2>4. CASE MonitorEnds(m)
    BY <2>4, DiscoveryAssumption DEF MonitorEnds, TypeOK, zcVars, stopVars, callVars, Stoppers, Monitors
  <2> QED
    BY <1>6, <2>1, <2>2, <2>3, <2>4 DEF Monitoring
<1>7. CASE Show \/ Shown \/ Stop
  <2>1. CASE Show
    BY <2>1 DEF Show, TypeOK, zcVars, stopVars, monVars
  <2>2. CASE Shown
    BY <2>2 DEF Shown, TypeOK, zcVars, stopVars, monVars
  <2>3. CASE Stop
    BY <2>3 DEF Stop, TypeOK, zcVars, stopVars, monVars
  <2> QED
    BY <1>7, <2>1, <2>2, <2>3
<1>8. CASE Closing
  <2>1. CASE Joined
    <3>1. stopper[0] = "idle"
      BY <2>1, DiscoveryAssumption DEF Joined, Stoppers, TypeOK
    <3>2. StoppersHaveCause'
      BY <2>1, <3>1 DEF Joined, stopVars, monVars
    <3> QED
      BY <2>1, <3>2 DEF Joined, TypeOK, stopVars, monVars
  <2>2. CASE Close
    BY <2>2 DEF Close, TypeOK, zcVars, stopVars, monVars
  <2>3. ASSUME NEW m \in Monitors, CancelNext(m) \/ SeenEnded(m) PROVE TypeOK' /\ BooksInv'
    BY <2>3 DEF CancelNext, SeenEnded, TypeOK, zcVars, stopVars, monVars, callVars
  <2> QED
    BY <1>8, <2>1, <2>2, <2>3 DEF Closing
<1>9. CASE UNCHANGED vars
  BY <1>9 DEF vars, TypeOK, zcVars, stopVars, monVars, callVars
<1> QED
  BY <1>1, <1>2, <1>3, <1>4, <1>5, <1>6, <1>7, <1>8, <1>9 DEF Next, Zeroconf

\* Type correctness for any services and any number of events; there is a monitor
\* left for each event.
THEOREM TypeCorrect == Spec => []TypeOK
<1>1. Init => TypeOK /\ BooksInv
  BY InitType
<1>2. TypeOK /\ BooksInv /\ [Next]_vars => (TypeOK /\ BooksInv)'
  BY ActionTypes
<1> QED
  BY <1>1, <1>2, PTL DEF Spec

----------------------------------------------------------------------------
(* No change is missed                                                     *)

\* While there is a task that calls the callback, it has given it the table as it
\* is, or the event is set.
ShownInv == caller # "ended" /\ ~changed => shown = table

LEMMA ProceedShows ==
    ASSUME TypeOK, BooksInv, NEW k \in Stoppers, stopper[k] # "idle", Proceed(k), ~changed'
    PROVE  table' = table /\ ~changed
<1>1. Name(k) \in Names
  BY StopperType
<1>2. CASE Kind(k) = "start"
  BY <1>2 DEF Proceed
<1>3. CASE Kind(k) # "start"
  <2>1. table' = [table EXCEPT ![Name(k)] = None] /\ changed' = (changed \/ table[Name(k)] # None)
    BY <1>3 DEF Proceed
  <2>2. ~changed /\ table[Name(k)] = None
    BY <2>1
  <2> QED
    BY <1>1, <2>1, <2>2 DEF TypeOK
<1> QED
  BY <1>2, <1>3

LEMMA FoundShows ==
    ASSUME TypeOK, NEW m \in Monitors, Found(m), ~changed', started[m] \in Names
    PROVE  table' = table /\ ~changed
<1> DEFINE n == started[m]
<1>1. table' = [table EXCEPT ![n] = record[n]] /\ changed' = (changed \/ table[n] # record[n])
  BY DEF Found
<1>2. ~changed /\ table[n] = record[n]
  BY <1>1
<1> QED
  BY <1>1, <1>2 DEF TypeOK

\* A monitor that is at work has its service.
LEMMA ServiceOf ==
    ASSUME TypeOK, BooksInv, NEW m \in Monitors, monitor[m] # "unborn"
    PROVE  m \in 1..Len(started) /\ started[m] \in Names
  BY DiscoveryAssumption DEF BooksInv, BirthsInOrder, TypeOK, Monitors

LEMMA ShownStep ==
    ASSUME TypeOK, BooksInv, ShownInv, [Next]_vars
    PROVE  ShownInv'
<1>1. ASSUME NEW k \in Stoppers, stopper[k] # "idle", Proceed(k), UNCHANGED callVars
      PROVE  ShownInv'
  BY <1>1, ProceedShows DEF ShownInv, callVars
<1>2. ASSUME NEW k \in Stoppers, Stopping(k) PROVE ShownInv'
  BY <1>1, <1>2
     DEF Stopping, StopAtOnce, StopMonitor, Stopped, StopFails, ShownInv, callVars
<1>3. ASSUME NEW m \in Monitors, Monitoring(m) PROVE ShownInv'
  <2>1. CASE Found(m)
    BY <2>1, FoundShows, ServiceOf DEF Found, ShownInv, callVars
  <2> QED
    BY <1>3, <2>1 DEF Monitoring, Check, NotFound, MonitorEnds, ShownInv, callVars
<1>4. CASE Zeroconf \/ TakeEvent
  BY <1>4 DEF Zeroconf, Announce, Goodbye, Expire, Report, TakeEvent, ShownInv, callVars
<1>5. CASE Show \/ Shown \/ Stop
  BY <1>5 DEF Show, Shown, Stop, ShownInv
<1>6. CASE Closing
  BY <1>6 DEF Closing, Joined, Close, CancelNext, SeenEnded, ShownInv, callVars
<1>7. CASE UNCHANGED vars
  BY <1>7 DEF vars, ShownInv, callVars
<1> QED
  BY <1>2, <1>3, <1>4, <1>5, <1>6, <1>7 DEF Next

\* However many changes come while the callback runs, it sees the last one.
THEOREM NeverMissesChange == Spec => []NoChangeMissed
<1>1. Init => TypeOK /\ BooksInv /\ ShownInv
  BY InitType DEF Init, ShownInv
<1>2. TypeOK /\ BooksInv /\ ShownInv /\ [Next]_vars => (TypeOK /\ BooksInv /\ ShownInv)'
  BY ActionTypes, ShownStep
<1>3. ShownInv => NoChangeMissed
  BY DEF ShownInv, NoChangeMissed
<1> QED
  BY <1>1, <1>2, <1>3, PTL DEF Spec

----------------------------------------------------------------------------
(* stop() leaves nothing at work                                           *)

\* Once the browser's thread has ended, nothing starts a monitor, and those that
\* are registered were listed by stop().
QuietInv ==
    /\ phase # "running" => caller = "ended"
    /\ phase \in {"cancelling", "stopped"} =>
        /\ ~browsing
        /\ \A n \in Names :
            monitors[n] # None => monitors[n] \in todo \/ monitor[monitors[n]] = "ended"
    /\ phase = "stopped" => todo = {}

LEMMA ProceedIsQuiet ==
    ASSUME TypeOK, BooksInv, QuietInv, NEW k \in Stoppers, stopper[k] # "idle", Proceed(k),
           UNCHANGED <<browsing, callVars>>
    PROVE  QuietInv'
<1>1. Name(k) \in Names /\ (Kind(k) = "start" => k = 0) /\ (k = 0 => browsing)
  BY StopperType DEF BooksInv, StoppersHaveCause
<1>2. CASE Kind(k) = "start"
  BY <1>1, <1>2 DEF QuietInv, callVars
<1>3. CASE Kind(k) # "start"
  <2>1. monitors' = [monitors EXCEPT ![Name(k)] = None] /\ monitor' = monitor
    BY <1>3 DEF Proceed
  <2> QED
    BY <1>1, <2>1 DEF QuietInv, callVars, TypeOK
<1> QED
  BY <1>2, <1>3

LEMMA QuietStep ==
    ASSUME TypeOK, BooksInv, QuietInv, [Next]_vars
    PROVE  QuietInv'
<1>1. ASSUME NEW k \in Stoppers, Stopping(k) PROVE QuietInv'
  <2>1. CASE StopAtOnce(k) \/ Stopped(k)
    BY <2>1, ProceedIsQuiet DEF StopAtOnce, Stopped
  <2>2. CASE StopMonitor(k)
    BY <2>2 DEF StopMonitor, QuietInv, callVars, zcVars
  <2>3. CASE StopFails(k)
    BY <2>3 DEF StopFails, QuietInv, callVars, monVars
  <2> QED
    BY <1>1, <2>1, <2>2, <2>3 DEF Stopping
<1>2. ASSUME NEW m \in Monitors, Monitoring(m) PROVE QuietInv'
  <2>1. \A j \in Monitors : monitor[j] = "ended" => monitor'[j] = "ended"
    BY <1>2 DEF Monitoring, Check, Found, NotFound, MonitorEnds, TypeOK
  <2>2. UNCHANGED <<monitors, browsing, callVars>>
    BY <1>2 DEF Monitoring, Check, Found, NotFound, MonitorEnds, zcVars
  <2> QED
    BY <2>1, <2>2 DEF QuietInv, callVars, TypeOK
<1>3. CASE Zeroconf \/ TakeEvent
  BY <1>3 DEF Zeroconf, Announce, Goodbye, Expire, Report, TakeEvent, QuietInv, zcVars, monVars,
              callVars
<1>4. CASE Show \/ Shown \/ Stop
  BY <1>4 DEF Show, Shown, Stop, QuietInv, zcVars, monVars
<1>5. CASE Joined
  <2>1. \A n \in Names : monitors'[n] # None => monitors'[n] \in todo'
    BY <1>5 DEF Joined, TypeOK
  <2> QED
    BY <1>5, <2>1 DEF Joined, QuietInv
<1>6. CASE Close
  BY <1>6 DEF Close, QuietInv, zcVars, monVars
<1>7. ASSUME NEW m \in Monitors, CancelNext(m) \/ SeenEnded(m) PROVE QuietInv'
  BY <1>7 DEF CancelNext, SeenEnded, QuietInv, zcVars, monVars, callVars
<1>8. CASE UNCHANGED vars
  BY <1>8 DEF vars, QuietInv, zcVars, monVars, callVars
<1> QED
  BY <1>1, <1>2, <1>3, <1>4, <1>5, <1>6, <1>7, <1>8 DEF Next, Closing

\* When stop() has returned, nothing is left that asks zeroconf or calls back,
\* though events were reported while it stopped.
THEOREM AlwaysQuietAfterStop == Spec => []QuietAfterStop
<1>1. Init => TypeOK /\ BooksInv /\ QuietInv
  BY InitType DEF Init, QuietInv
<1>2. TypeOK /\ BooksInv /\ QuietInv /\ [Next]_vars => (TypeOK /\ BooksInv /\ QuietInv)'
  BY ActionTypes, QuietStep
<1>3. QuietInv => QuietAfterStop
  BY DEF QuietInv, QuietAfterStop
<1> QED
  BY <1>1, <1>2, <1>3, PTL DEF Spec

----------------------------------------------------------------------------
(* Entries are watched                                                     *)

\* Nothing has gone wrong with service n, and the node runs.
Bound(n) == n \notin raced /\ browsing /\ phase = "running"

\* A removal that waits for a monitor met one that is not its own.
RemovalsDoNotWait ==
    \A k \in Stoppers : k # 0 /\ stopper[k] = "waiting" => started[k] \in raced

\* The browser's event waits for the monitor of its service, which it cancelled
\* and which has therefore started no removal.
EventWaitsForItsOwn ==
    stopper[0] = "waiting" /\ Bound(Name(0)) =>
        /\ monitors[Name(0)] = waitsFor[0]
        /\ waitsFor[0] \in cancelled
        /\ stopper[waitsFor[0]] = "idle"

\* A monitor at work that nobody has cancelled is the one of its service.
AliveAreRegistered ==
    \A m \in Monitors :
        monitor[m] \in {"checking", "looking"} /\ m \notin cancelled /\ Bound(started[m])
        => monitors[started[m]] = m

EntriesHaveMonitor ==
    \A n \in Names : table[n] # None /\ Bound(n) => monitors[n] # None

\* A monitor that has ended has a stopper, which takes it out, and one that was
\* cancelled was cancelled by the browser's event.
EndedAreTakenOut ==
    \A n \in Names : Bound(n) /\ monitors[n] # None =>
        /\ monitor[monitors[n]] = "ended"
           => \E k \in Stoppers : stopper[k] # "idle" /\ Name(k) = n
        /\ monitors[n] \in cancelled => stopper[0] # "idle" /\ Name(0) = n

\* Until stop() is called, it cancels nothing.
NoneCancelledEarly ==
    phase = "running" => todo = {} /\ \A m \in cancelled : monitor[m] # "unborn"

WatchInv ==
    /\ RemovalsDoNotWait
    /\ EventWaitsForItsOwn
    /\ AliveAreRegistered
    /\ EntriesHaveMonitor
    /\ EndedAreTakenOut
    /\ NoneCancelledEarly

LEMMA InitWatch == Init => WatchInv
BY DiscoveryAssumption
   DEF Init, WatchInv, RemovalsDoNotWait, EventWaitsForItsOwn, AliveAreRegistered,
       EntriesHaveMonitor, EndedAreTakenOut, NoneCancelledEarly, Stoppers

LEMMA WatchIsEnough == TypeOK /\ WatchInv => EntriesAreWatched
BY DEF WatchInv, EntriesHaveMonitor, EndedAreTakenOut, EntriesAreWatched, Bound

\* A stopper that is left alone keeps its service.
LEMMA NameStays ==
    ASSUME TypeOK, BooksInv, NEW k \in Stoppers, stopper[k] # "idle",
           \/ started' = started
           \/ \E n \in Names : started' = Append(started, n),
           \/ k # 0
           \/ events' = events
           \/ \E e \in Event : events' = Append(events, e)
    PROVE  Name(k)' = Name(k)
<1>1. CASE k = 0
  <2>1. events # <<>> /\ events \in Seq(Event)
    BY <1>1 DEF BooksInv, StoppersHaveCause, TypeOK
  <2>2. Head(events') = Head(events)
    BY <1>1, <2>1
  <2> QED
    BY <1>1, <2>2 DEF Name
<1>2. CASE k # 0
  <2>1. k \in 1..Len(started) /\ started \in Seq(Names)
    BY <1>2, DiscoveryAssumption DEF BooksInv, StoppersHaveCause, Stoppers, TypeOK
  <2>2. started'[k] = started[k]
    BY <2>1
  <2> QED
    BY <1>2, <2>2 DEF Name
<1> QED
  BY <1>1, <1>2

\* When a stopper takes a monitor out, it has ended, unless the service is one for
\* which a removal met another monitor.
LEMMA OnlyEndedTakenOut ==
    ASSUME TypeOK, BooksInv, WatchInv, NEW k \in Stoppers, StopAtOnce(k) \/ Stopped(k),
           Bound(Name(k))
    PROVE  monitors[Name(k)] # None => monitor[monitors[Name(k)]] = "ended"
<1>1. CASE StopAtOnce(k)
  BY <1>1 DEF StopAtOnce
<1>2. CASE Stopped(k)
  <2>1. k = 0
    BY <1>2 DEF Stopped, WatchInv, RemovalsDoNotWait, Bound, Name
  <2> QED
    BY <1>2, <2>1 DEF Stopped, WatchInv, EventWaitsForItsOwn
<1> QED
  BY <1>1, <1>2

LEMMA ProceedWatches ==
    ASSUME TypeOK, BooksInv, WatchInv, NEW k \in Stoppers, StopAtOnce(k) \/ Stopped(k)
    PROVE  WatchInv'
<1> DEFINE n == Name(k)
           new == Len(started) + 1
<1>1. /\ Proceed(k) /\ Note(k) /\ stopper[k] # "idle"
      /\ UNCHANGED <<record, reported, browsing, cancelled, callVars>>
  BY DEF StopAtOnce, Stopped
<1>2. n \in Names /\ (Kind(k) = "start" => k = 0)
  BY <1>1, StopperType
<1>3. /\ stopper' = [stopper EXCEPT ![k] = "idle"]
      /\ waitsFor' = [waitsFor EXCEPT ![k] = None]
      /\ k # 0 => events' = events
  BY <1>1 DEF Proceed, Leave
<1>4. /\ raced \subseteq raced'
      /\ \A x : x \notin raced' /\ browsing' /\ phase' = "running" => Bound(x)
  BY <1>1 DEF Note, Bound, callVars
<1>5. Bound(n) /\ monitors[n] # None => monitor[monitors[n]] = "ended"
  BY OnlyEndedTakenOut
\* It either starts a new monitor or takes the node out.
<1>6. \/ /\ k = 0
         /\ new \in Monitors /\ monitor[new] = "unborn"
         /\ started' = Append(started, n)
         /\ monitor' = [monitor EXCEPT ![new] = "checking"]
         /\ monitors' = [monitors EXCEPT ![n] = new]
         /\ UNCHANGED table
      \/ /\ monitors' = [monitors EXCEPT ![n] = None]
         /\ table' = [table EXCEPT ![n] = None]
         /\ UNCHANGED <<started, monitor>>
  BY <1>1, <1>2, RoomForNext DEF Proceed
<1>7. \A j \in Stoppers : stopper'[j] # "idle" =>
          /\ j # k /\ stopper'[j] = stopper[j] /\ waitsFor'[j] = waitsFor[j]
          /\ Name(j)' = Name(j)
  <2> SUFFICES ASSUME NEW j \in Stoppers, stopper'[j] # "idle"
               PROVE  /\ j # k /\ stopper'[j] = stopper[j] /\ waitsFor'[j] = waitsFor[j]
                      /\ Name(j)' = Name(j)
    OBVIOUS
  <2>1. j # k /\ stopper'[j] = stopper[j] /\ waitsFor'[j] = waitsFor[j]
    BY <1>3 DEF TypeOK
  <2>2. j # 0 \/ events' = events
    BY <1>3, <2>1
  <2>3. started' = started \/ started' = Append(started, n)
    BY <1>6
  <2> QED
    BY <1>2, <2>1, <2>2, <2>3, NameStays
<1> HIDE DEF n
<1>8. /\ \A x \in Names : x # n => monitors'[x] = monitors[x] /\ table'[x] = table[x]
      /\ Len(started) \in Nat
      /\ new \in Int /\ new # None
  BY <1>2, <1>6 DEF TypeOK, None
<1> HIDE DEF new
<1>9. \/ /\ monitors'[n] = new /\ monitor'[new] = "checking" /\ new \in Monitors /\ k = 0
         /\ monitor[new] = "unborn"
      \/ monitors'[n] = None /\ table'[n] = None /\ monitor' = monitor
  BY <1>2, <1>6 DEF TypeOK
<1>10. RemovalsDoNotWait'
  <2> SUFFICES ASSUME NEW j \in Stoppers, j # 0, stopper'[j] = "waiting"
               PROVE  started'[j] \in raced'
    BY DEF RemovalsDoNotWait
  <2>1. stopper[j] = "waiting" /\ Name(j)' = Name(j)
    BY <1>7
  <2> QED
    BY <1>4, <2>1 DEF WatchInv, RemovalsDoNotWait, Name
<1>11. EventWaitsForItsOwn'
  <2> SUFFICES ASSUME stopper'[0] = "waiting", Bound(Name(0))'
               PROVE  /\ monitors'[Name(0)'] = waitsFor'[0]
                      /\ waitsFor'[0] \in cancelled'
                      /\ stopper'[waitsFor'[0]] = "idle"
    BY DEF EventWaitsForItsOwn
  <2>1. 0 \in Stoppers
    BY DiscoveryAssumption DEF Stoppers
  <2>2. /\ k # 0 /\ stopper[0] = "waiting" /\ waitsFor'[0] = waitsFor[0]
        /\ Name(0)' = Name(0)
    BY <1>7, <2>1
  <2> DEFINE z == Name(0)
             w == waitsFor[0]
  <2>3. Bound(z) /\ z \notin raced' /\ z \in Names
    <3>1. z \notin raced' /\ browsing' /\ phase' = "running"
      BY <2>2 DEF Bound
    <3>2. z \in Names
      BY <2>1, <2>2, StopperType
    <3> QED
      BY <1>4, <3>1, <3>2
  <2>4. monitors[z] = w /\ w \in cancelled /\ stopper[w] = "idle" /\ w # None
    <3>1. monitors[z] = w /\ w \in cancelled /\ stopper[w] = "idle"
      BY <2>2, <2>3 DEF WatchInv, EventWaitsForItsOwn
    <3>2. w \in 1..Len(started)
      BY <2>1, <2>2 DEF BooksInv, WaitsForBorn
    <3> QED
      BY <1>8, <3>1, <3>2 DEF None
  <2>5. w # k
    BY <1>1, <2>4
  <2> HIDE DEF z, w
  <2>6. z # n
    <3> SUFFICES ASSUME z = n PROVE FALSE
      OBVIOUS
    <3>1. Races(k)
      BY <2>2, <2>4, <2>5 DEF Races, n
    <3> QED
      BY <1>1, <2>3, <3>1 DEF Note, n
  <2>7. monitors'[z] = w /\ cancelled' = cancelled
    BY <1>1, <1>8, <2>3, <2>4, <2>6
  <2>8. stopper'[w] = "idle"
    BY <1>3, <2>4 DEF TypeOK
  <2> QED
    BY <2>2, <2>4, <2>7, <2>8 DEF z, w
<1>12. AliveAreRegistered'
  <2> SUFFICES ASSUME NEW m \in Monitors, monitor'[m] \in {"checking", "looking"},
                      m \notin cancelled', started'[m] \notin raced', browsing',
                      phase' = "running"
               PROVE  monitors'[started'[m]] = m
    BY DEF AliveAreRegistered, Bound
  <2>1. CASE monitor[m] = "unborn"
    <3>1. monitor' # monitor
      BY <2>1
    <3>2. /\ monitor' = [monitor EXCEPT ![new] = "checking"] /\ monitors'[n] = new
          /\ started' = Append(started, n)
      BY <1>6, <1>9, <3>1
    <3>3. m = new
      BY <2>1, <3>2 DEF TypeOK
    <3>4. started'[new] = n
      BY <1>2, <3>2 DEF new, TypeOK
    <3> QED
      BY <3>2, <3>3, <3>4
  <2>2. CASE monitor[m] # "unborn"
    <3> DEFINE x == started[m]
    <3>1. m \in 1..Len(started) /\ x \in Names
      BY <2>2, ServiceOf
    <3>2. started'[m] = x /\ m # None
      <4>1. started \in Seq(Names) /\ (started' = started \/ started' = Append(started, n))
        BY <1>6 DEF TypeOK
      <4> QED
        BY <1>2, <3>1, <4>1 DEF None
    <3>3. monitor'[m] = monitor[m]
      BY <1>6, <2>2 DEF TypeOK
    <3>4. monitors[x] = m
      BY <1>1, <1>4, <3>2, <3>3 DEF WatchInv, AliveAreRegistered
    <3>5. x # n
      BY <1>4, <1>5, <3>2, <3>3, <3>4
    <3> QED
      BY <1>8, <3>1, <3>2, <3>4, <3>5
  <2> QED
    BY <2>1, <2>2
<1>13. EntriesHaveMonitor'
  <2> SUFFICES ASSUME NEW x \in Names, table'[x] # None, x \notin raced', browsing',
                      phase' = "running"
               PROVE  monitors'[x] # None
    BY DEF EntriesHaveMonitor, Bound
  <2> QED
    BY <1>4, <1>8, <1>9 DEF WatchInv, EntriesHaveMonitor
<1>14. EndedAreTakenOut'
  <2> SUFFICES ASSUME NEW x \in Names, x \notin raced', browsing', phase' = "running",
                      monitors'[x] # None
               PROVE  /\ monitor'[monitors'[x]] = "ended"
                         => \E j \in Stoppers : stopper'[j] # "idle" /\ Name(j)' = x
                      /\ monitors'[x] \in cancelled'
                         => stopper'[0] # "idle" /\ Name(0)' = x
    BY DEF EndedAreTakenOut, Bound
  <2>1. Bound(x) /\ cancelled' = cancelled
    BY <1>1, <1>4
  <2>2. CASE x = n
    <3>1. monitors'[x] = new /\ monitor'[new] = "checking" /\ monitor[new] = "unborn"
      BY <1>9, <2>2
    <3>2. new \notin cancelled
      BY <2>1, <3>1 DEF WatchInv, NoneCancelledEarly, Bound
    <3> QED
      BY <2>1, <3>1, <3>2
  <2>3. CASE x # n
    <3>1. monitors'[x] = monitors[x]
      BY <1>8, <2>3
    <3>2. monitors[x] \in 1..Len(started) /\ monitors[x] \in Monitors
      BY <3>1 DEF BooksInv, RegisteredIsBorn, TypeOK
    <3>3. monitor[monitors[x]] # "unborn"
      BY <1>8, <3>2, DiscoveryAssumption DEF BooksInv, BirthsInOrder, Monitors
    <3>4. monitor'[monitors[x]] = monitor[monitors[x]]
      BY <1>6, <3>2, <3>3 DEF TypeOK
    \* Who is to take it out is not k.
    <3>5. \A j \in Stoppers :
              stopper[j] # "idle" /\ Name(j) = x => stopper'[j] # "idle" /\ Name(j)' = x
      <4> SUFFICES ASSUME NEW j \in Stoppers, stopper[j] # "idle", Name(j) = x
                   PROVE  stopper'[j] # "idle" /\ Name(j)' = x
        OBVIOUS
      <4>1. j # k
        BY <2>3 DEF n
      <4>2. stopper'[j] # "idle"
        BY <1>3, <4>1 DEF TypeOK
      <4> QED
        BY <1>7, <4>2
    <3>6. 0 \in Stoppers
      BY DiscoveryAssumption DEF Stoppers
    <3> QED
      BY <2>1, <3>1, <3>4, <3>5, <3>6 DEF WatchInv, EndedAreTakenOut
  <2> QED
    BY <2>2, <2>3
<1>15. NoneCancelledEarly'
  BY <1>1, <1>6 DEF WatchInv, NoneCancelledEarly, callVars, TypeOK
<1> QED
  BY <1>10, <1>11, <1>12, <1>13, <1>14, <1>15 DEF WatchInv

\* A stopper cancels the monitor; a removal never cancels the one it is for.
LEMMA StopMonitorWatches ==
    ASSUME TypeOK, BooksInv, WatchInv, NEW k \in Stoppers, StopMonitor(k)
    PROVE  WatchInv'
<1> DEFINE n == Name(k)
           m == monitors[n]
<1>1. /\ stopper[k] = "ready" /\ m # None /\ monitor[m] # "ended"
      /\ cancelled' = cancelled \cup {m}
      /\ waitsFor' = [waitsFor EXCEPT ![k] = m]
      /\ stopper' = [stopper EXCEPT ![k] = "waiting"]
      /\ Note(k)
      /\ UNCHANGED <<zcVars, monitor, started, monitors, table, changed, callVars>>
  BY DEF StopMonitor
<1>2. n \in Names /\ m \in 1..Len(started) /\ started[m] = n
  BY <1>1, StopperType DEF BooksInv, RegisteredIsBorn
<1>3. m \in Monitors /\ m \in Stoppers /\ m # 0 /\ Len(started) \in Nat /\ 0 \in Stoppers
  BY <1>2, DiscoveryAssumption DEF TypeOK, Monitors, Stoppers
<1>4. stopper[m] = "idle" /\ m # k /\ monitor[m] # "unborn"
  BY <1>1, <1>2, <1>3 DEF BooksInv, StoppersHaveCause, BirthsInOrder
<1>5. k # 0 => n \in raced'
  BY <1>1, <1>4 DEF Races, Note
<1>6. \A j \in Stoppers : stopper[j] # "idle" <=> stopper'[j] # "idle"
  BY <1>1 DEF TypeOK
<1>7. \A j \in Stoppers : stopper[j] # "idle" => Name(j)' = Name(j)
  BY <1>1, NameStays DEF zcVars
<1>8. /\ raced \subseteq raced'
      /\ \A x : x \notin raced' /\ browsing' /\ phase' = "running" => Bound(x)
  BY <1>1 DEF Note, Bound, callVars, zcVars
<1>9. stopper[0] # "idle" => Name(0) \in Names /\ Name(0)' = Name(0)
  BY <1>3, <1>7, StopperType
<1> HIDE DEF m
<1>10. RemovalsDoNotWait'
  <2> SUFFICES ASSUME NEW j \in Stoppers, j # 0, stopper'[j] = "waiting"
               PROVE  started[j] \in raced'
    BY <1>1 DEF RemovalsDoNotWait
  <2>1. CASE j = k
    BY <1>5, <2>1 DEF Name
  <2>2. CASE j # k
    <3>1. stopper[j] = "waiting"
      BY <1>1, <2>2 DEF TypeOK
    <3> QED
      BY <1>8, <3>1 DEF WatchInv, RemovalsDoNotWait
  <2> QED
    BY <2>1, <2>2
<1>11. EventWaitsForItsOwn'
  <2> SUFFICES ASSUME stopper'[0] = "waiting", Name(0)' \notin raced', browsing',
                      phase' = "running"
               PROVE  /\ monitors[Name(0)'] = waitsFor'[0]
                      /\ waitsFor'[0] \in cancelled'
                      /\ stopper'[waitsFor'[0]] = "idle"
    BY <1>1 DEF EventWaitsForItsOwn, Bound
  <2>1. CASE k = 0
    <3>1. waitsFor'[0] = m /\ Name(0)' = n
      BY <1>1, <1>7, <2>1 DEF TypeOK
    <3>2. stopper'[m] = "idle"
      BY <1>1, <1>3, <1>4 DEF TypeOK
    <3> QED
      BY <1>1, <3>1, <3>2 DEF m
  <2>2. CASE k # 0
    <3>1. stopper[0] = "waiting" /\ waitsFor'[0] = waitsFor[0]
      BY <1>1, <2>2 DEF TypeOK
    <3>2. Bound(Name(0)) /\ Name(0)' = Name(0)
      BY <1>8, <1>9, <3>1
    <3>3. waitsFor[0] \in cancelled /\ stopper[waitsFor[0]] = "idle" /\ monitors[Name(0)] = waitsFor[0]
      BY <3>1, <3>2 DEF WatchInv, EventWaitsForItsOwn
    <3>4. stopper'[waitsFor[0]] = "idle"
      BY <1>1, <3>3 DEF TypeOK
    <3> QED
      BY <1>1, <3>1, <3>2, <3>3, <3>4
  <2> QED
    BY <2>1, <2>2
<1>12. AliveAreRegistered'
  BY <1>1, <1>8 DEF WatchInv, AliveAreRegistered, Bound
<1>13. EntriesHaveMonitor'
  BY <1>1, <1>8 DEF WatchInv, EntriesHaveMonitor, Bound
<1>14. EndedAreTakenOut'
  <2> SUFFICES ASSUME NEW x \in Names, x \notin raced', browsing', phase' = "running",
                      monitors[x] # None
               PROVE  /\ monitor[monitors[x]] = "ended"
                         => \E j \in Stoppers : stopper'[j] # "idle" /\ Name(j)' = x
                      /\ monitors[x] \in cancelled'
                         => stopper'[0] # "idle" /\ Name(0)' = x
    BY <1>1 DEF EndedAreTakenOut, Bound
  <2>1. Bound(x)
    BY <1>8
  <2>2. monitor[monitors[x]] = "ended"
        => \E j \in Stoppers : stopper'[j] # "idle" /\ Name(j)' = x
    BY <1>6, <1>7, <2>1 DEF WatchInv, EndedAreTakenOut
  <2>3. CASE monitors[x] = m
    <3>1. x = n
      BY <1>2, <2>3 DEF BooksInv, RegisteredIsBorn
    <3>2. k = 0
      BY <1>5, <3>1
    <3> QED
      BY <1>1, <1>6, <1>7, <2>2, <3>1, <3>2
  <2>4. CASE monitors[x] # m
    BY <1>1, <1>3, <1>6, <1>7, <2>1, <2>2, <2>4 DEF WatchInv, EndedAreTakenOut
  <2> QED
    BY <2>3, <2>4
<1>15. NoneCancelledEarly'
  BY <1>1, <1>4 DEF WatchInv, NoneCancelledEarly, callVars
<1> QED
  BY <1>10, <1>11, <1>12, <1>13, <1>14, <1>15 DEF WatchInv

\* A removal that fails was for a service that was raced, and an event that fails
\* ends the browser's thread.
LEMMA StopFailsWatches ==
    ASSUME TypeOK, BooksInv, WatchInv, NEW k \in Stoppers, StopFails(k)
    PROVE  WatchInv'
<1>1. /\ stopper[k] = "waiting"
      /\ stopper' = [stopper EXCEPT ![k] = "idle"]
      /\ waitsFor' = [waitsFor EXCEPT ![k] = None]
      /\ k # 0 => events' = events /\ Name(k) \in raced
      /\ browsing' = (browsing /\ k # 0)
      /\ UNCHANGED <<record, reported, monVars, monitors, table, changed, callVars, raced>>
  BY DEF StopFails, Leave, WatchInv, RemovalsDoNotWait, Name
<1>2. \A x : x \notin raced' /\ browsing' /\ phase' = "running" => Bound(x) /\ k # 0
  BY <1>1 DEF Bound, callVars
<1>3. 0 \in Stoppers
  BY DiscoveryAssumption DEF Stoppers
<1>4. \A j \in Stoppers : stopper'[j] # "idle" =>
          stopper'[j] = stopper[j] /\ waitsFor'[j] = waitsFor[j] /\ j # k
  BY <1>1 DEF TypeOK
<1>5. \A j \in Stoppers : k # 0 /\ stopper[j] # "idle" => Name(j)' = Name(j)
  BY <1>1, NameStays DEF monVars
<1>6. RemovalsDoNotWait'
  BY <1>1, <1>4 DEF WatchInv, RemovalsDoNotWait, monVars
<1>7. EventWaitsForItsOwn'
  <2> SUFFICES ASSUME stopper'[0] = "waiting", Name(0)' \notin raced', browsing',
                      phase' = "running"
               PROVE  /\ monitors[Name(0)'] = waitsFor'[0]
                      /\ waitsFor'[0] \in cancelled
                      /\ stopper'[waitsFor'[0]] = "idle"
    BY <1>1 DEF EventWaitsForItsOwn, Bound, monVars
  <2>1. k # 0 /\ stopper[0] = "waiting" /\ waitsFor'[0] = waitsFor[0]
    BY <1>2, <1>3, <1>4
  <2>2. Name(0)' = Name(0) /\ Bound(Name(0))
    BY <1>2, <1>3, <1>5, <2>1
  <2>3. /\ monitors[Name(0)] = waitsFor[0] /\ waitsFor[0] \in cancelled
        /\ stopper[waitsFor[0]] = "idle"
    BY <2>1, <2>2 DEF WatchInv, EventWaitsForItsOwn
  <2>4. stopper'[waitsFor[0]] = "idle"
    BY <1>1, <2>3 DEF TypeOK
  <2> QED
    BY <2>1, <2>2, <2>3, <2>4
<1>8. AliveAreRegistered' /\ EntriesHaveMonitor'
  BY <1>1, <1>2 DEF WatchInv, AliveAreRegistered, EntriesHaveMonitor, Bound, monVars
<1>9. EndedAreTakenOut'
  <2> SUFFICES ASSUME NEW x \in Names, x \notin raced', browsing', phase' = "running",
                      monitors[x] # None
               PROVE  /\ monitor[monitors[x]] = "ended"
                         => \E j \in Stoppers : stopper'[j] # "idle" /\ Name(j)' = x
                      /\ monitors[x] \in cancelled
                         => stopper'[0] # "idle" /\ Name(0)' = x
    BY <1>1 DEF EndedAreTakenOut, Bound, monVars
  <2>1. Bound(x) /\ k # 0 /\ Name(k) # x
    BY <1>1, <1>2 DEF Bound
  <2>2. \A j \in Stoppers :
            stopper[j] # "idle" /\ Name(j) = x => stopper'[j] # "idle" /\ Name(j)' = x
    BY <1>1, <1>5, <2>1 DEF TypeOK
  <2> QED
    BY <1>3, <2>1, <2>2 DEF WatchInv, EndedAreTakenOut
<1>10. NoneCancelledEarly'
  BY <1>1 DEF WatchInv, NoneCancelledEarly, monVars, callVars
<1> QED
  BY <1>6, <1>7, <1>8, <1>9, <1>10 DEF WatchInv

\* What monitors do.
LEMMA MonitoringWatches ==
    ASSUME TypeOK, BooksInv, WatchInv, NEW m \in Monitors, Monitoring(m)
    PROVE  WatchInv'
<1> DEFINE n == started[m]
<1>1. /\ monitor[m] \in {"checking", "looking"}
      /\ UNCHANGED <<zcVars, waitsFor, started, cancelled, monitors, callVars, raced>>
      /\ \E y \in {"checking", "looking", "ended"} : monitor' = [monitor EXCEPT ![m] = y]
      /\ \/ UNCHANGED stopper
         \/ stopper' = [stopper EXCEPT ![m] = "ready"] /\ m \notin cancelled
      /\ \/ UNCHANGED table
         \/ m \notin cancelled /\ table' = [table EXCEPT ![n] = record[n]]
      \* If it ends, it has started a removal, or was cancelled, or is not the
      \* monitor of its service, or stop() has closed zeroconf.
      /\ \/ monitor'[m] # "ended"
         \/ stopper' = [stopper EXCEPT ![m] = "ready"]
         \/ m \in cancelled
         \/ monitors[n] # m
         \/ phase = "stopped"
  BY DEF Monitoring, Check, Found, NotFound, MonitorEnds, stopVars, TypeOK
<1>2. m \in 1..Len(started) /\ n \in Names
  BY <1>1, ServiceOf
<1>3. m \in Stoppers /\ m # 0 /\ 0 \in Stoppers /\ m # None
  BY DiscoveryAssumption DEF Monitors, Stoppers, None
<1>4. stopper[m] = "idle"
  BY <1>1, <1>3 DEF BooksInv, StoppersHaveCause
<1>5. /\ \A j \in Stoppers : stopper[j] # "idle" => stopper'[j] = stopper[j]
      /\ \A j \in Stoppers : stopper'[j] = "waiting" => stopper[j] = "waiting"
  BY <1>1, <1>4 DEF TypeOK
<1>6. \A j \in Stoppers : Name(j)' = Name(j)
  BY <1>1 DEF Name, zcVars
<1>7. \A x : Bound(x)' <=> Bound(x)
  BY <1>1 DEF Bound, zcVars, callVars
<1>8. \A j \in Monitors : j # m => monitor'[j] = monitor[j]
  BY <1>1 DEF TypeOK
<1> HIDE DEF n
<1>9. RemovalsDoNotWait'
  BY <1>1, <1>5 DEF WatchInv, RemovalsDoNotWait
<1>10. EventWaitsForItsOwn'
  <2> SUFFICES ASSUME stopper'[0] = "waiting", Name(0) \notin raced, browsing,
                      phase = "running"
               PROVE  /\ monitors[Name(0)] = waitsFor[0]
                      /\ waitsFor[0] \in cancelled
                      /\ stopper'[waitsFor[0]] = "idle"
    BY <1>1, <1>3, <1>6 DEF EventWaitsForItsOwn, Bound, zcVars, callVars
  <2>1. /\ monitors[Name(0)] = waitsFor[0] /\ waitsFor[0] \in cancelled
        /\ stopper[waitsFor[0]] = "idle"
    BY <1>3, <1>5 DEF WatchInv, EventWaitsForItsOwn, Bound
  <2>2. stopper'[waitsFor[0]] = "idle"
    <3>1. CASE UNCHANGED stopper
      BY <2>1, <3>1
    <3>2. CASE stopper' = [stopper EXCEPT ![m] = "ready"] /\ m \notin cancelled
      <4>1. waitsFor[0] # m
        BY <2>1, <3>2
      <4>2. waitsFor[0] \in Stoppers
        BY <1>3, DiscoveryAssumption DEF TypeOK, Monitors, Stoppers, None
      <4> QED
        BY <2>1, <3>2, <4>1, <4>2 DEF TypeOK
    <3> QED
      BY <1>1, <3>1, <3>2
  <2> QED
    BY <2>1, <2>2
<1>11. AliveAreRegistered'
  <2> SUFFICES ASSUME NEW j \in Monitors, monitor'[j] \in {"checking", "looking"},
                      j \notin cancelled, started[j] \notin raced, browsing,
                      phase = "running"
               PROVE  monitors[started[j]] = j
    BY <1>1 DEF AliveAreRegistered, Bound, zcVars, callVars
  <2>1. monitor[j] \in {"checking", "looking"}
    BY <1>1, <1>8
  <2> QED
    BY <2>1 DEF WatchInv, AliveAreRegistered, Bound
<1>12. EntriesHaveMonitor'
  <2> SUFFICES ASSUME NEW x \in Names, table'[x] # None, x \notin raced, browsing,
                      phase = "running"
               PROVE  monitors[x] # None
    BY <1>1 DEF EntriesHaveMonitor, Bound, zcVars, callVars
  <2>1. CASE table'[x] = table[x]
    BY <2>1 DEF WatchInv, EntriesHaveMonitor, Bound
  <2>2. CASE table'[x] # table[x]
    <3>1. x = n /\ m \notin cancelled
      BY <1>1, <2>2 DEF TypeOK
    <3>2. monitors[n] = m
      BY <1>1, <3>1 DEF WatchInv, AliveAreRegistered, Bound, n
    <3> QED
      BY <1>3, <3>1, <3>2
  <2> QED
    BY <2>1, <2>2
<1>13. EndedAreTakenOut'
  <2> SUFFICES ASSUME NEW x \in Names, Bound(x), monitors[x] # None
               PROVE  /\ monitor'[monitors[x]] = "ended"
                         => \E j \in Stoppers : stopper'[j] # "idle" /\ Name(j) = x
                      /\ monitors[x] \in cancelled
                         => stopper'[0] # "idle" /\ Name(0) = x
    <3>1. \A x \in Names : Bound(x)' <=> Bound(x)
      BY <1>7
    <3> QED
      BY <1>1, <1>3, <1>6, <3>1 DEF EndedAreTakenOut
  <2>1. \A j \in Stoppers : stopper[j] # "idle" => stopper'[j] # "idle"
    BY <1>5
  <2>2. /\ monitor[monitors[x]] = "ended"
           => \E j \in Stoppers : stopper'[j] # "idle" /\ Name(j) = x
        /\ monitors[x] \in cancelled => stopper'[0] # "idle" /\ Name(0) = x
    BY <1>3, <2>1 DEF WatchInv, EndedAreTakenOut
  <2>3. CASE monitors[x] = m /\ monitor'[m] = "ended"
    <3>1. x = n
      BY <2>3 DEF BooksInv, RegisteredIsBorn, n
    <3>2. CASE stopper' = [stopper EXCEPT ![m] = "ready"]
      <4>1. stopper'[m] # "idle" /\ Name(m) = x
        BY <1>3, <3>1, <3>2 DEF TypeOK, Name, n
      <4> QED
        BY <1>3, <2>2, <4>1
    <3>3. CASE m \in cancelled
      BY <1>3, <2>2, <2>3, <3>3
    <3> QED
      BY <1>1, <2>3, <3>1, <3>2, <3>3 DEF Bound
  <2>4. CASE monitors[x] # m \/ monitor'[m] # "ended"
    <3>1. monitors[x] \in Monitors
      BY DEF TypeOK
    <3> QED
      BY <1>8, <2>2, <2>4, <3>1
  <2> QED
    BY <2>3, <2>4
<1>14. NoneCancelledEarly'
  BY <1>1 DEF WatchInv, NoneCancelledEarly, callVars, TypeOK
<1> QED
  BY <1>9, <1>10, <1>11, <1>12, <1>13, <1>14 DEF WatchInv

LEMMA WatchStep ==
    ASSUME TypeOK, BooksInv, WatchInv, [Next]_vars
    PROVE  WatchInv'
\* What leaves the monitors and who stops them alone.
<1>1. ASSUME UNCHANGED <<stopper, waitsFor, monitor, started, monitors, table, raced>>,
             cancelled' = cancelled \/ phase # "running",
             todo' = todo \/ phase' # "running",
             browsing' => browsing,
             phase' = "running" => phase = "running",
             events' = events \/ \E e \in Event : events' = Append(events, e)
      PROVE  WatchInv'
  <2>1. \A j \in Stoppers : stopper[j] # "idle" => Name(j)' = Name(j)
    BY <1>1, NameStays
  <2>2. \A x : x \notin raced' /\ browsing' /\ phase' = "running" =>
            Bound(x) /\ cancelled' = cancelled /\ todo' = todo
    BY <1>1 DEF Bound
  <2>3. 0 \in Stoppers
    BY DiscoveryAssumption DEF Stoppers
  <2>4. RemovalsDoNotWait'
    BY <1>1 DEF WatchInv, RemovalsDoNotWait
  <2>5. EventWaitsForItsOwn'
    <3> SUFFICES ASSUME stopper[0] = "waiting", Name(0)' \notin raced', browsing',
                        phase' = "running"
                 PROVE  /\ monitors[Name(0)'] = waitsFor[0]
                        /\ waitsFor[0] \in cancelled'
                        /\ stopper[waitsFor[0]] = "idle"
      BY <1>1 DEF EventWaitsForItsOwn, Bound
    <3>1. Name(0)' = Name(0)
      BY <2>1, <2>3
    <3>2. Bound(Name(0)) /\ cancelled' = cancelled
      BY <2>2, <3>1
    <3> QED
      BY <3>1, <3>2 DEF WatchInv, EventWaitsForItsOwn
  <2>6. AliveAreRegistered' /\ EntriesHaveMonitor'
    BY <1>1, <2>2 DEF WatchInv, AliveAreRegistered, EntriesHaveMonitor, Bound
  <2>7. EndedAreTakenOut'
    <3> SUFFICES ASSUME NEW x \in Names, x \notin raced', browsing', phase' = "running",
                        monitors[x] # None
                 PROVE  /\ monitor[monitors[x]] = "ended"
                           => \E j \in Stoppers : stopper[j] # "idle" /\ Name(j)' = x
                        /\ monitors[x] \in cancelled'
                           => stopper[0] # "idle" /\ Name(0)' = x
      BY <1>1 DEF EndedAreTakenOut, Bound
    <3>1. Bound(x) /\ cancelled' = cancelled
      BY <2>2
    <3> QED
      BY <2>1, <2>3, <3>1 DEF WatchInv, EndedAreTakenOut
  <2>8. NoneCancelledEarly'
    BY <1>1 DEF WatchInv, NoneCancelledEarly
  <2> QED
    BY <2>4, <2>5, <2>6, <2>7, <2>8 DEF WatchInv
<1>2. CASE Zeroconf
  <2>1. events' = events \/ \E e \in Event : events' = Append(events, e)
    BY <1>2 DEF Zeroconf, Announce, Goodbye, Expire, Report, Event
  <2> QED
    BY <1>1, <1>2, <2>1
       DEF Zeroconf, Announce, Goodbye, Expire, Report, stopVars, monVars, callVars
<1>3. CASE TakeEvent
  <2>1. /\ stopper[0] = "idle" /\ stopper' = [stopper EXCEPT ![0] = "ready"]
        /\ UNCHANGED <<zcVars, waitsFor, monVars, monitors, table, changed, callVars, raced>>
    BY <1>3 DEF TakeEvent
  <2>2. \A j \in Stoppers : stopper[j] # "idle" => stopper'[j] = stopper[j] /\ j # 0
    BY <2>1 DEF TypeOK
  <2>3. \A j \in Stoppers : stopper'[j] = "waiting" => stopper[j] = "waiting"
    BY <2>1 DEF TypeOK
  <2>4. \A j \in Stoppers : Name(j)' = Name(j)
    BY <2>1 DEF Name, zcVars, monVars
  <2>5. 0 \in Stoppers
    BY DiscoveryAssumption DEF Stoppers
  <2>6. stopper'[0] # "waiting"
    BY <2>1, <2>5 DEF TypeOK
  <2>7. RemovalsDoNotWait'
    BY <2>1, <2>3 DEF WatchInv, RemovalsDoNotWait, monVars
  <2>8. EventWaitsForItsOwn'
    BY <2>6 DEF EventWaitsForItsOwn
  <2>9. AliveAreRegistered' /\ EntriesHaveMonitor'
    BY <2>1 DEF WatchInv, AliveAreRegistered, EntriesHaveMonitor, Bound, zcVars, monVars, callVars
  <2>10. EndedAreTakenOut'
    <3> SUFFICES ASSUME NEW x \in Names, Bound(x), monitors[x] # None
                 PROVE  /\ monitor[monitors[x]] = "ended"
                           => \E j \in Stoppers : stopper'[j] # "idle" /\ Name(j)' = x
                        /\ monitors[x] \in cancelled
                           => stopper'[0] # "idle" /\ Name(0)' = x
      BY <2>1 DEF EndedAreTakenOut, Bound, zcVars, monVars, callVars
    <3> QED
      BY <2>2, <2>4, <2>5 DEF WatchInv, EndedAreTakenOut
  <2>11. NoneCancelledEarly'
    BY <2>1 DEF WatchInv, NoneCancelledEarly, monVars, callVars
  <2> QED
    BY <2>7, <2>8, <2>9, <2>10, <2>11 DEF WatchInv
<1>4. ASSUME NEW k \in Stoppers, Stopping(k) PROVE WatchInv'
  BY <1>4, ProceedWatches, StopMonitorWatches, StopFailsWatches DEF Stopping
<1>5. ASSUME NEW m \in Monitors, Monitoring(m) PROVE WatchInv'
  BY <1>5, MonitoringWatches
<1>6. CASE Show \/ Shown \/ Stop
  BY <1>1, <1>6 DEF Show, Shown, Stop, zcVars, stopVars, monVars
<1>7. CASE Closing
  <2>1. CASE Joined \/ Close
    BY <1>1, <2>1 DEF Joined, Close, zcVars, stopVars, monVars
  <2>2. ASSUME NEW m \in Monitors, CancelNext(m) \/ SeenEnded(m) PROVE WatchInv'
    <3>1. phase # "running"
      BY <2>2 DEF CancelNext, SeenEnded, WatchInv, NoneCancelledEarly
    <3> QED
      BY <1>1, <2>2, <3>1 DEF CancelNext, SeenEnded, zcVars, stopVars, monVars, callVars
  <2> QED
    BY <1>7, <2>1, <2>2 DEF Closing
<1>8. CASE UNCHANGED vars
  BY <1>1, <1>8 DEF vars, zcVars, stopVars, monVars, callVars
<1> QED
  BY <1>2, <1>3, <1>4, <1>5, <1>6, <1>7, <1>8 DEF Next

\* A node in the table has a monitor at work or a stopper that is about to see to
\* it, unless a removal met another monitor of its service.
THEOREM AlwaysWatched == Spec => []EntriesAreWatched
<1>1. Init => TypeOK /\ BooksInv /\ WatchInv
  BY InitType, InitWatch
<1>2. TypeOK /\ BooksInv /\ WatchInv /\ [Next]_vars => (TypeOK /\ BooksInv /\ WatchInv)'
  BY ActionTypes, WatchStep
<1>3. TypeOK /\ WatchInv => EntriesAreWatched
  BY WatchIsEnough
<1> QED
  BY <1>1, <1>2, <1>3, PTL DEF Spec

----------------------------------------------------------------------------
(* Services are watched                                                    *)

EventOf(n) == \E i \in DOMAIN events : events[i].name = n

\* The last event of a service that is there is an announcement.
LastEventStarts ==
    \A i \in DOMAIN events :
        events[i].kind = "remove" /\ record[events[i].name] # None
        => \E j \in DOMAIN events :
               i < j /\ events[j].name = events[i].name /\ events[j].kind = "start"

PresentHaveMonitor ==
    \A n \in Names :
        record[n] # None /\ Bound(n) /\ ~EventOf(n)
        => monitors[n] # None /\ monitor[monitors[n]] # "ended"

PresentInv == LastEventStarts /\ PresentHaveMonitor

LEMMA EventNames ==
    ASSUME TypeOK, NEW i \in DOMAIN events
    PROVE  events[i].name \in Names
<1>1. events \in Seq(Event)
  BY DEF TypeOK
<1>2. events[i] \in Event
  BY <1>1
<1> QED
  BY <1>2 DEF Event

\* An event that is being seen to is in the queue.
LEMMA EventIsHead ==
    ASSUME TypeOK, BooksInv, stopper[0] # "idle"
    PROVE  /\ 1 \in DOMAIN events /\ Head(events) = events[1]
           /\ Name(0) = events[1].name /\ Kind(0) = events[1].kind
           /\ EventOf(Name(0))
<1>1. events # <<>> /\ events \in Seq(Event)
  BY DiscoveryAssumption DEF BooksInv, StoppersHaveCause, Stoppers, TypeOK
<1>2. 1 \in DOMAIN events /\ Head(events) = events[1]
  BY <1>1
<1> QED
  BY <1>2 DEF Name, Kind, EventOf

\* The first event goes; the others keep their order.
LEMMA TailEvents ==
    ASSUME TypeOK, events # <<>>, events' = Tail(events)
    PROVE  /\ \A i \in DOMAIN events' : i + 1 \in DOMAIN events /\ events'[i] = events[i + 1]
           /\ \A i \in DOMAIN events : i # 1 => i - 1 \in DOMAIN events' /\ events'[i - 1] = events[i]
<1>1. events \in Seq(Event) /\ Len(events) \in Nat /\ Len(events) # 0
  BY DEF TypeOK
<1>2. /\ DOMAIN events = 1..Len(events) /\ DOMAIN events' = 1..(Len(events) - 1)
      /\ \A i \in 1..(Len(events) - 1) : events'[i] = events[i + 1]
  BY <1>1
<1> QED
  BY <1>1, <1>2

LEMMA TailKeepsLast ==
    ASSUME TypeOK, LastEventStarts, events # <<>>, events' = Tail(events), record' = record
    PROVE  LastEventStarts'
<1> SUFFICES ASSUME NEW i \in DOMAIN events', events'[i].kind = "remove",
                    record[events'[i].name] # None
             PROVE  \E j \in DOMAIN events' : i < j /\ events'[j].name = events'[i].name
                                              /\ events'[j].kind = "start"
  BY DEF LastEventStarts
<1>1. i + 1 \in DOMAIN events /\ events'[i] = events[i + 1]
  BY TailEvents
<1>2. PICK j \in DOMAIN events : i + 1 < j /\ events[j].name = events'[i].name
                                 /\ events[j].kind = "start"
  BY <1>1 DEF LastEventStarts
<1>3. i \in Nat /\ j \in Nat /\ i >= 1
  <2>1. events \in Seq(Event) /\ events' \in Seq(Event)
    BY DEF TypeOK
  <2> QED
    BY <2>1
<1>4. j # 1 /\ i < j - 1
  BY <1>2, <1>3
<1> QED
  BY <1>2, <1>4, TailEvents

LEMMA AppendKeepsLast ==
    ASSUME TypeOK, LastEventStarts, NEW n \in Names, NEW kind \in {"start", "remove"},
           events' = Append(events, [name |-> n, kind |-> kind]),
           \A x \in Names : x # n => record'[x] = record[x],
           kind = "remove" => record'[n] = None
    PROVE  /\ LastEventStarts'
           /\ \A x \in Names : ~EventOf(x)' => x # n /\ ~EventOf(x)
<1> DEFINE e == [name |-> n, kind |-> kind]
           new == Len(events) + 1
<1>1. /\ DOMAIN events = 1..Len(events) /\ Len(events) \in Nat
      /\ DOMAIN events' = 1..new
      /\ events'[new] = e /\ \A i \in 1..Len(events) : events'[i] = events[i]
  BY DEF TypeOK
<1>2. \A i \in DOMAIN events : events[i].name \in Names
  BY EventNames
<1> HIDE DEF e
<1>3. e.name = n /\ e.kind = kind
  BY DEF e
<1>4. LastEventStarts'
  <2> SUFFICES ASSUME NEW i \in DOMAIN events', events'[i].kind = "remove",
                      record'[events'[i].name] # None
               PROVE  \E j \in DOMAIN events' : i < j /\ events'[j].name = events'[i].name
                                                /\ events'[j].kind = "start"
    BY DEF LastEventStarts
  <2>1. CASE i = new
    BY <1>1, <1>3, <2>1
  <2>2. CASE i # new
    <3>1. i \in DOMAIN events /\ events'[i] = events[i]
      BY <1>1, <2>2
    <3>2. CASE events[i].name = n
      <4>1. kind = "start"
        BY <3>1, <3>2
      <4> QED
        BY <1>1, <1>3, <3>1, <3>2, <4>1
    <3>3. CASE events[i].name # n
      <4>1. record[events[i].name] # None
        BY <1>2, <3>1, <3>3
      <4>2. PICK j \in DOMAIN events : i < j /\ events[j].name = events[i].name
                                       /\ events[j].kind = "start"
        BY <3>1, <4>1 DEF LastEventStarts
      <4> QED
        BY <1>1, <3>1, <4>2
    <3> QED
      BY <3>2, <3>3
  <2> QED
    BY <2>1, <2>2
<1>5. ASSUME NEW x \in Names, ~EventOf(x)' PROVE x # n /\ ~EventOf(x)
  <2>1. new \in DOMAIN events' /\ \A i \in DOMAIN events : i \in DOMAIN events' /\ events'[i] = events[i]
    BY <1>1
  <2>2. \A i \in DOMAIN events' : events'[i].name # x
    BY <1>5 DEF EventOf
  <2>3. e.name # x
    BY <1>1, <2>1, <2>2
  <2> QED
    BY <1>3, <2>1, <2>2, <2>3 DEF EventOf
<1> QED
  BY <1>4, <1>5

\* A registered monitor was born for its service.
LEMMA Registered ==
    ASSUME TypeOK, BooksInv, NEW n \in Names, monitors[n] # None
    PROVE  /\ monitors[n] \in Monitors /\ monitors[n] \in 1..Len(started)
           /\ started[monitors[n]] = n /\ monitor[monitors[n]] # "unborn"
<1>1. monitors[n] \in Monitors /\ monitors[n] \in 1..Len(started) /\ started[monitors[n]] = n
  BY DEF BooksInv, RegisteredIsBorn, TypeOK
<1>2. Len(started) \in Nat
  BY DEF TypeOK
<1>3. ~(monitors[n] > Len(started))
  BY <1>1, <1>2
<1> QED
  BY <1>1, <1>3 DEF BooksInv, BirthsInOrder

LEMMA ProceedFinds ==
    ASSUME TypeOK, BooksInv, WatchInv, PresentInv, NEW k \in Stoppers,
           StopAtOnce(k) \/ Stopped(k)
    PROVE  PresentInv'
<1> DEFINE n == Name(k)
           new == Len(started) + 1
<1>1. /\ Proceed(k) /\ Note(k) /\ stopper[k] # "idle"
      /\ UNCHANGED <<record, reported, browsing, cancelled, callVars>>
  BY DEF StopAtOnce, Stopped
<1>2. n \in Names /\ Kind(k) \in {"start", "remove"} /\ (Kind(k) = "start" => k = 0)
      /\ (k = 0 => events # <<>>)
  BY <1>1, StopperType
<1>3. events' = IF k = 0 THEN Tail(events) ELSE events
  BY <1>1 DEF Proceed, Leave
<1>4. LastEventStarts'
  <2>1. CASE k = 0
    BY <1>1, <1>2, <1>3, <2>1, TailKeepsLast DEF PresentInv
  <2>2. CASE k # 0
    BY <1>1, <1>3, <2>2 DEF PresentInv, LastEventStarts
  <2> QED
    BY <2>1, <2>2
<1>5. ASSUME NEW x \in Names, record'[x] # None, Bound(x)', ~EventOf(x)'
      PROVE  monitors'[x] # None /\ monitor'[monitors'[x]] # "ended"
  <2>1. record[x] # None /\ Bound(x) /\ x \notin raced'
    BY <1>1, <1>5 DEF Note, Bound, callVars
  <2>2. CASE x = n /\ Kind(k) = "start"
    <3>1. new \in Monitors /\ new # None
      BY <1>1, <2>2, RoomForNext, DiscoveryAssumption DEF Monitors, None
    <3>2. /\ monitor' = [monitor EXCEPT ![new] = "checking"]
          /\ monitors' = [monitors EXCEPT ![n] = new]
      BY <1>1, <2>2 DEF Proceed
    <3> HIDE DEF new, n
    <3>3. monitors'[x] = new /\ monitor'[new] = "checking"
      BY <2>2, <3>1, <3>2 DEF TypeOK
    <3> QED
      BY <3>1, <3>3
  <2>3. CASE x = n /\ Kind(k) # "start"
    <3>1. CASE k = 0
      <4>1. /\ 1 \in DOMAIN events /\ events[1].name = n /\ events[1].kind = "remove"
        BY <1>1, <1>2, <2>3, <3>1, EventIsHead
      <4>2. PICK j \in DOMAIN events : 1 < j /\ events[j].name = n
        BY <2>1, <2>3, <4>1 DEF PresentInv, LastEventStarts
      <4>3. j # 1
        BY <4>2
      <4>4. j - 1 \in DOMAIN events' /\ events'[j - 1] = events[j]
        BY <1>2, <1>3, <3>1, <4>2, <4>3, TailEvents
      <4> QED
        BY <1>5, <2>3, <4>2, <4>4 DEF EventOf
    <3>2. CASE k # 0
      <4>1. ~EventOf(x)
        BY <1>3, <1>5, <3>2 DEF EventOf
      <4>2. monitors[x] # None /\ monitor[monitors[x]] # "ended"
        BY <2>1, <4>1 DEF PresentInv, PresentHaveMonitor
      <4>3. ~Races(k)
        BY <1>1, <2>1, <2>3 DEF Note
      <4>4. monitors[x] = k
        BY <2>3, <3>2, <4>2, <4>3 DEF Races
      <4>5. monitor[k] = "ended"
        BY <1>1, <3>2 DEF BooksInv, StoppersHaveCause
      <4> QED
        BY <4>2, <4>4, <4>5
    <3> QED
      BY <3>1, <3>2
  <2>4. CASE x # n
    <3>1. ~EventOf(x)
      <4>1. CASE k = 0
        <5>1. events[1].name # x
          BY <1>1, <2>4, <4>1, EventIsHead
        <5>2. \A i \in DOMAIN events : i # 1 => events[i].name # x
          <6> SUFFICES ASSUME NEW i \in DOMAIN events, i # 1 PROVE events[i].name # x
            OBVIOUS
          <6>1. i - 1 \in DOMAIN events' /\ events'[i - 1] = events[i]
            BY <1>2, <1>3, <4>1, TailEvents
          <6> QED
            BY <1>5, <6>1 DEF EventOf
        <5> QED
          BY <5>1, <5>2 DEF EventOf
      <4>2. CASE k # 0
        BY <1>3, <1>5, <4>2 DEF EventOf
      <4> QED
        BY <4>1, <4>2
    <3>2. monitors[x] # None /\ monitor[monitors[x]] # "ended"
      BY <2>1, <3>1 DEF PresentInv, PresentHaveMonitor
    <3>3. monitors[x] \in Monitors /\ monitor[monitors[x]] # "unborn"
      BY <3>2, Registered
    <3>4. monitors'[x] = monitors[x]
      BY <1>1, <1>2, <2>4 DEF Proceed, TypeOK
    <3>5. \A m \in Monitors : monitor[m] # "unborn" => monitor'[m] = monitor[m]
      <4>1. CASE Kind(k) = "start"
        <5>1. new \in Monitors /\ monitor[new] = "unborn"
          BY <1>1, <4>1, RoomForNext
        <5>2. monitor' = [monitor EXCEPT ![new] = "checking"]
          BY <1>1, <4>1 DEF Proceed
        <5> HIDE DEF new
        <5> QED
          BY <5>1, <5>2 DEF TypeOK
      <4>2. CASE Kind(k) # "start"
        BY <1>1, <4>2 DEF Proceed
      <4> QED
        BY <4>1, <4>2
    <3> QED
      BY <3>2, <3>3, <3>4, <3>5
  <2> QED
    BY <2>2, <2>3, <2>4
<1> QED
  BY <1>4, <1>5 DEF PresentInv, PresentHaveMonitor

LEMMA PresentStep ==
    ASSUME TypeOK, BooksInv, WatchInv, PresentInv, [Next]_vars
    PROVE  PresentInv'
\* What leaves services, events and monitors alone.
<1>1. ASSUME UNCHANGED <<record, events, monitor, monitors>>,
             \A x : Bound(x)' => Bound(x)
      PROVE  PresentInv'
  BY <1>1 DEF PresentInv, LastEventStarts, PresentHaveMonitor, EventOf
<1>2. CASE Zeroconf
  <2>1. UNCHANGED <<monitor, monitors>> /\ \A x : Bound(x)' <=> Bound(x)
    BY <1>2 DEF Zeroconf, Announce, Goodbye, Expire, Report, monVars, callVars, Bound
  <2>2. ASSUME NEW n \in Names, Announce(n) \/ Goodbye(n) PROVE PresentInv'
    <3>1. PICK kind \in {"start", "remove"} :
              /\ events' = Append(events, [name |-> n, kind |-> kind])
              /\ kind = "remove" => record'[n] = None
      BY <2>2 DEF Announce, Goodbye, Report, TypeOK
    <3>2. \A x \in Names : x # n => record'[x] = record[x]
      BY <2>2 DEF Announce, Goodbye, TypeOK
    <3>3. /\ LastEventStarts'
          /\ \A x \in Names : ~EventOf(x)' => x # n /\ ~EventOf(x)
      BY <3>1, <3>2, AppendKeepsLast DEF PresentInv
    <3> QED
      BY <2>1, <3>2, <3>3 DEF PresentInv, PresentHaveMonitor
  <2>3. ASSUME NEW n \in Names, Expire(n) PROVE PresentInv'
    <3>1. events' = events /\ \A x \in Names : record'[x] # None => record[x] # None
      BY <2>3 DEF Expire, TypeOK
    <3>2. \A i \in DOMAIN events : events[i].name \in Names
      BY EventNames
    <3> QED
      BY <2>1, <3>1, <3>2 DEF PresentInv, LastEventStarts, PresentHaveMonitor, EventOf
  <2> QED
    BY <1>2, <2>2, <2>3 DEF Zeroconf
<1>3. ASSUME NEW k \in Stoppers, Stopping(k) PROVE PresentInv'
  <2>1. CASE StopAtOnce(k) \/ Stopped(k)
    BY <2>1, ProceedFinds
  <2>2. CASE StopMonitor(k)
    BY <1>1, <2>2 DEF StopMonitor, Note, Bound, zcVars, callVars
  <2>3. CASE StopFails(k)
    <3>1. CASE k # 0
      BY <1>1, <2>3, <3>1 DEF StopFails, Leave, monVars, callVars, Bound
    <3>2. CASE k = 0
      <4>1. events' = Tail(events) /\ record' = record /\ ~browsing' /\ events # <<>>
        BY <2>3, <3>2, StopperType DEF StopFails, Leave
      <4> QED
        BY <4>1, TailKeepsLast DEF PresentInv, PresentHaveMonitor, Bound
    <3> QED
      BY <3>1, <3>2
  <2> QED
    BY <1>3, <2>1, <2>2, <2>3 DEF Stopping
<1>4. ASSUME NEW m \in Monitors, Monitoring(m) PROVE PresentInv'
  <2>1. /\ UNCHANGED <<record, events, browsing, monitors, phase, raced>>
        /\ \A x \in Monitors : x # m => monitor'[x] = monitor[x]
        /\ monitor[m] # "ended" /\ monitor[m] # "unborn"
    BY <1>4 DEF Monitoring, Check, Found, NotFound, MonitorEnds, zcVars, callVars, TypeOK
  <2>2. LastEventStarts'
    BY <2>1 DEF PresentInv, LastEventStarts
  <2>3. ASSUME NEW x \in Names, record[x] # None, Bound(x), ~EventOf(x)
        PROVE  monitors[x] # None /\ monitor'[monitors[x]] # "ended"
    <3>1. monitors[x] # None /\ monitor[monitors[x]] # "ended"
      BY <2>3 DEF PresentInv, PresentHaveMonitor
    <3>2. monitors[x] \in Monitors /\ started[monitors[x]] = x
      BY <3>1, Registered
    <3>3. CASE monitors[x] = m
      <4>1. m \notin cancelled
        BY <2>3, <3>1, <3>3, EventIsHead DEF WatchInv, EndedAreTakenOut
      <4>2. monitor'[m] # "ended"
        BY <1>4, <2>3, <3>2, <3>3, <4>1
           DEF Monitoring, Check, Found, NotFound, MonitorEnds, Bound, TypeOK
      <4> QED
        BY <3>1, <3>3, <4>2
    <3>4. CASE monitors[x] # m
      BY <2>1, <3>1, <3>2, <3>4
    <3> QED
      BY <3>3, <3>4
  <2> QED
    BY <2>1, <2>2, <2>3 DEF PresentInv, PresentHaveMonitor, Bound, EventOf
<1>5. CASE TakeEvent \/ Show \/ Shown \/ Stop
  BY <1>1, <1>5 DEF TakeEvent, Show, Shown, Stop, zcVars, monVars, callVars, Bound
<1>6. CASE Closing
  BY <1>1, <1>6 DEF Closing, Joined, Close, CancelNext, SeenEnded, zcVars, monVars, callVars, Bound
<1>7. CASE UNCHANGED vars
  BY <1>1, <1>7 DEF vars, zcVars, monVars, callVars, Bound
<1> QED
  BY <1>2, <1>3, <1>4, <1>5, <1>6, <1>7 DEF Next

LEMMA PresentIsEnough == TypeOK /\ BooksInv /\ WatchInv /\ PresentInv => ServicesAreWatched
<1> SUFFICES ASSUME TypeOK, BooksInv, WatchInv, PresentInv, NEW n \in Names,
                    record[n] # None, ~EventOf(n), Bound(n)
             PROVE  monitors[n] \notin {None} \cup cancelled /\ monitor[monitors[n]] # "ended"
  BY DEF ServicesAreWatched, EventOf, Bound
<1>1. monitors[n] # None /\ monitor[monitors[n]] # "ended"
  BY DEF PresentInv, PresentHaveMonitor
<1>2. monitors[n] \notin cancelled
  BY <1>1, EventIsHead DEF WatchInv, EndedAreTakenOut
<1> QED
  BY <1>1, <1>2

LEMMA AlwaysPresentInv == Spec => [](TypeOK /\ BooksInv /\ WatchInv /\ PresentInv /\ ShownInv)
<1>1. Init => TypeOK /\ BooksInv /\ WatchInv /\ PresentInv /\ ShownInv
  <2>1. Init => PresentInv /\ ShownInv
    BY DEF Init, PresentInv, LastEventStarts, PresentHaveMonitor, ShownInv
  <2> QED
    BY <2>1, InitType, InitWatch
<1>2. TypeOK /\ BooksInv /\ WatchInv /\ PresentInv /\ ShownInv /\ [Next]_vars
      => (TypeOK /\ BooksInv /\ WatchInv /\ PresentInv /\ ShownInv)'
  BY ActionTypes, WatchStep, PresentStep, ShownStep
<1> QED
  BY <1>1, <1>2, PTL DEF Spec

\* A service that the network knows is watched by a monitor, or an event of it is
\* still to be seen to: no announcement is lost, unless a removal met another
\* monitor of the service.
THEOREM ServicesAlwaysWatched == Spec => []ServicesAreWatched
BY AlwaysPresentInv, PresentIsEnough, PTL

\* Nothing is under way but lookups that find what is in the table.
Settled ==
    /\ phase = "running" /\ browsing /\ events = <<>>
    /\ caller = "waiting" /\ ~changed
    /\ \A k \in Stoppers : stopper[k] = "idle"
    /\ \A m \in Monitors :
        monitor[m] \in {"checking", "looking"}
        => record[started[m]] # None /\ record[started[m]] = table[started[m]]

\* When discovery has come to rest, the table, and what the callback was shown of
\* it, is what the network says of each service, unless a removal met another
\* monitor of that service: whatever came, went and ran out before, in whatever
\* order events, lookups and removals met.
THEOREM SettledIsCurrent ==
    Spec => [](Settled => \A n \in Names : Current(n) \/ n \in raced)
<1>1. TypeOK /\ BooksInv /\ WatchInv /\ PresentInv /\ ShownInv
      => (Settled => \A n \in Names : Current(n) \/ n \in raced)
  <2> SUFFICES ASSUME TypeOK, BooksInv, WatchInv, PresentInv, ShownInv, Settled,
                      NEW n \in Names, n \notin raced
               PROVE  Current(n)
    OBVIOUS
  <2>1. shown = table
    BY DEF ShownInv, Settled
  <2>2. Bound(n) /\ ~EventOf(n)
    BY DEF Bound, Settled, EventOf
  <2>3. ASSUME record[n] # None \/ table[n] # None
        PROVE  record[n] # None /\ record[n] = table[n]
    <3>1. monitors[n] # None /\ monitor[monitors[n]] # "ended"
      <4>1. CASE record[n] # None
        BY <2>2, <4>1 DEF PresentInv, PresentHaveMonitor
      <4>2. CASE table[n] # None
        BY <2>2, <4>2 DEF WatchInv, EntriesHaveMonitor, EndedAreTakenOut, Settled
      <4> QED
        BY <2>3, <4>1, <4>2
    <3>2. /\ monitors[n] \in Monitors /\ started[monitors[n]] = n
          /\ monitor[monitors[n]] # "unborn"
      BY <3>1, Registered
    <3>3. monitor[monitors[n]] \in {"checking", "looking"}
      BY <3>1, <3>2 DEF TypeOK
    <3> QED
      BY <3>2, <3>3 DEF Settled
  <2>4. record[n] = table[n]
    BY <2>3
  <2> QED
    BY <2>1, <2>4 DEF Current
<1> QED
  BY <1>1, AlwaysPresentInv, PTL
=============================================================================
