--------------------------- MODULE NodeLifeProofs ---------------------------
(***************************************************************************)
(* For any topics, services, server providers and number of changes: a     *)
(* started node is announced with what it offers, the user's last word     *)
(* holds, stop() comes to every part and gets on, and chains of dependent  *)
(* topics come to rest awake.                                              *)
(***************************************************************************)
EXTENDS NodeLife, TLAPS

----------------------------------------------------------------------------
(* Type correctness                                                        *)

\* start() opens a server per provider at most, and stop() comes to one after the
\* other.
ServersCounted ==
    /\ starter = "idle" => opened = <<>> /\ provider = 1
    /\ starter = "servers" => Len(opened) < provider
    /\ Len(opened) <= Providers
    /\ at <= Len(opened) + 1

\* Nothing is started after stop().
StoppedIsLast ==
    /\ stopper # "idle" => state = "stopped"
    /\ state = "initialized" => starter = "idle"

LifeInv == TypeOK /\ ServersCounted /\ StoppedIsLast

LEMMA InitLife == Init => LifeInv
<1> SUFFICES ASSUME Init PROVE LifeInv
  OBVIOUS
<1>1. Unpublished \in Announcement
  BY DEF Unpublished, Announcement
<1>2. 1 \in Servers /\ 0 \in 0..MaxChanges
  BY NodeLifeAssumption DEF Servers
<1>3. /\ provider \in Servers /\ opened \in Seq(Servers) /\ late \in SUBSET Servers
      /\ server \in [Servers -> {"none", "open", "closed", "stuck"}]
      /\ at \in 1..(Providers + 1) /\ changes \in 0..MaxChanges
  BY <1>2, NodeLifeAssumption DEF Init
<1>4. /\ callbacks \in [Names -> Kinds] /\ word \in [Names -> Kinds \cup {"unclear"}]
      /\ pausing \in [Topics -> Nat] /\ waiters \in [Topics -> Nat]
  BY DEF Init, Kinds
<1>5. TypeOK
  BY <1>1, <1>3, <1>4 DEF Init, TypeOK, Parts
<1> QED
  BY <1>5, NodeLifeAssumption DEF Init, LifeInv, ServersCounted, StoppedIsLast

LEMMA SpecType == ASSUME NEW c \in [Names -> Kinds], NEW o \in Seq(Servers)
                  PROVE  NodeSpec(c, o) \in Announcement
BY DEF NodeSpec, Announcement, Elems

\* What a provider is followed by.
LEMMA AfterProviderType ==
    ASSUME LifeInv, starter = "servers", NEW o \in Seq(Servers), AfterProvider(o),
           Len(o) <= provider
    PROVE  /\ provider' \in Servers
           /\ starter' \in {"servers", "registering", "failed"}
           /\ spec' \in Announcement
           /\ Len(o) <= Providers
           /\ starter' = "servers" => Len(o) < provider'
<1>1. provider \in Servers /\ spec \in Announcement /\ callbacks \in [Names -> Kinds]
  BY DEF LifeInv, TypeOK
<1>2. CASE provider < Providers
  BY <1>1, <1>2, NodeLifeAssumption DEF AfterProvider, Servers
<1>3. CASE provider = Providers
  BY <1>1, <1>3, SpecType, NodeLifeAssumption DEF AfterProvider, Servers
<1> QED
  BY <1>1, <1>2, <1>3, NodeLifeAssumption DEF Servers

LEMMA StartingLife == ASSUME LifeInv, Start \/ Starting PROVE LifeInv'
<1>1. CASE Start
  BY <1>1, NodeLifeAssumption
     DEF Start, LifeInv, TypeOK, ServersCounted, StoppedIsLast, userVars, meshVars
<1>2. CASE ServerStarts
  <2>1. opened' \in Seq(Servers) /\ Len(opened') = Len(opened) + 1 /\ Len(opened) \in Nat
    BY <1>2 DEF ServerStarts, LifeInv, TypeOK
  <2>2. Len(opened') <= provider
    BY <1>2, <2>1, NodeLifeAssumption DEF ServerStarts, LifeInv, ServersCounted, TypeOK, Servers
  <2>3. AfterProvider(opened') /\ starter = "servers"
    BY <1>2 DEF ServerStarts
  <2>4. /\ provider' \in Servers
        /\ starter' \in {"servers", "registering", "failed"}
        /\ spec' \in Announcement
        /\ Len(opened') <= Providers
        /\ starter' = "servers" => Len(opened') < provider'
    BY <2>1, <2>2, <2>3, AfterProviderType
  <2>5. /\ server' \in [Servers -> {"none", "open", "closed", "stuck"}]
        /\ late' \in SUBSET Servers
    BY <1>2 DEF ServerStarts, LifeInv, TypeOK
  <2>6. TypeOK'
    BY <1>2, <2>1, <2>4, <2>5 DEF ServerStarts, LifeInv, TypeOK, userVars, meshVars
  <2>7. ServersCounted'
    BY <1>2, <2>1, <2>4, NodeLifeAssumption DEF ServerStarts, LifeInv, TypeOK, ServersCounted
  <2> QED
    BY <1>2, <2>6, <2>7 DEF ServerStarts, LifeInv, StoppedIsLast
<1>3. CASE ServerUnsupported
  <2>1. opened \in Seq(Servers) /\ Len(opened) \in Nat /\ Len(opened) <= provider
    BY <1>3, NodeLifeAssumption
       DEF ServerUnsupported, LifeInv, ServersCounted, TypeOK, Servers
  <2>2. AfterProvider(opened) /\ starter = "servers"
    BY <1>3 DEF ServerUnsupported
  <2>3. /\ provider' \in Servers
        /\ starter' \in {"servers", "registering", "failed"}
        /\ spec' \in Announcement
        /\ starter' = "servers" => Len(opened) < provider'
    BY <2>1, <2>2, AfterProviderType
  <2> QED
    BY <1>3, <2>3
       DEF ServerUnsupported, LifeInv, TypeOK, ServersCounted, StoppedIsLast, userVars, meshVars
<1>4. CASE ServerFails
  BY <1>4 DEF ServerFails, LifeInv, TypeOK, ServersCounted, StoppedIsLast, userVars, meshVars
<1>5. CASE Registered
  BY <1>5 DEF Registered, LifeInv, TypeOK, ServersCounted, StoppedIsLast, userVars, meshVars
<1> QED
  BY <1>1, <1>2, <1>3, <1>4, <1>5 DEF Starting

LEMMA StoppingLife ==
    ASSUME LifeInv, Stop \/ Stopping \/ StopCancelled \/ CloseCancelled
    PROVE  LifeInv'
<1> USE DEF LifeInv, TypeOK, ServersCounted, StoppedIsLast, userVars, meshVars
<1>1. CASE Stop
  BY <1>1 DEF Stop, Parts
<1>2. CASE PartStops
  BY <1>2 DEF PartStops, NextPart, After, Parts, Unpublished, Announcement
<1>3. CASE PartFails
  BY <1>3 DEF PartFails, NextPart, After, Parts
<1>4. CASE StopCancelled
  BY <1>4 DEF StopCancelled, Parts
<1>5. CASE ServerCloses
  <2>1. at \in 1..Len(opened) /\ opened[at] \in Servers /\ Len(opened) \in Nat
    BY <1>5 DEF ServerCloses
  <2>2. server' \in [Servers -> {"none", "open", "closed", "stuck"}]
    BY <1>5, <2>1 DEF ServerCloses
  <2>3. at' \in 1..(Providers + 1) /\ at' <= Len(opened) + 1
    BY <1>5, <2>1, NodeLifeAssumption DEF ServerCloses
  <2> QED
    BY <1>5, <2>2, <2>3 DEF ServerCloses
<1>6. CASE StopEnds
  BY <1>6 DEF StopEnds
<1>7. CASE CloseCancelled
  <2>1. opened[at] \in Servers
    BY <1>7 DEF CloseCancelled
  <2> QED
    BY <1>7, <2>1 DEF CloseCancelled
<1> QED
  BY <1>1, <1>2, <1>3, <1>4, <1>5, <1>6, <1>7 DEF Stopping

\* What users and the mesh do.
UserStep ==
    \/ \E t \in Topics : Listen(t, "plain") \/ Listen(t, "wrapped")
    \/ \E t \in Topics : StopListening(t)
    \/ \E s \in Services : AddService(s) \/ RemoveService(s)
    \/ \E t \in Topics : Pause(t) \/ PauseEnds(t) \/ Resume(t)
    \/ SeeOwn \/ SeeOthers

LEMMA RegisterType ==
    ASSUME LifeInv, NEW c \in [Names -> Kinds], Register(c)
    PROVE  callbacks' \in [Names -> Kinds] /\ published' \in Announcement
BY SpecType DEF Register, UpdateNode, LifeInv, TypeOK

LEMMA UserLife == ASSUME LifeInv, UserStep PROVE LifeInv'
<1> USE DEF ServersCounted, StoppedIsLast, lifeVars, meshVars
<1>1. ASSUME NEW n \in Names, NEW kind \in {"plain", "wrapped"}, Listen(n, kind)
      PROVE  LifeInv'
  <2>1. [callbacks EXCEPT ![n] = kind] \in [Names -> Kinds]
    BY DEF LifeInv, TypeOK, Kinds
  <2>2. callbacks' \in [Names -> Kinds] /\ published' \in Announcement
    BY <1>1, <2>1, RegisterType DEF Listen
  <2>3. word' \in [Names -> Kinds \cup {"unclear"}] /\ changes' \in 0..MaxChanges
    BY <1>1, NodeLifeAssumption DEF Listen, Say, LifeInv, TypeOK, Kinds
  <2> QED
    BY <1>1, <2>2, <2>3 DEF Listen, LifeInv, TypeOK
<1>2. ASSUME NEW n \in Names, StopListening(n) PROVE LifeInv'
  <2>1. [callbacks EXCEPT ![n] = "none"] \in [Names -> Kinds]
    BY DEF LifeInv, TypeOK, Kinds
  <2>2. callbacks' \in [Names -> Kinds] /\ published' \in Announcement
    BY <1>2, <2>1, RegisterType DEF StopListening, LifeInv, TypeOK
  <2>3. word' \in [Names -> Kinds \cup {"unclear"}] /\ changes' \in 0..MaxChanges
    BY <1>2, NodeLifeAssumption DEF StopListening, Say, LifeInv, TypeOK, Kinds
  <2> QED
    BY <1>2, <2>2, <2>3 DEF StopListening, LifeInv, TypeOK
<1>3. ASSUME NEW t \in Topics, Pause(t) PROVE LifeInv'
  <2>1. [callbacks EXCEPT ![t] = "none"] \in [Names -> Kinds]
    BY DEF LifeInv, TypeOK, Kinds
  <2>2. callbacks' \in [Names -> Kinds] /\ published' \in Announcement
    BY <1>3, <2>1, RegisterType DEF Pause
  <2> QED
    BY <1>3, <2>2 DEF Pause, LifeInv, TypeOK
<1>4. ASSUME NEW t \in Topics, PauseEnds(t) PROVE LifeInv'
  BY <1>4 DEF PauseEnds, LifeInv, TypeOK
<1>5. ASSUME NEW t \in Topics, Resume(t) PROVE LifeInv'
  <2>1. [callbacks EXCEPT ![t] = "wrapped"] \in [Names -> Kinds]
    BY DEF LifeInv, TypeOK, Kinds
  <2>2. callbacks' \in [Names -> Kinds] /\ published' \in Announcement
    BY <1>5, <2>1, RegisterType DEF Resume
  <2> QED
    BY <1>5, <2>2 DEF Resume, LifeInv, TypeOK
<1>6. CASE SeeOwn
  BY <1>6 DEF SeeOwn, LifeInv, TypeOK, userVars
<1>7. CASE SeeOthers
  BY <1>7, NodeLifeAssumption DEF SeeOthers, LifeInv, TypeOK, userVars
<1> QED
  BY <1>1, <1>2, <1>3, <1>4, <1>5, <1>6, <1>7 DEF UserStep, AddService, RemoveService, Names

LEMMA NextSplits ==
    Next <=> \/ Start \/ Starting
             \/ Stop \/ Stopping \/ StopCancelled \/ CloseCancelled
             \/ UserStep
BY DEF Next, UserStep

LEMMA LifeStep == ASSUME LifeInv, [Next]_vars PROVE LifeInv'
<1>1. CASE UNCHANGED vars
  BY <1>1 DEF vars, lifeVars, userVars, meshVars, LifeInv, TypeOK, ServersCounted, StoppedIsLast
<1> QED
  BY <1>1, NextSplits, StartingLife, StoppingLife, UserLife

\* Type correctness for any number of providers and changes; there is at most one
\* server for each provider.
THEOREM TypeCorrect == Spec => []TypeOK
<1>1. LifeInv /\ [Next]_vars => LifeInv'
  BY LifeStep
<1>2. LifeInv => TypeOK
  BY DEF LifeInv
<1> QED
  BY InitLife, <1>1, <1>2, PTL DEF Spec

----------------------------------------------------------------------------
(* What is announced                                                       *)

\* What start() is about to register is what the node is, unless an update has
\* announced the node meanwhile.
AdvertInv ==
    /\ starter = "registering" /\ "zeroconf" \in alive /\ ~published.known =>
           spec = NodeSpec(callbacks, opened)
    /\ starter = "done" /\ "zeroconf" \in alive => published = NodeSpec(callbacks, opened)

LEMMA RegisterAdvert ==
    ASSUME AdvertInv, NEW c, Register(c), UNCHANGED lifeVars
    PROVE  AdvertInv'
BY DEF Register, UpdateNode, NodeSpec, AdvertInv, lifeVars

LEMMA AdvertStep == ASSUME LifeInv, AdvertInv, [Next]_vars PROVE AdvertInv'
<1>1. CASE Start
  BY <1>1 DEF Start, AdvertInv
<1>2. CASE Starting
  <2>1. CASE ServerStarts
    BY <2>1 DEF ServerStarts, AfterProvider, NodeSpec, AdvertInv, userVars
  <2>2. CASE ServerUnsupported
    BY <2>2 DEF ServerUnsupported, AfterProvider, NodeSpec, AdvertInv, userVars
  <2>3. CASE ServerFails
    BY <2>3 DEF ServerFails, AdvertInv
  <2>4. CASE Registered
    BY <2>4 DEF Registered, NodeSpec, AdvertInv, userVars
  <2> QED
    BY <1>2, <2>1, <2>2, <2>3, <2>4 DEF Starting
<1>3. CASE Stop \/ Stopping \/ StopCancelled \/ CloseCancelled
  BY <1>3 DEF Stop, Stopping, PartStops, PartFails, ServerCloses, StopEnds, StopCancelled,
              CloseCancelled, NodeSpec, AdvertInv, userVars
<1>4. CASE UserStep
  <2>1. ASSUME NEW n \in Names, NEW kind, Listen(n, kind) PROVE AdvertInv'
    BY <2>1, RegisterAdvert DEF Listen
  <2>2. ASSUME NEW n \in Names, StopListening(n) PROVE AdvertInv'
    <3>1. CASE callbacks[n] = "none"
      BY <2>2, <3>1 DEF StopListening, NodeSpec, AdvertInv, lifeVars
    <3>2. CASE callbacks[n] # "none"
      BY <2>2, <3>2, RegisterAdvert DEF StopListening
    <3> QED
      BY <3>1, <3>2
  <2>3. ASSUME NEW t \in Topics, Pause(t) \/ Resume(t) PROVE AdvertInv'
    BY <2>3, RegisterAdvert DEF Pause, Resume
  <2>4. ASSUME NEW t \in Topics, PauseEnds(t) PROVE AdvertInv'
    BY <2>4 DEF PauseEnds, NodeSpec, AdvertInv, lifeVars
  <2>5. CASE SeeOwn \/ SeeOthers
    BY <2>5 DEF SeeOwn, SeeOthers, NodeSpec, AdvertInv, lifeVars, userVars
  <2> QED
    BY <1>4, <2>1, <2>2, <2>3, <2>4, <2>5 DEF UserStep, AddService, RemoveService, Names
<1>5. CASE UNCHANGED vars
  BY <1>5 DEF vars, lifeVars, userVars, NodeSpec, AdvertInv
<1> QED
  BY <1>1, <1>2, <1>3, <1>4, <1>5, NextSplits

\* Once start() has returned, the node is announced with what it offers, however
\* the user's calls met with it.
THEOREM AlwaysAdvertises == Spec => []AdvertisesWhatItOffers
<1>1. Init => LifeInv /\ AdvertInv
  BY InitLife DEF Init, AdvertInv
<1>2. LifeInv /\ AdvertInv /\ [Next]_vars => (LifeInv /\ AdvertInv)'
  BY LifeStep, AdvertStep
<1>3. AdvertInv => AdvertisesWhatItOffers
  BY DEF AdvertInv, AdvertisesWhatItOffers
<1> QED
  BY <1>1, <1>2, <1>3, PTL DEF Spec

----------------------------------------------------------------------------
(* What the user said last                                                 *)

\* Only a callback of depends_on_listener() is ever out of the way.
WordInv ==
    /\ LastWordHolds
    /\ \A t \in Topics : Pending(t) => word[t] \in {"unclear", "wrapped"}

LEMMA SayWord ==
    ASSUME LifeInv, WordInv, NEW n \in Names, NEW kind \in Kinds, Say(n, kind),
           callbacks' = [callbacks EXCEPT ![n] = kind], UNCHANGED <<pausing, waiters>>
    PROVE  WordInv'
<1>1. \A m \in Names : Pending(m)' = Pending(m)
  BY DEF Pending
<1>2. /\ callbacks \in [Names -> Kinds] /\ word \in [Names -> Kinds \cup {"unclear"}]
      /\ word' = [word EXCEPT ![n] = IF Pending(n) THEN "unclear" ELSE kind]
  BY DEF Say, LifeInv, TypeOK
<1>3. LastWordHolds'
  BY <1>1, <1>2 DEF WordInv, LastWordHolds
<1>4. \A t \in Topics : Pending(t)' => word'[t] \in {"unclear", "wrapped"}
  BY <1>1, <1>2 DEF WordInv, Names
<1> QED
  BY <1>3, <1>4 DEF WordInv

LEMMA WordStep == ASSUME LifeInv, WordInv, [Next]_vars PROVE WordInv'
<1>1. CASE UNCHANGED userVars
  BY <1>1 DEF userVars, WordInv, LastWordHolds, Pending
<1>2. CASE Start \/ Starting \/ Stop \/ Stopping \/ StopCancelled \/ CloseCancelled
  <2>1. UNCHANGED userVars
    BY <1>2 DEF Start, Starting, ServerStarts, ServerUnsupported, ServerFails, Registered, Stop,
                Stopping, PartStops, PartFails, ServerCloses, StopEnds, StopCancelled,
                CloseCancelled
  <2> QED
    BY <1>1, <2>1
<1>3. ASSUME NEW n \in Names, NEW kind \in Kinds, Listen(n, kind) PROVE WordInv'
  BY <1>3, SayWord DEF Listen, Register
<1>4. ASSUME NEW n \in Names, StopListening(n) PROVE WordInv'
  <2>1. callbacks' = [callbacks EXCEPT ![n] = "none"]
    BY <1>4 DEF StopListening, Register, LifeInv, TypeOK
  <2> QED
    BY <1>4, <2>1, SayWord DEF StopListening, Kinds
<1>5. ASSUME NEW t \in Topics, Pause(t) PROVE WordInv'
  <2>1. /\ t \in Names /\ callbacks[t] = "wrapped" /\ word' = word /\ waiters' = waiters
        /\ callbacks' = [callbacks EXCEPT ![t] = "none"]
        /\ pausing' = [pausing EXCEPT ![t] = @ + 1]
        /\ pausing \in [Topics -> Nat] /\ callbacks \in [Names -> Kinds]
    BY <1>5 DEF Pause, Register, Names, LifeInv, TypeOK
  <2>2. word[t] \in {"unclear", "wrapped"}
    BY <2>1 DEF WordInv, LastWordHolds
  <2>3. Pending(t)' /\ \A n \in Names : n # t => Pending(n)' = Pending(n)
    BY <2>1 DEF Pending
  <2>4. LastWordHolds'
    BY <2>1, <2>2, <2>3 DEF WordInv, LastWordHolds
  <2>5. \A u \in Topics : Pending(u)' => word'[u] \in {"unclear", "wrapped"}
    BY <2>1, <2>2, <2>3 DEF WordInv, Names
  <2> QED
    BY <2>4, <2>5 DEF WordInv
<1>6. ASSUME NEW t \in Topics, PauseEnds(t) PROVE WordInv'
  <2>1. \A n \in Names : Pending(n)' = Pending(n)
    BY <1>6 DEF PauseEnds, Pending, LifeInv, TypeOK
  <2> QED
    BY <1>6, <2>1 DEF PauseEnds, WordInv, LastWordHolds, Names
<1>7. ASSUME NEW t \in Topics, Resume(t) PROVE WordInv'
  <2>1. /\ t \in Names /\ Pending(t) /\ word' = word /\ pausing' = pausing
        /\ callbacks' = [callbacks EXCEPT ![t] = "wrapped"]
        /\ waiters' = [waiters EXCEPT ![t] = @ - 1]
        /\ callbacks \in [Names -> Kinds]
    BY <1>7 DEF Resume, Register, Names, Pending, LifeInv, TypeOK
  <2>2. word[t] \in {"unclear", "wrapped"}
    BY <2>1 DEF WordInv
  <2>3. \A n \in Names : n # t => Pending(n)' = Pending(n)
    BY <2>1 DEF Pending, LifeInv, TypeOK
  <2>4. LastWordHolds'
    BY <2>1, <2>2, <2>3 DEF WordInv, LastWordHolds
  <2>5. \A u \in Topics : Pending(u)' => word'[u] \in {"unclear", "wrapped"}
    BY <2>1, <2>2, <2>3 DEF WordInv, Names
  <2> QED
    BY <2>4, <2>5 DEF WordInv
<1>8. CASE SeeOwn \/ SeeOthers
  BY <1>1, <1>8 DEF SeeOwn, SeeOthers
<1>9. CASE UserStep
  BY <1>3, <1>4, <1>5, <1>6, <1>7, <1>8, <1>9
     DEF UserStep, AddService, RemoveService, Names, Kinds
<1> QED
  BY <1>1, <1>2, <1>9, NextSplits DEF vars

\* What the user said last of a topic or service holds, or a callback of
\* depends_on_listener() waits to listen again.
THEOREM LastWordAlwaysHolds == Spec => []LastWordHolds
<1>1. Init => LifeInv /\ WordInv
  BY InitLife DEF Init, WordInv, LastWordHolds, Pending
<1>2. LifeInv /\ WordInv /\ [Next]_vars => (LifeInv /\ WordInv)'
  BY LifeStep, WordStep
<1>3. WordInv => LastWordHolds
  BY DEF WordInv
<1> QED
  BY <1>1, <1>2, <1>3, PTL DEF Spec

----------------------------------------------------------------------------
(* stop() comes to all                                                     *)

\* The parts of discovery that stop() has left behind when it is at s.
Passed(s) ==
    CASE s \in {"idle", "caller"} -> {}
      [] s = "browser" -> {"caller"}
      [] s = "monitors" -> {"caller", "browser"}
      [] s = "zeroconf" -> {"caller", "browser", "monitors"}
      [] OTHER -> Parts

\* What stop() has passed has stopped or is among the errors, and a server that is
\* open is still before it.
StopInv ==
    ~cancelled =>
        /\ alive \cap Passed(stopper) \subseteq errors
        /\ \A p \in Servers : server[p] = "open" =>
                \/ p \in late
                \/ ~Stopped /\ \E i \in DOMAIN opened : i >= at /\ opened[i] = p

LEMMA StopStep == ASSUME LifeInv, StopInv, [Next]_vars PROVE StopInv'
<1> SUFFICES ASSUME ~cancelled' PROVE StopInv'
  BY DEF StopInv
<1>1. CASE UNCHANGED lifeVars
  BY <1>1 DEF lifeVars, StopInv, Stopped
<1>2. CASE Start
  <2>1. stopper = "idle"
    BY <1>2 DEF Start, LifeInv, StoppedIsLast
  <2>2. Passed(stopper') = {}
    BY <1>2, <2>1 DEF Start, Passed
  <2> QED
    BY <1>2, <2>2 DEF Start, StopInv, Stopped
<1>3. CASE ServerStarts
  <2> DEFINE new == Len(opened) + 1
  <2>1. /\ opened' = Append(opened, provider) /\ opened \in Seq(Servers)
        /\ provider \in Servers /\ server' = [server EXCEPT ![provider] = "open"]
        /\ UNCHANGED <<stopper, at, alive, errors, cancelled>>
        /\ at \in Nat /\ at <= new
    BY <1>3 DEF ServerStarts, LifeInv, TypeOK, ServersCounted
  <2>2. /\ new \in DOMAIN opened' /\ opened'[new] = provider
        /\ \A i \in DOMAIN opened : i \in DOMAIN opened' /\ opened'[i] = opened[i]
    BY <2>1
  <2>3. late' = IF Stopped THEN late \cup {provider} ELSE late
    BY <1>3 DEF ServerStarts
  <2>4. ASSUME NEW p \in Servers, server'[p] = "open"
        PROVE  \/ p \in late'
               \/ ~Stopped' /\ \E i \in DOMAIN opened' : i >= at' /\ opened'[i] = p
    <3>1. CASE p = provider
      BY <2>1, <2>2, <2>3, <3>1 DEF Stopped
    <3>2. CASE p # provider
      <4>1. server[p] = "open"
        BY <2>1, <2>4, <3>2 DEF LifeInv, TypeOK
      <4> QED
        BY <2>1, <2>2, <2>3, <4>1 DEF StopInv, Stopped
    <3> QED
      BY <3>1, <3>2
  <2> QED
    BY <2>1, <2>4 DEF StopInv
<1>4. CASE ServerUnsupported \/ ServerFails \/ Registered
  BY <1>4 DEF ServerUnsupported, ServerFails, Registered, StopInv, Stopped
<1>5. CASE Stop
  <2>1. stopper = "idle" \/ stopper # "idle"
    OBVIOUS
  <2>2. stopper = "idle" /\ stopper' = "caller"
    BY <1>5, <2>1 DEF Stop, LifeInv, StoppedIsLast
  <2> QED
    BY <1>5, <2>2 DEF Stop, StopInv, Stopped, Passed
<1>6. CASE PartStops
  <2>1. stopper \in Parts /\ stopper' = After[stopper] /\ alive' = alive \ {stopper}
        /\ (stopper \in alive \/ stopper = "monitors")
        /\ UNCHANGED <<errors, cancelled, server, opened, at, late>>
    BY <1>6 DEF PartStops, NextPart
  <2>2. Passed(stopper') = Passed(stopper) \cup {stopper}
    BY <2>1 DEF Passed, After, Parts
  <2>3. ~Stopped /\ ~Stopped'
    BY <2>1 DEF Stopped, After, Parts
  <2> QED
    BY <2>1, <2>2, <2>3 DEF StopInv
<1>7. CASE PartFails
  <2>1. stopper \in Parts /\ stopper' = After[stopper] /\ errors' = errors \cup {stopper}
        /\ UNCHANGED <<alive, cancelled, server, opened, at, late>>
    BY <1>7, NodeLifeAssumption DEF PartFails, NextPart, Parts
  <2>2. Passed(stopper') = Passed(stopper) \cup {stopper}
    BY <2>1 DEF Passed, After, Parts
  <2>3. ~Stopped /\ ~Stopped'
    BY <2>1 DEF Stopped, After, Parts
  <2> QED
    BY <2>1, <2>2, <2>3 DEF StopInv
<1>8. CASE ServerCloses
  <2>1. /\ stopper = "servers" /\ stopper' = stopper
        /\ at \in DOMAIN opened /\ at' = at + 1 /\ at \in Nat
        /\ opened[at] \in Servers /\ DOMAIN opened \subseteq Nat
        /\ server'[opened[at]] # "open"
        /\ \A p \in Servers : p # opened[at] => server'[p] = server[p]
        /\ UNCHANGED <<alive, errors, cancelled, opened, late>>
    BY <1>8 DEF ServerCloses, LifeInv, TypeOK
  <2>2. ASSUME NEW p \in Servers, server'[p] = "open"
        PROVE  p \in late \/ \E i \in DOMAIN opened : i >= at + 1 /\ opened[i] = p
    <3>1. p # opened[at] /\ server[p] = "open"
      BY <2>1, <2>2
    <3>2. p \in late \/ \E i \in DOMAIN opened : i >= at /\ opened[i] = p
      BY <2>1, <3>1 DEF StopInv
    <3> QED
      BY <2>1, <3>1, <3>2
  <2> QED
    BY <2>1, <2>2 DEF StopInv, Stopped
<1>9. CASE StopEnds
  <2>1. /\ stopper = "servers" /\ stopper' \in {"done", "failed"}
        /\ at \notin DOMAIN opened /\ at \in Nat \ {0} /\ opened \in Seq(Servers)
        /\ UNCHANGED <<alive, errors, cancelled, opened, server, at, late>>
    BY <1>9 DEF StopEnds, LifeInv, TypeOK
  <2>2. ~ \E i \in DOMAIN opened : i >= at
    BY <2>1
  <2>3. Passed(stopper') = Passed(stopper)
    BY <2>1 DEF Passed
  <2> QED
    BY <2>1, <2>2, <2>3 DEF StopInv
<1>10. CASE StopCancelled \/ CloseCancelled
  BY <1>10 DEF StopCancelled, CloseCancelled
<1>11. CASE UserStep
  BY <1>1, <1>11 DEF UserStep, Listen, StopListening, AddService, RemoveService, Pause, PauseEnds,
                     Resume, SeeOwn, SeeOthers
<1> QED
  BY <1>1, <1>2, <1>3, <1>4, <1>5, <1>6, <1>7, <1>8, <1>9, <1>10, <1>11, NextSplits
     DEF Starting, Stopping, vars

\* However stop() ends, it came to every part and every server, unless it was
\* cancelled.
THEOREM StopAlwaysComesToAll == Spec => []StopComesToAll
<1>1. Init => LifeInv /\ StopInv
  BY InitLife DEF Init, StopInv, Passed
<1>2. LifeInv /\ StopInv /\ [Next]_vars => (LifeInv /\ StopInv)'
  BY LifeStep, StopStep
<1>3. LifeInv /\ StopInv => StopComesToAll
  <2> SUFFICES ASSUME LifeInv, StopInv, Stopped, ~cancelled
               PROVE  /\ alive \subseteq errors
                      /\ \A p \in Servers : server[p] = "open" => p \in late
    BY DEF StopComesToAll
  <2>1. Passed(stopper) = Parts
    BY DEF Stopped, Passed
  <2> QED
    BY <2>1 DEF StopInv, LifeInv, TypeOK
<1> QED
  BY <1>1, <1>2, <1>3, PTL DEF Spec

----------------------------------------------------------------------------
(* stop() gets on                                                          *)

\* A node that started has all of discovery, and zeroconf is closed last.
PartsInv ==
    /\ state = "started" => alive = Parts
    /\ stopper \in Parts \cup {"idle"} => "zeroconf" \in alive

LEMMA PartsStep == ASSUME LifeInv, PartsInv, [Next]_vars PROVE PartsInv'
<1>1. CASE Start
  BY <1>1 DEF Start, PartsInv, Parts
<1>2. CASE Starting
  BY <1>2 DEF Starting, ServerStarts, ServerUnsupported, ServerFails, Registered, PartsInv
<1>3. CASE Stop
  BY <1>3 DEF Stop, PartsInv, LifeInv, StoppedIsLast
<1>4. CASE PartStops
  BY <1>4 DEF PartStops, NextPart, After, Parts, PartsInv, LifeInv, StoppedIsLast
<1>5. CASE PartFails
  BY <1>5 DEF PartFails, NextPart, After, Parts, PartsInv, LifeInv, TypeOK
<1>6. CASE ServerCloses \/ StopEnds \/ StopCancelled \/ CloseCancelled
  BY <1>6 DEF ServerCloses, StopEnds, StopCancelled, CloseCancelled, Parts, PartsInv
<1>7. CASE UserStep \/ UNCHANGED vars
  BY <1>7 DEF UserStep, Listen, StopListening, AddService, RemoveService, Pause, PauseEnds,
              Resume, SeeOwn, SeeOthers, vars, lifeVars, PartsInv
<1> QED
  BY <1>1, <1>2, <1>3, <1>4, <1>5, <1>6, <1>7, NextSplits DEF Stopping

LEMMA PartsInvariance == Spec => [](LifeInv /\ PartsInv)
<1>1. Init => LifeInv /\ PartsInv
  BY InitLife DEF Init, PartsInv, Parts
<1>2. LifeInv /\ PartsInv /\ [Next]_vars => (LifeInv /\ PartsInv)'
  BY LifeStep, PartsStep
<1> QED
  BY <1>1, <1>2, PTL DEF Spec

\* Wherever stop() is, it can take a step.
THEOREM StopAlwaysCanGoOn == Spec => []StopCanGoOn
<1>1. LifeInv /\ PartsInv => StopCanGoOn
  <2> SUFFICES ASSUME LifeInv, PartsInv PROVE StopCanGoOn
    OBVIOUS
  <2>1. stopper \in Parts => \/ stopper \in alive \cup {"monitors"}
                            \/ stopper \in {"caller", "browser"}
    BY DEF PartsInv, Parts
  <2>2. at \in Nat \ {0} /\ Len(opened) \in Nat /\ at <= Len(opened) + 1
        /\ DOMAIN opened = 1..Len(opened)
    BY DEF LifeInv, TypeOK, ServersCounted
  <2> QED
    BY <2>1, <2>2 DEF StopCanGoOn
<1> QED
  BY PartsInvariance, <1>1, PTL

\* There is never more to stop than there was, whatever start() and the user do
\* meanwhile, and each step of stop() leaves less: it ends after no more steps than
\* there are parts and servers.
THEOREM StopAlwaysMovesOn == Spec => StopMovesOn
<1> DEFINE left == [idle |-> 6, caller |-> 5, browser |-> 4, monitors |-> 3, zeroconf |-> 2,
                    servers |-> 1, done |-> 0, failed |-> 0]
<1>1. LifeInv /\ LifeInv' /\ [Next]_vars
      => [/\ StepsLeft' <= StepsLeft
          /\ Stopping \/ StopCancelled \/ CloseCancelled => StepsLeft' < StepsLeft]_vars
  <2> SUFFICES ASSUME LifeInv, LifeInv', Next
               PROVE  /\ StepsLeft' <= StepsLeft
                      /\ Stopping \/ StopCancelled \/ CloseCancelled => StepsLeft' < StepsLeft
    BY DEF vars
  <2>1. /\ stopper \in DOMAIN left /\ stopper' \in DOMAIN left
        /\ at \in Nat /\ at' \in Nat /\ Providers \in Nat
    BY NodeLifeAssumption DEF LifeInv, TypeOK, Parts
  <2>2. /\ StepsLeft = left[stopper] + (Providers + 1 - at)
        /\ StepsLeft' = left[stopper'] + (Providers + 1 - at')
    BY DEF StepsLeft
  <2>3. left[stopper] \in Int /\ left[stopper'] \in Int
    BY <2>1
  <2>4. CASE Stopping \/ StopCancelled \/ CloseCancelled
    <3>1. CASE PartStops \/ PartFails
      <4>1. stopper \in Parts /\ stopper' = After[stopper] /\ at' = at
        BY <3>1 DEF PartStops, PartFails, NextPart, LifeInv, TypeOK, Parts
      <4>2. left[stopper'] < left[stopper]
        BY <4>1 DEF After, Parts
      <4> HIDE DEF left
      <4> QED
        BY <2>1, <2>2, <2>3, <4>1, <4>2
    <3>2. CASE ServerCloses
      <4>1. stopper' = stopper /\ at' = at + 1
        BY <3>2 DEF ServerCloses
      <4> HIDE DEF left
      <4> QED
        BY <2>1, <2>2, <2>3, <4>1
    <3>3. CASE StopEnds \/ StopCancelled \/ CloseCancelled
      <4>1. /\ at' = at
            /\ \/ stopper \in Parts /\ stopper' = "servers"
               \/ stopper = "servers" /\ stopper' \in {"done", "failed"}
        BY <3>3 DEF StopEnds, StopCancelled, CloseCancelled
      <4>2. left[stopper'] < left[stopper]
        BY <4>1 DEF Parts
      <4> HIDE DEF left
      <4> QED
        BY <2>1, <2>2, <2>3, <4>1, <4>2
    <3>4. StepsLeft' < StepsLeft /\ StepsLeft \in Int /\ StepsLeft' \in Int
      <4> HIDE DEF left
      <4> QED
        BY <2>1, <2>2, <2>3, <2>4, <3>1, <3>2, <3>3 DEF Stopping
    <3> QED
      BY <3>4
  <2>5. CASE ~(Stopping \/ StopCancelled \/ CloseCancelled)
    <3>1. CASE Stop
      <4>1. stopper = "idle" /\ stopper' = "caller" /\ at' = at
        BY <3>1 DEF Stop, LifeInv, StoppedIsLast
      <4> QED
        BY <2>1, <2>2, <2>5, <4>1
    <3>2. CASE Start \/ Starting \/ UserStep
      <4>1. stopper' = stopper /\ at' = at
        BY <3>2 DEF Start, Starting, ServerStarts, ServerUnsupported, ServerFails, Registered,
           UserStep, Listen, StopListening, AddService, RemoveService, Pause, PauseEnds, Resume,
           SeeOwn, SeeOthers, lifeVars
      <4> HIDE DEF left
      <4> QED
        BY <2>1, <2>2, <2>3, <2>5, <4>1
    <3> QED
      BY <2>5, <3>1, <3>2, NextSplits
  <2> QED
    BY <2>4, <2>5
<1>2. Spec => []LifeInv
  BY PartsInvariance, PTL
<1> QED
  BY <1>1, <1>2, PTL DEF Spec, StopMovesOn

----------------------------------------------------------------------------
(* Chains of topics                                                        *)

\* Where discovery and the callbacks have nothing left to do, no callback waits for
\* a topic that is certain to be listened to: what this node would listen to again
\* it does, what it listens to is announced, and what is announced it has seen.
THEOREM NobodyEverWaitsInVain == Spec => []NobodyWaitsInVain
<1>1. /\ LifeInv /\ PartsInv /\ LastWordHolds /\ AdvertisesWhatItOffers
      => NobodyWaitsInVain
  <2> SUFFICES ASSUME LifeInv, PartsInv, LastWordHolds, AdvertisesWhatItOffers,
                      state = "started", starter = "done", Settled,
                      NEW t \in Topics, Grounded(t), waiters[t] # 0
               PROVE  FALSE
    BY DEF NobodyWaitsInVain
  <2> DEFINE d == Needs[t]
  <2>1. d \in Topics /\ d \in Names
    BY NodeLifeAssumption DEF Names
  <2>2. ~HasListeners(d)
    BY DEF Settled, LifeInv, TypeOK
  <2>3. /\ word[d] \in {"plain", "wrapped"}
        /\ Needs[d] \in elsewhere
    BY <2>2 DEF Grounded, HasListeners
  \* If d's callback waited, it would find the listener elsewhere.
  <2>4. ~Pending(d)
    <3>1. HasListeners(Needs[d])
      BY <2>3 DEF HasListeners
    <3> QED
      BY <2>1, <3>1 DEF Pending, Settled
  <2>5. callbacks[d] # "none"
    BY <2>1, <2>3, <2>4 DEF LastWordHolds
  <2>6. alive = Parts
    BY DEF PartsInv
  <2>7. d \in published.keys
    BY <2>1, <2>5, <2>6 DEF AdvertisesWhatItOffers, NodeSpec, Parts
  <2>8. seen = published.keys \cap Topics
    BY <2>6 DEF Settled, Hears, Parts
  <2> QED
    BY <2>1, <2>2, <2>7, <2>8 DEF HasListeners
<1> QED
  BY PartsInvariance, LastWordAlwaysHolds, AlwaysAdvertises, <1>1, PTL
=============================================================================
