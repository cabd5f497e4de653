---------------------------- MODULE ProviderProofs ----------------------------
(***************************************************************************)
(* For any nodes, topics, services and scripts: the callbacks for the      *)
(* messages of one link run one after the other, in the order in which the *)
(* messages were sent; and when nothing can go on between two nodes, all   *)
(* they sent was handled and answered, but for what is excused.            *)
(***************************************************************************)
EXTENDS Provider, FiniteSetTheorems, WellFoundedInduction, TLAPS

----------------------------------------------------------------------------
(* The books: numbers, and what is where.                                  *)

\* A number belongs to what was sent, and to nothing else.
SentAreNumbered == \A i \in Ids : i \in DOMAIN frames <=> stage[i] # "unsent"

\* Topic messages and requests go different ways.
TopicStages == {"queued", "sent", "running", "calling", "done"}
WaysDiffer ==
    \A i \in DOMAIN frames :
        IF IsTopic(i) THEN stage[i] \in TopicStages ELSE stage[i] # "queued"

\* An outbox holds messages that are queued for its link, the oldest first.
OutboxInOrder ==
    \A l \in Links :
        /\ \A k \in DOMAIN outbox[l] :
            /\ outbox[l][k] \in DOMAIN frames
            /\ frames[outbox[l][k]].link = l
            /\ IsTopic(outbox[l][k])
            /\ stage[outbox[l][k]] = "queued"
        /\ \A k, n \in DOMAIN outbox[l] : k < n => outbox[l][k] < outbox[l][n]

\* A stream holds what was written to its link and not read, and its messages, if
\* not its requests, the oldest first.
StreamInOrder ==
    \A l \in Links :
        /\ \A k \in DOMAIN stream[l] :
            /\ stream[l][k] \in DOMAIN frames
            /\ frames[stream[l][k]].link = l
            /\ stage[stream[l][k]] = "sent"
        /\ \A k, n \in DOMAIN stream[l] :
            /\ k < n
            => /\ stream[l][k] # stream[l][n]
               /\ IsTopic(stream[l][k]) /\ IsTopic(stream[l][n])
                  => stream[l][k] < stream[l][n]

\* What is queued for an open link is in its outbox, what was written to one that
\* is not closed is in its stream, and the link's handler awaits each callback
\* that is at work.
NothingAstray ==
    \A i \in DOMAIN frames :
        IsTopic(i) =>
            /\ stage[i] = "queued" /\ link[frames[i].link] = "open"
               => \E k \in DOMAIN outbox[frames[i].link] : outbox[frames[i].link][k] = i
            /\ stage[i] = "sent" /\ link[frames[i].link] # "closed"
               => \E k \in DOMAIN stream[frames[i].link] : stream[frames[i].link][k] = i
            /\ stage[i] \in AtWork => blocked[frames[i].link] = i

\* A message is not written before an older one, nor taken before its callback
\* has ended.
NoOvertaking ==
    \A i, j \in DOMAIN frames :
        i < j /\ IsTopic(i) /\ IsTopic(j) /\ frames[i].link = frames[j].link
        => /\ stage[j] = "sent" => stage[i] # "queued"
           /\ stage[j] \notin Unread => stage[i] = "done"

IInv ==
    /\ TypeOK
    /\ SentAreNumbered
    /\ WaysDiffer
    /\ OutboxInOrder
    /\ StreamInOrder
    /\ NothingAstray
    /\ NoOvertaking

LEMMA FrameType ==
    ASSUME TypeOK, NEW i \in DOMAIN frames
    PROVE  i \in Ids /\ frames[i].link \in Links /\ frames[i].name \in Names
<1>1. frames[i] \in Frame /\ Len(frames) \in Nat /\ i \in 1..Len(frames)
  BY DEF TypeOK
<1> QED
  BY <1>1, ProviderAssumption DEF TypeOK, Frame, Ids

LEMMA IInvOrders == IInv => TopicsInOrder
BY DEF IInv, NoOvertaking, TopicsInOrder

LEMMA InitIInv == Init => IInv
<1> SUFFICES ASSUME Init PROVE IInv
  OBVIOUS
<1>1. TypeOK
  BY ProviderAssumption DEF Init, TypeOK, Stages, Unread
<1>2. DOMAIN frames = {}
  BY DEF Init
<1> QED
  BY <1>1, <1>2
     DEF Init, IInv, SentAreNumbered, WaysDiffer, OutboxInOrder, StreamInOrder, NothingAstray,
         NoOvertaking

----------------------------------------------------------------------------
(* What is sent.                                                           *)

\* A new message or request takes the next number and leaves the others alone.
LEMMA NewFrameFacts ==
    ASSUME TypeOK, NEW l \in Links, NEW name \in Names, NEW parent \in 0..MaxFrames,
           NewFrame(l, name, parent)
    PROVE  /\ frames' \in Seq(Frame)
           /\ Len(frames') = Len(frames) + 1
           /\ Len(frames') \in Ids
           /\ Len(frames') \notin DOMAIN frames
           /\ DOMAIN frames' = DOMAIN frames \cup {Len(frames')}
           /\ \A i \in DOMAIN frames : frames'[i] = frames[i] /\ i < Len(frames') /\ i \in Ids
           /\ frames'[Len(frames')] = [link |-> l, name |-> name, parent |-> parent]
<1> DEFINE f == [link |-> l, name |-> name, parent |-> parent]
<1>1. frames \in Seq(Frame) /\ f \in Frame /\ Len(frames) \in Nat /\ Len(frames) < MaxFrames
  BY DEF TypeOK, Frame, NewFrame
<1>2. frames' = Append(frames, f)
  BY DEF NewFrame
<1> HIDE DEF f
<1>3. /\ frames' \in Seq(Frame)
      /\ Len(frames') = Len(frames) + 1
      /\ \A i \in 1..Len(frames) : frames'[i] = frames[i]
      /\ frames'[Len(frames) + 1] = f
  BY <1>1, <1>2
<1>4. MaxFrames \in Nat
  BY ProviderAssumption
<1>5. DOMAIN frames = 1..Len(frames) /\ DOMAIN frames' = 1..Len(frames')
  BY <1>1, <1>3
<1> QED
  BY <1>1, <1>3, <1>4, <1>5 DEF Ids, f

LEMMA SendIInv ==
    ASSUME IInv, NEW l \in Links, NEW t \in Topics, Send(l, t)
    PROVE  IInv'
<1> DEFINE new == Len(frames')
<1>1. /\ frames' \in Seq(Frame)
      /\ new = Len(frames) + 1
      /\ new \in Ids
      /\ new \notin DOMAIN frames
      /\ DOMAIN frames' = DOMAIN frames \cup {new}
      /\ \A i \in DOMAIN frames : frames'[i] = frames[i] /\ i < new /\ i \in Ids
      /\ frames'[new] = [link |-> l, name |-> t, parent |-> 0]
      /\ Len(frames') <= MaxFrames
  <2>1. t \in Names /\ 0 \in 0..MaxFrames
    BY ProviderAssumption DEF Names
  <2>2. TypeOK /\ NewFrame(l, t, 0)
    BY DEF IInv, Send
  <2>3. new \in Ids => new <= MaxFrames
    BY ProviderAssumption DEF Ids
  <2> QED
    BY <2>1, <2>2, <2>3, NewFrameFacts
<1>2. /\ stage' = [stage EXCEPT ![new] = "queued"]
      /\ outbox' = [outbox EXCEPT ![l] = Append(@, new)]
      /\ UNCHANGED <<stream, blocked, link, torn, offered>>
  BY DEF Send
<1>3. TypeOK
  BY DEF IInv
<1> HIDE DEF new
<1>4. /\ stage'[new] = "queued"
      /\ \A i \in Ids : i # new => stage'[i] = stage[i]
      /\ frames'[new].name = t /\ frames'[new].link = l
      /\ \A i \in DOMAIN frames : /\ frames'[i].name = frames[i].name
                                  /\ frames'[i].link = frames[i].link
                                  /\ stage'[i] = stage[i]
  BY <1>1, <1>2, <1>3 DEF TypeOK
<1>5. /\ outbox[l] \in Seq(Ids) /\ Len(outbox[l]) \in Nat
      /\ Len(outbox'[l]) = Len(outbox[l]) + 1
      /\ \A k \in 1..Len(outbox[l]) : outbox'[l][k] = outbox[l][k]
      /\ outbox'[l][Len(outbox[l]) + 1] = new
      /\ outbox'[l] \in Seq(Ids)
      /\ \A m \in Links : m # l => outbox'[m] = outbox[m]
  BY <1>1, <1>2, <1>3 DEF TypeOK
<1>6. TypeOK'
  <2>1. stage' \in [Ids -> Stages]
    BY <1>1, <1>2, <1>3 DEF TypeOK, Stages, Unread
  <2>2. outbox' \in [Links -> Seq(Ids)]
    BY <1>2, <1>3, <1>5 DEF TypeOK
  <2> QED
    BY <1>1, <1>2, <1>3, <2>1, <2>2 DEF TypeOK, new
<1>7. SentAreNumbered' /\ WaysDiffer'
  <2>1. SentAreNumbered'
    BY SMTT(20), <1>1, <1>4 DEF IInv, SentAreNumbered
  <2>2. WaysDiffer'
    BY SMTT(20), <1>1, <1>4 DEF IInv, WaysDiffer, IsTopic, TopicStages
  <2> QED
    BY <2>1, <2>2
<1>8. OutboxInOrder'
  <2> SUFFICES ASSUME NEW m \in Links
               PROVE  /\ \A k \in DOMAIN outbox'[m] :
                          /\ outbox'[m][k] \in DOMAIN frames'
                          /\ frames'[outbox'[m][k]].link = m
                          /\ frames'[outbox'[m][k]].name \in Topics
                          /\ stage'[outbox'[m][k]] = "queued"
                      /\ \A k, n \in DOMAIN outbox'[m] : k < n => outbox'[m][k] < outbox'[m][n]
    BY DEF OutboxInOrder, IsTopic
  <2>1. CASE m # l
    BY SMTT(20), <1>1, <1>4, <1>5, <2>1 DEF IInv, OutboxInOrder, IsTopic
  <2>2. CASE m = l
    <3>1. DOMAIN outbox'[l] = (1..Len(outbox[l])) \cup {Len(outbox[l]) + 1}
      BY <1>5
    <3>2. \A k \in 1..Len(outbox[l]) :
              /\ outbox[l][k] \in DOMAIN frames
              /\ frames[outbox[l][k]].link = l
              /\ frames[outbox[l][k]].name \in Topics
              /\ stage[outbox[l][k]] = "queued"
              /\ \A n \in 1..Len(outbox[l]) : k < n => outbox[l][k] < outbox[l][n]
      BY <1>5 DEF IInv, OutboxInOrder, IsTopic
    <3>3. \A k \in DOMAIN outbox'[l] :
              /\ outbox'[l][k] \in DOMAIN frames'
              /\ frames'[outbox'[l][k]].link = l
              /\ frames'[outbox'[l][k]].name \in Topics
              /\ stage'[outbox'[l][k]] = "queued"
      BY SMTT(20), <1>1, <1>4, <1>5, <3>1, <3>2
    <3>4. \A k, n \in DOMAIN outbox'[l] : k < n => outbox'[l][k] < outbox'[l][n]
      BY <1>1, <1>5, <3>1, <3>2
    <3> QED
      BY <2>2, <3>3, <3>4
  <2> QED
    BY <2>1, <2>2
<1>9. StreamInOrder'
  BY <1>1, <1>2, <1>4 DEF IInv, StreamInOrder, IsTopic
<1>10. NothingAstray'
  <2> SUFFICES ASSUME NEW i \in DOMAIN frames', frames'[i].name \in Topics
               PROVE  /\ stage'[i] = "queued" /\ link'[frames'[i].link] = "open"
                         => \E k \in DOMAIN outbox'[frames'[i].link] :
                                outbox'[frames'[i].link][k] = i
                      /\ stage'[i] = "sent" /\ link'[frames'[i].link] # "closed"
                         => \E k \in DOMAIN stream'[frames'[i].link] :
                                stream'[frames'[i].link][k] = i
                      /\ stage'[i] \in AtWork => blocked'[frames'[i].link] = i
    BY DEF NothingAstray, IsTopic
  <2>1. CASE i = new
    BY <1>1, <1>4, <1>5, <2>1 DEF AtWork
  <2>2. CASE i # new
    <3>1. /\ i \in DOMAIN frames /\ frames'[i] = frames[i] /\ stage'[i] = stage[i]
          /\ frames[i].link \in Links /\ IsTopic(i)
      BY <1>1, <1>3, <1>4, <2>2, FrameType DEF IsTopic
    <3>2. \A k \in DOMAIN outbox[frames[i].link] :
              k \in DOMAIN outbox'[frames[i].link]
              /\ outbox'[frames[i].link][k] = outbox[frames[i].link][k]
      BY SMTT(20), <1>5, <3>1
    <3> QED
      BY <1>2, <3>1, <3>2 DEF IInv, NothingAstray
  <2> QED
    BY <2>1, <2>2
<1>11. NoOvertaking'
  <2> SUFFICES ASSUME NEW i \in DOMAIN frames', NEW j \in DOMAIN frames', i < j,
                      frames'[i].name \in Topics, frames'[j].name \in Topics,
                      frames'[i].link = frames'[j].link
               PROVE  /\ stage'[j] = "sent" => stage'[i] # "queued"
                      /\ stage'[j] \notin Unread => stage'[i] = "done"
    BY DEF NoOvertaking, IsTopic
  <2>1. CASE j = new
    BY <1>4, <2>1 DEF Unread
  <2>2. CASE j # new
    <3>1. j \in DOMAIN frames /\ i \in DOMAIN frames
      <4>1. j \in Ids /\ new \in Ids /\ j < new
        BY <1>1, <2>2
      <4>2. i # new
        BY <4>1 DEF Ids
      <4> QED
        BY <1>1, <2>2, <4>2
    <3>2. /\ IsTopic(i) /\ IsTopic(j) /\ frames[i].link = frames[j].link
          /\ stage'[i] = stage[i] /\ stage'[j] = stage[j]
      BY <1>4, <3>1 DEF IsTopic
    <3> QED
      BY <3>1, <3>2 DEF IInv, NoOvertaking
  <2> QED
    BY <2>1, <2>2
<1> QED
  BY <1>6, <1>7, <1>8, <1>9, <1>10, <1>11 DEF IInv
----------------------------------------------------------------------------
(* What is written.                                                        *)

LEMMA FlushIInv == ASSUME IInv, NEW l \in Links, Flush(l) PROVE IInv'
<1> DEFINE h == Head(outbox[l])
<1>1. /\ outbox[l] \in Seq(Ids) /\ Len(outbox[l]) \in Nat \ {0} /\ h = outbox[l][1]
      /\ Tail(outbox[l]) \in Seq(Ids) /\ Len(Tail(outbox[l])) = Len(outbox[l]) - 1
      /\ \A k \in 1..(Len(outbox[l]) - 1) : Tail(outbox[l])[k] = outbox[l][k + 1]
      /\ stream[l] \in Seq(Ids) /\ Len(stream[l]) \in Nat
  BY DEF Flush, IInv, TypeOK
<1>2. /\ h \in DOMAIN frames /\ frames[h].link = l /\ IsTopic(h) /\ stage[h] = "queued"
      /\ \A k \in 2..Len(outbox[l]) : h < outbox[l][k]
      /\ h \in Ids
  <2>1. 1 \in DOMAIN outbox[l] /\ \A k \in 2..Len(outbox[l]) : k \in DOMAIN outbox[l] /\ 1 < k
    BY <1>1
  <2> HIDE DEF h
  <2>2. outbox[l][1] = h
    BY <1>1
  <2> QED
    BY <2>1, <2>2, FrameType DEF IInv, OutboxInOrder
<1>3. /\ outbox' = [outbox EXCEPT ![l] = Tail(@)]
      /\ stream' = [stream EXCEPT ![l] = Append(@, h)]
      /\ stage' = [stage EXCEPT ![h] = "sent"]
      /\ UNCHANGED <<frames, blocked, link, torn, offered>>
      /\ link[l] = "open"
  BY DEF Flush
<1> HIDE DEF h
<1>4. TypeOK
  BY DEF IInv
<1>5. stage'[h] = "sent" /\ \A i \in Ids : i # h => stage'[i] = stage[i]
  BY <1>2, <1>3, <1>4 DEF TypeOK
<1>6. /\ Len(outbox'[l]) = Len(outbox[l]) - 1
      /\ DOMAIN outbox'[l] = 1..(Len(outbox[l]) - 1)
      /\ \A k \in 1..(Len(outbox[l]) - 1) : outbox'[l][k] = outbox[l][k + 1]
      /\ \A m \in Links : m # l => outbox'[m] = outbox[m]
  BY <1>1, <1>3, <1>4 DEF TypeOK
<1>7. /\ DOMAIN stream'[l] = (1..Len(stream[l])) \cup {Len(stream[l]) + 1}
      /\ \A k \in 1..Len(stream[l]) : stream'[l][k] = stream[l][k]
      /\ stream'[l][Len(stream[l]) + 1] = h
      /\ \A m \in Links : m # l => stream'[m] = stream[m]
  BY <1>1, <1>2, <1>3, <1>4 DEF TypeOK
<1>8. TypeOK'
  <2>1. stage' \in [Ids -> Stages]
    BY <1>3, <1>4 DEF TypeOK, Stages, Unread
  <2>2. outbox' \in [Links -> Seq(Ids)] /\ stream' \in [Links -> Seq(Ids)]
    BY <1>1, <1>2, <1>3, <1>4 DEF TypeOK
  <2> QED
    BY <1>3, <1>4, <2>1, <2>2 DEF TypeOK
<1>9. SentAreNumbered' /\ WaysDiffer'
  BY <1>2, <1>3, <1>4, <1>5, FrameType
     DEF IInv, SentAreNumbered, WaysDiffer, IsTopic, TopicStages
<1>10. OutboxInOrder'
  <2> SUFFICES ASSUME NEW m \in Links
               PROVE  /\ \A k \in DOMAIN outbox'[m] :
                          /\ outbox'[m][k] \in DOMAIN frames
                          /\ frames[outbox'[m][k]].link = m
                          /\ IsTopic(outbox'[m][k])
                          /\ stage'[outbox'[m][k]] = "queued"
                      /\ \A k, n \in DOMAIN outbox'[m] : k < n => outbox'[m][k] < outbox'[m][n]
    BY <1>3 DEF OutboxInOrder, IsTopic
  <2>1. CASE m # l
    BY <1>2, <1>4, <1>5, <1>6, <2>1, FrameType DEF IInv, OutboxInOrder
  <2>2. CASE m = l
    <3>1. \A k \in 1..(Len(outbox[l]) - 1) :
              /\ k + 1 \in DOMAIN outbox[l]
              /\ h < outbox[l][k + 1]
      BY <1>1, <1>2
    <3>2. \A k \in 1..(Len(outbox[l]) - 1) :
              /\ outbox'[l][k] \in DOMAIN frames
              /\ frames[outbox'[l][k]].link = l
              /\ IsTopic(outbox'[l][k])
              /\ stage[outbox'[l][k]] = "queued"
              /\ outbox'[l][k] # h
      BY <1>2, <1>6, <3>1 DEF IInv, OutboxInOrder, Ids
    <3>3. \A k, n \in 1..(Len(outbox[l]) - 1) : k < n => outbox'[l][k] < outbox'[l][n]
      BY SMTT(20), <1>6, <3>1 DEF IInv, OutboxInOrder
    <3> QED
      BY <1>4, <1>5, <1>6, <2>2, <3>2, <3>3, FrameType
  <2> QED
    BY <2>1, <2>2
<1>11. StreamInOrder'
  <2> SUFFICES ASSUME NEW m \in Links
               PROVE  /\ \A k \in DOMAIN stream'[m] :
                          /\ stream'[m][k] \in DOMAIN frames
                          /\ frames[stream'[m][k]].link = m
                          /\ stage'[stream'[m][k]] = "sent"
                      /\ \A k, n \in DOMAIN stream'[m] :
                          /\ k < n
                          => /\ stream'[m][k] # stream'[m][n]
                             /\ IsTopic(stream'[m][k]) /\ IsTopic(stream'[m][n])
                                => stream'[m][k] < stream'[m][n]
    BY <1>3 DEF StreamInOrder, IsTopic
  <2>1. CASE m # l
    BY <1>2, <1>4, <1>5, <1>7, <2>1, FrameType DEF IInv, StreamInOrder
  <2>2. CASE m = l
    <3>1. \A k \in 1..Len(stream[l]) :
              /\ stream[l][k] \in DOMAIN frames
              /\ frames[stream[l][k]].link = l
              /\ stage[stream[l][k]] = "sent"
              /\ stream[l][k] \in Ids
      BY <1>1, <1>4, FrameType DEF IInv, StreamInOrder
    <3>2. \A k \in 1..Len(stream[l]) : IsTopic(stream[l][k]) => stream[l][k] < h
      BY <1>2, <3>1 DEF IInv, NoOvertaking, Ids
    <3>3. \A k \in DOMAIN stream'[l] :
              /\ stream'[l][k] \in DOMAIN frames
              /\ frames[stream'[l][k]].link = l
              /\ stage'[stream'[l][k]] = "sent"
      BY <1>2, <1>5, <1>7, <3>1
    <3>4. \A k, n \in 1..Len(stream[l]) :
              k < n => /\ stream[l][k] # stream[l][n]
                       /\ IsTopic(stream[l][k]) /\ IsTopic(stream[l][n])
                          => stream[l][k] < stream[l][n]
      BY <1>1 DEF IInv, StreamInOrder
    <3>5. \A k \in 1..Len(stream[l]) : stream[l][k] # h
      BY <1>2, <3>1
    <3>6. ASSUME NEW k \in DOMAIN stream'[m], NEW n \in DOMAIN stream'[m], k < n
          PROVE  /\ stream'[m][k] # stream'[m][n]
                 /\ IsTopic(stream'[m][k]) /\ IsTopic(stream'[m][n])
                    => stream'[m][k] < stream'[m][n]
      <4>1. k \in 1..Len(stream[l]) /\ stream'[l][k] = stream[l][k]
        BY <1>1, <1>7, <2>2, <3>6
      <4>2. CASE n = Len(stream[l]) + 1
        BY <1>7, <2>2, <3>2, <3>5, <4>1, <4>2
      <4>3. CASE n \in 1..Len(stream[l])
        BY <1>7, <2>2, <3>4, <3>6, <4>1, <4>3
      <4> QED
        BY <1>7, <2>2, <4>2, <4>3
    <3> QED
      BY <2>2, <3>3, <3>6
  <2> QED
    BY <2>1, <2>2
<1>12. NothingAstray'
  <2> SUFFICES ASSUME NEW i \in DOMAIN frames, IsTopic(i)
               PROVE  /\ stage'[i] = "queued" /\ link[frames[i].link] = "open"
                         => \E k \in DOMAIN outbox'[frames[i].link] :
                                outbox'[frames[i].link][k] = i
                      /\ stage'[i] = "sent" /\ link[frames[i].link] # "closed"
                         => \E k \in DOMAIN stream'[frames[i].link] :
                                stream'[frames[i].link][k] = i
                      /\ stage'[i] \in AtWork => blocked[frames[i].link] = i
    BY <1>3 DEF NothingAstray, IsTopic
  <2>1. i \in Ids /\ frames[i].link \in Links
    BY <1>4, FrameType
  <2>2. CASE i = h
    BY <1>1, <1>2, <1>5, <1>7, <2>2 DEF AtWork
  <2>3. CASE i # h
    <3>1. stage'[i] = stage[i]
      BY <1>5, <2>1, <2>3
    <3>2. ASSUME stage[i] = "queued", link[frames[i].link] = "open"
          PROVE  \E k \in DOMAIN outbox'[frames[i].link] : outbox'[frames[i].link][k] = i
      <4>1. PICK k \in DOMAIN outbox[frames[i].link] : outbox[frames[i].link][k] = i
        BY <3>2 DEF IInv, NothingAstray
      <4>2. CASE frames[i].link # l
        BY <1>6, <2>1, <4>1, <4>2
      <4>3. CASE frames[i].link = l
        <5>1. k \in 2..Len(outbox[l])
          BY <1>1, <2>3, <4>1, <4>3
        <5>2. k - 1 \in DOMAIN outbox'[l] /\ outbox'[l][k - 1] = i
          BY <1>1, <1>6, <4>1, <4>3, <5>1
        <5> QED
          BY <4>3, <5>2
      <4> QED
        BY <4>2, <4>3
    <3>3. ASSUME stage[i] = "sent", link[frames[i].link] # "closed"
          PROVE  \E k \in DOMAIN stream'[frames[i].link] : stream'[frames[i].link][k] = i
      <4>1. PICK k \in DOMAIN stream[frames[i].link] : stream[frames[i].link][k] = i
        BY <3>3 DEF IInv, NothingAstray
      <4> QED
        BY SMTT(20), <1>1, <1>7, <2>1, <4>1
    <3> QED
      BY <3>1, <3>2, <3>3 DEF IInv, NothingAstray
  <2> QED
    BY <2>2, <2>3
<1>13. NoOvertaking'
  <2> SUFFICES ASSUME NEW i \in DOMAIN frames, NEW j \in DOMAIN frames,
                      i < j, IsTopic(i), IsTopic(j), frames[i].link = frames[j].link
               PROVE  /\ stage'[j] = "sent" => stage'[i] # "queued"
                      /\ stage'[j] \notin Unread => stage'[i] = "done"
    BY <1>3 DEF NoOvertaking, IsTopic
  <2>1. i \in Ids /\ j \in Ids
    BY <1>4, FrameType
  <2>2. CASE j = h
    <3>1. stage[i] # "queued"
      <4> SUFFICES ASSUME stage[i] = "queued" PROVE FALSE
        OBVIOUS
      <4>1. PICK k \in DOMAIN outbox[l] : outbox[l][k] = i
        BY <1>2, <1>3, <2>2 DEF IInv, NothingAstray
      <4>2. i < h /\ i \in Int /\ h \in Int
        BY <1>2, <2>1, <2>2 DEF Ids
      <4>3. k = 1 \/ k \in 2..Len(outbox[l])
        BY <1>1
      <4> QED
        BY <1>1, <1>2, <4>1, <4>2, <4>3
    <3> QED
      BY <1>5, <2>1, <2>2, <3>1 DEF Unread
  <2>3. CASE j # h
    BY <1>2, <1>5, <2>1, <2>3 DEF IInv, NoOvertaking, Unread
  <2> QED
    BY <2>2, <2>3
<1> QED
  BY <1>8, <1>9, <1>10, <1>11, <1>12, <1>13 DEF IInv

\* A request from a user, or from within a callback or handler, is written at once.
LEMMA RequestIInv ==
    ASSUME IInv, NEW l \in Links, NEW s \in Services, NEW parent \in 0..MaxFrames,
           NewFrame(l, s, parent),
           stage' \in [Ids -> Stages],
           stage'[Len(frames')] = "sent",
           \A i \in DOMAIN frames :
              stage'[i] = stage[i] \/ (stage[i] = "running" /\ stage'[i] = "calling"),
           \A i \in Ids : i \notin DOMAIN frames' => stage'[i] = stage[i],
           stream' = [stream EXCEPT ![l] = Append(@, Len(frames'))],
           UNCHANGED <<outbox, blocked, link, torn, offered>>
    PROVE  IInv'
<1> DEFINE new == Len(frames')
<1>1. TypeOK /\ MaxFrames \in Nat /\ s \in Names /\ s \notin Topics
  BY ProviderAssumption DEF IInv, Names
<1>2. /\ frames' \in Seq(Frame)
      /\ new \in Ids /\ new <= MaxFrames
      /\ new \notin DOMAIN frames
      /\ DOMAIN frames' = DOMAIN frames \cup {new}
      /\ \A i \in DOMAIN frames : frames'[i] = frames[i] /\ i < new /\ i \in Ids
      /\ frames'[new] = [link |-> l, name |-> s, parent |-> parent]
  <2>1. new \in Ids => new <= MaxFrames
    BY <1>1 DEF Ids
  <2> QED
    BY <1>1, <2>1, NewFrameFacts
<1>3. /\ stage'[new] = "sent"
      /\ stream' = [stream EXCEPT ![l] = Append(@, new)]
      /\ \A i \in Ids : i \notin DOMAIN frames /\ i # new => stage'[i] = stage[i]
  BY <1>2
<1> HIDE DEF new
<1>4. /\ frames'[new].name \notin Topics /\ frames'[new].link = l
      /\ \A i \in DOMAIN frames : /\ frames'[i].name = frames[i].name
                                  /\ frames'[i].link = frames[i].link
                                  /\ i # new
  BY <1>1, <1>2
<1>5. /\ stream[l] \in Seq(Ids) /\ Len(stream[l]) \in Nat
      /\ DOMAIN stream[l] = 1..Len(stream[l])
      /\ DOMAIN stream'[l] = (1..Len(stream[l])) \cup {Len(stream[l]) + 1}
      /\ \A k \in 1..Len(stream[l]) : stream'[l][k] = stream[l][k]
      /\ stream'[l][Len(stream[l]) + 1] = new
      /\ stream'[l] \in Seq(Ids)
      /\ \A m \in Links : m # l => stream'[m] = stream[m]
  <2>1. stream \in [Links -> Seq(Ids)] /\ stream[l] \in Seq(Ids) /\ new \in Ids
    BY <1>1, <1>2 DEF TypeOK
  <2>2. /\ stream'[l] = Append(stream[l], new)
        /\ \A m \in Links : m # l => stream'[m] = stream[m]
    BY <1>3, <2>1
  <2> QED
    BY <2>1, <2>2
<1>6. TypeOK'
  <2>1. stream' \in [Links -> Seq(Ids)]
    BY <1>1, <1>3, <1>5 DEF TypeOK
  <2>2. Len(frames') <= MaxFrames
    BY <1>2 DEF new
  <2> QED
    BY <1>1, <1>2, <2>1, <2>2 DEF TypeOK
<1>7. SentAreNumbered'
  BY <1>2, <1>3 DEF IInv, SentAreNumbered
<1>8. WaysDiffer'
  BY <1>2, <1>3, <1>4 DEF IInv, WaysDiffer, IsTopic, TopicStages
<1>9. OutboxInOrder'
  BY <1>2, <1>4 DEF IInv, OutboxInOrder, IsTopic
<1>10. StreamInOrder'
  <2> SUFFICES ASSUME NEW m \in Links
               PROVE  /\ \A k \in DOMAIN stream'[m] :
                          /\ stream'[m][k] \in DOMAIN frames'
                          /\ frames'[stream'[m][k]].link = m
                          /\ stage'[stream'[m][k]] = "sent"
                      /\ \A k, n \in DOMAIN stream'[m] :
                          /\ k < n
                          => /\ stream'[m][k] # stream'[m][n]
                             /\ /\ frames'[stream'[m][k]].name \in Topics
                                /\ frames'[stream'[m][n]].name \in Topics
                                => stream'[m][k] < stream'[m][n]
    BY DEF StreamInOrder, IsTopic
  <2>1. /\ \A k \in DOMAIN stream[m] :
            /\ stream[m][k] \in DOMAIN frames
            /\ frames[stream[m][k]].link = m
            /\ stage[stream[m][k]] = "sent"
        /\ \A k, n \in DOMAIN stream[m] :
            /\ k < n
            => /\ stream[m][k] # stream[m][n]
               /\ /\ frames[stream[m][k]].name \in Topics
                  /\ frames[stream[m][n]].name \in Topics
                  => stream[m][k] < stream[m][n]
    BY DEF IInv, StreamInOrder, IsTopic
  <2>2. \A k \in DOMAIN stream[m] :
            /\ stream[m][k] \in DOMAIN frames'
            /\ stream[m][k] # new
            /\ frames'[stream[m][k]].link = m
            /\ frames'[stream[m][k]].name = frames[stream[m][k]].name
            /\ stage'[stream[m][k]] = "sent"
    BY <1>2, <1>4, <2>1
  <2>3. CASE m # l
    <3>1. stream'[m] = stream[m]
      BY <1>5, <2>3
    <3>2. \A k \in DOMAIN stream'[m] :
              /\ stream'[m][k] \in DOMAIN frames'
              /\ frames'[stream'[m][k]].link = m
              /\ stage'[stream'[m][k]] = "sent"
      BY <2>2, <3>1
    <3>3. ASSUME NEW k \in DOMAIN stream'[m], NEW n \in DOMAIN stream'[m], k < n
          PROVE  /\ stream'[m][k] # stream'[m][n]
                 /\ /\ frames'[stream'[m][k]].name \in Topics
                    /\ frames'[stream'[m][n]].name \in Topics
                    => stream'[m][k] < stream'[m][n]
      <4>1. k \in DOMAIN stream[m] /\ n \in DOMAIN stream[m]
        BY <3>1
      <4>2. /\ stream[m][k] # stream[m][n]
            /\ /\ frames'[stream[m][k]].name \in Topics
               /\ frames'[stream[m][n]].name \in Topics
               => stream[m][k] < stream[m][n]
        BY <2>1, <2>2, <3>3, <4>1
      <4> QED
        BY <3>1, <4>2
    <3> QED
      BY <3>2, <3>3
  <2>4. CASE m = l
    <3> DEFINE last == Len(stream[m]) + 1
    <3>1. /\ DOMAIN stream'[m] = DOMAIN stream[m] \cup {last}
          /\ stream'[m][last] = new
          /\ \A k \in DOMAIN stream[m] : stream'[m][k] = stream[m][k] /\ k \in Int /\ k < last
          /\ last \in Int
      BY <1>5, <2>4
    <3> HIDE DEF last
    <3>2. frames'[new].name \notin Topics /\ frames'[new].link = m /\ new \in DOMAIN frames'
      BY <1>2, <1>4, <2>4
    <3>3. \A k \in DOMAIN stream'[m] :
              /\ stream'[m][k] \in DOMAIN frames'
              /\ frames'[stream'[m][k]].link = m
              /\ stage'[stream'[m][k]] = "sent"
      BY <1>3, <2>2, <3>1, <3>2
    <3>4. ASSUME NEW k \in DOMAIN stream'[m], NEW n \in DOMAIN stream'[m], k < n
          PROVE  /\ stream'[m][k] # stream'[m][n]
                 /\ /\ frames'[stream'[m][k]].name \in Topics
                    /\ frames'[stream'[m][n]].name \in Topics
                    => stream'[m][k] < stream'[m][n]
      <4>1. k \in DOMAIN stream[m]
        BY <3>1, <3>4
      <4>2. CASE n = last
        BY <2>2, <3>1, <3>2, <4>1, <4>2
      <4>3. CASE n \in DOMAIN stream[m]
        BY <2>1, <2>2, <3>1, <3>4, <4>1, <4>3
      <4> QED
        BY <3>1, <4>2, <4>3
    <3> QED
      BY <3>3, <3>4
  <2> QED
    BY <2>3, <2>4
<1>11. NothingAstray'
  <2> SUFFICES ASSUME NEW i \in DOMAIN frames, IsTopic(i)
               PROVE  /\ stage'[i] = "queued" /\ link[frames[i].link] = "open"
                         => \E k \in DOMAIN outbox[frames[i].link] :
                                outbox[frames[i].link][k] = i
                      /\ stage'[i] = "sent" /\ link[frames[i].link] # "closed"
                         => \E k \in DOMAIN stream'[frames[i].link] :
                                stream'[frames[i].link][k] = i
                      /\ stage'[i] \in AtWork => blocked[frames[i].link] = i
    BY <1>2, <1>4 DEF NothingAstray, IsTopic
  <2>1. \A k \in DOMAIN stream[frames[i].link] :
            /\ k \in DOMAIN stream'[frames[i].link]
            /\ stream'[frames[i].link][k] = stream[frames[i].link][k]
    BY <1>1, <1>5, FrameType
  <2> QED
    BY <2>1 DEF IInv, NothingAstray, AtWork
<1>12. NoOvertaking'
  <2> SUFFICES ASSUME NEW i \in DOMAIN frames, NEW j \in DOMAIN frames, i < j,
                      IsTopic(i), IsTopic(j), frames[i].link = frames[j].link
               PROVE  /\ stage'[j] = "sent" => stage'[i] # "queued"
                      /\ stage'[j] \notin Unread => stage'[i] = "done"
    BY <1>2, <1>4 DEF NoOvertaking, IsTopic
  <2> QED
    BY DEF IInv, NoOvertaking, Unread
<1> QED
  BY <1>6, <1>7, <1>8, <1>9, <1>10, <1>11, <1>12 DEF IInv

----------------------------------------------------------------------------
(* What is read, and what comes to an end.                                 *)

\* The handler takes what is first in the stream.
LEMMA TakeIInv == ASSUME IInv, NEW l \in Links, TakeMessage(l) \/ TakeRequest(l) PROVE IInv'
<1> DEFINE h == Head(stream[l])
<1>1. /\ CanRead(l)
      /\ stream[l] # <<>>
      /\ stream' = [stream EXCEPT ![l] = Tail(@)]
      /\ UNCHANGED <<frames, outbox, link, torn, offered>>
      /\ \/ /\ ~IsTopic(h) /\ stage' = [stage EXCEPT ![h] = "task"]
            /\ UNCHANGED blocked
         \/ /\ IsTopic(h) /\ stage' = [stage EXCEPT ![h] = "done"]
            /\ UNCHANGED blocked
         \/ /\ IsTopic(h) /\ stage' = [stage EXCEPT ![h] = "running"]
            /\ blocked' = [blocked EXCEPT ![l] = h]
  BY DEF TakeMessage, TakeRequest
<1>2. TypeOK
  BY DEF IInv
<1>3. /\ stream[l] \in Seq(Ids) /\ Len(stream[l]) \in Nat \ {0} /\ h = stream[l][1]
      /\ Tail(stream[l]) \in Seq(Ids) /\ Len(Tail(stream[l])) = Len(stream[l]) - 1
      /\ \A k \in 1..(Len(stream[l]) - 1) : Tail(stream[l])[k] = stream[l][k + 1]
  BY <1>1, <1>2 DEF TypeOK
<1> HIDE DEF h
<1>4. /\ h \in DOMAIN frames /\ frames[h].link = l /\ stage[h] = "sent" /\ h \in Ids
      /\ \A k \in 2..Len(stream[l]) :
            /\ stream[l][k] # h
            /\ IsTopic(h) /\ IsTopic(stream[l][k]) => h < stream[l][k]
  <2>1. 1 \in DOMAIN stream[l] /\ \A k \in 2..Len(stream[l]) : k \in DOMAIN stream[l] /\ 1 < k
    BY <1>3
  <2> QED
    BY <1>2, <1>3, <2>1, FrameType DEF IInv, StreamInOrder
<1>5. \A i \in Ids : i # h => stage'[i] = stage[i]
  BY <1>1, <1>2 DEF TypeOK
<1>6. /\ stage'[h] \in {"task", "done", "running"}
      /\ IsTopic(h) => stage'[h] \in {"done", "running"}
      /\ IsTopic(h) /\ stage'[h] = "running" => blocked'[l] = h
      /\ link[l] # "closed" /\ blocked[l] = 0
      /\ \A m \in Links : m # l => blocked'[m] = blocked[m]
  BY <1>1, <1>2, <1>4 DEF TypeOK, CanRead
<1>7. /\ DOMAIN stream'[l] = 1..(Len(stream[l]) - 1)
      /\ \A k \in 1..(Len(stream[l]) - 1) :
            stream'[l][k] = stream[l][k + 1] /\ k + 1 \in DOMAIN stream[l] /\ k + 1 \in 2..Len(stream[l])
      /\ \A m \in Links : m # l => stream'[m] = stream[m]
  BY <1>1, <1>2, <1>3 DEF TypeOK
\* Each message of the link is away, waits, or is done with.
<1>8. \A i \in DOMAIN frames :
          IsTopic(i) /\ frames[i].link = l => stage[i] \notin AtWork
  <2>1. \A i \in DOMAIN frames : i # 0
    BY <1>2, FrameType DEF Ids
  <2> QED
    BY <1>6, <2>1 DEF IInv, NothingAstray
<1>9. TypeOK'
  <2>1. stage' \in [Ids -> Stages]
    BY <1>1, <1>2, <1>4 DEF TypeOK, Stages, AtWork
  <2>2. stream' \in [Links -> Seq(Ids)]
    BY <1>1, <1>2, <1>3 DEF TypeOK
  <2>3. blocked' \in [Links -> 0..MaxFrames]
    <3>1. h \in 0..MaxFrames
      BY <1>4, ProviderAssumption DEF Ids
    <3> QED
      BY <1>1, <1>2, <3>1 DEF TypeOK
  <2> QED
    BY <1>1, <1>2, <2>1, <2>2, <2>3 DEF TypeOK
<1>10. SentAreNumbered' /\ WaysDiffer'
  BY <1>1, <1>2, <1>4, <1>5, <1>6, FrameType
     DEF IInv, SentAreNumbered, WaysDiffer, IsTopic, TopicStages
<1>11. OutboxInOrder'
  <2>1. \A m \in Links : \A k \in DOMAIN outbox[m] : stage'[outbox[m][k]] = "queued"
    BY <1>2, <1>4, <1>5, FrameType DEF IInv, OutboxInOrder
  <2> QED
    BY <1>1, <2>1 DEF IInv, OutboxInOrder, IsTopic
<1>12. StreamInOrder'
  <2> SUFFICES ASSUME NEW m \in Links
               PROVE  /\ \A k \in DOMAIN stream'[m] :
                          /\ stream'[m][k] \in DOMAIN frames
                          /\ frames[stream'[m][k]].link = m
                          /\ stage'[stream'[m][k]] = "sent"
                      /\ \A k, n \in DOMAIN stream'[m] :
                          /\ k < n
                          => /\ stream'[m][k] # stream'[m][n]
                             /\ IsTopic(stream'[m][k]) /\ IsTopic(stream'[m][n])
                                => stream'[m][k] < stream'[m][n]
    BY <1>1 DEF StreamInOrder, IsTopic
  <2>1. CASE m # l
    BY <1>2, <1>4, <1>5, <1>7, <2>1, FrameType DEF IInv, StreamInOrder
  <2>2. CASE m = l
    <3>1. \A k \in DOMAIN stream'[m] :
              /\ stream'[m][k] = stream[m][k + 1]
              /\ k + 1 \in DOMAIN stream[m]
              /\ k \in Int
              /\ stream[m][k + 1] # h
      BY <1>4, <1>7, <2>2
    <3>2. \A k \in DOMAIN stream'[m] :
              /\ stream'[m][k] \in DOMAIN frames
              /\ frames[stream'[m][k]].link = m
              /\ stage'[stream'[m][k]] = "sent"
      BY <1>2, <1>5, <3>1, FrameType DEF IInv, StreamInOrder
    <3>3. \A k, n \in DOMAIN stream'[m] : k < n => k + 1 < n + 1
      BY <3>1
    <3> QED
      BY <3>1, <3>2, <3>3 DEF IInv, StreamInOrder
  <2> QED
    BY <2>1, <2>2
<1>13. NothingAstray'
  <2> SUFFICES ASSUME NEW i \in DOMAIN frames, IsTopic(i)
               PROVE  /\ stage'[i] = "queued" /\ link[frames[i].link] = "open"
                         => \E k \in DOMAIN outbox[frames[i].link] :
                                outbox[frames[i].link][k] = i
                      /\ stage'[i] = "sent" /\ link[frames[i].link] # "closed"
                         => \E k \in DOMAIN stream'[frames[i].link] :
                                stream'[frames[i].link][k] = i
                      /\ stage'[i] \in AtWork => blocked'[frames[i].link] = i
    BY <1>1 DEF NothingAstray, IsTopic
  <2>1. i \in Ids /\ frames[i].link \in Links
    BY <1>2, FrameType
  <2>2. CASE i = h
    BY <1>4, <1>6, <2>2 DEF AtWork
  <2>3. CASE i # h
    <3>1. stage'[i] = stage[i]
      BY <1>5, <2>1, <2>3
    <3>2. stage[i] \in AtWork => blocked'[frames[i].link] = i
      BY <1>6, <1>8, <2>1 DEF IInv, NothingAstray
    <3>3. ASSUME stage[i] = "sent", link[frames[i].link] # "closed"
          PROVE  \E k \in DOMAIN stream'[frames[i].link] : stream'[frames[i].link][k] = i
      <4>1. PICK k \in DOMAIN stream[frames[i].link] : stream[frames[i].link][k] = i
        BY <3>3 DEF IInv, NothingAstray
      <4>2. CASE frames[i].link # l
        BY <1>7, <2>1, <4>1, <4>2
      <4>3. CASE frames[i].link = l
        <5>1. k \in 2..Len(stream[l])
          BY <1>3, <2>3, <4>1, <4>3
        <5>2. k - 1 \in DOMAIN stream'[l] /\ stream'[l][k - 1] = i
          BY <1>3, <1>7, <4>1, <4>3, <5>1
        <5> QED
          BY <4>3, <5>2
      <4> QED
        BY <4>2, <4>3
    <3> QED
      BY <3>1, <3>2, <3>3 DEF IInv, NothingAstray
  <2> QED
    BY <2>2, <2>3
<1>14. NoOvertaking'
  <2> SUFFICES ASSUME NEW i \in DOMAIN frames, NEW j \in DOMAIN frames,
                      i < j, IsTopic(i), IsTopic(j), frames[i].link = frames[j].link
               PROVE  /\ stage'[j] = "sent" => stage'[i] # "queued"
                      /\ stage'[j] \notin Unread => stage'[i] = "done"
    BY <1>1 DEF NoOvertaking, IsTopic
  <2>1. i \in Ids /\ j \in Ids
    BY <1>2, FrameType
  <2>2. CASE j = h
    <3>1. stage[i] # "queued"
      BY <1>4, <2>2 DEF IInv, NoOvertaking
    <3>2. stage[i] # "sent"
      <4> SUFFICES ASSUME stage[i] = "sent" PROVE FALSE
        OBVIOUS
      <4>1. PICK k \in DOMAIN stream[l] : stream[l][k] = i
        BY <1>4, <1>6, <2>2 DEF IInv, NothingAstray
      <4>2. i < h /\ i \in Int /\ h \in Int
        BY <1>4, <2>1, <2>2 DEF Ids
      <4>3. k = 1 \/ k \in 2..Len(stream[l])
        BY <1>3
      <4> QED
        BY <1>3, <1>4, <2>2, <4>1, <4>2, <4>3
    <3>3. stage[i] \in TopicStages /\ stage[i] \notin AtWork
      BY <1>4, <1>8, <2>2 DEF IInv, WaysDiffer
    <3>4. i # h
      BY <2>1, <2>2 DEF Ids
    <3> QED
      BY <1>5, <1>6, <2>1, <2>2, <3>1, <3>2, <3>3, <3>4 DEF TopicStages, AtWork
  <2>3. CASE j # h
    BY <1>4, <1>5, <1>6, <2>1, <2>3 DEF IInv, NoOvertaking, Unread
  <2> QED
    BY <2>2, <2>3
<1> QED
  BY <1>9, <1>10, <1>11, <1>12, <1>13, <1>14 DEF IInv

\* Callbacks and handlers begin and end, and connections close.
LEMMA MoveOnIInv ==
    ASSUME IInv, TypeOK', frames' = frames,
           \A i \in Ids : \/ stage'[i] = stage[i]
                          \/ /\ stage[i] \notin Unread /\ stage'[i] \notin Unread
                             /\ i \in DOMAIN frames /\ IsTopic(i) => stage'[i] = "done",
           \A l \in Links :
              \/ blocked'[l] = blocked[l]
              \/ \A i \in DOMAIN frames :
                    IsTopic(i) /\ frames[i].link = l => stage'[i] \notin AtWork,
           \A l \in Links :
              \/ outbox'[l] = outbox[l] /\ (link'[l] = "open" => link[l] = "open")
              \/ outbox'[l] = <<>> /\ link'[l] # "open",
           \A l \in Links :
              \/ stream'[l] = stream[l] /\ (link[l] = "closed" => link'[l] = "closed")
              \/ stream'[l] = <<>> /\ link'[l] = "closed"
    PROVE  IInv'
<1>1. \A i \in DOMAIN frames : i \in Ids /\ frames[i].link \in Links
  BY FrameType DEF IInv
<1>2. SentAreNumbered'
  BY DEF IInv, SentAreNumbered, Unread
<1>3. WaysDiffer'
  BY <1>1 DEF IInv, WaysDiffer, IsTopic, TopicStages, Unread
<1>4. OutboxInOrder'
  BY <1>1 DEF IInv, OutboxInOrder, IsTopic, Unread
<1>5. StreamInOrder'
  BY <1>1 DEF IInv, StreamInOrder, IsTopic, Unread
<1>6. NothingAstray'
  BY <1>1 DEF IInv, NothingAstray, IsTopic, Unread, AtWork
<1>7. NoOvertaking'
  BY <1>1 DEF IInv, NoOvertaking, IsTopic, Unread
<1> QED
  BY <1>2, <1>3, <1>4, <1>5, <1>6, <1>7 DEF IInv

LEMMA ReadingIInv == ASSUME IInv, NEW l \in Links, Reading(l) PROVE IInv'
<1>1. CASE TakeMessage(l) \/ TakeRequest(l)
  BY <1>1, TakeIInv
<1>2. CASE ReadFails(l) \/ ReadEof(l)
  <2>1. UNCHANGED <<frames, stage, blocked, torn, offered>> /\ CloseLink(l)
    BY <1>2 DEF ReadFails, ReadEof
  <2>2. TypeOK'
    BY <2>1 DEF IInv, TypeOK, CloseLink
  <2> QED
    BY <2>1, <2>2, MoveOnIInv DEF IInv, TypeOK, CloseLink
<1> QED
  BY <1>1, <1>2 DEF Reading

\* What a user sends next has a name.
LEMMA ScriptedName ==
    ASSUME IInv, NEW l \in Links, Scripted(l) < Len(Script[l])
    PROVE  Script[l][Scripted(l) + 1] \in Names
<1>1. frames \in Seq(Frame)
  BY DEF IInv, TypeOK
<1>2. Scripted(l) \in Nat
  <2>1. IsFiniteSet(1..Len(frames))
    BY <1>1, FS_Interval
  <2>2. {i \in DOMAIN frames : frames[i].link = l /\ frames[i].parent = 0} \subseteq 1..Len(frames)
    BY <1>1
  <2> QED
    BY <2>1, <2>2, FS_Subset, FS_CardinalityType DEF Scripted
<1>3. Script[l] \in Seq(Names) /\ Scripted(l) + 1 \in 1..Len(Script[l])
  BY <1>2, ProviderAssumption
<1> QED
  BY <1>3

LEMMA SendingIInv == ASSUME IInv, NEW l \in Links, Sending(l) PROVE IInv'
<1>1. TypeOK /\ frames \in Seq(Frame)
  BY DEF IInv, TypeOK
<1>2. CASE Scripted(l) < Len(Script[l])
           /\ LET name == Script[l][Scripted(l) + 1]
              IN  IF name \in Topics THEN Send(l, name) ELSE CallService(l, name)
  <2> DEFINE name == Script[l][Scripted(l) + 1]
  <2>2. name \in Names
    BY <1>2, ScriptedName
  <2>3. CASE name \in Topics
    BY <1>2, <2>3, SendIInv
  <2>4. CASE name \notin Topics
    <3> HIDE DEF name
    <3>1. name \in Services /\ name \in Names /\ 0 \in 0..MaxFrames
      BY <2>2, <2>4, ProviderAssumption DEF Names
    <3>2. CallService(l, name)
      BY <1>2, <2>4 DEF name
    <3>3. /\ NewFrame(l, name, 0)
          /\ stage' = [stage EXCEPT ![Len(frames')] = "sent"]
          /\ stream' = [stream EXCEPT ![l] = Append(@, Len(frames'))]
          /\ UNCHANGED <<outbox, blocked, link, torn, offered>>
      BY <3>2 DEF CallService
    <3>4. /\ Len(frames') \in Ids /\ Len(frames') \notin DOMAIN frames
          /\ DOMAIN frames' = DOMAIN frames \cup {Len(frames')}
          /\ \A i \in DOMAIN frames : i \in Ids
      BY <1>1, <3>1, <3>3, NewFrameFacts
    <3> DEFINE new == Len(frames')
    <3> HIDE DEF new
    <3>5. /\ stage' \in [Ids -> Stages] /\ stage'[new] = "sent"
          /\ \A i \in Ids : i # new => stage'[i] = stage[i]
      <4>1. new \in Ids /\ stage' = [stage EXCEPT ![new] = "sent"]
        BY <3>3, <3>4 DEF new
      <4> QED
        BY <1>1, <4>1 DEF TypeOK, Stages, Unread
    <3>6. /\ stage'[Len(frames')] = "sent"
          /\ \A i \in DOMAIN frames : stage'[i] = stage[i]
          /\ \A i \in Ids : i \notin DOMAIN frames' => stage'[i] = stage[i]
      BY <3>4, <3>5 DEF new
    <3> QED
      BY <3>1, <3>3, <3>5, <3>6, RequestIInv
  <2> QED
    BY <2>3, <2>4
<1>3. CASE PeerCloses(l)
  <2>1. TypeOK'
    BY <1>3 DEF IInv, TypeOK, PeerCloses
  <2> QED
    BY <1>3, <2>1, MoveOnIInv DEF IInv, TypeOK, PeerCloses
<1> QED
  BY <1>2, <1>3 DEF Sending

\* What callbacks and handlers do.
LEMMA CallBackIInv == ASSUME IInv, NEW i \in Ids, CallBack(i) PROVE IInv'
<1> DEFINE l == Back(frames[i].link)
           s == Nested[frames[i].name]
           new == Len(frames')
<1>1. TypeOK
  BY DEF IInv
<1>2. i \in DOMAIN frames
  BY DEF CallBack, IInv, SentAreNumbered
<1>3. frames[i].link \in Links /\ frames[i].name \in Names
  BY <1>1, <1>2, FrameType
<1>4. l \in Links
  BY <1>3 DEF Links, Back
<1>5. s \in Services /\ s \in Names /\ i \in 0..MaxFrames
  BY <1>3, ProviderAssumption DEF CallBack, Names, Ids
<1>6. /\ NewFrame(l, s, i)
      /\ stream' = [stream EXCEPT ![l] = Append(@, new)]
      /\ stage' = [stage EXCEPT ![i] = "calling", ![new] = "sent"]
      /\ stage[i] = "running"
      /\ UNCHANGED <<outbox, blocked, link, torn, offered>>
  BY DEF CallBack
<1> HIDE DEF l, s
<1>7. /\ new \in Ids /\ new \notin DOMAIN frames
      /\ DOMAIN frames' = DOMAIN frames \cup {new}
      /\ \A j \in DOMAIN frames : j \in Ids
  BY <1>1, <1>4, <1>5, <1>6, NewFrameFacts
<1>8. /\ stage' \in [Ids -> Stages] /\ stage'[new] = "sent" /\ stage'[i] = "calling"
      /\ \A j \in Ids : j # new /\ j # i => stage'[j] = stage[j]
  <2> HIDE DEF new
  <2> QED
    BY <1>1, <1>2, <1>6, <1>7 DEF TypeOK, Stages, Unread, AtWork
<1>9. /\ \A j \in DOMAIN frames :
            stage'[j] = stage[j] \/ (stage[j] = "running" /\ stage'[j] = "calling")
      /\ \A j \in Ids : j \notin DOMAIN frames' => stage'[j] = stage[j]
  <2> HIDE DEF new
  <2> QED
    BY <1>2, <1>6, <1>7, <1>8
<1> QED
  BY <1>4, <1>5, <1>6, <1>8, <1>9, RequestIInv

LEMMA HandlerIInv ==
    ASSUME IInv, NEW i \in Ids, StartHandler(i) \/ HandlerEnds(i) \/ HandlerCancelled(i)
    PROVE  IInv'
<1>1. /\ UNCHANGED <<frames, outbox, stream, blocked, link, offered>>
      /\ \E x \in {"running", "torn", "cancelled"} \cup {"dropped", "garbled", "answered"} :
            stage' = [stage EXCEPT ![i] = x]
      /\ stage[i] \in {"task", "running", "calling"}
      /\ stage[i] = "task" \/ ~IsTopic(i)
  BY DEF StartHandler, HandlerEnds, HandlerCancelled, Respond, RespondTorn, Written, Finished,
         AtWork
<1>2. torn' \in SUBSET Links
  <2>1. i \in DOMAIN frames
    BY <1>1 DEF IInv, SentAreNumbered
  <2>2. torn' = torn \/ torn' = torn \cup {frames[i].link}
    BY DEF StartHandler, HandlerEnds, HandlerCancelled, Respond, RespondTorn
  <2>3. frames[i].link \in Links
    BY <2>1, FrameType DEF IInv
  <2> QED
    BY <2>2, <2>3 DEF IInv, TypeOK
<1>3. TypeOK'
  BY <1>1, <1>2 DEF IInv, TypeOK, Stages, AtWork, Unanswered
<1>4. i \in DOMAIN frames => ~IsTopic(i)
  BY <1>1 DEF IInv, WaysDiffer, TopicStages
<1>5. \A j \in Ids : \/ stage'[j] = stage[j]
                     \/ /\ stage[j] \notin Unread /\ stage'[j] \notin Unread
                        /\ j \in DOMAIN frames /\ IsTopic(j) => stage'[j] = "done"
  BY <1>1, <1>4 DEF IInv, TypeOK, Unread
<1> QED
  BY <1>1, <1>3, <1>5, MoveOnIInv

LEMMA CallbackIInv ==
    ASSUME IInv, NEW i \in Ids, CallbackEnds(i) \/ CallbackCancelled(i)
    PROVE  IInv'
<1>1. /\ UNCHANGED <<frames, torn, offered>>
      /\ stage' = [stage EXCEPT ![i] = "done"]
      /\ blocked' = [blocked EXCEPT ![frames[i].link] = 0]
      /\ UNCHANGED <<outbox, stream, link>> \/ CloseLink(frames[i].link)
      /\ stage[i] \in AtWork /\ IsTopic(i)
  BY DEF CallbackEnds, CallbackCancelled, Finished, AtWork
<1>2. i \in DOMAIN frames /\ TypeOK
  BY <1>1 DEF IInv, SentAreNumbered, AtWork
<1>3. frames[i].link \in Links
  BY <1>2, FrameType
<1>4. TypeOK'
  <2>1. 0 \in 0..MaxFrames
    BY ProviderAssumption
  <2>2. stage' \in [Ids -> Stages] /\ blocked' \in [Links -> 0..MaxFrames]
    BY <1>1, <1>2, <2>1 DEF TypeOK, Stages
  <2>3. /\ outbox' \in [Links -> Seq(Ids)] /\ stream' \in [Links -> Seq(Ids)]
        /\ link' \in [Links -> {"open", "ending", "closed"}]
    <3>1. CASE UNCHANGED <<outbox, stream, link>>
      BY <1>2, <3>1 DEF TypeOK
    <3>2. CASE CloseLink(frames[i].link)
      BY <1>2, <1>3, <3>2 DEF TypeOK, CloseLink
    <3> QED
      BY <1>1, <3>1, <3>2
  <2> QED
    BY <1>1, <1>2, <2>2, <2>3 DEF TypeOK
<1>5. \A j \in Ids : \/ stage'[j] = stage[j]
                     \/ /\ stage[j] \notin Unread /\ stage'[j] \notin Unread
                        /\ j \in DOMAIN frames /\ IsTopic(j) => stage'[j] = "done"
  BY <1>1, <1>2 DEF TypeOK, Unread, AtWork
\* i was the one that the handler awaited.
<1>6. \A j \in DOMAIN frames :
          IsTopic(j) /\ frames[j].link = frames[i].link => stage'[j] \notin AtWork
  <2> SUFFICES ASSUME NEW j \in DOMAIN frames, IsTopic(j), frames[j].link = frames[i].link
               PROVE  stage'[j] \notin AtWork
    OBVIOUS
  <2>1. stage[j] \in AtWork => j = i
    BY <1>1, <1>2 DEF IInv, NothingAstray
  <2>2. j \in Ids
    BY <1>2, FrameType
  <2> QED
    BY <1>1, <1>2, <2>1, <2>2 DEF TypeOK, AtWork
<1>7. \A l \in Links :
          \/ blocked'[l] = blocked[l]
          \/ \A j \in DOMAIN frames :
                IsTopic(j) /\ frames[j].link = l => stage'[j] \notin AtWork
  BY <1>1, <1>2, <1>6 DEF TypeOK
<1>8. \A l \in Links :
          /\ \/ outbox'[l] = outbox[l] /\ (link'[l] = "open" => link[l] = "open")
             \/ outbox'[l] = <<>> /\ link'[l] # "open"
          /\ \/ stream'[l] = stream[l] /\ (link[l] = "closed" => link'[l] = "closed")
             \/ stream'[l] = <<>> /\ link'[l] = "closed"
  BY <1>1, <1>2, <1>3 DEF TypeOK, CloseLink
<1> QED
  BY <1>1, <1>4, <1>5, <1>7, <1>8, MoveOnIInv

LEMMA NextIInv == ASSUME IInv, [Next]_vars PROVE IInv'
<1>1. ASSUME NEW l \in Links, Sending(l) \/ Flush(l) \/ Reading(l)
      PROVE  IInv'
  BY <1>1, SendingIInv, FlushIInv, ReadingIInv
<1>2. ASSUME NEW i \in Ids, Working(i) \/ CallbackCancelled(i) \/ HandlerCancelled(i)
      PROVE  IInv'
  BY <1>2, CallBackIInv, HandlerIInv, CallbackIInv DEF Working
<1>3. ASSUME NEW c \in Changing, Offer(c) \/ Withdraw(c)
      PROVE  IInv'
  <2>1. TypeOK'
    BY <1>3, ProviderAssumption DEF IInv, TypeOK, Offer, Withdraw
  <2> QED
    BY <1>3, <2>1, MoveOnIInv DEF Offer, Withdraw
<1>4. CASE UNCHANGED vars
  <2>1. TypeOK'
    BY <1>4 DEF IInv, TypeOK, vars
  <2> QED
    BY <1>4, <2>1, MoveOnIInv DEF vars
<1> QED
  BY <1>1, <1>2, <1>3, <1>4 DEF Next

----------------------------------------------------------------------------
(* Who waits for what: what is needed so that nothing is stuck.            *)

IsIn(i, q) == \E k \in DOMAIN q : q[k] = i

\* A call from within goes back to the node of the message or request, later.
CallsGoBack ==
    \A j \in DOMAIN frames :
        frames[j].parent # 0 =>
            /\ frames[j].parent \in DOMAIN frames
            /\ frames[j].parent < j
            /\ frames[j].link = Back(frames[frames[j].parent].link)
            /\ ~IsTopic(j)

\* Frame i is a message of link l, whose callback is at work.
IsAtWork(i, l) ==
    /\ i \in DOMAIN frames
    /\ frames[i].link = l
    /\ IsTopic(i)
    /\ stage[i] \in AtWork

AwaitedAreAtWork == \A l \in Links : blocked[l] # 0 => IsAtWork(blocked[l], l)

RequestStages == {"sent", "task"} \cup AtWork \cup {"answered"} \cup Unanswered

\* A request that is not read is in the stream, and one that will not be answered
\* has a reason.
RequestIsAccounted(i) ==
    /\ stage[i] \in RequestStages
    /\ stage[i] = "sent" /\ link[frames[i].link] # "closed" => IsIn(i, stream[frames[i].link])
    /\ stage[i] \in {"torn", "garbled"} => frames[i].link \in torn
    /\ stage[i] = "dropped" => link[frames[i].link] # "open"

RequestsAreAccounted == \A i \in DOMAIN frames : ~IsTopic(i) => RequestIsAccounted(i)

WaitInv == CallsGoBack /\ AwaitedAreAtWork /\ RequestsAreAccounted

LEMMA InitWaitInv == Init => WaitInv
<1> SUFFICES ASSUME Init PROVE WaitInv
  OBVIOUS
<1>1. DOMAIN frames = {} /\ \A l \in Links : blocked[l] = 0
  BY DEF Init
<1> QED
  BY <1>1 DEF WaitInv, CallsGoBack, AwaitedAreAtWork, RequestsAreAccounted

LEMMA AppendKeeps ==
    ASSUME NEW q \in Seq(Ids), NEW x \in Ids
    PROVE  /\ IsIn(x, Append(q, x))
           /\ \A i : IsIn(i, q) => IsIn(i, Append(q, x))
<1>1. /\ Len(q) \in Nat /\ DOMAIN q = 1..Len(q)
      /\ DOMAIN Append(q, x) = 1..(Len(q) + 1)
      /\ Append(q, x)[Len(q) + 1] = x
      /\ \A k \in 1..Len(q) : Append(q, x)[k] = q[k]
  OBVIOUS
<1>2. Len(q) + 1 \in 1..(Len(q) + 1) /\ \A k \in 1..Len(q) : k \in 1..(Len(q) + 1)
  BY <1>1
<1> QED
  BY <1>1, <1>2 DEF IsIn

LEMMA TailKeeps ==
    ASSUME NEW q \in Seq(Ids), q # <<>>, NEW i, IsIn(i, q), i # Head(q)
    PROVE  IsIn(i, Tail(q))
<1>1. PICK k \in DOMAIN q : q[k] = i
  BY DEF IsIn
<1>2. /\ Len(q) \in Nat /\ k \in 1..Len(q) /\ Head(q) = q[1]
      /\ DOMAIN Tail(q) = 1..(Len(q) - 1)
      /\ \A n \in 1..(Len(q) - 1) : Tail(q)[n] = q[n + 1]
  OBVIOUS
<1>3. k # 1
  BY <1>1, <1>2
<1>4. k - 1 \in 1..(Len(q) - 1) /\ (k - 1) + 1 = k
  BY <1>2, <1>3
<1> QED
  BY <1>1, <1>2, <1>4 DEF IsIn

\* What is kept when nothing is sent.
LEMMA KeepsWaitInv ==
    ASSUME IInv, WaitInv, frames' = frames, torn \subseteq torn',
           \A i \in DOMAIN frames :
              ~IsTopic(i) /\ stage'[i] # stage[i]
              => /\ stage'[i] \in RequestStages \ {"sent"}
                 /\ stage'[i] \in {"torn", "garbled"} => frames[i].link \in torn'
                 /\ stage'[i] = "dropped" => link[frames[i].link] # "open",
           \A l \in Links :
              /\ link[l] # "open" => link'[l] # "open"
              /\ link[l] = "closed" => link'[l] = "closed"
              /\ (blocked[l] # 0 => IsAtWork(blocked[l], l))'
              /\ link'[l] = "closed"
                 \/ \A i \in DOMAIN frames :
                       ~IsTopic(i) /\ IsIn(i, stream[l]) /\ stage'[i] = "sent" => IsIn(i, stream'[l])
    PROVE  WaitInv'
<1>1. CallsGoBack'
  BY DEF WaitInv, CallsGoBack, IsTopic
<1>2. AwaitedAreAtWork'
  BY DEF AwaitedAreAtWork
<1>3. RequestsAreAccounted'
  <2> SUFFICES ASSUME NEW i \in DOMAIN frames, ~IsTopic(i)
               PROVE  RequestIsAccounted(i)'
    BY DEF RequestsAreAccounted, IsTopic
  <2>1. RequestIsAccounted(i) /\ frames[i].link \in Links
    BY FrameType DEF IInv, WaitInv, RequestsAreAccounted
  <2>2. CASE stage'[i] = stage[i]
    BY <2>1, <2>2 DEF RequestIsAccounted
  <2>3. CASE stage'[i] # stage[i]
    BY <2>1, <2>3 DEF RequestIsAccounted
  <2> QED
    BY <2>2, <2>3
<1> QED
  BY <1>1, <1>2, <1>3 DEF WaitInv

\* What is kept when a message or a request is sent.
LEMMA SentWaitInv ==
    ASSUME IInv, WaitInv, NEW l \in Links, NEW name \in Names, NEW parent \in 0..MaxFrames,
           NewFrame(l, name, parent),
           parent # 0 => /\ parent \in DOMAIN frames
                         /\ l = Back(frames[parent].link)
                         /\ name \notin Topics,
           name \notin Topics => /\ stage'[Len(frames')] = "sent"
                                 /\ stream' = [stream EXCEPT ![l] = Append(@, Len(frames'))],
           name \in Topics => stream' = stream,
           \A i \in DOMAIN frames :
              stage'[i] = stage[i] \/ (stage[i] = "running" /\ stage'[i] = "calling"),
           UNCHANGED <<blocked, link, torn>>
    PROVE  WaitInv'
<1> DEFINE new == Len(frames')
<1>1. /\ new \in Ids /\ new \notin DOMAIN frames
      /\ DOMAIN frames' = DOMAIN frames \cup {new}
      /\ \A i \in DOMAIN frames : frames'[i] = frames[i] /\ i < new /\ i \in Ids
      /\ frames'[new] = [link |-> l, name |-> name, parent |-> parent]
  BY NewFrameFacts DEF IInv
<1>2. name \notin Topics => /\ stage'[new] = "sent"
                            /\ stream' = [stream EXCEPT ![l] = Append(@, new)]
  OBVIOUS
<1> HIDE DEF new
<1>3. /\ frames'[new].link = l /\ frames'[new].name = name /\ frames'[new].parent = parent
      /\ \A i \in DOMAIN frames : i # new
  BY <1>1
<1>4. stream \in [Links -> Seq(Ids)]
  BY DEF IInv, TypeOK
<1>5. \A m \in Links, i \in Ids : IsIn(i, stream[m]) => IsIn(i, stream'[m])
  <2> SUFFICES ASSUME NEW m \in Links, NEW i \in Ids, IsIn(i, stream[m])
               PROVE  IsIn(i, stream'[m])
    OBVIOUS
  <2>1. CASE name \notin Topics /\ m = l
    <3>1. stream'[m] = Append(stream[m], new) /\ stream[m] \in Seq(Ids)
      BY <1>2, <1>4, <2>1
    <3>2. IsIn(i, Append(stream[m], new))
      BY <1>1, <3>1, AppendKeeps
    <3> QED
      BY <3>1, <3>2
  <2>2. CASE ~ (name \notin Topics /\ m = l)
    <3>1. stream'[m] = stream[m]
      BY <1>2, <1>4, <2>2
    <3> QED
      BY <3>1
  <2> QED
    BY <2>1, <2>2
<1>6. name \notin Topics => IsIn(new, stream'[l])
  <2>1. IsIn(new, Append(stream[l], new))
    BY <1>1, <1>4, AppendKeeps
  <2>2. name \notin Topics => stream'[l] = Append(stream[l], new)
    BY <1>2, <1>4
  <2> QED
    BY <2>1, <2>2
<1>7. CallsGoBack'
  <2> SUFFICES ASSUME NEW j \in DOMAIN frames', frames'[j].parent # 0
               PROVE  /\ frames'[j].parent \in DOMAIN frames'
                      /\ frames'[j].parent < j
                      /\ frames'[j].link = Back(frames'[frames'[j].parent].link)
                      /\ frames'[j].name \notin Topics
    BY DEF CallsGoBack, IsTopic
  <2>1. CASE j = new
    BY <1>1, <1>3, <2>1
  <2>2. CASE j # new
    <3>1. j \in DOMAIN frames /\ frames'[j] = frames[j]
      BY <1>1, <2>2
    <3>2. /\ frames[j].parent \in DOMAIN frames
          /\ frames[j].parent < j
          /\ frames[j].link = Back(frames[frames[j].parent].link)
          /\ frames[j].name \notin Topics
      BY <3>1 DEF WaitInv, CallsGoBack, IsTopic
    <3> QED
      BY <1>1, <3>1, <3>2
  <2> QED
    BY <2>1, <2>2
<1>8. AwaitedAreAtWork'
  <2> SUFFICES ASSUME NEW m \in Links, blocked[m] # 0
               PROVE  IsAtWork(blocked[m], m)'
    BY DEF AwaitedAreAtWork, IsAtWork, IsTopic
  <2>1. IsAtWork(blocked[m], m)
    BY DEF WaitInv, AwaitedAreAtWork
  <2> QED
    BY <1>1, <2>1 DEF IsAtWork, IsTopic, AtWork
<1>9. RequestsAreAccounted'
  <2> SUFFICES ASSUME NEW i \in DOMAIN frames', frames'[i].name \notin Topics
               PROVE  RequestIsAccounted(i)'
    BY DEF RequestsAreAccounted, IsTopic
  <2>1. CASE i = new
    <3>1. stage'[new] = "sent" /\ IsIn(new, stream'[l]) /\ frames'[new].link = l
      BY <1>2, <1>3, <1>6, <2>1
    <3> QED
      BY <2>1, <3>1 DEF RequestIsAccounted, RequestStages
  <2>2. CASE i # new
    <3>1. i \in DOMAIN frames /\ frames'[i] = frames[i] /\ i \in Ids /\ frames[i].link \in Links
      BY <1>1, <2>2, FrameType DEF IInv
    <3>2. RequestIsAccounted(i)
      BY <3>1 DEF WaitInv, RequestsAreAccounted, IsTopic
    <3>3. IsIn(i, stream[frames[i].link]) => IsIn(i, stream'[frames[i].link])
      BY <1>5, <3>1
    <3>4. stage'[i] = stage[i] \/ stage'[i] = "calling"
      BY <3>1
    <3> QED
      BY <3>1, <3>2, <3>3, <3>4 DEF RequestIsAccounted, RequestStages, AtWork
  <2> QED
    BY <2>1, <2>2
<1> QED
  BY <1>7, <1>8, <1>9 DEF WaitInv

\* What is at work remains so, unless it is what ends.
LEMMA StillAtWork ==
    ASSUME IInv, WaitInv, frames' = frames, NEW l \in Links,
           blocked'[l] = blocked[l],
           blocked[l] # 0 => stage'[blocked[l]] = stage[blocked[l]]
    PROVE  (blocked[l] # 0 => IsAtWork(blocked[l], l))'
  BY DEF WaitInv, AwaitedAreAtWork, IsAtWork, IsTopic

LEMMA FlushWaitInv == ASSUME IInv, WaitInv, NEW l \in Links, Flush(l) PROVE WaitInv'
<1> DEFINE h == Head(outbox[l])
<1>1. /\ stream' = [stream EXCEPT ![l] = Append(@, h)]
      /\ stage' = [stage EXCEPT ![h] = "sent"]
      /\ UNCHANGED <<frames, blocked, link, torn, offered>>
  BY DEF Flush
<1>2. h \in DOMAIN frames /\ IsTopic(h) /\ stage[h] = "queued" /\ h \in Ids
  <2>1. outbox[l] \in Seq(Ids) /\ outbox[l] # <<>>
    BY DEF Flush, IInv, TypeOK
  <2>2. 1 \in DOMAIN outbox[l] /\ h = outbox[l][1]
    BY <2>1
  <2> QED
    BY <2>2, FrameType DEF IInv, OutboxInOrder
<1> HIDE DEF h
<1>3. stage \in [Ids -> Stages] /\ stream \in [Links -> Seq(Ids)]
  BY DEF IInv, TypeOK
<1>4. \A i \in Ids : i # h => stage'[i] = stage[i]
  BY <1>1, <1>3
<1>5. \A m \in Links : (blocked[m] # 0 => IsAtWork(blocked[m], m))'
  <2> SUFFICES ASSUME NEW m \in Links PROVE (blocked[m] # 0 => IsAtWork(blocked[m], m))'
    OBVIOUS
  <2>1. blocked[m] # 0 => blocked[m] # h /\ blocked[m] \in Ids
    BY <1>2, FrameType DEF WaitInv, AwaitedAreAtWork, IsAtWork, AtWork, IInv
  <2> QED
    BY <1>1, <1>4, <2>1, StillAtWork
<1>6. \A m \in Links : \A i : IsIn(i, stream[m]) => IsIn(i, stream'[m])
  <2> SUFFICES ASSUME NEW m \in Links, NEW i, IsIn(i, stream[m]) PROVE IsIn(i, stream'[m])
    OBVIOUS
  <2>1. CASE m = l
    <3>1. stream'[m] = Append(stream[m], h) /\ stream[m] \in Seq(Ids)
      BY <1>1, <1>3, <2>1
    <3> QED
      BY <1>2, <3>1, AppendKeeps
  <2>2. CASE m # l
    BY <1>1, <1>3, <2>2
  <2> QED
    BY <2>1, <2>2
<1> QED
  BY <1>1, <1>2, <1>4, <1>5, <1>6, KeepsWaitInv

LEMMA TakeWaitInv ==
    ASSUME IInv, WaitInv, NEW l \in Links, TakeMessage(l) \/ TakeRequest(l)
    PROVE  WaitInv'
<1> DEFINE h == Head(stream[l])
<1>1. /\ CanRead(l)
      /\ stream[l] # <<>>
      /\ stream' = [stream EXCEPT ![l] = Tail(@)]
      /\ UNCHANGED <<frames, outbox, link, torn, offered>>
      /\ \/ /\ ~IsTopic(h) /\ stage' = [stage EXCEPT ![h] = "task"]
            /\ UNCHANGED blocked
         \/ /\ IsTopic(h) /\ stage' = [stage EXCEPT ![h] = "done"]
            /\ UNCHANGED blocked
         \/ /\ IsTopic(h) /\ stage' = [stage EXCEPT ![h] = "running"]
            /\ blocked' = [blocked EXCEPT ![l] = h]
  BY DEF TakeMessage, TakeRequest
<1>2. /\ stage \in [Ids -> Stages] /\ stream \in [Links -> Seq(Ids)]
      /\ blocked \in [Links -> 0..MaxFrames]
  BY DEF IInv, TypeOK
<1>3. h \in DOMAIN frames /\ frames[h].link = l /\ stage[h] = "sent" /\ h \in Ids
  <2>1. stream[l] \in Seq(Ids)
    BY <1>2
  <2>2. 1 \in DOMAIN stream[l] /\ h = stream[l][1]
    BY <1>1, <2>1
  <2> QED
    BY <2>2, FrameType DEF IInv, StreamInOrder
<1>4. \A m \in Links : \A i : IsIn(i, stream[m]) /\ i # h => IsIn(i, stream'[m])
  <2> SUFFICES ASSUME NEW m \in Links, NEW i, IsIn(i, stream[m]), i # h
               PROVE  IsIn(i, stream'[m])
    OBVIOUS
  <2>1. CASE m = l
    <3>1. stream'[m] = Tail(stream[m]) /\ stream[m] \in Seq(Ids) /\ stream[m] # <<>> /\ h = Head(stream[m])
      BY <1>1, <1>2, <2>1
    <3> HIDE DEF h
    <3> QED
      BY <3>1, TailKeeps
  <2>2. CASE m # l
    BY <1>1, <1>2, <2>2
  <2> QED
    BY <2>1, <2>2
<1> HIDE DEF h
<1>5. \A i \in Ids : i # h => stage'[i] = stage[i]
  BY <1>1, <1>2
<1>6. stage'[h] # "sent" /\ (~IsTopic(h) => stage'[h] = "task")
  BY <1>1, <1>2, <1>3
<1>7. \A m \in Links : (blocked[m] # 0 => IsAtWork(blocked[m], m))'
  <2> SUFFICES ASSUME NEW m \in Links PROVE (blocked[m] # 0 => IsAtWork(blocked[m], m))'
    OBVIOUS
  <2>1. CASE blocked'[m] = blocked[m]
    <3>1. blocked[m] # 0 => blocked[m] # h /\ blocked[m] \in Ids
      BY <1>3, FrameType DEF WaitInv, AwaitedAreAtWork, IsAtWork, AtWork, IInv
    <3> QED
      BY <1>1, <1>5, <2>1, <3>1, StillAtWork
  <2>2. CASE blocked'[m] # blocked[m]
    <3>1. m = l /\ blocked'[m] = h /\ IsTopic(h) /\ stage'[h] = "running"
      BY <1>1, <1>2, <1>3, <2>2
    <3> QED
      BY <1>1, <1>3, <3>1 DEF IsAtWork, IsTopic, AtWork
  <2> QED
    BY <2>1, <2>2
<1>8. \A i \in DOMAIN frames :
          ~IsTopic(i) /\ stage'[i] # stage[i] => stage'[i] = "task"
  BY <1>5, <1>6, FrameType DEF IInv
<1>9. \A m \in Links : \A i \in DOMAIN frames :
          IsIn(i, stream[m]) /\ stage'[i] = "sent" => IsIn(i, stream'[m])
  BY <1>4, <1>6
<1> QED
  BY <1>1, <1>7, <1>8, <1>9, KeepsWaitInv DEF RequestStages

LEMMA LinkWaitInv ==
    ASSUME IInv, WaitInv, NEW l \in Links, PeerCloses(l) \/ ReadFails(l) \/ ReadEof(l)
    PROVE  WaitInv'
<1>1. UNCHANGED <<frames, stage, blocked, torn, offered>>
  BY DEF PeerCloses, ReadFails, ReadEof
<1>2. \/ link' = [link EXCEPT ![l] = "ending"] /\ link[l] = "open" /\ stream' = stream
      \/ link' = [link EXCEPT ![l] = "closed"] /\ stream' = [stream EXCEPT ![l] = <<>>]
  BY DEF PeerCloses, ReadFails, ReadEof, CloseLink
<1>3. /\ link \in [Links -> {"open", "ending", "closed"}]
      /\ stream \in [Links -> Seq(Ids)]
  BY DEF IInv, TypeOK
<1>4. \A m \in Links : /\ link[m] # "open" => link'[m] # "open"
                       /\ link[m] = "closed" => link'[m] = "closed"
                       /\ link'[m] = "closed" \/ stream'[m] = stream[m]
  BY <1>2, <1>3
<1>5. \A m \in Links : (blocked[m] # 0 => IsAtWork(blocked[m], m))'
  BY <1>1, StillAtWork
<1> QED
  BY <1>1, <1>4, <1>5, KeepsWaitInv

LEMMA HandlerWaitInv ==
    ASSUME IInv, WaitInv, NEW i \in Ids, StartHandler(i) \/ HandlerEnds(i) \/ HandlerCancelled(i)
    PROVE  WaitInv'
<1> DEFINE l == frames[i].link
<1>1. /\ UNCHANGED <<frames, outbox, stream, blocked, link, offered>>
      /\ stage[i] \in {"task", "running", "calling"}
      /\ stage[i] = "task" \/ ~IsTopic(i)
  BY DEF StartHandler, HandlerEnds, HandlerCancelled, Respond, RespondTorn, Written, Finished,
         AtWork
<1>2. \/ stage' = [stage EXCEPT ![i] = "running"] /\ torn' = torn
      \/ stage' = [stage EXCEPT ![i] = "cancelled"] /\ torn' = torn
      \/ stage' = [stage EXCEPT ![i] = Written(i)] /\ torn' = torn
      \/ stage' = [stage EXCEPT ![i] = "torn"] /\ torn' = torn \cup {l}
  BY DEF StartHandler, HandlerEnds, HandlerCancelled, Respond, RespondTorn
<1>3. \/ Written(i) = "dropped" /\ link[l] # "open"
      \/ Written(i) = "garbled" /\ l \in torn
      \/ Written(i) = "answered"
  BY DEF Written
<1>4. i \in DOMAIN frames /\ stage \in [Ids -> Stages]
  BY <1>1 DEF IInv, SentAreNumbered, TypeOK
<1>5. ~IsTopic(i)
  BY <1>1, <1>4 DEF IInv, WaysDiffer, TopicStages
<1> HIDE DEF l
<1>6. \A j \in Ids : j # i => stage'[j] = stage[j]
  BY <1>2, <1>4
<1>7. /\ torn \subseteq torn'
      /\ stage'[i] \in RequestStages \ {"sent"}
      /\ stage'[i] \in {"torn", "garbled"} => l \in torn'
      /\ stage'[i] = "dropped" => link[l] # "open"
  BY <1>2, <1>3, <1>4 DEF RequestStages, AtWork, Unanswered
<1>8. \A m \in Links : (blocked[m] # 0 => IsAtWork(blocked[m], m))'
  <2> SUFFICES ASSUME NEW m \in Links PROVE (blocked[m] # 0 => IsAtWork(blocked[m], m))'
    OBVIOUS
  <2>1. blocked[m] # 0 => blocked[m] # i /\ blocked[m] \in Ids
    BY <1>5, FrameType DEF WaitInv, AwaitedAreAtWork, IsAtWork, IInv
  <2> QED
    BY <1>1, <1>6, <2>1, StillAtWork
<1>9. \A j \in DOMAIN frames : ~IsTopic(j) /\ stage'[j] # stage[j] => j = i
  BY <1>6, FrameType DEF IInv
<1> QED
  BY <1>1, <1>7, <1>8, <1>9, KeepsWaitInv DEF l

LEMMA CallbackWaitInv ==
    ASSUME IInv, WaitInv, NEW i \in Ids, CallbackEnds(i) \/ CallbackCancelled(i)
    PROVE  WaitInv'
<1> DEFINE l == frames[i].link
<1>1. /\ UNCHANGED <<frames, torn, offered>>
      /\ stage' = [stage EXCEPT ![i] = "done"]
      /\ blocked' = [blocked EXCEPT ![l] = 0]
      /\ UNCHANGED <<outbox, stream, link>> \/ CloseLink(l)
      /\ stage[i] \in AtWork /\ IsTopic(i)
  BY DEF CallbackEnds, CallbackCancelled, Finished, AtWork
<1>2. i \in DOMAIN frames
  BY <1>1 DEF IInv, SentAreNumbered, AtWork
<1>3. /\ l \in Links /\ stage \in [Ids -> Stages] /\ blocked \in [Links -> 0..MaxFrames]
      /\ link \in [Links -> {"open", "ending", "closed"}] /\ stream \in [Links -> Seq(Ids)]
  BY <1>2, FrameType DEF IInv, TypeOK
<1>4. \A j \in Ids : j # i => stage'[j] = stage[j]
  BY <1>1, <1>3
<1>5. \A m \in Links : (blocked[m] # 0 => IsAtWork(blocked[m], m))'
  <2> SUFFICES ASSUME NEW m \in Links PROVE (blocked[m] # 0 => IsAtWork(blocked[m], m))'
    OBVIOUS
  <2>1. CASE m = l
    BY <1>1, <1>3, <2>1
  <2>2. CASE m # l
    <3>1. blocked'[m] = blocked[m]
      BY <1>1, <1>3, <2>2
    <3>2. blocked[m] # 0 => blocked[m] # i /\ blocked[m] \in Ids
      BY <2>2, FrameType DEF WaitInv, AwaitedAreAtWork, IsAtWork, IInv
    <3> QED
      BY <1>1, <1>4, <3>1, <3>2, StillAtWork
  <2> QED
    BY <2>1, <2>2
<1>6. \A m \in Links : /\ link[m] # "open" => link'[m] # "open"
                       /\ link[m] = "closed" => link'[m] = "closed"
                       /\ link'[m] = "closed" \/ stream'[m] = stream[m]
  <2>1. CASE UNCHANGED <<outbox, stream, link>>
    BY <2>1
  <2>2. CASE CloseLink(l)
    BY <1>3, <2>2 DEF CloseLink
  <2> QED
    BY <1>1, <2>1, <2>2
<1>7. \A j \in DOMAIN frames : ~IsTopic(j) => stage'[j] = stage[j]
  BY <1>1, <1>4
<1> QED
  BY <1>1, <1>5, <1>6, <1>7, KeepsWaitInv

LEMMA SendWaitInv ==
    ASSUME IInv, WaitInv, NEW l \in Links, NEW name \in Names,
           IF name \in Topics THEN Send(l, name) ELSE CallService(l, name)
    PROVE  WaitInv'
<1> DEFINE new == Len(frames')
<1>1. 0 \in 0..MaxFrames /\ TypeOK
  BY ProviderAssumption DEF IInv
<1>2. /\ NewFrame(l, name, 0)
      /\ UNCHANGED <<blocked, link, torn>>
      /\ \/ /\ name \in Topics /\ stage' = [stage EXCEPT ![new] = "queued"]
            /\ stream' = stream
         \/ /\ name \notin Topics /\ stage' = [stage EXCEPT ![new] = "sent"]
            /\ stream' = [stream EXCEPT ![l] = Append(@, new)]
  BY DEF Send, CallService
<1>3. new \in Ids /\ new \notin DOMAIN frames
  BY <1>1, <1>2, NewFrameFacts
<1>4. stage \in [Ids -> Stages]
  BY <1>1 DEF TypeOK
<1>5. name \notin Topics => /\ stage'[new] = "sent"
                            /\ stream' = [stream EXCEPT ![l] = Append(@, new)]
  <2> HIDE DEF new
  <2> QED
    BY <1>2, <1>3, <1>4
<1>6. \A i \in DOMAIN frames : stage'[i] = stage[i]
  <2> HIDE DEF new
  <2> QED
    BY <1>2, <1>3, <1>4
<1> QED
  BY <1>1, <1>2, <1>5, <1>6, SentWaitInv

LEMMA CallBackWaitInv == ASSUME IInv, WaitInv, NEW i \in Ids, CallBack(i) PROVE WaitInv'
<1> DEFINE l == Back(frames[i].link)
           s == Nested[frames[i].name]
           new == Len(frames')
<1>1. TypeOK /\ i \in DOMAIN frames
  BY DEF CallBack, IInv, SentAreNumbered
<1>2. frames[i].link \in Links /\ frames[i].name \in Names
  BY <1>1, FrameType
<1>3. l \in Links
  BY <1>2 DEF Links, Back
<1>4. s \in Names /\ s \notin Topics /\ i \in 0..MaxFrames
  BY <1>2, ProviderAssumption DEF CallBack, Names, Ids
<1>5. /\ NewFrame(l, s, i)
      /\ stream' = [stream EXCEPT ![l] = Append(@, new)]
      /\ stage' = [stage EXCEPT ![i] = "calling", ![new] = "sent"]
      /\ stage[i] = "running"
      /\ UNCHANGED <<outbox, blocked, link, torn, offered>>
  BY DEF CallBack
<1> HIDE DEF s
<1>6. new \in Ids /\ new \notin DOMAIN frames /\ stage \in [Ids -> Stages]
  BY <1>1, <1>3, <1>4, <1>5, NewFrameFacts DEF TypeOK
<1>7. /\ stage'[new] = "sent"
      /\ \A j \in DOMAIN frames :
            stage'[j] = stage[j] \/ (stage[j] = "running" /\ stage'[j] = "calling")
  <2> HIDE DEF new, l
  <2>1. \A j \in DOMAIN frames : j \in Ids /\ j # new
    BY <1>1, <1>6, FrameType
  <2>2. stage'[new] = "sent"
    BY <1>5, <1>6
  <2>3. \A j \in Ids : j # i /\ j # new => stage'[j] = stage[j]
    BY <1>5, <1>6
  <2>4. stage'[i] = "calling"
    BY <1>1, <1>5, <1>6, <2>1
  <2> QED
    BY <1>5, <2>1, <2>2, <2>3, <2>4
<1> QED
  BY <1>1, <1>3, <1>4, <1>5, <1>7, SentWaitInv

LEMMA NextWaitInv == ASSUME IInv, WaitInv, [Next]_vars PROVE WaitInv'
<1>1. ASSUME NEW l \in Links, Sending(l) PROVE WaitInv'
  <2>1. CASE PeerCloses(l)
    BY <2>1, LinkWaitInv
  <2>2. CASE Scripted(l) < Len(Script[l])
             /\ LET name == Script[l][Scripted(l) + 1]
                IN  IF name \in Topics THEN Send(l, name) ELSE CallService(l, name)
    BY <2>2, ScriptedName, SendWaitInv
  <2> QED
    BY <1>1, <2>1, <2>2 DEF Sending
<1>2. ASSUME NEW l \in Links, Flush(l) \/ Reading(l) PROVE WaitInv'
  BY <1>2, FlushWaitInv, TakeWaitInv, LinkWaitInv DEF Reading
<1>3. ASSUME NEW i \in Ids, Working(i) \/ CallbackCancelled(i) \/ HandlerCancelled(i)
      PROVE  WaitInv'
  BY <1>3, CallBackWaitInv, HandlerWaitInv, CallbackWaitInv DEF Working
<1>4. CASE (\E c \in Changing : Offer(c) \/ Withdraw(c)) \/ UNCHANGED vars
  <2>1. UNCHANGED <<frames, stage, stream, blocked, link, torn>>
    BY <1>4 DEF Offer, Withdraw, vars
  <2>2. \A m \in Links : (blocked[m] # 0 => IsAtWork(blocked[m], m))'
    BY <2>1, StillAtWork
  <2> QED
    BY <2>1, <2>2, KeepsWaitInv
<1> QED
  BY <1>1, <1>2, <1>3, <1>4 DEF Next

\* Of what is numbered, there is a last one.
LEMMA LastId ==
    ASSUME NEW T \in SUBSET Ids, T # {}
    PROVE  \E x \in T : \A y \in T : y <= x
<1> DEFINE R == {p \in Nat \X Nat : p[1] < p[2]}
           D == {n \in 0..MaxFrames : MaxFrames - n \in T}
<1>1. MaxFrames \in Nat
  BY ProviderAssumption
<1>2. ASSUME NEW y \in T PROVE MaxFrames - y \in D
  <2>1. y \in Ids /\ MaxFrames - y \in 0..MaxFrames /\ MaxFrames - (MaxFrames - y) = y
    BY <1>1 DEF Ids
  <2> QED
    BY <2>1
<1>3. IsWellFoundedOn(R, Nat)
  BY NatLessThanWellFounded DEF OpToRel
<1>4. D \subseteq Nat /\ D # {}
  BY <1>2
<1> HIDE DEF D
<1>5. PICK n \in D : \A k \in D : <<k, n>> \notin R
  BY <1>3, <1>4, WFMin
<1>6. \A k \in D : ~ (k < n)
  BY <1>4, <1>5
<1>7. n \in 0..MaxFrames /\ MaxFrames - n \in T
  BY <1>5 DEF D
<1>8. ASSUME NEW y \in T PROVE y <= MaxFrames - n
  <2>1. ~ (MaxFrames - y < n) /\ y \in Ids
    BY <1>2, <1>6
  <2> QED
    BY <1>1, <1>7, <2>1 DEF Ids
<1> QED
  BY <1>7, <1>8

\* A callback or a handler that waits has made a call that was not answered.
LEMMA WaitsForChild ==
    ASSUME IInv, WaitInv, NEW i \in DOMAIN frames, stage[i] = "calling", ~Finished(i)
    PROVE  \E j \in DOMAIN frames :
              /\ j \in Children(i)
              /\ i < j
              /\ ~IsTopic(j)
              /\ frames[j].link = Back(frames[i].link)
              /\ stage[j] # "answered"
<1>1. PICK j \in Children(i) : ~ (stage[j] = "answered" \/ link[frames[j].link] # "open")
  BY DEF Finished, CallEnded
<1>2. j \in DOMAIN frames /\ frames[j].parent = i /\ i # 0
  BY FrameType DEF IInv, Children, Ids
<1> QED
  BY <1>1, <1>2 DEF WaitInv, CallsGoBack

LEMMA BackOfBack == ASSUME NEW l \in Links PROVE Back(l) \in Links /\ Back(Back(l)) = l
  BY DEF Links, Back

\* When nothing can go on, and nothing excuses it, nothing is left to be done.
LEMMA IInvIsNotStuck == IInv /\ WaitInv => NothingIsStuck
<1> SUFFICES ASSUME IInv, WaitInv, ~CanGoOn, NEW i \in DOMAIN frames,
                    ~Excused(frames[i].link)
             PROVE  stage[i] = IF IsTopic(i) THEN "done" ELSE "answered"
  BY DEF NothingIsStuck
<1> DEFINE Both == {frames[i].link, Back(frames[i].link)}
<1>1. frames[i].link \in Links
  BY FrameType DEF IInv
<1>2. /\ Both \subseteq Links
      /\ \A m \in Both : Back(m) \in Both
  BY <1>1, BackOfBack
<1>3. \A m \in Both : link[m] = "open" /\ m \notin torn
  BY DEF Excused, Lost
<1>4. \A j \in DOMAIN frames : frames[j].link \in Both => stage[j] # "cancelled"
  BY DEF Excused
<1> HIDE DEF Both
<1>5. \A m \in Both : outbox[m] = <<>> /\ (stream[m] # <<>> => blocked[m] # 0)
  BY <1>2, <1>3 DEF CanGoOn, CanRead
<1>6. \A j \in DOMAIN frames : stage[j] # "task" /\ ~Finished(j)
  <2>1. \A j \in DOMAIN frames : j \in Ids
    BY FrameType DEF IInv
  <2> QED
    BY <2>1 DEF CanGoOn
<1>7. \A j \in DOMAIN frames : stage[j] # "running"
  BY <1>6 DEF Finished
\* What of a request is neither answered nor waiting for a call is in the stream.
<1>8. ASSUME NEW j \in DOMAIN frames, ~IsTopic(j), frames[j].link \in Both,
             stage[j] \notin {"answered", "calling"}
      PROVE  stage[j] = "sent" /\ stream[frames[j].link] # <<>>
  <2>1. RequestIsAccounted(j)
    BY <1>8 DEF WaitInv, RequestsAreAccounted
  <2>2. stage[j] = "sent"
    BY <1>3, <1>4, <1>6, <1>7, <1>8, <2>1
       DEF RequestIsAccounted, RequestStages, AtWork, Unanswered
  <2>3. IsIn(j, stream[frames[j].link])
    BY <1>3, <1>8, <2>1, <2>2 DEF RequestIsAccounted
  <2> QED
    BY <2>2, <2>3 DEF IsIn
\* Then a callback keeps the stream from being read, and it waits for a call.
<1>9. ASSUME NEW m \in Both, stream[m] # <<>> PROVE WaitingCallback(m)
  <2>1. blocked[m] # 0 /\ IsAtWork(blocked[m], m)
    BY <1>2, <1>5, <1>9 DEF WaitInv, AwaitedAreAtWork
  <2> QED
    BY <1>7, <2>1 DEF IsAtWork, AtWork, WaitingCallback
\* But no callback waits on these links: for whom would it?
<1>10. ASSUME NEW m \in Both, WaitingCallback(m) PROVE FALSE
  <2> DEFINE b == blocked[m]
  <2>1. b # 0 /\ stage[b] = "calling" /\ IsAtWork(b, m)
    BY <1>2, <1>10 DEF WaitingCallback, WaitInv, AwaitedAreAtWork
  <2>2. b \in DOMAIN frames /\ frames[b].link = m
    BY <2>1 DEF IsAtWork
  <2>3. PICK j \in DOMAIN frames :
            /\ j \in Children(b) /\ ~IsTopic(j) /\ frames[j].link = Back(m)
            /\ stage[j] # "answered"
    BY <1>6, <2>1, <2>2, WaitsForChild
  <2>4. CASE stage[j] = "calling"
    <3>1. WaitsForItself(m)
      BY <1>10, <2>3, <2>4 DEF WaitsForItself
    <3> QED
      BY <3>1 DEF Excused, Both
  <2>5. CASE stage[j] # "calling"
    <3>1. stream[Back(m)] # <<>>
      BY <1>2, <1>8, <2>3, <2>5
    <3>2. WaitingCallback(Back(m))
      BY <1>2, <1>9, <3>1
    <3>3. MutualWait(frames[i].link)
      BY <1>1, <1>10, <3>2, BackOfBack DEF MutualWait, Both
    <3> QED
      BY <3>3 DEF Excused
  <2> QED
    BY <2>4, <2>5
\* Nor does a handler: the last one that does would wait for what is unread.
<1>11. ASSUME NEW j \in DOMAIN frames, ~IsTopic(j), frames[j].link \in Both
       PROVE  stage[j] = "answered"
  <2> DEFINE T == {k \in DOMAIN frames :
                     ~IsTopic(k) /\ frames[k].link \in Both /\ stage[k] = "calling"}
  <2>1. T = {}
    <3>1. SUFFICES ASSUME T # {} PROVE FALSE
      OBVIOUS
    <3>2. T \subseteq Ids
      BY FrameType DEF IInv
    <3> HIDE DEF T
    <3>3. PICK x \in T : \A y \in T : y <= x
      BY <3>1, <3>2, LastId
    <3>4. x \in DOMAIN frames /\ frames[x].link \in Both /\ stage[x] = "calling" /\ ~Finished(x)
      BY <1>6, <3>3 DEF T
    <3>5. PICK k \in DOMAIN frames :
              /\ x < k /\ ~IsTopic(k) /\ frames[k].link = Back(frames[x].link)
              /\ stage[k] # "answered"
      BY <3>4, WaitsForChild
    <3>6. frames[k].link \in Both
      BY <1>2, <3>4, <3>5
    <3>7. k \notin T
      <4>1. x \in Ids /\ k \in Ids
        BY <3>2, <3>3, <3>5, FrameType DEF IInv
      <4> QED
        BY <3>3, <3>5, <4>1 DEF Ids
    <3>8. stage[k] # "calling"
      BY <3>5, <3>6, <3>7 DEF T
    <3> QED
      BY <1>8, <1>9, <1>10, <3>5, <3>6, <3>8
  <2>2. stage[j] # "calling"
    BY <1>11, <2>1
  <2> QED
    BY <1>8, <1>9, <1>10, <1>11, <2>2
<1>12. CASE IsTopic(i)
  <2> DEFINE l == frames[i].link
  <2>1. l \in Both /\ i # 0
    BY FrameType DEF Both, IInv, Ids
  <2>2. stage[i] \in TopicStages
    BY <1>12 DEF IInv, WaysDiffer
  <2>3. stage[i] # "queued"
    BY <1>3, <1>5, <1>12, <2>1 DEF IInv, NothingAstray
  <2>4. stage[i] # "sent"
    <3>1. SUFFICES ASSUME stage[i] = "sent" PROVE stream[l] # <<>>
      BY <1>9, <1>10, <2>1
    <3> QED
      BY <1>3, <1>12, <2>1, <3>1 DEF IInv, NothingAstray
  <2>5. stage[i] # "calling"
    <3>1. SUFFICES ASSUME stage[i] = "calling" PROVE WaitingCallback(l)
      BY <1>10, <2>1
    <3>2. blocked[l] = i
      BY <1>12, <3>1 DEF IInv, NothingAstray, AtWork
    <3> QED
      BY <2>1, <3>1, <3>2 DEF WaitingCallback
  <2> QED
    BY <1>7, <1>12, <2>2, <2>3, <2>4, <2>5 DEF TopicStages
<1>13. CASE ~IsTopic(i)
  BY <1>11, <1>13 DEF Both
<1> QED
  BY <1>12, <1>13

----------------------------------------------------------------------------
(* Nothing is done twice.                                                  *)

\* What comes further comes further on its way.
Further(i) == Way[stage[i]] < Way[stage'[i]]
Onward == \A i \in Ids : stage'[i] # stage[i] => Further(i)

\* A frame comes further or a link is closed.
LeadsOn == (\E i \in Ids : Further(i)) \/ \E l \in Links : link[l] # "closed" /\ link'[l] = "closed"

\* The ways lead from the outbox to the answer.
LEMMA Ways ==
    /\ Way["unsent"] = 0 /\ Way["queued"] = 1 /\ Way["sent"] = 2 /\ Way["task"] = 3
    /\ Way["running"] = 4 /\ Way["calling"] = 5 /\ Way["done"] = 6
    /\ Way["answered"] = 6 /\ \A u \in Unanswered : Way[u] = 6
BY DEF Way, Unanswered

\* One frame goes on and the others stay.
LEMMA OneGoesOn ==
    ASSUME TypeOK, NEW i \in Ids, NEW to, stage' = [stage EXCEPT ![i] = to],
           Way[stage[i]] < Way[to]
    PROVE  Onward /\ LeadsOn
<1>1. Further(i)
  BY DEF TypeOK, Further
<1> QED
  BY <1>1 DEF Onward, LeadsOn, TypeOK

\* What is sent was not sent before.
LEMMA NewIsUnsent ==
    ASSUME IInv, NEW l \in Links, NEW name \in Names, NEW parent \in 0..MaxFrames,
           NewFrame(l, name, parent)
    PROVE  Len(frames') \in Ids /\ Len(frames') \notin DOMAIN frames
           /\ stage[Len(frames')] = "unsent"
BY NewFrameFacts DEF IInv, SentAreNumbered

LEMMA SendingOnward == ASSUME IInv, NEW l \in Links, Sending(l) PROVE Onward
<1>1. ASSUME NEW name \in Names, name \in Topics, Send(l, name) PROVE Onward
  <2>1. /\ Len(frames') \in Ids /\ stage[Len(frames')] = "unsent"
        /\ stage' = [stage EXCEPT ![Len(frames')] = "queued"]
    BY <1>1, NewIsUnsent, ProviderAssumption DEF Send
  <2>2. Way[stage[Len(frames')]] < Way["queued"]
    BY <2>1, Ways
  <2> QED
    BY <2>1, <2>2, OneGoesOn DEF IInv
<1>2. ASSUME NEW name \in Names, CallService(l, name) PROVE Onward
  <2>1. /\ Len(frames') \in Ids /\ stage[Len(frames')] = "unsent"
        /\ stage' = [stage EXCEPT ![Len(frames')] = "sent"]
    BY <1>2, NewIsUnsent, ProviderAssumption DEF CallService
  <2>2. Way[stage[Len(frames')]] < Way["sent"]
    BY <2>1, Ways
  <2> QED
    BY <2>1, <2>2, OneGoesOn DEF IInv
<1>3. CASE PeerCloses(l)
  BY <1>3 DEF PeerCloses, Onward
<1> QED
  BY <1>1, <1>2, <1>3, ScriptedName DEF Sending

\* The next message of an outbox is queued, and what is next on a stream was sent.
LEMMA HeadsAreNext ==
    ASSUME IInv, NEW l \in Links
    PROVE  /\ outbox[l] # <<>> => Head(outbox[l]) \in Ids /\ stage[Head(outbox[l])] = "queued"
           /\ stream[l] # <<>> => Head(stream[l]) \in Ids /\ stage[Head(stream[l])] = "sent"
<1>1. /\ outbox[l] \in Seq(Ids) /\ stream[l] \in Seq(Ids)
  BY DEF IInv, TypeOK
<1>2. ASSUME outbox[l] # <<>>
      PROVE  Head(outbox[l]) \in Ids /\ stage[Head(outbox[l])] = "queued"
  <2>1. 1 \in DOMAIN outbox[l] /\ Head(outbox[l]) = outbox[l][1]
    BY <1>1, <1>2
  <2> QED
    BY <1>1, <2>1 DEF IInv, OutboxInOrder
<1>3. ASSUME stream[l] # <<>>
      PROVE  Head(stream[l]) \in Ids /\ stage[Head(stream[l])] = "sent"
  <2>1. 1 \in DOMAIN stream[l] /\ Head(stream[l]) = stream[l][1]
    BY <1>1, <1>3
  <2> QED
    BY <1>1, <2>1 DEF IInv, StreamInOrder
<1> QED
  BY <1>2, <1>3

LEMMA FlushOnward == ASSUME IInv, NEW l \in Links, Flush(l) PROVE Onward /\ LeadsOn
<1> DEFINE h == Head(outbox[l])
<1>1. h \in Ids /\ stage[h] = "queued" /\ stage' = [stage EXCEPT ![h] = "sent"]
  BY HeadsAreNext DEF Flush
<1>2. Way[stage[h]] < Way["sent"]
  BY <1>1, Ways
<1> HIDE DEF h
<1> QED
  BY <1>1, <1>2, OneGoesOn DEF IInv

LEMMA ReadingOnward == ASSUME IInv, NEW l \in Links, Reading(l) PROVE Onward /\ LeadsOn
<1>1. CASE TakeMessage(l) \/ TakeRequest(l)
  <2> DEFINE h == Head(stream[l])
  <2>1. h \in Ids /\ stage[h] = "sent"
    BY <1>1, HeadsAreNext DEF TakeMessage, TakeRequest
  <2>2. PICK to \in {"running", "done", "task"} : stage' = [stage EXCEPT ![h] = to]
    BY <1>1 DEF TakeMessage, TakeRequest
  <2>3. Way[stage[h]] < Way[to]
    BY <2>1, Ways
  <2> HIDE DEF h
  <2> QED
    BY <2>1, <2>2, <2>3, OneGoesOn DEF IInv
<1>2. CASE ReadFails(l) \/ ReadEof(l)
  <2>1. stage' = stage /\ link[l] # "closed" /\ link' = [link EXCEPT ![l] = "closed"]
    BY <1>2 DEF ReadFails, ReadEof, CanRead, CloseLink
  <2> QED
    BY <2>1 DEF Onward, LeadsOn, IInv, TypeOK
<1> QED
  BY <1>1, <1>2 DEF Reading

LEMMA WorkingOnward == ASSUME IInv, NEW i \in Ids, Working(i) PROVE Onward /\ LeadsOn
<1>1. CASE StartHandler(i)
  <2>1. PICK to \in {"running", "answered"} \cup Unanswered : stage' = [stage EXCEPT ![i] = to]
    BY <1>1 DEF StartHandler, Respond, Written, Unanswered
  <2>2. Way[stage[i]] < Way[to]
    BY <1>1, Ways DEF StartHandler
  <2> QED
    BY <2>1, <2>2, OneGoesOn DEF IInv
<1>2. CASE CallBack(i)
  <2> DEFINE new == Len(frames')
             l == Back(frames[i].link)
  <2>1. i \in DOMAIN frames /\ stage[i] = "running"
    BY <1>2 DEF CallBack, IInv, SentAreNumbered
  <2>2. frames[i].name \in Names /\ l \in Links /\ i \in 0..MaxFrames
    BY <2>1, FrameType, BackOfBack DEF IInv, Ids
  <2>3. Nested[frames[i].name] \in Names /\ NewFrame(l, Nested[frames[i].name], i)
    BY <1>2, <2>2, ProviderAssumption DEF CallBack, Names
  <2>4. new \in Ids /\ new # i /\ stage[new] = "unsent"
    BY <2>1, <2>2, <2>3, NewIsUnsent
  <2>5. stage' = [stage EXCEPT ![i] = "calling", ![new] = "sent"]
    BY <1>2 DEF CallBack
  <2> HIDE DEF new, l
  <2> QED
    BY <2>1, <2>4, <2>5, Ways DEF IInv, TypeOK, Onward, Further, LeadsOn
<1>3. CASE CallbackEnds(i) \/ HandlerEnds(i)
  <2>1. PICK to \in {"done", "answered"} \cup Unanswered : stage' = [stage EXCEPT ![i] = to]
    BY <1>3 DEF CallbackEnds, HandlerEnds, Respond, RespondTorn, Written, Unanswered
  <2>2. Way[stage[i]] < Way[to]
    BY <1>3, Ways DEF CallbackEnds, HandlerEnds, Finished
  <2> QED
    BY <2>1, <2>2, OneGoesOn DEF IInv
<1> QED
  BY <1>1, <1>2, <1>3 DEF Working

LEMMA CancelledOnward ==
    ASSUME IInv, NEW i \in Ids, CallbackCancelled(i) \/ HandlerCancelled(i)
    PROVE  Onward
<1>1. PICK to \in {"done"} \cup Unanswered : stage' = [stage EXCEPT ![i] = to]
  BY DEF CallbackCancelled, HandlerCancelled, Unanswered
<1>2. Way[stage[i]] < Way[to]
  BY Ways DEF CallbackCancelled, HandlerCancelled, AtWork
<1> QED
  BY <1>1, <1>2, OneGoesOn DEF IInv

LEMMA NextOnward == ASSUME IInv, [Next]_vars PROVE Onward
<1>1. CASE \E c \in Changing : Offer(c) \/ Withdraw(c)
  BY <1>1 DEF Offer, Withdraw, Onward
<1>2. CASE UNCHANGED vars
  BY <1>2 DEF vars, Onward
<1> QED
  BY <1>1, <1>2, SendingOnward, FlushOnward, ReadingOnward, WorkingOnward, CancelledOnward DEF Next

----------------------------------------------------------------------------
\* Type correctness for any nodes and scripts: what is waited for, written and
\* awaited is numbered.
THEOREM TypeCorrect == Spec => []TypeOK
<1>1. IInv => TypeOK
  BY DEF IInv
<1> QED
  BY <1>1, InitIInv, NextIInv, PTL DEF Spec

\* The callbacks for the messages of one link run one after the other, in the
\* order in which the messages were sent, whatever the handlers of requests do
\* beside them, and however connections end.
THEOREM AlwaysInOrder == Spec => []TopicsInOrder
BY InitIInv, NextIInv, IInvOrders, PTL DEF Spec

\* However many nodes call each other's services from within callbacks and
\* handlers, and however deep: when no task can go on, every message was handled
\* and every request answered between two nodes, unless callbacks of theirs wait
\* for each other or for themselves, a link of theirs was lost or torn, or a
\* handler of theirs was cancelled.
THEOREM NeverStuck == Spec => []NothingIsStuck
<1>1. Spec => [](IInv /\ WaitInv)
  BY InitIInv, NextIInv, InitWaitInv, NextWaitInv, PTL DEF Spec
<1> QED
  BY <1>1, IInvIsNotStuck, PTL

\* Each message is written once and its callback runs once, each request is
\* handled once and answered once at most: nothing comes twice to the head of an
\* outbox or a stream, and no number is given out twice.
THEOREM AlwaysHandledOnce == Spec => HandledOnce
<1>1. IInv /\ [Next]_vars => [\A i \in Ids : stage'[i] # stage[i] => Way[stage[i]] < Way[stage'[i]]]_vars
  BY NextOnward DEF Onward, Further
<1> QED
  BY <1>1, InitIInv, NextIInv, PTL DEF Spec, HandledOnce

\* A step of the loop.
LoopStep == (\E l \in Links : Flush(l) \/ Reading(l)) \/ \E i \in Ids : Working(i)

\* Each step of the loop, an outbox, a callback or a handler takes a frame further
\* on its way or closes a link.  As no frame ever goes back, there are no more such
\* steps than stages of all frames and links together: with NeverStuck, what
\* fairness makes of it is that all there is to do gets done.
THEOREM LoopLeadsOn == Spec => [][LoopStep => LeadsOn]_vars
<1>1. IInv /\ LoopStep => LeadsOn
  BY FlushOnward, ReadingOnward, WorkingOnward DEF LoopStep
<1>2. Spec => []IInv
  BY InitIInv, NextIInv, PTL DEF Spec
<1> QED
  BY <1>1, <1>2, PTL
=============================================================================
