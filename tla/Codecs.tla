------------------------------- MODULE Codecs -------------------------------
(***************************************************************************)
(* The bytes between two nodes: rosy/codec.py, node/codec.py, and the      *)
(* codecs of topic messages, requests and responses, put together as in    *)
(* build_node_message_codec() of node/builder.py.                          *)
(*                                                                         *)
(* Codecs write to the writer they are given, piece by piece, and an error *)
(* leaves there what came before it.  Messages and requests are encoded to *)
(* a buffer that is sent when it is complete; responses are encoded right  *)
(* to the connection.  A reader waits for the bytes that it needs.         *)
(*                                                                         *)
(* A byte has Base values instead of 256, and a string is the sequence of  *)
(* its bytes.  Data is what pickle, JSON or msgpack make of it.            *)
(***************************************************************************)
EXTENDS Integers, Sequences

CONSTANTS
    Base,           \* how many values a byte has
    ShortBytes,     \* bytes of the length of names, arguments and keywords
    IdBytes,        \* bytes of a request id
    ErrorBytes,     \* bytes of the length of an error
    DataBytes,      \* bytes of the length of data
    Unencodable,    \* data that cannot be encoded
    Frames,         \* bound: the messages and requests that are sent
    Answers,        \* bound: the responses that are sent
    MaxSent         \* bound: how many of each

VARIABLES
    sent,       \* the messages and requests that were put on the connection
    wire,       \* the bytes of them that were not yet read
    got,        \* the messages and requests that were read
    answered,   \* the responses that were encoded onto the way back
    back,       \* the bytes of them that were not yet read
    answers,    \* the responses that were read
    torn,       \* how many responses were complete before one was torn
    broken      \* the readers that met what they cannot read

vars == <<sent, wire, got, answered, back, answers, torn, broken>>

----------------------------------------------------------------------------
Byte == 0..(Base - 1)
Bytes == Seq(Byte)

\* The powers of Base: there are Power[n] sequences of n bytes.
Power[n \in Nat] == IF n = 0 THEN 1 ELSE Base * Power[n - 1]

\* What fails to encode has no bytes.
Data == Bytes \cup {Unencodable}
Messages == [prefix : {1, 2}, id : Nat, name : Bytes,
             args : Seq(Data), kwargs : Seq(Bytes \X Data)]
Responses == [id : Nat, result : Data, error : Bytes]

\* The code has Base = 256, and widths of 1, 2, 2 and 4.
ASSUME BytesAssumption ==
    /\ Base \in Nat /\ Base >= 4
    /\ {ShortBytes, IdBytes, ErrorBytes, DataBytes} \subseteq Nat \ {0}

\* A message has no id, and the keywords of a dict differ.
ASSUME FramesAssumption ==
    /\ Frames \subseteq Messages
    /\ \A f \in Frames : f.prefix = 1 => f.id = 0
    /\ \A f \in Frames : \A i, j \in DOMAIN f.kwargs :
            f.kwargs[i][1] = f.kwargs[j][1] => i = j

\* A handler returned a result or raised an error.
ASSUME AnswersAssumption ==
    /\ Answers \subseteq Responses
    /\ \A r \in Answers : r.error # <<>> => r.result = <<>>

ASSUME MaxSentAssumption == MaxSent \in Nat

----------------------------------------------------------------------------
(* What encoding writes, and whether it ends without an error; what        *)
(* decoding makes of bytes, and what it leaves.                            *)

Done(bytes) == [ok |-> TRUE, bytes |-> bytes]
Error == [ok |-> FALSE, bytes |-> <<>>]

\* One encoding after another one.
Then(a, b) == IF a.ok THEN [ok |-> b.ok, bytes |-> a.bytes \o b.bytes] ELSE a

Decoded(v, rest) == [end |-> "ok", value |-> v, rest |-> rest]
Short == [end |-> "short", value |-> <<>>, rest |-> <<>>]
Unknown == [end |-> "unknown", value |-> <<>>, rest |-> <<>>]

\* What More makes of what was decoded first.
AfterOk(d, More(_)) == IF d.end = "ok" THEN More(d) ELSE d

ReadExactly(n, s) ==
    IF Len(s) < n THEN Short ELSE Decoded(SubSeq(s, 1, n), SubSeq(s, n + 1, Len(s)))

\* int.to_bytes() and int.from_bytes(), little endian.
ToBytes(v, n) == [i \in 1..n |-> (v \div Power[i - 1]) % Base]

\* The value of the first i bytes of s, for each i.
ValueUpTo(s) ==
    LET value[i \in 0..Len(s)] == IF i = 0 THEN 0 ELSE value[i - 1] + s[i] * Power[i - 1]
    IN  value

Unsigned(s) == ValueUpTo(s)[Len(s)]

FromBytes(s, signed) ==
    LET v == Unsigned(s)
    IN  IF signed /\ 2 * v >= Power[Len(s)] THEN v - Power[Len(s)] ELSE v

Fits(v, n, signed) ==
    IF signed THEN -Power[n] <= 2 * v /\ 2 * v < Power[n] ELSE 0 <= v /\ v < Power[n]

----------------------------------------------------------------------------
(* Variants with a plausible mistake, for showing that the properties can  *)
(* fail.                                                                   *)

\* Takes an integer modulo its width.
EncodeIntWrapped(v, n, signed) == Done(ToBytes(v, n))

\* Leaves out the sign.
DecodeVarUnsigned(s, max, signed) ==
    AfterOk(ReadExactly(1, s), LAMBDA header :
        AfterOk(ReadExactly(header.value[1], header.rest), LAMBDA body :
            Decoded(Unsigned(body.value), body.rest)))

----------------------------------------------------------------------------
(* codec.py                                                                *)

EncodeInt(v, n, signed) == IF Fits(v, n, signed) THEN Done(ToBytes(v, n)) ELSE Error

DecodeInt(s, n, signed) ==
    AfterOk(ReadExactly(n, s), LAMBDA body : Decoded(FromBytes(body.value, signed), body.rest))

\* As lengths and ids are written.
EncodeUnsigned(v, n) == EncodeInt(v, n, FALSE)
DecodeUnsigned(s, n) == DecodeInt(s, n, FALSE)

\* byte_length(), of the magnitude of v.
ByteLength(v) ==
    LET a == IF v < 0 THEN -v ELSE v
    IN  CHOOSE n \in 0..a : a < Power[n] /\ \A k \in 0..(n - 1) : a >= Power[k]

\* The header is written once the integer is known to fit.
EncodeVar(v, max, signed) ==
    LET n == ByteLength(v)
    IN  IF n > max THEN Error
        ELSE IF n = 0 THEN Done(<<0>>)
        ELSE IF ~Fits(v, n, signed) THEN Error
        ELSE Done(<<n>> \o ToBytes(v, n))

DecodeVar(s, max, signed) ==
    AfterOk(ReadExactly(1, s), LAMBDA header :
        LET n == header.value[1]
        IN  IF n = 0 THEN Decoded(0, header.rest)
            ELSE IF n > max THEN Unknown
            ELSE DecodeInt(header.rest, n, signed))

\* A length, and that many bytes.
EncodeBytes(s, n) == Then(EncodeUnsigned(Len(s), n), Done(s))

DecodeBytes(s, n) ==
    AfterOk(DecodeUnsigned(s, n), LAMBDA length : ReadExactly(length.value, length.rest))

\* PickleCodec, JsonCodec and MsgpackCodec: the data is serialised first.
EncodeData(d) == IF d = Unencodable THEN Error ELSE EncodeBytes(d, DataBytes)
DecodeData(s) == DecodeBytes(s, DataBytes)

EncodeName(s) == EncodeBytes(s, ShortBytes)
DecodeName(s) == DecodeBytes(s, ShortBytes)

\* A key and its value.
EncodeItem(p) == Then(EncodeName(p[1]), EncodeData(p[2]))

DecodeItem(s) ==
    AfterOk(DecodeName(s), LAMBDA key :
        AfterOk(DecodeData(key.rest), LAMBDA value :
            Decoded(<<key.value, value.value>>, value.rest)))

\* How many there are, and each of them, given what encoding makes of each.
EncodedUpTo(parts) ==
    LET upTo[i \in 0..Len(parts)] ==
            IF i = 0 THEN EncodeUnsigned(Len(parts), ShortBytes)
            ELSE Then(upTo[i - 1], parts[i])
    IN  upTo

EncodeAll(parts) == EncodedUpTo(parts)[Len(parts)]

\* SequenceCodec of arguments, and DictCodec of keyword arguments.
EncodeSequence(q) == EncodeAll([i \in DOMAIN q |-> EncodeData(q[i])])
EncodeDict(d) == EncodeAll([i \in DOMAIN d |-> EncodeItem(d[i])])

DecodePart(s, items) == IF items THEN DecodeItem(s) ELSE DecodeData(s)

\* What was decoded before, and one more item or argument.
DecodeNext(before, items) ==
    AfterOk(before, LAMBDA b :
        AfterOk(DecodePart(b.rest, items), LAMBDA last :
            Decoded(Append(b.value, last.value), last.rest)))

DecodedUpTo(s, n, items) ==
    LET upTo[i \in 0..n] ==
            IF i = 0 THEN Decoded(<<>>, s) ELSE DecodeNext(upTo[i - 1], items)
    IN  upTo

DecodeAll(s, items) ==
    AfterOk(DecodeUnsigned(s, ShortBytes), LAMBDA length :
        DecodedUpTo(length.rest, length.value, items)[length.value])

DecodeSequence(s) == DecodeAll(s, FALSE)
DecodeDict(s) == DecodeAll(s, TRUE)

----------------------------------------------------------------------------
(* Messages, requests and responses.                                       *)

EncodeArguments(f) == Then(EncodeSequence(f.args), EncodeDict(f.kwargs))

EncodeMessage(f) == Then(EncodeName(f.name), EncodeArguments(f))

EncodeRequest(f) == Then(EncodeUnsigned(f.id, IdBytes), EncodeMessage(f))

MessagePrefix == 1
RequestPrefix == 2

\* A topic message or a service request, with its prefix.
EncodeFrame(f) ==
    Then(Done(<<f.prefix>>),
         IF f.prefix = MessagePrefix THEN EncodeMessage(f) ELSE EncodeRequest(f))

\* What both have in common.
DecodeBody(prefix, id, s) ==
    AfterOk(DecodeName(s), LAMBDA name :
        AfterOk(DecodeSequence(name.rest), LAMBDA args :
            AfterOk(DecodeDict(args.rest), LAMBDA kwargs :
                Decoded([prefix |-> prefix, id |-> id, name |-> name.value,
                         args |-> args.value, kwargs |-> kwargs.value], kwargs.rest))))

DecodeMessage(s) == DecodeBody(MessagePrefix, 0, s)

DecodeRequest(s) ==
    AfterOk(DecodeUnsigned(s, IdBytes), LAMBDA id :
        DecodeBody(RequestPrefix, id.value, id.rest))

DecodeFrame(s) ==
    AfterOk(ReadExactly(1, s), LAMBDA prefix :
        CASE prefix.value[1] = MessagePrefix -> DecodeMessage(prefix.rest)
          [] prefix.value[1] = RequestPrefix -> DecodeRequest(prefix.rest)
          [] OTHER -> Unknown)

Success == 0
Failure == 3

\* A response has an error, unless that is empty, or a result.
EncodeAnswer(r) ==
    Then(EncodeUnsigned(r.id, IdBytes),
         IF r.error # <<>>
         THEN Then(Done(<<Failure>>), EncodeBytes(r.error, ErrorBytes))
         ELSE Then(Done(<<Success>>), EncodeData(r.result)))

\* What follows the status, an error with a length of n bytes.
DecodeRest(id, status, bytes, n) ==
    CASE status = Success -> AfterOk(DecodeData(bytes), LAMBDA result :
            Decoded([id |-> id, result |-> result.value, error |-> <<>>], result.rest))
      [] status = Failure -> AfterOk(DecodeBytes(bytes, n), LAMBDA error :
            Decoded([id |-> id, result |-> <<>>, error |-> error.value], error.rest))
      [] OTHER -> Unknown

DecodeResponse(s, n) ==
    AfterOk(DecodeUnsigned(s, IdBytes), LAMBDA id :
        AfterOk(ReadExactly(1, id.rest), LAMBDA status :
            DecodeRest(id.value, status.value[1], status.rest, n)))

\* A mistake: reads an error as if its length were that of a name.
DecodeAnswerShort(s) == DecodeResponse(s, ShortBytes)

DecodeAnswer(s) == DecodeResponse(s, ErrorBytes)

----------------------------------------------------------------------------
Init ==
    /\ sent = <<>> /\ wire = <<>> /\ got = <<>>
    /\ answered = <<>> /\ back = <<>> /\ answers = <<>>
    /\ torn = MaxSent
    /\ broken = {}

\* Only a buffer that is complete goes to the connection.
SendFrame(f) ==
    /\ Len(sent) < MaxSent
    /\ EncodeFrame(f).ok
    /\ sent' = Append(sent, f)
    /\ wire' = wire \o EncodeFrame(f).bytes
    /\ UNCHANGED <<got, answered, back, answers, torn, broken>>

\* An error in a response leaves what was written, and others follow it.
Answer(r) ==
    LET e == EncodeAnswer(r)
    IN  /\ Len(answered) < MaxSent
        /\ answered' = Append(answered, r)
        /\ back' = back \o e.bytes
        /\ torn' = IF e.ok \/ torn < MaxSent THEN torn ELSE Len(answered)
        /\ UNCHANGED <<sent, wire, got, answers, broken>>

ReceiveFrame ==
    LET d == DecodeFrame(wire)
    IN  /\ "frames" \notin broken
        /\ d.end # "short"
        /\ IF d.end = "ok"
           THEN got' = Append(got, d.value) /\ wire' = d.rest /\ UNCHANGED broken
           ELSE broken' = broken \cup {"frames"} /\ UNCHANGED <<got, wire>>
        /\ UNCHANGED <<sent, answered, back, answers, torn>>

ReceiveAnswer ==
    LET d == DecodeAnswer(back)
    IN  /\ "answers" \notin broken
        /\ d.end # "short"
        /\ IF d.end = "ok"
           THEN answers' = Append(answers, d.value) /\ back' = d.rest /\ UNCHANGED broken
           ELSE broken' = broken \cup {"answers"} /\ UNCHANGED <<answers, back>>
        /\ UNCHANGED <<sent, wire, got, answered, torn>>

Next ==
    \/ \E f \in Frames : SendFrame(f)
    \/ \E r \in Answers : Answer(r)
    \/ ReceiveFrame
    \/ ReceiveAnswer

Spec == Init /\ [][Next]_vars

----------------------------------------------------------------------------
\* What remains of q when it is cut after n.
FirstOf(q, n) == SubSeq(q, 1, IF n < Len(q) THEN n ELSE Len(q))

\* Messages and requests are read as they were sent, each from where the one
\* before it ended, and one is only waited for when all that were sent are
\* read: an encoding that failed, for whatever part, has left nothing between
\* them (node/codec.py, BufferWriter).
FramesInStep ==
    /\ got = FirstOf(sent, Len(got))
    /\ "frames" \notin broken
    /\ DecodeFrame(wire).end = "ok" \/ got = sent

\* Responses are written without a buffer, so one that cannot be encoded leaves
\* its id and status behind; but those before it are all read, as they were
\* sent, and without one nothing is ever misread (service/codec.py).
AnswersInStep ==
    LET whole == FirstOf(answered, torn)
    IN  /\ FirstOf(answers, Len(whole)) = FirstOf(whole, Len(answers))
        /\ DecodeAnswer(back).end = "ok" \/ Len(answers) >= Len(whole)
        /\ torn = MaxSent => "answers" \notin broken /\ Len(answers) <= Len(whole)

\* An integer that VariableLengthIntCodec writes is read back, sign and all, up
\* to its last byte whatever follows; one it refuses leaves nothing; and an
\* unsigned one is refused only when it is too long (codec.py).
IntsRoundTrip ==
    \A max \in 1..(Base - 1), signed \in BOOLEAN :
        \A v \in -(Power[max] + 1)..(Power[max] + 1) :
            LET e == EncodeVar(v, max, signed)
            IN  /\ e.ok => DecodeVar(e.bytes \o back, max, signed) = Decoded(v, back)
                /\ ~e.ok => e.bytes = <<>>
                /\ ~signed /\ Fits(v, max, FALSE) => e.ok
=============================================================================
