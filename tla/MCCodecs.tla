------------------------------ MODULE MCCodecs ------------------------------
(* A few messages, requests and responses, with four values of a byte.     *)
EXTENDS Codecs

Frame(prefix, id, name, args, kwargs) ==
    [prefix |-> prefix, id |-> id, name |-> name, args |-> args, kwargs |-> kwargs]

Datum == <<2>>
Longest == <<1, 2, 3>>

MCFrames ==
    {Frame(MessagePrefix, 0, <<>>, <<>>, <<>>),
     Frame(MessagePrefix, 0, <<1>>, <<Datum, Longest>>, <<>>),
     Frame(MessagePrefix, 0, <<0, 0, 0, 0>>, <<>>, <<>>),
     Frame(MessagePrefix, 0, <<1>>, <<Datum, Unencodable>>, <<>>),
     Frame(MessagePrefix, 0, <<1>>, <<<<1, 1, 1, 1>>>>, <<>>),
     Frame(MessagePrefix, 0, <<1>>, <<Datum, Datum, Datum, Datum>>, <<>>),
     Frame(RequestPrefix, 3, Longest, <<Datum>>, <<<<<<1>>, Datum>>>>),
     Frame(RequestPrefix, 4, <<>>, <<>>, <<>>)}

Result(id, d) == [id |-> id, result |-> d, error |-> <<>>]
Raised(id, text) == [id |-> id, result |-> <<>>, error |-> text]

MCAnswers ==
    {Result(0, Longest), Result(1, Unencodable),
     Raised(3, <<1>>), Raised(2, <<3, 3, 3, 3>>), Raised(2, [i \in 1..16 |-> 0])}
=============================================================================
