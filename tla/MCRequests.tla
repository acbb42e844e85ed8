----------------------------- MODULE MCRequests -----------------------------
(* The inputs of a small size on which TLC asks the functions of a request. *)
EXTENDS Requests

Backslash == "\\"
KeyBytes == {"a", "b", "/", "_", "%", Backslash}

(* Keys of one to three bytes, with and without the delimiter; prefixes    *)
(* with both wildcards and with LIKE's escape; no, an empty, a short and a *)
(* long delimiter.                                                         *)
ShortKeys == {<<"a">>, <<"a", "/">>, <<"a", "/", "b">>, <<"a", Escape, "b">>,
              <<"b", "/", "b">>, <<AnyByte, "/", "b">>, <<"a", AnyBytes>>}

ListParameters ==
    [prefix: {<<>>, <<"a">>, <<"a", "/">>, <<AnyByte>>, <<AnyByte, "/">>,
              <<AnyBytes>>, <<AnyBytes, "b">>, <<"a", Escape>>,
              <<Escape, AnyByte>>, <<"a", Escape, Escape>>},
     delimiter: {{}, {<<>>}, {<<"/">>}, {<<"/", "b">>}},
     maxKeys: {-1, 0, 1, 2, 1000}]

(* Bodies of at most five bytes; chunk sizes that wrap, to zero too.       *)
ShortBodies == UNION {[1..n -> {"a", "b"}] : n \in 0..5}
Sizes == 0..9

(* Texts: 0 is empty and 1 the slash; 5 is encoded as 2, as "%7E" is "~";  *)
(* 7 is 6 between blanks, and 8 has two blanks within, where 9 has one.    *)
Encoded(text) == IF text = 5 THEN 2 ELSE text
Trimmed(text) == IF text = 7 THEN 6 ELSE text
Collapsed(text) == IF text = 8 THEN 9 ELSE text

Parameters == {<<2, 3>>, <<2, 4>>, <<3, 2>>, <<4, 2>>, <<4, 5>>}

(* No, one and two parameters, and one query of three; one and two signed  *)
(* headers with one value and with two; a date that parses, one that does  *)
(* not, and none.                                                          *)
ParsedRequests ==
    [auth: {"parsed"}, keyId: {OurKey},
     scope: {"scope"}, signed: {<<"host">>, <<"host", "x">>},
     signature: {<<>>}, method: {"GET"}, path: {0, 5},
     query: UNION {[1..n -> Parameters] : n \in 0..2}
            \cup {<<<<4, 2>>, <<3, 2>>, <<2, 4>>>>},
     headers: [{"host", "x"} -> {<<7>>, <<8>>, <<6, 9>>}],
     time: [format: {"iso", "other", "none"}, at: {0}], payload: {"sha"}]

OtherRequests ==
    {[r EXCEPT !.auth = auth, !.keyId = keyId] :
        r \in {r \in ParsedRequests : r.query = <<>>},
        auth \in {"absent", "malformed", "parsed"}, keyId \in {OurKey, "other"}}

(* Signed and not, by the clock of a server that is right and one that is  *)
(* as wrong as it may be, or more.                                         *)
SignedAndForged ==
    LET unsigned == ParsedRequests \cup OtherRequests
    IN unsigned \cup {[r EXCEPT !.signature = AwsSignature(r)] : r \in unsigned}

FreshAndLate == {0, Skew, Skew + 1, 0 - Skew, -1 - Skew}
=============================================================================
