--------------------------- MODULE MCRecordReader ---------------------------
(* Streams of records for RecordReader.                                    *)
EXTENDS RecordReader

TLS13(type, data, pad) == [type |-> type, data |-> data, pad |-> pad, cipher |-> "tls13"]
App(data, pad) == TLS13("APP", data, pad)
Hs(data) == TLS13("HS", data, 0)
Alert(data) == TLS13("ALERT", data, 0)
ChangeCipherSpec(data) == [type |-> "CCS", data |-> data, pad |-> 0, cipher |-> "null"]

Split(s, n) == <<SubSeq(s, 1, n), SubSeq(s, n + 1, Len(s))>>
M1 == <<"type1", "length1", "body1", "body2">>
M2 == <<"type2", "length2">>
\* A body taken for a header gives a length too.
MCBodyLength == [type1 |-> 2, type2 |-> 0, body1 |-> 1, body2 |-> 0, length1 |-> 0, length2 |-> 0]

Data ==
    \* two records of data around an empty and a padded one, the last larger than the buffer
    {<<App(<<"a", "b">>, 0), ChangeCipherSpec(<<>>), App(<<>>, 1), App(<<"c", "zero", "d", "e", "f">>, 1)>>}
Messages ==
    \* a message cut at any place, whole messages behind it, then data
    {<<Hs(Split(M1, n)[1]), Hs(Split(M1, n)[2] \o M2), App(<<"a">>, 0)>> : n \in 1..3}
    \* data, or a change_cipher_spec, between the fragments of a message
    \union {<<Hs(Split(M1, 2)[1]), t, Hs(Split(M1, 2)[2])>> : t \in {App(<<"a">>, 0), ChangeCipherSpec(<<"x">>)}}
Alerts ==
    \* alerts: whole, cut, cut with data in between, a warning first, none at all
    {<<App(<<"a">>, 0), Alert(<<"warning", "user_canceled">>), Alert(<<"fatal">>), App(<<"b">>, 0),
              Alert(<<last>>)>> : last \in {"close_notify", "internal_error"}}
    \union {<<App(<<"a">>, 0), Alert(<<>>)>>}
Ciphers ==
    \* TLS1.2 ciphers: explicit nonces, MACs and padding
    {<<[App(<<"a">>, 2) EXCEPT !.cipher = c], [App(<<"b">>, 0) EXCEPT !.cipher = c]>>
            : c \in {"aead", "cbc", "composite", "stream"}}

(* Only a message makes a difference between client and server.            *)
MCStreams == (Messages \X {"client", "server"}) \union ((Data \union Alerts \union Ciphers) \X {"client"})
=============================================================================
