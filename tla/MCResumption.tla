---------------------------- MODULE MCResumption ----------------------------
(***************************************************************************)
(* Up to three connections of TLS1.2 and TLS1.3, two ticket keys that pass *)
(* through their whole life, external keys, and a server that retries.     *)
(***************************************************************************)
EXTENDS Resumption

MCKeyNames == <<"k1", "k2">>
MCIntroDelays == {0, 1}
MCAgeAdds == {AgeModulus - 1}

Setup(v, prefer) == [v |-> v, prefer |-> prefer, auth |-> FALSE, old |-> FALSE, retry |-> FALSE, resume |-> TRUE, extra |-> 0,
                     psks |-> <<>>, server_psks |-> <<>>]
Old(s) == [s EXCEPT !.old = TRUE]
Auth(s) == [s EXCEPT !.auth = TRUE]
Retry(s) == [s EXCEPT !.retry = TRUE]
E1 == s2n_external_psk_new("e1", 256)
E2 == s2n_external_psk_new("e2", 384)
E3 == s2n_external_psk_new("e3", 256)
Same(s) == [s EXCEPT !.psks = <<E1, E3>>, !.server_psks = <<E3>>]
External(s) == [s EXCEPT !.psks = <<E1, E2>>, !.server_psks = <<E2, E1>>]

MCPlans == {<<Setup(12, 256), Setup(12, 256)>>, <<Setup(12, 256), Old(Setup(12, 256))>>,
            <<Old(Setup(12, 256)), Setup(12, 256)>>, <<Setup(12, 256), Setup(12, 384)>>,
            <<Auth(Setup(12, 256)), Setup(12, 256)>>, <<Setup(12, 256), Auth(Setup(12, 256))>>,
            <<Setup(12, 256), Setup(13, 256)>>, <<Setup(13, 256), Setup(12, 256)>>,
            <<Setup(13, 256), Setup(13, 256), Setup(13, 256)>>,
            <<[Setup(13, 256) EXCEPT !.extra = 1], Setup(13, 384)>>,
            <<Setup(13, 384), Retry(Setup(13, 256))>>,
            <<Same(Setup(13, 384))>>, <<External(Setup(13, 256))>>, <<Retry(External(Setup(13, 256)))>>}
=============================================================================
