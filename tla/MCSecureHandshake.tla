------------------------- MODULE MCSecureHandshake -------------------------
(***************************************************************************)
(* The configurations TLC checks SecureHandshake with.  Suites a and a2    *)
(* share a hash, b has another one.  Early data comes in up to two         *)
(* records; limits are 1, 2, 4 or none, so that data fits, does not fit,   *)
(* and fits only without the overhead of its records.                      *)
(***************************************************************************)
EXTENDS SecureHandshake

MCPrfAlg == [a |-> "sha256", a2 |-> "sha256", b |-> "sha384", null |-> "none"]

Psk(suite, max) == [suite |-> suite, max |-> max, alpn |-> "", nul |-> FALSE]

Base == [v |-> 13, psks |-> <<Psk("a", 2)>>, type |-> "resumption", choose |-> 1,
         suite |-> "a", hrr |-> FALSE, server_max |-> 2, alpn |-> "", send |-> 2,
         recv |-> TRUE, buf |-> 2, cb |-> "none", ems |-> FALSE, resumed |-> FALSE]

(* A PSK can be chosen when its hash is the suite's.                       *)
Possible(p) == p.choose = 0 \/ /\ p.choose <= Len(p.psks)
                               /\ MCPrfAlg[p.psks[p.choose].suite] = MCPrfAlg[p.suite]

(* Which PSK is chosen, with which suite, after a retry or not.            *)
PskChoices ==
    {p \in {[Base EXCEPT !.psks = ps, !.type = t, !.choose = ch, !.suite = s, !.hrr = h]
            : ps \in {<<Psk("a", 2)>>, <<Psk("a", 1), Psk("b", 2)>>},
              t \in {"resumption", "external"}, ch \in 0..2, s \in {"a", "a2", "b"},
              h \in BOOLEAN} : Possible(p)}

(* Limits and buffers, and what the application decides.                   *)
Limits ==
    {[Base EXCEPT !.psks = <<Psk("a", max)>>, !.server_max = sm, !.buf = b]
        : max \in 1..2, sm \in 0..2, b \in 1..2}
Decisions ==
    {[Base EXCEPT !.psks = <<Psk("a", max)>>, !.server_max = max, !.hrr = h, !.recv = r, !.cb = cb]
        : max \in {2, 4}, h \in BOOLEAN, r \in BOOLEAN, cb \in {"ACCEPTED", "REJECTED", "later", "fail"}}

(* No PSK, ALPN, and TLS1.2.                                               *)
Others ==
    {[Base EXCEPT !.psks = <<>>, !.choose = 0, !.hrr = h] : h \in BOOLEAN}
    \union {[Base EXCEPT !.psks = <<[Psk("a", 2) EXCEPT !.alpn = "h2", !.nul = n]>>, !.alpn = a]
                : n \in BOOLEAN, a \in {"", "h2"}}
    \union {[Base EXCEPT !.v = 12, !.psks = ps, !.choose = 0, !.ems = e, !.resumed = r,
                         !.recv = FALSE]
                : ps \in {<<>>, <<Psk("a", 2)>>}, e \in BOOLEAN, r \in BOOLEAN}

MCPlans == PskChoices \union Limits \union Decisions \union Others
=============================================================================
