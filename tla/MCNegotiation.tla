---------------------------- MODULE MCNegotiation ----------------------------
(* Environments for Negotiation: pairs of policies, builds, certificates.  *)
EXTENDS Negotiation

AllCiphers == {record_algs[a] : a \in DOMAIN record_algs}
modern == [ciphers |-> AllCiphers, rsa_pss |-> TRUE, evp_kem |-> TRUE, mlkem |-> TRUE]
kyber == [modern EXCEPT !.mlkem = FALSE]
classic == [kyber EXCEPT !.evp_kem = FALSE]
old == [classic EXCEPT !.ciphers = AllCiphers \ {"chacha20_poly1305"}, !.rsa_pss = FALSE]

rsa == [id |-> "rsa", type |-> "RSA", key |-> "rsa_rsae_2048", curve |-> "none",
        signed_with |-> "rsa_pkcs1_sha256", name |-> "other", is_default |-> TRUE]
ecdsa == [id |-> "ecdsa", type |-> "ECDSA", key |-> "ec_p384", curve |-> "secp384r1",
          signed_with |-> "ecdsa_sha384", name |-> "exact", is_default |-> TRUE]
pss == [id |-> "pss", type |-> "RSA_PSS", key |-> "rsa_pss_4096", curve |-> "none",
        signed_with |-> "rsa_pss_pss_sha384", name |-> "wildcard", is_default |-> FALSE]
p256 == [ecdsa EXCEPT !.id = "p256", !.key = "ec_p256", !.curve = "secp256r1", !.name = "other",
                      !.signed_with = "ecdsa_sha256"]

Side(policy, build, highest) == [policy |-> policy, build |-> build, highest |-> highest]

Env(c, s, certs) ==
    [client |-> c, server |-> s, certs |-> certs, sni |-> TRUE, dhparams |-> TRUE,
     async |-> FALSE, callback_policy |-> s.policy, strips |-> FALSE]
Plain(c, s, certs) == [Env(c, s, certs) EXCEPT !.sni = FALSE]

Main == {"default", "default_tls13", "default_fips", "default_pq", "20190801", "20230317", "rfc9151",
         "20140601", "20150202", "20170328", "PQ-TLS-1-2-2023-12-14", "PQ-TLS-1-3-2023-06-01",
         "CloudFront-SSL-v-3", "CloudFront-TLS-1-2-2021-Chacha20-Boosted", "test_all", "AWS-CRT-SDK-TLSv1.3"}
Few == {"default_tls13", "default_pq", "rfc9151", "20140601", "PQ-TLS-1-3-2023-06-01", "test_all"}
Builds == {modern, kyber, classic, old}

(* Every policy against itself; the main ones against each other; builds   *)
(* and certificates; lower versions, callbacks and a meddling path.        *)
Selves == {Plain(Side(p, modern, TLS13), Side(p, modern, h), {rsa, ecdsa}) :
              p \in DOMAIN security_policy_selection \ {"null"}, h \in {TLS12, TLS13}}
Pairs == {Plain(Side(p, modern, TLS13), Side(q, modern, TLS13), {rsa, ecdsa}) : p \in Main, q \in Main}
Mixed == {Env(Side(p, b, TLS13), Side(q, d, TLS13), certs) :
              p \in Few, q \in Few, b \in Builds, d \in Builds, certs \in {{rsa}, {p256}, {rsa, ecdsa, pss}}}
Flagged == {[Env(Side(p, modern, h), Side(q, modern, TLS13), {rsa, ecdsa}) EXCEPT
                 !.strips = x, !.async = a, !.callback_policy = r, !.dhparams = ~x, !.sni = a] :
              p \in Few, q \in Few, r \in Few, h \in {TLS10, TLS12, TLS13}, x \in BOOLEAN, a \in BOOLEAN}

(* Both sides must have accepted their policy.                             *)
Accepted(side, certs) ==
    s2n_connection_set_cipher_preferences(security_policy_selection[side.policy], side.build, certs)
MCEnvironments ==
    {e \in Selves \union Pairs \union Mixed \union Flagged :
        Accepted(e.client, {}) /\ Accepted(e.server, e.certs)}
=============================================================================
