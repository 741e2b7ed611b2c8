---------------------------- MODULE KeyExchange ----------------------------
(* The TLS1.2 key exchange, tls/s2n_kex.c, tls/s2n_server_key_exchange.c    *)
(* and tls/s2n_client_key_exchange.c: RSA, DHE, ECDHE and the hybrid of      *)
(* ECDHE with a KEM.                                                         *)
(*                                                                           *)
(* An ephemeral key pair is named by [kex, by, run, kem]; the public and the *)
(* private key of a pair have the same name.  What two pairs agree on is the *)
(* pair of their names, and a KEM ciphertext names the key it is for.        *)
EXTENDS Integers, Sequences, SequencesExt, AsyncPkey

-----------------------------------------------------------------------------
(* struct s2n_kex: the table of the key exchange methods.                    *)

\* The methods that a hybrid method is made of, in the order in which the code
\* calls them; any other method is made of itself.
hybrid(kex) == IF kex = "hybrid" THEN <<"ecdhe", "kem">> ELSE <<kex>>

\* s2n_kex_is_ephemeral: whether there is a ServerKeyExchange.
s2n_kex_is_ephemeral(kex) == kex # "rsa"

\* kem_mapping: the KEMs of a cipher suite with a KEM.
kem_mapping == <<"kyber512r3">>

\* s2n_choose_kem_with_peer_pref_list: the first of the server's that belongs to
\* the suite and that the client named.
s2n_choose_kem_with_peer_pref_list(client_ids, server_prefs) ==
  SelectSeq(server_prefs, LAMBDA k : k \in ToSet(kem_mapping) /\ k \in ToSet(client_ids))

\* s2n_choose_kem_without_peer_pref_list: the client sent no list.
s2n_choose_kem_without_peer_pref_list(server_prefs) ==
  SelectSeq(server_prefs, LAMBDA k : k \in ToSet(kem_mapping))

\* s2n_configure_kem: kems are the lists of both peers, ext whether the client
\* sent its list.
s2n_configure_kem(kems) ==
  IF kems.ext THEN s2n_choose_kem_with_peer_pref_list(kems.client, kems.server)
  ELSE s2n_choose_kem_without_peer_pref_list(kems.server)

-----------------------------------------------------------------------------
(* ServerKeyExchange.                                                        *)

NoKem == "none"
Pair(kex, by, run, kem) ==
  [kex |-> kex, by |-> by, run |-> run, kem |-> IF kex = "kem" THEN kem ELSE NoKem]

\* s2n_ecdhe_server_key_send, s2n_dhe_server_key_send, s2n_kem_server_key_send and
\* s2n_hybrid_server_key_send: a fresh pair for each method; the public halves are
\* written, one after the other.
s2n_kex_server_key_send(kex, run, kems) ==
  [i \in DOMAIN hybrid(kex) |->
     Pair(hybrid(kex)[i], "server", run,
          IF kex = "hybrid" THEN Head(s2n_configure_kem(kems)) ELSE NoKem)]

MutServerKeyDigest(client_random, server_random, params) ==
  [ctx |-> "server_key", over |-> <<client_random, server_random, SubSeq(params, 1, 1)>>]

\* What s2n_server_key_send signs and s2n_server_key_recv verifies: both randoms
\* and all the parameters; for a hybrid method the sizes of both halves add up.
ServerKeyDigest(client_random, server_random, params) ==
  [ctx |-> "server_key", over |-> <<client_random, server_random, params>>]

\* s2n_kex_server_key_recv_read_data: the parameters have the shape of the method.
s2n_kex_server_key_recv_read_data(kex, params) ==
  /\ Len(params) = Len(hybrid(kex))
  /\ \A i \in DOMAIN params : params[i].kex = hybrid(kex)[i]

\* s2n_kex_server_key_recv_parse_data: a KEM has to be one of the client's own.
s2n_kex_server_key_recv_parse_data(params, kems) ==
  \A i \in DOMAIN params :
    params[i].kex = "kem" =>
      s2n_choose_kem_with_peer_pref_list(<<params[i].kem>>, kems.client) # <<>>

-----------------------------------------------------------------------------
(* ClientKeyExchange.                                                        *)

\* s2n_dh_compute_shared_secret, s2n_ecc_evp_compute_shared_secret: both sides get
\* the same value from one private and one public key.
Shared(server_key, client_key) == <<server_key, client_key>>

\* s2n_dhe_client_key_send, s2n_ecdhe_client_key_send, s2n_kem_client_key_send: the
\* client's share for each method, a fresh public key or a ciphertext.
ClientShares(server_keys, run) ==
  [i \in DOMAIN server_keys |->
     Pair(server_keys[i].kex, "client", run, server_keys[i].kem)]

\* s2n_hybrid_client_action and the methods it calls: the secrets of the methods,
\* in the order of the table.
CombinedSecret(server_keys, client_shares) ==
  [i \in DOMAIN server_keys |-> Shared(server_keys[i], client_shares[i])]

\* s2n_rsa_client_key_send: a random secret that begins with the version of the
\* ClientHello, encrypted under the key of the server's certificate.
s2n_rsa_client_key_send(server_public_key, version, run) ==
  LET premaster == [id |-> <<"client", run>>, version |-> version,
                    size |-> S2N_TLS_SECRET_LEN]
  IN [premaster |-> premaster,
      encrypted |-> [key |-> server_public_key, plain |-> premaster]]

\* s2n_rsa_client_key_recv before the decryption: the secret that stands in for
\* one that cannot be decrypted.
RandomPremaster(version, run) ==
  [id |-> <<"server", run>>, version |-> version, size |-> S2N_TLS_SECRET_LEN]

MutRsaClientKeyRecvComplete(rsa_failed, decrypted, version) ==
  [ok |-> decrypted.size = S2N_TLS_SECRET_LEN /\ ~rsa_failed,
   rsa_failed |-> rsa_failed,
   premaster |-> [decrypted EXCEPT !.version = version]]

\* s2n_rsa_client_key_recv_complete: the failure is kept for later, and the
\* version bytes are overwritten whatever they were.
s2n_rsa_client_key_recv_complete(rsa_failed, decrypted, version) ==
  [ok |-> decrypted.size = S2N_TLS_SECRET_LEN,
   rsa_failed |-> rsa_failed \/ decrypted.version # version,
   premaster |-> [decrypted EXCEPT !.version = version]]

\* s2n_kex_tls_prf: s2n_prf_hybrid_master_secret takes the ClientKeyExchange
\* message into the seed, s2n_prf_calculate_master_secret does not.
s2n_kex_tls_prf(kex, secret, run, client_shares) ==
  [label |-> IF kex = "hybrid" THEN "hybrid master secret" ELSE "master secret",
   secret |-> secret, randoms |-> <<run, run>>,
   seed |-> IF kex = "hybrid" THEN client_shares ELSE <<>>]
=============================================================================
