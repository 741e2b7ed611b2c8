---------------------------- MODULE KeySchedule ----------------------------
(***************************************************************************)
(* The secrets of a handshake and the record keys made from them: the      *)
(* TLS1.3 key schedule and the TLS1.2 PRF, as operators on a connection.   *)
(*                                                                         *)
(* Code: tls/s2n_tls13_secrets.c, s2n_tls13_key_schedule.c,                *)
(* s2n_tls13_handshake.c, s2n_prf.c, s2n_crypto.c, s2n_key_log.c and       *)
(* crypto/s2n_tls13_keys.c.                                                *)
(*                                                                         *)
(* Cryptography is symbolic: a secret is the term that derives it, two     *)
(* secrets are equal when they were derived in the same way from the same  *)
(* inputs.  A connection is a record c; what its fields are is said in     *)
(* SecureHandshake.  c.closed is the reason an error has closed it, or "". *)
(***************************************************************************)
EXTENDS Naturals, Sequences, SequencesExt

CONSTANTS
    PrfAlg             \* the hash of every cipher suite

Zero == <<>>           \* memory that was zeroed, and the key of the null cipher

Peer(m) == IF m = "client" THEN "server" ELSE "client"
Fail(c, why) == [c EXCEPT !.closed = why]
Hmac(c) == PrfAlg[c.suite]

(* s2n_extract_secret_type_t: how far the chain of extracted secrets is.   *)
NONE == 0
EARLY == 1
HANDSHAKE == 2
MASTER == 3

NoSecrets ==
    [client_early |-> Zero, client_handshake |-> Zero, server_handshake |-> Zero,
     client_app |-> Zero, server_app |-> Zero, exporter |-> Zero, resumption |-> Zero]

----------------------------------------------------------------------------
(* The messages of a handshake.                                            *)
Optional(cond, s) == IF cond THEN s ELSE <<>>

(* The rows of tls13_handshakes with MIDDLEBOX_COMPAT and without client   *)
(* authentication, by the flags EARLY_CLIENT_CCS, HELLO_RETRY_REQUEST,     *)
(* NEGOTIATED, FULL_HANDSHAKE and WITH_EARLY_DATA; before NEGOTIATED a row *)
(* ends with the server's answer.                                          *)
tls13_handshakes ==
    [eccs, hrr, neg, full, ed \in BOOLEAN |->
        <<"CLIENT_HELLO">> \o Optional(eccs, <<"CLIENT_CCS">>)
        \o Optional(hrr, <<"HELLO_RETRY_MSG", "SERVER_CCS">>
                         \o Optional(~eccs, <<"CLIENT_CCS">>) \o <<"CLIENT_HELLO">>)
        \o <<"SERVER_HELLO">>
        \o Optional(neg,
             Optional(~hrr, <<"SERVER_CCS">>) \o <<"ENCRYPTED_EXTENSIONS">>
             \o Optional(full, <<"SERVER_CERT", "SERVER_CERT_VERIFY">>)
             \o <<"SERVER_FINISHED">>
             \o Optional(~eccs /\ ~hrr, <<"CLIENT_CCS">>)
             \o Optional(ed, <<"END_OF_EARLY_DATA">>)
             \o <<"CLIENT_FINISHED", "APPLICATION_DATA">>)]

(* The rows of handshakes for an ECDHE key exchange and for a resumed session.*)
handshakes ==
    [full \in BOOLEAN |->
        IF full
        THEN <<"CLIENT_HELLO", "SERVER_HELLO", "SERVER_CERT", "SERVER_KEY", "SERVER_HELLO_DONE",
               "CLIENT_KEY", "CLIENT_CCS", "CLIENT_FINISHED", "SERVER_CCS", "SERVER_FINISHED",
               "APPLICATION_DATA">>
        ELSE <<"CLIENT_HELLO", "SERVER_HELLO", "SERVER_CCS", "SERVER_FINISHED", "CLIENT_CCS",
               "CLIENT_FINISHED", "APPLICATION_DATA">>]

Row(c) ==
    IF c.v = 13 THEN tls13_handshakes[c.eccs, c.hrr, c.neg, c.full, c.ed] ELSE handshakes[c.full]

s2n_conn_get_current_message_type(c) == Row(c)[c.msg]
ClientWrites ==
    {"CLIENT_HELLO", "CLIENT_CCS", "CLIENT_KEY", "END_OF_EARLY_DATA", "CLIENT_FINISHED"}
Ccs == {"CLIENT_CCS", "SERVER_CCS"}
s2n_handshake_is_complete(c) == s2n_conn_get_current_message_type(c) = "APPLICATION_DATA"
IsWriter(c) ==
    /\ ~s2n_handshake_is_complete(c)
    /\ (s2n_conn_get_current_message_type(c) \in ClientWrites) = (c.mode = "client")

----------------------------------------------------------------------------
(* TLS1.3: extracting a secret from the one before it.                     *)

(* HKDF of the suite's hash, as a free function of its inputs:             *)
(* s2n_extract_secret, s2n_derive_secret.                                  *)
s2n_hkdf_extract(salt, ikm) == <<"extract", salt, ikm>>
s2n_hkdf_expand_label(secret, label, context) == <<label, secret, context>>

(* s2n_extract_early_secret_for_schedule: a client that asked for early    *)
(* data uses its first key, everyone else the key that was chosen, and     *)
(* zeros (key 0) when there is none.                                       *)
s2n_extract_early_secret_for_schedule(c) ==
    LET psk == IF c.mode = "client" /\ c.eds = "REQUESTED" THEN 1 ELSE c.chosen
    IN  IF psk # 0 /\ (psk > Len(c.psk_hash) \/ c.psk_hash[psk] # Hmac(c))
        THEN Fail(c, "psk hash")
        ELSE [c EXCEPT !.x = s2n_hkdf_extract(<<Hmac(c)>>, psk), !.extract = EARLY]

(* s2n_tls13_compute_shared_secret: the same at both ends when they used   *)
(* the shares of the same hello; 0 when the shares were wiped already.     *)
s2n_tls13_compute_shared_secret(c) == c.share

(* s2n_extract_handshake_secret: the shared secret of the key shares goes  *)
(* in; the shares and the secrets of the PSKs are wiped.                   *)
s2n_extract_handshake_secret(c) ==
    IF s2n_tls13_compute_shared_secret(c) = 0 THEN Fail(c, "key share")
    ELSE [c EXCEPT !.x = s2n_hkdf_extract(c.x, s2n_tls13_compute_shared_secret(c)),
                   !.extract = HANDSHAKE,
                   !.share = 0, !.psk_hash = <<>>]

s2n_extract_master_secret(c) == 
    [c EXCEPT !.x = s2n_hkdf_extract(c.x, Zero), !.extract = MASTER]

(* One round of the loop of s2n_tls13_extract_secret.                      *)
ExtractStep(c, i) ==
    IF c.closed # "" \/ i <= c.extract THEN c
    ELSE CASE i = EARLY -> s2n_extract_early_secret_for_schedule(c)
           [] i = HANDSHAKE -> s2n_extract_handshake_secret(c)
           [] i = MASTER -> s2n_extract_master_secret(c)

s2n_tls13_extract_secret(c, type) ==
    FoldLeft(ExtractStep, c, [i \in 1..type |-> i])

(* s2n_derive_secret_with_context, for the secrets of one message: only    *)
(* from the extracted secret they belong to and with the transcript up to  *)
(* the message they belong to.  labels has a label for each secret; the    *)
(* secret callbacks and the key log (s2n_call_secret_callbacks) see every  *)
(* traffic secret and the exporter secret.                                 *)
s2n_derive_secret_with_context(c, type, end, labels, log) ==
    IF c.closed # "" THEN c
    ELSE IF c.extract # type \/ s2n_conn_get_current_message_type(c) # end
    THEN Fail(c, "secret schedule")
    ELSE [c EXCEPT !.sec = [name \in DOMAIN c.sec |->
                               IF name \in DOMAIN labels
                               THEN s2n_hkdf_expand_label(c.x, labels[name], c.transcript)
                               ELSE c.sec[name]],
                   !.log = @ \o log]

s2n_tls13_compute_finished_key(secret) == s2n_hkdf_expand_label(secret, "finished", <<>>)

DeriveEarly(c) ==
    s2n_derive_secret_with_context(c, EARLY, "CLIENT_HELLO",
        [client_early |-> "c e traffic"], <<"CLIENT_EARLY_TRAFFIC_SECRET">>)

DeriveHandshake(c) ==
    LET d == s2n_derive_secret_with_context(c, HANDSHAKE, "SERVER_HELLO",
                 [client_handshake |-> "c hs traffic", server_handshake |-> "s hs traffic"],
                 <<"CLIENT_HANDSHAKE_TRAFFIC_SECRET", "SERVER_HANDSHAKE_TRAFFIC_SECRET">>)
    IN IF d.closed # "" THEN d
       ELSE [d EXCEPT !.client_finished = s2n_tls13_compute_finished_key(d.sec.client_handshake),
                      !.server_finished = s2n_tls13_compute_finished_key(d.sec.server_handshake)]

DeriveApplication(c) ==
    s2n_derive_secret_with_context(c, MASTER, "SERVER_FINISHED",
        [client_app |-> "c ap traffic", server_app |-> "s ap traffic", exporter |-> "exp master"],
        <<"CLIENT_TRAFFIC_SECRET_0", "SERVER_TRAFFIC_SECRET_0", "EXPORTER_SECRET">>)

s2n_derive_resumption_master_secret(c) ==
    s2n_derive_secret_with_context(c, MASTER, "CLIENT_FINISHED", [resumption |-> "res master"], <<>>)

(* s2n_tls13_secrets_update: after every message, for the messages at      *)
(* which secrets become available.                                         *)
s2n_tls13_secrets_update(c) ==
    LET message_type == s2n_conn_get_current_message_type(c) IN
    IF c.v < 13 THEN c
    ELSE CASE message_type = "CLIENT_HELLO" /\ c.eds \in {"REQUESTED", "ACCEPTED"} ->
                DeriveEarly(s2n_tls13_extract_secret(c, EARLY))
           [] message_type = "SERVER_HELLO" ->
                DeriveHandshake(s2n_tls13_extract_secret(c, HANDSHAKE))
           [] message_type = "SERVER_FINISHED" ->
                DeriveApplication(s2n_tls13_extract_secret(c, MASTER))
           [] message_type = "CLIENT_FINISHED" -> s2n_derive_resumption_master_secret(c)
           [] OTHER -> c

(* Mutant: the application secrets are wiped with the others.              *)
MutSecretsClean(c) ==
    IF c.v < 13 THEN c ELSE [c EXCEPT !.x = Zero, !.extract = NONE, !.sec = NoSecrets]

(* s2n_tls13_secrets_clean: once the handshake is complete.                *)
s2n_tls13_secrets_clean(c) ==
    IF c.v < 13 THEN c
    ELSE [c EXCEPT !.x = Zero, !.extract = NONE, !.sec.client_early = Zero,
                   !.sec.client_handshake = Zero, !.sec.server_handshake = Zero]

(* Mutant: the application keys are made from the handshake secrets.       *)
MutSecretName(type, mode) ==
    IF type = EARLY THEN "client_early"
    ELSE IF mode = "client" THEN "client_handshake" ELSE "server_handshake"

(* s2n_tls13_secrets_get: a traffic secret that was extracted already.     *)
SecretName(type, mode) ==
    CASE type = EARLY -> "client_early"
      [] type = HANDSHAKE -> IF mode = "client" THEN "client_handshake" ELSE "server_handshake"
      [] type = MASTER -> IF mode = "client" THEN "client_app" ELSE "server_app"
SecretAvailable(c, type, mode) ==
    /\ type <= c.extract \/ (type = MASTER /\ s2n_handshake_is_complete(c))
    /\ type = EARLY => mode = "client"

(* The key log's name for the secret of a record key.                      *)
KeyLabel(key) ==
    CASE key[1][1] = "c e traffic" -> "CLIENT_EARLY_TRAFFIC_SECRET"
      [] key[1][1] = "c hs traffic" -> "CLIENT_HANDSHAKE_TRAFFIC_SECRET"
      [] key[1][1] = "s hs traffic" -> "SERVER_HANDSHAKE_TRAFFIC_SECRET"
      [] key[1][1] = "c ap traffic" -> "CLIENT_TRAFFIC_SECRET_0"
      [] key[1][1] = "s ap traffic" -> "SERVER_TRAFFIC_SECRET_0"
      [] key[1][1] = "key expansion" -> "CLIENT_RANDOM"

----------------------------------------------------------------------------
(* TLS1.3: the keys of records.                                            *)

(* s2n_tls13_key_schedule_set_key: the key and IV of one direction, and    *)
(* its sequence number back to zero.                                       *)
s2n_tls13_key_schedule_set_key(c, type, mode) ==
    IF c.closed # "" THEN c
    ELSE IF ~SecretAvailable(c, type, mode) THEN Fail(c, "secret not available")
    ELSE IF mode = c.mode
         THEN [c EXCEPT !.wk = <<c.sec[SecretName(type, mode)], c.suite>>, !.wseq = 0]
         ELSE [c EXCEPT !.rk = <<c.sec[SecretName(type, mode)], c.suite>>, !.rseq = 0]

K_send(c, type) == s2n_tls13_key_schedule_set_key(c, type, c.mode)
K_recv(c, type) == s2n_tls13_key_schedule_set_key(c, type, Peer(c.mode))

s2n_client_key_schedule(c) ==
    LET message_type == s2n_conn_get_current_message_type(c) IN
    CASE message_type = "CLIENT_HELLO" /\ c.eds = "REQUESTED" -> K_send(c, EARLY)
      [] message_type = "SERVER_HELLO" -> K_recv(c, HANDSHAKE)
      [] message_type = "SERVER_FINISHED" /\ ~c.ed -> K_send(c, HANDSHAKE)
      [] message_type = "END_OF_EARLY_DATA" -> K_send(c, HANDSHAKE)
      [] message_type = "CLIENT_FINISHED" -> K_recv(K_send(c, MASTER), MASTER)
      [] OTHER -> c

(* Mutant: a server expects no early data after its Finished.              *)
MutServerKeySchedule(c) ==
    LET message_type == s2n_conn_get_current_message_type(c) IN
    CASE message_type = "SERVER_HELLO" -> K_send(c, HANDSHAKE)
      [] message_type = "SERVER_FINISHED" -> K_recv(K_send(c, MASTER), HANDSHAKE)
      [] message_type = "CLIENT_FINISHED" -> K_recv(c, MASTER)
      [] OTHER -> c

s2n_server_key_schedule(c) ==
    LET message_type == s2n_conn_get_current_message_type(c) IN
    CASE message_type = "SERVER_HELLO" -> K_send(c, HANDSHAKE)
      [] message_type = "SERVER_FINISHED" ->
            K_recv(K_send(c, MASTER), IF c.ed THEN EARLY ELSE HANDSHAKE)
      [] message_type = "END_OF_EARLY_DATA" -> K_recv(c, HANDSHAKE)
      [] message_type = "CLIENT_FINISHED" -> K_recv(c, MASTER)
      [] OTHER -> c

s2n_tls13_key_schedule_update(c) ==
    IF c.v < 13 \/ c.closed # "" THEN c
    ELSE IF c.mode = "client" THEN s2n_client_key_schedule(c) ELSE s2n_server_key_schedule(c)

(* s2n_tls13_key_schedule_reset: early data was rejected, nothing that was *)
(* derived for it may be used.                                             *)
s2n_tls13_key_schedule_reset(c) == [c EXCEPT !.wk = Zero, !.rk = Zero, !.extract = NONE]

(* The MAC of a TLS1.3 Finished message: s2n_tls13_calculate_finished_mac. *)
FinishedMac(key, transcript) == <<"mac", key, transcript>>

(* s2n_server_hello_retry_recreate_transcript: the first hello is replaced *)
(* by its hash.                                                            *)
s2n_server_hello_retry_recreate_transcript(c) ==
    [c EXCEPT !.transcript = <<"message_hash">> \o c.transcript]

----------------------------------------------------------------------------
(* TLS1.2: the master secret, the keys of records, Finished.               *)

(* The PRF of the suite's hash (s2n_p_hash), as a free function.           *)
s2n_prf(c, secret, label, seed) == <<label, secret, Hmac(c), seed>>

(* s2n_prf_calculate_master_secret: with EMS over the transcript up to and *)
(* including ClientKeyExchange, which is not hashed yet; else the randoms. *)
s2n_prf_calculate_master_secret(c) ==
    [c EXCEPT !.master = IF c.ems
                         THEN s2n_prf(c, Zero, "extended master secret",
                                      c.transcript \o <<"CLIENT_KEY">>)
                         ELSE s2n_prf(c, Zero, "master secret", <<>>)]

(* s2n_prf_key_expansion: both keys, not used until a ChangeCipherSpec.    *)
s2n_prf_key_expansion(c) ==
    [c EXCEPT !.keys = [m \in {"client", "server"} |->
                            <<s2n_prf(c, c.master, "key expansion", m), c.suite>>]]

s2n_calculate_keys(c) ==
    LET k == s2n_prf_key_expansion(s2n_prf_calculate_master_secret(c))
    IN  [k EXCEPT !.log = @ \o <<"CLIENT_RANDOM">>]   \* s2n_key_log_tls12_secret

s2n_prf_finished(c, label) == s2n_prf(c, c.master, label, c.transcript)

(* s2n_crypto_parameters_switch: what is sent is encrypted from now on.    *)
s2n_crypto_parameters_switch(c) ==
    IF c.wk # Zero THEN c ELSE [c EXCEPT !.wk = c.keys[c.mode], !.wseq = 0]

(* s2n_client_ccs_recv, s2n_server_ccs_recv: what is received is encrypted *)
(* from now on; a client computes the server's Finished here.              *)
s2n_ccs_recv(c) ==
    [c EXCEPT !.rk = c.keys[Peer(c.mode)], !.rseq = 0,
              !.server_finished = IF c.mode = "client" THEN s2n_prf_finished(c, "server finished")
                                  ELSE @]
=============================================================================
