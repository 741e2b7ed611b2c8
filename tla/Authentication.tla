--------------------------- MODULE Authentication ---------------------------
(* Who is at the other end: the certificate, key exchange, CertificateVerify *)
(* and Finished handlers of both peers, with the application's part in them, *)
(* private key operations that it performs later, revocation lists that it   *)
(* looks up later, certificates that it judges later.                        *)
(*                                                                           *)
(* The order of the messages is the subject of Handshake; here it is Flow.   *)
(* A handler that is blocked leaves its message where it is and is called     *)
(* again (s2n_handle_retry_state).                                           *)
EXTENDS Integers, Sequences, FiniteSets, SequencesExt, KeyExchange, CertValidator

CONSTANTS
  Plans,      \* what the peers are configured with and what happens to them
  MaxTime,    \* bound of the wall clock
  KeyType     \* key -> type of the key

Peers == {"client", "server"}
Other(p) == IF p = "client" THEN "server" ELSE "client"

VARIABLES
  plan,       \* the plan of this behaviour
  now,        \* wall clock, seen through s2n_config_wall_clock
  run,        \* how often the connections were wiped and used again
  conn,       \* the two connections
  wire,       \* the messages on their way to a peer
  ops         \* the private key operations that the application holds

vars == <<plan, now, run, conn, wire, ops>>

-----------------------------------------------------------------------------
(* Messages.                                                                 *)

NoStaple == [type |-> "none", signed |-> FALSE, status |-> "none", from |-> 0, to |-> 0]
NoMessage == [type |-> "none", chain |-> <<>>, staple |-> NoStaple, params |-> <<>>,
              sig |-> NoSignature, encrypted |-> NoCiphertext, over |-> <<>>]

TLS13 == plan.kex = "tls13"

\* Who sends what: the rows of Handshake for a full handshake with certificates.
FlowOf(x) ==
  LET client_cert == <<[by |-> "client", type |-> "cert"]>>
      client_verify == IF x.chain["client"] = <<>> THEN <<>>
                       ELSE <<[by |-> "client", type |-> "cert_verify"]>>
      status == IF x.staple.type = "none" THEN <<>>
                ELSE <<[by |-> "server", type |-> "status"]>>
      server_key == IF s2n_kex_is_ephemeral(x.kex)
                    THEN <<[by |-> "server", type |-> "server_key"]>> ELSE <<>>
      server_cert == <<[by |-> "server", type |-> "cert"]>>
      finished(p) == <<[by |-> p, type |-> "finished"]>>
  IN IF x.kex = "tls13"
     THEN server_cert \o <<[by |-> "server", type |-> "cert_verify"]>> \o finished("server")
          \o (IF x.auth THEN client_cert \o client_verify ELSE <<>>) \o finished("client")
     ELSE server_cert \o status \o server_key
          \o (IF x.auth THEN client_cert ELSE <<>>)
          \o <<[by |-> "client", type |-> "client_key"]>>
          \o (IF x.auth THEN client_verify ELSE <<>>)
          \o finished("client") \o finished("server")
Flow == FlowOf(plan)

\* What reaches the other end, when the plan has the message altered on its way
\* or made by a peer that does not follow the protocol.
Altered(tamper, m) ==
  CASE tamper = "first_share" /\ m.type = "server_key"
         -> [m EXCEPT !.params[1].by = "other"]
    [] tamper = "second_share" /\ m.type = "server_key"
         -> [m EXCEPT !.params[2].by = "other"]
    [] tamper = "ciphertext" /\ m.type = "client_key"
         -> [m EXCEPT !.encrypted.key = "garbled"]
    [] tamper = "version" /\ m.type = "client_key"
         -> [m EXCEPT !.encrypted.plain.version = 11]
    [] OTHER -> m
Delivered(m) == Altered(plan.tamper, m)

-----------------------------------------------------------------------------
(* The connection.                                                           *)

NoKey == "no_key"

\* s2n_connection_new, s2n_connection_set_config, and s2n_connection_wipe followed
\* by them: nothing of the previous use is left.  The transcript begins with the
\* hellos, whose randoms are new in every run r.
NewConnection(p, r) ==
  [step |-> 1, err |-> "OK", async_state |-> "NOT_INVOKED", io |-> NoMessage,
   written |-> 0, v |-> s2n_x509_validator_init(plan.conf[p]), peer_key |-> NoKey,
   client_cert_chain |-> <<>>, shares |-> <<>>, premaster |-> NoPremaster, rsa_failed |-> FALSE,
   master |-> s2n_kex_tls_prf(plan.kex, <<>>, 0, <<>>),
   transcript |-> <<[NoMessage EXCEPT !.type = "hellos", !.over = <<r>>]>>,
   seen |-> -1, took |-> -1, lookups |-> 0, judged |-> 0]

Running(p) == conn[p].err = "OK" /\ conn[p].step <= Len(Flow)
Complete(p) == conn[p].err = "OK" /\ conn[p].step > Len(Flow)
Turn(p, by, type) == Running(p) /\ Flow[conn[p].step] = [by |-> by, type |-> type]

Set(p, c) == conn' = [conn EXCEPT ![p] = c]
Abort(p, err) == Set(p, [conn[p] EXCEPT !.err = err]) /\ UNCHANGED <<plan, now, run, wire, ops>>

\* The handler is done: the message counts, the state machine advances.
Advanced(c, m) == [c EXCEPT !.step = @ + 1, !.transcript = Append(@, m),
                            !.io = NoMessage]

\* A writer's message goes out.
Emit(p, c, m) ==
  /\ Set(p, Advanced(c, m))
  /\ wire' = [wire EXCEPT ![Other(p)] = Append(@, Delivered(m))]
  /\ UNCHANGED <<plan, now, run>>

\* A reader's message is consumed.
Arrived(p, by, type) == Turn(p, by, type) /\ wire[p] # <<>>
Consume(p, c) ==
  /\ Set(p, Advanced(c, Head(wire[p])))
  /\ wire' = [wire EXCEPT ![p] = Tail(@)]
  /\ UNCHANGED <<plan, now, run>>

\* s2n_handle_retry_state: the handler is blocked, its message stays.
Blocked(p, c) == Set(p, c) /\ UNCHANGED <<plan, now, run, wire>>

\* The key of our_chain_and_key's leaf, and the one the application really uses.
OwnKey(p) == CertInfo[plan.chain[p][1]].key
UsedKey(p) == IF plan.uses[p] = "wrong" THEN "wrong_key" ELSE OwnKey(p)

-----------------------------------------------------------------------------
(* Signing.                                                                  *)

\* on_complete of a signature: it is written after what the handler wrote.
SignatureWritten(c, signature) == [c EXCEPT !.io.sig = signature, !.written = @ + 1]

\* s2n_async_cb_execute: the operation now belongs to the application, which may
\* perform and apply it before the callback returns.
CallbackLater(p, c, m, op) ==
  /\ ops' = Append(ops, op)
  /\ Blocked(p, [c EXCEPT !.async_state = "INVOKED", !.io = m])

CallbackInline(p, c, m, op) ==
  \E done \in {s2n_async_pkey_op_perform(op, UsedKey(p))} :
    IF s2n_async_pkey_sign_apply(done, OwnKey(p))
    THEN /\ Emit(p, [SignatureWritten([c EXCEPT !.io = m], done.signature)
                     EXCEPT !.async_state = "COMPLETE"],
                 [m EXCEPT !.sig = done.signature])
         /\ ops' = Append(ops, s2n_async_pkey_op_apply(done))
    ELSE /\ Set(p, [conn[p] EXCEPT !.err = "ASYNC_CALLBACK_FAILED"])
         /\ ops' = Append(ops, done)
         /\ UNCHANGED <<plan, now, run, wire>>

\* S2N_ASYNC_PKEY_GUARD and S2N_ASYNC_PKEY_SIGN: m is what the handler writes
\* before the signature.
SignWith(p, c, m, digest) ==
  \/ /\ S2N_ASYNC_PKEY_GUARD(conn[p].async_state) = "proceed"
     /\ plan.keys[p] = "now"
     /\ \E r \in {s2n_async_pkey_sign_sync(UsedKey(p), OwnKey(p), plan.verify_after_sign, digest)} :
          IF r.ok THEN /\ Emit(p, SignatureWritten([c EXCEPT !.io = m], r.signature),
                                  [m EXCEPT !.sig = r.signature])
                       /\ UNCHANGED ops
          ELSE Abort(p, "VERIFY_SIGNATURE")
  \/ /\ S2N_ASYNC_PKEY_GUARD(conn[p].async_state) = "proceed"
     /\ plan.keys[p] # "now"
     /\ \E op \in {s2n_async_pkey_sign_async(p, plan.mode, plan.verify_after_sign, digest)} :
          \/ plan.keys[p] = "later" /\ CallbackLater(p, c, m, op)
          \/ plan.keys[p] = "inline" /\ CallbackInline(p, c, m, op)
  \/ /\ S2N_ASYNC_PKEY_GUARD(conn[p].async_state) = "done"
     /\ Emit(p, [conn[p] EXCEPT !.async_state = "NOT_INVOKED"], conn[p].io)
     /\ UNCHANGED ops

-----------------------------------------------------------------------------
(* Certificate and CertificateStatus.                                        *)

Typed(type) == [NoMessage EXCEPT !.type = type]

\* s2n_server_cert_send, s2n_client_cert_send with s2n_send_cert_chain: the
\* response is stapled to the first certificate in TLS1.3.
SendCert(p) ==
  /\ Turn(p, p, "cert")
  /\ Emit(p, conn[p], [Typed("cert") EXCEPT
                         !.chain = plan.chain[p],
                         !.staple = IF TLS13 /\ p = "server" THEN plan.staple ELSE NoStaple])
  /\ UNCHANGED ops

\* How often the application's callbacks ran in this call of the validator.
Counted(c, conf, r) ==
  [c EXCEPT
     !.v = r.v,
     !.seen = IF @ = -1 THEN now ELSE @,
     !.lookups = IF c.v.state = "INIT" /\ r.v.lookups # <<>> THEN @ + 1 ELSE @,
     !.judged = IF /\ conf.cb \notin {"none", "cancel"}
                   /\ ~c.v.cb_invoked
                   /\ r.v.state # "AWAITING_CRL_CALLBACK"
                   /\ r.err \in {"OK", "ASYNC_BLOCKED", "CERT_REJECTED"}
                THEN @ + 1 ELSE @]

\* s2n_is_cert_type_valid_for_auth: asked by the client only.
s2n_is_cert_type_valid_for_auth(p, leaf) ==
  p = "client" /\ ~TLS13 => KeyType[CertInfo[leaf].key] = plan.auth_method

\* s2n_client_cert_chain_store: kept once, for s2n_connection_get_client_cert_chain,
\* although the handler may be entered again.
s2n_client_cert_chain_store(p, c) ==
  IF p = "server" /\ c.client_cert_chain = <<>>
  THEN [c EXCEPT !.client_cert_chain = Head(wire[p]).chain] ELSE c

\* The handler's call of the validator, and what it does with the answer.
ValidateChain(p) ==
  \E r \in {s2n_x509_validator_validate_cert_chain(
               conn[p].v, plan.conf[p], Head(wire[p]), now)} :
  \E c \in {Counted(s2n_client_cert_chain_store(p, conn[p]), plan.conf[p], r)} :
    \/ /\ r.err = "ASYNC_BLOCKED"
       /\ Blocked(p, c)
    \/ /\ r.err = "OK"
       /\ s2n_is_cert_type_valid_for_auth(p, r.v.chain[1])
       /\ Consume(p, [c EXCEPT !.peer_key = CertInfo[r.v.chain[1]].key, !.took = now])
    \/ /\ r.err = "OK"
       /\ ~s2n_is_cert_type_valid_for_auth(p, r.v.chain[1])
       /\ Blocked(p, [c EXCEPT !.err = "CERT_TYPE_UNSUPPORTED"])
    \/ /\ r.err \notin {"OK", "ASYNC_BLOCKED"}
       /\ Blocked(p, [c EXCEPT !.err = r.err])

\* s2n_server_cert_recv
RecvServerCert ==
  /\ Arrived("client", "server", "cert")
  /\ ValidateChain("client")
  /\ UNCHANGED ops

\* s2n_client_cert_recv: an empty list is left to the state machine.
RecvClientCert ==
  /\ Arrived("server", "client", "cert")
  /\ \/ Head(wire["server"]).chain = <<>> /\ Consume("server", conn["server"])
     \/ Head(wire["server"]).chain # <<>> /\ ValidateChain("server")
  /\ UNCHANGED ops

\* s2n_server_status_send
SendStatus ==
  /\ Turn("server", "server", "status")
  /\ Emit("server", conn["server"], [Typed("status") EXCEPT !.staple = plan.staple])
  /\ UNCHANGED ops

\* s2n_server_status_recv
RecvStatus ==
  /\ Arrived("client", "server", "status")
  /\ \E r \in {s2n_cert_status_recv(conn["client"].v, Head(wire["client"]).staple, now)} :
       IF r.err = "OK" THEN Consume("client", [conn["client"] EXCEPT !.v = r.v])
       ELSE Blocked("client", [conn["client"] EXCEPT !.err = r.err])
  /\ UNCHANGED ops

-----------------------------------------------------------------------------
(* ServerKeyExchange and ClientKeyExchange.                                  *)

\* s2n_server_key_send
SendServerKey ==
  /\ Turn("server", "server", "server_key")
  /\ \E params \in {s2n_kex_server_key_send(plan.kex, run, plan.kems)} :
       SignWith("server", [conn["server"] EXCEPT !.shares = params],
                [Typed("server_key") EXCEPT !.params = params],
                ServerKeyDigest(run, run, params))

\* s2n_server_key_recv: nothing of the message is used before the signature is
\* verified; the server's key is not needed again.
RecvServerKey ==
  /\ Arrived("client", "server", "server_key")
  /\ \E m \in {Head(wire["client"])} :
       IF /\ s2n_kex_server_key_recv_read_data(plan.kex, m.params)
          /\ s2n_pkey_verify(conn["client"].peer_key,
                             ServerKeyDigest(run, run, m.params), m.sig)
          /\ s2n_kex_server_key_recv_parse_data(m.params, plan.kems)
       THEN Consume("client", [conn["client"] EXCEPT !.peer_key = NoKey,
                                                     !.shares = m.params])
       ELSE Blocked("client", [conn["client"] EXCEPT !.err = "BAD_MESSAGE"])
  /\ UNCHANGED ops

\* The version of the ClientHello, as get_client_hello_protocol_version returns it.
ClientHelloVersion == 12

\* s2n_client_key_send and s2n_calculate_keys
SendClientKey ==
  /\ Turn("client", "client", "client_key")
  /\ UNCHANGED ops
  /\ \/ /\ plan.kex = "rsa"
        /\ conn["client"].peer_key # NoKey
        /\ \E r \in {s2n_rsa_client_key_send(conn["client"].peer_key, ClientHelloVersion, run)} :
             Emit("client", [conn["client"] EXCEPT
                               !.peer_key = NoKey, !.premaster = r.premaster,
                               !.master = s2n_kex_tls_prf("rsa", r.premaster, run, <<>>)],
                  [Typed("client_key") EXCEPT !.encrypted = r.encrypted])
     \/ /\ plan.kex # "rsa"
        /\ \E shares \in {ClientShares(conn["client"].shares, run)} :
             Emit("client", [conn["client"] EXCEPT
                               !.shares = <<>>,
                               !.master = s2n_kex_tls_prf(plan.kex,
                                 CombinedSecret(conn["client"].shares, shares), run, shares)],
                  [Typed("client_key") EXCEPT !.params = shares])

\* on_complete of the decryption.
DecryptionTaken(rsa_failed, decrypted) ==
  s2n_rsa_client_key_recv_complete(rsa_failed, decrypted, ClientHelloVersion).ok
Decrypted(c, rsa_failed, decrypted) ==
  LET r == s2n_rsa_client_key_recv_complete(rsa_failed, decrypted, ClientHelloVersion)
  IN [c EXCEPT !.premaster = r.premaster, !.rsa_failed = r.rsa_failed, !.written = @ + 1]

\* s2n_calculate_keys, after s2n_rsa_client_key_recv has the secret.
RsaKeysCalculated(c) ==
  [c EXCEPT !.master = s2n_kex_tls_prf("rsa", c.premaster, run, <<>>)]

\* s2n_rsa_client_key_recv.  When the decryption is left to the application, the
\* secret is wiped with the handler's blob until the result is applied.
RecvRsaClientKey ==
  LET c == conn["server"]
      m == Head(wire["server"])
      random == RandomPremaster(ClientHelloVersion, run)
  IN /\ Arrived("server", "client", "client_key")
     /\ plan.kex = "rsa"
     /\ \/ /\ S2N_ASYNC_PKEY_GUARD(c.async_state) = "proceed"
           /\ plan.keys["server"] = "now"
           /\ \E r \in {s2n_async_pkey_decrypt_sync(UsedKey("server"), m.encrypted, random)} :
                IF DecryptionTaken(r.rsa_failed, r.decrypted)
                THEN Consume("server", RsaKeysCalculated(Decrypted(c, r.rsa_failed, r.decrypted)))
                ELSE Blocked("server", [c EXCEPT !.err = "SIZE_MISMATCH"])
           /\ UNCHANGED ops
        \/ /\ S2N_ASYNC_PKEY_GUARD(c.async_state) = "proceed"
           /\ plan.keys["server"] # "now"
           /\ \E op \in {s2n_async_pkey_decrypt_async("server", plan.mode, m.encrypted, random)} :
                \/ /\ plan.keys["server"] = "later"
                   /\ CallbackLater("server", c, NoMessage, op)
                \/ /\ plan.keys["server"] = "inline"
                   /\ \E done \in {s2n_async_pkey_op_perform(op, UsedKey("server"))} :
                        /\ IF DecryptionTaken(done.rsa_failed, done.decrypted)
                           THEN Consume("server", [RsaKeysCalculated(
                                  Decrypted(c, done.rsa_failed, done.decrypted))
                                                   EXCEPT !.async_state = "COMPLETE"])
                           ELSE Blocked("server", [c EXCEPT !.err = "ASYNC_CALLBACK_FAILED"])
                        /\ ops' = Append(ops,
                             IF DecryptionTaken(done.rsa_failed, done.decrypted)
                             THEN s2n_async_pkey_op_apply(done) ELSE done)
        \/ /\ S2N_ASYNC_PKEY_GUARD(c.async_state) = "done"
           /\ Consume("server", RsaKeysCalculated([c EXCEPT !.async_state = "NOT_INVOKED"]))
           /\ UNCHANGED ops

\* s2n_client_key_recv for the other methods.
RecvClientKey ==
  /\ Arrived("server", "client", "client_key")
  /\ plan.kex # "rsa"
  /\ \E shares \in {Head(wire["server"]).params} :
       Consume("server", [conn["server"] EXCEPT
                            !.shares = <<>>,
                            !.master = s2n_kex_tls_prf(plan.kex,
                              CombinedSecret(conn["server"].shares, shares), run, shares)])
  /\ UNCHANGED ops

-----------------------------------------------------------------------------
(* CertificateVerify and Finished.                                           *)

\* s2n_tls13_generate_unsigned_cert_verify_content: the context string of the
\* signer and the transcript.  TLS1.2 signs the transcript alone.
CertVerifyDigest(p, transcript) ==
  [ctx |-> IF TLS13 THEN p ELSE "tls12", over |-> transcript]

\* s2n_tls13_cert_verify_send, s2n_client_cert_verify_send
SendCertVerify(p) ==
  /\ Turn(p, p, "cert_verify")
  /\ SignWith(p, conn[p], Typed("cert_verify"), CertVerifyDigest(p, conn[p].transcript))

\* s2n_tls13_cert_verify_recv, s2n_client_cert_verify_recv
RecvCertVerify(p) ==
  /\ Arrived(p, Other(p), "cert_verify")
  /\ IF s2n_pkey_verify(conn[p].peer_key, CertVerifyDigest(Other(p), conn[p].transcript),
                        Head(wire[p]).sig)
     THEN Consume(p, conn[p])
     ELSE Blocked(p, [conn[p] EXCEPT !.err = "VERIFY_SIGNATURE"])
  /\ UNCHANGED ops

\* What a Finished message is computed from.
VerifyData(c) == <<c.master, c.transcript>>

\* s2n_server_finished_send, s2n_client_finished_send and the TLS1.3 ones.
SendFinished(p) ==
  /\ Turn(p, p, "finished")
  /\ Emit(p, conn[p], [Typed("finished") EXCEPT !.over = VerifyData(conn[p])])
  /\ UNCHANGED ops

\* s2n_client_finished_recv asks for rsa_failed after it compared the data.
RecvFinished(p) ==
  /\ Arrived(p, Other(p), "finished")
  /\ IF Head(wire[p]).over = VerifyData(conn[p]) /\ ~conn[p].rsa_failed
     THEN Consume(p, conn[p])
     ELSE Blocked(p, [conn[p] EXCEPT !.err = "BAD_MESSAGE"])
  /\ UNCHANGED ops

-----------------------------------------------------------------------------
(* The application.                                                          *)

OnlyOps == UNCHANGED <<plan, now, run, conn, wire>>

\* s2n_async_pkey_op_perform with the private key.
AppPerform(i) ==
  /\ CanPerform(ops[i])
  /\ plan.uses[ops[i].conn] # "drop"
  /\ ops' = [ops EXCEPT ![i] = s2n_async_pkey_op_perform(@, UsedKey(ops[i].conn))]
  /\ OnlyOps

\* A signing service gets the input and hands back the output.  One that cannot
\* decrypt has only a value of the wrong size to return.
ServiceSignature(p, in) ==
  IF plan.uses[p] = "wrong" THEN Garbage ELSE s2n_pkey_sign(OwnKey(p), in.digest)
ServiceDecrypted(p, in) ==
  IF s2n_pkey_decrypt_fails(UsedKey(p), in.encrypted) THEN NoPremaster
  ELSE in.encrypted.plain

\* s2n_async_pkey_op_get_input, which fails once the digest is consumed, and
\* s2n_async_pkey_op_set_output, which also replaces a result that is there.
AppSetOutput(i) ==
  /\ ops[i].live /\ ~ops[i].applied
  /\ ops[i].type = "sign" => ops[i].digest # ConsumedDigest
  /\ plan.uses[ops[i].conn] # "drop"
  /\ \E p \in {ops[i].conn} : \E in \in {s2n_async_pkey_op_get_input(ops[i])} :
       ops' = [ops EXCEPT ![i] =
                 IF @.type = "sign"
                 THEN s2n_async_pkey_op_set_output(@, ServiceSignature(p, in), NoPremaster)
                 ELSE s2n_async_pkey_op_set_output(@, NoSignature, ServiceDecrypted(p, in))]
  /\ OnlyOps

\* s2n_async_pkey_op_set_validation_mode
AppSetMode(i) ==
  /\ plan.remode
  /\ ops[i].live /\ ops[i].mode = "fast" /\ ~ops[i].applied
  /\ ops' = [ops EXCEPT ![i] = s2n_async_pkey_op_set_validation_mode(@, "strict")]
  /\ OnlyOps

\* Whether on_complete, and what precedes it, accepts the result.
ResultAccepted(op, p) ==
  IF op.type = "sign" THEN s2n_async_pkey_sign_apply(op, OwnKey(p))
  ELSE DecryptionTaken(op.rsa_failed, op.decrypted)

\* s2n_async_pkey_op_apply to some connection; an error changes nothing.
AppApply(i, p) ==
  /\ CanApply(ops[i], p, conn[p].async_state)
  /\ ResultAccepted(ops[i], p)
  /\ Set(p, [(IF ops[i].type = "sign" THEN SignatureWritten(conn[p], ops[i].signature)
              ELSE Decrypted(conn[p], ops[i].rsa_failed, ops[i].decrypted))
             EXCEPT !.async_state = "COMPLETE"])
  /\ ops' = [ops EXCEPT ![i] = s2n_async_pkey_op_apply(@)]
  /\ UNCHANGED <<plan, now, run, wire>>

\* An operation whose result the connection refuses for good.
Hopeless(op, p) ==
  \/ ~op.live
  \/ plan.uses[p] = "drop"
  \/ op.applied
  \/ op.conn # p
  \/ op.complete /\ ~ResultAccepted(op, p)

\* s2n_async_pkey_op_free: when the operation is no longer of use.
AppFree(i) ==
  /\ ops[i].live
  /\ \/ Hopeless(ops[i], ops[i].conn)
     \/ conn[ops[i].conn].async_state # "INVOKED"
     \/ conn[ops[i].conn].err # "OK"
  /\ ops' = [ops EXCEPT ![i] = s2n_async_pkey_op_free(@)]
  /\ OnlyOps

\* Nothing will complete the operation the connection waits for: the application
\* closes the connection.
AppGiveUp(p) ==
  /\ Running(p)
  /\ conn[p].async_state = "INVOKED"
  /\ \A i \in DOMAIN ops : Hopeless(ops[i], p)
  /\ Abort(p, "CLOSED_BY_APP")

\* s2n_crl_lookup_set or s2n_crl_lookup_ignore, in any order.
AppLookup(p, i) ==
  /\ i \in DOMAIN conn[p].v.lookups
  /\ conn[p].v.lookups[i].status = "AWAITING_RESPONSE"
  /\ Set(p, [conn[p] EXCEPT !.v.lookups[i] = Answered(conn[p].v.lookups[i], plan.conf[p], now)])
  /\ UNCHANGED <<plan, now, run, wire, ops>>

\* s2n_cert_validation_accept, s2n_cert_validation_reject
AppJudge(p) ==
  /\ plan.conf[p].cb = "later"
  /\ conn[p].v.cb_invoked
  /\ CanDecide(conn[p].v)
  /\ \E v \in {s2n_cert_validation_accept(conn[p].v), s2n_cert_validation_reject(conn[p].v)} :
       Set(p, [conn[p] EXCEPT !.v = v])
  /\ UNCHANGED <<plan, now, run, wire, ops>>

\* s2n_connection_wipe of both connections in the middle of an operation, and
\* their next use.  A careless application keeps the operations.
AppWipe ==
  /\ plan.wipe # "no"
  /\ run = 0
  /\ \E p \in Peers : conn[p].async_state = "INVOKED"
  /\ run' = 1
  /\ conn' = [p \in Peers |-> NewConnection(p, 1)]
  /\ wire' = [p \in Peers |-> <<>>]
  /\ ops' = IF plan.wipe = "careless" THEN ops
            ELSE [i \in DOMAIN ops |-> s2n_async_pkey_op_free(ops[i])]
  /\ UNCHANGED <<plan, now>>

\* The other end is gone.
PeerGone(p) ==
  /\ Running(p)
  /\ conn[Other(p)].err # "OK"
  /\ Flow[conn[p].step].by = Other(p)
  /\ wire[p] = <<>>
  /\ Abort(p, "CLOSED")

Tick ==
  /\ plan.clock
  /\ now < MaxTime
  /\ now' = now + 1
  /\ UNCHANGED <<plan, run, conn, wire, ops>>

-----------------------------------------------------------------------------
\* Names that are the key of no certificate: they mark a signature or a ciphertext
\* made with another key, with none, or made up.
NobodysKeys == {NoKey, "none", "wrong_key", "garbage", "garbled"}

\* A plan names what the code supports; a message can be altered where it is sent.
ASSUME PlansAssumption ==
  \A x \in Plans :
    /\ x.kex \in {"tls13", "rsa", "dhe", "ecdhe", "hybrid"}
    /\ \A p \in Peers : /\ x.keys[p] \in {"now", "inline", "later"}
                        /\ x.uses[p] \in {"right", "wrong", "drop"}
                        /\ x.chain[p] \in Seq(DOMAIN CertInfo)
                        /\ x.chain[p] # <<>> => CertInfo[x.chain[p][1]].key \notin NobodysKeys
                        /\ x.conf[p].trust \subseteq DOMAIN CertInfo
                        /\ NoCrl \notin x.conf[p].crls
                        /\ x.conf[p].depth \in Nat
                        /\ x.conf[p].skip \in BOOLEAN /\ x.conf[p].check_ocsp \in BOOLEAN
                        /\ x.conf[p].tls13 = (x.kex = "tls13")
    /\ x.chain["server"] # <<>>
    /\ x.staple.from \in Int /\ x.staple.to \in Int
    /\ x.tamper \in {"none"}
         \cup (IF x.kex \in {"dhe", "ecdhe", "hybrid"} THEN {"first_share"} ELSE {})
         \cup (IF x.kex = "hybrid" THEN {"second_share"} ELSE {})
         \cup (IF x.kex = "rsa" THEN {"ciphertext", "version"} ELSE {})

Init ==
  /\ plan \in Plans
  /\ now = 0
  /\ run = 0
  /\ conn = [p \in Peers |-> NewConnection(p, 0)]
  /\ wire = [p \in Peers |-> <<>>]
  /\ ops = <<>>

PeerStep(p) ==
  \/ SendCert(p)
  \/ SendCertVerify(p) \/ RecvCertVerify(p)
  \/ SendFinished(p) \/ RecvFinished(p)
  \/ PeerGone(p)

ClientStep == RecvServerCert \/ RecvStatus \/ RecvServerKey \/ SendClientKey
ServerStep == RecvClientCert \/ SendStatus \/ SendServerKey \/ RecvRsaClientKey \/ RecvClientKey

AppStep ==
  \/ \E i \in DOMAIN ops : AppPerform(i) \/ AppSetOutput(i) \/ AppSetMode(i) \/ AppFree(i)
  \/ \E i \in DOMAIN ops, p \in Peers : AppApply(i, p)
  \/ \E p \in Peers : AppGiveUp(p) \/ AppJudge(p)
  \/ \E p \in Peers : \E i \in DOMAIN conn[p].v.lookups : AppLookup(p, i)

Next ==
  \/ \E p \in Peers : PeerStep(p)
  \/ ClientStep \/ ServerStep \/ AppStep
  \/ AppWipe
  \/ Tick

Spec == Init /\ [][Next]_vars

\* The peers run when they can, and the application answers what it is asked: it
\* performs, applies or frees every operation and returns from every callback.
FairSpec ==
  /\ Spec
  /\ \A p \in Peers : WF_vars(PeerStep(p))
  /\ WF_vars(ClientStep)
  /\ WF_vars(ServerStep)
  /\ WF_vars(AppStep)

-----------------------------------------------------------------------------
(* Properties.                                                               *)

Took(p) == conn[p].took # -1
Presented(p) == plan.chain[Other(p)]

\* The application's verdict is asked for once, and what it said decides: no chain
\* is taken before every lookup is answered and the certificate callback accepted
\* it, however often the handler was called in between (cb_invoked,
\* s2n_crl_get_lookup_callback_status).
CallbacksDecide ==
  \A p \in Peers :
    /\ conn[p].lookups <= 1 /\ conn[p].judged <= 1
    /\ Took(p) =>
         /\ plan.conf[p].cb \notin {"reject", "cancel"}
         /\ plan.conf[p].cb # "none" => conn[p].v.finished /\ conn[p].v.accepted
         /\ \A i \in DOMAIN conn[p].v.lookups : conn[p].v.lookups[i].status = "FINISHED"

\* A chain is taken only if it leads to an anchor of the trust store through
\* certificates that were in force at one instant of the validation, for the name
\* asked for and under the policy (s2n_x509_validator_validate_cert_chain, in
\* however many calls it happened); if every lookup was answered and the
\* certificate callback, asked once, accepted it; and the chain that the server's
\* application can ask for is the one that was validated.
ChainTrusted ==
  /\ CallbacksDecide
  /\ \A p \in Peers :
       /\ Took(p) /\ ~plan.conf[p].skip =>
            \E t \in conn[p].seen..conn[p].took : Acceptable(plan.conf[p], Presented(p), t)
       /\ Took(p) /\ p = "server" => conn[p].client_cert_chain = plan.chain["client"]

\* Revocation is not lost between the callbacks: with a lookup callback every
\* certificate of the chain that was built has a list of its issuer, current where
\* the application looks, that does not name it, and a client that checks a stapled
\* response finishes only on a good and current one (s2n_crl_lookup_set,
\* s2n_x509_validator_validate_cert_stapled_ocsp_response).
RevocationHonoured ==
  /\ \A p \in Peers :
       Took(p) /\ ~plan.conf[p].skip /\ plan.conf[p].crl # "none" =>
         \A c \in ToSet(conn[p].v.path) :
           \E r \in ListsOf(plan.conf[p], c) :
             /\ c \notin CrlInfo[r].revoked
             /\ plan.conf[p].checks =>
                  \E t \in conn[p].seen..conn[p].took : InPeriod(CrlInfo[r], t)
  /\ /\ Complete("client")
     /\ plan.staple.type = "ocsp" /\ plan.conf["client"].check_ocsp
     /\ ~plan.conf["client"].skip
     => \E t \in conn["client"].seen..now : StapleGood(plan.staple, t)

\* Whether p asks the other end for a certificate and gets one.
Authenticates(p) == p = "client" \/ (plan.auth /\ plan.chain["client"] # <<>>)

\* The client computes a secret only from parameters that the server signed whole,
\* both halves of a hybrid exchange, although the Finished messages would catch
\* an altered half later (s2n_hybrid_server_key_send, s2n_server_key_recv).
ParametersSigned ==
  conn["client"].shares # <<>> =>
    conn["client"].shares = s2n_kex_server_key_send(plan.kex, run, plan.kems)

\* A handshake that completes has the owner of the certificate at the other end,
\* and both have the same secret and the same transcript: a key that is not the
\* certificate's, a message altered on its way or a signature of an earlier use of
\* the connection never gets as far (s2n_tls13_cert_verify_recv,
\* s2n_server_key_recv, s2n_client_finished_recv).
PeerGenuine ==
  /\ ParametersSigned
  /\ \A p \in Peers :
       Complete(p) =>
         /\ Authenticates(p) => plan.uses[Other(p)] # "wrong"
         /\ plan.tamper = "none"
         /\ conn[Other(p)].master = conn[p].master
         /\ IsPrefix(conn[Other(p)].transcript, conn[p].transcript)

\* The messages of this use that p signed and sent.
Signed(p) ==
  { m \in ToSet(conn[p].transcript) :
      \/ p = "server" /\ m.type = "server_key"
      \/ \E k \in DOMAIN conn[p].transcript :
           /\ conn[p].transcript[k] = m /\ m.type = "cert_verify"
           /\ Flow[k - 1].by = p }

\* With strict validation, or verify_after_sign, no signature leaves the peer that
\* its own certificate does not verify, whichever way the application produced it
\* (s2n_async_pkey_sign_apply, s2n_async_pkey_sign_sync).
StrictCatches ==
  \A p \in Peers :
    (IF plan.keys[p] = "now" THEN plan.verify_after_sign
     ELSE plan.mode = "strict" \/ plan.verify_after_sign) =>
      \A m \in Signed(p) : m.sig.key = OwnKey(p)

\* However the application orders perform, apply, free and wipe, a handshake takes
\* at most one result for each operation it asked for, and never the empty data of
\* an operation that was applied before, nor a result that another connection's
\* operation produced (s2n_async_pkey_op_apply); with strict validation only a
\* result that is right.
OperationsSafe ==
  /\ StrictCatches
  /\ \A p \in Peers :
       /\ conn[p].written <= 1
       /\ \A m \in Signed(p) : m.sig.key \in {OwnKey(p), "wrong_key", "garbage"}

\* An RSA premaster secret that does not decrypt, or that carries another version,
\* is not told apart before the Finished message, and then always fails
\* (s2n_rsa_client_key_recv_complete, s2n_client_finished_recv).
DecryptionSilent ==
  plan.kex = "rsa" =>
    /\ conn["server"].err \notin {"OK", "CLOSED", "CLOSED_BY_APP"} =>
         Flow[conn["server"].step].type # "client_key"
    /\ conn["server"].rsa_failed => ~Complete("server")

\* What the plan does to p, or to its keys.
KeysFaultless ==
  /\ plan.tamper = "none" /\ plan.wipe = "no" /\ ~plan.remode
  /\ \A p \in Peers : plan.uses[p] = "right"
  /\ plan.kex = "hybrid" => s2n_choose_kem_with_peer_pref_list(
                              s2n_configure_kem(plan.kems), plan.kems.client) # <<>>
Welcome(p) ==
  LET conf == plan.conf[p]
      chain == plan.chain[Other(p)]
  IN /\ chain # <<>>
     /\ p = "client" /\ ~TLS13 => KeyType[CertInfo[chain[1]].key] = plan.auth_method
     /\ conf.cb \in {"none", "accept"} \/ (conf.cb = "later" /\ (conn[p].v.finished => conn[p].v.accepted))
     /\ conf.skip \/
          /\ \A t \in 0..now : Acceptable(conf, chain, t)
          /\ conf.prefs => \A c \in conf.trust : CertInfo[c].key_ok
          /\ conf.crl # "cancel"
          /\ conf.crl # "none" =>
               \A c \in ToSet(chain) \cup conf.trust :
                 /\ ListsOf(conf, c) # {}
                 /\ \A r \in ListsOf(conf, c) :
                      c \notin CrlInfo[r].revoked /\ \A t \in 0..now : InPeriod(CrlInfo[r], t)
          /\ conf.check_ocsp /\ plan.staple.type = "ocsp" /\ p = "client" =>
               \A t \in 0..now : StapleGood(plan.staple, t)

\* A handshake fails for a reason: with keys that answer, nothing altered, and
\* chains that were acceptable all the time to those that asked for them, no
\* interleaving of lookups, verdicts, signatures and calls of s2n_negotiate makes a
\* peer fail.
FailureExplained ==
  KeysFaultless /\ (\A p \in Peers : Authenticates(p) => Welcome(p)) =>
    \A q \in Peers : conn[q].err = "OK"

\* Every handshake completes or fails at both ends, whatever was left to the
\* application, once the application answers what it is asked; and it fails for a
\* reason.
Concludes == <>[](FailureExplained /\ \A p \in Peers : ~Running(p))
=============================================================================
