----------------------------- MODULE AsyncPkey -----------------------------
(* Private key operations, tls/s2n_async_pkey.c.  A handler that needs a   *)
(* signature or a decryption calls the key itself or, when the config has   *)
(* async_pkey_cb, hands an operation to the application, which performs it  *)
(* and applies the result to the connection at any later time.              *)
(*                                                                          *)
(* A digest is the value that it is the digest of; a signature is           *)
(* [key, digest]; an RSA ciphertext is [key, plain], a premaster secret     *)
(* [id, version, size].  Every definition is an operator on an operation    *)
(* record, so that the module has no state of its own.                      *)
EXTENDS Integers, Sequences

-----------------------------------------------------------------------------
(* The libcrypto primitives, as the code uses them.                         *)

\* What a digest reads as once s2n_pkey_sign has finalised it.
ConsumedDigest == [ctx |-> "consumed", over |-> <<>>]

\* crypto/s2n_pkey: signing, verifying, and decrypting with the wrong key.
s2n_pkey_sign(key, digest) == [key |-> key, digest |-> digest]
s2n_pkey_verify(key, digest, signature) == signature = s2n_pkey_sign(key, digest)
s2n_pkey_decrypt_fails(key, encrypted) == encrypted.key # key

\* No signature was produced yet.
NoSignature == [key |-> "none", digest |-> ConsumedDigest]
\* What a broken signing service hands to s2n_async_pkey_op_set_output.
Garbage == [key |-> "garbage", digest |-> ConsumedDigest]

\* The size of a premaster secret, S2N_TLS_SECRET_LEN.
S2N_TLS_SECRET_LEN == 48
NoPremaster == [id |-> <<"none", 0>>, version |-> 0, size |-> 0]
NoCiphertext == [key |-> "none", plain |-> NoPremaster]

-----------------------------------------------------------------------------
(* The operation object.                                                    *)

\* s2n_async_pkey_op_allocate: zeroed memory, of no type yet.
s2n_async_pkey_op_allocate ==
  [type |-> "none", conn |-> "none", mode |-> "fast", complete |-> FALSE,
   applied |-> FALSE, freed |-> FALSE, live |-> TRUE,
   digest |-> ConsumedDigest, signature |-> NoSignature,
   encrypted |-> NoCiphertext, decrypted |-> NoPremaster, rsa_failed |-> FALSE]

\* s2n_async_pkey_sign_async: the digest is copied, and a config with
\* verify_after_sign makes the validation strict.
s2n_async_pkey_sign_async(conn, mode, verify_after_sign, digest) ==
  [s2n_async_pkey_op_allocate EXCEPT
     !.type = "sign", !.conn = conn, !.digest = digest,
     !.mode = IF verify_after_sign THEN "strict" ELSE mode]

\* s2n_async_pkey_decrypt_async: both blobs are copied.
s2n_async_pkey_decrypt_async(conn, mode, encrypted, init_decrypted) ==
  [s2n_async_pkey_op_allocate EXCEPT
     !.type = "decrypt", !.conn = conn, !.mode = mode,
     !.encrypted = encrypted, !.decrypted = init_decrypted]

\* s2n_async_pkey_sign_perform: a strict operation signs a copy of the digest,
\* because apply verifies the signature against it; a fast one consumes it.
s2n_async_pkey_sign_perform(op, key) ==
  [op EXCEPT !.signature = s2n_pkey_sign(key, op.digest),
             !.digest = IF op.mode = "strict" THEN op.digest ELSE ConsumedDigest]

\* s2n_async_pkey_decrypt_perform: a failed decryption is remembered, not
\* reported, and leaves the random value the handler put there.
s2n_async_pkey_decrypt_perform(op, key) ==
  [op EXCEPT !.rsa_failed = s2n_pkey_decrypt_fails(key, op.encrypted),
             !.decrypted = IF s2n_pkey_decrypt_fails(key, op.encrypted)
                           THEN op.decrypted ELSE op.encrypted.plain]

\* s2n_async_pkey_op_perform
CanPerform(op) == op.live /\ ~op.complete
s2n_async_pkey_op_perform(op, key) ==
  [(CASE op.type = "sign" -> s2n_async_pkey_sign_perform(op, key)
      [] op.type = "decrypt" -> s2n_async_pkey_decrypt_perform(op, key))
   EXCEPT !.complete = TRUE]

\* s2n_async_pkey_op_get_input: a copy of what is to be signed or decrypted.
s2n_async_pkey_op_get_input(op) ==
  IF op.type = "sign" THEN [digest |-> op.digest] ELSE [encrypted |-> op.encrypted]

\* s2n_async_pkey_op_set_output: the result of an operation performed elsewhere.
\* Nothing asks whether the operation is complete already.
s2n_async_pkey_op_set_output(op, signature, decrypted) ==
  [op EXCEPT !.complete = TRUE,
             !.signature = IF op.type = "sign" THEN signature ELSE @,
             !.decrypted = IF op.type = "decrypt" THEN decrypted ELSE @]

\* s2n_async_pkey_op_set_validation_mode
s2n_async_pkey_op_set_validation_mode(op, mode) == [op EXCEPT !.mode = mode]

\* s2n_async_pkey_verify_signature: under the key of the connection's own leaf.
s2n_async_pkey_verify_signature(own_key, digest, signature) ==
  s2n_pkey_verify(own_key, digest, signature)

\* s2n_async_pkey_sign_apply before it calls on_complete.
s2n_async_pkey_sign_apply(op, own_key) ==
  op.mode = "strict" =>
    s2n_async_pkey_verify_signature(own_key, op.digest, op.signature)

MutApplyAgain(op, conn, async_state) ==
  op.live /\ op.complete /\ op.conn = conn /\ async_state = "INVOKED"

\* The checks of s2n_async_pkey_op_apply: performed, not applied, made for this
\* connection, and the connection waits for an operation.
CanApply(op, conn, async_state) ==
  /\ op.live
  /\ op.complete
  /\ ~op.applied
  /\ op.conn = conn
  /\ async_state = "INVOKED"

\* s2n_async_pkey_sign_free, s2n_async_pkey_decrypt_free: the data goes, the
\* object stays.
s2n_async_pkey_data_free(op) ==
  [op EXCEPT !.freed = TRUE, !.digest = ConsumedDigest, !.signature = NoSignature,
             !.encrypted = NoCiphertext, !.decrypted = NoPremaster]

\* s2n_async_pkey_op_apply, its effect on the operation.
s2n_async_pkey_op_apply(op) ==
  s2n_async_pkey_data_free([op EXCEPT !.applied = TRUE])

\* s2n_async_pkey_op_free: the data is freed here only if apply did not.
s2n_async_pkey_op_free(op) ==
  [(IF op.applied THEN op ELSE s2n_async_pkey_data_free(op)) EXCEPT !.live = FALSE]

-----------------------------------------------------------------------------
(* The handler's side.                                                      *)

\* S2N_ASYNC_PKEY_GUARD: what a handler does with the state it finds.
S2N_ASYNC_PKEY_GUARD(async_state) ==
  CASE async_state = "NOT_INVOKED" -> "proceed"
    [] async_state = "INVOKED" -> "blocked"
    [] async_state = "COMPLETE" -> "done"

\* s2n_async_pkey_sign_sync: the signature, and whether verify_after_sign
\* accepts it.
s2n_async_pkey_sign_sync(key, own_key, verify_after_sign, digest) ==
  [signature |-> s2n_pkey_sign(key, digest),
   ok |-> verify_after_sign =>
            s2n_async_pkey_verify_signature(own_key, digest, s2n_pkey_sign(key, digest))]

\* s2n_async_pkey_decrypt_sync
s2n_async_pkey_decrypt_sync(key, encrypted, init_decrypted) ==
  [rsa_failed |-> s2n_pkey_decrypt_fails(key, encrypted),
   decrypted |-> IF s2n_pkey_decrypt_fails(key, encrypted)
                 THEN init_decrypted ELSE encrypted.plain]
=============================================================================
