--------------------------- MODULE CertValidator ---------------------------
(* The X.509 validator, tls/s2n_x509_validator.c and tls/s2n_crl.c: what a *)
(* peer does with the certificate chain it received, over the calls that    *)
(* the application's revocation list and certificate callbacks split the    *)
(* validation into.                                                         *)
(*                                                                          *)
(* A certificate is a name, CertInfo what it says.  A validation returns    *)
(* [v, err]: the validator and "OK", "ASYNC_BLOCKED" or the error.          *)
EXTENDS Integers, Sequences, FiniteSets, SequencesExt

CONSTANTS
  CertInfo,   \* certificate -> [subject, issuer, key, pkey_type, key_ok, sig_ok, sha1,
              \*                 sans, cn, from, to]
  CrlInfo     \* revocation list -> [issuer, revoked, from, to]

NoCrl == "no_crl"
NoCert == "no_cert"

\* The element of a set that has one.
The(S) == CHOOSE x \in S : TRUE

OK(v) == [v |-> v, err |-> "OK"]
Fail(v, err) == [v |-> v, err |-> err]

-----------------------------------------------------------------------------
(* External: libcrypto.                                                     *)

self_signed(c) == CertInfo[c].subject = CertInfo[c].issuer

\* X509_check_issued
Issued(i, c) == CertInfo[i].subject = CertInfo[c].issuer

\* One step of the chain building of X509_verify_cert: a certificate of the
\* trust store ends the chain, self-signed or not (X509_V_FLAG_PARTIAL_CHAIN).
Extend(path, chain, trust) ==
  IF Last(path) \in trust \/ self_signed(Last(path)) THEN path
  ELSE LET up == { i \in trust \cup ToSet(chain) : Issued(i, Last(path)) }
       IN IF up = {} THEN path ELSE Append(path, CHOOSE i \in up : TRUE)

BuildPath(chain, trust, depth) ==
  LET path[n \in Nat] ==
        IF n = 0 THEN <<chain[1]>>
        ELSE The({ Extend(x, chain, trust) : x \in {path[n - 1]} })
  IN path[depth]

InPeriod(x, now) == x.from <= now /\ now <= x.to

\* X509_verify_cert with X509_V_FLAG_CRL_CHECK_ALL: every certificate of the
\* chain needs a list of its issuer.
CrlError(path, crls) ==
  LET of(c) == { r \in crls : CrlInfo[r].issuer = CertInfo[c].issuer }
  IN IF \E i \in DOMAIN path : of(path[i]) = {} THEN "CRL_LOOKUP_FAILED"
     ELSE IF \E i \in DOMAIN path : \E r \in of(path[i]) : path[i] \in CrlInfo[r].revoked
     THEN "CERT_REVOKED" ELSE "OK"

TimeError(path, now) ==
  IF \E i \in DOMAIN path : now < CertInfo[path[i]].from THEN "CERT_NOT_YET_VALID"
  ELSE IF \E i \in DOMAIN path : now > CertInfo[path[i]].to THEN "CERT_EXPIRED" ELSE "OK"

-----------------------------------------------------------------------------
(* The validator object and the configuration it is set up from.            *)

UninitValidator ==
  [state |-> "UNINIT", skip |-> FALSE, check_ocsp |-> FALSE, depth |-> 0, trust |-> {},
   chain |-> <<>>, path |-> <<>>, lookups |-> <<>>, cb_invoked |-> FALSE,
   finished |-> FALSE, accepted |-> FALSE]

DEFAULT_MAX_CHAIN_DEPTH == 7

\* s2n_x509_validator_init_no_x509_validation and s2n_x509_validator_init, as
\* s2n_connection_set_config chooses between them; a depth of 0 is refused.
s2n_x509_validator_init(conf) ==
  [UninitValidator EXCEPT
     !.state = "INIT",
     !.skip = conf.skip,
     !.check_ocsp = ~conf.skip /\ conf.check_ocsp,
     !.trust = IF conf.skip THEN {} ELSE conf.trust,
     !.depth = IF conf.skip \/ conf.depth = 0 THEN DEFAULT_MAX_CHAIN_DEPTH ELSE conf.depth]

\* s2n_x509_validator_wipe: what the wipe leaves, the callback's answer included,
\* is overwritten by the next init.
s2n_x509_validator_wipe(v) ==
  [v EXCEPT !.state = "UNINIT", !.skip = FALSE, !.depth = 0, !.trust = {},
            !.chain = <<>>, !.path = <<>>, !.lookups = <<>>]

-----------------------------------------------------------------------------
(* Reading the chain.                                                       *)

\* conn->verify_host_fn
VerifyHost(host, name) == host = "any" \/ name = host

MutVerifyHostInformation(c, host) ==
  \/ \E i \in DOMAIN CertInfo[c].sans : VerifyHost(host, CertInfo[c].sans[i].name)
  \/ VerifyHost(host, CertInfo[c].cn)

\* s2n_verify_host_information: any name of the subject alternative names; the
\* common name counts only without one, the empty name only without either.
s2n_verify_host_information(c, host) ==
  LET san == { i \in DOMAIN CertInfo[c].sans :
                 CertInfo[c].sans[i].type \in {"dns", "uri", "ip"} }
  IN IF san # {} THEN \E i \in san : VerifyHost(host, CertInfo[c].sans[i].name)
     ELSE VerifyHost(host, CertInfo[c].cn)

\* s2n_x509_validator_check_cert_preferences
s2n_x509_validator_check_cert_preferences(c, conf) ==
  conf.prefs =>
    /\ ~self_signed(c) /\ conf.tls13 => ~CertInfo[c].sha1
    /\ ~self_signed(c) => CertInfo[c].sig_ok
    /\ CertInfo[c].key_ok

\* s2n_x509_validator_read_cert_chain: at most max_chain_depth certificates are
\* read, and what is left over is an error unless validation is skipped.
s2n_x509_validator_read_cert_chain(v, conf, wire) ==
  LET taken == SubSeq(wire, 1, IF Len(wire) < v.depth THEN Len(wire) ELSE v.depth)
  IN CASE ~v.skip /\ v.trust = {} -> Fail(v, "CERT_UNTRUSTED")
       [] ~v.skip /\ \E i \in DOMAIN taken :
            ~s2n_x509_validator_check_cert_preferences(taken[i], conf)
            -> Fail(v, "CERT_UNTRUSTED")
       [] ~v.skip /\ Len(wire) > v.depth -> Fail(v, "CERT_MAX_CHAIN_DEPTH_EXCEEDED")
       [] taken = <<>> -> Fail(v, "NO_CERT_FOUND")
       [] OTHER -> OK([v EXCEPT !.chain = taken])

-----------------------------------------------------------------------------
(* Revocation lists.                                                        *)

\* The application's callback: the list of the certificate's issuer, if it has
\* one and, where it looks, s2n_crl_validate_active and
\* s2n_crl_validate_not_expired accept it; s2n_crl_lookup_ignore otherwise.
LookupAnswer(conf, c, now) ==
  LET lists == { r \in conf.crls : CrlInfo[r].issuer = CertInfo[c].issuer
                                 /\ (conf.checks => InPeriod(CrlInfo[r], now)) }
  IN IF lists = {} THEN NoCrl ELSE CHOOSE r \in lists : TRUE

\* s2n_crl_lookup_set, s2n_crl_lookup_ignore
Answered(lookup, conf, now) ==
  [lookup EXCEPT !.crl = LookupAnswer(conf, lookup.cert, now), !.status = "FINISHED"]

\* s2n_crl_invoke_lookup_callbacks: one lookup for each certificate received;
\* the callback answers at once, later, or some at once and some later.
s2n_crl_invoke_lookup_callbacks(v, conf, now) ==
  [i \in DOMAIN v.chain |->
     LET asked == [cert |-> v.chain[i], crl |-> NoCrl, status |-> "AWAITING_RESPONSE"]
     IN IF conf.crl = "now" \/ (conf.crl = "mixed" /\ i = 1)
        THEN Answered(asked, conf, now) ELSE asked]

MutGetLookupCallbackStatus(v) ==
  IF \E i \in DOMAIN v.lookups : v.lookups[i].status = "FINISHED"
  THEN "FINISHED" ELSE "AWAITING_RESPONSE"

\* s2n_crl_get_lookup_callback_status
s2n_crl_get_lookup_callback_status(v) ==
  IF \E i \in DOMAIN v.lookups : v.lookups[i].status = "AWAITING_RESPONSE"
  THEN "AWAITING_RESPONSE" ELSE "FINISHED"

\* s2n_crl_handle_lookup_callback_result
s2n_crl_handle_lookup_callback_result(v) ==
  IF s2n_crl_get_lookup_callback_status(v) = "FINISHED"
  THEN OK([v EXCEPT !.state = "READY_TO_VERIFY"])
  ELSE Fail([v EXCEPT !.state = "AWAITING_CRL_CALLBACK"], "ASYNC_BLOCKED")

\* s2n_crl_get_crls_from_lookup_list
s2n_crl_get_crls_from_lookup_list(v) ==
  { v.lookups[i].crl : i \in DOMAIN v.lookups } \ {NoCrl}

\* The rest of s2n_x509_validator_process_cert_chain: the name, then the lists.
s2n_x509_validator_process_cert_chain(v, conf, now) ==
  CASE v.skip -> OK(v)
    [] ~v.skip /\ ~s2n_verify_host_information(v.chain[1], conf.host)
         -> Fail(v, "CERT_UNTRUSTED")
    [] OTHER ->
         IF conf.crl = "none" THEN OK([v EXCEPT !.state = "READY_TO_VERIFY"])
         ELSE IF conf.crl = "cancel" THEN Fail(v, "CANCELLED")
         ELSE s2n_crl_handle_lookup_callback_result(
                [v EXCEPT !.lookups = s2n_crl_invoke_lookup_callbacks(v, conf, now)])

-----------------------------------------------------------------------------
(* Verification.                                                            *)

\* s2n_x509_validator_verify_cert_chain with the time of this call.  The
\* libcrypto builds the chain, looks at the lists, then at the times; a list out
\* of its own period is no error (s2n_crl_ossl_verify_callback).
s2n_x509_validator_verify_cert_chain(v, conf, now) ==
  LET crl_error(path) == IF conf.crl = "none" THEN "OK"
                         ELSE CrlError(path, s2n_crl_get_crls_from_lookup_list(v))
      time_error(path) == IF conf.notime THEN "OK" ELSE TimeError(path, now)
      verified(path) ==
        IF Last(path) \notin v.trust THEN Fail(v, "CERT_UNTRUSTED")
        ELSE IF crl_error(path) # "OK" THEN Fail(v, crl_error(path))
        ELSE IF time_error(path) # "OK" THEN Fail(v, time_error(path))
        ELSE OK([v EXCEPT !.state = "VALIDATED", !.path = path])
  IN The({ verified(path) : path \in {BuildPath(v.chain, v.trust, v.depth)} })

\* s2n_x509_validator_check_root_cert
s2n_x509_validator_check_root_cert(v, conf) ==
  IF conf.prefs => CertInfo[Last(v.path)].key_ok
  THEN OK(v) ELSE Fail(v, "SECURITY_POLICY_INCOMPATIBLE_CERT")

\* A stapled response without a next update is good for this long.
CONSTANT DEFAULT_OCSP_NEXT_UPDATE_PERIOD
NoNextUpdate == -1

\* Times are integers.
ASSUME TimesAssumption ==
  /\ DEFAULT_OCSP_NEXT_UPDATE_PERIOD \in Nat
  /\ \A c \in DOMAIN CertInfo : CertInfo[c].from \in Int /\ CertInfo[c].to \in Int

MutValidateStapledOcspResponse(v, staple, now) ==
  IF v.skip \/ ~v.check_ocsp THEN OK([v EXCEPT !.state = "OCSP_VALIDATED"])
  ELSE IF v.state # "VALIDATED" THEN Fail(v, "INVALID_CERT_STATE")
  ELSE IF ~staple.signed THEN Fail(v, "CERT_UNTRUSTED")
  ELSE IF staple.status = "revoked" THEN Fail(v, "CERT_REVOKED")
  ELSE OK([v EXCEPT !.state = "OCSP_VALIDATED"])

\* s2n_x509_validator_validate_cert_stapled_ocsp_response
s2n_x509_validator_validate_cert_stapled_ocsp_response(v, staple, now) ==
  LET last == IF staple.to = NoNextUpdate
              THEN staple.from + DEFAULT_OCSP_NEXT_UPDATE_PERIOD - 1 ELSE staple.to
      error == IF ~staple.signed THEN "CERT_UNTRUSTED"
               ELSE IF now < staple.from THEN "CERT_INVALID"
               ELSE IF now > last THEN "CERT_EXPIRED"
               ELSE IF staple.status = "revoked" THEN "CERT_REVOKED"
               ELSE IF staple.status # "good" THEN "CERT_UNTRUSTED" ELSE "OK"
  IN CASE v.skip \/ ~v.check_ocsp -> OK([v EXCEPT !.state = "OCSP_VALIDATED"])
       [] ~(v.skip \/ ~v.check_ocsp) /\ v.state # "VALIDATED"
            -> Fail(v, "INVALID_CERT_STATE")
       [] OTHER -> IF error = "OK" THEN OK([v EXCEPT !.state = "OCSP_VALIDATED"])
                   ELSE Fail(v, error)

\* s2n_cert_status_recv: a response of another type is ignored.
s2n_cert_status_recv(v, staple, now) ==
  IF staple.type # "ocsp" THEN OK(v)
  ELSE s2n_x509_validator_validate_cert_stapled_ocsp_response(v, staple, now)

-----------------------------------------------------------------------------
(* The certificate validation callback.                                     *)

\* s2n_cert_validation_accept, s2n_cert_validation_reject: once.
CanDecide(v) == ~v.finished
s2n_cert_validation_accept(v) == [v EXCEPT !.finished = TRUE, !.accepted = TRUE]
s2n_cert_validation_reject(v) == [v EXCEPT !.finished = TRUE, !.accepted = FALSE]

\* s2n_x509_validator_handle_cert_validation_callback_result
s2n_x509_validator_handle_cert_validation_callback_result(v) ==
  IF ~v.finished THEN Fail(v, "ASYNC_BLOCKED")
  ELSE IF v.accepted THEN OK(v) ELSE Fail(v, "CERT_REJECTED")

\* The call of cert_validation_cb in s2n_x509_validator_validate_cert_chain.
InvokeCertValidationCallback(v, conf) ==
  CASE conf.cb = "none" -> OK(v)
    [] conf.cb = "cancel" -> Fail(v, "CANCELLED")
    [] OTHER ->
         LET called == [v EXCEPT !.cb_invoked = TRUE]
         IN s2n_x509_validator_handle_cert_validation_callback_result(
              CASE conf.cb = "accept" -> s2n_cert_validation_accept(called)
                [] conf.cb = "reject" -> s2n_cert_validation_reject(called)
                [] OTHER -> called)

-----------------------------------------------------------------------------
(* s2n_x509_validator_validate_cert_chain_pre_cb and the call of the         *)
(* callback, as the steps that RESULT_GUARD chains.                          *)

Stage(stage, v, conf, msg, now) ==
  CASE stage = "resume" ->
         IF v.state = "INIT" THEN OK(v)
         ELSE IF v.state = "AWAITING_CRL_CALLBACK"
         THEN s2n_crl_handle_lookup_callback_result(v)
         ELSE Fail(v, "INVALID_CERT_STATE")
    [] stage = "read" /\ v.state = "INIT" ->
         s2n_x509_validator_read_cert_chain(v, conf, msg.chain)
    [] stage = "process" /\ v.state = "INIT" ->
         s2n_x509_validator_process_cert_chain(v, conf, now)
    [] stage = "verify" /\ v.state = "READY_TO_VERIFY" ->
         s2n_x509_validator_verify_cert_chain(v, conf, now)
    [] stage = "root" /\ v.state = "VALIDATED" ->
         s2n_x509_validator_check_root_cert(v, conf)
    [] stage = "extensions" /\ conf.tls13 /\ msg.staple.type # "none" ->
         s2n_cert_status_recv(v, msg.staple, now)
    [] stage = "callback" -> InvokeCertValidationCallback(v, conf)
    [] OTHER -> OK(v)

\* RESULT_GUARD: a stage runs when the one before it succeeded.
Then(last, stage, conf, msg, now) ==
  The({ IF r.err = "OK" THEN Stage(stage, r.v, conf, msg, now) ELSE r : r \in {last} })

\* s2n_x509_validator_validate_cert_chain
s2n_x509_validator_validate_cert_chain(v, conf, msg, now) ==
  LET resumed == Stage("resume", v, conf, msg, now)
      read == Then(resumed, "read", conf, msg, now)
      processed == Then(read, "process", conf, msg, now)
      verified == Then(processed, "verify", conf, msg, now)
      rooted == Then(verified, "root", conf, msg, now)
      extended == Then(rooted, "extensions", conf, msg, now)
  IN IF v.cb_invoked THEN s2n_x509_validator_handle_cert_validation_callback_result(v)
     ELSE Then(extended, "callback", conf, msg, now)

\* s2n_x509_validator_is_cert_chain_validated
s2n_x509_validator_is_cert_chain_validated(v) == v.state \in {"VALIDATED", "OCSP_VALIDATED"}

-----------------------------------------------------------------------------
(* What the answers should be, defined without the validator's own means:    *)
(* the properties of Authentication compare the two.                         *)

\* The chain leads to the trust store at time t, without a chain builder: the leaf
\* belongs to every set of certificates that holds the anchors in force and, with
\* an issuer, every presented certificate in force.
InForce(conf, c, t) == conf.notime \/ InPeriod(CertInfo[c], t)
Anchored(conf, chain, t) ==
  LET certs == ToSet(chain) \cup conf.trust
      closed(S) ==
        \A c \in certs :
          /\ InForce(conf, c, t)
          /\ \/ c \in conf.trust
             \/ \E i \in S : Issued(i, c) /\ c \notin conf.trust
          => c \in S
  IN \A S \in SUBSET certs : closed(S) => chain[1] \in S

\* A name of the leaf was asked for: alternative names shadow the common name.
NameMatches(conf, chain) ==
  LET leaf == CertInfo[chain[1]]
      sans == { i \in DOMAIN leaf.sans : leaf.sans[i].type \in {"dns", "uri", "ip"} }
      names == IF sans = {} THEN {leaf.cn} ELSE { leaf.sans[i].name : i \in sans }
  IN conf.host \in names \cup {"any"}

\* The certificate preferences of the policy, for what was presented.
PolicyMet(conf, chain) ==
  conf.prefs =>
    \A c \in ToSet(chain) :
      /\ CertInfo[c].key_ok
      /\ CertInfo[c].subject # CertInfo[c].issuer =>
           CertInfo[c].sig_ok /\ ~(conf.tls13 /\ CertInfo[c].sha1)

Depth(conf) == IF conf.depth = 0 THEN DEFAULT_MAX_CHAIN_DEPTH ELSE conf.depth
Acceptable(conf, chain, t) ==
  /\ Len(chain) <= Depth(conf)
  /\ Anchored(conf, chain, t) /\ NameMatches(conf, chain) /\ PolicyMet(conf, chain)

\* The lists of the issuer of c that the application has.
ListsOf(conf, c) == { r \in conf.crls : CrlInfo[r].issuer = CertInfo[c].issuer }

\* The stapled response is good at time t.
StapleGood(staple, t) ==
  /\ staple.signed
  /\ staple.status = "good"
  /\ staple.from <= t
  /\ staple.to # NoNextUpdate => t <= staple.to
  /\ staple.to = NoNextUpdate => t < staple.from + DEFAULT_OCSP_NEXT_UPDATE_PERIOD
=============================================================================
