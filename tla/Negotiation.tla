----------------------------- MODULE Negotiation -----------------------------
(***************************************************************************)
(* How a client and a server agree on version, cipher suite, group,        *)
(* signature scheme and certificate: ClientHello, HelloRetryRequest,       *)
(* ServerHello and the server's authentication, as each side computes      *)
(* them from its own security policy and its own build of the library.     *)
(*                                                                         *)
(* Code: tls/s2n_client_hello.c, s2n_server_hello.c,                       *)
(* s2n_server_hello_retry.c, s2n_cipher_suites.c, s2n_kex.c,               *)
(* s2n_signature_algorithms.c, s2n_auth_selection.c, s2n_handshake.c and   *)
(* the supported_versions, supported_groups and key_share extensions.      *)
(***************************************************************************)
EXTENDS PolicyRules

CONSTANT Environments   \* the situations to explore, see EnvironmentOK

(***************************************************************************)
(* An environment fixes, for each side, a policy (by name), a build and    *)
(* the highest version it speaks (s2n_highest_protocol_version: TLS1.2 or  *)
(* TLS1.3 in this library, lower for a client of an older release); the    *)
(* certificates of the server, whether the client sends a server name,     *)
(* whether the server has DH parameters, the policy its ClientHello        *)
(* callback installs (or its own), and whether the path removes the        *)
(* client's supported_versions.                                            *)
(***************************************************************************)
EnvironmentOK(e) ==
    /\ {e.client.policy, e.server.policy} \subseteq DOMAIN security_policy_selection
    /\ e.client.highest \in TLS10..TLS13
    /\ e.server.highest \in TLS12..TLS13
    /\ e.callback_policy \in DOMAIN security_policy_selection
    /\ {e.sni, e.dhparams, e.async, e.strips} \subseteq BOOLEAN

ASSUME EnvironmentsAssumption == \A e \in Environments : EnvironmentOK(e)

VARIABLES
    env,      \* the environment of this handshake
    client,   \* the client's connection
    server,   \* the server's connection
    wire      \* the message under way, or NoMessage

vars == <<env, client, server, wire>>

NoMessage == [type |-> "none"]
Unknown == 0     \* S2N_UNKNOWN_PROTOCOL_VERSION
NoCert == "none"

MinOf(a, b) == IF a < b THEN a ELSE b

Connection(side, mode) ==
    [mode |-> mode, policy |-> side.policy, build |-> side.build,
     client_protocol_version |-> IF mode = "client" THEN side.highest ELSE Unknown,
     server_protocol_version |-> IF mode = "server" THEN side.highest ELSE Unknown,
     actual_protocol_version |-> IF mode = "client" THEN side.highest ELSE Unknown,
     cipher_suite |-> "TLS_NULL_WITH_NULL_NULL",
     client_curve |-> NoGroup, client_kem |-> NoGroup, server_curve |-> NoGroup, server_kem |-> NoGroup,
     hello_retry |-> FALSE, hello |-> NoMessage, scheme |-> "none", cert |-> NoCert,
     callback_invoked |-> FALSE, state |-> "CLIENT_HELLO", error |-> "none"]

P(c) == security_policy_selection[c.policy]
Failed(c, why) == [c EXCEPT !.state = "FAILED", !.error = why]
IsFailed(c) == c.state = "FAILED"

(* A message is handled in steps, one per extension or choice: a step that *)
(* does not fail takes the connection from one state to the next.          *)
ServerStep(from, to, Step(_)) ==
    /\ server.state = from
    /\ \E c \in {Step(server)} : server' = IF IsFailed(c) THEN c ELSE [c EXCEPT !.state = to]
    /\ UNCHANGED <<env, client, wire>>

ClientStep(from, to, Step(_)) ==
    /\ client.state = from
    /\ \E c \in {Step(client)} : client' = IF IsFailed(c) THEN c ELSE [c EXCEPT !.state = to]
    /\ UNCHANGED <<env, server, wire>>

(* s2n_connection_get_protocol_version *)
Version(c) ==
    IF c.actual_protocol_version # Unknown THEN c.actual_protocol_version
    ELSE IF c.mode = "client" THEN c.client_protocol_version ELSE c.server_protocol_version

(* Every certificate the server loaded, as the value of its type.          *)
ServerCerts == env.certs

(***************************************************************************)
(* s2n_connection_validate_tls13_support: without RSA-PSS only a server    *)
(* that has no RSA certificate can speak TLS1.3.                           *)
(***************************************************************************)
s2n_connection_supports_tls13(c) ==
    c.build.rsa_pss \/ (c.mode = "server" /\ \A x \in ServerCerts : x.type # "RSA")

SupportsTLS13(c) == s2n_connection_supports_tls13(c) /\ s2n_security_policy_supports_tls13(P(c))

----------------------------------------------------------------------------
(* ClientHello, client side.                                               *)

s2n_cipher_suite_validate_available(c, s) ==
    /\ available(c.build, s)
    /\ cipher_suite[s].minimum_required_tls_version <= c.client_protocol_version

s2n_signature_scheme_valid_for_send(c, s) ==
    /\ c.actual_protocol_version >= signature_scheme[s].minimum_protocol_version
    /\ ~c.build.rsa_pss => ~is_rsa_pss(s)

s2n_client_supported_versions_send(c) ==
    IF Version(c) >= TLS13
    THEN {v \in SSLv3..TLS13 : P(c).minimum_protocol_version <= v /\ v <= c.client_protocol_version}
    ELSE {}

AvailableKems(c) == {g \in InList(P(c).kem_preferences.groups) : s2n_kem_group_is_available(c.build, g)}

PreferredCurve(c, allowed) == FirstOf(P(c).ecc_preferences, LAMBDA g : g \in allowed)
PreferredKem(c, allowed) == FirstOf(P(c).kem_preferences.groups, LAMBDA g : g \in allowed)

(* The order of the groups on the wire is the client's: the server goes by *)
(* its own.                                                                *)
s2n_client_supported_groups_send(c) ==
    IF ~s2n_ecc_is_extension_required(P(c)) THEN {}
    ELSE (IF Version(c) >= TLS13 /\ s2n_pq_is_enabled(c.build) THEN AvailableKems(c) ELSE {})
         \union InList(P(c).ecc_preferences)

s2n_signature_algorithms_supported_list_send(c) ==
    IF Version(c) < TLS12 THEN {}
    ELSE {s \in InList(P(c).signature_preferences) : s2n_signature_scheme_valid_for_send(c, s)}

(* One share of the preferred hybrid group and one of the preferred curve, *)
(* or only the group the server asked for in a retry.                      *)
GenerateKeyShares(c) ==
    IF c.hello_retry
    THEN [c EXCEPT !.client_kem = IF c.server_kem # NoGroup THEN c.server_kem ELSE @,
                   !.client_curve = IF c.server_curve # NoGroup THEN c.server_curve ELSE @]
    ELSE [c EXCEPT !.client_kem = PreferredKem(c, AvailableKems(c)),
                   !.client_curve = P(c).ecc_preferences[1]]

(* Mutant: sends every share again in a retry. *)
MutSendFirstShares(c) ==
    IF c.actual_protocol_version < TLS13 THEN {}
    ELSE {c.client_kem, c.client_curve} \ {NoGroup}

s2n_client_key_share_send(c) ==
    IF c.actual_protocol_version < TLS13 THEN {}
    ELSE IF c.hello_retry THEN {c.server_kem, c.server_curve} \ {NoGroup}
    ELSE {c.client_kem, c.client_curve} \ {NoGroup}

(* s2n_client_hello_send caps the versions of a client that cannot speak   *)
(* TLS1.3 before it writes anything.                                       *)
CapClient(c) ==
    IF SupportsTLS13(c) THEN c
    ELSE [c EXCEPT !.client_protocol_version = MinOf(@, TLS12), !.actual_protocol_version = MinOf(@, TLS12)]

WithShares(c) == IF c.actual_protocol_version >= TLS13 THEN GenerateKeyShares(c) ELSE c

ClientHello(c) ==
    [type |-> "CLIENT_HELLO",
     legacy |-> MinOf(c.client_protocol_version, TLS12),
     versions |-> s2n_client_supported_versions_send(c),
     suites |-> {s \in InList(CipherList(P(c))) : s2n_cipher_suite_validate_available(c, s)},
     first_suite |-> FirstOf(CipherList(P(c)), LAMBDA s : s2n_cipher_suite_validate_available(c, s)),
     groups |-> s2n_client_supported_groups_send(c),
     schemes |-> s2n_signature_algorithms_supported_list_send(c),
     shares |-> s2n_client_key_share_send(c),
     sni |-> env.sni]

(* The checks that stop the client from writing a hello.                   *)
HelloWritable(c, m) ==
    /\ m.suites # {}
    /\ c.client_protocol_version >= P(c).minimum_protocol_version \/ Version(c) < TLS13
    /\ Version(c) >= TLS13 => m.shares # {}

s2n_client_hello_send ==
    /\ client.state = "CLIENT_HELLO" /\ wire = NoMessage
    /\ \E c \in {WithShares(CapClient(client))} : \E m \in {ClientHello(c)} :
           IF HelloWritable(c, m)
           THEN /\ client' = [c EXCEPT !.state = "SERVER_HELLO", !.hello = m]
                /\ wire' = IF env.strips THEN [m EXCEPT !.versions = {}] ELSE m
           ELSE /\ client' = Failed(c, "hello")
                /\ wire' = wire
    /\ UNCHANGED <<env, server>>

----------------------------------------------------------------------------
(* ClientHello, server side: each extension of the list in the order       *)
(* s2n_extension_list_process takes them.                                  *)

(* s2n_client_hello_verify_for_retry: only the key share may change.       *)
s2n_client_hello_verify_for_retry(c, m) ==
    c.hello_retry => [c.hello EXCEPT !.shares = {}] = [m EXCEPT !.shares = {}]

CapServer(c) ==
    IF SupportsTLS13(c) THEN c
    ELSE [c EXCEPT !.server_protocol_version = MinOf(@, TLS12),
                   !.actual_protocol_version = MinOf(c.server_protocol_version, TLS12)]

DefaultCurve(c) ==
    [c EXCEPT !.server_curve = IF "secp256r1" \in InList(P(c).ecc_preferences) THEN "secp256r1"
                               ELSE P(c).ecc_preferences[1]]

s2n_client_supported_versions_recv(c, m) ==
    IF m.versions = {} \/ Version(c) < TLS13 THEN c
    ELSE LET common == {v \in m.versions : P(c).minimum_protocol_version <= v /\ v <= c.server_protocol_version}
         IN  IF common = {} THEN Failed(c, "version")
             ELSE LET d == [c EXCEPT !.client_protocol_version = Max(m.versions),
                                     !.actual_protocol_version = Max(common)]
                  IN  IF c.hello_retry /\ d.actual_protocol_version # TLS13 THEN Failed(c, "version") ELSE d

MutualCurves(c, m) == InList(P(c).ecc_preferences) \cap m.groups

MutualKems(c, m) ==
    IF s2n_pq_is_enabled(c.build) /\ Version(c) >= TLS13 THEN AvailableKems(c) \cap m.groups ELSE {}

(* s2n_choose_supported_group: the first mutual hybrid group, else the     *)
(* first mutual curve, and nothing of the other kind.                      *)
s2n_client_supported_groups_recv(c, m) ==
    IF m.groups = {} THEN c
    ELSE LET kem == PreferredKem(c, MutualKems(c, m))
         IN  [c EXCEPT !.server_kem = kem,
                       !.server_curve = IF kem = NoGroup THEN PreferredCurve(c, MutualCurves(c, m)) ELSE NoGroup]

(* Of the client's shares the server keeps the curve and the hybrid group  *)
(* it prefers.                                                             *)
s2n_client_key_share_recv_ecc(c, m) ==
    PreferredCurve(c, MutualCurves(c, m) \cap (m.shares \union {c.client_curve}))
s2n_client_key_share_recv_pq_hybrid(c, m) ==
    PreferredKem(c, MutualKems(c, m) \cap (m.shares \union {c.client_kem}))

s2n_client_key_share_recv(c, m) ==
    IF c.actual_protocol_version < TLS13 \/ m.shares = {} THEN c
    ELSE IF c.hello_retry /\ Cardinality(m.shares) # 1 THEN Failed(c, "shares")
    ELSE LET curve == s2n_client_key_share_recv_ecc(c, m)
             kem == s2n_client_key_share_recv_pq_hybrid(c, m)
         IN  [c EXCEPT !.client_curve = curve, !.client_kem = kem,
                       !.hello_retry = @ \/ (curve = NoGroup /\ kem = NoGroup)]

s2n_extensions_server_key_share_select(c) ==
    IF c.actual_protocol_version < TLS13 THEN c
    ELSE IF (c.server_curve = NoGroup) = (c.server_kem = NoGroup) THEN Failed(c, "group")
    ELSE IF c.client_kem # NoGroup
         THEN [c EXCEPT !.server_kem = c.client_kem, !.server_curve = NoGroup]
    ELSE IF c.server_kem # NoGroup
         THEN [c EXCEPT !.server_curve = NoGroup, !.hello_retry = TRUE]
    ELSE IF c.client_curve # NoGroup
         THEN [c EXCEPT !.server_curve = c.client_curve, !.server_kem = NoGroup]
    ELSE [c EXCEPT !.hello_retry = TRUE]

(* Before TLS1.3 the version is settled here, and a client below the       *)
(* policy's minimum is refused.                                            *)
SettleVersion(c) ==
    LET d == IF c.actual_protocol_version >= TLS13 THEN c
             ELSE [c EXCEPT !.actual_protocol_version =
                       MinOf(c.server_protocol_version, c.client_protocol_version)]
    IN  IF d.client_protocol_version < P(c).minimum_protocol_version THEN Failed(d, "version") ELSE d

(* s2n_conn_find_name_matching_certs, s2n_get_compatible_cert_chain_and_   *)
(* key: the exact matches of the server name, else the wildcard matches,   *)
(* else the defaults.                                                      *)
Candidates(m) ==
    LET named(n) == {x \in ServerCerts : x.name = n}
    IN  IF m.sni /\ named("exact") # {} THEN named("exact")
        ELSE IF m.sni /\ named("wildcard") # {} THEN named("wildcard")
        ELSE {x \in ServerCerts : x.is_default}

CompatibleCerts(m, type) == {x \in Candidates(m) : x.type = type}

auth_method(type) == IF type = "ECDSA" THEN "ECDSA" ELSE "RSA"

s2n_is_cipher_suite_valid_for_auth(m, s) ==
    \/ cipher_suite[s].auth_method = "TLS13"
    \/ \E x \in Candidates(m) : auth_method(x.type) = cipher_suite[s].auth_method

s2n_kex_supported(c, m, s) ==
    CASE cipher_suite[s].key_exchange_alg = "rsa" -> CompatibleCerts(m, "RSA") # {}
      [] cipher_suite[s].key_exchange_alg = "dhe" -> env.dhparams
      [] cipher_suite[s].key_exchange_alg = "ecdhe" -> c.server_curve # NoGroup
      [] cipher_suite[s].key_exchange_alg = "tls13" -> Version(c) >= TLS13

(* A suite of the server's list the loop of s2n_set_cipher_as_server does  *)
(* not skip.                                                               *)
Acceptable(c, m, s) ==
    /\ s \in m.suites
    /\ (c.actual_protocol_version >= TLS13) = is_tls13_suite(s)
    /\ IF c.actual_protocol_version = SSLv3 THEN sslv3_available(c.build, s) ELSE available(c.build, s)
    /\ s2n_is_cipher_suite_valid_for_auth(m, s)
    /\ s2n_kex_supported(c, m, s)

s2n_validate_chacha20_boosting(c, m) ==
    /\ P(c).cipher_preferences.allow_chacha20_boosting
    /\ s2n_cipher_suite_uses_chacha20_alg(c.build, m.first_suite)

(* The first suite of the list it walks that does, with ChaCha20 or below  *)
(* the version if it must; a retry may not change it.                      *)
SetCipher(list, c, m) ==
    LET Fits(s) == Acceptable(c, m, s) /\ cipher_suite[s].minimum_required_tls_version <= c.actual_protocol_version
        Boosted(s) == Fits(s) /\ s2n_cipher_suite_uses_chacha20_alg(c.build, s)
        suite == IF s2n_validate_chacha20_boosting(c, m) /\ \E s \in InList(list) : Boosted(s)
                 THEN FirstOf(list, Boosted)
                 ELSE IF \E s \in InList(list) : Fits(s) THEN FirstOf(list, Fits)
                 ELSE FirstOf(list, LAMBDA s : Acceptable(c, m, s))
    IN  IF suite = "none" THEN Failed(c, "suite")
        ELSE IF c.hello.type # "none" /\ c.hello_retry /\ suite # c.cipher_suite THEN Failed(c, "suite changed")
        ELSE [c EXCEPT !.cipher_suite = suite]

(* Mutant: walks the client's list, not its own. *)
MutClientList(c, m) == SetCipher(CipherList(P(client)), c, m)

s2n_set_cipher_as_server(c, m) == SetCipher(CipherList(P(c)), c, m)

(* The scheme the server signs with.                                       *)
s2n_signature_scheme_valid_for_recv(c, s) ==
    /\ s2n_signature_scheme_valid_for_send(c, s)
    /\ signature_scheme[s].maximum_protocol_version # 0 => c.actual_protocol_version <= signature_scheme[s].maximum_protocol_version
    /\ c.actual_protocol_version >= TLS13 =>
          signature_scheme[s].hash_alg # "SHA1" /\ signature_scheme[s].sig_alg # "RSA"

pkey_type(s) ==
    CASE signature_scheme[s].sig_alg \in {"RSA", "RSA_PSS_RSAE"} -> "RSA"
      [] signature_scheme[s].sig_alg = "RSA_PSS_PSS" -> "RSA_PSS"
      [] OTHER -> "ECDSA"

s2n_certs_exist_for_sig_scheme(c, m, s) ==
    \E x \in CompatibleCerts(m, pkey_type(s)) :
        (c.actual_protocol_version >= TLS13 /\ signature_scheme[s].signature_curve # "none")
            => x.curve = signature_scheme[s].signature_curve

s2n_is_sig_alg_valid_for_cipher_suite(c, s) ==
    /\ ~is_ephemeral(c.cipher_suite) => pkey_type(s) # "RSA_PSS"
    /\ cipher_suite[c.cipher_suite].auth_method # "TLS13" =>
          cipher_suite[c.cipher_suite].auth_method = auth_method(pkey_type(s))

s2n_signature_algorithms_get_legacy_default(c) ==
    IF cipher_suite[c.cipher_suite].auth_method = "ECDSA" THEN "ecdsa_sha1" ELSE "rsa_pkcs1_md5_sha1"

(* The first scheme the client listed, else a SHA1 default, else the first *)
(* usable one.                                                             *)
s2n_signature_algorithm_select(c, m) ==
    IF c.actual_protocol_version < TLS12
    THEN [c EXCEPT !.scheme = s2n_signature_algorithms_get_legacy_default(c)]
    ELSE LET prefs == P(c).signature_preferences
             Usable(s) == /\ s2n_signature_scheme_valid_for_recv(c, s)
                          /\ s2n_certs_exist_for_sig_scheme(c, m, s)
                          /\ s2n_is_sig_alg_valid_for_cipher_suite(c, s)
             Listed(s) == s \in m.schemes /\ Usable(s)
             Default(s) == s \in {"ecdsa_sha1", "rsa_pkcs1_sha1"} /\ Usable(s)
             best == IF \E s \in InList(prefs) : Listed(s) THEN FirstOf(prefs, Listed)
                     ELSE IF \E s \in InList(prefs) : Default(s) THEN FirstOf(Reverse(prefs), Default)
                     ELSE FirstOf(prefs, Usable)
         IN  IF best = "none" THEN Failed(c, "signature") ELSE [c EXCEPT !.scheme = best]

s2n_select_certs_for_server_auth(c, m) ==
    LET certs == CompatibleCerts(m, pkey_type(c.scheme))
    IN  IF certs = {} THEN Failed(c, "certificate")
        ELSE [c EXCEPT !.cert = (CHOOSE x \in certs : TRUE).id]

(* s2n_client_hello_recv parses the hello, then asks the application once  *)
(* (never again in a retry), which may answer later.                       *)
ClientHelloParsed ==
    /\ server.state = "CLIENT_HELLO" /\ wire.type = "CLIENT_HELLO"
    /\ LET c == [server EXCEPT !.client_protocol_version = MinOf(wire.legacy, TLS12)]
       IN  server' = IF ~s2n_client_hello_verify_for_retry(c, wire) THEN Failed(c, "retry hello")
                     ELSE IF env.async /\ ~c.callback_invoked /\ ~c.hello_retry
                     THEN [c EXCEPT !.state = "ASYNC_BLOCKED", !.callback_invoked = TRUE]
                     ELSE [c EXCEPT !.state = "PROCESS"]
    /\ UNCHANGED <<env, client, wire>>

(* The application answers the callback: it may have put another policy on *)
(* the connection (s2n_connection_set_cipher_preferences, checked against  *)
(* the build and the certificates) before it calls                         *)
(* s2n_client_hello_cb_done.                                               *)
s2n_client_hello_cb_done ==
    /\ server.state = "ASYNC_BLOCKED"
    /\ LET p == s2n_find_security_policy_from_version(env.callback_policy)
           swap == s2n_connection_set_cipher_preferences(p, server.build, ServerCerts)
       IN  server' = [server EXCEPT !.policy = IF swap THEN env.callback_policy ELSE @, !.state = "PROCESS"]
    /\ UNCHANGED <<env, client, wire>>

(* s2n_process_client_hello: the extensions, then the choices.             *)
ProcessVersions ==
    ServerStep("PROCESS", "GROUPS", LAMBDA c : s2n_client_supported_versions_recv(DefaultCurve(CapServer(c)), wire))
ProcessGroups == ServerStep("GROUPS", "KEY_SHARE", LAMBDA c : s2n_client_supported_groups_recv(c, wire))
ProcessKeyShare == ServerStep("KEY_SHARE", "SELECT_SHARE", LAMBDA c : s2n_client_key_share_recv(c, wire))
SelectKeyShare == ServerStep("SELECT_SHARE", "SETTLE", s2n_extensions_server_key_share_select)
ProcessVersion == ServerStep("SETTLE", "SUITE", SettleVersion)
SelectSuite == ServerStep("SUITE", "SCHEME", LAMBDA c : s2n_set_cipher_as_server(c, wire))
SelectScheme == ServerStep("SCHEME", "CERT", LAMBDA c : s2n_signature_algorithm_select(c, wire))
SelectCert == ServerStep("CERT", "PROCESSED", LAMBDA c : s2n_select_certs_for_server_auth(c, wire))

(* The message is consumed; a first hello without a usable share is        *)
(* answered with a retry.                                                  *)
ClientHelloAccepted ==
    /\ server.state = "PROCESSED"
    /\ server' = [server EXCEPT !.hello = wire,
                                !.state = IF server.hello_retry /\ server.hello = NoMessage
                                          THEN "HELLO_RETRY" ELSE "SERVER_HELLO"]
    /\ wire' = NoMessage
    /\ UNCHANGED <<env, client>>

----------------------------------------------------------------------------
(* HelloRetryRequest and ServerHello.                                      *)

Group(c) == IF c.server_curve # NoGroup THEN c.server_curve ELSE c.server_kem

s2n_server_add_downgrade_mechanism(c) ==
    CASE c.server_protocol_version >= TLS13 /\ c.actual_protocol_version = TLS12 -> "tls12_downgrade"
      [] c.server_protocol_version >= TLS13 /\ c.actual_protocol_version <= TLS11 -> "tls11_downgrade"
      [] OTHER -> "random"

ServerHello(c, random) ==
    [type |-> "SERVER_HELLO", legacy |-> MinOf(c.actual_protocol_version, TLS12), random |-> random,
     version |-> IF Version(c) >= TLS13 THEN c.server_protocol_version ELSE Unknown,
     suite |-> c.cipher_suite, group |-> IF c.actual_protocol_version >= TLS13 THEN Group(c) ELSE NoGroup]

s2n_server_hello_retry_send ==
    /\ server.state = "HELLO_RETRY" /\ wire = NoMessage
    /\ wire' = ServerHello(server, "retry")
    /\ server' = [server EXCEPT !.state = "CLIENT_HELLO"]
    /\ UNCHANGED <<env, client>>

(* A key share of the chosen group must be there to answer it.             *)
s2n_server_key_share_send_check(c) ==
    c.actual_protocol_version >= TLS13 =>
        IF c.server_curve # NoGroup THEN c.client_curve = c.server_curve
                                    ELSE s2n_pq_is_enabled(c.build) /\ c.client_kem = c.server_kem

s2n_server_hello_send ==
    /\ server.state = "SERVER_HELLO" /\ wire = NoMessage
    /\ IF s2n_server_key_share_send_check(server)
       THEN /\ wire' = ServerHello(server, s2n_server_add_downgrade_mechanism(server))
            /\ server' = [server EXCEPT !.state = "SERVER_AUTH"]
       ELSE /\ server' = Failed(server, "share")
            /\ wire' = wire
    /\ UNCHANGED <<env, client>>

(* The extensions of a ServerHello, client side.                           *)
s2n_server_supported_versions_recv(c, m) ==
    IF m.version = Unknown \/ Version(c) < TLS13 THEN c
    ELSE IF /\ c.hello_retry => m.random = "retry" \/ c.server_protocol_version = m.version
            /\ m.version >= TLS13 /\ m.version <= c.client_protocol_version
            /\ m.version >= P(c).minimum_protocol_version
         THEN [c EXCEPT !.server_protocol_version = m.version]
         ELSE Failed(c, "version")

s2n_server_key_share_recv_ecc(c, m) ==
    IF c.hello_retry /\ m.random # "retry" /\ c.server_curve # m.group THEN Failed(c, "group")
    ELSE IF m.random # "retry" /\ c.client_curve # m.group THEN Failed(c, "group")
    ELSE [c EXCEPT !.server_curve = m.group, !.client_kem = NoGroup]

s2n_server_key_share_recv_pq_hybrid(c, m) ==
    IF ~s2n_pq_is_enabled(c.build) \/ (m.random # "retry" /\ c.client_kem # m.group) THEN Failed(c, "group")
    ELSE [c EXCEPT !.server_kem = m.group]

s2n_server_key_share_recv(c, m) ==
    IF m.group = NoGroup THEN c
    ELSE IF m.group \in InList(P(c).ecc_preferences) THEN s2n_server_key_share_recv_ecc(c, m)
    ELSE IF m.group \in InList(P(c).kem_preferences.groups) THEN s2n_server_key_share_recv_pq_hybrid(c, m)
    ELSE Failed(c, "group")

(* Mutant: only the marker of TLS1.1 and below is looked for. *)
MutNoDowngradeCheck(c, m) ==
    /\ c.client_protocol_version = TLS13
    /\ m.random = "tls11_downgrade"

s2n_client_detect_downgrade_mechanism(c, m) ==
    /\ c.client_protocol_version = TLS13
    /\ m.random = IF m.legacy = TLS12 THEN "tls12_downgrade" ELSE "tls11_downgrade"

s2n_set_cipher_as_client(c, m) ==
    IF ~(m.suite \in InList(CipherList(P(c))) /\ available(c.build, m.suite)) THEN Failed(c, "suite")
    ELSE IF c.hello_retry /\ m.random # "retry"
         THEN IF m.suite = c.cipher_suite THEN c ELSE Failed(c, "suite")
    ELSE [c EXCEPT !.cipher_suite = m.suite]

(* Mutant: the negotiated version is not recorded. *)
MutVersionKept(c, m) ==
    IF \/ s2n_client_detect_downgrade_mechanism(c, m)
       \/ c.hello_retry
       \/ m.legacy < P(c).minimum_protocol_version \/ m.legacy > c.client_protocol_version
    THEN Failed(c, "version")
    ELSE s2n_set_cipher_as_client([c EXCEPT !.server_protocol_version = m.legacy], m)

(* s2n_server_hello_parse below TLS1.3.                                    *)
LegacyServerHello(c, m) ==
    IF \/ s2n_client_detect_downgrade_mechanism(c, m)
       \/ c.hello_retry
       \/ m.legacy < P(c).minimum_protocol_version \/ m.legacy > c.client_protocol_version
    THEN Failed(c, "version")
    ELSE s2n_set_cipher_as_client([c EXCEPT !.server_protocol_version = m.legacy,
                                            !.actual_protocol_version = MinOf(m.legacy, c.client_protocol_version)], m)

(* s2n_server_hello_retry_recv: the group is new and was offered.          *)
s2n_server_hello_retry_recv(c) ==
    IF /\ c.actual_protocol_version >= TLS13
       /\ (c.server_curve # NoGroup) # (c.server_kem # NoGroup)
       /\ IF c.server_kem # NoGroup
          THEN /\ c.server_kem # c.client_kem
               /\ s2n_kem_group_is_available(c.build, c.server_kem)
          ELSE c.server_curve # c.client_curve
    THEN [c EXCEPT !.state = "CLIENT_HELLO"]
    ELSE Failed(c, "retry")

(* s2n_server_hello_parse, then the extensions, then version and suite.    *)
s2n_server_hello_parse(c, m) ==
    IF m.random # "retry" THEN c
    ELSE IF c.hello_retry THEN Failed(c, "retry") ELSE [c EXCEPT !.hello_retry = TRUE]

NegotiatedVersion(c, m) ==
    IF c.server_protocol_version >= TLS13
    THEN s2n_set_cipher_as_client([c EXCEPT !.actual_protocol_version = c.server_protocol_version], m)
    ELSE LegacyServerHello(c, m)

ServerHelloParsed ==
    /\ wire.type = "SERVER_HELLO"
    /\ ClientStep("SERVER_HELLO", "SH_VERSIONS", LAMBDA c : s2n_server_hello_parse(c, wire))
ServerHelloVersions ==
    ClientStep("SH_VERSIONS", "SH_KEY_SHARE", LAMBDA c : s2n_server_supported_versions_recv(c, wire))
ServerHelloKeyShare ==
    ClientStep("SH_KEY_SHARE", "SH_SUITE",
               LAMBDA c : IF c.actual_protocol_version >= TLS13 THEN s2n_server_key_share_recv(c, wire) ELSE c)
ServerHelloSuite == ClientStep("SH_SUITE", "SH_DONE", LAMBDA c : NegotiatedVersion(c, wire))

ServerHelloAccepted ==
    /\ client.state = "SH_DONE"
    /\ client' = IF wire.random = "retry" THEN s2n_server_hello_retry_recv(client)
                 ELSE [client EXCEPT !.state = "SERVER_AUTH"]
    /\ wire' = NoMessage
    /\ UNCHANGED <<env, server>>

----------------------------------------------------------------------------
(* The server's certificate and its signature: Certificate and             *)
(* ServerKeyExchange before TLS1.3, Certificate and CertificateVerify in   *)
(* TLS1.3.  With the RSA key exchange nothing is signed.                   *)
Signs(c) == is_ephemeral(c.cipher_suite)
SentCurve(c) == IF c.actual_protocol_version < TLS13 /\ cipher_suite[c.cipher_suite].key_exchange_alg = "ecdhe"
                THEN c.server_curve ELSE NoGroup

ServerAuthSend ==
    /\ server.state = "SERVER_AUTH" /\ wire = NoMessage
    /\ wire' = [type |-> "SERVER_AUTH", cert |-> server.cert,
                scheme |-> IF Signs(server) THEN server.scheme ELSE "none", curve |-> SentCurve(server)]
    /\ server' = [server EXCEPT !.state = "DONE"]
    /\ UNCHANGED <<env, client>>

s2n_is_cert_type_valid_for_auth(c, type) ==
    \/ cipher_suite[c.cipher_suite].auth_method = "TLS13"
    \/ cipher_suite[c.cipher_suite].auth_method = auth_method(type)

(* The client's check of the scheme the server names.                      *)
s2n_signature_algorithm_recv(c, m) ==
    IF c.actual_protocol_version < TLS12
    THEN m.scheme = s2n_signature_algorithms_get_legacy_default(c)
    ELSE m.scheme \in InList(P(c).signature_preferences) /\ s2n_signature_scheme_valid_for_recv(c, m.scheme)

ServerAuthRecv ==
    /\ client.state = "SERVER_AUTH" /\ wire.type = "SERVER_AUTH"
    /\ LET type == (CHOOSE x \in ServerCerts : x.id = wire.cert).type
       IN  client' = IF ~s2n_is_cert_type_valid_for_auth(client, type) THEN Failed(client, "certificate")
                     ELSE IF Signs(client) /\ ~s2n_signature_algorithm_recv(client, wire) THEN Failed(client, "signature")
                     ELSE IF wire.curve # NoGroup /\ wire.curve \notin InList(P(client).ecc_preferences)
                          THEN Failed(client, "group")
                     ELSE [client EXCEPT !.state = "DONE", !.scheme = wire.scheme, !.cert = wire.cert,
                                         !.server_curve = IF wire.curve # NoGroup THEN wire.curve ELSE @]
    /\ wire' = NoMessage
    /\ UNCHANGED <<env, server>>

(* The handshake is over for both: done, or one side failed and the other  *)
(* learns it from the alert or the closed connection.                      *)
Finished ==
    /\ \/ client.state = "DONE" /\ server.state = "DONE"
       \/ IsFailed(client) \/ IsFailed(server)
    /\ UNCHANGED vars

Init ==
    /\ env \in Environments
    /\ client = Connection(env.client, "client")
    /\ server = Connection(env.server, "server")
    /\ wire = NoMessage

Next ==
    \/ s2n_client_hello_send
    \/ ClientHelloParsed
    \/ s2n_client_hello_cb_done
    \/ ProcessVersions \/ ProcessGroups \/ ProcessKeyShare \/ SelectKeyShare
    \/ ProcessVersion \/ SelectSuite \/ SelectScheme \/ SelectCert \/ ClientHelloAccepted
    \/ s2n_server_hello_retry_send
    \/ s2n_server_hello_send
    \/ ServerHelloParsed \/ ServerHelloVersions \/ ServerHelloKeyShare
    \/ ServerHelloSuite \/ ServerHelloAccepted
    \/ ServerAuthSend
    \/ ServerAuthRecv
    \/ Finished

(* Each endpoint keeps calling s2n_negotiate.                              *)
Spec == Init /\ [][Next]_vars /\ WF_vars(Next)

----------------------------------------------------------------------------
(* What must hold of it.                                                   *)

BothDone == client.state = "DONE" /\ server.state = "DONE"

(***************************************************************************)
(* The two sides, which compute everything apart from each other, end with *)
(* the same version, suite, group, signature scheme and certificate        *)
(* (s2n_set_cipher_as_server against s2n_set_cipher_as_client, and so on). *)
(***************************************************************************)
Agreement ==
    BothDone =>
        /\ client.actual_protocol_version = server.actual_protocol_version
        /\ client.cipher_suite = server.cipher_suite
        /\ client.cert = server.cert
        /\ Signs(server) => client.scheme = server.scheme
        /\ client.actual_protocol_version >= TLS13 => Group(client) = Group(server)
        /\ SentCurve(server) # NoGroup => client.server_curve = server.server_curve

(***************************************************************************)
(* Inside a policy: nothing but what it lists is used, and the rules it    *)
(* promises at s2n_init (forward secrecy, FIPS) hold.                      *)
(***************************************************************************)
RuleHolds(rule, c) ==
    CASE rule = "PFS" -> is_ephemeral(c.cipher_suite)
      [] rule = "FIPS" ->
           /\ c.cipher_suite \in fips_cipher_suites
           /\ c.actual_protocol_version >= TLS12
           /\ Signs(c) => s2n_fips_validate_signature_scheme(c.scheme)
           /\ c.actual_protocol_version >= TLS13 /\ c.server_curve # NoGroup => c.server_curve \in fips_curves

WithinPolicy(c) ==
    /\ \A rule \in P(c).rules : RuleHolds(rule, c)
    /\ c.actual_protocol_version >= P(c).minimum_protocol_version
    /\ c.cipher_suite \in InList(CipherList(P(c)))
    /\ cipher_suite[c.cipher_suite].minimum_required_tls_version <= c.actual_protocol_version
    /\ Signs(c) /\ c.actual_protocol_version >= TLS12 => c.scheme \in InList(P(c).signature_preferences)
    /\ c.actual_protocol_version >= TLS13 =>
          Group(c) \in InList(P(c).ecc_preferences) \union InList(P(c).kem_preferences.groups)

(***************************************************************************)
(* A connection that is made keeps within the policy of either side and    *)
(* its rules, whatever the other side and a ClientHello callback that      *)
(* swaps the policy in the middle of the handshake do.                     *)
(***************************************************************************)
WithinPolicies == BothDone => WithinPolicy(client) /\ WithinPolicy(server)

(* The versions one side can speak.                                        *)
Versions(c, highest) ==
    {v \in SSLv3..highest : v >= P(c).minimum_protocol_version /\ (v >= TLS13 => SupportsTLS13(c))}

(***************************************************************************)
(* Peers that finish have the best of what they have in common.  The       *)
(* version: also when the path hides that the client offered TLS1.3, the   *)
(* downgrade marker of the server random is noticed in time                *)
(* (s2n_server_add_downgrade_mechanism).  A hybrid group, in TLS1.3: a     *)
(* retry is spent to get it rather than falling back to a curve            *)
(* (s2n_extensions_server_key_share_select).                               *)
(***************************************************************************)
NoDowngrade ==
    BothDone =>
        /\ client.actual_protocol_version =
              Max(Versions(client, env.client.highest) \cap Versions(server, env.server.highest))
        /\ server.actual_protocol_version >= TLS13 =>
              (server.server_kem # NoGroup <=>
                  AvailableKems(client) \cap AvailableKems(server) # {})

(***************************************************************************)
(* A HelloRetryRequest is never sent in vain: the second hello is accepted *)
(* (s2n_client_hello_verify_for_retry, one share, the same suite) and      *)
(* brings a share of the group that was asked for, and no group is asked   *)
(* for that the client had already sent.                                   *)
(***************************************************************************)
RetryFailed ==
    \/ server.error \in {"share", "shares", "retry hello", "suite changed"}
    \/ client.error = "retry"

(* Two endpoints of the same build and policy, with a certificate for      *)
(* every key type.                                                         *)
Alike ==
    /\ client.policy = server.policy
    /\ client.build = server.build
    /\ env.client.highest = env.server.highest
    /\ env.dhparams /\ ~env.sni /\ ~env.strips
    /\ \A type \in {"RSA", "ECDSA"} : \E x \in env.certs : x.type = type /\ x.is_default

(***************************************************************************)
(* Every negotiation ends, without a loop of retries and with no side left *)
(* waiting.  It ends in a connection when the two sides are alike: no      *)
(* policy in the tables is incompatible with itself, and a swap to the     *)
(* client's policy is as good as having it from the start.  Otherwise it   *)
(* may end in an error, which is never that a retry was in vain.           *)
(***************************************************************************)
Connects ==
    <>(BothDone \/ ((IsFailed(client) \/ IsFailed(server)) /\ ~Alike /\ ~RetryFailed))
=============================================================================
