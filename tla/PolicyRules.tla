----------------------------- MODULE PolicyRules -----------------------------
(***************************************************************************)
(* What the library computes from the tables of SecurityPolicies: the     *)
(* walk over every policy at s2n_init, the rules a policy promises to      *)
(* keep, the checks on certificates, and what a build of the library       *)
(* (a libcrypto) makes available of a policy.                              *)
(*                                                                         *)
(* A build is a record: `ciphers`, the ciphers whose is_available() is     *)
(* true; `rsa_pss`, RSA-PSS signing and certificates; `evp_kem` and        *)
(* `mlkem`, the KEMs of the libcrypto.                                     *)
(***************************************************************************)
EXTENDS SecurityPolicies

NoGroup == "none"

(* Every suite, sorted by IANA value.                                      *)
s2n_all_cipher_suites == cipher_preferences["test_all"].suites

(* The elements of a preference list, and the first that passes a test.    *)
InList(s) == Range(s)
FirstOf(s, Test(_)) ==
    IF \E i \in DOMAIN s : Test(s[i])
    THEN s[CHOOSE i \in DOMAIN s : Test(s[i]) /\ \A j \in 1..(i - 1) : ~Test(s[j])]
    ELSE "none"

----------------------------------------------------------------------------
(* Looking up a policy.                                                    *)
s2n_find_security_policy_from_version(name) == security_policy_selection[name]

CipherList(p) == p.cipher_preferences.suites

is_tls13_suite(s) == cipher_suite[s].minimum_required_tls_version >= TLS13

s2n_security_policy_supports_tls13(p) == \E s \in InList(CipherList(p)) : is_tls13_suite(s)

s2n_cipher_suite_requires_ecc_extension(s) ==
    is_tls13_suite(s) \/ cipher_suite[s].key_exchange_alg = "ecdhe"

s2n_ecc_is_extension_required(p) ==
    \E s \in InList(CipherList(p)) : s2n_cipher_suite_requires_ecc_extension(s)

(* IANA values 0x1301 to 0x1305.                                           *)
s2n_is_valid_tls13_cipher(s) == cipher_suite[s].iana \in 4865..4869

----------------------------------------------------------------------------

(* s2n_cipher_suite_from_iana: the binary search over the table sorted by  *)
(* IANA value (the order of the source); low and top bound what is left.   *)
s2n_cipher_suite_from_iana(iana) ==
    LET n == Len(s2n_all_cipher_suites)
        Search[low \in 1..(n + 1), top \in 0..n] ==
            IF low > top
            THEN "none"
            ELSE LET mid == low + ((top - low) \div 2)
                     m == cipher_suite[s2n_all_cipher_suites[mid]].iana
                 IN  CASE m = iana -> s2n_all_cipher_suites[mid]
                       [] m > iana -> Search[low, mid - 1]
                       [] m < iana -> Search[mid + 1, top]
    IN  Search[1, n]

----------------------------------------------------------------------------
(* Security rules: what S2N_PERFECT_FORWARD_SECRECY and S2N_FIPS_140_3     *)
(* accept.                                                                 *)
is_ephemeral(s) == cipher_suite[s].key_exchange_alg # "rsa"

fips_hash_algs == {"SHA224", "SHA256", "SHA384", "SHA512"}

fips_cipher_suites ==
    {"ECDHE-ECDSA-AES128-GCM-SHA256", "ECDHE-ECDSA-AES256-GCM-SHA384", "ECDHE-ECDSA-AES128-SHA256",
     "ECDHE-ECDSA-AES256-SHA384", "ECDHE-ECDSA-AES128-SHA", "ECDHE-ECDSA-AES256-SHA",
     "ECDHE-RSA-AES128-GCM-SHA256", "ECDHE-RSA-AES256-GCM-SHA384", "DHE-RSA-AES128-GCM-SHA256",
     "DHE-RSA-AES256-GCM-SHA384", "ECDHE-RSA-AES128-SHA256", "ECDHE-RSA-AES256-SHA384",
     "DHE-RSA-AES128-SHA256", "DHE-RSA-AES256-SHA256", "ECDHE-RSA-AES128-SHA", "ECDHE-RSA-AES256-SHA",
     "DHE-RSA-AES128-SHA", "DHE-RSA-AES256-SHA", "TLS_AES_128_GCM_SHA256", "TLS_AES_256_GCM_SHA384"}

fips_curves == {"secp256r1", "secp384r1", "secp521r1"}

fips_kems == {"mlkem_768"}

s2n_fips_validate_signature_scheme(s) == signature_scheme[s].hash_alg \in fips_hash_algs

s2n_fips_validate_hybrid_group(g) ==
    IF kem_group[g].send_kem_first THEN kem_group[g].kem \in fips_kems
                                   ELSE kem_group[g].curve \in fips_curves

s2n_fips_validate_version(v) == v >= TLS12

s2n_security_rule_validate_policy(rule, p) ==
    CASE rule = "PFS" -> \A s \in InList(CipherList(p)) : is_ephemeral(s)
      [] rule = "FIPS" ->
           /\ InList(CipherList(p)) \subseteq fips_cipher_suites
           /\ \A s \in InList(p.signature_preferences) : s2n_fips_validate_signature_scheme(s)
           /\ \A l \in p.certificate_signature_preferences : \A s \in InList(l) :
                  s2n_fips_validate_signature_scheme(s)
           /\ InList(p.ecc_preferences) \subseteq fips_curves
           /\ \A g \in InList(p.kem_preferences.groups) : s2n_fips_validate_hybrid_group(g)
           /\ s2n_fips_validate_version(p.minimum_protocol_version)

s2n_security_policy_validate_security_rules(p) ==
    \A rule \in p.rules : s2n_security_rule_validate_policy(rule, p)

----------------------------------------------------------------------------
(* s2n_security_policies_init, for one policy.                             *)
is_rsa_pss(s) == signature_scheme[s].sig_alg \in {"RSA_PSS_RSAE", "RSA_PSS_PSS"}

s2n_validate_certificate_signature_preferences(l) ==
    Cardinality({i \in DOMAIN l : is_rsa_pss(l[i])}) \in {0, 6}

s2n_check_ecc_preferences_curves_list(l) ==
    InList(l) \subseteq {"secp256r1", "secp384r1", "secp521r1", "x25519"}

s2n_validate_kem_preferences(k) == Len(k.groups) <= Len(ALL_SUPPORTED_KEM_GROUPS)

PolicyIsValid(p) ==
    /\ s2n_check_ecc_preferences_curves_list(p.ecc_preferences)
    /\ \A l \in p.certificate_signature_preferences : s2n_validate_certificate_signature_preferences(l)
    /\ p = security_policy_selection["null"] \/ p.ecc_preferences # <<>>
    /\ \A s \in InList(CipherList(p)) : s2n_is_valid_tls13_cipher(s) <=> is_tls13_suite(s)
    /\ s2n_validate_kem_preferences(p.kem_preferences)
    /\ s2n_security_policy_validate_security_rules(p)

s2n_security_policies_init ==
    \A name \in DOMAIN security_policy_selection : PolicyIsValid(security_policy_selection[name])

(* What the C types of the tables say: versions are versions, lists are    *)
(* lists of names, and hybrid groups are no curves.                        *)
WellFormed(p) ==
    /\ p.minimum_protocol_version \in SSLv3..TLS13
    /\ p.rules \subseteq {"PFS", "FIPS"}
    /\ {CipherList(p), p.signature_preferences, p.ecc_preferences, p.kem_preferences.groups}
          \subseteq Seq(STRING \ {"none"})
    /\ \A s \in InList(CipherList(p)) : cipher_suite[s].minimum_required_tls_version \in 0..TLS13
    /\ s2n_security_policy_supports_tls13(p) => InList(p.ecc_preferences) # {}
    /\ InList(p.kem_preferences.groups) \cap {"secp256r1", "secp384r1", "secp521r1", "x25519"} = {}

(* The tables as s2n_init finds them: every policy is accepted, and the    *)
(* binary search finds every suite.                                        *)
ASSUME TablesAssumption ==
    /\ s2n_security_policies_init
    /\ \A name \in DOMAIN security_policy_selection : WellFormed(security_policy_selection[name])
    /\ \A s \in InList(s2n_all_cipher_suites) : s2n_cipher_suite_from_iana(cipher_suite[s].iana) = s

----------------------------------------------------------------------------
(* Certificates.  A chain has a key (of certificate_key), the pkey type it *)
(* is used with, the scheme it is signed with and the name it matches.     *)
signature_nid(s) == IF is_rsa_pss(s) THEN <<"rsassaPss">>
                    ELSE <<signature_scheme[s].sig_alg, signature_scheme[s].hash_alg>>

s2n_security_policy_validate_cert_signature(p, cert) ==
    \A l \in p.certificate_signature_preferences :
        \E s \in InList(l) : signature_nid(s) = signature_nid(cert.signed_with)

s2n_security_policy_validate_cert_key(p, cert) ==
    \A l \in p.certificate_key_preferences : \E k \in InList(l) : certificate_key[k] = certificate_key[cert.key]

s2n_security_policy_validate_certificate_chain(p, cert) ==
    p.apply_locally => /\ s2n_security_policy_validate_cert_key(p, cert)
                       /\ s2n_security_policy_validate_cert_signature(p, cert)

----------------------------------------------------------------------------
(* What a build makes available.                                           *)
s2n_get_highest_fully_supported_tls_version(build) == IF build.rsa_pss THEN TLS13 ELSE TLS12

(* s2n_cipher_suites_init takes the first record algorithm whose cipher    *)
(* the libcrypto has; a suite without one is unavailable.                  *)
RecordAlg(build, s) ==
    FirstOf(cipher_suite[s].all_record_algs, LAMBDA a : record_algs[a] \in build.ciphers)

available(build, s) == RecordAlg(build, s) # "none"

(* The SSLv3 variant of a suite exists when its record algorithm does.     *)
sslv3_available(build, s) ==
    LET a == cipher_suite[s].sslv3_record_alg IN a # "none" /\ record_algs[a] \in build.ciphers

s2n_cipher_suite_uses_chacha20_alg(build, s) ==
    available(build, s) /\ record_algs[RecordAlg(build, s)] = "chacha20_poly1305"

s2n_pq_is_enabled(build) == build.evp_kem

s2n_kem_group_is_available(build, g) ==
    build.evp_kem /\ (kem_group[g].kem = "mlkem_768" => build.mlkem)

(* s2n_config_set_cipher_preferences and the connection's override: the    *)
(* policy must be within what the build supports, and fit the loaded       *)
(* certificates.                                                           *)
s2n_config_validate_loaded_certificates(p, certs) ==
    \A c \in certs : s2n_security_policy_validate_certificate_chain(p, c)

s2n_connection_set_cipher_preferences(p, build, certs) ==
    /\ p.minimum_protocol_version <= s2n_get_highest_fully_supported_tls_version(build)
    /\ s2n_config_validate_loaded_certificates(p, certs)
=============================================================================
