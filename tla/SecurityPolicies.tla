-------------------------- MODULE SecurityPolicies --------------------------
(***************************************************************************)
(* Security policies (tls/s2n_security_policies.c) with the curve, KEM,    *)
(* signature and certificate key preferences they refer to, and the rules  *)
(* a policy can promise to keep (tls/s2n_security_rules.c,                 *)
(* crypto/s2n_fips_rules.c). security_policy_X of the source is            *)
(* security_policy["X"], and the preference lists are named likewise; a    *)
(* table holds the entries of its file from the one it is named after to   *)
(* the next table's.                                                       *)
(***************************************************************************)
EXTENDS CipherPreferences

(* Curve preferences (tls/s2n_ecc_preferences.c) in a build with EVP_APIS_SUPPORTED. *)
ecc_preferences ==
    "20240501" :> <<"secp256r1", "x25519", "secp384r1", "secp521r1">>
 @@ "20140601" :> <<"secp256r1", "secp384r1">>
 @@ "20200310" :> <<"x25519", "secp256r1", "secp384r1">>
 @@ "20230623" :> <<"secp256r1", "x25519", "secp384r1">>
 @@ "default_fips" :> <<"secp256r1", "secp384r1">>
 @@ "20201021" :> <<"secp256r1", "secp384r1", "secp521r1">>
 @@ "20240603" :> <<"x25519", "secp256r1", "secp384r1", "secp521r1">>
 @@ "20210816" :> <<"secp384r1">>
 @@ "test_all" :> <<"x25519", "secp256r1", "secp384r1", "secp521r1">>
 @@ "null" :> <<>>

(* Hybrid key exchange groups (tls/s2n_kem.c) and their preference lists. *)
Hybrid(curve, kem, first) == [curve |-> curve, kem |-> kem, send_kem_first |-> first]

kem_group ==
    "secp256r1_mlkem_768" :> Hybrid("secp256r1", "mlkem_768", FALSE)
 @@ "x25519_mlkem_768" :> Hybrid("x25519", "mlkem_768", TRUE)
 @@ "secp256r1_kyber_512_r3" :> Hybrid("secp256r1", "kyber_512_r3", FALSE)
 @@ "secp256r1_kyber_768_r3" :> Hybrid("secp256r1", "kyber_768_r3", FALSE)
 @@ "secp384r1_kyber_768_r3" :> Hybrid("secp384r1", "kyber_768_r3", FALSE)
 @@ "secp521r1_kyber_1024_r3" :> Hybrid("secp521r1", "kyber_1024_r3", FALSE)
 @@ "x25519_kyber_512_r3" :> Hybrid("x25519", "kyber_512_r3", FALSE)
 @@ "x25519_kyber_768_r3" :> Hybrid("x25519", "kyber_768_r3", FALSE)

ALL_SUPPORTED_KEM_GROUPS == <<"x25519_mlkem_768", "secp256r1_mlkem_768", "secp256r1_kyber_768_r3", "x25519_kyber_768_r3",
      "secp384r1_kyber_768_r3", "secp521r1_kyber_1024_r3", "secp256r1_kyber_512_r3", "x25519_kyber_512_r3">>

pq_kem_groups ==
    "r3_2021_05" :> <<"x25519_kyber_512_r3", "secp256r1_kyber_512_r3">>
 @@ "r3_2023_06" :>
      <<"secp256r1_kyber_768_r3", "x25519_kyber_768_r3", "secp384r1_kyber_768_r3", "secp521r1_kyber_1024_r3",
       "secp256r1_kyber_512_r3", "x25519_kyber_512_r3">>
 @@ "r3_2023_12" :>
      <<"secp256r1_kyber_768_r3", "secp384r1_kyber_768_r3", "secp521r1_kyber_1024_r3",
       "secp256r1_kyber_512_r3">>
 @@ "ietf_2024_10" :> <<"x25519_mlkem_768", "secp256r1_mlkem_768">>
 @@ "mixed_2024_10" :>
      <<"x25519_mlkem_768", "secp256r1_mlkem_768", "secp256r1_kyber_768_r3", "x25519_kyber_768_r3",
       "secp384r1_kyber_768_r3", "secp521r1_kyber_1024_r3", "secp256r1_kyber_512_r3", "x25519_kyber_512_r3">>

kem_preferences ==
    "pq_tls_1_0_2021_05" :> [groups |-> pq_kem_groups["r3_2021_05"], revision |-> 0]
 @@ "pq_tls_1_0_2023_01" :> [groups |-> pq_kem_groups["r3_2021_05"], revision |-> 5]
 @@ "pq_tls_1_3_2023_06" :> [groups |-> pq_kem_groups["r3_2023_06"], revision |-> 5]
 @@ "pq_tls_1_3_2023_12" :> [groups |-> pq_kem_groups["r3_2023_12"], revision |-> 5]
 @@ "pq_tls_1_3_ietf_2024_10" :> [groups |-> pq_kem_groups["ietf_2024_10"], revision |-> 5]
 @@ "pq_tls_1_3_mixed_2024_10" :> [groups |-> pq_kem_groups["mixed_2024_10"], revision |-> 5]
 @@ "all" :> [groups |-> ALL_SUPPORTED_KEM_GROUPS, revision |-> 5]
 @@ "null" :> [groups |-> << >>, revision |-> 0]

(* Signature schemes (tls/s2n_signature_scheme.c); version 0 stands for no limit. *)
Scheme(hash, sig, curve, min, max) ==
    [hash_alg |-> hash, sig_alg |-> sig, signature_curve |-> curve,
     minimum_protocol_version |-> min, maximum_protocol_version |-> max]

signature_scheme ==
    "null_sig_scheme" :> Scheme("NONE", "ANONYMOUS", "none", 0, 0)
 @@ "rsa_pkcs1_md5_sha1" :> Scheme("MD5_SHA1", "RSA", "none", 0, TLS12)
 @@ "rsa_pkcs1_sha1" :> Scheme("SHA1", "RSA", "none", 0, TLS12)
 @@ "rsa_pkcs1_sha224" :> Scheme("SHA224", "RSA", "none", 0, TLS12)
 @@ "rsa_pkcs1_sha256" :> Scheme("SHA256", "RSA", "none", 0, TLS12)
 @@ "rsa_pkcs1_sha384" :> Scheme("SHA384", "RSA", "none", 0, TLS12)
 @@ "rsa_pkcs1_sha512" :> Scheme("SHA512", "RSA", "none", 0, TLS12)
 @@ "ecdsa_sha1" :> Scheme("SHA1", "ECDSA", "none", 0, TLS12)
 @@ "ecdsa_sha224" :> Scheme("SHA224", "ECDSA", "none", 0, TLS12)
 @@ "ecdsa_sha256" :> Scheme("SHA256", "ECDSA", "secp256r1", 0, 0)
 @@ "ecdsa_sha384" :> Scheme("SHA384", "ECDSA", "secp384r1", 0, 0)
 @@ "ecdsa_sha512" :> Scheme("SHA512", "ECDSA", "secp521r1", 0, 0)
 @@ "rsa_pss_rsae_sha256" :> Scheme("SHA256", "RSA_PSS_RSAE", "none", 0, 0)
 @@ "rsa_pss_rsae_sha384" :> Scheme("SHA384", "RSA_PSS_RSAE", "none", 0, 0)
 @@ "rsa_pss_rsae_sha512" :> Scheme("SHA512", "RSA_PSS_RSAE", "none", 0, 0)
 @@ "rsa_pss_pss_sha256" :> Scheme("SHA256", "RSA_PSS_PSS", "none", TLS12, 0)
 @@ "rsa_pss_pss_sha384" :> Scheme("SHA384", "RSA_PSS_PSS", "none", TLS12, 0)
 @@ "rsa_pss_pss_sha512" :> Scheme("SHA512", "RSA_PSS_PSS", "none", TLS12, 0)

SignaturesFrom_all ==
    "all" :>
      <<"rsa_pkcs1_md5_sha1", "rsa_pkcs1_sha1", "rsa_pkcs1_sha224", "rsa_pkcs1_sha256", "rsa_pkcs1_sha384",
       "rsa_pkcs1_sha512", "ecdsa_sha1", "ecdsa_sha224", "ecdsa_sha256", "ecdsa_sha384", "ecdsa_sha512",
       "rsa_pss_rsae_sha256", "rsa_pss_rsae_sha384", "rsa_pss_rsae_sha512", "rsa_pss_pss_sha256",
       "rsa_pss_pss_sha384", "rsa_pss_pss_sha512">>
 @@ "20240501" :>
      <<"ecdsa_sha256", "ecdsa_sha384", "ecdsa_sha512", "rsa_pss_pss_sha256", "rsa_pss_pss_sha384",
       "rsa_pss_pss_sha512", "rsa_pss_rsae_sha256", "rsa_pss_rsae_sha384", "rsa_pss_rsae_sha512",
       "rsa_pkcs1_sha256", "rsa_pkcs1_sha384", "rsa_pkcs1_sha512">>
 @@ "20140601" :>
      <<"rsa_pkcs1_sha256", "rsa_pkcs1_sha384", "rsa_pkcs1_sha512", "rsa_pkcs1_sha224", "ecdsa_sha256",
       "ecdsa_sha384", "ecdsa_sha512", "ecdsa_sha224", "rsa_pkcs1_sha1", "ecdsa_sha1">>
 @@ "20200207" :>
      <<"rsa_pss_pss_sha256", "rsa_pss_pss_sha384", "rsa_pss_pss_sha512", "rsa_pss_rsae_sha256",
       "rsa_pss_rsae_sha384", "rsa_pss_rsae_sha512", "rsa_pkcs1_sha256", "rsa_pkcs1_sha384",
       "rsa_pkcs1_sha512", "rsa_pkcs1_sha224", "ecdsa_sha256", "ecdsa_sha384", "ecdsa_sha512",
       "ecdsa_sha224", "rsa_pkcs1_sha1", "ecdsa_sha1">>
 @@ "default_fips" :>
      <<"rsa_pkcs1_sha256", "rsa_pkcs1_sha384", "rsa_pkcs1_sha512", "ecdsa_sha256", "ecdsa_sha384",
       "ecdsa_sha512", "ecdsa_sha224">>

SignaturesFrom_20230317 ==
    "20230317" :>
      <<"rsa_pss_rsae_sha256", "rsa_pss_rsae_sha384", "rsa_pss_rsae_sha512", "rsa_pkcs1_sha256",
       "rsa_pkcs1_sha384", "rsa_pkcs1_sha512", "ecdsa_sha256", "ecdsa_sha384", "ecdsa_sha512",
       "rsa_pss_pss_sha256", "rsa_pss_pss_sha384", "rsa_pss_pss_sha512">>
 @@ "20201021" :>
      <<"rsa_pss_pss_sha256", "rsa_pss_pss_sha384", "rsa_pss_pss_sha512", "rsa_pss_rsae_sha256",
       "rsa_pss_rsae_sha384", "rsa_pss_rsae_sha512", "rsa_pkcs1_sha256", "rsa_pkcs1_sha384",
       "rsa_pkcs1_sha512", "rsa_pkcs1_sha224", "ecdsa_sha256", "ecdsa_sha384", "ecdsa_sha512",
       "ecdsa_sha224", "rsa_pkcs1_sha1", "ecdsa_sha1">>
 @@ "null" :> << >>
 @@ "certificate_20201110" :>
      <<"rsa_pss_pss_sha256", "rsa_pss_pss_sha384", "rsa_pss_pss_sha512", "rsa_pss_rsae_sha256",
       "rsa_pss_rsae_sha384", "rsa_pss_rsae_sha512", "rsa_pkcs1_sha256", "rsa_pkcs1_sha384",
       "rsa_pkcs1_sha512", "rsa_pkcs1_sha224", "ecdsa_sha256", "ecdsa_sha384", "ecdsa_sha512", "ecdsa_sha224">>
 @@ "20210816" :> <<"rsa_pkcs1_sha384", "rsa_pkcs1_sha512", "ecdsa_sha384", "ecdsa_sha512">>
 @@ "rfc9151" :> <<"ecdsa_sha384", "rsa_pss_pss_sha384", "rsa_pss_rsae_sha384", "rsa_pkcs1_sha384">>
 @@ "certificate_rfc9151" :> <<"ecdsa_sha384", "rsa_pkcs1_sha384">>

SignaturesFrom_20240521 ==
    "20240521" :>
      <<"ecdsa_sha256", "ecdsa_sha384", "ecdsa_sha512", "rsa_pss_pss_sha256", "rsa_pss_pss_sha384",
       "rsa_pss_pss_sha512", "rsa_pss_rsae_sha256", "rsa_pss_rsae_sha384", "rsa_pss_rsae_sha512",
       "rsa_pkcs1_sha256", "rsa_pkcs1_sha384", "rsa_pkcs1_sha512", "rsa_pkcs1_sha224", "ecdsa_sha1",
       "rsa_pkcs1_sha1">>
 @@ "test_all_fips" :>
      <<"rsa_pss_pss_sha256", "rsa_pss_pss_sha384", "rsa_pss_pss_sha512", "rsa_pss_rsae_sha256",
       "rsa_pss_rsae_sha384", "rsa_pss_rsae_sha512", "rsa_pkcs1_sha256", "rsa_pkcs1_sha384",
       "rsa_pkcs1_sha512", "rsa_pkcs1_sha224", "ecdsa_sha256", "ecdsa_sha384", "ecdsa_sha512", "ecdsa_sha224">>

signature_preferences ==
    SignaturesFrom_all @@ SignaturesFrom_20230317
 @@ SignaturesFrom_20240521

(* Certificate keys (tls/s2n_certificate_keys.c). *)
certificate_key ==
    "rsa_rsae_1024" :> [nid |-> "NID_rsaEncryption", bits |-> 1024]
 @@ "rsa_rsae_2048" :> [nid |-> "NID_rsaEncryption", bits |-> 2048]
 @@ "rsa_rsae_3072" :> [nid |-> "NID_rsaEncryption", bits |-> 3072]
 @@ "rsa_rsae_4096" :> [nid |-> "NID_rsaEncryption", bits |-> 4096]
 @@ "rsa_pss_1024" :> [nid |-> "NID_rsassaPss", bits |-> 1024]
 @@ "rsa_pss_2048" :> [nid |-> "NID_rsassaPss", bits |-> 2048]
 @@ "rsa_pss_3072" :> [nid |-> "NID_rsassaPss", bits |-> 3072]
 @@ "rsa_pss_4096" :> [nid |-> "NID_rsassaPss", bits |-> 4096]
 @@ "ec_p256" :> [nid |-> "NID_X9_62_prime256v1", bits |-> 256]
 @@ "ec_p384" :> [nid |-> "NID_secp384r1", bits |-> 384]
 @@ "ec_p521" :> [nid |-> "NID_secp521r1", bits |-> 521]

s2n_certificate_key_preferences_rfc9151 == <<"ec_p384", "rsa_rsae_3072", "rsa_rsae_4096", "rsa_pss_3072", "rsa_pss_4096">>

(* A security policy, with the names of its lists; certsig is {} or the      *)
(* singleton of a name, keys {} or the singleton of a list.                  *)
Policy(min, ciphers, kem, sig, ecc, certsig, keys, locally, rules) ==
    [minimum_protocol_version |-> min, cipher_preferences |-> ciphers, kem_preferences |-> kem,
     signature_preferences |-> sig, ecc_preferences |-> ecc, certificate_signature_preferences |-> certsig,
     certificate_key_preferences |-> keys, apply_locally |-> locally, rules |-> rules]

PoliciesFrom_20240501 ==
    "20240501" :> Policy(TLS12, "20240331", "null", "20240501", "20240501", {}, {}, FALSE, {"PFS"})
 @@ "20240502" :> Policy(
        TLS12, "20240331", "null", "20240501", "20201021", {"certificate_20201110"}, {}, FALSE,
        {"PFS", "FIPS"})
 @@ "20240503" :> Policy(
        TLS12, "cloudfront_tls_1_2_2019", "null", "20240501", "20240501", {"certificate_20201110"}, {},
        FALSE, {"PFS"})
 @@ "20240730" :> Policy(
        TLS12, "cloudfront_tls_1_2_2019", "pq_tls_1_3_2023_06", "20240501", "20240501",
        {"certificate_20201110"}, {}, FALSE, {"PFS"})
 @@ "20241001" :> Policy(
        TLS12, "cloudfront_tls_1_2_2019", "pq_tls_1_3_ietf_2024_10", "20240501", "20240501",
        {"certificate_20201110"}, {}, FALSE, {"PFS"})
 @@ "20241001_pq_mixed" :> Policy(
        TLS12, "cloudfront_tls_1_2_2019", "pq_tls_1_3_mixed_2024_10", "20240501", "20240501",
        {"certificate_20201110"}, {}, FALSE, {"PFS"})
 @@ "20240603" :> Policy(
        TLS12, "20240603", "null", "20240501", "20240603", {"certificate_20201110"}, {}, FALSE, {})
 @@ "20170210" :> Policy(TLS10, "20170210", "null", "20140601", "20140601", {}, {}, FALSE, {})
 @@ "20240417" :> Policy(
        TLS10, "20210831", "null", "20200207", "20200310", {"certificate_20201110"}, {}, FALSE, {})
 @@ "20240416" :> Policy(
        TLS12, "default_fips", "null", "default_fips", "default_fips", {"default_fips"}, {}, FALSE,
        {"PFS", "FIPS"})
 @@ "20230317" :> Policy(
        TLS12, "20230317", "null", "20230317", "20201021", {"20230317"}, {}, FALSE, {"PFS", "FIPS"})
 @@ "20240331" :> Policy(
        TLS12, "20240331", "null", "20230317", "20201021", {"20230317"}, {}, FALSE, {"PFS", "FIPS"})

PoliciesFrom_20190801 ==
    "20190801" :> Policy(TLS10, "20190801", "null", "20200207", "20200310", {}, {}, FALSE, {})
 @@ "20190802" :> Policy(TLS10, "20190801", "null", "20200207", "20140601", {}, {}, FALSE, {})
 @@ "20170405" :> Policy(TLS10, "20170405", "null", "20140601", "20140601", {}, {}, FALSE, {})
 @@ "20170405_gcm" :> Policy(TLS10, "20170405_gcm", "null", "20140601", "20140601", {}, {}, FALSE, {})
 @@ "elb_2015_04" :> Policy(
        TLS10, "elb_security_policy_2015_04", "null", "20140601", "20140601", {}, {}, FALSE, {})
 @@ "elb_2016_08" :> Policy(
        TLS10, "elb_security_policy_2016_08", "null", "20140601", "20140601", {}, {}, FALSE, {})
 @@ "elb_tls_1_1_2017_01" :> Policy(
        TLS11, "elb_security_policy_tls_1_1_2017_01", "null", "20140601", "20140601", {}, {}, FALSE, {})
 @@ "elb_tls_1_2_2017_01" :> Policy(
        TLS12, "elb_security_policy_tls_1_2_2017_01", "null", "20140601", "20140601", {}, {}, FALSE, {})
 @@ "elb_tls_1_2_ext_2018_06" :> Policy(
        TLS12, "elb_security_policy_tls_1_2_ext_2018_06", "null", "20140601", "20140601", {}, {}, FALSE,
        {})
 @@ "elb_fs_2018_06" :> Policy(
        TLS10, "elb_security_policy_fs_2018_06", "null", "20140601", "20140601", {}, {}, FALSE, {"PFS"})
 @@ "elb_fs_1_2_2019_08" :> Policy(
        TLS12, "elb_security_policy_fs_1_2_2019_08", "null", "20140601", "20140601", {}, {}, FALSE,
        {"PFS"})
 @@ "elb_fs_1_1_2019_08" :> Policy(
        TLS11, "elb_security_policy_fs_1_1_2019_08", "null", "20140601", "20140601", {}, {}, FALSE,
        {"PFS"})
 @@ "elb_fs_1_2_Res_2019_08" :> Policy(
        TLS12, "elb_security_policy_fs_1_2_Res_2019_08", "null", "20140601", "20140601", {}, {}, FALSE,
        {"PFS"})

PoliciesFrom_cloudfront_upstream ==
    "cloudfront_upstream" :> Policy(SSLv3, "cloudfront_upstream", "null", "20140601", "20230623", {}, {}, FALSE, {})
 @@ "cloudfront_upstream_tls10" :> Policy(
        TLS10, "cloudfront_upstream_tls10", "null", "20140601", "20230623", {}, {}, FALSE, {})
 @@ "cloudfront_upstream_tls11" :> Policy(
        TLS11, "cloudfront_upstream_tls11", "null", "20140601", "20230623", {}, {}, FALSE, {})
 @@ "cloudfront_upstream_tls12" :> Policy(
        TLS12, "cloudfront_upstream_tls12", "null", "20140601", "20230623", {}, {}, FALSE, {})
 @@ "cloudfront_ssl_v_3" :> Policy(SSLv3, "cloudfront_ssl_v_3", "null", "20200207", "20200310", {}, {}, FALSE, {})
 @@ "cloudfront_tls_1_0_2014" :> Policy(
        TLS10, "cloudfront_tls_1_0_2014", "null", "20200207", "20200310", {}, {}, FALSE, {})
 @@ "cloudfront_tls_1_0_2016" :> Policy(
        TLS10, "cloudfront_tls_1_0_2016", "null", "20200207", "20200310", {}, {}, FALSE, {})
 @@ "20241106" :> Policy(
        TLS12, "cloudfront_tls_1_0_2016", "null", "20200207", "20200310", {}, {}, FALSE, {})
 @@ "cloudfront_tls_1_1_2016" :> Policy(
        TLS11, "cloudfront_tls_1_1_2016", "null", "20200207", "20200310", {}, {}, FALSE, {})
 @@ "cloudfront_tls_1_2_2017" :> Policy(
        TLS12, "cloudfront_tls_1_2_2017", "null", "20200207", "20200310", {}, {}, FALSE, {})
 @@ "cloudfront_tls_1_2_2018" :> Policy(
        TLS12, "cloudfront_tls_1_2_2018", "null", "20200207", "20200310", {}, {}, FALSE, {})
 @@ "cloudfront_tls_1_2_2019" :> Policy(
        TLS12, "cloudfront_tls_1_2_2019", "null", "20200207", "20200310", {}, {}, FALSE, {"PFS"})
 @@ "cloudfront_tls_1_2_2021" :> Policy(
        TLS12, "cloudfront_tls_1_2_2021", "null", "20200207", "20200310", {}, {}, FALSE, {"PFS"})
 @@ "cloudfront_tls_1_2_2021_chacha20_boosted" :> Policy(
        TLS12, "cloudfront_tls_1_2_2021_chacha20_boosted", "null", "20200207", "20200310", {}, {}, FALSE,
        {"PFS"})
 @@ "cloudfront_ssl_v_3_legacy" :> Policy(
        SSLv3, "cloudfront_ssl_v_3_legacy", "null", "20140601", "20140601", {}, {}, FALSE, {})
 @@ "cloudfront_tls_1_0_2014_legacy" :> Policy(
        TLS10, "cloudfront_tls_1_0_2014_legacy", "null", "20140601", "20140601", {}, {}, FALSE, {})
 @@ "cloudfront_tls_1_0_2016_legacy" :> Policy(
        TLS10, "cloudfront_tls_1_0_2016_legacy", "null", "20140601", "20140601", {}, {}, FALSE, {})

PoliciesFrom_cloudfront_tls_1_1_2016_legacy ==
    "cloudfront_tls_1_1_2016_legacy" :> Policy(
        TLS11, "cloudfront_tls_1_1_2016_legacy", "null", "20140601", "20140601", {}, {}, FALSE, {})
 @@ "cloudfront_tls_1_2_2018_legacy" :> Policy(
        TLS12, "cloudfront_tls_1_2_2018_legacy", "null", "20140601", "20140601", {}, {}, FALSE, {})
 @@ "cloudfront_tls_1_2_2019_legacy" :> Policy(
        TLS12, "cloudfront_tls_1_2_2019_legacy", "null", "20140601", "20140601", {}, {}, FALSE, {"PFS"})
 @@ "aws_crt_sdk_ssl_v3" :> Policy(SSLv3, "aws_crt_sdk_ssl_v3", "null", "20200207", "20200310", {}, {}, FALSE, {})
 @@ "aws_crt_sdk_tls_10" :> Policy(TLS10, "aws_crt_sdk_default", "null", "20200207", "20200310", {}, {}, FALSE, {})
 @@ "aws_crt_sdk_tls_11" :> Policy(TLS11, "aws_crt_sdk_default", "null", "20200207", "20200310", {}, {}, FALSE, {})
 @@ "aws_crt_sdk_tls_12" :> Policy(TLS12, "aws_crt_sdk_default", "null", "20200207", "20200310", {}, {}, FALSE, {})
 @@ "aws_crt_sdk_tls_13" :> Policy(
        TLS13, "aws_crt_sdk_tls_13", "null", "20200207", "20200310", {}, {}, FALSE, {"PFS"})
 @@ "aws_crt_sdk_ssl_v3_06_23" :> Policy(SSLv3, "aws_crt_sdk_ssl_v3", "null", "20200207", "20230623", {}, {}, FALSE, {})
 @@ "aws_crt_sdk_tls_10_06_23" :> Policy(TLS10, "aws_crt_sdk_default", "null", "20200207", "20230623", {}, {}, FALSE, {})
 @@ "aws_crt_sdk_tls_11_06_23" :> Policy(TLS11, "aws_crt_sdk_default", "null", "20200207", "20230623", {}, {}, FALSE, {})
 @@ "aws_crt_sdk_tls_12_06_23" :> Policy(TLS12, "aws_crt_sdk_default", "null", "20200207", "20230623", {}, {}, FALSE, {})
 @@ "aws_crt_sdk_tls_13_06_23" :> Policy(
        TLS13, "aws_crt_sdk_tls_13", "null", "20200207", "20230623", {}, {}, FALSE, {"PFS"})
 @@ "kms_tls_1_0_2018_10" :> Policy(
        TLS10, "kms_tls_1_0_2018_10", "null", "20140601", "20140601", {}, {}, FALSE, {"PFS"})
 @@ "kms_tls_1_0_2021_08" :> Policy(
        TLS10, "kms_tls_1_0_2021_08", "null", "20200207", "20200310", {}, {}, FALSE, {"PFS"})
 @@ "kms_tls_1_2_2023_06" :> Policy(
        TLS12, "kms_tls_1_0_2021_08", "null", "20200207", "20200310", {}, {}, FALSE, {"PFS"})

PoliciesFrom_kms_pq_tls_1_0_2019_06 ==
    "kms_pq_tls_1_0_2019_06" :> Policy(
        TLS10, "kms_pq_tls_1_0_2019_06", "null", "20140601", "20140601", {}, {}, FALSE, {"PFS"})
 @@ "kms_pq_tls_1_0_2020_02" :> Policy(
        TLS10, "kms_pq_tls_1_0_2020_02", "null", "20140601", "20140601", {}, {}, FALSE, {"PFS"})
 @@ "kms_pq_tls_1_0_2020_07" :> Policy(
        TLS10, "kms_pq_tls_1_0_2020_07", "pq_tls_1_0_2021_05", "20140601", "20140601", {}, {}, FALSE,
        {"PFS"})
 @@ "pq_tls_1_0_2020_12" :> Policy(
        TLS10, "pq_tls_1_0_2020_12", "pq_tls_1_0_2021_05", "20200207", "20200310", {}, {}, FALSE, {"PFS"})
 @@ "pq_tls_1_1_2021_05_17" :> Policy(
        TLS11, "pq_tls_1_1_2021_05_17", "pq_tls_1_0_2021_05", "20140601", "20200310", {}, {}, FALSE, {})
 @@ "pq_tls_1_0_2021_05_18" :> Policy(
        TLS10, "pq_tls_1_0_2021_05_18", "pq_tls_1_0_2021_05", "20140601", "20200310", {}, {}, FALSE, {})
 @@ "pq_tls_1_0_2021_05_19" :> Policy(
        TLS10, "pq_tls_1_0_2021_05_19", "pq_tls_1_0_2021_05", "20140601", "20200310", {}, {}, FALSE, {})
 @@ "pq_tls_1_0_2021_05_20" :> Policy(
        TLS10, "kms_pq_tls_1_0_2020_07", "pq_tls_1_0_2021_05", "20140601", "20200310", {}, {}, FALSE,
        {"PFS"})
 @@ "pq_tls_1_1_2021_05_21" :> Policy(
        TLS11, "pq_tls_1_1_2021_05_21", "pq_tls_1_0_2021_05", "20200207", "20200310", {}, {}, FALSE, {})
 @@ "pq_tls_1_0_2021_05_22" :> Policy(
        TLS10, "pq_tls_1_0_2021_05_22", "pq_tls_1_0_2021_05", "20200207", "20200310", {}, {}, FALSE, {})
 @@ "pq_tls_1_0_2021_05_23" :> Policy(
        TLS10, "pq_tls_1_0_2021_05_23", "pq_tls_1_0_2021_05", "20200207", "20200310", {}, {}, FALSE, {})
 @@ "pq_tls_1_0_2021_05_24" :> Policy(
        TLS10, "pq_tls_1_0_2021_05_24", "pq_tls_1_0_2021_05", "20200207", "20200310", {}, {}, FALSE,
        {"PFS"})
 @@ "pq_tls_1_0_2021_05_25" :> Policy(
        TLS10, "pq_tls_1_0_2021_05_25", "pq_tls_1_0_2021_05", "20140601", "20200310", {}, {}, FALSE, {})
 @@ "pq_tls_1_0_2021_05_26" :> Policy(
        TLS10, "pq_tls_1_0_2021_05_26", "pq_tls_1_0_2021_05", "20200207", "20200310", {}, {}, FALSE, {})
 @@ "pq_tls_1_0_2023_01_24" :> Policy(
        TLS10, "pq_tls_1_0_2021_05_24", "pq_tls_1_0_2023_01", "20200207", "20200310", {}, {}, FALSE,
        {"PFS"})

PoliciesFrom_pq_tls_1_2_2023_04_07 ==
    "pq_tls_1_2_2023_04_07" :> Policy(
        TLS12, "pq_tls_1_1_2021_05_21", "pq_tls_1_0_2021_05", "20200207", "20200310", {}, {}, FALSE, {})
 @@ "pq_tls_1_2_2023_04_08" :> Policy(
        TLS12, "pq_tls_1_0_2021_05_22", "pq_tls_1_0_2021_05", "20200207", "20200310", {}, {}, FALSE, {})
 @@ "pq_tls_1_2_2023_04_09" :> Policy(
        TLS12, "pq_tls_1_0_2021_05_24", "pq_tls_1_0_2021_05", "20200207", "20200310", {}, {}, FALSE,
        {"PFS"})
 @@ "pq_tls_1_2_2023_04_10" :> Policy(
        TLS12, "pq_tls_1_0_2021_05_26", "pq_tls_1_0_2021_05", "20200207", "20200310", {}, {}, FALSE, {})
 @@ "pq_tls_1_3_2023_06_01" :> Policy(
        TLS12, "pq_tls_1_3_2023_06_01", "pq_tls_1_3_2023_06", "20200207", "20201021", {}, {}, FALSE, {})
 @@ "pq_tls_1_2_2023_10_07" :> Policy(
        TLS12, "pq_tls_1_1_2021_05_21", "pq_tls_1_3_2023_06", "20200207", "20200310", {}, {}, FALSE, {})
 @@ "pq_tls_1_2_2023_10_08" :> Policy(
        TLS12, "pq_tls_1_0_2021_05_22", "pq_tls_1_3_2023_06", "20200207", "20200310", {}, {}, FALSE, {})
 @@ "pq_tls_1_2_2023_10_09" :> Policy(
        TLS12, "pq_tls_1_0_2021_05_24", "pq_tls_1_3_2023_06", "20200207", "20200310", {}, {}, FALSE,
        {"PFS"})
 @@ "pq_tls_1_2_2023_10_10" :> Policy(
        TLS12, "pq_tls_1_0_2021_05_26", "pq_tls_1_3_2023_06", "20200207", "20200310", {}, {}, FALSE, {})
 @@ "pq_20231213" :> Policy(
        TLS12, "20231213", "pq_tls_1_3_2023_12", "20230317", "20201021", {}, {}, FALSE, {})
 @@ "pq_20231214" :> Policy(
        TLS12, "20231214", "pq_tls_1_3_2023_12", "20230317", "20201021", {}, {}, FALSE, {"FIPS"})
 @@ "pq_20231215" :> Policy(
        TLS12, "kms_fips_tls_1_2_2021_08", "pq_tls_1_3_2023_12", "20230317", "20201021", {}, {}, FALSE,
        {"FIPS"})
 @@ "aws_crt_sdk_tls_12_06_23_pq" :> Policy(
        TLS12, "aws_crt_sdk_default", "pq_tls_1_3_mixed_2024_10", "20200207", "20230623", {}, {}, FALSE,
        {})
 @@ "pq_tls_1_2_2024_10_07" :> Policy(
        TLS12, "elb_security_policy_tls13_1_2_Ext2_2021_06", "pq_tls_1_3_mixed_2024_10", "20200207",
        "20200310", {}, {}, FALSE, {})
 @@ "pq_tls_1_2_2024_10_08" :> Policy(
        TLS12, "20241008", "pq_tls_1_3_mixed_2024_10", "20200207", "20200310", {}, {}, FALSE, {})

PoliciesFrom_pq_tls_1_2_2024_10_08_gcm ==
    "pq_tls_1_2_2024_10_08_gcm" :> Policy(
        TLS12, "20241008_gcm", "pq_tls_1_3_mixed_2024_10", "20200207", "20200310", {}, {}, FALSE, {})
 @@ "pq_tls_1_2_2024_10_09" :> Policy(
        TLS12, "20241009", "pq_tls_1_3_mixed_2024_10", "20200207", "20200310", {}, {}, FALSE, {"PFS"})
 @@ "kms_fips_tls_1_2_2018_10" :> Policy(
        TLS12, "kms_fips_tls_1_2_2018_10", "null", "20140601", "20140601", {}, {}, FALSE, {"PFS"})
 @@ "kms_fips_tls_1_2_2021_08" :> Policy(
        TLS12, "kms_fips_tls_1_2_2021_08", "null", "20200207", "20140601", {}, {}, FALSE, {"PFS"})
 @@ "kms_fips_tls_1_2_2024_10" :> Policy(
        TLS12, "kms_fips_tls_1_2_2021_08", "pq_tls_1_3_ietf_2024_10", "20230317", "20201021", {}, {},
        FALSE, {"PFS", "FIPS"})
 @@ "20140601" :> Policy(SSLv3, "20140601", "null", "20140601", "20140601", {}, {}, FALSE, {})
 @@ "20141001" :> Policy(TLS10, "20141001", "null", "20140601", "20140601", {}, {}, FALSE, {})
 @@ "20150202" :> Policy(TLS10, "20150202", "null", "20140601", "20140601", {}, {}, FALSE, {})
 @@ "20150214" :> Policy(TLS10, "20150214", "null", "20140601", "20140601", {}, {}, FALSE, {})
 @@ "20160411" :> Policy(TLS10, "20160411", "null", "20140601", "20140601", {}, {}, FALSE, {})
 @@ "20150306" :> Policy(TLS10, "20150306", "null", "20140601", "20140601", {}, {}, FALSE, {})
 @@ "20160804" :> Policy(TLS10, "20160804", "null", "20140601", "20140601", {}, {}, FALSE, {})
 @@ "20160824" :> Policy(TLS10, "20160824", "null", "20140601", "20140601", {}, {}, FALSE, {})
 @@ "20190122" :> Policy(TLS10, "20190122", "null", "20140601", "20140601", {}, {}, FALSE, {})
 @@ "20190121" :> Policy(TLS10, "20190121", "null", "20140601", "20140601", {}, {}, FALSE, {})
 @@ "20190120" :> Policy(TLS10, "20190120", "null", "20140601", "20140601", {}, {}, FALSE, {})
 @@ "20190214" :> Policy(TLS10, "20190214", "null", "20140601", "20140601", {}, {}, FALSE, {})

PoliciesFrom_20190214_gcm ==
    "20190214_gcm" :> Policy(TLS10, "20190214_gcm", "null", "20140601", "20140601", {}, {}, FALSE, {})
 @@ "20210825" :> Policy(TLS10, "20210825", "null", "20200207", "20200310", {}, {}, FALSE, {})
 @@ "20210825_gcm" :> Policy(TLS10, "20210825_gcm", "null", "20200207", "20200310", {}, {}, FALSE, {})
 @@ "20170328" :> Policy(TLS10, "20170328", "null", "20140601", "20140601", {}, {}, FALSE, {})
 @@ "20170328_gcm" :> Policy(TLS10, "20170328_gcm", "null", "20140601", "20140601", {}, {}, FALSE, {})
 @@ "20170718" :> Policy(TLS10, "20170718", "null", "20140601", "20140601", {}, {}, FALSE, {})
 @@ "20170718_gcm" :> Policy(TLS10, "20170718_gcm", "null", "20140601", "20140601", {}, {}, FALSE, {})
 @@ "20201021" :> Policy(TLS10, "20190122", "null", "20201021", "20201021", {}, {}, FALSE, {})
 @@ "20210816" :> Policy(
        TLS12, "20210816", "null", "20210816", "20210816", {}, {}, FALSE, {"PFS", "FIPS"})
 @@ "20210816_gcm" :> Policy(
        TLS12, "20210816_gcm", "null", "20210816", "20210816", {}, {}, FALSE, {"PFS", "FIPS"})
 @@ "rfc9151" :> Policy(
        TLS12, "rfc9151", "null", "rfc9151", "20210816", {"certificate_rfc9151"},
        {s2n_certificate_key_preferences_rfc9151}, TRUE, {})
 @@ "20250211" :> Policy(
        TLS13, "20250211", "null", "rfc9151", "20210816", {"certificate_20201110"}, {}, FALSE, {"PFS"})
 @@ "test_all" :> Policy(SSLv3, "test_all", "all", "all", "test_all", {}, {}, FALSE, {})
 @@ "test_all_tls12" :> Policy(
        SSLv3, "test_all_tls12", "pq_tls_1_0_2021_05", "20201021", "20201021", {}, {}, FALSE, {})
 @@ "test_all_fips" :> Policy(
        TLS12, "test_all_fips", "null", "test_all_fips", "20201021", {}, {}, FALSE, {"FIPS"})

PoliciesFrom_test_all_ecdsa ==
    "test_all_ecdsa" :> Policy(TLS10, "test_all_ecdsa", "null", "20201021", "test_all", {}, {}, FALSE, {"PFS"})
 @@ "test_all_rsa_kex" :> Policy(TLS10, "test_all_rsa_kex", "null", "20140601", "20140601", {}, {}, FALSE, {})
 @@ "test_all_tls13" :> Policy(SSLv3, "test_all_tls13", "null", "20201021", "test_all", {}, {}, FALSE, {"PFS"})
 @@ "test_ecdsa_priority" :> Policy(SSLv3, "test_ecdsa_priority", "null", "20201021", "test_all", {}, {}, FALSE, {})
 @@ "null" :> Policy(TLS10, "null", "null", "null", "null", {}, {}, FALSE, {})

(* The policies, with the lists that they name. *)
security_policy ==
  LET named == PoliciesFrom_20240501 @@ PoliciesFrom_20190801
             @@ PoliciesFrom_cloudfront_upstream @@ PoliciesFrom_cloudfront_tls_1_1_2016_legacy
             @@ PoliciesFrom_kms_pq_tls_1_0_2019_06 @@ PoliciesFrom_pq_tls_1_2_2023_04_07
             @@ PoliciesFrom_pq_tls_1_2_2024_10_08_gcm @@ PoliciesFrom_20190214_gcm
             @@ PoliciesFrom_test_all_ecdsa
  IN  [n \in DOMAIN named |->
        [named[n] EXCEPT !.cipher_preferences = cipher_preferences[@], !.kem_preferences = kem_preferences[@],
                         !.signature_preferences = signature_preferences[@], !.ecc_preferences = ecc_preferences[@],
                         !.certificate_signature_preferences = {signature_preferences[l] : l \in @}]]

(* The policies an application can name. *)
security_policy_selection ==
  LET selected ==
        "default" :> "20240501" @@ "default_tls13" :> "20240503"
     @@ "default_fips" :> "20240502" @@ "default_pq" :> "20241001"
     @@ "20241106" :> "20241106" @@ "20240501" :> "20240501"
     @@ "20240502" :> "20240502" @@ "20240503" :> "20240503"
     @@ "20230317" :> "20230317" @@ "20240331" :> "20240331"
     @@ "20240417" :> "20240417" @@ "20240416" :> "20240416"
     @@ "20240730" :> "20240730" @@ "20241001" :> "20241001"
     @@ "20241001_pq_mixed" :> "20241001_pq_mixed"
     @@ "ELBSecurityPolicy-TLS-1-0-2015-04" :> "elb_2015_04"
     @@ "ELBSecurityPolicy-TLS-1-0-2015-05" :> "elb_2016_08"
     @@ "ELBSecurityPolicy-2016-08" :> "elb_2016_08"
     @@ "ELBSecurityPolicy-TLS-1-1-2017-01" :> "elb_tls_1_1_2017_01"
     @@ "ELBSecurityPolicy-TLS-1-2-2017-01" :> "elb_tls_1_2_2017_01"
     @@ "ELBSecurityPolicy-TLS-1-2-Ext-2018-06" :> "elb_tls_1_2_ext_2018_06"
     @@ "ELBSecurityPolicy-FS-2018-06" :> "elb_fs_2018_06"
     @@ "ELBSecurityPolicy-FS-1-2-2019-08" :> "elb_fs_1_2_2019_08"
     @@ "ELBSecurityPolicy-FS-1-1-2019-08" :> "elb_fs_1_1_2019_08"
     @@ "ELBSecurityPolicy-FS-1-2-Res-2019-08" :> "elb_fs_1_2_Res_2019_08"
     @@ "CloudFront-Upstream" :> "cloudfront_upstream"
     @@ "CloudFront-Upstream-TLS-1-0" :> "cloudfront_upstream_tls10"
     @@ "CloudFront-Upstream-TLS-1-1" :> "cloudfront_upstream_tls11"
     @@ "CloudFront-Upstream-TLS-1-2" :> "cloudfront_upstream_tls12"
     @@ "CloudFront-SSL-v-3" :> "cloudfront_ssl_v_3"
     @@ "CloudFront-TLS-1-0-2014" :> "cloudfront_tls_1_0_2014"
     @@ "CloudFront-TLS-1-0-2016" :> "cloudfront_tls_1_0_2016"
     @@ "CloudFront-TLS-1-1-2016" :> "cloudfront_tls_1_1_2016"
     @@ "CloudFront-TLS-1-2-2017" :> "cloudfront_tls_1_2_2017"
     @@ "CloudFront-TLS-1-2-2018" :> "cloudfront_tls_1_2_2018"
     @@ "CloudFront-TLS-1-2-2019" :> "cloudfront_tls_1_2_2019"
     @@ "CloudFront-TLS-1-2-2021" :> "cloudfront_tls_1_2_2021"
     @@ "CloudFront-TLS-1-2-2021-Chacha20-Boosted" :> "cloudfront_tls_1_2_2021_chacha20_boosted"
     @@ "CloudFront-SSL-v-3-Legacy" :> "cloudfront_ssl_v_3_legacy"
     @@ "CloudFront-TLS-1-0-2014-Legacy" :> "cloudfront_tls_1_0_2014_legacy"
     @@ "CloudFront-TLS-1-0-2016-Legacy" :> "cloudfront_tls_1_0_2016_legacy"
     @@ "CloudFront-TLS-1-1-2016-Legacy" :> "cloudfront_tls_1_1_2016_legacy"
     @@ "CloudFront-TLS-1-2-2018-Legacy" :> "cloudfront_tls_1_2_2018_legacy"
     @@ "CloudFront-TLS-1-2-2019-Legacy" :> "cloudfront_tls_1_2_2019_legacy"
     @@ "AWS-CRT-SDK-SSLv3.0" :> "aws_crt_sdk_ssl_v3"
     @@ "AWS-CRT-SDK-TLSv1.0" :> "aws_crt_sdk_tls_10"
     @@ "AWS-CRT-SDK-TLSv1.1" :> "aws_crt_sdk_tls_11"
     @@ "AWS-CRT-SDK-TLSv1.2" :> "aws_crt_sdk_tls_12"
     @@ "AWS-CRT-SDK-TLSv1.3" :> "aws_crt_sdk_tls_13"
     @@ "AWS-CRT-SDK-SSLv3.0-2023" :> "aws_crt_sdk_ssl_v3_06_23"
     @@ "AWS-CRT-SDK-TLSv1.0-2023" :> "aws_crt_sdk_tls_10_06_23"
     @@ "AWS-CRT-SDK-TLSv1.1-2023" :> "aws_crt_sdk_tls_11_06_23"
     @@ "AWS-CRT-SDK-TLSv1.2-2023" :> "aws_crt_sdk_tls_12_06_23"
     @@ "AWS-CRT-SDK-TLSv1.2-2023-PQ" :> "aws_crt_sdk_tls_12_06_23_pq"
     @@ "AWS-CRT-SDK-TLSv1.3-2023" :> "aws_crt_sdk_tls_13_06_23"
     @@ "KMS-TLS-1-0-2018-10" :> "kms_tls_1_0_2018_10"
     @@ "KMS-TLS-1-0-2021-08" :> "kms_tls_1_0_2021_08"
     @@ "KMS-TLS-1-2-2023-06" :> "kms_tls_1_2_2023_06"
     @@ "KMS-FIPS-TLS-1-2-2018-10" :> "kms_fips_tls_1_2_2018_10"
     @@ "KMS-FIPS-TLS-1-2-2021-08" :> "kms_fips_tls_1_2_2021_08"
     @@ "KMS-FIPS-TLS-1-2-2024-10" :> "kms_fips_tls_1_2_2024_10"
     @@ "PQ-TLS-1-0-2023-01-24" :> "pq_tls_1_0_2023_01_24"
     @@ "PQ-TLS-1-2-2023-04-07" :> "pq_tls_1_2_2023_04_07"
     @@ "PQ-TLS-1-2-2023-04-08" :> "pq_tls_1_2_2023_04_08"
     @@ "PQ-TLS-1-2-2023-04-09" :> "pq_tls_1_2_2023_04_09"
     @@ "PQ-TLS-1-2-2023-04-10" :> "pq_tls_1_2_2023_04_10"
     @@ "PQ-TLS-1-3-2023-06-01" :> "pq_tls_1_3_2023_06_01"
     @@ "PQ-TLS-1-2-2023-10-07" :> "pq_tls_1_2_2023_10_07"
     @@ "PQ-TLS-1-2-2023-10-08" :> "pq_tls_1_2_2023_10_08"
     @@ "PQ-TLS-1-2-2023-10-09" :> "pq_tls_1_2_2023_10_09"
     @@ "PQ-TLS-1-2-2023-10-10" :> "pq_tls_1_2_2023_10_10"
     @@ "PQ-TLS-1-2-2023-12-13" :> "pq_20231213"
     @@ "PQ-TLS-1-2-2023-12-14" :> "pq_20231214"
     @@ "PQ-TLS-1-2-2023-12-15" :> "pq_20231215"
     @@ "PQ-TLS-1-2-2024-10-07" :> "pq_tls_1_2_2024_10_07"
     @@ "PQ-TLS-1-2-2024-10-08" :> "pq_tls_1_2_2024_10_08"
     @@ "PQ-TLS-1-2-2024-10-08_gcm" :> "pq_tls_1_2_2024_10_08_gcm"
     @@ "PQ-TLS-1-2-2024-10-09" :> "pq_tls_1_2_2024_10_09"
     @@ "20140601" :> "20140601" @@ "20141001" :> "20141001"
     @@ "20150202" :> "20150202" @@ "20150214" :> "20150214"
     @@ "20150306" :> "20150306" @@ "20160411" :> "20160411"
     @@ "20160804" :> "20160804" @@ "20160824" :> "20160824"
     @@ "20170210" :> "20170210" @@ "20170328" :> "20170328"
     @@ "20170328_gcm" :> "20170328_gcm" @@ "20190214" :> "20190214"
     @@ "20190214_gcm" :> "20190214_gcm" @@ "20210825" :> "20210825"
     @@ "20210825_gcm" :> "20210825_gcm" @@ "20170405" :> "20170405"
     @@ "20170405_gcm" :> "20170405_gcm" @@ "20170718" :> "20170718"
     @@ "20170718_gcm" :> "20170718_gcm" @@ "20190120" :> "20190120"
     @@ "20190121" :> "20190121" @@ "20190122" :> "20190122"
     @@ "20190801" :> "20190801" @@ "20190802" :> "20190802"
     @@ "20200207" :> "test_all_tls13" @@ "20201021" :> "20201021"
     @@ "20210816" :> "20210816" @@ "20210816_GCM" :> "20210816_gcm"
     @@ "20240603" :> "20240603" @@ "20250211" :> "20250211"
     @@ "rfc9151" :> "rfc9151" @@ "test_all" :> "test_all"
     @@ "test_all_fips" :> "test_all_fips" @@ "test_all_ecdsa" :> "test_all_ecdsa"
     @@ "test_all_rsa_kex" :> "test_all_rsa_kex"
     @@ "test_ecdsa_priority" :> "test_ecdsa_priority"
     @@ "test_all_tls12" :> "test_all_tls12" @@ "test_all_tls13" :> "test_all_tls13"
     @@ "null" :> "null"
  IN  [version \in DOMAIN selected |-> security_policy[selected[version]]]

deprecated_security_policies == {"KMS-PQ-TLS-1-0-2019-06", "KMS-PQ-TLS-1-0-2020-02", "KMS-PQ-TLS-1-0-2020-07", "PQ-TLS-1-0-2020-12",
      "PQ-TLS-1-1-2021-05-17", "PQ-TLS-1-0-2021-05-18", "PQ-TLS-1-0-2021-05-19", "PQ-TLS-1-0-2021-05-20",
      "PQ-TLS-1-1-2021-05-21", "PQ-TLS-1-0-2021-05-22", "PQ-TLS-1-0-2021-05-23", "PQ-TLS-1-0-2021-05-24",
      "PQ-TLS-1-0-2021-05-25", "PQ-TLS-1-0-2021-05-26", "PQ-SIKE-TEST-TLS-1-0-2019-11",
      "PQ-SIKE-TEST-TLS-1-0-2020-02"}

=============================================================================
