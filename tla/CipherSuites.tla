---------------------------- MODULE CipherSuites ----------------------------
(***************************************************************************)
(* The cipher suites s2n-tls can negotiate (tls/s2n_cipher_suites.c): for  *)
(* each its IANA value, key exchange, authentication method, PRF hash,     *)
(* minimum version and the record algorithms that implement it, in order   *)
(* of preference.  A suite is named by its .name.                          *)
(***************************************************************************)
EXTENDS Integers, Sequences, FiniteSets, SequencesExt

SSLv3 == 30
TLS10 == 31
TLS11 == 32
TLS12 == 33
TLS13 == 34

Suite(iana, kex, auth, prf, min, algs, sslv3) ==
    [iana |-> iana, key_exchange_alg |-> kex, auth_method |-> auth, prf_alg |-> prf,
     minimum_required_tls_version |-> min, all_record_algs |-> algs, sslv3_record_alg |-> sslv3]

Preferences(suites, boosting) == [suites |-> suites, allow_chacha20_boosting |-> boosting]

(* The cipher each record algorithm is built on. *)

record_algs ==
    "null" :> "null_cipher" @@ "rc4_md5" :> "rc4" @@ "rc4_sslv3_md5" :> "rc4"
 @@ "rc4_sha" :> "rc4" @@ "rc4_sslv3_sha" :> "rc4" @@ "3des_sha" :> "3des"
 @@ "3des_sslv3_sha" :> "3des" @@ "aes128_sha" :> "aes128" @@ "aes128_sslv3_sha" :> "aes128"
 @@ "aes128_sha_composite" :> "aes128_sha" @@ "aes128_sha256" :> "aes128" @@ "aes128_sha256_composite" :> "aes128_sha256"
 @@ "aes256_sha" :> "aes256" @@ "aes256_sslv3_sha" :> "aes256" @@ "aes256_sha_composite" :> "aes256_sha"
 @@ "aes256_sha256" :> "aes256" @@ "aes256_sha256_composite" :> "aes256_sha256" @@ "aes256_sha384" :> "aes256"
 @@ "aes128_gcm" :> "aes128_gcm" @@ "aes256_gcm" :> "aes256_gcm" @@ "chacha20_poly1305" :> "chacha20_poly1305"
 @@ "tls13_aes128_gcm" :> "tls13_aes128_gcm" @@ "tls13_aes256_gcm" :> "tls13_aes256_gcm" @@ "tls13_chacha20_poly1305" :> "chacha20_poly1305"

Suites0004 ==
    "RC4-MD5" :> Suite(4, "rsa", "RSA", "SHA256", SSLv3, <<"rc4_md5">>, "rc4_sslv3_md5")
 @@ "RC4-SHA" :> Suite(5, "rsa", "RSA", "SHA256", SSLv3, <<"rc4_sha">>, "rc4_sslv3_sha")
 @@ "DES-CBC3-SHA" :> Suite(10, "rsa", "RSA", "SHA256", SSLv3, <<"3des_sha">>, "3des_sslv3_sha")
 @@ "DHE-RSA-DES-CBC3-SHA" :> Suite(22, "dhe", "RSA", "SHA256", SSLv3, <<"3des_sha">>, "3des_sslv3_sha")
 @@ "AES128-SHA" :> Suite(47, "rsa", "RSA", "SHA256", SSLv3, <<"aes128_sha_composite", "aes128_sha">>, "aes128_sslv3_sha")
 @@ "DHE-RSA-AES128-SHA" :> Suite(51, "dhe", "RSA", "SHA256", SSLv3, <<"aes128_sha_composite", "aes128_sha">>, "aes128_sslv3_sha")
 @@ "AES256-SHA" :> Suite(53, "rsa", "RSA", "SHA256", SSLv3, <<"aes256_sha_composite", "aes256_sha">>, "aes256_sslv3_sha")
 @@ "DHE-RSA-AES256-SHA" :> Suite(57, "dhe", "RSA", "SHA256", SSLv3, <<"aes256_sha_composite", "aes256_sha">>, "aes256_sslv3_sha")
 @@ "AES128-SHA256" :> Suite(60, "rsa", "RSA", "SHA256", TLS12, <<"aes128_sha256_composite", "aes128_sha256">>, "none")
 @@ "AES256-SHA256" :> Suite(61, "rsa", "RSA", "SHA256", TLS12, <<"aes256_sha256_composite", "aes256_sha256">>, "none")

Suites0067 ==
    "DHE-RSA-AES128-SHA256" :> Suite(103, "dhe", "RSA", "SHA256", TLS12, <<"aes128_sha256_composite", "aes128_sha256">>, "none")
 @@ "DHE-RSA-AES256-SHA256" :> Suite(107, "dhe", "RSA", "SHA256", TLS12, <<"aes256_sha256_composite", "aes256_sha256">>, "none")
 @@ "AES128-GCM-SHA256" :> Suite(156, "rsa", "RSA", "SHA256", TLS12, <<"aes128_gcm">>, "none")
 @@ "AES256-GCM-SHA384" :> Suite(157, "rsa", "RSA", "SHA384", TLS12, <<"aes256_gcm">>, "none")
 @@ "DHE-RSA-AES128-GCM-SHA256" :> Suite(158, "dhe", "RSA", "SHA256", TLS12, <<"aes128_gcm">>, "none")
 @@ "DHE-RSA-AES256-GCM-SHA384" :> Suite(159, "dhe", "RSA", "SHA384", TLS12, <<"aes256_gcm">>, "none")
 @@ "ECDHE-ECDSA-AES128-SHA" :> Suite(49161, "ecdhe", "ECDSA", "SHA256", SSLv3, <<"aes128_sha_composite", "aes128_sha">>, "aes128_sslv3_sha")
 @@ "ECDHE-ECDSA-AES256-SHA" :> Suite(49162, "ecdhe", "ECDSA", "SHA256", SSLv3, <<"aes256_sha_composite", "aes256_sha">>, "aes256_sslv3_sha")
 @@ "ECDHE-RSA-RC4-SHA" :> Suite(49169, "ecdhe", "RSA", "SHA256", SSLv3, <<"rc4_sha">>, "rc4_sslv3_sha")
 @@ "ECDHE-RSA-DES-CBC3-SHA" :> Suite(49170, "ecdhe", "RSA", "SHA256", SSLv3, <<"3des_sha">>, "3des_sslv3_sha")

SuitesC013 ==
    "ECDHE-RSA-AES128-SHA" :> Suite(49171, "ecdhe", "RSA", "SHA256", SSLv3, <<"aes128_sha_composite", "aes128_sha">>, "aes128_sslv3_sha")
 @@ "ECDHE-RSA-AES256-SHA" :> Suite(49172, "ecdhe", "RSA", "SHA256", SSLv3, <<"aes256_sha_composite", "aes256_sha">>, "aes256_sslv3_sha")
 @@ "ECDHE-ECDSA-AES128-SHA256" :> Suite(49187, "ecdhe", "ECDSA", "SHA256", TLS12, <<"aes128_sha256_composite", "aes128_sha256">>, "none")
 @@ "ECDHE-ECDSA-AES256-SHA384" :> Suite(49188, "ecdhe", "ECDSA", "SHA384", TLS12, <<"aes256_sha384">>, "none")
 @@ "ECDHE-RSA-AES128-SHA256" :> Suite(49191, "ecdhe", "RSA", "SHA256", TLS12, <<"aes128_sha256_composite", "aes128_sha256">>, "none")
 @@ "ECDHE-RSA-AES256-SHA384" :> Suite(49192, "ecdhe", "RSA", "SHA384", TLS12, <<"aes256_sha384">>, "none")
 @@ "ECDHE-ECDSA-AES128-GCM-SHA256" :> Suite(49195, "ecdhe", "ECDSA", "SHA256", TLS12, <<"aes128_gcm">>, "none")
 @@ "ECDHE-ECDSA-AES256-GCM-SHA384" :> Suite(49196, "ecdhe", "ECDSA", "SHA384", TLS12, <<"aes256_gcm">>, "none")
 @@ "ECDHE-RSA-AES128-GCM-SHA256" :> Suite(49199, "ecdhe", "RSA", "SHA256", TLS12, <<"aes128_gcm">>, "none")
 @@ "ECDHE-RSA-AES256-GCM-SHA384" :> Suite(49200, "ecdhe", "RSA", "SHA384", TLS12, <<"aes256_gcm">>, "none")

SuitesCCA8 ==
    "ECDHE-RSA-CHACHA20-POLY1305" :> Suite(52392, "ecdhe", "RSA", "SHA256", TLS12, <<"chacha20_poly1305">>, "none")
 @@ "ECDHE-ECDSA-CHACHA20-POLY1305" :> Suite(52393, "ecdhe", "ECDSA", "SHA256", TLS12, <<"chacha20_poly1305">>, "none")
 @@ "DHE-RSA-CHACHA20-POLY1305" :> Suite(52394, "dhe", "RSA", "SHA256", TLS12, <<"chacha20_poly1305">>, "none")
 @@ "TLS_AES_128_GCM_SHA256" :> Suite(4865, "tls13", "TLS13", "SHA256", TLS13, <<"tls13_aes128_gcm">>, "none")
 @@ "TLS_AES_256_GCM_SHA384" :> Suite(4866, "tls13", "TLS13", "SHA384", TLS13, <<"tls13_aes256_gcm">>, "none")
 @@ "TLS_CHACHA20_POLY1305_SHA256" :> Suite(4867, "tls13", "TLS13", "SHA256", TLS13, <<"tls13_chacha20_poly1305">>, "none")

s2n_null_cipher_suite == Suite(0, "rsa", "RSA", "NONE", 0, <<"null">>, "none")

cipher_suite == ("TLS_NULL_WITH_NULL_NULL" :> s2n_null_cipher_suite) @@ Suites0004 @@ Suites0067 @@ SuitesC013 @@ SuitesCCA8

TestCiphersFrom_test_all ==
    "test_all" :> Preferences(
        <<"RC4-MD5", "RC4-SHA", "DES-CBC3-SHA", "DHE-RSA-DES-CBC3-SHA", "AES128-SHA", "DHE-RSA-AES128-SHA",
          "AES256-SHA", "DHE-RSA-AES256-SHA", "AES128-SHA256", "AES256-SHA256", "DHE-RSA-AES128-SHA256",
          "DHE-RSA-AES256-SHA256", "AES128-GCM-SHA256", "AES256-GCM-SHA384", "DHE-RSA-AES128-GCM-SHA256",
          "DHE-RSA-AES256-GCM-SHA384", "TLS_AES_128_GCM_SHA256", "TLS_AES_256_GCM_SHA384",
          "TLS_CHACHA20_POLY1305_SHA256", "ECDHE-ECDSA-AES128-SHA", "ECDHE-ECDSA-AES256-SHA",
          "ECDHE-RSA-RC4-SHA", "ECDHE-RSA-DES-CBC3-SHA", "ECDHE-RSA-AES128-SHA", "ECDHE-RSA-AES256-SHA",
          "ECDHE-ECDSA-AES128-SHA256", "ECDHE-ECDSA-AES256-SHA384", "ECDHE-RSA-AES128-SHA256",
          "ECDHE-RSA-AES256-SHA384", "ECDHE-ECDSA-AES128-GCM-SHA256", "ECDHE-ECDSA-AES256-GCM-SHA384",
          "ECDHE-RSA-AES128-GCM-SHA256", "ECDHE-RSA-AES256-GCM-SHA384", "ECDHE-RSA-CHACHA20-POLY1305",
          "ECDHE-ECDSA-CHACHA20-POLY1305", "DHE-RSA-CHACHA20-POLY1305">>, FALSE)
 @@ "test_all_tls12" :> Preferences(
        <<"RC4-MD5", "RC4-SHA", "DES-CBC3-SHA", "DHE-RSA-DES-CBC3-SHA", "AES128-SHA", "DHE-RSA-AES128-SHA",
          "AES256-SHA", "DHE-RSA-AES256-SHA", "AES128-SHA256", "AES256-SHA256", "DHE-RSA-AES128-SHA256",
          "DHE-RSA-AES256-SHA256", "AES128-GCM-SHA256", "AES256-GCM-SHA384", "DHE-RSA-AES128-GCM-SHA256",
          "DHE-RSA-AES256-GCM-SHA384", "ECDHE-ECDSA-AES128-SHA", "ECDHE-ECDSA-AES256-SHA", "ECDHE-RSA-RC4-SHA",
          "ECDHE-RSA-DES-CBC3-SHA", "ECDHE-RSA-AES128-SHA", "ECDHE-RSA-AES256-SHA", "ECDHE-ECDSA-AES128-SHA256",
          "ECDHE-ECDSA-AES256-SHA384", "ECDHE-RSA-AES128-SHA256", "ECDHE-RSA-AES256-SHA384",
          "ECDHE-ECDSA-AES128-GCM-SHA256", "ECDHE-ECDSA-AES256-GCM-SHA384", "ECDHE-RSA-AES128-GCM-SHA256",
          "ECDHE-RSA-AES256-GCM-SHA384", "ECDHE-RSA-CHACHA20-POLY1305", "ECDHE-ECDSA-CHACHA20-POLY1305",
          "DHE-RSA-CHACHA20-POLY1305">>, FALSE)
 @@ "test_all_fips" :> Preferences(
        <<"DHE-RSA-AES128-SHA", "DHE-RSA-AES256-SHA", "DHE-RSA-AES128-SHA256", "DHE-RSA-AES256-SHA256",
          "DHE-RSA-AES128-GCM-SHA256", "DHE-RSA-AES256-GCM-SHA384", "TLS_AES_128_GCM_SHA256",
          "TLS_AES_256_GCM_SHA384", "ECDHE-ECDSA-AES128-SHA", "ECDHE-ECDSA-AES256-SHA", "ECDHE-RSA-AES128-SHA",
          "ECDHE-RSA-AES256-SHA", "ECDHE-ECDSA-AES128-SHA256", "ECDHE-ECDSA-AES256-SHA384",
          "ECDHE-RSA-AES128-SHA256", "ECDHE-RSA-AES256-SHA384", "ECDHE-ECDSA-AES128-GCM-SHA256",
          "ECDHE-ECDSA-AES256-GCM-SHA384", "ECDHE-RSA-AES128-GCM-SHA256", "ECDHE-RSA-AES256-GCM-SHA384">>, FALSE)
 @@ "test_all_ecdsa" :> Preferences(
        <<"ECDHE-ECDSA-AES128-SHA", "ECDHE-ECDSA-AES256-SHA", "ECDHE-ECDSA-AES128-SHA256",
          "ECDHE-ECDSA-AES256-SHA384", "ECDHE-ECDSA-AES128-GCM-SHA256", "ECDHE-ECDSA-AES256-GCM-SHA384",
          "ECDHE-ECDSA-CHACHA20-POLY1305">>, FALSE)

TestCiphersFrom_test_all_rsa_kex ==
    "test_all_rsa_kex" :> Preferences(
        <<"AES128-SHA", "RC4-MD5", "RC4-SHA", "DES-CBC3-SHA", "AES128-SHA", "AES256-SHA", "AES128-SHA256",
          "AES256-SHA256", "AES128-GCM-SHA256", "AES256-GCM-SHA384">>, FALSE)
 @@ "test_ecdsa_priority" :> Preferences(
        <<"ECDHE-ECDSA-AES128-SHA", "ECDHE-ECDSA-AES256-SHA", "ECDHE-ECDSA-AES128-SHA256",
          "ECDHE-ECDSA-AES256-SHA384", "ECDHE-ECDSA-AES128-GCM-SHA256", "ECDHE-ECDSA-AES256-GCM-SHA384",
          "ECDHE-ECDSA-CHACHA20-POLY1305", "RC4-MD5", "RC4-SHA", "DES-CBC3-SHA", "DHE-RSA-DES-CBC3-SHA",
          "AES128-SHA", "DHE-RSA-AES128-SHA", "AES256-SHA", "DHE-RSA-AES256-SHA", "AES128-SHA256",
          "AES256-SHA256", "DHE-RSA-AES128-SHA256", "DHE-RSA-AES256-SHA256", "AES128-GCM-SHA256",
          "AES256-GCM-SHA384", "DHE-RSA-AES128-GCM-SHA256", "DHE-RSA-AES256-GCM-SHA384", "ECDHE-RSA-RC4-SHA",
          "ECDHE-RSA-DES-CBC3-SHA", "ECDHE-RSA-AES128-SHA", "ECDHE-RSA-AES256-SHA", "ECDHE-RSA-AES128-SHA256",
          "ECDHE-RSA-AES256-SHA384", "ECDHE-RSA-AES128-GCM-SHA256", "ECDHE-RSA-AES256-GCM-SHA384",
          "ECDHE-RSA-CHACHA20-POLY1305", "DHE-RSA-CHACHA20-POLY1305">>, FALSE)
 @@ "test_all_tls13" :> Preferences(
        <<"TLS_AES_128_GCM_SHA256", "TLS_AES_256_GCM_SHA384", "TLS_CHACHA20_POLY1305_SHA256">>, FALSE)

cipher_preferences_test ==
    TestCiphersFrom_test_all @@ TestCiphersFrom_test_all_rsa_kex

=============================================================================
