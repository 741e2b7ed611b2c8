-------------------------- MODULE CipherPreferences --------------------------
(***************************************************************************)
(* The cipher preference lists of tls/s2n_cipher_preferences.c, each with  *)
(* its suites in order of preference and its allow_chacha20_boosting flag. *)
(* cipher_preferences_X of the source is cipher_preferences["X"]; a table  *)
(* holds the lists of the file from the one it is named after to the next  *)
(* table's.                                                                *)
(***************************************************************************)
EXTENDS CipherSuites

S2N_TLS13_CIPHER_SUITES_20190801 ==
    <<"TLS_AES_256_GCM_SHA384", "TLS_AES_128_GCM_SHA256", "TLS_CHACHA20_POLY1305_SHA256">>

S2N_TLS13_CLOUDFRONT_CIPHER_SUITES_20200716 ==
    <<"TLS_AES_128_GCM_SHA256", "TLS_AES_256_GCM_SHA384", "TLS_CHACHA20_POLY1305_SHA256">>

CiphersFrom_20190801 ==
    "20190801" :> Preferences(
        S2N_TLS13_CIPHER_SUITES_20190801 \o
        <<"ECDHE-RSA-AES128-GCM-SHA256", "ECDHE-RSA-AES256-GCM-SHA384", "ECDHE-RSA-CHACHA20-POLY1305",
          "ECDHE-RSA-AES128-SHA", "ECDHE-RSA-AES128-SHA256", "ECDHE-RSA-AES256-SHA", "AES128-GCM-SHA256",
          "AES128-SHA256", "AES128-SHA">>, FALSE)
 @@ "20210831" :> Preferences(
        S2N_TLS13_CLOUDFRONT_CIPHER_SUITES_20200716 \o
        <<"ECDHE-ECDSA-AES128-GCM-SHA256", "ECDHE-RSA-AES128-GCM-SHA256", "ECDHE-ECDSA-AES256-GCM-SHA384",
          "ECDHE-RSA-AES256-GCM-SHA384", "ECDHE-ECDSA-CHACHA20-POLY1305", "ECDHE-RSA-CHACHA20-POLY1305",
          "ECDHE-ECDSA-AES128-SHA", "ECDHE-RSA-AES128-SHA", "ECDHE-ECDSA-AES128-SHA256",
          "ECDHE-RSA-AES128-SHA256", "ECDHE-ECDSA-AES256-SHA", "ECDHE-RSA-AES256-SHA", "AES128-GCM-SHA256",
          "AES128-SHA256", "AES128-SHA">>, FALSE)
 @@ "default_fips" :> Preferences(
        <<"ECDHE-ECDSA-AES128-GCM-SHA256", "ECDHE-ECDSA-AES256-GCM-SHA384", "ECDHE-ECDSA-AES128-SHA256",
          "ECDHE-ECDSA-AES256-SHA384", "ECDHE-RSA-AES128-GCM-SHA256", "ECDHE-RSA-AES256-GCM-SHA384",
          "ECDHE-RSA-AES128-SHA256", "ECDHE-RSA-AES256-SHA384", "DHE-RSA-AES128-SHA256",
          "DHE-RSA-AES256-SHA256", "DHE-RSA-AES128-GCM-SHA256", "DHE-RSA-AES256-GCM-SHA384">>, FALSE)
 @@ "20140601" :> Preferences(
        <<"DHE-RSA-AES128-SHA256", "DHE-RSA-AES128-SHA", "DHE-RSA-DES-CBC3-SHA", "AES128-SHA256", "AES128-SHA",
          "DES-CBC3-SHA", "RC4-SHA", "RC4-MD5">>, FALSE)
 @@ "20141001" :> Preferences(
        <<"DHE-RSA-AES128-SHA256", "DHE-RSA-AES128-SHA", "DHE-RSA-DES-CBC3-SHA", "AES128-SHA256", "AES128-SHA",
          "DES-CBC3-SHA", "RC4-SHA", "RC4-MD5">>, FALSE)
 @@ "20150202" :> Preferences(
        <<"DHE-RSA-AES128-SHA256", "DHE-RSA-AES128-SHA", "DHE-RSA-DES-CBC3-SHA", "AES128-SHA256", "AES128-SHA",
          "DES-CBC3-SHA">>, FALSE)
 @@ "20150214" :> Preferences(
        <<"DHE-RSA-AES128-GCM-SHA256", "DHE-RSA-AES128-SHA256", "DHE-RSA-AES128-SHA", "DHE-RSA-DES-CBC3-SHA",
          "AES128-GCM-SHA256", "AES128-SHA256", "AES128-SHA", "DES-CBC3-SHA">>, FALSE)

CiphersFrom_20160411 ==
    "20160411" :> Preferences(
        <<"ECDHE-RSA-AES128-SHA", "ECDHE-RSA-AES128-GCM-SHA256", "ECDHE-RSA-AES256-GCM-SHA384",
          "ECDHE-RSA-AES128-SHA256", "ECDHE-RSA-AES256-SHA", "ECDHE-RSA-AES256-SHA384", "AES128-SHA",
          "AES128-GCM-SHA256", "AES256-GCM-SHA384", "AES128-SHA256", "AES256-SHA", "AES256-SHA256",
          "DES-CBC3-SHA">>, FALSE)
 @@ "20150306" :> Preferences(
        <<"ECDHE-RSA-AES128-GCM-SHA256", "ECDHE-RSA-AES256-GCM-SHA384", "ECDHE-RSA-AES128-SHA",
          "ECDHE-RSA-AES128-SHA256", "ECDHE-RSA-DES-CBC3-SHA", "ECDHE-RSA-AES256-SHA", "AES128-GCM-SHA256",
          "AES128-SHA256", "AES128-SHA", "DES-CBC3-SHA">>, FALSE)
 @@ "20160804" :> Preferences(
        <<"ECDHE-RSA-AES128-GCM-SHA256", "ECDHE-RSA-AES256-GCM-SHA384", "ECDHE-RSA-AES128-SHA",
          "ECDHE-RSA-AES128-SHA256", "ECDHE-RSA-AES256-SHA", "ECDHE-RSA-AES256-SHA384", "AES128-GCM-SHA256",
          "AES256-GCM-SHA384", "AES128-SHA", "AES128-SHA256", "AES256-SHA", "AES256-SHA256", "DES-CBC3-SHA">>, FALSE)
 @@ "20160824" :> Preferences(
        <<"ECDHE-RSA-AES128-GCM-SHA256", "ECDHE-RSA-AES256-GCM-SHA384", "ECDHE-RSA-AES128-SHA",
          "ECDHE-RSA-AES128-SHA256", "ECDHE-RSA-AES256-SHA", "AES128-GCM-SHA256", "AES128-SHA256", "AES128-SHA">>, FALSE)
 @@ "20170210" :> Preferences(
        <<"ECDHE-RSA-AES128-GCM-SHA256", "ECDHE-RSA-AES256-GCM-SHA384", "ECDHE-RSA-CHACHA20-POLY1305",
          "ECDHE-RSA-AES128-SHA", "ECDHE-RSA-AES128-SHA256", "ECDHE-RSA-AES256-SHA", "AES128-GCM-SHA256",
          "AES128-SHA256", "AES128-SHA">>, FALSE)
 @@ "20230317" :> Preferences(
        <<"ECDHE-ECDSA-AES128-GCM-SHA256", "ECDHE-ECDSA-AES256-GCM-SHA384", "ECDHE-ECDSA-AES128-SHA256",
          "ECDHE-ECDSA-AES256-SHA384", "ECDHE-RSA-AES128-GCM-SHA256", "ECDHE-RSA-AES256-GCM-SHA384",
          "ECDHE-RSA-AES128-SHA256", "ECDHE-RSA-AES256-SHA384", "TLS_AES_128_GCM_SHA256",
          "TLS_AES_256_GCM_SHA384">>, FALSE)

CiphersFrom_20240331 ==
    "20240331" :> Preferences(
        <<"ECDHE-ECDSA-AES128-GCM-SHA256", "ECDHE-ECDSA-AES256-GCM-SHA384", "ECDHE-ECDSA-AES128-SHA256",
          "ECDHE-ECDSA-AES256-SHA384", "ECDHE-RSA-AES128-GCM-SHA256", "ECDHE-RSA-AES256-GCM-SHA384",
          "ECDHE-RSA-AES128-SHA256", "ECDHE-RSA-AES256-SHA384">>, FALSE)
 @@ "20190122" :> Preferences(
        <<"ECDHE-RSA-CHACHA20-POLY1305", "ECDHE-RSA-AES128-SHA", "ECDHE-RSA-AES128-GCM-SHA256",
          "ECDHE-RSA-AES256-GCM-SHA384", "ECDHE-RSA-AES128-SHA256", "ECDHE-RSA-AES256-SHA",
          "ECDHE-RSA-AES256-SHA384", "AES128-SHA", "AES128-GCM-SHA256", "AES256-GCM-SHA384", "AES128-SHA256",
          "AES256-SHA", "AES256-SHA256", "DES-CBC3-SHA">>, FALSE)
 @@ "20190121" :> Preferences(
        <<"ECDHE-RSA-AES128-GCM-SHA256", "ECDHE-RSA-AES256-GCM-SHA384", "ECDHE-RSA-CHACHA20-POLY1305",
          "ECDHE-RSA-AES128-SHA", "ECDHE-RSA-AES128-SHA256", "ECDHE-RSA-AES256-SHA", "ECDHE-RSA-AES256-SHA384",
          "AES128-GCM-SHA256", "AES256-GCM-SHA384", "AES128-SHA", "AES128-SHA256", "AES256-SHA",
          "AES256-SHA256", "DES-CBC3-SHA">>, FALSE)
 @@ "20190120" :> Preferences(
        <<"ECDHE-RSA-AES128-SHA", "ECDHE-RSA-AES128-GCM-SHA256", "ECDHE-RSA-AES256-GCM-SHA384",
          "ECDHE-RSA-CHACHA20-POLY1305", "ECDHE-RSA-AES128-SHA256", "ECDHE-RSA-AES256-SHA",
          "ECDHE-RSA-AES256-SHA384", "AES128-SHA", "AES128-GCM-SHA256", "AES256-GCM-SHA384", "AES128-SHA256",
          "AES256-SHA", "AES256-SHA256", "DES-CBC3-SHA">>, FALSE)
 @@ "20190214" :> Preferences(
        <<"ECDHE-ECDSA-AES128-SHA", "ECDHE-RSA-AES128-SHA", "ECDHE-ECDSA-AES128-GCM-SHA256",
          "ECDHE-RSA-AES128-GCM-SHA256", "ECDHE-ECDSA-AES256-GCM-SHA384", "ECDHE-RSA-AES256-GCM-SHA384",
          "ECDHE-ECDSA-AES128-SHA256", "ECDHE-RSA-AES128-SHA256", "ECDHE-ECDSA-AES256-SHA",
          "ECDHE-RSA-AES256-SHA", "ECDHE-ECDSA-AES256-SHA384", "ECDHE-RSA-AES256-SHA384", "AES128-SHA",
          "AES128-GCM-SHA256", "AES256-GCM-SHA384", "AES128-SHA256", "AES256-SHA", "AES256-SHA256",
          "DES-CBC3-SHA", "DHE-RSA-AES128-SHA", "DHE-RSA-AES128-GCM-SHA256", "DHE-RSA-AES256-GCM-SHA384",
          "DHE-RSA-AES128-SHA256", "DHE-RSA-AES256-SHA", "DHE-RSA-AES256-SHA256">>, FALSE)

CiphersFrom_20190214_gcm ==
    "20190214_gcm" :> Preferences(
        <<"ECDHE-ECDSA-AES128-GCM-SHA256", "ECDHE-RSA-AES128-GCM-SHA256", "ECDHE-ECDSA-AES256-GCM-SHA384",
          "ECDHE-RSA-AES256-GCM-SHA384", "ECDHE-ECDSA-AES128-SHA", "ECDHE-RSA-AES128-SHA",
          "ECDHE-ECDSA-AES128-SHA256", "ECDHE-RSA-AES128-SHA256", "ECDHE-ECDSA-AES256-SHA",
          "ECDHE-RSA-AES256-SHA", "ECDHE-ECDSA-AES256-SHA384", "ECDHE-RSA-AES256-SHA384", "AES128-GCM-SHA256",
          "AES256-GCM-SHA384", "AES128-SHA", "AES128-SHA256", "AES256-SHA", "AES256-SHA256", "DES-CBC3-SHA",
          "DHE-RSA-AES128-GCM-SHA256", "DHE-RSA-AES256-GCM-SHA384", "DHE-RSA-AES128-SHA",
          "DHE-RSA-AES128-SHA256", "DHE-RSA-AES256-SHA", "DHE-RSA-AES256-SHA256">>, FALSE)
 @@ "20210825" :> Preferences(
        S2N_TLS13_CLOUDFRONT_CIPHER_SUITES_20200716 \o
        <<"ECDHE-ECDSA-AES128-SHA", "ECDHE-RSA-AES128-SHA", "ECDHE-ECDSA-AES128-GCM-SHA256",
          "ECDHE-RSA-AES128-GCM-SHA256", "ECDHE-ECDSA-AES256-GCM-SHA384", "ECDHE-RSA-AES256-GCM-SHA384",
          "ECDHE-ECDSA-AES128-SHA256", "ECDHE-RSA-AES128-SHA256", "ECDHE-ECDSA-AES256-SHA",
          "ECDHE-RSA-AES256-SHA", "ECDHE-ECDSA-AES256-SHA384", "ECDHE-RSA-AES256-SHA384", "AES128-SHA",
          "AES128-GCM-SHA256", "AES256-GCM-SHA384", "AES128-SHA256", "AES256-SHA", "AES256-SHA256",
          "DES-CBC3-SHA", "DHE-RSA-AES128-SHA", "DHE-RSA-AES128-GCM-SHA256", "DHE-RSA-AES256-GCM-SHA384",
          "DHE-RSA-AES128-SHA256", "DHE-RSA-AES256-SHA", "DHE-RSA-AES256-SHA256">>, FALSE)
 @@ "20210825_gcm" :> Preferences(
        S2N_TLS13_CLOUDFRONT_CIPHER_SUITES_20200716 \o
        <<"ECDHE-ECDSA-AES128-GCM-SHA256", "ECDHE-RSA-AES128-GCM-SHA256", "ECDHE-ECDSA-AES256-GCM-SHA384",
          "ECDHE-RSA-AES256-GCM-SHA384", "ECDHE-ECDSA-AES128-SHA", "ECDHE-RSA-AES128-SHA",
          "ECDHE-ECDSA-AES128-SHA256", "ECDHE-RSA-AES128-SHA256", "ECDHE-ECDSA-AES256-SHA",
          "ECDHE-RSA-AES256-SHA", "ECDHE-ECDSA-AES256-SHA384", "ECDHE-RSA-AES256-SHA384", "AES128-GCM-SHA256",
          "AES256-GCM-SHA384", "AES128-SHA", "AES128-SHA256", "AES256-SHA", "AES256-SHA256", "DES-CBC3-SHA",
          "DHE-RSA-AES128-GCM-SHA256", "DHE-RSA-AES256-GCM-SHA384", "DHE-RSA-AES128-SHA",
          "DHE-RSA-AES128-SHA256", "DHE-RSA-AES256-SHA", "DHE-RSA-AES256-SHA256">>, FALSE)
 @@ "20241008" :> Preferences(
        S2N_TLS13_CLOUDFRONT_CIPHER_SUITES_20200716 \o
        <<"ECDHE-ECDSA-AES128-SHA", "ECDHE-RSA-AES128-SHA", "ECDHE-ECDSA-AES128-GCM-SHA256",
          "ECDHE-RSA-AES128-GCM-SHA256", "ECDHE-ECDSA-AES256-GCM-SHA384", "ECDHE-RSA-AES256-GCM-SHA384",
          "ECDHE-ECDSA-AES128-SHA256", "ECDHE-RSA-AES128-SHA256", "ECDHE-ECDSA-AES256-SHA",
          "ECDHE-RSA-AES256-SHA", "ECDHE-ECDSA-AES256-SHA384", "ECDHE-RSA-AES256-SHA384", "AES128-SHA",
          "AES128-GCM-SHA256", "AES256-GCM-SHA384", "AES128-SHA256", "AES256-SHA", "AES256-SHA256",
          "DHE-RSA-AES128-SHA", "DHE-RSA-AES128-GCM-SHA256", "DHE-RSA-AES256-GCM-SHA384",
          "DHE-RSA-AES128-SHA256", "DHE-RSA-AES256-SHA", "DHE-RSA-AES256-SHA256">>, FALSE)

CiphersFrom_20241008_gcm ==
    "20241008_gcm" :> Preferences(
        S2N_TLS13_CLOUDFRONT_CIPHER_SUITES_20200716 \o
        <<"ECDHE-ECDSA-AES128-GCM-SHA256", "ECDHE-RSA-AES128-GCM-SHA256", "ECDHE-ECDSA-AES256-GCM-SHA384",
          "ECDHE-RSA-AES256-GCM-SHA384", "ECDHE-ECDSA-AES128-SHA", "ECDHE-RSA-AES128-SHA",
          "ECDHE-ECDSA-AES128-SHA256", "ECDHE-RSA-AES128-SHA256", "ECDHE-ECDSA-AES256-SHA",
          "ECDHE-RSA-AES256-SHA", "ECDHE-ECDSA-AES256-SHA384", "ECDHE-RSA-AES256-SHA384", "AES128-GCM-SHA256",
          "AES256-GCM-SHA384", "AES128-SHA", "AES128-SHA256", "AES256-SHA", "AES256-SHA256",
          "DHE-RSA-AES128-GCM-SHA256", "DHE-RSA-AES256-GCM-SHA384", "DHE-RSA-AES128-SHA",
          "DHE-RSA-AES128-SHA256", "DHE-RSA-AES256-SHA", "DHE-RSA-AES256-SHA256">>, FALSE)
 @@ "20241009" :> Preferences(
        S2N_TLS13_CIPHER_SUITES_20190801 \o
        <<"ECDHE-RSA-AES256-GCM-SHA384", "ECDHE-RSA-AES128-GCM-SHA256", "ECDHE-RSA-AES256-SHA384",
          "ECDHE-RSA-AES256-SHA", "ECDHE-RSA-AES128-SHA256", "DHE-RSA-AES256-SHA256", "DHE-RSA-AES128-SHA256",
          "DHE-RSA-AES256-SHA", "DHE-RSA-AES128-SHA">>, FALSE)
 @@ "null" :> Preferences(
        <<"TLS_NULL_WITH_NULL_NULL">>, FALSE)
 @@ "20170328" :> Preferences(
        <<"ECDHE-RSA-AES128-SHA", "ECDHE-RSA-AES128-GCM-SHA256", "ECDHE-RSA-AES256-GCM-SHA384",
          "ECDHE-RSA-AES128-SHA256", "ECDHE-RSA-AES256-SHA", "ECDHE-RSA-AES256-SHA384", "AES128-SHA",
          "AES128-GCM-SHA256", "AES256-GCM-SHA384", "AES128-SHA256", "AES256-SHA", "AES256-SHA256",
          "DES-CBC3-SHA", "DHE-RSA-AES128-SHA", "DHE-RSA-AES128-GCM-SHA256", "DHE-RSA-AES256-GCM-SHA384",
          "DHE-RSA-AES128-SHA256", "DHE-RSA-AES256-SHA", "DHE-RSA-AES256-SHA256">>, FALSE)
 @@ "20170328_gcm" :> Preferences(
        <<"ECDHE-RSA-AES128-GCM-SHA256", "ECDHE-RSA-AES256-GCM-SHA384", "ECDHE-RSA-AES128-SHA",
          "ECDHE-RSA-AES128-SHA256", "ECDHE-RSA-AES256-SHA", "ECDHE-RSA-AES256-SHA384", "AES128-GCM-SHA256",
          "AES256-GCM-SHA384", "AES128-SHA", "AES128-SHA256", "AES256-SHA", "AES256-SHA256", "DES-CBC3-SHA",
          "DHE-RSA-AES128-GCM-SHA256", "DHE-RSA-AES256-GCM-SHA384", "DHE-RSA-AES128-SHA",
          "DHE-RSA-AES128-SHA256", "DHE-RSA-AES256-SHA", "DHE-RSA-AES256-SHA256">>, FALSE)
 @@ "20170405" :> Preferences(
        <<"ECDHE-RSA-AES128-SHA256", "ECDHE-RSA-AES256-SHA384", "ECDHE-RSA-AES128-GCM-SHA256",
          "ECDHE-RSA-AES256-GCM-SHA384", "AES128-SHA", "AES128-GCM-SHA256", "AES256-GCM-SHA384",
          "AES128-SHA256", "AES256-SHA", "AES256-SHA256", "DES-CBC3-SHA">>, FALSE)

CiphersFrom_20170405_gcm ==
    "20170405_gcm" :> Preferences(
        <<"ECDHE-RSA-AES128-GCM-SHA256", "ECDHE-RSA-AES256-GCM-SHA384", "ECDHE-RSA-AES128-SHA256",
          "ECDHE-RSA-AES256-SHA384", "AES128-GCM-SHA256", "AES256-GCM-SHA384", "AES128-SHA", "AES128-SHA256",
          "AES256-SHA", "AES256-SHA256", "DES-CBC3-SHA">>, FALSE)
 @@ "20170718" :> Preferences(
        <<"ECDHE-RSA-AES128-SHA", "ECDHE-RSA-AES128-GCM-SHA256", "ECDHE-RSA-AES256-GCM-SHA384",
          "ECDHE-RSA-AES128-SHA256", "ECDHE-RSA-AES256-SHA", "ECDHE-RSA-AES256-SHA384", "AES128-SHA",
          "AES128-GCM-SHA256", "AES256-GCM-SHA384", "AES128-SHA256", "AES256-SHA", "AES256-SHA256">>, FALSE)
 @@ "20170718_gcm" :> Preferences(
        <<"ECDHE-RSA-AES128-GCM-SHA256", "ECDHE-RSA-AES256-GCM-SHA384", "ECDHE-RSA-AES128-SHA",
          "ECDHE-RSA-AES128-SHA256", "ECDHE-RSA-AES256-SHA", "ECDHE-RSA-AES256-SHA384", "AES128-GCM-SHA256",
          "AES256-GCM-SHA384", "AES128-SHA", "AES128-SHA256", "AES256-SHA", "AES256-SHA256">>, FALSE)

CiphersFrom_elb_security_policy_2015_04 ==
    "elb_security_policy_2015_04" :> Preferences(
        <<"ECDHE-ECDSA-AES128-GCM-SHA256", "ECDHE-RSA-AES128-GCM-SHA256", "ECDHE-ECDSA-AES128-SHA256",
          "ECDHE-RSA-AES128-SHA256", "ECDHE-ECDSA-AES128-SHA", "ECDHE-RSA-AES128-SHA",
          "ECDHE-ECDSA-AES256-GCM-SHA384", "ECDHE-RSA-AES256-GCM-SHA384", "ECDHE-ECDSA-AES256-SHA384",
          "ECDHE-RSA-AES256-SHA384", "ECDHE-RSA-AES256-SHA", "ECDHE-ECDSA-AES256-SHA", "AES128-GCM-SHA256",
          "AES128-SHA256", "AES128-SHA", "AES256-GCM-SHA384", "AES256-SHA256", "AES256-SHA", "DES-CBC3-SHA">>, FALSE)
 @@ "elb_security_policy_2016_08" :> Preferences(
        <<"ECDHE-ECDSA-AES128-GCM-SHA256", "ECDHE-RSA-AES128-GCM-SHA256", "ECDHE-ECDSA-AES128-SHA256",
          "ECDHE-RSA-AES128-SHA256", "ECDHE-ECDSA-AES128-SHA", "ECDHE-RSA-AES128-SHA",
          "ECDHE-ECDSA-AES256-GCM-SHA384", "ECDHE-RSA-AES256-GCM-SHA384", "ECDHE-ECDSA-AES256-SHA384",
          "ECDHE-RSA-AES256-SHA384", "ECDHE-RSA-AES256-SHA", "ECDHE-ECDSA-AES256-SHA", "AES128-GCM-SHA256",
          "AES128-SHA256", "AES128-SHA", "AES256-GCM-SHA384", "AES256-SHA256", "AES256-SHA">>, FALSE)
 @@ "elb_security_policy_tls_1_2_2017_01" :> Preferences(
        <<"ECDHE-ECDSA-AES128-GCM-SHA256", "ECDHE-RSA-AES128-GCM-SHA256", "ECDHE-ECDSA-AES128-SHA256",
          "ECDHE-RSA-AES128-SHA256", "ECDHE-ECDSA-AES256-GCM-SHA384", "ECDHE-RSA-AES256-GCM-SHA384",
          "ECDHE-ECDSA-AES256-SHA384", "ECDHE-RSA-AES256-SHA384", "AES128-GCM-SHA256", "AES128-SHA256",
          "AES256-GCM-SHA384", "AES256-SHA256">>, FALSE)
 @@ "elb_security_policy_tls_1_1_2017_01" :> Preferences(
        <<"ECDHE-ECDSA-AES128-GCM-SHA256", "ECDHE-RSA-AES128-GCM-SHA256", "ECDHE-ECDSA-AES128-SHA256",
          "ECDHE-RSA-AES128-SHA256", "ECDHE-ECDSA-AES128-SHA", "ECDHE-RSA-AES128-SHA",
          "ECDHE-ECDSA-AES256-GCM-SHA384", "ECDHE-RSA-AES256-GCM-SHA384", "ECDHE-ECDSA-AES256-SHA384",
          "ECDHE-RSA-AES256-SHA384", "ECDHE-RSA-AES256-SHA", "ECDHE-ECDSA-AES256-SHA", "AES128-GCM-SHA256",
          "AES128-SHA256", "AES128-SHA", "AES256-GCM-SHA384", "AES256-SHA256", "AES256-SHA">>, FALSE)
 @@ "elb_security_policy_tls_1_2_ext_2018_06" :> Preferences(
        <<"ECDHE-ECDSA-AES128-GCM-SHA256", "ECDHE-RSA-AES128-GCM-SHA256", "ECDHE-ECDSA-AES128-SHA256",
          "ECDHE-RSA-AES128-SHA256", "ECDHE-ECDSA-AES128-SHA", "ECDHE-RSA-AES128-SHA",
          "ECDHE-ECDSA-AES256-GCM-SHA384", "ECDHE-RSA-AES256-GCM-SHA384", "ECDHE-ECDSA-AES256-SHA384",
          "ECDHE-RSA-AES256-SHA384", "ECDHE-RSA-AES256-SHA", "ECDHE-ECDSA-AES256-SHA", "AES128-GCM-SHA256",
          "AES128-SHA256", "AES128-SHA", "AES256-GCM-SHA384", "AES256-SHA256", "AES256-SHA">>, FALSE)
 @@ "elb_security_policy_fs_2018_06" :> Preferences(
        <<"ECDHE-ECDSA-AES128-GCM-SHA256", "ECDHE-RSA-AES128-GCM-SHA256", "ECDHE-ECDSA-AES128-SHA256",
          "ECDHE-RSA-AES128-SHA256", "ECDHE-ECDSA-AES128-SHA", "ECDHE-RSA-AES128-SHA",
          "ECDHE-ECDSA-AES256-GCM-SHA384", "ECDHE-RSA-AES256-GCM-SHA384", "ECDHE-ECDSA-AES256-SHA384",
          "ECDHE-RSA-AES256-SHA384", "ECDHE-RSA-AES256-SHA", "ECDHE-ECDSA-AES256-SHA">>, FALSE)

CiphersFrom_elb_security_policy_fs_1_2_2019_08 ==
    "elb_security_policy_fs_1_2_2019_08" :> Preferences(
        <<"ECDHE-ECDSA-AES128-GCM-SHA256", "ECDHE-RSA-AES128-GCM-SHA256", "ECDHE-ECDSA-AES128-SHA256",
          "ECDHE-RSA-AES128-SHA256", "ECDHE-ECDSA-AES128-SHA", "ECDHE-RSA-AES128-SHA",
          "ECDHE-ECDSA-AES256-GCM-SHA384", "ECDHE-RSA-AES256-GCM-SHA384", "ECDHE-ECDSA-AES256-SHA384",
          "ECDHE-RSA-AES256-SHA384", "ECDHE-RSA-AES256-SHA", "ECDHE-ECDSA-AES256-SHA">>, FALSE)
 @@ "elb_security_policy_fs_1_1_2019_08" :> Preferences(
        <<"ECDHE-ECDSA-AES128-GCM-SHA256", "ECDHE-RSA-AES128-GCM-SHA256", "ECDHE-ECDSA-AES128-SHA256",
          "ECDHE-RSA-AES128-SHA256", "ECDHE-ECDSA-AES128-SHA", "ECDHE-RSA-AES128-SHA",
          "ECDHE-ECDSA-AES256-GCM-SHA384", "ECDHE-RSA-AES256-GCM-SHA384", "ECDHE-ECDSA-AES256-SHA384",
          "ECDHE-RSA-AES256-SHA384", "ECDHE-RSA-AES256-SHA", "ECDHE-ECDSA-AES256-SHA">>, FALSE)
 @@ "elb_security_policy_fs_1_2_Res_2019_08" :> Preferences(
        <<"ECDHE-ECDSA-AES128-GCM-SHA256", "ECDHE-RSA-AES128-GCM-SHA256", "ECDHE-ECDSA-AES128-SHA256",
          "ECDHE-RSA-AES128-SHA256", "ECDHE-ECDSA-AES256-GCM-SHA384", "ECDHE-RSA-AES256-GCM-SHA384",
          "ECDHE-ECDSA-AES256-SHA384", "ECDHE-RSA-AES256-SHA384">>, FALSE)
 @@ "elb_security_policy_tls13_1_2_Ext2_2021_06" :> Preferences(
        S2N_TLS13_CLOUDFRONT_CIPHER_SUITES_20200716 \o
        <<"ECDHE-ECDSA-AES128-GCM-SHA256", "ECDHE-RSA-AES128-GCM-SHA256", "ECDHE-ECDSA-AES128-SHA256",
          "ECDHE-RSA-AES128-SHA256", "ECDHE-ECDSA-AES128-SHA", "ECDHE-RSA-AES128-SHA",
          "ECDHE-ECDSA-AES256-GCM-SHA384", "ECDHE-RSA-AES256-GCM-SHA384", "ECDHE-ECDSA-AES256-SHA384",
          "ECDHE-RSA-AES256-SHA384", "ECDHE-RSA-AES256-SHA", "ECDHE-ECDSA-AES256-SHA", "AES128-GCM-SHA256",
          "AES128-SHA256", "AES128-SHA", "AES256-GCM-SHA384", "AES256-SHA256", "AES256-SHA">>, FALSE)

CiphersFrom_cloudfront_upstream ==
    "cloudfront_upstream" :> Preferences(
        <<"ECDHE-ECDSA-AES256-GCM-SHA384", "ECDHE-RSA-AES256-GCM-SHA384", "ECDHE-ECDSA-AES128-GCM-SHA256",
          "ECDHE-RSA-AES128-GCM-SHA256", "ECDHE-ECDSA-AES256-SHA384", "ECDHE-RSA-AES256-SHA384",
          "ECDHE-ECDSA-AES256-SHA", "ECDHE-RSA-AES256-SHA", "ECDHE-ECDSA-AES128-SHA256",
          "ECDHE-RSA-AES128-SHA256", "ECDHE-ECDSA-AES128-SHA", "ECDHE-RSA-AES128-SHA", "AES256-GCM-SHA384",
          "AES128-GCM-SHA256", "AES256-SHA", "AES128-SHA256", "AES128-SHA", "DES-CBC3-SHA", "RC4-MD5">>, FALSE)
 @@ "cloudfront_ssl_v_3" :> Preferences(
        S2N_TLS13_CLOUDFRONT_CIPHER_SUITES_20200716 \o
        <<"ECDHE-RSA-AES128-GCM-SHA256", "ECDHE-RSA-AES128-SHA256", "ECDHE-RSA-AES128-SHA",
          "ECDHE-RSA-AES256-GCM-SHA384", "ECDHE-RSA-CHACHA20-POLY1305", "ECDHE-RSA-AES256-SHA384",
          "ECDHE-RSA-AES256-SHA", "AES128-GCM-SHA256", "AES256-GCM-SHA384", "AES128-SHA256", "AES256-SHA",
          "AES128-SHA", "DES-CBC3-SHA", "RC4-MD5">>, FALSE)
 @@ "cloudfront_tls_1_0_2014" :> Preferences(
        S2N_TLS13_CLOUDFRONT_CIPHER_SUITES_20200716 \o
        <<"ECDHE-ECDSA-AES128-GCM-SHA256", "ECDHE-RSA-AES128-GCM-SHA256", "ECDHE-ECDSA-AES128-SHA256",
          "ECDHE-RSA-AES128-SHA256", "ECDHE-ECDSA-AES128-SHA", "ECDHE-RSA-AES128-SHA",
          "ECDHE-ECDSA-AES256-GCM-SHA384", "ECDHE-RSA-AES256-GCM-SHA384", "ECDHE-ECDSA-CHACHA20-POLY1305",
          "ECDHE-RSA-CHACHA20-POLY1305", "ECDHE-ECDSA-AES256-SHA384", "ECDHE-RSA-AES256-SHA384",
          "ECDHE-ECDSA-AES256-SHA", "ECDHE-RSA-AES256-SHA", "AES128-GCM-SHA256", "AES256-GCM-SHA384",
          "AES128-SHA256", "AES256-SHA", "AES128-SHA", "DES-CBC3-SHA">>, FALSE)
 @@ "cloudfront_tls_1_0_2016" :> Preferences(
        S2N_TLS13_CLOUDFRONT_CIPHER_SUITES_20200716 \o
        <<"ECDHE-ECDSA-AES128-GCM-SHA256", "ECDHE-RSA-AES128-GCM-SHA256", "ECDHE-ECDSA-AES128-SHA256",
          "ECDHE-RSA-AES128-SHA256", "ECDHE-ECDSA-AES128-SHA", "ECDHE-RSA-AES128-SHA",
          "ECDHE-ECDSA-AES256-GCM-SHA384", "ECDHE-RSA-AES256-GCM-SHA384", "ECDHE-ECDSA-CHACHA20-POLY1305",
          "ECDHE-RSA-CHACHA20-POLY1305", "ECDHE-ECDSA-AES256-SHA384", "ECDHE-RSA-AES256-SHA384",
          "ECDHE-ECDSA-AES256-SHA", "ECDHE-RSA-AES256-SHA", "AES128-GCM-SHA256", "AES256-GCM-SHA384",
          "AES128-SHA256", "AES256-SHA", "AES128-SHA">>, FALSE)
 @@ "cloudfront_tls_1_1_2016" :> Preferences(
        S2N_TLS13_CLOUDFRONT_CIPHER_SUITES_20200716 \o
        <<"ECDHE-ECDSA-AES128-GCM-SHA256", "ECDHE-RSA-AES128-GCM-SHA256", "ECDHE-ECDSA-AES128-SHA256",
          "ECDHE-RSA-AES128-SHA256", "ECDHE-ECDSA-AES128-SHA", "ECDHE-RSA-AES128-SHA",
          "ECDHE-ECDSA-AES256-GCM-SHA384", "ECDHE-RSA-AES256-GCM-SHA384", "ECDHE-ECDSA-CHACHA20-POLY1305",
          "ECDHE-RSA-CHACHA20-POLY1305", "ECDHE-ECDSA-AES256-SHA384", "ECDHE-RSA-AES256-SHA384",
          "ECDHE-ECDSA-AES256-SHA", "ECDHE-RSA-AES256-SHA", "AES128-GCM-SHA256", "AES256-GCM-SHA384",
          "AES128-SHA256", "AES256-SHA", "AES128-SHA">>, FALSE)

CiphersFrom_cloudfront_tls_1_2_2017 ==
    "cloudfront_tls_1_2_2017" :> Preferences(
        S2N_TLS13_CLOUDFRONT_CIPHER_SUITES_20200716 \o
        <<"ECDHE-ECDSA-AES128-GCM-SHA256", "ECDHE-RSA-AES128-GCM-SHA256", "ECDHE-ECDSA-AES128-SHA256",
          "ECDHE-RSA-AES128-SHA256", "ECDHE-ECDSA-AES256-GCM-SHA384", "ECDHE-RSA-AES256-GCM-SHA384",
          "ECDHE-ECDSA-CHACHA20-POLY1305", "ECDHE-RSA-CHACHA20-POLY1305", "ECDHE-ECDSA-AES256-SHA384",
          "ECDHE-RSA-AES256-SHA384", "ECDHE-ECDSA-AES256-SHA", "ECDHE-RSA-AES256-SHA", "ECDHE-ECDSA-AES128-SHA",
          "ECDHE-RSA-AES128-SHA", "AES128-GCM-SHA256", "AES256-GCM-SHA384", "AES128-SHA256">>, FALSE)
 @@ "cloudfront_tls_1_2_2018" :> Preferences(
        S2N_TLS13_CLOUDFRONT_CIPHER_SUITES_20200716 \o
        <<"ECDHE-ECDSA-AES128-GCM-SHA256", "ECDHE-RSA-AES128-GCM-SHA256", "ECDHE-ECDSA-AES128-SHA256",
          "ECDHE-RSA-AES128-SHA256", "ECDHE-ECDSA-AES256-GCM-SHA384", "ECDHE-RSA-AES256-GCM-SHA384",
          "ECDHE-ECDSA-CHACHA20-POLY1305", "ECDHE-RSA-CHACHA20-POLY1305", "ECDHE-ECDSA-AES256-SHA384",
          "ECDHE-RSA-AES256-SHA384", "AES128-GCM-SHA256", "AES256-GCM-SHA384", "AES128-SHA256">>, FALSE)
 @@ "cloudfront_ssl_v_3_legacy" :> Preferences(
        <<"ECDHE-ECDSA-AES128-GCM-SHA256", "ECDHE-RSA-AES128-GCM-SHA256", "ECDHE-ECDSA-AES128-SHA256",
          "ECDHE-RSA-AES128-SHA256", "ECDHE-ECDSA-AES128-SHA", "ECDHE-RSA-AES128-SHA",
          "ECDHE-ECDSA-AES256-GCM-SHA384", "ECDHE-RSA-AES256-GCM-SHA384", "ECDHE-ECDSA-AES256-SHA384",
          "ECDHE-RSA-AES256-SHA384", "ECDHE-ECDSA-AES256-SHA", "ECDHE-RSA-AES256-SHA", "AES128-GCM-SHA256",
          "AES256-GCM-SHA384", "AES128-SHA256", "AES256-SHA", "AES128-SHA", "DES-CBC3-SHA", "RC4-MD5">>, FALSE)
 @@ "cloudfront_tls_1_0_2014_legacy" :> Preferences(
        <<"ECDHE-ECDSA-AES128-GCM-SHA256", "ECDHE-RSA-AES128-GCM-SHA256", "ECDHE-ECDSA-AES128-SHA256",
          "ECDHE-RSA-AES128-SHA256", "ECDHE-ECDSA-AES128-SHA", "ECDHE-RSA-AES128-SHA",
          "ECDHE-ECDSA-AES256-GCM-SHA384", "ECDHE-RSA-AES256-GCM-SHA384", "ECDHE-ECDSA-AES256-SHA384",
          "ECDHE-RSA-AES256-SHA384", "ECDHE-ECDSA-AES256-SHA", "ECDHE-RSA-AES256-SHA", "AES128-GCM-SHA256",
          "AES256-GCM-SHA384", "AES128-SHA256", "AES256-SHA", "AES128-SHA", "DES-CBC3-SHA">>, FALSE)
 @@ "cloudfront_tls_1_0_2016_legacy" :> Preferences(
        <<"ECDHE-ECDSA-AES128-GCM-SHA256", "ECDHE-RSA-AES128-GCM-SHA256", "ECDHE-ECDSA-AES128-SHA256",
          "ECDHE-RSA-AES128-SHA256", "ECDHE-ECDSA-AES128-SHA", "ECDHE-RSA-AES128-SHA",
          "ECDHE-ECDSA-AES256-GCM-SHA384", "ECDHE-RSA-AES256-GCM-SHA384", "ECDHE-ECDSA-AES256-SHA384",
          "ECDHE-RSA-AES256-SHA384", "ECDHE-ECDSA-AES256-SHA", "ECDHE-RSA-AES256-SHA", "AES128-GCM-SHA256",
          "AES256-GCM-SHA384", "AES128-SHA256", "AES256-SHA", "AES128-SHA">>, FALSE)

CiphersFrom_cloudfront_tls_1_1_2016_legacy ==
    "cloudfront_tls_1_1_2016_legacy" :> Preferences(
        <<"ECDHE-ECDSA-AES128-GCM-SHA256", "ECDHE-RSA-AES128-GCM-SHA256", "ECDHE-ECDSA-AES128-SHA256",
          "ECDHE-RSA-AES128-SHA256", "ECDHE-ECDSA-AES128-SHA", "ECDHE-RSA-AES128-SHA",
          "ECDHE-ECDSA-AES256-GCM-SHA384", "ECDHE-RSA-AES256-GCM-SHA384", "ECDHE-ECDSA-AES256-SHA384",
          "ECDHE-RSA-AES256-SHA384", "ECDHE-ECDSA-AES256-SHA", "ECDHE-RSA-AES256-SHA", "AES128-GCM-SHA256",
          "AES256-GCM-SHA384", "AES128-SHA256", "AES256-SHA", "AES128-SHA">>, FALSE)
 @@ "cloudfront_tls_1_2_2018_legacy" :> Preferences(
        <<"ECDHE-ECDSA-AES128-GCM-SHA256", "ECDHE-RSA-AES128-GCM-SHA256", "ECDHE-ECDSA-AES128-SHA256",
          "ECDHE-RSA-AES128-SHA256", "ECDHE-ECDSA-AES256-GCM-SHA384", "ECDHE-RSA-AES256-GCM-SHA384",
          "ECDHE-ECDSA-AES256-SHA384", "ECDHE-RSA-AES256-SHA384", "AES128-GCM-SHA256", "AES256-GCM-SHA384",
          "AES128-SHA256">>, FALSE)
 @@ "cloudfront_tls_1_2_2019_legacy" :> Preferences(
        <<"ECDHE-ECDSA-AES128-GCM-SHA256", "ECDHE-RSA-AES128-GCM-SHA256", "ECDHE-ECDSA-AES256-GCM-SHA384",
          "ECDHE-RSA-AES256-GCM-SHA384", "ECDHE-ECDSA-AES256-SHA384", "ECDHE-RSA-AES256-SHA384",
          "ECDHE-ECDSA-AES128-SHA256", "ECDHE-RSA-AES128-SHA256">>, FALSE)
 @@ "cloudfront_upstream_tls10" :> Preferences(
        <<"ECDHE-ECDSA-AES256-GCM-SHA384", "ECDHE-RSA-AES256-GCM-SHA384", "ECDHE-ECDSA-AES128-GCM-SHA256",
          "ECDHE-RSA-AES128-GCM-SHA256", "ECDHE-ECDSA-AES256-SHA384", "ECDHE-RSA-AES256-SHA384",
          "ECDHE-ECDSA-AES256-SHA", "ECDHE-RSA-AES256-SHA", "ECDHE-ECDSA-AES128-SHA256",
          "ECDHE-RSA-AES128-SHA256", "ECDHE-ECDSA-AES128-SHA", "ECDHE-RSA-AES128-SHA", "AES256-GCM-SHA384",
          "AES128-GCM-SHA256", "AES256-SHA", "AES128-SHA256", "AES128-SHA", "DES-CBC3-SHA", "RC4-MD5">>, FALSE)
 @@ "cloudfront_upstream_tls11" :> Preferences(
        <<"ECDHE-ECDSA-AES256-GCM-SHA384", "ECDHE-RSA-AES256-GCM-SHA384", "ECDHE-ECDSA-AES128-GCM-SHA256",
          "ECDHE-RSA-AES128-GCM-SHA256", "ECDHE-ECDSA-AES256-SHA384", "ECDHE-RSA-AES256-SHA384",
          "ECDHE-ECDSA-AES256-SHA", "ECDHE-RSA-AES256-SHA", "ECDHE-ECDSA-AES128-SHA256",
          "ECDHE-RSA-AES128-SHA256", "ECDHE-ECDSA-AES128-SHA", "ECDHE-RSA-AES128-SHA", "AES256-GCM-SHA384",
          "AES128-GCM-SHA256", "AES256-SHA", "AES128-SHA256", "AES128-SHA", "DES-CBC3-SHA", "RC4-MD5">>, FALSE)
 @@ "cloudfront_upstream_tls12" :> Preferences(
        <<"ECDHE-ECDSA-AES256-GCM-SHA384", "ECDHE-RSA-AES256-GCM-SHA384", "ECDHE-ECDSA-AES128-GCM-SHA256",
          "ECDHE-RSA-AES128-GCM-SHA256", "ECDHE-ECDSA-AES256-SHA384", "ECDHE-RSA-AES256-SHA384",
          "ECDHE-ECDSA-AES256-SHA", "ECDHE-RSA-AES256-SHA", "ECDHE-ECDSA-AES128-SHA256",
          "ECDHE-RSA-AES128-SHA256", "ECDHE-ECDSA-AES128-SHA", "ECDHE-RSA-AES128-SHA", "AES256-GCM-SHA384",
          "AES128-GCM-SHA256", "AES256-SHA", "AES128-SHA256", "AES128-SHA", "DES-CBC3-SHA", "RC4-MD5">>, FALSE)

CiphersFrom_cloudfront_tls_1_2_2019 ==
    "cloudfront_tls_1_2_2019" :> Preferences(
        S2N_TLS13_CLOUDFRONT_CIPHER_SUITES_20200716 \o
        <<"ECDHE-ECDSA-AES128-GCM-SHA256", "ECDHE-RSA-AES128-GCM-SHA256", "ECDHE-ECDSA-AES256-GCM-SHA384",
          "ECDHE-RSA-AES256-GCM-SHA384", "ECDHE-ECDSA-CHACHA20-POLY1305", "ECDHE-RSA-CHACHA20-POLY1305",
          "ECDHE-ECDSA-AES256-SHA384", "ECDHE-RSA-AES256-SHA384", "ECDHE-ECDSA-AES128-SHA256",
          "ECDHE-RSA-AES128-SHA256">>, FALSE)
 @@ "cloudfront_tls_1_2_2021" :> Preferences(
        S2N_TLS13_CLOUDFRONT_CIPHER_SUITES_20200716 \o
        <<"ECDHE-ECDSA-AES128-GCM-SHA256", "ECDHE-RSA-AES128-GCM-SHA256", "ECDHE-ECDSA-AES256-GCM-SHA384",
          "ECDHE-RSA-AES256-GCM-SHA384", "ECDHE-ECDSA-CHACHA20-POLY1305", "ECDHE-RSA-CHACHA20-POLY1305">>, FALSE)
 @@ "cloudfront_tls_1_2_2021_chacha20_boosted" :> Preferences(
        S2N_TLS13_CLOUDFRONT_CIPHER_SUITES_20200716 \o
        <<"ECDHE-ECDSA-AES128-GCM-SHA256", "ECDHE-RSA-AES128-GCM-SHA256", "ECDHE-ECDSA-AES256-GCM-SHA384",
          "ECDHE-RSA-AES256-GCM-SHA384", "ECDHE-ECDSA-CHACHA20-POLY1305", "ECDHE-RSA-CHACHA20-POLY1305">>, TRUE)
 @@ "aws_crt_sdk_ssl_v3" :> Preferences(
        S2N_TLS13_CLOUDFRONT_CIPHER_SUITES_20200716 \o
        <<"ECDHE-ECDSA-AES128-GCM-SHA256", "ECDHE-RSA-AES128-GCM-SHA256", "ECDHE-ECDSA-AES256-GCM-SHA384",
          "ECDHE-RSA-AES256-GCM-SHA384", "ECDHE-ECDSA-CHACHA20-POLY1305", "ECDHE-RSA-CHACHA20-POLY1305",
          "ECDHE-ECDSA-AES128-SHA256", "ECDHE-RSA-AES128-SHA256", "ECDHE-ECDSA-AES256-SHA384",
          "ECDHE-RSA-AES256-SHA384", "ECDHE-ECDSA-AES128-SHA", "ECDHE-RSA-AES128-SHA", "ECDHE-ECDSA-AES256-SHA",
          "ECDHE-RSA-AES256-SHA", "AES128-GCM-SHA256", "AES256-GCM-SHA384", "AES128-SHA256", "AES256-SHA256",
          "AES128-SHA", "AES256-SHA", "DES-CBC3-SHA", "RC4-MD5">>, FALSE)
 @@ "aws_crt_sdk_default" :> Preferences(
        S2N_TLS13_CLOUDFRONT_CIPHER_SUITES_20200716 \o
        <<"ECDHE-ECDSA-AES128-GCM-SHA256", "ECDHE-RSA-AES128-GCM-SHA256", "ECDHE-ECDSA-AES256-GCM-SHA384",
          "ECDHE-RSA-AES256-GCM-SHA384", "ECDHE-ECDSA-CHACHA20-POLY1305", "ECDHE-RSA-CHACHA20-POLY1305",
          "ECDHE-ECDSA-AES128-SHA256", "ECDHE-RSA-AES128-SHA256", "ECDHE-ECDSA-AES256-SHA384",
          "ECDHE-RSA-AES256-SHA384", "ECDHE-ECDSA-AES128-SHA", "ECDHE-RSA-AES128-SHA", "ECDHE-ECDSA-AES256-SHA",
          "ECDHE-RSA-AES256-SHA", "AES128-GCM-SHA256", "AES256-GCM-SHA384", "AES128-SHA256", "AES256-SHA256",
          "AES128-SHA", "AES256-SHA">>, FALSE)
 @@ "aws_crt_sdk_tls_13" :> Preferences(
        S2N_TLS13_CLOUDFRONT_CIPHER_SUITES_20200716, FALSE)

CiphersFrom_kms_tls_1_0_2018_10 ==
    "kms_tls_1_0_2018_10" :> Preferences(
        <<"ECDHE-RSA-AES256-GCM-SHA384", "ECDHE-RSA-AES128-GCM-SHA256", "ECDHE-RSA-AES256-SHA384",
          "ECDHE-RSA-AES256-SHA", "ECDHE-RSA-AES128-SHA256", "ECDHE-RSA-DES-CBC3-SHA", "DHE-RSA-AES256-SHA256",
          "DHE-RSA-AES128-SHA256", "DHE-RSA-AES256-SHA", "DHE-RSA-AES128-SHA">>, FALSE)
 @@ "kms_tls_1_0_2021_08" :> Preferences(
        S2N_TLS13_CLOUDFRONT_CIPHER_SUITES_20200716 \o
        <<"ECDHE-RSA-AES256-GCM-SHA384", "ECDHE-RSA-AES128-GCM-SHA256", "ECDHE-RSA-AES256-SHA384",
          "ECDHE-RSA-AES256-SHA", "ECDHE-RSA-AES128-SHA256", "ECDHE-RSA-DES-CBC3-SHA", "DHE-RSA-AES256-SHA256",
          "DHE-RSA-AES128-SHA256", "DHE-RSA-AES256-SHA", "DHE-RSA-AES128-SHA">>, FALSE)
 @@ "kms_pq_tls_1_0_2019_06" :> Preferences(
        <<"ECDHE-RSA-AES256-GCM-SHA384", "ECDHE-RSA-AES128-GCM-SHA256", "ECDHE-RSA-AES256-SHA384",
          "ECDHE-RSA-AES256-SHA", "ECDHE-RSA-AES128-SHA256", "ECDHE-RSA-DES-CBC3-SHA", "DHE-RSA-AES256-SHA256",
          "DHE-RSA-AES128-SHA256", "DHE-RSA-AES256-SHA", "DHE-RSA-AES128-SHA">>, FALSE)
 @@ "kms_pq_tls_1_0_2020_02" :> Preferences(
        <<"ECDHE-RSA-AES256-GCM-SHA384", "ECDHE-RSA-AES128-GCM-SHA256", "ECDHE-RSA-AES256-SHA384",
          "ECDHE-RSA-AES256-SHA", "ECDHE-RSA-AES128-SHA256", "ECDHE-RSA-DES-CBC3-SHA", "DHE-RSA-AES256-SHA256",
          "DHE-RSA-AES128-SHA256", "DHE-RSA-AES256-SHA", "DHE-RSA-AES128-SHA">>, FALSE)
 @@ "kms_pq_tls_1_0_2020_07" :> Preferences(
        <<"ECDHE-RSA-AES256-GCM-SHA384", "ECDHE-RSA-AES128-GCM-SHA256", "ECDHE-RSA-AES256-SHA384",
          "ECDHE-RSA-AES256-SHA", "ECDHE-RSA-AES128-SHA256", "ECDHE-RSA-DES-CBC3-SHA", "DHE-RSA-AES256-SHA256",
          "DHE-RSA-AES128-SHA256", "DHE-RSA-AES256-SHA", "DHE-RSA-AES128-SHA">>, FALSE)
 @@ "pq_tls_1_0_2020_12" :> Preferences(
        S2N_TLS13_CIPHER_SUITES_20190801 \o
        <<"ECDHE-RSA-AES256-GCM-SHA384", "ECDHE-RSA-AES128-GCM-SHA256", "ECDHE-RSA-AES256-SHA384",
          "ECDHE-RSA-AES256-SHA", "ECDHE-RSA-AES128-SHA256", "ECDHE-RSA-DES-CBC3-SHA", "DHE-RSA-AES256-SHA256",
          "DHE-RSA-AES128-SHA256", "DHE-RSA-AES256-SHA", "DHE-RSA-AES128-SHA">>, FALSE)
 @@ "pq_tls_1_1_2021_05_17" :> Preferences(
        <<"ECDHE-ECDSA-AES128-GCM-SHA256", "ECDHE-RSA-AES128-GCM-SHA256", "ECDHE-ECDSA-AES128-SHA256",
          "ECDHE-RSA-AES128-SHA256", "ECDHE-ECDSA-AES128-SHA", "ECDHE-RSA-AES128-SHA",
          "ECDHE-ECDSA-AES256-GCM-SHA384", "ECDHE-RSA-AES256-GCM-SHA384", "ECDHE-ECDSA-AES256-SHA384",
          "ECDHE-RSA-AES256-SHA384", "ECDHE-RSA-AES256-SHA", "ECDHE-ECDSA-AES256-SHA", "AES128-GCM-SHA256",
          "AES128-SHA256", "AES128-SHA", "AES256-GCM-SHA384", "AES256-SHA256", "AES256-SHA">>, FALSE)

CiphersFrom_pq_tls_1_0_2021_05_18 ==
    "pq_tls_1_0_2021_05_18" :> Preferences(
        <<"ECDHE-ECDSA-AES128-SHA", "ECDHE-RSA-AES128-SHA", "ECDHE-ECDSA-AES128-GCM-SHA256",
          "ECDHE-RSA-AES128-GCM-SHA256", "ECDHE-ECDSA-AES256-GCM-SHA384", "ECDHE-RSA-AES256-GCM-SHA384",
          "ECDHE-ECDSA-AES128-SHA256", "ECDHE-RSA-AES128-SHA256", "ECDHE-ECDSA-AES256-SHA",
          "ECDHE-RSA-AES256-SHA", "ECDHE-ECDSA-AES256-SHA384", "ECDHE-RSA-AES256-SHA384", "AES128-SHA",
          "AES128-GCM-SHA256", "AES256-GCM-SHA384", "AES128-SHA256", "AES256-SHA", "AES256-SHA256",
          "DES-CBC3-SHA", "DHE-RSA-AES128-SHA", "DHE-RSA-AES128-GCM-SHA256", "DHE-RSA-AES256-GCM-SHA384",
          "DHE-RSA-AES128-SHA256", "DHE-RSA-AES256-SHA", "DHE-RSA-AES256-SHA256">>, FALSE)
 @@ "pq_tls_1_0_2021_05_19" :> Preferences(
        <<"ECDHE-ECDSA-AES128-GCM-SHA256", "ECDHE-RSA-AES128-GCM-SHA256", "ECDHE-ECDSA-AES128-SHA256",
          "ECDHE-RSA-AES128-SHA256", "ECDHE-ECDSA-AES128-SHA", "ECDHE-RSA-AES128-SHA",
          "ECDHE-ECDSA-AES256-GCM-SHA384", "ECDHE-RSA-AES256-GCM-SHA384", "ECDHE-ECDSA-AES256-SHA384",
          "ECDHE-RSA-AES256-SHA384", "ECDHE-RSA-AES256-SHA", "ECDHE-ECDSA-AES256-SHA", "AES128-GCM-SHA256",
          "AES128-SHA256", "AES128-SHA", "AES256-GCM-SHA384", "AES256-SHA256", "AES256-SHA">>, FALSE)
 @@ "pq_tls_1_1_2021_05_21" :> Preferences(
        S2N_TLS13_CLOUDFRONT_CIPHER_SUITES_20200716 \o
        <<"ECDHE-ECDSA-AES128-GCM-SHA256", "ECDHE-RSA-AES128-GCM-SHA256", "ECDHE-ECDSA-AES128-SHA256",
          "ECDHE-RSA-AES128-SHA256", "ECDHE-ECDSA-AES128-SHA", "ECDHE-RSA-AES128-SHA",
          "ECDHE-ECDSA-AES256-GCM-SHA384", "ECDHE-RSA-AES256-GCM-SHA384", "ECDHE-ECDSA-AES256-SHA384",
          "ECDHE-RSA-AES256-SHA384", "ECDHE-RSA-AES256-SHA", "ECDHE-ECDSA-AES256-SHA", "AES128-GCM-SHA256",
          "AES128-SHA256", "AES128-SHA", "AES256-GCM-SHA384", "AES256-SHA256", "AES256-SHA">>, FALSE)
 @@ "pq_tls_1_0_2021_05_22" :> Preferences(
        S2N_TLS13_CLOUDFRONT_CIPHER_SUITES_20200716 \o
        <<"ECDHE-ECDSA-AES128-SHA", "ECDHE-RSA-AES128-SHA", "ECDHE-ECDSA-AES128-GCM-SHA256",
          "ECDHE-RSA-AES128-GCM-SHA256", "ECDHE-ECDSA-AES256-GCM-SHA384", "ECDHE-RSA-AES256-GCM-SHA384",
          "ECDHE-ECDSA-AES128-SHA256", "ECDHE-RSA-AES128-SHA256", "ECDHE-ECDSA-AES256-SHA",
          "ECDHE-RSA-AES256-SHA", "ECDHE-ECDSA-AES256-SHA384", "ECDHE-RSA-AES256-SHA384", "AES128-SHA",
          "AES128-GCM-SHA256", "AES256-GCM-SHA384", "AES128-SHA256", "AES256-SHA", "AES256-SHA256",
          "DES-CBC3-SHA", "DHE-RSA-AES128-SHA", "DHE-RSA-AES128-GCM-SHA256", "DHE-RSA-AES256-GCM-SHA384",
          "DHE-RSA-AES128-SHA256", "DHE-RSA-AES256-SHA", "DHE-RSA-AES256-SHA256">>, FALSE)

CiphersFrom_pq_tls_1_0_2021_05_23 ==
    "pq_tls_1_0_2021_05_23" :> Preferences(
        S2N_TLS13_CLOUDFRONT_CIPHER_SUITES_20200716 \o
        <<"ECDHE-ECDSA-AES128-GCM-SHA256", "ECDHE-RSA-AES128-GCM-SHA256", "ECDHE-ECDSA-AES128-SHA256",
          "ECDHE-RSA-AES128-SHA256", "ECDHE-ECDSA-AES128-SHA", "ECDHE-RSA-AES128-SHA",
          "ECDHE-ECDSA-AES256-GCM-SHA384", "ECDHE-RSA-AES256-GCM-SHA384", "ECDHE-ECDSA-AES256-SHA384",
          "ECDHE-RSA-AES256-SHA384", "ECDHE-RSA-AES256-SHA", "ECDHE-ECDSA-AES256-SHA", "AES128-GCM-SHA256",
          "AES128-SHA256", "AES128-SHA", "AES256-GCM-SHA384", "AES256-SHA256", "AES256-SHA">>, FALSE)
 @@ "pq_tls_1_0_2021_05_24" :> Preferences(
        S2N_TLS13_CIPHER_SUITES_20190801 \o
        <<"ECDHE-RSA-AES256-GCM-SHA384", "ECDHE-RSA-AES128-GCM-SHA256", "ECDHE-RSA-AES256-SHA384",
          "ECDHE-RSA-AES256-SHA", "ECDHE-RSA-AES128-SHA256", "ECDHE-RSA-DES-CBC3-SHA", "DHE-RSA-AES256-SHA256",
          "DHE-RSA-AES128-SHA256", "DHE-RSA-AES256-SHA", "DHE-RSA-AES128-SHA">>, FALSE)
 @@ "pq_tls_1_0_2021_05_25" :> Preferences(
        <<"ECDHE-ECDSA-AES128-GCM-SHA256", "ECDHE-RSA-AES128-GCM-SHA256", "ECDHE-ECDSA-AES256-GCM-SHA384",
          "ECDHE-RSA-AES256-GCM-SHA384", "ECDHE-ECDSA-AES128-SHA", "ECDHE-RSA-AES128-SHA",
          "ECDHE-ECDSA-AES128-SHA256", "ECDHE-RSA-AES128-SHA256", "ECDHE-ECDSA-AES256-SHA",
          "ECDHE-RSA-AES256-SHA", "ECDHE-ECDSA-AES256-SHA384", "ECDHE-RSA-AES256-SHA384", "AES128-GCM-SHA256",
          "AES256-GCM-SHA384", "AES128-SHA", "AES128-SHA256", "AES256-SHA", "AES256-SHA256", "DES-CBC3-SHA",
          "DHE-RSA-AES128-GCM-SHA256", "DHE-RSA-AES256-GCM-SHA384", "DHE-RSA-AES128-SHA",
          "DHE-RSA-AES128-SHA256", "DHE-RSA-AES256-SHA", "DHE-RSA-AES256-SHA256">>, FALSE)
 @@ "pq_tls_1_0_2021_05_26" :> Preferences(
        S2N_TLS13_CLOUDFRONT_CIPHER_SUITES_20200716 \o
        <<"ECDHE-ECDSA-AES128-GCM-SHA256", "ECDHE-RSA-AES128-GCM-SHA256", "ECDHE-ECDSA-AES256-GCM-SHA384",
          "ECDHE-RSA-AES256-GCM-SHA384", "ECDHE-ECDSA-AES128-SHA", "ECDHE-RSA-AES128-SHA",
          "ECDHE-ECDSA-AES128-SHA256", "ECDHE-RSA-AES128-SHA256", "ECDHE-ECDSA-AES256-SHA",
          "ECDHE-RSA-AES256-SHA", "ECDHE-ECDSA-AES256-SHA384", "ECDHE-RSA-AES256-SHA384", "AES128-GCM-SHA256",
          "AES256-GCM-SHA384", "AES128-SHA", "AES128-SHA256", "AES256-SHA", "AES256-SHA256", "DES-CBC3-SHA",
          "DHE-RSA-AES128-GCM-SHA256", "DHE-RSA-AES256-GCM-SHA384", "DHE-RSA-AES128-SHA",
          "DHE-RSA-AES128-SHA256", "DHE-RSA-AES256-SHA", "DHE-RSA-AES256-SHA256">>, FALSE)

CiphersFrom_pq_tls_1_3_2023_06_01 ==
    "pq_tls_1_3_2023_06_01" :> Preferences(
        S2N_TLS13_CIPHER_SUITES_20190801 \o
        <<"ECDHE-ECDSA-AES128-GCM-SHA256", "ECDHE-RSA-AES128-GCM-SHA256", "ECDHE-ECDSA-AES256-GCM-SHA384",
          "ECDHE-RSA-AES256-GCM-SHA384", "ECDHE-ECDSA-AES128-SHA", "ECDHE-RSA-AES128-SHA",
          "ECDHE-ECDSA-AES128-SHA256", "ECDHE-RSA-AES128-SHA256", "ECDHE-ECDSA-AES256-SHA",
          "ECDHE-RSA-AES256-SHA", "ECDHE-ECDSA-AES256-SHA384", "ECDHE-RSA-AES256-SHA384", "AES128-GCM-SHA256",
          "AES256-GCM-SHA384", "AES128-SHA", "AES128-SHA256", "AES256-SHA", "AES256-SHA256", "DES-CBC3-SHA",
          "DHE-RSA-AES128-GCM-SHA256", "DHE-RSA-AES256-GCM-SHA384", "DHE-RSA-AES128-SHA",
          "DHE-RSA-AES128-SHA256", "DHE-RSA-AES256-SHA", "DHE-RSA-AES256-SHA256">>, FALSE)
 @@ "20231213" :> Preferences(
        <<"TLS_AES_128_GCM_SHA256", "TLS_AES_256_GCM_SHA384", "ECDHE-ECDSA-AES128-GCM-SHA256",
          "ECDHE-RSA-AES128-GCM-SHA256", "ECDHE-ECDSA-AES256-GCM-SHA384", "ECDHE-RSA-AES256-GCM-SHA384",
          "ECDHE-ECDSA-AES128-SHA256", "ECDHE-RSA-AES128-SHA256", "ECDHE-ECDSA-AES256-SHA384",
          "ECDHE-RSA-AES256-SHA384", "AES128-GCM-SHA256", "AES256-GCM-SHA384", "AES128-SHA256", "AES256-SHA256">>, FALSE)
 @@ "20231214" :> Preferences(
        <<"TLS_AES_128_GCM_SHA256", "TLS_AES_256_GCM_SHA384", "ECDHE-ECDSA-AES128-GCM-SHA256",
          "ECDHE-RSA-AES128-GCM-SHA256", "ECDHE-ECDSA-AES256-GCM-SHA384", "ECDHE-RSA-AES256-GCM-SHA384",
          "ECDHE-ECDSA-AES128-SHA256", "ECDHE-RSA-AES128-SHA256", "ECDHE-ECDSA-AES256-SHA384",
          "ECDHE-RSA-AES256-SHA384">>, FALSE)
 @@ "kms_fips_tls_1_2_2018_10" :> Preferences(
        <<"ECDHE-RSA-AES256-GCM-SHA384", "ECDHE-RSA-AES128-GCM-SHA256", "ECDHE-RSA-AES256-SHA384",
          "ECDHE-RSA-AES128-SHA256", "DHE-RSA-AES256-SHA256", "DHE-RSA-AES128-SHA256">>, FALSE)
 @@ "kms_fips_tls_1_2_2021_08" :> Preferences(
        <<"TLS_AES_128_GCM_SHA256", "TLS_AES_256_GCM_SHA384", "ECDHE-RSA-AES256-GCM-SHA384",
          "ECDHE-RSA-AES128-GCM-SHA256", "ECDHE-RSA-AES256-SHA384", "ECDHE-RSA-AES128-SHA256",
          "DHE-RSA-AES256-SHA256", "DHE-RSA-AES128-SHA256">>, FALSE)
 @@ "20210816" :> Preferences(
        <<"ECDHE-ECDSA-AES256-SHA384", "ECDHE-RSA-AES256-SHA384", "ECDHE-ECDSA-AES256-GCM-SHA384",
          "ECDHE-RSA-AES256-GCM-SHA384">>, FALSE)
 @@ "20210816_gcm" :> Preferences(
        <<"ECDHE-ECDSA-AES256-GCM-SHA384", "ECDHE-RSA-AES256-GCM-SHA384", "ECDHE-ECDSA-AES256-SHA384",
          "ECDHE-RSA-AES256-SHA384">>, FALSE)

CiphersFrom_20240603 ==
    "20240603" :> Preferences(
        <<"TLS_AES_128_GCM_SHA256", "TLS_AES_256_GCM_SHA384", "TLS_CHACHA20_POLY1305_SHA256",
          "ECDHE-ECDSA-AES128-GCM-SHA256", "ECDHE-ECDSA-AES128-SHA256", "ECDHE-ECDSA-AES256-GCM-SHA384",
          "ECDHE-ECDSA-AES256-SHA384", "ECDHE-ECDSA-CHACHA20-POLY1305", "ECDHE-RSA-AES128-GCM-SHA256",
          "ECDHE-RSA-AES128-SHA256", "ECDHE-RSA-AES256-GCM-SHA384", "ECDHE-RSA-AES256-SHA384",
          "ECDHE-RSA-CHACHA20-POLY1305", "ECDHE-ECDSA-AES128-SHA", "ECDHE-ECDSA-AES256-SHA",
          "ECDHE-RSA-AES128-SHA", "ECDHE-RSA-AES256-SHA", "DHE-RSA-AES128-GCM-SHA256", "DHE-RSA-AES128-SHA256",
          "DHE-RSA-AES256-GCM-SHA384", "DHE-RSA-AES256-SHA256", "DHE-RSA-AES128-SHA", "DHE-RSA-AES256-SHA",
          "ECDHE-RSA-DES-CBC3-SHA", "DHE-RSA-DES-CBC3-SHA", "AES128-GCM-SHA256", "AES128-SHA256",
          "AES256-GCM-SHA384", "AES256-SHA256", "AES128-SHA", "AES256-SHA", "DES-CBC3-SHA">>, TRUE)
 @@ "rfc9151" :> Preferences(
        <<"ECDHE-ECDSA-AES256-GCM-SHA384", "ECDHE-RSA-AES256-GCM-SHA384", "AES256-GCM-SHA384",
          "DHE-RSA-AES256-GCM-SHA384", "TLS_AES_256_GCM_SHA384">>, FALSE)
 @@ "20250211" :> Preferences(
        <<"TLS_AES_256_GCM_SHA384">>, FALSE)

cipher_preferences ==
    cipher_preferences_test
 @@ CiphersFrom_20190801 @@ CiphersFrom_20160411
 @@ CiphersFrom_20240331 @@ CiphersFrom_20190214_gcm
 @@ CiphersFrom_20241008_gcm @@ CiphersFrom_20170405_gcm
 @@ CiphersFrom_elb_security_policy_2015_04 @@ CiphersFrom_elb_security_policy_fs_1_2_2019_08
 @@ CiphersFrom_cloudfront_upstream @@ CiphersFrom_cloudfront_tls_1_2_2017
 @@ CiphersFrom_cloudfront_tls_1_1_2016_legacy @@ CiphersFrom_cloudfront_tls_1_2_2019
 @@ CiphersFrom_kms_tls_1_0_2018_10 @@ CiphersFrom_pq_tls_1_0_2021_05_18
 @@ CiphersFrom_pq_tls_1_0_2021_05_23 @@ CiphersFrom_pq_tls_1_3_2023_06_01
 @@ CiphersFrom_20240603

==============================================================================
