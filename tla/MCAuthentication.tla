-------------------------- MODULE MCAuthentication --------------------------
(* Instance of Authentication: one trust store, leaves that differ in one     *)
(* thing each, and four families of plans, so that every cause is met alone   *)
(* and in the combinations that share state.                                  *)
EXTENDS Authentication, TLC

-----------------------------------------------------------------------------
(* Certificates, 0..MaxTime in force unless said otherwise.                   *)

Cert(subject, issuer, key) ==
  [subject |-> subject, issuer |-> issuer, key |-> key, pkey_type |-> "rsa",
   key_ok |-> TRUE, sig_ok |-> TRUE, sha1 |-> FALSE, sans |-> <<>>, cn |-> "none",
   from |-> 0, to |-> 9]
San(type, name) == [type |-> type, name |-> name]
Leaf == [Cert("Leaf", "Int", "leaf_key") EXCEPT
           !.sans = <<San("dns", "else"), San("dns", "good")>>, !.cn = "else"]

MCCertInfo ==
     "root" :> Cert("Root", "Root", "root_key")
  @@ "inter" :> Cert("Int", "Root", "int_key")
  @@ "leaf" :> Leaf
  @@ "by_cn" :> [Leaf EXCEPT !.sans = <<>>, !.cn = "good"]
  @@ "shadowed" :> [Leaf EXCEPT !.sans = <<San("ip", "else")>>, !.cn = "good"]
  @@ "expiring" :> [Leaf EXCEPT !.to = 0]
  @@ "early" :> [Leaf EXCEPT !.from = 1]
  @@ "weak" :> [Leaf EXCEPT !.key_ok = FALSE]
  @@ "badsig" :> [Leaf EXCEPT !.sig_ok = FALSE]
  @@ "sha1" :> [Leaf EXCEPT !.sha1 = TRUE]
  @@ "self" :> [Leaf EXCEPT !.issuer = "Leaf", !.sha1 = TRUE, !.sig_ok = FALSE]
  @@ "client" :> [Leaf EXCEPT !.subject = "Client", !.key = "client_key"]
  @@ "weak_root" :> [Cert("Root", "Root", "root_key") EXCEPT !.key_ok = FALSE]

MCKeyType == "leaf_key" :> "rsa" @@ "client_key" :> "rsa" @@ "int_key" :> "rsa"

Crl(issuer, revoked, to) == [issuer |-> issuer, revoked |-> revoked, from |-> 0, to |-> to]
MCCrlInfo ==
     "of_int" :> Crl("Int", {}, 9) @@ "of_root" :> Crl("Root", {}, 9)
  @@ "leaf_revoked" :> Crl("Int", {"leaf"}, 9) @@ "int_revoked" :> Crl("Root", {"inter"}, 9)
  @@ "ending" :> Crl("Int", {}, 0)

-----------------------------------------------------------------------------
(* Plans.                                                                     *)

Conf == [skip |-> FALSE, trust |-> {"root"}, check_ocsp |-> FALSE, depth |-> 0,
         host |-> "good", crl |-> "none", crls |-> {}, checks |-> FALSE, cb |-> "none",
         notime |-> FALSE, tls13 |-> TRUE, prefs |-> TRUE]

Plan == [kex |-> "tls13", auth |-> FALSE, auth_method |-> "rsa",
         chain |-> [client |-> <<"client", "inter">>, server |-> <<"leaf", "inter">>],
         conf |-> [client |-> Conf, server |-> [Conf EXCEPT !.host = "any"]],
         staple |-> NoStaple,
         keys |-> [client |-> "now", server |-> "now"],
         uses |-> [client |-> "right", server |-> "right"],
         mode |-> "fast", verify_after_sign |-> FALSE, remode |-> FALSE, tamper |-> "none",
         wipe |-> "no", clock |-> FALSE,
         kems |-> [ext |-> TRUE, client |-> <<"kyber512r3">>,
                   server |-> <<"kyber1024r3", "kyber512r3">>]]

WithKex(x, kex) ==
  [x EXCEPT !.kex = kex, !.conf["client"].tls13 = kex = "tls13",
            !.conf["server"].tls13 = kex = "tls13"]

Staple(signed, status, from, to) ==
  [type |-> "ocsp", signed |-> signed, status |-> status, from |-> from, to |-> to]

\* Chains and trust.
Confs == { Conf, [Conf EXCEPT !.notime = TRUE], [Conf EXCEPT !.prefs = FALSE],
           [Conf EXCEPT !.trust = {"inter"}], [Conf EXCEPT !.trust = {}],
           [Conf EXCEPT !.depth = 2], [Conf EXCEPT !.host = "any"], [Conf EXCEPT !.skip = TRUE],
           [Conf EXCEPT !.skip = TRUE, !.depth = 1, !.cb = "later"],
           [Conf EXCEPT !.trust = {"weak_root"}] }
Chains == { <<l, "inter">> : l \in {"leaf", "by_cn", "shadowed", "expiring", "early",
                                     "weak", "badsig", "sha1"} }
          \cup { <<"self">>, <<"leaf">>, <<"leaf", "inter", "root">> }
ChainPlans ==
  { WithKex([Plan EXCEPT !.chain["server"] = ch, !.conf["client"] = cf, !.clock = TRUE], kex) :
      ch \in Chains, cf \in Confs, kex \in {"tls13", "ecdhe"} }

\* Revocation lists and verdicts.
Lists == { {"of_int", "of_root"}, {"of_int"}, {"leaf_revoked", "of_root"},
           {"of_int", "int_revoked"}, {"ending", "of_root"} }
ListPlans ==
  { [Plan EXCEPT !.chain["server"] = ch, !.clock = TRUE,
                 !.conf["client"] = [Conf EXCEPT !.crl = crl, !.crls = ls, !.checks = k, !.cb = cb]] :
      ch \in {<<"leaf", "inter">>, <<"expiring", "inter">>},
      crl \in {"now", "later", "mixed", "cancel"}, ls \in Lists, k \in BOOLEAN,
      cb \in {"none", "later"} }

\* Stapled responses.
StaplePlans ==
  { WithKex([Plan EXCEPT !.staple = st, !.clock = TRUE,
                         !.conf["client"] = [Conf EXCEPT !.check_ocsp = co, !.skip = sk, !.cb = cb]], kex) :
      st \in { Staple(TRUE, "good", f, t) : f \in {0, 1}, t \in {0, 9, NoNextUpdate} }
             \cup { Staple(TRUE, "revoked", 0, 9), Staple(TRUE, "unknown", 0, 9),
                    Staple(FALSE, "good", 0, 9), [NoStaple EXCEPT !.type = "other"] },
      co \in BOOLEAN, sk \in BOOLEAN, cb \in {"none", "later"}, kex \in {"tls13", "ecdhe"} }
  \cup { [Plan EXCEPT !.conf["client"].cb = cb] : cb \in {"accept", "reject", "cancel"} }

\* Keys.
Uses == { [client |-> "right", server |-> "right"], [client |-> "right", server |-> "wrong"],
          [client |-> "wrong", server |-> "right"], [client |-> "right", server |-> "drop"] }
Wiped(auth, wipe, remode, mode, kex) ==
  [auth |-> auth, wipe |-> wipe, remode |-> remode, mode |-> mode, kex |-> kex]
KeyPlans ==
  { WithKex([Plan EXCEPT !.auth = a, !.keys = [client |-> k, server |-> k], !.uses = u,
                         !.mode = m, !.verify_after_sign = v], kex) :
      a \in BOOLEAN, k \in {"now", "inline", "later"}, u \in Uses, m \in {"fast", "strict"},
      v \in BOOLEAN, kex \in {"tls13", "rsa", "dhe", "ecdhe", "hybrid"} }
  \cup { WithKex([Plan EXCEPT !.auth = x.auth, !.keys = [client |-> "later", server |-> "later"],
                              !.wipe = x.wipe, !.remode = x.remode, !.mode = x.mode], x.kex) :
           x \in { Wiped(TRUE, "careless", FALSE, "fast", "tls13"),
                   Wiped(FALSE, "careless", FALSE, "strict", "tls13"),
                   Wiped(FALSE, "careless", FALSE, "fast", "rsa"),
                   Wiped(FALSE, "drop", FALSE, "fast", "ecdhe"),
                   Wiped(FALSE, "no", TRUE, "fast", "tls13"),
                   Wiped(FALSE, "no", TRUE, "fast", "rsa") } }
  \cup { WithKex([Plan EXCEPT !.auth = TRUE, !.chain["client"] = <<>>], kex) :
           kex \in {"tls13", "ecdhe"} }
  \cup { WithKex([Plan EXCEPT !.auth_method = "ecdsa"], "ecdhe"),
         WithKex([Plan EXCEPT !.kems = [ext |-> FALSE, client |-> <<"kyber1024r3">>,
                                        server |-> <<"kyber1024r3", "kyber512r3">>]], "hybrid") }

\* Messages that do not arrive as they were sent.
TamperPlans ==
  { WithKex([Plan EXCEPT !.keys["server"] = k, !.tamper = t[1]], t[2]) :
      k \in {"now", "inline", "later"},
      t \in { <<"first_share", "dhe">>, <<"first_share", "ecdhe">>, <<"first_share", "hybrid">>,
              <<"second_share", "hybrid">>, <<"ciphertext", "rsa">>, <<"version", "rsa">> } }

MCPlans == ChainPlans \cup ListPlans \cup StaplePlans \cup KeyPlans \cup TamperPlans
=============================================================================
