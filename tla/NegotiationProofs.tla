-------------------------- MODULE NegotiationProofs --------------------------
(***************************************************************************)
(* Proofs about Negotiation: two sides that finish agree, keep within      *)
(* their policies, and have the best they have in common, whatever the     *)
(* Environments.                                                           *)
(*                                                                         *)
(* The properties speak of the last state only; the invariant says, for    *)
(* every state of the two message handlers in between, what has been       *)
(* settled so far.  A side that failed ends the story (Over); otherwise    *)
(* the records have the Shape of connections, and                          *)
(*   Turns         one side waits for the other, and the message under way *)
(*                 is what the other's record says;                        *)
(*   ClientFacts   what the client offers, and the groups it remembers     *)
(*                 from a retry;                                           *)
(*   VersionFacts  how far the server is with the version;                 *)
(*   GroupFacts    the groups it may answer with, a hybrid one exactly     *)
(*                 when both sides have one;                               *)
(*   ChoiceFacts   the suite and the scheme, of its own policy;            *)
(*   AnswerFacts   what the client has taken over of the answer.           *)
(* What the tables promise (TablesAssumption) TLC evaluates on all of      *)
(* them.                                                                   *)
(***************************************************************************)
EXTENDS Negotiation, SequenceTheorems, NaturalsInduction, WellFoundedInduction, TLAPS

(* The fields of a connection, and the states of its message handlers.     *)
Fields ==
    {"mode", "policy", "build", "client_protocol_version", "server_protocol_version",
     "actual_protocol_version", "cipher_suite", "client_curve", "client_kem", "server_curve",
     "server_kem", "hello_retry", "hello", "scheme", "cert", "callback_invoked", "state", "error"}

Choosing == {"SCHEME", "CERT", "PROCESSED"}
Answering == {"HELLO_RETRY", "SERVER_HELLO", "SERVER_AUTH", "DONE"}
Sharing == {"GROUPS", "KEY_SHARE", "SELECT_SHARE", "SETTLE"}
Settled == {"SUITE"} \union Choosing \union Answering
Reading == {"CLIENT_HELLO", "ASYNC_BLOCKED", "PROCESS", "SUITE"} \union Sharing \union Choosing
Parsing == {"SERVER_HELLO", "SH_VERSIONS", "SH_KEY_SHARE", "SH_SUITE", "SH_DONE"}

(* Short names for what both sides go by.                                  *)
Offer == client.client_protocol_version     \* the highest version the client speaks
Chosen == server.actual_protocol_version
CommonKems == AvailableKems(client) \cap AvailableKems(server)
Versions13 == {Unknown} \union (TLS10..TLS13)

(***************************************************************************)
(* The parts of the inductive invariant.                                   *)
(***************************************************************************)
Shape ==
    /\ EnvironmentOK(env)
    /\ DOMAIN client = Fields /\ DOMAIN server = Fields
    /\ client.mode = "client" /\ server.mode = "server"
    /\ client.policy \in DOMAIN security_policy_selection
    /\ server.policy \in DOMAIN security_policy_selection
    /\ client.client_protocol_version \in TLS10..TLS13
    /\ client.actual_protocol_version \in TLS10..TLS13
    /\ client.server_protocol_version \in Versions13
    /\ server.server_protocol_version \in TLS12..TLS13
    /\ server.client_protocol_version \in Versions13
    /\ server.actual_protocol_version \in Versions13
    /\ client.hello_retry \in BOOLEAN /\ server.hello_retry \in BOOLEAN
    /\ client.hello_retry => server.hello_retry

(* The hello on the wire is what the client could send, less the versions  *)
(* where the path removes them.                                            *)
HelloOnWire ==
    /\ wire.type = "CLIENT_HELLO"
    /\ wire.legacy = MinOf(Offer, TLS12)
    /\ \/ wire.versions = {} /\ (Offer = TLS13 => env.strips)
       \/ /\ wire.versions = {v \in SSLv3..TLS13 : P(client).minimum_protocol_version <= v}
          /\ Offer = TLS13
    /\ \A s \in wire.suites : cipher_suite[s].minimum_required_tls_version <= Offer
    /\ wire.groups = s2n_client_supported_groups_send(client)

(* The answer on the wire is what the server has settled.                  *)
AnswerOnWire(random) ==
    /\ wire.type = "SERVER_HELLO"
    /\ wire.random = random
    /\ wire.legacy = MinOf(Chosen, TLS12)
    /\ wire.version = IF Chosen = TLS13 THEN TLS13 ELSE Unknown
    /\ wire.suite = server.cipher_suite
    /\ wire.group = IF Chosen = TLS13 THEN Group(server) ELSE NoGroup

AuthOnWire ==
    /\ wire.type = "SERVER_AUTH"
    /\ wire.cert = server.cert
    /\ wire.scheme = IF Signs(server) THEN server.scheme ELSE "none"
    /\ wire.curve = SentCurve(server)

(* Who waits for whom.                                                     *)
Turns ==
    \/ /\ client.state = "CLIENT_HELLO" /\ server.state = "CLIENT_HELLO" /\ wire = NoMessage
       /\ server.hello_retry = client.hello_retry
    \/ client.state = "SERVER_HELLO" /\ server.state \in Reading /\ HelloOnWire
    \/ /\ client.state = "SERVER_HELLO" /\ wire = NoMessage
       /\ server.state = "SERVER_HELLO" \/ (server.state = "HELLO_RETRY" /\ server.hello_retry)
    \/ client.state \in Parsing /\ server.state = "CLIENT_HELLO" /\ server.hello_retry /\ AnswerOnWire("retry")
    \/ /\ client.state \in Parsing /\ server.state = "SERVER_AUTH"
       /\ AnswerOnWire(s2n_server_add_downgrade_mechanism(server))
    \/ client.state = "SERVER_AUTH" /\ server.state = "SERVER_AUTH" /\ wire = NoMessage
    \/ client.state = "SERVER_AUTH" /\ server.state = "DONE" /\ AuthOnWire
    \/ client.state = "DONE" /\ server.state = "DONE" /\ wire = NoMessage

(* What the client offers, and the groups it remembers.                    *)
ClientFacts ==
    /\ IF client.state = "CLIENT_HELLO" /\ ~client.hello_retry
       THEN Offer = env.client.highest
       ELSE Offer = IF SupportsTLS13(client) THEN env.client.highest ELSE MinOf(env.client.highest, TLS12)
    /\ client.state \notin {"SH_DONE", "SERVER_AUTH", "DONE"} => client.actual_protocol_version = Offer
    /\ client.state \in {"CLIENT_HELLO", "SERVER_HELLO", "SH_VERSIONS"} =>
          client.server_protocol_version = Unknown
             \/ (client.server_protocol_version = TLS13 /\ server.hello_retry)
    /\ client.server_curve \in {NoGroup} \union InList(P(client).ecc_preferences)
    /\ client.server_kem \in {NoGroup} \union InList(P(client).kem_preferences.groups)
    /\ client.state = "CLIENT_HELLO" => client.server_curve = NoGroup \/ client.server_kem = NoGroup
    /\ client.state \in {"CLIENT_HELLO"} \union Parsing =>
          /\ client.server_curve # NoGroup => client.client_kem = NoGroup
          /\ client.state \in {"CLIENT_HELLO", "SERVER_HELLO", "SH_VERSIONS", "SH_KEY_SHARE"} /\ ~client.hello_retry
                => client.server_curve = NoGroup

(* The version, as far as the server has come with it.                     *)
VersionFacts ==
    /\ server.state \in {"ASYNC_BLOCKED", "PROCESS"} => server.client_protocol_version = MinOf(Offer, TLS12)
    /\ server.state = "ASYNC_BLOCKED" => ~server.hello_retry
    /\ IF server.state \in Sharing \union Settled \/ server.hello_retry
       THEN /\ server.server_protocol_version = TLS13 <=> env.server.highest = TLS13 /\ SupportsTLS13(server)
            /\ Chosen = TLS13 => Offer = TLS13 /\ server.server_protocol_version = TLS13
       ELSE Chosen = Unknown /\ server.server_protocol_version = env.server.highest
    /\ server.hello_retry => Chosen = TLS13
    /\ server.state \in Sharing /\ Chosen # TLS13 =>
          /\ server.client_protocol_version = MinOf(Offer, TLS12)
          /\ server.server_protocol_version = TLS13 /\ Offer = TLS13 => env.strips
    /\ server.state \in Settled =>
          /\ Chosen >= P(server).minimum_protocol_version
          /\ Chosen # TLS13 => /\ Chosen = MinOf(Offer, TLS12)
                               /\ server.server_protocol_version = TLS13 /\ Offer = TLS13 => env.strips

(* The groups the server may answer with in TLS1.3.                        *)
GroupFacts ==
    /\ server.state \in {"CLIENT_HELLO", "ASYNC_BLOCKED", "PROCESS"} /\ ~server.hello_retry =>
          server.client_curve = NoGroup /\ server.client_kem = NoGroup
    /\ server.client_curve \in {NoGroup} \union InList(P(server).ecc_preferences)
    /\ server.client_kem \in {NoGroup} \union CommonKems
    /\ Chosen = TLS13 /\ server.state \in {"KEY_SHARE", "SELECT_SHARE", "SETTLE"} \union Settled =>
          /\ server.server_curve \in {NoGroup} \union InList(P(server).ecc_preferences)
          /\ server.server_kem \in {NoGroup} \union CommonKems
          /\ server.server_kem # NoGroup <=> CommonKems # {}
          /\ server.state \in {"SETTLE"} \union Settled => Group(server) # NoGroup

(* The suite and the scheme the server chose.                              *)
ChoiceFacts ==
    /\ server.state \in Choosing \union Answering =>
          /\ server.cipher_suite \in InList(CipherList(P(server)))
          /\ cipher_suite[server.cipher_suite].minimum_required_tls_version <= Chosen
    /\ server.state \in {"CERT", "PROCESSED"} \union Answering /\ Chosen >= TLS12 =>
          server.scheme \in InList(P(server).signature_preferences)

(* What the client has taken over of the final answer.                     *)
AnswerFacts ==
    /\ client.state \in {"SH_KEY_SHARE", "SH_SUITE"} =>
          client.server_protocol_version = IF Chosen = TLS13 THEN TLS13 ELSE Unknown
    /\ client.state \in Parsing \ {"SERVER_HELLO"} /\ server.state = "CLIENT_HELLO" => client.hello_retry
    /\ client.state = "SH_DONE" /\ server.state = "CLIENT_HELLO" =>
          client.actual_protocol_version = Offer /\ client.server_protocol_version = TLS13
    /\ server.state \in {"SERVER_AUTH", "DONE"} =>
          /\ client.state \in {"SH_SUITE", "SH_DONE", "SERVER_AUTH", "DONE"} /\ Chosen = TLS13 =>
                Group(client) = Group(server)
          /\ client.state \in {"SH_DONE", "SERVER_AUTH", "DONE"} =>
                /\ client.actual_protocol_version = Chosen
                /\ client.cipher_suite = server.cipher_suite
                /\ client.cipher_suite \in InList(CipherList(P(client)))
                /\ Chosen >= P(client).minimum_protocol_version
                /\ Chosen # TLS13 => ~(server.server_protocol_version = TLS13 /\ Offer = TLS13)
          /\ client.state = "DONE" =>
                /\ client.cert = server.cert
                /\ Signs(server) => client.scheme = server.scheme
                /\ Signs(client) /\ Chosen >= TLS12 => client.scheme \in InList(P(client).signature_preferences)
                /\ SentCurve(server) # NoGroup => client.server_curve = server.server_curve

Over == IsFailed(client) \/ IsFailed(server)
Facts == Turns /\ ClientFacts /\ VersionFacts /\ GroupFacts /\ ChoiceFacts /\ AnswerFacts
Inv == Over \/ (Shape /\ Facts)

----------------------------------------------------------------------------
(* The tables, from TablesAssumption.                                      *)

Policies == {security_policy_selection[name] : name \in DOMAIN security_policy_selection}

LEMMA PolicyFacts ==
  ASSUME NEW p \in Policies
  PROVE  WellFormed(p) /\ s2n_security_policy_validate_security_rules(p)
         /\ s2n_check_ecc_preferences_curves_list(p.ecc_preferences)
<1>1. WellFormed(p) /\ PolicyIsValid(p)
  BY TablesAssumption DEF Policies, s2n_security_policies_init
<1> QED
  BY <1>1 DEF PolicyIsValid

LEMMA LeastNumber ==
  ASSUME NEW T, T \subseteq Nat, T # {}
  PROVE  \E n \in T : \A m \in T : n <= m
<1>1. IsWellFoundedOn(OpToRel(<, Nat), Nat)
  BY NatLessThanWellFounded
<1>2. PICK n \in T : \A m \in T : ~(<<m, n>> \in OpToRel(<, Nat))
  BY <1>1, WFMin
<1>3. \A m \in T : ~(m < n)
  BY <1>2 DEF OpToRel
<1> QED
  BY <1>3

(* What FirstOf chooses exists: the first index of a set of indices.       *)
LEMMA FirstIndex ==
  ASSUME NEW S, NEW s \in Seq(S), NEW H, H \subseteq DOMAIN s, H # {}
  PROVE  \E i \in H : \A j \in 1..(i - 1) : j \notin H
<1>1. H \subseteq Nat
  OBVIOUS
<1>2. PICK i \in H : \A j \in H : i <= j
  BY <1>1, LeastNumber
<1> QED
  BY <1>1, <1>2

LEMMA ListFacts ==
  ASSUME NEW S, NEW s \in Seq(S)
  PROVE  /\ InList(s) = {s[i] : i \in DOMAIN s}
         /\ InList(s) \subseteq S
         /\ Reverse(s) \in Seq(S)
         /\ InList(Reverse(s)) = InList(s)
<1>1. InList(s) = {s[i] : i \in DOMAIN s}
  BY DEF InList, Range
<1>2. PICK n \in Nat : n = Len(s)
  OBVIOUS
<1>3. DOMAIN s = 1..n /\ s \in [1..n -> S]
  BY <1>2
<1>4. Reverse(s) = [i \in 1..n |-> s[(n - i) + 1]]
  BY <1>2 DEF Reverse
<1>5. Reverse(s) \in [1..n -> S] /\ DOMAIN Reverse(s) = 1..n
  BY <1>3, <1>4
<1>6. InList(Reverse(s)) = {Reverse(s)[i] : i \in 1..n}
  BY <1>5 DEF InList, Range
<1>7. ASSUME NEW i \in 1..n PROVE s[i] \in InList(Reverse(s))
  <2>1. (n - i) + 1 \in 1..n /\ n - ((n - i) + 1) + 1 = i
    BY <1>2
  <2>2. Reverse(s)[(n - i) + 1] = s[i]
    BY <1>4, <2>1
  <2> QED
    BY <1>6, <2>1, <2>2
<1>8. ASSUME NEW i \in 1..n PROVE Reverse(s)[i] \in InList(s)
  <2>1. (n - i) + 1 \in 1..n
    BY <1>2
  <2> QED
    BY <1>1, <1>3, <1>4, <2>1
<1>9. InList(Reverse(s)) = InList(s)
  BY <1>1, <1>3, <1>6, <1>7, <1>8
<1>10. Reverse(s) \in Seq(S)
  BY <1>5, SeqDef
<1> QED
  BY <1>1, <1>3, <1>9, <1>10

(* The preferred curve and the preferred hybrid group.                     *)
LEMMA Preferred ==
  ASSUME NEW c, c.policy \in DOMAIN security_policy_selection, NEW A
  PROVE  /\ \/ PreferredCurve(c, A) = NoGroup /\ A \cap InList(P(c).ecc_preferences) = {}
            \/ PreferredCurve(c, A) # NoGroup /\ PreferredCurve(c, A) \in A \cap InList(P(c).ecc_preferences)
         /\ \/ PreferredKem(c, A) = NoGroup /\ A \cap InList(P(c).kem_preferences.groups) = {}
            \/ PreferredKem(c, A) # NoGroup /\ PreferredKem(c, A) \in A \cap InList(P(c).kem_preferences.groups)
<1>1. WellFormed(P(c))
  BY PolicyFacts DEF P, Policies
<1>2. P(c).ecc_preferences \in Seq(STRING \ {"none"}) /\ P(c).kem_preferences.groups \in Seq(STRING \ {"none"})
  BY <1>1 DEF WellFormed
<1>3. ASSUME NEW s \in Seq(STRING \ {"none"})
      PROVE  LET x == FirstOf(s, LAMBDA g : g \in A)
             IN  (x = "none" /\ A \cap InList(s) = {}) \/ (x # "none" /\ x \in A \cap InList(s))
  <2>1. InList(s) = {s[i] : i \in DOMAIN s} /\ InList(s) \subseteq STRING \ {"none"}
    BY <1>3, ListFacts
  <2> DEFINE H == {i \in DOMAIN s : s[i] \in A}
  <2>2. CASE H = {}
    BY <2>1, <2>2 DEF FirstOf
  <2>3. CASE H # {}
    <3>1. \E i \in H : \A j \in 1..(i - 1) : j \notin H
      BY <1>3, <2>3, FirstIndex
    <3> DEFINE Q(i) == i \in DOMAIN s /\ (s[i] \in A /\ \A j \in 1..(i - 1) : ~(s[j] \in A))
    <3>2. \E i : Q(i)
      <4>1. PICK i \in H : \A j \in 1..(i - 1) : j \notin H
        BY <3>1
      <4>2. \A j \in 1..(i - 1) : j \in DOMAIN s
        BY <4>1
      <4> QED
        BY <4>1, <4>2
    <3>3. Q(CHOOSE i : Q(i))
      BY <3>2
    <3>4. FirstOf(s, LAMBDA g : g \in A) = s[CHOOSE i \in DOMAIN s : s[i] \in A /\ \A j \in 1..(i - 1) : ~(s[j] \in A)]
      BY <2>3 DEF FirstOf
    <3>5. LET k == CHOOSE i \in DOMAIN s : s[i] \in A /\ \A j \in 1..(i - 1) : ~(s[j] \in A)
          IN  k \in DOMAIN s /\ s[k] \in A
      BY <3>2
    <3> QED
      BY <2>1, <3>4, <3>5
  <2> QED
    BY <2>2, <2>3
<1> QED
  BY <1>2, <1>3 DEF PreferredCurve, PreferredKem, NoGroup

(* The suite the server sets is one of its list that it did not skip.      *)
LEMMA SuiteChosen ==
  ASSUME NEW c, c.policy \in DOMAIN security_policy_selection, NEW m
  PROVE  LET d == s2n_set_cipher_as_server(c, m)
         IN  \/ d = Failed(c, "suite") \/ d = Failed(c, "suite changed")
             \/ \E s \in InList(CipherList(P(c))) : Acceptable(c, m, s) /\ d = [c EXCEPT !.cipher_suite = s]
<1>1. PICK list : list \in Seq(STRING \ {"none"}) /\ list = CipherList(P(c))
  BY PolicyFacts DEF P, Policies, WellFormed
<1>2. InList(list) = {list[i] : i \in DOMAIN list}
  BY DEF InList, Range
<1> DEFINE Fits(s) == Acceptable(c, m, s) /\ cipher_suite[s].minimum_required_tls_version <= c.actual_protocol_version
           Boosted(s) == Fits(s) /\ s2n_cipher_suite_uses_chacha20_alg(c.build, s)
           Taken(s) == Acceptable(c, m, s)
<1>3. FirstOf(list, Boosted) = "none" \/ (FirstOf(list, Boosted) \in InList(list) /\ Boosted(FirstOf(list, Boosted)))
  <2> DEFINE H == {i \in DOMAIN list : Boosted(list[i])}
  <2> HIDE DEF Boosted
  <2>1. H # {} => \E i \in DOMAIN list : Boosted(list[i]) /\ \A j \in 1..(i - 1) : ~Boosted(list[j])
    <3>1. H # {} => \E i \in H : \A j \in 1..(i - 1) : j \notin H
      BY <1>1, FirstIndex
    <3>2. \A i \in DOMAIN list : \A j \in 1..(i - 1) : j \in DOMAIN list
      BY <1>1
    <3> QED
      BY <3>1, <3>2
  <2> QED
    BY <1>2, <2>1 DEF FirstOf
<1>4. FirstOf(list, Fits) = "none" \/ (FirstOf(list, Fits) \in InList(list) /\ Fits(FirstOf(list, Fits)))
  <2> DEFINE H == {i \in DOMAIN list : Fits(list[i])}
  <2> HIDE DEF Fits
  <2>1. H # {} => \E i \in DOMAIN list : Fits(list[i]) /\ \A j \in 1..(i - 1) : ~Fits(list[j])
    <3>1. H # {} => \E i \in H : \A j \in 1..(i - 1) : j \notin H
      BY <1>1, FirstIndex
    <3>2. \A i \in DOMAIN list : \A j \in 1..(i - 1) : j \in DOMAIN list
      BY <1>1
    <3> QED
      BY <3>1, <3>2
  <2> QED
    BY <1>2, <2>1 DEF FirstOf
<1>5. FirstOf(list, Taken) = "none" \/ (FirstOf(list, Taken) \in InList(list) /\ Taken(FirstOf(list, Taken)))
  <2> DEFINE H == {i \in DOMAIN list : Taken(list[i])}
  <2> HIDE DEF Taken
  <2>1. H # {} => \E i \in DOMAIN list : Taken(list[i]) /\ \A j \in 1..(i - 1) : ~Taken(list[j])
    <3>1. H # {} => \E i \in H : \A j \in 1..(i - 1) : j \notin H
      BY <1>1, FirstIndex
    <3>2. \A i \in DOMAIN list : \A j \in 1..(i - 1) : j \in DOMAIN list
      BY <1>1
    <3> QED
      BY <3>1, <3>2
  <2> QED
    BY <1>2, <2>1 DEF FirstOf
<1>6. PICK suite : suite = IF s2n_validate_chacha20_boosting(c, m) /\ \E s \in InList(list) : Boosted(s)
                           THEN FirstOf(list, Boosted)
                           ELSE IF \E s \in InList(list) : Fits(s) THEN FirstOf(list, Fits)
                           ELSE FirstOf(list, Taken)
  OBVIOUS
<1>7. suite = "none" \/ (suite \in InList(list) /\ Acceptable(c, m, suite))
  BY <1>3, <1>4, <1>5, <1>6
<1>8. s2n_set_cipher_as_server(c, m) =
        IF suite = "none" THEN Failed(c, "suite")
        ELSE IF c.hello.type # "none" /\ c.hello_retry /\ suite # c.cipher_suite THEN Failed(c, "suite changed")
        ELSE [c EXCEPT !.cipher_suite = suite]
  BY <1>1, <1>6 DEF s2n_set_cipher_as_server, SetCipher
<1> QED
  BY <1>1, <1>7, <1>8

(* The scheme the server signs with is one of its list, from TLS1.2 on.    *)
LEMMA SchemeChosen ==
  ASSUME NEW c, c.policy \in DOMAIN security_policy_selection, NEW m
  PROVE  LET d == s2n_signature_algorithm_select(c, m)
         IN  \/ d = Failed(c, "signature")
             \/ \E s : /\ d = [c EXCEPT !.scheme = s]
                       /\ ~(c.actual_protocol_version < TLS12) => s \in InList(P(c).signature_preferences)
<1>1. PICK prefs : prefs \in Seq(STRING \ {"none"}) /\ prefs = P(c).signature_preferences
  BY PolicyFacts DEF P, Policies, WellFormed
<1>2. InList(prefs) = {prefs[i] : i \in DOMAIN prefs}
  BY DEF InList, Range
<1>3. PICK back : back = Reverse(prefs)
  OBVIOUS
<1>4. back \in Seq(STRING \ {"none"}) /\ InList(back) = InList(prefs)
  BY <1>1, <1>3, ListFacts
<1>5. InList(back) = {back[i] : i \in DOMAIN back}
  BY DEF InList, Range
<1> DEFINE Usable(s) == /\ s2n_signature_scheme_valid_for_recv(c, s)
                        /\ s2n_certs_exist_for_sig_scheme(c, m, s)
                        /\ s2n_is_sig_alg_valid_for_cipher_suite(c, s)
           Listed(s) == s \in m.schemes /\ Usable(s)
           Default(s) == s \in {"ecdsa_sha1", "rsa_pkcs1_sha1"} /\ Usable(s)
<1> HIDE DEF Usable, Listed, Default
<1>6. FirstOf(prefs, Listed) = "none" \/ FirstOf(prefs, Listed) \in InList(prefs)
  <2> DEFINE H == {i \in DOMAIN prefs : Listed(prefs[i])}
  <2>1. H # {} => \E i \in DOMAIN prefs : Listed(prefs[i]) /\ \A j \in 1..(i - 1) : ~Listed(prefs[j])
    <3>1. H # {} => \E i \in H : \A j \in 1..(i - 1) : j \notin H
      BY <1>1, <1>4, FirstIndex
    <3>2. \A i \in DOMAIN prefs : \A j \in 1..(i - 1) : j \in DOMAIN prefs
      BY <1>1, <1>4
    <3> QED
      BY <3>1, <3>2
  <2> QED
    BY <1>2, <1>4, <1>5, <2>1 DEF FirstOf
<1>7. FirstOf(back, Default) = "none" \/ FirstOf(back, Default) \in InList(prefs)
  <2> DEFINE H == {i \in DOMAIN back : Default(back[i])}
  <2>1. H # {} => \E i \in DOMAIN back : Default(back[i]) /\ \A j \in 1..(i - 1) : ~Default(back[j])
    <3>1. H # {} => \E i \in H : \A j \in 1..(i - 1) : j \notin H
      BY <1>1, <1>4, FirstIndex
    <3>2. \A i \in DOMAIN back : \A j \in 1..(i - 1) : j \in DOMAIN back
      BY <1>1, <1>4
    <3> QED
      BY <3>1, <3>2
  <2> QED
    BY <1>2, <1>4, <1>5, <2>1 DEF FirstOf
<1>8. FirstOf(prefs, Usable) = "none" \/ FirstOf(prefs, Usable) \in InList(prefs)
  <2> DEFINE H == {i \in DOMAIN prefs : Usable(prefs[i])}
  <2>1. H # {} => \E i \in DOMAIN prefs : Usable(prefs[i]) /\ \A j \in 1..(i - 1) : ~Usable(prefs[j])
    <3>1. H # {} => \E i \in H : \A j \in 1..(i - 1) : j \notin H
      BY <1>1, <1>4, FirstIndex
    <3>2. \A i \in DOMAIN prefs : \A j \in 1..(i - 1) : j \in DOMAIN prefs
      BY <1>1, <1>4
    <3> QED
      BY <3>1, <3>2
  <2> QED
    BY <1>2, <1>4, <1>5, <2>1 DEF FirstOf
<1>9. PICK best : best = IF \E s \in InList(prefs) : Listed(s) THEN FirstOf(prefs, Listed)
                         ELSE IF \E s \in InList(prefs) : Default(s) THEN FirstOf(back, Default)
                         ELSE FirstOf(prefs, Usable)
  OBVIOUS
<1>10. best = "none" \/ best \in InList(prefs)
  BY <1>6, <1>7, <1>8, <1>9
<1>11. CASE c.actual_protocol_version < TLS12
  BY <1>11 DEF s2n_signature_algorithm_select
<1>12. CASE ~(c.actual_protocol_version < TLS12)
  <2>1. s2n_signature_algorithm_select(c, m) =
          IF best = "none" THEN Failed(c, "signature") ELSE [c EXCEPT !.scheme = best]
    BY <1>1, <1>3, <1>9, <1>12 DEF s2n_signature_algorithm_select, Usable, Listed, Default
  <2> QED
    BY <1>1, <1>10, <2>1
<1> QED
  BY <1>11, <1>12

----------------------------------------------------------------------------
(* A step leaves the policies and the builds of both sides alone.          *)
SameSides ==
    /\ env' = env
    /\ client'.mode = client.mode /\ client'.policy = client.policy /\ client'.build = client.build
    /\ server'.mode = server.mode /\ server'.policy = server.policy /\ server'.build = server.build

LEMMA Sides ==
  ASSUME SameSides
  PROVE  /\ P(client)' = P(client) /\ P(server)' = P(server)
         /\ (SupportsTLS13(client)' <=> SupportsTLS13(client))
         /\ (SupportsTLS13(server)' <=> SupportsTLS13(server))
         /\ AvailableKems(client)' = AvailableKems(client)
         /\ AvailableKems(server)' = AvailableKems(server)
         /\ CommonKems' = CommonKems
<1>1. P(client)' = P(client) /\ P(server)' = P(server)
  BY DEF SameSides, P
<1>2. (SupportsTLS13(client)' <=> SupportsTLS13(client)) /\ (SupportsTLS13(server)' <=> SupportsTLS13(server))
  BY <1>1 DEF SameSides, SupportsTLS13, s2n_connection_supports_tls13, ServerCerts
<1>3. AvailableKems(client)' = AvailableKems(client) /\ AvailableKems(server)' = AvailableKems(server)
  BY <1>1 DEF SameSides, AvailableKems
<1> QED
  BY <1>1, <1>2, <1>3 DEF CommonKems

LEMMA PolicyOf ==
  ASSUME NEW c, c.policy \in DOMAIN security_policy_selection
  PROVE  /\ WellFormed(P(c)) /\ s2n_security_policy_validate_security_rules(P(c))
         /\ s2n_check_ecc_preferences_curves_list(P(c).ecc_preferences)
         /\ P(c).minimum_protocol_version \in SSLv3..TLS13
         /\ AvailableKems(c) \subseteq InList(P(c).kem_preferences.groups)
         /\ NoGroup \notin InList(P(c).kem_preferences.groups)
         /\ NoGroup \notin InList(P(c).ecc_preferences)
         /\ InList(P(c).kem_preferences.groups) \cap {"secp256r1", "secp384r1", "secp521r1", "x25519"} = {}
         /\ InList(P(c).ecc_preferences) \subseteq {"secp256r1", "secp384r1", "secp521r1", "x25519"}
<1>1. WellFormed(P(c)) /\ s2n_security_policy_validate_security_rules(P(c))
      /\ s2n_check_ecc_preferences_curves_list(P(c).ecc_preferences)
  BY PolicyFacts DEF P, Policies
<1>2. P(c).ecc_preferences \in Seq(STRING \ {"none"}) /\ P(c).kem_preferences.groups \in Seq(STRING \ {"none"})
  BY <1>1 DEF WellFormed
<1>3. InList(P(c).ecc_preferences) \subseteq STRING \ {"none"}
  BY <1>2, ListFacts
<1>4. InList(P(c).kem_preferences.groups) \subseteq STRING \ {"none"}
  BY <1>2, ListFacts
<1> QED
  BY <1>1, <1>3, <1>4 DEF WellFormed, AvailableKems, NoGroup, s2n_check_ecc_preferences_curves_list

(* While the server handles a hello, only its own record changes.          *)
LEMMA Advance ==
  ASSUME Shape, Facts, NEW d, NEW to \in Reading \ {"CLIENT_HELLO"},
         server.state \in Reading \ {"CLIENT_HELLO"}, UNCHANGED <<env, client, wire>>,
         DOMAIN d = Fields, d.mode = server.mode, d.policy = server.policy, d.build = server.build,
         server' = [d EXCEPT !.state = to],
         server.hello_retry => d.hello_retry, d.hello_retry \in BOOLEAN,
         d.server_protocol_version \in TLS12..TLS13,
         d.client_protocol_version \in Versions13, d.actual_protocol_version \in Versions13
  PROVE  /\ Shape' /\ Turns' /\ ClientFacts' /\ AnswerFacts' /\ SameSides
         /\ server'.state = to /\ \A f \in Fields \ {"state"} : server'[f] = d[f]
<1>1. /\ server'.state = to /\ DOMAIN server' = Fields
      /\ \A f \in Fields \ {"state"} : server'[f] = d[f]
  BY DEF Fields
<1>2. /\ server'.mode = d.mode /\ server'.policy = d.policy /\ server'.build = d.build
      /\ server'.hello_retry = d.hello_retry
      /\ server'.server_protocol_version = d.server_protocol_version
      /\ server'.client_protocol_version = d.client_protocol_version
      /\ server'.actual_protocol_version = d.actual_protocol_version
  BY <1>1 DEF Fields
<1>3. SameSides
  BY <1>2 DEF SameSides
<1>4. Shape'
  BY <1>1, <1>2, <1>3 DEF Shape, EnvironmentOK
<1>5. client.state = "SERVER_HELLO" /\ HelloOnWire
  BY DEF Facts, Turns, Reading, Sharing, Choosing
<1>6. HelloOnWire'
  BY <1>5 DEF HelloOnWire, Offer, P, s2n_client_supported_groups_send, Version, AvailableKems
<1>7. Turns'
  BY <1>1, <1>5, <1>6 DEF Turns
<1>8. ClientFacts'
  <2>1. /\ P(client)' = P(client) /\ (SupportsTLS13(client)' <=> SupportsTLS13(client)) /\ Offer' = Offer
        /\ env' = env /\ client' = client
    BY <1>3, Sides DEF Offer
  <2>2. server.hello_retry => server'.hello_retry
    BY <1>2
  <2> QED
    BY <2>1, <2>2 DEF Facts, ClientFacts
<1>9. AnswerFacts'
  BY <1>1, <1>5 DEF AnswerFacts, Reading, Sharing, Choosing
<1> QED
  BY <1>1, <1>3, <1>4, <1>7, <1>8, <1>9

----------------------------------------------------------------------------
(* The server reads the hello.                                             *)

LEMMA HighestIs ==
  ASSUME NEW S, S \subseteq SSLv3..TLS13, TLS13 \in S
  PROVE  Max(S) = TLS13
<1>1. \E x \in S : \A y \in S : x >= y
  BY DEF SSLv3, TLS13
<1>2. Max(S) \in S /\ \A y \in S : Max(S) >= y
  BY <1>1 DEF Max
<1>3. Max(S) \in SSLv3..TLS13 /\ Max(S) >= TLS13
  BY <1>2
<1> QED
  BY <1>3 DEF SSLv3, TLS13

LEMMA ProcessVersionsStep ==
  ASSUME Shape, Facts, ProcessVersions
  PROVE  Inv'
<1> USE DEF SSLv3, TLS10, TLS11, TLS12, TLS13, Unknown, MinOf
<1> DEFINE c1 == CapServer(server)
           c2 == DefaultCurve(c1)
<1>1. PICK d : /\ d = s2n_client_supported_versions_recv(c2, wire)
               /\ server' = IF IsFailed(d) THEN d ELSE [d EXCEPT !.state = "GROUPS"]
  BY DEF ProcessVersions, ServerStep
<1>2. server.state = "PROCESS" /\ UNCHANGED <<env, client, wire>>
  BY DEF ProcessVersions, ServerStep
<1>3. CASE IsFailed(d)
  BY <1>1, <1>3 DEF Inv, Over, IsFailed
<1>4. CASE ~IsFailed(d)
  <2>1. /\ DOMAIN c1 = Fields
        /\ \A f \in Fields \ {"server_protocol_version", "actual_protocol_version"} : c1[f] = server[f]
        /\ SupportsTLS13(server) => c1 = server
        /\ ~SupportsTLS13(server) => c1.server_protocol_version = TLS12 /\ c1.actual_protocol_version = TLS12
    <3>1. DOMAIN server = Fields /\ server.server_protocol_version \in TLS12..TLS13
      BY DEF Shape
    <3>2. CASE SupportsTLS13(server)
      BY <3>1, <3>2 DEF CapServer
    <3>3. CASE ~SupportsTLS13(server)
      <4>1. c1 = [server EXCEPT !.server_protocol_version = MinOf(server.server_protocol_version, TLS12),
                                !.actual_protocol_version = MinOf(server.server_protocol_version, TLS12)]
        BY <3>3 DEF CapServer
      <4>2. MinOf(server.server_protocol_version, TLS12) = TLS12
        BY <3>1
      <4> QED
        BY <3>1, <3>3, <4>1, <4>2 DEF Fields
    <3> QED
      BY <3>2, <3>3
  <2> HIDE DEF c1
  <2>2. /\ DOMAIN c2 = Fields
        /\ \A f \in Fields \ {"server_curve"} : c2[f] = c1[f]
    BY <2>1 DEF DefaultCurve, Fields
  <2> HIDE DEF c2
  <2>3. /\ c2.mode = "server" /\ c2.policy = server.policy /\ c2.build = server.build
        /\ c2.hello_retry = server.hello_retry
        /\ c2.client_protocol_version = server.client_protocol_version
        /\ c2.client_curve = server.client_curve /\ c2.client_kem = server.client_kem
        /\ c2.server_protocol_version = c1.server_protocol_version
        /\ c2.actual_protocol_version = c1.actual_protocol_version
    BY <2>1, <2>2 DEF Fields, Shape
  <2>4. HelloOnWire /\ VersionFacts /\ GroupFacts
    BY <1>2 DEF Facts, Turns, Parsing
  <2>5. /\ server.server_protocol_version \in TLS12..TLS13 /\ env.server.highest \in TLS12..TLS13
        /\ server.actual_protocol_version \in Versions13 /\ Offer \in TLS10..TLS13
        /\ server.hello_retry \in BOOLEAN /\ server.client_protocol_version \in Versions13
    BY DEF Shape, EnvironmentOK, Offer
  <2>6. /\ server.hello_retry => /\ Chosen = TLS13 /\ server.server_protocol_version = TLS13 /\ Offer = TLS13
                                 /\ SupportsTLS13(server) /\ env.server.highest = TLS13
        /\ ~server.hello_retry => Chosen = Unknown /\ server.server_protocol_version = env.server.highest
        /\ server.client_protocol_version = MinOf(Offer, TLS12)
    BY <1>2, <2>4 DEF VersionFacts, Sharing, Settled, Choosing, Answering
  <2>7. /\ c1.server_protocol_version = TLS13 <=> env.server.highest = TLS13 /\ SupportsTLS13(server)
        /\ c1.server_protocol_version \in TLS12..TLS13
        /\ Version(c2) >= TLS13 => c1.server_protocol_version = TLS13
        /\ server.hello_retry => c1.actual_protocol_version = TLS13
        /\ ~server.hello_retry => c1.actual_protocol_version \in {Unknown, TLS12}
        /\ ~server.hello_retry /\ c1.server_protocol_version = TLS13 => Version(c2) >= TLS13
    BY <2>1, <2>3, <2>5, <2>6 DEF Version, Chosen
  <2>10. Version(c2) \in Int
    <3>1. c1.actual_protocol_version \in {Unknown, TLS12, TLS13}
      BY <2>5, <2>7
    <3>2. c1.server_protocol_version \in Int
      BY <2>7
    <3> QED
      BY <2>3, <3>1, <3>2 DEF Version
  <2>8. CASE wire.versions = {} \/ Version(c2) < TLS13
    <3>1. d = c2
      BY <1>1, <2>8 DEF s2n_client_supported_versions_recv
    <3>2. server' = [d EXCEPT !.state = "GROUPS"]
      BY <1>1, <1>4
    <3>3. /\ Shape' /\ Turns' /\ ClientFacts' /\ AnswerFacts' /\ SameSides
          /\ server'.state = "GROUPS" /\ \A f \in Fields \ {"state"} : server'[f] = d[f]
      <4>1. c2.mode = server.mode /\ c2.actual_protocol_version \in Versions13
        BY <2>3, <2>7 DEF Shape, Versions13
      <4>2. "GROUPS" \in Reading \ {"CLIENT_HELLO"} /\ server.state \in Reading \ {"CLIENT_HELLO"}
        BY <1>2 DEF Reading, Sharing
      <4> QED
        BY <1>2, <2>2, <2>3, <2>5, <2>7, <3>1, <3>2, <4>1, <4>2, Advance
    <3>4. /\ server'.hello_retry = server.hello_retry
          /\ server'.client_protocol_version = server.client_protocol_version
          /\ server'.client_curve = server.client_curve /\ server'.client_kem = server.client_kem
          /\ server'.server_protocol_version = c1.server_protocol_version
          /\ server'.actual_protocol_version = c1.actual_protocol_version
      BY <2>3, <3>1, <3>3 DEF Fields
    <3>5. /\ Offer' = Offer /\ env' = env /\ (SupportsTLS13(server)' <=> SupportsTLS13(server))
          /\ P(server)' = P(server) /\ CommonKems' = CommonKems
      BY <1>2, <3>3, Sides DEF Offer
    <3>6. c1.server_protocol_version = TLS13 /\ Offer = TLS13 /\ ~server.hello_retry => env.strips
      <4>1. P(client).minimum_protocol_version <= TLS13
        BY PolicyOf DEF Shape
      <4>2. TLS13 \in {v \in SSLv3..TLS13 : P(client).minimum_protocol_version <= v}
        BY <4>1
      <4> QED
        BY <2>4, <2>7, <2>8, <2>10, <4>2 DEF HelloOnWire
    <3>7. VersionFacts'
      BY <2>6, <2>7, <3>3, <3>4, <3>5, <3>6 DEF VersionFacts, Chosen, Sharing, Settled, Choosing, Answering
    <3>8. GroupFacts' /\ ChoiceFacts'
      BY <2>4, <3>3, <3>4, <3>5 DEF GroupFacts, ChoiceFacts, Settled, Choosing, Answering
    <3> QED
      BY <3>3, <3>7, <3>8 DEF Inv, Facts
  <2>9. CASE ~(wire.versions = {} \/ Version(c2) < TLS13)
    <3> DEFINE common == {v \in wire.versions : P(c2).minimum_protocol_version <= v /\ v <= c2.server_protocol_version}
    <3>2. /\ Offer = TLS13 /\ c1.server_protocol_version = TLS13
          /\ wire.versions = {v \in SSLv3..TLS13 : P(client).minimum_protocol_version <= v}
      BY <2>4, <2>7, <2>9, <2>10 DEF HelloOnWire
    <3>3. P(client).minimum_protocol_version \in SSLv3..TLS13 /\ P(c2).minimum_protocol_version \in SSLv3..TLS13
      BY <2>3, PolicyOf DEF Shape
    <3>4. Max(wire.versions) = TLS13 /\ Max(common) = TLS13 /\ common # {}
      <4>1. TLS13 \in wire.versions /\ TLS13 \in common /\ wire.versions \subseteq SSLv3..TLS13 /\ common \subseteq SSLv3..TLS13
        BY <2>3, <3>2, <3>3
      <4> QED
        BY <4>1, HighestIs
    <3> HIDE DEF common
    <3>5. d = [c2 EXCEPT !.client_protocol_version = TLS13, !.actual_protocol_version = TLS13]
      <4> DEFINE e == [c2 EXCEPT !.client_protocol_version = TLS13, !.actual_protocol_version = TLS13]
      <4>1. e.actual_protocol_version = TLS13
        BY <2>2 DEF Fields
      <4> HIDE DEF e
      <4>2. d = IF common = {} THEN Failed(c2, "version")
                ELSE IF c2.hello_retry /\ e.actual_protocol_version # TLS13 THEN Failed(c2, "version") ELSE e
        BY <1>1, <2>9, <3>4 DEF s2n_client_supported_versions_recv, common, e
      <4> QED
        BY <3>4, <4>1, <4>2 DEF e
    <3>6. /\ DOMAIN d = Fields /\ d.actual_protocol_version = TLS13 /\ d.client_protocol_version = TLS13
          /\ \A f \in Fields \ {"client_protocol_version", "actual_protocol_version"} : d[f] = c2[f]
      BY <2>2, <3>5 DEF Fields
    <3>7. /\ d.mode = server.mode /\ d.policy = server.policy /\ d.build = server.build
          /\ d.hello_retry = server.hello_retry
          /\ d.client_curve = server.client_curve /\ d.client_kem = server.client_kem
          /\ d.server_protocol_version = TLS13
      BY <2>3, <3>2, <3>6 DEF Fields, Shape
    <3>8. /\ Shape' /\ Turns' /\ ClientFacts' /\ AnswerFacts' /\ SameSides
          /\ server'.state = "GROUPS" /\ \A f \in Fields \ {"state"} : server'[f] = d[f]
      <4>1. server' = [d EXCEPT !.state = "GROUPS"]
        BY <1>1, <1>4
      <4>2. TLS13 \in Versions13 /\ TLS13 \in TLS12..TLS13
        BY DEF Versions13
      <4>3. "GROUPS" \in Reading \ {"CLIENT_HELLO"} /\ server.state \in Reading \ {"CLIENT_HELLO"}
        BY <1>2 DEF Reading, Sharing
      <4> QED
        BY <1>2, <2>5, <3>6, <3>7, <4>1, <4>2, <4>3, Advance
    <3>9. /\ server'.hello_retry = server.hello_retry
          /\ server'.client_curve = server.client_curve /\ server'.client_kem = server.client_kem
          /\ server'.server_protocol_version = TLS13 /\ server'.actual_protocol_version = TLS13
      BY <3>6, <3>7, <3>8 DEF Fields
    <3>10. /\ Offer' = Offer /\ env' = env /\ (SupportsTLS13(server)' <=> SupportsTLS13(server))
           /\ P(server)' = P(server) /\ CommonKems' = CommonKems
      BY <1>2, <3>8, Sides DEF Offer
    <3>11. VersionFacts'
      BY <2>7, <3>2, <3>8, <3>9, <3>10 DEF VersionFacts, Chosen, Sharing, Settled, Choosing, Answering
    <3>12. GroupFacts' /\ ChoiceFacts'
      BY <2>4, <3>8, <3>9, <3>10 DEF GroupFacts, ChoiceFacts, Settled, Choosing, Answering
    <3> QED
      BY <3>8, <3>11, <3>12 DEF Inv, Facts
  <2> QED
    BY <2>8, <2>9
<1> QED
  BY <1>3, <1>4

(* A step that does not touch the versions.                                *)
LEMMA VersionsKept ==
  ASSUME VersionFacts, SameSides, client' = client,
         server'.client_protocol_version = server.client_protocol_version,
         server'.server_protocol_version = server.server_protocol_version,
         server'.actual_protocol_version = server.actual_protocol_version,
         \/ server.state \in Sharing /\ server'.state \in Sharing
         \/ server.state \in Settled /\ server'.state \in Settled,
         server'.hello_retry => server.hello_retry \/ Chosen = TLS13
  PROVE  VersionFacts'
<1>1. /\ P(server)' = P(server) /\ (SupportsTLS13(server)' <=> SupportsTLS13(server))
      /\ Offer' = Offer /\ Chosen' = Chosen /\ env' = env
  BY Sides DEF Offer, Chosen, SameSides
<1>2. server'.state \notin {"ASYNC_BLOCKED", "PROCESS"}
  BY DEF Sharing, Settled, Choosing, Answering
<1>3. CASE server.state \in Sharing /\ server'.state \in Sharing
  <2>1. server.state \notin Settled /\ server'.state \notin Settled
    BY <1>3 DEF Sharing, Settled, Choosing, Answering
  <2> QED
    BY <1>1, <1>2, <1>3, <2>1 DEF VersionFacts
<1>4. CASE server.state \in Settled /\ server'.state \in Settled
  <2>1. server.state \notin Sharing /\ server'.state \notin Sharing
    BY <1>4 DEF Sharing, Settled, Choosing, Answering
  <2> QED
    BY <1>1, <1>2, <1>4, <2>1 DEF VersionFacts
<1> QED
  BY <1>3, <1>4

(* In TLS1.3 the groups of the hello tell the server what both sides have. *)
LEMMA GroupsOffered ==
  ASSUME Shape, Facts, client.state = "SERVER_HELLO", HelloOnWire, Chosen = TLS13, Offer = TLS13
  PROVE  wire.groups # {} /\ MutualKems(server, wire) = CommonKems
<1>1. ClientFacts /\ client.policy \in DOMAIN security_policy_selection
      /\ server.policy \in DOMAIN security_policy_selection
  BY DEF Facts, Shape
<1>2. SupportsTLS13(client) /\ client.actual_protocol_version = TLS13
  BY <1>1 DEF ClientFacts, MinOf, TLS12, TLS13, Shape, EnvironmentOK, TLS10
<1>3. s2n_ecc_is_extension_required(P(client)) /\ InList(P(client).ecc_preferences) # {}
  <2>1. s2n_security_policy_supports_tls13(P(client))
    BY <1>2 DEF SupportsTLS13
  <2>2. WellFormed(P(client))
    BY <1>1, PolicyOf
  <2> QED
    BY <2>1, <2>2 DEF WellFormed, s2n_security_policy_supports_tls13, s2n_ecc_is_extension_required,
                      s2n_cipher_suite_requires_ecc_extension
<1>4. Version(client) >= TLS13 /\ Version(server) >= TLS13
  BY <1>2 DEF Version, Unknown, TLS13, Chosen
<1>5. wire.groups = (IF s2n_pq_is_enabled(client.build) THEN AvailableKems(client) ELSE {})
                    \union InList(P(client).ecc_preferences)
  BY <1>3, <1>4 DEF HelloOnWire, s2n_client_supported_groups_send
<1>6. ~s2n_pq_is_enabled(client.build) => AvailableKems(client) = {}
  BY DEF AvailableKems, s2n_kem_group_is_available, s2n_pq_is_enabled
<1>7. ~s2n_pq_is_enabled(server.build) => AvailableKems(server) = {}
  BY DEF AvailableKems, s2n_kem_group_is_available, s2n_pq_is_enabled
<1>8. AvailableKems(server) \cap InList(P(client).ecc_preferences) = {}
  BY <1>1, PolicyOf
<1>9. wire.groups = AvailableKems(client) \union InList(P(client).ecc_preferences)
  BY <1>5, <1>6
<1> QED
  BY <1>3, <1>4, <1>7, <1>8, <1>9 DEF MutualKems, CommonKems

LEMMA ProcessGroupsStep ==
  ASSUME Shape, Facts, ProcessGroups
  PROVE  Inv'
<1>1. PICK d : /\ d = s2n_client_supported_groups_recv(server, wire)
               /\ server' = IF IsFailed(d) THEN d ELSE [d EXCEPT !.state = "KEY_SHARE"]
  BY DEF ProcessGroups, ServerStep
<1>2. server.state = "GROUPS" /\ UNCHANGED <<env, client, wire>>
  BY DEF ProcessGroups, ServerStep
<1>3. client.state = "SERVER_HELLO" /\ HelloOnWire /\ VersionFacts /\ GroupFacts
  BY <1>2 DEF Facts, Turns
<1>4. /\ DOMAIN d = Fields /\ \A f \in Fields \ {"server_kem", "server_curve"} : d[f] = server[f]
      /\ \/ wire.groups = {}
         \/ /\ d.server_kem = PreferredKem(server, MutualKems(server, wire))
            /\ d.server_curve = IF d.server_kem = NoGroup
                                THEN PreferredCurve(server, MutualCurves(server, wire)) ELSE NoGroup
  <2>1. DOMAIN server = Fields
    BY DEF Shape
  <2> QED
    BY <1>1, <2>1 DEF s2n_client_supported_groups_recv, Fields
<1>5. /\ d.mode = server.mode /\ d.policy = server.policy /\ d.build = server.build
      /\ d.hello_retry = server.hello_retry /\ d.state = server.state
      /\ d.client_protocol_version = server.client_protocol_version
      /\ d.server_protocol_version = server.server_protocol_version
      /\ d.actual_protocol_version = server.actual_protocol_version
      /\ d.client_curve = server.client_curve /\ d.client_kem = server.client_kem
  BY <1>4 DEF Fields
<1>6. server' = [d EXCEPT !.state = "KEY_SHARE"]
  BY <1>1, <1>2, <1>5 DEF IsFailed
<1>7. /\ Shape' /\ Turns' /\ ClientFacts' /\ AnswerFacts' /\ SameSides
      /\ server'.state = "KEY_SHARE" /\ \A f \in Fields \ {"state"} : server'[f] = d[f]
  <2>1. "KEY_SHARE" \in Reading \ {"CLIENT_HELLO"} /\ server.state \in Reading \ {"CLIENT_HELLO"}
    BY <1>2 DEF Reading, Sharing
  <2>2. /\ server.hello_retry \in BOOLEAN /\ server.server_protocol_version \in TLS12..TLS13
        /\ server.client_protocol_version \in Versions13 /\ server.actual_protocol_version \in Versions13
    BY DEF Shape
  <2> QED
    BY <1>2, <1>4, <1>5, <1>6, <2>1, <2>2, Advance
<1>8. /\ server'.hello_retry = server.hello_retry
      /\ server'.client_protocol_version = server.client_protocol_version
      /\ server'.server_protocol_version = server.server_protocol_version
      /\ server'.actual_protocol_version = server.actual_protocol_version
      /\ server'.client_curve = server.client_curve /\ server'.client_kem = server.client_kem
      /\ server'.server_curve = d.server_curve /\ server'.server_kem = d.server_kem
  BY <1>5, <1>7 DEF Fields
<1>9. VersionFacts'
  <2>1. server.state \in Sharing /\ server'.state \in Sharing
    BY <1>2, <1>7 DEF Sharing
  <2> QED
    BY <1>2, <1>3, <1>7, <1>8, <2>1, VersionsKept
<1>10. GroupFacts'
  <2>1. CommonKems' = CommonKems /\ P(server)' = P(server) /\ Chosen' = Chosen
    BY <1>7, <1>8, Sides DEF Chosen
  <2>2. server.client_curve \in {NoGroup} \union InList(P(server).ecc_preferences)
        /\ server.client_kem \in {NoGroup} \union CommonKems
    BY <1>3 DEF GroupFacts
  <2>3. ASSUME Chosen = TLS13
        PROVE  /\ server'.server_curve \in {NoGroup} \union InList(P(server).ecc_preferences)
               /\ server'.server_kem \in {NoGroup} \union CommonKems
               /\ server'.server_kem # NoGroup <=> CommonKems # {}
    <3>1. Offer = TLS13
      BY <1>2, <1>3, <2>3 DEF VersionFacts, Sharing
    <3>2. wire.groups # {} /\ MutualKems(server, wire) = CommonKems
      BY <1>3, <2>3, <3>1, GroupsOffered
    <3>3. server.policy \in DOMAIN security_policy_selection
      BY DEF Shape
    <3>4. CommonKems \subseteq InList(P(server).kem_preferences.groups)
      BY <3>3, PolicyOf DEF CommonKems
    <3>5. \/ d.server_kem = NoGroup /\ CommonKems \cap InList(P(server).kem_preferences.groups) = {}
          \/ d.server_kem # NoGroup /\ d.server_kem \in CommonKems
      BY <1>4, <3>2, <3>3, Preferred
    <3>6. d.server_curve \in {NoGroup} \union InList(P(server).ecc_preferences)
      BY <1>4, <3>2, <3>3, Preferred
    <3> QED
      BY <1>8, <3>4, <3>5, <3>6
  <2> QED
    BY <1>7, <1>8, <2>1, <2>2, <2>3 DEF GroupFacts, Settled, Choosing, Answering
<1>11. ChoiceFacts'
  BY <1>7 DEF ChoiceFacts, Choosing, Answering
<1> QED
  BY <1>7, <1>9, <1>10, <1>11 DEF Inv, Facts

LEMMA ProcessKeyShareStep ==
  ASSUME Shape, Facts, ProcessKeyShare
  PROVE  Inv'
<1>1. PICK d : /\ d = s2n_client_key_share_recv(server, wire)
               /\ server' = IF IsFailed(d) THEN d ELSE [d EXCEPT !.state = "SELECT_SHARE"]
  BY DEF ProcessKeyShare, ServerStep
<1>2. server.state = "KEY_SHARE" /\ UNCHANGED <<env, client, wire>>
  BY DEF ProcessKeyShare, ServerStep
<1>3. client.state = "SERVER_HELLO" /\ HelloOnWire /\ VersionFacts /\ GroupFacts /\ ChoiceFacts
  BY <1>2 DEF Facts, Turns
<1>4. CASE IsFailed(d)
  BY <1>1, <1>4 DEF Inv, Over, IsFailed
<1>5. CASE ~IsFailed(d)
  <2>1. DOMAIN server = Fields /\ server.policy \in DOMAIN security_policy_selection
    BY DEF Shape
  <2>2. /\ DOMAIN d = Fields
        /\ \A f \in Fields \ {"client_curve", "client_kem", "hello_retry"} : d[f] = server[f]
        /\ \/ d = server
           \/ /\ ~(Chosen < TLS13)
              /\ d.client_curve = s2n_client_key_share_recv_ecc(server, wire)
              /\ d.client_kem = s2n_client_key_share_recv_pq_hybrid(server, wire)
              /\ d.hello_retry \in BOOLEAN /\ (server.hello_retry => d.hello_retry)
    <3>1. CASE Chosen < TLS13 \/ wire.shares = {}
      <4>1. d = server
        BY <1>1, <3>1 DEF s2n_client_key_share_recv, Chosen
      <4> QED
        BY <2>1, <4>1
    <3>2. CASE ~(Chosen < TLS13 \/ wire.shares = {})
      <4> DEFINE curve == s2n_client_key_share_recv_ecc(server, wire)
                 kem == s2n_client_key_share_recv_pq_hybrid(server, wire)
      <4>1. d = IF server.hello_retry /\ Cardinality(wire.shares) # 1 THEN Failed(server, "shares")
                ELSE [server EXCEPT !.client_curve = curve, !.client_kem = kem,
                                    !.hello_retry = server.hello_retry \/ (curve = NoGroup /\ kem = NoGroup)]
        BY <1>1, <3>2 DEF s2n_client_key_share_recv, Chosen
      <4> HIDE DEF curve, kem
      <4>2. IsFailed(Failed(server, "shares"))
        BY <2>1 DEF IsFailed, Failed, Fields
      <4>3. d = [server EXCEPT !.client_curve = curve, !.client_kem = kem,
                               !.hello_retry = server.hello_retry \/ (curve = NoGroup /\ kem = NoGroup)]
        BY <1>5, <4>1, <4>2
      <4>4. /\ DOMAIN d = Fields /\ d.client_curve = curve /\ d.client_kem = kem
            /\ d.hello_retry = (server.hello_retry \/ (curve = NoGroup /\ kem = NoGroup))
            /\ \A f \in Fields \ {"client_curve", "client_kem", "hello_retry"} : d[f] = server[f]
        BY <2>1, <4>3 DEF Fields
      <4> QED
        BY <3>2, <4>4 DEF curve, kem
    <3> QED
      BY <3>1, <3>2
  <2>3. /\ d.mode = server.mode /\ d.policy = server.policy /\ d.build = server.build
        /\ d.client_protocol_version = server.client_protocol_version
        /\ d.server_protocol_version = server.server_protocol_version
        /\ d.actual_protocol_version = server.actual_protocol_version
        /\ d.server_curve = server.server_curve /\ d.server_kem = server.server_kem
        /\ (server.hello_retry => d.hello_retry) /\ d.hello_retry \in BOOLEAN
    <3>1. server.hello_retry \in BOOLEAN
      BY DEF Shape
    <3> QED
      BY <2>2, <3>1 DEF Fields
  <2>4. ~(Chosen < TLS13) => Chosen = TLS13
    BY DEF Shape, Chosen, Versions13, Unknown, TLS10, TLS13
  <2>5. d.hello_retry => server.hello_retry \/ Chosen = TLS13
    BY <2>2, <2>4
  <2>6. /\ Shape' /\ Turns' /\ ClientFacts' /\ AnswerFacts' /\ SameSides
        /\ server'.state = "SELECT_SHARE" /\ \A f \in Fields \ {"state"} : server'[f] = d[f]
    <3>1. "SELECT_SHARE" \in Reading \ {"CLIENT_HELLO"} /\ server.state \in Reading \ {"CLIENT_HELLO"}
      BY <1>2 DEF Reading, Sharing, Choosing
    <3>2. /\ server.hello_retry \in BOOLEAN /\ server.server_protocol_version \in TLS12..TLS13
          /\ server.client_protocol_version \in Versions13 /\ server.actual_protocol_version \in Versions13
      BY DEF Shape
    <3>3. server' = [d EXCEPT !.state = "SELECT_SHARE"]
      BY <1>1, <1>5
    <3> QED
      BY <1>2, <2>2, <2>3, <3>1, <3>2, <3>3, Advance
  <2>7. /\ server'.hello_retry = d.hello_retry
        /\ server'.client_protocol_version = server.client_protocol_version
        /\ server'.server_protocol_version = server.server_protocol_version
        /\ server'.actual_protocol_version = server.actual_protocol_version
        /\ server'.client_curve = d.client_curve /\ server'.client_kem = d.client_kem
        /\ server'.server_curve = server.server_curve /\ server'.server_kem = server.server_kem
    BY <2>3, <2>6 DEF Fields
  <2>8. VersionFacts'
    <3>1. server.state \in Sharing /\ server'.state \in Sharing
      BY <1>2, <2>6 DEF Sharing
    <3> QED
      BY <1>2, <1>3, <2>5, <2>6, <2>7, <3>1, VersionsKept
  <2>9. GroupFacts'
    <3>1. CommonKems' = CommonKems /\ P(server)' = P(server) /\ Chosen' = Chosen
      BY <2>6, <2>7, Sides DEF Chosen
    <3>2. d.client_curve \in {NoGroup} \union InList(P(server).ecc_preferences)
          /\ d.client_kem \in {NoGroup} \union CommonKems
      <4>1. CASE d = server
        BY <1>3, <4>1 DEF GroupFacts
      <4>2. CASE d # server
        <5>1. Chosen = TLS13 /\ Offer = TLS13
          BY <1>2, <1>3, <2>2, <2>4, <4>2 DEF VersionFacts, Sharing
        <5>2. MutualKems(server, wire) = CommonKems
          BY <1>3, <5>1, GroupsOffered
        <5>3. d.client_kem \in {NoGroup} \union CommonKems
          BY <2>1, <2>2, <4>2, <5>2, Preferred DEF s2n_client_key_share_recv_pq_hybrid
        <5>4. d.client_curve \in {NoGroup} \union InList(P(server).ecc_preferences)
          BY <2>1, <2>2, <4>2, Preferred DEF s2n_client_key_share_recv_ecc
        <5> QED
          BY <5>3, <5>4
      <4> QED
        BY <4>1, <4>2
    <3>3. Chosen = TLS13 =>
            /\ server.server_curve \in {NoGroup} \union InList(P(server).ecc_preferences)
            /\ server.server_kem \in {NoGroup} \union CommonKems
            /\ server.server_kem # NoGroup <=> CommonKems # {}
      BY <1>2, <1>3 DEF GroupFacts
    <3> QED
      BY <2>6, <2>7, <3>1, <3>2, <3>3 DEF GroupFacts, Settled, Choosing, Answering
  <2>10. ChoiceFacts'
    BY <2>6 DEF ChoiceFacts, Choosing, Answering
  <2> QED
    BY <2>6, <2>8, <2>9, <2>10 DEF Inv, Facts
<1> QED
  BY <1>4, <1>5

LEMMA SelectKeyShareStep ==
  ASSUME Shape, Facts, SelectKeyShare
  PROVE  Inv'
<1>1. PICK d : /\ d = s2n_extensions_server_key_share_select(server)
               /\ server' = IF IsFailed(d) THEN d ELSE [d EXCEPT !.state = "SETTLE"]
  BY DEF SelectKeyShare, ServerStep
<1>2. server.state = "SELECT_SHARE" /\ UNCHANGED <<env, client, wire>>
  BY DEF SelectKeyShare, ServerStep
<1>3. client.state = "SERVER_HELLO" /\ HelloOnWire /\ VersionFacts /\ GroupFacts /\ ChoiceFacts
  BY <1>2 DEF Facts, Turns
<1>4. CASE IsFailed(d)
  BY <1>1, <1>4 DEF Inv, Over, IsFailed
<1>5. CASE ~IsFailed(d)
  <2>1. DOMAIN server = Fields /\ server.policy \in DOMAIN security_policy_selection
    BY DEF Shape
  <2>2. /\ DOMAIN d = Fields
        /\ \A f \in Fields \ {"server_curve", "server_kem", "hello_retry"} : d[f] = server[f]
        /\ d.hello_retry \in BOOLEAN /\ (server.hello_retry => d.hello_retry)
        /\ Chosen < TLS13 => d.hello_retry = server.hello_retry
        /\ ~(Chosen < TLS13) =>
              /\ (server.server_curve = NoGroup) # (server.server_kem = NoGroup)
              /\ \/ server.client_kem # NoGroup /\ d.server_kem = server.client_kem /\ d.server_curve = NoGroup
                 \/ server.server_kem # NoGroup /\ d.server_kem = server.server_kem /\ d.server_curve = NoGroup
                 \/ /\ server.client_curve # NoGroup /\ server.server_kem = NoGroup
                    /\ d.server_curve = server.client_curve /\ d.server_kem = NoGroup
                 \/ d.server_curve = server.server_curve /\ d.server_kem = server.server_kem
    <3>1. server.hello_retry \in BOOLEAN
      BY DEF Shape
    <3>2. IsFailed(Failed(server, "group"))
      BY <2>1 DEF IsFailed, Failed, Fields
    <3>3. CASE Chosen < TLS13
      BY <1>1, <2>1, <3>1, <3>3 DEF s2n_extensions_server_key_share_select, Chosen
    <3>4. CASE ~(Chosen < TLS13)
      <4>1. (server.server_curve = NoGroup) # (server.server_kem = NoGroup)
        BY <1>1, <1>5, <3>2, <3>4 DEF s2n_extensions_server_key_share_select, Chosen
      <4>2. CASE server.client_kem # NoGroup
        <5>1. d = [server EXCEPT !.server_kem = server.client_kem, !.server_curve = NoGroup]
          BY <1>1, <3>4, <4>1, <4>2 DEF s2n_extensions_server_key_share_select, Chosen
        <5> QED
          BY <2>1, <3>1, <3>4, <4>1, <4>2, <5>1 DEF Fields
      <4>3. CASE server.client_kem = NoGroup /\ server.server_kem # NoGroup
        <5>1. d = [server EXCEPT !.server_curve = NoGroup, !.hello_retry = TRUE]
          BY <1>1, <3>4, <4>1, <4>3 DEF s2n_extensions_server_key_share_select, Chosen
        <5> QED
          BY <2>1, <3>4, <4>1, <4>3, <5>1 DEF Fields
      <4>4. CASE server.client_kem = NoGroup /\ server.server_kem = NoGroup /\ server.client_curve # NoGroup
        <5>1. d = [server EXCEPT !.server_curve = server.client_curve, !.server_kem = NoGroup]
          BY <1>1, <3>4, <4>1, <4>4 DEF s2n_extensions_server_key_share_select, Chosen
        <5> QED
          BY <2>1, <3>1, <3>4, <4>1, <4>4, <5>1 DEF Fields
      <4>5. CASE server.client_kem = NoGroup /\ server.server_kem = NoGroup /\ server.client_curve = NoGroup
        <5>1. d = [server EXCEPT !.hello_retry = TRUE]
          BY <1>1, <3>4, <4>1, <4>5 DEF s2n_extensions_server_key_share_select, Chosen
        <5> QED
          BY <2>1, <3>4, <4>1, <4>5, <5>1 DEF Fields
      <4> QED
        BY <4>2, <4>3, <4>4, <4>5
    <3> QED
      BY <3>3, <3>4
  <2>3. /\ d.mode = server.mode /\ d.policy = server.policy /\ d.build = server.build
        /\ d.client_protocol_version = server.client_protocol_version
        /\ d.server_protocol_version = server.server_protocol_version
        /\ d.actual_protocol_version = server.actual_protocol_version
        /\ d.client_curve = server.client_curve /\ d.client_kem = server.client_kem
    BY <2>2 DEF Fields
  <2>4. ~(Chosen < TLS13) <=> Chosen = TLS13
    BY DEF Shape, Chosen, Versions13, Unknown, TLS10, TLS13
  <2>5. d.hello_retry => server.hello_retry \/ Chosen = TLS13
    BY <2>2, <2>4
  <2>6. /\ Shape' /\ Turns' /\ ClientFacts' /\ AnswerFacts' /\ SameSides
        /\ server'.state = "SETTLE" /\ \A f \in Fields \ {"state"} : server'[f] = d[f]
    <3>1. "SETTLE" \in Reading \ {"CLIENT_HELLO"} /\ server.state \in Reading \ {"CLIENT_HELLO"}
      BY <1>2 DEF Reading, Sharing, Choosing
    <3>2. /\ server.hello_retry \in BOOLEAN /\ server.server_protocol_version \in TLS12..TLS13
          /\ server.client_protocol_version \in Versions13 /\ server.actual_protocol_version \in Versions13
      BY DEF Shape
    <3>3. server' = [d EXCEPT !.state = "SETTLE"]
      BY <1>1, <1>5
    <3> QED
      BY <1>2, <2>2, <2>3, <3>1, <3>2, <3>3, Advance
  <2>7. /\ server'.hello_retry = d.hello_retry
        /\ server'.client_protocol_version = server.client_protocol_version
        /\ server'.server_protocol_version = server.server_protocol_version
        /\ server'.actual_protocol_version = server.actual_protocol_version
        /\ server'.client_curve = server.client_curve /\ server'.client_kem = server.client_kem
        /\ server'.server_curve = d.server_curve /\ server'.server_kem = d.server_kem
    BY <2>3, <2>6 DEF Fields
  <2>8. VersionFacts'
    <3>1. server.state \in Sharing /\ server'.state \in Sharing
      BY <1>2, <2>6 DEF Sharing
    <3> QED
      BY <1>2, <1>3, <2>5, <2>6, <2>7, <3>1, VersionsKept
  <2>9. GroupFacts'
    <3>1. CommonKems' = CommonKems /\ P(server)' = P(server) /\ Chosen' = Chosen
      BY <2>6, <2>7, Sides DEF Chosen
    <3>2. server.client_curve \in {NoGroup} \union InList(P(server).ecc_preferences)
          /\ server.client_kem \in {NoGroup} \union CommonKems
      BY <1>3 DEF GroupFacts
    <3>3. ASSUME Chosen = TLS13
          PROVE  /\ server'.server_curve \in {NoGroup} \union InList(P(server).ecc_preferences)
                 /\ server'.server_kem \in {NoGroup} \union CommonKems
                 /\ server'.server_kem # NoGroup <=> CommonKems # {}
                 /\ Group(server') # NoGroup
      <4>1. /\ server.server_curve \in {NoGroup} \union InList(P(server).ecc_preferences)
            /\ server.server_kem \in {NoGroup} \union CommonKems
            /\ server.server_kem # NoGroup <=> CommonKems # {}
        BY <1>2, <1>3, <3>3 DEF GroupFacts
      <4> QED
        BY <2>2, <2>4, <2>7, <3>2, <3>3, <4>1 DEF Group
    <3> QED
      BY <2>6, <2>7, <3>1, <3>2, <3>3 DEF GroupFacts, Settled, Choosing, Answering
  <2>10. ChoiceFacts'
    BY <2>6 DEF ChoiceFacts, Choosing, Answering
  <2> QED
    BY <2>6, <2>8, <2>9, <2>10 DEF Inv, Facts
<1> QED
  BY <1>4, <1>5

LEMMA ProcessVersionStep ==
  ASSUME Shape, Facts, ProcessVersion
  PROVE  Inv'
<1>1. PICK d : /\ d = SettleVersion(server)
               /\ server' = IF IsFailed(d) THEN d ELSE [d EXCEPT !.state = "SUITE"]
  BY DEF ProcessVersion, ServerStep
<1>2. server.state = "SETTLE" /\ UNCHANGED <<env, client, wire>>
  BY DEF ProcessVersion, ServerStep
<1>3. client.state = "SERVER_HELLO" /\ HelloOnWire /\ VersionFacts /\ GroupFacts /\ ChoiceFacts
  BY <1>2 DEF Facts, Turns
<1>4. CASE IsFailed(d)
  BY <1>1, <1>4 DEF Inv, Over, IsFailed
<1>5. CASE ~IsFailed(d)
  <2>1. DOMAIN server = Fields /\ server.policy \in DOMAIN security_policy_selection
    BY DEF Shape
  <2>2. /\ server.server_protocol_version \in TLS12..TLS13 /\ Offer \in TLS10..TLS13
        /\ Chosen \in Versions13 /\ server.client_protocol_version \in Versions13
        /\ server.hello_retry \in BOOLEAN
        /\ P(server).minimum_protocol_version \in SSLv3..TLS13
    BY <2>1, PolicyOf DEF Shape, Offer, Chosen
  <2>3. PICK v : v = IF Chosen >= TLS13 THEN Chosen
                     ELSE MinOf(server.server_protocol_version, server.client_protocol_version)
    OBVIOUS
  <2>4. /\ DOMAIN d = Fields /\ d.actual_protocol_version = v
        /\ \A f \in Fields \ {"actual_protocol_version"} : d[f] = server[f]
        /\ ~(server.client_protocol_version < P(server).minimum_protocol_version)
    <3> DEFINE e == IF Chosen >= TLS13 THEN server ELSE [server EXCEPT !.actual_protocol_version = v]
    <3>1. d = IF e.client_protocol_version < P(server).minimum_protocol_version THEN Failed(e, "version") ELSE e
      BY <1>1, <2>3 DEF SettleVersion, Chosen
    <3>2. /\ DOMAIN e = Fields /\ e.actual_protocol_version = v
          /\ \A f \in Fields \ {"actual_protocol_version"} : e[f] = server[f]
      BY <2>1, <2>3 DEF Chosen, Fields
    <3> HIDE DEF e
    <3>3. IsFailed(Failed(e, "version"))
      BY <3>2 DEF IsFailed, Failed, Fields
    <3>4. d = e /\ ~(e.client_protocol_version < P(server).minimum_protocol_version)
      BY <1>5, <3>1, <3>3
    <3>5. e.client_protocol_version = server.client_protocol_version
      BY <3>2 DEF Fields
    <3> QED
      BY <3>2, <3>4, <3>5
  <2>5. /\ d.mode = server.mode /\ d.policy = server.policy /\ d.build = server.build
        /\ d.client_protocol_version = server.client_protocol_version
        /\ d.server_protocol_version = server.server_protocol_version
        /\ d.hello_retry = server.hello_retry
        /\ d.client_curve = server.client_curve /\ d.client_kem = server.client_kem
        /\ d.server_curve = server.server_curve /\ d.server_kem = server.server_kem
    BY <2>4 DEF Fields
  <2>6. /\ Chosen = TLS13 => v = TLS13
        /\ Chosen # TLS13 => v = MinOf(Offer, TLS12) /\ v # TLS13
        /\ v \in Versions13 /\ v >= P(server).minimum_protocol_version
    <3>1. Chosen # TLS13 => server.client_protocol_version = MinOf(Offer, TLS12)
      BY <1>2, <1>3 DEF VersionFacts, Sharing
    <3> USE DEF SSLv3, TLS10, TLS12, TLS13, MinOf, Versions13, Unknown
    <3>2. CASE Chosen = TLS13
      BY <2>2, <2>3, <3>2
    <3>3. CASE Chosen # TLS13
      <4>1. MinOf(Offer, TLS12) \in TLS10..TLS12
        BY <2>2
      <4>2. v = server.client_protocol_version
        BY <2>2, <2>3, <3>1, <3>3, <4>1
      <4> QED
        BY <2>2, <2>4, <3>1, <3>3, <4>1, <4>2
    <3> QED
      BY <3>2, <3>3
  <2>7. /\ Shape' /\ Turns' /\ ClientFacts' /\ AnswerFacts' /\ SameSides
        /\ server'.state = "SUITE" /\ \A f \in Fields \ {"state"} : server'[f] = d[f]
    <3>1. "SUITE" \in Reading \ {"CLIENT_HELLO"} /\ server.state \in Reading \ {"CLIENT_HELLO"}
      BY <1>2 DEF Reading, Sharing, Choosing
    <3>2. /\ server.hello_retry \in BOOLEAN /\ server.server_protocol_version \in TLS12..TLS13
          /\ server.client_protocol_version \in Versions13 /\ server.actual_protocol_version \in Versions13
      BY DEF Shape
    <3>3. server' = [d EXCEPT !.state = "SUITE"]
      BY <1>1, <1>5
    <3> QED
      BY <1>2, <2>4, <2>5, <2>6, <3>1, <3>2, <3>3, Advance
  <2>8. /\ server'.hello_retry = server.hello_retry
        /\ server'.server_protocol_version = server.server_protocol_version
        /\ server'.actual_protocol_version = v
        /\ server'.client_curve = server.client_curve /\ server'.client_kem = server.client_kem
        /\ server'.server_curve = server.server_curve /\ server'.server_kem = server.server_kem
    BY <2>4, <2>5, <2>7 DEF Fields
  <2>9. /\ P(server)' = P(server) /\ (SupportsTLS13(server)' <=> SupportsTLS13(server))
        /\ Offer' = Offer /\ env' = env /\ CommonKems' = CommonKems /\ Chosen' = v
    BY <1>2, <2>7, <2>8, Sides DEF Offer, Chosen
  <2>10. VersionFacts'
    <3>1. /\ server.server_protocol_version = TLS13 <=> env.server.highest = TLS13 /\ SupportsTLS13(server)
          /\ Chosen = TLS13 => Offer = TLS13 /\ server.server_protocol_version = TLS13
          /\ server.hello_retry => Chosen = TLS13
          /\ Chosen # TLS13 => (server.server_protocol_version = TLS13 /\ Offer = TLS13 => env.strips)
      BY <1>2, <1>3 DEF VersionFacts, Sharing
    <3> QED
      BY <2>6, <2>7, <2>8, <2>9, <3>1 DEF VersionFacts, Sharing, Settled
  <2>11. GroupFacts'
    <3>1. /\ server.client_curve \in {NoGroup} \union InList(P(server).ecc_preferences)
          /\ server.client_kem \in {NoGroup} \union CommonKems
          /\ Chosen = TLS13 =>
                /\ server.server_curve \in {NoGroup} \union InList(P(server).ecc_preferences)
                /\ server.server_kem \in {NoGroup} \union CommonKems
                /\ server.server_kem # NoGroup <=> CommonKems # {}
                /\ Group(server) # NoGroup
      BY <1>2, <1>3 DEF GroupFacts
    <3>2. Group(server)' = Group(server)
      BY <2>8 DEF Group
    <3> QED
      BY <2>6, <2>7, <2>8, <2>9, <3>1, <3>2 DEF GroupFacts
  <2>12. ChoiceFacts'
    BY <2>7 DEF ChoiceFacts, Choosing, Answering
  <2> QED
    BY <2>7, <2>10, <2>11, <2>12 DEF Inv, Facts
<1> QED
  BY <1>4, <1>5

(* A step that does not touch the groups, once they are settled.           *)
LEMMA GroupsKept ==
  ASSUME GroupFacts, SameSides, server.state \in Settled, server'.state \in Settled,
         server'.actual_protocol_version = server.actual_protocol_version,
         server'.client_curve = server.client_curve, server'.client_kem = server.client_kem,
         server'.server_curve = server.server_curve, server'.server_kem = server.server_kem
  PROVE  GroupFacts'
<1>1. P(server)' = P(server) /\ CommonKems' = CommonKems /\ Chosen' = Chosen /\ Group(server)' = Group(server)
  BY Sides DEF Chosen, Group
<1>2. server'.state \notin {"CLIENT_HELLO", "ASYNC_BLOCKED", "PROCESS"}
  BY DEF Settled, Choosing, Answering
<1> QED
  BY <1>1, <1>2 DEF GroupFacts

LEMMA ChoiceAdvance ==
  ASSUME Shape, Facts, NEW d, NEW to \in Choosing, server.state \in {"SUITE", "SCHEME", "CERT"},
         UNCHANGED <<env, client, wire>>, DOMAIN d = Fields,
         \A f \in Fields \ {"cipher_suite", "scheme", "cert"} : d[f] = server[f],
         server' = [d EXCEPT !.state = to]
  PROVE  /\ Shape' /\ Turns' /\ ClientFacts' /\ AnswerFacts' /\ VersionFacts' /\ GroupFacts'
         /\ P(server)' = P(server) /\ Chosen' = Chosen /\ server'.state = to
         /\ server'.cipher_suite = d.cipher_suite /\ server'.scheme = d.scheme
<1>1. /\ d.mode = server.mode /\ d.policy = server.policy /\ d.build = server.build
      /\ d.client_protocol_version = server.client_protocol_version
      /\ d.server_protocol_version = server.server_protocol_version
      /\ d.actual_protocol_version = server.actual_protocol_version
      /\ d.hello_retry = server.hello_retry
      /\ d.client_curve = server.client_curve /\ d.client_kem = server.client_kem
      /\ d.server_curve = server.server_curve /\ d.server_kem = server.server_kem
  BY DEF Fields
<1>2. /\ Shape' /\ Turns' /\ ClientFacts' /\ AnswerFacts' /\ SameSides
      /\ server'.state = to /\ \A f \in Fields \ {"state"} : server'[f] = d[f]
  <2>1. to \in Reading \ {"CLIENT_HELLO"} /\ server.state \in Reading \ {"CLIENT_HELLO"}
    BY DEF Reading, Sharing, Choosing
  <2>2. /\ server.hello_retry \in BOOLEAN /\ server.server_protocol_version \in TLS12..TLS13
        /\ server.client_protocol_version \in Versions13 /\ server.actual_protocol_version \in Versions13
    BY DEF Shape
  <2> QED
    BY <1>1, <2>1, <2>2, Advance
<1>3. /\ server'.client_protocol_version = server.client_protocol_version
      /\ server'.server_protocol_version = server.server_protocol_version
      /\ server'.actual_protocol_version = server.actual_protocol_version
      /\ server'.hello_retry = server.hello_retry
      /\ server'.client_curve = server.client_curve /\ server'.client_kem = server.client_kem
      /\ server'.server_curve = server.server_curve /\ server'.server_kem = server.server_kem
      /\ server'.cipher_suite = d.cipher_suite /\ server'.scheme = d.scheme
  BY <1>1, <1>2 DEF Fields
<1>4. server.state \in Settled /\ server'.state \in Settled /\ VersionFacts /\ GroupFacts
  BY <1>2 DEF Settled, Choosing, Facts
<1>5. VersionFacts'
  BY <1>2, <1>3, <1>4, VersionsKept
<1>6. GroupFacts'
  BY <1>2, <1>3, <1>4, GroupsKept
<1> QED
  BY <1>2, <1>3, <1>5, <1>6, Sides DEF Chosen

LEMMA SelectSuiteStep ==
  ASSUME Shape, Facts, SelectSuite
  PROVE  Inv'
<1>1. PICK d : /\ d = s2n_set_cipher_as_server(server, wire)
               /\ server' = IF IsFailed(d) THEN d ELSE [d EXCEPT !.state = "SCHEME"]
  BY DEF SelectSuite, ServerStep
<1>2. server.state = "SUITE" /\ UNCHANGED <<env, client, wire>>
  BY DEF SelectSuite, ServerStep
<1>3. client.state = "SERVER_HELLO" /\ HelloOnWire /\ VersionFacts /\ ChoiceFacts
  BY <1>2 DEF Facts, Turns
<1>4. CASE IsFailed(d)
  BY <1>1, <1>4 DEF Inv, Over, IsFailed
<1>5. CASE ~IsFailed(d)
  <2>1. DOMAIN server = Fields /\ server.policy \in DOMAIN security_policy_selection
    BY DEF Shape
  <2>2. \A why : IsFailed(Failed(server, why))
    BY <2>1 DEF IsFailed, Failed, Fields
  <2>3. PICK s \in InList(CipherList(P(server))) : Acceptable(server, wire, s) /\ d = [server EXCEPT !.cipher_suite = s]
    BY <1>1, <1>5, <2>1, <2>2, SuiteChosen
  <2>4. /\ DOMAIN d = Fields /\ \A f \in Fields \ {"cipher_suite", "scheme", "cert"} : d[f] = server[f]
        /\ d.cipher_suite = s
    BY <2>1, <2>3 DEF Fields
  <2>5. /\ Shape' /\ Turns' /\ ClientFacts' /\ AnswerFacts' /\ VersionFacts' /\ GroupFacts'
        /\ P(server)' = P(server) /\ Chosen' = Chosen /\ server'.state = "SCHEME"
        /\ server'.cipher_suite = d.cipher_suite /\ server'.scheme = d.scheme
    <3>1. server' = [d EXCEPT !.state = "SCHEME"] /\ "SCHEME" \in Choosing /\ server.state \in {"SUITE", "SCHEME", "CERT"}
      BY <1>1, <1>2, <1>5 DEF Choosing
    <3> QED
      BY <1>2, <2>4, <3>1, ChoiceAdvance
  <2>6. cipher_suite[s].minimum_required_tls_version <= Chosen
    <3>7. PICK least : least = cipher_suite[s].minimum_required_tls_version
      OBVIOUS
    <3>1. least <= Offer /\ (Chosen >= TLS13) = (least >= TLS13)
      BY <1>3, <2>3, <3>7 DEF HelloOnWire, Acceptable, is_tls13_suite, Chosen
    <3>2. least \in 0..TLS13
      BY <2>1, <2>3, <3>7, PolicyOf DEF WellFormed
    <3>3. Chosen # TLS13 => Chosen = MinOf(Offer, TLS12)
      BY <1>2, <1>3 DEF VersionFacts, Settled
    <3>4. Chosen \in Versions13 /\ Offer \in TLS10..TLS13
      BY DEF Shape, Chosen, Offer
    <3>5. Chosen = TLS13 => least <= Chosen
      BY <3>2 DEF TLS13
    <3>6. Chosen # TLS13 => least <= Chosen
      BY <3>1, <3>2, <3>3, <3>4 DEF MinOf, Versions13, Unknown, TLS10, TLS12, TLS13
    <3> QED
      BY <3>5, <3>6, <3>7
  <2>7. ChoiceFacts'
    BY <2>3, <2>4, <2>5, <2>6 DEF ChoiceFacts, Choosing, Answering
  <2> QED
    BY <2>5, <2>7 DEF Inv, Facts
<1> QED
  BY <1>4, <1>5

LEMMA SelectSchemeStep ==
  ASSUME Shape, Facts, SelectScheme
  PROVE  Inv'
<1>1. PICK d : /\ d = s2n_signature_algorithm_select(server, wire)
               /\ server' = IF IsFailed(d) THEN d ELSE [d EXCEPT !.state = "CERT"]
  BY DEF SelectScheme, ServerStep
<1>2. server.state = "SCHEME" /\ UNCHANGED <<env, client, wire>>
  BY DEF SelectScheme, ServerStep
<1>3. client.state = "SERVER_HELLO" /\ HelloOnWire /\ VersionFacts /\ ChoiceFacts
  BY <1>2 DEF Facts, Turns
<1>4. CASE IsFailed(d)
  BY <1>1, <1>4 DEF Inv, Over, IsFailed
<1>5. CASE ~IsFailed(d)
  <2>1. DOMAIN server = Fields /\ server.policy \in DOMAIN security_policy_selection
    BY DEF Shape
  <2>2. \A why : IsFailed(Failed(server, why))
    BY <2>1 DEF IsFailed, Failed, Fields
  <2>3. PICK s : /\ d = [server EXCEPT !.scheme = s]
                 /\ ~(Chosen < TLS12) => s \in InList(P(server).signature_preferences)
    <3> DEFINE Q(s) == /\ d = [server EXCEPT !.scheme = s]
                       /\ ~(server.actual_protocol_version < TLS12) => s \in InList(P(server).signature_preferences)
    <3>1. d = Failed(server, "signature") \/ \E s : Q(s)
      BY <1>1, <2>1, SchemeChosen
    <3>2. d # Failed(server, "signature")
      BY <1>5, <2>2
    <3> HIDE DEF Q
    <3>3. PICK s : Q(s)
      BY <3>1, <3>2
    <3> QED
      BY <3>3 DEF Q, Chosen
  <2>4. /\ DOMAIN d = Fields /\ \A f \in Fields \ {"cipher_suite", "scheme", "cert"} : d[f] = server[f]
        /\ d.cipher_suite = server.cipher_suite /\ d.scheme = s
    BY <2>1, <2>3 DEF Fields
  <2>5. /\ Shape' /\ Turns' /\ ClientFacts' /\ AnswerFacts' /\ VersionFacts' /\ GroupFacts'
        /\ P(server)' = P(server) /\ Chosen' = Chosen /\ server'.state = "CERT"
        /\ server'.cipher_suite = d.cipher_suite /\ server'.scheme = d.scheme
    <3>1. server' = [d EXCEPT !.state = "CERT"] /\ "CERT" \in Choosing /\ server.state \in {"SUITE", "SCHEME", "CERT"}
      BY <1>1, <1>2, <1>5 DEF Choosing
    <3> QED
      BY <1>2, <2>4, <3>1, ChoiceAdvance
  <2>6. Chosen >= TLS12 => ~(Chosen < TLS12)
    BY DEF Shape, Chosen, Versions13, Unknown, TLS10, TLS12, TLS13
  <2>7. ChoiceFacts'
    <3>1. /\ server.cipher_suite \in InList(CipherList(P(server)))
          /\ cipher_suite[server.cipher_suite].minimum_required_tls_version <= Chosen
      BY <1>2, <1>3 DEF ChoiceFacts, Choosing
    <3> QED
      BY <2>3, <2>4, <2>5, <2>6, <3>1 DEF ChoiceFacts
  <2> QED
    BY <2>5, <2>7 DEF Inv, Facts
<1> QED
  BY <1>4, <1>5

LEMMA SelectCertStep ==
  ASSUME Shape, Facts, SelectCert
  PROVE  Inv'
<1>1. PICK d : /\ d = s2n_select_certs_for_server_auth(server, wire)
               /\ server' = IF IsFailed(d) THEN d ELSE [d EXCEPT !.state = "PROCESSED"]
  BY DEF SelectCert, ServerStep
<1>2. server.state = "CERT" /\ UNCHANGED <<env, client, wire>>
  BY DEF SelectCert, ServerStep
<1>3. client.state = "SERVER_HELLO" /\ HelloOnWire /\ VersionFacts /\ ChoiceFacts
  BY <1>2 DEF Facts, Turns
<1>4. CASE IsFailed(d)
  BY <1>1, <1>4 DEF Inv, Over, IsFailed
<1>5. CASE ~IsFailed(d)
  <2>1. DOMAIN server = Fields /\ server.policy \in DOMAIN security_policy_selection
    BY DEF Shape
  <2>2. \A why : IsFailed(Failed(server, why))
    BY <2>1 DEF IsFailed, Failed, Fields
  <2>3. PICK x : d = [server EXCEPT !.cert = x]
    BY <1>1, <1>5, <2>2 DEF s2n_select_certs_for_server_auth
  <2>4. /\ DOMAIN d = Fields /\ \A f \in Fields \ {"cipher_suite", "scheme", "cert"} : d[f] = server[f]
        /\ d.cipher_suite = server.cipher_suite /\ d.scheme = server.scheme
    BY <2>1, <2>3 DEF Fields
  <2>5. /\ Shape' /\ Turns' /\ ClientFacts' /\ AnswerFacts' /\ VersionFacts' /\ GroupFacts'
        /\ P(server)' = P(server) /\ Chosen' = Chosen /\ server'.state = "PROCESSED"
        /\ server'.cipher_suite = d.cipher_suite /\ server'.scheme = d.scheme
    <3>1. server' = [d EXCEPT !.state = "PROCESSED"] /\ "PROCESSED" \in Choosing /\ server.state \in {"SUITE", "SCHEME", "CERT"}
      BY <1>1, <1>2, <1>5 DEF Choosing
    <3> QED
      BY <1>2, <2>4, <3>1, ChoiceAdvance
  <2>6. ChoiceFacts'
    <3>1. /\ server.cipher_suite \in InList(CipherList(P(server)))
          /\ cipher_suite[server.cipher_suite].minimum_required_tls_version <= Chosen
          /\ Chosen >= TLS12 => server.scheme \in InList(P(server).signature_preferences)
      BY <1>2, <1>3 DEF ChoiceFacts, Choosing
    <3> QED
      BY <2>4, <2>5, <3>1 DEF ChoiceFacts
  <2> QED
    BY <2>5, <2>6 DEF Inv, Facts
<1> QED
  BY <1>4, <1>5

(* The client waits while the server alone moves.                          *)
LEMMA ClientWaits ==
  ASSUME ClientFacts, SameSides, client' = client, server.hello_retry => server'.hello_retry
  PROVE  ClientFacts'
<1>1. /\ P(client)' = P(client) /\ (SupportsTLS13(client)' <=> SupportsTLS13(client)) /\ Offer' = Offer /\ env' = env
  BY Sides DEF Offer, SameSides
<1> QED
  BY <1>1 DEF ClientFacts

(* The server takes the hello up, perhaps with another policy.             *)
LEMMA TakeUp ==
  ASSUME Shape, Facts, client.state = "SERVER_HELLO", HelloOnWire, UNCHANGED <<env, client, wire>>,
         DOMAIN server' = Fields, server'.policy \in DOMAIN security_policy_selection,
         server'.state \in Reading \ {"CLIENT_HELLO"}, server'.client_protocol_version \in Versions13,
         \A f \in Fields \ {"policy", "client_protocol_version", "callback_invoked", "state"} : server'[f] = server[f]
  PROVE  Shape' /\ Turns' /\ ClientFacts' /\ AnswerFacts'
<1>1. /\ server'.mode = server.mode /\ server'.hello_retry = server.hello_retry
      /\ server'.server_protocol_version = server.server_protocol_version
      /\ server'.actual_protocol_version = server.actual_protocol_version
  BY DEF Fields
<1>2. Shape'
  BY <1>1 DEF Shape, EnvironmentOK
<1>3. HelloOnWire'
  BY DEF HelloOnWire, Offer, P, s2n_client_supported_groups_send, Version, AvailableKems
<1>4. Turns'
  BY <1>3 DEF Turns
<1>5. ClientFacts'
  <2>1. P(client)' = P(client) /\ Offer' = Offer
    BY DEF P, Offer
  <2>2. SupportsTLS13(client)' <=> SupportsTLS13(client)
    BY <2>1 DEF SupportsTLS13, s2n_connection_supports_tls13, ServerCerts
  <2> QED
    BY <1>1, <2>1, <2>2 DEF Facts, ClientFacts
<1>6. AnswerFacts'
  BY DEF AnswerFacts, Reading, Sharing, Choosing
<1> QED
  BY <1>2, <1>4, <1>5, <1>6

LEMMA ClientHelloParsedStep ==
  ASSUME Shape, Facts, ClientHelloParsed
  PROVE  Inv'
<1> DEFINE c == [server EXCEPT !.client_protocol_version = MinOf(wire.legacy, TLS12)]
<1>1. /\ server.state = "CLIENT_HELLO" /\ wire.type = "CLIENT_HELLO" /\ UNCHANGED <<env, client, wire>>
      /\ server' = IF ~s2n_client_hello_verify_for_retry(c, wire) THEN Failed(c, "retry hello")
                   ELSE IF env.async /\ ~c.callback_invoked /\ ~c.hello_retry
                   THEN [c EXCEPT !.state = "ASYNC_BLOCKED", !.callback_invoked = TRUE]
                   ELSE [c EXCEPT !.state = "PROCESS"]
  BY DEF ClientHelloParsed
<1>2. client.state = "SERVER_HELLO" /\ HelloOnWire
  <2>1. wire # NoMessage /\ ~AnswerOnWire("retry")
    <3>1. NoMessage.type # "CLIENT_HELLO"
      BY DEF NoMessage
    <3>2. AnswerOnWire("retry") => wire.type = "SERVER_HELLO"
      BY DEF AnswerOnWire
    <3>3. wire.type = "CLIENT_HELLO"
      BY <1>1
    <3> QED
      BY <3>1, <3>2, <3>3
  <2> QED
    BY <1>1, <2>1 DEF Facts, Turns
<1>3. MinOf(wire.legacy, TLS12) = MinOf(Offer, TLS12) /\ MinOf(Offer, TLS12) \in Versions13
  BY <1>2 DEF HelloOnWire, Shape, Offer, MinOf, TLS10, TLS12, TLS13, Versions13
<1>4. /\ DOMAIN c = Fields /\ c.client_protocol_version = MinOf(Offer, TLS12)
      /\ \A f \in Fields \ {"client_protocol_version"} : c[f] = server[f]
  BY <1>3 DEF Shape, Fields
<1> HIDE DEF c
<1>5. CASE server' = Failed(c, "retry hello")
  BY <1>4, <1>5 DEF Inv, Over, IsFailed, Failed, Fields
<1>6. CASE server' # Failed(c, "retry hello")
  <2>1. \/ server' = [c EXCEPT !.state = "ASYNC_BLOCKED", !.callback_invoked = TRUE] /\ ~c.hello_retry
        \/ server' = [c EXCEPT !.state = "PROCESS"]
    BY <1>1, <1>6
  <2>2. /\ DOMAIN server' = Fields /\ server'.state \in {"ASYNC_BLOCKED", "PROCESS"}
        /\ server'.client_protocol_version = MinOf(Offer, TLS12)
        /\ \A f \in Fields \ {"client_protocol_version", "callback_invoked", "state"} : server'[f] = c[f]
    BY <1>4, <2>1 DEF Fields
  <2>3. \A f \in Fields \ {"client_protocol_version", "callback_invoked", "state"} : server'[f] = server[f]
    BY <1>4, <2>2
  <2>4. /\ server'.mode = server.mode /\ server'.policy = server.policy /\ server'.build = server.build
        /\ server'.hello_retry = server.hello_retry /\ c.hello_retry = server.hello_retry
        /\ server'.server_protocol_version = server.server_protocol_version
        /\ server'.actual_protocol_version = server.actual_protocol_version
        /\ server'.client_curve = server.client_curve /\ server'.client_kem = server.client_kem
    BY <1>4, <2>3 DEF Fields
  <2>5. Shape' /\ Turns' /\ ClientFacts' /\ AnswerFacts'
    <3>1. server'.policy \in DOMAIN security_policy_selection
      BY <2>4 DEF Shape
    <3>2. server'.state \in Reading \ {"CLIENT_HELLO"}
      BY <2>2 DEF Reading
    <3> QED
      BY <1>1, <1>2, <1>3, <2>2, <2>3, <3>1, <3>2, TakeUp
  <2>6. SameSides
    BY <1>1, <2>4 DEF SameSides
  <2>7. /\ P(server)' = P(server) /\ (SupportsTLS13(server)' <=> SupportsTLS13(server))
        /\ Offer' = Offer /\ Chosen' = Chosen /\ CommonKems' = CommonKems /\ env' = env
    BY <1>1, <2>4, <2>6, Sides DEF Offer, Chosen
  <2>8. server'.state = "ASYNC_BLOCKED" => ~server.hello_retry
    <3>1. [c EXCEPT !.state = "PROCESS"].state = "PROCESS"
      BY <1>4 DEF Fields
    <3> QED
      BY <2>1, <2>4, <3>1
  <2>9. VersionFacts'
    BY <1>1, <2>2, <2>4, <2>7, <2>8 DEF Facts, VersionFacts, Sharing, Settled, Choosing, Answering
  <2>10. GroupFacts' /\ ChoiceFacts'
    BY <1>1, <2>2, <2>4, <2>7 DEF Facts, GroupFacts, ChoiceFacts, Settled, Choosing, Answering
  <2> QED
    BY <2>5, <2>9, <2>10 DEF Inv, Facts
<1> QED
  BY <1>5, <1>6

LEMMA CallbackStep ==
  ASSUME Shape, Facts, s2n_client_hello_cb_done
  PROVE  Inv'
<1>1. PICK p : /\ p \in {env.callback_policy, server.policy}
               /\ server' = [server EXCEPT !.policy = p, !.state = "PROCESS"]
  BY DEF s2n_client_hello_cb_done
<1>2. server.state = "ASYNC_BLOCKED" /\ UNCHANGED <<env, client, wire>>
  BY DEF s2n_client_hello_cb_done
<1>3. client.state = "SERVER_HELLO" /\ HelloOnWire
  BY <1>2 DEF Facts, Turns
<1>4. /\ DOMAIN server' = Fields /\ server'.policy = p /\ server'.state = "PROCESS"
      /\ \A f \in Fields \ {"policy", "state"} : server'[f] = server[f]
  BY <1>1 DEF Shape, Fields
<1>5. /\ server'.hello_retry = server.hello_retry
      /\ server'.client_protocol_version = server.client_protocol_version
      /\ server'.server_protocol_version = server.server_protocol_version
      /\ server'.actual_protocol_version = server.actual_protocol_version
      /\ server'.client_curve = server.client_curve /\ server'.client_kem = server.client_kem
  BY <1>4 DEF Fields
<1>6. Shape' /\ Turns' /\ ClientFacts' /\ AnswerFacts'
  <2>1. server'.policy \in DOMAIN security_policy_selection
    BY <1>1, <1>4 DEF Shape, EnvironmentOK
  <2>2. server'.state \in Reading \ {"CLIENT_HELLO"} /\ server'.client_protocol_version \in Versions13
    BY <1>4, <1>5 DEF Reading, Shape
  <2> QED
    BY <1>2, <1>3, <1>4, <2>1, <2>2, TakeUp
<1>7. /\ ~server.hello_retry /\ server.client_protocol_version = MinOf(Offer, TLS12)
      /\ Chosen = Unknown /\ server.server_protocol_version = env.server.highest
      /\ server.client_curve = NoGroup /\ server.client_kem = NoGroup
  BY <1>2 DEF Facts, VersionFacts, GroupFacts, Sharing, Settled, Choosing, Answering
<1>8. Offer' = Offer /\ Chosen' = Chosen /\ env' = env
  BY <1>2, <1>5 DEF Offer, Chosen
<1>9. VersionFacts'
  BY <1>4, <1>5, <1>7, <1>8 DEF VersionFacts, Sharing, Settled, Choosing, Answering
<1>10. GroupFacts' /\ ChoiceFacts'
  BY <1>4, <1>5, <1>7 DEF GroupFacts, ChoiceFacts, Settled, Choosing, Answering
<1> QED
  BY <1>6, <1>9, <1>10 DEF Inv, Facts

(* The server has chosen everything and only moves on.                     *)
LEMMA MoveOn ==
  ASSUME Shape, Facts, env' = env, client' = client, DOMAIN server' = Fields,
         server.state \in {"PROCESSED"} \union Answering,
         \A f \in Fields \ {"state", "hello"} : server'[f] = server[f]
  PROVE  /\ Shape' /\ ClientFacts' /\ SameSides /\ Chosen' = Chosen /\ Offer' = Offer
         /\ server'.hello_retry = server.hello_retry /\ server'.cipher_suite = server.cipher_suite
         /\ server'.server_protocol_version = server.server_protocol_version
         /\ server'.client_curve = server.client_curve /\ server'.client_kem = server.client_kem
         /\ server'.server_curve = server.server_curve /\ server'.server_kem = server.server_kem
         /\ server'.scheme = server.scheme /\ server'.cert = server.cert
         /\ server'.state \in Answering => VersionFacts' /\ GroupFacts' /\ ChoiceFacts'
<1>1. /\ server'.mode = server.mode /\ server'.policy = server.policy /\ server'.build = server.build
      /\ server'.client_protocol_version = server.client_protocol_version
      /\ server'.server_protocol_version = server.server_protocol_version
      /\ server'.actual_protocol_version = server.actual_protocol_version
      /\ server'.hello_retry = server.hello_retry /\ server'.cipher_suite = server.cipher_suite
      /\ server'.client_curve = server.client_curve /\ server'.client_kem = server.client_kem
      /\ server'.server_curve = server.server_curve /\ server'.server_kem = server.server_kem
      /\ server'.scheme = server.scheme /\ server'.cert = server.cert
  BY DEF Fields
<1>2. SameSides
  BY <1>1 DEF SameSides
<1>3. Shape'
  BY <1>1, <1>2 DEF Shape, EnvironmentOK
<1>4. ClientFacts'
  BY <1>1, <1>2, ClientWaits DEF Facts
<1>5. ASSUME server'.state \in Answering PROVE VersionFacts' /\ GroupFacts' /\ ChoiceFacts'
  <2>1. server.state \in Settled /\ server'.state \in Settled /\ VersionFacts /\ GroupFacts /\ ChoiceFacts
    BY <1>5 DEF Settled, Choosing, Answering, Facts
  <2>2. VersionFacts'
    BY <1>1, <1>2, <2>1, VersionsKept
  <2>3. GroupFacts'
    BY <1>1, <1>2, <2>1, GroupsKept
  <2>4. P(server)' = P(server) /\ Chosen' = Chosen
    BY <1>1, <1>2, Sides DEF Chosen
  <2>5. ChoiceFacts'
    BY <1>1, <1>5, <2>1, <2>4 DEF ChoiceFacts, Choosing, Answering
  <2> QED
    BY <2>2, <2>3, <2>5
<1> QED
  BY <1>1, <1>2, <1>3, <1>4, <1>5 DEF Chosen, Offer

LEMMA ClientHelloAcceptedStep ==
  ASSUME Shape, Facts, ClientHelloAccepted
  PROVE  Inv'
<1>1. PICK s : /\ server' = [server EXCEPT !.hello = wire, !.state = s]
               /\ s \in {"HELLO_RETRY", "SERVER_HELLO"} /\ (s = "HELLO_RETRY" => server.hello_retry)
  <2> DEFINE s == IF server.hello_retry /\ server.hello = NoMessage THEN "HELLO_RETRY" ELSE "SERVER_HELLO"
  <2>1. server' = [server EXCEPT !.hello = wire, !.state = s]
    BY DEF ClientHelloAccepted
  <2>2. s \in {"HELLO_RETRY", "SERVER_HELLO"} /\ (s = "HELLO_RETRY" => server.hello_retry)
    OBVIOUS
  <2> HIDE DEF s
  <2> QED
    BY <2>1, <2>2
<1>2. server.state = "PROCESSED" /\ UNCHANGED <<env, client>> /\ wire' = NoMessage
  BY DEF ClientHelloAccepted
<1>3. client.state = "SERVER_HELLO"
  BY <1>2 DEF Facts, Turns
<1>4. /\ DOMAIN server' = Fields /\ server'.state = s
      /\ \A f \in Fields \ {"state", "hello"} : server'[f] = server[f]
  BY <1>1 DEF Shape, Fields
<1>5. server'.state \in Answering
  BY <1>1, <1>4 DEF Answering
<1>6. /\ Shape' /\ ClientFacts' /\ server'.hello_retry = server.hello_retry
      /\ VersionFacts' /\ GroupFacts' /\ ChoiceFacts'
  BY <1>2, <1>4, <1>5, MoveOn
<1>7. Turns'
  BY <1>1, <1>2, <1>3, <1>4, <1>6 DEF Turns
<1>8. AnswerFacts'
  BY <1>1, <1>2, <1>3, <1>4 DEF AnswerFacts
<1> QED
  BY <1>6, <1>7, <1>8 DEF Inv, Facts

(* The answer the server writes is the one its record says.                *)
LEMMA AnswerWritten ==
  ASSUME Shape, VersionFacts, server.state \in Settled, NEW random
  PROVE  LET m == ServerHello(server, random)
         IN  /\ m.type = "SERVER_HELLO" /\ m.random = random
             /\ m.legacy = MinOf(Chosen, TLS12)
             /\ m.version = IF Chosen = TLS13 THEN TLS13 ELSE Unknown
             /\ m.suite = server.cipher_suite
             /\ m.group = IF Chosen = TLS13 THEN Group(server) ELSE NoGroup
<1>1. /\ Chosen \in Versions13 /\ Offer \in TLS10..TLS13
      /\ Chosen = TLS13 => server.server_protocol_version = TLS13
      /\ Chosen # TLS13 => Chosen = MinOf(Offer, TLS12)
  BY DEF Shape, VersionFacts, Chosen, Offer
<1>2. Chosen >= TLS13 <=> Chosen = TLS13
  BY <1>1 DEF Versions13, Unknown, TLS10, TLS13
<1>3. Chosen # Unknown
  BY <1>1 DEF Versions13, Unknown, TLS10, TLS12, TLS13, MinOf
<1>4. Version(server) = Chosen
  BY <1>3 DEF Version, Chosen
<1> DEFINE m == ServerHello(server, random)
<1>5. /\ m.type = "SERVER_HELLO" /\ m.random = random /\ m.legacy = MinOf(Chosen, TLS12)
      /\ m.version = (IF Version(server) >= TLS13 THEN server.server_protocol_version ELSE Unknown)
      /\ m.suite = server.cipher_suite
      /\ m.group = (IF Chosen >= TLS13 THEN Group(server) ELSE NoGroup)
  BY DEF ServerHello, Chosen
<1> HIDE DEF m
<1>6. m.version = (IF Chosen = TLS13 THEN TLS13 ELSE Unknown) /\ m.group = (IF Chosen = TLS13 THEN Group(server) ELSE NoGroup)
  BY <1>1, <1>2, <1>4, <1>5
<1> QED
  BY <1>5, <1>6 DEF m

LEMMA RetrySendStep ==
  ASSUME Shape, Facts, s2n_server_hello_retry_send
  PROVE  Inv'
<1>1. /\ server.state = "HELLO_RETRY" /\ wire' = ServerHello(server, "retry") /\ UNCHANGED <<env, client>>
      /\ server' = [server EXCEPT !.state = "CLIENT_HELLO"]
  BY DEF s2n_server_hello_retry_send
<1>2. client.state = "SERVER_HELLO" /\ server.hello_retry
  BY <1>1 DEF Facts, Turns, Reading, Sharing, Choosing
<1>3. /\ DOMAIN server' = Fields /\ server'.state = "CLIENT_HELLO"
      /\ \A f \in Fields \ {"state", "hello"} : server'[f] = server[f]
  BY <1>1 DEF Shape, Fields
<1>4. server.state \in Answering /\ server.state \in Settled
  BY <1>1 DEF Answering, Settled
<1>5. /\ Shape' /\ ClientFacts' /\ SameSides /\ Chosen' = Chosen /\ Offer' = Offer
      /\ server'.hello_retry = server.hello_retry /\ server'.cipher_suite = server.cipher_suite
      /\ server'.server_protocol_version = server.server_protocol_version
      /\ server'.client_curve = server.client_curve /\ server'.client_kem = server.client_kem
      /\ server'.server_curve = server.server_curve /\ server'.server_kem = server.server_kem
  BY <1>1, <1>3, <1>4, MoveOn
<1>6. /\ P(server)' = P(server) /\ CommonKems' = CommonKems /\ Group(server)' = Group(server)
      /\ (SupportsTLS13(server)' <=> SupportsTLS13(server)) /\ env' = env
  BY <1>1, <1>5, Sides DEF Group
<1>7. VersionFacts /\ GroupFacts
  BY DEF Facts
<1>8. AnswerOnWire("retry")'
  <2>1. /\ wire'.type = "SERVER_HELLO" /\ wire'.random = "retry" /\ wire'.legacy = MinOf(Chosen, TLS12)
        /\ wire'.version = (IF Chosen = TLS13 THEN TLS13 ELSE Unknown) /\ wire'.suite = server.cipher_suite
        /\ wire'.group = (IF Chosen = TLS13 THEN Group(server) ELSE NoGroup)
    BY <1>1, <1>4, <1>7, AnswerWritten
  <2> QED
    BY <1>5, <1>6, <2>1 DEF AnswerOnWire
<1>9. Turns'
  <2>1. client'.state \in Parsing
    BY <1>1, <1>2 DEF Parsing
  <2> QED
    BY <1>2, <1>3, <1>5, <1>8, <2>1 DEF Turns
<1>10. VersionFacts'
  BY <1>2, <1>3, <1>4, <1>5, <1>6, <1>7 DEF VersionFacts, Sharing, Settled, Choosing, Answering
<1>11. GroupFacts' /\ ChoiceFacts' /\ AnswerFacts'
  BY <1>1, <1>2, <1>3, <1>5, <1>6, <1>7 DEF GroupFacts, ChoiceFacts, AnswerFacts, Settled, Choosing, Answering
<1> QED
  BY <1>5, <1>9, <1>10, <1>11 DEF Inv, Facts

LEMMA HelloSendStep ==
  ASSUME Shape, Facts, s2n_server_hello_send
  PROVE  Inv'
<1>1. server.state = "SERVER_HELLO" /\ UNCHANGED <<env, client>>
  BY DEF s2n_server_hello_send
<1>2. client.state = "SERVER_HELLO"
  BY <1>1 DEF Facts, Turns, Reading, Sharing, Choosing
<1>3. CASE server' = Failed(server, "share")
  BY <1>3 DEF Inv, Over, IsFailed, Failed, Shape, Fields
<1>4. CASE server' # Failed(server, "share")
  <2>1. /\ wire' = ServerHello(server, s2n_server_add_downgrade_mechanism(server))
        /\ server' = [server EXCEPT !.state = "SERVER_AUTH"]
    BY <1>4 DEF s2n_server_hello_send
  <2>2. /\ DOMAIN server' = Fields /\ server'.state = "SERVER_AUTH"
        /\ \A f \in Fields \ {"state", "hello"} : server'[f] = server[f]
    BY <2>1 DEF Shape, Fields
  <2>3. server.state \in Answering /\ server.state \in Settled /\ server'.state \in Answering
    BY <1>1, <2>2 DEF Answering, Settled
  <2>4. /\ Shape' /\ ClientFacts' /\ SameSides /\ Chosen' = Chosen
        /\ server'.cipher_suite = server.cipher_suite
        /\ server'.server_protocol_version = server.server_protocol_version
        /\ server'.server_curve = server.server_curve /\ server'.server_kem = server.server_kem
        /\ VersionFacts' /\ GroupFacts' /\ ChoiceFacts'
    BY <1>1, <2>2, <2>3, MoveOn
  <2>5. /\ Group(server)' = Group(server)
        /\ s2n_server_add_downgrade_mechanism(server)' = s2n_server_add_downgrade_mechanism(server)
    BY <2>4 DEF Group, s2n_server_add_downgrade_mechanism, Chosen
  <2>6. AnswerOnWire(s2n_server_add_downgrade_mechanism(server))'
    <3>1. /\ wire'.type = "SERVER_HELLO" /\ wire'.random = s2n_server_add_downgrade_mechanism(server)
          /\ wire'.legacy = MinOf(Chosen, TLS12)
          /\ wire'.version = (IF Chosen = TLS13 THEN TLS13 ELSE Unknown) /\ wire'.suite = server.cipher_suite
          /\ wire'.group = (IF Chosen = TLS13 THEN Group(server) ELSE NoGroup)
      BY <2>1, <2>3, AnswerWritten DEF Facts
    <3> QED
      BY <2>4, <2>5, <3>1 DEF AnswerOnWire
  <2>7. Turns'
    <3>1. client'.state \in Parsing
      BY <1>1, <1>2 DEF Parsing
    <3> QED
      BY <2>2, <2>6, <3>1 DEF Turns
  <2>8. AnswerFacts'
    BY <1>1, <1>2 DEF AnswerFacts
  <2> QED
    BY <2>4, <2>7, <2>8 DEF Inv, Facts
<1> QED
  BY <1>3, <1>4

LEMMA AuthSendStep ==
  ASSUME Shape, Facts, ServerAuthSend
  PROVE  Inv'
<1>1. /\ server.state = "SERVER_AUTH" /\ wire = NoMessage /\ UNCHANGED <<env, client>>
      /\ wire' = [type |-> "SERVER_AUTH", cert |-> server.cert,
                  scheme |-> IF Signs(server) THEN server.scheme ELSE "none", curve |-> SentCurve(server)]
      /\ server' = [server EXCEPT !.state = "DONE"]
  BY DEF ServerAuthSend
<1>2. client.state = "SERVER_AUTH"
  <2>1. NoMessage.type # "SERVER_HELLO"
    BY DEF NoMessage
  <2>2. \A r : AnswerOnWire(r) => wire.type = "SERVER_HELLO"
    BY DEF AnswerOnWire
  <2>3. ~AnswerOnWire(s2n_server_add_downgrade_mechanism(server))
    BY <1>1, <2>1, <2>2
  <2> QED
    BY <1>1, <2>3 DEF Facts, Turns, Reading, Sharing, Choosing
<1>3. /\ DOMAIN server' = Fields /\ server'.state = "DONE"
      /\ \A f \in Fields \ {"state", "hello"} : server'[f] = server[f]
  BY <1>1 DEF Shape, Fields
<1>4. server.state \in Answering /\ server'.state \in Answering
  BY <1>1, <1>3 DEF Answering
<1>5. /\ Shape' /\ ClientFacts' /\ SameSides /\ Chosen' = Chosen /\ Offer' = Offer
      /\ server'.cipher_suite = server.cipher_suite
      /\ server'.server_protocol_version = server.server_protocol_version
      /\ server'.server_curve = server.server_curve /\ server'.server_kem = server.server_kem
      /\ server'.scheme = server.scheme /\ server'.cert = server.cert
      /\ VersionFacts' /\ GroupFacts' /\ ChoiceFacts'
  BY <1>1, <1>3, <1>4, MoveOn
<1>6. /\ (Signs(server)' <=> Signs(server)) /\ SentCurve(server)' = SentCurve(server)
      /\ Group(server)' = Group(server) /\ P(client)' = P(client)
  BY <1>5, Sides DEF Signs, SentCurve, Group, Chosen
<1>7. AuthOnWire'
  BY <1>1, <1>5, <1>6 DEF AuthOnWire
<1>8. Turns'
  BY <1>1, <1>2, <1>3, <1>7 DEF Turns
<1>9. AnswerFacts'
  BY <1>1, <1>2, <1>3, <1>5, <1>6 DEF Facts, AnswerFacts, Group
<1> QED
  BY <1>5, <1>8, <1>9 DEF Inv, Facts

----------------------------------------------------------------------------
(* The client reads the answer.                                            *)

(* An answer is on the wire: a retry, or the final one.                    *)
Reply ==
    \/ server.state = "CLIENT_HELLO" /\ server.hello_retry /\ AnswerOnWire("retry")
    \/ server.state = "SERVER_AUTH" /\ AnswerOnWire(s2n_server_add_downgrade_mechanism(server))

LEMMA ReplyFacts ==
  ASSUME Shape, Facts, Reply
  PROVE  /\ (wire.random = "retry" <=> server.state = "CLIENT_HELLO")
         /\ wire.random = "retry" => server.hello_retry /\ Chosen = TLS13
         /\ wire.random # "retry" => /\ server.state = "SERVER_AUTH"
                                     /\ wire.random = s2n_server_add_downgrade_mechanism(server)
         /\ wire.legacy = MinOf(Chosen, TLS12)
         /\ wire.version = IF Chosen = TLS13 THEN TLS13 ELSE Unknown
         /\ wire.suite = server.cipher_suite
         /\ wire.group = IF Chosen = TLS13 THEN Group(server) ELSE NoGroup
         /\ Chosen = TLS13 => Offer = TLS13 /\ server.server_protocol_version = TLS13
         /\ Chosen # TLS13 => server.state = "SERVER_AUTH" /\ Chosen = MinOf(Offer, TLS12)
         /\ server.state = "SERVER_AUTH" /\ Chosen = TLS13 => Group(server) # NoGroup
<1>1. s2n_server_add_downgrade_mechanism(server) # "retry"
  BY DEF s2n_server_add_downgrade_mechanism
<1>2. /\ (wire.random = "retry" <=> server.state = "CLIENT_HELLO")
      /\ wire.random = "retry" => server.hello_retry
      /\ wire.random # "retry" => /\ server.state = "SERVER_AUTH"
                                  /\ wire.random = s2n_server_add_downgrade_mechanism(server)
      /\ wire.legacy = MinOf(Chosen, TLS12)
      /\ wire.version = (IF Chosen = TLS13 THEN TLS13 ELSE Unknown)
      /\ wire.suite = server.cipher_suite
      /\ wire.group = (IF Chosen = TLS13 THEN Group(server) ELSE NoGroup)
      /\ server.state = "SERVER_AUTH" \/ server.hello_retry
  <2>1. PICK r : AnswerOnWire(r) /\ \/ server.state = "CLIENT_HELLO" /\ server.hello_retry /\ r = "retry"
                                    \/ server.state = "SERVER_AUTH" /\ r = s2n_server_add_downgrade_mechanism(server)
    BY DEF Reply
  <2>2. /\ wire.random = r /\ wire.legacy = MinOf(Chosen, TLS12)
        /\ wire.version = (IF Chosen = TLS13 THEN TLS13 ELSE Unknown)
        /\ wire.suite = server.cipher_suite
        /\ wire.group = (IF Chosen = TLS13 THEN Group(server) ELSE NoGroup)
    BY <2>1 DEF AnswerOnWire
  <2> QED
    BY <1>1, <2>1, <2>2
<1>3. /\ server.hello_retry => Chosen = TLS13
      /\ Chosen = TLS13 => Offer = TLS13 /\ server.server_protocol_version = TLS13
      /\ server.state = "SERVER_AUTH" /\ Chosen # TLS13 => Chosen = MinOf(Offer, TLS12)
  BY <1>2 DEF Facts, VersionFacts, Settled, Answering
<1>4. server.state = "SERVER_AUTH" /\ Chosen = TLS13 => Group(server) # NoGroup
  BY DEF Facts, GroupFacts, Settled, Answering
<1> QED
  BY <1>2, <1>3, <1>4

(* Who reads an answer finds one.                                          *)
LEMMA Replied ==
  ASSUME Shape, Facts,
         \/ client.state \in Parsing \ {"SERVER_HELLO"}
         \/ client.state = "SERVER_HELLO" /\ wire.type = "SERVER_HELLO"
  PROVE  Reply
<1>1. NoMessage.type # "SERVER_HELLO"
  BY DEF NoMessage
<1>2. HelloOnWire => wire.type = "CLIENT_HELLO"
  BY DEF HelloOnWire
<1>3. CASE client.state = "SERVER_HELLO" /\ wire.type = "SERVER_HELLO"
  <2>1. wire # NoMessage /\ ~HelloOnWire
    BY <1>1, <1>2, <1>3
  <2> QED
    BY <1>3, <2>1 DEF Facts, Turns, Reply
<1>4. CASE client.state \in Parsing \ {"SERVER_HELLO"}
  <2>1. client.state \notin {"CLIENT_HELLO", "SERVER_HELLO", "SERVER_AUTH", "DONE"}
    BY <1>4 DEF Parsing
  <2> QED
    BY <2>1 DEF Facts, Turns, Reply
<1> QED
  BY <1>3, <1>4

(* The server waits while the client alone moves.                          *)
LEMMA ServerWaits ==
  ASSUME Shape, Facts, UNCHANGED <<env, server>>, DOMAIN client' = Fields,
         client'.mode = client.mode, client'.policy = client.policy, client'.build = client.build,
         client'.client_protocol_version = client.client_protocol_version,
         client'.actual_protocol_version \in TLS10..TLS13, client'.server_protocol_version \in Versions13,
         client'.hello_retry \in BOOLEAN, client'.hello_retry => server.hello_retry
  PROVE  /\ Shape' /\ VersionFacts' /\ GroupFacts' /\ ChoiceFacts'
         /\ SameSides /\ Offer' = Offer /\ Chosen' = Chosen
<1>1. SameSides /\ Offer' = Offer /\ Chosen' = Chosen /\ server' = server /\ env' = env
  BY DEF SameSides, Offer, Chosen
<1>2. Shape'
  BY <1>1 DEF Shape, EnvironmentOK
<1>3. /\ P(server)' = P(server) /\ (SupportsTLS13(server)' <=> SupportsTLS13(server)) /\ CommonKems' = CommonKems
  BY <1>1, Sides
<1>4. Group(server)' = Group(server)
  BY <1>1 DEF Group
<1>5. VersionFacts'
  BY <1>1, <1>3 DEF Facts, VersionFacts
<1>6. GroupFacts' /\ ChoiceFacts'
  BY <1>1, <1>3, <1>4 DEF Facts, GroupFacts, ChoiceFacts
<1> QED
  BY <1>1, <1>2, <1>5, <1>6

(* A step of the client within the answer.                                 *)
LEMMA ReadOn ==
  ASSUME Shape, Facts, Reply, NEW d, NEW to \in Parsing, UNCHANGED <<env, server, wire>>, DOMAIN d = Fields,
         d.mode = client.mode, d.policy = client.policy, d.build = client.build,
         d.client_protocol_version = client.client_protocol_version,
         d.actual_protocol_version \in TLS10..TLS13, d.server_protocol_version \in Versions13,
         d.hello_retry \in BOOLEAN, d.hello_retry => server.hello_retry,
         client' = [d EXCEPT !.state = to]
  PROVE  /\ Shape' /\ Turns' /\ VersionFacts' /\ GroupFacts' /\ ChoiceFacts'
         /\ SameSides /\ Offer' = Offer /\ Chosen' = Chosen
         /\ client'.state = to /\ \A f \in Fields \ {"state"} : client'[f] = d[f]
<1>1. client'.state = to /\ DOMAIN client' = Fields /\ \A f \in Fields \ {"state"} : client'[f] = d[f]
  BY DEF Fields
<1>2. /\ client'.mode = d.mode /\ client'.policy = d.policy /\ client'.build = d.build
      /\ client'.client_protocol_version = d.client_protocol_version
      /\ client'.actual_protocol_version = d.actual_protocol_version
      /\ client'.server_protocol_version = d.server_protocol_version
      /\ client'.hello_retry = d.hello_retry
  BY <1>1 DEF Fields
<1>3. /\ Shape' /\ VersionFacts' /\ GroupFacts' /\ ChoiceFacts'
      /\ SameSides /\ Offer' = Offer /\ Chosen' = Chosen
  BY <1>1, <1>2, ServerWaits
<1>4. Reply'
  BY DEF Reply, AnswerOnWire, Chosen, Group, s2n_server_add_downgrade_mechanism
<1>5. Turns'
  <2>1. client'.state \in Parsing
    BY <1>1
  <2> QED
    BY <1>4, <2>1 DEF Turns, Reply
<1> QED
  BY <1>1, <1>3, <1>5

LEMMA ServerHelloParsedStep ==
  ASSUME Shape, Facts, ServerHelloParsed
  PROVE  Inv'
<1>1. PICK d : /\ d = s2n_server_hello_parse(client, wire)
               /\ client' = IF IsFailed(d) THEN d ELSE [d EXCEPT !.state = "SH_VERSIONS"]
  BY DEF ServerHelloParsed, ClientStep
<1>2. client.state = "SERVER_HELLO" /\ UNCHANGED <<env, server, wire>> /\ wire.type = "SERVER_HELLO"
  BY DEF ServerHelloParsed, ClientStep
<1>3. Reply
  BY <1>2, Replied DEF Parsing
<1>4. CASE IsFailed(d)
  BY <1>1, <1>4 DEF Inv, Over, IsFailed
<1>5. CASE ~IsFailed(d)
  <2>1. /\ DOMAIN client = Fields /\ client.policy \in DOMAIN security_policy_selection
        /\ Offer \in TLS10..TLS13 /\ client.actual_protocol_version \in TLS10..TLS13
        /\ client.server_protocol_version \in Versions13 /\ client.hello_retry \in BOOLEAN
        /\ client.hello_retry => server.hello_retry
    BY DEF Shape, Offer
  <2>2. \A why : IsFailed(Failed(client, why))
    BY <2>1 DEF IsFailed, Failed, Fields
  <2>3. /\ DOMAIN d = Fields /\ \A f \in Fields \ {"hello_retry"} : d[f] = client[f]
        /\ d.hello_retry \in BOOLEAN /\ (client.hello_retry => d.hello_retry)
        /\ wire.random = "retry" => d.hello_retry
        /\ d.hello_retry => server.hello_retry
    <3>1. CASE wire.random # "retry"
      <4>1. d = client
        BY <1>1, <3>1 DEF s2n_server_hello_parse
      <4> QED
        BY <2>1, <3>1, <4>1
    <3>2. CASE wire.random = "retry"
      <4>1. d = [client EXCEPT !.hello_retry = TRUE]
        BY <1>1, <1>5, <2>2, <3>2 DEF s2n_server_hello_parse
      <4>2. server.hello_retry
        BY <1>3, <3>2, ReplyFacts
      <4> QED
        BY <2>1, <4>1, <4>2 DEF Fields
    <3> QED
      BY <3>1, <3>2
  <2>4. /\ d.mode = client.mode /\ d.policy = client.policy /\ d.build = client.build
        /\ d.client_protocol_version = client.client_protocol_version
        /\ d.actual_protocol_version = client.actual_protocol_version
        /\ d.server_protocol_version = client.server_protocol_version
        /\ d.server_curve = client.server_curve /\ d.server_kem = client.server_kem
        /\ d.client_curve = client.client_curve /\ d.client_kem = client.client_kem
    BY <2>3 DEF Fields
  <2>5. /\ Shape' /\ Turns' /\ VersionFacts' /\ GroupFacts' /\ ChoiceFacts'
        /\ SameSides /\ Offer' = Offer /\ Chosen' = Chosen
        /\ client'.state = "SH_VERSIONS" /\ \A f \in Fields \ {"state"} : client'[f] = d[f]
    <3>1. client' = [d EXCEPT !.state = "SH_VERSIONS"] /\ "SH_VERSIONS" \in Parsing
      BY <1>1, <1>5 DEF Parsing
    <3> QED
      BY <1>2, <1>3, <2>1, <2>3, <2>4, <3>1, ReadOn DEF Offer
  <2>6. /\ client'.actual_protocol_version = client.actual_protocol_version
        /\ client'.server_protocol_version = client.server_protocol_version
        /\ client'.server_curve = client.server_curve /\ client'.server_kem = client.server_kem
        /\ client'.client_kem = client.client_kem /\ client'.hello_retry = d.hello_retry
    BY <2>4, <2>5 DEF Fields
  <2>7. ClientFacts'
    <3>1. P(client)' = P(client) /\ (SupportsTLS13(client)' <=> SupportsTLS13(client)) /\ env' = env /\ server' = server
      BY <1>2, <2>5, Sides
    <3>2. ClientFacts /\ client.state \in Parsing
      BY <1>2 DEF Facts, Parsing
    <3> QED
      BY <1>2, <2>3, <2>5, <2>6, <3>1, <3>2 DEF ClientFacts, Parsing
  <2>8. AnswerFacts'
    <3>1. server'.state = "CLIENT_HELLO" => client'.hello_retry
      BY <1>2, <1>3, <2>3, <2>6, ReplyFacts
    <3> QED
      BY <2>5, <3>1 DEF AnswerFacts
  <2> QED
    BY <2>5, <2>7, <2>8 DEF Inv, Facts
<1> QED
  BY <1>4, <1>5

LEMMA ServerHelloVersionsStep ==
  ASSUME Shape, Facts, ServerHelloVersions
  PROVE  Inv'
<1>1. PICK d : /\ d = s2n_server_supported_versions_recv(client, wire)
               /\ client' = IF IsFailed(d) THEN d ELSE [d EXCEPT !.state = "SH_KEY_SHARE"]
  BY DEF ServerHelloVersions, ClientStep
<1>2. client.state = "SH_VERSIONS" /\ UNCHANGED <<env, server, wire>>
  BY DEF ServerHelloVersions, ClientStep
<1>3. Reply
  BY <1>2, Replied DEF Parsing
<1>4. CASE IsFailed(d)
  BY <1>1, <1>4 DEF Inv, Over, IsFailed
<1>5. CASE ~IsFailed(d)
  <2>1. /\ DOMAIN client = Fields /\ client.policy \in DOMAIN security_policy_selection
        /\ Offer \in TLS10..TLS13 /\ client.actual_protocol_version \in TLS10..TLS13
        /\ client.server_protocol_version \in Versions13 /\ client.hello_retry \in BOOLEAN
        /\ client.hello_retry => server.hello_retry
    BY DEF Shape, Offer
  <2>2. \A why : IsFailed(Failed(client, why))
    BY <2>1 DEF IsFailed, Failed, Fields
  <2>3. DOMAIN d = Fields /\ \A f \in Fields \ {"server_protocol_version"} : d[f] = client[f]
    <3>1. d = client \/ d = [client EXCEPT !.server_protocol_version = wire.version]
      BY <1>1, <1>5, <2>2 DEF s2n_server_supported_versions_recv
    <3> QED
      BY <2>1, <3>1 DEF Fields
  <2>4. d.server_protocol_version = IF Chosen = TLS13 THEN TLS13 ELSE Unknown
    <3>1. wire.version = (IF Chosen = TLS13 THEN TLS13 ELSE Unknown) /\ (Chosen = TLS13 => Offer = TLS13)
      BY <1>3, ReplyFacts
    <3>2. CASE Chosen # TLS13
      <4>1. d = client
        BY <1>1, <3>1, <3>2 DEF s2n_server_supported_versions_recv
      <4>2. ~server.hello_retry
        BY <3>2 DEF Facts, VersionFacts
      <4>3. client.server_protocol_version = Unknown
        BY <1>2, <4>2 DEF Facts, ClientFacts
      <4> QED
        BY <3>2, <4>1, <4>3
    <3>3. CASE Chosen = TLS13
      <4>1. client.actual_protocol_version = TLS13
        BY <1>2, <3>1, <3>3 DEF Facts, ClientFacts
      <4>2. ~(wire.version = Unknown \/ Version(client) < TLS13)
        BY <3>1, <3>3, <4>1 DEF Version, Unknown, TLS13
      <4>3. d = [client EXCEPT !.server_protocol_version = wire.version]
        BY <1>1, <1>5, <2>2, <4>2 DEF s2n_server_supported_versions_recv
      <4> QED
        BY <2>1, <3>1, <3>3, <4>3 DEF Fields
    <3> QED
      BY <3>2, <3>3
  <2>5. /\ d.mode = client.mode /\ d.policy = client.policy /\ d.build = client.build
        /\ d.client_protocol_version = client.client_protocol_version
        /\ d.actual_protocol_version = client.actual_protocol_version
        /\ d.hello_retry = client.hello_retry
        /\ d.server_curve = client.server_curve /\ d.server_kem = client.server_kem
        /\ d.client_curve = client.client_curve /\ d.client_kem = client.client_kem
    BY <2>3 DEF Fields
  <2>6. d.server_protocol_version \in Versions13
    BY <2>4 DEF Versions13, Unknown, TLS10, TLS13
  <2>7. /\ Shape' /\ Turns' /\ VersionFacts' /\ GroupFacts' /\ ChoiceFacts'
        /\ SameSides /\ Offer' = Offer /\ Chosen' = Chosen
        /\ client'.state = "SH_KEY_SHARE" /\ \A f \in Fields \ {"state"} : client'[f] = d[f]
    <3>1. client' = [d EXCEPT !.state = "SH_KEY_SHARE"] /\ "SH_KEY_SHARE" \in Parsing
      BY <1>1, <1>5 DEF Parsing
    <3> QED
      BY <1>2, <1>3, <2>1, <2>3, <2>5, <2>6, <3>1, ReadOn DEF Offer
  <2>8. /\ client'.actual_protocol_version = client.actual_protocol_version
        /\ client'.server_protocol_version = d.server_protocol_version
        /\ client'.server_curve = client.server_curve /\ client'.server_kem = client.server_kem
        /\ client'.client_kem = client.client_kem /\ client'.hello_retry = client.hello_retry
    BY <2>3, <2>5, <2>7 DEF Fields
  <2>9. ClientFacts'
    <3>1. P(client)' = P(client) /\ (SupportsTLS13(client)' <=> SupportsTLS13(client)) /\ env' = env /\ server' = server
      BY <1>2, <2>7, Sides
    <3>2. ClientFacts /\ client.state \in Parsing
      BY <1>2 DEF Facts, Parsing
    <3> QED
      BY <1>2, <2>7, <2>8, <3>1, <3>2 DEF ClientFacts
  <2>10. AnswerFacts'
    <3>1. server'.state = "CLIENT_HELLO" => client'.hello_retry
      BY <1>2, <2>8 DEF Facts, AnswerFacts, Parsing
    <3> QED
      BY <2>4, <2>7, <2>8, <3>1 DEF AnswerFacts
  <2> QED
    BY <2>7, <2>9, <2>10 DEF Inv, Facts
<1> QED
  BY <1>4, <1>5

LEMMA ServerHelloKeyShareStep ==
  ASSUME Shape, Facts, ServerHelloKeyShare
  PROVE  Inv'
<1>1. PICK d : /\ d = (IF client.actual_protocol_version >= TLS13 THEN s2n_server_key_share_recv(client, wire) ELSE client)
               /\ client' = IF IsFailed(d) THEN d ELSE [d EXCEPT !.state = "SH_SUITE"]
  BY DEF ServerHelloKeyShare, ClientStep
<1>2. client.state = "SH_KEY_SHARE" /\ UNCHANGED <<env, server, wire>>
  BY DEF ServerHelloKeyShare, ClientStep
<1>3. Reply
  BY <1>2, Replied DEF Parsing
<1>4. CASE IsFailed(d)
  BY <1>1, <1>4 DEF Inv, Over, IsFailed
<1>5. CASE ~IsFailed(d)
  <2>1. /\ DOMAIN client = Fields /\ client.policy \in DOMAIN security_policy_selection
        /\ Offer \in TLS10..TLS13 /\ client.actual_protocol_version \in TLS10..TLS13
        /\ client.server_protocol_version \in Versions13 /\ client.hello_retry \in BOOLEAN
        /\ client.hello_retry => server.hello_retry
    BY DEF Shape, Offer
  <2>2. \A why : IsFailed(Failed(client, why))
    BY <2>1 DEF IsFailed, Failed, Fields
  <2>3. /\ DOMAIN d = Fields
        /\ \/ d = client /\ ~(Chosen = TLS13 /\ server.state = "SERVER_AUTH")
           \/ /\ d.server_curve = wire.group /\ wire.group \in InList(P(client).ecc_preferences)
              /\ d.client_kem = NoGroup /\ d.server_kem = client.server_kem
           \/ /\ d.server_kem = wire.group /\ wire.group \in InList(P(client).kem_preferences.groups)
              /\ d.client_kem = client.client_kem /\ d.server_curve = client.server_curve
              /\ server.state = "SERVER_AUTH" => client.client_kem = wire.group
        /\ \A f \in Fields \ {"server_curve", "server_kem", "client_kem"} : d[f] = client[f]
    <3>1. /\ wire.group = (IF Chosen = TLS13 THEN Group(server) ELSE NoGroup)
          /\ (Chosen = TLS13 => Offer = TLS13)
          /\ (server.state = "SERVER_AUTH" /\ Chosen = TLS13 => Group(server) # NoGroup)
          /\ (wire.random = "retry" => server.state # "SERVER_AUTH")
      BY <1>3, ReplyFacts
    <3>2. client.actual_protocol_version = Offer
      BY <1>2 DEF Facts, ClientFacts
    <3>3. CASE ~(client.actual_protocol_version >= TLS13) \/ wire.group = NoGroup
      <4>1. d = client
        BY <1>1, <3>3 DEF s2n_server_key_share_recv
      <4>2. TLS13 >= TLS13
        BY DEF TLS13
      <4>3. ~(Chosen = TLS13 /\ server.state = "SERVER_AUTH")
        BY <3>1, <3>2, <3>3, <4>2
      <4> QED
        BY <2>1, <4>1, <4>3
    <3>4. CASE ~(~(client.actual_protocol_version >= TLS13) \/ wire.group = NoGroup)
      <4>1. CASE wire.group \in InList(P(client).ecc_preferences)
        <5>1. d = s2n_server_key_share_recv_ecc(client, wire)
          BY <1>1, <3>4, <4>1 DEF s2n_server_key_share_recv
        <5>2. d = [client EXCEPT !.server_curve = wire.group, !.client_kem = NoGroup]
          BY <1>5, <2>2, <5>1 DEF s2n_server_key_share_recv_ecc
        <5> QED
          BY <2>1, <4>1, <5>2 DEF Fields
      <4>2. CASE wire.group \notin InList(P(client).ecc_preferences)
        <5>1. wire.group \in InList(P(client).kem_preferences.groups) /\ d = s2n_server_key_share_recv_pq_hybrid(client, wire)
          BY <1>1, <1>5, <2>2, <3>4, <4>2 DEF s2n_server_key_share_recv
        <5>2. /\ d = [client EXCEPT !.server_kem = wire.group]
              /\ wire.random # "retry" => client.client_kem = wire.group
          BY <1>5, <2>2, <5>1 DEF s2n_server_key_share_recv_pq_hybrid
        <5> QED
          BY <2>1, <3>1, <5>1, <5>2 DEF Fields
      <4> QED
        BY <4>1, <4>2
    <3> QED
      BY <3>3, <3>4
  <2>4. /\ d.mode = client.mode /\ d.policy = client.policy /\ d.build = client.build
        /\ d.client_protocol_version = client.client_protocol_version
        /\ d.actual_protocol_version = client.actual_protocol_version
        /\ d.server_protocol_version = client.server_protocol_version
        /\ d.hello_retry = client.hello_retry
    BY <2>3 DEF Fields
  <2>5. /\ Shape' /\ Turns' /\ VersionFacts' /\ GroupFacts' /\ ChoiceFacts'
        /\ SameSides /\ Offer' = Offer /\ Chosen' = Chosen
        /\ client'.state = "SH_SUITE" /\ \A f \in Fields \ {"state"} : client'[f] = d[f]
    <3>1. client' = [d EXCEPT !.state = "SH_SUITE"] /\ "SH_SUITE" \in Parsing
      BY <1>1, <1>5 DEF Parsing
    <3> QED
      BY <1>2, <1>3, <2>1, <2>3, <2>4, <3>1, ReadOn DEF Offer
  <2>6. /\ client'.actual_protocol_version = client.actual_protocol_version
        /\ client'.server_protocol_version = client.server_protocol_version
        /\ client'.server_curve = d.server_curve /\ client'.server_kem = d.server_kem
        /\ client'.client_kem = d.client_kem /\ client'.hello_retry = client.hello_retry
    BY <2>3, <2>4, <2>5 DEF Fields
  <2>7. NoGroup \notin InList(P(client).kem_preferences.groups) /\ NoGroup \notin InList(P(client).ecc_preferences)
    BY <2>1, PolicyOf
  <2>8. /\ client.server_curve \in {NoGroup} \union InList(P(client).ecc_preferences)
        /\ client.server_kem \in {NoGroup} \union InList(P(client).kem_preferences.groups)
        /\ client.server_curve # NoGroup => client.client_kem = NoGroup
    BY <1>2 DEF Facts, ClientFacts, Parsing
  <2>9. /\ d.server_curve \in {NoGroup} \union InList(P(client).ecc_preferences)
        /\ d.server_kem \in {NoGroup} \union InList(P(client).kem_preferences.groups)
        /\ d.server_curve # NoGroup => d.client_kem = NoGroup
        /\ server.state = "SERVER_AUTH" /\ Chosen = TLS13 => Group(d) = Group(server)
    <3>1. Chosen = TLS13 => wire.group = Group(server)
      BY <1>3, ReplyFacts
    <3>2. CASE d = client /\ ~(Chosen = TLS13 /\ server.state = "SERVER_AUTH")
      BY <2>8, <3>2
    <3>3. CASE d.server_curve = wire.group /\ wire.group \in InList(P(client).ecc_preferences)
               /\ d.client_kem = NoGroup /\ d.server_kem = client.server_kem
      <4>1. Group(d) = wire.group
        BY <2>7, <3>3 DEF Group
      <4> QED
        BY <2>8, <3>1, <3>3, <4>1
    <3>4. CASE /\ d.server_kem = wire.group /\ wire.group \in InList(P(client).kem_preferences.groups)
               /\ d.client_kem = client.client_kem /\ d.server_curve = client.server_curve
               /\ server.state = "SERVER_AUTH" => client.client_kem = wire.group
      <4>1. server.state = "SERVER_AUTH" => d.server_curve = NoGroup
        BY <2>7, <2>8, <3>4
      <4>2. server.state = "SERVER_AUTH" => Group(d) = wire.group
        BY <3>4, <4>1 DEF Group
      <4> QED
        BY <2>8, <3>1, <3>4, <4>2
    <3> QED
      BY <2>3, <3>2, <3>3, <3>4
  <2>10. /\ P(client)' = P(client) /\ (SupportsTLS13(client)' <=> SupportsTLS13(client)) /\ env' = env /\ server' = server
         /\ Group(client)' = Group(d) /\ Group(server)' = Group(server)
    BY <1>2, <2>5, <2>6, Sides DEF Group
  <2>11. ClientFacts'
    <3>1. ClientFacts
      BY DEF Facts
    <3> QED
      BY <1>2, <2>5, <2>6, <2>9, <2>10, <3>1 DEF ClientFacts
  <2>12. AnswerFacts'
    <3>1. server'.state = "CLIENT_HELLO" => client'.hello_retry
      BY <1>2, <2>6 DEF Facts, AnswerFacts, Parsing
    <3>2. client.server_protocol_version = IF Chosen = TLS13 THEN TLS13 ELSE Unknown
      BY <1>2 DEF Facts, AnswerFacts
    <3>3. server'.state # "DONE"
      BY <1>2, <1>3 DEF Reply
    <3> QED
      BY <2>5, <2>6, <2>9, <2>10, <3>1, <3>2, <3>3 DEF AnswerFacts
  <2> QED
    BY <2>5, <2>11, <2>12 DEF Inv, Facts
<1> QED
  BY <1>4, <1>5

(* The suite the client takes is the one it is told, and one of its list.  *)
LEMMA SuiteTaken ==
  ASSUME NEW c, DOMAIN c = Fields, NEW m, ~IsFailed(s2n_set_cipher_as_client(c, m))
  PROVE  LET d == s2n_set_cipher_as_client(c, m)
         IN  /\ DOMAIN d = Fields /\ \A f \in Fields \ {"cipher_suite"} : d[f] = c[f]
             /\ d.cipher_suite = m.suite /\ m.suite \in InList(CipherList(P(c)))
<1>1. IsFailed(Failed(c, "suite"))
  BY DEF IsFailed, Failed, Fields
<1>2. PICK d : d = s2n_set_cipher_as_client(c, m)
  OBVIOUS
<1>3. m.suite \in InList(CipherList(P(c))) /\ (d = [c EXCEPT !.cipher_suite = m.suite] \/ (d = c /\ m.suite = c.cipher_suite))
  BY <1>1, <1>2 DEF s2n_set_cipher_as_client
<1>4. /\ DOMAIN d = Fields /\ \A f \in Fields \ {"cipher_suite"} : d[f] = c[f]
      /\ d.cipher_suite = m.suite
  BY <1>3 DEF Fields
<1> QED
  BY <1>2, <1>3, <1>4

LEMMA ServerHelloSuiteStep ==
  ASSUME Shape, Facts, ServerHelloSuite
  PROVE  Inv'
<1>1. PICK d : /\ d = NegotiatedVersion(client, wire)
               /\ client' = IF IsFailed(d) THEN d ELSE [d EXCEPT !.state = "SH_DONE"]
  BY DEF ServerHelloSuite, ClientStep
<1>2. client.state = "SH_SUITE" /\ UNCHANGED <<env, server, wire>>
  BY DEF ServerHelloSuite, ClientStep
<1>3. Reply
  BY <1>2, Replied DEF Parsing
<1>4. CASE IsFailed(d)
  BY <1>1, <1>4 DEF Inv, Over, IsFailed
<1>5. CASE ~IsFailed(d)
  <2>1. /\ DOMAIN client = Fields /\ client.policy \in DOMAIN security_policy_selection
        /\ Offer \in TLS10..TLS13 /\ client.actual_protocol_version \in TLS10..TLS13
        /\ client.server_protocol_version \in Versions13 /\ client.hello_retry \in BOOLEAN
        /\ client.hello_retry => server.hello_retry
    BY DEF Shape, Offer
  <2>2. \A why : IsFailed(Failed(client, why))
    BY <2>1 DEF IsFailed, Failed, Fields
  <2>3. /\ client.server_protocol_version = (IF Chosen = TLS13 THEN TLS13 ELSE Unknown)
        /\ (Chosen = TLS13 => Offer = TLS13)
        /\ (Chosen # TLS13 => server.state = "SERVER_AUTH" /\ Chosen = MinOf(Offer, TLS12))
        /\ wire.legacy = MinOf(Chosen, TLS12) /\ wire.suite = server.cipher_suite
        /\ (server.state # "CLIENT_HELLO" => wire.random = s2n_server_add_downgrade_mechanism(server))
        /\ Chosen \in Versions13 /\ P(client).minimum_protocol_version \in SSLv3..TLS13
    <3>1. client.server_protocol_version = (IF Chosen = TLS13 THEN TLS13 ELSE Unknown)
      BY <1>2 DEF Facts, AnswerFacts
    <3>2. P(client).minimum_protocol_version \in SSLv3..TLS13 /\ Chosen \in Versions13
      BY <2>1, PolicyOf DEF Shape, Chosen
    <3> QED
      BY <1>3, <3>1, <3>2, ReplyFacts
  <2>4. /\ DOMAIN d = Fields
        /\ \A f \in Fields \ {"cipher_suite", "server_protocol_version", "actual_protocol_version"} : d[f] = client[f]
        /\ d.cipher_suite = server.cipher_suite /\ d.cipher_suite \in InList(CipherList(P(client)))
        /\ d.actual_protocol_version = Chosen /\ d.server_protocol_version = Chosen
        /\ Chosen >= P(client).minimum_protocol_version
        /\ Chosen # TLS13 => ~(server.server_protocol_version = TLS13 /\ Offer = TLS13)
    <3>1. CASE Chosen = TLS13
      <4> DEFINE c == [client EXCEPT !.actual_protocol_version = client.server_protocol_version]
      <4>1. client.server_protocol_version >= TLS13
        BY <2>3, <3>1 DEF TLS13
      <4>2. d = s2n_set_cipher_as_client(c, wire)
        BY <1>1, <4>1 DEF NegotiatedVersion
      <4>3. /\ DOMAIN c = Fields /\ c.actual_protocol_version = TLS13 /\ c.server_protocol_version = TLS13
            /\ \A f \in Fields \ {"actual_protocol_version"} : c[f] = client[f]
        BY <2>1, <2>3, <3>1 DEF Fields
      <4> HIDE DEF c
      <4>4. P(c) = P(client)
        BY <4>3 DEF P, Fields
      <4>5. /\ DOMAIN d = Fields /\ \A f \in Fields \ {"cipher_suite"} : d[f] = c[f]
            /\ d.cipher_suite = wire.suite /\ wire.suite \in InList(CipherList(P(client)))
        BY <1>5, <4>2, <4>3, <4>4, SuiteTaken
      <4>6. d.actual_protocol_version = TLS13 /\ d.server_protocol_version = TLS13
        BY <4>3, <4>5 DEF Fields
      <4>7. TLS13 >= P(client).minimum_protocol_version
        BY <2>3 DEF SSLv3, TLS13
      <4> QED
        BY <2>3, <3>1, <4>3, <4>5, <4>6, <4>7
    <3>2. CASE Chosen # TLS13
      <4> DEFINE c == [client EXCEPT !.server_protocol_version = wire.legacy,
                                     !.actual_protocol_version = MinOf(wire.legacy, client.client_protocol_version)]
      <4>1. Chosen \in TLS10..TLS12 /\ wire.legacy = Chosen /\ Chosen <= Offer
        BY <2>1, <2>3, <3>2 DEF MinOf, TLS10, TLS12, TLS13
      <4>2. ~(client.server_protocol_version >= TLS13)
        BY <2>3, <3>2 DEF Unknown, TLS13
      <4>3. d = LegacyServerHello(client, wire)
        BY <1>1, <4>2 DEF NegotiatedVersion
      <4>4. /\ ~s2n_client_detect_downgrade_mechanism(client, wire)
            /\ ~(wire.legacy < P(client).minimum_protocol_version)
            /\ d = s2n_set_cipher_as_client(c, wire)
        BY <1>5, <2>2, <4>3 DEF LegacyServerHello
      <4>5. MinOf(wire.legacy, client.client_protocol_version) = Chosen
        BY <2>1, <4>1 DEF MinOf, Offer, TLS10, TLS12, TLS13
      <4>6. /\ DOMAIN c = Fields /\ c.actual_protocol_version = Chosen /\ c.server_protocol_version = Chosen
            /\ \A f \in Fields \ {"server_protocol_version", "actual_protocol_version"} : c[f] = client[f]
        BY <2>1, <4>1, <4>5 DEF Fields
      <4> HIDE DEF c
      <4>7. P(c) = P(client)
        BY <4>6 DEF P, Fields
      <4>8. /\ DOMAIN d = Fields /\ \A f \in Fields \ {"cipher_suite"} : d[f] = c[f]
            /\ d.cipher_suite = wire.suite /\ wire.suite \in InList(CipherList(P(client)))
        BY <1>5, <4>4, <4>6, <4>7, SuiteTaken
      <4>9. d.actual_protocol_version = Chosen /\ d.server_protocol_version = Chosen
        BY <4>6, <4>8 DEF Fields
      <4>10. Chosen >= P(client).minimum_protocol_version
        BY <2>3, <4>1, <4>4 DEF SSLv3, TLS10, TLS12, TLS13
      <4>11. ~(server.server_protocol_version = TLS13 /\ Offer = TLS13)
        <5>1. ASSUME server.server_protocol_version = TLS13, Offer = TLS13 PROVE FALSE
          <6>1. Chosen = TLS12
            BY <2>3, <3>2, <5>1 DEF MinOf, TLS12, TLS13
          <6>2. s2n_server_add_downgrade_mechanism(server) = "tls12_downgrade"
            BY <5>1, <6>1 DEF s2n_server_add_downgrade_mechanism, Chosen, TLS11, TLS12, TLS13
          <6>3. wire.random = "tls12_downgrade"
            BY <2>3, <3>2, <6>2
          <6> QED
            BY <4>1, <4>4, <5>1, <6>1, <6>3 DEF s2n_client_detect_downgrade_mechanism, Offer
        <5> QED
          BY <5>1
      <4> QED
        BY <2>3, <4>6, <4>8, <4>9, <4>10, <4>11
    <3> QED
      BY <3>1, <3>2
  <2>5. /\ d.mode = client.mode /\ d.policy = client.policy /\ d.build = client.build
        /\ d.client_protocol_version = client.client_protocol_version
        /\ d.hello_retry = client.hello_retry
        /\ d.server_curve = client.server_curve /\ d.server_kem = client.server_kem
        /\ d.client_kem = client.client_kem
    BY <2>4 DEF Fields
  <2>6. Chosen \in TLS10..TLS13
    BY <2>1, <2>3 DEF MinOf, TLS10, TLS12, TLS13
  <2>7. /\ Shape' /\ Turns' /\ VersionFacts' /\ GroupFacts' /\ ChoiceFacts'
        /\ SameSides /\ Offer' = Offer /\ Chosen' = Chosen
        /\ client'.state = "SH_DONE" /\ \A f \in Fields \ {"state"} : client'[f] = d[f]
    <3>1. client' = [d EXCEPT !.state = "SH_DONE"] /\ "SH_DONE" \in Parsing
      BY <1>1, <1>5 DEF Parsing
    <3> QED
      BY <1>2, <1>3, <2>1, <2>3, <2>4, <2>5, <2>6, <3>1, ReadOn DEF Offer
  <2>8. /\ client'.actual_protocol_version = Chosen
        /\ client'.server_protocol_version = Chosen
        /\ client'.cipher_suite = d.cipher_suite
        /\ client'.server_curve = client.server_curve /\ client'.server_kem = client.server_kem
        /\ client'.client_kem = client.client_kem /\ client'.hello_retry = client.hello_retry
    BY <2>4, <2>5, <2>7 DEF Fields
  <2>9. /\ P(client)' = P(client) /\ (SupportsTLS13(client)' <=> SupportsTLS13(client)) /\ env' = env /\ server' = server
        /\ Group(client)' = Group(client) /\ Group(server)' = Group(server)
    BY <1>2, <2>7, <2>8, Sides DEF Group
  <2>10. ClientFacts'
    <3>1. ClientFacts /\ client.state \in Parsing
      BY <1>2 DEF Facts, Parsing
    <3> QED
      BY <1>2, <2>7, <2>8, <2>9, <3>1 DEF ClientFacts
  <2>11. AnswerFacts'
    <3>1. server'.state = "CLIENT_HELLO" => client'.hello_retry
      BY <1>2, <2>8 DEF Facts, AnswerFacts, Parsing
    <3>2. server.state = "CLIENT_HELLO" => Chosen = TLS13 /\ Offer = TLS13
      BY <1>3, <2>3, ReplyFacts
    <3>3. server.state \in {"SERVER_AUTH", "DONE"} /\ Chosen = TLS13 => Group(client) = Group(server)
      BY <1>2 DEF Facts, AnswerFacts
    <3>4. client'.state = "SH_DONE" /\ Offer' = Offer /\ Chosen' = Chosen
      BY <2>7
    <3> QED
      BY <2>4, <2>8, <2>9, <3>1, <3>2, <3>3, <3>4 DEF AnswerFacts
  <2> QED
    BY <2>7, <2>10, <2>11 DEF Inv, Facts
<1> QED
  BY <1>4, <1>5

LEMMA ServerHelloAcceptedStep ==
  ASSUME Shape, Facts, ServerHelloAccepted
  PROVE  Inv'
<1>1. /\ client.state = "SH_DONE" /\ UNCHANGED <<env, server>> /\ wire' = NoMessage
      /\ client' = IF wire.random = "retry" THEN s2n_server_hello_retry_recv(client)
                   ELSE [client EXCEPT !.state = "SERVER_AUTH"]
  BY DEF ServerHelloAccepted
<1>2. Reply
  BY <1>1, Replied DEF Parsing
<1>3. DOMAIN client = Fields /\ ClientFacts /\ AnswerFacts
  BY DEF Shape, Facts
<1>4. ASSUME NEW to, client' = [client EXCEPT !.state = to]
      PROVE  /\ client'.state = to /\ DOMAIN client' = Fields /\ \A f \in Fields \ {"state"} : client'[f] = client[f]
             /\ Shape' /\ VersionFacts' /\ GroupFacts' /\ ChoiceFacts'
             /\ SameSides /\ Offer' = Offer /\ Chosen' = Chosen
             /\ client'.actual_protocol_version = client.actual_protocol_version
             /\ client'.server_protocol_version = client.server_protocol_version
             /\ client'.cipher_suite = client.cipher_suite
             /\ client'.server_curve = client.server_curve /\ client'.server_kem = client.server_kem
             /\ client'.client_kem = client.client_kem /\ client'.hello_retry = client.hello_retry
             /\ P(client)' = P(client) /\ (SupportsTLS13(client)' <=> SupportsTLS13(client))
             /\ Group(client)' = Group(client) /\ Group(server)' = Group(server)
  <2>1. client'.state = to /\ DOMAIN client' = Fields /\ \A f \in Fields \ {"state"} : client'[f] = client[f]
    BY <1>3, <1>4 DEF Fields
  <2>2. /\ client'.mode = client.mode /\ client'.policy = client.policy /\ client'.build = client.build
        /\ client'.client_protocol_version = client.client_protocol_version
        /\ client'.actual_protocol_version = client.actual_protocol_version
        /\ client'.server_protocol_version = client.server_protocol_version
        /\ client'.cipher_suite = client.cipher_suite
        /\ client'.server_curve = client.server_curve /\ client'.server_kem = client.server_kem
        /\ client'.client_kem = client.client_kem /\ client'.hello_retry = client.hello_retry
    BY <2>1 DEF Fields
  <2>3. /\ client.actual_protocol_version \in TLS10..TLS13 /\ client.server_protocol_version \in Versions13
        /\ client.hello_retry \in BOOLEAN /\ (client.hello_retry => server.hello_retry)
    BY DEF Shape
  <2>4. /\ Shape' /\ VersionFacts' /\ GroupFacts' /\ ChoiceFacts'
        /\ SameSides /\ Offer' = Offer /\ Chosen' = Chosen
    BY <1>1, <2>1, <2>2, <2>3, ServerWaits
  <2> QED
    BY <1>1, <2>1, <2>2, <2>4, Sides DEF Group
<1>5. CASE wire.random = "retry"
  <2>1. server.state = "CLIENT_HELLO" /\ server.hello_retry
    BY <1>2, <1>5, ReplyFacts
  <2>2. CASE client' = Failed(client, "retry")
    BY <1>3, <2>2 DEF Inv, Over, IsFailed, Failed, Fields
  <2>3. CASE client' # Failed(client, "retry")
    <3>1. /\ client' = [client EXCEPT !.state = "CLIENT_HELLO"]
          /\ client.server_curve = NoGroup \/ client.server_kem = NoGroup
      BY <1>1, <1>5, <2>3 DEF s2n_server_hello_retry_recv
    <3>2. /\ client.hello_retry /\ client.actual_protocol_version = Offer /\ client.server_protocol_version = TLS13
      BY <1>1, <1>3, <2>1 DEF AnswerFacts, Parsing
    <3>3. /\ client'.state = "CLIENT_HELLO" /\ Shape' /\ VersionFacts' /\ GroupFacts' /\ ChoiceFacts'
          /\ Offer' = Offer /\ client'.actual_protocol_version = client.actual_protocol_version
          /\ client'.server_protocol_version = client.server_protocol_version
          /\ client'.server_curve = client.server_curve /\ client'.server_kem = client.server_kem
          /\ client'.client_kem = client.client_kem /\ client'.hello_retry = client.hello_retry
          /\ P(client)' = P(client) /\ (SupportsTLS13(client)' <=> SupportsTLS13(client))
      BY <1>4, <3>1
    <3>4. Turns'
      BY <1>1, <2>1, <3>2, <3>3 DEF Turns
    <3>5. ClientFacts'
      <4>1. client.state \in Parsing /\ env' = env /\ server' = server
        BY <1>1 DEF Parsing
      <4> QED
        BY <1>1, <1>3, <2>1, <3>1, <3>2, <3>3, <4>1 DEF ClientFacts
    <3>6. AnswerFacts'
      BY <1>1, <2>1, <3>3 DEF AnswerFacts, Parsing
    <3> QED
      BY <3>3, <3>4, <3>5, <3>6 DEF Inv, Facts
  <2> QED
    BY <2>2, <2>3
<1>6. CASE wire.random # "retry"
  <2>1. server.state = "SERVER_AUTH" /\ server' = server /\ env' = env
    BY <1>1, <1>2, <1>6, ReplyFacts
  <2>2. client' = [client EXCEPT !.state = "SERVER_AUTH"]
    BY <1>1, <1>6
  <2>3. /\ client'.state = "SERVER_AUTH" /\ Shape' /\ VersionFacts' /\ GroupFacts' /\ ChoiceFacts'
        /\ Offer' = Offer /\ Chosen' = Chosen /\ client'.actual_protocol_version = client.actual_protocol_version
        /\ client'.cipher_suite = client.cipher_suite
        /\ client'.server_curve = client.server_curve /\ client'.server_kem = client.server_kem
        /\ P(client)' = P(client) /\ (SupportsTLS13(client)' <=> SupportsTLS13(client))
        /\ Group(client)' = Group(client) /\ Group(server)' = Group(server)
    BY <1>4, <2>2
  <2>4. Turns'
    BY <1>1, <2>1, <2>3 DEF Turns
  <2>5. ClientFacts'
    BY <1>1, <1>3, <2>1, <2>3 DEF ClientFacts, Parsing
  <2>6. AnswerFacts'
    BY <1>1, <1>3, <2>1, <2>3 DEF AnswerFacts, Parsing
  <2> QED
    BY <2>3, <2>4, <2>5, <2>6 DEF Inv, Facts
<1> QED
  BY <1>5, <1>6

LEMMA AuthRecvStep ==
  ASSUME Shape, Facts, ServerAuthRecv
  PROVE  Inv'
<1>1. /\ client.state = "SERVER_AUTH" /\ wire.type = "SERVER_AUTH" /\ UNCHANGED <<env, server>> /\ wire' = NoMessage
  BY DEF ServerAuthRecv
<1>2. server.state = "DONE" /\ AuthOnWire
  <2>1. NoMessage.type # "SERVER_AUTH"
    BY DEF NoMessage
  <2>2. wire # NoMessage
    BY <1>1, <2>1
  <2> QED
    BY <1>1, <2>2 DEF Facts, Turns, Parsing
<1>3. DOMAIN client = Fields /\ ClientFacts /\ AnswerFacts /\ Chosen \in Versions13
  BY DEF Shape, Facts, Chosen
<1> DEFINE curve == IF wire.curve # NoGroup THEN wire.curve ELSE client.server_curve
           e == [client EXCEPT !.state = "DONE", !.scheme = wire.scheme, !.cert = wire.cert, !.server_curve = curve]
<1>4. \/ \E why : client' = Failed(client, why)
      \/ /\ client' = e
         /\ Signs(client) => s2n_signature_algorithm_recv(client, wire)
         /\ wire.curve = NoGroup \/ wire.curve \in InList(P(client).ecc_preferences)
  <2>1. PICK type :
          client' = IF ~s2n_is_cert_type_valid_for_auth(client, type) THEN Failed(client, "certificate")
                    ELSE IF Signs(client) /\ ~s2n_signature_algorithm_recv(client, wire) THEN Failed(client, "signature")
                    ELSE IF wire.curve # NoGroup /\ wire.curve \notin InList(P(client).ecc_preferences)
                         THEN Failed(client, "group")
                    ELSE e
    BY DEF ServerAuthRecv
  <2> HIDE DEF e
  <2> QED
    BY <2>1
<1>5. CASE \E why : client' = Failed(client, why)
  BY <1>3, <1>5 DEF Inv, Over, IsFailed, Failed, Fields
<1>6. CASE ~\E why : client' = Failed(client, why)
  <2>1. /\ client' = e
        /\ Signs(client) => s2n_signature_algorithm_recv(client, wire)
        /\ wire.curve = NoGroup \/ wire.curve \in InList(P(client).ecc_preferences)
    BY <1>4, <1>6
  <2>2. /\ DOMAIN e = Fields /\ e.state = "DONE" /\ e.scheme = wire.scheme /\ e.cert = wire.cert /\ e.server_curve = curve
        /\ \A f \in Fields \ {"state", "scheme", "cert", "server_curve"} : e[f] = client[f]
    BY <1>3 DEF Fields
  <2> HIDE DEF e, curve
  <2>3. /\ DOMAIN client' = Fields /\ client'.state = "DONE" /\ client'.scheme = wire.scheme /\ client'.cert = wire.cert
        /\ client'.server_curve = curve
        /\ \A f \in Fields \ {"state", "scheme", "cert", "server_curve"} : client'[f] = client[f]
    BY <2>1, <2>2
  <2>4. /\ client'.mode = client.mode /\ client'.policy = client.policy /\ client'.build = client.build
        /\ client'.client_protocol_version = client.client_protocol_version
        /\ client'.actual_protocol_version = client.actual_protocol_version
        /\ client'.server_protocol_version = client.server_protocol_version
        /\ client'.cipher_suite = client.cipher_suite /\ client'.server_kem = client.server_kem
        /\ client'.hello_retry = client.hello_retry
    BY <2>3 DEF Fields
  <2>5. /\ client.actual_protocol_version \in TLS10..TLS13 /\ client.server_protocol_version \in Versions13
        /\ client.hello_retry \in BOOLEAN /\ (client.hello_retry => server.hello_retry)
    BY DEF Shape
  <2>6. /\ Shape' /\ VersionFacts' /\ GroupFacts' /\ ChoiceFacts'
        /\ SameSides /\ Offer' = Offer /\ Chosen' = Chosen
    BY <1>1, <2>3, <2>4, <2>5, ServerWaits
  <2>7. /\ P(client)' = P(client) /\ (SupportsTLS13(client)' <=> SupportsTLS13(client))
        /\ Group(server)' = Group(server) /\ (Signs(server)' <=> Signs(server)) /\ SentCurve(server)' = SentCurve(server)
        /\ (Signs(client)' <=> Signs(client)) /\ server' = server /\ env' = env
    BY <1>1, <2>4, <2>6, Sides DEF Group, Signs, SentCurve
  <2>8. Turns'
    BY <1>1, <1>2, <2>3 DEF Turns
  <2>9. ClientFacts'
    <3>1. curve \in {NoGroup} \union InList(P(client).ecc_preferences)
      BY <1>3, <2>1 DEF ClientFacts, curve
    <3> QED
      BY <1>1, <1>3, <2>3, <2>4, <2>6, <2>7, <3>1 DEF ClientFacts, Parsing
  <2>10. AnswerFacts'
    <3>1. /\ client.actual_protocol_version = Chosen /\ client.cipher_suite = server.cipher_suite
          /\ client.cipher_suite \in InList(CipherList(P(client)))
          /\ Chosen >= P(client).minimum_protocol_version
          /\ Chosen # TLS13 => ~(server.server_protocol_version = TLS13 /\ Offer = TLS13)
          /\ Chosen = TLS13 => Group(client) = Group(server)
      BY <1>1, <1>2, <1>3 DEF AnswerFacts
    <3>2. wire.cert = server.cert /\ (Signs(server) => wire.scheme = server.scheme) /\ wire.curve = SentCurve(server)
      BY <1>2 DEF AuthOnWire
    <3>3. Chosen = TLS13 => Group(client)' = Group(server)
      <4>1. Chosen = TLS13 => wire.curve = NoGroup
        BY <3>2 DEF SentCurve, Chosen, TLS13
      <4>2. Chosen = TLS13 => client'.server_curve = client.server_curve
        BY <2>3, <4>1 DEF curve
      <4> QED
        BY <2>4, <3>1, <4>2 DEF Group
    <3>4. Signs(client) /\ Chosen >= TLS12 => wire.scheme \in InList(P(client).signature_preferences)
      <4>1. Chosen >= TLS12 => ~(Chosen < TLS12)
        BY <1>3 DEF Versions13, Unknown, TLS10, TLS12, TLS13
      <4> QED
        BY <2>1, <3>1, <4>1 DEF s2n_signature_algorithm_recv
    <3>5. SentCurve(server) # NoGroup => curve = server.server_curve
      BY <3>2 DEF SentCurve, curve
    <3>6. client'.state = "DONE" /\ server'.state = "DONE" /\ Offer' = Offer /\ Chosen' = Chosen
      BY <1>2, <2>3, <2>6, <2>7
    <3>7. client'.state \notin Parsing
      BY <3>6 DEF Parsing
    <3> QED
      BY <2>3, <2>4, <2>7, <3>1, <3>2, <3>3, <3>4, <3>5, <3>6, <3>7 DEF AnswerFacts
  <2> QED
    BY <2>6, <2>8, <2>9, <2>10 DEF Inv, Facts
<1> QED
  BY <1>5, <1>6

LEMMA ClientHelloSendStep ==
  ASSUME Shape, Facts, s2n_client_hello_send
  PROVE  Inv'
<1> DEFINE c1 == CapClient(client)
           c == WithShares(c1)
           m == ClientHello(c)
           best == IF SupportsTLS13(client) THEN env.client.highest ELSE MinOf(env.client.highest, TLS12)
<1>1. /\ client.state = "CLIENT_HELLO" /\ wire = NoMessage /\ UNCHANGED <<env, server>>
      /\ \/ client' = Failed(c, "hello")
         \/ /\ client' = [c EXCEPT !.state = "SERVER_HELLO", !.hello = m]
            /\ wire' = IF env.strips THEN [m EXCEPT !.versions = {}] ELSE m
  BY DEF s2n_client_hello_send
<1>2. server.state = "CLIENT_HELLO" /\ server.hello_retry = client.hello_retry
  BY <1>1 DEF Facts, Turns, Parsing
<1>3. /\ DOMAIN client = Fields /\ ClientFacts /\ VersionFacts /\ GroupFacts
      /\ client.policy \in DOMAIN security_policy_selection
      /\ client.client_protocol_version \in TLS10..TLS13 /\ client.actual_protocol_version = client.client_protocol_version
      /\ env.client.highest \in TLS10..TLS13 /\ client.hello_retry \in BOOLEAN /\ env.strips \in BOOLEAN
  <2>1. client.actual_protocol_version = client.client_protocol_version
    BY <1>1 DEF Facts, ClientFacts, Offer
  <2> QED
    BY <2>1 DEF Shape, Facts, EnvironmentOK
<1>4. /\ ~client.hello_retry => Offer = env.client.highest
      /\ client.hello_retry => Offer = best /\ Offer = TLS13
  BY <1>1, <1>2, <1>3 DEF ClientFacts, VersionFacts
<1>5. client.hello_retry => SupportsTLS13(client)
  BY <1>3, <1>4 DEF MinOf, TLS10, TLS12, TLS13
<1>6. /\ DOMAIN c1 = Fields /\ c1.client_protocol_version = best /\ c1.actual_protocol_version = best
      /\ best \in TLS10..TLS13 /\ (client.hello_retry => Offer = best)
      /\ \A f \in Fields \ {"client_protocol_version", "actual_protocol_version"} : c1[f] = client[f]
  <2>1. best \in TLS10..TLS13
    BY <1>3 DEF MinOf, TLS10, TLS12, TLS13
  <2>2. CASE SupportsTLS13(client)
    BY <1>3, <1>4, <2>1, <2>2 DEF CapClient, Offer
  <2>3. CASE ~SupportsTLS13(client)
    <3>1. c1 = [client EXCEPT !.client_protocol_version = MinOf(client.client_protocol_version, TLS12),
                              !.actual_protocol_version = MinOf(client.actual_protocol_version, TLS12)]
      BY <2>3 DEF CapClient
    <3>2. client.client_protocol_version = env.client.highest
      BY <1>4, <1>5, <2>3 DEF Offer
    <3>3. c1 = [client EXCEPT !.client_protocol_version = best, !.actual_protocol_version = best]
      BY <1>3, <2>3, <3>1, <3>2
    <3> HIDE DEF c1, best
    <3> QED
      BY <1>3, <1>5, <2>1, <2>3, <3>3 DEF Fields
  <2> QED
    BY <2>2, <2>3
<1> HIDE DEF c1, best
<1>7. /\ c1.policy = client.policy /\ c1.build = client.build /\ c1.mode = client.mode
      /\ c1.hello_retry = client.hello_retry /\ c1.server_protocol_version = client.server_protocol_version
      /\ c1.server_curve = client.server_curve /\ c1.server_kem = client.server_kem
      /\ c1.client_kem = client.client_kem
  BY <1>6 DEF Fields
<1>8. /\ DOMAIN c = Fields /\ \A f \in Fields \ {"client_curve", "client_kem"} : c[f] = c1[f]
      /\ c.client_kem = c1.client_kem \/ c1.server_curve = NoGroup
  <2>1. /\ client.server_curve = NoGroup \/ client.server_kem = NoGroup
        /\ ~client.hello_retry => client.server_curve = NoGroup
    BY <1>1, <1>3 DEF ClientFacts
  <2>2. CASE ~(c1.actual_protocol_version >= TLS13)
    BY <1>6, <2>2 DEF WithShares
  <2>3. CASE c1.actual_protocol_version >= TLS13
    <3>1. c = GenerateKeyShares(c1)
      BY <2>3 DEF WithShares
    <3>2. CASE c1.hello_retry
      <4>1. c = [c1 EXCEPT !.client_kem = IF c1.server_kem # NoGroup THEN c1.server_kem ELSE c1.client_kem,
                           !.client_curve = IF c1.server_curve # NoGroup THEN c1.server_curve ELSE c1.client_curve]
        BY <3>1, <3>2 DEF GenerateKeyShares
      <4> QED
        BY <1>6, <1>7, <2>1, <4>1 DEF Fields
    <3>3. CASE ~c1.hello_retry
      <4>1. c = [c1 EXCEPT !.client_kem = PreferredKem(c1, AvailableKems(c1)),
                           !.client_curve = P(c1).ecc_preferences[1]]
        BY <3>1, <3>3 DEF GenerateKeyShares
      <4>2. c1.server_curve = NoGroup
        BY <1>7, <2>1, <3>3
      <4> QED
        BY <1>6, <4>1, <4>2 DEF Fields
    <3> QED
      BY <3>2, <3>3
  <2> QED
    BY <2>2, <2>3
<1> HIDE DEF c
<1>9. /\ c.policy = client.policy /\ c.build = client.build /\ c.mode = client.mode
      /\ c.client_protocol_version = best /\ c.actual_protocol_version = best
      /\ c.hello_retry = client.hello_retry /\ c.server_protocol_version = client.server_protocol_version
      /\ c.server_curve = client.server_curve /\ c.server_kem = client.server_kem
      /\ c.client_kem = client.client_kem \/ c.server_curve = NoGroup
  BY <1>6, <1>7, <1>8 DEF Fields
<1>10. CASE client' = Failed(c, "hello")
  BY <1>8, <1>10 DEF Inv, Over, IsFailed, Failed, Fields
<1>11. CASE client' # Failed(c, "hello")
  <2>1. /\ client' = [c EXCEPT !.state = "SERVER_HELLO", !.hello = m]
        /\ wire' = IF env.strips THEN [m EXCEPT !.versions = {}] ELSE m
    BY <1>1, <1>11
  <2>2. /\ m.type = "CLIENT_HELLO" /\ m.legacy = MinOf(c.client_protocol_version, TLS12)
        /\ m.versions = s2n_client_supported_versions_send(c)
        /\ m.suites = {s \in InList(CipherList(P(c))) : s2n_cipher_suite_validate_available(c, s)}
        /\ m.groups = s2n_client_supported_groups_send(c)
        /\ DOMAIN m = {"type", "legacy", "versions", "suites", "first_suite", "groups", "schemes", "shares", "sni"}
    BY DEF ClientHello
  <2> HIDE DEF m
  <2>3. /\ DOMAIN client' = Fields /\ client'.state = "SERVER_HELLO"
        /\ \A f \in Fields \ {"state", "hello"} : client'[f] = c[f]
    BY <1>8, <2>1 DEF Fields
  <2>4. /\ client'.policy = client.policy /\ client'.build = client.build /\ client'.mode = client.mode
        /\ client'.client_protocol_version = best /\ client'.actual_protocol_version = best
        /\ client'.hello_retry = client.hello_retry /\ client'.server_protocol_version = client.server_protocol_version
        /\ client'.server_curve = client.server_curve /\ client'.server_kem = client.server_kem
        /\ client'.client_kem = client.client_kem \/ client'.server_curve = NoGroup
    BY <1>9, <2>3 DEF Fields
  <2>5. SameSides /\ Offer' = best /\ Chosen' = Chosen /\ env' = env /\ server' = server
    BY <1>1, <2>4 DEF SameSides, Offer, Chosen
  <2>6. /\ P(client)' = P(client) /\ P(server)' = P(server) /\ CommonKems' = CommonKems
        /\ (SupportsTLS13(client)' <=> SupportsTLS13(client)) /\ (SupportsTLS13(server)' <=> SupportsTLS13(server))
    BY <2>5, Sides
  <2>7. Shape'
    BY <1>6, <2>3, <2>4, <2>5 DEF Shape, EnvironmentOK
  <2>8. HelloOnWire'
    <3>1. /\ wire'.type = "CLIENT_HELLO" /\ wire'.legacy = MinOf(best, TLS12)
          /\ wire'.versions = IF env.strips THEN {} ELSE s2n_client_supported_versions_send(c)
          /\ wire'.suites = m.suites /\ wire'.groups = m.groups
      BY <1>9, <2>1, <2>2
    <3>2. Version(c) = best /\ Version(client') = best /\ P(c) = P(client)
      BY <1>6, <1>9, <2>4 DEF Version, P, Unknown, TLS10, TLS13
    <3>3. \A s \in m.suites : cipher_suite[s].minimum_required_tls_version <= best
      BY <1>9, <2>2 DEF s2n_cipher_suite_validate_available
    <3>4. m.groups = s2n_client_supported_groups_send(client')
      <4>1. P(client') = P(client) /\ AvailableKems(client') = AvailableKems(c)
        BY <1>9, <2>4, <3>2 DEF P, AvailableKems
      <4> QED
        BY <1>9, <2>2, <2>4, <3>2, <4>1 DEF s2n_client_supported_groups_send
    <3>5. P(client).minimum_protocol_version \in SSLv3..TLS13
      BY <1>3, PolicyOf
    <3>6. CASE best = TLS13
      <4>1. s2n_client_supported_versions_send(c)
              = {v \in SSLv3..TLS13 : P(client).minimum_protocol_version <= v /\ v <= TLS13}
        BY <1>9, <3>2, <3>6 DEF s2n_client_supported_versions_send, TLS13
      <4>2. s2n_client_supported_versions_send(c) = {v \in SSLv3..TLS13 : P(client).minimum_protocol_version <= v}
        BY <3>5, <4>1 DEF SSLv3, TLS13
      <4> QED
        BY <2>5, <2>6, <3>1, <3>3, <3>4, <3>6, <4>2 DEF HelloOnWire
    <3>7. CASE best # TLS13
      <4>1. ~(best >= TLS13)
        BY <1>6, <3>7 DEF TLS10, TLS13
      <4>2. s2n_client_supported_versions_send(c) = {}
        BY <3>2, <4>1 DEF s2n_client_supported_versions_send
      <4> QED
        BY <2>5, <2>6, <3>1, <3>3, <3>4, <3>7, <4>2 DEF HelloOnWire
    <3> QED
      BY <3>6, <3>7
  <2>9. Turns'
    BY <1>2, <2>3, <2>5, <2>8 DEF Turns, Reading
  <2>10. ClientFacts'
    <3>1. best = IF SupportsTLS13(client) THEN env.client.highest ELSE MinOf(env.client.highest, TLS12)
      BY DEF best
    <3> QED
      BY <1>1, <1>3, <2>3, <2>4, <2>5, <2>6, <3>1 DEF ClientFacts
  <2>11. VersionFacts'
    BY <1>2, <1>3, <1>6, <2>5, <2>6 DEF VersionFacts, Sharing, Settled, Choosing, Answering
  <2>12. GroupFacts' /\ ChoiceFacts' /\ AnswerFacts'
    <3>1. Group(server)' = Group(server)
      BY <2>5 DEF Group
    <3> QED
      BY <1>2, <1>3, <2>3, <2>5, <2>6, <3>1 DEF GroupFacts, ChoiceFacts, AnswerFacts, Choosing, Answering
  <2> QED
    BY <2>7, <2>9, <2>10, <2>11, <2>12 DEF Inv, Facts
<1> QED
  BY <1>10, <1>11

----------------------------------------------------------------------------
(* The invariant is inductive.                                             *)

LEMMA InitInv == Init => Inv
<1> SUFFICES ASSUME Init PROVE Shape /\ Facts
  BY DEF Inv
<1>1. /\ EnvironmentOK(env) /\ wire = NoMessage
      /\ client = Connection(env.client, "client") /\ server = Connection(env.server, "server")
  BY EnvironmentsAssumption DEF Init
<1>2. /\ DOMAIN client = Fields /\ client.mode = "client" /\ client.policy = env.client.policy
      /\ client.client_protocol_version = env.client.highest /\ client.server_protocol_version = Unknown
      /\ client.actual_protocol_version = env.client.highest
      /\ client.client_kem = NoGroup /\ client.server_curve = NoGroup /\ client.server_kem = NoGroup
      /\ client.hello_retry = FALSE /\ client.state = "CLIENT_HELLO"
  BY <1>1 DEF Connection, Fields
<1>3. /\ DOMAIN server = Fields /\ server.mode = "server" /\ server.policy = env.server.policy
      /\ server.client_protocol_version = Unknown /\ server.server_protocol_version = env.server.highest
      /\ server.actual_protocol_version = Unknown
      /\ server.client_kem = NoGroup /\ server.client_curve = NoGroup
      /\ server.hello_retry = FALSE /\ server.state = "CLIENT_HELLO"
  BY <1>1 DEF Connection, Fields
<1>4. Shape
  BY <1>1, <1>2, <1>3 DEF Shape, EnvironmentOK, Versions13
<1>5. Turns
  BY <1>1, <1>2, <1>3 DEF Turns
<1>6. ClientFacts
  BY <1>2 DEF ClientFacts, Offer
<1>7. VersionFacts /\ GroupFacts /\ ChoiceFacts
  BY <1>3 DEF VersionFacts, GroupFacts, ChoiceFacts, Chosen, Sharing, Settled, Choosing, Answering
<1>8. AnswerFacts
  BY <1>2, <1>3 DEF AnswerFacts, Parsing
<1> QED
  BY <1>4, <1>5, <1>6, <1>7, <1>8 DEF Facts

(* A side that failed stays so: each step moves one side, and a failed     *)
(* side takes none.                                                        *)
LEMMA OneMoves ==
  ASSUME Next
  PROVE  \/ client' = client /\ server.state # "FAILED"
         \/ server' = server /\ client.state # "FAILED"
         \/ client' = client /\ server' = server
<1>1. CASE s2n_client_hello_send
  BY <1>1 DEF s2n_client_hello_send
<1>2. CASE ClientHelloParsed \/ s2n_client_hello_cb_done \/ ClientHelloAccepted
  BY <1>2 DEF ClientHelloParsed, s2n_client_hello_cb_done, ClientHelloAccepted
<1>3. CASE ProcessVersions \/ ProcessGroups \/ ProcessKeyShare \/ SelectKeyShare
  BY <1>3 DEF ProcessVersions, ProcessGroups, ProcessKeyShare, SelectKeyShare, ServerStep
<1>4. CASE ProcessVersion \/ SelectSuite \/ SelectScheme \/ SelectCert
  BY <1>4 DEF ProcessVersion, SelectSuite, SelectScheme, SelectCert, ServerStep
<1>5. CASE s2n_server_hello_retry_send \/ s2n_server_hello_send \/ ServerAuthSend
  BY <1>5 DEF s2n_server_hello_retry_send, s2n_server_hello_send, ServerAuthSend
<1>6. CASE ServerHelloParsed \/ ServerHelloVersions \/ ServerHelloKeyShare \/ ServerHelloSuite
  BY <1>6 DEF ServerHelloParsed, ServerHelloVersions, ServerHelloKeyShare, ServerHelloSuite, ClientStep
<1>7. CASE ServerHelloAccepted \/ ServerAuthRecv
  BY <1>7 DEF ServerHelloAccepted, ServerAuthRecv
<1>8. CASE Finished
  BY <1>8 DEF Finished, vars
<1> QED
  BY <1>1, <1>2, <1>3, <1>4, <1>5, <1>6, <1>7, <1>8 DEF Next

LEMMA StepInv == Inv /\ [Next]_vars => Inv'
<1> SUFFICES ASSUME Inv, [Next]_vars PROVE Inv'
  OBVIOUS
<1>1. CASE Over
  <2>1. CASE Next
    BY <1>1, <2>1, OneMoves DEF Over, IsFailed, Inv
  <2>2. CASE UNCHANGED vars
    BY <1>1, <2>2 DEF Over, IsFailed, Inv, vars
  <2> QED
    BY <2>1, <2>2
<1>2. CASE Shape /\ Facts
  <2>1. CASE UNCHANGED vars
    <3>1. SameSides /\ client' = client /\ server' = server /\ wire' = wire /\ env' = env
      BY <2>1 DEF vars, SameSides
    <3>2. Inv' <=> Inv
      BY <3>1, Sides DEF Inv, Over, IsFailed, Shape, Facts, Turns, ClientFacts, VersionFacts, GroupFacts, ChoiceFacts,
                         AnswerFacts, HelloOnWire, AnswerOnWire, AuthOnWire, EnvironmentOK, Offer, Chosen, Group, Signs,
                         SentCurve, s2n_client_supported_groups_send, s2n_server_add_downgrade_mechanism, Version
    <3> QED
      BY <3>2
  <2>2. CASE s2n_client_hello_send
    BY <1>2, <2>2, ClientHelloSendStep
  <2>3. CASE ClientHelloParsed
    BY <1>2, <2>3, ClientHelloParsedStep
  <2>4. CASE s2n_client_hello_cb_done
    BY <1>2, <2>4, CallbackStep
  <2>5. CASE ProcessVersions
    BY <1>2, <2>5, ProcessVersionsStep
  <2>6. CASE ProcessGroups
    BY <1>2, <2>6, ProcessGroupsStep
  <2>7. CASE ProcessKeyShare
    BY <1>2, <2>7, ProcessKeyShareStep
  <2>8. CASE SelectKeyShare
    BY <1>2, <2>8, SelectKeyShareStep
  <2>9. CASE ProcessVersion
    BY <1>2, <2>9, ProcessVersionStep
  <2>10. CASE SelectSuite
    BY <1>2, <2>10, SelectSuiteStep
  <2>11. CASE SelectScheme
    BY <1>2, <2>11, SelectSchemeStep
  <2>12. CASE SelectCert
    BY <1>2, <2>12, SelectCertStep
  <2>13. CASE ClientHelloAccepted
    BY <1>2, <2>13, ClientHelloAcceptedStep
  <2>14. CASE s2n_server_hello_retry_send
    BY <1>2, <2>14, RetrySendStep
  <2>15. CASE s2n_server_hello_send
    BY <1>2, <2>15, HelloSendStep
  <2>16. CASE ServerHelloParsed
    BY <1>2, <2>16, ServerHelloParsedStep
  <2>17. CASE ServerHelloVersions
    BY <1>2, <2>17, ServerHelloVersionsStep
  <2>18. CASE ServerHelloKeyShare
    BY <1>2, <2>18, ServerHelloKeyShareStep
  <2>19. CASE ServerHelloSuite
    BY <1>2, <2>19, ServerHelloSuiteStep
  <2>20. CASE ServerHelloAccepted
    BY <1>2, <2>20, ServerHelloAcceptedStep
  <2>21. CASE ServerAuthSend
    BY <1>2, <2>21, AuthSendStep
  <2>22. CASE ServerAuthRecv
    BY <1>2, <2>22, AuthRecvStep
  <2>23. Finished => UNCHANGED vars
    BY DEF Finished
  <2> QED
    BY <2>1, <2>2, <2>3, <2>4, <2>5, <2>6, <2>7, <2>8, <2>9, <2>10, <2>11, <2>12, <2>13, <2>14, <2>15, <2>16,
       <2>17, <2>18, <2>19, <2>20, <2>21, <2>22, <2>23 DEF Next
<1> QED
  BY <1>1, <1>2 DEF Inv

----------------------------------------------------------------------------
(* What the invariant says when both sides are done.                       *)

LEMMA AtTheEnd ==
  ASSUME Inv, BothDone
  PROVE  /\ Shape /\ ClientFacts /\ VersionFacts /\ GroupFacts /\ ChoiceFacts /\ AnswerFacts
         /\ Chosen \in TLS10..TLS13 /\ Offer \in TLS10..TLS13
         /\ (Chosen >= TLS13 <=> Chosen = TLS13)
         /\ client.actual_protocol_version = Chosen
         /\ client.cipher_suite = server.cipher_suite
         /\ Chosen = TLS13 => Group(client) = Group(server) /\ Group(server) # NoGroup
         /\ Chosen # TLS13 => Chosen = MinOf(Offer, TLS12)
<1>1. Shape /\ Facts
  BY DEF Inv, Over, IsFailed, BothDone
<1>2. /\ client.actual_protocol_version = Chosen /\ client.cipher_suite = server.cipher_suite
      /\ Chosen = TLS13 => Group(client) = Group(server)
  BY <1>1 DEF Facts, AnswerFacts, BothDone
<1>3. /\ Chosen = TLS13 => Group(server) # NoGroup
      /\ Chosen # TLS13 => Chosen = MinOf(Offer, TLS12)
  BY <1>1 DEF Facts, GroupFacts, VersionFacts, BothDone, Settled, Answering
<1>4. Chosen \in TLS10..TLS13 /\ Offer \in TLS10..TLS13
  BY <1>1, <1>2 DEF Shape, Offer
<1>5. Chosen >= TLS13 <=> Chosen = TLS13
  BY <1>4 DEF TLS10, TLS13
<1> QED
  BY <1>1, <1>2, <1>3, <1>4, <1>5 DEF Facts

LEMMA InvAgreement == Inv => Agreement
<1> SUFFICES ASSUME Inv, BothDone
             PROVE  /\ client.actual_protocol_version = server.actual_protocol_version
                    /\ client.cipher_suite = server.cipher_suite
                    /\ client.cert = server.cert
                    /\ Signs(server) => client.scheme = server.scheme
                    /\ client.actual_protocol_version >= TLS13 => Group(client) = Group(server)
                    /\ SentCurve(server) # NoGroup => client.server_curve = server.server_curve
  BY DEF Agreement
<1>1. /\ client.cert = server.cert /\ (Signs(server) => client.scheme = server.scheme)
      /\ SentCurve(server) # NoGroup => client.server_curve = server.server_curve
  BY AtTheEnd DEF AnswerFacts, BothDone
<1> QED
  BY <1>1, AtTheEnd DEF Chosen

(* A side whose choices are all of its policy keeps the rules of it.       *)
LEMMA RulesKept ==
  ASSUME NEW c, c.policy \in DOMAIN security_policy_selection, c.actual_protocol_version \in TLS10..TLS13,
         c.cipher_suite \in InList(CipherList(P(c))), c.actual_protocol_version >= P(c).minimum_protocol_version,
         Signs(c) /\ c.actual_protocol_version >= TLS12 => c.scheme \in InList(P(c).signature_preferences),
         c.actual_protocol_version >= TLS13 => c.server_curve \in {NoGroup} \union InList(P(c).ecc_preferences)
  PROVE  \A rule \in P(c).rules : RuleHolds(rule, c)
<1>1. /\ s2n_security_policy_validate_security_rules(P(c)) /\ P(c).rules \subseteq {"PFS", "FIPS"}
      /\ P(c).minimum_protocol_version \in SSLv3..TLS13
  BY PolicyOf DEF WellFormed
<1>2. ASSUME "PFS" \in P(c).rules PROVE RuleHolds("PFS", c)
  <2>1. s2n_security_rule_validate_policy("PFS", P(c))
    BY <1>1, <1>2 DEF s2n_security_policy_validate_security_rules
  <2>2. \A s \in InList(CipherList(P(c))) : is_ephemeral(s)
    BY <2>1 DEF s2n_security_rule_validate_policy
  <2> QED
    BY <2>2 DEF RuleHolds
<1>3. ASSUME "FIPS" \in P(c).rules PROVE RuleHolds("FIPS", c)
  <2>1. s2n_security_rule_validate_policy("FIPS", P(c))
    BY <1>1, <1>3 DEF s2n_security_policy_validate_security_rules
  <2>2. /\ InList(CipherList(P(c))) \subseteq fips_cipher_suites
        /\ \A s \in InList(P(c).signature_preferences) : s2n_fips_validate_signature_scheme(s)
        /\ InList(P(c).ecc_preferences) \subseteq fips_curves
        /\ P(c).minimum_protocol_version >= TLS12
    BY <2>1 DEF s2n_security_rule_validate_policy, s2n_fips_validate_version
  <2>3. c.actual_protocol_version >= TLS12
    BY <1>1, <2>2 DEF SSLv3, TLS10, TLS12, TLS13
  <2>4. /\ c.cipher_suite \in fips_cipher_suites
        /\ Signs(c) => s2n_fips_validate_signature_scheme(c.scheme)
        /\ c.actual_protocol_version >= TLS13 /\ c.server_curve # NoGroup => c.server_curve \in fips_curves
    BY <2>2, <2>3
  <2> QED
    BY <2>3, <2>4 DEF RuleHolds
<1> QED
  BY <1>1, <1>2, <1>3

LEMMA InvWithinPolicies == Inv => WithinPolicies
<1> SUFFICES ASSUME Inv, BothDone PROVE WithinPolicy(client) /\ WithinPolicy(server)
  BY DEF WithinPolicies
<1>1. /\ client.policy \in DOMAIN security_policy_selection /\ server.policy \in DOMAIN security_policy_selection
      /\ server.actual_protocol_version = Chosen
  BY AtTheEnd DEF Shape, Chosen
<1>2. /\ server.cipher_suite \in InList(CipherList(P(server)))
      /\ cipher_suite[server.cipher_suite].minimum_required_tls_version <= Chosen
      /\ Chosen >= TLS12 => server.scheme \in InList(P(server).signature_preferences)
      /\ Chosen >= P(server).minimum_protocol_version
  BY AtTheEnd DEF ChoiceFacts, VersionFacts, BothDone, Settled, Answering
<1>3. /\ client.cipher_suite \in InList(CipherList(P(client))) /\ Chosen >= P(client).minimum_protocol_version
      /\ Signs(client) /\ Chosen >= TLS12 => client.scheme \in InList(P(client).signature_preferences)
  BY AtTheEnd DEF AnswerFacts, BothDone
<1>4. /\ client.server_curve \in {NoGroup} \union InList(P(client).ecc_preferences)
      /\ client.server_kem \in {NoGroup} \union InList(P(client).kem_preferences.groups)
  BY AtTheEnd DEF ClientFacts
<1>5. Chosen = TLS13 => /\ server.server_curve \in {NoGroup} \union InList(P(server).ecc_preferences)
                        /\ server.server_kem \in {NoGroup} \union InList(P(server).kem_preferences.groups)
  <2>1. CommonKems \subseteq InList(P(server).kem_preferences.groups)
    BY <1>1, PolicyOf DEF CommonKems
  <2>2. Chosen = TLS13 => /\ server.server_curve \in {NoGroup} \union InList(P(server).ecc_preferences)
                          /\ server.server_kem \in {NoGroup} \union CommonKems
    BY AtTheEnd DEF GroupFacts, BothDone, Settled, Answering
  <2> QED
    BY <2>1, <2>2
<1>6. /\ Chosen = TLS13 => Group(client) \in InList(P(client).ecc_preferences) \union InList(P(client).kem_preferences.groups)
      /\ Chosen = TLS13 => Group(server) \in InList(P(server).ecc_preferences) \union InList(P(server).kem_preferences.groups)
  BY <1>4, <1>5, AtTheEnd DEF Group
<1>7. WithinPolicy(client)
  <2>1. \A rule \in P(client).rules : RuleHolds(rule, client)
    BY <1>1, <1>3, <1>4, AtTheEnd, RulesKept
  <2> QED
    BY <1>2, <1>3, <1>6, <2>1, AtTheEnd DEF WithinPolicy
<1>8. WithinPolicy(server)
  <2>1. \A rule \in P(server).rules : RuleHolds(rule, server)
    BY <1>1, <1>2, <1>5, AtTheEnd, RulesKept
  <2> QED
    BY <1>1, <1>2, <1>6, <2>1, AtTheEnd DEF WithinPolicy
<1> QED
  BY <1>7, <1>8

LEMMA MaxIs ==
  ASSUME NEW S, S \subseteq Int, NEW x \in S, \A y \in S : y <= x
  PROVE  Max(S) = x
<1>1. \E z \in S : \A y \in S : z >= y
  OBVIOUS
<1>2. Max(S) \in S /\ \A y \in S : Max(S) >= y
  BY <1>1 DEF Max
<1>3. Max(S) \in Int /\ x \in Int /\ Max(S) >= x /\ Max(S) <= x
  BY <1>2
<1> QED
  BY <1>3

LEMMA InvNoDowngrade == Inv => NoDowngrade
<1> SUFFICES ASSUME Inv, BothDone
             PROVE  /\ client.actual_protocol_version =
                          Max(Versions(client, env.client.highest) \cap Versions(server, env.server.highest))
                    /\ server.actual_protocol_version >= TLS13 =>
                          (server.server_kem # NoGroup <=> AvailableKems(client) \cap AvailableKems(server) # {})
  BY DEF NoDowngrade
<1>1. /\ Offer = IF SupportsTLS13(client) THEN env.client.highest ELSE MinOf(env.client.highest, TLS12)
      /\ (server.server_protocol_version = TLS13 <=> env.server.highest = TLS13 /\ SupportsTLS13(server))
      /\ Chosen = TLS13 => Offer = TLS13 /\ server.server_protocol_version = TLS13
      /\ Chosen >= P(server).minimum_protocol_version
  BY AtTheEnd DEF ClientFacts, VersionFacts, BothDone, Settled, Answering
<1>2. /\ Chosen >= P(client).minimum_protocol_version
      /\ Chosen # TLS13 => ~(server.server_protocol_version = TLS13 /\ Offer = TLS13)
  BY AtTheEnd DEF AnswerFacts, BothDone
<1>3. env.client.highest \in TLS10..TLS13 /\ env.server.highest \in TLS12..TLS13
  BY AtTheEnd DEF Shape, EnvironmentOK
<1>4. Chosen \in TLS10..TLS13 /\ Offer \in TLS10..TLS13 /\ (Chosen # TLS13 => Chosen = MinOf(Offer, TLS12))
  BY AtTheEnd
<1> DEFINE S == Versions(client, env.client.highest) \cap Versions(server, env.server.highest)
<1>5. S = {v \in SSLv3..env.client.highest :
              /\ v \in SSLv3..env.server.highest
              /\ v >= P(client).minimum_protocol_version /\ v >= P(server).minimum_protocol_version
              /\ v >= TLS13 => SupportsTLS13(client) /\ SupportsTLS13(server)}
  BY DEF Versions
<1> HIDE DEF S
<1> USE DEF SSLv3, TLS10, TLS12, TLS13, MinOf
<1>6. Chosen <= env.client.highest /\ Chosen <= env.server.highest
  BY <1>1, <1>3, <1>4
<1>7. Chosen >= TLS13 => SupportsTLS13(client) /\ SupportsTLS13(server)
  BY <1>1, <1>3, <1>4
<1>8. Chosen \in S
  BY <1>1, <1>2, <1>3, <1>4, <1>5, <1>6, <1>7
<1>9. ASSUME NEW y \in S PROVE y <= Chosen
  <2>1. /\ y \in SSLv3..env.client.highest /\ y \in SSLv3..env.server.highest
        /\ y >= TLS13 => SupportsTLS13(client) /\ SupportsTLS13(server)
    BY <1>5
  <2>2. y \in SSLv3..TLS13
    BY <1>3, <2>1
  <2>3. CASE Chosen = TLS13
    BY <2>2, <2>3
  <2>4. CASE Chosen # TLS13
    <3>1. y # TLS13
      <4>1. ASSUME y = TLS13 PROVE FALSE
        <5>1. SupportsTLS13(client) /\ SupportsTLS13(server)
          BY <2>1, <4>1
        <5>2. env.client.highest = TLS13 /\ env.server.highest = TLS13
          BY <1>3, <2>1, <4>1
        <5> QED
          BY <1>1, <1>2, <2>4, <5>1, <5>2
      <4> QED
        BY <4>1
    <3>2. Chosen = MinOf(env.client.highest, TLS12)
      BY <1>1, <1>3, <1>4, <2>4
    <3> QED
      BY <1>3, <2>1, <2>2, <3>1, <3>2
  <2> QED
    BY <2>3, <2>4
<1>10. S \subseteq Int
  BY <1>3, <1>5
<1>11. Max(S) = Chosen
  BY <1>8, <1>9, <1>10, MaxIs
<1>12. server.actual_protocol_version >= TLS13 =>
         (server.server_kem # NoGroup <=> AvailableKems(client) \cap AvailableKems(server) # {})
  <2>1. Chosen = TLS13 => (server.server_kem # NoGroup <=> CommonKems # {})
    BY AtTheEnd DEF GroupFacts, BothDone, Settled, Answering
  <2>2. Chosen >= TLS13 => Chosen = TLS13
    BY <1>4
  <2> QED
    BY <2>1, <2>2 DEF CommonKems, Chosen
<1> QED
  BY <1>11, <1>12, AtTheEnd DEF S

----------------------------------------------------------------------------
(* The inductive invariant holds: in every state either one side has       *)
(* failed, or the record of each side and the message on the wire are      *)
(* what the handlers run so far leave behind.                              *)
THEOREM InvHolds == Spec => []Inv
  BY InitInv, StepInv, PTL DEF Spec

(* Whatever the policies of the tables, the builds, the certificates and   *)
(* the path: two sides that finish have the same version, suite,           *)
(* certificate, signature scheme and group, though each computes them on   *)
(* its own (s2n_set_cipher_as_server, s2n_set_cipher_as_client,            *)
(* s2n_server_key_share_recv, s2n_signature_algorithm_recv).               *)
THEOREM AgreementHolds == Spec => []Agreement
  BY InvHolds, InvAgreement, PTL

(* Neither side ends outside its own policy or the rules that policy       *)
(* promised when s2n_init accepted it, also when a ClientHello callback    *)
(* replaced the server's policy in the middle of the handshake.            *)
THEOREM WithinPoliciesHolds == Spec => []WithinPolicies
  BY InvHolds, InvWithinPolicies, PTL

(* Two sides that finish have the highest version both speak, though the   *)
(* path may hide the client's TLS1.3 (the marker of                        *)
(* s2n_server_add_downgrade_mechanism), and in TLS1.3 a hybrid group       *)
(* exactly when they have one in common.                                   *)
THEOREM NoDowngradeHolds == Spec => []NoDowngrade
  BY InvHolds, InvNoDowngrade, PTL

=============================================================================
