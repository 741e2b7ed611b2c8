------------------------ MODULE AuthenticationProofs ------------------------
EXTENDS Authentication, SequenceTheorems, NaturalsInduction, WellFoundedInduction, TLAPS

(* What s2n_x509_validator_validate_cert_chain promises, over all the      *)
(* calls that a validation is made of: the chain builder, stage by stage,  *)
(* and the callback.                                                       *)

----------------------------------------------------------------------------
(* Every set of natural numbers has a least element: what the proofs by    *)
(* induction below rest on.                                                *)
LEMMA LeastNumber ==
    ASSUME NEW T, T \subseteq Nat, T # {}
    PROVE  \E n \in T : \A m \in T : n <= m
<1>1. IsWellFoundedOn(OpToRel(<, Nat), Nat) BY NatLessThanWellFounded
<1>2. PICK n \in T : \A m \in T : ~(<<m, n>> \in OpToRel(<, Nat)) BY <1>1, WFMin
<1>3. \A m \in T : ~(m < n) BY <1>2 DEF OpToRel
<1> QED BY <1>3

LEMMA TheOne ==
    ASSUME NEW e
    PROVE  The({e}) = e
<1> QED BY DEF The

----------------------------------------------------------------------------
(* Sequences, whatever they hold.                                          *)

Row(s) == s \in Seq({s[i] : i \in DOMAIN s})

(* Every sequence is a Row.                                                *)
LEMMA RowOf ==
    ASSUME NEW S, NEW s \in Seq(S)
    PROVE  Row(s) /\ Len(s) \in Nat /\ DOMAIN s = 1..Len(s)
<1>1. Len(s) \in Nat /\ DOMAIN s = 1..Len(s) /\ s \in [1..Len(s) -> S]
  BY LenProperties
<1>2. s \in [1..Len(s) -> {s[i] : i \in DOMAIN s}]
  BY <1>1
<1> QED BY <1>1, <1>2, SeqDef DEF Row

LEMMA RowFacts ==
    ASSUME NEW s, Row(s)
    PROVE  Len(s) \in Nat /\ DOMAIN s = 1..Len(s)
<1> QED BY LenProperties DEF Row

(* What Append does.                                                       *)
LEMMA RowAppend ==
    ASSUME NEW s, Row(s), NEW e
    PROVE  /\ Row(Append(s, e))
           /\ Len(Append(s, e)) = Len(s) + 1
           /\ Append(s, e)[Len(s) + 1] = e
           /\ \A i \in 1..Len(s) : Append(s, e)[i] = s[i]
<1> DEFINE S == {s[i] : i \in DOMAIN s} \cup {e}
<1>1. s \in Seq(S) /\ e \in S
  <2>1. s \in Seq({s[i] : i \in DOMAIN s}) BY DEF Row
  <2>2. {s[i] : i \in DOMAIN s} \subseteq S OBVIOUS
  <2> QED BY <2>1, <2>2, SeqMonotonic
<1> HIDE DEF S
<1>2. Append(s, e) \in Seq(S) BY <1>1
<1>3. Row(Append(s, e)) BY <1>2, RowOf
<1> QED BY <1>1, <1>3, AppendProperties

(* What Tail does.                                                         *)
LEMMA RowTail ==
    ASSUME NEW s, Row(s), s # <<>>
    PROVE  /\ Len(s) > 0 /\ Head(s) = s[1]
           /\ Row(Tail(s))
           /\ Len(Tail(s)) = Len(s) - 1
           /\ \A i \in 1..(Len(s) - 1) : Tail(s)[i] = s[i + 1]
<1> DEFINE S == {s[i] : i \in DOMAIN s}
<1>1. s \in Seq(S) BY DEF Row
<1> HIDE DEF S
<1>2. Tail(s) \in Seq(S) BY <1>1, HeadTailProperties
<1>3. Row(Tail(s)) BY <1>2, RowOf
<1> QED BY <1>1, <1>3, HeadTailProperties, EmptySeq

(* What \o does.                                                           *)
LEMMA RowConcat ==
    ASSUME NEW s, NEW t, Row(s), Row(t)
    PROVE  /\ Row(s \o t)
           /\ Len(s \o t) = Len(s) + Len(t)
           /\ \A i \in 1..Len(s) : (s \o t)[i] = s[i]
           /\ \A i \in 1..Len(t) : (s \o t)[Len(s) + i] = t[i]
<1> DEFINE S == {s[i] : i \in DOMAIN s} \cup {t[i] : i \in DOMAIN t}
<1>1. s \in Seq(S) /\ t \in Seq(S)
  <2>1. s \in Seq({s[i] : i \in DOMAIN s}) /\ t \in Seq({t[i] : i \in DOMAIN t}) BY DEF Row
  <2>2. {s[i] : i \in DOMAIN s} \subseteq S /\ {t[i] : i \in DOMAIN t} \subseteq S OBVIOUS
  <2> QED BY <2>1, <2>2, SeqMonotonic
<1> HIDE DEF S
<1>2. s \o t \in Seq(S) BY <1>1, ConcatProperties
<1>3. Row(s \o t) BY <1>2, RowOf
<1>4. Len(s) \in Nat /\ Len(t) \in Nat BY RowFacts
<1>5. \A i \in 1..Len(s) : (s \o t)[i] = s[i] BY <1>1, <1>4, ConcatProperties
<1>6. \A i \in 1..Len(t) : (s \o t)[Len(s) + i] = t[i]
  <2> TAKE i \in 1..Len(t)
  <2>1. Len(s) + i \in 1..(Len(s) + Len(t)) /\ ~(Len(s) + i <= Len(s)) /\ Len(s) + i - Len(s) = i
    BY <1>4
  <2> QED BY <1>1, <2>1, ConcatProperties
<1> QED BY <1>1, <1>3, <1>5, <1>6, ConcatProperties

----------------------------------------------------------------------------
(* The paths that libcrypto tries, one certificate at a time.              *)
Tries(g, chain, trust, n) ==
    /\ DOMAIN g = 0..n
    /\ g[0] = <<chain[1]>>
    /\ \A i \in 1..n : g[i] = Extend(g[i - 1], chain, trust)

LEMMA TriesExist ==
    ASSUME NEW chain, NEW trust
    PROVE  \A n \in Nat : \E g : Tries(g, chain, trust, n)
<1> DEFINE T == {n \in Nat : ~\E g : Tries(g, chain, trust, n)}
<1>1. SUFFICES ASSUME T # {} PROVE FALSE OBVIOUS
<1>2. PICK n \in T : \A m \in T : n <= m
  <2>1. T \subseteq Nat OBVIOUS
  <2> HIDE DEF T
  <2> QED BY <1>1, <2>1, LeastNumber
<1>3. n # 0
  <2>1. Tries([i \in 0..0 |-> <<chain[1]>>], chain, trust, 0) BY DEF Tries
  <2> QED BY <2>1
<1>4. n - 1 \in Nat /\ n - 1 \notin T BY <1>2, <1>3
<1>5. PICK g : Tries(g, chain, trust, n - 1) BY <1>4
<1> DEFINE h == [i \in 0..n |-> IF i <= n - 1 THEN g[i] ELSE Extend(g[n - 1], chain, trust)]
<1>6. Tries(h, chain, trust, n)
  <2>1. n \in Nat /\ 0 \in 0..n /\ 0 <= n - 1 BY <1>4
  <2>2. DOMAIN h = 0..n /\ h[0] = <<chain[1]>> BY <2>1, <1>5 DEF Tries
  <2>3. ASSUME NEW i \in 1..n PROVE h[i] = Extend(h[i - 1], chain, trust)
    <3>1. i \in 0..n /\ i - 1 \in 0..n /\ i - 1 <= n - 1 BY <2>1
    <3>2. h[i - 1] = g[i - 1] BY <3>1
    <3>3. CASE i <= n - 1
      <4>1. h[i] = g[i] /\ i \in 1..(n - 1) BY <3>1, <3>3, <2>1
      <4> QED BY <4>1, <3>2, <1>5 DEF Tries
    <3>4. CASE i = n
      <4>1. h[i] = Extend(g[n - 1], chain, trust) BY <3>1, <3>4, <2>1
      <4> QED BY <4>1, <3>2, <3>4
    <3> QED BY <3>3, <3>4, <2>1
  <2> HIDE DEF h
  <2> QED BY <2>2, <2>3 DEF Tries
<1> QED BY <1>6, <1>2

LEMMA TriesUnique ==
    ASSUME NEW chain, NEW trust, NEW n \in Nat, NEW m \in Nat, NEW g, NEW h,
           Tries(g, chain, trust, n), Tries(h, chain, trust, m), n <= m
    PROVE  \A i \in 0..n : g[i] = h[i]
<1> DEFINE T == {i \in 0..n : g[i] # h[i]}
<1>1. SUFFICES ASSUME T # {} PROVE FALSE OBVIOUS
<1>2. PICK i \in T : \A j \in T : i <= j
  <2>1. T \subseteq Nat OBVIOUS
  <2> HIDE DEF T
  <2> QED BY <1>1, <2>1, LeastNumber
<1>3. i # 0 BY DEF Tries
<1>4. i \in 1..n /\ i \in 1..m /\ i - 1 \in 0..n /\ i - 1 \notin T BY <1>2, <1>3
<1>5. g[i - 1] = h[i - 1] BY <1>4
<1> QED BY <1>2, <1>4, <1>5 DEF Tries

(* The recursive definition of BuildPath has a solution, so it is what it  *)
(* says.                                                                   *)
LEMMA BuildPathTries ==
    ASSUME NEW chain, NEW trust, NEW depth \in Nat
    PROVE  \E g : Tries(g, chain, trust, depth) /\ BuildPath(chain, trust, depth) = g[depth]
<1> DEFINE Def(f) == f = [n \in Nat |-> IF n = 0 THEN <<chain[1]>>
                                        ELSE The({ Extend(x, chain, trust) : x \in {f[n - 1]} })]
           path == CHOOSE f : Def(f)
           try(n) == CHOOSE g : Tries(g, chain, trust, n)
           F == [n \in Nat |-> try(n)[n]]
<1>1. BuildPath(chain, trust, depth) = path[depth] BY DEF BuildPath
<1>2. \A n \in Nat : Tries(try(n), chain, trust, n) BY TriesExist
<1>3. \A f, n : The({ Extend(x, chain, trust) : x \in {f[n - 1]} }) = Extend(f[n - 1], chain, trust)
  <2> TAKE f, n
  <2>1. { Extend(x, chain, trust) : x \in {f[n - 1]} } = {Extend(f[n - 1], chain, trust)} OBVIOUS
  <2> QED BY <2>1, TheOne
<1>4. F[0] = <<chain[1]>> BY <1>2 DEF Tries
<1>5. ASSUME NEW n \in Nat, n # 0 PROVE F[n] = Extend(F[n - 1], chain, trust)
  <2> HIDE DEF try
  <2>1. n - 1 \in Nat /\ n \in 1..n /\ n - 1 \in 0..(n - 1) /\ n - 1 <= n BY <1>5
  <2>2. try(n)[n] = Extend(try(n)[n - 1], chain, trust) BY <1>2, <2>1 DEF Tries
  <2>3. try(n - 1)[n - 1] = try(n)[n - 1] BY <1>2, <2>1, TriesUnique
  <2>4. F[n] = try(n)[n] /\ F[n - 1] = try(n - 1)[n - 1] BY <2>1
  <2> QED BY <2>2, <2>3, <2>4
<1>6. Def(F)
  <2>1. F = [n \in Nat |-> F[n]] OBVIOUS
  <2> HIDE DEF F
  <2>2. [n \in Nat |-> F[n]] = [n \in Nat |-> IF n = 0 THEN <<chain[1]>>
                                 ELSE The({ Extend(x, chain, trust) : x \in {F[n - 1]} })]
    BY <1>3, <1>4, <1>5
  <2> QED BY <2>1, <2>2
<1>7. Def(path)
  <2> HIDE DEF Def, F
  <2> QED BY <1>6
<1>8. path[0] = <<chain[1]>> /\ \A n \in Nat \ {0} : path[n] = Extend(path[n - 1], chain, trust)
  <2> HIDE DEF path
  <2> QED BY <1>3, <1>7
<1> DEFINE g == [i \in 0..depth |-> path[i]]
<1>9. Tries(g, chain, trust, depth) /\ g[depth] = path[depth]
  <2> HIDE DEF path
  <2> QED BY <1>8 DEF Tries
<1> HIDE DEF g, path
<1> QED BY <1>1, <1>9

(* A path begins with the leaf and goes from issuer to issuer.             *)
Path(s, chain, trust) ==
    /\ Row(s) /\ Len(s) >= 1
    /\ s[1] = chain[1]
    /\ \A j \in 1..Len(s) : s[j] \in trust \cup ToSet(chain)
    /\ \A j \in 1..(Len(s) - 1) : Issued(s[j + 1], s[j])

LEMMA Extended ==
    ASSUME NEW chain, NEW trust, NEW s, Path(s, chain, trust)
    PROVE  Path(Extend(s, chain, trust), chain, trust)
<1> DEFINE up == { i \in trust \cup ToSet(chain) : Issued(i, Last(s)) }
<1>1. CASE Extend(s, chain, trust) = s BY <1>1
<1>2. CASE up # {} /\ Extend(s, chain, trust) = Append(s, CHOOSE i \in up : TRUE)
  <2>1. PICK e : e = CHOOSE i \in up : TRUE OBVIOUS
  <2>2. e \in trust \cup ToSet(chain) /\ Issued(e, Last(s)) BY <1>2, <2>1
  <2>3. Row(s) /\ Len(s) \in Nat /\ Len(s) >= 1 BY RowFacts DEF Path
  <2>4. /\ Row(Append(s, e)) /\ Len(Append(s, e)) = Len(s) + 1 /\ Append(s, e)[Len(s) + 1] = e
        /\ \A i \in 1..Len(s) : Append(s, e)[i] = s[i]
    BY <2>3, RowAppend
  <2>5. \A j \in 1..(Len(s) + 1) : Append(s, e)[j] \in trust \cup ToSet(chain)
    BY <2>2, <2>3, <2>4 DEF Path
  <2>6. ASSUME NEW j \in 1..Len(s) PROVE Issued(Append(s, e)[j + 1], Append(s, e)[j])
    <3>1. CASE j = Len(s) BY <3>1, <2>2, <2>3, <2>4 DEF Last
    <3>2. CASE j # Len(s)
      <4>0. PICK n \in Nat : n = Len(s) BY <2>3
      <4>1. j \in 1..(Len(s) - 1) /\ j + 1 \in 1..Len(s) BY <3>2, <4>0
      <4> QED BY <4>1, <2>4 DEF Path
    <3> QED BY <3>1, <3>2
  <2>7. Append(s, e)[1] = chain[1] BY <2>3, <2>4 DEF Path
  <2>8. PICK n \in Nat : n = Len(s) /\ n >= 1 BY <2>3
  <2>9. PICK t : t = Append(s, e) OBVIOUS
  <2>10. Row(t) /\ Len(t) = n + 1 /\ Len(t) >= 1 BY <2>4, <2>8, <2>9
  <2>11. \A j \in 1..Len(t) : t[j] \in trust \cup ToSet(chain) BY <2>5, <2>8, <2>10, <2>9
  <2>12. \A j \in 1..(Len(t) - 1) : Issued(t[j + 1], t[j]) BY <2>6, <2>8, <2>10, <2>9
  <2>13. Path(Append(s, e), chain, trust) BY <2>7, <2>10, <2>11, <2>12, <2>9 DEF Path
  <2> QED BY <2>13, <2>1, <1>2
<1> QED BY <1>1, <1>2 DEF Extend

LEMMA BuildPathSound ==
    ASSUME NEW chain, NEW trust, NEW depth \in Nat, Row(chain), chain # <<>>
    PROVE  Path(BuildPath(chain, trust, depth), chain, trust)
<1>1. PICK g : Tries(g, chain, trust, depth) /\ BuildPath(chain, trust, depth) = g[depth]
  BY BuildPathTries
<1> DEFINE T == {i \in 0..depth : ~Path(g[i], chain, trust)}
<1>2. ASSUME T # {} PROVE FALSE
  <2>1. PICK i \in T : \A j \in T : i <= j
    <3>1. T \subseteq Nat OBVIOUS
    <3> HIDE DEF T
    <3> QED BY <1>2, <3>1, LeastNumber
  <2>2. i # 0
    <3>1. <<chain[1]>> \in Seq({chain[1]}) /\ Len(<<chain[1]>>) = 1 /\ <<chain[1]>>[1] = chain[1]
      OBVIOUS
    <3>2. Row(<<chain[1]>>) BY <3>1, RowOf
    <3>3. chain[1] \in ToSet(chain)
      <4>1. DOMAIN chain = 1..Len(chain) /\ Len(chain) \in Nat /\ Len(chain) > 0
        BY RowTail, RowFacts
      <4>2. 1 \in DOMAIN chain BY <4>1
      <4> QED BY <4>2 DEF ToSet
    <3>4. Path(<<chain[1]>>, chain, trust) BY <3>1, <3>2, <3>3 DEF Path
    <3> QED BY <3>4, <1>1, <2>1 DEF Tries
  <2>3. i \in 1..depth /\ i - 1 \in 0..depth /\ i - 1 \notin T BY <2>1, <2>2
  <2>4. g[i] = Extend(g[i - 1], chain, trust) BY <1>1, <2>3 DEF Tries
  <2>5. Path(g[i - 1], chain, trust) BY <2>3
  <2> QED BY <2>1, <2>4, <2>5, Extended
<1>3. depth \in 0..depth BY <1>1
<1> QED BY <1>1, <1>2, <1>3

(* A path that ends in the trust store, all of it in force, anchors the    *)
(* leaf: it is pulled in from the anchor down.                             *)
LEMMA PathAnchors ==
    ASSUME NEW conf, NEW chain, NEW s, NEW t, Path(s, chain, conf.trust),
           Last(s) \in conf.trust, \A j \in 1..Len(s) : InForce(conf, s[j], t)
    PROVE  Anchored(conf, chain, t)
<1>1. SUFFICES ASSUME NEW S \in SUBSET (ToSet(chain) \cup conf.trust),
                      \A c \in ToSet(chain) \cup conf.trust :
                        /\ InForce(conf, c, t)
                        /\ c \in conf.trust \/ \E i \in S : Issued(i, c) /\ c \notin conf.trust
                        => c \in S
               PROVE  chain[1] \in S
  BY DEF Anchored
<1>2. Row(s) /\ Len(s) \in Nat /\ Len(s) >= 1 BY RowFacts DEF Path
<1>3. \A j \in 1..Len(s) : s[j] \in ToSet(chain) \cup conf.trust BY DEF Path
<1> DEFINE T == {n \in 0..(Len(s) - 1) : s[Len(s) - n] \notin S}
<1>4. ASSUME T # {} PROVE FALSE
  <2>1. PICK n \in T : \A m \in T : n <= m
    <3>1. T \subseteq Nat OBVIOUS
    <3> HIDE DEF T
    <3> QED BY <1>4, <3>1, LeastNumber
  <2>2. n \in 0..(Len(s) - 1) /\ s[Len(s) - n] \notin S BY <2>1
  <2>3. n # 0
    <3>1. Len(s) \in 1..Len(s) BY <1>2
    <3>2. s[Len(s)] \in S BY <1>1, <1>3, <3>1 DEF Last
    <3> QED BY <3>2, <2>2, <1>2
  <2>4. n - 1 \in 0..(Len(s) - 1) /\ n - 1 \notin T BY <2>1, <2>2, <2>3, <1>2
  <2>5. Len(s) - n \in 1..(Len(s) - 1) /\ Len(s) - n \in 1..Len(s) /\ Len(s) - (n - 1) = (Len(s) - n) + 1
    BY <2>2, <2>3, <1>2
  <2>6. s[(Len(s) - n) + 1] \in S BY <2>4, <2>5
  <2>7. Issued(s[(Len(s) - n) + 1], s[Len(s) - n]) BY <2>5 DEF Path
  <2>8. s[Len(s) - n] \in S
    BY <1>1, <1>3, <2>5, <2>6, <2>7
  <2> QED BY <2>8, <2>2
<1>5. Len(s) - 1 \in 0..(Len(s) - 1) /\ Len(s) - (Len(s) - 1) = 1 BY <1>2
<1>6. s[1] \in S BY <1>4, <1>5
<1> QED BY <1>6 DEF Path

----------------------------------------------------------------------------
(* The validator, between the calls of the handler.                        *)

ValidatorFields ==
    {"state", "skip", "check_ocsp", "depth", "trust", "chain", "path", "lookups", "cb_invoked", "finished",
     "accepted"}
Settings(v, conf) ==
    /\ DOMAIN v = ValidatorFields
    /\ v.skip = conf.skip
    /\ v.check_ocsp = (~conf.skip /\ conf.check_ocsp)
    /\ v.trust = IF conf.skip THEN {} ELSE conf.trust
    /\ v.depth = IF conf.skip THEN DEFAULT_MAX_CHAIN_DEPTH ELSE Depth(conf)

(* A lookup was answered with a list of the application's that was current *)
(* at some time from a to b.                                               *)
LookupSound(l, conf, a, b) ==
    /\ DOMAIN l = {"cert", "crl", "status"}
    /\ l.status \in {"AWAITING_RESPONSE", "FINISHED"}
    /\ l.crl # NoCrl => /\ l.crl \in conf.crls
                        /\ conf.checks => \E t \in a..b : InPeriod(CrlInfo[l.crl], t)
AllAnswered(v) == \A i \in DOMAIN v.lookups : v.lookups[i].status = "FINISHED"

(* Every certificate of the path has a list that does not name it.         *)
NotRevoked(v) ==
    \A c \in ToSet(v.path) :
      \E i \in DOMAIN v.lookups :
        /\ v.lookups[i].crl # NoCrl
        /\ CrlInfo[v.lookups[i].crl].issuer = CertInfo[c].issuer
        /\ c \notin CrlInfo[v.lookups[i].crl].revoked

(* What the state of the validator stands for, for the chain presented,    *)
(* the staple that came with it, and calls from time a to time b.          *)
Progress(v, conf, chain, a, b) ==
    /\ v.state \in {"INIT", "AWAITING_CRL_CALLBACK", "READY_TO_VERIFY", "VALIDATED", "OCSP_VALIDATED"}
    /\ Row(v.lookups)
    /\ \A i \in DOMAIN v.lookups : LookupSound(v.lookups[i], conf, a, b)
    /\ v.chain # <<>> => chain # <<>> /\ v.chain[1] = chain[1] /\ (~v.skip => v.chain = chain)
    /\ v.state = "INIT" \/ v.skip => v.lookups = <<>>
    /\ v.skip => v.state \in {"INIT", "OCSP_VALIDATED"}
    /\ v.state # "INIT" => v.chain # <<>>
    /\ v.state # "INIT" /\ ~v.skip =>
         Len(chain) <= Depth(conf) /\ NameMatches(conf, chain) /\ PolicyMet(conf, chain)
    /\ v.state \in {"READY_TO_VERIFY", "VALIDATED", "OCSP_VALIDATED"} => AllAnswered(v)
    /\ v.state \in {"VALIDATED", "OCSP_VALIDATED"} /\ ~v.skip =>
         /\ \E t \in a..b : Anchored(conf, chain, t)
         /\ conf.crl # "none" => NotRevoked(v)

(* The callback was reached with everything before it done.                *)
Stapled(v, staple, a, b) ==
    v.state = "OCSP_VALIDATED" /\ v.check_ocsp => \E t \in a..b : StapleGood(staple, t)
Passed(v, conf, staple) ==
    /\ v.chain # <<>>
    /\ ~v.skip => v.state \in {"VALIDATED", "OCSP_VALIDATED"}
    /\ conf.tls13 /\ staple.type = "ocsp" => v.state = "OCSP_VALIDATED"
Called(v, conf, staple) ==
    /\ v.finished => v.cb_invoked
    /\ v.cb_invoked =>
         /\ conf.cb \notin {"none", "cancel"}
         /\ conf.cb = "reject" => v.finished /\ ~v.accepted
         /\ Passed(v, conf, staple)
Accepted(v, conf, staple) ==
    /\ Passed(v, conf, staple) /\ AllAnswered(v)
    /\ conf.cb # "cancel"
    /\ conf.cb # "none" => v.cb_invoked /\ v.finished /\ v.accepted


----------------------------------------------------------------------------
(* The stages of a validation.                                             *)

Configured(conf) ==
    /\ conf.trust \subseteq DOMAIN CertInfo /\ NoCrl \notin conf.crls /\ conf.depth \in Nat
    /\ conf.skip \in BOOLEAN /\ conf.check_ocsp \in BOOLEAN
Setting(conf, chain, a, clock) ==
    /\ Configured(conf)
    /\ chain \in Seq(DOMAIN CertInfo) /\ chain # <<>>
    /\ a \in Int /\ clock \in Int /\ a <= clock
Sound(v, conf, chain, a, clock) == Settings(v, conf) /\ Progress(v, conf, chain, a, clock)
SameAnswer(u, v) == u.cb_invoked = v.cb_invoked /\ u.finished = v.finished /\ u.accepted = v.accepted

(* What every stage before the callback leaves behind.                     *)
Staged(v, r, conf, chain, a, clock) ==
    /\ Sound(r.v, conf, chain, a, clock)
    /\ SameAnswer(r.v, v)
    /\ v.state # "INIT" => r.v.state # "INIT"
    /\ r.err = "ASYNC_BLOCKED" => r.v.state = "AWAITING_CRL_CALLBACK"
    /\ r.err # "CERT_REJECTED"

LEMMA Result ==
    ASSUME NEW v, NEW err
    PROVE  /\ OK(v).v = v /\ OK(v).err = "OK"
           /\ Fail(v, err).v = v /\ Fail(v, err).err = err
<1> QED BY DEF OK, Fail

LEMMA StateSet ==
    ASSUME NEW v, DOMAIN v = ValidatorFields, NEW s, NEW u, u = [v EXCEPT !.state = s]
    PROVE  /\ DOMAIN u = ValidatorFields /\ u.state = s
           /\ u.skip = v.skip /\ u.check_ocsp = v.check_ocsp /\ u.depth = v.depth /\ u.trust = v.trust
           /\ u.chain = v.chain /\ u.path = v.path /\ u.lookups = v.lookups
           /\ u.cb_invoked = v.cb_invoked /\ u.finished = v.finished /\ u.accepted = v.accepted
<1> QED BY DEF ValidatorFields

LEMMA Resumed ==
    ASSUME NEW v, NEW conf, NEW chain, NEW a, NEW clock, Setting(conf, chain, a, clock),
           Sound(v, conf, chain, a, clock), NEW msg, NEW r, r = Stage("resume", v, conf, msg, clock)
    PROVE  /\ Staged(v, r, conf, chain, a, clock)
           /\ r.err = "OK" => r.v.state \in {"INIT", "READY_TO_VERIFY"}
           /\ r.v.state # "OCSP_VALIDATED" \/ v.state = "OCSP_VALIDATED"
<1>1. r = IF v.state = "INIT" THEN OK(v)
          ELSE IF v.state = "AWAITING_CRL_CALLBACK" THEN s2n_crl_handle_lookup_callback_result(v)
          ELSE Fail(v, "INVALID_CERT_STATE")
  BY DEF Stage
<1>2. CASE r = OK(v) /\ v.state = "INIT" BY <1>2, Result DEF Staged, SameAnswer
<1>3. CASE r = Fail(v, "INVALID_CERT_STATE") BY <1>3, Result DEF Staged, SameAnswer
<1>4. CASE r = s2n_crl_handle_lookup_callback_result(v) /\ v.state = "AWAITING_CRL_CALLBACK"
  <2>1. DOMAIN v = ValidatorFields BY DEF Sound, Settings
  <2>2. CASE AllAnswered(v)
    <3> DEFINE u == [v EXCEPT !.state = "READY_TO_VERIFY"]
    <3>1. r = OK(u)
      BY <1>4, <2>2 DEF s2n_crl_handle_lookup_callback_result, s2n_crl_get_lookup_callback_status,
                        AllAnswered
    <3>2. /\ DOMAIN u = ValidatorFields /\ u.state = "READY_TO_VERIFY"
          /\ u.skip = v.skip /\ u.check_ocsp = v.check_ocsp /\ u.depth = v.depth /\ u.trust = v.trust
          /\ u.chain = v.chain /\ u.path = v.path /\ u.lookups = v.lookups
          /\ u.cb_invoked = v.cb_invoked /\ u.finished = v.finished /\ u.accepted = v.accepted
      BY <2>1, StateSet
    <3> HIDE DEF u
    <3>3. AllAnswered(u) BY <3>2, <2>2 DEF AllAnswered
    <3>4. Sound(u, conf, chain, a, clock)
      BY <1>4, <3>2, <3>3 DEF Sound, Settings, Progress
    <3> QED BY <3>1, <3>2, <3>4, Result DEF Staged, SameAnswer
  <2>3. CASE ~AllAnswered(v)
    <3> DEFINE u == [v EXCEPT !.state = "AWAITING_CRL_CALLBACK"]
    <3>1. r = Fail(u, "ASYNC_BLOCKED")
      <4>1. \A i \in DOMAIN v.lookups : v.lookups[i].status \in {"AWAITING_RESPONSE", "FINISHED"}
        BY DEF Sound, Progress, LookupSound
      <4> QED BY <1>4, <2>3, <4>1
            DEF s2n_crl_handle_lookup_callback_result, s2n_crl_get_lookup_callback_status, AllAnswered
    <3>2. /\ DOMAIN u = ValidatorFields /\ u.state = "AWAITING_CRL_CALLBACK"
          /\ u.skip = v.skip /\ u.check_ocsp = v.check_ocsp /\ u.depth = v.depth /\ u.trust = v.trust
          /\ u.chain = v.chain /\ u.path = v.path /\ u.lookups = v.lookups
          /\ u.cb_invoked = v.cb_invoked /\ u.finished = v.finished /\ u.accepted = v.accepted
      BY <2>1, StateSet
    <3> HIDE DEF u
    <3>4. Sound(u, conf, chain, a, clock)
      BY <1>4, <3>2 DEF Sound, Settings, Progress
    <3> QED BY <3>1, <3>2, <3>4, Result DEF Staged, SameAnswer
  <2> QED BY <2>2, <2>3
<1> QED BY <1>1, <1>2, <1>3, <1>4

(* The chain is read whole, or validation is skipped.                      *)
LEMMA ChainRead ==
    ASSUME NEW v, NEW conf, NEW chain, NEW a, NEW clock, Setting(conf, chain, a, clock),
           Sound(v, conf, chain, a, clock), NEW msg, msg.chain = chain, NEW r,
           r = Stage("read", v, conf, msg, clock), v.state \in {"INIT", "READY_TO_VERIFY"}
    PROVE  /\ Staged(v, r, conf, chain, a, clock) /\ r.v.state = v.state
           /\ r.err = "OK" /\ v.state = "INIT" =>
                /\ r.v.chain # <<>>
                /\ ~v.skip => Len(chain) <= Depth(conf) /\ PolicyMet(conf, chain)
<1>1. CASE v.state # "INIT"
  <2>1. r = OK(v) BY <1>1 DEF Stage
  <2> QED BY <1>1, <2>1, Result DEF Staged, SameAnswer
<1>2. CASE v.state = "INIT"
  <2> DEFINE n == IF Len(chain) < v.depth THEN Len(chain) ELSE v.depth
             taken == SubSeq(chain, 1, n)
             u == [v EXCEPT !.chain = taken]
  <2>1. r = s2n_x509_validator_read_cert_chain(v, conf, chain) BY <1>2 DEF Stage
  <2>2. Len(chain) \in Nat /\ Len(chain) > 0 /\ Row(chain) /\ DOMAIN chain = 1..Len(chain)
    BY EmptySeq, RowOf DEF Setting
  <2>3. v.depth \in Nat /\ v.depth > 0 /\ (~v.skip => v.depth = Depth(conf))
    BY DEF Sound, Settings, Setting, Configured, Depth, DEFAULT_MAX_CHAIN_DEPTH
  <2>4. n \in Nat /\ n > 0 /\ n <= Len(chain) BY <2>2, <2>3
  <2> HIDE DEF n
  <2>5. /\ taken \in Seq(DOMAIN CertInfo) /\ Len(taken) = n /\ \A i \in 1..n : taken[i] = chain[i]
    <3>1. \A i \in 1..n : chain[i] \in DOMAIN CertInfo BY <2>2, <2>4 DEF Setting
    <3>2. \A i \in 1..n : 1 + i - 1 = i /\ n - 1 + 1 = n BY <2>4
    <3>3. 1 \in Int /\ n \in Int BY <2>4
    <3> QED BY <3>1, <3>2, <3>3, <2>4, SubSeqProperties
  <2>6. taken # <<>> /\ taken[1] = chain[1] BY <2>4, <2>5
  <2>7. ~(Len(chain) > v.depth) => taken = chain
    <3>1. SUFFICES ASSUME ~(Len(chain) > v.depth) PROVE taken = chain OBVIOUS
    <3>2. n = Len(chain) BY <3>1, <2>2, <2>3 DEF n
    <3> HIDE DEF taken
    <3> QED BY <3>2, <2>5, SeqEqual DEF Setting
  <2>8. \/ \E err \in {"CERT_UNTRUSTED", "CERT_MAX_CHAIN_DEPTH_EXCEEDED", "NO_CERT_FOUND"} : r = Fail(v, err)
        \/ /\ r = OK(u)
           /\ ~v.skip => /\ ~(Len(chain) > v.depth)
                         /\ \A i \in DOMAIN taken :
                              s2n_x509_validator_check_cert_preferences(taken[i], conf)
    BY <2>1 DEF s2n_x509_validator_read_cert_chain, n
  <2>9. CASE \E err \in {"CERT_UNTRUSTED", "CERT_MAX_CHAIN_DEPTH_EXCEEDED", "NO_CERT_FOUND"} : r = Fail(v, err)
    BY <2>9, <1>2, Result DEF Staged, SameAnswer
  <2>10. CASE /\ r = OK(u)
              /\ ~v.skip => /\ ~(Len(chain) > v.depth)
                            /\ \A i \in DOMAIN taken :
                                 s2n_x509_validator_check_cert_preferences(taken[i], conf)
    <3>1. /\ DOMAIN u = ValidatorFields /\ u.state = v.state
          /\ u.skip = v.skip /\ u.check_ocsp = v.check_ocsp /\ u.depth = v.depth /\ u.trust = v.trust
          /\ u.chain = taken /\ u.path = v.path /\ u.lookups = v.lookups
          /\ u.cb_invoked = v.cb_invoked /\ u.finished = v.finished /\ u.accepted = v.accepted
      BY DEF ValidatorFields, Sound, Settings
    <3>2. ~v.skip => Len(chain) <= Depth(conf) /\ taken = chain BY <2>10, <2>2, <2>3, <2>7
    <3>3. ~v.skip => PolicyMet(conf, chain)
      <4>1. SUFFICES ASSUME ~v.skip PROVE PolicyMet(conf, chain) OBVIOUS
      <4>2. \A c \in ToSet(chain) : s2n_x509_validator_check_cert_preferences(c, conf)
        BY <4>1, <3>2, <2>10 DEF ToSet
      <4> QED BY <4>2 DEF PolicyMet, s2n_x509_validator_check_cert_preferences, self_signed
    <3> HIDE DEF u, taken
    <3>4. Sound(u, conf, chain, a, clock)
      <4>1. Settings(u, conf) BY <3>1 DEF Sound, Settings
      <4>2. Progress(u, conf, chain, a, clock)
        BY <3>1, <3>2, <2>6, <1>2 DEF Sound, Progress, AllAnswered, Setting
      <4> QED BY <4>1, <4>2 DEF Sound
    <3> QED BY <3>1, <3>2, <3>3, <3>4, <2>6, <2>10, <1>2, Result DEF Staged, SameAnswer
  <2> QED BY <2>8, <2>9, <2>10
<1> QED BY <1>1, <1>2

LEMMA RowFunction ==
    ASSUME NEW f, NEW n \in Nat, f = [i \in 1..n |-> f[i]]
    PROVE  Row(f) /\ Len(f) = n /\ DOMAIN f = 1..n
<1>1. DOMAIN f = 1..n OBVIOUS
<1>2. f \in [1..n -> {f[i] : i \in DOMAIN f}] BY <1>1
<1>3. Row(f) BY <1>2, SeqDef DEF Row
<1>4. 1..Len(f) = 1..n /\ Len(f) \in Nat BY <1>1, <1>3, RowFacts
<1>5. Len(f) = n
  <2>1. CASE n = 0 BY <2>1, <1>4
  <2>2. CASE n > 0 BY <2>2, <1>4
  <2> QED BY <2>1, <2>2
<1> QED BY <1>1, <1>3, <1>5

(* An answer is a list of the application's, current now if it looks.      *)
LEMMA AnswerSound ==
    ASSUME NEW l, DOMAIN l = {"cert", "crl", "status"}, NEW conf, NEW a \in Int, NEW clock \in Int,
           a <= clock
    PROVE  LookupSound(Answered(l, conf, clock), conf, a, clock) /\ Answered(l, conf, clock).status = "FINISHED"
<1> DEFINE r == LookupAnswer(conf, l.cert, clock)
           m == [l EXCEPT !.crl = r, !.status = "FINISHED"]
           lists == { q \in conf.crls : CrlInfo[q].issuer = CertInfo[l.cert].issuer
                                        /\ (conf.checks => InPeriod(CrlInfo[q], clock)) }
<1>1. r # NoCrl => r \in conf.crls /\ (conf.checks => InPeriod(CrlInfo[r], clock))
  <2>1. r = IF lists = {} THEN NoCrl ELSE CHOOSE q \in lists : TRUE BY DEF LookupAnswer
  <2>2. r # NoCrl => r \in lists BY <2>1
  <2> HIDE DEF r
  <2> QED BY <2>2
<1>2. Answered(l, conf, clock) = m BY DEF Answered
<1> HIDE DEF r
<1>3. DOMAIN m = {"cert", "crl", "status"} /\ m.crl = r /\ m.status = "FINISHED" OBVIOUS
<1>4. clock \in a..clock OBVIOUS
<1> HIDE DEF m
<1> QED BY <1>1, <1>2, <1>3, <1>4 DEF LookupSound

(* The callbacks are asked about every certificate of the chain.           *)
LEMMA Invoked ==
    ASSUME NEW v, Row(v.chain), NEW conf, NEW a \in Int, NEW clock \in Int, a <= clock,
           NEW ls, ls = s2n_crl_invoke_lookup_callbacks(v, conf, clock)
    PROVE  Row(ls) /\ \A i \in DOMAIN ls : LookupSound(ls[i], conf, a, clock)
<1> DEFINE asked(i) == [cert |-> v.chain[i], crl |-> NoCrl, status |-> "AWAITING_RESPONSE"]
<1>1. DOMAIN v.chain = 1..Len(v.chain) /\ Len(v.chain) \in Nat BY RowFacts
<1>2. ls = [i \in 1..Len(v.chain) |-> IF conf.crl = "now" \/ (conf.crl = "mixed" /\ i = 1)
                                      THEN Answered(asked(i), conf, clock) ELSE asked(i)]
  BY <1>1 DEF s2n_crl_invoke_lookup_callbacks
<1>3. \A i : LookupSound(Answered(asked(i), conf, clock), conf, a, clock)
  <2> TAKE i
  <2>1. DOMAIN asked(i) = {"cert", "crl", "status"} OBVIOUS
  <2> HIDE DEF asked
  <2> QED BY <2>1, AnswerSound
<1>4. \A i : LookupSound(asked(i), conf, a, clock) BY DEF LookupSound
<1> HIDE DEF asked
<1>5. ls = [i \in 1..Len(v.chain) |-> ls[i]] BY <1>2
<1>6. Row(ls) /\ DOMAIN ls = 1..Len(v.chain) BY <1>1, <1>5, RowFunction
<1> QED BY <1>2, <1>3, <1>4, <1>6

(* The names match and the lookups are on their way, or validation is      *)
(* skipped.                                                                *)
LEMMA ChainProcessed ==
    ASSUME NEW v, NEW conf, NEW chain, NEW a, NEW clock, Setting(conf, chain, a, clock),
           Sound(v, conf, chain, a, clock), NEW msg, NEW r,
           r = Stage("process", v, conf, msg, clock), v.state \in {"INIT", "READY_TO_VERIFY"},
           v.state = "INIT" => /\ v.chain # <<>>
                               /\ ~v.skip => Len(chain) <= Depth(conf) /\ PolicyMet(conf, chain)
    PROVE  /\ Staged(v, r, conf, chain, a, clock)
           /\ r.v.state # "OCSP_VALIDATED"
           /\ r.err = "OK" => \/ r.v.state = "READY_TO_VERIFY" /\ ~v.skip
                              \/ r.v.state = "INIT" /\ v.skip /\ r.v.chain # <<>>
<1>0. v.skip \in BOOLEAN /\ DOMAIN v = ValidatorFields
  BY DEF Sound, Settings, Setting, Configured
<1>1. CASE v.state # "INIT"
  <2>1. r = OK(v) BY <1>1 DEF Stage
  <2>2. ~v.skip BY <1>1 DEF Sound, Progress
  <2> QED BY <1>1, <2>1, <2>2, Result DEF Staged, SameAnswer
<1>2. CASE v.state = "INIT" /\ v.skip
  <2>1. r = OK(v) BY <1>2 DEF Stage, s2n_x509_validator_process_cert_chain
  <2> QED BY <1>2, <2>1, Result DEF Staged, SameAnswer
<1>3. CASE v.state = "INIT" /\ ~v.skip /\ ~s2n_verify_host_information(v.chain[1], conf.host)
  <2>1. r = Fail(v, "CERT_UNTRUSTED") BY <1>3 DEF Stage, s2n_x509_validator_process_cert_chain
  <2> QED BY <1>3, <2>1, Result DEF Staged, SameAnswer
<1>4. CASE v.state = "INIT" /\ ~v.skip /\ s2n_verify_host_information(v.chain[1], conf.host)
  <2>1. v.chain = chain /\ v.chain[1] = chain[1] BY <1>4 DEF Sound, Progress
  <2>2. NameMatches(conf, chain)
    BY <1>4, <2>1 DEF NameMatches, s2n_verify_host_information, VerifyHost
  <2>3. r = IF conf.crl = "none" THEN OK([v EXCEPT !.state = "READY_TO_VERIFY"])
            ELSE IF conf.crl = "cancel" THEN Fail(v, "CANCELLED")
            ELSE s2n_crl_handle_lookup_callback_result(
                   [v EXCEPT !.lookups = s2n_crl_invoke_lookup_callbacks(v, conf, clock)])
    BY <1>4 DEF Stage, s2n_x509_validator_process_cert_chain
  <2>4. CASE r = Fail(v, "CANCELLED") BY <1>4, <2>4, Result DEF Staged, SameAnswer
  <2>5. CASE r = OK([v EXCEPT !.state = "READY_TO_VERIFY"])
    <3> DEFINE u == [v EXCEPT !.state = "READY_TO_VERIFY"]
    <3>1. /\ DOMAIN u = ValidatorFields /\ u.state = "READY_TO_VERIFY"
          /\ u.skip = v.skip /\ u.check_ocsp = v.check_ocsp /\ u.depth = v.depth /\ u.trust = v.trust
          /\ u.chain = v.chain /\ u.path = v.path /\ u.lookups = v.lookups
          /\ u.cb_invoked = v.cb_invoked /\ u.finished = v.finished /\ u.accepted = v.accepted
      BY <1>0, StateSet
    <3> HIDE DEF u
    <3>2. v.lookups = <<>> BY <1>4 DEF Sound, Progress
    <3>3. AllAnswered(u) BY <3>1, <3>2 DEF AllAnswered
    <3>4. Sound(u, conf, chain, a, clock)
      BY <1>4, <2>1, <2>2, <3>1, <3>3 DEF Sound, Settings, Progress
    <3>5. r = OK(u) BY <2>5 DEF u
    <3> QED BY <1>4, <3>1, <3>4, <3>5, Result DEF Staged, SameAnswer
  <2>6. CASE r = s2n_crl_handle_lookup_callback_result(
                   [v EXCEPT !.lookups = s2n_crl_invoke_lookup_callbacks(v, conf, clock)])
    <3>1. PICK ls : ls = s2n_crl_invoke_lookup_callbacks(v, conf, clock) OBVIOUS
    <3>2. Row(ls) /\ \A i \in DOMAIN ls : LookupSound(ls[i], conf, a, clock)
      <4>1. Row(v.chain) BY <2>1, RowOf DEF Setting
      <4>2. a \in Int /\ clock \in Int /\ a <= clock BY DEF Setting
      <4> QED BY <4>1, <4>2, <3>1, Invoked
    <3> DEFINE s == IF \E i \in DOMAIN ls : ls[i].status = "AWAITING_RESPONSE"
                    THEN "AWAITING_CRL_CALLBACK" ELSE "READY_TO_VERIFY"
               u == [[v EXCEPT !.lookups = ls] EXCEPT !.state = s]
    <3>3. [v EXCEPT !.lookups = ls].lookups = ls BY <1>0 DEF ValidatorFields
    <3>4. r = IF s = "READY_TO_VERIFY" THEN OK(u) ELSE Fail(u, "ASYNC_BLOCKED")
      BY <2>6, <3>1, <3>3 DEF s2n_crl_handle_lookup_callback_result, s2n_crl_get_lookup_callback_status
    <3>5. s \in {"AWAITING_CRL_CALLBACK", "READY_TO_VERIFY"} OBVIOUS
    <3>6. s = "READY_TO_VERIFY" => \A i \in DOMAIN ls : ls[i].status = "FINISHED"
      BY <3>2 DEF LookupSound
    <3> HIDE DEF s
    <3>7. /\ DOMAIN u = ValidatorFields /\ u.state = s
          /\ u.skip = v.skip /\ u.check_ocsp = v.check_ocsp /\ u.depth = v.depth /\ u.trust = v.trust
          /\ u.chain = v.chain /\ u.path = v.path /\ u.lookups = ls
          /\ u.cb_invoked = v.cb_invoked /\ u.finished = v.finished /\ u.accepted = v.accepted
      BY <1>0 DEF ValidatorFields
    <3> HIDE DEF u
    <3>8. u.state = "READY_TO_VERIFY" => AllAnswered(u) BY <3>6, <3>7 DEF AllAnswered
    <3>9. Sound(u, conf, chain, a, clock)
      <4>1. Settings(u, conf) BY <3>7 DEF Sound, Settings
      <4>2. Progress(u, conf, chain, a, clock)
        BY <1>4, <2>1, <2>2, <3>2, <3>5, <3>7, <3>8 DEF Sound, Progress
      <4> QED BY <4>1, <4>2 DEF Sound
    <3> QED BY <1>4, <3>4, <3>5, <3>7, <3>9, Result DEF Staged, SameAnswer
  <2> QED BY <2>3, <2>4, <2>5, <2>6
<1> QED BY <1>0, <1>1, <1>2, <1>3, <1>4

(* Libcrypto's verdict: a path to an anchor, all of it in force now and    *)
(* none of it revoked.                                                     *)
LEMMA ChainVerified ==
    ASSUME NEW v, NEW conf, NEW chain, NEW a, NEW clock, Setting(conf, chain, a, clock),
           Sound(v, conf, chain, a, clock), NEW msg, NEW r,
           r = Stage("verify", v, conf, msg, clock),
           \/ v.state = "READY_TO_VERIFY" /\ ~v.skip
           \/ v.state = "INIT" /\ v.skip /\ v.chain # <<>>
    PROVE  /\ Staged(v, r, conf, chain, a, clock)
           /\ r.v.state # "OCSP_VALIDATED"
           /\ r.err = "OK" => \/ r.v.state = "VALIDATED" /\ ~r.v.skip
                              \/ r.v.state = "INIT" /\ r.v.skip /\ r.v.chain # <<>>
<1>0. DOMAIN v = ValidatorFields BY DEF Sound, Settings
<1>1. CASE v.state = "INIT" /\ v.skip /\ v.chain # <<>>
  <2>1. r = OK(v) BY <1>1 DEF Stage
  <2> QED BY <1>1, <2>1, Result DEF Staged, SameAnswer
<1>2. CASE v.state = "READY_TO_VERIFY" /\ ~v.skip
  <2>1. v.chain = chain /\ v.trust = conf.trust /\ v.depth \in Nat
    BY <1>2 DEF Sound, Settings, Progress, Setting, Configured, Depth, DEFAULT_MAX_CHAIN_DEPTH
  <2>2. PICK path : path = BuildPath(v.chain, v.trust, v.depth) OBVIOUS
  <2>3. Path(path, chain, conf.trust)
    <3>1. Row(chain) /\ chain # <<>> BY RowOf DEF Setting
    <3> QED BY <3>1, <2>1, <2>2, BuildPathSound
  <2> DEFINE crls == s2n_crl_get_crls_from_lookup_list(v)
             crl_error == IF conf.crl = "none" THEN "OK" ELSE CrlError(path, crls)
             time_error == IF conf.notime THEN "OK" ELSE TimeError(path, clock)
             u == [v EXCEPT !.state = "VALIDATED", !.path = path]
             verdict == IF Last(path) \notin v.trust THEN Fail(v, "CERT_UNTRUSTED")
                        ELSE IF crl_error # "OK" THEN Fail(v, crl_error)
                        ELSE IF time_error # "OK" THEN Fail(v, time_error)
                        ELSE OK(u)
  <2>4. r = verdict
    <3>1. r = s2n_x509_validator_verify_cert_chain(v, conf, clock) BY <1>2 DEF Stage
    <3>2. r = The({verdict}) BY <3>1, <2>2 DEF s2n_x509_validator_verify_cert_chain
    <3> HIDE DEF verdict
    <3> QED BY <3>2, TheOne
  <2>5. crl_error \in {"OK", "CRL_LOOKUP_FAILED", "CERT_REVOKED"} BY DEF CrlError
  <2>6. time_error \in {"OK", "CERT_NOT_YET_VALID", "CERT_EXPIRED"} BY DEF TimeError
  <2>7. Row(path) /\ DOMAIN path = 1..Len(path) /\ ToSet(path) = {path[i] : i \in DOMAIN path}
    BY <2>3, RowFacts DEF Path, ToSet
  <2>8. ASSUME Last(path) \in v.trust, time_error = "OK" PROVE Anchored(conf, chain, clock)
    <3>1. ASSUME NEW j \in 1..Len(path), ~conf.notime PROVE InPeriod(CertInfo[path[j]], clock)
      <4>1. path[j] \in DOMAIN CertInfo
        <5>1. path[j] \in conf.trust \cup ToSet(chain) BY <2>3 DEF Path
        <5>2. ToSet(chain) \subseteq DOMAIN CertInfo
          <6>1. DOMAIN chain = 1..Len(chain) BY RowOf DEF Setting
          <6>2. \A i \in 1..Len(chain) : chain[i] \in DOMAIN CertInfo BY ElementOfSeq DEF Setting
          <6> QED BY <6>1, <6>2 DEF ToSet
        <5> QED BY <5>1, <5>2 DEF Setting, Configured
      <4>2. ~(clock < CertInfo[path[j]].from) /\ ~(clock > CertInfo[path[j]].to)
        BY <2>7, <2>8, <3>1 DEF TimeError
      <4>3. CertInfo[path[j]].from \in Int /\ CertInfo[path[j]].to \in Int /\ clock \in Int
        BY <4>1, TimesAssumption DEF Setting
      <4> QED BY <4>2, <4>3 DEF InPeriod
    <3>2. \A j \in 1..Len(path) : InForce(conf, path[j], clock) BY <3>1 DEF InForce
    <3> QED BY <2>1, <2>3, <2>8, <3>2, PathAnchors
  <2>9. ASSUME conf.crl # "none", crl_error = "OK"
        PROVE  \A c \in ToSet(path) : \E i \in DOMAIN v.lookups :
                 /\ v.lookups[i].crl # NoCrl
                 /\ CrlInfo[v.lookups[i].crl].issuer = CertInfo[c].issuer
                 /\ c \notin CrlInfo[v.lookups[i].crl].revoked
    <3> DEFINE of(c) == { q \in crls : CrlInfo[q].issuer = CertInfo[c].issuer }
    <3>1. \A i \in DOMAIN path : of(path[i]) # {} /\ \A q \in of(path[i]) : path[i] \notin CrlInfo[q].revoked
      BY <2>9 DEF CrlError
    <3> TAKE c \in ToSet(path)
    <3>2. PICK i \in DOMAIN path : path[i] = c BY <2>7
    <3>3. PICK q \in crls : CrlInfo[q].issuer = CertInfo[c].issuer /\ c \notin CrlInfo[q].revoked
      BY <3>1, <3>2
    <3>4. PICK j \in DOMAIN v.lookups : v.lookups[j].crl = q /\ q # NoCrl
      BY <3>3 DEF s2n_crl_get_crls_from_lookup_list
    <3> QED BY <3>3, <3>4
  <2>10. CASE r.err # "OK"
    <3>1. \E err \in {"CERT_UNTRUSTED", "CRL_LOOKUP_FAILED", "CERT_REVOKED", "CERT_NOT_YET_VALID",
                      "CERT_EXPIRED"} : r = Fail(v, err)
      <4> HIDE DEF crl_error, time_error, u
      <4> QED BY <2>4, <2>5, <2>6, <2>10, Result
    <3> QED BY <1>2, <3>1, Result DEF Staged, SameAnswer
  <2>11. CASE r.err = "OK"
    <3>1. r = OK(u) /\ Last(path) \in v.trust /\ crl_error = "OK" /\ time_error = "OK"
      <4> HIDE DEF crl_error, time_error, u
      <4> QED BY <2>4, <2>11, Result
    <3>2. /\ DOMAIN u = ValidatorFields /\ u.state = "VALIDATED"
          /\ u.skip = v.skip /\ u.check_ocsp = v.check_ocsp /\ u.depth = v.depth /\ u.trust = v.trust
          /\ u.chain = v.chain /\ u.path = path /\ u.lookups = v.lookups
          /\ u.cb_invoked = v.cb_invoked /\ u.finished = v.finished /\ u.accepted = v.accepted
      BY <1>0 DEF ValidatorFields
    <3> HIDE DEF u, crl_error, time_error, verdict
    <3>3. \E t \in a..clock : Anchored(conf, chain, t)
      <4>1. clock \in a..clock BY DEF Setting
      <4> QED BY <4>1, <2>8, <3>1
    <3>4. conf.crl # "none" => NotRevoked(u) BY <2>9, <3>1, <3>2 DEF NotRevoked
    <3>5. AllAnswered(u) BY <1>2, <3>2 DEF AllAnswered, Sound, Progress
    <3>6. Sound(u, conf, chain, a, clock)
      <4>1. Settings(u, conf) BY <3>2 DEF Sound, Settings
      <4>2. Progress(u, conf, chain, a, clock)
        BY <1>2, <2>1, <3>2, <3>3, <3>4, <3>5 DEF Sound, Progress
      <4> QED BY <4>1, <4>2 DEF Sound
    <3> QED BY <1>2, <3>1, <3>2, <3>6, Result DEF Staged, SameAnswer
  <2> QED BY <2>10, <2>11
<1> QED BY <1>1, <1>2

LEMMA RootChecked ==
    ASSUME NEW v, NEW conf, NEW chain, NEW a, NEW clock, Setting(conf, chain, a, clock),
           Sound(v, conf, chain, a, clock), NEW msg, NEW r,
           r = Stage("root", v, conf, msg, clock)
    PROVE  Staged(v, r, conf, chain, a, clock) /\ r.v = v
<1>1. r = OK(v) \/ r = Fail(v, "SECURITY_POLICY_INCOMPATIBLE_CERT")
  BY DEF Stage, s2n_x509_validator_check_root_cert
<1> QED BY <1>1, Result DEF Staged, SameAnswer

(* A stapled response that has to be good now.                             *)
LEMMA StapleReceived ==
    ASSUME NEW v, NEW conf, NEW chain, NEW a, NEW b, Setting(conf, chain, a, b),
           Sound(v, conf, chain, a, b), NEW clock \in Int, NEW staple, staple.from \in Int, staple.to \in Int, NEW r,
           r = s2n_cert_status_recv(v, staple, clock), v.chain # <<>>,
           v.state \in {"VALIDATED", "OCSP_VALIDATED"} \/ v.skip
    PROVE  /\ Staged(v, r, conf, chain, a, b)
           /\ r.err = "OK" /\ staple.type = "ocsp" => r.v.state = "OCSP_VALIDATED"
           /\ r.v = v \/ /\ r.v = [v EXCEPT !.state = "OCSP_VALIDATED"]
                         /\ staple.type = "ocsp"
                         /\ v.check_ocsp => StapleGood(staple, clock)
<1>0. DOMAIN v = ValidatorFields BY DEF Sound, Settings
<1> DEFINE u == [v EXCEPT !.state = "OCSP_VALIDATED"]
<1>1. \/ staple.type # "ocsp" /\ r = OK(v)
      \/ \E err \in {"INVALID_CERT_STATE", "CERT_UNTRUSTED", "CERT_INVALID", "CERT_EXPIRED", "CERT_REVOKED"} :
           r = Fail(v, err)
      \/ staple.type = "ocsp" /\ r = OK(u) /\ (v.skip \/ ~v.check_ocsp \/ StapleGood(staple, clock))
  <2>1. DEFAULT_OCSP_NEXT_UPDATE_PERIOD \in Nat /\ clock \in Int /\ NoNextUpdate \in Int
    BY TimesAssumption DEF NoNextUpdate
  <2> DEFINE last == IF staple.to = NoNextUpdate
                     THEN staple.from + DEFAULT_OCSP_NEXT_UPDATE_PERIOD - 1 ELSE staple.to
             error == IF ~staple.signed THEN "CERT_UNTRUSTED"
                      ELSE IF clock < staple.from THEN "CERT_INVALID"
                      ELSE IF clock > last THEN "CERT_EXPIRED"
                      ELSE IF staple.status = "revoked" THEN "CERT_REVOKED"
                      ELSE IF staple.status # "good" THEN "CERT_UNTRUSTED" ELSE "OK"
  <2>2. error = "OK" => StapleGood(staple, clock) BY <2>1 DEF StapleGood
  <2>3. error \in {"OK", "CERT_UNTRUSTED", "CERT_INVALID", "CERT_EXPIRED", "CERT_REVOKED"} OBVIOUS
  <2>4. r = IF staple.type # "ocsp" THEN OK(v)
            ELSE IF v.skip \/ ~v.check_ocsp THEN OK(u)
            ELSE IF v.state # "VALIDATED" THEN Fail(v, "INVALID_CERT_STATE")
            ELSE IF error = "OK" THEN OK(u) ELSE Fail(v, error)
    BY DEF s2n_cert_status_recv, s2n_x509_validator_validate_cert_stapled_ocsp_response
  <2> HIDE DEF error, u
  <2> QED BY <2>2, <2>3, <2>4
<1>2. CASE staple.type # "ocsp" /\ r = OK(v) BY <1>2, Result DEF Staged, SameAnswer
<1>3. CASE \E err \in {"INVALID_CERT_STATE", "CERT_UNTRUSTED", "CERT_INVALID", "CERT_EXPIRED", "CERT_REVOKED"} :
             r = Fail(v, err)
  BY <1>3, Result DEF Staged, SameAnswer
<1>4. CASE staple.type = "ocsp" /\ r = OK(u) /\ (v.skip \/ ~v.check_ocsp \/ StapleGood(staple, clock))
  <2>1. /\ DOMAIN u = ValidatorFields /\ u.state = "OCSP_VALIDATED"
        /\ u.skip = v.skip /\ u.check_ocsp = v.check_ocsp /\ u.depth = v.depth /\ u.trust = v.trust
        /\ u.chain = v.chain /\ u.path = v.path /\ u.lookups = v.lookups
        /\ u.cb_invoked = v.cb_invoked /\ u.finished = v.finished /\ u.accepted = v.accepted
    BY <1>0, StateSet
  <2>2. u = [v EXCEPT !.state = "OCSP_VALIDATED"] OBVIOUS
  <2> HIDE DEF u
  <2>3. AllAnswered(u)
    <3>1. CASE v.skip BY <3>1, <2>1 DEF Sound, Progress, AllAnswered
    <3>2. CASE v.state \in {"VALIDATED", "OCSP_VALIDATED"}
      BY <3>2, <2>1 DEF Sound, Progress, AllAnswered
    <3> QED BY <3>1, <3>2
  <2>4. Settings(u, conf) BY <2>1 DEF Sound, Settings
  <2>5. NotRevoked(v) => NotRevoked(u) BY <2>1 DEF NotRevoked
  <2>6. Progress(u, conf, chain, a, b)
    BY <2>1, <2>3, <2>5 DEF Sound, Progress
  <2>7. v.check_ocsp => ~v.skip
    BY DEF Sound, Settings, Setting, Configured
  <2>8. r.v = u /\ r.err = "OK" BY <1>4, Result
  <2>9. Staged(v, r, conf, chain, a, b)
    BY <2>1, <2>4, <2>6, <2>8 DEF Staged, SameAnswer, Sound
  <2>10. v.check_ocsp => StapleGood(staple, clock) BY <1>4, <2>7
  <2> QED BY <1>4, <2>1, <2>2, <2>8, <2>9, <2>10
<1> QED BY <1>1, <1>2, <1>3, <1>4

LEMMA Guarded ==
    ASSUME NEW q, NEW stage, NEW conf, NEW msg, NEW clock
    PROVE  Then(q, stage, conf, msg, clock)
             = IF q.err = "OK" THEN Stage(stage, q.v, conf, msg, clock) ELSE q
<1> DEFINE e == IF q.err = "OK" THEN Stage(stage, q.v, conf, msg, clock) ELSE q
<1>1. Then(q, stage, conf, msg, clock) = The({e}) BY DEF Then
<1> HIDE DEF e
<1>2. The({e}) = e BY TheOne
<1>3. Then(q, stage, conf, msg, clock) = e BY <1>1, <1>2
<1> QED BY <1>3 DEF e

(* The stages before the callback, one after the other.                    *)
LEMMA BeforeCallback ==
    ASSUME NEW v, NEW conf, NEW chain, NEW a, NEW clock, Setting(conf, chain, a, clock),
           Sound(v, conf, chain, a, clock), NEW msg, msg.chain = chain,
           msg.staple.from \in Int, msg.staple.to \in Int, NEW r1, NEW r2, NEW r3, NEW r4, NEW r5, NEW r6,
           r1 = Stage("resume", v, conf, msg, clock),
           r2 = Then(r1, "read", conf, msg, clock), r3 = Then(r2, "process", conf, msg, clock),
           r4 = Then(r3, "verify", conf, msg, clock), r5 = Then(r4, "root", conf, msg, clock),
           r6 = Then(r5, "extensions", conf, msg, clock)
    PROVE  /\ Staged(v, r6, conf, chain, a, clock)
           /\ r6.err = "OK" => Passed(r6.v, conf, msg.staple)
           /\ r6.v.state = "OCSP_VALIDATED" =>
                \/ v.state = "OCSP_VALIDATED"
                \/ /\ conf.tls13 /\ msg.staple.type = "ocsp"
                   /\ r6.v.check_ocsp => StapleGood(msg.staple, clock)
<1>1. /\ Staged(v, r1, conf, chain, a, clock)
      /\ r1.err = "OK" => r1.v.state \in {"INIT", "READY_TO_VERIFY"}
      /\ r1.v.state = "OCSP_VALIDATED" => v.state = "OCSP_VALIDATED"
  BY Resumed
<1>2. /\ Staged(v, r2, conf, chain, a, clock)
      /\ r2.v.state = "OCSP_VALIDATED" => v.state = "OCSP_VALIDATED"
      /\ r2.err = "OK" =>
           /\ r2.v.state \in {"INIT", "READY_TO_VERIFY"}
           /\ r2.v.state = "INIT" => /\ r2.v.chain # <<>>
                                     /\ ~r2.v.skip => Len(chain) <= Depth(conf) /\ PolicyMet(conf, chain)
  <2>1. CASE r1.err # "OK"
    <3>1. r2 = r1 BY <2>1, Guarded
    <3> QED BY <3>1, <2>1, <1>1
  <2>2. CASE r1.err = "OK"
    <3>1. r2 = Stage("read", r1.v, conf, msg, clock) BY <2>2, Guarded
    <3>2. Sound(r1.v, conf, chain, a, clock) BY <1>1 DEF Staged
    <3>3. /\ Staged(r1.v, r2, conf, chain, a, clock) /\ r2.v.state = r1.v.state
          /\ r2.err = "OK" /\ r1.v.state = "INIT" =>
                /\ r2.v.chain # <<>>
                /\ ~r1.v.skip => Len(chain) <= Depth(conf) /\ PolicyMet(conf, chain)
      BY <3>1, <3>2, <2>2, <1>1, ChainRead
    <3>4. r1.v.skip = r2.v.skip BY <3>3, <1>1 DEF Staged, Sound, Settings
    <3> QED BY <3>3, <3>4, <2>2, <1>1 DEF Staged, SameAnswer
  <2> QED BY <2>1, <2>2
<1>3. /\ Staged(v, r3, conf, chain, a, clock)
      /\ r3.v.state = "OCSP_VALIDATED" => v.state = "OCSP_VALIDATED"
      /\ r3.err = "OK" => \/ r3.v.state = "READY_TO_VERIFY" /\ ~r3.v.skip
                          \/ r3.v.state = "INIT" /\ r3.v.skip /\ r3.v.chain # <<>>
  <2>1. CASE r2.err # "OK"
    <3>1. r3 = r2 BY <2>1, Guarded
    <3> QED BY <3>1, <2>1, <1>2
  <2>2. CASE r2.err = "OK"
    <3>1. r3 = Stage("process", r2.v, conf, msg, clock) BY <2>2, Guarded
    <3>2. Sound(r2.v, conf, chain, a, clock) BY <1>2 DEF Staged
    <3>3. /\ Staged(r2.v, r3, conf, chain, a, clock) /\ r3.v.state # "OCSP_VALIDATED"
          /\ r3.err = "OK" => \/ r3.v.state = "READY_TO_VERIFY" /\ ~r2.v.skip
                              \/ r3.v.state = "INIT" /\ r2.v.skip /\ r3.v.chain # <<>>
      BY <3>1, <3>2, <2>2, <1>2, ChainProcessed
    <3>4. r3.v.skip = r2.v.skip BY <3>3, <1>2 DEF Staged, Sound, Settings
    <3> QED BY <3>3, <3>4, <2>2, <1>2 DEF Staged, SameAnswer
  <2> QED BY <2>1, <2>2
<1>4. /\ Staged(v, r4, conf, chain, a, clock)
      /\ r4.v.state = "OCSP_VALIDATED" => v.state = "OCSP_VALIDATED"
      /\ r4.err = "OK" => \/ r4.v.state = "VALIDATED" /\ ~r4.v.skip
                          \/ r4.v.state = "INIT" /\ r4.v.skip /\ r4.v.chain # <<>>
  <2>1. CASE r3.err # "OK"
    <3>1. r4 = r3 BY <2>1, Guarded
    <3> QED BY <3>1, <2>1, <1>3
  <2>2. CASE r3.err = "OK"
    <3>1. r4 = Stage("verify", r3.v, conf, msg, clock) BY <2>2, Guarded
    <3>2. Sound(r3.v, conf, chain, a, clock) BY <1>3 DEF Staged
    <3>3. /\ Staged(r3.v, r4, conf, chain, a, clock) /\ r4.v.state # "OCSP_VALIDATED"
          /\ r4.err = "OK" => \/ r4.v.state = "VALIDATED" /\ ~r4.v.skip
                              \/ r4.v.state = "INIT" /\ r4.v.skip /\ r4.v.chain # <<>>
      BY <3>1, <3>2, <2>2, <1>3, ChainVerified
    <3> QED BY <3>3, <2>2, <1>3 DEF Staged, SameAnswer
  <2> QED BY <2>1, <2>2
<1>5. /\ Staged(v, r5, conf, chain, a, clock)
      /\ r5.v.state = "OCSP_VALIDATED" => v.state = "OCSP_VALIDATED"
      /\ r5.err = "OK" => \/ r5.v.state = "VALIDATED" /\ ~r5.v.skip
                          \/ r5.v.state = "INIT" /\ r5.v.skip /\ r5.v.chain # <<>>
  <2>1. CASE r4.err # "OK"
    <3>1. r5 = r4 BY <2>1, Guarded
    <3> QED BY <3>1, <2>1, <1>4
  <2>2. CASE r4.err = "OK"
    <3>1. r5 = Stage("root", r4.v, conf, msg, clock) BY <2>2, Guarded
    <3>2. Sound(r4.v, conf, chain, a, clock) BY <1>4 DEF Staged
    <3>3. Staged(r4.v, r5, conf, chain, a, clock) /\ r5.v = r4.v
      BY <3>1, <3>2, RootChecked
    <3> QED BY <3>3, <2>2, <1>4 DEF Staged, SameAnswer
  <2> QED BY <2>1, <2>2
<1>6. CASE r5.err # "OK"
  <2>1. r6 = r5 BY <1>6, Guarded
  <2> QED BY <2>1, <1>6, <1>5
<1>7. CASE r5.err = "OK"
  <2>1. Sound(r5.v, conf, chain, a, clock) /\ r5.v.chain # <<>> BY <1>5, <1>7 DEF Staged, Sound, Progress
  <2>2. CASE conf.tls13 /\ msg.staple.type # "none"
    <3>1. r6 = s2n_cert_status_recv(r5.v, msg.staple, clock)
      <4>1. r6 = Stage("extensions", r5.v, conf, msg, clock) BY <1>7, Guarded
      <4> QED BY <4>1, <2>2 DEF Stage
    <3>0. clock \in Int BY DEF Setting
    <3>2. /\ Staged(r5.v, r6, conf, chain, a, clock)
          /\ r6.err = "OK" /\ msg.staple.type = "ocsp" => r6.v.state = "OCSP_VALIDATED"
          /\ r6.v = r5.v \/ /\ r6.v = [r5.v EXCEPT !.state = "OCSP_VALIDATED"]
                            /\ msg.staple.type = "ocsp"
                            /\ r5.v.check_ocsp => StapleGood(msg.staple, clock)
      BY <3>0, <3>1, <2>1, <1>5, <1>7, StapleReceived
    <3>3. Staged(v, r6, conf, chain, a, clock) BY <3>2, <1>5 DEF Staged, SameAnswer
    <3>4. r5.v.check_ocsp = r6.v.check_ocsp /\ r5.v.skip = r6.v.skip
      BY <3>2, <2>1 DEF Staged, Sound, Settings
    <3>5. r6.v.chain # <<>> /\ (r6.v.state = "OCSP_VALIDATED" \/ r6.v = r5.v)
      <4>1. CASE r6.v = r5.v BY <4>1, <2>1
      <4>2. CASE r6.v = [r5.v EXCEPT !.state = "OCSP_VALIDATED"]
        <5>1. DOMAIN r5.v = ValidatorFields BY <2>1 DEF Sound, Settings
        <5> QED BY <5>1, <4>2, <2>1 DEF ValidatorFields
      <4> QED BY <4>1, <4>2, <3>2
    <3>6. r6.err = "OK" => Passed(r6.v, conf, msg.staple)
      BY <3>2, <3>4, <3>5, <1>5, <1>7 DEF Passed
    <3>7. r6.v.state = "OCSP_VALIDATED" =>
            \/ v.state = "OCSP_VALIDATED"
            \/ /\ conf.tls13 /\ msg.staple.type = "ocsp"
               /\ r6.v.check_ocsp => StapleGood(msg.staple, clock)
      BY <3>2, <3>4, <2>2, <1>5
    <3> QED BY <3>3, <3>6, <3>7
  <2>3. CASE ~(conf.tls13 /\ msg.staple.type # "none")
    <3>1. r6 = OK(r5.v)
      <4>1. r6 = Stage("extensions", r5.v, conf, msg, clock) BY <1>7, Guarded
      <4> QED BY <4>1, <2>3 DEF Stage
    <3>2. r6.v = r5.v /\ r6.err = "OK" BY <3>1, Result
    <3>3. Passed(r6.v, conf, msg.staple) BY <3>2, <2>1, <2>3, <1>5, <1>7 DEF Passed
    <3> QED BY <3>2, <3>3, <1>5 DEF Staged
  <2> QED BY <2>2, <2>3
<1> QED BY <1>6, <1>7

LEMMA Answers ==
    ASSUME NEW v, NEW conf, NEW chain, NEW a, NEW clock, Setting(conf, chain, a, clock),
           Sound(v, conf, chain, a, clock), NEW staple, Called(v, conf, staple), v.cb_invoked, NEW r,
           r = s2n_x509_validator_handle_cert_validation_callback_result(v)
    PROVE  /\ r.v = v
           /\ r.err = "OK" => Accepted(v, conf, staple)
<1>1. \/ r = Fail(v, "ASYNC_BLOCKED") \/ r = Fail(v, "CERT_REJECTED")
      \/ r = OK(v) /\ v.finished /\ v.accepted
  BY DEF s2n_x509_validator_handle_cert_validation_callback_result
<1>2. AllAnswered(v)
  BY DEF Called, Passed, Sound, Progress, AllAnswered
<1>3. v.finished /\ v.accepted => Accepted(v, conf, staple)
  BY <1>2 DEF Called, Accepted
<1> QED BY <1>1, <1>3, Result

(* The callback is called once everything else is settled.                 *)
LEMMA CallbackCalled ==
    ASSUME NEW v, NEW conf, NEW chain, NEW a, NEW clock, Setting(conf, chain, a, clock),
           Sound(v, conf, chain, a, clock), NEW staple, Passed(v, conf, staple),
           ~v.cb_invoked, ~v.finished, v.cb_invoked \in BOOLEAN, v.finished \in BOOLEAN, NEW r,
           r = InvokeCertValidationCallback(v, conf)
    PROVE  /\ Sound(r.v, conf, chain, a, clock) /\ Called(r.v, conf, staple)
           /\ r.v.state = v.state /\ r.v.check_ocsp = v.check_ocsp
           /\ r.err = "OK" => Accepted(r.v, conf, staple)
           /\ conf.cb \notin {"none", "cancel"} => r.v.cb_invoked
           /\ r.v.cb_invoked \in BOOLEAN /\ r.v.finished \in BOOLEAN
<1>0. DOMAIN v = ValidatorFields BY DEF Sound, Settings
<1>1. AllAnswered(v)
  BY DEF Passed, Sound, Progress, AllAnswered
<1>2. CASE conf.cb \in {"none", "cancel"}
  <2>1. \/ conf.cb = "none" /\ r = OK(v)
        \/ conf.cb = "cancel" /\ r = Fail(v, "CANCELLED")
    <3>1. CASE conf.cb = "none" BY <3>1 DEF InvokeCertValidationCallback
    <3>2. CASE conf.cb = "cancel"
      <4>1. conf.cb # "none" BY <3>2
      <4> QED BY <3>2, <4>1 DEF InvokeCertValidationCallback
    <3> QED BY <1>2, <3>1, <3>2
  <2>2. r.v = v /\ (r.err = "OK" => conf.cb = "none") BY <2>1, Result
  <2> QED BY <1>1, <1>2, <2>2 DEF Called, Accepted
<1>3. CASE conf.cb \notin {"none", "cancel"}
  <2> DEFINE called == [v EXCEPT !.cb_invoked = TRUE]
             u == CASE conf.cb = "accept" -> s2n_cert_validation_accept(called)
                    [] conf.cb = "reject" -> s2n_cert_validation_reject(called)
                    [] OTHER -> called
  <2>1. r = s2n_x509_validator_handle_cert_validation_callback_result(u)
    BY <1>3 DEF InvokeCertValidationCallback
  <2>2. /\ DOMAIN called = ValidatorFields /\ called.state = v.state
        /\ called.skip = v.skip /\ called.check_ocsp = v.check_ocsp /\ called.depth = v.depth
        /\ called.trust = v.trust /\ called.chain = v.chain /\ called.path = v.path
        /\ called.lookups = v.lookups /\ called.cb_invoked = TRUE /\ called.finished = v.finished
        /\ called.accepted = v.accepted
    BY <1>0 DEF ValidatorFields
  <2> HIDE DEF called
  <2>3. /\ DOMAIN u = ValidatorFields /\ u.state = v.state
        /\ u.skip = v.skip /\ u.check_ocsp = v.check_ocsp /\ u.depth = v.depth
        /\ u.trust = v.trust /\ u.chain = v.chain /\ u.path = v.path
        /\ u.lookups = v.lookups /\ u.cb_invoked = TRUE /\ u.finished \in BOOLEAN
        /\ conf.cb = "reject" => u.finished /\ ~u.accepted
    <3>1. CASE conf.cb = "accept"
      <4>1. u = [called EXCEPT !.finished = TRUE, !.accepted = TRUE]
        BY <3>1 DEF s2n_cert_validation_accept
      <4> HIDE DEF u
      <4> QED BY <4>1, <3>1, <2>2 DEF ValidatorFields
    <3>2. CASE conf.cb = "reject"
      <4>1. u = [called EXCEPT !.finished = TRUE, !.accepted = FALSE]
        BY <3>2 DEF s2n_cert_validation_reject
      <4> HIDE DEF u
      <4> QED BY <4>1, <3>2, <2>2 DEF ValidatorFields
    <3>3. CASE conf.cb \notin {"accept", "reject"}
      <4>1. u = called BY <3>3
      <4> HIDE DEF u
      <4> QED BY <4>1, <3>3, <2>2
    <3> QED BY <3>1, <3>2, <3>3
  <2> HIDE DEF u
  <2>4. Sound(u, conf, chain, a, clock)
    <3>1. Settings(u, conf) BY <2>3 DEF Sound, Settings
    <3>2. (NotRevoked(v) => NotRevoked(u)) /\ AllAnswered(u) BY <1>1, <2>3 DEF NotRevoked, AllAnswered
    <3>3. Progress(u, conf, chain, a, clock) BY <2>3, <3>2 DEF Sound, Progress
    <3> QED BY <3>1, <3>3 DEF Sound
  <2>5. Called(u, conf, staple) BY <1>3, <2>3 DEF Called, Passed
  <2>6. r.v = u /\ (r.err = "OK" => Accepted(u, conf, staple)) BY <2>1, <2>3, <2>4, <2>5, Answers
  <2> QED BY <2>3, <2>4, <2>5, <2>6
<1> QED BY <1>2, <1>3

(* One call of s2n_x509_validator_validate_cert_chain, the first or a      *)
(* later one that resumes: what the validator stands for after the calls   *)
(* before it, it stands for after this one, and a chain is accepted only   *)
(* with everything before the callback done, the callback's verdict        *)
(* included.                                                               *)
THEOREM Validation ==
    ASSUME NEW v, NEW conf, NEW chain, NEW a, NEW clock, Setting(conf, chain, a, clock),
           Sound(v, conf, chain, a, clock), v.cb_invoked \in BOOLEAN, v.finished \in BOOLEAN,
           NEW msg, msg.chain = chain, msg.staple.from \in Int, msg.staple.to \in Int,
           Called(v, conf, msg.staple), NEW r,
           r = s2n_x509_validator_validate_cert_chain(v, conf, msg, clock)
    PROVE  /\ Sound(r.v, conf, chain, a, clock) /\ Called(r.v, conf, msg.staple)
           /\ r.v.cb_invoked \in BOOLEAN /\ r.v.finished \in BOOLEAN
           /\ r.err = "OK" => Accepted(r.v, conf, msg.staple)
           /\ v.state # "INIT" => r.v.state # "INIT"
           /\ v.cb_invoked => r.v.cb_invoked
           /\ /\ conf.cb \notin {"none", "cancel"} /\ r.v.state # "AWAITING_CRL_CALLBACK"
              /\ r.err \in {"OK", "ASYNC_BLOCKED", "CERT_REJECTED"}
              => r.v.cb_invoked
           /\ r.v.state = "OCSP_VALIDATED" =>
                \/ v.state = "OCSP_VALIDATED"
                \/ /\ conf.tls13 /\ msg.staple.type = "ocsp"
                   /\ r.v.check_ocsp => StapleGood(msg.staple, clock)
<1>1. CASE v.cb_invoked
  <2>1. r = s2n_x509_validator_handle_cert_validation_callback_result(v)
    BY <1>1 DEF s2n_x509_validator_validate_cert_chain
  <2> QED BY <1>1, <2>1, Answers
<1>2. CASE v.cb_invoked = FALSE
  <2>0. v.finished = FALSE BY <1>2 DEF Called
  <2>1. PICK r1 : r1 = Stage("resume", v, conf, msg, clock) OBVIOUS
  <2>2. PICK r2 : r2 = Then(r1, "read", conf, msg, clock) OBVIOUS
  <2>3. PICK r3 : r3 = Then(r2, "process", conf, msg, clock) OBVIOUS
  <2>4. PICK r4 : r4 = Then(r3, "verify", conf, msg, clock) OBVIOUS
  <2>5. PICK r5 : r5 = Then(r4, "root", conf, msg, clock) OBVIOUS
  <2>6. PICK r6 : r6 = Then(r5, "extensions", conf, msg, clock) OBVIOUS
  <2>7. r = Then(r6, "callback", conf, msg, clock)
    BY <1>2, <2>1, <2>2, <2>3, <2>4, <2>5, <2>6 DEF s2n_x509_validator_validate_cert_chain
  <2>8. /\ Staged(v, r6, conf, chain, a, clock)
        /\ r6.err = "OK" => Passed(r6.v, conf, msg.staple)
        /\ r6.v.state = "OCSP_VALIDATED" =>
             \/ v.state = "OCSP_VALIDATED"
             \/ /\ conf.tls13 /\ msg.staple.type = "ocsp"
                /\ r6.v.check_ocsp => StapleGood(msg.staple, clock)
    BY <2>1, <2>2, <2>3, <2>4, <2>5, <2>6, BeforeCallback
  <2>9. r6.v.cb_invoked = FALSE /\ r6.v.finished = FALSE BY <1>2, <2>0, <2>8 DEF Staged, SameAnswer
  <2>10. CASE r6.err # "OK"
    <3>1. r = r6 BY <2>7, <2>10, Guarded
    <3>2. Called(r6.v, conf, msg.staple) BY <2>9 DEF Called
    <3> QED BY <1>2, <3>1, <3>2, <2>8, <2>9, <2>10 DEF Staged
  <2>11. CASE r6.err = "OK"
    <3>0. PICK u : u = r6.v OBVIOUS
    <3>1. r = InvokeCertValidationCallback(u, conf)
      <4>1. r = Stage("callback", r6.v, conf, msg, clock) BY <2>7, <2>11, Guarded
      <4> QED BY <4>1, <3>0 DEF Stage
    <3>2. /\ Sound(u, conf, chain, a, clock) /\ Passed(u, conf, msg.staple)
          /\ ~u.cb_invoked /\ ~u.finished /\ u.cb_invoked \in BOOLEAN /\ u.finished \in BOOLEAN
      BY <3>0, <2>8, <2>9, <2>11 DEF Staged
    <3>3. /\ Sound(r.v, conf, chain, a, clock) /\ Called(r.v, conf, msg.staple)
          /\ r.v.state = u.state /\ r.v.check_ocsp = u.check_ocsp
          /\ r.err = "OK" => Accepted(r.v, conf, msg.staple)
          /\ conf.cb \notin {"none", "cancel"} => r.v.cb_invoked
          /\ r.v.cb_invoked \in BOOLEAN /\ r.v.finished \in BOOLEAN
      BY <3>1, <3>2, CallbackCalled
    <3> QED BY <1>2, <3>0, <3>3, <2>8 DEF Staged
  <2> QED BY <2>10, <2>11
<1> QED BY <1>1, <1>2

----------------------------------------------------------------------------
(* The inductive invariant of Authentication, in parts, and the kinds of   *)
(* steps: every action is of one of a dozen kinds, which is all that the   *)
(* later proofs know of it.                                                *)

----------------------------------------------------------------------------
(* The order of the messages: each has a place, and the places rise.       *)

Types == {"cert", "cert_verify", "status", "server_key", "client_key", "finished"}
Steps == [by : Peers, type : Types]
At(by, type) == [by |-> by, type |-> type]

Place(x, s) ==
    CASE s.type = "cert" -> IF s.by = "server" THEN 1 ELSE 4
      [] s.type = "cert_verify" -> IF s.by = "server" THEN 2 ELSE 6
      [] s.type = "status" -> 2
      [] s.type = "server_key" -> 3
      [] s.type = "client_key" -> 5
      [] OTHER -> IF s.by = "client" THEN 7 ELSE IF x.kex = "tls13" THEN 3 ELSE 8

(* s is a part of the flow that holds the steps E, at places above lo and  *)
(* up to hi.                                                               *)
Part(x, s, lo, hi, E) ==
    /\ Row(s) /\ E \subseteq Steps
    /\ \A i \in 1..Len(s) : s[i] \in E /\ lo < Place(x, s[i]) /\ Place(x, s[i]) <= hi
    /\ \A e \in E : \E i \in 1..Len(s) : s[i] = e
    /\ \A i, j \in 1..Len(s) : i < j => Place(x, s[i]) < Place(x, s[j])

LEMMA Places ==
    ASSUME NEW x, NEW s \in Steps
    PROVE  Place(x, s) \in Nat
<1> QED BY DEF Steps, Types, Peers, Place

LEMMA OneStep ==
    ASSUME NEW x, NEW s \in Steps, NEW lo \in Nat, NEW hi \in Nat,
           lo < Place(x, s), Place(x, s) <= hi
    PROVE  Part(x, <<s>>, lo, hi, {s})
<1>1. <<s>> \in Seq({s}) /\ Len(<<s>>) = 1 /\ <<s>>[1] = s OBVIOUS
<1>2. Row(<<s>>) BY <1>1, RowOf
<1> QED BY <1>1, <1>2 DEF Part

LEMMA Wider ==
    ASSUME NEW x, NEW s, NEW E, Part(x, s, 0, 7, E)
    PROVE  Part(x, s, 0, 8, E)
<1>1. \A t \in Steps : Place(x, t) \in Nat BY Places
<1>2. \A i \in 1..Len(s) : s[i] \in E /\ 0 < Place(x, s[i]) /\ Place(x, s[i]) <= 8
  <2> TAKE i \in 1..Len(s)
  <2>1. s[i] \in E /\ s[i] \in Steps /\ 0 < Place(x, s[i]) /\ Place(x, s[i]) <= 7 BY DEF Part
  <2> QED BY <2>1, <1>1
<1> QED BY <1>2 DEF Part

LEMMA NoStep ==
    ASSUME NEW x, NEW lo \in Nat, NEW hi \in Nat
    PROVE  Part(x, <<>>, lo, hi, {})
<1>1. <<>> \in Seq({}) /\ Len(<<>>) = 0 OBVIOUS
<1>2. Row(<<>>) BY <1>1, RowOf
<1> QED BY <1>1, <1>2 DEF Part

LEMMA Joined ==
    ASSUME NEW x, NEW a, NEW b, NEW lo \in Nat, NEW mid \in Nat, NEW hi \in Nat, NEW D, NEW E,
           lo <= mid, mid <= hi, Part(x, a, lo, mid, D), Part(x, b, mid, hi, E)
    PROVE  Part(x, a \o b, lo, hi, D \cup E)
<1>1. Row(a) /\ Row(b) /\ Len(a) \in Nat /\ Len(b) \in Nat BY RowFacts DEF Part
<1>2. /\ Row(a \o b) /\ Len(a \o b) = Len(a) + Len(b)
      /\ \A i \in 1..Len(a) : (a \o b)[i] = a[i]
      /\ \A i \in 1..Len(b) : (a \o b)[Len(a) + i] = b[i]
  BY <1>1, RowConcat
<1>3. \A i \in 1..Len(a \o b) : \/ i \in 1..Len(a)
                                \/ i - Len(a) \in 1..Len(b) /\ i = Len(a) + (i - Len(a))
  BY <1>1, <1>2
<1>4. \A i \in 1..Len(a \o b) :
        \/ i \in 1..Len(a) /\ (a \o b)[i] = a[i]
        \/ i > Len(a) /\ i - Len(a) \in 1..Len(b) /\ (a \o b)[i] = b[i - Len(a)]
  BY <1>1, <1>2, <1>3
<1>5. \A s \in Steps : Place(x, s) \in Nat BY Places
<1>6. \A i \in 1..Len(a \o b) :
        /\ (a \o b)[i] \in D \cup E
        /\ lo < Place(x, (a \o b)[i]) /\ Place(x, (a \o b)[i]) <= hi
  BY <1>4, <1>5 DEF Part
<1>7. \A e \in D \cup E : \E i \in 1..Len(a \o b) : (a \o b)[i] = e
  <2> TAKE e \in D \cup E
  <2>1. CASE e \in D
    <3>1. PICK i \in 1..Len(a) : a[i] = e BY <2>1 DEF Part
    <3> QED BY <3>1, <1>1, <1>2
  <2>2. CASE e \in E
    <3>1. PICK i \in 1..Len(b) : b[i] = e BY <2>2 DEF Part
    <3>2. Len(a) + i \in 1..Len(a \o b) BY <1>1, <1>2
    <3> QED BY <3>1, <3>2, <1>2
  <2> QED BY <2>1, <2>2
<1>8. ASSUME NEW i \in 1..Len(a \o b), NEW j \in 1..Len(a \o b), i < j
      PROVE  Place(x, (a \o b)[i]) < Place(x, (a \o b)[j])
  <2>1. CASE j \in 1..Len(a)
    BY <2>1, <1>1, <1>2, <1>8 DEF Part
  <2>2. CASE i > Len(a)
    <3>1. i - Len(a) \in 1..Len(b) /\ j - Len(a) \in 1..Len(b) /\ i - Len(a) < j - Len(a)
      BY <2>2, <1>1, <1>2, <1>8
    <3> QED BY <3>1, <2>2, <1>1, <1>4, <1>8 DEF Part
  <2>3. CASE i \in 1..Len(a) /\ j > Len(a)
    <3>1. j - Len(a) \in 1..Len(b) /\ (a \o b)[j] = b[j - Len(a)] BY <2>3, <1>1, <1>4
    <3>2. Place(x, a[i]) <= mid /\ mid < Place(x, b[j - Len(a)]) BY <2>3, <3>1 DEF Part
    <3>3. Place(x, a[i]) \in Nat /\ Place(x, b[j - Len(a)]) \in Nat
      BY <2>3, <3>1, <1>5 DEF Part
    <3> QED BY <2>3, <3>1, <3>2, <3>3, <1>2
  <2> QED BY <2>1, <2>2, <2>3, <1>1, <1>2, <1>8
<1>9. D \cup E \subseteq Steps BY DEF Part
<1> QED BY <1>2, <1>6, <1>7, <1>8, <1>9 DEF Part

Members(x) ==
    IF x.kex = "tls13"
    THEN {At("server", "cert"), At("server", "cert_verify"), At("server", "finished")}
         \cup (IF x.auth THEN {At("client", "cert")}
                              \cup (IF x.chain["client"] = <<>> THEN {} ELSE {At("client", "cert_verify")})
               ELSE {})
         \cup {At("client", "finished")}
    ELSE {At("server", "cert")}
         \cup (IF x.staple.type = "none" THEN {} ELSE {At("server", "status")})
         \cup (IF x.kex # "rsa" THEN {At("server", "server_key")} ELSE {})
         \cup (IF x.auth THEN {At("client", "cert")} ELSE {})
         \cup {At("client", "client_key")}
         \cup (IF x.auth
               THEN (IF x.chain["client"] = <<>> THEN {} ELSE {At("client", "cert_verify")}) ELSE {})
         \cup {At("client", "finished")} \cup {At("server", "finished")}

(* The flow of a plan is in order and holds the messages of the plan.      *)
LEMMA FlowInOrder ==
    ASSUME NEW x
    PROVE  Part(x, FlowOf(x), 0, 8, Members(x))
<1> DEFINE sc == <<At("server", "cert")>>
           sv == <<At("server", "cert_verify")>>
           st == IF x.staple.type = "none" THEN <<>> ELSE <<At("server", "status")>>
           sk == IF x.kex # "rsa" THEN <<At("server", "server_key")>> ELSE <<>>
           cc == <<At("client", "cert")>>
           cv == IF x.chain["client"] = <<>> THEN <<>> ELSE <<At("client", "cert_verify")>>
           ck == <<At("client", "client_key")>>
           fs == <<At("server", "finished")>>
           fc == <<At("client", "finished")>>
           Est == IF x.staple.type = "none" THEN {} ELSE {At("server", "status")}
           Esk == IF x.kex # "rsa" THEN {At("server", "server_key")} ELSE {}
           Ecv == IF x.chain["client"] = <<>> THEN {} ELSE {At("client", "cert_verify")}
<1>a. \A b \in Peers, t \in Types : At(b, t) \in Steps /\ At(b, t).by = b /\ At(b, t).type = t
  BY DEF At, Steps
<1>1. /\ At("server", "cert") \in Steps /\ Place(x, At("server", "cert")) = 1
      /\ At("server", "cert_verify") \in Steps /\ Place(x, At("server", "cert_verify")) = 2
      /\ At("server", "status") \in Steps /\ Place(x, At("server", "status")) = 2
      /\ At("server", "server_key") \in Steps /\ Place(x, At("server", "server_key")) = 3
      /\ At("client", "cert") \in Steps /\ Place(x, At("client", "cert")) = 4
      /\ At("client", "client_key") \in Steps /\ Place(x, At("client", "client_key")) = 5
      /\ At("client", "cert_verify") \in Steps /\ Place(x, At("client", "cert_verify")) = 6
      /\ At("client", "finished") \in Steps /\ Place(x, At("client", "finished")) = 7
      /\ At("server", "finished") \in Steps
      /\ Place(x, At("server", "finished")) = IF x.kex = "tls13" THEN 3 ELSE 8
  BY <1>a DEF Place, Peers, Types
<1>2. /\ Part(x, sc, 0, 1, {At("server", "cert")})
      /\ Part(x, sv, 1, 2, {At("server", "cert_verify")})
      /\ Part(x, cc, 3, 4, {At("client", "cert")})
      /\ Part(x, ck, 4, 5, {At("client", "client_key")})
      /\ Part(x, fc, 6, 7, {At("client", "finished")})
  BY <1>1, OneStep
<1>3. Part(x, st, 1, 2, Est)
  <2>1. Part(x, <<At("server", "status")>>, 1, 2, {At("server", "status")}) BY <1>1, OneStep
  <2>2. Part(x, <<>>, 1, 2, {}) BY NoStep
  <2> QED BY <2>1, <2>2
<1>4. Part(x, sk, 2, 3, Esk)
  <2>1. Part(x, <<At("server", "server_key")>>, 2, 3, {At("server", "server_key")}) BY <1>1, OneStep
  <2>2. Part(x, <<>>, 2, 3, {}) BY NoStep
  <2> QED BY <2>1, <2>2
<1>5. Part(x, cv, 4, 6, Ecv) /\ Part(x, cv, 5, 6, Ecv)
  <2>1. Part(x, <<At("client", "cert_verify")>>, 4, 6, {At("client", "cert_verify")})
    BY <1>1, OneStep
  <2>2. Part(x, <<>>, 4, 6, {}) BY NoStep
  <2>3. Part(x, <<At("client", "cert_verify")>>, 5, 6, {At("client", "cert_verify")})
    BY <1>1, OneStep
  <2>4. Part(x, <<>>, 5, 6, {}) BY NoStep
  <2> QED BY <2>1, <2>2, <2>3, <2>4
<1>6. ASSUME x.kex = "tls13" PROVE Part(x, FlowOf(x), 0, 8, Members(x))
  <2> DEFINE ca == IF x.auth THEN cc \o cv ELSE <<>>
             Eca == IF x.auth THEN {At("client", "cert")} \cup Ecv ELSE {}
  <2>1. Part(x, fs, 2, 3, {At("server", "finished")}) BY <1>1, <1>6, OneStep
  <2>2. Part(x, ca, 3, 6, Eca)
    <3>1. Part(x, cc \o cv, 3, 6, {At("client", "cert")} \cup Ecv)
      <4> HIDE DEF cc, cv, Ecv
      <4> QED BY <1>2, <1>5, Joined
    <3>2. Part(x, <<>>, 3, 6, {}) BY NoStep
    <3> QED BY <3>1, <3>2
  <2>3. FlowOf(x) = (((sc \o sv) \o fs) \o ca) \o fc
    BY <1>6 DEF FlowOf, At, s2n_kex_is_ephemeral
  <2>4. Members(x) = ((({At("server", "cert")} \cup {At("server", "cert_verify")})
                       \cup {At("server", "finished")}) \cup Eca) \cup {At("client", "finished")}
    <3>1. Members(x) = {At("server", "cert"), At("server", "cert_verify"), At("server", "finished")}
                       \cup Eca \cup {At("client", "finished")}
      BY <1>6 DEF Members
    <3> HIDE DEF Eca
    <3> QED BY <3>1
  <2> HIDE DEF sc, sv, fs, ca, fc, Eca
  <2>5. Part(x, sc \o sv, 0, 2, {At("server", "cert")} \cup {At("server", "cert_verify")})
    BY <1>2, Joined
  <2>6. Part(x, (sc \o sv) \o fs, 0, 3,
             ({At("server", "cert")} \cup {At("server", "cert_verify")}) \cup {At("server", "finished")})
    BY <2>1, <2>5, Joined
  <2>7. Part(x, ((sc \o sv) \o fs) \o ca, 0, 6,
             (({At("server", "cert")} \cup {At("server", "cert_verify")})
                \cup {At("server", "finished")}) \cup Eca)
    BY <2>2, <2>6, Joined
  <2>8. Part(x, (((sc \o sv) \o fs) \o ca) \o fc, 0, 7, Members(x))
    BY <2>4, <1>2, <2>7, Joined
  <2> QED BY <2>3, <2>8, Wider
<1>7. ASSUME x.kex # "tls13" PROVE Part(x, FlowOf(x), 0, 8, Members(x))
  <2> DEFINE ca == IF x.auth THEN cc ELSE <<>>
             Eca == IF x.auth THEN {At("client", "cert")} ELSE {}
             va == IF x.auth THEN cv ELSE <<>>
             Eva == IF x.auth THEN Ecv ELSE {}
  <2>1. Part(x, fs, 7, 8, {At("server", "finished")}) BY <1>1, <1>7, OneStep
  <2>2. Part(x, ca, 3, 4, Eca)
    <3>1. Part(x, <<>>, 3, 4, {}) BY NoStep
    <3> QED BY <3>1, <1>2
  <2>3. Part(x, va, 5, 6, Eva)
    <3>1. Part(x, <<>>, 5, 6, {}) BY NoStep
    <3> QED BY <3>1, <1>5
  <2>4. FlowOf(x) = ((((((sc \o st) \o sk) \o ca) \o ck) \o va) \o fc) \o fs
    BY <1>7 DEF FlowOf, At, s2n_kex_is_ephemeral
  <2>5. Members(x) = (((((({At("server", "cert")} \cup Est) \cup Esk) \cup Eca)
                         \cup {At("client", "client_key")}) \cup Eva)
                      \cup {At("client", "finished")}) \cup {At("server", "finished")}
    BY <1>7 DEF Members
  <2> HIDE DEF sc, st, sk, ca, ck, va, fc, fs, Est, Esk, Eca, Eva
  <2>6. Part(x, sc \o st, 0, 2, {At("server", "cert")} \cup Est) BY <1>2, <1>3, Joined
  <2>7. Part(x, (sc \o st) \o sk, 0, 3, ({At("server", "cert")} \cup Est) \cup Esk)
    BY <2>6, <1>4, Joined
  <2>8. Part(x, ((sc \o st) \o sk) \o ca, 0, 4, (({At("server", "cert")} \cup Est) \cup Esk) \cup Eca)
    BY <2>7, <2>2, Joined
  <2>9. Part(x, (((sc \o st) \o sk) \o ca) \o ck, 0, 5,
             ((({At("server", "cert")} \cup Est) \cup Esk) \cup Eca) \cup {At("client", "client_key")})
    BY <2>8, <1>2, Joined
  <2>10. Part(x, ((((sc \o st) \o sk) \o ca) \o ck) \o va, 0, 6,
              (((({At("server", "cert")} \cup Est) \cup Esk) \cup Eca)
                 \cup {At("client", "client_key")}) \cup Eva)
    BY <2>9, <2>3, Joined
  <2>11. Part(x, (((((sc \o st) \o sk) \o ca) \o ck) \o va) \o fc, 0, 7,
              ((((({At("server", "cert")} \cup Est) \cup Esk) \cup Eca)
                 \cup {At("client", "client_key")}) \cup Eva) \cup {At("client", "finished")})
    BY <2>10, <1>2, Joined
  <2>12. Part(x, ((((((sc \o st) \o sk) \o ca) \o ck) \o va) \o fc) \o fs, 0, 8, Members(x))
    BY <2>5, <2>11, <2>1, Joined
  <2> QED BY <2>4, <2>12
<1> QED BY <1>6, <1>7

----------------------------------------------------------------------------
(* The inductive invariant, part by part.  Each part is stated of a plan   *)
(* x, a run r, the connections f, the wires w and the operations o.        *)

MessageFields == {"type", "chain", "staple", "params", "sig", "encrypted", "over"}
ConnectionFields ==
    {"step", "err", "async_state", "io", "written", "v", "peer_key", "client_cert_chain", "shares",
     "premaster", "rsa_failed", "master", "transcript", "seen", "took", "lookups", "judged"}
OperationFields ==
    {"type", "conn", "mode", "complete", "applied", "freed", "live", "digest", "signature", "encrypted",
     "decrypted", "rsa_failed"}

Shapes(f, w) ==
    /\ DOMAIN f = Peers /\ DOMAIN w = Peers
    /\ \A p \in Peers : DOMAIN f[p] = ConnectionFields

(* The transcripts agree, but for what is altered on the way, as far as    *)
(* both have got, and the wires hold the rest.                             *)
Hellos(r) == [NoMessage EXCEPT !.type = "hellos", !.over = <<r>>]
Matches(F, tamper, r, p, a, s, v, b, t) ==
    /\ a \in 1..(Len(F) + 1)
    /\ Row(s) /\ Len(s) = a /\ s[1] = Hellos(r)
    /\ Row(v) /\ Len(v) = IF b > a THEN b - a ELSE 0
    /\ \A k \in 1..(a - 1) :
         /\ F[k].by = p => DOMAIN s[k + 1] = MessageFields /\ s[k + 1].type = F[k].type
         /\ F[k].by # p => k < b /\ s[k + 1] = Altered(tamper, t[k + 1])
    /\ \A i \in 1..Len(v) : F[a + i - 1].by # p /\ v[i] = Altered(tamper, t[a + i])
Matched(x, r, f, w, p) ==
    Matches(FlowOf(x), x.tamper, r, p, f[p].step, f[p].transcript, w[p],
            f[Other(p)].step, f[Other(p)].transcript)
Aligned(x, r, f, w) == \A p \in Peers : Matched(x, r, f, w, p)

Own(x, p) == CertInfo[x.chain[p][1]].key
Strict(x, p) ==
    IF x.keys[p] = "now" THEN x.verify_after_sign ELSE x.mode = "strict" \/ x.verify_after_sign

(* What the server signs in a ServerKeyExchange, in this use or an earlier *)
(* one.                                                                    *)
Parameters(x, r) == s2n_kex_server_key_send(x.kex, r, x.kems)
Digested(x, p, digest) ==
    p = "server" /\ x.kex # "tls13" =>
      \E r \in 0..1 : digest = ServerKeyDigest(r, r, Parameters(x, r))
Signature(x, p, sig) ==
    /\ sig.key \in {Own(x, p), "wrong_key", "garbage"}
    /\ x.uses[p] = "wrong" => sig.key \in {"wrong_key", "garbage"}
    /\ sig.key # "garbage" => Digested(x, p, sig.digest)
Checked(x, p, sig) == Strict(x, p) => sig.key = Own(x, p)

Sealed(x, r) ==
    [key |-> Own(x, "server"),
     plain |-> [id |-> <<"client", r>>, version |-> ClientHelloVersion, size |-> S2N_TLS_SECRET_LEN]]
Cipher(x, e) == e.key \in {Own(x, "server"), "garbled"} /\ e.plain.size = S2N_TLS_SECRET_LEN

(* What p sent is what its handlers write.                                 *)
Wrote(x, r, p, type, m) ==
    /\ type = "cert" =>
         /\ m.chain = x.chain[p]
         /\ m.staple = IF x.kex = "tls13" /\ p = "server" THEN x.staple ELSE NoStaple
    /\ type = "status" => m.staple = x.staple
    /\ type \in {"server_key", "cert_verify"} => Signature(x, p, m.sig) /\ Checked(x, p, m.sig)
    /\ type = "server_key" => m.params = Parameters(x, r)
    /\ type = "client_key" /\ x.kex = "rsa" => m.encrypted = Sealed(x, r)
Written(x, r, f) ==
    \A p \in Peers : \A k \in 1..(f[p].step - 1) :
      FlowOf(x)[k].by = p => Wrote(x, r, p, FlowOf(x)[k].type, f[p].transcript[k + 1])

(* The steps at which p needs its private key: one in every flow.          *)
Operates(x, p, s) ==
    \/ s = At(p, "cert_verify")
    \/ p = "server" /\ s = At("server", "server_key")
    \/ p = "server" /\ x.kex = "rsa" /\ s = At("client", "client_key")

(* An operation waits for the handler that needs it, and its result is     *)
(* taken once.                                                             *)
Waits(x, r, p, c) ==
    /\ c.async_state \in {"NOT_INVOKED", "INVOKED", "COMPLETE"}
    /\ c.written \in 0..1
    /\ c.async_state = "INVOKED" =>
         c.written = 0 /\ c.step <= Len(FlowOf(x)) /\ Operates(x, p, FlowOf(x)[c.step])
    /\ c.async_state = "COMPLETE" => c.written = 1
    /\ c.written = 1 =>
         \A k \in c.step..Len(FlowOf(x)) :
           Operates(x, p, FlowOf(x)[k]) => k = c.step /\ c.async_state = "COMPLETE"
    /\ /\ c.async_state \in {"INVOKED", "COMPLETE"}
       /\ c.step <= Len(FlowOf(x)) /\ Operates(x, p, FlowOf(x)[c.step])
       /\ FlowOf(x)[c.step].by = p
       => /\ DOMAIN c.io = MessageFields /\ c.io.type = FlowOf(x)[c.step].type
          /\ c.io.type = "server_key" => c.io.params = Parameters(x, r)
          /\ c.async_state = "COMPLETE" => Signature(x, p, c.io.sig) /\ Checked(x, p, c.io.sig)
Waiting(x, r, f) == \A p \in Peers : Waits(x, r, p, f[p])

(* What the application holds.                                             *)
Operation(x, op) ==
    /\ DOMAIN op = OperationFields
    /\ op.conn \in Peers /\ x.keys[op.conn] # "now"
    /\ op.type = IF op.conn = "server" /\ x.kex = "rsa" THEN "decrypt" ELSE "sign"
    /\ op.type = "sign" =>
         /\ x.mode = "strict" \/ x.verify_after_sign => op.mode = "strict"
         /\ op.live /\ ~op.complete => Digested(x, op.conn, op.digest)
         /\ op.live /\ op.complete /\ ~op.applied =>
              op.digest = ConsumedDigest \/ Digested(x, op.conn, op.digest)
         /\ op.live /\ op.complete /\ ~op.applied => Signature(x, op.conn, op.signature)
    /\ op.type = "decrypt" =>
         /\ op.live /\ ~op.complete => op.decrypted.size = S2N_TLS_SECRET_LEN
         /\ op.live /\ (~op.complete \/ ~op.applied) => Cipher(x, op.encrypted)
         /\ op.live /\ op.complete /\ ~op.applied /\ x.uses["server"] = "wrong" =>
              op.rsa_failed \/ op.decrypted.size # S2N_TLS_SECRET_LEN
Held(x, o) == Row(o) /\ \A i \in DOMAIN o : Operation(x, o[i])

(* RSA: a decryption that failed is on record until the Finished message,  *)
(* and nothing else is an error where the secret is received.              *)
Silent(x, c) ==
    x.kex = "rsa" =>
      /\ \A k \in 1..(c.step - 1) : FlowOf(x)[k].type = "client_key" => c.written = 1
      /\ x.uses["server"] = "wrong" /\ c.written = 1 => c.rsa_failed
      /\ c.rsa_failed => \A k \in 1..(c.step - 1) : FlowOf(x)[k] # At("client", "finished")
      /\ c.err \notin {"OK", "CLOSED", "CLOSED_BY_APP"} =>
           c.step <= Len(FlowOf(x)) /\ FlowOf(x)[c.step].type # "client_key"

(* Signatures were verified under the key of the certificate.              *)
Verified(x, f) ==
    \A p \in Peers :
      /\ f[p].peer_key # NoKey => f[p].peer_key = Own(x, Other(p))
      /\ \A k \in 1..(f[p].step - 1) :
           FlowOf(x)[k].by = Other(p) /\ FlowOf(x)[k].type \in {"server_key", "cert_verify"} =>
             \/ f[p].transcript[k + 1].sig.key = NoKey
             \/ f[p].transcript[k + 1].sig.key = Own(x, Other(p))
Agreed(x, r, f) == f["client"].shares # <<>> => f["client"].shares = Parameters(x, r)

(* A Finished message vouches for the secret and for all that was said     *)
(* before it.                                                              *)
Upto(s, k) == [i \in 1..k |-> s[i]]
Finishes(x, f) ==
    \A p \in Peers : \A k \in 1..(f[p].step - 1) :
      /\ FlowOf(x)[k] = At(p, "finished") =>
           f[p].transcript[k + 1].over = <<f[p].master, Upto(f[p].transcript, k)>>
      /\ FlowOf(x)[k] = At(Other(p), "finished") =>
           /\ f[p].master = f[Other(p)].master
           /\ \A i \in 1..k : f[p].transcript[i] = f[Other(p)].transcript[i]

----------------------------------------------------------------------------
(* The validator in the connection.                                        *)

(* The staple that comes with the certificate, and the end of the calls.   *)
StapleFor(x, p) == IF x.kex = "tls13" /\ p = "client" THEN x.staple ELSE NoStaple
End(c, t) == IF c.took = -1 THEN t ELSE c.took

Judges(x, p, c, t) ==
    /\ Settings(c.v, x.conf[p])
    /\ Progress(c.v, x.conf[p], x.chain[Other(p)], c.seen, End(c, t))
    /\ Called(c.v, x.conf[p], StapleFor(x, p))
    /\ c.seen \in -1..t /\ c.took \in -1..t
    /\ c.seen = -1 => /\ c.v.state = "INIT" /\ c.v.lookups = <<>> /\ ~c.v.cb_invoked
                      /\ c.took = -1 /\ c.lookups = 0 /\ c.judged = 0
    /\ c.lookups \in 0..1 /\ c.judged \in 0..1
    /\ c.v.state = "INIT" => c.lookups = 0
    /\ ~c.v.cb_invoked => c.judged = 0
    /\ c.v.cb_invoked \in BOOLEAN /\ c.v.finished \in BOOLEAN
    /\ c.took # -1 => c.seen <= c.took /\ Accepted(c.v, x.conf[p], StapleFor(x, p))
    /\ \A k \in c.step..Len(FlowOf(x)) : FlowOf(x)[k] = At(Other(p), "cert") => c.took = -1
    /\ p = "client" => Stapled(c.v, x.staple, c.seen, t)
    /\ p = "server" =>
         /\ c.client_cert_chain \in {<<>>, x.chain["client"]}
         /\ c.took # -1 => c.client_cert_chain = x.chain["client"]
         /\ c.v.state # "OCSP_VALIDATED"
    /\ \A k \in 1..(c.step - 1) :
         /\ FlowOf(x)[k] = At("server", "cert") /\ p = "client" => c.took # -1
         /\ FlowOf(x)[k] = At("server", "status") /\ p = "client" /\ x.staple.type = "ocsp" =>
              c.v.state = "OCSP_VALIDATED"
Judged(x, f, t) == \A p \in Peers : Judges(x, p, f[p], t)

----------------------------------------------------------------------------
(* The flow of a plan.                                                     *)

LEMMA FlowFacts ==
    ASSUME NEW x
    PROVE  /\ Row(FlowOf(x)) /\ Len(FlowOf(x)) \in Nat /\ DOMAIN FlowOf(x) = 1..Len(FlowOf(x))
           /\ \A k \in 1..Len(FlowOf(x)) : FlowOf(x)[k] \in Members(x) /\ FlowOf(x)[k] \in Steps
           /\ \A e \in Members(x) : \E k \in 1..Len(FlowOf(x)) : FlowOf(x)[k] = e
           /\ \A i, j \in 1..Len(FlowOf(x)) :
                i < j => Place(x, FlowOf(x)[i]) < Place(x, FlowOf(x)[j])
<1>1. Part(x, FlowOf(x), 0, 8, Members(x)) BY FlowInOrder
<1>2. Row(FlowOf(x)) BY <1>1 DEF Part
<1>3. Len(FlowOf(x)) \in Nat /\ DOMAIN FlowOf(x) = 1..Len(FlowOf(x)) BY <1>2, RowFacts
<1> QED BY <1>1, <1>2, <1>3 DEF Part

LEMMA Once ==
    ASSUME NEW x, NEW i \in 1..Len(FlowOf(x)), NEW j \in 1..Len(FlowOf(x)), FlowOf(x)[i] = FlowOf(x)[j]
    PROVE  i = j
<1>1. Place(x, FlowOf(x)[i]) \in Nat BY FlowFacts, Places
<1> QED BY <1>1, FlowFacts

LEMMA Earlier ==
    ASSUME NEW x, NEW i \in 1..Len(FlowOf(x)), NEW j \in 1..Len(FlowOf(x)),
           Place(x, FlowOf(x)[i]) < Place(x, FlowOf(x)[j])
    PROVE  i < j
<1>1. Place(x, FlowOf(x)[i]) \in Nat /\ Place(x, FlowOf(x)[j]) \in Nat BY FlowFacts, Places
<1> QED BY <1>1, FlowFacts

LEMMA AtFacts ==
    ASSUME NEW b, NEW t, NEW c, NEW s
    PROVE  /\ At(b, t).by = b /\ At(b, t).type = t
           /\ At(b, t) = At(c, s) <=> b = c /\ t = s
           /\ At(b, t) = [by |-> b, type |-> t]
<1>1. At(b, t).by = b /\ At(b, t).type = t /\ At(c, s).by = c /\ At(c, s).type = s BY DEF At
<1> QED BY <1>1 DEF At

(* Which messages a flow has.                                              *)
LEMMA MemberFacts ==
    ASSUME NEW x, NEW s \in Steps, s \in Members(x)
    PROVE  /\ s = At(s.by, s.type)
           /\ x.kex = "tls13" => s.type \notin {"status", "server_key", "client_key"}
           /\ x.kex # "tls13" => s # At("server", "cert_verify")
           /\ x.kex = "rsa" => s.type # "server_key"
           /\ s.type \in {"status", "server_key"} => s.by = "server"
           /\ s.type = "client_key" => s.by = "client"
           /\ s.by = "client" /\ s.type \in {"cert", "cert_verify"} => x.auth
           /\ s = At("client", "cert_verify") => x.chain["client"] # <<>>
<1>1. s = At(s.by, s.type) BY DEF Steps, At
<1>2. /\ At("server", "cert").by = "server" /\ At("server", "cert").type = "cert"
      /\ At("server", "cert_verify").by = "server" /\ At("server", "cert_verify").type = "cert_verify"
      /\ At("server", "finished").by = "server" /\ At("server", "finished").type = "finished"
      /\ At("server", "status").by = "server" /\ At("server", "status").type = "status"
      /\ At("server", "server_key").by = "server" /\ At("server", "server_key").type = "server_key"
      /\ At("client", "cert").by = "client" /\ At("client", "cert").type = "cert"
      /\ At("client", "cert_verify").by = "client" /\ At("client", "cert_verify").type = "cert_verify"
      /\ At("client", "finished").by = "client" /\ At("client", "finished").type = "finished"
      /\ At("client", "client_key").by = "client" /\ At("client", "client_key").type = "client_key"
  BY AtFacts
<1>3. ASSUME x.kex = "tls13"
      PROVE  \/ s \in {At("server", "cert"), At("server", "cert_verify"), At("server", "finished"),
                       At("client", "finished")}
             \/ x.auth /\ s = At("client", "cert")
             \/ x.auth /\ x.chain["client"] # <<>> /\ s = At("client", "cert_verify")
  BY <1>3 DEF Members
<1>4. ASSUME x.kex # "tls13"
      PROVE  \/ s \in {At("server", "cert"), At("client", "client_key"), At("client", "finished"),
                       At("server", "finished"), At("server", "status")}
             \/ x.kex # "rsa" /\ s = At("server", "server_key")
             \/ x.auth /\ s = At("client", "cert")
             \/ x.auth /\ x.chain["client"] # <<>> /\ s = At("client", "cert_verify")
  BY <1>4 DEF Members
<1>5. CASE x.kex = "tls13" BY <1>1, <1>2, <1>3, <1>5
<1>6. CASE x.kex # "tls13" BY <1>1, <1>2, <1>4, <1>6
<1> QED BY <1>5, <1>6

(* The messages that every flow has.                                       *)
LEMMA AlwaysSent ==
    ASSUME NEW x
    PROVE  /\ \A p \in Peers : At(p, "finished") \in Members(x)
           /\ At("server", "cert") \in Members(x)
           /\ x.kex = "tls13" => At("server", "cert_verify") \in Members(x)
           /\ x.kex # "tls13" => At("client", "client_key") \in Members(x)
           /\ x.kex \notin {"tls13", "rsa"} => At("server", "server_key") \in Members(x)
           /\ x.auth /\ x.chain["client"] # <<>> => At("client", "cert_verify") \in Members(x)
           /\ x.kex # "tls13" /\ x.staple.type # "none" => At("server", "status") \in Members(x)
<1>1. /\ At("client", "finished") \in Members(x)
      /\ At("server", "finished") \in Members(x)
      /\ At("server", "cert") \in Members(x)
  BY DEF Members
<1>2. x.kex = "tls13" => At("server", "cert_verify") \in Members(x) BY DEF Members
<1>3. x.kex # "tls13" => At("client", "client_key") \in Members(x) BY DEF Members
<1>4. x.kex \notin {"tls13", "rsa"} => At("server", "server_key") \in Members(x) BY DEF Members
<1>5. x.auth /\ x.chain["client"] # <<>> => At("client", "cert_verify") \in Members(x) BY DEF Members
<1>6. x.kex # "tls13" /\ x.staple.type # "none" => At("server", "status") \in Members(x)
  BY DEF Members
<1> QED BY <1>1, <1>2, <1>3, <1>4, <1>5, <1>6 DEF Peers

(* A peer needs its private key once.                                      *)
LEMMA OneOperation ==
    ASSUME NEW x, NEW p \in Peers, NEW i \in 1..Len(FlowOf(x)), NEW j \in 1..Len(FlowOf(x)),
           Operates(x, p, FlowOf(x)[i]), Operates(x, p, FlowOf(x)[j])
    PROVE  i = j
<1>1. ASSUME NEW k \in 1..Len(FlowOf(x)), Operates(x, p, FlowOf(x)[k])
      PROVE  FlowOf(x)[k] = IF p = "client" THEN At("client", "cert_verify")
                            ELSE IF x.kex = "tls13" THEN At("server", "cert_verify")
                            ELSE IF x.kex = "rsa" THEN At("client", "client_key")
                            ELSE At("server", "server_key")
  <2> DEFINE s == FlowOf(x)[k]
  <2>1. s \in Members(x) /\ s \in Steps BY FlowFacts
  <2> HIDE DEF s
  <2>2. s.type = "server_key" => x.kex \notin {"tls13", "rsa"} BY <2>1, MemberFacts
  <2>3. s = At("server", "cert_verify") => x.kex = "tls13" BY <2>1, MemberFacts
  <2>4. At("server", "server_key").type = "server_key" /\ "client" # "server" BY AtFacts
  <2>5. Operates(x, p, s) BY <1>1 DEF s
  <2>6. s = IF p = "client" THEN At("client", "cert_verify")
            ELSE IF x.kex = "tls13" THEN At("server", "cert_verify")
            ELSE IF x.kex = "rsa" THEN At("client", "client_key")
            ELSE At("server", "server_key")
    BY <2>2, <2>3, <2>4, <2>5 DEF Operates, Peers
  <2> QED BY <2>6 DEF s
<1>2. FlowOf(x)[i] = FlowOf(x)[j] BY <1>1
<1> QED BY <1>2, Once

----------------------------------------------------------------------------
(* What happens to a message on its way.                                   *)

LEMMA Blank ==
    /\ DOMAIN NoMessage = MessageFields
    /\ NoMessage.type = "none" /\ NoMessage.chain = <<>> /\ NoMessage.staple = NoStaple
    /\ NoMessage.sig = NoSignature /\ NoMessage.params = <<>>
    /\ NoMessage.over = <<>> /\ NoMessage.encrypted = NoCiphertext
<1> QED BY DEF NoMessage, MessageFields

LEMMA TypedFacts ==
    ASSUME NEW t
    PROVE  /\ DOMAIN Typed(t) = MessageFields /\ Typed(t).type = t
           /\ Typed(t).sig = NoSignature /\ Typed(t).params = <<>>
           /\ Typed(t).chain = <<>> /\ Typed(t).staple = NoStaple
<1> QED BY Blank DEF Typed, MessageFields

LEMMA AlteredFacts ==
    ASSUME NEW tamper, NEW m, DOMAIN m = MessageFields
    PROVE  /\ DOMAIN Altered(tamper, m) = MessageFields
           /\ Altered(tamper, m).type = m.type /\ Altered(tamper, m).chain = m.chain
           /\ Altered(tamper, m).staple = m.staple /\ Altered(tamper, m).sig = m.sig
           /\ Altered(tamper, m).over = m.over
           /\ m.type \notin {"server_key", "client_key"} => Altered(tamper, m) = m
<1>1. \/ Altered(tamper, m) = m
      \/ /\ m.type = "server_key"
         /\ \/ Altered(tamper, m) = [m EXCEPT !.params[1].by = "other"]
            \/ Altered(tamper, m) = [m EXCEPT !.params[2].by = "other"]
      \/ /\ m.type = "client_key"
         /\ \/ Altered(tamper, m) = [m EXCEPT !.encrypted.key = "garbled"]
            \/ Altered(tamper, m) = [m EXCEPT !.encrypted.plain.version = 11]
  BY DEF Altered
<1> QED BY <1>1 DEF MessageFields

(* Where the plan has it altered, a message does not arrive as it was      *)
(* sent, and a ciphertext still is one.                                    *)
LEMMA AlteredCipher ==
    ASSUME NEW x \in Plans, NEW r, NEW m, DOMAIN m = MessageFields, m.type = "client_key",
           m.encrypted = Sealed(x, r)
    PROVE  /\ Cipher(x, Altered(x.tamper, m).encrypted)
           /\ x.tamper \in {"ciphertext", "version"} => Altered(x.tamper, m) # m
<1>0. /\ DOMAIN m.encrypted = {"key", "plain"} /\ m.encrypted.key = Own(x, "server")
      /\ DOMAIN m.encrypted.plain = {"id", "version", "size"} /\ m.encrypted.plain.version = 12
      /\ m.encrypted.plain.size = S2N_TLS_SECRET_LEN
  BY DEF Sealed, ClientHelloVersion
<1>1. Own(x, "server") # "garbled" BY PlansAssumption DEF Own, NobodysKeys, Peers
<1>2. CASE Altered(x.tamper, m) = [m EXCEPT !.encrypted.key = "garbled"]
  <2>1. /\ Altered(x.tamper, m).encrypted.key = "garbled"
        /\ Altered(x.tamper, m).encrypted.plain = m.encrypted.plain
    BY <1>2, <1>0 DEF MessageFields
  <2> QED BY <2>1, <1>0, <1>1 DEF Cipher
<1>3. CASE Altered(x.tamper, m) = [m EXCEPT !.encrypted.plain.version = 11]
  <2>1. /\ Altered(x.tamper, m).encrypted.key = m.encrypted.key
        /\ Altered(x.tamper, m).encrypted.plain.version = 11
        /\ Altered(x.tamper, m).encrypted.plain.size = m.encrypted.plain.size
    BY <1>3, <1>0 DEF MessageFields
  <2> QED BY <2>1, <1>0 DEF Cipher
<1>4. CASE Altered(x.tamper, m) = m /\ x.tamper \notin {"ciphertext", "version"}
  BY <1>4, <1>0 DEF Cipher
<1> QED BY <1>2, <1>3, <1>4 DEF Altered

LEMMA AlteredShares ==
    ASSUME NEW x \in Plans, NEW r, NEW m, DOMAIN m = MessageFields, m.type = "server_key",
           m.params = Parameters(x, r), x.tamper \in {"first_share", "second_share"}
    PROVE  Altered(x.tamper, m) # m
<1>1. /\ x.kex \in {"dhe", "ecdhe", "hybrid"}
      /\ x.tamper = "second_share" => x.kex = "hybrid"
  BY PlansAssumption
<1>2. DOMAIN hybrid(x.kex) = IF x.kex = "hybrid" THEN 1..2 ELSE 1..1
  BY <1>1 DEF hybrid
<1>3. \A i \in DOMAIN hybrid(x.kex) :
        DOMAIN m.params[i] = {"kex", "by", "run", "kem"} /\ m.params[i].by = "server"
  BY DEF Parameters, s2n_kex_server_key_send, Pair
<1>4. DOMAIN m.params = DOMAIN hybrid(x.kex) BY DEF Parameters, s2n_kex_server_key_send
<1>5. CASE x.tamper = "first_share"
  <2>1. 1 \in DOMAIN m.params BY <1>2, <1>4
  <2>2. Altered(x.tamper, m) = [m EXCEPT !.params[1].by = "other"] BY <1>5 DEF Altered
  <2>3. Altered(x.tamper, m).params[1].by = "other"
    BY <2>1, <2>2, <1>3, <1>4 DEF MessageFields
  <2> QED BY <2>1, <2>3, <1>3, <1>4
<1>6. CASE x.tamper = "second_share"
  <2>1. 2 \in DOMAIN m.params BY <1>1, <1>2, <1>4, <1>6
  <2>2. Altered(x.tamper, m) = [m EXCEPT !.params[2].by = "other"] BY <1>6 DEF Altered
  <2>3. Altered(x.tamper, m).params[2].by = "other"
    BY <2>1, <2>2, <1>3, <1>4 DEF MessageFields
  <2> QED BY <2>1, <2>3, <1>3, <1>4
<1> QED BY <1>5, <1>6

----------------------------------------------------------------------------
(* How a step moves the connections from f to g and the wires from w to u: *)
(* a peer stays where it is, sends a message, or takes one.                *)

Change(f, g, p) ==
    DOMAIN g = Peers /\ DOMAIN g[p] = ConnectionFields /\ g[Other(p)] = f[Other(p)]
Stay(f, w, g, u, p) ==
    /\ Change(f, g, p) /\ u = w
    /\ g[p].step = f[p].step /\ g[p].transcript = f[p].transcript
Send(x, f, w, g, u, p, m) ==
    /\ Change(f, g, p)
    /\ f[p].step <= Len(FlowOf(x)) /\ FlowOf(x)[f[p].step] = At(p, m.type)
    /\ DOMAIN m = MessageFields
    /\ g[p].step = f[p].step + 1 /\ g[p].transcript = Append(f[p].transcript, m)
    /\ DOMAIN u = Peers /\ u[p] = w[p] /\ u[Other(p)] = Append(w[Other(p)], Altered(x.tamper, m))
Take(x, f, w, g, u, p) ==
    /\ Change(f, g, p)
    /\ f[p].step <= Len(FlowOf(x)) /\ FlowOf(x)[f[p].step].by = Other(p) /\ w[p] # <<>>
    /\ g[p].step = f[p].step + 1 /\ g[p].transcript = Append(f[p].transcript, Head(w[p]))
    /\ DOMAIN u = Peers /\ u[p] = Tail(w[p]) /\ u[Other(p)] = w[Other(p)]

LEMMA Pair2 ==
    ASSUME NEW p \in Peers
    PROVE  /\ Other(p) \in Peers /\ Other(p) # p /\ Other(Other(p)) = p
           /\ \A q \in Peers : q = p \/ q = Other(p)
<1> QED BY DEF Peers, Other

LEMMA ShapesKept ==
    ASSUME NEW f, NEW w, NEW g, NEW u, Shapes(f, w), NEW p \in Peers, Change(f, g, p),
           DOMAIN u = Peers
    PROVE  Shapes(g, u)
<1> QED BY Pair2 DEF Shapes, Change

LEMMA AlignedStay ==
    ASSUME NEW x, NEW r, NEW f, NEW w, NEW g, NEW u, NEW p \in Peers,
           Aligned(x, r, f, w), Stay(f, w, g, u, p)
    PROVE  Aligned(x, r, g, u)
<1>1. \A q \in Peers : Matched(x, r, g, u, q)
  <2> TAKE q \in Peers
  <2>1. Matched(x, r, f, w, q) BY DEF Aligned
  <2>2. \A s \in Peers : g[s].step = f[s].step /\ g[s].transcript = f[s].transcript
    BY Pair2 DEF Stay, Change
  <2> QED BY <2>1, <2>2, Pair2 DEF Matched, Stay
<1> QED BY <1>1 DEF Aligned

LEMMA MatchedTypes ==
    ASSUME NEW F, Len(F) \in Nat, NEW tamper, NEW r, NEW p, NEW a, NEW s, NEW v, NEW b, NEW t,
           Matches(F, tamper, r, p, a, s, v, b, t)
    PROVE  /\ a \in Nat /\ a >= 1 /\ a <= Len(F) + 1 /\ Row(s) /\ Len(s) = a
           /\ Row(v) /\ Len(v) \in Nat
<1>1. Row(v) BY DEF Matches
<1>2. Len(v) \in Nat BY <1>1, RowFacts
<1>3. a \in 1..(Len(F) + 1) /\ Row(s) /\ Len(s) = a BY DEF Matches
<1> QED BY <1>1, <1>2, <1>3

(* Whose turn it is to write is not behind.                                *)
LEMMA WriterAhead ==
    ASSUME NEW F, Len(F) \in Nat, NEW tamper, NEW r, NEW p, NEW q, p # q,
           NEW a, NEW s, NEW v, NEW b, NEW t, NEW v2,
           Matches(F, tamper, r, p, a, s, v, b, t), Matches(F, tamper, r, q, b, t, v2, a, s),
           F[a].by = p
    PROVE  b <= a
<1>1. a \in Nat /\ a >= 1 /\ b \in Nat BY MatchedTypes
<1>2. SUFFICES ASSUME b > a PROVE FALSE BY <1>1
<1>3. a \in 1..(b - 1) BY <1>1, <1>2
<1>4. a < a BY <1>3 DEF Matches
<1> QED BY <1>1, <1>4

LEMMA MatchedSend ==
    ASSUME NEW F, Len(F) \in Nat, NEW tamper, NEW r, NEW p, NEW q, p # q,
           NEW a, NEW s, NEW v, NEW b, NEW t, NEW v2,
           Matches(F, tamper, r, p, a, s, v, b, t), Matches(F, tamper, r, q, b, t, v2, a, s),
           a <= Len(F), NEW m, F[a].by = p, DOMAIN m = MessageFields, m.type = F[a].type,
           NEW s3, s3 = Append(s, m), NEW v3, v3 = Append(v2, Altered(tamper, m))
    PROVE  Matches(F, tamper, r, p, a + 1, s3, v, b, t) /\ Matches(F, tamper, r, q, b, t, v3, a + 1, s3)
<1>1. /\ a \in Nat /\ a >= 1 /\ Row(s) /\ Len(s) = a /\ b \in Nat /\ b >= 1 /\ Row(v2) /\ Len(v2) \in Nat
      /\ Len(v) \in Nat /\ Row(v)
  BY MatchedTypes
<1>2. b <= a BY WriterAhead
<1>3. /\ Row(s3) /\ Len(s3) = a + 1 /\ s3[a + 1] = m
      /\ \A i \in 1..a : s3[i] = s[i]
  BY <1>1, RowAppend
<1>4. /\ Row(v3) /\ Len(v3) = Len(v2) + 1 /\ v3[Len(v2) + 1] = Altered(tamper, m)
      /\ \A i \in 1..Len(v2) : v3[i] = v2[i]
  BY <1>1, RowAppend
<1>5. Len(v2) = a - b /\ Len(v) = 0 BY <1>1, <1>2 DEF Matches
<1>6. Matches(F, tamper, r, p, a + 1, s3, v, b, t)
  <2>1. a + 1 \in 1..(Len(F) + 1) /\ ~(b > a + 1) BY <1>1, <1>2
  <2>2. s3[1] = Hellos(r) BY <1>1, <1>3 DEF Matches
  <2>3. ASSUME NEW k \in 1..(a + 1 - 1)
        PROVE  /\ F[k].by = p => DOMAIN s3[k + 1] = MessageFields /\ s3[k + 1].type = F[k].type
               /\ F[k].by # p => k < b /\ s3[k + 1] = Altered(tamper, t[k + 1])
    <3>1. CASE k = a BY <3>1, <1>3
    <3>2. CASE k # a
      <4>1. k \in 1..(a - 1) /\ k + 1 \in 1..a BY <3>2, <1>1
      <4>2. s3[k + 1] = s[k + 1] BY <4>1, <1>3
      <4> QED BY <4>1, <4>2 DEF Matches
    <3> QED BY <3>1, <3>2
  <2>4. \A i \in 1..Len(v) : F[a + 1 + i - 1].by # p /\ v[i] = Altered(tamper, t[a + 1 + i])
    BY <1>5
  <2>5. Len(v) = IF b > a + 1 THEN b - (a + 1) ELSE 0 BY <1>5, <2>1
  <2> QED BY ONLY <1>1, <1>3, <2>1, <2>2, <2>3, <2>4, <2>5 DEF Matches
<1>7. Matches(F, tamper, r, q, b, t, v3, a + 1, s3)
  <2>1. Len(v3) = IF a + 1 > b THEN (a + 1) - b ELSE 0 BY <1>1, <1>2, <1>4, <1>5
  <2>2. ASSUME NEW k \in 1..(b - 1)
        PROVE  /\ F[k].by = q => DOMAIN t[k + 1] = MessageFields /\ t[k + 1].type = F[k].type
               /\ F[k].by # q => k < a + 1 /\ t[k + 1] = Altered(tamper, s3[k + 1])
    <3>1. k + 1 \in 1..a /\ k < a + 1 BY <1>1, <1>2
    <3>2. s3[k + 1] = s[k + 1] BY <3>1, <1>3
    <3> QED BY <3>1, <3>2 DEF Matches
  <2>3. ASSUME NEW i \in 1..Len(v3)
        PROVE  F[b + i - 1].by # q /\ v3[i] = Altered(tamper, s3[b + i])
    <3>1. CASE i = Len(v2) + 1
      <4>1. b + i - 1 = a /\ b + i = a + 1 BY <3>1, <1>1, <1>5
      <4> QED BY <4>1, <3>1, <1>3, <1>4
    <3>2. CASE i # Len(v2) + 1
      <4>1. i \in 1..Len(v2) /\ i \in 1..(a - b) BY <3>2, <1>1, <1>4, <1>5
      <4>2. b + i \in 1..a BY <4>1, <1>1, <1>2
      <4>3. s3[b + i] = s[b + i] /\ v3[i] = v2[i] BY <4>1, <4>2, <1>3, <1>4
      <4> QED BY <4>1, <4>3 DEF Matches
    <3> QED BY <3>1, <3>2
  <2>4. b \in 1..(Len(F) + 1) /\ Row(t) /\ Len(t) = b /\ t[1] = Hellos(r) BY DEF Matches
  <2>5. Row(v3) BY <1>4
  <2> QED BY <2>1, <2>2, <2>3, <2>4, <2>5 DEF Matches
<1> QED BY <1>6, <1>7

(* The message that a reader finds is the one that was sent at its step.   *)
LEMMA MatchedHead ==
    ASSUME NEW F, Len(F) \in Nat, NEW tamper, NEW r, NEW p, NEW q, p # q,
           NEW a, NEW s, NEW v, NEW b, NEW t, NEW v2,
           Matches(F, tamper, r, p, a, s, v, b, t), Matches(F, tamper, r, q, b, t, v2, a, s),
           F[a].by = q, v # <<>>
    PROVE  /\ a < b /\ a \in 1..(b - 1)
           /\ v[1] = Altered(tamper, t[a + 1]) /\ Head(v) = v[1]
           /\ DOMAIN t[a + 1] = MessageFields /\ t[a + 1].type = F[a].type
<1>1. a \in Nat /\ a >= 1 /\ b \in Nat /\ Row(v) /\ Len(v) \in Nat BY MatchedTypes
<1>2. Len(v) > 0 /\ Head(v) = v[1] BY <1>1, RowTail
<1>3. b > a BY <1>1, <1>2 DEF Matches
<1>4. a \in 1..(b - 1) BY <1>1, <1>3
<1>5. 1 \in 1..Len(v) BY <1>1, <1>2
<1>6. v[1] = Altered(tamper, t[a + 1]) BY <1>5 DEF Matches
<1>7. DOMAIN t[a + 1] = MessageFields /\ t[a + 1].type = F[a].type BY <1>4 DEF Matches
<1> QED BY <1>2, <1>3, <1>4, <1>6, <1>7

Dequeued(s, v, s3, v3) ==
    /\ s3 = Append(s, v[1])
    /\ Row(v3) /\ Len(v3) = Len(v) - 1 /\ \A i \in 1..(Len(v) - 1) : v3[i] = v[i + 1]

LEMMA MatchedTake ==
    ASSUME NEW F, Len(F) \in Nat, NEW tamper, NEW r, NEW p, NEW q, p # q,
           NEW a, NEW s, NEW v, NEW b, NEW t, NEW v2,
           Matches(F, tamper, r, p, a, s, v, b, t), Matches(F, tamper, r, q, b, t, v2, a, s),
           a <= Len(F), F[a].by = q, v # <<>>,
           NEW s3, NEW v3, Dequeued(s, v, s3, v3)
    PROVE  Matches(F, tamper, r, p, a + 1, s3, v3, b, t) /\ Matches(F, tamper, r, q, b, t, v2, a + 1, s3)
<1>1. /\ a \in Nat /\ a >= 1 /\ Row(s) /\ Len(s) = a /\ b \in Nat /\ b >= 1 /\ Row(v2) /\ Len(v2) \in Nat
      /\ Len(v) \in Nat /\ Row(v)
  BY MatchedTypes
<1>2. a < b /\ v[1] = Altered(tamper, t[a + 1]) /\ Head(v) = v[1] BY MatchedHead
<1>3. /\ Row(s3) /\ Len(s3) = a + 1 /\ s3[a + 1] = Altered(tamper, t[a + 1])
      /\ \A i \in 1..a : s3[i] = s[i]
  BY <1>1, <1>2, RowAppend DEF Dequeued
<1>4. /\ Row(v3) /\ Len(v3) = Len(v) - 1
      /\ \A i \in 1..(Len(v) - 1) : v3[i] = v[i + 1]
  BY DEF Dequeued
<1>5. Len(v) = b - a /\ Len(v2) = 0 BY <1>1, <1>2 DEF Matches
<1>6. Matches(F, tamper, r, p, a + 1, s3, v3, b, t)
  <2>1. a + 1 \in 1..(Len(F) + 1) BY <1>1
  <2>2. s3[1] = Hellos(r) BY <1>1, <1>3 DEF Matches
  <2>3. ASSUME NEW k \in 1..(a + 1 - 1)
        PROVE  /\ F[k].by = p => DOMAIN s3[k + 1] = MessageFields /\ s3[k + 1].type = F[k].type
               /\ F[k].by # p => k < b /\ s3[k + 1] = Altered(tamper, t[k + 1])
    <3>1. CASE k = a BY <3>1, <1>2, <1>3
    <3>2. CASE k # a
      <4>1. k \in 1..(a - 1) /\ k + 1 \in 1..a BY <3>2, <1>1
      <4>2. s3[k + 1] = s[k + 1] BY <4>1, <1>3
      <4> QED BY <4>1, <4>2 DEF Matches
    <3> QED BY <3>1, <3>2
  <2>4. ASSUME NEW i \in 1..Len(v3)
        PROVE  F[a + 1 + i - 1].by # p /\ v3[i] = Altered(tamper, t[a + 1 + i])
    <3>0. PICK n \in Nat : n = Len(v) BY <1>1
    <3>1. /\ i + 1 \in 1..n /\ i \in 1..(n - 1)
          /\ a + 1 + i - 1 = a + (i + 1) - 1 /\ a + 1 + i = a + (i + 1)
      BY <1>1, <1>4, <3>0
    <3>2. F[a + (i + 1) - 1].by # p /\ v[i + 1] = Altered(tamper, t[a + (i + 1)])
      BY <3>0, <3>1 DEF Matches
    <3> QED BY <3>0, <3>1, <3>2, <1>4
  <2>5. Len(v3) = IF b > a + 1 THEN b - (a + 1) ELSE 0 BY <1>1, <1>2, <1>4, <1>5
  <2> QED BY <1>3, <1>4, <2>1, <2>2, <2>3, <2>4, <2>5 DEF Matches
<1>7. Matches(F, tamper, r, q, b, t, v2, a + 1, s3)
  <2>1. Len(v2) = IF a + 1 > b THEN (a + 1) - b ELSE 0 BY <1>1, <1>2, <1>5
  <2>2. ASSUME NEW k \in 1..(b - 1)
        PROVE  /\ F[k].by = q => DOMAIN t[k + 1] = MessageFields /\ t[k + 1].type = F[k].type
               /\ F[k].by # q => k < a + 1 /\ t[k + 1] = Altered(tamper, s3[k + 1])
    <3>1. F[k].by # q => k < a /\ t[k + 1] = Altered(tamper, s[k + 1]) BY DEF Matches
    <3>2. F[k].by # q => k + 1 \in 1..a /\ k < a + 1 BY <3>1, <1>1
    <3>3. F[k].by # q => s3[k + 1] = s[k + 1] BY <3>2, <1>3
    <3> QED BY <3>1, <3>2, <3>3 DEF Matches
  <2>3. \A i \in 1..Len(v2) : F[b + i - 1].by # q /\ v2[i] = Altered(tamper, s3[b + i]) BY <1>5
  <2>4. b \in 1..(Len(F) + 1) /\ Row(t) /\ Len(t) = b /\ t[1] = Hellos(r) BY DEF Matches
  <2> QED BY <1>1, <2>1, <2>2, <2>3, <2>4 DEF Matches
<1> QED BY <1>6, <1>7

LEMMA AlignedTypes ==
    ASSUME NEW x, NEW r, NEW f, NEW w, Aligned(x, r, f, w), NEW p \in Peers
    PROVE  /\ f[p].step \in Nat /\ f[p].step >= 1 /\ f[p].step <= Len(FlowOf(x)) + 1
           /\ Row(f[p].transcript) /\ Len(f[p].transcript) = f[p].step
           /\ Row(w[p]) /\ Len(w[p]) \in Nat /\ Len(FlowOf(x)) \in Nat
<1>1. Matched(x, r, f, w, p) BY DEF Aligned
<1>2. Len(FlowOf(x)) \in Nat BY FlowFacts
<1> QED BY <1>1, <1>2, MatchedTypes DEF Matched

LEMMA AlignedSend ==
    ASSUME NEW x, NEW r, NEW f, NEW w, NEW g, NEW u, NEW p \in Peers, NEW m,
           Aligned(x, r, f, w), Send(x, f, w, g, u, p, m)
    PROVE  Aligned(x, r, g, u)
<1>0. PICK q : q = Other(p) OBVIOUS
<1>1. q \in Peers /\ q # p /\ Other(q) = p /\ \A s \in Peers : s = p \/ s = q BY <1>0, Pair2
<1>2. PICK F, a, s, v, b, t, v2 :
        /\ F = FlowOf(x) /\ a = f[p].step /\ s = f[p].transcript /\ v = w[p]
        /\ b = f[q].step /\ t = f[q].transcript /\ v2 = w[q]
  OBVIOUS
<1>3. PICK s3, v3 : s3 = Append(s, m) /\ v3 = Append(v2, Altered(x.tamper, m)) OBVIOUS
<1>4. Matches(F, x.tamper, r, p, a, s, v, b, t) /\ Matches(F, x.tamper, r, q, b, t, v2, a, s)
  BY <1>0, <1>1, <1>2 DEF Aligned, Matched
<1>5. /\ a <= Len(F) /\ F[a] = At(p, m.type) /\ DOMAIN m = MessageFields
      /\ g[q] = f[q] /\ g[p].step = a + 1 /\ g[p].transcript = s3 /\ u[p] = v /\ u[q] = v3
  BY <1>0, <1>2, <1>3 DEF Send, Change
<1>6. F[a].by = p /\ F[a].type = m.type BY <1>5, AtFacts
<1>7. Len(F) \in Nat BY <1>2, FlowFacts
<1>8. Matches(F, x.tamper, r, p, a + 1, s3, v, b, t) /\ Matches(F, x.tamper, r, q, b, t, v3, a + 1, s3)
  BY ONLY <1>1, <1>3, <1>4, <1>5, <1>6, <1>7, MatchedSend
<1>9. Matched(x, r, g, u, p) BY <1>0, <1>2, <1>5, <1>8 DEF Matched
<1>10. Matched(x, r, g, u, q) BY <1>1, <1>2, <1>5, <1>8 DEF Matched
<1> QED BY <1>1, <1>9, <1>10 DEF Aligned

LEMMA AlignedTake ==
    ASSUME NEW x, NEW r, NEW f, NEW w, NEW g, NEW u, NEW p \in Peers,
           Aligned(x, r, f, w), Take(x, f, w, g, u, p)
    PROVE  Aligned(x, r, g, u)
<1>0. PICK q : q = Other(p) OBVIOUS
<1>1. q \in Peers /\ p # q /\ Other(q) = p /\ \A s \in Peers : s = p \/ s = q BY <1>0, Pair2
<1>2. PICK F, a, s, v, b, t, v2 :
        /\ F = FlowOf(x) /\ a = f[p].step /\ s = f[p].transcript /\ v = w[p]
        /\ b = f[q].step /\ t = f[q].transcript /\ v2 = w[q]
  OBVIOUS
<1>3. PICK s3, v3 : s3 = Append(s, Head(v)) /\ v3 = Tail(v) OBVIOUS
<1>4. Matches(F, x.tamper, r, p, a, s, v, b, t) /\ Matches(F, x.tamper, r, q, b, t, v2, a, s)
  BY <1>0, <1>1, <1>2 DEF Aligned, Matched
<1>5. /\ a <= Len(F) /\ F[a].by = q /\ v # <<>>
      /\ g[q] = f[q] /\ g[p].step = a + 1 /\ g[p].transcript = s3 /\ u[p] = v3 /\ u[q] = v2
  BY <1>0, <1>2, <1>3 DEF Take, Change
<1>6. Dequeued(s, v, s3, v3)
  <2>1. Row(v) BY <1>4 DEF Matches
  <2> QED BY <2>1, <1>3, <1>5, RowTail DEF Dequeued
<1>7. Len(F) \in Nat BY <1>2, FlowFacts
<1>8. Matches(F, x.tamper, r, p, a + 1, s3, v3, b, t) /\ Matches(F, x.tamper, r, q, b, t, v2, a + 1, s3)
  BY ONLY <1>1, <1>4, <1>5, <1>6, <1>7, MatchedTake
<1>9. Matched(x, r, g, u, p) BY <1>0, <1>2, <1>5, <1>8 DEF Matched
<1>10. Matched(x, r, g, u, q) BY <1>1, <1>2, <1>5, <1>8 DEF Matched
<1> QED BY <1>1, <1>9, <1>10 DEF Aligned

LEMMA HeadFacts ==
    ASSUME NEW x, NEW r, NEW f, NEW w, Aligned(x, r, f, w), NEW p \in Peers,
           f[p].step <= Len(FlowOf(x)), FlowOf(x)[f[p].step].by = Other(p), w[p] # <<>>
    PROVE  /\ f[p].step < f[Other(p)].step
           /\ Head(w[p]) = Altered(x.tamper, f[Other(p)].transcript[f[p].step + 1])
           /\ DOMAIN f[Other(p)].transcript[f[p].step + 1] = MessageFields
           /\ f[Other(p)].transcript[f[p].step + 1].type = FlowOf(x)[f[p].step].type
           /\ f[p].step \in 1..(f[Other(p)].step - 1)
<1>0. PICK q : q = Other(p) OBVIOUS
<1>1. q \in Peers /\ p # q /\ Other(q) = p BY <1>0, Pair2
<1>2. PICK F, a, s, v, b, t, v2 :
        /\ F = FlowOf(x) /\ a = f[p].step /\ s = f[p].transcript /\ v = w[p]
        /\ b = f[q].step /\ t = f[q].transcript /\ v2 = w[q]
  OBVIOUS
<1>4. Matches(F, x.tamper, r, p, a, s, v, b, t) /\ Matches(F, x.tamper, r, q, b, t, v2, a, s)
  BY <1>0, <1>1, <1>2 DEF Aligned, Matched
<1>5. F[a].by = q /\ v # <<>> BY <1>0, <1>2
<1>6. Len(F) \in Nat BY <1>2, FlowFacts
<1>7. /\ a < b /\ a \in 1..(b - 1)
      /\ v[1] = Altered(x.tamper, t[a + 1]) /\ Head(v) = v[1]
      /\ DOMAIN t[a + 1] = MessageFields /\ t[a + 1].type = F[a].type
  BY ONLY <1>1, <1>4, <1>5, <1>6, MatchedHead
<1> QED BY <1>0, <1>2, <1>7

(* Where a peer that reads has read, the other has written.                *)
LEMMA TakenFacts ==
    ASSUME NEW x, NEW r, NEW f, NEW w, Aligned(x, r, f, w), NEW p \in Peers,
           NEW k \in 1..(f[p].step - 1)
    PROVE  /\ k \in 1..Len(FlowOf(x))
           /\ FlowOf(x)[k].by # p =>
                /\ k < f[Other(p)].step /\ k \in 1..(f[Other(p)].step - 1)
                /\ f[p].transcript[k + 1] = Altered(x.tamper, f[Other(p)].transcript[k + 1])
           /\ FlowOf(x)[k].by = p =>
                DOMAIN f[p].transcript[k + 1] = MessageFields
                /\ f[p].transcript[k + 1].type = FlowOf(x)[k].type
<1>1. PICK a \in Nat, b \in Nat, n \in Nat : a = f[p].step /\ b = f[Other(p)].step /\ n = Len(FlowOf(x))
  BY AlignedTypes, Pair2
<1>2. Matched(x, r, f, w, p) BY DEF Aligned
<1>3. a <= n + 1 BY <1>1, AlignedTypes
<1>4. k \in 1..n BY <1>1, <1>3
<1>5. FlowOf(x)[k].by # p =>
        k < b /\ f[p].transcript[k + 1] = Altered(x.tamper, f[Other(p)].transcript[k + 1])
  BY <1>1, <1>2 DEF Matched, Matches
<1>6. k \in Int /\ k >= 1 /\ (k < b => k \in 1..(b - 1)) BY <1>4
<1>7. FlowOf(x)[k].by = p =>
        DOMAIN f[p].transcript[k + 1] = MessageFields /\ f[p].transcript[k + 1].type = FlowOf(x)[k].type
  BY <1>1, <1>2 DEF Matched, Matches
<1> QED BY <1>1, <1>4, <1>5, <1>6, <1>7

LEMMA AlignedFresh ==
    ASSUME NEW x, NEW r, NEW f, NEW w,
           \A p \in Peers : f[p].step = 1 /\ f[p].transcript = <<Hellos(r)>> /\ w[p] = <<>>
    PROVE  Aligned(x, r, f, w)
<1>1. Len(FlowOf(x)) \in Nat BY FlowFacts
<1>2. <<Hellos(r)>> \in Seq({Hellos(r)}) /\ Len(<<Hellos(r)>>) = 1 /\ <<Hellos(r)>>[1] = Hellos(r)
  OBVIOUS
<1>3. <<>> \in Seq({}) /\ Len(<<>>) = 0 OBVIOUS
<1>4. Row(<<Hellos(r)>>) /\ Row(<<>>) BY <1>2, <1>3, RowOf
<1>5. ASSUME NEW p \in Peers PROVE Matched(x, r, f, w, p)
  <2>1. /\ f[p].step = 1 /\ f[p].transcript = <<Hellos(r)>> /\ w[p] = <<>>
        /\ f[Other(p)].step = 1
    BY Pair2
  <2> HIDE DEF Hellos
  <2> QED BY <2>1, <1>1, <1>2, <1>3, <1>4 DEF Matched, Matches
<1> QED BY <1>5 DEF Aligned

----------------------------------------------------------------------------
(* The parts of a connection that a step leaves alone.                     *)

SameVerdict(c, d) ==
    /\ c.v = d.v /\ c.seen = d.seen /\ c.took = d.took /\ c.lookups = d.lookups
    /\ c.judged = d.judged /\ c.client_cert_chain = d.client_cert_chain
SameKeys(c, d) == c.async_state = d.async_state /\ c.written = d.written /\ c.rsa_failed = d.rsa_failed
SameExchange(c, d) == c.peer_key = d.peer_key /\ c.shares = d.shares /\ c.master = d.master
SamePlace(c, d) == c.step = d.step /\ c.transcript = d.transcript
Still == UNCHANGED <<plan, now, run>>

LEMMA AdvancedFacts ==
    ASSUME NEW c, DOMAIN c = ConnectionFields, NEW m, NEW e, e = Advanced(c, m)
    PROVE  /\ DOMAIN e = ConnectionFields /\ e.step = c.step + 1
           /\ e.transcript = Append(c.transcript, m) /\ e.err = c.err
           /\ SameVerdict(e, c) /\ SameKeys(e, c) /\ SameExchange(e, c)
<1> QED BY DEF Advanced, ConnectionFields, SameVerdict, SameKeys, SameExchange

LEMMA SetFacts ==
    ASSUME Shapes(conn, wire), NEW p \in Peers, NEW c, DOMAIN c = ConnectionFields, Set(p, c)
    PROVE  Change(conn, conn', p) /\ conn'[p] = c
<1> QED BY Pair2 DEF Set, Change, Shapes

LEMMA BlockedFacts ==
    ASSUME Shapes(conn, wire), NEW p \in Peers, NEW c, DOMAIN c = ConnectionFields,
           SamePlace(c, conn[p]), Blocked(p, c)
    PROVE  Stay(conn, wire, conn', wire', p) /\ conn'[p] = c /\ Still
<1>1. Set(p, c) /\ Still /\ wire' = wire BY DEF Blocked, Still
<1>2. Change(conn, conn', p) /\ conn'[p] = c BY <1>1, SetFacts
<1> QED BY <1>1, <1>2 DEF Stay, SamePlace

LEMMA AbortFacts ==
    ASSUME Shapes(conn, wire), NEW p \in Peers, NEW err, Abort(p, err)
    PROVE  /\ Stay(conn, wire, conn', wire', p) /\ Still /\ ops' = ops
           /\ conn'[p].err = err /\ conn'[p].io = conn[p].io
           /\ SameVerdict(conn'[p], conn[p]) /\ SameKeys(conn'[p], conn[p])
           /\ SameExchange(conn'[p], conn[p])
<1>1. PICK c : c = [conn[p] EXCEPT !.err = err] OBVIOUS
<1>2. DOMAIN conn[p] = ConnectionFields BY DEF Shapes
<1>3. /\ DOMAIN c = ConnectionFields /\ c.err = err /\ c.io = conn[p].io
      /\ c.step = conn[p].step /\ c.transcript = conn[p].transcript
      /\ SameVerdict(c, conn[p]) /\ SameKeys(c, conn[p]) /\ SameExchange(c, conn[p])
  BY <1>1, <1>2 DEF ConnectionFields, SameVerdict, SameKeys, SameExchange
<1>4. Set(p, c) /\ Still /\ wire' = wire /\ ops' = ops BY <1>1 DEF Abort, Still
<1>5. Change(conn, conn', p) /\ conn'[p] = c BY <1>3, <1>4, SetFacts
<1> QED BY <1>3, <1>4, <1>5 DEF Stay

LEMMA EmitFacts ==
    ASSUME Shapes(conn, wire), NEW p \in Peers, NEW c, DOMAIN c = ConnectionFields,
           SamePlace(c, conn[p]), NEW m, DOMAIN m = MessageFields,
           conn[p].step <= Len(Flow), Flow[conn[p].step] = At(p, m.type), Emit(p, c, m)
    PROVE  /\ Send(plan, conn, wire, conn', wire', p, m) /\ Still
           /\ conn'[p].err = c.err /\ SameVerdict(conn'[p], c) /\ SameKeys(conn'[p], c)
           /\ SameExchange(conn'[p], c)
<1>1. PICK e : e = Advanced(c, m) OBVIOUS
<1>2. /\ DOMAIN e = ConnectionFields /\ e.step = c.step + 1
      /\ e.transcript = Append(c.transcript, m) /\ e.err = c.err
      /\ SameVerdict(e, c) /\ SameKeys(e, c) /\ SameExchange(e, c)
  BY <1>1, AdvancedFacts
<1>3. Set(p, e) /\ Still BY <1>1 DEF Emit, Still
<1>4. Change(conn, conn', p) /\ conn'[p] = e BY <1>2, <1>3, SetFacts
<1>5. /\ DOMAIN wire' = Peers /\ wire'[p] = wire[p]
      /\ wire'[Other(p)] = Append(wire[Other(p)], Altered(plan.tamper, m))
  BY Pair2 DEF Emit, Delivered, Shapes
<1> QED BY <1>2, <1>3, <1>4, <1>5 DEF Send, SamePlace, Flow

LEMMA ConsumeFacts ==
    ASSUME Shapes(conn, wire), NEW p \in Peers, NEW c, DOMAIN c = ConnectionFields,
           SamePlace(c, conn[p]), conn[p].step <= Len(Flow), Flow[conn[p].step].by = Other(p),
           wire[p] # <<>>, Consume(p, c)
    PROVE  /\ Take(plan, conn, wire, conn', wire', p) /\ Still
           /\ conn'[p].err = c.err /\ SameVerdict(conn'[p], c) /\ SameKeys(conn'[p], c)
           /\ SameExchange(conn'[p], c)
<1>0. PICK h : h = Head(wire[p]) OBVIOUS
<1>1. PICK e : e = Advanced(c, h) OBVIOUS
<1>2. /\ DOMAIN e = ConnectionFields /\ e.step = c.step + 1
      /\ e.transcript = Append(c.transcript, h) /\ e.err = c.err
      /\ SameVerdict(e, c) /\ SameKeys(e, c) /\ SameExchange(e, c)
  BY <1>1, AdvancedFacts
<1>3. Set(p, e) /\ Still BY <1>0, <1>1 DEF Consume, Still
<1>4. Change(conn, conn', p) /\ conn'[p] = e BY <1>2, <1>3, SetFacts
<1>5. PICK tl : tl = Tail(wire[p]) OBVIOUS
<1>6. wire' = [wire EXCEPT ![p] = tl] BY <1>5 DEF Consume
<1>7. DOMAIN wire' = Peers /\ wire'[p] = tl /\ wire'[Other(p)] = wire[Other(p)]
  BY <1>6, Pair2 DEF Shapes
<1>8. conn'[p].step = conn[p].step + 1 /\ conn'[p].transcript = Append(conn[p].transcript, h)
  BY <1>2, <1>4 DEF SamePlace
<1>9. Take(plan, conn, wire, conn', wire', p)
  BY <1>0, <1>4, <1>5, <1>7, <1>8 DEF Take, Flow
<1> QED BY <1>2, <1>3, <1>4, <1>9

LEMMA TurnFacts ==
    ASSUME NEW p, NEW by, NEW type, Turn(p, by, type)
    PROVE  /\ conn[p].step <= Len(Flow) /\ Flow[conn[p].step] = At(by, type)
           /\ FlowOf(plan)[conn[p].step].by = by /\ FlowOf(plan)[conn[p].step].type = type
           /\ conn[p].err = "OK"
<1> QED BY AtFacts DEF Turn, Running, Flow, At

----------------------------------------------------------------------------
(* The inductive invariant, and the kinds of steps.                        *)

Inv ==
    /\ plan \in Plans /\ run \in 0..1 /\ now \in Nat
    /\ Shapes(conn, wire) /\ Aligned(plan, run, conn, wire) /\ Written(plan, run, conn)
    /\ Waiting(plan, run, conn) /\ Held(plan, ops) /\ Silent(plan, conn["server"])
    /\ Verified(plan, conn) /\ Agreed(plan, run, conn) /\ Finishes(plan, conn)
    /\ Judged(plan, conn, now)

Here(p) == FlowOf(plan)[conn[p].step]
Stays(p) == Stay(conn, wire, conn', wire', p) /\ Still
Sends(p, m) == Send(plan, conn, wire, conn', wire', p, m) /\ Still /\ conn[p].err = "OK"
Takes(p) == Take(plan, conn, wire, conn', wire', p) /\ Still /\ conn[p].err = "OK"
NewOps == ops' = ops \/ \E op : Operation(plan, op) /\ ops' = Append(ops, op)

(* An error where an RSA secret is received would tell.                    *)
Excused(p) ==
    \/ conn'[p].err \in {"OK", "CLOSED", "CLOSED_BY_APP", conn[p].err}
    \/ conn[p].step <= Len(FlowOf(plan)) /\ Here(p).type # "client_key"

Quits(p) ==
    /\ Stays(p) /\ Excused(p) /\ conn'[p].io = conn[p].io /\ NewOps
    /\ SameVerdict(conn'[p], conn[p]) /\ SameKeys(conn'[p], conn[p]) /\ SameExchange(conn'[p], conn[p])
Speaks(p, m) ==
    /\ Sends(p, m) /\ conn'[p].err = conn[p].err /\ ops' = ops
    /\ SameVerdict(conn'[p], conn[p]) /\ SameKeys(conn'[p], conn[p]) /\ SameExchange(conn'[p], conn[p])
    /\ m.type \in {"cert", "status", "finished"} /\ Wrote(plan, run, p, m.type, m)
    /\ m.type = "finished" => m.over = <<conn[p].master, conn[p].transcript>>
Signs(p, m) ==
    /\ Sends(p, m) /\ conn'[p].err = conn[p].err /\ NewOps
    /\ SameVerdict(conn'[p], conn[p])
    /\ conn'[p].peer_key = conn[p].peer_key /\ conn'[p].master = conn[p].master
    /\ p = "client" => conn'[p].shares = conn[p].shares
    /\ conn'[p].rsa_failed = conn[p].rsa_failed /\ conn'[p].written = 1
    /\ conn'[p].async_state \in {"NOT_INVOKED", "COMPLETE"}
    /\ m.type \in {"server_key", "cert_verify"} /\ Wrote(plan, run, p, m.type, m)
Asks(p) ==
    /\ Stays(p) /\ conn'[p].err = conn[p].err /\ NewOps
    /\ SameVerdict(conn'[p], conn[p])
    /\ conn'[p].peer_key = conn[p].peer_key /\ conn'[p].master = conn[p].master
    /\ p = "client" => conn'[p].shares = conn[p].shares
    /\ conn'[p].rsa_failed = conn[p].rsa_failed /\ conn'[p].written = conn[p].written
    /\ conn[p].async_state = "NOT_INVOKED" /\ conn'[p].async_state = "INVOKED"
    /\ conn[p].step <= Len(FlowOf(plan)) /\ Operates(plan, p, Here(p))
    /\ Here(p).by = p =>
         /\ DOMAIN conn'[p].io = MessageFields /\ conn'[p].io.type = Here(p).type
         /\ conn'[p].io.type = "server_key" => conn'[p].io.params = Parameters(plan, run)
Reads(p) ==
    /\ Takes(p) /\ conn'[p].err = conn[p].err /\ ops' = ops
    /\ SameVerdict(conn'[p], conn[p]) /\ SameKeys(conn'[p], conn[p])
    /\ \/ /\ Here(p) = At(Other(p), "cert_verify") /\ SameExchange(conn'[p], conn[p])
          /\ Head(wire[p]).sig.key = conn[p].peer_key
       \/ /\ Here(p) = At(Other(p), "finished") /\ SameExchange(conn'[p], conn[p])
          /\ Head(wire[p]).over = <<conn[p].master, conn[p].transcript>> /\ ~conn[p].rsa_failed
       \/ /\ Here(p) = At("server", "server_key") /\ p = "client"
          /\ conn'[p].master = conn[p].master /\ conn'[p].peer_key = NoKey
          /\ conn'[p].shares = Parameters(plan, run)
          /\ Head(wire[p]).sig.key = conn[p].peer_key
       \/ /\ Here(p) = At("client", "client_key") /\ p = "server" /\ plan.kex # "rsa"
          /\ conn'[p].peer_key = conn[p].peer_key
       \/ Here(p) = At("client", "cert") /\ p = "server" /\ SameExchange(conn'[p], conn[p])
SharesKey(m) ==
    /\ Sends("client", m) /\ conn'["client"].err = conn["client"].err /\ ops' = ops
    /\ SameVerdict(conn'["client"], conn["client"]) /\ SameKeys(conn'["client"], conn["client"])
    /\ conn'["client"].peer_key \in {conn["client"].peer_key, NoKey}
    /\ conn'["client"].shares \in {conn["client"].shares, <<>>}
    /\ m.type = "client_key" /\ Wrote(plan, run, "client", m.type, m)
Decrypts ==
    /\ Takes("server") /\ plan.kex = "rsa" /\ Here("server") = At("client", "client_key")
    /\ conn'["server"].err = conn["server"].err /\ NewOps
    /\ SameVerdict(conn'["server"], conn["server"])
    /\ conn'["server"].peer_key = conn["server"].peer_key
    /\ conn'["server"].written = 1
    /\ conn'["server"].async_state \in {"NOT_INVOKED", "COMPLETE"}
    /\ plan.uses["server"] = "wrong" => conn'["server"].rsa_failed
Applies(p) ==
    /\ Stays(p) /\ conn'[p].err = conn[p].err /\ Held(plan, ops')
    /\ SameVerdict(conn'[p], conn[p]) /\ SameExchange(conn'[p], conn[p])
    /\ conn[p].async_state = "INVOKED" /\ conn'[p].async_state = "COMPLETE"
    /\ conn'[p].written = 1
    /\ p = "server" /\ plan.kex = "rsa" /\ plan.uses["server"] = "wrong" => conn'[p].rsa_failed
    /\ Here(p).by = p =>
         /\ DOMAIN conn'[p].io = MessageFields /\ conn'[p].io.type = Here(p).type
         /\ conn'[p].io.type = "server_key" => conn'[p].io.params = Parameters(plan, run)
         /\ Signature(plan, p, conn'[p].io.sig) /\ Checked(plan, p, conn'[p].io.sig)
Works == Still /\ conn' = conn /\ wire' = wire /\ Held(plan, ops')
Examines(p) ==
    /\ Still /\ ops' = ops /\ Judges(plan, p, conn'[p], now) /\ SameKeys(conn'[p], conn[p])
    /\ conn'[p].master = conn[p].master /\ conn'[p].shares = conn[p].shares
    /\ \/ /\ Stays(p) /\ Excused(p) /\ conn'[p].io = conn[p].io
          /\ conn'[p].peer_key = conn[p].peer_key
       \/ /\ Takes(p) /\ Here(p).type \in {"cert", "status"} /\ conn'[p].err = conn[p].err
          /\ conn'[p].peer_key \in {conn[p].peer_key, Own(plan, Other(p))}
Restarts ==
    /\ plan' = plan /\ now' = now /\ run' = 1 /\ Held(plan, ops')
    /\ conn' = [p \in Peers |-> NewConnection(p, 1)] /\ wire' = [p \in Peers |-> <<>>]
Ticks == UNCHANGED <<plan, run, conn, wire, ops>> /\ now' = now + 1

Moves ==
    \/ \E p \in Peers : Quits(p) \/ Asks(p) \/ Reads(p) \/ Applies(p) \/ Examines(p)
    \/ \E p \in Peers : \E m : Speaks(p, m) \/ Signs(p, m)
    \/ (\E m : SharesKey(m)) \/ Decrypts \/ Works \/ Restarts \/ Ticks

(* What a reader finds on the wire.                                        *)
LEMMA ArrivedFacts ==
    ASSUME Inv, NEW p \in Peers, NEW type, Arrived(p, Other(p), type)
    PROVE  /\ conn[p].step <= Len(Flow) /\ Here(p) = At(Other(p), type) /\ wire[p] # <<>>
           /\ Here(p).by = Other(p) /\ Here(p).type = type /\ conn[p].err = "OK"
           /\ Flow[conn[p].step].by = Other(p)
           /\ DOMAIN conn[p] = ConnectionFields
           /\ \E m : /\ DOMAIN m = MessageFields /\ m.type = type
                     /\ Wrote(plan, run, Other(p), type, m)
                     /\ Head(wire[p]) = Altered(plan.tamper, m)
<1>1. Turn(p, Other(p), type) /\ wire[p] # <<>> BY DEF Arrived
<1>2. /\ conn[p].step <= Len(Flow) /\ Here(p) = At(Other(p), type)
      /\ Here(p).by = Other(p) /\ Here(p).type = type /\ conn[p].err = "OK"
  BY <1>1, TurnFacts DEF Here, Flow
<1>3. Aligned(plan, run, conn, wire) /\ Written(plan, run, conn) BY DEF Inv
<1>4. PICK m : m = conn[Other(p)].transcript[conn[p].step + 1] OBVIOUS
<1>5. /\ Head(wire[p]) = Altered(plan.tamper, m)
      /\ DOMAIN m = MessageFields /\ m.type = type
      /\ conn[p].step \in 1..(conn[Other(p)].step - 1)
  BY <1>1, <1>2, <1>3, <1>4, HeadFacts DEF Here, Flow
<1>6. Wrote(plan, run, Other(p), type, m)
  BY <1>2, <1>3, <1>4, <1>5, Pair2 DEF Written, Here
<1> QED BY <1>1, <1>2, <1>5, <1>6 DEF Here, Flow, Inv, Shapes

----------------------------------------------------------------------------
(* Every step is of one of the kinds: the plain messages.                  *)

LEMMA TurnHere ==
    ASSUME Inv, NEW p \in Peers, NEW by, NEW type, Turn(p, by, type)
    PROVE  /\ conn[p].step <= Len(Flow) /\ Flow[conn[p].step] = At(by, type) /\ Here(p) = At(by, type)
           /\ Here(p).by = by /\ Here(p).type = type /\ conn[p].err = "OK"
           /\ DOMAIN conn[p] = ConnectionFields /\ SamePlace(conn[p], conn[p])
<1> QED BY TurnFacts DEF Here, Flow, Inv, Shapes, SamePlace

LEMMA SameSelf ==
    ASSUME NEW c
    PROVE  SameVerdict(c, c) /\ SameKeys(c, c) /\ SameExchange(c, c)
<1> QED BY DEF SameVerdict, SameKeys, SameExchange

LEMMA PlainSend ==
    ASSUME Inv, NEW p \in Peers, NEW m, DOMAIN m = MessageFields, Turn(p, p, m.type),
           Emit(p, conn[p], m), ops' = ops, m.type \in {"cert", "status", "finished"},
           Wrote(plan, run, p, m.type, m),
           m.type = "finished" => m.over = <<conn[p].master, conn[p].transcript>>
    PROVE  Speaks(p, m)
<1>1. Shapes(conn, wire) BY DEF Inv
<1>2. /\ conn[p].step <= Len(Flow) /\ Flow[conn[p].step] = At(p, m.type) /\ conn[p].err = "OK"
      /\ DOMAIN conn[p] = ConnectionFields /\ SamePlace(conn[p], conn[p])
  BY TurnHere
<1>3. PICK c : c = conn[p] OBVIOUS
<1>4. /\ Send(plan, conn, wire, conn', wire', p, m) /\ Still
      /\ conn'[p].err = c.err /\ SameVerdict(conn'[p], c) /\ SameKeys(conn'[p], c)
      /\ SameExchange(conn'[p], c)
  BY <1>1, <1>2, <1>3, EmitFacts
<1> QED BY <1>2, <1>3, <1>4 DEF Speaks, Sends

LEMMA SendCertMoves ==
    ASSUME Inv, NEW p \in Peers, SendCert(p)
    PROVE  Moves
<1>1. PICK m : m = [Typed("cert") EXCEPT
                      !.chain = plan.chain[p],
                      !.staple = IF TLS13 /\ p = "server" THEN plan.staple ELSE NoStaple]
  OBVIOUS
<1>2. /\ DOMAIN m = MessageFields /\ m.type = "cert" /\ m.chain = plan.chain[p]
      /\ m.staple = IF TLS13 /\ p = "server" THEN plan.staple ELSE NoStaple
  BY <1>1, TypedFacts DEF MessageFields
<1>3. Wrote(plan, run, p, m.type, m) BY <1>2 DEF Wrote, TLS13
<1>4. Turn(p, p, m.type) /\ Emit(p, conn[p], m) /\ ops' = ops BY <1>1, <1>2 DEF SendCert
<1>5. Speaks(p, m) BY <1>2, <1>3, <1>4, PlainSend
<1> QED BY <1>5 DEF Moves

LEMMA SendStatusMoves ==
    ASSUME Inv, SendStatus
    PROVE  Moves
<1>1. PICK m : m = [Typed("status") EXCEPT !.staple = plan.staple] OBVIOUS
<1>2. DOMAIN m = MessageFields /\ m.type = "status" /\ m.staple = plan.staple
  BY <1>1, TypedFacts DEF MessageFields
<1>3. Wrote(plan, run, "server", m.type, m) BY <1>2 DEF Wrote
<1>4. /\ Turn("server", "server", m.type) /\ Emit("server", conn["server"], m) /\ ops' = ops
      /\ "server" \in Peers
  BY <1>1, <1>2 DEF SendStatus, Peers
<1>5. Speaks("server", m) BY <1>2, <1>3, <1>4, PlainSend
<1> QED BY <1>4, <1>5 DEF Moves

LEMMA SendFinishedMoves ==
    ASSUME Inv, NEW p \in Peers, SendFinished(p)
    PROVE  Moves
<1>1. PICK m : m = [Typed("finished") EXCEPT !.over = VerifyData(conn[p])] OBVIOUS
<1>2. DOMAIN m = MessageFields /\ m.type = "finished" /\ m.over = VerifyData(conn[p])
  BY <1>1, TypedFacts DEF MessageFields
<1>3. Wrote(plan, run, p, m.type, m) BY <1>2 DEF Wrote
<1>4. Turn(p, p, m.type) /\ Emit(p, conn[p], m) /\ ops' = ops BY <1>1, <1>2 DEF SendFinished
<1>5. m.over = <<conn[p].master, conn[p].transcript>> BY <1>2 DEF VerifyData
<1>6. Speaks(p, m) BY <1>2, <1>3, <1>4, <1>5, PlainSend
<1> QED BY <1>6 DEF Moves

(* A handler that fails.                                                   *)
LEMMA Failing ==
    ASSUME Inv, NEW p \in Peers, NEW err, Abort(p, err),
           \/ err \in {"CLOSED", "CLOSED_BY_APP"}
           \/ conn[p].step <= Len(FlowOf(plan)) /\ Here(p).type # "client_key"
    PROVE  Moves
<1>1. Shapes(conn, wire) BY DEF Inv
<1>2. /\ Stay(conn, wire, conn', wire', p) /\ Still /\ ops' = ops
      /\ conn'[p].err = err /\ conn'[p].io = conn[p].io
      /\ SameVerdict(conn'[p], conn[p]) /\ SameKeys(conn'[p], conn[p])
      /\ SameExchange(conn'[p], conn[p])
  BY <1>1, AbortFacts
<1>3. Quits(p) BY <1>2 DEF Quits, Stays, Excused, NewOps
<1> QED BY <1>3 DEF Moves

LEMMA FailingBlocked ==
    ASSUME Inv, NEW p \in Peers, NEW err, Blocked(p, [conn[p] EXCEPT !.err = err]), ops' = ops,
           \/ err \in {"CLOSED", "CLOSED_BY_APP"}
           \/ conn[p].step <= Len(FlowOf(plan)) /\ Here(p).type # "client_key"
    PROVE  Moves
<1>1. Abort(p, err) BY DEF Abort, Blocked
<1> QED BY <1>1, Failing

LEMMA PeerGoneMoves ==
    ASSUME Inv, NEW p \in Peers, PeerGone(p)
    PROVE  Moves
<1>1. Abort(p, "CLOSED") BY DEF PeerGone
<1> QED BY <1>1, Failing

LEMMA AppGiveUpMoves ==
    ASSUME Inv, NEW p \in Peers, AppGiveUp(p)
    PROVE  Moves
<1>1. Abort(p, "CLOSED_BY_APP") BY DEF AppGiveUp
<1> QED BY <1>1, Failing

(* A message taken without a word to the validator or the keys.            *)
LEMMA PlainTake ==
    ASSUME Inv, NEW p \in Peers, NEW type, Arrived(p, Other(p), type), NEW c,
           DOMAIN c = ConnectionFields, SamePlace(c, conn[p]), Consume(p, c)
    PROVE  /\ Takes(p)
           /\ conn'[p].err = c.err /\ SameVerdict(conn'[p], c) /\ SameKeys(conn'[p], c)
           /\ SameExchange(conn'[p], c)
<1>1. Shapes(conn, wire) BY DEF Inv
<1>2. /\ conn[p].step <= Len(Flow) /\ Flow[conn[p].step].by = Other(p) /\ wire[p] # <<>>
      /\ conn[p].err = "OK"
  BY ArrivedFacts
<1> QED BY <1>1, <1>2, ConsumeFacts DEF Takes

LEMMA RecvCertVerifyMoves ==
    ASSUME Inv, NEW p \in Peers, RecvCertVerify(p)
    PROVE  Moves
<1>1. Arrived(p, Other(p), "cert_verify") /\ ops' = ops BY DEF RecvCertVerify
<1>2. /\ conn[p].step <= Len(Flow) /\ Here(p) = At(Other(p), "cert_verify")
      /\ Here(p).type = "cert_verify" /\ DOMAIN conn[p] = ConnectionFields
  BY <1>1, ArrivedFacts
<1>3. CASE s2n_pkey_verify(conn[p].peer_key, CertVerifyDigest(Other(p), conn[p].transcript),
                           Head(wire[p]).sig)
  <2>1. Consume(p, conn[p]) BY <1>3 DEF RecvCertVerify
  <2>2. PICK c : c = conn[p] OBVIOUS
  <2>3. /\ Takes(p)
        /\ conn'[p].err = c.err /\ SameVerdict(conn'[p], c) /\ SameKeys(conn'[p], c)
        /\ SameExchange(conn'[p], c)
    BY <1>1, <1>2, <2>1, <2>2, PlainTake DEF SamePlace
  <2>4. Head(wire[p]).sig.key = conn[p].peer_key BY <1>3 DEF s2n_pkey_verify, s2n_pkey_sign
  <2>5. Reads(p) BY <1>1, <1>2, <2>2, <2>3, <2>4 DEF Reads
  <2> QED BY <2>5 DEF Moves
<1>4. CASE ~s2n_pkey_verify(conn[p].peer_key, CertVerifyDigest(Other(p), conn[p].transcript),
                            Head(wire[p]).sig)
  <2>1. Blocked(p, [conn[p] EXCEPT !.err = "VERIFY_SIGNATURE"]) BY <1>4 DEF RecvCertVerify
  <2>2. conn[p].step <= Len(FlowOf(plan)) /\ Here(p).type # "client_key" BY <1>2 DEF Flow
  <2> QED BY <1>1, <2>1, <2>2, FailingBlocked
<1> QED BY <1>3, <1>4

LEMMA RecvFinishedMoves ==
    ASSUME Inv, NEW p \in Peers, RecvFinished(p)
    PROVE  Moves
<1>1. Arrived(p, Other(p), "finished") /\ ops' = ops BY DEF RecvFinished
<1>2. /\ conn[p].step <= Len(Flow) /\ Here(p) = At(Other(p), "finished")
      /\ Here(p).type = "finished" /\ DOMAIN conn[p] = ConnectionFields
  BY <1>1, ArrivedFacts
<1>3. CASE Head(wire[p]).over = VerifyData(conn[p]) /\ ~conn[p].rsa_failed
  <2>1. Consume(p, conn[p]) BY <1>3 DEF RecvFinished
  <2>2. PICK c : c = conn[p] OBVIOUS
  <2>3. /\ Takes(p)
        /\ conn'[p].err = c.err /\ SameVerdict(conn'[p], c) /\ SameKeys(conn'[p], c)
        /\ SameExchange(conn'[p], c)
    BY <1>1, <1>2, <2>1, <2>2, PlainTake DEF SamePlace
  <2>4. Head(wire[p]).over = <<conn[p].master, conn[p].transcript>> BY <1>3 DEF VerifyData
  <2>5. Reads(p) BY <1>1, <1>2, <1>3, <2>2, <2>3, <2>4 DEF Reads
  <2> QED BY <2>5 DEF Moves
<1>4. CASE ~(Head(wire[p]).over = VerifyData(conn[p]) /\ ~conn[p].rsa_failed)
  <2>1. Blocked(p, [conn[p] EXCEPT !.err = "BAD_MESSAGE"]) BY <1>4 DEF RecvFinished
  <2>2. conn[p].step <= Len(FlowOf(plan)) /\ Here(p).type # "client_key" BY <1>2 DEF Flow
  <2> QED BY <1>1, <2>1, <2>2, FailingBlocked
<1> QED BY <1>3, <1>4

----------------------------------------------------------------------------
(* The key exchange messages.                                              *)

LEMMA DigestFacts ==
    ASSUME NEW r, NEW s, NEW a, NEW b, ServerKeyDigest(r, r, a) = ServerKeyDigest(s, s, b)
    PROVE  r = s /\ a = b
<1>1. ServerKeyDigest(r, r, a).over = <<r, r, a>> /\ ServerKeyDigest(s, s, b).over = <<s, s, b>>
  BY DEF ServerKeyDigest
<1>2. <<r, r, a>> = <<s, s, b>> BY <1>1
<1> QED BY <1>2

LEMMA OwnFacts ==
    ASSUME NEW x \in Plans, NEW p \in Peers, x.chain[p] # <<>>
    PROVE  Own(x, p) \notin NobodysKeys
<1> QED BY PlansAssumption DEF Own

(* Parameters that the server's certificate vouches for are the server's.  *)
LEMMA SignedParameters ==
    ASSUME NEW x \in Plans, NEW sig, Signature(x, "server", sig), x.kex # "tls13",
           NEW key, key \in {NoKey, Own(x, "server")}, NEW r, NEW params,
           s2n_pkey_verify(key, ServerKeyDigest(r, r, params), sig)
    PROVE  params = Parameters(x, r) /\ sig.key = key
<1>1. sig.key = key /\ sig.digest = ServerKeyDigest(r, r, params)
  BY DEF s2n_pkey_verify, s2n_pkey_sign
<1>2. Own(x, "server") \notin NobodysKeys
  <2>1. "server" \in Peers BY DEF Peers
  <2>2. x.chain["server"] # <<>> BY PlansAssumption
  <2> QED BY <2>1, <2>2, OwnFacts
<1>3. sig.key \in {Own(x, "server"), "wrong_key", "garbage"} BY DEF Signature
<1>4. sig.key # "garbage" BY <1>1, <1>2 DEF NobodysKeys, NoKey
<1>5. PICK s \in 0..1 : sig.digest = ServerKeyDigest(s, s, Parameters(x, s))
  BY <1>4 DEF Signature, Digested
<1>6. PICK b : b = Parameters(x, s) OBVIOUS
<1>7. ServerKeyDigest(r, r, params) = ServerKeyDigest(s, s, b) BY <1>1, <1>5, <1>6
<1>8. r = s /\ params = b BY <1>7, DigestFacts
<1> QED BY <1>1, <1>6, <1>8

LEMMA RecvServerKeyMoves ==
    ASSUME Inv, RecvServerKey
    PROVE  Moves
<1>0. "client" \in Peers /\ Other("client") = "server" BY DEF Peers, Other
<1>1. Arrived("client", Other("client"), "server_key") /\ ops' = ops BY <1>0 DEF RecvServerKey
<1>2. /\ conn["client"].step <= Len(Flow) /\ Here("client") = At("server", "server_key")
      /\ Here("client").type = "server_key" /\ DOMAIN conn["client"] = ConnectionFields
      /\ \E m : /\ DOMAIN m = MessageFields /\ m.type = "server_key"
                /\ Wrote(plan, run, "server", "server_key", m)
                /\ Head(wire["client"]) = Altered(plan.tamper, m)
  BY <1>0, <1>1, ArrivedFacts
<1>3. PICK h : h = Head(wire["client"]) OBVIOUS
<1>4. PICK m : /\ DOMAIN m = MessageFields /\ Wrote(plan, run, "server", "server_key", m)
               /\ h = Altered(plan.tamper, m)
  BY <1>2, <1>3
<1>5. Signature(plan, "server", h.sig) BY <1>4, AlteredFacts DEF Wrote
<1>6. plan \in Plans /\ plan.kex # "tls13"
  <2>1. plan \in Plans /\ Aligned(plan, run, conn, wire) BY DEF Inv
  <2>2. conn["client"].step \in Nat /\ conn["client"].step >= 1 BY <1>0, <2>1, AlignedTypes
  <2>3. conn["client"].step \in 1..Len(FlowOf(plan)) BY <1>2, <2>2, FlowFacts DEF Flow
  <2>4. Here("client") \in Members(plan) /\ Here("client") \in Steps BY <2>3, FlowFacts DEF Here
  <2> QED BY <1>2, <2>1, <2>4, MemberFacts
<1>7. conn["client"].peer_key \in {NoKey, Own(plan, "server")} BY <1>0 DEF Inv, Verified
<1>8. CASE /\ s2n_kex_server_key_recv_read_data(plan.kex, h.params)
           /\ s2n_pkey_verify(conn["client"].peer_key, ServerKeyDigest(run, run, h.params), h.sig)
           /\ s2n_kex_server_key_recv_parse_data(h.params, plan.kems)
  <2>1. h.params = Parameters(plan, run) /\ h.sig.key = conn["client"].peer_key
    BY <1>5, <1>6, <1>7, <1>8, SignedParameters
  <2>2. PICK c : c = [conn["client"] EXCEPT !.peer_key = NoKey, !.shares = h.params] OBVIOUS
  <2>3. Consume("client", c) BY <1>3, <1>8, <2>2 DEF RecvServerKey
  <2>4. /\ DOMAIN c = ConnectionFields /\ SamePlace(c, conn["client"])
        /\ c.err = conn["client"].err /\ SameVerdict(c, conn["client"])
        /\ SameKeys(c, conn["client"]) /\ c.peer_key = NoKey /\ c.shares = h.params
        /\ c.master = conn["client"].master
    BY <1>2, <2>2 DEF ConnectionFields, SamePlace, SameVerdict, SameKeys
  <2>5. /\ Takes("client")
        /\ conn'["client"].err = c.err /\ SameVerdict(conn'["client"], c)
        /\ SameKeys(conn'["client"], c) /\ SameExchange(conn'["client"], c)
    BY <1>0, <1>1, <2>3, <2>4, PlainTake
  <2>6. /\ SameVerdict(conn'["client"], conn["client"]) /\ SameKeys(conn'["client"], conn["client"])
        /\ conn'["client"].master = conn["client"].master /\ conn'["client"].peer_key = NoKey
        /\ conn'["client"].shares = Parameters(plan, run) /\ conn'["client"].err = conn["client"].err
    BY <2>1, <2>4, <2>5 DEF SameVerdict, SameKeys, SameExchange
  <2>7. Reads("client") BY <1>1, <1>2, <1>3, <2>1, <2>5, <2>6 DEF Reads
  <2> QED BY <1>0, <2>7 DEF Moves
<1>9. CASE ~(/\ s2n_kex_server_key_recv_read_data(plan.kex, h.params)
             /\ s2n_pkey_verify(conn["client"].peer_key, ServerKeyDigest(run, run, h.params), h.sig)
             /\ s2n_kex_server_key_recv_parse_data(h.params, plan.kems))
  <2>1. Blocked("client", [conn["client"] EXCEPT !.err = "BAD_MESSAGE"])
    BY <1>3, <1>9 DEF RecvServerKey
  <2>2. conn["client"].step <= Len(FlowOf(plan)) /\ Here("client").type # "client_key"
    BY <1>2 DEF Flow
  <2> QED BY <1>0, <1>1, <2>1, <2>2, FailingBlocked
<1> QED BY <1>8, <1>9

LEMMA SendClientKeyMoves ==
    ASSUME Inv, SendClientKey
    PROVE  Moves
<1>0. "client" \in Peers /\ Other("client") = "server" BY DEF Peers, Other
<1>1. Turn("client", "client", "client_key") /\ ops' = ops BY DEF SendClientKey
<1>2. /\ conn["client"].step <= Len(Flow) /\ Flow[conn["client"].step] = At("client", "client_key")
      /\ DOMAIN conn["client"] = ConnectionFields /\ conn["client"].err = "OK"
  BY <1>0, <1>1, TurnHere
<1>3. Shapes(conn, wire) BY DEF Inv
<1>4. ASSUME NEW c, DOMAIN c = ConnectionFields, SamePlace(c, conn["client"]), c.err = conn["client"].err,
             SameVerdict(c, conn["client"]), SameKeys(c, conn["client"]),
             c.peer_key \in {conn["client"].peer_key, NoKey}, c.shares \in {conn["client"].shares, <<>>},
             NEW m, DOMAIN m = MessageFields, m.type = "client_key", Emit("client", c, m),
             Wrote(plan, run, "client", "client_key", m)
      PROVE  Moves
  <2>1. /\ Send(plan, conn, wire, conn', wire', "client", m) /\ Still
        /\ conn'["client"].err = c.err /\ SameVerdict(conn'["client"], c)
        /\ SameKeys(conn'["client"], c) /\ SameExchange(conn'["client"], c)
    BY <1>0, <1>2, <1>3, <1>4, EmitFacts
  <2>2. SharesKey(m)
    BY <1>1, <1>2, <1>4, <2>1 DEF SharesKey, Sends, SameVerdict, SameKeys, SameExchange
  <2> QED BY <2>2 DEF Moves
<1>5. CASE plan.kex = "rsa"
  <2>1. PICK r : r = s2n_rsa_client_key_send(conn["client"].peer_key, ClientHelloVersion, run) OBVIOUS
  <2>2. PICK c : c = [conn["client"] EXCEPT
                        !.peer_key = NoKey, !.premaster = r.premaster,
                        !.master = s2n_kex_tls_prf("rsa", r.premaster, run, <<>>)]
    OBVIOUS
  <2>3. PICK m : m = [Typed("client_key") EXCEPT !.encrypted = r.encrypted] OBVIOUS
  <2>4. conn["client"].peer_key # NoKey /\ Emit("client", c, m)
    BY <1>5, <2>1, <2>2, <2>3 DEF SendClientKey
  <2>5. conn["client"].peer_key = Own(plan, "server") BY <1>0, <2>4 DEF Inv, Verified
  <2>6. r.encrypted = Sealed(plan, run) BY <2>1, <2>5 DEF s2n_rsa_client_key_send, Sealed
  <2>7. DOMAIN m = MessageFields /\ m.type = "client_key" /\ m.encrypted = r.encrypted
    BY <2>3, TypedFacts DEF MessageFields
  <2>8. Wrote(plan, run, "client", "client_key", m) BY <2>6, <2>7 DEF Wrote
  <2>9. /\ DOMAIN c = ConnectionFields /\ SamePlace(c, conn["client"])
        /\ c.err = conn["client"].err /\ SameVerdict(c, conn["client"])
        /\ SameKeys(c, conn["client"]) /\ c.peer_key = NoKey /\ c.shares = conn["client"].shares
    BY <1>2, <2>2 DEF ConnectionFields, SamePlace, SameVerdict, SameKeys
  <2> QED BY <1>4, <2>4, <2>7, <2>8, <2>9
<1>6. CASE plan.kex # "rsa"
  <2>1. PICK shares : shares = ClientShares(conn["client"].shares, run) OBVIOUS
  <2>2. PICK c : c = [conn["client"] EXCEPT
                        !.shares = <<>>,
                        !.master = s2n_kex_tls_prf(plan.kex,
                          CombinedSecret(conn["client"].shares, shares), run, shares)]
    OBVIOUS
  <2>3. PICK m : m = [Typed("client_key") EXCEPT !.params = shares] OBVIOUS
  <2>4. Emit("client", c, m) BY <1>6, <2>1, <2>2, <2>3 DEF SendClientKey
  <2>7. DOMAIN m = MessageFields /\ m.type = "client_key" BY <2>3, TypedFacts DEF MessageFields
  <2>8. Wrote(plan, run, "client", "client_key", m) BY <1>6, <2>7 DEF Wrote
  <2>9. /\ DOMAIN c = ConnectionFields /\ SamePlace(c, conn["client"])
        /\ c.err = conn["client"].err /\ SameVerdict(c, conn["client"])
        /\ SameKeys(c, conn["client"]) /\ c.peer_key = conn["client"].peer_key /\ c.shares = <<>>
    BY <1>2, <2>2 DEF ConnectionFields, SamePlace, SameVerdict, SameKeys
  <2> QED BY <1>4, <2>4, <2>7, <2>8, <2>9
<1> QED BY <1>5, <1>6

LEMMA RecvClientKeyMoves ==
    ASSUME Inv, RecvClientKey
    PROVE  Moves
<1>0. "server" \in Peers /\ Other("server") = "client" BY DEF Peers, Other
<1>1. Arrived("server", Other("server"), "client_key") /\ ops' = ops /\ plan.kex # "rsa"
  BY <1>0 DEF RecvClientKey
<1>2. /\ Here("server") = At("client", "client_key") /\ DOMAIN conn["server"] = ConnectionFields
  BY <1>0, <1>1, ArrivedFacts
<1>3. PICK shares : shares = Head(wire["server"]).params OBVIOUS
<1>4. PICK c : c = [conn["server"] EXCEPT
                      !.shares = <<>>,
                      !.master = s2n_kex_tls_prf(plan.kex,
                        CombinedSecret(conn["server"].shares, shares), run, shares)]
  OBVIOUS
<1>5. Consume("server", c) BY <1>3, <1>4 DEF RecvClientKey
<1>6. /\ DOMAIN c = ConnectionFields /\ SamePlace(c, conn["server"])
      /\ c.err = conn["server"].err /\ SameVerdict(c, conn["server"])
      /\ SameKeys(c, conn["server"]) /\ c.peer_key = conn["server"].peer_key
  BY <1>2, <1>4 DEF ConnectionFields, SamePlace, SameVerdict, SameKeys
<1>7. /\ Takes("server")
      /\ conn'["server"].err = c.err /\ SameVerdict(conn'["server"], c)
      /\ SameKeys(conn'["server"], c) /\ SameExchange(conn'["server"], c)
  BY <1>0, <1>1, <1>5, <1>6, PlainTake
<1>8. /\ SameVerdict(conn'["server"], conn["server"]) /\ SameKeys(conn'["server"], conn["server"])
      /\ conn'["server"].peer_key = conn["server"].peer_key
      /\ conn'["server"].err = conn["server"].err
  BY <1>6, <1>7 DEF SameVerdict, SameKeys, SameExchange
<1>9. Reads("server") BY <1>1, <1>2, <1>7, <1>8 DEF Reads
<1> QED BY <1>0, <1>9 DEF Moves

----------------------------------------------------------------------------
(* Operations of the private key.                                          *)

LEMMA SignAsked ==
    ASSUME NEW p, NEW mode, NEW after, NEW digest, NEW op,
           op = s2n_async_pkey_sign_async(p, mode, after, digest)
    PROVE  /\ DOMAIN op = OperationFields /\ op.conn = p /\ op.type = "sign" /\ op.digest = digest
           /\ op.mode = (IF after THEN "strict" ELSE mode)
           /\ ~op.complete /\ ~op.applied /\ op.live
<1> QED BY DEF s2n_async_pkey_sign_async, s2n_async_pkey_op_allocate, OperationFields

LEMMA DecryptAsked ==
    ASSUME NEW p, NEW mode, NEW encrypted, NEW random, NEW op,
           op = s2n_async_pkey_decrypt_async(p, mode, encrypted, random)
    PROVE  /\ DOMAIN op = OperationFields /\ op.conn = p /\ op.type = "decrypt"
           /\ op.encrypted = encrypted /\ op.decrypted = random
           /\ ~op.complete /\ ~op.applied /\ op.live
<1> QED BY DEF s2n_async_pkey_decrypt_async, s2n_async_pkey_op_allocate, OperationFields

LEMMA SignPerformed ==
    ASSUME NEW op, DOMAIN op = OperationFields, op.type = "sign", NEW key, NEW done,
           done = s2n_async_pkey_op_perform(op, key)
    PROVE  /\ DOMAIN done = OperationFields /\ done.conn = op.conn /\ done.type = op.type
           /\ done.mode = op.mode /\ done.applied = op.applied /\ done.live = op.live /\ done.complete
           /\ done.signature = s2n_pkey_sign(key, op.digest)
           /\ done.digest \in {op.digest, ConsumedDigest}
<1>1. PICK s : s = s2n_async_pkey_sign_perform(op, key) OBVIOUS
<1>2. /\ DOMAIN s = OperationFields /\ s.conn = op.conn /\ s.type = op.type
      /\ s.mode = op.mode /\ s.applied = op.applied /\ s.live = op.live
      /\ s.signature = s2n_pkey_sign(key, op.digest)
      /\ s.digest \in {op.digest, ConsumedDigest}
  BY <1>1 DEF s2n_async_pkey_sign_perform, OperationFields
<1>3. done = [s EXCEPT !.complete = TRUE] BY <1>1 DEF s2n_async_pkey_op_perform
<1> QED BY <1>2, <1>3 DEF OperationFields

LEMMA DecryptPerformed ==
    ASSUME NEW op, DOMAIN op = OperationFields, op.type = "decrypt", NEW key, NEW done,
           done = s2n_async_pkey_op_perform(op, key)
    PROVE  /\ DOMAIN done = OperationFields /\ done.conn = op.conn /\ done.type = op.type
           /\ done.mode = op.mode /\ done.applied = op.applied /\ done.live = op.live /\ done.complete
           /\ done.rsa_failed = (op.encrypted.key # key) /\ done.encrypted = op.encrypted
           /\ done.decrypted = IF op.encrypted.key # key THEN op.decrypted ELSE op.encrypted.plain
<1>1. PICK s : s = s2n_async_pkey_decrypt_perform(op, key) OBVIOUS
<1>2. /\ DOMAIN s = OperationFields /\ s.conn = op.conn /\ s.type = op.type
      /\ s.mode = op.mode /\ s.applied = op.applied /\ s.live = op.live
      /\ s.rsa_failed = (op.encrypted.key # key) /\ s.encrypted = op.encrypted
      /\ s.decrypted = IF op.encrypted.key # key THEN op.decrypted ELSE op.encrypted.plain
  BY <1>1 DEF s2n_async_pkey_decrypt_perform, OperationFields, s2n_pkey_decrypt_fails
<1>3. op.type # "sign" OBVIOUS
<1>4. done = [s EXCEPT !.complete = TRUE] BY <1>1, <1>3 DEF s2n_async_pkey_op_perform
<1> QED BY <1>2, <1>4 DEF OperationFields

LEMMA OpApplied ==
    ASSUME NEW op, DOMAIN op = OperationFields, NEW e, e = s2n_async_pkey_op_apply(op)
    PROVE  /\ DOMAIN e = OperationFields /\ e.conn = op.conn /\ e.type = op.type /\ e.mode = op.mode
           /\ e.applied /\ e.complete = op.complete
<1>1. PICK s : s = [op EXCEPT !.applied = TRUE] OBVIOUS
<1>2. /\ DOMAIN s = OperationFields /\ s.conn = op.conn /\ s.type = op.type /\ s.mode = op.mode
      /\ s.applied = TRUE /\ s.complete = op.complete
  BY <1>1 DEF OperationFields
<1>3. e = s2n_async_pkey_data_free(s) BY <1>1 DEF s2n_async_pkey_op_apply
<1> QED BY <1>2, <1>3 DEF s2n_async_pkey_data_free, OperationFields

LEMMA OpFreed ==
    ASSUME NEW op, DOMAIN op = OperationFields, NEW e, e = s2n_async_pkey_op_free(op)
    PROVE  /\ DOMAIN e = OperationFields /\ e.conn = op.conn /\ e.type = op.type /\ e.mode = op.mode
           /\ ~e.live
<1>1. PICK s : s = IF op.applied THEN op ELSE s2n_async_pkey_data_free(op) OBVIOUS
<1>2. DOMAIN s = OperationFields /\ s.conn = op.conn /\ s.type = op.type /\ s.mode = op.mode
  BY <1>1 DEF s2n_async_pkey_data_free, OperationFields
<1>3. e = [s EXCEPT !.live = FALSE] BY <1>1 DEF s2n_async_pkey_op_free
<1> QED BY <1>2, <1>3 DEF OperationFields

LEMMA WrittenSignature ==
    ASSUME NEW c, DOMAIN c = ConnectionFields, DOMAIN c.io = MessageFields, NEW sig, NEW e,
           e = SignatureWritten(c, sig)
    PROVE  /\ DOMAIN e = ConnectionFields /\ SamePlace(e, c) /\ e.err = c.err /\ SameVerdict(e, c)
           /\ SameExchange(e, c) /\ e.async_state = c.async_state /\ e.rsa_failed = c.rsa_failed
           /\ e.written = c.written + 1
           /\ DOMAIN e.io = MessageFields /\ e.io.sig = sig /\ e.io.type = c.io.type
           /\ e.io.params = c.io.params
<1> QED BY DEF SignatureWritten, ConnectionFields, MessageFields, SamePlace, SameVerdict, SameExchange

(* The signatures that the keys in use make.                               *)
LEMMA MadeSignature ==
    ASSUME NEW p, NEW digest, Digested(plan, p, digest), NEW sig,
           sig = s2n_pkey_sign(UsedKey(p), digest)
    PROVE  /\ Signature(plan, p, sig)
           /\ \A d : s2n_pkey_verify(OwnKey(p), d, sig) => sig.key = Own(plan, p)
<1>1. sig.key = UsedKey(p) /\ sig.digest = digest BY DEF s2n_pkey_sign
<1>2. OwnKey(p) = Own(plan, p) BY DEF OwnKey, Own
<1>3. \A d : s2n_pkey_verify(OwnKey(p), d, sig) => sig.key = OwnKey(p)
  BY DEF s2n_pkey_verify, s2n_pkey_sign
<1> QED BY <1>1, <1>2, <1>3 DEF Signature, UsedKey

LEMMA WaitsHere ==
    ASSUME Inv, NEW p \in Peers, conn[p].step <= Len(FlowOf(plan)), Operates(plan, p, Here(p))
    PROVE  /\ conn[p].async_state \in {"NOT_INVOKED", "INVOKED", "COMPLETE"}
           /\ conn[p].async_state = "NOT_INVOKED" => conn[p].written = 0
           /\ conn[p].async_state = "COMPLETE" => conn[p].written = 1
           /\ Here(p).by = p /\ conn[p].async_state \in {"INVOKED", "COMPLETE"} =>
                /\ DOMAIN conn[p].io = MessageFields /\ conn[p].io.type = Here(p).type
                /\ conn[p].io.type = "server_key" => conn[p].io.params = Parameters(plan, run)
                /\ conn[p].async_state = "COMPLETE" =>
                     Signature(plan, p, conn[p].io.sig) /\ Checked(plan, p, conn[p].io.sig)
<1>1. Waits(plan, run, p, conn[p]) BY DEF Inv, Waiting
<1>2. PICK n \in Nat, s \in Nat : n = Len(FlowOf(plan)) /\ s = conn[p].step
  <2>1. Aligned(plan, run, conn, wire) BY DEF Inv
  <2> QED BY <2>1, AlignedTypes
<1>3. s \in s..n BY <1>2
<1>4. conn[p].written = 1 => conn[p].async_state = "COMPLETE"
  BY <1>1, <1>2, <1>3 DEF Waits, Here
<1>5. conn[p].async_state \in {"NOT_INVOKED", "INVOKED", "COMPLETE"} /\ conn[p].written \in 0..1
  BY <1>1 DEF Waits
<1>6. conn[p].async_state = "COMPLETE" => conn[p].written = 1 BY <1>1 DEF Waits
<1>7. Here(p).by = p /\ conn[p].async_state \in {"INVOKED", "COMPLETE"} =>
        /\ DOMAIN conn[p].io = MessageFields /\ conn[p].io.type = Here(p).type
        /\ conn[p].io.type = "server_key" => conn[p].io.params = Parameters(plan, run)
        /\ conn[p].async_state = "COMPLETE" =>
             Signature(plan, p, conn[p].io.sig) /\ Checked(plan, p, conn[p].io.sig)
  BY <1>1 DEF Waits, Here
<1> QED BY <1>4, <1>5, <1>6, <1>7

LEMMA GuardFacts ==
    ASSUME NEW s, s \in {"NOT_INVOKED", "INVOKED", "COMPLETE"}
    PROVE  /\ S2N_ASYNC_PKEY_GUARD(s) = "proceed" => s = "NOT_INVOKED"
           /\ S2N_ASYNC_PKEY_GUARD(s) = "done" => s = "COMPLETE"
<1> QED BY DEF S2N_ASYNC_PKEY_GUARD

(* The handler goes on with a signature.                                   *)
LEMMA Signing ==
    ASSUME Inv, NEW p \in Peers, NEW m, DOMAIN m = MessageFields, Turn(p, p, m.type),
           m.type \in {"server_key", "cert_verify"}, Wrote(plan, run, p, m.type, m), NewOps,
           NEW c, DOMAIN c = ConnectionFields, SamePlace(c, conn[p]), Emit(p, c, m),
           c.err = conn[p].err, SameVerdict(c, conn[p]), c.peer_key = conn[p].peer_key,
           c.master = conn[p].master, p = "client" => c.shares = conn[p].shares,
           c.rsa_failed = conn[p].rsa_failed, c.written = 1,
           c.async_state \in {"NOT_INVOKED", "COMPLETE"}
    PROVE  Moves
<1>1. Shapes(conn, wire) BY DEF Inv
<1>2. conn[p].step <= Len(Flow) /\ Flow[conn[p].step] = At(p, m.type) /\ conn[p].err = "OK" BY TurnHere
<1>3. /\ Send(plan, conn, wire, conn', wire', p, m) /\ Still
      /\ conn'[p].err = c.err /\ SameVerdict(conn'[p], c) /\ SameKeys(conn'[p], c)
      /\ SameExchange(conn'[p], c)
  BY <1>1, <1>2, EmitFacts
<1>4. SameVerdict(conn'[p], conn[p]) BY <1>3 DEF SameVerdict
<1>5. Signs(p, m) BY <1>2, <1>3, <1>4 DEF Signs, Sends, SameKeys, SameExchange
<1> QED BY <1>5 DEF Moves

(* Where p signs: what it has to hand, and what it wrote before.           *)
SignsAt(p, c, m, digest) ==
    /\ Turn(p, p, m.type) /\ m.type \in {"server_key", "cert_verify"}
    /\ m.type = "server_key" => p = "server" /\ m.params = Parameters(plan, run)
    /\ DOMAIN m = MessageFields /\ Digested(plan, p, digest)
    /\ DOMAIN c = ConnectionFields /\ SamePlace(c, conn[p]) /\ c.err = conn[p].err
    /\ SameVerdict(c, conn[p]) /\ SameKeys(c, conn[p])
    /\ c.peer_key = conn[p].peer_key /\ c.master = conn[p].master
    /\ p = "client" => c.shares = conn[p].shares

LEMMA SignsHere ==
    ASSUME Inv, NEW p \in Peers, NEW c, NEW m, NEW digest, SignsAt(p, c, m, digest)
    PROVE  /\ conn[p].step <= Len(FlowOf(plan)) /\ Operates(plan, p, Here(p))
           /\ Here(p).by = p /\ Here(p).type = m.type
           /\ p = "server" => plan.kex # "rsa"
<1>1. /\ conn[p].step <= Len(Flow) /\ Here(p) = At(p, m.type)
      /\ Here(p).by = p /\ Here(p).type = m.type
  BY TurnHere DEF SignsAt
<1>2. Operates(plan, p, Here(p)) BY <1>1 DEF SignsAt, Operates
<1>3. Aligned(plan, run, conn, wire) BY DEF Inv
<1>4. conn[p].step \in Nat /\ conn[p].step >= 1 /\ Len(FlowOf(plan)) \in Nat BY <1>3, AlignedTypes
<1>5. conn[p].step \in 1..Len(FlowOf(plan)) BY <1>1, <1>4 DEF Flow
<1>6. Here(p) \in Members(plan) /\ Here(p) \in Steps BY <1>5, FlowFacts DEF Here
<1>7. p = "server" => plan.kex # "rsa"
  <2>1. plan.kex = "rsa" => Here(p).type # "server_key" /\ Here(p) # At("server", "cert_verify")
    BY <1>6, MemberFacts
  <2> QED BY <1>1, <2>1 DEF SignsAt
<1> QED BY <1>1, <1>2, <1>7 DEF Flow

(* The signature is made: with the message it goes out.                    *)
LEMMA SignatureMade ==
    ASSUME Inv, NEW p \in Peers, NEW c, NEW m, NEW digest, SignsAt(p, c, m, digest),
           conn[p].async_state = "NOT_INVOKED", NewOps,
           NEW sig, sig = s2n_pkey_sign(UsedKey(p), digest),
           Strict(plan, p) => \E d : s2n_pkey_verify(OwnKey(p), d, sig),
           NEW e, DOMAIN e = ConnectionFields, NEW d, d = SignatureWritten([c EXCEPT !.io = m], sig),
           e \in {d, [d EXCEPT !.async_state = "COMPLETE"]},
           Emit(p, e, [m EXCEPT !.sig = sig])
    PROVE  Moves
<1>1. /\ conn[p].step <= Len(FlowOf(plan)) /\ Operates(plan, p, Here(p))
      /\ Here(p).by = p /\ Here(p).type = m.type
  BY SignsHere
<1>2. conn[p].written = 0 BY <1>1, WaitsHere
<1>3. PICK m2 : m2 = [m EXCEPT !.sig = sig] OBVIOUS
<1>4. DOMAIN m2 = MessageFields /\ m2.type = m.type /\ m2.params = m.params /\ m2.sig = sig
  BY <1>3 DEF SignsAt, MessageFields
<1>5. Signature(plan, p, sig) /\ Checked(plan, p, sig)
  <2>1. /\ Signature(plan, p, sig)
        /\ \A y : s2n_pkey_verify(OwnKey(p), y, sig) => sig.key = Own(plan, p)
    BY MadeSignature DEF SignsAt
  <2> QED BY <2>1 DEF Checked
<1>6. Wrote(plan, run, p, m2.type, m2) BY <1>4, <1>5 DEF SignsAt, Wrote
<1>7. PICK c2 : c2 = [c EXCEPT !.io = m] OBVIOUS
<1>8. /\ DOMAIN c2 = ConnectionFields /\ c2.io = m /\ SamePlace(c2, c) /\ c2.err = c.err
      /\ SameVerdict(c2, c) /\ SameKeys(c2, c) /\ SameExchange(c2, c)
  BY <1>7 DEF SignsAt, ConnectionFields, SamePlace, SameVerdict, SameKeys, SameExchange
<1>9. DOMAIN c2.io = MessageFields /\ d = SignatureWritten(c2, sig) BY <1>7, <1>8 DEF SignsAt
<1>10. /\ DOMAIN d = ConnectionFields /\ SamePlace(d, c2) /\ d.err = c2.err /\ SameVerdict(d, c2)
       /\ SameExchange(d, c2) /\ d.async_state = c2.async_state /\ d.rsa_failed = c2.rsa_failed
       /\ d.written = c2.written + 1
  BY ONLY <1>8, <1>9, WrittenSignature
<1>11. /\ SamePlace(d, conn[p]) /\ d.err = conn[p].err /\ SameVerdict(d, conn[p])
       /\ d.peer_key = conn[p].peer_key /\ d.master = conn[p].master
       /\ p = "client" => d.shares = conn[p].shares
  BY <1>8, <1>10 DEF SignsAt, SamePlace, SameVerdict, SameExchange
<1>12. d.async_state = "NOT_INVOKED" /\ d.rsa_failed = conn[p].rsa_failed /\ d.written = 1
  BY <1>2, <1>8, <1>10 DEF SignsAt, SameKeys
<1>13. /\ SamePlace(e, conn[p]) /\ e.err = conn[p].err /\ SameVerdict(e, conn[p])
       /\ e.peer_key = conn[p].peer_key /\ e.master = conn[p].master
       /\ p = "client" => e.shares = conn[p].shares
       /\ e.rsa_failed = conn[p].rsa_failed /\ e.written = 1
       /\ e.async_state \in {"NOT_INVOKED", "COMPLETE"}
  <2>1. CASE e = d BY <2>1, <1>11, <1>12
  <2>2. CASE e = [d EXCEPT !.async_state = "COMPLETE"]
    BY <2>2, <1>10, <1>11, <1>12 DEF ConnectionFields, SamePlace, SameVerdict
  <2> QED BY <2>1, <2>2
<1>14. Turn(p, p, m2.type) /\ m2.type \in {"server_key", "cert_verify"} /\ Emit(p, e, m2)
  BY <1>3, <1>4 DEF SignsAt
<1> QED BY <1>4, <1>6, <1>13, <1>14, Signing

LEMMA SignWithMoves ==
    ASSUME Inv, NEW p \in Peers, NEW c, NEW m, NEW digest, SignsAt(p, c, m, digest),
           SignWith(p, c, m, digest)
    PROVE  Moves
<1>1. /\ conn[p].step <= Len(FlowOf(plan)) /\ Operates(plan, p, Here(p))
      /\ Here(p).by = p /\ Here(p).type = m.type
      /\ p = "server" => plan.kex # "rsa"
  BY SignsHere
<1>2. /\ conn[p].async_state \in {"NOT_INVOKED", "INVOKED", "COMPLETE"}
      /\ conn[p].async_state = "NOT_INVOKED" => conn[p].written = 0
      /\ conn[p].async_state = "COMPLETE" => conn[p].written = 1
      /\ conn[p].async_state = "COMPLETE" =>
           /\ DOMAIN conn[p].io = MessageFields /\ conn[p].io.type = Here(p).type
           /\ conn[p].io.type = "server_key" => conn[p].io.params = Parameters(plan, run)
           /\ Signature(plan, p, conn[p].io.sig) /\ Checked(plan, p, conn[p].io.sig)
  BY <1>1, WaitsHere
<1>3. m.type \in {"server_key", "cert_verify"} BY DEF SignsAt
<1>4. PICK d, sig : sig = s2n_pkey_sign(UsedKey(p), digest) /\ d = SignatureWritten([c EXCEPT !.io = m], sig)
  OBVIOUS
<1>5. DOMAIN d = ConnectionFields /\ DOMAIN [d EXCEPT !.async_state = "COMPLETE"] = ConnectionFields
  BY <1>4 DEF SignsAt, SignatureWritten, ConnectionFields
<1>6. CASE /\ S2N_ASYNC_PKEY_GUARD(conn[p].async_state) = "proceed" /\ plan.keys[p] = "now"
           /\ \E r \in {s2n_async_pkey_sign_sync(UsedKey(p), OwnKey(p), plan.verify_after_sign, digest)} :
                IF r.ok THEN /\ Emit(p, SignatureWritten([c EXCEPT !.io = m], r.signature),
                                        [m EXCEPT !.sig = r.signature])
                             /\ UNCHANGED ops
                ELSE Abort(p, "VERIFY_SIGNATURE")
  <2>1. PICK r : r = s2n_async_pkey_sign_sync(UsedKey(p), OwnKey(p), plan.verify_after_sign, digest)
    OBVIOUS
  <2>2. r.signature = sig /\ r.ok = (plan.verify_after_sign => s2n_pkey_verify(OwnKey(p), digest, sig))
    BY <2>1, <1>4 DEF s2n_async_pkey_sign_sync, s2n_async_pkey_verify_signature
  <2>3. conn[p].async_state = "NOT_INVOKED" BY <1>2, <1>6, GuardFacts
  <2>4. CASE r.ok
    <3>1. Emit(p, d, [m EXCEPT !.sig = sig]) /\ NewOps BY <1>4, <1>6, <2>1, <2>2, <2>4 DEF NewOps
    <3>2. Strict(plan, p) => s2n_pkey_verify(OwnKey(p), digest, sig)
      BY <1>6, <2>2, <2>4 DEF Strict
    <3> QED BY <1>4, <1>5, <2>3, <3>1, <3>2, SignatureMade
  <2>5. CASE ~r.ok
    <3>1. Abort(p, "VERIFY_SIGNATURE") BY <1>6, <2>1, <2>5
    <3> QED BY <3>1, <1>1, <1>3, Failing
  <2> QED BY <2>4, <2>5
<1>7. ASSUME S2N_ASYNC_PKEY_GUARD(conn[p].async_state) = "proceed", plan.keys[p] # "now",
             NEW op, op = s2n_async_pkey_sign_async(p, plan.mode, plan.verify_after_sign, digest),
             \/ plan.keys[p] = "later" /\ CallbackLater(p, c, m, op)
             \/ plan.keys[p] = "inline" /\ CallbackInline(p, c, m, op)
      PROVE  Moves
  <2>1. /\ DOMAIN op = OperationFields /\ op.conn = p /\ op.type = "sign" /\ op.digest = digest
        /\ op.mode = (IF plan.verify_after_sign THEN "strict" ELSE plan.mode)
        /\ ~op.complete /\ ~op.applied /\ op.live
    BY <1>7, SignAsked
  <2>2. Operation(plan, op)
    BY <1>1, <1>7, <2>1 DEF Operation, SignsAt
  <2>3. conn[p].async_state = "NOT_INVOKED" BY <1>2, <1>7, GuardFacts
  <2>4. CASE CallbackLater(p, c, m, op)
    <3>1. PICK e : e = [c EXCEPT !.async_state = "INVOKED", !.io = m] OBVIOUS
    <3>2. ops' = Append(ops, op) /\ Blocked(p, e) BY <2>4, <3>1 DEF CallbackLater
    <3>3. /\ DOMAIN e = ConnectionFields /\ SamePlace(e, c) /\ e.err = c.err /\ SameVerdict(e, c)
          /\ SameExchange(e, c) /\ e.async_state = "INVOKED" /\ e.io = m /\ e.written = c.written
          /\ e.rsa_failed = c.rsa_failed
      BY <3>1 DEF SignsAt, ConnectionFields, SamePlace, SameVerdict, SameExchange
    <3>4. /\ SamePlace(e, conn[p]) /\ e.err = conn[p].err /\ SameVerdict(e, conn[p])
          /\ e.peer_key = conn[p].peer_key /\ e.master = conn[p].master
          /\ p = "client" => e.shares = conn[p].shares
          /\ e.written = conn[p].written /\ e.rsa_failed = conn[p].rsa_failed
      BY <3>3 DEF SignsAt, SamePlace, SameVerdict, SameExchange, SameKeys
    <3>5. Shapes(conn, wire) BY DEF Inv
    <3>6. Stay(conn, wire, conn', wire', p) /\ conn'[p] = e /\ Still
      BY <3>2, <3>3, <3>4, <3>5, BlockedFacts
    <3>7. NewOps BY <2>2, <3>2 DEF NewOps
    <3>8. /\ DOMAIN e.io = MessageFields /\ e.io.type = Here(p).type
          /\ e.io.type = "server_key" => e.io.params = Parameters(plan, run)
      BY <1>1, <3>3 DEF SignsAt
    <3>9. Asks(p) BY <1>1, <2>3, <3>3, <3>4, <3>6, <3>7, <3>8 DEF Asks, Stays
    <3> QED BY <3>9 DEF Moves
  <2>5. CASE CallbackInline(p, c, m, op)
    <3>1. PICK done : done = s2n_async_pkey_op_perform(op, UsedKey(p)) OBVIOUS
    <3>2. /\ DOMAIN done = OperationFields /\ done.conn = p /\ done.type = "sign"
          /\ done.mode = op.mode /\ ~done.applied /\ done.live /\ done.complete
          /\ done.signature = sig /\ done.digest \in {digest, ConsumedDigest}
      BY <1>4, <2>1, <3>1, SignPerformed
    <3>3. Signature(plan, p, sig) BY <1>4, MadeSignature DEF SignsAt
    <3>4. Operation(plan, done)
      <4>1. Digested(plan, p, digest) BY <1>1 DEF SignsAt
      <4> QED BY <1>1, <1>7, <2>1, <3>2, <3>3, <4>1 DEF Operation
    <3>5. CASE s2n_async_pkey_sign_apply(done, OwnKey(p))
      <4>1. PICK gone : gone = s2n_async_pkey_op_apply(done) OBVIOUS
      <4>2. /\ DOMAIN gone = OperationFields /\ gone.conn = p /\ gone.type = "sign"
            /\ gone.mode = op.mode /\ gone.applied /\ gone.complete
        BY <3>2, <4>1, OpApplied
      <4>3. Operation(plan, gone) BY <1>1, <1>7, <2>1, <4>2 DEF Operation
      <4>4. /\ Emit(p, [d EXCEPT !.async_state = "COMPLETE"], [m EXCEPT !.sig = sig])
            /\ ops' = Append(ops, gone)
        BY <1>4, <2>5, <3>1, <3>2, <3>5, <4>1 DEF CallbackInline
      <4>5. NewOps BY <4>3, <4>4 DEF NewOps
      <4>6. Strict(plan, p) => \E y : s2n_pkey_verify(OwnKey(p), y, sig)
        <5>1. Strict(plan, p) => done.mode = "strict" BY <1>7, <2>1, <3>2 DEF Strict
        <5>2. done.mode = "strict" => s2n_pkey_verify(OwnKey(p), done.digest, sig)
          BY <3>2, <3>5 DEF s2n_async_pkey_sign_apply, s2n_async_pkey_verify_signature
        <5> QED BY <5>1, <5>2
      <4> QED BY <1>4, <1>5, <2>3, <4>4, <4>5, <4>6, SignatureMade
    <3>6. CASE ~s2n_async_pkey_sign_apply(done, OwnKey(p))
      <4>1. PICK e : e = [conn[p] EXCEPT !.err = "ASYNC_CALLBACK_FAILED"] OBVIOUS
      <4>2. Set(p, e) /\ ops' = Append(ops, done) /\ UNCHANGED <<plan, now, run, wire>>
        BY <2>5, <3>1, <3>6, <4>1 DEF CallbackInline
      <4>3. DOMAIN conn[p] = ConnectionFields /\ Shapes(conn, wire) BY DEF Inv, Shapes
      <4>4. /\ DOMAIN e = ConnectionFields /\ SamePlace(e, conn[p]) /\ e.io = conn[p].io
            /\ SameVerdict(e, conn[p]) /\ SameKeys(e, conn[p]) /\ SameExchange(e, conn[p])
        BY <4>1, <4>3 DEF ConnectionFields, SamePlace, SameVerdict, SameKeys, SameExchange
      <4>5. Blocked(p, e) BY <4>2 DEF Blocked
      <4>6. Stay(conn, wire, conn', wire', p) /\ conn'[p] = e /\ Still
        BY <4>3, <4>4, <4>5, BlockedFacts
      <4>7. Excused(p) BY <1>1, <1>3 DEF Excused
      <4>8. NewOps BY <3>4, <4>2 DEF NewOps
      <4>9. Quits(p) BY <4>4, <4>6, <4>7, <4>8 DEF Quits, Stays
      <4> QED BY <4>9 DEF Moves
    <3> QED BY <3>5, <3>6
  <2> QED BY <1>7, <2>4, <2>5
<1>8. CASE /\ S2N_ASYNC_PKEY_GUARD(conn[p].async_state) = "done"
           /\ Emit(p, [conn[p] EXCEPT !.async_state = "NOT_INVOKED"], conn[p].io)
           /\ UNCHANGED ops
  <2>1. conn[p].async_state = "COMPLETE" BY <1>2, <1>8, GuardFacts
  <2>2. PICK e, n : e = [conn[p] EXCEPT !.async_state = "NOT_INVOKED"] /\ n = conn[p].io OBVIOUS
  <2>3. Emit(p, e, n) /\ NewOps BY <1>8, <2>2 DEF NewOps
  <2>4. DOMAIN conn[p] = ConnectionFields BY DEF Inv, Shapes
  <2>5. /\ DOMAIN e = ConnectionFields /\ SamePlace(e, conn[p]) /\ e.err = conn[p].err
        /\ SameVerdict(e, conn[p]) /\ e.peer_key = conn[p].peer_key /\ e.master = conn[p].master
        /\ e.shares = conn[p].shares /\ e.rsa_failed = conn[p].rsa_failed
        /\ e.written = conn[p].written /\ e.async_state = "NOT_INVOKED"
    BY <2>2, <2>4 DEF ConnectionFields, SamePlace, SameVerdict
  <2>6. e.written = 1 BY <1>2, <2>1, <2>5
  <2>7. /\ DOMAIN n = MessageFields /\ n.type = m.type
        /\ n.type = "server_key" => n.params = Parameters(plan, run)
        /\ Signature(plan, p, n.sig) /\ Checked(plan, p, n.sig)
    BY <1>1, <1>2, <2>1, <2>2
  <2>8. Wrote(plan, run, p, n.type, n) BY <1>3, <2>7 DEF Wrote
  <2>9. Turn(p, p, n.type) BY <2>7 DEF SignsAt
  <2> QED BY <1>3, <2>3, <2>5, <2>6, <2>7, <2>8, <2>9, Signing
<1> QED BY <1>6, <1>7, <1>8 DEF SignWith

LEMMA SendServerKeyMoves ==
    ASSUME Inv, SendServerKey
    PROVE  Moves
<1>0. "server" \in Peers BY DEF Peers
<1>1. PICK params : params = s2n_kex_server_key_send(plan.kex, run, plan.kems) OBVIOUS
<1>2. PICK c, m, digest :
        /\ c = [conn["server"] EXCEPT !.shares = params]
        /\ m = [Typed("server_key") EXCEPT !.params = params]
        /\ digest = ServerKeyDigest(run, run, params)
  OBVIOUS
<1>3. Turn("server", "server", "server_key") /\ SignWith("server", c, m, digest)
  BY <1>1, <1>2 DEF SendServerKey
<1>4. DOMAIN m = MessageFields /\ m.type = "server_key" /\ m.params = params
  BY <1>2, TypedFacts DEF MessageFields
<1>5. params = Parameters(plan, run) /\ run \in 0..1 BY <1>1 DEF Parameters, Inv
<1>6. Digested(plan, "server", digest) BY <1>2, <1>5 DEF Digested
<1>7. DOMAIN conn["server"] = ConnectionFields BY <1>0 DEF Inv, Shapes
<1>8. /\ DOMAIN c = ConnectionFields /\ SamePlace(c, conn["server"]) /\ c.err = conn["server"].err
      /\ SameVerdict(c, conn["server"]) /\ SameKeys(c, conn["server"])
      /\ c.peer_key = conn["server"].peer_key /\ c.master = conn["server"].master
  BY <1>2, <1>7 DEF ConnectionFields, SamePlace, SameVerdict, SameKeys
<1>9. SignsAt("server", c, m, digest) BY <1>3, <1>4, <1>5, <1>6, <1>8 DEF SignsAt
<1> QED BY <1>0, <1>3, <1>9, SignWithMoves

LEMMA SendCertVerifyMoves ==
    ASSUME Inv, NEW p \in Peers, SendCertVerify(p)
    PROVE  Moves
<1>1. PICK c, m, digest :
        /\ c = conn[p] /\ m = Typed("cert_verify")
        /\ digest = CertVerifyDigest(p, conn[p].transcript)
  OBVIOUS
<1>2. Turn(p, p, "cert_verify") /\ SignWith(p, c, m, digest) BY <1>1 DEF SendCertVerify
<1>3. DOMAIN m = MessageFields /\ m.type = "cert_verify" BY <1>1, TypedFacts
<1>4. conn[p].step <= Len(Flow) /\ Here(p) = At(p, "cert_verify") BY <1>2, TurnHere
<1>5. p = "server" => plan.kex = "tls13"
  <2>1. Aligned(plan, run, conn, wire) BY DEF Inv
  <2>2. conn[p].step \in Nat /\ conn[p].step >= 1 /\ Len(FlowOf(plan)) \in Nat BY <2>1, AlignedTypes
  <2>3. conn[p].step \in 1..Len(FlowOf(plan)) BY <1>4, <2>2 DEF Flow
  <2>4. Here(p) \in Members(plan) /\ Here(p) \in Steps BY <2>3, FlowFacts DEF Here
  <2>5. plan.kex # "tls13" => Here(p) # At("server", "cert_verify") BY <2>4, MemberFacts
  <2> QED BY <1>4, <2>5
<1>6. Digested(plan, p, digest) BY <1>5 DEF Digested
<1>7. DOMAIN c = ConnectionFields BY <1>1 DEF Inv, Shapes
<1>8. SamePlace(c, c) /\ SameVerdict(c, c) /\ SameKeys(c, c) BY SameSelf DEF SamePlace
<1>9. SignsAt(p, c, m, digest) BY <1>1, <1>2, <1>3, <1>6, <1>7, <1>8 DEF SignsAt
<1> QED BY <1>2, <1>9, SignWithMoves

----------------------------------------------------------------------------
(* The RSA premaster secret.                                               *)

LEMMA CalculatedFacts ==
    ASSUME NEW c, DOMAIN c = ConnectionFields, NEW e, e = RsaKeysCalculated(c)
    PROVE  /\ DOMAIN e = ConnectionFields /\ SamePlace(e, c) /\ e.err = c.err /\ SameVerdict(e, c)
           /\ SameKeys(e, c) /\ e.peer_key = c.peer_key
<1> QED BY DEF RsaKeysCalculated, ConnectionFields, SamePlace, SameVerdict, SameKeys

LEMMA DecryptedFacts ==
    ASSUME NEW c, DOMAIN c = ConnectionFields, NEW failed, NEW secret, NEW e,
           e = Decrypted(c, failed, secret)
    PROVE  /\ DOMAIN e = ConnectionFields /\ SamePlace(e, c) /\ e.err = c.err /\ SameVerdict(e, c)
           /\ e.peer_key = c.peer_key /\ e.shares = c.shares /\ e.master = c.master /\ e.io = c.io
           /\ e.async_state = c.async_state /\ e.written = c.written + 1
           /\ failed => e.rsa_failed
<1>1. PICK r : r = s2n_rsa_client_key_recv_complete(failed, secret, ClientHelloVersion) OBVIOUS
<1>2. r.rsa_failed = (failed \/ secret.version # ClientHelloVersion)
  BY <1>1 DEF s2n_rsa_client_key_recv_complete
<1>3. e = [c EXCEPT !.premaster = r.premaster, !.rsa_failed = r.rsa_failed, !.written = c.written + 1]
  BY <1>1 DEF Decrypted, ConnectionFields
<1> HIDE DEF ConnectionFields
<1>4. /\ DOMAIN e = ConnectionFields /\ e.err = c.err /\ e.peer_key = c.peer_key
      /\ e.shares = c.shares /\ e.master = c.master /\ e.io = c.io
      /\ e.async_state = c.async_state /\ e.written = c.written + 1
      /\ e.rsa_failed = r.rsa_failed
  BY <1>3 DEF ConnectionFields
<1>5. SamePlace(e, c) /\ SameVerdict(e, c) BY <1>3 DEF ConnectionFields, SamePlace, SameVerdict
<1> QED BY <1>2, <1>4, <1>5

(* The ciphertext is one that the wrong key does not decrypt.              *)
LEMMA WrongKey ==
    ASSUME NEW e, plan \in Plans, Cipher(plan, e), plan.uses["server"] = "wrong"
    PROVE  e.key # UsedKey("server")
<1>1. "server" \in Peers /\ plan.chain["server"] # <<>> BY PlansAssumption DEF Peers
<1>2. Own(plan, "server") \notin NobodysKeys BY <1>1, OwnFacts
<1> QED BY <1>2 DEF Cipher, UsedKey, NobodysKeys

LEMMA RecvRsaClientKeyMoves ==
    ASSUME Inv, RecvRsaClientKey
    PROVE  Moves
<1>0. "server" \in Peers /\ Other("server") = "client" /\ plan \in Plans BY DEF Peers, Other, Inv
<1>1. Arrived("server", Other("server"), "client_key") /\ plan.kex = "rsa"
  BY <1>0 DEF RecvRsaClientKey
<1>2. PICK c, h, random :
        /\ c = conn["server"] /\ h = Head(wire["server"])
        /\ random = RandomPremaster(ClientHelloVersion, run)
  OBVIOUS
<1>3. /\ c.step <= Len(FlowOf(plan)) /\ Here("server") = At("client", "client_key")
      /\ Here("server").by = "client" /\ DOMAIN c = ConnectionFields
      /\ \E m : /\ DOMAIN m = MessageFields /\ m.type = "client_key"
                /\ Wrote(plan, run, "client", "client_key", m)
                /\ h = Altered(plan.tamper, m)
  BY <1>0, <1>1, <1>2, ArrivedFacts DEF Flow
<1>4. Cipher(plan, h.encrypted) /\ h.encrypted.plain.size = S2N_TLS_SECRET_LEN
  <2>1. PICK m : /\ DOMAIN m = MessageFields /\ m.type = "client_key"
                 /\ Wrote(plan, run, "client", "client_key", m)
                 /\ h = Altered(plan.tamper, m)
    BY <1>3
  <2>2. m.encrypted = Sealed(plan, run) BY <1>1, <2>1 DEF Wrote
  <2>3. Cipher(plan, h.encrypted) BY <1>0, <2>1, <2>2, AlteredCipher
  <2> QED BY <2>3 DEF Cipher
<1>5. random.size = S2N_TLS_SECRET_LEN BY <1>2 DEF RandomPremaster
<1>6. Operates(plan, "server", Here("server")) BY <1>1, <1>3 DEF Operates
<1>7. /\ c.async_state \in {"NOT_INVOKED", "INVOKED", "COMPLETE"}
      /\ c.async_state = "NOT_INVOKED" => c.written = 0
      /\ c.async_state = "COMPLETE" => c.written = 1
  BY <1>0, <1>2, <1>3, <1>6, WaitsHere
<1>8. plan.uses["server"] = "wrong" => h.encrypted.key # UsedKey("server")
  BY <1>0, <1>4, WrongKey
<1>9. ASSUME NEW e, DOMAIN e = ConnectionFields, SamePlace(e, c), e.err = c.err, SameVerdict(e, c),
             e.peer_key = c.peer_key, e.written = 1, e.async_state \in {"NOT_INVOKED", "COMPLETE"},
             plan.uses["server"] = "wrong" => e.rsa_failed, NewOps, Consume("server", e)
      PROVE  Moves
  <2>1. /\ Takes("server")
        /\ conn'["server"].err = e.err /\ SameVerdict(conn'["server"], e)
        /\ SameKeys(conn'["server"], e) /\ SameExchange(conn'["server"], e)
    BY <1>0, <1>1, <1>2, <1>9, PlainTake
  <2>2. SameVerdict(conn'["server"], conn["server"]) BY <1>2, <1>9, <2>1 DEF SameVerdict
  <2>3. Decrypts
    BY <1>1, <1>2, <1>3, <1>9, <2>1, <2>2 DEF Decrypts, SameKeys, SameExchange
  <2> QED BY <2>3 DEF Moves
<1>10. ASSUME NEW failed, NEW secret, failed = (h.encrypted.key # UsedKey("server")),
              secret \in {random, h.encrypted.plain}
       PROVE  DecryptionTaken(failed, secret)
  BY <1>4, <1>5, <1>10 DEF DecryptionTaken, s2n_rsa_client_key_recv_complete
<1>11. ASSUME NEW failed, NEW secret, failed = (h.encrypted.key # UsedKey("server")),
              c.async_state = "NOT_INVOKED",
              NEW d, d = RsaKeysCalculated(Decrypted(c, failed, secret))
       PROVE  /\ DOMAIN d = ConnectionFields /\ SamePlace(d, c) /\ d.err = c.err /\ SameVerdict(d, c)
              /\ d.peer_key = c.peer_key /\ d.written = 1 /\ d.async_state = "NOT_INVOKED"
              /\ plan.uses["server"] = "wrong" => d.rsa_failed
  <2>1. PICK e : e = Decrypted(c, failed, secret) OBVIOUS
  <2>2. /\ DOMAIN e = ConnectionFields /\ SamePlace(e, c) /\ e.err = c.err /\ SameVerdict(e, c)
        /\ e.peer_key = c.peer_key
        /\ e.async_state = c.async_state /\ e.written = c.written + 1
        /\ failed => e.rsa_failed
    BY <1>3, <2>1, DecryptedFacts
  <2>3. d = RsaKeysCalculated(e) BY <1>11, <2>1
  <2>4. /\ DOMAIN d = ConnectionFields /\ SamePlace(d, e) /\ d.err = e.err /\ SameVerdict(d, e)
        /\ SameKeys(d, e) /\ d.peer_key = e.peer_key
    BY ONLY <2>2, <2>3, CalculatedFacts
  <2>5. d.written = 1 BY <1>7, <1>11, <2>2, <2>4 DEF SameKeys
  <2>6. plan.uses["server"] = "wrong" => d.rsa_failed BY <1>8, <1>11, <2>2, <2>4 DEF SameKeys
  <2> QED BY <1>11, <2>2, <2>4, <2>5, <2>6 DEF SamePlace, SameVerdict, SameKeys
<1>12. CASE /\ S2N_ASYNC_PKEY_GUARD(c.async_state) = "proceed" /\ plan.keys["server"] = "now"
            /\ \E r \in {s2n_async_pkey_decrypt_sync(UsedKey("server"), h.encrypted, random)} :
                 IF DecryptionTaken(r.rsa_failed, r.decrypted)
                 THEN Consume("server", RsaKeysCalculated(Decrypted(c, r.rsa_failed, r.decrypted)))
                 ELSE Blocked("server", [c EXCEPT !.err = "SIZE_MISMATCH"])
            /\ UNCHANGED ops
  <2>1. c.async_state = "NOT_INVOKED" BY <1>7, <1>12, GuardFacts
  <2>2. PICK r : r = s2n_async_pkey_decrypt_sync(UsedKey("server"), h.encrypted, random) OBVIOUS
  <2>3. /\ r.rsa_failed = (h.encrypted.key # UsedKey("server"))
        /\ r.decrypted \in {random, h.encrypted.plain}
    BY <2>2 DEF s2n_async_pkey_decrypt_sync, s2n_pkey_decrypt_fails
  <2>4. PICK failed, secret : failed = r.rsa_failed /\ secret = r.decrypted OBVIOUS
  <2>5. DecryptionTaken(failed, secret) BY <1>10, <2>3, <2>4
  <2>6. PICK d : d = RsaKeysCalculated(Decrypted(c, failed, secret)) OBVIOUS
  <2>7. Consume("server", d) BY <1>12, <2>2, <2>4, <2>5, <2>6
  <2>8. NewOps BY <1>12 DEF NewOps
  <2>9. /\ DOMAIN d = ConnectionFields /\ SamePlace(d, c) /\ d.err = c.err /\ SameVerdict(d, c)
        /\ d.peer_key = c.peer_key /\ d.written = 1 /\ d.async_state = "NOT_INVOKED"
        /\ plan.uses["server"] = "wrong" => d.rsa_failed
    BY <1>11, <2>1, <2>3, <2>4, <2>6
  <2> QED BY <1>9, <2>7, <2>8, <2>9
<1>13. ASSUME S2N_ASYNC_PKEY_GUARD(c.async_state) = "proceed", plan.keys["server"] # "now",
              NEW op, op = s2n_async_pkey_decrypt_async("server", plan.mode, h.encrypted, random)
       PROVE  /\ c.async_state = "NOT_INVOKED" /\ Operation(plan, op)
              /\ DOMAIN op = OperationFields /\ op.conn = "server" /\ op.type = "decrypt"
              /\ op.encrypted = h.encrypted /\ op.decrypted = random
              /\ ~op.complete /\ ~op.applied /\ op.live
  <2>1. /\ DOMAIN op = OperationFields /\ op.conn = "server" /\ op.type = "decrypt"
        /\ op.encrypted = h.encrypted /\ op.decrypted = random
        /\ ~op.complete /\ ~op.applied /\ op.live
    BY <1>13, DecryptAsked
  <2>2. Operation(plan, op) BY <1>0, <1>1, <1>4, <1>5, <1>13, <2>1 DEF Operation
  <2>3. c.async_state = "NOT_INVOKED" BY <1>7, <1>13, GuardFacts
  <2> QED BY <2>1, <2>2, <2>3
<1>14. ASSUME S2N_ASYNC_PKEY_GUARD(c.async_state) = "proceed", plan.keys["server"] # "now",
              NEW op, op = s2n_async_pkey_decrypt_async("server", plan.mode, h.encrypted, random),
              CallbackLater("server", c, NoMessage, op)
       PROVE  Moves
  <2>1. c.async_state = "NOT_INVOKED" /\ Operation(plan, op) BY <1>13, <1>14
  <2>2. PICK e : e = [c EXCEPT !.async_state = "INVOKED", !.io = NoMessage] OBVIOUS
  <2>3. ops' = Append(ops, op) /\ Blocked("server", e) BY <1>14, <2>2 DEF CallbackLater
  <2>4. /\ DOMAIN e = ConnectionFields /\ SamePlace(e, c) /\ e.err = c.err /\ SameVerdict(e, c)
        /\ e.peer_key = c.peer_key /\ e.master = c.master /\ e.async_state = "INVOKED"
        /\ e.written = c.written /\ e.rsa_failed = c.rsa_failed
    BY <1>3, <2>2 DEF ConnectionFields, SamePlace, SameVerdict
  <2>5. Shapes(conn, wire) BY DEF Inv
  <2>6. Stay(conn, wire, conn', wire', "server") /\ conn'["server"] = e /\ Still
    BY <1>0, <1>2, <2>3, <2>4, <2>5, BlockedFacts
  <2>7. NewOps BY <2>1, <2>3 DEF NewOps
  <2>8. Asks("server")
    BY <1>2, <1>3, <1>6, <2>1, <2>4, <2>6, <2>7 DEF Asks, Stays
  <2> QED BY <1>0, <2>8 DEF Moves
<1>15. ASSUME S2N_ASYNC_PKEY_GUARD(c.async_state) = "proceed", plan.keys["server"] # "now",
              NEW op, op = s2n_async_pkey_decrypt_async("server", plan.mode, h.encrypted, random),
              NEW done, done = s2n_async_pkey_op_perform(op, UsedKey("server")),
              IF DecryptionTaken(done.rsa_failed, done.decrypted)
              THEN Consume("server", [RsaKeysCalculated(Decrypted(c, done.rsa_failed, done.decrypted))
                                      EXCEPT !.async_state = "COMPLETE"])
              ELSE Blocked("server", [c EXCEPT !.err = "ASYNC_CALLBACK_FAILED"]),
              ops' = Append(ops, IF DecryptionTaken(done.rsa_failed, done.decrypted)
                                 THEN s2n_async_pkey_op_apply(done) ELSE done)
       PROVE  Moves
  <2>1. /\ c.async_state = "NOT_INVOKED"
        /\ DOMAIN op = OperationFields /\ op.conn = "server" /\ op.type = "decrypt"
        /\ op.encrypted = h.encrypted /\ op.decrypted = random
        /\ ~op.complete /\ ~op.applied /\ op.live
    BY <1>13, <1>15
  <2>2. /\ DOMAIN done = OperationFields /\ done.conn = "server" /\ done.type = "decrypt"
        /\ done.rsa_failed = (h.encrypted.key # UsedKey("server"))
        /\ done.decrypted \in {random, h.encrypted.plain}
    BY <1>15, <2>1, DecryptPerformed
  <2>3. PICK failed, secret : failed = done.rsa_failed /\ secret = done.decrypted OBVIOUS
  <2>4. DecryptionTaken(failed, secret) BY <1>10, <2>2, <2>3
  <2>5. PICK gone : gone = s2n_async_pkey_op_apply(done) OBVIOUS
  <2>6. /\ DOMAIN gone = OperationFields /\ gone.conn = "server" /\ gone.type = "decrypt"
        /\ gone.applied /\ gone.complete = done.complete
    BY <2>2, <2>5, OpApplied
  <2>7. gone.complete BY <1>15, <2>1, <2>6, DecryptPerformed
  <2>8. Operation(plan, gone) BY <1>0, <1>1, <1>15, <2>6, <2>7 DEF Operation
  <2>9. NewOps BY <1>15, <2>3, <2>4, <2>5, <2>8 DEF NewOps
  <2>10. PICK d : d = RsaKeysCalculated(Decrypted(c, failed, secret)) OBVIOUS
  <2>11. PICK e : e = [d EXCEPT !.async_state = "COMPLETE"] OBVIOUS
  <2>12. Consume("server", e) BY <1>15, <2>3, <2>4, <2>10, <2>11
  <2>13. /\ DOMAIN d = ConnectionFields /\ SamePlace(d, c) /\ d.err = c.err /\ SameVerdict(d, c)
         /\ d.peer_key = c.peer_key /\ d.written = 1 /\ d.async_state = "NOT_INVOKED"
         /\ plan.uses["server"] = "wrong" => d.rsa_failed
    BY <1>11, <2>1, <2>2, <2>3, <2>10
  <2>14. /\ DOMAIN e = ConnectionFields /\ SamePlace(e, c) /\ e.err = c.err /\ SameVerdict(e, c)
         /\ e.peer_key = c.peer_key /\ e.written = 1 /\ e.async_state = "COMPLETE"
         /\ plan.uses["server"] = "wrong" => e.rsa_failed
    BY <2>11, <2>13 DEF ConnectionFields, SamePlace, SameVerdict
  <2> QED BY <1>9, <2>9, <2>12, <2>14
<1>16. CASE /\ S2N_ASYNC_PKEY_GUARD(c.async_state) = "done"
            /\ Consume("server", RsaKeysCalculated([c EXCEPT !.async_state = "NOT_INVOKED"]))
            /\ UNCHANGED ops
  <2>1. c.async_state = "COMPLETE" BY <1>7, <1>16, GuardFacts
  <2>2. PICK d : d = [c EXCEPT !.async_state = "NOT_INVOKED"] OBVIOUS
  <2>3. /\ DOMAIN d = ConnectionFields /\ SamePlace(d, c) /\ d.err = c.err /\ SameVerdict(d, c)
        /\ d.peer_key = c.peer_key /\ d.written = c.written /\ d.async_state = "NOT_INVOKED"
        /\ d.rsa_failed = c.rsa_failed
    BY <1>3, <2>2 DEF ConnectionFields, SamePlace, SameVerdict
  <2>4. PICK e : e = RsaKeysCalculated(d) OBVIOUS
  <2>5. /\ DOMAIN e = ConnectionFields /\ SamePlace(e, d) /\ e.err = d.err /\ SameVerdict(e, d)
        /\ SameKeys(e, d) /\ e.peer_key = d.peer_key
    BY <2>3, <2>4, CalculatedFacts
  <2>6. Consume("server", e) /\ NewOps BY <1>16, <2>2, <2>4 DEF NewOps
  <2>7. plan.uses["server"] = "wrong" /\ c.written = 1 => c.rsa_failed
    BY <1>1, <1>2 DEF Inv, Silent
  <2>8. /\ SamePlace(e, c) /\ SameVerdict(e, c) /\ e.err = c.err /\ e.peer_key = c.peer_key
        /\ e.written = 1 /\ e.async_state = "NOT_INVOKED"
        /\ plan.uses["server"] = "wrong" => e.rsa_failed
    BY <1>7, <2>1, <2>3, <2>5, <2>7 DEF SamePlace, SameVerdict, SameKeys
  <2> QED BY <1>9, <2>5, <2>6, <2>8
<1>17. CASE /\ S2N_ASYNC_PKEY_GUARD(c.async_state) = "proceed"
            /\ plan.keys["server"] # "now"
            /\ \E op \in {s2n_async_pkey_decrypt_async("server", plan.mode, h.encrypted, random)} :
                \/ /\ plan.keys["server"] = "later"
                   /\ CallbackLater("server", c, NoMessage, op)
                \/ /\ plan.keys["server"] = "inline"
                   /\ \E done \in {s2n_async_pkey_op_perform(op, UsedKey("server"))} :
                        /\ IF DecryptionTaken(done.rsa_failed, done.decrypted)
                           THEN Consume("server", [RsaKeysCalculated(
                                  Decrypted(c, done.rsa_failed, done.decrypted))
                                                   EXCEPT !.async_state = "COMPLETE"])
                           ELSE Blocked("server", [c EXCEPT !.err = "ASYNC_CALLBACK_FAILED"])
                        /\ ops' = Append(ops,
                             IF DecryptionTaken(done.rsa_failed, done.decrypted)
                             THEN s2n_async_pkey_op_apply(done) ELSE done)
  <2>1. PICK op : op = s2n_async_pkey_decrypt_async("server", plan.mode, h.encrypted, random) OBVIOUS
  <2>2. CASE CallbackLater("server", c, NoMessage, op) BY <1>14, <1>17, <2>1, <2>2
  <2>3. CASE ~CallbackLater("server", c, NoMessage, op)
    <3>1. PICK done : done = s2n_async_pkey_op_perform(op, UsedKey("server")) OBVIOUS
    <3>2. /\ IF DecryptionTaken(done.rsa_failed, done.decrypted)
             THEN Consume("server", [RsaKeysCalculated(Decrypted(c, done.rsa_failed, done.decrypted))
                                     EXCEPT !.async_state = "COMPLETE"])
             ELSE Blocked("server", [c EXCEPT !.err = "ASYNC_CALLBACK_FAILED"])
          /\ ops' = Append(ops, IF DecryptionTaken(done.rsa_failed, done.decrypted)
                                THEN s2n_async_pkey_op_apply(done) ELSE done)
      BY <1>17, <2>1, <2>3, <3>1
    <3> QED BY <1>15, <1>17, <2>1, <3>1, <3>2
  <2> QED BY <2>2, <2>3
<1> QED BY <1>2, <1>12, <1>16, <1>17 DEF RecvRsaClientKey

----------------------------------------------------------------------------
(* The validator.                                                          *)

LEMMA StoredFacts ==
    ASSUME NEW p, NEW c, DOMAIN c = ConnectionFields, NEW e, e = s2n_client_cert_chain_store(p, c)
    PROVE  /\ DOMAIN e = ConnectionFields /\ SamePlace(e, c) /\ SameKeys(e, c) /\ SameExchange(e, c)
           /\ e.err = c.err /\ e.io = c.io /\ e.v = c.v /\ e.seen = c.seen /\ e.took = c.took
           /\ e.lookups = c.lookups /\ e.judged = c.judged
           /\ e.client_cert_chain = IF p = "server" /\ c.client_cert_chain = <<>>
                                    THEN Head(wire[p]).chain ELSE c.client_cert_chain
<1>0. PICK h : h = Head(wire[p]) OBVIOUS
<1>1. e = IF p = "server" /\ c.client_cert_chain = <<>>
          THEN [c EXCEPT !.client_cert_chain = h.chain] ELSE c
  BY <1>0 DEF s2n_client_cert_chain_store
<1> QED BY <1>0, <1>1 DEF ConnectionFields, SamePlace, SameKeys, SameExchange

LEMMA CountedFacts ==
    ASSUME NEW c, DOMAIN c = ConnectionFields, NEW conf, NEW r, NEW e, e = Counted(c, conf, r)
    PROVE  /\ DOMAIN e = ConnectionFields /\ SamePlace(e, c) /\ SameKeys(e, c) /\ SameExchange(e, c)
           /\ e.err = c.err /\ e.io = c.io /\ e.took = c.took
           /\ e.client_cert_chain = c.client_cert_chain /\ e.v = r.v
           /\ e.seen = (IF c.seen = -1 THEN now ELSE c.seen)
           /\ e.lookups = (IF c.v.state = "INIT" /\ r.v.lookups # <<>> THEN c.lookups + 1 ELSE c.lookups)
           /\ e.judged = (IF /\ conf.cb \notin {"none", "cancel"}
                             /\ ~c.v.cb_invoked
                             /\ r.v.state # "AWAITING_CRL_CALLBACK"
                             /\ r.err \in {"OK", "ASYNC_BLOCKED", "CERT_REJECTED"}
                          THEN c.judged + 1 ELSE c.judged)
<1> DEFINE counts == /\ conf.cb \notin {"none", "cancel"}
                     /\ ~c.v.cb_invoked
                     /\ r.v.state # "AWAITING_CRL_CALLBACK"
                     /\ r.err \in {"OK", "ASYNC_BLOCKED", "CERT_REJECTED"}
<1>0. PICK a, l, j :
        /\ a = IF c.seen = -1 THEN now ELSE c.seen
        /\ l = IF c.v.state = "INIT" /\ r.v.lookups # <<>> THEN c.lookups + 1 ELSE c.lookups
        /\ j = IF counts THEN c.judged + 1 ELSE c.judged
  OBVIOUS
<1>1. e = [c EXCEPT !.v = r.v, !.seen = a, !.lookups = l, !.judged = j]
  BY <1>0 DEF Counted, ConnectionFields
<1> HIDE DEF counts
<1>2. /\ DOMAIN e = ConnectionFields
      /\ e.err = c.err /\ e.io = c.io /\ e.took = c.took
      /\ e.client_cert_chain = c.client_cert_chain /\ e.v = r.v
      /\ e.seen = a /\ e.lookups = l /\ e.judged = j
  BY <1>1 DEF ConnectionFields
<1>3. SamePlace(e, c) /\ SameKeys(e, c) /\ SameExchange(e, c)
  BY <1>1 DEF ConnectionFields, SamePlace, SameKeys, SameExchange
<1> QED BY <1>0, <1>2, <1>3 DEF counts

(* What a call of the validator leaves.                                    *)
Ruled(p, c) ==
    /\ Settings(c.v, plan.conf[p])
    /\ Progress(c.v, plan.conf[p], plan.chain[Other(p)], c.seen, now)
    /\ Called(c.v, plan.conf[p], StapleFor(plan, p))
    /\ c.seen \in 0..now
    /\ c.lookups \in 0..1 /\ c.judged \in 0..1
    /\ c.v.state = "INIT" => c.lookups = 0
    /\ ~c.v.cb_invoked => c.judged = 0
    /\ c.v.cb_invoked \in BOOLEAN /\ c.v.finished \in BOOLEAN
    /\ p = "client" => Stapled(c.v, plan.staple, c.seen, now)
    /\ p = "server" => c.client_cert_chain = plan.chain["client"] /\ c.v.state # "OCSP_VALIDATED"

LEMMA RuledJudges ==
    ASSUME Inv, NEW p \in Peers, conn[p].step <= Len(FlowOf(plan)), Here(p) = At(Other(p), "cert"),
           NEW c, Ruled(p, c), NEW e, e.v = c.v, e.seen = c.seen, e.lookups = c.lookups,
           e.judged = c.judged, e.client_cert_chain = c.client_cert_chain,
           \/ e.took = -1 /\ e.step = conn[p].step
           \/ /\ e.took = now /\ e.step = conn[p].step + 1
              /\ Accepted(c.v, plan.conf[p], StapleFor(plan, p))
    PROVE  Judges(plan, p, e, now)
<1>1. Aligned(plan, run, conn, wire) /\ now \in Nat BY DEF Inv
<1>2. PICK n \in Nat, s \in Nat : n = Len(FlowOf(plan)) /\ s = conn[p].step /\ s >= 1
  BY <1>1, AlignedTypes
<1>3. s \in 1..n /\ FlowOf(plan)[s] = At(Other(p), "cert") BY <1>2 DEF Here
<1>4. ASSUME NEW k \in 1..n, FlowOf(plan)[k] = At(Other(p), "cert") PROVE k = s
  BY <1>2, <1>3, <1>4, Once
<1>5. ASSUME NEW k \in 1..n, k < s, p = "client" PROVE FlowOf(plan)[k] # At("server", "status")
  <2>1. Place(plan, FlowOf(plan)[k]) < Place(plan, FlowOf(plan)[s]) BY <1>2, <1>3, <1>5, FlowFacts
  <2>2. Other(p) = "server" BY <1>5 DEF Other
  <2>3. Place(plan, At("server", "cert")) = 1 /\ Place(plan, At("server", "status")) = 2
    BY AtFacts DEF Place
  <2> QED BY <1>3, <2>1, <2>2, <2>3
<1>6. ASSUME NEW k \in e.step..n, FlowOf(plan)[k] = At(Other(p), "cert") PROVE e.took = -1
  <2>1. k \in 1..n BY <1>2, <1>6
  <2>2. k = s BY <1>4, <1>6, <2>1
  <2> QED BY <1>2, <1>6, <2>2
<1>7. ASSUME NEW k \in 1..(e.step - 1)
      PROVE  /\ FlowOf(plan)[k] = At("server", "cert") /\ p = "client" => e.took # -1
             /\ FlowOf(plan)[k] = At("server", "status") /\ p = "client" /\ plan.staple.type = "ocsp" =>
                  e.v.state = "OCSP_VALIDATED"
  <2>1. k \in 1..n /\ k <= s BY <1>2, <1>7
  <2>2. p = "client" => Other(p) = "server" BY DEF Other
  <2>3. CASE k < s
    <3>1. FlowOf(plan)[k] # At(Other(p), "cert") BY <1>2, <1>4, <2>1, <2>3
    <3> QED BY <1>5, <2>1, <2>2, <2>3, <3>1
  <2>4. CASE k = s
    <3>1. e.took = now BY <1>2, <1>7, <2>4
    <3>2. FlowOf(plan)[k] # At("server", "status") BY <1>3, <2>4, AtFacts
    <3> QED BY <1>1, <3>1, <3>2
  <2> QED BY <1>2, <2>1, <2>3, <2>4
<1>8. End(e, now) = now /\ e.took \in -1..now BY <1>1 DEF End
<1>9. e.seen \in 0..now /\ e.seen \in -1..now /\ e.seen # -1 BY <1>1 DEF Ruled
<1>10. Stapled(c.v, plan.staple, c.seen, now) => Stapled(e.v, plan.staple, e.seen, now) OBVIOUS
<1>11. /\ Settings(e.v, plan.conf[p])
       /\ Progress(e.v, plan.conf[p], plan.chain[Other(p)], e.seen, End(e, now))
       /\ Called(e.v, plan.conf[p], StapleFor(plan, p))
       /\ e.lookups \in 0..1 /\ e.judged \in 0..1
       /\ e.v.state = "INIT" => e.lookups = 0
       /\ ~e.v.cb_invoked => e.judged = 0
       /\ e.v.cb_invoked \in BOOLEAN /\ e.v.finished \in BOOLEAN
       /\ p = "client" => Stapled(e.v, plan.staple, e.seen, now)
       /\ p = "server" => e.client_cert_chain = plan.chain["client"] /\ e.v.state # "OCSP_VALIDATED"
  BY <1>8, <1>10 DEF Ruled
<1>12. e.took # -1 => e.seen <= e.took /\ Accepted(e.v, plan.conf[p], StapleFor(plan, p))
  BY <1>1, <1>9
<1> QED BY <1>2, <1>6, <1>7, <1>8, <1>9, <1>11, <1>12 DEF Judges

(* The settings that the validator is called with.                         *)
LEMMA PlanSettings ==
    ASSUME NEW x \in Plans, NEW p \in Peers, NEW a \in Int, NEW b \in Int, a <= b,
           x.chain[Other(p)] # <<>>
    PROVE  /\ Setting(x.conf[p], x.chain[Other(p)], a, b)
           /\ StapleFor(x, p).from \in Int /\ StapleFor(x, p).to \in Int
           /\ x.conf[p].tls13 = (x.kex = "tls13")
<1>1. Configured(x.conf[p]) /\ x.conf[p].tls13 = (x.kex = "tls13") BY PlansAssumption DEF Configured
<1>2. x.chain[Other(p)] \in Seq(DOMAIN CertInfo) BY Pair2, PlansAssumption
<1>3. x.staple.from \in Int /\ x.staple.to \in Int BY PlansAssumption
<1>4. NoStaple.from = 0 /\ NoStaple.to = 0 BY DEF NoStaple
<1> QED BY <1>1, <1>2, <1>3, <1>4 DEF Setting, StapleFor

(* A validator that was not called yet is ready whenever it is called.     *)
LEMMA Untouched ==
    ASSUME NEW v, NEW conf, NEW chain, NEW a, NEW b, Progress(v, conf, chain, a, b),
           v.state = "INIT", v.lookups = <<>>, NEW t
    PROVE  Progress(v, conf, chain, t, t)
<1>1. DOMAIN v.lookups = {} OBVIOUS
<1> QED BY <1>1 DEF Progress

LEMMA ChainRuled ==
    ASSUME Inv, NEW p \in Peers, Arrived(p, Other(p), "cert"), Head(wire[p]).chain # <<>>,
           NEW r, r = s2n_x509_validator_validate_cert_chain(conn[p].v, plan.conf[p], Head(wire[p]), now),
           NEW c, c = Counted(s2n_client_cert_chain_store(p, conn[p]), plan.conf[p], r)
    PROVE  /\ DOMAIN c = ConnectionFields /\ SamePlace(c, conn[p]) /\ SameKeys(c, conn[p])
           /\ SameExchange(c, conn[p]) /\ c.err = conn[p].err /\ c.io = conn[p].io
           /\ c.v = r.v /\ c.took = -1 /\ Ruled(p, c)
           /\ r.err = "OK" =>
                /\ Accepted(r.v, plan.conf[p], StapleFor(plan, p))
                /\ CertInfo[r.v.chain[1]].key = Own(plan, Other(p))
<1>0. plan \in Plans /\ now \in Nat /\ Aligned(plan, run, conn, wire) BY DEF Inv
<1>1. /\ conn[p].step <= Len(FlowOf(plan)) /\ Here(p) = At(Other(p), "cert")
      /\ DOMAIN conn[p] = ConnectionFields
      /\ \E m : /\ DOMAIN m = MessageFields /\ m.type = "cert"
                /\ Wrote(plan, run, Other(p), "cert", m)
                /\ Head(wire[p]) = Altered(plan.tamper, m)
  BY ArrivedFacts DEF Flow
<1>2. PICK h : h = Head(wire[p]) OBVIOUS
<1>3. h.chain = plan.chain[Other(p)] /\ h.staple = StapleFor(plan, p)
  <2>1. PICK m : /\ DOMAIN m = MessageFields /\ Wrote(plan, run, Other(p), "cert", m)
                 /\ h = Altered(plan.tamper, m)
    BY <1>1, <1>2
  <2>2. h.chain = m.chain /\ h.staple = m.staple BY <2>1, AlteredFacts
  <2>3. Other(p) = "server" <=> p = "client" BY DEF Other, Peers
  <2> QED BY <2>1, <2>2, <2>3 DEF Wrote, StapleFor
<1>4. PICK d, conf, chain, staple :
        /\ d = conn[p] /\ conf = plan.conf[p] /\ chain = plan.chain[Other(p)]
        /\ staple = StapleFor(plan, p)
  OBVIOUS
<1>5. Judges(plan, p, d, now) BY <1>4 DEF Inv, Judged
<1>6. d.took = -1
  <2>1. PICK n \in Nat, s \in Nat : n = Len(FlowOf(plan)) /\ s = d.step BY <1>0, <1>4, AlignedTypes
  <2>2. s \in s..n BY <1>1, <1>4, <2>1
  <2>3. FlowOf(plan)[s] = At(Other(p), "cert") BY <1>1, <1>4, <2>1 DEF Here
  <2> QED BY <1>5, <2>1, <2>2, <2>3 DEF Judges
<1>7. PICK a : a = IF d.seen = -1 THEN now ELSE d.seen OBVIOUS
<1>8. a \in 0..now /\ a \in Int /\ a <= now BY <1>0, <1>5, <1>7 DEF Judges
<1>9. Setting(conf, chain, a, now) /\ staple.from \in Int /\ staple.to \in Int
  BY <1>0, <1>2, <1>3, <1>4, <1>8, PlanSettings
<1>10. Sound(d.v, conf, chain, a, now)
  <2>1. Settings(d.v, conf) BY <1>4, <1>5 DEF Judges
  <2>2. Progress(d.v, conf, chain, d.seen, now) BY <1>4, <1>5, <1>6 DEF Judges, End
  <2>3. d.seen = -1 => d.v.state = "INIT" /\ d.v.lookups = <<>> BY <1>5 DEF Judges
  <2>4. Progress(d.v, conf, chain, a, now)
    <3>1. CASE d.seen = -1 BY <1>7, <2>2, <2>3, <3>1, Untouched
    <3>2. CASE d.seen # -1 BY <1>7, <2>2, <3>2
    <3> QED BY <3>1, <3>2
  <2> QED BY <2>1, <2>4 DEF Sound
<1>11. /\ d.v.cb_invoked \in BOOLEAN /\ d.v.finished \in BOOLEAN /\ Called(d.v, conf, staple)
       /\ d.lookups \in 0..1 /\ d.judged \in 0..1
       /\ d.v.state = "INIT" => d.lookups = 0
       /\ ~d.v.cb_invoked => d.judged = 0
       /\ d.seen = -1 => d.v.state = "INIT"
       /\ p = "client" => Stapled(d.v, plan.staple, d.seen, now)
       /\ p = "server" => /\ d.client_cert_chain \in {<<>>, plan.chain["client"]}
                          /\ d.v.state # "OCSP_VALIDATED"
  BY <1>4, <1>5 DEF Judges
<1>12. r = s2n_x509_validator_validate_cert_chain(d.v, conf, h, now) BY <1>2, <1>4
<1>13. /\ Sound(r.v, conf, chain, a, now) /\ Called(r.v, conf, staple)
       /\ r.v.cb_invoked \in BOOLEAN /\ r.v.finished \in BOOLEAN
       /\ r.err = "OK" => Accepted(r.v, conf, staple)
       /\ d.v.state # "INIT" => r.v.state # "INIT"
       /\ d.v.cb_invoked => r.v.cb_invoked
       /\ /\ conf.cb \notin {"none", "cancel"} /\ r.v.state # "AWAITING_CRL_CALLBACK"
          /\ r.err \in {"OK", "ASYNC_BLOCKED", "CERT_REJECTED"}
          => r.v.cb_invoked
       /\ r.v.state = "OCSP_VALIDATED" =>
            \/ d.v.state = "OCSP_VALIDATED"
            \/ /\ conf.tls13 /\ staple.type = "ocsp"
               /\ r.v.check_ocsp => StapleGood(staple, now)
  <2>1. PICK v : v = d.v OBVIOUS
  <2>2. /\ v.cb_invoked \in BOOLEAN /\ v.finished \in BOOLEAN /\ Sound(v, conf, chain, a, now)
        /\ h.chain = chain /\ h.staple = staple /\ Called(v, conf, h.staple)
        /\ h.staple.from \in Int /\ h.staple.to \in Int
        /\ r = s2n_x509_validator_validate_cert_chain(v, conf, h, now)
    BY <1>3, <1>4, <1>9, <1>10, <1>11, <1>12, <2>1
  <2>3. /\ Sound(r.v, conf, chain, a, now) /\ Called(r.v, conf, h.staple)
        /\ r.v.cb_invoked \in BOOLEAN /\ r.v.finished \in BOOLEAN
        /\ r.err = "OK" => Accepted(r.v, conf, h.staple)
        /\ v.state # "INIT" => r.v.state # "INIT"
        /\ v.cb_invoked => r.v.cb_invoked
        /\ /\ conf.cb \notin {"none", "cancel"} /\ r.v.state # "AWAITING_CRL_CALLBACK"
           /\ r.err \in {"OK", "ASYNC_BLOCKED", "CERT_REJECTED"}
           => r.v.cb_invoked
        /\ r.v.state = "OCSP_VALIDATED" =>
             \/ v.state = "OCSP_VALIDATED"
             \/ /\ conf.tls13 /\ h.staple.type = "ocsp"
                /\ r.v.check_ocsp => StapleGood(h.staple, now)
    BY ONLY <1>9, <2>2, Validation
  <2> QED BY <2>1, <2>2, <2>3
<1>14. PICK e : e = s2n_client_cert_chain_store(p, d) OBVIOUS
<1>15. /\ DOMAIN e = ConnectionFields /\ SamePlace(e, d) /\ SameKeys(e, d) /\ SameExchange(e, d)
       /\ e.err = d.err /\ e.io = d.io /\ e.v = d.v /\ e.seen = d.seen /\ e.took = d.took
       /\ e.lookups = d.lookups /\ e.judged = d.judged
       /\ e.client_cert_chain = IF p = "server" /\ d.client_cert_chain = <<>>
                                THEN h.chain ELSE d.client_cert_chain
  BY <1>1, <1>2, <1>4, <1>14, StoredFacts
<1>16. c = Counted(e, conf, r) BY <1>4, <1>14
<1>17. /\ DOMAIN c = ConnectionFields /\ SamePlace(c, e) /\ SameKeys(c, e) /\ SameExchange(c, e)
       /\ c.err = e.err /\ c.io = e.io /\ c.took = e.took
       /\ c.client_cert_chain = e.client_cert_chain /\ c.v = r.v
       /\ c.seen = (IF e.seen = -1 THEN now ELSE e.seen)
       /\ c.lookups = (IF e.v.state = "INIT" /\ r.v.lookups # <<>> THEN e.lookups + 1 ELSE e.lookups)
       /\ c.judged = (IF /\ conf.cb \notin {"none", "cancel"}
                         /\ ~e.v.cb_invoked
                         /\ r.v.state # "AWAITING_CRL_CALLBACK"
                         /\ r.err \in {"OK", "ASYNC_BLOCKED", "CERT_REJECTED"}
                      THEN e.judged + 1 ELSE e.judged)
  BY ONLY <1>15, <1>16, CountedFacts
<1>18. c.seen = a BY <1>7, <1>15, <1>17
<1>19. c.lookups \in 0..1 /\ (c.v.state = "INIT" => c.lookups = 0)
  <2>1. c.lookups = (IF d.v.state = "INIT" /\ r.v.lookups # <<>> THEN d.lookups + 1 ELSE d.lookups)
    BY <1>15, <1>17
  <2>2. r.v.state = "INIT" => r.v.lookups = <<>> BY <1>13 DEF Sound, Progress
  <2> QED BY <2>1, <2>2, <1>11, <1>13, <1>17
<1>20. c.judged \in 0..1 /\ (~c.v.cb_invoked => c.judged = 0)
  <2>1. \/ c.judged = d.judged
        \/ c.judged = d.judged + 1 /\ ~d.v.cb_invoked /\ r.v.cb_invoked
    BY <1>13, <1>15, <1>17
  <2> QED BY <2>1, <1>11, <1>13, <1>17
<1>21. p = "client" => Stapled(c.v, plan.staple, c.seen, now)
  <2>1. SUFFICES ASSUME p = "client", r.v.state = "OCSP_VALIDATED", r.v.check_ocsp
                 PROVE  \E t \in a..now : StapleGood(plan.staple, t)
    BY <1>17, <1>18 DEF Stapled
  <2>2. conf.tls13 => staple = plan.staple
    <3>1. plan.conf[p].tls13 = (plan.kex = "tls13") BY <1>0, PlansAssumption
    <3> QED BY <1>4, <2>1, <3>1 DEF StapleFor
  <2>3. CASE conf.tls13 /\ staple.type = "ocsp" /\ (r.v.check_ocsp => StapleGood(staple, now))
    <3>1. StapleGood(plan.staple, now) /\ now \in a..now BY <1>0, <1>8, <2>1, <2>2, <2>3
    <3> QED BY <3>1
  <2>4. CASE d.v.state = "OCSP_VALIDATED"
    <3>1. d.seen # -1 BY <1>11, <2>4
    <3>2. d.v.check_ocsp = r.v.check_ocsp BY <1>10, <1>13 DEF Sound, Settings
    <3>3. \E t \in d.seen..now : StapleGood(plan.staple, t) BY <1>11, <2>1, <2>4, <3>2 DEF Stapled
    <3> QED BY <1>7, <3>1, <3>3
  <2> QED BY <1>13, <2>1, <2>3, <2>4
<1>22. p = "server" => c.client_cert_chain = plan.chain["client"] /\ c.v.state # "OCSP_VALIDATED"
  <2>1. SUFFICES ASSUME p = "server"
                 PROVE c.client_cert_chain = plan.chain["client"] /\ r.v.state # "OCSP_VALIDATED"
    BY <1>17
  <2>2. Other(p) = "client" /\ staple = NoStaple BY <1>4, <2>1 DEF Other, StapleFor
  <2>3. NoStaple.type # "ocsp" BY DEF NoStaple
  <2> QED BY <1>3, <1>11, <1>13, <1>15, <1>17, <2>1, <2>2, <2>3
<1>23. Ruled(p, c)
  BY <1>4, <1>8, <1>13, <1>17, <1>18, <1>19, <1>20, <1>21, <1>22 DEF Ruled, Sound
<1>24. r.err = "OK" => CertInfo[r.v.chain[1]].key = Own(plan, Other(p))
  <2>1. r.err = "OK" => r.v.chain # <<>> BY <1>13 DEF Accepted, Passed
  <2>2. r.v.chain # <<>> => r.v.chain[1] = chain[1] BY <1>13 DEF Sound, Progress
  <2> QED BY <1>4, <2>1, <2>2 DEF Own
<1>25. /\ SamePlace(c, conn[p]) /\ SameKeys(c, conn[p]) /\ SameExchange(c, conn[p])
       /\ c.err = conn[p].err /\ c.io = conn[p].io
  BY <1>4, <1>15, <1>17 DEF SamePlace, SameKeys, SameExchange
<1> QED BY <1>4, <1>6, <1>13, <1>15, <1>17, <1>23, <1>24, <1>25

LEMMA ValidateChainMoves ==
    ASSUME Inv, NEW p \in Peers, Arrived(p, Other(p), "cert"), Head(wire[p]).chain # <<>>,
           ValidateChain(p), ops' = ops
    PROVE  Moves
<1>0. Shapes(conn, wire) BY DEF Inv
<1>1. /\ conn[p].step <= Len(FlowOf(plan)) /\ Here(p) = At(Other(p), "cert") /\ Here(p).type = "cert"
      /\ conn[p].err = "OK"
  BY ArrivedFacts DEF Flow
<1>2. PICK r : r = s2n_x509_validator_validate_cert_chain(conn[p].v, plan.conf[p], Head(wire[p]), now)
  OBVIOUS
<1>3. PICK c : c = Counted(s2n_client_cert_chain_store(p, conn[p]), plan.conf[p], r) OBVIOUS
<1>4. /\ DOMAIN c = ConnectionFields /\ SamePlace(c, conn[p]) /\ SameKeys(c, conn[p])
      /\ SameExchange(c, conn[p]) /\ c.err = conn[p].err /\ c.io = conn[p].io
      /\ c.v = r.v /\ c.took = -1 /\ Ruled(p, c)
      /\ r.err = "OK" =>
           /\ Accepted(r.v, plan.conf[p], StapleFor(plan, p))
           /\ CertInfo[r.v.chain[1]].key = Own(plan, Other(p))
  BY <1>2, <1>3, ChainRuled
<1>5. ASSUME NEW e, DOMAIN e = ConnectionFields, SamePlace(e, c), SameKeys(e, c), SameExchange(e, c),
             e.io = c.io, SameVerdict(e, c), Blocked(p, e)
      PROVE  Moves
  <2>3. /\ SamePlace(e, conn[p]) /\ SameKeys(e, conn[p]) /\ SameExchange(e, conn[p])
        /\ e.io = conn[p].io
    BY <1>4, <1>5 DEF SamePlace, SameKeys, SameExchange
  <2>4. Stay(conn, wire, conn', wire', p) /\ conn'[p] = e /\ Still
    BY <1>0, <1>5, <2>3, BlockedFacts
  <2>5. Judges(plan, p, e, now)
    <3>1. /\ e.v = c.v /\ e.seen = c.seen /\ e.lookups = c.lookups /\ e.judged = c.judged
          /\ e.client_cert_chain = c.client_cert_chain /\ e.took = -1 /\ e.step = conn[p].step
      BY <1>4, <1>5, <2>3 DEF SameVerdict, SamePlace
    <3> QED BY <1>1, <1>4, <3>1, RuledJudges
  <2>6. Excused(p) BY <1>1 DEF Excused
  <2>7. Examines(p)
    BY <2>3, <2>4, <2>5, <2>6 DEF Examines, Stays, SameExchange
  <2> QED BY <2>7 DEF Moves
<1>6. CASE r.err = "ASYNC_BLOCKED" /\ Blocked(p, c)
  <2>1. SamePlace(c, c) /\ SameKeys(c, c) /\ SameExchange(c, c) /\ SameVerdict(c, c)
    BY SameSelf DEF SamePlace
  <2> QED BY <1>4, <1>5, <1>6, <2>1
<1>7. ASSUME NEW err, Blocked(p, [c EXCEPT !.err = err]) PROVE Moves
  <2>1. PICK e : e = [c EXCEPT !.err = err] OBVIOUS
  <2>2. /\ DOMAIN e = ConnectionFields /\ SamePlace(e, c) /\ SameKeys(e, c) /\ SameExchange(e, c)
        /\ e.io = c.io /\ SameVerdict(e, c)
    BY <1>4, <2>1 DEF ConnectionFields, SamePlace, SameKeys, SameExchange, SameVerdict
  <2> QED BY <1>5, <1>7, <2>1, <2>2
<1>9. CASE /\ r.err = "OK"
           /\ Consume(p, [c EXCEPT !.peer_key = CertInfo[r.v.chain[1]].key, !.took = now])
  <2>1. PICK e : e = [c EXCEPT !.peer_key = CertInfo[r.v.chain[1]].key, !.took = now] OBVIOUS
  <2>2. /\ DOMAIN e = ConnectionFields /\ SamePlace(e, c) /\ SameKeys(e, c)
        /\ e.v = c.v /\ e.seen = c.seen /\ e.lookups = c.lookups /\ e.judged = c.judged
        /\ e.client_cert_chain = c.client_cert_chain /\ e.took = now /\ e.err = c.err
        /\ e.shares = c.shares /\ e.master = c.master /\ e.peer_key = Own(plan, Other(p))
    BY <1>4, <1>9, <2>1 DEF ConnectionFields, SamePlace, SameKeys
  <2>3. SamePlace(e, conn[p]) BY <1>4, <2>2 DEF SamePlace
  <2>4. Consume(p, e) BY <1>9, <2>1
  <2>5. /\ Takes(p)
        /\ conn'[p].err = e.err /\ SameVerdict(conn'[p], e) /\ SameKeys(conn'[p], e)
        /\ SameExchange(conn'[p], e)
    BY <2>2, <2>3, <2>4, PlainTake
  <2>6. conn'[p].step = conn[p].step + 1 /\ Still BY <2>5 DEF Takes, Take
  <2>7. PICK d : d = conn'[p] OBVIOUS
  <2>8. /\ d.v = c.v /\ d.seen = c.seen /\ d.lookups = c.lookups /\ d.judged = c.judged
        /\ d.client_cert_chain = c.client_cert_chain /\ d.took = now /\ d.step = conn[p].step + 1
    BY <2>2, <2>5, <2>6, <2>7 DEF SameVerdict
  <2>9. Judges(plan, p, d, now)
    <3>1. Accepted(c.v, plan.conf[p], StapleFor(plan, p)) BY <1>4, <1>9
    <3> QED BY <1>1, <1>4, <2>8, <3>1, RuledJudges
  <2>10. Examines(p)
    BY <1>1, <1>4, <2>2, <2>5, <2>6, <2>7, <2>9 DEF Examines, SameKeys, SameExchange
  <2> QED BY <2>10 DEF Moves
<1> QED BY <1>2, <1>3, <1>6, <1>7, <1>9 DEF ValidateChain

LEMMA RecvServerCertMoves ==
    ASSUME Inv, RecvServerCert
    PROVE  Moves
<1>0. "client" \in Peers /\ Other("client") = "server" /\ plan \in Plans BY DEF Peers, Other, Inv
<1>1. Arrived("client", Other("client"), "cert") /\ ValidateChain("client") /\ ops' = ops
  BY <1>0 DEF RecvServerCert
<1>2. PICK h, m : /\ h = Head(wire["client"])
                  /\ DOMAIN m = MessageFields /\ Wrote(plan, run, "server", "cert", m)
                  /\ h = Altered(plan.tamper, m)
  BY <1>0, <1>1, ArrivedFacts
<1>3. h.chain = plan.chain["server"] BY <1>2, AlteredFacts DEF Wrote
<1>4. plan.chain["server"] # <<>> BY <1>0, PlansAssumption
<1> QED BY <1>0, <1>1, <1>2, <1>3, <1>4, ValidateChainMoves

LEMMA RecvClientCertMoves ==
    ASSUME Inv, RecvClientCert
    PROVE  Moves
<1>0. "server" \in Peers /\ Other("server") = "client" BY DEF Peers, Other
<1>1. Arrived("server", Other("server"), "cert") /\ ops' = ops BY <1>0 DEF RecvClientCert
<1>2. CASE Consume("server", conn["server"])
  <2>1. Here("server") = At("client", "cert") /\ DOMAIN conn["server"] = ConnectionFields
    BY <1>0, <1>1, ArrivedFacts
  <2>2. PICK c : c = conn["server"] OBVIOUS
  <2>3. /\ Takes("server")
        /\ conn'["server"].err = c.err /\ SameVerdict(conn'["server"], c)
        /\ SameKeys(conn'["server"], c) /\ SameExchange(conn'["server"], c)
    BY <1>0, <1>1, <1>2, <2>1, <2>2, PlainTake DEF SamePlace
  <2>4. Reads("server") BY <1>1, <2>1, <2>2, <2>3 DEF Reads
  <2> QED BY <1>0, <2>4 DEF Moves
<1>3. CASE Head(wire["server"]).chain # <<>> /\ ValidateChain("server")
  BY <1>0, <1>1, <1>3, ValidateChainMoves
<1> QED BY <1>2, <1>3 DEF RecvClientCert

LEMMA RecvStatusMoves ==
    ASSUME Inv, RecvStatus
    PROVE  Moves
<1>0. /\ "client" \in Peers /\ Other("client") = "server" /\ plan \in Plans /\ now \in Nat
      /\ Aligned(plan, run, conn, wire)
  BY DEF Peers, Other, Inv
<1>1. Arrived("client", Other("client"), "status") /\ ops' = ops BY <1>0 DEF RecvStatus
<1>2. PICK h, m : /\ h = Head(wire["client"])
                  /\ DOMAIN m = MessageFields /\ Wrote(plan, run, "server", "status", m)
                  /\ h = Altered(plan.tamper, m)
  BY <1>0, <1>1, ArrivedFacts
<1>3. /\ conn["client"].step <= Len(FlowOf(plan)) /\ Here("client") = At("server", "status")
      /\ Here("client").type = "status" /\ DOMAIN conn["client"] = ConnectionFields
  BY <1>0, <1>1, ArrivedFacts DEF Flow
<1>4. h.staple = plan.staple BY <1>2, AlteredFacts DEF Wrote
<1>5. PICK d, conf, chain, v, r :
        /\ d = conn["client"] /\ conf = plan.conf["client"] /\ chain = plan.chain["server"] /\ v = d.v
        /\ r = s2n_cert_status_recv(v, plan.staple, now)
  OBVIOUS
<1>6. Judges(plan, "client", d, now) BY <1>0, <1>5 DEF Inv, Judged
<1>7. PICK n \in Nat, s \in Nat : n = Len(FlowOf(plan)) /\ s = d.step /\ s >= 1
  BY <1>0, <1>5, AlignedTypes
<1>8. s \in 1..n /\ FlowOf(plan)[s] = At("server", "status") BY <1>3, <1>5, <1>7 DEF Here
<1>9. plan.kex # "tls13"
  <2>1. Here("client") \in Members(plan) /\ Here("client") \in Steps
    BY <1>5, <1>7, <1>8, FlowFacts DEF Here
  <2> QED BY <1>3, <2>1, MemberFacts
<1>10. PICK j \in 1..n : FlowOf(plan)[j] = At("server", "cert")
  <2>1. At("server", "cert") \in Members(plan) BY AlwaysSent
  <2> QED BY <1>7, <2>1, FlowFacts
<1>11. j < s
  <2>1. Place(plan, At("server", "cert")) = 1 /\ Place(plan, At("server", "status")) = 2
    BY AtFacts DEF Place
  <2> QED BY <1>7, <1>8, <1>10, <2>1, Earlier
<1>12. d.took # -1
  <2>1. j \in 1..(d.step - 1) BY <1>7, <1>11
  <2> QED BY <1>6, <1>10, <2>1 DEF Judges
<1>13. d.seen # -1 /\ d.seen \in 0..now /\ d.took \in 0..now
  BY <1>0, <1>6, <1>12 DEF Judges
<1>14. PICK a, b : a = d.seen /\ b = d.took OBVIOUS
<1>15. a \in Int /\ b \in Int /\ a <= b BY <1>0, <1>6, <1>12, <1>13, <1>14 DEF Judges
<1>16. Setting(conf, chain, a, b) /\ plan.staple.from \in Int /\ plan.staple.to \in Int
  <2>1. plan.chain["server"] # <<>> /\ plan.staple.from \in Int /\ plan.staple.to \in Int
    BY <1>0, PlansAssumption
  <2> QED BY <1>0, <1>5, <1>15, <2>1, PlanSettings
<1>17. /\ Sound(v, conf, chain, a, b) /\ Called(v, conf, StapleFor(plan, "client"))
       /\ Accepted(v, conf, StapleFor(plan, "client"))
  BY <1>0, <1>5, <1>6, <1>12, <1>14 DEF Judges, End, Sound
<1>18. v.chain # <<>> /\ (v.state \in {"VALIDATED", "OCSP_VALIDATED"} \/ v.skip)
  BY <1>17 DEF Accepted, Passed
<1>19. /\ Staged(v, r, conf, chain, a, b)
       /\ r.err = "OK" /\ plan.staple.type = "ocsp" => r.v.state = "OCSP_VALIDATED"
       /\ r.v = v \/ /\ r.v = [v EXCEPT !.state = "OCSP_VALIDATED"]
                     /\ plan.staple.type = "ocsp"
                     /\ v.check_ocsp => StapleGood(plan.staple, now)
  <2>1. PICK staple : staple = plan.staple OBVIOUS
  <2>2. now \in Int /\ staple.from \in Int /\ staple.to \in Int
        /\ r = s2n_cert_status_recv(v, staple, now)
    BY <1>0, <1>5, <1>16, <2>1
  <2>3. /\ Staged(v, r, conf, chain, a, b)
        /\ r.err = "OK" /\ staple.type = "ocsp" => r.v.state = "OCSP_VALIDATED"
        /\ r.v = v \/ /\ r.v = [v EXCEPT !.state = "OCSP_VALIDATED"]
                      /\ staple.type = "ocsp"
                      /\ v.check_ocsp => StapleGood(staple, now)
    BY ONLY <1>16, <1>17, <1>18, <2>2, StapleReceived
  <2> QED BY <2>1, <2>3
<1>20. CASE r.err # "OK"
  <2>1. Blocked("client", [conn["client"] EXCEPT !.err = r.err])
    BY <1>2, <1>4, <1>5, <1>20 DEF RecvStatus
  <2> QED BY <1>0, <1>1, <1>3, <2>1, FailingBlocked
<1>21. CASE r.err = "OK"
  <2>1. PICK e : e = [d EXCEPT !.v = r.v] OBVIOUS
  <2>2. Consume("client", e) BY <1>2, <1>4, <1>5, <1>21, <2>1 DEF RecvStatus
  <2>3. /\ DOMAIN e = ConnectionFields /\ SamePlace(e, d) /\ SameKeys(e, d) /\ SameExchange(e, d)
        /\ e.err = d.err /\ e.v = r.v /\ e.seen = d.seen /\ e.took = d.took /\ e.lookups = d.lookups
        /\ e.judged = d.judged
    BY <1>3, <1>5, <2>1 DEF ConnectionFields, SamePlace, SameKeys, SameExchange
  <2>4. /\ Takes("client")
        /\ conn'["client"].err = e.err /\ SameVerdict(conn'["client"], e)
        /\ SameKeys(conn'["client"], e) /\ SameExchange(conn'["client"], e)
    BY <1>0, <1>1, <1>5, <2>2, <2>3, PlainTake
  <2>5. conn'["client"].step = conn["client"].step + 1 /\ Still BY <2>4 DEF Takes, Take
  <2>6. PICK g, u : g = conn'["client"] /\ u = r.v OBVIOUS
  <2>7. /\ g.v = u /\ g.seen = a /\ g.took = b /\ g.lookups = d.lookups /\ g.judged = d.judged
        /\ g.step = s + 1
    BY <1>5, <1>7, <1>14, <2>3, <2>4, <2>5, <2>6 DEF SameVerdict
  <2>8. /\ Sound(u, conf, chain, a, b) /\ SameAnswer(u, v) /\ (v.state # "INIT" => u.state # "INIT")
        /\ u.chain = v.chain /\ u.skip = v.skip /\ u.check_ocsp = v.check_ocsp /\ u.lookups = v.lookups
        /\ u.state \in {v.state, "OCSP_VALIDATED"}
    <3>1. Sound(u, conf, chain, a, b) /\ SameAnswer(u, v) /\ (v.state # "INIT" => u.state # "INIT")
      BY <1>19, <2>6 DEF Staged
    <3>2. DOMAIN v = ValidatorFields BY <1>17 DEF Sound, Settings
    <3>3. CASE u = v BY <3>1, <3>3
    <3>4. CASE u = [v EXCEPT !.state = "OCSP_VALIDATED"]
      BY <3>1, <3>2, <3>4, StateSet
    <3> QED BY <1>19, <2>6, <3>3, <3>4
  <2>9. Called(u, conf, StapleFor(plan, "client")) /\ Accepted(u, conf, StapleFor(plan, "client"))
    BY <1>17, <2>8 DEF Called, Accepted, Passed, SameAnswer, AllAnswered
  <2>10. Stapled(u, plan.staple, a, now)
    <3>1. Stapled(v, plan.staple, a, now) BY <1>0, <1>5, <1>6, <1>14 DEF Judges
    <3>2. now \in a..now BY <1>0, <1>13, <1>14
    <3>3. CASE u = v BY <3>1, <3>3
    <3>4. CASE v.check_ocsp => StapleGood(plan.staple, now)
      BY <2>8, <3>2, <3>4 DEF Stapled
    <3> QED BY <1>19, <2>6, <3>3, <3>4
  <2>11. ASSUME NEW k \in 1..(g.step - 1), FlowOf(plan)[k] = At("server", "status"),
                plan.staple.type = "ocsp"
         PROVE  u.state = "OCSP_VALIDATED"
    BY <1>19, <1>21, <2>6, <2>11
  <2>12. ASSUME NEW k \in g.step..n
         PROVE  FlowOf(plan)[k] # At(Other("client"), "cert")
    <3>1. k \in 1..n /\ k # j BY <1>7, <1>11, <2>7
    <3> QED BY <1>0, <1>7, <1>10, <3>1, Once
  <2>13. /\ u.cb_invoked \in BOOLEAN /\ u.finished \in BOOLEAN
         /\ g.lookups \in 0..1 /\ g.judged \in 0..1
         /\ u.state = "INIT" => g.lookups = 0
         /\ ~u.cb_invoked => g.judged = 0
    BY <1>5, <1>6, <2>7, <2>8 DEF Judges, SameAnswer
  <2>14. Judges(plan, "client", g, now)
    <3>1. End(g, now) = b /\ g.took # -1 /\ g.seen # -1 /\ g.seen <= g.took
      BY <1>12, <1>13, <1>14, <1>15, <2>7 DEF End
    <3>2. g.seen \in -1..now /\ g.took \in -1..now BY <1>0, <1>13, <1>14, <2>7
    <3>3. "client" # "server" OBVIOUS
    <3> QED BY <1>0, <1>5, <1>7, <2>7, <2>8, <2>9, <2>10, <2>11, <2>12, <2>13, <3>1, <3>2, <3>3
            DEF Judges, Sound
  <2>15. Examines("client")
    BY <1>1, <1>3, <1>5, <2>3, <2>4, <2>5, <2>6, <2>14 DEF Examines, SameKeys, SameExchange
  <2> QED BY <1>0, <2>15 DEF Moves
<1> QED BY <1>20, <1>21

----------------------------------------------------------------------------
(* The application answers the validator.                                  *)

(* The connection as it is, with another validator in it.                  *)
LEMMA ValidatorSet ==
    ASSUME Inv, NEW p \in Peers, NEW u, NEW e, e = [conn[p] EXCEPT !.v = u], Set(p, e),
           UNCHANGED <<plan, now, run, wire, ops>>, Judges(plan, p, e, now)
    PROVE  Moves
<1>1. PICK d : d = conn[p] OBVIOUS
<1>2. DOMAIN d = ConnectionFields /\ Shapes(conn, wire) BY <1>1 DEF Inv, Shapes
<1>3. /\ DOMAIN e = ConnectionFields /\ SamePlace(e, d) /\ SameKeys(e, d) /\ SameExchange(e, d)
      /\ e.err = d.err /\ e.io = d.io
  BY <1>1, <1>2 DEF ConnectionFields, SamePlace, SameKeys, SameExchange
<1>4. Change(conn, conn', p) /\ conn'[p] = e BY <1>2, <1>3, SetFacts
<1>5. Stays(p) BY <1>1, <1>3, <1>4 DEF Stays, Stay, Still, SamePlace
<1>6. Excused(p) BY <1>1, <1>3, <1>4 DEF Excused
<1>7. Examines(p) BY <1>1, <1>3, <1>4, <1>5, <1>6 DEF Examines, SameExchange, Still
<1> QED BY <1>7 DEF Moves

LEMMA AppLookupMoves ==
    ASSUME Inv, NEW p \in Peers, NEW i, AppLookup(p, i)
    PROVE  Moves
<1>0. now \in Nat BY DEF Inv
<1>1. PICK d, v, conf, chain, l :
        /\ d = conn[p] /\ v = d.v /\ conf = plan.conf[p] /\ chain = plan.chain[Other(p)]
        /\ l = v.lookups[i]
  OBVIOUS
<1>2. Judges(plan, p, d, now) /\ DOMAIN d = ConnectionFields BY <1>1 DEF Inv, Judged, Shapes
<1>3. i \in DOMAIN v.lookups /\ l.status = "AWAITING_RESPONSE" BY <1>1 DEF AppLookup
<1>4. /\ Settings(v, conf) /\ Progress(v, conf, chain, d.seen, End(d, now))
      /\ Called(v, conf, StapleFor(plan, p))
  BY <1>1, <1>2 DEF Judges
<1>5. v.lookups # <<>> BY <1>3
<1>6. v.state = "AWAITING_CRL_CALLBACK" /\ ~v.skip
  BY <1>1, <1>3, <1>4, <1>5 DEF Progress, AllAnswered
<1>7. d.took = -1 /\ d.seen # -1
  BY <1>1, <1>2, <1>3, <1>6 DEF Judges, Accepted, AllAnswered
<1>8. PICK a : a = d.seen OBVIOUS
<1>9. a \in Int /\ a <= now /\ End(d, now) = now BY <1>0, <1>2, <1>7, <1>8 DEF Judges, End
<1>10. PICK k, ls : k = Answered(l, conf, now) /\ ls = [v.lookups EXCEPT ![i] = k] OBVIOUS
<1>11. LookupSound(k, conf, a, now)
  <2>1. DOMAIN l = {"cert", "crl", "status"} BY <1>1, <1>3, <1>4 DEF Progress, LookupSound
  <2> QED BY <2>1, <1>0, <1>9, <1>10, AnswerSound
<1>12. Row(ls) /\ DOMAIN ls = DOMAIN v.lookups
       /\ \A j \in DOMAIN ls : LookupSound(ls[j], conf, a, now)
  <2>1. Row(v.lookups) /\ \A j \in DOMAIN v.lookups : LookupSound(v.lookups[j], conf, a, now)
    BY <1>4, <1>8, <1>9 DEF Progress
  <2>2. PICK n \in Nat : DOMAIN v.lookups = 1..n BY <2>1, RowFacts
  <2>3. ls = [j \in 1..n |-> ls[j]] BY <1>10, <2>2
  <2>4. Row(ls) /\ DOMAIN ls = 1..n BY <2>3, RowFunction
  <2>5. \A j \in 1..n : LookupSound(ls[j], conf, a, now) BY <1>10, <1>11, <2>1, <2>2
  <2> QED BY <2>2, <2>4, <2>5
<1>13. PICK u, e : u = [v EXCEPT !.lookups = ls] /\ e = [d EXCEPT !.v = u] OBVIOUS
<1>14. /\ DOMAIN u = ValidatorFields /\ u.lookups = ls /\ u.state = v.state /\ u.skip = v.skip
       /\ u.check_ocsp = v.check_ocsp /\ u.depth = v.depth /\ u.trust = v.trust /\ u.chain = v.chain
       /\ SameAnswer(u, v)
  BY <1>4, <1>13 DEF Settings, ValidatorFields, SameAnswer
<1>15. ~v.cb_invoked BY <1>4, <1>6 DEF Called, Passed
<1>16. Settings(u, conf) /\ Called(u, conf, StapleFor(plan, p))
  BY <1>4, <1>14, <1>15 DEF Settings, Called, SameAnswer
<1>17. Progress(u, conf, chain, a, now)
  BY <1>4, <1>6, <1>12, <1>14 DEF Progress
<1>18. /\ e.v = u /\ e.seen = a /\ e.took = -1 /\ e.lookups = d.lookups /\ e.judged = d.judged
       /\ e.step = d.step /\ e.client_cert_chain = d.client_cert_chain /\ End(e, now) = now
  BY <1>2, <1>7, <1>8, <1>13 DEF ConnectionFields, End
<1>19. Stapled(u, plan.staple, a, now) BY <1>6, <1>14 DEF Stapled
<1>20. Judges(plan, p, e, now)
  <2>1. /\ a \in -1..now /\ a # -1 /\ e.took \in -1..now
        /\ d.lookups \in 0..1 /\ d.judged \in 0..1
    BY <1>0, <1>2, <1>7, <1>8, <1>18 DEF Judges
  <2>2. /\ ~u.cb_invoked => e.judged = 0
        /\ u.cb_invoked \in BOOLEAN /\ u.finished \in BOOLEAN
    BY <1>1, <1>2, <1>14, <1>18 DEF Judges, SameAnswer
  <2>3. \A j \in e.step..Len(FlowOf(plan)) : FlowOf(plan)[j] = At(Other(p), "cert") => e.took = -1
    BY <1>18
  <2>4. p = "server" => e.client_cert_chain \in {<<>>, plan.chain["client"]}
    BY <1>2, <1>18 DEF Judges
  <2>5. \A j \in 1..(e.step - 1) :
          /\ FlowOf(plan)[j] = At("server", "cert") /\ p = "client" => FALSE
          /\ FlowOf(plan)[j] = At("server", "status") /\ p = "client" /\ plan.staple.type = "ocsp" =>
               FALSE
    BY <1>1, <1>2, <1>6, <1>7, <1>18 DEF Judges
  <2> QED BY <1>1, <1>6, <1>14, <1>16, <1>17, <1>18, <1>19, <2>1, <2>2, <2>3, <2>4, <2>5 DEF Judges
<1>21. Set(p, e) /\ UNCHANGED <<plan, now, run, wire, ops>>
  BY <1>1, <1>10, <1>13 DEF AppLookup
<1>22. e = [conn[p] EXCEPT !.v = u] BY <1>1, <1>13
<1> QED BY <1>20, <1>21, <1>22, ValidatorSet

LEMMA AppJudgeMoves ==
    ASSUME Inv, NEW p \in Peers, AppJudge(p)
    PROVE  Moves
<1>0. now \in Nat BY DEF Inv
<1>1. PICK d, v, conf, chain :
        d = conn[p] /\ v = d.v /\ conf = plan.conf[p] /\ chain = plan.chain[Other(p)]
  OBVIOUS
<1>2. Judges(plan, p, d, now) /\ DOMAIN d = ConnectionFields BY <1>1 DEF Inv, Judged, Shapes
<1>3. conf.cb = "later" /\ v.cb_invoked /\ ~v.finished BY <1>1 DEF AppJudge, CanDecide
<1>4. PICK u : /\ u \in {s2n_cert_validation_accept(v), s2n_cert_validation_reject(v)}
               /\ Set(p, [conn[p] EXCEPT !.v = u])
  BY <1>1 DEF AppJudge
<1>5. /\ Settings(v, conf) /\ Progress(v, conf, chain, d.seen, End(d, now))
      /\ Called(v, conf, StapleFor(plan, p))
  BY <1>1, <1>2 DEF Judges
<1>6. /\ DOMAIN u = ValidatorFields /\ u.lookups = v.lookups /\ u.state = v.state /\ u.skip = v.skip
      /\ u.check_ocsp = v.check_ocsp /\ u.depth = v.depth /\ u.trust = v.trust /\ u.chain = v.chain
      /\ u.path = v.path /\ u.cb_invoked = v.cb_invoked /\ u.finished = TRUE
  <2>1. DOMAIN v = ValidatorFields BY <1>5 DEF Settings
  <2> QED BY <1>4, <2>1 DEF s2n_cert_validation_accept, s2n_cert_validation_reject, ValidatorFields
<1>7. d.took = -1 BY <1>1, <1>2, <1>3 DEF Judges, Accepted
<1>8. Settings(u, conf) BY <1>5, <1>6 DEF Settings
<1>9. Progress(u, conf, chain, d.seen, End(d, now))
  BY <1>5, <1>6 DEF Progress, AllAnswered, NotRevoked
<1>10. Called(u, conf, StapleFor(plan, p)) BY <1>3, <1>5, <1>6 DEF Called, Passed
<1>11. PICK e : e = [d EXCEPT !.v = u] OBVIOUS
<1>12. /\ e.v = u /\ e.seen = d.seen /\ e.took = -1 /\ e.lookups = d.lookups /\ e.judged = d.judged
       /\ e.step = d.step /\ e.client_cert_chain = d.client_cert_chain /\ End(e, now) = End(d, now)
  BY <1>2, <1>7, <1>11 DEF ConnectionFields, End
<1>13. p = "client" => Stapled(u, plan.staple, e.seen, now)
  BY <1>1, <1>2, <1>6, <1>12 DEF Judges, Stapled
<1>14. Judges(plan, p, e, now)
  BY <1>1, <1>2, <1>3, <1>6, <1>7, <1>8, <1>9, <1>10, <1>12, <1>13 DEF Judges
<1> QED BY <1>1, <1>4, <1>11, <1>14, ValidatorSet DEF AppJudge

----------------------------------------------------------------------------
(* The application works on the operations it holds.                       *)

LEMMA HeldReplace ==
    ASSUME NEW x, NEW o, Held(x, o), NEW i \in DOMAIN o, NEW e, Operation(x, e), NEW q,
           q = [o EXCEPT ![i] = e]
    PROVE  Held(x, q)
<1>1. Row(o) /\ \A j \in DOMAIN o : Operation(x, o[j]) BY DEF Held
<1>2. PICK n \in Nat : DOMAIN o = 1..n BY <1>1, RowFacts
<1>3. q = [j \in 1..n |-> q[j]] BY <1>2
<1>4. Row(q) /\ DOMAIN q = 1..n BY <1>3, RowFunction
<1>5. \A j \in 1..n : Operation(x, q[j]) BY <1>1, <1>2
<1> QED BY <1>4, <1>5 DEF Held

LEMMA OnlyHeld ==
    ASSUME Inv, NEW i \in DOMAIN ops, NEW e, Operation(plan, e), ops' = [ops EXCEPT ![i] = e], OnlyOps
    PROVE  Moves
<1>1. Held(plan, ops) BY DEF Inv
<1>2. Held(plan, ops') BY <1>1, HeldReplace
<1>3. Works BY <1>2 DEF Works, OnlyOps, Still
<1> QED BY <1>3 DEF Moves

LEMMA AppPerformMoves ==
    ASSUME Inv, NEW i \in DOMAIN ops, AppPerform(i)
    PROVE  Moves
<1>1. PICK op, p, e : op = ops[i] /\ p = op.conn /\ e = s2n_async_pkey_op_perform(op, UsedKey(p)) OBVIOUS
<1>2. Operation(plan, op) /\ plan \in Plans BY <1>1 DEF Inv, Held
<1>3. op.live /\ ~op.complete BY <1>1 DEF AppPerform, CanPerform
<1>4. DOMAIN op = OperationFields /\ p \in Peers /\ op.type \in {"sign", "decrypt"}
  BY <1>1, <1>2 DEF Operation
<1>7. ops' = [ops EXCEPT ![i] = e] /\ OnlyOps BY <1>1 DEF AppPerform
<1>5. CASE op.type = "sign"
  <2>1. /\ DOMAIN e = OperationFields /\ e.conn = op.conn /\ e.type = op.type
        /\ e.mode = op.mode /\ e.live = op.live /\ e.complete
        /\ e.signature = s2n_pkey_sign(UsedKey(p), op.digest)
        /\ e.digest \in {op.digest, ConsumedDigest}
    BY <1>1, <1>4, <1>5, SignPerformed
  <2>2. Signature(plan, p, e.signature)
    <3>1. Digested(plan, p, op.digest) BY <1>1, <1>2, <1>3, <1>5 DEF Operation
    <3> QED BY <2>1, <3>1, MadeSignature
  <2>3. Operation(plan, e) BY <1>1, <1>2, <1>3, <1>5, <2>1, <2>2 DEF Operation
  <2> QED BY <1>7, <2>3, OnlyHeld
<1>6. CASE op.type = "decrypt"
  <2>1. /\ DOMAIN e = OperationFields /\ e.conn = op.conn /\ e.type = op.type
        /\ e.mode = op.mode /\ e.live = op.live /\ e.complete
        /\ e.rsa_failed = (op.encrypted.key # UsedKey(p)) /\ e.encrypted = op.encrypted
    BY <1>1, <1>4, <1>6, DecryptPerformed
  <2>2. p = "server" /\ Cipher(plan, op.encrypted) BY <1>1, <1>2, <1>3, <1>6 DEF Operation
  <2>3. plan.uses["server"] = "wrong" => e.rsa_failed BY <1>2, <2>1, <2>2, WrongKey
  <2>4. Operation(plan, e) BY <1>1, <1>2, <1>3, <1>6, <2>1, <2>2, <2>3 DEF Operation
  <2> QED BY <1>7, <2>4, OnlyHeld
<1> QED BY <1>4, <1>5, <1>6

LEMMA OutputSet ==
    ASSUME NEW op, DOMAIN op = OperationFields, NEW signature, NEW secret, NEW e,
           e = s2n_async_pkey_op_set_output(op, signature, secret)
    PROVE  /\ DOMAIN e = OperationFields /\ e.conn = op.conn /\ e.type = op.type
           /\ e.mode = op.mode /\ e.live = op.live /\ e.complete
           /\ e.digest = op.digest /\ e.encrypted = op.encrypted
           /\ op.type = "sign" => e.signature = signature
           /\ op.type = "decrypt" => e.decrypted = secret
<1>1. PICK s, d : /\ s = IF op.type = "sign" THEN signature ELSE op.signature
                  /\ d = IF op.type = "decrypt" THEN secret ELSE op.decrypted
  OBVIOUS
<1>2. e = [op EXCEPT !.complete = TRUE, !.signature = s, !.decrypted = d]
  BY <1>1 DEF s2n_async_pkey_op_set_output, OperationFields
<1> QED BY <1>1, <1>2 DEF OperationFields

LEMMA AppSetOutputMoves ==
    ASSUME Inv, NEW i \in DOMAIN ops, AppSetOutput(i)
    PROVE  Moves
<1>1. PICK op, p, in, e :
        /\ op = ops[i] /\ p = op.conn /\ in = s2n_async_pkey_op_get_input(op)
        /\ e = IF op.type = "sign"
               THEN s2n_async_pkey_op_set_output(op, ServiceSignature(p, in), NoPremaster)
               ELSE s2n_async_pkey_op_set_output(op, NoSignature, ServiceDecrypted(p, in))
  OBVIOUS
<1>2. Operation(plan, op) /\ plan \in Plans BY <1>1 DEF Inv, Held
<1>3. op.live /\ ~op.applied /\ (op.type = "sign" => op.digest # ConsumedDigest)
  BY <1>1 DEF AppSetOutput
<1>4. DOMAIN op = OperationFields /\ p \in Peers /\ op.type \in {"sign", "decrypt"}
  BY <1>1, <1>2 DEF Operation
<1>5. ops' = [ops EXCEPT ![i] = e] /\ OnlyOps BY <1>1 DEF AppSetOutput
<1>6. CASE op.type = "sign"
  <2>1. in.digest = op.digest BY <1>1, <1>6 DEF s2n_async_pkey_op_get_input
  <2>2. PICK s : s = ServiceSignature(p, in) OBVIOUS
  <2>3. /\ DOMAIN e = OperationFields /\ e.conn = op.conn /\ e.type = op.type
        /\ e.mode = op.mode /\ e.live = op.live /\ e.complete /\ e.signature = s
        /\ e.digest = op.digest
    BY <1>1, <1>4, <1>6, <2>2, OutputSet
  <2>4. Digested(plan, p, op.digest) BY <1>1, <1>2, <1>3, <1>6 DEF Operation
  <2>5. Signature(plan, p, s)
    BY <2>1, <2>2, <2>4 DEF Signature, ServiceSignature, Garbage, s2n_pkey_sign, OwnKey, Own
  <2>6. Operation(plan, e) BY <1>1, <1>2, <1>6, <2>3, <2>4, <2>5 DEF Operation
  <2> QED BY <1>5, <2>6, OnlyHeld
<1>7. CASE op.type = "decrypt"
  <2>1. in.encrypted = op.encrypted BY <1>1, <1>7 DEF s2n_async_pkey_op_get_input
  <2>2. PICK d : d = ServiceDecrypted(p, in) OBVIOUS
  <2>3. /\ DOMAIN e = OperationFields /\ e.conn = op.conn /\ e.type = op.type
        /\ e.mode = op.mode /\ e.live = op.live /\ e.complete /\ e.decrypted = d
        /\ e.encrypted = op.encrypted
    BY <1>1, <1>4, <1>7, <2>2, OutputSet
  <2>4. p = "server" /\ Cipher(plan, op.encrypted) BY <1>1, <1>2, <1>3, <1>7 DEF Operation
  <2>5. plan.uses["server"] = "wrong" => d.size # S2N_TLS_SECRET_LEN
    <3>1. plan.uses["server"] = "wrong" => op.encrypted.key # UsedKey("server")
      BY <1>2, <2>4, WrongKey
    <3> QED BY <2>1, <2>2, <2>4, <3>1
            DEF ServiceDecrypted, s2n_pkey_decrypt_fails, NoPremaster, S2N_TLS_SECRET_LEN
  <2>6. Operation(plan, e) BY <1>1, <1>2, <1>7, <2>3, <2>4, <2>5 DEF Operation
  <2> QED BY <1>5, <2>6, OnlyHeld
<1> QED BY <1>4, <1>6, <1>7

LEMMA AppSetModeMoves ==
    ASSUME Inv, NEW i \in DOMAIN ops, AppSetMode(i)
    PROVE  Moves
<1>1. PICK op, e : op = ops[i] /\ e = [op EXCEPT !.mode = "strict"] OBVIOUS
<1>2. Operation(plan, op) BY <1>1 DEF Inv, Held
<1>3. /\ DOMAIN e = OperationFields /\ e.mode = "strict"
      /\ \A k \in OperationFields \ {"mode"} : e[k] = op[k]
  BY <1>1, <1>2 DEF Operation, OperationFields
<1>4. /\ e.conn = op.conn /\ e.type = op.type /\ e.live = op.live /\ e.complete = op.complete
      /\ e.applied = op.applied /\ e.digest = op.digest /\ e.signature = op.signature
      /\ e.encrypted = op.encrypted /\ e.decrypted = op.decrypted /\ e.rsa_failed = op.rsa_failed
  BY <1>3 DEF OperationFields
<1>5. Operation(plan, e) BY <1>2, <1>3, <1>4 DEF Operation
<1> QED BY <1>1, <1>5, OnlyHeld DEF AppSetMode, s2n_async_pkey_op_set_validation_mode

LEMMA FreedOperation ==
    ASSUME NEW x, NEW op, Operation(x, op), NEW e, e = s2n_async_pkey_op_free(op)
    PROVE  Operation(x, e)
<1>1. DOMAIN op = OperationFields BY DEF Operation
<1>2. /\ DOMAIN e = OperationFields /\ e.conn = op.conn /\ e.type = op.type /\ e.mode = op.mode
      /\ ~e.live
  BY <1>1, OpFreed
<1> QED BY <1>2 DEF Operation

LEMMA AppFreeMoves ==
    ASSUME Inv, NEW i \in DOMAIN ops, AppFree(i)
    PROVE  Moves
<1>1. PICK op, e : op = ops[i] /\ e = s2n_async_pkey_op_free(op) OBVIOUS
<1>2. Operation(plan, op) BY <1>1 DEF Inv, Held
<1>3. Operation(plan, e) BY <1>1, <1>2, FreedOperation
<1> QED BY <1>1, <1>3, OnlyHeld DEF AppFree

LEMMA AppWipeMoves ==
    ASSUME Inv, AppWipe
    PROVE  Moves
<1>1. Held(plan, ops) BY DEF Inv
<1>2. Held(plan, ops')
  <2>1. CASE ops' = ops BY <1>1, <2>1
  <2>2. CASE ops' = [i \in DOMAIN ops |-> s2n_async_pkey_op_free(ops[i])]
    <3>1. PICK n \in Nat : DOMAIN ops = 1..n BY <1>1, RowFacts DEF Held
    <3>2. PICK q : q = ops' OBVIOUS
    <3>3. q = [i \in 1..n |-> q[i]] BY <2>2, <3>1, <3>2
    <3>4. Row(q) /\ DOMAIN q = 1..n BY <3>3, RowFunction
    <3>5. ASSUME NEW i \in 1..n PROVE Operation(plan, q[i])
      <4>1. Operation(plan, ops[i]) BY <1>1, <3>1 DEF Held
      <4>2. q[i] = s2n_async_pkey_op_free(ops[i]) BY <2>2, <3>1, <3>2
      <4> QED BY <4>1, <4>2, FreedOperation
    <3> QED BY <3>2, <3>4, <3>5 DEF Held
  <2> QED BY <2>1, <2>2 DEF AppWipe
<1>3. Restarts BY <1>2 DEF AppWipe, Restarts
<1> QED BY <1>3 DEF Moves

LEMMA AppApplyMoves ==
    ASSUME Inv, NEW i \in DOMAIN ops, NEW p \in Peers, AppApply(i, p)
    PROVE  Moves
<1>0. plan \in Plans /\ Shapes(conn, wire) /\ Held(plan, ops) /\ Aligned(plan, run, conn, wire)
  BY DEF Inv
<1>1. PICK op, c : op = ops[i] /\ c = conn[p] OBVIOUS
<1>2. Operation(plan, op) /\ DOMAIN op = OperationFields /\ DOMAIN c = ConnectionFields
  BY <1>0, <1>1 DEF Held, Operation, Shapes
<1>3. /\ op.live /\ op.complete /\ ~op.applied /\ op.conn = p /\ c.async_state = "INVOKED"
      /\ ResultAccepted(op, p)
  BY <1>1 DEF AppApply, CanApply
<1>4. /\ c.written = 0 /\ c.step <= Len(FlowOf(plan)) /\ Operates(plan, p, Here(p))
  BY <1>1, <1>3 DEF Inv, Waiting, Waits, Here
<1>5. Here(p) \in Members(plan) /\ Here(p) \in Steps
  <2>1. c.step \in 1..Len(FlowOf(plan)) BY <1>0, <1>1, <1>4, AlignedTypes
  <2> QED BY <1>1, <2>1, FlowFacts DEF Here
<1>6. Held(plan, ops')
  <2>1. PICK e : e = s2n_async_pkey_op_apply(op) OBVIOUS
  <2>2. /\ DOMAIN e = OperationFields /\ e.conn = op.conn /\ e.type = op.type /\ e.mode = op.mode
        /\ e.applied /\ e.complete = op.complete
    BY <1>2, <2>1, OpApplied
  <2>3. Operation(plan, e) BY <1>2, <1>3, <2>2 DEF Operation
  <2> QED BY <1>0, <1>1, <2>1, <2>3, HeldReplace DEF AppApply
<1>7. PICK d : d = IF op.type = "sign" THEN SignatureWritten(c, op.signature)
                   ELSE Decrypted(c, op.rsa_failed, op.decrypted)
  OBVIOUS
<1>8. PICK e : e = [d EXCEPT !.async_state = "COMPLETE"] OBVIOUS
<1>9. Set(p, e) /\ wire' = wire /\ Still BY <1>1, <1>7, <1>8 DEF AppApply, Still
<1>10. SUFFICES ASSUME DOMAIN d = ConnectionFields, SamePlace(d, c), d.err = c.err, SameVerdict(d, c),
                       SameExchange(d, c), d.written = c.written + 1,
                       p = "server" /\ plan.kex = "rsa" /\ plan.uses["server"] = "wrong" => d.rsa_failed,
                       Here(p).by = p =>
                         /\ DOMAIN d.io = MessageFields /\ d.io.type = Here(p).type
                         /\ d.io.type = "server_key" => d.io.params = Parameters(plan, run)
                         /\ Signature(plan, p, d.io.sig) /\ Checked(plan, p, d.io.sig)
                PROVE  Moves
  <2>1. CASE op.type = "sign"
    <3>1. ~(p = "server" /\ plan.kex = "rsa") BY <1>2, <1>3, <2>1 DEF Operation
    <3>2. Here(p).by = p
      BY <1>4, <3>1, AtFacts DEF Operates
    <3>3. /\ DOMAIN c.io = MessageFields /\ c.io.type = Here(p).type
          /\ c.io.type = "server_key" => c.io.params = Parameters(plan, run)
      BY <1>1, <1>3, <1>4, <3>2, WaitsHere
    <3>4. PICK sig : sig = op.signature OBVIOUS
    <3>5. /\ DOMAIN d = ConnectionFields /\ SamePlace(d, c) /\ d.err = c.err /\ SameVerdict(d, c)
          /\ SameExchange(d, c) /\ d.written = c.written + 1
          /\ DOMAIN d.io = MessageFields /\ d.io.sig = sig /\ d.io.type = c.io.type
          /\ d.io.params = c.io.params
      BY <1>2, <1>7, <2>1, <3>3, <3>4, WrittenSignature
    <3>6. Signature(plan, p, sig) BY <1>2, <1>3, <2>1, <3>4 DEF Operation
    <3>7. Checked(plan, p, sig)
      <4>1. SUFFICES ASSUME Strict(plan, p) PROVE sig.key = Own(plan, p) BY DEF Checked
      <4>2. op.mode = "strict" BY <1>2, <1>3, <2>1, <4>1 DEF Operation, Strict
      <4>3. s2n_async_pkey_sign_apply(op, OwnKey(p)) BY <1>3, <2>1 DEF ResultAccepted
      <4>4. sig = s2n_pkey_sign(OwnKey(p), op.digest)
        BY <3>4, <4>2, <4>3
           DEF s2n_async_pkey_sign_apply, s2n_async_pkey_verify_signature, s2n_pkey_verify
      <4> QED BY <4>4 DEF s2n_pkey_sign, OwnKey, Own
    <3> QED BY <1>10, <3>1, <3>3, <3>5, <3>6, <3>7
  <2>2. CASE op.type # "sign"
    <3>1. p = "server" /\ plan.kex = "rsa" /\ op.type = "decrypt"
      BY <1>2, <1>3, <2>2 DEF Operation
    <3>2. Here(p).by # p
      <4>1. Here(p).type # "server_key" /\ Here(p) # At("server", "cert_verify")
        BY <1>5, <3>1, MemberFacts
      <4> QED BY <1>4, <3>1, <4>1, AtFacts DEF Operates
    <3>3. PICK failed, secret : failed = op.rsa_failed /\ secret = op.decrypted OBVIOUS
    <3>4. /\ DOMAIN d = ConnectionFields /\ SamePlace(d, c) /\ d.err = c.err /\ SameVerdict(d, c)
          /\ SameExchange(d, c) /\ d.written = c.written + 1
          /\ failed => d.rsa_failed
      BY <1>2, <1>7, <2>2, <3>3, DecryptedFacts DEF SameExchange
    <3>5. plan.uses["server"] = "wrong" => d.rsa_failed
      <4>1. DecryptionTaken(failed, secret) BY <1>3, <2>2, <3>3 DEF ResultAccepted
      <4>2. secret.size = S2N_TLS_SECRET_LEN
        BY <4>1 DEF DecryptionTaken, s2n_rsa_client_key_recv_complete
      <4>3. plan.uses["server"] = "wrong" => failed
        BY <1>2, <1>3, <3>1, <3>3, <4>2 DEF Operation
      <4> QED BY <3>4, <4>3
    <3> QED BY <1>10, <3>2, <3>4, <3>5
  <2> QED BY <2>1, <2>2
<1>11. /\ DOMAIN e = ConnectionFields /\ SamePlace(e, c) /\ e.err = c.err /\ SameVerdict(e, c)
       /\ SameExchange(e, c) /\ e.written = 1 /\ e.async_state = "COMPLETE"
       /\ e.rsa_failed = d.rsa_failed /\ e.io = d.io
  BY <1>4, <1>8, <1>10 DEF ConnectionFields, SamePlace, SameVerdict, SameExchange
<1>12. Change(conn, conn', p) /\ conn'[p] = e BY <1>0, <1>9, <1>11, SetFacts
<1>13. Stays(p) BY <1>1, <1>9, <1>11, <1>12 DEF Stays, Stay, SamePlace
<1>14. Applies(p) BY <1>1, <1>3, <1>6, <1>10, <1>11, <1>12, <1>13 DEF Applies
<1> QED BY <1>14 DEF Moves

LEMMA NextMoves ==
    ASSUME Inv, Next
    PROVE  Moves
<1>1. ASSUME NEW p \in Peers, PeerStep(p) PROVE Moves
  BY <1>1, SendCertMoves, SendCertVerifyMoves, RecvCertVerifyMoves, SendFinishedMoves,
     RecvFinishedMoves, PeerGoneMoves DEF PeerStep
<1>2. CASE ClientStep
  BY <1>2, RecvServerCertMoves, RecvStatusMoves, RecvServerKeyMoves, SendClientKeyMoves DEF ClientStep
<1>3. CASE ServerStep
  BY <1>3, RecvClientCertMoves, SendStatusMoves, SendServerKeyMoves, RecvRsaClientKeyMoves,
     RecvClientKeyMoves DEF ServerStep
<1>4. CASE AppStep
  BY <1>4, AppPerformMoves, AppSetOutputMoves, AppSetModeMoves, AppFreeMoves, AppApplyMoves,
     AppGiveUpMoves, AppJudgeMoves, AppLookupMoves DEF AppStep
<1>5. CASE AppWipe BY <1>5, AppWipeMoves
<1>6. CASE Tick BY <1>6 DEF Tick, Ticks, Moves
<1> QED BY <1>1, <1>2, <1>3, <1>4, <1>5, <1>6 DEF Next

----------------------------------------------------------------------------
(* Every kind of step keeps every part of the invariant, and what follows  *)
(* from it.                                                                *)

----------------------------------------------------------------------------
(* What a moving peer leaves and what it adds.                             *)

Grows(p, m) ==
    /\ conn[p].step \in 1..Len(FlowOf(plan)) /\ conn'[p].step = conn[p].step + 1
    /\ \A k \in 1..conn[p].step : conn'[p].transcript[k] = conn[p].transcript[k]
    /\ conn'[p].transcript[conn[p].step + 1] = m
    /\ conn'[Other(p)] = conn[Other(p)] /\ conn[p].err = "OK" /\ Still

LEMMA Growing ==
    ASSUME Inv, NEW p \in Peers, NEW m, conn[p].step <= Len(FlowOf(plan)),
           conn'[p].step = conn[p].step + 1, conn'[p].transcript = Append(conn[p].transcript, m),
           Change(conn, conn', p), Still, conn[p].err = "OK"
    PROVE  Grows(p, m)
<1>1. Aligned(plan, run, conn, wire) BY DEF Inv
<1>0. PICK t : t = conn[p].transcript OBVIOUS
<1>5. /\ conn[p].step \in Nat /\ conn[p].step >= 1 /\ Row(conn[p].transcript)
      /\ Len(conn[p].transcript) = conn[p].step /\ Len(FlowOf(plan)) \in Nat
  BY <1>1, AlignedTypes
<1>2. PICK n \in Nat, s \in Nat :
        /\ n = Len(FlowOf(plan)) /\ s = conn[p].step /\ s >= 1
        /\ Row(t) /\ Len(t) = s
  BY <1>0, <1>5
<1>3. PICK u : u = Append(t, m) OBVIOUS
<1>4. u[s + 1] = m /\ \A i \in 1..s : u[i] = t[i] BY <1>2, <1>3, RowAppend
<1> QED BY <1>0, <1>2, <1>3, <1>4 DEF Grows, Change

LEMMA SendsGrows ==
    ASSUME Inv, NEW p \in Peers, NEW m, Sends(p, m)
    PROVE  Grows(p, m) /\ Here(p) = At(p, m.type) /\ Here(p).by = p /\ Here(p).type = m.type
<1>1. /\ conn[p].step <= Len(FlowOf(plan)) /\ Here(p) = At(p, m.type)
      /\ conn'[p].step = conn[p].step + 1 /\ conn'[p].transcript = Append(conn[p].transcript, m)
      /\ Change(conn, conn', p) /\ Still /\ conn[p].err = "OK"
  BY DEF Sends, Send, Here
<1>2. Grows(p, m) BY <1>1, Growing
<1> QED BY <1>1, <1>2, AtFacts

(* What is taken is what the other peer wrote at this step.                *)
LEMMA TakesGrows ==
    ASSUME Inv, NEW p \in Peers, Takes(p)
    PROVE  /\ Grows(p, Head(wire[p])) /\ Here(p).by = Other(p)
           /\ Head(wire[p]) = Altered(plan.tamper, conn[Other(p)].transcript[conn[p].step + 1])
           /\ DOMAIN conn[Other(p)].transcript[conn[p].step + 1] = MessageFields
           /\ conn[Other(p)].transcript[conn[p].step + 1].type = Here(p).type
           /\ conn[p].step \in 1..(conn[Other(p)].step - 1)
<1>1. /\ conn[p].step <= Len(FlowOf(plan)) /\ Here(p).by = Other(p) /\ wire[p] # <<>>
      /\ conn'[p].step = conn[p].step + 1 /\ conn'[p].transcript = Append(conn[p].transcript, Head(wire[p]))
      /\ Change(conn, conn', p) /\ Still /\ conn[p].err = "OK"
  BY DEF Takes, Take, Here
<1>2. PICK h : h = Head(wire[p]) OBVIOUS
<1>3. Grows(p, h) BY <1>1, <1>2, Growing
<1>4. Aligned(plan, run, conn, wire) BY DEF Inv
<1> QED BY <1>1, <1>2, <1>3, <1>4, HeadFacts DEF Here

LEMMA StaysFacts ==
    ASSUME NEW p \in Peers, Stays(p)
    PROVE  /\ conn'[p].step = conn[p].step /\ conn'[p].transcript = conn[p].transcript
           /\ conn'[Other(p)] = conn[Other(p)] /\ wire' = wire /\ Still
<1> QED BY DEF Stays, Stay, Change

LEMMA HereFacts ==
    ASSUME Inv, NEW p \in Peers, conn[p].step <= Len(FlowOf(plan))
    PROVE  /\ conn[p].step \in 1..Len(FlowOf(plan)) /\ Here(p) \in Members(plan) /\ Here(p) \in Steps
           /\ Here(p) = At(Here(p).by, Here(p).type)
<1>1. Aligned(plan, run, conn, wire) BY DEF Inv
<1>2. conn[p].step \in 1..Len(FlowOf(plan)) BY <1>1, AlignedTypes
<1>3. Here(p) \in Members(plan) /\ Here(p) \in Steps BY <1>2, FlowFacts DEF Here
<1> QED BY <1>2, <1>3, MemberFacts

(* A step of one peer.                                                     *)
MovesOne(p) ==
    \/ Quits(p) \/ Asks(p) \/ Reads(p) \/ Applies(p) \/ Examines(p)
    \/ \E m : Speaks(p, m) \/ Signs(p, m)
    \/ p = "client" /\ \E m : SharesKey(m)
    \/ p = "server" /\ Decrypts
Idles ==
    /\ plan' = plan /\ run' = run /\ conn' = conn /\ wire' = wire /\ Held(plan, ops')
    /\ now' = now \/ now' = now + 1

LEMMA ThreeWays ==
    ASSUME Inv, Moves
    PROVE  (\E p \in Peers : MovesOne(p)) \/ Idles \/ Restarts
<1>1. Held(plan, ops) BY DEF Inv
<1>2. Works => Idles BY DEF Works, Idles, Still
<1>3. Ticks => Idles BY <1>1 DEF Ticks, Idles
<1>4. "client" \in Peers /\ "server" \in Peers BY DEF Peers
<1> QED BY <1>2, <1>3, <1>4 DEF Moves, MovesOne

(* Either the peer stays where it is or it goes on by one message.         *)
LEMMA OneMove ==
    ASSUME Inv, NEW p \in Peers, MovesOne(p)
    PROVE  /\ Still /\ conn'[Other(p)] = conn[Other(p)]
           /\ \/ Stays(p)
              \/ \E m : Sends(p, m)
              \/ Takes(p)
<1>1. \/ Stays(p)
      \/ \E m : Sends(p, m)
      \/ Takes(p)
  BY DEF MovesOne, Quits, Asks, Reads, Applies, Examines, Speaks, Signs, SharesKey, Decrypts
<1>2. CASE Stays(p) BY <1>2, StaysFacts
<1>3. CASE \E m : Sends(p, m) BY <1>3 DEF Sends, Send, Change
<1>4. CASE Takes(p) BY <1>4 DEF Takes, Take, Change
<1> QED BY <1>1, <1>2, <1>3, <1>4

----------------------------------------------------------------------------
(* Shapes, transcripts and wires.                                          *)

LEMMA AlignedNext ==
    ASSUME Inv, NEW p \in Peers, MovesOne(p)
    PROVE  Shapes(conn', wire') /\ Aligned(plan, run, conn', wire')
<1>1. Shapes(conn, wire) /\ Aligned(plan, run, conn, wire) BY DEF Inv
<1>2. CASE Stays(p)
  <2>1. Stay(conn, wire, conn', wire', p) BY <1>2 DEF Stays
  <2>2. Change(conn, conn', p) /\ DOMAIN wire' = Peers BY <1>1, <2>1 DEF Stay, Shapes
  <2> QED BY <1>1, <2>1, <2>2, AlignedStay, ShapesKept
<1>3. ASSUME NEW m, Sends(p, m) PROVE Shapes(conn', wire') /\ Aligned(plan, run, conn', wire')
  <2>1. Send(plan, conn, wire, conn', wire', p, m) BY <1>3 DEF Sends
  <2>2. Change(conn, conn', p) /\ DOMAIN wire' = Peers BY <2>1 DEF Send
  <2> QED BY <1>1, <2>1, <2>2, AlignedSend, ShapesKept
<1>4. CASE Takes(p)
  <2>1. Take(plan, conn, wire, conn', wire', p) BY <1>4 DEF Takes
  <2>2. Change(conn, conn', p) /\ DOMAIN wire' = Peers BY <2>1 DEF Take
  <2> QED BY <1>1, <2>1, <2>2, AlignedTake, ShapesKept
<1> QED BY <1>2, <1>3, <1>4, OneMove

----------------------------------------------------------------------------
(* What was written.                                                       *)

LEMMA WroteNew ==
    ASSUME Inv, NEW p \in Peers, MovesOne(p), NEW m, Sends(p, m)
    PROVE  \E w : Sends(p, w) /\ Wrote(plan, run, p, w.type, w)
<1>0. conn'[p].step = conn[p].step + 1 /\ conn[p].step \in Nat
  <2>1. Aligned(plan, run, conn, wire) BY DEF Inv
  <2> QED BY <2>1, AlignedTypes DEF Sends, Send
<1>1. ~Stays(p) BY <1>0, StaysFacts
<1>2. ~Takes(p)
  <2>1. Here(p).by = p BY SendsGrows
  <2>2. Takes(p) => Here(p).by = Other(p) BY TakesGrows
  <2> QED BY <2>1, <2>2, Pair2
<1> QED BY <1>1, <1>2
        DEF MovesOne, Quits, Asks, Reads, Applies, Examines, Speaks, Signs, SharesKey, Decrypts

LEMMA WrittenNext ==
    ASSUME Inv, NEW p \in Peers, MovesOne(p)
    PROVE  Written(plan, run, conn')
<1>1. Written(plan, run, conn) /\ Aligned(plan, run, conn, wire) BY DEF Inv
<1>2. conn'[Other(p)] = conn[Other(p)] BY OneMove
<1>3. PICK n \in Nat, s \in Nat : n = Len(FlowOf(plan)) /\ s = conn[p].step BY <1>1, AlignedTypes
<1>4. SUFFICES ASSUME NEW k \in 1..(conn'[p].step - 1), FlowOf(plan)[k].by = p
               PROVE  Wrote(plan, run, p, FlowOf(plan)[k].type, conn'[p].transcript[k + 1])
  BY <1>1, <1>2, Pair2 DEF Written
<1>5. CASE Stays(p) BY <1>1, <1>4, <1>5, StaysFacts DEF Written
<1>6. ASSUME NEW m, Grows(p, m), k < s
      PROVE  Wrote(plan, run, p, FlowOf(plan)[k].type, conn'[p].transcript[k + 1])
  <2>1. k \in 1..(s - 1) /\ k + 1 \in 1..s BY <1>3, <1>6
  <2> QED BY <1>1, <1>3, <1>4, <1>6, <2>1 DEF Written, Grows
<1>7. ASSUME NEW w, Sends(p, w)
      PROVE  Wrote(plan, run, p, FlowOf(plan)[k].type, conn'[p].transcript[k + 1])
  <2>1. PICK m : Sends(p, m) /\ Wrote(plan, run, p, m.type, m) BY <1>7, WroteNew
  <2>2. Grows(p, m) /\ Here(p).type = m.type BY <2>1, SendsGrows
  <2>3. conn'[p].step = s + 1 BY <1>3, <2>2 DEF Grows
  <2>4. k < s \/ k = s BY <1>3, <2>3
  <2>5. CASE k = s BY <1>3, <2>1, <2>2, <2>5 DEF Grows, Here
  <2> QED BY <1>6, <2>2, <2>4, <2>5
<1>8. CASE Takes(p)
  <2>1. Grows(p, Head(wire[p])) /\ Here(p).by = Other(p) BY <1>8, TakesGrows
  <2>2. conn'[p].step = s + 1 BY <1>3, <2>1 DEF Grows
  <2>3. k # s BY <1>3, <1>4, <2>1, Pair2 DEF Here
  <2>4. k < s BY <1>3, <2>2, <2>3
  <2> QED BY <1>6, <2>1, <2>4
<1> QED BY <1>5, <1>7, <1>8, OneMove

----------------------------------------------------------------------------
(* Operations that wait.                                                   *)

LEMMA WaitsSame ==
    ASSUME NEW x, NEW r, NEW p, NEW c, NEW d, Waits(x, r, p, c), d.step = c.step,
           d.async_state = c.async_state, d.written = c.written, d.io = c.io
    PROVE  Waits(x, r, p, d)
<1> QED BY DEF Waits

LEMMA WaitsPast ==
    ASSUME NEW x, NEW r, NEW p, NEW d, d.written = 1, d.async_state \in {"NOT_INVOKED", "COMPLETE"},
           d.step \in Nat, \A k \in d.step..Len(FlowOf(x)) : ~Operates(x, p, FlowOf(x)[k])
    PROVE  Waits(x, r, p, d)
<1>1. Len(FlowOf(x)) \in Nat BY FlowFacts
<1>2. d.step <= Len(FlowOf(x)) => ~Operates(x, p, FlowOf(x)[d.step]) BY <1>1
<1> QED BY <1>2 DEF Waits

LEMMA WaitsNot ==
    ASSUME NEW x, NEW r, NEW p, NEW d, d.written = 0, d.async_state = "NOT_INVOKED"
    PROVE  Waits(x, r, p, d)
<1> QED BY DEF Waits

(* A peer goes on where it has no use for its key.                         *)
LEMMA WaitsOn ==
    ASSUME Inv, NEW p \in Peers, NEW m, Grows(p, m), ~Operates(plan, p, Here(p)),
           SameKeys(conn'[p], conn[p])
    PROVE  Waits(plan, run, p, conn'[p])
<1>1. PICK c, d : c = conn[p] /\ d = conn'[p] OBVIOUS
<1>2. Waits(plan, run, p, c) BY <1>1 DEF Inv, Waiting
<1>3. PICK n \in Nat : n = Len(FlowOf(plan)) BY FlowFacts
<1>4. c.step \in 1..n /\ d.step = c.step + 1 /\ ~Operates(plan, p, FlowOf(plan)[c.step])
  BY <1>1, <1>3 DEF Grows, Here
<1>5. c.async_state # "INVOKED" BY <1>2, <1>4 DEF Waits
<1>6. d.async_state = c.async_state /\ d.written = c.written BY <1>1 DEF SameKeys
<1>7. CASE c.written = 1
  <2>1. ASSUME NEW k \in d.step..n PROVE ~Operates(plan, p, FlowOf(plan)[k])
    <3>1. k \in c.step..n /\ k # c.step BY <1>4
    <3> QED BY <1>2, <1>3, <1>7, <3>1 DEF Waits
  <2>2. c.async_state \in {"NOT_INVOKED", "COMPLETE"} BY <1>2, <1>5 DEF Waits
  <2>3. d.step \in Nat BY <1>4
  <2> QED BY <1>1, <1>3, <1>6, <1>7, <2>1, <2>2, <2>3, WaitsPast
<1>8. CASE c.written # 1
  <2>1. c.written = 0 /\ c.async_state = "NOT_INVOKED" BY <1>2, <1>5, <1>8 DEF Waits
  <2> QED BY <1>1, <1>6, <2>1, WaitsNot
<1> QED BY <1>7, <1>8

(* Or has used it.                                                         *)
LEMMA WaitsDone ==
    ASSUME Inv, NEW p \in Peers, NEW m, Grows(p, m), Operates(plan, p, Here(p)),
           conn'[p].written = 1, conn'[p].async_state \in {"NOT_INVOKED", "COMPLETE"}
    PROVE  Waits(plan, run, p, conn'[p])
<1>1. PICK c, d : c = conn[p] /\ d = conn'[p] OBVIOUS
<1>2. PICK n \in Nat : n = Len(FlowOf(plan)) BY FlowFacts
<1>3. c.step \in 1..n /\ d.step = c.step + 1 /\ Operates(plan, p, FlowOf(plan)[c.step])
  BY <1>1, <1>2 DEF Grows, Here
<1>4. ASSUME NEW k \in d.step..n PROVE ~Operates(plan, p, FlowOf(plan)[k])
  <2>1. k \in 1..n /\ k # c.step BY <1>3
  <2> QED BY <1>2, <1>3, <2>1, OneOperation
<1>5. d.step \in Nat BY <1>3
<1> QED BY <1>1, <1>2, <1>4, <1>5, WaitsPast

LEMMA WaitsNext ==
    ASSUME Inv, NEW p \in Peers, MovesOne(p)
    PROVE  Waits(plan, run, p, conn'[p])
<1>1. Waits(plan, run, p, conn[p]) BY DEF Inv, Waiting
<1>2. ASSUME Stays(p), SameKeys(conn'[p], conn[p]), conn'[p].io = conn[p].io
      PROVE  Waits(plan, run, p, conn'[p])
  BY <1>1, <1>2, StaysFacts, WaitsSame DEF SameKeys
<1>3. CASE Quits(p) BY <1>2, <1>3 DEF Quits
<1>4. CASE Asks(p)
  <2>1. /\ Stays(p) /\ conn[p].async_state = "NOT_INVOKED" /\ conn'[p].async_state = "INVOKED"
        /\ conn'[p].written = conn[p].written
        /\ conn[p].step <= Len(FlowOf(plan)) /\ Operates(plan, p, Here(p))
        /\ Here(p).by = p =>
             /\ DOMAIN conn'[p].io = MessageFields /\ conn'[p].io.type = Here(p).type
             /\ conn'[p].io.type = "server_key" => conn'[p].io.params = Parameters(plan, run)
    BY <1>4 DEF Asks
  <2>2. conn[p].written = 0 BY <2>1, WaitsHere
  <2>3. conn'[p].step = conn[p].step BY <2>1, StaysFacts
  <2> QED BY <2>1, <2>2, <2>3 DEF Waits, Here
<1>5. CASE Reads(p)
  <2>1. Takes(p) /\ SameKeys(conn'[p], conn[p]) BY <1>5 DEF Reads
  <2>2. Grows(p, Head(wire[p])) BY <2>1, TakesGrows
  <2>3. PICK b : b = Other(p) OBVIOUS
  <2>4. b # p /\ b \in Peers BY <2>3, Pair2
  <2>5. \/ Here(p) \in {At(b, "cert_verify"), At(b, "finished"), At("client", "cert")}
        \/ Here(p) = At("server", "server_key") /\ p = "client"
        \/ Here(p) = At("client", "client_key") /\ p = "server" /\ plan.kex # "rsa"
    BY <1>5, <2>3 DEF Reads
  <2>6. ~Operates(plan, p, Here(p)) BY <2>4, <2>5, AtFacts DEF Operates
  <2>7. PICK h : h = Head(wire[p]) OBVIOUS
  <2> QED BY <2>1, <2>2, <2>6, <2>7, WaitsOn
<1>6. CASE Applies(p)
  <2>1. /\ Stays(p) /\ conn[p].async_state = "INVOKED" /\ conn'[p].async_state = "COMPLETE"
        /\ conn'[p].written = 1
        /\ Here(p).by = p =>
             /\ DOMAIN conn'[p].io = MessageFields /\ conn'[p].io.type = Here(p).type
             /\ conn'[p].io.type = "server_key" => conn'[p].io.params = Parameters(plan, run)
             /\ Signature(plan, p, conn'[p].io.sig) /\ Checked(plan, p, conn'[p].io.sig)
    BY <1>6 DEF Applies
  <2>2. conn'[p].step = conn[p].step BY <2>1, StaysFacts
  <2>3. conn[p].step <= Len(FlowOf(plan)) /\ Operates(plan, p, Here(p)) BY <1>1, <2>1 DEF Waits, Here
  <2>4. PICK n \in Nat, s \in Nat : n = Len(FlowOf(plan)) /\ s = conn[p].step /\ s \in 1..n
    BY <2>3, HereFacts, FlowFacts
  <2>5. ASSUME NEW k \in s..n, Operates(plan, p, FlowOf(plan)[k]) PROVE k = s
    <3>1. k \in 1..n BY <2>4
    <3> QED BY <2>3, <2>4, <2>5, <3>1, OneOperation DEF Here
  <2> QED BY <2>1, <2>2, <2>4, <2>5 DEF Waits, Here
<1>7. CASE Examines(p)
  <2>1. CASE Stays(p) /\ conn'[p].io = conn[p].io BY <1>2, <1>7, <2>1 DEF Examines
  <2>2. CASE Takes(p) /\ Here(p).type \in {"cert", "status"}
    <3>1. PICK h : h = Head(wire[p]) OBVIOUS
    <3>2. Grows(p, h) BY <2>2, <3>1, TakesGrows
    <3>3. ~Operates(plan, p, Here(p)) BY <2>2, AtFacts DEF Operates
    <3> QED BY <1>7, <3>2, <3>3, WaitsOn DEF Examines
  <2> QED BY <1>7, <2>1, <2>2 DEF Examines
<1>8. ASSUME NEW m, Speaks(p, m) PROVE Waits(plan, run, p, conn'[p])
  <2>1. Sends(p, m) /\ m.type \in {"cert", "status", "finished"} /\ SameKeys(conn'[p], conn[p])
    BY <1>8 DEF Speaks
  <2>2. Grows(p, m) /\ Here(p).type = m.type BY <2>1, SendsGrows
  <2>3. ~Operates(plan, p, Here(p)) BY <2>1, <2>2, AtFacts DEF Operates
  <2> QED BY <2>1, <2>2, <2>3, WaitsOn
<1>9. ASSUME NEW m, Signs(p, m) PROVE Waits(plan, run, p, conn'[p])
  <2>1. /\ Sends(p, m) /\ m.type \in {"server_key", "cert_verify"} /\ conn'[p].written = 1
        /\ conn'[p].async_state \in {"NOT_INVOKED", "COMPLETE"}
    BY <1>9 DEF Signs
  <2>2. Grows(p, m) /\ Here(p) = At(p, m.type) /\ Here(p).type = m.type /\ Here(p).by = p
    BY <2>1, SendsGrows
  <2>3. conn[p].step <= Len(FlowOf(plan)) BY <2>2, FlowFacts DEF Grows
  <2>4. m.type = "server_key" => p = "server"
    <3>1. Here(p).type = "server_key" => Here(p).by = "server" BY <2>3, HereFacts, MemberFacts
    <3> QED BY <2>2, <3>1
  <2>5. Operates(plan, p, Here(p)) BY <2>1, <2>2, <2>4 DEF Operates
  <2> QED BY <2>1, <2>2, <2>5, WaitsDone
<1>10. ASSUME NEW m, p = "client", SharesKey(m) PROVE Waits(plan, run, p, conn'[p])
  <2>1. Sends(p, m) /\ m.type = "client_key" /\ SameKeys(conn'[p], conn[p])
    BY <1>10 DEF SharesKey
  <2>2. Grows(p, m) /\ Here(p).type = m.type BY <2>1, SendsGrows
  <2>3. ~Operates(plan, p, Here(p)) BY <1>10, <2>1, <2>2, AtFacts DEF Operates
  <2> QED BY <2>1, <2>2, <2>3, WaitsOn
<1>11. CASE p = "server" /\ Decrypts
  <2>1. /\ Takes(p) /\ plan.kex = "rsa" /\ Here(p) = At("client", "client_key")
        /\ conn'[p].written = 1 /\ conn'[p].async_state \in {"NOT_INVOKED", "COMPLETE"}
    BY <1>11 DEF Decrypts
  <2>2. PICK h : h = Head(wire[p]) OBVIOUS
  <2>3. Grows(p, h) BY <2>1, <2>2, TakesGrows
  <2>4. Operates(plan, p, Here(p)) BY <1>11, <2>1 DEF Operates
  <2> QED BY <2>1, <2>3, <2>4, WaitsDone
<1> QED BY <1>3, <1>4, <1>5, <1>6, <1>7, <1>8, <1>9, <1>10, <1>11 DEF MovesOne

LEMMA HeldAppend ==
    ASSUME NEW x, NEW o, Held(x, o), NEW op, Operation(x, op), NEW q, q = Append(o, op)
    PROVE  Held(x, q)
<1>1. Row(o) /\ \A i \in DOMAIN o : Operation(x, o[i]) BY DEF Held
<1>2. PICK n \in Nat : n = Len(o) /\ DOMAIN o = 1..n BY <1>1, RowFacts
<1>3. Row(q) /\ Len(q) = n + 1 /\ q[n + 1] = op /\ \A i \in 1..n : q[i] = o[i] BY <1>1, <1>2, RowAppend
<1>4. DOMAIN q = 1..(n + 1) BY <1>2, <1>3, RowFacts
<1>5. ASSUME NEW i \in 1..(n + 1) PROVE Operation(x, q[i])
  <2>1. i \in 1..n \/ i = n + 1 OBVIOUS
  <2> QED BY <1>1, <1>2, <1>3, <2>1
<1> QED BY <1>3, <1>4, <1>5 DEF Held

LEMMA HeldNext ==
    ASSUME Inv, NEW p \in Peers, MovesOne(p)
    PROVE  Held(plan, ops')
<1>1. Held(plan, ops) BY DEF Inv
<1>2. NewOps \/ Held(plan, ops')
  BY DEF MovesOne, Quits, Asks, Reads, Applies, Examines, Speaks, Signs, SharesKey, Decrypts, NewOps
<1> QED BY <1>1, <1>2, HeldAppend DEF NewOps

----------------------------------------------------------------------------
(* The silence of the RSA decryption.                                      *)

(* The client's Finished message comes after its key.                      *)
LEMMA KeyBeforeFinished ==
    ASSUME NEW x, NEW i \in 1..Len(FlowOf(x)), NEW j \in 1..Len(FlowOf(x)), i <= j,
           FlowOf(x)[i].type = "finished"
    PROVE  FlowOf(x)[j].type # "client_key"
<1>1. SUFFICES ASSUME FlowOf(x)[j].type = "client_key" PROVE FALSE OBVIOUS
<1>2. /\ FlowOf(x)[i] \in Steps /\ FlowOf(x)[j] \in Steps /\ FlowOf(x)[j] \in Members(x)
      /\ FlowOf(x)[i] \in Members(x)
  BY FlowFacts
<1>3. x.kex # "tls13" BY <1>1, <1>2, MemberFacts
<1>4. FlowOf(x)[i].by \in Peers BY <1>2 DEF Steps
<1>5. Place(x, FlowOf(x)[i]) \in {7, 8} BY <1>3, <1>4 DEF Place, Peers
<1>6. Place(x, FlowOf(x)[j]) = 5 BY <1>1 DEF Place
<1>7. j < i BY <1>5, <1>6, Earlier
<1> QED BY <1>7, FlowFacts

LEMMA SilentNext ==
    ASSUME Inv, NEW p \in Peers, MovesOne(p)
    PROVE  Silent(plan, conn'["server"])
<1>0. Silent(plan, conn["server"]) /\ Aligned(plan, run, conn, wire) BY DEF Inv
<1>1. CASE p # "server"
  <2>1. p = "client" /\ Other(p) = "server" BY <1>1 DEF Peers, Other
  <2> QED BY <1>0, <2>1, OneMove
<1>2. SUFFICES ASSUME p = "server", plan.kex = "rsa" PROVE Silent(plan, conn'["server"])
  BY <1>1 DEF Silent
<1>3. PICK c, d : c = conn["server"] /\ d = conn'["server"] OBVIOUS
<1>4. PICK n \in Nat, s \in Nat : n = Len(FlowOf(plan)) /\ s = c.step /\ s >= 1 /\ s <= n + 1
  BY <1>0, <1>2, <1>3, AlignedTypes
<1>5. /\ \A k \in 1..(s - 1) : FlowOf(plan)[k].type = "client_key" => c.written = 1
      /\ plan.uses["server"] = "wrong" /\ c.written = 1 => c.rsa_failed
      /\ c.rsa_failed => \A k \in 1..(s - 1) : FlowOf(plan)[k] # At("client", "finished")
      /\ c.err \notin {"OK", "CLOSED", "CLOSED_BY_APP"} =>
           s <= n /\ FlowOf(plan)[s].type # "client_key"
  BY <1>0, <1>2, <1>3, <1>4 DEF Silent
<1>6. ASSUME Stays(p), d.written = c.written, d.rsa_failed = c.rsa_failed,
             d.err = c.err \/ Excused(p)
      PROVE  Silent(plan, d)
  <2>1. d.step = s BY <1>2, <1>3, <1>4, <1>6, StaysFacts
  <2>2. d.err \notin {"OK", "CLOSED", "CLOSED_BY_APP"} =>
           s <= n /\ FlowOf(plan)[s].type # "client_key"
    BY <1>2, <1>3, <1>4, <1>5, <1>6 DEF Excused, Here
  <2> QED BY <1>4, <1>5, <1>6, <2>1, <2>2 DEF Silent
(* Going on, with nothing told.                                            *)
<1>7. ASSUME NEW m, Grows(p, m), d.err = c.err,
             Here(p).type = "client_key" => d.written = 1,
             plan.uses["server"] = "wrong" /\ d.written = 1 => d.rsa_failed,
             d.rsa_failed => Here(p) # At("client", "finished"),
             \/ d.written = c.written /\ d.rsa_failed = c.rsa_failed
             \/ d.written = 1 /\ Here(p).type = "client_key"
      PROVE  Silent(plan, d)
  <2>1. d.step = s + 1 /\ s \in 1..n /\ Here(p) = FlowOf(plan)[s] /\ d.err = "OK"
    BY <1>2, <1>3, <1>4, <1>7 DEF Grows, Here
  <2>2. ASSUME NEW k \in 1..(d.step - 1), FlowOf(plan)[k].type = "client_key" PROVE d.written = 1
    <3>1. k \in 1..(s - 1) \/ k = s BY <2>1
    <3> QED BY <1>5, <1>7, <2>1, <2>2, <3>1
  <2>3. ASSUME NEW k \in 1..(d.step - 1), d.rsa_failed PROVE FlowOf(plan)[k] # At("client", "finished")
    <3>1. k \in 1..(s - 1) \/ k = s BY <2>1
    <3>2. CASE k = s BY <1>7, <2>1, <2>3, <3>2
    <3>3. CASE k \in 1..(s - 1) /\ d.rsa_failed = c.rsa_failed BY <1>5, <2>3, <3>3
    <3>4. CASE k \in 1..(s - 1) /\ Here(p).type = "client_key"
      <4>1. k \in 1..n /\ k <= s BY <2>1, <3>4
      <4>2. FlowOf(plan)[k].type # "finished" BY <1>4, <2>1, <3>4, <4>1, KeyBeforeFinished
      <4> QED BY <4>2, AtFacts
    <3> QED BY <1>7, <3>1, <3>2, <3>3, <3>4
  <2> QED BY <1>7, <2>1, <2>2, <2>3 DEF Silent
<1>8. CASE Quits(p) BY <1>2, <1>3, <1>6, <1>8 DEF Quits, SameKeys
<1>9. CASE Asks(p) BY <1>2, <1>3, <1>6, <1>9 DEF Asks
<1>10. ASSUME NEW m, Grows(p, m), SameKeys(d, c), d.err = c.err, Here(p).type # "client_key",
              Here(p) # At("client", "finished") \/ ~c.rsa_failed
       PROVE  Silent(plan, d)
  BY <1>5, <1>7, <1>10 DEF SameKeys
<1>11. CASE Reads(p)
  <2>1. PICK h : h = Head(wire[p]) OBVIOUS
  <2>2. Grows(p, h) /\ SameKeys(d, c) /\ d.err = c.err
    BY <1>2, <1>3, <1>11, <2>1, TakesGrows DEF Reads
  <2>3. \/ Here(p) \in {At("client", "cert_verify"), At("client", "cert")}
        \/ Here(p) = At("client", "finished") /\ ~c.rsa_failed
    BY <1>2, <1>3, <1>11 DEF Reads, Other
  <2> QED BY <1>2, <1>3, <1>10, <2>2, <2>3, AtFacts
<1>12. CASE Applies(p)
  <2>1. /\ Stays(p) /\ d.err = c.err /\ d.written = 1 /\ c.async_state = "INVOKED"
        /\ plan.uses["server"] = "wrong" => d.rsa_failed
    BY <1>2, <1>3, <1>12 DEF Applies
  <2>2. d.step = s BY <1>2, <1>3, <1>4, <2>1, StaysFacts
  <2>3. s <= n /\ Operates(plan, p, Here(p))
    BY <1>2, <1>3, <1>4, <2>1 DEF Inv, Waiting, Waits, Here
  <2>4. Here(p) \in Members(plan) /\ Here(p) \in Steps /\ Here(p) = FlowOf(plan)[s]
    BY <1>2, <1>3, <1>4, <2>3, HereFacts DEF Here
  <2>5. Here(p) = At("client", "client_key")
    <3>1. Here(p).type # "server_key" /\ Here(p) # At("server", "cert_verify")
      BY <1>2, <2>4, MemberFacts
    <3> QED BY <1>2, <2>3, <3>1, AtFacts DEF Operates
  <2>6. ASSUME NEW k \in 1..(s - 1) PROVE FlowOf(plan)[k] # At("client", "finished")
    <3>1. k \in 1..n /\ s \in 1..n /\ k <= s BY <1>4, <2>3
    <3>2. FlowOf(plan)[s].type = "client_key" BY <2>4, <2>5, AtFacts
    <3>3. FlowOf(plan)[k].type # "finished" BY <1>4, <3>1, <3>2, KeyBeforeFinished
    <3> QED BY <3>3, AtFacts
  <2> QED BY <1>2, <1>3, <1>4, <1>5, <2>1, <2>2, <2>6 DEF Silent
<1>13. CASE Examines(p)
  <2>1. SameKeys(d, c) BY <1>2, <1>3, <1>13 DEF Examines
  <2>2. CASE Stays(p) /\ Excused(p) BY <1>3, <1>6, <2>1, <2>2 DEF SameKeys
  <2>3. CASE Takes(p) /\ Here(p).type \in {"cert", "status"} /\ d.err = c.err
    <3>1. PICK h : h = Head(wire[p]) OBVIOUS
    <3>2. Grows(p, h) BY <2>3, <3>1, TakesGrows
    <3> QED BY <1>3, <1>10, <2>1, <2>3, <3>2, AtFacts
  <2> QED BY <1>2, <1>3, <1>13, <2>2, <2>3 DEF Examines
<1>14. ASSUME NEW m, Speaks(p, m) PROVE Silent(plan, d)
  <2>1. /\ Sends(p, m) /\ m.type \in {"cert", "status", "finished"} /\ SameKeys(d, c) /\ d.err = c.err
    BY <1>2, <1>3, <1>14 DEF Speaks
  <2>2. Grows(p, m) /\ Here(p) = At(p, m.type) /\ Here(p).type = m.type BY <2>1, SendsGrows
  <2> QED BY <1>2, <1>10, <2>1, <2>2, AtFacts
<1>15. ASSUME NEW m, Signs(p, m) PROVE Silent(plan, d)
  <2>1. Sends(p, m) /\ m.type \in {"server_key", "cert_verify"} BY <1>15 DEF Signs
  <2>2. Grows(p, m) /\ Here(p) = At(p, m.type) /\ Here(p).type = m.type BY <2>1, SendsGrows
  <2>3. conn[p].step <= Len(FlowOf(plan)) BY <2>2, FlowFacts DEF Grows
  <2>4. Here(p).type # "server_key" /\ Here(p) # At("server", "cert_verify")
    BY <1>2, <2>3, HereFacts, MemberFacts
  <2> QED BY <1>2, <2>1, <2>2, <2>4
<1>16. CASE Decrypts
  <2>1. PICK h : h = Head(wire[p]) OBVIOUS
  <2>2. /\ Takes(p) /\ Here(p) = At("client", "client_key") /\ d.err = c.err /\ d.written = 1
        /\ plan.uses["server"] = "wrong" => d.rsa_failed
    BY <1>2, <1>3, <1>16 DEF Decrypts
  <2>3. Grows(p, h) BY <2>1, <2>2, TakesGrows
  <2>4. Here(p).type = "client_key" /\ Here(p) # At("client", "finished") BY <2>2, AtFacts
  <2>5. Here(p).type = "client_key" => d.written = 1 BY <2>2
  <2>6. plan.uses["server"] = "wrong" /\ d.written = 1 => d.rsa_failed BY <2>2
  <2>7. d.rsa_failed => Here(p) # At("client", "finished") BY <2>4
  <2>8. d.err = c.err /\ d.written = 1 /\ Here(p).type = "client_key" BY <2>2, <2>4
  <2>9. Silent(plan, d) BY ONLY <1>7, <2>3, <2>5, <2>6, <2>7, <2>8
  <2> QED BY <1>3, <2>9
<1> QED BY <1>2, <1>3, <1>8, <1>9, <1>11, <1>12, <1>13, <1>14, <1>15, <1>16 DEF MovesOne

----------------------------------------------------------------------------
(* Signatures and shares.                                                  *)

LEMMA VerifiedNext ==
    ASSUME Inv, NEW p \in Peers, MovesOne(p)
    PROVE  Verified(plan, conn')
<1>0. Verified(plan, conn) /\ Aligned(plan, run, conn, wire) BY DEF Inv
<1>1. PICK c, d, b : c = conn[p] /\ d = conn'[p] /\ b = Other(p) OBVIOUS
<1>2. PICK n \in Nat, s \in Nat : n = Len(FlowOf(plan)) /\ s = c.step BY <1>0, <1>1, AlignedTypes
<1>3. conn'[Other(p)] = conn[Other(p)] BY OneMove
<1>4. /\ c.peer_key # NoKey => c.peer_key = Own(plan, b)
      /\ \A k \in 1..(s - 1) :
           FlowOf(plan)[k].by = b /\ FlowOf(plan)[k].type \in {"server_key", "cert_verify"} =>
             c.transcript[k + 1].sig.key \in {NoKey, Own(plan, b)}
  BY <1>0, <1>1, <1>2 DEF Verified
<1>5. d.peer_key \in {c.peer_key, NoKey, Own(plan, b)}
  BY <1>1 DEF MovesOne, Quits, Asks, Reads, Applies, Examines, Speaks, Signs, SharesKey, Decrypts,
              SameExchange
<1>6. SUFFICES ASSUME NEW k \in 1..(d.step - 1), FlowOf(plan)[k].by = b,
                      FlowOf(plan)[k].type \in {"server_key", "cert_verify"}
               PROVE  d.transcript[k + 1].sig.key \in {NoKey, Own(plan, b)}
  BY <1>0, <1>1, <1>3, <1>4, <1>5, Pair2 DEF Verified
<1>7. CASE Stays(p) BY <1>1, <1>2, <1>4, <1>6, <1>7, StaysFacts
<1>8. ASSUME NEW m, Grows(p, m), k < s PROVE d.transcript[k + 1].sig.key \in {NoKey, Own(plan, b)}
  <2>1. k \in 1..(s - 1) /\ k + 1 \in 1..s BY <1>2, <1>8
  <2>2. d.transcript[k + 1] = c.transcript[k + 1] BY <1>1, <1>2, <1>8, <2>1 DEF Grows
  <2> QED BY <1>4, <1>6, <2>1, <2>2
<1>9. ASSUME NEW m, Sends(p, m) PROVE d.transcript[k + 1].sig.key \in {NoKey, Own(plan, b)}
  <2>1. Grows(p, m) /\ Here(p).by = p BY <1>9, SendsGrows
  <2>2. d.step = s + 1 /\ Here(p) = FlowOf(plan)[s] BY <1>1, <1>2, <2>1 DEF Grows, Here
  <2>3. k # s BY <1>1, <1>6, <2>1, <2>2, Pair2
  <2>4. k < s BY <1>2, <2>2, <2>3
  <2> QED BY <1>8, <2>1, <2>4
<1>10. CASE Takes(p)
  <2>1. PICK h : h = Head(wire[p]) OBVIOUS
  <2>2. Grows(p, h) /\ Here(p).by = b BY <1>1, <1>10, <2>1, TakesGrows
  <2>3. d.step = s + 1 /\ Here(p) = FlowOf(plan)[s] BY <1>1, <1>2, <2>2 DEF Grows, Here
  <2>4. k < s \/ k = s BY <1>2, <2>3
  <2>5. CASE k = s
    <3>1. d.transcript[k + 1] = h BY <1>1, <1>2, <2>2, <2>5 DEF Grows
    <3>2. Here(p).type \in {"server_key", "cert_verify"} BY <1>6, <2>3, <2>5
    <3>3. ~Stays(p) BY <1>1, <1>2, <2>3, StaysFacts
    <3>4. \A m : ~Sends(p, m) BY <1>1, <2>2, SendsGrows, Pair2
    <3>5. Reads(p)
      <4>1. Decrypts /\ p = "server" => Here(p).type = "client_key" BY AtFacts DEF Decrypts
      <4> QED BY <3>2, <3>3, <3>4, <4>1
              DEF MovesOne, Quits, Asks, Applies, Examines, Speaks, Signs, SharesKey
    <3>6. h.sig.key = c.peer_key
      <4>1. Here(p) # At(b, "finished") /\ Here(p) # At("client", "client_key") /\ Here(p) # At("client", "cert")
        BY <3>2, AtFacts
      <4> QED BY <1>1, <2>1, <3>5, <4>1 DEF Reads
    <3> QED BY <1>4, <3>1, <3>6
  <2> QED BY <1>8, <2>2, <2>4, <2>5
<1> QED BY <1>7, <1>9, <1>10, OneMove

LEMMA AgreedNext ==
    ASSUME Inv, NEW p \in Peers, MovesOne(p)
    PROVE  Agreed(plan, run, conn')
<1>0. Agreed(plan, run, conn) BY DEF Inv
<1>1. CASE p # "client"
  <2>1. Other(p) = "client" BY <1>1 DEF Peers, Other
  <2> QED BY <1>0, <2>1, OneMove DEF Agreed
<1>2. CASE p = "client"
  <2>1. conn'["client"].shares \in {conn["client"].shares, <<>>, Parameters(plan, run)}
    BY <1>2 DEF MovesOne, Quits, Asks, Reads, Applies, Examines, Speaks, Signs, SharesKey, SameExchange
  <2> QED BY <1>0, <2>1 DEF Agreed
<1> QED BY <1>1, <1>2

----------------------------------------------------------------------------
(* Finished messages.                                                      *)

(* A peer that is past a Finished message keeps its secret, and what it    *)
(* has of the transcript it always keeps.                                  *)
LEMMA SecretKept ==
    ASSUME Inv, NEW p \in Peers, MovesOne(p), NEW k \in 1..(conn[p].step - 1),
           FlowOf(plan)[k].type = "finished"
    PROVE  conn'[p].master = conn[p].master
<1>0. Aligned(plan, run, conn, wire) BY DEF Inv
<1>1. PICK n \in Nat, s \in Nat : n = Len(FlowOf(plan)) /\ s = conn[p].step /\ s <= n + 1
  BY <1>0, AlignedTypes
<1>2. SUFFICES ASSUME s <= n, Here(p).type = "client_key" PROVE FALSE
  <2>1. Reads(p) => \/ conn'[p].master = conn[p].master
                    \/ Takes(p) /\ Here(p).type = "client_key"
    BY AtFacts DEF Reads, SameExchange
  <2>2. ASSUME NEW m, p = "client", SharesKey(m)
        PROVE  s <= n /\ Here(p).type = "client_key"
    <3>1. Sends(p, m) /\ m.type = "client_key" BY <2>2 DEF SharesKey
    <3> QED BY <1>1, <3>1, SendsGrows DEF Sends, Send
  <2>3. ASSUME p = "server", Decrypts PROVE Takes(p) /\ Here(p).type = "client_key"
    BY <2>3, AtFacts DEF Decrypts
  <2>4. Takes(p) => s <= n BY <1>1 DEF Takes, Take
  <2>5. \/ conn'[p].master = conn[p].master
        \/ Takes(p) /\ Here(p).type = "client_key"
        \/ s <= n /\ Here(p).type = "client_key"
    BY <2>1, <2>2, <2>3 DEF MovesOne, Quits, Asks, Applies, Examines, Speaks, Signs, SameExchange
  <2> QED BY <1>2, <2>4, <2>5
<1>3. k \in 1..n /\ s \in 1..n /\ k <= s BY <1>1, <1>2
<1>4. FlowOf(plan)[s].type # "client_key" BY <1>1, <1>3, KeyBeforeFinished
<1> QED BY <1>1, <1>2, <1>4 DEF Here

LEMMA TranscriptKept ==
    ASSUME Inv, NEW p \in Peers, MovesOne(p)
    PROVE  /\ \A k \in 1..conn[p].step : conn'[p].transcript[k] = conn[p].transcript[k]
           /\ conn'[p].step \in {conn[p].step, conn[p].step + 1}
<1>1. CASE Stays(p) BY <1>1, StaysFacts
<1>2. CASE \E m : Sends(p, m) BY <1>2, SendsGrows DEF Grows
<1>3. CASE Takes(p)
  <2>1. PICK h : h = Head(wire[p]) OBVIOUS
  <2>2. Grows(p, h) BY <1>3, <2>1, TakesGrows
  <2> QED BY <2>2 DEF Grows
<1> QED BY <1>1, <1>2, <1>3, OneMove

(* A Finished message that is sent.                                        *)
LEMMA FinishedSent ==
    ASSUME Inv, NEW p \in Peers, MovesOne(p), conn[p].step <= Len(FlowOf(plan)),
           Here(p) = At(p, "finished"), conn'[p].step = conn[p].step + 1
    PROVE  conn'[p].transcript[conn[p].step + 1].over
             = <<conn'[p].master, Upto(conn'[p].transcript, conn[p].step)>>
<1>0. Aligned(plan, run, conn, wire) BY DEF Inv
<1>1. PICK s, t : s \in Nat /\ s = conn[p].step /\ t = conn[p].transcript /\ Row(t) /\ Len(t) = s
  <2>1. /\ conn[p].step \in Nat /\ Row(conn[p].transcript)
        /\ Len(conn[p].transcript) = conn[p].step
    BY <1>0, AlignedTypes
  <2> QED BY <2>1
<1>2. Here(p).by = p /\ Here(p).type = "finished" BY AtFacts
<1>3. ~Stays(p) BY <1>1, StaysFacts
<1>4. ~Takes(p) BY <1>2, TakesGrows, Pair2
<1>5. PICK m : Speaks(p, m)
  <2>1. \A m : Sends(p, m) => m.type = "finished" BY <1>2, SendsGrows
  <2>2. \A m : ~Signs(p, m) BY <2>1 DEF Signs
  <2>3. p = "client" => \A m : ~SharesKey(m) BY <2>1 DEF SharesKey
  <2> QED BY <1>3, <1>4, <2>2, <2>3 DEF MovesOne, Quits, Asks, Reads, Applies, Examines, Decrypts
<1>6. Sends(p, m) /\ conn'[p].master = conn[p].master BY <1>5 DEF Speaks, SameExchange
<1>7. Grows(p, m) /\ m.type = "finished" BY <1>2, <1>6, SendsGrows
<1>8. m.over = <<conn[p].master, t>> BY <1>1, <1>5, <1>7 DEF Speaks
<1>9. DOMAIN t = 1..s /\ t = [i \in 1..s |-> t[i]]
  <2>1. t \in Seq({t[i] : i \in DOMAIN t}) BY <1>1 DEF Row
  <2> QED BY <1>1, <2>1
<1>10. Upto(conn'[p].transcript, s) = t BY <1>1, <1>7, <1>9 DEF Upto, Grows
<1> QED BY <1>1, <1>6, <1>7, <1>8, <1>10 DEF Grows

(* A Finished message that is taken.                                       *)
LEMMA FinishedTaken ==
    ASSUME Inv, NEW p \in Peers, MovesOne(p), conn[p].step <= Len(FlowOf(plan)),
           Here(p) = At(Other(p), "finished"), conn'[p].step = conn[p].step + 1
    PROVE  /\ conn'[p].master = conn[Other(p)].master
           /\ \A i \in 1..conn[p].step : conn[p].transcript[i] = conn[Other(p)].transcript[i]
<1>0. Aligned(plan, run, conn, wire) /\ Finishes(plan, conn) BY DEF Inv
<1>1. PICK s, t, q : s \in Nat /\ s = conn[p].step /\ t = conn[p].transcript /\ q = Other(p)
  BY <1>0, AlignedTypes
<1>2. Here(p).by = q /\ Here(p).type = "finished" /\ q \in Peers /\ q # p /\ Other(q) = p
  BY <1>1, AtFacts, Pair2
<1>3. ~Stays(p) BY <1>1, StaysFacts
<1>4. \A m : ~Sends(p, m) BY <1>2, SendsGrows
<1>5. Reads(p)
  <2>1. p = "server" => ~Decrypts BY <1>2, AtFacts DEF Decrypts
  <2>2. ~Examines(p) BY <1>2, <1>3 DEF Examines
  <2> QED BY <1>3, <1>4, <2>1, <2>2 DEF MovesOne, Quits, Asks, Applies, Speaks, Signs, SharesKey
<1>6. Takes(p) /\ Head(wire[p]).over = <<conn[p].master, t>> /\ conn'[p].master = conn[p].master
  <2>1. \A type : Here(p) = At(q, type) => type = "finished" BY <1>1, AtFacts
  <2>2. Here(p) # At("server", "server_key") /\ Here(p) # At("client", "client_key")
        /\ Here(p) # At("client", "cert") /\ Here(p) # At(q, "cert_verify")
    BY <1>2, AtFacts
  <2> QED BY <1>1, <1>5, <2>2 DEF Reads, SameExchange
<1>7. PICK m : m = conn[q].transcript[s + 1] OBVIOUS
<1>8. /\ Head(wire[p]) = Altered(plan.tamper, m) /\ DOMAIN m = MessageFields /\ m.type = "finished"
      /\ s \in 1..(conn[q].step - 1)
  BY <1>1, <1>2, <1>6, <1>7, TakesGrows
<1>9. m.over = <<conn[p].master, t>> BY <1>6, <1>8, AlteredFacts
<1>10. m.over = <<conn[q].master, Upto(conn[q].transcript, s)>>
  BY <1>0, <1>1, <1>2, <1>7, <1>8 DEF Finishes, Here
<1>11. conn[p].master = conn[q].master /\ t = Upto(conn[q].transcript, s) BY <1>9, <1>10
<1>12. \A i \in 1..s : t[i] = conn[q].transcript[i] BY <1>11 DEF Upto
<1> QED BY <1>1, <1>6, <1>11, <1>12

LEMMA FinishesNext ==
    ASSUME Inv, NEW p \in Peers, MovesOne(p)
    PROVE  Finishes(plan, conn')
<1>0. Aligned(plan, run, conn, wire) /\ Finishes(plan, conn) BY DEF Inv
<1>1. PICK q, c, d, e : q = Other(p) /\ c = conn[p] /\ d = conn'[p] /\ e = conn[q] OBVIOUS
<1>2. q \in Peers /\ q # p /\ Other(q) = p /\ conn'[q] = e /\ \A z \in Peers : z = p \/ z = q
  BY <1>1, OneMove, Pair2
<1>3. PICK n \in Nat, s \in Nat : n = Len(FlowOf(plan)) /\ s = c.step /\ s >= 1 /\ s <= n + 1
  BY <1>0, <1>1, AlignedTypes
<1>4. (\A k \in 1..s : d.transcript[k] = c.transcript[k]) /\ d.step \in {s, s + 1}
  BY <1>1, <1>3, TranscriptKept
<1>5. ASSUME NEW k \in 1..(s - 1), FlowOf(plan)[k].type = "finished"
      PROVE  d.master = c.master /\ Upto(d.transcript, k) = Upto(c.transcript, k)
             /\ d.transcript[k + 1] = c.transcript[k + 1]
             /\ \A i \in 1..k : d.transcript[i] = c.transcript[i]
  <2>1. d.master = c.master BY <1>1, <1>3, <1>5, SecretKept
  <2>2. k + 1 \in 1..s /\ \A i \in 1..k : i \in 1..s BY <1>3
  <2>3. \A i \in 1..k : d.transcript[i] = c.transcript[i] BY <1>4, <2>2
  <2>4. Upto(d.transcript, k) = Upto(c.transcript, k) BY <2>3 DEF Upto
  <2> QED BY <1>4, <2>1, <2>2, <2>3, <2>4
<1>6. ASSUME NEW k \in 1..(d.step - 1), ~(k \in 1..(s - 1))
      PROVE  k = s /\ s <= n /\ d.step = s + 1 /\ Here(p) = FlowOf(plan)[k]
  <2>1. k = s /\ d.step = s + 1 BY <1>3, <1>4, <1>6
  <2>2. d.step <= n + 1
    <3>1. Aligned(plan, run, conn', wire') BY AlignedNext
    <3> QED BY <1>1, <1>3, <3>1, AlignedTypes
  <2> QED BY <1>1, <1>3, <2>1, <2>2 DEF Here
<1>7. ASSUME NEW k \in 1..(d.step - 1), FlowOf(plan)[k] = At(p, "finished")
      PROVE  d.transcript[k + 1].over = <<d.master, Upto(d.transcript, k)>>
  <2>0. FlowOf(plan)[k].type = "finished" BY <1>7, AtFacts
  <2>1. CASE k \in 1..(s - 1)
    <3>1. c.transcript[k + 1].over = <<c.master, Upto(c.transcript, k)>>
      BY <1>0, <1>1, <1>3, <1>7, <2>1 DEF Finishes
    <3> QED BY <1>5, <2>0, <2>1, <3>1
  <2>2. CASE ~(k \in 1..(s - 1)) BY <1>1, <1>3, <1>6, <1>7, <2>2, FinishedSent
  <2> QED BY <2>1, <2>2
<1>8. ASSUME NEW k \in 1..(d.step - 1), FlowOf(plan)[k] = At(q, "finished")
      PROVE  d.master = e.master /\ \A i \in 1..k : d.transcript[i] = e.transcript[i]
  <2>0. FlowOf(plan)[k].type = "finished" BY <1>8, AtFacts
  <2>1. CASE k \in 1..(s - 1)
    <3>1. c.master = e.master /\ \A i \in 1..k : c.transcript[i] = e.transcript[i]
      BY <1>0, <1>1, <1>3, <1>8, <2>1 DEF Finishes
    <3> QED BY <1>5, <2>0, <2>1, <3>1
  <2>2. CASE ~(k \in 1..(s - 1))
    <3>1. k = s /\ s <= n /\ d.step = s + 1 /\ Here(p) = At(q, "finished") BY <1>6, <1>8, <2>2
    <3>2. d.master = e.master /\ \A i \in 1..s : c.transcript[i] = e.transcript[i]
      BY <1>1, <1>3, <3>1, FinishedTaken
    <3> QED BY <1>4, <3>1, <3>2
  <2> QED BY <2>1, <2>2
<1>9. ASSUME NEW k \in 1..(e.step - 1), FlowOf(plan)[k] = At(q, "finished")
      PROVE  e.transcript[k + 1].over = <<e.master, Upto(e.transcript, k)>>
  BY <1>0, <1>1, <1>2, <1>9 DEF Finishes
<1>10. ASSUME NEW k \in 1..(e.step - 1), FlowOf(plan)[k] = At(p, "finished")
       PROVE  e.master = d.master /\ \A i \in 1..k : e.transcript[i] = d.transcript[i]
  <2>1. FlowOf(plan)[k].type = "finished" /\ FlowOf(plan)[k].by = p BY <1>10, AtFacts
  <2>2. e.master = c.master /\ \A i \in 1..k : e.transcript[i] = c.transcript[i]
    BY <1>0, <1>1, <1>2, <1>10 DEF Finishes
  <2>3. k \in 1..(s - 1) BY <1>0, <1>1, <1>2, <1>3, <2>1, TakenFacts
  <2> QED BY <1>5, <2>1, <2>2, <2>3
<1> QED BY <1>1, <1>2, <1>7, <1>8, <1>9, <1>10 DEF Finishes

----------------------------------------------------------------------------
(* The validator.                                                          *)

(* A verdict outlives the messages that are not about it.                  *)
LEMMA JudgesKept ==
    ASSUME NEW x, NEW p \in Peers, NEW c, NEW d, NEW t \in Nat, Judges(x, p, c, t), SameVerdict(d, c),
           c.step \in Nat,
           \/ d.step = c.step
           \/ /\ d.step = c.step + 1
              /\ p = "client" => FlowOf(x)[c.step] \notin {At("server", "cert"), At("server", "status")}
    PROVE  Judges(x, p, d, t)
<1>1. PICK s \in Nat, n \in Nat : s = c.step /\ n = Len(FlowOf(x)) BY FlowFacts
<1>2. /\ d.v = c.v /\ d.seen = c.seen /\ d.took = c.took /\ d.lookups = c.lookups
      /\ d.judged = c.judged /\ d.client_cert_chain = c.client_cert_chain
  BY DEF SameVerdict
<1>3. \A k \in d.step..n : k \in s..n BY <1>1
<1>4. \A k \in d.step..n : FlowOf(x)[k] = At(Other(p), "cert") => d.took = -1
  BY <1>1, <1>2, <1>3 DEF Judges
<1>5. ASSUME NEW k \in 1..(d.step - 1), p = "client"
      PROVE  /\ FlowOf(x)[k] = At("server", "cert") => d.took # -1
             /\ FlowOf(x)[k] = At("server", "status") /\ x.staple.type = "ocsp" =>
                  d.v.state = "OCSP_VALIDATED"
  <2>1. CASE k \in 1..(s - 1)
    <3>1. /\ FlowOf(x)[k] = At("server", "cert") => c.took # -1
          /\ FlowOf(x)[k] = At("server", "status") /\ x.staple.type = "ocsp" =>
               c.v.state = "OCSP_VALIDATED"
      BY <1>1, <1>5, <2>1 DEF Judges
    <3> QED BY <1>2, <3>1
  <2>2. CASE ~(k \in 1..(s - 1))
    <3>1. k = s /\ d.step = s + 1 BY <1>1, <2>2
    <3> QED BY <1>1, <1>5, <3>1
  <2> QED BY <2>1, <2>2
<1>6. /\ Settings(d.v, x.conf[p])
      /\ Progress(d.v, x.conf[p], x.chain[Other(p)], d.seen, End(d, t))
      /\ Called(d.v, x.conf[p], StapleFor(x, p))
  BY <1>2 DEF Judges, End
<1>7. /\ d.seen \in -1..t /\ d.took \in -1..t
      /\ d.seen = -1 => /\ d.v.state = "INIT" /\ d.v.lookups = <<>> /\ ~d.v.cb_invoked
                        /\ d.took = -1 /\ d.lookups = 0 /\ d.judged = 0
      /\ d.lookups \in 0..1 /\ d.judged \in 0..1
      /\ d.v.state = "INIT" => d.lookups = 0
      /\ ~d.v.cb_invoked => d.judged = 0
      /\ d.v.cb_invoked \in BOOLEAN /\ d.v.finished \in BOOLEAN
      /\ d.took # -1 => d.seen <= d.took /\ Accepted(d.v, x.conf[p], StapleFor(x, p))
      /\ p = "client" => Stapled(d.v, x.staple, d.seen, t)
      /\ p = "server" =>
           /\ d.client_cert_chain \in {<<>>, x.chain["client"]}
           /\ d.took # -1 => d.client_cert_chain = x.chain["client"]
           /\ d.v.state # "OCSP_VALIDATED"
  BY <1>2 DEF Judges
<1> QED BY <1>1, <1>4, <1>5, <1>6, <1>7 DEF Judges

LEMMA JudgedNext ==
    ASSUME Inv, NEW p \in Peers, MovesOne(p)
    PROVE  Judged(plan, conn', now)
<1>0. Aligned(plan, run, conn, wire) /\ Judged(plan, conn, now) /\ now \in Nat BY DEF Inv
<1>1. PICK q, c, d : q = Other(p) /\ c = conn[p] /\ d = conn'[p] OBVIOUS
<1>2. q \in Peers /\ conn'[q] = conn[q] /\ \A z \in Peers : z = p \/ z = q BY <1>1, OneMove, Pair2
<1>3. Judges(plan, q, conn'[q], now) BY <1>0, <1>2 DEF Judged
<1>4. Judges(plan, p, c, now) /\ c.step \in Nat BY <1>0, <1>1, AlignedTypes DEF Judged
<1>5. CASE Examines(p) BY <1>2, <1>3, <1>5 DEF Examines, Judged
<1>6. CASE ~Examines(p)
  <2>1. SameVerdict(d, c)
    BY <1>1, <1>6 DEF MovesOne, Quits, Asks, Reads, Applies, Speaks, Signs, SharesKey, Decrypts
  <2>2. CASE Stays(p) BY <1>1, <1>2, <1>3, <1>4, <2>1, <2>2, <1>0, StaysFacts, JudgesKept DEF Judged
  <2>3. ASSUME d.step = c.step + 1,
               p = "client" => Here(p) \notin {At("server", "cert"), At("server", "status")}
        PROVE  Judged(plan, conn', now)
    <3>1. FlowOf(plan)[c.step] = Here(p) BY <1>1 DEF Here
    <3>2. Judges(plan, p, d, now) BY <1>0, <1>4, <2>1, <2>3, <3>1, JudgesKept
    <3> QED BY <1>1, <1>2, <1>3, <3>2 DEF Judged
  <2>4. ASSUME NEW m, Sends(p, m) PROVE Judged(plan, conn', now)
    <3>1. Grows(p, m) /\ Here(p).by = p BY <2>4, SendsGrows
    <3> QED BY <1>1, <2>3, <3>1, AtFacts DEF Grows
  <2>5. CASE Takes(p)
    <3>1. d.step = c.step + 1 BY <1>1, <2>5, TakesGrows DEF Grows
    <3>2. CASE p = "client"
      <4>1. Here(p).by = Other(p) BY <2>5, TakesGrows
      <4>2. ~Stays(p) /\ \A m : ~Sends(p, m)
        BY <1>1, <1>4, <3>1, <4>1, StaysFacts, SendsGrows, Pair2
      <4>3. Reads(p) BY <1>6, <3>2, <4>2 DEF MovesOne, Quits, Asks, Applies, Speaks, Signs, SharesKey
      <4>4. Here(p) \in {At("server", "cert_verify"), At("server", "finished"), At("server", "server_key")}
        BY <3>2, <4>3 DEF Reads, Other
      <4> QED BY <2>3, <3>1, <4>4, AtFacts
    <3>3. CASE p # "client" BY <2>3, <3>1, <3>3
    <3> QED BY <3>2, <3>3
  <2> QED BY <2>2, <2>4, <2>5, OneMove
<1> QED BY <1>5, <1>6

----------------------------------------------------------------------------
(* Time passes.                                                            *)

LEMMA Later ==
    ASSUME NEW v, NEW conf, NEW chain, NEW a \in Int, NEW b \in Int, NEW e \in Int, b <= e,
           Progress(v, conf, chain, a, b)
    PROVE  Progress(v, conf, chain, a, e)
<1>1. \A t \in a..b : t \in a..e OBVIOUS
<1>2. \A i \in DOMAIN v.lookups : LookupSound(v.lookups[i], conf, a, e)
  <2>1. ASSUME NEW i \in DOMAIN v.lookups PROVE LookupSound(v.lookups[i], conf, a, e)
    <3>1. LookupSound(v.lookups[i], conf, a, b) BY DEF Progress
    <3> QED BY <1>1, <3>1 DEF LookupSound
  <2> QED BY <2>1
<1>3. v.state \in {"VALIDATED", "OCSP_VALIDATED"} /\ ~v.skip =>
         /\ \E t \in a..e : Anchored(conf, chain, t)
         /\ conf.crl # "none" => NotRevoked(v)
  BY <1>1 DEF Progress
<1> QED BY <1>2, <1>3 DEF Progress

LEMMA JudgesLater ==
    ASSUME NEW x, NEW p \in Peers, NEW c, NEW t \in Nat, Judges(x, p, c, t)
    PROVE  Judges(x, p, c, t + 1)
<1>1. /\ Settings(c.v, x.conf[p])
      /\ Progress(c.v, x.conf[p], x.chain[Other(p)], c.seen, End(c, t))
      /\ c.seen \in -1..t /\ c.took \in -1..t
      /\ p = "client" => Stapled(c.v, x.staple, c.seen, t)
  BY DEF Judges
<1>2. End(c, t) \in Int /\ End(c, t + 1) \in Int /\ End(c, t) <= End(c, t + 1) BY <1>1 DEF End
<1>3. Progress(c.v, x.conf[p], x.chain[Other(p)], c.seen, End(c, t + 1))
  <2>1. PICK b \in Int, e \in Int : b = End(c, t) /\ e = End(c, t + 1) BY <1>2
  <2>2. c.seen \in Int BY <1>1
  <2> QED BY <1>1, <1>2, <2>1, <2>2, Later
<1>4. c.seen \in -1..(t + 1) /\ c.took \in -1..(t + 1) BY <1>1
<1>5. p = "client" => Stapled(c.v, x.staple, c.seen, t + 1)
  <2>1. \A u \in c.seen..t : u \in c.seen..(t + 1) BY <1>1
  <2> QED BY <1>1, <2>1 DEF Stapled
<1> QED BY <1>3, <1>4, <1>5 DEF Judges

LEMMA IdleKeeps ==
    ASSUME Inv, Idles
    PROVE  Inv'
<1>1. plan' = plan /\ run' = run /\ conn' = conn /\ wire' = wire /\ Held(plan, ops') BY DEF Idles
<1>2. now' \in Nat BY DEF Inv, Idles
<1>3. Judged(plan, conn, now')
  <2>1. ASSUME NEW p \in Peers PROVE Judges(plan, p, conn[p], now')
    <3>1. now \in Nat /\ Judges(plan, p, conn[p], now) BY DEF Inv, Judged
    <3>2. Judges(plan, p, conn[p], now + 1) BY <3>1, JudgesLater
    <3> QED BY <3>1, <3>2 DEF Idles
  <2> QED BY <2>1 DEF Judged
<1> QED BY <1>1, <1>2, <1>3 DEF Inv

----------------------------------------------------------------------------
(* New connections, and the connections after a wipe.                      *)

LEMMA ConnectionNew ==
    ASSUME NEW p, NEW r, NEW c, c = NewConnection(p, r)
    PROVE  /\ DOMAIN c = ConnectionFields /\ c.step = 1 /\ c.err = "OK" /\ c.async_state = "NOT_INVOKED"
           /\ c.written = 0 /\ c.v = s2n_x509_validator_init(plan.conf[p]) /\ c.peer_key = NoKey
           /\ c.client_cert_chain = <<>> /\ c.shares = <<>> /\ ~c.rsa_failed
           /\ c.transcript = <<Hellos(r)>> /\ c.seen = -1 /\ c.took = -1
           /\ c.lookups = 0 /\ c.judged = 0
<1> QED BY DEF NewConnection, ConnectionFields, Hellos

LEMMA ValidatorNew ==
    ASSUME NEW conf, NEW v, v = s2n_x509_validator_init(conf)
    PROVE  /\ Settings(v, conf) /\ v.state = "INIT" /\ v.lookups = <<>> /\ v.chain = <<>>
           /\ v.cb_invoked = FALSE /\ v.finished = FALSE
<1>1. /\ DOMAIN v = ValidatorFields /\ v.skip = conf.skip
      /\ v.check_ocsp = (~conf.skip /\ conf.check_ocsp)
      /\ v.trust = IF conf.skip THEN {} ELSE conf.trust
      /\ v.depth = IF conf.skip \/ conf.depth = 0 THEN DEFAULT_MAX_CHAIN_DEPTH ELSE conf.depth
      /\ v.state = "INIT" /\ v.lookups = <<>> /\ v.chain = <<>>
      /\ v.cb_invoked = FALSE /\ v.finished = FALSE
  BY DEF s2n_x509_validator_init, UninitValidator, ValidatorFields
<1> QED BY <1>1 DEF Settings, Depth

LEMMA JudgesNew ==
    ASSUME plan \in Plans, NEW p \in Peers, NEW r, NEW c, c = NewConnection(p, r), NEW t \in Nat
    PROVE  Judges(plan, p, c, t)
<1>1. /\ c.step = 1 /\ c.v = s2n_x509_validator_init(plan.conf[p]) /\ c.client_cert_chain = <<>>
      /\ c.seen = -1 /\ c.took = -1 /\ c.lookups = 0 /\ c.judged = 0
  BY ConnectionNew
<1>2. PICK v, conf, chain, staple :
        /\ v = c.v /\ conf = plan.conf[p] /\ chain = plan.chain[Other(p)] /\ staple = StapleFor(plan, p)
  OBVIOUS
<1>4. /\ Settings(v, conf) /\ v.state = "INIT" /\ v.lookups = <<>> /\ v.chain = <<>>
      /\ v.cb_invoked = FALSE /\ v.finished = FALSE
  <2>1. v = s2n_x509_validator_init(conf) BY <1>1, <1>2
  <2> QED BY ONLY <2>1, ValidatorNew
<1>5. Row(<<>>) /\ DOMAIN <<>> = {}
  <2>1. <<>> \in Seq({}) OBVIOUS
  <2>2. Row(<<>>) BY <2>1, RowOf
  <2> QED BY <2>2
<1>7. Progress(v, conf, chain, c.seen, End(c, t)) BY <1>4, <1>5 DEF Progress
<1>8. Called(v, conf, staple) BY <1>4 DEF Called
<1>9. Stapled(v, plan.staple, c.seen, t) BY <1>4 DEF Stapled
<1>10. \A k \in 1..(c.step - 1) : FALSE BY <1>1
<1>11. /\ Settings(c.v, plan.conf[p])
       /\ Progress(c.v, plan.conf[p], plan.chain[Other(p)], c.seen, End(c, t))
       /\ Called(c.v, plan.conf[p], StapleFor(plan, p)) /\ Stapled(c.v, plan.staple, c.seen, t)
  BY <1>2, <1>4, <1>7, <1>8, <1>9
<1>12. /\ c.v.state = "INIT" /\ c.v.lookups = <<>> /\ ~c.v.cb_invoked
       /\ c.v.cb_invoked \in BOOLEAN /\ c.v.finished \in BOOLEAN
  BY <1>2, <1>4
<1>13. c.seen \in -1..t /\ c.took \in -1..t /\ c.lookups \in 0..1 /\ c.judged \in 0..1 BY <1>1
<1>14. c.client_cert_chain \in {<<>>, plan.chain["client"]} BY <1>1
<1> QED BY <1>1, <1>10, <1>11, <1>12, <1>13, <1>14 DEF Judges

LEMMA FreshStart ==
    ASSUME plan \in Plans, NEW r \in 0..1, NEW f, NEW w, NEW t \in Nat,
           f = [p \in Peers |-> NewConnection(p, r)], w = [p \in Peers |-> <<>>]
    PROVE  /\ Shapes(f, w) /\ Aligned(plan, r, f, w) /\ Written(plan, r, f)
           /\ Waiting(plan, r, f) /\ Silent(plan, f["server"])
           /\ Verified(plan, f) /\ Agreed(plan, r, f) /\ Finishes(plan, f) /\ Judged(plan, f, t)
<1>1. ASSUME NEW p \in Peers
      PROVE  /\ DOMAIN f[p] = ConnectionFields /\ f[p].step = 1 /\ f[p].err = "OK"
             /\ f[p].async_state = "NOT_INVOKED" /\ f[p].written = 0 /\ f[p].peer_key = NoKey
             /\ f[p].shares = <<>> /\ ~f[p].rsa_failed /\ f[p].transcript = <<Hellos(r)>>
             /\ w[p] = <<>>
  <2>1. f[p] = NewConnection(p, r) /\ w[p] = <<>> OBVIOUS
  <2> QED BY <2>1, ConnectionNew
<1>2. "client" \in Peers /\ "server" \in Peers BY DEF Peers
<1>3. \A p \in Peers : \A k \in 1..(f[p].step - 1) : FALSE BY <1>1
<1>4. Shapes(f, w) BY <1>1 DEF Shapes
<1>5. Aligned(plan, r, f, w) BY <1>1, AlignedFresh
<1>6. Written(plan, r, f) BY <1>3 DEF Written
<1>7. Waiting(plan, r, f) BY <1>1, WaitsNot DEF Waiting
<1>8. Silent(plan, f["server"]) BY <1>1, <1>2, <1>3 DEF Silent
<1>9. Verified(plan, f) BY <1>1, <1>3 DEF Verified
<1>10. Agreed(plan, r, f) BY <1>1, <1>2 DEF Agreed
<1>11. Finishes(plan, f) BY <1>3 DEF Finishes
<1>12. Judged(plan, f, t)
  <2>1. ASSUME NEW p \in Peers PROVE Judges(plan, p, f[p], t)
    <3>1. f[p] = NewConnection(p, r) OBVIOUS
    <3> QED BY <3>1, JudgesNew
  <2> QED BY <2>1 DEF Judged
<1> QED BY <1>4, <1>5, <1>6, <1>7, <1>8, <1>9, <1>10, <1>11, <1>12

----------------------------------------------------------------------------
(* The invariant is kept.                                                  *)

LEMMA MoveKeeps ==
    ASSUME Inv, NEW p \in Peers, MovesOne(p)
    PROVE  Inv'
<1>1. plan' = plan /\ run' = run /\ now' = now /\ conn'[Other(p)] = conn[Other(p)]
  BY OneMove DEF Still
<1>2. Shapes(conn', wire') /\ Aligned(plan, run, conn', wire') BY AlignedNext
<1>3. Written(plan, run, conn') BY WrittenNext
<1>4. Waiting(plan, run, conn')
  <2>1. Waits(plan, run, p, conn'[p]) BY WaitsNext
  <2>2. Waits(plan, run, Other(p), conn'[Other(p)]) BY <1>1, Pair2 DEF Inv, Waiting
  <2> QED BY <2>1, <2>2, Pair2 DEF Waiting
<1>5. Held(plan, ops') BY HeldNext
<1>6. Silent(plan, conn'["server"]) BY SilentNext
<1>7. Verified(plan, conn') BY VerifiedNext
<1>8. Agreed(plan, run, conn') BY AgreedNext
<1>9. Finishes(plan, conn') BY FinishesNext
<1>10. Judged(plan, conn', now) BY JudgedNext
<1>11. plan \in Plans /\ run \in 0..1 /\ now \in Nat BY DEF Inv
<1> QED BY <1>1, <1>2, <1>3, <1>4, <1>5, <1>6, <1>7, <1>8, <1>9, <1>10, <1>11 DEF Inv

LEMMA RestartKeeps ==
    ASSUME Inv, Restarts
    PROVE  Inv'
<1>1. /\ plan' = plan /\ now' = now /\ run' = 1 /\ Held(plan, ops')
      /\ conn' = [p \in Peers |-> NewConnection(p, 1)] /\ wire' = [p \in Peers |-> <<>>]
  BY DEF Restarts
<1>2. plan \in Plans /\ now \in Nat /\ 1 \in 0..1 BY DEF Inv
<1>3. PICK f, w : f = conn' /\ w = wire' OBVIOUS
<1>4. /\ Shapes(f, w) /\ Aligned(plan, 1, f, w) /\ Written(plan, 1, f)
      /\ Waiting(plan, 1, f) /\ Silent(plan, f["server"])
      /\ Verified(plan, f) /\ Agreed(plan, 1, f) /\ Finishes(plan, f) /\ Judged(plan, f, now)
  BY <1>1, <1>2, <1>3, FreshStart
<1> QED BY <1>1, <1>2, <1>3, <1>4 DEF Inv

LEMMA Kept ==
    ASSUME Inv, [Next]_vars
    PROVE  Inv'
<1>1. CASE Next
  <2>1. (\E p \in Peers : MovesOne(p)) \/ Idles \/ Restarts BY <1>1, NextMoves, ThreeWays
  <2> QED BY <2>1, MoveKeeps, IdleKeeps, RestartKeeps
<1>2. CASE UNCHANGED vars
  <2>1. Idles BY <1>2 DEF Idles, Inv, vars
  <2> QED BY <2>1, IdleKeeps
<1> QED BY <1>1, <1>2

LEMMA Begins ==
    ASSUME Init
    PROVE  Inv
<1>1. /\ plan \in Plans /\ now = 0 /\ run = 0 /\ ops = <<>>
      /\ conn = [p \in Peers |-> NewConnection(p, 0)] /\ wire = [p \in Peers |-> <<>>]
  BY DEF Init
<1>2. PICK f, w : f = conn /\ w = wire OBVIOUS
<1>3. /\ Shapes(f, w) /\ Aligned(plan, 0, f, w) /\ Written(plan, 0, f)
      /\ Waiting(plan, 0, f) /\ Silent(plan, f["server"])
      /\ Verified(plan, f) /\ Agreed(plan, 0, f) /\ Finishes(plan, f) /\ Judged(plan, f, 0)
  <2>1. 0 \in 0..1 /\ 0 \in Nat OBVIOUS
  <2>2. f = [p \in Peers |-> NewConnection(p, 0)] /\ w = [p \in Peers |-> <<>>] BY <1>1, <1>2
  <2> QED BY <1>1, <2>1, <2>2, FreshStart
<1>4. Held(plan, <<>>)
  <2>1. <<>> \in Seq({}) /\ DOMAIN <<>> = {} OBVIOUS
  <2> QED BY <2>1, RowOf DEF Held
<1> QED BY <1>1, <1>2, <1>3, <1>4 DEF Inv

(* The inductive invariant: transcripts that agree but for what was        *)
(* altered on the way, operations that wait for the handler that asked,    *)
(* verdicts that hold for what was presented.                              *)
THEOREM Invariance == Spec => []Inv
<1>1. Init => Inv BY Begins
<1>2. Inv /\ [Next]_vars => Inv' BY Kept
<1> QED BY <1>1, <1>2, PTL DEF Spec

----------------------------------------------------------------------------
(* What the invariant says of the properties.                              *)

(* A peer that is through has been at every step.                          *)
LEMMA Through ==
    ASSUME Inv, NEW p \in Peers, Complete(p)
    PROVE  /\ conn[p].step = Len(FlowOf(plan)) + 1 /\ Len(FlowOf(plan)) \in Nat
           /\ \A k \in 1..Len(FlowOf(plan)) : k \in 1..(conn[p].step - 1)
<1>1. Aligned(plan, run, conn, wire) BY DEF Inv
<1>2. PICK n \in Nat, s \in Nat : n = Len(FlowOf(plan)) /\ s = conn[p].step /\ s <= n + 1
  BY <1>1, AlignedTypes
<1>3. s > n BY <1>2 DEF Complete, Flow
<1> QED BY <1>2, <1>3

LEMMA SilentInv ==
    ASSUME Inv
    PROVE  DecryptionSilent
<1>1. SUFFICES ASSUME plan.kex = "rsa" PROVE DecryptionSilent BY DEF DecryptionSilent
<1>2. PICK c : c = conn["server"] OBVIOUS
<1>3. "server" \in Peers /\ "client" \in Peers BY DEF Peers
<1>4. /\ c.rsa_failed => \A k \in 1..(c.step - 1) : FlowOf(plan)[k] # At("client", "finished")
      /\ c.err \notin {"OK", "CLOSED", "CLOSED_BY_APP"} => FlowOf(plan)[c.step].type # "client_key"
  BY <1>1, <1>2 DEF Inv, Silent
<1>5. ASSUME c.rsa_failed, Complete("server") PROVE FALSE
  <2>1. \A k \in 1..Len(FlowOf(plan)) : k \in 1..(c.step - 1) BY <1>2, <1>3, <1>5, Through
  <2>2. At("client", "finished") \in Members(plan) BY <1>3, AlwaysSent
  <2>3. PICK k \in 1..Len(FlowOf(plan)) : FlowOf(plan)[k] = At("client", "finished") BY <2>2, FlowFacts
  <2> QED BY <1>4, <1>5, <2>1, <2>3
<1> QED BY <1>2, <1>4, <1>5 DEF DecryptionSilent, Flow

(* What a peer signed and sent.                                            *)
LEMMA SignedFacts ==
    ASSUME Inv, NEW p \in Peers, NEW m \in Signed(p)
    PROVE  Signature(plan, p, m.sig) /\ Checked(plan, p, m.sig)
<1>0. Aligned(plan, run, conn, wire) /\ Written(plan, run, conn) BY DEF Inv
<1>1. PICK t, s : t = conn[p].transcript /\ s = conn[p].step OBVIOUS
<1>2. s \in Nat /\ s >= 1 /\ DOMAIN t = 1..s
  <2>1. s \in Nat /\ s >= 1 /\ Row(t) /\ Len(t) = s BY <1>0, <1>1, AlignedTypes
  <2> QED BY <2>1, RowFacts
<1>3. t[1] = Hellos(run) BY <1>0, <1>1 DEF Aligned, Matched, Matches
<1>4. t[1].type = "hellos" BY <1>3 DEF Hellos, NoMessage
<1>5. ASSUME NEW k \in 1..(s - 1), FlowOf(plan)[k].by = p, m = t[k + 1],
             m.type \in {"server_key", "cert_verify"}
      PROVE  Signature(plan, p, m.sig) /\ Checked(plan, p, m.sig)
  <2>1. FlowOf(plan)[k].type = m.type BY <1>0, <1>1, <1>5, TakenFacts
  <2>2. Wrote(plan, run, p, m.type, m) BY <1>0, <1>1, <1>5, <2>1 DEF Written
  <2> QED BY <1>5, <2>2 DEF Wrote
<1>6. ASSUME NEW i \in 1..s, t[i].type # "hellos" PROVE i - 1 \in 1..(s - 1) /\ t[(i - 1) + 1] = t[i]
  <2>1. i # 1 BY <1>4, <1>6
  <2> QED BY <1>2, <2>1
<1>7. CASE p = "server" /\ m.type = "server_key"
  <2>1. PICK i \in 1..s : t[i] = m BY <1>1, <1>2 DEF Signed, ToSet
  <2>2. PICK k : k = i - 1 OBVIOUS
  <2>3. k \in 1..(s - 1) /\ t[k + 1] = m BY <1>6, <1>7, <2>1, <2>2
  <2>4. FlowOf(plan)[k].by = p
    <3>1. SUFFICES ASSUME FlowOf(plan)[k].by # p PROVE FALSE OBVIOUS
    <3>2. PICK q : q = Other(p) OBVIOUS
    <3>3. /\ k \in 1..Len(FlowOf(plan)) /\ k \in 1..(conn[q].step - 1)
          /\ m = Altered(plan.tamper, conn[q].transcript[k + 1])
      BY <1>0, <1>1, <2>3, <3>1, <3>2, TakenFacts
    <3>4. FlowOf(plan)[k] \in Members(plan) /\ FlowOf(plan)[k] \in Steps BY <3>3, FlowFacts
    <3>5. q \in Peers /\ FlowOf(plan)[k].by \in Peers BY <3>2, <3>4, Pair2 DEF Steps
    <3>6. FlowOf(plan)[k].by = q BY <3>1, <3>2, <3>5, Pair2
    <3>7. PICK b : b = conn[q].transcript[k + 1] OBVIOUS
    <3>8. DOMAIN b = MessageFields /\ b.type = FlowOf(plan)[k].type
      BY <1>0, <3>3, <3>5, <3>6, <3>7, TakenFacts
    <3>9. m.type = b.type BY <3>3, <3>7, <3>8, AlteredFacts
    <3>10. FlowOf(plan)[k].type = "server_key" BY <1>7, <3>8, <3>9
    <3>11. FlowOf(plan)[k].by = "server" BY <3>4, <3>10, MemberFacts
    <3> QED BY <1>7, <3>1, <3>11
  <2> QED BY <1>5, <1>7, <2>3, <2>4
<1>8. CASE \E i \in DOMAIN t : t[i] = m /\ m.type = "cert_verify" /\ FlowOf(plan)[i - 1].by = p
  <2>1. PICK i \in 1..s : t[i] = m /\ m.type = "cert_verify" /\ FlowOf(plan)[i - 1].by = p
    BY <1>2, <1>8
  <2>2. PICK k : k = i - 1 OBVIOUS
  <2>3. k \in 1..(s - 1) /\ t[k + 1] = m BY <1>6, <2>1, <2>2
  <2> QED BY <1>5, <2>1, <2>2, <2>3
<1> QED BY <1>1, <1>7, <1>8 DEF Signed, Flow

LEMMA OperationsInv ==
    ASSUME Inv
    PROVE  OperationsSafe
<1>1. ASSUME NEW p \in Peers, NEW m \in Signed(p)
      PROVE  /\ m.sig.key \in {OwnKey(p), "wrong_key", "garbage"}
             /\ Strict(plan, p) => m.sig.key = OwnKey(p)
  BY SignedFacts DEF Signature, Checked, Own, OwnKey
<1>2. StrictCatches BY <1>1 DEF StrictCatches, Strict
<1>3. ASSUME NEW p \in Peers PROVE conn[p].written <= 1 BY DEF Inv, Waiting, Waits
<1> QED BY <1>1, <1>2, <1>3 DEF OperationsSafe

(* A chain that was taken.                                                 *)
LEMMA TookFacts ==
    ASSUME Inv, NEW p \in Peers, Took(p)
    PROVE  /\ Accepted(conn[p].v, plan.conf[p], StapleFor(plan, p))
           /\ Called(conn[p].v, plan.conf[p], StapleFor(plan, p))
           /\ Progress(conn[p].v, plan.conf[p], plan.chain[Other(p)], conn[p].seen, conn[p].took)
           /\ conn[p].v.skip = plan.conf[p].skip
           /\ ~plan.conf[p].skip => conn[p].v.state \in {"VALIDATED", "OCSP_VALIDATED"}
           /\ p = "server" => conn[p].client_cert_chain = plan.chain["client"]
<1>1. Judges(plan, p, conn[p], now) /\ conn[p].took # -1 BY DEF Inv, Judged, Took
<1>2. /\ Accepted(conn[p].v, plan.conf[p], StapleFor(plan, p))
      /\ Called(conn[p].v, plan.conf[p], StapleFor(plan, p))
      /\ Progress(conn[p].v, plan.conf[p], plan.chain[Other(p)], conn[p].seen, conn[p].took)
      /\ conn[p].v.skip = plan.conf[p].skip
      /\ p = "server" => conn[p].client_cert_chain = plan.chain["client"]
  BY <1>1 DEF Judges, End, Settings
<1> QED BY <1>2 DEF Accepted, Passed

LEMMA ChainInv ==
    ASSUME Inv
    PROVE  ChainTrusted
<1>1. ASSUME NEW p \in Peers PROVE conn[p].lookups <= 1 /\ conn[p].judged <= 1
  BY DEF Inv, Judged, Judges
<1>2. ASSUME NEW p \in Peers, Took(p)
      PROVE  /\ plan.conf[p].cb \notin {"reject", "cancel"}
             /\ plan.conf[p].cb # "none" => conn[p].v.finished /\ conn[p].v.accepted
             /\ \A i \in DOMAIN conn[p].v.lookups : conn[p].v.lookups[i].status = "FINISHED"
  BY <1>2, TookFacts DEF Accepted, Called, AllAnswered
<1>3. ASSUME NEW p \in Peers, Took(p), ~plan.conf[p].skip
      PROVE  \E t \in conn[p].seen..conn[p].took : Acceptable(plan.conf[p], Presented(p), t)
  <2>1. PICK v, conf, chain : v = conn[p].v /\ conf = plan.conf[p] /\ chain = plan.chain[Other(p)]
    OBVIOUS
  <2>2. /\ Progress(v, conf, chain, conn[p].seen, conn[p].took) /\ ~v.skip
        /\ v.state \in {"VALIDATED", "OCSP_VALIDATED"}
    BY <1>3, <2>1, TookFacts
  <2>3. PICK t \in conn[p].seen..conn[p].took : Anchored(conf, chain, t) BY <2>2 DEF Progress
  <2>4. Len(chain) <= Depth(conf) /\ NameMatches(conf, chain) /\ PolicyMet(conf, chain)
    BY <2>2 DEF Progress
  <2>5. Acceptable(conf, chain, t) BY <2>3, <2>4 DEF Acceptable
  <2> QED BY <2>1, <2>5 DEF Presented
<1>4. ASSUME NEW p \in Peers, Took(p), p = "server"
      PROVE  conn[p].client_cert_chain = plan.chain["client"]
  BY <1>4, TookFacts
<1>5. CallbacksDecide BY <1>1, <1>2 DEF CallbacksDecide
<1> QED BY <1>3, <1>4, <1>5 DEF ChainTrusted

LEMMA RevocationInv ==
    ASSUME Inv
    PROVE  RevocationHonoured
<1>1. ASSUME NEW p \in Peers, Took(p), ~plan.conf[p].skip, plan.conf[p].crl # "none",
             NEW c \in ToSet(conn[p].v.path)
      PROVE  \E r \in ListsOf(plan.conf[p], c) :
               /\ c \notin CrlInfo[r].revoked
               /\ plan.conf[p].checks =>
                    \E t \in conn[p].seen..conn[p].took : InPeriod(CrlInfo[r], t)
  <2>1. PICK v, conf : v = conn[p].v /\ conf = plan.conf[p] OBVIOUS
  <2>2. /\ Progress(v, conf, plan.chain[Other(p)], conn[p].seen, conn[p].took) /\ ~v.skip
        /\ v.state \in {"VALIDATED", "OCSP_VALIDATED"}
    BY <1>1, <2>1, TookFacts
  <2>3. NotRevoked(v) BY <1>1, <2>1, <2>2 DEF Progress
  <2>4. PICK i \in DOMAIN v.lookups :
          /\ v.lookups[i].crl # NoCrl
          /\ CrlInfo[v.lookups[i].crl].issuer = CertInfo[c].issuer
          /\ c \notin CrlInfo[v.lookups[i].crl].revoked
    BY <1>1, <2>1, <2>3 DEF NotRevoked
  <2>5. LookupSound(v.lookups[i], conf, conn[p].seen, conn[p].took) BY <2>2 DEF Progress
  <2>6. PICK r : r = v.lookups[i].crl OBVIOUS
  <2>7. /\ r \in ListsOf(conf, c) /\ c \notin CrlInfo[r].revoked
        /\ conf.checks => \E t \in conn[p].seen..conn[p].took : InPeriod(CrlInfo[r], t)
    BY <2>4, <2>5, <2>6 DEF LookupSound, ListsOf
  <2> QED BY <2>1, <2>7
<1>2. ASSUME Complete("client"), plan.staple.type = "ocsp", plan.conf["client"].check_ocsp,
             ~plan.conf["client"].skip
      PROVE  \E t \in conn["client"].seen..now : StapleGood(plan.staple, t)
  <2>1. "client" \in Peers BY DEF Peers
  <2>2. PICK c, conf : c = conn["client"] /\ conf = plan.conf["client"] OBVIOUS
  <2>3. Judges(plan, "client", c, now) BY <2>1, <2>2 DEF Inv, Judged
  <2>4. \A k \in 1..Len(FlowOf(plan)) : k \in 1..(c.step - 1) BY <1>2, <2>1, <2>2, Through
  <2>5. c.took # -1
    <3>1. PICK k \in 1..Len(FlowOf(plan)) : FlowOf(plan)[k] = At("server", "cert")
      BY AlwaysSent, FlowFacts
    <3> QED BY <2>3, <2>4, <3>1 DEF Judges
  <2>6. Took("client") BY <2>2, <2>5 DEF Took
  <2>7. c.v.state = "OCSP_VALIDATED"
    <3>1. CASE plan.kex = "tls13"
      <4>1. StapleFor(plan, "client") = plan.staple BY <3>1 DEF StapleFor
      <4>2. conf.tls13
        <5>1. plan \in Plans BY DEF Inv
        <5>2. conf.tls13 = (plan.kex = "tls13") BY <2>1, <2>2, <5>1, PlansAssumption
        <5> QED BY <3>1, <5>2
      <4>3. Accepted(c.v, conf, plan.staple) BY <2>1, <2>2, <2>6, <4>1, TookFacts
      <4> QED BY <1>2, <4>2, <4>3 DEF Accepted, Passed
    <3>2. CASE plan.kex # "tls13"
      <4>1. At("server", "status") \in Members(plan) BY <1>2, <3>2, AlwaysSent
      <4>2. PICK k \in 1..Len(FlowOf(plan)) : FlowOf(plan)[k] = At("server", "status")
        BY <4>1, FlowFacts
      <4>3. k \in 1..(c.step - 1) BY <2>4
      <4> QED BY <1>2, <2>3, <4>2, <4>3 DEF Judges
    <3> QED BY <3>1, <3>2
  <2>8. c.v.check_ocsp BY <1>2, <2>2, <2>3 DEF Judges, Settings
  <2>9. Stapled(c.v, plan.staple, c.seen, now) BY <2>3 DEF Judges
  <2> QED BY <2>2, <2>7, <2>8, <2>9 DEF Stapled
<1> QED BY <1>1, <1>2 DEF RevocationHonoured

----------------------------------------------------------------------------
(* Who is at the other end.                                                *)

LEMMA Prefix ==
    ASSUME NEW s, NEW t, Row(s), Row(t), Len(s) <= Len(t), \A i \in 1..Len(s) : s[i] = t[i]
    PROVE  IsPrefix(s, t)
<1> DEFINE S == {s[i] : i \in DOMAIN s}
<1>1. PICK n \in Nat : n = Len(s) /\ DOMAIN s = 1..n BY RowFacts
<1>2. \A i \in 1..n : s[i] \in S /\ t[i] \in S BY <1>1
<1> HIDE DEF S
<1>3. /\ SubSeq(s, 1, n) \in Seq(S) /\ SubSeq(t, 1, n) \in Seq(S)
      /\ Len(SubSeq(s, 1, n)) = Len(SubSeq(t, 1, n)) /\ Len(SubSeq(s, 1, n)) = n
      /\ \A i \in 1..n : SubSeq(s, 1, n)[i] = s[i] /\ SubSeq(t, 1, n)[i] = t[i]
  <2>1. 1 \in Int /\ n \in Int /\ (n - 1) + 1 = n OBVIOUS
  <2>2. /\ SubSeq(s, 1, n) \in Seq(S)
        /\ Len(SubSeq(s, 1, n)) = IF 1 <= n THEN (n - 1) + 1 ELSE 0
        /\ \A i \in 1..((n - 1) + 1) : SubSeq(s, 1, n)[i] = s[(1 + i) - 1]
    BY <1>2, <2>1, SubSeqProperties
  <2>3. /\ SubSeq(t, 1, n) \in Seq(S)
        /\ Len(SubSeq(t, 1, n)) = IF 1 <= n THEN (n - 1) + 1 ELSE 0
        /\ \A i \in 1..((n - 1) + 1) : SubSeq(t, 1, n)[i] = t[(1 + i) - 1]
    BY <1>2, <2>1, SubSeqProperties
  <2>4. \A i \in 1..n : (1 + i) - 1 = i OBVIOUS
  <2> QED BY <2>2, <2>3, <2>4
<1>4. SubSeq(s, 1, n) = SubSeq(t, 1, n) BY <1>1, <1>3, SeqEqual
<1> QED BY <1>1, <1>4 DEF IsPrefix

LEMMA SharesBeforeFinished ==
    ASSUME NEW x, NEW i \in 1..Len(FlowOf(x)), NEW j \in 1..Len(FlowOf(x)),
           FlowOf(x)[i].type = "finished", FlowOf(x)[j].type = "server_key"
    PROVE  j < i
<1>1. /\ FlowOf(x)[i] \in Steps /\ FlowOf(x)[j] \in Steps /\ FlowOf(x)[j] \in Members(x)
  BY FlowFacts
<1>2. x.kex # "tls13" BY <1>1, MemberFacts
<1>3. FlowOf(x)[i].by \in Peers BY <1>1 DEF Steps
<1>4. Place(x, FlowOf(x)[i]) \in {7, 8} BY <1>2, <1>3 DEF Place, Peers
<1>5. Place(x, FlowOf(x)[j]) = 3 BY DEF Place
<1> QED BY <1>4, <1>5, Earlier

(* A peer that is through has the other's secret and all that the other    *)
(* said before its Finished message, and the other had got that far.       *)
LEMMA Vouched ==
    ASSUME Inv, NEW p \in Peers, Complete(p)
    PROVE  \E k \in 1..Len(FlowOf(plan)) :
             /\ FlowOf(plan)[k] = At(Other(p), "finished") /\ k < conn[Other(p)].step
             /\ conn[p].master = conn[Other(p)].master
             /\ \A i \in 1..k : conn[p].transcript[i] = conn[Other(p)].transcript[i]
<1>0. Aligned(plan, run, conn, wire) /\ Finishes(plan, conn) BY DEF Inv
<1>1. PICK q : q = Other(p) OBVIOUS
<1>2. q \in Peers /\ q # p /\ Other(q) = p BY <1>1, Pair2
<1>3. At(q, "finished") \in Members(plan) BY <1>2, AlwaysSent
<1>4. PICK k \in 1..Len(FlowOf(plan)) : FlowOf(plan)[k] = At(q, "finished") BY <1>3, FlowFacts
<1>5. k \in 1..(conn[p].step - 1) BY Through
<1>6. FlowOf(plan)[k].by # p BY <1>2, <1>4, AtFacts
<1>7. k < conn[q].step BY <1>0, <1>1, <1>5, <1>6, TakenFacts
<1>8. /\ conn[p].master = conn[q].master
      /\ \A i \in 1..k : conn[p].transcript[i] = conn[q].transcript[i]
  BY <1>0, <1>1, <1>4, <1>5 DEF Finishes
<1> QED BY <1>1, <1>4, <1>7, <1>8

(* What either wrote, where both have been.                                *)
LEMMA Carried ==
    ASSUME Inv, NEW b \in Peers, NEW j, j \in 1..(conn[b].step - 1), j \in 1..(conn[Other(b)].step - 1),
           FlowOf(plan)[j].by = b
    PROVE  /\ conn[Other(b)].transcript[j + 1] = Altered(plan.tamper, conn[b].transcript[j + 1])
           /\ DOMAIN conn[b].transcript[j + 1] = MessageFields
           /\ conn[b].transcript[j + 1].type = FlowOf(plan)[j].type
           /\ Wrote(plan, run, b, FlowOf(plan)[j].type, conn[b].transcript[j + 1])
<1>0. Aligned(plan, run, conn, wire) /\ Written(plan, run, conn) BY DEF Inv
<1>1. PICK a : a = Other(b) OBVIOUS
<1>2. a \in Peers /\ a # b /\ Other(a) = b BY <1>1, Pair2
<1>3. conn[a].transcript[j + 1] = Altered(plan.tamper, conn[b].transcript[j + 1])
  BY <1>0, <1>1, <1>2, TakenFacts
<1>4. DOMAIN conn[b].transcript[j + 1] = MessageFields /\ conn[b].transcript[j + 1].type = FlowOf(plan)[j].type
  BY <1>0, TakenFacts
<1>5. Wrote(plan, run, b, FlowOf(plan)[j].type, conn[b].transcript[j + 1]) BY <1>0 DEF Written
<1> QED BY <1>1, <1>3, <1>4, <1>5

(* The transcripts of both, as far as the other has got.                   *)
LEMMA SameTranscript ==
    ASSUME Inv, NEW p \in Peers, Complete(p), NEW i \in 1..conn[Other(p)].step
    PROVE  conn[Other(p)].transcript[i] = conn[p].transcript[i]
<1>0. Aligned(plan, run, conn, wire) BY DEF Inv
<1>1. PICK q : q = Other(p) OBVIOUS
<1>2. q \in Peers /\ q # p /\ Other(q) = p /\ \A z \in Peers : z = p \/ z = q BY <1>1, Pair2
<1>3. PICK n \in Nat, u \in Nat : n = Len(FlowOf(plan)) /\ u = conn[q].step /\ u <= n + 1
  BY <1>0, <1>2, AlignedTypes
<1>4. CASE i = 1
  BY <1>0, <1>1, <1>2, <1>4 DEF Aligned, Matched, Matches
<1>5. CASE i # 1
  <2>1. PICK j \in Nat : i = j + 1 /\ j \in 1..(u - 1) /\ j \in 1..n
    <3>1. i - 1 \in Nat /\ i = (i - 1) + 1 /\ i - 1 \in 1..(u - 1) /\ i - 1 \in 1..n
      BY <1>1, <1>3, <1>5
    <3> QED BY <3>1
  <2>2. j \in 1..(conn[p].step - 1) /\ j \in 1..(conn[q].step - 1) BY <1>3, <2>1, Through
  <2>3. FlowOf(plan)[j] \in Steps BY <1>3, <2>1, FlowFacts
  <2>4. PICK b : b = FlowOf(plan)[j].by OBVIOUS
  <2>5. b \in Peers BY <2>3, <2>4 DEF Steps
  <2>6. PICK m : m = conn[b].transcript[j + 1] OBVIOUS
  <2>7. /\ conn[Other(b)].transcript[j + 1] = Altered(plan.tamper, m)
        /\ DOMAIN m = MessageFields /\ m.type = FlowOf(plan)[j].type
    <3>1. j \in 1..(conn[b].step - 1) /\ j \in 1..(conn[Other(b)].step - 1)
      BY <1>1, <1>2, <2>2, <2>5
    <3> QED BY <2>4, <2>5, <2>6, <3>1, Carried
  <2>8. CASE m.type \notin {"server_key", "client_key"}
    <3>1. Altered(plan.tamper, m) = m BY <2>7, <2>8, AlteredFacts
    <3>2. CASE b = p BY <1>1, <2>1, <2>6, <2>7, <3>1, <3>2
    <3>3. CASE b = q BY <1>1, <1>2, <2>1, <2>6, <2>7, <3>1, <3>3
    <3> QED BY <1>2, <2>5, <3>2, <3>3
  <2>9. CASE m.type \in {"server_key", "client_key"}
    <3>1. PICK k \in 1..n : /\ FlowOf(plan)[k] = At(q, "finished")
                            /\ \A l \in 1..k : conn[p].transcript[l] = conn[q].transcript[l]
      BY <1>1, <1>3, Vouched
    <3>2. FlowOf(plan)[k].type = "finished" BY <3>1, AtFacts
    <3>3. ~(k <= j)
      <4>1. CASE m.type = "server_key"
        <5>1. j < k BY <1>3, <2>1, <2>7, <3>2, <4>1, SharesBeforeFinished
        <5> QED BY <5>1
      <4>2. CASE m.type = "client_key" BY <1>3, <2>1, <2>7, <3>2, <4>2, KeyBeforeFinished
      <4> QED BY <2>9, <4>1, <4>2
    <3>4. i \in 1..k BY <2>1, <3>3
    <3> QED BY <1>1, <3>1, <3>4
  <2> QED BY <2>8, <2>9
<1> QED BY <1>4, <1>5

(* Nothing was altered.                                                    *)
LEMMA NothingAltered ==
    ASSUME Inv, NEW p \in Peers, Complete(p)
    PROVE  plan.tamper = "none"
<1>0. plan \in Plans BY DEF Inv
<1>1. SUFFICES ASSUME plan.tamper # "none" PROVE FALSE OBVIOUS
<1>2. \/ plan.tamper \in {"first_share", "second_share"} /\ plan.kex \in {"dhe", "ecdhe", "hybrid"}
      \/ plan.tamper \in {"ciphertext", "version"} /\ plan.kex = "rsa"
  BY <1>0, <1>1, PlansAssumption
<1>3. PICK type, b : /\ b = IF type = "server_key" THEN "server" ELSE "client"
                     /\ At(b, type) \in Members(plan) /\ type \in {"server_key", "client_key"}
                     /\ type = "server_key" => plan.tamper \in {"first_share", "second_share"}
                     /\ type = "client_key" =>
                          plan.tamper \in {"ciphertext", "version"} /\ plan.kex = "rsa"
  <2>1. CASE plan.tamper \in {"first_share", "second_share"} /\ plan.kex \in {"dhe", "ecdhe", "hybrid"}
    <3>1. At("server", "server_key") \in Members(plan) BY <2>1, AlwaysSent
    <3> QED BY <2>1, <3>1
  <2>2. CASE plan.tamper \in {"ciphertext", "version"} /\ plan.kex = "rsa"
    <3>1. At("client", "client_key") \in Members(plan) BY <2>2, AlwaysSent
    <3> QED BY <2>2, <3>1
  <2> QED BY <1>2, <2>1, <2>2
<1>4. PICK q : q = Other(p) OBVIOUS
<1>5. b \in Peers /\ q \in Peers /\ q # p /\ Other(q) = p /\ (\A z \in Peers : z = p \/ z = q)
  BY <1>3, <1>4, Pair2 DEF Peers
<1>6. PICK n \in Nat : n = Len(FlowOf(plan)) BY FlowFacts
<1>7. PICK j \in 1..n : FlowOf(plan)[j] = At(b, type) BY <1>3, <1>6, FlowFacts
<1>8. FlowOf(plan)[j].by = b /\ FlowOf(plan)[j].type = type BY <1>7, AtFacts
<1>9. PICK k \in 1..n : FlowOf(plan)[k] = At(q, "finished") /\ k < conn[q].step
  BY <1>4, <1>6, Vouched
<1>10. j < k
  <2>1. FlowOf(plan)[k].type = "finished" BY <1>9, AtFacts
  <2>2. CASE type = "server_key" BY <1>6, <1>8, <2>1, <2>2, SharesBeforeFinished
  <2>3. CASE type = "client_key"
    <3>1. ~(k <= j) BY <1>6, <1>8, <2>1, <2>3, KeyBeforeFinished
    <3> QED BY <3>1
  <2> QED BY <1>3, <2>2, <2>3
<1>11. PICK u \in Nat : u = conn[q].step
  <2>1. Aligned(plan, run, conn, wire) BY DEF Inv
  <2> QED BY <1>5, <2>1, AlignedTypes
<1>12. j \in 1..(conn[q].step - 1) /\ j \in 1..(conn[p].step - 1) /\ j + 1 \in 1..conn[q].step
  <2>1. j \in 1..(u - 1) /\ j + 1 \in 1..u BY <1>9, <1>10, <1>11
  <2> QED BY <1>6, <1>11, <2>1, Through
<1>13. PICK m : m = conn[b].transcript[j + 1] OBVIOUS
<1>14. /\ conn[Other(b)].transcript[j + 1] = Altered(plan.tamper, m)
       /\ DOMAIN m = MessageFields /\ m.type = type /\ Wrote(plan, run, b, type, m)
  <2>1. j \in 1..(conn[b].step - 1) /\ j \in 1..(conn[Other(b)].step - 1) BY <1>4, <1>5, <1>12
  <2> QED BY <1>5, <1>8, <1>13, <2>1, Carried
<1>15. conn[Other(b)].transcript[j + 1] = m
  <2>1. conn[q].transcript[j + 1] = conn[p].transcript[j + 1] BY <1>4, <1>12, SameTranscript
  <2> QED BY <1>4, <1>5, <1>13, <2>1
<1>16. Altered(plan.tamper, m) # m
  <2>1. CASE type = "server_key"
    <3>1. m.params = Parameters(plan, run) BY <1>14, <2>1 DEF Wrote
    <3> QED BY <1>0, <1>3, <1>14, <2>1, <3>1, AlteredShares
  <2>2. CASE type = "client_key"
    <3>1. m.encrypted = Sealed(plan, run) BY <1>3, <1>14, <2>2 DEF Wrote
    <3> QED BY <1>0, <1>3, <1>14, <2>2, <3>1, AlteredCipher
  <2> QED BY <1>3, <2>1, <2>2
<1> QED BY <1>14, <1>15, <1>16

(* A signature that was taken was made with the key of the certificate.    *)
LEMMA SignerGenuine ==
    ASSUME Inv, NEW p \in Peers, Complete(p), NEW type, type \in {"server_key", "cert_verify"},
           At(Other(p), type) \in Members(plan), plan.chain[Other(p)] # <<>>
    PROVE  plan.uses[Other(p)] # "wrong"
<1>0. Aligned(plan, run, conn, wire) /\ Verified(plan, conn) /\ plan \in Plans BY DEF Inv
<1>1. PICK q : q = Other(p) OBVIOUS
<1>2. q \in Peers /\ q # p /\ Other(q) = p BY <1>1, Pair2
<1>3. PICK k \in 1..Len(FlowOf(plan)) : FlowOf(plan)[k] = At(q, type) BY <1>1, FlowFacts
<1>4. FlowOf(plan)[k].by = q /\ FlowOf(plan)[k].type = type BY <1>3, AtFacts
<1>5. k \in 1..(conn[p].step - 1) BY Through
<1>6. k \in 1..(conn[q].step - 1) BY <1>0, <1>1, <1>2, <1>4, <1>5, TakenFacts
<1>7. PICK m : m = conn[q].transcript[k + 1] OBVIOUS
<1>8. /\ conn[p].transcript[k + 1] = Altered(plan.tamper, m) /\ DOMAIN m = MessageFields
      /\ Wrote(plan, run, q, type, m)
  BY <1>2, <1>4, <1>5, <1>6, <1>7, Carried
<1>9. conn[p].transcript[k + 1].sig = m.sig BY <1>8, AlteredFacts
<1>10. m.sig.key = NoKey \/ m.sig.key = Own(plan, q)
  BY <1>0, <1>1, <1>4, <1>5, <1>9 DEF Verified
<1>11. Signature(plan, q, m.sig) BY <1>8 DEF Wrote
<1>12. Own(plan, q) \notin NobodysKeys BY <1>0, <1>1, <1>2, OwnFacts
<1>13. NoKey \in NobodysKeys /\ "wrong_key" \in NobodysKeys /\ "garbage" \in NobodysKeys
       /\ NoKey # "wrong_key" /\ NoKey # "garbage"
  BY DEF NobodysKeys, NoKey
<1> QED BY <1>1, <1>10, <1>11, <1>12, <1>13 DEF Signature

(* A server that cannot decrypt does not get past the client's Finished    *)
(* message, and so never sends its own.                                    *)
LEMMA DecrypterGenuine ==
    ASSUME Inv, Complete("client"), plan.kex = "rsa"
    PROVE  plan.uses["server"] # "wrong"
<1>0. Silent(plan, conn["server"]) /\ Aligned(plan, run, conn, wire) BY DEF Inv
<1>1. "client" \in Peers /\ "server" \in Peers /\ Other("client") = "server" BY DEF Peers, Other
<1>2. PICK n \in Nat, u \in Nat : n = Len(FlowOf(plan)) /\ u = conn["server"].step
  BY <1>0, <1>1, AlignedTypes
<1>3. PICK k \in 1..n : FlowOf(plan)[k] = At("server", "finished") /\ k < u
  BY <1>1, <1>2, Vouched
<1>4. PICK i \in 1..n : FlowOf(plan)[i] = At("client", "finished") BY <1>1, <1>2, AlwaysSent, FlowFacts
<1>5. PICK j \in 1..n : FlowOf(plan)[j] = At("client", "client_key")
  <2>1. At("client", "client_key") \in Members(plan) BY AlwaysSent
  <2> QED BY <1>2, <2>1, FlowFacts
<1>6. /\ FlowOf(plan)[k].type = "finished" /\ FlowOf(plan)[i].type = "finished"
      /\ FlowOf(plan)[k].by = "server" /\ FlowOf(plan)[i].by = "client"
      /\ FlowOf(plan)[j].type = "client_key"
  BY <1>3, <1>4, <1>5, AtFacts
<1>7. i < k
  <2>1. Place(plan, FlowOf(plan)[i]) = 7 BY <1>6 DEF Place
  <2>2. Place(plan, FlowOf(plan)[k]) = 8 BY <1>6 DEF Place
  <2> QED BY <1>2, <2>1, <2>2, Earlier
<1>8. ~(k <= j) BY <1>2, <1>6, KeyBeforeFinished
<1>9. i \in 1..(u - 1) /\ j \in 1..(u - 1) BY <1>3, <1>7, <1>8
<1>10. conn["server"].written = 1 BY <1>0, <1>2, <1>6, <1>9 DEF Silent
<1>11. ~conn["server"].rsa_failed BY <1>0, <1>2, <1>4, <1>9 DEF Silent
<1> QED BY <1>0, <1>10, <1>11 DEF Silent

LEMMA GenuineInv ==
    ASSUME Inv
    PROVE  PeerGenuine
<1>0. Aligned(plan, run, conn, wire) /\ plan \in Plans BY DEF Inv
<1>1. ParametersSigned BY DEF Inv, Agreed, ParametersSigned, Parameters
<1>2. ASSUME NEW p \in Peers, Complete(p)
      PROVE  conn[Other(p)].master = conn[p].master
  BY <1>2, Vouched
<1>3. ASSUME NEW p \in Peers, Complete(p)
      PROVE  IsPrefix(conn[Other(p)].transcript, conn[p].transcript)
  <2>1. PICK s, t, a, b : /\ s = conn[Other(p)].transcript /\ t = conn[p].transcript
                          /\ a = conn[Other(p)].step /\ b = conn[p].step
    OBVIOUS
  <2>2. /\ Row(s) /\ Len(s) = a /\ a \in Nat /\ a <= Len(FlowOf(plan)) + 1
    BY <1>0, <2>1, AlignedTypes, Pair2
  <2>3. Row(t) /\ Len(t) = b BY <1>0, <2>1, AlignedTypes
  <2>4. b = Len(FlowOf(plan)) + 1 BY <1>3, <2>1, Through
  <2>5. \A i \in 1..a : s[i] = t[i] BY <1>3, <2>1, SameTranscript
  <2>6. IsPrefix(s, t) BY <2>2, <2>3, <2>4, <2>5, Prefix
  <2> QED BY <2>1, <2>6
<1>4. ASSUME NEW p \in Peers, Complete(p), Authenticates(p)
      PROVE  plan.uses[Other(p)] # "wrong"
  <2>1. CASE p = "client"
    <3>1. Other(p) = "server" /\ plan.chain[Other(p)] # <<>>
      BY <1>0, <2>1, PlansAssumption DEF Other
    <3>2. CASE plan.kex = "rsa" BY <1>4, <2>1, <3>1, <3>2, DecrypterGenuine
    <3>3. CASE plan.kex = "tls13"
      <4>1. At(Other(p), "cert_verify") \in Members(plan) BY <3>1, <3>3, AlwaysSent
      <4> QED BY <1>4, <3>1, <4>1, SignerGenuine
    <3>4. CASE plan.kex \notin {"tls13", "rsa"}
      <4>1. At(Other(p), "server_key") \in Members(plan) BY <3>1, <3>4, AlwaysSent
      <4> QED BY <1>4, <3>1, <4>1, SignerGenuine
    <3> QED BY <3>2, <3>3, <3>4
  <2>2. CASE p # "client"
    <3>1. Other(p) = "client" /\ plan.auth /\ plan.chain["client"] # <<>>
      BY <1>4, <2>2 DEF Other, Authenticates, Peers
    <3>2. At(Other(p), "cert_verify") \in Members(plan) BY <3>1, AlwaysSent
    <3> QED BY <1>4, <3>1, <3>2, SignerGenuine
  <2> QED BY <2>1, <2>2
<1>5. ASSUME NEW p \in Peers, Complete(p) PROVE plan.tamper = "none" BY <1>5, NothingAltered
<1> QED BY <1>1, <1>2, <1>3, <1>4, <1>5 DEF PeerGenuine

----------------------------------------------------------------------------
(* The properties.                                                         *)

(* However the application orders perform, set_output, apply, free and     *)
(* wipe, a handshake takes one result for the operation it asked for, made *)
(* for it, and with strict validation only a result that is right          *)
(* (s2n_async_pkey_op_apply, s2n_async_pkey_sign_apply).                   *)
THEOREM OperationsAreSafe == Spec => []OperationsSafe
<1>1. Inv => OperationsSafe BY OperationsInv
<1> QED BY <1>1, Invariance, PTL

(* A premaster secret that does not decrypt raises no error where it is    *)
(* received, and the handshake never completes with it                     *)
(* (s2n_rsa_client_key_recv_complete, s2n_client_finished_recv).           *)
THEOREM DecryptionIsSilent == Spec => []DecryptionSilent
<1>1. Inv => DecryptionSilent BY SilentInv
<1> QED BY <1>1, Invariance, PTL

(* A peer that completes has the owner of the certificate at the other     *)
(* end, the same secret and the same transcript; nothing was altered on    *)
(* the way (s2n_server_key_recv, s2n_tls13_cert_verify_recv,               *)
(* s2n_client_finished_recv).                                              *)
THEOREM PeersAreGenuine == Spec => []PeerGenuine
<1>1. Inv => PeerGenuine BY GenuineInv
<1> QED BY <1>1, Invariance, PTL

(* A chain is taken only if it led to an anchor at one instant of the      *)
(* validation, for the name and under the policy, with every lookup        *)
(* answered and the callback's verdict asked for once and positive         *)
(* (s2n_x509_validator_validate_cert_chain).                               *)
THEOREM ChainsAreTrusted == Spec => []ChainTrusted
<1>1. Inv => ChainTrusted BY ChainInv
<1> QED BY <1>1, Invariance, PTL

(* Every certificate of a chain that was taken has a list of its issuer    *)
(* that does not name it, and a client that checks the stapled response    *)
(* completes only on a good one (s2n_crl_lookup_set,                       *)
(* s2n_x509_validator_validate_cert_stapled_ocsp_response).                *)
THEOREM RevocationIsHonoured == Spec => []RevocationHonoured
<1>1. Inv => RevocationHonoured BY RevocationInv
<1> QED BY <1>1, Invariance, PTL
=============================================================================
