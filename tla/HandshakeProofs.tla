--------------------------- MODULE HandshakeProofs ---------------------------
(***************************************************************************)
(* Two proofs about the handshake state machine.                           *)
(*                                                                         *)
(* ClientCertRequired: a server that requires client authentication        *)
(* completes a full handshake only after it has processed a                *)
(* CertificateVerify of the client.  Such a server takes one handshake     *)
(* type for good, when it handles the first ClientHello: a second one      *)
(* gives the same type, and the one change a server makes later,           *)
(* NO_CLIENT_CERT, is refused.  The row of that type has                   *)
(* CLIENT_CERT_VERIFY before APPLICATION_DATA, and message_number does not *)
(* pass CLIENT_CERT_VERIFY unless the message is handled.                  *)
(*                                                                         *)
(* PastUnchanged: a peer that changes its handshake type has been through  *)
(* the same messages by the new one.  A type is what the hellos leave open *)
(* (Undecided) or what the configuration allows once they are exchanged    *)
(* (Decided); a message that changes it comes, in every row that has it,   *)
(* after the same beginning, which the flags it changes do not affect.     *)
(***************************************************************************)
EXTENDS Handshake, SequenceTheorems, TLAPS

(* The type of a server that has handled a ClientHello and has no TLS1.2   *)
(* session to resume.                                                      *)
HelloFlags == (IF cfg.early # "no" THEN EarlyFlags ELSE {}) \cup Flag(cfg.hrr, "HELLO_RETRY_REQUEST")
ServerType ==
  IF cfg.version = 13
  THEN s2n_conn_set_tls13_handshake_type("server", HelloFlags, cfg.psk, cfg.early = "accepted")
  ELSE TLS12Type("server")
ServerRow == Row(ChosenMachine, ServerType)

(* The server has not handled a ClientHello: it may wait for the           *)
(* application in the first of them.                                       *)
Fresh ==
  /\ message_number["server"] = 0
  /\ \/ state_machine["server"] = "initial" /\ handshake_type["server"] = {}
     \/ /\ state_machine["server"] = "tls13" /\ handshake_type["server"] = EarlyFlags
        /\ cfg.version = 13 /\ cfg.early # "no"

HasVerify(tr) == \E k \in DOMAIN tr : tr[k] = "CLIENT_CERT_VERIFY"

(* The server has handled one.                                             *)
Settled ==
  /\ state_machine["server"] = ChosenMachine /\ handshake_type["server"] = ServerType
  /\ message_number["server"] \in 1..(Len(ServerRow) - 1)
  /\ \A i \in 1..message_number["server"] :
       ServerRow[i] = "CLIENT_CERT_VERIFY" => HasVerify(transcript["server"])

(* A handler of the server that waits for the application keeps the        *)
(* message it is about; a message that is written is the active one.       *)
Held ==
  /\ paused["server"] /\ ~IsWriter("server") =>
       \/ ActiveMessage("server") \in {"CLIENT_HELLO", "CLIENT_KEY"}
       \/ ActiveMessage("server") = "CLIENT_CERT" /\ cfg.has_cert
  /\ io["server"] = "written" => IsWriter("server") /\ in["server"] = << >> /\ ~paused["server"]

TypeInv ==
  /\ cfg \in Configs
  /\ DOMAIN handshake_type = Peers /\ DOMAIN state_machine = Peers /\ DOMAIN message_number = Peers
  /\ DOMAIN paused = Peers /\ DOMAIN io = Peers /\ DOMAIN in = Peers /\ DOMAIN net = Peers
  /\ DOMAIN transcript = Peers
  /\ paused["server"] \in BOOLEAN
  /\ in["server"] \in Seq(ClientMessages)
  /\ net["server"] \in Seq(Seq(ClientMessages) \ {<< >>})

ServerInv ==
  cfg.server_auth = "required" => (Fresh \/ Settled) /\ Held /\ transcript["server"] \in Seq(Messages)

Inv == TypeInv /\ ServerInv

-----------------------------------------------------------------------------
(* Message orders as sequences: how one starts and how it ends.            *)

Known == Messages \cup {"APPLICATION_DATA"}
Names == Seq(Known)

(* It starts with a ClientHello, and application data do not come yet.     *)
Starts(s) ==
  /\ s \in Names /\ Len(s) >= 1 /\ s[1] = "CLIENT_HELLO"
  /\ \A i \in 1..Len(s) : s[i] # "APPLICATION_DATA"

(* It goes on without application data.                                    *)
GoesOn(s) == s \in Names /\ \A i \in 1..Len(s) : s[i] # "APPLICATION_DATA"

(* Application data come last, and only last.                              *)
Ends(s) ==
  /\ s \in Names /\ Len(s) >= 1
  /\ \A i \in 1..Len(s) : s[i] = "APPLICATION_DATA" <=> i = Len(s)

Verifies(s) == \E i \in 1..Len(s) : s[i] = "CLIENT_CERT_VERIFY"

(* What the elements of a concatenation are.                               *)
LEMMA Join ==
    ASSUME NEW r \in Names, NEW s \in Names
    PROVE  /\ r \o s \in Names /\ Len(r) \in Nat /\ Len(s) \in Nat /\ Len(r \o s) = Len(r) + Len(s)
           /\ \A i \in 1..Len(r) : (r \o s)[i] = r[i]
           /\ \A i \in (Len(r) + 1)..(Len(r) + Len(s)) : (r \o s)[i] = s[i - Len(r)]
           /\ \A i \in 1..Len(s) : (r \o s)[Len(r) + i] = s[i]
  BY DEF Names

(* A CertificateVerify stays in what is put together.                      *)
LEMMA VerifiesOn ==
    ASSUME NEW r \in Names, NEW s \in Names
    PROVE  (Verifies(r) => Verifies(r \o s)) /\ (Verifies(s) => Verifies(r \o s))
  <1>1. /\ Len(r) \in Nat /\ Len(s) \in Nat /\ Len(r \o s) = Len(r) + Len(s)
        /\ \A i \in 1..Len(r) : (r \o s)[i] = r[i]
        /\ \A i \in 1..Len(s) : (r \o s)[Len(r) + i] = s[i]
    BY Join
  <1>2. ASSUME NEW i \in 1..Len(r), r[i] = "CLIENT_CERT_VERIFY" PROVE Verifies(r \o s)
    <2>1. i \in 1..Len(r \o s) /\ (r \o s)[i] = "CLIENT_CERT_VERIFY"
      BY <1>1, <1>2
    <2> QED
      BY <2>1 DEF Verifies
  <1>3. ASSUME NEW i \in 1..Len(s), s[i] = "CLIENT_CERT_VERIFY" PROVE Verifies(r \o s)
    <2>1. Len(r) + i \in 1..Len(r \o s) /\ (r \o s)[Len(r) + i] = "CLIENT_CERT_VERIFY"
      BY <1>1, <1>3
    <2> QED
      BY <2>1 DEF Verifies
  <1> QED
    BY <1>2, <1>3 DEF Verifies

(* An order that goes on, further.                                         *)
LEMMA GoesFurther ==
    ASSUME NEW r, NEW s, GoesOn(r), GoesOn(s)
    PROVE  GoesOn(r \o s)
  <1>1. r \in Names /\ s \in Names
    BY DEF GoesOn
  <1>2. /\ r \o s \in Names /\ Len(r) \in Nat /\ Len(s) \in Nat /\ Len(r \o s) = Len(r) + Len(s)
        /\ \A i \in 1..Len(r) : (r \o s)[i] = r[i]
        /\ \A i \in (Len(r) + 1)..(Len(r) + Len(s)) : (r \o s)[i] = s[i - Len(r)]
    BY <1>1, Join
  <1>3. ASSUME NEW i \in 1..Len(r \o s) PROVE (r \o s)[i] # "APPLICATION_DATA"
    <2>1. CASE i \in 1..Len(r)
      BY <1>2, <2>1 DEF GoesOn
    <2>2. CASE i \notin 1..Len(r)
      <3>1. i \in (Len(r) + 1)..(Len(r) + Len(s)) /\ i - Len(r) \in 1..Len(s)
        BY <1>2, <2>2
      <3> QED
        BY <1>2, <3>1 DEF GoesOn
    <2> QED
      BY <2>1, <2>2
  <1> QED
    BY <1>2, <1>3 DEF GoesOn

(* An order that starts and goes on has started.                           *)
LEMMA StartsOn ==
    ASSUME NEW r, NEW s, Starts(r), GoesOn(s)
    PROVE  Starts(r \o s)
  <1>1. r \in Names /\ s \in Names /\ GoesOn(r) /\ Len(r) >= 1 /\ r[1] = "CLIENT_HELLO"
    BY DEF Starts, GoesOn
  <1>2. GoesOn(r \o s)
    BY <1>1, GoesFurther
  <1>3. /\ Len(r) \in Nat /\ Len(s) \in Nat /\ Len(r \o s) = Len(r) + Len(s)
        /\ \A i \in 1..Len(r) : (r \o s)[i] = r[i]
    BY <1>1, Join
  <1>4. Len(r \o s) >= 1 /\ (r \o s)[1] = "CLIENT_HELLO"
    BY <1>1, <1>3
  <1> QED
    BY <1>2, <1>4 DEF Starts, GoesOn

(* An order that goes on and then ends.                                    *)
LEMMA EndsOn ==
    ASSUME NEW r, NEW s, GoesOn(r), Ends(s)
    PROVE  Ends(r \o s) /\ Len(r \o s) = Len(r) + Len(s)
  <1>1. r \in Names /\ s \in Names
    BY DEF GoesOn, Ends
  <1>2. /\ r \o s \in Names /\ Len(r) \in Nat /\ Len(s) \in Nat /\ Len(r \o s) = Len(r) + Len(s)
        /\ \A i \in 1..Len(r) : (r \o s)[i] = r[i]
        /\ \A i \in (Len(r) + 1)..(Len(r) + Len(s)) : (r \o s)[i] = s[i - Len(r)]
    BY <1>1, Join
  <1>3. Len(s) >= 1
    BY DEF Ends
  <1>4. ASSUME NEW i \in 1..Len(r \o s) PROVE (r \o s)[i] = "APPLICATION_DATA" <=> i = Len(r \o s)
    <2>1. CASE i \in 1..Len(r)
      <3>1. (r \o s)[i] # "APPLICATION_DATA"
        BY <1>2, <2>1 DEF GoesOn
      <3> QED
        BY <1>2, <1>3, <2>1, <3>1
    <2>2. CASE i \notin 1..Len(r)
      <3>1. i \in (Len(r) + 1)..(Len(r) + Len(s)) /\ i - Len(r) \in 1..Len(s)
        BY <1>2, <2>2
      <3>2. s[i - Len(r)] = "APPLICATION_DATA" <=> i - Len(r) = Len(s)
        BY <3>1 DEF Ends
      <3> QED
        BY <1>2, <3>1, <3>2
    <2> QED
      BY <2>1, <2>2
  <1> QED
    BY <1>2, <1>3, <1>4 DEF Ends

(* A whole row of a table.                                                 *)
Whole(s) == Ends(s) /\ Len(s) >= 2 /\ s[1] = "CLIENT_HELLO"

LEMMA StartsEnds ==
    ASSUME NEW r, NEW s, Starts(r), Ends(s)
    PROVE  Whole(r \o s)
  <1>1. GoesOn(r) /\ r \in Names /\ s \in Names /\ Len(r) >= 1 /\ Len(s) >= 1 /\ r[1] = "CLIENT_HELLO"
    BY DEF Starts, GoesOn, Ends
  <1>2. Ends(r \o s)
    BY <1>1, EndsOn
  <1>3. /\ Len(r) \in Nat /\ Len(s) \in Nat /\ Len(r \o s) = Len(r) + Len(s)
        /\ \A i \in 1..Len(r) : (r \o s)[i] = r[i]
    BY <1>1, Join
  <1>4. Len(r \o s) >= 2 /\ (r \o s)[1] = "CLIENT_HELLO"
    BY <1>1, <1>3
  <1> QED
    BY <1>2, <1>4 DEF Whole

(* The pieces of the rows.                                                 *)
LEMMA Pieces ==
    /\ \A x \in Messages : GoesOn(<<x>>)
    /\ \A x, y \in Messages : GoesOn(<<x, y>>)
    /\ \A b, s : GoesOn(s) => GoesOn(Only(b, s))
    /\ Starts(<<"CLIENT_HELLO">>) /\ Starts(<<"CLIENT_HELLO", "SERVER_HELLO">>)
    /\ Ends(<<"APPLICATION_DATA">>) /\ Ends(<<"CLIENT_FINISHED", "APPLICATION_DATA">>)
    /\ Verifies(<<"CLIENT_CERT_VERIFY">>)
  <1>1. "APPLICATION_DATA" \notin Messages /\ {"CLIENT_HELLO", "SERVER_HELLO", "CLIENT_FINISHED"} \subseteq Messages
    BY DEF Messages, ClientMessages, ServerMessages
  <1>2. ASSUME NEW x \in Messages PROVE GoesOn(<<x>>)
    BY <1>1 DEF GoesOn, Names, Known
  <1>3. ASSUME NEW x \in Messages, NEW y \in Messages PROVE GoesOn(<<x, y>>)
    BY <1>1 DEF GoesOn, Names, Known
  <1>4. ASSUME NEW b, NEW s, GoesOn(s) PROVE GoesOn(Only(b, s))
    BY <1>4 DEF GoesOn, Names, Only
  <1>5. Starts(<<"CLIENT_HELLO">>) /\ Starts(<<"CLIENT_HELLO", "SERVER_HELLO">>)
    BY <1>1 DEF Starts, Names, Known
  <1>6. Ends(<<"APPLICATION_DATA">>) /\ Ends(<<"CLIENT_FINISHED", "APPLICATION_DATA">>)
    BY <1>1 DEF Ends, Names, Known
  <1>7. Verifies(<<"CLIENT_CERT_VERIFY">>)
    BY DEF Verifies
  <1> QED
    BY <1>2, <1>3, <1>4, <1>5, <1>6, <1>7

-----------------------------------------------------------------------------
(* The rows of the tables.                                                 *)

LEMMA WholeRow13 ==
    ASSUME NEW t, "NEGOTIATED" \in t
    PROVE  /\ Whole(TLS13Row(t))
           /\ "CLIENT_AUTH" \in t /\ "NO_CLIENT_CERT" \notin t => Verifies(TLS13Row(t))
  <1> DEFINE compat == "MIDDLEBOX_COMPAT" \in t
             retry  == "HELLO_RETRY_REQUEST" \in t
             late   == compat /\ ~("EARLY_CLIENT_CCS" \in t)
             cert   == "CLIENT_AUTH" \in t /\ "NO_CLIENT_CERT" \notin t
             cc(b)  == Only(b, <<"CLIENT_CHANGE_CIPHER_SPEC">>)
             sc(b)  == Only(b, <<"SERVER_CHANGE_CIPHER_SPEC">>)
             again  == Only(retry, <<"HELLO_RETRY_MSG">> \o sc(compat) \o cc(late) \o <<"CLIENT_HELLO">>)
             req    == Only("CLIENT_AUTH" \in t, <<"SERVER_CERT_REQ">>)
             sign   == Only("FULL_HANDSHAKE" \in t, <<"SERVER_CERT", "SERVER_CERT_VERIFY">>)
             eoed   == Only("WITH_EARLY_DATA" \in t, <<"END_OF_EARLY_DATA">>)
             ccert  == Only("CLIENT_AUTH" \in t, <<"CLIENT_CERT">>)
             verify == Only(cert, <<"CLIENT_CERT_VERIFY">>)
             fin    == <<"CLIENT_FINISHED", "APPLICATION_DATA">>
             early  == cc("EARLY_CLIENT_CCS" \in t)
             ccs1   == sc(compat /\ ~retry)
             ccs2   == cc(late /\ ~retry)
             s1 == <<"CLIENT_HELLO">> \o early \o again \o <<"SERVER_HELLO">>
             s2 == s1 \o ccs1 \o <<"ENCRYPTED_EXTENSIONS">> \o req \o sign
             s3 == s2 \o <<"SERVER_FINISHED">> \o ccs2 \o eoed \o ccert
  <1>1. TLS13Row(t) = (s3 \o verify) \o fin
    BY DEF TLS13Row
  <1>2. {"CLIENT_CHANGE_CIPHER_SPEC", "SERVER_CHANGE_CIPHER_SPEC", "HELLO_RETRY_MSG", "CLIENT_HELLO", "SERVER_HELLO",
         "ENCRYPTED_EXTENSIONS", "SERVER_CERT_REQ", "SERVER_CERT", "SERVER_CERT_VERIFY", "SERVER_FINISHED",
         "END_OF_EARLY_DATA", "CLIENT_CERT", "CLIENT_CERT_VERIFY"} \subseteq Messages
    BY DEF Messages, ClientMessages, ServerMessages
  <1>3. /\ GoesOn(<<"SERVER_HELLO">>) /\ GoesOn(<<"ENCRYPTED_EXTENSIONS">>) /\ GoesOn(<<"SERVER_FINISHED">>)
        /\ GoesOn(<<"HELLO_RETRY_MSG">>) /\ GoesOn(<<"CLIENT_HELLO">>) /\ GoesOn(<<"CLIENT_CERT_VERIFY">>)
        /\ GoesOn(<<"SERVER_CERT_REQ">>) /\ GoesOn(<<"SERVER_CERT", "SERVER_CERT_VERIFY">>)
        /\ GoesOn(<<"END_OF_EARLY_DATA">>) /\ GoesOn(<<"CLIENT_CERT">>)
        /\ GoesOn(<<"CLIENT_CHANGE_CIPHER_SPEC">>) /\ GoesOn(<<"SERVER_CHANGE_CIPHER_SPEC">>)
    BY <1>2, Pieces
  <1>4. \A b : GoesOn(cc(b)) /\ GoesOn(sc(b))
    BY <1>3, Pieces
  <1>5. GoesOn(req) /\ GoesOn(sign) /\ GoesOn(eoed) /\ GoesOn(ccert) /\ GoesOn(verify)
    BY <1>3, Pieces
  <1>6. GoesOn(early) /\ GoesOn(ccs1) /\ GoesOn(ccs2) /\ GoesOn(sc(compat)) /\ GoesOn(cc(late))
    BY <1>4
  <1>7. cert => verify = <<"CLIENT_CERT_VERIFY">>
    BY DEF Only
  <1>8. \A s : GoesOn(s) => GoesOn(Only(retry, s))
    BY Pieces
  <1> HIDE DEF cc, sc, req, sign, eoed, ccert, verify, fin, early, ccs1, ccs2, cert, compat, retry, late
  <1>9. GoesOn(again)
    BY <1>3, <1>6, <1>8, GoesFurther
  <1> HIDE DEF again
  <1>10. Starts(s1)
    BY <1>3, <1>6, <1>9, Pieces, StartsOn
  <1> HIDE DEF s1
  <1>11. Starts(s2)
    BY <1>3, <1>5, <1>6, <1>10, StartsOn
  <1> HIDE DEF s2
  <1>12. Starts(s3)
    BY <1>3, <1>5, <1>6, <1>11, StartsOn
  <1> HIDE DEF s3
  <1>13. Starts(s3 \o verify) /\ Ends(fin)
    BY <1>5, <1>12, Pieces, StartsOn DEF fin
  <1>14. Whole(TLS13Row(t))
    BY <1>1, <1>13, StartsEnds
  <1>15. ASSUME cert PROVE Verifies(TLS13Row(t))
    <2>1. Verifies(verify)
      BY <1>7, <1>15, Pieces
    <2>2. s3 \in Names /\ verify \in Names /\ fin \in Names /\ s3 \o verify \in Names
      BY <1>5, <1>12, <1>13 DEF Starts, GoesOn, Ends
    <2>3. Verifies(s3 \o verify)
      BY <2>1, <2>2, VerifiesOn
    <2> QED
      BY <1>1, <2>2, <2>3, VerifiesOn
  <1> QED
    BY <1>14, <1>15 DEF cert

LEMMA WholeRow12 ==
    ASSUME NEW t, "NEGOTIATED" \in t, "FULL_HANDSHAKE" \in t
    PROVE  /\ Whole(TLS12Row(t))
           /\ "CLIENT_AUTH" \in t /\ "NO_CLIENT_CERT" \notin t => Verifies(TLS12Row(t))
  <1> DEFINE auth   == "CLIENT_AUTH" \in t
             cert   == auth /\ "NO_CLIENT_CERT" \notin t
             nst    == Only("WITH_SESSION_TICKET" \in t, <<"SERVER_NEW_SESSION_TICKET">>)
             npn    == Only("WITH_NPN" \in t, <<"CLIENT_NPN">>)
             status == Only("OCSP_STATUS" \in t, <<"SERVER_CERT_STATUS">>)
             key    == Only("TLS12_PERFECT_FORWARD_SECRECY" \in t, <<"SERVER_KEY">>)
             req    == Only(auth, <<"SERVER_CERT_REQ">>)
             ccert  == Only(auth, <<"CLIENT_CERT">>)
             verify == Only(cert, <<"CLIENT_CERT_VERIFY">>)
             cend   == <<"CLIENT_CHANGE_CIPHER_SPEC">> \o npn \o <<"CLIENT_FINISHED">>
             send   == nst \o <<"SERVER_CHANGE_CIPHER_SPEC", "SERVER_FINISHED">>
             hellos == <<"CLIENT_HELLO", "SERVER_HELLO">>
             s1 == <<"SERVER_CERT">> \o status \o key \o req \o <<"SERVER_HELLO_DONE">>
             s2 == s1 \o ccert \o <<"CLIENT_KEY">>
             last == <<"APPLICATION_DATA">>
  <1>1. TLS12Row(t) = hellos \o ((((s2 \o verify) \o cend) \o send) \o last)
    BY DEF TLS12Row
  <1>2. {"SERVER_NEW_SESSION_TICKET", "CLIENT_NPN", "SERVER_CERT_STATUS", "SERVER_KEY", "SERVER_CERT_REQ", "CLIENT_CERT",
         "CLIENT_CERT_VERIFY", "CLIENT_CHANGE_CIPHER_SPEC", "CLIENT_FINISHED", "SERVER_CHANGE_CIPHER_SPEC",
         "SERVER_FINISHED", "SERVER_CERT", "SERVER_HELLO_DONE", "CLIENT_KEY"} \subseteq Messages
    BY DEF Messages, ClientMessages, ServerMessages
  <1>3. /\ GoesOn(<<"SERVER_NEW_SESSION_TICKET">>) /\ GoesOn(<<"CLIENT_NPN">>) /\ GoesOn(<<"SERVER_CERT_STATUS">>)
        /\ GoesOn(<<"SERVER_KEY">>) /\ GoesOn(<<"SERVER_CERT_REQ">>) /\ GoesOn(<<"CLIENT_CERT">>)
        /\ GoesOn(<<"CLIENT_CERT_VERIFY">>) /\ GoesOn(<<"CLIENT_CHANGE_CIPHER_SPEC">>)
        /\ GoesOn(<<"CLIENT_FINISHED">>) /\ GoesOn(<<"SERVER_CHANGE_CIPHER_SPEC", "SERVER_FINISHED">>)
        /\ GoesOn(<<"SERVER_CERT">>) /\ GoesOn(<<"SERVER_HELLO_DONE">>) /\ GoesOn(<<"CLIENT_KEY">>)
    BY <1>2, Pieces
  <1>4. /\ GoesOn(nst) /\ GoesOn(npn) /\ GoesOn(status) /\ GoesOn(key) /\ GoesOn(req) /\ GoesOn(ccert)
        /\ GoesOn(verify)
    BY <1>3, Pieces
  <1>5. cert => verify = <<"CLIENT_CERT_VERIFY">>
    BY DEF Only
  <1> HIDE DEF nst, npn, status, key, req, ccert, verify, cert
  <1>6. GoesOn(cend) /\ GoesOn(send) /\ GoesOn(s1) /\ Starts(hellos) /\ Ends(last)
    BY <1>3, <1>4, GoesFurther, Pieces
  <1> HIDE DEF cend, send, s1, hellos, last
  <1>7. GoesOn(s2)
    BY <1>3, <1>4, <1>6, GoesFurther
  <1> HIDE DEF s2
  <1>8. GoesOn(s2 \o verify) /\ GoesOn((s2 \o verify) \o cend) /\ GoesOn(((s2 \o verify) \o cend) \o send)
    BY <1>4, <1>6, <1>7, GoesFurther
  <1>9. Ends((((s2 \o verify) \o cend) \o send) \o last)
    BY <1>6, <1>8, EndsOn
  <1>10. Whole(TLS12Row(t))
    BY <1>1, <1>6, <1>9, StartsEnds
  <1>11. ASSUME cert PROVE Verifies(TLS12Row(t))
    <2>1. Verifies(verify)
      BY <1>5, <1>11, Pieces
    <2>2. /\ s2 \in Names /\ verify \in Names /\ cend \in Names /\ send \in Names /\ last \in Names /\ hellos \in Names
          /\ s2 \o verify \in Names /\ (s2 \o verify) \o cend \in Names /\ ((s2 \o verify) \o cend) \o send \in Names
          /\ (((s2 \o verify) \o cend) \o send) \o last \in Names
      BY <1>4, <1>6, <1>7, <1>8, <1>9 DEF Starts, GoesOn, Ends
    <2>3. Verifies(s2 \o verify)
      BY <2>1, <2>2, VerifiesOn
    <2>4. Verifies((s2 \o verify) \o cend)
      BY <2>2, <2>3, VerifiesOn
    <2>5. Verifies(((s2 \o verify) \o cend) \o send)
      BY <2>2, <2>4, VerifiesOn
    <2>6. Verifies((((s2 \o verify) \o cend) \o send) \o last)
      BY <2>2, <2>5, VerifiesOn
    <2> QED
      BY <1>1, <2>2, <2>6, VerifiesOn
  <1> QED
    BY <1>10, <1>11 DEF cert

-----------------------------------------------------------------------------
(* The server's row.                                                       *)

LEMMA ConfigFacts ==
    ASSUME cfg \in Configs
    PROVE  cfg \in AllConfigs /\ WellFormed(cfg)
  BY ConfigsAssumption

LEMMA ServerTypeFacts ==
    ASSUME cfg \in Configs, cfg.server_auth = "required"
    PROVE  /\ ServerType \in SUBSET Flags /\ Defined(ChosenMachine, ServerType)
           /\ "NEGOTIATED" \in ServerType /\ "NO_CLIENT_CERT" \notin ServerType
           /\ ChosenMachine = "tls12" => "FULL_HANDSHAKE" \in ServerType
           /\ "FULL_HANDSHAKE" \in ServerType => "CLIENT_AUTH" \in ServerType
           /\ ChosenMachine \in {"tls12", "tls13"}
  <1>1. cfg \in AllConfigs /\ WellFormed(cfg)
    BY ConfigFacts
  <1>2. CASE cfg.version = 13
    <2>1. ChosenMachine = "tls13"
      BY <1>2 DEF ChosenMachine
    <2>2. ServerType = (HelloFlags \cap KeptFlags) \cup {"NEGOTIATED", "MIDDLEBOX_COMPAT"}
                       \cup Flag(~cfg.psk, "FULL_HANDSHAKE") \cup Flag(cfg.early = "accepted", "WITH_EARLY_DATA")
                       \cup Flag(~cfg.psk, "CLIENT_AUTH")
      BY <1>1, <1>2 DEF ServerType, s2n_conn_set_tls13_handshake_type, ExpectsCertReq, AllConfigs
    <2>3. HelloFlags \subseteq KeptFlags /\ ("HELLO_RETRY_REQUEST" \in HelloFlags <=> cfg.hrr)
      BY <1>1 DEF HelloFlags, EarlyFlags, KeptFlags, Flag, AllConfigs
    <2>4. cfg.early = "accepted" => cfg.psk /\ ~cfg.hrr
      BY <1>1 DEF WellFormed
    <2>5. TLS13Defined(ServerType)
      BY <2>2, <2>3, <2>4 DEF TLS13Defined, Flag, KeptFlags
    <2> QED
      BY <2>1, <2>2, <2>3, <2>5 DEF Defined, Flag, KeptFlags, Flags
  <1>3. CASE cfg.version = 12
    <2>1. ChosenMachine = "tls12" /\ ServerType = TLS12Type("server") /\ ~cfg.resume
      BY <1>1, <1>3 DEF ChosenMachine, ServerType, WellFormed
    <2>2. ServerType = {"NEGOTIATED", "CLIENT_AUTH", "FULL_HANDSHAKE"} \cup Flag(cfg.npn, "WITH_NPN")
                       \cup Flag(cfg.ticket, "WITH_SESSION_TICKET")
                       \cup Flag(cfg.pfs, "TLS12_PERFECT_FORWARD_SECRECY")
                       \cup Flag(cfg.ocsp = "stapled", "OCSP_STATUS")
      BY <2>1 DEF TLS12Type, TLS12TypeBeforeLookup, ExpectsCertReq, Flag
    <2>3. TLS12Defined(ServerType)
      BY <2>2 DEF TLS12Defined, Flag
    <2> QED
      BY <2>1, <2>2, <2>3 DEF Defined, Flag, Flags
  <1> QED
    BY <1>1, <1>2, <1>3 DEF AllConfigs

LEMMA ServerRowFacts ==
    ASSUME cfg \in Configs, cfg.server_auth = "required"
    PROVE  Whole(ServerRow) /\ ("FULL_HANDSHAKE" \in ServerType => Verifies(ServerRow))
  <1>1. ServerRow = IF ChosenMachine = "tls13" THEN TLS13Row(ServerType) ELSE TLS12Row(ServerType)
    BY ServerTypeFacts DEF ServerRow, Row, handshakes, tls13_handshakes, Defined
  <1>2. CASE ChosenMachine = "tls13"
    BY <1>1, <1>2, ServerTypeFacts, WholeRow13
  <1>3. CASE ChosenMachine = "tls12"
    BY <1>1, <1>3, ServerTypeFacts, WholeRow12
  <1> QED
    BY <1>2, <1>3, ServerTypeFacts

LEMMA SameRow ==
    ASSUME cfg' = cfg
    PROVE  ServerType' = ServerType /\ ServerRow' = ServerRow /\ ChosenMachine' = ChosenMachine
  <1>1. ServerType' = ServerType /\ ChosenMachine' = ChosenMachine
    BY DEF ServerType, HelloFlags, s2n_conn_set_tls13_handshake_type, ExpectsCertReq, TLS12Type, TLS12TypeBeforeLookup,
           ChosenMachine
  <1> QED
    BY <1>1 DEF ServerRow, Row

LEMMA Writers ==
    \A m : (Writer(m) = "client" <=> m \in ClientMessages) /\ (Writer(m) = "server" <=> m \in ServerMessages)
  <1>1. ClientMessages \cap ServerMessages = {}
    BY DEF ClientMessages, ServerMessages
  <1> QED
    BY <1>1 DEF Writer

(* The message the server is at.                                           *)
LEMMA FirstMessage ==
    MessageAt("initial", {}, 0) = "CLIENT_HELLO" /\ MessageAt("tls13", EarlyFlags, 0) = "CLIENT_HELLO"
  <1>1. Row("initial", {}) = <<"CLIENT_HELLO", "SERVER_HELLO">> \o << >>
    BY DEF Row, handshakes, TLS12Defined, TLS12Row
  <1>2. Len(Row("initial", {})) = 2 /\ Row("initial", {})[1] = "CLIENT_HELLO"
    BY <1>1
  <1>3. TLS13Row(EarlyFlags) = <<"CLIENT_HELLO">> \o <<"CLIENT_CHANGE_CIPHER_SPEC">> \o <<"SERVER_HELLO">>
    BY DEF TLS13Row, EarlyFlags, Only
  <1>4. Row("tls13", EarlyFlags) = TLS13Row(EarlyFlags)
    BY DEF Row, tls13_handshakes, TLS13Defined, EarlyFlags, Flags
  <1>5. Len(Row("tls13", EarlyFlags)) = 3 /\ Row("tls13", EarlyFlags)[1] = "CLIENT_HELLO"
    BY <1>3, <1>4
  <1> QED
    BY <1>2, <1>5 DEF MessageAt

LEMMA ActiveFresh ==
    ASSUME Fresh
    PROVE  ActiveMessage("server") = "CLIENT_HELLO" /\ ~IsWriter("server")
  <1>1. ActiveMessage("server") = "CLIENT_HELLO"
    BY FirstMessage DEF Fresh, ActiveMessage
  <1> QED
    BY <1>1, Writers DEF IsWriter, ServerMessages

LEMMA ActiveSettled ==
    ASSUME cfg \in Configs, cfg.server_auth = "required", Settled
    PROVE  LET n == message_number["server"]
           IN  /\ n \in Nat /\ n >= 1 /\ n + 1 <= Len(ServerRow) /\ Len(ServerRow) \in Nat
               /\ ActiveMessage("server") = ServerRow[n + 1] /\ ServerRow[n + 1] \in Known
               /\ IsComplete("server") <=> n + 1 = Len(ServerRow)
  <1> DEFINE n == message_number["server"]
  <1>1. ServerRow \in Seq(Known) /\ Ends(ServerRow)
    BY ServerRowFacts DEF Whole, Ends, Names
  <1>2. Len(ServerRow) \in Nat
    BY <1>1
  <1>3. n \in Nat /\ n >= 1 /\ n + 1 <= Len(ServerRow) /\ n + 1 \in 1..Len(ServerRow)
    BY <1>2 DEF Settled
  <1>4. ActiveMessage("server") = ServerRow[n + 1]
    BY <1>2, <1>3 DEF Settled, ActiveMessage, MessageAt, ServerRow
  <1>5. ServerRow[n + 1] \in Known
    BY <1>1, <1>3
  <1>6. IsComplete("server") <=> n + 1 = Len(ServerRow)
    BY <1>1, <1>3, <1>4 DEF IsComplete, Ends
  <1> QED
    BY <1>2, <1>3, <1>4, <1>5, <1>6

(* The server's state machine advances along its row.                      *)
LEMMA Advance ==
    ASSUME cfg \in Configs, cfg.server_auth = "required", cfg' = cfg, DOMAIN message_number = Peers,
           NEW n \in Nat, n = message_number["server"], n + 1 < Len(ServerRow),
           s2n_advance_message("server", ChosenMachine, ServerType),
           state_machine'["server"] = ChosenMachine, handshake_type'["server"] = ServerType,
           \A i \in 1..(n + 1) : ServerRow[i] = "CLIENT_CERT_VERIFY" => HasVerify(transcript'["server"])
    PROVE  Settled'
  <1>1. ServerRow \in Seq(Known) /\ Ends(ServerRow) /\ Len(ServerRow) \in Nat
    BY ServerRowFacts DEF Whole, Ends, Names
  <1>2. MessageAt(ChosenMachine, ServerType, n + 1) = ServerRow[n + 2]
    BY <1>1 DEF MessageAt, ServerRow
  <1>3. \/ message_number'["server"] = n + 1
        \/ message_number'["server"] = n + 2 /\ ServerRow[n + 2] \in ChangeCipherSpecs
    BY <1>2 DEF s2n_advance_message, Peers
  <1>4. message_number'["server"] \in 1..(Len(ServerRow) - 1)
    <2>1. CASE message_number'["server"] = n + 1
      BY <1>1, <2>1
    <2>2. CASE message_number'["server"] = n + 2 /\ ServerRow[n + 2] \in ChangeCipherSpecs
      <3>1. ServerRow[n + 2] # "APPLICATION_DATA" /\ n + 2 \in 1..Len(ServerRow)
        BY <1>1, <2>2 DEF ChangeCipherSpecs
      <3>2. n + 2 # Len(ServerRow)
        BY <1>1, <3>1 DEF Ends
      <3> QED
        BY <1>1, <2>2, <3>1, <3>2
    <2> QED
      BY <1>3, <2>1, <2>2
  <1>5. \A i \in 1..message_number'["server"] :
          ServerRow[i] = "CLIENT_CERT_VERIFY" => HasVerify(transcript'["server"])
    <2>1. CASE message_number'["server"] = n + 1
      BY <2>1
    <2>2. CASE message_number'["server"] = n + 2 /\ ServerRow[n + 2] \in ChangeCipherSpecs
      <3>1. ServerRow[n + 2] # "CLIENT_CERT_VERIFY"
        BY <2>2 DEF ChangeCipherSpecs
      <3>2. \A i \in 1..(n + 2) : i = n + 2 \/ i \in 1..(n + 1)
        OBVIOUS
      <3> QED
        BY <2>2, <3>1, <3>2
    <2> QED
      BY <1>3, <2>1, <2>2
  <1> QED
    BY <1>4, <1>5, SameRow DEF Settled

-----------------------------------------------------------------------------
(* Types.                                                                  *)

LEMMA Others == other("client") = "server" /\ other("server") = "client"
  BY DEF other, Peers

LEMMA NotEmptied ==
    ASSUME NEW S, NEW r \in Seq(S), NEW m \in S
    PROVE  Append(r, m) \in Seq(S) \ {<< >>}
  <1>1. Append(r, m) \in Seq(S) /\ Len(Append(r, m)) = Len(r) + 1 /\ Len(r) \in Nat
    OBVIOUS
  <1>2. Len(Append(r, m)) # 0
    BY <1>1
  <1>3. Len(<< >>) = 0
    OBVIOUS
  <1> QED
    BY <1>1, <1>2, <1>3

(* A record of the client's messages stays one when a message is added.    *)
LEMMA Sending ==
    ASSUME TypeInv, NEW p \in Peers, NEW m, Writer(m) = p, s2n_handshake_message_send(p, m)
    PROVE  DOMAIN net' = Peers /\ net'["server"] \in Seq(Seq(ClientMessages) \ {<< >>})
  <1>1. CASE p = "server"
    BY <1>1, Others DEF s2n_handshake_message_send, TypeInv, Peers
  <1>2. CASE p = "client"
    <2> DEFINE R == Seq(ClientMessages) \ {<< >>}
               s == net["server"]
    <2>1. m \in ClientMessages /\ s \in Seq(R) /\ DOMAIN net = Peers
      BY <1>2, Writers DEF TypeInv
    <2>2. CASE net' = [net EXCEPT !["server"] = Append(s, << m >>)]
      <3>1. << m >> \in R
        BY <2>1
      <3> HIDE DEF R, s
      <3>2. Append(s, << m >>) \in Seq(R)
        BY <2>1, <3>1
      <3> QED
        BY <2>1, <2>2, <3>2 DEF Peers, R
    <2>3. CASE s # << >> /\ net' = [net EXCEPT !["server"] = Append(Front(s), Append(Last(s), m))]
      <3>1. Len(s) \in Nat /\ Len(s) >= 1 /\ s[Len(s)] \in R
        <4> HIDE DEF R, s
        <4> QED
          BY <2>1, <2>3
      <3>2. Append(s[Len(s)], m) \in R
        <4>1. s[Len(s)] \in Seq(ClientMessages)
          BY <3>1
        <4> QED
          BY <2>1, <4>1, NotEmptied
      <3> HIDE DEF R, s
      <3>3. SubSeq(s, 1, Len(s) - 1) \in Seq(R)
        BY <2>1, <3>1
      <3>4. Append(Front(s), Append(Last(s), m)) \in Seq(R)
        BY <3>2, <3>3 DEF Front, Last
      <3> QED
        BY <2>1, <2>3, <3>4 DEF Peers, R
    <2> QED
      BY <1>2, <2>2, <2>3, Others DEF s2n_handshake_message_send
  <1> QED
    BY <1>1, <1>2 DEF Peers

LEMMA TypeInit ==
    ASSUME Init
    PROVE  TypeInv
  BY DEF Init, TypeInv, Peers

(* The transcript of the server takes a message of either peer.            *)
LEMMA Hashing ==
    ASSUME DOMAIN transcript = Peers, transcript["server"] \in Seq(Messages), NEW m \in Messages,
           s2n_handshake_transcript_update("server", m)
    PROVE  /\ transcript'["server"] \in Seq(Messages)
           /\ HasVerify(transcript["server"]) => HasVerify(transcript'["server"])
           /\ m = "CLIENT_CERT_VERIFY" => HasVerify(transcript'["server"])
  <1> DEFINE s == transcript["server"]
  <1>1. s \in Seq(Messages) /\ DOMAIN transcript = Peers
    OBVIOUS
  <1>2. CASE m \in ChangeCipherSpecs
    BY <1>1, <1>2 DEF s2n_handshake_transcript_update, Peers, ChangeCipherSpecs
  <1>3. CASE m \notin ChangeCipherSpecs
    <2>1. transcript'["server"] = Append(s, m)
      BY <1>1, <1>3 DEF s2n_handshake_transcript_update, Peers
    <2> HIDE DEF s
    <2>2. /\ Append(s, m) \in Seq(Messages) /\ Len(Append(s, m)) = Len(s) + 1 /\ Append(s, m)[Len(s) + 1] = m
          /\ \A i \in 1..Len(s) : Append(s, m)[i] = s[i]
      BY <1>1
    <2>3. DOMAIN s = 1..Len(s) /\ DOMAIN Append(s, m) = 1..(Len(s) + 1) /\ Len(s) \in Nat
      BY <1>1, <2>2
    <2>4. HasVerify(s) => HasVerify(Append(s, m))
      BY <2>2, <2>3 DEF HasVerify
    <2>5. m = "CLIENT_CERT_VERIFY" => HasVerify(Append(s, m))
      BY <2>2, <2>3 DEF HasVerify
    <2> QED
      BY <2>1, <2>2, <2>4, <2>5 DEF s
  <1> QED
    BY <1>2, <1>3

(* A message that is written is a message of the protocol; the next        *)
(* message of a record of the server's is the client's.                    *)
LEMMA Written ==
    ASSUME NEW p \in Peers, IsWriter(p)
    PROVE  Writer(ActiveMessage(p)) = p /\ ActiveMessage(p) \in Messages
  BY Writers DEF IsWriter, Messages, Peers

LEMMA NextMessage ==
    ASSUME TypeInv, in["server"] # << >>
    PROVE  Head(in["server"]) \in ClientMessages /\ Tail(in["server"]) \in Seq(ClientMessages)
  BY DEF TypeInv

LEMMA NextRecord ==
    ASSUME TypeInv, net["server"] # << >>
    PROVE  /\ Head(net["server"]) \in Seq(ClientMessages)
           /\ Tail(net["server"]) \in Seq(Seq(ClientMessages) \ {<< >>})
  BY DEF TypeInv

LEMMA Empty == << >> \in Seq(ClientMessages)
  OBVIOUS

LEMMA TypeStep ==
    ASSUME TypeInv, NEW p \in Peers, NegotiateStep(p)
    PROVE  TypeInv'
  <1> USE DEF Peers
  <1>1. CASE s2n_handshake_write_io(p)
    <2>1. DOMAIN net' = Peers /\ net'["server"] \in Seq(Seq(ClientMessages) \ {<< >>})
      BY <1>1, Sending, Written DEF s2n_handshake_write_io, MayWrite
    <2> QED
      BY <1>1, <2>1 DEF s2n_handshake_write_io, TypeInv
  <1>2. CASE WriteFails(p) \/ RejectCCS(p) \/ RejectMessage(p) \/ TransportEnds(p)
    <2>1. Fail(p)
      BY <1>2 DEF WriteFails, RejectCCS, RejectMessage, TransportEnds
    <2> QED
      BY <2>1 DEF Fail, TypeInv
  <1>3. CASE WriteBlocks(p)
    BY <1>3 DEF WriteBlocks, TypeInv
  <1>4. CASE RetryWrite(p)
    BY <1>4 DEF RetryWrite, TypeInv
  <1>5. CASE FinishWrite(p)
    BY <1>5 DEF FinishWrite, TypeInv, s2n_advance_message, s2n_handshake_transcript_update
  <1>6. CASE s2n_read_full_record(p)
    BY <1>6, NextRecord DEF s2n_read_full_record, TypeInv
  <1>7. CASE ReadCCS(p)
    BY <1>7, NextRecord DEF ReadCCS, CCSArrives, TypeInv, s2n_advance_message
  <1>8. CASE ReadMessage(p)
    BY <1>8, NextMessage DEF ReadMessage, InRecord, s2n_finish_read, TypeInv, s2n_advance_message, s2n_handshake_transcript_update
  <1>9. CASE IgnoreHelloRequest(p)
    BY <1>9 DEF IgnoreHelloRequest, TypeInv
  <1>10. CASE ReadBlocks(p)
    BY <1>10, Empty DEF ReadBlocks, TypeInv
  <1>11. CASE RetryRead(p)
    BY <1>11, Empty DEF RetryRead, s2n_finish_read, TypeInv, s2n_advance_message, s2n_handshake_transcript_update
  <1> QED
    BY <1>1, <1>2, <1>3, <1>4, <1>5, <1>6, <1>7, <1>8, <1>9, <1>10, <1>11 DEF NegotiateStep

-----------------------------------------------------------------------------
(* What the server's state machine is about does not change unless the     *)
(* server takes a step.                                                    *)

LEMMA SamePlace ==
    ASSUME cfg' = cfg, state_machine'["server"] = state_machine["server"],
           handshake_type'["server"] = handshake_type["server"],
           message_number'["server"] = message_number["server"], transcript'["server"] = transcript["server"]
    PROVE  /\ ActiveMessage("server")' = ActiveMessage("server") /\ (IsWriter("server")' <=> IsWriter("server"))
           /\ (Fresh => Fresh') /\ (Settled => Settled')
  <1>1. ActiveMessage("server")' = ActiveMessage("server") /\ (IsWriter("server")' <=> IsWriter("server"))
    BY DEF ActiveMessage, MessageAt, Row, IsWriter
  <1>2. Fresh => Fresh'
    BY DEF Fresh
  <1>3. Settled => Settled'
    BY SameRow DEF Settled
  <1> QED
    BY <1>1, <1>2, <1>3

LEMMA ServerUntouched ==
    ASSUME ServerInv, cfg' = cfg, state_machine'["server"] = state_machine["server"],
           handshake_type'["server"] = handshake_type["server"],
           message_number'["server"] = message_number["server"], paused'["server"] = paused["server"],
           io'["server"] = io["server"], in'["server"] = in["server"], transcript'["server"] = transcript["server"]
    PROVE  ServerInv'
  <1>1. Held => Held'
    BY SamePlace DEF Held
  <1> QED
    BY <1>1, SamePlace DEF ServerInv

LEMMA ClientStep ==
    ASSUME TypeInv, ServerInv, NegotiateStep("client")
    PROVE  ServerInv'
  <1> USE DEF TypeInv, Peers
  <1>1. /\ cfg' = cfg /\ state_machine'["server"] = state_machine["server"]
        /\ handshake_type'["server"] = handshake_type["server"]
        /\ message_number'["server"] = message_number["server"] /\ paused'["server"] = paused["server"]
        /\ io'["server"] = io["server"] /\ in'["server"] = in["server"]
        /\ transcript'["server"] = transcript["server"]
    <2>1. CASE s2n_handshake_write_io("client")
      BY <2>1 DEF s2n_handshake_write_io
    <2>2. CASE WriteFails("client") \/ RejectCCS("client") \/ RejectMessage("client") \/ TransportEnds("client")
      <3>1. Fail("client")
        BY <2>2 DEF WriteFails, RejectCCS, RejectMessage, TransportEnds
      <3> QED
        BY <3>1 DEF Fail
    <2>3. CASE WriteBlocks("client")
      BY <2>3 DEF WriteBlocks
    <2>4. CASE RetryWrite("client")
      BY <2>4 DEF RetryWrite
    <2>5. CASE FinishWrite("client")
      BY <2>5 DEF FinishWrite, s2n_advance_message, s2n_handshake_transcript_update
    <2>6. CASE s2n_read_full_record("client")
      BY <2>6 DEF s2n_read_full_record
    <2>7. CASE ReadCCS("client")
      BY <2>7 DEF ReadCCS, s2n_advance_message
    <2>8. CASE ReadMessage("client")
      BY <2>8 DEF ReadMessage, s2n_finish_read, s2n_advance_message, s2n_handshake_transcript_update
    <2>9. CASE IgnoreHelloRequest("client")
      BY <2>9 DEF IgnoreHelloRequest
    <2>10. CASE ReadBlocks("client")
      BY <2>10 DEF ReadBlocks
    <2>11. CASE RetryRead("client")
      BY <2>11 DEF RetryRead, s2n_finish_read, s2n_advance_message, s2n_handshake_transcript_update
    <2> QED
      BY <2>1, <2>2, <2>3, <2>4, <2>5, <2>6, <2>7, <2>8, <2>9, <2>10, <2>11 DEF NegotiateStep
  <1> QED
    BY <1>1, ServerUntouched

-----------------------------------------------------------------------------
(* The server handles a message.                                           *)

(* A ClientHello, the first or the second, gives the server its type.      *)
LEMMA TypeOfHello ==
    ASSUME cfg \in Configs, cfg.server_auth = "required", Fresh \/ Settled, NEW t
    PROVE  TypeAfter("server", "CLIENT_HELLO", t) = ServerType
  <1>1. cfg \in AllConfigs /\ WellFormed(cfg)
    BY ConfigFacts
  <1>2. TypeAfter("server", "CLIENT_HELLO", t)
        = s2n_conn_set_handshake_type("server", TypeAfterClientHello("server"), cfg.psk, cfg.early = "accepted")
    BY DEF TypeAfter
  <1>3. CASE cfg.version = 12
    BY <1>2, <1>3 DEF s2n_conn_set_handshake_type, ServerType
  <1>4. CASE cfg.version = 13
    <2>1. TypeAfterClientHello("server") =
            handshake_type["server"]
            \cup (IF cfg.early # "no" /\ message_number["server"] = 0 THEN EarlyFlags ELSE {})
            \cup Flag(cfg.hrr, "HELLO_RETRY_REQUEST")
      BY <1>4 DEF TypeAfterClientHello
    <2>2. TypeAfterClientHello("server") \cap KeptFlags \subseteq HelloFlags \cup {"MIDDLEBOX_COMPAT"}
      <3>1. CASE Fresh
        BY <2>1, <3>1 DEF Fresh, HelloFlags, KeptFlags, EarlyFlags, Flag
      <3>2. CASE Settled
        <4>1. ServerType \cap KeptFlags \subseteq HelloFlags \cup {"MIDDLEBOX_COMPAT"}
          BY <1>4 DEF ServerType, s2n_conn_set_tls13_handshake_type, KeptFlags, Flag
        <4>2. message_number["server"] # 0 /\ handshake_type["server"] = ServerType
          BY <3>2 DEF Settled
        <4>3. TypeAfterClientHello("server") = ServerType \cup Flag(cfg.hrr, "HELLO_RETRY_REQUEST")
          BY <2>1, <4>2
        <4> QED
          BY <4>1, <4>3 DEF HelloFlags
      <3> QED
        BY <3>1, <3>2
    <2>3. HelloFlags \subseteq TypeAfterClientHello("server") \cap KeptFlags
      <3>1. CASE Fresh
        BY <2>1, <3>1 DEF Fresh, HelloFlags, KeptFlags, EarlyFlags, Flag
      <3>2. CASE Settled
        <4>1. HelloFlags \subseteq KeptFlags
          BY DEF HelloFlags, KeptFlags, EarlyFlags, Flag
        <4>2. HelloFlags \subseteq ServerType
          BY <1>4, <4>1 DEF ServerType, s2n_conn_set_tls13_handshake_type
        <4> QED
          BY <2>1, <3>2, <4>1, <4>2 DEF Settled
      <3> QED
        BY <3>1, <3>2
    <2>4. HelloFlags \subseteq KeptFlags
      BY <2>3
    <2>5. (TypeAfterClientHello("server") \cap KeptFlags) \cup {"NEGOTIATED", "MIDDLEBOX_COMPAT"}
          = (HelloFlags \cap KeptFlags) \cup {"NEGOTIATED", "MIDDLEBOX_COMPAT"}
      BY <2>2, <2>3, <2>4
    <2> QED
      BY <1>2, <1>4, <2>5 DEF s2n_conn_set_handshake_type, ServerType, s2n_conn_set_tls13_handshake_type
  <1> QED
    BY <1>1, <1>3, <1>4 DEF AllConfigs

(* The message the server accepts is the one it is at.                     *)
LEMMA Expected ==
    ASSUME cfg \in Configs, cfg.server_auth = "required", Fresh \/ Settled,
           NEW m \in ClientMessages, Accepts("server", m)
    PROVE  ActiveMessage("server") = m /\ (m = "CLIENT_CERT" => cfg.has_cert)
  <1> DEFINE e == ActiveMessage("server")
  <1>1. TypeOnArrival("server", m) = handshake_type["server"]
    BY DEF TypeOnArrival, Flag
  <1>2. e # "APPLICATION_DATA" /\ MessageType(m) = MessageType(e) /\ Writer(e) # "server" /\ HandlerAccepts("server", m)
    BY <1>1 DEF Accepts, ActiveMessage
  <1>3. e \in Known
    <2>1. CASE Fresh
      BY <2>1, ActiveFresh DEF Known, Messages, ClientMessages
    <2>2. CASE Settled
      BY <2>2, ActiveSettled
    <2> QED
      BY <2>1, <2>2
  <1> HIDE DEF e
  <1>4. e \in ClientMessages
    BY <1>2, <1>3, Writers DEF Known, Messages
  <1>5. e = m
    BY <1>2, <1>4 DEF MessageType, ClientMessages
  <1>6. m = "CLIENT_CERT" => cfg.has_cert
    BY <1>2 DEF HandlerAccepts, MayOmitCert
  <1> QED
    BY <1>5, <1>6 DEF e

LEMMA Below == \A n, l \in Nat : n + 1 <= l /\ n + 1 # l => n + 1 < l
  OBVIOUS

(* ... and handling it leaves the server in its row.                       *)
LEMMA Reading ==
    ASSUME TypeInv, ServerInv, cfg.server_auth = "required", cfg' = cfg,
           NEW m \in ClientMessages, ActiveMessage("server") = m, m = "CLIENT_CERT" => cfg.has_cert,
           s2n_finish_read("server", m, MachineAfter("server", m), TypeAfter("server", m, handshake_type["server"])),
           paused'["server"] = FALSE
    PROVE  ServerInv'
  <1> DEFINE n == message_number["server"]
  <1>1. cfg \in Configs /\ (Fresh \/ Settled) /\ transcript["server"] \in Seq(Messages) /\ m \in Messages
    BY DEF TypeInv, ServerInv, Messages
  <1>2. MachineAfter("server", m) = ChosenMachine /\ TypeAfter("server", m, handshake_type["server"]) = ServerType
    <2>1. CASE m = "CLIENT_HELLO"
      BY <1>1, <2>1, TypeOfHello DEF MachineAfter
    <2>2. CASE m # "CLIENT_HELLO"
      <3>1. Settled
        BY <1>1, <2>2, ActiveFresh
      <3>2. TypeAfter("server", m, handshake_type["server"]) = handshake_type["server"]
        BY <2>2 DEF TypeAfter, ClientMessages, Flag
      <3> QED
        BY <2>2, <3>1, <3>2 DEF MachineAfter, Settled, ClientMessages
    <2> QED
      BY <2>1, <2>2
  <1>3. /\ transcript'["server"] \in Seq(Messages)
        /\ HasVerify(transcript["server"]) => HasVerify(transcript'["server"])
        /\ m = "CLIENT_CERT_VERIFY" => HasVerify(transcript'["server"])
    BY <1>1, Hashing DEF s2n_finish_read, TypeInv
  <1>4. /\ s2n_advance_message("server", ChosenMachine, ServerType) /\ io'["server"] = "wiped"
        /\ state_machine'["server"] = ChosenMachine /\ handshake_type'["server"] = ServerType
    BY <1>2 DEF s2n_finish_read, TypeInv, Peers
  <1>5. /\ n \in Nat /\ n + 1 < Len(ServerRow)
        /\ \A i \in 1..(n + 1) : ServerRow[i] = "CLIENT_CERT_VERIFY" => HasVerify(transcript'["server"])
    <2>1. CASE Fresh
      <3>1. n = 0 /\ Len(ServerRow) >= 2 /\ ServerRow[1] = "CLIENT_HELLO"
        BY <1>1, <2>1, ServerRowFacts DEF Fresh, Whole
      <3> QED
        BY <3>1
    <2>2. CASE Settled
      <3>1. /\ n \in Nat /\ n + 1 <= Len(ServerRow) /\ Len(ServerRow) \in Nat /\ ServerRow[n + 1] = m
            /\ IsComplete("server") <=> n + 1 = Len(ServerRow)
        BY <1>1, <2>2, ActiveSettled
      <3>2. n + 1 < Len(ServerRow)
        <4>1. ~IsComplete("server")
          BY DEF IsComplete, ClientMessages
        <4>2. n + 1 # Len(ServerRow)
          BY <3>1, <4>1
        <4> QED
          BY <3>1, <4>2, Below
      <3>3. \A i \in 1..n : ServerRow[i] = "CLIENT_CERT_VERIFY" => HasVerify(transcript'["server"])
        BY <1>3, <2>2 DEF Settled
      <3>4. \A i \in 1..(n + 1) : i \in 1..n \/ i = n + 1
        BY <3>1
      <3> QED
        BY <1>3, <3>1, <3>2, <3>3, <3>4
    <2> QED
      BY <1>1, <2>1, <2>2
  <1>6. Settled'
    BY <1>1, <1>4, <1>5, Advance DEF TypeInv
  <1>7. Held'
    BY <1>4 DEF Held
  <1> QED
    BY <1>3, <1>6, <1>7 DEF ServerInv

-----------------------------------------------------------------------------
(* The server's steps.                                                     *)

LEMMA ServerWrites ==
    ASSUME TypeInv, ServerInv, cfg.server_auth = "required",
           s2n_handshake_write_io("server") \/ WriteBlocks("server") \/ RetryWrite("server")
    PROVE  ServerInv'
  <1> USE DEF Peers
  <1>1. /\ IsWriter("server") /\ cfg' = cfg
        /\ message_number' = message_number /\ transcript' = transcript /\ in' = in
    BY DEF s2n_handshake_write_io, WriteBlocks, RetryWrite, MayWrite
  <1>2. ActiveMessage("server") \in ServerMessages
    BY <1>1, Writers DEF IsWriter
  <1>3. /\ state_machine'["server"] = state_machine["server"]
        /\ handshake_type'["server"] = handshake_type["server"]
    <2>1. CASE s2n_handshake_write_io("server")
      <3>1. ~AsksForEarlyData(ActiveMessage("server"), "server") /\ ActiveMessage("server") # "CLIENT_CERT"
        BY <1>2 DEF AsksForEarlyData, ServerMessages
      <3>2. TypeAfterSend("server", ActiveMessage("server")) = handshake_type["server"]
        BY <3>1 DEF TypeAfterSend, Flag
      <3> QED
        BY <2>1, <3>1, <3>2 DEF s2n_handshake_write_io, TypeInv
    <2>2. CASE WriteBlocks("server")
      BY <2>2 DEF WriteBlocks
    <2>3. CASE RetryWrite("server")
      BY <2>3 DEF RetryWrite
    <2> QED
      BY <2>1, <2>2, <2>3
  <1>4. IsWriter("server")' /\ (Fresh => Fresh') /\ (Settled => Settled')
    BY <1>1, <1>3, SamePlace
  <1>5. io'["server"] = "written" => ~paused'["server"] /\ in'["server"] = << >>
    BY DEF s2n_handshake_write_io, WriteBlocks, RetryWrite, MayWrite, TypeInv
  <1>6. Held'
    BY <1>4, <1>5 DEF Held
  <1> QED
    BY <1>1, <1>4, <1>6 DEF ServerInv

LEMMA ServerAdvances ==
    ASSUME TypeInv, ServerInv, cfg.server_auth = "required", FinishWrite("server") \/ ReadCCS("server")
    PROVE  ServerInv'
  <1> USE DEF Peers
  <1> DEFINE n == message_number["server"]
             m == ActiveMessage("server")
  <1>1. cfg \in Configs /\ (Fresh \/ Settled) /\ transcript["server"] \in Seq(Messages) /\ cfg' = cfg
    BY DEF TypeInv, ServerInv, FinishWrite, ReadCCS
  <1>2. state_machine' = state_machine /\ handshake_type' = handshake_type
    BY DEF FinishWrite, ReadCCS
  <1>3. io'["server"] = "wiped" /\ ~paused'["server"]
    BY DEF FinishWrite, ReadCCS, CCSArrives, MayRead, ServerInv, Held, TypeInv
  <1>4. Held'
    BY <1>3 DEF Held
  <1>5. CASE ReadCCS("server") /\ ~ExpectsCCS("server")
    BY <1>1, <1>2, <1>4, <1>5, SamePlace DEF ReadCCS, ServerInv
  <1>6. CASE FinishWrite("server") \/ (ReadCCS("server") /\ ExpectsCCS("server"))
    <2>1. m \in ServerMessages \cup ChangeCipherSpecs
      BY <1>6, Writers DEF FinishWrite, ServerInv, Held, IsWriter, ExpectsCCS
    <2>2. m \notin {"CLIENT_CERT_VERIFY", "APPLICATION_DATA", "CLIENT_HELLO"}
      BY <2>1 DEF ServerMessages, ChangeCipherSpecs
    <2>3. Settled
      BY <1>1, <2>2, ActiveFresh
    <2>4. s2n_advance_message("server", ChosenMachine, ServerType)
      BY <1>6, <2>3 DEF FinishWrite, ReadCCS, Settled
    <2>5. /\ transcript'["server"] \in Seq(Messages)
          /\ HasVerify(transcript["server"]) => HasVerify(transcript'["server"])
      <3>1. CASE FinishWrite("server")
        <4>1. m \in Messages
          BY <3>1, Written DEF FinishWrite, ServerInv, Held
        <4> QED
          BY <1>1, <3>1, <4>1, Hashing DEF FinishWrite, TypeInv
      <3>2. CASE ReadCCS("server")
        BY <1>1, <3>2 DEF ReadCCS
      <3> QED
        BY <1>6, <3>1, <3>2
    <2>6. /\ n \in Nat /\ n + 1 <= Len(ServerRow) /\ Len(ServerRow) \in Nat /\ ServerRow[n + 1] = m
          /\ IsComplete("server") <=> n + 1 = Len(ServerRow)
      BY <1>1, <2>3, ActiveSettled
    <2>7. n + 1 < Len(ServerRow)
      <3>1. ~IsComplete("server")
        BY <2>2 DEF IsComplete
      <3>2. n + 1 # Len(ServerRow)
        BY <2>6, <3>1
      <3> QED
        BY <2>6, <3>2, Below
    <2>8. \A i \in 1..(n + 1) : ServerRow[i] = "CLIENT_CERT_VERIFY" => HasVerify(transcript'["server"])
      <3>1. \A i \in 1..n : ServerRow[i] = "CLIENT_CERT_VERIFY" => HasVerify(transcript'["server"])
        BY <2>3, <2>5 DEF Settled
      <3>2. \A i \in 1..(n + 1) : i \in 1..n \/ i = n + 1
        BY <2>6
      <3> QED
        BY <2>2, <2>6, <3>1, <3>2
    <2>9. Settled'
      BY <1>1, <1>2, <2>3, <2>4, <2>6, <2>7, <2>8, Advance DEF TypeInv, Settled
    <2> QED
      BY <1>4, <2>5, <2>9 DEF ServerInv
  <1> QED
    BY <1>5, <1>6

LEMMA ServerReadsRecord ==
    ASSUME TypeInv, ServerInv, cfg.server_auth = "required", s2n_read_full_record("server")
    PROVE  ServerInv'
  <1>1. /\ cfg' = cfg /\ state_machine' = state_machine /\ handshake_type' = handshake_type
        /\ message_number' = message_number /\ transcript' = transcript
        /\ io'["server"] = "wiped" /\ ~paused'["server"]
    BY DEF s2n_read_full_record, MayRead
  <1>2. Held'
    BY <1>1 DEF Held
  <1> QED
    BY <1>1, <1>2, SamePlace DEF ServerInv

LEMMA ServerReadsMessage ==
    ASSUME TypeInv, ServerInv, cfg.server_auth = "required", ReadMessage("server")
    PROVE  ServerInv'
  <1> DEFINE m == Head(in["server"])
  <1>1. m \in ClientMessages /\ Accepts("server", m) /\ cfg' = cfg /\ paused'["server"] = FALSE
    BY NextMessage DEF ReadMessage, InRecord, TypeInv
  <1>2. ActiveMessage("server") = m /\ (m = "CLIENT_CERT" => cfg.has_cert)
    BY <1>1, Expected DEF TypeInv, ServerInv
  <1>3. TypeOnArrival("server", m) = handshake_type["server"]
    BY DEF TypeOnArrival, Flag
  <1>4. s2n_finish_read("server", m, MachineAfter("server", m), TypeAfter("server", m, handshake_type["server"]))
    BY <1>3 DEF ReadMessage
  <1> HIDE DEF m
  <1> QED
    BY <1>1, <1>2, <1>4, Reading

LEMMA ServerRetriesRead ==
    ASSUME TypeInv, ServerInv, cfg.server_auth = "required", RetryRead("server")
    PROVE  ServerInv'
  <1> DEFINE m == ActiveMessage("server")
  <1>1. m \in ClientMessages /\ (m = "CLIENT_CERT" => cfg.has_cert)
    BY DEF RetryRead, ServerInv, Held, ClientMessages
  <1>2. /\ cfg' = cfg /\ paused'["server"] = FALSE
        /\ s2n_finish_read("server", m, MachineAfter("server", m), TypeAfter("server", m, handshake_type["server"]))
    BY DEF RetryRead, TypeInv, Peers
  <1> HIDE DEF m
  <1> QED
    BY <1>1, <1>2, Reading DEF m

LEMMA ServerReadBlocks ==
    ASSUME TypeInv, ServerInv, cfg.server_auth = "required", ReadBlocks("server")
    PROVE  ServerInv'
  <1> USE DEF Peers
  <1> DEFINE m == Head(in["server"])
  <1>1. m \in ClientMessages /\ Accepts("server", m) /\ cfg' = cfg /\ cfg \in Configs /\ (Fresh \/ Settled)
    BY NextMessage DEF ReadBlocks, InRecord, TypeInv, ServerInv
  <1>2. ActiveMessage("server") = m /\ (m = "CLIENT_CERT" => cfg.has_cert)
    BY <1>1, Expected
  <1>3. /\ message_number' = message_number /\ transcript' = transcript /\ io'["server"] = "received"
        /\ BlocksReading("server", m)
    BY DEF ReadBlocks, TypeInv
  <1>4. TypeOnArrival("server", m) = handshake_type["server"]
    BY DEF TypeOnArrival, Flag
  <1>5. \/ /\ state_machine'["server"] = state_machine["server"] /\ handshake_type'["server"] = handshake_type["server"]
        \/ /\ m = "CLIENT_HELLO" /\ cfg.psk /\ ~cfg.hrr /\ cfg.early # "no"
           /\ state_machine'["server"] = "tls13" /\ handshake_type'["server"] = TypeAfterClientHello("server")
    <2>1. PICK x \in WhileBlocked("server", m) :
            state_machine'["server"] = x[1] /\ handshake_type'["server"] = x[2]
      BY DEF ReadBlocks, TypeInv
    <2>2. \/ x = << state_machine["server"], handshake_type["server"] >>
          \/ /\ m = "CLIENT_HELLO" /\ cfg.psk /\ ~cfg.hrr /\ cfg.early # "no"
             /\ x = << "tls13", TypeAfterClientHello("server") >>
      BY <1>4 DEF WhileBlocked
    <2> QED
      BY <2>1, <2>2
  <1>6. m \in {"CLIENT_HELLO", "CLIENT_KEY", "CLIENT_CERT"}
    BY <1>1, <1>3 DEF BlocksReading, ClientMessages
  <1>7. CASE state_machine'["server"] = state_machine["server"] /\ handshake_type'["server"] = handshake_type["server"]
    <2>1. ActiveMessage("server")' = m /\ (Fresh => Fresh') /\ (Settled => Settled')
      BY <1>1, <1>2, <1>3, <1>7, SamePlace
    <2>2. Held'
      BY <1>1, <1>2, <1>3, <1>6, <2>1 DEF Held
    <2> QED
      BY <1>1, <1>3, <2>1, <2>2 DEF ServerInv
  <1>8. CASE /\ m = "CLIENT_HELLO" /\ cfg.psk /\ ~cfg.hrr /\ cfg.early # "no"
             /\ state_machine'["server"] = "tls13" /\ handshake_type'["server"] = TypeAfterClientHello("server")
    <2>1. message_number["server"] = 0
      BY <1>3, <1>8 DEF BlocksReading
    <2>2. Fresh
      BY <1>1, <2>1 DEF Settled
    <2>3. cfg.version = 13
      BY <1>1, <1>8, ConfigFacts DEF WellFormed, AllConfigs
    <2>4. TypeAfterClientHello("server") = EarlyFlags
      BY <1>8, <2>1, <2>2, <2>3 DEF TypeAfterClientHello, Fresh, Flag
    <2>5. Fresh'
      BY <1>1, <1>3, <1>8, <2>1, <2>3, <2>4 DEF Fresh, EarlyFlags
    <2>6. ActiveMessage("server")' = "CLIENT_HELLO"
      BY <1>3, <1>8, <2>1, <2>4, FirstMessage DEF ActiveMessage
    <2> QED
      BY <1>1, <1>3, <2>5, <2>6 DEF ServerInv, Held
  <1> QED
    BY <1>5, <1>7, <1>8

LEMMA ServerStep ==
    ASSUME TypeInv, ServerInv, NegotiateStep("server")
    PROVE  ServerInv'
  <1>1. cfg' = cfg
    BY DEF NegotiateStep, s2n_handshake_write_io, WriteFails, WriteBlocks, RetryWrite, FinishWrite,
           s2n_read_full_record, ReadCCS, RejectCCS, ReadMessage, IgnoreHelloRequest, RejectMessage, ReadBlocks,
           RetryRead, TransportEnds, Fail
  <1>2. CASE cfg.server_auth = "required"
    <2>1. CASE s2n_handshake_write_io("server") \/ WriteBlocks("server") \/ RetryWrite("server")
      BY <1>2, <2>1, ServerWrites
    <2>2. CASE FinishWrite("server") \/ ReadCCS("server")
      BY <1>2, <2>2, ServerAdvances
    <2>3. CASE s2n_read_full_record("server")
      BY <1>2, <2>3, ServerReadsRecord
    <2>4. CASE ReadMessage("server")
      BY <1>2, <2>4, ServerReadsMessage
    <2>5. CASE ReadBlocks("server")
      BY <1>2, <2>5, ServerReadBlocks
    <2>6. CASE RetryRead("server")
      BY <1>2, <2>6, ServerRetriesRead
    <2>7. CASE WriteFails("server") \/ RejectCCS("server") \/ RejectMessage("server") \/ TransportEnds("server")
      <3>1. Fail("server")
        BY <2>7 DEF WriteFails, RejectCCS, RejectMessage, TransportEnds
      <3> QED
        BY <3>1, ServerUntouched DEF Fail
    <2>8. ~IgnoreHelloRequest("server")
      BY DEF IgnoreHelloRequest
    <2> QED
      BY <2>1, <2>2, <2>3, <2>4, <2>5, <2>6, <2>7, <2>8 DEF NegotiateStep
  <1> QED
    BY <1>1, <1>2 DEF ServerInv

LEMMA InvStep ==
    ASSUME Inv, [Next]_vars
    PROVE  Inv'
  <1>1. TypeInv /\ ServerInv
    BY DEF Inv
  <1>2. ASSUME NEW p \in Peers, NegotiateStep(p) PROVE Inv'
    <2>1. TypeInv'
      BY <1>1, <1>2, TypeStep
    <2>2. ServerInv'
      BY <1>1, <1>2, ClientStep, ServerStep DEF Peers
    <2> QED
      BY <2>1, <2>2 DEF Inv
  <1>3. CASE SendHelloRequest
    <2>1. TypeInv'
      BY <1>1, <1>3 DEF SendHelloRequest, TypeInv, Peers
    <2>2. ServerInv'
      BY <1>1, <1>3, ServerUntouched DEF SendHelloRequest
    <2> QED
      BY <2>1, <2>2 DEF Inv
  <1>4. CASE UNCHANGED vars
    <2>1. TypeInv'
      BY <1>1, <1>4 DEF vars, TypeInv
    <2>2. ServerInv'
      BY <1>1, <1>4, ServerUntouched DEF vars
    <2> QED
      BY <2>1, <2>2 DEF Inv
  <1> QED
    BY <1>2, <1>3, <1>4 DEF Next, Terminated

LEMMA InvInit ==
    ASSUME Init
    PROVE  Inv
  <1>1. Fresh
    BY DEF Init, Fresh, Peers
  <1>2. Held
    BY DEF Init, Held, Peers
  <1>3. transcript["server"] \in Seq(Messages)
    BY DEF Init, Peers
  <1> QED
    BY <1>1, <1>2, <1>3, TypeInit DEF Inv, ServerInv

(* The server that is complete has its CertificateVerify behind it.        *)
LEMMA InvRequires ==
    ASSUME Inv
    PROVE  ClientCertRequired
  <1> SUFFICES ASSUME cfg.server_auth = "required", IsComplete("server"), "FULL_HANDSHAKE" \in handshake_type["server"]
               PROVE  HasVerify(transcript["server"])
    BY DEF ClientCertRequired, HasVerify
  <1> DEFINE n == message_number["server"]
  <1>1. cfg \in Configs /\ (Fresh \/ Settled)
    BY DEF Inv, TypeInv, ServerInv
  <1>2. Settled
    BY <1>1, ActiveFresh DEF IsComplete
  <1>3. /\ n \in Nat /\ Len(ServerRow) \in Nat
        /\ IsComplete("server") <=> n + 1 = Len(ServerRow)
    BY <1>1, <1>2, ActiveSettled
  <1>4. Ends(ServerRow) /\ Verifies(ServerRow)
    BY <1>1, <1>2, ServerRowFacts DEF Settled, Whole
  <1>5. PICK i \in 1..Len(ServerRow) : ServerRow[i] = "CLIENT_CERT_VERIFY"
    BY <1>4 DEF Verifies
  <1>6. i # Len(ServerRow)
    BY <1>4, <1>5 DEF Ends
  <1>7. i \in 1..n
    BY <1>3, <1>5, <1>6
  <1> QED
    BY <1>2, <1>5, <1>7 DEF Settled

(* The server's place in its message order, for every configuration, every *)
(* choice of the peers that block and of those that put several messages   *)
(* into a record: a server that requires client authentication keeps the   *)
(* handshake type of its first ClientHello and does not leave the row of   *)
(* that type.                                                              *)
THEOREM ServerInRow == Spec => []Inv
  <1>1. Init => Inv
    BY InvInit
  <1>2. Inv /\ [Next]_vars => Inv'
    BY InvStep
  <1> QED
    BY <1>1, <1>2, PTL DEF Spec

(* ClientCertRequired: s2n_negotiate of a server with S2N_CERT_AUTH_REQUIRED *)
(* reaches application data in a full handshake only after the server has  *)
(* handled a CertificateVerify of the client: retried handlers, a second   *)
(* ClientHello, early data and an empty Certificate do not get round it.   *)
THEOREM ClientCertIsRequired == Spec => []ClientCertRequired
  <1>1. Inv => ClientCertRequired
    BY InvRequires
  <1> QED
    BY <1>1, ServerInRow, PTL

-----------------------------------------------------------------------------
(***************************************************************************)
(* PastUnchanged: a peer that changes its handshake type has been through  *)
(* the same messages by the new one.                                       *)
(***************************************************************************)

(* The client of a resumed TLS1.2 session does not insist on client        *)
(* authentication: CLIENT_AUTH without FULL_HANDSHAKE has no row.          *)
Ordinary == \A c \in Configs : c.resume => c.client_auth # "required"

(* What may be on its way to a peer.                                       *)
Arriving(p) ==
  IF p = "server" THEN ClientMessages
  ELSE {m \in ServerMessages : m = "HELLO_RETRY_MSG" => cfg.hrr}

(* A peer with state machine k and type t, at message n of their row, that *)
(* has not settled what follows the hellos: a client, or a server that     *)
(* waits for the application in the first of them.                         *)
Undecided(p, k, t, n) ==
  /\ \/ k = "initial" /\ t = {}
     \/ k = "tls13" /\ t = EarlyFlags /\ cfg.early # "no"
  /\ p = "server" => n = 0 /\ k \in {"initial", ChosenMachine}
  /\ n \in Nat /\ n < Len(Row(k, t))

(* A type that a peer may have once that is settled: the server has the    *)
(* flags that the ClientHello gave it.                                     *)
Suits(p, k, t) ==
  /\ "NEGOTIATED" \in t /\ t \subseteq Flags /\ k = ChosenMachine /\ Defined(k, t)
  /\ cfg.early = "accepted" => "FULL_HANDSHAKE" \notin t
  /\ "HELLO_RETRY_REQUEST" \in t => cfg.hrr
  /\ k = "tls13" => "MIDDLEBOX_COMPAT" \in t
  /\ k = "tls13" /\ p = "server" => t \cap KeptFlags = HelloFlags \cup {"MIDDLEBOX_COMPAT"}

(* A client that was not asked to retry is past the ServerHello.           *)
FarEnough(p, k, t, n) ==
  /\ k = "tls13" \/ p = "client" => n >= 1
  /\ k = "tls13" /\ p = "client" /\ "HELLO_RETRY_REQUEST" \notin t =>
       n >= IF "EARLY_CLIENT_CCS" \in t THEN 3 ELSE 2

Decided(p, k, t, n) == Suits(p, k, t) /\ n \in Nat /\ n < Len(Row(k, t)) /\ FarEnough(p, k, t, n)

Placed(p, k, t, n) == Undecided(p, k, t, n) \/ Decided(p, k, t, n)

(* The message whose handler waits.                                        *)
Waiting(p) ==
  \/ ActiveMessage(p) \in {"CLIENT_KEY", "SERVER_CERT"}
  \/ ActiveMessage(p) = "CLIENT_CERT" /\ cfg.has_cert
  \/ ActiveMessage(p) = "CLIENT_HELLO" /\ message_number[p] = 0

PeerInv(p) ==
  /\ Placed(p, state_machine[p], handshake_type[p], message_number[p])
  /\ paused[p] /\ ~IsWriter(p) => Waiting(p)
  /\ io[p] = "written" => IsWriter(p) /\ in[p] = << >> /\ ~paused[p]

RecordsInv ==
  /\ cfg \in Configs
  /\ DOMAIN handshake_type = Peers /\ DOMAIN state_machine = Peers /\ DOMAIN message_number = Peers
  /\ DOMAIN paused = Peers /\ DOMAIN io = Peers /\ DOMAIN in = Peers /\ DOMAIN net = Peers
  /\ \A p \in Peers : /\ paused[p] \in BOOLEAN
                      /\ in[p] \in Seq(Arriving(p)) /\ net[p] \in Seq(Seq(Arriving(p)) \ {<< >>})

PastInv == RecordsInv /\ \A p \in Peers : PeerInv(p)

-----------------------------------------------------------------------------
(* Sequences that grow at the end.                                         *)
Lacks(s, X) == \A i \in 1..Len(s) : s[i] \notin X
Grown(r, s, X) ==
  /\ r \in Names /\ s \in Names /\ Len(s) <= Len(r)
  /\ \A i \in 1..Len(s) : r[i] = s[i]
  /\ \A i \in (Len(s) + 1)..Len(r) : r[i] \notin X

(* It grows by nothing, and by more.                                       *)
LEMMA GrownSelf ==
    ASSUME NEW s \in Names, NEW X
    PROVE  Grown(s, s, X)
  BY DEF Grown, Names

LEMMA Grow ==
    ASSUME NEW r, NEW s, NEW X, NEW u \in Names, Grown(r, s, X), Lacks(u, X)
    PROVE  Grown(r \o u, s, X)
  <1>1. r \in Names /\ s \in Names /\ Len(s) \in Nat /\ Len(r) \in Nat /\ Len(u) \in Nat
    BY DEF Grown, Names
  <1>2. r \o u \in Names /\ Len(r \o u) = Len(r) + Len(u)
    BY <1>1 DEF Names
  <1>3. \A i \in 1..Len(r) : (r \o u)[i] = r[i]
    BY <1>1 DEF Names
  <1>4. \A i \in (Len(r) + 1)..(Len(r) + Len(u)) : (r \o u)[i] = u[i - Len(r)] /\ i - Len(r) \in 1..Len(u)
    BY <1>1 DEF Names
  <1>5. \A i \in (Len(s) + 1)..(Len(r) + Len(u)) : (r \o u)[i] \notin X
    BY <1>1, <1>3, <1>4 DEF Grown, Lacks
  <1> QED
    BY <1>1, <1>2, <1>3, <1>5 DEF Grown

LEMMA LacksJoin ==
    ASSUME NEW s \in Names, NEW u \in Names, NEW X, Lacks(s, X), Lacks(u, X)
    PROVE  s \o u \in Names /\ Lacks(s \o u, X)
  BY DEF Lacks, Names

LEMMA GrownAfter ==
    ASSUME NEW h \in Names, NEW r, NEW s, NEW X, Grown(r, s, X)
    PROVE  Grown(h \o r, h \o s, X)
  <1>1. r \in Names /\ s \in Names /\ Len(s) \in Nat /\ Len(r) \in Nat /\ Len(h) \in Nat
    BY DEF Grown, Names
  <1>2. /\ h \o r \in Names /\ Len(h \o r) = Len(h) + Len(r)
        /\ h \o s \in Names /\ Len(h \o s) = Len(h) + Len(s)
    BY <1>1 DEF Names
  <1>3. /\ \A i \in 1..Len(h) : (h \o r)[i] = h[i] /\ (h \o s)[i] = h[i]
        /\ \A i \in (Len(h) + 1)..(Len(h) + Len(r)) : (h \o r)[i] = r[i - Len(h)] /\ i - Len(h) \in 1..Len(r)
        /\ \A i \in (Len(h) + 1)..(Len(h) + Len(s)) : (h \o s)[i] = s[i - Len(h)] /\ i - Len(h) \in 1..Len(s)
    BY <1>1 DEF Names
  <1>4. \A i \in 1..(Len(h) + Len(s)) : (h \o r)[i] = (h \o s)[i]
    BY <1>1, <1>3 DEF Grown
  <1>5. \A i \in (Len(h) + Len(s) + 1)..(Len(h) + Len(r)) : (h \o r)[i] \notin X
    BY <1>1, <1>3 DEF Grown
  <1> QED
    BY <1>1, <1>2, <1>4, <1>5 DEF Grown

LEMMA OnlyName ==
    ASSUME NEW b, NEW s \in Names
    PROVE  Only(b, s) \in Names
  BY DEF Only, Names

(* The pieces that rows are made of.                                       *)
LEMMA Literals ==
    /\ << >> \in Names
    /\ \A x \in Known : <<x>> \in Names
    /\ \A x, y \in Known : <<x, y>> \in Names
    /\ \A x, y, z \in Known : <<x, y, z>> \in Names
  BY DEF Names

LEMMA KnownNames ==
    Known = {"CLIENT_HELLO", "CLIENT_CERT", "CLIENT_KEY", "CLIENT_CERT_VERIFY", "CLIENT_CHANGE_CIPHER_SPEC",
             "CLIENT_NPN", "CLIENT_FINISHED", "END_OF_EARLY_DATA", "SERVER_HELLO", "HELLO_RETRY_MSG",
             "SERVER_NEW_SESSION_TICKET", "SERVER_CERT", "SERVER_CERT_STATUS", "SERVER_KEY", "SERVER_CERT_REQ",
             "SERVER_HELLO_DONE", "SERVER_CHANGE_CIPHER_SPEC", "SERVER_FINISHED", "ENCRYPTED_EXTENSIONS",
             "SERVER_CERT_VERIFY", "HELLO_REQUEST", "APPLICATION_DATA"}
  BY DEF Known, Messages, ClientMessages, ServerMessages

----------------------------------------------------------------------------
(* The rows of TLS1.3, as far as a message of the middle.                  *)
CCS_C(b) == Only(b, <<"CLIENT_CHANGE_CIPHER_SPEC">>)
CCS_S(b) == Only(b, <<"SERVER_CHANGE_CIPHER_SPEC">>)
Compat(t) == "MIDDLEBOX_COMPAT" \in t
Retry(t) == "HELLO_RETRY_REQUEST" \in t
Late(t) == Compat(t) /\ ~("EARLY_CLIENT_CCS" \in t)
Hello13(t) == <<"CLIENT_HELLO">> \o CCS_C("EARLY_CLIENT_CCS" \in t)
Again13(t) == Only(Retry(t), <<"HELLO_RETRY_MSG">> \o CCS_S(Compat(t)) \o CCS_C(Late(t)) \o <<"CLIENT_HELLO">>)
ToExtensions(t) ==
  Hello13(t) \o Again13(t) \o <<"SERVER_HELLO">> \o CCS_S(Compat(t) /\ ~Retry(t)) \o <<"ENCRYPTED_EXTENSIONS">>
ToRequest(t) == ToExtensions(t) \o Only("CLIENT_AUTH" \in t, <<"SERVER_CERT_REQ">>)
ToFinished(t) ==
  ToRequest(t) \o Only("FULL_HANDSHAKE" \in t, <<"SERVER_CERT", "SERVER_CERT_VERIFY">>)
  \o <<"SERVER_FINISHED">> \o CCS_C(Late(t) /\ ~Retry(t))
  \o Only("WITH_EARLY_DATA" \in t, <<"END_OF_EARLY_DATA">>)
ToCert(t) == ToFinished(t) \o Only("CLIENT_AUTH" \in t, <<"CLIENT_CERT">>)
ToVerify(t) ==
  ToCert(t) \o Only("CLIENT_AUTH" \in t /\ "NO_CLIENT_CERT" \notin t, <<"CLIENT_CERT_VERIFY">>)

LEMMA CcsNames == \A b : CCS_C(b) \in Names /\ CCS_S(b) \in Names
  <1>1. <<"CLIENT_CHANGE_CIPHER_SPEC">> \in Names /\ <<"SERVER_CHANGE_CIPHER_SPEC">> \in Names
    BY KnownNames, Literals
  <1> QED
    BY <1>1, OnlyName DEF CCS_C, CCS_S

LEMMA Row13 ==
    ASSUME NEW t, "NEGOTIATED" \in t
    PROVE  TLS13Row(t) = ToVerify(t) \o <<"CLIENT_FINISHED", "APPLICATION_DATA">>
  BY DEF TLS13Row, ToVerify, ToCert, ToFinished, ToRequest, ToExtensions, Again13, Hello13, Late, Retry, Compat, CCS_C, CCS_S

LEMMA Pieces13 ==
    ASSUME NEW t
    PROVE  /\ Hello13(t) \in Names /\ Again13(t) \in Names /\ ToExtensions(t) \in Names
           /\ ToRequest(t) \in Names /\ ToFinished(t) \in Names /\ ToCert(t) \in Names /\ ToVerify(t) \in Names
  <1>1. \A b : CCS_C(b) \in Names /\ CCS_S(b) \in Names
    BY CcsNames
  <1>2. /\ <<"CLIENT_HELLO">> \in Names /\ <<"HELLO_RETRY_MSG">> \in Names /\ <<"SERVER_HELLO">> \in Names
        /\ <<"ENCRYPTED_EXTENSIONS">> \in Names /\ <<"SERVER_CERT_REQ">> \in Names
        /\ <<"SERVER_CERT", "SERVER_CERT_VERIFY">> \in Names /\ <<"SERVER_FINISHED">> \in Names
        /\ <<"END_OF_EARLY_DATA">> \in Names /\ <<"CLIENT_CERT">> \in Names /\ <<"CLIENT_CERT_VERIFY">> \in Names
    BY KnownNames, Literals
  <1>3. Hello13(t) \in Names
    BY <1>1, <1>2, Join DEF Hello13
  <1>4. Again13(t) \in Names
    <2>1. <<"HELLO_RETRY_MSG">> \o CCS_S(Compat(t)) \o CCS_C(Late(t)) \o <<"CLIENT_HELLO">> \in Names
      BY <1>1, <1>2, Join
    <2> QED
      BY <2>1, OnlyName DEF Again13
  <1>5. ToExtensions(t) \in Names
    BY <1>1, <1>2, <1>3, <1>4, Join DEF ToExtensions
  <1>6. ToRequest(t) \in Names
    BY <1>2, <1>5, Join, OnlyName DEF ToRequest
  <1>7. ToFinished(t) \in Names
    BY <1>1, <1>2, <1>6, Join, OnlyName DEF ToFinished
  <1>8. ToCert(t) \in Names
    BY <1>2, <1>7, Join, OnlyName DEF ToCert
  <1>9. ToVerify(t) \in Names
    BY <1>2, <1>8, Join, OnlyName DEF ToVerify
  <1> QED
    BY <1>3, <1>4, <1>5, <1>6, <1>7, <1>8, <1>9

LEMMA LacksPieces ==
    ASSUME NEW X
    PROVE  /\ \A x : x \notin X => Lacks(<<x>>, X)
           /\ \A x, y : x \notin X /\ y \notin X => Lacks(<<x, y>>, X)
           /\ \A b, s : Lacks(s, X) => Lacks(Only(b, s), X)
  <1>1. ASSUME NEW x, x \notin X PROVE Lacks(<<x>>, X)
    BY <1>1 DEF Lacks
  <1>2. ASSUME NEW x, NEW y, x \notin X, y \notin X PROVE Lacks(<<x, y>>, X)
    BY <1>2 DEF Lacks
  <1>3. ASSUME NEW b, NEW s, Lacks(s, X) PROVE Lacks(Only(b, s), X)
    BY <1>3 DEF Lacks, Only
  <1> QED
    BY <1>1, <1>2, <1>3

(* A beginning without some messages, and what follows it without them.    *)
LEMMA Onward13 ==
    ASSUME NEW t, NEW s, NEW X
    PROVE  /\ /\ Grown(ToExtensions(t), s, X)
              /\ "SERVER_CERT_REQ" \notin X
              => Grown(ToRequest(t), s, X)
           /\ /\ Grown(ToRequest(t), s, X)
              /\ "SERVER_CERT" \notin X /\ "SERVER_CERT_VERIFY" \notin X /\ "SERVER_FINISHED" \notin X
              /\ "CLIENT_CHANGE_CIPHER_SPEC" \notin X /\ "END_OF_EARLY_DATA" \notin X
              => Grown(ToFinished(t), s, X)
           /\ Grown(ToFinished(t), s, X) /\ "CLIENT_CERT" \notin X => Grown(ToCert(t), s, X)
           /\ Grown(ToCert(t), s, X) /\ "CLIENT_CERT_VERIFY" \notin X => Grown(ToVerify(t), s, X)
           /\ /\ Grown(ToVerify(t), s, X) /\ "NEGOTIATED" \in t
              /\ "CLIENT_FINISHED" \notin X /\ "APPLICATION_DATA" \notin X
              => Grown(TLS13Row(t), s, X)
  <1>0. /\ <<"SERVER_CERT_REQ">> \in Names /\ <<"SERVER_CERT", "SERVER_CERT_VERIFY">> \in Names
        /\ <<"SERVER_FINISHED">> \in Names /\ <<"END_OF_EARLY_DATA">> \in Names /\ <<"CLIENT_CERT">> \in Names
        /\ <<"CLIENT_CERT_VERIFY">> \in Names /\ <<"CLIENT_CHANGE_CIPHER_SPEC">> \in Names
        /\ <<"CLIENT_FINISHED", "APPLICATION_DATA">> \in Names
    BY KnownNames, Literals
  <1>1. ASSUME Grown(ToExtensions(t), s, X), "SERVER_CERT_REQ" \notin X PROVE Grown(ToRequest(t), s, X)
    BY <1>0, <1>1, LacksPieces, OnlyName, Grow DEF ToRequest
  <1>2. ASSUME Grown(ToRequest(t), s, X),
               "SERVER_CERT" \notin X, "SERVER_CERT_VERIFY" \notin X, "SERVER_FINISHED" \notin X,
               "CLIENT_CHANGE_CIPHER_SPEC" \notin X, "END_OF_EARLY_DATA" \notin X
        PROVE  Grown(ToFinished(t), s, X)
    <2> DEFINE p1 == Only("FULL_HANDSHAKE" \in t, <<"SERVER_CERT", "SERVER_CERT_VERIFY">>)
               p2 == CCS_C(Late(t) /\ ~Retry(t))
               p3 == Only("WITH_EARLY_DATA" \in t, <<"END_OF_EARLY_DATA">>)
    <2>1. p1 \in Names /\ p2 \in Names /\ p3 \in Names
      BY <1>0, OnlyName DEF CCS_C
    <2>2. Lacks(p1, X) /\ Lacks(p2, X) /\ Lacks(p3, X) /\ Lacks(<<"SERVER_FINISHED">>, X)
      BY <1>2, LacksPieces DEF CCS_C
    <2> HIDE DEF p1, p2, p3
    <2>3. Grown(ToRequest(t) \o p1, s, X)
      BY <1>2, <2>1, <2>2, Grow
    <2>4. Grown(ToRequest(t) \o p1 \o <<"SERVER_FINISHED">>, s, X)
      BY <1>0, <2>2, <2>3, Grow
    <2>5. Grown(ToRequest(t) \o p1 \o <<"SERVER_FINISHED">> \o p2, s, X)
      BY <2>1, <2>2, <2>4, Grow
    <2>6. Grown(ToRequest(t) \o p1 \o <<"SERVER_FINISHED">> \o p2 \o p3, s, X)
      BY <2>1, <2>2, <2>5, Grow
    <2> QED
      BY <2>6 DEF p1, p2, p3, ToFinished
  <1>3. ASSUME Grown(ToFinished(t), s, X), "CLIENT_CERT" \notin X PROVE Grown(ToCert(t), s, X)
    BY <1>0, <1>3, LacksPieces, OnlyName, Grow DEF ToCert
  <1>4. ASSUME Grown(ToCert(t), s, X), "CLIENT_CERT_VERIFY" \notin X PROVE Grown(ToVerify(t), s, X)
    BY <1>0, <1>4, LacksPieces, OnlyName, Grow DEF ToVerify
  <1>5. ASSUME Grown(ToVerify(t), s, X), "NEGOTIATED" \in t,
               "CLIENT_FINISHED" \notin X, "APPLICATION_DATA" \notin X
        PROVE  Grown(TLS13Row(t), s, X)
    BY <1>0, <1>5, LacksPieces, Grow, Row13
  <1> QED
    BY <1>1, <1>2, <1>3, <1>4, <1>5

(* The beginning lacks what belongs to the rest.                           *)
LEMMA Beginning13 ==
    ASSUME NEW t, NEW X,
           "CLIENT_HELLO" \notin X, "CLIENT_CHANGE_CIPHER_SPEC" \notin X, "HELLO_RETRY_MSG" \notin X,
           "SERVER_CHANGE_CIPHER_SPEC" \notin X, "SERVER_HELLO" \notin X, "ENCRYPTED_EXTENSIONS" \notin X
    PROVE  Grown(ToExtensions(t), << >>, X)
  <1>1. /\ <<"CLIENT_HELLO">> \in Names /\ <<"HELLO_RETRY_MSG">> \in Names /\ <<"SERVER_HELLO">> \in Names
        /\ <<"ENCRYPTED_EXTENSIONS">> \in Names /\ << >> \in Names
    BY KnownNames, Literals
  <1>2. /\ \A b : Lacks(CCS_C(b), X) /\ Lacks(CCS_S(b), X)
        /\ Lacks(<<"CLIENT_HELLO">>, X) /\ Lacks(<<"HELLO_RETRY_MSG">>, X)
        /\ Lacks(<<"SERVER_HELLO">>, X) /\ Lacks(<<"ENCRYPTED_EXTENSIONS">>, X)
    BY LacksPieces DEF CCS_C, CCS_S
  <1>3. Hello13(t) \in Names /\ Lacks(Hello13(t), X)
    BY <1>1, <1>2, CcsNames, LacksJoin DEF Hello13
  <1>4. Again13(t) \in Names /\ Lacks(Again13(t), X)
    <2> DEFINE a == <<"HELLO_RETRY_MSG">> \o CCS_S(Compat(t)) \o CCS_C(Late(t)) \o <<"CLIENT_HELLO">>
    <2>1. a \in Names /\ Lacks(a, X)
      BY <1>1, <1>2, CcsNames, LacksJoin
    <2> HIDE DEF a
    <2>2. Again13(t) = Only(Retry(t), a)
      BY DEF a, Again13
    <2> QED
      BY <2>1, <2>2, OnlyName, LacksPieces
  <1>5. Lacks(ToExtensions(t), X)
    BY <1>1, <1>2, <1>3, <1>4, CcsNames, LacksJoin DEF ToExtensions
  <1> QED
    BY <1>1, <1>5, Pieces13 DEF Grown, Lacks, Names

(* Two rows have the same messages up to the n-th.                         *)
Agree(r, s, n) ==
  /\ r \in Names /\ s \in Names /\ n \in Nat /\ n <= Len(r) /\ n <= Len(s)
  /\ \A i \in 1..n : r[i] = s[i]

LEMMA GrownAgree ==
    ASSUME NEW r, NEW s, NEW b, NEW X, NEW Y, Grown(r, b, X), Grown(s, b, Y)
    PROVE  /\ \A k \in 0..Len(b) : Agree(r, s, k)
           /\ \A k \in 1..Len(r) : r[k] \in X => k <= Len(b) /\ Agree(r, s, k) /\ s[k] = r[k]
  <1>1. /\ r \in Names /\ s \in Names /\ Len(r) \in Nat /\ Len(s) \in Nat /\ Len(b) \in Nat
        /\ Len(b) <= Len(r) /\ Len(b) <= Len(s)
        /\ \A i \in 1..Len(b) : r[i] = s[i]
    BY DEF Grown, Names
  <1>2. ASSUME NEW k \in 0..Len(b) PROVE Agree(r, s, k)
    BY <1>1 DEF Agree
  <1>3. ASSUME NEW k \in 1..Len(r), r[k] \in X PROVE k <= Len(b) /\ Agree(r, s, k) /\ s[k] = r[k]
    <2>1. k \notin (Len(b) + 1)..Len(r)
      BY <1>3 DEF Grown
    <2>2. k <= Len(b) /\ k \in 0..Len(b)
      BY <1>1, <2>1
    <2> QED
      BY <1>1, <1>2, <2>2
  <1> QED
    BY <1>2, <1>3

LEMMA GrownIn ==
    ASSUME NEW r, NEW b, NEW X, Grown(r, b, X), NEW i \in 1..Len(r), r[i] \in X
    PROVE  i <= Len(b) /\ r[i] = b[i] /\ i \in 1..Len(b)
  <1>1. Len(b) \in Nat /\ Len(r) \in Nat
    BY DEF Grown, Names
  <1>2. i \notin (Len(b) + 1)..Len(r)
    BY DEF Grown
  <1>3. i \in 1..Len(b)
    BY <1>1, <1>2
  <1> QED
    BY <1>1, <1>3 DEF Grown

LEMMA AgreeStart ==
    ASSUME NEW r, NEW s, NEW n, Agree(r, s, n)
    PROVE  SubSeq(r, 1, n) = SubSeq(s, 1, n)
  <1>1. \A i \in 1..n : r[i] \in Known /\ s[i] \in Known
    BY DEF Agree, Names
  <1>2. /\ SubSeq(r, 1, n) \in Seq(Known) /\ SubSeq(s, 1, n) \in Seq(Known)
        /\ Len(SubSeq(r, 1, n)) = n /\ Len(SubSeq(s, 1, n)) = n
        /\ \A i \in 1..n : SubSeq(r, 1, n)[i] = r[i] /\ SubSeq(s, 1, n)[i] = s[i]
    BY <1>1, SubSeqProperties DEF Agree, Names
  <1> QED
    BY <1>2, SeqEqual DEF Agree

-----------------------------------------------------------------------------
(* What changes of the type keep of a row of TLS1.3.                       *)

LEMMA Beginnings13 ==
    ASSUME NEW t, "NEGOTIATED" \in t
    PROVE  /\ Grown(TLS13Row(t), ToExtensions(t), {"CLIENT_HELLO", "SERVER_HELLO", "HELLO_RETRY_MSG", "ENCRYPTED_EXTENSIONS"})
           /\ Grown(TLS13Row(t), ToRequest(t), {"SERVER_CERT_REQ"})
           /\ Grown(TLS13Row(t), ToExtensions(t), {})
           /\ Grown(TLS13Row(t), ToCert(t), {"CLIENT_CERT"})
           /\ "CLIENT_AUTH" \notin t => Grown(TLS13Row(t), << >>, {"CLIENT_CERT"})
           /\ Grown(TLS13Row(t), << >>, {"SERVER_CERT_STATUS"})
  <1>1. ToExtensions(t) \in Names /\ ToRequest(t) \in Names /\ ToCert(t) \in Names
    BY Pieces13
  <1>2. Grown(TLS13Row(t), ToExtensions(t), {"CLIENT_HELLO", "SERVER_HELLO", "HELLO_RETRY_MSG", "ENCRYPTED_EXTENSIONS"})
    BY <1>1, GrownSelf, Onward13
  <1>3. Grown(TLS13Row(t), ToRequest(t), {"SERVER_CERT_REQ"})
    BY <1>1, GrownSelf, Onward13
  <1>4. Grown(TLS13Row(t), ToCert(t), {"CLIENT_CERT"})
    BY <1>1, GrownSelf, Onward13
  <1>5. Grown(TLS13Row(t), ToExtensions(t), {})
    BY <1>1, GrownSelf, Onward13
  <1>6. Grown(TLS13Row(t), << >>, {"SERVER_CERT_STATUS"})
    BY Beginning13, Onward13
  <1>7. ASSUME "CLIENT_AUTH" \notin t PROVE Grown(TLS13Row(t), << >>, {"CLIENT_CERT"})
    <2>1. Grown(ToFinished(t), << >>, {"CLIENT_CERT"})
      BY Beginning13, Onward13
    <2>2. ToCert(t) = ToFinished(t) \o << >>
      BY <1>7 DEF ToCert, Only
    <2>3. Grown(ToCert(t), << >>, {"CLIENT_CERT"})
      BY <2>1, <2>2, Literals, Grow DEF Lacks
    <2> QED
      BY <2>3, Onward13
  <1> QED
    BY <1>2, <1>3, <1>4, <1>5, <1>6, <1>7

(* The flags that are kept fix the row up to the EncryptedExtensions.      *)
LEMMA HelloKeeps ==
    ASSUME NEW t, NEW u, "NEGOTIATED" \in t, "NEGOTIATED" \in u, t \cap KeptFlags = u \cap KeptFlags,
           NEW k \in 1..Len(TLS13Row(t)),
           TLS13Row(t)[k] \in {"CLIENT_HELLO", "SERVER_HELLO", "HELLO_RETRY_MSG", "ENCRYPTED_EXTENSIONS"}
    PROVE  Agree(TLS13Row(t), TLS13Row(u), k) /\ TLS13Row(u)[k] = TLS13Row(t)[k]
  <1>1. \A f \in KeptFlags : f \in t <=> f \in u
    OBVIOUS
  <1>2. ToExtensions(t) = ToExtensions(u)
    BY <1>1 DEF ToExtensions, Hello13, Again13, Retry, Compat, Late, KeptFlags
  <1> QED
    BY <1>2, Beginnings13, GrownAgree

(* A request the client did not count on.                                  *)
LEMMA RequestKeeps13 ==
    ASSUME NEW t, NEW u, "NEGOTIATED" \in t, u = t \cup {"CLIENT_AUTH"},
           NEW k \in 1..Len(TLS13Row(u)), TLS13Row(u)[k] = "SERVER_CERT_REQ"
    PROVE  Agree(TLS13Row(t), TLS13Row(u), k - 1)
  <1>1. ToExtensions(t) = ToExtensions(u)
    BY DEF ToExtensions, Hello13, Again13, Retry, Compat, Late
  <1>2. Len(ToRequest(u)) = Len(ToExtensions(t)) + 1 /\ Len(ToExtensions(t)) \in Nat
    <2>1. ToRequest(u) = ToExtensions(t) \o <<"SERVER_CERT_REQ">>
      BY <1>1 DEF ToRequest, Only
    <2>2. ToExtensions(t) \in Names
      BY Pieces13
    <2> QED
      BY <2>1, <2>2 DEF Names
  <1>3. k <= Len(ToRequest(u))
    BY Beginnings13, GrownAgree
  <1>4. k - 1 \in 0..Len(ToExtensions(t))
    BY <1>2, <1>3
  <1> QED
    BY <1>1, <1>4, Beginnings13, GrownAgree

(* A client without a certificate.                                         *)
LEMMA CertKeeps13 ==
    ASSUME NEW t, NEW u, "NEGOTIATED" \in t, u = t \cup {"NO_CLIENT_CERT"},
           NEW k \in 1..Len(TLS13Row(t)), TLS13Row(t)[k] = "CLIENT_CERT"
    PROVE  Agree(TLS13Row(t), TLS13Row(u), k) /\ TLS13Row(u)[k] = TLS13Row(t)[k] /\ "CLIENT_AUTH" \in t
  <1>1. ToCert(t) = ToCert(u)
    BY DEF ToCert, ToFinished, ToRequest, ToExtensions, Hello13, Again13, Retry, Compat, Late
  <1>2. Agree(TLS13Row(t), TLS13Row(u), k) /\ TLS13Row(u)[k] = TLS13Row(t)[k]
    BY <1>1, Beginnings13, GrownAgree
  <1>3. "CLIENT_AUTH" \in t
    BY Beginnings13 DEF Grown
  <1> QED
    BY <1>2, <1>3

(* The answer to the first ClientHello.                                    *)
Answer(t) == IF Retry(t) THEN "HELLO_RETRY_MSG" ELSE "SERVER_HELLO"
LEMMA Opening13 ==
    ASSUME NEW t, "NEGOTIATED" \in t
    PROVE  /\ Grown(TLS13Row(t), Hello13(t) \o <<Answer(t)>>, {})
           /\ ~Retry(t) => Grown(TLS13Row(t), Hello13(t) \o <<"SERVER_HELLO">>, {"SERVER_HELLO", "HELLO_RETRY_MSG"})
  <1> DEFINE h == Hello13(t)
             q == CCS_S(Compat(t) /\ ~Retry(t))
             e == <<"ENCRYPTED_EXTENSIONS">>
             s == <<"SERVER_HELLO">>
  <1>1. h \in Names /\ q \in Names /\ e \in Names /\ s \in Names
    <2>1. e \in Names /\ s \in Names
      BY KnownNames, Literals
    <2> QED
      BY <2>1, Pieces13, CcsNames
  <1>2. CASE ~Retry(t)
    <2> DEFINE X == {"SERVER_HELLO", "HELLO_RETRY_MSG"}
    <2>1. ToExtensions(t) = (((h \o << >>) \o s) \o q) \o e
      BY <1>2 DEF ToExtensions, Again13, Only
    <2>2. h \o << >> = h
      BY <1>1 DEF Names
    <2>3. h \o s \in Names
      BY <1>1, Join
    <2>4. Lacks(q, X) /\ Lacks(e, X) /\ Lacks(q, {}) /\ Lacks(e, {})
      BY DEF Lacks, CCS_S, Only
    <2> HIDE DEF h, q, e, s
    <2>5. Grown(ToExtensions(t), h \o s, X) /\ Grown(ToExtensions(t), h \o s, {})
      BY <1>1, <2>1, <2>2, <2>3, <2>4, GrownSelf, Grow
    <2>6. Grown(TLS13Row(t), h \o s, X) /\ Grown(TLS13Row(t), h \o s, {})
      BY <2>5, Onward13
    <2> QED
      BY <1>2, <2>6 DEF h, s, Answer
  <1>3. CASE Retry(t)
    <2> DEFINE a == <<"HELLO_RETRY_MSG">>
               x == CCS_S(Compat(t))
               y == CCS_C(Late(t))
               z == <<"CLIENT_HELLO">>
               g == ((a \o x) \o y) \o z
    <2>1. a \in Names /\ x \in Names /\ y \in Names /\ z \in Names
      <3>1. a \in Names /\ z \in Names
        BY KnownNames, Literals
      <3> QED
        BY <3>1, CcsNames
    <2>2. ToExtensions(t) = (((h \o g) \o s) \o q) \o e
      <3>1. Again13(t) = g
        BY <1>3 DEF Again13, Only
      <3> HIDE DEF g
      <3> QED
        BY <3>1 DEF ToExtensions
    <2>3. \A w : Lacks(w, {})
      BY DEF Lacks
    <2> HIDE DEF h, q, e, s, a, x, y, z
    <2>4. Grown(g, a, {})
      BY <2>1, <2>3, GrownSelf, Grow
    <2> HIDE DEF g
    <2>5. Grown(h \o g, h \o a, {})
      BY <1>1, <2>4, GrownAfter
    <2>6. Grown(ToExtensions(t), h \o a, {})
      BY <1>1, <2>2, <2>3, <2>5, Grow
    <2>7. Grown(TLS13Row(t), h \o a, {})
      BY <2>6, Onward13
    <2> QED
      BY <1>3, <2>7 DEF h, a, Answer
  <1> QED
    BY <1>2, <1>3

-----------------------------------------------------------------------------
(* The same of a row of TLS1.2.                                            *)

Status12(t) == Only("OCSP_STATUS" \in t, <<"SERVER_CERT_STATUS">>)
ToStatus12(t) == <<"SERVER_CERT">> \o Status12(t)
ToKey12(t) == ToStatus12(t) \o Only("TLS12_PERFECT_FORWARD_SECRECY" \in t, <<"SERVER_KEY">>)
ToRequest12(t) == ToKey12(t) \o Only("CLIENT_AUTH" \in t, <<"SERVER_CERT_REQ">>)
ToDone12(t) == ToRequest12(t) \o <<"SERVER_HELLO_DONE">>
ToCert12(t) == ToDone12(t) \o Only("CLIENT_AUTH" \in t, <<"CLIENT_CERT">>)
Verify12(t) == Only("CLIENT_AUTH" \in t /\ "NO_CLIENT_CERT" \notin t, <<"CLIENT_CERT_VERIFY">>)
ClientEnd12(t) == <<"CLIENT_CHANGE_CIPHER_SPEC">> \o Only("WITH_NPN" \in t, <<"CLIENT_NPN">>) \o <<"CLIENT_FINISHED">>
ServerEnd12(t) ==
  Only("WITH_SESSION_TICKET" \in t, <<"SERVER_NEW_SESSION_TICKET">>)
  \o <<"SERVER_CHANGE_CIPHER_SPEC", "SERVER_FINISHED">>
Full12(t) ==
  ToCert12(t) \o <<"CLIENT_KEY">> \o Verify12(t) \o ClientEnd12(t) \o ServerEnd12(t) \o <<"APPLICATION_DATA">>
Short12(t) == ServerEnd12(t) \o ClientEnd12(t) \o <<"APPLICATION_DATA">>
Hellos12 == <<"CLIENT_HELLO", "SERVER_HELLO">>

LEMMA Row12 ==
    ASSUME NEW t, "NEGOTIATED" \in t
    PROVE  TLS12Row(t) = Hellos12 \o (IF "FULL_HANDSHAKE" \in t THEN Full12(t) ELSE Short12(t))
  BY DEF TLS12Row, Full12, Short12, ToCert12, ToDone12, ToRequest12, ToKey12, ToStatus12, Status12, Verify12, ClientEnd12,
         ServerEnd12, Hellos12

LEMMA Pieces12 ==
    ASSUME NEW t
    PROVE  /\ Status12(t) \in Names /\ ToStatus12(t) \in Names /\ ToKey12(t) \in Names /\ ToRequest12(t) \in Names
           /\ ToDone12(t) \in Names /\ ToCert12(t) \in Names
           /\ Verify12(t) \in Names /\ ClientEnd12(t) \in Names /\ ServerEnd12(t) \in Names /\ Hellos12 \in Names
           /\ <<"SERVER_CERT">> \in Names /\ <<"SERVER_HELLO_DONE">> \in Names /\ <<"CLIENT_KEY">> \in Names
           /\ <<"APPLICATION_DATA">> \in Names
           /\ Only("TLS12_PERFECT_FORWARD_SECRECY" \in t, <<"SERVER_KEY">>) \in Names
           /\ Only("CLIENT_AUTH" \in t, <<"SERVER_CERT_REQ">>) \in Names
           /\ Only("CLIENT_AUTH" \in t, <<"CLIENT_CERT">>) \in Names
  <1>1. /\ <<"SERVER_CERT">> \in Names /\ <<"SERVER_HELLO_DONE">> \in Names /\ <<"CLIENT_KEY">> \in Names
        /\ <<"APPLICATION_DATA">> \in Names /\ <<"SERVER_CERT_STATUS">> \in Names /\ <<"SERVER_KEY">> \in Names
        /\ <<"SERVER_CERT_REQ">> \in Names /\ <<"CLIENT_CERT">> \in Names /\ <<"CLIENT_CERT_VERIFY">> \in Names
        /\ <<"CLIENT_CHANGE_CIPHER_SPEC">> \in Names /\ <<"CLIENT_NPN">> \in Names /\ <<"CLIENT_FINISHED">> \in Names
        /\ <<"SERVER_NEW_SESSION_TICKET">> \in Names /\ <<"SERVER_CHANGE_CIPHER_SPEC", "SERVER_FINISHED">> \in Names
        /\ Hellos12 \in Names
    BY KnownNames, Literals DEF Hellos12
  <1>2. /\ Only("TLS12_PERFECT_FORWARD_SECRECY" \in t, <<"SERVER_KEY">>) \in Names
        /\ Only("CLIENT_AUTH" \in t, <<"SERVER_CERT_REQ">>) \in Names
        /\ Only("CLIENT_AUTH" \in t, <<"CLIENT_CERT">>) \in Names
        /\ Only("WITH_NPN" \in t, <<"CLIENT_NPN">>) \in Names
        /\ Only("WITH_SESSION_TICKET" \in t, <<"SERVER_NEW_SESSION_TICKET">>) \in Names
        /\ Status12(t) \in Names /\ Verify12(t) \in Names
    BY <1>1, OnlyName DEF Status12, Verify12
  <1>3. ToStatus12(t) \in Names
    BY <1>1, <1>2, Join DEF ToStatus12
  <1>4. ToKey12(t) \in Names
    BY <1>2, <1>3, Join DEF ToKey12
  <1>5. ToRequest12(t) \in Names
    BY <1>2, <1>4, Join DEF ToRequest12
  <1>6. ToDone12(t) \in Names
    BY <1>1, <1>5, Join DEF ToDone12
  <1>7. ToCert12(t) \in Names
    BY <1>2, <1>6, Join DEF ToCert12
  <1>8. ClientEnd12(t) \in Names /\ ServerEnd12(t) \in Names
    BY <1>1, <1>2, Join DEF ClientEnd12, ServerEnd12
  <1> QED
    BY <1>1, <1>2, <1>3, <1>4, <1>5, <1>6, <1>7, <1>8

(* Messages that the rest of a row does not have.                          *)
Absent12(X) ==
  X \cap {"CLIENT_KEY", "CLIENT_CERT_VERIFY", "CLIENT_CHANGE_CIPHER_SPEC", "CLIENT_NPN", "CLIENT_FINISHED",
          "SERVER_NEW_SESSION_TICKET", "SERVER_CHANGE_CIPHER_SPEC", "SERVER_FINISHED", "APPLICATION_DATA"} = {}

LEMMA Ends12 ==
    ASSUME NEW t, NEW X, Absent12(X)
    PROVE  /\ Lacks(<<"CLIENT_KEY">>, X) /\ Lacks(<<"APPLICATION_DATA">>, X) /\ Lacks(Verify12(t), X)
           /\ Lacks(ClientEnd12(t), X) /\ Lacks(ServerEnd12(t), X)
  <1>1. /\ Lacks(<<"CLIENT_KEY">>, X) /\ Lacks(<<"APPLICATION_DATA">>, X) /\ Lacks(Verify12(t), X)
        /\ Lacks(<<"CLIENT_CHANGE_CIPHER_SPEC">>, X) /\ Lacks(<<"CLIENT_FINISHED">>, X)
        /\ Lacks(Only("WITH_NPN" \in t, <<"CLIENT_NPN">>), X)
        /\ Lacks(Only("WITH_SESSION_TICKET" \in t, <<"SERVER_NEW_SESSION_TICKET">>), X)
        /\ Lacks(<<"SERVER_CHANGE_CIPHER_SPEC", "SERVER_FINISHED">>, X)
    BY LacksPieces DEF Absent12, Verify12
  <1>2. /\ <<"CLIENT_CHANGE_CIPHER_SPEC">> \in Names /\ <<"CLIENT_FINISHED">> \in Names
        /\ <<"SERVER_CHANGE_CIPHER_SPEC", "SERVER_FINISHED">> \in Names
        /\ <<"CLIENT_NPN">> \in Names /\ <<"SERVER_NEW_SESSION_TICKET">> \in Names
    BY KnownNames, Literals
  <1>3. /\ Only("WITH_NPN" \in t, <<"CLIENT_NPN">>) \in Names
        /\ Only("WITH_SESSION_TICKET" \in t, <<"SERVER_NEW_SESSION_TICKET">>) \in Names
    BY <1>2, OnlyName
  <1>4. Lacks(ClientEnd12(t), X) /\ Lacks(ServerEnd12(t), X)
    BY <1>1, <1>2, <1>3, LacksJoin DEF ClientEnd12, ServerEnd12
  <1> QED
    BY <1>1, <1>4

LEMMA Onward12 ==
    ASSUME NEW t, NEW s, NEW X, Absent12(X)
    PROVE  /\ Grown(ToStatus12(t), s, X) /\ "SERVER_KEY" \notin X => Grown(ToKey12(t), s, X)
           /\ Grown(ToKey12(t), s, X) /\ "SERVER_CERT_REQ" \notin X => Grown(ToRequest12(t), s, X)
           /\ Grown(ToRequest12(t), s, X) /\ "SERVER_HELLO_DONE" \notin X => Grown(ToDone12(t), s, X)
           /\ Grown(ToDone12(t), s, X) /\ "CLIENT_CERT" \notin X => Grown(ToCert12(t), s, X)
           /\ Grown(ToCert12(t), s, X) => Grown(Full12(t), s, X)
           /\ s = << >> => Grown(Short12(t), s, X)
  <1>1. ASSUME Grown(ToStatus12(t), s, X), "SERVER_KEY" \notin X PROVE Grown(ToKey12(t), s, X)
    BY <1>1, Pieces12, LacksPieces, Grow DEF ToKey12
  <1>2. ASSUME Grown(ToKey12(t), s, X), "SERVER_CERT_REQ" \notin X PROVE Grown(ToRequest12(t), s, X)
    BY <1>2, Pieces12, LacksPieces, Grow DEF ToRequest12
  <1>3. ASSUME Grown(ToRequest12(t), s, X), "SERVER_HELLO_DONE" \notin X PROVE Grown(ToDone12(t), s, X)
    BY <1>3, Pieces12, LacksPieces, Grow DEF ToDone12
  <1>4. ASSUME Grown(ToDone12(t), s, X), "CLIENT_CERT" \notin X PROVE Grown(ToCert12(t), s, X)
    BY <1>4, Pieces12, LacksPieces, Grow DEF ToCert12
  <1>5. ASSUME Grown(ToCert12(t), s, X) PROVE Grown(Full12(t), s, X)
    <2>1. Grown(ToCert12(t) \o <<"CLIENT_KEY">>, s, X)
      BY <1>5, Pieces12, Ends12, Grow
    <2>2. Grown(ToCert12(t) \o <<"CLIENT_KEY">> \o Verify12(t), s, X)
      BY <2>1, Pieces12, Ends12, Grow
    <2>3. Grown(ToCert12(t) \o <<"CLIENT_KEY">> \o Verify12(t) \o ClientEnd12(t), s, X)
      BY <2>2, Pieces12, Ends12, Grow
    <2>4. Grown(ToCert12(t) \o <<"CLIENT_KEY">> \o Verify12(t) \o ClientEnd12(t) \o ServerEnd12(t), s, X)
      BY <2>3, Pieces12, Ends12, Grow
    <2> QED
      BY <2>4, Pieces12, Ends12, Grow DEF Full12
  <1>6. Grown(Short12(t), << >>, X)
    <2>1. Grown(ServerEnd12(t), << >>, X)
      <3>1. ServerEnd12(t) \in Names /\ Lacks(ServerEnd12(t), X)
        BY Pieces12, Ends12
      <3> QED
        BY <3>1, Literals DEF Grown, Lacks, Names
    <2>2. Grown(ServerEnd12(t) \o ClientEnd12(t), << >>, X)
      BY <2>1, Pieces12, Ends12, Grow
    <2> QED
      BY <2>2, Pieces12, Ends12, Grow DEF Short12
  <1> QED
    BY <1>1, <1>2, <1>3, <1>4, <1>5, <1>6

CertFirst12 == Hellos12 \o <<"SERVER_CERT">>
LEMMA CertThird == CertFirst12 \in Names /\ Len(CertFirst12) = 3
  <1>1. Hellos12 \in Names /\ <<"SERVER_CERT">> \in Names
    BY Pieces12
  <1>2. Len(CertFirst12) = 3
    BY DEF CertFirst12, Hellos12
  <1> QED
    BY <1>1, <1>2, Join DEF CertFirst12

LEMMA Beginnings12 ==
    ASSUME NEW t, "NEGOTIATED" \in t, "FULL_HANDSHAKE" \in t
    PROVE  /\ Grown(TLS12Row(t), Hellos12, {"CLIENT_HELLO", "SERVER_HELLO", "HELLO_RETRY_MSG", "ENCRYPTED_EXTENSIONS"})
           /\ Grown(TLS12Row(t), CertFirst12, {})
           /\ Grown(TLS12Row(t), Hellos12 \o ToStatus12(t), {"SERVER_CERT_STATUS"})
           /\ Grown(TLS12Row(t), Hellos12 \o ToKey12(t), {})
           /\ Grown(TLS12Row(t), Hellos12 \o ToRequest12(t), {"SERVER_CERT_REQ"})
           /\ Grown(TLS12Row(t), Hellos12 \o ToCert12(t), {"CLIENT_CERT"})
           /\ "CLIENT_AUTH" \notin t => Grown(TLS12Row(t), Hellos12, {"CLIENT_CERT"})
  <1> DEFINE E == {"CLIENT_HELLO", "SERVER_HELLO", "HELLO_RETRY_MSG", "ENCRYPTED_EXTENSIONS"}
  <1>1. TLS12Row(t) = Hellos12 \o Full12(t)
    BY Row12
  <1>2. /\ Absent12(E) /\ Absent12({}) /\ Absent12({"SERVER_CERT_STATUS"}) /\ Absent12({"SERVER_CERT_REQ"})
        /\ Absent12({"CLIENT_CERT"})
    BY DEF Absent12
  <1>3. ASSUME NEW X, NEW s, Grown(Full12(t), s, X) PROVE Grown(TLS12Row(t), Hellos12 \o s, X)
    BY <1>1, <1>3, Pieces12, GrownAfter
  <1>4. Hellos12 \o << >> = Hellos12
    BY Pieces12 DEF Names
  <1>5. ASSUME NEW X, "SERVER_CERT" \notin X, "SERVER_CERT_STATUS" \notin X PROVE Grown(ToStatus12(t), << >>, X)
    <2>1. Lacks(<<"SERVER_CERT">>, X) /\ Lacks(Status12(t), X)
      BY <1>5, LacksPieces DEF Status12
    <2>2. ToStatus12(t) \in Names /\ Lacks(ToStatus12(t), X)
      BY <2>1, Pieces12, LacksJoin DEF ToStatus12
    <2> QED
      BY <2>2, Literals DEF Grown, Lacks, Names
  <1>6. Grown(TLS12Row(t), Hellos12, E)
    <2>1. Grown(ToStatus12(t), << >>, E)
      BY <1>5
    <2>2. Grown(Full12(t), << >>, E)
      BY <1>2, <2>1, Onward12
    <2> QED
      BY <1>3, <1>4, <2>2
  <1>7. Grown(TLS12Row(t), CertFirst12, {})
    <2>1. Grown(ToStatus12(t), <<"SERVER_CERT">>, {})
      BY Pieces12, GrownSelf, Grow DEF ToStatus12, Lacks
    <2>2. Grown(Full12(t), <<"SERVER_CERT">>, {})
      BY <1>2, <2>1, Onward12
    <2>3. Grown(TLS12Row(t), Hellos12 \o <<"SERVER_CERT">>, {})
      BY <1>3, <2>2
    <2> QED
      BY <2>3 DEF CertFirst12
  <1>8. Grown(TLS12Row(t), Hellos12 \o ToStatus12(t), {"SERVER_CERT_STATUS"})
    <2>1. Grown(ToStatus12(t), ToStatus12(t), {"SERVER_CERT_STATUS"})
      BY Pieces12, GrownSelf
    <2>2. Grown(Full12(t), ToStatus12(t), {"SERVER_CERT_STATUS"})
      BY <1>2, <2>1, Onward12
    <2> QED
      BY <1>3, <2>2
  <1>9. Grown(TLS12Row(t), Hellos12 \o ToKey12(t), {})
    <2>1. Grown(ToKey12(t), ToKey12(t), {})
      BY Pieces12, GrownSelf
    <2>2. Grown(Full12(t), ToKey12(t), {})
      BY <1>2, <2>1, Onward12
    <2> QED
      BY <1>3, <2>2
  <1>10. Grown(TLS12Row(t), Hellos12 \o ToRequest12(t), {"SERVER_CERT_REQ"})
    <2>1. Grown(ToRequest12(t), ToRequest12(t), {"SERVER_CERT_REQ"})
      BY Pieces12, GrownSelf
    <2>2. Grown(Full12(t), ToRequest12(t), {"SERVER_CERT_REQ"})
      BY <1>2, <2>1, Onward12
    <2> QED
      BY <1>3, <2>2
  <1>11. Grown(TLS12Row(t), Hellos12 \o ToCert12(t), {"CLIENT_CERT"})
    <2>1. Grown(ToCert12(t), ToCert12(t), {"CLIENT_CERT"})
      BY Pieces12, GrownSelf
    <2>2. Grown(Full12(t), ToCert12(t), {"CLIENT_CERT"})
      BY <1>2, <2>1, Onward12
    <2> QED
      BY <1>3, <2>2
  <1>12. ASSUME "CLIENT_AUTH" \notin t PROVE Grown(TLS12Row(t), Hellos12, {"CLIENT_CERT"})
    <2>1. Grown(ToStatus12(t), << >>, {"CLIENT_CERT"})
      BY <1>5
    <2>2. Grown(ToDone12(t), << >>, {"CLIENT_CERT"})
      BY <1>2, <2>1, Onward12
    <2>3. ToCert12(t) = ToDone12(t) \o << >>
      BY <1>12 DEF ToCert12, Only
    <2>4. Grown(ToCert12(t), << >>, {"CLIENT_CERT"})
      BY <2>2, <2>3, Literals, Grow DEF Lacks
    <2>5. Grown(Full12(t), << >>, {"CLIENT_CERT"})
      BY <1>2, <2>4, Onward12
    <2> QED
      BY <1>3, <1>4, <2>5
  <1> QED
    BY <1>6, <1>7, <1>8, <1>9, <1>10, <1>11, <1>12

(* A resumed session has none of the messages that change a type.          *)
LEMMA BeginningsShort12 ==
    ASSUME NEW t, NEW X, "NEGOTIATED" \in t, "FULL_HANDSHAKE" \notin t, Absent12(X)
    PROVE  Grown(TLS12Row(t), Hellos12, X)
  <1>1. TLS12Row(t) = Hellos12 \o Short12(t)
    BY Row12
  <1>2. Hellos12 \o << >> = Hellos12
    BY Pieces12 DEF Names
  <1>3. Grown(Short12(t), << >>, X)
    BY Onward12
  <1> QED
    BY <1>1, <1>2, <1>3, Pieces12, GrownAfter

LEMMA HellosFirst12 ==
    ASSUME NEW t, "NEGOTIATED" \in t
    PROVE  Grown(TLS12Row(t), Hellos12, {"CLIENT_HELLO", "SERVER_HELLO", "HELLO_RETRY_MSG", "ENCRYPTED_EXTENSIONS"})
  <1>1. Absent12({"CLIENT_HELLO", "SERVER_HELLO", "HELLO_RETRY_MSG", "ENCRYPTED_EXTENSIONS"})
    BY DEF Absent12
  <1> QED
    BY <1>1, Beginnings12, BeginningsShort12

LEMMA WholeShort12 ==
    ASSUME NEW t, "NEGOTIATED" \in t, "FULL_HANDSHAKE" \notin t
    PROVE  Whole(TLS12Row(t))
  <1>1. TLS12Row(t) = Hellos12 \o Short12(t)
    BY Row12
  <1>2. {"SERVER_NEW_SESSION_TICKET", "CLIENT_NPN", "CLIENT_CHANGE_CIPHER_SPEC", "CLIENT_FINISHED",
         "SERVER_CHANGE_CIPHER_SPEC", "SERVER_FINISHED"} \subseteq Messages
    BY DEF Messages, ClientMessages, ServerMessages
  <1>3. /\ GoesOn(<<"SERVER_NEW_SESSION_TICKET">>) /\ GoesOn(<<"CLIENT_NPN">>) /\ GoesOn(<<"CLIENT_CHANGE_CIPHER_SPEC">>)
        /\ GoesOn(<<"CLIENT_FINISHED">>) /\ GoesOn(<<"SERVER_CHANGE_CIPHER_SPEC", "SERVER_FINISHED">>)
    BY <1>2, Pieces
  <1>4. /\ GoesOn(Only("WITH_SESSION_TICKET" \in t, <<"SERVER_NEW_SESSION_TICKET">>))
        /\ GoesOn(Only("WITH_NPN" \in t, <<"CLIENT_NPN">>))
    BY <1>3, Pieces
  <1>5. GoesOn(ServerEnd12(t)) /\ GoesOn(ClientEnd12(t))
    BY <1>3, <1>4, GoesFurther DEF ServerEnd12, ClientEnd12
  <1>6. GoesOn(ServerEnd12(t) \o ClientEnd12(t))
    BY <1>5, GoesFurther
  <1>7. Ends(Short12(t))
    BY <1>6, EndsOn, Pieces DEF Short12
  <1>8. Starts(Hellos12)
    BY Pieces DEF Hellos12
  <1> QED
    BY <1>1, <1>7, <1>8, StartsEnds

(* A row the tables define, and what it is.                                *)
LEMMA WholeRow ==
    ASSUME NEW k, NEW t \in SUBSET Flags, "NEGOTIATED" \in t, Defined(k, t)
    PROVE  /\ Row(k, t) = IF k = "tls13" THEN TLS13Row(t) ELSE TLS12Row(t)
           /\ Whole(Row(k, t)) /\ Row(k, t) \in Names /\ Len(Row(k, t)) \in Nat
  <1>1. Row(k, t) = IF k = "tls13" THEN TLS13Row(t) ELSE TLS12Row(t)
    BY DEF Row, Defined, handshakes, tls13_handshakes
  <1>2. Whole(Row(k, t))
    BY <1>1, WholeRow13, WholeRow12, WholeShort12
  <1>3. Row(k, t) \in Names /\ Len(Row(k, t)) \in Nat
    BY <1>2 DEF Whole, Ends, Names
  <1> QED
    BY <1>1, <1>2, <1>3

(* An entry the tables leave out has no message.                           *)
LEMMA NoRow ==
    ASSUME NEW k, NEW t \in SUBSET Flags, NEW n \in Nat, MessageAt(k, t, n) # "CLIENT_HELLO"
    PROVE  Defined(k, t) /\ n < Len(Row(k, t)) /\ MessageAt(k, t, n) = Row(k, t)[n + 1]
  BY DEF MessageAt, Row, Defined, handshakes, tls13_handshakes

LEMMA Less == \A n, l \in Nat : n <= l /\ n # l => n < l
  OBVIOUS

(* Two rows that agree so far go on both.                                  *)
LEMMA AgreeInside ==
    ASSUME NEW r, NEW s, NEW n, Agree(r, s, n), Whole(r), Whole(s), n < Len(r)
    PROVE  n < Len(s)
  <1>1. n \in Nat /\ Len(r) \in Nat /\ Len(s) \in Nat /\ n <= Len(s) /\ Len(s) >= 2
    BY DEF Agree, Names, Whole
  <1>2. ASSUME n = Len(s) PROVE FALSE
    <2>1. n \in 1..n /\ n \in 1..Len(s) /\ n \in 1..Len(r) /\ n # Len(r)
      BY <1>1, <1>2
    <2>2. s[n] = "APPLICATION_DATA"
      BY <1>2, <2>1 DEF Whole, Ends
    <2>3. r[n] # "APPLICATION_DATA"
      BY <2>1 DEF Whole, Ends
    <2> QED
      BY <2>1, <2>2, <2>3 DEF Agree
  <1>3. n # Len(s)
    BY <1>2
  <1> QED
    BY <1>1, <1>3, Less

-----------------------------------------------------------------------------
(* What changes of the type keep of a row of either table.                 *)

(* A client without a certificate.                                         *)
LEMMA CertKeeps ==
    ASSUME NEW k, NEW t \in SUBSET Flags, NEW u, u = t \cup {"NO_CLIENT_CERT"}, "NEGOTIATED" \in t, Defined(k, t),
           NEW i \in 1..Len(Row(k, t)), Row(k, t)[i] = "CLIENT_CERT"
    PROVE  /\ u \in SUBSET Flags /\ Defined(k, u)
           /\ Agree(Row(k, t), Row(k, u), i) /\ Row(k, u)[i] = "CLIENT_CERT"
  <1>1. u \in SUBSET Flags /\ "NEGOTIATED" \in u
    BY DEF Flags
  <1>2. CASE k = "tls13"
    <2>1. Row(k, t) = TLS13Row(t)
      BY <1>2, WholeRow
    <2>2. Agree(TLS13Row(t), TLS13Row(u), i) /\ TLS13Row(u)[i] = "CLIENT_CERT" /\ "CLIENT_AUTH" \in t
      BY <2>1, CertKeeps13
    <2>3. Defined(k, u)
      BY <1>2, <2>2 DEF Defined, TLS13Defined
    <2> QED
      BY <1>1, <1>2, <2>1, <2>2, <2>3, WholeRow
  <1>3. CASE k # "tls13"
    <2>1. Row(k, t) = TLS12Row(t)
      BY <1>3, WholeRow
    <2>2. /\ Hellos12 \in Names /\ Len(Hellos12) = 2 /\ Hellos12[1] = "CLIENT_HELLO" /\ Hellos12[2] = "SERVER_HELLO"
      BY Pieces12 DEF Hellos12
    <2>3. ASSUME Grown(TLS12Row(t), Hellos12, {"CLIENT_CERT"}) PROVE FALSE
      <3>1. i <= Len(Hellos12) /\ TLS12Row(t)[i] = Hellos12[i]
        BY <2>1, <2>2, <2>3, GrownSelf, GrownAgree
      <3> QED
        BY <2>1, <2>2, <3>1
    <2>4. "FULL_HANDSHAKE" \in t
      BY <2>3, BeginningsShort12 DEF Absent12
    <2>5. "CLIENT_AUTH" \in t
      BY <2>3, <2>4, Beginnings12
    <2>6. Defined(k, u)
      BY <1>3, <2>4, <2>5 DEF Defined, TLS12Defined
    <2>7. ToCert12(t) = ToCert12(u)
      BY DEF ToCert12, ToDone12, ToRequest12, ToKey12, ToStatus12, Status12
    <2>8. Agree(TLS12Row(t), TLS12Row(u), i) /\ TLS12Row(u)[i] = "CLIENT_CERT"
      <3>1. /\ Grown(TLS12Row(t), Hellos12 \o ToCert12(t), {"CLIENT_CERT"})
            /\ Grown(TLS12Row(u), Hellos12 \o ToCert12(t), {"CLIENT_CERT"})
        BY <1>1, <2>4, <2>7, Beginnings12
      <3>2. i \in 1..Len(TLS12Row(t)) /\ TLS12Row(t)[i] \in {"CLIENT_CERT"}
        BY <2>1
      <3> QED
        BY <3>1, <3>2, GrownAgree
    <2> QED
      BY <1>1, <1>3, <2>1, <2>6, <2>8, WholeRow
  <1> QED
    BY <1>2, <1>3

LEMMA Lengths ==
    /\ \A r, s \in Names : Len(r \o s) = Len(r) + Len(s) /\ Len(r) \in Nat /\ Len(s) \in Nat /\ r \o s \in Names
    /\ \A x : Len(<<x>>) = 1
  BY DEF Names

(* A request the client did not count on.                                  *)
LEMMA RequestKeeps ==
    ASSUME NEW k, NEW t \in SUBSET Flags, NEW u, u = t \cup {"CLIENT_AUTH"}, "NEGOTIATED" \in t, Defined(k, t), Defined(k, u),
           NEW i \in 1..Len(Row(k, u)), Row(k, u)[i] = "SERVER_CERT_REQ"
    PROVE  Agree(Row(k, t), Row(k, u), i - 1)
  <1>1. u \in SUBSET Flags /\ "NEGOTIATED" \in u
    BY DEF Flags
  <1>2. CASE k = "tls13"
    <2>1. Row(k, t) = TLS13Row(t) /\ Row(k, u) = TLS13Row(u)
      BY <1>1, <1>2, WholeRow
    <2> QED
      BY <2>1, RequestKeeps13
  <1>3. CASE k # "tls13"
    <2>1. Row(k, t) = TLS12Row(t) /\ Row(k, u) = TLS12Row(u)
      BY <1>1, <1>3, WholeRow
    <2>2. "FULL_HANDSHAKE" \in t
      BY <1>3 DEF Defined, TLS12Defined
    <2>3. ToKey12(t) = ToKey12(u)
      BY DEF ToKey12, ToStatus12, Status12
    <2>4. i <= Len(Hellos12 \o ToRequest12(u))
      BY <1>1, <2>1, <2>2, Beginnings12, GrownAgree
    <2>5. /\ Len(Hellos12 \o ToRequest12(u)) = Len(Hellos12 \o ToKey12(t)) + 1
          /\ Len(Hellos12 \o ToKey12(t)) \in Nat
      <3>1. ToRequest12(u) = ToKey12(t) \o <<"SERVER_CERT_REQ">>
        BY <2>3 DEF ToRequest12, Only
      <3>2. Hellos12 \in Names /\ ToKey12(t) \in Names
        BY Pieces12
      <3>3. <<"SERVER_CERT_REQ">> \in Names /\ Len(<<"SERVER_CERT_REQ">>) = 1
        BY KnownNames, Literals
      <3>4. /\ Len(ToRequest12(u)) = Len(ToKey12(t)) + 1 /\ ToRequest12(u) \in Names
            /\ Len(ToKey12(t)) \in Nat
        BY <3>1, <3>2, <3>3, Lengths
      <3>5. /\ Len(Hellos12 \o ToRequest12(u)) = Len(Hellos12) + Len(ToRequest12(u))
            /\ Len(Hellos12 \o ToKey12(t)) = Len(Hellos12) + Len(ToKey12(t)) /\ Len(Hellos12) \in Nat
        BY <3>2, <3>4, Lengths
      <3> QED
        BY <3>4, <3>5
    <2>6. i - 1 \in 0..Len(Hellos12 \o ToKey12(t))
      BY <2>4, <2>5
    <2>7. /\ Grown(TLS12Row(t), Hellos12 \o ToKey12(t), {})
          /\ Grown(TLS12Row(u), Hellos12 \o ToKey12(t), {})
      BY <1>1, <2>2, <2>3, Beginnings12
    <2>8. Agree(TLS12Row(t), TLS12Row(u), i - 1)
      BY <2>6, <2>7, GrownAgree
    <2> QED
      BY <2>1, <2>8
  <1> QED
    BY <1>2, <1>3

LEMMA StatusFourth ==
    ASSUME NEW t
    PROVE  Len(Hellos12 \o ToStatus12(t)) = 3 \/ Len(Hellos12 \o ToStatus12(t)) = 4
  <1>1. CASE "OCSP_STATUS" \in t
    <2>1. ToStatus12(t) = <<"SERVER_CERT">> \o <<"SERVER_CERT_STATUS">>
      BY <1>1 DEF ToStatus12, Status12, Only
    <2>2. Len(Hellos12 \o (<<"SERVER_CERT">> \o <<"SERVER_CERT_STATUS">>)) = 4
      BY DEF Hellos12
    <2> QED
      BY <2>1, <2>2
  <1>2. CASE "OCSP_STATUS" \notin t
    <2>1. ToStatus12(t) = <<"SERVER_CERT">> \o << >>
      BY <1>2 DEF ToStatus12, Status12, Only
    <2>2. Len(Hellos12 \o (<<"SERVER_CERT">> \o << >>)) = 3
      BY DEF Hellos12
    <2> QED
      BY <2>1, <2>2
  <1> QED
    BY <1>1, <1>2

(* Where the OCSP response is, full handshakes have not differed yet.      *)
LEMMA StatusEarly ==
    ASSUME NEW k, NEW t \in SUBSET Flags, "NEGOTIATED" \in t, Defined(k, t),
           NEW n \in Nat, n < Len(Row(k, t)), Row(k, t)[n + 1] = "SERVER_CERT_STATUS",
           NEW u \in SUBSET Flags, "NEGOTIATED" \in u, "FULL_HANDSHAKE" \in u, Defined(k, u)
    PROVE  /\ k # "tls13" /\ "FULL_HANDSHAKE" \in t
           /\ Agree(Row(k, t), Row(k, u), n)
  <1>0. n + 1 \in 1..Len(Row(k, t)) /\ Len(Row(k, t)) \in Nat
    BY WholeRow
  <1>1. k # "tls13"
    <2> SUFFICES ASSUME k = "tls13" PROVE FALSE
      OBVIOUS
    <2>1. Row(k, t) = TLS13Row(t) /\ Grown(TLS13Row(t), << >>, {"SERVER_CERT_STATUS"})
      BY WholeRow, Beginnings13
    <2>2. n + 1 <= Len(<< >>)
      BY <1>0, <2>1, GrownAgree
    <2> QED
      BY <2>2
  <1>2. Row(k, t) = TLS12Row(t) /\ Row(k, u) = TLS12Row(u)
    BY <1>1, WholeRow
  <1>3. /\ Hellos12 \in Names /\ Len(Hellos12) = 2 /\ Hellos12[1] = "CLIENT_HELLO" /\ Hellos12[2] = "SERVER_HELLO"
    BY Pieces12 DEF Hellos12
  <1>4. "FULL_HANDSHAKE" \in t
    <2> SUFFICES ASSUME "FULL_HANDSHAKE" \notin t PROVE FALSE
      OBVIOUS
    <2>1. Grown(TLS12Row(t), Hellos12, {"SERVER_CERT_STATUS"})
      BY BeginningsShort12 DEF Absent12
    <2>2. n + 1 <= Len(Hellos12) /\ TLS12Row(t)[n + 1] = Hellos12[n + 1]
      BY <1>0, <1>2, <1>3, <2>1, GrownSelf, GrownAgree
    <2> QED
      BY <1>2, <1>3, <2>2
  <1>5. n + 1 <= Len(Hellos12 \o ToStatus12(t))
    BY <1>0, <1>2, <1>4, Beginnings12, GrownAgree
  <1>6. n \in 0..Len(CertFirst12)
    BY <1>5, CertThird, StatusFourth
  <1>7. Agree(TLS12Row(t), TLS12Row(u), n)
    BY <1>4, <1>6, Beginnings12, GrownAgree
  <1> QED
    BY <1>1, <1>2, <1>4, <1>7

-----------------------------------------------------------------------------
(* Where a peer is.                                                        *)

LEMMA OpenRows ==
    /\ Row("initial", {}) = <<"CLIENT_HELLO", "SERVER_HELLO">> /\ Row("initial", {}) \in Names
    /\ Row("tls13", EarlyFlags) = <<"CLIENT_HELLO", "CLIENT_CHANGE_CIPHER_SPEC", "SERVER_HELLO">>
    /\ Row("tls13", EarlyFlags) \in Names
    /\ Defined("initial", {}) /\ Defined("tls13", EarlyFlags) /\ {} \subseteq Flags /\ EarlyFlags \subseteq Flags
  <1>1. Row("initial", {}) = <<"CLIENT_HELLO", "SERVER_HELLO">> \o << >>
    BY DEF Row, handshakes, TLS12Defined, TLS12Row
  <1>2. TLS13Row(EarlyFlags) = <<"CLIENT_HELLO">> \o <<"CLIENT_CHANGE_CIPHER_SPEC">> \o <<"SERVER_HELLO">>
    BY DEF TLS13Row, EarlyFlags, Only
  <1>3. Row("tls13", EarlyFlags) = TLS13Row(EarlyFlags)
    BY DEF Row, tls13_handshakes, TLS13Defined, EarlyFlags, Flags
  <1>4. /\ <<"CLIENT_HELLO", "SERVER_HELLO">> \in Names
        /\ <<"CLIENT_HELLO", "CLIENT_CHANGE_CIPHER_SPEC", "SERVER_HELLO">> \in Names
    BY KnownNames, Literals
  <1>5. <<"CLIENT_HELLO", "SERVER_HELLO">> \o << >> = <<"CLIENT_HELLO", "SERVER_HELLO">>
    OBVIOUS
  <1>6. <<"CLIENT_HELLO">> \o <<"CLIENT_CHANGE_CIPHER_SPEC">> \o <<"SERVER_HELLO">>
        = <<"CLIENT_HELLO", "CLIENT_CHANGE_CIPHER_SPEC", "SERVER_HELLO">>
    <2> DEFINE r == <<"CLIENT_HELLO">> \o <<"CLIENT_CHANGE_CIPHER_SPEC">> \o <<"SERVER_HELLO">>
               s == <<"CLIENT_HELLO", "CLIENT_CHANGE_CIPHER_SPEC", "SERVER_HELLO">>
    <2>1. /\ Len(r) = 3 /\ r[1] = "CLIENT_HELLO" /\ r[2] = "CLIENT_CHANGE_CIPHER_SPEC" /\ r[3] = "SERVER_HELLO"
          /\ Len(s) = 3 /\ s[1] = "CLIENT_HELLO" /\ s[2] = "CLIENT_CHANGE_CIPHER_SPEC" /\ s[3] = "SERVER_HELLO"
      OBVIOUS
    <2>2. s \in Names
      BY <1>4
    <2>3. r \in Names
      <3>1. <<"CLIENT_HELLO">> \in Names /\ <<"CLIENT_CHANGE_CIPHER_SPEC">> \in Names /\ <<"SERVER_HELLO">> \in Names
        BY KnownNames, Literals
      <3> QED
        BY <3>1, Join
    <2> HIDE DEF r, s
    <2>4. \A i \in 1..Len(r) : r[i] = s[i]
      BY <2>1
    <2>5. r = s
      BY <2>1, <2>2, <2>3, <2>4, SeqEqual DEF Names
    <2> QED
      BY <2>5 DEF r, s
  <1>7. /\ Defined("initial", {}) /\ Defined("tls13", EarlyFlags) /\ {} \subseteq Flags /\ EarlyFlags \subseteq Flags
    BY DEF Defined, TLS12Defined, TLS13Defined, EarlyFlags, Flags
  <1> QED
    BY <1>1, <1>2, <1>3, <1>4, <1>5, <1>6, <1>7

LEMMA PlacedRow ==
    ASSUME NEW p, NEW k, NEW t, NEW n, Placed(p, k, t, n)
    PROVE  /\ t \in SUBSET Flags /\ Defined(k, t) /\ n \in Nat /\ n < Len(Row(k, t))
           /\ Row(k, t) \in Names /\ Len(Row(k, t)) \in Nat /\ n + 1 \in 1..Len(Row(k, t))
           /\ MessageAt(k, t, n) = Row(k, t)[n + 1] /\ Row(k, t)[n + 1] \in Known
  <1>1. t \in SUBSET Flags /\ Defined(k, t) /\ n \in Nat /\ n < Len(Row(k, t)) /\ Row(k, t) \in Names
    <2>1. CASE Undecided(p, k, t, n)
      BY <2>1, OpenRows DEF Undecided
    <2>2. CASE Decided(p, k, t, n)
      BY <2>2, WholeRow DEF Decided, Suits
    <2> QED
      BY <2>1, <2>2 DEF Placed
  <1>2. Len(Row(k, t)) \in Nat
    BY <1>1 DEF Names
  <1>3. n + 1 \in 1..Len(Row(k, t))
    BY <1>1, <1>2
  <1>4. Row(k, t)[n + 1] \in Known
    BY <1>1, <1>3 DEF Names
  <1> QED
    BY <1>1, <1>2, <1>3, <1>4 DEF MessageAt

(* What a peer that is undecided is at.                                    *)
LEMMA AtUndecided ==
    ASSUME NEW p \in Peers, NEW k, NEW t, NEW n, Undecided(p, k, t, n)
    PROVE  /\ Row(k, t)[n + 1] \in {"CLIENT_HELLO", "CLIENT_CHANGE_CIPHER_SPEC", "SERVER_HELLO"}
           /\ Row(k, t)[n + 1] = "SERVER_HELLO" => n = Len(Row(k, t)) - 1
           /\ p = "server" => n = 0 /\ Row(k, t)[1] = "CLIENT_HELLO"
           /\ Row(k, t)[Len(Row(k, t))] = "SERVER_HELLO"
           /\ \/ k = "initial" /\ t = {} /\ Len(Row(k, t)) = 2
              \/ k = "tls13" /\ t = EarlyFlags /\ cfg.early # "no" /\ Len(Row(k, t)) = 3
  <1>1. CASE k = "initial" /\ t = {}
    <2> DEFINE r == <<"CLIENT_HELLO", "SERVER_HELLO">>
    <2>1. Row(k, t) = r /\ Len(r) = 2 /\ r[1] = "CLIENT_HELLO" /\ r[2] = "SERVER_HELLO"
      BY <1>1, OpenRows
    <2> HIDE DEF r
    <2>2. n = 0 \/ n = 1
      BY <2>1 DEF Undecided
    <2>3. n = 0 => r[n + 1] = "CLIENT_HELLO"
      BY <2>1
    <2>4. n = 1 => r[n + 1] = "SERVER_HELLO" /\ n = Len(r) - 1
      BY <2>1
    <2>5. p = "server" => n = 0
      BY DEF Undecided
    <2> QED
      BY <1>1, <2>1, <2>2, <2>3, <2>4, <2>5
  <1>2. CASE k = "tls13" /\ t = EarlyFlags /\ cfg.early # "no"
    <2> DEFINE r == <<"CLIENT_HELLO", "CLIENT_CHANGE_CIPHER_SPEC", "SERVER_HELLO">>
    <2>1. /\ Row(k, t) = r /\ Len(r) = 3 /\ r[1] = "CLIENT_HELLO" /\ r[2] = "CLIENT_CHANGE_CIPHER_SPEC"
          /\ r[3] = "SERVER_HELLO"
      BY <1>2, OpenRows
    <2> HIDE DEF r
    <2>2. n = 0 \/ n = 1 \/ n = 2
      BY <2>1 DEF Undecided
    <2>3. n = 0 => r[n + 1] = "CLIENT_HELLO"
      BY <2>1
    <2>4. n = 1 => r[n + 1] = "CLIENT_CHANGE_CIPHER_SPEC"
      BY <2>1
    <2>5. n = 2 => r[n + 1] = "SERVER_HELLO" /\ n = Len(r) - 1
      BY <2>1
    <2>6. p = "server" => n = 0
      BY DEF Undecided
    <2> QED
      BY <1>2, <2>1, <2>2, <2>3, <2>4, <2>5, <2>6
  <1> QED
    BY <1>1, <1>2 DEF Undecided

LEMMA NoAgreement ==
    ASSUME NEW r \in Names, NEW s \in Names
    PROVE  Agree(r, s, 0)
  BY DEF Agree, Names

LEMMA AgreeSelf ==
    ASSUME NEW r \in Names, NEW n \in Nat, n <= Len(r)
    PROVE  Agree(r, r, n)
  BY DEF Agree

LEMMA AgreeLess ==
    ASSUME NEW r, NEW s, NEW n, Agree(r, s, n + 1), n \in Nat
    PROVE  Agree(r, s, n) /\ n + 1 <= Len(s)
  BY DEF Agree, Names

LEMMA AgreeTwice ==
    ASSUME NEW r, NEW s, NEW u, NEW n, Agree(r, s, n), Agree(s, u, n)
    PROVE  Agree(r, u, n)
  BY DEF Agree

-----------------------------------------------------------------------------
(* The types that a hello gives a peer.                                    *)

LEMMA Type12 ==
    ASSUME cfg \in Configs, Ordinary, cfg.version = 12, NEW p \in Peers
    PROVE  Suits(p, "tls12", TLS12Type(p))
  <1>1. /\ cfg \in AllConfigs /\ WellFormed(cfg) /\ (cfg.resume => cfg.client_auth # "required" /\ cfg.server_auth = "none")
        /\ cfg.early # "accepted"
    BY ConfigFacts DEF Ordinary, WellFormed
  <1>2. cfg.resume => ~ExpectsCertReq(p)
    BY <1>1 DEF ExpectsCertReq
  <1>3. ChosenMachine = "tls12"
    BY DEF ChosenMachine
  <1>4. CASE cfg.resume
    <2>1. TLS12Type(p) = {"NEGOTIATED"} \cup Flag(cfg.npn, "WITH_NPN") \cup Flag(cfg.ticket, "WITH_SESSION_TICKET")
      BY <1>2, <1>4 DEF TLS12Type, TLS12TypeBeforeLookup, Flag
    <2> QED
      BY <1>1, <1>3, <2>1 DEF Suits, Defined, TLS12Defined, Flag, Flags
  <1>5. CASE ~cfg.resume
    <2>1. TLS12Type(p) \subseteq {"NEGOTIATED", "CLIENT_AUTH", "WITH_NPN", "WITH_SESSION_TICKET", "FULL_HANDSHAKE",
                                 "TLS12_PERFECT_FORWARD_SECRECY", "OCSP_STATUS"}
      BY DEF TLS12Type, TLS12TypeBeforeLookup, Flag
    <2>2. {"NEGOTIATED", "FULL_HANDSHAKE"} \subseteq TLS12Type(p)
      BY <1>5 DEF TLS12Type, TLS12TypeBeforeLookup, Flag
    <2> QED
      BY <1>1, <1>3, <2>1, <2>2 DEF Suits, Defined, TLS12Defined, Flags
  <1> QED
    BY <1>4, <1>5

LEMMA Type13 ==
    ASSUME cfg \in Configs, cfg.version = 13, NEW p \in Peers, NEW s, NEW psk \in BOOLEAN, NEW acc \in BOOLEAN,
           NEW u, u = s2n_conn_set_tls13_handshake_type(p, s, psk, acc),
           acc => psk /\ "HELLO_RETRY_REQUEST" \notin s, cfg.early = "accepted" => psk,
           "HELLO_RETRY_REQUEST" \in s => cfg.hrr, "EARLY_CLIENT_CCS" \in s => "MIDDLEBOX_COMPAT" \in s,
           p = "server" => (s \cap KeptFlags) \cup {"MIDDLEBOX_COMPAT"} = HelloFlags \cup {"MIDDLEBOX_COMPAT"}
    PROVE  /\ Suits(p, "tls13", u) /\ u \cap KeptFlags = (s \cap KeptFlags) \cup {"MIDDLEBOX_COMPAT"}
  <1>1. u = (s \cap KeptFlags) \cup {"NEGOTIATED", "MIDDLEBOX_COMPAT"} \cup Flag(~psk, "FULL_HANDSHAKE")
            \cup Flag(acc, "WITH_EARLY_DATA") \cup Flag(~psk /\ ExpectsCertReq(p), "CLIENT_AUTH")
    BY DEF s2n_conn_set_tls13_handshake_type
  <1>2. u \cap KeptFlags = (s \cap KeptFlags) \cup {"MIDDLEBOX_COMPAT"}
    BY <1>1 DEF KeptFlags, Flag
  <1>3. /\ u \subseteq {"HELLO_RETRY_REQUEST", "MIDDLEBOX_COMPAT", "EARLY_CLIENT_CCS", "NEGOTIATED", "FULL_HANDSHAKE",
                       "WITH_EARLY_DATA", "CLIENT_AUTH"}
        /\ "NEGOTIATED" \in u /\ "MIDDLEBOX_COMPAT" \in u
        /\ "HELLO_RETRY_REQUEST" \in u => "HELLO_RETRY_REQUEST" \in s
        /\ "FULL_HANDSHAKE" \in u <=> ~psk
        /\ "CLIENT_AUTH" \in u => ~psk
        /\ "WITH_EARLY_DATA" \in u => acc
    BY <1>1 DEF KeptFlags, Flag
  <1>4. TLS13Defined(u)
    BY <1>3 DEF TLS13Defined
  <1>5. ChosenMachine = "tls13"
    BY DEF ChosenMachine
  <1> QED
    BY <1>2, <1>3, <1>4, <1>5 DEF Suits, Defined, Flags

LEMMA Type13Client ==
    ASSUME cfg \in Configs, cfg.version = 13, NEW s, NEW psk \in BOOLEAN,
           NEW u, u = s2n_conn_set_tls13_handshake_type("client", s, psk, FALSE), cfg.early = "accepted" => psk,
           "HELLO_RETRY_REQUEST" \in s => cfg.hrr, "EARLY_CLIENT_CCS" \in s => "MIDDLEBOX_COMPAT" \in s
    PROVE  Suits("client", "tls13", u) /\ u \cap KeptFlags = (s \cap KeptFlags) \cup {"MIDDLEBOX_COMPAT"}
  <1>1. \A acc \in BOOLEAN : ~acc /\ u = s2n_conn_set_tls13_handshake_type("client", s, psk, acc) =>
          Suits("client", "tls13", u) /\ u \cap KeptFlags = (s \cap KeptFlags) \cup {"MIDDLEBOX_COMPAT"}
    BY Type13 DEF Peers
  <1> QED
    BY <1>1

-----------------------------------------------------------------------------
(* Handling a message: the new type suits the peer, has been through the   *)
(* same messages and goes on after this one.                               *)

Onto(p, k, t, n, l, u) ==
  /\ Suits(p, l, u) /\ FarEnough(p, l, u, n + 1)
  /\ Agree(Row(k, t), Row(l, u), n)
  /\ n + 1 <= Len(Row(l, u)) /\ Row(l, u)[n + 1] # "APPLICATION_DATA"

LEMMA HellosAre == Hellos12 \in Names /\ Len(Hellos12) = 2 /\ Hellos12[1] = "CLIENT_HELLO" /\ Hellos12[2] = "SERVER_HELLO"
  BY Pieces12 DEF Hellos12

LEMMA Suited ==
    ASSUME NEW p, NEW k, NEW t, Suits(p, k, t)
    PROVE  /\ Row(k, t) = IF k = "tls13" THEN TLS13Row(t) ELSE TLS12Row(t)
           /\ Whole(Row(k, t)) /\ Row(k, t) \in Names /\ Len(Row(k, t)) \in Nat /\ Len(Row(k, t)) >= 2
           /\ Row(k, t)[1] = "CLIENT_HELLO" /\ k \in {"tls12", "tls13"} /\ "NEGOTIATED" \in t
  <1>1. t \in SUBSET Flags /\ "NEGOTIATED" \in t /\ Defined(k, t) /\ k \in {"tls12", "tls13"}
    BY DEF Suits, ChosenMachine
  <1>2. Whole(Row(k, t))
    BY <1>1, WholeRow
  <1> QED
    BY <1>1, <1>2, WholeRow DEF Whole

(* The server and a ClientHello, the first or the second.                  *)
LEMMA HelloGives12 ==
    ASSUME cfg \in Configs, Ordinary, cfg.version = 12, NEW k, NEW t, NEW n, Placed("server", k, t, n),
           Row(k, t)[n + 1] = "CLIENT_HELLO"
    PROVE  Onto("server", k, t, n, "tls12", TLS12Type("server"))
  <1> DEFINE u == TLS12Type("server")
  <1>1. Suits("server", "tls12", u)
    BY Type12 DEF Peers
  <1> HIDE DEF u
  <1>2. n = 0
    <2>1. CASE Undecided("server", k, t, n)
      BY <2>1 DEF Undecided
    <2>2. CASE Decided("server", k, t, n)
      <3>1. Suits("server", k, t) /\ k = "tls12"
        BY <2>2 DEF Decided, Suits, ChosenMachine
      <3>2. Row(k, t) = TLS12Row(t) /\ "NEGOTIATED" \in t
        BY <3>1, Suited
      <3>3. n + 1 \in 1..Len(Row(k, t)) /\ n \in Nat
        BY PlacedRow
      <3>4. n + 1 <= 2 /\ Hellos12[n + 1] = "CLIENT_HELLO"
        <4>1. Grown(TLS12Row(t), Hellos12, {"CLIENT_HELLO", "SERVER_HELLO", "HELLO_RETRY_MSG", "ENCRYPTED_EXTENSIONS"})
          BY <3>2, HellosFirst12
        <4>2. /\ n + 1 \in 1..Len(TLS12Row(t)) /\ TLS12Row(t)[n + 1] = "CLIENT_HELLO"
              /\ TLS12Row(t)[n + 1] \in {"CLIENT_HELLO", "SERVER_HELLO", "HELLO_RETRY_MSG", "ENCRYPTED_EXTENSIONS"}
          BY <3>2, <3>3
        <4>3. n + 1 <= Len(Hellos12) /\ TLS12Row(t)[n + 1] = Hellos12[n + 1]
          BY <4>1, <4>2, GrownIn
        <4> QED
          BY <4>2, <4>3, HellosAre
      <3> QED
        BY <3>3, <3>4, HellosAre
    <2> QED
      BY <2>1, <2>2 DEF Placed
  <1>3. Row(k, t) \in Names
    BY PlacedRow
  <1>4. Agree(Row(k, t), Row("tls12", u), 0)
    BY <1>1, <1>3, Suited, NoAgreement
  <1>5. 0 + 1 = 1 /\ FarEnough("server", "tls12", u, 1)
    BY DEF FarEnough
  <1>6. Onto("server", k, t, 0, "tls12", u)
    BY <1>1, <1>4, <1>5, Suited DEF Onto
  <1> QED
    BY <1>2, <1>6 DEF u

AfterHello(t, n) ==
  t \cup (IF cfg.early # "no" /\ n = 0 THEN EarlyFlags ELSE {}) \cup Flag(cfg.hrr, "HELLO_RETRY_REQUEST")
LEMMA HelloGives13 ==
    ASSUME cfg \in Configs, cfg.version = 13, NEW k, NEW t, NEW n, Placed("server", k, t, n),
           Row(k, t)[n + 1] = "CLIENT_HELLO",
           NEW s, s = AfterHello(t, n),
           NEW acc \in BOOLEAN, acc => cfg.psk /\ ~cfg.hrr,
           NEW u, u = s2n_conn_set_tls13_handshake_type("server", s, cfg.psk, acc)
    PROVE  Onto("server", k, t, n, "tls13", u)
  <1>1. /\ cfg.psk \in BOOLEAN /\ cfg.hrr \in BOOLEAN /\ (cfg.early = "accepted" => cfg.psk /\ ~cfg.hrr)
    BY ConfigFacts DEF AllConfigs, WellFormed
  <1>2. (s \cap KeptFlags) \cup {"MIDDLEBOX_COMPAT"} = HelloFlags \cup {"MIDDLEBOX_COMPAT"}
    <2>1. CASE Undecided("server", k, t, n)
      <3>1. n = 0
        BY <2>1 DEF Undecided
      <3>2. s = HelloFlags
        <4>1. CASE t = {}
          BY <3>1, <4>1 DEF HelloFlags, AfterHello
        <4>2. CASE t = EarlyFlags /\ cfg.early # "no"
          BY <3>1, <4>2 DEF HelloFlags, AfterHello
        <4> QED
          BY <2>1, <4>1, <4>2 DEF Undecided
      <3>3. HelloFlags \subseteq KeptFlags
        BY DEF HelloFlags, KeptFlags, EarlyFlags, Flag
      <3> QED
        BY <3>2, <3>3
    <2>2. CASE Decided("server", k, t, n)
      <3>1. t \cap KeptFlags = HelloFlags \cup {"MIDDLEBOX_COMPAT"}
        BY <2>2 DEF Decided, Suits, ChosenMachine
      <3>2. s \subseteq t \cup HelloFlags /\ t \subseteq s
        BY DEF HelloFlags, AfterHello
      <3>3. HelloFlags \subseteq KeptFlags /\ "MIDDLEBOX_COMPAT" \in KeptFlags
        BY DEF HelloFlags, KeptFlags, EarlyFlags, Flag
      <3> QED
        BY <3>1, <3>2, <3>3
    <2> QED
      BY <2>1, <2>2 DEF Placed
  <1>3. ("HELLO_RETRY_REQUEST" \in s => cfg.hrr) /\ ("EARLY_CLIENT_CCS" \in s => "MIDDLEBOX_COMPAT" \in s)
    <2>1. "HELLO_RETRY_REQUEST" \in HelloFlags => cfg.hrr
      BY DEF HelloFlags, EarlyFlags, Flag
    <2>2. "HELLO_RETRY_REQUEST" \in KeptFlags
      BY DEF KeptFlags
    <2>3. "HELLO_RETRY_REQUEST" \in s => cfg.hrr
      BY <1>2, <2>1, <2>2
    <2>4. CASE Undecided("server", k, t, n)
      BY <2>4 DEF Undecided, EarlyFlags, Flag, AfterHello
    <2>5. CASE Decided("server", k, t, n)
      <3>1. "MIDDLEBOX_COMPAT" \in t
        BY <2>5 DEF Decided, Suits, ChosenMachine
      <3> QED
        BY <2>3, <3>1 DEF AfterHello
    <2> QED
      BY <2>3, <2>4, <2>5 DEF Placed
  <1>4. Suits("server", "tls13", u) /\ u \cap KeptFlags = (s \cap KeptFlags) \cup {"MIDDLEBOX_COMPAT"}
    <2>1. acc => cfg.psk /\ "HELLO_RETRY_REQUEST" \notin s
      BY <1>3
    <2>2. cfg.early = "accepted" => cfg.psk
      BY <1>1
    <2> QED
      BY <1>1, <1>2, <1>3, <2>1, <2>2, Type13 DEF Peers
  <1>5. n \in Nat /\ n + 1 \in 1..Len(Row(k, t)) /\ Row(k, t) \in Names
    BY PlacedRow
  <1>6. FarEnough("server", "tls13", u, n + 1)
    BY <1>5 DEF FarEnough
  <1>7. CASE Undecided("server", k, t, n)
    <2>1. n = 0
      BY <1>7 DEF Undecided
    <2>2. Agree(Row(k, t), Row("tls13", u), 0)
      BY <1>4, <1>5, Suited, NoAgreement
    <2> QED
      BY <1>4, <1>6, <2>1, <2>2, Suited DEF Onto
  <1>8. CASE Decided("server", k, t, n)
    <2>1. Suits("server", k, t) /\ k = "tls13" /\ t \cap KeptFlags = HelloFlags \cup {"MIDDLEBOX_COMPAT"}
      BY <1>8 DEF Decided, Suits, ChosenMachine
    <2>2. t \cap KeptFlags = u \cap KeptFlags
      BY <1>2, <1>4, <2>1
    <2>3. Row(k, t) = TLS13Row(t) /\ Row("tls13", u) = TLS13Row(u) /\ "NEGOTIATED" \in t /\ "NEGOTIATED" \in u
      BY <1>4, <2>1, Suited
    <2>4. Agree(TLS13Row(t), TLS13Row(u), n + 1) /\ TLS13Row(u)[n + 1] = "CLIENT_HELLO"
      <3>1. /\ n + 1 \in 1..Len(TLS13Row(t))
            /\ TLS13Row(t)[n + 1] \in {"CLIENT_HELLO", "SERVER_HELLO", "HELLO_RETRY_MSG", "ENCRYPTED_EXTENSIONS"}
            /\ TLS13Row(t)[n + 1] = "CLIENT_HELLO"
        BY <1>5, <2>3
      <3> QED
        BY <2>2, <2>3, <3>1, HelloKeeps
    <2>5. Agree(TLS13Row(t), TLS13Row(u), n) /\ n + 1 <= Len(TLS13Row(u))
      BY <1>5, <2>4, AgreeLess
    <2> QED
      BY <1>4, <1>6, <2>3, <2>4, <2>5 DEF Onto
  <1> QED
    BY <1>7, <1>8 DEF Placed

(* A change that keeps the flags of KeptFlags, up to EncryptedExtensions.  *)
LEMMA KeptOnto ==
    ASSUME NEW p, NEW t, NEW u, Suits(p, "tls13", t), Suits(p, "tls13", u), t \cap KeptFlags = u \cap KeptFlags,
           NEW n \in Nat, n + 1 \in 1..Len(Row("tls13", t)), FarEnough(p, "tls13", u, n + 1),
           Row("tls13", t)[n + 1] \in {"CLIENT_HELLO", "SERVER_HELLO", "HELLO_RETRY_MSG", "ENCRYPTED_EXTENSIONS"}
    PROVE  Onto(p, "tls13", t, n, "tls13", u)
  <1>1. /\ Row("tls13", t) = TLS13Row(t) /\ Row("tls13", u) = TLS13Row(u)
        /\ "NEGOTIATED" \in t /\ "NEGOTIATED" \in u
    BY Suited
  <1>2. Agree(TLS13Row(t), TLS13Row(u), n + 1) /\ TLS13Row(u)[n + 1] = TLS13Row(t)[n + 1]
    BY <1>1, HelloKeeps
  <1>3. Agree(TLS13Row(t), TLS13Row(u), n) /\ n + 1 <= Len(TLS13Row(u))
    BY <1>2, AgreeLess
  <1> QED
    BY <1>1, <1>2, <1>3 DEF Onto

LEMMA FarAgain ==
    ASSUME NEW p, NEW k, NEW u, NEW n \in Nat, "HELLO_RETRY_REQUEST" \in u
    PROVE  FarEnough(p, k, u, n + 1)
  BY DEF FarEnough

LEMMA FarOn ==
    ASSUME NEW p, NEW k, NEW t, NEW u, NEW n \in Nat, FarEnough(p, k, t, n), t \cap KeptFlags = u \cap KeptFlags
    PROVE  FarEnough(p, k, u, n) /\ FarEnough(p, k, u, n + 1)
  <1>1. /\ "HELLO_RETRY_REQUEST" \in t <=> "HELLO_RETRY_REQUEST" \in u
        /\ "EARLY_CLIENT_CCS" \in t <=> "EARLY_CLIENT_CCS" \in u
    BY DEF KeptFlags
  <1> QED
    BY <1>1 DEF FarEnough

(* A client that is undecided and the answer to its ClientHello, in TLS1.3. *)
LEMMA OpeningGives13 ==
    ASSUME NEW k, NEW t, NEW n, Undecided("client", k, t, n), Row(k, t)[n + 1] = "SERVER_HELLO",
           NEW u, Suits("client", "tls13", u), "EARLY_CLIENT_CCS" \in u <=> k = "tls13"
    PROVE  Onto("client", k, t, n, "tls13", u)
  <1> DEFINE r == TLS13Row(u)
             b == Hello13(u) \o <<Answer(u)>>
  <1>1. Row("tls13", u) = r /\ r \in Names /\ "NEGOTIATED" \in u
    BY Suited
  <1>2. Grown(r, b, {})
    BY <1>1, Opening13
  <1>3. Answer(u) # "APPLICATION_DATA"
    BY DEF Answer
  <1>4. Row(k, t) \in Names
    BY PlacedRow DEF Placed
  <1>5. CASE k = "initial"
    <2>1. t = {} /\ Len(Row(k, t)) = 2 /\ n = Len(Row(k, t)) - 1
      BY <1>5, AtUndecided DEF Peers
    <2>2. n = 1
      BY <2>1
    <2>3. Hello13(u) = <<"CLIENT_HELLO">> \o << >>
      BY <1>5 DEF Hello13, CCS_C, Only
    <2>4. Len(b) = 2 /\ b[1] = "CLIENT_HELLO" /\ b[2] = Answer(u)
      BY <2>3
    <2>5. Row(k, t)[1] = "CLIENT_HELLO"
      BY <1>5, <2>1, OpenRows
    <2> HIDE DEF r, b
    <2>6. Len(r) \in Nat /\ Len(r) >= 2 /\ r[1] = "CLIENT_HELLO" /\ r[2] = Answer(u)
      BY <1>2, <2>4 DEF Grown, Names
    <2>7. Agree(Row(k, t), r, 1)
      BY <1>1, <1>4, <2>1, <2>5, <2>6 DEF Agree
    <2>8. 1 + 1 = 2 /\ FarEnough("client", "tls13", u, 2)
      BY <1>5 DEF FarEnough
    <2> QED
      BY <1>1, <1>3, <2>2, <2>6, <2>7, <2>8 DEF Onto
  <1>6. CASE k = "tls13"
    <2>1. t = EarlyFlags /\ Len(Row(k, t)) = 3 /\ n = Len(Row(k, t)) - 1
      BY <1>6, AtUndecided DEF Peers
    <2>2. n = 2
      BY <2>1
    <2>3. Hello13(u) = <<"CLIENT_HELLO">> \o <<"CLIENT_CHANGE_CIPHER_SPEC">>
      BY <1>6 DEF Hello13, CCS_C, Only
    <2>4. Len(b) = 3 /\ b[1] = "CLIENT_HELLO" /\ b[2] = "CLIENT_CHANGE_CIPHER_SPEC" /\ b[3] = Answer(u)
      BY <2>3
    <2>5. Row(k, t)[1] = "CLIENT_HELLO" /\ Row(k, t)[2] = "CLIENT_CHANGE_CIPHER_SPEC"
      BY <1>6, <2>1, OpenRows
    <2> HIDE DEF r, b
    <2>6. /\ Len(r) \in Nat /\ Len(r) >= 3 /\ r[1] = "CLIENT_HELLO" /\ r[2] = "CLIENT_CHANGE_CIPHER_SPEC"
          /\ r[3] = Answer(u)
      BY <1>2, <2>4 DEF Grown, Names
    <2>7. Agree(Row(k, t), r, 2)
      <3>1. \A i \in 1..2 : i = 1 \/ i = 2
        OBVIOUS
      <3>2. \A i \in 1..2 : Row(k, t)[i] = r[i]
        BY <2>5, <2>6, <3>1
      <3> QED
        BY <1>1, <1>4, <2>1, <2>6, <3>2 DEF Agree
    <2>8. 2 + 1 = 3 /\ FarEnough("client", "tls13", u, 3)
      BY DEF FarEnough
    <2> QED
      BY <1>1, <1>3, <2>2, <2>6, <2>7, <2>8 DEF Onto
  <1> QED
    BY <1>5, <1>6 DEF Undecided

(* The client and a ServerHello of TLS1.2.                                 *)
LEMMA AnswerGives12 ==
    ASSUME cfg \in Configs, Ordinary, cfg.version = 12, cfg.early = "no", NEW k, NEW t, NEW n, Placed("client", k, t, n),
           Row(k, t)[n + 1] \in {"SERVER_HELLO", "HELLO_RETRY_MSG"}
    PROVE  Onto("client", k, t, n, "tls12", TLS12Type("client"))
  <1> DEFINE u == TLS12Type("client")
             E == {"CLIENT_HELLO", "SERVER_HELLO", "HELLO_RETRY_MSG", "ENCRYPTED_EXTENSIONS"}
  <1>1. Suits("client", "tls12", u)
    BY Type12 DEF Peers
  <1> HIDE DEF u
  <1>2. Row("tls12", u) = TLS12Row(u) /\ "NEGOTIATED" \in u /\ TLS12Row(u) \in Names
    BY <1>1, Suited
  <1>3. Grown(TLS12Row(u), Hellos12, E)
    BY <1>2, HellosFirst12
  <1>4. Row(k, t) \in Names /\ n \in Nat /\ n + 1 \in 1..Len(Row(k, t)) /\ Len(Row(k, t)) \in Nat
    BY PlacedRow
  <1>5. n = 1 /\ Row(k, t)[1] = "CLIENT_HELLO"
    <2>1. CASE Undecided("client", k, t, n)
      <3>1. k = "initial" /\ t = {} /\ Len(Row(k, t)) = 2
        BY <2>1, AtUndecided DEF Peers
      <3>2. Row(k, t)[n + 1] = "SERVER_HELLO"
        BY <2>1, AtUndecided DEF Peers
      <3>3. n = Len(Row(k, t)) - 1
        BY <2>1, <3>2, AtUndecided DEF Peers
      <3> QED
        BY <3>1, <3>3, OpenRows
    <2>2. CASE Decided("client", k, t, n)
      <3>1. Suits("client", k, t) /\ k = "tls12" /\ n >= 1
        BY <2>2 DEF Decided, Suits, ChosenMachine, FarEnough
      <3>2. Row(k, t) = TLS12Row(t) /\ "NEGOTIATED" \in t /\ Row(k, t)[1] = "CLIENT_HELLO"
        BY <3>1, Suited
      <3>3. Grown(Row(k, t), Hellos12, E)
        BY <3>2, HellosFirst12
      <3>4. Row(k, t)[n + 1] \in E
        OBVIOUS
      <3>5. n + 1 <= Len(Hellos12)
        BY <1>4, <3>3, <3>4, GrownIn
      <3> QED
        BY <1>4, <3>1, <3>2, <3>5, HellosAre
    <2> QED
      BY <2>1, <2>2 DEF Placed
  <1>6. Len(TLS12Row(u)) \in Nat /\ Len(TLS12Row(u)) >= 2 /\ TLS12Row(u)[1] = "CLIENT_HELLO" /\ TLS12Row(u)[2] = "SERVER_HELLO"
    BY <1>3, HellosAre DEF Grown, Names
  <1>7. Agree(Row(k, t), TLS12Row(u), 1)
    BY <1>2, <1>4, <1>5, <1>6 DEF Agree
  <1>8. 1 + 1 = 2 /\ FarEnough("client", "tls12", u, 2)
    BY DEF FarEnough
  <1>9. Onto("client", k, t, 1, "tls12", u)
    BY <1>1, <1>2, <1>6, <1>7, <1>8 DEF Onto
  <1> QED
    BY <1>5, <1>9 DEF u

(* The client and a ServerHello or HelloRetryRequest of TLS1.3.            *)
LEMMA AnswerGives13 ==
    ASSUME cfg \in Configs, cfg.version = 13, NEW k, NEW t, NEW n, Placed("client", k, t, n),
           Row(k, t)[n + 1] \in {"SERVER_HELLO", "HELLO_RETRY_MSG"},
           NEW again \in BOOLEAN, again => cfg.hrr /\ "HELLO_RETRY_REQUEST" \notin t,
           NEW psk \in BOOLEAN, cfg.early = "accepted" => psk,
           NEW s, s = t \cup Flag(again, "HELLO_RETRY_REQUEST"),
           NEW u, u = s2n_conn_set_tls13_handshake_type("client", s, psk, FALSE)
    PROVE  Onto("client", k, t, n, "tls13", u)
  <1> DEFINE X == {"SERVER_HELLO", "HELLO_RETRY_MSG"}
  <1>1. ("HELLO_RETRY_REQUEST" \in s => cfg.hrr) /\ ("EARLY_CLIENT_CCS" \in s => "MIDDLEBOX_COMPAT" \in s)
    <2>1. ("HELLO_RETRY_REQUEST" \in t => cfg.hrr) /\ ("EARLY_CLIENT_CCS" \in t => "MIDDLEBOX_COMPAT" \in t)
      <3>1. CASE Undecided("client", k, t, n)
        BY <3>1 DEF Undecided, EarlyFlags
      <3>2. CASE Decided("client", k, t, n)
        BY <3>2 DEF Decided, Suits, ChosenMachine
      <3> QED
        BY <3>1, <3>2 DEF Placed
    <2> QED
      BY <2>1 DEF Flag
  <1>2. Suits("client", "tls13", u) /\ u \cap KeptFlags = (s \cap KeptFlags) \cup {"MIDDLEBOX_COMPAT"}
    BY <1>1, Type13Client
  <1>3. n \in Nat /\ n + 1 \in 1..Len(Row(k, t)) /\ Row(k, t) \in Names
    BY PlacedRow
  <1>4. CASE Undecided("client", k, t, n)
    <2>1. Row(k, t)[n + 1] = "SERVER_HELLO"
      BY <1>4, AtUndecided DEF Peers
    <2>2. "EARLY_CLIENT_CCS" \in u <=> "EARLY_CLIENT_CCS" \in s
      BY <1>2 DEF KeptFlags
    <2>3. "EARLY_CLIENT_CCS" \in s <=> "EARLY_CLIENT_CCS" \in t
      BY DEF Flag
    <2>4. "EARLY_CLIENT_CCS" \in t <=> k = "tls13"
      BY <1>4 DEF Undecided, EarlyFlags
    <2> QED
      BY <1>2, <1>4, <2>1, <2>2, <2>3, <2>4, OpeningGives13
  <1>5. CASE Decided("client", k, t, n)
    <2>1. Suits("client", k, t) /\ k = "tls13" /\ "MIDDLEBOX_COMPAT" \in t /\ FarEnough("client", k, t, n)
      BY <1>5 DEF Decided, Suits, ChosenMachine
    <2>2. Row(k, t) = TLS13Row(t) /\ "NEGOTIATED" \in t /\ Row("tls13", u) = TLS13Row(u) /\ "NEGOTIATED" \in u
      BY <1>2, <2>1, Suited
    <2>3. "HELLO_RETRY_REQUEST" \in t
      <3> SUFFICES ASSUME "HELLO_RETRY_REQUEST" \notin t PROVE FALSE
        OBVIOUS
      <3> DEFINE b == Hello13(t) \o <<"SERVER_HELLO">>
      <3>1. Grown(TLS13Row(t), b, X)
        BY <2>2, Opening13 DEF Retry
      <3>2. n + 1 <= Len(b)
        BY <1>3, <2>2, <3>1, GrownIn
      <3>3. CASE "EARLY_CLIENT_CCS" \in t
        <4>1. Hello13(t) = <<"CLIENT_HELLO">> \o <<"CLIENT_CHANGE_CIPHER_SPEC">>
          BY <3>3 DEF Hello13, CCS_C, Only
        <4>2. Len(b) = 3
          BY <4>1
        <4> HIDE DEF b
        <4>3. n >= 3
          BY <2>1, <3>3 DEF FarEnough
        <4> QED
          BY <1>3, <3>2, <4>2, <4>3
      <3>4. CASE "EARLY_CLIENT_CCS" \notin t
        <4>1. Hello13(t) = <<"CLIENT_HELLO">> \o << >>
          BY <3>4 DEF Hello13, CCS_C, Only
        <4>2. Len(b) = 2
          BY <4>1
        <4> HIDE DEF b
        <4>3. n >= 2
          BY <2>1, <3>4 DEF FarEnough
        <4> QED
          BY <1>3, <3>2, <4>2, <4>3
      <3> QED
        BY <3>3, <3>4
    <2>4. s = t
      BY <2>3 DEF Flag
    <2>5. t \cap KeptFlags = u \cap KeptFlags /\ "HELLO_RETRY_REQUEST" \in u
      BY <1>2, <2>1, <2>3, <2>4 DEF KeptFlags
    <2>6. FarEnough("client", "tls13", u, n + 1)
      BY <1>3, <2>5, FarAgain
    <2> QED
      BY <1>2, <1>3, <2>1, <2>5, <2>6, KeptOnto
  <1> QED
    BY <1>4, <1>5 DEF Placed

(* The client and the EncryptedExtensions.                                 *)
LEMMA ExtensionsGive ==
    ASSUME cfg \in Configs, NEW k, NEW t, NEW n, Placed("client", k, t, n), Row(k, t)[n + 1] = "ENCRYPTED_EXTENSIONS",
           NEW u, u = t \cup Flag(cfg.early = "accepted", "WITH_EARLY_DATA")
    PROVE  Onto("client", k, t, n, k, u)
  <1>1. n \in Nat /\ n + 1 \in 1..Len(Row(k, t)) /\ Row(k, t) \in Names
    BY PlacedRow
  <1>2. Decided("client", k, t, n)
    BY AtUndecided DEF Placed, Peers
  <1>3. Suits("client", k, t) /\ FarEnough("client", k, t, n)
    BY <1>2 DEF Decided
  <1>4. k = "tls13"
    <2> SUFFICES ASSUME k # "tls13" PROVE FALSE
      OBVIOUS
    <2> DEFINE E == {"CLIENT_HELLO", "SERVER_HELLO", "HELLO_RETRY_MSG", "ENCRYPTED_EXTENSIONS"}
    <2>1. Row(k, t) = TLS12Row(t) /\ "NEGOTIATED" \in t
      BY <1>3, Suited
    <2>2. Grown(Row(k, t), Hellos12, E)
      BY <2>1, HellosFirst12
    <2>3. n + 1 <= Len(Hellos12) /\ Hellos12[n + 1] = "ENCRYPTED_EXTENSIONS"
      BY <1>1, <2>2, GrownIn
    <2>4. n + 1 = 1 \/ n + 1 = 2
      BY <1>1, <2>3, HellosAre
    <2> QED
      BY <2>3, <2>4, HellosAre
  <1>5. cfg.early = "accepted" => "FULL_HANDSHAKE" \notin t /\ "HELLO_RETRY_REQUEST" \notin t
    BY <1>3, ConfigFacts DEF Suits, WellFormed, AllConfigs
  <1>6. u \in SUBSET Flags /\ "NEGOTIATED" \in u /\ t \cap KeptFlags = u \cap KeptFlags
    BY <1>3 DEF Suits, Flags, Flag, KeptFlags
  <1>7. Defined(k, u)
    BY <1>3, <1>4, <1>5 DEF Suits, Defined, TLS13Defined, Flag
  <1>8. Suits("client", k, u)
    BY <1>3, <1>4, <1>5, <1>6, <1>7 DEF Suits, Flag
  <1>9. FarEnough("client", k, u, n + 1)
    BY <1>1, <1>3, <1>6, FarOn
  <1> QED
    BY <1>1, <1>3, <1>4, <1>6, <1>8, <1>9, KeptOnto

LEMMA CertDecided ==
    ASSUME NEW p \in Peers, NEW k, NEW t, NEW n, Placed(p, k, t, n), Row(k, t)[n + 1] = "CLIENT_CERT"
    PROVE  Decided(p, k, t, n)
  BY AtUndecided DEF Placed

(* The server and the Certificate of a client.                             *)
LEMMA CertGives ==
    ASSUME NEW p \in Peers, NEW k, NEW t, NEW n, Placed(p, k, t, n), Row(k, t)[n + 1] = "CLIENT_CERT",
           NEW u, u = t \cup {"NO_CLIENT_CERT"}
    PROVE  Onto(p, k, t, n, k, u) /\ Decided(p, k, u, n) /\ Row(k, u)[n + 1] = "CLIENT_CERT"
  <1>1. n \in Nat /\ n + 1 \in 1..Len(Row(k, t)) /\ Row(k, t) \in Names
    BY PlacedRow
  <1>2. Decided(p, k, t, n)
    BY CertDecided
  <1>3. Suits(p, k, t) /\ FarEnough(p, k, t, n)
    BY <1>2 DEF Decided
  <1>4. t \in SUBSET Flags /\ "NEGOTIATED" \in t /\ Defined(k, t)
    BY <1>3 DEF Suits
  <1>5. /\ u \in SUBSET Flags /\ Defined(k, u) /\ Agree(Row(k, t), Row(k, u), n + 1)
        /\ Row(k, u)[n + 1] = "CLIENT_CERT"
    BY <1>1, <1>4, CertKeeps
  <1>6. t \cap KeptFlags = u \cap KeptFlags
    BY DEF KeptFlags
  <1>7. Suits(p, k, u)
    BY <1>3, <1>5, <1>6 DEF Suits
  <1>8. FarEnough(p, k, u, n) /\ FarEnough(p, k, u, n + 1)
    BY <1>1, <1>3, <1>6, FarOn
  <1>9. Agree(Row(k, t), Row(k, u), n) /\ n + 1 <= Len(Row(k, u))
    BY <1>1, <1>5, AgreeLess
  <1>10. n < Len(Row(k, u))
    BY <1>1, <1>7, <1>9, Suited
  <1> QED
    BY <1>1, <1>5, <1>7, <1>8, <1>9, <1>10 DEF Onto, Decided

(* Any other message.                                                      *)
LEMMA OtherGives ==
    ASSUME NEW p, NEW k, NEW t, NEW n, Decided(p, k, t, n), Row(k, t)[n + 1] # "APPLICATION_DATA"
    PROVE  Onto(p, k, t, n, k, t)
  <1>1. n \in Nat /\ n + 1 \in 1..Len(Row(k, t)) /\ Row(k, t) \in Names /\ n < Len(Row(k, t)) /\ Len(Row(k, t)) \in Nat
    BY PlacedRow DEF Placed
  <1>2. Suits(p, k, t) /\ FarEnough(p, k, t, n + 1)
    BY <1>1, FarOn DEF Decided
  <1>3. Agree(Row(k, t), Row(k, t), n)
    BY <1>1, AgreeSelf
  <1> QED
    BY <1>1, <1>2, <1>3 DEF Onto

-----------------------------------------------------------------------------
(* A message that arrives.                                                 *)

LEMMA SameMessage ==
    ASSUME NEW p \in Peers, NEW m \in Arriving(p), NEW e \in Known, e # "APPLICATION_DATA",
           MessageType(m) = MessageType(e), Writer(e) # p
    PROVE  /\ e = m \/ (p = "client" /\ e \in {"SERVER_HELLO", "HELLO_RETRY_MSG"} /\ m \in {"SERVER_HELLO", "HELLO_RETRY_MSG"})
           /\ p = "server" => m \in ClientMessages
           /\ p = "client" => m \in ServerMessages
  <1>1. CASE p = "server"
    <2>1. m \in ClientMessages /\ e \in ClientMessages
      BY <1>1, Writers DEF Arriving, Known, Messages
    <2>2. e = m
      BY <2>1 DEF MessageType, ClientMessages
    <2> QED
      BY <1>1, <2>1, <2>2
  <1>2. CASE p = "client"
    <2>1. m \in ServerMessages /\ e \in ServerMessages
      BY <1>2, Writers DEF Arriving, Known, Messages
    <2>2. e = m \/ (e \in {"SERVER_HELLO", "HELLO_RETRY_MSG"} /\ m \in {"SERVER_HELLO", "HELLO_RETRY_MSG"})
      BY <2>1 DEF MessageType, ServerMessages
    <2> QED
      BY <1>2, <2>1, <2>2
  <1> QED
    BY <1>1, <1>2 DEF Peers

(* A type without OCSP_STATUS, or with CLIENT_AUTH, suits as well.         *)
LEMMA SuitsToo ==
    ASSUME NEW p, NEW k, NEW t, NEW u, NEW n, Decided(p, k, t, n), u \in SUBSET Flags, Defined(k, u),
           t \cup u \subseteq (t \cap u) \cup {"OCSP_STATUS", "CLIENT_AUTH"}, Agree(Row(k, t), Row(k, u), n)
    PROVE  Decided(p, k, u, n)
  <1>1. Suits(p, k, t) /\ FarEnough(p, k, t, n) /\ n \in Nat /\ n < Len(Row(k, t))
    BY DEF Decided
  <1>2. /\ \A f : f \notin {"OCSP_STATUS", "CLIENT_AUTH"} => (f \in t <=> f \in u)
        /\ t \cap KeptFlags = u \cap KeptFlags
    BY DEF KeptFlags
  <1>3. Suits(p, k, u)
    BY <1>1, <1>2 DEF Suits
  <1>4. FarEnough(p, k, u, n)
    BY <1>1, <1>2, FarOn
  <1>5. Whole(Row(k, t)) /\ Whole(Row(k, u))
    BY <1>1, <1>3, Suited
  <1>6. n < Len(Row(k, u))
    BY <1>1, <1>5, AgreeInside
  <1> QED
    BY <1>1, <1>3, <1>4, <1>6 DEF Decided

(* What a response that does not come, and a request, leave of the past.   *)
LEMMA StatusDropped ==
    ASSUME NEW p, NEW k, NEW t, NEW u, NEW n, Decided(p, k, t, n), Row(k, t)[n + 1] = "SERVER_CERT_STATUS",
           u = t \ {"OCSP_STATUS"}
    PROVE  Decided(p, k, u, n) /\ Agree(Row(k, t), Row(k, u), n)
  <1>1. t \in SUBSET Flags /\ "NEGOTIATED" \in t /\ Defined(k, t) /\ n \in Nat /\ n < Len(Row(k, t))
    BY DEF Decided, Suits
  <1>2. k # "tls13" /\ "FULL_HANDSHAKE" \in t
    <2> DEFINE w == {"NEGOTIATED", "FULL_HANDSHAKE"}
    <2>1. w \in SUBSET Flags /\ "NEGOTIATED" \in w /\ "FULL_HANDSHAKE" \in w /\ Defined(k, w)
      BY DEF Flags, Defined, TLS12Defined, TLS13Defined
    <2> HIDE DEF w
    <2> QED
      BY <1>1, <2>1, StatusEarly
  <1>3. u \in SUBSET Flags /\ "NEGOTIATED" \in u /\ "FULL_HANDSHAKE" \in u /\ Defined(k, u)
    BY <1>1, <1>2 DEF Defined, TLS12Defined
  <1>4. Agree(Row(k, t), Row(k, u), n)
    BY <1>1, <1>3, StatusEarly
  <1>5. t \cup u \subseteq (t \cap u) \cup {"OCSP_STATUS", "CLIENT_AUTH"}
    OBVIOUS
  <1> QED
    BY <1>3, <1>4, <1>5, SuitsToo

LEMMA RequestAdded ==
    ASSUME NEW p, NEW k, NEW t, NEW u, NEW n, Placed(p, k, t, n), u = t \cup {"CLIENT_AUTH"},
           MessageAt(k, u, n) # "CLIENT_HELLO"
    PROVE  /\ Decided(p, k, t, n) /\ u \in SUBSET Flags /\ "NEGOTIATED" \in u /\ Defined(k, u)
           /\ n < Len(Row(k, u)) /\ MessageAt(k, u, n) = Row(k, u)[n + 1]
  <1>1. t \in SUBSET Flags /\ n \in Nat
    BY PlacedRow
  <1>2. u \in SUBSET Flags
    BY <1>1 DEF Flags
  <1>3. Defined(k, u) /\ n < Len(Row(k, u)) /\ MessageAt(k, u, n) = Row(k, u)[n + 1]
    BY <1>1, <1>2, NoRow
  <1>4. ~Undecided(p, k, t, n)
    <2>1. ASSUME k = "initial", t = {} PROVE FALSE
      BY <1>3, <2>1 DEF Defined, TLS12Defined
    <2>2. ASSUME k = "tls13", t = EarlyFlags PROVE FALSE
      BY <1>3, <2>2 DEF Defined, TLS13Defined, EarlyFlags
    <2> QED
      BY <2>1, <2>2 DEF Undecided
  <1> QED
    BY <1>2, <1>3, <1>4 DEF Placed, Decided, Suits

(* The type with which a message is checked.                               *)
LEMMA Arrival ==
    ASSUME NEW p \in Peers, NEW m, m = "SERVER_CERT_REQ" => Accepts(p, m), NEW k, NEW t, NEW n, NEW u,
           k = state_machine[p], t = handshake_type[p], n = message_number[p], Placed(p, k, t, n), u = TypeOnArrival(p, m)
    PROVE  /\ Placed(p, k, u, n) /\ Agree(Row(k, t), Row(k, u), n) /\ u \cap KeptFlags = t \cap KeptFlags
           /\ p = "server" => u = t
  <1>0. n \in Nat /\ n < Len(Row(k, t)) /\ Row(k, t) \in Names /\ MessageAt(k, t, n) = Row(k, t)[n + 1] /\ Len(Row(k, t)) \in Nat
    BY PlacedRow
  <1>1. CASE p = "server" \/ (m # "SERVER_CERT_REQ" /\ (MessageAt(k, t, n) # "SERVER_CERT_STATUS" \/ m = "SERVER_CERT_STATUS"))
    <2>1. u = t
      BY <1>1 DEF TypeOnArrival, Flag
    <2> QED
      BY <1>0, <2>1, AgreeSelf
  <1>2. CASE p = "client" /\ m \notin {"SERVER_CERT_REQ", "SERVER_CERT_STATUS"} /\ MessageAt(k, t, n) = "SERVER_CERT_STATUS"
    <2>1. u = t \ {"OCSP_STATUS"}
      BY <1>2 DEF TypeOnArrival, Flag
    <2>2. Row(k, t)[n + 1] = "SERVER_CERT_STATUS"
      BY <1>0, <1>2
    <2>3. Decided(p, k, t, n)
      BY <2>2, AtUndecided DEF Placed
    <2>4. Decided(p, k, u, n) /\ Agree(Row(k, t), Row(k, u), n)
      BY <2>1, <2>2, <2>3, StatusDropped
    <2> QED
      BY <1>2, <2>1, <2>4 DEF Placed, KeptFlags
  <1>3. CASE p = "client" /\ m = "SERVER_CERT_REQ"
    <2> DEFINE w == t \cup {"CLIENT_AUTH"}
    <2>1. u = IF MessageAt(k, w, n) = "SERVER_CERT_STATUS" THEN w \ {"OCSP_STATUS"} ELSE w
      BY <1>3 DEF TypeOnArrival, Flag
    <2>2. MessageAt(k, u, n) = "SERVER_CERT_REQ"
      <3>1. MessageType(m) = MessageType(MessageAt(k, u, n))
        BY <1>3 DEF Accepts
      <3>2. MessageType(m) = "SERVER_CERT_REQ"
        BY <1>3 DEF MessageType
      <3> QED
        BY <3>1, <3>2 DEF MessageType
    <2> HIDE DEF w
    <2>3. MessageAt(k, w, n) # "CLIENT_HELLO"
      BY <2>1, <2>2
    <2>4. /\ Decided(p, k, t, n) /\ w \in SUBSET Flags /\ "NEGOTIATED" \in w /\ Defined(k, w)
          /\ n < Len(Row(k, w)) /\ MessageAt(k, w, n) = Row(k, w)[n + 1]
      BY <2>3, RequestAdded DEF w
    <2>5. t \in SUBSET Flags /\ "NEGOTIATED" \in t /\ Defined(k, t)
      BY <2>4 DEF Decided, Suits
    <2>6. CASE MessageAt(k, w, n) = "SERVER_CERT_STATUS"
      <3>1. u = w \ {"OCSP_STATUS"} /\ Row(k, w)[n + 1] = "SERVER_CERT_STATUS"
        BY <2>1, <2>4, <2>6
      <3>2. "FULL_HANDSHAKE" \in w
        <4> DEFINE f == {"NEGOTIATED", "FULL_HANDSHAKE"}
        <4>1. f \in SUBSET Flags /\ "NEGOTIATED" \in f /\ "FULL_HANDSHAKE" \in f /\ Defined(k, f)
          BY DEF Flags, Defined, TLS12Defined, TLS13Defined
        <4> HIDE DEF f
        <4> QED
          BY <1>0, <2>4, <3>1, <4>1, StatusEarly
      <3>3. "FULL_HANDSHAKE" \in t /\ u \in SUBSET Flags /\ "NEGOTIATED" \in u /\ "FULL_HANDSHAKE" \in u
        BY <2>4, <3>1, <3>2 DEF w
      <3>4. Defined(k, u)
        BY <1>0, <2>2, <3>3, NoRow
      <3>5. Agree(Row(k, w), Row(k, t), n) /\ Agree(Row(k, w), Row(k, u), n)
        BY <1>0, <2>4, <2>5, <3>1, <3>3, <3>4, StatusEarly
      <3>6. Agree(Row(k, t), Row(k, u), n)
        BY <3>5 DEF Agree
      <3>7. t \cup u \subseteq (t \cap u) \cup {"OCSP_STATUS", "CLIENT_AUTH"} /\ u \cap KeptFlags = t \cap KeptFlags
        BY <3>1 DEF w, KeptFlags
      <3>8. Decided(p, k, u, n)
        BY <2>4, <3>3, <3>4, <3>6, <3>7, SuitsToo
      <3> QED
        BY <1>3, <3>6, <3>7, <3>8 DEF Placed
    <2>7. CASE MessageAt(k, w, n) # "SERVER_CERT_STATUS"
      <3>1. u = w /\ Row(k, w)[n + 1] = "SERVER_CERT_REQ"
        BY <2>1, <2>2, <2>4, <2>7
      <3>2. n + 1 \in 1..Len(Row(k, w)) /\ (n + 1) - 1 = n
        BY <1>0, <2>4, WholeRow
      <3>3. Agree(Row(k, t), Row(k, w), (n + 1) - 1)
        BY <2>4, <2>5, <3>1, <3>2, RequestKeeps DEF w
      <3>4. Agree(Row(k, t), Row(k, w), n)
        BY <3>2, <3>3
      <3>5. t \cup w \subseteq (t \cap w) \cup {"OCSP_STATUS", "CLIENT_AUTH"} /\ w \cap KeptFlags = t \cap KeptFlags
        BY DEF w, KeptFlags
      <3>6. Decided(p, k, w, n)
        BY <2>4, <3>4, <3>5, SuitsToo
      <3> QED
        BY <1>3, <3>1, <3>4, <3>5, <3>6 DEF Placed
    <2> QED
      BY <2>6, <2>7
  <1> QED
    BY <1>1, <1>2, <1>3 DEF Peers

(* The handler of a message that is accepted, or that has waited.          *)
LEMMA Handled ==
    ASSUME cfg \in Configs, Ordinary, NEW p \in Peers, NEW k, NEW t, NEW n,
           k = state_machine[p], n = message_number[p], Placed(p, k, t, n), p = "server" => t = handshake_type[p],
           t \cap KeptFlags = handshake_type[p] \cap KeptFlags,
           NEW e, e = Row(k, t)[n + 1], e # "APPLICATION_DATA", Writer(e) # p,
           NEW m \in Arriving(p), MessageType(m) = MessageType(e), HandlerAccepts(p, m)
    PROVE  Onto(p, k, t, n, MachineAfter(p, m), TypeAfter(p, m, t))
  <1> DEFINE u == TypeAfter(p, m, t)
             l == MachineAfter(p, m)
             H == {"SERVER_HELLO", "HELLO_RETRY_MSG"}
  <1>1. e \in Known
    BY PlacedRow
  <1>2. /\ e = m \/ (p = "client" /\ e \in H /\ m \in H)
        /\ p = "server" => m \in ClientMessages
        /\ p = "client" => m \in ServerMessages
    BY <1>1, SameMessage
  <1>3. cfg \in AllConfigs /\ WellFormed(cfg) /\ (cfg.version = 12 \/ cfg.version = 13)
    BY ConfigFacts DEF AllConfigs
  <1>4. CASE m = "CLIENT_HELLO"
    <2>1. p = "server" /\ e = "CLIENT_HELLO" /\ t = handshake_type["server"] /\ n = message_number["server"]
      BY <1>2, <1>4 DEF ServerMessages, Peers
    <2>2. u = s2n_conn_set_handshake_type("server", TypeAfterClientHello("server"), cfg.psk, cfg.early = "accepted")
      BY <1>4, <2>1 DEF TypeAfter
    <2>3. l = ChosenMachine
      BY <1>4 DEF MachineAfter
    <2>4. CASE cfg.version = 12
      <3>1. u = TLS12Type("server") /\ l = "tls12"
        BY <2>2, <2>3, <2>4 DEF s2n_conn_set_handshake_type, ChosenMachine
      <3> HIDE DEF u, l
      <3> QED
        BY <2>1, <2>4, <3>1, HelloGives12 DEF u, l
    <2>5. CASE cfg.version = 13
      <3>1. TypeAfterClientHello("server") = AfterHello(t, n) /\ l = "tls13"
        BY <2>1, <2>3, <2>5 DEF TypeAfterClientHello, AfterHello, ChosenMachine
      <3>2. u = s2n_conn_set_tls13_handshake_type("server", AfterHello(t, n), cfg.psk, cfg.early = "accepted")
        BY <2>2, <2>5, <3>1 DEF s2n_conn_set_handshake_type
      <3> DEFINE acc == cfg.early = "accepted"
      <3>3. acc \in BOOLEAN /\ (acc => cfg.psk /\ ~cfg.hrr)
        BY <1>3 DEF WellFormed
      <3>4. u = s2n_conn_set_tls13_handshake_type("server", AfterHello(t, n), cfg.psk, acc)
        BY <3>2
      <3> HIDE DEF u, l, acc
      <3>5. Onto("server", k, t, n, "tls13", u)
        BY <2>1, <2>5, <3>3, <3>4, HelloGives13
      <3> QED
        BY <2>1, <3>1, <3>5 DEF u, l
    <2> QED
      BY <1>3, <2>4, <2>5
  <1>5. CASE m \in H
    <2>1. p = "client" /\ e \in H
      BY <1>2, <1>5 DEF ClientMessages, Peers
    <2>2. l = ChosenMachine
      BY <1>5 DEF MachineAfter
    <2>3. m = "HELLO_RETRY_MSG" => cfg.hrr /\ "HELLO_RETRY_REQUEST" \notin t
      <3>1. m = "HELLO_RETRY_MSG" => cfg.hrr
        BY <2>1 DEF Arriving
      <3>2. m = "HELLO_RETRY_MSG" => "HELLO_RETRY_REQUEST" \notin handshake_type[p]
        BY DEF HandlerAccepts
      <3> QED
        BY <3>1, <3>2 DEF KeptFlags
    <2>4. CASE cfg.version = 12
      <3>1. m = "SERVER_HELLO"
        BY <1>3, <1>5, <2>3, <2>4 DEF WellFormed
      <3>2. cfg.early = "no"
        BY <2>4, <3>1 DEF HandlerAccepts
      <3>3. u = TLS12Type("client") /\ l = "tls12"
        BY <2>1, <2>2, <2>4, <3>1 DEF TypeAfter, s2n_conn_set_handshake_type, ChosenMachine
      <3> HIDE DEF u, l
      <3> QED
        BY <2>1, <2>4, <3>2, <3>3, AnswerGives12 DEF u, l
    <2>5. CASE cfg.version = 13
      <3>1. l = "tls13"
        BY <2>2, <2>5 DEF ChosenMachine
      <3>2. CASE m = "HELLO_RETRY_MSG"
        <4>1. u = s2n_conn_set_tls13_handshake_type("client", t \cup {"HELLO_RETRY_REQUEST"}, FALSE, FALSE)
          BY <2>1, <2>5, <3>2 DEF TypeAfter, s2n_conn_set_handshake_type
        <4>2. cfg.early # "accepted"
          BY <1>3, <2>3, <3>2 DEF WellFormed
        <4> HIDE DEF u, l
        <4>3. \A again \in BOOLEAN, psk \in BOOLEAN :
                /\ again => cfg.hrr /\ "HELLO_RETRY_REQUEST" \notin t
                /\ u = s2n_conn_set_tls13_handshake_type("client", t \cup Flag(again, "HELLO_RETRY_REQUEST"), psk, FALSE)
                => Onto("client", k, t, n, "tls13", u)
          BY <2>1, <2>5, <4>2, AnswerGives13
        <4>4. Flag(TRUE, "HELLO_RETRY_REQUEST") = {"HELLO_RETRY_REQUEST"}
          BY DEF Flag
        <4>5. Onto("client", k, t, n, "tls13", u)
          BY <2>3, <3>2, <4>1, <4>3, <4>4
        <4> QED
          BY <2>1, <3>1, <4>5 DEF u, l
      <3>3. CASE m = "SERVER_HELLO"
        <4>1. u = s2n_conn_set_tls13_handshake_type("client", t, cfg.psk, FALSE)
          BY <2>1, <2>5, <3>3 DEF TypeAfter, s2n_conn_set_handshake_type
        <4>2. (cfg.early = "accepted" => cfg.psk) /\ cfg.psk \in BOOLEAN
          BY <1>3 DEF WellFormed, AllConfigs
        <4> HIDE DEF u, l
        <4>3. \A again \in BOOLEAN :
                ~again /\ u = s2n_conn_set_tls13_handshake_type("client", t \cup Flag(again, "HELLO_RETRY_REQUEST"), cfg.psk, FALSE)
                => Onto("client", k, t, n, "tls13", u)
          BY <2>1, <2>5, <4>2, AnswerGives13
        <4>4. t \cup Flag(FALSE, "HELLO_RETRY_REQUEST") = t
          BY DEF Flag
        <4>5. Onto("client", k, t, n, "tls13", u)
          BY <4>1, <4>3, <4>4
        <4> QED
          BY <2>1, <3>1, <4>5 DEF u, l
      <3> QED
        BY <1>5, <3>2, <3>3
    <2> QED
      BY <1>3, <2>4, <2>5
  <1>6. CASE m = "ENCRYPTED_EXTENSIONS"
    <2>1. p = "client" /\ e = m
      BY <1>2, <1>6 DEF ClientMessages, Peers
    <2>2. u = t \cup Flag(cfg.early = "accepted", "WITH_EARLY_DATA") /\ l = k
      BY <1>6 DEF TypeAfter, MachineAfter
    <2> QED
      BY <1>6, <2>1, <2>2, ExtensionsGive
  <1>7. CASE m = "CLIENT_CERT"
    <2>1. e = m /\ l = k
      BY <1>2, <1>7 DEF MachineAfter
    <2>0. Row(k, t)[n + 1] = "CLIENT_CERT"
      BY <1>7, <2>1
    <2>2. CASE ~cfg.has_cert
      <3>1. u = t \cup {"NO_CLIENT_CERT"}
        BY <1>7, <2>2 DEF TypeAfter, Flag
      <3> HIDE DEF u, l
      <3>2. Onto(p, k, t, n, k, u)
        BY <2>0, <3>1, CertGives
      <3> QED
        BY <2>1, <3>2 DEF u, l
    <2>3. CASE cfg.has_cert
      <3>1. u = t
        BY <1>7, <2>3 DEF TypeAfter, Flag
      <3>2. Decided(p, k, t, n)
        BY <2>0, CertDecided
      <3> QED
        BY <2>1, <3>1, <3>2, OtherGives
    <2> QED
      BY <2>2, <2>3
  <1>8. CASE m \notin H \cup {"CLIENT_HELLO", "ENCRYPTED_EXTENSIONS", "CLIENT_CERT"}
    <2>1. e = m
      BY <1>2, <1>8
    <2>2. u = t /\ l = k
      BY <1>8 DEF TypeAfter, MachineAfter
    <2>3. Decided(p, k, t, n)
      <3> SUFFICES ASSUME Undecided(p, k, t, n) PROVE FALSE
        BY DEF Placed
      <3>0. Row(k, t)[n + 1] \in {"CLIENT_HELLO", "CLIENT_CHANGE_CIPHER_SPEC", "SERVER_HELLO"}
        BY AtUndecided
      <3>1. e = "CLIENT_CHANGE_CIPHER_SPEC"
        BY <1>8, <2>1, <3>0
      <3>2. p = "server"
        BY <3>1, Writers DEF Peers, ClientMessages
      <3>3. n = 0 /\ Row(k, t)[1] = "CLIENT_HELLO"
        BY <3>2, AtUndecided
      <3>4. Row(k, t)[n + 1] = Row(k, t)[1]
        BY <3>3
      <3>5. e = "CLIENT_HELLO"
        BY <3>3, <3>4
      <3> QED
        BY <3>1, <3>5
    <2> QED
      BY <2>1, <2>2, <2>3, OtherGives
  <1> QED
    BY <1>4, <1>5, <1>6, <1>7, <1>8

(* The state machine advances in the row of a type it may take.            *)
LEMMA Advances ==
    ASSUME NEW p \in Peers, NEW l, NEW u, NEW n \in Nat, DOMAIN message_number = Peers, n = message_number[p],
           Row(l, u) \in Names, n + 1 < Len(Row(l, u)), Row(l, u)[Len(Row(l, u))] \notin ChangeCipherSpecs,
           s2n_advance_message(p, l, u)
    PROVE  /\ message_number'[p] = n + 1 \/ message_number'[p] = n + 2
           /\ message_number'[p] \in Nat /\ message_number'[p] < Len(Row(l, u))
  <1> DEFINE r == Row(l, u)
  <1>1. Len(r) \in Nat
    BY DEF Names
  <1>2. MessageAt(l, u, n + 1) = r[n + 2]
    BY DEF MessageAt
  <1>3. \/ message_number'[p] = n + 1
        \/ message_number'[p] = n + 2 /\ r[n + 2] \in ChangeCipherSpecs
    BY <1>2 DEF s2n_advance_message
  <1> HIDE DEF r
  <1>4. r[n + 2] \in ChangeCipherSpecs => n + 2 # Len(r)
    BY DEF r
  <1>5. n + 2 # Len(r) => n + 2 < Len(r)
    <2>1. n + 2 \in Nat /\ n + 2 <= Len(r)
      BY <1>1 DEF r
    <2> QED
      BY <1>1, <2>1, Less
  <1> QED
    BY <1>1, <1>3, <1>4, <1>5 DEF r

LEMMA FarFurther ==
    ASSUME NEW p, NEW k, NEW t, NEW n \in Nat, FarEnough(p, k, t, n)
    PROVE  FarEnough(p, k, t, n + 1)
  BY DEF FarEnough

LEMMA OntoDecided ==
    ASSUME NEW p \in Peers, NEW k, NEW t, NEW n \in Nat, NEW l, NEW u, Onto(p, k, t, n, l, u),
           DOMAIN message_number = Peers, n = message_number[p], s2n_advance_message(p, l, u)
    PROVE  Decided(p, l, u, message_number'[p])
  <1> DEFINE r == Row(l, u)
  <1>1. Suits(p, l, u) /\ FarEnough(p, l, u, n + 1) /\ n + 1 <= Len(r) /\ r[n + 1] # "APPLICATION_DATA"
    BY DEF Onto
  <1>2. Whole(r) /\ r \in Names /\ Len(r) \in Nat /\ Len(r) >= 2
    BY <1>1, Suited
  <1>3. Len(r) \in 1..Len(r) /\ n + 1 \in 1..Len(r)
    BY <1>1, <1>2
  <1>4. r[Len(r)] = "APPLICATION_DATA"
    BY <1>2, <1>3 DEF Whole, Ends
  <1>5. n + 1 # Len(r)
    BY <1>1, <1>4
  <1>6. n + 1 < Len(r)
    BY <1>1, <1>2, <1>5, Below
  <1>7. r[Len(r)] \notin ChangeCipherSpecs
    BY <1>4 DEF ChangeCipherSpecs
  <1>8. /\ message_number'[p] = n + 1 \/ message_number'[p] = n + 2
        /\ message_number'[p] \in Nat /\ message_number'[p] < Len(r)
    BY <1>2, <1>6, <1>7, Advances
  <1>9. FarEnough(p, l, u, n + 2)
    <2>1. (n + 1) \in Nat /\ (n + 1) + 1 = n + 2
      OBVIOUS
    <2> QED
      BY <1>1, <2>1, FarFurther
  <1> QED
    BY <1>1, <1>8, <1>9 DEF Decided

-----------------------------------------------------------------------------
(* The steps of a peer: its place is again one it may have, and what it    *)
(* has been through stays.                                                 *)
Kept(p) ==
  /\ Defined(state_machine'[p], handshake_type'[p])
  /\ Agree(Row(state_machine[p], handshake_type[p]), Row(state_machine'[p], handshake_type'[p]), message_number[p])

LEMMA PlacedNext ==
    ASSUME NEW p, cfg' = cfg, Placed(p, state_machine'[p], handshake_type'[p], message_number'[p])
    PROVE  Placed(p, state_machine[p], handshake_type[p], message_number[p])'
  BY DEF Placed, Undecided, Decided, Suits, FarEnough, ChosenMachine, HelloFlags

LEMMA ActiveNext ==
    ASSUME NEW p
    PROVE  ActiveMessage(p)' = MessageAt(state_machine'[p], handshake_type'[p], message_number'[p])
  BY DEF ActiveMessage

LEMMA KeptSame ==
    ASSUME NEW p, NEW k, NEW t, NEW n, Placed(p, k, t, n),
           k = state_machine[p], t = handshake_type[p], n = message_number[p],
           state_machine'[p] = k, handshake_type'[p] = t
    PROVE  Kept(p)
  <1>1. Defined(k, t) /\ Row(k, t) \in Names /\ n \in Nat /\ n <= Len(Row(k, t))
    BY PlacedRow
  <1>2. Agree(Row(k, t), Row(k, t), n)
    BY <1>1, AgreeSelf
  <1> QED
    BY <1>1, <1>2 DEF Kept

(* A peer that another one's step leaves alone.                            *)
LEMMA Untouched ==
    ASSUME NEW p \in Peers, PeerInv(p), cfg' = cfg, state_machine'[p] = state_machine[p],
           handshake_type'[p] = handshake_type[p], message_number'[p] = message_number[p],
           paused'[p] = paused[p], io'[p] = io[p], in'[p] = in[p]
    PROVE  PeerInv(p)' /\ Kept(p)
  <1>1. Placed(p, state_machine[p], handshake_type[p], message_number[p])
    BY DEF PeerInv
  <1>2. Kept(p)
    BY <1>1, KeptSame
  <1>3. Placed(p, state_machine[p], handshake_type[p], message_number[p])'
    BY <1>1, PlacedNext
  <1>4. ActiveMessage(p)' = ActiveMessage(p)
    BY ActiveNext DEF ActiveMessage
  <1>5. IsWriter(p)' <=> IsWriter(p)
    BY <1>4 DEF IsWriter
  <1>6. Waiting(p) => Waiting(p)'
    BY <1>4 DEF Waiting
  <1>7. PeerInv(p)'
    BY <1>3, <1>5, <1>6 DEF PeerInv
  <1> QED
    BY <1>2, <1>7

(* A peer whose handler does not wait and that has written nothing.        *)
LEMMA Goes ==
    ASSUME NEW p \in Peers, cfg' = cfg, Placed(p, state_machine'[p], handshake_type'[p], message_number'[p]),
           ~paused'[p], io'[p] # "written"
    PROVE  PeerInv(p)'
  <1>1. Placed(p, state_machine[p], handshake_type[p], message_number[p])'
    BY PlacedNext
  <1> QED
    BY <1>1 DEF PeerInv

(* A peer that has written the message it is at.                           *)
LEMMA HasWritten ==
    ASSUME NEW p \in Peers, NEW l, NEW u, NEW n, cfg' = cfg, Placed(p, l, u, n), Writer(Row(l, u)[n + 1]) = p,
           state_machine'[p] = l, handshake_type'[p] = u, message_number'[p] = n, in'[p] = << >>, ~paused'[p]
    PROVE  PeerInv(p)'
  <1>1. Placed(p, state_machine[p], handshake_type[p], message_number[p])'
    BY PlacedNext
  <1>2. ActiveMessage(p)' = Row(l, u)[n + 1]
    BY ActiveNext, PlacedRow
  <1>3. IsWriter(p)'
    BY <1>2 DEF IsWriter
  <1> QED
    BY <1>1, <1>3 DEF PeerInv

(* Writing the ClientHello that asks for early data.                       *)
LEMMA AsksEarly ==
    ASSUME NEW p \in Peers, NEW k, NEW t, NEW n \in Nat, n = 0, Placed(p, k, t, n),
           Writer("CLIENT_HELLO") = p, cfg.early # "no"
    PROVE  /\ t \cup EarlyFlags = EarlyFlags /\ Placed(p, "tls13", EarlyFlags, n)
           /\ Agree(Row(k, t), Row("tls13", EarlyFlags), n)
           /\ Row("tls13", EarlyFlags)[n + 1] = "CLIENT_HELLO"
  <1>1. p = "client"
    BY Writers DEF ClientMessages
  <1>2. Undecided(p, k, t, n)
    BY <1>1 DEF Placed, Decided, FarEnough
  <1>3. t \cup EarlyFlags = EarlyFlags
    BY <1>2 DEF Undecided
  <1> DEFINE r == Row("tls13", EarlyFlags)
  <1>4. r = <<"CLIENT_HELLO", "CLIENT_CHANGE_CIPHER_SPEC", "SERVER_HELLO">> /\ r \in Names
    BY OpenRows
  <1> HIDE DEF r
  <1>5. n < Len(r) /\ r[n + 1] = "CLIENT_HELLO"
    BY <1>4
  <1>6. Undecided(p, "tls13", EarlyFlags, n)
    BY <1>1, <1>5 DEF Undecided, r
  <1>7. Row(k, t) \in Names
    BY PlacedRow
  <1>8. Agree(Row(k, t), r, n)
    BY <1>4, <1>7, NoAgreement
  <1> QED
    BY <1>3, <1>5, <1>6, <1>8 DEF Placed, r

LEMMA Writes ==
    ASSUME RecordsInv, NEW p \in Peers, PeerInv(p), s2n_handshake_write_io(p)
    PROVE  PeerInv(p)' /\ Kept(p)
  <1> DEFINE k == state_machine[p]
             t == handshake_type[p]
             n == message_number[p]
             m == ActiveMessage(p)
  <1>1. /\ cfg' = cfg /\ message_number'[p] = n /\ in'[p] = << >> /\ ~paused'[p]
        /\ Writer(m) = p /\ Placed(p, k, t, n)
    BY DEF s2n_handshake_write_io, MayWrite, IsWriter, PeerInv
  <1>2. m = Row(k, t)[n + 1] /\ Defined(k, t)
    BY <1>1, PlacedRow DEF ActiveMessage
  <1>3. \/ state_machine'[p] = k /\ handshake_type'[p] = t
        \/ /\ handshake_type'[p] = TypeAfterSend(p, m)
           /\ state_machine'[p] = IF AsksForEarlyData(m, p) THEN "tls13" ELSE k
    BY DEF s2n_handshake_write_io, RecordsInv
  <1> HIDE DEF k, t, n, m
  <1>4. CASE state_machine'[p] = k /\ handshake_type'[p] = t
    <2>1. PeerInv(p)'
      BY <1>1, <1>2, <1>4, HasWritten
    <2>2. Kept(p)
      BY <1>1, <1>4, KeptSame DEF k, t, n
    <2> QED
      BY <2>1, <2>2
  <1>5. CASE /\ AsksForEarlyData(m, p)
             /\ handshake_type'[p] = TypeAfterSend(p, m) /\ state_machine'[p] = "tls13"
    <2>1. m = "CLIENT_HELLO" /\ cfg.early # "no" /\ n = 0
      BY <1>5 DEF AsksForEarlyData, n
    <2>2. /\ t \cup EarlyFlags = EarlyFlags /\ Placed(p, "tls13", EarlyFlags, n)
          /\ Agree(Row(k, t), Row("tls13", EarlyFlags), n)
          /\ Row("tls13", EarlyFlags)[n + 1] = "CLIENT_HELLO"
      BY <1>1, <2>1, AsksEarly
    <2>3. handshake_type'[p] = EarlyFlags
      BY <1>5, <2>1, <2>2 DEF TypeAfterSend, Flag, t
    <2>4. PeerInv(p)'
      BY <1>1, <1>5, <2>1, <2>2, <2>3, HasWritten
    <2>5. Kept(p)
      BY <1>5, <2>2, <2>3, OpenRows DEF Kept, k, t, n
    <2> QED
      BY <2>4, <2>5
  <1>6. CASE /\ ~AsksForEarlyData(m, p)
             /\ handshake_type'[p] = TypeAfterSend(p, m) /\ state_machine'[p] = k
    <2>1. CASE m = "CLIENT_CERT" /\ ~cfg.has_cert
      <3> DEFINE u == t \cup {"NO_CLIENT_CERT"}
      <3>1. handshake_type'[p] = u
        BY <1>6, <2>1 DEF TypeAfterSend, Flag, t
      <3>2. Row(k, t)[n + 1] = "CLIENT_CERT"
        BY <1>2, <2>1
      <3>3. Onto(p, k, t, n, k, u) /\ Decided(p, k, u, n) /\ Row(k, u)[n + 1] = "CLIENT_CERT"
        BY <1>1, <3>2, CertGives
      <3> HIDE DEF u
      <3>4. PeerInv(p)'
        BY <1>1, <1>6, <2>1, <3>1, <3>3, HasWritten DEF Placed
      <3>5. Kept(p)
        BY <1>6, <3>1, <3>3 DEF Kept, Onto, Suits, k, t, n
      <3> QED
        BY <3>4, <3>5
    <2>2. CASE ~(m = "CLIENT_CERT" /\ ~cfg.has_cert)
      <3>1. handshake_type'[p] = t
        BY <1>6, <2>2 DEF TypeAfterSend, Flag, t
      <3> QED
        BY <1>4, <1>6, <3>1
    <2> QED
      BY <2>1, <2>2
  <1> QED
    BY <1>3, <1>4, <1>5, <1>6

(* A handler that signs in the background, and its end.                    *)
LEMMA WaitsToWrite ==
    ASSUME RecordsInv, NEW p \in Peers, PeerInv(p), WriteBlocks(p) \/ RetryWrite(p)
    PROVE  PeerInv(p)' /\ Kept(p)
  <1>1. /\ cfg' = cfg /\ state_machine' = state_machine /\ handshake_type' = handshake_type
        /\ message_number' = message_number /\ IsWriter(p) /\ io'[p] # "written"
    BY DEF WriteBlocks, RetryWrite, MayWrite, RecordsInv
  <1>2. Placed(p, state_machine[p], handshake_type[p], message_number[p])
    BY DEF PeerInv
  <1>3. Kept(p)
    BY <1>1, <1>2, KeptSame
  <1>4. Placed(p, state_machine[p], handshake_type[p], message_number[p])'
    BY <1>1, <1>2, PlacedNext
  <1>5. ActiveMessage(p)' = ActiveMessage(p)
    BY <1>1, ActiveNext DEF ActiveMessage
  <1>6. IsWriter(p)'
    BY <1>1, <1>5 DEF IsWriter
  <1>7. PeerInv(p)'
    BY <1>1, <1>4, <1>6 DEF PeerInv
  <1> QED
    BY <1>3, <1>7

(* The state machine advances past a message that does not change it: one  *)
(* that was written, or a change_cipher_spec that was expected.            *)
LEMMA Passes ==
    ASSUME RecordsInv, NEW p \in Peers, PeerInv(p), cfg' = cfg, state_machine' = state_machine,
           handshake_type' = handshake_type, s2n_advance_message(p, state_machine[p], handshake_type[p]),
           ActiveMessage(p) # "APPLICATION_DATA",
           IsWriter(p) \/ (ActiveMessage(p) \in ChangeCipherSpecs /\ ~IsWriter(p)),
           ~paused'[p], io'[p] # "written"
    PROVE  PeerInv(p)' /\ Kept(p)
  <1> DEFINE k == state_machine[p]
             t == handshake_type[p]
             n == message_number[p]
             e == ActiveMessage(p)
             nn == message_number'[p]
  <1>1. Placed(p, k, t, n) /\ DOMAIN message_number = Peers
    BY DEF PeerInv, RecordsInv
  <1>2. e = Row(k, t)[n + 1] /\ n \in Nat /\ Row(k, t) \in Names /\ Len(Row(k, t)) \in Nat /\ n + 1 <= Len(Row(k, t))
    BY <1>1, PlacedRow DEF ActiveMessage
  <1>3. Writer(e) = p \/ (e \in ChangeCipherSpecs /\ Writer(e) # p)
    BY DEF IsWriter
  <1>4. s2n_advance_message(p, k, t) /\ e # "APPLICATION_DATA"
    OBVIOUS
  <1>5. Kept(p)
    BY <1>1, KeptSame
  <1> HIDE DEF k, t, n, e, nn
  <1>6. Placed(p, k, t, nn)
    <2>1. CASE Decided(p, k, t, n)
      <3>1. Onto(p, k, t, n, k, t)
        BY <1>2, <1>4, <2>1, OtherGives
      <3>2. Decided(p, k, t, nn)
        BY <1>1, <1>2, <1>4, <3>1, OntoDecided DEF n, nn
      <3> QED
        BY <3>2 DEF Placed
    <2>2. CASE Undecided(p, k, t, n)
      <3>0. /\ Row(k, t)[n + 1] \in {"CLIENT_HELLO", "CLIENT_CHANGE_CIPHER_SPEC", "SERVER_HELLO"}
            /\ Row(k, t)[n + 1] = "SERVER_HELLO" => n = Len(Row(k, t)) - 1
            /\ p = "server" => n = 0 /\ Row(k, t)[1] = "CLIENT_HELLO"
            /\ Row(k, t)[Len(Row(k, t))] = "SERVER_HELLO"
        BY <2>2, AtUndecided
      <3>1. /\ e \in {"CLIENT_HELLO", "CLIENT_CHANGE_CIPHER_SPEC", "SERVER_HELLO"}
            /\ e = "SERVER_HELLO" => n = Len(Row(k, t)) - 1
            /\ p = "server" => n = 0 /\ Row(k, t)[1] = "CLIENT_HELLO"
            /\ Row(k, t)[Len(Row(k, t))] = "SERVER_HELLO"
        BY <1>2, <3>0
      <3>2. p = "client"
        <4> SUFFICES ASSUME p = "server" PROVE FALSE
          BY DEF Peers
        <4>1. n = 0 /\ Row(k, t)[1] = "CLIENT_HELLO"
          BY <3>1
        <4>2. Row(k, t)[n + 1] = Row(k, t)[1]
          BY <4>1
        <4>3. e = "CLIENT_HELLO"
          BY <1>2, <4>1, <4>2
        <4> QED
          BY <1>3, <4>3, Writers DEF ServerMessages, ChangeCipherSpecs
      <3>3. e # "SERVER_HELLO"
        BY <1>3, <3>2, Writers DEF ClientMessages, ChangeCipherSpecs
      <3>4. n + 1 # Len(Row(k, t))
        BY <1>2, <3>1, <3>3
      <3>5. n + 1 < Len(Row(k, t))
        BY <1>2, <3>4, Below
      <3>6. Row(k, t)[Len(Row(k, t))] \notin ChangeCipherSpecs
        BY <3>1 DEF ChangeCipherSpecs
      <3>7. nn \in Nat /\ nn < Len(Row(k, t))
        BY <1>1, <1>2, <1>4, <3>5, <3>6, Advances DEF n, nn
      <3>8. Undecided(p, k, t, nn)
        BY <2>2, <3>2, <3>7 DEF Undecided
      <3> QED
        BY <3>8 DEF Placed
    <2> QED
      BY <1>1, <2>1, <2>2 DEF Placed
  <1>7. PeerInv(p)'
    BY <1>6, Goes DEF k, t, nn
  <1> QED
    BY <1>5, <1>7

LEMMA FinishesWriting ==
    ASSUME RecordsInv, NEW p \in Peers, PeerInv(p), FinishWrite(p)
    PROVE  PeerInv(p)' /\ Kept(p)
  <1>1. /\ cfg' = cfg /\ state_machine' = state_machine /\ handshake_type' = handshake_type
        /\ s2n_advance_message(p, state_machine[p], handshake_type[p]) /\ io'[p] = "wiped" /\ paused' = paused
        /\ io[p] = "written"
    BY DEF FinishWrite, RecordsInv
  <1>2. IsWriter(p) /\ ~paused[p]
    BY <1>1 DEF PeerInv
  <1>3. ActiveMessage(p) # "APPLICATION_DATA"
    BY <1>2, Written DEF Messages, ClientMessages, ServerMessages
  <1>4. ~paused'[p] /\ io'[p] # "written"
    BY <1>1, <1>2
  <1>5. IsWriter(p) \/ (ActiveMessage(p) \in ChangeCipherSpecs /\ ~IsWriter(p))
    BY <1>2 DEF IsWriter
  <1>6. /\ cfg' = cfg /\ state_machine' = state_machine /\ handshake_type' = handshake_type
        /\ s2n_advance_message(p, state_machine[p], handshake_type[p])
    BY <1>1
  <1> QED
    BY <1>3, <1>4, <1>5, <1>6, Passes

LEMMA ReadsCCS ==
    ASSUME RecordsInv, NEW p \in Peers, PeerInv(p), ReadCCS(p)
    PROVE  PeerInv(p)' /\ Kept(p)
  <1>1. /\ cfg' = cfg /\ state_machine' = state_machine /\ handshake_type' = handshake_type
        /\ io' = io /\ paused' = paused /\ in' = in /\ io[p] = "wiped" /\ ~paused[p]
    BY DEF ReadCCS, CCSArrives, MayRead
  <1>2. CASE ExpectsCCS(p)
    <2>1. s2n_advance_message(p, state_machine[p], handshake_type[p])
      BY <1>2 DEF ReadCCS
    <2>2. ActiveMessage(p) \in ChangeCipherSpecs /\ ~IsWriter(p)
      BY <1>2 DEF ExpectsCCS
    <2>3. ActiveMessage(p) # "APPLICATION_DATA"
      BY <2>2 DEF ChangeCipherSpecs
    <2> QED
      BY <1>1, <2>1, <2>2, <2>3, Passes
  <1>3. CASE ~ExpectsCCS(p)
    <2>1. message_number' = message_number
      BY <1>3 DEF ReadCCS
    <2> QED
      BY <1>1, <2>1, Untouched
  <1> QED
    BY <1>2, <1>3

LEMMA ReadsRecord ==
    ASSUME RecordsInv, NEW p \in Peers, PeerInv(p), s2n_read_full_record(p)
    PROVE  PeerInv(p)' /\ Kept(p)
  <1>1. /\ cfg' = cfg /\ state_machine' = state_machine /\ handshake_type' = handshake_type
        /\ message_number' = message_number /\ io'[p] = "wiped" /\ ~paused'[p]
    BY DEF s2n_read_full_record, MayRead
  <1>2. Placed(p, state_machine[p], handshake_type[p], message_number[p])
    BY DEF PeerInv
  <1>3. PeerInv(p)'
    BY <1>1, <1>2, Goes
  <1>4. Kept(p)
    BY <1>1, <1>2, KeptSame
  <1> QED
    BY <1>3, <1>4

LEMMA NextToRead ==
    ASSUME RecordsInv, NEW p \in Peers, in[p] # << >>
    PROVE  Head(in[p]) \in Arriving(p) /\ Tail(in[p]) \in Seq(Arriving(p))
  <1>1. in[p] \in Seq(Arriving(p))
    BY DEF RecordsInv
  <1> QED
    BY <1>1

(* The handler of a message ends and the state machine advances.           *)
LEMMA Finishes ==
    ASSUME RecordsInv, Ordinary, NEW p \in Peers, cfg' = cfg, ~paused'[p],
           NEW k, NEW t, NEW n, NEW u, k = state_machine[p], t = handshake_type[p], n = message_number[p],
           Placed(p, k, u, n), Agree(Row(k, t), Row(k, u), n), u \cap KeptFlags = t \cap KeptFlags,
           p = "server" => u = t,
           NEW e, e = Row(k, u)[n + 1], e # "APPLICATION_DATA", Writer(e) # p,
           NEW m \in Arriving(p), MessageType(m) = MessageType(e), HandlerAccepts(p, m),
           s2n_finish_read(p, m, MachineAfter(p, m), TypeAfter(p, m, u))
    PROVE  PeerInv(p)' /\ Kept(p)
  <1> DEFINE l == MachineAfter(p, m)
             v == TypeAfter(p, m, u)
  <1>1. cfg \in Configs /\ DOMAIN message_number = Peers /\ n \in Nat
    BY PlacedRow DEF RecordsInv
  <1>2. Onto(p, k, u, n, l, v)
    BY <1>1, Handled
  <1>3. /\ s2n_advance_message(p, l, v) /\ io'[p] # "written"
        /\ handshake_type'[p] = v /\ state_machine'[p] = l
    BY DEF s2n_finish_read, RecordsInv
  <1> HIDE DEF l, v
  <1>4. Decided(p, l, v, message_number'[p])
    BY <1>1, <1>2, <1>3, OntoDecided
  <1>5. PeerInv(p)'
    BY <1>3, <1>4, Goes DEF Placed
  <1>6. Agree(Row(k, u), Row(l, v), n) /\ Defined(l, v)
    BY <1>2 DEF Onto, Suits
  <1>7. Agree(Row(k, t), Row(l, v), n)
    BY <1>6, AgreeTwice
  <1>8. Kept(p)
    BY <1>3, <1>6, <1>7 DEF Kept
  <1> QED
    BY <1>5, <1>8

LEMMA Reads ==
    ASSUME RecordsInv, Ordinary, NEW p \in Peers, PeerInv(p), ReadMessage(p)
    PROVE  PeerInv(p)' /\ Kept(p)
  <1> DEFINE k == state_machine[p]
             t == handshake_type[p]
             n == message_number[p]
             m == Head(in[p])
             u == TypeOnArrival(p, m)
             e == MessageAt(k, u, n)
  <1>1. /\ in[p] # << >> /\ Accepts(p, m) /\ ~paused'[p] /\ cfg' = cfg
        /\ s2n_finish_read(p, m, MachineAfter(p, m), TypeAfter(p, m, u))
    BY DEF ReadMessage, InRecord
  <1>2. m \in Arriving(p) /\ Placed(p, k, t, n)
    BY <1>1, NextToRead DEF PeerInv
  <1>3. /\ e # "APPLICATION_DATA" /\ MessageType(m) = MessageType(e) /\ Writer(e) # p /\ HandlerAccepts(p, m)
    BY <1>1 DEF Accepts
  <1>4. k = state_machine[p] /\ t = handshake_type[p] /\ n = message_number[p] /\ u = TypeOnArrival(p, m)
    OBVIOUS
  <1> HIDE DEF k, t, n, m, u
  <1>5. /\ Placed(p, k, u, n) /\ Agree(Row(k, t), Row(k, u), n) /\ u \cap KeptFlags = t \cap KeptFlags
        /\ p = "server" => u = t
    BY <1>1, <1>2, <1>4, Arrival
  <1>6. e = Row(k, u)[n + 1]
    BY <1>5, PlacedRow
  <1> HIDE DEF e
  <1> QED
    BY <1>1, <1>2, <1>3, <1>4, <1>5, <1>6, Finishes

LEMMA IgnoresRequest ==
    ASSUME RecordsInv, NEW p \in Peers, PeerInv(p), IgnoreHelloRequest(p)
    PROVE  PeerInv(p)' /\ Kept(p)
  <1> DEFINE k == state_machine[p]
             t == handshake_type[p]
             n == message_number[p]
             m == "HELLO_REQUEST"
             u == TypeOnArrival(p, m)
  <1>1. /\ in[p] # << >> /\ ~paused'[p] /\ cfg' = cfg /\ io' = io
        /\ handshake_type'[p] = u /\ state_machine'[p] = k /\ message_number'[p] = n
    BY DEF IgnoreHelloRequest, InRecord, RecordsInv
  <1>2. Placed(p, k, t, n) /\ io'[p] # "written"
    BY <1>1 DEF PeerInv
  <1>3. k = state_machine[p] /\ t = handshake_type[p] /\ n = message_number[p] /\ u = TypeOnArrival(p, m)
        /\ m # "SERVER_CERT_REQ"
    OBVIOUS
  <1> HIDE DEF k, t, n, m, u
  <1>4. Placed(p, k, u, n) /\ Agree(Row(k, t), Row(k, u), n)
    BY <1>2, <1>3, Arrival
  <1>5. Defined(k, u)
    BY <1>4, PlacedRow
  <1>6. Kept(p)
    BY <1>1, <1>3, <1>4, <1>5 DEF Kept
  <1>7. PeerInv(p)'
    BY <1>1, <1>2, <1>4, Goes
  <1> QED
    BY <1>6, <1>7

(* The handler that waited ends.                                           *)
LEMMA RetriesRead ==
    ASSUME RecordsInv, Ordinary, NEW p \in Peers, PeerInv(p), RetryRead(p)
    PROVE  PeerInv(p)' /\ Kept(p)
  <1> DEFINE k == state_machine[p]
             t == handshake_type[p]
             n == message_number[p]
             m == ActiveMessage(p)
  <1>1. /\ paused[p] /\ ~IsWriter(p) /\ ~paused'[p] /\ cfg' = cfg
        /\ s2n_finish_read(p, m, MachineAfter(p, m), TypeAfter(p, m, t))
    BY DEF RetryRead, RecordsInv
  <1>2. Placed(p, k, t, n) /\ Waiting(p) /\ Writer(m) # p
    BY <1>1 DEF PeerInv, IsWriter
  <1>3. m = Row(k, t)[n + 1] /\ Row(k, t) \in Names /\ n \in Nat /\ n <= Len(Row(k, t))
    BY <1>2, PlacedRow DEF ActiveMessage
  <1>4. m \in {"CLIENT_KEY", "SERVER_CERT", "CLIENT_CERT", "CLIENT_HELLO"} /\ (m = "CLIENT_CERT" => cfg.has_cert)
    BY <1>2 DEF Waiting
  <1>5. m \in Arriving(p) /\ m # "APPLICATION_DATA"
    <2>1. CASE p = "server"
      <3>1. m \in ClientMessages
        BY <1>2, <1>4, <2>1, Writers DEF ClientMessages, ServerMessages
      <3> QED
        BY <1>4, <2>1, <3>1 DEF Arriving
    <2>2. CASE p = "client"
      <3>1. m = "SERVER_CERT"
        BY <1>2, <1>4, <2>2, Writers DEF ClientMessages, ServerMessages
      <3> QED
        BY <2>2, <3>1 DEF Arriving, ServerMessages
    <2> QED
      BY <2>1, <2>2 DEF Peers
  <1>6. HandlerAccepts(p, m)
    BY <1>4 DEF HandlerAccepts
  <1>7. Agree(Row(k, t), Row(k, t), n)
    BY <1>3, AgreeSelf
  <1>8. k = state_machine[p] /\ t = handshake_type[p] /\ n = message_number[p]
    OBVIOUS
  <1> HIDE DEF k, t, n, m
  <1> QED
    BY <1>1, <1>2, <1>3, <1>5, <1>6, <1>7, <1>8, Finishes

(* A handler waits in the message it was given.                            *)
LEMMA Waits ==
    ASSUME NEW p \in Peers, cfg' = cfg, NEW l, NEW v, NEW n, Placed(p, l, v, n), n = message_number[p],
           NEW m, Row(l, v)[n + 1] = m, BlocksReading(p, m),
           state_machine'[p] = l, handshake_type'[p] = v, message_number'[p] = n, io'[p] # "written"
    PROVE  PeerInv(p)'
  <1>1. Placed(p, state_machine[p], handshake_type[p], message_number[p])'
    BY PlacedNext
  <1>2. ActiveMessage(p)' = m
    BY ActiveNext, PlacedRow
  <1>3. \/ m \in {"CLIENT_KEY", "SERVER_CERT"}
        \/ m = "CLIENT_CERT" /\ cfg.has_cert
        \/ m = "CLIENT_HELLO" /\ n = 0
    BY DEF BlocksReading
  <1>4. Waiting(p)'
    BY <1>2, <1>3 DEF Waiting
  <1> QED
    BY <1>1, <1>4 DEF PeerInv

(* The server waits for the session cache, with a type that will be        *)
(* completed, or for the application's word on early data.                 *)
LEMMA WaitsForCache ==
    ASSUME cfg \in Configs, cfg.version = 12, cfg.server_auth = "none", NEW n \in Nat, n = 0,
           NEW v, v = TLS12TypeBeforeLookup("server")
    PROVE  Placed("server", "tls12", v, n) /\ Row("tls12", v)[n + 1] = "CLIENT_HELLO"
  <1>1. v = {"NEGOTIATED"} \cup Flag(cfg.npn, "WITH_NPN") \cup Flag(cfg.ticket, "WITH_SESSION_TICKET")
    BY DEF TLS12TypeBeforeLookup, ExpectsCertReq, Flag
  <1>2. "NEGOTIATED" \in v /\ v \subseteq {"NEGOTIATED", "WITH_SESSION_TICKET", "WITH_NPN"}
    BY <1>1 DEF Flag
  <1>3. Suits("server", "tls12", v)
    BY <1>2 DEF Suits, Defined, TLS12Defined, ChosenMachine, Flags
  <1>4. /\ Len(Row("tls12", v)) \in Nat /\ Len(Row("tls12", v)) >= 2
        /\ Row("tls12", v)[1] = "CLIENT_HELLO"
    BY <1>3, Suited
  <1>5. FarEnough("server", "tls12", v, n)
    BY DEF FarEnough
  <1>6. n < Len(Row("tls12", v)) /\ Row("tls12", v)[n + 1] = Row("tls12", v)[1]
    BY <1>4
  <1> QED
    BY <1>3, <1>4, <1>5, <1>6 DEF Placed, Decided

LEMMA WaitsForEarlyData ==
    ASSUME cfg \in Configs, cfg.version = 13, ~cfg.hrr, cfg.early # "no", NEW k, NEW t, NEW n \in Nat, n = 0,
           Placed("server", k, t, n), t = handshake_type["server"], n = message_number["server"],
           NEW v, v = TypeAfterClientHello("server")
    PROVE  /\ v = EarlyFlags /\ Placed("server", "tls13", v, n) /\ Row("tls13", v)[n + 1] = "CLIENT_HELLO"
           /\ Agree(Row(k, t), Row("tls13", v), n)
  <1>1. Undecided("server", k, t, n)
    BY DEF Placed, Decided, Suits, FarEnough, ChosenMachine
  <1>2. v = t \cup EarlyFlags
    BY DEF TypeAfterClientHello, Flag
  <1>3. v = EarlyFlags
    BY <1>1, <1>2 DEF Undecided
  <1> DEFINE r == Row("tls13", EarlyFlags)
  <1>4. r = <<"CLIENT_HELLO", "CLIENT_CHANGE_CIPHER_SPEC", "SERVER_HELLO">> /\ r \in Names
    BY OpenRows
  <1> HIDE DEF r
  <1>5. n < Len(r) /\ r[n + 1] = "CLIENT_HELLO"
    BY <1>4
  <1>6. Undecided("server", "tls13", EarlyFlags, n)
    BY <1>5 DEF Undecided, r, ChosenMachine
  <1>7. Row(k, t) \in Names
    BY PlacedRow
  <1>8. Agree(Row(k, t), r, n)
    BY <1>4, <1>7, NoAgreement
  <1> QED
    BY <1>3, <1>5, <1>6, <1>8 DEF Placed, r

LEMMA ReadWaits ==
    ASSUME RecordsInv, NEW p \in Peers, PeerInv(p), ReadBlocks(p)
    PROVE  PeerInv(p)' /\ Kept(p)
  <1> DEFINE k == state_machine[p]
             t == handshake_type[p]
             n == message_number[p]
             m == Head(in[p])
             u == TypeOnArrival(p, m)
             e == MessageAt(k, u, n)
             l == state_machine'[p]
             v == handshake_type'[p]
  <1>1. /\ in[p] # << >> /\ Accepts(p, m) /\ BlocksReading(p, m) /\ cfg' = cfg
        /\ message_number'[p] = n /\ io'[p] # "written"
    BY DEF ReadBlocks, InRecord, RecordsInv
  <1>2. m \in Arriving(p) /\ Placed(p, k, t, n) /\ cfg \in Configs
    BY <1>1, NextToRead DEF PeerInv, RecordsInv
  <1>3. /\ e # "APPLICATION_DATA" /\ MessageType(m) = MessageType(e) /\ Writer(e) # p
    BY <1>1 DEF Accepts
  <1>4. \/ l = k /\ v = u
        \/ /\ m = "CLIENT_HELLO" /\ cfg.version = 12 /\ cfg.server_auth = "none"
           /\ l = "tls12" /\ v = TLS12TypeBeforeLookup(p)
        \/ /\ m = "CLIENT_HELLO" /\ cfg.psk /\ ~cfg.hrr /\ cfg.early # "no"
           /\ l = "tls13" /\ v = TypeAfterClientHello(p)
    <2>1. PICK x \in WhileBlocked(p, m) : l = x[1] /\ v = x[2]
      BY DEF ReadBlocks, RecordsInv
    <2>2. \/ x = << k, u >>
          \/ /\ m = "CLIENT_HELLO" /\ cfg.version = 12 /\ cfg.server_auth = "none"
             /\ x = << "tls12", TLS12TypeBeforeLookup(p) >>
          \/ /\ m = "CLIENT_HELLO" /\ cfg.psk /\ ~cfg.hrr /\ cfg.early # "no"
             /\ x = << "tls13", TypeAfterClientHello(p) >>
      BY <2>1 DEF WhileBlocked
    <2> QED
      BY <2>1, <2>2
  <1>5. k = state_machine[p] /\ t = handshake_type[p] /\ n = message_number[p] /\ u = TypeOnArrival(p, m)
    OBVIOUS
  <1>6. l = state_machine'[p] /\ v = handshake_type'[p]
    OBVIOUS
  <1>7. n \in Nat /\ Row(k, t) \in Names
    BY <1>2, PlacedRow
  <1> HIDE DEF k, t, n, m, u, l, v
  <1>8. m = "CLIENT_HELLO" => p = "server" /\ n = 0
    <2>1. m = "CLIENT_HELLO" => n = 0
      BY <1>1, <1>5 DEF BlocksReading
    <2>2. m = "CLIENT_HELLO" => p # "client"
      BY <1>2 DEF Arriving, ServerMessages
    <2> QED
      BY <2>1, <2>2 DEF Peers
  <1>9. CASE l = k /\ v = u
    <2>1. Placed(p, k, u, n) /\ Agree(Row(k, t), Row(k, u), n)
      BY <1>1, <1>2, <1>5, Arrival
    <2>2. e = Row(k, u)[n + 1] /\ e \in Known /\ Defined(k, u)
      BY <2>1, PlacedRow
    <2> HIDE DEF e
    <2>3. e = m
      <3>1. m \notin {"SERVER_HELLO", "HELLO_RETRY_MSG"}
        BY <1>1 DEF BlocksReading
      <3> QED
        BY <1>2, <1>3, <2>2, <3>1, SameMessage
    <2>4. PeerInv(p)'
      BY <1>1, <1>5, <1>6, <1>9, <2>1, <2>2, <2>3, Waits
    <2>5. Kept(p)
      BY <1>5, <1>6, <1>9, <2>1, <2>2 DEF Kept
    <2> QED
      BY <2>4, <2>5
  <1>10. CASE /\ m = "CLIENT_HELLO" /\ cfg.version = 12 /\ cfg.server_auth = "none"
              /\ l = "tls12" /\ v = TLS12TypeBeforeLookup(p)
    <2>1. p = "server" /\ n = 0
      BY <1>8, <1>10
    <2>2. Placed(p, l, v, n) /\ Row(l, v)[n + 1] = "CLIENT_HELLO"
      BY <1>2, <1>7, <1>10, <2>1, WaitsForCache
    <2>3. Row(l, v) \in Names /\ Defined(l, v)
      BY <2>2, PlacedRow
    <2>4. Agree(Row(k, t), Row(l, v), n)
      BY <1>7, <2>1, <2>3, NoAgreement
    <2>5. PeerInv(p)'
      BY <1>1, <1>5, <1>6, <1>10, <2>2, Waits
    <2>6. Kept(p)
      BY <1>5, <1>6, <2>3, <2>4 DEF Kept
    <2> QED
      BY <2>5, <2>6
  <1>11. CASE /\ m = "CLIENT_HELLO" /\ cfg.psk /\ ~cfg.hrr /\ cfg.early # "no"
              /\ l = "tls13" /\ v = TypeAfterClientHello(p)
    <2>1. p = "server" /\ n = 0
      BY <1>8, <1>11
    <2>2. cfg.version = 13
      BY <1>2, <1>11, ConfigFacts DEF WellFormed, AllConfigs
    <2>3. Placed(p, l, v, n) /\ Row(l, v)[n + 1] = "CLIENT_HELLO" /\ Agree(Row(k, t), Row(l, v), n)
      BY <1>2, <1>5, <1>7, <1>11, <2>1, <2>2, WaitsForEarlyData
    <2>4. Defined(l, v)
      BY <2>3, PlacedRow
    <2>5. PeerInv(p)'
      BY <1>1, <1>5, <1>6, <1>11, <2>3, Waits
    <2>6. Kept(p)
      BY <1>5, <1>6, <2>3, <2>4 DEF Kept
    <2> QED
      BY <2>5, <2>6
  <1> QED
    BY <1>4, <1>9, <1>10, <1>11

-----------------------------------------------------------------------------
(* What is on its way.                                                     *)

(* A server sends a HelloRetryRequest only if the key share needs one.     *)
LEMMA RetryForReason ==
    ASSUME NEW k, NEW t, NEW n, Placed("server", k, t, n), Row(k, t)[n + 1] = "HELLO_RETRY_MSG"
    PROVE  cfg.hrr
  <1>1. n \in Nat /\ n + 1 \in 1..Len(Row(k, t)) /\ Row(k, t) \in Names
    BY PlacedRow
  <1>2. Decided("server", k, t, n)
    BY AtUndecided DEF Placed, Peers
  <1>3. Suits("server", k, t)
    BY <1>2 DEF Decided
  <1>4. "NEGOTIATED" \in t /\ Row(k, t) = IF k = "tls13" THEN TLS13Row(t) ELSE TLS12Row(t)
    BY <1>3, Suited
  <1>5. CASE "HELLO_RETRY_REQUEST" \in t
    BY <1>3, <1>5 DEF Suits
  <1>6. CASE "HELLO_RETRY_REQUEST" \notin t /\ k = "tls13"
    <2> DEFINE b == Hello13(t) \o <<"SERVER_HELLO">>
               i == n + 1
    <2>1. Grown(TLS13Row(t), b, {"SERVER_HELLO", "HELLO_RETRY_MSG"})
      BY <1>4, <1>6, Opening13 DEF Retry
    <2>2. i \in 1..Len(TLS13Row(t)) /\ TLS13Row(t)[i] = "HELLO_RETRY_MSG"
      BY <1>1, <1>4, <1>6
    <2> HIDE DEF b, i
    <2>3. i \in 1..Len(b) /\ b[i] = "HELLO_RETRY_MSG"
      BY <2>1, <2>2, GrownIn
    <2>4. Lacks(b, {"HELLO_RETRY_MSG"})
      <3> DEFINE X == {"HELLO_RETRY_MSG"}
                 c == CCS_C("EARLY_CLIENT_CCS" \in t)
      <3>1. <<"CLIENT_HELLO">> \in Names /\ <<"SERVER_HELLO">> \in Names
        BY Literals, KnownNames
      <3>2. c \in Names
        BY CcsNames
      <3>3. Lacks(<<"CLIENT_HELLO">>, X) /\ Lacks(<<"SERVER_HELLO">>, X) /\ Lacks(c, X)
        BY LacksPieces DEF CCS_C
      <3> HIDE DEF c, X
      <3>4. <<"CLIENT_HELLO">> \o c \in Names /\ Lacks(<<"CLIENT_HELLO">> \o c, X)
        BY <3>1, <3>2, <3>3, LacksJoin
      <3>5. Lacks(Hello13(t) \o <<"SERVER_HELLO">>, X)
        BY <3>1, <3>3, <3>4, LacksJoin DEF Hello13, c
      <3> QED
        BY <3>5 DEF b, X
    <2> QED
      BY <2>3, <2>4 DEF Lacks
  <1>7. CASE k # "tls13"
    <2> DEFINE i == n + 1
               X == {"CLIENT_HELLO", "SERVER_HELLO", "HELLO_RETRY_MSG", "ENCRYPTED_EXTENSIONS"}
    <2>1. Grown(TLS12Row(t), Hellos12, X)
      BY <1>4, HellosFirst12
    <2>2. i \in 1..Len(TLS12Row(t)) /\ TLS12Row(t)[i] = "HELLO_RETRY_MSG" /\ TLS12Row(t)[i] \in X
      BY <1>1, <1>4, <1>7
    <2> HIDE DEF i, X
    <2>3. i \in 1..Len(Hellos12) /\ Hellos12[i] = "HELLO_RETRY_MSG"
      BY <2>1, <2>2, GrownIn
    <2>4. i = 1 \/ i = 2
      BY <2>3, HellosAre
    <2> QED
      BY <2>3, <2>4, HellosAre
  <1> QED
    BY <1>5, <1>6, <1>7

LEMMA MayArrive ==
    ASSUME NEW p \in Peers, PeerInv(p), IsWriter(p)
    PROVE  other(p) \in Peers /\ ActiveMessage(p) \in Arriving(other(p))
  <1> DEFINE k == state_machine[p]
             t == handshake_type[p]
             n == message_number[p]
             m == ActiveMessage(p)
  <1>1. Placed(p, k, t, n) /\ Writer(m) = p
    BY DEF PeerInv, IsWriter
  <1>2. m = Row(k, t)[n + 1]
    BY <1>1, PlacedRow DEF ActiveMessage
  <1> HIDE DEF k, t, n, m
  <1>3. CASE p = "client"
    BY <1>1, <1>3, Writers, Others DEF Arriving, m, Peers
  <1>4. CASE p = "server"
    <2>1. m = "HELLO_RETRY_MSG" => cfg.hrr
      BY <1>1, <1>2, <1>4, RetryForReason
    <2>2. m \in ServerMessages /\ other(p) = "client"
      BY <1>1, <1>4, Writers, Others
    <2>3. m \in Arriving("client")
      BY <2>1, <2>2 DEF Arriving
    <2> QED
      BY <2>2, <2>3 DEF m, Peers
  <1> QED
    BY <1>3, <1>4 DEF Peers

(* A queue of records stays one when a message is sent.                    *)
LEMMA Sends ==
    ASSUME NEW A, NEW m \in A, NEW s \in Seq(Seq(A) \ {<< >>})
    PROVE  /\ Append(s, << m >>) \in Seq(Seq(A) \ {<< >>})
           /\ s # << >> => Append(Front(s), Append(Last(s), m)) \in Seq(Seq(A) \ {<< >>})
  <1> DEFINE R == Seq(A) \ {<< >>}
  <1>1. << m >> \in R
    OBVIOUS
  <1>2. s \in Seq(R)
    OBVIOUS
  <1> HIDE DEF R
  <1>3. Append(s, << m >>) \in Seq(R)
    BY <1>1, <1>2
  <1>4. ASSUME s # << >> PROVE Append(Front(s), Append(Last(s), m)) \in Seq(R)
    <2>1. Len(s) \in Nat /\ Len(s) >= 1 /\ s[Len(s)] \in R
      BY <1>2, <1>4
    <2>2. Append(s[Len(s)], m) \in R
      <3>1. s[Len(s)] \in Seq(A)
        BY <2>1 DEF R
      <3> QED
        BY <3>1, NotEmptied DEF R
    <2>3. SubSeq(s, 1, Len(s) - 1) \in Seq(R)
      BY <1>2, <2>1
    <2> QED
      BY <2>2, <2>3 DEF Front, Last
  <1> QED
    BY <1>3, <1>4 DEF R

LEMMA RecordsNext ==
    ASSUME RecordsInv, cfg' = cfg,
           DOMAIN handshake_type' = Peers, DOMAIN state_machine' = Peers, DOMAIN message_number' = Peers,
           DOMAIN paused' = Peers, DOMAIN io' = Peers, DOMAIN in' = Peers, DOMAIN net' = Peers,
           \A p \in Peers : /\ paused'[p] \in BOOLEAN
                            /\ in'[p] \in Seq(Arriving(p)) /\ net'[p] \in Seq(Seq(Arriving(p)) \ {<< >>})
    PROVE  RecordsInv'
  <1>1. ASSUME NEW p PROVE Arriving(p)' = Arriving(p)
    BY DEF Arriving
  <1> QED
    BY <1>1 DEF RecordsInv

LEMMA NextRecordRead ==
    ASSUME RecordsInv, NEW p \in Peers, net[p] # << >>
    PROVE  Head(net[p]) \in Seq(Arriving(p)) /\ Tail(net[p]) \in Seq(Seq(Arriving(p)) \ {<< >>})
  <1> DEFINE R == Seq(Arriving(p)) \ {<< >>}
             s == net[p]
  <1>1. s \in Seq(R) /\ s # << >>
    BY DEF RecordsInv
  <1>2. R \subseteq Seq(Arriving(p))
    OBVIOUS
  <1> HIDE DEF R, s
  <1>3. Head(s) \in R /\ Tail(s) \in Seq(R)
    BY <1>1
  <1> QED
    BY <1>2, <1>3 DEF R, s

LEMMA RecordsStep ==
    ASSUME RecordsInv, NEW p \in Peers, PeerInv(p), NegotiateStep(p)
    PROVE  RecordsInv'
  <1> DEFINE A(q) == Seq(Arriving(q))
             Q(q) == Seq(Seq(Arriving(q)) \ {<< >>})
  <1>1. /\ DOMAIN handshake_type = Peers /\ DOMAIN state_machine = Peers /\ DOMAIN message_number = Peers
        /\ DOMAIN paused = Peers /\ DOMAIN io = Peers /\ DOMAIN in = Peers /\ DOMAIN net = Peers
        /\ \A q \in Peers : paused[q] \in BOOLEAN /\ in[q] \in A(q) /\ net[q] \in Q(q)
    BY DEF RecordsInv
  <1>2. in[p] # << >> => Tail(in[p]) \in A(p)
    BY NextToRead
  <1>3. net[p] # << >> => Head(net[p]) \in A(p) /\ Tail(net[p]) \in Q(p)
    BY NextRecordRead
  <1>4. << >> \in A(p)
    OBVIOUS
  <1>5. s2n_handshake_write_io(p) => DOMAIN net' = Peers /\ \A q \in Peers : net'[q] \in Q(q)
    <2> SUFFICES ASSUME s2n_handshake_write_io(p)
                 PROVE  DOMAIN net' = Peers /\ \A q \in Peers : net'[q] \in Q(q)
      OBVIOUS
    <2> DEFINE o == other(p)
               m == ActiveMessage(p)
    <2>1. s2n_handshake_message_send(p, m) /\ IsWriter(p)
      BY DEF s2n_handshake_write_io, MayWrite
    <2>2. o \in Peers /\ m \in Arriving(o)
      BY <2>1, MayArrive
    <2>3. \/ net' = [net EXCEPT ![o] = Append(net[o], << m >>)]
          \/ net[o] # << >> /\ net' = [net EXCEPT ![o] = Append(Front(net[o]), Append(Last(net[o]), m))]
      BY <2>1 DEF s2n_handshake_message_send
    <2>4. net[o] \in Seq(Seq(Arriving(o)) \ {<< >>})
      BY <1>1, <2>2
    <2> HIDE DEF o, m
    <2>5. /\ Append(net[o], << m >>) \in Q(o)
          /\ net[o] # << >> => Append(Front(net[o]), Append(Last(net[o]), m)) \in Q(o)
      BY <2>2, <2>4, Sends
    <2> HIDE DEF A, Q
    <2> QED
      BY <1>1, <2>2, <2>3, <2>5
  <1> HIDE DEF A, Q
  <1>6. /\ cfg' = cfg
        /\ DOMAIN handshake_type' = Peers /\ DOMAIN state_machine' = Peers /\ DOMAIN message_number' = Peers
        /\ DOMAIN paused' = Peers /\ DOMAIN io' = Peers /\ DOMAIN in' = Peers /\ DOMAIN net' = Peers
        /\ \A q \in Peers : paused'[q] \in BOOLEAN /\ in'[q] \in A(q) /\ net'[q] \in Q(q)
    <2>1. CASE s2n_handshake_write_io(p)
      BY <1>1, <1>5, <2>1 DEF s2n_handshake_write_io
    <2>2. CASE WriteFails(p) \/ RejectCCS(p) \/ RejectMessage(p) \/ TransportEnds(p)
      <3>1. Fail(p)
        BY <2>2 DEF WriteFails, RejectCCS, RejectMessage, TransportEnds
      <3> QED
        BY <1>1, <3>1 DEF Fail
    <2>3. CASE WriteBlocks(p)
      BY <1>1, <2>3 DEF WriteBlocks
    <2>4. CASE RetryWrite(p)
      BY <1>1, <2>4 DEF RetryWrite
    <2>5. CASE FinishWrite(p)
      BY <1>1, <2>5 DEF FinishWrite, s2n_advance_message
    <2>6. CASE s2n_read_full_record(p)
      BY <1>1, <1>3, <2>6 DEF s2n_read_full_record
    <2>7. CASE ReadCCS(p)
      BY <1>1, <1>3, <2>7 DEF ReadCCS, CCSArrives, s2n_advance_message
    <2>8. CASE ReadMessage(p)
      BY <1>1, <1>2, <2>8 DEF ReadMessage, InRecord, s2n_finish_read, s2n_advance_message
    <2>9. CASE IgnoreHelloRequest(p)
      BY <1>1, <1>2, <2>9 DEF IgnoreHelloRequest, InRecord
    <2>10. CASE ReadBlocks(p)
      BY <1>1, <1>4, <2>10 DEF ReadBlocks
    <2>11. CASE RetryRead(p)
      BY <1>1, <1>4, <2>11 DEF RetryRead, s2n_finish_read, s2n_advance_message
    <2> QED
      BY <2>1, <2>2, <2>3, <2>4, <2>5, <2>6, <2>7, <2>8, <2>9, <2>10, <2>11 DEF NegotiateStep
  <1> QED
    BY <1>6, RecordsNext DEF A, Q

(* The peer that takes a step.                                             *)
LEMMA PeerStep ==
    ASSUME RecordsInv, Ordinary, NEW p \in Peers, PeerInv(p), NegotiateStep(p)
    PROVE  PeerInv(p)' /\ Kept(p)
  <1>1. CASE WriteFails(p) \/ RejectCCS(p) \/ RejectMessage(p) \/ TransportEnds(p)
    <2>1. Fail(p)
      BY <1>1 DEF WriteFails, RejectCCS, RejectMessage, TransportEnds
    <2> QED
      BY <2>1, Untouched DEF Fail
  <1>2. CASE s2n_handshake_write_io(p)
    BY <1>2, Writes
  <1>3. CASE WriteBlocks(p) \/ RetryWrite(p)
    BY <1>3, WaitsToWrite
  <1>4. CASE FinishWrite(p)
    BY <1>4, FinishesWriting
  <1>5. CASE s2n_read_full_record(p)
    BY <1>5, ReadsRecord
  <1>6. CASE ReadCCS(p)
    BY <1>6, ReadsCCS
  <1>7. CASE ReadMessage(p)
    BY <1>7, Reads
  <1>8. CASE IgnoreHelloRequest(p)
    BY <1>8, IgnoresRequest
  <1>9. CASE ReadBlocks(p)
    BY <1>9, ReadWaits
  <1>10. CASE RetryRead(p)
    BY <1>10, RetriesRead
  <1> QED
    BY <1>1, <1>2, <1>3, <1>4, <1>5, <1>6, <1>7, <1>8, <1>9, <1>10 DEF NegotiateStep

(* ... and the other one.                                                  *)
LEMMA OtherStep ==
    ASSUME RecordsInv, NEW p \in Peers, NEW q \in Peers, p # q, PeerInv(q), NegotiateStep(p)
    PROVE  PeerInv(q)' /\ Kept(q)
  <1>0. /\ DOMAIN handshake_type = Peers /\ DOMAIN state_machine = Peers /\ DOMAIN message_number = Peers
        /\ DOMAIN paused = Peers /\ DOMAIN io = Peers /\ DOMAIN in = Peers
    BY DEF RecordsInv
  <1>1. /\ cfg' = cfg /\ state_machine'[q] = state_machine[q] /\ handshake_type'[q] = handshake_type[q]
        /\ message_number'[q] = message_number[q] /\ paused'[q] = paused[q] /\ io'[q] = io[q] /\ in'[q] = in[q]
    <2>1. CASE WriteFails(p) \/ RejectCCS(p) \/ RejectMessage(p) \/ TransportEnds(p)
      BY <2>1 DEF WriteFails, RejectCCS, RejectMessage, TransportEnds, Fail
    <2>2. CASE s2n_handshake_write_io(p)
      BY <1>0, <2>2 DEF s2n_handshake_write_io
    <2>3. CASE WriteBlocks(p) \/ RetryWrite(p)
      BY <1>0, <2>3 DEF WriteBlocks, RetryWrite
    <2>4. CASE FinishWrite(p)
      BY <1>0, <2>4 DEF FinishWrite, s2n_advance_message
    <2>5. CASE s2n_read_full_record(p)
      BY <1>0, <2>5 DEF s2n_read_full_record
    <2>6. CASE ReadCCS(p)
      BY <1>0, <2>6 DEF ReadCCS, s2n_advance_message
    <2>7. CASE ReadMessage(p)
      BY <1>0, <2>7 DEF ReadMessage, s2n_finish_read, s2n_advance_message
    <2>8. CASE IgnoreHelloRequest(p)
      BY <1>0, <2>8 DEF IgnoreHelloRequest
    <2>9. CASE ReadBlocks(p)
      BY <1>0, <2>9 DEF ReadBlocks
    <2>10. CASE RetryRead(p)
      BY <1>0, <2>10 DEF RetryRead, s2n_finish_read, s2n_advance_message
    <2> QED
      BY <2>1, <2>2, <2>3, <2>4, <2>5, <2>6, <2>7, <2>8, <2>9, <2>10 DEF NegotiateStep
  <1> QED
    BY <1>1, Untouched

LEMMA HelloRequestStep ==
    ASSUME PastInv, SendHelloRequest
    PROVE  RecordsInv' /\ \A p \in Peers : PeerInv(p)' /\ Kept(p)
  <1> DEFINE s == net["client"]
             r == << "HELLO_REQUEST" >>
  <1>1. /\ cfg' = cfg /\ handshake_type' = handshake_type /\ state_machine' = state_machine
        /\ message_number' = message_number /\ paused' = paused /\ io' = io /\ in' = in
        /\ net' = [net EXCEPT !["client"] = Append(s, r)]
    BY DEF SendHelloRequest
  <1>2. RecordsInv /\ \A p \in Peers : PeerInv(p)
    BY DEF PastInv
  <1>3. \A p \in Peers : PeerInv(p)' /\ Kept(p)
    BY <1>1, <1>2, Untouched
  <1>4. "HELLO_REQUEST" \in Arriving("client") /\ "client" \in Peers
    BY DEF Arriving, ServerMessages, Peers
  <1>5. s \in Seq(Seq(Arriving("client")) \ {<< >>}) /\ DOMAIN net = Peers
    BY <1>2, <1>4 DEF RecordsInv
  <1> HIDE DEF s
  <1>6. Append(s, r) \in Seq(Seq(Arriving("client")) \ {<< >>})
    BY <1>4, <1>5, Sends
  <1> HIDE DEF r
  <1>7. \A p \in Peers : net'[p] = IF p = "client" THEN Append(s, r) ELSE net[p]
    BY <1>1, <1>5
  <1>8. RecordsInv'
    <2>1. /\ DOMAIN handshake_type' = Peers /\ DOMAIN state_machine' = Peers /\ DOMAIN message_number' = Peers
          /\ DOMAIN paused' = Peers /\ DOMAIN io' = Peers /\ DOMAIN in' = Peers /\ DOMAIN net' = Peers
      BY <1>1, <1>2, <1>5 DEF RecordsInv
    <2>2. ASSUME NEW p \in Peers
          PROVE  /\ paused'[p] \in BOOLEAN
                 /\ in'[p] \in Seq(Arriving(p)) /\ net'[p] \in Seq(Seq(Arriving(p)) \ {<< >>})
      <3>1. paused'[p] \in BOOLEAN /\ in'[p] \in Seq(Arriving(p)) /\ net[p] \in Seq(Seq(Arriving(p)) \ {<< >>})
        BY <1>1, <1>2 DEF RecordsInv
      <3> QED
        BY <1>6, <1>7, <3>1
    <2> QED
      BY <1>1, <1>2, <2>1, <2>2, RecordsNext
  <1> QED
    BY <1>3, <1>8

LEMMA PastStep ==
    ASSUME PastInv, Ordinary, [Next]_vars
    PROVE  PastInv' /\ \A p \in Peers : Kept(p)
  <1> SUFFICES RecordsInv' /\ \A p \in Peers : PeerInv(p)' /\ Kept(p)
    BY DEF PastInv
  <1>1. RecordsInv /\ \A p \in Peers : PeerInv(p)
    BY DEF PastInv
  <1>2. ASSUME NEW q \in Peers, NegotiateStep(q) PROVE RecordsInv' /\ \A p \in Peers : PeerInv(p)' /\ Kept(p)
    <2>1. RecordsInv'
      BY <1>1, <1>2, RecordsStep
    <2>2. ASSUME NEW p \in Peers PROVE PeerInv(p)' /\ Kept(p)
      BY <1>1, <1>2, PeerStep, OtherStep
    <2> QED
      BY <2>1, <2>2
  <1>3. CASE SendHelloRequest
    BY <1>3, HelloRequestStep
  <1>4. CASE UNCHANGED vars
    <2>1. RecordsInv'
      BY <1>1, <1>4 DEF vars, RecordsInv, Arriving
    <2>2. \A p \in Peers : PeerInv(p)' /\ Kept(p)
      BY <1>1, <1>4, Untouched DEF vars
    <2> QED
      BY <2>1, <2>2
  <1> QED
    BY <1>2, <1>3, <1>4 DEF Next, Terminated

LEMMA PastInit ==
    ASSUME Init
    PROVE  PastInv
  <1>1. RecordsInv
    BY DEF Init, RecordsInv
  <1>2. ASSUME NEW p \in Peers PROVE PeerInv(p)
    <2> DEFINE n == message_number[p]
               r == Row("initial", {})
    <2>1. /\ state_machine[p] = "initial" /\ handshake_type[p] = {} /\ n = 0
          /\ ~paused[p] /\ io[p] # "written"
      BY DEF Init
    <2>2. r = <<"CLIENT_HELLO", "SERVER_HELLO">>
      BY OpenRows
    <2> HIDE DEF n, r
    <2>3. n < Len(r)
      BY <2>1, <2>2
    <2>4. Undecided(p, "initial", {}, n)
      BY <2>1, <2>3 DEF Undecided, r
    <2> QED
      BY <2>1, <2>4 DEF PeerInv, Placed, n
  <1> QED
    BY <1>1, <1>2 DEF PastInv

(* The invariant: every peer is at a message of a row that the tables of   *)
(* message orders define, with a type that its configuration allows, and a *)
(* message it waits in is one of those whose handlers wait.                *)
THEOREM PastInvHolds ==
    ASSUME Ordinary
    PROVE  Spec => []PastInv
  <1>1. Init => PastInv
    BY PastInit
  <1>2. PastInv /\ [Next]_vars => PastInv'
    BY PastStep
  <1> QED
    BY <1>1, <1>2, PTL DEF Spec

(* PastUnchanged: whatever new handshake type a peer takes in the middle   *)
(* of the handshake, with a second ClientHello, a HelloRetryRequest, early *)
(* data, an OCSP response that does not come, a request for a certificate, *)
(* an empty one, or while a handler waits, its row is defined and agrees   *)
(* with the old one on every message the peer has been through.            *)
THEOREM PastIsUnchanged ==
    ASSUME Ordinary
    PROVE  Spec => PastUnchanged
  <1> DEFINE Same(p) == /\ Defined(state_machine[p], handshake_type[p])'
                        /\ SubSeq(Row(state_machine[p], handshake_type[p])', 1, message_number[p]) = Past(p)
  <1>1. PastInv /\ [Next]_vars => [\A p \in Peers : Same(p)]_vars
    <2> SUFFICES ASSUME PastInv, [Next]_vars, NEW p \in Peers PROVE Same(p)
      OBVIOUS
    <2>1. Kept(p)
      BY PastStep
    <2>2. SubSeq(Row(state_machine[p], handshake_type[p]), 1, message_number[p])
          = SubSeq(Row(state_machine'[p], handshake_type'[p]), 1, message_number[p])
      BY <2>1, AgreeStart DEF Kept
    <2> QED
      BY <2>1, <2>2 DEF Kept, Past
  <1> QED
    BY <1>1, PastInvHolds, PTL DEF Spec, PastUnchanged
=============================================================================
