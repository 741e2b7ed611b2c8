-------------------------- MODULE ResumptionProofs --------------------------
(***************************************************************************)
(* Proofs about Resumption, for any lifetimes, any keys and any plan of    *)
(* connections: no two tickets of a connection carry the same secret,      *)
(* tickets live as long as they should, neither longer nor shorter, and    *)
(* peers that are done agree on secret, suite, key and whether a session   *)
(* was resumed.                                                            *)
(*                                                                         *)
(* For the lifetimes the inductive invariant follows a ticket wherever it  *)
(* is: being written, on its way, in the store of the client, in a hello,  *)
(* chosen by the server.  Everywhere it is Sound: its life ends before its *)
(* key material, its key and the session do.  For the agreement it says    *)
(* that a session the client has, the ticket and the entry of the cache    *)
(* that stand for it are the same, and how far each end has come.          *)
(***************************************************************************)
EXTENDS Resumption, FiniteSetTheorems, NaturalsInduction, WellFoundedInduction, TLAPS

Names == STRING \cup {None}
Atoms == Nat \cup STRING \cup {"ticket"}
Secrets == Seq(Atoms)
TicketKeys == [name : Names, intro : Nat]
Tickets ==
    [v : {0, 12, 13}, key : Names, issue : Nat, add : Nat, secret : Secrets, suite : Nat, ems : BOOLEAN,
     expiration : Nat, since : Nat, born : Nat, life : Int]
Sessions ==
    [kind : {None, "id", "ticket"}, id : Int, ticket : Tickets, v : {0, 12, 13}, issue : Nat, add : Nat,
     secret : Secrets, suite : Nat, ems : BOOLEAN]
Psks ==
    [type : {None, "external", "resumption"}, id : Tickets, name : Names, secret : Secrets, suite : Nat,
     add : Nat, issue : Nat, expiration : Nat]
Clients ==
    [pc : {"idle", "hello", "sent", "key", "done", "failed"}, session : Sessions, psks : Seq(Psks), sid : Int,
     ems : BOOLEAN, suite : Nat, retried : BOOLEAN, chosen : Psks, secret : Secrets, resumed : BOOLEAN,
     setup : Setups \cup {NoSetup}]
Servers ==
    [pc : {"idle", "wait", "type", "store", "nst", "finish", "done", "failed"}, v : {0, 12, 13}, suite : Nat,
     chosen : Psks, index : Nat, ems : BOOLEAN, secret : Secrets, sid : Int, status : {None, "decrypt", "new"},
     resumed : BOOLEAN, tickets_sent : Nat, tickets_to_send : Nat, first : Nat]
Identities == [psk : Psks, age : Nat]
Hellos == [type : {"hello"}, sid : Int, psks : Seq(Identities), ticket : Tickets, ems : BOOLEAN]
Answers ==
    [type : {"retry", "serverhello"}, v : {12, 13}, suite : Nat, psk : BOOLEAN, index : Nat, sid : Int,
     ems : BOOLEAN, nst : BOOLEAN]
Messages == Hellos \cup Answers \cup [type : {None, "alert", "finished"}]
NewTickets == [ticket : Tickets, life : Int, add : Nat, nonce : Nat]
Writers == [pc : {"idle", "life", "encrypt"}, key : TicketKeys, life : Int, at : Nat, add : Nat]

(* What every variable is.                                                 *)
TypeOK ==
    /\ plan \in Plans /\ now \in Nat /\ conns \in Nat /\ added \in Nat
    /\ keys \subseteq TicketKeys
    /\ client \in Clients
    /\ server \in Servers
    /\ msg \in Messages
    /\ msg.type = "serverhello" => (msg.psk => msg.index > 0)
    /\ nsts \in Seq(NewTickets)
    /\ store \subseteq Sessions
    /\ \A x \in DOMAIN cache : cache[x] \in Tickets
    /\ nst \in Writers

----------------------------------------------------------------------------
(* The constants the variables start from have these types.                *)
LEMMA Blanks ==
    /\ NoTicket \in Tickets
    /\ NoSession \in Sessions
    /\ NoPsk \in Psks
    /\ Resting \in Clients
    /\ NstIdle \in Writers
  <1>0. None \in Names
    BY DEF Names
  <1>1. <<>> \in Secrets
    BY DEF Secrets
  <1>2. NoTicket \in Tickets
    BY <1>0, <1>1 DEF NoTicket, Tickets
  <1>3. NoSession \in Sessions
    BY <1>1, <1>2 DEF NoSession, Sessions, None
  <1>4. NoPsk \in Psks
    BY <1>0, <1>1, <1>2 DEF NoPsk, Psks
  <1>5. Resting \in Clients
    BY <1>1, <1>3, <1>4 DEF Resting, Clients
  <1>6. NstIdle \in Writers
    BY <1>0 DEF NstIdle, Writers, TicketKeys
  <1> QED
    BY <1>2, <1>3, <1>4, <1>5, <1>6

(* A key the application set is a pre-shared key like any other.           *)
LEMMA ExternalArePsks == ExternalPsks \subseteq Psks
  <1> SUFFICES ASSUME NEW p \in ExternalPsks PROVE p \in Psks
    OBVIOUS
  <1>1. Seq(STRING) \subseteq Secrets
    BY DEF Secrets, Atoms
  <1>2. p.secret \in Secrets
    BY <1>1 DEF ExternalPsks
  <1> QED
    BY <1>2, Blanks DEF ExternalPsks, Psks, Names

(* What a plan says of a connection.                                       *)
LEMMA PlanTypes ==
    ASSUME TypeOK, conns < Len(plan)
    PROVE  /\ plan[conns + 1] \in Setups
           /\ plan[conns + 1].psks \in Seq(Psks)
  <1>1. plan \in Seq(Setups)
    BY PlansAssumption DEF TypeOK
  <1>2. Len(plan) \in Nat
    BY <1>1
  <1>3. conns + 1 \in 1..Len(plan)
    BY <1>2 DEF TypeOK
  <1>4. plan[conns + 1] \in Setups
    BY <1>1, <1>3
  <1>5. plan[conns + 1].psks \in Seq(ExternalPsks)
    BY <1>4 DEF Setups
  <1> QED
    BY <1>4, <1>5, ExternalArePsks

(* A ticket as the server writes it.                                       *)
LEMMA WrittenTypes ==
    ASSUME TypeOK, NEW k \in Names
    PROVE  /\ s2n_tls13_serialize_resumption_state(k, server) \in Tickets
           /\ s2n_tls12_serialize_resumption_state(k, server) \in Tickets
  <1>1. now \in Nat /\ nst \in Writers /\ server \in Servers /\ KeyingLife \in Nat
    BY LifetimesAssumption DEF TypeOK
  <1>2. server.chosen \in Psks /\ server.secret \in Secrets /\ server.tickets_sent \in Nat
    BY <1>1 DEF Servers
  <1>3. s2n_tls13_serialize_keying_material_expiration(server.chosen) \in Nat
    BY <1>1, <1>2 DEF s2n_tls13_serialize_keying_material_expiration, MinOf, Psks
  <1>4. server.secret \o <<"ticket", server.tickets_sent>> \in Secrets
    BY <1>2 DEF Secrets, Atoms
  <1>5. (IF server.chosen.type = "resumption" THEN server.chosen.id.since ELSE now) \in Nat
    BY <1>1, <1>2 DEF Psks, Tickets
  <1>6. nst.at \in Nat /\ nst.add \in Nat /\ nst.life \in Int
    BY <1>1 DEF Writers
  <1>7. server.suite \in Nat /\ server.ems \in BOOLEAN
    BY <1>1 DEF Servers
  <1>8. s2n_tls13_serialize_resumption_state(k, server) \in Tickets
    BY <1>1, <1>3, <1>4, <1>5, <1>6, <1>7 DEF s2n_tls13_serialize_resumption_state, Tickets
  <1>9. s2n_tls12_serialize_resumption_state(k, server) \in Tickets
    BY <1>1, <1>2, <1>6, <1>7 DEF s2n_tls12_serialize_resumption_state, Tickets
  <1> QED
    BY <1>8, <1>9

(* A ticket becomes a pre-shared key, on the server and on the client.     *)
LEMMA PskTypes ==
    /\ \A t \in Tickets : s2n_tls13_deserialize_session_state(t) \in Psks
    /\ \A s \in Sessions : s2n_connection_set_session(s) \in Seq(Psks)
  <1>1. ASSUME NEW t \in Tickets
        PROVE  s2n_tls13_deserialize_session_state(t) \in Psks
    BY Blanks DEF s2n_tls13_deserialize_session_state, Psks, Tickets
  <1>2. ASSUME NEW s \in Sessions
        PROVE  s2n_connection_set_session(s) \in Seq(Psks)
    <2> DEFINE p == [NoPsk EXCEPT !.type = "resumption", !.id = s.ticket, !.secret = s.secret,
                                  !.suite = s.suite, !.add = s.add, !.issue = s.issue]
    <2>1. p \in Psks
      BY Blanks DEF Psks, Sessions
    <2> HIDE DEF p
    <2>2. <<p>> \in Seq(Psks) /\ <<>> \in Seq(Psks)
      BY <2>1
    <2>3. s2n_connection_set_session(s) \in {<<p>>, <<>>}
      BY DEF s2n_connection_set_session, p
    <2> QED
      BY <2>2, <2>3
  <1> QED
    BY <1>1, <1>2

----------------------------------------------------------------------------
(* Every action keeps the types.                                           *)
LEMMA TypeInit == Init => TypeOK
  <1> SUFFICES ASSUME Init PROVE TypeOK
    OBVIOUS
  <1>1. KeyNames[1] \in Names
    BY LifetimesAssumption DEF Names
  <1>2. keys \subseteq TicketKeys
    BY <1>1 DEF Init, TicketKeys
  <1>3. <<>> \in Secrets
    BY DEF Secrets
  <1>4. server \in Servers
    BY <1>3, Blanks DEF Init, Servers
  <1>5. msg \in Messages /\ msg.type = None
    BY DEF Init, Messages
  <1> QED
    BY <1>2, <1>4, <1>5, Blanks DEF Init, TypeOK, None

LEMMA TypeKeys ==
    ASSUME TypeOK, s2n_config_add_ticket_crypto_key \/ Tick
    PROVE  TypeOK'
  <1>1. CASE s2n_config_add_ticket_crypto_key
    <2>1. PICK delay \in IntroDelays :
            keys' \subseteq keys \cup {[name |-> KeyNames[added + 1], intro |-> now + delay]}
      BY <1>1 DEF s2n_config_add_ticket_crypto_key, s2n_config_wipe_expired_ticket_crypto_keys
    <2>2. now + delay \in Nat
      BY LifetimesAssumption DEF TypeOK
    <2>3. added + 1 \in 1..Len(KeyNames)
      BY <1>1, LifetimesAssumption DEF TypeOK, s2n_config_add_ticket_crypto_key
    <2>4. KeyNames[added + 1] \in Names
      BY <2>3, LifetimesAssumption DEF Names
    <2>5. [name |-> KeyNames[added + 1], intro |-> now + delay] \in TicketKeys
      BY <2>2, <2>4 DEF TicketKeys
    <2>6. keys' \subseteq TicketKeys
      BY <2>1, <2>5 DEF TypeOK
    <2>7. added' \in Nat
      BY <1>1 DEF s2n_config_add_ticket_crypto_key, TypeOK
    <2> QED
      BY <1>1, <2>6, <2>7 DEF s2n_config_add_ticket_crypto_key, TypeOK
  <1>2. CASE Tick
    BY <1>2 DEF Tick, TypeOK
  <1> QED
    BY <1>1, <1>2

LEMMA TypeConnect ==
    ASSUME TypeOK, Connect
    PROVE  /\ TypeOK' /\ client'.pc = "hello" /\ client'.setup = plan[conns + 1]
           /\ server'.pc = "wait" /\ server'.chosen = NoPsk
           /\ server'.tickets_sent = 0 /\ server'.tickets_to_send = InitialTickets
           /\ \E s \in store \cup {NoSession} :
                /\ client'.session = s
                /\ client'.psks = IF plan[conns + 1].psks # <<>> THEN plan[conns + 1].psks
                                  ELSE s2n_connection_set_session(s)
  <1>0. conns' = conns + 1
    BY DEF Connect
  <1>1. PICK setup \in {plan[conns']}, s \in store \cup {NoSession} :
          /\ client' = [Resting EXCEPT
              !.pc = "hello", !.session = s, !.setup = setup,
              !.psks = IF setup.psks # <<>> THEN setup.psks ELSE s2n_connection_set_session(s),
              !.sid = IF s.kind = "id" THEN s.id ELSE conns',
              !.ems = s.v = 12 /\ s.ems, !.suite = s.suite]
          /\ server' = [pc |-> "wait", v |-> setup.v, suite |-> 0, chosen |-> NoPsk, index |-> 0,
                        ems |-> FALSE, secret |-> <<>>, sid |-> 0, status |-> None, resumed |-> FALSE,
                        tickets_sent |-> 0, tickets_to_send |-> InitialTickets, first |-> 0]
    BY DEF Connect
  <1> DEFINE psks == IF setup.psks # <<>> THEN setup.psks ELSE s2n_connection_set_session(s)
             sid == IF s.kind = "id" THEN s.id ELSE conns + 1
             ems == s.v = 12 /\ s.ems
  <1>2. setup = plan[conns + 1] /\ setup \in Setups /\ setup.psks \in Seq(Psks)
    BY <1>0, PlanTypes DEF Connect
  <1>3. s \in Sessions
    BY Blanks DEF TypeOK
  <1>4. psks \in Seq(Psks)
    BY <1>2, <1>3, PskTypes
  <1>5. sid \in Int /\ ems \in BOOLEAN /\ s.suite \in Nat
    BY <1>3 DEF Sessions, TypeOK
  <1>6. client' = [Resting EXCEPT !.pc = "hello", !.session = s, !.setup = setup, !.psks = psks,
                                  !.sid = sid, !.ems = ems, !.suite = s.suite]
    BY <1>0, <1>1
  <1>7. setup.v \in {12, 13}
    BY <1>2 DEF Setups
  <1> HIDE DEF psks, sid, ems
  <1>8. client' \in Clients /\ client'.pc = "hello" /\ client'.setup = setup
        /\ client'.session = s /\ client'.psks = psks
    BY <1>2, <1>3, <1>4, <1>5, <1>6, Blanks DEF Clients
  <1>9. server' = [pc |-> "wait", v |-> setup.v, suite |-> 0, chosen |-> NoPsk, index |-> 0, ems |-> FALSE,
                   secret |-> <<>>, sid |-> 0, status |-> None, resumed |-> FALSE,
                   tickets_sent |-> 0, tickets_to_send |-> InitialTickets, first |-> 0]
    BY <1>1
  <1>10. <<>> \in Secrets /\ InitialTickets \in Nat
    BY LifetimesAssumption DEF Secrets
  <1>11. server' \in Servers /\ server'.pc = "wait" /\ server'.chosen = NoPsk
         /\ server'.tickets_sent = 0 /\ server'.tickets_to_send = InitialTickets
    BY <1>7, <1>9, <1>10, Blanks DEF Servers
  <1>12. TypeOK'
    BY <1>8, <1>11 DEF Connect, TypeOK
  <1> QED
    BY <1>2, <1>8, <1>11, <1>12 DEF psks

LEMMA TypeHello ==
    ASSUME TypeOK, s2n_client_hello_send
    PROVE  TypeOK'
  <1> DEFINE age(p) == s2n_generate_obfuscated_ticket_age(p)
  <1>1. client \in Clients /\ client.psks \in Seq(Psks) /\ client.session \in Sessions
    BY DEF TypeOK, Clients
  <1>2. PICK offered \in Offers(client) :
          \/ ClientFail
          \/ /\ msg' = [type |-> "hello", sid |-> client.sid,
                        psks |-> IF client.setup.v = 13
                                 THEN [i \in DOMAIN offered |->
                                         [psk |-> client.psks[offered[i]], age |-> age(client.psks[offered[i]])]]
                                 ELSE <<>>,
                        ticket |-> IF client.session.kind = "ticket" /\ client.session.v = 12
                                   THEN client.session.ticket ELSE NoTicket,
                        ems |-> s2n_client_ems_should_send(client)]
             /\ client' = [client EXCEPT !.pc = "sent"]
    BY DEF s2n_client_hello_send
  <1>3. CASE ClientFail
    BY <1>3 DEF ClientFail, s2n_client_hello_send, TypeOK, Clients
  <1>4. CASE ~ClientFail
    <2> DEFINE ids == [i \in DOMAIN offered |->
                         [psk |-> client.psks[offered[i]], age |-> age(client.psks[offered[i]])]]
               ticket == IF client.session.kind = "ticket" /\ client.session.v = 12
                         THEN client.session.ticket ELSE NoTicket
               ems == s2n_client_ems_should_send(client)
    <2>1. PICK kept \in SUBSET (1..Len(client.psks)) : offered \in [1..Cardinality(kept) -> kept]
      BY DEF Offers
    <2>2. Cardinality(kept) \in Nat
      <3>1. Len(client.psks) \in Nat
        BY <1>1
      <3>2. IsFiniteSet(1..Len(client.psks))
        BY <3>1, FS_Interval
      <3>3. IsFiniteSet(kept)
        BY <2>1, <3>2, FS_Subset
      <3> QED
        BY <3>3, FS_CardinalityType
    <2>3. ASSUME NEW i \in DOMAIN offered
          PROVE  client.psks[offered[i]] \in Psks
      <3>1. offered[i] \in 1..Len(client.psks)
        BY <2>1
      <3> QED
        BY <1>1, <3>1
    <2>4. ASSUME NEW p \in Psks
          PROVE  age(p) \in Nat
      <3>1. now - p.issue + p.add \in Int
        BY DEF TypeOK, Psks
      <3>2. AgeModulus \in Nat \ {0}
        BY LifetimesAssumption
      <3>3. (now - p.issue + p.add) % AgeModulus \in Nat
        BY <3>1, <3>2
      <3> QED
        BY <3>3 DEF s2n_generate_obfuscated_ticket_age
    <2>5. \A i \in DOMAIN offered : ids[i] \in Identities
      BY <2>3, <2>4 DEF Identities
    <2>6. ids \in Seq(Identities)
      BY <2>1, <2>2, <2>5
    <2>7. ticket \in Tickets
      BY <1>1, Blanks DEF Sessions
    <2>8. ems \in BOOLEAN
      BY <1>1 DEF s2n_client_ems_should_send
    <2>9. client.sid \in Int
      BY <1>1 DEF Clients
    <2>10. msg' = [type |-> "hello", sid |-> client.sid, psks |-> IF client.setup.v = 13 THEN ids ELSE <<>>,
                   ticket |-> ticket, ems |-> ems]
      BY <1>2, <1>4
    <2> HIDE DEF ids, ticket, ems
    <2>11. (IF client.setup.v = 13 THEN ids ELSE <<>>) \in Seq(Identities)
      BY <2>6
    <2>12. msg' \in Hellos
      BY <2>7, <2>8, <2>9, <2>10, <2>11 DEF Hellos
    <2>13. msg' \in Messages /\ msg'.type = "hello"
      BY <2>12 DEF Messages, Hellos
    <2>14. client' \in Clients
      BY <1>1, <1>2, <1>4 DEF Clients
    <2> QED
      BY <2>13, <2>14 DEF s2n_client_hello_send, TypeOK
  <1> QED
    BY <1>3, <1>4

(* The pre-shared key that the client finds under an index.                *)
LEMMA FoundPsk ==
    ASSUME TypeOK, msg.type = "serverhello"
    PROVE  s2n_server_psk_recv(msg) \in Psks
  <1>1. msg \in Answers /\ client.psks \in Seq(Psks)
    BY DEF TypeOK, Messages, Hellos, None, Clients
  <1>2. CASE msg.psk /\ msg.index <= Len(client.psks)
    <2>1. msg.index \in 1..Len(client.psks)
      BY <1>1, <1>2 DEF TypeOK, Answers
    <2> QED
      BY <1>1, <1>2, <2>1 DEF s2n_server_psk_recv
  <1>3. CASE ~(msg.psk /\ msg.index <= Len(client.psks))
    BY <1>3, Blanks DEF s2n_server_psk_recv
  <1> QED
    BY <1>2, <1>3

LEMMA TypeServerHello13 ==
    ASSUME TypeOK, ServerHelloRecv13
    PROVE  TypeOK'
  <1> DEFINE psk == s2n_server_psk_recv(msg)
  <1>1. psk \in Psks
    BY FoundPsk DEF ServerHelloRecv13
  <1>2. client \in Clients
    BY DEF TypeOK
  <1>3. msg.suite \in Nat
    BY DEF ServerHelloRecv13, TypeOK, Messages, Answers, Hellos, None
  <1>4. <<conns>> \o psk.secret \in Secrets
    BY <1>1 DEF Psks, Secrets, Atoms, TypeOK
  <1> HIDE DEF psk
  <1>5. CASE s2n_set_cipher_as_client(msg)
    <2>1. client' = [client EXCEPT !.pc = "done", !.suite = msg.suite, !.chosen = psk,
                                   !.secret = <<conns>> \o psk.secret, !.resumed = psk.type = "resumption"]
      BY <1>5 DEF ServerHelloRecv13, psk
    <2>2. client' \in Clients
      BY <1>1, <1>2, <1>3, <1>4, <2>1 DEF Clients
    <2> QED
      BY <1>5, <2>2 DEF ServerHelloRecv13, TypeOK
  <1>6. CASE ~s2n_set_cipher_as_client(msg)
    BY <1>2, <1>6 DEF ServerHelloRecv13, ClientFail, TypeOK, Clients
  <1> QED
    BY <1>5, <1>6

LEMMA TypeServerHello12 ==
    ASSUME TypeOK, ServerHelloRecv12
    PROVE  TypeOK'
  <1>1. client \in Clients /\ msg \in Answers
    BY DEF ServerHelloRecv12, TypeOK, Messages, Hellos, None
  <1>2. msg.suite \in Nat /\ msg.sid \in Int /\ msg.ems \in BOOLEAN
    BY <1>1 DEF Answers
  <1>3. <<conns>> \in Secrets /\ client.session.secret \in Secrets
    BY <1>1 DEF Secrets, Atoms, TypeOK, Clients, Sessions
  <1>4. client' \in Clients
    BY <1>1, <1>2, <1>3 DEF ServerHelloRecv12, ClientFail, Clients
  <1> QED
    BY <1>4 DEF ServerHelloRecv12, ClientFail, TypeOK

LEMMA TypeAnswers ==
    ASSUME TypeOK, s2n_set_hello_retry_required \/ AlertRecv
    PROVE  TypeOK'
  <1>1. client \in Clients
    BY DEF TypeOK
  <1>2. CASE s2n_set_hello_retry_required
    <2>1. msg.suite \in Nat
      BY <1>2 DEF s2n_set_hello_retry_required, TypeOK, Messages, Answers, Hellos, None
    <2>2. client' \in Clients
      BY <1>1, <1>2, <2>1 DEF s2n_set_hello_retry_required, Clients
    <2> QED
      BY <1>2, <2>2 DEF s2n_set_hello_retry_required, TypeOK
  <1>3. CASE AlertRecv
    BY <1>1, <1>3 DEF AlertRecv, ClientFail, TypeOK, Clients
  <1> QED
    BY <1>2, <1>3

LEMMA TypeKept ==
    ASSUME TypeOK, ServerFinishedRecv12 \/ s2n_tls13_server_nst_recv
    PROVE  TypeOK'
  <1>1. client \in Clients /\ nsts \in Seq(NewTickets) /\ now \in Nat
    BY DEF TypeOK
  <1>2. CASE ServerFinishedRecv12
    <2>1. ClientTicket \in Tickets
      <3>1. nsts # <<>> => nsts[1] \in NewTickets
        BY <1>1
      <3>2. nsts # <<>> => nsts[1].ticket \in Tickets
        BY <3>1 DEF NewTickets
      <3>3. client.session.ticket \in Tickets
        BY <1>1 DEF Clients, Sessions
      <3> QED
        BY <3>2, <3>3, Blanks DEF ClientTicket
    <2>2. client.sid \in Int /\ client.secret \in Secrets /\ client.suite \in Nat /\ client.ems \in BOOLEAN
      BY <1>1 DEF Clients
    <2>3. s2n_client_serialize_resumption_state(ClientTicket) \in Sessions
      <3> DEFINE t == ClientTicket
                 kind == IF t = NoTicket THEN "id" ELSE "ticket"
                 id == IF t = NoTicket THEN client.sid ELSE 0
      <3>1. kind \in {None, "id", "ticket"} /\ id \in Int
        BY <2>2
      <3>2. s2n_client_serialize_resumption_state(t) =
              [NoSession EXCEPT !.kind = kind, !.id = id, !.ticket = t, !.v = 12, !.issue = now,
                                !.secret = client.secret, !.suite = client.suite, !.ems = client.ems]
        BY DEF s2n_client_serialize_resumption_state
      <3> HIDE DEF t, kind, id
      <3>3. t \in Tickets
        BY <2>1 DEF t
      <3>4. s2n_client_serialize_resumption_state(t) \in Sessions
        BY <1>1, <2>2, <3>1, <3>2, <3>3, Blanks DEF Sessions
      <3> QED
        BY <3>4 DEF t
    <2>4. client' \in Clients
      BY <1>1, <1>2 DEF ServerFinishedRecv12, Clients
    <2> QED
      BY <1>2, <2>3, <2>4 DEF ServerFinishedRecv12, TypeOK
  <1>3. CASE s2n_tls13_server_nst_recv
    <2> DEFINE n == Head(nsts)
               new == [kind |-> "ticket", id |-> 0, ticket |-> n.ticket, v |-> 13, issue |-> now, add |-> n.add,
                       secret |-> client.secret \o <<"ticket", n.nonce>>, suite |-> client.suite, ems |-> FALSE]
    <2>1. n \in NewTickets /\ nsts' \in Seq(NewTickets)
      BY <1>1, <1>3 DEF s2n_tls13_server_nst_recv
    <2>2. n.ticket \in Tickets /\ n.add \in Nat /\ n.nonce \in Nat
      BY <2>1 DEF NewTickets
    <2>3. client.secret \o <<"ticket", n.nonce>> \in Secrets /\ client.suite \in Nat
      BY <1>1, <2>2 DEF Clients, Secrets, Atoms
    <2>4. store' \subseteq store \cup {new}
      BY <1>3 DEF s2n_tls13_server_nst_recv
    <2> HIDE DEF n
    <2>5. new \in Sessions
      BY <1>1, <2>2, <2>3 DEF Sessions
    <2> HIDE DEF new
    <2> QED
      BY <1>3, <2>1, <2>4, <2>5 DEF s2n_tls13_server_nst_recv, TypeOK
  <1> QED
    BY <1>2, <1>3

(* The key the server has chosen: one of its own, or a ticket it was       *)
(* offered and has decrypted.                                              *)
LEMMA ChosenPsk ==
    ASSUME TypeOK, msg.type = "hello", NEW i \in s2n_client_psk_recv
    PROVE  /\ i \in 1..Len(msg.psks) /\ msg.psks[i] \in Identities
           /\ ServerPsk(i) \in Psks
           /\ \/ ServerPsk(i) \in ExternalPsks
              \/ /\ ServerPsks = <<>>
                 /\ ServerPsk(i) = s2n_tls13_deserialize_session_state(msg.psks[i].psk.id)
                 /\ s2n_resume_decrypt_session(msg.psks[i].psk.id)
  <1>1. msg \in Hellos
    BY DEF TypeOK, Messages, Answers, None
  <1>2. msg.psks \in Seq(Identities) /\ Len(msg.psks) \in Nat
    BY <1>1 DEF Hellos
  <1>3. ServerPsks \in Seq(ExternalPsks)
    <2>1. client.setup \in Setups \cup {NoSetup}
      BY DEF TypeOK, Clients
    <2>2. NoSetup.server_psks \in Seq(ExternalPsks)
      BY DEF NoSetup
    <2> QED
      BY <2>1, <2>2 DEF ServerPsks, Setups
  <1>4. CASE ServerPsks # <<>>
    <2>1. i \in s2n_select_external_psk(ServerPsks, msg.psks)
      BY <1>4 DEF s2n_client_psk_recv
    <2>2. i \in 1..Len(msg.psks)
      BY <2>1 DEF s2n_select_external_psk
    <2>3. \E j \in 1..Len(ServerPsks) : ServerPsks[j].name = msg.psks[i].psk.name
      BY <2>1 DEF s2n_select_external_psk
    <2> DEFINE j == CHOOSE j \in 1..Len(ServerPsks) : ServerPsks[j].name = msg.psks[i].psk.name
    <2>4. j \in 1..Len(ServerPsks)
      BY <2>3
    <2>5. ServerPsk(i) = ServerPsks[j]
      BY <1>4 DEF ServerPsk
    <2> HIDE DEF j
    <2>6. ServerPsk(i) \in ExternalPsks
      BY <1>3, <2>4, <2>5
    <2> QED
      BY <1>2, <2>2, <2>6, ExternalArePsks
  <1>5. CASE ServerPsks = <<>>
    <2>1. i \in s2n_select_resumption_psk(msg.psks)
      BY <1>5 DEF s2n_client_psk_recv
    <2>2. i \in 1..MinOf(Len(msg.psks), MaxRejected) /\ s2n_offered_psk_list_choose_psk(msg.psks[i])
      BY <2>1 DEF s2n_select_resumption_psk
    <2>3. MaxRejected \in Nat
      BY LifetimesAssumption
    <2>4. i \in 1..Len(msg.psks)
      BY <1>2, <2>2, <2>3 DEF MinOf
    <2>5. ServerPsk(i) = s2n_tls13_deserialize_session_state(msg.psks[i].psk.id)
      BY <1>5 DEF ServerPsk
    <2>6. msg.psks[i] \in Identities
      BY <1>2, <2>4
    <2>7. msg.psks[i].psk.id \in Tickets
      BY <2>6 DEF Identities, Psks
    <2> QED
      BY <1>5, <2>2, <2>4, <2>5, <2>6, <2>7, PskTypes DEF s2n_offered_psk_list_choose_psk
  <1> QED
    BY <1>4, <1>5

(* What the server does with a hello of TLS1.3.                            *)
LEMMA TakenHello13 ==
    ASSUME TypeOK, ClientHelloRecv13
    PROVE  \/ ServerFail
           \/ s2n_client_psk_recv = {} /\ ServerHello13(NoPsk, 0)
           \/ \E i \in s2n_client_psk_recv : ServerHello13(ServerPsk(i), i) /\ i \in Nat \ {0}
  <1>1. CASE s2n_client_psk_recv = {}
    BY <1>1 DEF ClientHelloRecv13
  <1>2. CASE s2n_client_psk_recv # {}
    <2>1. \A i \in s2n_client_psk_recv : i \in 1..Len(msg.psks)
      BY ChosenPsk DEF ClientHelloRecv13
    <2>2. \A i \in s2n_client_psk_recv : i \in Nat \ {0}
      BY <2>1
    <2> QED
      BY <1>2, <2>2 DEF ClientHelloRecv13
  <1> QED
    BY <1>1, <1>2

LEMMA TypeServerFail ==
    ASSUME TypeOK, ServerFail
    PROVE  server' \in Servers /\ msg' \in Messages /\ msg'.type = "alert"
  BY DEF TypeOK, ServerFail, Servers, Messages

(* The answer to a hello of TLS1.3, whatever key was chosen.               *)
LEMMA Hello13Types ==
    ASSUME TypeOK, ClientHelloRecv13, NEW psk \in Psks, NEW i \in Nat, psk # NoPsk => i > 0, ServerHello13(psk, i)
    PROVE  /\ server' \in Servers /\ msg' \in Answers /\ msg' \in Messages
           /\ msg'.type = "serverhello" => (msg'.psk => msg'.index > 0)
           /\ server'.v = server.v /\ msg'.v = 13
           /\ server'.chosen = psk /\ server'.resumed = (psk.type = "resumption")
           /\ server'.pc \in {"wait", "done"} /\ msg'.type \in {"retry", "serverhello"}
           /\ msg'.type = "retry" => server'.pc = "wait"
           /\ server'.tickets_sent = server.tickets_sent /\ server'.tickets_to_send = server.tickets_to_send
  <1>1. server \in Servers /\ client \in Clients /\ msg \in Hellos
    BY DEF TypeOK, ClientHelloRecv13, Messages, Answers, None
  <1> DEFINE suite == s2n_set_cipher_as_server(psk)
             retry == client.setup.retry /\ server.first = 0
             secret == <<conns>> \o psk.secret
  <1>2. suite \in Nat
    <2>1. client.setup.prefer \in Nat
      BY <1>1 DEF Clients, Setups, NoSetup
    <2> QED
      BY <2>1 DEF s2n_set_cipher_as_server, Psks
  <1>3. secret \in Secrets
    BY DEF Psks, Secrets, Atoms, TypeOK
  <1>4. msg.sid \in Int
    BY <1>1 DEF Hellos
  <1>5. server' = [server EXCEPT
           !.pc = IF retry THEN "wait" ELSE "done", !.chosen = psk, !.index = i,
           !.first = IF retry THEN suite ELSE server.first,
           !.suite = suite, !.secret = secret, !.resumed = psk.type = "resumption"]
    BY DEF ServerHello13
  <1>6. msg' = [type |-> IF retry THEN "retry" ELSE "serverhello", v |-> 13, suite |-> suite,
                psk |-> psk # NoPsk, index |-> i, sid |-> msg.sid, ems |-> FALSE, nst |-> FALSE]
    BY DEF ServerHello13
  <1> HIDE DEF suite, retry, secret
  <1>7. server' \in Servers
    BY <1>1, <1>2, <1>3, <1>5 DEF Servers
  <1>8. msg' \in Answers
    BY <1>2, <1>4, <1>6 DEF Answers
  <1>9. msg' \in Messages
    BY <1>8 DEF Messages
  <1>10. msg'.psk => msg'.index > 0
    BY <1>6
  <1>11. /\ server'.v = server.v /\ server'.chosen = psk /\ server'.resumed = (psk.type = "resumption")
         /\ server'.pc = IF retry THEN "wait" ELSE "done"
         /\ server'.tickets_sent = server.tickets_sent /\ server'.tickets_to_send = server.tickets_to_send
    BY <1>1, <1>5 DEF Servers
  <1>12. msg'.v = 13 /\ msg'.type = IF retry THEN "retry" ELSE "serverhello"
    BY <1>6
  <1> QED
    BY <1>7, <1>8, <1>9, <1>10, <1>11, <1>12

LEMMA TypeHello13 ==
    ASSUME TypeOK, ClientHelloRecv13
    PROVE  TypeOK'
  <1>1. server' \in Servers /\ msg' \in Messages /\ (msg'.type = "serverhello" => (msg'.psk => msg'.index > 0))
    <2>1. CASE ServerFail
      BY <2>1, TypeServerFail
    <2>2. CASE ServerHello13(NoPsk, 0)
      BY <2>2, Blanks, Hello13Types
    <2>3. ASSUME NEW i \in s2n_client_psk_recv, ServerHello13(ServerPsk(i), i), i \in Nat \ {0}
          PROVE  server' \in Servers /\ msg' \in Messages /\ (msg'.type = "serverhello" => (msg'.psk => msg'.index > 0))
      <3>1. ServerPsk(i) \in Psks
        BY <2>3, ChosenPsk DEF ClientHelloRecv13
      <3> QED
        BY <2>3, <3>1, Hello13Types
    <2> QED
      BY <2>1, <2>2, <2>3, TakenHello13
  <1> QED
    BY <1>1 DEF TypeOK, ClientHelloRecv13

(* The TLS1.2 server decides: it fails, or resumes, or does not.           *)
Decides12 == s2n_conn_set_handshake_type_ticket \/ s2n_resume_from_cache

LEMMA Decided12 ==
    ASSUME TypeOK, Decides12, server.v = 12, msg.type = "hello"
    PROVE  /\ UNCHANGED <<plan, now, added, keys, conns, client, nsts, store, cache, nst>>
           /\ server.pc = "type"
           /\ server' \in Servers /\ msg' \in Messages
           /\ server'.v = 12 /\ server'.chosen = server.chosen
           /\ \/ server'.pc = "failed" /\ msg'.type = "alert"
              \/ server'.pc \in {"nst", "finish", "store"} /\ msg'.type = "serverhello" /\ msg'.v = 12 /\ ~msg'.psk
  <1>0. msg.ticket \in Tickets /\ msg.ems \in BOOLEAN
    BY DEF TypeOK, Messages, Hellos, Answers, None
  <1>1. server \in Servers
    BY DEF TypeOK
  <1>2. ASSUME NEW s \in Servers, server' = s, Hello12(s)
        PROVE  msg' \in Messages /\ msg'.type = "serverhello" /\ msg'.v = 12 /\ ~msg'.psk
    <2>1. msg' \in Answers
      BY <1>2 DEF Hello12, Answers, Servers
    <2> QED
      BY <1>2, <2>1 DEF Hello12, Messages
  <1>3. ASSUME NEW t \in Tickets, Resume12(t)
        PROVE  /\ server' \in Servers /\ msg' \in Messages /\ server'.v = 12 /\ server'.chosen = server.chosen
               /\ server'.pc \in {"nst", "finish"} /\ msg'.type = "serverhello" /\ msg'.v = 12 /\ ~msg'.psk
    <2>1. PICK s : /\ s = [server EXCEPT !.pc = IF server.status = "new" THEN "nst" ELSE "finish",
                                         !.secret = t.secret, !.resumed = TRUE]
                   /\ server' = s /\ Hello12(s)
      BY <1>3 DEF Resume12
    <2>2. t.secret \in Secrets
      BY DEF Tickets
    <2>3. s \in Servers /\ s.v = 12 /\ s.chosen = server.chosen /\ s.pc \in {"nst", "finish"}
      BY <1>1, <2>1, <2>2 DEF Servers
    <2> QED
      BY <1>2, <2>1, <2>3
  <1>4. ASSUME NEW status \in {None, "decrypt", "new"}, FullHandshake12(status)
        PROVE  /\ server' \in Servers /\ msg' \in Messages /\ server'.v = 12 /\ server'.chosen = server.chosen
               /\ server'.pc = "store" /\ msg'.type = "serverhello" /\ msg'.v = 12 /\ ~msg'.psk
    <2>1. PICK s : /\ s = [server EXCEPT !.pc = "store", !.secret = <<conns>>, !.sid = -conns,
                                         !.status = status, !.ems = msg.ems]
                   /\ server' = s /\ Hello12(s)
      BY <1>4 DEF FullHandshake12
    <2>2. <<conns>> \in Secrets /\ -conns \in Int
      BY DEF TypeOK, Secrets, Atoms
    <2>3. s \in Servers /\ s.v = 12 /\ s.chosen = server.chosen /\ s.pc = "store"
      BY <1>0, <1>1, <1>4, <2>1, <2>2 DEF Servers
    <2> QED
      BY <1>2, <2>1, <2>3
  <1>5. ASSUME ServerFail
        PROVE  /\ server' \in Servers /\ msg' \in Messages /\ server'.v = 12 /\ server'.chosen = server.chosen
               /\ server'.pc = "failed" /\ msg'.type = "alert"
    BY <1>1, <1>5, TypeServerFail DEF ServerFail, Servers
  <1>6. Entry \in Tickets
    BY Blanks DEF Entry, TypeOK
  <1>7. server.status \in {None, "decrypt", "new"}
    BY <1>1 DEF Servers
  <1>8. CASE s2n_conn_set_handshake_type_ticket
    <2>1. \/ ServerFail \/ Resume12(msg.ticket)
          \/ FullHandshake12("new") \/ FullHandshake12(server.status)
      BY <1>8 DEF s2n_conn_set_handshake_type_ticket, TicketDeclined
    <2>2. /\ UNCHANGED <<plan, now, added, keys, conns, client, nsts, store, cache, nst>>
          /\ server.pc = "type"
      BY <1>8 DEF s2n_conn_set_handshake_type_ticket
    <2> QED
      BY <1>0, <1>3, <1>4, <1>5, <1>7, <2>1, <2>2
  <1>9. CASE s2n_resume_from_cache
    <2>1. ServerFail \/ Resume12(Entry) \/ FullHandshake12(server.status)
      BY <1>9 DEF s2n_resume_from_cache
    <2>2. /\ UNCHANGED <<plan, now, added, keys, conns, client, nsts, store, cache, nst>>
          /\ server.pc = "type"
      BY <1>9 DEF s2n_resume_from_cache
    <2> QED
      BY <1>3, <1>4, <1>5, <1>6, <1>7, <2>1, <2>2
  <1> QED
    BY <1>8, <1>9 DEF Decides12

LEMMA TypeHello12 ==
    ASSUME TypeOK, ClientHelloRecv12
    PROVE  TypeOK' /\ server'.pc = "type" /\ server'.v = 12 /\ server'.chosen = server.chosen
  <1>1. server \in Servers /\ msg \in Hellos /\ client.setup.prefer \in Nat
    BY DEF TypeOK, ClientHelloRecv12, Messages, Answers, None, Clients, Setups, NoSetup
  <1>2. msg.sid \in Int /\ msg.ems \in BOOLEAN
    BY <1>1 DEF Hellos
  <1>3. s2n_client_session_ticket_recv(msg.ticket) \in {None, "decrypt", "new"}
    BY DEF s2n_client_session_ticket_recv
  <1>4. server' \in Servers /\ server'.pc = "type" /\ server'.v = 12 /\ server'.chosen = server.chosen
    BY <1>1, <1>2, <1>3 DEF ClientHelloRecv12, Servers
  <1> QED
    BY <1>4 DEF ClientHelloRecv12, TypeOK

(* The random choice is among the keys the server has.                     *)
LEMMA ChosenKey ==
    ASSUME TypeOK
    PROVE  \A k \in s2n_get_ticket_encrypt_decrypt_key : k \in keys /\ k \in TicketKeys /\ k.name \in Names
  <1>1. s2n_get_ticket_encrypt_decrypt_key \subseteq keys
    BY DEF s2n_get_ticket_encrypt_decrypt_key, s2n_compute_weight_of_encrypt_decrypt_keys, EncryptKeys
  <1> QED
    BY <1>1 DEF TypeOK, TicketKeys

LEMMA TypeStore ==
    ASSUME TypeOK, s2n_store_to_cache
    PROVE  TypeOK' /\ server'.v = server.v /\ server'.chosen = server.chosen /\ server'.pc \in {"nst", "finish"}
  <1>1. server' \in Servers /\ server'.v = server.v /\ server'.chosen = server.chosen
        /\ server'.pc \in {"nst", "finish"}
    BY DEF s2n_store_to_cache, TypeOK, Servers
  <1>2. \A x \in DOMAIN cache' : cache'[x] \in Tickets
    <2>1. CASE UNCHANGED cache
      BY <2>1 DEF TypeOK
    <2>2. ASSUME NEW k \in s2n_get_ticket_encrypt_decrypt_key,
                 cache' = [id \in DOMAIN cache \cup {server.sid} |->
                             IF id = server.sid THEN s2n_tls12_serialize_resumption_state(k.name, server)
                             ELSE cache[id]]
          PROVE  \A x \in DOMAIN cache' : cache'[x] \in Tickets
      <3> DEFINE t == s2n_tls12_serialize_resumption_state(k.name, server)
      <3>1. t \in Tickets
        BY ChosenKey, WrittenTypes
      <3> HIDE DEF t
      <3>2. cache' = [id \in DOMAIN cache \cup {server.sid} |-> IF id = server.sid THEN t ELSE cache[id]]
        BY <2>2 DEF t
      <3> QED
        BY <3>1, <3>2 DEF TypeOK
    <2> QED
      BY <2>1, <2>2 DEF s2n_store_to_cache
  <1> QED
    BY <1>1, <1>2 DEF s2n_store_to_cache, TypeOK

(* The lesser of the four limits of a ticket's life.                       *)
LEMMA LeastOfFour ==
    ASSUME NEW a \in Int, NEW b \in Int, NEW c \in Int, NEW d \in Int
    PROVE  /\ Min({a, b, c, d}) \in {a, b, c, d}
           /\ Min({a, b, c, d}) <= a /\ Min({a, b, c, d}) <= b
           /\ Min({a, b, c, d}) <= c /\ Min({a, b, c, d}) <= d
  <1>1. \E x \in {a, b, c, d} : \A y \in {a, b, c, d} : x <= y
    OBVIOUS
  <1> DEFINE m == Min({a, b, c, d})
  <1>2. m \in {a, b, c, d} /\ \A y \in {a, b, c, d} : m <= y
    BY <1>1 DEF Min
  <1> QED
    BY <1>2

LEMMA LifetimeBounds ==
    ASSUME TypeOK, NEW k \in TicketKeys
    PROVE  /\ TicketLifetime(k) \in Int
           /\ TicketLifetime(k) <= KeyLeft(k) /\ TicketLifetime(k) <= SessionLife
           /\ TicketLifetime(k) <= MaterialLife /\ TicketLifetime(k) <= Week
           /\ KeyLeft(k) = Expiry(k) - now /\ Expiry(k) \in Nat /\ MaterialLife \in Int
  <1>1. {EncLife, DecLife, SessionLife, KeyingLife, Week} \subseteq Nat
    BY LifetimesAssumption
  <1>2. now \in Nat /\ k.intro \in Nat /\ server.chosen.expiration \in Nat
    BY DEF TypeOK, TicketKeys, Servers, Psks
  <1>3. Expiry(k) \in Nat
    BY <1>1, <1>2 DEF Expiry
  <1>4. KeyLeft(k) \in Int
    BY <1>2, <1>3 DEF KeyLeft
  <1>5. MaterialLife \in Int
    BY <1>1, <1>2 DEF MaterialLife, MinOf
  <1> QED
    <2> DEFINE a == KeyLeft(k)  b == SessionLife  c == MaterialLife  d == Week
    <2>1. TicketLifetime(k) = Min({a, b, c, d})
      BY DEF TicketLifetime
    <2>2. a \in Int /\ b \in Int /\ c \in Int /\ d \in Int
      BY <1>1, <1>4, <1>5
    <2>3. a = Expiry(k) - now
      BY DEF KeyLeft
    <2> HIDE DEF a, b, c, d
    <2>4. /\ Min({a, b, c, d}) \in {a, b, c, d}
          /\ Min({a, b, c, d}) <= a /\ Min({a, b, c, d}) <= b
          /\ Min({a, b, c, d}) <= c /\ Min({a, b, c, d}) <= d
      BY <2>2, LeastOfFour
    <2>5. TicketLifetime(k) \in Int
      BY <2>1, <2>2, <2>4
    <2>6. TicketLifetime(k) <= a /\ TicketLifetime(k) <= b /\ TicketLifetime(k) <= c /\ TicketLifetime(k) <= d
      BY <2>1, <2>4
    <2> QED
      BY <1>3, <1>5, <2>3, <2>5, <2>6 DEF a, b, c, d

(* The steps in which a ticket is written, or given up.                    *)
Writes ==
    \/ s2n_server_nst_send \/ s2n_tls13_server_nst_send
    \/ s2n_generate_ticket_lifetime \/ s2n_resume_encrypt_session_ticket

LEMMA TypeWrites ==
    ASSUME TypeOK, Writes
    PROVE  /\ TypeOK'
           /\ UNCHANGED <<plan, now, added, keys, conns, client, msg, store, cache>>
           /\ server'.v = server.v /\ server'.chosen = server.chosen
  <1>1. /\ server \in Servers /\ nst \in Writers /\ nsts \in Seq(NewTickets) /\ now \in Nat
        /\ server.tickets_sent \in Nat
    BY DEF TypeOK, Servers
  <1>2. ASSUME NstFails
        PROVE  /\ server' \in Servers /\ nst' \in Writers /\ UNCHANGED nsts
               /\ server'.v = server.v /\ server'.chosen = server.chosen
    BY <1>1, <1>2, Blanks DEF NstFails, Servers
  <1>3. CASE s2n_server_nst_send
    <2>1. ASSUME NEW k \in s2n_get_ticket_encrypt_decrypt_key, nst' = [NstIdle EXCEPT !.pc = "life", !.key = k]
          PROVE  nst' \in Writers
      BY <2>1, Blanks, ChosenKey DEF Writers
    <2> QED
      BY <1>1, <1>2, <1>3, <2>1 DEF s2n_server_nst_send, TypeOK
  <1>4. CASE s2n_tls13_server_nst_send
    <2>1. ASSUME NEW k \in s2n_get_ticket_encrypt_decrypt_key, NEW a \in AgeAdds,
                 nst' = [NstIdle EXCEPT !.pc = "life", !.key = k, !.add = a]
          PROVE  nst' \in Writers
      <3>1. a \in Nat
        BY LifetimesAssumption
      <3> QED
        BY <2>1, <3>1, Blanks, ChosenKey DEF Writers
    <2>2. CASE ~s2n_psk_validate_keying_material
      <3>1. server' = [server EXCEPT !.tickets_to_send = server.tickets_sent] /\ UNCHANGED <<nst, nsts>>
        BY <1>4, <2>2 DEF s2n_tls13_server_nst_send
      <3>2. server' \in Servers /\ server'.v = server.v /\ server'.chosen = server.chosen
        BY <1>1, <3>1 DEF Servers
      <3> QED
        BY <1>4, <3>1, <3>2 DEF s2n_tls13_server_nst_send, TypeOK
    <2> QED
      BY <1>1, <1>2, <1>4, <2>1, <2>2 DEF s2n_tls13_server_nst_send, TypeOK
  <1>5. CASE s2n_generate_ticket_lifetime
    <2>1. nst.key \in TicketKeys
      BY <1>1 DEF Writers
    <2>2. TicketLifetime(nst.key) \in Int
      BY <2>1, LifetimeBounds
    <2>3. ASSUME nst' = [nst EXCEPT !.pc = "encrypt", !.life = TicketLifetime(nst.key), !.at = now]
          PROVE  nst' \in Writers
      BY <1>1, <2>2, <2>3 DEF Writers
    <2> QED
      BY <1>1, <1>2, <1>5, <2>3 DEF s2n_generate_ticket_lifetime, TypeOK
  <1>6. CASE s2n_resume_encrypt_session_ticket
    <2> DEFINE t13 == s2n_tls13_serialize_resumption_state(nst.key.name, server)
               t12 == s2n_tls12_serialize_resumption_state(nst.key.name, server)
               n13 == [ticket |-> t13, life |-> nst.life, add |-> nst.add, nonce |-> server.tickets_sent]
               n12 == [ticket |-> t12, life |-> nst.life, add |-> 0, nonce |-> 0]
    <2>1. nst.key.name \in Names /\ nst.life \in Int /\ nst.add \in Nat
      BY <1>1 DEF Writers, TicketKeys
    <2>2. t13 \in Tickets /\ t12 \in Tickets
      BY <2>1, WrittenTypes
    <2>3. nsts' = Append(nsts, IF server.v = 13 THEN n13 ELSE n12)
      BY <1>6 DEF s2n_resume_encrypt_session_ticket
    <2> HIDE DEF t13, t12
    <2>4. n13 \in NewTickets /\ n12 \in NewTickets
      BY <1>1, <2>1, <2>2 DEF NewTickets
    <2> HIDE DEF n13, n12
    <2>5. nsts' \in Seq(NewTickets)
      BY <1>1, <2>3, <2>4
    <2>6. server' \in Servers /\ server'.v = server.v /\ server'.chosen = server.chosen
      <3> DEFINE pc == IF server.v = 12 THEN "finish" ELSE server.pc
                 sent == server.tickets_sent + 1
      <3>1. server' = [server EXCEPT !.pc = pc, !.tickets_sent = sent]
        BY <1>6 DEF s2n_resume_encrypt_session_ticket, TicketsSent
      <3>2. sent \in Nat
        BY <1>1
      <3>3. pc \in {"idle", "wait", "type", "store", "nst", "finish", "done", "failed"}
        BY <1>1 DEF Servers
      <3> HIDE DEF pc, sent
      <3> QED
        BY <1>1, <3>1, <3>2, <3>3 DEF Servers
    <2> QED
      BY <1>6, <2>5, <2>6, Blanks DEF s2n_resume_encrypt_session_ticket, TypeOK
  <1> QED
    BY <1>3, <1>4, <1>5, <1>6 DEF Writes

LEMMA TypeRest ==
    ASSUME TypeOK, s2n_connection_add_new_tickets_to_send \/ ServerFinished12 \/ Close
    PROVE  TypeOK' /\ server'.v = server.v /\ server'.chosen = server.chosen
  <1>1. server \in Servers
    BY DEF TypeOK
  <1>2. server' \in Servers /\ server'.v = server.v /\ server'.chosen = server.chosen
    BY <1>1 DEF s2n_connection_add_new_tickets_to_send, ServerFinished12, Close, Servers
  <1>3. CASE s2n_connection_add_new_tickets_to_send
    BY <1>2, <1>3 DEF s2n_connection_add_new_tickets_to_send, TypeOK
  <1>4. CASE ServerFinished12
    BY <1>2, <1>4 DEF ServerFinished12, TypeOK, Messages
  <1>5. CASE Close
    BY <1>2, <1>5, Blanks DEF Close, TypeOK, Messages, None
  <1> QED
    BY <1>2, <1>3, <1>4, <1>5

----------------------------------------------------------------------------
(* Which step the peers are at.  Tickets of TLS1.3 are written when both   *)
(* are done, those of TLS1.2 before the server has finished.               *)
Control ==
    /\ client.pc = "idle" => server.pc = "idle" /\ msg.type = None
    /\ client.pc = "hello" => server.pc = "wait" /\ msg.type # "hello"
    /\ client.pc = "key" => server.v = 12
    /\ client.pc = "done" => server.v = 13 \/ (server.v = 12 /\ server.pc = "done")
    /\ nst.pc # "idle" =>
         \/ server.v = 12 /\ server.pc = "nst"
         \/ server.v = 13 /\ server.pc = "done" /\ client.pc = "done"
    /\ nsts # <<>> =>
         \/ server.v = 12 /\ server.pc \in {"finish", "done"} /\ client.pc # "done"
         \/ server.v = 13 /\ client.pc = "done"
    /\ msg.type = "retry" => server.pc = "wait"
    /\ msg.type = "finished" => server.v = 12 /\ server.pc = "done"
    /\ msg.type = "serverhello" => msg.v = server.v
    /\ server.pc = "type" => msg.type = "hello"
    /\ server.pc \in {"type", "store", "nst", "finish"} => server.v = 12

(* The record fields that a step of the client leaves alone.               *)
LEMMA ClientMoves ==
    ASSUME TypeOK, s2n_set_hello_retry_required \/ AlertRecv \/ ServerFinishedRecv12 \/ s2n_tls13_server_nst_recv
                   \/ ServerHelloRecv12 \/ ServerHelloRecv13 \/ s2n_client_hello_send
    PROVE  /\ client'.setup = client.setup /\ client'.psks = client.psks /\ client'.session = client.session
           /\ UNCHANGED <<plan, now, added, keys, conns, server, cache, nst>>
           /\ s2n_set_hello_retry_required => client'.pc = "hello" /\ UNCHANGED <<msg, nsts, store>>
           /\ AlertRecv => client'.pc = "failed" /\ UNCHANGED <<msg, nsts, store>>
           /\ ServerFinishedRecv12 => client'.pc = "done" /\ nsts' = <<>> /\ UNCHANGED msg
           /\ s2n_tls13_server_nst_recv => client' = client /\ UNCHANGED msg
           /\ ServerHelloRecv12 => client'.pc \in {"key", "failed"} /\ UNCHANGED <<msg, nsts, store>>
           /\ ServerHelloRecv13 => client'.pc \in {"done", "failed"} /\ UNCHANGED <<msg, nsts, store>>
           /\ s2n_client_hello_send =>
                /\ UNCHANGED <<nsts, store>>
                /\ \/ client'.pc = "failed" /\ UNCHANGED msg
                   \/ client'.pc = "sent" /\ msg'.type = "hello"
  <1>1. client \in Clients
    BY DEF TypeOK
  <1>2. CASE s2n_set_hello_retry_required
    BY <1>1, <1>2 DEF s2n_set_hello_retry_required, Clients, AlertRecv, ServerFinishedRecv12,
                      s2n_tls13_server_nst_recv, ServerHelloRecv12, ServerHelloRecv13, s2n_client_hello_send
  <1>3. CASE AlertRecv
    BY <1>1, <1>3 DEF s2n_set_hello_retry_required, Clients, AlertRecv, ServerFinishedRecv12, ClientFail,
                      s2n_tls13_server_nst_recv, ServerHelloRecv12, ServerHelloRecv13, s2n_client_hello_send
  <1>4. CASE ServerFinishedRecv12
    BY <1>1, <1>4 DEF s2n_set_hello_retry_required, Clients, AlertRecv, ServerFinishedRecv12,
                      s2n_tls13_server_nst_recv, ServerHelloRecv12, ServerHelloRecv13, s2n_client_hello_send
  <1>5. CASE s2n_tls13_server_nst_recv
    BY <1>1, <1>5 DEF s2n_set_hello_retry_required, Clients, AlertRecv, ServerFinishedRecv12,
                      s2n_tls13_server_nst_recv, ServerHelloRecv12, ServerHelloRecv13, s2n_client_hello_send
  <1>6. CASE ServerHelloRecv12
    BY <1>1, <1>6 DEF s2n_set_hello_retry_required, Clients, AlertRecv, ServerFinishedRecv12, ClientFail,
                      s2n_tls13_server_nst_recv, ServerHelloRecv12, ServerHelloRecv13, s2n_client_hello_send
  <1>7. CASE ServerHelloRecv13
    BY <1>1, <1>7 DEF s2n_set_hello_retry_required, Clients, AlertRecv, ServerFinishedRecv12, ClientFail,
                      s2n_tls13_server_nst_recv, ServerHelloRecv12, ServerHelloRecv13, s2n_client_hello_send
  <1>8. CASE s2n_client_hello_send
    <2>1. \/ client' = [client EXCEPT !.pc = "failed"] /\ UNCHANGED msg
          \/ client' = [client EXCEPT !.pc = "sent"] /\ msg'.type = "hello"
      BY <1>8 DEF s2n_client_hello_send, ClientFail
    <2> QED
      BY <1>1, <1>8, <2>1 DEF s2n_set_hello_retry_required, Clients, AlertRecv, ServerFinishedRecv12,
                      s2n_tls13_server_nst_recv, ServerHelloRecv12, ServerHelloRecv13, s2n_client_hello_send
  <1> QED
    BY <1>2, <1>3, <1>4, <1>5, <1>6, <1>7, <1>8

(* What the steps that write a ticket do to the server and to the queue.   *)
LEMMA WriterMoves ==
    ASSUME TypeOK, Writes
    PROVE  /\ nst.pc = "idle" \/ s2n_generate_ticket_lifetime \/ s2n_resume_encrypt_session_ticket
           /\ \/ NstFails /\ server.pc = "nst" /\ nst.pc = "idle"
              \/ NstFails /\ server.v = 13 /\ server.pc = "done" /\ client.pc = "done" /\ nst.pc = "idle"
              \/ NstFails /\ nst.pc = "life"
              \/ /\ s2n_server_nst_send /\ UNCHANGED <<server, nsts>>
                 /\ nst'.pc = "life" /\ nst'.key \in keys /\ nst'.add = 0
              \/ /\ s2n_tls13_server_nst_send /\ UNCHANGED <<server, nsts>>
                 /\ nst'.pc = "life" /\ nst'.key \in keys /\ nst'.add \in AgeAdds
              \/ /\ s2n_tls13_server_nst_send /\ UNCHANGED <<nst, nsts>>
                 /\ server' = [server EXCEPT !.tickets_to_send = server.tickets_sent]
              \/ /\ s2n_generate_ticket_lifetime /\ UNCHANGED <<server, nsts>>
                 /\ nst' = [nst EXCEPT !.pc = "encrypt", !.life = TicketLifetime(nst.key), !.at = now]
                 /\ LifetimeKnown(nst.key) /\ (server.v = 13 => TicketLifetime(nst.key) > 0)
              \/ s2n_resume_encrypt_session_ticket
  <1>1. NstIdle \in Writers /\ NstIdle.pc = "idle" /\ NstIdle.add = 0
    BY Blanks DEF NstIdle
  <1>2. CASE s2n_server_nst_send
    <2>1. ASSUME NEW k \in s2n_get_ticket_encrypt_decrypt_key, nst' = [NstIdle EXCEPT !.pc = "life", !.key = k]
          PROVE  nst'.pc = "life" /\ nst'.key \in keys /\ nst'.add = 0
      BY <1>1, <2>1, ChosenKey DEF Writers
    <2> QED
      BY <1>2, <2>1 DEF s2n_server_nst_send
  <1>3. CASE s2n_tls13_server_nst_send
    <2>1. ASSUME NEW k \in s2n_get_ticket_encrypt_decrypt_key, NEW a \in AgeAdds,
                 nst' = [NstIdle EXCEPT !.pc = "life", !.key = k, !.add = a]
          PROVE  nst'.pc = "life" /\ nst'.key \in keys /\ nst'.add \in AgeAdds
      BY <1>1, <2>1, ChosenKey DEF Writers
    <2> QED
      BY <1>3, <2>1 DEF s2n_tls13_server_nst_send
  <1>4. CASE s2n_generate_ticket_lifetime
    BY <1>4 DEF s2n_generate_ticket_lifetime
  <1> QED
    BY <1>2, <1>3, <1>4 DEF Writes

LEMMA ControlStep ==
    ASSUME TypeOK, Control, [Next]_vars
    PROVE  TypeOK' /\ Control'
  <1>0. server \in Servers /\ client \in Clients
    BY DEF TypeOK
  <1>1. CASE Tick \/ s2n_config_add_ticket_crypto_key
    BY <1>1, TypeKeys DEF Tick, s2n_config_add_ticket_crypto_key, Control
  <1>2. CASE s2n_connection_add_new_tickets_to_send
    <2>1. server'.pc = server.pc /\ server'.v = server.v
      BY <1>0, <1>2 DEF s2n_connection_add_new_tickets_to_send, Servers
    <2> QED
      BY <1>2, <2>1, TypeRest DEF s2n_connection_add_new_tickets_to_send, Control
  <1>3. CASE Connect
    <2>1. server'.pc = "wait" /\ client.pc = "idle" /\ client'.pc = "hello"
      <3>1. client.pc = "idle"
        BY <1>3 DEF Connect
      <3> QED
        BY <1>3, <3>1, TypeConnect
    <2>2. nst.pc = "idle" /\ nsts = <<>> /\ msg.type = None /\ UNCHANGED <<nst, nsts, msg>>
      BY <1>3, <2>1 DEF Connect, Control
    <2> QED
      BY <1>3, <2>1, <2>2, TypeConnect DEF Control, None
  <1>4. CASE s2n_client_hello_send
    BY <1>4, TypeHello, ClientMoves DEF Control, s2n_client_hello_send
  <1>5. CASE s2n_set_hello_retry_required
    BY <1>5, TypeAnswers, ClientMoves DEF Control, s2n_set_hello_retry_required
  <1>6. CASE ServerHelloRecv13
    BY <1>6, TypeServerHello13, ClientMoves DEF Control, ServerHelloRecv13
  <1>7. CASE ServerHelloRecv12
    BY <1>7, TypeServerHello12, ClientMoves DEF Control, ServerHelloRecv12
  <1>8. CASE AlertRecv
    BY <1>8, TypeAnswers, ClientMoves DEF Control, AlertRecv
  <1>9. CASE ServerFinishedRecv12
    BY <1>9, TypeKept, ClientMoves DEF Control, ServerFinishedRecv12
  <1>10. CASE s2n_tls13_server_nst_recv
    BY <1>10, TypeKept, ClientMoves DEF Control, s2n_tls13_server_nst_recv
  <1>11. CASE ClientHelloRecv13
    <2>1. server.pc = "wait" /\ server.v = 13 /\ msg.type = "hello"
          /\ UNCHANGED <<client, nsts, nst>>
      BY <1>11 DEF ClientHelloRecv13
    <2>2. /\ server'.v = 13 /\ server'.pc \in {"wait", "done", "failed"}
          /\ \/ msg'.type = "alert"
             \/ msg'.type = "retry" /\ server'.pc = "wait"
             \/ msg'.type = "serverhello" /\ msg'.v = 13
      <3>1. CASE ServerFail
        BY <1>0, <2>1, <3>1 DEF ServerFail, Servers
      <3>2. CASE ServerHello13(NoPsk, 0)
        BY <1>11, <2>1, <3>2, Blanks, Hello13Types
      <3>3. ASSUME NEW i \in s2n_client_psk_recv, ServerHello13(ServerPsk(i), i), i \in Nat \ {0}
            PROVE  /\ server'.v = 13 /\ server'.pc \in {"wait", "done"}
                   /\ \/ msg'.type = "retry" /\ server'.pc = "wait"
                      \/ msg'.type = "serverhello" /\ msg'.v = 13
        <4>1. ServerPsk(i) \in Psks
          BY <2>1, ChosenPsk
        <4> QED
          BY <1>11, <2>1, <3>3, <4>1, Hello13Types
      <3> QED
        BY <1>11, <3>1, <3>2, <3>3, TakenHello13
    <2>3. client.pc \notin {"idle", "hello", "key"}
      BY <2>1 DEF Control, None
    <2> QED
      BY <1>11, <2>1, <2>2, <2>3, TypeHello13 DEF Control, None
  <1>12. CASE ClientHelloRecv12
    <2>1. server.pc = "wait" /\ server.v = 12 /\ msg.type = "hello"
          /\ UNCHANGED <<client, nsts, nst, msg>>
      BY <1>12 DEF ClientHelloRecv12
    <2>2. client.pc \notin {"idle", "hello"}
      BY <2>1 DEF Control, None
    <2> QED
      BY <1>12, <2>1, <2>2, TypeHello12 DEF Control, None
  <1>13. CASE Decides12
    <2>1. server.pc = "type"
      BY <1>13 DEF Decides12, s2n_conn_set_handshake_type_ticket, s2n_resume_from_cache
    <2>2. server.v = 12 /\ msg.type = "hello"
      BY <2>1 DEF Control
    <2>3. client.pc \notin {"idle", "hello", "done"} /\ nst.pc = "idle" /\ nsts = <<>>
      BY <2>1, <2>2 DEF Control, None
    <2>4. /\ UNCHANGED <<plan, now, added, keys, conns, client, nsts, store, cache, nst>>
          /\ server' \in Servers /\ msg' \in Messages /\ server'.v = 12
          /\ \/ server'.pc = "failed" /\ msg'.type = "alert"
             \/ server'.pc \in {"nst", "finish", "store"} /\ msg'.type = "serverhello" /\ msg'.v = 12 /\ ~msg'.psk
      BY <1>13, <2>2, Decided12
    <2>5. TypeOK'
      BY <2>4 DEF TypeOK
    <2>6. Control'
      BY <2>2, <2>3, <2>4 DEF Control, None
    <2> QED
      BY <2>5, <2>6
  <1>14. CASE s2n_store_to_cache
    BY <1>14, TypeStore DEF s2n_store_to_cache, Control
  <1>15. CASE Writes
    <2>1. /\ TypeOK' /\ server'.v = server.v
          /\ UNCHANGED <<plan, now, added, keys, conns, client, msg, store, cache>>
      BY <1>15, TypeWrites
    <2>2. ASSUME NstFails, server.pc = "nst" \/ server.v = 13 \/ nst.pc = "life"
          PROVE  Control'
      <3>1. nst'.pc = "idle" /\ nsts' = nsts
        BY <2>2 DEF NstFails, NstIdle
      <3>2. CASE server.v = 12
        <4>1. server'.pc = "finish"
          BY <1>0, <2>2, <3>2 DEF NstFails, Servers
        <4>2. server.pc = "nst"
          BY <2>2, <3>2 DEF Control
        <4> QED
          BY <2>1, <3>1, <3>2, <4>1, <4>2 DEF Control, None
      <3>3. CASE server.v # 12
        BY <2>1, <2>2, <3>1, <3>3 DEF NstFails, Control
      <3> QED
        BY <3>2, <3>3
    <2>4. CASE s2n_resume_encrypt_session_ticket
      <3>1. nst.pc = "encrypt" /\ nst'.pc = "idle"
            /\ server'.pc = IF server.v = 12 THEN "finish" ELSE server.pc
        BY <1>0, <2>4 DEF s2n_resume_encrypt_session_ticket, Servers, NstIdle
      <3> QED
        BY <2>1, <3>1 DEF Control, None
    <2>5. CASE s2n_tls13_server_nst_send /\ UNCHANGED <<nst, nsts>>
               /\ server' = [server EXCEPT !.tickets_to_send = server.tickets_sent]
      <3>1. server'.pc = server.pc
        BY <1>0, <2>5 DEF Servers
      <3> QED
        BY <2>1, <2>5, <3>1 DEF Control
    <2>6. CASE s2n_server_nst_send /\ UNCHANGED <<server, nsts>> /\ nst'.pc = "life"
      <3>1. server.pc = "nst"
        BY <2>6 DEF s2n_server_nst_send
      <3> QED
        BY <2>1, <2>6, <3>1 DEF Control
    <2>7. CASE s2n_tls13_server_nst_send /\ UNCHANGED <<server, nsts>> /\ nst'.pc = "life"
      <3>1. server.v = 13 /\ server.pc = "done" /\ client.pc = "done"
        BY <2>7 DEF s2n_tls13_server_nst_send
      <3> QED
        BY <2>1, <2>7, <3>1 DEF Control
    <2>8. CASE s2n_generate_ticket_lifetime /\ UNCHANGED <<server, nsts>>
               /\ nst' = [nst EXCEPT !.pc = "encrypt", !.life = TicketLifetime(nst.key), !.at = now]
      <3>1. nst.pc = "life"
        BY <2>8 DEF s2n_generate_ticket_lifetime
      <3>2. nst'.pc = "encrypt"
        BY <2>8 DEF TypeOK, Writers
      <3>3. server.pc = "nst" \/ (server.v = 13 /\ server.pc = "done" /\ client.pc = "done")
        BY <3>1 DEF Control
      <3> QED
        BY <2>1, <2>8, <3>2, <3>3 DEF Control
    <2>9. Control'
      BY <1>15, <2>2, <2>4, <2>5, <2>6, <2>7, <2>8, WriterMoves
    <2> QED
      BY <2>1, <2>9
  <1>16. CASE ServerFinished12
    <2>1. server'.pc = "done" /\ server'.v = server.v /\ server.pc = "finish" /\ msg'.type = "finished"
          /\ client.pc = "key" /\ UNCHANGED <<client, nst, nsts>>
      BY <1>0, <1>16 DEF ServerFinished12, Servers
    <2> QED
      BY <1>16, <2>1, TypeRest DEF Control, None
  <1>17. CASE Close
    <2>1. client'.pc = "idle" /\ server'.pc = "idle" /\ msg'.type = None /\ nsts' = <<>>
          /\ nst.pc = "idle" /\ UNCHANGED nst
      BY <1>0, <1>17 DEF Close, Resting, Servers
    <2> QED
      BY <1>17, <2>1, TypeRest DEF Control, None
  <1>18. CASE UNCHANGED vars
    <2>1. TypeOK'
      BY <1>18 DEF vars, TypeOK
    <2> QED
      BY <1>18, <2>1 DEF vars, Control
  <1> QED
    BY <1>1, <1>2, <1>3, <1>4, <1>5, <1>6, <1>7, <1>8, <1>9, <1>10, <1>11, <1>12, <1>13, <1>14, <1>15, <1>16,
       <1>17, <1>18 DEF Next, ClientStep, ServerStep, Decides12, Writes, Finished

(* Most steps leave the numbers of tickets and the ticket that is being    *)
(* written alone.                                                          *)
SameCounts ==
    /\ server'.v = server.v /\ server'.tickets_sent = server.tickets_sent
    /\ server'.tickets_to_send = server.tickets_to_send
Quiet ==
    \/ Tick \/ s2n_config_add_ticket_crypto_key \/ s2n_client_hello_send \/ s2n_set_hello_retry_required
    \/ ServerHelloRecv13 \/ ServerHelloRecv12 \/ AlertRecv \/ ClientHelloRecv13 \/ ClientHelloRecv12
    \/ Decides12 \/ s2n_store_to_cache \/ ServerFinished12

LEMMA QuietSteps ==
    ASSUME TypeOK, Control, Quiet
    PROVE  SameCounts /\ UNCHANGED <<conns, nst, nsts, store>>
  <1>0. server \in Servers
    BY DEF TypeOK
  <1>1. CASE Tick \/ s2n_config_add_ticket_crypto_key
    BY <1>1 DEF Tick, s2n_config_add_ticket_crypto_key, SameCounts
  <1>2. CASE s2n_client_hello_send \/ s2n_set_hello_retry_required \/ ServerHelloRecv13 \/ ServerHelloRecv12 \/ AlertRecv
    BY <1>2 DEF s2n_client_hello_send, s2n_set_hello_retry_required, ServerHelloRecv13, ServerHelloRecv12, AlertRecv,
                SameCounts
  <1>3. CASE ClientHelloRecv13
    <2>1. UNCHANGED <<conns, nst, nsts, store>> /\ msg.type = "hello"
      BY <1>3 DEF ClientHelloRecv13
    <2>2. SameCounts
      <3>1. CASE ServerFail
        BY <1>0, <3>1 DEF ServerFail, Servers, SameCounts
      <3>2. CASE ServerHello13(NoPsk, 0)
        BY <1>3, <3>2, Blanks, Hello13Types DEF SameCounts
      <3>3. ASSUME NEW i \in s2n_client_psk_recv, ServerHello13(ServerPsk(i), i), i \in Nat \ {0}
            PROVE  SameCounts
        <4>1. ServerPsk(i) \in Psks
          BY <2>1, ChosenPsk
        <4> QED
          BY <1>3, <3>3, <4>1, Hello13Types DEF SameCounts
      <3> QED
        BY <1>3, <3>1, <3>2, <3>3, TakenHello13
    <2> QED
      BY <2>1, <2>2
  <1>4. CASE ClientHelloRecv12
    BY <1>0, <1>4 DEF ClientHelloRecv12, Servers, SameCounts
  <1>5. CASE Decides12
    <2>1. \/ ServerFail \/ \E t : Resume12(t)
          \/ \E status : FullHandshake12(status)
      BY <1>5 DEF Decides12, s2n_conn_set_handshake_type_ticket, s2n_resume_from_cache, TicketDeclined
    <2>2. SameCounts
      <3>1. CASE ServerFail
        BY <1>0, <3>1 DEF ServerFail, Servers, SameCounts
      <3>2. ASSUME NEW t, Resume12(t) PROVE SameCounts
        <4>1. server' = [server EXCEPT !.pc = IF server.status = "new" THEN "nst" ELSE "finish",
                                       !.secret = t.secret, !.resumed = TRUE]
          BY <3>2, Zenon DEF Resume12
        <4> QED
          BY <1>0, <4>1 DEF Servers, SameCounts
      <3>3. ASSUME NEW status, FullHandshake12(status) PROVE SameCounts
        <4>1. server' = [server EXCEPT !.pc = "store", !.secret = <<conns>>, !.sid = -conns,
                                       !.status = status, !.ems = msg.ems]
          BY <3>3, Zenon DEF FullHandshake12
        <4> QED
          BY <1>0, <4>1 DEF Servers, SameCounts
      <3> QED
        BY <2>1, <3>1, <3>2, <3>3
    <2> QED
      BY <1>5, <2>2 DEF Decides12, s2n_conn_set_handshake_type_ticket, s2n_resume_from_cache
  <1>6. CASE s2n_store_to_cache
    BY <1>0, <1>6 DEF s2n_store_to_cache, Servers, SameCounts
  <1>7. CASE ServerFinished12
    BY <1>0, <1>7 DEF ServerFinished12, Servers, SameCounts
  <1> QED
    BY <1>1, <1>2, <1>3, <1>4, <1>5, <1>6, <1>7 DEF Quiet

----------------------------------------------------------------------------
(* The nonces of the tickets on their way: each is used once, and the next *)
(* is the number of tickets sent.                                          *)
Counts ==
    server.v = 13 =>
      /\ server.tickets_sent <= server.tickets_to_send
      /\ nst.pc # "idle" => server.tickets_sent < server.tickets_to_send
      /\ \A i \in 1..Len(nsts) : nsts[i].nonce < server.tickets_sent
      /\ \A i, j \in 1..Len(nsts) : i < j => nsts[i].nonce < nsts[j].nonce

LEMMA CountsStep ==
    ASSUME TypeOK, TypeOK', Control, Counts, [Next]_vars
    PROVE  Counts'
  <1>0. /\ server \in Servers /\ nsts \in Seq(NewTickets) /\ server.tickets_sent \in Nat
        /\ server.tickets_to_send \in Nat
    BY DEF TypeOK, Servers
  <1>1. CASE Quiet
    BY <1>1, QuietSteps DEF SameCounts, Counts
  <1>2. CASE UNCHANGED vars
    BY <1>2 DEF vars, Counts
  <1>3. CASE Connect
    <2>1. nst.pc = "idle" /\ nsts = <<>> /\ UNCHANGED <<nst, nsts>>
      BY <1>3 DEF Connect, Control
    <2>2. server'.tickets_sent = 0 /\ server'.tickets_to_send = InitialTickets /\ InitialTickets \in Nat
      BY <1>3, TypeConnect, LifetimesAssumption
    <2> QED
      BY <2>1, <2>2 DEF Counts
  <1>4. CASE Close
    <2>1. SameCounts /\ nst' = nst /\ nsts' = <<>>
      BY <1>0, <1>4 DEF Close, Servers, SameCounts
    <2> QED
      BY <2>1 DEF SameCounts, Counts
  <1>5. CASE s2n_connection_add_new_tickets_to_send
    <2>1. /\ nst.pc = "idle" /\ UNCHANGED <<nst, nsts>> /\ server'.v = server.v
          /\ server'.tickets_sent = server.tickets_sent
          /\ server'.tickets_to_send = server.tickets_to_send + 1
      BY <1>0, <1>5 DEF s2n_connection_add_new_tickets_to_send, Servers
    <2> QED
      BY <1>0, <2>1 DEF Counts
  <1>6. CASE ServerFinishedRecv12
    BY <1>6 DEF ServerFinishedRecv12, Counts
  <1>7. CASE s2n_tls13_server_nst_recv
    <2>1. nsts # <<>> /\ nsts' = Tail(nsts) /\ UNCHANGED <<server, nst>>
      BY <1>7 DEF s2n_tls13_server_nst_recv
    <2>2. Len(nsts') = Len(nsts) - 1 /\ Len(nsts) \in Nat
      BY <1>0, <2>1
    <2>3. \A i \in 1..Len(nsts') : i + 1 \in 1..Len(nsts) /\ nsts'[i] = nsts[i + 1]
      BY <1>0, <2>1, <2>2
    <2> QED
      BY <2>1, <2>2, <2>3 DEF Counts
  <1>8. CASE Writes
    <2>1. CASE NstFails
      <3>1. SameCounts /\ nsts' = nsts /\ nst'.pc = "idle"
        BY <1>0, <2>1 DEF NstFails, NstIdle, Servers, SameCounts
      <3> QED
        BY <3>1 DEF SameCounts, Counts
    <2>2. CASE s2n_server_nst_send /\ UNCHANGED <<server, nsts>>
      <3>1. server.v = 12
        BY <2>2 DEF s2n_server_nst_send, Control
      <3> QED
        BY <2>2, <3>1 DEF Counts
    <2>3. CASE s2n_tls13_server_nst_send /\ UNCHANGED <<server, nsts>>
      <3>1. server.tickets_sent < server.tickets_to_send
        BY <2>3 DEF s2n_tls13_server_nst_send
      <3> QED
        BY <2>3, <3>1 DEF Counts
    <2>4. CASE s2n_tls13_server_nst_send /\ UNCHANGED <<nst, nsts>>
               /\ server' = [server EXCEPT !.tickets_to_send = server.tickets_sent]
      <3>1. nst.pc = "idle"
        BY <2>4 DEF s2n_tls13_server_nst_send
      <3>2. server'.v = server.v /\ server'.tickets_sent = server.tickets_sent
            /\ server'.tickets_to_send = server.tickets_sent
        BY <1>0, <2>4 DEF Servers
      <3> QED
        BY <1>0, <2>4, <3>1, <3>2 DEF Counts
    <2>5. CASE s2n_generate_ticket_lifetime /\ UNCHANGED <<server, nsts>>
      <3>1. nst.pc = "life"
        BY <2>5 DEF s2n_generate_ticket_lifetime
      <3> QED
        BY <2>5, <3>1 DEF Counts
    <2>6. CASE s2n_resume_encrypt_session_ticket
      <3> SUFFICES ASSUME server.v = 13 PROVE Counts'
        BY <1>8, TypeWrites DEF Counts
      <3>1. PICK n : /\ nsts' = Append(nsts, n)
                     /\ n.nonce = server.tickets_sent
        <4> DEFINE n == [ticket |-> s2n_tls13_serialize_resumption_state(nst.key.name, server), life |-> nst.life,
                         add |-> nst.add, nonce |-> server.tickets_sent]
        <4>1. nsts' = Append(nsts, n)
          BY <2>6 DEF s2n_resume_encrypt_session_ticket
        <4>2. n.nonce = server.tickets_sent
          OBVIOUS
        <4> QED
          BY <4>1, <4>2
      <3>2. nst.pc = "encrypt" /\ nst'.pc = "idle"
        BY <2>6 DEF s2n_resume_encrypt_session_ticket, NstIdle
      <3>3. server'.v = 13 /\ server'.tickets_sent = server.tickets_sent + 1
            /\ server'.tickets_to_send = server.tickets_to_send
        BY <1>0, <2>6 DEF s2n_resume_encrypt_session_ticket, TicketsSent, Servers
      <3>4. Len(nsts) \in Nat /\ Len(nsts') = Len(nsts) + 1
        BY <1>0, <3>1
      <3>5. \A i \in 1..Len(nsts) : nsts'[i] = nsts[i] /\ nsts[i].nonce \in Nat
        <4>1. \A i \in 1..Len(nsts) : nsts[i] \in NewTickets
          BY <1>0
        <4>2. \A i \in 1..Len(nsts) : nsts'[i] = nsts[i]
          BY <1>0, <3>1
        <4> QED
          BY <4>1, <4>2 DEF NewTickets
      <3>6. nsts'[Len(nsts) + 1] = n
        BY <1>0, <3>1
      <3>7. \A i \in 1..Len(nsts') : nsts'[i].nonce < server.tickets_sent + 1
        <4> SUFFICES ASSUME NEW i \in 1..Len(nsts') PROVE nsts'[i].nonce < server.tickets_sent + 1
          OBVIOUS
        <4>1. CASE i \in 1..Len(nsts)
          BY <1>0, <3>5, <4>1 DEF Counts
        <4>2. CASE i = Len(nsts) + 1
          BY <1>0, <3>1, <3>6, <4>2
        <4> QED
          BY <3>4, <4>1, <4>2
      <3>8. \A i, j \in 1..Len(nsts') : i < j => nsts'[i].nonce < nsts'[j].nonce
        <4> SUFFICES ASSUME NEW i \in 1..Len(nsts'), NEW j \in 1..Len(nsts'), i < j
                     PROVE  nsts'[i].nonce < nsts'[j].nonce
          OBVIOUS
        <4>1. i \in 1..Len(nsts)
          BY <3>4
        <4>2. CASE j \in 1..Len(nsts)
          BY <3>5, <4>1, <4>2 DEF Counts
        <4>3. CASE j = Len(nsts) + 1
          BY <3>1, <3>5, <3>6, <4>1, <4>3 DEF Counts
        <4> QED
          BY <3>4, <4>2, <4>3
      <3>9. server.tickets_sent + 1 <= server.tickets_to_send
        BY <1>0, <3>2 DEF Counts
      <3> QED
        BY <3>2, <3>3, <3>7, <3>8, <3>9 DEF Counts
    <2> QED
      BY <1>8, <2>1, <2>2, <2>3, <2>4, <2>5, <2>6, WriterMoves
  <1> QED
    BY <1>1, <1>2, <1>3, <1>4, <1>5, <1>6, <1>7, <1>8 DEF Next, ClientStep, ServerStep, Quiet, Decides12, Writes, Finished

----------------------------------------------------------------------------
(* The secrets of the sessions a client keeps.  Those of the connection it *)
(* has open differ in the nonce alone, and the nonces under way are all    *)
(* greater.                                                                *)
TicketSecret(k) == client.secret \o <<"ticket", k>>
OfThisConnection(s) == s.v = 13 /\ s.secret[1] = conns
SecretUsed(s, k) == s.secret = TicketSecret(k) /\ \A i \in 1..Len(nsts) : k < nsts[i].nonce
SessionSecrets ==
    /\ client.pc = "done" /\ server.v = 13 => client.secret # <<>> /\ client.secret[1] = conns
    /\ \A s \in store : s.v = 13 => s.secret # <<>> /\ s.secret[1] \in 0..conns
    /\ client.pc # "idle" =>
         \A s \in store : OfThisConnection(s) =>
            /\ client.pc = "done" /\ server.v = 13
            /\ \E k \in 0..(server.tickets_sent - 1) : SecretUsed(s, k)
    /\ \A s, t \in {x \in store : x.v = 13} : s.secret = t.secret => s.ticket = t.ticket

LEMMA SuffixedSecret ==
    ASSUME NEW a \in Secrets, NEW k \in Nat
    PROVE  /\ a \o <<"ticket", k>> # <<>>
           /\ a # <<>> => (a \o <<"ticket", k>>)[1] = a[1]
           /\ (a \o <<"ticket", k>>)[Len(a) + 2] = k
  <1>1. a \in Seq(Atoms) /\ Len(a) \in Nat
    BY DEF Secrets
  <1>2. <<"ticket", k>> \in Seq(Atoms)
    BY DEF Atoms
  <1>3. Len(a \o <<"ticket", k>>) = Len(a) + 2
    BY <1>1, <1>2
  <1>4. a # <<>> => (a \o <<"ticket", k>>)[1] = a[1]
    BY <1>1, <1>2
  <1>5. (a \o <<"ticket", k>>)[Len(a) + 2] = <<"ticket", k>>[2]
    BY <1>1, <1>2
  <1> QED
    BY <1>1, <1>3, <1>4, <1>5

LEMMA SecretsStep ==
    ASSUME TypeOK, TypeOK', Control, Control', Counts, SessionSecrets, [Next]_vars
    PROVE  SessionSecrets'
  <1>0. /\ server \in Servers /\ server.tickets_sent \in Nat /\ conns \in Nat /\ client \in Clients
        /\ client.secret \in Secrets /\ nsts \in Seq(NewTickets)
    BY DEF TypeOK, Servers, Clients
  <1>1. ASSUME UNCHANGED <<client, conns, store, nsts>>, server'.v = server.v,
               server'.tickets_sent = server.tickets_sent
        PROVE  SessionSecrets'
    BY <1>1 DEF SessionSecrets, OfThisConnection, SecretUsed, TicketSecret
  <1>2. ASSUME client.pc \in {"hello", "sent"}, UNCHANGED <<conns, store, server>>,
               client'.pc = "done" /\ server.v = 13 => client'.secret # <<>> /\ client'.secret[1] = conns
        PROVE  SessionSecrets'
    <2>1. \A s \in store : ~OfThisConnection(s)
      BY <1>2 DEF SessionSecrets
    <2>2. \A s \in store' : ~OfThisConnection(s)'
      BY <1>2, <2>1 DEF OfThisConnection
    <2> QED
      BY <1>2, <2>2 DEF SessionSecrets
  <1>3. CASE Tick \/ s2n_config_add_ticket_crypto_key \/ ClientHelloRecv13 \/ ClientHelloRecv12 \/ Decides12
             \/ s2n_store_to_cache \/ ServerFinished12
    <2>1. UNCHANGED client
      BY <1>3 DEF Tick, s2n_config_add_ticket_crypto_key, ClientHelloRecv13, ClientHelloRecv12, Decides12,
                  s2n_conn_set_handshake_type_ticket, s2n_resume_from_cache, s2n_store_to_cache, ServerFinished12
    <2>2. SameCounts /\ UNCHANGED <<conns, nst, nsts, store>>
      BY <1>3, QuietSteps DEF Quiet
    <2> QED
      BY <1>1, <2>1, <2>2 DEF SameCounts
  <1>4. CASE s2n_client_hello_send \/ s2n_set_hello_retry_required \/ ServerHelloRecv12 \/ AlertRecv
    <2>1. client.pc \in {"hello", "sent"}
      BY <1>4 DEF s2n_client_hello_send, s2n_set_hello_retry_required, ServerHelloRecv12, AlertRecv
    <2>2. UNCHANGED <<conns, store, server>> /\ client'.pc # "done"
      BY <1>4, ClientMoves
    <2> QED
      BY <1>2, <2>1, <2>2
  <1>5. CASE ServerHelloRecv13
    <2>1. client.pc \in {"hello", "sent"} /\ UNCHANGED <<conns, store, server>> /\ msg.type = "serverhello"
      BY <1>5 DEF ServerHelloRecv13
    <2>2. client'.pc = "done" => client'.secret # <<>> /\ client'.secret[1] = conns
      <3> DEFINE psk == s2n_server_psk_recv(msg)
      <3>1. psk.secret \in Secrets
        BY <2>1, FoundPsk DEF Psks
      <3>2. client'.pc = "done" => client'.secret = <<conns>> \o psk.secret
        BY <1>0, <1>5 DEF ServerHelloRecv13, ClientFail, Clients
      <3> HIDE DEF psk
      <3>3. <<conns>> \in Seq(Atoms) /\ psk.secret \in Seq(Atoms)
        BY <1>0, <3>1 DEF Secrets, Atoms
      <3>4. (<<conns>> \o psk.secret)[1] = conns /\ <<conns>> \o psk.secret # <<>>
        BY <3>3
      <3> QED
        BY <3>2, <3>4
    <2> QED
      BY <1>2, <2>1, <2>2
  <1>6. CASE Connect
    <2>1. conns' = conns + 1 /\ UNCHANGED store /\ client'.pc = "hello"
      BY <1>6, TypeConnect DEF Connect
    <2>2. \A s \in store' : s.v = 13 => s.secret # <<>> /\ s.secret[1] \in 0..conns
      BY <2>1 DEF SessionSecrets
    <2>3. \A s \in store' : s.v = 13 => s.secret[1] \in 0..conns' /\ s.secret[1] # conns'
      BY <1>0, <2>1, <2>2
    <2> QED
      BY <2>1, <2>2, <2>3 DEF SessionSecrets, OfThisConnection
  <1>7. CASE Close
    <2>1. UNCHANGED <<store, conns>> /\ client'.pc = "idle"
      BY <1>7 DEF Close, Resting
    <2> QED
      BY <2>1 DEF SessionSecrets
  <1>8. CASE ServerFinishedRecv12
    <2>1. server.v = 12 /\ UNCHANGED server
      BY <1>8 DEF ServerFinishedRecv12, Control
    <2>2. \A s \in store' : s.v = 12
      <3>1. s2n_client_serialize_resumption_state(ClientTicket).v = 12
        BY Blanks DEF s2n_client_serialize_resumption_state, Sessions
      <3> QED
        BY <1>8, <3>1 DEF ServerFinishedRecv12
    <2> QED
      BY <2>1, <2>2 DEF SessionSecrets, OfThisConnection
  <1>9. CASE s2n_tls13_server_nst_recv
    <2> DEFINE n == Head(nsts)
               new == [kind |-> "ticket", id |-> 0, ticket |-> n.ticket, v |-> 13, issue |-> now, add |-> n.add,
                       secret |-> client.secret \o <<"ticket", n.nonce>>, suite |-> client.suite, ems |-> FALSE]
    <2>1. /\ client.pc = "done" /\ nsts # <<>> /\ nsts' = Tail(nsts)
          /\ UNCHANGED <<client, conns, server>>
          /\ store' = {new} \cup {s \in store : s.v = 13 /\ s.secret[1] = conns}
      BY <1>9 DEF s2n_tls13_server_nst_recv
    <2>2. n = nsts[1] /\ n \in NewTickets /\ 1 \in 1..Len(nsts)
      BY <1>0, <2>1
    <2>3. server.v = 13
      BY <2>1 DEF Control
    <2>4. n.nonce \in 0..(server.tickets_sent - 1)
      BY <1>0, <2>2, <2>3 DEF Counts, NewTickets
    <2>5. \A i \in 1..Len(nsts') : n.nonce < nsts'[i].nonce /\ \E j \in 1..Len(nsts) : nsts'[i] = nsts[j]
      <3> SUFFICES ASSUME NEW i \in 1..Len(nsts')
                   PROVE  n.nonce < nsts'[i].nonce /\ \E j \in 1..Len(nsts) : nsts'[i] = nsts[j]
        OBVIOUS
      <3>1. i + 1 \in 1..Len(nsts) /\ nsts'[i] = nsts[i + 1] /\ 1 < i + 1
        BY <1>0, <2>1
      <3> QED
        BY <2>2, <2>3, <3>1 DEF Counts
    <2>6. client.secret # <<>> /\ client.secret[1] = conns
      BY <2>1, <2>3 DEF SessionSecrets
    <2>7. new.v = 13 /\ new.secret = TicketSecret(n.nonce) /\ new.ticket = n.ticket
      BY DEF TicketSecret
    <2> HIDE DEF n, new
    <2>8. new.secret # <<>> /\ new.secret[1] = conns
      BY <1>0, <2>4, <2>6, <2>7, SuffixedSecret DEF TicketSecret
    <2>9. ASSUME NEW s \in store, OfThisConnection(s)
          PROVE  /\ s.secret # new.secret
                 /\ \E k \in 0..(server.tickets_sent - 1) : SecretUsed(s, k)'
      <3>1. PICK k \in 0..(server.tickets_sent - 1) : SecretUsed(s, k)
        BY <2>1, <2>9 DEF SessionSecrets
      <3>2. k < n.nonce /\ s.secret = TicketSecret(k)
        BY <2>2, <3>1 DEF SecretUsed
      <3>3. k \in Nat /\ n.nonce \in Nat
        BY <1>0, <2>4
      <3>4. TicketSecret(k)[Len(client.secret) + 2] = k /\ TicketSecret(n.nonce)[Len(client.secret) + 2] = n.nonce
        BY <1>0, <3>3, SuffixedSecret DEF TicketSecret
      <3>5. s.secret # new.secret
        BY <2>7, <3>2, <3>3, <3>4
      <3>6. \A i \in 1..Len(nsts') : k < nsts'[i].nonce
        BY <2>5, <3>1 DEF SecretUsed
      <3>7. SecretUsed(s, k)'
        BY <2>1, <3>2, <3>6 DEF SecretUsed, TicketSecret
      <3> QED
        BY <3>5, <3>7
    <2>10. \A s \in store' : s = new \/ (s \in store /\ OfThisConnection(s))
      BY <2>1 DEF OfThisConnection
    <2>11. ASSUME NEW s, NEW k, s = new, k = n.nonce
           PROVE  SecretUsed(s, k)'
      BY <2>1, <2>5, <2>7, <2>11 DEF SecretUsed, TicketSecret
    <2>12. \A s \in store' : s.v = 13 => s.secret # <<>> /\ s.secret[1] \in 0..conns'
      <3>1. conns \in 0..conns
        BY <1>0
      <3> QED
        BY <2>1, <2>8, <2>10, <3>1 DEF SessionSecrets
    <2>13. \A s \in store' : \E k \in 0..(server.tickets_sent - 1) : SecretUsed(s, k)'
      <3> SUFFICES ASSUME NEW s \in store'
                   PROVE  \E k \in 0..(server.tickets_sent - 1) : SecretUsed(s, k)'
        OBVIOUS
      <3>1. CASE s = new
        BY <2>4, <2>11, <3>1
      <3>2. CASE s \in store /\ OfThisConnection(s)
        BY <2>9, <3>2
      <3> QED
        BY <2>10, <3>1, <3>2
    <2>14. \A s, t \in {x \in store' : x.v = 13} : s.secret = t.secret => s.ticket = t.ticket
      <3> SUFFICES ASSUME NEW s \in store', NEW t \in store', s.v = 13, t.v = 13, s.secret = t.secret
                   PROVE  s.ticket = t.ticket
        OBVIOUS
      <3>1. CASE s = new
        BY <2>9, <2>10, <3>1
      <3>2. CASE t = new
        BY <2>9, <2>10, <3>2
      <3>3. CASE s \in store /\ t \in store
        BY <3>3 DEF SessionSecrets
      <3> QED
        BY <2>10, <3>1, <3>2, <3>3
    <2> QED
      BY <2>1, <2>3, <2>6, <2>12, <2>13, <2>14 DEF SessionSecrets
  <1>10. CASE s2n_connection_add_new_tickets_to_send
    <2>1. UNCHANGED <<client, conns, store, nsts>> /\ server'.v = server.v
          /\ server'.tickets_sent = server.tickets_sent
      BY <1>0, <1>10 DEF s2n_connection_add_new_tickets_to_send, Servers
    <2> QED
      BY <1>1, <2>1
  <1>11. CASE Writes
    <2>1. UNCHANGED <<client, conns, store>> /\ server'.v = server.v
      BY <1>11, TypeWrites
    <2>2. CASE nsts' = nsts /\ server'.tickets_sent = server.tickets_sent
      BY <1>1, <2>1, <2>2
    <2>3. CASE s2n_resume_encrypt_session_ticket
      <3>1. server'.tickets_sent = server.tickets_sent + 1
        BY <1>0, <2>3 DEF s2n_resume_encrypt_session_ticket, TicketsSent, Servers
      <3>2. server.v = 13 => \A i \in 1..Len(nsts') :
              \/ i \in 1..Len(nsts) /\ nsts'[i] = nsts[i]
              \/ nsts'[i].nonce = server.tickets_sent
        <4> SUFFICES ASSUME server.v = 13, NEW i \in 1..Len(nsts')
                     PROVE  \/ i \in 1..Len(nsts) /\ nsts'[i] = nsts[i]
                            \/ nsts'[i].nonce = server.tickets_sent
          OBVIOUS
        <4> DEFINE n == [ticket |-> s2n_tls13_serialize_resumption_state(nst.key.name, server), life |-> nst.life,
                         add |-> nst.add, nonce |-> server.tickets_sent]
        <4>1. nsts' = Append(nsts, n)
          BY <2>3 DEF s2n_resume_encrypt_session_ticket
        <4>2. n.nonce = server.tickets_sent
          OBVIOUS
        <4> HIDE DEF n
        <4>3. CASE i \in 1..Len(nsts)
          BY <1>0, <4>1, <4>3
        <4>4. CASE i = Len(nsts) + 1
          BY <1>0, <4>1, <4>2, <4>4
        <4> QED
          BY <1>0, <4>1, <4>3, <4>4
      <3>3. ASSUME NEW s \in store, NEW k \in 0..(server.tickets_sent - 1), SecretUsed(s, k), server.v = 13
            PROVE  SecretUsed(s, k)' /\ k \in 0..(server'.tickets_sent - 1)
        <4>1. k \in 0..(server'.tickets_sent - 1) /\ k < server.tickets_sent
          BY <1>0, <3>1
        <4>2. \A i \in 1..Len(nsts') : k < nsts'[i].nonce
          BY <3>2, <3>3, <4>1 DEF SecretUsed
        <4> QED
          BY <2>1, <3>3, <4>1, <4>2 DEF SecretUsed, TicketSecret
      <3>4. client.pc # "idle" =>
              \A s \in store : OfThisConnection(s) =>
                 /\ client.pc = "done" /\ server.v = 13
                 /\ \E k \in 0..(server'.tickets_sent - 1) : SecretUsed(s, k)'
        BY <3>3 DEF SessionSecrets
      <3> QED
        BY <2>1, <3>4 DEF SessionSecrets, OfThisConnection
    <2>4. (nsts' = nsts /\ server'.tickets_sent = server.tickets_sent) \/ s2n_resume_encrypt_session_ticket
      <3>1. CASE NstFails
        BY <1>0, <3>1 DEF NstFails, Servers
      <3>2. CASE server' = [server EXCEPT !.tickets_to_send = server.tickets_sent] /\ UNCHANGED nsts
        BY <1>0, <3>2 DEF Servers
      <3> QED
        BY <1>11, <3>1, <3>2, WriterMoves
    <2> QED
      BY <2>2, <2>3, <2>4
  <1>12. CASE UNCHANGED vars
    BY <1>1, <1>12 DEF vars
  <1> QED
    BY <1>3, <1>4, <1>5, <1>6, <1>7, <1>8, <1>9, <1>10, <1>11, <1>12
       DEF Next, ClientStep, ServerStep, Decides12, Writes, Finished

LEMMA StartsWell == Init => TypeOK /\ Control /\ Counts /\ SessionSecrets
  <1>1. Init => client = Resting /\ server.pc = "idle" /\ server.v = 0 /\ msg.type = None /\ nsts = <<>>
                /\ nst = NstIdle /\ store = {}
    BY DEF Init
  <1>2. Resting.pc = "idle" /\ NstIdle.pc = "idle"
    BY DEF Resting, NstIdle
  <1> QED
    BY <1>1, <1>2, TypeInit DEF Control, Counts, SessionSecrets, None

(* Every variable stays in its type: in particular a message has the       *)
(* fields the handler that takes it reads, and no secret, ticket or key is *)
(* missing.                                                                *)
THEOREM TypeCorrect == Spec => []TypeOK
  <1>1. Init => TypeOK /\ Control
    BY StartsWell
  <1>2. TypeOK /\ Control /\ [Next]_vars => TypeOK' /\ Control'
    BY ControlStep
  <1> QED
    BY <1>1, <1>2, PTL DEF Spec

(* No two tickets of a connection carry the same secret, also when one was *)
(* given up half written, and no more are sent than were asked for (the    *)
(* nonce of s2n_tls13_server_nst_write, tickets_sent, tickets_to_send).    *)
THEOREM SecretsUnique == Spec => []TicketSecretsUnique
  <1> DEFINE I == TypeOK /\ Control /\ Counts /\ SessionSecrets
  <1>1. Init => I
    BY StartsWell
  <1>2. I /\ [Next]_vars => I'
    BY ControlStep, CountsStep, SecretsStep
  <1>3. I => TicketSecretsUnique
    BY DEF TicketSecretsUnique, SessionSecrets, Counts
  <1> QED
    BY <1>1, <1>2, <1>3, PTL DEF Spec

----------------------------------------------------------------------------
(* A ticket of TLS1.3 at time n, when the server has the keys ks: its life *)
(* is within that of the session and of its key material, and as long as   *)
(* it lasts the server has the key that opens it.                          *)
Sound(t, n, ks) ==
    t.v = 13 =>
      /\ t.born <= t.issue /\ t.issue <= n
      /\ t.add \in 0..(AgeModulus - 1)
      /\ t.life <= SessionLife /\ t.life <= Week
      /\ t.born + t.life <= t.expiration
      /\ t.expiration <= t.since + KeyingLife
      /\ n < t.born + t.life => \E k \in ks : k.name = t.key /\ t.born + t.life <= Expiry(k)

(* What a session, a key of the client and an identity on the wire know of *)
(* their ticket.                                                           *)
Kept(s) == s.v = 13 => s.ticket.v = 13 /\ s.add = s.ticket.add /\ s.ticket.born <= s.issue
Offered(p) == p.type = "resumption" => p.id.v = 13 /\ p.add = p.id.add /\ p.id.born <= p.issue
Aged(o, n) ==
    o.psk.type = "resumption" =>
       /\ o.psk.id.v = 13
       /\ \E x \in 0..(n - o.psk.id.born) : o.age = (x + o.psk.id.add) % AgeModulus

QueueSound ==
    \A i \in 1..Len(nsts) :
      /\ Sound(nsts[i].ticket, now, keys)
      /\ server.v = 13 => nsts[i].ticket.v = 13 /\ nsts[i].add = nsts[i].ticket.add
StoreSound == \A s \in store \cup {client.session} : Sound(s.ticket, now, keys) /\ Kept(s)
PsksSound ==
    \A i \in 1..Len(client.psks) :
      /\ Sound(client.psks[i].id, now, keys) /\ Offered(client.psks[i])
      /\ client.psks[i].type = "resumption" => Len(client.psks) = 1
HelloSound ==
    msg.type = "hello" =>
      \A i \in 1..Len(msg.psks) :
         /\ Sound(msg.psks[i].psk.id, now, keys) /\ Aged(msg.psks[i], now)
         /\ msg.psks[i].psk.type = "resumption" => Len(msg.psks) = 1
ChosenSound ==
    /\ Sound(server.chosen.id, now, keys)
    /\ server.chosen.type = "resumption" =>
         server.chosen.id.v = 13 /\ server.chosen.expiration = server.chosen.id.expiration
Writing ==
    /\ nst.pc # "idle" => nst.key \in keys
    /\ nst.add \in 0..(AgeModulus - 1)
    /\ nst.pc = "encrypt" /\ server.v = 13 =>
         /\ nst.at <= now
         /\ nst.life <= SessionLife /\ nst.life <= Week /\ nst.life <= KeyingLife
         /\ nst.at + nst.life <= Expiry(nst.key)
         /\ server.chosen # NoPsk => nst.at + nst.life <= server.chosen.expiration

(* Time does not run backwards, and a key is there until it expires.       *)
KeysKept == now <= now' /\ \A k \in keys : now' < Expiry(k) => k \in keys'

LEMMA SoundLater ==
    ASSUME TypeOK, TypeOK', KeysKept, NEW t \in Tickets, Sound(t, now, keys)
    PROVE  Sound(t, now', keys')
  <1>1. /\ now \in Nat /\ now' \in Nat /\ t.born \in Nat /\ t.issue \in Nat /\ t.life \in Int
        /\ \A k \in keys : Expiry(k) \in Nat
    <2>1. now \in Nat /\ now' \in Nat /\ \A k \in keys : k.intro \in Nat
      BY DEF TypeOK, TicketKeys
    <2>2. EncLife \in Nat /\ DecLife \in Nat
      BY LifetimesAssumption
    <2>3. t.born \in Nat /\ t.issue \in Nat /\ t.life \in Int
      BY DEF Tickets
    <2> QED
      BY <2>1, <2>2, <2>3 DEF Expiry
  <1>2. now <= now' /\ \A k \in keys : now' < Expiry(k) => k \in keys'
    BY DEF KeysKept
  <1>3. ASSUME t.v = 13, now' < t.born + t.life
        PROVE  \E k \in keys' : k.name = t.key /\ t.born + t.life <= Expiry(k)
    <2>1. now < t.born + t.life
      BY <1>1, <1>2, <1>3
    <2>2. PICK k \in keys : k.name = t.key /\ t.born + t.life <= Expiry(k)
      BY <1>3, <2>1 DEF Sound
    <2>3. now' < Expiry(k)
      BY <1>1, <1>3, <2>2
    <2> QED
      BY <1>2, <2>2, <2>3
  <1>4. t.issue <= now => t.issue <= now'
    BY <1>1, <1>2
  <1> QED
    BY <1>3, <1>4 DEF Sound

LEMMA NothingSound == NoTicket.v # 13 /\ NoSession.v # 13 /\ NoPsk.type = None /\ NoPsk.id = NoTicket
  BY DEF NoTicket, NoSession, NoPsk

(* What every step leaves alone of what a ticket passes through.           *)
LEMMA Frames ==
    ASSUME TypeOK, Control, Next
    PROVE  /\ KeysKept
           /\ Connect \/ Close \/ (client'.psks = client.psks /\ client'.session = client.session)
           /\ \/ nsts' = nsts \/ nsts' = <<>>
              \/ s2n_resume_encrypt_session_ticket \/ s2n_tls13_server_nst_recv
           /\ store' = store \/ ServerFinishedRecv12 \/ s2n_tls13_server_nst_recv
           /\ msg' = msg \/ msg'.type # "hello" \/ s2n_client_hello_send
           /\ \/ Connect \/ ClientHelloRecv13
              \/ server'.v = server.v /\ server'.chosen = server.chosen
           /\ Connect \/ server'.v = server.v
           /\ Writes \/ (nst' = nst /\ (keys' = keys \/ nst.pc = "idle"))
  <1>0. now \in Nat /\ server.v \in {0, 12, 13} /\ keys \subseteq TicketKeys
    BY DEF TypeOK, Servers
  <1>1. now' = now /\ keys' = keys => KeysKept
    BY <1>0 DEF KeysKept
  <1>2. CASE Tick
    <2>1. KeysKept
      BY <1>0, <1>2 DEF Tick, KeysKept
    <2> QED
      BY <1>2, <2>1 DEF Tick
  <1>3. CASE s2n_config_add_ticket_crypto_key
    <2>1. now' = now /\ s2n_config_wipe_expired_ticket_crypto_keys \subseteq keys'
      BY <1>3 DEF s2n_config_add_ticket_crypto_key
    <2>2. KeysKept
      BY <1>0, <2>1 DEF KeysKept, s2n_config_wipe_expired_ticket_crypto_keys
    <2> QED
      BY <1>3, <2>2 DEF s2n_config_add_ticket_crypto_key
  <1>4. CASE s2n_connection_add_new_tickets_to_send
    BY <1>1, <1>4, TypeRest DEF s2n_connection_add_new_tickets_to_send
  <1>5. CASE ServerFinished12
    <2>1. msg'.type # "hello"
      BY <1>5 DEF ServerFinished12
    <2> QED
      BY <1>1, <1>5, <2>1, TypeRest DEF ServerFinished12
  <1>6. CASE Close
    <2>1. msg'.type # "hello"
      BY <1>6 DEF Close, None
    <2> QED
      BY <1>1, <1>6, <2>1, TypeRest DEF Close
  <1>7. CASE Connect
    BY <1>1, <1>7 DEF Connect
  <1>8. CASE ClientHelloRecv13
    <2>1. ASSUME NEW psk, NEW i, ServerHello13(psk, i)
          PROVE  msg'.type # "hello" /\ server'.v = server.v
      <3>0. PICK r : server' = [server EXCEPT
                !.pc = IF r THEN "wait" ELSE "done", !.chosen = psk, !.index = i,
                !.first = IF r THEN s2n_set_cipher_as_server(psk) ELSE server.first,
                !.suite = s2n_set_cipher_as_server(psk), !.secret = <<conns>> \o psk.secret,
                !.resumed = psk.type = "resumption"]
        BY <2>1 DEF ServerHello13
      <3>1. PICK retry : msg' = [type |-> IF retry THEN "retry" ELSE "serverhello", v |-> 13,
                                 suite |-> s2n_set_cipher_as_server(psk), psk |-> psk # NoPsk, index |-> i,
                                 sid |-> msg.sid, ems |-> FALSE, nst |-> FALSE]
        BY <2>1 DEF ServerHello13
      <3>2. server \in Servers
        BY DEF TypeOK
      <3> QED
        BY <3>0, <3>1, <3>2 DEF Servers
    <2>2. ServerFail => msg'.type # "hello" /\ server'.v = server.v
      BY DEF ServerFail, TypeOK, Servers
    <2>3. msg'.type # "hello" /\ server'.v = server.v
      BY <1>8, <2>1, <2>2, TakenHello13
    <2> QED
      BY <1>1, <1>8, <2>3 DEF ClientHelloRecv13
  <1>9. CASE ClientHelloRecv12
    BY <1>1, <1>9, TypeHello12 DEF ClientHelloRecv12
  <1>10. CASE Decides12
    <2>1. server.v = 12 /\ msg.type = "hello"
      BY <1>10 DEF Control, Decides12, s2n_conn_set_handshake_type_ticket, s2n_resume_from_cache
    <2>2. msg'.type # "hello"
      BY <1>10, <2>1, Decided12
    <2> QED
      BY <1>1, <1>10, <2>1, <2>2, Decided12
  <1>11. CASE s2n_store_to_cache
    BY <1>1, <1>11, TypeStore DEF s2n_store_to_cache
  <1>12. CASE Writes
    <2>1. nsts' = nsts \/ s2n_resume_encrypt_session_ticket
      BY <1>12, WriterMoves DEF NstFails
    <2> QED
      BY <1>1, <1>12, <2>1, TypeWrites
  <1>13. CASE ClientStep
    BY <1>1, <1>13, ClientMoves DEF ClientStep
  <1>14. CASE Finished
    BY <1>1, <1>14 DEF Finished, vars
  <1> QED
    BY <1>2, <1>3, <1>4, <1>5, <1>6, <1>7, <1>8, <1>9, <1>10, <1>11, <1>12, <1>13, <1>14
       DEF Next, ServerStep, Decides12, Writes

TicketInv == QueueSound /\ StoreSound /\ PsksSound /\ HelloSound /\ ChosenSound /\ Writing

(* The key of a ticket is kept while it is written: the application adds   *)
(* none meanwhile.                                                         *)
LEMMA WritingStep ==
    ASSUME TypeOK, TypeOK', Control, Writing, Next
    PROVE  Writing'
  <1>0. /\ now \in Nat /\ now' \in Nat /\ nst \in Writers /\ nst.at \in Nat /\ nst.life \in Int
        /\ nst.key \in TicketKeys /\ server \in Servers /\ server.chosen.expiration \in Nat
    BY DEF TypeOK, Writers, Servers, Psks
  <1>1. now <= now'
    BY Frames DEF KeysKept
  <1>2. NstIdle.pc = "idle" /\ NstIdle.add = 0 /\ 0 \in 0..(AgeModulus - 1)
    BY LifetimesAssumption DEF NstIdle
  <1>3. ASSUME nst'.pc = "idle", nst'.add \in 0..(AgeModulus - 1)
        PROVE  Writing'
    BY <1>3 DEF Writing
  <1>4. CASE Writes
    <2>1. UNCHANGED <<now, keys>> /\ server'.v = server.v /\ server'.chosen = server.chosen
      BY <1>4, TypeWrites
    <2>2. CASE nst' = NstIdle
      BY <1>2, <1>3, <2>2
    <2>3. CASE nst'.pc = "life" /\ nst'.key \in keys /\ nst'.add \in 0..(AgeModulus - 1)
      BY <2>1, <2>3 DEF Writing
    <2>4. CASE nst' = nst
      BY <2>1, <2>4 DEF Writing, Expiry
    <2>5. CASE /\ s2n_generate_ticket_lifetime
               /\ nst' = [nst EXCEPT !.pc = "encrypt", !.life = TicketLifetime(nst.key), !.at = now]
      <3>1. /\ nst'.key = nst.key /\ nst'.add = nst.add /\ nst'.at = now /\ nst'.life = TicketLifetime(nst.key)
            /\ nst.pc = "life"
        BY <1>0, <2>5 DEF Writers, s2n_generate_ticket_lifetime
      <3>2. /\ nst'.life \in Int /\ nst'.life <= SessionLife /\ nst'.life <= Week /\ nst'.life <= MaterialLife
            /\ nst'.life <= Expiry(nst.key) - now /\ Expiry(nst.key) \in Nat /\ MaterialLife \in Int
        BY <1>0, <3>1, LifetimeBounds
      <3>3. KeyingLife \in Nat
        BY LifetimesAssumption
      <3>4. ASSUME server.v = 13
            PROVE  /\ MaterialLife <= KeyingLife
                   /\ server.chosen # NoPsk => MaterialLife <= server.chosen.expiration - now
        <4>1. CASE server.chosen = NoPsk
          BY <3>3, <3>4, <4>1 DEF MaterialLife
        <4>2. CASE server.chosen # NoPsk
          BY <1>0, <3>3, <3>4, <4>2 DEF MaterialLife, MinOf
        <4> QED
          BY <4>1, <4>2
      <3>5. now + nst'.life <= Expiry(nst.key)
        BY <1>0, <3>2
      <3>6. server.v = 13 => nst'.life <= KeyingLife
        BY <3>2, <3>3, <3>4
      <3>7. server.v = 13 /\ server.chosen # NoPsk => now + nst'.life <= server.chosen.expiration
        BY <1>0, <3>2, <3>4
      <3> QED
        BY <1>0, <2>1, <3>1, <3>2, <3>5, <3>6, <3>7 DEF Writing, Expiry
    <2>6. nst'.add \in AgeAdds => nst'.add \in 0..(AgeModulus - 1)
      BY LifetimesAssumption
    <2> QED
      BY <1>2, <1>4, <2>2, <2>3, <2>4, <2>5, <2>6, WriterMoves DEF NstFails, s2n_resume_encrypt_session_ticket
  <1>5. CASE nst' = nst /\ nst.pc = "idle"
    BY <1>3, <1>5 DEF Writing
  <1>6. CASE nst' = nst /\ nst.pc # "idle" /\ keys' = keys
    <2>1. server.pc \in {"nst", "done"}
      BY <1>6 DEF Control
    <2>2. ~ClientHelloRecv13 /\ ~Connect
      BY <1>6, <2>1 DEF ClientHelloRecv13, Connect, Control
    <2>3. server'.v = server.v /\ server'.chosen = server.chosen
      BY <2>2, Frames
    <2>4. nst.at <= now => nst.at <= now'
      BY <1>0, <1>1
    <2> QED
      BY <1>6, <2>3, <2>4 DEF Writing, Expiry
  <1> QED
    BY <1>4, <1>5, <1>6, Frames

(* What is written is sound.                                               *)
LEMMA WrittenSound ==
    ASSUME TypeOK, ChosenSound, Writing, nst.pc = "encrypt", server.v = 13
    PROVE  Sound(s2n_tls13_serialize_resumption_state(nst.key.name, server), now, keys)
  <1> DEFINE t == s2n_tls13_serialize_resumption_state(nst.key.name, server)
             c == server.chosen
  <1>1. /\ t.born = nst.at /\ t.issue = now /\ t.add = nst.add /\ t.life = nst.life /\ t.key = nst.key.name
        /\ t.expiration = s2n_tls13_serialize_keying_material_expiration(c)
        /\ t.since = IF c.type = "resumption" THEN c.id.since ELSE now
    BY DEF s2n_tls13_serialize_resumption_state
  <1>2. /\ now \in Nat /\ nst.at \in Nat /\ nst.life \in Int /\ nst.key \in keys /\ c.expiration \in Nat
        /\ c.id.since \in Nat /\ c.id.expiration \in Nat
    BY DEF TypeOK, Writers, Writing, Servers, Psks, Tickets
  <1>3. KeyingLife \in Nat
    BY LifetimesAssumption
  <1>4. c.type = "resumption" => c.expiration <= c.id.since + KeyingLife /\ c # NoPsk
    BY NothingSound DEF ChosenSound, Sound, None
  <1>5. /\ nst.at <= now /\ nst.life <= SessionLife /\ nst.life <= Week /\ nst.life <= KeyingLife
        /\ nst.at + nst.life <= Expiry(nst.key) /\ nst.add \in 0..(AgeModulus - 1)
        /\ c # NoPsk => nst.at + nst.life <= c.expiration
    BY DEF Writing
  <1> HIDE DEF t, c
  <1>6. t.born + t.life <= t.expiration
    BY <1>1, <1>2, <1>3, <1>4, <1>5 DEF s2n_tls13_serialize_keying_material_expiration, MinOf
  <1>7. t.expiration <= t.since + KeyingLife
    BY <1>1, <1>2, <1>3, <1>4 DEF s2n_tls13_serialize_keying_material_expiration, MinOf
  <1>8. \E k \in keys : k.name = t.key /\ t.born + t.life <= Expiry(k)
    BY <1>1, <1>2, <1>5
  <1>9. Sound(t, now, keys)
    BY <1>1, <1>2, <1>5, <1>6, <1>7, <1>8 DEF Sound
  <1> QED
    BY <1>9 DEF t

(* The tickets under way.                                                  *)
LEMMA QueueStep ==
    ASSUME TypeOK, TypeOK', Control, TicketInv, Next
    PROVE  QueueSound'
  <1>0. nsts \in Seq(NewTickets) /\ \A n \in NewTickets : n.ticket \in Tickets
    BY DEF TypeOK, NewTickets
  <1>1. KeysKept
    BY Frames
  <1>2. CASE nsts' = <<>>
    BY <1>2 DEF QueueSound
  <1>3. CASE nsts # <<>> /\ nsts' = nsts
    <2>1. ~Connect
      BY <1>3 DEF Connect, Control
    <2>2. server'.v = server.v
      BY <2>1, Frames
    <2>3. \A i \in 1..Len(nsts) : Sound(nsts[i].ticket, now', keys')
      BY <1>0, <1>1, SoundLater DEF TicketInv, QueueSound
    <2> QED
      BY <1>3, <2>2, <2>3 DEF TicketInv, QueueSound
  <1>4. CASE s2n_tls13_server_nst_recv
    <2>1. nsts # <<>> /\ nsts' = Tail(nsts) /\ UNCHANGED <<server, now, keys>>
      BY <1>4 DEF s2n_tls13_server_nst_recv
    <2>2. \A i \in 1..Len(nsts') : i + 1 \in 1..Len(nsts) /\ nsts'[i] = nsts[i + 1]
      BY <1>0, <2>1
    <2> QED
      BY <2>1, <2>2 DEF TicketInv, QueueSound
  <1>5. CASE s2n_resume_encrypt_session_ticket
    <2> DEFINE n == IF server.v = 13
                    THEN [ticket |-> s2n_tls13_serialize_resumption_state(nst.key.name, server), life |-> nst.life,
                          add |-> nst.add, nonce |-> server.tickets_sent]
                    ELSE [ticket |-> s2n_tls12_serialize_resumption_state(nst.key.name, server), life |-> nst.life,
                          add |-> 0, nonce |-> 0]
    <2>1. nst.pc = "encrypt" /\ nsts' = Append(nsts, n)
      BY <1>5 DEF s2n_resume_encrypt_session_ticket
    <2>2. UNCHANGED <<now, keys>> /\ server'.v = server.v
      BY <1>5, TypeWrites DEF Writes
    <2>3. /\ Sound(n.ticket, now, keys)
          /\ server.v = 13 => n.ticket.v = 13 /\ n.add = n.ticket.add
      <3>1. CASE server.v = 13
        BY <2>1, <3>1, WrittenSound DEF TicketInv, s2n_tls13_serialize_resumption_state
      <3>2. CASE server.v # 13
        BY <3>2 DEF Sound, s2n_tls12_serialize_resumption_state
      <3> QED
        BY <3>1, <3>2
    <2> HIDE DEF n
    <2>4. \A i \in 1..Len(nsts') : (i \in 1..Len(nsts) /\ nsts'[i] = nsts[i]) \/ nsts'[i] = n
      BY <1>0, <2>1
    <2> QED
      BY <2>2, <2>3, <2>4 DEF TicketInv, QueueSound
  <1> QED
    BY <1>2, <1>3, <1>4, <1>5, Frames

(* The sessions of the client.                                             *)
LEMMA StoreStep ==
    ASSUME TypeOK, TypeOK', Control, TicketInv, Next
    PROVE  StoreSound'
  <1>0. /\ nsts \in Seq(NewTickets) /\ store \subseteq Sessions /\ client.session \in Sessions
        /\ \A s \in Sessions : s.ticket \in Tickets
        /\ \A n \in NewTickets : n.ticket \in Tickets
    BY DEF TypeOK, Clients, Sessions, NewTickets
  <1>1. KeysKept
    BY Frames
  <1>2. \A s \in store \cup {client.session} : Sound(s.ticket, now', keys') /\ Kept(s)
    BY <1>0, <1>1, SoundLater DEF TicketInv, StoreSound
  <1>3. Sound(NoTicket, now', keys') /\ Sound(NoSession.ticket, now', keys') /\ Kept(NoSession)
    BY NothingSound DEF Sound, Kept, NoSession
  <1>4. \A s \in {client'.session} : Sound(s.ticket, now', keys') /\ Kept(s)
    <2>1. CASE Connect
      BY <1>2, <1>3, <2>1, TypeConnect
    <2>2. CASE Close
      <3>1. client'.session = NoSession
        BY <2>2 DEF Close, Resting
      <3> QED
        BY <1>3, <3>1
    <2> QED
      BY <1>2, <2>1, <2>2, Frames
  <1>5. \A s \in store' : Sound(s.ticket, now', keys') /\ Kept(s)
    <2>1. CASE ServerFinishedRecv12
      <3> DEFINE new == s2n_client_serialize_resumption_state(ClientTicket)
      <3>1. new.v = 12 /\ new.ticket = ClientTicket
        BY Blanks DEF s2n_client_serialize_resumption_state, Sessions
      <3>2. Sound(ClientTicket, now', keys')
        <4>1. nsts # <<>> => Sound(nsts[1].ticket, now', keys')
          <5>1. nsts # <<>> => 1 \in 1..Len(nsts) /\ nsts[1] \in NewTickets
            BY <1>0
          <5> QED
            BY <1>0, <1>1, <5>1, SoundLater DEF TicketInv, QueueSound
        <4> QED
          BY <1>2, <1>3, <4>1 DEF ClientTicket
      <3>3. store' = {new}
        BY <2>1 DEF ServerFinishedRecv12
      <3> HIDE DEF new
      <3> QED
        BY <3>1, <3>2, <3>3 DEF Kept
    <2>2. CASE s2n_tls13_server_nst_recv
      <3> DEFINE n == Head(nsts)
                 new == [kind |-> "ticket", id |-> 0, ticket |-> n.ticket, v |-> 13, issue |-> now, add |-> n.add,
                         secret |-> client.secret \o <<"ticket", n.nonce>>, suite |-> client.suite, ems |-> FALSE]
      <3>1. /\ client.pc = "done" /\ nsts # <<>>
            /\ store' \subseteq {new} \cup store
        BY <2>2 DEF s2n_tls13_server_nst_recv
      <3>2. n = nsts[1] /\ 1 \in 1..Len(nsts) /\ n.ticket \in Tickets
        <4>1. n = nsts[1] /\ 1 \in 1..Len(nsts) /\ nsts[1] \in NewTickets
          BY <1>0, <3>1
        <4> QED
          BY <1>0, <4>1
      <3>3. server.v = 13
        BY <3>1 DEF Control
      <3>4. new.v = 13 /\ new.ticket = n.ticket /\ new.add = n.add /\ new.issue = now
        OBVIOUS
      <3> HIDE DEF n, new
      <3>5. Sound(n.ticket, now, keys) /\ n.ticket.v = 13 /\ n.add = n.ticket.add
        BY <3>2, <3>3 DEF TicketInv, QueueSound
      <3>6. Sound(n.ticket, now', keys')
        BY <1>1, <3>2, <3>5, SoundLater
      <3>7. n.ticket.born <= now
        <4>1. n.ticket.born \in Nat /\ n.ticket.issue \in Nat /\ now \in Nat
          BY <3>2 DEF Tickets, TypeOK
        <4> QED
          BY <3>5, <4>1 DEF Sound
      <3>8. Sound(new.ticket, now', keys') /\ Kept(new)
        BY <3>4, <3>5, <3>6, <3>7 DEF Kept
      <3> QED
        BY <1>2, <3>1, <3>8
    <2> QED
      BY <1>2, <2>1, <2>2, Frames
  <1> QED
    BY <1>4, <1>5 DEF StoreSound

(* The pre-shared keys of the client: external ones, or one ticket.        *)
LEMMA PsksStep ==
    ASSUME TypeOK, TypeOK', Control, TicketInv, Next
    PROVE  PsksSound'
  <1>0. client.psks \in Seq(Psks) /\ store \subseteq Sessions /\ \A p \in Psks : p.id \in Tickets
    BY DEF TypeOK, Clients, Psks
  <1>1. KeysKept
    BY Frames
  <1>2. CASE client'.psks = client.psks
    <2>1. \A i \in 1..Len(client.psks) : Sound(client.psks[i].id, now', keys')
      BY <1>0, <1>1, SoundLater DEF TicketInv, PsksSound
    <2> QED
      BY <1>2, <2>1 DEF TicketInv, PsksSound
  <1>3. CASE Close
    <2>1. client'.psks = <<>>
      BY <1>3 DEF Close, Resting
    <2> QED
      BY <2>1 DEF PsksSound
  <1>4. CASE Connect
    <2>1. PICK s \in store \cup {NoSession} :
            client'.psks = IF plan[conns + 1].psks # <<>> THEN plan[conns + 1].psks ELSE s2n_connection_set_session(s)
      BY <1>4, TypeConnect
    <2>2. s \in Sessions /\ Sound(s.ticket, now, keys) /\ Kept(s) /\ UNCHANGED <<now, keys>>
      <3>1. UNCHANGED <<now, keys>> /\ NoSession.ticket = NoTicket
        BY <1>4 DEF Connect, NoSession
      <3>2. s \in store => Sound(s.ticket, now, keys) /\ Kept(s)
        BY DEF TicketInv, StoreSound
      <3>3. Sound(NoTicket, now, keys) /\ Kept(NoSession)
        BY NothingSound DEF Sound, Kept
      <3> QED
        BY <1>0, <3>1, <3>2, <3>3, Blanks
    <2>3. CASE client'.psks = plan[conns + 1].psks
      <3>1. client'.psks \in Seq(ExternalPsks)
        BY <1>4, <2>3, PlanTypes DEF Connect, Setups
      <3>2. \A p \in ExternalPsks : p.id = NoTicket /\ p.type = "external"
        BY DEF ExternalPsks
      <3> QED
        BY <3>1, <3>2, NothingSound DEF PsksSound, Sound, Offered
    <2>4. CASE client'.psks = s2n_connection_set_session(s)
      <3> DEFINE p == [NoPsk EXCEPT !.type = "resumption", !.id = s.ticket, !.secret = s.secret, !.suite = s.suite,
                                    !.add = s.add, !.issue = s.issue]
      <3>1. client'.psks = <<>> \/ (client'.psks = <<p>> /\ s.v = 13)
        BY <2>4 DEF s2n_connection_set_session
      <3>2. p.id = s.ticket /\ p.add = s.add /\ p.issue = s.issue
        BY DEF NoPsk
      <3> HIDE DEF p
      <3>3. s.v = 13 => Sound(p.id, now, keys) /\ Offered(p)
        BY <2>2, <3>2 DEF Kept, Offered
      <3>4. CASE client'.psks = <<>>
        BY <3>4 DEF PsksSound
      <3>5. CASE client'.psks = <<p>> /\ s.v = 13
        <4>1. Len(client'.psks) = 1 /\ \A i \in 1..Len(client'.psks) : client'.psks[i] = p
          BY <3>5
        <4> QED
          BY <2>2, <3>3, <3>5, <4>1 DEF PsksSound
      <3> QED
        BY <3>1, <3>4, <3>5
    <2> QED
      BY <2>1, <2>3, <2>4
  <1> QED
    BY <1>2, <1>3, <1>4, Frames

(* What is in a hello: keys of the client, no more than it has, and none   *)
(* from the future.                                                        *)
LEMMA HelloSent ==
    ASSUME TypeOK, s2n_client_hello_send
    PROVE  \/ UNCHANGED msg
           \/ /\ Len(msg'.psks) \in Nat /\ Len(msg'.psks) <= Len(client.psks)
              /\ \A i \in 1..Len(msg'.psks) : \E j \in 1..Len(client.psks) :
                   /\ msg'.psks[i].psk = client.psks[j]
                   /\ msg'.psks[i].age = s2n_generate_obfuscated_ticket_age(client.psks[j])
                   /\ client.psks[j].type = "resumption" => ~(now < client.psks[j].issue)
  <1> DEFINE age(p) == s2n_generate_obfuscated_ticket_age(p)
  <1>1. client.psks \in Seq(Psks)
    BY DEF TypeOK, Clients
  <1> DEFINE ids(f) == [i \in DOMAIN f |-> [psk |-> client.psks[f[i]], age |-> age(client.psks[f[i]])]]
             ticket == IF client.session.kind = "ticket" /\ client.session.v = 12
                       THEN client.session.ticket ELSE NoTicket
  <1>0. PICK offered \in Offers(client) :
          \/ UNCHANGED msg
          \/ /\ ~(client.setup.v = 13 /\ \E i \in DOMAIN offered :
                    client.psks[offered[i]].type = "resumption" /\ now < client.psks[offered[i]].issue)
             /\ msg' = [type |-> "hello", sid |-> client.sid,
                        psks |-> IF client.setup.v = 13 THEN ids(offered) ELSE <<>>, ticket |-> ticket,
                        ems |-> s2n_client_ems_should_send(client)]
    BY DEF s2n_client_hello_send, ClientFail
  <1> HIDE DEF ids, ticket
  <1>2. \/ UNCHANGED msg
        \/ /\ client.setup.v = 13 => \A i \in DOMAIN offered :
                  client.psks[offered[i]].type = "resumption" => ~(now < client.psks[offered[i]].issue)
           /\ msg'.psks = IF client.setup.v = 13 THEN ids(offered) ELSE <<>>
    BY <1>0
  <1>3. PICK kept \in SUBSET (1..Len(client.psks)) : offered \in [1..Cardinality(kept) -> kept]
    BY DEF Offers
  <1>4. Cardinality(kept) \in Nat /\ Cardinality(kept) <= Len(client.psks)
    <2>1. Len(client.psks) \in Nat
      BY <1>1
    <2>2. IsFiniteSet(1..Len(client.psks)) /\ Cardinality(1..Len(client.psks)) = Len(client.psks)
      BY <2>1, FS_Interval
    <2>3. IsFiniteSet(kept) /\ Cardinality(kept) <= Cardinality(1..Len(client.psks))
      BY <1>3, <2>2, FS_Subset
    <2> QED
      BY <2>2, <2>3, FS_CardinalityType
  <1>5. CASE client.setup.v = 13 /\ msg' # msg
    <2> DEFINE sent == [i \in 1..Cardinality(kept) |->
                          [psk |-> client.psks[offered[i]], age |-> age(client.psks[offered[i]])]]
    <2>1. msg'.psks = sent
      BY <1>2, <1>3, <1>5 DEF ids
    <2>2. Len(sent) = Cardinality(kept)
      BY <1>4
    <2>3. ASSUME NEW i \in 1..Cardinality(kept)
          PROVE  /\ offered[i] \in 1..Len(client.psks)
                 /\ sent[i].psk = client.psks[offered[i]] /\ sent[i].age = age(client.psks[offered[i]])
                 /\ client.psks[offered[i]].type = "resumption" => ~(now < client.psks[offered[i]].issue)
      BY <1>2, <1>3, <1>5
    <2> HIDE DEF sent, age
    <2>4. \A i \in 1..Len(sent) : \E j \in 1..Len(client.psks) :
             /\ sent[i].psk = client.psks[j] /\ sent[i].age = age(client.psks[j])
             /\ client.psks[j].type = "resumption" => ~(now < client.psks[j].issue)
      BY <2>2, <2>3
    <2> QED
      BY <1>4, <2>1, <2>2, <2>4 DEF age
  <1>6. CASE client.setup.v # 13 /\ msg' # msg
    <2>1. msg'.psks = <<>>
      BY <1>2, <1>6
    <2>2. Len(client.psks) \in Nat
      BY <1>1
    <2> QED
      BY <2>1, <2>2
  <1> QED
    BY <1>5, <1>6

\* As time passes, the ages that are possible stay possible.
LEMMA AgesGrow ==
    ASSUME NEW a \in Nat, NEW b \in Nat, NEW c \in Nat, a <= b
    PROVE  0..(a - c) \subseteq 0..(b - c)
  OBVIOUS

LEMMA HelloStep ==
    ASSUME TypeOK, TypeOK', Control, TicketInv, Next
    PROVE  HelloSound'
  <1>0. now \in Nat /\ now' \in Nat /\ client.psks \in Seq(Psks) /\ \A p \in Psks : p.id \in Tickets
    BY DEF TypeOK, Clients, Psks
  <1>1. KeysKept /\ now <= now'
    BY Frames DEF KeysKept
  <1>2. CASE msg' = msg
    <2> SUFFICES ASSUME msg.type = "hello", NEW i \in 1..Len(msg.psks)
                 PROVE  Sound(msg.psks[i].psk.id, now', keys') /\ Aged(msg.psks[i], now')
      BY <1>2 DEF TicketInv, HelloSound
    <2>1. msg.psks[i].psk.id \in Tickets
      <3>1. msg \in Hellos
        BY DEF TypeOK, Messages, Answers, None
      <3>2. msg.psks[i] \in Identities
        BY <3>1 DEF Hellos
      <3> QED
        BY <1>0, <3>2 DEF Identities
    <2>2. Sound(msg.psks[i].psk.id, now, keys) /\ Aged(msg.psks[i], now)
      BY DEF TicketInv, HelloSound
    <2>3. Aged(msg.psks[i], now')
      <3>1. msg.psks[i].psk.id.born \in Nat
        BY <2>1 DEF Tickets
      <3>2. 0..(now - msg.psks[i].psk.id.born) \subseteq 0..(now' - msg.psks[i].psk.id.born)
        BY <1>0, <1>1, <3>1, AgesGrow
      <3>3. PICK q : q = msg.psks[i]
        OBVIOUS
      <3>4. Aged(q, now')
        BY <2>2, <3>2, <3>3 DEF Aged
      <3> QED
        BY <3>3, <3>4
    <2> QED
      BY <1>1, <2>1, <2>2, <2>3, SoundLater
  <1>3. CASE s2n_client_hello_send /\ msg' # msg
    <2>1. UNCHANGED <<now, keys>>
      BY <1>3 DEF s2n_client_hello_send
    <2> SUFFICES ASSUME NEW i \in 1..Len(msg'.psks)
                 PROVE  /\ Sound(msg'.psks[i].psk.id, now, keys) /\ Aged(msg'.psks[i], now)
                        /\ msg'.psks[i].psk.type = "resumption" => Len(msg'.psks) = 1
      BY <2>1 DEF HelloSound
    <2>2. Len(msg'.psks) \in Nat /\ Len(msg'.psks) <= Len(client.psks)
      BY <1>3, HelloSent
    <2>3. PICK j \in 1..Len(client.psks) :
                   /\ msg'.psks[i].psk = client.psks[j]
                   /\ msg'.psks[i].age = s2n_generate_obfuscated_ticket_age(client.psks[j])
                   /\ client.psks[j].type = "resumption" => ~(now < client.psks[j].issue)
      BY <1>3, HelloSent
    <2> DEFINE p == client.psks[j]
    <2>4. p \in Psks /\ Sound(p.id, now, keys) /\ Offered(p) /\ (p.type = "resumption" => Len(client.psks) = 1)
      BY <1>0 DEF TicketInv, PsksSound
    <2> HIDE DEF p
    <2>5. p.id \in Tickets /\ p.issue \in Nat /\ p.add \in Nat /\ p.id.born \in Nat
      BY <2>4 DEF Psks, Tickets
    <2>6. p.type = "resumption" => Len(msg'.psks) = 1
      <3>1. ASSUME NEW n \in Nat, NEW m, i \in 1..n, n <= m, m = 1
            PROVE  n = 1
        BY <3>1
      <3> QED
        BY <2>2, <2>4, <3>1
    <2>7. ASSUME p.type = "resumption"
          PROVE  p.id.v = 13 /\ \E x \in 0..(now - p.id.born) :
                    s2n_generate_obfuscated_ticket_age(p) = (x + p.id.add) % AgeModulus
      <3>1. p.id.v = 13 /\ p.add = p.id.add /\ p.id.born <= p.issue /\ p.issue <= now
        BY <1>0, <2>3, <2>4, <2>5, <2>7 DEF Offered, p
      <3>2. now - p.issue \in 0..(now - p.id.born)
        BY <1>0, <2>5, <3>1
      <3>3. s2n_generate_obfuscated_ticket_age(p) = (now - p.issue + p.id.add) % AgeModulus
        BY <2>7, <3>1 DEF s2n_generate_obfuscated_ticket_age
      <3> QED
        BY <3>1, <3>2, <3>3
    <2> QED
      BY <2>3, <2>4, <2>6, <2>7 DEF Aged, p
  <1>4. CASE msg'.type # "hello"
    BY <1>4 DEF HelloSound
  <1> QED
    BY <1>2, <1>3, <1>4, Frames

(* The key the server chose: none, an external one, or one that a ticket   *)
(* of the hello holds.                                                     *)
LEMMA ChosenHello ==
    ASSUME TypeOK, ClientHelloRecv13
    PROVE  \/ server'.pc = "failed" /\ server'.chosen = server.chosen
           \/ /\ s2n_client_psk_recv = {} /\ server'.chosen = NoPsk
              /\ ~server'.resumed
           \/ \E i \in s2n_client_psk_recv :
                server'.chosen = ServerPsk(i) /\ server'.resumed = (ServerPsk(i).type = "resumption")
  <1>0. server \in Servers
    BY DEF TypeOK
  <1>1. CASE ServerFail
    BY <1>0, <1>1 DEF ServerFail, Servers
  <1>2. CASE s2n_client_psk_recv = {} /\ ServerHello13(NoPsk, 0)
    BY <1>2, Hello13Types, Blanks, NothingSound DEF None
  <1>3. CASE \E i \in s2n_client_psk_recv : ServerHello13(ServerPsk(i), i) /\ i \in Nat \ {0}
    <2>1. PICK i \in s2n_client_psk_recv : ServerHello13(ServerPsk(i), i) /\ i \in Nat \ {0}
      BY <1>3
    <2>2. ServerPsk(i) \in Psks
      BY ChosenPsk DEF ClientHelloRecv13
    <2>3. server'.chosen = ServerPsk(i) /\ server'.resumed = (ServerPsk(i).type = "resumption")
      <3> DEFINE psk == ServerPsk(i)
      <3>1. psk \in Psks /\ ServerHello13(psk, i)
        BY <2>1, <2>2
      <3> HIDE DEF psk
      <3>2. server'.chosen = psk /\ server'.resumed = (psk.type = "resumption")
        BY <2>1, <3>1, Hello13Types
      <3> QED
        BY <3>2 DEF psk
    <2> QED
      BY <2>3
  <1> QED
    BY <1>1, <1>2, <1>3, TakenHello13

LEMMA ChosenStep ==
    ASSUME TypeOK, TypeOK', Control, TicketInv, Next
    PROVE  ChosenSound'
  <1>0. server.chosen.id \in Tickets
    BY DEF TypeOK, Servers, Psks
  <1>1. KeysKept
    BY Frames
  <1>2. ASSUME NEW p, p.id = NoTicket, p.type # "resumption", server'.chosen = p
        PROVE  ChosenSound'
    BY <1>2, NothingSound DEF ChosenSound, Sound
  <1>3. CASE server'.chosen = server.chosen
    BY <1>0, <1>1, <1>3, SoundLater DEF TicketInv, ChosenSound
  <1>4. CASE server'.chosen = NoPsk
    BY <1>2, <1>4, NothingSound DEF None
  <1>5. CASE ClientHelloRecv13 /\ \E i \in s2n_client_psk_recv : server'.chosen = ServerPsk(i)
    <2>1. PICK i \in s2n_client_psk_recv : server'.chosen = ServerPsk(i)
      BY <1>5
    <2>2. msg.type = "hello" /\ UNCHANGED <<now, keys>>
      BY <1>5 DEF ClientHelloRecv13
    <2>3. CASE ServerPsk(i) \in ExternalPsks
      BY <1>2, <2>1, <2>3 DEF ExternalPsks
    <2>4. CASE /\ ServerPsk(i) = s2n_tls13_deserialize_session_state(msg.psks[i].psk.id)
               /\ s2n_resume_decrypt_session(msg.psks[i].psk.id)
      <3> DEFINE t == msg.psks[i].psk.id
      <3>1. Sound(t, now, keys) /\ t.v = 13
        BY <2>2, <2>4, ChosenPsk DEF TicketInv, HelloSound, s2n_resume_decrypt_session, Decrypts
      <3>2. ServerPsk(i) = s2n_tls13_deserialize_session_state(t)
        BY <2>4
      <3> HIDE DEF t
      <3>3. server'.chosen.id = t /\ server'.chosen.expiration = t.expiration
        BY <2>1, <3>2, Blanks DEF s2n_tls13_deserialize_session_state, Psks
      <3> QED
        BY <2>2, <3>1, <3>3 DEF ChosenSound
    <2> QED
      BY <2>2, <2>3, <2>4, ChosenPsk
  <1>6. CASE Connect
    BY <1>4, <1>6, TypeConnect
  <1> QED
    BY <1>3, <1>4, <1>5, <1>6, Frames, ChosenHello

LEMMA TicketStep ==
    ASSUME TypeOK, TypeOK', Control, TicketInv, [Next]_vars
    PROVE  TicketInv'
  <1>1. CASE Next
    BY <1>1, WritingStep, QueueStep, StoreStep, PsksStep, HelloStep, ChosenStep DEF TicketInv
  <1>2. CASE UNCHANGED vars
    BY <1>2 DEF vars, TicketInv, QueueSound, StoreSound, PsksSound, HelloSound, ChosenSound, Writing
  <1> QED
    BY <1>1, <1>2

LEMMA TicketInit == Init => TicketInv
  <1> SUFFICES ASSUME Init PROVE TicketInv
    OBVIOUS
  <1>1. client = Resting /\ msg.type # "hello" /\ nsts = <<>> /\ store = {} /\ nst = NstIdle /\ server.chosen = NoPsk
    BY DEF Init, None
  <1>2. Resting.session = NoSession /\ Resting.psks = <<>> /\ NoSession.ticket = NoTicket
        /\ NstIdle.pc = "idle" /\ NstIdle.add = 0 /\ 0 \in 0..(AgeModulus - 1)
    BY LifetimesAssumption DEF Resting, NoSession, NstIdle
  <1>3. StoreSound
    BY <1>1, <1>2, NothingSound DEF StoreSound, Sound, Kept
  <1>4. ChosenSound
    BY <1>1, NothingSound DEF ChosenSound, Sound, None
  <1>5. QueueSound /\ PsksSound /\ HelloSound /\ Writing
    BY <1>1, <1>2 DEF QueueSound, PsksSound, HelloSound, Writing
  <1> QED
    BY <1>3, <1>4, <1>5 DEF TicketInv

----------------------------------------------------------------------------
LEMMA Quotient ==
    ASSUME NEW n \in Nat, NEW m \in Nat, m > 0
    PROVE  \E q \in Nat : n = q * m + (n % m) /\ n % m \in 0..(m - 1)
  <1>1. n = (n \div m) * m + (n % m)
    BY Z3
  <1>2. n \div m \in Nat /\ n % m \in 0..(m - 1)
    OBVIOUS
  <1> QED
    BY <1>1, <1>2

(* The age the server computes from the obfuscated one is at most the age  *)
(* the client meant: it may only wrap around to a smaller one.             *)
LEMMA AgeRecovered ==
    ASSUME NEW x \in Nat, NEW m \in Nat \ {0}, NEW a \in 0..(m - 1)
    PROVE  (((x + a) % m) + m - a) % m <= x /\ (((x + a) % m) + m - a) % m \in Int
  <1> DEFINE y == (x + a) % m
             z == y + m - a
  <1>1. PICK q \in Nat : x + a = q * m + y /\ y \in 0..(m - 1)
    <2>1. x + a \in Nat /\ m \in Nat /\ m > 0
      OBVIOUS
    <2> QED
      BY <2>1, Quotient
  <1> HIDE DEF y
  <1>2. z \in Nat /\ z % m \in Int
    BY <1>1
  <1>3. CASE q = 0
    <2>1. z = x + m /\ z >= m
      BY <1>1, <1>3
    <2>2. z % m <= z - m
      BY <1>2, <2>1
    <2> QED
      BY <1>2, <2>1, <2>2 DEF y
  <1>4. CASE q # 0
    <2>1. q * m >= m
      BY <1>4
    <2>2. z <= x
      BY <1>1, <2>1
    <2>3. z % m <= z
      BY <1>2
    <2>4. z % m <= x
      BY <1>2, <2>2, <2>3
    <2> QED
      BY <1>2, <2>4 DEF y
  <1> QED
    BY <1>3, <1>4

(* Of two keys that may encrypt and were not introduced in the same second *)
(* one has a weight: the weight is zero only in the second of its          *)
(* introduction.                                                           *)
LEMMA AlwaysAKey ==
    ASSUME TypeOK
    PROVE  RotationSeamless
  <1> SUFFICES ASSUME EncryptKeys # {}, \A k, l \in EncryptKeys : k.intro = l.intro => k = l
               PROVE  s2n_get_ticket_encrypt_decrypt_key # {}
    BY DEF RotationSeamless, s2n_config_is_encrypt_key_available
  <1>1. now \in Nat /\ EncryptKeys \subseteq TicketKeys /\ \A k \in TicketKeys : k.intro \in Nat
    BY DEF TypeOK, EncryptKeys, TicketKeys
  <1>2. CASE Cardinality(EncryptKeys) <= 1
    BY <1>2 DEF s2n_get_ticket_encrypt_decrypt_key
  <1>3. CASE ~(Cardinality(EncryptKeys) <= 1)
    <2>1. PICK k \in EncryptKeys : TRUE
      OBVIOUS
    <2>2. EncryptKeys # {k}
      <3>1. Cardinality({k}) = 1
        BY FS_Singleton
      <3> QED
        BY <1>3, <3>1
    <2>3. PICK l \in EncryptKeys : l # k
      BY <2>1, <2>2
    <2>4. k.intro # l.intro
      BY <2>3
    <2>5. ASSUME NEW j \in EncryptKeys, j.intro # now
          PROVE  Weight(j) > 0
      <3> DEFINE h == EncLife \div 2
      <3>1. EncLife = 2 * h /\ h \in Nat
        BY LifetimesAssumption
      <3>2. j.intro \in Nat /\ j.intro < now /\ now < j.intro + EncLife
        BY <1>1, <2>5 DEF EncryptKeys, CanEncrypt
      <3>3. Weight(j) = IF now < j.intro + h THEN now - j.intro ELSE h - (now - (j.intro + h))
        BY DEF Weight, Peak
      <3> HIDE DEF h
      <3> QED
        BY <1>1, <3>1, <3>2, <3>3
    <2>6. PICK j \in EncryptKeys : j.intro # now
      BY <2>1, <2>3, <2>4
    <2>7. j \in s2n_compute_weight_of_encrypt_decrypt_keys
      BY <2>5, <2>6 DEF s2n_compute_weight_of_encrypt_decrypt_keys
    <2> QED
      BY <1>3, <2>7 DEF s2n_get_ticket_encrypt_decrypt_key
  <1> QED
    BY <1>2, <1>3

(* Only the hello of a TLS1.3 client ends the wait in one step.            *)
LEMMA EndsWait ==
    ASSUME TypeOK, Control, Next, server.pc = "wait", server'.pc = "done"
    PROVE  ClientHelloRecv13
  <1>1. server'.pc # server.pc /\ server' # server
    OBVIOUS
  <1>2. ~Tick /\ ~s2n_config_add_ticket_crypto_key /\ ~ClientStep /\ ~Finished
    BY <1>1, ClientMoves DEF Tick, s2n_config_add_ticket_crypto_key, ClientStep, Finished, vars
  <1>3. ~Connect /\ ~ClientHelloRecv12
    BY TypeConnect, TypeHello12
  <1>4. ~Decides12 /\ ~s2n_store_to_cache /\ ~ServerFinished12 /\ ~s2n_connection_add_new_tickets_to_send
    BY DEF Decides12, s2n_conn_set_handshake_type_ticket, s2n_resume_from_cache, s2n_store_to_cache,
           ServerFinished12, s2n_connection_add_new_tickets_to_send
  <1>5. ~Close
    BY DEF Close, TypeOK, Servers
  <1>6. ~Writes
    BY DEF Writes, s2n_server_nst_send, s2n_tls13_server_nst_send, s2n_generate_ticket_lifetime,
           s2n_resume_encrypt_session_ticket, Control
  <1> QED
    BY <1>2, <1>3, <1>4, <1>5, <1>6 DEF Next, ServerStep, Decides12, Writes

(* What is resumed is not past the life of its key material.               *)
LEMMA NotLonger ==
    ASSUME TypeOK, Control, TicketInv, Next, Resumes
    PROVE  now < server'.chosen.id.since + KeyingLife
  <1>1. ClientHelloRecv13 /\ msg.type = "hello"
    BY EndsWait DEF Resumes, ClientHelloRecv13
  <1>2. PICK i \in s2n_client_psk_recv : server'.chosen = ServerPsk(i) /\ ServerPsk(i).type = "resumption"
    BY <1>1, ChosenHello DEF Resumes
  <1> DEFINE t == msg.psks[i].psk.id
  <1>3. /\ i \in 1..Len(msg.psks) /\ msg.psks[i] \in Identities
        /\ ServerPsk(i) = s2n_tls13_deserialize_session_state(t) /\ s2n_resume_decrypt_session(t)
    BY <1>1, <1>2, ChosenPsk DEF ExternalPsks
  <1>4. t \in Tickets /\ Sound(t, now, keys)
    BY <1>1, <1>3 DEF TicketInv, HelloSound, Identities, Psks
  <1> HIDE DEF t
  <1>5. server'.chosen.id = t
    BY <1>2, <1>3, Blanks DEF s2n_tls13_deserialize_session_state, Psks
  <1>6. t.expiration <= t.since + KeyingLife /\ t.expiration > now
    BY <1>3, <1>4 DEF s2n_resume_decrypt_session, Decrypts, Sound
  <1>7. t.expiration \in Nat /\ t.since \in Nat /\ now \in Nat /\ KeyingLife \in Nat
    BY <1>4, LifetimesAssumption DEF Tickets, TypeOK
  <1> QED
    BY <1>5, <1>6, <1>7

(* A ticket within its lifetime is accepted.                               *)
LEMMA Accepted ==
    ASSUME TypeOK, TicketInv, msg.type = "hello", NEW i \in 1..Len(msg.psks), msg.psks[i].psk.type = "resumption",
           now < msg.psks[i].psk.id.born + msg.psks[i].psk.id.life
    PROVE  s2n_offered_psk_list_choose_psk(msg.psks[i])
  <1> DEFINE o == msg.psks[i]
             t == o.psk.id
  <1>1. o \in Identities
    BY DEF TypeOK, Messages, Hellos, Answers, None
  <1>2. t \in Tickets
    BY <1>1 DEF Identities, Psks
  <1>3. Sound(t, now, keys) /\ Aged(o, now) /\ o.psk.type = "resumption" /\ now < t.born + t.life
    BY DEF TicketInv, HelloSound
  <1> HIDE DEF o
  <1>4. PICK x \in 0..(now - t.born) : t.v = 13 /\ o.age = (x + t.add) % AgeModulus
    BY <1>3 DEF Aged
  <1> HIDE DEF t
  <1>5. /\ now \in Nat /\ t.born \in Nat /\ t.issue \in Nat /\ t.life \in Int /\ t.expiration \in Nat
    BY <1>2 DEF Tickets, TypeOK
  <1>6. SessionLife \in Nat /\ Week \in Nat /\ MaxSkew \in Nat /\ AgeModulus \in Nat \ {0}
    BY LifetimesAssumption
  <1>7. /\ t.born <= t.issue /\ t.issue <= now /\ t.add \in 0..(AgeModulus - 1)
        /\ t.life <= SessionLife /\ t.life <= Week /\ t.born + t.life <= t.expiration
    BY <1>3, <1>4 DEF Sound
  <1>8. Decrypts(t)
    <2>1. PICK k \in keys : k.name = t.key /\ t.born + t.life <= Expiry(k)
      BY <1>3, <1>4 DEF Sound
    <2>2. Expiry(k) \in Nat
      <3>1. k.intro \in Nat
        BY DEF TypeOK, TicketKeys
      <3>2. EncLife \in Nat /\ DecLife \in Nat
        BY LifetimesAssumption
      <3> QED
        BY <3>1, <3>2 DEF Expiry
    <2>3. now < Expiry(k)
      BY <1>3, <1>5, <2>1, <2>2
    <2> QED
      BY <1>4, <2>1, <2>3 DEF Decrypts, s2n_find_ticket_key
  <1>9. s2n_validate_ticket_age(t.issue)
    BY <1>3, <1>5, <1>6, <1>7 DEF s2n_validate_ticket_age
  <1>10. t.expiration > now
    BY <1>3, <1>5, <1>7
  <1>11. s2n_validate_ticket_lifetime(o.age, s2n_tls13_deserialize_session_state(t))
    <2>1. s2n_tls13_deserialize_session_state(t).add = t.add
      BY <1>2, Blanks DEF s2n_tls13_deserialize_session_state, Psks
    <2> DEFINE y == (((x + t.add) % AgeModulus) + AgeModulus - t.add) % AgeModulus
    <2>2. x \in Nat /\ x <= now - t.born
      BY <1>5
    <2>3. y <= x /\ y \in Int
      BY <1>6, <1>7, <2>2, AgeRecovered
    <2>4. s2n_validate_ticket_lifetime(o.age, s2n_tls13_deserialize_session_state(t)) = (y < SessionLife)
      BY <1>4, <2>1 DEF s2n_validate_ticket_lifetime
    <2> HIDE DEF y
    <2>5. y < SessionLife
      BY <1>3, <1>5, <1>6, <1>7, <2>2, <2>3
    <2> QED
      BY <2>4, <2>5
  <1>12. s2n_offered_psk_list_choose_psk(o)
    BY <1>8, <1>9, <1>10, <1>11 DEF s2n_offered_psk_list_choose_psk, s2n_resume_decrypt_session, t
  <1> QED
    BY <1>12 DEF o

LEMMA NotShorter ==
    ASSUME TypeOK, Control, TicketInv, Next, Declines, NEW i \in 1..Len(msg.psks),
           msg.psks[i].psk.type = "resumption"
    PROVE  now >= msg.psks[i].psk.id.born + msg.psks[i].psk.id.life
  <1>1. ClientHelloRecv13 /\ msg.type = "hello" /\ ServerPsks = <<>>
    BY EndsWait DEF Declines, ClientHelloRecv13
  <1>2. s2n_client_psk_recv = {}
    <2>1. ASSUME NEW j \in s2n_client_psk_recv
          PROVE  ServerPsk(j).type = "resumption"
      <3> DEFINE t == msg.psks[j].psk.id
      <3>1. t \in Tickets
        BY <1>1, <2>1, ChosenPsk DEF Identities, Psks
      <3>2. ServerPsk(j) = s2n_tls13_deserialize_session_state(t)
        BY <1>1 DEF ServerPsk
      <3> HIDE DEF t
      <3> QED
        BY <3>1, <3>2, Blanks DEF s2n_tls13_deserialize_session_state, Psks
    <2> QED
      BY <1>1, <2>1, ChosenHello DEF Declines
  <1>3. Len(msg.psks) = 1 /\ i = 1
    <2>1. Len(msg.psks) = 1
      BY <1>1 DEF TicketInv, HelloSound
    <2> QED
      BY <2>1
  <1>4. ~s2n_offered_psk_list_choose_psk(msg.psks[i])
    <2>1. MinOf(Len(msg.psks), MaxRejected) = 1
      BY <1>3, LifetimesAssumption DEF MinOf
    <2>2. s2n_select_resumption_psk(msg.psks) = {}
      BY <1>1, <1>2 DEF s2n_client_psk_recv
    <2>3. 1 \in 1..MinOf(Len(msg.psks), MaxRejected) /\ 1..(1 - 1) = {}
      BY <2>1
    <2> QED
      BY <1>3, <2>2, <2>3 DEF s2n_select_resumption_psk
  <1>5. ~(now < msg.psks[i].psk.id.born + msg.psks[i].psk.id.life)
    BY <1>1, <1>4, Accepted
  <1>6. now \in Nat /\ msg.psks[i].psk.id.born \in Nat /\ msg.psks[i].psk.id.life \in Int
    <2>1. msg.psks[i] \in Identities
      BY <1>1 DEF TypeOK, Messages, Hellos, Answers, None
    <2> QED
      BY <2>1 DEF Identities, Psks, Tickets, TypeOK
  <1> QED
    BY <1>5, <1>6

(* Tickets live as long as they should: no connection is resumed past the  *)
(* life of the key material, counted from the first ticket of the chain;   *)
(* no ticket of TLS1.3 is declined within the lifetime the client was told *)
(* by a server without external keys; and a key that may encrypt is found. *)
THEOREM LifetimesKept == Spec => TicketsLive
  <1> DEFINE I == TypeOK /\ Control /\ TicketInv
             Later == Resumes => now < server'.chosen.id.since + KeyingLife
             Sooner == Declines => \A i \in 1..Len(msg.psks) :
                msg.psks[i].psk.type = "resumption" => now >= msg.psks[i].psk.id.born + msg.psks[i].psk.id.life
  <1>1. Init => I
    BY StartsWell, TicketInit
  <1>2. I /\ [Next]_vars => I'
    BY ControlStep, TicketStep
  <1>3. I => RotationSeamless
    BY AlwaysAKey
  <1>4. I /\ [Next]_vars => [Later]_vars
    BY NotLonger
  <1>5. I /\ [Next]_vars => [Sooner]_vars
    BY NotShorter
  <1>6. TicketsLive <=> [][Later]_vars /\ [][Sooner]_vars /\ []RotationSeamless
    BY DEF TicketsLive
  <1> HIDE DEF I, Later, Sooner
  <1> QED
    BY <1>1, <1>2, <1>3, <1>4, <1>5, <1>6, PTL DEF Spec

----------------------------------------------------------------------------
(* The peers agree.  A client that was asked to retry offers only the keys *)
(* of one suite, but looks up the server's answer in the list of all: with *)
(* more than two keys it may take the wrong one of the right suite.  What  *)
(* follows is about plans where that cannot be.                            *)
RetriesShort == \A i \in DOMAIN plan : plan[i].retry => Len(plan[i].psks) <= 2

(* A TLS1.2 session is what its ticket, or its entry in the cache, says.   *)
Matches(s, t) == t.v = 12 /\ t.secret = s.secret /\ t.suite = s.suite /\ t.ems = s.ems
SessionTrue(s) ==
    /\ s.kind = "id" =>
         /\ s.v = 12 /\ s.ticket = NoTicket /\ s.id < 0
         /\ s.id \in DOMAIN cache => Matches(s, cache[s.id])
    /\ s.kind = "ticket" /\ s.v = 12 => Matches(s, s.ticket)
    /\ s.kind = None => s.v = 0
Handshaking == client.pc \in {"hello", "sent", "key"}
SessionsTrue ==
    /\ \A s \in store : /\ SessionTrue(s)
                        /\ s.kind = "id" => -s.id <= conns /\ (Handshaking => -s.id < conns)
    /\ SessionTrue(client.session)
    /\ client.session.kind = "id" => -client.session.id < conns
CacheTrue ==
    \A x \in DOMAIN cache :
      /\ x \in Int /\ x < 0 /\ -x <= conns
      /\ x = -conns /\ Handshaking =>
           /\ server.v = 12 /\ server.pc \in {"nst", "finish", "done"} /\ ~server.resumed
           /\ Matches(server, cache[x])

(* A key of the application, or one made of a ticket.                      *)
Pure(p) ==
    \/ p.type = "external" /\ p.name # None /\ p.id = NoTicket
    \/ p.type = "resumption" /\ p.name = None
(* The key the client finds at an index is the right one, or, after a      *)
(* retry, one of another suite, which it refuses.                          *)
Misplaced(i) == client.retried /\ client.psks[i].suite # client.suite
SameKey(p, q) == p.type = q.type /\ p.name = q.name /\ p.id = q.id /\ p.secret = q.secret

Opening ==
    /\ client.pc \in {"hello", "sent"} =>
         /\ client.sid = IF client.session.kind = "id" THEN client.session.id ELSE conns
         /\ client.ems = (client.session.v = 12 /\ client.session.ems)
         /\ ~client.retried => client.suite = client.session.suite
         /\ ~client.resumed
    /\ client.pc # "idle" => conns > 0 /\ client.setup.v = server.v
    /\ client.retried => server.v = 13 /\ client.setup.retry
    /\ client.setup.retry => Len(client.psks) <= 2
    /\ \A i \in 1..Len(client.psks) : Pure(client.psks[i])
    /\ msg.type = "retry" => server.v = 13 /\ client.setup.retry

HelloTrue ==
    msg.type = "hello" =>
      /\ client.pc = "sent" /\ msg.sid = client.sid
      /\ msg.ticket = IF client.session.kind = "ticket" /\ client.session.v = 12
                      THEN client.session.ticket ELSE NoTicket
      /\ \A i \in 1..Len(msg.psks) :
           /\ i \in 1..Len(client.psks) /\ Pure(msg.psks[i].psk)
           /\ msg.psks[i].psk = client.psks[i] \/ Misplaced(i)

Deciding ==
    server.pc \in {"wait", "type"} =>
      /\ ~server.resumed \/ server.v = 13
      /\ server.pc = "type" =>
           /\ server.sid = msg.sid /\ server.ems = msg.ems
           /\ server.status = "decrypt" => msg.ticket # NoTicket

Agreed12 ==
    server.v = 12 /\ server.pc \in {"store", "nst", "finish", "done"} =>
      /\ server.pc = "store" => ~server.resumed
      /\ server.resumed =>
           /\ client.session.v = 12 /\ server.secret = client.session.secret
           /\ server.suite = client.session.suite /\ server.ems = client.session.ems
           /\ server.sid = IF client.session.kind = "id" THEN client.session.id ELSE conns
      /\ ~server.resumed => server.sid = -conns /\ server.secret = <<conns>>
      /\ client.pc = "sent" =>
           /\ msg.type = "serverhello"
           /\ msg.suite = server.suite /\ msg.sid = server.sid /\ msg.ems = server.ems
      /\ client.pc \in {"key", "done"} =>
           /\ client.secret = server.secret /\ client.suite = server.suite /\ client.ems = server.ems
           /\ client.resumed = server.resumed /\ client.sid = server.sid
      /\ \A i \in 1..Len(nsts) : Matches(server, nsts[i].ticket)

Agreed13 ==
    server.v = 13 =>
      /\ client.pc = "sent" /\ msg.type = "serverhello" =>
           /\ msg.suite = server.suite /\ msg.psk = (server.chosen # NoPsk)
           /\ server.secret = <<conns>> \o server.chosen.secret
           /\ server.resumed = (server.chosen.type = "resumption")
           /\ msg.psk => /\ msg.index \in 1..Len(client.psks)
                         /\ SameKey(client.psks[msg.index], server.chosen) \/ Misplaced(msg.index)
      /\ client.pc = "done" =>
           /\ client.secret = server.secret /\ client.suite = server.suite
           /\ client.resumed = server.resumed /\ SameKey(client.chosen, server.chosen)

AgreeInv == RetriesShort /\ SessionsTrue /\ CacheTrue /\ Opening /\ HelloTrue /\ Deciding /\ Agreed12 /\ Agreed13

LEMMA LeastNumber ==
    ASSUME NEW T, T \subseteq Nat, T # {}
    PROVE  \E n \in T : \A m \in T : n <= m
  <1>1. IsWellFoundedOn(OpToRel(<, Nat), Nat)
    BY NatLessThanWellFounded
  <1>2. PICK n \in T : \A m \in T : ~(<<m, n>> \in OpToRel(<, Nat))
    BY <1>1, WFMin
  <1>3. \A m \in T : ~(m < n)
    BY <1>2 DEF OpToRel
  <1> QED
    BY <1>3

(* The keys are offered in the order of the list: all of them stand where  *)
(* they stood.                                                             *)
LEMMA InOrder ==
    ASSUME NEW n \in Nat, NEW f \in [1..n -> 1..n], \A i, j \in 1..n : i < j => f[i] < f[j]
    PROVE  \A i \in 1..n : f[i] = i
  <1>1. \A i \in 1..n : f[i] >= i
    <2> DEFINE T == {i \in 1..n : f[i] < i}
    <2>1. SUFFICES ASSUME T # {} PROVE FALSE
      OBVIOUS
    <2>0. T \subseteq Nat
      OBVIOUS
    <2>2. PICK i \in T : \A m \in T : i <= m
      <3> HIDE DEF T
      <3> QED
        BY <2>0, <2>1, LeastNumber
    <2>3. i \in 1..n /\ f[i] < i /\ f[i] \in 1..n
      BY <2>2
    <2>4. f[f[i]] < f[i]
      BY <2>3
    <2>5. f[i] \in T
      BY <2>3, <2>4
    <2> QED
      BY <2>2, <2>3, <2>5
  <1>2. \A i \in 1..n : f[i] <= i
    <2> DEFINE T == {k \in 0..(n - 1) : f[n - k] > n - k}
    <2>1. SUFFICES ASSUME T # {} PROVE FALSE
      <3>1. ASSUME NEW i \in 1..n, ~(f[i] <= i) PROVE FALSE
        <4>1. n - i \in 0..(n - 1) /\ n - (n - i) = i /\ f[i] > i
          BY <3>1
        <4> QED
          BY <2>1, <4>1
      <3> QED
        BY <3>1
    <2>0. T \subseteq Nat
      OBVIOUS
    <2>2. PICK k \in T : \A m \in T : k <= m
      <3> HIDE DEF T
      <3> QED
        BY <2>0, <2>1, LeastNumber
    <2>3. PICK i \in 1..n : i = n - k
      BY <2>2
    <2>4. f[i] > i /\ f[i] \in 1..n
      BY <2>2, <2>3
    <2>5. f[f[i]] > f[i]
      BY <2>3, <2>4
    <2>6. n - f[i] \in 0..(n - 1) /\ n - (n - f[i]) = f[i]
      BY <2>4
    <2>7. n - f[i] \in T
      BY <2>5, <2>6
    <2> QED
      BY <2>2, <2>3, <2>4, <2>7
  <1> QED
    BY <1>1, <1>2

(* What a client offers at an index is what it will find there, or after a *)
(* retry, where it has at most two keys, one it will refuse.               *)
LEMMA OfferedInPlace ==
    ASSUME TypeOK, client.retried => Len(client.psks) <= 2, NEW f \in Offers(client), NEW i \in DOMAIN f
    PROVE  i \in 1..Len(client.psks) /\ f[i] \in 1..Len(client.psks)
           /\ (f[i] = i \/ Misplaced(i))
  <1> DEFINE n == Len(client.psks)
             kept == {k \in 1..n : client.retried => client.psks[k].suite = client.suite}
  <1>1. n \in Nat
    BY DEF TypeOK, Clients
  <1>2. f \in [1..Cardinality(kept) -> kept] /\ \A k, j \in DOMAIN f : k < j => f[k] < f[j]
    BY DEF Offers
  <1>3. kept \subseteq 1..n
    OBVIOUS
  <1>4. IsFiniteSet(1..n) /\ Cardinality(1..n) = n
    BY <1>1, FS_Interval
  <1>5. Cardinality(kept) \in Nat /\ Cardinality(kept) <= n
    BY <1>3, <1>4, FS_Subset, FS_CardinalityType
  <1>6. i \in 1..n /\ f[i] \in kept
    BY <1>1, <1>2, <1>5
  <1>7. CASE ~client.retried
    <2>1. kept = 1..n
      BY <1>7
    <2>2. Cardinality(kept) = n
      BY <1>4, <2>1
    <2>3. f \in [1..n -> 1..n] /\ \A k, j \in 1..n : k < j => f[k] < f[j]
      BY <1>2, <2>1, <2>2
    <2>4. \A k \in 1..n : f[k] = k
      BY <1>1, <2>3, InOrder
    <2> QED
      BY <1>6, <2>4
  <1>8. CASE client.retried
    <2>1. SUFFICES ASSUME f[i] # i, i \in kept PROVE FALSE
      <3>1. i \notin kept => Misplaced(i)
        BY <1>6, <1>8 DEF Misplaced
      <3> QED
        BY <1>3, <1>6, <2>1, <3>1
    <2>2. n <= 2
      BY <1>8
    <2>3. kept = {1, 2} /\ n = 2
      <3> HIDE DEF kept, n
      <3>1. PICK k \in kept : k = f[i]
        BY <1>6
      <3>2. k \in 1..n /\ i \in 1..n /\ k # i /\ i \in kept
        BY <1>3, <1>6, <2>1, <3>1
      <3>3. n = 2 /\ 1 \in kept /\ 2 \in kept
        BY <1>1, <2>2, <3>1, <3>2
      <3>4. \A x \in kept : x \in {1, 2}
        BY <1>3, <3>3
      <3> QED
        BY <3>3, <3>4
    <2>4. kept = 1..2
      BY <2>3
    <2>5. Cardinality(kept) = 2
      BY <1>4, <2>3, <2>4
    <2>6. f \in [1..2 -> 1..2] /\ \A k, j \in 1..2 : k < j => f[k] < f[j]
      BY <1>2, <2>4, <2>5
    <2>7. \A k \in 1..2 : f[k] = k
      BY <2>6, InOrder
    <2> QED
      BY <1>6, <2>1, <2>4, <2>7
  <1> QED
    BY <1>6, <1>7, <1>8

(* Steps that change nothing the peers have to agree on.                   *)
SameServer ==
    /\ server'.v = server.v /\ server'.pc = server.pc /\ server'.suite = server.suite
    /\ server'.chosen = server.chosen /\ server'.ems = server.ems /\ server'.secret = server.secret
    /\ server'.sid = server.sid /\ server'.status = server.status /\ server'.resumed = server.resumed

LEMMA AgreeFrame ==
    ASSUME AgreeInv, UNCHANGED <<plan, conns, client, msg, store, cache>>, SameServer,
           nsts' = nsts \/ server.v = 13
    PROVE  AgreeInv'
  <1>1. RetriesShort' /\ SessionsTrue'
    BY DEF AgreeInv, RetriesShort, SessionsTrue, SessionTrue, Handshaking, Matches
  <1>2. CacheTrue'
    BY DEF AgreeInv, CacheTrue, Handshaking, Matches, SameServer
  <1>3. Opening' /\ HelloTrue'
    BY DEF AgreeInv, Opening, HelloTrue, Pure, Misplaced, SameServer
  <1>4. Deciding'
    BY DEF AgreeInv, Deciding, SameServer
  <1>5. Agreed12'
    BY DEF AgreeInv, Agreed12, SameServer, Matches
  <1>6. Agreed13'
    BY DEF AgreeInv, Agreed13, SameServer, SameKey, Misplaced
  <1> QED
    BY <1>1, <1>2, <1>3, <1>4, <1>5, <1>6 DEF AgreeInv

(* The client gives up.                                                    *)
LEMMA AgreeClientFail ==
    ASSUME TypeOK, AgreeInv, client.pc # "idle", msg.type # "hello",
           client' = [client EXCEPT !.pc = "failed"], UNCHANGED <<plan, conns, server, msg, store, cache, nsts>>
    PROVE  AgreeInv'
  <1>1. /\ client'.pc = "failed" /\ client'.session = client.session /\ client'.psks = client.psks
        /\ client'.setup = client.setup /\ client'.retried = client.retried /\ client'.suite = client.suite
    BY DEF TypeOK, Clients
  <1>2. RetriesShort' /\ SessionsTrue'
    BY <1>1 DEF AgreeInv, RetriesShort, SessionsTrue, SessionTrue, Handshaking, Matches
  <1>3. CacheTrue'
    BY <1>1 DEF AgreeInv, CacheTrue, Handshaking
  <1>4. Opening' /\ HelloTrue'
    BY <1>1 DEF AgreeInv, Opening, HelloTrue, Pure
  <1>5. Deciding'
    BY DEF AgreeInv, Deciding
  <1>6. Agreed12'
    BY <1>1 DEF AgreeInv, Agreed12, Matches
  <1>7. Agreed13'
    BY <1>1 DEF AgreeInv, Agreed13
  <1> QED
    BY <1>2, <1>3, <1>4, <1>5, <1>6, <1>7 DEF AgreeInv

LEMMA AgreeClose ==
    ASSUME TypeOK, AgreeInv, Close
    PROVE  AgreeInv'
  <1>1. /\ client' = Resting /\ server'.pc = "idle" /\ msg'.type = None /\ nsts' = <<>>
        /\ UNCHANGED <<plan, conns, store, cache>> /\ server'.v = server.v
    BY DEF Close, TypeOK, Servers
  <1>2. /\ Resting.pc = "idle" /\ Resting.session = NoSession /\ Resting.psks = <<>> /\ Resting.setup = NoSetup
        /\ ~Resting.retried
    BY DEF Resting
  <1>3. NoSession.kind = None /\ NoSession.v = 0 /\ ~NoSetup.retry
    BY DEF NoSession, NoSetup
  <1>4. RetriesShort'
    BY <1>1 DEF AgreeInv, RetriesShort
  <1>5. SessionsTrue'
    <2>1. SessionTrue(NoSession)' /\ NoSession.kind # "id"
      BY <1>3 DEF SessionTrue, None
    <2>2. ~Handshaking'
      BY <1>1, <1>2 DEF Handshaking
    <2>3. \A s \in store : SessionTrue(s)' /\ (s.kind = "id" => -s.id <= conns)
      BY <1>1 DEF AgreeInv, SessionsTrue, SessionTrue, Matches
    <2> QED
      BY <1>1, <1>2, <2>1, <2>2, <2>3 DEF SessionsTrue
  <1>6. CacheTrue'
    BY <1>1, <1>2 DEF AgreeInv, CacheTrue, Handshaking
  <1>7. Opening' /\ HelloTrue' /\ Deciding' /\ Agreed12' /\ Agreed13'
    BY <1>1, <1>2, <1>3 DEF Opening, HelloTrue, Deciding, Agreed12, Agreed13, None
  <1> QED
    BY <1>4, <1>5, <1>6, <1>7 DEF AgreeInv

LEMMA AgreeInit == Init /\ RetriesShort => AgreeInv
  <1> SUFFICES ASSUME Init, RetriesShort PROVE AgreeInv
    OBVIOUS
  <1>1. /\ client = Resting /\ server.pc = "idle" /\ msg.type = None /\ nsts = <<>> /\ store = {}
        /\ cache = <<>> /\ server.v = 0 /\ conns = 0
    BY DEF Init
  <1>2. /\ Resting.pc = "idle" /\ Resting.session = NoSession /\ Resting.psks = <<>> /\ Resting.setup = NoSetup
        /\ ~Resting.retried
    BY DEF Resting
  <1>3. NoSession.kind = None /\ NoSession.v = 0 /\ ~NoSetup.retry
    BY DEF NoSession, NoSetup
  <1>4. SessionTrue(client.session) /\ client.session.kind # "id"
    BY <1>1, <1>2, <1>3 DEF SessionTrue, None
  <1>5. SessionsTrue /\ CacheTrue
    BY <1>1, <1>4 DEF SessionsTrue, CacheTrue
  <1>6. Opening /\ HelloTrue /\ Deciding /\ Agreed12 /\ Agreed13
    BY <1>1, <1>2, <1>3 DEF Opening, HelloTrue, Deciding, Agreed12, Agreed13, None
  <1> QED
    BY <1>5, <1>6 DEF AgreeInv

LEMMA AgreeConnect ==
    ASSUME TypeOK, Control, AgreeInv, Connect
    PROVE  AgreeInv'
  <1>0. /\ client.pc = "idle" /\ conns < Len(plan) /\ conns' = conns + 1 /\ conns \in Nat
        /\ UNCHANGED <<plan, now, added, keys, msg, nsts, store, cache, nst>>
    BY DEF Connect, TypeOK
  <1>1. msg.type = None /\ nsts = <<>>
    BY <1>0 DEF Control
  <1>2. PICK setup, s :
          /\ setup = plan[conns + 1] /\ (s \in store \/ s = NoSession)
          /\ client' = [Resting EXCEPT
              !.pc = "hello", !.session = s, !.setup = setup,
              !.psks = IF setup.psks # <<>> THEN setup.psks ELSE s2n_connection_set_session(s),
              !.sid = IF s.kind = "id" THEN s.id ELSE conns',
              !.ems = s.v = 12 /\ s.ems, !.suite = s.suite]
          /\ server' = [pc |-> "wait", v |-> setup.v, suite |-> 0, chosen |-> NoPsk, index |-> 0, ems |-> FALSE,
                       secret |-> <<>>, sid |-> 0, status |-> None, resumed |-> FALSE,
                       tickets_sent |-> 0, tickets_to_send |-> InitialTickets, first |-> 0]
    BY <1>0 DEF Connect
  <1>3. /\ client'.pc = "hello" /\ client'.session = s /\ client'.setup = setup /\ ~client'.retried
        /\ client'.psks = (IF setup.psks # <<>> THEN setup.psks ELSE s2n_connection_set_session(s))
        /\ client'.sid = (IF s.kind = "id" THEN s.id ELSE conns + 1)
        /\ client'.ems = (s.v = 12 /\ s.ems) /\ client'.suite = s.suite /\ ~client'.resumed
    BY <1>0, <1>2 DEF Resting
  <1>4. server'.pc = "wait" /\ server'.v = setup.v /\ ~server'.resumed
    BY <1>2
  <1>5. setup \in Setups /\ setup.psks \in Seq(ExternalPsks)
    BY <1>0, <1>2, PlanTypes DEF Setups
  <1>6. NoSession.kind = None /\ NoSession.v = 0
    BY DEF NoSession
  <1>7. SessionTrue(s)' /\ (s.kind = "id" => -s.id <= conns)
    BY <1>0, <1>2, <1>6 DEF AgreeInv, SessionsTrue, SessionTrue, Matches, None
  <1>8. RetriesShort'
    BY <1>0 DEF AgreeInv, RetriesShort
  <1>9. SessionsTrue'
    <2>1. \A r \in store : SessionTrue(r)' /\ (r.kind = "id" => -r.id <= conns /\ r.id \in Int)
      BY <1>0 DEF AgreeInv, SessionsTrue, SessionTrue, Matches, TypeOK, Sessions
    <2>2. \A r \in store : r.kind = "id" => -r.id < conns'
      BY <1>0, <2>1
    <2>3. s.kind = "id" => s.id \in Int /\ -s.id < conns'
      BY <1>0, <1>2, <1>6, <2>1, <1>7 DEF None
    <2>4. \A r \in store : r.kind = "id" => -r.id <= conns'
      BY <1>0, <2>1
    <2> QED
      BY <1>0, <1>3, <1>7, <2>1, <2>2, <2>3, <2>4 DEF SessionsTrue
  <1>10. CacheTrue'
    <2>1. \A x \in DOMAIN cache : x \in Int /\ x < 0 /\ -x <= conns
      BY DEF AgreeInv, CacheTrue
    <2>2. \A x \in Int : x < 0 /\ -x <= conns => -x <= conns' /\ x # -conns'
      BY <1>0
    <2> QED
      BY <1>0, <2>1, <2>2 DEF CacheTrue
  <1>11. Opening'
    <2>1. ASSUME NEW p \in ExternalPsks PROVE Pure(p)
      BY DEF ExternalPsks, Pure
    <2>2. \A i \in 1..Len(setup.psks) : Pure(setup.psks[i])
      BY <1>5, <2>1
    <2>3. /\ Len(s2n_connection_set_session(s)) <= 1
          /\ \A i \in 1..Len(s2n_connection_set_session(s)) : Pure(s2n_connection_set_session(s)[i])
      <3> DEFINE p == [NoPsk EXCEPT !.type = "resumption", !.id = s.ticket, !.secret = s.secret, !.suite = s.suite,
                         !.add = s.add, !.issue = s.issue]
      <3>1. Pure(p)
        BY DEF NoPsk, Pure
      <3> HIDE DEF p
      <3>2. s2n_connection_set_session(s) \in {<<p>>, <<>>}
        BY DEF s2n_connection_set_session, p
      <3>3. CASE s2n_connection_set_session(s) = <<>>
        BY <3>3
      <3>4. CASE s2n_connection_set_session(s) = <<p>>
        <4>1. Len(<<p>>) = 1 /\ <<p>>[1] = p
          OBVIOUS
        <4>2. \A i \in 1..1 : i = 1
          OBVIOUS
        <4> QED
          BY <3>1, <3>4, <4>1, <4>2
      <3> QED
        BY <3>2, <3>3, <3>4
    <2>4. setup.retry => Len(setup.psks) <= 2
      <3>1. plan \in Seq(Setups)
        BY PlansAssumption DEF TypeOK
      <3>2. conns + 1 \in DOMAIN plan
        BY <1>0, <3>1
      <3> QED
        BY <1>2, <3>2 DEF AgreeInv, RetriesShort
    <2>5. setup.retry => Len(client'.psks) <= 2
      <3>1. CASE setup.psks # <<>>
        BY <1>3, <2>4, <3>1
      <3>2. CASE setup.psks = <<>>
        <4>1. client'.psks = s2n_connection_set_session(s)
          BY <1>3, <3>2
        <4>2. PICK n \in {0, 1} : Len(s2n_connection_set_session(s)) = n
          BY DEF s2n_connection_set_session
        <4>3. n <= 2
          BY <4>2
        <4> QED
          BY <4>1, <4>2, <4>3
      <3> QED
        BY <3>1, <3>2
    <2>6. \A i \in 1..Len(client'.psks) : Pure(client'.psks[i])
      BY <1>3, <2>2, <2>3
    <2> QED
      BY <1>0, <1>1, <1>3, <1>4, <2>5, <2>6 DEF Opening, Pure, None
  <1>12. HelloTrue' /\ Deciding' /\ Agreed12' /\ Agreed13'
    BY <1>0, <1>1, <1>3, <1>4 DEF HelloTrue, Deciding, Agreed12, Agreed13, None
  <1> QED
    BY <1>8, <1>9, <1>10, <1>11, <1>12 DEF AgreeInv

(* The hello.                                                              *)
LEMMA AgreeHello ==
    ASSUME TypeOK, Control, AgreeInv, s2n_client_hello_send
    PROVE  AgreeInv'
  <1>0. /\ client.pc = "hello" /\ UNCHANGED <<plan, now, added, keys, conns, server, nsts, store, cache, nst>>
        /\ server.pc = "wait" /\ msg.type # "hello"
    BY DEF s2n_client_hello_send, Control
  <1> DEFINE ids(f) == [i \in DOMAIN f |-> [psk |-> client.psks[f[i]],
                                            age |-> s2n_generate_obfuscated_ticket_age(client.psks[f[i]])]]
             ticket == IF client.session.kind = "ticket" /\ client.session.v = 12
                       THEN client.session.ticket ELSE NoTicket
  <1>1. PICK f \in Offers(client) :
          \/ client' = [client EXCEPT !.pc = "failed"] /\ UNCHANGED msg
          \/ /\ client' = [client EXCEPT !.pc = "sent"]
             /\ msg' = [type |-> "hello", sid |-> client.sid,
                        psks |-> IF client.setup.v = 13 THEN ids(f) ELSE <<>>, ticket |-> ticket,
                        ems |-> s2n_client_ems_should_send(client)]
    BY DEF s2n_client_hello_send, ClientFail
  <1> HIDE DEF ids, ticket
  <1>2. CASE client' = [client EXCEPT !.pc = "failed"] /\ UNCHANGED msg
    BY <1>0, <1>2, AgreeClientFail
  <1>3. CASE /\ client' = [client EXCEPT !.pc = "sent"]
             /\ msg' = [type |-> "hello", sid |-> client.sid,
                        psks |-> IF client.setup.v = 13 THEN ids(f) ELSE <<>>, ticket |-> ticket,
                        ems |-> s2n_client_ems_should_send(client)]
    <2>1. /\ client'.pc = "sent" /\ client'.session = client.session /\ client'.psks = client.psks
          /\ client'.setup = client.setup /\ client'.retried = client.retried /\ client'.suite = client.suite
          /\ client'.sid = client.sid /\ client'.ems = client.ems /\ client'.resumed = client.resumed
      BY <1>3 DEF TypeOK, Clients
    <2>2. /\ msg'.type = "hello" /\ msg'.sid = client.sid /\ msg'.ticket = ticket
          /\ msg'.psks = IF client.setup.v = 13 THEN ids(f) ELSE <<>>
      BY <1>3
    <2>3. client.retried => Len(client.psks) <= 2
      BY DEF AgreeInv, Opening
    <2>4. \A i \in 1..Len(msg'.psks) :
             /\ i \in 1..Len(client.psks) /\ Pure(msg'.psks[i].psk)
             /\ msg'.psks[i].psk = client.psks[i] \/ Misplaced(i)
      <3>1. CASE client.setup.v = 13
        <4>1. msg'.psks = ids(f)
          BY <2>2, <3>1
        <4>2. PICK n \in Nat : DOMAIN f = 1..n
          <5>1. PICK kept \in SUBSET (1..Len(client.psks)) : f \in [1..Cardinality(kept) -> kept]
            BY DEF Offers
          <5>2. Len(client.psks) \in Nat
            BY DEF TypeOK, Clients
          <5>3. IsFiniteSet(1..Len(client.psks))
            BY <5>2, FS_Interval
          <5>4. IsFiniteSet(kept)
            BY <5>1, <5>3, FS_Subset
          <5>5. Cardinality(kept) \in Nat
            BY <5>4, FS_CardinalityType
          <5> QED
            BY <5>1, <5>5
        <4>3. Len(ids(f)) = n /\ \A i \in 1..n : ids(f)[i].psk = client.psks[f[i]]
          BY <4>2 DEF ids
        <4>4. ASSUME NEW i \in 1..n
              PROVE  /\ i \in 1..Len(client.psks) /\ f[i] \in 1..Len(client.psks)
                     /\ f[i] = i \/ Misplaced(i)
          BY <2>3, <4>2, OfferedInPlace
        <4>5. \A j \in 1..Len(client.psks) : Pure(client.psks[j])
          BY DEF AgreeInv, Opening
        <4> QED
          BY <4>1, <4>3, <4>4, <4>5
      <3>2. CASE client.setup.v # 13
        <4>1. msg'.psks = <<>>
          BY <2>2, <3>2
        <4> QED
          BY <4>1
      <3> QED
        BY <3>1, <3>2
    <2>5. RetriesShort' /\ SessionsTrue'
      BY <1>0, <2>1 DEF AgreeInv, RetriesShort, SessionsTrue, SessionTrue, Handshaking, Matches
    <2>6. CacheTrue'
      BY <1>0, <2>1 DEF AgreeInv, CacheTrue, Handshaking, Matches
    <2>7. Opening'
      BY <1>0, <2>1, <2>2 DEF AgreeInv, Opening, Pure
    <2>8. HelloTrue'
      BY <2>1, <2>2, <2>4 DEF HelloTrue, ticket, Pure, Misplaced
    <2>9. Deciding' /\ Agreed12' /\ Agreed13'
      BY <1>0, <2>1, <2>2 DEF AgreeInv, Deciding, Agreed12, Agreed13
    <2> QED
      BY <2>5, <2>6, <2>7, <2>8, <2>9 DEF AgreeInv
  <1> QED
    BY <1>1, <1>2, <1>3

LEMMA AgreeRetry ==
    ASSUME TypeOK, Control, AgreeInv, s2n_set_hello_retry_required
    PROVE  AgreeInv'
  <1>1. /\ client.pc = "sent" /\ msg.type = "retry" /\ client' = [client EXCEPT !.pc = "hello", !.retried = TRUE, !.suite = msg.suite]
        /\ UNCHANGED <<plan, conns, server, msg, nsts, store, cache>>
    BY DEF s2n_set_hello_retry_required
  <1>2. server.pc = "wait"
    BY <1>1 DEF Control
  <1>3. /\ client'.pc = "hello" /\ client'.session = client.session /\ client'.psks = client.psks
        /\ client'.setup = client.setup /\ client'.retried /\ client'.ems = client.ems
        /\ client'.sid = client.sid /\ client'.resumed = client.resumed
    BY <1>1 DEF TypeOK, Clients
  <1>4. RetriesShort' /\ SessionsTrue'
    BY <1>1, <1>3 DEF AgreeInv, RetriesShort, SessionsTrue, SessionTrue, Handshaking, Matches
  <1>5. CacheTrue'
    BY <1>1, <1>3 DEF AgreeInv, CacheTrue, Handshaking, Matches
  <1>6. Opening'
    BY <1>1, <1>3 DEF AgreeInv, Opening, Pure
  <1>7. HelloTrue' /\ Deciding' /\ Agreed12' /\ Agreed13'
    BY <1>1, <1>2, <1>3 DEF AgreeInv, HelloTrue, Deciding, Agreed12, Agreed13
  <1> QED
    BY <1>4, <1>5, <1>6, <1>7 DEF AgreeInv

(* The client takes an answer and keeps what it started from.              *)
LEMMA AgreeAnswer ==
    ASSUME TypeOK, AgreeInv, client.pc = "sent", msg.type # "hello", client'.pc \in {"key", "done"},
           client'.session = client.session, client'.psks = client.psks, client'.setup = client.setup,
           client'.retried = client.retried, UNCHANGED <<plan, conns, server, msg, store, cache, nsts>>
    PROVE  RetriesShort' /\ SessionsTrue' /\ CacheTrue' /\ Opening' /\ HelloTrue' /\ Deciding'
  <1>1. Handshaking /\ client'.pc \notin {"hello", "sent", "idle"} /\ client.pc # "idle"
    BY DEF Handshaking
  <1>2. RetriesShort' /\ SessionsTrue'
    BY <1>1 DEF AgreeInv, RetriesShort, SessionsTrue, SessionTrue, Matches
  <1>3. CacheTrue'
    BY <1>1 DEF AgreeInv, CacheTrue, Matches
  <1>4. Opening'
    BY <1>1 DEF AgreeInv, Opening, Pure
  <1>5. HelloTrue' /\ Deciding'
    BY DEF AgreeInv, HelloTrue, Deciding
  <1> QED
    BY <1>2, <1>3, <1>4, <1>5

LEMMA AgreeServerHello13 ==
    ASSUME TypeOK, Control, AgreeInv, ServerHelloRecv13
    PROVE  AgreeInv'
  <1>0. /\ client.pc = "sent" /\ msg.type = "serverhello" /\ server.v = 13
        /\ UNCHANGED <<plan, conns, server, nsts, store, cache>>
    BY DEF ServerHelloRecv13, Control
  <1> DEFINE p == s2n_server_psk_recv(msg)
  <1>1. CASE /\ s2n_set_cipher_as_client(msg) /\ UNCHANGED msg
             /\ client' = [client EXCEPT !.pc = "done", !.suite = msg.suite, !.chosen = p,
                              !.secret = <<conns>> \o p.secret, !.resumed = p.type = "resumption"]
    <2>1. /\ client'.pc = "done" /\ client'.session = client.session /\ client'.psks = client.psks
          /\ client'.setup = client.setup /\ client'.retried = client.retried
          /\ client'.suite = msg.suite /\ client'.chosen = p
          /\ client'.secret = <<conns>> \o p.secret /\ client'.resumed = (p.type = "resumption")
      <3> HIDE DEF p
      <3> QED
        BY <1>1 DEF TypeOK, Clients
    <2>2. RetriesShort' /\ SessionsTrue' /\ CacheTrue' /\ Opening' /\ HelloTrue' /\ Deciding'
      BY <1>0, <1>1, <2>1, AgreeAnswer
    <2>3. Agreed12'
      BY <1>0 DEF Agreed12
    <2>4. /\ msg.suite = server.suite /\ msg.psk = (server.chosen # NoPsk)
          /\ server.secret = <<conns>> \o server.chosen.secret
          /\ server.resumed = (server.chosen.type = "resumption")
          /\ msg.psk => /\ msg.index \in 1..Len(client.psks)
                        /\ SameKey(client.psks[msg.index], server.chosen) \/ Misplaced(msg.index)
      BY <1>0 DEF AgreeInv, Agreed13
    <2>5. SameKey(p, server.chosen)
      <3>1. CASE ~msg.psk
        <4>1. p = NoPsk /\ server.chosen = NoPsk
          BY <2>4, <3>1 DEF s2n_server_psk_recv
        <4> QED
          BY <4>1 DEF SameKey
      <3>2. CASE msg.psk
        <4>1. Len(client.psks) \in Nat
          BY DEF TypeOK, Clients
        <4>2. msg.index <= Len(client.psks)
          BY <2>4, <3>2, <4>1
        <4>3. p = client.psks[msg.index]
          BY <3>2, <4>2 DEF s2n_server_psk_recv
        <4>4. p.suite = msg.suite /\ (client.retried => msg.suite = client.suite)
          BY <1>1, <3>2 DEF s2n_set_cipher_as_client
        <4>5. ~Misplaced(msg.index)
          BY <4>3, <4>4 DEF Misplaced
        <4> QED
          BY <2>4, <3>2, <4>3, <4>5
      <3> QED
        BY <3>1, <3>2
    <2>6. Agreed13'
      <3> HIDE DEF p
      <3>1. p.secret = server.chosen.secret /\ p.type = server.chosen.type
        BY <2>5 DEF SameKey
      <3>2. client'.secret = server.secret /\ client'.suite = server.suite /\ client'.resumed = server.resumed
        BY <2>1, <2>4, <3>1
      <3>3. SameKey(client'.chosen, server.chosen)
        BY <2>1, <2>5
      <3> QED
        BY <1>0, <2>1, <3>2, <3>3 DEF Agreed13, SameKey
    <2> QED
      BY <2>2, <2>3, <2>6 DEF AgreeInv
  <1>2. CASE ClientFail
    BY <1>0, <1>2, AgreeClientFail DEF ClientFail
  <1> QED
    BY <1>1, <1>2 DEF ServerHelloRecv13

LEMMA AgreeServerHello12 ==
    ASSUME TypeOK, Control, AgreeInv, ServerHelloRecv12
    PROVE  AgreeInv'
  <1>0. /\ client.pc = "sent" /\ msg.type = "serverhello" /\ server.v = 12 /\ conns \in Nat
        /\ UNCHANGED <<plan, conns, server, nsts, store, cache>>
    BY DEF ServerHelloRecv12, Control, TypeOK
  <1>1. /\ client.sid = IF client.session.kind = "id" THEN client.session.id ELSE conns
        /\ ~client.resumed /\ conns > 0
    BY <1>0 DEF AgreeInv, Opening
  <1>2. client.sid # -conns
    <2>1. client.session.kind = "id" => -client.session.id < conns /\ client.session.id \in Int
      BY DEF AgreeInv, SessionsTrue, TypeOK, Clients, Sessions
    <2>2. CASE client.session.kind = "id"
      BY <1>0, <1>1, <2>1, <2>2
    <2>3. CASE client.session.kind # "id"
      BY <1>0, <1>1, <2>3
    <2> QED
      BY <2>2, <2>3
  <1> DEFINE Answered == server.pc \in {"store", "nst", "finish", "done"}
  <1>3. Answered =>
          /\ server.pc = "store" => ~server.resumed
          /\ server.resumed =>
               /\ client.session.v = 12 /\ server.secret = client.session.secret
               /\ server.suite = client.session.suite /\ server.ems = client.session.ems
               /\ server.sid = client.sid
          /\ ~server.resumed => server.sid = -conns /\ server.secret = <<conns>>
          /\ msg.suite = server.suite /\ msg.sid = server.sid /\ msg.ems = server.ems
          /\ \A i \in 1..Len(nsts) : Matches(server, nsts[i].ticket)
    BY <1>0, <1>1 DEF AgreeInv, Agreed12
  <1>4. ASSUME client'.pc = "key", client'.session = client.session, client'.psks = client.psks,
               client'.setup = client.setup, client'.retried = client.retried, UNCHANGED msg,
               Answered => /\ client'.secret = server.secret /\ client'.suite = server.suite
                           /\ client'.ems = server.ems /\ client'.resumed = server.resumed
                           /\ client'.sid = server.sid
        PROVE  AgreeInv'
    <2>1. RetriesShort' /\ SessionsTrue' /\ CacheTrue' /\ Opening' /\ HelloTrue' /\ Deciding'
      BY <1>0, <1>4, AgreeAnswer
    <2>2. Agreed12'
      BY <1>0, <1>1, <1>3, <1>4 DEF Agreed12, Matches
    <2>3. Agreed13'
      BY <1>0 DEF Agreed13
    <2> QED
      BY <2>1, <2>2, <2>3 DEF AgreeInv
  <1>5. CASE /\ msg.sid # client.sid /\ UNCHANGED msg
             /\ client' = [client EXCEPT !.pc = "key", !.sid = msg.sid, !.suite = msg.suite, !.ems = msg.ems,
                                         !.secret = <<conns>>]
    <2>1. /\ client'.pc = "key" /\ client'.session = client.session /\ client'.psks = client.psks
          /\ client'.setup = client.setup /\ client'.retried = client.retried
          /\ client'.suite = msg.suite /\ client'.ems = msg.ems /\ client'.sid = msg.sid
          /\ client'.secret = <<conns>> /\ client'.resumed = client.resumed
      BY <1>5 DEF TypeOK, Clients
    <2>2. Answered => ~server.resumed
      BY <1>3, <1>5
    <2>3. Answered => client'.resumed = server.resumed
      <3>1. server.resumed \in BOOLEAN /\ client.resumed \in BOOLEAN
        BY DEF TypeOK, Clients, Servers
      <3> QED
        BY <1>1, <2>1, <2>2, <3>1
    <2> QED
      BY <1>3, <1>4, <1>5, <2>1, <2>2, <2>3
  <1>6. CASE /\ msg.sid = client.sid /\ client.session.v = 12 /\ client.suite = msg.suite /\ UNCHANGED msg
             /\ client' = [client EXCEPT !.pc = "key", !.ems = msg.ems, !.secret = client.session.secret,
                                         !.resumed = TRUE]
    <2>1. /\ client'.pc = "key" /\ client'.session = client.session /\ client'.psks = client.psks
          /\ client'.setup = client.setup /\ client'.retried = client.retried
          /\ client'.suite = client.suite /\ client'.ems = msg.ems /\ client'.sid = client.sid
          /\ client'.secret = client.session.secret /\ client'.resumed = TRUE
      BY <1>6 DEF TypeOK, Clients
    <2>2. Answered => server.resumed
      BY <1>2, <1>3, <1>6
    <2>3. Answered => client'.resumed = server.resumed
      <3>1. server.resumed \in BOOLEAN
        BY DEF TypeOK, Servers
      <3> QED
        BY <2>1, <2>2, <3>1
    <2> QED
      BY <1>3, <1>4, <1>6, <2>1, <2>2, <2>3
  <1>7. CASE ClientFail
    BY <1>0, <1>7, AgreeClientFail DEF ClientFail
  <1> QED
    BY <1>5, <1>6, <1>7 DEF ServerHelloRecv12

LEMMA AgreeAlert ==
    ASSUME TypeOK, Control, AgreeInv, AlertRecv
    PROVE  AgreeInv'
  BY AgreeClientFail DEF AlertRecv, ClientFail

(* The server takes a step; what the client started from stays.            *)
LEMMA AgreeServerMove ==
    ASSUME AgreeInv, UNCHANGED <<plan, conns, client, store, cache>>, server'.v = server.v,
           msg'.type = "retry" => server.v = 13 /\ client.setup.retry
    PROVE  RetriesShort' /\ SessionsTrue' /\ Opening'
  <1>1. RetriesShort' /\ SessionsTrue'
    BY DEF AgreeInv, RetriesShort, SessionsTrue, SessionTrue, Handshaking, Matches
  <1>2. Opening'
    BY DEF AgreeInv, Opening, Pure
  <1> QED
    BY <1>1, <1>2

(* The key the server has chosen is the one the client finds under the     *)
(* index, or one the client refuses.                                       *)
LEMMA ChosenSame ==
    ASSUME TypeOK, AgreeInv, msg.type = "hello", NEW i \in s2n_client_psk_recv, s2n_psk_verify_binder(i)
    PROVE  /\ i \in 1..Len(client.psks)
           /\ SameKey(client.psks[i], ServerPsk(i)) \/ Misplaced(i)
  <1>1. i \in 1..Len(msg.psks)
    BY ChosenPsk
  <1> DEFINE q == msg.psks[i].psk
  <1>2. /\ i \in 1..Len(client.psks) /\ Pure(q)
        /\ q = client.psks[i] \/ Misplaced(i)
    BY <1>1 DEF AgreeInv, HelloTrue
  <1>3. q.secret = ServerPsk(i).secret
    BY DEF s2n_psk_verify_binder
  <1>4. CASE ServerPsks # <<>>
    <2> DEFINE j == CHOOSE j \in 1..Len(ServerPsks) : ServerPsks[j].name = q.name
    <2>1. i \in s2n_select_external_psk(ServerPsks, msg.psks)
      BY <1>4 DEF s2n_client_psk_recv
    <2>2. \E n \in 1..Len(ServerPsks) : ServerPsks[n].name = q.name
      BY <2>1 DEF s2n_select_external_psk
    <2>3. j \in 1..Len(ServerPsks) /\ ServerPsks[j].name = q.name
      BY <2>2
    <2>4. ServerPsk(i) = ServerPsks[j]
      BY <1>4 DEF ServerPsk
    <2>5. ServerPsk(i).name = q.name
      BY <2>3, <2>4
    <2>6. ServerPsk(i) \in ExternalPsks
      BY <1>4, ChosenPsk
    <2>7. /\ ServerPsk(i).type = "external" /\ ServerPsk(i).name # None /\ ServerPsk(i).id = NoTicket
      BY <2>6 DEF ExternalPsks
    <2> HIDE DEF q, j
    <2>8. q.type = "external" /\ q.id = NoTicket
      BY <1>2, <2>5, <2>7 DEF Pure
    <2>9. SameKey(q, ServerPsk(i))
      BY <1>3, <2>5, <2>7, <2>8 DEF SameKey
    <2> QED
      BY <1>2, <2>9
  <1>5. CASE ServerPsks = <<>>
    <2>1. i \in s2n_select_resumption_psk(msg.psks)
      BY <1>5 DEF s2n_client_psk_recv
    <2>2. s2n_offered_psk_list_choose_psk(msg.psks[i])
      BY <2>1 DEF s2n_select_resumption_psk
    <2>3. q.id.v = 13
      BY <2>2 DEF s2n_offered_psk_list_choose_psk, s2n_resume_decrypt_session, Decrypts
    <2>4. ServerPsk(i) = s2n_tls13_deserialize_session_state(q.id)
      BY <1>5 DEF ServerPsk
    <2> HIDE DEF q
    <2>5. ServerPsk(i).type = "resumption" /\ ServerPsk(i).id = q.id /\ ServerPsk(i).name = None
      BY <2>4 DEF s2n_tls13_deserialize_session_state, NoPsk
    <2>6. q.type = "resumption" /\ q.name = None
      BY <1>2, <2>3 DEF Pure, NoTicket
    <2>7. SameKey(q, ServerPsk(i))
      BY <1>3, <2>5, <2>6 DEF SameKey
    <2> QED
      BY <1>2, <2>7
  <1> QED
    BY <1>4, <1>5

LEMMA AgreeHello13 ==
    ASSUME TypeOK, Control, AgreeInv, ClientHelloRecv13
    PROVE  AgreeInv'
  <1>0. /\ server.pc = "wait" /\ server.v = 13 /\ msg.type = "hello"
        /\ UNCHANGED <<plan, conns, client, nsts, store, cache>>
    BY DEF ClientHelloRecv13
  <1>1. client.pc = "sent"
    BY <1>0 DEF AgreeInv, HelloTrue
  <1>2. ASSUME NEW psk, NEW i, ServerHello13(psk, i),
               psk # NoPsk => /\ i \in 1..Len(client.psks)
                              /\ SameKey(client.psks[i], psk) \/ Misplaced(i)
        PROVE  AgreeInv'
    <2> DEFINE retry == client.setup.retry /\ server.first = 0
               suite == s2n_set_cipher_as_server(psk)
               secret == <<conns>> \o psk.secret
    <2>1. /\ server' = [server EXCEPT
               !.pc = IF retry THEN "wait" ELSE "done", !.chosen = psk, !.index = i,
               !.first = IF retry THEN suite ELSE server.first,
               !.suite = suite, !.secret = secret, !.resumed = psk.type = "resumption"]
          /\ msg' = [type |-> IF retry THEN "retry" ELSE "serverhello", v |-> 13, suite |-> suite,
                     psk |-> psk # NoPsk, index |-> i, sid |-> msg.sid, ems |-> FALSE, nst |-> FALSE]
      BY <1>2 DEF ServerHello13
    <2>2. retry => client.setup.retry
      OBVIOUS
    <2> HIDE DEF retry, suite, secret
    <2>3. /\ server'.v = 13 /\ server'.chosen = psk /\ server'.suite = suite /\ server'.secret = secret
          /\ server'.resumed = (psk.type = "resumption") /\ server'.pc = IF retry THEN "wait" ELSE "done"
      BY <1>0, <2>1 DEF TypeOK, Servers
    <2>4. /\ msg'.type = IF retry THEN "retry" ELSE "serverhello"
          /\ msg'.suite = suite /\ msg'.psk = (psk # NoPsk) /\ msg'.index = i
      BY <2>1
    <2>5. RetriesShort' /\ SessionsTrue' /\ Opening'
      BY <1>0, <2>2, <2>3, <2>4, AgreeServerMove
    <2>6. CacheTrue'
      BY <1>0, <2>3 DEF AgreeInv, CacheTrue, Handshaking
    <2>7. HelloTrue' /\ Deciding' /\ Agreed12'
      BY <2>3, <2>4 DEF HelloTrue, Deciding, Agreed12
    <2>8. Agreed13'
      BY <1>0, <1>1, <1>2, <2>3, <2>4 DEF Agreed13, SameKey, Misplaced, secret
    <2> QED
      BY <2>5, <2>6, <2>7, <2>8 DEF AgreeInv
  <1>3. CASE ServerFail
    <2>1. server'.pc = "failed" /\ server'.v = 13 /\ msg'.type = "alert"
      BY <1>0, <1>3 DEF ServerFail, TypeOK, Servers
    <2>2. RetriesShort' /\ SessionsTrue' /\ Opening'
      BY <1>0, <2>1, AgreeServerMove
    <2>3. CacheTrue'
      BY <1>0, <2>1 DEF AgreeInv, CacheTrue, Handshaking
    <2>4. HelloTrue' /\ Deciding' /\ Agreed12' /\ Agreed13'
      BY <1>0, <1>1, <2>1 DEF HelloTrue, Deciding, Agreed12, Agreed13
    <2> QED
      BY <2>2, <2>3, <2>4 DEF AgreeInv
  <1>4. CASE ServerHello13(NoPsk, 0)
    BY <1>2, <1>4
  <1>5. ASSUME NEW i \in s2n_client_psk_recv, s2n_psk_verify_binder(i), ServerHello13(ServerPsk(i), i)
        PROVE  AgreeInv'
    BY <1>0, <1>2, <1>5, ChosenSame
  <1> QED
    BY <1>3, <1>4, <1>5 DEF ClientHelloRecv13

LEMMA AgreeHello12 ==
    ASSUME TypeOK, Control, AgreeInv, ClientHelloRecv12
    PROVE  AgreeInv'
  <1>0. /\ server.pc = "wait" /\ server.v = 12 /\ msg.type = "hello"
        /\ UNCHANGED <<plan, conns, client, msg, nsts, store, cache>>
    BY DEF ClientHelloRecv12
  <1>1. /\ server'.pc = "type" /\ server'.v = 12 /\ server'.ems = msg.ems /\ server'.sid = msg.sid
        /\ server'.resumed = server.resumed /\ server'.status = s2n_client_session_ticket_recv(msg.ticket)
    BY <1>0 DEF ClientHelloRecv12, TypeOK, Servers
  <1>2. server'.status = "decrypt" => msg.ticket # NoTicket
    BY <1>1 DEF s2n_client_session_ticket_recv, None
  <1>3. RetriesShort' /\ SessionsTrue' /\ Opening'
    BY <1>0, <1>1, AgreeServerMove
  <1>4. CacheTrue'
    BY <1>0, <1>1 DEF AgreeInv, CacheTrue, Handshaking
  <1>5. HelloTrue'
    BY <1>0 DEF AgreeInv, HelloTrue, Pure, Misplaced
  <1>6. Deciding' /\ Agreed12' /\ Agreed13'
    BY <1>0, <1>1, <1>2 DEF AgreeInv, Deciding, Agreed12, Agreed13
  <1> QED
    BY <1>3, <1>4, <1>5, <1>6 DEF AgreeInv

(* The TLS1.2 server resumes the session the client has, or makes a new    *)
(* one.                                                                    *)
LEMMA AgreeDecides ==
    ASSUME TypeOK, Control, AgreeInv, Decides12
    PROVE  AgreeInv'
  <1>0. /\ server.pc = "type" /\ server.v = 12 /\ msg.type = "hello" /\ conns \in Nat
        /\ UNCHANGED <<plan, conns, client, nsts, store, cache>>
    BY DEF Decides12, s2n_conn_set_handshake_type_ticket, s2n_resume_from_cache, Control, TypeOK
  <1>1. /\ client.pc = "sent" /\ msg.sid = client.sid
        /\ msg.ticket = IF client.session.kind = "ticket" /\ client.session.v = 12
                        THEN client.session.ticket ELSE NoTicket
        /\ client.sid = IF client.session.kind = "id" THEN client.session.id ELSE conns
    BY <1>0 DEF AgreeInv, HelloTrue, Opening
  <1>2. /\ ~server.resumed /\ server.sid = msg.sid /\ server.ems = msg.ems
        /\ server.status = "decrypt" => msg.ticket # NoTicket
    BY <1>0 DEF AgreeInv, Deciding
  <1>3. nsts = <<>>
    BY <1>0, <1>1 DEF Control
  <1>4. SessionTrue(client.session) /\ server \in Servers
    BY DEF AgreeInv, SessionsTrue, TypeOK
  <1>5. ASSUME server'.v = 12, msg'.type # "retry"
        PROVE  RetriesShort' /\ SessionsTrue' /\ Opening'
    BY <1>0, <1>5, AgreeServerMove
  <1>6. CacheTrue'
    BY <1>0, <1>1 DEF AgreeInv, CacheTrue, Handshaking
  <1>7. CASE ServerFail
    <2>1. server'.pc = "failed" /\ server'.v = 12 /\ msg'.type = "alert"
      BY <1>0, <1>4, <1>7 DEF ServerFail, Servers
    <2>2. RetriesShort' /\ SessionsTrue' /\ Opening'
      BY <1>5, <2>1
    <2>3. HelloTrue' /\ Deciding' /\ Agreed12' /\ Agreed13'
      BY <2>1 DEF HelloTrue, Deciding, Agreed12, Agreed13
    <2> QED
      BY <1>6, <2>2, <2>3 DEF AgreeInv
  <1>8. ASSUME server'.v = 12, server'.pc \in {"store", "nst", "finish"}, msg'.type = "serverhello",
               msg'.suite = server'.suite, msg'.sid = server'.sid, msg'.ems = server'.ems,
               server'.pc = "store" => ~server'.resumed,
               server'.resumed =>
                 /\ client.session.v = 12 /\ server'.secret = client.session.secret
                 /\ server'.suite = client.session.suite /\ server'.ems = client.session.ems
                 /\ server'.sid = client.sid,
               ~server'.resumed => server'.sid = -conns /\ server'.secret = <<conns>>
        PROVE  AgreeInv'
    <2>1. RetriesShort' /\ SessionsTrue' /\ Opening'
      BY <1>5, <1>8
    <2>2. HelloTrue' /\ Deciding' /\ Agreed13'
      BY <1>8 DEF HelloTrue, Deciding, Agreed13
    <2>3. \A i \in 1..Len(nsts') : Matches(server', nsts'[i].ticket)
      BY <1>0, <1>3
    <2>4. Agreed12'
      BY <1>0, <1>1, <1>8, <2>3 DEF Agreed12, Matches
    <2> QED
      BY <1>6, <2>1, <2>2, <2>4 DEF AgreeInv
  <1>9. ASSUME NEW t, Resume12(t), Matches(client.session, t), t.suite = server.suite, server.ems = t.ems,
               client.session.v = 12
        PROVE  AgreeInv'
    <2>1. PICK s : /\ s = [server EXCEPT !.pc = IF server.status = "new" THEN "nst" ELSE "finish",
                                         !.secret = t.secret, !.resumed = TRUE]
                   /\ server' = s /\ Hello12(s)
      BY <1>9 DEF Resume12
    <2>2. /\ server'.v = 12 /\ server'.pc \in {"nst", "finish"} /\ server'.resumed /\ server'.secret = t.secret
          /\ server'.suite = server.suite /\ server'.sid = server.sid /\ server'.ems = server.ems
      BY <1>0, <1>4, <2>1 DEF Servers
    <2>3. /\ msg'.type = "serverhello" /\ msg'.suite = server'.suite /\ msg'.sid = server'.sid
          /\ msg'.ems = server'.ems
      BY <2>1 DEF Hello12
    <2>4. /\ server'.secret = client.session.secret /\ server'.suite = client.session.suite
          /\ server'.ems = client.session.ems /\ server'.sid = client.sid
      BY <1>1, <1>2, <1>9, <2>2 DEF Matches
    <2> QED
      BY <1>8, <1>9, <2>2, <2>3, <2>4
  <1>10. ASSUME NEW status, FullHandshake12(status)
         PROVE  AgreeInv'
    <2>1. PICK s : /\ s = [server EXCEPT !.pc = "store", !.secret = <<conns>>, !.sid = -conns,
                                         !.status = status, !.ems = msg.ems]
                   /\ server' = s /\ Hello12(s)
      BY <1>10 DEF FullHandshake12
    <2>2. /\ server'.v = 12 /\ server'.pc = "store" /\ server'.resumed = server.resumed
          /\ server'.secret = <<conns>> /\ server'.sid = -conns
      BY <1>0, <1>4, <2>1 DEF Servers
    <2>3. /\ msg'.type = "serverhello" /\ msg'.suite = server'.suite /\ msg'.sid = server'.sid
          /\ msg'.ems = server'.ems
      BY <2>1 DEF Hello12
    <2> QED
      BY <1>2, <1>8, <2>2, <2>3
  <1>11. CASE s2n_conn_set_handshake_type_ticket
    <2>1. \/ ServerFail \/ FullHandshake12("new") \/ FullHandshake12(server.status)
          \/ /\ Resume12(msg.ticket) /\ server.status = "decrypt"
             /\ s2n_tls12_deserialize_resumption_state(msg.ticket) /\ EmsAgrees(msg.ticket)
      BY <1>11 DEF s2n_conn_set_handshake_type_ticket, TicketDeclined
    <2>2. ASSUME Resume12(msg.ticket), server.status = "decrypt",
                 s2n_tls12_deserialize_resumption_state(msg.ticket), EmsAgrees(msg.ticket)
          PROVE  AgreeInv'
      <3>1. client.session.kind = "ticket" /\ client.session.v = 12 /\ msg.ticket = client.session.ticket
        BY <1>1, <1>2, <2>2
      <3>2. Matches(client.session, msg.ticket)
        BY <1>4, <3>1 DEF SessionTrue
      <3>3. msg.ticket.suite = server.suite /\ server.ems = msg.ticket.ems
        BY <2>2 DEF s2n_tls12_deserialize_resumption_state, EmsAgrees
      <3> QED
        BY <1>9, <2>2, <3>1, <3>2, <3>3
    <2> QED
      BY <1>7, <1>10, <2>1, <2>2
  <1>12. CASE s2n_resume_from_cache
    <2>1. \/ ServerFail \/ FullHandshake12(server.status)
          \/ /\ Resume12(Entry)
             /\ s2n_tls12_deserialize_resumption_state(Entry) /\ EmsAgrees(Entry)
      BY <1>12 DEF s2n_resume_from_cache
    <2>2. ASSUME Resume12(Entry), s2n_tls12_deserialize_resumption_state(Entry), EmsAgrees(Entry)
          PROVE  AgreeInv'
      <3>1. Entry.v = 12 /\ Entry.suite = server.suite /\ server.ems = Entry.ems
        BY <2>2 DEF s2n_tls12_deserialize_resumption_state, EmsAgrees
      <3>2. server.sid \in DOMAIN cache /\ Entry = cache[server.sid]
        BY <3>1 DEF Entry, NoTicket
      <3>3. server.sid \in Int /\ server.sid < 0
        BY <3>2 DEF AgreeInv, CacheTrue
      <3>4. client.session.kind = "id" /\ server.sid = client.session.id
        <4>1. server.sid # conns
          BY <1>0, <3>3
        <4> QED
          BY <1>1, <1>2, <4>1
      <3>5. client.session.v = 12 /\ Matches(client.session, Entry)
        BY <1>4, <3>2, <3>4 DEF SessionTrue
      <3> QED
        BY <1>9, <2>2, <3>1, <3>5
    <2> QED
      BY <1>7, <1>10, <2>1, <2>2
  <1> QED
    BY <1>11, <1>12 DEF Decides12

(* The new session goes to the cache under an id no session has yet.       *)
LEMMA AgreeStore ==
    ASSUME TypeOK, Control, AgreeInv, s2n_store_to_cache
    PROVE  AgreeInv'
  <1>0. /\ server.pc = "store" /\ client.pc = "key" /\ server.v = 12 /\ conns \in Nat
        /\ UNCHANGED <<plan, conns, client, msg, nsts, store>>
    BY DEF s2n_store_to_cache, Control, TypeOK
  <1>1. /\ server'.pc \in {"nst", "finish"} /\ server'.v = 12 /\ server'.suite = server.suite
        /\ server'.chosen = server.chosen /\ server'.ems = server.ems /\ server'.secret = server.secret
        /\ server'.sid = server.sid /\ server'.resumed = server.resumed
    BY <1>0 DEF s2n_store_to_cache, TypeOK, Servers
  <1>2. ~server.resumed /\ server.sid = -conns /\ Handshaking
    BY <1>0 DEF AgreeInv, Agreed12, Handshaking
  <1>3. \A x \in DOMAIN cache : x # server.sid
    BY <1>0, <1>2 DEF AgreeInv, CacheTrue
  <1>4. /\ \A x \in DOMAIN cache' : x \in DOMAIN cache \/ x = server.sid
        /\ \A x \in DOMAIN cache : cache'[x] = cache[x]
        /\ server.sid \in DOMAIN cache' => Matches(server, cache'[server.sid])
    <2>1. CASE UNCHANGED cache
      BY <1>3, <2>1
    <2>2. ASSUME NEW k, cache' = [id \in DOMAIN cache \cup {server.sid} |->
                          IF id = server.sid THEN s2n_tls12_serialize_resumption_state(k.name, server) ELSE cache[id]]
          PROVE  <1>4!1 /\ <1>4!2 /\ <1>4!3
      <3> DEFINE t == s2n_tls12_serialize_resumption_state(k.name, server)
      <3>1. Matches(server, t)
        BY DEF s2n_tls12_serialize_resumption_state, Matches
      <3> HIDE DEF t
      <3>2. cache' = [id \in DOMAIN cache \cup {server.sid} |-> IF id = server.sid THEN t ELSE cache[id]]
        BY <2>2 DEF t
      <3>3. cache'[server.sid] = t
        BY <3>2
      <3> QED
        BY <1>3, <3>1, <3>2, <3>3
    <2> QED
      BY <2>1, <2>2 DEF s2n_store_to_cache
  <1>5. \A s \in Sessions : s.kind = "id" /\ -s.id < conns => s.id # server.sid
    <2>1. \A n \in Int : -n < conns => n # -conns
      BY <1>0
    <2> QED
      BY <1>2, <2>1 DEF Sessions
  <1>6. ASSUME NEW s \in Sessions, SessionTrue(s), s.kind = "id" => -s.id < conns
        PROVE  SessionTrue(s)'
    BY <1>4, <1>5, <1>6 DEF SessionTrue, Matches
  <1>7. SessionsTrue'
    <2>1. \A s \in store : s \in Sessions
      BY DEF TypeOK
    <2>2. client.session \in Sessions
      BY DEF TypeOK, Clients
    <2>3. \A s \in store : /\ SessionTrue(s)
                           /\ s.kind = "id" => -s.id <= conns /\ -s.id < conns
      BY <1>2 DEF AgreeInv, SessionsTrue
    <2>4. SessionTrue(client.session) /\ (client.session.kind = "id" => -client.session.id < conns)
      BY DEF AgreeInv, SessionsTrue
    <2>5. SessionTrue(client.session)'
      BY <1>0, <1>6, <2>2, <2>4 DEF SessionTrue, Matches
    <2>6. \A s \in store : SessionTrue(s)'
      BY <1>6, <2>1, <2>3
    <2> QED
      BY <1>0, <2>3, <2>4, <2>5, <2>6 DEF SessionsTrue
  <1>8. CacheTrue'
    <2>1. \A x \in DOMAIN cache : x \in Int /\ x < 0 /\ -x <= conns
      BY DEF AgreeInv, CacheTrue
    <2>2. server.sid \in Int /\ server.sid < 0 /\ -server.sid <= conns
      <3>1. conns > 0
        BY <1>0 DEF AgreeInv, Opening
      <3> QED
        BY <1>0, <1>2, <3>1
    <2>3. \A x \in DOMAIN cache' : x \in Int /\ x < 0 /\ -x <= conns
      BY <1>4, <2>1, <2>2
    <2>4. ASSUME NEW x \in DOMAIN cache', x = -conns
          PROVE  Matches(server', cache'[x])
      BY <1>1, <1>2, <1>4, <2>4 DEF Matches
    <2> QED
      BY <1>0, <1>1, <1>2, <2>3, <2>4 DEF CacheTrue, Matches
  <1>9. RetriesShort' /\ Opening'
    BY <1>0, <1>1 DEF AgreeInv, RetriesShort, Opening, Pure
  <1>10. HelloTrue' /\ Deciding' /\ Agreed13'
    BY <1>0, <1>1 DEF AgreeInv, HelloTrue, Deciding, Agreed13
  <1>11. Agreed12'
    BY <1>0, <1>1, <1>2 DEF AgreeInv, Agreed12, Matches
  <1> QED
    BY <1>7, <1>8, <1>9, <1>10, <1>11 DEF AgreeInv

(* A ticket is written: it says what the session is.                       *)
LEMMA AgreeWrites ==
    ASSUME TypeOK, Control, AgreeInv, Writes
    PROVE  AgreeInv'
  <1>0. UNCHANGED <<plan, conns, client, msg, store, cache>> /\ server \in Servers
    BY DEF Writes, s2n_server_nst_send, s2n_tls13_server_nst_send, s2n_generate_ticket_lifetime,
           s2n_resume_encrypt_session_ticket, TypeOK
  <1>1. ASSUME server.v = 12, server.pc = "nst", server'.v = server.v, server'.pc = "finish",
               server'.suite = server.suite, server'.chosen = server.chosen, server'.ems = server.ems,
               server'.secret = server.secret, server'.sid = server.sid, server'.resumed = server.resumed,
               \A i \in 1..Len(nsts') : Matches(server, nsts'[i].ticket)
        PROVE  AgreeInv'
    <2>1. RetriesShort' /\ SessionsTrue' /\ Opening'
      BY <1>0, <1>1, AgreeServerMove DEF AgreeInv, Opening
    <2>2. CacheTrue'
      BY <1>0, <1>1 DEF AgreeInv, CacheTrue, Handshaking, Matches
    <2>3. HelloTrue' /\ Deciding' /\ Agreed13'
      BY <1>0, <1>1 DEF AgreeInv, HelloTrue, Deciding, Agreed13, Pure, Misplaced
    <2>4. Agreed12'
      BY <1>0, <1>1 DEF AgreeInv, Agreed12, Matches
    <2> QED
      BY <2>1, <2>2, <2>3, <2>4 DEF AgreeInv
  <1>2. CASE UNCHANGED <<server, nsts>>
    BY <1>0, <1>2, AgreeFrame DEF SameServer
  <1>3. CASE (NstFails /\ nst.pc = "life") \/ (NstFails /\ server.pc = "nst") \/ (NstFails /\ server.v = 13)
    <2>1. CASE server.v = 12
      <3>1. server.pc = "nst"
        BY <1>3, <2>1 DEF Control
      <3>2. nsts' = nsts /\ server' = [server EXCEPT !.pc = "finish"]
        BY <1>3, <2>1 DEF NstFails
      <3>3. \A i \in 1..Len(nsts) : Matches(server, nsts[i].ticket)
        BY <2>1, <3>1 DEF AgreeInv, Agreed12
      <3>4. /\ server'.v = server.v /\ server'.pc = "finish" /\ server'.suite = server.suite
            /\ server'.chosen = server.chosen /\ server'.ems = server.ems /\ server'.secret = server.secret
            /\ server'.sid = server.sid /\ server'.resumed = server.resumed
        BY <1>0, <3>2 DEF Servers
      <3> QED
        BY <1>1, <2>1, <3>1, <3>2, <3>3, <3>4
    <2>2. CASE server.v # 12
      BY <1>2, <1>3, <2>2 DEF NstFails
    <2> QED
      BY <2>1, <2>2
  <1>4. CASE server' = [server EXCEPT !.tickets_to_send = server.tickets_sent] /\ UNCHANGED nsts
    <2>1. SameServer
      BY <1>0, <1>4 DEF SameServer, Servers
    <2> QED
      BY <1>0, <1>4, <2>1, AgreeFrame
  <1>5. CASE s2n_resume_encrypt_session_ticket
    <2>1. /\ nst.pc = "encrypt"
          /\ server' = [server EXCEPT !.pc = IF server.v = 12 THEN "finish" ELSE @, !.tickets_sent = TicketsSent(server)]
      BY <1>5 DEF s2n_resume_encrypt_session_ticket
    <2>2. /\ server'.v = server.v /\ server'.suite = server.suite
          /\ server'.chosen = server.chosen /\ server'.ems = server.ems /\ server'.secret = server.secret
          /\ server'.sid = server.sid /\ server'.resumed = server.resumed /\ server'.status = server.status
          /\ server'.pc = IF server.v = 12 THEN "finish" ELSE server.pc
      BY <1>0, <2>1 DEF Servers
    <2>3. CASE server.v = 13
      <3>1. SameServer
        BY <2>2, <2>3 DEF SameServer
      <3> QED
        BY <1>0, <2>3, <3>1, AgreeFrame
    <2>4. CASE server.v # 13
      <3>1. server.v = 12 /\ server.pc = "nst" /\ nsts = <<>>
        BY <2>1, <2>4 DEF Control
      <3> DEFINE t == s2n_tls12_serialize_resumption_state(nst.key.name, server)
                 n == [ticket |-> t, life |-> nst.life, add |-> 0, nonce |-> 0]
      <3>2. nsts' = Append(nsts, n)
        BY <1>5, <3>1 DEF s2n_resume_encrypt_session_ticket
      <3>3. Matches(server, t)
        BY DEF s2n_tls12_serialize_resumption_state, Matches
      <3>4. n.ticket = t
        OBVIOUS
      <3> HIDE DEF t, n
      <3>5. nsts' = <<n>>
        BY <3>1, <3>2
      <3>6. \A i \in 1..Len(nsts') : Matches(server, nsts'[i].ticket)
        <4>1. Len(<<n>>) = 1 /\ <<n>>[1] = n
          OBVIOUS
        <4>2. \A i \in 1..1 : i = 1
          OBVIOUS
        <4> QED
          BY <3>3, <3>4, <3>5, <4>1, <4>2
      <3> QED
        BY <1>1, <2>2, <3>1, <3>6
    <2> QED
      BY <2>3, <2>4
  <1>6. \/ (NstFails /\ nst.pc = "life") \/ (NstFails /\ server.pc = "nst") \/ (NstFails /\ server.v = 13)
        \/ UNCHANGED <<server, nsts>>
        \/ server' = [server EXCEPT !.tickets_to_send = server.tickets_sent] /\ UNCHANGED nsts
        \/ s2n_resume_encrypt_session_ticket
    <2>1. s2n_server_nst_send => (NstFails /\ server.pc = "nst") \/ UNCHANGED <<server, nsts>>
      BY DEF s2n_server_nst_send
    <2>2. s2n_tls13_server_nst_send =>
             \/ (NstFails /\ server.v = 13) \/ UNCHANGED <<server, nsts>>
             \/ server' = [server EXCEPT !.tickets_to_send = server.tickets_sent] /\ UNCHANGED nsts
      BY DEF s2n_tls13_server_nst_send
    <2>3. s2n_generate_ticket_lifetime => (NstFails /\ nst.pc = "life") \/ UNCHANGED <<server, nsts>>
      BY DEF s2n_generate_ticket_lifetime
    <2> QED
      BY <2>1, <2>2, <2>3 DEF Writes
  <1> QED
    BY <1>2, <1>3, <1>4, <1>5, <1>6

LEMMA AgreeServerFinished ==
    ASSUME TypeOK, Control, AgreeInv, ServerFinished12
    PROVE  AgreeInv'
  <1>0. /\ server.pc = "finish" /\ client.pc = "key" /\ server.v = 12 /\ msg'.type = "finished"
        /\ UNCHANGED <<plan, conns, client, nsts, store, cache>>
    BY DEF ServerFinished12, Control
  <1>1. /\ server'.pc = "done" /\ server'.v = 12 /\ server'.suite = server.suite
        /\ server'.chosen = server.chosen /\ server'.ems = server.ems /\ server'.secret = server.secret
        /\ server'.sid = server.sid /\ server'.resumed = server.resumed
    BY <1>0 DEF ServerFinished12, TypeOK, Servers
  <1>2. RetriesShort' /\ SessionsTrue' /\ Opening'
    BY <1>0, <1>1, AgreeServerMove
  <1>3. CacheTrue'
    BY <1>0, <1>1 DEF AgreeInv, CacheTrue, Handshaking, Matches
  <1>4. HelloTrue' /\ Deciding' /\ Agreed13'
    BY <1>0, <1>1 DEF HelloTrue, Deciding, Agreed13
  <1>5. Agreed12'
    BY <1>0, <1>1 DEF AgreeInv, Agreed12, Matches
  <1> QED
    BY <1>2, <1>3, <1>4, <1>5 DEF AgreeInv

(* What the client keeps of a TLS1.2 handshake is what the server keeps.   *)
LEMMA AgreeFinished ==
    ASSUME TypeOK, Control, AgreeInv, ServerFinishedRecv12
    PROVE  AgreeInv'
  <1>0. /\ client.pc = "key" /\ msg.type = "finished" /\ server.v = 12 /\ server.pc = "done" /\ conns \in Nat
        /\ nsts' = <<>> /\ UNCHANGED <<plan, conns, server, msg, cache>>
    BY DEF ServerFinishedRecv12, Control, TypeOK
  <1>1. /\ client'.pc = "done" /\ client'.session = client.session /\ client'.psks = client.psks
        /\ client'.setup = client.setup /\ client'.retried = client.retried /\ client'.suite = client.suite
        /\ client'.secret = client.secret /\ client'.ems = client.ems /\ client'.resumed = client.resumed
        /\ client'.sid = client.sid
    BY DEF ServerFinishedRecv12, TypeOK, Clients
  <1>2. /\ server.resumed =>
             /\ client.session.v = 12 /\ server.secret = client.session.secret
             /\ server.suite = client.session.suite /\ server.ems = client.session.ems
             /\ server.sid = IF client.session.kind = "id" THEN client.session.id ELSE conns
        /\ ~server.resumed => server.sid = -conns /\ server.secret = <<conns>>
        /\ client.secret = server.secret /\ client.suite = server.suite /\ client.ems = server.ems
        /\ client.resumed = server.resumed /\ client.sid = server.sid
        /\ \A i \in 1..Len(nsts) : Matches(server, nsts[i].ticket)
    BY <1>0 DEF AgreeInv, Agreed12
  <1>3. SessionTrue(client.session) /\ (client.session.kind = "id" => -client.session.id < conns)
    BY DEF AgreeInv, SessionsTrue
  <1>4. conns > 0 /\ client.session.kind \in {None, "id", "ticket"} /\ client.session.id \in Int
    BY <1>0 DEF AgreeInv, Opening, TypeOK, Clients, Sessions
  <1>5. client.resumed => client.session.kind \in {"id", "ticket"}
    BY <1>2, <1>3, <1>4 DEF SessionTrue
  <1> DEFINE t == ClientTicket
             x == s2n_client_serialize_resumption_state(t)
  <1>6. store' = {x}
    BY DEF ServerFinishedRecv12
  <1>7. /\ x.kind = (IF t = NoTicket THEN "id" ELSE "ticket") /\ x.ticket = t /\ x.v = 12
        /\ x.id = (IF t = NoTicket THEN client.sid ELSE 0)
        /\ x.secret = client.secret /\ x.suite = client.suite /\ x.ems = client.ems
    BY DEF s2n_client_serialize_resumption_state, NoSession
  <1>8. t # NoTicket => Matches(server, t)
    <2>1. CASE nsts # <<>>
      <3>1. nsts \in Seq(NewTickets)
        BY DEF TypeOK
      <3>2. 1 \in 1..Len(nsts)
        BY <2>1, <3>1
      <3> QED
        BY <1>2, <2>1, <3>2 DEF ClientTicket
    <2>2. CASE nsts = <<>> /\ client.resumed
      <3>1. t = client.session.ticket
        BY <2>2 DEF ClientTicket
      <3>2. t # NoTicket => client.session.kind = "ticket"
        BY <1>3, <1>5, <2>2, <3>1 DEF SessionTrue
      <3> QED
        BY <1>2, <1>3, <2>2, <3>1, <3>2 DEF SessionTrue, Matches
    <2>3. CASE nsts = <<>> /\ ~client.resumed
      BY <2>3 DEF ClientTicket
    <2> QED
      BY <2>1, <2>2, <2>3
  <1>9. t = NoTicket => /\ client.sid < 0 /\ -client.sid <= conns
                        /\ client.sid \in DOMAIN cache => Matches(server, cache[client.sid])
    <2> SUFFICES ASSUME t = NoTicket
                 PROVE  /\ client.sid < 0 /\ -client.sid <= conns
                        /\ client.sid \in DOMAIN cache => Matches(server, cache[client.sid])
      OBVIOUS
    <2>1. CASE ~client.resumed
      <3>1. client.sid = -conns /\ Handshaking
        BY <1>0, <1>2, <2>1 DEF Handshaking
      <3>2. client.sid \in DOMAIN cache => Matches(server, cache[client.sid])
        BY <3>1 DEF AgreeInv, CacheTrue
      <3> QED
        BY <1>0, <1>4, <3>1, <3>2
    <2>2. CASE client.resumed
      <3>1. nsts = <<>>
        <4>1. nsts # <<>> => FALSE
          <5> SUFFICES ASSUME nsts # <<>> PROVE FALSE
            OBVIOUS
          <5>1. nsts \in Seq(NewTickets)
            BY DEF TypeOK
          <5>2. 1 \in 1..Len(nsts)
            BY <5>1
          <5>3. t = nsts[1].ticket
            BY DEF ClientTicket
          <5>4. t.v = 12
            BY <1>2, <5>2, <5>3 DEF Matches
          <5> QED
            BY <5>4 DEF NoTicket
        <4> QED
          BY <4>1
      <3>2. client.session.ticket = NoTicket
        BY <2>2, <3>1 DEF ClientTicket
      <3>3. client.session.kind = "id"
        BY <1>2, <1>3, <1>5, <2>2, <3>2 DEF SessionTrue, Matches, NoTicket
      <3>4. client.sid = client.session.id /\ client.session.id < 0 /\ -client.session.id < conns
        BY <1>2, <1>3, <2>2, <3>3 DEF SessionTrue
      <3>5. client.sid \in DOMAIN cache => Matches(client.session, cache[client.sid])
        BY <1>3, <3>3, <3>4 DEF SessionTrue
      <3>6. client.sid \in DOMAIN cache => Matches(server, cache[client.sid])
        BY <1>2, <2>2, <3>5 DEF Matches
      <3>7. client.sid < 0 /\ -client.sid <= conns
        BY <1>0, <1>4, <3>4
      <3> QED
        BY <3>6, <3>7
    <2> QED
      BY <2>1, <2>2
  <1> HIDE DEF t, x
  <1>17. PICK y : y = x
    OBVIOUS
  <1>10. SessionTrue(y)' /\ (y.kind = "id" => -y.id <= conns)
    <2>1. CASE t = NoTicket
      BY <1>0, <1>2, <1>7, <1>9, <1>17, <2>1 DEF SessionTrue, Matches, None
    <2>2. CASE t # NoTicket
      BY <1>0, <1>2, <1>7, <1>8, <1>17, <2>2 DEF SessionTrue, Matches, None
    <2> QED
      BY <2>1, <2>2
  <1>11. ~Handshaking'
    BY <1>1 DEF Handshaking
  <1>12. SessionsTrue'
    <2>1. SessionTrue(client.session)'
      BY <1>0, <1>1, <1>3 DEF SessionTrue, Matches
    <2> QED
      BY <1>0, <1>1, <1>3, <1>6, <1>10, <1>11, <1>17, <2>1 DEF SessionsTrue
  <1>13. CacheTrue' /\ RetriesShort'
    BY <1>0, <1>11 DEF AgreeInv, CacheTrue, RetriesShort
  <1>14. Opening'
    BY <1>0, <1>1 DEF AgreeInv, Opening, Pure
  <1>15. HelloTrue' /\ Deciding' /\ Agreed13'
    BY <1>0 DEF HelloTrue, Deciding, Agreed13
  <1>16. Agreed12'
    BY <1>0, <1>1, <1>2 DEF Agreed12
  <1> QED
    BY <1>12, <1>13, <1>14, <1>15, <1>16 DEF AgreeInv

LEMMA AgreeTicket ==
    ASSUME TypeOK, Control, AgreeInv, s2n_tls13_server_nst_recv
    PROVE  AgreeInv'
  <1>0. client.pc = "done" /\ server.v = 13 /\ UNCHANGED <<plan, conns, client, server, msg, cache>>
    BY DEF s2n_tls13_server_nst_recv, Control
  <1>1. \A s \in store' : s \in store \/ (s.kind = "ticket" /\ s.v = 13)
    BY DEF s2n_tls13_server_nst_recv
  <1>2. ~Handshaking /\ ~Handshaking'
    BY <1>0 DEF Handshaking
  <1>3. SessionsTrue'
    <2>1. \A s \in store : SessionTrue(s)' /\ (s.kind = "id" => -s.id <= conns)
      BY <1>0 DEF AgreeInv, SessionsTrue, SessionTrue, Matches
    <2>2. ASSUME NEW s, s.kind = "ticket", s.v = 13 PROVE SessionTrue(s)'
      BY <2>2 DEF SessionTrue, None
    <2>3. SessionTrue(client.session)' /\ (client.session.kind = "id" => -client.session.id < conns)
      BY <1>0 DEF AgreeInv, SessionsTrue, SessionTrue, Matches
    <2> QED
      BY <1>0, <1>1, <1>2, <2>1, <2>2, <2>3 DEF SessionsTrue
  <1>4. RetriesShort' /\ CacheTrue'
    BY <1>0, <1>2 DEF AgreeInv, RetriesShort, CacheTrue
  <1>5. Opening' /\ HelloTrue'
    BY <1>0 DEF AgreeInv, Opening, HelloTrue, Pure, Misplaced
  <1>6. Deciding' /\ Agreed12' /\ Agreed13'
    BY <1>0 DEF AgreeInv, Deciding, Agreed12, Agreed13, SameKey
  <1> QED
    BY <1>3, <1>4, <1>5, <1>6 DEF AgreeInv

LEMMA AgreeStep ==
    ASSUME TypeOK, Control, AgreeInv, [Next]_vars
    PROVE  AgreeInv'
  <1>1. CASE Tick \/ s2n_config_add_ticket_crypto_key \/ Finished \/ UNCHANGED vars
    <2>1. UNCHANGED <<plan, conns, client, server, msg, store, cache, nsts>>
      BY <1>1 DEF Tick, s2n_config_add_ticket_crypto_key, Finished, vars
    <2> QED
      BY <2>1, AgreeFrame DEF SameServer
  <1>2. CASE s2n_connection_add_new_tickets_to_send
    <2>1. SameServer
      BY <1>2 DEF s2n_connection_add_new_tickets_to_send, SameServer, TypeOK, Servers
    <2> QED
      BY <1>2, <2>1, AgreeFrame DEF s2n_connection_add_new_tickets_to_send
  <1>3. CASE ClientStep
    BY <1>3, AgreeHello, AgreeRetry, AgreeServerHello13, AgreeServerHello12, AgreeAlert, AgreeFinished, AgreeTicket
       DEF ClientStep
  <1>4. CASE ServerStep
    BY <1>4, AgreeHello13, AgreeHello12, AgreeDecides, AgreeStore, AgreeWrites, AgreeServerFinished
       DEF ServerStep, Decides12, Writes
  <1> QED
    BY <1>1, <1>2, <1>3, <1>4, AgreeConnect, AgreeClose DEF Next

(* What the invariant says of two peers that are done.                     *)
LEMMA AgreeEnds ==
    ASSUME Control, AgreeInv
    PROVE  SecretsAgree
  <1>1. EmsKept
    BY DEF AgreeInv, Agreed12, EmsKept
  <1>2. ASSUME BothDone
        PROVE  /\ client.secret = server.secret /\ client.suite = server.suite
               /\ client.resumed = server.resumed
               /\ server.v = 12 => client.ems = server.ems
               /\ server.v = 13 => client.chosen.name = server.chosen.name /\ client.chosen.id = server.chosen.id
    <2>1. server.v = 13 \/ server.v = 12
      BY <1>2 DEF Control, BothDone
    <2> QED
      BY <1>2, <2>1 DEF AgreeInv, Agreed12, Agreed13, SameKey, BothDone
  <1> QED
    BY <1>1, <1>2 DEF SecretsAgree

(* When a client and a server that are resuming, or not, are both done,    *)
(* they have the same secret, suite and key, agree whether the session was *)
(* resumed, and a TLS1.2 session keeps its extended master secret: whatever*)
(* the order of the steps, the tickets, the keys' rotation, the clock and  *)
(* the cache's answers (s2n_resume.c, s2n_psk.c).  The plans are those     *)
(* where a client that is asked to retry has at most two keys to offer.    *)
THEOREM SecretsAgreed == Spec /\ RetriesShort => []SecretsAgree
  <1>1. Init /\ RetriesShort => TypeOK /\ Control /\ AgreeInv
    BY StartsWell, AgreeInit
  <1>2. TypeOK /\ Control /\ AgreeInv /\ [Next]_vars => (TypeOK /\ Control /\ AgreeInv)'
    BY ControlStep, AgreeStep
  <1>3. Control /\ AgreeInv => SecretsAgree
    BY AgreeEnds
  <1> QED
    BY <1>1, <1>2, <1>3, PTL DEF Spec
=============================================================================
