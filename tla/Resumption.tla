----------------------------- MODULE Resumption -----------------------------
(***************************************************************************)
(* Session resumption: the ticket keys of a server and their life from     *)
(* encrypt-decrypt to decrypt-only to expired, the tickets they protect,   *)
(* the session cache, pre-shared keys of TLS1.3, and connections that      *)
(* resume sessions, one after the other, while the clock moves.            *)
(*                                                                         *)
(* Code: tls/s2n_resume.c, s2n_psk.c, s2n_server_new_session_ticket.c, the *)
(* extensions of tickets and pre-shared keys, and the ticket keys of       *)
(* s2n_config.c.                                                           *)
(*                                                                         *)
(* A tick of the clock is a second.  A secret is the number of the full    *)
(* handshake it comes from, with what was derived since.  A ticket is its  *)
(* content and the name of the key that encrypts it: encryption is perfect.*)
(***************************************************************************)
EXTENDS Integers, Sequences, FiniteSets, SequencesExt, FiniteSetsExt

CONSTANTS
    EncLife, DecLife,      \* encrypt_decrypt_key_lifetime, decrypt_key_lifetime
    SessionLife,           \* session_state_lifetime
    KeyingLife,            \* server_keying_material_lifetime
    Week,                  \* ONE_WEEK_IN_SEC
    MaxSkew,               \* MAX_ALLOWED_CLOCK_SKEW_SEC
    MaxKeys,               \* S2N_MAX_TICKET_KEYS
    MaxRejected,           \* MAX_REJECTED_TICKETS
    AgeModulus,            \* a ticket age is a uint32
    AgeAdds,               \* values of ticket_age_add
    KeyNames,              \* the keys the application adds, in this order
    IntroDelays,           \* how far in the future it introduces them
    InitialTickets,        \* initial_tickets_to_send
    Plans,                 \* how the peers of every connection are configured
    MaxTime                \* bound of the clock

None == "none"

(* Lifetimes are numbers of seconds, kept in nanoseconds: half of one is   *)
(* exact.  ticket_age_add is a uint32.                                     *)
ASSUME LifetimesAssumption ==
    /\ EncLife \in Nat /\ EncLife = 2 * (EncLife \div 2)
    /\ {DecLife, SessionLife, KeyingLife, Week, MaxSkew, InitialTickets} \subseteq Nat
    /\ IntroDelays \subseteq Nat
    /\ {MaxRejected, AgeModulus} \subseteq Nat \ {0}
    /\ AgeAdds \subseteq 0..(AgeModulus - 1)
    /\ KeyNames \in Seq(STRING) /\ Len(KeyNames) > 0

VARIABLES
    plan,                  \* the connections to come
    now,                   \* the wall clock
    added,                 \* keys added so far
    keys,                  \* config->ticket_keys
    conns,                 \* connections made so far
    client, server,        \* the two ends of the connection
    msg,                   \* the handshake message under way
    nsts,                  \* TLS1.3 tickets under way
    store,                 \* sessions the client keeps
    cache,                 \* the server's cache: session id to entry
    nst                    \* s2n_server_nst_write and its TLS1.3 form, under way

vars == <<plan, now, added, keys, conns, client, server, msg, nsts, store, cache, nst>>

MinOf(a, b) == IF a < b THEN a ELSE b

----------------------------------------------------------------------------
(* Ticket keys.                                                            *)
Expiry(k) == k.intro + EncLife + DecLife
CanEncrypt(k) == k.intro <= now /\ now < k.intro + EncLife
EncryptKeys == {k \in keys : CanEncrypt(k)}

s2n_config_is_encrypt_key_available == EncryptKeys # {}

Peak(k) == k.intro + EncLife \div 2

Weight(k) == IF now < Peak(k) THEN now - k.intro ELSE EncLife \div 2 - (now - Peak(k))

(* The keys the random choice may return: none of weight zero.             *)
s2n_compute_weight_of_encrypt_decrypt_keys == {k \in EncryptKeys : Weight(k) > 0}

s2n_get_ticket_encrypt_decrypt_key ==
    IF Cardinality(EncryptKeys) <= 1 THEN EncryptKeys ELSE s2n_compute_weight_of_encrypt_decrypt_keys

s2n_find_ticket_key(name) == {k \in keys : k.name = name /\ now < Expiry(k)}

s2n_config_wipe_expired_ticket_crypto_keys == {k \in keys : now < Expiry(k)}

(* The application adds keys one at a time; each has a name of its own.    *)
s2n_config_add_ticket_crypto_key ==
    /\ added < Len(KeyNames)
    /\ nst.pc = "idle"
    /\ \E delay \in IntroDelays, wiped \in {s2n_config_wipe_expired_ticket_crypto_keys} :
         keys' = IF Cardinality(wiped) < MaxKeys
                 THEN wiped \cup {[name |-> KeyNames[added + 1], intro |-> now + delay]} ELSE wiped
    /\ added' = added + 1
    /\ UNCHANGED <<plan, now, conns, client, server, msg, nsts, store, cache, nst>>

(* The clock moves only before a step that reads it: moving it at another  *)
(* moment leads to the same states.                                        *)
ClockRead == ~(client.pc = "sent" /\ msg.type # "hello") /\ server.pc # "finish" /\ client.pc # "failed"

Tick ==
    /\ now < MaxTime /\ ClockRead
    /\ now' = now + 1
    /\ UNCHANGED <<plan, added, keys, conns, client, server, msg, nsts, store, cache, nst>>

----------------------------------------------------------------------------
(* Tickets, sessions and pre-shared keys.  `since` and `born` are not in   *)
(* the code: when the first ticket of the chain was made, and this one.    *)
NoTicket == [v |-> 0, key |-> None, issue |-> 0, add |-> 0, secret |-> <<>>, suite |-> 0,
             ems |-> FALSE, expiration |-> 0, since |-> 0, born |-> 0, life |-> 0]

NoSession == [kind |-> None, id |-> 0, ticket |-> NoTicket, v |-> 0, issue |-> 0, add |-> 0,
              secret |-> <<>>, suite |-> 0, ems |-> FALSE]

NoPsk == [type |-> None, id |-> NoTicket, name |-> None, secret |-> <<>>, suite |-> 0, add |-> 0,
          issue |-> 0, expiration |-> 0]
s2n_external_psk_new(name, suite) ==
    [NoPsk EXCEPT !.type = "external", !.name = name, !.secret = <<name>>, !.suite = suite]

(* The keys an application sets itself are external ones, with a name: an *)
(* empty identity is refused.                                              *)
ExternalPsks ==
    [type : {"external"}, id : {NoTicket}, name : STRING \ {None}, secret : Seq(STRING), suite : Nat, add : {0},
     issue : {0}, expiration : {0}]
Setups ==
    [v : {12, 13}, prefer : Nat, auth : BOOLEAN, old : BOOLEAN, retry : BOOLEAN, resume : BOOLEAN, extra : Nat,
     psks : Seq(ExternalPsks), server_psks : Seq(ExternalPsks)]
ASSUME PlansAssumption == Plans \subseteq Seq(Setups)

s2n_validate_ticket_age(issue) ==
    IF now < issue THEN issue - now <= MaxSkew ELSE now - issue <= Week

(* The key material a ticket protects lives on, but never longer than that *)
(* of the ticket which resumed this connection.                            *)
MutFreshExpiration(chosen) == now + KeyingLife
s2n_tls13_serialize_keying_material_expiration(chosen) ==
    IF chosen.type = "resumption" THEN MinOf(chosen.expiration, now + KeyingLife) ELSE now + KeyingLife

s2n_tls13_serialize_resumption_state(k, s) ==
    [v |-> 13, key |-> k, issue |-> now, add |-> nst.add, secret |-> s.secret \o <<"ticket", s.tickets_sent>>,
     suite |-> s.suite, ems |-> FALSE, expiration |-> s2n_tls13_serialize_keying_material_expiration(s.chosen),
     since |-> IF s.chosen.type = "resumption" THEN s.chosen.id.since ELSE now,
     born |-> nst.at, life |-> nst.life]
s2n_tls12_serialize_resumption_state(k, s) ==
    [v |-> 12, key |-> k, issue |-> now, add |-> 0, secret |-> s.secret, suite |-> s.suite, ems |-> s.ems,
     expiration |-> 0, since |-> now, born |-> nst.at, life |-> nst.life]

s2n_tls13_deserialize_session_state(t) ==
    [NoPsk EXCEPT !.type = "resumption", !.id = t, !.secret = t.secret, !.suite = t.suite, !.add = t.add,
                  !.issue = t.issue, !.expiration = t.expiration]

(* Decrypting a TLS1.3 ticket, on the server.                              *)
Decrypts(t) == t.v = 13 /\ s2n_find_ticket_key(t.key) # {}
s2n_resume_decrypt_session(t) ==
    Decrypts(t) /\ s2n_validate_ticket_age(t.issue) /\ t.expiration > now

(* And a TLS1.2 one, or an entry of the cache.                             *)
s2n_tls12_deserialize_resumption_state(t) ==
    /\ t.v = 12 /\ s2n_find_ticket_key(t.key) # {}
    /\ t.suite = server.suite
    /\ t.issue <= now /\ now - t.issue <= SessionLife

----------------------------------------------------------------------------
(* The client opens a connection.  A setup says which version it will be,  *)
(* the suite the server prefers, whether it asks for a client certificate, *)
(* whether the client is one without extended master secrets, whether the  *)
(* server will retry, and the external keys of both.                       *)
NoSetup == [v |-> 0, prefer |-> 0, auth |-> FALSE, old |-> FALSE, retry |-> FALSE, resume |-> FALSE, extra |-> 0,
            psks |-> <<>>, server_psks |-> <<>>]
Resting == [pc |-> "idle", session |-> NoSession, psks |-> <<>>, sid |-> 0, ems |-> FALSE, suite |-> 0,
            retried |-> FALSE, chosen |-> NoPsk, secret |-> <<>>, resumed |-> FALSE, setup |-> NoSetup]

s2n_connection_set_session(s) ==
    IF s.v = 13 /\ s2n_validate_ticket_age(s.issue)
    THEN <<[NoPsk EXCEPT !.type = "resumption", !.id = s.ticket, !.secret = s.secret, !.suite = s.suite,
                         !.add = s.add, !.issue = s.issue]>>
    ELSE <<>>

(* Withheld when a session was set that did not negotiate it: a TLS1.3     *)
(* session sets set_session too and leaves ems_negotiated FALSE.           *)
s2n_client_ems_should_send(c) ==
    LET set_session == c.session.v = 12 \/ \E i \in DOMAIN c.psks : c.psks[i].type = "resumption"
        ems_negotiated == c.session.v = 12 /\ c.session.ems
    IN ~c.setup.old /\ ~(set_session /\ ~ems_negotiated)

Connect ==
    /\ client.pc = "idle" /\ conns < Len(plan)
    /\ conns' = conns + 1
    /\ \E setup \in {plan[conns']} : \E s \in IF setup.resume /\ store # {} THEN store ELSE {NoSession} :
         /\ client' = [Resting EXCEPT
              !.pc = "hello", !.session = s, !.setup = setup,
              !.psks = IF setup.psks # <<>> THEN setup.psks ELSE s2n_connection_set_session(s),
              !.sid = IF s.kind = "id" THEN s.id ELSE conns',
              !.ems = s.v = 12 /\ s.ems, !.suite = s.suite]
         /\ server' = [pc |-> "wait", v |-> setup.v, suite |-> 0, chosen |-> NoPsk, index |-> 0, ems |-> FALSE,
                       secret |-> <<>>, sid |-> 0, status |-> None, resumed |-> FALSE,
                       tickets_sent |-> 0, tickets_to_send |-> InitialTickets, first |-> 0]
    /\ UNCHANGED <<plan, now, added, keys, msg, nsts, store, cache, nst>>

(* Where the keys that are offered stand in the list, in order: after a    *)
(* retry only those of the chosen suite's hash.                            *)
Offers(c) ==
    LET kept == {i \in 1..Len(c.psks) : c.retried => c.psks[i].suite = c.suite}
    IN  {f \in [1..Cardinality(kept) -> kept] : \A i, j \in DOMAIN f : i < j => f[i] < f[j]}

s2n_generate_obfuscated_ticket_age(p) == IF p.type = "external" THEN 0 ELSE (now - p.issue + p.add) % AgeModulus

ClientFail == client' = [client EXCEPT !.pc = "failed"] /\ UNCHANGED msg

s2n_client_hello_send ==
    /\ client.pc = "hello"
    /\ \E offered \in Offers(client) :
       IF client.setup.v = 13 /\ \E i \in DOMAIN offered :
                client.psks[offered[i]].type = "resumption" /\ now < client.psks[offered[i]].issue
       THEN ClientFail
       ELSE /\ msg' = [type |-> "hello", sid |-> client.sid,
                       psks |-> IF client.setup.v = 13
                                THEN [i \in DOMAIN offered |->
                                        [psk |-> client.psks[offered[i]],
                                         age |-> s2n_generate_obfuscated_ticket_age(client.psks[offered[i]])]]
                                ELSE <<>>,
                       ticket |-> IF client.session.kind = "ticket" /\ client.session.v = 12
                                  THEN client.session.ticket ELSE NoTicket,
                       ems |-> s2n_client_ems_should_send(client)]
            /\ client' = [client EXCEPT !.pc = "sent"]
    /\ UNCHANGED <<plan, now, added, keys, conns, server, nsts, store, cache, nst>>

----------------------------------------------------------------------------
(* The server takes the hello: TLS1.3.                                     *)
s2n_validate_ticket_lifetime(age, p) == (age + AgeModulus - p.add) % AgeModulus < SessionLife

s2n_offered_psk_list_choose_psk(o) ==
    /\ s2n_resume_decrypt_session(o.psk.id)
    /\ s2n_validate_ticket_lifetime(o.age, s2n_tls13_deserialize_session_state(o.psk.id))

s2n_select_resumption_psk(offered) ==
    {i \in 1..MinOf(Len(offered), MaxRejected) :
        /\ s2n_offered_psk_list_choose_psk(offered[i])
        /\ \A j \in 1..(i - 1) : ~s2n_offered_psk_list_choose_psk(offered[j])}

(* By the server's preference among its own.                               *)
s2n_select_external_psk(own, offered) ==
    {i \in 1..Len(offered) : \E j \in 1..Len(own) :
        /\ own[j].name = offered[i].psk.name
        /\ \A n \in 1..(j - 1) : \A m \in 1..Len(offered) : own[n].name # offered[m].psk.name}

ServerPsks == client.setup.server_psks

s2n_client_psk_recv ==
    IF ServerPsks # <<>> THEN s2n_select_external_psk(ServerPsks, msg.psks)
    ELSE s2n_select_resumption_psk(msg.psks)

ServerPsk(i) ==
    IF ServerPsks # <<>> THEN ServerPsks[CHOOSE j \in 1..Len(ServerPsks) : ServerPsks[j].name = msg.psks[i].psk.name]
    ELSE s2n_tls13_deserialize_session_state(msg.psks[i].psk.id)

(* The binder proves that the client has the key the server has chosen.    *)
s2n_psk_verify_binder(i) == msg.psks[i].psk.secret = ServerPsk(i).secret

(* A suite of the key's hash, or the preferred one.                        *)
MutAnySuite(psk) == client.setup.prefer
s2n_set_cipher_as_server(psk) == IF psk = NoPsk THEN client.setup.prefer ELSE psk.suite

ServerFail == server' = [server EXCEPT !.pc = "failed"] /\ msg' = [type |-> "alert"]

ServerHello13(psk, i) ==
    \E retry \in {client.setup.retry /\ server.first = 0} :
      /\ server' = [server EXCEPT
           !.pc = IF retry THEN "wait" ELSE "done", !.chosen = psk, !.index = i,
           !.first = IF retry THEN s2n_set_cipher_as_server(psk) ELSE server.first,
           !.suite = s2n_set_cipher_as_server(psk), !.secret = <<conns>> \o psk.secret,
           !.resumed = psk.type = "resumption"]
      /\ msg' = [type |-> IF retry THEN "retry" ELSE "serverhello", v |-> 13, suite |-> s2n_set_cipher_as_server(psk),
                 psk |-> psk # NoPsk, index |-> i, sid |-> msg.sid, ems |-> FALSE, nst |-> FALSE]

ClientHelloRecv13 ==
    /\ server.pc = "wait" /\ server.v = 13 /\ msg.type = "hello"
    /\ IF s2n_client_psk_recv = {} THEN ServerHello13(NoPsk, 0)
       ELSE \E i \in s2n_client_psk_recv :
              IF s2n_psk_verify_binder(i) THEN ServerHello13(ServerPsk(i), i) ELSE ServerFail
    /\ UNCHANGED <<plan, now, added, keys, conns, client, nsts, store, cache, nst>>

----------------------------------------------------------------------------
(* The server takes the hello: TLS1.2.                                     *)
s2n_client_session_ticket_recv(t) ==
    IF client.setup.auth THEN None
    ELSE IF t # NoTicket THEN "decrypt"
    ELSE IF s2n_config_is_encrypt_key_available THEN "new" ELSE None

ClientHelloRecv12 ==
    /\ server.pc = "wait" /\ server.v = 12 /\ msg.type = "hello"
    /\ server' = [server EXCEPT !.pc = "type", !.suite = client.setup.prefer, !.ems = msg.ems, !.sid = msg.sid,
                                !.status = s2n_client_session_ticket_recv(msg.ticket)]
    /\ UNCHANGED <<plan, now, added, keys, conns, client, msg, nsts, store, cache, nst>>

Hello12(s) == msg' = [type |-> "serverhello", v |-> 12, suite |-> s.suite, psk |-> FALSE, index |-> 0, sid |-> s.sid,
                      ems |-> s.ems, nst |-> s.status = "new"]

(* Resumed with the secret of the ticket or of the cache entry.            *)
Resume12(t) ==
    \E s \in {[server EXCEPT !.pc = IF server.status = "new" THEN "nst" ELSE "finish",
                             !.secret = t.secret, !.resumed = TRUE]} :
      server' = s /\ Hello12(s)

(* The extended master secret: the status of the session and of this hello *)
(* must agree; where they do not the connection takes the session's.       *)
EmsAgrees(t) == server.ems = t.ems
s2n_validate_ems_status(ems) == ems => msg.ems

(* A full handshake, with a new session id; server.ems is as received.     *)
FullHandshake12(status) ==
    \E s \in {[server EXCEPT !.pc = "store", !.secret = <<conns>>, !.sid = -conns,
                             !.status = status, !.ems = msg.ems]} :
      server' = s /\ Hello12(s)

TicketDeclined(t) ==
    \E ems \in {IF s2n_tls12_deserialize_resumption_state(t) THEN t.ems ELSE server.ems} :
      IF s2n_validate_ems_status(ems)
      THEN FullHandshake12(IF s2n_config_is_encrypt_key_available THEN "new" ELSE server.status)
      ELSE ServerFail

s2n_conn_set_handshake_type_ticket ==
    /\ server.pc = "type" /\ server.status = "decrypt"
    /\ IF s2n_tls12_deserialize_resumption_state(msg.ticket) /\ EmsAgrees(msg.ticket)
       THEN Resume12(msg.ticket) ELSE TicketDeclined(msg.ticket)
    /\ UNCHANGED <<plan, now, added, keys, conns, client, nsts, store, cache, nst>>

s2n_allowed_to_cache_connection == ~client.setup.auth
Entry == IF server.sid \in DOMAIN cache THEN cache[server.sid] ELSE NoTicket

(* The cache may answer later; its answer may be a miss.                   *)
s2n_resume_from_cache ==
    /\ server.pc = "type" /\ server.status # "decrypt"
    /\ IF ~s2n_allowed_to_cache_connection THEN FullHandshake12(server.status)
       ELSE IF s2n_tls12_deserialize_resumption_state(Entry) /\ EmsAgrees(Entry) THEN Resume12(Entry)
       ELSE \E ems \in {IF s2n_tls12_deserialize_resumption_state(Entry) THEN Entry.ems ELSE server.ems} :
              IF s2n_validate_ems_status(ems) THEN FullHandshake12(server.status) ELSE ServerFail
    /\ UNCHANGED <<plan, now, added, keys, conns, client, nsts, store, cache, nst>>

(* When the keys are computed a full handshake goes to the cache, if a key *)
(* can be had.                                                             *)
s2n_store_to_cache ==
    /\ server.pc = "store" /\ client.pc = "key"
    /\ server' = [server EXCEPT !.pc = IF server.status = "new" THEN "nst" ELSE "finish"]
    /\ IF s2n_allowed_to_cache_connection /\ s2n_get_ticket_encrypt_decrypt_key # {}
       THEN \E k \in s2n_get_ticket_encrypt_decrypt_key :
              cache' = [id \in DOMAIN cache \cup {server.sid} |->
                          IF id = server.sid THEN s2n_tls12_serialize_resumption_state(k.name, server) ELSE cache[id]]
       ELSE UNCHANGED cache
    /\ UNCHANGED <<plan, now, added, keys, conns, client, msg, nsts, store, nst>>

----------------------------------------------------------------------------
(* A ticket is written in steps: the key, the lifetime, the content.  Each *)
(* reads the clock.                                                        *)
NstIdle == [pc |-> "idle", key |-> [name |-> None, intro |-> 0], life |-> 0, at |-> 0, add |-> 0]

(* Key material that has, or is about to have, no life left.               *)
s2n_psk_validate_keying_material == server.chosen.type = "resumption" => server.chosen.expiration > now + 1

(* A TLS1.2 server that cannot write the ticket it announced sends an      *)
(* empty one; a TLS1.3 server sends none, and tries again at the next call.*)
NstFails ==
    /\ nst' = NstIdle
    /\ IF server.v = 12 THEN server' = [server EXCEPT !.pc = "finish"] ELSE UNCHANGED server
    /\ UNCHANGED nsts

s2n_server_nst_send ==
    /\ server.pc = "nst" /\ nst.pc = "idle"
    /\ IF s2n_get_ticket_encrypt_decrypt_key = {} THEN NstFails
       ELSE /\ \E k \in s2n_get_ticket_encrypt_decrypt_key : nst' = [NstIdle EXCEPT !.pc = "life", !.key = k]
            /\ UNCHANGED <<server, nsts>>
    /\ UNCHANGED <<plan, now, added, keys, conns, client, msg, store, cache>>

s2n_tls13_server_nst_send ==
    /\ server.pc = "done" /\ client.pc = "done" /\ server.v = 13 /\ nst.pc = "idle"
    /\ server.tickets_sent < server.tickets_to_send
    /\ IF ~s2n_psk_validate_keying_material
       THEN server' = [server EXCEPT !.tickets_to_send = server.tickets_sent] /\ UNCHANGED <<nst, nsts>>
       ELSE IF s2n_get_ticket_encrypt_decrypt_key = {} THEN NstFails
       ELSE /\ \E k \in s2n_get_ticket_encrypt_decrypt_key, a \in AgeAdds :
                   nst' = [NstIdle EXCEPT !.pc = "life", !.key = k, !.add = a]
            /\ UNCHANGED <<server, nsts>>
    /\ UNCHANGED <<plan, now, added, keys, conns, client, msg, store, cache>>

(* The remaining life of the key, the session, the key material.           *)
KeyLeft(k) == Expiry(k) - now
MaterialLife ==
    IF server.v = 12 THEN Week
    ELSE IF server.chosen = NoPsk THEN KeyingLife ELSE MinOf(KeyingLife, server.chosen.expiration - now)

TicketLifetime(k) == Min({KeyLeft(k), SessionLife, MaterialLife, Week})
LifetimeKnown(k) ==
    /\ now >= k.intro /\ KeyLeft(k) >= 0
    /\ (server.v = 13 /\ server.chosen # NoPsk) => server.chosen.expiration >= now

s2n_generate_ticket_lifetime ==
    /\ nst.pc = "life"
    /\ \E k \in {nst.key} :
         IF LifetimeKnown(k) /\ (server.v = 13 => TicketLifetime(k) > 0)
         THEN /\ nst' = [nst EXCEPT !.pc = "encrypt", !.life = TicketLifetime(k), !.at = now]
              /\ UNCHANGED <<server, nsts>>
         ELSE NstFails
    /\ UNCHANGED <<plan, now, added, keys, conns, client, msg, store, cache>>

MutNoCount(s) == s.tickets_sent

TicketsSent(s) == s.tickets_sent + 1

s2n_resume_encrypt_session_ticket ==
    /\ nst.pc = "encrypt"
    /\ nsts' = Append(nsts,
          IF server.v = 13
          THEN [ticket |-> s2n_tls13_serialize_resumption_state(nst.key.name, server), life |-> nst.life,
                add |-> nst.add, nonce |-> server.tickets_sent]
          ELSE [ticket |-> s2n_tls12_serialize_resumption_state(nst.key.name, server), life |-> nst.life,
                add |-> 0, nonce |-> 0])
    /\ server' = [server EXCEPT !.pc = IF server.v = 12 THEN "finish" ELSE @, !.tickets_sent = TicketsSent(server)]
    /\ nst' = NstIdle
    /\ UNCHANGED <<plan, now, added, keys, conns, client, msg, store, cache>>

(* The application of the server asks for more.                            *)
s2n_connection_add_new_tickets_to_send ==
    /\ server.pc = "done" /\ client.pc = "done" /\ server.v = 13 /\ nst.pc = "idle"
    /\ server.tickets_to_send < InitialTickets + client.setup.extra /\ server.tickets_sent = server.tickets_to_send
    /\ s2n_psk_validate_keying_material
    /\ server' = [server EXCEPT !.tickets_to_send = @ + 1]
    /\ UNCHANGED <<plan, now, added, keys, conns, client, msg, nsts, store, cache, nst>>

ServerFinished12 ==
    /\ server.pc = "finish" /\ client.pc = "key"
    /\ server' = [server EXCEPT !.pc = "done"]
    /\ msg' = [type |-> "finished"]
    /\ UNCHANGED <<plan, now, added, keys, conns, client, nsts, store, cache, nst>>

----------------------------------------------------------------------------
(* The client takes the answer.                                            *)
s2n_set_hello_retry_required ==
    /\ client.pc = "sent" /\ msg.type = "retry"
    /\ client' = [client EXCEPT !.pc = "hello", !.retried = TRUE, !.suite = msg.suite]
    /\ UNCHANGED <<plan, now, added, keys, conns, server, msg, nsts, store, cache, nst>>

(* The index counts what was offered; the client looks it up in the list   *)
(* of all its keys.                                                        *)
MutFirstPsk(m) == IF m.psk THEN client.psks[1] ELSE NoPsk
s2n_server_psk_recv(m) == IF m.psk /\ m.index <= Len(client.psks) THEN client.psks[m.index] ELSE NoPsk

s2n_set_cipher_as_client(m) ==
    /\ client.retried => m.suite = client.suite
    /\ m.psk => s2n_server_psk_recv(m).suite = m.suite

ServerHelloRecv13 ==
    /\ client.pc = "sent" /\ msg.type = "serverhello" /\ msg.v = 13
    /\ IF s2n_set_cipher_as_client(msg)
       THEN /\ client' = [client EXCEPT
                 !.pc = "done", !.suite = msg.suite, !.chosen = s2n_server_psk_recv(msg),
                 !.secret = <<conns>> \o s2n_server_psk_recv(msg).secret,
                 !.resumed = s2n_server_psk_recv(msg).type = "resumption"]
            /\ UNCHANGED msg
       ELSE ClientFail
    /\ UNCHANGED <<plan, now, added, keys, conns, server, nsts, store, cache, nst>>

(* The id the client sent, given back, resumes the session.                *)
ServerHelloRecv12 ==
    /\ client.pc = "sent" /\ msg.type = "serverhello" /\ msg.v = 12
    /\ IF msg.sid # client.sid
       THEN /\ client' = [client EXCEPT !.pc = "key", !.sid = msg.sid, !.suite = msg.suite, !.ems = msg.ems,
                                        !.secret = <<conns>>]
            /\ UNCHANGED msg
       ELSE IF client.session.v = 12 /\ client.suite = msg.suite /\ (client.ems => msg.ems)
       THEN /\ client' = [client EXCEPT !.pc = "key", !.ems = msg.ems, !.secret = client.session.secret,
                                        !.resumed = TRUE]
            /\ UNCHANGED msg
       ELSE ClientFail
    /\ UNCHANGED <<plan, now, added, keys, conns, server, nsts, store, cache, nst>>

AlertRecv ==
    /\ msg.type = "alert" /\ client.pc = "sent"
    /\ ClientFail
    /\ UNCHANGED <<plan, now, added, keys, conns, server, nsts, store, cache, nst>>

(* What s2n_connection_get_session returns at the end of a TLS1.2          *)
(* handshake: the new ticket, or the old one, or the session id.           *)
s2n_client_serialize_resumption_state(t) ==
    [NoSession EXCEPT !.kind = IF t = NoTicket THEN "id" ELSE "ticket", !.id = IF t = NoTicket THEN client.sid ELSE 0,
                      !.ticket = t, !.v = 12, !.issue = now, !.secret = client.secret, !.suite = client.suite,
                      !.ems = client.ems]

ClientTicket ==
    IF nsts # <<>> THEN nsts[1].ticket ELSE IF client.resumed THEN client.session.ticket ELSE NoTicket

ServerFinishedRecv12 ==
    /\ client.pc = "key" /\ msg.type = "finished"
    /\ client' = [client EXCEPT !.pc = "done"]
    /\ store' = {s2n_client_serialize_resumption_state(ClientTicket)}
    /\ nsts' = <<>>
    /\ UNCHANGED <<plan, now, added, keys, conns, server, msg, cache, nst>>

(* The callback of the application keeps the session of a TLS1.3 ticket.   *)
s2n_tls13_server_nst_recv ==
    /\ client.pc = "done" /\ nsts # <<>>
    /\ nsts' = Tail(nsts)
    /\ \E n \in {Head(nsts)} :
         store' = {[kind |-> "ticket", id |-> 0, ticket |-> n.ticket, v |-> 13, issue |-> now, add |-> n.add,
                    secret |-> client.secret \o <<"ticket", n.nonce>>, suite |-> client.suite, ems |-> FALSE]}
                  \cup {s \in store : s.v = 13 /\ s.secret[1] = conns}
    /\ UNCHANGED <<plan, now, added, keys, conns, client, server, msg, cache, nst>>

(* Both ends wipe their connections.  What is under way is lost.           *)
Close ==
    /\ nst.pc = "idle"
    /\ \/ client.pc = "done" /\ server.pc = "done"
       \/ client.pc = "failed"
    /\ client' = Resting /\ server' = [server EXCEPT !.pc = "idle"]
    /\ msg' = [type |-> None] /\ nsts' = <<>>
    /\ UNCHANGED <<plan, now, added, keys, conns, store, cache, nst>>

Finished == client.pc = "idle" /\ conns = Len(plan) /\ UNCHANGED vars

Init ==
    /\ plan \in Plans
    /\ now = 0 /\ added = 1 /\ keys = {[name |-> KeyNames[1], intro |-> 0]} /\ conns = 0
    /\ client = Resting
    /\ server = [pc |-> "idle", v |-> 0, suite |-> 0, chosen |-> NoPsk, index |-> 0, ems |-> FALSE, secret |-> <<>>,
                 sid |-> 0, status |-> None, resumed |-> FALSE, tickets_sent |-> 0, tickets_to_send |-> 0, first |-> 0]
    /\ msg = [type |-> None] /\ nsts = <<>> /\ store = {} /\ cache = <<>> /\ nst = NstIdle

ClientStep == \/ s2n_client_hello_send \/ s2n_set_hello_retry_required \/ ServerHelloRecv13 \/ ServerHelloRecv12
              \/ AlertRecv \/ ServerFinishedRecv12 \/ s2n_tls13_server_nst_recv
ServerStep == \/ ClientHelloRecv13 \/ ClientHelloRecv12 \/ s2n_conn_set_handshake_type_ticket \/ s2n_resume_from_cache
              \/ s2n_store_to_cache \/ s2n_server_nst_send \/ s2n_tls13_server_nst_send \/ s2n_generate_ticket_lifetime
              \/ s2n_resume_encrypt_session_ticket \/ ServerFinished12
Next == \/ Tick \/ s2n_config_add_ticket_crypto_key \/ s2n_connection_add_new_tickets_to_send
        \/ Connect \/ ClientStep \/ ServerStep \/ Close \/ Finished

Spec == Init /\ [][Next]_vars
FairSpec == Spec /\ WF_vars(ClientStep) /\ WF_vars(ServerStep)

----------------------------------------------------------------------------
BothDone == client.pc = "done" /\ server.pc = "done"

(* A session is resumed with the extended master secret it was made with   *)
(* or without: not by a hello that does not repeat the extension, nor into *)
(* a connection that has one the session lacks (RFC 7627, the ems byte of  *)
(* the ticket and s2n_client_ems_should_send).                             *)
EmsKept ==
    (server.v = 12 /\ server.pc \in {"nst", "finish", "done"} /\ server.resumed)
    => server.ems = client.session.ems

(* When both peers are done they have the same secret, suite, key and      *)
(* extended master secret, and agree whether the session was resumed       *)
(* (s2n_connection_is_session_resumed), which had the same extended master *)
(* secret.                                                                 *)
SecretsAgree ==
    /\ BothDone => /\ client.secret = server.secret /\ client.suite = server.suite
                   /\ client.resumed = server.resumed
                   /\ server.v = 12 => client.ems = server.ems
                   /\ server.v = 13 => client.chosen.name = server.chosen.name /\ client.chosen.id = server.chosen.id
    /\ EmsKept

(* No two tickets of a connection carry the same secret, also when one was *)
(* given up half written (the nonce of s2n_tls13_server_nst_write), and no *)
(* more are sent than were asked for.                                      *)
TicketSecretsUnique ==
    /\ \A s, t \in {x \in store : x.v = 13} : s.secret = t.secret => s.ticket = t.ticket
    /\ server.v = 13 => server.tickets_sent <= server.tickets_to_send

(* A server resumes a TLS1.3 connection.                                   *)
Resumes == server.pc = "wait" /\ server'.pc = "done" /\ server'.resumed
Declines ==
    server.pc = "wait" /\ server'.pc = "done" /\ server.v = 13 /\ ~server'.resumed /\ ServerPsks = <<>>

(* While a key may encrypt and no other was introduced in the same second, *)
(* the random choice of s2n_get_ticket_encrypt_decrypt_key finds a key:    *)
(* rotation leaves no gap.                                                 *)
RotationSeamless ==
    (s2n_config_is_encrypt_key_available
     /\ \A k, l \in EncryptKeys : k.intro = l.intro => k = l)
    => s2n_get_ticket_encrypt_decrypt_key # {}

(* Tickets live as long as they should.  Not longer: key material is not   *)
(* kept alive by resuming it again and again; a TLS1.3 connection is       *)
(* resumed only while its life, counted from the first ticket of the       *)
(* chain, is not over (s2n_tls13_serialize_keying_material_expiration).    *)
(* Not shorter: a server without external keys that declines a TLS1.3      *)
(* ticket does so after the lifetime it told the client; the key, the      *)
(* session and the key material last as long as                            *)
(* s2n_generate_ticket_lifetime says, whatever the clock did between its   *)
(* reading and the encryption; and there is always a key.                  *)
TicketsLive ==
    /\ [][Resumes => now < server'.chosen.id.since + KeyingLife]_vars
    /\ [][Declines => \A i \in 1..Len(msg.psks) :
              msg.psks[i].psk.type = "resumption" => now >= msg.psks[i].psk.id.born + msg.psks[i].psk.id.life]_vars
    /\ []RotationSeamless

(* A connection ends, whatever became of its tickets and keys, and what is *)
(* out of date ends in a full handshake, not in a failure: a handshake     *)
(* fails only for an extended master secret that went missing, or after a  *)
(* retry for which the key of the first hello was not accepted again, or   *)
(* was not the one the client found under the index.                       *)
FallsBack ==
    client.pc = "hello" ~>
        \/ client.pc = "done"
        \/ /\ client.pc = "failed"
           /\ \/ client.setup.old /\ client.session.ems
              \/ client.retried /\ (server.suite # server.first \/ Len(client.psks) > 1)
=============================================================================
