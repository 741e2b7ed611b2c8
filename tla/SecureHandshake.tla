-------------------------- MODULE SecureHandshake --------------------------
(***************************************************************************)
(* A client and a server that run a handshake over two ordered channels of *)
(* records: what every message does to the transcript, the secrets and the *)
(* record keys of its sender and of its receiver, the early data a client  *)
(* sends before the server has answered, and what a server does with it:   *)
(* deliver it, or skip it by trial decryption.                             *)
(*                                                                         *)
(* Code: s2n_handshake_write_io, s2n_handshake_read_io, s2n_finish_read    *)
(* and s2n_handle_retry_state of tls/s2n_handshake_io.c,                   *)
(* s2n_establish_session.c, s2n_server_hello.c, s2n_server_hello_retry.c,  *)
(* the Finished and ChangeCipherSpec messages, s2n_send_early_data and     *)
(* s2n_recv_early_data.                                                    *)
(*                                                                         *)
(* Amounts of early data are small numbers; a record holds what one call   *)
(* sends.  Records are read whole (RecordReader is about their bytes).     *)
(***************************************************************************)
EXTENDS EarlyData

CONSTANTS
    Plans,      \* how the two peers are configured
    Overhead    \* what encryption adds to a record

VARIABLES
    plan,       \* the configuration of this handshake
    conn,       \* the two connections
    wire,       \* every record each side has written
    got,        \* how many of the peer's records each side has read
    tosend,     \* early data the client's application still has
    delivered   \* early data the server's application has received

vars == <<plan, conn, wire, got, tosend, delivered>>

Modes == {"client", "server"}

(* x, extract, sec: the extracted secret, its type, what was derived;      *)
(* wk, rk: the keys of the records it writes and reads; eds: the early     *)
(* data state; expected: early_data_expected, so the application is in     *)
(* s2n_send_early_data or s2n_recv_early_data; room: what that call's      *)
(* buffer still takes; plain: decrypted early data not yet taken; done:    *)
(* s2n_recv_early_data has returned success.                               *)
NewConn(m, p) ==
    [mode |-> m, v |-> 13, suite |-> "null", msg |-> 1, closed |-> "",
     neg |-> FALSE, hrr |-> FALSE, full |-> FALSE, ed |-> FALSE, eccs |-> FALSE,
     eds |-> "UNKNOWN", expected |-> FALSE, bytes |-> 0, async |-> FALSE, paused |-> FALSE,
     room |-> 0, plain |-> 0, done |-> FALSE, received |-> FALSE,
     chosen |-> 0, psk_hash |-> <<>>, share |-> 0,
     x |-> Zero, extract |-> NONE, sec |-> NoSecrets, client_finished |-> Zero,
     server_finished |-> Zero, log |-> <<>>, transcript |-> <<>>,
     wk |-> Zero, wseq |-> 0, rk |-> Zero, rseq |-> 0,
     ems |-> FALSE, master |-> Zero, keys |-> [k \in Modes |-> Zero]]

Init ==
    /\ plan \in Plans
    /\ conn = [m \in Modes |-> NewConn(m, plan)]
    /\ wire = [m \in Modes |-> <<>>]
    /\ got = [m \in Modes |-> 0]
    /\ tosend = plan.send
    /\ delivered = 0

Message(c) == s2n_conn_get_current_message_type(c)

(* s2n_conn_set_handshake_type.                                            *)
s2n_conn_set_handshake_type(c, p) ==
    [c EXCEPT !.neg = TRUE, !.ed = (c.eds = "ACCEPTED"),
              !.full = IF c.v = 13 THEN c.chosen = 0 ELSE ~p.resumed,
              !.master = IF c.v = 12 /\ p.resumed THEN <<"resumed", Hmac(c), <<>> >> ELSE @]

s2n_set_hello_retry_required(c) ==
    IF c.eds = "REQUESTED"
    THEN s2n_connection_set_early_data_state([c EXCEPT !.hrr = TRUE], "REJECTED")
    ELSE [c EXCEPT !.hrr = TRUE]

----------------------------------------------------------------------------
(* The handlers that send a message.                                       *)

(* s2n_client_hello_send: the binders leave the early secret of every PSK. *)
s2n_client_hello_send(c, p) ==
    LET h == IF s2n_client_early_data_indication_should_send(c, p)
             THEN s2n_client_early_data_indication_send(c, p)
             ELSE IF c.eds = "UNKNOWN"
             THEN s2n_connection_set_early_data_state(c, "NOT_REQUESTED")
             ELSE c
    IN  [h EXCEPT !.share = IF c.hrr THEN 2 ELSE 1,
                  !.psk_hash = [i \in 1..Len(p.psks) |-> PrfAlg[p.psks[i].suite]]]

s2n_server_hello_retry_send(c) ==
    [s2n_server_hello_retry_recreate_transcript(c) EXCEPT !.received = FALSE]

(* s2n_server_finished_send and its TLS1.3 form: the MAC or the verify     *)
(* data is in the message.  A resumed TLS1.2 server expands its keys here. *)
s2n_server_finished_send(c) ==
    IF c.v = 13 THEN c
    ELSE LET k == IF c.full THEN c ELSE s2n_prf_key_expansion(c)
         IN  [s2n_crypto_parameters_switch(k) EXCEPT
                !.server_finished = s2n_prf_finished(c, "server finished")]

s2n_client_finished_send(c) ==
    IF c.v = 13 THEN c
    ELSE [s2n_crypto_parameters_switch(c) EXCEPT
            !.client_finished = s2n_prf_finished(c, "client finished")]

s2n_end_of_early_data_send(c) == s2n_connection_set_early_data_state(c, "END")

SendHandler(c, p) ==
    CASE Message(c) = "CLIENT_HELLO" -> s2n_client_hello_send(c, p)
      [] Message(c) = "HELLO_RETRY_MSG" -> s2n_server_hello_retry_send(c)
      [] Message(c) = "CLIENT_KEY" -> s2n_calculate_keys(c)
      [] Message(c) = "SERVER_FINISHED" -> s2n_server_finished_send(c)
      [] Message(c) = "END_OF_EARLY_DATA" -> s2n_end_of_early_data_send(c)
      [] Message(c) = "CLIENT_FINISHED" -> s2n_client_finished_send(c)
      [] OTHER -> c

(* What a message carries.                                                 *)
Verify(c, m) ==
    LET f == IF m = "SERVER_FINISHED" THEN c.server_finished ELSE c.client_finished
    IN  IF c.v = 13 THEN FinishedMac(f, c.transcript) ELSE f
Body(c) ==
    LET m == Message(c)
    IN  [m |-> m,
         early |-> \/ m = "CLIENT_HELLO" /\ c.eds = "REQUESTED"
                   \/ m = "ENCRYPTED_EXTENSIONS" /\ c.eds = "ACCEPTED",
         psk |-> c.chosen, suite |-> c.suite, share |-> c.share, v |-> c.v,
         verify |-> IF m \in {"SERVER_FINISHED", "CLIENT_FINISHED"} THEN Verify(c, m) ELSE Zero]
NoBody == [m |-> "APPLICATION_DATA", early |-> FALSE, psk |-> 0, suite |-> "null",
           share |-> 0, v |-> 0, verify |-> Zero]

(* s2n_record_write: under the key of this direction, except that a        *)
(* ChangeCipherSpec of TLS1.3 is plaintext.                                *)
Record(c, type, body, n) ==
    LET plaintext == type = "ccs" /\ c.v = 13
    IN  [type |-> type, key |-> IF plaintext THEN Zero ELSE c.wk,
         seq |-> IF plaintext \/ c.wk = Zero THEN 0 ELSE c.wseq, body |-> body, n |-> n]
CountWrite(c, type) ==
    IF c.wk = Zero \/ (type = "ccs" /\ c.v = 13) THEN c ELSE [c EXCEPT !.wseq = @ + 1]

(* s2n_handshake_transcript_update.                                        *)
s2n_handshake_transcript_update(c, m) == [c EXCEPT !.transcript = @ \o <<m>>]

(* s2n_advance_message: a ChangeCipherSpec to be read is optional in       *)
(* TLS1.3 and is passed over.  The secrets of the handshake go when it is  *)
(* over.                                                                   *)
s2n_advance_message(c) ==
    LET skip == c.v = 13 /\ Row(c)[c.msg + 1] \in Ccs /\ ~IsWriter([c EXCEPT !.msg = @ + 1])
        a == [c EXCEPT !.msg = @ + IF skip THEN 2 ELSE 1]
    IN  IF s2n_handshake_is_complete(a) THEN s2n_tls13_secrets_clean(a) ELSE a

(* What follows a message, sent or received: hash it, derive secrets, set  *)
(* keys, go on to the next (the end of s2n_handshake_write_io and          *)
(* s2n_finish_read).                                                       *)
FinishMessage(m, c) ==
    \E t \in {IF Message(c) \in Ccs THEN c ELSE s2n_handshake_transcript_update(c, Message(c))} :
    \E s \in {IF Message(c) \in Ccs THEN t ELSE s2n_tls13_secrets_update(t)} :
    \E k \in {IF Message(c) \in Ccs THEN s ELSE s2n_tls13_key_schedule_update(s)} :
        conn' = [conn EXCEPT ![m] = IF k.closed # "" THEN k ELSE s2n_advance_message(k)]

----------------------------------------------------------------------------
(* When a side can take a step.  A server's application that receives      *)
(* early data calls s2n_recv_early_data until it succeeds.                 *)
Open(m) == conn[m].closed = "" /\ ~s2n_handshake_is_complete(conn[m])
Running(m) ==
    /\ Open(m)
    /\ m = "server" /\ plan.recv /\ ~conn[m].done => conn[m].expected
Reading(m) == ~IsWriter(conn[m]) /\ ~(conn[m].paused /\ conn[m].eds = "REQUESTED")
Arrived(m) == got[m] < Len(wire[Peer(m)])
Incoming(m) == wire[Peer(m)][got[m] + 1]
BlockedOnRead(m) == Open(m) /\ Reading(m) /\ ~Arrived(m) /\ conn[m].plain = 0
BlockedOnEarlyData(m) ==
    Open(m) /\ IsWriter(conn[m]) /\ Message(conn[m]) = "END_OF_EARLY_DATA" /\ conn[m].expected

(* s2n_handshake_write_io.                                                 *)
s2n_handshake_write_io(m) ==
    /\ Running(m)
    /\ IsWriter(conn[m])
    /\ ~BlockedOnEarlyData(m)
    /\ \E h \in {SendHandler(conn[m], plan)} :
       \E type \in {IF Message(h) \in Ccs THEN "ccs" ELSE "hs"} :
            IF h.closed # ""
            THEN conn' = [conn EXCEPT ![m] = h] /\ UNCHANGED wire
            ELSE /\ wire' = [wire EXCEPT ![m] = @ \o <<Record(h, type, Body(h), 0)>>]
                 /\ \E c \in {CountWrite(h, type)} : FinishMessage(m, c)
    /\ UNCHANGED <<plan, got, tosend, delivered>>

----------------------------------------------------------------------------
(* The handlers that receive a message.                                    *)

(* s2n_client_hello_recv: the parameters the server picks come from plan.  *)
s2n_client_hello_recv(c, p, b) ==
    LET e == IF b.early THEN s2n_client_early_data_indication_recv([c EXCEPT !.v = p.v])
             ELSE s2n_client_early_data_indication_is_missing([c EXCEPT !.v = p.v])
        h == IF p.hrr /\ ~c.hrr THEN s2n_set_hello_retry_required(e) ELSE e
    IN  IF e.closed # "" THEN e
        ELSE [h EXCEPT !.received = TRUE, !.suite = p.suite, !.share = b.share, !.ems = p.ems,
                       !.chosen = IF p.v = 13 THEN p.choose ELSE 0,
                       !.psk_hash = [i \in 1..Len(p.psks) |-> PrfAlg[p.psks[i].suite]]]

(* s2n_server_hello_recv, for a ServerHello and for a HelloRetryRequest.   *)
s2n_server_hello_parse(c, p, b) ==
    IF b.v = 12 /\ c.eds = "REQUESTED" THEN Fail(c, "early data and TLS1.2")
    ELSE LET h == [c EXCEPT !.v = b.v, !.suite = b.suite, !.chosen = b.psk, !.ems = p.ems]
         IN  IF b.m = "HELLO_RETRY_MSG" THEN s2n_set_hello_retry_required(h) ELSE h

(* The end of s2n_establish_session and of s2n_server_hello_recv, once     *)
(* early data is accepted or rejected.                                     *)
ConcludeHello(c, p, b) ==
    LET k == IF c.mode = "client" /\ c.eds = "REJECTED" THEN s2n_tls13_key_schedule_reset(c) ELSE c
        t == s2n_conn_set_handshake_type(k, p)
    IN  CASE b.m = "HELLO_RETRY_MSG" -> s2n_server_hello_retry_recreate_transcript(t)
          [] c.mode = "client" /\ c.v = 12 /\ p.resumed -> s2n_prf_key_expansion(t)
          [] OTHER -> t

s2n_encrypted_extensions_recv(c, p, b) ==
    IF b.early THEN s2n_server_early_data_indication_recv(c, p)
    ELSE s2n_server_early_data_indication_is_missing(c)

s2n_finished_recv(c, b) ==
    LET f == IF c.v = 12 /\ c.mode = "server"
             THEN [c EXCEPT !.client_finished = s2n_prf_finished(c, "client finished")] ELSE c
    IN  IF Verify(f, b.m) = b.verify THEN f ELSE Fail(f, "finished")

RecvHandler(c, p, b) ==
    CASE b.m = "CLIENT_HELLO" -> IF c.received THEN c ELSE s2n_client_hello_recv(c, p, b)
      [] b.m \in {"SERVER_HELLO", "HELLO_RETRY_MSG"} -> s2n_server_hello_parse(c, p, b)
      [] b.m = "ENCRYPTED_EXTENSIONS" -> s2n_encrypted_extensions_recv(c, p, b)
      [] b.m = "CLIENT_KEY" -> s2n_calculate_keys(c)
      [] b.m = "END_OF_EARLY_DATA" -> s2n_connection_set_early_data_state(c, "END")
      [] b.m \in {"SERVER_FINISHED", "CLIENT_FINISHED"} -> s2n_finished_recv(c, b)
      [] OTHER -> c

(* EXPECTED_MESSAGE_TYPE: a client takes a retry where it expects a hello. *)
Expected(c, b) ==
    \/ b.m = Message(c)
    \/ b.m = "HELLO_RETRY_MSG" /\ Message(c) = "SERVER_HELLO" /\ ~c.neg

(* s2n_record_parse: the keys are the ones it was written with; a          *)
(* ChangeCipherSpec of TLS1.3 is never encrypted.                          *)
Decrypts(c, r) ==
    \/ r.type = "ccs" /\ c.v = 13
    \/ r.key = c.rk /\ (r.key # Zero => r.seq = c.rseq)
OuterType(r) == IF r.key = Zero THEN r.type ELSE "app"
CountRead(c, r) == IF r.key = Zero THEN c ELSE [c EXCEPT !.rseq = @ + 1]

(* A record to read in s2n_handshake_read_io.                              *)
ToRead(m) == Running(m) /\ Reading(m) /\ conn[m].plain = 0 /\ Arrived(m)

(* A record that cannot be decrypted: rejected early data is skipped, and  *)
(* counted while it is early data I/O; any other ends the connection.      *)
ReadUndecryptable(m) ==
    /\ ToRead(m)
    /\ ~Decrypts(conn[m], Incoming(m))
    /\ conn' = [conn EXCEPT ![m] =
                  IF s2n_early_data_is_trial_decryption_allowed(@, OuterType(Incoming(m)))
                  THEN s2n_early_data_record_bytes(@, plan, Incoming(m).n + Overhead)
                  ELSE Fail(@, "decrypt")]
    /\ got' = [got EXCEPT ![m] = @ + 1]
    /\ UNCHANGED <<plan, wire, tosend, delivered>>

(* A ChangeCipherSpec: ignored at any time in TLS1.3, where none is ever   *)
(* expected, and in its place in TLS1.2.                                   *)
ReadCcs(m) ==
    /\ ToRead(m)
    /\ Decrypts(conn[m], Incoming(m)) /\ Incoming(m).type = "ccs"
    /\ \E c \in {conn[m]} :
        conn' = [conn EXCEPT ![m] =
            IF c.v = 12 /\ Message(c) \notin Ccs THEN Fail(c, "unexpected ccs")
            ELSE IF c.v = 12 THEN s2n_advance_message(s2n_ccs_recv(CountRead(c, Incoming(m))))
            ELSE c]
    /\ got' = [got EXCEPT ![m] = @ + 1]
    /\ UNCHANGED <<plan, wire, tosend, delivered>>

(* s2n_handshake_app_data_recv: early data when it is expected.            *)
ReadEarlyData(m) ==
    /\ ToRead(m)
    /\ Decrypts(conn[m], Incoming(m)) /\ Incoming(m).type = "app"
    /\ conn' = [conn EXCEPT ![m] =
                  IF @.expected /\ s2n_early_data_validate_recv(@)
                  THEN [CountRead(@, Incoming(m)) EXCEPT !.plain = Incoming(m).n]
                  ELSE Fail(@, "bad message")]
    /\ got' = [got EXCEPT ![m] = @ + 1]
    /\ UNCHANGED <<plan, wire, tosend, delivered>>

(* A handshake message.  A hello that waits for the application stays      *)
(* where it is and s2n_establish_session is run again later                *)
(* (s2n_handle_retry_state).                                               *)
Hellos == {"CLIENT_HELLO", "SERVER_HELLO", "HELLO_RETRY_MSG"}
ReadMessage(m) ==
    /\ ToRead(m)
    /\ Decrypts(conn[m], Incoming(m)) /\ Incoming(m).type = "hs"
    /\ \E b \in {Incoming(m).body} :
       \E h \in {IF Expected(conn[m], b) THEN RecvHandler(conn[m], plan, b)
                 ELSE Fail(conn[m], "unexpected message")} :
       \E a \in {IF h.closed # "" \/ b.m \notin Hellos THEN h
                 ELSE s2n_early_data_accept_or_reject([h EXCEPT !.paused = FALSE], plan)} :
       \E c \in {IF a.closed # "" \/ a.paused \/ b.m \notin Hellos THEN a
                 ELSE ConcludeHello(a, plan, b)} :
        IF c.closed # "" \/ c.paused
        THEN conn' = [conn EXCEPT ![m] = c] /\ UNCHANGED got
        ELSE /\ \E r \in {CountRead(c, Incoming(m))} : FinishMessage(m, r)
             /\ got' = [got EXCEPT ![m] = @ + 1]
    /\ UNCHANGED <<plan, wire, tosend, delivered>>

(* The peer is gone and everything it sent was read.                       *)
ReadEof(m) ==
    /\ Running(m) /\ BlockedOnRead(m)
    /\ conn[Peer(m)].closed # ""
    /\ conn' = [conn EXCEPT ![m] = Fail(@, "eof")]
    /\ UNCHANGED <<plan, wire, got, tosend, delivered>>

----------------------------------------------------------------------------
(* The applications.                                                       *)

(* A client calls s2n_send_early_data first, and again whenever            *)
(* s2n_negotiate or the call before has returned blocked; it may stop.     *)
s2n_send_early_data(n) ==
    /\ Open("client") /\ ~conn["client"].expected
    /\ n <= tosend
    /\ wire["client"] = <<>> \/ BlockedOnRead("client")
    /\ s2n_early_data_can_continue(conn["client"], plan)
    /\ conn' = [conn EXCEPT !["client"].expected = TRUE, !["client"].room = n]
    /\ UNCHANGED <<plan, wire, got, tosend, delivered>>

(* The rest of it, once s2n_negotiate is blocked or has succeeded.         *)
s2n_send_early_data_impl ==
    /\ conn["client"].closed = "" /\ conn["client"].expected
    /\ \/ BlockedOnRead("client")
       \/ BlockedOnEarlyData("client")
       \/ s2n_handshake_is_complete(conn["client"])
    /\ \E c \in {conn["client"]} :
       \E n \in {LesserOf(c.room, s2n_connection_get_remaining_early_data_size(c, plan))} :
        IF n = 0
        THEN conn' = [conn EXCEPT !["client"].expected = FALSE] /\ UNCHANGED <<wire, tosend>>
        ELSE IF ~s2n_early_data_validate_send(c, plan, n)
        THEN conn' = [conn EXCEPT !["client"] = Fail(c, "early data not allowed")]
             /\ UNCHANGED <<wire, tosend>>
        ELSE /\ wire' = [wire EXCEPT !["client"] = @ \o <<Record(c, "app", NoBody, n)>>]
             /\ conn' = [conn EXCEPT !["client"] =
                    [s2n_early_data_record_bytes(CountWrite(c, "app"), plan, n)
                        EXCEPT !.expected = FALSE]]
             /\ tosend' = tosend - n
    /\ UNCHANGED <<plan, got, delivered>>

(* s2n_recv_early_data with a buffer of plan.buf; at once a success when   *)
(* no early data can come.                                                 *)
s2n_recv_early_data ==
    /\ Open("server") /\ plan.recv
    /\ ~conn["server"].done /\ ~conn["server"].expected
    /\ ~(conn["server"].paused /\ conn["server"].eds = "REQUESTED")
    /\ conn' = [conn EXCEPT !["server"] =
                  IF s2n_early_data_can_continue(@, plan)
                  THEN [@ EXCEPT !.expected = TRUE, !.room = plan.buf]
                  ELSE [@ EXCEPT !.done = TRUE]]
    /\ UNCHANGED <<plan, wire, got, tosend, delivered>>

(* The s2n_recv in its loop: what the application is told of only when the *)
(* count stays within the limit.                                           *)
RecvEarlyData ==
    /\ Open("server") /\ conn["server"].expected
    /\ conn["server"].plain > 0 /\ conn["server"].room > 0
    /\ \E c \in {conn["server"]} : \E n \in {LesserOf(c.room, c.plain)} :
       \E h \in {s2n_early_data_record_bytes([c EXCEPT !.plain = @ - n, !.room = @ - n], plan, n)} :
        /\ conn' = [conn EXCEPT !["server"] = h]
        /\ delivered' = IF h.closed = "" THEN delivered + n ELSE delivered
    /\ UNCHANGED <<plan, wire, got, tosend>>

(* s2n_recv_early_data returns: blocked, or with success.                  *)
RecvEarlyDataReturns ==
    /\ conn["server"].closed = "" /\ conn["server"].expected
    /\ \/ BlockedOnRead("server")
       \/ s2n_handshake_is_complete(conn["server"])
       \/ conn["server"].plain > 0 /\ conn["server"].room = 0
       \/ conn["server"].paused /\ conn["server"].eds = "REQUESTED"
    /\ conn' = [conn EXCEPT
            !["server"].expected = FALSE,
            !["server"].done = \/ s2n_handshake_is_complete(conn["server"])
                               \/ /\ BlockedOnRead("server")
                                  /\ ~s2n_early_data_can_continue(conn["server"], plan)]
    /\ UNCHANGED <<plan, wire, got, tosend, delivered>>

(* Early data the application left behind, met by s2n_negotiate.           *)
LeftEarlyData ==
    /\ Running("server") /\ ~conn["server"].expected /\ conn["server"].plain > 0
    /\ conn' = [conn EXCEPT !["server"] = Fail(@, "bad message")]
    /\ UNCHANGED <<plan, wire, got, tosend, delivered>>

(* s2n_offered_early_data_accept, s2n_offered_early_data_reject.           *)
s2n_offered_early_data(decision) ==
    /\ conn["server"].closed = "" /\ conn["server"].async /\ conn["server"].eds = "REQUESTED"
    /\ conn' = [conn EXCEPT !["server"] = s2n_connection_set_early_data_state(@, decision)]
    /\ UNCHANGED <<plan, wire, got, tosend, delivered>>

(* One application record each way, when the handshake is over.            *)
SendAppData(m) ==
    /\ conn[m].closed = "" /\ s2n_handshake_is_complete(conn[m]) /\ ~conn[m].expected
    /\ ~\E i \in 1..Len(wire[m]) : wire[m][i].type = "app" /\ wire[m][i].n = 0
    /\ wire' = [wire EXCEPT ![m] = @ \o <<Record(conn[m], "app", NoBody, 0)>>]
    /\ conn' = [conn EXCEPT ![m] = CountWrite(@, "app")]
    /\ UNCHANGED <<plan, got, tosend, delivered>>

RecvAppData(m) ==
    /\ conn[m].closed = "" /\ s2n_handshake_is_complete(conn[m]) /\ Arrived(m)
    /\ conn' = [conn EXCEPT ![m] =
                  IF Decrypts(@, Incoming(m)) THEN CountRead(@, Incoming(m))
                  ELSE Fail(@, "decrypt")]
    /\ got' = [got EXCEPT ![m] = @ + 1]
    /\ UNCHANGED <<plan, wire, tosend, delivered>>

----------------------------------------------------------------------------
Read(m) ==
    ReadUndecryptable(m) \/ ReadCcs(m) \/ ReadEarlyData(m) \/ ReadMessage(m)
    \/ ReadEof(m)

Next ==
    \/ \E m \in Modes : s2n_handshake_write_io(m) \/ Read(m) \/ SendAppData(m) \/ RecvAppData(m)
    \/ \E n \in 1..2 : s2n_send_early_data(n)
    \/ s2n_send_early_data_impl
    \/ s2n_recv_early_data \/ RecvEarlyData \/ RecvEarlyDataReturns \/ LeftEarlyData
    \/ \E d \in {"ACCEPTED", "REJECTED"} : s2n_offered_early_data(d)

Spec == Init /\ [][Next]_vars

(* The applications keep calling (the usage guide tells a server to call   *)
(* s2n_recv_early_data until it succeeds) and answer the callback.  That a *)
(* client sends early data at all is its own choice.                       *)
FairSpec ==
    /\ Spec
    /\ \A m \in Modes : WF_vars(s2n_handshake_write_io(m)) /\ WF_vars(Read(m))
    /\ WF_vars(s2n_send_early_data_impl)
    /\ WF_vars(s2n_recv_early_data) /\ WF_vars(RecvEarlyData) /\ WF_vars(RecvEarlyDataReturns)
    /\ WF_vars(LeftEarlyData)
    /\ WF_vars(\E d \in {"ACCEPTED", "REJECTED"} : s2n_offered_early_data(d))
----------------------------------------------------------------------------
(* Properties.                                                             *)

Complete(m) == conn[m].closed = "" /\ s2n_handshake_is_complete(conn[m])
BothComplete == \A m \in Modes : Complete(m)

(* The early data that the client has put on the wire.                     *)
EarlyBytes ==
    FoldLeft(LAMBDA n, r : IF r.type = "app" THEN n + r.n ELSE n, 0, wire["client"])

(* A client's early data reaches a server that picks TLS1.2, or one whose  *)
(* limit is now below the one in the ticket.                               *)
EarlyDataToTLS12 == plan.v = 12 /\ conn["client"].eds = "REQUESTED"
LimitLowered ==
    plan.type = "resumption" /\ Len(plan.psks) > 0 /\ plan.server_max < plan.psks[1].max

(* No two records of a direction are encrypted with the same key and the   *)
(* same sequence number: keys that are installed again start no sequence   *)
(* a second time (s2n_tls13_key_schedule_set_key, s2n_crypto_parameters_switch).*)
NonceOnce ==
    \A m \in Modes : \A i, j \in 1..Len(wire[m]) :
        i < j /\ wire[m][i].key # Zero /\ wire[m][i].key = wire[m][j].key
            => wire[m][i].seq # wire[m][j].seq

(* Neither end lets more early data through than its limit: the client the *)
(* PSK's, the server the lower of the ticket's and its configuration's, in *)
(* however many records and calls (s2n_early_data_record_bytes).           *)
LimitKept ==
    /\ EarlyBytes > 0 => EarlyBytes <= plan.psks[1].max
    /\ delivered > 0 => delivered <= s2n_connection_get_max_early_data_size(conn["server"], plan)

(* Early data is all delivered or all discarded, and both applications     *)
(* learn which: with early_data_expected, the asynchronous decision and    *)
(* the retry all having had their say (s2n_early_data.c).  At no time has  *)
(* more of it passed than allowed.                                         *)
EarlyDataAllOrNothing ==
    /\ LimitKept
    /\ BothComplete =>
        /\ conn["client"].eds = conn["server"].eds
        /\ conn["client"].eds \in {"NOT_REQUESTED", "REJECTED", "END"}
        /\ delivered = IF conn["client"].eds = "END" THEN EarlyBytes ELSE 0

(* What the key log of an endpoint holds is enough to decrypt every record *)
(* it has written or decrypted itself (s2n_call_secret_callbacks,          *)
(* s2n_key_log_tls12_secret).  A resumed TLS1.2 session logs nothing, the  *)
(* server does not log the secret of early data it has rejected.           *)
LogComplete ==
    ~(plan.v = 12 /\ plan.resumed) =>
        \A m, d \in Modes : \A i \in 1..Len(wire[d]) :
            \/ wire[d][i].key = Zero
            \/ KeyLabel(wire[d][i].key) \in ToSet(conn[m].log)
            \/ m = "server" /\ conn[m].eds = "REJECTED" /\ wire[d][i].n > 0

(* When both ends are done they have the same application, exporter and    *)
(* resumption secrets, or the same TLS1.2 master secret, and secrets that  *)
(* are bound to the whole handshake (s2n_tls13_secrets.c, s2n_prf.c); and  *)
(* each has logged the ones its records were encrypted with.               *)
SecretsAgree ==
    BothComplete =>
        LET c == conn["client"]  s == conn["server"] IN
        /\ c.sec = s.sec /\ c.master = s.master
        /\ IF plan.v = 13 THEN \A n \in {"client_app", "server_app", "exporter", "resumption"} :
                                    c.sec[n] # Zero
           ELSE c.master # Zero
        /\ LogComplete

(* The records of early data on the wire, as long as they are encrypted.   *)
EarlyRecordBytes ==
    FoldLeft(LAMBDA n, r : IF r.type = "app" /\ r.n > 0 THEN n + r.n + Overhead ELSE n, 0, wire["client"])

(* Rejected early data longer, as records, than the server's limit, which  *)
(* is 0 if it has no key in common with the client: s2n_recv_early_data    *)
(* counts what it skips and fails.  The API speaks of rejected early data  *)
(* as a status of a connection, not as the end of it (README).             *)
SkippedBeyondLimit ==
    /\ plan.recv
    /\ conn["server"].eds = "REJECTED"
    /\ EarlyRecordBytes > s2n_connection_get_max_early_data_size(conn["server"], plan)

(* The reasons for which an end may fail: the callback failed, early data  *)
(* met TLS1.2 or a lowered limit, a server in s2n_recv_early_data skipped  *)
(* more of it than the limit, or the peer failed.                          *)
FailureExplained(m) ==
    CASE conn[m].closed = "cancelled" -> plan.cb = "fail"
      [] conn[m].closed = "eof" -> conn[Peer(m)].closed # ""
      [] conn[m].closed = "bad message" -> LimitLowered
      [] conn[m].closed = "max early data" -> LimitLowered \/ SkippedBeyondLimit
      [] OTHER -> EarlyDataToTLS12

(* Every handshake ends: neither end waits for early data, for an answer   *)
(* or for the other forever (s2n_negotiate, s2n_send_early_data,           *)
(* s2n_recv_early_data).  It fails only for a reason: the two ends change  *)
(* the keys of a direction at the same record, so that between honest      *)
(* peers no record fails to decrypt, no Finished to verify and no secret   *)
(* is asked for before it exists, whatever early data is in flight when it *)
(* is accepted, rejected, or a retry is asked for.  Early data that was    *)
(* rejected is skipped, and the handshake completes, unless the server     *)
(* reads early data and there is more of it than its limit                 *)
(* (s2n_tls13_key_schedule.c, s2n_tls13_secrets.c, s2n_server_hello.c).    *)
KeysInStep ==
    <>[](\A m \in Modes : Complete(m) \/ (conn[m].closed # "" /\ FailureExplained(m)))
=============================================================================
