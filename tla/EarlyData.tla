----------------------------- MODULE EarlyData -----------------------------
(***************************************************************************)
(* Early data: its state on a connection, when a server accepts it, and    *)
(* how much of it a connection allows.                                     *)
(*                                                                         *)
(* Code: tls/s2n_early_data.c, s2n_early_data_io.c and the early data      *)
(* indications of the hello, the encrypted extensions and the ticket.      *)
(*                                                                         *)
(* p is how the peers are configured (the field psks the client's keys,    *)
(* see SecureHandshake), c a connection.                                   *)
(***************************************************************************)
EXTENDS KeySchedule

States == {"UNKNOWN", "REQUESTED", "NOT_REQUESTED", "REJECTED", "ACCEPTED", "END"}

valid_previous_states ==
    [REQUESTED |-> "UNKNOWN", NOT_REQUESTED |-> "UNKNOWN", REJECTED |-> "REQUESTED",
     ACCEPTED |-> "REQUESTED", END |-> "ACCEPTED"]

s2n_connection_set_early_data_state(c, next) ==
    IF c.eds = next THEN c
    ELSE IF valid_previous_states[next] # c.eds THEN Fail(c, "early data state")
    ELSE [c EXCEPT !.eds = next]

----------------------------------------------------------------------------
(* How much early data.                                                    *)

(* The first key of psk_list: a server that resumes has only the ticket    *)
(* it chose, 0 when the list is empty.                                     *)
FirstPsk(c, p) ==
    IF Len(p.psks) = 0 THEN 0
    ELSE IF c.mode = "server" /\ p.type = "resumption" THEN c.chosen ELSE 1

LesserOf(a, b) == IF a < b THEN a ELSE b

s2n_connection_get_max_early_data_size(c, p) ==
    IF FirstPsk(c, p) = 0
    THEN IF c.mode = "server" /\ ~c.neg THEN p.server_max ELSE 0
    ELSE IF c.mode = "server" /\ p.type = "resumption"
         THEN LesserOf(p.psks[FirstPsk(c, p)].max, p.server_max)
         ELSE p.psks[FirstPsk(c, p)].max

(* s2n_connection_get_remaining_early_data_size; an error when the maximum *)
(* is exceeded already, which no caller tells from 0.                      *)
s2n_connection_get_remaining_early_data_size(c, p) ==
    IF c.eds \in {"NOT_REQUESTED", "REJECTED", "END"} THEN 0
    ELSE IF s2n_connection_get_max_early_data_size(c, p) < c.bytes THEN 0
    ELSE s2n_connection_get_max_early_data_size(c, p) - c.bytes

s2n_early_data_can_continue(c, p) == s2n_connection_get_remaining_early_data_size(c, p) > 0

(* Is this a moment at which application data is early data?               *)
s2n_is_early_data_io(c) ==
    /\ ~s2n_handshake_is_complete(c)
    /\ \/ c.expected
       \/ c.mode = "client" /\ c.eds = "REQUESTED"
       \/ c.eds \in {"ACCEPTED", "END"}

(* s2n_early_data_record_bytes: counted whether sent, received or skipped. *)
s2n_early_data_record_bytes(c, p, len) ==
    IF ~s2n_is_early_data_io(c) THEN c
    ELSE IF c.bytes + len > s2n_connection_get_max_early_data_size(c, p)
         THEN Fail([c EXCEPT !.bytes = @ + len], "max early data")
         ELSE [c EXCEPT !.bytes = @ + len]

s2n_early_data_validate_send(c, p, len) ==
    s2n_is_early_data_io(c) =>
        /\ c.expected
        /\ c.mode = "client"
        /\ c.eds \in {"REQUESTED", "ACCEPTED"}
        /\ len <= s2n_connection_get_remaining_early_data_size(c, p)

s2n_early_data_validate_recv(c) ==
    s2n_is_early_data_io(c) =>
        /\ c.expected
        /\ c.mode = "server"
        /\ c.eds = "ACCEPTED"
        /\ s2n_conn_get_current_message_type(c) = "END_OF_EARLY_DATA"

(* s2n_early_data_is_trial_decryption_allowed: a record that cannot be     *)
(* decrypted may be early data that was rejected.                          *)
s2n_early_data_is_trial_decryption_allowed(c, record_type) ==
    /\ c.eds = "REJECTED"
    /\ record_type = "app"
    /\ c.mode = "server"
    /\ ~s2n_handshake_is_complete(c)

----------------------------------------------------------------------------
(* Offering, accepting and rejecting.                                      *)

(* s2n_early_data_validate: the first key was chosen, and the version, the *)
(* suite and the protocol are the ones it is for.  The key's protocol must *)
(* be one byte longer than the protocol's name: it ends with a NUL.        *)
s2n_early_data_is_valid_for_connection(c, p) ==
    /\ c.chosen = 1
    /\ p.psks[1].max > 0
    /\ c.v = 13
    /\ p.psks[1].suite = c.suite
    /\ p.alpn # "" \/ p.psks[1].alpn # "" => p.psks[1].nul /\ p.psks[1].alpn = p.alpn

(* s2n_early_data_accept_or_reject.  The callback may decide, fail, or say *)
(* nothing: the handshake then waits for the application.                  *)
s2n_early_data_accept_or_reject(c, p) ==
    CASE c.eds # "REQUESTED" -> c
      [] c.eds = "REQUESTED" /\ c.async -> [c EXCEPT !.paused = TRUE]
      [] c.eds = "REQUESTED" /\ ~c.async /\ ~s2n_early_data_is_valid_for_connection(c, p) ->
            s2n_connection_set_early_data_state(c, "REJECTED")
      [] OTHER ->
            CASE c.mode = "client" -> c
              [] c.mode = "server" /\ ~c.expected ->
                    s2n_connection_set_early_data_state(c, "REJECTED")
              [] c.mode = "server" /\ c.expected /\ p.cb = "none" ->
                    s2n_connection_set_early_data_state(c, "ACCEPTED")
              [] OTHER ->
                    CASE p.cb = "fail" -> Fail([c EXCEPT !.async = TRUE], "cancelled")
                      [] p.cb = "later" -> [c EXCEPT !.async = TRUE, !.paused = TRUE]
                      [] OTHER -> s2n_connection_set_early_data_state(
                                      [c EXCEPT !.async = TRUE], p.cb)

(* s2n_early_data_config_is_possible and the rest of should_send.  The     *)
(* key's protocol is looked up among the client's without the NUL.         *)
s2n_client_early_data_indication_should_send(c, p) ==
    /\ Len(p.psks) > 0
    /\ p.psks[1].max > 0
    /\ p.psks[1].alpn # "" => ~p.psks[1].nul
    /\ c.expected
    /\ ~c.hrr

(* s2n_client_early_data_indication_send: the suite is the key's until the *)
(* server has chosen one.                                                  *)
s2n_client_early_data_indication_send(c, p) ==
    [s2n_connection_set_early_data_state(c, "REQUESTED") EXCEPT
        !.eccs = TRUE, !.suite = p.psks[1].suite]

s2n_client_early_data_indication_recv(c) ==
    IF c.msg # 1 THEN Fail(c, "early data in a second hello")
    ELSE [s2n_connection_set_early_data_state(c, "REQUESTED") EXCEPT !.eccs = (c.v = 13)]

s2n_client_early_data_indication_is_missing(c) ==
    IF c.eds = "REJECTED" THEN c ELSE s2n_connection_set_early_data_state(c, "NOT_REQUESTED")

s2n_server_early_data_indication_recv(c, p) ==
    IF ~s2n_early_data_is_valid_for_connection(c, p) THEN Fail(c, "early data not allowed")
    ELSE [s2n_connection_set_early_data_state(c, "ACCEPTED") EXCEPT !.ed = TRUE]

(* Mutant: a client does not notice that the server did not accept.        *)
MutServerIndicationIsMissing(c) == c

s2n_server_early_data_indication_is_missing(c) ==
    IF c.eds = "REQUESTED" THEN s2n_connection_set_early_data_state(c, "REJECTED") ELSE c
=============================================================================
