------------------------------- MODULE Duplex -------------------------------
(***************************************************************************)
(* Two TLS 1.3 connections after the handshake, joined by a transport.     *)
(* Each connection is used by two threads, as api/s2n.h allows: a writer   *)
(* (s2n_send, s2n_shutdown_send) and a reader (s2n_recv); s2n_shutdown     *)
(* does both jobs and runs while the reader thread is idle.                *)
(*                                                                         *)
(* Everything a connection has encrypted is kept in log; log[p] up to      *)
(* flushed[p] has been handed to the transport, the rest is conn->out.     *)
(* The peer has read the first rd[peer] of those records.  A record        *)
(* carries what decryption depends on: the generation of the traffic       *)
(* secret and the sequence number it was encrypted with.                   *)
(*                                                                         *)
(* Left to other modules: partial reads and writes of a record, several    *)
(* records per s2n_send.  reader_warning_out, reader_alert_out and         *)
(* writer_alert_out are never set in TLS 1.3 after the handshake           *)
(* (HelloRequest is refused), so s2n_flush only moves bytes and the only   *)
(* alert s2n-tls writes here is close_notify.                              *)
(* A write may block at any point; that it fails for good (S2N_ERR_IO,     *)
(* after which write_fd_broken makes every later one fail) is left out:    *)
(* conn->out then stays as it is, and for the peer it is the transport     *)
(* that ends (Unreliable).                                                 *)
(***************************************************************************)
EXTENDS Integers, Sequences, FiniteSets

CONSTANTS
  EncryptionLimit,  \* record_alg->encryption_limit
  MaxMessages,      \* bound: calls of s2n_send that succeed, per connection
  MaxTickets,       \* bound: tickets_to_send of the server
  MaxRequests,      \* bound: s2n_connection_request_key_update, per connection
  HalfShutdown,     \* connections whose application may call s2n_shutdown_send
  FullShutdown,     \* connections whose application may call s2n_shutdown
  Requesters,       \* peers that may ask for a KeyUpdate in return
  Aborters,         \* peers that may send an error alert
  Unreliable,       \* peers whose transport may be closed at any time
  Corruptible       \* peers whose incoming records may be altered on the way

Peers == {"client", "server"}
Other(p) == IF p = "client" THEN "server" ELSE "client"

ASSUME DuplexAssumption ==
  /\ EncryptionLimit \in Nat \ {0}
  /\ MaxMessages \in [Peers -> Nat] /\ MaxRequests \in [Peers -> Nat] /\ MaxTickets \in Nat
  /\ HalfShutdown \subseteq Peers /\ FullShutdown \subseteq Peers /\ Requesters \subseteq Peers
  /\ Aborters \subseteq Peers /\ Unreliable \subseteq Peers /\ Corruptible \subseteq Peers

VARIABLES
  log,                    \* records encrypted so far
  flushed,                \* how many of them the transport has
  rd,                     \* how many of the peer's records have been read
  send_key, send_seq,     \* generation of the sending secret, next sequence number
  recv_key, recv_seq,     \* the same for receiving
  key_update_pending,     \* atomic flag shared by both threads
  tickets,                \* tickets_to_send - tickets_sent
  consumed,               \* is current_user_data_consumed > 0?
  messages,               \* s2n_send calls that returned success
  requests,               \* key updates the application asked for
  read_closed, write_closed, close_notify_received, error_alert_received,
  alert_sent,
  delay,                  \* blinding: "none", "running" or "elapsed"
  hup,                    \* has this side closed the transport?
  wpc, rpc,               \* where the writer and the reader thread are
  in_shutdown,            \* is the writer in s2n_shutdown?
  result,                 \* what s2n_shutdown last returned
  eof,                    \* has s2n_recv returned 0?
  discarded,              \* has s2n_shutdown dropped application data?
  request                 \* history: the last update_requested that was handled

keys     == <<send_key, send_seq, recv_key, recv_seq>>
wire     == <<log, flushed, rd, hup>>
closes   == <<read_closed, write_closed, close_notify_received, error_alert_received>>
sender   == <<tickets, consumed, messages, requests, alert_sent>>
threads  == <<wpc, rpc, in_shutdown>>
outcomes == <<result, eof, discarded, request>>
vars     == <<keys, wire, closes, sender, threads, outcomes, key_update_pending, delay>>

Bit     == {0, 1}
Types   == {"app", "key_update", "update_requested", "ticket", "close_notify", "error_alert"}
Record  == [type : Types, key : Nat, seq : Nat]
Updates == {"key_update", "update_requested"}

\* Program counters, named for the call the thread is about to make.
WriterPC == {"idle", "send_flush", "check_limit", "test_pending", "write_update",
             "clear_pending", "update_flush", "nst_send", "nst_flush",
             "write_data", "data_flush",
             "shutdown_flush", "write_alert", "alert_flush", "expect", "drain"}
ReaderPC == {"idle", "blind", "flag_alert"}
\* Where the writer is about to call s2n_record_write, or may come to it
\* without another s2n_flush.
Writing  == {"check_limit", "test_pending", "write_update", "nst_send",
             "write_data", "write_alert"}
Flushing == {"send_flush", "update_flush", "nst_flush", "data_flush",
             "shutdown_flush", "alert_flush"}
-----------------------------------------------------------------------------
Init ==
  /\ log = [p \in Peers |-> <<>>]
  /\ flushed = [p \in Peers |-> 0]
  /\ rd = [p \in Peers |-> 0]
  /\ send_key = [p \in Peers |-> 0] /\ recv_key = [p \in Peers |-> 0]
  /\ send_seq = [p \in Peers |-> 0] /\ recv_seq = [p \in Peers |-> 0]
  /\ key_update_pending = [p \in Peers |-> 0]
  /\ tickets \in {[client |-> 0, server |-> n] : n \in 0..MaxTickets}
  /\ consumed = [p \in Peers |-> 0]
  /\ messages = [p \in Peers |-> 0]
  /\ requests = [p \in Peers |-> 0]
  /\ read_closed = [p \in Peers |-> 0] /\ write_closed = [p \in Peers |-> 0]
  /\ close_notify_received = [p \in Peers |-> 0]
  /\ error_alert_received = [p \in Peers |-> 0]
  /\ alert_sent = [p \in Peers |-> 0]
  /\ delay = [p \in Peers |-> "none"]
  /\ hup = [p \in Peers |-> 0]
  /\ wpc = [p \in Peers |-> "idle"] /\ rpc = [p \in Peers |-> "idle"]
  /\ in_shutdown = [p \in Peers |-> 0]
  /\ result = [p \in Peers |-> "none"]
  /\ eof = [p \in Peers |-> 0]
  /\ discarded = [p \in Peers |-> 0]
  /\ request = [p \in Peers |-> [flushed |-> 0, written |-> -1]]

\* s2n_connection_check_io_status, TLS 1.3.
Writable(p) == write_closed[p] = 0
Readable(p) == read_closed[p] = 0

At(p, here) == wpc[p] = here
Goto(p, there) == wpc' = [wpc EXCEPT ![p] = there]

\* s2n_record_write: encrypt under the current key, then count the record.
record_write(p, type) ==
  /\ log' = [log EXCEPT ![p] = Append(@, [type |-> type, key |-> send_key[p], seq |-> send_seq[p]])]
  /\ UNCHANGED <<flushed, rd, hup>>

\* Every record but a KeyUpdate is followed by one under the same key.
increment_sequence_number(p) ==
  /\ send_seq' = [send_seq EXCEPT ![p] = @ + 1]
  /\ UNCHANGED <<send_key, recv_key, recv_seq>>

\* Mutant of update_sending_keys: the sequence number is reset, the key kept.
update_sending_keys_reuses_key(p) ==
  /\ send_seq' = [send_seq EXCEPT ![p] = 0]
  /\ UNCHANGED <<send_key, recv_key, recv_seq>>

\* s2n_update_application_traffic_keys(conn, conn->mode, SENDING)
update_sending_keys(p) ==
  /\ send_key' = [send_key EXCEPT ![p] = @ + 1]
  /\ send_seq' = [send_seq EXCEPT ![p] = 0]
  /\ UNCHANGED <<recv_key, recv_seq>>
-----------------------------------------------------------------------------
(* s2n_send, one record per call                                           *)

\* Entry of s2n_sendv_with_offset_impl.  A call that finds the connection
\* closed returns S2N_ERR_CLOSED and changes nothing.
SendStart(p) ==
  /\ At(p, "idle") /\ hup[p] = 0
  /\ Writable(p)
  /\ messages[p] < MaxMessages[p]
  /\ Goto(p, "send_flush")
  /\ UNCHANGED <<keys, wire, closes, sender, rpc, in_shutdown, outcomes, key_update_pending, delay>>

\* s2n_flush succeeds: conn->out is empty.
AfterFlush(p) ==
  CASE At(p, "send_flush")     -> IF consumed[p] = 1 THEN "idle" ELSE "check_limit"
    [] At(p, "update_flush")   -> "nst_send"
    [] At(p, "nst_flush")      -> "nst_send"
    [] At(p, "data_flush")     -> "idle"
    [] At(p, "shutdown_flush") -> "write_alert"
    [] At(p, "alert_flush")    -> "expect"
    [] OTHER                   -> "idle"

\* A successful flush of s2n_send's own record acknowledges the message, and
\* so does the flush at the start of a retry that finds it consumed.
Acknowledges(p) == At(p, "data_flush") \/ (At(p, "send_flush") /\ consumed[p] = 1)

s2n_flush(p) ==
  /\ wpc[p] \in Flushing
  /\ flushed' = [flushed EXCEPT ![p] = Len(log[p])]
  /\ Goto(p, AfterFlush(p))
  /\ consumed' = [consumed EXCEPT ![p] = IF Acknowledges(p) THEN 0 ELSE @]
  /\ messages' = [messages EXCEPT ![p] = IF Acknowledges(p) THEN @ + 1 ELSE @]
  /\ UNCHANGED <<keys, log, rd, hup, closes, tickets, requests, alert_sent,
                 rpc, in_shutdown, outcomes, key_update_pending, delay>>

\* The transport takes nothing: the call returns S2N_ERR_IO_BLOCKED.
s2n_flush_blocked(p) ==
  /\ wpc[p] \in Flushing
  /\ flushed[p] < Len(log[p])
  /\ Goto(p, "idle")
  /\ in_shutdown' = [in_shutdown EXCEPT ![p] = 0]
  /\ UNCHANGED <<keys, wire, closes, sender, rpc, outcomes, key_update_pending, delay>>

\* Mutant of s2n_check_record_limit: one record too late.
check_record_limit_late(p) ==
  /\ At(p, "check_limit")
  /\ key_update_pending' = [key_update_pending EXCEPT ![p] = IF send_seq[p] > EncryptionLimit THEN 1 ELSE @]
  /\ Goto(p, "test_pending")
  /\ UNCHANGED <<keys, wire, closes, sender, rpc, in_shutdown, outcomes, delay>>

s2n_check_record_limit(p) ==
  /\ At(p, "check_limit")
  /\ key_update_pending' = [key_update_pending EXCEPT ![p] = IF send_seq[p] >= EncryptionLimit THEN 1 ELSE @]
  /\ Goto(p, "test_pending")
  /\ UNCHANGED <<keys, wire, closes, sender, rpc, in_shutdown, outcomes, delay>>

\* s2n_key_update_send reads the flag.  Its first s2n_flush finds conn->out
\* empty, since s2n_send has just flushed it.
TestKeyUpdatePending(p) ==
  /\ At(p, "test_pending")
  /\ Goto(p, IF key_update_pending[p] = 1 THEN "write_update" ELSE "nst_send")
  /\ UNCHANGED <<keys, wire, closes, sender, rpc, in_shutdown, outcomes, key_update_pending, delay>>

\* s2n_key_update_write: s2n-tls itself never asks the peer to update
\* (key_update_request_val), another implementation may.
KeyUpdateTypes(p) == {"key_update"} \cup (IF p \in Requesters THEN {"update_requested"} ELSE {})

\* Mutant of WriteKeyUpdate: the KeyUpdate is flushed before the flag is cleared.
write_key_update_flushes(p) ==
  /\ At(p, "write_update")
  /\ \E type \in KeyUpdateTypes(p) :
       log' = [log EXCEPT ![p] = Append(@, [type |-> type, key |-> send_key[p], seq |-> send_seq[p]])]
  /\ flushed' = [flushed EXCEPT ![p] = Len(log[p]) + 1]
  /\ update_sending_keys(p)
  /\ Goto(p, "clear_pending")
  /\ UNCHANGED <<rd, hup, closes, sender, rpc, in_shutdown, outcomes, key_update_pending, delay>>

\* The KeyUpdate is encrypted under the old key, then the key is replaced.
WriteKeyUpdate(p) ==
  /\ At(p, "write_update")
  /\ \E type \in KeyUpdateTypes(p) : record_write(p, type)
  /\ update_sending_keys(p)
  /\ Goto(p, "clear_pending")
  /\ UNCHANGED <<closes, sender, rpc, in_shutdown, outcomes, key_update_pending, delay>>

ClearKeyUpdatePending(p) ==
  /\ At(p, "clear_pending")
  /\ key_update_pending' = [key_update_pending EXCEPT ![p] = 0]
  /\ Goto(p, "update_flush")
  /\ UNCHANGED <<keys, wire, closes, sender, rpc, in_shutdown, outcomes, delay>>

\* tickets_to_send - tickets_sent > 0
TicketsLeft(p) == tickets[p] > 0

\* s2n_tls13_server_nst_send, one turn of its loop: write a ticket.
NstWrite(p) ==
  /\ At(p, "nst_send") /\ TicketsLeft(p)
  /\ record_write(p, "ticket") /\ increment_sequence_number(p)
  /\ tickets' = [tickets EXCEPT ![p] = @ - 1]
  /\ Goto(p, "nst_flush")
  /\ UNCHANGED <<closes, consumed, messages, requests, alert_sent, rpc, in_shutdown,
                 outcomes, key_update_pending, delay>>

\* None left, or no ticket key to encrypt one with.
NstDone(p) ==
  /\ At(p, "nst_send")
  /\ Goto(p, "write_data")
  /\ UNCHANGED <<keys, wire, closes, sender, rpc, in_shutdown, outcomes, key_update_pending, delay>>

\* The keying material has expired: give up the rest.
NstExpired(p) ==
  /\ At(p, "nst_send") /\ TicketsLeft(p)
  /\ tickets' = [tickets EXCEPT ![p] = 0]
  /\ Goto(p, "write_data")
  /\ UNCHANGED <<keys, wire, closes, consumed, messages, requests, alert_sent, rpc, in_shutdown,
                 outcomes, key_update_pending, delay>>

WriteData(p) ==
  /\ At(p, "write_data")
  /\ record_write(p, "app") /\ increment_sequence_number(p)
  /\ consumed' = [consumed EXCEPT ![p] = 1]
  /\ Goto(p, "data_flush")
  /\ UNCHANGED <<closes, tickets, messages, requests, alert_sent, rpc, in_shutdown,
                 outcomes, key_update_pending, delay>>

\* The sending thread asks for a key update between two sends.
s2n_connection_request_key_update(p) ==
  /\ At(p, "idle") /\ hup[p] = 0
  /\ requests[p] < MaxRequests[p]
  /\ requests' = [requests EXCEPT ![p] = @ + 1]
  /\ key_update_pending' = [key_update_pending EXCEPT ![p] = 1]
  /\ UNCHANGED <<keys, wire, closes, tickets, consumed, messages, alert_sent,
                 threads, outcomes, delay>>
-----------------------------------------------------------------------------
(* s2n_shutdown_send and s2n_shutdown                                      *)

ShutdownStart(p, full) ==
  /\ At(p, "idle") /\ hup[p] = 0
  /\ \/ full = 0 /\ p \in HalfShutdown
     \/ full = 1 /\ p \in FullShutdown /\ rpc[p] = "idle"
  /\ write_closed' = [write_closed EXCEPT ![p] = 1]
  /\ in_shutdown' = [in_shutdown EXCEPT ![p] = full]
  /\ Goto(p, "shutdown_flush")
  /\ UNCHANGED <<keys, wire, read_closed, close_notify_received, error_alert_received,
                 sender, rpc, outcomes, key_update_pending, delay>>

\* Nothing is sent to a peer that sent an error alert, and no second alert.
NoAlertNeeded(p) == error_alert_received[p] = 1 \/ alert_sent[p] = 1

\* Mutant of WriteAlert: alert_sent is not recorded.
write_alert_forgets(p) ==
  /\ At(p, "write_alert") /\ ~NoAlertNeeded(p) /\ delay[p] # "running"
  /\ record_write(p, "close_notify") /\ increment_sequence_number(p)
  /\ Goto(p, "alert_flush")
  /\ UNCHANGED <<closes, sender, rpc, in_shutdown, outcomes, key_update_pending, delay>>

\* s2n_alerts_write_error_or_close_notify
WriteAlert(p) ==
  /\ At(p, "write_alert") /\ ~NoAlertNeeded(p) /\ delay[p] # "running"
  /\ record_write(p, "close_notify") /\ increment_sequence_number(p)
  /\ alert_sent' = [alert_sent EXCEPT ![p] = 1]
  /\ Goto(p, "alert_flush")
  /\ UNCHANGED <<closes, tickets, consumed, messages, requests, rpc, in_shutdown, outcomes, key_update_pending, delay>>

\* s2n_shutdown_send finds nothing to send.
SkipAlert(p) ==
  /\ At(p, "write_alert") /\ NoAlertNeeded(p)
  /\ Goto(p, "expect")
  /\ UNCHANGED <<keys, wire, closes, sender, rpc, in_shutdown, outcomes, key_update_pending, delay>>

\* S2N_ERR_SHUTDOWN_PAUSED while the blinding delay runs.
ShutdownPaused(p) ==
  /\ At(p, "write_alert") /\ ~NoAlertNeeded(p) /\ delay[p] = "running"
  /\ Goto(p, "idle")
  /\ in_shutdown' = [in_shutdown EXCEPT ![p] = 0]
  /\ UNCHANGED <<keys, wire, closes, sender, rpc, outcomes, key_update_pending, delay>>

\* Mutant of s2n_shutdown_expect_close_notify: an error alert is forgotten.
expect_despite_alert(p) == delay[p] = "none"

s2n_shutdown_expect_close_notify(p) == error_alert_received[p] = 0 /\ delay[p] = "none"

\* s2n_shutdown_send returns to the application.
ShutdownSent(p) ==
  /\ At(p, "expect") /\ in_shutdown[p] = 0
  /\ Goto(p, "idle")
  /\ UNCHANGED <<keys, wire, closes, sender, rpc, in_shutdown, outcomes, key_update_pending, delay>>

\* It returns to s2n_shutdown, which reads on for a close_notify.
ShutdownExpects(p) ==
  /\ At(p, "expect") /\ in_shutdown[p] = 1 /\ s2n_shutdown_expect_close_notify(p)
  /\ Goto(p, "drain")
  /\ UNCHANGED <<keys, wire, closes, sender, rpc, in_shutdown, outcomes, key_update_pending, delay>>

\* s2n_connection_set_closed
set_closed(p) ==
  /\ read_closed' = [read_closed EXCEPT ![p] = 1]
  /\ write_closed' = [write_closed EXCEPT ![p] = 1]

\* s2n_shutdown returns r.
ShutdownReturns(p, r) ==
  /\ Goto(p, "idle")
  /\ in_shutdown' = [in_shutdown EXCEPT ![p] = 0]
  /\ result' = [result EXCEPT ![p] = r]

\* Or it expects none, and closes the connection.
ShutdownCloses(p) ==
  /\ At(p, "expect") /\ in_shutdown[p] = 1 /\ ~s2n_shutdown_expect_close_notify(p)
  /\ set_closed(p)
  /\ ShutdownReturns(p, "ok")
  /\ UNCHANGED <<keys, wire, close_notify_received, error_alert_received, sender, rpc,
                 eof, discarded, request, key_update_pending, delay>>
-----------------------------------------------------------------------------
(* Reading a record                                                        *)

HasRecord(p)  == rd[p] < flushed[Other(p)]
NextRecord(p) == log[Other(p)][rd[p] + 1]
Decrypts(p)   == NextRecord(p).key = recv_key[p] /\ NextRecord(p).seq = recv_seq[p]

\* s2n_read_full_record returns a decrypted record of one of these types.
read_full_record(p, types) ==
  /\ HasRecord(p) /\ Decrypts(p) /\ NextRecord(p).type \in types
  /\ rd' = [rd EXCEPT ![p] = @ + 1]
  /\ UNCHANGED <<log, flushed, hup>>

count_record(p) ==
  /\ recv_seq' = [recv_seq EXCEPT ![p] = @ + 1]
  /\ UNCHANGED <<send_key, send_seq, recv_key>>

\* s2n_update_application_traffic_keys(conn, peer's mode, RECEIVING)
update_receiving_keys(p) ==
  /\ recv_key' = [recv_key EXCEPT ![p] = @ + 1]
  /\ recv_seq' = [recv_seq EXCEPT ![p] = 0]
  /\ UNCHANGED <<send_key, send_seq>>

set_close_notify(p) ==
  /\ read_closed' = [read_closed EXCEPT ![p] = 1]
  /\ close_notify_received' = [close_notify_received EXCEPT ![p] = 1]

\* The reader is in s2n_recv and s2n_shutdown is not running.
Receiving(p) == rpc[p] = "idle" /\ in_shutdown[p] = 0 /\ hup[p] = 0 /\ Readable(p)

\* Application data and session tickets.
RecvData(p) ==
  /\ Receiving(p)
  /\ read_full_record(p, {"app", "ticket"}) /\ count_record(p)
  /\ UNCHANGED <<closes, sender, threads, outcomes, key_update_pending, delay>>

\* Mutant of s2n_key_update_recv: the receiving key is kept.
key_update_recv_keeps_key(p) ==
  /\ Receiving(p)
  /\ read_full_record(p, Updates) /\ count_record(p)
  /\ IF NextRecord(p).type = "update_requested"
       THEN /\ key_update_pending' = [key_update_pending EXCEPT ![p] = 1]
            /\ request' = [request EXCEPT ![p] = [flushed |-> flushed[p], written |-> Len(log[p])]]
       ELSE UNCHANGED <<key_update_pending, request>>
  /\ UNCHANGED <<closes, sender, threads, result, eof, discarded, delay>>

s2n_key_update_recv(p) ==
  /\ Receiving(p)
  /\ read_full_record(p, Updates)
  /\ update_receiving_keys(p)
  /\ IF NextRecord(p).type = "update_requested"
       THEN /\ key_update_pending' = [key_update_pending EXCEPT ![p] = 1]
            /\ request' = [request EXCEPT ![p] = [flushed |-> flushed[p], written |-> Len(log[p])]]
       ELSE UNCHANGED <<key_update_pending, request>>
  /\ UNCHANGED <<closes, sender, threads, result, eof, discarded, delay>>

\* s2n_process_alert_fragment: close_notify.
RecvCloseNotify(p) ==
  /\ Receiving(p)
  /\ read_full_record(p, {"close_notify"}) /\ count_record(p)
  /\ set_close_notify(p)
  /\ UNCHANGED <<write_closed, error_alert_received, sender, threads, outcomes, key_update_pending, delay>>

\* s2n_process_alert_fragment: any other alert closes the connection, and
\* then records why.  (user_canceled, a warning in TLS1.3, changes nothing and
\* is never sent by s2n-tls; RecordReader reads it.)
RecvErrorAlert(p) ==
  /\ Receiving(p)
  /\ read_full_record(p, {"error_alert"}) /\ count_record(p)
  /\ set_closed(p)
  /\ rpc' = [rpc EXCEPT ![p] = "flag_alert"]
  /\ UNCHANGED <<close_notify_received, error_alert_received, sender, wpc, in_shutdown,
                 outcomes, key_update_pending, delay>>

FlagErrorAlert(p) ==
  /\ rpc[p] = "flag_alert"
  /\ error_alert_received' = [error_alert_received EXCEPT ![p] = 1]
  /\ rpc' = [rpc EXCEPT ![p] = "idle"]
  /\ UNCHANGED <<keys, wire, read_closed, write_closed, close_notify_received, sender,
                 wpc, in_shutdown, outcomes, key_update_pending, delay>>

\* The next record fails s2n_record_parse.
ParseFails(p) == HasRecord(p) /\ (~Decrypts(p) \/ p \in Corruptible)

\* A record that does not decrypt kills the connection: s2n_connection_kill
\* closes it, then starts the blinding delay.
RecvBadRecord(p) ==
  /\ Receiving(p) /\ ParseFails(p)
  /\ rd' = [rd EXCEPT ![p] = @ + 1]
  /\ set_closed(p)
  /\ rpc' = [rpc EXCEPT ![p] = "blind"]
  /\ UNCHANGED <<keys, log, flushed, hup, close_notify_received, error_alert_received, sender,
                 wpc, in_shutdown, outcomes, key_update_pending, delay>>

StartBlinding(p) ==
  /\ rpc[p] = "blind"
  /\ delay' = [delay EXCEPT ![p] = "running"]
  /\ rpc' = [rpc EXCEPT ![p] = "idle"]
  /\ UNCHANGED <<keys, wire, closes, sender, wpc, in_shutdown, outcomes, key_update_pending>>

\* recv() returns 0: the transport has ended.
RecvTransportEnd(p) ==
  /\ Receiving(p) /\ ~HasRecord(p) /\ hup[Other(p)] = 1
  /\ read_closed' = [read_closed EXCEPT ![p] = 1]
  /\ UNCHANGED <<keys, wire, write_closed, close_notify_received, error_alert_received, sender,
                 threads, outcomes, key_update_pending, delay>>

\* s2n_recv on a connection that is not readable: 0 after a close_notify
\* (S2N_ERR_CLOSED otherwise).
RecvReturnsZero(p) ==
  /\ rpc[p] = "idle" /\ in_shutdown[p] = 0 /\ hup[p] = 0
  /\ ~Readable(p) /\ close_notify_received[p] = 1 /\ eof[p] = 0
  /\ eof' = [eof EXCEPT ![p] = 1]
  /\ UNCHANGED <<keys, wire, closes, sender, threads, result, discarded, request, key_update_pending, delay>>
-----------------------------------------------------------------------------
(* s2n_shutdown waits for the peer's close_notify                          *)

Draining(p) == At(p, "drain") /\ close_notify_received[p] = 0

\* Anything but an alert is dropped.
DrainDrop(p) ==
  /\ Draining(p)
  /\ read_full_record(p, Types \ {"close_notify", "error_alert"}) /\ count_record(p)
  /\ discarded' = [discarded EXCEPT ![p] = IF NextRecord(p).type = "app" THEN 1 ELSE @]
  /\ UNCHANGED <<closes, sender, threads, result, eof, request, key_update_pending, delay>>

DrainCloseNotify(p) ==
  /\ Draining(p)
  /\ read_full_record(p, {"close_notify"}) /\ count_record(p)
  /\ set_close_notify(p)
  /\ UNCHANGED <<write_closed, error_alert_received, sender, threads, outcomes, key_update_pending, delay>>

DrainErrorAlert(p) ==
  /\ Draining(p)
  /\ read_full_record(p, {"error_alert"}) /\ count_record(p)
  /\ set_closed(p)
  /\ error_alert_received' = [error_alert_received EXCEPT ![p] = 1]
  /\ ShutdownReturns(p, "alert")
  /\ UNCHANGED <<close_notify_received, sender, rpc, eof, discarded, request, key_update_pending, delay>>

DrainBadRecord(p) ==
  /\ Draining(p) /\ ParseFails(p)
  /\ rd' = [rd EXCEPT ![p] = @ + 1]
  /\ set_closed(p)
  /\ delay' = [delay EXCEPT ![p] = "running"]
  /\ ShutdownReturns(p, "decrypt")
  /\ UNCHANGED <<keys, log, flushed, hup, close_notify_received, error_alert_received, sender, rpc,
                 eof, discarded, request, key_update_pending>>

DrainTransportEnd(p) ==
  /\ Draining(p) /\ ~HasRecord(p) /\ hup[Other(p)] = 1
  /\ read_closed' = [read_closed EXCEPT ![p] = 1]
  /\ ShutdownReturns(p, "closed")
  /\ UNCHANGED <<keys, wire, write_closed, close_notify_received, error_alert_received, sender, rpc,
                 eof, discarded, request, key_update_pending, delay>>

\* Nothing to read: S2N_ERR_IO_BLOCKED, the application calls again.
DrainBlocked(p) ==
  /\ Draining(p) /\ ~HasRecord(p) /\ hup[Other(p)] = 0
  /\ Goto(p, "idle")
  /\ in_shutdown' = [in_shutdown EXCEPT ![p] = 0]
  /\ UNCHANGED <<keys, wire, closes, sender, rpc, outcomes, key_update_pending, delay>>

DrainDone(p) ==
  /\ At(p, "drain") /\ close_notify_received[p] = 1
  /\ ShutdownReturns(p, "ok")
  /\ UNCHANGED <<keys, wire, closes, sender, rpc, eof, discarded, request, key_update_pending, delay>>
-----------------------------------------------------------------------------
(* The environment                                                         *)

\* Another TLS implementation may abort with an error alert.
PeerAborts(p) ==
  /\ p \in Aborters /\ At(p, "idle") /\ hup[p] = 0
  /\ Writable(p) /\ flushed[p] = Len(log[p])
  /\ log' = [log EXCEPT ![p] = Append(@, [type |-> "error_alert", key |-> send_key[p], seq |-> send_seq[p]])]
  /\ flushed' = [flushed EXCEPT ![p] = Len(log[p]) + 1]
  /\ increment_sequence_number(p)
  /\ alert_sent' = [alert_sent EXCEPT ![p] = 1]
  /\ write_closed' = [write_closed EXCEPT ![p] = 1]
  /\ UNCHANGED <<rd, hup, read_closed, close_notify_received, error_alert_received, tickets,
                 consumed, messages, requests, threads, outcomes, key_update_pending, delay>>

\* The blinding delay passes.
BlindingElapses(p) ==
  /\ delay[p] = "running"
  /\ delay' = [delay EXCEPT ![p] = "elapsed"]
  /\ UNCHANGED <<keys, wire, closes, sender, threads, outcomes, key_update_pending>>

\* The application closes the transport once s2n_shutdown has returned; an
\* unreliable one goes away earlier.
TransportClose(p) ==
  /\ hup[p] = 0 /\ At(p, "idle") /\ rpc[p] = "idle"
  /\ p \in Unreliable \/ result[p] \in {"ok", "alert", "decrypt", "closed"}
  /\ hup' = [hup EXCEPT ![p] = 1]
  /\ UNCHANGED <<keys, log, flushed, rd, closes, sender, threads, outcomes, key_update_pending, delay>>
-----------------------------------------------------------------------------
Writer(p) ==
  \/ s2n_flush(p) \/ s2n_flush_blocked(p)
  \/ s2n_check_record_limit(p) \/ TestKeyUpdatePending(p) \/ WriteKeyUpdate(p) \/ ClearKeyUpdatePending(p)
  \/ NstWrite(p) \/ NstDone(p) \/ NstExpired(p) \/ WriteData(p)
  \/ WriteAlert(p) \/ SkipAlert(p) \/ ShutdownPaused(p)
  \/ ShutdownSent(p) \/ ShutdownExpects(p) \/ ShutdownCloses(p)

Drain(p) ==
  \/ DrainDrop(p) \/ DrainCloseNotify(p) \/ DrainErrorAlert(p) \/ DrainBadRecord(p)
  \/ DrainTransportEnd(p) \/ DrainBlocked(p) \/ DrainDone(p)

Reader(p) ==
  \/ RecvData(p) \/ s2n_key_update_recv(p) \/ RecvCloseNotify(p)
  \/ RecvErrorAlert(p) \/ FlagErrorAlert(p) \/ RecvBadRecord(p) \/ StartBlinding(p)
  \/ RecvTransportEnd(p) \/ RecvReturnsZero(p)

Application(p) ==
  \/ SendStart(p) \/ s2n_connection_request_key_update(p)
  \/ \E full \in Bit : ShutdownStart(p, full)

Environment(p) == PeerAborts(p) \/ BlindingElapses(p) \/ TransportClose(p)

Next == \E p \in Peers : Writer(p) \/ Drain(p) \/ Reader(p) \/ Application(p) \/ Environment(p)

Spec == Init /\ [][Next]_vars

\* A call that has been started goes on; a socket that blocks is writable
\* again and again and the call is then retried; the delay passes.  Whether
\* and when the application calls s2n-tls is up to it, except that it ends
\* by calling s2n_shutdown until that returns something other than blocked,
\* and then closes the transport.
ShutDown(p) == result[p] = "none" /\ ShutdownStart(p, 1)

CloseAfter(p) == result[p] # "none" /\ TransportClose(p)

Fairness == \A p \in Peers :
  /\ WF_vars(Writer(p)) /\ SF_vars(s2n_flush(p))
  /\ WF_vars(Drain(p)) /\ WF_vars(FlagErrorAlert(p)) /\ WF_vars(StartBlinding(p))
  /\ WF_vars(BlindingElapses(p)) /\ SF_vars(ShutDown(p)) /\ SF_vars(CloseAfter(p))

FairSpec == Spec /\ Fairness
-----------------------------------------------------------------------------
(* Properties                                                              *)

TypeOK ==
  /\ log \in [Peers -> Seq(Record)]
  /\ flushed \in [Peers -> Nat] /\ rd \in [Peers -> Nat]
  /\ send_key \in [Peers -> Nat] /\ send_seq \in [Peers -> Nat]
  /\ recv_key \in [Peers -> Nat] /\ recv_seq \in [Peers -> Nat]
  /\ key_update_pending \in [Peers -> Bit]
  /\ tickets \in [Peers -> Nat] /\ consumed \in [Peers -> Bit]
  /\ messages \in [Peers -> Nat] /\ requests \in [Peers -> Nat]
  /\ read_closed \in [Peers -> Bit] /\ write_closed \in [Peers -> Bit]
  /\ close_notify_received \in [Peers -> Bit] /\ error_alert_received \in [Peers -> Bit]
  /\ alert_sent \in [Peers -> Bit] /\ hup \in [Peers -> Bit]
  /\ delay \in [Peers -> {"none", "running", "elapsed"}]
  /\ wpc \in [Peers -> WriterPC] /\ rpc \in [Peers -> ReaderPC]
  /\ in_shutdown \in [Peers -> Bit]
  /\ result \in [Peers -> {"none", "ok", "alert", "decrypt", "closed"}]
  /\ eof \in [Peers -> Bit] /\ discarded \in [Peers -> Bit]
  /\ request \in [Peers -> [flushed : Nat, written : Int]]

\* conn->out is empty wherever a record is written, so s2n_record_writev
\* never fails with S2N_ERR_RECORD_STUFFER_NEEDS_DRAINING, whichever call
\* was blocked before and whatever the application called next.
RecordStufferDrained ==
  \A p \in Peers : wpc[p] \in Writing => flushed[p] = Len(log[p])

Before(r, s) == r.key < s.key \/ (r.key = s.key /\ r.seq < s.seq)

\* No two records are encrypted with the same key and sequence number, the
\* AEAD nonce, over any number of key updates, retries and shutdowns.
NonceNeverReused ==
  \A p \in Peers : \A i, j \in 1..Len(log[p]) : i < j => Before(log[p][i], log[p][j])

\* A sender asked to update replaces its key in time: no record carries a
\* sequence number above the limit by more than the tickets, which
\* s2n_post_handshake_send writes after it has checked the limit.
RecordLimit ==
  \A p \in Peers : \A i \in 1..Len(log[p]) : log[p][i].seq <= EncryptionLimit + MaxTickets

\* Every record that arrives decrypts: the receiver's key and sequence
\* number are the ones the record was encrypted with.
RecordsDecrypt ==
  \A p \in Peers : HasRecord(p) => Decrypts(p)

\* Nothing follows an alert: no second alert and no application data, even
\* when s2n_shutdown_send is blocked and called again.
AlertIsLast ==
  \A p \in Peers : \A i \in 1..Len(log[p]) :
     log[p][i].type \in {"close_notify", "error_alert"} => i = Len(log[p])

\* When s2n_recv returns 0 the application has all the data its peer wrote,
\* however the transport ended (unless it let s2n_shutdown discard some).
EndOfDataIsComplete ==
  \A p \in Peers : eof[p] = 1 /\ discarded[p] = 0 =>
     \A i \in rd[p] + 1 .. Len(log[Other(p)]) : log[Other(p)][i].type # "app"

\* A connection ends in order: nothing follows an alert, and what is before it has
\* been read when s2n_recv reports the end.
ClosesOrderly == AlertIsLast /\ EndOfDataIsComplete

AppRecords(p) == {i \in 1..Len(log[p]) : log[p][i].type = "app"}

\* A peer's update_requested is never lost, though reader and writer race on
\* key_update_pending: at most the one record whose flag test came first is
\* encrypted before a KeyUpdate that reaches the wire after the request.
RequestAnswered ==
  \A p \in Peers : \A i, j \in AppRecords(p) :
     request[p].written >= 0 /\ request[p].written < i /\ i < j
        => \E k \in request[p].flushed + 1 .. j : log[p][k].type \in Updates

\* Two applications that both end with s2n_shutdown both get an answer:
\* neither waits forever for a close_notify that is not coming.
ShutdownReturnsEventually == \A p \in Peers : <>(result[p] # "none" \/ hup[p] = 1)
=============================================================================
