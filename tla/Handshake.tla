----------------------------- MODULE Handshake -----------------------------
(***************************************************************************)
(* The handshake state machine of tls/s2n_handshake_io.c, run by a client  *)
(* and a server: the tables of message orders, the handshake type that     *)
(* selects a row of them, s2n_negotiate's loop with its reader, its writer *)
(* and the retry of a handler that an application callback has blocked.    *)
(*                                                                         *)
(* What the peers negotiate is fixed by cfg, a configuration chosen in     *)
(* Init; each peer acts on it only when the message that carries the       *)
(* decision reaches it.  A handshake message is its name; a record is the  *)
(* sequence of the messages in it.                                         *)
(***************************************************************************)
EXTENDS Naturals, Sequences, SequencesExt

CONSTANTS
  Configs,          \* the configurations explored
  Coalescers,       \* peers that may put several messages into one record
  AsyncPeers,       \* peers whose application callbacks may block a handler
  MaxHelloRequests  \* HelloRequest messages the server may send

Peers == {"client", "server"}
AuthTypes == {"none", "optional", "required"}

(***************************************************************************)
(* A configuration: the protocol version, s2n_cert_auth_type of each peer, *)
(* whether the client has a certificate, whether a TLS1.2 session is       *)
(* resumed and a ticket issued, whether the key exchange is ephemeral,     *)
(* whether the server announces an OCSP response and sends it, whether NPN *)
(* is negotiated, whether a PSK is chosen, whether the key share needs a   *)
(* retry, and what becomes of early data.                                  *)
(***************************************************************************)
AllConfigs ==
  [version : {12, 13}, client_auth : AuthTypes, server_auth : AuthTypes,
   has_cert : BOOLEAN, resume : BOOLEAN, ticket : BOOLEAN, pfs : BOOLEAN,
   ocsp : {"no", "stapled", "missing"}, npn : BOOLEAN, psk : BOOLEAN,
   hrr : BOOLEAN, early : {"no", "rejected", "accepted"}]

\* Configurations an s2n server can negotiate: it resumes no TLS1.2 session
\* when client authentication is enabled, and accepts early data only with a
\* PSK and without a retry.
WellFormed(c) ==
  /\ c.resume => c.version = 12 /\ c.server_auth = "none"
  /\ c.version = 12 => ~c.psk /\ ~c.hrr /\ c.early # "accepted"
  /\ c.early = "accepted" => c.psk /\ ~c.hrr
  /\ c.version = 13 => ~c.ticket /\ ~c.npn /\ c.ocsp = "no" /\ c.pfs

ASSUME ConfigsAssumption ==
  /\ \A c \in Configs : c \in AllConfigs /\ WellFormed(c)
  /\ Coalescers \subseteq Peers
  /\ AsyncPeers \subseteq Peers
  /\ MaxHelloRequests \in Nat

VARIABLES
  cfg,             \* the configuration
  handshake_type,  \* [Peers -> set of flags]  conn->handshake.handshake_type
  state_machine,   \* [Peers -> {"initial", "tls12", "tls13"}]
  message_number,  \* [Peers -> Nat]  conn->handshake.message_number
  paused,          \* [Peers -> BOOLEAN]  conn->handshake.paused
  io,              \* [Peers -> state of conn->handshake.io]
  in,              \* [Peers -> messages left in conn->in]
  net,             \* [Peers -> records on their way to the peer]
  transcript,      \* [Peers -> messages hashed so far]
  failed,          \* [Peers -> BOOLEAN]  s2n_negotiate returned an error
  hello_requests   \* HelloRequests sent

vars == << cfg, handshake_type, state_machine, message_number, paused, io,
           in, net, transcript, failed, hello_requests >>

\* conn->handshake.io is wiped, holds the header of a message whose handler is
\* blocked, a finished message, a message whose record is written, or a
\* received message whose handler is blocked.
IoStates == {"wiped", "blocked", "ready", "written", "received"}

Flags == {"NEGOTIATED", "FULL_HANDSHAKE", "CLIENT_AUTH", "NO_CLIENT_CERT",
          "TLS12_PERFECT_FORWARD_SECRECY", "OCSP_STATUS",
          "WITH_SESSION_TICKET", "WITH_NPN", "HELLO_RETRY_REQUEST",
          "MIDDLEBOX_COMPAT", "WITH_EARLY_DATA", "EARLY_CLIENT_CCS"}

ClientMessages ==
  {"CLIENT_HELLO", "CLIENT_CERT", "CLIENT_KEY", "CLIENT_CERT_VERIFY",
   "CLIENT_CHANGE_CIPHER_SPEC", "CLIENT_NPN", "CLIENT_FINISHED",
   "END_OF_EARLY_DATA"}
ServerMessages ==
  {"SERVER_HELLO", "HELLO_RETRY_MSG", "SERVER_NEW_SESSION_TICKET",
   "SERVER_CERT", "SERVER_CERT_STATUS", "SERVER_KEY", "SERVER_CERT_REQ",
   "SERVER_HELLO_DONE", "SERVER_CHANGE_CIPHER_SPEC", "SERVER_FINISHED",
   "ENCRYPTED_EXTENSIONS", "SERVER_CERT_VERIFY", "HELLO_REQUEST"}
Messages == ClientMessages \cup ServerMessages

ChangeCipherSpecs == {"CLIENT_CHANGE_CIPHER_SPEC", "SERVER_CHANGE_CIPHER_SPEC"}

other(p) == CHOOSE q \in Peers : q # p

\* The writer column of state_machine and tls13_state_machine; APPLICATION_DATA
\* is written by both.
Writer(m) == CASE m \in ClientMessages -> "client"
               [] m \in ServerMessages -> "server"
               [] OTHER -> "both"

\* The message type column: some messages share one type on the wire.
MessageType(m) ==
  CASE m \in {"SERVER_HELLO", "HELLO_RETRY_MSG"} -> "TLS_SERVER_HELLO"
    [] m \in {"SERVER_CERT", "CLIENT_CERT"} -> "TLS_CERTIFICATE"
    [] m \in {"SERVER_CERT_VERIFY", "CLIENT_CERT_VERIFY"} -> "TLS_CERT_VERIFY"
    [] m \in {"SERVER_FINISHED", "CLIENT_FINISHED"} -> "TLS_FINISHED"
    [] OTHER -> m

-----------------------------------------------------------------------------
(* The tables handshakes and tls13_handshakes.                             *)

\* The optional messages of a row.
Only(b, s) == IF b THEN s ELSE << >>

TLS12Row(t) ==
  LET full == "FULL_HANDSHAKE" \in t
      auth == "CLIENT_AUTH" \in t
      cert == auth /\ "NO_CLIENT_CERT" \notin t
      nst  == Only("WITH_SESSION_TICKET" \in t, <<"SERVER_NEW_SESSION_TICKET">>)
      npn  == Only("WITH_NPN" \in t, <<"CLIENT_NPN">>)
      client_end == <<"CLIENT_CHANGE_CIPHER_SPEC">> \o npn \o <<"CLIENT_FINISHED">>
      server_end == nst \o <<"SERVER_CHANGE_CIPHER_SPEC", "SERVER_FINISHED">>
  IN  <<"CLIENT_HELLO", "SERVER_HELLO">> \o
      CASE "NEGOTIATED" \notin t -> << >>
        [] "NEGOTIATED" \in t /\ ~full ->
             server_end \o client_end \o <<"APPLICATION_DATA">>
        [] "NEGOTIATED" \in t /\ full ->
             <<"SERVER_CERT">>
             \o Only("OCSP_STATUS" \in t, <<"SERVER_CERT_STATUS">>)
             \o Only("TLS12_PERFECT_FORWARD_SECRECY" \in t, <<"SERVER_KEY">>)
             \o Only(auth, <<"SERVER_CERT_REQ">>)
             \o <<"SERVER_HELLO_DONE">>
             \o Only(auth, <<"CLIENT_CERT">>)
             \o <<"CLIENT_KEY">>
             \o Only(cert, <<"CLIENT_CERT_VERIFY">>)
             \o client_end \o server_end \o <<"APPLICATION_DATA">>

\* The entries the table handshakes defines; every other one is all zeros.
TLS12Defined(t) ==
  \/ t = {}
  \/ /\ "NEGOTIATED" \in t
     /\ t \subseteq {"NEGOTIATED", "WITH_SESSION_TICKET", "WITH_NPN"}
  \/ /\ {"NEGOTIATED", "FULL_HANDSHAKE"} \subseteq t
     /\ t \cap {"HELLO_RETRY_REQUEST", "MIDDLEBOX_COMPAT", "WITH_EARLY_DATA",
                "EARLY_CLIENT_CCS"} = {}
     /\ "NO_CLIENT_CERT" \in t => "CLIENT_AUTH" \in t

TLS13Row(t) ==
  LET early_ccs == "EARLY_CLIENT_CCS" \in t
      compat    == "MIDDLEBOX_COMPAT" \in t
      retry     == "HELLO_RETRY_REQUEST" \in t
      full      == "FULL_HANDSHAKE" \in t
      auth      == "CLIENT_AUTH" \in t
      late_ccs  == compat /\ ~early_ccs
      client_ccs(b) == Only(b, <<"CLIENT_CHANGE_CIPHER_SPEC">>)
      server_ccs(b) == Only(b, <<"SERVER_CHANGE_CIPHER_SPEC">>)
      hello == <<"CLIENT_HELLO">> \o client_ccs(early_ccs)
  IN  IF "NEGOTIATED" \notin t
      THEN hello \o <<IF retry THEN "HELLO_RETRY_MSG" ELSE "SERVER_HELLO">>
      ELSE hello
           \o Only(retry, <<"HELLO_RETRY_MSG">> \o server_ccs(compat)
                          \o client_ccs(late_ccs) \o <<"CLIENT_HELLO">>)
           \o <<"SERVER_HELLO">> \o server_ccs(compat /\ ~retry)
           \o <<"ENCRYPTED_EXTENSIONS">>
           \o Only(auth, <<"SERVER_CERT_REQ">>)
           \o Only(full, <<"SERVER_CERT", "SERVER_CERT_VERIFY">>)
           \o <<"SERVER_FINISHED">> \o client_ccs(late_ccs /\ ~retry)
           \o Only("WITH_EARLY_DATA" \in t, <<"END_OF_EARLY_DATA">>)
           \o Only(auth, <<"CLIENT_CERT">>)
           \o Only(auth /\ "NO_CLIENT_CERT" \notin t, <<"CLIENT_CERT_VERIFY">>)
           \o <<"CLIENT_FINISHED", "APPLICATION_DATA">>

\* The entries the table tls13_handshakes defines.
TLS13Defined(t) ==
  /\ t \cap {"TLS12_PERFECT_FORWARD_SECRECY", "OCSP_STATUS",
             "WITH_SESSION_TICKET", "WITH_NPN"} = {}
  /\ "EARLY_CLIENT_CCS" \in t => "MIDDLEBOX_COMPAT" \in t
  /\ IF "NEGOTIATED" \in t
     THEN /\ "CLIENT_AUTH" \in t => "FULL_HANDSHAKE" \in t
          /\ "NO_CLIENT_CERT" \in t => "CLIENT_AUTH" \in t
          /\ "WITH_EARLY_DATA" \in t =>
               t \cap {"FULL_HANDSHAKE", "HELLO_RETRY_REQUEST"} = {}
     ELSE /\ t \subseteq {"HELLO_RETRY_REQUEST", "MIDDLEBOX_COMPAT", "EARLY_CLIENT_CCS"}
          /\ "MIDDLEBOX_COMPAT" \in t => "EARLY_CLIENT_CCS" \in t

Defined(machine, t) == IF machine = "tls13" THEN TLS13Defined(t) ELSE TLS12Defined(t)

handshakes == [t \in SUBSET Flags |-> IF TLS12Defined(t) THEN TLS12Row(t) ELSE << >>]
tls13_handshakes == [t \in SUBSET Flags |-> IF TLS13Defined(t) THEN TLS13Row(t) ELSE << >>]

\* ACTIVE_HANDSHAKES(conn)[handshake_type].
Row(machine, t) == IF machine = "tls13" THEN tls13_handshakes[t] ELSE handshakes[t]

\* ACTIVE_MESSAGE: an entry the tables leave out is zero, CLIENT_HELLO.
MessageAt(machine, t, n) ==
  IF n < Len(Row(machine, t)) THEN Row(machine, t)[n + 1] ELSE "CLIENT_HELLO"

ActiveMessage(p) == MessageAt(state_machine[p], handshake_type[p], message_number[p])
IsWriter(p) == Writer(ActiveMessage(p)) = p

\* s2n_handshake_is_complete.
IsComplete(p) == ActiveMessage(p) = "APPLICATION_DATA"

-----------------------------------------------------------------------------
(* The handshake type.                                                     *)

Flag(b, f) == IF b THEN {f} ELSE {}

\* The conditions on s2n_connection_get_client_auth_type under which a peer
\* counts on a CertificateRequest from the start.
ExpectsCertReq(p) ==
  \/ p = "client" /\ cfg.client_auth = "required"
  \/ p = "server" /\ cfg.server_auth # "none"

\* Flags that have already affected the message order.
KeptFlags == {"HELLO_RETRY_REQUEST", "MIDDLEBOX_COMPAT", "EARLY_CLIENT_CCS"}

\* Mutant of s2n_conn_set_tls13_handshake_type: keeps no flag, so what has
\* already been sent is forgotten.
tls13_type_keeps_nothing(p, t, psk, accepted) ==
  {"NEGOTIATED", "MIDDLEBOX_COMPAT"}
  \cup Flag(~psk, "FULL_HANDSHAKE")
  \cup Flag(accepted, "WITH_EARLY_DATA")
  \cup Flag(~psk /\ ExpectsCertReq(p), "CLIENT_AUTH")

\* s2n_conn_set_tls13_handshake_type on a connection of type t; psk: a PSK is
\* chosen; accepted: early data is accepted.
s2n_conn_set_tls13_handshake_type(p, t, psk, accepted) ==
  (t \cap KeptFlags)
  \cup {"NEGOTIATED", "MIDDLEBOX_COMPAT"}
  \cup Flag(~psk, "FULL_HANDSHAKE")
  \cup Flag(accepted, "WITH_EARLY_DATA")
  \cup Flag(~psk /\ ExpectsCertReq(p), "CLIENT_AUTH")

\* s2n_conn_set_handshake_type for TLS1.2, up to the lookup of the session.
TLS12TypeBeforeLookup(p) ==
  {"NEGOTIATED"}
  \cup Flag(ExpectsCertReq(p), "CLIENT_AUTH")
  \cup Flag(cfg.npn, "WITH_NPN")
  \cup Flag(cfg.ticket, "WITH_SESSION_TICKET")

\* The rest of it; the client takes the server's word for an OCSP response, the
\* server has one or has none.
TLS12Type(p) ==
  TLS12TypeBeforeLookup(p)
  \cup Flag(~cfg.resume, "FULL_HANDSHAKE")
  \cup Flag(~cfg.resume /\ cfg.pfs, "TLS12_PERFECT_FORWARD_SECRECY")
  \cup Flag(/\ ~cfg.resume
            /\ IF p = "client" THEN cfg.ocsp # "no" ELSE cfg.ocsp = "stapled",
            "OCSP_STATUS")

\* s2n_conn_set_handshake_type.
s2n_conn_set_handshake_type(p, t, psk, accepted) ==
  IF cfg.version = 13
  THEN s2n_conn_set_tls13_handshake_type(p, t, psk, accepted)
  ELSE TLS12Type(p)

\* s2n_conn_choose_state_machine.
ChosenMachine == IF cfg.version = 13 THEN "tls13" ELSE "tls12"

\* s2n_setup_middlebox_compat_for_early_data.
EarlyFlags == {"MIDDLEBOX_COMPAT", "EARLY_CLIENT_CCS"}

\* Mutant of MayOmitCert: the check on the authentication type is lost.
may_always_omit_cert(p) == TRUE

\* s2n_conn_set_handshake_no_client_cert succeeds.
MayOmitCert(p) ==
  (IF p = "client" THEN cfg.client_auth ELSE cfg.server_auth) = "optional"

\* The type after parsing a ClientHello: the early_data extension of the first
\* one sets flags, a missing key share asks for a retry.
TypeAfterClientHello(p) ==
  IF cfg.version = 12 THEN handshake_type[p]
  ELSE handshake_type[p]
       \cup (IF cfg.early # "no" /\ message_number[p] = 0 THEN EarlyFlags ELSE {})
       \cup Flag(cfg.hrr, "HELLO_RETRY_REQUEST")

\* Mutant of TypeAfter: the client does not update its type when the server
\* accepts early data.
type_after_ignores_early_data(p, m, t) ==
  CASE m = "CLIENT_HELLO" ->
         s2n_conn_set_handshake_type(p, TypeAfterClientHello(p),
                                     cfg.psk, cfg.early = "accepted")
    [] m = "HELLO_RETRY_MSG" ->
         s2n_conn_set_handshake_type(p, t \cup {"HELLO_RETRY_REQUEST"}, FALSE, FALSE)
    [] m = "SERVER_HELLO" -> s2n_conn_set_handshake_type(p, t, cfg.psk, FALSE)
    [] m = "CLIENT_CERT" -> t \cup Flag(~cfg.has_cert, "NO_CLIENT_CERT")
    [] OTHER -> t

\* What the handler of a received message m makes of the handshake type t.
TypeAfter(p, m, t) ==
  CASE m = "CLIENT_HELLO" ->
         s2n_conn_set_handshake_type(p, TypeAfterClientHello(p),
                                     cfg.psk, cfg.early = "accepted")
    [] m = "HELLO_RETRY_MSG" ->
         s2n_conn_set_handshake_type(p, t \cup {"HELLO_RETRY_REQUEST"}, FALSE, FALSE)
    [] m = "SERVER_HELLO" -> s2n_conn_set_handshake_type(p, t, cfg.psk, FALSE)
    [] m = "ENCRYPTED_EXTENSIONS" ->
         t \cup Flag(cfg.early = "accepted", "WITH_EARLY_DATA")
    [] m = "CLIENT_CERT" -> t \cup Flag(~cfg.has_cert, "NO_CLIENT_CERT")
    [] OTHER -> t

\* The handlers that choose the state machine.
MachineAfter(p, m) ==
  IF m \in {"CLIENT_HELLO", "HELLO_RETRY_MSG", "SERVER_HELLO"}
  THEN ChosenMachine ELSE state_machine[p]

\* The handler of a received message reports no error.  A client that asked for
\* early data refuses an older version, and any client a second retry.
HandlerAccepts(p, m) ==
  CASE m = "SERVER_HELLO" -> cfg.version = 12 => cfg.early = "no"
    [] m = "HELLO_RETRY_MSG" -> "HELLO_RETRY_REQUEST" \notin handshake_type[p]
    [] m = "CLIENT_CERT" -> cfg.has_cert \/ MayOmitCert(p)
    [] OTHER -> TRUE

-----------------------------------------------------------------------------
Init ==
  /\ cfg \in Configs
  /\ handshake_type = [p \in Peers |-> {}]
  /\ state_machine = [p \in Peers |-> "initial"]
  /\ message_number = [p \in Peers |-> 0]
  /\ paused = [p \in Peers |-> FALSE]
  /\ io = [p \in Peers |-> "wiped"]
  /\ in = [p \in Peers |-> << >>]
  /\ net = [p \in Peers |-> << >>]
  /\ transcript = [p \in Peers |-> << >>]
  /\ failed = [p \in Peers |-> FALSE]
  /\ hello_requests = 0

\* s2n_advance_message: in TLS1.3 the reader skips the peer's change_cipher_spec.
s2n_advance_message(p, machine, t) ==
  LET n == message_number[p] + 1
      m == MessageAt(machine, t, n)
      skip == machine = "tls13" /\ m \in ChangeCipherSpecs /\ Writer(m) # p
  IN  message_number' = [message_number EXCEPT ![p] = IF skip THEN n + 1 ELSE n]

\* The transcript hashes handshake messages, not change_cipher_specs.
s2n_handshake_transcript_update(p, m) ==
  transcript' = [transcript EXCEPT ![p] =
    IF m \in ChangeCipherSpecs THEN @ ELSE Append(@, m)]

\* s2n_negotiate returns an error that ends the handshake.
Fail(p) ==
  /\ failed' = [failed EXCEPT ![p] = TRUE]
  /\ UNCHANGED << cfg, handshake_type, state_machine, message_number, paused, io,
                  in, net, transcript, hello_requests >>

\* The loop of s2n_negotiate_impl is at a new message of p's own.
MayWrite(p) ==
  /\ ~failed[p] /\ ~paused[p] /\ in[p] = << >>
  /\ IsWriter(p)

\* ... or waits for a message of the peer.
MayRead(p) ==
  /\ ~failed[p] /\ ~paused[p] /\ io[p] = "wiped"
  /\ ~IsWriter(p) /\ ~IsComplete(p)

-----------------------------------------------------------------------------
(* Writing.                                                                *)

\* The send handlers that change the type: s2n_client_hello_send with early
\* data, and s2n_client_cert_send without a certificate.
AsksForEarlyData(m, p) ==
  m = "CLIENT_HELLO" /\ cfg.early # "no" /\ message_number[p] = 0
TypeAfterSend(p, m) ==
  handshake_type[p]
  \cup (IF AsksForEarlyData(m, p) THEN EarlyFlags ELSE {})
  \cup Flag(m = "CLIENT_CERT" /\ ~cfg.has_cert, "NO_CLIENT_CERT")
SendFails(p, m) == m = "CLIENT_CERT" /\ ~cfg.has_cert /\ ~MayOmitCert(p)

\* Handlers that may sign through an asynchronous private key operation.
BlocksWriting(m) ==
  m \in {"SERVER_KEY", "CLIENT_CERT_VERIFY", "SERVER_CERT_VERIFY"}

\* A peer of another implementation may add a message to its last record, but
\* not across a change of keys.
Joinable(record, m) ==
  /\ {m, Last(record)} \cap (ChangeCipherSpecs \cup {"HELLO_REQUEST"}) = {}
  /\ cfg.version = 13 =>
       Last(record) \notin {"CLIENT_HELLO", "SERVER_HELLO", "HELLO_RETRY_MSG",
                           "END_OF_EARLY_DATA"}

\* s2n_handshake_message_send: each message is a record of its own.
s2n_handshake_message_send(p, m) ==
  LET q == other(p)
  IN  \/ net' = [net EXCEPT ![q] = Append(@, << m >>)]
      \/ /\ p \in Coalescers /\ net[q] # << >> /\ Joinable(Last(net[q]), m)
         /\ net' = [net EXCEPT ![q] = Append(Front(@), Append(Last(@), m))]

\* s2n_handshake_write_io up to the record: the handler runs only if
\* handshake.io is wiped.
s2n_handshake_write_io(p) ==
  LET m == ActiveMessage(p)
  IN  /\ MayWrite(p)
      /\ \/ /\ io[p] = "wiped" /\ ~SendFails(p, m)
            /\ handshake_type' = [handshake_type EXCEPT ![p] = TypeAfterSend(p, m)]
            /\ state_machine' = [state_machine EXCEPT ![p] =
                                   IF AsksForEarlyData(m, p) THEN "tls13" ELSE @]
         \/ /\ io[p] = "ready"
            /\ UNCHANGED << handshake_type, state_machine >>
      /\ s2n_handshake_message_send(p, m)
      /\ io' = [io EXCEPT ![p] = "written"]
      /\ UNCHANGED << cfg, message_number, paused, in, transcript, failed,
                      hello_requests >>

\* The handler fails.
WriteFails(p) ==
  /\ MayWrite(p) /\ io[p] = "wiped" /\ SendFails(p, ActiveMessage(p))
  /\ Fail(p)

\* The handler waits for an asynchronous operation.
WriteBlocks(p) ==
  /\ p \in AsyncPeers
  /\ MayWrite(p) /\ io[p] = "wiped" /\ BlocksWriting(ActiveMessage(p))
  /\ io' = [io EXCEPT ![p] = "blocked"]
  /\ paused' = [paused EXCEPT ![p] = TRUE]
  /\ UNCHANGED << cfg, handshake_type, state_machine, message_number, in, net,
                  transcript, failed, hello_requests >>

\* s2n_handle_retry_state for a writer: the handler finishes the message and
\* s2n_handshake_write_io sends it.
RetryWrite(p) ==
  /\ ~failed[p] /\ paused[p] /\ IsWriter(p)
  /\ paused' = [paused EXCEPT ![p] = FALSE]
  /\ io' = [io EXCEPT ![p] = "ready"]
  /\ UNCHANGED << cfg, handshake_type, state_machine, message_number, in, net,
                  transcript, failed, hello_requests >>

\* Mutant of FinishWrite: the retry after a blocked flush skips the transcript.
finish_write_without_transcript(p) ==
  /\ ~failed[p] /\ io[p] = "written"
  /\ IF p = "server" /\ ActiveMessage(p) = "SERVER_HELLO"
     THEN UNCHANGED transcript
     ELSE s2n_handshake_transcript_update(p, ActiveMessage(p))
  /\ io' = [io EXCEPT ![p] = "wiped"]
  /\ s2n_advance_message(p, state_machine[p], handshake_type[p])
  /\ UNCHANGED << cfg, handshake_type, state_machine, paused, in, net, failed,
                  hello_requests >>

\* The rest of s2n_handshake_write_io, once the record is flushed: in the same
\* call, or in the call that follows a blocked flush.
FinishWrite(p) ==
  /\ ~failed[p] /\ io[p] = "written"
  /\ s2n_handshake_transcript_update(p, ActiveMessage(p))
  /\ io' = [io EXCEPT ![p] = "wiped"]
  /\ s2n_advance_message(p, state_machine[p], handshake_type[p])
  /\ UNCHANGED << cfg, handshake_type, state_machine, paused, in, net, failed,
                  hello_requests >>

-----------------------------------------------------------------------------
(* Reading.                                                                *)

\* s2n_read_full_record: the next record, a handshake record, is in conn->in.
s2n_read_full_record(p) ==
  /\ MayRead(p) /\ in[p] = << >>
  /\ net[p] # << >> /\ Head(Head(net[p])) \notin ChangeCipherSpecs
  /\ in' = [in EXCEPT ![p] = Head(net[p])]
  /\ net' = [net EXCEPT ![p] = Tail(@)]
  /\ UNCHANGED << cfg, handshake_type, state_machine, message_number, paused, io,
                  transcript, failed, hello_requests >>

CCSArrives(p) ==
  /\ MayRead(p) /\ in[p] = << >>
  /\ net[p] # << >> /\ Head(Head(net[p])) \in ChangeCipherSpecs

ExpectsCCS(p) == ActiveMessage(p) \in ChangeCipherSpecs /\ ~IsWriter(p)

\* s2n_handshake_read_io with a change_cipher_spec: TLS1.3 ignores one that it
\* does not expect.
ReadCCS(p) ==
  /\ CCSArrives(p)
  /\ state_machine[p] = "tls13" \/ ExpectsCCS(p)
  /\ net' = [net EXCEPT ![p] = Tail(@)]
  /\ IF ExpectsCCS(p)
     THEN s2n_advance_message(p, state_machine[p], handshake_type[p])
     ELSE UNCHANGED message_number
  /\ UNCHANGED << cfg, handshake_type, state_machine, paused, io, in, transcript,
                  failed, hello_requests >>

RejectCCS(p) ==
  /\ CCSArrives(p)
  /\ state_machine[p] # "tls13" /\ ~ExpectsCCS(p)
  /\ Fail(p)

\* A client with optional authentication learns from the CertificateRequest
\* that it is asked for a certificate.
CertReqRefused(p, m) ==
  /\ p = "client" /\ m = "SERVER_CERT_REQ"
  /\ \/ cfg.client_auth = "none"
     \/ cfg.client_auth = "optional" /\ "FULL_HANDSHAKE" \notin handshake_type[p]

\* The type with which the message is checked: the client adds CLIENT_AUTH on
\* a request, and drops OCSP_STATUS when another message comes instead.
TypeOnArrival(p, m) ==
  LET t == handshake_type[p]
           \cup Flag(p = "client" /\ m = "SERVER_CERT_REQ", "CLIENT_AUTH")
      expected == MessageAt(state_machine[p], t, message_number[p])
  IN  IF p = "client" /\ expected = "SERVER_CERT_STATUS" /\ m # "SERVER_CERT_STATUS"
      THEN t \ {"OCSP_STATUS"} ELSE t

\* The checks of s2n_handshake_read_io on a message m other than HelloRequest.
Accepts(p, m) ==
  LET expected == MessageAt(state_machine[p], TypeOnArrival(p, m), message_number[p])
  IN  /\ ~CertReqRefused(p, m)
      /\ expected # "APPLICATION_DATA"
      /\ MessageType(m) = MessageType(expected)
      /\ Writer(expected) # p
      /\ HandlerAccepts(p, m)

\* The loop over the messages of a record.
InRecord(p) == ~failed[p] /\ ~paused[p] /\ in[p] # << >>

\* s2n_finish_read after the handler of m.
s2n_finish_read(p, m, machine, t) ==
  /\ s2n_handshake_transcript_update(p, m)
  /\ io' = [io EXCEPT ![p] = "wiped"]
  /\ handshake_type' = [handshake_type EXCEPT ![p] = t]
  /\ state_machine' = [state_machine EXCEPT ![p] = machine]
  /\ s2n_advance_message(p, machine, t)

\* s2n_handshake_read_io: the next message of the record is handled.
ReadMessage(p) ==
  LET m == Head(in[p])
  IN  /\ InRecord(p) /\ m # "HELLO_REQUEST" /\ Accepts(p, m)
      /\ in' = [in EXCEPT ![p] = Tail(@)]
      /\ s2n_finish_read(p, m, MachineAfter(p, m), TypeAfter(p, m, TypeOnArrival(p, m)))
      /\ UNCHANGED << cfg, paused, net, failed, hello_requests >>

\* s2n_client_hello_request_validate: a HelloRequest is ignored, after the
\* adjustments of the type that precede the check for it.
IgnoreHelloRequest(p) ==
  /\ InRecord(p) /\ Head(in[p]) = "HELLO_REQUEST"
  /\ p = "client" /\ ("NEGOTIATED" \in handshake_type[p] => cfg.version < 13)
  /\ in' = [in EXCEPT ![p] = Tail(@)]
  /\ handshake_type' = [handshake_type EXCEPT ![p] = TypeOnArrival(p, "HELLO_REQUEST")]
  /\ UNCHANGED << cfg, state_machine, message_number, paused, io, net, transcript,
                  failed, hello_requests >>

RejectMessage(p) ==
  /\ InRecord(p) /\ Head(in[p]) # "HELLO_REQUEST" /\ ~Accepts(p, Head(in[p]))
  /\ Fail(p)

\* Handlers that may wait for the application: the callbacks of the
\* ClientHello, an asynchronous decryption, certificate revocation lookups.
BlocksReading(p, m) ==
  \/ m = "CLIENT_HELLO" /\ message_number[p] = 0
  \/ m = "CLIENT_KEY" /\ ~cfg.pfs
  \/ m = "SERVER_CERT"
  \/ m = "CLIENT_CERT" /\ cfg.has_cert

\* State machine and type while a handler waits.  s2n_establish_session can wait
\* in the ClientHello callback, before it changes anything, in the early data
\* callback, and in the lookup of the session cache.
WhileBlocked(p, m) ==
  {<< state_machine[p], TypeOnArrival(p, m) >>}
  \cup IF m # "CLIENT_HELLO" THEN {}
       ELSE { x \in {<< "tls12", TLS12TypeBeforeLookup(p) >>} :
                cfg.version = 12 /\ cfg.server_auth = "none" }
            \cup { x \in {<< "tls13", TypeAfterClientHello(p) >>} :
                     cfg.psk /\ ~cfg.hrr /\ cfg.early # "no" }

\* The handler waits and the message stays in handshake.io.  The rest of the
\* record is lost: the handler is called under WITH_ERROR_BLINDING, and
\* s2n_connection_apply_error_blinding wipes conn->in before it finds out that
\* the error was only a blocked handler.
ReadBlocks(p) ==
  LET m == Head(in[p])
  IN  /\ p \in AsyncPeers
      /\ InRecord(p) /\ Accepts(p, m) /\ BlocksReading(p, m)
      /\ \E x \in WhileBlocked(p, m) :
           /\ state_machine' = [state_machine EXCEPT ![p] = x[1]]
           /\ handshake_type' = [handshake_type EXCEPT ![p] = x[2]]
      /\ in' = [in EXCEPT ![p] = << >>]
      /\ io' = [io EXCEPT ![p] = "received"]
      /\ paused' = [paused EXCEPT ![p] = TRUE]
      /\ UNCHANGED << cfg, message_number, net, transcript, failed, hello_requests >>

\* s2n_handle_retry_state for a reader: the handler finishes, the record is
\* wiped, the state machine advances.
RetryRead(p) ==
  LET m == ActiveMessage(p)
  IN  /\ ~failed[p] /\ paused[p] /\ ~IsWriter(p)
      /\ paused' = [paused EXCEPT ![p] = FALSE]
      /\ in' = [in EXCEPT ![p] = << >>]
      /\ s2n_finish_read(p, m, MachineAfter(p, m), TypeAfter(p, m, handshake_type[p]))
      /\ UNCHANGED << cfg, net, failed, hello_requests >>

\* The peer has given up and closed the transport.
TransportEnds(p) ==
  /\ MayRead(p) /\ in[p] = << >> /\ net[p] = << >> /\ failed[other(p)]
  /\ Fail(p)

\* A TLS1.2 server of another implementation sends a HelloRequest.
SendHelloRequest ==
  /\ cfg.version = 12 /\ ~failed["server"] /\ ~IsComplete("server")
  /\ hello_requests < MaxHelloRequests
  /\ hello_requests' = hello_requests + 1
  /\ net' = [net EXCEPT !["client"] = Append(@, << "HELLO_REQUEST" >>)]
  /\ UNCHANGED << cfg, handshake_type, state_machine, message_number, paused, io,
                  in, transcript, failed >>

-----------------------------------------------------------------------------
NegotiateStep(p) ==
  \/ s2n_handshake_write_io(p) \/ WriteFails(p) \/ WriteBlocks(p)
  \/ RetryWrite(p) \/ FinishWrite(p)
  \/ s2n_read_full_record(p) \/ ReadCCS(p) \/ RejectCCS(p)
  \/ ReadMessage(p) \/ IgnoreHelloRequest(p) \/ RejectMessage(p)
  \/ ReadBlocks(p) \/ RetryRead(p) \/ TransportEnds(p)

\* s2n_negotiate has returned success or an error to both applications.
Terminated ==
  /\ \A p \in Peers : failed[p] \/ IsComplete(p)
  /\ UNCHANGED vars

Next == (\E p \in Peers : NegotiateStep(p)) \/ SendHelloRequest \/ Terminated

Spec == Init /\ [][Next]_vars

\* An application keeps calling s2n_negotiate until it returns, and answers the
\* callbacks that block a handler.
FairSpec == Spec /\ \A p \in Peers : WF_vars(NegotiateStep(p))

-----------------------------------------------------------------------------
(* Properties.                                                             *)

\* The part of the message order a peer has been through.
Past(p) == SubSeq(Row(state_machine[p], handshake_type[p]), 1, message_number[p])

\* A new handshake type, computed in the middle of the handshake and also while
\* a handler is blocked, selects an entry that the tables of message orders
\* define, and does not rewrite the past: it agrees with the old one on every
\* message already exchanged (the comment in s2n_conn_set_tls13_handshake_type).
PastUnchanged ==
  [][\A p \in Peers :
       /\ Defined(state_machine[p], handshake_type[p])'
       /\ SubSeq(Row(state_machine[p], handshake_type[p])', 1, message_number[p])
            = Past(p)]_vars

\* The transcripts of the peers never diverge: one is a prefix of the other,
\* through retries, skipped change_cipher_specs and ignored HelloRequests.
\* Peers that complete a handshake have run the same one.
TranscriptsAgree ==
  /\ \/ IsPrefix(transcript["client"], transcript["server"])
     \/ IsPrefix(transcript["server"], transcript["client"])
  /\ (\A p \in Peers : IsComplete(p)) =>
       /\ handshake_type["client"] = handshake_type["server"]
       /\ transcript["client"] = transcript["server"]

\* The handshake messages of q in the sequence s.
From(q, s) == SelectSeq(s, LAMBDA m : /\ Writer(m) = q
                                      /\ m \notin ChangeCipherSpecs \cup {"HELLO_REQUEST"})

\* Every message a peer has sent is in the receiver's transcript, in its
\* handshake.io, in its record buffer or on the wire: retried handlers and
\* records with several messages lose and repeat nothing ("the small state
\* machine in s2n_handshake_io.c takes care of any fragmentation and
\* coalescing", docs/DEVELOPMENT-GUIDE.md).
MessagesConserved ==
  \A p \in Peers :
    LET q    == other(p)
        sent == transcript[q] \o (IF io[q] = "written" THEN <<ActiveMessage(q)>> ELSE << >>)
        held == IF io[p] = "received" THEN <<ActiveMessage(p)>> ELSE << >>
    IN  From(q, sent) = From(q, transcript[p] \o held \o in[p] \o FlattenSeq(net[p]))

\* A server that requires client authentication completes a full handshake
\* only after the client has proved possession of its key.
ClientCertRequired ==
  /\ cfg.server_auth = "required"
  /\ IsComplete("server")
  /\ "FULL_HANDSHAKE" \in handshake_type["server"]
  => \E i \in DOMAIN transcript["server"] :
       transcript["server"][i] = "CLIENT_CERT_VERIFY"

\* The peers agree on client authentication, and neither asks for more than the
\* other gives.
Compatible(c) ==
  LET full      == IF c.version = 12 THEN ~c.resume ELSE ~c.psk
      requested == c.server_auth # "none" /\ full
  IN  /\ requested => c.client_auth # "none"
      /\ full /\ ~requested => c.client_auth # "required"
      /\ requested /\ ~c.has_cert => c.client_auth = "optional" /\ c.server_auth = "optional"
      /\ c.version = 12 => c.early = "no"

\* Peers with compatible configurations complete the handshake, whichever
\* handlers the applications block and however records are coalesced.
HandshakeCompletes ==
  Compatible(cfg) ~> \A p \in Peers : IsComplete(p)
=============================================================================
