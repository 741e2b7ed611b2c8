# A verification project for s2n-tls

s2n-tls is a C implementation of the TLS protocols. This directory holds TLA+
models of the parts of it whose correctness depends on *sequences* of steps:
state machines driven by messages and by application calls, calls that block
half-way and are repeated, and the two threads (a reader and a writer) that may
use one connection at a time. TLC checks the models on small instances; TLAPS
proves the most important properties for every value of the parameters.

Cryptography is taken as perfect and reduced to what the control flow depends
on (which key, which sequence number, which message). Paths below are relative
to the repository.

## Inventory

| Component | State it keeps | Operations | Hard behaviour |
|---|---|---|---|
| **Stuffer and memory** `stuffer/s2n_stuffer.c`, `utils/s2n_mem.c` | blob (size, allocation), read and write cursor, high water mark, flags alloced / growable / tainted | alloc, resize, free, wipe, rewrite, reread, shift, reads, writes, raw reads and writes | sizes at `UINT32_MAX`; growth that moves memory under a raw pointer; secrets left beyond the high water mark |
| **Handshake state machine** `tls/s2n_handshake_io.c`, `tls/s2n_handshake_type.c` | handshake type (flags), message number, `handshake.io`, the record in `conn->in`, transcript, `paused` | `s2n_negotiate`, one handler per message, tables of message orders | the row of the table changes in the middle of the handshake; handlers blocked by callbacks; several messages in a record; HelloRequest at any time; middlebox compatibility and early data |
| **Post-handshake I/O** `tls/s2n_send.c`, `s2n_recv.c`, `s2n_post_handshake.c`, `s2n_key_update.c`, `s2n_server_new_session_ticket.c`, `s2n_alerts.c`, `s2n_shutdown.c` | traffic keys and sequence numbers, `conn->out`, `conn->in`, atomic flags (`key_update_pending`, `close_notify_received`, ...), closed flags, blinding | `s2n_send`, `s2n_recv`, `s2n_shutdown_send`, `s2n_shutdown`, `s2n_connection_request_key_update` | reader and writer thread share flags; every flush may block; key updates in both directions; half close; the end of the transport |
| **Send path in bytes** `tls/s2n_send.c`, `s2n_record_write.c` | `conn->out`, `current_user_data_consumed`, fragment length, dynamic record sizes | `s2n_send`, change of fragment length, release of buffers | partial writes; several records in the buffer; accounting over repeated calls; control messages between records |
| **Record reader** `tls/s2n_recv.c`, `s2n_record_read*.c` | `header_in`, `in` (a view), `buffer_in` (shared), `in_status`, `alert_in`, `post_handshake.in` | `s2n_read_full_record`, `s2n_recv`, `s2n_peek`, freeing and releasing buffers | short reads; read-ahead; views into memory that is shifted, grown and freed; alerts and messages split over records |
| **Negotiation** `tls/s2n_client_hello.c`, `s2n_server_hello*.c`, `s2n_cipher_suites.c`, `s2n_auth_selection.c`, `s2n_signature_algorithms.c`, `s2n_kem.c`, key share and version extensions | offered and chosen version, suite, group, scheme, certificate | hello, retry, server hello, signature scheme | both sides compute the same things apart, from two policies and two builds; a retry; a callback that swaps the policy |
| **Security policies** `tls/s2n_security_policies.c`, `s2n_cipher_preferences.c`, `s2n_security_rules.c` | constant tables and flags computed at `s2n_init` | init, lookup, rules | a wrong entry shows only under that policy |
| **Session resumption** `tls/s2n_resume.c`, session cache, `s2n_psk.c`, `s2n_server_new_session_ticket.c` | ticket keys with three life times, PSK list, cache, counters of tickets | add key, choose key, encrypt / decrypt ticket, offer and choose a PSK | keys expire between choice and use; chains of resumptions; a retry between offer and choice |
| **TLS1.3 key schedule, TLS1.2 keys** `tls/s2n_tls13_key_schedule.c`, `s2n_tls13_secrets.c`, `s2n_prf.c` | secrets, transcript digests, keys and sequence numbers of each direction | derive and install at given messages | order of derivations, with early data, retry, rejected early data still in flight |
| **Early data** `tls/s2n_early_data*.c` | early data state, byte counts | `s2n_send_early_data`, `s2n_recv_early_data`, the decision callback | limits counted on both sides, also for rejected data; skipping by trial decryption |
| **Key exchange** `tls/s2n_kex.c`, `s2n_server_key_exchange.c`, `s2n_client_key_exchange.c` | ephemeral keys, premaster secret, `rsa_failed` | RSA, DHE, ECDHE, hybrid with a KEM | what is signed; a decryption that fails silently |
| **Asynchronous private keys** `tls/s2n_async_pkey.c` | operation object, `handshake.async_state` | perform, apply, free, get / set of input and output | an operation that outlives its connection or is applied to the wrong one |
| **X.509 validation** `tls/s2n_x509_validator.c`, `s2n_crl.c` | validator state machine, CRL lookups, certificate callback | validate chain, stapled response | validation over several calls while the clock moves and callbacks answer later |
| **Random numbers, fork detection** `utils/s2n_random.c`, `utils/s2n_fork_detection.c`, `crypto/s2n_drbg.c` | thread-local DRBGs, fork generation number, sentinel page, entropy descriptor | `s2n_get_*_random_data`, `s2n_public_random`, set-up and clean-up | fork between two steps; threads that initialise at once; steps of the set-up that fail; a closed descriptor |
| **Renegotiation, kTLS, serialisation, QUIC, containers, crypto wrappers, fingerprinting, bindings** | see Not modelled | | |

How they interact: an application calls `s2n_negotiate` until it no longer
blocks; that runs the handshake state machine, which calls a handler per
message, derives keys and moves records through the send and receive paths. All
bytes live in stuffers. After the handshake `s2n_send` and `s2n_recv` may run
in two threads: the reader may ask for a key update (a flag the writer tests
before it writes a record), may queue a warning alert (TLS1.2) and may close the
connection; the writer flushes `conn->out`, sends KeyUpdates and tickets before
application data and finally a close_notify. Every random number of a handshake
comes from the generators of the calling thread, which are seeded anew in a
child process.

What makes the components correct, in one line each: a stuffer never reads or
writes outside its blob and never leaves payload where a wipe does not reach;
the peers of a handshake follow the same message order and hash the same
transcript; a nonce is never used twice and every record decrypts; the bytes of
an application arrive once, in order, and are acknowledged only when they have
been handed over; the end of data is never reported early; a shutdown ends;
what arrives is what was sent, however the transport cuts it; the peers agree on
everything they negotiate, within both policies; a session is resumed with the
secrets and for the time it was made for, and a full handshake follows where it
cannot be; early data is delivered whole or not at all; a handshake completes
only with the holder of a certificate that was validated; random bits are never
drawn from a generator that another process has too.

The hazards, each at the line where it bites and with the properties that cover
it, are listed in PROJECT.json.

## Modules

| Module | Models | Run by | Proofs |
|---|---|---|---|
| `Stuffer` | every stuffer operation on cursors, memory and ownership | `MCStuffer` | `StufferProofs` |
| `Duplex` | two TLS1.3 connections after the handshake, a reader and a writer thread each | `MCDuplex` | `DuplexProofs` |
| `Handshake` | client and server state machine, TLS1.2 and TLS1.3 | `MCHandshake` | `HandshakeProofs` |
| `SendStream` | abstract: what `s2n_send` promises | (refinement) | |
| `SendPath` | `s2n_send` in bytes, shown to implement `SendStream` | `MCSendPath` | `SendPathProofs` |
| `RecordReader` | the receiving side in bytes: records, buffers, alerts and messages | `MCRecordReader` | |
| `CipherSuites`, `CipherPreferences`, `SecurityPolicies` | the tables of suites, preferences and policies | (extended by `PolicyRules`) | |
| `PolicyRules` | lookup, `s2n_security_policies_init`, security and FIPS rules | `MCNegotiation` | `NegotiationProofs` |
| `Negotiation` | client and server from ClientHello to the signature scheme | `MCNegotiation` | `NegotiationProofs` |
| `Resumption` | ticket keys, tickets, cache, pre-shared keys, connections in sequence | `MCResumption` | `ResumptionProofs` |
| `KeySchedule` | secrets, transcript digests, keys of both versions | `MCSecureHandshake` | |
| `EarlyData` | state, decision and limits of early data; extends `KeySchedule` | `MCSecureHandshake` | |
| `SecureHandshake` | composition: two peers, records, keys, early data | `MCSecureHandshake` | |
| `AsyncPkey`, `KeyExchange`, `CertValidator` | private key operations; the four key exchanges; the validator | `MCAuthentication` | `AuthenticationProofs` |
| `Authentication` | composition: both peers with the application's callbacks | `MCAuthentication` | `AuthenticationProofs` |
| `Random` | generators, fork detection, entropy, set-up and clean-up | `MCRandom` | `RandomProofs` |

Operators named `Mut...`, `..._forgets_...` and the like, commented as mutants,
are deliberate errors: each replaces a definition to show that a
property notices.

### Stuffer

State: the fields of `struct s2n_stuffer` and `struct s2n_blob`; two ghost
variables, `residue` (offsets that still hold payload) and `raw` (memory to
which a raw pointer was handed out). One action per C function; a call that
fails leaves the stuffer as it was and is a stuttering step. Allocation may or may not
round up to pages (mlock). `MaxU32` stands for `UINT32_MAX`, so that overflow
happens in small instances.

### Duplex

Each connection has two program counters. The writer's names the call it is
about to make in `s2n_send`, `s2n_key_update_send`, `s2n_tls13_server_nst_send`,
`s2n_shutdown_send` or `s2n_shutdown`; between two of them the reader thread,
the peer and the transport may act. Atomic flags are read and cleared in
separate steps, as in the code (`TestKeyUpdatePending`, `WriteKeyUpdate`,
`ClearKeyUpdatePending`). `log[p]` is everything `p` has encrypted, with key
generation and sequence number; `flushed[p]` of it is on the wire and the peer
has read `rd[Other(p)]`. A record that does not decrypt closes the connection
and starts blinding (`RecvBadRecord`, `StartBlinding`, `BlindingElapses`).
`PeerAborts` (an error alert, which s2n-tls itself does not write in this
phase), `TransportClose` and records altered on the way (`Corruptible`) are
external. A record is read and written whole;
`SendPath` has the bytes. Left out: the user_canceled alert, which s2n-tls never
sends and which changes nothing (`RecordReader` reads it), and a write that
fails for good, which for the peer is a transport that ends.

### Handshake

`handshakes` and `tls13_handshakes` are the C tables of those names: the message
order of a handshake type (`TLS12Row`, `TLS13Row`). `TLS12Defined` and `TLS13Defined` say
which entries of the C tables are filled in; any other reads as a row of
CLIENT_HELLOs, as zero initialised memory does. A configuration fixes what is
negotiated (version, client authentication on each side, certificate, ticket,
NPN, OCSP, PSK, retry, early data); each peer sets its flags at the message at
which the code does. A handler may be blocked by an application callback
(`AsyncPeers`); `WITH_ERROR_BLINDING`, under which it is called, wipes `conn->in`
then too (`ReadBlocks`), and it is retried as `s2n_handle_retry_state` does. `io` is the
state of `handshake.io`, `in` what is left of the record, `transcript` what has
been hashed.

### SendPath

A byte of application data is its position in the stream. `log` is the history
of records with the positions they carry and their end in the bytes for the
transport; `conn->out` is what lies between `sent` and the end of `log`. The
transport takes any number of bytes, or none (`Blocked`, `PartialSend`). Call
lengths are free, also of a repeated call, so that the check for an invalid
retry is met. The overhead of a record varies below the maximum that
`s2n_record_max_write_size` allows for (padding, IV, tag). The request for a
KeyUpdate or for a warning alert may come at any step. Not in the model: the
tickets of a server (Duplex has them), early data, kernel TLS.

### RecordReader

A byte on the wire is (record, part, value), so that garbling, a wrong offset or
a stale view shows as a wrong byte. `buffer_in` is real memory with its cursors,
shifts, growth and tainted flag; `in` and `header_in` are as in the code. One
step per call of the transport, which returns any number of bytes, and one per
record parsed; between calls the application may release the buffers and switch
read-ahead (`s2n_connection_set_recv_buffering`). Errors outside
`WITH_ERROR_BLINDING` leave reading open and `in` as it is (`Fail`), the others
wipe `in` and close (`s2n_connection_apply_error_blinding`); after either the
application gives up, as `api/s2n.h` asks. `AllReceived` allows an error only
for what the peer did (an error alert, a message it may not send): a reader that loses its place gets a decryption error and violates it.
`s2n_connection_release_buffers` may free a message header that was read before
its body came; the step sets `beheaded`, and the properties then promise nothing
of messages (Observations).

### Policies and Negotiation

`CipherSuites`, `CipherPreferences` and `SecurityPolicies` hold the C tables
entry by entry, by the names of the C variables, with
`security_policy_selection` mapping the names applications use. A build says
which ciphers, RSA-PSS and KEMs libcrypto offers. `Negotiation` has one action
per message on each side; a path that strips `supported_versions` and a peer of
an older version are environments. `PolicyRules` has the binary search
over the suites and the flags computed at `s2n_init`.

### Resumption

Ticket keys are added by the application and pass through their life with the
clock (`Tick`). A plan is a sequence of connections with their settings; each
uses what the former ones left (cache, ticket, PSK). The server's
NewSessionTicket takes three steps (key and lifetime, encryption, sending) with
the clock moving in between. Encryption is perfect: a ticket is its content and
the name of its key. The configuration's keys are a set (its order decides
nothing); `Close` wipes both connections and loses what is under way.

### KeySchedule, EarlyData, SecureHandshake

A secret is a term: what it was derived from and over which transcript. A record
on the wire carries the key and sequence number it was written with and decrypts
only with the same. `s2n_handshake_write_io`, `Read` (a record, its handler and
`s2n_finish_read`) and the early data calls of both applications interleave
freely. What a record that fails to decrypt does (skipped, or closing) is
decided as in `s2n_early_data_is_trial_decryption_allowed`.

### AsyncPkey, KeyExchange, CertValidator, Authentication

Handlers follow the code up to the point where they block; the message stays and
the handler runs again. Private key operations live outside the connections
(`ops`) and can be performed, applied, applied again, applied to the other
connection or dropped at any time, also after a wipe. Signatures, digests and
ciphertexts are records of what they cover. libcrypto's chain building is
external and written from the checks the code sets up. Plans also contain a peer
that uses a key not its own and a message altered on its way.

### Random

One line of descent: a fork goes on in the child, since parent and child share
nothing the code uses. Each thread's call is divided at the lock operations and
at everything it reads or writes of the process. A platform says whether the
kernel clears the sentinel page, the libc runs fork handlers and the CPU has
RDRAND. Assumed of the application: no fork inside `s2n_init`; descriptors
are closed and the library is taken down only while no thread is in a call.

## Runs

The one marked ✗ shows a disagreement of the code with its documentation; see
Findings.

| Run | Checks | Shows |
|---|---|---|
| `stuffer` | Valid, ResidueBelowMark, RawPointerNotDangling | no sequence of calls breaks `s2n_stuffer_validate`, leaves payload unwiped or moves memory under a raw pointer |
| `duplex_keys` | NonceNeverReused, RecordLimit, RecordsDecrypt, RequestAnswered | key updates by limit, application and peer, with tickets: no nonce twice, all records decrypt; the race of reader and writer on `key_update_pending` loses no request |
| `duplex_shutdown` | ClosesOrderly, ShutdownReturnsEventually | shutdowns of both kinds, error alerts, altered records with their blinding delay, and a transport that ends; two applications that end with `s2n_shutdown` both get an answer |
| `handshake` | TranscriptsAgree, ClientCertRequired, PastUnchanged, RecordsComplete | three scenarios in one run: all configurations of both versions; handlers that block on both sides and a HelloRequest; a server that puts several messages into a record. Both peers follow the same row and hash the same transcript, and compatible peers complete |
| `handshake_retry` ✗ | MessagesConserved | a handler that blocks on a record with several messages: the rest are lost |
| `send` | StreamSafe, ImplementsStream, AllSent | TLS1.3 with several records per buffer and with a buffer smaller than a record, and an earlier version with one, split first record and no growth: `s2n_send` implements `SendStream`, and repeating the call gets everything sent |
| `reader` | ContentIntact, ViewIntact, AllReceived | records cut at any byte, six kinds of record protection, split alerts and messages: what was sent arrives, messages take effect before the data behind them, no view dangles, and no error comes that the peer did not cause |
| `negotiation` | Agreement, WithinPolicies, NoDowngrade, Connects | every policy against itself and many pairs, four builds, several certificates, older peers, a policy swapped by a callback, a meddling path |
| `resumption` | SecretsAgree, TicketSecretsUnique, TicketsLive, FallsBack | up to three connections while two ticket keys are added, rotate and expire; what is out of date ends in a full handshake |
| `early_data` | NonceOnce, EarlyDataAllOrNothing, SecretsAgree, KeysInStep | TLS1.3 with PSKs, retry and early data in flight, and TLS1.2 full and resumed: keys change at the same record on both ends |
| `authentication` | ChainTrusted, RevocationHonoured, PeerGenuine, OperationsSafe, DecryptionSilent, Concludes | five key exchanges, certificates that fail in one way each, callbacks that answer at once, inline, later, wrongly or never, wiped connections |
| `random` | SeededHere, ForkNoticedOnce, Available | two threads, two forks, failing set-up, closed descriptors, clean-up and a second set-up on three platforms: no two processes draw from the same seed |

A run asks several questions of one instance where the instance has the
interesting cases of all of them. Every property has a mutant in PROJECT.json: a
plausible error in the code under which TLC finds it violated. Two facts about
constants are assumptions that TLC evaluates at the start of a run:
`PolicyRules!TablesAssumption` (the tables of suites and policies pass the library's
own checks and are sorted, complete and consistent with the flags computed from them) and `MCRandom!Unbiased` (the
rejection of `s2n_public_random` leaves every result equally often).

### Bounds, and why they are enough

* **Stuffer**: `MaxU32` = 5, growth 2, page size 2. Every comparison in the
  code is between sums of two of these quantities; with 5 all of overflow,
  growth beyond the maximum, odd pages and shrinking happen. The proofs remove
  the bound.
* **Duplex**: a limit of 1 or 2 records per key makes key updates frequent. In
  `duplex_keys` the server sends three times, so that it reaches the limit,
  is asked for an update between two records and still has a ticket to send;
  the client sends once and asks once. Which sides may shut down, abort, ask
  or lose the transport is chosen per run to keep each within two minutes.
  Applications may stop calling s2n-tls, so deadlock is not checked. The
  proofs remove all bounds.
* **Handshake**: no bound but `MaxHelloRequests` = 1; every configuration of
  the negotiated features is an initial state (a setting no message depends on
  has one value: `Relevant`). Blocking handlers with a HelloRequest, and the
  scenario that checks liveness, take fewer combinations of optional
  messages (`FewOrdinary`, `FewCompatible`): an optional message is one more
  step of the same kind. A peer that coalesces messages meets a peer whose
  handlers block only in `handshake_retry`, because together they give that
  finding. A TLS1.2 client that requires client authentication and resumes is
  left out (`TLS12Ordinary`; see Observations).
* **SendPath**: four bytes, fragments of 1 and 3, overhead up to 2, a send
  buffer of 8 or 4: up to four records and a control record, of which two or
  three share the larger buffer, and records cut down to fit the smaller; every byte boundary can be a partial write. The proofs
  remove the bound.
* **RecordReader**: headers of 2 bytes and tags of 1; streams of two to five
  records chosen so that a record is larger than the buffer, is empty, padded,
  or split at each place; the buffer grows and shifts under them. Reads of
  1 and 3 bytes leave records half read.
* **Negotiation**: no bound on the tables, which are complete. Environments:
  each policy against itself with a TLS1.2 and a TLS1.3 server; sixteen policies
  that differ in kind in all pairs; six of them with four builds on each side,
  three sets of certificates, three client versions, and swaps to each of the six.
* **Resumption**: five seconds of time with key lives of 2 + 1, a session of 3
  and keying material of 3, so that each can be the first to end; two keys;
  fourteen plans that combine versions, suites, EMS, client authentication,
  retry and external keys.
* **SecureHandshake**: up to two records of early data, limits 0, 1, 2 and 4 and one
  byte of overhead, so that data fits, does not fit, and fits only
  without its overhead, also when it is rejected and skipped; two PSKs, three suites with two hashes.
* **Authentication**: time 0 or 1, so that a certificate, list or response can
  expire, or come into force, between two steps of a validation; one wipe.
* **Random**: two forks (a child and a grandchild), two threads, four calls,
  one other event (closing descriptors, ending a thread, custom callbacks,
  clean-up); `UINT64_MAX` is 15 for the bias of `s2n_public_random`, with
  bounds that divide 16 and bounds that do not.

### Fairness

* `Duplex!Fairness`: a thread in a call goes on (weak fairness of its steps);
  a socket becomes writable again and again, so a flush that is retried
  eventually succeeds (strong fairness of `s2n_flush`); the blinding delay
  passes; an application ends by calling `s2n_shutdown` until it is no longer
  blocked, and then closes its socket, which is what `api/s2n.h` asks of it.
  A transport that ends earlier (`Unreliable`) may do so and never must.
* `MCHandshake!MCSpec`: the application keeps calling `s2n_negotiate` (as
  documented) and answers its callbacks.
* `MCSendPath!MCFairSpec`: the thread goes on, the socket is writable again and
  again, and the application repeats its call with all that is left to send.
  Nothing is assumed of other calls it makes in between.
* `RecordReader!Spec`: the thread goes on; the transport has data again and
  again and the application calls `s2n_recv` again when blocked.
* `Negotiation!Spec`, `Resumption!FairSpec`: both sides go on; the ClientHello
  callback is answered. Neither the clock nor the rotation of keys is fair.
* `SecureHandshake!FairSpec`: the applications keep calling, as the usage guide
  asks (a server calls `s2n_recv_early_data` to the end), and an asynchronous
  decision is made. `Authentication!FairSpec`: likewise, and the
  application performs, applies or frees every operation and answers every
  callback, or gives the connection up.
* `Random!FairSpec`: some thread is scheduled, and not every number drawn
  is thrown away by the rejection loop. No fairness between threads: the lock
  is enough.

## Proofs

* `StufferProofs`: `StufferCorrect` (`Valid`), `WipeReachesPayload`
  (`ResidueBelowMark`) and `RawPointersValid` (`RawPointerNotDangling`), for every
  `MaxU32`, growth and page size. Inductive invariant `StufferInv`: the type
  invariant, the three and "a raw pointer is out only while the stuffer is
  tainted", without which resize could move memory under it.
* `DuplexProofs`: for every limit and bound, with the constants only assumed to be
  numbers and sets of peers (`DuplexAssumption`). The inductive invariant is
  `Inv == TypeOK /\ \A p : SenderInv(p) /\ ReadInv(p)`, where `SenderInv` joins
  `OutInv` (the output buffer is empty where a record is written), `NonceInv`
  (the nonces used increase and are below the next), `AlertInv` (after an alert
  the write side is closed and no send is under way), `LimitInv` (room for
  tickets at each program counter) and `ChainInv` (each record's nonce follows
  from the one before); `ReadInv` relates the reader to the peer's log. A step
  of one side is *passive* for what the other sends (`PassiveStep`), so each
  action is examined for its own side only.
  `TypeCorrect`, `StufferDrained`, `NoncesUnique`, `LimitKept`, and, from
  `AlertsLast` and `EndOfData`, `OrderlyClose` follow. `KeysInStep` (every record decrypts) adds `SyncInv` (the
  receiver is at the nonce of the next record) and `HalfInv`, and assumes
  `FullShutdown = {}`: `s2n_shutdown` drops KeyUpdates (Observations), and the
  theorem is false without the assumption. It also
  assumes that no record is altered (`Corruptible = {}`).
  `RequestsAnswered` (`RequestAnswered`) needs, for each request that the reader
  took: it is still in `key_update_pending`, or the writer is past its test with
  the one record it may write, or the KeyUpdate is encrypted and in the buffer
  before the flag was cleared (`clear_pending`, `update_flush`).
* `SendPathProofs`: for every amount of data, set of fragment lengths, overhead,
  send buffer and mode (`SendPathAssumption`: a configured send buffer is
  larger than the overhead, which `s2n_config_set_send_buffer_size` ensures with
  `S2N_MIN_SEND_BUFFER_SIZE`, and
  a control record fits into the smallest buffer). Inductive invariant `Inv`:
  `LogInv` (records follow each other, stated for pairs so that no induction is
  needed), `DoneInv` (which records the transport has), `AckInv` (acknowledged
  plus consumed bytes are the bytes written; at each program counter, what may
  still be acknowledged has been delivered) and `BufInv` (wherever a record is
  about to be written there is room for it). `TypeCorrect` follows, from
  `InOrder`, `AcksDelivered` and `RecordsFit` also `StreamIsSafe`, and `Refinement`: every step of
  `SendPath` is a step of `SendStream` or changes nothing there.
* `RandomProofs`, for any number of threads, calls, forks and events
  (`RandomAssumption`: the platform wipes the sentinel page on fork, runs fork
  handlers, or both; without either the code refuses to start). `Inv`: while a
  fork is unnoticed the generation number is exactly one behind the number of
  processes, otherwise equal (`Counted`); only a process whose threads are all
  outside the library's locks is forked (`ForkAlone`); and for each thread, at
  each point between lock operations, the number it remembers is not above the
  current one, and generators kept under the current number were seeded in this
  process (`ThreadInv`). `SeededInProcess` (`SeededHere`) and `ForksCounted`
  (`ForkNoticedOnce`) follow.
* `ResumptionProofs`, for any plan of connections, lifetimes and keys
  (`LifetimesAssumption`: `ticket_age_add` is below the modulus of the age, and
  the encrypt-decrypt life of a key is even, as every life in nanoseconds that
  the interface, which takes seconds, can set; `PlansAssumption`: the keys an
  application sets itself are external ones). `SecretsUnique`
  (`TicketSecretsUnique`) needs the nonces in use to be below the count of
  tickets sent. `LifetimesKept` (`TicketsLive`, an action property) needs that
  every TLS1.3 ticket anywhere is `Sound` - its life ends before that of its key
  material and that of the server's ticket key, and its key is still there while
  it lives - in the queue, the store, the client's and the hello's keys and the
  server's choice (`QueueSound`, `StoreSound`, `PsksSound`, `HelloSound`,
  `ChosenSound`), and the same of a ticket half written (`Writing`).
  `SecretsAgreed` (`SecretsAgree`) has an invariant of its own, `AgreeInv`: each
  session the client keeps, or finds in its hello, is what the server's ticket or
  cache entry says (`SessionsTrue`, `CacheTrue`, `Opening`, `HelloTrue`); while
  the server decides it goes by that hello (`Deciding`); once it has decided, its
  secret and suite are those of the session, key or fresh exchange that its
  answer names, and the client takes over the same (`Agreed12`, `Agreed13`). Two
  keys that the binder does not tell apart are the same key, because an
  application's key has a name and a key made of a ticket has none (`Pure`,
  `SameKey`). Assumed, beyond the above: a client that is asked to retry has at
  most two pre-shared keys (`RetriesShort`). It then offers the keys of one
  suite only, but looks up the server's index in the list of all: with two, the
  key there is the right one or one of another suite, which it refuses
  (`Misplaced`); with more it may take a wrong key of the right suite, and in the
  code the first record would fail to decrypt.
* `NegotiationProofs`, for any environments, that is any two policies of the
  tables, builds, certificates, DH parameters, callback and path
  (`EnvironmentsAssumption`: policies have a name in the table, the server speaks
  TLS1.2 or TLS1.3 and the client TLS1.0 to TLS1.3). `Agreement`, `WithinPolicies` and
  `NoDowngrade` speak of the last state; the inductive invariant `Inv` says for
  every state in between what is settled: either side has failed, or the records
  have the `Shape` of connections and `Turns` (whose turn it is, and that the
  message under way is what its sender's record says), `ClientFacts` (the offer,
  and the groups kept from a retry), `VersionFacts` (how far the server is with
  the version, and what it takes for the client's), `GroupFacts` (a hybrid group
  exactly when both have one), `ChoiceFacts`
  (suite and scheme, of the server's own policy) and `AnswerFacts` (what the client
  took over). The entries of the tables are never expanded: the proof uses what
  `TablesAssumption` says of every policy. Theorems: `InvHolds`,
  `AgreementHolds`, `WithinPoliciesHolds`, `NoDowngradeHolds`.
* `HandshakeProofs`, for any configurations, peers that block and peers that
  put several messages into a record (`ConfigsAssumption`): a server that
  requires client authentication completes a full handshake only after a
  CertificateVerify (`ClientCertIsRequired`, `ClientCertRequired`). `Inv`
  (`ServerInRow`): such a server is `Fresh`, at its first ClientHello, or
  `Settled`: its type is `ServerType`, which is settled by the configuration
  and given by every ClientHello, it is inside the row of that type, and if
  CLIENT_CERT_VERIFY is behind it the message is in the transcript. `Held` keeps
  the retry of a blocked handler to the message it blocked on: without it a
  retry could mark an empty Certificate as accepted or advance past the row. The
  lemmas on rows (`WholeRow12`, `WholeRow13`) say that application data is
  the last entry and that CLIENT_CERT_VERIFY is among the others.
  `PastIsUnchanged` (`PastUnchanged`), for both peers: a new handshake type has a
  row and agrees with the old one on the messages that are over. It assumes
  `Ordinary`, that no client with required client authentication resumes a TLS1.2
  session: that type has no row, and the property is false there (Observations).
  `PastInv` (`PastInvHolds`): a peer is `Undecided`, with the type it has before
  the hellos settle one, or `Decided`: the type suits its configuration
  (`Suits`), has a row, and the peer is inside it, past the hellos that its type
  depends on (`FarEnough`); a handler that waits is one of those that may
  (`Waiting`); and a HelloRetryRequest is on its way only if the key share needs
  one. A new type is compared with the old through what their rows have in
  common: each row is shown to be a beginning, which the changed flags do not
  affect, followed by messages other than the one at hand (`Grown`), so that
  a peer at that message is within the beginning (`GrownIn`, `GrownAgree`).
* `AuthenticationProofs`, for the validator: `Validation`, what one call of
  `s2n_x509_validator_validate_cert_chain` leaves behind in whatever state the
  calls before it left the validator: `Settings` (the configuration),
  `Progress` (what each state stands for: the name, policy and depth checks
  after the first stages, an anchored path without revoked certificates once
  validated), `Called` and `Accepted` (the callback). The chain builder is
  compared with `Anchored`, which is defined without one. Assumed: times are
  integers (`TimesAssumption`).
* `AuthenticationProofs`, for the composition: all five invariants of
  `Authentication`, for any set of plans, that is any chains, trust stores,
  revocation lists, staples, key exchange methods and uses of the keys
  (`PlansAssumption`: a plan is one of a configuration that the library
  accepts; a server has a chain; a message is altered where it is sent; no
  certificate holds one of the names that stand for "another key"). The
  inductive invariant `Inv` has these parts:
  `Aligned` (each peer's transcript is the other's, except what was altered on
  the way, as far as both have got, and the wire holds the rest), `Written` (what
  a peer sent is what its handlers write), `Waiting` (an operation is asked for
  by the one handler of the flow that needs it and its result is taken once),
  `Held` (the operations the application holds, performed or not, were asked for
  by these connections, now or before a wipe), `Silent` (an RSA secret that did
  not decrypt stays on record until the Finished message), `Verified` and
  `Agreed` (signatures and shares that were taken), `Finishes` (a Finished
  message vouches for the secret and for all before it) and `Judged` (the
  validator inside the connection, over the times of its calls).
  `NextMoves` shows every action to be of one of twelve kinds (`Quits`, `Speaks`,
  `Signs`, `Asks`, `Reads`, `SharesKey`, `Decrypts`, `Applies`, `Works`,
  `Examines`, `Restarts`, `Ticks`), and each part is shown to survive the kinds
  rather than the actions. The flow of messages depends on the plan; that it is
  in order, holds what it should and each message once is proved by giving each
  message a place (`FlowInOrder`).
  `PeersAreGenuine`, `ChainsAreTrusted`, `RevocationIsHonoured`,
  `OperationsAreSafe` and `DecryptionIsSilent` follow.

Induction: the library's induction theorems cannot be applied with these provers,
but that every non-empty set of numbers has a least one (`LeastNumber`) follows
from its theorems on well-founded relations, and takes their place. The chain
builder's recursive function is shown to exist, and its result to be a path, that
way. `RECURSIVE` operators remain out of reach.

Only model-checked:

* liveness, `Concludes`, `Connects` and the others under fairness: outside of the prover;
* `Handshake`: `TranscriptsAgree` compares the transcripts of two state machines
  driven by tables, which may follow different rows until the last message;
  `SecureHandshake`: the same with secrets; `RecordReader`: the contents of
  buffers;
* `Resumption!SecretsAgree` for a retry with three or more keys (above);
* the tables of suites and policies: they are constants, and TLC's evaluation of
  `TablesAssumption` is complete for them.

The SMT backend's encoding of sequences has the axiom that `DOMAIN s = 1..n` and
`Len(s) = n` are equivalent; one direction of it holds for sequences only. No
proof here rests on that direction: each one is also found with it removed, and
a step that concludes `Len` from `DOMAIN` first shows that it has a sequence.

## Findings

`handshake_retry`: a handler that is blocked loses the messages behind its own in
the same record. It runs under `WITH_ERROR_BLINDING`
(`tls/s2n_handshake_io.c:1542`), and `s2n_connection_apply_error_blinding` wipes
`conn->in` (`tls/s2n_connection.c:1321`) before it finds that the error is a
blocked one, which "should trigger no further action" (1331). The retry's
`s2n_record_wipe` (`tls/s2n_handshake_io.c:1572`) would drop them too.

## Observations

What the modelling showed besides, without a run of its own. The properties
leave these cases out by name, or are stated as what the code does.

Post-handshake:

* `s2n_shutdown` discards a KeyUpdate without replacing the key
  (`tls/s2n_shutdown.c:131`); if the peer sends anything more, also its
  close_notify, shutdown fails with a decryption error though both peers
  conform (`api/s2n.h:2321`, `docs/usage-guide/topics/ch07-io.md:190`).
* After an error alert `s2n_shutdown` returns success without any close_notify
  (`tls/s2n_shutdown.c:120`; `api/s2n.h:2320`).
* Tickets are counted but not checked against the record limit, so the check in
  `tls/s2n_key_update.c:143` can trigger above the limit, where its comment says
  "should always trigger on ==". The `>=` makes it harmless; `RecordLimit`
  states the bound that holds.
* `s2n_send` returns blocked, not the bytes sent, if the KeyUpdate between two
  records is blocked (`tls/s2n_send.c:214`; `docs/usage-guide/topics/ch07-io.md`
  says that it returns the bytes sent). Nothing is lost: the repeated call
  counts the bytes.

* `s2n_connection_release_buffers` between the header of a post-handshake message
  and its body, when a record ends just there: the header has been read, so
  `post_handshake.in` counts as consumed (`tls/s2n_connection.c:419`) and is freed,
  and the body is taken for a header. The unit test says "Fails to release if in
  use" (`tests/unit/s2n_connection_test.c:826`) and `tls/s2n_post_handshake.c:62`
  "We store the partial message in conn->post_handshake.in between calls".
  Without the exception for `beheaded`, `ContentIntact` is violated. When the
  test at 419 fails, `buffer_in` has been freed already (416).

Handshake:

* A TLS1.2 client that requires client authentication selects a handshake type
  without a row when the session is resumed (`tls/s2n_handshake_io.c:1032`,
  `docs/usage-guide/topics/ch11-resumption.md:14`).
* A HelloRequest where CertificateStatus is expected is not ignored: it clears
  `OCSP_STATUS` first (`tls/s2n_handshake_io.c:1513`, comment at 1521).

Resumption and early data:

* Early data with an application protocol is never accepted: the protocol is
  stored in a ticket or PSK without a terminator (`tls/s2n_resume.c:133`, 357),
  `tls/s2n_early_data.c:98` compares its size with one that counts it, and the
  client (`s2n_client_early_data_indication.c:83`) looks it up without. A PSK
  stored with a terminator passes the server's check and fails the client's.
* After a HelloRetryRequest the client leaves out PSKs of another hash
  (`s2n_client_psk.c:158`), but the index the server returns is looked up in the
  whole list (`s2n_server_psk.c:81`).
* After a retry a ticket that was accepted for the first hello may have expired
  for the second; the suite then changes and the client aborts, where the
  comment at `s2n_client_psk.c:400` expects a full handshake.
* `s2n_generate_ticket_lifetime` looks at any chosen PSK
  (`s2n_server_new_session_ticket.c:103`): a connection made with an external one,
  which has no expiration, issues no tickets.
* A TLS1.2 session resumed with a ticket issues no new one, also when the
  ticket's key is decrypt-only (`tls/s2n_handshake_io.c:1049`; `api/s2n.h:1273`
  says that one is issued). A resumed TLS1.2 session logs no key.
* A server in `s2n_recv_early_data` that rejected early data counts the records it
  skips against its own limit, which is 0 if the client's ticket cannot be used,
  and fails the handshake when they exceed it (`tls/s2n_handshake_io.c:1425`,
  `s2n_early_data_io.c:99`), where `api/s2n.h:3648` describes rejection as a status
  of a connection that goes on. It counts ciphertext against a limit on
  plaintext; a server in `s2n_negotiate` does not count them at all.
  `SkippedBeyondLimit` names this case for `KeysInStep`; skipped data within the
  limit must not fail.

Authentication:

* An asynchronous operation applied after its connection was wiped and is in
  use again passes the checks, if the new use waits for an operation too
  (`tls/s2n_async_pkey.c:325`); strict validation or the peer catches the result.
* A client that skips verification and gets a stapled response is left in
  `OCSP_VALIDATED` (`tls/s2n_x509_validator.c:846`), which the test at
  `tls/s2n_connection.c:1550` takes for a validated chain.

Random numbers:

* A fork while another thread holds `fork_detection_rw_lock`: the child hangs in
  the fork handler (there is no prepare handler), or at its first call.
* After an `s2n_init` that fails only in fork detection, a second one succeeds,
  because the generators are set up, and every call for random data then
  fails; the entropy descriptor is opened again without closing the old.
* `s2n_init_drbgs` that fails half way leaves a generator behind: the
  next attempt overwrites its context, and a thread that ends then does not wipe
  it (the exception in `ExitedWiped`).
* `s2n_dev_urandom` has no lock, and a descriptor closed while a thread is in the
  read loop makes that loop go on for ever (`utils/s2n_random.c:408`).
* If `s2n_cleanup_final` fails after `s2n_rand_cleanup` it can never succeed.

## Plan

The models of the plan are written; the work left is proofs, in this order.

1. `SecureHandshake`: `NonceOnce`, from "the sequence number of a key in use is
   above every one on the wire".
2. `Handshake`: `TranscriptsAgree`; `PastInv` is the first part of the invariant
   it needs.
3. `RecordReader`: `ContentIntact` and `ViewIntact`; the abstract
   specification is a FIFO of bytes.

## Not modelled, and why

* **Cryptographic primitives and the bytes of derived keys** are functions out of
  TLC's reach; secrets, digests and signatures are terms here.
* **Encodings** of messages, extensions, tickets and serialised state: what is
  decided from them is modelled where it is decided, the layout is not. SSLv2
  hellos are an encoding.
* **Renegotiation** wipes a connection in the middle and runs the handshake
  again; a model would be a composition of `Handshake`, `SendPath` and
  `RecordReader` beyond what TLC explores.
* **Kernel TLS** and **QUIC mode** replace the record layer by something of which
  this repository has only the calls.
* **Connection serialisation** copies parameters of a finished connection.
* **Containers, setters and getters, fingerprints, error strings**: sequential
  code without protocol state, within the reach of unit tests.
* **PSK selection callbacks, ticket callbacks, early data context, SNI and ALPN
  values**: data handed through to the application.
* **Times** of blinding, back-off and constant-time code.
* The Rust bindings, tests and command line tools are users of the library.
