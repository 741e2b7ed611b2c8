---------------------------- MODULE DuplexProofs ----------------------------
(* Proofs about Duplex, for every value of its constants.                  *)
EXTENDS Duplex, TLAPS

\* The two ends of the connection.
LEMMA OtherPeer ==
  \A p \in Peers : Other(p) \in Peers /\ Other(p) # p /\ Other(Other(p)) = p
BY DEF Peers, Other

\* The initial states are well typed.
LEMMA TypeInit == Init => TypeOK
BY DuplexAssumption DEF Init, TypeOK, Peers, Bit, WriterPC, ReaderPC

\* What the steps that count or append need.
LEMMA Counting ==
  ASSUME TypeOK, NEW p \in Peers
  PROVE  /\ rd[p] + 1 \in Nat /\ send_key[p] + 1 \in Nat /\ send_seq[p] + 1 \in Nat
         /\ recv_key[p] + 1 \in Nat /\ recv_seq[p] + 1 \in Nat
         /\ messages[p] + 1 \in Nat /\ requests[p] + 1 \in Nat
         /\ tickets[p] > 0 => tickets[p] - 1 \in Nat
         /\ Len(log[p]) \in Nat /\ Len(log[p]) + 1 \in Nat /\ Len(log[p]) \in Int
<1>1. \A f \in [Peers -> Nat] : f[p] + 1 \in Nat /\ (f[p] > 0 => f[p] - 1 \in Nat)
  OBVIOUS
<1>2. Len(log[p]) \in Nat
  BY DEF TypeOK
<1>3. Len(log[p]) + 1 \in Nat /\ Len(log[p]) \in Int
  BY <1>2
<1> QED
  BY <1>1, <1>2, <1>3 DEF TypeOK

\* A record encrypted under the current key is a record.
LEMMA Appending ==
  ASSUME TypeOK, NEW p \in Peers, NEW type \in Types
  PROVE  Append(log[p], [type |-> type, key |-> send_key[p], seq |-> send_seq[p]]) \in Seq(Record)
<1>1. log[p] \in Seq(Record) /\ send_key[p] \in Nat /\ send_seq[p] \in Nat
  BY DEF TypeOK
<1>2. [type |-> type, key |-> send_key[p], seq |-> send_seq[p]] \in Record
  BY <1>1 DEF Record
<1> QED
  BY <1>1, <1>2

\* Every step of either connection keeps every variable's type.
LEMMA TypeStep == TypeOK /\ [Next]_vars => TypeOK'
<1>0. SUFFICES ASSUME TypeOK, [Next]_vars PROVE TypeOK'
  OBVIOUS
<1>1. TypeOK
  BY <1>0
<1>2. CASE UNCHANGED vars
  BY <1>1, <1>2 DEF vars, TypeOK, Bit, WriterPC, ReaderPC, keys, wire, closes, sender, threads,
     outcomes
<1>3. ASSUME NEW p \in Peers, Writer(p) PROVE TypeOK'
  <2> USE <1>1, Counting DEF TypeOK, Bit, WriterPC, ReaderPC, At, Goto, keys, wire, closes, sender, threads, outcomes
  <2>1. CASE s2n_flush(p)
    BY <2>1 DEF s2n_flush, AfterFlush, Acknowledges, Flushing
  <2>2. CASE s2n_flush_blocked(p)
    BY <2>2 DEF s2n_flush_blocked, Flushing
  <2>3. CASE s2n_check_record_limit(p)
    BY <2>3 DEF s2n_check_record_limit
  <2>4. CASE TestKeyUpdatePending(p)
    BY <2>4 DEF TestKeyUpdatePending
  <2>5. CASE WriteKeyUpdate(p)
    <3>1. PICK type \in KeyUpdateTypes(p) : record_write(p, type)
      BY <2>5 DEF WriteKeyUpdate
    <3>2. type \in Types
      BY DEF KeyUpdateTypes, Types
    <3> QED
      BY <2>5, <3>1, <3>2, Appending DEF WriteKeyUpdate, record_write, update_sending_keys
  <2>6. CASE ClearKeyUpdatePending(p)
    BY <2>6 DEF ClearKeyUpdatePending
  <2>7. CASE NstWrite(p)
    BY <2>7, Appending DEF NstWrite, Types, record_write, increment_sequence_number, TicketsLeft
  <2>8. CASE NstDone(p)
    BY <2>8 DEF NstDone
  <2>9. CASE NstExpired(p)
    BY <2>9 DEF NstExpired
  <2>10. CASE WriteData(p)
    BY <2>10, Appending DEF WriteData, Types, record_write, increment_sequence_number
  <2>11. CASE WriteAlert(p)
    BY <2>11, Appending DEF WriteAlert, Types, record_write, increment_sequence_number
  <2>12. CASE SkipAlert(p)
    BY <2>12 DEF SkipAlert
  <2>13. CASE ShutdownPaused(p)
    BY <2>13 DEF ShutdownPaused
  <2>14. CASE ShutdownSent(p)
    BY <2>14 DEF ShutdownSent
  <2>15. CASE ShutdownExpects(p)
    BY <2>15 DEF ShutdownExpects
  <2>16. CASE ShutdownCloses(p)
    BY <2>16 DEF ShutdownCloses, set_closed, ShutdownReturns
  <2> QED
    BY <1>3, <2>1, <2>2, <2>3, <2>4, <2>5, <2>6, <2>7, <2>8, <2>9, <2>10, <2>11, <2>12, <2>13,
       <2>14, <2>15, <2>16 DEF Writer
<1>4. ASSUME NEW p \in Peers, Drain(p) PROVE TypeOK'
  <2> USE <1>1, Counting DEF TypeOK, Bit, WriterPC, ReaderPC, At, Goto, keys, wire, closes, sender, threads, outcomes
  <2>1. CASE DrainDrop(p)
    BY <2>1 DEF DrainDrop, read_full_record, count_record
  <2>2. CASE DrainCloseNotify(p)
    BY <2>2 DEF DrainCloseNotify, read_full_record, count_record, set_close_notify
  <2>3. CASE DrainErrorAlert(p)
    BY <2>3 DEF DrainErrorAlert, read_full_record, count_record, set_closed, ShutdownReturns
  <2>4. CASE DrainBadRecord(p)
    BY <2>4 DEF DrainBadRecord, set_closed, ShutdownReturns
  <2>5. CASE DrainTransportEnd(p)
    BY <2>5 DEF DrainTransportEnd, ShutdownReturns
  <2>6. CASE DrainBlocked(p)
    BY <2>6 DEF DrainBlocked
  <2>7. CASE DrainDone(p)
    BY <2>7 DEF DrainDone, ShutdownReturns
  <2> QED
    BY <1>4, <2>1, <2>2, <2>3, <2>4, <2>5, <2>6, <2>7 DEF Drain
<1>5. ASSUME NEW p \in Peers, Reader(p) PROVE TypeOK'
  <2> USE <1>1, Counting DEF TypeOK, Bit, WriterPC, ReaderPC, At, Goto, keys, wire, closes, sender, threads, outcomes
  <2>1. CASE RecvData(p)
    BY <2>1 DEF RecvData, read_full_record, count_record
  <2>2. CASE s2n_key_update_recv(p)
    <3>1. [flushed |-> flushed[p], written |-> Len(log[p])] \in [flushed : Nat, written : Int]
      OBVIOUS
    <3>2. CASE NextRecord(p).type = "update_requested"
      <4>1. request \in [Peers -> [flushed : Nat, written : Int]] /\ key_update_pending \in [Peers -> Bit]
        OBVIOUS
      <4>2. /\ request' = [request EXCEPT ![p] = [flushed |-> flushed[p], written |-> Len(log[p])]]
            /\ key_update_pending' = [key_update_pending EXCEPT ![p] = 1]
        BY <2>2, <3>2 DEF s2n_key_update_recv
      <4>3. request' \in [Peers -> [flushed : Nat, written : Int]]
        BY <3>1, <4>1, <4>2
      <4> QED
        BY <2>2, <3>2, <4>2, <4>3 DEF s2n_key_update_recv, read_full_record,
           update_receiving_keys
    <3>3. CASE NextRecord(p).type # "update_requested"
      BY <2>2, <3>3 DEF s2n_key_update_recv, read_full_record, update_receiving_keys
    <3> QED
      BY <3>2, <3>3
  <2>3. CASE RecvCloseNotify(p)
    BY <2>3 DEF RecvCloseNotify, read_full_record, count_record, set_close_notify
  <2>4. CASE RecvErrorAlert(p)
    BY <2>4 DEF RecvErrorAlert, read_full_record, count_record, set_closed
  <2>5. CASE FlagErrorAlert(p)
    BY <2>5 DEF FlagErrorAlert
  <2>6. CASE RecvBadRecord(p)
    BY <2>6 DEF RecvBadRecord, set_closed
  <2>7. CASE StartBlinding(p)
    BY <2>7 DEF StartBlinding
  <2>8. CASE RecvTransportEnd(p)
    BY <2>8 DEF RecvTransportEnd
  <2>9. CASE RecvReturnsZero(p)
    BY <2>9 DEF RecvReturnsZero
  <2> QED
    BY <1>5, <2>1, <2>2, <2>3, <2>4, <2>5, <2>6, <2>7, <2>8, <2>9 DEF Reader
<1>6. ASSUME NEW p \in Peers, Application(p) PROVE TypeOK'
  <2> USE <1>1, Counting DEF TypeOK, Bit, WriterPC, ReaderPC, At, Goto, keys, wire, closes, sender, threads, outcomes
  <2>1. CASE SendStart(p)
    BY <2>1 DEF SendStart
  <2>2. CASE s2n_connection_request_key_update(p)
    BY <2>2 DEF s2n_connection_request_key_update
  <2>3. ASSUME NEW full \in Bit, ShutdownStart(p, full) PROVE TypeOK'
    BY <2>3 DEF ShutdownStart
  <2> QED
    BY <1>6, <2>1, <2>2, <2>3 DEF Application
<1>7. ASSUME NEW p \in Peers, Environment(p) PROVE TypeOK'
  <2> USE <1>1, Counting DEF TypeOK, Bit, WriterPC, ReaderPC, At, Goto, keys, wire, closes, sender, threads, outcomes
  <2>1. CASE PeerAborts(p)
    BY <2>1, Appending DEF PeerAborts, Types, increment_sequence_number
  <2>2. CASE BlindingElapses(p)
    BY <2>2 DEF BlindingElapses
  <2>3. CASE TransportClose(p)
    BY <2>3 DEF TransportClose
  <2> QED
    BY <1>7, <2>1, <2>2, <2>3 DEF Environment
<1> QED
  BY <1>0, <1>2, <1>3, <1>4, <1>5, <1>6, <1>7 DEF Next
-----------------------------------------------------------------------------
(* The inductive invariant, one part per question.                         *)

Alerts == {"close_notify", "error_alert"}

\* Where s2n_send is, and where s2n_shutdown_send is.
SendPC     == {"send_flush", "check_limit", "test_pending", "write_update", "clear_pending",
               "update_flush", "nst_send", "nst_flush", "write_data", "data_flush"}
ShutdownPC == {"shutdown_flush", "write_alert", "alert_flush", "expect", "drain"}

\* The nonce of record i, and beyond the last record the next one to be used.
Nonce(p, i) == IF i <= Len(log[p]) THEN [key |-> log[p][i].key, seq |-> log[p][i].seq]
                                   ELSE [key |-> send_key[p], seq |-> send_seq[p]]

\* The nonce that follows record r.
After(r) == IF r.type \in Updates THEN [key |-> r.key + 1, seq |-> 0]
                                  ELSE [key |-> r.key, seq |-> r.seq + 1]

OutInv(p) ==
  /\ flushed[p] <= Len(log[p])
  /\ wpc[p] \in Writing => flushed[p] = Len(log[p])

NonceInv(p) ==
  /\ \A i \in 1..Len(log[p]) : Before(log[p][i], [key |-> send_key[p], seq |-> send_seq[p]])
  /\ \A i, j \in 1..Len(log[p]) : i < j => Before(log[p][i], log[p][j])

AlertInv(p) ==
  /\ alert_sent[p] = 1 => write_closed[p] = 1 /\ wpc[p] \notin SendPC
  /\ wpc[p] \in ShutdownPC => write_closed[p] = 1
  /\ alert_sent[p] = 0 => \A i \in 1..Len(log[p]) : log[p][i].type \notin Alerts
  /\ \A i \in 1..Len(log[p]) : log[p][i].type \in Alerts => i = Len(log[p])

LimitInv(p) ==
  /\ tickets[p] <= MaxTickets
  /\ alert_sent[p] = 0 => send_seq[p] <= EncryptionLimit + MaxTickets
  /\ wpc[p] = "test_pending" /\ send_seq[p] >= EncryptionLimit => key_update_pending[p] = 1
  /\ wpc[p] \in {"clear_pending", "update_flush"} => send_seq[p] = 0
  /\ wpc[p] \in {"nst_send", "nst_flush"} => send_seq[p] + tickets[p] < EncryptionLimit + MaxTickets
  /\ wpc[p] = "write_data" => send_seq[p] < EncryptionLimit + MaxTickets
  /\ \A i \in 1..Len(log[p]) : log[p][i].seq <= EncryptionLimit + MaxTickets

\* What p has read of its peer's records.
ReadInv(p) ==
  /\ rd[p] <= flushed[Other(p)]
  /\ close_notify_received[p] = 1 => rd[p] = Len(log[Other(p)]) /\ alert_sent[Other(p)] = 1
  /\ eof[p] = 1 => close_notify_received[p] = 1

\* Sender and receiver step through the same nonces.
ChainInv(p) ==
  /\ Nonce(p, 1) = [key |-> 0, seq |-> 0]
  /\ \A i \in 1..Len(log[p]) : Nonce(p, i + 1) = After(log[p][i])
SyncInv(p) == [key |-> recv_key[p], seq |-> recv_seq[p]] = Nonce(Other(p), rd[p] + 1)
\* Nobody is in s2n_shutdown, which drops the peer's KeyUpdates.
HalfInv(p) == in_shutdown[p] = 0 /\ wpc[p] # "drain"

\* A step that leaves what q sends alone, but for abandoning a call (wpc to
\* "idle"), closing the connection or asking for a key update.
Passive(q) ==
  /\ log'[q] = log[q] /\ flushed'[q] = flushed[q]
  /\ send_key'[q] = send_key[q] /\ send_seq'[q] = send_seq[q]
  /\ tickets'[q] = tickets[q] /\ alert_sent'[q] = alert_sent[q]
  /\ wpc'[q] \in {wpc[q], "idle"}
  /\ write_closed'[q] = write_closed[q] \/ write_closed'[q] = 1
  /\ key_update_pending'[q] = key_update_pending[q] \/ key_update_pending'[q] = 1

\* A step in which q encrypts a record.
Writes(q, type) ==
  /\ log'[q] = Append(log[q], [type |-> type, key |-> send_key[q], seq |-> send_seq[q]])
  /\ IF type \in Updates THEN send_key'[q] = send_key[q] + 1 /\ send_seq'[q] = 0
                         ELSE send_key'[q] = send_key[q] /\ send_seq'[q] = send_seq[q] + 1

SenderInv(q) == OutInv(q) /\ NonceInv(q) /\ AlertInv(q) /\ LimitInv(q) /\ ChainInv(q)

\* A passive step preserves everything said of what q sends.
LEMMA PassiveStep ==
  ASSUME TypeOK, TypeOK', NEW q \in Peers, SenderInv(q), Passive(q)
  PROVE  SenderInv(q)'
<1> USE DEF Passive, SenderInv
<1>1. OutInv(q)'
  BY DEF OutInv, Writing
<1>2. NonceInv(q)'
  BY DEF NonceInv
<1>3. AlertInv(q)'
  BY DEF AlertInv, SendPC, ShutdownPC, TypeOK, Bit
<1>4. LimitInv(q)'
  BY DEF LimitInv
<1>5. ChainInv(q)'
  BY DEF ChainInv, Nonce
<1> QED
  BY <1>1, <1>2, <1>3, <1>4, <1>5

\* The log after a record has been written.
LEMMA Written ==
  ASSUME TypeOK, NEW q \in Peers, NEW type \in Types, Writes(q, type)
  PROVE  /\ Len(log[q]) \in Nat /\ Len(log'[q]) = Len(log[q]) + 1
         /\ \A i \in 1..Len(log[q]) : log'[q][i] = log[q][i]
         /\ log'[q][Len(log[q]) + 1] = [type |-> type, key |-> send_key[q], seq |-> send_seq[q]]
<1>1. log[q] \in Seq(Record) /\ send_key[q] \in Nat /\ send_seq[q] \in Nat
  BY DEF TypeOK
<1> QED
  BY <1>1, Appending DEF Writes, Record

\* Writing a record keeps the nonces distinct and consecutive.
LEMMA WriteStep ==
  ASSUME TypeOK, TypeOK', NEW q \in Peers, NEW type \in Types, SenderInv(q), Writes(q, type)
  PROVE  NonceInv(q)' /\ ChainInv(q)'
<1> PICK n : n = Len(log[q])
  OBVIOUS
<1> DEFINE r == [type |-> type, key |-> send_key[q], seq |-> send_seq[q]]
<1>0. /\ n \in Nat /\ Len(log'[q]) = n + 1 /\ log'[q][n + 1] = r
      /\ \A i \in 1..n : log'[q][i] = log[q][i]
  BY Written
<1>1. /\ send_key[q] \in Nat /\ send_seq[q] \in Nat /\ send_key'[q] \in Nat /\ send_seq'[q] \in Nat
      /\ \A i \in 1..n : log[q][i] \in Record
  BY DEF TypeOK
<1>2. r.key = send_key[q] /\ r.seq = send_seq[q] /\ r.type = type
  OBVIOUS
<1> HIDE DEF r
<1>3. [key |-> send_key'[q], seq |-> send_seq'[q]] = After(r)
  BY <1>1, <1>2 DEF After, Writes
<1>4. Before(r, [key |-> send_key'[q], seq |-> send_seq'[q]])
  BY <1>1, <1>2 DEF Before, Writes
<1>5. ASSUME NEW i \in 1..n
      PROVE  /\ Before(log[q][i], r)
             /\ Before(log[q][i], [key |-> send_key'[q], seq |-> send_seq'[q]])
  <2>1. Before(log[q][i], [key |-> send_key[q], seq |-> send_seq[q]])
    BY <1>5 DEF SenderInv, NonceInv
  <2>2. log[q][i].key \in Nat /\ log[q][i].seq \in Nat
    BY <1>1, <1>5 DEF Record
  <2>3. Before(log[q][i], r)
    BY <1>1, <1>2, <2>1 DEF Before
  <2>4. \/ send_key'[q] = send_key[q] + 1
        \/ send_key'[q] = send_key[q] /\ send_seq'[q] = send_seq[q] + 1
    BY DEF Writes
  <2>5. Before(log[q][i], [key |-> send_key'[q], seq |-> send_seq'[q]])
    BY <1>1, <2>1, <2>2, <2>4 DEF Before
  <2> QED
    BY <2>3, <2>5
<1>6. NonceInv(q)'
  <2>1. ASSUME NEW i \in 1..(n + 1)
        PROVE  Before(log'[q][i], [key |-> send_key'[q], seq |-> send_seq'[q]])
    <3>1. CASE i = n + 1
      BY <1>0, <1>4, <3>1
    <3>2. CASE i \in 1..n
      BY <1>0, <1>5, <3>2
    <3> QED
      BY <1>0, <3>1, <3>2
  <2>2. ASSUME NEW i \in 1..(n + 1), NEW j \in 1..(n + 1), i < j
        PROVE  Before(log'[q][i], log'[q][j])
    <3>1. i \in 1..n
      BY <1>0, <2>2
    <3>2. CASE j = n + 1
      BY <1>0, <1>5, <3>1, <3>2
    <3>3. CASE j \in 1..n
      BY <1>0, <2>2, <3>1, <3>3 DEF SenderInv, NonceInv
    <3> QED
      BY <1>0, <3>2, <3>3
  <2> QED
    BY <1>0, <2>1, <2>2 DEF NonceInv
<1>7. ChainInv(q)'
  <2>1. \A i \in 1..(n + 1) : Nonce(q, i)' = Nonce(q, i)
    BY <1>0, <1>1, <1>2 DEF Nonce
  <2>2. Nonce(q, n + 2)' = After(r)
    BY <1>0, <1>3 DEF Nonce
  <2>3. ASSUME NEW i \in 1..(n + 1) PROVE Nonce(q, i + 1)' = After(log'[q][i])
    <3>1. CASE i = n + 1
      BY <1>0, <2>2, <3>1
    <3>2. CASE i \in 1..n
      BY <1>0, <2>1, <3>2 DEF SenderInv, ChainInv
    <3> QED
      BY <1>0, <3>1, <3>2
  <2> QED
    BY <1>0, <2>1, <2>3 DEF SenderInv, ChainInv
<1> QED
  BY <1>6, <1>7

\* A step of one connection's threads is passive for the other connection.
LEMMA OthersPassive ==
  ASSUME TypeOK, NEW p \in Peers, NEW q \in Peers, q # p,
         Writer(p) \/ Application(p) \/ Environment(p)
  PROVE  Passive(q)
<1> USE DEF Passive, TypeOK, At, Goto, keys, wire, closes, sender, threads, outcomes
<1>1. CASE Writer(p)
  <2>1. CASE s2n_flush(p)
    BY <2>1 DEF s2n_flush
  <2>2. CASE s2n_flush_blocked(p)
    BY <2>2 DEF s2n_flush_blocked
  <2>3. CASE s2n_check_record_limit(p)
    BY <2>3 DEF s2n_check_record_limit
  <2>4. CASE TestKeyUpdatePending(p)
    BY <2>4 DEF TestKeyUpdatePending
  <2>5. CASE WriteKeyUpdate(p)
    BY <2>5 DEF WriteKeyUpdate, record_write, update_sending_keys
  <2>6. CASE ClearKeyUpdatePending(p)
    BY <2>6 DEF ClearKeyUpdatePending
  <2>7. CASE NstWrite(p)
    BY <2>7 DEF NstWrite, record_write, increment_sequence_number
  <2>8. CASE NstDone(p)
    BY <2>8 DEF NstDone
  <2>9. CASE NstExpired(p)
    BY <2>9 DEF NstExpired
  <2>10. CASE WriteData(p)
    BY <2>10 DEF WriteData, record_write, increment_sequence_number
  <2>11. CASE WriteAlert(p)
    BY <2>11 DEF WriteAlert, record_write, increment_sequence_number
  <2>12. CASE SkipAlert(p)
    BY <2>12 DEF SkipAlert
  <2>13. CASE ShutdownPaused(p)
    BY <2>13 DEF ShutdownPaused
  <2>14. CASE ShutdownSent(p)
    BY <2>14 DEF ShutdownSent
  <2>15. CASE ShutdownExpects(p)
    BY <2>15 DEF ShutdownExpects
  <2>16. CASE ShutdownCloses(p)
    BY <2>16 DEF ShutdownCloses, set_closed, ShutdownReturns
  <2> QED
    BY <1>1, <2>1, <2>2, <2>3, <2>4, <2>5, <2>6, <2>7, <2>8, <2>9, <2>10, <2>11, <2>12, <2>13,
       <2>14, <2>15, <2>16 DEF Writer
<1>2. CASE Application(p)
  <2>1. CASE SendStart(p)
    BY <2>1 DEF SendStart
  <2>2. CASE s2n_connection_request_key_update(p)
    BY <2>2 DEF s2n_connection_request_key_update
  <2>3. ASSUME NEW full \in Bit, ShutdownStart(p, full) PROVE Passive(q)
    BY <2>3 DEF ShutdownStart
  <2> QED
    BY <1>2, <2>1, <2>2, <2>3 DEF Application
<1>3. CASE Environment(p)
  <2>1. CASE PeerAborts(p)
    BY <2>1 DEF PeerAborts, increment_sequence_number
  <2>2. CASE BlindingElapses(p)
    BY <2>2 DEF BlindingElapses
  <2>3. CASE TransportClose(p)
    BY <2>3 DEF TransportClose
  <2> QED
    BY <1>3, <2>1, <2>2, <2>3 DEF Environment
<1> QED
  BY <1>1, <1>2, <1>3

\* Reading is passive for both.
LEMMA ReadingPassive ==
  ASSUME TypeOK, NEW p \in Peers, NEW q \in Peers, Reader(p) \/ Drain(p)
  PROVE  Passive(q)
<1> USE DEF Passive, TypeOK, Bit, At, Goto, keys, wire, closes, sender, threads, outcomes
<1>1. CASE Reader(p)
  <2>1. CASE RecvData(p)
    BY <2>1 DEF RecvData, read_full_record, count_record
  <2>2. CASE s2n_key_update_recv(p)
    BY <2>2 DEF s2n_key_update_recv, read_full_record, update_receiving_keys
  <2>3. CASE RecvCloseNotify(p)
    BY <2>3 DEF RecvCloseNotify, read_full_record, count_record, set_close_notify
  <2>4. CASE RecvErrorAlert(p)
    BY <2>4 DEF RecvErrorAlert, read_full_record, count_record, set_closed
  <2>5. CASE FlagErrorAlert(p)
    BY <2>5 DEF FlagErrorAlert
  <2>6. CASE RecvBadRecord(p)
    BY <2>6 DEF RecvBadRecord, set_closed
  <2>7. CASE StartBlinding(p)
    BY <2>7 DEF StartBlinding
  <2>8. CASE RecvTransportEnd(p)
    BY <2>8 DEF RecvTransportEnd
  <2>9. CASE RecvReturnsZero(p)
    BY <2>9 DEF RecvReturnsZero
  <2> QED
    BY <1>1, <2>1, <2>2, <2>3, <2>4, <2>5, <2>6, <2>7, <2>8, <2>9 DEF Reader
<1>2. CASE Drain(p)
  <2>1. CASE DrainDrop(p)
    BY <2>1 DEF DrainDrop, read_full_record, count_record
  <2>2. CASE DrainCloseNotify(p)
    BY <2>2 DEF DrainCloseNotify, read_full_record, count_record, set_close_notify
  <2>3. CASE DrainErrorAlert(p)
    BY <2>3 DEF DrainErrorAlert, read_full_record, count_record, set_closed, ShutdownReturns
  <2>4. CASE DrainBadRecord(p)
    BY <2>4 DEF DrainBadRecord, set_closed, ShutdownReturns
  <2>5. CASE DrainTransportEnd(p)
    BY <2>5 DEF DrainTransportEnd, ShutdownReturns
  <2>6. CASE DrainBlocked(p)
    BY <2>6 DEF DrainBlocked
  <2>7. CASE DrainDone(p)
    BY <2>7 DEF DrainDone, ShutdownReturns
  <2> QED
    BY <1>2, <2>1, <2>2, <2>3, <2>4, <2>5, <2>6, <2>7 DEF Drain
<1> QED
  BY <1>1, <1>2

\* So does a step that writes nothing.
LEMMA SameLog ==
  ASSUME NEW q \in Peers, SenderInv(q), log'[q] = log[q],
         send_key'[q] = send_key[q], send_seq'[q] = send_seq[q]
  PROVE  NonceInv(q)' /\ ChainInv(q)'
BY DEF SenderInv, NonceInv, ChainInv, Nonce

WriteResult(q, type) ==
  /\ \A i \in 1..Len(log'[q]) : log'[q][i].seq <= EncryptionLimit + MaxTickets
  /\ \A i \in 1..Len(log'[q]) : log'[q][i].type \in Alerts => i = Len(log'[q])
  /\ type \notin Alerts => \A i \in 1..Len(log'[q]) : log'[q][i].type \notin Alerts

\* The parts of SenderInv that speak of the types and numbers of the records,
\* after a record of an open connection has been written.
LEMMA WrittenRecords ==
  ASSUME TypeOK, NEW q \in Peers, NEW type \in Types, SenderInv(q), Writes(q, type),
         alert_sent[q] = 0
  PROVE  WriteResult(q, type)
<1>1. PICK n : n = Len(log[q])
  OBVIOUS
<1>2. n \in Nat /\ Len(log'[q]) = n + 1 /\ \A i \in 1..n : log'[q][i] = log[q][i]
  BY <1>1, Written
<1>3. log'[q][n + 1].type = type /\ log'[q][n + 1].seq = send_seq[q]
  <2>1. log'[q][n + 1] = [type |-> type, key |-> send_key[q], seq |-> send_seq[q]]
    BY <1>1, Written
  <2> QED
    BY <2>1
<1>4. /\ \A i \in 1..n : log[q][i].type \notin Alerts /\ log[q][i].seq <= EncryptionLimit + MaxTickets
      /\ send_seq[q] <= EncryptionLimit + MaxTickets
  BY <1>1 DEF SenderInv, AlertInv, LimitInv
<1>5. \A i \in 1..(n + 1) : i = n + 1 \/ (i \in 1..n /\ log'[q][i] = log[q][i])
  BY <1>2
<1>6. \A i \in 1..(n + 1) : log'[q][i].seq <= EncryptionLimit + MaxTickets
  BY <1>3, <1>4, <1>5
<1>7. \A i \in 1..(n + 1) : log'[q][i].type \in Alerts => i = n + 1
  BY <1>4, <1>5
<1>8. type \notin Alerts => \A i \in 1..(n + 1) : log'[q][i].type \notin Alerts
  BY <1>3, <1>4, <1>5
<1> QED
  BY <1>2, <1>6, <1>7, <1>8 DEF WriteResult

\* A step of p keeps what p sends in order.
LEMMA SenderStep ==
  ASSUME TypeOK, TypeOK', NEW p \in Peers, SenderInv(p),
         Writer(p) \/ Application(p) \/ Environment(p)
  PROVE  SenderInv(p)'
<1>0. /\ EncryptionLimit \in Nat /\ EncryptionLimit > 0 /\ MaxTickets \in Nat
      /\ send_seq[p] \in Nat /\ tickets[p] \in Nat /\ Len(log[p]) \in Nat /\ flushed[p] \in Nat
  BY DuplexAssumption DEF TypeOK
<1>9. /\ flushed \in [Peers -> Nat] /\ send_seq \in [Peers -> Nat] /\ tickets \in [Peers -> Nat]
      /\ wpc \in [Peers -> WriterPC] /\ alert_sent \in [Peers -> Bit] /\ write_closed \in [Peers -> Bit]
      /\ key_update_pending \in [Peers -> Bit]
  BY DEF TypeOK
<1>8. log \in [Peers -> Seq(Record)] /\ send_key \in [Peers -> Nat] /\ send_seq \in [Peers -> Nat]
  BY DEF TypeOK
<1>1. CASE Writer(p)
  <2>1. CASE s2n_flush(p)
    <3>1. NonceInv(p)' /\ ChainInv(p)'
      BY <2>1, SameLog DEF s2n_flush, keys, wire, closes, sender, threads, outcomes
    <3>2. OutInv(p)'
      BY <2>1, <1>0, <1>9 DEF SenderInv, OutInv, Writing, At, Goto, wire, threads, s2n_flush,
         AfterFlush, Flushing
    <3>3. AlertInv(p)'
      BY <2>1, <1>9 DEF SenderInv, AlertInv, SendPC, ShutdownPC, At, Goto, Bit, Writable, wire,
         closes, sender, threads, s2n_flush, AfterFlush, Flushing
    <3>4. LimitInv(p)'
      BY <2>1, <1>0, <1>9 DEF SenderInv, LimitInv, At, Goto, Bit, keys, wire, sender, threads,
         s2n_flush, AfterFlush, Flushing
    <3> QED
      BY <3>1, <3>2, <3>3, <3>4 DEF SenderInv
  <2>2. CASE s2n_flush_blocked(p)
    <3>1. NonceInv(p)' /\ ChainInv(p)'
      BY <2>2, SameLog DEF s2n_flush_blocked, keys, wire, closes, sender, threads, outcomes
    <3>2. OutInv(p)'
      BY <2>2, <1>0, <1>9 DEF SenderInv, OutInv, Writing, At, Goto, wire, threads,
         s2n_flush_blocked, Flushing
    <3>3. AlertInv(p)'
      BY <2>2, <1>9 DEF SenderInv, AlertInv, SendPC, ShutdownPC, At, Goto, Bit, Writable, wire,
         closes, sender, threads, s2n_flush_blocked, Flushing
    <3>4. LimitInv(p)'
      BY <2>2, <1>0, <1>9 DEF SenderInv, LimitInv, At, Goto, Bit, keys, wire, sender, threads,
         s2n_flush_blocked, Flushing
    <3> QED
      BY <3>1, <3>2, <3>3, <3>4 DEF SenderInv
  <2>3. CASE s2n_check_record_limit(p)
    <3>1. NonceInv(p)' /\ ChainInv(p)'
      BY <2>3, SameLog DEF s2n_check_record_limit, keys, wire, closes, sender, threads, outcomes
    <3>2. OutInv(p)'
      BY <2>3, <1>0, <1>9 DEF SenderInv, OutInv, Writing, At, Goto, wire, threads,
         s2n_check_record_limit
    <3>3. AlertInv(p)'
      BY <2>3, <1>9 DEF SenderInv, AlertInv, SendPC, ShutdownPC, At, Goto, Bit, Writable, wire,
         closes, sender, threads, s2n_check_record_limit
    <3>4. LimitInv(p)'
      BY <2>3, <1>0, <1>9 DEF SenderInv, LimitInv, At, Goto, Bit, keys, wire, sender, threads,
         s2n_check_record_limit
    <3> QED
      BY <3>1, <3>2, <3>3, <3>4 DEF SenderInv
  <2>4. CASE TestKeyUpdatePending(p)
    <3>1. NonceInv(p)' /\ ChainInv(p)'
      BY <2>4, SameLog DEF TestKeyUpdatePending, keys, wire, closes, sender, threads, outcomes
    <3>2. OutInv(p)'
      BY <2>4, <1>0, <1>9 DEF SenderInv, OutInv, Writing, At, Goto, wire, threads,
         TestKeyUpdatePending
    <3>3. AlertInv(p)'
      BY <2>4, <1>9 DEF SenderInv, AlertInv, SendPC, ShutdownPC, At, Goto, Bit, Writable, wire,
         closes, sender, threads, TestKeyUpdatePending
    <3>4. LimitInv(p)'
      BY <2>4, <1>0, <1>9 DEF SenderInv, LimitInv, At, Goto, Bit, keys, wire, sender, threads,
         TestKeyUpdatePending
    <3> QED
      BY <3>1, <3>2, <3>3, <3>4 DEF SenderInv
  <2>5. CASE WriteKeyUpdate(p)
    <3>1. PICK type \in KeyUpdateTypes(p) : record_write(p, type)
      BY <2>5 DEF WriteKeyUpdate
    <3>2. type \in Types /\ type \in Updates /\ type \notin Alerts
      BY DEF KeyUpdateTypes, Types, Updates, Alerts
    <3>3. Writes(p, type)
      BY <2>5, <1>8, <3>1, <3>2 DEF Writes, WriteKeyUpdate, record_write, update_sending_keys,
         wire, keys
    <3>4. alert_sent[p] = 0 /\ flushed[p] = Len(log[p])
      BY <2>5 DEF SenderInv, OutInv, AlertInv, WriteKeyUpdate, At, Writing, SendPC,
         NoAlertNeeded, Writable, TypeOK, Bit
    <3>5. NonceInv(p)' /\ ChainInv(p)'
      BY <3>2, <3>3, WriteStep
    <3>6. Len(log'[p]) = Len(log[p]) + 1
      BY <3>2, <3>3, Written
    <3>7. WriteResult(p, type)
      BY <3>2, <3>3, <3>4, WrittenRecords
    <3>8. OutInv(p)'
      BY <2>5, <1>9, <1>0, <3>4, <3>6 DEF OutInv, Writing, At, Goto, keys, wire, closes, sender,
         threads, outcomes, WriteKeyUpdate, record_write, update_sending_keys
    <3>9. AlertInv(p)'
      BY <2>5, <1>9, <3>1, <3>2, <3>4, <3>7 DEF SenderInv, AlertInv, WriteResult, Alerts,
         SendPC, ShutdownPC, At, Goto, keys, wire, closes, sender, threads, outcomes,
         WriteKeyUpdate, Writable
    <3>10. LimitInv(p)'
      <4>1. wpc'[p] = "clear_pending" /\ alert_sent'[p] = 0 /\ send_seq'[p] = 0 /\ tickets'[p] = tickets[p]
        BY <2>5, <1>9, <3>4 DEF At, Goto, sender, threads, WriteKeyUpdate, record_write,
           update_sending_keys
      <4> QED
        BY <4>1, <1>0, <3>7 DEF SenderInv, LimitInv, WriteResult
    <3> QED
      BY <3>5, <3>8, <3>9, <3>10 DEF SenderInv
  <2>6. CASE ClearKeyUpdatePending(p)
    <3>1. NonceInv(p)' /\ ChainInv(p)'
      BY <2>6, SameLog DEF ClearKeyUpdatePending, keys, wire, closes, sender, threads, outcomes
    <3>2. OutInv(p)'
      BY <2>6, <1>0, <1>9 DEF SenderInv, OutInv, Writing, At, Goto, wire, threads,
         ClearKeyUpdatePending
    <3>3. AlertInv(p)'
      BY <2>6, <1>9 DEF SenderInv, AlertInv, SendPC, ShutdownPC, At, Goto, Bit, Writable, wire,
         closes, sender, threads, ClearKeyUpdatePending
    <3>4. LimitInv(p)'
      BY <2>6, <1>0, <1>9 DEF SenderInv, LimitInv, At, Goto, Bit, keys, wire, sender, threads,
         ClearKeyUpdatePending
    <3> QED
      BY <3>1, <3>2, <3>3, <3>4 DEF SenderInv
  <2>7. CASE NstWrite(p)
    <3>2. "ticket" \in Types /\ "ticket" \notin Updates
      BY DEF Types, Updates
    <3>3. Writes(p, "ticket")
      BY <2>7, <1>8, <3>2 DEF Writes, NstWrite, record_write, increment_sequence_number, wire,
         keys
    <3>4. alert_sent[p] = 0 /\ flushed[p] = Len(log[p])
      BY <2>7 DEF SenderInv, OutInv, AlertInv, NstWrite, At, Writing, SendPC, NoAlertNeeded,
         Writable, TypeOK, Bit
    <3>5. NonceInv(p)' /\ ChainInv(p)'
      BY <3>2, <3>3, WriteStep
    <3>6. Len(log'[p]) = Len(log[p]) + 1
      BY <3>2, <3>3, Written
    <3>7. WriteResult(p, "ticket")
      BY <3>2, <3>3, <3>4, WrittenRecords
    <3>8. OutInv(p)'
      BY <2>7, <1>9, <1>0, <3>4, <3>6 DEF OutInv, Writing, At, Goto, keys, wire, closes, sender,
         threads, outcomes, NstWrite, record_write, increment_sequence_number
    <3>9. AlertInv(p)'
      BY <2>7, <1>9, <3>2, <3>4, <3>7 DEF SenderInv, AlertInv, WriteResult, Alerts, SendPC,
         ShutdownPC, At, Goto, keys, wire, closes, sender, threads, outcomes, NstWrite, Writable
    <3>10. LimitInv(p)'
      <4>1. /\ wpc[p] = "nst_send" /\ tickets[p] > 0
            /\ wpc'[p] = "nst_flush" /\ alert_sent'[p] = 0
            /\ send_seq'[p] = send_seq[p] + 1 /\ tickets'[p] = tickets[p] - 1
        BY <2>7, <3>4 DEF NstWrite, increment_sequence_number, TicketsLeft, TypeOK, At, Goto
      <4> QED
        BY <4>1, <1>0, <3>7 DEF SenderInv, LimitInv, WriteResult
    <3> QED
      BY <3>5, <3>8, <3>9, <3>10 DEF SenderInv
  <2>8. CASE NstDone(p)
    <3>1. NonceInv(p)' /\ ChainInv(p)'
      BY <2>8, SameLog DEF NstDone, keys, wire, closes, sender, threads, outcomes
    <3>2. OutInv(p)'
      BY <2>8, <1>0, <1>9 DEF SenderInv, OutInv, Writing, At, Goto, wire, threads, NstDone
    <3>3. AlertInv(p)'
      BY <2>8, <1>9 DEF SenderInv, AlertInv, SendPC, ShutdownPC, At, Goto, Bit, Writable, wire,
         closes, sender, threads, NstDone
    <3>4. LimitInv(p)'
      BY <2>8, <1>0, <1>9 DEF SenderInv, LimitInv, At, Goto, Bit, keys, wire, sender, threads,
         NstDone
    <3> QED
      BY <3>1, <3>2, <3>3, <3>4 DEF SenderInv
  <2>9. CASE NstExpired(p)
    <3>1. NonceInv(p)' /\ ChainInv(p)'
      BY <2>9, SameLog DEF NstExpired, keys, wire, closes, sender, threads, outcomes
    <3>2. OutInv(p)'
      BY <2>9, <1>0, <1>9 DEF SenderInv, OutInv, Writing, At, Goto, wire, threads, NstExpired
    <3>3. AlertInv(p)'
      BY <2>9, <1>9 DEF SenderInv, AlertInv, SendPC, ShutdownPC, At, Goto, Bit, Writable, wire,
         closes, sender, threads, NstExpired
    <3>4. LimitInv(p)'
      <4>1. /\ wpc[p] = "nst_send" /\ wpc'[p] = "write_data" /\ tickets'[p] = 0
            /\ send_seq' = send_seq /\ alert_sent' = alert_sent /\ log' = log
        BY <2>9, <1>9 DEF NstExpired, At, Goto, keys, wire
      <4> QED
        BY <1>0, <4>1 DEF SenderInv, LimitInv
    <3> QED
      BY <3>1, <3>2, <3>3, <3>4 DEF SenderInv
  <2>10. CASE WriteData(p)
    <3>2. "app" \in Types /\ "app" \notin Updates
      BY DEF Types, Updates
    <3>3. Writes(p, "app")
      BY <2>10, <1>8, <3>2 DEF Writes, WriteData, record_write, increment_sequence_number, wire,
         keys
    <3>4. alert_sent[p] = 0 /\ flushed[p] = Len(log[p])
      BY <2>10 DEF SenderInv, OutInv, AlertInv, WriteData, At, Writing, SendPC, NoAlertNeeded,
         Writable, TypeOK, Bit
    <3>5. NonceInv(p)' /\ ChainInv(p)'
      BY <3>2, <3>3, WriteStep
    <3>6. Len(log'[p]) = Len(log[p]) + 1
      BY <3>2, <3>3, Written
    <3>7. WriteResult(p, "app")
      BY <3>2, <3>3, <3>4, WrittenRecords
    <3>8. OutInv(p)'
      BY <2>10, <1>9, <1>0, <3>4, <3>6 DEF OutInv, Writing, At, Goto, keys, wire, closes,
         sender, threads, outcomes, WriteData, record_write, increment_sequence_number
    <3>9. AlertInv(p)'
      BY <2>10, <1>9, <3>2, <3>4, <3>7 DEF SenderInv, AlertInv, WriteResult, Alerts, SendPC,
         ShutdownPC, At, Goto, keys, wire, closes, sender, threads, outcomes, WriteData,
         Writable
    <3>10. LimitInv(p)'
      <4>1. wpc[p] = "write_data" /\ wpc'[p] = "data_flush" /\ alert_sent'[p] = 0 /\ send_seq'[p] = send_seq[p] + 1 /\ tickets'[p] = tickets[p]
        BY <2>10, <1>9, <3>4 DEF At, Goto, sender, threads, WriteData, record_write,
           increment_sequence_number
      <4> QED
        BY <4>1, <1>0, <3>7 DEF SenderInv, LimitInv, WriteResult
    <3> QED
      BY <3>5, <3>8, <3>9, <3>10 DEF SenderInv
  <2>11. CASE WriteAlert(p)
    <3>2. "close_notify" \in Types /\ "close_notify" \notin Updates
      BY DEF Types, Updates
    <3>3. Writes(p, "close_notify")
      BY <2>11, <1>8, <3>2 DEF Writes, WriteAlert, record_write, increment_sequence_number,
         wire, keys
    <3>4. alert_sent[p] = 0 /\ flushed[p] = Len(log[p])
      BY <2>11 DEF SenderInv, OutInv, AlertInv, WriteAlert, At, Writing, SendPC, NoAlertNeeded,
         Writable, TypeOK, Bit
    <3>5. NonceInv(p)' /\ ChainInv(p)'
      BY <3>2, <3>3, WriteStep
    <3>6. Len(log'[p]) = Len(log[p]) + 1
      BY <3>2, <3>3, Written
    <3>7. WriteResult(p, "close_notify")
      BY <3>2, <3>3, <3>4, WrittenRecords
    <3>8. OutInv(p)'
      BY <2>11, <1>9, <1>0, <3>4, <3>6 DEF OutInv, Writing, At, Goto, keys, wire, closes,
         sender, threads, outcomes, WriteAlert, record_write, increment_sequence_number
    <3>9. AlertInv(p)'
      BY <2>11, <1>9, <3>2, <3>4, <3>7 DEF SenderInv, AlertInv, WriteResult, Alerts, SendPC,
         ShutdownPC, At, Goto, keys, wire, closes, sender, threads, outcomes, WriteAlert,
         Writable
    <3>10. LimitInv(p)'
      <4>1. wpc'[p] = "alert_flush" /\ alert_sent'[p] = 1 /\ send_seq'[p] = send_seq[p] + 1 /\ tickets'[p] = tickets[p]
        BY <2>11, <1>9, <3>4 DEF At, Goto, sender, threads, WriteAlert, record_write,
           increment_sequence_number
      <4> QED
        BY <4>1, <1>0, <3>7 DEF SenderInv, LimitInv, WriteResult
    <3> QED
      BY <3>5, <3>8, <3>9, <3>10 DEF SenderInv
  <2>12. CASE SkipAlert(p)
    <3>1. NonceInv(p)' /\ ChainInv(p)'
      BY <2>12, SameLog DEF SkipAlert, keys, wire, closes, sender, threads, outcomes
    <3>2. OutInv(p)'
      BY <2>12, <1>0, <1>9 DEF SenderInv, OutInv, Writing, At, Goto, wire, threads, SkipAlert
    <3>3. AlertInv(p)'
      BY <2>12, <1>9 DEF SenderInv, AlertInv, SendPC, ShutdownPC, At, Goto, Bit, Writable, wire,
         closes, sender, threads, SkipAlert
    <3>4. LimitInv(p)'
      BY <2>12, <1>0, <1>9 DEF SenderInv, LimitInv, At, Goto, Bit, keys, wire, sender, threads,
         SkipAlert
    <3> QED
      BY <3>1, <3>2, <3>3, <3>4 DEF SenderInv
  <2>13. CASE ShutdownPaused(p)
    <3>1. NonceInv(p)' /\ ChainInv(p)'
      BY <2>13, SameLog DEF ShutdownPaused, keys, wire, closes, sender, threads, outcomes
    <3>2. OutInv(p)'
      BY <2>13, <1>0, <1>9 DEF SenderInv, OutInv, Writing, At, Goto, wire, threads,
         ShutdownPaused
    <3>3. AlertInv(p)'
      BY <2>13, <1>9 DEF SenderInv, AlertInv, SendPC, ShutdownPC, At, Goto, Bit, Writable, wire,
         closes, sender, threads, ShutdownPaused
    <3>4. LimitInv(p)'
      BY <2>13, <1>0, <1>9 DEF SenderInv, LimitInv, At, Goto, Bit, keys, wire, sender, threads,
         ShutdownPaused
    <3> QED
      BY <3>1, <3>2, <3>3, <3>4 DEF SenderInv
  <2>14. CASE ShutdownSent(p)
    <3>1. NonceInv(p)' /\ ChainInv(p)'
      BY <2>14, SameLog DEF ShutdownSent, keys, wire, closes, sender, threads, outcomes
    <3>2. OutInv(p)'
      BY <2>14, <1>0, <1>9 DEF SenderInv, OutInv, Writing, At, Goto, wire, threads, ShutdownSent
    <3>3. AlertInv(p)'
      BY <2>14, <1>9 DEF SenderInv, AlertInv, SendPC, ShutdownPC, At, Goto, Bit, Writable, wire,
         closes, sender, threads, ShutdownSent
    <3>4. LimitInv(p)'
      BY <2>14, <1>0, <1>9 DEF SenderInv, LimitInv, At, Goto, Bit, keys, wire, sender, threads,
         ShutdownSent
    <3> QED
      BY <3>1, <3>2, <3>3, <3>4 DEF SenderInv
  <2>15. CASE ShutdownExpects(p)
    <3>1. NonceInv(p)' /\ ChainInv(p)'
      BY <2>15, SameLog DEF ShutdownExpects, keys, wire, closes, sender, threads, outcomes
    <3>2. OutInv(p)'
      BY <2>15, <1>0, <1>9 DEF SenderInv, OutInv, Writing, At, Goto, wire, threads,
         ShutdownExpects
    <3>3. AlertInv(p)'
      BY <2>15, <1>9 DEF SenderInv, AlertInv, SendPC, ShutdownPC, At, Goto, Bit, Writable, wire,
         closes, sender, threads, ShutdownExpects
    <3>4. LimitInv(p)'
      BY <2>15, <1>0, <1>9 DEF SenderInv, LimitInv, At, Goto, Bit, keys, wire, sender, threads,
         ShutdownExpects
    <3> QED
      BY <3>1, <3>2, <3>3, <3>4 DEF SenderInv
  <2>16. CASE ShutdownCloses(p)
    <3>1. NonceInv(p)' /\ ChainInv(p)'
      BY <2>16, SameLog DEF ShutdownCloses, set_closed, ShutdownReturns, keys, wire, closes,
         sender, threads, outcomes
    <3>2. OutInv(p)'
      BY <2>16, <1>0, <1>9 DEF SenderInv, OutInv, Writing, At, Goto, wire, threads,
         ShutdownCloses, set_closed, ShutdownReturns
    <3>3. AlertInv(p)'
      BY <2>16, <1>9 DEF SenderInv, AlertInv, SendPC, ShutdownPC, At, Goto, Bit, Writable, wire,
         closes, sender, threads, ShutdownCloses, set_closed, ShutdownReturns
    <3>4. LimitInv(p)'
      BY <2>16, <1>0, <1>9 DEF SenderInv, LimitInv, At, Goto, Bit, keys, wire, sender, threads,
         ShutdownCloses, set_closed, ShutdownReturns
    <3> QED
      BY <3>1, <3>2, <3>3, <3>4 DEF SenderInv
  <2> QED
    BY <1>1, <2>1, <2>2, <2>3, <2>4, <2>5, <2>6, <2>7, <2>8, <2>9, <2>10, <2>11, <2>12, <2>13,
       <2>14, <2>15, <2>16 DEF Writer
<1>2. CASE Application(p)
  <2>1. CASE SendStart(p)
    <3>1. NonceInv(p)' /\ ChainInv(p)'
      BY <2>1, SameLog DEF SendStart, keys, wire, closes, sender, threads, outcomes
    <3>2. OutInv(p)'
      BY <2>1, <1>0, <1>9 DEF SenderInv, OutInv, Writing, At, Goto, wire, threads, SendStart
    <3>3. AlertInv(p)'
      <4>1. /\ alert_sent' = alert_sent /\ write_closed' = write_closed /\ log' = log
            /\ write_closed[p] = 0 /\ wpc'[p] = "send_flush"
        BY <2>1, <1>9 DEF SendStart, Goto, Writable, wire, closes, sender
      <4> QED
        BY <4>1 DEF SenderInv, AlertInv, SendPC, ShutdownPC
    <3>4. LimitInv(p)'
      BY <2>1, <1>0, <1>9 DEF SenderInv, LimitInv, At, Goto, Bit, keys, wire, sender, threads,
         SendStart
    <3> QED
      BY <3>1, <3>2, <3>3, <3>4 DEF SenderInv
  <2>2. CASE s2n_connection_request_key_update(p)
    <3>1. NonceInv(p)' /\ ChainInv(p)'
      BY <2>2, SameLog DEF s2n_connection_request_key_update, keys, wire, closes, sender,
         threads, outcomes
    <3>2. OutInv(p)'
      BY <2>2, <1>0, <1>9 DEF SenderInv, OutInv, Writing, At, Goto, wire, threads,
         s2n_connection_request_key_update
    <3>3. AlertInv(p)'
      BY <2>2, <1>9 DEF SenderInv, AlertInv, SendPC, ShutdownPC, At, Goto, Bit, Writable, wire,
         closes, sender, threads, s2n_connection_request_key_update
    <3>4. LimitInv(p)'
      BY <2>2, <1>0, <1>9 DEF SenderInv, LimitInv, At, Goto, Bit, keys, wire, sender, threads,
         s2n_connection_request_key_update
    <3> QED
      BY <3>1, <3>2, <3>3, <3>4 DEF SenderInv
  <2>3. ASSUME NEW full \in Bit, ShutdownStart(p, full) PROVE SenderInv(p)'
    <3>1. NonceInv(p)' /\ ChainInv(p)'
      BY <2>3, SameLog DEF ShutdownStart, keys, wire, closes, sender, threads, outcomes
    <3>2. OutInv(p)'
      BY <2>3, <1>0, <1>9 DEF SenderInv, OutInv, Writing, At, Goto, wire, threads, ShutdownStart
    <3>3. AlertInv(p)'
      BY <2>3, <1>9 DEF SenderInv, AlertInv, SendPC, ShutdownPC, At, Goto, Bit, Writable, wire,
         closes, sender, threads, ShutdownStart
    <3>4. LimitInv(p)'
      BY <2>3, <1>0, <1>9 DEF SenderInv, LimitInv, At, Goto, Bit, keys, wire, sender, threads,
         ShutdownStart
    <3> QED
      BY <3>1, <3>2, <3>3, <3>4 DEF SenderInv
  <2> QED
    BY <1>2, <2>1, <2>2, <2>3 DEF Application
<1>3. CASE Environment(p)
  <2>1. CASE PeerAborts(p)
    <3>2. "error_alert" \in Types /\ "error_alert" \notin Updates
      BY DEF Types, Updates
    <3>3. Writes(p, "error_alert")
      BY <2>1, <1>8, <3>2 DEF Writes, PeerAborts, increment_sequence_number, wire, keys
    <3>4. alert_sent[p] = 0 /\ flushed[p] = Len(log[p])
      BY <2>1 DEF SenderInv, OutInv, AlertInv, PeerAborts, At, Writing, SendPC, NoAlertNeeded,
         Writable, TypeOK, Bit
    <3>5. NonceInv(p)' /\ ChainInv(p)'
      BY <3>2, <3>3, WriteStep
    <3>6. Len(log'[p]) = Len(log[p]) + 1
      BY <3>2, <3>3, Written
    <3>7. WriteResult(p, "error_alert")
      BY <3>2, <3>3, <3>4, WrittenRecords
    <3>8. OutInv(p)'
      BY <2>1, <1>9, <1>0, <3>4, <3>6 DEF OutInv, Writing, At, Goto, keys, wire, closes, sender,
         threads, outcomes, PeerAborts, increment_sequence_number
    <3>9. AlertInv(p)'
      <4>1. alert_sent'[p] = 1 /\ write_closed'[p] = 1 /\ wpc'[p] = "idle"
        BY <2>1, <1>9 DEF PeerAborts, At, threads
      <4> QED
        BY <3>7, <4>1 DEF AlertInv, WriteResult, SendPC, ShutdownPC
    <3>10. LimitInv(p)'
      <4>1. wpc'[p] = "idle" /\ alert_sent'[p] = 1 /\ send_seq'[p] = send_seq[p] + 1 /\ tickets'[p] = tickets[p]
        BY <2>1, <1>9, <3>4 DEF At, Goto, sender, threads, PeerAborts, increment_sequence_number
      <4> QED
        BY <4>1, <1>0, <3>7 DEF SenderInv, LimitInv, WriteResult
    <3> QED
      BY <3>5, <3>8, <3>9, <3>10 DEF SenderInv
  <2>2. CASE BlindingElapses(p)
    <3>1. NonceInv(p)' /\ ChainInv(p)'
      BY <2>2, SameLog DEF BlindingElapses, keys, wire, closes, sender, threads, outcomes
    <3>2. OutInv(p)'
      BY <2>2, <1>0, <1>9 DEF SenderInv, OutInv, Writing, At, Goto, wire, threads,
         BlindingElapses
    <3>3. AlertInv(p)'
      BY <2>2, <1>9 DEF SenderInv, AlertInv, SendPC, ShutdownPC, At, Goto, Bit, Writable, wire,
         closes, sender, threads, BlindingElapses
    <3>4. LimitInv(p)'
      BY <2>2, <1>0, <1>9 DEF SenderInv, LimitInv, At, Goto, Bit, keys, wire, sender, threads,
         BlindingElapses
    <3> QED
      BY <3>1, <3>2, <3>3, <3>4 DEF SenderInv
  <2>3. CASE TransportClose(p)
    <3>1. NonceInv(p)' /\ ChainInv(p)'
      BY <2>3, SameLog DEF TransportClose, keys, wire, closes, sender, threads, outcomes
    <3>2. OutInv(p)'
      BY <2>3, <1>0, <1>9 DEF SenderInv, OutInv, Writing, At, Goto, wire, threads,
         TransportClose
    <3>3. AlertInv(p)'
      BY <2>3, <1>9 DEF SenderInv, AlertInv, SendPC, ShutdownPC, At, Goto, Bit, Writable, wire,
         closes, sender, threads, TransportClose
    <3>4. LimitInv(p)'
      BY <2>3, <1>0, <1>9 DEF SenderInv, LimitInv, At, Goto, Bit, keys, wire, sender, threads,
         TransportClose
    <3> QED
      BY <3>1, <3>2, <3>3, <3>4 DEF SenderInv
  <2> QED
    BY <1>3, <2>1, <2>2, <2>3 DEF Environment
<1> QED
  BY <1>1, <1>2, <1>3
-----------------------------------------------------------------------------
\* What a step may do to what r has sent: add to it, unless r has sent an alert.
Steady(r) ==
  /\ flushed[r] <= flushed'[r]
  /\ alert_sent[r] = 1 => alert_sent'[r] = 1 /\ log'[r] = log[r]
  /\ \A i \in 1..(Len(log[r]) + 1) : Nonce(r, i)' = Nonce(r, i)

reading == <<rd, close_notify_received, eof, recv_key, recv_seq>>

\* A passive step takes nothing back.
LEMMA PassiveSteady ==
  ASSUME TypeOK, NEW r \in Peers, Passive(r)
  PROVE  Steady(r)
<1>1. flushed[r] \in Nat
  BY DEF TypeOK
<1> QED
  BY <1>1 DEF Passive, Steady, Nonce

\* Writing a record moves no earlier nonce, nor the one it uses.
LEMMA WritesSteady ==
  ASSUME TypeOK, NEW r \in Peers, NEW type \in Types, Writes(r, type)
  PROVE  \A i \in 1..(Len(log[r]) + 1) : Nonce(r, i)' = Nonce(r, i)
<1>1. PICK n : n = Len(log[r])
  OBVIOUS
<1>2. /\ n \in Nat /\ Len(log'[r]) = n + 1 /\ \A i \in 1..n : log'[r][i] = log[r][i]
      /\ log'[r][n + 1] = [type |-> type, key |-> send_key[r], seq |-> send_seq[r]]
  BY <1>1, Written
<1>3. log'[r][n + 1].key = send_key[r] /\ log'[r][n + 1].seq = send_seq[r]
  BY <1>2
<1> QED
  BY <1>1, <1>2, <1>3 DEF Nonce

\* Sending reads nothing, and takes nothing back.
LEMMA SendingSteady ==
  ASSUME TypeOK, NEW p \in Peers, SenderInv(p), Writer(p) \/ Application(p) \/ Environment(p)
  PROVE  Steady(p) /\ UNCHANGED reading
<1>0. Len(log[p]) \in Nat /\ flushed[p] \in Nat /\ flushed[p] <= Len(log[p])
  BY DEF TypeOK, SenderInv, OutInv
<1>8. log \in [Peers -> Seq(Record)] /\ send_key \in [Peers -> Nat] /\ send_seq \in [Peers -> Nat]
  BY DEF TypeOK
<1> USE DEF reading
<1>1. CASE Writer(p)
  <2>1. CASE s2n_flush(p)
    BY <2>1, <1>0 DEF Steady, Nonce, TypeOK, s2n_flush, keys, wire, closes, sender, threads,
       outcomes
  <2>2. CASE s2n_flush_blocked(p)
    BY <2>2, <1>0 DEF Steady, Nonce, TypeOK, s2n_flush_blocked, keys, wire, closes, sender,
       threads, outcomes
  <2>3. CASE s2n_check_record_limit(p)
    BY <2>3, <1>0 DEF Steady, Nonce, TypeOK, s2n_check_record_limit, keys, wire, closes, sender,
       threads, outcomes
  <2>4. CASE TestKeyUpdatePending(p)
    BY <2>4, <1>0 DEF Steady, Nonce, TypeOK, TestKeyUpdatePending, keys, wire, closes, sender,
       threads, outcomes
  <2>5. CASE WriteKeyUpdate(p)
    <3>1. PICK type \in KeyUpdateTypes(p) : record_write(p, type)
      BY <2>5 DEF WriteKeyUpdate
    <3>2. type \in Types /\ type \in Updates
      BY DEF KeyUpdateTypes, Types, Updates
    <3>3. Writes(p, type)
      BY <2>5, <1>8, <3>1, <3>2 DEF Writes, WriteKeyUpdate, record_write, update_sending_keys,
         wire, keys
    <3>4. alert_sent[p] = 0
      BY <2>5 DEF SenderInv, AlertInv, WriteKeyUpdate, At, SendPC, NoAlertNeeded, Writable,
         TypeOK, Bit
    <3>5. flushed[p] <= flushed'[p] /\ UNCHANGED reading
      BY <2>5, <1>0, <3>1 DEF TypeOK, WriteKeyUpdate, record_write, update_sending_keys, keys,
         wire, closes, sender, threads, outcomes
    <3> QED
      BY <3>2, <3>3, <3>4, <3>5, WritesSteady DEF Steady
  <2>6. CASE ClearKeyUpdatePending(p)
    BY <2>6, <1>0 DEF Steady, Nonce, TypeOK, ClearKeyUpdatePending, keys, wire, closes, sender,
       threads, outcomes
  <2>7. CASE NstWrite(p)
    <3>2. "ticket" \in Types /\ "ticket" \notin Updates
      BY DEF Types, Updates
    <3>3. Writes(p, "ticket")
      BY <2>7, <1>8, <3>2 DEF Writes, NstWrite, record_write, increment_sequence_number, wire,
         keys
    <3>4. alert_sent[p] = 0
      BY <2>7 DEF SenderInv, AlertInv, NstWrite, At, SendPC, NoAlertNeeded, Writable, TypeOK,
         Bit
    <3>5. flushed[p] <= flushed'[p] /\ UNCHANGED reading
      BY <2>7, <1>0, <3>2 DEF TypeOK, NstWrite, record_write, increment_sequence_number, keys,
         wire, closes, sender, threads, outcomes
    <3> QED
      BY <3>2, <3>3, <3>4, <3>5, WritesSteady DEF Steady
  <2>8. CASE NstDone(p)
    BY <2>8, <1>0 DEF Steady, Nonce, TypeOK, NstDone, keys, wire, closes, sender, threads,
       outcomes
  <2>9. CASE NstExpired(p)
    BY <2>9, <1>0 DEF Steady, Nonce, TypeOK, NstExpired, keys, wire, closes, sender, threads,
       outcomes
  <2>10. CASE WriteData(p)
    <3>2. "app" \in Types /\ "app" \notin Updates
      BY DEF Types, Updates
    <3>3. Writes(p, "app")
      BY <2>10, <1>8, <3>2 DEF Writes, WriteData, record_write, increment_sequence_number, wire,
         keys
    <3>4. alert_sent[p] = 0
      BY <2>10 DEF SenderInv, AlertInv, WriteData, At, SendPC, NoAlertNeeded, Writable, TypeOK,
         Bit
    <3>5. flushed[p] <= flushed'[p] /\ UNCHANGED reading
      BY <2>10, <1>0, <3>2 DEF TypeOK, WriteData, record_write, increment_sequence_number, keys,
         wire, closes, sender, threads, outcomes
    <3> QED
      BY <3>2, <3>3, <3>4, <3>5, WritesSteady DEF Steady
  <2>11. CASE WriteAlert(p)
    <3>2. "close_notify" \in Types /\ "close_notify" \notin Updates
      BY DEF Types, Updates
    <3>3. Writes(p, "close_notify")
      BY <2>11, <1>8, <3>2 DEF Writes, WriteAlert, record_write, increment_sequence_number,
         wire, keys
    <3>4. alert_sent[p] = 0
      BY <2>11 DEF SenderInv, AlertInv, WriteAlert, At, SendPC, NoAlertNeeded, Writable, TypeOK,
         Bit
    <3>5. flushed[p] <= flushed'[p] /\ UNCHANGED reading
      BY <2>11, <1>0, <3>2 DEF TypeOK, WriteAlert, record_write, increment_sequence_number,
         keys, wire, closes, sender, threads, outcomes
    <3> QED
      BY <3>2, <3>3, <3>4, <3>5, WritesSteady DEF Steady
  <2>12. CASE SkipAlert(p)
    BY <2>12, <1>0 DEF Steady, Nonce, TypeOK, SkipAlert, keys, wire, closes, sender, threads,
       outcomes
  <2>13. CASE ShutdownPaused(p)
    BY <2>13, <1>0 DEF Steady, Nonce, TypeOK, ShutdownPaused, keys, wire, closes, sender,
       threads, outcomes
  <2>14. CASE ShutdownSent(p)
    BY <2>14, <1>0 DEF Steady, Nonce, TypeOK, ShutdownSent, keys, wire, closes, sender, threads,
       outcomes
  <2>15. CASE ShutdownExpects(p)
    BY <2>15, <1>0 DEF Steady, Nonce, TypeOK, ShutdownExpects, keys, wire, closes, sender,
       threads, outcomes
  <2>16. CASE ShutdownCloses(p)
    BY <2>16, <1>0 DEF Steady, Nonce, TypeOK, ShutdownCloses, set_closed, ShutdownReturns, keys,
       wire, closes, sender, threads, outcomes
  <2> QED
    BY <1>1, <2>1, <2>2, <2>3, <2>4, <2>5, <2>6, <2>7, <2>8, <2>9, <2>10, <2>11, <2>12, <2>13,
       <2>14, <2>15, <2>16 DEF Writer
<1>2. CASE Application(p)
  <2>1. CASE SendStart(p)
    BY <2>1, <1>0 DEF Steady, Nonce, TypeOK, SendStart, keys, wire, closes, sender, threads,
       outcomes
  <2>2. CASE s2n_connection_request_key_update(p)
    BY <2>2, <1>0 DEF Steady, Nonce, TypeOK, s2n_connection_request_key_update, keys, wire,
       closes, sender, threads, outcomes
  <2>3. ASSUME NEW full \in Bit, ShutdownStart(p, full) PROVE Steady(p) /\ UNCHANGED reading
    BY <2>3, <1>0 DEF Steady, Nonce, TypeOK, ShutdownStart, keys, wire, closes, sender, threads,
       outcomes
  <2> QED
    BY <1>2, <2>1, <2>2, <2>3 DEF Application
<1>3. CASE Environment(p)
  <2>1. CASE PeerAborts(p)
    <3>2. "error_alert" \in Types /\ "error_alert" \notin Updates
      BY DEF Types, Updates
    <3>3. Writes(p, "error_alert")
      BY <2>1, <1>8, <3>2 DEF Writes, PeerAborts, increment_sequence_number, wire, keys
    <3>4. alert_sent[p] = 0
      BY <2>1 DEF SenderInv, AlertInv, PeerAborts, At, SendPC, NoAlertNeeded, Writable, TypeOK,
         Bit
    <3>5. flushed[p] <= flushed'[p] /\ UNCHANGED reading
      BY <2>1, <1>0, <3>2 DEF TypeOK, PeerAborts, increment_sequence_number, keys, wire, closes,
         sender, threads, outcomes
    <3> QED
      BY <3>2, <3>3, <3>4, <3>5, WritesSteady DEF Steady
  <2>2. CASE BlindingElapses(p)
    BY <2>2, <1>0 DEF Steady, Nonce, TypeOK, BlindingElapses, keys, wire, closes, sender,
       threads, outcomes
  <2>3. CASE TransportClose(p)
    BY <2>3, <1>0 DEF Steady, Nonce, TypeOK, TransportClose, keys, wire, closes, sender,
       threads, outcomes
  <2> QED
    BY <1>3, <2>1, <2>2, <2>3 DEF Environment
<1> QED
  BY <1>1, <1>2, <1>3
-----------------------------------------------------------------------------
SameReading(q) ==
  /\ rd'[q] = rd[q] /\ close_notify_received'[q] = close_notify_received[q] /\ eof'[q] = eof[q]
  /\ recv_key'[q] = recv_key[q] /\ recv_seq'[q] = recv_seq[q]

\* Reading is private to the connection that reads.
LEMMA OthersReading ==
  ASSUME TypeOK, NEW p \in Peers, NEW q \in Peers, q # p, Reader(p) \/ Drain(p)
  PROVE  SameReading(q)
<1> USE DEF SameReading, TypeOK, keys, wire, closes, sender, threads, outcomes
<1>1. CASE Reader(p)
  <2>1. CASE RecvData(p)
    BY <2>1 DEF RecvData, read_full_record, count_record
  <2>2. CASE s2n_key_update_recv(p)
    BY <2>2 DEF s2n_key_update_recv, read_full_record, update_receiving_keys
  <2>3. CASE RecvCloseNotify(p)
    BY <2>3 DEF RecvCloseNotify, read_full_record, count_record, set_close_notify
  <2>4. CASE RecvErrorAlert(p)
    BY <2>4 DEF RecvErrorAlert, read_full_record, count_record
  <2>5. CASE FlagErrorAlert(p)
    BY <2>5 DEF FlagErrorAlert
  <2>6. CASE RecvBadRecord(p)
    BY <2>6 DEF RecvBadRecord
  <2>7. CASE StartBlinding(p)
    BY <2>7 DEF StartBlinding
  <2>8. CASE RecvTransportEnd(p)
    BY <2>8 DEF RecvTransportEnd
  <2>9. CASE RecvReturnsZero(p)
    BY <2>9 DEF RecvReturnsZero
  <2> QED
    BY <1>1, <2>1, <2>2, <2>3, <2>4, <2>5, <2>6, <2>7, <2>8, <2>9 DEF Reader
<1>2. CASE Drain(p)
  <2>1. CASE DrainDrop(p)
    BY <2>1 DEF DrainDrop, read_full_record, count_record
  <2>2. CASE DrainCloseNotify(p)
    BY <2>2 DEF DrainCloseNotify, read_full_record, count_record, set_close_notify
  <2>3. CASE DrainErrorAlert(p)
    BY <2>3 DEF DrainErrorAlert, read_full_record, count_record
  <2>4. CASE DrainBadRecord(p)
    BY <2>4 DEF DrainBadRecord
  <2>5. CASE DrainTransportEnd(p)
    BY <2>5 DEF DrainTransportEnd
  <2>6. CASE DrainBlocked(p)
    BY <2>6 DEF DrainBlocked
  <2>7. CASE DrainDone(p)
    BY <2>7 DEF DrainDone
  <2> QED
    BY <1>2, <2>1, <2>2, <2>3, <2>4, <2>5, <2>6, <2>7 DEF Drain
<1> QED
  BY <1>1, <1>2

\* What q has read stays true while its peer goes on sending.
LEMMA ReadFrame ==
  ASSUME TypeOK, NEW q \in Peers, ReadInv(q), SenderInv(Other(q)), SameReading(q),
         Steady(Other(q)), TypeOK'
  PROVE  ReadInv(q)'
<1>1. /\ rd[q] \in Nat /\ flushed[Other(q)] \in Nat /\ flushed'[Other(q)] \in Nat
  BY OtherPeer DEF TypeOK
<1> QED
  BY <1>1 DEF ReadInv, SameReading, Steady

\* Reading one's own records: a close_notify is the last record there is.
LEMMA OwnReading ==
  ASSUME TypeOK, TypeOK', NEW q \in Peers, ReadInv(q), SenderInv(Other(q)),
         Reader(q) \/ Drain(q)
  PROVE  ReadInv(q)'
<1> DEFINE r == Other(q)
<1>1. /\ log'[r] = log[r] /\ flushed'[r] = flushed[r] /\ alert_sent'[r] = alert_sent[r]
  BY OtherPeer, ReadingPassive DEF Passive
<1>2. /\ rd[q] \in Nat /\ flushed[r] \in Nat /\ Len(log[r]) \in Nat /\ flushed[r] <= Len(log[r])
      /\ alert_sent[r] \in Bit /\ close_notify_received[q] \in Bit
  BY OtherPeer DEF TypeOK, SenderInv, OutInv
<1>3. /\ alert_sent[r] = 0 => \A i \in 1..Len(log[r]) : log[r][i].type \notin Alerts
      /\ \A i \in 1..Len(log[r]) : log[r][i].type \in Alerts => i = Len(log[r])
  BY DEF SenderInv, AlertInv
<1>4. HasRecord(q) => rd[q] + 1 \in 1..Len(log[r])
  BY <1>2 DEF HasRecord
<1>5. close_notify_received[q] = 1 => ~HasRecord(q)
  BY <1>2 DEF HasRecord, ReadInv
<1>6. ASSUME HasRecord(q), rd'[q] = rd[q] + 1, eof'[q] = eof[q],
             close_notify_received'[q] = close_notify_received[q]
      PROVE  ReadInv(q)'
  BY <1>1, <1>2, <1>5, <1>6 DEF ReadInv, HasRecord
<1>7. ASSUME rd'[q] = rd[q], close_notify_received'[q] = close_notify_received[q],
             eof'[q] = eof[q] \/ close_notify_received[q] = 1
      PROVE  ReadInv(q)'
  BY <1>1, <1>2, <1>7 DEF ReadInv
<1>8. ASSUME HasRecord(q), NextRecord(q).type = "close_notify", rd'[q] = rd[q] + 1,
             eof'[q] = eof[q]
      PROVE  ReadInv(q)'
  <2>1. log[r][rd[q] + 1].type \in Alerts
    BY <1>8 DEF NextRecord, Alerts
  <2>2. rd[q] + 1 = Len(log[r]) /\ alert_sent[r] = 1
    BY <1>2, <1>3, <1>4, <1>8, <2>1 DEF Bit
  <2>3. flushed[r] = Len(log[r])
    BY <1>2, <1>8, <2>2 DEF HasRecord
  <2>4. eof[q] = 0 \/ close_notify_received[q] = 1
    BY DEF ReadInv, TypeOK, Bit
  <2>5. eof'[q] # 1
    BY <1>5, <1>8, <2>4
  <2> QED
    BY <1>1, <1>2, <1>8, <2>2, <2>3, <2>5 DEF ReadInv
<1> HIDE DEF r
<1>9. CASE Reader(q)
  <2>1. CASE RecvData(q)
    BY <2>1, <1>6 DEF RecvData, read_full_record, count_record, TypeOK, keys, wire, closes,
       sender, threads, outcomes
  <2>2. CASE s2n_key_update_recv(q)
    BY <2>2, <1>6 DEF s2n_key_update_recv, read_full_record, update_receiving_keys, TypeOK,
       keys, wire, closes, sender, threads, outcomes
  <2>3. CASE RecvCloseNotify(q)
    BY <2>3, <1>8 DEF RecvCloseNotify, read_full_record, count_record, set_close_notify, TypeOK,
       keys, wire, closes, sender, threads, outcomes
  <2>4. CASE RecvErrorAlert(q)
    BY <2>4, <1>6 DEF RecvErrorAlert, read_full_record, count_record, TypeOK, keys, wire,
       closes, sender, threads, outcomes
  <2>5. CASE FlagErrorAlert(q)
    BY <2>5, <1>7 DEF FlagErrorAlert, TypeOK, keys, wire, closes, sender, threads, outcomes
  <2>6. CASE RecvBadRecord(q)
    BY <2>6, <1>6 DEF RecvBadRecord, ParseFails, TypeOK, keys, wire, closes, sender, threads, outcomes
  <2>7. CASE StartBlinding(q)
    BY <2>7, <1>7 DEF StartBlinding, TypeOK, keys, wire, closes, sender, threads, outcomes
  <2>8. CASE RecvTransportEnd(q)
    BY <2>8, <1>7 DEF RecvTransportEnd, TypeOK, keys, wire, closes, sender, threads, outcomes
  <2>9. CASE RecvReturnsZero(q)
    BY <2>9, <1>7 DEF RecvReturnsZero, TypeOK, keys, wire, closes, sender, threads, outcomes
  <2> QED
    BY <1>9, <2>1, <2>2, <2>3, <2>4, <2>5, <2>6, <2>7, <2>8, <2>9 DEF Reader
<1>10. CASE Drain(q)
  <2>1. CASE DrainDrop(q)
    BY <2>1, <1>6 DEF DrainDrop, read_full_record, count_record, TypeOK, keys, wire, closes,
       sender, threads, outcomes
  <2>2. CASE DrainCloseNotify(q)
    BY <2>2, <1>8 DEF DrainCloseNotify, read_full_record, count_record, set_close_notify,
       TypeOK, keys, wire, closes, sender, threads, outcomes
  <2>3. CASE DrainErrorAlert(q)
    BY <2>3, <1>6 DEF DrainErrorAlert, read_full_record, count_record, TypeOK, keys, wire,
       closes, sender, threads, outcomes
  <2>4. CASE DrainBadRecord(q)
    BY <2>4, <1>6 DEF DrainBadRecord, ParseFails, TypeOK, keys, wire, closes, sender, threads, outcomes
  <2>5. CASE DrainTransportEnd(q)
    BY <2>5, <1>7 DEF DrainTransportEnd, TypeOK, keys, wire, closes, sender, threads, outcomes
  <2>6. CASE DrainBlocked(q)
    BY <2>6, <1>7 DEF DrainBlocked, TypeOK, keys, wire, closes, sender, threads, outcomes
  <2>7. CASE DrainDone(q)
    BY <2>7, <1>7 DEF DrainDone, TypeOK, keys, wire, closes, sender, threads, outcomes
  <2> QED
    BY <1>10, <2>1, <2>2, <2>3, <2>4, <2>5, <2>6, <2>7 DEF Drain
<1> QED
  BY <1>9, <1>10
-----------------------------------------------------------------------------
\* Without s2n_shutdown nobody gets to its loop.
LEMMA HalfStep ==
  ASSUME FullShutdown = {}, TypeOK, \A q \in Peers : HalfInv(q), NEW p \in Peers, NEW q \in Peers,
         Writer(p) \/ Reader(p) \/ Drain(p) \/ Application(p) \/ Environment(p)
  PROVE  HalfInv(q)'
<1> USE DEF HalfInv, TypeOK, At, Goto, keys, wire, closes, sender, threads, outcomes
<1>1. CASE Writer(p)
  <2>1. CASE s2n_flush(p)
    BY <2>1 DEF s2n_flush, AfterFlush
  <2>2. CASE s2n_flush_blocked(p)
    BY <2>2 DEF s2n_flush_blocked
  <2>3. CASE s2n_check_record_limit(p)
    BY <2>3 DEF s2n_check_record_limit
  <2>4. CASE TestKeyUpdatePending(p)
    BY <2>4 DEF TestKeyUpdatePending
  <2>5. CASE WriteKeyUpdate(p)
    BY <2>5 DEF WriteKeyUpdate
  <2>6. CASE ClearKeyUpdatePending(p)
    BY <2>6 DEF ClearKeyUpdatePending
  <2>7. CASE NstWrite(p)
    BY <2>7 DEF NstWrite
  <2>8. CASE NstDone(p)
    BY <2>8 DEF NstDone
  <2>9. CASE NstExpired(p)
    BY <2>9 DEF NstExpired
  <2>10. CASE WriteData(p)
    BY <2>10 DEF WriteData
  <2>11. CASE WriteAlert(p)
    BY <2>11 DEF WriteAlert
  <2>12. CASE SkipAlert(p)
    BY <2>12 DEF SkipAlert
  <2>13. CASE ShutdownPaused(p)
    BY <2>13 DEF ShutdownPaused
  <2>14. CASE ShutdownSent(p)
    BY <2>14 DEF ShutdownSent
  <2>15. CASE ShutdownExpects(p)
    BY <2>15 DEF ShutdownExpects
  <2>16. CASE ShutdownCloses(p)
    BY <2>16 DEF ShutdownCloses, ShutdownReturns
  <2> QED
    BY <1>1, <2>1, <2>2, <2>3, <2>4, <2>5, <2>6, <2>7, <2>8, <2>9, <2>10, <2>11, <2>12, <2>13,
       <2>14, <2>15, <2>16 DEF Writer
<1>2. CASE Reader(p)
  <2>1. CASE RecvData(p)
    BY <2>1 DEF RecvData
  <2>2. CASE s2n_key_update_recv(p)
    BY <2>2 DEF s2n_key_update_recv
  <2>3. CASE RecvCloseNotify(p)
    BY <2>3 DEF RecvCloseNotify
  <2>4. CASE RecvErrorAlert(p)
    BY <2>4 DEF RecvErrorAlert
  <2>5. CASE FlagErrorAlert(p)
    BY <2>5 DEF FlagErrorAlert
  <2>6. CASE RecvBadRecord(p)
    BY <2>6 DEF RecvBadRecord
  <2>7. CASE StartBlinding(p)
    BY <2>7 DEF StartBlinding
  <2>8. CASE RecvTransportEnd(p)
    BY <2>8 DEF RecvTransportEnd
  <2>9. CASE RecvReturnsZero(p)
    BY <2>9 DEF RecvReturnsZero
  <2> QED
    BY <1>2, <2>1, <2>2, <2>3, <2>4, <2>5, <2>6, <2>7, <2>8, <2>9 DEF Reader
<1>3. CASE Application(p)
  <2>1. CASE SendStart(p)
    BY <2>1 DEF SendStart
  <2>2. CASE s2n_connection_request_key_update(p)
    BY <2>2 DEF s2n_connection_request_key_update
  <2>3. ASSUME NEW full \in Bit, ShutdownStart(p, full) PROVE HalfInv(q)'
    BY <2>3 DEF ShutdownStart
  <2> QED
    BY <1>3, <2>1, <2>2, <2>3 DEF Application
<1>4. CASE Environment(p)
  <2>1. CASE PeerAborts(p)
    BY <2>1 DEF PeerAborts
  <2>2. CASE BlindingElapses(p)
    BY <2>2 DEF BlindingElapses
  <2>3. CASE TransportClose(p)
    BY <2>3 DEF TransportClose
  <2> QED
    BY <1>4, <2>1, <2>2, <2>3 DEF Environment
<1>5. CASE Drain(p)
  BY <1>5 DEF Drain, DrainDrop, DrainCloseNotify, DrainErrorAlert, DrainBadRecord,
              DrainTransportEnd, DrainBlocked, DrainDone, Draining
<1> QED
  BY <1>1, <1>2, <1>3, <1>4, <1>5

\* The receiver stays in step while the sender goes on.
LEMMA SyncFrame ==
  ASSUME TypeOK, NEW q \in Peers, ReadInv(q), OutInv(Other(q)), SyncInv(q),
         SameReading(q), Steady(Other(q))
  PROVE  SyncInv(q)'
<1>1. rd[q] + 1 \in 1..(Len(log[Other(q)]) + 1)
  <2>1. rd[q] \in Nat /\ flushed[Other(q)] \in Nat /\ Len(log[Other(q)]) \in Nat
    BY OtherPeer DEF TypeOK
  <2> QED
    BY <2>1 DEF ReadInv, OutInv
<1>2. PICK i \in 1..(Len(log[Other(q)]) + 1) : i = rd[q] + 1
  BY <1>1
<1>3. Nonce(Other(q), i)' = Nonce(Other(q), i)
  BY <1>2 DEF Steady
<1>4. i = rd'[q] + 1
  BY <1>2 DEF SameReading
<1> QED
  BY <1>2, <1>3, <1>4 DEF SyncInv, SameReading

\* The next record decrypts, and once it is read the one after it does.
LEMMA OwnSync ==
  ASSUME Corruptible = {}, TypeOK, TypeOK', NEW q \in Peers, ReadInv(q), SenderInv(Other(q)),
         SyncInv(q), Reader(q)
  PROVE  SyncInv(q)'
<1> DEFINE r == Other(q)
<1>1. log'[r] = log[r] /\ send_key'[r] = send_key[r] /\ send_seq'[r] = send_seq[r]
  BY OtherPeer, ReadingPassive DEF Passive
<1>2. /\ rd[q] \in Nat /\ rd'[q] \in Nat /\ Len(log[r]) \in Nat /\ flushed[r] \in Nat
      /\ flushed[r] <= Len(log[r]) /\ recv_key[q] \in Nat /\ recv_seq[q] \in Nat
  BY OtherPeer DEF TypeOK, SenderInv, OutInv
<1> HIDE DEF r
<1>3. \A i \in Nat : Nonce(r, i)' = Nonce(r, i)
  BY <1>1 DEF Nonce
<1>4. HasRecord(q) => rd[q] + 1 \in 1..Len(log[r])
  BY <1>2 DEF HasRecord, r
<1>5. HasRecord(q) => Decrypts(q)
  <2>1. SUFFICES ASSUME HasRecord(q) PROVE Decrypts(q)
    OBVIOUS
  <2>2. [key |-> recv_key[q], seq |-> recv_seq[q]] = [key |-> log[r][rd[q] + 1].key, seq |-> log[r][rd[q] + 1].seq]
    BY <1>2, <1>4, <2>1 DEF SyncInv, Nonce, r
  <2> QED
    BY <2>2 DEF Decrypts, NextRecord, r
<1>6. ASSUME HasRecord(q), rd'[q] = rd[q] + 1,
             [key |-> recv_key'[q], seq |-> recv_seq'[q]] = After(NextRecord(q))
      PROVE  SyncInv(q)'
  <2>1. PICK i \in 1..Len(log[r]) : i = rd[q] + 1
    BY <1>4, <1>6
  <2>2. Nonce(r, i + 1) = After(log[r][i])
    BY <2>1 DEF SenderInv, ChainInv, r
  <2>3. Nonce(r, i + 1)' = After(log[r][i]) /\ i + 1 = rd'[q] + 1
    BY <1>2, <1>3, <1>6, <2>1, <2>2
  <2> QED
    BY <1>6, <2>1, <2>3 DEF SyncInv, NextRecord, r
<1>7. ASSUME rd'[q] = rd[q], recv_key'[q] = recv_key[q], recv_seq'[q] = recv_seq[q]
      PROVE  SyncInv(q)'
  <2>1. PICK i \in Nat : i = rd[q] + 1
    BY <1>2
  <2>2. Nonce(r, i)' = Nonce(r, i) /\ i = rd'[q] + 1
    BY <1>3, <1>7, <2>1
  <2> QED
    BY <1>7, <2>1, <2>2 DEF SyncInv, r
<1>8. ASSUME HasRecord(q), NextRecord(q).type \notin Updates, rd'[q] = rd[q] + 1,
             recv_key'[q] = recv_key[q], recv_seq'[q] = recv_seq[q] + 1
      PROVE  SyncInv(q)'
  BY <1>5, <1>6, <1>8 DEF After, Decrypts
<1>9. ASSUME HasRecord(q), NextRecord(q).type \in Updates, rd'[q] = rd[q] + 1,
             recv_key'[q] = recv_key[q] + 1, recv_seq'[q] = 0
      PROVE  SyncInv(q)'
  BY <1>5, <1>6, <1>9 DEF After, Decrypts
<1>10. CASE RecvData(q)
  BY <1>10, <1>8 DEF RecvData, read_full_record, count_record, Updates, TypeOK, keys, wire,
     closes, sender, threads, outcomes
<1>11. CASE s2n_key_update_recv(q)
  BY <1>11, <1>9 DEF s2n_key_update_recv, read_full_record, update_receiving_keys, Updates,
     TypeOK, keys, wire, closes, sender, threads, outcomes
<1>12. CASE RecvCloseNotify(q)
  BY <1>12, <1>8 DEF RecvCloseNotify, read_full_record, count_record, Updates, TypeOK, keys,
     wire, closes, sender, threads, outcomes
<1>13. CASE RecvErrorAlert(q)
  BY <1>13, <1>8 DEF RecvErrorAlert, read_full_record, count_record, Updates, TypeOK, keys,
     wire, closes, sender, threads, outcomes
<1>14. CASE FlagErrorAlert(q)
  BY <1>14, <1>7 DEF FlagErrorAlert, Updates, TypeOK, keys, wire, closes, sender, threads,
     outcomes
<1>15. CASE RecvBadRecord(q)
  BY <1>15, <1>5 DEF RecvBadRecord, ParseFails
<1>16. CASE StartBlinding(q)
  BY <1>16, <1>7 DEF StartBlinding, Updates, TypeOK, keys, wire, closes, sender, threads,
     outcomes
<1>17. CASE RecvTransportEnd(q)
  BY <1>17, <1>7 DEF RecvTransportEnd, Updates, TypeOK, keys, wire, closes, sender, threads,
     outcomes
<1>18. CASE RecvReturnsZero(q)
  BY <1>18, <1>7 DEF RecvReturnsZero, Updates, TypeOK, keys, wire, closes, sender, threads,
     outcomes
<1> QED
  BY <1>10, <1>11, <1>12, <1>13, <1>14, <1>15, <1>16, <1>17, <1>18 DEF Reader
-----------------------------------------------------------------------------
Inv == TypeOK /\ \A p \in Peers : SenderInv(p) /\ ReadInv(p)

\* The inductive invariant holds at first,
LEMMA InvInit == Init => Inv
<1> SUFFICES ASSUME Init PROVE Inv
  OBVIOUS
<1>1. TypeOK
  BY TypeInit
<1>2. ASSUME NEW p \in Peers PROVE SenderInv(p) /\ ReadInv(p)
  <2>1. /\ log[p] = <<>> /\ Len(log[p]) = 0 /\ flushed[p] = 0 /\ rd[p] = 0 /\ flushed[Other(p)] = 0
        /\ send_key[p] = 0 /\ send_seq[p] = 0 /\ wpc[p] = "idle" /\ alert_sent[p] = 0
        /\ close_notify_received[p] = 0 /\ eof[p] = 0
    BY OtherPeer DEF Init
  <2>2. tickets[p] <= MaxTickets
    BY DuplexAssumption DEF Init, Peers
  <2>3. EncryptionLimit \in Nat /\ MaxTickets \in Nat
    BY DuplexAssumption
  <2>4. OutInv(p) /\ NonceInv(p) /\ AlertInv(p)
    BY <2>1 DEF OutInv, NonceInv, AlertInv, SendPC, ShutdownPC
  <2>5. LimitInv(p)
    BY <2>1, <2>2, <2>3 DEF LimitInv
  <2>6. ChainInv(p) /\ ReadInv(p)
    BY <2>1 DEF ChainInv, Nonce, ReadInv
  <2> QED
    BY <2>4, <2>5, <2>6 DEF SenderInv
<1> QED
  BY <1>1, <1>2 DEF Inv

\* A stuttering step disturbs nobody.
LEMMA Stuttering ==
  ASSUME UNCHANGED vars, NEW q \in Peers
  PROVE  Passive(q) /\ SameReading(q)
BY DEF vars, keys, wire, closes, sender, threads, outcomes, Passive, SameReading

\* and every step, being a step of one connection, passive or steady for the other, preserves it.
LEMMA InvStep == Inv /\ [Next]_vars => Inv'
<1>0. SUFFICES ASSUME Inv, [Next]_vars PROVE Inv'
  OBVIOUS
<1>1. TypeOK /\ TypeOK' /\ \A q \in Peers : SenderInv(q) /\ ReadInv(q)
  BY <1>0, TypeStep DEF Inv
<1>2. ASSUME NEW q \in Peers, NEW p \in Peers, Writer(p) \/ Application(p) \/ Environment(p)
      PROVE  SenderInv(q)' /\ Steady(q) /\ SameReading(q)
  <2>1. SameReading(q)
    BY <1>1, <1>2, SendingSteady DEF SameReading, reading
  <2>2. CASE q = p
    BY <1>1, <1>2, <2>1, <2>2, SenderStep, SendingSteady
  <2>3. CASE q # p
    BY <1>1, <1>2, <2>1, <2>3, OthersPassive, PassiveStep, PassiveSteady
  <2> QED
    BY <2>2, <2>3
<1>3. ASSUME NEW q \in Peers, NEW p \in Peers, Reader(p) \/ Drain(p)
      PROVE  SenderInv(q)' /\ Steady(q) /\ (q # p => SameReading(q))
  BY <1>1, <1>3, ReadingPassive, PassiveStep, PassiveSteady, OthersReading
<1>4. ASSUME NEW q \in Peers PROVE SenderInv(q)' /\ ReadInv(q)'
  <2>1. CASE UNCHANGED vars
    BY <1>1, <2>1, OtherPeer, Stuttering, PassiveStep, PassiveSteady, ReadFrame
  <2>2. ASSUME NEW p \in Peers, Writer(p) \/ Application(p) \/ Environment(p)
        PROVE  SenderInv(q)' /\ ReadInv(q)'
    BY <1>1, <1>2, <2>2, OtherPeer, ReadFrame
  <2>3. ASSUME NEW p \in Peers, Reader(p) \/ Drain(p)
        PROVE  SenderInv(q)' /\ ReadInv(q)'
    <3>1. CASE q = p
      BY <1>1, <1>3, <2>3, <3>1, OtherPeer, OwnReading
    <3>2. CASE q # p
      BY <1>1, <1>3, <2>3, <3>2, OtherPeer, ReadFrame
    <3> QED
      BY <3>1, <3>2
  <2> QED
    BY <1>0, <2>1, <2>2, <2>3 DEF Next
<1> QED
  BY <1>1, <1>4 DEF Inv

\* Hence it always holds.
LEMMA Invariance == Spec => []Inv
BY InvInit, InvStep, PTL DEF Spec
-----------------------------------------------------------------------------
(* The answer to update_requested.                                         *)

\* Past the test of key_update_pending and before the record of s2n_send; and
\* from the KeyUpdate in conn->out to its flush.
Past == {"nst_send", "nst_flush", "write_data"}
Renewing == {"clear_pending", "update_flush"}

\* A KeyUpdate among the first n records that the transport did not have when
\* the request came.
UpdatedBy(p, n) == \E k \in request[p].flushed + 1 .. n : log[p][k].type \in Updates

AppAfter(p, i) == i \in 1..Len(log[p]) /\ log[p][i].type = "app" /\ request[p].written < i

\* An unanswered request is still in the flag, and one record at most went out
\* after it, the one that was past the test.
Waiting(p) ==
  /\ key_update_pending[p] = 1 /\ wpc[p] \notin Renewing
  /\ \A i, j \in 1..Len(log[p]) : AppAfter(p, i) /\ AppAfter(p, j) => i = j
  /\ wpc[p] \in Past => \A i \in 1..Len(log[p]) : ~AppAfter(p, i)

RequestInv(p) ==
  /\ wpc[p] \in Renewing => flushed[p] < Len(log[p]) /\ log[p][Len(log[p])].type \in Updates
  /\ request[p].written >= 0 =>
       /\ request[p].flushed <= request[p].written /\ request[p].written <= Len(log[p])
       /\ \A i, j \in 1..Len(log[p]) : AppAfter(p, i) /\ AppAfter(p, j) /\ i < j => UpdatedBy(p, j)
       /\ UpdatedBy(p, Len(log[p])) \/ Waiting(p)

\* A step of q's that writes nothing and answers or makes no request.
Quiet(q) ==
  /\ log'[q] = log[q] /\ request'[q] = request[q]
  /\ key_update_pending'[q] \in {key_update_pending[q], 1} \/ wpc[q] = "clear_pending"
  /\ wpc'[q] \in Past => wpc[q] \in Past \union Renewing \/ key_update_pending[q] = 0
  /\ wpc'[q] \in Renewing => wpc[q] \in Renewing /\ flushed'[q] = flushed[q]

LEMMA QuietStep ==
  ASSUME TypeOK, NEW q \in Peers, RequestInv(q), Quiet(q)
  PROVE  RequestInv(q)'
<1>1. wpc'[q] \in Renewing => flushed'[q] < Len(log'[q]) /\ log'[q][Len(log'[q])].type \in Updates
  BY DEF RequestInv, Quiet
<1>2. \A i : AppAfter(q, i)' <=> AppAfter(q, i)
  BY DEF AppAfter, Quiet
<1>3. \A n : UpdatedBy(q, n)' <=> UpdatedBy(q, n)
  BY DEF UpdatedBy, Quiet
<1>4. ASSUME Waiting(q) PROVE Waiting(q)'
  <2>1. key_update_pending'[q] = 1 /\ wpc'[q] \notin Renewing
    BY <1>4 DEF Waiting, Quiet, Renewing
  <2>2. wpc'[q] \in Past => wpc[q] \in Past
    BY <1>4 DEF Waiting, Quiet
  <2> QED
    BY <1>2, <1>4, <2>1, <2>2 DEF Waiting, Quiet
<1> QED
  BY <1>1, <1>2, <1>3, <1>4 DEF RequestInv, Quiet

\* A step in which q writes a record of this type.
Renews(q, type) ==
  /\ Writes(q, type) /\ request'[q] = request[q]
  /\ key_update_pending'[q] = key_update_pending[q]
  /\ type \in Updates => flushed'[q] = flushed[q]
  /\ type \notin Updates => wpc'[q] \notin Renewing
  /\ type = "app" => wpc[q] = "write_data" /\ wpc'[q] \notin Past
  /\ wpc'[q] \in Past => wpc[q] \in Past

LEMMA RenewsStep ==
  ASSUME TypeOK, NEW q \in Peers, NEW type \in Types, OutInv(q), RequestInv(q), Renews(q, type)
  PROVE  RequestInv(q)'
<1>1. PICK n : n = Len(log[q])
  OBVIOUS
<1>2. n \in Nat /\ Len(log'[q]) = n + 1 /\ \A i \in 1..n : log'[q][i] = log[q][i]
  BY <1>1, Written DEF Renews
<1>3. log'[q][n + 1].type = type
  <2>1. log'[q][n + 1] = [type |-> type, key |-> send_key[q], seq |-> send_seq[q]]
    BY <1>1, Written DEF Renews
  <2> QED
    BY <2>1
<1>4. request[q].flushed \in Nat /\ request[q].written \in Int /\ flushed[q] \in Nat
  <2>1. request[q] \in [flushed : Nat, written : Int]
    BY DEF TypeOK
  <2> QED
    BY <2>1 DEF TypeOK
<1>5. wpc'[q] \in Renewing => flushed'[q] < n + 1 /\ log'[q][n + 1].type \in Updates
  BY <1>1, <1>2, <1>3, <1>4 DEF Renews, OutInv
<1>6. ASSUME request[q].written >= 0 PROVE
        /\ request[q].flushed <= request[q].written /\ request[q].written <= n + 1
        /\ \A i, j \in 1..(n + 1) : AppAfter(q, i)' /\ AppAfter(q, j)' /\ i < j => UpdatedBy(q, j)'
        /\ UpdatedBy(q, n + 1)' \/ Waiting(q)'
  <2>1. request[q].flushed <= request[q].written /\ request[q].written <= n
    BY <1>1, <1>6 DEF RequestInv
  <2>7. request[q].written <= n + 1
    BY <1>2, <1>4, <2>1
  <2>2. \A i \in 1..n : AppAfter(q, i)' <=> AppAfter(q, i)
    BY <1>1, <1>2 DEF AppAfter, Renews
  <2>3. AppAfter(q, n + 1)' => type = "app"
    BY <1>3 DEF AppAfter
  <2>4. ASSUME NEW m \in 1..n, UpdatedBy(q, m) PROVE \A j \in m..(n + 1) : UpdatedBy(q, j)'
    <3>1. PICK k \in request[q].flushed + 1 .. m : log[q][k].type \in Updates
      BY <2>4 DEF UpdatedBy
    <3>2. k \in 1..n /\ log'[q][k].type \in Updates
      BY <1>2, <1>4, <2>4, <3>1
    <3>3. request'[q] = request[q]
      BY DEF Renews
    <3>4. ASSUME NEW j \in m..(n + 1) PROVE k \in request'[q].flushed + 1 .. j
      BY <1>2, <1>4, <2>4, <3>1, <3>3, <3>4
    <3> QED
      BY <3>2, <3>4 DEF UpdatedBy
  <2>5. CASE UpdatedBy(q, n)
    <3>1. n \in 1..n
      BY <1>2, <1>4, <2>1, <2>5 DEF UpdatedBy
    <3>2. UpdatedBy(q, n + 1)'
      BY <1>2, <2>4, <2>5, <3>1
    <3>3. ASSUME NEW i \in 1..(n + 1), NEW j \in 1..(n + 1), AppAfter(q, i)', AppAfter(q, j)', i < j
          PROVE  UpdatedBy(q, j)'
      <4>1. CASE j = n + 1
        BY <3>2, <4>1
      <4>2. CASE j \in 1..n
        <5>1. i \in 1..n
          BY <1>2, <3>3, <4>2
        <5>2. UpdatedBy(q, j)
          BY <1>1, <1>6, <2>2, <3>3, <4>2, <5>1 DEF RequestInv
        <5>3. j \in j..(n + 1)
          BY <1>2, <4>2
        <5> QED
          BY <2>4, <4>2, <5>2, <5>3
      <4> QED
        BY <1>2, <4>1, <4>2
    <3> QED
      BY <2>1, <2>7, <3>2, <3>3
  <2>6. CASE ~UpdatedBy(q, n)
    <3>1. Waiting(q)
      BY <1>1, <1>6, <2>6 DEF RequestInv
    <3>2. \A i, j \in 1..n : AppAfter(q, i) /\ AppAfter(q, j) => i = j
      BY <1>1, <3>1 DEF Waiting
    <3>3. type = "app" => \A i \in 1..n : ~AppAfter(q, i)
      BY <1>1, <3>1 DEF Waiting, Renews, Past
    <3>4. \A i, j \in 1..(n + 1) : AppAfter(q, i)' /\ AppAfter(q, j)' => i = j
      <4> SUFFICES ASSUME NEW i \in 1..(n + 1), NEW j \in 1..(n + 1), AppAfter(q, i)', AppAfter(q, j)'
                   PROVE  i = j
        OBVIOUS
      <4>1. \A x \in 1..(n + 1) : x \in 1..n \/ x = n + 1
        BY <1>2
      <4>2. CASE i \in 1..n /\ j \in 1..n
        BY <2>2, <3>2, <4>2
      <4>3. CASE i = n + 1 /\ j \in 1..n
        BY <2>2, <2>3, <3>3, <4>3
      <4>4. CASE j = n + 1 /\ i \in 1..n
        BY <2>2, <2>3, <3>3, <4>4
      <4> QED
        BY <4>1, <4>2, <4>3, <4>4
    <3>5. \A i, j \in 1..(n + 1) : AppAfter(q, i)' /\ AppAfter(q, j)' /\ i < j => UpdatedBy(q, j)'
      <4>1. \A i, j \in 1..(n + 1) : i < j => i # j
        BY <1>2
      <4> QED
        BY <3>4, <4>1
    <3>6. CASE type \in Updates
      <4>1. n + 1 \in request'[q].flushed + 1 .. n + 1
        BY <1>2, <1>4, <2>1 DEF Renews
      <4>2. UpdatedBy(q, n + 1)'
        BY <1>3, <3>6, <4>1 DEF UpdatedBy
      <4> QED
        BY <2>1, <2>7, <3>5, <4>2
    <3>7. CASE type \notin Updates
      <4>1. key_update_pending'[q] = 1 /\ wpc'[q] \notin Renewing
        BY <3>1, <3>7 DEF Waiting, Renews
      <4>2. ASSUME wpc'[q] \in Past, NEW i \in 1..(n + 1) PROVE ~AppAfter(q, i)'
        <5>1. type # "app" /\ wpc[q] \in Past
          BY <4>2 DEF Renews
        <5>2. CASE i = n + 1
          BY <2>3, <5>1, <5>2
        <5>3. CASE i \in 1..n
          BY <1>1, <2>2, <3>1, <5>1, <5>3 DEF Waiting
        <5> QED
          BY <1>2, <5>2, <5>3
      <4>3. Waiting(q)'
        BY <1>2, <3>4, <4>1, <4>2 DEF Waiting
      <4> QED
        BY <2>1, <2>7, <3>5, <4>3
    <3> QED
      BY <3>6, <3>7
  <2> QED
    BY <2>5, <2>6
<1>7. request'[q] = request[q]
  BY DEF Renews
<1> QED
  BY <1>2, <1>5, <1>6, <1>7 DEF RequestInv

\* The peer's request is handled.
Requested(q) ==
  /\ log'[q] = log[q] /\ flushed'[q] = flushed[q] /\ wpc'[q] = wpc[q]
  /\ key_update_pending'[q] = 1
  /\ request'[q] = [flushed |-> flushed[q], written |-> Len(log[q])]

LEMMA RequestedStep ==
  ASSUME TypeOK, NEW q \in Peers, OutInv(q), RequestInv(q), Requested(q)
  PROVE  RequestInv(q)'
<1>1. PICK n : n = Len(log[q])
  OBVIOUS
<1>2. n \in Nat /\ flushed[q] \in Nat /\ flushed[q] <= n
  BY <1>1 DEF TypeOK, OutInv
<1>3. request'[q].flushed = flushed[q] /\ request'[q].written = n
  BY <1>1 DEF Requested
<1>4. \A i \in 1..n : ~AppAfter(q, i)'
  BY <1>2, <1>3 DEF AppAfter
<1>5. CASE wpc[q] \in Renewing
  <2>1. n \in request'[q].flushed + 1 .. n /\ log'[q][n].type \in Updates
    BY <1>1, <1>2, <1>3, <1>5 DEF RequestInv, Requested
  <2>2. UpdatedBy(q, n)'
    BY <2>1 DEF UpdatedBy
  <2> QED
    BY <1>1, <1>2, <1>3, <1>4, <2>2 DEF RequestInv, Requested
<1>6. CASE wpc[q] \notin Renewing
  <2>1. Waiting(q)'
    BY <1>1, <1>4, <1>6 DEF Waiting, Requested
  <2> QED
    BY <1>1, <1>2, <1>3, <1>4, <1>6, <2>1 DEF RequestInv, Requested
<1> QED
  BY <1>5, <1>6

\* What a step of p does to p's answer.
LEMMA WriterKinds ==
  ASSUME TypeOK, NEW p \in Peers, Writer(p)
  PROVE  Quiet(p) \/ \E type \in Types : Renews(p, type)
<1>0. /\ log \in [Peers -> Seq(Record)] /\ wpc \in [Peers -> WriterPC] /\ flushed \in [Peers -> Nat]
      /\ send_key \in [Peers -> Nat] /\ send_seq \in [Peers -> Nat]
      /\ key_update_pending \in [Peers -> Bit]
  BY DEF TypeOK
<1> USE <1>0 DEF At, Goto, keys, wire, outcomes, Past, Renewing, Bit
<1>1. CASE s2n_flush(p)
  BY <1>1 DEF Quiet, s2n_flush, AfterFlush, Flushing
<1>2. CASE s2n_flush_blocked(p)
  BY <1>2 DEF Quiet, s2n_flush_blocked
<1>3. CASE s2n_check_record_limit(p)
  BY <1>3 DEF Quiet, s2n_check_record_limit
<1>4. CASE TestKeyUpdatePending(p)
  BY <1>4 DEF Quiet, TestKeyUpdatePending
<1>5. CASE WriteKeyUpdate(p)
  <2>1. PICK type \in KeyUpdateTypes(p) : record_write(p, type)
    BY <1>5 DEF WriteKeyUpdate
  <2>2. type \in Types /\ type \in Updates /\ type # "app"
    BY DEF KeyUpdateTypes, Types, Updates
  <2>3. Writes(p, type)
    BY <1>5, <2>1, <2>2 DEF Writes, WriteKeyUpdate, record_write, update_sending_keys
  <2> QED
    BY <1>5, <2>1, <2>2, <2>3 DEF Renews, WriteKeyUpdate, record_write
<1>6. CASE ClearKeyUpdatePending(p)
  BY <1>6 DEF Quiet, ClearKeyUpdatePending
<1>7. CASE NstWrite(p)
  <2>1. Writes(p, "ticket")
    BY <1>7 DEF Writes, NstWrite, record_write, increment_sequence_number, Updates
  <2>2. Renews(p, "ticket")
    BY <1>7, <2>1 DEF Renews, NstWrite, Updates
  <2> QED
    BY <2>2 DEF Types
<1>8. CASE NstDone(p)
  BY <1>8 DEF Quiet, NstDone
<1>9. CASE NstExpired(p)
  BY <1>9 DEF Quiet, NstExpired
<1>10. CASE WriteData(p)
  <2>1. Writes(p, "app")
    BY <1>10 DEF Writes, WriteData, record_write, increment_sequence_number, Updates
  <2>2. Renews(p, "app")
    BY <1>10, <2>1 DEF Renews, WriteData, Updates
  <2> QED
    BY <2>2 DEF Types
<1>11. CASE WriteAlert(p)
  <2>1. Writes(p, "close_notify")
    BY <1>11 DEF Writes, WriteAlert, record_write, increment_sequence_number, Updates
  <2>2. Renews(p, "close_notify")
    BY <1>11, <2>1 DEF Renews, WriteAlert, Updates
  <2> QED
    BY <2>2 DEF Types
<1>12. CASE SkipAlert(p)
  BY <1>12 DEF Quiet, SkipAlert
<1>13. CASE ShutdownPaused(p)
  BY <1>13 DEF Quiet, ShutdownPaused
<1>14. CASE ShutdownSent(p)
  BY <1>14 DEF Quiet, ShutdownSent
<1>15. CASE ShutdownExpects(p)
  BY <1>15 DEF Quiet, ShutdownExpects
<1>16. CASE ShutdownCloses(p)
  BY <1>16 DEF Quiet, ShutdownCloses, ShutdownReturns
<1> QED
  BY <1>1, <1>2, <1>3, <1>4, <1>5, <1>6, <1>7, <1>8, <1>9, <1>10, <1>11, <1>12, <1>13, <1>14,
     <1>15, <1>16 DEF Writer

LEMMA CallKinds ==
  ASSUME TypeOK, NEW p \in Peers, Application(p) \/ Environment(p)
  PROVE  Quiet(p) \/ \E type \in Types : Renews(p, type)
<1>0. /\ log \in [Peers -> Seq(Record)] /\ wpc \in [Peers -> WriterPC]
      /\ send_key \in [Peers -> Nat] /\ send_seq \in [Peers -> Nat]
      /\ key_update_pending \in [Peers -> Bit]
  BY DEF TypeOK
<1> USE <1>0 DEF At, Goto, keys, wire, threads, outcomes, Past, Renewing, Bit
<1>1. CASE SendStart(p)
  BY <1>1 DEF Quiet, SendStart
<1>2. CASE s2n_connection_request_key_update(p)
  BY <1>2 DEF Quiet, s2n_connection_request_key_update
<1>3. ASSUME NEW full \in Bit, ShutdownStart(p, full) PROVE Quiet(p)
  BY <1>3 DEF Quiet, ShutdownStart
<1>4. CASE PeerAborts(p)
  <2>1. Writes(p, "error_alert")
    BY <1>4 DEF Writes, PeerAborts, increment_sequence_number, Updates
  <2>2. Renews(p, "error_alert")
    BY <1>4, <2>1 DEF Renews, PeerAborts, Updates
  <2> QED
    BY <2>2 DEF Types
<1>5. CASE BlindingElapses(p)
  BY <1>5 DEF Quiet, BlindingElapses
<1>6. CASE TransportClose(p)
  BY <1>6 DEF Quiet, TransportClose
<1> QED
  BY <1>1, <1>2, <1>3, <1>4, <1>5, <1>6 DEF Application, Environment

LEMMA ReaderKinds ==
  ASSUME TypeOK, NEW p \in Peers, Reader(p) \/ Drain(p)
  PROVE  Quiet(p) \/ Requested(p)
<1>0. /\ wpc \in [Peers -> WriterPC] /\ key_update_pending \in [Peers -> Bit]
      /\ request \in [Peers -> [flushed : Nat, written : Int]]
  BY DEF TypeOK
<1>1. CASE s2n_key_update_recv(p)
  <2>1. CASE NextRecord(p).type = "update_requested"
    BY <1>0, <1>1, <2>1 DEF Requested, s2n_key_update_recv, read_full_record, threads
  <2>2. CASE NextRecord(p).type # "update_requested"
    BY <1>0, <1>1, <2>2 DEF Quiet, s2n_key_update_recv, read_full_record, threads
  <2> QED
    BY <2>1, <2>2
<1>2. CASE Reader(p) /\ ~s2n_key_update_recv(p)
  BY <1>0, <1>2 DEF Quiet, Reader, RecvData, RecvCloseNotify, RecvErrorAlert, FlagErrorAlert,
     RecvBadRecord, StartBlinding, RecvTransportEnd, RecvReturnsZero, read_full_record,
     threads, outcomes, wire
<1>3. CASE Drain(p)
  BY <1>0, <1>3 DEF Quiet, Drain, DrainDrop, DrainCloseNotify, DrainErrorAlert, DrainBadRecord,
     DrainTransportEnd, DrainBlocked, DrainDone, ShutdownReturns, Goto, read_full_record,
     threads, outcomes, wire, Past, Renewing
<1> QED
  BY <1>1, <1>2, <1>3

\* A step of p leaves the other connection's requests alone.
LEMMA OthersQuiet ==
  ASSUME TypeOK, NEW p \in Peers, NEW q \in Peers, q # p,
         Writer(p) \/ Drain(p) \/ Reader(p) \/ Application(p) \/ Environment(p)
  PROVE  Quiet(q)
<1>1. Passive(q)
  BY OthersPassive, ReadingPassive
<1>2. request'[q] = request[q]
  <2>0. request \in [Peers -> [flushed : Nat, written : Int]]
    BY DEF TypeOK
  <2>1. CASE Writer(p)
    BY <2>1 DEF Writer, s2n_flush, s2n_flush_blocked, s2n_check_record_limit,
       TestKeyUpdatePending, WriteKeyUpdate, ClearKeyUpdatePending, NstWrite, NstDone, NstExpired,
       WriteData, WriteAlert, SkipAlert, ShutdownPaused, ShutdownSent, ShutdownExpects,
       ShutdownCloses, outcomes
  <2>2. CASE Drain(p)
    BY <2>2 DEF Drain, DrainDrop, DrainCloseNotify, DrainErrorAlert, DrainBadRecord,
       DrainTransportEnd, DrainBlocked, DrainDone, outcomes
  <2>3. CASE Reader(p)
    BY <2>0, <2>3 DEF Reader, RecvData, s2n_key_update_recv, RecvCloseNotify, RecvErrorAlert,
       FlagErrorAlert, RecvBadRecord, StartBlinding, RecvTransportEnd, RecvReturnsZero, outcomes
  <2>4. CASE Application(p)
    BY <2>4 DEF Application, SendStart, s2n_connection_request_key_update, ShutdownStart, outcomes
  <2>5. CASE Environment(p)
    BY <2>5 DEF Environment, PeerAborts, BlindingElapses, TransportClose, outcomes
  <2> QED
    BY <2>1, <2>2, <2>3, <2>4, <2>5
<1> QED
  BY <1>1, <1>2 DEF Quiet, Passive, Past, Renewing
-----------------------------------------------------------------------------
(* The theorems.  None assumes anything of the applications but that each  *)
(* connection is used by one writer and one reader.                        *)

\* Every variable keeps its type over every interleaving of the two
\* connections' threads.
THEOREM TypeCorrect == Spec => []TypeOK
<1>1. Inv => TypeOK
  BY DEF Inv
<1> QED
  BY Invariance, <1>1, PTL

\* s2n_record_writev never finds conn->out occupied.
THEOREM StufferDrained == Spec => []RecordStufferDrained
<1>1. Inv => RecordStufferDrained
  BY DEF Inv, SenderInv, OutInv, RecordStufferDrained
<1> QED
  BY Invariance, <1>1, PTL

\* s2n_record_writev never encrypts two records with the same key and sequence
\* number, however key updates, blocked flushes and shutdowns interleave.
THEOREM NoncesUnique == Spec => []NonceNeverReused
<1>1. Inv => NonceNeverReused
  BY DEF Inv, SenderInv, NonceInv, NonceNeverReused
<1> QED
  BY Invariance, <1>1, PTL

\* s2n_check_record_limit bounds what one key encrypts, the tickets that
\* s2n_post_handshake_send adds after the check included.
THEOREM LimitKept == Spec => []RecordLimit
<1>1. Inv => RecordLimit
  BY DEF Inv, SenderInv, LimitInv, RecordLimit
<1> QED
  BY Invariance, <1>1, PTL

\* s2n_shutdown_send's alert is the last record, whatever is retried.
THEOREM AlertsLast == Spec => []AlertIsLast
<1>1. Inv => AlertIsLast
  BY DEF Inv, SenderInv, AlertInv, AlertIsLast, Alerts
<1> QED
  BY Invariance, <1>1, PTL

\* When s2n_recv returns 0 the peer has written no more data than was read.
THEOREM EndOfData == Spec => []EndOfDataIsComplete
<1>1. ASSUME Inv PROVE EndOfDataIsComplete
  <2>1. ASSUME NEW p \in Peers, eof[p] = 1 PROVE rd[p] = Len(log[Other(p)]) /\ rd[p] \in Nat
    BY <1>1, <2>1 DEF Inv, ReadInv, TypeOK
  <2>2. ASSUME NEW p \in Peers, eof[p] = 1 PROVE rd[p] + 1 .. Len(log[Other(p)]) = {}
    BY <2>1, <2>2
  <2> QED
    BY <2>2 DEF EndOfDataIsComplete
<1> QED
  BY Invariance, <1>1, PTL

\* A connection ends in order, however shutdowns, retries and the end of the
\* transport interleave.
THEOREM OrderlyClose == Spec => []ClosesOrderly
<1> QED
  BY AlertsLast, EndOfData, PTL DEF ClosesOrderly

\* As long as neither application calls s2n_shutdown, whose loop drops the
\* peer's KeyUpdates, every record decrypts: s2n_key_update_recv and
\* s2n_key_update_send keep the two ends in step.  No record is altered on the
\* way: the connection does not survive one.
THEOREM KeysInStep == FullShutdown = {} /\ Corruptible = {} => (Spec => []RecordsDecrypt)
<1> SUFFICES ASSUME FullShutdown = {}, Corruptible = {} PROVE Spec => []RecordsDecrypt
  OBVIOUS
<1> DEFINE Sync == \A p \in Peers : SyncInv(p) /\ HalfInv(p)
<1>1. Init => Sync
  <2> SUFFICES ASSUME Init, NEW p \in Peers PROVE SyncInv(p) /\ HalfInv(p)
    OBVIOUS
  <2>1. /\ Len(log[Other(p)]) = 0 /\ rd[p] = 0 /\ recv_key[p] = 0 /\ recv_seq[p] = 0
        /\ send_key[Other(p)] = 0 /\ send_seq[Other(p)] = 0 /\ in_shutdown[p] = 0 /\ wpc[p] = "idle"
    BY OtherPeer DEF Init
  <2> QED
    BY <2>1 DEF SyncInv, HalfInv, Nonce
<1>2. Inv /\ Inv' /\ Sync /\ [Next]_vars => Sync'
  <2>0. SUFFICES ASSUME Inv, Inv', Sync, [Next]_vars, NEW q \in Peers PROVE SyncInv(q)' /\ HalfInv(q)'
    OBVIOUS
  <2>1. /\ TypeOK /\ TypeOK' /\ \A p \in Peers : SenderInv(p) /\ ReadInv(p) /\ OutInv(p)
        /\ \A p \in Peers : SyncInv(p) /\ HalfInv(p)
    BY <2>0 DEF Inv, SenderInv
  <2>2. CASE UNCHANGED vars
    <3>1. SyncInv(q)'
      BY <2>1, <2>2, OtherPeer, Stuttering, PassiveSteady, SyncFrame
    <3>2. HalfInv(q)'
      BY <2>1, <2>2 DEF HalfInv, vars, threads
    <3> QED
      BY <3>1, <3>2
  <2>3. ASSUME NEW p \in Peers, Writer(p) \/ Application(p) \/ Environment(p) PROVE SyncInv(q)' /\ HalfInv(q)'
    <3>1. SameReading(q)
      BY <2>1, <2>3, SendingSteady DEF SameReading, reading
    <3>2. Steady(Other(q))
      BY <2>1, <2>3, OtherPeer, SendingSteady, OthersPassive, PassiveSteady
    <3> QED
      BY <2>1, <2>3, <3>1, <3>2, OtherPeer, SyncFrame, HalfStep
  <2>4. ASSUME NEW p \in Peers, Reader(p) PROVE SyncInv(q)' /\ HalfInv(q)'
    <3>1. HalfInv(q)'
      BY <2>1, <2>4, HalfStep
    <3>2. CASE q = p
      BY <2>1, <2>4, <3>1, <3>2, OtherPeer, OwnSync
    <3>3. CASE q # p
      BY <2>1, <2>4, <3>1, <3>3, OtherPeer, OthersReading, ReadingPassive, PassiveSteady,
         SyncFrame
    <3> QED
      BY <3>2, <3>3
  <2>5. ASSUME NEW p \in Peers, Drain(p) PROVE FALSE
    BY <2>1, <2>5 DEF HalfInv, Drain, DrainDrop, DrainCloseNotify, DrainErrorAlert,
       DrainBadRecord,
                      DrainTransportEnd, DrainBlocked, DrainDone, Draining, At
  <2> QED
    BY <2>0, <2>2, <2>3, <2>4, <2>5 DEF Next
<1>3. Inv /\ Sync => RecordsDecrypt
  <2> SUFFICES ASSUME Inv, Sync, NEW p \in Peers, HasRecord(p) PROVE Decrypts(p)
    BY DEF RecordsDecrypt
  <2>1. rd[p] \in Nat /\ flushed[Other(p)] \in Nat /\ Len(log[Other(p)]) \in Nat
    BY OtherPeer DEF Inv, TypeOK
  <2>2. flushed[Other(p)] <= Len(log[Other(p)])
    BY OtherPeer DEF Inv, SenderInv, OutInv
  <2>3. rd[p] + 1 <= Len(log[Other(p)])
    BY <2>1, <2>2 DEF HasRecord
  <2>4. [key |-> recv_key[p], seq |-> recv_seq[p]] = [key |-> NextRecord(p).key, seq |-> NextRecord(p).seq]
    BY <2>3 DEF SyncInv, Nonce, NextRecord
  <2> QED
    BY <2>4 DEF Decrypts
<1> QED
  BY Invariance, <1>1, <1>2, <1>3, PTL DEF Spec

\* A peer's update_requested is never lost, though s2n_recv sets
\* key_update_pending while s2n_send tests, answers and clears it: for any
\* number of messages, tickets, requests and blocked flushes, at most one
\* record of data is encrypted before the KeyUpdate that answers it.
THEOREM RequestsAnswered == Spec => []RequestAnswered
<1> DEFINE Requests == \A p \in Peers : RequestInv(p)
<1>1. Init => Requests
  <2> SUFFICES ASSUME Init, NEW p \in Peers PROVE RequestInv(p)
    OBVIOUS
  <2>1. wpc[p] = "idle" /\ request[p] = [flushed |-> 0, written |-> -1]
    BY DEF Init
  <2>2. ~(request[p].written >= 0)
    BY <2>1
  <2> QED
    BY <2>1, <2>2 DEF RequestInv, Renewing
<1>2. Inv /\ Requests /\ [Next]_vars => Requests'
  <2> SUFFICES ASSUME Inv, Requests, [Next]_vars, NEW q \in Peers PROVE RequestInv(q)'
    OBVIOUS
  <2>1. TypeOK /\ RequestInv(q) /\ OutInv(q)
    BY DEF Inv, SenderInv
  <2>2. CASE UNCHANGED vars
    <3>1. Quiet(q)
      BY <2>2 DEF Quiet, vars, wire, threads, outcomes, Renewing
    <3> QED
      BY <2>1, <3>1, QuietStep
  <2>3. ASSUME NEW p \in Peers,
               Writer(p) \/ Drain(p) \/ Reader(p) \/ Application(p) \/ Environment(p)
        PROVE  RequestInv(q)'
    <3>1. CASE q # p
      BY <2>1, <2>3, <3>1, OthersQuiet, QuietStep
    <3>2. CASE q = p
      <4>1. Quiet(q) \/ Requested(q) \/ \E type \in Types : Renews(q, type)
        BY <2>1, <2>3, <3>2, WriterKinds, CallKinds, ReaderKinds
      <4> QED
        BY <2>1, <4>1, QuietStep, RequestedStep, RenewsStep
    <3> QED
      BY <3>1, <3>2
  <2> QED
    BY <2>2, <2>3 DEF Next
<1>3. Inv /\ Requests => RequestAnswered
  <2> SUFFICES ASSUME Inv, Requests, NEW p \in Peers, NEW i \in AppRecords(p), NEW j \in AppRecords(p),
                      request[p].written >= 0, request[p].written < i, i < j
               PROVE  \E k \in request[p].flushed + 1 .. j : log[p][k].type \in Updates
    BY DEF RequestAnswered
  <2>1. TypeOK /\ RequestInv(p)
    BY DEF Inv
  <2>2. i \in 1..Len(log[p]) /\ j \in 1..Len(log[p])
    BY DEF AppRecords
  <2>3. Len(log[p]) \in Nat /\ request[p].written \in Int
    <3>1. request[p] \in [flushed : Nat, written : Int]
      BY <2>1 DEF TypeOK
    <3> QED
      BY <2>1, <3>1 DEF TypeOK
  <2>4. AppAfter(p, i) /\ AppAfter(p, j)
    BY <2>2, <2>3 DEF AppAfter, AppRecords
  <2> QED
    BY <2>1, <2>2, <2>4 DEF RequestInv, UpdatedBy
<1> QED
  BY Invariance, <1>1, <1>2, <1>3, PTL DEF Spec
=============================================================================
