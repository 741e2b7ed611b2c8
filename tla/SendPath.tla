------------------------------ MODULE SendPath ------------------------------
(***************************************************************************)
(* s2n_send of tls/s2n_send.c in bytes: the split of the data into         *)
(* records, the output buffer that holds one or several of them, partial   *)
(* writes to the transport, and what a blocked call remembers for the call *)
(* that repeats it.  The reader thread may at any time ask for a KeyUpdate *)
(* (TLS1.3) or queue a warning alert (TLS1.2).                             *)
(*                                                                         *)
(* A byte of application data is its position in the stream the            *)
(* application sends.  The history log keeps of each record the positions  *)
(* it carries and where it ends in the bytes for the transport; conn->out  *)
(* holds the bytes between sent and the end of the last record.            *)
(***************************************************************************)
EXTENDS Integers, Sequences

CONSTANTS
  MaxBytes,         \* bound: bytes the application has to send
  MaxControls,      \* bound: requests of the reader thread
  TLS13,            \* 1 for TLS1.3, 0 for an earlier version
  Fragments,        \* values of max_outgoing_fragment_length
  Override,         \* send_buffer_size_override; 0 if not configured
  MaxOverhead,      \* largest overhead of a record (s2n_record_max_write_size)
  Overheads,        \* overheads that records really have
  ControlSize,      \* size of a KeyUpdate or alert record
  MinPayload,       \* s2n_record_min_write_payload_size
  ResizeThreshold,  \* dynamic_record_resize_threshold
  BeastSplit,       \* 1 for a client with a CBC cipher before TLS1.1
  DynamicBuffers    \* conn->dynamic_buffers

Bit == {0, 1}

ASSUME SendPathAssumption ==
  /\ MaxBytes \in Nat /\ MaxControls \in Nat
  /\ TLS13 \in Bit /\ BeastSplit \in Bit /\ DynamicBuffers \in Bit
  /\ Fragments \subseteq Nat \ {0} /\ Fragments # {}
  /\ MaxOverhead \in Nat \ {0} /\ Overheads \subseteq 1..MaxOverhead /\ Overheads # {}
  /\ Override \in Nat /\ (Override # 0 => Override > MaxOverhead)
  /\ MinPayload \in Nat \ {0} /\ ResizeThreshold \in Nat
  /\ ControlSize \in Nat \ {0}
  /\ \A f \in Fragments : ControlSize <= f + MaxOverhead
  /\ Override # 0 => ControlSize <= Override

VARIABLES
  log,                  \* records written: [from, to, end]
  done,                 \* how many of them the transport has in full
  sent,                 \* bytes the transport has
  out_size,             \* size of conn->out; 0 if freed
  write_cursor,         \* of conn->out
  fragment,             \* max_outgoing_fragment_length
  consumed,             \* current_user_data_consumed
  active,               \* active_application_bytes_consumed
  size,                 \* total_size of the call
  user_data_sent,
  cbc_hack_used,
  key_update_pending,
  reader_warning_out,
  controls,             \* requests of the reader thread so far
  pc,                   \* where the sending thread is
  acked                 \* sum of the counts returned

wire    == << log, done, sent >>
buffer  == << out_size, write_cursor >>
locals  == << size, user_data_sent, cbc_hack_used >>
control == << key_update_pending, reader_warning_out, controls >>
vars    == << wire, buffer, fragment, consumed, active, locals, control, pc, acked >>

PC == {"idle", "entry_flush", "loop", "update_flush", "write_update", "sent_update",
       "write", "data_flush"}
Flushing == {"entry_flush", "update_flush", "sent_update", "data_flush"}

Larger(a, b)  == IF a >= b THEN a ELSE b
Smaller(a, b) == IF a <= b THEN a ELSE b

\* The last application byte, and the last byte, of the first n records.
To(n)  == IF n = 0 THEN 0 ELSE log[n].to
End(n) == IF n = 0 THEN 0 ELSE log[n].end

\* s2n_stuffer_data_available(&conn->out)
Pending == End(Len(log)) - sent

-----------------------------------------------------------------------------
Init ==
  /\ log = << >> /\ done = 0 /\ sent = 0
  /\ out_size = 0 /\ write_cursor = 0
  /\ fragment \in Fragments
  /\ consumed = 0 /\ active = 0
  /\ size = 0 /\ user_data_sent = 0 /\ cbc_hack_used = 0
  /\ key_update_pending = 0 /\ reader_warning_out = 0 /\ controls = 0
  /\ pc = "idle" /\ acked = 0

\* s2n_record_max_write_size
s2n_record_max_write_size(payload) == payload + MaxOverhead

\* s2n_record_max_write_payload_size: a configured send buffer limits it.
s2n_record_max_write_payload_size ==
  IF Override # 0 /\ Override < s2n_record_max_write_size(fragment)
  THEN Override - MaxOverhead ELSE fragment

\* conn->multirecord_send
multirecord_send == Override # 0

\* The buffer s2n_record_writev allocates if there is none.
BufferSize ==
  IF out_size # 0 THEN out_size
  ELSE Larger(Override, s2n_record_max_write_size(s2n_record_max_write_payload_size))

\* s2n_record_writev: the record of application bytes from..to, n bytes in all,
\* behind what the buffer holds.
s2n_record_writev(from, to, n) ==
  /\ log' = Append(log, [from |-> from, to |-> to, end |-> End(Len(log)) + n])
  /\ out_size' = BufferSize
  /\ write_cursor' = write_cursor + n
  /\ UNCHANGED << done, sent >>

\* A record without application data.
WriteControl == s2n_record_writev(To(Len(log)) + 1, To(Len(log)), ControlSize)

\* s2n_sendv_with_offset: whatever the call returns, a buffer that is empty is
\* freed if buffers are dynamic.
dynamic_free_out_buffer ==
  IF DynamicBuffers = 1 /\ Pending = 0
  THEN out_size' = 0 /\ write_cursor' = 0
  ELSE UNCHANGED buffer

Returns ==
  /\ pc' = "idle"
  /\ dynamic_free_out_buffer
-----------------------------------------------------------------------------
(* s2n_sendv_with_offset_impl                                              *)

\* The application passes n of the bytes it has not been told are sent.
Call(n) ==
  /\ pc = "idle" /\ acked + n <= MaxBytes
  /\ size' = n /\ user_data_sent' = 0 /\ cbc_hack_used' = 0
  /\ pc' = "entry_flush"
  /\ UNCHANGED << wire, buffer, fragment, consumed, active, control, acked >>

\* The transport takes n bytes, of one record.
FlushSome(n) ==
  /\ pc \in Flushing /\ Pending > 0
  /\ sent + n <= End(done + 1)
  /\ sent' = sent + n
  /\ done' = IF sent + n = End(done + 1) THEN done + 1 ELSE done
  /\ UNCHANGED << log, buffer, fragment, consumed, active, locals, control, pc, acked >>

\* s2n_flush with a warning alert queued: the buffer is empty, the alert is
\* written and flushed in turn.
FlushWarning ==
  /\ pc \in Flushing /\ Pending = 0 /\ reader_warning_out = 1
  /\ log' = Append(log, [from |-> To(Len(log)) + 1, to |-> To(Len(log)),
                         end |-> End(Len(log)) + ControlSize])
  /\ out_size' = BufferSize
  /\ write_cursor' = ControlSize
  /\ reader_warning_out' = 0
  /\ UNCHANGED << done, sent, fragment, consumed, active, locals, key_update_pending,
                  controls, pc, acked >>

\* s2n_flush returns success, with an empty buffer.
Flushed(here) ==
  /\ pc = here /\ Pending = 0 /\ reader_warning_out = 0

\* What an earlier call has consumed is now sent.  After a while without
\* writing, records start small again.
EntryFlushed ==
  /\ Flushed("entry_flush") /\ consumed <= size
  /\ write_cursor' = 0
  /\ user_data_sent' = consumed
  /\ active' \in {0, active}
  /\ pc' = "loop"
  /\ UNCHANGED << wire, out_size, fragment, consumed, size, cbc_hack_used, control, acked >>

\* S2N_ERR_SEND_SIZE: the call does not repeat the one that was blocked.
InvalidRetry ==
  /\ Flushed("entry_flush") /\ consumed > size
  /\ Returns
  /\ UNCHANGED << wire, fragment, consumed, active, locals, control, acked >>

\* The head of the loop: s2n_post_handshake_send looks at the request for a
\* KeyUpdate, and empties the buffer before it writes one.
NextRecord ==
  /\ pc = "loop" /\ consumed # size
  /\ pc' = IF TLS13 = 1 /\ key_update_pending = 1 THEN "update_flush" ELSE "write"
  /\ UNCHANGED << wire, buffer, fragment, consumed, active, locals, control, acked >>

UpdateFlushed ==
  /\ Flushed("update_flush")
  /\ write_cursor' = 0
  /\ pc' = "write_update"
  /\ UNCHANGED << wire, out_size, fragment, consumed, active, locals, control, acked >>

WriteKeyUpdate ==
  /\ pc = "write_update"
  /\ WriteControl
  /\ key_update_pending' = 0
  /\ pc' = "sent_update"
  /\ UNCHANGED << fragment, consumed, active, locals, reader_warning_out, controls, acked >>

UpdateSent ==
  /\ Flushed("sent_update")
  /\ write_cursor' = 0
  /\ pc' = "write"
  /\ UNCHANGED << wire, out_size, fragment, consumed, active, locals, control, acked >>

\* How much goes into the next record: what is left and fits; little at first
\* if records are sized dynamically; one byte in the first record of a call to
\* protect an old CBC cipher.
MostToWrite == Smaller(size - consumed, s2n_record_max_write_payload_size)
ResizedToWrite ==
  IF active < ResizeThreshold THEN Smaller(MinPayload, MostToWrite) ELSE MostToWrite
SplitsRecord == BeastSplit = 1 /\ ResizedToWrite > 1 /\ cbc_hack_used = 0
ToWrite == IF SplitsRecord THEN 1 ELSE ResizedToWrite

\* s2n_should_flush after a record of n bytes with taken bytes of data.
s2n_should_flush(taken, n) ==
  LET remaining == size - (consumed + taken)
  IN  \/ ~multirecord_send
      \/ remaining <= 0
      \/ BufferSize - (write_cursor + n)
           < s2n_record_max_write_size(Smaller(s2n_record_max_write_payload_size, remaining))

WriteData ==
  /\ pc = "write"
  /\ \E overhead \in Overheads :
       /\ s2n_record_writev(acked + consumed + 1, acked + consumed + ToWrite, ToWrite + overhead)
       /\ pc' = IF s2n_should_flush(ToWrite, ToWrite + overhead) THEN "data_flush" ELSE "loop"
  /\ consumed' = consumed + ToWrite
  /\ active' = active + ToWrite
  /\ cbc_hack_used' = IF SplitsRecord THEN 1 ELSE cbc_hack_used
  /\ UNCHANGED << fragment, size, user_data_sent, control, acked >>

DataFlushed ==
  /\ Flushed("data_flush")
  /\ write_cursor' = 0
  /\ user_data_sent' = consumed
  /\ pc' = "loop"
  /\ UNCHANGED << wire, out_size, fragment, consumed, active, size, cbc_hack_used, control,
                  acked >>

\* The transport takes nothing while data is flushed: a call that has sent
\* some reports how much, and remembers the rest it has consumed.
PartialSend ==
  /\ pc = "data_flush" /\ Pending > 0 /\ user_data_sent > 0
  /\ acked' = acked + user_data_sent
  /\ consumed' = consumed - user_data_sent
  /\ Returns
  /\ UNCHANGED << wire, fragment, active, locals, control >>

\* Mutant of Blocked: a blocked call reports what it has consumed.
blocked_reports_consumed ==
  /\ pc \in Flushing /\ Pending > 0
  /\ pc = "data_flush" => user_data_sent = 0
  /\ acked' = acked + consumed
  /\ consumed' = 0
  /\ Returns
  /\ UNCHANGED << wire, fragment, active, locals, control >>

\* ... in every other flush, or with nothing sent: S2N_ERR_IO_BLOCKED.
Blocked ==
  /\ pc \in Flushing /\ Pending > 0
  /\ pc = "data_flush" => user_data_sent = 0
  /\ Returns
  /\ UNCHANGED << wire, fragment, consumed, active, locals, control, acked >>

\* Mutant of Finish: consumed is not reset.
finish_keeps_consumed ==
  /\ pc = "loop" /\ consumed = size
  /\ acked' = acked + size
  /\ Returns
  /\ UNCHANGED << wire, fragment, consumed, active, locals, control >>

\* Everything has been written and, with the last record, flushed.
Finish ==
  /\ pc = "loop" /\ consumed = size
  /\ acked' = acked + size
  /\ consumed' = 0
  /\ Returns
  /\ UNCHANGED << wire, fragment, active, locals, control >>
-----------------------------------------------------------------------------
(* Between calls, and the reader thread                                    *)

\* s2n_connection_set_max_fragment_length, through s2n_connection_prefer_*.
s2n_connection_set_max_fragment_length(f) ==
  /\ pc = "idle"
  /\ fragment' = f
  /\ out_size' = IF out_size = 0 THEN 0 ELSE Larger(out_size, s2n_record_max_write_size(f))
  /\ UNCHANGED << wire, write_cursor, consumed, active, locals, control, pc, acked >>

\* s2n_connection_release_buffers refuses while the buffer holds data.
s2n_connection_release_buffers ==
  /\ pc = "idle" /\ Pending = 0
  /\ out_size' = 0 /\ write_cursor' = 0
  /\ UNCHANGED << wire, fragment, consumed, active, locals, control, pc, acked >>

\* The reader thread, the application or the record limit asks for a KeyUpdate.
RequestKeyUpdate ==
  /\ TLS13 = 1 /\ controls < MaxControls
  /\ key_update_pending' = 1
  /\ controls' = controls + 1
  /\ UNCHANGED << wire, buffer, fragment, consumed, active, locals, reader_warning_out, pc,
                  acked >>

\* The reader thread refuses a renegotiation.
QueueWarning ==
  /\ TLS13 = 0 /\ controls < MaxControls
  /\ reader_warning_out' = 1
  /\ controls' = controls + 1
  /\ UNCHANGED << wire, buffer, fragment, consumed, active, locals, key_update_pending, pc,
                  acked >>
-----------------------------------------------------------------------------
Step ==
  \/ FlushWarning \/ EntryFlushed \/ InvalidRetry \/ NextRecord
  \/ UpdateFlushed \/ WriteKeyUpdate \/ UpdateSent
  \/ WriteData \/ DataFlushed \/ PartialSend \/ Blocked \/ Finish

Flush == \E n \in 1..Pending : FlushSome(n)

Next ==
  \/ Step \/ Flush
  \/ \E n \in 0..MaxBytes : Call(n)
  \/ \E f \in Fragments : s2n_connection_set_max_fragment_length(f)
  \/ s2n_connection_release_buffers
  \/ RequestKeyUpdate \/ QueueWarning

Spec == Init /\ [][Next]_vars

\* The thread goes on with a call, the transport is writable again and again,
\* and the application repeats a call with all that is left to send.
FairSpec == Spec /\ WF_vars(Step) /\ SF_vars(Flush) /\ SF_vars(acked < MaxBytes /\ Call(MaxBytes - acked))
-----------------------------------------------------------------------------
(* Properties                                                              *)

TypeOK ==
  /\ log \in Seq([from : Nat, to : Nat, end : Nat])
  /\ done \in Nat /\ sent \in Nat
  /\ out_size \in Nat /\ write_cursor \in Nat
  /\ fragment \in Fragments
  /\ consumed \in Nat /\ active \in Nat
  /\ size \in Nat /\ user_data_sent \in Nat /\ cbc_hack_used \in Bit
  /\ key_update_pending \in Bit /\ reader_warning_out \in Bit /\ controls \in Nat
  /\ pc \in PC /\ acked \in Nat

\* The peer reads the application's bytes in order, each of them once: a record
\* goes on where the one before ended, through blocked, partial and repeated
\* calls and the control messages between them.
StreamInOrder == \A i \in 1..Len(log) : log[i].from = To(i - 1) + 1

\* Only what is in records the transport has in full is reported as sent.
AckedIsDelivered == acked <= To(done)

\* A record is never written beyond the end of conn->out (s2n_record_writev
\* would fail in the middle of a call, with the sequence number advanced):
\* s2n_should_flush, a change of the fragment length and the release of buffers
\* always leave space for the next record.
BufferHolds == out_size # 0 => write_cursor <= out_size

\* What the peer and the application may rely on at any time, through blocked,
\* partial and repeated calls: the bytes are in order, those reported as sent have
\* been delivered, and there is room for what comes next.
StreamSafe == StreamInOrder /\ AckedIsDelivered /\ BufferHolds

\* s2n_send implements the stream of bytes that the documentation describes.
Stream == INSTANCE SendStream WITH written <- To(Len(log)), delivered <- To(done)
ImplementsStream == Stream!Spec

\* An application that repeats its call gets everything sent.
AllSent == <>(acked = MaxBytes)

=============================================================================
