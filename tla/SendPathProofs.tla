--------------------------- MODULE SendPathProofs ---------------------------
(* The safety properties of SendPath and its refinement of SendStream, for   *)
(* every length of the data, fragment length, overhead and send buffer.      *)
EXTENDS SendPath, TLAPS

Records == [from : Nat, to : Nat, end : Nat]

\* Inside the loop of s2n_sendv_with_offset_impl, and where it is about to
\* write a record of data.
InLoop  == PC \ {"idle", "entry_flush"}
ToWriteMore == {"update_flush", "write_update", "sent_update", "write"}

\* Records follow each other in the data and in the bytes for the transport.
LogInv ==
  /\ \A i \in 1..Len(log) : log[i].from = To(i - 1) + 1
  /\ \A i, j \in 0..Len(log) : i <= j => To(i) <= To(j)
  /\ \A i, j \in 0..Len(log) : i < j => End(i) < End(j)

\* done is the number of records that end at or before sent.
DoneInv ==
  /\ done <= Len(log)
  /\ done = Len(log) => sent = End(done)
  /\ done < Len(log) => End(done) <= sent /\ sent < End(done + 1)

\* What is consumed and not acknowledged is the end of what has been written.
AckInv ==
  /\ acked + consumed = To(Len(log))
  /\ acked <= To(done)
  /\ acked + consumed <= MaxBytes
  /\ pc # "idle" => acked + size <= MaxBytes
  /\ pc \in InLoop => /\ consumed <= size /\ user_data_sent <= consumed
                      /\ acked + user_data_sent <= To(done)
  /\ pc \in ToWriteMore => consumed < size
  /\ pc = "loop" /\ consumed = size => done = Len(log)

MaxSize == s2n_record_max_write_size(s2n_record_max_write_payload_size)
Room    == s2n_record_max_write_size(Smaller(s2n_record_max_write_payload_size, size - consumed))

\* A buffer holds at least one record, and the next one where it is written.
BufInv ==
  /\ out_size = 0 => write_cursor = 0
  /\ out_size # 0 => write_cursor <= out_size /\ MaxSize <= out_size
  /\ pc \in {"loop", "write"} /\ consumed < size /\ out_size # 0 => write_cursor + Room <= out_size
  /\ pc = "write_update" => write_cursor = 0

Inv == TypeOK /\ LogInv /\ DoneInv /\ AckInv /\ BufInv
-----------------------------------------------------------------------------
(* Lemmas on the operators                                                 *)

\* To and End are numbers.
LEMMA ToEndTypes ==
  ASSUME TypeOK
  PROVE  \A n \in 0..Len(log) : To(n) \in Nat /\ End(n) \in Nat
<1> SUFFICES ASSUME NEW n \in 0..Len(log) PROVE To(n) \in Nat /\ End(n) \in Nat
  OBVIOUS
<1>1. log \in Seq(Records) /\ Len(log) \in Nat
  BY DEF TypeOK, Records
<1>2. n # 0 => log[n] \in Records
  BY <1>1
<1>3. n # 0 => log[n].to \in Nat /\ log[n].end \in Nat
  BY <1>2 DEF Records
<1> QED
  BY <1>3 DEF To, End

\* A record at the end of log leaves those before it alone.
LEMMA AppendFacts ==
  ASSUME TypeOK, NEW r \in Records, log' = Append(log, r)
  PROVE  /\ log' \in Seq(Records) /\ Len(log') = Len(log) + 1 /\ Len(log) \in Nat
         /\ log'[Len(log) + 1] = r
         /\ \A i \in 1..Len(log) : log'[i] = log[i]
         /\ \A i \in 0..Len(log) : To(i)' = To(i) /\ End(i)' = End(i)
         /\ To(Len(log))' = r.to /\ End(Len(log))' = r.end
<1>1. log \in Seq(Records) /\ Len(log) \in Nat
  BY DEF TypeOK, Records
<1>2. /\ log' \in Seq(Records) /\ Len(log') = Len(log) + 1
      /\ log'[Len(log) + 1] = r
      /\ \A i \in 1..Len(log) : log'[i] = log[i]
  BY <1>1
<1>3. \A i \in 0..Len(log) : To(i)' = To(i) /\ End(i)' = End(i)
  BY <1>1, <1>2 DEF To, End
<1>4. To(Len(log))' = r.to /\ End(Len(log))' = r.end
  BY <1>1, <1>2 DEF To, End
<1> QED
  BY <1>1, <1>2, <1>3, <1>4

\* A record that goes on where the last one ended keeps the order.
LEMMA LogStep ==
  ASSUME TypeOK, LogInv, NEW r \in Records, log' = Append(log, r),
         r.from = To(Len(log)) + 1, r.to >= To(Len(log)), r.end > End(Len(log))
  PROVE  LogInv'
<1>0. PICK n : n = Len(log)
  OBVIOUS
<1>1. /\ Len(log') = n + 1 /\ n \in Nat
      /\ log'[n + 1] = r
      /\ \A i \in 1..n : log'[i] = log[i]
      /\ \A i \in 0..n : To(i)' = To(i) /\ End(i)' = End(i)
      /\ To(n + 1)' = r.to /\ End(n + 1)' = r.end
  BY <1>0, AppendFacts DEF To, End
<1>2. /\ r.from \in Nat /\ r.to \in Nat /\ r.end \in Nat
      /\ \A i \in 0..n : To(i) \in Nat /\ End(i) \in Nat
  BY <1>0, ToEndTypes DEF Records
<1>3. ASSUME NEW i \in 1..n + 1
      PROVE  log'[i].from = To(i - 1)' + 1
  <2>1. CASE i \in 1..n
    BY <1>0, <1>1, <2>1 DEF LogInv
  <2>2. CASE i = n + 1
    <3>1. i - 1 = n /\ n \in 0..n
      BY <1>1, <2>2
    <3> QED
      BY <1>0, <1>1, <2>2, <3>1
  <2> QED
    BY <1>1, <2>1, <2>2
<1>4. ASSUME NEW i \in 0..n + 1, NEW j \in 0..n + 1
      PROVE  /\ i <= j => To(i)' <= To(j)'
             /\ i < j => End(i)' < End(j)'
  <2>1. CASE j \in 0..n
    <3>1. CASE i \in 0..n
      BY <1>0, <1>1, <2>1, <3>1 DEF LogInv
    <3>2. CASE i = n + 1
      BY <1>1, <2>1, <3>2
    <3> QED
      BY <1>1, <3>1, <3>2
  <2>2. CASE j = n + 1
    <3>1. CASE i \in 0..n
      <4>1. To(i) <= To(n) /\ (i < n => End(i) < End(n))
        BY <1>0, <1>1, <3>1 DEF LogInv
      <4>2. To(i)' = To(i) /\ End(i)' = End(i) /\ To(j)' = r.to /\ End(j)' = r.end
        BY <1>1, <2>2, <3>1
      <4>3. /\ To(i) \in Nat /\ To(n) \in Nat /\ End(i) \in Nat /\ End(n) \in Nat
            /\ r.to \in Nat /\ r.end \in Nat
        BY <1>1, <1>2, <3>1
      <4>4. To(i) <= r.to
        BY <1>0, <4>1, <4>3
      <4>5. End(i) < r.end
        BY <1>0, <1>1, <3>1, <4>1, <4>3
      <4> QED
        BY <4>2, <4>4, <4>5
    <3>2. CASE i = n + 1
      BY <1>1, <1>2, <2>2, <3>2
    <3> QED
      BY <1>1, <3>1, <3>2
  <2> QED
    BY <1>1, <2>1, <2>2
<1> QED
  BY <1>1, <1>3, <1>4 DEF LogInv

\* Nothing is pending exactly when every record has been sent.
LEMMA PendingFacts ==
  ASSUME TypeOK, LogInv, DoneInv
  PROVE  /\ Len(log) \in Nat /\ Pending \in Nat
         /\ Pending = 0 <=> done = Len(log)
         /\ Pending > 0 => done < Len(log)
<1>1. Len(log) \in Nat /\ done \in Nat /\ sent \in Nat
  BY DEF TypeOK
<1>2. \A n \in 0..Len(log) : End(n) \in Nat
  BY ToEndTypes
<1>3. CASE done = Len(log)
  BY <1>1, <1>2, <1>3 DEF DoneInv, Pending
<1>4. CASE done < Len(log)
  <2>1. done + 1 \in 0..Len(log) /\ sent < End(done + 1)
    BY <1>1, <1>4 DEF DoneInv
  <2>2. End(done + 1) <= End(Len(log))
    BY <1>1, <1>2, <2>1 DEF LogInv
  <2> QED
    BY <1>1, <1>2, <1>4, <2>1, <2>2 DEF Pending
<1>5. PICK n \in Nat : n = Len(log) /\ done <= n
  BY <1>1 DEF DoneInv
<1>6. done = n \/ done < n
  BY <1>1, <1>5
<1> QED
  BY <1>1, <1>3, <1>4, <1>5, <1>6

\* The largest payload is positive and leaves space for the overhead.
LEMMA PayloadFacts ==
  ASSUME TypeOK
  PROVE  /\ s2n_record_max_write_payload_size \in Nat \ {0}
         /\ MaxSize = s2n_record_max_write_payload_size + MaxOverhead
         /\ MaxSize <= fragment + MaxOverhead
         /\ ControlSize <= MaxSize
  BY SendPathAssumption DEF TypeOK, s2n_record_max_write_payload_size, MaxSize, s2n_record_max_write_size

\* The buffer that s2n_record_writev finds or allocates.
LEMMA BufferFacts ==
  ASSUME TypeOK, BufInv
  PROVE  /\ BufferSize \in Nat /\ MaxSize <= BufferSize /\ BufferSize # 0
         /\ write_cursor <= BufferSize
         /\ out_size # 0 => BufferSize = out_size
<1>1. MaxSize \in Nat /\ MaxSize # 0
  BY PayloadFacts, SendPathAssumption
<1> QED
  BY <1>1, SendPathAssumption DEF BufInv, BufferSize, MaxSize, Larger, TypeOK

\* A record takes at least one byte, no more than is left and than fits.
LEMMA ToWriteFacts ==
  ASSUME TypeOK, consumed < size
  PROVE  /\ ToWrite \in Nat \ {0} /\ ToWrite <= size - consumed
         /\ ToWrite + MaxOverhead <= Room
         /\ Room \in Nat /\ Room <= MaxSize
<1>1. s2n_record_max_write_payload_size \in Nat \ {0}
      /\ MaxSize = s2n_record_max_write_payload_size + MaxOverhead
  BY PayloadFacts
<1>2. MostToWrite \in Nat \ {0} /\ MostToWrite <= size - consumed /\ Room = MostToWrite + MaxOverhead
      /\ Room <= MaxSize
  BY <1>1, SendPathAssumption DEF TypeOK, MostToWrite, Room, Smaller, s2n_record_max_write_size
<1>3. ResizedToWrite \in Nat \ {0} /\ ResizedToWrite <= MostToWrite
  BY <1>2, SendPathAssumption DEF ResizedToWrite, Smaller
<1>4. ToWrite \in Nat \ {0} /\ ToWrite <= ResizedToWrite
  BY <1>3 DEF ToWrite, SplitsRecord
<1> QED
  BY <1>1, <1>2, <1>3, <1>4, SendPathAssumption DEF TypeOK
-----------------------------------------------------------------------------
(* The inductive invariant                                                 *)

\* It holds at first.
LEMMA InvInit == Init => Inv
<1> SUFFICES ASSUME Init PROVE Inv
  OBVIOUS
<1> USE SendPathAssumption DEF Init
<1>1. TypeOK
  BY DEF TypeOK, PC, Bit
<1>2. Len(log) = 0 /\ To(0) = 0 /\ End(0) = 0
  BY DEF To, End
<1>3. LogInv /\ DoneInv /\ AckInv
  BY <1>2 DEF LogInv, DoneInv, AckInv, InLoop, ToWriteMore
<1>4. BufInv
  BY DEF BufInv
<1> QED
  BY <1>1, <1>3, <1>4 DEF Inv

\* A step that leaves the records and the transport alone.
LEMMA WireUnchanged ==
  ASSUME LogInv, DoneInv, UNCHANGED wire
  PROVE  /\ LogInv' /\ DoneInv'
         /\ Len(log)' = Len(log) /\ done' = done
         /\ To(Len(log))' = To(Len(log)) /\ To(done)' = To(done)
<1> USE DEF wire
<1>1. \A n : To(n)' = To(n) /\ End(n)' = End(n)
  BY DEF To, End
<1>2. LogInv'
  BY <1>1 DEF LogInv
<1>3. DoneInv'
  BY <1>1 DEF DoneInv
<1> QED
  BY <1>2, <1>3 DEF To

\* A step that writes a record that goes on where the last one ended.
LEMMA Written ==
  ASSUME Inv, NEW to \in Nat, NEW n \in Nat \ {0}, To(Len(log)) <= to,
         log' = Append(log, [from |-> To(Len(log)) + 1, to |-> to, end |-> End(Len(log)) + n]),
         done' = done, sent' = sent
  PROVE  /\ log' \in Seq(Records) /\ LogInv' /\ DoneInv'
         /\ To(Len(log))' = to /\ To(done)' = To(done)
<1> USE DEF Inv
<1>1. Len(log) \in Nat /\ done \in 0..Len(log)
  BY DEF TypeOK, DoneInv
<1>2. To(Len(log)) \in Nat /\ End(Len(log)) \in Nat /\ \A i \in 0..Len(log) : End(i) \in Nat
  BY <1>1, ToEndTypes
<1> DEFINE r == [from |-> To(Len(log)) + 1, to |-> to, end |-> End(Len(log)) + n]
<1>3. r \in Records /\ r.from = To(Len(log)) + 1 /\ r.to = to /\ r.end = End(Len(log)) + n
  BY <1>2 DEF Records
<1> HIDE DEF r
<1>4. log' = Append(log, r)
  BY DEF r
<1>5. LogInv'
  BY <1>2, <1>3, <1>4, LogStep
<1>6. /\ log' \in Seq(Records) /\ Len(log') = Len(log) + 1
      /\ \A i \in 0..Len(log) : To(i)' = To(i) /\ End(i)' = End(i)
      /\ To(Len(log))' = r.to /\ End(Len(log))' = r.end
  BY <1>3, <1>4, AppendFacts
<1>7. To(done)' = To(done) /\ End(done)' = End(done)
  <2>1. PICK d \in 0..Len(log) : d = done
    BY <1>1
  <2>2. To(d)' = To(d) /\ End(d)' = End(d)
    BY <1>6
  <2> QED
    BY <2>1, <2>2 DEF To, End
<1>8. DoneInv'
  <2>1. CASE done = Len(log)
    <3>1. (done + 1)' = Len(log)' /\ End(done + 1)' = End(Len(log))'
      BY <1>1, <1>6, <2>1 DEF End
    <3>2. End(done)' = sent' /\ End(Len(log))' > sent' /\ sent \in Nat
      BY <1>2, <1>3, <1>6, <1>7, <2>1 DEF DoneInv, TypeOK
    <3> QED
      BY <1>1, <3>1, <3>2 DEF DoneInv
  <2>2. CASE done < Len(log)
    <3>1. End(done + 1)' = End(done + 1)
      BY <1>1, <1>6, <2>2 DEF End
    <3> QED
      BY <1>1, <1>6, <1>7, <2>2, <3>1 DEF DoneInv
  <2>3. done \in Nat /\ Len(log) \in Nat /\ done <= Len(log)
    BY DEF TypeOK, DoneInv
  <2>4. PICK m \in Nat : m = Len(log) /\ done <= m
    BY <2>3
  <2>5. done = m \/ done < m
    BY <2>3, <2>4
  <2> QED
    BY <2>1, <2>2, <2>4, <2>5
<1> QED
  BY <1>3, <1>5, <1>6, <1>7, <1>8

\* Calls of the application and the requests of the reader thread.
LEMMA ApplicationStep ==
  ASSUME Inv,
         \/ \E n \in 0..MaxBytes : Call(n)
         \/ \E f \in Fragments : s2n_connection_set_max_fragment_length(f)
         \/ s2n_connection_release_buffers
         \/ RequestKeyUpdate \/ QueueWarning
  PROVE  Inv'
<1> USE SendPathAssumption DEF Inv, buffer, locals, control, InLoop, ToWriteMore, PC
<1>1. UNCHANGED wire
  BY DEF Call, s2n_connection_set_max_fragment_length, s2n_connection_release_buffers,
         RequestKeyUpdate, QueueWarning
<1>2. /\ LogInv' /\ DoneInv' /\ Len(log)' = Len(log) /\ done' = done
      /\ To(Len(log))' = To(Len(log)) /\ To(done)' = To(done)
  BY <1>1, WireUnchanged
<1>3. log' \in Seq([from : Nat, to : Nat, end : Nat]) /\ done' \in Nat /\ sent' \in Nat
  BY <1>1 DEF TypeOK, wire
<1>4. ASSUME NEW n \in 0..MaxBytes, Call(n) PROVE Inv'
  <2> USE <1>4 DEF Call
  <2>1. TypeOK'
    BY <1>3 DEF TypeOK, Bit
  <2>2. AckInv'
    BY <1>2 DEF AckInv, TypeOK
  <2>3. BufInv'
    BY DEF BufInv, MaxSize, s2n_record_max_write_payload_size, s2n_record_max_write_size
  <2> QED
    BY <1>2, <2>1, <2>2, <2>3
<1>5. ASSUME NEW f \in Fragments, s2n_connection_set_max_fragment_length(f) PROVE Inv'
  <2> USE <1>5 DEF s2n_connection_set_max_fragment_length
  <2>1. out_size' \in Nat
    BY DEF TypeOK, Larger, s2n_record_max_write_size
  <2>2. TypeOK'
    BY <1>3, <2>1 DEF TypeOK
  <2>3. AckInv'
    BY <1>2 DEF AckInv, TypeOK
  <2>4. MaxSize' <= f + MaxOverhead
    BY DEF MaxSize, s2n_record_max_write_payload_size, s2n_record_max_write_size
  <2>5. MaxSize' \in Int
    BY DEF MaxSize, s2n_record_max_write_payload_size, s2n_record_max_write_size
  <2>6. out_size # 0 => out_size' >= out_size /\ out_size' >= f + MaxOverhead
    BY DEF TypeOK, Larger, s2n_record_max_write_size
  <2>7. BufInv'
    BY <2>1, <2>4, <2>5, <2>6 DEF BufInv, TypeOK
  <2> QED
    BY <1>2, <2>2, <2>3, <2>7
<1>6. CASE s2n_connection_release_buffers
  <2> USE <1>6 DEF s2n_connection_release_buffers
  <2>1. TypeOK'
    BY <1>3 DEF TypeOK
  <2>2. AckInv'
    BY <1>2 DEF AckInv, TypeOK
  <2>3. BufInv'
    BY DEF BufInv
  <2> QED
    BY <1>2, <2>1, <2>2, <2>3
<1>7. CASE RequestKeyUpdate \/ QueueWarning
  <2>1. /\ UNCHANGED << buffer, fragment, consumed, active, locals, pc, acked >>
        /\ key_update_pending' \in Bit /\ reader_warning_out' \in Bit /\ controls' \in Nat
    BY <1>7 DEF RequestKeyUpdate, QueueWarning, TypeOK, Bit
  <2>2. TypeOK'
    BY <1>3, <2>1 DEF TypeOK
  <2>3. AckInv'
    BY <1>2, <2>1 DEF AckInv, TypeOK
  <2>4. BufInv'
    BY <2>1 DEF BufInv, MaxSize, Room, s2n_record_max_write_payload_size, s2n_record_max_write_size
  <2> QED
    BY <1>2, <2>2, <2>3, <2>4
<1> QED
  BY <1>4, <1>5, <1>6, <1>7

\* A call returns: what is acknowledged has been delivered.
LEMMA ReturnStep ==
  ASSUME Inv, InvalidRetry \/ PartialSend \/ Blocked \/ Finish
  PROVE  Inv'
<1> USE SendPathAssumption DEF Inv, buffer, locals, control, InLoop, ToWriteMore, PC
<1>1. UNCHANGED << wire, fragment, active, locals, control >> /\ pc' = "idle"
      /\ dynamic_free_out_buffer
  BY DEF InvalidRetry, PartialSend, Blocked, Finish, Returns
<1>2. /\ LogInv' /\ DoneInv' /\ Len(log)' = Len(log) /\ done' = done
      /\ To(Len(log))' = To(Len(log)) /\ To(done)' = To(done)
  BY <1>1, WireUnchanged
<1>3. log' \in Seq([from : Nat, to : Nat, end : Nat]) /\ done' \in Nat /\ sent' \in Nat
  BY <1>1 DEF TypeOK, wire
<1>4. /\ acked' \in Nat /\ consumed' \in Nat
      /\ acked' + consumed' = To(Len(log))
      /\ acked' <= To(done)
      /\ acked' + consumed' <= MaxBytes
  <2>1. To(Len(log)) \in Nat /\ To(done) \in Nat
    BY ToEndTypes DEF TypeOK, DoneInv
  <2>2. CASE InvalidRetry \/ Blocked
    BY <2>1, <2>2 DEF InvalidRetry, Blocked, AckInv, TypeOK
  <2>3. CASE PartialSend
    BY <2>1, <2>3 DEF PartialSend, AckInv, TypeOK
  <2>4. CASE Finish
    BY <2>1, <2>4 DEF Finish, AckInv, TypeOK
  <2> QED
    BY <2>2, <2>3, <2>4
<1>5. out_size' \in Nat /\ write_cursor' \in Nat
  BY <1>1 DEF dynamic_free_out_buffer, TypeOK
<1>6. TypeOK'
  BY <1>1, <1>3, <1>4, <1>5 DEF TypeOK
<1>7. AckInv'
  BY <1>1, <1>2, <1>4 DEF AckInv
<1>8. BufInv'
  BY <1>1 DEF BufInv, dynamic_free_out_buffer, MaxSize, s2n_record_max_write_payload_size,
              s2n_record_max_write_size
<1> QED
  BY <1>2, <1>6, <1>7, <1>8

\* A flush is complete, or the loop goes round: nothing is written.
LEMMA ControlStep ==
  ASSUME Inv, EntryFlushed \/ UpdateFlushed \/ UpdateSent \/ DataFlushed \/ NextRecord
  PROVE  Inv'
<1> USE SendPathAssumption DEF Inv, buffer, locals, control, InLoop, ToWriteMore, PC
<1>1. UNCHANGED << wire, out_size, fragment, consumed, size, cbc_hack_used, control, acked >>
  BY DEF EntryFlushed, UpdateFlushed, UpdateSent, DataFlushed, NextRecord
<1>2. /\ LogInv' /\ DoneInv' /\ Len(log)' = Len(log) /\ done' = done
      /\ To(Len(log))' = To(Len(log)) /\ To(done)' = To(done)
  BY <1>1, WireUnchanged
<1>3. log' \in Seq([from : Nat, to : Nat, end : Nat]) /\ done' \in Nat /\ sent' \in Nat
  BY <1>1 DEF TypeOK, wire
<1>4. /\ MaxSize' = MaxSize /\ Room' = Room /\ MaxSize \in Nat /\ out_size \in Nat
      /\ consumed < size => Room \in Nat /\ Room <= MaxSize
  BY <1>1, PayloadFacts, ToWriteFacts
     DEF MaxSize, Room, s2n_record_max_write_payload_size, s2n_record_max_write_size, TypeOK
<1>5. active' \in Nat /\ user_data_sent' \in Nat /\ write_cursor' \in Nat /\ pc' \in PC
  BY DEF EntryFlushed, UpdateFlushed, UpdateSent, DataFlushed, NextRecord, TypeOK
<1>6. TypeOK'
  BY <1>1, <1>3, <1>5 DEF TypeOK
<1>7. To(Len(log)) \in Nat /\ To(done) \in Nat
  BY ToEndTypes DEF TypeOK, DoneInv
<1>8. Pending = 0 <=> done = Len(log)
  BY PendingFacts
<1>11. /\ (acked + consumed = To(Len(log)))' /\ (acked <= To(done))'
       /\ (acked + consumed <= MaxBytes)' /\ To(done)' = To(done)
       /\ acked' = acked /\ consumed' = consumed /\ size' = size
  BY <1>1, <1>2 DEF AckInv
<1>9. AckInv'
  <2>1. CASE EntryFlushed
    <3>1. Pending = 0 /\ user_data_sent' = consumed /\ pc' = "loop" /\ pc # "idle"
      BY <2>1 DEF EntryFlushed, Flushed
    <3>2. acked + consumed = To(done) /\ acked \in Nat /\ consumed \in Nat
      BY <1>8, <3>1 DEF AckInv, TypeOK
    <3>3. consumed <= size /\ acked + size <= MaxBytes
      BY <2>1, <3>1 DEF EntryFlushed, Flushed, AckInv, InLoop
    <3>4. consumed <= consumed /\ acked + consumed <= To(done)
      BY <1>7, <3>2
    <3>5. done' = Len(log)'
      BY <1>2, <1>8, <3>1
    <3> QED
      BY <1>11, <3>1, <3>3, <3>4, <3>5 DEF AckInv, ToWriteMore
  <2>2. CASE DataFlushed
    <3>1. Pending = 0 /\ user_data_sent' = consumed /\ pc' = "loop" /\ pc # "idle"
      BY <2>2 DEF DataFlushed, Flushed
    <3>2. acked + consumed = To(done) /\ acked \in Nat /\ consumed \in Nat
      BY <1>8, <3>1 DEF AckInv, TypeOK
    <3>3. consumed <= size /\ acked + size <= MaxBytes
      BY <2>2, <3>1 DEF DataFlushed, Flushed, AckInv, InLoop
    <3>4. consumed <= consumed /\ acked + consumed <= To(done)
      BY <1>7, <3>2
    <3>5. done' = Len(log)'
      BY <1>2, <1>8, <3>1
    <3> QED
      BY <1>11, <3>1, <3>3, <3>4, <3>5 DEF AckInv, ToWriteMore
  <2>3. CASE UpdateFlushed \/ UpdateSent
    BY <1>1, <1>2, <1>7, <2>3 DEF UpdateFlushed, UpdateSent, Flushed, AckInv, TypeOK
  <2>4. CASE NextRecord
    BY <1>1, <1>2, <1>7, <2>4 DEF NextRecord, AckInv, TypeOK
  <2> QED
    BY <2>1, <2>2, <2>3, <2>4
<1>10. BufInv'
  <2>1. CASE EntryFlushed \/ UpdateFlushed \/ UpdateSent \/ DataFlushed
    <3>1. write_cursor' = 0
      BY <2>1 DEF EntryFlushed, UpdateFlushed, UpdateSent, DataFlushed
    <3> QED
      BY <1>1, <1>4, <3>1 DEF BufInv
  <2>2. CASE NextRecord
    BY <1>1, <1>4, <2>2 DEF NextRecord, BufInv
  <2> QED
    BY <2>1, <2>2
<1> QED
  BY <1>2, <1>6, <1>9, <1>10

\* The transport takes a part of a record.
LEMMA FlushStep ==
  ASSUME Inv, Flush
  PROVE  Inv' /\ UNCHANGED << log, acked >> /\ To(Len(log))' = To(Len(log)) /\ To(done) <= To(done)'
<1> USE SendPathAssumption DEF Inv, buffer, locals, control, InLoop, ToWriteMore, PC
<1>1. PICK n \in 1..Pending : FlushSome(n)
  BY DEF Flush
<1> USE <1>1 DEF FlushSome
<1>2. Pending \in Nat /\ Len(log) \in Nat /\ done < Len(log) /\ done \in Nat /\ sent \in Nat
  BY PendingFacts DEF TypeOK
<1>3. \A i \in 0..Len(log) : To(i) \in Nat /\ End(i) \in Nat
  BY ToEndTypes
<1>4. done' \in {done, done + 1} /\ sent' = sent + n /\ log' = log
  OBVIOUS
<1>5. To(done)' = To(done') /\ End(done)' = End(done') /\ To(Len(log))' = To(Len(log))
      /\ End(done + 1)' = End(done' + 1)
  BY <1>4 DEF To, End
<1>6. LogInv'
  BY <1>4 DEF LogInv, To, End
<1>7. DoneInv'
  <2>1. CASE sent + n = End(done + 1)
    <3>1. done' = done + 1
      BY <2>1
    <3>2. done + 1 < Len(log) => End(done + 1) < End(done + 2)
      BY <1>2 DEF LogInv
    <3>3. sent' = End(done)' /\ (done' < Len(log) => sent' < End(done + 1)')
      BY <1>2, <1>3, <1>4, <1>5, <2>1, <3>1, <3>2
    <3>4. sent' \in Nat /\ done' <= Len(log) /\ Len(log)' = Len(log)
      BY <1>2, <1>4, <3>1
    <3> QED
      BY <3>3, <3>4 DEF DoneInv
  <2>2. CASE sent + n # End(done + 1)
    <3>0. End(done + 1) \in Nat
      BY <1>2, <1>3
    <3>1. done' = done /\ sent + n < End(done + 1)
      BY <1>2, <2>2, <3>0
    <3> QED
      BY <1>2, <1>3, <1>4, <1>5, <3>1 DEF DoneInv
  <2> QED
    BY <2>1, <2>2
<1>8. To(done) <= To(done')
  BY <1>2, <1>3, <1>4 DEF LogInv
<1>9. TypeOK'
  BY <1>2, <1>4 DEF TypeOK
<1>10. AckInv'
  <2>1. To(done') \in Nat /\ To(done) \in Nat /\ pc # "loop"
    BY <1>2, <1>3, <1>4 DEF Flushing
  <2> QED
    BY <1>4, <1>5, <1>8, <2>1 DEF AckInv, TypeOK
<1>11. BufInv'
  BY DEF BufInv, MaxSize, Room, s2n_record_max_write_payload_size, s2n_record_max_write_size
<1> QED
  BY <1>4, <1>5, <1>6, <1>7, <1>8, <1>9, <1>10, <1>11

\* A KeyUpdate or a warning alert is written.
LEMMA ControlWritten ==
  ASSUME Inv, WriteKeyUpdate \/ FlushWarning
  PROVE  Inv' /\ acked' = acked /\ To(Len(log))' = To(Len(log)) /\ To(done)' = To(done)
<1> USE SendPathAssumption DEF Inv, buffer, locals, control, InLoop, ToWriteMore, PC
<1>1. /\ log' = Append(log, [from |-> To(Len(log)) + 1, to |-> To(Len(log)),
                             end |-> End(Len(log)) + ControlSize])
      /\ UNCHANGED << done, sent, fragment, consumed, active, locals, controls, acked >>
      /\ out_size' = BufferSize
  BY DEF WriteKeyUpdate, WriteControl, s2n_record_writev, FlushWarning
<1>2. To(Len(log)) \in Nat /\ To(done) \in Nat
  BY ToEndTypes DEF TypeOK, DoneInv
<1>3. /\ log' \in Seq(Records) /\ LogInv' /\ DoneInv'
      /\ To(Len(log))' = To(Len(log)) /\ To(done)' = To(done)
  BY <1>1, <1>2, Written
<1>4. /\ write_cursor' = ControlSize
      /\ pc' \in {"entry_flush", "update_flush", "sent_update", "data_flush"}
      /\ pc # "idle"
      /\ pc' \in InLoop => pc \in InLoop
      /\ pc' \in ToWriteMore => pc \in ToWriteMore
      /\ key_update_pending' \in Bit /\ reader_warning_out' \in Bit
  <2>1. CASE WriteKeyUpdate
    BY <2>1 DEF WriteKeyUpdate, WriteControl, s2n_record_writev, BufInv, TypeOK, Bit
  <2>2. CASE FlushWarning
    BY <2>2 DEF FlushWarning, Flushing, TypeOK, Bit
  <2> QED
    BY <2>1, <2>2
<1>5. BufferSize \in Nat /\ MaxSize <= BufferSize /\ BufferSize # 0 /\ MaxSize \in Nat
      /\ ControlSize <= MaxSize
  BY BufferFacts, PayloadFacts
<1>6. TypeOK'
  BY <1>1, <1>3, <1>4, <1>5 DEF TypeOK, Records
<1>7. AckInv'
  BY <1>1, <1>2, <1>3, <1>4 DEF AckInv, TypeOK
<1>8. MaxSize' = MaxSize
  BY <1>1 DEF MaxSize, s2n_record_max_write_payload_size, s2n_record_max_write_size
<1>9. BufInv'
  BY <1>1, <1>4, <1>5, <1>8 DEF BufInv
<1> QED
  BY <1>1, <1>3, <1>6, <1>7, <1>9

\* A record of data is written.
LEMMA DataWritten ==
  ASSUME Inv, WriteData
  PROVE  /\ Inv' /\ acked' = acked /\ To(done)' = To(done)
         /\ To(Len(log))' \in To(Len(log)) + 1 .. MaxBytes
<1> USE SendPathAssumption DEF Inv, buffer, locals, control, InLoop, ToWriteMore, PC
<1>1. pc = "write" /\ consumed < size
  BY DEF WriteData, AckInv
<1>2. PICK overhead \in Overheads :
        /\ s2n_record_writev(acked + consumed + 1, acked + consumed + ToWrite, ToWrite + overhead)
        /\ pc' = IF s2n_should_flush(ToWrite, ToWrite + overhead) THEN "data_flush" ELSE "loop"
  BY DEF WriteData
<1>3. /\ ToWrite \in Nat \ {0} /\ ToWrite <= size - consumed
      /\ ToWrite + MaxOverhead <= Room /\ Room \in Nat /\ Room <= MaxSize
  BY <1>1, ToWriteFacts
<1>4. /\ consumed' = consumed + ToWrite /\ active' = active + ToWrite
      /\ cbc_hack_used' \in Bit
      /\ UNCHANGED << fragment, size, user_data_sent, control, acked >>
  BY DEF WriteData, TypeOK, Bit
<1>5. To(Len(log)) \in Nat /\ To(done) \in Nat
  BY ToEndTypes DEF TypeOK, DoneInv
<1>6. /\ log' = Append(log, [from |-> To(Len(log)) + 1, to |-> To(Len(log)) + ToWrite,
                             end |-> End(Len(log)) + (ToWrite + overhead)])
      /\ done' = done /\ sent' = sent
  BY <1>2 DEF s2n_record_writev, AckInv
<1>7. overhead \in Nat \ {0} /\ overhead <= MaxOverhead
  OBVIOUS
<1>8. /\ log' \in Seq(Records) /\ LogInv' /\ DoneInv'
      /\ To(Len(log))' = To(Len(log)) + ToWrite /\ To(done)' = To(done)
  <2>1. To(Len(log)) + ToWrite \in Nat /\ ToWrite + overhead \in Nat \ {0}
        /\ To(Len(log)) <= To(Len(log)) + ToWrite
    BY <1>3, <1>5, <1>7
  <2> QED
    BY <1>6, <2>1, Written
<1>9. out_size' = BufferSize /\ write_cursor' = write_cursor + (ToWrite + overhead)
  BY <1>2 DEF s2n_record_writev
<1>10. /\ BufferSize \in Nat /\ MaxSize <= BufferSize /\ BufferSize # 0 /\ MaxSize \in Nat
       /\ write_cursor \in Nat /\ write_cursor + Room <= BufferSize
  <2>1. CASE out_size = 0
    BY <1>3, <2>1, BufferFacts, PayloadFacts DEF BufInv, TypeOK
  <2>2. CASE out_size # 0
    BY <1>1, <1>3, <2>2, BufferFacts, PayloadFacts DEF BufInv, TypeOK
  <2> QED
    BY <2>1, <2>2
<1>11. TypeOK'
  BY <1>2, <1>3, <1>4, <1>6, <1>7, <1>8, <1>9, <1>10 DEF TypeOK, Records
<1>12. pc' = "loop" => consumed' # size' /\ ~s2n_should_flush(ToWrite, ToWrite + overhead)
  BY <1>2, <1>3, <1>4 DEF s2n_should_flush, TypeOK
<1>13. AckInv'
  <2>1. /\ acked' + consumed' = To(Len(log))' /\ acked' <= To(done)'
        /\ acked' + consumed' <= MaxBytes /\ acked' + size' <= MaxBytes
    BY <1>1, <1>3, <1>4, <1>5, <1>8 DEF AckInv, TypeOK
  <2>2. consumed' <= size' /\ user_data_sent' <= consumed' /\ acked' + user_data_sent' <= To(done)'
    BY <1>1, <1>3, <1>4, <1>5, <1>8 DEF AckInv, TypeOK
  <2>3. pc' \in {"loop", "data_flush"}
    BY <1>2
  <2> QED
    BY <1>12, <2>1, <2>2, <2>3 DEF AckInv
<1>14. MaxSize' = MaxSize
  BY <1>4 DEF MaxSize, s2n_record_max_write_payload_size, s2n_record_max_write_size
<1>15. pc' = "loop" => write_cursor' + Room' <= out_size'
  <2> SUFFICES ASSUME pc' = "loop" PROVE write_cursor' + Room' <= out_size'
    OBVIOUS
  <2>1. ~(BufferSize - write_cursor' < Room')
    BY <1>4, <1>9, <1>12
       DEF s2n_should_flush, Room, s2n_record_max_write_payload_size, s2n_record_max_write_size
  <2>2. Room' \in Int
    <3>1. s2n_record_max_write_payload_size' = s2n_record_max_write_payload_size
      BY <1>4 DEF s2n_record_max_write_payload_size, s2n_record_max_write_size
    <3>2. s2n_record_max_write_payload_size' \in Int
      BY <3>1, PayloadFacts
    <3>3. size' \in Nat /\ consumed' \in Nat /\ MaxOverhead \in Nat
      BY <1>3, <1>4 DEF TypeOK
    <3>4. \A a, b \in Int : Smaller(a, b) \in Int
      BY DEF Smaller
    <3>5. Smaller(s2n_record_max_write_payload_size', size' - consumed') \in Int
      BY <3>2, <3>3, <3>4
    <3> QED
      BY <3>3, <3>5 DEF Room, s2n_record_max_write_size
  <2>3. write_cursor' \in Nat /\ BufferSize \in Nat
    BY <1>10, <1>11 DEF TypeOK
  <2> QED
    BY <1>9, <2>1, <2>2, <2>3
<1>16. write_cursor' <= out_size'
  BY <1>3, <1>7, <1>9, <1>10
<1>17. BufInv'
  BY <1>2, <1>9, <1>10, <1>14, <1>15, <1>16 DEF BufInv
<1>18. To(Len(log))' \in To(Len(log)) + 1 .. MaxBytes
  BY <1>1, <1>3, <1>5, <1>8 DEF AckInv, TypeOK
<1> QED
  BY <1>4, <1>8, <1>11, <1>13, <1>17, <1>18
-----------------------------------------------------------------------------
(* The theorems                                                            *)

\* Every step preserves the invariant.
LEMMA InvNext == Inv /\ [Next]_vars => Inv'
<1> SUFFICES ASSUME Inv, [Next]_vars PROVE Inv'
  OBVIOUS
<1>1. CASE Flush
  BY <1>1, FlushStep
<1>2. CASE Step
  BY <1>2, ReturnStep, ControlStep, ControlWritten, DataWritten DEF Step
<1>3. CASE \/ \E n \in 0..MaxBytes : Call(n)
           \/ \E f \in Fragments : s2n_connection_set_max_fragment_length(f)
           \/ s2n_connection_release_buffers
           \/ RequestKeyUpdate \/ QueueWarning
  BY <1>3, ApplicationStep
<1>4. CASE UNCHANGED vars
  <2>1. UNCHANGED << wire, out_size, write_cursor, fragment, consumed, active, size, user_data_sent,
                     cbc_hack_used, key_update_pending, reader_warning_out, controls, pc, acked >>
    BY <1>4 DEF vars, buffer, locals, control
  <2>2. /\ LogInv' /\ DoneInv' /\ Len(log)' = Len(log) /\ done' = done
        /\ To(Len(log))' = To(Len(log)) /\ To(done)' = To(done)
    BY <2>1, WireUnchanged DEF Inv
  <2>3. TypeOK'
    BY <2>1 DEF Inv, TypeOK, wire
  <2>4. AckInv'
    BY <2>1, <2>2 DEF Inv, AckInv
  <2>5. BufInv'
    BY <2>1 DEF Inv, BufInv, MaxSize, Room, s2n_record_max_write_payload_size, s2n_record_max_write_size
  <2> QED
    BY <2>2, <2>3, <2>4, <2>5 DEF Inv
<1> QED
  BY <1>1, <1>2, <1>3, <1>4 DEF Next

\* The inductive invariant holds in every state.
LEMMA InvAlways == Spec => []Inv
<1>1. Init => Inv
  BY InvInit
<1>2. Inv /\ [Next]_vars => Inv'
  BY InvNext
<1> QED
  BY <1>1, <1>2, PTL DEF Spec

\* The variables of the send path keep their types: no count of bytes becomes
\* negative.
THEOREM TypeCorrect == Spec => []TypeOK
<1>1. Inv => TypeOK
  BY DEF Inv
<1> QED
  BY <1>1, InvAlways, PTL

\* The peer reads the bytes of the application in order and once: of every call
\* of s2n_send, blocked, partial or repeated.
THEOREM InOrder == Spec => []StreamInOrder
<1>1. Inv => StreamInOrder
  BY DEF Inv, LogInv, StreamInOrder
<1> QED
  BY <1>1, InvAlways, PTL

\* s2n_send reports as sent only what the transport has in full.
THEOREM AcksDelivered == Spec => []AckedIsDelivered
<1>1. Inv => AckedIsDelivered
  BY DEF Inv, AckInv, AckedIsDelivered
<1> QED
  BY <1>1, InvAlways, PTL

\* s2n_should_flush always leaves space for the next record in conn->out.
THEOREM RecordsFit == Spec => []BufferHolds
<1>1. Inv => BufferHolds
  BY DEF Inv, BufInv, BufferHolds
<1> QED
  BY <1>1, InvAlways, PTL

\* What a caller of s2n_send and its peer rely on holds at every step.
THEOREM StreamIsSafe == Spec => []StreamSafe
<1> QED
  BY InOrder, AcksDelivered, RecordsFit, PTL DEF StreamSafe

\* The last byte delivered is one that was written.
LEMMA DeliveredIsWritten ==
  Inv => To(done) \in Nat /\ To(Len(log)) \in Nat /\ acked \in Nat /\ To(done) <= To(Len(log))
  BY ToEndTypes DEF Inv, TypeOK, LogInv, DoneInv

\* s2n_send implements the abstract stream SendStream.
THEOREM Refinement == Spec => ImplementsStream
<1>1. Init => Stream!Init
  BY DEF Init, Stream!Init, To
<1>2. Inv /\ Inv' /\ [Next]_vars => [Stream!Next]_(Stream!vars)
  <2> SUFFICES ASSUME Inv, Inv', [Next]_vars PROVE [Stream!Next]_(Stream!vars)
    OBVIOUS
  <2> USE DEF Stream!Next, Stream!Write, Stream!Deliver, Stream!Acknowledge, Stream!vars
  <2>1. /\ To(done) \in Nat /\ To(Len(log)) \in Nat /\ acked \in Nat /\ To(done) <= To(Len(log))
        /\ To(done)' \in Nat /\ To(Len(log))' \in Nat /\ acked' \in Nat /\ To(done)' <= To(Len(log))'
        /\ acked' <= To(done)'
    <3>1. Inv' => (To(done) \in Nat /\ To(Len(log)) \in Nat /\ acked \in Nat
                     /\ To(done) <= To(Len(log)))'
      BY DeliveredIsWritten, PTL
    <3>2. acked' <= To(done)'
      BY DEF Inv, AckInv
    <3> QED
      BY <3>1, <3>2, DeliveredIsWritten
  <2>2. CASE Flush
    BY <2>1, <2>2, FlushStep
  <2>3. CASE WriteData
    BY <2>1, <2>3, DataWritten
  <2>4. CASE WriteKeyUpdate \/ FlushWarning
    BY <2>1, <2>4, ControlWritten
  <2>5. CASE UNCHANGED wire /\ acked' \in Nat /\ acked' >= acked
    <3>1. To(Len(log))' = To(Len(log)) /\ To(done)' = To(done)
      BY <2>5 DEF wire, To
    <3> QED
      BY <2>1, <2>5, <3>1
  <2>6. CASE InvalidRetry \/ PartialSend \/ Blocked \/ Finish
    <3>1. size \in Nat /\ user_data_sent \in Nat
      BY DEF Inv, TypeOK
    <3>2. UNCHANGED wire /\ acked' \in {acked, acked + user_data_sent, acked + size}
      BY <2>6 DEF InvalidRetry, PartialSend, Blocked, Finish
    <3> QED
      BY <2>1, <2>5, <3>1, <3>2
  <2>7. CASE \/ EntryFlushed \/ UpdateFlushed \/ UpdateSent \/ DataFlushed \/ NextRecord
             \/ \E n \in 0..MaxBytes : Call(n)
             \/ \E f \in Fragments : s2n_connection_set_max_fragment_length(f)
             \/ s2n_connection_release_buffers
             \/ RequestKeyUpdate \/ QueueWarning
    BY <2>1, <2>5, <2>7
       DEF EntryFlushed, UpdateFlushed, UpdateSent, DataFlushed, NextRecord, Call,
           s2n_connection_set_max_fragment_length, s2n_connection_release_buffers,
           RequestKeyUpdate, QueueWarning
  <2>8. CASE UNCHANGED vars
    BY <2>1, <2>5, <2>8 DEF vars
  <2> QED
    BY <2>2, <2>3, <2>4, <2>6, <2>7, <2>8 DEF Next, Step
<1> QED
  BY <1>1, <1>2, InvAlways, PTL DEF Spec, ImplementsStream, Stream!Spec
=============================================================================
