---------------------------- MODULE RecordReader ----------------------------
(***************************************************************************)
(* How s2n_recv takes records out of the transport: the header, the        *)
(* fragment and the input buffer they share over short reads, the views    *)
(* into that buffer, decryption in place, and what becomes of the content: *)
(* application data, alerts and post-handshake messages that may be split  *)
(* over records.                                                           *)
(*                                                                         *)
(* Code: tls/s2n_recv.c, s2n_record_read*.c, s2n_alerts.c,                 *)
(* s2n_post_handshake.c and the buffer functions of s2n_connection.c.      *)
(*                                                                         *)
(* A byte on the wire is a record of what it is: `rec`, the number of the  *)
(* TLS record it belongs to, its `part` of that record and its `val`.      *)
(***************************************************************************)
EXTENDS Integers, Sequences, FiniteSets, SequencesExt

CONSTANTS
    Streams,           \* what a peer may send, a sequence of TLS records, with the mode of the receiver
    HeaderLength,      \* S2N_TLS_RECORD_HEADER_LENGTH
    TagLength,         \* bytes of the tag or the MAC
    MessageHeader,     \* TLS_HANDSHAKE_HEADER_LENGTH
    BodyLength,        \* the length a message header gives, by its first byte
    LargeFragment,     \* S2N_LARGE_FRAGMENT_LENGTH
    MinGrowth,         \* S2N_MIN_STUFFER_GROWTH_IN_BYTES
    Sizes,             \* what the application asks s2n_recv for
    MultiRecord        \* config->recv_multi_record

VARIABLES
    script, mode,
    taken,             \* bytes read of the transport
    buffer_in,         \* the stuffer: data (0..size-1), read and write cursor, tainted
    header_in,         \* the header bytes collected
    in,                \* the view into buffer_in: at, size, r, w, tainted; or Freed
    in_status,         \* "ENCRYPTED" or "PLAINTEXT"
    opened,            \* records decrypted: the read sequence number
    message,           \* post_handshake.in
    alert_in,          \* the bytes of an alert so far
    recv_buffering, dynamic_buffers,
    call,              \* the call of s2n_recv: pc, size, bytes_read, type, need
    delivered, handled, alerts,   \* what the application and the handlers got
    read_closed, error,
    beheaded           \* a message's header was freed before its body came; only properties read it

vars == <<script, mode, taken, buffer_in, header_in, in, in_status, opened, message, alert_in,
          recv_buffering, dynamic_buffers, call, delivered, handled, alerts, read_closed, error, beheaded>>

MinOf(a, b) == IF a < b THEN a ELSE b
MaxOf(a, b) == IF a > b THEN a ELSE b

----------------------------------------------------------------------------
(* The wire.  A TLS record has a `type`, its `data`, `pad` bytes of        *)
(* padding, and a `cipher`: none, TLS1.3 AEAD, AEAD, CBC, composite or     *)
(* stream.                                                                 *)
Repeat(n, b) == [i \in 1..n |-> b]
PadBytes == <<"pad0", "pad1", "pad2">>
PadLength(b) == CHOOSE n \in 0..2 : PadBytes[n + 1] = b
Tag == Repeat(TagLength, "tag")
Fragment(t) ==
    CASE t.cipher = "null" -> t.data
      [] t.cipher = "tls13" -> t.data \o <<t.type>> \o Repeat(t.pad, "zero") \o Tag
      [] t.cipher = "aead" -> <<"iv">> \o t.data \o Tag
      [] t.cipher \in {"cbc", "composite"} -> <<"iv">> \o t.data \o Tag \o Repeat(t.pad + 1, PadBytes[t.pad + 1])
      [] t.cipher = "stream" -> t.data \o Tag
Sealed(t) == t.cipher # "null"
FragmentLength(t) == Len(Fragment(t))
Encode(t, n) == [i \in 1..HeaderLength |-> [rec |-> n, part |-> "header", val |-> i]]
                \o [i \in 1..FragmentLength(t) |-> [rec |-> n, part |-> "fragment", val |-> i]]
WireOf == [s \in {stream[1] : stream \in Streams} |-> FlattenSeq([n \in 1..Len(s) |-> Encode(s[n], n)])]
Wire == WireOf[script]

(* The record a collected header names; 0 when the bytes are no header.    *)
s2n_record_header_parse(h) ==
    IF \E n \in 1..Len(script) : h = SubSeq(Encode(script[n], n), 1, HeaderLength) THEN h[1].rec ELSE 0

----------------------------------------------------------------------------
(* The input buffer.                                                       *)
NoCells == <<>>
Freed == [at |-> 0, size |-> -1, r |-> 0, w |-> 0, tainted |-> FALSE]
IsFreed(v) == v.size = -1

data_available(b) == b.w - b.r
space_remaining(b) == Len(b.cells) - b.w
MutNotTainted(b) == b.r = b.w
is_consumed(b) == b.r = b.w /\ ~b.tainted

EmptyBuffer == [cells |-> NoCells, r |-> 0, w |-> 0, tainted |-> FALSE]
Garbage == [rec |-> 0, part |-> "none", val |-> 0]

s2n_stuffer_resize(b, n) == [b EXCEPT !.cells = [i \in 1..n |-> IF i <= Len(@) THEN @[i] ELSE Garbage]]
s2n_stuffer_resize_if_empty(b) == IF b.cells = NoCells THEN s2n_stuffer_resize(b, LargeFragment) ELSE b
s2n_stuffer_shift(b) ==
    [b EXCEPT !.cells = [i \in 1..Len(@) |-> IF i <= data_available(b) THEN @[b.r + i] ELSE @[i]],
              !.r = 0, !.w = data_available(b)]

NoMessage == [cap |-> -1, data |-> <<>>]

(* The bytes a view shows.                                                 *)
Seen(b, v) == [i \in 1..(v.w - v.r) |-> b.cells[v.at + v.r + i]]

(* s2n_recv_buffer_in before it reads: room for min_size bytes.            *)
MadeRoom(b, min_size) ==
    LET c == s2n_stuffer_resize_if_empty(b)
    IN  IF data_available(c) < min_size /\ space_remaining(c) < min_size - data_available(c)
        THEN s2n_stuffer_shift(c) ELSE c

(* What one read of the transport asks for, and the space made for it.     *)
Wanted(b) ==
    LET remaining == call.need - data_available(b)
    IN  IF recv_buffering THEN MaxOf(remaining, space_remaining(b)) ELSE remaining

GrowthFails(b) == space_remaining(b) < Wanted(b) /\ b.tainted

s2n_stuffer_reserve_space(b, n) ==
    IF space_remaining(b) >= n THEN b
    ELSE s2n_stuffer_resize(b, Len(b.cells) + MaxOf(n - space_remaining(b), MinGrowth))

----------------------------------------------------------------------------
(* The call.                                                               *)
Idle == [pc |-> "idle", size |-> 0, bytes_read |-> 0, type |-> "none", need |-> 0]
At(pc) == call.pc = pc
Go(pc) == call' = [call EXCEPT !.pc = pc]

wireVars == <<script, mode, taken>>
buffers == <<buffer_in, header_in, in, in_status, opened>>
contents == <<message, alert_in>>
results == <<delivered, handled, alerts, beheaded>>
settings == <<recv_buffering, dynamic_buffers>>

Init ==
    /\ \E stream \in Streams : script = stream[1] /\ mode = stream[2]
    /\ taken = 0
    /\ buffer_in = EmptyBuffer /\ header_in = <<>> /\ in = Freed
    /\ in_status = "ENCRYPTED" /\ opened = 0
    /\ message = NoMessage /\ alert_in = <<>>
    /\ recv_buffering \in BOOLEAN /\ dynamic_buffers \in BOOLEAN
    /\ call = Idle
    /\ delivered = <<>> /\ handled = <<>> /\ alerts = <<>>
    /\ read_closed = FALSE /\ error = "none" /\ beheaded = FALSE

(* An application gives up a connection after an error that is not         *)
(* S2N_ERR_T_BLOCKED, also where the code leaves it open.                  *)
s2n_recv(size) ==
    /\ At("idle") /\ ~read_closed /\ error = "none"
    /\ call' = [Idle EXCEPT !.pc = "loop", !.size = size]
    /\ UNCHANGED <<wireVars, buffers, contents, settings, results, read_closed, error>>

(* s2n_read_full_record, from the top of the loop of s2n_recv_impl.  A     *)
(* record that was decrypted and not finished is application data.         *)
ReadFullRecord ==
    /\ At("loop") /\ call.size > 0 /\ ~read_closed
    /\ IF in_status = "PLAINTEXT"
       THEN /\ call' = [call EXCEPT !.pc = "record", !.type = "APP"]
            /\ buffer_in' = buffer_in
       ELSE IF Len(header_in) < HeaderLength
       THEN /\ call' = [call EXCEPT !.pc = "read_header", !.need = HeaderLength - Len(header_in)]
            /\ buffer_in' = MadeRoom(buffer_in, HeaderLength - Len(header_in))
       ELSE /\ Go("parse_header")
            /\ buffer_in' = buffer_in
    /\ UNCHANGED <<wireVars, header_in, in, in_status, opened, contents, settings, results, read_closed, error>>

Short == data_available(buffer_in) < call.need
Reading == call.pc \in {"read_header", "read_fragment"}

(* An error that leaves the connection open, and one under                 *)
(* WITH_ERROR_BLINDING: s2n_connection_apply_error_blinding wipes conn->in *)
(* and closes the connection.                                              *)
Fail(why) ==
    /\ error' = why
    /\ Go("return")
    /\ UNCHANGED <<in, read_closed>>

s2n_connection_apply_error_blinding(why) ==
    /\ error' = why
    /\ Go("return")
    /\ in' = [in EXCEPT !.r = 0, !.w = 0, !.tainted = FALSE]
    /\ read_closed' = TRUE

(* s2n_read_in_bytes: one read of the transport, which returns as much of  *)
(* what was asked for as has arrived.                                      *)
s2n_read_in_bytes ==
    /\ Reading /\ Short
    /\ IF GrowthFails(buffer_in)
       THEN Fail("resize of a tainted stuffer") /\ UNCHANGED <<buffer_in, taken>>
       ELSE \E n \in 1..MinOf(Wanted(buffer_in), Len(Wire) - taken) :
            LET b == s2n_stuffer_reserve_space(buffer_in, Wanted(buffer_in))
            IN  /\ buffer_in' = [b EXCEPT !.cells = [i \in 1..Len(@) |-> IF i \in (b.w + 1)..(b.w + n)
                                                                         THEN Wire[taken + i - b.w] ELSE @[i]],
                                          !.w = @ + n]
                /\ taken' = taken + n
                /\ UNCHANGED <<call, in, read_closed, error>>
    /\ UNCHANGED <<script, mode, header_in, in_status, opened, contents, settings, results>>

(* Nothing has arrived: the space was reserved all the same.               *)
Blocked == Short /\ ~GrowthFails(buffer_in)
Reserved == IF Short THEN s2n_stuffer_reserve_space(buffer_in, Wanted(buffer_in)) ELSE buffer_in

(* What was read of the header moves to header_in, also when the read was  *)
(* short.                                                                  *)
HeaderRead ==
    /\ At("read_header") /\ (~Short \/ Blocked)
    /\ LET n == MinOf(call.need, data_available(buffer_in))
       IN  /\ header_in' = header_in \o SubSeq(buffer_in.cells, buffer_in.r + 1, buffer_in.r + n)
           /\ buffer_in' = [Reserved EXCEPT !.r = @ + n]
    /\ Go(IF Short THEN "blocked" ELSE "parse_header")
    /\ UNCHANGED <<wireVars, in, in_status, opened, contents, settings, results, read_closed, error>>

MutUnread(v) == 0
Unread(v) == IF IsFreed(v) THEN 0 ELSE v.w - v.r

(* The header is parsed.  The part of the fragment a former call had read  *)
(* is put back into buffer_in before more is read.                         *)
HeaderParsed ==
    /\ At("parse_header")
    /\ LET n == s2n_record_header_parse(header_in)
           have == Unread(in)
       IN  IF n = 0 THEN s2n_connection_apply_error_blinding("no header") /\ buffer_in' = buffer_in
           ELSE IF have < FragmentLength(script[n]) \/ FragmentLength(script[n]) = 0
           THEN IF buffer_in.r < have THEN Fail("rewind") /\ buffer_in' = buffer_in
                ELSE /\ call' = [call EXCEPT !.pc = "read_fragment", !.need = FragmentLength(script[n])]
                     /\ buffer_in' = MadeRoom([buffer_in EXCEPT !.r = @ - have], FragmentLength(script[n]))
                     /\ UNCHANGED <<in, read_closed, error>>
           ELSE Go("parse") /\ UNCHANGED <<buffer_in, in, read_closed, error>>
    /\ UNCHANGED <<wireVars, header_in, in_status, opened, contents, settings, results>>

(* s2n_recv_in_init: `in` becomes a view of the bytes that are there, as   *)
(* long as the whole fragment.                                             *)
FragmentRead ==
    /\ At("read_fragment") /\ (~Short \/ Blocked)
    /\ LET b == Reserved
           n == MinOf(call.need, data_available(b))
       IN  IF call.need - n > space_remaining(b)
           THEN Fail("no room") /\ UNCHANGED buffer_in
           ELSE /\ in' = [at |-> b.r, size |-> call.need, r |-> 0, w |-> n, tainted |-> FALSE]
                /\ buffer_in' = [b EXCEPT !.r = @ + n, !.tainted = TRUE]
                /\ Go(IF Short THEN "blocked" ELSE "parse")
                /\ UNCHANGED <<read_closed, error>>
    /\ UNCHANGED <<wireVars, header_in, in_status, opened, contents, settings, results>>

(* s2n_record_parse and, in TLS1.3, s2n_tls13_parse_record_type:           *)
(* the fragment decrypts when it is intact and next in sequence; the       *)
(* content type is the last byte that is not zero.                         *)
Decrypts(n) ==
    /\ Seen(buffer_in, in) = SubSeq(Encode(script[n], n), HeaderLength + 1, HeaderLength + FragmentLength(script[n]))
    /\ Sealed(script[n]) => opened = Cardinality({k \in 1..(n - 1) : Sealed(script[k])})

(* Where the payload begins and ends in the decrypted fragment.            *)
s2n_record_parse_aead(f, iv) == <<iv, Len(f) - TagLength>>
s2n_record_parse_cbc(f) == <<1, Len(f) - TagLength - (PadLength(f[Len(f)]) + 1)>>
s2n_record_parse_composite(f) == <<1, Len(f) - TagLength - (PadLength(f[Len(f)]) + 1)>>
s2n_record_parse_stream(f, mac) == <<0, Len(f) - mac>>

Payload(t) ==
    CASE t.cipher = "null" -> s2n_record_parse_stream(Fragment(t), 0)
      [] t.cipher = "tls13" -> s2n_record_parse_aead(Fragment(t), 0)
      [] t.cipher = "aead" -> s2n_record_parse_aead(Fragment(t), 1)
      [] t.cipher = "cbc" -> s2n_record_parse_cbc(Fragment(t))
      [] t.cipher = "composite" -> s2n_record_parse_composite(Fragment(t))
      [] t.cipher = "stream" -> s2n_record_parse_stream(Fragment(t), TagLength)

s2n_tls13_parse_record_type(content) ==
    CHOOSE i \in 0..Len(content) : (i > 0 => content[i] # "zero") /\ \A j \in (i + 1)..Len(content) : content[j] = "zero"

s2n_record_parse ==
    /\ At("parse")
    /\ LET n == s2n_record_header_parse(header_in)
           content == SubSeq(Fragment(script[n]), 1, Payload(script[n])[2])
           last == s2n_tls13_parse_record_type(content)
           inner == script[n].cipher = "tls13"
       IN  IF ~Decrypts(n)
           THEN s2n_connection_apply_error_blinding("decrypt") /\ UNCHANGED <<in_status, opened>>
           ELSE /\ call' = [call EXCEPT !.pc = "record", !.type = IF inner THEN content[last] ELSE script[n].type]
                /\ in' = [in EXCEPT !.r = Payload(script[n])[1], !.w = IF inner THEN last - 1 ELSE Len(content),
                                      !.tainted = TRUE]
                /\ in_status' = "PLAINTEXT"
                /\ opened' = opened + (IF Sealed(script[n]) THEN 1 ELSE 0)
                /\ UNCHANGED <<read_closed, error>>
    /\ UNCHANGED <<wireVars, buffer_in, header_in, contents, settings, results>>

(* The decrypted bytes of the view.                                        *)
Plain(v) == [i \in 1..(v.w - v.r) |->
                LET cell == buffer_in.cells[v.at + v.r + i]
                IN  IF cell.part = "fragment" THEN Fragment(script[cell.rec])[cell.val] ELSE "garbage"]

(* s2n_record_wipe: the record is done with; an empty buffer starts again. *)
Wiped(b) == LET c == [b EXCEPT !.tainted = FALSE]
            IN  IF is_consumed(c) THEN [c EXCEPT !.r = 0, !.w = 0] ELSE c

s2n_record_wipe == /\ header_in' = <<>> /\ in' = Freed /\ in_status' = "ENCRYPTED"
                   /\ buffer_in' = Wiped(buffer_in)

(* Any record but a handshake record in the middle of a message is an      *)
(* error.                                                                  *)
MutNeverInterrupts == FALSE
Interrupts == call.type # "HS" /\ message.data # <<>>

InterruptedMessage ==
    /\ At("record") /\ Interrupts
    /\ Fail("bad message")
    /\ UNCHANGED <<wireVars, buffer_in, header_in, in_status, opened, contents, settings, results>>

UsedUp(left) == left = 0

(* Application data: as much as was asked for; the record is wiped when it *)
(* is used up.  The buffer of old messages is freed.                       *)
ApplicationData ==
    /\ At("record") /\ call.type = "APP" /\ ~Interrupts
    /\ LET n == MinOf(call.size, in.w - in.r)
           left == in.w - in.r - n
       IN  /\ delivered' = delivered \o SubSeq(Plain(in), 1, n)
           /\ IF UsedUp(left) THEN s2n_record_wipe
              ELSE in' = [in EXCEPT !.r = @ + n] /\ UNCHANGED <<buffer_in, header_in, in_status>>
           /\ call' = [call EXCEPT !.size = @ - n, !.bytes_read = @ + n,
                                   !.pc = IF call.bytes_read + n > 0 /\ ~MultiRecord THEN "return" ELSE "loop"]
    /\ message' = NoMessage
    /\ UNCHANGED <<wireVars, opened, alert_in, settings, handled, alerts, read_closed, error, beheaded>>

(* A record of another type is wiped and forgotten.                        *)
OtherRecord ==
    /\ At("record") /\ call.type = "CCS" /\ ~Interrupts
    /\ s2n_record_wipe
    /\ message' = NoMessage
    /\ Go("loop")
    /\ UNCHANGED <<wireVars, opened, alert_in, settings, results, read_closed, error>>

(* s2n_process_alert_fragment: one or two bytes at a time until an alert   *)
(* is complete; a close_notify ends reading and leaves the rest, a warning *)
(* is forgotten with the rest of its record, any other alert is an error.  *)
AlertTaken ==
    /\ At("record") /\ call.type = "ALERT" /\ ~Interrupts
    /\ message' = NoMessage
    /\ LET n == MinOf(2 - Len(alert_in), in.w - in.r)
           a == alert_in \o SubSeq(Plain(in), 1, n)
       IN  IF in.r = in.w \/ Len(alert_in) = 2
           THEN Fail("bad message") /\ UNCHANGED <<buffer_in, header_in, in_status, alert_in, alerts>>
           ELSE IF Len(a) < 2
           THEN /\ alert_in' = a
                /\ s2n_record_wipe /\ Go("loop")
                /\ UNCHANGED <<alerts, read_closed, error>>
           ELSE /\ alerts' = Append(alerts, a)
                /\ CASE a[2] = "close_notify" ->
                          /\ read_closed' = TRUE /\ error' = error /\ alert_in' = a
                          /\ s2n_record_wipe /\ Go("loop")
                     [] a[2] = "user_canceled" ->
                          /\ alert_in' = <<>>
                          /\ s2n_record_wipe /\ Go("loop")
                          /\ UNCHANGED <<read_closed, error>>
                     [] OTHER ->
                          /\ alert_in' = a
                          /\ read_closed' = TRUE /\ error' = "alert" /\ Go("return")
                          /\ UNCHANGED <<buffer_in, header_in, in, in_status>>
    /\ UNCHANGED <<wireVars, opened, settings, delivered, handled, beheaded>>

(* s2n_post_handshake_message_recv.  The header goes through header_in of  *)
(* post_handshake, a body that is not whole in this record into memory of  *)
(* its own, which only a client will allocate.                             *)
MessageLength(d) == BodyLength[d[1]]
TakeMessage(d, length) == SubSeq(d, 1, MinOf(Len(d), length))

MessageComplete(d) == Len(d) >= MessageHeader /\ Len(d) = MessageHeader + MessageLength(d)

HandshakeRecord ==
    /\ At("record") /\ call.type = "HS"
    /\ IF in.r = in.w
       THEN s2n_record_wipe /\ Go("loop") /\ UNCHANGED <<message, handled, read_closed, error>>
       ELSE LET header == message.data \o TakeMessage(Plain(in), MaxOf(0, MessageHeader - Len(message.data)))
                rest == [in EXCEPT !.r = @ + Len(header) - Len(message.data)]
            IN  IF Len(header) < MessageHeader
                THEN /\ message' = [cap |-> MaxOf(message.cap, MessageHeader), data |-> header]
                     /\ s2n_record_wipe /\ Go("loop")
                     /\ UNCHANGED <<handled, read_closed, error>>
                ELSE LET length == MessageLength(header)
                         taken_now == TakeMessage(Plain(rest), MessageHeader + length - Len(header))
                         all == header \o taken_now
                         inPlace == Len(header) = MessageHeader /\ Len(taken_now) = length
                         waits == length > 0 /\ rest.r = rest.w
                         grows == MaxOf(message.cap, MessageHeader) - Len(header) < length
                     IN  IF waits
                         THEN /\ message' = [cap |-> MaxOf(message.cap, MessageHeader), data |-> header]
                              /\ s2n_record_wipe /\ Go("loop")
                              /\ UNCHANGED <<handled, read_closed, error>>
                         ELSE IF ~inPlace /\ grows /\ mode = "server"
                         THEN /\ s2n_connection_apply_error_blinding("bad message")
                              /\ UNCHANGED <<buffer_in, header_in, in_status, message, handled>>
                         ELSE IF MessageComplete(all)
                         THEN /\ handled' = Append(handled, all)
                              /\ message' = [cap |-> IF ~inPlace /\ grows THEN MessageHeader + length
                                                     ELSE MaxOf(message.cap, MessageHeader), data |-> <<>>]
                              /\ in' = [rest EXCEPT !.r = @ + Len(taken_now)]
                              /\ UNCHANGED <<buffer_in, header_in, in_status, call, read_closed, error>>
                         ELSE /\ message' = [cap |-> IF grows THEN MessageHeader + length ELSE message.cap, data |-> all]
                              /\ s2n_record_wipe /\ Go("loop")
                              /\ UNCHANGED <<handled, read_closed, error>>
    /\ UNCHANGED <<wireVars, opened, alert_in, settings, delivered, alerts, beheaded>>

(* The loop ends: the buffer is full, reading is closed, or it would       *)
(* block.                                                                  *)
LoopEnds ==
    /\ \/ At("loop") /\ (call.size = 0 \/ read_closed)
       \/ At("blocked")
    /\ Go("return")
    /\ UNCHANGED <<wireVars, buffers, contents, settings, results, read_closed, error>>

(* s2n_recv returns: s2n_connection_dynamic_free_in_buffer.                *)
s2n_connection_dynamic_free_in_buffer(b) == IF dynamic_buffers /\ is_consumed(b) THEN EmptyBuffer ELSE b

Return ==
    /\ At("return")
    /\ buffer_in' = s2n_connection_dynamic_free_in_buffer(buffer_in)
    /\ call' = Idle
    /\ UNCHANGED <<wireVars, header_in, in, in_status, opened, contents, settings, results, read_closed, error>>

(* Between calls the application releases the buffers.  The input buffer   *)
(* is freed before the test of post_handshake.in may fail, and that test   *)
(* is only whether its cursors meet: they do when a record has ended right *)
(* behind a message's header, which was read again to learn the length.    *)
MessageConsumed == Len(message.data) \in {0, MessageHeader}

s2n_connection_release_buffers ==
    /\ At("idle") /\ error = "none"
    /\ in.r = in.w /\ ~in.tainted
    /\ buffer_in' = IF is_consumed(buffer_in) THEN EmptyBuffer ELSE buffer_in
    /\ message' = IF MessageConsumed THEN NoMessage ELSE message
    /\ beheaded' = (beheaded \/ (MessageConsumed /\ message.data # <<>>))
    /\ UNCHANGED <<wireVars, header_in, in, in_status, opened, alert_in, settings, call, delivered, handled,
                   alerts, read_closed, error>>

(* It changes how they are used.                                           *)
s2n_connection_set_recv_buffering ==
    /\ At("idle") /\ recv_buffering' = ~recv_buffering
    /\ UNCHANGED <<wireVars, buffers, contents, dynamic_buffers, call, results, read_closed, error>>

Terminated == error # "none" \/ read_closed \/ (At("idle") /\ taken = Len(Wire) /\ in_status = "ENCRYPTED"
                                                /\ data_available(buffer_in) = 0)

Done == At("idle") /\ Terminated /\ UNCHANGED vars

Step ==
    \/ ReadFullRecord \/ s2n_read_in_bytes \/ HeaderRead \/ HeaderParsed \/ FragmentRead \/ s2n_record_parse
    \/ InterruptedMessage \/ ApplicationData \/ OtherRecord \/ AlertTaken \/ HandshakeRecord
    \/ LoopEnds \/ Return

Call == \E size \in Sizes : s2n_recv(size)

Next == Call \/ Step \/ s2n_connection_release_buffers \/ s2n_connection_set_recv_buffering \/ Done

(* The transport delivers what was sent, and the application keeps calling *)
(* s2n_recv.                                                               *)
Spec == Init /\ [][Next]_vars /\ WF_vars(Step) /\ SF_vars(s2n_read_in_bytes) /\ SF_vars(Call)

----------------------------------------------------------------------------
(* What must hold of it.                                                   *)
Sent(type) == FlattenSeq([n \in 1..Len(script) |-> IF script[n].type = type THEN script[n].data ELSE <<>>])
SentBefore(type, n) == FlattenSeq([k \in 1..(n - 1) |-> IF script[k].type = type THEN script[k].data ELSE <<>>])

(* The application gets the bytes that were sent, in order and once        *)
(* (s2n_recv_impl, s2n_read_full_record), and what s2n_peek counts between *)
(* calls is the data next to be delivered: no alert or message is ever     *)
(* left where s2n_recv would take it for data.                             *)
DeliveredIntact ==
    IsPrefix(delivered \o (IF At("idle") /\ in_status = "PLAINTEXT" /\ error = "none" THEN Plain(in) ELSE <<>>),
             Sent("APP"))

(* Alerts and messages split over records come out whole, in order and     *)
(* once, also when an alert's two bytes have other records between them    *)
(* (s2n_post_handshake_message_recv, s2n_process_alert_fragment).          *)
AlertsIntact == IsPrefix(FlattenSeq(alerts), Sent("ALERT"))
MessagesIntact ==
    /\ IsPrefix(FlattenSeq(handled), Sent("HS"))
    /\ \A i \in DOMAIN handled : Len(handled[i]) = MessageHeader + MessageLength(handled[i])

(* A post-handshake message takes effect before any application data sent  *)
(* behind it is delivered; data between two fragments of a message is      *)
(* never delivered (the check of post_handshake.in in s2n_recv_impl).      *)
HandledBeforeDelivered ==
    \A n \in 1..Len(script) :
        script[n].type = "APP" /\ Len(delivered) > Len(SentBefore("APP", n))
            => Len(FlattenSeq(handled)) >= Len(SentBefore("HS", n))

(***************************************************************************)
(* However reads are cut, buffers shared, shifted, grown, freed and        *)
(* released, data, messages and alerts come out as they were sent and in   *)
(* the order in which they were sent.  One case is left out, and only for  *)
(* messages: s2n_connection_release_buffers between the record that ends   *)
(* with a message's header and the one with its body frees the header, and *)
(* the body is then taken for a header (README, Observations).             *)
(***************************************************************************)
ContentIntact ==
    /\ DeliveredIntact /\ AlertsIntact
    /\ ~beheaded => MessagesIntact /\ HandledBeforeDelivered

(***************************************************************************)
(* The view `in` lies in live memory and shows the fragment it was made    *)
(* for, whatever is freed between calls: the tainted flag keeps the buffer *)
(* in place (s2n_connection_dynamic_free_in_buffer,                        *)
(* s2n_connection_release_buffers).                                        *)
(***************************************************************************)
ViewIntact ==
    ~IsFreed(in) /\ ~At("read_fragment") =>
        /\ in.at + in.size <= Len(buffer_in.cells)
        /\ \A i \in (in.r + 1)..in.w :
              buffer_in.cells[in.at + i] = [rec |-> header_in[1].rec, part |-> "fragment", val |-> i]

(* How much of an unfinished message the bytes d of the handshake stream   *)
(* end with.                                                               *)
Unfinished(d) ==
    LET ends[i \in 0..Len(d)] ==
            i = 0 \/ \E j \in 0..(i - 1) : ends[j] /\ i - j = MessageHeader + BodyLength[d[j + 1]]
    IN  Len(d) - Max({i \in 0..Len(d) : ends[i]})

(* What a peer may not send: records of another type between the fragments *)
(* of a message, an alert without content, and, to a server, a message     *)
(* whose body is cut.                                                      *)
PeerErred ==
    \E n \in 1..Len(script) :
        \/ script[n].type # "HS" /\ Unfinished(SentBefore("HS", n)) > 0
        \/ script[n].type = "ALERT" /\ script[n].data = <<>>
        \/ mode = "server" /\ Unfinished(SentBefore("HS", n)) > MessageHeader

(* The reader fails because of what the peer sent, never because it lost   *)
(* its place: no header is parsed from other bytes, no record is decrypted *)
(* twice, out of order or garbled, and the shared buffer has room without  *)
(* moving under a view.                                                    *)
Closed(type) == alerts # <<>> /\ (Last(alerts)[2] = "close_notify") = (type = "close_notify")
FailsForAReason ==
    CASE error = "none" -> read_closed => Closed("close_notify")
      [] error = "alert" -> Closed("error")
      [] error = "bad message" -> PeerErred \/ beheaded
      [] OTHER -> FALSE

(***************************************************************************)
(* Everything that was sent is delivered and handled, unless the stream    *)
(* ends in a close_notify, an error alert or an error of the peer: the     *)
(* reader finds each record, over short reads, read-ahead and buffers that *)
(* are freed in between (s2n_read_full_record, s2n_recv_in_init,           *)
(* s2n_stuffer_resize).  The messages of a stream whose header was freed   *)
(* by s2n_connection_release_buffers are left out, as in ContentIntact.    *)
(***************************************************************************)
AllReceived ==
    <>[](/\ FailsForAReason
         /\ \/ read_closed \/ error # "none"
            \/ /\ delivered = Sent("APP")
               /\ FlattenSeq(alerts) \o alert_in = Sent("ALERT")
               /\ beheaded \/ FlattenSeq(handled) \o message.data = Sent("HS"))
=============================================================================
