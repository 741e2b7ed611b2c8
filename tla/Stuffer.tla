------------------------------- MODULE Stuffer -------------------------------
(***************************************************************************)
(* stuffer/s2n_stuffer.c and the part of utils/s2n_mem.c it calls: a byte  *)
(* buffer with a read cursor, a write cursor and a high water mark over a  *)
(* blob that is either borrowed ("static") or allocated and growable.      *)
(*                                                                         *)
(* Bytes are abstracted to whether they hold payload: residue is the set   *)
(* of offsets of the current memory that were written and neither wiped    *)
(* nor erased since.  Memory is abstracted to a name, so that "the memory  *)
(* moved" can be said: a fresh allocation has a name other than the one it *)
(* replaces.  A call that returns an error leaves the stuffer as it was    *)
(* (s2n_stuffer_copy restores its cursors), so failures are stuttering.    *)
(***************************************************************************)
EXTENDS Integers, FiniteSets

CONSTANTS
  MaxU32,     \* UINT32_MAX, the largest size the blob can have
  MinGrowth,  \* S2N_MIN_STUFFER_GROWTH_IN_BYTES
  PageSize    \* page_size of s2n_mem.c: allocations are rounded up to it

ASSUME StufferAssumption ==
  /\ MaxU32 \in Nat
  /\ MinGrowth \in Nat \ {0}
  /\ PageSize \in Nat \ {0}

VARIABLES
  size,             \* blob.size
  allocated,        \* blob.allocated
  mem,              \* which memory blob.data points to; NULL if none
  read_cursor,
  write_cursor,
  high_water_mark,
  alloced,          \* does the stuffer own the blob?
  growable,
  tainted,          \* a raw pointer into the blob has been handed out
  residue,          \* offsets that still hold payload
  raw               \* memory a caller holds a raw pointer to; NULL if none

blob    == <<size, allocated, mem>>
cursors == <<read_cursor, write_cursor, high_water_mark>>
flags   == <<alloced, growable, tainted>>
vars    == <<blob, cursors, flags, residue, raw>>

NULL   == "NULL"
Memory == {"m1", "m2"}
U32    == 0..MaxU32
Bit    == {0, 1}

OtherMemory == IF mem = "m1" THEN "m2" ELSE "m1"

Larger(a, b)  == IF a >= b THEN a ELSE b
Smaller(a, b) == IF a <= b THEN a ELSE b
Span(from, n) == from .. (from + n - 1)

data_available  == write_cursor - read_cursor
space_remaining == size - write_cursor
is_wiped        == high_water_mark = 0
is_freed        == mem = NULL
is_consumed     == read_cursor = write_cursor /\ tainted = 0

-----------------------------------------------------------------------------
(* s2n_mem.c                                                               *)

\* s2n_align_to: n rounded up to whole pages, or an error if that overflows.
align_to(n) == {a \in U32 : n <= a /\ a < n + PageSize /\ a % PageSize = 0}

\* What the allocator may report for a request of n > 0 bytes: exactly n
\* (no mlock) or n rounded up to whole pages (mlock).
AllocatedFor(n) == {n} \cup align_to(n)

\* s2n_realloc(&stuffer->blob, n) for n > 0: reuse the memory when it is
\* large enough, else allocate, copy and free (zeroing) the old memory.
\* The offsets that hold payload are the same ones afterwards.
realloc(n) ==
  \/ /\ n <= allocated
     /\ size' = n
     /\ UNCHANGED <<allocated, mem>>
  \/ /\ n > allocated
     /\ size' = n
     /\ allocated' \in AllocatedFor(n)
     /\ mem' = OtherMemory

-----------------------------------------------------------------------------
(* Creating and freeing                                                    *)

\* The zeroed struct every stuffer starts as and returns to.
Zeroed ==
  /\ size = 0 /\ allocated = 0 /\ mem = NULL
  /\ read_cursor = 0 /\ write_cursor = 0 /\ high_water_mark = 0
  /\ alloced = 0 /\ growable = 0 /\ tainted = 0
  /\ residue = {} /\ raw = NULL

Init == Zeroed

\* s2n_stuffer_init: borrow n bytes of the caller's memory.
init(n) ==
  /\ Zeroed
  /\ size' = n
  /\ mem' = "m1"
  /\ UNCHANGED <<allocated, cursors, flags, residue, raw>>

\* s2n_stuffer_alloc and s2n_stuffer_growable_alloc.
alloc(n, grow_flag) ==
  /\ Zeroed
  /\ IF n = 0 THEN UNCHANGED blob ELSE realloc(n)
  /\ alloced' = 1
  /\ growable' = grow_flag
  /\ UNCHANGED <<cursors, tainted, residue, raw>>

free ==
  /\ size' = 0 /\ allocated' = 0 /\ mem' = NULL
  /\ read_cursor' = 0 /\ write_cursor' = 0 /\ high_water_mark' = 0
  /\ alloced' = 0 /\ growable' = 0 /\ tainted' = 0
  /\ residue' = {} /\ raw' = NULL

-----------------------------------------------------------------------------
(* Cursors and wiping                                                      *)

wipe ==
  /\ residue' = residue \ Span(0, high_water_mark)
  /\ tainted' = 0
  /\ raw' = NULL
  /\ read_cursor' = 0 /\ write_cursor' = 0 /\ high_water_mark' = 0
  /\ UNCHANGED <<blob, alloced, growable>>

\* Mutant of wipe_n: the read cursor is left beyond the write cursor.
wipe_n_keeps_read_cursor(n) ==
  LET wiped == Smaller(n, write_cursor)
  IN  /\ write_cursor' = write_cursor - wiped
      /\ residue' = residue \ Span(write_cursor - wiped, wiped)
      /\ UNCHANGED <<blob, read_cursor, high_water_mark, flags, raw>>

wipe_n(n) ==
  LET wiped == Smaller(n, write_cursor)
  IN  /\ write_cursor' = write_cursor - wiped
      /\ read_cursor' = Smaller(read_cursor, write_cursor - wiped)
      /\ residue' = residue \ Span(write_cursor - wiped, wiped)
      /\ UNCHANGED <<blob, high_water_mark, flags, raw>>

rewrite ==
  /\ write_cursor' = 0
  /\ read_cursor' = 0
  /\ UNCHANGED <<blob, high_water_mark, flags, residue, raw>>

reread ==
  /\ read_cursor' = 0
  /\ UNCHANGED <<blob, write_cursor, high_water_mark, flags, residue, raw>>

rewind_read(n) ==
  /\ read_cursor >= n
  /\ read_cursor' = read_cursor - n
  /\ UNCHANGED <<blob, write_cursor, high_water_mark, flags, residue, raw>>

-----------------------------------------------------------------------------
(* Reading                                                                 *)

skip_read(n) ==
  /\ data_available >= n
  /\ read_cursor' = read_cursor + n
  /\ UNCHANGED <<write_cursor, high_water_mark>>

\* s2n_stuffer_read, s2n_stuffer_read_bytes: copy out, keep the bytes.
read_bytes(n) ==
  /\ ~is_freed
  /\ skip_read(n)
  /\ UNCHANGED <<blob, flags, residue, raw>>

\* s2n_stuffer_erase_and_read(_bytes): copy out, zero the bytes.
erase_and_read(n) ==
  /\ skip_read(n)
  /\ residue' = residue \ Span(read_cursor, n)
  /\ UNCHANGED <<blob, flags, raw>>

\* s2n_stuffer_raw_read: hand out a pointer to the next n bytes.
raw_read(n) ==
  /\ skip_read(n)
  /\ tainted' = 1
  /\ raw' = mem
  /\ UNCHANGED <<blob, alloced, growable, residue>>

-----------------------------------------------------------------------------
(* Resizing                                                                *)

\* Mutant of Resizable: the taint check is missing.
growable_only == growable = 1

Resizable == tainted = 0 /\ growable = 1

shrink(n) ==
  /\ Resizable
  /\ n # 0 /\ n < size
  /\ size' = n
  /\ read_cursor' = Smaller(read_cursor, n)
  /\ write_cursor' = Smaller(write_cursor, n)
  /\ high_water_mark' = Smaller(high_water_mark, n)
  /\ residue' = residue \ Span(n, size - n)
  /\ UNCHANGED <<allocated, mem, flags, raw>>

\* s2n_stuffer_resize to 0: wipe, then give the blob back.
resize_to_zero ==
  /\ Resizable
  /\ size # 0
  /\ size' = 0 /\ allocated' = 0 /\ mem' = NULL
  /\ read_cursor' = 0 /\ write_cursor' = 0 /\ high_water_mark' = 0
  /\ residue' = {} /\ raw' = NULL
  /\ UNCHANGED flags

grow(n) ==
  /\ Resizable
  /\ n > size
  /\ realloc(n)

resize(n) ==
  \/ shrink(n)
  \/ n = 0 /\ resize_to_zero
  \/ grow(n) /\ UNCHANGED <<cursors, flags, residue, raw>>

resize_if_empty(n) ==
  /\ is_freed
  /\ Resizable
  /\ n # 0
  /\ realloc(n)
  /\ UNCHANGED <<cursors, flags, residue, raw>>

\* s2n_stuffer_reserve_space: grow by at least MinGrowth when n bytes do not
\* fit, and fail when the new size does not fit in 32 bits.
reserve_space(n) ==
  \/ /\ space_remaining >= n
     /\ UNCHANGED blob
  \/ /\ space_remaining < n
     /\ LET new_size == size + Larger(n - space_remaining, MinGrowth)
        IN  new_size <= MaxU32 /\ grow(new_size)

-----------------------------------------------------------------------------
(* Writing                                                                 *)

skip_write(n) ==
  /\ reserve_space(n)
  /\ write_cursor' = write_cursor + n
  /\ high_water_mark' = Larger(write_cursor + n, high_water_mark)
  /\ UNCHANGED read_cursor

\* s2n_stuffer_write(_bytes), s2n_stuffer_skip_write and the destination of
\* s2n_stuffer_copy: n bytes of payload at the write cursor.
write_bytes(n) ==
  /\ skip_write(n)
  /\ residue' = residue \cup Span(write_cursor, n)
  /\ UNCHANGED <<flags, raw>>

\* s2n_stuffer_raw_write and s2n_stuffer_writev_bytes: the caller fills the
\* bytes through the pointer it gets.
raw_write(n) ==
  /\ skip_write(n)
  /\ residue' = residue \cup Span(write_cursor, n)
  /\ tainted' = 1
  /\ raw' = mem'
  /\ UNCHANGED <<alloced, growable>>

\* Mutant of shift: the high water mark is lowered to the write cursor.
shift_lowers_mark ==
  /\ write_cursor' = data_available
  /\ high_water_mark' = data_available
  /\ read_cursor' = 0
  /\ residue' = (residue \ Span(0, data_available)) \cup
                {i - read_cursor : i \in residue \cap Span(read_cursor, data_available)}
  /\ UNCHANGED <<blob, flags, raw>>

\* s2n_stuffer_shift: move the unread bytes to the front.
shift ==
  /\ write_cursor' = data_available
  /\ read_cursor' = 0
  /\ residue' = (residue \ Span(0, data_available)) \cup
                {i - read_cursor : i \in residue \cap Span(read_cursor, data_available)}
  /\ UNCHANGED <<blob, high_water_mark, flags, raw>>

-----------------------------------------------------------------------------
Next ==
  \/ free
  \/ wipe
  \/ rewrite
  \/ reread
  \/ shift
  \/ \E n \in U32 :
       \/ init(n)
       \/ \E grow_flag \in Bit : alloc(n, grow_flag)
       \/ wipe_n(n)
       \/ rewind_read(n)
       \/ read_bytes(n)
       \/ erase_and_read(n)
       \/ raw_read(n)
       \/ resize(n)
       \/ resize_if_empty(n)
       \/ write_bytes(n)
       \/ raw_write(n)

Spec == Init /\ [][Next]_vars

-----------------------------------------------------------------------------
(* Properties                                                              *)

\* Type invariant: every field of struct s2n_stuffer has its C type.
TypeOK ==
  /\ size \in U32 /\ allocated \in U32
  /\ mem \in Memory \cup {NULL}
  /\ read_cursor \in U32 /\ write_cursor \in U32 /\ high_water_mark \in U32
  /\ alloced \in Bit /\ growable \in Bit /\ tainted \in Bit
  /\ residue \subseteq Nat
  /\ raw \in Memory \cup {NULL}

\* s2n_stuffer_validate and s2n_blob_validate, which every function of
\* s2n_stuffer.c takes as precondition and promises as postcondition
\* (the debug build asserts them): cursors in order and inside the blob,
\* a growable blob no larger than what was allocated, no size without data.
Valid ==
  /\ read_cursor <= write_cursor
  /\ write_cursor <= high_water_mark
  /\ high_water_mark <= size
  /\ growable = 1 => alloced = 1
  /\ alloced = 1 => size <= allocated
  /\ mem = NULL => size = 0 /\ allocated = 0

\* s2n_stuffer_wipe zeroes only the first high_water_mark bytes, and
\* s2n_stuffer_is_wiped looks at nothing else: whatever the sequence of
\* writes, rewinds, shifts, partial wipes and resizes, every byte of payload
\* is below the mark.
ResidueBelowMark == residue \subseteq Span(0, high_water_mark)

\* A pointer handed out by a raw read or write stays a pointer into the
\* stuffer's memory until the stuffer is wiped or freed: growing to make room
\* for another write never moves or releases the memory under it.
RawPointerNotDangling == raw # NULL => raw = mem
=============================================================================
