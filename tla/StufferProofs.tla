---------------------------- MODULE StufferProofs ----------------------------
(* The invariants of Stuffer, for every integer width, growth step and page  *)
(* size.                                                                     *)
EXTENDS Stuffer, TLAPS

\* The conjunction that is inductive: a raw pointer can only dangle if the
\* memory moved while it was out, which the taint flag forbids.
StufferInv ==
  /\ TypeOK
  /\ Valid
  /\ ResidueBelowMark
  /\ RawPointerNotDangling
  /\ raw # NULL => tainted = 1

LEMMA StufferInit == Init => StufferInv
<1> SUFFICES ASSUME Init PROVE StufferInv
  OBVIOUS
<1> USE StufferAssumption DEF Init, Zeroed, NULL, U32, Span
<1>1. TypeOK
  BY DEF TypeOK, Bit
<1>2. Valid
  BY DEF Valid
<1>3. ResidueBelowMark
  BY DEF ResidueBelowMark
<1>4. RawPointerNotDangling /\ (raw # NULL => tainted = 1)
  BY DEF RawPointerNotDangling
<1> QED
  BY <1>1, <1>2, <1>3, <1>4 DEF StufferInv

LEMMA StufferStep == StufferInv /\ [Next]_vars => StufferInv'
<1> SUFFICES ASSUME StufferInv, [Next]_vars PROVE StufferInv'
  OBVIOUS
<1> USE StufferAssumption
    DEF StufferInv, TypeOK, Valid, ResidueBelowMark, RawPointerNotDangling,
        NULL, Memory, U32, Bit, Span, blob, cursors, flags
<1>1. CASE free
  BY <1>1 DEF free
<1>2. CASE wipe
  BY <1>2 DEF wipe
<1>3. CASE rewrite
  BY <1>3 DEF rewrite
<1>4. CASE reread
  BY <1>4 DEF reread
<1>5. CASE shift
  <2> USE <1>5 DEF shift, data_available
  <2>1. write_cursor - read_cursor \in 0..write_cursor
    OBVIOUS
  <2>2. ASSUME NEW i \in residue', i \notin residue
        PROVE  i \in Nat /\ i < high_water_mark
    <3>1. PICK j \in residue \cap Span(read_cursor, data_available) : i = j - read_cursor
      BY <2>2
    <3>2. j \in Int /\ read_cursor <= j /\ j < write_cursor
      BY <3>1, <2>1
    <3> QED
      BY <3>1, <3>2
  <2>3. ASSUME NEW i \in residue'
        PROVE  i \in Nat /\ i < high_water_mark
    <3>1. CASE i \in residue
      BY <3>1
    <3>2. CASE i \notin residue
      BY <2>2, <3>2
    <3> QED
      BY <3>1, <3>2
  <2>4. residue' \subseteq Nat /\ residue' \subseteq Span(0, high_water_mark)
    <3> HIDE <1>5 DEF shift
    <3> QED
      BY <2>3
  <2> QED
    BY <2>1, <2>4
<1>6. ASSUME NEW n \in U32 PROVE init(n) => StufferInv'
  BY <1>6 DEF init, Zeroed
<1>7. ASSUME NEW n \in U32, NEW grow_flag \in Bit PROVE alloc(n, grow_flag) => StufferInv'
  BY <1>7 DEF alloc, Zeroed, realloc, AllocatedFor, align_to, OtherMemory
<1>8. ASSUME NEW n \in U32 PROVE wipe_n(n) => StufferInv'
  BY <1>8 DEF wipe_n, Smaller
<1>9. ASSUME NEW n \in U32 PROVE rewind_read(n) => StufferInv'
  BY <1>9 DEF rewind_read
<1>10. ASSUME NEW n \in U32 PROVE read_bytes(n) => StufferInv'
  BY <1>10 DEF read_bytes, skip_read, data_available
<1>11. ASSUME NEW n \in U32 PROVE erase_and_read(n) => StufferInv'
  BY <1>11 DEF erase_and_read, skip_read, data_available
<1>12. ASSUME NEW n \in U32 PROVE raw_read(n) => StufferInv'
  BY <1>12 DEF raw_read, skip_read, data_available
<1>13. ASSUME NEW n \in U32 PROVE resize(n) => StufferInv'
  <2>1. shrink(n) => StufferInv'
    BY DEF shrink, Resizable, Smaller
  <2>2. resize_to_zero => StufferInv'
    BY DEF resize_to_zero
  <2>3. grow(n) /\ UNCHANGED <<cursors, flags, residue, raw>> => StufferInv'
    BY DEF grow, Resizable, realloc, AllocatedFor, align_to, OtherMemory
  <2> QED
    BY <2>1, <2>2, <2>3 DEF resize
<1>14. ASSUME NEW n \in U32 PROVE resize_if_empty(n) => StufferInv'
  BY <1>14 DEF resize_if_empty, Resizable, realloc, AllocatedFor, align_to, OtherMemory, is_freed
<1>15. ASSUME NEW n \in U32 PROVE write_bytes(n) => StufferInv'
  BY <1>15 DEF write_bytes, skip_write, reserve_space, space_remaining, Larger, grow, Resizable,
     realloc, AllocatedFor, align_to, OtherMemory
<1>16. ASSUME NEW n \in U32 PROVE raw_write(n) => StufferInv'
  BY <1>16 DEF raw_write, skip_write, reserve_space, space_remaining, Larger, grow, Resizable,
     realloc, AllocatedFor, align_to, OtherMemory
<1>17. CASE UNCHANGED vars
  BY <1>17 DEF vars
<1> QED
  BY <1>1, <1>2, <1>3, <1>4, <1>5, <1>6, <1>7, <1>8, <1>9, <1>10, <1>11, <1>12, <1>13,
     <1>14, <1>15, <1>16, <1>17 DEF Next

\* Whatever calls are made on a stuffer, its cursors stay in order and inside
\* its blob: s2n_stuffer_validate, with which every function of
\* s2n_stuffer.c begins, never fails.
THEOREM StufferCorrect == Spec => []Valid
<1>1. StufferInv => Valid
  BY DEF StufferInv
<1> QED
  BY StufferInit, StufferStep, <1>1, PTL DEF Spec

\* All payload left in the blob lies below the high water mark, so that the
\* s2n_stuffer_wipe of a stuffer leaves none behind, whatever shifts, partial
\* wipes and resizes came before.
THEOREM WipeReachesPayload == Spec => []ResidueBelowMark
<1>1. StufferInv => ResidueBelowMark
  BY DEF StufferInv
<1> QED
  BY StufferInit, StufferStep, <1>1, PTL DEF Spec

\* A pointer handed out by s2n_stuffer_raw_read or s2n_stuffer_raw_write points
\* into the memory the stuffer has: no resize moves it while it is in use.
THEOREM RawPointersValid == Spec => []RawPointerNotDangling
<1>1. StufferInv => RawPointerNotDangling
  BY DEF StufferInv
<1> QED
  BY StufferInit, StufferStep, <1>1, PTL DEF Spec

=============================================================================
