------------------------------ MODULE MCStuffer ------------------------------
(* Model-checking instance of Stuffer: sizes up to MaxU32 bytes, two-byte    *)
(* pages and growth steps, so that a write can fit, grow in place, grow into *)
(* new memory or overflow.                                                   *)
EXTENDS Stuffer
=============================================================================
