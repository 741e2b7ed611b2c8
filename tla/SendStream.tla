----------------------------- MODULE SendStream -----------------------------
(***************************************************************************)
(* What s2n_send promises to an application that follows the documentation *)
(* (docs/usage-guide/topics/ch07-io.md): the application has MaxBytes      *)
(* bytes to send; they are encrypted once and in order, handed to the      *)
(* transport, and only then reported as sent.                              *)
(***************************************************************************)
EXTENDS Naturals

CONSTANT MaxBytes   \* bytes the application has to send

VARIABLES
  written,    \* bytes encrypted, a prefix of the application's data
  delivered,  \* bytes in records the transport has in full
  acked       \* bytes that s2n_send has reported as sent

vars == << written, delivered, acked >>

Init == written = 0 /\ delivered = 0 /\ acked = 0

Write ==
  /\ written' \in written + 1 .. MaxBytes
  /\ UNCHANGED << delivered, acked >>

Deliver ==
  /\ delivered' \in delivered + 1 .. written
  /\ UNCHANGED << written, acked >>

Acknowledge ==
  /\ acked' \in acked + 1 .. delivered
  /\ UNCHANGED << written, delivered >>

Next == Write \/ Deliver \/ Acknowledge

Spec == Init /\ [][Next]_vars
=============================================================================
