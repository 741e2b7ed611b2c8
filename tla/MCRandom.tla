------------------------------ MODULE MCRandom ------------------------------
(* Random for TLC: a program of two threads that forks, and its children.   *)
EXTENDS Random

MCThreads == {"main", "worker"}

\* Linux, an old kernel with RDRAND, and OpenBSD, each with a bound.
MCPlatforms ==
  { [wipe |-> TRUE,  atfork |-> TRUE,  rdrand |-> FALSE, bound |-> 3],
    [wipe |-> FALSE, atfork |-> TRUE,  rdrand |-> TRUE,  bound |-> 4],
    [wipe |-> TRUE,  atfork |-> FALSE, rdrand |-> FALSE, bound |-> 7] }

\* s2n_public_random is not biased: of the numbers it keeps, the same number
\* fall on each result, for every bound it accepts.
ASSUME Unbiased ==
  \A bound \in 1 .. MaxUInt \div 2 : \A x \in 0 .. bound - 1 :
    LET kept(y) == {r \in 0 .. MaxUInt : Keeps(r, bound) /\ r % bound = y}
    IN  Cardinality(kept(x)) = Cardinality(kept(0)) /\ kept(x) # {}
=============================================================================
