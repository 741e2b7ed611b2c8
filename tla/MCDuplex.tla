------------------------------ MODULE MCDuplex ------------------------------
(* Instances of Duplex for TLC.                                            *)
EXTENDS Duplex

ClientOnly == {"client"}
ServerOnly == {"server"}
None       == {}
Both       == Peers

OneClient == [client |-> 1, server |-> 0]
OneServer == [client |-> 0, server |-> 1]
\* The server sends so often that requests come between its records.
OneAndThree == [client |-> 1, server |-> 3]
=============================================================================
