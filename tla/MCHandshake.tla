---------------------------- MODULE MCHandshake ----------------------------
(* Handshake for TLC.  Three scenarios share a run: the ordinary            *)
(* configurations; those with fewer combinations of optional messages, with *)
(* callbacks that block and a HelloRequest; and a server that puts several  *)
(* messages into a record and whose callbacks block, under fairness.        *)
EXTENDS Handshake

NoPeers == {}
AllPeers == Peers
ServerOnly == {"server"}

\* Every configuration of one version.
TLS12Configs ==
  { c \in [version : {12}, client_auth : AuthTypes, server_auth : AuthTypes,
           has_cert : BOOLEAN, resume : BOOLEAN, ticket : BOOLEAN, pfs : BOOLEAN,
           ocsp : {"no", "stapled", "missing"}, npn : BOOLEAN, psk : {FALSE},
           hrr : {FALSE}, early : {"no", "rejected"}] : WellFormed(c) }

\* ... without a client that requires client authentication and resumes: its
\* handshake type has no row (README, Observations).
TLS12Ordinary == { c \in TLS12Configs : c.resume => c.client_auth # "required" }

TLS13Configs ==
  { c \in [version : {13}, client_auth : AuthTypes, server_auth : AuthTypes,
           has_cert : BOOLEAN, resume : {FALSE}, ticket : {FALSE}, pfs : {TRUE},
           ocsp : {"no"}, npn : {FALSE}, psk : BOOLEAN, hrr : BOOLEAN,
           early : {"no", "rejected", "accepted"}] : WellFormed(c) }

\* Settings no message depends on have one value: a certificate that is not
\* asked for, and what only a full handshake has.
Relevant(c) ==
  /\ c.server_auth = "none" \/ c.psk => ~c.has_cert
  /\ c.resume => c.pfs /\ c.ocsp = "no"

Ordinary == { c \in TLS12Ordinary \cup TLS13Configs : Relevant(c) }

\* The configurations with which both peers can complete.
CompatibleOnly == { c \in Ordinary : Compatible(c) }

\* Fewer combinations of the optional messages, and the rest of them.
FewOrdinary == { c \in Ordinary : c.version = 12 => c.npn = c.pfs /\ c.ticket = c.pfs }
ManyOrdinary == Ordinary \ FewOrdinary

\* ... and for the liveness property.
FewCompatible ==
  { c \in CompatibleOnly \cap FewOrdinary : c.version = 12 => c.ocsp # "stapled" }

VARIABLE scenario

mc_vars == << scenario, vars >>

Order == INSTANCE Handshake WITH
  Configs <- ManyOrdinary, AsyncPeers <- NoPeers, MaxHelloRequests <- 0
Blocking == INSTANCE Handshake WITH
  Configs <- FewOrdinary
Records == INSTANCE Handshake WITH
  Configs <- FewCompatible, Coalescers <- ServerOnly, AsyncPeers <- ServerOnly,
  MaxHelloRequests <- 0

MCInit == \/ scenario = "order" /\ Order!Init
          \/ scenario = "blocking" /\ Blocking!Init
          \/ scenario = "records" /\ Records!Init
MCNext == /\ \/ scenario = "order" /\ Order!Next
             \/ scenario = "blocking" /\ Blocking!Next
             \/ scenario = "records" /\ Records!Next
          /\ UNCHANGED scenario

RecordsStep(p) == scenario = "records" /\ Records!NegotiateStep(p) /\ UNCHANGED scenario

MCSpec == MCInit /\ [][MCNext]_mc_vars /\ \A p \in Peers : WF_mc_vars(RecordsStep(p))

\* Peers with compatible configurations complete the handshake
\* (HandshakeCompletes), whichever handlers the server's application blocks
\* and however its records are coalesced.
RecordsComplete == scenario = "records" => HandshakeCompletes

\* Both peers put several messages into a record, and the callbacks of both block.
RetrySpec == scenario = "retry" /\ Init /\ [][Next /\ UNCHANGED scenario]_mc_vars
=============================================================================
