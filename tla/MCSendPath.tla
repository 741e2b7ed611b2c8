----------------------------- MODULE MCSendPath -----------------------------
(* SendPath for TLC: a connection of TLS1.3 with a buffer for several        *)
(* records, one whose send buffer is smaller than a record of its fragment   *)
(* size, and one of an earlier version with a buffer for one record, that    *)
(* never grows its records and splits the first one.                         *)
EXTENDS SendPath

VARIABLE kind

mc_vars == << kind, vars >>

Tight == INSTANCE SendPath WITH Override <- 4
Legacy == INSTANCE SendPath WITH
  TLS13 <- 0, Override <- 0, ResizeThreshold <- 0, BeastSplit <- 1, DynamicBuffers <- 0

Of(wide, tight, legacy) ==
  /\ \/ kind = "wide" /\ wide
     \/ kind = "tight" /\ tight
     \/ kind = "legacy" /\ legacy
  /\ UNCHANGED kind

MCInit == \/ kind = "wide" /\ Init
          \/ kind = "tight" /\ Tight!Init
          \/ kind = "legacy" /\ Legacy!Init
MCNext == Of(Next, Tight!Next, Legacy!Next)

MCFairSpec ==
  /\ MCInit /\ [][MCNext]_mc_vars
  /\ WF_mc_vars(Of(Step, Tight!Step, Legacy!Step))
  /\ SF_mc_vars(Of(Flush, Tight!Flush, Legacy!Flush))
  /\ SF_mc_vars(/\ acked < MaxBytes
                /\ Of(Call(MaxBytes - acked), Tight!Call(MaxBytes - acked), Legacy!Call(MaxBytes - acked)))
=============================================================================
