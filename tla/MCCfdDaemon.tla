----------------------------- MODULE MCCfdDaemon -----------------------------
(* CfdDaemon for TLC: one contract, whose CETs cover the one attestation.  *)
EXTENDS CfdDaemon

MCCets == [d \in Dlcs |-> Attestations]

=============================================================================
