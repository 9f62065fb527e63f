--------------------------- MODULE MCNegotiation ---------------------------
(***************************************************************************)
(* Every combination of security settings on both sides.                   *)
(***************************************************************************)
EXTENDS Negotiation

AllClientSettings == SUBSET Settings
AllServerSettings == SUBSET {"RDSTLS", "HYBRID", "SSL", "RDP"}
=============================================================================
