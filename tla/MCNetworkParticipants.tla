----------------------- MODULE MCNetworkParticipants -----------------------
(* Instances of NetworkParticipants for TLC.                               *)
EXTENDS NetworkParticipants, TLC

CONSTANTS s1, retail, grocery

(* One seller is registered in two domains.                                *)
TwoDomains == (s1 :> {retail, grocery})
=============================================================================
