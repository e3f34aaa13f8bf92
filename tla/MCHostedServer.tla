--------------------------- MODULE MCHostedServer ---------------------------
(* Small instances of HostedServer for TLC.                                *)
EXTENDS HostedServer, TLC
CONSTANTS k1, k2

(* One run a month for k1; k2, still to be paid for, is unlimited.         *)
MCCap == (k1 :> 1) @@ (k2 :> 0)
=============================================================================
