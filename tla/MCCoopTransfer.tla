--------------------------- MODULE MCCoopTransfer ---------------------------
(* An instance of CoopTransfer for TLC.                                    *)
EXTENDS CoopTransfer

CONSTANTS g1, g2
=============================================================================
