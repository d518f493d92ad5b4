------------------------- MODULE MCDatalayerConfig -------------------------
(***************************************************************************)
(* DatalayerConfig on a small instance.                                    *)
(***************************************************************************)
EXTENDS DatalayerConfig
=============================================================================
