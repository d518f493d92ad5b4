--------------------------- MODULE MCConfigReload ---------------------------
(***************************************************************************)
(* ConfigReload on a small instance.                                       *)
(***************************************************************************)
EXTENDS ConfigReload
=============================================================================
