---------------------------- MODULE MCLegacyPost ----------------------------
(***************************************************************************)
(* LegacyPost on small instances.                                          *)
(***************************************************************************)
EXTENDS LegacyPost, TLC

(* Requests are interchangeable: no definition compares them. *)
Symmetry == Permutations(Request)
=============================================================================
