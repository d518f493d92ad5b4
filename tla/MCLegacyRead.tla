---------------------------- MODULE MCLegacyRead ----------------------------
(***************************************************************************)
(* LegacyRead on small instances.                                          *)
(***************************************************************************)
EXTENDS LegacyRead, TLC

CONSTANTS c1, c2, d1, d2

(* Two configurations that name different databases; one dataset is in both *)
(* and one in the first only.                                               *)
MCTables == c1 :> {d1, d2} @@ c2 :> {d1}

Symmetry == Permutations(Request)
=============================================================================
