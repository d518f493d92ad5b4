--------------------------- MODULE MCMysqlWriter ---------------------------
(***************************************************************************)
(* MysqlWriter on small instances.                                         *)
(***************************************************************************)
EXTENDS MysqlWriterStore, TLC

(* Requests and ids are interchangeable: no definition compares them. *)
Symmetry == Permutations(Writer) \cup Permutations(Id)
=============================================================================
