---------------------------- MODULE MCChangeFeed ----------------------------
(***************************************************************************)
(* ChangeFeed on small instances.                                          *)
(***************************************************************************)
EXTENDS ChangeFeed, TLC

(* Requests and ids are interchangeable: no definition compares them. *)
Symmetry == Permutations(Writer) \cup Permutations(Id)

Plain == [mapped |-> TRUE, entityColumn |-> FALSE, sinceColumn |-> TRUE,
          sinceTable |-> FALSE, where |-> "none"]

(* A dataset with a since column and no data query. *)
WatermarkOnly == {Plain}

(* And without a since column; with a since table and a data query with     *)
(* WHERE, which is continued with AND; with such a query and no since       *)
(* table, which gets a second WHERE; without a mapping.                     *)
Mixed == {Plain,
          [Plain EXCEPT !.sinceColumn = FALSE],
          [Plain EXCEPT !.sinceTable = TRUE, !.where = "WHERE"],
          [Plain EXCEPT !.where = "WHERE"],
          [Plain EXCEPT !.mapped = FALSE]}
=============================================================================
