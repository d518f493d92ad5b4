---------------------------- MODULE MCLegacyRows ----------------------------
(***************************************************************************)
(* LegacyRows on small instances: results of two or three columns of all   *)
(* types, with and without the capture column.                             *)
(***************************************************************************)
EXTENDS LegacyRows, TLC

Columns(n, types) == {[name |-> n, type |-> t] : t \in types}

(* The capture column is an integer, or of a type toEntity does not expect. *)
MCTables ==
  {<<k, v>> : k \in Columns("key", {"string", "int", "other"}),
              v \in Columns("val", {"string", "bigint", "bit", "float"})}
  \cup
  {<<o, k, v>> : o \in Columns(Operation, {"int", "bigint"}),
                 k \in Columns("key", {"string"}), v \in Columns("val", {"bigint", "bit"})}

Plain == [ignore |-> FALSE, isId |-> FALSE, isReference |-> FALSE, property |-> ""]

(* Columns without a mapping: the capture column, the value. *)
MCMappings ==
  {[cdc |-> d, types |-> IF d THEN 1 ELSE 2, columns |-> o @@ ("key" :> k) @@ v] :
     d \in BOOLEAN,
     o \in {<<>>, Operation :> Plain},
     k \in {[Plain EXCEPT !.isId = TRUE],
            [Plain EXCEPT !.isId = TRUE, !.isReference = TRUE, !.property = "val"]},
     v \in {<<>>, "val" :> [Plain EXCEPT !.isId = TRUE, !.isReference = TRUE],
            "val" :> [Plain EXCEPT !.isReference = TRUE, !.property = "rdf:type"],
            "val" :> [Plain EXCEPT !.ignore = TRUE]}}
=============================================================================
