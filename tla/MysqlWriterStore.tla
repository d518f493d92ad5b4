-------------------------- MODULE MysqlWriterStore --------------------------
(***************************************************************************)
(* MysqlWriter implements FlushStore.                                      *)
(***************************************************************************)
EXTENDS MysqlWriter

(* What a row holds, its since column apart. *)
Content == [writer : Writer, entity : Entity]

ASSUME ContentAssumption == Absent \notin Content

StoredContent ==
  [i \in Id |-> IF table[i] = Absent THEN Absent
                ELSE [writer |-> table[i].writer, entity |-> table[i].entity]]

(* A request has ended when its transaction is over, whatever is called     *)
(* on it later; between the two texts of a flush it is cleared.             *)
Ended(w) == tx[w] = "done" \/ pc[w] \in {"closed", "gone"}

Stage == [w \in Writer |-> IF Ended(w) THEN "ended"
                           ELSE IF pc[w] = "insert" THEN "cleared" ELSE "open"]

(* What its batch asks for, as long as the request can still ask. *)
ToRemove == [w \in Writer |-> IF Ended(w) THEN {} ELSE deleteIds[w]]

RowToPut(w, i) == IF Ended(w) \/ batchInserts[w][i] = Absent THEN Absent
                  ELSE [writer |-> w, entity |-> batchInserts[w][i]]

ToPut == [w \in Writer |-> [i \in Id |-> RowToPut(w, i)]]

Store == INSTANCE FlushStore WITH
  store <- StoredContent, stage <- Stage, remove <- ToRemove, put <- ToPut

(* Flush changes the table in two atomic steps per batch and no others: it  *)
(* removes the ids of the batch, then puts all of its rows if none of them  *)
(* is there again; and once its transaction is over a request never         *)
(* changes the table (write.go:211-275: BEGIN; DELETE ...; COMMIT, then     *)
(* BEGIN; INSERT ...; COMMIT).                                              *)
ImplementsFlushStore == Store!Spec
=============================================================================
