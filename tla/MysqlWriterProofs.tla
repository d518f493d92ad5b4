------------------------- MODULE MysqlWriterProofs -------------------------
(***************************************************************************)
(* What holds of the write path for all requests, ids, thresholds, numbers *)
(* of writes and clocks.                                                   *)
(***************************************************************************)
EXTENDS MysqlWriter, TLAPS, FiniteSetTheorems

-----------------------------------------------------------------------------
(***************************************************************************)
(* Type correctness.                                                       *)
(***************************************************************************)

LEMMA InitTypeOK == Init => TypeOK
  BY DEF Init, TypeOK, NoInserts, NoStamps

LEMMA GrowthType ==
  ASSUME NEW e, NEW existing
  PROVE  Growth(e, existing) \in {0, 1}
  BY DEF Growth

LEMMA FlushOkType ==
  ASSUME TypeOK, NEW w \in Writer, FlushOk(w)
  PROVE  /\ pc' \in [Writer -> {"idle", "ready", "delete", "insert", "commit", "closed", "gone"}]
         /\ reported' \in [Writer -> {"none", "ok", "error"}]
         /\ batchInserts' \in [Writer -> [Id -> Entity \cup {Absent}]]
         /\ deleteIds' \in [Writer -> SUBSET Id]
         /\ batchSize' \in [Writer -> Nat]
         /\ batchNo' \in [Writer -> Nat]
<1>1. CASE closing[w]
  BY <1>1 DEF TypeOK, FlushOk, batchVars
<1>2. CASE ~closing[w]
  <2>1. NoInserts \in [Id -> Entity \cup {Absent}]
    BY DEF NoInserts
  <2>2. /\ batchInserts' = [batchInserts EXCEPT ![w] = NoInserts]
        /\ deleteIds' = [deleteIds EXCEPT ![w] = {}]
        /\ batchSize' = [batchSize EXCEPT ![w] = 0]
        /\ batchNo' = [batchNo EXCEPT ![w] = @ + 1]
        /\ pc' = [pc EXCEPT ![w] = "ready"]
        /\ reported' = [reported EXCEPT ![w] = "ok"]
    BY <1>2 DEF FlushOk
  <2>3. batchInserts' \in [Writer -> [Id -> Entity \cup {Absent}]]
    BY <2>1, <2>2 DEF TypeOK
  <2>4. deleteIds' \in [Writer -> SUBSET Id]
    BY <2>2 DEF TypeOK
  <2> QED
    BY <2>2, <2>3, <2>4 DEF TypeOK
<1> QED
  BY <1>1, <1>2

LEMMA FlushErrorType ==
  ASSUME TypeOK, NEW w \in Writer, FlushError(w)
  PROVE  /\ pc' \in [Writer -> {"idle", "ready", "delete", "insert", "commit", "closed", "gone"}]
         /\ closing' \in [Writer -> BOOLEAN]
         /\ tx' \in [Writer -> {"none", "open", "done"}]
         /\ stamps' \in [Writer -> [Id -> Nat]]
         /\ reported' \in [Writer -> {"none", "ok", "error"}]
         /\ failed' \in [Writer -> BOOLEAN]
         /\ batchInserts' \in [Writer -> [Id -> Entity \cup {Absent}]]
         /\ deleteIds' \in [Writer -> SUBSET Id]
         /\ batchSize' \in [Writer -> Nat]
         /\ batchNo' \in [Writer -> Nat]
         /\ written' \in [Writer -> Nat]
         /\ seen' \in [Writer -> SUBSET Entity]
  BY DEF TypeOK, FlushError, RolledBack, NoStamps, batchVars

LEMMA DeleteTextType ==
  ASSUME TypeOK, NEW w \in Writer, DeleteText(w)
  PROVE  /\ table' \in [Id -> Row \cup {Absent}]
         /\ clock' \in Nat \ {0}
  BY DEF TypeOK, DeleteText, WithoutDeleted

LEMMA InsertTextType ==
  ASSUME TypeOK, NEW w \in Writer, InsertText(w)
  PROVE  /\ table' \in [Id -> Row \cup {Absent}]
         /\ clock' \in Nat \ {0}
<1>1. ASSUME NEW i \in InsertIds(w)
      PROVE  [writer |-> w, entity |-> batchInserts[w][i], since |-> stamps[w][i]] \in Row
  BY DEF TypeOK, InsertIds, Row
<1> QED
  BY <1>1 DEF TypeOK, InsertText, InsertIds

LEMMA WriteType ==
  ASSUME TypeOK, NEW w \in Writer, NEW i \in Id, NEW r \in Recorded, NEW d \in BOOLEAN,
         Write(w, i, r, d)
  PROVE  TypeOK'
<1> DEFINE e == [id |-> i, recorded |-> r, deleted |-> d,
                 seq |-> written[w] + 1, batch |-> batchNo[w]]
           existing == batchInserts[w][i]
<1>1. e \in Entity
  BY DEF TypeOK, Entity
<1>2. Growth(e, existing) \in {0, 1}
  BY GrowthType
<1>3. deleteIds' \in [Writer -> SUBSET Id]
  BY DEF TypeOK, Write, IdsToDelete
<1>4. batchInserts' \in [Writer -> [Id -> Entity \cup {Absent}]]
  <2>1. [batchInserts[w] EXCEPT ![i] = e] \in [Id -> Entity \cup {Absent}]
    BY <1>1 DEF TypeOK
  <2> QED
    BY <2>1 DEF TypeOK, Write
<1>5. batchSize' \in [Writer -> Nat]
  BY <1>2 DEF TypeOK, Write
<1>6. written' \in [Writer -> Nat] /\ seen' \in [Writer -> SUBSET Entity]
  BY <1>1 DEF TypeOK, Write
<1>7. /\ pc' \in [Writer -> {"idle", "ready", "delete", "insert", "commit", "closed", "gone"}]
      /\ reported' \in [Writer -> {"none", "ok", "error"}]
  BY DEF TypeOK, Write
<1>8. UNCHANGED <<table, clock, closing, tx, stamps, batchNo, failed>>
  BY DEF Write
<1> QED
  BY <1>3, <1>4, <1>5, <1>6, <1>7, <1>8 DEF TypeOK

(* One step per action; WriterStep is the disjunction of all of them. *)
LEMMA StepTypeOK ==
  ASSUME TypeOK, [Next]_vars
  PROVE  TypeOK'
<1>1. CASE UNCHANGED vars
  BY <1>1 DEF TypeOK, vars
<1>2. ASSUME NEW w \in Writer, WriterStep(w)
      PROVE  TypeOK'
  <2>1. CASE Incremental(w)
    BY <2>1 DEF TypeOK, Incremental, batchVars
  <2>2. CASE IncrementalFails(w) \/ FullSync(w)
    BY <2>2 DEF TypeOK, IncrementalFails, FullSync, batchVars
  <2>3. ASSUME NEW i \in Id, NEW r \in Recorded, NEW d \in BOOLEAN, Write(w, i, r, d)
        PROVE  TypeOK'
    BY <2>3, WriteType
  <2>4. CASE WriteUnmappable(w)
    BY <2>4 DEF TypeOK, WriteUnmappable, batchVars
  <2>5. CASE Close(w)
    BY <2>5 DEF TypeOK, Close, batchVars
  <2>6. CASE Abandon(w)
    BY <2>6 DEF TypeOK, Abandon, batchVars
  <2>7. CASE FlushDelete(w)
    <3>1. table' \in [Id -> Row \cup {Absent}] /\ clock' \in Nat \ {0}
      BY <2>7, DeleteTextType DEF FlushDelete
    <3>2. UNCHANGED <<closing, tx, stamps, written, seen, failed>>
      BY <2>7 DEF FlushDelete
    <3>3. CASE FlushOk(w)
      BY <3>1, <3>2, <3>3, FlushOkType DEF TypeOK
    <3>4. CASE pc' = [pc EXCEPT ![w] = "insert"] /\ UNCHANGED <<batchVars, reported>>
      BY <3>1, <3>2, <3>4 DEF TypeOK, batchVars
    <3> QED
      BY <2>7, <3>3, <3>4 DEF FlushDelete
  <2>8. ASSUME NEW i \in Id, InsertRow(w, i)
        PROVE  TypeOK'
    <3>1. clock' \in Nat \ {0}
      BY <2>8, ClockAssumption DEF TypeOK, InsertRow
    <3>2. [stamps[w] EXCEPT ![i] = clock'] \in [Id -> Nat]
      BY <3>1 DEF TypeOK
    <3>3. stamps' \in [Writer -> [Id -> Nat]]
      BY <2>8, <3>2 DEF TypeOK, InsertRow
    <3> QED
      BY <2>8, <3>1, <3>3 DEF TypeOK, InsertRow, batchVars
  <2>9. CASE FlushInsert(w)
    <3>1. table' \in [Id -> Row \cup {Absent}] /\ clock' \in Nat \ {0}
      BY <2>9, InsertTextType DEF FlushInsert
    <3>2. stamps' \in [Writer -> [Id -> Nat]]
      BY <2>9 DEF TypeOK, FlushInsert, NoStamps
    <3>3. UNCHANGED <<closing, tx, written, seen, failed>>
      BY <2>9 DEF FlushInsert
    <3> QED
      BY <2>9, <3>1, <3>2, <3>3, FlushOkType DEF TypeOK, FlushInsert
  <2>10. CASE FlushRefused(w)
    BY <2>10, FlushErrorType DEF TypeOK, FlushRefused
  <2>11. CASE FlushInterrupted(w)
    <3>1. table' \in [Id -> Row \cup {Absent}] /\ clock' \in Nat \ {0}
      BY <2>11, DeleteTextType, InsertTextType DEF TypeOK, FlushInterrupted
    <3> QED
      BY <2>11, <3>1, FlushErrorType DEF TypeOK, FlushInterrupted
  <2>12. CASE CloseCommit(w)
    BY <2>12 DEF TypeOK, CloseCommit, batchVars
  <2>13. CASE CloseCommitFails(w)
    BY <2>13 DEF TypeOK, CloseCommitFails, batchVars
  <2> QED
    BY <1>2, <2>1, <2>2, <2>3, <2>4, <2>5, <2>6, <2>7, <2>8, <2>9, <2>10, <2>11,
       <2>12, <2>13 DEF WriterStep, FlushStep
<1> QED
  BY <1>1, <1>2 DEF Next

(* Whatever the requests do, the variables keep their types. *)
THEOREM TypeCorrect == Spec => []TypeOK
<1>1. TypeOK /\ [Next]_vars => TypeOK'
  BY StepTypeOK
<1> QED
  BY InitTypeOK, <1>1, PTL DEF Spec

-----------------------------------------------------------------------------
(***************************************************************************)
(* A step of one request leaves the state of the others alone.             *)
(***************************************************************************)

Untouched(v) ==
  /\ pc'[v] = pc[v] /\ closing'[v] = closing[v] /\ tx'[v] = tx[v]
  /\ batchInserts'[v] = batchInserts[v] /\ deleteIds'[v] = deleteIds[v]
  /\ batchSize'[v] = batchSize[v] /\ batchNo'[v] = batchNo[v]
  /\ reported'[v] = reported[v] /\ failed'[v] = failed[v]
  /\ written'[v] = written[v] /\ seen'[v] = seen[v] /\ stamps'[v] = stamps[v]

LEMMA FlushOkFrame ==
  ASSUME TypeOK, NEW w \in Writer, NEW v \in Writer \ {w}, FlushOk(w)
  PROVE  /\ pc'[v] = pc[v] /\ reported'[v] = reported[v]
         /\ batchInserts'[v] = batchInserts[v] /\ deleteIds'[v] = deleteIds[v]
         /\ batchSize'[v] = batchSize[v] /\ batchNo'[v] = batchNo[v]
<1>1. CASE closing[w]
  BY <1>1 DEF TypeOK, FlushOk, batchVars
<1>2. CASE ~closing[w]
  <2>1. /\ batchInserts' = [batchInserts EXCEPT ![w] = NoInserts]
        /\ deleteIds' = [deleteIds EXCEPT ![w] = {}]
        /\ batchSize' = [batchSize EXCEPT ![w] = 0]
        /\ batchNo' = [batchNo EXCEPT ![w] = @ + 1]
        /\ pc' = [pc EXCEPT ![w] = "ready"]
        /\ reported' = [reported EXCEPT ![w] = "ok"]
    BY <1>2 DEF FlushOk
  <2>2. batchInserts'[v] = batchInserts[v] /\ deleteIds'[v] = deleteIds[v]
    BY <2>1 DEF TypeOK
  <2> QED
    BY <2>1, <2>2 DEF TypeOK
<1> QED
  BY <1>1, <1>2

LEMMA FlushErrorFrame ==
  ASSUME TypeOK, NEW w \in Writer, NEW v \in Writer \ {w}, FlushError(w)
  PROVE  Untouched(v)
  BY DEF TypeOK, Untouched, FlushError, RolledBack, batchVars

LEMMA Frame ==
  ASSUME TypeOK, NEW w \in Writer, NEW v \in Writer \ {w}, WriterStep(w)
  PROVE  Untouched(v)
<1>1. CASE Incremental(w) \/ IncrementalFails(w) \/ FullSync(w)
  BY <1>1 DEF TypeOK, Untouched, Incremental, IncrementalFails, FullSync, batchVars
<1>2. ASSUME NEW i \in Id, NEW r \in Recorded, NEW d \in BOOLEAN, Write(w, i, r, d)
      PROVE  Untouched(v)
  <2> DEFINE e == [id |-> i, recorded |-> r, deleted |-> d,
                   seq |-> written[w] + 1, batch |-> batchNo[w]]
  <2>1. batchInserts'[v] = batchInserts[v]
    BY <1>2 DEF TypeOK, Write
  <2>2. deleteIds'[v] = deleteIds[v] /\ batchSize'[v] = batchSize[v]
    BY <1>2 DEF TypeOK, Write
  <2>3. pc'[v] = pc[v] /\ reported'[v] = reported[v]
    BY <1>2 DEF TypeOK, Write
  <2>4. written'[v] = written[v] /\ seen'[v] = seen[v]
    BY <1>2 DEF TypeOK, Write
  <2> QED
    BY <1>2, <2>1, <2>2, <2>3, <2>4 DEF Untouched, Write
<1>3. CASE WriteUnmappable(w) \/ Close(w) \/ Abandon(w)
  BY <1>3 DEF TypeOK, Untouched, WriteUnmappable, Close, Abandon, batchVars
<1>4. CASE FlushDelete(w)
  <2>1. CASE FlushOk(w)
    BY <1>4, <2>1, FlushOkFrame DEF Untouched, FlushDelete
  <2>2. CASE pc' = [pc EXCEPT ![w] = "insert"] /\ UNCHANGED <<batchVars, reported>>
    BY <1>4, <2>2 DEF TypeOK, Untouched, FlushDelete, batchVars
  <2> QED
    BY <1>4, <2>1, <2>2 DEF FlushDelete
<1>5. ASSUME NEW i \in Id, InsertRow(w, i)
      PROVE  Untouched(v)
  BY <1>5 DEF TypeOK, Untouched, InsertRow, batchVars
<1>6. CASE FlushInsert(w)
  <2>1. stamps'[v] = stamps[v]
    BY <1>6 DEF TypeOK, FlushInsert
  <2> QED
    BY <1>6, <2>1, FlushOkFrame DEF Untouched, FlushInsert
<1>7. CASE FlushRefused(w) \/ FlushInterrupted(w)
  BY <1>7, FlushErrorFrame DEF FlushRefused, FlushInterrupted
<1>8. CASE CloseCommit(w) \/ CloseCommitFails(w)
  BY <1>8 DEF TypeOK, Untouched, CloseCommit, CloseCommitFails, batchVars
<1> QED
  BY <1>1, <1>2, <1>3, <1>4, <1>5, <1>6, <1>7, <1>8 DEF WriterStep, FlushStep

-----------------------------------------------------------------------------
(***************************************************************************)
(* A failed flush is never reported as a success.                          *)
(*                                                                         *)
(* The reason is that a failed flush leaves the batch as full as it was:   *)
(* every later Write and Close of the request must flush it again, on a    *)
(* transaction that is over.                                               *)
(***************************************************************************)

FailureSticksFor(w) ==
  /\ failed[w] => /\ tx[w] = "done" /\ reported[w] = "error"
                  /\ pc[w] \in {"ready", "delete", "gone"}
  /\ failed[w] /\ pc[w] = "ready" => batchSize[w] > 0 /\ MustFlush(batchSize[w])
  /\ InsertIds(w) # {} => batchSize[w] > 0
  /\ pc[w] \in {"delete", "insert"} =>
       batchSize[w] > 0 /\ (closing[w] \/ MustFlush(batchSize[w]))
  /\ pc[w] \in {"idle", "ready"} => ~closing[w]

FailureInv == \A w \in Writer : FailureSticksFor(w)

LEMMA InitFailureInv == Init => FailureInv
  BY DEF Init, FailureInv, FailureSticksFor, InsertIds, NoInserts

LEMMA FailureInvFrame ==
  ASSUME NEW v \in Writer, FailureSticksFor(v), Untouched(v)
  PROVE  FailureSticksFor(v)'
  BY DEF FailureSticksFor, Untouched, InsertIds, MustFlush

LEMMA FailureInvOwn ==
  ASSUME TypeOK, NEW w \in Writer, FailureSticksFor(w), WriterStep(w)
  PROVE  FailureSticksFor(w)'
<1>0. FlushThreshold \in Int /\ batchSize[w] \in Nat
  BY ThresholdAssumption DEF TypeOK
<1>1. CASE Incremental(w) \/ IncrementalFails(w) \/ FullSync(w)
  BY <1>1 DEF TypeOK, FailureSticksFor, InsertIds, Incremental, IncrementalFails,
              FullSync, batchVars
<1>2. ASSUME NEW i \in Id, NEW r \in Recorded, NEW d \in BOOLEAN, Write(w, i, r, d)
      PROVE  FailureSticksFor(w)'
  <2> DEFINE e == [id |-> i, recorded |-> r, deleted |-> d,
                   seq |-> written[w] + 1, batch |-> batchNo[w]]
             existing == batchInserts[w][i]
             size == batchSize[w] + Growth(e, existing)
  <2>1. Growth(e, existing) \in {0, 1}
    BY GrowthType
  <2>2. size \in Nat /\ size >= batchSize[w] /\ batchSize'[w] = size
    BY <1>0, <1>2, <2>1 DEF TypeOK, Write
  <2>3. size > 0
    <3>1. CASE existing = Absent
      BY <1>0, <3>1 DEF Growth, DoInsert
    <3>2. CASE existing # Absent
      BY <2>2, <3>2, <1>0 DEF FailureSticksFor, InsertIds
    <3> QED
      BY <3>1, <3>2
  <2>4. pc[w] = "ready" /\ UNCHANGED <<tx, closing, failed>>
    BY <1>2 DEF Write
  <2>5. CASE MustFlush(size)
    <3>1. pc'[w] = "delete" /\ reported'[w] = reported[w]
      BY <1>2, <2>5 DEF TypeOK, Write
    <3> QED
      BY <1>0, <2>2, <2>3, <2>4, <2>5, <3>1 DEF FailureSticksFor, MustFlush
  <2>6. CASE ~MustFlush(size)
    <3>1. pc'[w] = "ready"
      BY <1>2, <2>6 DEF Write
    <3>2. ~failed[w]
      BY <1>0, <2>2, <2>4, <2>6 DEF FailureSticksFor, MustFlush
    <3> QED
      BY <1>0, <2>2, <2>3, <2>4, <3>1, <3>2 DEF FailureSticksFor
  <2> QED
    BY <2>5, <2>6
<1>3. CASE WriteUnmappable(w)
  BY <1>3 DEF TypeOK, FailureSticksFor, InsertIds, WriteUnmappable, batchVars, MustFlush
<1>4. CASE Close(w)
  BY <1>0, <1>4 DEF TypeOK, FailureSticksFor, InsertIds, Close, batchVars
<1>5. CASE Abandon(w)
  BY <1>5 DEF TypeOK, FailureSticksFor, InsertIds, Abandon, batchVars
<1>6. ASSUME ~failed[w], FlushOk(w), UNCHANGED <<tx, closing, failed>>
      PROVE  FailureSticksFor(w)'
  <2>1. CASE closing[w]
    BY <1>6, <2>1 DEF TypeOK, FailureSticksFor, InsertIds, FlushOk, batchVars
  <2>2. CASE ~closing[w]
    <3>1. pc'[w] = "ready"
      BY <1>6, <2>2 DEF TypeOK, FlushOk
    <3>2. batchInserts'[w] = NoInserts
      BY <1>6, <2>2 DEF TypeOK, FlushOk
    <3>3. InsertIds(w)' = {}
      BY <3>2 DEF InsertIds, NoInserts
    <3> QED
      BY <1>6, <2>2, <3>1, <3>3 DEF FailureSticksFor
  <2> QED
    BY <2>1, <2>2
<1>7. CASE FlushDelete(w)
  <2>1. ~failed[w] /\ UNCHANGED <<tx, closing, failed>>
    BY <1>7 DEF FlushDelete, DeleteText, FailureSticksFor
  <2>2. CASE FlushOk(w)
    BY <1>6, <2>1, <2>2
  <2>3. CASE pc' = [pc EXCEPT ![w] = "insert"] /\ UNCHANGED <<batchVars, reported>>
    BY <1>7, <2>1, <2>3
       DEF TypeOK, FailureSticksFor, InsertIds, batchVars, MustFlush, FlushDelete, DeleteText
  <2> QED
    BY <1>7, <2>2, <2>3 DEF FlushDelete
<1>8. ASSUME NEW i \in Id, InsertRow(w, i)
      PROVE  FailureSticksFor(w)'
  BY <1>8 DEF FailureSticksFor, InsertIds, InsertRow, batchVars, MustFlush
<1>9. CASE FlushInsert(w)
  BY <1>6, <1>9 DEF FlushInsert, InsertText, FailureSticksFor
<1>10. CASE FlushRefused(w) \/ FlushInterrupted(w)
  <2>1. pc[w] \in {"delete", "insert"} /\ FlushError(w)
    BY <1>10 DEF FlushRefused, FlushInterrupted
  <2> QED
    BY <1>0, <2>1
       DEF TypeOK, FailureSticksFor, InsertIds, FlushError, RolledBack, batchVars, MustFlush
<1>11. CASE CloseCommit(w) \/ CloseCommitFails(w)
  BY <1>11 DEF TypeOK, FailureSticksFor, InsertIds, CloseCommit, CloseCommitFails, batchVars
<1> QED
  BY <1>1, <1>2, <1>3, <1>4, <1>5, <1>7, <1>8, <1>9, <1>10, <1>11 DEF WriterStep, FlushStep

LEMMA StepFailureInv ==
  ASSUME TypeOK, FailureInv, [Next]_vars
  PROVE  FailureInv'
<1>1. CASE UNCHANGED vars
  BY <1>1 DEF FailureInv, FailureSticksFor, InsertIds, MustFlush, vars
<1>2. ASSUME NEW w \in Writer, WriterStep(w), NEW v \in Writer
      PROVE  FailureSticksFor(v)'
  <2>1. CASE v = w
    BY <1>2, <2>1, FailureInvOwn DEF FailureInv
  <2>2. CASE v # w
    BY <1>2, <2>2, Frame, FailureInvFrame DEF FailureInv
  <2> QED
    BY <2>1, <2>2
<1> QED
  BY <1>1, <1>2 DEF FailureInv, Next

(* Once a flush of a request has failed, no later Write or Close of it      *)
(* returns success.                                                         *)
THEOREM FailureIsNeverAcked == Spec => []FailureSticks
<1>1. TypeOK /\ FailureInv /\ [Next]_vars => TypeOK' /\ FailureInv'
  BY StepTypeOK, StepFailureInv
<1>2. TypeOK /\ FailureInv => FailureSticks
  BY DEF FailureInv, FailureSticksFor, FailureSticks
<1> QED
  BY InitTypeOK, InitFailureInv, <1>1, <1>2, PTL DEF Spec

-----------------------------------------------------------------------------
(***************************************************************************)
(* The buffer is bounded by flush_threshold, whatever its value.           *)
(***************************************************************************)

BufferInvFor(w) ==
  /\ pc[w] = "idle" => batchSize[w] = 0
  /\ tx[w] = "open" => /\ batchSize[w] =< Capacity
                       /\ pc[w] = "ready" => batchSize[w] < Capacity

BufferInv == \A w \in Writer : BufferInvFor(w)

LEMMA CapacityType == Capacity \in Nat \ {0} /\ Capacity >= FlushThreshold
  BY ThresholdAssumption DEF Capacity

LEMMA InitBufferInv == Init => BufferInv
  BY CapacityType DEF Init, BufferInv, BufferInvFor

LEMMA BufferInvFrame ==
  ASSUME NEW v \in Writer, BufferInvFor(v), Untouched(v)
  PROVE  BufferInvFor(v)'
  BY DEF BufferInvFor, Untouched, Capacity

LEMMA BufferInvOwn ==
  ASSUME TypeOK, NEW w \in Writer, BufferInvFor(w), WriterStep(w)
  PROVE  BufferInvFor(w)'
<1>0. /\ FlushThreshold \in Int /\ batchSize[w] \in Nat
      /\ Capacity \in Nat \ {0} /\ Capacity >= FlushThreshold /\ Capacity' = Capacity
  BY ThresholdAssumption, CapacityType DEF TypeOK, Capacity
<1>1. CASE Incremental(w)
  BY <1>0, <1>1 DEF TypeOK, BufferInvFor, Incremental, batchVars
<1>2. CASE IncrementalFails(w) \/ FullSync(w)
  BY <1>0, <1>2 DEF TypeOK, BufferInvFor, IncrementalFails, FullSync, batchVars
<1>3. ASSUME NEW i \in Id, NEW r \in Recorded, NEW d \in BOOLEAN, Write(w, i, r, d)
      PROVE  BufferInvFor(w)'
  <2> DEFINE e == [id |-> i, recorded |-> r, deleted |-> d,
                   seq |-> written[w] + 1, batch |-> batchNo[w]]
             size == batchSize[w] + Growth(e, batchInserts[w][i])
  <2>1. Growth(e, batchInserts[w][i]) \in {0, 1}
    BY GrowthType
  <2>2. size \in Nat /\ size =< batchSize[w] + 1 /\ batchSize'[w] = size
    BY <1>0, <1>3, <2>1 DEF TypeOK, Write
  <2>3. pc[w] = "ready" /\ tx' = tx
    BY <1>3 DEF Write
  <2>4. CASE MustFlush(size)
    <3>1. pc'[w] = "delete"
      BY <1>3, <2>4 DEF TypeOK, Write
    <3> QED
      BY <1>0, <2>2, <2>3, <3>1 DEF BufferInvFor
  <2>5. CASE ~MustFlush(size)
    <3>1. pc'[w] = "ready" /\ size < Capacity
      BY <1>0, <1>3, <2>2, <2>5 DEF Write, MustFlush
    <3> QED
      BY <1>0, <2>2, <2>3, <3>1 DEF BufferInvFor
  <2> QED
    BY <2>4, <2>5
<1>4. CASE WriteUnmappable(w) \/ Close(w) \/ Abandon(w)
  BY <1>0, <1>4 DEF TypeOK, BufferInvFor, WriteUnmappable, Close, Abandon, batchVars
<1>5. ASSUME FlushOk(w), UNCHANGED tx, pc[w] # "ready"
      PROVE  BufferInvFor(w)'
  <2>1. CASE closing[w]
    BY <1>0, <1>5, <2>1 DEF TypeOK, BufferInvFor, FlushOk, batchVars
  <2>2. CASE ~closing[w]
    <3>1. pc'[w] = "ready" /\ batchSize'[w] = 0
      BY <1>5, <2>2 DEF TypeOK, FlushOk
    <3> QED
      BY <1>0, <3>1 DEF BufferInvFor
  <2> QED
    BY <2>1, <2>2
<1>6. CASE FlushDelete(w)
  <2>1. pc[w] = "delete" /\ tx' = tx
    BY <1>6 DEF FlushDelete, DeleteText
  <2>2. CASE pc' = [pc EXCEPT ![w] = "insert"] /\ UNCHANGED <<batchVars, reported>>
    BY <1>0, <2>1, <2>2 DEF TypeOK, BufferInvFor, batchVars
  <2> QED
    BY <1>5, <1>6, <2>1, <2>2 DEF FlushDelete
<1>7. ASSUME NEW i \in Id, InsertRow(w, i)
      PROVE  BufferInvFor(w)'
  BY <1>0, <1>7 DEF BufferInvFor, InsertRow, batchVars
<1>8. CASE FlushInsert(w)
  BY <1>5, <1>8 DEF FlushInsert, InsertText
<1>9. CASE FlushRefused(w) \/ FlushInterrupted(w)
  <2>1. FlushError(w)
    BY <1>9 DEF FlushRefused, FlushInterrupted
  <2>2. tx'[w] = "done" /\ pc'[w] # "idle"
    BY <2>1 DEF TypeOK, FlushError, RolledBack
  <2> QED
    BY <2>2 DEF BufferInvFor
<1>10. CASE CloseCommit(w) \/ CloseCommitFails(w)
  <2>1. tx'[w] = "done" /\ pc'[w] # "idle"
    BY <1>10 DEF TypeOK, CloseCommit, CloseCommitFails
  <2> QED
    BY <2>1 DEF BufferInvFor
<1> QED
  BY <1>1, <1>2, <1>3, <1>4, <1>6, <1>7, <1>8, <1>9, <1>10 DEF WriterStep, FlushStep

LEMMA StepBufferInv ==
  ASSUME TypeOK, BufferInv, [Next]_vars
  PROVE  BufferInv'
<1>1. CASE UNCHANGED vars
  BY <1>1 DEF BufferInv, BufferInvFor, Capacity, vars
<1>2. ASSUME NEW w \in Writer, WriterStep(w), NEW v \in Writer
      PROVE  BufferInvFor(v)'
  <2>1. CASE v = w
    BY <1>2, <2>1, BufferInvOwn DEF BufferInv
  <2>2. CASE v # w
    BY <1>2, <2>2, Frame, BufferInvFrame DEF BufferInv
  <2> QED
    BY <2>1, <2>2
<1> QED
  BY <1>1, <1>2 DEF BufferInv, Next

(* The buffer never outgrows flush_threshold while the transaction lives,   *)
(* also for a threshold of zero or less, which then means one.              *)
THEOREM BufferIsBounded == Spec => []BufferBounded
<1>1. TypeOK /\ BufferInv /\ [Next]_vars => TypeOK' /\ BufferInv'
  BY StepTypeOK, StepBufferInv
<1>2. BufferInv => BufferBounded
  BY DEF BufferInv, BufferInvFor, BufferBounded
<1> QED
  BY InitTypeOK, InitBufferInv, <1>1, <1>2, PTL DEF Spec

-----------------------------------------------------------------------------
(***************************************************************************)
(* The batch holds the latest update of every entity, and its DELETE       *)
(* covers every entity of the batch.                                       *)
(***************************************************************************)

LatestFor(w, i) ==
  IF Updates(w, i, batchNo[w]) = {}
  THEN batchInserts[w][i] = Absent
  ELSE IsLatest(batchInserts[w][i], Updates(w, i, batchNo[w]))

BatchInvFor(w) ==
  /\ \A e \in seen[w] : e.seq =< written[w] /\ e.batch =< batchNo[w]
  /\ \A e \in seen[w] : e.batch = batchNo[w] => e.id \in deleteIds[w]
  /\ \A i \in Id : LatestFor(w, i)

BatchInv == \A w \in Writer : BatchInvFor(w)

LEMMA InitBatchInv == Init => BatchInv
  BY DEF Init, BatchInv, BatchInvFor, LatestFor, Updates, Mentions, NoInserts

LEMMA BatchInvFrame ==
  ASSUME NEW v \in Writer, BatchInvFor(v), Untouched(v)
  PROVE  BatchInvFor(v)'
  BY DEF BatchInvFor, LatestFor, Updates, Mentions, Untouched, IsLatest

(* The latest of a set and a new element that was written after all of it. *)
LEMMA LatestOfMore ==
  ASSUME NEW S \in SUBSET Entity, NEW e \in Entity, \A f \in S : f.seq =< e.seq,
         NEW x \in Entity
  PROVE  /\ IsLatest(x, S) /\ x.recorded =< e.recorded => IsLatest(e, S \cup {e})
         /\ IsLatest(x, S) /\ ~(x.recorded =< e.recorded) => IsLatest(x, S \cup {e})
         /\ S = {} => IsLatest(e, S \cup {e})
<1>1. \A f \in S \cup {e, x} : f.recorded \in Nat /\ f.seq \in Nat
  BY RecordedAssumption DEF Entity
<1> QED
  BY <1>1 DEF IsLatest

LEMMA BatchInvWrite ==
  ASSUME TypeOK, NEW w \in Writer, BatchInvFor(w),
         NEW i \in Id, NEW r \in Recorded, NEW d \in BOOLEAN, Write(w, i, r, d)
  PROVE  BatchInvFor(w)'
<1> DEFINE e == [id |-> i, recorded |-> r, deleted |-> d,
                 seq |-> written[w] + 1, batch |-> batchNo[w]]
           existing == batchInserts[w][i]
           U(j) == Updates(w, j, batchNo[w])
<1>1. e \in Entity
  BY DEF TypeOK, Entity
<1>2. /\ seen'[w] = seen[w] \cup {e}
      /\ batchNo' = batchNo /\ written'[w] = written[w] + 1
      /\ deleteIds'[w] = deleteIds[w] \cup {i}
  BY DEF TypeOK, Write, IdsToDelete
<1>3. batchInserts'[w] = IF ~d /\ DoInsert(e, existing)
                         THEN [batchInserts[w] EXCEPT ![i] = e]
                         ELSE batchInserts[w]
  BY DEF TypeOK, Write
<1>4. \A f \in seen[w] : f \in Entity
  BY DEF TypeOK
<1>5. \A f \in seen'[w] : f.seq =< written'[w] /\ f.batch =< batchNo'[w]
  BY <1>2, <1>4 DEF TypeOK, BatchInvFor, Entity
<1>6. \A f \in seen'[w] : f.batch = batchNo'[w] => f.id \in deleteIds'[w]
  BY <1>2 DEF BatchInvFor
<1>7. \A j \in Id : Updates(w, j, batchNo[w])' = IF j = i /\ ~d THEN U(j) \cup {e} ELSE U(j)
  BY <1>2 DEF Updates, Mentions
<1>8. ASSUME NEW j \in Id
      PROVE  LatestFor(w, j)'
  <2>1. CASE j # i
    BY <1>2, <1>3, <1>7, <2>1 DEF TypeOK, BatchInvFor, LatestFor, IsLatest
  <2>2. CASE j = i /\ d
    BY <1>2, <1>3, <1>7, <2>2 DEF TypeOK, BatchInvFor, LatestFor, IsLatest
  <2>3. CASE j = i /\ ~d
    <3>1. U(i) \in SUBSET Entity
      BY <1>4 DEF Updates, Mentions
    <3>2. \A f \in U(i) : f.seq =< e.seq
      BY <1>4 DEF TypeOK, BatchInvFor, Updates, Mentions, Entity
    <3>3. Updates(w, i, batchNo[w])' = U(i) \cup {e}
      BY <1>7, <2>3
    <3>4. LatestFor(w, i)
      BY DEF BatchInvFor
    <3>5. CASE existing = Absent
      <4>1. U(i) = {}
        BY <3>1, <3>4, <3>5, AbsentAssumption DEF LatestFor, IsLatest
      <4>2. batchInserts'[w][i] = e
        BY <1>3, <2>3, <3>5 DEF TypeOK, DoInsert
      <4>3. IsLatest(e, U(i) \cup {e})
        BY <1>1, <3>1, <3>2, <4>1, LatestOfMore
      <4> QED
        BY <1>2, <2>3, <3>3, <4>2, <4>3 DEF LatestFor, IsLatest
    <3>6. CASE existing # Absent
      <4>1. IsLatest(existing, U(i)) /\ existing \in Entity
        BY <3>1, <3>4, <3>6 DEF LatestFor, IsLatest
      <4>2. existing.recorded \in Nat /\ e.recorded \in Nat /\ e.recorded = r
        BY <1>1, <4>1, RecordedAssumption DEF Entity
      <4>3. CASE existing.recorded =< e.recorded
        <5>1. batchInserts'[w][i] = e
          BY <1>3, <2>3, <4>2, <4>3 DEF TypeOK, DoInsert
        <5>2. IsLatest(e, U(i) \cup {e})
          BY <1>1, <3>1, <3>2, <4>1, <4>3, LatestOfMore
        <5> QED
          BY <1>2, <2>3, <3>3, <5>1, <5>2 DEF LatestFor, IsLatest
      <4>4. CASE ~(existing.recorded =< e.recorded)
        <5>1. batchInserts'[w][i] = existing
          BY <1>3, <3>6, <4>2, <4>4 DEF DoInsert
        <5>2. IsLatest(existing, U(i) \cup {e})
          BY <1>1, <3>1, <3>2, <4>1, <4>4, LatestOfMore
        <5> QED
          BY <1>2, <2>3, <3>3, <5>1, <5>2 DEF LatestFor, IsLatest
      <4> QED
        BY <4>3, <4>4
    <3> QED
      BY <3>5, <3>6
  <2> QED
    BY <2>1, <2>2, <2>3
<1> QED
  BY <1>5, <1>6, <1>8 DEF BatchInvFor

(* What a step that empties the batch, or none, does to the history. *)
LEMMA BatchInvOwn ==
  ASSUME TypeOK, NEW w \in Writer, BatchInvFor(w), WriterStep(w)
  PROVE  BatchInvFor(w)'
<1>1. ASSUME UNCHANGED <<batchVars, written, seen>>
      PROVE  BatchInvFor(w)'
  BY <1>1 DEF BatchInvFor, LatestFor, Updates, Mentions, IsLatest, batchVars
<1>2. CASE \/ Incremental(w) \/ IncrementalFails(w) \/ FullSync(w) \/ WriteUnmappable(w)
           \/ Close(w) \/ Abandon(w)
  BY <1>1, <1>2
     DEF Incremental, IncrementalFails, FullSync, WriteUnmappable, Close, Abandon
<1>3. ASSUME NEW i \in Id, NEW r \in Recorded, NEW d \in BOOLEAN, Write(w, i, r, d)
      PROVE  BatchInvFor(w)'
  BY <1>3, BatchInvWrite
<1>4. ASSUME FlushOk(w), UNCHANGED <<written, seen>>
      PROVE  BatchInvFor(w)'
  <2>1. CASE closing[w]
    BY <1>1, <1>4, <2>1 DEF FlushOk
  <2>2. CASE ~closing[w]
    <3>1. /\ batchInserts'[w] = NoInserts
          /\ batchNo'[w] = batchNo[w] + 1 /\ batchNo[w] \in Nat
      BY <1>4, <2>2 DEF TypeOK, FlushOk
    <3>2. \A e \in seen'[w] : e.seq =< written'[w] /\ e.batch =< batchNo[w] /\ e.batch \in Nat
      BY <1>4 DEF TypeOK, BatchInvFor, Entity
    <3>3. \A e \in seen'[w] : e.batch =< batchNo'[w] /\ e.batch # batchNo'[w]
      BY <3>1, <3>2
    <3>4. \A i \in Id : LatestFor(w, i)'
      BY <3>1, <3>3 DEF LatestFor, Updates, Mentions, NoInserts
    <3> QED
      BY <3>2, <3>3, <3>4 DEF BatchInvFor
  <2> QED
    BY <2>1, <2>2
<1>5. CASE FlushDelete(w) \/ FlushInsert(w)
  BY <1>1, <1>4, <1>5 DEF FlushDelete, FlushInsert
<1>6. ASSUME NEW i \in Id, InsertRow(w, i)
      PROVE  BatchInvFor(w)'
  BY <1>1, <1>6 DEF InsertRow
<1>7. CASE FlushRefused(w) \/ FlushInterrupted(w) \/ CloseCommit(w) \/ CloseCommitFails(w)
  BY <1>1, <1>7
     DEF FlushRefused, FlushInterrupted, FlushError, CloseCommit, CloseCommitFails
<1> QED
  BY <1>2, <1>3, <1>5, <1>6, <1>7 DEF WriterStep, FlushStep

LEMMA StepBatchInv ==
  ASSUME TypeOK, BatchInv, [Next]_vars
  PROVE  BatchInv'
<1>1. CASE UNCHANGED vars
  BY <1>1 DEF BatchInv, BatchInvFor, LatestFor, Updates, Mentions, IsLatest, vars
<1>2. ASSUME NEW w \in Writer, WriterStep(w), NEW v \in Writer
      PROVE  BatchInvFor(v)'
  <2>1. CASE v = w
    BY <1>2, <2>1, BatchInvOwn DEF BatchInv
  <2>2. CASE v # w
    BY <1>2, <2>2, Frame, BatchInvFrame DEF BatchInv
  <2> QED
    BY <2>1, <2>2
<1> QED
  BY <1>1, <1>2 DEF BatchInv, Next

LEMMA BatchInvReached == Spec => [](TypeOK /\ BatchInv)
<1>1. TypeOK /\ BatchInv /\ [Next]_vars => TypeOK' /\ BatchInv'
  BY StepTypeOK, StepBatchInv
<1> QED
  BY InitTypeOK, InitBatchInv, <1>1, PTL DEF Spec

(* In whatever order the versions of an entity arrive, the batch inserts    *)
(* the latest of them and nothing for an entity it only deletes.            *)
THEOREM LatestIsInserted == Spec => []BatchInsertsLatest
<1>1. BatchInv => BatchInsertsLatest
  BY DEF BatchInv, BatchInvFor, LatestFor, BatchInsertsLatest
<1> QED
  BY BatchInvReached, <1>1, PTL

-----------------------------------------------------------------------------
(***************************************************************************)
(* What a step of a request does to the table.                             *)
(***************************************************************************)

(* No row is inserted whose id is not deleted first. *)
LEMMA DeleteCoversInserts ==
  ASSUME NEW w \in Writer, BatchInvFor(w)
  PROVE  InsertIds(w) \subseteq deleteIds[w]
<1>1. ASSUME NEW i \in InsertIds(w)
      PROVE  i \in deleteIds[w]
  <2>1. i \in Id /\ Updates(w, i, batchNo[w]) # {}
    BY <1>1 DEF BatchInvFor, LatestFor, InsertIds
  <2>2. PICK e \in Updates(w, i, batchNo[w]) : TRUE
    BY <2>1
  <2>3. e \in seen[w] /\ e.id = i /\ e.batch = batchNo[w]
    BY <2>2 DEF Updates, Mentions
  <2> QED
    BY <2>3 DEF BatchInvFor
<1> QED
  BY <1>1

(* What a step of v leaves in the table is what was there, or its own. *)
LEMMA TableStep ==
  ASSUME TypeOK, NEW v \in Writer, WriterStep(v), NEW i \in Id
  PROVE  table'[i] = table[i] \/ table'[i] = Absent \/ table'[i].writer = v
<1>1. CASE DeleteText(v)
  BY <1>1 DEF DeleteText, WithoutDeleted
<1>2. CASE InsertText(v)
  BY <1>2 DEF InsertText
<1>3. CASE table' = table
  BY <1>3
<1> QED
  BY <1>1, <1>2, <1>3
     DEF WriterStep, FlushStep, Incremental, IncrementalFails, FullSync, Write,
         WriteUnmappable, Close, Abandon, FlushDelete, InsertRow, FlushInsert,
         FlushRefused, FlushInterrupted, CloseCommit, CloseCommitFails

-----------------------------------------------------------------------------
(***************************************************************************)
(* What was acknowledged is stored.                                        *)
(*                                                                         *)
(* A row is explained by the last batch with its id that one of the        *)
(* requests has flushed, or it is gone and a request is between the two    *)
(* texts that will replace it.  A flush that fails makes its ids doubtful  *)
(* for good, as its batch is never emptied.                                *)
(***************************************************************************)

(* The batch the request has now is flushed, too. *)
Reached(w) == pc[w] \in {"commit", "closed"}

(* The batch b of w is the last of its flushed batches with the id i. *)
IsLastBatch(w, i, b) ==
  /\ Mentions(w, i, b) # {}
  /\ b < batchNo[w] \/ Reached(w)
  /\ \A e \in seen[w] : e.id = i /\ e.batch > b => e.batch = batchNo[w] /\ ~Reached(w)

Doubtful(i) == \E w \in Writer : i \in deleteIds[w] /\ (failed[w] \/ pc[w] = "gone")

Replacing(w, i) == pc[w] = "insert" /\ i \in deleteIds[w]

Explained(i) ==
  \/ \E w \in Writer, b \in Nat : IsLastBatch(w, i, b) /\ HoldsBatch(w, i, b)
  \/ table[i] = Absent /\ \A w \in Writer, b \in Nat : ~IsLastBatch(w, i, b)
  \/ table[i] = Absent /\ \E w \in Writer : Replacing(w, i)

StoredInv == \A i \in Id : Doubtful(i) \/ Explained(i)

(* The DELETE of a batch names exactly the ids of the batch; between the    *)
(* two texts none of them has a row of the request; a batch is emptied only *)
(* after something was written to it.                                       *)
CollectedFor(w) ==
  /\ \A i \in Id : i \in deleteIds[w] <=> Mentions(w, i, batchNo[w]) # {}
  /\ batchSize[w] = 0 => deleteIds[w] = {}
  /\ batchNo[w] =< written[w] /\ (batchSize[w] > 0 => batchNo[w] < written[w])
  /\ written[w] =< MaxWrites

OwnGoneFor(w) == \A i \in Id : Replacing(w, i) /\ table[i] # Absent => table[i].writer # w

CollectedInv == \A w \in Writer : CollectedFor(w) /\ OwnGoneFor(w)

LEMMA InitStoredInv == Init => StoredInv /\ CollectedInv
  BY MaxWritesAssumption
     DEF Init, StoredInv, CollectedInv, CollectedFor, OwnGoneFor, Explained, Replacing,
         IsLastBatch, Mentions

LEMMA CollectedFrame ==
  ASSUME NEW v \in Writer, CollectedFor(v), Untouched(v)
  PROVE  CollectedFor(v)'
  BY DEF CollectedFor, Mentions, Untouched

(* The batch, its ids and the counts stay as they are. *)
LEMMA CollectedKept ==
  ASSUME NEW w \in Writer, CollectedFor(w), UNCHANGED <<batchVars, written, seen>>
  PROVE  CollectedFor(w)'
  BY DEF CollectedFor, Mentions, batchVars

LEMMA CollectedWrite ==
  ASSUME TypeOK, NEW w \in Writer, CollectedFor(w),
         InsertIds(w) # {} => batchSize[w] > 0,
         NEW i \in Id, NEW r \in Recorded, NEW d \in BOOLEAN, Write(w, i, r, d)
  PROVE  CollectedFor(w)'
<1> DEFINE e == [id |-> i, recorded |-> r, deleted |-> d,
                 seq |-> written[w] + 1, batch |-> batchNo[w]]
           existing == batchInserts[w][i]
<1>1. /\ seen'[w] = seen[w] \cup {e} /\ batchNo' = batchNo
      /\ written'[w] = written[w] + 1 /\ written[w] < MaxWrites
      /\ deleteIds'[w] = deleteIds[w] \cup {i}
      /\ batchSize'[w] = batchSize[w] + Growth(e, existing)
  BY DEF TypeOK, Write, IdsToDelete
<1>2. /\ written[w] \in Nat /\ batchSize[w] \in Nat /\ batchNo[w] \in Nat
      /\ MaxWrites \in Nat /\ Growth(e, existing) \in {0, 1}
  BY MaxWritesAssumption, GrowthType DEF TypeOK
<1>3. batchSize'[w] > 0
  <2>1. CASE existing = Absent
    BY <1>1, <1>2, <2>1 DEF Growth, DoInsert
  <2>2. CASE existing # Absent
    BY <1>1, <1>2, <2>2 DEF InsertIds
  <2> QED
    BY <2>1, <2>2
<1>4. ASSUME NEW j \in Id
      PROVE  j \in deleteIds'[w] <=> Mentions(w, j, batchNo[w])' # {}
  <2>1. Mentions(w, j, batchNo[w])' = IF j = i THEN Mentions(w, j, batchNo[w]) \cup {e}
                                      ELSE Mentions(w, j, batchNo[w])
    BY <1>1 DEF Mentions
  <2> QED
    BY <1>1, <2>1 DEF CollectedFor
<1> QED
  BY <1>1, <1>2, <1>3, <1>4 DEF CollectedFor

(* A batch that is emptied held something, and the next one has no ids yet. *)
LEMMA CollectedFlush ==
  ASSUME TypeOK, NEW w \in Writer, CollectedFor(w), BatchInvFor(w), batchSize[w] > 0,
         FlushOk(w), UNCHANGED <<written, seen>>
  PROVE  CollectedFor(w)'
<1>1. CASE closing[w]
  BY <1>1, CollectedKept DEF FlushOk
<1>2. CASE ~closing[w]
  <2>1. /\ deleteIds'[w] = {} /\ batchSize'[w] = 0
        /\ batchNo'[w] = batchNo[w] + 1 /\ batchNo[w] \in Nat /\ written[w] \in Nat
    BY <1>2 DEF TypeOK, FlushOk
  <2>2. \A e \in seen[w] : e.batch =< batchNo[w] /\ e.batch \in Nat
    BY DEF TypeOK, BatchInvFor, Entity
  <2>3. \A i \in Id : Mentions(w, i, batchNo[w])' = {}
    BY <2>1, <2>2 DEF Mentions
  <2> QED
    BY <2>1, <2>3 DEF CollectedFor
<1> QED
  BY <1>1, <1>2

LEMMA CollectedOwn ==
  ASSUME TypeOK, NEW w \in Writer, CollectedFor(w), BatchInvFor(w), FailureSticksFor(w),
         WriterStep(w)
  PROVE  CollectedFor(w)'
<1>1. CASE \/ Incremental(w) \/ IncrementalFails(w) \/ FullSync(w) \/ WriteUnmappable(w)
           \/ Close(w) \/ Abandon(w) \/ (\E i \in Id : InsertRow(w, i))
           \/ FlushRefused(w) \/ FlushInterrupted(w) \/ CloseCommit(w) \/ CloseCommitFails(w)
  BY <1>1, CollectedKept
     DEF Incremental, IncrementalFails, FullSync, WriteUnmappable, Close, Abandon, InsertRow,
         FlushRefused, FlushInterrupted, FlushError, CloseCommit, CloseCommitFails
<1>2. ASSUME NEW i \in Id, NEW r \in Recorded, NEW d \in BOOLEAN, Write(w, i, r, d)
      PROVE  CollectedFor(w)'
  BY <1>2, CollectedWrite DEF FailureSticksFor
<1>3. CASE FlushDelete(w) \/ FlushInsert(w)
  <2>1. batchSize[w] > 0 /\ UNCHANGED <<written, seen>>
    BY <1>3 DEF FlushDelete, DeleteText, FlushInsert, InsertText, FailureSticksFor
  <2>2. CASE FlushOk(w)
    BY <2>1, <2>2, CollectedFlush
  <2>3. CASE UNCHANGED batchVars
    BY <2>1, <2>3, CollectedKept
  <2> QED
    BY <1>3, <2>2, <2>3 DEF FlushDelete, FlushInsert
<1> QED
  BY <1>1, <1>2, <1>3 DEF WriterStep, FlushStep

LEMMA OwnGoneOwn ==
  ASSUME TypeOK, NEW w \in Writer, OwnGoneFor(w), WriterStep(w)
  PROVE  OwnGoneFor(w)'
<1>1. ASSUME NEW i \in Id, InsertRow(w, i)
      PROVE  OwnGoneFor(w)'
  BY <1>1 DEF OwnGoneFor, Replacing, InsertRow, batchVars
<1>2. CASE FlushDelete(w) /\ pc'[w] = "insert"
  <2>1. table' = WithoutDeleted(w) /\ deleteIds' = deleteIds
    BY <1>2 DEF TypeOK, FlushDelete, DeleteText, FlushOk, batchVars
  <2> QED
    BY <2>1 DEF OwnGoneFor, Replacing, WithoutDeleted
<1>3. CASE pc'[w] # "insert"
  BY <1>3 DEF OwnGoneFor, Replacing
<1>4. ASSUME ~ \E i \in Id : InsertRow(w, i), ~ FlushDelete(w)
      PROVE  pc'[w] # "insert"
  BY <1>4 DEF TypeOK, WriterStep, FlushStep, Incremental, IncrementalFails, FullSync, Write,
         WriteUnmappable, Close, Abandon, FlushInsert, InsertText, FlushOk, FlushError,
         FlushRefused, FlushInterrupted, CloseCommit, CloseCommitFails
<1> QED
  BY <1>1, <1>2, <1>3, <1>4

LEMMA StepCollectedInv ==
  ASSUME TypeOK, BatchInv, FailureInv, CollectedInv, [Next]_vars
  PROVE  CollectedInv'
<1>1. CASE UNCHANGED vars
  <2> SUFFICES ASSUME NEW w \in Writer PROVE CollectedFor(w)' /\ OwnGoneFor(w)'
    BY DEF CollectedInv
  <2> QED
    BY <1>1, CollectedKept DEF CollectedInv, OwnGoneFor, Replacing, vars, batchVars
<1>2. ASSUME NEW w \in Writer, WriterStep(w), NEW v \in Writer
      PROVE  CollectedFor(v)' /\ OwnGoneFor(v)'
  <2>1. CASE v = w
    BY <1>2, <2>1, CollectedOwn, OwnGoneOwn DEF CollectedInv, BatchInv, FailureInv
  <2>2. CASE v # w
    <3>1. Untouched(v) /\ CollectedFor(v)'
      BY <1>2, <2>2, Frame, CollectedFrame DEF CollectedInv
    <3>2. \A i \in Id : table'[i] = table[i] \/ table'[i] = Absent \/ table'[i].writer = w
      BY <1>2, TableStep
    <3>3. OwnGoneFor(v)'
      BY <2>2, <3>1, <3>2 DEF CollectedInv, OwnGoneFor, Replacing, Untouched
    <3> QED
      BY <3>1, <3>3
  <2> QED
    BY <2>1, <2>2
<1> QED
  BY <1>1, <1>2 DEF CollectedInv, Next

(* A request alone never fails on the primary key: the row its INSERT       *)
(* meets was put there by another request.                                  *)
THEOREM DuplicateOnlyByRace == Spec => []DuplicateKeyOnlyByRace
<1> DEFINE I == TypeOK /\ BatchInv /\ FailureInv /\ CollectedInv
<1>1. Init => I
  BY InitTypeOK, InitBatchInv, InitFailureInv, InitStoredInv
<1>2. I /\ [Next]_vars => I'
  BY StepTypeOK, StepBatchInv, StepFailureInv, StepCollectedInv
<1>3. I => DuplicateKeyOnlyByRace
  BY DeleteCoversInserts
     DEF BatchInv, CollectedInv, OwnGoneFor, Replacing, DuplicateKeyOnlyByRace, InsertIds
<1> QED
  BY <1>1, <1>2, <1>3, PTL DEF Spec

(* What a step does to what explains the row of i, of one request.          *)
Neutral(w, i) ==
  /\ \A b \in Nat : IsLastBatch(w, i, b)' <=> IsLastBatch(w, i, b)
  /\ \A b \in Nat : IsLastBatch(w, i, b) => Updates(w, i, b)' = Updates(w, i, b)
  /\ Replacing(w, i) => Replacing(w, i)'

LEMMA UntouchedNeutral ==
  ASSUME NEW v \in Writer, Untouched(v), NEW i \in Id
  PROVE  Neutral(v, i)
  BY DEF Neutral, Untouched, IsLastBatch, Reached, Mentions, Updates, Replacing

LEMMA ExplainedKept ==
  ASSUME NEW i \in Id, table'[i] = table[i], \A v \in Writer : Neutral(v, i), Explained(i)
  PROVE  Explained(i)'
<1>1. ASSUME NEW w \in Writer, NEW b \in Nat, IsLastBatch(w, i, b), HoldsBatch(w, i, b)
      PROVE  Explained(i)'
  <2>1. IsLastBatch(w, i, b)' /\ Updates(w, i, b)' = Updates(w, i, b)
    BY <1>1 DEF Neutral
  <2>2. HoldsBatch(w, i, b)'
    BY <1>1, <2>1 DEF HoldsBatch, IsLatest
  <2> QED
    BY <2>1, <2>2 DEF Explained
<1>2. CASE table[i] = Absent /\ \A w \in Writer, b \in Nat : ~IsLastBatch(w, i, b)
  BY <1>2 DEF Explained, Neutral
<1>3. CASE table[i] = Absent /\ \E w \in Writer : Replacing(w, i)
  BY <1>3 DEF Explained, Neutral
<1> QED
  BY <1>1, <1>2, <1>3 DEF Explained

(* The place of the request changes, but not whether its batch was flushed. *)
LEMMA MovedNeutral ==
  ASSUME NEW w \in Writer, NEW i \in Id, UNCHANGED <<seen, batchNo, deleteIds>>,
         Reached(w)' <=> Reached(w), pc[w] = "insert" => pc'[w] = "insert"
  PROVE  Neutral(w, i)
  BY DEF Neutral, IsLastBatch, Mentions, Updates, Replacing

(* The batch does not mention i, and neither does the next. *)
LEMMA UnmentionedNeutral ==
  ASSUME TypeOK, NEW w \in Writer, NEW i \in Id, BatchInvFor(w), CollectedFor(w),
         i \notin deleteIds[w], UNCHANGED seen,
         batchNo'[w] = batchNo[w] \/ batchNo'[w] = batchNo[w] + 1
  PROVE  Neutral(w, i)
<1>1. \A e \in seen[w] : e.id = i => e.batch # batchNo[w]
  BY DEF CollectedFor, Mentions
<1>2. /\ batchNo[w] \in Nat /\ \A e \in seen[w] : e.batch \in Nat /\ e.batch =< batchNo[w]
  BY DEF TypeOK, BatchInvFor, Entity
<1>3. \A e \in seen[w] : e.id = i => e.batch < batchNo[w] /\ e.batch < batchNo'[w]
  BY <1>1, <1>2
<1>4. ASSUME NEW b \in Nat
      PROVE  /\ Mentions(w, i, b)' = Mentions(w, i, b)
             /\ Updates(w, i, b)' = Updates(w, i, b)
             /\ IsLastBatch(w, i, b)' <=> IsLastBatch(w, i, b)
  <2>1. Mentions(w, i, b)' = Mentions(w, i, b) /\ Updates(w, i, b)' = Updates(w, i, b)
    BY DEF Mentions, Updates
  <2>2. IsLastBatch(w, i, b) <=>
          Mentions(w, i, b) # {} /\ \A e \in seen[w] : e.id = i => ~(e.batch > b)
    BY <1>1, <1>3 DEF IsLastBatch, Mentions
  <2>3. IsLastBatch(w, i, b)' <=>
          Mentions(w, i, b) # {} /\ \A e \in seen[w] : e.id = i => ~(e.batch > b)
    BY <1>3, <1>2, <2>1 DEF IsLastBatch, Mentions
  <2> QED
    BY <2>1, <2>2, <2>3
<1> QED
  BY <1>4 DEF Neutral, Replacing

LEMMA WriteNeutral ==
  ASSUME TypeOK, NEW w \in Writer, BatchInvFor(w),
         NEW j \in Id, NEW r \in Recorded, NEW d \in BOOLEAN, Write(w, j, r, d), NEW i \in Id
  PROVE  Neutral(w, i)
<1> DEFINE e == [id |-> j, recorded |-> r, deleted |-> d,
                 seq |-> written[w] + 1, batch |-> batchNo[w]]
<1>1. /\ seen'[w] = seen[w] \cup {e} /\ batchNo' = batchNo /\ batchNo[w] \in Nat
      /\ pc[w] = "ready" /\ ~Reached(w) /\ ~Reached(w)'
  BY DEF TypeOK, Write, Reached
<1>2. ASSUME NEW b \in Nat
      PROVE  /\ IsLastBatch(w, i, b)' <=> IsLastBatch(w, i, b)
             /\ IsLastBatch(w, i, b) => Updates(w, i, b)' = Updates(w, i, b)
  <2>1. CASE b < batchNo[w]
    <3>1. Mentions(w, i, b)' = Mentions(w, i, b)
      BY <1>1, <2>1 DEF Mentions
    <3> QED
      BY <1>1, <2>1, <3>1 DEF IsLastBatch, Updates
  <2>2. CASE ~(b < batchNo[w])
    BY <1>1, <2>2 DEF IsLastBatch
  <2> QED
    BY <2>1, <2>2
<1> QED
  BY <1>1, <1>2 DEF Neutral, Replacing

(* flush returned nil: the batch that it has written is now the last.       *)
LEMMA FlushedIsLast ==
  ASSUME TypeOK, NEW w \in Writer, NEW i \in deleteIds[w], BatchInvFor(w), CollectedFor(w),
         FlushOk(w), UNCHANGED seen
  PROVE  \E b \in Nat : /\ b = batchNo[w] /\ IsLastBatch(w, i, b)'
                       /\ Updates(w, i, b)' = Updates(w, i, b)
<1>1. PICK b \in Nat : b = batchNo[w]
  BY DEF TypeOK
<1>2. Mentions(w, i, b) # {} /\ i \in Id
  BY <1>1 DEF CollectedFor, TypeOK
<1>3. \A e \in seen[w] : e.batch \in Nat /\ ~(e.batch > b)
  BY <1>1 DEF TypeOK, BatchInvFor, Entity
<1>4. (batchNo'[w] = b + 1) \/ Reached(w)'
  BY <1>1 DEF TypeOK, FlushOk, Reached
<1>5. Mentions(w, i, b)' = Mentions(w, i, b) /\ Updates(w, i, b)' = Updates(w, i, b)
  BY DEF Mentions, Updates
<1>6. IsLastBatch(w, i, b)'
  BY <1>2, <1>3, <1>4, <1>5 DEF IsLastBatch
<1> QED
  BY <1>1, <1>5, <1>6

(* A flush that ends with the row that its batch asks for, and one that     *)
(* ends with no row where its batch asks for none.                          *)
LEMMA FlushExplains ==
  ASSUME TypeOK, NEW w \in Writer, NEW i \in deleteIds[w], BatchInvFor(w), CollectedFor(w),
         FlushOk(w), UNCHANGED seen,
         IF i \in InsertIds(w)
         THEN table'[i] # Absent /\ table'[i].writer = w /\ table'[i].entity = batchInserts[w][i]
         ELSE table'[i] = Absent
  PROVE  Explained(i)'
<1>1. PICK b \in Nat : /\ b = batchNo[w] /\ IsLastBatch(w, i, b)'
                      /\ Updates(w, i, b)' = Updates(w, i, b)
  BY FlushedIsLast
<1>2. i \in Id /\ LatestFor(w, i)
  BY DEF TypeOK, BatchInvFor
<1>3. HoldsBatch(w, i, b)'
  <2>1. CASE i \in InsertIds(w)
    <3>1. Updates(w, i, b) # {} /\ IsLatest(batchInserts[w][i], Updates(w, i, b))
      BY <1>1, <1>2, <2>1 DEF LatestFor, InsertIds
    <3> QED
      BY <1>1, <2>1, <3>1 DEF HoldsBatch, IsLatest
  <2>2. CASE i \notin InsertIds(w)
    <3>1. Updates(w, i, b) = {}
      <4>1. batchInserts[w][i] = Absent
        BY <1>2, <2>2 DEF InsertIds
      <4>2. \A f \in Updates(w, i, b) : f \in Entity
        BY DEF TypeOK, Updates, Mentions
      <4> QED
        BY <1>1, <1>2, <4>1, <4>2, AbsentAssumption DEF LatestFor, IsLatest
    <3> QED
      BY <1>1, <2>2, <3>1 DEF HoldsBatch
  <2> QED
    BY <2>1, <2>2
<1> QED
  BY <1>1, <1>3 DEF Explained

(* A request whose flush has failed empties its batch no more. *)
LEMMA DoubtStays ==
  ASSUME TypeOK, FailureInv, NEW w \in Writer, WriterStep(w), NEW i \in Id, Doubtful(i)
  PROVE  Doubtful(i)'
<1>1. PICK v \in Writer : i \in deleteIds[v] /\ (failed[v] \/ pc[v] = "gone")
  BY DEF Doubtful
<1>2. CASE v # w
  BY <1>1, <1>2, Frame DEF Untouched, Doubtful
<1>3. CASE v = w
  <2>1. pc[w] # "gone"
    BY DEF WriterStep, FlushStep, Incremental, IncrementalFails, FullSync, Write,
           WriteUnmappable, Close, Abandon, FlushDelete, DeleteText, InsertRow, FlushInsert,
           InsertText, FlushRefused, FlushInterrupted, CloseCommit, CloseCommitFails
  <2>2. failed[w] /\ tx[w] = "done" /\ pc[w] \in {"ready", "delete"}
    BY <1>1, <1>3, <2>1 DEF FailureInv, FailureSticksFor
  <2>3. failed'[w] /\ deleteIds[w] \subseteq deleteIds'[w]
    <3>1. ASSUME NEW j \in Id, NEW r \in Recorded, NEW d \in BOOLEAN, Write(w, j, r, d)
          PROVE  failed'[w] /\ deleteIds[w] \subseteq deleteIds'[w]
      BY <2>2, <3>1 DEF TypeOK, Write
    <3>2. CASE WriteUnmappable(w) \/ Close(w) \/ Abandon(w)
      BY <2>2, <3>2 DEF WriteUnmappable, Close, Abandon, batchVars
    <3>3. CASE FlushRefused(w)
      BY <3>3 DEF TypeOK, FlushRefused, FlushError, batchVars
    <3>4. ~Incremental(w) /\ ~IncrementalFails(w) /\ ~FullSync(w) /\ ~FlushDelete(w)
          /\ (\A j \in Id : ~InsertRow(w, j)) /\ ~FlushInsert(w) /\ ~FlushInterrupted(w)
          /\ ~CloseCommit(w) /\ ~CloseCommitFails(w)
      BY <2>2 DEF Incremental, IncrementalFails, FullSync, FlushDelete, DeleteText, InsertRow,
                  FlushInsert, InsertText, FlushInterrupted, CloseCommit, CloseCommitFails
    <3> QED
      BY <3>1, <3>2, <3>3, <3>4 DEF WriterStep, FlushStep
  <2> QED
    BY <1>1, <1>3, <2>3 DEF Doubtful
<1> QED
  BY <1>2, <1>3

LEMMA ExplainedStep ==
  ASSUME TypeOK, BatchInv, FailureInv, CollectedInv, NEW w \in Writer, WriterStep(w),
         NEW i \in Id, Explained(i)
  PROVE  Doubtful(i)' \/ Explained(i)'
<1>1. \A v \in Writer \ {w} : Untouched(v) /\ Neutral(v, i)
  BY Frame, UntouchedNeutral
<1>2. BatchInvFor(w) /\ CollectedFor(w) /\ OwnGoneFor(w) /\ InsertIds(w) \subseteq deleteIds[w]
  BY DeleteCoversInserts DEF BatchInv, CollectedInv
<1>3. ASSUME table'[i] = table[i], Neutral(w, i)
      PROVE  Explained(i)'
  BY <1>1, <1>3, ExplainedKept
<1>4. CASE \/ Incremental(w) \/ IncrementalFails(w) \/ FullSync(w) \/ WriteUnmappable(w)
           \/ Abandon(w) \/ (\E j \in Id : InsertRow(w, j)) \/ CloseCommit(w)
  <2>1. /\ UNCHANGED <<table, seen, batchNo, deleteIds>>
        /\ Reached(w)' <=> Reached(w)
        /\ pc[w] = "insert" => pc'[w] = "insert"
    BY <1>4 DEF TypeOK, Incremental, IncrementalFails, FullSync, WriteUnmappable, Abandon,
                InsertRow, CloseCommit, Reached, batchVars
  <2> QED
    BY <1>3, <2>1, MovedNeutral
<1>5. ASSUME NEW j \in Id, NEW r \in Recorded, NEW d \in BOOLEAN, Write(w, j, r, d)
      PROVE  Explained(i)'
  BY <1>2, <1>3, <1>5, WriteNeutral DEF Write
<1>6. CASE Close(w)
  <2>1. UNCHANGED <<table, seen, batchNo, deleteIds>> /\ pc[w] = "ready" /\ ~Reached(w)
    BY <1>6 DEF Close, Reached, batchVars
  <2>2. CASE batchSize[w] = 0
    <3>1. i \notin deleteIds[w] /\ batchNo'[w] = batchNo[w]
      BY <1>2, <2>1, <2>2 DEF CollectedFor
    <3> QED
      BY <1>2, <1>3, <2>1, <3>1, UnmentionedNeutral
  <2>3. CASE batchSize[w] # 0
    <3>1. ~Reached(w)'
      BY <1>6, <2>3 DEF TypeOK, Close, Reached
    <3> QED
      BY <1>3, <2>1, <3>1, MovedNeutral
  <2> QED
    BY <2>2, <2>3
<1>7. CASE CloseCommitFails(w)
  <2>1. UNCHANGED <<table, seen, batchNo, deleteIds>> /\ pc'[w] = "gone"
    BY <1>7 DEF TypeOK, CloseCommitFails, batchVars
  <2>2. CASE i \in deleteIds[w]
    BY <2>1, <2>2 DEF Doubtful
  <2>3. CASE i \notin deleteIds[w]
    BY <1>2, <1>3, <2>1, <2>3, UnmentionedNeutral
  <2> QED
    BY <2>2, <2>3
<1>8. CASE FlushRefused(w) \/ FlushInterrupted(w)
  <2>1. UNCHANGED <<seen, batchNo, deleteIds>> /\ failed'[w]
    BY <1>8 DEF TypeOK, FlushRefused, FlushInterrupted, FlushError, batchVars
  <2>2. CASE i \in deleteIds[w]
    BY <2>1, <2>2 DEF Doubtful
  <2>3. CASE i \notin deleteIds[w]
    <3>1. table'[i] = table[i]
      BY <1>2, <1>8, <2>3
      DEF FlushRefused, FlushInterrupted, DeleteText, WithoutDeleted, InsertText, TypeOK
    <3> QED
      BY <1>2, <1>3, <2>1, <2>3, <3>1, UnmentionedNeutral
  <2> QED
    BY <2>2, <2>3
<1>9. ASSUME FlushOk(w), UNCHANGED seen
      PROVE  batchNo'[w] = batchNo[w] \/ batchNo'[w] = batchNo[w] + 1
  BY <1>9 DEF TypeOK, FlushOk, batchVars
<1>10. CASE FlushDelete(w)
  <2>1. DeleteText(w) /\ table' = WithoutDeleted(w) /\ UNCHANGED seen
    BY <1>10 DEF FlushDelete, DeleteText
  <2>2. CASE i \notin deleteIds[w]
    <3>1. table'[i] = table[i]
      BY <2>1, <2>2 DEF WithoutDeleted
    <3>2. batchNo'[w] = batchNo[w] \/ batchNo'[w] = batchNo[w] + 1
      BY <1>9, <1>10, <2>1 DEF FlushDelete, batchVars
    <3> QED
      BY <1>2, <1>3, <2>1, <2>2, <3>1, <3>2, UnmentionedNeutral
  <2>3. CASE i \in deleteIds[w] /\ FlushOk(w) /\ InsertIds(w) = {}
    <3>1. table'[i] = Absent
      BY <2>1, <2>3 DEF WithoutDeleted
    <3> QED
      BY <1>2, <2>1, <2>3, <3>1, FlushExplains
  <2>4. CASE i \in deleteIds[w] /\ pc' = [pc EXCEPT ![w] = "insert"] /\ UNCHANGED batchVars
    <3>1. table'[i] = Absent /\ Replacing(w, i)'
      BY <2>1, <2>4 DEF WithoutDeleted, Replacing, TypeOK, batchVars
    <3> QED
      BY <3>1 DEF Explained
  <2> QED
    BY <1>10, <2>2, <2>3, <2>4 DEF FlushDelete
<1>11. CASE FlushInsert(w)
  <2>1. InsertText(w) /\ FlushOk(w) /\ UNCHANGED seen
    BY <1>11 DEF FlushInsert
  <2>2. CASE i \in InsertIds(w)
    <3>1. table'[i] = [writer |-> w, entity |-> batchInserts[w][i], since |-> stamps[w][i]]
      BY <2>1, <2>2 DEF InsertText
    <3>2. table'[i] # Absent
      <4>1. table'[i] \in Row
        BY <2>2, <3>1 DEF TypeOK, InsertIds, Row
      <4> QED
        BY <4>1, AbsentAssumption
    <3>3. i \in deleteIds[w]
      BY <1>2, <2>2
    <3> QED
      BY <1>2, <2>1, <2>2, <3>1, <3>2, <3>3, FlushExplains
  <2>3. CASE i \notin InsertIds(w)
    <3>1. table'[i] = table[i]
      BY <2>1, <2>3 DEF InsertText
    <3>2. CASE i \notin deleteIds[w]
      BY <1>2, <1>3, <1>9, <2>1, <3>1, <3>2, UnmentionedNeutral
    <3>3. CASE i \in deleteIds[w] /\ table[i] = Absent
      BY <1>2, <2>1, <2>3, <3>1, <3>3, FlushExplains
    <3>4. CASE i \in deleteIds[w] /\ table[i] # Absent
      <4>1. PICK v \in Writer, b \in Nat : IsLastBatch(v, i, b) /\ HoldsBatch(v, i, b)
        BY <3>4 DEF Explained
      <4>2. table[i].writer = v
        BY <3>4, <4>1 DEF HoldsBatch
      <4>3. Replacing(w, i)
        BY <2>1, <3>4 DEF InsertText, Replacing
      <4>4. v # w
        BY <1>2, <3>4, <4>2, <4>3 DEF OwnGoneFor
      <4>5. IsLastBatch(v, i, b)' /\ Updates(v, i, b)' = Updates(v, i, b)
        BY <1>1, <4>1, <4>4 DEF Neutral
      <4>6. HoldsBatch(v, i, b)'
        BY <3>1, <4>1, <4>5 DEF HoldsBatch, IsLatest
      <4> QED
        BY <4>5, <4>6 DEF Explained
    <3> QED
      BY <3>2, <3>3, <3>4
  <2> QED
    BY <2>2, <2>3
<1> QED
  BY <1>4, <1>5, <1>6, <1>7, <1>8, <1>10, <1>11 DEF WriterStep, FlushStep

LEMMA StepStoredInv ==
  ASSUME TypeOK, BatchInv, FailureInv, CollectedInv, StoredInv, [Next]_vars
  PROVE  StoredInv'
<1>1. CASE UNCHANGED vars
  <2>1. \A i \in Id : Doubtful(i)' <=> Doubtful(i)
    BY <1>1 DEF vars, Doubtful
  <2>2. \A i \in Id : \A v \in Writer : Neutral(v, i)
    BY <1>1 DEF vars, Neutral, IsLastBatch, Reached, Mentions, Updates, Replacing
  <2>3. \A i \in Id : Explained(i) => Explained(i)'
    BY <1>1, <2>2, ExplainedKept DEF vars
  <2> QED
    BY <2>1, <2>3 DEF StoredInv
<1>2. ASSUME NEW w \in Writer, WriterStep(w), NEW i \in Id
      PROVE  Doubtful(i)' \/ Explained(i)'
  BY <1>2, DoubtStays, ExplainedStep DEF StoredInv
<1> QED
  BY <1>1, <1>2 DEF StoredInv, Next

(* The number of a batch with something in it is below the number of calls. *)
LEMMA BatchBounded ==
  ASSUME TypeOK, NEW w \in Writer, CollectedFor(w), NEW i \in Id, NEW b \in Nat,
         Mentions(w, i, b) # {}, \A e \in seen[w] : e.batch =< batchNo[w]
  PROVE  b \in 0 .. MaxWrites
  BY MaxWritesAssumption DEF TypeOK, CollectedFor, Mentions

(* Where no flush is in doubt, what explains the row is what AckedIsStored  *)
(* asks for.                                                                *)
LEMMA StoredIsAcked ==
  ASSUME TypeOK, BatchInv, FailureInv, CollectedInv, StoredInv
  PROVE  AckedIsStored
<1> SUFFICES ASSUME NEW i \in Id, \A w \in Writer : ~InDoubt(w, i)
             PROVE  LET last == {p \in Writer \X (0 .. MaxWrites) : LastFlushed(p[1], i, p[2])}
                    IN IF last = {} THEN table[i] = Absent
                       ELSE \E p \in last : HoldsBatch(p[1], i, p[2])
  BY DEF AckedIsStored
<1> DEFINE last == {p \in Writer \X (0 .. MaxWrites) : LastFlushed(p[1], i, p[2])}
<1>1. ~Doubtful(i) /\ \A w \in Writer : ~Replacing(w, i)
  BY DEF Doubtful, InDoubt, Replacing, FailureInv, FailureSticksFor
<1>2. Explained(i)
  BY <1>1 DEF StoredInv
<1>3. ASSUME NEW w \in Writer, NEW b \in Nat
      PROVE  IsLastBatch(w, i, b) <=> <<w, b>> \in last
  <2>1. CollectedFor(w) /\ BatchInvFor(w) /\ ~InDoubt(w, i)
    BY DEF CollectedInv, BatchInv
  <2>2. Mentions(w, i, b) # {} => b \in 0 .. MaxWrites
    BY <2>1, BatchBounded DEF BatchInvFor
  <2>3. CASE pc[w] = "commit"
    <3>1. \A e \in seen[w] : e.id = i => e.batch # batchNo[w]
      BY <2>1, <2>3 DEF InDoubt, CollectedFor, Mentions
    <3>2. IsLastBatch(w, i, b) <=> LastFlushed(w, i, b)
      <4>1. \A e \in seen[w] : e.id = i => e.batch < batchNo[w]
        <5>1. /\ batchNo[w] \in Nat
              /\ \A e \in seen[w] : e.batch \in Nat /\ e.batch =< batchNo[w]
          BY <2>1 DEF TypeOK, BatchInvFor, Entity
        <5> QED
          BY <3>1, <5>1
      <4> QED
        BY <2>3, <3>1, <4>1 DEF IsLastBatch, LastFlushed, Reached, Mentions
    <3> QED
      BY <2>2, <3>2 DEF IsLastBatch
  <2>4. CASE pc[w] # "commit"
    <3>1. IsLastBatch(w, i, b) <=> LastFlushed(w, i, b)
      BY <2>4 DEF IsLastBatch, LastFlushed, Reached
    <3> QED
      BY <2>2, <3>1 DEF IsLastBatch
  <2> QED
    BY <2>3, <2>4
<1>4. CASE \E w \in Writer, b \in Nat : IsLastBatch(w, i, b) /\ HoldsBatch(w, i, b)
  BY <1>3, <1>4
<1>5. CASE table[i] = Absent /\ \A w \in Writer, b \in Nat : ~IsLastBatch(w, i, b)
  <2>1. \A p \in Writer \X (0 .. MaxWrites) : p \notin last
    BY <1>3, <1>5, MaxWritesAssumption
  <2> QED
    BY <1>5, <2>1
<1> QED
  BY <1>1, <1>2, <1>4, <1>5 DEF Explained

(* Where no flush is in doubt, every row is the latest update of the last   *)
(* batch with its id that one of the requests has flushed, or gone if that  *)
(* batch only deletes it (AckedIsStored).                                   *)
THEOREM AckedIsStoredAlways == Spec => []AckedIsStored
<1> DEFINE I == TypeOK /\ BatchInv /\ FailureInv /\ CollectedInv /\ StoredInv
<1>1. Init => I
  BY InitTypeOK, InitBatchInv, InitFailureInv, InitStoredInv
<1>2. I /\ [Next]_vars => I'
  BY StepTypeOK, StepBatchInv, StepFailureInv, StepCollectedInv, StepStoredInv
<1>3. I => AckedIsStored
  BY StoredIsAcked
<1> QED
  BY <1>1, <1>2, <1>3, PTL DEF Spec

-----------------------------------------------------------------------------
(***************************************************************************)
(* What the end of a flush rests on.                                       *)
(*                                                                         *)
(* A flush has at most one step for each text, one for each row and one    *)
(* for the commit at the end of Close.  It always has one of them that the *)
(* server or database/sql can take, and none takes it back.                *)
(***************************************************************************)

Flushing(w) == pc[w] \in {"delete", "insert", "commit"}

Unstamped(w) == {i \in InsertIds(w) : stamps[w][i] = 0}

(* How many steps the flush of w may still take. *)
StepsLeft(w) ==
  CASE pc[w] = "delete" -> Cardinality(InsertIds(w)) + 3
    [] pc[w] = "insert" -> Cardinality(Unstamped(w)) + 2
    [] pc[w] = "commit" -> 1
    [] OTHER -> 0

(* The conditions of the steps of FlushStep: to refuse, to execute the first *)
(* text, to run an INSERT or commit the second, and the commit of Close.     *)
CanMove(w) ==
  \/ pc[w] \in {"delete", "insert"} /\ Refused(w)
  \/ pc[w] = "delete" /\ tx[w] = "open" /\ ~Blocked(w)
  \/ /\ pc[w] = "insert" /\ tx[w] = "open"
     /\ \/ \E i \in Unstamped(w) : table[i] = Absent /\ \A v \in Writer : stamps[v][i] = 0
        \/ Unstamped(w) = {}
  \/ pc[w] = "commit" /\ tx[w] = "open"

(* Batches are finite, and the transaction of a request that has not failed *)
(* is open; one that has failed does not come to its commit.                *)
OpenInv ==
  \A w \in Writer :
    /\ IsFiniteSet(deleteIds[w])
    /\ pc[w] \in {"ready", "delete", "insert", "commit"} /\ ~failed[w] => tx[w] = "open"

LEMMA InitOpenInv == Init => OpenInv
  BY FS_EmptySet DEF Init, OpenInv

LEMMA StepOpenInv ==
  ASSUME TypeOK, OpenInv, [Next]_vars
  PROVE  OpenInv'
<1>1. CASE UNCHANGED vars
  BY <1>1 DEF OpenInv, vars
<1>2. ASSUME NEW w \in Writer, WriterStep(w), NEW v \in Writer \ {w}
      PROVE  /\ IsFiniteSet(deleteIds'[v])
             /\ pc'[v] \in {"ready", "delete", "insert", "commit"} /\ ~failed'[v]
                  => tx'[v] = "open"
  BY <1>2, Frame DEF OpenInv, Untouched
<1>3. ASSUME NEW w \in Writer, WriterStep(w)
      PROVE  IsFiniteSet(deleteIds'[w])
  <2>1. ASSUME NEW i \in Id, NEW r \in Recorded, NEW d \in BOOLEAN, Write(w, i, r, d)
        PROVE  deleteIds'[w] = deleteIds[w] \cup {i}
    BY <2>1 DEF TypeOK, Write, IdsToDelete
  <2>2. ASSUME FlushOk(w)
        PROVE  deleteIds'[w] = deleteIds[w] \/ deleteIds'[w] = {}
    BY <2>2 DEF TypeOK, FlushOk, batchVars
  <2>3. \/ deleteIds'[w] = deleteIds[w] \/ deleteIds'[w] = {}
        \/ \E i \in Id : deleteIds'[w] = deleteIds[w] \cup {i}
    BY <1>3, <2>1, <2>2 DEF WriterStep, FlushStep, Incremental, IncrementalFails, FullSync,
       WriteUnmappable, Close, Abandon, FlushDelete, InsertRow, FlushInsert, FlushRefused,
       FlushInterrupted, FlushError, CloseCommit, CloseCommitFails, batchVars
  <2>4. IsFiniteSet(deleteIds[w])
    BY DEF OpenInv
  <2>5. \A i \in Id : IsFiniteSet(deleteIds[w] \cup {i})
    BY <2>4, FS_AddElement
  <2> QED
    BY <2>3, <2>4, <2>5, FS_EmptySet
<1>4. ASSUME NEW w \in Writer, WriterStep(w),
             pc'[w] \in {"ready", "delete", "insert", "commit"}, ~failed'[w]
      PROVE  tx'[w] = "open"
  <2>1. CASE Incremental(w)
    BY <2>1 DEF TypeOK, Incremental
  <2>2. CASE \/ IncrementalFails(w) \/ FullSync(w) \/ Abandon(w)
             \/ CloseCommit(w) \/ CloseCommitFails(w)
    BY <1>4, <2>2 DEF TypeOK, IncrementalFails, FullSync, Abandon, CloseCommit, CloseCommitFails
  <2>3. CASE FlushRefused(w) \/ FlushInterrupted(w)
    BY <1>4, <2>3 DEF TypeOK, FlushRefused, FlushInterrupted, FlushError
  <2>4. CASE \/ \E i \in Id, r \in Recorded, d \in BOOLEAN : Write(w, i, r, d)
             \/ WriteUnmappable(w) \/ Close(w)
             \/ FlushDelete(w) \/ (\E i \in Id : InsertRow(w, i)) \/ FlushInsert(w)
    <3>1. pc[w] \in {"ready", "delete", "insert"} /\ UNCHANGED <<tx, failed>>
      BY <2>4 DEF Write, WriteUnmappable, Close, FlushDelete, DeleteText, InsertRow, FlushInsert,
                  InsertText
    <3> QED
      BY <1>4, <3>1 DEF OpenInv
  <2> QED
    BY <1>4, <2>1, <2>2, <2>3, <2>4 DEF WriterStep, FlushStep
<1> QED
  BY <1>1, <1>2, <1>3, <1>4 DEF OpenInv, Next

LEMMA RowsFinite ==
  ASSUME NEW w \in Writer, BatchInvFor(w), OpenInv
  PROVE  /\ IsFiniteSet(InsertIds(w)) /\ Cardinality(InsertIds(w)) \in Nat
         /\ IsFiniteSet(Unstamped(w)) /\ Cardinality(Unstamped(w)) \in Nat
         /\ Cardinality(Unstamped(w)) =< Cardinality(InsertIds(w))
<1>1. IsFiniteSet(InsertIds(w))
  BY DeleteCoversInserts, FS_Subset DEF OpenInv
<1>2. Unstamped(w) \subseteq InsertIds(w)
  BY DEF Unstamped
<1> QED
  BY <1>1, <1>2, FS_Subset, FS_CardinalityType

(* A row that is not stamped may be inserted, or is there, or is locked.    *)
LEMMA FlushingCanMove ==
  ASSUME TypeOK, FailureInv, OpenInv, NEW w \in Writer, Flushing(w)
  PROVE  CanMove(w)
<1>1. CASE pc[w] = "commit"
  BY <1>1 DEF OpenInv, FailureInv, FailureSticksFor, CanMove
<1>2. CASE pc[w] = "delete"
  BY <1>2 DEF CanMove, Refused
<1>3. CASE pc[w] = "insert"
  <2>1. Touches(w) = Unstamped(w)
    BY <1>3 DEF Touches, Unstamped
  <2>2. ASSUME NEW i \in Unstamped(w), ~Refused(w)
        PROVE  table[i] = Absent /\ \A v \in Writer : stamps[v][i] = 0
    BY <1>3, <2>1, <2>2 DEF Refused, Blocked, Unstamped
  <2> QED
    BY <1>3, <2>2 DEF CanMove, Refused
<1> QED
  BY <1>1, <1>2, <1>3 DEF Flushing

LEMMA FewerSteps ==
  ASSUME TypeOK, NEW w \in Writer, BatchInvFor(w), OpenInv, Flushing(w), WriterStep(w)
  PROVE  StepsLeft(w)' < StepsLeft(w)
<1> DEFINE rows == Cardinality(InsertIds(w))
           unstamped == Cardinality(Unstamped(w))
<1>1. rows \in Nat /\ unstamped \in Nat
  BY RowsFinite
<1>2. /\ pc[w] = "delete" => StepsLeft(w) = rows + 3
      /\ pc[w] = "insert" => StepsLeft(w) = unstamped + 2
      /\ pc[w] = "commit" => StepsLeft(w) = 1
  BY DEF StepsLeft
<1>3. /\ pc'[w] \in {"ready", "closed", "gone"} => StepsLeft(w)' = 0
      /\ pc'[w] = "insert" => StepsLeft(w)' = Cardinality(Unstamped(w)') + 2
      /\ pc'[w] = "commit" => StepsLeft(w)' = 1
  BY DEF StepsLeft
<1>4. CASE FlushRefused(w) \/ FlushInterrupted(w)
  <2>1. pc[w] \in {"delete", "insert"} /\ pc'[w] \in {"ready", "gone"}
    BY <1>4 DEF TypeOK, FlushRefused, FlushInterrupted, FlushError
  <2> QED
    BY <1>1, <1>2, <1>3, <2>1
<1>5. CASE CloseCommit(w) \/ CloseCommitFails(w)
  <2>1. pc[w] = "commit" /\ pc'[w] \in {"closed", "gone"}
    BY <1>5 DEF TypeOK, CloseCommit, CloseCommitFails
  <2> QED
    BY <1>2, <1>3, <2>1
<1>6. CASE FlushOk(w) /\ pc[w] \in {"delete", "insert"}
  <2>1. pc'[w] \in {"ready", "commit"}
    BY <1>6 DEF TypeOK, FlushOk
  <2> QED
    BY <1>1, <1>2, <1>3, <1>6, <2>1
<1>7. CASE FlushDelete(w) /\ ~FlushOk(w)
  <2>1. /\ pc[w] = "delete" /\ pc'[w] = "insert"
        /\ UNCHANGED <<batchInserts, stamps>>
    BY <1>7 DEF TypeOK, FlushDelete, DeleteText, batchVars
  <2>2. Unstamped(w)' = Unstamped(w)
    BY <2>1 DEF Unstamped, InsertIds
  <2>3. unstamped =< rows
    BY RowsFinite
  <2> QED
    BY <1>1, <1>2, <1>3, <2>1, <2>2, <2>3
<1>8. ASSUME NEW i \in Id, InsertRow(w, i)
      PROVE  StepsLeft(w)' < StepsLeft(w)
  <2>1. /\ pc[w] = "insert" /\ pc'[w] = "insert" /\ UNCHANGED batchInserts
        /\ i \in Unstamped(w)
    BY <1>8 DEF InsertRow, Unstamped, batchVars
  <2>2. clock' > 0 /\ stamps'[w] = [stamps[w] EXCEPT ![i] = clock']
    BY <1>8, ClockAssumption DEF TypeOK, InsertRow
  <2>3. \A j \in Id : stamps'[w][j] = IF j = i THEN clock' ELSE stamps[w][j]
    BY <2>2 DEF TypeOK
  <2>4. Unstamped(w)' = Unstamped(w) \ {i}
    BY <2>1, <2>2, <2>3 DEF Unstamped, InsertIds
  <2>5. Cardinality(Unstamped(w)') = unstamped - 1
    BY <2>1, <2>4, RowsFinite, FS_RemoveElement
  <2> QED
    BY <1>1, <1>2, <1>3, <2>1, <2>5
<1>9. FlushInsert(w) => FlushOk(w) /\ pc[w] = "insert"
  BY DEF FlushInsert, InsertText
<1>10. FlushDelete(w) => pc[w] = "delete"
  BY DEF FlushDelete, DeleteText
<1>11. \/ FlushDelete(w) \/ (\E i \in Id : InsertRow(w, i)) \/ FlushInsert(w)
       \/ FlushRefused(w) \/ FlushInterrupted(w) \/ CloseCommit(w) \/ CloseCommitFails(w)
  <2>1. /\ ~Incremental(w) /\ ~IncrementalFails(w) /\ ~FullSync(w) /\ ~WriteUnmappable(w)
        /\ ~Close(w) /\ ~Abandon(w)
    BY DEF Flushing, Incremental, IncrementalFails, FullSync, WriteUnmappable, Close, Abandon
  <2>2. \A i \in Id, r \in Recorded, d \in BOOLEAN : ~Write(w, i, r, d)
    BY DEF Flushing, Write
  <2> QED
    BY <2>1, <2>2 DEF WriterStep, FlushStep
<1> QED
  BY <1>4, <1>5, <1>6, <1>7, <1>8, <1>9, <1>10, <1>11

(* A flush, and the commit of Close after it, can always go on by a step of *)
(* the server or of database/sql, whatever other requests hold, and each of *)
(* its own steps brings it nearer to its end while no step of another       *)
(* request changes it.  So it ends if its steps are not put off for ever,   *)
(* after at most three steps more than its batch has rows (write.go:211).   *)
THEOREM FlushAdvances ==
  Spec => /\ [](\A w \in Writer : Flushing(w) => CanMove(w))
          /\ [](\A w \in Writer : StepsLeft(w) \in Nat)
          /\ [][\A w \in Writer :
                  Flushing(w) => Untouched(w) \/ StepsLeft(w)' < StepsLeft(w)]_vars
<1> DEFINE I == TypeOK /\ BatchInv /\ FailureInv /\ OpenInv
           Moves == \A w \in Writer : Flushing(w) => CanMove(w)
           Counts == \A w \in Writer : StepsLeft(w) \in Nat
           Shrinks == \A w \in Writer :
                        Flushing(w) => Untouched(w) \/ StepsLeft(w)' < StepsLeft(w)
<1>1. Init => I
  BY InitTypeOK, InitBatchInv, InitFailureInv, InitOpenInv
<1>2. I /\ [Next]_vars => I'
  BY StepTypeOK, StepBatchInv, StepFailureInv, StepOpenInv
<1>3. I => Moves
  BY FlushingCanMove
<1>4. I => Counts
  BY RowsFinite DEF BatchInv, StepsLeft
<1>5. I /\ Next => Shrinks
  <2> SUFFICES ASSUME I, NEW v \in Writer, WriterStep(v), NEW w \in Writer, Flushing(w)
               PROVE  Untouched(w) \/ StepsLeft(w)' < StepsLeft(w)
    BY DEF Next
  <2>1. CASE w = v
    BY <2>1, FewerSteps DEF BatchInv
  <2>2. CASE w # v
    BY <2>2, Frame
  <2> QED
    BY <2>1, <2>2
<1> HIDE DEF I, Moves, Counts, Shrinks
<1>6. Spec => []Moves /\ []Counts /\ [][Shrinks]_vars
  BY <1>1, <1>2, <1>3, <1>4, <1>5, PTL DEF Spec
<1> QED
  BY <1>6 DEF Moves, Counts, Shrinks

=============================================================================
