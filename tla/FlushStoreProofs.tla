-------------------------- MODULE FlushStoreProofs --------------------------
(***************************************************************************)
(* MysqlWriter implements FlushStore, for all requests, ids, thresholds    *)
(* and clocks: the initial states map to initial states, and every step    *)
(* maps to a step of FlushStore or changes nothing there.                  *)
(***************************************************************************)
EXTENDS MysqlWriterStore, MysqlWriterProofs

-----------------------------------------------------------------------------
(***************************************************************************)
(* Row locks.  An id that a request has inserted and not yet committed is  *)
(* inserted by no other request and has no row: that is why the COMMIT of  *)
(* the second text puts the rows next to the others and over none.         *)
(***************************************************************************)

LocksFor(w) ==
  /\ \A i \in Id : stamps[w][i] # 0 => pc[w] = "insert" /\ tx[w] = "open" /\ table[i] = Absent
  /\ pc[w] = "idle" => tx[w] = "none"

Exclusive(w, v) == v # w => \A i \in Id : stamps[w][i] = 0 \/ stamps[v][i] = 0

LockInv ==
  /\ \A w \in Writer : LocksFor(w)
  /\ \A w, v \in Writer : Exclusive(w, v)

LEMMA InitLockInv == Init => LockInv
  BY DEF Init, LockInv, LocksFor, Exclusive, NoStamps, NoInserts

(* What a step of w does to its own locks. *)
LEMMA LocksOwn ==
  ASSUME TypeOK, NEW w \in Writer, LocksFor(w), WriterStep(w)
  PROVE  LocksFor(w)'
<1>1. CASE Incremental(w) \/ IncrementalFails(w) \/ FullSync(w) \/ WriteUnmappable(w)
           \/ Close(w) \/ Abandon(w)
  BY <1>1 DEF TypeOK, LocksFor, Incremental, IncrementalFails, FullSync,
              WriteUnmappable, Close, Abandon, batchVars
<1>2. ASSUME NEW i \in Id, NEW r \in Recorded, NEW d \in BOOLEAN, Write(w, i, r, d)
      PROVE  LocksFor(w)'
  BY <1>2 DEF TypeOK, LocksFor, Write
<1>3. ASSUME FlushOk(w), tx' = tx, stamps'[w] = NoStamps
      PROVE  LocksFor(w)'
  BY <1>3 DEF TypeOK, LocksFor, FlushOk, NoStamps
<1>4. CASE FlushDelete(w)
  <2>1. stamps[w] = NoStamps
    BY <1>4 DEF TypeOK, LocksFor, FlushDelete, DeleteText, NoStamps
  <2>2. UNCHANGED <<tx, stamps>>
    BY <1>4 DEF FlushDelete
  <2>3. CASE FlushOk(w)
    BY <1>3, <2>1, <2>2, <2>3
  <2>4. CASE pc' = [pc EXCEPT ![w] = "insert"]
    BY <2>1, <2>2, <2>4 DEF TypeOK, LocksFor, NoStamps
  <2> QED
    BY <1>4, <2>3, <2>4 DEF FlushDelete
<1>5. ASSUME NEW i \in Id, InsertRow(w, i)
      PROVE  LocksFor(w)'
  BY <1>5 DEF TypeOK, LocksFor, InsertRow
<1>6. CASE FlushInsert(w)
  <2>1. tx' = tx /\ stamps'[w] = NoStamps /\ FlushOk(w)
    BY <1>6 DEF TypeOK, FlushInsert
  <2> QED
    BY <1>3, <2>1
<1>7. CASE FlushRefused(w) \/ FlushInterrupted(w)
  <2>1. FlushError(w) /\ pc[w] \in {"delete", "insert"}
    BY <1>7 DEF FlushRefused, FlushInterrupted
  <2> QED
    BY <2>1 DEF TypeOK, LocksFor, FlushError, RolledBack, NoStamps
<1>8. CASE CloseCommit(w) \/ CloseCommitFails(w)
  BY <1>8 DEF TypeOK, LocksFor, CloseCommit, CloseCommitFails
<1> QED
  BY <1>1, <1>2, <1>4, <1>5, <1>6, <1>7, <1>8 DEF WriterStep, FlushStep

(* A step of w takes a lock only where there is none, and puts a row only   *)
(* where it holds the lock.                                                 *)
LEMMA TakesFreeLocks ==
  ASSUME TypeOK, NEW w \in Writer, WriterStep(w), NEW i \in Id, stamps'[w][i] # 0
  PROVE  stamps[w][i] # 0 \/ \A v \in Writer : stamps[v][i] = 0
<1>1. CASE stamps' = stamps
  BY <1>1
<1>2. CASE stamps' = [stamps EXCEPT ![w] = NoStamps]
  BY <1>2 DEF TypeOK, NoStamps
<1>3. ASSUME NEW j \in Id, InsertRow(w, j)
      PROVE  stamps[w][i] # 0 \/ \A v \in Writer : stamps[v][i] = 0
  <2>1. stamps' = [stamps EXCEPT ![w] = [@ EXCEPT ![j] = clock']]
        /\ \A v \in Writer : stamps[v][j] = 0
    BY <1>3 DEF InsertRow
  <2> QED
    BY <2>1 DEF TypeOK
<1> QED
  BY <1>1, <1>2, <1>3
     DEF WriterStep, FlushStep, Incremental, IncrementalFails, FullSync, Write,
         WriteUnmappable, Close, Abandon, FlushDelete, FlushInsert,
         FlushRefused, FlushInterrupted, FlushError, RolledBack, CloseCommit, CloseCommitFails

LEMMA PutsUnderLock ==
  ASSUME TypeOK, NEW w \in Writer, WriterStep(w), NEW i \in Id,
         table[i] = Absent, table'[i] # Absent
  PROVE  stamps[w][i] # 0
<1>1. CASE DeleteText(w)
  BY <1>1 DEF DeleteText, WithoutDeleted
<1>2. CASE InsertText(w)
  BY <1>2 DEF InsertText
<1>3. CASE table' = table
  BY <1>3
<1> QED
  BY <1>1, <1>2, <1>3
     DEF WriterStep, FlushStep, Incremental, IncrementalFails, FullSync, Write,
         WriteUnmappable, Close, Abandon, FlushDelete, InsertRow, FlushInsert,
         FlushRefused, FlushInterrupted, CloseCommit, CloseCommitFails

LEMMA StepLockInv ==
  ASSUME TypeOK, LockInv, [Next]_vars
  PROVE  LockInv'
<1>1. CASE UNCHANGED vars
  BY <1>1 DEF LockInv, LocksFor, Exclusive, vars
<1>2. ASSUME NEW w \in Writer, WriterStep(w)
      PROVE  LockInv'
  <2>1. \A v \in Writer \ {w} : Untouched(v)
    BY <1>2, Frame
  <2>2. ASSUME NEW v \in Writer
        PROVE  LocksFor(v)'
    <3>1. CASE v = w
      BY <1>2, <3>1, LocksOwn DEF LockInv
    <3>2. CASE v # w
      <4>1. pc'[v] = pc[v] /\ tx'[v] = tx[v] /\ stamps'[v] = stamps[v]
        BY <2>1, <3>2 DEF Untouched
      <4>2. \A i \in Id : stamps[v][i] # 0 => table[i] = Absent /\ stamps[w][i] = 0
        BY <3>2 DEF LockInv, LocksFor, Exclusive
      <4>3. \A i \in Id : stamps[v][i] # 0 => table'[i] = Absent
        BY <1>2, <4>2, PutsUnderLock
      <4>4. LocksFor(v)
        BY DEF LockInv
      <4> QED
        BY <4>1, <4>3, <4>4 DEF LocksFor
    <3> QED
      BY <3>1, <3>2
  <2>3. ASSUME NEW u \in Writer, NEW v \in Writer, v # u
        PROVE  \A i \in Id : stamps'[u][i] = 0 \/ stamps'[v][i] = 0
    <3>1. \A x, y \in Writer : x # y => \A i \in Id : stamps[x][i] = 0 \/ stamps[y][i] = 0
      BY DEF LockInv, Exclusive
    <3>2. \A x \in Writer \ {w} : stamps'[x] = stamps[x]
      BY <2>1 DEF Untouched
    <3>3. \A i \in Id : stamps'[w][i] # 0 => stamps[w][i] # 0 \/ \A x \in Writer : stamps[x][i] = 0
      BY <1>2, TakesFreeLocks
    <3> QED
      BY <2>3, <3>1, <3>2, <3>3
  <2> QED
    BY <2>2, <2>3 DEF LockInv, Exclusive
<1> QED
  BY <1>1, <1>2 DEF Next

LEMMA LockInvReached == Spec => [](TypeOK /\ LockInv)
<1>1. TypeOK /\ LockInv /\ [Next]_vars => TypeOK' /\ LockInv'
  BY StepTypeOK, StepLockInv
<1> QED
  BY InitTypeOK, InitLockInv, <1>1, PTL DEF Spec

-----------------------------------------------------------------------------
(***************************************************************************)
(* The mapping.                                                            *)
(***************************************************************************)

LEMMA InitMaps == Init => Store!Init
<1> SUFFICES ASSUME Init
             PROVE  Store!Init
  OBVIOUS
<1>1. StoredContent = Store!NoRows
  BY DEF Init, StoredContent, Store!NoRows
<1>2. Stage = [w \in Writer |-> "open"]
  BY DEF Init, Stage, Ended
<1>3. ToRemove = [w \in Writer |-> {}]
  BY DEF Init, ToRemove, Ended
<1>4. ToPut = [w \in Writer |-> Store!NoRows]
  BY DEF Init, ToPut, RowToPut, Ended, NoInserts, Store!NoRows
<1> QED
  BY <1>1, <1>2, <1>3, <1>4 DEF Store!Init

LEMMA UnitType ==
  ASSUME TypeOK', NEW w \in Writer
  PROVE  ToRemove'[w] \in SUBSET Id /\ ToPut'[w] \in [Id -> Content \cup {Absent}]
<1>1. ASSUME NEW i \in Id
      PROVE  RowToPut(w, i)' \in Content \cup {Absent}
  <2>1. batchInserts'[w][i] \in Entity \cup {Absent}
    BY DEF TypeOK
  <2> QED
    BY <2>1 DEF RowToPut, Content
<1> QED
  BY <1>1 DEF TypeOK, ToRemove, ToPut

(* The step of one request changes only its own unit and its own stage. *)
LEMMA UnitStep ==
  ASSUME TypeOK, TypeOK', NEW w \in Writer, \A v \in Writer \ {w} : Untouched(v)
  PROVE  Store!NewUnit(w) /\ Stage' = [Stage EXCEPT ![w] = Stage'[w]]
<1>1. ASSUME NEW v \in Writer \ {w}
      PROVE  Stage'[v] = Stage[v] /\ ToRemove'[v] = ToRemove[v] /\ ToPut'[v] = ToPut[v]
  <2>1. /\ pc'[v] = pc[v] /\ tx'[v] = tx[v]
        /\ deleteIds'[v] = deleteIds[v] /\ batchInserts'[v] = batchInserts[v]
    BY DEF Untouched
  <2> QED
    BY <2>1 DEF Stage, ToRemove, ToPut, RowToPut, Ended
<1>2. Stage' = [Stage EXCEPT ![w] = Stage'[w]]
  BY <1>1 DEF Stage
<1>3. ToRemove' = [ToRemove EXCEPT ![w] = ToRemove'[w]]
  BY <1>1 DEF ToRemove
<1>4. ToPut' = [ToPut EXCEPT ![w] = ToPut'[w]]
  BY <1>1 DEF ToPut
<1> QED
  BY UnitType, <1>2, <1>3, <1>4 DEF Store!NewUnit

(* A step that leaves the table alone is one that collects or ends. *)
LEMMA QuietStep ==
  ASSUME NEW w \in Writer, Store!NewUnit(w), Stage' = [Stage EXCEPT ![w] = Stage'[w]],
         table' = table,
         Stage'[w] = "ended" \/ (Stage[w] = "open" /\ Stage'[w] = "open")
  PROVE  Store!Next
<1>1. StoredContent' = StoredContent
  BY DEF StoredContent
<1>2. CASE Stage'[w] = "ended"
  BY <1>1, <1>2 DEF Store!Next, Store!End
<1>3. CASE Stage[w] = "open" /\ Stage'[w] = "open"
  <2>1. Stage' = Stage
    BY <1>3 DEF Stage
  <2> QED
    BY <1>1, <1>3, <2>1 DEF Store!Next, Store!Collect
<1> QED
  BY <1>2, <1>3

(* The two texts of a flush, seen from the table. *)
LEMMA DeleteClears ==
  ASSUME NEW w \in Writer, DeleteText(w)
  PROVE  /\ Stage[w] = "open"
         /\ StoredContent' = [i \in Id |-> IF i \in ToRemove[w] THEN Absent ELSE StoredContent[i]]
<1>1. ~Ended(w) /\ pc[w] = "delete"
  BY DEF DeleteText, Ended
<1>2. table' = [i \in Id |-> IF i \in ToRemove[w] THEN Absent ELSE table[i]]
  BY <1>1 DEF DeleteText, WithoutDeleted, ToRemove
<1> QED
  BY <1>1, <1>2 DEF StoredContent, Stage

LEMMA InsertFills ==
  ASSUME TypeOK, LockInv, NEW w \in Writer, InsertText(w)
  PROVE  /\ Stage[w] = "cleared"
         /\ \A i \in Id : ToPut[w][i] # Absent => StoredContent[i] = Absent
         /\ StoredContent' = [i \in Id |-> IF ToPut[w][i] # Absent THEN ToPut[w][i]
                                           ELSE StoredContent[i]]
<1>1. ~Ended(w) /\ pc[w] = "insert"
  BY DEF InsertText, Ended
<1>2. ASSUME NEW i \in Id
      PROVE  /\ ToPut[w][i] # Absent <=> i \in InsertIds(w)
             /\ i \in InsertIds(w) =>
                  ToPut[w][i] = [writer |-> w, entity |-> batchInserts[w][i]]
  <2>1. CASE batchInserts[w][i] = Absent
    BY <1>1, <2>1 DEF ToPut, RowToPut, InsertIds
  <2>2. CASE batchInserts[w][i] # Absent
    <3>1. [writer |-> w, entity |-> batchInserts[w][i]] \in Content
      BY <2>2 DEF TypeOK, Content
    <3> QED
      BY <1>1, <2>2, <3>1, ContentAssumption DEF ToPut, RowToPut, InsertIds
  <2> QED
    BY <2>1, <2>2
<1>3. \A i \in InsertIds(w) : i \in Id /\ table[i] = Absent
  BY DEF InsertText, InsertIds, LockInv, LocksFor
<1>4. ASSUME NEW i \in Id
      PROVE  StoredContent'[i] = IF ToPut[w][i] # Absent THEN ToPut[w][i] ELSE StoredContent[i]
  <2>1. CASE i \in InsertIds(w)
    <3> DEFINE row == [writer |-> w, entity |-> batchInserts[w][i], since |-> stamps[w][i]]
    <3>1. table'[i] = row
      BY <2>1 DEF InsertText
    <3>2. row \in Row
      BY <2>1 DEF TypeOK, InsertIds, Row
    <3>3. row # Absent
      BY <3>2, AbsentAssumption
    <3> QED
      BY <1>2, <2>1, <3>1, <3>3 DEF StoredContent
  <2>2. CASE i \notin InsertIds(w)
    <3>1. table'[i] = table[i]
      BY <2>2 DEF InsertText
    <3> QED
      BY <1>2, <2>2, <3>1 DEF StoredContent
  <2> QED
    BY <2>1, <2>2
<1> QED
  BY <1>1, <1>2, <1>3, <1>4 DEF StoredContent, Stage

(* Every step of a request maps to a step of FlushStore or to none. *)
LEMMA StepMaps ==
  ASSUME TypeOK, TypeOK', LockInv, NEW w \in Writer, WriterStep(w)
  PROVE  [Store!Next]_(Store!vars)
<1>1. Store!NewUnit(w) /\ Stage' = [Stage EXCEPT ![w] = Stage'[w]]
  BY Frame, UnitStep
<1>2. CASE \/ Incremental(w) \/ IncrementalFails(w) \/ FullSync(w) \/ WriteUnmappable(w)
           \/ Close(w) \/ Abandon(w) \/ FlushRefused(w)
           \/ CloseCommit(w) \/ CloseCommitFails(w)
           \/ \E i \in Id, r \in Recorded, d \in BOOLEAN : Write(w, i, r, d)
  <2>1. table' = table
    BY <1>2 DEF Incremental, IncrementalFails, FullSync, WriteUnmappable, Close, Abandon,
                FlushRefused, CloseCommit, CloseCommitFails, Write
  <2>2. Stage'[w] = "ended" \/ (Stage[w] = "open" /\ Stage'[w] = "open")
    <3>1. CASE Incremental(w)
      BY <3>1 DEF TypeOK, LockInv, LocksFor, Incremental, Stage, Ended
    <3>2. CASE IncrementalFails(w) \/ FullSync(w) \/ WriteUnmappable(w) \/ Close(w) \/ Abandon(w)
      BY <3>2 DEF TypeOK, IncrementalFails, FullSync, WriteUnmappable, Close, Abandon,
                  Stage, Ended
    <3>3. CASE FlushRefused(w) \/ CloseCommit(w) \/ CloseCommitFails(w)
      BY <3>3 DEF TypeOK, FlushRefused, FlushError, RolledBack, CloseCommit,
                  CloseCommitFails, Stage, Ended
    <3>4. ASSUME NEW i \in Id, NEW r \in Recorded, NEW d \in BOOLEAN, Write(w, i, r, d)
          PROVE  Stage'[w] = "ended" \/ (Stage[w] = "open" /\ Stage'[w] = "open")
      <4>1. pc[w] = "ready" /\ pc'[w] \in {"ready", "delete"} /\ tx' = tx
        BY <3>4 DEF TypeOK, Write
      <4> QED
        BY <4>1 DEF Stage, Ended
    <3> QED
      BY <1>2, <3>1, <3>2, <3>3, <3>4
  <2> QED
    BY <1>1, <2>1, <2>2, QuietStep
<1>3. CASE FlushDelete(w)
  <2>1. /\ Stage[w] = "open"
        /\ StoredContent' = [i \in Id |-> IF i \in ToRemove[w] THEN Absent ELSE StoredContent[i]]
    BY <1>3, DeleteClears DEF FlushDelete
  <2>2. tx' = tx /\ tx[w] = "open" /\ ~Ended(w)
    BY <1>3 DEF FlushDelete, DeleteText, Ended
  <2>3. CASE InsertIds(w) = {} /\ FlushOk(w)
    <3>1. ToPut[w] = Store!NoRows
      BY <2>3 DEF ToPut, RowToPut, InsertIds, Store!NoRows
    <3>2. pc'[w] \in {"ready", "commit"}
      BY <2>3 DEF TypeOK, FlushOk
    <3>3. Stage' = Stage
      BY <1>1, <2>1, <2>2, <3>2 DEF Stage, Ended
    <3> QED
      BY <1>1, <2>1, <3>1, <3>3 DEF Store!Next, Store!Clear
  <2>4. CASE pc' = [pc EXCEPT ![w] = "insert"] /\ UNCHANGED <<batchVars, reported>>
    <3>1. Stage'[w] = "cleared"
      BY <2>2, <2>4 DEF TypeOK, Stage, Ended
    <3>2. pc'[w] = "insert" /\ deleteIds' = deleteIds /\ batchInserts' = batchInserts
      BY <2>4 DEF TypeOK, batchVars
    <3>3. ~Ended(w)'
      BY <2>2, <3>2 DEF Ended
    <3>4. ToRemove'[w] = ToRemove[w]
      BY <2>2, <3>2, <3>3 DEF ToRemove
    <3>5. ToPut'[w] = ToPut[w]
      BY <2>2, <3>2, <3>3 DEF ToPut, RowToPut
    <3>6. ToRemove' = ToRemove /\ ToPut' = ToPut
      BY <1>1, <3>4, <3>5 DEF Store!NewUnit, ToRemove, ToPut
    <3> QED
      BY <1>1, <2>1, <3>1, <3>6 DEF Store!Next, Store!Clear
  <2> QED
    BY <1>3, <2>3, <2>4 DEF FlushDelete
<1>4. ASSUME NEW i \in Id, InsertRow(w, i)
      PROVE  UNCHANGED Store!vars
  <2>1. UNCHANGED <<table, pc, tx, batchInserts, deleteIds>>
    BY <1>4 DEF InsertRow, batchVars
  <2> QED
    BY <2>1 DEF Store!vars, StoredContent, Stage, ToRemove, ToPut, RowToPut, Ended
<1>5. CASE FlushInsert(w)
  <2>1. /\ Stage[w] = "cleared"
        /\ \A i \in Id : ToPut[w][i] # Absent => StoredContent[i] = Absent
        /\ StoredContent' = [i \in Id |-> IF ToPut[w][i] # Absent THEN ToPut[w][i]
                                          ELSE StoredContent[i]]
    BY <1>5, InsertFills DEF FlushInsert
  <2>2. tx' = tx /\ tx[w] = "open" /\ pc'[w] \in {"ready", "commit"}
    BY <1>5 DEF TypeOK, FlushInsert, InsertText, FlushOk
  <2>3. Stage'[w] = "open"
    BY <2>2 DEF Stage, Ended
  <2> QED
    BY <1>1, <2>1, <2>3 DEF Store!Next, Store!Fill
<1>6. CASE FlushInterrupted(w)
  <2>1. tx'[w] = "done"
    BY <1>6 DEF TypeOK, FlushInterrupted, FlushError, RolledBack
  <2>2. Stage'[w] = "ended"
    BY <2>1 DEF Stage, Ended
  <2>3. CASE table' = table
    BY <1>1, <2>2, <2>3, QuietStep
  <2>4. CASE DeleteText(w)
    BY <1>1, <2>2, <2>4, DeleteClears DEF Store!Next, Store!Clear
  <2>5. CASE InsertText(w)
    BY <1>1, <2>2, <2>5, InsertFills DEF Store!Next, Store!Fill
  <2> QED
    BY <1>6, <2>3, <2>4, <2>5 DEF FlushInterrupted
<1> QED
  BY <1>2, <1>3, <1>4, <1>5, <1>6 DEF WriterStep, FlushStep

(* MysqlWriter implements FlushStore: every flush is an atomic removal of   *)
(* the batch's ids followed by an atomic insertion of all its rows where    *)
(* there are none, and a request that has failed or ended is out of the     *)
(* game (write.go:211-275).                                                 *)
THEOREM FlushStoreImplemented == Spec => ImplementsFlushStore
<1>1. TypeOK /\ LockInv /\ TypeOK' /\ [Next]_vars => [Store!Next]_(Store!vars)
  <2> SUFFICES ASSUME TypeOK, LockInv, TypeOK', [Next]_vars
               PROVE  [Store!Next]_(Store!vars)
    OBVIOUS
  <2>1. CASE UNCHANGED vars
    BY <2>1 DEF vars, Store!vars, StoredContent, Stage, ToRemove, ToPut, RowToPut, Ended
  <2>2. CASE Next
    BY <2>2, StepMaps DEF Next
  <2> QED
    BY <2>1, <2>2
<1> QED
  BY InitMaps, LockInvReached, <1>1, PTL DEF Spec, ImplementsFlushStore, Store!Spec
=============================================================================
