---------------------------- MODULE MysqlWriter ----------------------------
(***************************************************************************)
(* The write path of the data layer (src/internal/layer/write.go).         *)
(*                                                                         *)
(* Every POST of a batch of entities gets a MysqlWriter of its own: it     *)
(* begins a transaction (Incremental), buffers the entities it is given    *)
(* (Write), flushes the buffer whenever it holds FlushThreshold entries    *)
(* and once more when the request ends (Close).  A flush sends two texts   *)
(* to the server on the writer's connection:                               *)
(*                                                                         *)
(*    BEGIN; DELETE FROM t WHERE id IN (...); COMMIT;                      *)
(*    BEGIN; INSERT ...; INSERT ...; COMMIT;                               *)
(*                                                                         *)
(* BEGIN ends the transaction the writer began and COMMIT makes the text's *)
(* effect permanent, so the outer transaction only decides whether further *)
(* statements may be sent.  The writers of concurrent requests share the   *)
(* table; the steps below are the points where they can interleave.        *)
(*                                                                         *)
(* External: MySQL (a primary key on the identity column, as the schema of *)
(* common_layer_integration_test.go:66; row locks held from a statement to *)
(* the end of its transaction; NOW() read when a statement starts),        *)
(* database/sql (a finished Tx refuses everything with ErrTxDone) and      *)
(* common-datalayer, which calls Incremental, Write and Close.             *)
(*                                                                         *)
(* A definition introduced as a mutant is a plausible wrong form of the    *)
(* one after it; no action uses it.  Replacing the right form by it must   *)
(* break a property, which shows that the property depends on the code.    *)
(***************************************************************************)
EXTENDS Integers, FiniteSets

CONSTANTS
  Writer,         \* the requests, each with a MysqlWriter of its own
  Id,             \* values of the identity column
  Recorded,       \* values of Entity.Recorded
  FlushThreshold, \* source_config.flush_threshold; zero and less are accepted
  MaxWrites,      \* bound: Write calls per request
  ClockSteps,     \* by how much NOW() may move on between two statements:
                  \* {1} if the since column resolves any two statements,
                  \* {0, 1} if two statements may get the same value
  Absent          \* no row in the table, no entry in the batch

ASSUME RecordedAssumption == Recorded \subseteq Nat
ASSUME ThresholdAssumption == FlushThreshold \in Int
ASSUME MaxWritesAssumption == MaxWrites \in Nat
ASSUME ClockAssumption == ClockSteps \subseteq Nat /\ ClockSteps # {}

(***************************************************************************)
(* An entity as Write sees it.  seq is its position in the request and     *)
(* batch the number of times the buffer was emptied before it: history     *)
(* that no action reads, kept to state the properties.                     *)
(***************************************************************************)
Entity == [id : Id, recorded : Recorded, deleted : BOOLEAN,
           seq : Nat, batch : Nat]

(* A row: the request and the entity it stores, its since column. *)
Row == [writer : Writer, entity : Entity, since : Nat]

ASSUME AbsentAssumption == Absent \notin Entity \cup Row

VARIABLES
  table,        \* the committed rows, by id
  clock,        \* the server's clock, as the since column shows it
  pc,           \* where the request is
  closing,      \* the flush under way was called by Close
  tx,           \* o.tx: none, open, or done (committed or rolled back)
  batchInserts, \* o.batchInserts: id -> the entity to insert
  deleteIds,    \* o.deleteIds
  batchSize,    \* o.batchSize
  stamps,       \* id -> since value of an INSERT not yet committed, 0: none
  reported,     \* what the last call of the request returned
  written,      \* history: number of entities accepted by Write
  batchNo,      \* history: number of times the batch was emptied
  seen,         \* history: the entities accepted by Write
  failed        \* history: a flush of this request failed

batchVars == <<batchInserts, deleteIds, batchSize, batchNo>>
vars == <<table, clock, pc, closing, tx, batchInserts, deleteIds, batchSize,
          stamps, reported, written, batchNo, seen, failed>>

-----------------------------------------------------------------------------

NoInserts == [i \in Id |-> Absent]
NoStamps == [i \in Id |-> 0]

(* The ids with an INSERT in the current batch of w. *)
InsertIds(w) == {i \in Id : batchInserts[w][i] # Absent}

Init ==
  /\ table = [i \in Id |-> Absent]
  /\ clock = 1
  /\ pc = [w \in Writer |-> "idle"]
  /\ closing = [w \in Writer |-> FALSE]
  /\ tx = [w \in Writer |-> "none"]
  /\ batchInserts = [w \in Writer |-> NoInserts]
  /\ deleteIds = [w \in Writer |-> {}]
  /\ batchSize = [w \in Writer |-> 0]
  /\ stamps = [w \in Writer |-> NoStamps]
  /\ reported = [w \in Writer |-> "none"]
  /\ written = [w \in Writer |-> 0]
  /\ batchNo = [w \in Writer |-> 0]
  /\ seen = [w \in Writer |-> {}]
  /\ failed = [w \in Writer |-> FALSE]

-----------------------------------------------------------------------------
(***************************************************************************)
(* The calls of a request.                                                 *)
(***************************************************************************)

(* Incremental: a writer with an empty batch and an open transaction. *)
Incremental(w) ==
  /\ pc[w] = "idle"
  /\ pc' = [pc EXCEPT ![w] = "ready"]
  /\ tx' = [tx EXCEPT ![w] = "open"]
  /\ reported' = [reported EXCEPT ![w] = "ok"]
  /\ UNCHANGED <<table, clock, closing, batchVars, stamps, written, seen, failed>>

(* Incremental refuses: table_name is missing, flush_threshold is not a     *)
(* number, or the transaction cannot be begun.                              *)
IncrementalFails(w) ==
  /\ pc[w] = "idle"
  /\ pc' = [pc EXCEPT ![w] = "gone"]
  /\ reported' = [reported EXCEPT ![w] = "error"]
  /\ UNCHANGED <<table, clock, closing, tx, batchVars, stamps, written, seen, failed>>

(* FullSync is refused: the layer does not support it. *)
FullSync(w) ==
  /\ pc[w] = "idle"
  /\ pc' = [pc EXCEPT ![w] = "gone"]
  /\ reported' = [reported EXCEPT ![w] = "error"]
  /\ UNCHANGED <<table, clock, closing, tx, batchVars, stamps, written, seen, failed>>

(* Does e replace what the batch holds for its id?  Yes if there is nothing *)
(* or if e is not older.                                                    *)
(* (Mutant: an update recorded at the same time does not replace.) *)
DoInsertStrict(e, existing) == existing = Absent \/ e.recorded > existing.recorded
DoInsert(e, existing) == existing = Absent \/ e.recorded >= existing.recorded

(* The ids Write adds to deleteIds: that of every entity, deleted or not. *)
(* (Mutant: only that of deleted entities.) *)
IdsToDeleteTombstones(e) == IF e.deleted THEN {e.id} ELSE {}
IdsToDelete(e) == {e.id}

(* By how much Write advances batchSize. *)
(* (Mutants: deletions are not counted; an older update is counted back.) *)
GrowthOfInserts(e, existing) == IF ~e.deleted /\ DoInsert(e, existing) THEN 1 ELSE 0
GrowthDown(e, existing) == IF e.deleted \/ DoInsert(e, existing) THEN 1 ELSE -1
Growth(e, existing) == IF e.deleted \/ DoInsert(e, existing) THEN 1 ELSE 0

(* Is the batch full?  (Mutant: one entry too late.) *)
MustFlushLate(size) == size > FlushThreshold
MustFlush(size) == size >= FlushThreshold

(* Write of an entity that the mapper accepts.  When the batch is full the  *)
(* call goes on with the steps of flush below.                              *)
Write(w, i, r, d) ==
  LET e == [id |-> i, recorded |-> r, deleted |-> d,
            seq |-> written[w] + 1, batch |-> batchNo[w]]
      existing == batchInserts[w][i]
      size == batchSize[w] + Growth(e, existing)
  IN /\ pc[w] = "ready"
     /\ written[w] < MaxWrites
     /\ deleteIds' = [deleteIds EXCEPT ![w] = @ \cup IdsToDelete(e)]
     /\ batchInserts' = IF ~d /\ DoInsert(e, existing)
                        THEN [batchInserts EXCEPT ![w] = [@ EXCEPT ![i] = e]]
                        ELSE batchInserts
     /\ batchSize' = [batchSize EXCEPT ![w] = size]
     /\ \/ /\ MustFlush(size)
           /\ pc' = [pc EXCEPT ![w] = "delete"]
           /\ UNCHANGED reported
        \/ /\ ~MustFlush(size)
           /\ reported' = [reported EXCEPT ![w] = "ok"]
           /\ UNCHANGED pc
     /\ written' = [written EXCEPT ![w] = @ + 1]
     /\ seen' = [seen EXCEPT ![w] = @ \cup {e}]
     /\ UNCHANGED <<table, clock, closing, tx, stamps, batchNo, failed>>

(* Write of an entity that the mapper refuses. *)
WriteUnmappable(w) ==
  /\ pc[w] = "ready"
  /\ reported' = [reported EXCEPT ![w] = "error"]
  /\ UNCHANGED <<table, clock, pc, closing, tx, batchVars, stamps, written, seen, failed>>

(* Close: flush what is left, if anything, then commit. *)
Close(w) ==
  /\ pc[w] = "ready"
  /\ closing' = [closing EXCEPT ![w] = TRUE]
  /\ pc' = [pc EXCEPT ![w] = IF batchSize[w] = 0 THEN "commit" ELSE "delete"]
  /\ UNCHANGED <<table, clock, tx, batchVars, stamps, reported, written, seen, failed>>

(* The request ends without Close: its body does not parse to the end, or   *)
(* the service gives up after an error.  Nobody ends the transaction.       *)
Abandon(w) ==
  /\ pc[w] = "ready"
  /\ pc' = [pc EXCEPT ![w] = "gone"]
  /\ UNCHANGED <<table, clock, closing, tx, batchVars, stamps, reported, written, seen,
                 failed>>

-----------------------------------------------------------------------------
(***************************************************************************)
(* The two texts of flush, and how flush returns.                          *)
(***************************************************************************)

(* flush returned nil: Close goes on to commit, Write empties the batch. *)
FlushOk(w) ==
  \/ /\ closing[w]
     /\ pc' = [pc EXCEPT ![w] = "commit"]
     /\ UNCHANGED <<batchVars, reported>>
  \/ /\ ~closing[w]
     /\ pc' = [pc EXCEPT ![w] = "ready"]
     /\ reported' = [reported EXCEPT ![w] = "ok"]
     /\ batchInserts' = [batchInserts EXCEPT ![w] = NoInserts]
     /\ deleteIds' = [deleteIds EXCEPT ![w] = {}]
     /\ batchSize' = [batchSize EXCEPT ![w] = 0]
     /\ batchNo' = [batchNo EXCEPT ![w] = @ + 1]

(* flush returned an error: the transaction was rolled back, the batch is   *)
(* kept, and Write or Close pass the error on.                              *)
(* (Mutant: the transaction is left open.) *)
NotRolledBack(w) ==
  /\ stamps' = [stamps EXCEPT ![w] = NoStamps]
  /\ UNCHANGED tx

RolledBack(w) ==
  /\ tx' = [tx EXCEPT ![w] = "done"]
  /\ stamps' = [stamps EXCEPT ![w] = NoStamps]

(* (Mutant: flush tries its current text again instead of returning.) *)
FlushRetries(w) ==
  /\ stamps' = [stamps EXCEPT ![w] = NoStamps]
  /\ UNCHANGED <<pc, tx, reported, failed, batchVars, closing, written, seen>>

FlushError(w) ==
  /\ RolledBack(w)
  /\ reported' = [reported EXCEPT ![w] = "error"]
  /\ failed' = [failed EXCEPT ![w] = TRUE]
  /\ pc' = [pc EXCEPT ![w] = IF closing[w] THEN "gone" ELSE "ready"]
  /\ UNCHANGED <<batchVars, closing, written, seen>>

(* Is a row that w is about to touch locked by the uncommitted INSERT of    *)
(* another request?                                                         *)
Touches(w) == IF pc[w] = "delete" THEN deleteIds[w]
              ELSE {i \in InsertIds(w) : stamps[w][i] = 0}
Blocked(w) == \E v \in Writer \ {w} : \E i \in Touches(w) : stamps[v][i] # 0

(* The rows after BEGIN; DELETE ...; COMMIT. *)
(* (Mutant: the text names only the ids that are inserted again.) *)
WithoutReplaced(w) == [i \in Id |-> IF i \in InsertIds(w) THEN Absent ELSE table[i]]
WithoutDeleted(w) == [i \in Id |-> IF i \in deleteIds[w] THEN Absent ELSE table[i]]

DeleteText(w) ==
  /\ pc[w] = "delete" /\ tx[w] = "open" /\ ~Blocked(w)
  /\ table' = WithoutDeleted(w)
  /\ UNCHANGED clock

(* The first text is executed; flush stops here if there is nothing to insert. *)
FlushDelete(w) ==
  /\ DeleteText(w)
  /\ \/ /\ InsertIds(w) = {}
        /\ FlushOk(w)
     \/ /\ InsertIds(w) # {}
        /\ pc' = [pc EXCEPT ![w] = "insert"]
        /\ UNCHANGED <<batchVars, reported>>
  /\ UNCHANGED <<closing, tx, stamps, written, seen, failed>>

(* One INSERT of the second text, in the order of a map iteration, that is  *)
(* in any order.  It reads NOW() and takes the row's lock.                  *)
InsertRow(w, i) ==
  /\ pc[w] = "insert" /\ tx[w] = "open"
  /\ i \in InsertIds(w) /\ stamps[w][i] = 0
  /\ table[i] = Absent
  /\ \A v \in Writer : stamps[v][i] = 0
  /\ \E d \in ClockSteps : clock' = clock + d
  /\ stamps' = [stamps EXCEPT ![w] = [@ EXCEPT ![i] = clock']]
  /\ UNCHANGED <<table, pc, closing, tx, batchVars, reported, written, seen, failed>>

(* The COMMIT of the second text. *)
InsertText(w) ==
  /\ pc[w] = "insert" /\ tx[w] = "open"
  /\ \A i \in InsertIds(w) : stamps[w][i] # 0
  /\ table' = [i \in Id |->
                IF i \in InsertIds(w)
                THEN [writer |-> w, entity |-> batchInserts[w][i], since |-> stamps[w][i]]
                ELSE table[i]]
  /\ UNCHANGED clock

FlushInsert(w) ==
  /\ InsertText(w)
  /\ stamps' = [stamps EXCEPT ![w] = NoStamps]
  /\ FlushOk(w)
  /\ UNCHANGED <<closing, tx, written, seen, failed>>

(* The server or database/sql refuses: the transaction is over, the id is   *)
(* already in the table (primary key), or the wait for a lock is cut short  *)
(* by deadlock detection or by the lock wait timeout.                       *)
Refused(w) ==
  \/ tx[w] # "open"
  \/ Blocked(w)
  \/ pc[w] = "insert" /\ \E i \in Touches(w) : table[i] # Absent

FlushRefused(w) ==
  /\ pc[w] \in {"delete", "insert"}
  /\ Refused(w)
  /\ FlushError(w)
  /\ UNCHANGED <<table, clock>>

(* The connection is lost or the request's context is cancelled, before     *)
(* the server has committed the text or after it.                           *)
FlushInterrupted(w) ==
  /\ pc[w] \in {"delete", "insert"}
  /\ tx[w] = "open"
  /\ \/ UNCHANGED <<table, clock>>
     \/ DeleteText(w)
     \/ InsertText(w)
  /\ FlushError(w)

(* tx.Commit at the end of Close: there is nothing left to commit. *)
CloseCommit(w) ==
  /\ pc[w] = "commit"
  /\ tx[w] = "open"
  /\ tx' = [tx EXCEPT ![w] = "done"]
  /\ pc' = [pc EXCEPT ![w] = "closed"]
  /\ reported' = [reported EXCEPT ![w] = "ok"]
  /\ UNCHANGED <<table, clock, closing, batchVars, stamps, written, seen, failed>>

(* tx.Commit fails: the connection is lost or the transaction is over. *)
CloseCommitFails(w) ==
  /\ pc[w] = "commit"
  /\ tx' = [tx EXCEPT ![w] = "done"]
  /\ pc' = [pc EXCEPT ![w] = "gone"]
  /\ reported' = [reported EXCEPT ![w] = "error"]
  /\ UNCHANGED <<table, clock, closing, batchVars, stamps, written, seen, failed>>

-----------------------------------------------------------------------------

(* What the server and database/sql do on their own once a flush is under   *)
(* way: each text is executed or refused.                                   *)
FlushStep(w) ==
  \/ FlushDelete(w)
  \/ \E i \in Id : InsertRow(w, i)
  \/ FlushInsert(w)
  \/ FlushRefused(w)
  \/ CloseCommit(w)

WriterStep(w) ==
  \/ Incremental(w)
  \/ IncrementalFails(w)
  \/ FullSync(w)
  \/ \E i \in Id, r \in Recorded, d \in BOOLEAN : Write(w, i, r, d)
  \/ WriteUnmappable(w)
  \/ Close(w)
  \/ Abandon(w)
  \/ FlushStep(w)
  \/ FlushInterrupted(w)
  \/ CloseCommitFails(w)

Next == \E w \in Writer : WriterStep(w)

Spec == Init /\ [][Next]_vars

(* A text that was sent is eventually answered: a lock wait ends with the   *)
(* lock, with deadlock detection or with innodb_lock_wait_timeout.  Nothing *)
(* obliges a client to go on calling.                                       *)
FairSpec == Spec /\ \A w \in Writer : WF_vars(FlushStep(w))

-----------------------------------------------------------------------------
(***************************************************************************)
(* Properties.                                                             *)
(***************************************************************************)

(* The values the variables range over. *)
TypeOK ==
  /\ table \in [Id -> Row \cup {Absent}]
  /\ clock \in Nat \ {0}
  /\ pc \in [Writer -> {"idle", "ready", "delete", "insert", "commit", "closed", "gone"}]
  /\ closing \in [Writer -> BOOLEAN]
  /\ tx \in [Writer -> {"none", "open", "done"}]
  /\ batchInserts \in [Writer -> [Id -> Entity \cup {Absent}]]
  /\ deleteIds \in [Writer -> SUBSET Id]
  /\ batchSize \in [Writer -> Nat]
  /\ stamps \in [Writer -> [Id -> Nat]]
  /\ reported \in [Writer -> {"none", "ok", "error"}]
  /\ written \in [Writer -> Nat]
  /\ batchNo \in [Writer -> Nat]
  /\ seen \in [Writer -> SUBSET Entity]
  /\ failed \in [Writer -> BOOLEAN]

(* The entities for id i that the request w wrote in its batch b. *)
Mentions(w, i, b) == {e \in seen[w] : e.id = i /\ e.batch = b}
Updates(w, i, b) == {e \in Mentions(w, i, b) : ~e.deleted}

(* e is the latest of S: nothing in S was recorded later, and among those   *)
(* recorded at the same time it was written last.                           *)
IsLatest(e, S) ==
  /\ e \in S
  /\ \A f \in S : \/ f.recorded < e.recorded
                  \/ f.recorded = e.recorded /\ f.seq =< e.seq

(* Whatever the order in which versions of an entity arrive in a batch, the *)
(* batch inserts the latest one (write.go:125, "already in batch, check     *)
(* which one is newer").                                                    *)
BatchInsertsLatest ==
  \A w \in Writer, i \in Id :
    IF Updates(w, i, batchNo[w]) = {}
    THEN batchInserts[w][i] = Absent
    ELSE IsLatest(batchInserts[w][i], Updates(w, i, batchNo[w]))

(* The buffer never holds more rows than flush_threshold (or one, if that   *)
(* is less), and fewer between two calls, unless the transaction is gone    *)
(* and every further call is refused anyway.                                *)
Capacity == IF FlushThreshold < 1 THEN 1 ELSE FlushThreshold

BufferBounded ==
  \A w \in Writer :
    tx[w] = "open" => /\ batchSize[w] =< Capacity
                      /\ pc[w] = "ready" => batchSize[w] < Capacity

(* The row of id i is what the batch b of request w asks for. *)
HoldsBatch(w, i, b) ==
  IF Updates(w, i, b) = {}
  THEN table[i] = Absent
  ELSE /\ table[i] # Absent
       /\ table[i].writer = w
       /\ IsLatest(table[i].entity, Updates(w, i, b))

(* The batch b of w is the last of its batches with the id i that flush has *)
(* reported as written.                                                     *)
LastFlushed(w, i, b) ==
  /\ Mentions(w, i, b) # {}
  /\ b < batchNo[w] \/ pc[w] = "closed"
  /\ \A e \in seen[w] : e.id = i /\ e.batch > b => e.batch = batchNo[w] /\ pc[w] # "closed"

(* A flush of w with the id i is under way, or has failed. *)
InDoubt(w, i) ==
  /\ i \in deleteIds[w]
  /\ pc[w] # "closed"
  /\ pc[w] # "ready" \/ failed[w]

(* As long as no flush with the id i is in doubt, the row of i is what the  *)
(* last batch that one of the requests has flushed asks for: the latest     *)
(* update of that batch, or no row if the batch only deletes i (or if no    *)
(* batch has been flushed).  Nothing that was acknowledged is dropped, two  *)
(* requests are never mixed, and a flush that fails or is abandoned does    *)
(* not touch the rows of other ids.                                         *)
AckedIsStored ==
  \A i \in Id :
    (\A w \in Writer : ~InDoubt(w, i))
      => LET last == {p \in Writer \X (0 .. MaxWrites) : LastFlushed(p[1], i, p[2])}
         IN IF last = {} THEN table[i] = Absent
            ELSE \E p \in last : HoldsBatch(p[1], i, p[2])

(* Once a flush of a request has failed no later call of it returns         *)
(* success: the batch that was rolled back is never reported as written.    *)
FailureSticks ==
  \A w \in Writer : failed[w] => reported[w] = "error" /\ pc[w] # "closed"

(* An INSERT meets an existing row only if another request put it there     *)
(* after this one's DELETE: a request alone never fails on the primary key. *)
DuplicateKeyOnlyByRace ==
  \A w \in Writer, i \in Id :
    pc[w] = "insert" /\ i \in InsertIds(w) /\ table[i] # Absent
      => table[i].writer # w

(* Every flush ends: the request that is waiting for it gets an answer. *)
FlushTerminates ==
  \A w \in Writer :
    pc[w] \in {"delete", "insert", "commit"} ~> pc[w] \in {"ready", "closed", "gone"}

-----------------------------------------------------------------------------
(***************************************************************************)
(* What a test says and the code does not do.                              *)
(***************************************************************************)

(* "Should delete entities where deleted flag is true": when the latest     *)
(* version of an entity in a request is a deletion, its row is gone once    *)
(* the request has succeeded.                                               *)
DeletedIsGone ==
  \A w \in Writer, i \in Id :
    pc[w] = "closed" /\ (\A v \in Writer \ {w} : \A e \in seen[v] : e.id # i)
      => \A e \in seen[w] :
           e.deleted /\ IsLatest(e, {f \in seen[w] : f.id = i}) => table[i] = Absent
=============================================================================
