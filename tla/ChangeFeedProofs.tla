-------------------------- MODULE ChangeFeedProofs --------------------------
(***************************************************************************)
(* Theorems about the read path beside the writers, for any number of      *)
(* requests, consumers, ids and reads, any limits and any dataset.         *)
(***************************************************************************)
EXTENDS ChangeFeed, MysqlWriterProofs, WellFoundedInduction

-----------------------------------------------------------------------------
(***************************************************************************)
(* SELECT MAX has an answer: the set of since values is bounded by the     *)
(* clock, whether there are finitely many ids or not.                      *)
(***************************************************************************)

LEMMA NatMin ==
  ASSUME NEW T \in SUBSET Nat, T # {} PROVE \E x \in T : \A y \in T : x =< y
<1>1. PICK x \in T : \A y \in T : <<y, x>> \notin OpToRel(<, Nat)
  BY NatLessThanWellFounded, WFMin
<1>2. ASSUME NEW y \in T PROVE x =< y
  <2>1. x \in Nat /\ y \in Nat
    OBVIOUS
  <2>2. CASE y < x
    <3>1. <<y, x>> \in OpToRel(<, Nat)
      BY <2>1, <2>2 DEF OpToRel
    <3> QED BY <1>1, <3>1
  <2> QED BY <2>1, <2>2
<1> QED BY <1>2

LEMMA MaxOfBounded ==
  ASSUME NEW S \in SUBSET Nat, NEW b \in Nat, S # {}, \A s \in S : s =< b
  PROVE  \E x \in S : \A y \in S : y =< x
<1> DEFINE T == {b - s : s \in S}
<1>1. T \subseteq Nat
  <2>1. ASSUME NEW s \in S PROVE b - s \in Nat
    <3>1. s \in Nat /\ s =< b
      OBVIOUS
    <3> QED BY <3>1
  <2> QED BY <2>1
<1>2. T # {}
  OBVIOUS
<1>3. PICK x \in T : \A y \in T : x =< y
  <2> HIDE DEF T
  <2> QED BY <1>1, <1>2, NatMin
<1>4. PICK s \in S : x = b - s
  OBVIOUS
<1>5. ASSUME NEW y \in S PROVE y =< s
  <2>1. b - y \in T /\ y \in Nat /\ s \in Nat
    OBVIOUS
  <2>2. x =< b - y
    BY <1>3, <2>1
  <2> QED BY <1>4, <2>1, <2>2
<1> QED BY <1>5

-----------------------------------------------------------------------------
(***************************************************************************)
(* The rows.  A row is stored once: when its batch is committed, the batch *)
(* is emptied or its transaction is about to end, so the same row does not *)
(* come back when it has been deleted.                                     *)
(***************************************************************************)

(* The batch of the row has been committed, or never will be. *)
Spent(x) ==
  \/ tx[x.writer] = "done"
  \/ x.entity.batch < batchNo[x.writer]
  \/ pc[x.writer] = "commit"

RowsInv ==
  /\ \A i \in Id : table[i] # Absent =>
       Spent(table[i]) /\ table[i].since \in 1 .. clock
  /\ \A w \in Writer, i \in Id : stamps[w][i] =< clock
  /\ \A w \in Writer : pc[w] = "idle" => tx[w] = "none"

LEMMA RowsInit == Init => RowsInv
BY DEF Init, RowsInv, NoStamps

LEMMA SpentStays ==
  ASSUME TypeOK, RowsInv, [Next]_vars, NEW x \in Row, Spent(x)
  PROVE  Spent(x)'
<1> DEFINE w == x.writer
<1>1. w \in Writer /\ x.entity.batch \in Nat /\ batchNo[w] \in Nat
  BY DEF Row, Entity, TypeOK
<1>2. CASE UNCHANGED vars
  BY <1>2 DEF vars, Spent
<1>3. ASSUME NEW v \in Writer, WriterStep(v), v # w PROVE Spent(x)'
  BY <1>1, <1>3, Frame DEF Untouched, Spent
<1>4. ASSUME WriterStep(w) PROVE Spent(x)'
  <2>1. CASE Incremental(w)
    BY <1>1, <2>1 DEF Incremental, Spent, RowsInv, TypeOK, batchVars
  <2>2. CASE IncrementalFails(w) \/ FullSync(w) \/ WriteUnmappable(w) \/ Close(w) \/ Abandon(w)
    BY <1>1, <2>2 DEF IncrementalFails, FullSync, WriteUnmappable, Close, Abandon, Spent, TypeOK,
                      batchVars
  <2>3. ASSUME NEW i \in Id, NEW r \in Recorded, NEW d \in BOOLEAN, Write(w, i, r, d)
        PROVE  Spent(x)'
    BY <1>1, <2>3 DEF Write, Spent, TypeOK
  <2>4. CASE FlushDelete(w) \/ FlushInsert(w)
    <3>1. tx' = tx /\ pc[w] # "commit"
      BY <2>4 DEF FlushDelete, FlushInsert, DeleteText, InsertText
    <3>2. batchNo'[w] \in {batchNo[w], batchNo[w] + 1}
      BY <1>1, <2>4 DEF FlushDelete, FlushInsert, FlushOk, batchVars, TypeOK
    <3> QED BY <1>1, <3>1, <3>2 DEF Spent
  <2>5. ASSUME NEW i \in Id, InsertRow(w, i) PROVE Spent(x)'
    BY <2>5 DEF InsertRow, Spent, batchVars
  <2>6. CASE FlushRefused(w) \/ FlushInterrupted(w) \/ CloseCommit(w) \/ CloseCommitFails(w)
    <3>1. tx'[w] = "done"
      BY <1>1, <2>6 DEF FlushRefused, FlushInterrupted, FlushError, RolledBack, CloseCommit,
                        CloseCommitFails, TypeOK
    <3> QED BY <3>1 DEF Spent
  <2> QED BY <1>4, <2>1, <2>2, <2>3, <2>4, <2>5, <2>6 DEF WriterStep, FlushStep
<1> QED BY <1>2, <1>3, <1>4 DEF Next

(* The rows of a text are new when it commits, and spent from then on. *)
LEMMA RowsCommitted ==
  ASSUME TypeOK, BatchInv, RowsInv, NEW w \in Writer, FlushInsert(w) \/ FlushInterrupted(w),
         InsertText(w), NEW i \in InsertIds(w)
  PROVE  /\ table'[i] \in Row /\ ~Spent(table'[i]) /\ Spent(table[i])'
         /\ table'[i].since \in 1 .. clock /\ clock' = clock
<1> DEFINE e == batchInserts[w][i]
<1>1. /\ i \in Id /\ e \in Entity /\ stamps[w][i] \in Nat /\ stamps[w][i] # 0
      /\ clock \in Nat /\ batchNo[w] \in Nat
  BY DEF InsertIds, InsertText, TypeOK
<1>2. e.batch = batchNo[w]
  <2>1. LatestFor(w, i) /\ e # Absent
    BY <1>1 DEF BatchInv, BatchInvFor, InsertIds
  <2>2. e \in Updates(w, i, batchNo[w])
    BY <2>1 DEF LatestFor, IsLatest
  <2> QED BY <2>2 DEF Updates, Mentions
<1>3. table'[i] = [writer |-> w, entity |-> e, since |-> stamps[w][i]] /\ clock' = clock
  BY <1>1 DEF InsertText
<1>4. tx[w] = "open" /\ pc[w] = "insert"
  BY DEF InsertText
<1>5. tx'[w] = "done" \/ pc'[w] = "commit" \/ batchNo'[w] = batchNo[w] + 1
  BY DEF FlushInsert, FlushOk, FlushInterrupted, FlushError, RolledBack, TypeOK
<1>6. stamps[w][i] =< clock
  BY <1>1 DEF RowsInv
<1>7. table'[i] \in Row
  BY <1>1, <1>3 DEF Row
<1>8. table'[i].writer = w /\ table'[i].entity = e /\ table'[i].since = stamps[w][i]
  BY <1>3
<1>9. ~Spent(table'[i])
  BY <1>1, <1>2, <1>4, <1>8 DEF Spent
<1>10. Spent(table[i])'
  BY <1>1, <1>2, <1>5, <1>8 DEF Spent
<1> QED BY <1>1, <1>3, <1>6, <1>7, <1>8, <1>9, <1>10

(* What a step does to one id of the table. *)
LEMMA TableKinds ==
  ASSUME TypeOK, [Next]_vars, NEW i \in Id
  PROVE  \/ table'[i] = table[i] \/ table'[i] = Absent
         \/ \E w \in Writer : /\ FlushInsert(w) \/ FlushInterrupted(w)
                              /\ InsertText(w) /\ i \in InsertIds(w)
<1>1. CASE UNCHANGED vars
  BY <1>1 DEF vars
<1>2. ASSUME NEW w \in Writer, WriterStep(w)
      PROVE  \/ table' = table \/ DeleteText(w)
             \/ (FlushInsert(w) \/ FlushInterrupted(w)) /\ InsertText(w)
  BY <1>2 DEF WriterStep, FlushStep, Incremental, IncrementalFails, FullSync, Write,
         WriteUnmappable, Close, Abandon, FlushDelete, InsertRow, FlushInsert,
         FlushRefused, FlushInterrupted, CloseCommit, CloseCommitFails
<1>3. ASSUME NEW w \in Writer, DeleteText(w)
      PROVE  table'[i] = table[i] \/ table'[i] = Absent
  BY <1>3 DEF DeleteText, WithoutDeleted
<1>4. ASSUME NEW w \in Writer, InsertText(w)
      PROVE  table'[i] = table[i] \/ i \in InsertIds(w)
  BY <1>4 DEF InsertText
<1> QED BY <1>1, <1>2, <1>3, <1>4 DEF Next

LEMMA ClockStep ==
  ASSUME TypeOK, [Next]_vars PROVE clock' \in Nat /\ clock' >= clock
<1>1. CASE clock' = clock
  BY <1>1 DEF TypeOK
<1>2. ASSUME NEW w \in Writer, NEW i \in Id, InsertRow(w, i)
      PROVE  clock' \in Nat /\ clock' >= clock
  BY <1>2, ClockAssumption DEF InsertRow, TypeOK
<1>3. ASSUME NEW w \in Writer, WriterStep(w)
      PROVE  clock' = clock \/ \E i \in Id : InsertRow(w, i)
  BY <1>3 DEF WriterStep, FlushStep, Incremental, IncrementalFails, FullSync, Write,
         WriteUnmappable, Close, Abandon, FlushDelete, DeleteText, FlushInsert, InsertText,
         FlushRefused, FlushInterrupted, CloseCommit, CloseCommitFails
<1> QED BY <1>1, <1>2, <1>3 DEF Next, vars

LEMMA StampsStep ==
  ASSUME TypeOK, RowsInv, [Next]_vars, NEW w \in Writer, NEW i \in Id
  PROVE  stamps'[w][i] =< clock'
<1>t. clock' \in Nat /\ clock' >= clock /\ stamps[w][i] \in Nat /\ stamps[w][i] =< clock
      /\ clock \in Nat
  BY ClockStep DEF TypeOK, RowsInv
<1>1. CASE stamps' = stamps
  BY <1>t, <1>1
<1>2. ASSUME NEW v \in Writer, stamps' = [stamps EXCEPT ![v] = NoStamps]
      PROVE  stamps'[w][i] =< clock'
  BY <1>t, <1>2 DEF TypeOK, NoStamps
<1>3. ASSUME NEW v \in Writer, NEW j \in Id, InsertRow(v, j)
      PROVE  stamps'[w][i] =< clock'
  <2>1. stamps'[w][i] \in {stamps[w][i], clock'}
    BY <1>3 DEF TypeOK, InsertRow
  <2> QED BY <1>t, <2>1
<1>4. ASSUME NEW v \in Writer, WriterStep(v)
      PROVE  \/ stamps' = stamps \/ stamps' = [stamps EXCEPT ![v] = NoStamps]
             \/ \E j \in Id : InsertRow(v, j)
  BY <1>4 DEF WriterStep, FlushStep, Incremental, IncrementalFails, FullSync, Write,
         WriteUnmappable, Close, Abandon, FlushDelete, FlushInsert, FlushError, RolledBack,
         FlushRefused, FlushInterrupted, CloseCommit, CloseCommitFails
<1> QED BY <1>1, <1>2, <1>3, <1>4 DEF Next, vars

LEMMA IdleStep ==
  ASSUME TypeOK, RowsInv, [Next]_vars, NEW w \in Writer, pc'[w] = "idle"
  PROVE  tx'[w] = "none"
<1>1. CASE UNCHANGED vars
  BY <1>1 DEF vars, RowsInv
<1>2. ASSUME NEW v \in Writer, WriterStep(v), v # w PROVE tx'[w] = "none"
  BY <1>2, Frame DEF Untouched, RowsInv
<1>3. ASSUME WriterStep(w) PROVE tx'[w] = "none"
  BY <1>3 DEF TypeOK, RowsInv, WriterStep, FlushStep, Incremental, IncrementalFails, FullSync,
     Write, WriteUnmappable, Close, Abandon, FlushDelete, DeleteText, InsertRow, FlushInsert,
     InsertText, FlushOk, FlushError, FlushRefused, FlushInterrupted, CloseCommit,
     CloseCommitFails
<1> QED BY <1>1, <1>2, <1>3 DEF Next

LEMMA RowsKept ==
  ASSUME TypeOK, BatchInv, RowsInv, [Next]_vars PROVE RowsInv'
<1>1. ASSUME NEW i \in Id, table'[i] # Absent
      PROVE  Spent(table[i])' /\ table'[i].since \in 1 .. clock'
  <2>1. CASE table'[i] = table[i]
    <3>1. table[i] \in Row /\ Spent(table[i]) /\ table[i].since \in 1 .. clock /\ clock \in Nat
      BY <1>1, <2>1 DEF TypeOK, RowsInv
    <3>2. \A x \in Row : x = table[i] => Spent(x)'
      BY <3>1, SpentStays
    <3> QED BY <2>1, <3>1, <3>2, ClockStep DEF Spent
  <2>2. ASSUME NEW w \in Writer, FlushInsert(w) \/ FlushInterrupted(w), InsertText(w),
               i \in InsertIds(w)
        PROVE  Spent(table[i])' /\ table'[i].since \in 1 .. clock'
    <3>1. Spent(table[i])' /\ table'[i].since \in 1 .. clock /\ clock' = clock
      BY <2>2, RowsCommitted
    <3> QED BY <3>1
  <2> QED BY <1>1, <2>1, <2>2, TableKinds
<1> QED BY <1>1, StampsStep, IdleStep DEF RowsInv

LEMMA RowsType ==
  ASSUME TypeOK, RowsInv, NEW x \in Rows
  PROVE  x \in Row /\ Spent(x) /\ x.since \in 1 .. clock /\ clock \in Nat
BY DEF Rows, TypeOK, RowsInv

(* A row that a step puts into the table has never been there. *)
LEMMA RowsArrive ==
  ASSUME TypeOK, BatchInv, RowsInv, [Next]_vars, NEW x \in Rows', x \notin Rows
  PROVE  ~Spent(x)
<1>1. PICK i \in Id : table'[i] # Absent /\ x = table'[i]
  BY DEF Rows
<1>2. table'[i] # table[i]
  BY <1>1 DEF Rows
<1> QED BY <1>1, <1>2, TableKinds, RowsCommitted

LEMMA MaxOfRows ==
  ASSUME TypeOK, RowsInv
  PROVE  MaxOf(Rows) \in Nat /\ \A x \in Rows : x.since =< MaxOf(Rows)
<1> DEFINE S == {x.since : x \in Rows}
<1>1. S \in SUBSET Nat /\ clock \in Nat /\ \A s \in S : s =< clock
  <2>1. \A x \in Rows : x.since \in Nat /\ x.since =< clock
    BY RowsType
  <2> QED BY <2>1 DEF TypeOK
<1>2. CASE Rows = {}
  BY <1>2 DEF MaxOf, ZeroTime
<1>3. CASE Rows # {}
  <2>1. \E t \in S : \A s \in S : s =< t
    <3>1. S # {}
      BY <1>3
    <3> HIDE DEF S
    <3> QED BY <1>1, <3>1, MaxOfBounded
  <2>2. \E t \in S : \A x \in Rows : x.since =< t
    BY <2>1
  <2> DEFINE m == CHOOSE t \in S : \A x \in Rows : x.since =< t
  <2>3. m \in S /\ \A x \in Rows : x.since =< m
    BY <2>2
  <2>4. MaxOf(Rows) = m
    BY <1>3 DEF MaxOf
  <2> QED BY <1>1, <2>3, <2>4
<1> QED BY <1>2, <1>3

-----------------------------------------------------------------------------
(***************************************************************************)
(* The consumers.                                                          *)
(***************************************************************************)

Passed(r, x) == token[r].kind = "base64" /\ x.since =< token[r].time

(* The consumer has the row, a LIMIT has cut it off, or it was not there    *)
(* when a maximum at or above its since value was read.                     *)
Excused(r, x) ==
  \/ x \in delivered[r] \/ x \in cut[r]
  \/ \E s \in snapshots[r] : x.since =< s.max /\ x \notin s.rows

TokenInv(r) ==
  /\ token[r].kind \in {"empty", "base64"}
  /\ token[r].kind = "base64" =>
       dataset.sinceColumn /\ \E s \in snapshots[r] : s.max = token[r].time
  /\ rpc[r] # "idle" => since[r] \in {token[r], GarbageToken}
  /\ rpc[r] # "idle" /\ dataset.sinceColumn => \E s \in snapshots[r] : s.max = maxSince[r]
  /\ rpc[r] # "stream" => rows[r] = {}

(* What the consumer has seen are rows that were committed. *)
SeenInv(r) ==
  /\ \A s \in snapshots[r] : \A x \in s.rows : Spent(x)
  /\ \A x \in rows[r] \cup settled[r] : Spent(x)

(* No settled row is above the token, or can come with the next response.  *)
SettledInv(r) ==
  /\ ~dataset.sinceColumn => settled[r] = {}
  /\ \A x \in settled[r] \cap Rows : Passed(r, x)
  /\ rpc[r] # "idle" => \A x \in settled[r] \cap Rows : x.since =< maxSince[r]
  /\ rows[r] \cap settled[r] = {}
  /\ Bounded(r) => \A x \in rows[r] : x.since =< maxSince[r]

(* Every row the token has passed is excused, and every row the next token  *)
(* will pass is excused or comes with the response.                         *)
LostInv(r) ==
  /\ \A x \in Rows : Passed(r, x) => Excused(r, x)
  /\ rpc[r] = "stream" /\ dataset.sinceColumn =>
       \A x \in Rows : x.since =< maxSince[r] => x \in rows[r] \/ Excused(r, x)

FeedInv == \A r \in Reader : TokenInv(r) /\ SeenInv(r) /\ SettledInv(r) /\ LostInv(r)

WriterSide == TypeOK /\ BatchInv /\ RowsInv

LEMMA FeedInvInit == FeedInit => FeedTypeOK /\ FeedInv
<1> SUFFICES ASSUME FeedInit PROVE FeedTypeOK /\ FeedInv
  OBVIOUS
<1>1. FeedTypeOK
  <2>1. dataset \in Definition
    BY DatasetsAssumption DEF FeedInit
  <2>2. EmptyToken \in Token
    BY DEF EmptyToken, Token
  <2>3. since \in [Reader -> Token] /\ token \in [Reader -> Token]
    BY <2>2 DEF FeedInit
  <2>4. /\ rpc \in [Reader -> {"idle", "query", "stream"}]
        /\ limit \in [Reader -> Nat] /\ maxSince \in [Reader -> Nat]
        /\ reads \in [Reader -> Nat]
    BY DEF FeedInit, ZeroTime
  <2>5. /\ rows \in [Reader -> SUBSET Row] /\ delivered \in [Reader -> SUBSET Row]
        /\ settled \in [Reader -> SUBSET Row] /\ cut \in [Reader -> SUBSET Row]
    BY DEF FeedInit
  <2>6. snapshots \in [Reader -> SUBSET [max : Nat, rows : SUBSET Row]]
    BY DEF FeedInit
  <2> QED BY <2>1, <2>3, <2>4, <2>5, <2>6 DEF FeedTypeOK
<1>2. ASSUME NEW r \in Reader
      PROVE  TokenInv(r) /\ SeenInv(r) /\ SettledInv(r) /\ LostInv(r)
  <2>1. /\ rpc[r] = "idle" /\ token[r] = EmptyToken /\ EmptyToken.kind = "empty"
        /\ rows[r] = {} /\ settled[r] = {} /\ snapshots[r] = {}
    BY DEF FeedInit, EmptyToken
  <2> QED BY <2>1 DEF TokenInv, SeenInv, SettledInv, LostInv, Passed
<1> QED BY <1>1, <1>2 DEF FeedInv

-----------------------------------------------------------------------------

(* A step of a writer: the rows it adds are excused where they are below a  *)
(* token, as no snapshot has them.                                          *)
LEMMA WritersKeep ==
  ASSUME WriterSide, FeedTypeOK, [Next]_vars, UNCHANGED <<dataset, readerVars>>,
         NEW r \in Reader, TokenInv(r), SeenInv(r), SettledInv(r), LostInv(r)
  PROVE  TokenInv(r)' /\ SeenInv(r)' /\ SettledInv(r)' /\ LostInv(r)'
<1>u. UNCHANGED <<dataset, rpc, since, limit, maxSince, rows, token, reads, delivered, settled,
                  cut, snapshots>>
  BY DEF readerVars
<1>i. TypeOK /\ BatchInv /\ RowsInv
  BY DEF WriterSide
<1>1. TokenInv(r)'
  BY <1>u DEF TokenInv
<1>2. SeenInv(r)'
  <2>1. \A x \in Row : Spent(x) => Spent(x)'
    BY <1>i, SpentStays
  <2>2. /\ \A s \in snapshots[r] : \A x \in s.rows : x \in Row /\ Spent(x)
        /\ \A x \in rows[r] \cup settled[r] : x \in Row /\ Spent(x)
    BY DEF SeenInv, FeedTypeOK
  <2> QED BY <1>u, <2>1, <2>2 DEF SeenInv
<1>3. \A x \in Rows' : x \in Rows \/ ~Spent(x)
  BY <1>i, RowsArrive
<1>4. SettledInv(r)'
  <2>1. \A x \in settled[r] \cap Rows' : x \in Rows
    BY <1>3 DEF SeenInv
  <2> QED BY <1>u, <2>1 DEF SettledInv, Passed, Bounded
<1>5. ASSUME NEW x \in Rows', x \notin Rows, NEW s \in snapshots[r], x.since =< s.max
      PROVE  Excused(r, x)
  BY <1>3, <1>5 DEF SeenInv, Excused
<1>6. LostInv(r)'
  <2>1. ASSUME NEW x \in Rows', Passed(r, x) PROVE Excused(r, x)
    BY <1>5, <2>1 DEF LostInv, TokenInv, Passed
  <2>2. ASSUME rpc[r] = "stream", dataset.sinceColumn, NEW x \in Rows', x.since =< maxSince[r]
        PROVE  x \in rows[r] \/ Excused(r, x)
    BY <1>5, <2>2 DEF LostInv, TokenInv
  <2>3. ASSUME NEW x PROVE (Passed(r, x)' <=> Passed(r, x)) /\ (Excused(r, x)' <=> Excused(r, x))
    BY <1>u DEF Passed, Excused
  <2> QED BY <1>u, <2>1, <2>2, <2>3 DEF LostInv
<1> QED BY <1>1, <1>2, <1>4, <1>6

-----------------------------------------------------------------------------
(***************************************************************************)
(* The steps of a request for changes.                                     *)
(***************************************************************************)

(* All of it, for one consumer. *)
Inv(r) == TokenInv(r) /\ SeenInv(r) /\ SettledInv(r) /\ LostInv(r)

LEMMA RowsStill ==
  ASSUME UNCHANGED vars PROVE Rows' = Rows /\ \A x : Spent(x)' <=> Spent(x)
BY DEF vars, Rows, Spent

(* What a request that ends without a token does to what the consumer has. *)
LEMMA EndsWithoutToken ==
  ASSUME FeedTypeOK, NEW r \in Reader, Inv(r), UNCHANGED vars, dataset' = dataset,
         token'[r] = token[r], rpc'[r] = "idle", rows'[r] = {}, settled'[r] = settled[r],
         cut'[r] = cut[r], snapshots'[r] = snapshots[r], delivered[r] \subseteq delivered'[r]
  PROVE  Inv(r)'
<1>1. Rows' = Rows /\ \A x : Spent(x)' <=> Spent(x)
  BY RowsStill
<1>2. TokenInv(r)'
  BY DEF Inv, TokenInv
<1>3. SeenInv(r)'
  BY <1>1 DEF Inv, SeenInv
<1>4. SettledInv(r)'
  BY <1>1 DEF Inv, SettledInv, Passed
<1>5. LostInv(r)'
  BY <1>1 DEF Inv, LostInv, Passed, Excused
<1> QED BY <1>2, <1>3, <1>4, <1>5 DEF Inv

LEMMA ChangesKeeps ==
  ASSUME WriterSide, FeedTypeOK, NEW r \in Reader, Inv(r), NEW s \in {token[r], GarbageToken},
         NEW n \in Limits, Changes(r, s, n)
  PROVE  FeedTypeOK' /\ Inv(r)'
<1> DEFINE max == IF dataset.sinceColumn THEN MaxOf(Rows) ELSE ZeroTime
           shot == [max |-> max, rows |-> Rows]
<1>i. TypeOK /\ RowsInv
  BY DEF WriterSide
<1>1. max \in Nat /\ (dataset.sinceColumn => \A x \in Rows : x.since =< max)
  BY <1>i, MaxOfRows DEF ZeroTime
<1>2. Rows \subseteq Row /\ \A x \in Rows : Spent(x)
  BY <1>i, RowsType
<1>3. shot \in [max : Nat, rows : SUBSET Row] /\ shot.max = max /\ shot.rows = Rows
  BY <1>1, <1>2
<1> HIDE DEF max
<1>4. /\ rpc[r] = "idle"
      /\ reads' = [reads EXCEPT ![r] = @ + 1]
      /\ since' = [since EXCEPT ![r] = s] /\ limit' = [limit EXCEPT ![r] = n]
      /\ maxSince' = [maxSince EXCEPT ![r] = max] /\ rpc' = [rpc EXCEPT ![r] = "query"]
      /\ snapshots' = [snapshots EXCEPT ![r] = snapshots[r] \cup {shot}]
      /\ UNCHANGED <<vars, dataset, rows, token, delivered, settled, cut>>
  BY DEF Changes, max
<1> HIDE DEF shot
<1>5. Rows' = Rows /\ \A x : Spent(x)' <=> Spent(x)
  BY <1>4, RowsStill
<1>6. /\ since'[r] = s /\ maxSince'[r] = max /\ rpc'[r] = "query"
      /\ snapshots'[r] = snapshots[r] \cup {shot}
  BY <1>4 DEF FeedTypeOK
<1>7. FeedTypeOK'
  <2>1. s \in Token /\ n \in Nat
    BY LimitsAssumption DEF FeedTypeOK, GarbageToken, Token
  <2>2. snapshots[r] \cup {shot} \in SUBSET [max : Nat, rows : SUBSET Row]
    BY <1>3 DEF FeedTypeOK
  <2>3. /\ since' \in [Reader -> Token] /\ limit' \in [Reader -> Nat]
        /\ maxSince' \in [Reader -> Nat] /\ reads' \in [Reader -> Nat]
        /\ rpc' \in [Reader -> {"idle", "query", "stream"}]
        /\ snapshots' \in [Reader -> SUBSET [max : Nat, rows : SUBSET Row]]
    BY <1>1, <1>4, <2>1, <2>2 DEF FeedTypeOK
  <2> QED BY <1>4, <2>3 DEF FeedTypeOK
<1>8. TokenInv(r)'
  BY <1>3, <1>4, <1>6 DEF Inv, TokenInv
<1>9. SeenInv(r)'
  BY <1>2, <1>3, <1>4, <1>5, <1>6 DEF Inv, SeenInv
<1>10. SettledInv(r)'
  <2>1. rows[r] = {}
    BY <1>4 DEF Inv, TokenInv
  <2>2. \A x \in settled[r] \cap Rows : x.since =< max
    BY <1>1 DEF Inv, SettledInv
  <2> QED BY <1>4, <1>5, <1>6, <2>1, <2>2 DEF Inv, SettledInv, Passed
<1>11. LostInv(r)'
  BY <1>4, <1>5, <1>6 DEF Inv, LostInv, Passed, Excused
<1> QED BY <1>7, <1>8, <1>9, <1>10, <1>11 DEF Inv

LEMMA LimitedIn == ASSUME NEW S, NEW n, NEW T \in Limited(S, n) PROVE T \subseteq S
BY DEF Limited

LEMMA QueryKeeps ==
  ASSUME WriterSide, FeedTypeOK, NEW r \in Reader, Inv(r), Query(r)
  PROVE  FeedTypeOK' /\ Inv(r)'
<1> DEFINE window == {x \in Rows : InWindow(r, x)}
<1>i. TypeOK /\ RowsInv
  BY DEF WriterSide
<1>r. \A x \in Rows : x \in Row /\ Spent(x) /\ x.since \in Nat /\ x.since > 0
  BY <1>i, RowsType
<1>1. PICK S \in Limited(window, limit[r]) :
         /\ rows' = [rows EXCEPT ![r] = S]
         /\ cut' = [cut EXCEPT ![r] = @ \cup (window \ S)]
  BY DEF Query
<1>2. S \subseteq window
  BY LimitedIn
<1>3. /\ rpc[r] = "query" /\ ~BuildFails(r) /\ rpc' = [rpc EXCEPT ![r] = "stream"]
      /\ UNCHANGED <<vars, dataset, since, limit, maxSince, token, reads, delivered, settled,
                     snapshots>>
  BY DEF Query
<1>4. Rows' = Rows /\ \A x : Spent(x)' <=> Spent(x)
  BY <1>3, RowsStill
<1>5. window \subseteq Rows
  OBVIOUS
<1>6. \A x \in Rows : x \in window <=> InWindow(r, x)
  OBVIOUS
<1> HIDE DEF window
<1>7. /\ rows'[r] = S /\ cut'[r] = cut[r] \cup (window \ S) /\ rpc'[r] = "stream"
  BY <1>1, <1>3 DEF FeedTypeOK
<1>8. FeedTypeOK'
  <2>1. S \in SUBSET Row /\ cut[r] \cup (window \ S) \in SUBSET Row
    BY <1>2, <1>5, <1>r DEF FeedTypeOK
  <2>2. /\ rows' \in [Reader -> SUBSET Row] /\ cut' \in [Reader -> SUBSET Row]
        /\ rpc' \in [Reader -> {"idle", "query", "stream"}]
    BY <1>1, <1>3, <2>1 DEF FeedTypeOK
  <2> QED BY <1>3, <2>2 DEF FeedTypeOK
\* A row that is not above the maximum makes the query a bounded one, and then
\* the token of the request has been decoded.
<1>9. ASSUME NEW x \in Rows, dataset.sinceColumn, x.since =< maxSince[r]
      PROVE  Bounded(r) /\ since[r] = token[r] /\ (x \in window \/ Passed(r, x))
  <2>1. maxSince[r] \in Nat /\ maxSince[r] # 0
    BY <1>9, <1>r DEF FeedTypeOK
  <2>2. Bounded(r)
    BY <1>9, <2>1 DEF Bounded, Valid, ZeroTime
  <2>3. since[r].kind # "garbage" /\ since[r] \in {token[r], GarbageToken}
    BY <1>3, <2>2 DEF BuildFails, Inv, TokenInv
  <2>4. since[r] = token[r]
    BY <2>3 DEF GarbageToken
  <2>5. token[r].time \in Nat /\ x.since \in Nat
    BY <1>r DEF FeedTypeOK, Token
  <2>6. x \in window \/ Passed(r, x)
    BY <1>6, <1>9, <2>2, <2>4, <2>5 DEF InWindow, Passed
  <2> QED BY <2>2, <2>4, <2>6
<1>10. TokenInv(r)'
  BY <1>3, <1>7 DEF Inv, TokenInv
<1>11. SeenInv(r)'
  BY <1>2, <1>3, <1>4, <1>5, <1>7, <1>r DEF Inv, SeenInv
<1>12. SettledInv(r)'
  <2>1. ASSUME NEW x \in S, x \in settled[r] PROVE FALSE
    <3>1. x \in Rows /\ InWindow(r, x)
      BY <1>2, <1>5, <1>6, <2>1
    <3>2. dataset.sinceColumn /\ Passed(r, x) /\ x.since =< maxSince[r]
      BY <1>3, <2>1, <3>1 DEF Inv, SettledInv
    <3>3. Bounded(r) /\ since[r] = token[r]
      BY <1>9, <3>1, <3>2
    <3>4. token[r].time \in Nat /\ x.since \in Nat
      BY <1>r, <3>1 DEF FeedTypeOK, Token
    <3> QED BY <3>1, <3>2, <3>3, <3>4 DEF InWindow, Passed
  <2>2. Bounded(r) => \A x \in S : x.since =< maxSince[r]
    BY <1>2, <1>5, <1>6 DEF InWindow
  <2> QED BY <1>3, <1>4, <1>7, <2>1, <2>2 DEF Inv, SettledInv, Passed, Bounded
<1>13. LostInv(r)'
  <2>1. ASSUME NEW x, Excused(r, x) PROVE Excused(r, x)'
    BY <1>3, <1>7, <2>1 DEF Excused
  <2>2. ASSUME NEW x \in Rows, dataset.sinceColumn, x.since =< maxSince[r]
        PROVE  x \in S \/ Excused(r, x)'
    <3>1. CASE x \in window
      BY <1>7, <3>1 DEF Excused
    <3>2. CASE Passed(r, x)
      BY <2>1, <3>2 DEF Inv, LostInv
    <3> QED BY <1>9, <2>2, <3>1, <3>2
  <2> QED BY <1>3, <1>4, <1>7, <2>1, <2>2 DEF Inv, LostInv, Passed
<1> QED BY <1>8, <1>10, <1>11, <1>12, <1>13 DEF Inv

LEMMA StreamKeeps ==
  ASSUME WriterSide, FeedTypeOK, NEW r \in Reader, Inv(r), Stream(r)
  PROVE  FeedTypeOK' /\ Inv(r)'
<1>i. TypeOK /\ RowsInv
  BY DEF WriterSide
<1>1. /\ rpc[r] = "stream" /\ rpc' = [rpc EXCEPT ![r] = "idle"]
      /\ delivered' = [delivered EXCEPT ![r] = delivered[r] \cup rows[r]]
      /\ settled' = [settled EXCEPT ![r] = IF Bounded(r) THEN settled[r] \cup rows[r]
                                          ELSE settled[r]]
      /\ token' = [token EXCEPT ![r] = NextToken(r)]
      /\ rows' = [rows EXCEPT ![r] = {}]
      /\ UNCHANGED <<vars, dataset, since, limit, maxSince, reads, cut, snapshots>>
  BY DEF Stream
<1>2. Rows' = Rows /\ \A x : Spent(x)' <=> Spent(x)
  BY <1>1, RowsStill
<1>3. /\ rpc'[r] = "idle" /\ rows'[r] = {} /\ delivered'[r] = delivered[r] \cup rows[r]
      /\ settled'[r] = (IF Bounded(r) THEN settled[r] \cup rows[r] ELSE settled[r])
      /\ token'[r] = NextToken(r)
  BY <1>1 DEF FeedTypeOK
<1>4. FeedTypeOK'
  <2>1. NextToken(r) \in Token
    BY DEF FeedTypeOK, NextToken, EncodeToken, EmptyToken, Token
  <2>2. /\ delivered[r] \cup rows[r] \in SUBSET Row /\ settled[r] \in SUBSET Row
        /\ settled[r] \cup rows[r] \in SUBSET Row
    BY DEF FeedTypeOK
  <2>3. /\ delivered' \in [Reader -> SUBSET Row] /\ settled' \in [Reader -> SUBSET Row]
        /\ rows' \in [Reader -> SUBSET Row] /\ token' \in [Reader -> Token]
        /\ rpc' \in [Reader -> {"idle", "query", "stream"}]
    BY <1>1, <2>1, <2>2 DEF FeedTypeOK
  <2> QED BY <1>1, <2>3 DEF FeedTypeOK
<1>5. SeenInv(r)'
  BY <1>1, <1>2, <1>3 DEF Inv, SeenInv
<1>6. CASE ~dataset.sinceColumn
  <2>1. /\ token'[r].kind = "empty" /\ settled'[r] = {} /\ ~Bounded(r)
    BY <1>3, <1>6 DEF NextToken, EmptyToken, Bounded, Inv, SettledInv
  <2>2. TokenInv(r)'
    BY <1>3, <2>1 DEF TokenInv
  <2>3. SettledInv(r)'
    BY <1>3, <2>1 DEF SettledInv
  <2>4. LostInv(r)'
    BY <1>3, <2>1 DEF LostInv, Passed
  <2> QED BY <1>4, <1>5, <2>2, <2>3, <2>4 DEF Inv
<1>7. CASE dataset.sinceColumn
  <2>1. /\ token'[r].kind = "base64" /\ token'[r].time = maxSince[r]
    BY <1>3, <1>7 DEF NextToken, EncodeToken
  <2>2. TokenInv(r)'
    BY <1>1, <1>3, <1>7, <2>1 DEF Inv, TokenInv
  <2>3. SettledInv(r)'
    <3>1. \A x \in settled'[r] \cap Rows : x.since =< maxSince[r]
      BY <1>1, <1>3 DEF Inv, SettledInv
    <3> QED BY <1>1, <1>2, <1>3, <1>7, <2>1, <3>1 DEF SettledInv, Passed
  <2>4. LostInv(r)'
    <3>1. ASSUME NEW x \in Rows, x.since =< maxSince[r] PROVE Excused(r, x)'
      <4>1. x \in rows[r] \/ Excused(r, x)
        BY <1>1, <1>7, <3>1 DEF Inv, LostInv
      <4> QED BY <1>1, <1>3, <4>1 DEF Excused
    <3> QED BY <1>2, <1>3, <2>1, <3>1 DEF LostInv, Passed
  <2> QED BY <1>4, <1>5, <2>2, <2>3, <2>4 DEF Inv
<1> QED BY <1>6, <1>7

LEMMA FailuresKeep ==
  ASSUME FeedTypeOK, NEW r \in Reader, Inv(r), QueryFails(r) \/ StreamBreaks(r)
  PROVE  FeedTypeOK' /\ Inv(r)'
<1>1. /\ rpc' = [rpc EXCEPT ![r] = "idle"] /\ rows' = [rows EXCEPT ![r] = {}]
      /\ UNCHANGED <<vars, dataset, since, limit, maxSince, token, reads, settled, cut,
                     snapshots>>
  BY DEF QueryFails, StreamBreaks, RequestFails
<1>2. PICK S \in SUBSET rows[r] :
         delivered' = delivered \/ delivered' = [delivered EXCEPT ![r] = delivered[r] \cup S]
  BY DEF QueryFails, StreamBreaks
<1>3. FeedTypeOK'
  <2>1. delivered[r] \cup S \in SUBSET Row
    BY DEF FeedTypeOK
  <2>2. /\ delivered' \in [Reader -> SUBSET Row] /\ rows' \in [Reader -> SUBSET Row]
        /\ rpc' \in [Reader -> {"idle", "query", "stream"}]
    BY <1>1, <1>2, <2>1 DEF FeedTypeOK
  <2> QED BY <1>1, <2>2 DEF FeedTypeOK
<1>4. rpc'[r] = "idle" /\ rows'[r] = {} /\ delivered[r] \subseteq delivered'[r]
  BY <1>1, <1>2 DEF FeedTypeOK
<1> QED BY <1>1, <1>3, <1>4, EndsWithoutToken

(* A step of one consumer leaves the state of the others alone. *)
LEMMA OthersKeep ==
  ASSUME FeedTypeOK, NEW r \in Reader, ReaderStep(r), NEW o \in Reader \ {r}, Inv(o)
  PROVE  Inv(o)'
<1>1. UNCHANGED <<vars, dataset>>
  BY DEF ReaderStep, ChangesLatestOnly, Changes, Query, QueryFails, Stream, StreamBreaks,
         RequestFails
<1>2. /\ rpc'[o] = rpc[o] /\ since'[o] = since[o] /\ maxSince'[o] = maxSince[o]
      /\ rows'[o] = rows[o] /\ token'[o] = token[o] /\ delivered'[o] = delivered[o]
      /\ settled'[o] = settled[o] /\ cut'[o] = cut[o] /\ snapshots'[o] = snapshots[o]
  <2>1. CASE ChangesLatestOnly(r)
    BY <2>1 DEF ChangesLatestOnly
  <2>2. ASSUME NEW s, NEW n, Changes(r, s, n)
        PROVE  /\ rpc'[o] = rpc[o] /\ since'[o] = since[o] /\ maxSince'[o] = maxSince[o]
               /\ snapshots'[o] = snapshots[o]
               /\ UNCHANGED <<rows, token, delivered, settled, cut>>
    BY <2>2 DEF Changes, FeedTypeOK
  <2>3. CASE Query(r)
    BY <2>3 DEF Query, FeedTypeOK
  <2>4. CASE QueryFails(r) \/ StreamBreaks(r)
    BY <2>4 DEF QueryFails, StreamBreaks, RequestFails, FeedTypeOK
  <2>5. CASE Stream(r)
    BY <2>5 DEF Stream, FeedTypeOK
  <2> QED BY <2>1, <2>2, <2>3, <2>4, <2>5 DEF ReaderStep
<1>3. Rows' = Rows /\ \A x : Spent(x)' <=> Spent(x)
  BY <1>1, RowsStill
<1>4. TokenInv(o)' /\ SeenInv(o)'
  BY <1>1, <1>2, <1>3 DEF Inv, TokenInv, SeenInv
<1>5. SettledInv(o)'
  BY <1>1, <1>2, <1>3 DEF Inv, SettledInv, Passed, Bounded
<1>6. LostInv(o)'
  BY <1>1, <1>2, <1>3 DEF Inv, LostInv, Passed, Excused
<1> QED BY <1>4, <1>5, <1>6 DEF Inv

LEMMA ReaderKeeps ==
  ASSUME WriterSide, FeedTypeOK, NEW r \in Reader, Inv(r), ReaderStep(r)
  PROVE  FeedTypeOK' /\ Inv(r)'
<1>1. CASE ChangesLatestOnly(r)
  <2>1. FeedTypeOK'
    BY <1>1 DEF ChangesLatestOnly, FeedTypeOK
  <2>2. Rows' = Rows /\ \A x : Spent(x)' <=> Spent(x)
    BY <1>1, RowsStill DEF ChangesLatestOnly
  <2>3. TokenInv(r)' /\ SeenInv(r)'
    BY <1>1, <2>2 DEF ChangesLatestOnly, Inv, TokenInv, SeenInv
  <2>4. SettledInv(r)' /\ LostInv(r)'
    BY <1>1, <2>2 DEF ChangesLatestOnly, Inv, SettledInv, LostInv, Passed, Excused, Bounded
  <2> QED BY <2>1, <2>3, <2>4 DEF Inv
<1> QED BY <1>1, ChangesKeeps, QueryKeeps, StreamKeeps, FailuresKeep DEF ReaderStep

-----------------------------------------------------------------------------

FeedIInv == WriterSide /\ FeedTypeOK /\ FeedInv

LEMMA FeedStep == FeedIInv /\ [FeedNext]_feedVars => FeedIInv'
<1> SUFFICES ASSUME FeedIInv, [FeedNext]_feedVars PROVE FeedIInv'
  OBVIOUS
<1>i. WriterSide /\ FeedTypeOK /\ \A r \in Reader : Inv(r)
  BY DEF FeedIInv, FeedInv, Inv
<1>1. [Next]_vars
  <2>1. ASSUME NEW r \in Reader, ReaderStep(r) PROVE UNCHANGED vars
    BY <2>1 DEF ReaderStep, ChangesLatestOnly, Changes, Query, QueryFails, Stream, StreamBreaks,
                RequestFails
  <2> QED BY <2>1 DEF FeedNext, feedVars
<1>2. WriterSide'
  BY <1>i, <1>1, StepTypeOK, StepBatchInv, RowsKept DEF WriterSide
<1>3. ASSUME NEW r \in Reader, ReaderStep(r) PROVE FeedTypeOK' /\ FeedInv'
  <2>1. FeedTypeOK' /\ Inv(r)'
    BY <1>i, <1>3, ReaderKeeps
  <2>2. \A o \in Reader \ {r} : Inv(o)'
    BY <1>i, <1>3, OthersKeep
  <2>3. \A o \in Reader : Inv(o)'
    BY <2>1, <2>2
  <2> QED BY <2>1, <2>3 DEF FeedInv, Inv
<1>4. ASSUME UNCHANGED <<dataset, readerVars>> PROVE FeedTypeOK' /\ FeedInv'
  <2>1. FeedTypeOK'
    BY <1>i, <1>4 DEF readerVars, FeedTypeOK
  <2>2. \A r \in Reader : Inv(r)'
    BY <1>i, <1>1, <1>4, WritersKeep DEF Inv
  <2> QED BY <2>1, <2>2 DEF FeedInv, Inv
<1> QED BY <1>2, <1>3, <1>4 DEF FeedIInv, FeedNext, feedVars

THEOREM FeedInvariant == FeedSpec => []FeedIInv
<1>1. FeedInit => FeedIInv
  BY FeedInvInit, InitTypeOK, InitBatchInv, RowsInit DEF FeedInit, FeedIInv, WriterSide
<1> QED BY <1>1, FeedStep, PTL DEF FeedSpec

(* The variables of the read path keep their types. *)
THEOREM FeedTypeCorrect == FeedSpec => []FeedTypeOK
<1>1. FeedIInv => FeedTypeOK
  BY DEF FeedIInv
<1> QED BY <1>1, FeedInvariant, PTL

(* A row that was sent in full with the token of a time is never sent       *)
(* again, although deletions may take the maximum and the token down.       *)
THEOREM NoRedeliveryAlways == FeedSpec => []NoRedelivery
<1>1. FeedIInv => NoRedelivery
  BY DEF FeedIInv, FeedInv, SettledInv, NoRedelivery
<1> QED BY <1>1, FeedInvariant, PTL

(* A consumer misses a row only if a LIMIT has cut it off, or if it was not *)
(* committed yet when a maximum at or above its since value was read.       *)
THEOREM LostOnlyIfCutOrLateAlways == FeedSpec => []LostOnlyIfCutOrLate
<1>1. FeedIInv => LostOnlyIfCutOrLate
  BY DEF FeedIInv, FeedInv, LostInv, Lost, Passed, Excused, LostOnlyIfCutOrLate
<1> QED BY <1>1, FeedInvariant, PTL
=============================================================================
