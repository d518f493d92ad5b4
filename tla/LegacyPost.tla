----------------------------- MODULE LegacyPost -----------------------------
(***************************************************************************)
(* The write path of the legacy data layer (src/internal/legacy):          *)
(* postHandler splits the entities of a POST into batches of a thousand    *)
(* and hands each to PostLayer.PostEntities, which writes it in a          *)
(* transaction of its own.  The table definition and the connection pool   *)
(* of the call are fields of the one PostRepository that all requests      *)
(* share, and the field mappings of a dataset, which every call sorts in   *)
(* place, are shared by the calls for it; nothing is locked.               *)
(*                                                                         *)
(* A batch is written with the query and with the fields of a post mapping *)
(* in the database of a post mapping; each of the three stands here for    *)
(* the dataset of the mapping.  The configuration does not change.         *)
(*                                                                         *)
(* External: the client, MySQL, database/sql (a closed pool refuses Begin) *)
(* and echo (a panic ends the request only, with a 500).                   *)
(***************************************************************************)
EXTENDS Integers, Sequences

CONSTANTS
  Dataset,      \* the datasets with a post mapping
  WithConfig,   \* those whose mapping has a config section
  Unmapped,     \* a dataset name without a mapping, and a nil definition
  Request,      \* slots for requests that run at the same time
  MaxBatches,   \* bound: batches of a request
  MaxRequests   \* bound: requests

ASSUME WithConfigAssumption == WithConfig \subseteq Dataset
ASSUME UnmappedAssumption == Unmapped \notin Dataset
ASSUME BoundsAssumption == MaxBatches \in Nat /\ MaxRequests \in Nat

NoPool == 0

VARIABLES
  repoDef,   \* PostRepo.postTableDef
  repoDb,    \* PostRepo.DB
  pools,     \* every pool opened: whose database, whether it is open and
             \* whether its Ping succeeded
  fields,    \* FieldMappings of a dataset: not in order yet, in order, or torn
  requests,  \* bound: number of requests
  req,       \* what each request is at and knows (see Idle)
  landed,    \* history: the batch that was committed last
  settled,   \* history: datasets whose fields were in order, nobody sorting them
  overlap,   \* history: two requests have run at the same time
  leftOpen   \* history: a request ended without closing PostRepo.DB

repoVars == <<repoDef, repoDb, pools>>
historyVars == <<landed, settled, overlap, leftOpen>>
vars == <<repoVars, fields, requests, req, historyVars>>

(* A slot without a request.                                                *)
(*   dataset   the dataset the request posts to                             *)
(*   left      batches it has still to hand over                            *)
(*   opened    the pool it has opened and not yet stored                    *)
(*   query     the dataset whose query and id column it uses                *)
(*   fields    the dataset whose fields it uses                             *)
(*   tx        the pool it has begun its transaction on                     *)
(*   unsaved   history: batches it has handed over and not committed        *)
(*   dropped   history: the error of a Commit was dropped                   *)
(*   together  history: another request ran while it did                    *)
Idle == [pc |-> "idle", dataset |-> Unmapped, left |-> 0, opened |-> NoPool,
         query |-> Unmapped, fields |-> Unmapped, tx |-> NoPool,
         unsaved |-> 0, dropped |-> FALSE, together |-> FALSE]

NoBatch == [dataset |-> Unmapped]

-----------------------------------------------------------------------------

Init ==
  /\ repoDef = Unmapped
  /\ repoDb = NoPool
  /\ pools = << >>
  /\ fields \in [Dataset -> {"raw", "ordered"}]
  /\ requests = 0
  /\ req = [q \in Request |-> Idle]
  /\ landed = NoBatch
  /\ settled = {d \in Dataset : fields[d] = "ordered"}
  /\ overlap = FALSE
  /\ leftOpen = FALSE

At(q, p) == req[q].pc = p
Running(q) == ~At(q, "idle")
Goto(q, p) == req' = [req EXCEPT ![q].pc = p]
IsOpen(p) == p # NoPool /\ pools[p].open

(* A request that does not come to the end of postHandler, answered with    *)
(* 400 after an error and with 500 after a panic: whatever PostRepo.DB is   *)
(* stays there.                                                             *)
Abandon(q) ==
  /\ req' = [req EXCEPT ![q] = Idle]
  /\ leftOpen' = (leftOpen \/ repoDb # NoPool)
  /\ UNCHANGED <<repoDef, repoDb, fields, requests, landed, settled, overlap>>

Leave(q) == Abandon(q) /\ UNCHANGED pools

-----------------------------------------------------------------------------

(* A POST of n batches. *)
Post(q, d, n) ==
  /\ At(q, "idle")
  /\ requests < MaxRequests
  /\ requests' = requests + 1
  /\ LET others == {o \in Request \ {q} : Running(o)}
     IN /\ req' = [r \in Request |->
             IF r = q THEN [Idle EXCEPT !.pc = "next", !.dataset = d, !.left = n,
                                        !.together = others # {}]
             ELSE IF r \in others THEN [req[r] EXCEPT !.together = TRUE] ELSE req[r]]
        /\ overlap' = (overlap \/ others # {})
  /\ UNCHANGED <<repoVars, fields, landed, settled, leftOpen>>

(* The body yields a value that is no entity: asEntity panics. *)
NotAnEntity(q) == At(q, "next") /\ Leave(q)

(* Is there something to hand over?  (Mutant: even if there is nothing.) *)
HasMoreOrNone(q) == req[q].left >= 0
HasMore(q) == req[q].left > 0

(* The next batch goes to PostEntities, which looks up the definition.      *)
(* parseStream does not ask the decoder for its error: a body that breaks   *)
(* off ends like one that is complete.                                      *)
NextBatch(q) ==
  /\ At(q, "next") /\ HasMore(q)
  /\ repoDef' = req[q].dataset
  /\ req' = [req EXCEPT ![q].left = @ - 1, ![q].unsaved = @ + 1, ![q].pc = "definition"]
  /\ UNCHANGED <<repoDb, pools, fields, requests, historyVars>>

(* No definition, no pool, or a pool that is there already.                 *)
(* (Mutant: a new pool for every batch.) *)
NeedsPoolAlways == TRUE
NeedsPool == repoDb = NoPool

CheckDefinition(q) ==
  /\ At(q, "definition")
  /\ \/ repoDef = Unmapped /\ Leave(q)
     \/ /\ repoDef # Unmapped
        /\ Goto(q, IF NeedsPool THEN "connect" ELSE "query")
        /\ UNCHANGED <<repoVars, fields, requests, historyVars>>

(* connect, to the database of the definition that is there now: sql.Open   *)
(* makes a pool, Ping tells whether the database answers.                   *)
PoolsWith(ping) == Append(pools, [dataset |-> repoDef, open |-> TRUE, pinged |-> ping])

Connect(q) ==
  /\ At(q, "connect") /\ repoDef \in WithConfig
  /\ pools' = PoolsWith(TRUE)
  /\ req' = [req EXCEPT ![q].opened = Len(pools'), ![q].pc = "store"]
  /\ UNCHANGED <<repoDef, repoDb, fields, requests, historyVars>>

(* connect dereferences a config section, or a definition, that is nil. *)
ConnectPanics(q) == At(q, "connect") /\ repoDef \notin WithConfig /\ Leave(q)

(* sql.Open refuses, or the database does not answer the Ping and nobody    *)
(* closes the pool.                                                         *)
ConnectFails(q) ==
  /\ At(q, "connect") /\ repoDef \in WithConfig
  /\ pools' \in {pools, PoolsWith(FALSE)}
  /\ Abandon(q)

StoreDb(q) ==
  /\ At(q, "store")
  /\ repoDb' = req[q].opened
  /\ req' = [req EXCEPT ![q].opened = NoPool, ![q].pc = "query"]
  /\ UNCHANGED <<repoDef, pools, fields, requests, historyVars>>

(* The query and the id column of the definition there is now; an error if  *)
(* there is no query, a panic if the definition is nil.                     *)
ReadQuery(q) ==
  /\ At(q, "query")
  /\ \/ Leave(q)
     \/ /\ repoDef # Unmapped
        /\ req' = [req EXCEPT ![q].query = repoDef, ![q].pc = "fields"]
        /\ UNCHANGED <<repoVars, fields, requests, historyVars>>

(* The fields of the definition there is now; an error if there are none.   *)
ReadFields(q) ==
  /\ At(q, "fields")
  /\ \/ Leave(q)
     \/ /\ repoDef # Unmapped
        /\ req' = [req EXCEPT ![q].fields = repoDef, ![q].pc = "sort"]
        /\ UNCHANGED <<repoVars, fields, requests, historyVars>>

-----------------------------------------------------------------------------
(***************************************************************************)
(* Sorting, in the slice that every post to the dataset uses.              *)
(***************************************************************************)

Sorts(q, d) == At(q, "sorting") /\ req[q].fields = d

(* A stable sort moves nothing in a slice that is in order; slices that are *)
(* not to be sorted count as such.  (Mutant: it moves elements anyway.) *)
MovesAlways(d) == TRUE
Moves(d) == fields[d] # "ordered"

Sort(q) ==
  /\ At(q, "sort")
  /\ Goto(q, IF Moves(req[q].fields) THEN "sorting" ELSE "begin")
  /\ UNCHANGED <<repoVars, fields, requests, historyVars>>

(* Elements are swapped one pair after the other.  If another request did   *)
(* that too, an element may be there twice and another be gone, for good.   *)
EndSort(q) ==
  LET d == req[q].fields
      alone == fields[d] = "raw" /\ \A o \in Request \ {q} : ~Sorts(o, d)
  IN /\ Sorts(q, d)
     /\ \E f \in IF fields[d] = "torn" THEN {"torn"}
                 ELSE IF alone THEN {"ordered"} ELSE {"ordered", "torn"} :
          fields' = [fields EXCEPT ![d] = f]
     /\ settled' = IF fields'[d] = "ordered" /\ \A o \in Request \ {q} : ~Sorts(o, d)
                   THEN settled \cup {d} ELSE settled
     /\ Goto(q, "begin")
     /\ UNCHANGED <<repoVars, requests, landed, overlap, leftOpen>>

-----------------------------------------------------------------------------
(***************************************************************************)
(* The transaction, and the end of the request.                            *)
(***************************************************************************)

(* Begin, on the pool there is now: refused if closed, a panic if nil. *)
Begin(q) ==
  /\ At(q, "begin")
  /\ \/ ~IsOpen(repoDb) /\ Leave(q)
     \/ /\ IsOpen(repoDb)
        /\ req' = [req EXCEPT ![q].tx = repoDb, ![q].pc = "exec"]
        /\ UNCHANGED <<repoVars, fields, requests, historyVars>>

(* Where a batch goes on whose statement was refused and rolled back.       *)
(* (Mutant: with the next batch.) *)
RefusedGoesOn(q) == /\ Goto(q, "next")
                    /\ UNCHANGED <<repoVars, fields, requests, historyVars>>
Refused(q) == Leave(q)

ExecFails(q) == At(q, "exec") /\ Refused(q)

(* A property name without a colon: StripProps panics and nobody ends the   *)
(* transaction.                                                             *)
ExecPanics(q) == At(q, "exec") /\ Leave(q)

(* Every entity has been executed, each with the fields as they were then,  *)
(* and the batch is committed, or not: the error of Commit is dropped.      *)
Commit(q) ==
  LET r == req[q]
      next == [r EXCEPT !.query = Unmapped, !.fields = Unmapped, !.tx = NoPool, !.pc = "next"]
  IN /\ At(q, "exec")
     /\ \/ /\ landed' = [dataset |-> r.dataset, query |-> r.query, fields |-> r.fields,
                         database |-> pools[r.tx].dataset,
                         excused |-> r.together \/ leftOpen]
           /\ req' = [req EXCEPT ![q] = [next EXCEPT !.unsaved = @ - 1]]
        \/ /\ req' = [req EXCEPT ![q] = [next EXCEPT !.dropped = TRUE]]
           /\ UNCHANGED landed
     /\ UNCHANGED <<repoVars, fields, requests, settled, overlap, leftOpen>>

(* The body is exhausted: the pool of the repository is closed ...          *)
(* (Mutant: it is kept for the next request.) *)
FinishKeepsPool(q) ==
  /\ At(q, "next") /\ req[q].left = 0
  /\ Goto(q, "answer")
  /\ UNCHANGED <<repoVars, fields, requests, historyVars>>
Finish(q) ==
  /\ At(q, "next") /\ req[q].left = 0
  /\ Goto(q, IF repoDb = NoPool THEN "answer" ELSE "close")
  /\ UNCHANGED <<repoVars, fields, requests, historyVars>>

(* ... a panic if another request has forgotten it in between ...           *)
CloseRepo(q) ==
  /\ At(q, "close")
  /\ \/ repoDb = NoPool /\ Leave(q)
     \/ /\ repoDb # NoPool
        /\ pools' = [pools EXCEPT ![repoDb].open = FALSE]
        /\ Goto(q, "forget")
        /\ UNCHANGED <<repoDef, repoDb, fields, requests, historyVars>>

(* ... and forgotten.  (Mutant: it is not forgotten.) *)
ForgottenNever == repoDb
Forgotten == NoPool

Forget(q) ==
  /\ At(q, "forget")
  /\ repoDb' = Forgotten
  /\ Goto(q, "answer")
  /\ UNCHANGED <<repoDef, pools, fields, requests, historyVars>>

(* The answer is 200. *)
Answer(q) ==
  /\ At(q, "answer")
  /\ req' = [req EXCEPT ![q] = Idle]
  /\ UNCHANGED <<repoVars, fields, requests, historyVars>>

-----------------------------------------------------------------------------

RequestStep(q) ==
  \/ \E d \in Dataset \cup {Unmapped}, n \in 0 .. MaxBatches : Post(q, d, n)
  \/ NotAnEntity(q) \/ NextBatch(q) \/ CheckDefinition(q)
  \/ Connect(q) \/ ConnectPanics(q) \/ ConnectFails(q) \/ StoreDb(q)
  \/ ReadQuery(q) \/ ReadFields(q) \/ Sort(q) \/ EndSort(q)
  \/ Begin(q) \/ ExecFails(q) \/ ExecPanics(q) \/ Commit(q)
  \/ Finish(q) \/ CloseRepo(q) \/ Forget(q) \/ Answer(q)

Next == \E q \in Request : RequestStep(q)

Spec == Init /\ [][Next]_vars

-----------------------------------------------------------------------------
(***************************************************************************)
(* Properties.                                                             *)
(***************************************************************************)

(* The values the variables range over. *)
TypeOK ==
  /\ repoDef \in Dataset \cup {Unmapped}
  /\ pools \in Seq([dataset : WithConfig, open : BOOLEAN, pinged : BOOLEAN])
  /\ repoDb \in 0 .. Len(pools)
  /\ fields \in [Dataset -> {"raw", "ordered", "torn"}]
  /\ requests \in 0 .. MaxRequests
  /\ req \in [Request ->
       [pc : {"idle", "next", "definition", "connect", "store", "query", "fields", "sort",
              "sorting", "begin", "exec", "close", "forget", "answer"},
        dataset : Dataset \cup {Unmapped}, left : 0 .. MaxBatches, opened : 0 .. Len(pools),
        query : Dataset \cup {Unmapped}, fields : Dataset \cup {Unmapped},
        tx : 0 .. Len(pools), unsaved : 0 .. MaxBatches, dropped : BOOLEAN,
        together : BOOLEAN]]
  /\ landed \in {NoBatch} \cup
       [dataset : Dataset \cup {Unmapped}, query : Dataset, fields : Dataset,
        database : WithConfig, excused : BOOLEAN]
  /\ settled \subseteq Dataset
  /\ overlap \in BOOLEAN /\ leftOpen \in BOOLEAN

(* A batch goes through the query and the fields and into the database of   *)
(* its dataset, unless another request ran beside it or an earlier one left *)
(* its pool open (postlayer.go:77-122).                                     *)
AtHomeIfUndisturbed ==
  landed # NoBatch /\ ~landed.excused =>
    {landed.query, landed.fields, landed.database} = {landed.dataset}

(* Once the fields of a dataset have been in order with nobody sorting      *)
(* them, every statement of a batch that is executed with them takes them   *)
(* in order, at whatever moment of the batch (postlayer.go:132), however    *)
(* many posts run at once: only the first posts to a dataset can disturb    *)
(* each other, although each of them sorts the shared slice                 *)
(* (postlayer.go:116).                                                      *)
InOrderOnceSettled ==
  \A q \in Request :
    At(q, "exec") /\ req[q].fields \in settled =>
      /\ fields[req[q].fields] = "ordered"
      /\ \A o \in Request : ~Sorts(o, req[q].fields)

(* A request that is going to be answered with 200 has committed every      *)
(* batch it has handed over, unless the error of a Commit was dropped       *)
(* (postlayer.go:153): no refusal, no lost pool and no other request makes  *)
(* it skip one.                                                             *)
OkMeansCommitted ==
  \A q \in Request :
    At(q, "close") \/ At(q, "forget") \/ At(q, "answer") =>
      req[q].unsaved = 0 \/ req[q].dropped

(* As long as no two requests have overlapped, the pools that stay open are *)
(* the one that the next request will use and those that connect left open  *)
(* when their Ping failed (postlayer.go:66), and only these after a request *)
(* that came to its end; the next request never gets one of them.           *)
OnlyFailedPingLeaks ==
  ~overlap /\ (\A o \in Request : ~Running(o)) =>
    /\ \A p \in 1 .. Len(pools) : pools[p].open => (p = repoDb <=> pools[p].pinged)
    /\ ~leftOpen => repoDb = NoPool

(* Until then a pool that the repository holds between requests is open: a  *)
(* request finds no pool that an earlier one has closed.                    *)
NoClosedPool ==
  ~overlap /\ (\A q \in Request : ~Running(q)) /\ repoDb # NoPool => IsOpen(repoDb)
=============================================================================
