----------------------------- MODULE LegacyRead -----------------------------
(***************************************************************************)
(* The read path of the legacy data layer (src/internal/legacy): the       *)
(* configuration manager reloads the configuration on a timer, and a GET   *)
(* of changes looks at it several times, replaces the connection pool when *)
(* the digest of the configuration has changed, and streams the rows.  The *)
(* manager, the layer and its Repository are shared and nothing is locked. *)
(*                                                                         *)
(* A configuration stands for its content and for its digest (md5 tells    *)
(* contents apart) as well as for the database it names.                   *)
(*                                                                         *)
(* External: the file or URL that holds the configuration, MySQL,          *)
(* database/sql (a closed pool refuses everything), jobrunner (one load    *)
(* after the other) and echo (a panic ends the request only).              *)
(***************************************************************************)
EXTENDS Integers, Sequences

CONSTANTS
  Config,       \* contents that parse
  Tables,       \* Config -> the datasets it maps
  Dataset,      \* dataset names
  Request,      \* slots for requests that run at the same time
  MaxLoads,     \* bound: reloads that change the configuration
  MaxRequests,  \* bound: requests
  Nothing       \* no configuration yet: the zero digest, no dataset

ASSUME TablesAssumption == Tables \in [Config -> SUBSET Dataset]
ASSUME NothingAssumption == Nothing \notin Config
ASSUME BoundsAssumption == MaxLoads \in Nat /\ MaxRequests \in Nat

(* What a load may find: a configuration, or something that is no           *)
(* configuration (missing, unreachable, not JSON).                          *)
Unusable == "unusable"
NoPool == 0

VARIABLES
  datalayer,   \* ConfigurationManager.Datalayer
  digest,      \* ConfigurationManager.State.Digest
  loads,       \* bound: number of changes loaded
  pools,       \* every pool opened: the configuration it was opened from,
               \* whether it is open and whether its Ping succeeded
  repoDb,      \* Repo.DB
  repoDigest,  \* Repo.digest
  requests,    \* bound: number of requests
  pc,          \* where the request is
  dataset,     \* the dataset it asks for
  cdcSince,    \* the table has CDC enabled and the request a since
  tableDef,    \* the configuration its table definition comes from
  opened,      \* the pool it has opened and not yet stored
  answered,    \* the pool its query ran on
  raced,       \* history: an assignment of a load came after a connect and
               \* before Repo.digest was assigned, or a connect came
               \* between the two assignments of a load
  unconnected, \* history: connect failed
  doubled,     \* history: two requests were replacing the pool at once
  inForce      \* history: the configurations that Datalayer or State held
               \* while the request ran

managerVars == <<datalayer, digest, loads>>
repoVars == <<pools, repoDb, repoDigest>>
askedVars == <<requests, dataset, cdcSince>>
ownVars == <<tableDef, opened, answered, inForce>>
requestVars == <<askedVars, pc, ownVars>>
historyVars == <<raced, unconnected, doubled>>
vars == <<managerVars, repoVars, requestVars, historyVars>>

-----------------------------------------------------------------------------

Init ==
  /\ datalayer = Nothing
  /\ digest = Nothing
  /\ loads = 0
  /\ pools = << >>
  /\ repoDb = NoPool
  /\ repoDigest = Nothing
  /\ requests = 0
  /\ pc = [q \in Request |-> "idle"]
  /\ dataset \in [Request -> Dataset]
  /\ cdcSince = [q \in Request |-> FALSE]
  /\ tableDef = [q \in Request |-> Nothing]
  /\ opened = [q \in Request |-> NoPool]
  /\ answered = [q \in Request |-> NoPool]
  /\ raced = FALSE
  /\ unconnected = FALSE
  /\ doubled = FALSE
  /\ inForce = [q \in Request |-> {}]

Mapped(c) == IF c = Nothing THEN {} ELSE Tables[c]
Running(q) == pc[q] # "idle"
BetweenConnectAndDigest == \E q \in Request : pc[q] \in {"store", "digest"}
Ensuring(q) == pc[q] \in {"close", "connect", "store", "digest"}

-----------------------------------------------------------------------------
(***************************************************************************)
(* ConfigurationManager.load.                                              *)
(***************************************************************************)

(* What load puts into Datalayer for what it found.                         *)
(* (Mutant: the content is not parsed.) *)
LoadedUnparsed(found) == found
Loaded(found) == IF found = Unusable THEN datalayer ELSE found

(* load compares digests, parses, and assigns Datalayer and then State.     *)
Load(found) ==
  /\ digest = datalayer
  /\ found # digest
  /\ loads < MaxLoads
  /\ datalayer' = Loaded(found)
  /\ loads' = IF datalayer' = datalayer THEN loads ELSE loads + 1
  /\ raced' = (raced \/ (datalayer' # datalayer /\ BetweenConnectAndDigest))
  /\ inForce' = [q \in Request |->
                   IF Running(q) THEN inForce[q] \cup {datalayer'} ELSE inForce[q]]
  /\ UNCHANGED <<digest, repoVars, askedVars, pc, tableDef, opened, answered,
                 unconnected, doubled>>

(* The second assignment. *)
LoadState ==
  /\ digest # datalayer
  /\ digest' = datalayer
  /\ raced' = (raced \/ BetweenConnectAndDigest)
  /\ UNCHANGED <<datalayer, loads, repoVars, requestVars, unconnected, doubled>>

-----------------------------------------------------------------------------
(***************************************************************************)
(* getChangesHandler and ChangeSet.                                        *)
(***************************************************************************)

Goto(q, p) == pc' = [pc EXCEPT ![q] = p]

(* The request ends, and what it knew is gone. *)
Leave(q) ==
  /\ Goto(q, "idle")
  /\ tableDef' = [tableDef EXCEPT ![q] = Nothing]
  /\ opened' = [opened EXCEPT ![q] = NoPool]
  /\ answered' = [answered EXCEPT ![q] = NoPool]
  /\ inForce' = [inForce EXCEPT ![q] = {}]

(* DoesDatasetExist: an unknown dataset is a 404. *)
Exists(q, n, isCdcSince) ==
  /\ pc[q] = "idle"
  /\ requests < MaxRequests
  /\ requests' = requests + 1
  /\ \/ /\ n \in Mapped(datalayer)
        /\ Goto(q, "context")
        /\ dataset' = [dataset EXCEPT ![q] = n]
        /\ cdcSince' = [cdcSince EXCEPT ![q] = isCdcSince]
        /\ inForce' = [inForce EXCEPT ![q] = {digest, datalayer}]
     \/ /\ n \notin Mapped(datalayer)
        /\ UNCHANGED <<pc, dataset, cdcSince, inForce>>
  /\ UNCHANGED <<managerVars, repoVars, historyVars, tableDef, opened, answered>>

(* GetContext looks the dataset up again; a nil definition is a panic,      *)
(* after the 200 and the opening bracket.                                   *)
Context(q) ==
  /\ pc[q] = "context"
  /\ \/ dataset[q] \in Mapped(datalayer) /\ Goto(q, "definition") /\ UNCHANGED ownVars
     \/ dataset[q] \notin Mapped(datalayer) /\ Leave(q)
  /\ UNCHANGED <<managerVars, repoVars, historyVars, askedVars>>

(* ChangeSet looks it up once more; without a definition it sends nothing.  *)
Definition(q) ==
  /\ pc[q] = "definition"
  /\ \/ /\ dataset[q] \in Mapped(datalayer)
        /\ tableDef' = [tableDef EXCEPT ![q] = datalayer]
        /\ Goto(q, "ensure")
        /\ UNCHANGED <<opened, answered, inForce>>
     \/ dataset[q] \notin Mapped(datalayer) /\ Leave(q)
  /\ UNCHANGED <<managerVars, repoVars, historyVars, askedVars>>

(* ensureConnection: is the pool that of the current configuration?         *)
(* (Mutant: a pool that is there is used.) *)
IsChangedOrNew == repoDb = NoPool
IsChanged == digest # repoDigest

Ensure(q) ==
  /\ pc[q] = "ensure"
  /\ Goto(q, IF IsChanged THEN "close" ELSE "since")
  /\ doubled' = (doubled \/ (IsChanged /\ \E o \in Request : Ensuring(o)))
  /\ UNCHANGED <<managerVars, repoVars, raced, unconnected, askedVars, ownVars>>

(* (Mutant: the old pool is not closed.) *)
PoolsUnclosed == pools
PoolsClosed == IF repoDb = NoPool THEN pools ELSE [pools EXCEPT ![repoDb].open = FALSE]

CloseOld(q) ==
  /\ pc[q] = "close"
  /\ pools' = PoolsClosed
  /\ Goto(q, "connect")
  /\ UNCHANGED <<managerVars, repoDb, repoDigest, historyVars, askedVars, ownVars>>

(* sql.Open makes a pool for what Datalayer holds now, be it between the    *)
(* two assignments of a load; Ping tells whether the database answers.      *)
PoolsWith(ping) == Append(pools, [conf |-> datalayer, open |-> TRUE, pinged |-> ping])

Connect(q) ==
  /\ pc[q] = "connect"
  /\ pools' = PoolsWith(TRUE)
  /\ opened' = [opened EXCEPT ![q] = Len(pools')]
  /\ raced' = (raced \/ digest # datalayer)
  /\ Goto(q, "store")
  /\ UNCHANGED <<managerVars, repoDb, repoDigest, unconnected, doubled, askedVars,
                 tableDef, answered, inForce>>

(* sql.Open refuses, or the database does not answer the Ping and nobody    *)
(* closes the pool: ChangeSet returns, Repo is left as it is.               *)
ConnectFails(q) ==
  /\ pc[q] = "connect"
  /\ pools' \in {pools, PoolsWith(FALSE)}
  /\ unconnected' = TRUE
  /\ Leave(q)
  /\ UNCHANGED <<managerVars, repoDb, repoDigest, raced, doubled, askedVars>>

StoreDb(q) ==
  /\ pc[q] = "store"
  /\ repoDb' = opened[q]
  /\ Goto(q, "digest")
  /\ UNCHANGED <<managerVars, pools, repoDigest, historyVars, askedVars, ownVars>>

(* (Mutant: the digest is not recorded.) *)
DigestKept == repoDigest
DigestNow == digest

StoreDigest(q) ==
  /\ pc[q] = "digest"
  /\ repoDigest' = DigestNow
  /\ Goto(q, "since")
  /\ UNCHANGED <<managerVars, pools, repoDb, historyVars, askedVars, ownVars>>

IsOpen(p) == p # NoPool /\ pools[p].open

(* serverSince, on whatever pool Repo.DB is now; an error ends ChangeSet. *)
ServerSince(q) ==
  /\ pc[q] = "since"
  /\ \/ IsOpen(repoDb) /\ Goto(q, "query") /\ UNCHANGED ownVars
     \/ Leave(q)
  /\ UNCHANGED <<managerVars, repoVars, historyVars, askedVars>>

(* The query of NewQuery.  The text of CDCQuery is Transact-SQL, which      *)
(* MySQL refuses.                                                           *)
QueryRuns(q) ==
  /\ pc[q] = "query"
  /\ IsOpen(repoDb) /\ ~cdcSince[q]
  /\ answered' = [answered EXCEPT ![q] = repoDb]
  /\ Goto(q, "stream")
  /\ UNCHANGED <<managerVars, repoVars, historyVars, askedVars, tableDef, opened, inForce>>

(* An error of the query: the deferred rows.Close panics on nil rows. *)
QueryPanics(q) ==
  /\ pc[q] = "query"
  /\ Leave(q)
  /\ UNCHANGED <<managerVars, repoVars, historyVars, askedVars>>

(* The rows, the token of a CDC table, and only then rows.Err: whether rows *)
(* are missing before the token makes no difference to the connection.      *)
Stream(q) ==
  /\ pc[q] = "stream"
  /\ Leave(q)
  /\ UNCHANGED <<managerVars, repoVars, historyVars, askedVars>>

-----------------------------------------------------------------------------

RequestStep(q) ==
  \/ \E n \in Dataset, isCdcSince \in BOOLEAN : Exists(q, n, isCdcSince)
  \/ Context(q)
  \/ Definition(q)
  \/ Ensure(q)
  \/ CloseOld(q)
  \/ Connect(q)
  \/ ConnectFails(q)
  \/ StoreDb(q)
  \/ StoreDigest(q)
  \/ ServerSince(q)
  \/ QueryRuns(q)
  \/ QueryPanics(q)
  \/ Stream(q)

Next ==
  \/ \E found \in Config \cup {Unusable} : Load(found)
  \/ LoadState
  \/ \E q \in Request : RequestStep(q)

Spec == Init /\ [][Next]_vars

-----------------------------------------------------------------------------
(***************************************************************************)
(* Properties.                                                             *)
(***************************************************************************)

(* The values the variables range over. *)
TypeOK ==
  /\ datalayer \in Config \cup {Nothing}
  /\ digest \in Config \cup {Nothing}
  /\ loads \in Nat
  /\ pools \in Seq([conf : Config \cup {Nothing}, open : BOOLEAN, pinged : BOOLEAN])
  /\ repoDb \in 0 .. Len(pools)
  /\ repoDigest \in Config \cup {Nothing}
  /\ requests \in Nat
  /\ pc \in [Request -> {"idle", "context", "definition", "ensure", "close", "connect",
                         "store", "digest", "since", "query", "stream"}]
  /\ dataset \in [Request -> Dataset]
  /\ cdcSince \in [Request -> BOOLEAN]
  /\ tableDef \in [Request -> Config \cup {Nothing}]
  /\ opened \in [Request -> 0 .. Len(pools)]
  /\ answered \in [Request -> 0 .. Len(pools)]
  /\ raced \in BOOLEAN
  /\ unconnected \in BOOLEAN
  /\ doubled \in BOOLEAN
  /\ inForce \in [Request -> SUBSET (Config \cup {Nothing})]

(* The pool is open and that of the configuration whose digest is recorded  *)
(* for it, however many requests replaced it at the same time, as long as   *)
(* no load came between connect and the assignment of the digest and no     *)
(* connect failed.                                                          *)
PoolFitsDigest ==
  ~raced /\ ~unconnected /\ (\A q \in Request : ~Ensuring(q)) /\ repoDb # NoPool
    => pools[repoDb].open /\ pools[repoDb].conf = repoDigest

(* A request is answered from the database of a configuration that was in   *)
(* force while it ran, and so is its table definition: if nothing was       *)
(* loaded meanwhile, both are those of the one configuration.  Other        *)
(* requests may replace the pool at any of its steps, and earlier ones may  *)
(* have done so at once or have failed to connect; only a load within a     *)
(* replacement (raced) can leave a pool behind that misleads it.            *)
AnsweredFromOwnDatabase ==
  \A q \in Request :
    answered[q] # NoPool /\ ~raced
      => {pools[answered[q]].conf, tableDef[q]} \subseteq inForce[q]

(* As long as no two requests were replacing the pool at the same time, the *)
(* pools that stay open without Repo.DB referring to them are those that    *)
(* connect left open when their Ping failed (layers/layer.go:280), whatever *)
(* loads come in between; and such a pool never becomes Repo.DB.            *)
OnlyFailedPingLeaks ==
  ~doubled /\ (\A q \in Request : ~Ensuring(q))
    => \A p \in 1 .. Len(pools) : pools[p].open => (p = repoDb <=> pools[p].pinged)

(* "It should also then "fix" it's connection if changed": when the digest  *)
(* of the pool is current, no request will replace it, so it is open.       *)
ConnectionIsOpen ==
  (\A q \in Request : ~Ensuring(q)) /\ repoDb # NoPool /\ repoDigest = digest
    => pools[repoDb].open
=============================================================================
