-------------------------- MODULE DatalayerConfig --------------------------
(***************************************************************************)
(* Configuration updates of the data layer beside the requests it serves   *)
(* (src/internal/layer/config.go, layer.go, mysql.go and the first lines   *)
(* of newMysqlWriter and newIterator).                                     *)
(*                                                                         *)
(* UpdateConfiguration runs on the goroutine of the configuration watcher, *)
(* requests run on theirs, and nothing is locked: a request reads the      *)
(* fields of its Dataset one by one while the update replaces them one by  *)
(* one.  The n-th configuration is the number n; its connection pool and   *)
(* its dataset definitions go by the same number.                          *)
(*                                                                         *)
(* External: common-datalayer (calls UpdateConfiguration, one call at a    *)
(* time, and the request methods), database/sql (a closed pool refuses     *)
(* everything) and the Go runtime (a map that is read while it is written  *)
(* may end the process).                                                   *)
(***************************************************************************)
EXTENDS Integers

CONSTANTS
  Name,       \* dataset names
  Request,    \* requests served
  MaxVersion  \* bound: configurations ever loaded

ASSUME NameAssumption == Name # {}
ASSUME MaxVersionAssumption == MaxVersion \in Nat \ {0}

Version == 1 .. MaxVersion
Nil == 0    \* a nil pointer: no pool, no dataset

VARIABLES
  version,    \* the configuration loaded last
  names,      \* its dataset names
  pools,      \* the connection pools: none, open or closed
  db,         \* dl.db
  datasets,   \* dl.datasets: the Dataset of a name, as the version it was
              \* created for
  definition, \* Dataset.datasetDefinition, by name and Dataset
  datasetDb,  \* Dataset.db, by name and Dataset
  lowered,    \* the definitions, by name and version, whose outgoing
              \* properties are in lower case
  phase,      \* where UpdateConfiguration is
  todo,       \* the names its current loop has not visited
  half,       \* a name with the new definition and the old pool
  started,    \* NewMysqlDataLayer has returned
  process,    \* running, stopped, or how it crashed
  pc,         \* where the request is
  ds,         \* the name and the Dataset it got
  early,      \* the definition it read before it read d.db
  pool,       \* the pool it read
  late,       \* the definitions it read after that
  again       \* it has a second query to send

configVars == <<version, names>>
poolVars == <<pools, db>>
datasetVars == <<datasets, definition, datasetDb, lowered>>
updateVars == <<phase, todo, half>>
lifeVars == <<started, process>>
layerVars == <<configVars, poolVars, datasetVars, updateVars, lifeVars>>
requestVars == <<pc, ds, early, pool, late, again>>
vars == <<layerVars, requestVars>>

-----------------------------------------------------------------------------

(* NewMysqlDataLayer has opened a pool and is about to call                 *)
(* UpdateConfiguration, which closes it again.                              *)
Init ==
  /\ version = 1
  /\ names = {}
  /\ pools = [v \in Version |-> IF v = 1 THEN "open" ELSE "none"]
  /\ db = 1
  /\ datasets = [n \in Name |-> Nil]
  /\ definition = [n \in Name |-> [v \in Version |-> Nil]]
  /\ datasetDb = [n \in Name |-> [v \in Version |-> Nil]]
  /\ lowered = {}
  /\ phase = "idle"
  /\ todo = {}
  /\ half = {}
  /\ started = FALSE
  /\ process = "running"
  /\ pc = [r \in Request |-> "idle"]
  /\ ds = [r \in Request |-> [name |-> CHOOSE n \in Name : TRUE, made |-> Nil]]
  /\ early = [r \in Request |-> Nil]
  /\ pool = [r \in Request |-> Nil]
  /\ late = [r \in Request |-> {}]
  /\ again = [r \in Request |-> FALSE]

Present == {n \in Name : datasets[n] # Nil}

-----------------------------------------------------------------------------
(***************************************************************************)
(* UpdateConfiguration.                                                    *)
(***************************************************************************)

(* UpdateConfiguration returns; an error ends NewMysqlDataLayer. *)
Return(ok) ==
  /\ phase' = "idle"
  /\ started' = (started \/ ok)
  /\ process' = IF started \/ ok THEN process ELSE "stopped"

(* The pool is closed before anything else happens.                         *)
(* (Mutant: it is left open.) *)
PoolKeptOpen(p) == pools
PoolClosed(p) == [pools EXCEPT ![p] = "closed"]

ClosePool(S) ==
  /\ phase = "idle"
  /\ db # Nil
  /\ version < MaxVersion
  /\ version' = version + 1
  /\ names' = S
  /\ pools' = PoolClosed(db)
  /\ phase' = "open"
  /\ UNCHANGED <<db, datasetVars, todo, half, lifeVars, requestVars>>

(* dl.db.db.Close with dl.db nil, as a failed update leaves it. *)
UpdatePanics ==
  /\ phase = "idle"
  /\ db = Nil
  /\ version < MaxVersion
  /\ process' = "nil pointer"
  /\ UNCHANGED <<configVars, poolVars, datasetVars, updateVars, started, requestVars>>

(* Close reports an error; the pool is closed all the same. *)
CloseFails ==
  /\ phase = "open"
  /\ Return(FALSE)
  /\ UNCHANGED <<configVars, poolVars, datasetVars, todo, half, requestVars>>

(* newMysqlDB, and the names for the loop over the existing datasets. *)
OpenPool ==
  /\ phase = "open"
  /\ db' = version
  /\ pools' = [pools EXCEPT ![version] = "open"]
  /\ phase' = "update"
  /\ todo' = Present \cap names
  /\ UNCHANGED <<configVars, datasetVars, half, lifeVars, requestVars>>

(* newMysqlDB fails; its nil result is assigned to dl.db nevertheless.      *)
(* When it is Ping that fails, the pool of sql.Open is open and stays so.   *)
OpenFails ==
  /\ phase = "open"
  /\ db' = Nil
  /\ \/ UNCHANGED pools
     \/ pools' = [pools EXCEPT ![version] = "open"]
  /\ Return(FALSE)
  /\ UNCHANGED <<configVars, datasetVars, todo, half, requestVars>>

(* An existing dataset gets its definition, then its pool.                  *)
(* (Mutant: the pool first.) *)
SetPoolFirst(n) ==
  /\ datasetDb' = [datasetDb EXCEPT ![n][datasets[n]] = db]
  /\ UNCHANGED definition
SetFirst(n) ==
  /\ definition' = [definition EXCEPT ![n][datasets[n]] = version]
  /\ UNCHANGED datasetDb
SetSecond(n) ==
  /\ definition' = [definition EXCEPT ![n][datasets[n]] = version]
  /\ datasetDb' = [datasetDb EXCEPT ![n][datasets[n]] = db]

UpdateFirst(n) ==
  /\ phase = "update" /\ n \in todo /\ half = {}
  /\ SetFirst(n)
  /\ half' = {n}
  /\ UNCHANGED <<configVars, poolVars, datasets, lowered, phase, todo, lifeVars,
                 requestVars>>

UpdateSecond(n) ==
  /\ phase = "update" /\ n \in half
  /\ SetSecond(n)
  /\ half' = {}
  /\ todo' = todo \ {n}
  /\ UNCHANGED <<configVars, poolVars, datasets, lowered, phase, lifeVars, requestVars>>

(* A dataset that is not configured any more is removed. *)
RemoveDataset(n) ==
  /\ phase = "remove" /\ n \in todo
  /\ datasets' = [datasets EXCEPT ![n] = Nil]
  /\ todo' = todo \ {n}
  /\ UNCHANGED <<configVars, poolVars, definition, datasetDb, lowered, phase, half,
                 lifeVars, requestVars>>

(* A new one is added.  (Mutant: without its definition.) *)
AddUnset(n) ==
  /\ phase = "add" /\ n \in todo
  /\ datasets' = [datasets EXCEPT ![n] = version]
  /\ datasetDb' = [datasetDb EXCEPT ![n][version] = db]
  /\ todo' = todo \ {n}
  /\ UNCHANGED <<configVars, poolVars, definition, lowered, phase, half, lifeVars,
                 requestVars>>

AddDataset(n) ==
  /\ phase = "add" /\ n \in todo
  /\ datasets' = [datasets EXCEPT ![n] = version]
  /\ definition' = [definition EXCEPT ![n][version] = version]
  /\ datasetDb' = [datasetDb EXCEPT ![n][version] = db]
  /\ todo' = todo \ {n}
  /\ UNCHANGED <<configVars, poolVars, lowered, phase, half, lifeVars, requestVars>>

(* The properties of the outgoing mapping are lowered, in place: a request  *)
(* that has read the definition before maps with them too.                  *)
LowerDataset(n) ==
  /\ phase = "lower" /\ n \in todo
  /\ lowered' = lowered \cup {<<n, definition[n][datasets[n]]>>}
  /\ todo' = todo \ {n}
  /\ UNCHANGED <<configVars, poolVars, datasets, definition, datasetDb, phase, half,
                 lifeVars, requestVars>>

(* A loop has ended and the next one begins; the last one returns.          *)
(* (Mutant: the loop that removes datasets is missing.) *)
RemovableNone == {}
Removable == Present \ names

(* (Mutant: only the definitions of new datasets are lowered.) *)
LowerableNew == {n \in Name : datasets[n] = version}
Lowerable == Present

EndLoop ==
  /\ todo = {} /\ half = {}
  /\ \/ /\ phase = "update"
        /\ phase' = "remove" /\ todo' = Removable
        /\ UNCHANGED lifeVars
     \/ /\ phase = "remove"
        /\ phase' = "add" /\ todo' = names \ Present
        /\ UNCHANGED lifeVars
     \/ /\ phase = "add"
        /\ phase' = "lower" /\ todo' = Lowerable
        /\ UNCHANGED lifeVars
     \/ /\ phase = "lower"
        /\ Return(TRUE)
        /\ UNCHANGED todo
  /\ UNCHANGED <<configVars, poolVars, datasetVars, half, requestVars>>

(* Stop closes the pool. *)
Stop ==
  /\ started
  /\ db # Nil
  /\ pools' = [pools EXCEPT ![db] = "closed"]
  /\ process' = "stopped"
  /\ UNCHANGED <<configVars, db, datasetVars, updateVars, started, requestVars>>

(* Stop with dl.db nil. *)
StopPanics ==
  /\ started
  /\ db = Nil
  /\ process' = "nil pointer at stop"
  /\ UNCHANGED <<configVars, poolVars, datasetVars, updateVars, started, requestVars>>

-----------------------------------------------------------------------------
(***************************************************************************)
(* A request: what Incremental and Changes read of the layer, in their     *)
(* order.                                                                  *)
(***************************************************************************)

(* MysqlDatalayer.Dataset. *)
Lookup(r, n) ==
  /\ started
  /\ pc[r] = "idle"
  /\ ds' = [ds EXCEPT ![r] = [name |-> n, made |-> datasets[n]]]
  /\ pc' = [pc EXCEPT ![r] = IF datasets[n] = Nil THEN "not found" ELSE "early"]
  /\ \E b \in BOOLEAN : again' = [again EXCEPT ![r] = b]
  /\ UNCHANGED <<layerVars, early, pool, late>>

(* dl.datasets is read while one of the loops writes it. *)
MapRace(r) ==
  /\ started
  /\ pc[r] = "idle"
  /\ phase \in {"remove", "add"} /\ todo # {}
  /\ process' = "map race"
  /\ UNCHANGED <<configVars, poolVars, datasetVars, updateVars, started, requestVars>>

DefinitionOf(r) == definition[ds[r].name][ds[r].made]

(* The mapper and the columns of newIterator come from the definition that  *)
(* is current before d.db is read.                                          *)
ReadEarly(r) ==
  /\ pc[r] = "early"
  /\ early' = [early EXCEPT ![r] = DefinitionOf(r)]
  /\ pc' = [pc EXCEPT ![r] = "db"]
  /\ UNCHANGED <<layerVars, ds, pool, late, again>>

ReadDb(r) ==
  /\ pc[r] = "db"
  /\ pool' = [pool EXCEPT ![r] = datasetDb[ds[r].name][ds[r].made]]
  /\ pc' = [pc EXCEPT ![r] = "late"]
  /\ UNCHANGED <<layerVars, ds, early, late, again>>

(* The table, the threshold and the since column of a writer; the since     *)
(* table of an iterator and, after SELECT MAX, all of buildQuery.           *)
ReadLate(r) ==
  /\ pc[r] = "late"
  /\ late' = [late EXCEPT ![r] = @ \cup {DefinitionOf(r)}]
  /\ pc' = [pc EXCEPT ![r] = "send"]
  /\ UNCHANGED <<layerVars, ds, early, pool, again>>

(* Begin, SELECT MAX or the query: refused by a closed pool. *)
Send(r) ==
  /\ pc[r] = "send"
  /\ \/ /\ pools[pool[r]] # "open"
        /\ pc' = [pc EXCEPT ![r] = "error"]
        /\ UNCHANGED again
     \/ /\ pools[pool[r]] = "open" /\ again[r]
        /\ pc' = [pc EXCEPT ![r] = "late"]
        /\ again' = [again EXCEPT ![r] = FALSE]
     \/ /\ pools[pool[r]] = "open" /\ ~again[r]
        /\ pc' = [pc EXCEPT ![r] = "served"]
        /\ UNCHANGED again
  /\ UNCHANGED <<layerVars, ds, early, pool, late>>

-----------------------------------------------------------------------------

UpdateStep ==
  \/ CloseFails
  \/ OpenPool
  \/ OpenFails
  \/ \E n \in Name : UpdateFirst(n) \/ UpdateSecond(n) \/ RemoveDataset(n)
                       \/ AddDataset(n) \/ LowerDataset(n)
  \/ EndLoop

RequestStep(r) ==
  \/ \E n \in Name : Lookup(r, n)
  \/ MapRace(r)
  \/ ReadEarly(r)
  \/ ReadDb(r)
  \/ ReadLate(r)
  \/ Send(r)

(* Nothing happens in a process that has ended. *)
Next ==
  /\ process = "running"
  /\ \/ \E S \in SUBSET Name : ClosePool(S)
     \/ UpdatePanics
     \/ UpdateStep
     \/ Stop
     \/ StopPanics
     \/ \E r \in Request : RequestStep(r)

Spec == Init /\ [][Next]_vars

-----------------------------------------------------------------------------
(***************************************************************************)
(* Properties.                                                             *)
(***************************************************************************)

(* The values the variables range over. *)
TypeOK ==
  /\ version \in Version
  /\ names \subseteq Name
  /\ pools \in [Version -> {"none", "open", "closed"}]
  /\ db \in Version \cup {Nil}
  /\ datasets \in [Name -> Version \cup {Nil}]
  /\ definition \in [Name -> [Version -> Version \cup {Nil}]]
  /\ datasetDb \in [Name -> [Version -> Version \cup {Nil}]]
  /\ lowered \subseteq Name \X Version
  /\ phase \in {"idle", "open", "update", "remove", "add", "lower"}
  /\ todo \subseteq Name
  /\ half \subseteq Name
  /\ started \in BOOLEAN
  /\ process \in {"running", "stopped", "nil pointer", "nil pointer at stop",
                 "map race"}
  /\ pc \in [Request -> {"idle", "early", "db", "late", "send", "served", "error",
                         "not found"}]
  /\ ds \in [Request -> [name : Name, made : Version \cup {Nil}]]
  /\ early \in [Request -> Version \cup {Nil}]
  /\ pool \in [Request -> Version \cup {Nil}]
  /\ late \in [Request -> SUBSET Version]
  /\ again \in [Request -> BOOLEAN]

(* A request that was served, at whatever point of an update it ran, used   *)
(* the pool and, for what it read after the pool, the definition of one     *)
(* configuration: the old pool is closed before the first definition        *)
(* changes, and a dataset gets its definition before its pool.              *)
ServedByOneConfiguration ==
  \A r \in Request :
    pc[r] = "served" => late[r] = {pool[r]} /\ early[r] =< pool[r]

(* Someone may send statements through pool v. *)
Reachable(v) ==
  \/ \E n \in Name, w \in Version : datasetDb[n][w] = v
  \/ \E r \in Request : pool[r] = v

(* No pool but the current one is open, whatever updates failed before and  *)
(* wherever the running one is, but for the one that newMysqlDB leaves open *)
(* when Ping fails (mysql.go:34).  That one is of the last configuration,   *)
(* there is no current pool beside it, and no dataset and no request ever   *)
(* gets hold of it.                                                         *)
OnePoolOpen ==
  \A v \in Version :
    pools[v] = "open" => v = db \/ (db = Nil /\ v = version /\ ~Reachable(v))

(* After a successful update the datasets are exactly those configured, all *)
(* with the new definition, in lower case, and the new pool, which is open. *)
UpdateIsComplete ==
  process = "running" /\ phase = "idle" /\ started /\ db = version
    => /\ Present = names
       /\ pools[db] = "open"
       /\ \A n \in Present : /\ definition[n][datasets[n]] = version
                             /\ datasetDb[n][datasets[n]] = version
                             /\ <<n, version>> \in lowered

(* Whenever none of the loops of an update runs, also after updates that    *)
(* failed, the rows of every dataset and of every request under way are     *)
(* mapped with properties in lower case, as the columns are (config.go:86,  *)
(* read.go:122): a request that has read its definition before the last     *)
(* loop does not go on with the old names.                                  *)
MapsLowered ==
  phase \in {"idle", "open"} =>
    /\ \A n \in Present : <<n, definition[n][datasets[n]]>> \in lowered
    /\ \A r \in Request : early[r] # Nil => <<ds[r].name, early[r]>> \in lowered

(* "close connection and create new one": an update that could not create   *)
(* a connection does not keep the next one from doing so.                   *)
UpdateNeverPanics == process # "nil pointer"
=============================================================================
