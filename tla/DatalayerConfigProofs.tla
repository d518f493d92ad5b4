----------------------- MODULE DatalayerConfigProofs -----------------------
(***************************************************************************)
(* Theorems about configuration updates, for any number of datasets,       *)
(* requests and configurations.                                            *)
(***************************************************************************)
EXTENDS DatalayerConfig, TLAPS

(* The loops of an update. *)
Loop == {"update", "remove", "add", "lower"}

-----------------------------------------------------------------------------
(***************************************************************************)
(* The layer by itself.                                                    *)
(***************************************************************************)

(* A Dataset that has been made: it has a definition and a pool. *)
Made(n, v) == v # Nil => definition[n][v] # Nil /\ datasetDb[n][v] # Nil

LayerType ==
  /\ version \in Version /\ names \in SUBSET Name
  /\ pools \in [Version -> {"none", "open", "closed"}]
  /\ db \in Version \cup {Nil}
  /\ datasets \in [Name -> Version \cup {Nil}]
  /\ definition \in [Name -> [Version -> Version \cup {Nil}]]
  /\ datasetDb \in [Name -> [Version -> Version \cup {Nil}]]
  /\ lowered \in SUBSET (Name \X Version)
  /\ phase \in {"idle", "open", "update", "remove", "add", "lower"}
  /\ todo \in SUBSET Name /\ half \in SUBSET Name
  /\ started \in BOOLEAN
  /\ process \in {"running", "stopped", "nil pointer", "nil pointer at stop", "map race"}

(* The loops have the new pool, and visit datasets that there are. *)
LayerInv ==
  /\ LayerType
  /\ phase \in Loop => db = version
  /\ phase \notin Loop /\ db # Nil => db =< version
  /\ phase = "open" => db # version
  /\ phase = "update" => todo \subseteq Present \cap names /\ half \subseteq todo
  /\ phase # "update" => half = {}
  /\ phase = "remove" => todo \subseteq Present \ names
  /\ phase = "add" => todo \subseteq names
  /\ phase = "lower" => todo \subseteq Present
  /\ \A n \in Name : Made(n, datasets[n])

(* Everything that changes the layer. *)
LayerStep ==
  \/ \E S \in SUBSET Name : ClosePool(S)
  \/ UpdatePanics \/ UpdateStep \/ Stop \/ StopPanics
  \/ \E r \in Request : MapRace(r)

LEMMA VersionFact == Version \subseteq Nat /\ Nil \notin Version /\ 1 \in Version /\ Nil = 0
BY MaxVersionAssumption DEF Version, Nil

LEMMA LayerInit == Init => LayerInv
<1> SUFFICES ASSUME Init PROVE LayerInv
  OBVIOUS
<1> USE VersionFact
<1>1. LayerType
  BY DEF Init, LayerType
<1>2. \A n \in Name : datasets[n] = Nil
  BY DEF Init
<1> QED BY <1>1, <1>2 DEF Init, LayerInv, Loop, Made

LEMMA LayerKeeps ==
  ASSUME LayerInv, LayerStep PROVE LayerInv'
<1> USE VersionFact
<1>t. LayerType
  BY DEF LayerInv
<1>1. ASSUME NEW S \in SUBSET Name, ClosePool(S) PROVE LayerInv'
  <2>a. version \in Version /\ version < MaxVersion /\ version' = version + 1
    BY <1>1, <1>t DEF ClosePool, LayerType
  <2>1. version' \in Version /\ version' = version + 1
    BY <2>a, MaxVersionAssumption DEF Version
  <2>2. pools' \in [Version -> {"none", "open", "closed"}]
    BY <1>1 DEF ClosePool, PoolClosed, LayerInv, LayerType
  <2>3. LayerType'
    BY <1>1, <2>1, <2>2 DEF ClosePool, LayerInv, LayerType, datasetVars, lifeVars
  <2>4. db # version' /\ (db # Nil => db =< version')
    <3>1. db =< version /\ db \in Version
      BY <1>1, <1>t DEF ClosePool, LayerInv, LayerType, Loop
    <3> QED BY <2>a, <3>1
  <2> QED BY <1>1, <2>3, <2>4 DEF ClosePool, LayerInv, Loop, Present, Made, datasetVars
<1>2. CASE UpdatePanics \/ StopPanics \/ \E r \in Request : MapRace(r)
  <2>1. /\ UNCHANGED <<configVars, poolVars, datasetVars, updateVars, started>>
        /\ process' \in {"nil pointer", "nil pointer at stop", "map race"}
    BY <1>2 DEF UpdatePanics, StopPanics, MapRace
  <2> QED BY <2>1 DEF LayerInv, LayerType, Present, Made, configVars, poolVars, datasetVars,
                      updateVars
<1>3. CASE CloseFails
  <2>1. LayerType'
    BY <1>3 DEF CloseFails, Return, LayerInv, LayerType, configVars, poolVars, datasetVars
  <2> QED BY <1>3, <2>1 DEF CloseFails, Return, LayerInv, LayerType, Loop, Present, Made,
                            configVars, poolVars, datasetVars
<1>4. CASE OpenPool
  <2>1. LayerType'
    BY <1>4 DEF OpenPool, LayerInv, LayerType, Present, configVars, datasetVars, lifeVars
  <2> QED BY <1>4, <2>1 DEF OpenPool, LayerInv, LayerType, Loop, Present, Made,
                            configVars, datasetVars
<1>5. CASE OpenFails
  <2>1. LayerType'
    BY <1>5 DEF OpenFails, Return, LayerInv, LayerType, configVars, datasetVars
  <2> QED BY <1>5, <2>1 DEF OpenFails, Return, LayerInv, LayerType, Loop, Present, Made,
                            configVars, datasetVars
<1>6. ASSUME NEW n \in Name, UpdateFirst(n) PROVE LayerInv'
  <2>1. datasets[n] \in Version
    BY <1>6 DEF UpdateFirst, LayerInv, LayerType, Present
  <2>2. definition' = [definition EXCEPT ![n] =
                         [definition[n] EXCEPT ![datasets[n]] = version]]
    BY <1>6 DEF UpdateFirst, SetFirst
  <2>3. definition' \in [Name -> [Version -> Version \cup {Nil}]]
    BY <2>1, <2>2 DEF LayerInv, LayerType
  <2>4. LayerType'
    BY <1>6, <2>3 DEF UpdateFirst, SetFirst, LayerInv, LayerType, configVars, poolVars, lifeVars
  <2>5. \A m \in Name, v \in Version : Made(m, v) => Made(m, v)'
    <3>1. UNCHANGED datasetDb /\ version \in Version
      BY <1>6, <1>t DEF UpdateFirst, SetFirst, LayerType
    <3>2. \A m \in Name, v \in Version : definition'[m][v] = definition[m][v]
                                        \/ definition'[m][v] = version
      BY <1>t, <2>1, <2>2 DEF LayerType
    <3> QED BY <3>1, <3>2 DEF Made
  <2>6. \A m \in Name : Made(m, datasets[m])'
    BY <1>6, <2>5 DEF UpdateFirst, LayerInv, LayerType, Made
  <2> QED BY <1>6, <2>4, <2>6 DEF UpdateFirst, LayerInv, Loop, Present, configVars, poolVars
<1>7. ASSUME NEW n \in Name, UpdateSecond(n) PROVE LayerInv'
  <2>1. datasets[n] \in Version /\ db = version
    BY <1>7 DEF UpdateSecond, LayerInv, LayerType, Present, Loop
  <2>2. /\ definition' = [definition EXCEPT ![n] =
                            [definition[n] EXCEPT ![datasets[n]] = version]]
        /\ datasetDb' = [datasetDb EXCEPT ![n] = [datasetDb[n] EXCEPT ![datasets[n]] = version]]
    BY <1>7, <2>1 DEF UpdateSecond, SetSecond
  <2>3. /\ definition' \in [Name -> [Version -> Version \cup {Nil}]]
        /\ datasetDb' \in [Name -> [Version -> Version \cup {Nil}]]
    BY <2>1, <2>2 DEF LayerInv, LayerType
  <2>4. LayerType'
    BY <1>7, <2>3 DEF UpdateSecond, LayerInv, LayerType, configVars, poolVars, lifeVars
  <2>5. \A m \in Name, v \in Version : Made(m, v) => Made(m, v)'
    BY <2>1, <2>2 DEF LayerInv, LayerType, Made
  <2>6. \A m \in Name : Made(m, datasets[m])'
    BY <1>7, <2>5 DEF UpdateSecond, LayerInv, LayerType, Made
  <2> QED BY <1>7, <2>4, <2>6 DEF UpdateSecond, LayerInv, Loop, Present, configVars, poolVars
<1>8. ASSUME NEW n \in Name, RemoveDataset(n) PROVE LayerInv'
  <2>1. LayerType'
    BY <1>8 DEF RemoveDataset, LayerInv, LayerType, configVars, poolVars, lifeVars
  <2>2. \A m \in Name : m # n => datasets'[m] = datasets[m]
    BY <1>8 DEF RemoveDataset, LayerInv, LayerType
  <2>3. datasets'[n] = Nil
    BY <1>8 DEF RemoveDataset, LayerInv, LayerType
  <2>4. \A m \in Name : Made(m, datasets[m])'
    BY <1>8, <2>2, <2>3 DEF RemoveDataset, LayerInv, Made
  <2>5. todo' \subseteq Present' \ names'
    BY <1>8, <2>2 DEF RemoveDataset, LayerInv, LayerType, Present, configVars
  <2> QED BY <1>8, <2>1, <2>4, <2>5 DEF RemoveDataset, LayerInv, Loop, configVars, poolVars
<1>9. ASSUME NEW n \in Name, AddDataset(n) PROVE LayerInv'
  <2>1. db = version /\ version \in Version
    BY <1>9 DEF AddDataset, LayerInv, LayerType, Loop
  <2>2. /\ definition' = [definition EXCEPT ![n] = [definition[n] EXCEPT ![version] = version]]
        /\ datasetDb' = [datasetDb EXCEPT ![n] = [datasetDb[n] EXCEPT ![version] = version]]
        /\ datasets' = [datasets EXCEPT ![n] = version]
    BY <1>9, <2>1 DEF AddDataset
  <2>3. /\ definition' \in [Name -> [Version -> Version \cup {Nil}]]
        /\ datasetDb' \in [Name -> [Version -> Version \cup {Nil}]]
        /\ datasets' \in [Name -> Version \cup {Nil}]
    BY <2>1, <2>2 DEF LayerInv, LayerType
  <2>4. LayerType'
    BY <1>9, <2>3 DEF AddDataset, LayerInv, LayerType, configVars, poolVars, lifeVars
  <2>5. \A m \in Name, v \in Version : Made(m, v) => Made(m, v)'
    BY <2>1, <2>2 DEF LayerInv, LayerType, Made
  <2>6. definition'[n][version] = version /\ datasetDb'[n][version] = version
    BY <1>t, <2>1, <2>2 DEF LayerType
  <2>7. \A m \in Name : Made(m, datasets[m])'
    <3> SUFFICES ASSUME NEW m \in Name PROVE Made(m, datasets[m])'
      OBVIOUS
    <3>1. CASE m = n
      <4>1. datasets'[n] = version
        BY <1>t, <2>1, <2>2 DEF LayerType
      <4> QED BY <2>1, <2>6, <3>1, <4>1 DEF Made
    <3>2. CASE m # n
      <4>1. datasets'[m] = datasets[m]
        BY <2>2, <3>2 DEF LayerInv, LayerType
      <4> QED BY <2>5, <4>1 DEF LayerInv, LayerType, Made
    <3> QED BY <3>1, <3>2
  <2> QED BY <1>9, <2>4, <2>7 DEF AddDataset, LayerInv, Loop, configVars, poolVars
<1>10. ASSUME NEW n \in Name, LowerDataset(n) PROVE LayerInv'
  <2>1. datasets[n] \in Version
    BY <1>10 DEF LowerDataset, LayerInv, LayerType, Present
  <2>2. definition[n][datasets[n]] \in Version
    <3>a. definition[n] \in [Version -> Version \cup {Nil}]
      BY <1>t DEF LayerType
    <3>1. definition[n][datasets[n]] \in Version \cup {Nil}
      BY <3>a, <2>1
    <3>2. definition[n][datasets[n]] # Nil
      BY <2>1 DEF LayerInv, Made
    <3> QED BY <3>1, <3>2
  <2>4. lowered' \in SUBSET (Name \X Version)
    <3>1. lowered' = lowered \cup {<<n, definition[n][datasets[n]]>>}
      BY <1>10 DEF LowerDataset
    <3>2. <<n, definition[n][datasets[n]]>> \in Name \X Version
      BY <2>2
    <3>3. lowered \in SUBSET (Name \X Version)
      BY <1>t DEF LayerType
    <3> QED BY <3>1, <3>2, <3>3
  <2>3. LayerType'
    BY <1>10, <1>t, <2>4 DEF LowerDataset, LayerType, configVars, poolVars, lifeVars
  <2> QED BY <1>10, <2>3 DEF LowerDataset, LayerInv, Loop, Present, Made, configVars, poolVars
<1>11. CASE EndLoop
  <2>1. LayerType'
    BY <1>11 DEF EndLoop, Return, Removable, Lowerable, LayerInv, LayerType, Present,
                 configVars, poolVars, datasetVars, lifeVars
  <2>2. /\ UNCHANGED <<version, names, db, datasets, definition, datasetDb, half>>
        /\ half = {}
    BY <1>11 DEF EndLoop, configVars, poolVars, datasetVars
  <2>3. Present' = Present /\ \A n \in Name : Made(n, datasets[n])'
    BY <2>2 DEF LayerInv, Made, Present
  <2>4. CASE phase = "update" /\ phase' = "remove" /\ todo' = Present \ names
    BY <2>1, <2>2, <2>3, <2>4 DEF LayerInv, Loop
  <2>5. CASE phase = "remove" /\ phase' = "add" /\ todo' = names \ Present
    BY <2>1, <2>2, <2>3, <2>5 DEF LayerInv, Loop
  <2>6. CASE phase = "add" /\ phase' = "lower" /\ todo' = Present
    BY <2>1, <2>2, <2>3, <2>6 DEF LayerInv, Loop
  <2>7. CASE phase = "lower" /\ phase' = "idle"
    <3>1. db = version /\ version \in Nat
      BY <1>t, <2>7 DEF LayerInv, LayerType, Loop
    <3>2. db' = version' /\ version' \in Nat
      BY <2>2, <3>1
    <3>3. phase' \notin Loop /\ phase' # "open"
      BY <2>7 DEF Loop
    <3>4. half' = {}
      BY <2>2
    <3> QED BY <2>1, <2>3, <2>7, <3>2, <3>3, <3>4 DEF LayerInv
  <2> QED BY <1>11, <2>4, <2>5, <2>6, <2>7 DEF EndLoop, Return, Removable, Lowerable
<1>12. CASE Stop
  <2>1. LayerType'
    BY <1>12 DEF Stop, LayerInv, LayerType, configVars, datasetVars, updateVars
  <2> QED BY <1>12, <2>1 DEF Stop, LayerInv, Loop, Present, Made, configVars, datasetVars,
                             updateVars
<1> QED BY <1>1, <1>2, <1>3, <1>4, <1>5, <1>6, <1>7, <1>8, <1>9, <1>10, <1>11, <1>12
        DEF LayerStep, UpdateStep

-----------------------------------------------------------------------------
(***************************************************************************)
(* The pools.                                                              *)
(***************************************************************************)

(* The pool that is open is the current one or, while there is none, that   *)
(* of the last configuration.  Between the closing of a pool and the        *)
(* opening of the next none is open.                                        *)
PoolInv ==
  /\ \A v \in Version : pools[v] = "open" => v = db \/ (db = Nil /\ v = version)
  /\ phase = "open" => \A v \in Version : pools[v] # "open"

(* What a step does to the versions: only the new pool is opened. *)
LEMMA PoolsChange ==
  ASSUME LayerInv, LayerStep
  PROVE  /\ version' = version \/ version' = version + 1
         /\ phase \in Loop => version' = version
         /\ \A v \in Version : pools'[v] = "open" => pools[v] = "open" \/ v = version
<1>t. LayerType /\ version \in Nat
  BY VersionFact DEF LayerInv, LayerType
<1>1. ASSUME NEW S \in SUBSET Name, ClosePool(S)
      PROVE  /\ version' = version + 1 /\ phase \notin Loop
             /\ \A v \in Version : pools'[v] = "open" => pools[v] = "open"
  BY <1>1, <1>t DEF ClosePool, PoolClosed, LayerType, Loop
<1>2. CASE OpenPool
  BY <1>2, <1>t DEF OpenPool, LayerType, configVars
<1>3. CASE Stop
  BY <1>3, <1>t DEF Stop, LayerType, configVars
<1>4. CASE UNCHANGED <<version, pools>>
  BY <1>4
<1>5. CASE OpenFails
  BY <1>5, <1>t DEF OpenFails, LayerType, configVars
<1> QED BY <1>1, <1>2, <1>3, <1>4, <1>5
        DEF LayerStep, UpdateStep, UpdatePanics, StopPanics, MapRace, CloseFails,
            UpdateFirst, UpdateSecond, RemoveDataset, AddDataset, LowerDataset, EndLoop,
            configVars, poolVars

LEMMA PoolKeeps ==
  ASSUME LayerInv, PoolInv, LayerStep PROVE PoolInv'
<1>t. LayerType /\ version \in Nat /\ Version \subseteq Nat /\ Nil \notin Version
  BY VersionFact DEF LayerInv, LayerType
<1>1. ASSUME NEW S \in SUBSET Name, ClosePool(S) PROVE PoolInv'
  <2>1. \A v \in Version : pools'[v] # "open"
    BY <1>1, <1>t DEF ClosePool, PoolClosed, LayerType, PoolInv
  <2> QED BY <2>1 DEF PoolInv
<1>2. CASE OpenPool
  <2>1. db' = version /\ phase' = "update" /\ pools' = [pools EXCEPT ![version] = "open"]
    BY <1>2 DEF OpenPool
  <2>2. \A v \in Version : pools'[v] = "open" => v = version
    BY <1>2, <1>t, <2>1 DEF OpenPool, LayerType, PoolInv
  <2> QED BY <2>1, <2>2 DEF PoolInv
<1>3. CASE OpenFails
  <2>1. /\ phase = "open" /\ phase' = "idle" /\ db' = Nil /\ version' = version
        /\ pools' = pools \/ pools' = [pools EXCEPT ![version] = "open"]
    BY <1>3 DEF OpenFails, Return, configVars
  <2>2. \A v \in Version : pools'[v] = "open" => v = version
    BY <1>t, <2>1 DEF LayerType, PoolInv
  <2> QED BY <2>1, <2>2 DEF PoolInv
<1>4. CASE Stop
  <2>1. \A v \in Version : pools'[v] = "open" => pools[v] = "open"
    BY <1>4, <1>t DEF Stop, LayerType
  <2>2. db' = db /\ phase' = phase /\ version' = version
    BY <1>4 DEF Stop, updateVars, configVars
  <2> QED BY <2>1, <2>2 DEF PoolInv
<1>5. CASE UNCHANGED <<version, pools, db>> /\ (phase' = phase \/ phase' # "open")
  BY <1>5 DEF PoolInv
<1>6. CASE EndLoop
  <2>1. UNCHANGED <<version, pools, db>> /\ phase' # "open"
    BY <1>6 DEF EndLoop, Return, configVars, poolVars
  <2> QED BY <1>5, <2>1
<1> QED BY <1>1, <1>2, <1>3, <1>4, <1>5, <1>6
        DEF LayerStep, UpdateStep, UpdatePanics, StopPanics, MapRace, CloseFails, Return,
            UpdateFirst, UpdateSecond, RemoveDataset, AddDataset, LowerDataset, updateVars,
            configVars, poolVars

LEMMA StepKinds == [Next]_vars => LayerStep \/ UNCHANGED layerVars
<1> SUFFICES ASSUME [Next]_vars PROVE LayerStep \/ UNCHANGED layerVars
  OBVIOUS
<1>1. ASSUME NEW r \in Request, RequestStep(r) PROVE LayerStep \/ UNCHANGED layerVars
  BY <1>1 DEF RequestStep, LayerStep, Lookup, ReadEarly, ReadDb, ReadLate, Send
<1>2. CASE UNCHANGED vars
  BY <1>2 DEF vars
<1> QED BY <1>1, <1>2 DEF Next, LayerStep

LEMMA LayerKept == LayerInv /\ PoolInv /\ [Next]_vars => LayerInv' /\ PoolInv'
<1>1. ASSUME LayerInv, PoolInv, UNCHANGED layerVars PROVE LayerInv' /\ PoolInv'
  <2>1. /\ UNCHANGED <<version, names, pools, db, datasets, definition, datasetDb, lowered>>
        /\ UNCHANGED <<phase, todo, half, started, process>>
    BY <1>1 DEF layerVars, configVars, poolVars, datasetVars, updateVars, lifeVars
  <2>2. LayerType'
    BY <1>1, <2>1 DEF LayerInv, LayerType
  <2>3. PoolInv'
    BY <1>1, <2>1 DEF PoolInv
  <2>4. Present' = Present
    BY <2>1 DEF Present
  <2>5. \A n \in Name : Made(n, datasets[n])'
    BY <1>1, <2>1 DEF LayerInv, Made
  <2> QED BY <1>1, <2>1, <2>2, <2>3, <2>4, <2>5 DEF LayerInv
<1> QED BY <1>1, StepKinds, LayerKeeps, PoolKeeps

LEMMA PoolInit == Init => PoolInv
BY VersionFact DEF Init, PoolInv

-----------------------------------------------------------------------------
(***************************************************************************)
(* What a request that is served has used.                                 *)
(***************************************************************************)

(* Version k has been reached, and the pools of earlier ones are not open,  *)
(* never to be opened again.                                                *)
Fresh(k) == k =< version /\ \A p \in Version : p < k => pools[p] # "open"

LEMMA FreshStays ==
  ASSUME LayerInv, LayerStep, NEW k \in Nat, Fresh(k) PROVE Fresh(k)'
<1>1. version \in Nat /\ Version \subseteq Nat
  BY VersionFact DEF LayerInv, LayerType
<1> QED BY <1>1, PoolsChange DEF Fresh

LEMMA NewIsFresh ==
  ASSUME LayerInv, PoolInv, phase \in Loop PROVE Fresh(version)
<1>1. version \in Nat /\ Version \subseteq Nat /\ db = version
  BY VersionFact DEF LayerInv, LayerType
<1> QED BY <1>1, VersionFact DEF Fresh, PoolInv

(* A Dataset never has a pool newer than its definition: that comes first.  *)
VersionInv ==
  \A n \in Name, m \in Version : Fresh(definition[n][m]) /\ datasetDb[n][m] =< definition[n][m]

(* What a step does to a Dataset. *)
LEMMA Assigned ==
  ASSUME LayerInv, LayerStep, NEW n \in Name, NEW m \in Version
  PROVE  \/ definition'[n][m] = definition[n][m] /\ datasetDb'[n][m] = datasetDb[n][m]
         \/ /\ phase \in Loop /\ definition'[n][m] = version
            /\ datasetDb'[n][m] \in {datasetDb[n][m], version}
<1>t. /\ LayerType /\ version \in Version
      /\ definition \in [Name -> [Version -> Version \cup {Nil}]]
      /\ datasetDb \in [Name -> [Version -> Version \cup {Nil}]]
  BY DEF LayerInv, LayerType
<1>1. ASSUME NEW i \in Name, UpdateFirst(i)
      PROVE  /\ datasets[i] \in Version /\ UNCHANGED datasetDb /\ phase \in Loop
             /\ definition' = [definition EXCEPT ![i][datasets[i]] = version]
  BY <1>1 DEF UpdateFirst, SetFirst, LayerInv, LayerType, Present, Loop
<1>2. ASSUME NEW i \in Name, UpdateSecond(i)
      PROVE  /\ datasets[i] \in Version /\ phase \in Loop
             /\ definition' = [definition EXCEPT ![i][datasets[i]] = version]
             /\ datasetDb' = [datasetDb EXCEPT ![i][datasets[i]] = version]
  BY <1>2 DEF UpdateSecond, SetSecond, LayerInv, LayerType, Present, Loop
<1>3. ASSUME NEW i \in Name, AddDataset(i)
      PROVE  /\ phase \in Loop
             /\ definition' = [definition EXCEPT ![i][version] = version]
             /\ datasetDb' = [datasetDb EXCEPT ![i][version] = version]
  BY <1>3 DEF AddDataset, LayerInv, Loop
<1>4. CASE \E i \in Name : UpdateFirst(i)
  BY <1>t, <1>1, <1>4
<1>5. CASE \E i \in Name : UpdateSecond(i)
  BY <1>t, <1>2, <1>5
<1>6. CASE \E i \in Name : AddDataset(i)
  BY <1>t, <1>3, <1>6
<1>7. CASE UNCHANGED <<definition, datasetDb>>
  BY <1>7
<1> QED BY <1>4, <1>5, <1>6, <1>7
        DEF LayerStep, UpdateStep, ClosePool, OpenPool, Stop, UpdatePanics, StopPanics, MapRace,
            CloseFails, OpenFails, RemoveDataset, LowerDataset, EndLoop, datasetVars

LEMMA VersionKeeps ==
  ASSUME LayerInv, PoolInv, VersionInv, LayerStep PROVE VersionInv'
<1> SUFFICES ASSUME NEW n \in Name, NEW m \in Version
             PROVE  Fresh(definition[n][m])' /\ datasetDb'[n][m] =< definition'[n][m]
  BY DEF VersionInv
<1>1. /\ version \in Nat /\ version' \in Nat /\ definition[n][m] \in Nat
      /\ datasetDb[n][m] \in Nat
  <2>1. LayerType /\ LayerType'
    BY LayerKeeps DEF LayerInv
  <2>2. /\ definition[n] \in [Version -> Version \cup {Nil}]
        /\ datasetDb[n] \in [Version -> Version \cup {Nil}]
    BY <2>1 DEF LayerType
  <2>3. Version \cup {Nil} \subseteq Nat
    BY VersionFact DEF Nil
  <2>4. version \in Version /\ version' \in Version
    BY <2>1 DEF LayerType
  <2> QED BY <2>2, <2>3, <2>4
<1>2. /\ Fresh(definition[n][m]) /\ datasetDb[n][m] =< definition[n][m]
      /\ definition[n][m] =< version
  BY DEF VersionInv, Fresh
<1>3. CASE definition'[n][m] = definition[n][m] /\ datasetDb'[n][m] = datasetDb[n][m]
  <2>1. \A k \in Nat : k = definition[n][m] => Fresh(k)'
    BY <1>2, FreshStays
  <2> QED BY <1>1, <1>2, <1>3, <2>1 DEF Fresh
<1>4. CASE /\ phase \in Loop /\ definition'[n][m] = version
           /\ datasetDb'[n][m] \in {datasetDb[n][m], version}
  <2>1. \A k \in Nat : k = version => Fresh(k)'
    BY <1>4, FreshStays, NewIsFresh
  <2> QED BY <1>1, <1>2, <1>4, <2>1 DEF Fresh
<1> QED BY <1>3, <1>4, Assigned

LEMMA VersionInit == Init => VersionInv
BY VersionFact DEF Init, VersionInv, Fresh

RequestType ==
  /\ pc \in [Request -> {"idle", "early", "db", "late", "send", "served", "error",
                         "not found"}]
  /\ ds \in [Request -> [name : Name, made : Version \cup {Nil}]]
  /\ early \in [Request -> Version \cup {Nil}]
  /\ pool \in [Request -> Version \cup {Nil}]
  /\ late \in [Request -> SUBSET Version]
  /\ again \in [Request -> BOOLEAN]

PoolOf(r) == datasetDb[ds[r].name][ds[r].made]

(* What one request has read.  A definition newer than its pool tells that  *)
(* the pool is closed.                                                      *)
ReadInv(r) ==
  /\ Made(ds[r].name, ds[r].made)
  /\ pc[r] \in {"early", "db", "late", "send"} => ds[r].made # Nil
  /\ pc[r] \in {"idle", "early", "db"} => late[r] = {}
  /\ pc[r] \in {"late", "send"} => pool[r] # Nil /\ pool[r] =< PoolOf(r)
  /\ Fresh(early[r])
  /\ \A d \in late[r] : Fresh(d) /\ pool[r] =< d
  /\ pc[r] = "send" => late[r] # {}
  /\ pc[r] = "served" => late[r] = {pool[r]} /\ early[r] =< pool[r]

RequestInv == RequestType /\ \A r \in Request : ReadInv(r)

LEMMA RequestInit == Init => RequestInv
<1> SUFFICES ASSUME Init PROVE RequestInv
  OBVIOUS
<1> USE VersionFact
<1>1. RequestType
  <2>1. (CHOOSE n \in Name : TRUE) \in Name
    BY NameAssumption
  <2>2. ds \in [Request -> [name : Name, made : Version \cup {Nil}]]
    BY <2>1 DEF Init
  <2>3. /\ pc \in [Request -> {"idle", "early", "db", "late", "send", "served", "error",
                           "not found"}]
        /\ again \in [Request -> BOOLEAN]
    BY DEF Init
  <2>4. early \in [Request -> Version \cup {Nil}] /\ pool \in [Request -> Version \cup {Nil}]
    BY DEF Init
  <2>5. late \in [Request -> SUBSET Version]
    BY DEF Init
  <2> QED BY <2>2, <2>3, <2>4, <2>5 DEF RequestType
<1>2. Fresh(Nil)
  BY DEF Init, Fresh
<1>3. ASSUME NEW r \in Request PROVE ReadInv(r)
  <2>1. /\ pc[r] = "idle" /\ ds[r].made = Nil /\ late[r] = {} /\ early[r] = Nil
    BY DEF Init
  <2> QED BY <2>1, <1>2 DEF ReadInv, Made
<1> QED BY <1>1, <1>3 DEF RequestInv

LEMMA DatasetBounds ==
  ASSUME LayerInv, VersionInv, NEW n \in Name, NEW m \in Version
  PROVE  /\ definition[n][m] \in Nat /\ datasetDb[n][m] \in Nat
         /\ datasetDb[n][m] =< definition[n][m] /\ definition[n][m] =< version
         /\ datasetDb[n][m] =< version
<1>1. Version \cup {Nil} \subseteq Nat
  BY VersionFact
<1>2. /\ definition[n] \in [Version -> Version \cup {Nil}]
      /\ datasetDb[n] \in [Version -> Version \cup {Nil}] /\ version \in Version
  BY DEF LayerInv, LayerType
<1>3. definition[n][m] \in Nat /\ datasetDb[n][m] \in Nat /\ version \in Nat
  BY <1>1, <1>2
<1>4. datasetDb[n][m] =< definition[n][m] /\ definition[n][m] =< version
  BY DEF VersionInv, Fresh
<1> QED BY <1>3, <1>4

(* A step of the layer leaves what the requests have read in order. *)
LEMMA ReadKept ==
  ASSUME LayerInv, PoolInv, VersionInv, RequestType, LayerStep, UNCHANGED requestVars,
         NEW r \in Request, ReadInv(r)
  PROVE  ReadInv(r)'
<1>v. Version \subseteq Nat /\ Nil = 0 /\ version \in Version /\ Nil \notin Version
  BY VersionFact DEF LayerInv, LayerType
<1>t. /\ ds[r].name \in Name /\ ds[r].made \in Version \cup {Nil}
      /\ early[r] \in Nat /\ late[r] \subseteq Nat /\ pool[r] \in Nat
  <2>1. ds[r] \in [name : Name, made : Version \cup {Nil}]
    BY DEF RequestType
  <2>2. early[r] \in Version \cup {Nil} /\ pool[r] \in Version \cup {Nil}
    BY DEF RequestType
  <2>3. late[r] \in SUBSET Version
    BY DEF RequestType
  <2>4. early[r] \in Nat /\ pool[r] \in Nat
    <3>1. Version \cup {Nil} \subseteq Nat
      BY VersionFact
    <3> QED BY <2>2, <3>1
  <2>5. late[r] \subseteq Nat
    BY <1>v, <2>3
  <2> QED BY <2>1, <2>4, <2>5
<1>u. pc' = pc /\ ds' = ds /\ early' = early /\ pool' = pool /\ late' = late
  BY DEF requestVars
<1>1. Fresh(early[r])'
  <2>1. \A k \in Nat : Fresh(k) => Fresh(k)'
    BY FreshStays
  <2> QED BY <2>1, <1>t, <1>u DEF ReadInv, Fresh
<1>2. \A d \in late[r] : Fresh(d)'
  BY FreshStays, <1>t DEF ReadInv
<1>3. CASE ds[r].made = Nil
  BY <1>1, <1>2, <1>3, <1>u DEF ReadInv, Made, Fresh
<1>4. CASE ds[r].made \in Version
  <2> DEFINE n == ds[r].name
             m == ds[r].made
  <2>1. \/ definition'[n][m] = definition[n][m] /\ datasetDb'[n][m] = datasetDb[n][m]
        \/ definition'[n][m] = version /\ datasetDb'[n][m] \in {datasetDb[n][m], version}
    BY <1>t, <1>4, Assigned
  <2>2. /\ datasetDb[n][m] \in Nat /\ datasetDb[n][m] =< version
    <3>1. \A i \in Name, j \in Version : datasetDb[i][j] \in Nat /\ datasetDb[i][j] =< version
      BY DatasetBounds
    <3> QED BY <3>1, <1>t, <1>4
  <2>3. Made(n, m)'
    <3>1. definition[n][m] # Nil /\ datasetDb[n][m] # Nil /\ version # Nil
      BY <1>4, <1>v DEF Made, ReadInv
    <3>2. definition'[n][m] # Nil /\ datasetDb'[n][m] # Nil
      BY <2>1, <3>1
    <3>3. ds'[r].name = n /\ ds'[r].made = m
      BY <1>u
    <3> QED BY <3>2, <3>3 DEF Made
  <2>4. pc[r] \in {"late", "send"} => pool[r] =< datasetDb'[n][m]
    <3>1. pool[r] \in Nat /\ version \in Nat /\ datasetDb[n][m] \in Nat
      BY <1>t, <1>v, <2>2
    <3>2. pc[r] \in {"late", "send"} => pool[r] =< datasetDb[n][m]
      BY DEF ReadInv, PoolOf
    <3> QED BY <2>1, <2>2, <3>1, <3>2
  <2>5. Made(ds[r].name, ds[r].made)'
    BY <2>3, <1>u DEF Made
  <2>6. PoolOf(r)' = datasetDb'[n][m]
    BY <1>u DEF PoolOf
  <2> QED BY <1>1, <1>2, <2>4, <2>5, <2>6, <1>u DEF ReadInv, Fresh
<1> QED BY <1>3, <1>4, <1>t

(* A request that does nothing while the layer does not change either. *)
LEMMA ReadUntouched ==
  ASSUME UNCHANGED layerVars, NEW r \in Request, ReadInv(r),
         pc'[r] = pc[r], ds'[r] = ds[r], early'[r] = early[r], pool'[r] = pool[r],
         late'[r] = late[r]
  PROVE  ReadInv(r)'
BY DEF ReadInv, Made, Fresh, PoolOf, layerVars, configVars, poolVars, datasetVars

LEMMA LookupKeeps ==
  ASSUME LayerInv, RequestInv, NEW r \in Request, NEW n \in Name, Lookup(r, n)
  PROVE  RequestType' /\ ReadInv(r)'
<1>1. RequestType /\ ReadInv(r) /\ datasets[n] \in Version \cup {Nil} /\ Made(n, datasets[n])
  BY DEF RequestInv, LayerInv, LayerType
<1>2. UNCHANGED layerVars
  BY DEF Lookup
<1>3. /\ ds'[r].name = n /\ ds'[r].made = datasets[n]
      /\ pc'[r] = (IF datasets[n] = Nil THEN "not found" ELSE "early")
      /\ early'[r] = early[r] /\ late'[r] = late[r]
      /\ pc[r] = "idle"
  BY <1>1 DEF Lookup, RequestType
<1>4. RequestType'
  <2>1. ds' \in [Request -> [name : Name, made : Version \cup {Nil}]]
    BY <1>1 DEF Lookup, RequestType
  <2>2. again' \in [Request -> BOOLEAN]
    BY <1>1 DEF Lookup, RequestType
  <2> QED BY <1>1, <2>1, <2>2 DEF Lookup, RequestType
<1>5. late'[r] = {}
  BY <1>1, <1>3 DEF ReadInv
<1> QED BY <1>1, <1>2, <1>3, <1>4, <1>5
        DEF ReadInv, Made, Fresh, layerVars, configVars, poolVars, datasetVars

LEMMA ReadsKeep ==
  ASSUME LayerInv, VersionInv, RequestInv, NEW r \in Request,
         ReadEarly(r) \/ ReadDb(r) \/ ReadLate(r)
  PROVE  RequestType' /\ ReadInv(r)'
<1>1. /\ RequestType /\ ReadInv(r) /\ ds[r].name \in Name /\ ds[r].made \in Version
      /\ Version \subseteq Nat /\ Nil \notin Version /\ Nil = 0
  <2>1. RequestType /\ ReadInv(r) /\ pc[r] \in {"early", "db", "late"}
    BY DEF RequestInv, ReadEarly, ReadDb, ReadLate
  <2>2. ds[r] \in [name : Name, made : Version \cup {Nil}]
    BY <2>1 DEF RequestType
  <2> QED BY <2>1, <2>2, VersionFact DEF ReadInv
<1>2. UNCHANGED layerVars /\ ds' = ds
  BY DEF ReadEarly, ReadDb, ReadLate
<1>3. /\ DefinitionOf(r) \in Version /\ PoolOf(r) \in Version /\ Fresh(DefinitionOf(r))
      /\ PoolOf(r) =< DefinitionOf(r)
  <2>1. \A n \in Name, m \in Version :
          /\ definition[n][m] \in Version \cup {Nil} /\ datasetDb[n][m] \in Version \cup {Nil}
          /\ Fresh(definition[n][m]) /\ datasetDb[n][m] =< definition[n][m]
    <3>1. /\ definition \in [Name -> [Version -> Version \cup {Nil}]]
          /\ datasetDb \in [Name -> [Version -> Version \cup {Nil}]]
      BY DEF LayerInv, LayerType
    <3> QED BY <3>1 DEF VersionInv
  <2>2. Made(ds[r].name, ds[r].made)
    BY <1>1 DEF ReadInv
  <2> QED BY <1>1, <2>1, <2>2 DEF Made, DefinitionOf, PoolOf
<1>4. CASE ReadEarly(r)
  <2>1. /\ early' = [early EXCEPT ![r] = DefinitionOf(r)] /\ pc' = [pc EXCEPT ![r] = "db"]
        /\ pool' = pool /\ late' = late /\ again' = again /\ pc[r] = "early"
    BY <1>4 DEF ReadEarly
  <2>2. RequestType'
    BY <1>1, <1>2, <1>3, <2>1 DEF RequestType
  <2>3. early'[r] = DefinitionOf(r) /\ pc'[r] = "db" /\ late'[r] = {}
    BY <1>1, <2>1 DEF RequestType, ReadInv
  <2> QED BY <1>1, <1>2, <1>3, <2>2, <2>3
          DEF ReadInv, Made, Fresh, layerVars, configVars, poolVars, datasetVars
<1>5. CASE ReadDb(r)
  <2>1. /\ pool' = [pool EXCEPT ![r] = PoolOf(r)] /\ pc' = [pc EXCEPT ![r] = "late"]
        /\ early' = early /\ late' = late /\ again' = again /\ pc[r] = "db"
    BY <1>5 DEF ReadDb, PoolOf
  <2>2. RequestType'
    BY <1>1, <1>2, <1>3, <2>1 DEF RequestType
  <2>3. pool'[r] = PoolOf(r) /\ pc'[r] = "late" /\ late'[r] = {}
    BY <1>1, <2>1 DEF RequestType, ReadInv
  <2>4. PoolOf(r)' = PoolOf(r)
    BY <1>2 DEF PoolOf, layerVars, datasetVars
  <2>5. pool'[r] =< PoolOf(r)' /\ pool'[r] # Nil
    <3>1. PoolOf(r) \in Nat
      BY <1>1, <1>3
    <3> QED BY <1>1, <1>3, <2>3, <2>4, <3>1
  <2>6. Fresh(early[r]) /\ Made(ds[r].name, ds[r].made)
    BY <1>1 DEF ReadInv
  <2> QED BY <1>1, <1>2, <2>1, <2>2, <2>3, <2>5, <2>6
          DEF ReadInv, Made, Fresh, layerVars, configVars, poolVars, datasetVars
<1>6. CASE ReadLate(r)
  <2>1. /\ late' = [late EXCEPT ![r] = late[r] \cup {DefinitionOf(r)}]
        /\ pc' = [pc EXCEPT ![r] = "send"]
        /\ early' = early /\ pool' = pool /\ again' = again /\ pc[r] = "late"
    BY <1>6 DEF ReadLate
  <2>2. late[r] \cup {DefinitionOf(r)} \in SUBSET Version
    BY <1>1, <1>3 DEF RequestType
  <2>3. RequestType'
    BY <1>1, <1>2, <2>1, <2>2 DEF RequestType
  <2>4. late'[r] = late[r] \cup {DefinitionOf(r)} /\ pc'[r] = "send"
    BY <1>1, <2>1 DEF RequestType
  <2>5. PoolOf(r)' = PoolOf(r) /\ pool[r] =< PoolOf(r) /\ pool[r] # Nil
    BY <1>1, <1>2, <2>1 DEF PoolOf, layerVars, datasetVars, ReadInv
  <2>6. pool[r] =< DefinitionOf(r)
    <3>1. pool[r] \in Version
      BY <1>1, <2>5 DEF RequestType
    <3>2. pool[r] \in Nat /\ PoolOf(r) \in Nat /\ DefinitionOf(r) \in Nat
      BY <1>1, <1>3, <3>1
    <3> QED BY <1>3, <2>5, <3>2
  <2>7. \A d \in late'[r] : Fresh(d) /\ pool[r] =< d
    BY <1>1, <1>3, <2>4, <2>6 DEF ReadInv
  <2> QED BY <1>1, <1>2, <2>1, <2>3, <2>4, <2>5, <2>7
          DEF ReadInv, Made, Fresh, layerVars, configVars, poolVars, datasetVars
<1> QED BY <1>4, <1>5, <1>6

(* A request is only served through an open pool, and so through one that   *)
(* none of the definitions it read is newer than.                           *)
LEMMA SendKeeps ==
  ASSUME RequestInv, NEW r \in Request, Send(r)
  PROVE  RequestType' /\ ReadInv(r)'
<1>1. /\ RequestType /\ ReadInv(r) /\ pc[r] = "send" /\ pool[r] \in Version
      /\ late[r] \subseteq Version /\ late[r] # {} /\ early[r] \in Version \cup {Nil}
      /\ Version \subseteq Nat
  BY VersionFact DEF RequestInv, Send, RequestType, ReadInv
<1>2. UNCHANGED layerVars /\ ds' = ds /\ early' = early /\ pool' = pool /\ late' = late
  BY DEF Send
<1>3. /\ pc' \in [Request -> {"idle", "early", "db", "late", "send", "served", "error",
                             "not found"}]
      /\ pc'[r] \in {"error", "late", "served"}
      /\ pc'[r] = "served" => pools[pool[r]] = "open"
  BY <1>1 DEF Send, RequestType
<1>4. again' \in [Request -> BOOLEAN]
  BY <1>1 DEF Send, RequestType
<1>5. RequestType'
  BY <1>1, <1>2, <1>3, <1>4 DEF RequestType
<1>6. ASSUME pools[pool[r]] = "open"
      PROVE  late[r] = {pool[r]} /\ early[r] =< pool[r]
  <2>1. \A k \in Nat : Fresh(k) => k =< pool[r]
    <3>1. pool[r] \in Nat
      BY <1>1
    <3> QED BY <1>1, <1>6, <3>1 DEF Fresh
  <2>2. early[r] =< pool[r]
    <3>1. Version \cup {Nil} \subseteq Nat
      BY VersionFact
    <3> QED BY <1>1, <2>1, <3>1 DEF ReadInv
  <2>3. \A d \in late[r] : d = pool[r]
    <3> SUFFICES ASSUME NEW d \in late[r] PROVE d = pool[r]
      OBVIOUS
    <3>1. d \in Nat /\ pool[r] \in Nat
      BY <1>1
    <3>2. Fresh(d) /\ pool[r] =< d
      BY <1>1 DEF ReadInv
    <3> QED BY <2>1, <3>1, <3>2
  <2> QED BY <1>1, <2>2, <2>3
<1> QED BY <1>1, <1>2, <1>3, <1>5, <1>6
        DEF ReadInv, Made, Fresh, PoolOf, layerVars, configVars, poolVars, datasetVars

(* The invariant the theorems below rest on. *)
IInv == LayerInv /\ PoolInv /\ VersionInv /\ RequestInv

LEMMA RequestsKept == IInv /\ [Next]_vars => VersionInv' /\ RequestInv'
<1> SUFFICES ASSUME IInv, [Next]_vars PROVE VersionInv' /\ RequestInv'
  OBVIOUS
<1>i. LayerInv /\ PoolInv /\ VersionInv /\ RequestInv
  BY DEF IInv
<1>1. CASE UNCHANGED vars
  <2>1. UNCHANGED layerVars /\ UNCHANGED requestVars
    BY <1>1 DEF vars
  <2>2. \A r \in Request : ReadInv(r)'
    BY <1>i, <2>1, ReadUntouched DEF RequestInv, requestVars
  <2> QED BY <1>i, <2>1, <2>2 DEF RequestInv, RequestType, VersionInv, Fresh, requestVars,
          layerVars, configVars, poolVars, datasetVars
<1>2. CASE LayerStep
  <2>1. UNCHANGED requestVars
    BY <1>2 DEF LayerStep, UpdateStep, ClosePool, OpenPool, Stop, UpdatePanics, StopPanics,
                MapRace, CloseFails, OpenFails, UpdateFirst, UpdateSecond, RemoveDataset,
                AddDataset, LowerDataset, EndLoop
  <2>2. \A r \in Request : ReadInv(r)'
    BY <1>i, <1>2, <2>1, ReadKept DEF RequestInv
  <2> QED BY <1>i, <1>2, <2>1, <2>2, VersionKeeps DEF RequestInv, RequestType, requestVars
<1>3. ASSUME NEW r \in Request, RequestStep(r), ~MapRace(r)
      PROVE  VersionInv' /\ RequestInv'
  <2>1. RequestType' /\ ReadInv(r)'
    BY <1>i, <1>3, LookupKeeps, ReadsKeep, SendKeeps DEF RequestStep
  <2>2. UNCHANGED layerVars
    BY <1>3 DEF RequestStep, Lookup, ReadEarly, ReadDb, ReadLate, Send
  <2>3. \A o \in Request : o # r =>
           /\ pc'[o] = pc[o] /\ ds'[o] = ds[o] /\ early'[o] = early[o]
           /\ pool'[o] = pool[o] /\ late'[o] = late[o]
    BY <1>i, <1>3 DEF RequestStep, Lookup, ReadEarly, ReadDb, ReadLate, Send, RequestInv,
                      RequestType
  <2>4. \A o \in Request : ReadInv(o)'
    BY <1>i, <2>1, <2>2, <2>3, ReadUntouched DEF RequestInv
  <2> QED BY <1>i, <2>1, <2>2, <2>4 DEF RequestInv, VersionInv, Fresh, layerVars, configVars,
                                        poolVars, datasetVars
<1> QED BY <1>1, <1>2, <1>3 DEF Next, LayerStep

LEMMA Inductive == /\ Init => IInv
                   /\ IInv /\ [Next]_vars => IInv'
BY LayerInit, PoolInit, VersionInit, RequestInit, LayerKept, RequestsKept DEF IInv

THEOREM Invariant == Spec => []IInv
BY Inductive, PTL DEF Spec

(* The values the variables range over. *)
THEOREM TypeCorrect == Spec => []TypeOK
<1>1. IInv => TypeOK
  BY DEF IInv, LayerInv, LayerType, RequestInv, RequestType, TypeOK
<1> QED BY <1>1, Invariant, PTL

(* A request that was served used the pool and, for what it read after the  *)
(* pool, the definition of one configuration.                               *)
THEOREM ServedByOneConfigurationAlways == Spec => []ServedByOneConfiguration
<1>1. IInv => ServedByOneConfiguration
  BY DEF IInv, RequestInv, ReadInv, ServedByOneConfiguration
<1> QED BY <1>1, Invariant, PTL

-----------------------------------------------------------------------------
(***************************************************************************)
(* The pool that a failed update leaves open.                              *)
(***************************************************************************)

(* Nobody is ahead of the last configuration, and nobody has its pool       *)
(* before that is the current one.                                          *)
HolderInv ==
  /\ \A r \in Request : pool[r] =< version
  /\ db # version => ~Reachable(version)

LEMMA HolderInit == Init => HolderInv
BY DEF Init, HolderInv, Nil

(* How the current pool and the version change. *)
LEMMA DbChange ==
  ASSUME LayerInv, LayerStep
  PROVE  \/ version' = version + 1 /\ UNCHANGED <<datasetDb, db>>
         \/ version' = version /\ db' = db
         \/ version' = version /\ db' = version' /\ phase = "open"
         \/ version' = version /\ phase = "open" /\ db # version
<1>1. ASSUME NEW S \in SUBSET Name, ClosePool(S)
      PROVE  version' = version + 1 /\ UNCHANGED <<datasetDb, db>>
  BY <1>1 DEF ClosePool, datasetVars
<1>2. CASE OpenPool
  BY <1>2 DEF OpenPool, configVars
<1>3. CASE OpenFails
  BY <1>3 DEF OpenFails, LayerInv, configVars
<1> QED BY <1>1, <1>2, <1>3
        DEF LayerStep, UpdateStep, Stop, UpdatePanics, StopPanics, MapRace, CloseFails,
            UpdateFirst, UpdateSecond, RemoveDataset, AddDataset, LowerDataset, EndLoop,
            configVars, poolVars

LEMMA HolderKeptByLayer ==
  ASSUME LayerInv, VersionInv, RequestType, HolderInv, LayerStep, UNCHANGED requestVars
  PROVE  HolderInv'
<1>1. /\ version \in Nat
      /\ \A n \in Name, w \in Version : datasetDb[n][w] \in Nat /\ datasetDb[n][w] =< version
  BY VersionFact, DatasetBounds DEF LayerInv, LayerType
<1>2. \A r \in Request : pool[r] \in Nat /\ pool[r] =< version
  <2>1. \A r \in Request : pool[r] \in Version \cup {Nil}
    BY DEF RequestType
  <2>2. Version \cup {Nil} \subseteq Nat
    BY VersionFact
  <2> QED BY <2>1, <2>2 DEF HolderInv
<1>3. pool' = pool
  BY DEF requestVars
<1>4. CASE version' = version + 1 /\ UNCHANGED <<datasetDb, db>>
  BY <1>1, <1>2, <1>3, <1>4 DEF HolderInv, Reachable
<1>5. CASE version' = version /\ db # version
  <2>1. phase \notin Loop
    BY <1>5 DEF LayerInv
  <2>2. \A n \in Name, w \in Version : datasetDb'[n][w] = datasetDb[n][w]
    BY <2>1, Assigned
  <2> QED BY <1>2, <1>3, <1>5, <2>2 DEF HolderInv, Reachable, Version
<1>6. CASE version' = version /\ db' = version'
  BY <1>2, <1>3, <1>6 DEF HolderInv
<1> QED BY <1>4, <1>5, <1>6, DbChange

LEMMA HolderKeeps == IInv /\ HolderInv /\ [Next]_vars => HolderInv'
<1> SUFFICES ASSUME IInv, HolderInv, [Next]_vars PROVE HolderInv'
  OBVIOUS
<1>i. LayerInv /\ VersionInv /\ RequestInv /\ RequestType
  BY DEF IInv, RequestInv
<1>1. ASSUME UNCHANGED <<layerVars, pool>> PROVE HolderInv'
  BY <1>1 DEF HolderInv, Reachable, layerVars, configVars, poolVars, datasetVars
<1>2. CASE LayerStep
  <2>1. UNCHANGED requestVars
    BY <1>2 DEF LayerStep, UpdateStep, ClosePool, OpenPool, Stop, UpdatePanics, StopPanics,
                MapRace, CloseFails, OpenFails, UpdateFirst, UpdateSecond, RemoveDataset,
                AddDataset, LowerDataset, EndLoop
  <2> QED BY <1>i, <1>2, <2>1, HolderKeptByLayer
<1>3. CASE UNCHANGED vars
  BY <1>1, <1>3 DEF vars, requestVars
<1>4. ASSUME NEW r \in Request, RequestStep(r), ~MapRace(r) PROVE HolderInv'
  <2>1. CASE ReadDb(r)
    <3>1. /\ UNCHANGED layerVars /\ pc[r] = "db"
          /\ pool' = [pool EXCEPT ![r] = datasetDb[ds[r].name][ds[r].made]]
      BY <2>1 DEF ReadDb
    <3>2. ds[r].name \in Name /\ ds[r].made \in Version
      <4>1. ds[r] \in [name : Name, made : Version \cup {Nil}]
        BY <1>i DEF RequestType
      <4> QED BY <1>i, <3>1, <4>1 DEF RequestInv, ReadInv
    <3>3. \A o \in Request : pool'[o] = pool[o] \/ pool'[o] = datasetDb[ds[r].name][ds[r].made]
      BY <1>i, <3>1 DEF RequestType
    <3>4. datasetDb[ds[r].name][ds[r].made] =< version
      BY <1>i, <3>2, DatasetBounds
    <3>5. UNCHANGED <<version, db, datasetDb>>
      BY <3>1 DEF layerVars, configVars, poolVars, datasetVars
    <3>6. \A o \in Request : pool'[o] =< version'
      BY <3>3, <3>4, <3>5 DEF HolderInv
    <3>7. ~Reachable(version) => ~Reachable(version)'
      BY <3>2, <3>3, <3>5 DEF Reachable
    <3> QED BY <3>5, <3>6, <3>7 DEF HolderInv
  <2>2. CASE ~ReadDb(r)
    BY <1>1, <1>4, <2>2 DEF RequestStep, Lookup, ReadEarly, ReadLate, Send
  <2> QED BY <2>1, <2>2
<1> QED BY <1>2, <1>3, <1>4 DEF Next, LayerStep

(* No pool but the current one is open, but for the one a failed Ping left  *)
(* behind, which no dataset and no request gets hold of (OnePoolOpen).      *)
THEOREM OnePoolOpenAlways == Spec => []OnePoolOpen
<1>1. Init => IInv /\ HolderInv
  BY Inductive, HolderInit
<1>2. IInv /\ HolderInv /\ [Next]_vars => (IInv /\ HolderInv)'
  BY Inductive, HolderKeeps
<1>3. IInv /\ HolderInv => OnePoolOpen
  <2> SUFFICES ASSUME IInv, HolderInv, NEW v \in Version, pools[v] = "open", v # db
               PROVE  db = Nil /\ v = version /\ ~Reachable(v)
    BY DEF OnePoolOpen
  <2>1. db = Nil /\ v = version
    BY DEF IInv, PoolInv
  <2> QED BY <2>1 DEF HolderInv
<1> QED BY <1>1, <1>2, <1>3, PTL DEF Spec

-----------------------------------------------------------------------------
(***************************************************************************)
(* What the loops of an update have done.                                  *)
(***************************************************************************)

(* The Dataset n has the new definition and the new pool. *)
New(n) == /\ definition[n][datasets[n]] = version
          /\ datasetDb[n][datasets[n]] = version

Complete == /\ Present = names
            /\ \A n \in Present : New(n) /\ <<n, version>> \in lowered

LoopInv ==
  /\ phase = "update" => \A n \in (Present \cap names) \ todo : New(n)
  /\ phase \in {"remove", "add"} => \A n \in Present \cap names : New(n)
  /\ phase = "remove" => Present \subseteq names \cup todo
  /\ phase \in {"add", "lower"} => Present \subseteq names
  /\ phase = "add" => names \subseteq Present \cup todo
  /\ phase = "lower" => names \subseteq Present /\ (\A n \in Present : New(n))
  /\ phase = "lower" => \A n \in Present \ todo : <<n, version>> \in lowered
  /\ phase = "idle" /\ started /\ db = version => Complete
  /\ process = "running" /\ (phase \in Loop \/ (phase = "idle" /\ db = version))
       => pools[db] = "open"

LEMMA LoopInit == Init => LoopInv
BY VersionFact DEF Init, LoopInv, Loop

LEMMA LoopKeeps ==
  ASSUME LayerInv, LoopInv, LayerStep PROVE LoopInv'
<1>t. /\ LayerType /\ version \in Version /\ db \in Version \cup {Nil}
      /\ datasets \in [Name -> Version \cup {Nil}]
      /\ definition \in [Name -> [Version -> Version \cup {Nil}]]
      /\ datasetDb \in [Name -> [Version -> Version \cup {Nil}]]
      /\ pools \in [Version -> {"none", "open", "closed"}]
      /\ Version \subseteq Nat /\ Nil \notin Version
  BY VersionFact DEF LayerInv, LayerType
<1>1. ASSUME NEW S \in SUBSET Name, ClosePool(S) PROVE LoopInv'
  BY <1>1 DEF ClosePool, LoopInv, Loop
<1>2. CASE UpdatePanics \/ StopPanics \/ \E r \in Request : MapRace(r)
  <2>1. /\ UNCHANGED <<configVars, poolVars, datasetVars, updateVars, started>>
        /\ process' # "running"
    BY <1>2 DEF UpdatePanics, StopPanics, MapRace
  <2> QED BY <2>1 DEF LoopInv, New, Complete, Present, configVars, poolVars, datasetVars,
                      updateVars
<1>3. CASE CloseFails
  BY <1>3 DEF CloseFails, Return, LayerInv, LoopInv, Loop, configVars, poolVars
<1>4. CASE OpenPool
  <2>1. /\ phase' = "update" /\ db' = version /\ version' = version /\ pools'[version] = "open"
        /\ todo' = Present \cap names /\ Present' = Present /\ names' = names
    BY <1>4, <1>t DEF OpenPool, Present, configVars, datasetVars
  <2> QED BY <2>1 DEF LoopInv, Loop
<1>5. CASE OpenFails
  BY <1>5, <1>t DEF OpenFails, Return, LoopInv, Loop, configVars
<1>6. ASSUME NEW n \in Name, UpdateFirst(n) PROVE LoopInv'
  <2>1. /\ datasets[n] \in Version /\ phase = "update" /\ n \in todo /\ phase' = phase
        /\ definition' = [definition EXCEPT ![n][datasets[n]] = version]
        /\ UNCHANGED <<datasetDb, datasets, version, names, todo, db, pools, process>>
    BY <1>6 DEF UpdateFirst, SetFirst, LayerInv, LayerType, Present, configVars, poolVars,
                lifeVars
  <2>2. Present' = Present
    BY <2>1 DEF Present
  <2>3. \A m \in Name : m # n /\ New(m) => New(m)'
    BY <1>t, <2>1 DEF New
  <2>4. \A m \in (Present' \cap names') \ todo' : New(m)'
    BY <2>1, <2>2, <2>3 DEF LoopInv, Present
  <2> QED BY <2>1, <2>4 DEF LoopInv, Loop
<1>7. ASSUME NEW n \in Name, UpdateSecond(n) PROVE LoopInv'
  <2>1. /\ datasets[n] \in Version /\ phase = "update" /\ phase' = phase
        /\ definition' = [definition EXCEPT ![n][datasets[n]] = version]
        /\ datasetDb' = [datasetDb EXCEPT ![n][datasets[n]] = version]
        /\ UNCHANGED <<datasets, version, names, db, pools, process>> /\ todo' = todo \ {n}
    BY <1>7 DEF UpdateSecond, SetSecond, LayerInv, LayerType, Present, Loop, configVars,
                poolVars, lifeVars
  <2>2. Present' = Present
    BY <2>1 DEF Present
  <2>3. \A m \in Name : m # n /\ New(m) => New(m)'
    BY <1>t, <2>1 DEF New
  <2>4. New(n)'
    BY <1>t, <2>1 DEF New
  <2>5. \A m \in (Present' \cap names') \ todo' : New(m)'
    BY <2>1, <2>2, <2>3, <2>4 DEF LoopInv, Present
  <2> QED BY <2>1, <2>5 DEF LoopInv, Loop
<1>8. ASSUME NEW n \in Name, RemoveDataset(n) PROVE LoopInv'
  <2>1. /\ phase = "remove" /\ phase' = phase /\ n \in todo /\ todo' = todo \ {n}
        /\ datasets' = [datasets EXCEPT ![n] = Nil]
        /\ UNCHANGED <<definition, datasetDb, version, names, db, pools, process>>
    BY <1>8 DEF RemoveDataset, configVars, poolVars, lifeVars
  <2>2. Present' = Present \ {n}
    BY <1>t, <2>1 DEF Present
  <2>3. \A m \in Name : m # n /\ New(m) => New(m)'
    BY <1>t, <2>1 DEF New
  <2>4. \A m \in Present' \cap names' : New(m)'
    BY <2>1, <2>2, <2>3 DEF LoopInv, Present
  <2> QED BY <2>1, <2>2, <2>4 DEF LoopInv, Loop
<1>9. ASSUME NEW n \in Name, AddDataset(n) PROVE LoopInv'
  <2>1. /\ phase = "add" /\ phase' = phase /\ n \in todo /\ todo' = todo \ {n}
        /\ datasets' = [datasets EXCEPT ![n] = version]
        /\ definition' = [definition EXCEPT ![n][version] = version]
        /\ datasetDb' = [datasetDb EXCEPT ![n][version] = version]
        /\ UNCHANGED <<version, names, db, pools, process>> /\ n \in names
    BY <1>9 DEF AddDataset, LayerInv, Loop, configVars, poolVars, lifeVars
  <2>2. Present' = Present \cup {n}
    BY <1>t, <2>1 DEF Present
  <2>3. \A m \in Name : m # n /\ New(m) => New(m)'
    BY <1>t, <2>1 DEF New
  <2>4. New(n)'
    BY <1>t, <2>1 DEF New
  <2>5. \A m \in Present' \cap names' : New(m)'
    BY <2>1, <2>2, <2>3, <2>4 DEF LoopInv, Present
  <2> QED BY <2>1, <2>2, <2>5 DEF LoopInv, Loop
<1>10. ASSUME NEW n \in Name, LowerDataset(n) PROVE LoopInv'
  <2>1. /\ phase = "lower" /\ phase' = phase /\ n \in Present /\ todo' = todo \ {n}
        /\ lowered' = lowered \cup {<<n, definition[n][datasets[n]]>>}
        /\ UNCHANGED <<datasets, definition, datasetDb, version, names, db, pools, process>>
    BY <1>10 DEF LowerDataset, LayerInv, configVars, poolVars, lifeVars
  <2>2. Present' = Present /\ \A m \in Name : New(m)' <=> New(m)
    BY <2>1 DEF Present, New
  <2>3. <<n, version>> \in lowered'
    BY <2>1 DEF LoopInv, New
  <2> QED BY <2>1, <2>2, <2>3 DEF LoopInv, Loop, Present
<1>11. CASE EndLoop
  <2>1. /\ UNCHANGED <<version, names, db, pools, datasets, definition, datasetDb, lowered>>
        /\ todo = {}
    BY <1>11 DEF EndLoop, configVars, poolVars, datasetVars
  <2>2. Present' = Present /\ \A n \in Name : New(n)' <=> New(n)
    BY <2>1 DEF Present, New
  <2>3. CASE phase = "update" /\ phase' = "remove" /\ todo' = Present \ names
             /\ process' = process
    BY <2>1, <2>2, <2>3 DEF LoopInv, Loop, Present
  <2>4. CASE phase = "remove" /\ phase' = "add" /\ todo' = names \ Present
             /\ process' = process
    BY <2>1, <2>2, <2>4 DEF LoopInv, Loop, Present
  <2>5. CASE phase = "add" /\ phase' = "lower" /\ todo' = Present /\ process' = process
    BY <2>1, <2>2, <2>5 DEF LoopInv, Loop, Present
  <2>6. CASE phase = "lower" /\ phase' = "idle" /\ (process' = "running" => process = "running")
    <3>1. Complete'
      BY <2>1, <2>2, <2>6 DEF LoopInv, Complete, Present
    <3> QED BY <2>1, <2>6, <3>1 DEF LoopInv, Loop
  <2>7. phase = "lower" => phase' = "idle" /\ process' = process
    BY <1>11 DEF EndLoop, Return
  <2> QED BY <1>11, <2>3, <2>4, <2>5, <2>6, <2>7
          DEF EndLoop, Removable, Lowerable, lifeVars
<1>12. CASE Stop
  <2>1. /\ UNCHANGED <<configVars, db, datasetVars, updateVars, started>>
        /\ process' # "running"
    BY <1>12 DEF Stop
  <2> QED BY <2>1 DEF LoopInv, New, Complete, Present, configVars, datasetVars, updateVars
<1> QED BY <1>1, <1>2, <1>3, <1>4, <1>5, <1>6, <1>7, <1>8, <1>9, <1>10, <1>11, <1>12
        DEF LayerStep, UpdateStep

-----------------------------------------------------------------------------
(***************************************************************************)
(* The properties in lower case.                                           *)
(***************************************************************************)

(* The definition k of the name n has been lowered, or it is one of the new *)
(* ones and the last loop has still to come to it.                          *)
Settled(n, k) ==
  \/ <<n, k>> \in lowered
  \/ /\ k = version /\ phase \in Loop
     /\ n \in Present \cap names
     /\ phase = "lower" => n \in todo

LowerInv ==
  /\ \A n \in Name, v \in Version : definition[n][v] # Nil => Settled(n, definition[n][v])
  /\ \A r \in Request : early[r] # Nil => Settled(ds[r].name, early[r])
  /\ \A r \in Request : pc[r] \in {"idle", "early"} => early[r] = Nil

LEMMA SettledStays ==
  ASSUME LayerInv, LoopInv, LayerStep, NEW n \in Name, NEW k, Settled(n, k)
  PROVE  Settled(n, k)'
<1>t. datasets \in [Name -> Version \cup {Nil}] /\ Nil \notin Version /\ version \in Version
  BY VersionFact DEF LayerInv, LayerType
<1>1. lowered \subseteq lowered'
  BY DEF LayerStep, UpdateStep, ClosePool, OpenPool, Stop, UpdatePanics, StopPanics, MapRace,
         CloseFails, OpenFails, UpdateFirst, UpdateSecond, RemoveDataset, AddDataset,
         LowerDataset, EndLoop, datasetVars
<1>2. CASE <<n, k>> \in lowered
  BY <1>1, <1>2 DEF Settled
<1>3. CASE /\ k = version /\ phase \in Loop /\ n \in Present \cap names
           /\ phase = "lower" => n \in todo
  <2>1. ASSUME NEW i \in Name, UpdateFirst(i) \/ UpdateSecond(i) PROVE Settled(n, k)'
    BY <1>3, <2>1 DEF UpdateFirst, UpdateSecond, Settled, Loop, Present, configVars
  <2>2. ASSUME NEW i \in Name, RemoveDataset(i) PROVE Settled(n, k)'
    <3>1. i # n
      BY <1>3, <2>2 DEF RemoveDataset, LayerInv
    <3>2. n \in Present'
      BY <1>3, <1>t, <2>2, <3>1 DEF RemoveDataset, Present
    <3> QED BY <1>3, <2>2, <3>2 DEF RemoveDataset, Settled, Loop, configVars
  <2>3. ASSUME NEW i \in Name, AddDataset(i) PROVE Settled(n, k)'
    <3>1. n \in Present'
      BY <1>3, <1>t, <2>3 DEF AddDataset, Present
    <3> QED BY <1>3, <2>3, <3>1 DEF AddDataset, Settled, Loop, configVars
  <2>4. ASSUME NEW i \in Name, LowerDataset(i) PROVE Settled(n, k)'
    <3>1. CASE i = n
      <4>1. definition[n][datasets[n]] = version
        BY <1>3, <2>4 DEF LowerDataset, LoopInv, New
      <4> QED BY <1>3, <2>4, <3>1, <4>1 DEF LowerDataset, Settled
    <3>2. CASE i # n
      BY <1>3, <2>4, <3>2 DEF LowerDataset, Settled, Present, configVars
    <3> QED BY <3>1, <3>2
  <2>5. CASE EndLoop
    <3>1. /\ phase # "lower" /\ phase' \in Loop /\ (phase' = "lower" => todo' = Present)
          /\ UNCHANGED <<version, names, datasets>>
      BY <1>3, <2>5 DEF EndLoop, Loop, Lowerable, configVars, datasetVars
    <3> QED BY <1>3, <3>1 DEF Settled, Present
  <2>6. CASE UNCHANGED <<configVars, datasetVars, updateVars>>
    BY <1>3, <2>6 DEF Settled, Present, configVars, datasetVars, updateVars
  <2> QED BY <1>3, <2>1, <2>2, <2>3, <2>4, <2>5, <2>6
          DEF LayerStep, UpdateStep, ClosePool, OpenPool, Stop, UpdatePanics, StopPanics,
              MapRace, CloseFails, OpenFails, Loop
<1> QED BY <1>2, <1>3 DEF Settled

(* A step that assigns a definition makes its name one that is configured. *)
LEMMA AssignedIsSettled ==
  ASSUME LayerInv, LoopInv, LayerStep, NEW n \in Name, NEW m \in Version,
         definition'[n][m] # definition[n][m]
  PROVE  definition'[n][m] = version' /\ Settled(n, version)'
<1>t. /\ datasets \in [Name -> Version \cup {Nil}]
      /\ definition \in [Name -> [Version -> Version \cup {Nil}]]
      /\ Nil \notin Version /\ version \in Version
  BY VersionFact DEF LayerInv, LayerType
<1>1. ASSUME NEW i \in Name, UpdateFirst(i) \/ UpdateSecond(i)
      PROVE  definition'[n][m] = version' /\ Settled(n, version)'
  <2>1. /\ i \in Present \cap names /\ phase = "update" /\ phase' = phase
        /\ definition' = [definition EXCEPT ![i][datasets[i]] = version]
        /\ UNCHANGED <<version, names, datasets>>
    BY <1>1 DEF UpdateFirst, UpdateSecond, SetFirst, SetSecond, LayerInv, configVars
  <2>2. i = n /\ definition'[n][m] = version
    BY <1>t, <2>1
  <2> QED BY <2>1, <2>2 DEF Settled, Present, Loop
<1>2. ASSUME NEW i \in Name, AddDataset(i)
      PROVE  definition'[n][m] = version' /\ Settled(n, version)'
  <2>1. /\ i \in names /\ phase = "add" /\ phase' = phase
        /\ definition' = [definition EXCEPT ![i][version] = version]
        /\ datasets' = [datasets EXCEPT ![i] = version]
        /\ UNCHANGED <<version, names>>
    BY <1>2 DEF AddDataset, LayerInv, configVars
  <2>2. i = n /\ definition'[n][m] = version
    BY <1>t, <2>1
  <2>3. n \in Present'
    BY <1>t, <2>1, <2>2 DEF Present
  <2> QED BY <2>1, <2>2, <2>3 DEF Settled, Loop
<1>3. ~UNCHANGED definition
  OBVIOUS
<1> QED BY <1>1, <1>2, <1>3
        DEF LayerStep, UpdateStep, ClosePool, OpenPool, Stop, UpdatePanics, StopPanics, MapRace,
            CloseFails, OpenFails, RemoveDataset, LowerDataset, EndLoop, datasetVars

LEMMA LowerInit == Init => LowerInv
BY DEF Init, LowerInv

LEMMA LowerKeeps == IInv /\ LoopInv /\ LowerInv /\ [Next]_vars => LoopInv' /\ LowerInv'
<1> SUFFICES ASSUME IInv, LoopInv, LowerInv, [Next]_vars PROVE LoopInv' /\ LowerInv'
  OBVIOUS
<1>i. /\ LayerInv /\ RequestInv
      /\ \A r \in Request : ds[r].name \in Name /\ ds[r].made \in Version \cup {Nil}
      /\ \A r \in Request : early[r] \in Version \cup {Nil}
  <2>1. LayerInv /\ RequestInv
    BY DEF IInv
  <2>2. \A r \in Request : ds[r] \in [name : Name, made : Version \cup {Nil}]
    BY <2>1 DEF RequestInv, RequestType
  <2>3. \A r \in Request : early[r] \in Version \cup {Nil}
    BY <2>1 DEF RequestInv, RequestType
  <2> QED BY <2>1, <2>2, <2>3
<1>1. CASE LayerStep
  <2>1. UNCHANGED requestVars
    BY <1>1 DEF LayerStep, UpdateStep, ClosePool, OpenPool, Stop, UpdatePanics, StopPanics,
                MapRace, CloseFails, OpenFails, UpdateFirst, UpdateSecond, RemoveDataset,
                AddDataset, LowerDataset, EndLoop
  <2>2. ASSUME NEW n \in Name, NEW m \in Version, definition'[n][m] # Nil
        PROVE  Settled(n, definition[n][m])'
    <3>1. CASE definition'[n][m] = definition[n][m]
      <4>1. Settled(n, definition[n][m])
        BY <2>2, <3>1 DEF LowerInv
      <4>2. \A k : Settled(n, k) => Settled(n, k)'
        BY <1>i, <1>1, SettledStays
      <4>3. \A k : k = definition[n][m] => Settled(n, k)'
        BY <4>1, <4>2
      <4> QED BY <3>1, <4>3 DEF Settled
    <3>2. CASE definition'[n][m] # definition[n][m]
      <4>1. definition'[n][m] = version' /\ Settled(n, version)'
        BY <1>i, <1>1, <3>2, AssignedIsSettled
      <4> QED BY <4>1 DEF Settled
    <3> QED BY <3>1, <3>2
  <2>3. ASSUME NEW r \in Request, early'[r] # Nil
        PROVE  Settled(ds[r].name, early[r])'
    <3>1. early' = early /\ ds' = ds
      BY <2>1 DEF requestVars
    <3>2. Settled(ds[r].name, early[r])
      BY <2>3, <3>1 DEF LowerInv
    <3>3. \A n \in Name, k \in Version \cup {Nil} : Settled(n, k) => Settled(n, k)'
      BY <1>i, <1>1, SettledStays
    <3>4. \A n \in Name, k \in Version \cup {Nil} :
             n = ds[r].name /\ k = early[r] => Settled(n, k)'
      BY <3>2, <3>3
    <3> QED BY <1>i, <3>1, <3>4 DEF Settled
  <2>4. LoopInv'
    BY <1>i, <1>1, LoopKeeps
  <2> QED BY <2>1, <2>2, <2>3, <2>4 DEF LowerInv, requestVars
<1>2. ASSUME UNCHANGED layerVars PROVE LoopInv' /\ (\A n, k : Settled(n, k) <=> Settled(n, k)')
  BY <1>2 DEF LoopInv, New, Complete, Present, Settled, layerVars, configVars, poolVars,
              datasetVars, updateVars, lifeVars
<1>3. CASE UNCHANGED vars
  BY <1>2, <1>3 DEF vars, LowerInv, Settled, Present, layerVars, requestVars, configVars,
                    datasetVars, updateVars
<1>4. ASSUME NEW r \in Request, RequestStep(r), ~MapRace(r) PROVE LoopInv' /\ LowerInv'
  <2>1. UNCHANGED layerVars
    BY <1>4 DEF RequestStep, Lookup, ReadEarly, ReadDb, ReadLate, Send
  <2>2. LoopInv' /\ (\A n, k : Settled(n, k) <=> Settled(n, k)')
    BY <1>2, <2>1
  <2>3. definition' = definition
    BY <2>1 DEF layerVars, datasetVars
  <2>4. \A o \in Request : o # r => pc'[o] = pc[o] /\ ds'[o] = ds[o] /\ early'[o] = early[o]
    BY <1>i, <1>4 DEF RequestStep, Lookup, ReadEarly, ReadDb, ReadLate, Send, RequestInv,
                      RequestType
  <2>5. CASE ReadEarly(r)
    <3>1. ds' = ds /\ early'[r] = DefinitionOf(r) /\ pc'[r] = "db" /\ pc[r] = "early"
      BY <1>i, <2>5 DEF ReadEarly, RequestInv, RequestType
    <3>2. ds[r].made \in Version
      BY <1>i, <3>1 DEF RequestInv, ReadInv
    <3>3. early'[r] # Nil => Settled(ds[r].name, early'[r])
      BY <1>i, <3>1, <3>2 DEF LowerInv, DefinitionOf
    <3> QED BY <2>2, <2>3, <2>4, <3>1, <3>3 DEF LowerInv, Settled, Present
  <2>6. CASE ~ReadEarly(r)
    <3>1. /\ early'[r] = early[r]
          /\ ds'[r] = ds[r] \/ early[r] = Nil
          /\ pc'[r] \in {"idle", "early"} => pc[r] \in {"idle", "early"}
      BY <1>i, <1>4, <2>6 DEF RequestStep, Lookup, ReadDb, ReadLate, Send, RequestInv,
                             RequestType, LowerInv
    <3> QED BY <2>2, <2>3, <2>4, <3>1 DEF LowerInv, Settled, Present
  <2> QED BY <2>5, <2>6
<1> QED BY <1>1, <1>3, <1>4 DEF Next, LayerStep

(* After a successful update the datasets are exactly those configured, all *)
(* with the new definition, in lower case, and the new pool, which is open. *)
THEOREM UpdateIsCompleteAlways == Spec => []UpdateIsComplete
<1>1. LoopInv => UpdateIsComplete
  BY DEF LoopInv, Complete, New, UpdateIsComplete
<1> QED BY <1>1, LoopInit, LowerInit, LowerKeeps, Inductive, PTL DEF Spec

(* Whenever none of the loops runs, every definition in use is lowered.     *)
THEOREM MapsLoweredAlways == Spec => []MapsLowered
<1>1. IInv /\ LowerInv => MapsLowered
  <2> SUFFICES ASSUME IInv, LowerInv PROVE MapsLowered
    OBVIOUS
  <2>1. \A n \in Present : datasets[n] \in Version /\ definition[n][datasets[n]] # Nil
    BY DEF IInv, LayerInv, LayerType, Made, Present
  <2>2. phase \in {"idle", "open"} => \A n, k : Settled(n, k) => <<n, k>> \in lowered
    BY DEF Settled, Loop
  <2> QED BY <2>1, <2>2 DEF LowerInv, MapsLowered, Present
<1> QED BY <1>1, LoopInit, LowerInit, LowerKeeps, Inductive, PTL DEF Spec
=============================================================================
