-------------------------- MODULE LegacyReadProofs --------------------------
(***************************************************************************)
(* Theorems about the legacy read path, for any number of requests at a    *)
(* time, of reloads and of datasets.                                       *)
(***************************************************************************)
EXTENDS LegacyRead, TLAPS

Pool == [conf : Config \cup {Nothing}, open : BOOLEAN, pinged : BOOLEAN]

(* The steps that leave the pools, Repo and the manager as they are. *)
Quiet(q) ==
  \/ \E n \in Dataset, isCdcSince \in BOOLEAN : Exists(q, n, isCdcSince)
  \/ Context(q)
  \/ Definition(q)
  \/ ServerSince(q)
  \/ QueryRuns(q)
  \/ QueryPanics(q)
  \/ Stream(q)

-----------------------------------------------------------------------------
(***************************************************************************)
(* The pools.                                                              *)
(***************************************************************************)

(* CloseOld closes the pool of Repo.DB and leaves the others alone.         *)
LEMMA ClosesOne ==
  ASSUME TypeOK, pools' = PoolsClosed
  PROVE  /\ pools' \in Seq(Pool) /\ Len(pools') = Len(pools)
         /\ \A p \in 1 .. Len(pools) : /\ pools'[p].conf = pools[p].conf
                                       /\ pools'[p].pinged = pools[p].pinged
         /\ \A p \in 1 .. Len(pools) : p # repoDb => pools'[p] = pools[p]
         /\ repoDb # NoPool => ~pools'[repoDb].open
<1>1. pools \in Seq(Pool) /\ repoDb \in 0 .. Len(pools)
  BY DEF TypeOK, Pool
<1>2. CASE repoDb = NoPool
  BY <1>1, <1>2 DEF PoolsClosed
<1>3. CASE repoDb # NoPool
  <2>1. repoDb \in 1 .. Len(pools) /\ pools[repoDb] \in Pool
    BY <1>1, <1>3 DEF NoPool
  <2>2. pools' = [pools EXCEPT ![repoDb] = [pools[repoDb] EXCEPT !.open = FALSE]]
    BY <1>3 DEF PoolsClosed
  <2>3. [pools[repoDb] EXCEPT !.open = FALSE] \in Pool
    BY <2>1 DEF Pool
  <2> DEFINE closed == [pools[repoDb] EXCEPT !.open = FALSE]
  <2>4. /\ ~closed.open /\ closed.conf = pools[repoDb].conf
        /\ closed.pinged = pools[repoDb].pinged
    BY <2>1 DEF Pool
  <2>5. closed \in Pool /\ pools' = [pools EXCEPT ![repoDb] = closed]
    BY <2>2, <2>3
  <2> HIDE DEF closed
  <2> QED BY <1>1, <2>1, <2>4, <2>5
<1> QED BY <1>2, <1>3

(* sql.Open adds an open pool for the configuration that Datalayer holds.   *)
LEMMA OpensOne ==
  ASSUME TypeOK, pools' = PoolsWith(TRUE)
  PROVE  /\ pools' \in Seq(Pool) /\ Len(pools') = Len(pools) + 1
         /\ \A p \in 1 .. Len(pools) : pools'[p] = pools[p]
         /\ pools'[Len(pools')].open /\ pools'[Len(pools')].conf = datalayer
         /\ pools'[Len(pools')].pinged
<1>1. pools \in Seq(Pool) /\ [conf |-> datalayer, open |-> TRUE, pinged |-> TRUE] \in Pool
  BY DEF TypeOK, Pool
<1> QED BY <1>1 DEF PoolsWith

(* A connect that fails adds at most a pool whose Ping has failed.          *)
LEMMA FailsOne ==
  ASSUME TypeOK, pools' \in {pools, PoolsWith(FALSE)}
  PROVE  /\ pools' \in Seq(Pool) /\ Len(pools) \in Nat /\ Len(pools') \in Nat
         /\ Len(pools') \in {Len(pools), Len(pools) + 1}
         /\ \A p \in 1 .. Len(pools) : pools'[p] = pools[p]
         /\ \A p \in 1 .. Len(pools') : p \in 1 .. Len(pools) \/ ~pools'[p].pinged
<1> DEFINE new == [conf |-> datalayer, open |-> TRUE, pinged |-> FALSE]
<1>1. pools \in Seq(Pool) /\ Len(pools) \in Nat /\ new \in Pool /\ ~new.pinged
  BY DEF TypeOK, Pool
<1>2. pools' = pools \/ pools' = Append(pools, new)
  BY DEF PoolsWith
<1> HIDE DEF new
<1>3. CASE pools' = pools
  BY <1>1, <1>3
<1>4. CASE pools' = Append(pools, new)
  BY <1>1, <1>4
<1> QED BY <1>2, <1>3, <1>4

-----------------------------------------------------------------------------
(***************************************************************************)
(* Types.                                                                  *)
(***************************************************************************)

LEMMA TypeInit == Init => TypeOK
<1> SUFFICES ASSUME Init PROVE TypeOK
  OBVIOUS
<1>1. pools = << >> /\ Len(pools) = 0
  BY DEF Init
<1>2. pools \in Seq([conf : Config \cup {Nothing}, open : BOOLEAN, pinged : BOOLEAN])
  BY <1>1
<1>3. NoPool \in 0 .. Len(pools)
  BY <1>1 DEF NoPool
<1>4. repoDb \in 0 .. Len(pools) /\ opened \in [Request -> 0 .. Len(pools)]
      /\ answered \in [Request -> 0 .. Len(pools)]
  BY <1>3 DEF Init
<1> QED BY <1>2, <1>4 DEF Init, TypeOK

LEMMA RequestKeepsType ==
  ASSUME TypeOK, NEW q \in Request, RequestStep(q) PROVE TypeOK'
<1> USE DEF TypeOK, Goto, managerVars, repoVars, askedVars, ownVars, historyVars
<1>1. ASSUME NEW n \in Dataset, NEW isCdcSince \in BOOLEAN, Exists(q, n, isCdcSince)
      PROVE  TypeOK'
  <2>1. NoPool \in 0 .. Len(pools) /\ requests' \in Nat
    BY <1>1 DEF Exists, NoPool
  <2>2. CASE n \in Mapped(datalayer)
    <3>1. /\ inForce' = [inForce EXCEPT ![q] = {digest, datalayer}]
          /\ pc' = [pc EXCEPT ![q] = "context"]
          /\ dataset' = [dataset EXCEPT ![q] = n]
          /\ cdcSince' = [cdcSince EXCEPT ![q] = isCdcSince]
          /\ UNCHANGED <<managerVars, repoVars, historyVars, tableDef, opened, answered>>
      BY <1>1, <2>2 DEF Exists
    <3>2. {digest, datalayer} \in SUBSET (Config \cup {Nothing})
      OBVIOUS
    <3>3. inForce' \in [Request -> SUBSET (Config \cup {Nothing})]
      BY <3>1, <3>2
    <3>4. dataset' \in [Request -> Dataset] /\ cdcSince' \in [Request -> BOOLEAN]
      BY <3>1
    <3> QED BY <2>1, <3>1, <3>3, <3>4
  <2>3. CASE n \notin Mapped(datalayer)
    BY <1>1, <2>1, <2>3 DEF Exists
  <2> QED BY <2>2, <2>3
<1>l. ASSUME Leave(q), UNCHANGED <<managerVars, repoDb, repoDigest, raced, doubled, askedVars>>,
             pools' \in Seq(Pool), Len(pools) \in Nat,
             Len(pools') \in {Len(pools), Len(pools) + 1}, unconnected' \in BOOLEAN
      PROVE  TypeOK'
  <2>1. NoPool \in 0 .. Len(pools') /\ 0 .. Len(pools) \subseteq 0 .. Len(pools')
    BY <1>l DEF NoPool
  <2>2. inForce' \in [Request -> SUBSET (Config \cup {Nothing})]
    BY <1>l DEF Leave
  <2>3. /\ opened' \in [Request -> 0 .. Len(pools')]
        /\ answered' \in [Request -> 0 .. Len(pools')] /\ repoDb' \in 0 .. Len(pools')
    BY <1>l, <2>1 DEF Leave
  <2> QED BY <1>l, <2>2, <2>3 DEF Leave, Pool
<1>q. ASSUME Leave(q), UNCHANGED <<managerVars, repoVars, historyVars, askedVars>>
      PROVE  TypeOK'
  BY <1>l, <1>q DEF Pool
<1>2. CASE Context(q)
  BY <1>2, <1>q DEF Context
<1>3. CASE Definition(q)
  BY <1>3, <1>q DEF Definition
<1>4. CASE Ensure(q)
  BY <1>4 DEF Ensure, Ensuring, IsChanged
<1>5. CASE CloseOld(q)
  <2>1. pools' \in Seq(Pool) /\ Len(pools') = Len(pools)
    BY <1>5, ClosesOne DEF CloseOld
  <2> QED BY <1>5, <2>1 DEF CloseOld, Pool
<1>6. CASE Connect(q)
  <2>1. pools' \in Seq(Pool) /\ Len(pools') = Len(pools) + 1 /\ Len(pools) \in Nat
    BY <1>6, OpensOne DEF Connect, PoolsWith
  <2>2. 0 .. Len(pools) \subseteq 0 .. Len(pools') /\ Len(pools') \in 0 .. Len(pools')
    BY <2>1
  <2>3. /\ repoDb' \in 0 .. Len(pools') /\ answered' \in [Request -> 0 .. Len(pools')]
        /\ opened' \in [Request -> 0 .. Len(pools')]
    BY <1>6, <2>2 DEF Connect
  <2> QED BY <1>6, <2>1, <2>3 DEF Connect, Pool
<1>7. CASE ConnectFails(q)
  BY <1>7, <1>l, FailsOne DEF ConnectFails, PoolsWith
<1>8. CASE StoreDb(q)
  BY <1>8 DEF StoreDb
<1>9. CASE StoreDigest(q)
  BY <1>9 DEF StoreDigest, DigestNow
<1>10. CASE ServerSince(q)
  BY <1>10, <1>q DEF ServerSince
<1>11. CASE QueryRuns(q)
  BY <1>11 DEF QueryRuns
<1>12. CASE QueryPanics(q) \/ Stream(q)
  BY <1>12, <1>q DEF QueryPanics, Stream
<1> QED BY <1>1, <1>2, <1>3, <1>4, <1>5, <1>6, <1>7, <1>8, <1>9, <1>10, <1>11, <1>12
        DEF RequestStep

LEMMA TypeStep == TypeOK /\ [Next]_vars => TypeOK'
<1> SUFFICES ASSUME TypeOK, [Next]_vars PROVE TypeOK'
  OBVIOUS
<1>1. CASE UNCHANGED vars
  BY <1>1 DEF TypeOK, vars, managerVars, repoVars, requestVars, askedVars, ownVars, historyVars
<1>2. ASSUME NEW found \in Config \cup {Unusable}, Load(found) PROVE TypeOK'
  <2>1. datalayer' \in Config \cup {Nothing} /\ raced' \in BOOLEAN
    BY <1>2 DEF Load, Loaded, TypeOK, BetweenConnectAndDigest
  <2>2. inForce' \in [Request -> SUBSET (Config \cup {Nothing})]
    BY <1>2, <2>1 DEF Load, TypeOK
  <2>3. loads' \in Nat
    BY <1>2 DEF Load, TypeOK
  <2> QED BY <1>2, <2>1, <2>2, <2>3
          DEF Load, TypeOK, repoVars, askedVars
<1>3. CASE LoadState
  BY <1>3 DEF LoadState, TypeOK, BetweenConnectAndDigest, repoVars, requestVars,
              askedVars, ownVars
<1> QED BY <1>1, <1>2, <1>3, RequestKeepsType DEF Next

(* Every variable keeps to its values (TypeOK). *)
THEOREM TypeCorrect == Spec => []TypeOK
BY TypeInit, TypeStep, PTL DEF Spec

-----------------------------------------------------------------------------
(***************************************************************************)
(* Replacing the pool.                                                     *)
(***************************************************************************)

Stages == {"close", "connect", "store", "digest"}

(* A quiet step, whoever takes it, moves nobody into, out of or between the *)
(* stages of the replacement.                                               *)
LEMMA QuietStep ==
  ASSUME TypeOK, NEW q \in Request, Quiet(q)
  PROVE  /\ UNCHANGED <<managerVars, repoVars, raced, unconnected, doubled>>
         /\ \A o \in Request :
              \/ pc'[o] = pc[o] /\ opened'[o] = opened[o]
              \/ pc[o] \notin Stages /\ pc'[o] \notin Stages
<1> USE DEF TypeOK, Goto, Leave, Stages, historyVars, askedVars, ownVars
<1>1. ASSUME NEW n \in Dataset, NEW isCdcSince \in BOOLEAN, Exists(q, n, isCdcSince)
      PROVE  /\ UNCHANGED <<managerVars, repoVars, raced, unconnected, doubled>>
             /\ pc[q] \notin Stages /\ pc'[q] \notin Stages
             /\ \A o \in Request \ {q} : pc'[o] = pc[o] /\ opened'[o] = opened[o]
  BY <1>1 DEF Exists
<1>2. CASE Context(q) \/ ServerSince(q) \/ QueryRuns(q) \/ QueryPanics(q) \/ Stream(q)
  BY <1>2 DEF Context, ServerSince, QueryRuns, QueryPanics, Stream
<1>3. CASE Definition(q)
  BY <1>3 DEF Definition
<1> QED BY <1>1, <1>2, <1>3 DEF Quiet

(* No step takes a pool away or changes the configuration it was opened     *)
(* from.                                                                    *)
LEMMA PoolsStay ==
  ASSUME TypeOK, [Next]_vars
  PROVE  \A p \in 1 .. Len(pools) : p \in 1 .. Len(pools') /\ pools'[p].conf = pools[p].conf
<1>1. ASSUME NEW q \in Request, RequestStep(q)
      PROVE  \A p \in 1 .. Len(pools) :
               p \in 1 .. Len(pools') /\ pools'[p].conf = pools[p].conf
  <2>1. CASE Quiet(q) \/ Ensure(q) \/ StoreDb(q) \/ StoreDigest(q)
    BY <1>1, <2>1, QuietStep DEF Ensure, StoreDb, StoreDigest, repoVars
  <2>4. CASE ConnectFails(q)
    BY <2>4, FailsOne DEF ConnectFails, PoolsWith
  <2>2. CASE CloseOld(q)
    BY <2>2, ClosesOne DEF CloseOld
  <2>3. CASE Connect(q)
    <3>1. Len(pools) \in Nat
      BY DEF TypeOK
    <3> QED BY <2>3, <3>1, OpensOne DEF Connect, PoolsWith
  <2> QED BY <1>1, <2>1, <2>2, <2>3, <2>4 DEF RequestStep, Quiet
<1>2. CASE UNCHANGED vars \/ LoadState \/ \E found \in Config \cup {Unusable} : Load(found)
  BY <1>2 DEF vars, LoadState, Load, repoVars
<1> QED BY <1>1, <1>2 DEF Next

(* A pool that waits to become Repo.DB is open and belongs to one request   *)
(* only, and its Ping succeeded, as that of Repo.DB did; if Repo.DB is      *)
(* closed, the request that will store the next one is on its way, unless   *)
(* it could not connect.                                                    *)
PoolInv ==
  /\ \A q \in Request : pc[q] = "store" =>
       opened[q] # NoPool /\ pools[opened[q]].open /\ opened[q] # repoDb
  /\ \A q, o \in Request : pc[q] = "store" /\ pc[o] = "store" /\ q # o =>
       opened[q] # opened[o]
  /\ \A q \in Request : pc[q] = "store" => pools[opened[q]].pinged
  /\ repoDb # NoPool => pools[repoDb].pinged
  /\ ~unconnected /\ repoDb # NoPool /\ ~pools[repoDb].open =>
       \E q \in Request : pc[q] \in {"connect", "store"}

(* Every pool that is stored, or waits to be, while its opener has not yet  *)
(* recorded the digest was opened for the present one; from then on it is   *)
(* the recorded one.                                                        *)
ConfInv ==
  ~raced =>
    /\ \A q \in Request : pc[q] = "store" =>
         digest = datalayer /\ pools[opened[q]].conf = digest
    /\ \A q \in Request : pc[q] = "digest" =>
         digest = datalayer /\ repoDb # NoPool /\ pools[repoDb].conf = digest
    /\ repoDb # NoPool /\ (\A q \in Request : pc[q] # "digest") =>
         pools[repoDb].conf = repoDigest

(* One request at a time: it closes the old pool before it opens another.   *)
OrphanInv ==
  ~doubled =>
    /\ \A q, o \in Request : Ensuring(q) /\ Ensuring(o) => q = o
    /\ \A p \in 1 .. Len(pools) : pools[p].open /\ pools[p].pinged =>
         p = repoDb \/ \E q \in Request : pc[q] = "store" /\ opened[q] = p
    /\ \A q \in Request : pc[q] \in {"connect", "store"} /\ repoDb # NoPool =>
         ~pools[repoDb].open

LEMMA PoolInvInit == Init => PoolInv /\ ConfInv /\ OrphanInv
BY DEF Init, PoolInv, ConfInv, OrphanInv, Ensuring, NoPool

(* What PoolInv needs of the steps outside the replacement.                 *)
LEMMA PoolInvKept ==
  ASSUME PoolInv, UNCHANGED <<pools, repoDb, unconnected>>,
         \A o \in Request :
           \/ pc'[o] = pc[o] /\ opened'[o] = opened[o]
           \/ pc[o] \notin {"connect", "store"} /\ pc'[o] \notin {"connect", "store"}
  PROVE  PoolInv'
<1>1. \A o \in Request : pc'[o] = "store" => pc[o] = "store" /\ opened'[o] = opened[o]
  OBVIOUS
<1>2. \A o \in Request : pc[o] \in {"connect", "store"} => pc'[o] \in {"connect", "store"}
  OBVIOUS
<1> QED BY <1>1, <1>2 DEF PoolInv

LEMMA PoolInvStep == TypeOK /\ PoolInv /\ [Next]_vars => PoolInv'
<1> SUFFICES ASSUME TypeOK, PoolInv, [Next]_vars PROVE PoolInv'
  OBVIOUS
<1> USE DEF Goto, ownVars
<1>1. CASE UNCHANGED vars \/ LoadState \/ \E found \in Config \cup {Unusable} : Load(found)
  BY <1>1, PoolInvKept DEF vars, LoadState, Load, repoVars, requestVars, historyVars
<1>2. ASSUME NEW q \in Request, RequestStep(q) PROVE PoolInv'
  <2>1. CASE Quiet(q)
    BY <2>1, QuietStep, PoolInvKept DEF Stages, repoVars
  <2>2. CASE Ensure(q) \/ StoreDigest(q)
    BY <2>2, PoolInvKept DEF Ensure, StoreDigest, repoVars, historyVars, TypeOK
  <2>3. CASE CloseOld(q)
    <3>1. /\ pc[q] = "close" /\ pc' = [pc EXCEPT ![q] = "connect"]
          /\ pools' = PoolsClosed /\ UNCHANGED <<repoDb, opened, unconnected>>
      BY <2>3 DEF CloseOld, historyVars
    <3>2. pc'[q] = "connect" /\ \A o \in Request \ {q} : pc'[o] = pc[o]
      BY <3>1 DEF TypeOK
    <3>3. \A o \in Request : pc'[o] = "store" => opened[o] \in 1 .. Len(pools)
      BY <3>2 DEF PoolInv, TypeOK, NoPool
    <3>4. \A o \in Request : pc'[o] = "store" =>
            pools'[opened[o]].open /\ pools'[opened[o]].pinged
      BY <3>1, <3>2, <3>3, ClosesOne DEF PoolInv
    <3>5. repoDb # NoPool => repoDb \in 1 .. Len(pools) /\ pools'[repoDb].pinged
      BY <3>1, ClosesOne DEF PoolInv, TypeOK, NoPool
    <3> QED BY <3>1, <3>2, <3>4, <3>5 DEF PoolInv
  <2>4. CASE Connect(q)
    <3>1. /\ pc[q] = "connect" /\ pc' = [pc EXCEPT ![q] = "store"]
          /\ opened' = [opened EXCEPT ![q] = Len(pools')]
          /\ pools' = PoolsWith(TRUE)
          /\ UNCHANGED repoDb
      BY <2>4 DEF Connect
    <3>2. /\ pc'[q] = "store" /\ opened'[q] = Len(pools')
          /\ \A o \in Request \ {q} : pc'[o] = pc[o] /\ opened'[o] = opened[o]
      BY <3>1 DEF TypeOK
    <3>3. /\ Len(pools) \in Nat /\ Len(pools') = Len(pools) + 1 /\ pools'[Len(pools')].open
          /\ pools'[Len(pools')].pinged
          /\ \A p \in 1 .. Len(pools) : pools'[p] = pools[p]
      BY <3>1, OpensOne DEF TypeOK, PoolsWith
    <3>4. \A o \in Request \ {q} : pc'[o] = "store" =>
            /\ opened'[o] \in 1 .. Len(pools) /\ opened'[o] # repoDb
            /\ pools'[opened'[o]].open /\ pools'[opened'[o]].pinged
      <4> SUFFICES ASSUME NEW o \in Request \ {q}, pc'[o] = "store"
                   PROVE  /\ opened'[o] \in 1 .. Len(pools) /\ opened'[o] # repoDb
                          /\ pools'[opened'[o]].open /\ pools'[opened'[o]].pinged
        OBVIOUS
      <4>1. pc[o] = "store" /\ opened'[o] = opened[o]
        BY <3>2
      <4>2. /\ opened[o] # NoPool /\ opened[o] # repoDb
            /\ pools[opened[o]].open /\ pools[opened[o]].pinged
        BY <4>1 DEF PoolInv
      <4>3. opened[o] \in 1 .. Len(pools)
        BY <4>2, <3>3 DEF TypeOK, NoPool
      <4> QED BY <4>1, <4>2, <4>3, <3>3
    <3>5. repoDb \in 0 .. Len(pools)
      BY DEF TypeOK
    <3>6. \A o \in Request : pc'[o] = "store" =>
            /\ opened'[o] # NoPool /\ opened'[o] # repoDb'
            /\ pools'[opened'[o]].open /\ pools'[opened'[o]].pinged
      <4>1. /\ opened'[q] # NoPool /\ opened'[q] # repoDb'
            /\ pools'[opened'[q]].open /\ pools'[opened'[q]].pinged
        <5>1. repoDb' = repoDb
          BY <3>1
        <5> QED BY <5>1, <3>2, <3>3, <3>5 DEF NoPool
      <4>2. \A o \in Request \ {q} : pc'[o] = "store" => opened'[o] # NoPool
        BY <3>3, <3>4 DEF NoPool
      <4> QED BY <3>1, <3>4, <4>1, <4>2
    <3>7. \A o, a \in Request : pc'[o] = "store" /\ pc'[a] = "store" /\ o # a =>
            opened'[o] # opened'[a]
      BY <3>2, <3>3, <3>4 DEF PoolInv
    <3>8. repoDb # NoPool => pools'[repoDb].pinged
      BY <3>3, <3>5 DEF PoolInv, NoPool
    <3> QED BY <3>1, <3>2, <3>6, <3>7, <3>8 DEF PoolInv
  <2>5. CASE ConnectFails(q)
    <3>1. /\ unconnected' /\ repoDb' = repoDb /\ pools' \in {pools, PoolsWith(FALSE)}
          /\ pc' = [pc EXCEPT ![q] = "idle"] /\ opened' = [opened EXCEPT ![q] = NoPool]
      BY <2>5 DEF ConnectFails, Leave
    <3>2. \A o \in Request : pc'[o] = "store" => pc[o] = "store" /\ opened'[o] = opened[o]
      BY <3>1 DEF TypeOK
    <3>3. \A p \in 1 .. Len(pools) : pools'[p] = pools[p]
      BY <3>1, FailsOne DEF PoolsWith
    <3>4. \A o \in Request : pc[o] = "store" => opened[o] \in 1 .. Len(pools)
      BY DEF PoolInv, TypeOK, NoPool
    <3>5. repoDb # NoPool => repoDb \in 1 .. Len(pools)
      BY DEF TypeOK, NoPool
    <3> QED BY <3>1, <3>2, <3>3, <3>4, <3>5 DEF PoolInv
  <2>6. CASE StoreDb(q)
    <3>1. /\ pc[q] = "store" /\ pc' = [pc EXCEPT ![q] = "digest"] /\ repoDb' = opened[q]
          /\ UNCHANGED <<pools, opened>>
      BY <2>6 DEF StoreDb
    <3>2. pc'[q] = "digest" /\ \A o \in Request \ {q} : pc'[o] = pc[o]
      BY <3>1 DEF TypeOK
    <3> QED BY <3>1, <3>2 DEF PoolInv
  <2> QED BY <1>2, <2>1, <2>2, <2>3, <2>4, <2>5, <2>6 DEF RequestStep, Quiet
<1> QED BY <1>1, <1>2 DEF Next

-----------------------------------------------------------------------------
(***************************************************************************)
(* The digest of the pool.                                                 *)
(***************************************************************************)

(* Repo.DB and a pool that waits to become Repo.DB are among the pools.      *)
LEMMA StoredIsThere ==
  ASSUME TypeOK, PoolInv
  PROVE  /\ repoDb # NoPool => repoDb \in 1 .. Len(pools)
         /\ \A q \in Request : pc[q] = "store" => opened[q] \in 1 .. Len(pools)
BY DEF TypeOK, PoolInv, NoPool

(* What ConfInv needs of the steps outside the replacement.                 *)
LEMMA ConfInvKept ==
  ASSUME ConfInv, UNCHANGED <<pools, repoVars, digest, datalayer, raced>>,
         \A o \in Request :
           \/ pc'[o] = pc[o] /\ opened'[o] = opened[o]
           \/ pc[o] \notin {"store", "digest"} /\ pc'[o] \notin {"store", "digest"}
  PROVE  ConfInv'
<1>1. \A o \in Request : pc'[o] = "store" => pc[o] = "store" /\ opened'[o] = opened[o]
  OBVIOUS
<1>2. \A o \in Request : pc'[o] = "digest" <=> pc[o] = "digest"
  OBVIOUS
<1> QED BY <1>1, <1>2 DEF ConfInv, repoVars

LEMMA ConfInvStep == TypeOK /\ PoolInv /\ ConfInv /\ [Next]_vars => ConfInv'
<1> SUFFICES ASSUME TypeOK, PoolInv, ConfInv, [Next]_vars, ~raced' PROVE ConfInv'
  BY DEF ConfInv
<1> USE DEF Goto, ownVars
<1>1. CASE UNCHANGED vars
  BY <1>1, ConfInvKept DEF vars, managerVars, repoVars, requestVars, historyVars
<1>2. CASE LoadState \/ \E found \in Config \cup {Unusable} : Load(found)
  <2>1. UNCHANGED <<pools, repoDb, repoDigest, pc, opened>> /\ ~raced
    BY <1>2 DEF LoadState, Load, repoVars, requestVars
  <2>2. CASE \A q \in Request : pc[q] \notin {"store", "digest"}
    BY <2>1, <2>2 DEF ConfInv
  <2>3. CASE \E q \in Request : pc[q] \in {"store", "digest"}
    <3>1. BetweenConnectAndDigest
      BY <2>3 DEF BetweenConnectAndDigest
    <3>2. ~LoadState
      BY <3>1 DEF LoadState
    <3>3. UNCHANGED <<datalayer, digest>>
      BY <1>2, <3>1, <3>2 DEF Load
    <3> QED BY <2>1, <3>3 DEF ConfInv
  <2> QED BY <2>2, <2>3
<1>3. ASSUME NEW q \in Request, RequestStep(q) PROVE ConfInv'
  <2>1. CASE Quiet(q)
    BY <2>1, QuietStep, ConfInvKept DEF Stages, repoVars, managerVars
  <2>2. CASE Ensure(q)
    BY <2>2, ConfInvKept DEF Ensure, repoVars, managerVars, ownVars, TypeOK
  <2>7. CASE ConnectFails(q)
    <3>1. /\ pc[q] = "connect" /\ pc' = [pc EXCEPT ![q] = "idle"]
          /\ opened' = [opened EXCEPT ![q] = NoPool]
          /\ UNCHANGED <<repoDb, repoDigest, digest, datalayer, raced>>
      BY <2>7 DEF ConnectFails, Leave, managerVars
    <3>2. /\ pc'[q] = "idle"
          /\ \A o \in Request \ {q} : pc'[o] = pc[o] /\ opened'[o] = opened[o]
      BY <3>1 DEF TypeOK
    <3>3. \A o \in Request : pc[o] = "store" => pools'[opened[o]].conf = pools[opened[o]].conf
      BY StoredIsThere, PoolsStay
    <3>4. repoDb # NoPool => pools'[repoDb].conf = pools[repoDb].conf
      BY StoredIsThere, PoolsStay
    <3> QED BY <3>1, <3>2, <3>3, <3>4 DEF ConfInv
  <2>3. CASE CloseOld(q)
    <3>1. /\ pc[q] = "close" /\ pc' = [pc EXCEPT ![q] = "connect"]
          /\ pools' = PoolsClosed
          /\ UNCHANGED <<repoDb, repoDigest, opened, digest, datalayer, raced>>
      BY <2>3 DEF CloseOld, historyVars, managerVars
    <3>2. pc'[q] = "connect" /\ \A o \in Request \ {q} : pc'[o] = pc[o]
      BY <3>1 DEF TypeOK
    <3>3. \A o \in Request : pc[o] = "store" => pools'[opened[o]].conf = pools[opened[o]].conf
      BY StoredIsThere, PoolsStay
    <3>4. repoDb # NoPool => pools'[repoDb].conf = pools[repoDb].conf
      BY StoredIsThere, PoolsStay
    <3> QED BY <3>1, <3>2, <3>3, <3>4 DEF ConfInv
  <2>4. CASE Connect(q)
    <3>1. /\ pc[q] = "connect" /\ pc' = [pc EXCEPT ![q] = "store"]
          /\ opened' = [opened EXCEPT ![q] = Len(pools')]
          /\ pools' = PoolsWith(TRUE)
          /\ digest = datalayer
          /\ UNCHANGED <<repoDb, repoDigest, digest, datalayer>> /\ ~raced
      BY <2>4 DEF Connect, managerVars
    <3>2. /\ pc'[q] = "store" /\ opened'[q] = Len(pools')
          /\ \A o \in Request \ {q} : pc'[o] = pc[o] /\ opened'[o] = opened[o]
      BY <3>1 DEF TypeOK
    <3>3. pools'[Len(pools')].conf = datalayer
      BY <3>1, OpensOne DEF PoolsWith
    <3>4. \A o \in Request : pc[o] = "store" => pools'[opened[o]].conf = pools[opened[o]].conf
      BY StoredIsThere, PoolsStay
    <3>5. repoDb # NoPool => pools'[repoDb].conf = pools[repoDb].conf
      BY StoredIsThere, PoolsStay
    <3>6. \A o \in Request : pc'[o] = "store" =>
            digest' = datalayer' /\ pools'[opened'[o]].conf = digest'
      BY <3>1, <3>2, <3>3, <3>4 DEF ConfInv
    <3> QED BY <3>1, <3>2, <3>5, <3>6 DEF ConfInv
  <2>5. CASE StoreDb(q)
    <3>1. /\ pc[q] = "store" /\ pc' = [pc EXCEPT ![q] = "digest"] /\ repoDb' = opened[q]
          /\ UNCHANGED <<pools, opened, digest, datalayer, repoDigest, raced>>
      BY <2>5 DEF StoreDb, managerVars, historyVars
    <3>2. pc'[q] = "digest" /\ \A o \in Request \ {q} : pc'[o] = pc[o]
      BY <3>1 DEF TypeOK
    <3>3. digest = datalayer /\ opened[q] # NoPool /\ pools[opened[q]].conf = digest
      BY <3>1 DEF PoolInv, ConfInv
    <3> QED BY <3>1, <3>2, <3>3 DEF ConfInv
  <2>6. CASE StoreDigest(q)
    <3>1. /\ pc[q] = "digest" /\ pc' = [pc EXCEPT ![q] = "since"] /\ repoDigest' = digest
          /\ UNCHANGED <<pools, repoDb, opened, digest, datalayer, raced>>
      BY <2>6 DEF StoreDigest, DigestNow, managerVars, historyVars
    <3>2. pc'[q] = "since" /\ \A o \in Request \ {q} : pc'[o] = pc[o]
      BY <3>1 DEF TypeOK
    <3> QED BY <3>1, <3>2 DEF ConfInv
  <2> QED BY <1>3, <2>1, <2>2, <2>3, <2>4, <2>5, <2>6, <2>7 DEF RequestStep, Quiet
<1> QED BY <1>1, <1>2, <1>3 DEF Next

LEMMA PoolAndDigest == Spec => [](TypeOK /\ PoolInv /\ ConfInv)
<1>1. Init => TypeOK /\ PoolInv /\ ConfInv
  BY TypeInit, PoolInvInit
<1>2. TypeOK /\ PoolInv /\ ConfInv /\ [Next]_vars => (TypeOK /\ PoolInv /\ ConfInv)'
  BY TypeStep, PoolInvStep, ConfInvStep
<1> QED BY <1>1, <1>2, PTL DEF Spec

(* However many requests replace the pool at the same time, what is left is *)
(* open and belongs to the recorded digest (PoolFitsDigest), as long as     *)
(* nothing was loaded within a replacement and every connect succeeded.     *)
THEOREM PoolFitsDigestAlways == Spec => []PoolFitsDigest
<1>1. PoolInv /\ ConfInv => PoolFitsDigest
  <2> SUFFICES ASSUME PoolInv, ConfInv, ~raced, ~unconnected,
                      \A q \in Request : ~Ensuring(q), repoDb # NoPool
               PROVE  pools[repoDb].open /\ pools[repoDb].conf = repoDigest
    BY DEF PoolFitsDigest
  <2>1. \A q \in Request : pc[q] \notin {"connect", "store", "digest"}
    BY DEF Ensuring
  <2>2. pools[repoDb].open
    BY <2>1 DEF PoolInv
  <2>3. pools[repoDb].conf = repoDigest
    BY <2>1 DEF ConfInv
  <2> QED BY <2>2, <2>3
<1> QED BY <1>1, PoolAndDigest, PTL

-----------------------------------------------------------------------------
(***************************************************************************)
(* Pools that nobody refers to.                                            *)
(***************************************************************************)

(* What OrphanInv needs of the steps outside the replacement.               *)
LEMMA OrphanInvKept ==
  ASSUME OrphanInv, UNCHANGED <<pools, repoDb, doubled>>,
         \A o \in Request :
           \/ pc'[o] = pc[o] /\ opened'[o] = opened[o]
           \/ pc[o] \notin Stages /\ pc'[o] \notin Stages
  PROVE  OrphanInv'
<1>1. \A o \in Request : pc'[o] \in Stages => pc[o] = pc'[o]
  OBVIOUS
<1>2. \A o \in Request : pc[o] = "store" => pc'[o] = "store" /\ opened'[o] = opened[o]
  BY DEF Stages
<1>3. \A o \in Request : Ensuring(o)' => Ensuring(o)
  BY <1>1 DEF Ensuring, Stages
<1>4. \A o \in Request : pc'[o] \in {"connect", "store"} => pc[o] = pc'[o]
  BY <1>1 DEF Stages
<1> QED BY <1>2, <1>3, <1>4 DEF OrphanInv

LEMMA OrphanInvStep == TypeOK /\ OrphanInv /\ [Next]_vars => OrphanInv'
<1> SUFFICES ASSUME TypeOK, OrphanInv, [Next]_vars, ~doubled' PROVE OrphanInv'
  BY DEF OrphanInv
<1> USE DEF Goto, ownVars
<1>1. CASE UNCHANGED vars \/ LoadState \/ \E found \in Config \cup {Unusable} : Load(found)
  BY <1>1, OrphanInvKept DEF vars, LoadState, Load, repoVars, requestVars, historyVars
<1>2. ASSUME NEW q \in Request, RequestStep(q) PROVE OrphanInv'
  <2>1. CASE Quiet(q)
    BY <2>1, QuietStep, OrphanInvKept DEF repoVars
  <2>2. CASE Ensure(q)
    <3>1. /\ pc[q] = "ensure" /\ UNCHANGED <<pools, repoDb, opened>> /\ ~doubled
          /\ pc' = [pc EXCEPT ![q] = IF IsChanged THEN "close" ELSE "since"]
          /\ ~(IsChanged /\ \E o \in Request : Ensuring(o))
      BY <2>2 DEF Ensure, repoVars
    <3>2. pc'[q] \in {"close", "since"} /\ \A o \in Request \ {q} : pc'[o] = pc[o]
      BY <3>1 DEF TypeOK
    <3>3. \A o, a \in Request : Ensuring(o)' /\ Ensuring(a)' => o = a
      BY <3>1, <3>2 DEF TypeOK, Ensuring, OrphanInv
    <3> QED BY <3>1, <3>2, <3>3 DEF OrphanInv
  <2>3. CASE CloseOld(q)
    <3>1. /\ pc[q] = "close" /\ pc' = [pc EXCEPT ![q] = "connect"]
          /\ pools' = PoolsClosed /\ UNCHANGED <<repoDb, opened>> /\ ~doubled
      BY <2>3 DEF CloseOld, historyVars
    <3>2. pc'[q] = "connect" /\ \A o \in Request \ {q} : pc'[o] = pc[o]
      BY <3>1 DEF TypeOK
    <3>3. \A o \in Request : Ensuring(o)' => Ensuring(o)
      BY <3>1, <3>2 DEF Ensuring
    <3>4. \A p \in 1 .. Len(pools') : p # repoDb => p \in 1 .. Len(pools) /\ pools'[p] = pools[p]
      BY <3>1, ClosesOne
    <3>5. repoDb # NoPool => ~pools'[repoDb].open
      BY <3>1, ClosesOne
    <3> QED BY <3>1, <3>2, <3>3, <3>4, <3>5 DEF OrphanInv
  <2>4. CASE Connect(q)
    <3>1. /\ pc[q] = "connect" /\ pc' = [pc EXCEPT ![q] = "store"]
          /\ opened' = [opened EXCEPT ![q] = Len(pools')]
          /\ pools' = PoolsWith(TRUE)
          /\ UNCHANGED repoDb /\ ~doubled
      BY <2>4 DEF Connect
    <3>2. /\ pc'[q] = "store" /\ opened'[q] = Len(pools')
          /\ \A o \in Request \ {q} : pc'[o] = pc[o] /\ opened'[o] = opened[o]
      BY <3>1 DEF TypeOK
    <3>3. /\ Len(pools) \in Nat /\ Len(pools') = Len(pools) + 1
          /\ \A p \in 1 .. Len(pools) : pools'[p] = pools[p]
      BY <3>1, OpensOne DEF TypeOK, PoolsWith
    <3>4. \A o \in Request : Ensuring(o)' => Ensuring(o)
      BY <3>1, <3>2 DEF Ensuring
    <3>5. ASSUME NEW p \in 1 .. Len(pools'), pools'[p].open, pools'[p].pinged
          PROVE  p = repoDb \/ \E o \in Request : pc'[o] = "store" /\ opened'[o] = p
      <4>1. CASE p = Len(pools')
        BY <4>1, <3>2
      <4>2. CASE p # Len(pools')
        <5>1. p \in 1 .. Len(pools) /\ pools[p].open /\ pools[p].pinged
          BY <3>3, <3>5, <4>2
        <5>2. p = repoDb \/ \E o \in Request : pc[o] = "store" /\ opened[o] = p
          BY <3>1, <5>1 DEF OrphanInv
        <5> QED BY <3>1, <3>2, <5>2
      <4> QED BY <4>1, <4>2
    <3>6. repoDb # NoPool => ~pools'[repoDb].open
      <4>1. repoDb # NoPool => repoDb \in 1 .. Len(pools)
        BY <3>3 DEF TypeOK, NoPool
      <4> QED BY <3>1, <3>3, <4>1 DEF OrphanInv
    <3> QED BY <3>1, <3>4, <3>5, <3>6 DEF OrphanInv
  <2>5. CASE ConnectFails(q)
    <3>1. /\ pc[q] = "connect" /\ pc' = [pc EXCEPT ![q] = "idle"]
          /\ opened' = [opened EXCEPT ![q] = NoPool]
          /\ pools' \in {pools, PoolsWith(FALSE)} /\ repoDb' = repoDb /\ ~doubled
      BY <2>5 DEF ConnectFails, Leave
    <3>2. /\ pc'[q] = "idle"
          /\ \A o \in Request \ {q} : pc'[o] = pc[o] /\ opened'[o] = opened[o]
      BY <3>1 DEF TypeOK
    <3>3. \A o \in Request : Ensuring(o)' => Ensuring(o)
      BY <3>1, <3>2 DEF Ensuring
    <3>4. \A p \in 1 .. Len(pools') : pools'[p].pinged =>
            p \in 1 .. Len(pools) /\ pools'[p] = pools[p]
      BY <3>1, FailsOne DEF PoolsWith
    <3>5. repoDb # NoPool => pools'[repoDb] = pools[repoDb]
      <4>1. repoDb # NoPool => repoDb \in 1 .. Len(pools)
        BY DEF TypeOK, NoPool
      <4> QED BY <3>1, <4>1, FailsOne DEF PoolsWith
    <3> QED BY <3>1, <3>2, <3>3, <3>4, <3>5 DEF OrphanInv
  <2>6. CASE StoreDb(q)
    <3>1. /\ pc[q] = "store" /\ pc' = [pc EXCEPT ![q] = "digest"] /\ repoDb' = opened[q]
          /\ UNCHANGED <<pools, opened>> /\ ~doubled
      BY <2>6 DEF StoreDb, historyVars
    <3>2. pc'[q] = "digest" /\ \A o \in Request \ {q} : pc'[o] = pc[o]
      BY <3>1 DEF TypeOK
    <3>3. \A o \in Request : Ensuring(o)' => Ensuring(o)
      BY <3>1, <3>2 DEF Ensuring
    <3>4. \A o \in Request : Ensuring(o) => o = q
      BY <3>1 DEF OrphanInv, Ensuring
    <3>5. \A o \in Request : pc'[o] \notin {"connect", "store"}
      BY <3>2, <3>4 DEF Ensuring
    <3>6. repoDb # NoPool => ~pools[repoDb].open
      BY <3>1 DEF OrphanInv
    <3>7. \A p \in 1 .. Len(pools) : pools[p].open /\ pools[p].pinged => p = opened[q]
      <4>1. \A o \in Request : pc[o] = "store" => o = q
        BY <3>4 DEF Ensuring
      <4>2. 0 \notin 1 .. Len(pools)
        BY DEF TypeOK
      <4> QED BY <3>1, <3>6, <4>1, <4>2 DEF OrphanInv, NoPool
    <3> QED BY <3>1, <3>3, <3>5, <3>7 DEF OrphanInv
  <2>7. CASE StoreDigest(q)
    <3>1. /\ pc[q] = "digest" /\ pc' = [pc EXCEPT ![q] = "since"]
          /\ UNCHANGED <<pools, repoDb, opened>> /\ ~doubled
      BY <2>7 DEF StoreDigest, historyVars
    <3>2. pc'[q] = "since" /\ \A o \in Request \ {q} : pc'[o] = pc[o]
      BY <3>1 DEF TypeOK
    <3>3. \A o \in Request : Ensuring(o)' => Ensuring(o)
      BY <3>1, <3>2 DEF Ensuring
    <3> QED BY <3>1, <3>2, <3>3 DEF OrphanInv
  <2> QED BY <1>2, <2>1, <2>2, <2>3, <2>4, <2>5, <2>6, <2>7 DEF RequestStep, Quiet
<1> QED BY <1>1, <1>2 DEF Next

(* As long as no two requests replace the pool at once, the pools that stay *)
(* open without Repo.DB referring to them are those whose Ping failed       *)
(* (OnlyFailedPingLeaks), whatever is loaded in between.                    *)
THEOREM OnlyFailedPingLeaksAlways == Spec => []OnlyFailedPingLeaks
<1>1. Init => TypeOK /\ PoolInv /\ OrphanInv
  BY TypeInit, PoolInvInit
<1>2. TypeOK /\ PoolInv /\ OrphanInv /\ [Next]_vars => (TypeOK /\ PoolInv /\ OrphanInv)'
  BY TypeStep, PoolInvStep, OrphanInvStep
<1>3. TypeOK /\ PoolInv /\ OrphanInv => OnlyFailedPingLeaks
  <2> SUFFICES ASSUME TypeOK, PoolInv, OrphanInv, ~doubled, \A q \in Request : ~Ensuring(q),
                      NEW p \in 1 .. Len(pools), pools[p].open
               PROVE  p = repoDb <=> pools[p].pinged
    BY DEF OnlyFailedPingLeaks
  <2>1. pools[p].pinged => p = repoDb
    BY DEF OrphanInv, Ensuring
  <2>2. p = repoDb => pools[p].pinged
    BY DEF PoolInv, NoPool
  <2> QED BY <2>1, <2>2
<1> QED BY <1>1, <1>2, <1>3, PTL DEF Spec

-----------------------------------------------------------------------------
(***************************************************************************)
(* The database of the answer.                                             *)
(***************************************************************************)

(* What holds of a request while it runs: what the manager has was in force *)
(* since it began, its definition comes from that, and so does, once the    *)
(* pool was compared or replaced and as long as no load came within a       *)
(* replacement, the pool of Repo.DB, whoever replaces it.                   *)
OwnOf(q) ==
  /\ pc[q] # "stream" => answered[q] = NoPool
  /\ Running(q) => digest \in inForce[q] /\ datalayer \in inForce[q]
  /\ pc[q] \notin {"idle", "context", "definition"} => tableDef[q] \in inForce[q]
  /\ pc[q] \in {"since", "query"} /\ repoDb # NoPool /\ ~raced =>
       pools[repoDb].conf \in inForce[q]
  /\ answered[q] # NoPool /\ ~raced => pools[answered[q]].conf \in inForce[q]

OwnInv == \A q \in Request : OwnOf(q)

LEMMA OwnInvInit == Init => OwnInv
BY DEF Init, OwnInv, OwnOf, Running

(* The pool a request was answered from keeps its configuration.            *)
LEMMA AnswerStays ==
  ASSUME TypeOK, [Next]_vars, NEW q \in Request, answered[q] # NoPool
  PROVE  pools'[answered[q]].conf = pools[answered[q]].conf
<1>1. answered[q] \in 1 .. Len(pools)
  BY DEF TypeOK, NoPool
<1> QED BY <1>1, PoolsStay

(* What OwnOf needs of the steps that are not those of the request.         *)
LEMMA OthersOwn ==
  ASSUME TypeOK, [Next]_vars, NEW o \in Request, OwnOf(o),
         UNCHANGED <<pc[o], answered[o], tableDef[o]>>, raced => raced',
         inForce[o] \subseteq inForce'[o],
         Running(o) => digest' \in inForce'[o] /\ datalayer' \in inForce'[o],
         repoDb' = repoDb \/ (~raced' => pools'[repoDb'].conf = digest')
  PROVE  OwnOf(o)'
<1>1. Running(o)' <=> Running(o)
  BY DEF Running
<1>2. answered[o] # NoPool => pools'[answered[o]].conf = pools[answered[o]].conf
  BY AnswerStays
<1>3. repoDb # NoPool => pools'[repoDb].conf = pools[repoDb].conf
  BY PoolsStay DEF TypeOK, NoPool
<1>4. ASSUME pc'[o] \in {"since", "query"}, repoDb' # NoPool, ~raced'
      PROVE  pools'[repoDb'].conf \in inForce'[o]
  <2>1. CASE repoDb' = repoDb
    BY <1>3, <1>4, <2>1 DEF OwnOf
  <2>2. CASE repoDb' # repoDb
    BY <1>4, <2>2 DEF Running
  <2> QED BY <2>1, <2>2
<1> QED BY <1>1, <1>2, <1>4 DEF OwnOf

LEMMA OwnInvStep == TypeOK /\ PoolInv /\ ConfInv /\ OwnInv /\ [Next]_vars => OwnInv'
<1> SUFFICES ASSUME TypeOK, PoolInv, ConfInv, OwnInv, [Next]_vars, NEW o \in Request
             PROVE  OwnOf(o)'
  BY DEF OwnInv
<1> USE DEF Goto
<1>o. OwnOf(o)
  BY DEF OwnInv
<1>1. CASE UNCHANGED vars
  BY <1>1, <1>o DEF vars, managerVars, repoVars, requestVars, askedVars, ownVars, historyVars,
                    OwnOf, Running
<1>2. ASSUME NEW found \in Config \cup {Unusable}, Load(found) PROVE OwnOf(o)'
  <2>1. /\ UNCHANGED <<pc, answered, tableDef, repoDb, digest>> /\ (raced => raced')
        /\ inForce'[o] = IF Running(o) THEN inForce[o] \cup {datalayer'} ELSE inForce[o]
    BY <1>2 DEF Load, repoVars
  <2> QED BY <1>o, <2>1, OthersOwn DEF OwnOf
<1>3. CASE LoadState
  <2>1. /\ UNCHANGED <<pc, answered, tableDef, repoDb, datalayer, inForce>> /\ (raced => raced')
        /\ digest' = datalayer
    BY <1>3 DEF LoadState, repoVars, requestVars, ownVars
  <2> QED BY <1>o, <2>1, OthersOwn DEF OwnOf
<1>4. ASSUME NEW q \in Request, RequestStep(q), q # o PROVE OwnOf(o)'
  <2> DEFINE Same == /\ pc'[o] = pc[o] /\ answered'[o] = answered[o]
                     /\ tableDef'[o] = tableDef[o] /\ inForce'[o] = inForce[o]
                     /\ digest' = digest /\ datalayer' = datalayer /\ (raced => raced')
  <2>a. ASSUME \E n \in Dataset, isCdcSince \in BOOLEAN : Exists(q, n, isCdcSince)
        PROVE  Same
    BY <1>4, <2>a DEF Exists, TypeOK, managerVars, historyVars
  <2>b. ASSUME Context(q) \/ Definition(q) \/ ServerSince(q) \/ QueryRuns(q) \/ QueryPanics(q)
               \/ Stream(q) \/ ConnectFails(q)
        PROVE  Same
    BY <1>4, <2>b DEF Context, Definition, ServerSince, QueryRuns, QueryPanics, Stream,
                      ConnectFails, Leave, TypeOK, managerVars, ownVars, historyVars
  <2>c. ASSUME Ensure(q) \/ CloseOld(q) \/ Connect(q) \/ StoreDb(q) \/ StoreDigest(q)
        PROVE  Same
    BY <1>4, <2>c DEF Ensure, CloseOld, Connect, StoreDb, StoreDigest, TypeOK, managerVars,
                      ownVars, historyVars
  <2>1. Same
    BY <1>4, <2>a, <2>b, <2>c DEF RequestStep
  <2>2. repoDb' = repoDb \/ (~raced' => pools'[repoDb'].conf = digest')
    <3>1. CASE StoreDb(q)
      <4>1. pc[q] = "store" /\ repoDb' = opened[q] /\ UNCHANGED <<pools, raced>>
        BY <3>1 DEF StoreDb, historyVars
      <4> QED BY <2>1, <4>1 DEF ConfInv
    <3>2. CASE ~StoreDb(q)
      BY <1>4, <3>2 DEF RequestStep, Exists, Context, Definition, Ensure, CloseOld, Connect,
                        ConnectFails, StoreDigest, ServerSince, QueryRuns, QueryPanics, Stream,
                        repoVars
    <3> QED BY <3>1, <3>2
  <2> QED BY <1>o, <2>1, <2>2, OthersOwn DEF OwnOf
<1>5. ASSUME RequestStep(o) PROVE OwnOf(o)'
  <2>1. ASSUME Leave(o) PROVE OwnOf(o)'
    BY <2>1 DEF Leave, TypeOK, OwnOf, Running
  <2>2. ASSUME NEW n \in Dataset, NEW isCdcSince \in BOOLEAN, Exists(o, n, isCdcSince)
        PROVE  OwnOf(o)'
    <3>1. /\ pc[o] = "idle" /\ UNCHANGED <<digest, datalayer, answered, tableDef, pools, raced>>
          /\ \/ pc'[o] = "context" /\ inForce'[o] = {digest, datalayer}
             \/ pc'[o] = "idle"
      BY <2>2 DEF Exists, TypeOK, managerVars, repoVars, historyVars
    <3> QED BY <1>o, <3>1 DEF OwnOf, Running
  <2>3. CASE Context(o) \/ Definition(o)
    <3>1. CASE Leave(o)
      BY <2>1, <3>1
    <3>2. CASE ~Leave(o)
      <4>1. /\ pc[o] \in {"context", "definition"} /\ pc'[o] \in {"definition", "ensure"}
            /\ UNCHANGED <<digest, datalayer, answered, inForce, pools, raced>>
            /\ pc'[o] = "ensure" => tableDef'[o] = datalayer
        BY <2>3, <3>2 DEF Context, Definition, TypeOK, managerVars, repoVars, historyVars, ownVars
      <4> QED BY <1>o, <4>1 DEF OwnOf, Running
    <3> QED BY <3>1, <3>2
  <2>4. CASE Ensure(o)
    <3>1. /\ pc[o] = "ensure" /\ pc'[o] \in {"close", "since"}
          /\ pc'[o] = "since" => digest = repoDigest
          /\ UNCHANGED <<managerVars, repoVars, ownVars, raced>>
      BY <2>4 DEF Ensure, IsChanged, TypeOK
    <3>2. digest = repoDigest /\ repoDb # NoPool /\ ~raced => pools[repoDb].conf = digest
      BY DEF ConfInv
    <3> QED BY <1>o, <3>1, <3>2 DEF OwnOf, Running, managerVars, repoVars, ownVars
  <2>5. CASE CloseOld(o) \/ Connect(o) \/ StoreDb(o)
    <3>1. /\ pc[o] \in {"close", "connect", "store"} /\ pc'[o] \in {"connect", "store", "digest"}
          /\ UNCHANGED <<digest, datalayer, tableDef, answered, inForce>>
      BY <2>5 DEF CloseOld, Connect, StoreDb, TypeOK, managerVars, ownVars
    <3> QED BY <1>o, <3>1 DEF OwnOf, Running
  <2>6. CASE StoreDigest(o)
    <3>1. /\ pc[o] = "digest" /\ pc'[o] = "since"
          /\ UNCHANGED <<digest, datalayer, ownVars, pools, repoDb, raced>>
      BY <2>6 DEF StoreDigest, TypeOK, managerVars, historyVars
    <3>2. ~raced => pools[repoDb].conf = digest
      BY <3>1 DEF ConfInv
    <3> QED BY <1>o, <3>1, <3>2 DEF OwnOf, Running, ownVars
  <2>7. CASE ServerSince(o)
    <3>1. CASE Leave(o)
      BY <2>1, <3>1
    <3>2. CASE ~Leave(o)
      <4>1. /\ pc[o] = "since" /\ pc'[o] = "query"
            /\ UNCHANGED <<digest, datalayer, ownVars, pools, repoDb, raced>>
        BY <2>7, <3>2 DEF ServerSince, TypeOK, managerVars, repoVars, historyVars
      <4> QED BY <1>o, <4>1 DEF OwnOf, Running, ownVars
    <3> QED BY <3>1, <3>2
  <2>8. CASE QueryRuns(o)
    <3>1. /\ pc[o] = "query" /\ pc'[o] = "stream" /\ repoDb # NoPool /\ answered'[o] = repoDb
          /\ UNCHANGED <<digest, datalayer, tableDef, inForce, pools, raced>>
      BY <2>8 DEF QueryRuns, IsOpen, TypeOK, managerVars, repoVars, historyVars
    <3> QED BY <1>o, <3>1 DEF OwnOf, Running
  <2>9. CASE ConnectFails(o) \/ QueryPanics(o) \/ Stream(o)
    BY <2>1, <2>9 DEF ConnectFails, QueryPanics, Stream
  <2> QED BY <1>5, <2>2, <2>3, <2>4, <2>5, <2>6, <2>7, <2>8, <2>9 DEF RequestStep
<1> QED BY <1>1, <1>2, <1>3, <1>4, <1>5 DEF Next

(* A request is answered from the database of a configuration that was in   *)
(* force while it ran, as its definition was, whichever requests replace    *)
(* the pool beside it (AnsweredFromOwnDatabase).                            *)
THEOREM AnsweredFromOwnDatabaseAlways == Spec => []AnsweredFromOwnDatabase
<1>1. Init => TypeOK /\ PoolInv /\ ConfInv /\ OwnInv
  BY TypeInit, PoolInvInit, OwnInvInit
<1>2. TypeOK /\ PoolInv /\ ConfInv /\ OwnInv /\ [Next]_vars =>
        (TypeOK /\ PoolInv /\ ConfInv /\ OwnInv)'
  BY TypeStep, PoolInvStep, ConfInvStep, OwnInvStep
<1>3. OwnInv => AnsweredFromOwnDatabase
  <2> SUFFICES ASSUME OwnInv, NEW q \in Request, answered[q] # NoPool, ~raced
               PROVE  pools[answered[q]].conf \in inForce[q] /\ tableDef[q] \in inForce[q]
    BY DEF AnsweredFromOwnDatabase
  <2> QED BY DEF OwnInv, OwnOf
<1> QED BY <1>1, <1>2, <1>3, PTL DEF Spec
=============================================================================
