-------------------------- MODULE LegacyPostProofs --------------------------
(***************************************************************************)
(* Theorems about the legacy write path, for any number of datasets, slots *)
(* for requests, requests and batches.                                     *)
(***************************************************************************)
EXTENDS LegacyPost, TLAPS

(* What a request may be at and know when p pools were opened. *)
ReqType(p) ==
  [pc : {"idle", "next", "definition", "connect", "store", "query", "fields", "sort",
         "sorting", "begin", "exec", "close", "forget", "answer"},
   dataset : Dataset \cup {Unmapped}, left : 0 .. MaxBatches, opened : 0 .. p,
   query : Dataset \cup {Unmapped}, fields : Dataset \cup {Unmapped},
   tx : 0 .. p, unsaved : 0 .. MaxBatches, dropped : BOOLEAN, together : BOOLEAN]

(* What is known of a pool. *)
Pool == [dataset : WithConfig, open : BOOLEAN, pinged : BOOLEAN]

(* In PostEntities. *)
Writing == {"definition", "connect", "store", "query", "fields", "sort", "sorting", "begin",
            "exec"}

(* Why its type lasts: from the moment it has read them, a request has a    *)
(* query, fields and a pool, and it never hands over more than it has.  Why *)
(* it misses no batch: it hands over the next one only after the commit of  *)
(* the last, so at most one is under way.                                   *)
ReqInv(r) ==
  /\ r.left + r.unsaved =< MaxBatches
  /\ r.pc \in Writing => r.unsaved >= 1 /\ (r.unsaved = 1 \/ r.dropped)
  /\ r.pc \notin Writing => r.unsaved = 0 \/ r.dropped
  /\ r.pc \in {"fields", "sort", "sorting", "begin", "exec"} => r.query \in Dataset
  /\ r.pc \in {"sort", "sorting", "begin", "exec"} => r.fields \in Dataset
  /\ r.pc = "exec" => r.tx # NoPool

TypeInv == TypeOK /\ \A q \in Request : ReqInv(req[q])

-----------------------------------------------------------------------------

LEMMA ElementOf ==
  ASSUME NEW S, NEW s \in Seq(S), NEW i \in 1 .. Len(s) PROVE s[i] \in S
OBVIOUS

(* A record stays one when pools are added. *)
LEMMA MorePools ==
  ASSUME NEW p \in Nat, NEW p2 \in Nat, p =< p2, NEW r \in ReqType(p)
  PROVE  r \in ReqType(p2)
<1>1. 0 .. p \subseteq 0 .. p2
  OBVIOUS
<1> QED BY <1>1 DEF ReqType

(* The others keep their type when q moves and pools are added. *)
LEMMA OthersKeepType ==
  ASSUME TypeInv, NEW q \in Request, NEW r,
         Len(pools') \in Nat, Len(pools) =< Len(pools'),
         r \in ReqType(Len(pools')), ReqInv(r),
         req' = [req EXCEPT ![q] = r]
  PROVE  /\ req' \in [Request -> ReqType(Len(pools'))]
         /\ \A o \in Request : ReqInv(req'[o])
<1>1. req \in [Request -> ReqType(Len(pools))]
  BY DEF TypeInv, TypeOK, ReqType
<1>2. Len(pools) \in Nat
  BY DEF TypeInv, TypeOK
<1>3. \A o \in Request : req[o] \in ReqType(Len(pools'))
  <2> SUFFICES ASSUME NEW o \in Request PROVE req[o] \in ReqType(Len(pools'))
    OBVIOUS
  <2>1. req[o] \in ReqType(Len(pools))
    BY <1>1
  <2> QED BY <1>2, <2>1, MorePools
<1>4. \A o \in Request : req'[o] = IF o = q THEN r ELSE req[o]
  BY <1>1
<1>5. req' \in [Request -> ReqType(Len(pools'))]
  BY <1>1, <1>3, <1>4
<1>6. \A o \in Request : ReqInv(req'[o])
  BY <1>4 DEF TypeInv
<1> QED BY <1>5, <1>6

LEMMA TypeOfInit == Init => TypeInv
<1> SUFFICES ASSUME Init PROVE TypeInv
  OBVIOUS
<1>1. Idle \in ReqType(0) /\ ReqInv(Idle)
  BY BoundsAssumption DEF Idle, ReqType, ReqInv, Writing, NoPool
<1>2. Len(pools) = 0 /\ pools \in Seq(Pool)
  BY DEF Init
<1>3. req \in [Request -> ReqType(0)] /\ \A q \in Request : ReqInv(req[q])
  BY <1>1 DEF Init
<1>4. /\ req \in [Request -> ReqType(Len(pools))]
      /\ repoDb \in 0 .. Len(pools) /\ requests \in 0 .. MaxRequests
  BY <1>2, <1>3, BoundsAssumption DEF Init, NoPool
<1>5. /\ repoDef \in Dataset \cup {Unmapped}
      /\ fields \in [Dataset -> {"raw", "ordered", "torn"}]
      /\ landed = NoBatch /\ settled \subseteq Dataset
      /\ overlap \in BOOLEAN /\ leftOpen \in BOOLEAN
  BY DEF Init
<1> QED BY <1>2, <1>3, <1>4, <1>5 DEF TypeInv, TypeOK, ReqType, Pool

(* What has to be typed besides the requests. *)
RestOK ==
  /\ repoDef \in Dataset \cup {Unmapped}
  /\ pools \in Seq(Pool)
  /\ repoDb \in 0 .. Len(pools)
  /\ fields \in [Dataset -> {"raw", "ordered", "torn"}]
  /\ requests \in 0 .. MaxRequests
  /\ landed \in {NoBatch} \cup
       [dataset : Dataset \cup {Unmapped}, query : Dataset, fields : Dataset,
        database : WithConfig, excused : BOOLEAN]
  /\ settled \subseteq Dataset
  /\ overlap \in BOOLEAN /\ leftOpen \in BOOLEAN

LEMMA TypeFromParts ==
  ASSUME req' \in [Request -> ReqType(Len(pools'))],
         \A o \in Request : ReqInv(req'[o]),
         RestOK'
  PROVE  TypeInv'
BY DEF TypeInv, TypeOK, ReqType, RestOK, Pool

LEMMA PartsFromType ==
  ASSUME TypeInv
  PROVE  /\ req \in [Request -> ReqType(Len(pools))]
         /\ \A o \in Request : ReqInv(req[o])
         /\ RestOK
         /\ Len(pools) \in Nat
BY DEF TypeInv, TypeOK, ReqType, RestOK, Pool

(* A pool that is added. *)
LEMMA AddedPool ==
  ASSUME NEW s, NEW S, s \in Seq(S), NEW e \in S
  PROVE  /\ Append(s, e) \in Seq(S)
         /\ Len(Append(s, e)) = Len(s) + 1 /\ Append(s, e)[Len(s) + 1] = e
         /\ \A p \in 1 .. Len(s) : Append(s, e)[p] = s[p]
OBVIOUS

LEMMA PingedPool ==
  ASSUME TypeInv, repoDef \in WithConfig, NEW ping \in BOOLEAN,
         pools' = PoolsWith(ping)
  PROVE  /\ pools' \in Seq(Pool) /\ Len(pools') = Len(pools) + 1
         /\ \A k \in 1 .. Len(pools) : pools'[k] = pools[k]
         /\ pools'[Len(pools')].dataset = repoDef
         /\ pools'[Len(pools')].open /\ pools'[Len(pools')].pinged = ping
<1> DEFINE e == [dataset |-> repoDef, open |-> TRUE, pinged |-> ping]
<1>1. e \in Pool /\ e.dataset = repoDef /\ e.open /\ e.pinged = ping
  BY DEF Pool
<1>2. pools' = Append(pools, e)
  BY DEF PoolsWith
<1>3. pools \in Seq(Pool)
  BY PartsFromType DEF RestOK
<1> HIDE DEF e
<1> QED BY <1>1, <1>2, <1>3, AddedPool

(* The pools that are left by a request that ends early are those there     *)
(* were, and at most one more whose Ping failed.                            *)
LeavesPools ==
  /\ pools' \in Seq(Pool) /\ Len(pools') \in Nat /\ Len(pools) =< Len(pools')
  /\ \A k \in 1 .. Len(pools) : pools'[k] = pools[k]
  /\ \A k \in 1 .. Len(pools') : k > Len(pools) => ~pools'[k].pinged

LEMMA UnchangedPools == ASSUME TypeInv, UNCHANGED pools PROVE LeavesPools
BY PartsFromType DEF RestOK, LeavesPools

LEMMA FailedPing ==
  ASSUME TypeInv, repoDef \in WithConfig, pools' \in {pools, PoolsWith(FALSE)}
  PROVE  LeavesPools
<1>1. CASE pools' = pools
  BY <1>1, UnchangedPools
<1>2. CASE pools' = PoolsWith(FALSE)
  <2>1. /\ pools' \in Seq(Pool) /\ Len(pools') = Len(pools) + 1
        /\ \A k \in 1 .. Len(pools) : pools'[k] = pools[k]
        /\ ~pools'[Len(pools')].pinged
    BY <1>2, PingedPool
  <2>2. Len(pools) \in Nat
    BY PartsFromType
  <2> QED BY <2>1, <2>2 DEF LeavesPools
<1> QED BY <1>1, <1>2

(* A request that ends early. *)
LEMMA TypeOfAbandon ==
  ASSUME TypeInv, NEW q \in Request, Abandon(q), LeavesPools PROVE TypeInv'
<1>1. /\ Len(pools') \in Nat /\ Len(pools) =< Len(pools')
      /\ req' = [req EXCEPT ![q] = Idle]
  BY DEF LeavesPools, Abandon
<1>2. Idle \in ReqType(Len(pools')) /\ ReqInv(Idle)
  BY <1>1, BoundsAssumption DEF Idle, ReqType, ReqInv, Writing, NoPool
<1>3. /\ req' \in [Request -> ReqType(Len(pools'))]
      /\ \A o \in Request : ReqInv(req'[o])
  BY <1>1, <1>2, OthersKeepType
<1>4. RestOK'
  <2>1. RestOK /\ Len(pools) \in Nat
    BY PartsFromType
  <2>2. repoDb' \in 0 .. Len(pools')
    BY <1>1, <2>1 DEF Abandon, RestOK
  <2> QED BY <2>1, <2>2 DEF Abandon, LeavesPools, RestOK
<1> QED BY <1>3, <1>4, TypeFromParts

LEMMA TypeOfLeave ==
  ASSUME TypeInv, NEW q \in Request, Leave(q) PROVE TypeInv'
BY UnchangedPools, TypeOfAbandon DEF Leave

(* A step of a request that changes nothing but what the request knows. *)
LEMMA TypeOfLocal ==
  ASSUME TypeInv, NEW q \in Request, NEW r \in ReqType(Len(pools)), ReqInv(r),
         req' = [req EXCEPT ![q] = r],
         UNCHANGED <<repoVars, fields, requests, historyVars>>
  PROVE  TypeInv'
<1>1. /\ Len(pools') \in Nat /\ Len(pools) =< Len(pools')
      /\ r \in ReqType(Len(pools'))
  BY DEF TypeInv, TypeOK, repoVars
<1>2. ReqInv(r) /\ req' = [req EXCEPT ![q] = r]
  OBVIOUS
<1>3. /\ req' \in [Request -> ReqType(Len(pools'))]
      /\ \A o \in Request : ReqInv(req'[o])
  BY <1>1, <1>2, OthersKeepType
<1>4. RestOK'
  BY PartsFromType DEF repoVars, historyVars, RestOK
<1> QED BY <1>3, <1>4, TypeFromParts

(* Of such steps, those that only go on to another place. *)
LEMMA TypeOfGoto ==
  ASSUME TypeInv, NEW q \in Request,
         NEW p \in {"connect", "query", "sorting", "begin", "answer", "close", "forget", "next"},
         Goto(q, p),
         p \in {"sorting", "begin"} => req[q].pc \in {"sort", "sorting"},
         p \in Writing <=> req[q].pc \in Writing,
         UNCHANGED <<repoVars, fields, requests, historyVars>>
  PROVE  TypeInv'
<1>1. req \in [Request -> ReqType(Len(pools))] /\ ReqInv(req[q])
  BY DEF TypeInv, TypeOK, ReqType
<1> DEFINE r == [req[q] EXCEPT !.pc = p]
<1>2. req' = [req EXCEPT ![q] = r]
  BY DEF Goto
<1>3. r \in ReqType(Len(pools))
  BY <1>1 DEF ReqType
<1>4. /\ r.left = req[q].left /\ r.unsaved = req[q].unsaved /\ r.dropped = req[q].dropped
      /\ r.query = req[q].query /\ r.fields = req[q].fields /\ r.pc = p
  BY <1>1 DEF ReqType
<1>5. ReqInv(r)
  BY <1>1, <1>4 DEF ReqInv, Writing
<1> HIDE DEF r
<1> QED BY <1>2, <1>3, <1>5, TypeOfLocal

-----------------------------------------------------------------------------

(* The type of the steps that change more than one request's own record. *)
LEMMA TypeOfPost ==
  ASSUME TypeInv, NEW q \in Request, NEW d \in Dataset \cup {Unmapped},
         NEW n \in 0 .. MaxBatches, Post(q, d, n)
  PROVE  TypeInv'
<1>1. /\ req \in [Request -> ReqType(Len(pools))] /\ \A o \in Request : ReqInv(req[o])
      /\ RestOK /\ Len(pools) \in Nat
  BY PartsFromType
<1> DEFINE others == {o \in Request \ {q} : Running(o)}
           own == [Idle EXCEPT !.pc = "next", !.dataset = d, !.left = n,
                               !.together = others # {}]
<1>2. /\ UNCHANGED <<repoVars, fields, landed, settled, leftOpen>>
      /\ requests < MaxRequests /\ requests' = requests + 1
      /\ overlap' = (overlap \/ others # {})
      /\ req' = [r \in Request |->
           IF r = q THEN own
           ELSE IF r \in others THEN [req[r] EXCEPT !.together = TRUE] ELSE req[r]]
  BY DEF Post
<1> HIDE DEF others
<1>3. own \in ReqType(Len(pools)) /\ ReqInv(own)
  <2>1. Idle \in ReqType(Len(pools)) /\ Idle.unsaved = 0
    BY <1>1, BoundsAssumption DEF Idle, ReqType, NoPool
  <2> DEFINE b == others # {}
  <2>2. b \in BOOLEAN
    OBVIOUS
  <2> HIDE DEF b
  <2>3. own \in ReqType(Len(pools))
    BY <2>1, <2>2, BoundsAssumption DEF ReqType
  <2>4. own.left = n /\ own.unsaved = 0 /\ own.pc = "next"
    BY DEF Idle
  <2> QED BY <2>3, <2>4, BoundsAssumption DEF ReqInv, Writing
<1>4. ASSUME NEW o \in Request
      PROVE  LET r == [req[o] EXCEPT !.together = TRUE]
             IN r \in ReqType(Len(pools)) /\ ReqInv(r)
  <2>1. req[o] \in ReqType(Len(pools)) /\ ReqInv(req[o])
    BY <1>1
  <2> DEFINE r == [req[o] EXCEPT !.together = TRUE]
  <2>2. /\ r \in ReqType(Len(pools))
        /\ r.left = req[o].left /\ r.unsaved = req[o].unsaved /\ r.pc = req[o].pc
        /\ r.dropped = req[o].dropped
        /\ r.query = req[o].query /\ r.fields = req[o].fields /\ r.tx = req[o].tx
    BY <2>1 DEF ReqType
  <2> QED BY <2>1, <2>2 DEF ReqInv
<1> HIDE DEF own
<1>5. \A o \in Request : req'[o] \in ReqType(Len(pools)) /\ ReqInv(req'[o])
  BY <1>1, <1>2, <1>3, <1>4
<1>6. req' \in [Request -> ReqType(Len(pools'))]
  BY <1>2, <1>5 DEF repoVars
<1>7. RestOK'
  BY <1>1, <1>2, BoundsAssumption DEF RestOK, repoVars
<1> QED BY <1>5, <1>6, <1>7, TypeFromParts

LEMMA TypeOfNextBatch ==
  ASSUME TypeInv, NEW q \in Request, NextBatch(q) PROVE TypeInv'
<1>1. /\ req[q] \in ReqType(Len(pools)) /\ ReqInv(req[q])
      /\ RestOK /\ Len(pools) \in Nat
  BY PartsFromType
<1> DEFINE r == [req[q] EXCEPT !.left = @ - 1, !.unsaved = @ + 1, !.pc = "definition"]
<1>2. req' = [req EXCEPT ![q] = r]
  BY DEF NextBatch
<1>3. r \in ReqType(Len(pools')) /\ ReqInv(r)
  <2>1. /\ req[q].left - 1 \in 0 .. MaxBatches /\ req[q].unsaved + 1 \in 0 .. MaxBatches
        /\ req[q].left - 1 + (req[q].unsaved + 1) =< MaxBatches
    BY <1>1, BoundsAssumption DEF NextBatch, HasMore, ReqType, ReqInv
  <2>4. req[q].unsaved = 0 \/ req[q].dropped
    BY <1>1 DEF NextBatch, At, ReqInv, Writing
  <2>2. r \in ReqType(Len(pools'))
    BY <1>1, <2>1 DEF NextBatch, ReqType
  <2>3. /\ r.left = req[q].left - 1 /\ r.unsaved = req[q].unsaved + 1
        /\ r.dropped = req[q].dropped /\ r.pc = "definition"
    BY <1>1 DEF ReqType
  <2>5. req[q].unsaved \in Nat
    BY <1>1 DEF ReqType
  <2> QED BY <2>1, <2>2, <2>3, <2>4, <2>5 DEF ReqInv, Writing
<1>4. Len(pools') \in Nat /\ Len(pools) =< Len(pools')
  BY <1>1 DEF NextBatch
<1> HIDE DEF r
<1>5. /\ req' \in [Request -> ReqType(Len(pools'))]
      /\ \A o \in Request : ReqInv(req'[o])
  BY <1>2, <1>3, <1>4, OthersKeepType
<1>6. RestOK'
  BY <1>1 DEF NextBatch, RestOK, ReqType, historyVars
<1> QED BY <1>5, <1>6, TypeFromParts

LEMMA TypeOfConnect ==
  ASSUME TypeInv, NEW q \in Request, Connect(q) PROVE TypeInv'
<1>1. /\ req[q] \in ReqType(Len(pools)) /\ ReqInv(req[q])
      /\ RestOK /\ Len(pools) \in Nat
  BY PartsFromType
<1>2. /\ pools' \in Seq(Pool)
      /\ Len(pools') = Len(pools) + 1
  BY PingedPool DEF Connect
<1> DEFINE r == [req[q] EXCEPT !.opened = Len(pools'), !.pc = "store"]
<1>3. req' = [req EXCEPT ![q] = r]
  BY DEF Connect
<1>4. Len(pools') \in Nat /\ Len(pools) =< Len(pools')
  BY <1>1, <1>2
<1>5. r \in ReqType(Len(pools')) /\ ReqInv(r)
  <2>1. Len(pools') \in 0 .. Len(pools') /\ req[q] \in ReqType(Len(pools'))
    BY <1>1, <1>4, MorePools
  <2>2. r \in ReqType(Len(pools'))
    BY <2>1 DEF ReqType
  <2>3. /\ r.left = req[q].left /\ r.unsaved = req[q].unsaved
        /\ r.dropped = req[q].dropped /\ r.pc = "store"
    BY <1>1 DEF ReqType
  <2>4. req[q].pc \in Writing
    BY DEF Connect, At, Writing
  <2> QED BY <1>1, <2>2, <2>3, <2>4 DEF ReqInv, Writing
<1> HIDE DEF r
<1>6. /\ req' \in [Request -> ReqType(Len(pools'))]
      /\ \A o \in Request : ReqInv(req'[o])
  BY <1>3, <1>4, <1>5, OthersKeepType
<1>7. RestOK'
  <2>0. repoDb' = repoDb
    BY DEF Connect
  <2>1. repoDb' \in 0 .. Len(pools')
    BY <1>1, <1>2, <2>0 DEF RestOK
  <2> QED BY <1>1, <1>2, <2>1 DEF Connect, RestOK, historyVars
<1> QED BY <1>6, <1>7, TypeFromParts

(* The type of the steps in which a request takes over what the repository  *)
(* holds, or gives it a pool.                                               *)
LEMMA TypeOfCalls ==
  ASSUME TypeInv, NEW q \in Request,
         StoreDb(q) \/ ReadQuery(q) \/ ReadFields(q) \/ Begin(q)
  PROVE  TypeInv'
<1>1. /\ req[q] \in ReqType(Len(pools)) /\ ReqInv(req[q])
      /\ RestOK /\ Len(pools) \in Nat
  BY PartsFromType
<1>2. CASE StoreDb(q)
  <2> DEFINE r == [req[q] EXCEPT !.opened = NoPool, !.pc = "query"]
  <2>1. req' = [req EXCEPT ![q] = r] /\ pools' = pools
    BY <1>2 DEF StoreDb
  <2>a. NoPool \in 0 .. Len(pools')
    BY <1>1, <2>1 DEF NoPool
  <2>2. r \in ReqType(Len(pools'))
    BY <1>1, <2>1, <2>a DEF ReqType
  <2>3. /\ r.left = req[q].left /\ r.unsaved = req[q].unsaved
        /\ r.dropped = req[q].dropped /\ r.pc = "query"
    BY <1>1 DEF ReqType
  <2>4. ReqInv(r)
    <3>1. req[q].pc \in Writing
      BY <1>2 DEF StoreDb, At, Writing
    <3> QED BY <1>1, <2>3, <3>1 DEF ReqInv, Writing
  <2>5. Len(pools') \in Nat /\ Len(pools) =< Len(pools')
    BY <1>1, <2>1
  <2> HIDE DEF r
  <2>6. /\ req' \in [Request -> ReqType(Len(pools'))]
        /\ \A o \in Request : ReqInv(req'[o])
    BY <2>1, <2>2, <2>4, <2>5, OthersKeepType
  <2>7. req[q].opened \in 0 .. Len(pools)
    BY <1>1 DEF ReqType
  <2>8. RestOK'
    BY <1>1, <1>2, <2>7 DEF StoreDb, RestOK, historyVars
  <2> QED BY <2>6, <2>8, TypeFromParts
<1>3. CASE ReadQuery(q)
  <2>1. CASE Leave(q)
    BY <2>1, TypeOfLeave
  <2>2. CASE ~Leave(q)
    <3> DEFINE r == [req[q] EXCEPT !.query = repoDef, !.pc = "fields"]
    <3>a. /\ req' = [req EXCEPT ![q] = r] /\ repoDef # Unmapped
          /\ UNCHANGED <<repoVars, fields, requests, historyVars>>
      BY <1>3, <2>2 DEF ReadQuery
    <3>1. repoDef \in Dataset
      BY <1>1, <3>a DEF RestOK
    <3>2. r \in ReqType(Len(pools))
      BY <1>1, <3>1 DEF ReqType
    <3>w. req[q].pc \in Writing
      BY <1>3 DEF ReadQuery, Leave, Abandon, At, Writing
    <3>3. /\ r.left = req[q].left /\ r.unsaved = req[q].unsaved
          /\ r.dropped = req[q].dropped /\ r.pc = "fields"
          /\ r.query = repoDef
      BY <1>1 DEF ReqType
    <3>4. ReqInv(r)
      BY <1>1, <3>1, <3>3, <3>w DEF ReqInv, Writing
    <3> HIDE DEF r
    <3> QED BY <3>a, <3>2, <3>4, TypeOfLocal
  <2> QED BY <2>1, <2>2
<1>4. CASE ReadFields(q)
  <2>1. CASE Leave(q)
    BY <2>1, TypeOfLeave
  <2>2. CASE ~Leave(q)
    <3> DEFINE r == [req[q] EXCEPT !.fields = repoDef, !.pc = "sort"]
    <3>1. /\ req' = [req EXCEPT ![q] = r] /\ repoDef \in Dataset
          /\ UNCHANGED <<repoVars, fields, requests, historyVars>>
          /\ req[q].query \in Dataset
      BY <1>1, <1>4, <2>2 DEF ReadFields, RestOK, At, ReqInv
    <3>2. r \in ReqType(Len(pools))
      BY <1>1, <3>1 DEF ReqType
    <3>w. req[q].pc \in Writing
      BY <1>4 DEF ReadFields, Leave, Abandon, At, Writing
    <3>3. /\ r.left = req[q].left /\ r.unsaved = req[q].unsaved
          /\ r.dropped = req[q].dropped /\ r.pc = "sort"
          /\ r.query = req[q].query /\ r.fields = repoDef
      BY <1>1 DEF ReqType
    <3>4. ReqInv(r)
      BY <1>1, <3>1, <3>3, <3>w DEF ReqInv, Writing
    <3> HIDE DEF r
    <3> QED BY <3>1, <3>2, <3>4, TypeOfLocal
  <2> QED BY <2>1, <2>2
<1>5. CASE Begin(q)
  <2>1. CASE Leave(q)
    BY <2>1, TypeOfLeave
  <2>2. CASE ~Leave(q)
    <3> DEFINE r == [req[q] EXCEPT !.tx = repoDb, !.pc = "exec"]
    <3>c. /\ req' = [req EXCEPT ![q] = r]
          /\ UNCHANGED <<repoVars, fields, requests, historyVars>>
      BY <1>5, <2>2 DEF Begin
    <3>d. IsOpen(repoDb)
      BY <1>5, <2>2 DEF Begin
    <3>1. repoDb # NoPool /\ repoDb \in 0 .. Len(pools)
      BY <1>1, <3>d DEF RestOK, IsOpen
    <3>a. req[q].pc = "begin"
      BY <1>5 DEF Begin, At
    <3>b. req[q].query \in Dataset /\ req[q].fields \in Dataset
      BY <1>1, <3>a DEF ReqInv
    <3>2. r \in ReqType(Len(pools))
      BY <1>1, <3>1 DEF ReqType
    <3>w. req[q].pc \in Writing
      BY <1>5 DEF Begin, Leave, Abandon, At, Writing
    <3>3. /\ r.left = req[q].left /\ r.unsaved = req[q].unsaved
          /\ r.dropped = req[q].dropped /\ r.pc = "exec"
          /\ r.query = req[q].query /\ r.fields = req[q].fields /\ r.tx = repoDb
      BY <1>1 DEF ReqType
    <3>4. ReqInv(r)
      BY <1>1, <3>1, <3>3, <3>b, <3>w DEF ReqInv, Writing
    <3> HIDE DEF r
    <3> QED BY <3>c, <3>2, <3>4, TypeOfLocal
  <2> QED BY <2>1, <2>2
<1> QED BY <1>2, <1>3, <1>4, <1>5

LEMMA TypeOfEndSort ==
  ASSUME TypeInv, NEW q \in Request, EndSort(q) PROVE TypeInv'
<1>1. /\ req[q] \in ReqType(Len(pools)) /\ ReqInv(req[q])
      /\ RestOK /\ Len(pools) \in Nat
  BY PartsFromType
<1> DEFINE r == [req[q] EXCEPT !.pc = "begin"]
<1>2. /\ req' = [req EXCEPT ![q] = r]
      /\ UNCHANGED <<repoVars, requests, landed, overlap, leftOpen>>
  BY DEF EndSort, Goto
<1>3. req[q].query \in Dataset /\ req[q].fields \in Dataset
  BY <1>1 DEF EndSort, Sorts, At, ReqInv
<1>4. r \in ReqType(Len(pools'))
  BY <1>1, <1>2 DEF ReqType, repoVars
<1>w. req[q].pc \in Writing
  BY DEF EndSort, Sorts, At, Writing
<1>5. /\ r.left = req[q].left /\ r.unsaved = req[q].unsaved
      /\ r.dropped = req[q].dropped /\ r.pc = "begin"
      /\ r.query = req[q].query /\ r.fields = req[q].fields
  BY <1>1 DEF ReqType
<1>6. ReqInv(r)
  BY <1>1, <1>3, <1>5, <1>w DEF ReqInv, Writing
<1> HIDE DEF r
<1>7. Len(pools') \in Nat /\ Len(pools) =< Len(pools')
  BY <1>1, <1>2 DEF repoVars
<1>8. /\ req' \in [Request -> ReqType(Len(pools'))]
      /\ \A o \in Request : ReqInv(req'[o])
  BY <1>2, <1>4, <1>6, <1>7, OthersKeepType
<1>9. /\ fields' \in [Dataset -> {"raw", "ordered", "torn"}]
      /\ settled' \subseteq Dataset
  <2>1. PICK f \in {"ordered", "torn"} : fields' = [fields EXCEPT ![req[q].fields] = f]
    BY DEF EndSort
  <2>2. settled' = settled \/ settled' = settled \cup {req[q].fields}
    BY DEF EndSort
  <2> QED BY <1>1, <1>3, <2>1, <2>2 DEF RestOK
<1>10. RestOK'
  BY <1>1, <1>2, <1>9 DEF RestOK, repoVars
<1> QED BY <1>8, <1>10, TypeFromParts

LEMMA TypeOfCommit ==
  ASSUME TypeInv, NEW q \in Request, Commit(q) PROVE TypeInv'
<1>1. /\ req[q] \in ReqType(Len(pools)) /\ ReqInv(req[q])
      /\ RestOK /\ Len(pools) \in Nat
  BY PartsFromType
<1>2. req[q].pc = "exec" /\ UNCHANGED <<repoVars, fields, requests, settled, overlap, leftOpen>>
  BY DEF Commit, At
<1>3. /\ req[q].query \in Dataset /\ req[q].fields \in Dataset
      /\ req[q].tx \in 1 .. Len(pools)
  <2>1. req[q].tx \in 0 .. Len(pools) /\ req[q].tx # 0
    BY <1>1, <1>2 DEF ReqInv, ReqType, NoPool
  <2> QED BY <1>1, <1>2, <2>1 DEF ReqInv
<1>4. /\ NoPool \in 0 .. Len(pools') /\ Len(pools') \in Nat /\ Len(pools) =< Len(pools')
      /\ pools' = pools
  BY <1>1, <1>2 DEF NoPool, repoVars
<1> DEFINE next == [req[q] EXCEPT !.query = Unmapped, !.fields = Unmapped, !.tx = NoPool,
                                  !.pc = "next"]
           saved == [next EXCEPT !.unsaved = @ - 1]
           lost == [next EXCEPT !.dropped = TRUE]
           r == req[q]
           batch == [dataset |-> r.dataset, query |-> r.query, fields |-> r.fields,
                     database |-> pools[r.tx].dataset, excused |-> r.together \/ leftOpen]
<1>5. /\ next \in ReqType(Len(pools')) /\ next.pc = "next" /\ next.dropped = req[q].dropped
      /\ next.left = req[q].left /\ next.unsaved = req[q].unsaved
  BY <1>1, <1>4 DEF ReqType
<1>6. \/ landed' = batch /\ req' = [req EXCEPT ![q] = saved]
      \/ UNCHANGED landed /\ req' = [req EXCEPT ![q] = lost]
  BY DEF Commit
<1>7. /\ req[q].left + req[q].unsaved =< MaxBatches /\ req[q].unsaved \in 1 .. MaxBatches
      /\ req[q].left \in Nat
      /\ req[q].unsaved = 1 \/ req[q].dropped
      /\ req[q].dropped \in BOOLEAN
  BY <1>1, <1>2, BoundsAssumption DEF ReqInv, ReqType, Writing
<1> HIDE DEF next
<1>8. saved \in ReqType(Len(pools')) /\ ReqInv(saved)
  <2>1. next.unsaved - 1 \in 0 .. MaxBatches
    BY <1>5, <1>7, BoundsAssumption
  <2>2. saved \in ReqType(Len(pools'))
    BY <1>5, <2>1 DEF ReqType
  <2>3. /\ saved.left = req[q].left /\ saved.unsaved = req[q].unsaved - 1
        /\ saved.dropped = req[q].dropped /\ saved.pc = "next"
    BY <1>5 DEF ReqType
  <2> HIDE DEF saved
  <2> QED BY <1>7, <2>2, <2>3, BoundsAssumption DEF ReqInv, Writing
<1>9. lost \in ReqType(Len(pools')) /\ ReqInv(lost)
  <2>1. lost \in ReqType(Len(pools'))
    BY <1>5 DEF ReqType
  <2>2. /\ lost.left = req[q].left /\ lost.unsaved = req[q].unsaved
        /\ lost.dropped = TRUE /\ lost.pc = "next"
    BY <1>5 DEF ReqType
  <2> HIDE DEF lost
  <2> QED BY <1>7, <2>1, <2>2 DEF ReqInv, Writing
<1>10. batch \in [dataset : Dataset \cup {Unmapped}, query : Dataset, fields : Dataset,
                  database : WithConfig, excused : BOOLEAN]
  <2>1. pools[req[q].tx].dataset \in WithConfig
    <3>1. pools[req[q].tx] \in Pool
      BY <1>1, <1>3, ElementOf DEF RestOK
    <3> QED BY <3>1 DEF Pool
  <2>2. req[q].dataset \in Dataset \cup {Unmapped}
    BY <1>1 DEF ReqType
  <2>3. (r.together \/ leftOpen) \in BOOLEAN
    OBVIOUS
  <2> QED BY <1>3, <2>1, <2>2, <2>3
<1> HIDE DEF saved, lost, batch
<1>11. /\ req' \in [Request -> ReqType(Len(pools'))]
       /\ \A o \in Request : ReqInv(req'[o])
  <2>1. CASE req' = [req EXCEPT ![q] = saved]
    BY <1>4, <1>8, <2>1, OthersKeepType
  <2>2. CASE req' = [req EXCEPT ![q] = lost]
    BY <1>4, <1>9, <2>2, OthersKeepType
  <2> QED BY <1>6, <2>1, <2>2
<1>12. RestOK'
  <2>1. landed' = batch \/ landed' = landed
    BY <1>6
  <2> QED BY <1>1, <1>2, <1>10, <2>1 DEF RestOK, repoVars
<1> QED BY <1>11, <1>12, TypeFromParts

LEMMA TypeOfClosing ==
  ASSUME TypeInv, NEW q \in Request, CloseRepo(q) \/ Forget(q) PROVE TypeInv'
<1>1. /\ req[q] \in ReqType(Len(pools)) /\ ReqInv(req[q])
      /\ RestOK /\ Len(pools) \in Nat
  BY PartsFromType
<1>2. CASE Leave(q)
  BY <1>2, TypeOfLeave
<1>3. ASSUME ~Leave(q), NEW p \in {"forget", "answer"}, Goto(q, p),
             req[q].pc \in {"close", "forget"}, Len(pools') = Len(pools), RestOK'
      PROVE  TypeInv'
  <2> DEFINE r == [req[q] EXCEPT !.pc = p]
  <2>1. req' = [req EXCEPT ![q] = r]
    BY <1>3 DEF Goto
  <2>2. r \in ReqType(Len(pools'))
    BY <1>1, <1>3 DEF ReqType
  <2>3. /\ r.left = req[q].left /\ r.unsaved = req[q].unsaved
        /\ r.dropped = req[q].dropped /\ r.pc = p
    BY <1>1 DEF ReqType
  <2>4. ReqInv(r)
    BY <1>1, <1>3, <2>3 DEF ReqInv, Writing
  <2>5. Len(pools') \in Nat /\ Len(pools) =< Len(pools')
    BY <1>1, <1>3
  <2> HIDE DEF r
  <2>6. /\ req' \in [Request -> ReqType(Len(pools'))]
        /\ \A o \in Request : ReqInv(req'[o])
    BY <2>1, <2>2, <2>4, <2>5, OthersKeepType
  <2> QED BY <1>3, <2>6, TypeFromParts
<1>4. CASE CloseRepo(q) /\ ~Leave(q)
  <2>1. /\ Goto(q, "forget") /\ req[q].pc = "close" /\ repoDb # NoPool
        /\ pools' = [pools EXCEPT ![repoDb].open = FALSE]
        /\ UNCHANGED <<repoDef, repoDb, fields, requests, historyVars>>
    BY <1>4 DEF CloseRepo, At
  <2>2. /\ pools' \in Seq(Pool)
        /\ Len(pools') = Len(pools)
    <3>1. repoDb \in 1 .. Len(pools)
      BY <1>1, <2>1 DEF RestOK, NoPool
    <3>2. pools[repoDb] \in Pool
      BY <1>1, <3>1, ElementOf DEF RestOK
    <3>3. [pools[repoDb] EXCEPT !.open = FALSE] \in Pool
      BY <3>2 DEF Pool
    <3>4. pools' = [pools EXCEPT ![repoDb] = [pools[repoDb] EXCEPT !.open = FALSE]]
      BY <2>1
    <3> QED BY <1>1, <3>1, <3>3, <3>4 DEF RestOK
  <2>3. RestOK'
    BY <1>1, <2>1, <2>2 DEF RestOK, historyVars
  <2> QED BY <1>3, <1>4, <2>1, <2>2, <2>3
<1>5. CASE Forget(q) /\ ~Leave(q)
  <2>1. /\ Goto(q, "answer") /\ req[q].pc = "forget" /\ repoDb' = NoPool
        /\ UNCHANGED <<repoDef, pools, fields, requests, historyVars>>
    BY <1>5 DEF Forget, At, Forgotten
  <2>2. RestOK'
    BY <1>1, <2>1 DEF RestOK, historyVars, NoPool
  <2>3. Len(pools') = Len(pools)
    BY <2>1
  <2> QED BY <1>3, <1>5, <2>1, <2>2, <2>3
<1> QED BY <1>2, <1>4, <1>5

LEMMA TypeStep == TypeInv /\ [Next]_vars => TypeInv'
<1>1. ASSUME TypeInv, UNCHANGED vars PROVE TypeInv'
  BY <1>1 DEF TypeInv, TypeOK, vars, repoVars, historyVars
<1>2. ASSUME TypeInv, NEW q \in Request, RequestStep(q) PROVE TypeInv'
  <2> USE <1>2
  <2>1. CASE \E d \in Dataset \cup {Unmapped}, n \in 0 .. MaxBatches : Post(q, d, n)
    BY <2>1, TypeOfPost
  <2>2. CASE NotAnEntity(q) \/ ConnectPanics(q) \/ ExecFails(q) \/ ExecPanics(q)
    BY <2>2, TypeOfLeave DEF NotAnEntity, ConnectPanics, ExecFails, ExecPanics, Refused
  <2>3. CASE NextBatch(q)
    BY <2>3, TypeOfNextBatch
  <2>4. CASE CheckDefinition(q)
    <3>1. CASE Leave(q)
      BY <3>1, TypeOfLeave
    <3>2. CASE ~Leave(q)
      <4> DEFINE p == IF NeedsPool THEN "connect" ELSE "query"
      <4>1. /\ Goto(q, p) /\ req[q].pc = "definition"
            /\ UNCHANGED <<repoVars, fields, requests, historyVars>>
        BY <2>4, <3>2 DEF CheckDefinition, At
      <4>2. p \in {"connect", "query"} /\ p \in Writing /\ req[q].pc \in Writing
        BY <4>1 DEF Writing
      <4> HIDE DEF p
      <4> QED BY <4>1, <4>2, TypeOfGoto
    <3> QED BY <3>1, <3>2
  <2>5. CASE Connect(q)
    BY <2>5, TypeOfConnect
  <2>6. CASE StoreDb(q) \/ ReadQuery(q) \/ ReadFields(q) \/ Begin(q)
    BY <2>6, TypeOfCalls
  <2>7. CASE Sort(q)
    <3> DEFINE p == IF Moves(req[q].fields) THEN "sorting" ELSE "begin"
    <3>1. /\ Goto(q, p) /\ req[q].pc = "sort"
          /\ UNCHANGED <<repoVars, fields, requests, historyVars>>
      BY <2>7 DEF Sort, At
    <3>2. p \in {"sorting", "begin"} /\ p \in Writing /\ req[q].pc \in Writing
      BY <3>1 DEF Writing
    <3> HIDE DEF p
    <3> QED BY <3>1, <3>2, TypeOfGoto
  <2>8. CASE EndSort(q)
    BY <2>8, TypeOfEndSort
  <2>9. CASE Commit(q)
    BY <2>9, TypeOfCommit
  <2>10. CASE Finish(q)
    <3> DEFINE p == IF repoDb = NoPool THEN "answer" ELSE "close"
    <3>1. /\ Goto(q, p) /\ req[q].pc = "next"
          /\ UNCHANGED <<repoVars, fields, requests, historyVars>>
      BY <2>10 DEF Finish, At
    <3>2. p \in {"answer", "close"} /\ p \notin Writing /\ req[q].pc \notin Writing
      BY <3>1 DEF Writing
    <3> HIDE DEF p
    <3> QED BY <3>1, <3>2, TypeOfGoto
  <2>11. CASE CloseRepo(q) \/ Forget(q)
    BY <2>11, TypeOfClosing
  <2>12. CASE Answer(q)
    <3>1. Idle \in ReqType(Len(pools)) /\ ReqInv(Idle)
      <4>1. Len(pools) \in Nat
        BY PartsFromType
      <4> QED BY <4>1, BoundsAssumption DEF Idle, ReqType, ReqInv, Writing, NoPool
    <3>2. /\ req' = [req EXCEPT ![q] = Idle]
          /\ UNCHANGED <<repoVars, fields, requests, historyVars>>
      BY <2>12 DEF Answer
    <3> QED BY <3>1, <3>2, TypeOfLocal
  <2>13. CASE ConnectFails(q)
    BY <2>13, FailedPing, TypeOfAbandon DEF ConnectFails
  <2> QED BY <2>1, <2>2, <2>3, <2>4, <2>5, <2>6, <2>7, <2>8, <2>9, <2>10, <2>11, <2>12,
             <2>13 DEF RequestStep
<1> QED BY <1>1, <1>2 DEF Next

(* The variables keep to their types: in particular what a batch is written *)
(* with is a query, fields and a pool that there are, although another      *)
(* request may replace the definition or close the pool at any time.        *)
THEOREM TypeCorrect == Spec => []TypeOK
<1>1. TypeInv => TypeOK
  BY DEF TypeInv
<1> QED BY <1>1, TypeOfInit, TypeStep, PTL DEF Spec

(* A request that is going to be answered with 200 has committed every      *)
(* batch it has handed over, unless the error of a Commit was dropped.      *)
THEOREM OkMeansCommittedAlways == Spec => []OkMeansCommitted
<1>1. TypeInv => OkMeansCommitted
  <2> SUFFICES ASSUME TypeInv, NEW q \in Request,
                      At(q, "close") \/ At(q, "forget") \/ At(q, "answer")
               PROVE  req[q].unsaved = 0 \/ req[q].dropped
    BY DEF OkMeansCommitted
  <2>1. ReqInv(req[q])
    BY DEF TypeInv
  <2> QED BY <2>1 DEF ReqInv, Writing, At
<1> QED BY <1>1, TypeOfInit, TypeStep, PTL DEF Spec

-----------------------------------------------------------------------------

(* Why fields stay in order once they are: nobody sorts them any more,      *)
(* whatever requests are at.                                                *)
SettledInv ==
  \A d \in settled : fields[d] = "ordered" /\ \A q \in Request : ~Sorts(q, d)

(* A step that makes nobody sort keeps that. *)
LEMMA NobodySorts ==
  ASSUME SettledInv, UNCHANGED <<fields, settled>>,
         \A o \in Request : req'[o] = req[o] \/ req'[o].pc # "sorting"
  PROVE  SettledInv'
<1>1. ASSUME NEW o \in Request, NEW d, Sorts(o, d)' PROVE Sorts(o, d)
  BY <1>1 DEF Sorts, At
<1> QED BY <1>1 DEF SettledInv

LEMMA SettledOfSort ==
  ASSUME TypeInv, SettledInv, NEW q \in Request, Sort(q) PROVE SettledInv'
<1>1. req \in [Request -> ReqType(Len(pools))]
  BY PartsFromType
<1> DEFINE d1 == req[q].fields
           p == IF Moves(d1) THEN "sorting" ELSE "begin"
<1>2. /\ req' = [req EXCEPT ![q] = [req[q] EXCEPT !.pc = p]]
      /\ UNCHANGED <<fields, settled>>
  BY DEF Sort, Goto, historyVars
<1>3. \A o \in Request : req'[o] = IF o = q THEN [req[q] EXCEPT !.pc = p] ELSE req[o]
  BY <1>1, <1>2
<1>4. req'[q].pc = p /\ req'[q].fields = d1
  BY <1>1, <1>3 DEF ReqType
<1>5. ASSUME NEW d \in settled, NEW o \in Request, Sorts(o, d)' PROVE FALSE
  <2>1. CASE o = q
    <3>1. p = "sorting" /\ d = d1
      BY <1>4, <1>5, <2>1 DEF Sorts, At
    <3>2. fields[d] # "ordered"
      BY <3>1 DEF Moves
    <3> QED BY <3>2 DEF SettledInv
  <2>2. CASE o # q
    <3>1. Sorts(o, d)
      BY <1>3, <1>5, <2>2 DEF Sorts, At
    <3> QED BY <3>1 DEF SettledInv
  <2> QED BY <2>1, <2>2
<1> QED BY <1>2, <1>5 DEF SettledInv

LEMMA SettledOfEndSort ==
  ASSUME TypeInv, SettledInv, NEW q \in Request, EndSort(q) PROVE SettledInv'
<1>1. req \in [Request -> ReqType(Len(pools))] /\ RestOK
  BY PartsFromType
<1> DEFINE d1 == req[q].fields
           alone == \A o \in Request \ {q} : ~Sorts(o, d1)
<1>2. /\ Sorts(q, d1)
      /\ req' = [req EXCEPT ![q] = [req[q] EXCEPT !.pc = "begin"]]
      /\ settled' = IF fields'[d1] = "ordered" /\ alone THEN settled \cup {d1} ELSE settled
  BY DEF EndSort, Goto
<1>3. \A d : d # d1 /\ d \in Dataset => fields'[d] = fields[d]
  <2>1. PICK f : fields' = [fields EXCEPT ![d1] = f]
    BY DEF EndSort
  <2> QED BY <1>1, <2>1 DEF RestOK
<1>4. ASSUME NEW o \in Request, NEW d, Sorts(o, d)' PROVE o # q /\ Sorts(o, d)
  <2>1. \A r \in Request : req'[r] = IF r = q THEN [req[q] EXCEPT !.pc = "begin"] ELSE req[r]
    BY <1>1, <1>2
  <2>2. req'[q].pc = "begin"
    BY <1>1, <2>1 DEF ReqType
  <2> QED BY <1>4, <2>1, <2>2 DEF Sorts, At
<1>5. d1 \notin settled
  BY <1>2 DEF SettledInv
<1> HIDE DEF d1
<1>6. ASSUME NEW d \in settled'
      PROVE  fields'[d] = "ordered" /\ \A o \in Request : ~Sorts(o, d)'
  <2>1. CASE d = d1
    <3>1. fields'[d1] = "ordered" /\ alone
      BY <1>2, <1>5, <1>6, <2>1
    <3> QED BY <1>4, <2>1, <3>1
  <2>2. CASE d # d1
    <3>1. d \in settled /\ d \in Dataset
      BY <1>1, <1>2, <1>6, <2>2 DEF RestOK
    <3> QED BY <1>3, <1>4, <2>2, <3>1 DEF SettledInv
  <2> QED BY <2>1, <2>2
<1> QED BY <1>6 DEF SettledInv

LEMMA SettledOfCommit ==
  ASSUME TypeInv, SettledInv, NEW q \in Request, Commit(q) PROVE SettledInv'
<1>1. req \in [Request -> ReqType(Len(pools))]
  BY PartsFromType
<1>2. \A o \in Request : req'[o] = req[o] \/ req'[o].pc # "sorting"
  <2> DEFINE next == [req[q] EXCEPT !.query = Unmapped, !.fields = Unmapped, !.tx = NoPool,
                                    !.pc = "next"]
  <2>1. \/ req' = [req EXCEPT ![q] = [next EXCEPT !.unsaved = @ - 1]]
        \/ req' = [req EXCEPT ![q] = [next EXCEPT !.dropped = TRUE]]
    BY DEF Commit
  <2>2. /\ [next EXCEPT !.unsaved = @ - 1].pc = "next"
        /\ [next EXCEPT !.dropped = TRUE].pc = "next"
    BY <1>1 DEF ReqType
  <2> HIDE DEF next
  <2> QED BY <1>1, <2>1, <2>2
<1>3. UNCHANGED <<fields, settled>>
  BY DEF Commit
<1> QED BY <1>2, <1>3, NobodySorts

LEMMA SettledStep == TypeInv /\ SettledInv /\ [Next]_vars => SettledInv'
<1>1. ASSUME SettledInv, UNCHANGED vars PROVE SettledInv'
  BY <1>1, NobodySorts DEF vars, repoVars, historyVars
<1>2. ASSUME TypeInv, SettledInv, NEW q \in Request, RequestStep(q) PROVE SettledInv'
  <2> USE <1>2
  <2>1. req \in [Request -> ReqType(Len(pools))]
    BY PartsFromType
  <2>2. ASSUME NEW p, p # "sorting", Goto(q, p)
        PROVE  \A o \in Request : req'[o] = req[o] \/ req'[o].pc # "sorting"
    BY <2>1, <2>2 DEF Goto, ReqType
  <2>3. CASE Sort(q)
    BY <2>3, SettledOfSort
  <2>4. CASE EndSort(q)
    BY <2>4, SettledOfEndSort
  <2>5. CASE Commit(q)
    BY <2>5, SettledOfCommit
  <2>6. CASE ~Sort(q) /\ ~EndSort(q) /\ ~Commit(q)
    <3>1. UNCHANGED <<fields, settled>>
      BY <2>6 DEF RequestStep, Post, NotAnEntity, NextBatch, CheckDefinition, Connect,
         ConnectPanics, ConnectFails, StoreDb, ReadQuery, ReadFields, Begin, ExecFails,
         ExecPanics, Refused, Finish, CloseRepo, Forget, Answer, Leave, Abandon, historyVars
    <3>2. ASSUME Abandon(q) \/ Answer(q)
          PROVE  \A o \in Request : req'[o] = req[o] \/ req'[o].pc # "sorting"
      BY <2>1, <3>2 DEF Abandon, Answer, Idle
    <3>3. CASE \E d \in Dataset \cup {Unmapped}, n \in 0 .. MaxBatches : Post(q, d, n)
      <4>1. PICK d \in Dataset \cup {Unmapped}, n \in 0 .. MaxBatches : Post(q, d, n)
        BY <3>3
      <4> DEFINE others == {o \in Request \ {q} : Running(o)}
      <4>2. ASSUME NEW o \in Request
            PROVE  req'[o].pc = (IF o = q THEN "next" ELSE req[o].pc)
                   /\ (o # q => req'[o].fields = req[o].fields)
        <5>1. req'[o] = IF o = q THEN [Idle EXCEPT !.pc = "next", !.dataset = d, !.left = n,
                                                   !.together = others # {}]
                        ELSE IF o \in others THEN [req[o] EXCEPT !.together = TRUE]
                        ELSE req[o]
          BY <4>1 DEF Post
        <5> QED BY <2>1, <5>1 DEF Idle, ReqType
      <4>3. \A o \in Request, x \in Dataset : Sorts(o, x)' => Sorts(o, x)
        BY <4>2 DEF Sorts, At
      <4>4. settled \subseteq Dataset
        BY PartsFromType DEF RestOK
      <4> QED BY <3>1, <4>3, <4>4 DEF SettledInv
    <3>4. CASE Abandon(q) \/ Answer(q)
      BY <3>1, <3>2, <3>4, NobodySorts
    <3>5. CASE ~Abandon(q) /\ \/ CheckDefinition(q) \/ Finish(q) \/ CloseRepo(q) \/ Forget(q)
      <4>1. PICK p \in {"connect", "query", "answer", "close", "forget"} : Goto(q, p)
        BY <3>5 DEF CheckDefinition, Finish, CloseRepo, Forget, Leave
      <4>2. \A o \in Request : req'[o] = req[o] \/ req'[o].pc # "sorting"
        <5>1. p # "sorting"
          BY <4>1
        <5> QED BY <2>2, <4>1, <5>1
      <4> QED BY <3>1, <4>2, NobodySorts
    <3>6. CASE ~Abandon(q) /\ \/ NextBatch(q) \/ Connect(q) \/ StoreDb(q) \/ ReadQuery(q)
                              \/ ReadFields(q) \/ Begin(q)
      <4>1. \A o \in Request : req'[o] = req[o] \/ req'[o].pc # "sorting"
        <5>1. CASE NextBatch(q)
          BY <2>1, <5>1 DEF NextBatch, ReqType
        <5>2. CASE Connect(q)
          BY <2>1, <5>2 DEF Connect, ReqType
        <5>3. CASE StoreDb(q)
          BY <2>1, <5>3 DEF StoreDb, ReqType
        <5>4. CASE ReadQuery(q)
          BY <2>1, <3>6, <5>4 DEF ReadQuery, Leave, ReqType
        <5>5. CASE ReadFields(q)
          BY <2>1, <3>6, <5>5 DEF ReadFields, Leave, ReqType
        <5>6. CASE Begin(q)
          BY <2>1, <3>6, <5>6 DEF Begin, Leave, ReqType
        <5> QED BY <3>6, <5>1, <5>2, <5>3, <5>4, <5>5, <5>6
      <4> QED BY <3>1, <4>1, NobodySorts
    <3> QED BY <2>6, <3>3, <3>4, <3>5, <3>6
            DEF RequestStep, NotAnEntity, ConnectPanics, ConnectFails, ExecFails,
                ExecPanics, Refused, Leave
  <2> QED BY <2>3, <2>4, <2>5, <2>6
<1> QED BY <1>1, <1>2 DEF Next

(* Once the fields of a dataset have been in order with nobody sorting      *)
(* them, every statement executed with them takes them in order, whoever    *)
(* else posts at the same time: a batch that straddles the moment they      *)
(* settle too, from that moment on.                                         *)
THEOREM InOrderOnceSettledAlways == Spec => []InOrderOnceSettled
<1>1. ASSUME Init PROVE SettledInv
  <2>1. Idle.pc = "idle" /\ \A q \in Request : req[q] = Idle
    BY <1>1 DEF Init, Idle
  <2>2. \A q \in Request, d \in Dataset : ~Sorts(q, d)
    BY <2>1 DEF Sorts, At
  <2>3. \A d \in settled : d \in Dataset /\ fields[d] = "ordered"
    BY <1>1 DEF Init
  <2> QED BY <2>2, <2>3 DEF SettledInv
<1>2. SettledInv => InOrderOnceSettled
  BY DEF SettledInv, InOrderOnceSettled
<1> QED BY <1>1, <1>2, TypeOfInit, TypeStep, SettledStep, PTL DEF Spec

-----------------------------------------------------------------------------
(***************************************************************************)
(* The pool and the definition of a request that nobody disturbs.          *)
(***************************************************************************)

(* A request goes from one place to another; its dataset stays. *)
Hop(q, p, p2) ==
  /\ req[q].pc = p /\ req'[q].pc = p2
  /\ req'[q].dataset = req[q].dataset /\ req'[q].together = req[q].together
  /\ \A o \in Request \ {q} : req'[o] = req[o]
  /\ UNCHANGED <<overlap, leftOpen>>

(* It is over: answered, or left somewhere. *)
Ends(q) ==
  /\ req[q].pc \notin {"idle", "store", "forget"} /\ req'[q].pc = "idle"
  /\ \A o \in Request \ {q} : req'[o] = req[o]
  /\ UNCHANGED <<repoDef, repoDb, landed, overlap>> /\ LeavesPools
  /\ \/ leftOpen' = (leftOpen \/ repoDb # NoPool)
     \/ req[q].pc = "answer" /\ UNCHANGED leftOpen

(* What it has read stays. *)
SameBatch(q) ==
  /\ req'[q].query = req[q].query /\ req'[q].fields = req[q].fields

Posts(q) == \E d \in Dataset \cup {Unmapped}, n \in 0 .. MaxBatches : Post(q, d, n)

(* What a request that does not begin and does not end does to itself and   *)
(* to the repository, by where it is.                                       *)
Hops(q) ==
  \/ Hop(q, "next", "definition") /\ repoDef' = req[q].dataset
     /\ UNCHANGED <<repoDb, pools, landed>>
  \/ Hop(q, "definition", "connect") /\ repoDb = NoPool /\ UNCHANGED <<repoVars, landed>>
  \/ Hop(q, "definition", "query") /\ UNCHANGED <<repoVars, landed>>
  \/ /\ Hop(q, "connect", "store") /\ repoDef \in WithConfig
     /\ pools' = PoolsWith(TRUE)
     /\ req'[q].opened = Len(pools') /\ UNCHANGED <<repoDef, repoDb, landed>>
  \/ Hop(q, "store", "query") /\ repoDb' = req[q].opened
     /\ UNCHANGED <<repoDef, pools, landed>>
  \/ Hop(q, "query", "fields") /\ req'[q].query = repoDef /\ UNCHANGED <<repoVars, landed>>
  \/ Hop(q, "fields", "sort") /\ req'[q].query = req[q].query /\ req'[q].fields = repoDef
     /\ UNCHANGED <<repoVars, landed>>
  \/ \E p \in {"sort", "sorting"}, p2 \in {"sorting", "begin"} :
       Hop(q, p, p2) /\ SameBatch(q) /\ UNCHANGED <<repoVars, landed>>
  \/ Hop(q, "begin", "exec") /\ SameBatch(q) /\ IsOpen(repoDb) /\ req'[q].tx = repoDb
     /\ UNCHANGED <<repoVars, landed>>
  \/ /\ Hop(q, "exec", "next") /\ UNCHANGED repoVars
     /\ \/ UNCHANGED landed
        \/ /\ landed'.dataset = req[q].dataset /\ landed'.query = req[q].query
           /\ landed'.fields = req[q].fields
           /\ landed'.database = pools[req[q].tx].dataset
           /\ landed'.excused = (req[q].together \/ leftOpen)
  \/ Hop(q, "next", "answer") /\ repoDb = NoPool /\ UNCHANGED <<repoVars, landed>>
  \/ Hop(q, "next", "close") /\ repoDb # NoPool /\ UNCHANGED <<repoVars, landed>>
  \/ Hop(q, "close", "forget") /\ repoDb # NoPool
     /\ pools' = [pools EXCEPT ![repoDb].open = FALSE]
     /\ UNCHANGED <<repoDef, repoDb, landed>>
  \/ Hop(q, "forget", "answer") /\ repoDb' = NoPool /\ UNCHANGED <<repoDef, pools, landed>>

LEMMA GotoHops ==
  ASSUME TypeInv, NEW q \in Request, NEW p, Goto(q, p), UNCHANGED <<overlap, leftOpen>>
  PROVE  Hop(q, req[q].pc, p) /\ SameBatch(q)
<1>1. req \in [Request -> ReqType(Len(pools))] /\ req[q] \in ReqType(Len(pools))
  BY PartsFromType
<1>2. req' = [req EXCEPT ![q] = [req[q] EXCEPT !.pc = p]]
  BY DEF Goto
<1>3. \A o \in Request : req'[o] = IF o = q THEN [req[q] EXCEPT !.pc = p] ELSE req[o]
  BY <1>1, <1>2
<1>4. req'[q] = [req[q] EXCEPT !.pc = p]
  BY <1>3
<1>5. /\ req'[q].pc = p /\ req'[q].dataset = req[q].dataset
      /\ req'[q].together = req[q].together
      /\ req'[q].query = req[q].query /\ req'[q].fields = req[q].fields
  BY <1>1, <1>4 DEF ReqType
<1> QED BY <1>3, <1>5 DEF Hop, SameBatch

LEMMA AbandonEnds ==
  ASSUME TypeInv, NEW q \in Request, Abandon(q), LeavesPools,
         req[q].pc \notin {"idle", "store", "forget"}
  PROVE  Ends(q)
<1>1. req \in [Request -> ReqType(Len(pools))]
  BY PartsFromType
<1>2. req' = [req EXCEPT ![q] = Idle] /\ Idle.pc = "idle"
  BY DEF Abandon, Idle
<1>3. req'[q].pc = "idle" /\ \A o \in Request \ {q} : req'[o] = req[o]
  BY <1>1, <1>2
<1>4. /\ UNCHANGED <<repoDef, repoDb, landed, overlap>>
      /\ leftOpen' = (leftOpen \/ repoDb # NoPool)
  BY DEF Abandon
<1> QED BY <1>3, <1>4 DEF Ends

LEMMA LeaveEnds ==
  ASSUME TypeInv, NEW q \in Request, Leave(q), req[q].pc \notin {"idle", "store", "forget"}
  PROVE  Ends(q)
BY UnchangedPools, AbandonEnds DEF Leave

(* Every step of a request begins it, ends it or is one of those.           *)
LEMMA StepKinds ==
  ASSUME TypeInv, NEW q \in Request, RequestStep(q)
  PROVE  Posts(q) \/ Ends(q) \/ Hops(q)
<1>1. req \in [Request -> ReqType(Len(pools))] /\ req[q] \in ReqType(Len(pools))
  BY PartsFromType
<1>2. CASE Posts(q)
  BY <1>2
<1>3. CASE NotAnEntity(q) \/ ConnectPanics(q) \/ ExecFails(q) \/ ExecPanics(q)
  <2>1. Leave(q) /\ req[q].pc \in {"next", "connect", "exec"}
    BY <1>3 DEF NotAnEntity, ConnectPanics, ExecFails, ExecPanics, Refused, At
  <2> QED BY <2>1, LeaveEnds
<1>17. CASE ConnectFails(q)
  <2>1. Abandon(q) /\ req[q].pc = "connect"
    BY <1>17 DEF ConnectFails, At
  <2>2. LeavesPools
    BY <1>17, FailedPing DEF ConnectFails
  <2> QED BY <2>1, <2>2, AbandonEnds
<1>4. CASE NextBatch(q)
  <2> DEFINE r == [req[q] EXCEPT !.left = @ - 1, !.unsaved = @ + 1, !.pc = "definition"]
  <2>1. req' = [req EXCEPT ![q] = r] /\ req[q].pc = "next"
    BY <1>4 DEF NextBatch, At
  <2>2. r.pc = "definition" /\ r.dataset = req[q].dataset /\ r.together = req[q].together
    BY <1>1 DEF ReqType
  <2> HIDE DEF r
  <2>3. req'[q] = r /\ \A o \in Request \ {q} : req'[o] = req[o]
    BY <1>1, <2>1
  <2>4. Hop(q, "next", "definition")
    BY <1>4, <2>1, <2>2, <2>3 DEF NextBatch, Hop, historyVars
  <2> QED BY <1>4, <2>4 DEF NextBatch, Hops, historyVars
<1>5. CASE CheckDefinition(q)
  <2>1. CASE Leave(q)
    BY <1>5, <2>1, LeaveEnds DEF CheckDefinition, At
  <2>2. CASE ~Leave(q)
    <3>1. /\ Goto(q, IF NeedsPool THEN "connect" ELSE "query") /\ req[q].pc = "definition"
          /\ UNCHANGED <<repoVars, historyVars>>
      BY <1>5, <2>2 DEF CheckDefinition, At
    <3>2. CASE NeedsPool
      <4>1. Goto(q, "connect") /\ repoDb = NoPool
        BY <3>1, <3>2 DEF NeedsPool
      <4> QED BY <3>1, <4>1, GotoHops DEF Hops, historyVars
    <3>3. CASE ~NeedsPool
      BY <3>1, <3>3, GotoHops DEF Hops, historyVars
    <3> QED BY <3>2, <3>3
  <2> QED BY <2>1, <2>2
<1>6. CASE Connect(q)
  <2> DEFINE r == [req[q] EXCEPT !.opened = Len(pools'), !.pc = "store"]
  <2>1. req' = [req EXCEPT ![q] = r] /\ req[q].pc = "connect"
    BY <1>6 DEF Connect, At
  <2>2. /\ r.pc = "store" /\ r.dataset = req[q].dataset /\ r.together = req[q].together
        /\ r.opened = Len(pools')
    BY <1>1 DEF ReqType
  <2> HIDE DEF r
  <2>3. req'[q] = r /\ \A o \in Request \ {q} : req'[o] = req[o]
    BY <1>1, <2>1
  <2>4. Hop(q, "connect", "store") /\ req'[q].opened = Len(pools')
    BY <1>6, <2>1, <2>2, <2>3 DEF Connect, Hop, historyVars
  <2> QED BY <1>6, <2>4 DEF Connect, Hops, historyVars
<1>7. CASE StoreDb(q)
  <2> DEFINE r == [req[q] EXCEPT !.opened = NoPool, !.pc = "query"]
  <2>1. req' = [req EXCEPT ![q] = r] /\ req[q].pc = "store"
    BY <1>7 DEF StoreDb, At
  <2>2. r.pc = "query" /\ r.dataset = req[q].dataset /\ r.together = req[q].together
    BY <1>1 DEF ReqType
  <2> HIDE DEF r
  <2>3. req'[q] = r /\ \A o \in Request \ {q} : req'[o] = req[o]
    BY <1>1, <2>1
  <2>4. Hop(q, "store", "query")
    BY <1>7, <2>1, <2>2, <2>3 DEF StoreDb, Hop, historyVars
  <2> QED BY <1>7, <2>4 DEF StoreDb, Hops, historyVars
<1>8. CASE ReadQuery(q)
  <2>1. CASE Leave(q)
    BY <1>8, <2>1, LeaveEnds DEF ReadQuery, At
  <2>2. CASE ~Leave(q)
    <3> DEFINE r == [req[q] EXCEPT !.query = repoDef, !.pc = "fields"]
    <3>1. /\ req' = [req EXCEPT ![q] = r] /\ req[q].pc = "query"
          /\ UNCHANGED <<repoVars, historyVars>>
      BY <1>8, <2>2 DEF ReadQuery, At
    <3>2. /\ r.pc = "fields" /\ r.dataset = req[q].dataset /\ r.together = req[q].together
          /\ r.query = repoDef
      BY <1>1 DEF ReqType
    <3> HIDE DEF r
    <3>3. req'[q] = r /\ \A o \in Request \ {q} : req'[o] = req[o]
      BY <1>1, <3>1
    <3>4. Hop(q, "query", "fields") /\ req'[q].query = repoDef
      BY <3>1, <3>2, <3>3 DEF Hop, historyVars
    <3> QED BY <3>1, <3>4 DEF Hops, historyVars
  <2> QED BY <2>1, <2>2
<1>9. CASE ReadFields(q)
  <2>1. CASE Leave(q)
    BY <1>9, <2>1, LeaveEnds DEF ReadFields, At
  <2>2. CASE ~Leave(q)
    <3> DEFINE r == [req[q] EXCEPT !.fields = repoDef, !.pc = "sort"]
    <3>1. /\ req' = [req EXCEPT ![q] = r] /\ req[q].pc = "fields"
          /\ UNCHANGED <<repoVars, historyVars>>
      BY <1>9, <2>2 DEF ReadFields, At
    <3>2. /\ r.pc = "sort" /\ r.dataset = req[q].dataset /\ r.together = req[q].together
          /\ r.query = req[q].query /\ r.fields = repoDef
      BY <1>1 DEF ReqType
    <3> HIDE DEF r
    <3>3. req'[q] = r /\ \A o \in Request \ {q} : req'[o] = req[o]
      BY <1>1, <3>1
    <3>4. Hop(q, "fields", "sort")
      BY <3>1, <3>2, <3>3 DEF Hop, historyVars
    <3> QED BY <3>1, <3>2, <3>3, <3>4 DEF Hops, historyVars
  <2> QED BY <2>1, <2>2
<1>10. CASE Sort(q) \/ EndSort(q)
  <2>1. PICK p2 \in {"sorting", "begin"} : Goto(q, p2)
    BY <1>10 DEF Sort, EndSort
  <2>2. /\ req[q].pc \in {"sort", "sorting"}
        /\ UNCHANGED <<repoVars, landed, overlap, leftOpen>>
    BY <1>10 DEF Sort, EndSort, Sorts, At, historyVars
  <2>3. Hop(q, req[q].pc, p2) /\ SameBatch(q)
    BY <2>1, <2>2, GotoHops
  <2> QED BY <2>1, <2>2, <2>3 DEF Hops
<1>11. CASE Begin(q)
  <2>1. CASE Leave(q)
    BY <1>11, <2>1, LeaveEnds DEF Begin, At
  <2>2. CASE ~Leave(q)
    <3> DEFINE r == [req[q] EXCEPT !.tx = repoDb, !.pc = "exec"]
    <3>1. /\ req' = [req EXCEPT ![q] = r] /\ req[q].pc = "begin" /\ IsOpen(repoDb)
          /\ UNCHANGED <<repoVars, historyVars>>
      BY <1>11, <2>2 DEF Begin, At
    <3>2. /\ r.pc = "exec" /\ r.dataset = req[q].dataset /\ r.together = req[q].together
          /\ r.query = req[q].query /\ r.fields = req[q].fields /\ r.tx = repoDb
      BY <1>1 DEF ReqType
    <3> HIDE DEF r
    <3>3. req'[q] = r /\ \A o \in Request \ {q} : req'[o] = req[o]
      BY <1>1, <3>1
    <3>4. Hop(q, "begin", "exec") /\ SameBatch(q) /\ req'[q].tx = repoDb
      BY <3>1, <3>2, <3>3 DEF Hop, SameBatch, historyVars
    <3> QED BY <3>1, <3>4 DEF Hops, historyVars
  <2> QED BY <2>1, <2>2
<1>12. CASE Commit(q)
  <2> DEFINE next == [req[q] EXCEPT !.query = Unmapped, !.fields = Unmapped, !.tx = NoPool,
                                    !.pc = "next"]
             saved == [next EXCEPT !.unsaved = @ - 1]
             lost == [next EXCEPT !.dropped = TRUE]
  <2>1. /\ req[q].pc = "exec"
        /\ req' = [req EXCEPT ![q] = saved] \/ req' = [req EXCEPT ![q] = lost]
        /\ UNCHANGED <<repoVars, overlap, leftOpen>>
    BY <1>12 DEF Commit, At
  <2>2. /\ next.pc = "next" /\ next.dataset = req[q].dataset
        /\ next.together = req[q].together
        /\ saved.pc = next.pc /\ saved.dataset = next.dataset
        /\ saved.together = next.together
        /\ lost.pc = next.pc /\ lost.dataset = next.dataset /\ lost.together = next.together
    BY <1>1 DEF ReqType
  <2> HIDE DEF saved, lost
  <2>3. req'[q] \in {saved, lost} /\ \A o \in Request \ {q} : req'[o] = req[o]
    BY <1>1, <2>1
  <2>4. Hop(q, "exec", "next")
    BY <2>1, <2>2, <2>3 DEF Hop
  <2>5. \/ UNCHANGED landed
        \/ /\ landed'.dataset = req[q].dataset /\ landed'.query = req[q].query
           /\ landed'.fields = req[q].fields
           /\ landed'.database = pools[req[q].tx].dataset
           /\ landed'.excused = (req[q].together \/ leftOpen)
    BY <1>12 DEF Commit
  <2> QED BY <2>1, <2>4, <2>5 DEF Hops
<1>13. CASE Finish(q)
  <2>1. /\ Goto(q, IF repoDb = NoPool THEN "answer" ELSE "close") /\ req[q].pc = "next"
        /\ UNCHANGED <<repoVars, historyVars>>
    BY <1>13 DEF Finish, At
  <2>2. CASE repoDb = NoPool
    BY <2>1, <2>2, GotoHops DEF Hops, historyVars
  <2>3. CASE repoDb # NoPool
    BY <2>1, <2>3, GotoHops DEF Hops, historyVars
  <2> QED BY <2>2, <2>3
<1>14. CASE CloseRepo(q)
  <2>1. CASE Leave(q)
    BY <1>14, <2>1, LeaveEnds DEF CloseRepo, At
  <2>2. CASE ~Leave(q)
    <3>1. /\ req[q].pc = "close" /\ repoDb # NoPool /\ Goto(q, "forget")
          /\ pools' = [pools EXCEPT ![repoDb].open = FALSE]
          /\ UNCHANGED <<repoDef, repoDb, historyVars>>
      BY <1>14, <2>2 DEF CloseRepo, At
    <3> QED BY <3>1, GotoHops DEF Hops, historyVars
  <2> QED BY <2>1, <2>2
<1>15. CASE Forget(q)
  <2>1. /\ req[q].pc = "forget" /\ repoDb' = NoPool /\ Goto(q, "answer")
        /\ UNCHANGED <<repoDef, pools, historyVars>>
    BY <1>15 DEF Forget, Forgotten, At
  <2> QED BY <2>1, GotoHops DEF Hops, historyVars
<1>16. CASE Answer(q)
  <2>1. /\ req[q].pc = "answer" /\ req' = [req EXCEPT ![q] = Idle] /\ Idle.pc = "idle"
        /\ UNCHANGED <<repoVars, historyVars>>
    BY <1>16 DEF Answer, At, Idle
  <2>2. req'[q].pc = "idle" /\ \A o \in Request \ {q} : req'[o] = req[o]
    BY <1>1, <2>1
  <2>3. LeavesPools
    BY <2>1, UnchangedPools DEF repoVars
  <2> QED BY <2>1, <2>2, <2>3 DEF Ends, historyVars, repoVars
<1> QED BY <1>2, <1>3, <1>4, <1>5, <1>6, <1>7, <1>8, <1>9, <1>10, <1>11, <1>12, <1>13,
           <1>14, <1>15, <1>16, <1>17 DEF RequestStep, Posts

(* A request begins: whoever runs is no longer alone, nor is it. *)
LEMMA PostShape ==
  ASSUME TypeInv, NEW q \in Request, Posts(q)
  PROVE  /\ req[q].pc = "idle" /\ req'[q].pc = "next"
         /\ UNCHANGED <<repoVars, landed, leftOpen>>
         /\ \A o \in Request \ {q} :
              /\ ~Running(o) => req'[o] = req[o]
              /\ Running(o) => /\ req'[o].pc = req[o].pc /\ req'[o].together
                               /\ req'[q].together /\ overlap'
         /\ overlap => overlap'
<1>1. PICK d \in Dataset \cup {Unmapped}, n \in 0 .. MaxBatches : Post(q, d, n)
  BY DEF Posts
<1> DEFINE others == {o \in Request \ {q} : Running(o)}
           own == [Idle EXCEPT !.pc = "next", !.dataset = d, !.left = n,
                               !.together = others # {}]
<1>2. /\ req[q].pc = "idle" /\ UNCHANGED <<repoVars, landed, leftOpen>>
      /\ overlap' = (overlap \/ others # {})
      /\ req' = [r \in Request |->
           IF r = q THEN own
           ELSE IF r \in others THEN [req[r] EXCEPT !.together = TRUE] ELSE req[r]]
  BY <1>1 DEF Post, At
<1>3. own.pc = "next" /\ own.together = (others # {})
  BY DEF Idle
<1>4. ASSUME NEW o \in Request
      PROVE  LET r == [req[o] EXCEPT !.together = TRUE] IN r.pc = req[o].pc /\ r.together
  <2>1. req[o] \in ReqType(Len(pools))
    BY PartsFromType
  <2> QED BY <2>1 DEF ReqType
<1> HIDE DEF own
<1>5. req'[q] = own
  BY <1>2
<1>6. ASSUME NEW o \in Request \ {q}, ~Running(o) PROVE req'[o] = req[o]
  BY <1>2, <1>6
<1>7. ASSUME NEW o \in Request \ {q}, Running(o)
      PROVE  req'[o].pc = req[o].pc /\ req'[o].together /\ others # {}
  <2>1. o \in others
    BY <1>7
  <2>2. req'[o] = [req[o] EXCEPT !.together = TRUE]
    BY <1>2, <2>1
  <2> QED BY <1>4, <2>1, <2>2
<1> QED BY <1>2, <1>3, <1>5, <1>6, <1>7

(* A pool that is closed. *)
LEMMA ClosedPool ==
  ASSUME NEW s \in Seq(Pool), NEW k \in 1 .. Len(s)
  PROVE  LET t == [s EXCEPT ![k].open = FALSE]
         IN /\ Len(t) = Len(s) /\ ~t[k].open
            /\ \A p \in 1 .. Len(s) : /\ t[p].dataset = s[p].dataset
                                      /\ t[p].pinged = s[p].pinged
                                      /\ p # k => t[p] = s[p]
<1> DEFINE t == [s EXCEPT ![k].open = FALSE]
<1>1. Len(t) = Len(s) /\ \A p \in 1 .. Len(s) :
        t[p] = IF p = k THEN [s[k] EXCEPT !.open = FALSE] ELSE s[p]
  OBVIOUS
<1>2. s[k] \in Pool
  BY ElementOf
<1>3. /\ [s[k] EXCEPT !.open = FALSE].open = FALSE
      /\ [s[k] EXCEPT !.open = FALSE].dataset = s[k].dataset
      /\ [s[k] EXCEPT !.open = FALSE].pinged = s[k].pinged
  BY <1>2 DEF Pool
<1> QED BY <1>1, <1>3

(* The pools ps and the pool db of the repository, as a request that nobody *)
(* runs beside finds them at p, with a pool o it has opened itself: a pool  *)
(* that answered its Ping is open only if the repository holds it or the    *)
(* request is about to store it, and what the repository holds answered     *)
(* its Ping and is open unless it is about to be forgotten.                 *)
PoolsFor(p, o, ps, db) ==
  /\ \A k \in 1 .. Len(ps) : ps[k].open /\ ps[k].pinged => k = db \/ (p = "store" /\ o = k)
  /\ db # NoPool => ps[db].pinged /\ (ps[db].open \/ p = "forget")
  /\ p \in {"connect", "store"} => db = NoPool
  /\ p = "forget" => db # NoPool /\ ~ps[db].open
  /\ p = "store" => o \in 1 .. Len(ps) /\ ps[o].open /\ ps[o].pinged

(* Before any two requests overlap, at most one runs, and finds them so.    *)
SoleInv ==
  ~overlap =>
    /\ \A q, o \in Request : Running(q) /\ Running(o) => q = o
    /\ \A q \in Request : Running(q) => PoolsFor(req[q].pc, req[q].opened, pools, repoDb)
    /\ (\A q \in Request : ~Running(q)) => PoolsFor("idle", NoPool, pools, repoDb)

(* A pool that no request left open belongs to one that has not yet come to *)
(* its end.                                                                 *)
LeftInv == repoDb # NoPool /\ ~leftOpen => \E q \in Request : Running(q) /\ ~At(q, "answer")

LEMMA LeftStep ==
  ASSUME TypeInv, LeftInv, NEW q \in Request, RequestStep(q) PROVE LeftInv'
<1>1. CASE Posts(q)
  <2>1. /\ req'[q].pc = "next"
        /\ \A o \in Request \ {q} : ~Running(o) => req'[o] = req[o]
    BY <1>1, PostShape
  <2>2. Running(q)' /\ ~At(q, "answer")'
    BY <2>1 DEF Running, At
  <2> QED BY <2>2 DEF LeftInv
<1>2. CASE Ends(q)
  <2>1. CASE leftOpen' = (leftOpen \/ repoDb # NoPool)
    BY <1>2, <2>1 DEF Ends, LeftInv, repoVars
  <2>2. CASE req[q].pc = "answer" /\ UNCHANGED leftOpen
    <3>1. ASSUME repoDb # NoPool, ~leftOpen
          PROVE  \E o \in Request : Running(o)' /\ ~At(o, "answer")'
      <4>1. PICK o \in Request : Running(o) /\ ~At(o, "answer")
        BY <3>1 DEF LeftInv
      <4>2. o # q /\ req'[o] = req[o]
        BY <1>2, <2>2, <4>1 DEF At, Ends
      <4> QED BY <4>1, <4>2 DEF Running, At
    <3> QED BY <1>2, <2>2, <3>1 DEF Ends, LeftInv, repoVars
  <2> QED BY <1>2, <2>1, <2>2 DEF Ends
<1>3. CASE Hops(q)
  <2>1. \/ req'[q].pc # "idle" /\ req'[q].pc # "answer"
        \/ req'[q].pc = "answer" /\ repoDb' = NoPool
    BY <1>3 DEF Hops, Hop, repoVars
  <2>2. CASE req'[q].pc # "idle" /\ req'[q].pc # "answer"
    <3>1. Running(q)' /\ ~At(q, "answer")'
      BY <2>2 DEF Running, At
    <3> QED BY <3>1 DEF LeftInv
  <2>3. CASE repoDb' = NoPool
    BY <2>3 DEF LeftInv
  <2> QED BY <2>1, <2>2, <2>3
<1> QED BY <1>1, <1>2, <1>3, StepKinds

(* The pools of a request that goes on. *)
LEMMA PoolsOfHop ==
  ASSUME TypeInv, NEW q \in Request, Hops(q),
         PoolsFor(req[q].pc, req[q].opened, pools, repoDb)
  PROVE  PoolsFor(req'[q].pc, req'[q].opened, pools', repoDb')
<1>1. RestOK /\ Len(pools) \in Nat
  BY PartsFromType
<1> DEFINE p == req[q].pc
           p2 == req'[q].pc
<1>2. CASE /\ UNCHANGED <<pools, repoDb>> /\ p \notin {"store", "forget"}
           /\ p2 \notin {"store", "forget"} /\ (p2 = "connect" => repoDb = NoPool)
  BY <1>2 DEF PoolsFor
<1>3. CASE /\ p = "connect" /\ p2 = "store" /\ repoDef \in WithConfig
           /\ pools' = PoolsWith(TRUE)
           /\ req'[q].opened = Len(pools') /\ UNCHANGED repoDb
  <2>2. /\ Len(pools') = Len(pools) + 1
        /\ \A k \in 1 .. Len(pools) : pools'[k] = pools[k]
        /\ pools'[Len(pools')].open /\ pools'[Len(pools')].pinged
    BY <1>3, PingedPool
  <2>3. repoDb = NoPool /\ \A k \in 1 .. Len(pools) : ~(pools[k].open /\ pools[k].pinged)
    <3>1. \A k \in 1 .. Len(pools) : pools[k].open /\ pools[k].pinged => k = repoDb
      BY <1>3 DEF PoolsFor
    <3>2. repoDb = NoPool
      BY <1>3 DEF PoolsFor
    <3> QED BY <3>1, <3>2 DEF NoPool
  <2>4. \A k \in 1 .. Len(pools') : pools'[k].open /\ pools'[k].pinged => k = Len(pools')
    BY <1>1, <2>2, <2>3
  <2>5. /\ req'[q].opened \in 1 .. Len(pools') /\ pools'[req'[q].opened].open
        /\ pools'[req'[q].opened].pinged
    <3>1. Len(pools') \in 1 .. Len(pools')
      BY <1>1, <2>2
    <3> QED BY <1>3, <2>2, <3>1
  <2> QED BY <1>3, <2>3, <2>4, <2>5 DEF PoolsFor
<1>4. CASE p = "store" /\ p2 = "query" /\ repoDb' = req[q].opened /\ UNCHANGED pools
  <2>1. \A k \in 1 .. Len(pools) : pools[k].open /\ pools[k].pinged => k = req[q].opened
    <3>1. repoDb = NoPool
      BY <1>4 DEF PoolsFor
    <3> QED BY <1>4, <3>1 DEF PoolsFor, NoPool
  <2>2. pools[req[q].opened].open /\ pools[req[q].opened].pinged
    BY <1>4 DEF PoolsFor
  <2> QED BY <1>4, <2>1, <2>2 DEF PoolsFor
<1>5. CASE /\ p = "close" /\ p2 = "forget" /\ repoDb # NoPool
           /\ pools' = [pools EXCEPT ![repoDb].open = FALSE] /\ UNCHANGED repoDb
  <2>1. repoDb \in 1 .. Len(pools)
    BY <1>1, <1>5 DEF RestOK, NoPool
  <2>2. /\ Len(pools') = Len(pools) /\ ~pools'[repoDb].open
        /\ pools'[repoDb].pinged = pools[repoDb].pinged
        /\ \A k \in 1 .. Len(pools) : k # repoDb => pools'[k] = pools[k]
    BY <1>1, <1>5, <2>1, ClosedPool DEF RestOK
  <2>3. \A k \in 1 .. Len(pools') : ~(pools'[k].open /\ pools'[k].pinged)
    BY <1>5, <2>2 DEF PoolsFor
  <2>4. /\ repoDb' # NoPool /\ ~pools'[repoDb'].open /\ pools'[repoDb'].pinged
        /\ p2 = "forget"
    BY <1>5, <2>2 DEF PoolsFor
  <2> QED BY <2>3, <2>4 DEF PoolsFor
<1>6. CASE p = "forget" /\ p2 = "answer" /\ repoDb' = NoPool /\ UNCHANGED pools
  <2>1. \A k \in 1 .. Len(pools) : ~(pools[k].open /\ pools[k].pinged)
    BY <1>6 DEF PoolsFor
  <2> QED BY <1>6, <2>1 DEF PoolsFor
<1> QED BY <1>2, <1>3, <1>4, <1>5, <1>6 DEF Hops, Hop, repoVars

LEMMA SoleStep ==
  ASSUME TypeInv, SoleInv, NEW q \in Request, RequestStep(q) PROVE SoleInv'
<1> SUFFICES ASSUME ~overlap' PROVE SoleInv'
  BY DEF SoleInv
<1>1. CASE Posts(q)
  <2>1. /\ req[q].pc = "idle" /\ req'[q].pc = "next" /\ UNCHANGED <<pools, repoDb>>
        /\ ~overlap
        /\ \A o \in Request \ {q} : ~Running(o) /\ req'[o] = req[o]
    BY <1>1, PostShape DEF repoVars
  <2>2. PoolsFor("idle", NoPool, pools, repoDb)
    <3>1. \A o \in Request : ~Running(o)
      BY <2>1 DEF Running, At
    <3> QED BY <2>1, <3>1 DEF SoleInv
  <2>3. PoolsFor(req'[q].pc, req'[q].opened, pools', repoDb')
    BY <2>1, <2>2 DEF PoolsFor
  <2>4. Running(q)' /\ \A o \in Request \ {q} : ~Running(o)'
    BY <2>1 DEF Running, At
  <2> QED BY <2>3, <2>4 DEF SoleInv
<1>2. ASSUME req[q].pc # "idle", \A o \in Request \ {q} : req'[o] = req[o], UNCHANGED overlap
      PROVE  /\ PoolsFor(req[q].pc, req[q].opened, pools, repoDb)
             /\ \A o \in Request \ {q} : ~Running(o)'
  <2>1. Running(q) /\ ~overlap
    BY <1>2 DEF Running, At
  <2>2. \A o \in Request \ {q} : ~Running(o)
    BY <2>1 DEF SoleInv
  <2> QED BY <1>2, <2>1, <2>2 DEF SoleInv, Running, At
<1>3. CASE Ends(q)
  <2>1. /\ PoolsFor(req[q].pc, req[q].opened, pools, repoDb)
        /\ \A o \in Request \ {q} : ~Running(o)'
    BY <1>2, <1>3 DEF Ends
  <2>2. ~Running(q)'
    BY <1>3 DEF Ends, Running, At
  <2>3. req[q].pc \notin {"store", "forget"} /\ UNCHANGED repoDb /\ LeavesPools
    BY <1>3 DEF Ends
  <2>4. PoolsFor("idle", NoPool, pools', repoDb')
    <3>1. Len(pools) \in Nat /\ (repoDb # NoPool => repoDb \in 1 .. Len(pools))
      BY PartsFromType DEF RestOK, NoPool
    <3>2. ASSUME NEW k \in 1 .. Len(pools'), pools'[k].open, pools'[k].pinged
          PROVE  k = repoDb
      <4>1. k \in 1 .. Len(pools) /\ pools'[k] = pools[k]
        BY <2>3, <3>1, <3>2 DEF LeavesPools
      <4> QED BY <2>1, <2>3, <3>2, <4>1 DEF PoolsFor
    <3>3. repoDb # NoPool => pools'[repoDb].pinged /\ pools'[repoDb].open
      BY <2>1, <2>3, <3>1 DEF PoolsFor, LeavesPools
    <3> QED BY <2>3, <3>2, <3>3 DEF PoolsFor
  <2> QED BY <2>1, <2>2, <2>4 DEF SoleInv
<1>4. CASE Hops(q)
  <2>1. /\ PoolsFor(req[q].pc, req[q].opened, pools, repoDb)
        /\ \A o \in Request \ {q} : ~Running(o)'
    BY <1>2, <1>4 DEF Hops, Hop
  <2>2. PoolsFor(req'[q].pc, req'[q].opened, pools', repoDb')
    BY <1>4, <2>1, PoolsOfHop
  <2>3. Running(q)'
    BY <1>4 DEF Hops, Hop, Running, At
  <2> QED BY <2>1, <2>2, <2>3 DEF SoleInv
<1> QED BY <1>1, <1>3, <1>4, StepKinds

LEMMA PoolsStep ==
  TypeInv /\ SoleInv /\ LeftInv /\ [Next]_vars => SoleInv' /\ LeftInv'
<1>1. ASSUME SoleInv, LeftInv, UNCHANGED vars PROVE SoleInv' /\ LeftInv'
  BY <1>1 DEF SoleInv, LeftInv, PoolsFor, Running, At, vars, repoVars, historyVars
<1> QED BY <1>1, SoleStep, LeftStep DEF Next

LEMMA PoolsOfInit == Init => SoleInv /\ LeftInv
<1> SUFFICES ASSUME Init PROVE SoleInv /\ LeftInv
  OBVIOUS
<1>1. \A q \in Request : ~Running(q)
  BY DEF Init, Running, At, Idle
<1>2. Len(pools) = 0 /\ repoDb = NoPool
  BY DEF Init
<1>3. PoolsFor("idle", NoPool, pools, repoDb)
  BY <1>2 DEF PoolsFor
<1> QED BY <1>1, <1>2, <1>3 DEF SoleInv, LeftInv

(* As long as no two requests have overlapped, the pools that stay open     *)
(* between requests are the one that the next request will use and those    *)
(* whose Ping failed in connect, and the next request never uses one of     *)
(* these; after requests that all came to their end only these are left.    *)
THEOREM OnlyFailedPingLeaksAlways == Spec => []OnlyFailedPingLeaks
<1>1. SoleInv /\ LeftInv => OnlyFailedPingLeaks
  <2> SUFFICES ASSUME SoleInv, LeftInv, ~overlap, \A o \in Request : ~Running(o)
               PROVE  /\ \A p \in 1 .. Len(pools) :
                           pools[p].open => (p = repoDb <=> pools[p].pinged)
                      /\ ~leftOpen => repoDb = NoPool
    BY DEF OnlyFailedPingLeaks
  <2>1. PoolsFor("idle", NoPool, pools, repoDb)
    BY DEF SoleInv
  <2>2. ASSUME NEW p \in 1 .. Len(pools), pools[p].open
        PROVE  p = repoDb <=> pools[p].pinged
    <3>1. pools[p].pinged => p = repoDb
      BY <2>1, <2>2 DEF PoolsFor
    <3>2. p = repoDb => pools[p].pinged
      BY <2>1 DEF PoolsFor, NoPool
    <3> QED BY <3>1, <3>2
  <2>3. ~leftOpen => repoDb = NoPool
    BY DEF LeftInv
  <2> QED BY <2>2, <2>3
<1> QED BY <1>1, TypeOfInit, TypeStep, PoolsOfInit, PoolsStep, PTL DEF Spec

(* Until then a request finds no pool that an earlier one has closed.       *)
THEOREM NoClosedPoolAlways == Spec => []NoClosedPool
<1>1. SoleInv => NoClosedPool
  BY DEF SoleInv, NoClosedPool, PoolsFor, IsOpen
<1> QED BY <1>1, TypeOfInit, TypeStep, PoolsOfInit, PoolsStep, PTL DEF Spec

-----------------------------------------------------------------------------

(* What a request that nothing disturbs has read: nobody runs beside it,    *)
(* the definition in the repository is its own from the moment it has set   *)
(* it, and so is every pool unless an earlier request left one.             *)
HomeFor(q) ==
  LET r == req[q] IN
  Running(q) /\ ~r.together =>
    /\ \A o \in Request \ {q} : ~Running(o)
    /\ r.pc \in Writing => repoDef = r.dataset
    /\ r.pc \in {"fields", "sort", "sorting", "begin", "exec"} => r.query = r.dataset
    /\ r.pc \in {"sort", "sorting", "begin", "exec"} => r.fields = r.dataset
    /\ r.pc = "store" => pools[r.opened].dataset = r.dataset
    /\ ~leftOpen /\ repoDb # NoPool => pools[repoDb].dataset = r.dataset
    /\ ~leftOpen /\ r.pc = "exec" => pools[r.tx].dataset = r.dataset

HomeInv == AtHomeIfUndisturbed /\ \A q \in Request : HomeFor(q)

(* A step of another request tells nothing of q: either q does not run or   *)
(* it does not run alone.                                                   *)
LEMMA HomeOfOthers ==
  ASSUME HomeInv, NEW q \in Request, req[q].pc # "idle",
         \A o \in Request \ {q} : req'[o] = req[o],
         NEW o \in Request \ {q}
  PROVE  HomeFor(o)'
<1>1. Running(o) => req[o].together
  BY DEF HomeInv, HomeFor, Running, At
<1> QED BY <1>1 DEF HomeFor, Running, At

LEMMA HomeOfHop ==
  ASSUME TypeInv, NEW q \in Request, HomeFor(q), Hops(q) PROVE HomeFor(q)'
<1>1. RestOK /\ Len(pools) \in Nat /\ req[q] \in ReqType(Len(pools))
  BY PartsFromType
<1>2. /\ req'[q].dataset = req[q].dataset /\ req'[q].together = req[q].together
      /\ req[q].pc # "idle" /\ UNCHANGED leftOpen
      /\ \A o \in Request \ {q} : req'[o] = req[o]
  BY DEF Hops, Hop
<1> SUFFICES ASSUME ~req[q].together PROVE HomeFor(q)'
  BY <1>2 DEF HomeFor
<1> DEFINE r == req[q]
<1>3. /\ \A o \in Request \ {q} : ~Running(o)
      /\ r.pc \in Writing => repoDef = r.dataset
      /\ r.pc \in {"fields", "sort", "sorting", "begin", "exec"} => r.query = r.dataset
      /\ r.pc \in {"sort", "sorting", "begin", "exec"} => r.fields = r.dataset
      /\ r.pc = "store" => pools[r.opened].dataset = r.dataset
      /\ ~leftOpen /\ repoDb # NoPool => pools[repoDb].dataset = r.dataset
  BY <1>2 DEF HomeFor, Running, At
<1>4. \A o \in Request \ {q} : ~Running(o)'
  BY <1>2, <1>3 DEF Running, At
<1>5. ASSUME NEW k \in 1 .. Len(pools) PROVE pools'[k].dataset = pools[k].dataset
  <2>1. CASE UNCHANGED pools
    BY <2>1
  <2>2. CASE /\ repoDef \in WithConfig
             /\ pools' = PoolsWith(TRUE)
    BY <2>2, PingedPool
  <2>3. CASE repoDb # NoPool /\ pools' = [pools EXCEPT ![repoDb].open = FALSE]
    <3>1. repoDb \in 1 .. Len(pools)
      BY <1>1, <2>3 DEF RestOK, NoPool
    <3> QED BY <1>1, <2>3, <3>1, ClosedPool DEF RestOK
  <2> QED BY <2>1, <2>2, <2>3 DEF Hops, repoVars
<1>6. /\ repoDb # NoPool => repoDb \in 1 .. Len(pools)
      /\ r.tx # NoPool => r.tx \in 1 .. Len(pools)
      /\ r.opened \in 0 .. Len(pools)
  BY <1>1 DEF RestOK, NoPool, ReqType
<1>7. /\ req'[q].pc \in Writing => repoDef' = r.dataset
      /\ req'[q].pc \in {"fields", "sort", "sorting", "begin", "exec"} =>
           req'[q].query = r.dataset
      /\ req'[q].pc \in {"sort", "sorting", "begin", "exec"} => req'[q].fields = r.dataset
  BY <1>3 DEF Hops, Hop, SameBatch, Writing, repoVars
<1>8. req'[q].pc = "store" => pools'[req'[q].opened].dataset = r.dataset
  <2> SUFFICES ASSUME req'[q].pc = "store" PROVE pools'[req'[q].opened].dataset = r.dataset
    OBVIOUS
  <2>1. /\ r.pc = "connect" /\ repoDef \in WithConfig /\ pools' = PoolsWith(TRUE)
        /\ req'[q].opened = Len(pools')
    BY DEF Hops, Hop
  <2>2. repoDef = r.dataset
    BY <1>3, <2>1 DEF Writing
  <2>3. pools'[Len(pools')].dataset = repoDef
    BY <2>1, PingedPool
  <2> QED BY <2>1, <2>2, <2>3
<1>9. ASSUME ~leftOpen, repoDb' # NoPool PROVE pools'[repoDb'].dataset = r.dataset
  <2>1. CASE UNCHANGED repoDb
    BY <1>3, <1>5, <1>6, <1>9, <2>1
  <2>2. CASE r.pc = "store" /\ repoDb' = r.opened /\ UNCHANGED pools
    BY <1>3, <2>2
  <2> QED BY <1>9, <2>1, <2>2 DEF Hops, Hop, repoVars
<1>10. ASSUME ~leftOpen, req'[q].pc = "exec" PROVE pools'[req'[q].tx].dataset = r.dataset
  <2>1. req'[q].tx = repoDb /\ repoDb # NoPool /\ UNCHANGED pools
    BY <1>10 DEF Hops, Hop, IsOpen, repoVars
  <2> QED BY <1>3, <1>10, <2>1
<1> QED BY <1>2, <1>4, <1>7, <1>8, <1>9, <1>10 DEF HomeFor

(* What was committed last stays at home. *)
LEMMA LandedOfHop ==
  ASSUME AtHomeIfUndisturbed, NEW q \in Request, HomeFor(q), Hops(q)
  PROVE  AtHomeIfUndisturbed'
<1>1. CASE UNCHANGED landed
  BY <1>1 DEF AtHomeIfUndisturbed
<1>2. CASE ~UNCHANGED landed
  <2>1. /\ req[q].pc = "exec"
        /\ landed'.dataset = req[q].dataset /\ landed'.query = req[q].query
        /\ landed'.fields = req[q].fields /\ landed'.database = pools[req[q].tx].dataset
        /\ landed'.excused = (req[q].together \/ leftOpen)
    BY <1>2 DEF Hops, Hop, repoVars
  <2>2. ASSUME ~landed'.excused
        PROVE  /\ landed'.query = landed'.dataset /\ landed'.fields = landed'.dataset
               /\ landed'.database = landed'.dataset
    <3>1. Running(q) /\ ~req[q].together /\ ~leftOpen
      BY <2>1, <2>2 DEF Running, At
    <3> QED BY <2>1, <3>1 DEF HomeFor
  <2> QED BY <2>2 DEF AtHomeIfUndisturbed
<1> QED BY <1>1, <1>2

LEMMA HomeStep == TypeInv /\ LeftInv /\ HomeInv /\ [Next]_vars => HomeInv'
<1>1. ASSUME HomeInv, UNCHANGED vars PROVE HomeInv'
  BY <1>1 DEF HomeInv, HomeFor, AtHomeIfUndisturbed, Running, At, vars, repoVars, historyVars
<1>2. ASSUME TypeInv, LeftInv, HomeInv, NEW q \in Request, RequestStep(q) PROVE HomeInv'
  <2>1. CASE Posts(q)
    <3>1. /\ req[q].pc = "idle" /\ req'[q].pc = "next"
          /\ UNCHANGED <<repoVars, landed, leftOpen>>
          /\ \A o \in Request \ {q} :
               /\ ~Running(o) => req'[o] = req[o]
               /\ Running(o) => req'[o].together /\ req'[q].together
      BY <1>2, <2>1, PostShape
    <3>2. ASSUME NEW o \in Request \ {q} PROVE HomeFor(o)'
      <4>1. CASE Running(o)
        BY <3>1, <4>1 DEF HomeFor
      <4>2. CASE ~Running(o)
        BY <3>1, <4>2 DEF HomeFor, Running, At
      <4> QED BY <4>1, <4>2
    <3>3. HomeFor(q)'
      <4> SUFFICES ASSUME ~req'[q].together PROVE HomeFor(q)'
        BY DEF HomeFor
      <4>1. \A o \in Request \ {q} : ~Running(o) /\ ~Running(o)'
        BY <3>1 DEF Running, At
      <4>2. \A o \in Request : ~Running(o)
        BY <3>1, <4>1 DEF Running, At
      <4>3. ~leftOpen' => repoDb' = NoPool
        BY <1>2, <3>1, <4>2 DEF LeftInv, repoVars
      <4> QED BY <3>1, <4>1, <4>3 DEF HomeFor, Writing
    <3>4. AtHomeIfUndisturbed'
      BY <1>2, <3>1 DEF HomeInv, AtHomeIfUndisturbed
    <3> QED BY <3>2, <3>3, <3>4 DEF HomeInv
  <2>2. CASE Ends(q)
    <3>1. /\ req[q].pc # "idle" /\ req'[q].pc = "idle" /\ UNCHANGED landed
          /\ \A o \in Request \ {q} : req'[o] = req[o]
      BY <2>2 DEF Ends
    <3>2. \A o \in Request \ {q} : HomeFor(o)'
      BY <1>2, <3>1, HomeOfOthers
    <3>3. HomeFor(q)'
      BY <3>1 DEF HomeFor, Running, At
    <3> QED BY <1>2, <3>1, <3>2, <3>3 DEF HomeInv, AtHomeIfUndisturbed
  <2>3. CASE Hops(q)
    <3>1. req[q].pc # "idle" /\ \A o \in Request \ {q} : req'[o] = req[o]
      BY <2>3 DEF Hops, Hop
    <3>2. \A o \in Request \ {q} : HomeFor(o)'
      BY <1>2, <3>1, HomeOfOthers
    <3>3. HomeFor(q)' /\ AtHomeIfUndisturbed'
      BY <1>2, <2>3, HomeOfHop, LandedOfHop DEF HomeInv
    <3> QED BY <3>2, <3>3 DEF HomeInv
  <2> QED BY <1>2, <2>1, <2>2, <2>3, StepKinds
<1> QED BY <1>1, <1>2 DEF Next

(* A batch goes through the query and the fields and into the database of   *)
(* its dataset, unless another request ran beside it or an earlier one left *)
(* its pool open: the fields of PostRepository that all requests share are  *)
(* safe for a request on its own, however often it connects.                *)
THEOREM AtHomeIfUndisturbedAlways == Spec => []AtHomeIfUndisturbed
<1>1. Init => HomeInv
  <2> SUFFICES ASSUME Init PROVE HomeInv
    OBVIOUS
  <2>1. \A q \in Request : ~Running(q)
    BY DEF Init, Running, At, Idle
  <2> QED BY <2>1 DEF Init, HomeInv, HomeFor, AtHomeIfUndisturbed
<1>2. HomeInv => AtHomeIfUndisturbed
  BY DEF HomeInv
<1> QED BY <1>1, <1>2, TypeOfInit, TypeStep, PoolsOfInit, PoolsStep, HomeStep, PTL DEF Spec
=============================================================================
