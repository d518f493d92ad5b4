----------------------------- MODULE ChangeFeed -----------------------------
(***************************************************************************)
(* The read path of the data layer (src/internal/layer/read.go) beside the *)
(* writers of MysqlWriter, on one table.                                   *)
(*                                                                         *)
(* GET changes with a continuation token asks the server two questions on  *)
(* two snapshots: SELECT MAX(since), which becomes the token of the        *)
(* response, and the query of buildQuery, whose rows are the response.  A  *)
(* consumer stores the token and sends it with its next request.           *)
(*                                                                         *)
(* External: the consumer, and common-datalayer, which streams the         *)
(* entities of the iterator and appends the token if no error came before. *)
(***************************************************************************)
EXTENDS MysqlWriter

CONSTANTS
  Reader,     \* the consumers, each with a token of its own
  Datasets,   \* the definitions to be checked, a subset of Definition
  Limits,     \* values of the limit parameter, 0: none
  MaxReads    \* bound: requests per consumer

(***************************************************************************)
(* What buildQuery and newIterator look at in a dataset definition.  where *)
(* is the spelling of the WHERE that the configured data_query contains;   *)
(* without a data_query there is none.                                     *)
(***************************************************************************)
Definition == [mapped : BOOLEAN, entityColumn : BOOLEAN, sinceColumn : BOOLEAN,
               sinceTable : BOOLEAN, where : {"none", "WHERE", "where"}]

ASSUME DatasetsAssumption == Datasets \subseteq Definition
ASSUME LimitsAssumption == Limits \subseteq Nat
ASSUME MaxReadsAssumption == MaxReads \in Nat

(***************************************************************************)
(* A since parameter: absent, the base64 text of a time, or something that *)
(* does not decode.                                                        *)
(***************************************************************************)
Token == [kind : {"empty", "base64", "garbage"}, time : Nat]
EmptyToken == [kind |-> "empty", time |-> 0]
GarbageToken == [kind |-> "garbage", time |-> 0]
EncodeToken(t) == [kind |-> "base64", time |-> t]

(***************************************************************************)
(* sql.NullTime: MAX over no rows is NULL, which leaves the zero time.     *)
(* The zero time is before every NOW().                                    *)
(***************************************************************************)
ZeroTime == 0
Valid(t) == t # ZeroTime

VARIABLES
  dataset,   \* the definition this run is about
  rpc,       \* where the consumer's request is
  since,     \* dbIterator.since: the token the request was sent with
  limit,     \* dbIterator.limit
  maxSince,  \* what SELECT MAX returned
  rows,      \* dbIterator.rows: the result of the query
  token,     \* the token the consumer has stored
  reads,     \* bound: number of requests
  delivered, \* history: the rows the consumer was sent
  settled,   \* history: those sent with the token of a time, in full
  cut,       \* history: the rows a LIMIT has cut off
  snapshots  \* history: what SELECT MAX answered and the rows it saw

readerVars == <<rpc, since, limit, maxSince, rows, token, reads,
                delivered, settled, cut, snapshots>>
feedVars == <<vars, dataset, readerVars>>

-----------------------------------------------------------------------------

FeedInit ==
  /\ Init
  /\ dataset \in Datasets
  /\ rpc = [r \in Reader |-> "idle"]
  /\ since = [r \in Reader |-> EmptyToken]
  /\ limit = [r \in Reader |-> 0]
  /\ maxSince = [r \in Reader |-> ZeroTime]
  /\ rows = [r \in Reader |-> {}]
  /\ token = [r \in Reader |-> EmptyToken]
  /\ reads = [r \in Reader |-> 0]
  /\ delivered = [r \in Reader |-> {}]
  /\ settled = [r \in Reader |-> {}]
  /\ cut = [r \in Reader |-> {}]
  /\ snapshots = [r \in Reader |-> {}]

(* The committed rows. *)
Rows == {table[i] : i \in {j \in Id : table[j] # Absent}}

(* SELECT MAX(since_column). *)
MaxOf(S) == IF S = {} THEN ZeroTime
            ELSE CHOOSE t \in {x.since : x \in S} : \A x \in S : x.since =< t

(* Changes with latestOnly is refused. *)
ChangesLatestOnly(r) ==
  /\ rpc[r] = "idle"
  /\ reads[r] < MaxReads
  /\ reads' = [reads EXCEPT ![r] = @ + 1]
  /\ UNCHANGED <<vars, dataset, rpc, since, limit, maxSince, rows, token,
                 delivered, settled, cut, snapshots>>

(* Changes or Entities, up to the answer of SELECT MAX.  The query is only  *)
(* sent if the dataset has a since column.  A since table is here the table *)
(* of the dataset itself, whose maximum is that of its rows.                *)
Changes(r, s, n) ==
  LET max == IF dataset.sinceColumn THEN MaxOf(Rows) ELSE ZeroTime
  IN /\ rpc[r] = "idle"
     /\ reads[r] < MaxReads
     /\ reads' = [reads EXCEPT ![r] = @ + 1]
     /\ since' = [since EXCEPT ![r] = s]
     /\ limit' = [limit EXCEPT ![r] = n]
     /\ maxSince' = [maxSince EXCEPT ![r] = max]
     /\ rpc' = [rpc EXCEPT ![r] = "query"]
     /\ snapshots' = [snapshots EXCEPT ![r] = @ \cup {[max |-> max, rows |-> Rows]}]
     /\ UNCHANGED <<vars, dataset, rows, token, delivered, settled, cut>>

(* A query fails: the request ends with an error and no token. *)
RequestFails(r) ==
  /\ rpc' = [rpc EXCEPT ![r] = "idle"]
  /\ rows' = [rows EXCEPT ![r] = {}]
  /\ UNCHANGED <<vars, dataset, since, limit, maxSince, token, reads, settled, cut,
                 snapshots>>

-----------------------------------------------------------------------------
(***************************************************************************)
(* buildQuery.                                                             *)
(***************************************************************************)

(* Are the bounds on the since column appended to the query? *)
Bounded(r) == Valid(maxSince[r]) /\ dataset.sinceColumn

(* buildQuery returns an error: there is nothing to map rows with, or the   *)
(* token is to be decoded and cannot be.                                    *)
BuildFails(r) ==
  \/ ~dataset.mapped /\ ~dataset.entityColumn
  \/ Bounded(r) /\ since[r].kind = "garbage"

(* The text has two WHEREs.  With a since_table the bounds are appended     *)
(* with AND if the data query contains WHERE, in capitals; without one they *)
(* are always appended with WHERE.                                          *)
TwoWheres(r) ==
  /\ Bounded(r)
  /\ IF dataset.sinceTable THEN dataset.where = "where" ELSE dataset.where # "none"

(* A row the bounds let through. *)
(* (Mutants: no upper bound; the upper bound excludes the maximum.) *)
InWindowOpen(r, x) ==
  Bounded(r) => (since[r].kind = "base64" => x.since > since[r].time)
InWindowBelow(r, x) ==
  Bounded(r) => /\ x.since < maxSince[r]
                /\ since[r].kind = "base64" => x.since > since[r].time
InWindow(r, x) ==
  Bounded(r) => /\ x.since =< maxSince[r]
                /\ since[r].kind = "base64" => x.since > since[r].time

(* The results LIMIT allows: no ORDER BY says which rows are kept. *)
Limited(S, n) ==
  IF n = 0 \/ n >= Cardinality(S) THEN {S}
  ELSE {T \in SUBSET S : Cardinality(T) = n}

(* The query is executed on the rows committed by now. *)
Query(r) ==
  /\ rpc[r] = "query"
  /\ ~BuildFails(r) /\ ~TwoWheres(r)
  /\ LET window == {x \in Rows : InWindow(r, x)}
     IN \E S \in Limited(window, limit[r]) :
          /\ rows' = [rows EXCEPT ![r] = S]
          /\ cut' = [cut EXCEPT ![r] = @ \cup (window \ S)]
  /\ rpc' = [rpc EXCEPT ![r] = "stream"]
  /\ UNCHANGED <<vars, dataset, since, limit, maxSince, token, reads,
                 delivered, settled, snapshots>>

QueryFails(r) ==
  /\ rpc[r] = "query"
  /\ RequestFails(r)
  /\ UNCHANGED delivered

-----------------------------------------------------------------------------

(* Next until the rows are exhausted, Token, Close.  Without a since column *)
(* the continuation carries no token.  (Mutant: the time is not encoded.) *)
NextTokenText(r) == IF dataset.sinceColumn THEN [kind |-> "text", time |-> maxSince[r]]
                    ELSE EmptyToken
NextToken(r) == IF dataset.sinceColumn THEN EncodeToken(maxSince[r]) ELSE EmptyToken

Stream(r) ==
  /\ rpc[r] = "stream"
  /\ delivered' = [delivered EXCEPT ![r] = @ \cup rows[r]]
  /\ settled' = [settled EXCEPT ![r] = IF Bounded(r) THEN @ \cup rows[r] ELSE @]
  /\ token' = [token EXCEPT ![r] = NextToken(r)]
  /\ rpc' = [rpc EXCEPT ![r] = "idle"]
  /\ rows' = [rows EXCEPT ![r] = {}]
  /\ UNCHANGED <<vars, dataset, since, limit, maxSince, reads, cut, snapshots>>

(* Next returns an error: a row cannot be scanned or mapped, or the         *)
(* connection is lost.  The rows before it have been sent.                  *)
StreamBreaks(r) ==
  /\ rpc[r] = "stream"
  /\ \E S \in SUBSET rows[r] : delivered' = [delivered EXCEPT ![r] = @ \cup S]
  /\ RequestFails(r)

-----------------------------------------------------------------------------

ReaderStep(r) ==
  \/ ChangesLatestOnly(r)
  \/ \E s \in {token[r], GarbageToken}, n \in Limits : Changes(r, s, n)
  \/ Query(r)
  \/ QueryFails(r)
  \/ Stream(r)
  \/ StreamBreaks(r)

FeedNext ==
  \/ Next /\ UNCHANGED <<dataset, readerVars>>
  \/ \E r \in Reader : ReaderStep(r)

FeedSpec == FeedInit /\ [][FeedNext]_feedVars

-----------------------------------------------------------------------------
(***************************************************************************)
(* Properties.                                                             *)
(***************************************************************************)

(* The values the variables of the read path range over. *)
FeedTypeOK ==
  /\ dataset \in Definition
  /\ rpc \in [Reader -> {"idle", "query", "stream"}]
  /\ since \in [Reader -> Token]
  /\ limit \in [Reader -> Nat]
  /\ maxSince \in [Reader -> Nat]
  /\ rows \in [Reader -> SUBSET Row]
  /\ token \in [Reader -> Token]
  /\ reads \in [Reader -> Nat]
  /\ delivered \in [Reader -> SUBSET Row]
  /\ settled \in [Reader -> SUBSET Row]
  /\ cut \in [Reader -> SUBSET Row]
  /\ snapshots \in [Reader -> SUBSET [max : Nat, rows : SUBSET Row]]

(* A row that was sent in full with the token of a time is never sent       *)
(* again, although the maximum may go down when rows are deleted and the    *)
(* token with it (read.go:67, 239).  A response whose SELECT MAX was NULL   *)
(* has the zero time for a token; rows that were committed after it and     *)
(* before the query of the rows are sent with that token and again with the *)
(* next, and are not among those that count as settled.                     *)
NoRedelivery ==
  \A r \in Reader :
    dataset.sinceColumn => rows[r] \cap settled[r] = {}

(* The rows the consumer will not be sent any more: its token has passed    *)
(* them.                                                                    *)
Lost(r) == {x \in Rows : token[r].kind = "base64" /\ x.since =< token[r].time}
             \ delivered[r]

(* A consumer misses a row only if a LIMIT has cut it off, or if the row    *)
(* was not committed yet when a maximum at or above its since value was     *)
(* read: its INSERT had run and was still in its transaction, or it ran     *)
(* later and NOW() gave it the same value.  Deletions, failed flushes,      *)
(* broken responses and a token that goes down lose nothing.                *)
LostOnlyIfCutOrLate ==
  \A r \in Reader : \A x \in Lost(r) :
    \/ x \in cut[r]
    \/ \E s \in snapshots[r] : x.since =< s.max /\ x \notin s.rows
=============================================================================
