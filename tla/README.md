# Specification of the MySQL data layer

TLA+ modules, model-checking runs and machine-checked proofs for
`mysql-datalayer`: a service that lets a data hub read changes from MySQL tables
and write batches of entities to them. The repository holds two
implementations, the current layer on `common-datalayer` (`internal/layer`) and
the legacy one with a web server of its own (`internal/legacy`). Both are
modelled. Everything here is read off the Go source; documentation and tests
serve only to know what was intended.

Paths below are relative to `src/`. A module's comment and the `map` of
PROJECT.json name the lines that each definition stands for.

## The system

| Component | State | Operations | Talks to |
|---|---|---|---|
| write path, `internal/layer/write.go` | per request: transaction, insert batch by id, ids to delete, batch size | `Incremental`, `FullSync` (refused), `Write`, `flush`, `Close` | the table, shared with every other request |
| read path, `internal/layer/read.go` | per request: since, limit, maximum, rows; the consumer's token | `Changes`, `Entities`, `newIterator`, `buildQuery`, `Next`, `Token` | the table, while writers commit |
| configuration, `internal/layer/config.go`, `layer.go`, `mysql.go` | the pool, the datasets map, each dataset's definition and pool | `UpdateConfiguration`, `Dataset`, `Stop` | every request, through shared unlocked fields |
| legacy configuration manager, `internal/legacy/conf/manager.go` | the configuration and its digest | `load` on a timer: a file, or an endpoint with token and retries | the token provider, the endpoint; legacy reads and posts, unlocked |
| legacy read path, `internal/legacy/layers/layer.go`, `db/query.go`, `web/datasethandler.go` | the repository's pool and the digest it was opened for | `getChangesHandler`, `ChangeSet`, `ensureConnection`, `connect` | the manager; other reads, through the repository |
| legacy write path, `internal/legacy/layers/postlayer.go`, `web/posthandler.go` | the repository's pool and table definition; the field mappings of a dataset, sorted in place | `postHandler`, `PostEntities`, `connect` | other posts, through the repository |
| legacy token provider, `internal/legacy/security` | a cached token and its end | `Token` | the authorisation service; its only caller is the reload job |
| legacy web server, middlewares, environment, logging, metrics | none that changes after start | routing, token checks, log lines | |
| legacy rows, `internal/legacy/layers/layer.go:128-420` | the cells that every row of a result is scanned into | `BuildRowType`, `Scan`, `toEntity`, the token | the manager: the base URI is read row by row |
| row mapping (`mysql.go:42-103`, `sqlVal` in `write.go`) | none | conversion of single values | |

What is hard in it:

* **Nothing is locked.** Requests, the configuration watcher and the reload job
  run on goroutines of their own and share pools, definitions, digests and maps.
* **Two texts per flush.** A flush looks like one transaction, but each of its
  two texts has a `COMMIT` of its own, and `BEGIN` ends the transaction that the
  writer opened. Other requests run between the texts, and a failure may come
  between them.
* **Two snapshots per read.** The maximum of the since column, which becomes the
  continuation token, and the rows are read by two queries; a row's since value
  is `NOW()` of its `INSERT`, not of its commit.
* **Callers go on after errors.** A batch that failed stays in the writer; a
  pool that failed to open leaves a nil or a closed pool behind; a legacy post
  that ends early leaves its pool to the next one.
* **Caches and retries.** A token is checked once and used for several attempts;
  every answer of the token service is cached, errors too; a configuration is
  replaced only if its digest is new.
* **Reused memory.** All rows of a legacy result go through the same cells, and
  all posts to a dataset sort the same slice.
* **Order.** Versions of an entity arrive in any order; deletions and updates of
  one entity share a batch; a map iteration orders the `INSERT`s.

What makes each part correct:

* write path: the rows are what acknowledged batches ask for and nothing else;
  a failure is never acknowledged later; the buffer is bounded; every flush ends;
* read path: a row that was sent with a time as its token is not sent again, and a
  row is missed only for reasons that can be named;
* configuration: a served request used one configuration; only the pool of a failed
  `Ping` stays open, and it serves nobody; after a successful update the datasets are
  the configured ones;
* legacy read path: the pool is that of the digest recorded for it, and a
  request is answered from the database of its own table definition;
* legacy write path: a batch lands in the database of its dataset, through the
  query and the fields of its dataset, and a 200 stands for every batch;
* legacy configuration: what is configured is the last usable content that was
  read, and in the end what the source holds;
* legacy rows: an entity is made of its own row alone, and a token covers the
  rows before it.

## The modules

| Module | Models |
|---|---|
| `MysqlWriter` | the write path on a shared table |
| `MysqlWriterProofs` | theorems about `MysqlWriter` for every value of its constants |
| `FlushStore` | abstract: what a flush promises about the table, without locks, texts or connections |
| `MysqlWriterStore` | the refinement mapping from `MysqlWriter` to `FlushStore` |
| `FlushStoreProofs` | the theorem that `MysqlWriter` implements `FlushStore` |
| `ChangeFeed` | the read path; extends `MysqlWriter`, so readers and writers interleave on one table |
| `ChangeFeedProofs` | theorems about `ChangeFeed` |
| `DatalayerConfig` | configuration updates beside the requests that are served |
| `DatalayerConfigProofs` | theorems about `DatalayerConfig` |
| `LegacyRead` | the legacy read path beside the last two assignments of a reload |
| `LegacyReadProofs` | theorems about `LegacyRead` |
| `LegacyRows` | one legacy response: cells, entities, token |
| `LegacyRowsProofs` | theorems about `LegacyRows` |
| `LegacyPost` | the legacy write path |
| `LegacyPostProofs` | theorems about `LegacyPost` |
| `ConfigReload` | the legacy reload job, the token it presents and the endpoint it asks |
| `ConfigReloadProofs` | theorems about `ConfigReload` |
| `MC...` | the definitions the configurations need: symmetry, dataset definitions, table maps |

Conventions. Variables and actions keep the names of the fields and functions
they stand for. A variable marked *history* is read by no guard and only serves
to state a property; one marked *bound*, and every constant `Max...`, only
keeps the instances finite. A definition introduced as a *mutant* is a plausible
wrong form of the definition after it and is used by no action; with the mutant
in place of the original the property named for it in PROJECT.json is violated.

### MysqlWriter

`Write` is one action up to the point where it calls `flush`: recording the id
for deletion, keeping the newer of two versions, counting, and the test against
`FlushThreshold`. `flush` is the sequence `FlushDelete`, one `InsertRow` per
entry in any order, `FlushInsert`; each is a statement or commit that other
requests can come before or after. A request that has run an `INSERT` and not
committed it holds the row (`stamps`), and other requests that touch the row
wait (`Blocked`). `FlushRefused` is the answer of a server that refuses: the key
is taken, the lock wait is cut short, or the transaction is over.
`FlushInterrupted` is a lost connection, before or after the server committed.
`FlushError` and `FlushOk` are the two ways `flush` returns into `Write` or
`Close`. `Abandon` is a request that ends without `Close`.

MySQL is external. Assumed of it: a primary key on the identity column (as in
the schema of `common_layer_integration_test.go:66`), row locks from a statement
to the end of its transaction, `NOW()` read when a statement starts. Locks that
a `DELETE` takes are not visible, as its text commits in the same step.
Values of columns are abstracted to the entity they come from.

### FlushStore and the mapping

In `FlushStore` a request has a unit of work, ids to remove and rows to put,
which it may change while it is *open*. `Clear` removes all ids of the unit in
one step; `Fill` then puts all of its rows in one step, and only where no row has
come back; a request that has *ended* changes the table no more. That is all it
says, and no row lock, statement, lost connection or commit occurs in it.

`MysqlWriterStore` maps `MysqlWriter` to it. The store is the table without its
since column. The unit of a request is its batch, until the transaction is over:
`deleteIds` and the rows of `batchInserts`. A request is *cleared* while its `pc`
is `insert`, that is between the commits of the two texts. The `INSERT`s that have
run and are not committed are not in the store; so `InsertRow` is a step that
changes nothing there, `FlushDelete` is `Clear`, and the commit of the second text
is `Fill`. That `Fill` finds no row in its way is the work of the row locks: what a
request has inserted, and not committed, nobody else can put.

### ChangeFeed

`Changes` is the request up to the answer of `SELECT MAX`; `Query` runs the text
that `buildQuery` makes of the definition on the rows committed by then;
`Stream` sends rows and token. A definition is reduced to what `buildQuery`
branches on: mappings or an entity column, a since column, a since table, and
how the `WHERE` of a `data_query` is spelled. `TwoWheres` is the combination
that gives a text that is no SQL. Tokens decode or do not; the consumer sends
the one it has, or garbage. `newIterator` takes the maximum of the since table if
one is named (`read.go:61-67`); here that is the table of the dataset itself. With
another table, or a view, the token would be that table's maximum, and the properties
below say nothing about the rows. The precedence of `OR` in the `WHERE` of a
`data_query` that is continued with `AND` is not modelled: a data query here
selects all rows.

### DatalayerConfig

The n-th configuration, its pool and its definitions are the number n.
`UpdateConfiguration` is one action per assignment that a request can come
between: close, open, the two assignments of an existing dataset, one removal,
addition or lowering per step (`lowered` holds the properties, by name and
version of the definition, that the last loop has lowered). A request reads its definition, its pool and
again its definition (`ReadEarly`, `ReadDb`, `ReadLate`), in the order of
`newMysqlWriter` and `newIterator`, and then uses the pool (`Send`), once more
if it is a read. `MapRace` is the Go runtime's answer to a map that is read
while it is written. A nil pool that is closed ends the process. `OpenFails` is
`newMysqlDB` returning an error: from the configuration or `sql.Open`, without a pool,
or from `Ping`, with a pool that is open and that nobody refers to.

### LegacyRead

`Load` and `LoadState` are the two assignments at the end of `load`; what was
found is a configuration or something unusable. A request looks at the
configuration three times (`Exists`, `Context`, `Definition`), then compares
digests (`Ensure`) and replaces the pool in four steps (`CloseOld`, `Connect`,
`StoreDb`, `StoreDigest`). `ConnectFails` is an error of `sql.Open`, or one of
`PingContext`, after which the pool stays open; a pool remembers whether its `Ping`
succeeded (`pinged`). `ServerSince` and `QueryRuns` use whatever pool is
there then. `connect` reads `Datalayer` field by field, six times
(`layers/layer.go:268-274`), which is one step here: a load between two of them gives
a pool of two configurations in the code; in the model it comes before `Connect`, or
after it, where it counts as `raced`. md5 is taken to tell contents apart, so a configuration stands for
its own digest.

### LegacyRows

`ScanRow` is `rows.Next` and `rows.Scan` into the cells, by the type of each
column; `ScanFails` is a value that does not fit, after which the cells to its left
are those of the new row and the others still those of an older one. `MapRow` is
`toEntity`: `AddColumn` is the body of its loop, with the operation column of a
capture table, the mapping of the column if it has one, and the text that makes an
id or a reference; `EntityUpTo` is the loop, a recursive function of the number of
columns done, and `Cleared` what a deletion leaves. `Reload` replaces the base URI between any
two rows; the table mapping was looked up when the response began. `RowsEnd` is
`Next` returning false, at the end or because the result broke off, and
`SendToken` does not ask which.

Values are abstracted to what the code tells apart: NULL, the empty string, and
three others that stand for numbers and texts. `float` stands for the times and
blobs too, which are passed on as they are; `other` for the types that
`BuildRowType` and `toEntity` do not know.

### LegacyPost

`PostEntities` is split where it reads or writes what others share: the
definition (`NextBatch`), the nil tests (`CheckDefinition`), `Connect`,
`StoreDb`, the query and id column (`ReadQuery`), the fields (`ReadFields`), the
sorting of the shared slice (`Sort` finds out whether anything has to be moved,
`EndSort` is when it has been), `Begin`, the statements and `Commit`, whose error
is dropped. A slice that two requests sort at once may end with an element twice
and another gone; it is *torn* then and stays so. `Finish`, `CloseRepo` and
`Forget` are the end of `postHandler`. A request that leaves early (`Leave`, or
`ConnectFails`, which may leave an open pool too) skips them. `postTableDef` is read
for the query at `layers/postlayer.go:91` and twice more at 97, which is one step
(`ReadQuery`): what another post puts there in between would mix query and id column,
in requests that overlap, of which `AtHomeIfUndisturbed` says nothing. The statements
of a batch are one place (`exec`), at which the fields may change under it; its end is
`Commit`. The configuration does not change here.

### ConfigReload

A run of the job is `LoadFile`, or `LoadUrl` with the token call (`Issue`,
`CacheToken`, `CacheRefusal`, `NoTokenForNow`) and the attempts at the endpoint
(`Send`, `Serve`, `Receive`, `AttemptFails`), and then `Compare`, the two tests and
assignments at the end of `load`. `Serve` and `Receive` are two steps, as are
`Issue` and `CacheToken`: the source may change, the token may run out or be taken
back while an answer is on its way. `Tick` is time: each call has the timeout that
its client sets (`wait`), a token has what is left of its life and the cache what
is left of the end it recorded. Contents are model values; `Default` is the file
of the resources, `NoData` is JSON without any of the fields, which parses, and
`Garbage` does not. The digest of a content is the content.

## The runs

Deadlock checking is off in every run but `MCConfigReload`: requests are bounded
and end, and an idle service has nothing to do. The reload job goes on for ever.

| Run | Instance | Result |
|---|---|---|
| `MCWriterAlone` | one request, two ids, two recorded times, threshold 2, four writes | holds, 97 thousand states |
| `MCWriterRace` | two requests, two ids, threshold 2, three writes each | holds, 2.2 million states |
| `MCWriterLiveness` | two requests, two ids, two writes each, fair | holds |
| `MCWriterDeleted` | one request, one id, one batch of two | violated |
| `MCFeedOverlap` | two writers, a reader with three requests, limits 0 and 1, five definitions, equal `NOW()` allowed | holds, 2.2 million states |
| `MCConfigUpdate` | five versions, two names, one request | holds, 833 thousand states |
| `MCConfigPanic` | four versions, one name | violated |
| `MCConfigReload` | two usable contents, tokens of two ticks, calls of one, three retries, four faults, two changes, fair | holds, 437 thousand states |
| `MCLegacyTogether` | two configurations, three changes, three requests, two at a time, which are symmetric | holds, 5.3 million states |
| `MCLegacyReverted` | two configurations, one request at a time | violated |
| `MCLegacyRows` | two or three columns of every type, two rows, one reload | holds, 966 thousand states |
| `MCPostTogether` | two datasets, one without config, three requests of up to two batches, two at a time | holds, 3.4 million states |

**MCWriterAlone** asks whether a request by itself is right. Four writes with
threshold 2 give two full batches, a batch left for `Close`, or a failed batch
and calls after it; two recorded times give newer, older and equal versions. The
batch holds the latest update of each entity (`BatchInsertsLatest`), the buffer
stays below the threshold between calls (`BufferBounded`), the rows are what
flushed batches ask for (`AckedIsStored`), no call succeeds after a failure
(`FailureSticks`), and an `INSERT` never meets a row of its own request
(`DuplicateKeyOnlyByRace`).

**MCWriterRace** asks the last three with a second request between any two
statements. `AckedIsStored` is the one that matters: as long as no flush with an
id is in doubt, the row of that id is what the last flushed batch of one of the
requests asks for. It would fail if two batches could mix, if a failed flush
touched rows it does not name, or if an acknowledged deletion were dropped.
Which request wins is not fixed, and the code does not say.

Both runs also check `ImplementsFlushStore`: with every interleaving of the
statements, each flush is seen as its two atomic steps or as none.

**MCWriterLiveness** has two requests that hold rows the other waits for. Under
weak fairness of `FlushStep` every flush ends. The fairness is that of the
server: a lock wait ends with the lock, with deadlock detection or with
`innodb_lock_wait_timeout`, and a statement that can run does run. Clients need
not go on calling, and connections need not break.

**MCFeedOverlap** names what a consumer can rely on. A row sent in full with a
token is not sent again (`NoRedelivery`), although the maximum, and the token
with it, goes down when rows are deleted. A row is missed only if a `LIMIT` cut
it off or if it was not committed when a maximum at or above its value was
taken (`LostOnlyIfCutOrLate`): it was in flight, or it got the same `NOW()`
later. `NoRedelivery` leaves out responses whose `SELECT MAX` was NULL: their token
is the zero time, and a row committed between that and the query of the rows is sent
with it and again with the next token. Three requests let a token rise, fall and rise again; five definitions
give a window, no window, a continued `WHERE`, two `WHERE`s and no mapping.

**MCConfigUpdate** has four updates, each of which may fail at its close or its
open, in any order with one request; requests do not influence each other or the
layer, so one stands for all. A request that was served used the pool and the
later-read definition of one configuration (`ServedByOneConfiguration`). This
rests on three things in the code: the old pool is closed before a definition
changes, an existing dataset gets its definition before its pool, and the pool
is only used after the definition was read. The current pool is the only open one
(`OnePoolOpen`), but for the pool of a failed `Ping`: at most one, as the update after
it ends the process, and out of reach of every dataset and request. Between updates every definition that
can be reached has its properties in lower case (`MapsLowered`): that loop walks
over all datasets at the end and not only over those it has set, and an update
that fails returns before it has set any. A definition that went out of the map
and came back, and one that was updated twice, need more than one update.

**MCConfigReload** shows that the job keeps what it should and gets what it can.
Whatever fails, what is configured between two runs is the last usable content
that was read (`LatestUsable`). The token service and the endpoint share four
faults, which is one more than the retries and so the least with which a whole run
fails by attempts alone, and also enough for a refused token that is cached and
stays cached. A token that has run out is presented for no longer than the calls
made with it may take (`NotLongRunOut`), although its end is counted from the
arrival of the answer and it is looked at once for all attempts. Once the source
stays as it is, the layer comes to it (`BecomesCurrent`). That needs a token that is
asked for again after a refusal, which works because an error has no lifetime.
Fairness: the job runner starts the job again and again and its steps go on
(`JobStep`), and time passes (`Tick`). Faults need not happen and are bounded; a
source that is down for good is beyond any claim.

**MCLegacyRows** has every row after every other one in the same cells.
`SentIsTheRow` says that a row is sent if and only if it has an id, and is made of
itself alone: its id, its deletion, its properties and its references, with the
type of the mapping among them, which takes the place of a reference named
`rdf:type`. A bit column with another value than 0 and 1 is the one exception,
and the models show that it is the only one. `TokenCoversRows` says that a token
means that every row that could be scanned and has an id was sent, unless the
result broke off. Two rows are enough, as a cell remembers only the last value
that was stored in it; one reload gives two bases in one response.

**MCLegacyTogether** shows that the pool and its digest belong together however
two requests replace the pool at once (`PoolFitsDigest`), unless a load came
while one was connecting or a connect failed. A request is answered from the
database of a configuration that was in force while it ran, and its table definition
is of one too (`AnsweredFromOwnDatabase`): whatever another request replaces under it
at any of its steps, and whatever failed connects or simultaneous replacements have
left. Only a load within a replacement can break it, which the code does not prevent.
Unless two requests replace the pool at the same time, the pools that stay open
beside `Repo.DB` are those whose `Ping` failed, and none of these is ever used
(`OnlyFailedPingLeaks`). The third request is one that comes after two that
overlapped. Requests are interchangeable, what one knows is gone when it ends, and
a load that changes nothing is not counted; so the run is finite with any number of
unusable contents.

**MCPostTogether** shows how far the shared repository of the posts goes: a
batch goes astray only if a request ran beside it or an earlier one left its
pool open (`AtHomeIfUndisturbed`), and without overlap no pool is left over but the
one in the repository and those of a failed `Ping` (`OnlyFailedPingLeaks`), and no
closed pool is in the repository (`NoClosedPool`). A request
that comes to its 200 has committed every batch, a dropped `Commit` error apart,
whatever another one did to its pool meanwhile (`OkMeansCommitted`). The fields of
a dataset, once in order with nobody sorting them, are in order for every statement
after that, also of a batch that had begun before (`InOrderOnceSettled`). Three requests are the two that overlap and one
after them.

## Where the code differs from its documentation and tests

Each of these is a run whose property is violated:

* `MCWriterDeleted`: an update and then a deletion of one entity in one batch
  leave the row in the table (`write.go:119`), against
  `common_layer_integration_test.go:174`.
* `MCConfigPanic`: an update that cannot connect stores nil, and the next one
  dereferences it (`config.go:46`), against `config.go:45`.
* `MCLegacyReverted`: the pool is closed before the new connection is known to
  work; if the configuration is taken back, the closed pool stays
  (`layers/layer.go:252`), against `README.md:222-223`.

Others were met while modelling. The models behave this way too, and the
properties above are stated around them:

* an older update in a later batch of the same payload replaces a newer row,
  because versions are compared within a batch only (`write.go:126`,
  `common_layer_integration_test.go:498, 515`);
* when the second text of a flush fails, the log says that the transaction was
  rolled back (`write.go:269`), but the first text's deletions are committed;
* a row whose `INSERT` ran before, and committed after, a maximum above it was
  read is never sent (`write.go:312`, `read.go:67`, `README.md:75-77`);
* the token is the maximum of the column whatever the limit, so rows that a limit
  cut off are never sent (`read.go:242`, `README.md:75-77`);
* when `Ping` fails the pool that `sql.Open` has made is neither used nor closed, in
  all three places that connect (`mysql.go:34`, `layers/layer.go:280`,
  `layers/postlayer.go:66`);
* a post mapping without config section is dereferenced
  (`layers/postlayer.go:54`, `README.md:370`);
* a `data_query` with a `WHERE`, together with a since column and no since table,
  becomes a text with two (`read.go:233`, `README.md:69`);
* a legacy reload between connect and the recording of the digest leaves the old
  database under the new digest for good (`layers/layer.go:259`);
* the legacy continuation token is sent before `rows.Err` is looked at
  (`layers/layer.go:182, 192`);
* a legacy post that ends with an error leaves its pool, and the next post to
  another dataset is written to it (`layers/postlayer.go:83`, `README.md:367`);
* a legacy body that breaks off is answered like one that is complete
  (`web/posthandler.go:76, 97`);
* an error of the token service is cached as a token without characters
  (`security/auth0.go:123`), and a token that the endpoint refuses stays cached
  until it runs out;
* two posts to one dataset may sort its fields at once and lose one of them until
  the next reload (`layers/postlayer.go:116`).

## The proofs

`MysqlWriterProofs` proves six properties of `MysqlWriter` as theorems of
`Spec`, for any set of requests and ids, any threshold, any number of writes and
any clock. They assume only the named assumptions of `MysqlWriter`: recorded
times and clock steps are natural numbers, there is a clock step, the threshold is
an integer, the bound is a natural number, and `Absent` is no entity and no row.

* `TypeCorrect`: `TypeOK`, which is inductive.
* `FailureIsNeverAcked`: `FailureSticks`. It is not inductive: after a failure
  the client may write or close again. `FailureInv` adds why that cannot succeed:
  the transaction is over, and the batch that failed is still at its threshold
  or, from `Close`, the request has ended, so each call runs into another flush.
* `BufferIsBounded`: `BufferBounded`, with what the size is during a flush
  (`BufferInv`). Thresholds of zero and less behave like one.
* `LatestIsInserted`: `BatchInsertsLatest`. `BatchInv` adds the numbering of the
  entities seen, so that a new version is later than every one before it among
  those recorded at the same time; `LatestOfMore` is the one fact about order.
* `DuplicateOnlyByRace`: `DuplicateKeyOnlyByRace`. `CollectedInv` says that the ids
  to delete are exactly those of the batch, and that between the two texts no row
  of these ids is the request's own.
* `AckedIsStoredAlways`: `AckedIsStored`. It is far from inductive: a row may be
  what an earlier batch of another request asked for, a batch may be half flushed,
  and what is in doubt now must have been in doubt for a reason. `StoredInv` says that
  each id is doubtful, for a flush with it has failed or its request is gone, or is
  `Explained`: its row is what the last flushed batch with it of some request asks
  for; or there is none, and no request has flushed the id or one is between the
  two texts that will replace it. Doubt stays, as a batch that failed is never
  emptied (`DoubtStays`, from `FailureInv`). A step that does not mention an id is
  `Neutral` for it (`ExplainedKept`), and the argument is left for the two commits
  (`FlushExplains`), where `BatchInv` gives the row its batch asks for.

A seventh theorem has what `FlushTerminates` rests on. `FlushAdvances`: a flush can
always go on by a step of the server or of `database/sql`, whatever other requests
hold (`CanMove`: a row that is neither free nor inserted is a reason to refuse, and a
request comes to its commit only with an open transaction, `OpenInv`); each of its
own steps, failures included, leaves it fewer (`StepsLeft`, at most the rows of its
batch and three); and no step of another request changes it. What is missing to
`FlushTerminates` is the rule that a fair step that stays possible is taken.

Each invariant is of the form "for every request". The lemma `Frame` says what a
step of one request leaves alone in all the others; so each proof has a lemma
for the request that moves, one step per action, and one line for the rest.

`FlushStoreProofs` proves `FlushStoreImplemented`, that `Spec` of `MysqlWriter`
implies `Spec` of `FlushStore` under the mapping, with the one assumption more
that `Absent` is no content. Steps that write no row map to `Collect`, `End` or a
stutter by the definitions; the argument is needed for the commit of the second
text. `LockInv` says that a request holds stamps only between its texts, that no
two requests hold the same one, and that an id that is stamped has no row in the
table: no other request can put one without the stamp. So the rows of the unit are
free when the commit puts them, and `Fill` is possible.

`ChangeFeedProofs` proves the three invariants that the read path's run checks, for
any number of requests, consumers, ids, writes and reads, any limits, any dataset and
any clock, also one that gives two statements the same time. It assumes that the
datasets to be checked are definitions and the limits natural numbers.

* The rows: `Spent` says that the batch of a row has been committed or never will be.
  `RowsInv` says that every row of the table is spent, and `RowsArrive` that a row that
  a step adds was not: a row that was deleted never comes back, however many
  equal entities are written. Without this neither of the next two holds.
* `FeedTypeCorrect`: `FeedTypeOK`. The token is a time because `SELECT MAX` has an
  answer: since values are bounded by the clock, and a bounded set of numbers
  has a greatest one (`MaxOfBounded`, from the well-foundedness of the numbers).
* `NoRedeliveryAlways`: `NoRedelivery`, with `SettledInv`: of the rows that were sent
  in full, those that are still in the table are at or below the token, and at
  or below the maximum of a request under way. So when deletions take the
  maximum down, they have taken the settled rows above it too.
* `LostOnlyIfCutOrLateAlways`: `LostOnlyIfCutOrLate`, with `LostInv`, which extends it
  to a response on its way: every row its token will pass is in it or excused. A
  row that a writer adds below a token is excused by the snapshot the token comes
  from, which cannot hold a row that was not spent.

`LegacyReadProofs` proves everything that the run of `LegacyRead` checks, for any
number of requests at a time, of reloads and of datasets.

* `TypeCorrect`: `TypeOK`, which is inductive: no step takes a pool away.
* `PoolFitsDigestAlways`: `PoolFitsDigest`, with `PoolInv` and `ConfInv`. The first says
  why the pool is open although one request closes what another has just stored: a
  pool that waits to be stored belongs to one request and is not `Repo.DB`, and who
  closes `Repo.DB` will store the next one. The second says that, without a load in
  between, all pools that are being stored at once are of the present configuration,
  so that it does not matter whose digest is recorded last.
* `OnlyFailedPingLeaksAlways`: `OnlyFailedPingLeaks`, with `OrphanInv`: when requests
  replace the pool one after the other, the old one is closed before the next is
  opened, and of the pools that answered their `Ping` an open one is `Repo.DB` or about
  to become it. That a pool whose `Ping` failed never becomes `Repo.DB` is in `PoolInv`.
* `AnsweredFromOwnDatabaseAlways`: `AnsweredFromOwnDatabase`, with `OwnInv` on top of
  `ConfInv`: what is in force now counts as in force for every request that runs, so a
  request that has compared or recorded a digest finds a pool of such a configuration,
  and so does it after another request has put a new one there. The proof showed that
  failed connects need not be excepted: the pool they leave in `Repo.DB` is closed and
  answers nothing, and the one they leave open is not in `Repo.DB`.

`LegacyPostProofs` proves the six properties that the run of `LegacyPost` checks, for
any set of datasets and of slots and any number of requests and batches.

* `TypeCorrect`: `TypeOK`. It is not inductive, as a batch could be written with a
  query, fields or a pool that are not there, and counted twice. `ReqInv` says, for
  each place in `PostEntities`, what the request has got by then.
* `OkMeansCommittedAlways`: `OkMeansCommitted`. The same `ReqInv` says that inside
  `PostEntities` exactly one batch is under way and outside of it none, unless an
  error was dropped.
* `InOrderOnceSettledAlways`: `InOrderOnceSettled`, with `SettledInv`: fields that
  are settled are in order and nobody sorts them. A request sorts only what it has
  found out of order, so nobody begins to, and what a statement takes is in order.

The other three look at the pools and at who reads the shared definition. Their
proofs need only a part of each action, which `StepKinds` states once: every step
starts a post, ends one, or is one of the `Hops` of a request from one place to the
next with what that does to the repository.

* `OnlyFailedPingLeaksAlways` and `NoClosedPoolAlways`: `OnlyFailedPingLeaks` and
  `NoClosedPool`.
  They speak of the moments when no request runs; `SoleInv` says, with `PoolsFor`,
  what a request that runs alone finds at each place: the repository's pool is open
  unless it is about to be forgotten, and of the others that answered their `Ping`
  none is, but for one that waits to be stored. A request that ends leaves the pools
  as they were or adds one that did not answer (`LeavesPools`). `LeftInv` adds that a pool which no request left belongs to one that has
  still to come to its end.
* `AtHomeIfUndisturbedAlways`: `AtHomeIfUndisturbed`. `HomeInv` says, for each place,
  what an undisturbed request has read by then: the definition in the repository is
  its own from the moment it has set it, then its query, then its fields, and every
  pool unless an earlier request left one.

`LegacyRowsProofs` proves the three invariants of `LegacyRows`, for results with any
number of columns and rows, any table mapping and any number of reloads. It assumes
what `LegacyRows` says of its constants: the results are sequences of columns, the
mappings map names to column mappings, and an id is not null.

* The loop of `toEntity`: `EntityUpToIs` shows that its recursive function exists and
  obeys its definition, and `AllMapped` what the entity is after each column. An
  induction rule for an arbitrary predicate is not at hand, so both take the least
  number of columns for which the statement fails (`LeastOf`, from the
  well-foundedness of the numbers) and show that it does not.
* `MappedUpTo` says what the entity is after the first n columns: the id is the last
  text that makes one, a name has the value of its last column (`LastOf`), a deletion
  is one if any operation column says so. `OneMapped` is its step.
* `TypeCorrect`: `TypeOK`, `SentIsTheRowAlways`: `SentIsTheRow`, `TokenCoversRowsAlways`:
  `TokenCoversRows`, together as `RowsInv`. `ResponseInv` says that between scanning
  and mapping the cells hold the row that was scanned, whatever failed scans left in
  them before (`CellsHold`), and that what was sent then lacks at most this row.

`ConfigReloadProofs` proves three of `ConfigReload`, for every lifetime, timeout
and number of attempts and any set of contents. It assumes that `NoData`,
`Garbage`, `Nothing` and the refusal are no usable contents and differ.

* `TypeCorrect`: `TypeOK`.
* `LatestUsableAlways`: `LatestUsable`, with `CurrentInv`: the digest is that of the
  last usable content except between reading and comparing one.
* `NotLongRunOutAlways`: `NotLongRunOut`, with `TokenInv`, which has a bound for
  each place: the answer on its way has lost what its timeout has, a cached token
  outlives its recorded end but for the timeout of the token service, and the
  token of a request but for that and the attempts so far (`Slack`).

`DatalayerConfigProofs` proves all the invariants of `DatalayerConfig` that its
runs check, for any number of datasets, requests and configurations (at least one
of the first and the last). `LayerInv` says what each loop may visit and that the
loops have the new pool.

* `TypeCorrect`: `TypeOK`, with `ReadInv`: a request past its lookup has a Dataset
  with a definition and a pool, so what it reads is never nil.
* `OnePoolOpenAlways`: `OnePoolOpen`, with `PoolInv`: between the closing of a pool
  and the opening of the next none is open; and with `HolderInv`: nobody is ahead of the
  last configuration, and nobody has its pool before it is the current one, so the pool
  of a failed `Ping` is out of reach.
* `ServedByOneConfigurationAlways`: `ServedByOneConfiguration`. The notion that
  makes it inductive is `Fresh`: the number k is fresh when no pool older than k is
  open, and none will be again. A definition is fresh when it is assigned, and a
  Dataset never has a pool newer than its definition (`VersionInv`); so each late
  definition is fresh and at least the pool, and a pool that still serves is the
  newest of them all.
* `UpdateIsCompleteAlways`: `UpdateIsComplete`, with `LoopInv`: what the loops that
  have ended, and the part of the running one, have established.
* `MapsLoweredAlways`: `MapsLowered`, with `LowerInv`: a definition that is in use,
  or was read, is lowered, or is of the current update and the last loop has still to
  visit its name (`Settled`). The loop that removes datasets takes no such name away.

Every invariant and every action property of the runs that hold is proved, and so is
the refinement. Not proved, only model-checked: the liveness properties
`FlushTerminates` and `BecomesCurrent`, as the proof system has no rules for fairness
and `ENABLED` here; of the first, `FlushAdvances` is the part without fairness. The properties of the three runs that are violated are false.

## Not modelled

* `sqlVal`, `RowItem` and the `toEntity` of the current layer: conversion of single
  values between JSON, Go and MySQL. What they do depends on the driver and the
  server, whose code is not here; mapping a row succeeds or fails in the models.
* `EnrichConfig`: rewrites a configuration before anybody else sees it.
  `DatasetDescriptions`, `listDatasetsHandler`: only read.
* `ensureConnection` of the posts: it runs once, before any configuration is
  loaded, and does nothing then.
* a reload of the legacy configuration beside posts: `LegacyRead` has it beside
  reads.
* web server, middlewares, environment, logging, metrics, start-up: wiring and
  I/O. That a panic ends only its request (`recover.go`) is assumed.
* the connections of a pool: an abandoned transaction keeps one.
* the `WHERE` of a `data_query`: one that is continued with `AND` after an `OR`
  selects other rows than it did; a data query selects all rows here.

## The plan

The write path came first, as every other part depends on what it leaves in the
table; then the read path on the same table, the configuration, the two legacy
paths, the refinement, the reload job and the legacy rows; then the proofs. Next:

1. Posts beside a reload: the pool of one configuration with the query of another.
2. What `BecomesCurrent` rests on and a proof can reach: that each run of the reload
   job takes only so many steps and so much time, as `FlushAdvances` says of a flush.
