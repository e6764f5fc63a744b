# Ghostferry: specifications, model checking and proofs

Ghostferry moves tables from one MySQL server to another while the source is in
use. Rows are copied in batches, in the order of their primary keys; changes are
taken from the source's binlog and replayed on the target; at the cutover the
source takes no more writes, the rest of the log is replayed, and the
application goes over to the target. This directory holds TLA+ modules of the
parts of the program that run at the same time, TLC runs on small instances, and
proofs that TLAPS checks for every size.

## The system

| part | source | what it does |
|---|---|---|
| `Ferry` | `ferry.go` | starts the goroutines, leads through the states to the cutover |
| `BinlogStreamer` | `binlog_streamer.go` | reads the log, calls its listeners with row changes, stops at a position |
| `BinlogWriter` | `binlog_writer.go`, `dml_events.go` | buffers changes and replays them in transactions, with retries |
| `DataIterator`, `Cursor`, `BatchWriter` | `data_iterator.go`, `cursor.go`, `batch_writer.go` | read batches under row locks and insert them, with retries |
| `WorkerPool` | `utils.go` | hands indices to workers, collects errors and results |
| `ChecksumTableVerifier` | `verifier.go` | `CHECKSUM TABLE` on both sides, in the background |
| `IterativeVerifier` | `iterative_verifier.go` | compares rows before the cutover, and what changed or differed again during it |
| `ControlServer` | `control_server.go` | cutover, pause and verify requests of the operator |
| error handlers | `error_handler.go`, `sharding/error_handler.go` | post the error callback, dump the state and panic |
| throttlers | `throttler.go` | pause, or wait for replication lag |
| replica wait | `wait_until_replica_is_caught_up_to_master.go` | for runs that read from a replica |
| `copydb`, `sharding` | `copydb/`, `sharding/` | the two programs built on `Ferry`: whole databases, and one tenant's rows |
| sharding filters | `sharding/filter.go` | the rows of a tenant in a batch, the changes that are replayed |
| HTTP callbacks | `sharding/http_callback.go` | lock and unlock the tenant, report an error |
| the rest | `config.go`, `filter.go`, `status.go`, `metrics.go`, ... | configuration, filters, reporting |

The goroutines meet in a few places: the streamer sends to the writer's buffer
(and blocks when it is full), the iterator's done listener and the caller meet
on `rowCopyCompleteCh`, the caller tells the streamer where to stop through two
fields, and all of them meet in the databases, where row locks and transactions
decide the order.

## Modules

| module | models | state |
|---|---|---|
| `Databases` | source, binlog and target (external), the effect of a statement | `versions`, `binlog`, `committed`, `writesStopped`, `target` |
| `BinlogStreamer` | `binlog_streamer.go` | `streamer`, `sent`, `pos`, `targetPos`, `stopRequested` |
| `BinlogWriter` | `binlog_writer.go`, the statements of `dml_events.go` | `writer`, `taken`, `applied`, `exec`, `attempt`, `undo` |
| `DataIterator` | `data_iterator.go`, `cursor.go`, `batch_writer.go` | per table `cursor`, `maxPk`, `lastPk`, `pkPos`, `copyAttempt`; `fetched` rows |
| `Ferry` | `ferry.go` with the three above, the callers in `copydb.go` and `sharding.go` | `phase`, `caller`, `automaticCutover`, `restarts` |
| `DataMove` | what a run promises (abstract) | `history`, `now`, `copy`, `floor`, `pending`, `status` |
| `FerryMovedRows` | the ferry, with an application that changes primary keys | as `Ferry` |
| `WorkerPool` | `utils.go`, `WorkerPool.Run` | `main`, `next`, `worker`, `item`, `results`, `errCh`, `err` |
| `ChecksumTableVerifier` | `verifier.go` | the requests past the check, the fields of the verifier, one goroutine per accepted start |
| `IterativeVerifier` | `iterative_verifier.go`, with streamer and writer | `stage`, `store`, `scan`, `jobs`, `todo`, ... |
| `CopydbVerification` | the same verifier as `copydb.go` uses it | adds the `WaitGroup` |
| `ShardedTables` | `sharding/filter.go` over the tables of a shard | none: operators on contents |
| `LagThrottler` | `throttler.go` | `lagging`, `disabled` |
| `FatalErrors` | both error handlers | per goroutine `handling`; `errorCount`, `dead` |
| `SourceReplication` | master, application and replication (external), `wait_until_replica_is_caught_up_to_master.go` | `history`, `replicated`, `sourceIsReplica`, `cutover`, `masterPos` |
| `ShardingFerry` | `sharding/sharding.go`, composed with the four above | `main`, `streamed`, `stopPos`, `ferryDone`, cursors, `store`, `verdict`, `target`, ... |
| `TenantMove` | what a sharding run promises (abstract) | `current`, `past`, `rows`, `shared`, `home` |
| `ShardingMove` | `ShardingFerry` mapped to `TenantMove` | as `ShardingFerry` |
| `MCFerry`, `MCVerifier`, `MCSharding` | symmetry and initial contents for TLC | |
| `FerryProofs`, `FerrySafetyProofs`, `WorkerPoolProofs`, `ChecksumProofs`, `VerifierProofs`, `ShardingFerryProofs`, `ShardingExactProofs`, `ShardingMoveProofs` | theorems | |

`PROJECT.json` maps every definition to the lines it stands for.

How the main abstractions are made:

- **Databases.** `versions[i]` is the content of the source after the first `i`
  changes; `binlog[i]` is the i-th change. A position in the log is its index.
  Row locks of the cursor's transaction (`SELECT ... FOR UPDATE`) keep the
  application from changing a row, and the cursor waits for open changes of the
  rows it goes over; locks of the writer's transaction on the
  target hold up an `INSERT IGNORE`. A transaction of the application may have
  several changes, which reach the streamer only when it is committed. Entries
  without a row (`Other`) stand for the events the streamer only takes the
  position of.
- **Statements.** `INSERT IGNORE` has an effect if there is no row; `UPDATE` and
  `DELETE` if the row is what it was on the source before, as their `WHERE`
  names every old value.
- **Retries.** An attempt of the writer executes its statements one by one. It
  can fail before the COMMIT (the statements are undone) or after it (they stay,
  and the batch is executed again). The insert of a batch can take effect
  without an acknowledgement, too.
- **Fatal errors.** They may come at any moment; memory is lost, locks are
  released, and the open transaction is undone or was just committed. A new run
  starts on an emptied target.
- **Cursor.** The row locks are held from the read to the acknowledgement.
- **Operator.** `HandleCutover` sets or clears `AutomaticCutover` at any time until
  the cutover has begun; a configuration that has it set is a run in which that
  request comes first.
- **Verifier.** A fingerprint is the row. The two sides of a comparison are read
  in separate steps. The target is arbitrary at the start: that is what there is
  to find. The writer retries as in `Ferry`. The listener is added while the
  streamer may have an event in hand: the loop over the listeners has begun
  without the new one, so that this event never reaches the verifier. (The append
  to the slice of listeners itself is taken as one step.) A writer that has used
  up its retries ends the process, and with it the verification.
- **Sharding run.** What `Ferry` and `IterativeVerifier` show step by step is
  taken in larger steps: a batch is written in the step that reads it (its rows
  stay locked in between, `BatchIsCurrent`), and a change is replayed in the step
  that takes it from the log. In return the tables have their three kinds (join
  tables, a joined table, a primary key table), the source may be a replica, the
  throttler may hold back every write, and each goroutine (`main`, `streamer`,
  `iterator`, `throttler`) may call `Fatal` while the others go on. Of the
  verification the joined table is modelled: the streamer does not follow it, so
  its rows are compared only if the scan found a difference.
- **Fatal errors of a sharding run.** `Fatal` is three steps: the callback is
  posted, the error is counted, and the goroutine that was first panics. For the
  others `Fatal` returns; `AfterError` says where `Run` goes on. A lost answer to
  a callback leaves the tenant locked or not, unlocked or not.
- **Application of a sharding run.** It keeps to what the comments of `filter.go`
  ask for: joined rows are immutable, are written with the first reference to
  them and deleted with the last. Rows may change their tenant, or have NULL for
  it: the filter has to see to that.

Operators marked `Slip:` are variants of the definition that follows, with a
plausible mistake in it. No specification uses them; they serve to show that
each property notices such a mistake.

## Runs

| run | shows | instance |
|---|---|---|
| `ferry_safety` | type invariant, inductive invariant, `RowsTrackHistory`, `BatchIsCurrent`, `StopPointCoversLog`, `CutoverConsistent` | one table, 2 keys, 2 values (symmetric), log of 2, batches of 1 row and 2 changes, 2 attempts; 920,764 states |
| `ferry_run` | `WaitsAreServed`, `RunEnds`, `LocksAreReleased`, and that the ferry implements `DataMove` | one table of 2 keys in batches of one row, log of 2, one restart; 124,450 states |
| `ferry_moved_row` | **violation**: a changed primary key can lose a row | 3 keys, one change |
| `worker_pool` | `ErrorTellsOutcome`, `ResultsTellOutcome`, `NoIndexTwice`, `NobodyBlocks`, `EveryStepCounts`, `PoolReturns`, the invariant | 3 workers, 4 items; 10,690 states |
| `checksum_verifier` | `CorrectIsTrue`, `StartedIsDone` | 2 tables, 3 accepted starts; 608,728 states |
| `checksum_restarted` | **violation**: done without the result | 1 table, 3 starts |
| `iterative_verifier` | `DifferencesAreTracked`, `ResultIsRight` | 2 rows, 2 values (symmetric), 2 changes, 2 attempts of the writer, one comparison at a time, nothing after the end, told apart by `WhatMatters`; 1,509,514 states |
| `verification_ends` | the verifier's type invariant, `VerificationEnds` | 2 rows, one value, 2 changes, 2 attempts, 2 comparisons at a time; 554,486 states |
| `copydb_ignores_error` | **violation**: "correct" after an error | 2 rows |
| `copydb_wait` | **violation**: `Done` is called twice | 2 rows |
| `sharding` | `NoErrorIsPassed`, `SourceIsCurrent`, `MovedIsComplete`, `MovedIsExact`, `OnlyTheTenantIsCopied`, `LockedRunGoesOn`, `LockIsReleased`, the type invariant, and that the run implements `TenantMove` | 2 join tables of one row, 2 joined rows, 2 tenants, batches of one row, one transaction, 2 calls of `Fatal`; 234,025 states |
| `sharding_false_alarm` | **violation**: a row that is no longer the tenant's fails the verification | 1 join table, 2 transactions, 1 call of `Fatal` |

The bounds are `MaxLog` (changes), `MaxRestarts` (new runs), `MaxStarts`
(accepted starts of the checksum verifier) and `MaxIterations` (30 in the code);
`SmallEnough` is 1000 in the code. `MaxChanges` (transactions of the
application) and `MaxFatals` (calls of `Fatal`) bound the sharding run: a second
call is what it takes for `Fatal` to return to a goroutine while another is about
to panic, and one transaction can come before, between and after the copy, the
scan, the lock and the replication. Two changes are enough for a row to be
changed before and after its copy, for a transaction of several rows and for a
batch of the writer that is interrupted between two statements; two keys and
batches of one row are enough for a row before and one behind the cursor, and
for rows beyond the maximum key that was read first. The verifier needs two
values: with one, replaying a change makes any row equal, and nothing depends on
the listener. `Unfinished` leaves out what comes after the end of a verification,
or after its first error: the process has gone, nothing changes any more, or all
that is left is to return the error. `WhatMatters` is the view TLC tells the states of
`iterative_verifier` apart by: it leaves out the part of the log that nobody reads
again and counters that are set anew before they are used. For what is proved, the bounds
do not matter.

### Fairness

Goroutines that can take a step take one in the end (weak fairness for the
streamer, the writer, each table's cursor, the caller, the pool's workers, the
verifiers). An application does not leave a transaction open forever. The source
takes no more writes once the caller has come to the flush, and the `CutoverLock`
callback returns. sharding waits for that callback. copydb waits for nothing: it
calls `FlushBinlogAndStopStreaming` as soon as the streamer is almost caught up,
and that the source is read-only by then is what `ferry.go` and the tutorial
demand of the operator. `FlushReadsPosition` has this contract as its guard; a
source that is still written to at the flush is outside the model, and
`CutoverConsistent` does not hold for it. Nothing is assumed of errors and
retries, of new runs, or of when the operator asks for the cutover: `RunEnds` is
stated for runs in which `AutomaticCutover` is left set in the end, and a run
that hangs at any step, before the wait for the cutover too, violates it. Queries
return or fail.

For the sharding run one weak fairness condition is enough, on all goroutines
together and replication (`Progress`): as long as one of them can take a step,
one is taken. The Go scheduler gives each goroutine more than that. The lag may
stay above its limit for ever; nothing is assumed of the throttler, of failures
or of the application. A callback is answered, or fails.

## Proofs

`FerryProofs` proves `TypeCorrect`: `Spec => []TypeOK`, action by action.

`FerrySafetyProofs` proves `Invariance`: `Spec => []FerryInv`, and from it
`RowsStayOnTrack`, `BatchesStayCurrent`, `StreamerStopsBehindLog` and
`FerryIsCorrect` (`CutoverConsistent`). The argument: let `exec` be the number of
changes the writer has executed. Each row on the target is either what it was on
the source at some position not before `exec`, or it is absent and its copy is
still to come (`RowsTrackHistory`).

- *A copied row* is what the source holds now (`BatchLocks`), the last position.
- *An executed change* of a row takes it from its old to its new value. If the
  row on the target is the old value, it becomes the new one. If it is not, the
  row is as of a later position, or absent, and the statement has no effect that
  takes it off its track. `LogMatchesVersions` ties the log to the versions.
- *An undone or repeated batch* goes back to rows that are on track for the
  start of the batch (`UndoTracksHistory`).
- *At the end*, no change is left (`Stopping`: the position to stop at is read
  after the writes have stopped, the streamer passes it, the writer empties the
  buffer), and every cursor is done (`Phases`), so that a row is what it was at
  a position without changes after it (`UnloggedRowsAreStable`): the source's.

`CutoverConsistent` is not inductive on its own: it says nothing before the end.
`RowsTrackHistory` is not either, since it needs the locks, the undo record and
the log to be what the other conjuncts say. `FerryInv` is an invariant of the run
`ferry_safety`.

It also proves `FerryImplementsDataMove`: with the mapping `Abstract` in `Ferry`,
the initial states are initial states of `DataMove`, and every step of the ferry
is a step of it or leaves its variables unchanged.

Its last theorem is `WaitsAreAlwaysServed` (`WaitsAreServed`). Three goroutines
wait for others: the streamer for room in the buffer, a worker for rows that the
writer's transaction has locked, the caller for the end of streamer and writer.
Each of them waits for one that can go on. `StreamerCanGoOn` and `WriterCanGoOn`
write out when that is so, as ENABLED is out of the prover's reach; compared with
ENABLED on the instance of `ferry_run`, the writer's is the same and the
streamer's is never true of a streamer that cannot move. The invariant is
`FerryInv` with `WaitInv`: the log ends with the end of a transaction (else the
streamer, which counts positions at the end of transactions only, would wait for
the rest of one), a batch is never larger than its limit, and the caller waits
only when the stop is requested. The target refuses no statement of the writer,
as no change of this application moves a row to another key (`LogMatchesVersions`).

`WorkerPoolProofs` proves `PoolInvariance` and from it `PoolTypeCorrect`,
`PoolIsHonest` and `ResultsAreHonest`: while indices are handed out the channel
holds the errors in the order they were sent, and an error that stops the hand-out
is the first of them; after it, if nothing stopped it, the last error in the
channel is the last that was sent (`ErrorsTravel`, `LastIsLast`). Each index that
was handed out is in hand, processed or failed (`IndicesAccounted`); a worker that
failed does not work again, so its last result is the failure (`PoolPhases`).

`WorkerPoolProofs` also proves `NoIndexIsProcessedTwice`, and `NobodyEverBlocks`
(`NobodyBlocks`): a worker that has not returned finds room in the channel of
errors, since the channel has one place per worker and holds at most one value of
each worker that has returned (`ChannelFits`); and when all workers have gone
while indices are left, it was with errors, one of which is in the channel.
`EveryStepAlwaysCounts` (`EveryStepCounts`) adds that each step decreases
`StepsLeft`, a count of the indices left, the workers by state, the values in the
channel and the way `Run` has to go, which starts at
`2 * (Items + Concurrency + 1)`. Together the two are what termination rests on,
for any number of workers and items; the step from there to `PoolReturns` needs
fairness and stays with TLC.

`ChecksumProofs` proves `ChecksumTypeCorrect` and `CorrectIsAlwaysTrue` from
`ChecksumInv`: the tables a goroutine is done with are equal, a goroutine with
"correct" in hand is done with all of them, and a result that is stored is one
that some goroutine had in hand. How many requests passed the check together does
not matter.

`VerifierProofs` proves `VerificationTypeCorrect`, `DifferencesAreAlwaysTracked` and
`ResultIsAlwaysRight`, for an arbitrary target at the start. A row is *on its way*
if the target has it as the source had it at a position the replay has not passed
(`OnItsWay`), and *noted* if it is in the store or its change has yet to reach the
listener (`Noted`). The argument:

- *A row stays on its way.* A change that is executed finds the row as it was
  before, or the row is as of a later position. An attempt that is undone, or
  executed again after a COMMIT whose answer was lost, goes back to the positions
  of its start: a row it has touched was on its way then, or none of its
  statements had an effect on it (`LockedRowsInv`, with `LogInv` for the log). `LogInv` says
  that each entry is a transaction of its own: the application of
  `IterativeVerifier` changes one row at a time.
- *A comparison is good, or the row is noted.* The two fingerprints are read at
  different times, in either order. If the source's is read first and the row
  changes after it, the listener puts the row into the store again; so a row that
  is not noted has the fingerprint that was read. If the target's is read first
  and it is the one the source has, the row is on its way (`JobsInv`).
- *The scan passes no row.* A row in scope that a batch went over without reading
  it was not there when the batch was read, and is noted since (`ScanInv`).
- *At the end* (`RunInv`, `CutoverInv`) all changes are replayed and notified. A
  row that is on its way is then the source's, and nothing is noted but what is
  in the store, which the cutover verification compares.

Neither property is inductive: `ResultIsRight` says nothing before the end, and
`DifferencesAreTracked` does not say what a comparison that has begun knows. The
scan and the reverification are only correct together with the listener, which is
why the invariant speaks of the streamer's and the writer's positions.

`ShardingFerryProofs` proves, for all tables, keys, tenants, batch sizes and
numbers of transactions and errors, `ShardingTypeCorrect`, `NoErrorIsEverPassed`,
`SourceIsAlwaysCurrent`, `MovedIsAlwaysComplete` and `OnlyTheTenantIsEverCopied`.
The inductive invariant is the conjunction of the type invariant and

- `ErrorsInv`: as soon as an error is counted, some goroutine is about to panic.
  `copyWG.Wait` returns only when streamer and throttler have ended, so that from
  the delta copy on this is the main one, or the iterator it waits for;
- `LockInv`: which steps come with the lock, the connection to the master and the
  positions read so far, as long as no error is counted. This is why an error
  before the lock cannot lead past it: the goroutine that would panic keeps
  `Ferry.Run` from returning, or `Run` itself is that goroutine;
- `DeltaInv`: while the delta copy goes on, every joined row up to the cursor's
  position is on the target, and afterwards all of them are; likewise for the
  primary key table, where `VerifyOnce` catches a stale row.

None of the properties is inductive: each speaks of the cutover, and what makes
it true happens before. `ShardingExactProofs` proves `MovedIsAlwaysExact` with two
more invariants. `RowsInv`: as long as no error is counted, each row of a join
table on the target is the tenant's version of it at a position of the log not
before `streamed`, or it is absent and a cursor has it still before it. `StopInv`:
the position to stop at, once it is read, is the end of the master's log,
`Ferry.Run` returns without an error only when it is reached, and from the delta
copy on the sharded rows have arrived. It is the argument of
`RowsTrackHistory`, with a filter: a row that leaves or joins the tenant by an
update is an error, so what is left are rows that are inserted, updated or
deleted within it.

`ShardingMoveProofs` proves `ShardingImplementsTenantMove`: a sharding run is a
move as `TenantMove` has it, with the mapping `Tenant` in `ShardingMove`. The
tenant is at home on the source, on neither server, or on the target, as the
callbacks have said. Its rows are those of the join tables and its row of the
primary key table; the joined rows it refers to may be shared. The argument, step
by step:

- *A batch or a replayed change* (`BatchRefines`, `ReplayRefines`) brings to the
  target only what the tenant had on the source at some time (`ViewRows`), and
  only while the target is not its home (`ArrivalRefines`). No invariant on the
  rows is needed for this: the filters see to it.
- *The lock* (`LockRefines`) comes once. Before the callback the tenant is open,
  even after errors that `Fatal` returned from (`HomeInv`).
- *The unlock* (`UnlockRefines`) finds all rows, since at that step `StopInv` and
  `DeltaInv` say that the sharded rows, the joined rows and the row of the primary
  key table have arrived, and a lost answer changes none of them.
- *Everything else* changes nothing the abstract move knows of (`Unseen`).

`TenantMove` has no errors. A run that fails simply takes no more of its steps;
that it takes no wrong one on the way to the panic is part of the theorem.

The same module proves `LockedRunAlwaysGoesOn` (`LockedRunGoesOn`): while the
tenant is locked and the process lives, somebody can go on. `CanGoOn` lists who:
`Run` at a step that does not wait, or whose wait is over; the streamer; the
iterator; a call of `Fatal`; replication (on the instance of `sharding`, it is never
true of a locked run where `Progress` is not enabled). The proof goes through the places where
`Run` waits. For the replica: all that is on the master has been replicated, or
replication goes on. For `Ferry.Run`: the streamer was told where to stop, which
it reaches because the throttler is disabled (`HomeInv`), or an error is counted
and a goroutine is about to panic (`ErrorsInv`). For an iterator: a table is read
or copied, unthrottled again. It is the safety part of `LockIsReleased`, for all
sizes; that the steps lead to an end is for TLC.

The assumptions are those of the modules that declare the constants: keys and
tenants are finite sets of positive numbers, batch sizes, concurrency and
attempts are positive, bounds are natural numbers (`MaxFatals` a positive one, so
that an error can be reported at all), the contents a sharding run
starts from are well-formed, and the sharded tables of its target are empty. For
the iterative verifier the tables are finitely many.

Only model-checked: all liveness (out of the prover's reach, as is ENABLED), the
use copydb makes of the iterative verifier, and the disagreements 1 to 5 below.

## Disagreements between the code and its documentation

1. **Changed primary keys** (`ferry_moved_row`). An UPDATE that moves a row is
   replayed as one UPDATE. If the old row was not on the target, the statement
   does nothing; if the new key is where the cursor does not go any more, the
   row is never written. `copydb.go` says that source and target "should be
   identical" after the streaming. `Ferry` itself has an application that does
   not change keys: its theorems are about such runs.
2. **Restarted checksum verification** (`checksum_restarted`). Two requests that
   pass the check together, or three quick ones in a row, can leave a verification done, without an error, with the zero result, for
   equal tables. (The same overlap can make the `WaitGroup` negative: the model
   has the panic.)
3. **Dropped error** (`copydb_ignores_error`). `DataIterator.Run` ignores what its
   done listeners return, so copydb goes on after a failed verification, and the
   cutover verification can say that all is well.
4. **Done twice** (`copydb_wait`). The goroutine of
   `IterativeVerifier.StartInBackground` calls `Done` in two deferred functions
   after one `Add`: the process panics when the verification finishes.
5. **False alarm** (`sharding_false_alarm`). A joined row the tenant comes to refer
   to after the row copy is put into the store by the scan. If the reference is
   gone before the lock, the delta copy leaves the row out, and the cutover
   verification, which compares all that is in the store, aborts the run with the
   tenant locked. `verifiers.rst` says that after a failure "the source and target
   are not identical"; the tenant's data are.
6. **Which error a pool returns** (`worker_pool`). `utils.go` says of
   `WorkerPool.Run` that it "Returns the first error that occurs during the run".
   It does if indices are left when the error arrives. If all have been handed out,
   the loop at the end keeps the last error of the channel. `ErrorTellsOutcome`
   states what the code does, case by case; callers only ask whether there was an
   error.

## Not modelled

- The source dropping the cursor's transaction while a batch is written: the
  result of the rollback is ignored, and the locks `BatchIsCurrent` rests on would
  be gone.
- A sharding run with several joined or primary key tables, or without any: the
  tables of a kind are treated alike. Its sharded tables are not part of the scan
  in `ShardingFerry`; `IterativeVerifier` models the scan of tables that are
  streamed.
- A worker of the iterator that ends with an error while the others go on: all end
  together in `ShardingFerry`. With one worker the queue of tables may block
  instead; the process then lives until the first error's panic. `LockedRunGoesOn`
  and `LockIsReleased` do not cover that case.
- A run of copydb, or the sharded tables of a sharding run, on a target that is not
  empty: nothing checks for it, and `INSERT IGNORE` keeps what is there.
- Pausing by the operator, which delays steps that may be delayed anyway. copydb
  does not disable the throttler at the cutover, so a pause lasts through it; the
  properties of the lock are about the sharding run, which does.
- A cutover verification that is started while events still come.
- The stores of one request in `StartInBackground` are one step, apart from the
  check before them; the goroutines' stores are steps of their own.
- Rows that are only on the target and do not change while the verifier listens:
  neither the scan nor the listener looks at them (`InScope`).
- Quoting, escaping and types of values, and the SQL expression of a fingerprint;
  names of tables and rewrites; index hints; the cache of prepared statements;
  comparison of the names of binlog files.
- Configuration, filters by name, loading of schemas, status pages, metrics,
  HTTP servers: sequential code without state that another part depends on while
  it changes. Tests reach it.
