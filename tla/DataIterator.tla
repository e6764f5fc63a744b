---------------------------- MODULE DataIterator ----------------------------
(***************************************************************************)
(* data_iterator.go, cursor.go and batch_writer.go: the workers that copy  *)
(* every table in batches of ascending primary key.  Each batch is read    *)
(* with SELECT ... FOR UPDATE and the row locks are kept until the batch   *)
(* is on the target.                                                       *)
(*                                                                         *)
(* A table belongs to one worker at a time, so a table carries the state   *)
(* of the cursor that iterates it.  `fetched' holds the rows read but not  *)
(* yet acknowledged by the target, for all tables together.  Gap locks,    *)
(* which depend on the isolation level, are left out: the application may  *)
(* insert next to the locked rows.                                         *)
(***************************************************************************)
EXTENDS Databases

CONSTANTS IterationBatchSize,   \* CursorConfig.BatchSize
          Concurrency,          \* number of workers
          CopyRetries           \* attempts at writing one row batch

ASSUME DataIteratorAssumption ==
    /\ IterationBatchSize \in Nat \ {0}
    /\ Concurrency \in Nat \ {0}
    /\ CopyRetries \in Nat \ {0}

VARIABLES cursor,       \* per table: "unread", "queued", "idle", "holding", "done"
          maxPk,        \* per table: MaxPrimaryKey, 0 as long as it is not read
          lastPk,       \* per table: lastSuccessfulPrimaryKey
          pkPos,        \* per table: primary key of the last row fetched
          fetched,      \* the rows of the batches in flight
          copyAttempt   \* per table: number of the attempt at writing the batch

iteratorVars == <<cursor, maxPk, lastPk, pkPos, fetched, copyAttempt>>

NothingFetched == [r \in RowIds |-> NoRow]

IteratorInit ==
    /\ cursor = [t \in Tables |-> "unread"]
    /\ maxPk = [t \in Tables |-> 0]
    /\ lastPk = [t \in Tables |-> 0]
    /\ pkPos = [t \in Tables |-> 0]
    /\ fetched = NothingFetched
    /\ copyAttempt = [t \in Tables |-> 1]

\* A row read FOR UPDATE cannot be changed until the transaction ends.
RowLocked(r) == fetched[r] # NoRow

----------------------------------------------------------------------------

(***************************************************************************)
(* MaxPrimaryKeys, one query per table.  A table without rows is marked    *)
(* completed at once.                                                      *)
(***************************************************************************)
ReadMaxPrimaryKey(t) ==
    LET rows == RowsAfter(CommittedSource, t, 0) IN
    /\ cursor[t] = "unread"
    /\ \/ /\ rows = {}
          /\ cursor' = [cursor EXCEPT ![t] = "done"]
          /\ UNCHANGED maxPk
       \/ \E r \in rows :
             /\ \A q \in rows : Pk(q) <= Pk(r)
             /\ cursor' = [cursor EXCEPT ![t] = "queued"]
             /\ maxPk' = [maxPk EXCEPT ![t] = Pk(r)]
    /\ UNCHANGED <<lastPk, pkPos, fetched, copyAttempt, target>>

\* A worker receives the table from the queue and creates its cursor.
WorkerTakesTable(t) ==
    /\ \A u \in Tables : cursor[u] # "unread"
    /\ cursor[t] = "queued"
    /\ Cardinality({u \in Tables : cursor[u] \in {"idle", "holding"}}) < Concurrency
    /\ cursor' = [cursor EXCEPT ![t] = "idle"]
    /\ UNCHANGED <<maxPk, lastPk, pkPos, fetched, copyAttempt, target>>

\* The condition of the loop of Each.
MoreToCopy(t) == lastPk[t] < maxPk[t]

\* Slip: SELECT without FOR UPDATE, which does not wait for open transactions.
FetchWithoutLock(t) ==
    LET rows == RowsAfter(CommittedSource, t, lastPk[t])
        batch == FirstRows(rows, IterationBatchSize) IN
    /\ cursor[t] = "idle"
    /\ MoreToCopy(t)
    /\ \/ /\ rows = {}
          /\ cursor' = [cursor EXCEPT ![t] = "done"]
          /\ UNCHANGED <<pkPos, fetched, copyAttempt>>
       \/ \E last \in batch :
             /\ \A r \in batch : Pk(r) <= Pk(last)
             /\ cursor' = [cursor EXCEPT ![t] = "holding"]
             /\ pkPos' = [pkPos EXCEPT ![t] = Pk(last)]
             /\ fetched' = [r \in RowIds |-> IF r \in batch THEN CommittedSource[r] ELSE fetched[r]]
             /\ copyAttempt' = [copyAttempt EXCEPT ![t] = 1]
    /\ UNCHANGED <<maxPk, lastPk, target>>

\* The rows, there or not, that the select goes over to find the batch.
Scanned(t, batch) ==
    {r \in RowIds : /\ TableOf(r) = t /\ Pk(r) > lastPk[t]
                    /\ \/ Cardinality(batch) < IterationBatchSize
                       \/ \E q \in batch : Pk(r) <= Pk(q)}

(***************************************************************************)
(* Fetch: the next batch is selected and locked, waiting for a transaction *)
(* in progress that changed one of the rows it goes over.  The select has  *)
(* no upper bound.  An empty result ends the iteration.                    *)
(***************************************************************************)
Fetch(t) ==
    LET rows == RowsAfter(Source, t, lastPk[t])
        batch == FirstRows(rows, IterationBatchSize) IN
    /\ cursor[t] = "idle"
    /\ MoreToCopy(t)
    /\ \A i \in committed + 1..Len(binlog) : binlog[i].row \notin Scanned(t, batch)
    /\ \/ /\ rows = {}
          /\ cursor' = [cursor EXCEPT ![t] = "done"]
          /\ UNCHANGED <<pkPos, fetched, copyAttempt>>
       \/ \E last \in batch :
             /\ \A r \in batch : Pk(r) <= Pk(last)
             /\ cursor' = [cursor EXCEPT ![t] = "holding"]
             /\ pkPos' = [pkPos EXCEPT ![t] = Pk(last)]
             /\ fetched' = [r \in RowIds |-> IF r \in batch THEN Source[r] ELSE fetched[r]]
             /\ copyAttempt' = [copyAttempt EXCEPT ![t] = 1]
    /\ UNCHANGED <<maxPk, lastPk, target>>

\* INSERT IGNORE of the batch, one statement.
InsertIgnoreBatch(t, data) ==
    [r \in RowIds |-> IF TableOf(r) = t /\ fetched[r] # NoRow /\ data[r] = NoRow
                        THEN fetched[r] ELSE data[r]]

\* Slip: the transaction is left open.
WriteRowBatchKeepsLocks(t) ==
    /\ cursor[t] = "holding"
    /\ target' = InsertIgnoreBatch(t, target)
    /\ lastPk' = [lastPk EXCEPT ![t] = pkPos[t]]
    /\ cursor' = [cursor EXCEPT ![t] = "idle"]
    /\ UNCHANGED <<fetched, maxPk, pkPos, copyAttempt>>

\* Slip: the cursor does not move, and the same batch is copied again.
WriteRowBatchInPlace(t) ==
    /\ cursor[t] = "holding"
    /\ target' = InsertIgnoreBatch(t, target)
    /\ fetched' = [r \in RowIds |-> IF TableOf(r) = t THEN NoRow ELSE fetched[r]]
    /\ cursor' = [cursor EXCEPT ![t] = "idle"]
    /\ UNCHANGED <<lastPk, maxPk, pkPos, copyAttempt>>

(***************************************************************************)
(* WriteRowBatch succeeds.  Only then the transaction is rolled back,      *)
(* which releases the locks, and the cursor moves.                         *)
(***************************************************************************)
WriteRowBatch(t) ==
    /\ cursor[t] = "holding"
    /\ target' = InsertIgnoreBatch(t, target)
    /\ fetched' = [r \in RowIds |-> IF TableOf(r) = t THEN NoRow ELSE fetched[r]]
    /\ lastPk' = [lastPk EXCEPT ![t] = pkPos[t]]
    /\ cursor' = [cursor EXCEPT ![t] = "idle"]
    /\ UNCHANGED <<maxPk, pkPos, copyAttempt>>

\* Slip: the cursor moves on after a failure.
SkipRowBatch(t) ==
    /\ cursor[t] = "holding"
    /\ copyAttempt[t] < CopyRetries
    /\ fetched' = [r \in RowIds |-> IF TableOf(r) = t THEN NoRow ELSE fetched[r]]
    /\ lastPk' = [lastPk EXCEPT ![t] = pkPos[t]]
    /\ cursor' = [cursor EXCEPT ![t] = "idle"]
    /\ UNCHANGED <<maxPk, pkPos, copyAttempt, target>>

\* WriteRowBatch fails, before or after the rows were inserted, and is retried.
RetryRowBatch(t) ==
    /\ cursor[t] = "holding"
    /\ copyAttempt[t] < CopyRetries
    /\ target' \in {target, InsertIgnoreBatch(t, target)}
    /\ copyAttempt' = [copyAttempt EXCEPT ![t] = @ + 1]
    /\ UNCHANGED <<cursor, maxPk, lastPk, pkPos, fetched>>

\* Slip: a table is completed after any batch.
CompleteTableEarly(t) ==
    /\ cursor[t] = "idle"
    /\ cursor' = [cursor EXCEPT ![t] = "done"]
    /\ UNCHANGED <<maxPk, lastPk, pkPos, fetched, copyAttempt, target>>

\* MarkTableAsCompleted, the loop of Each has ended.
CompleteTable(t) ==
    /\ cursor[t] = "idle"
    /\ ~MoreToCopy(t)
    /\ cursor' = [cursor EXCEPT ![t] = "done"]
    /\ UNCHANGED <<maxPk, lastPk, pkPos, fetched, copyAttempt, target>>

\* Everything but the writes to the target.
IteratorStep(t) ==
    \/ ReadMaxPrimaryKey(t)
    \/ WorkerTakesTable(t)
    \/ Fetch(t)
    \/ CompleteTable(t)

AllTablesCompleted == \A t \in Tables : cursor[t] = "done"

IteratorTypeOK ==
    /\ cursor \in [Tables -> {"unread", "queued", "idle", "holding", "done"}]
    /\ maxPk \in [Tables -> Nat]
    /\ lastPk \in [Tables -> Nat]
    /\ pkPos \in [Tables -> Nat]
    /\ fetched \in TableData
    /\ copyAttempt \in [Tables -> 1..CopyRetries]
=============================================================================
