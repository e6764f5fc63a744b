---------------------------- MODULE BinlogWriter ----------------------------
(***************************************************************************)
(* binlog_writer.go and the SQL of dml_events.go: the goroutine that       *)
(* collects buffered row changes into batches and replays them on the      *)
(* target.                                                                 *)
(*                                                                         *)
(* The buffered channel holds the changes taken+1..sent of the log, the    *)
(* current batch those of applied+1..taken.  A batch is one multi-         *)
(* statement query, BEGIN; ...; COMMIT, executed up to `exec'.  `target'   *)
(* shows the statements of the open transaction and `undo' what the rows   *)
(* they touched held before it.                                            *)
(***************************************************************************)
EXTENDS BinlogStreamer

CONSTANTS BinlogBatchSize,   \* BatchSize: capacity of buffer and of a batch
          WriteRetries       \* attempts at one write

ASSUME BinlogWriterAssumption ==
    /\ BinlogBatchSize \in Nat \ {0}
    /\ WriteRetries \in Nat \ {0}

VARIABLES writer,     \* "gather", "write" or "done"
          taken,      \* log entries received from the buffer
          applied,    \* log entries in batches that succeeded
          exec,       \* log entries executed by the current attempt
          attempt,    \* number of the current attempt
          undo        \* before images of the rows the transaction touched

writerVars == <<writer, taken, applied, exec, attempt, undo>>

NothingToUndo == [r \in RowIds |-> NoRow]

WriterInit ==
    /\ writer = "gather"
    /\ taken = 0
    /\ applied = 0
    /\ exec = 0
    /\ attempt = 1
    /\ undo = NothingToUndo

Buffered == {i \in taken + 1..sent : IsDML(i)}
Batch == {i \in applied + 1..taken : IsDML(i)}

\* BufferBinlogEvents blocks while the buffer is full.
BufferHasRoom == Cardinality(Buffered) < BinlogBatchSize
BufferBinlogEvents == IsDML(sent + 1) => BufferHasRoom

\* Stop closes the buffer when the streamer has returned.
BufferClosed == streamer = "closed"

\* The entries up to the first change in the buffer leave it.
ReceiveEvent ==
    /\ writer = "gather"
    /\ Cardinality(Batch) < BinlogBatchSize
    /\ \E i \in Buffered : /\ \A j \in Buffered : i <= j
                           /\ taken' = i
    /\ UNCHANGED <<writer, applied, exec, attempt, undo, target>>

\* The batch is written when it is full or nothing more is waiting.
BatchReady ==
    /\ writer = "gather"
    /\ Batch # {}
    /\ Buffered = {} \/ Cardinality(Batch) = BinlogBatchSize
    /\ writer' = "write"
    /\ exec' = applied
    /\ attempt' = 1
    /\ UNCHANGED <<taken, applied, undo, target>>

(***************************************************************************)
(* INSERT IGNORE does nothing when the key is taken; UPDATE and DELETE     *)
(* name every column of the before image in their WHERE clause, so they    *)
(* do nothing unless the row on the target is exactly that.                *)
(***************************************************************************)
AsSQL(c, data) ==
    IF data[c.row] = c.old
      THEN [data EXCEPT ![c.row] = NoRow, ![c.to] = c.new]
      ELSE data

\* An UPDATE that moves a row to a key in use is refused by the target.
DuplicateKey(c, data) ==
    c.to # c.row /\ data[c.row] = c.old /\ data[c.to] # NoRow

Touches(i, r) == r \in {binlog[i].row, binlog[i].to}

\* The rows of the open transaction are locked on the target ...
TargetLocked(r) == \E i \in applied + 1..exec : Touches(i, r)

\* ... and this is what everybody else, and a rollback, sees.
CommittedTarget ==
    [r \in RowIds |-> IF TargetLocked(r) THEN undo[r] ELSE target[r]]

ExecuteStatement ==
    /\ writer = "write"
    /\ exec < taken
    /\ exec' = exec + 1
    /\ IF IsDML(exec + 1)
         THEN /\ ~DuplicateKey(binlog[exec + 1], target)
              /\ target' = AsSQL(binlog[exec + 1], target)
         ELSE UNCHANGED target
    /\ undo' = [r \in RowIds |-> IF Touches(exec + 1, r) /\ ~TargetLocked(r)
                                   THEN target[r] ELSE undo[r]]
    /\ UNCHANGED <<writer, taken, applied, attempt>>

\* COMMIT is acknowledged.
BatchWritten ==
    /\ writer = "write"
    /\ exec = taken
    /\ applied' = taken
    /\ writer' = "gather"
    /\ undo' = NothingToUndo
    /\ UNCHANGED <<taken, exec, attempt, target>>

\* Slip: one attempt too many.
RetryWriteOnceMore ==
    /\ writer = "write"
    /\ attempt <= WriteRetries
    /\ attempt' = attempt + 1
    /\ exec' = applied
    /\ target' \in {target, CommittedTarget}
    /\ undo' = NothingToUndo
    /\ UNCHANGED <<writer, taken, applied>>

(***************************************************************************)
(* writeEvents returns an error and WithRetries calls it again, from the   *)
(* top.  The transaction was rolled back with its connection, or what was  *)
(* executed stays: all of it when only the answer to COMMIT was lost, a    *)
(* prefix when one statement failed, as the BEGIN of the next attempt on   *)
(* that connection commits what came before.                               *)
(***************************************************************************)
RetryWrite ==
    /\ writer = "write"
    /\ attempt < WriteRetries
    /\ attempt' = attempt + 1
    /\ exec' = applied
    /\ target' \in {target, CommittedTarget}
    /\ undo' = NothingToUndo
    /\ UNCHANGED <<writer, taken, applied>>

\* Slip: the buffer is not drained when it is closed.
WriterReturnsAtClose ==
    /\ writer = "gather"
    /\ Batch = {}
    /\ BufferClosed
    /\ writer' = "done"
    /\ UNCHANGED <<taken, applied, exec, attempt, undo, target>>

\* A receive from the closed and empty buffer ends Run.
WriterReturns ==
    /\ writer = "gather"
    /\ Batch = {}
    /\ Buffered = {}
    /\ BufferClosed
    /\ writer' = "done"
    /\ UNCHANGED <<taken, applied, exec, attempt, undo, target>>

WriterTypeOK ==
    /\ writer \in {"gather", "write", "done"}
    /\ taken \in 0..sent
    /\ applied \in 0..taken
    /\ exec \in applied..taken
    /\ attempt \in 1..WriteRetries
    /\ undo \in TableData
=============================================================================
