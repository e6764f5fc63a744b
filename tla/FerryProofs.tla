---------------------------- MODULE FerryProofs ----------------------------
(***************************************************************************)
(* Proofs about Ferry, for all tables, keys, values, batch sizes, numbers  *)
(* of retries and bounds.                                                  *)
(***************************************************************************)
EXTENDS Ferry, FiniteSetTheorems, TLAPS

\* Most leaves are first-order: Zenon is tried before the SMT solver.
USE ZenonT(5), SMTT(30)

----------------------------------------------------------------------------
\* Type correctness.

\* Logging a change keeps the types of the databases (Databases, LogChange).
LEMMA LogChangeType ==
    ASSUME TypeOK, NEW c \in Change, NEW data \in TableData, LogChange(c, data),
           UNCHANGED <<streamerVars, writerVars, iteratorVars, ferryVars>>
    PROVE  TypeOK'
<1>1. binlog' \in Seq(Change) /\ Len(binlog') = Len(binlog) + 1
  BY SMTT(30) DEF TypeOK, DatabasesTypeOK, LogChange
<1>2. versions' \in [0..Len(binlog') -> TableData]
  BY SMTT(30), <1>1 DEF TypeOK, DatabasesTypeOK, LogChange
<1>3. committed' \in 0..Len(binlog') /\ committed <= committed'
  BY SMTT(30), <1>1 DEF TypeOK, DatabasesTypeOK, LogChange
<1>4. DatabasesTypeOK'
  BY <1>1, <1>2, <1>3 DEF TypeOK, DatabasesTypeOK, LogChange
<1>5. StreamerTypeOK'
  BY SMTT(30), <1>1, <1>3 DEF TypeOK, DatabasesTypeOK, StreamerTypeOK, streamerVars
<1> QED
  BY <1>4, <1>5 DEF TypeOK, WriterTypeOK, IteratorTypeOK, streamerVars, writerVars,
       iteratorVars, ferryVars

\* The source as it is now is a table content.
LEMMA SourceType ==
    ASSUME TypeOK
    PROVE  Source \in TableData /\ CommittedSource \in TableData /\ Len(binlog) \in Nat
<1>1. Len(binlog) \in Nat /\ Len(binlog) \in 0..Len(binlog)
  BY SMTT(30) DEF TypeOK, DatabasesTypeOK
<1> QED
  BY <1>1 DEF TypeOK, DatabasesTypeOK, Source, CommittedSource

\* The positions in the log, in their order.
LEMMA PositionOrder ==
    ASSUME TypeOK
    PROVE  /\ applied \in Nat /\ exec \in Nat /\ taken \in Nat /\ sent \in Nat
           /\ pos \in Nat /\ targetPos \in Nat /\ committed \in Nat /\ Len(binlog) \in Nat
           /\ applied <= exec /\ exec <= taken /\ taken <= sent /\ pos <= sent
           /\ sent <= committed /\ targetPos <= committed /\ committed <= Len(binlog)
<1>1. Len(binlog) \in Nat
  BY SMTT(30) DEF TypeOK, DatabasesTypeOK
<1>2. committed \in 0..Len(binlog)
  BY DEF TypeOK, DatabasesTypeOK
<1>3. sent \in 0..committed /\ pos \in 0..sent /\ targetPos \in 0..committed
  BY DEF TypeOK, StreamerTypeOK
<1>4. taken \in 0..sent /\ applied \in 0..taken /\ exec \in applied..taken
  BY DEF TypeOK, WriterTypeOK
<1> QED
  BY SMTT(30), <1>1, <1>2, <1>3, <1>4

\* The application's writes keep the types.
LEMMA ApplicationType ==
    ASSUME TypeOK, Application
    PROVE  TypeOK'
<1> USE SourceType
<1>1. ASSUME NEW r \in RowIds, NEW v \in Row, NEW end \in BOOLEAN,
             ApplicationWrites(r, v, end)
      PROVE  TypeOK'
  <2> DEFINE c == [row |-> r, to |-> r, old |-> Source[r], new |-> v, end |-> end]
  <2>1. c \in Change
    BY DEF Change, TableData
  <2>2. [Source EXCEPT ![r] = v] \in TableData
    BY DEF TableData
  <2> QED
    BY <1>1, <2>1, <2>2, LogChangeType DEF Application, ApplicationWrites
<1>2. CASE LogOther
  <2> DEFINE c == [row |-> Other, to |-> Other, old |-> NoRow, new |-> NoRow, end |-> TRUE]
  <2>1. c \in Change
    BY DEF Change, Row
  <2> QED
    BY <1>2, <2>1, LogChangeType DEF Application, LogOther
<1> QED
  BY <1>1, <1>2 DEF Application

\* What a replayed statement makes of the rows are rows.
LEMMA StatementType ==
    ASSUME NEW c, NEW data \in TableData, c.new \in Row
    PROVE  AsSQL(c, data) \in TableData
<1>1. NoRow \in Row
  BY DEF Row
<1>2. [data EXCEPT ![c.row] = NoRow] \in TableData
  BY <1>1 DEF TableData
<1> QED
  BY <1>2 DEF AsSQL, TableData

\* Every step of the writer keeps the types.
LEMMA WriterType ==
    ASSUME TypeOK, WriterProgress \/ WriterRetries
    PROVE  TypeOK'
<1> USE DEF TypeOK, DatabasesTypeOK, StreamerTypeOK, WriterTypeOK, IteratorTypeOK,
        sourceVars, streamerVars, writerVars, iteratorVars, ferryVars
<1> USE BinlogWriterAssumption
<1>1. CommittedTarget \in TableData
  BY DEF CommittedTarget, TableData
<1>2. CASE WriterRetries
  BY SMTT(30), <1>1, <1>2 DEF WriterRetries, RetryWrite, NothingToUndo, TableData, Row
<1>3. CASE WriterProgress /\ ReceiveEvent
  BY SMTT(30), <1>3 DEF WriterProgress, ReceiveEvent, Buffered
<1>4. CASE WriterProgress /\ BatchReady
  BY SMTT(30), <1>4 DEF WriterProgress, BatchReady
<1>5. CASE WriterProgress /\ ExecuteStatement
  <2>1. target' \in TableData
    <3>1. CASE ~IsDML(exec + 1)
      BY <1>5, <3>1 DEF ExecuteStatement
    <3>2. CASE IsDML(exec + 1)
      <4>1. binlog[exec + 1] \in Change /\ exec + 1 \in 1..Len(binlog)
        BY SMTT(30), <1>5 DEF ExecuteStatement
      <4>2. binlog[exec + 1].new \in Row
        BY <4>1 DEF Change
      <4>3. target \in TableData /\ target' = AsSQL(binlog[exec + 1], target)
        BY <1>5, <3>2 DEF ExecuteStatement
      <4> QED
        BY <4>2, <4>3, StatementType
    <3> QED
      BY <3>1, <3>2
  <2>2. undo' \in TableData
    BY <1>5 DEF ExecuteStatement, TableData
  <2>3. UNCHANGED <<sourceVars, streamerVars, iteratorVars, ferryVars,
                    writer, taken, applied, attempt>>
    BY <1>5 DEF WriterProgress, ExecuteStatement
  <2>4. exec' \in applied'..taken'
    <3>1. exec' = exec + 1 /\ exec < taken
      BY <1>5 DEF ExecuteStatement
    <3>2. exec \in Nat /\ taken \in Nat /\ applied \in Nat /\ applied <= exec
      BY PositionOrder
    <3> QED
      BY SMTT(30), <2>3, <3>1, <3>2
  <2> QED
    BY SMTT(30), <2>1, <2>2, <2>3, <2>4
<1>6. CASE WriterProgress /\ BatchWritten
  BY SMTT(30), <1>6 DEF WriterProgress, BatchWritten, NothingToUndo, TableData, Row
<1>7. CASE WriterProgress /\ WriterReturns
  BY SMTT(30), <1>7 DEF WriterProgress, WriterReturns
<1> QED
  BY <1>2, <1>3, <1>4, <1>5, <1>6, <1>7 DEF WriterProgress

\* Every step of a table's worker keeps the types.
LEMMA IteratorType ==
    ASSUME TypeOK, NEW t \in Tables, IteratorProgress(t) \/ IteratorRetries(t)
    PROVE  TypeOK'
<1> USE DEF TypeOK, DatabasesTypeOK, StreamerTypeOK, WriterTypeOK, IteratorTypeOK,
        sourceVars, streamerVars, writerVars, iteratorVars, ferryVars
<1> USE DatabasesAssumption, DataIteratorAssumption
<1>1. InsertIgnoreBatch(t, target) \in TableData
  BY DEF InsertIgnoreBatch, TableData
<1>2. \A r \in RowIds : Pk(r) \in Nat
  BY DEF RowIds, Pk
<1>3. CASE IteratorRetries(t)
  BY SMTT(30), <1>1, <1>3 DEF IteratorRetries, RetryRowBatch
<1>4. CASE IteratorProgress(t) /\ ReadMaxPrimaryKey(t)
  <2>1. maxPk' \in [Tables -> Nat]
    BY SMTT(30), <1>2, <1>4 DEF ReadMaxPrimaryKey, RowsAfter
  <2>2. /\ cursor' \in [Tables -> {"unread", "queued", "idle", "holding", "done"}]
        /\ UNCHANGED <<lastPk, pkPos, fetched, copyAttempt, target>>
    BY <1>4 DEF ReadMaxPrimaryKey
  <2>3. UNCHANGED <<sourceVars, streamerVars, writerVars, ferryVars>>
    BY <1>4 DEF IteratorProgress
  <2> QED
    BY SMTT(30), <2>1, <2>2, <2>3
<1>5. CASE IteratorProgress(t) /\ WorkerTakesTable(t)
  BY SMTT(30), <1>5 DEF IteratorProgress, WorkerTakesTable
<1>6. CASE IteratorProgress(t) /\ Fetch(t)
  <2> DEFINE batch == FirstRows(RowsAfter(Source, t, lastPk[t]), IterationBatchSize)
  <2>1. batch \subseteq RowIds
    BY DEF FirstRows, RowsAfter
  <2>2. fetched' \in TableData
    BY <1>6, SourceType DEF Fetch, TableData
  <2>3. pkPos' = pkPos \/ \E r \in batch : pkPos' = [pkPos EXCEPT ![t] = Pk(r)]
    BY <1>6 DEF Fetch
  <2> HIDE DEF batch
  <2>4. pkPos' \in [Tables -> Nat]
    <3>1. ASSUME NEW r \in batch, pkPos' = [pkPos EXCEPT ![t] = Pk(r)]
          PROVE  pkPos' \in [Tables -> Nat]
      BY <1>2, <2>1, <3>1
    <3> QED
      BY <2>3, <3>1
  <2>5. /\ cursor' \in [Tables -> {"unread", "queued", "idle", "holding", "done"}]
        /\ copyAttempt' \in [Tables -> 1..CopyRetries]
        /\ UNCHANGED <<maxPk, lastPk, target>>
    <3>1. /\ \/ cursor' = [cursor EXCEPT ![t] = "done"]
             \/ cursor' = [cursor EXCEPT ![t] = "holding"]
          /\ copyAttempt' \in {copyAttempt, [copyAttempt EXCEPT ![t] = 1]}
          /\ UNCHANGED <<maxPk, lastPk, target>>
      BY <1>6 DEF Fetch
    <3>2. 1 \in 1..CopyRetries
      BY SMTT(30)
    <3>3. copyAttempt' \in [Tables -> 1..CopyRetries]
      BY <3>1, <3>2
    <3> QED
      BY <3>1, <3>3
  <2>6. UNCHANGED <<sourceVars, streamerVars, writerVars, ferryVars>>
    BY <1>6 DEF IteratorProgress
  <2> QED
    BY SMTT(30), <2>2, <2>4, <2>5, <2>6
<1>7. CASE IteratorProgress(t) /\ WriteRowBatch(t)
  BY SMTT(30), <1>1, <1>7 DEF IteratorProgress, WriteRowBatch, TableData, Row
<1>8. CASE IteratorProgress(t) /\ CompleteTable(t)
  BY SMTT(30), <1>8 DEF IteratorProgress, CompleteTable
<1> QED
  BY <1>3, <1>4, <1>5, <1>6, <1>7, <1>8 DEF IteratorProgress, IteratorStep

\* The remaining steps are those of ferry.go itself.
FerryStep ==
    \/ LockSource
    \/ HandleCutover
    \/ Start
    \/ Run
    \/ StreamerSteps
    \/ OnFinishedIterations
    \/ EnterCutover
    \/ WaitUntilRowCopyIsComplete
    \/ WaitUntilBinlogStreamerCatchesUp
    \/ FlushReadsPosition
    \/ FlushRequestsStop
    \/ RunReturns
    \/ Fatal
    \/ Restart
    \/ Ended

\* The steps of ferry.go and of the streamer keep the types.
LEMMA FerryStepType ==
    ASSUME TypeOK, FerryStep
    PROVE  TypeOK'
<1> USE DEF TypeOK, DatabasesTypeOK, StreamerTypeOK, WriterTypeOK, IteratorTypeOK,
        sourceVars, streamerVars, writerVars, iteratorVars, ferryVars
<1>0. Len(binlog) \in Nat
  BY SMTT(30)
<1>1. CASE LockSource
  BY SMTT(30), <1>1 DEF LockSource, StopWrites
<1>2. CASE HandleCutover
  BY SMTT(30), <1>2 DEF HandleCutover
<1>3. CASE Start
  BY SMTT(30), <1>0, <1>3 DEF Start, ConnectBinlogStreamerToMysql
<1>4. CASE Run
  BY <1>4 DEF Run
<1>5. CASE StreamerSteps
  BY SMTT(30), <1>0, <1>5 DEF StreamerSteps, StreamEvent, EventAvailable, StreamerReturns
<1>6. CASE OnFinishedIterations \/ EnterCutover
  BY SMTT(30), <1>6 DEF OnFinishedIterations, EnterCutover
<1>7. CASE \/ WaitUntilRowCopyIsComplete \/ WaitUntilBinlogStreamerCatchesUp
           \/ FlushReadsPosition \/ FlushRequestsStop \/ RunReturns
  <2> USE DEF CallerMoves
  <2>1. CASE WaitUntilRowCopyIsComplete
    BY <2>1 DEF WaitUntilRowCopyIsComplete
  <2>2. CASE WaitUntilBinlogStreamerCatchesUp
    BY SMTT(30), <2>2 DEF WaitUntilBinlogStreamerCatchesUp
  <2>3. CASE FlushReadsPosition
    BY SMTT(30), <1>0, <2>3 DEF FlushReadsPosition, ReadTargetPosition
  <2>4. CASE FlushRequestsStop
    BY <2>4 DEF FlushRequestsStop, RequestStop
  <2>5. CASE RunReturns
    BY <2>5 DEF RunReturns
  <2> QED
    BY <1>7, <2>1, <2>2, <2>3, <2>4, <2>5
<1>8. CASE Fatal
  <2>1. CommittedTarget \in TableData
    BY DEF CommittedTarget, TableData
  <2>2. target' \in TableData
    BY <1>8, <2>1 DEF Fatal
  <2>3. undo' \in TableData /\ fetched' \in TableData
    BY <1>8 DEF Fatal, MemoryIsLost, NothingToUndo, NothingFetched, TableData, Row
  <2>4. DatabasesTypeOK' /\ StreamerTypeOK'
    <3>1. DatabasesTypeOK'
      BY <1>8, <2>2 DEF Fatal
    <3>2. committed' \in Nat
      BY SMTT(30), <1>0, <1>8 DEF Fatal
    <3>3. /\ streamer' = "off" /\ sent' = 0 /\ pos' = 0
          /\ targetPos' = 0 /\ stopRequested' = FALSE
      BY <1>8 DEF Fatal, MemoryIsLost
    <3>4. sent' \in 0..committed' /\ pos' \in 0..sent' /\ targetPos' \in 0..committed'
      BY SMTT(30), <3>2, <3>3
    <3>5. stopRequested' \in BOOLEAN
      BY <3>3
    <3>6. StreamerTypeOK'
      BY <3>3, <3>4, <3>5, ZenonT(30)
    <3> QED
      BY <3>1, <3>6
  <2>5. WriterTypeOK'
    BY SMTT(30), <1>8, <2>3, BinlogWriterAssumption DEF Fatal, MemoryIsLost
  <2>6. IteratorTypeOK'
    BY SMTT(30), <1>8, <2>3, DataIteratorAssumption DEF Fatal, MemoryIsLost
  <2> QED
    BY <1>8, <2>4, <2>5, <2>6 DEF Fatal
<1>9. CASE Restart
  <2>1. target' \in TableData
    BY <1>9 DEF Restart, TableData, Row
  <2>2. restarts' \in 0..MaxRestarts
    BY SMTT(30), <1>9, FerryAssumption DEF Restart, NewRun
  <2> QED
    BY <1>9, <2>1, <2>2 DEF Restart, NewRun
<1>10. CASE Ended
  BY SMTT(30), <1>10 DEF Ended, vars
<1> QED
  BY <1>1, <1>2, <1>3, <1>4, <1>5, <1>6, <1>7, <1>8, <1>9, <1>10 DEF FerryStep

\* Next, by who takes the step.
LEMMA NextCases ==
    ASSUME Next
    PROVE  \/ Application
           \/ WriterProgress \/ WriterRetries
           \/ \E t \in Tables : IteratorProgress(t) \/ IteratorRetries(t)
           \/ FerryStep
BY DEF Next, FerryStep

\* Every step keeps the types.
LEMMA NextType ==
    ASSUME TypeOK, [Next]_vars
    PROVE  TypeOK'
<1>1. CASE UNCHANGED vars
  BY SMTT(30), <1>1 DEF vars, TypeOK, DatabasesTypeOK, StreamerTypeOK, WriterTypeOK,
       IteratorTypeOK, sourceVars, streamerVars, writerVars, iteratorVars, ferryVars
<1>2. CASE Next
  BY <1>2, NextCases, ApplicationType, WriterType, IteratorType, FerryStepType
<1> QED
  BY <1>1, <1>2

\* The initial state has the types.
LEMMA InitType ==
    ASSUME Init
    PROVE  TypeOK
<1>1. binlog \in Seq(Change) /\ Len(binlog) = 0
  BY SMTT(30) DEF Init, InitSource
<1>2. versions \in [0..Len(binlog) -> TableData]
  BY SMTT(30), <1>1 DEF Init, InitSource
<1>3. target \in TableData /\ undo \in TableData /\ fetched \in TableData
  BY DEF Init, WriterInit, IteratorInit, NothingToUndo, NothingFetched, TableData, Row
<1> QED
  BY SMTT(30), <1>1, <1>2, <1>3, BinlogWriterAssumption, DataIteratorAssumption, FerryAssumption
     DEF Init, InitSource, StreamerInit, WriterInit, IteratorInit, TypeOK,
         DatabasesTypeOK, StreamerTypeOK, WriterTypeOK, IteratorTypeOK

\* Every reachable state has the types that TypeOK says, whatever the constants are.
THEOREM TypeCorrect == Spec => []TypeOK
<1>1. Init => TypeOK
  BY InitType
<1>2. TypeOK /\ [Next]_vars => TypeOK'
  BY NextType
<1> QED
  BY <1>1, <1>2, PTL DEF Spec
=============================================================================
