------------------------- MODULE FerrySafetyProofs -------------------------
(***************************************************************************)
(* FerryInv is an inductive invariant of Ferry; what follows from it, and  *)
(* that Ferry implements DataMove.                                         *)
(***************************************************************************)
EXTENDS FerryProofs

\* Most leaves are first-order: Zenon is tried before the SMT solver.
USE ZenonT(5), SMTT(30)

----------------------------------------------------------------------------
\* The log grows.

\* What LogChange does to the log, the versions and the source.
LEMMA LogChangeEffect ==
    ASSUME TypeOK, NEW c \in Change, NEW data \in TableData, LogChange(c, data)
    PROVE  /\ Len(binlog) \in Nat
           /\ Len(binlog') = Len(binlog) + 1
           /\ \A i \in 1..Len(binlog) : binlog'[i] = binlog[i]
           /\ binlog'[Len(binlog) + 1] = c
           /\ \A p \in 0..Len(binlog) : versions'[p] = versions[p]
           /\ versions'[Len(binlog) + 1] = data
           /\ Source' = data
<1>1. Len(binlog) \in Nat /\ binlog' = Append(binlog, c) /\ binlog \in Seq(Change)
  BY SMTT(30) DEF TypeOK, DatabasesTypeOK, LogChange
<1>2. /\ Len(binlog') = Len(binlog) + 1
      /\ \A i \in 1..Len(binlog) : binlog'[i] = binlog[i]
      /\ binlog'[Len(binlog) + 1] = c
  BY SMTT(30), <1>1
<1>3. versions' = [p \in 0..Len(binlog) + 1 |->
                      IF p <= Len(binlog) THEN versions[p] ELSE data]
  BY DEF LogChange
<1>4. /\ \A p \in 0..Len(binlog) : versions'[p] = versions[p]
      /\ versions'[Len(binlog) + 1] = data
  BY SMTT(30), <1>1, <1>3
<1> QED
  BY <1>1, <1>2, <1>4 DEF Source

\* A change that says what it does to the source, and is not one of a locked row.
ProperChange(c, data) ==
    \/ c.row = Other /\ c.to = Other /\ data = Source
    \/ /\ c.row \in RowIds /\ c.to = c.row /\ ~RowLocked(c.row)
       /\ c.old = Source[c.row] /\ c.new = data[c.row]
       /\ \A r \in RowIds : r # c.row => data[r] = Source[r]

\* A proper change keeps the invariant.
LEMMA LogChangeInv ==
    ASSUME FerryInv, NEW c \in Change, NEW data \in TableData, LogChange(c, data),
           ProperChange(c, data),
           UNCHANGED <<streamerVars, writerVars, iteratorVars, ferryVars>>
    PROVE  FerryInv'
<1> DEFINE n == Len(binlog)
<1>1. TypeOK /\ TypeOK'
  BY LogChangeType DEF FerryInv
<1>2. /\ n \in Nat
      /\ Len(binlog') = n + 1
      /\ \A i \in 1..n : binlog'[i] = binlog[i]
      /\ binlog'[n + 1] = c
      /\ \A p \in 0..n : versions'[p] = versions[p]
      /\ versions'[n + 1] = data
      /\ Source' = data
  BY <1>1, LogChangeEffect
<1>3. /\ Source = versions[n] /\ ~writesStopped /\ ~writesStopped'
      /\ target' = target
  BY DEF Source, LogChange
<1>4. Other \notin RowIds
  BY DatabasesAssumption DEF RowIds
<1>5. \A r \in RowIds : r # c.row => data[r] = versions[n][r]
  BY <1>3 DEF ProperChange
<1> HIDE DEF n
<1>6. LogMatchesVersions'
  <2> SUFFICES ASSUME NEW i \in 1..n + 1
               PROVE  /\ binlog'[i].row # Other =>
                            /\ binlog'[i].to = binlog'[i].row
                            /\ binlog'[i].old = versions'[i - 1][binlog'[i].row]
                            /\ binlog'[i].new = versions'[i][binlog'[i].row]
                      /\ binlog'[i].row = Other => binlog'[i].to = Other
                      /\ \A r \in RowIds : r # binlog'[i].row =>
                            versions'[i][r] = versions'[i - 1][r]
    BY <1>2 DEF LogMatchesVersions
  <2>1. CASE i \in 1..n
    <3>1. i - 1 \in 0..n /\ i \in 0..n
      BY SMTT(30), <1>2, <2>1
    <3> QED
      BY SMTT(30), <1>2, <2>1, <3>1 DEF FerryInv, LogMatchesVersions, n
  <2>2. CASE i = n + 1
    <3>1. i - 1 = n /\ n \in 0..n
      BY SMTT(30), <1>2, <2>2
    <3> QED
      BY SMTT(30), <1>2, <1>3, <1>4, <1>5, <2>2, <3>1 DEF ProperChange
  <2> QED
    BY SMTT(30), <1>2, <2>1, <2>2
<1>7. UnloggedRowsAreStable'
  <2> SUFFICES ASSUME NEW p \in 0..n + 1, NEW r \in RowIds,
                      \A i \in p + 1..n + 1 : binlog'[i].row # r
               PROVE  versions'[p][r] = data[r]
    BY SMTT(30), <1>2 DEF UnloggedRowsAreStable
  <2>1. CASE p = n + 1
    BY <1>2, <2>1
  <2>2. CASE p \in 0..n
    <3>1. n + 1 \in p + 1..n + 1
      BY SMTT(30), <1>2, <2>2
    <3>2. c.row # r
      BY <1>2, <3>1
    <3>3. \A i \in p + 1..n : binlog[i].row # r
      BY SMTT(30), <1>2, <2>2
    <3>4. versions[p][r] = Source[r]
      BY <2>2, <3>3 DEF FerryInv, UnloggedRowsAreStable, n
    <3> QED
      BY <1>2, <1>3, <1>5, <2>2, <3>2, <3>4
  <2> QED
    BY SMTT(30), <1>2, <2>1, <2>2
<1>8. BeforeRun'
  BY <1>3 DEF FerryInv, BeforeRun, streamerVars, writerVars, iteratorVars, ferryVars
<1>9. Phases'
  BY DEF FerryInv, Phases, AllTablesCompleted, streamerVars, writerVars, iteratorVars,
     ferryVars
<1>10. Stopping'
  BY <1>3 DEF FerryInv, Stopping, streamerVars, writerVars, ferryVars
<1>11. BatchLocks'
  BY <1>2, <1>3, <1>5 DEF FerryInv, BatchLocks, ProperChange, RowLocked, iteratorVars
<1>12. IdleWriter' /\ CursorsAdvance'
  BY DEF FerryInv, IdleWriter, CursorsAdvance, writerVars, iteratorVars
<1>13. \A r \in RowIds : Uncopied(r) => Uncopied(r)'
  BY DEF Uncopied, RowLocked, iteratorVars
<1>14. exec \in Nat /\ applied \in Nat /\ exec <= n
  BY SMTT(30), <1>1, PositionOrder DEF n
<1>15. RowsTrackHistory'
  <2> SUFFICES ASSUME phase # "crashed", NEW r \in RowIds
               PROVE  \/ target[r] = NoRow /\ Uncopied(r)'
                      \/ \E p \in exec..n + 1 : target[r] = versions'[p][r]
    BY <1>2, <1>3 DEF RowsTrackHistory, Tracks, writerVars, ferryVars
  <2>1. Tracks(target[r], r, exec)
    BY DEF FerryInv, RowsTrackHistory
  <2>2. CASE target[r] = NoRow /\ Uncopied(r)
    BY <1>13, <2>2
  <2>3. CASE \E p \in exec..n : target[r] = versions[p][r]
    BY SMTT(30), <1>2, <1>14, <2>3
  <2> QED
    BY <2>1, <2>2, <2>3 DEF Tracks, n
<1>16. \A r \in RowIds : TargetLocked(r)' => TargetLocked(r)
  BY SMTT(30), <1>2, <1>14 DEF TargetLocked, Touches, writerVars
<1>17. UndoTracksHistory'
  <2> SUFFICES ASSUME phase # "crashed", NEW r \in RowIds, TargetLocked(r)
               PROVE  \/ undo[r] = NoRow /\ Uncopied(r)'
                      \/ \E p \in applied..n + 1 : undo[r] = versions'[p][r]
    BY <1>2, <1>16 DEF UndoTracksHistory, Tracks, writerVars, ferryVars
  <2>1. Tracks(undo[r], r, applied)
    BY DEF FerryInv, UndoTracksHistory
  <2>2. CASE undo[r] = NoRow /\ Uncopied(r)
    BY <1>13, <2>2
  <2>3. CASE \E p \in applied..n : undo[r] = versions[p][r]
    BY SMTT(30), <1>2, <1>14, <2>3
  <2> QED
    BY <2>1, <2>2, <2>3 DEF Tracks, n
<1> QED
  BY <1>1, <1>6, <1>7, <1>8, <1>9, <1>10, <1>11, <1>12, <1>15, <1>17 DEF FerryInv

\* What the application does keeps the invariant: it waits for locked rows.
LEMMA ApplicationInv ==
    ASSUME FerryInv, Application
    PROVE  FerryInv'
<1>1. TypeOK
  BY DEF FerryInv
<1> USE SourceType
<1>2. ASSUME NEW r \in RowIds, NEW v \in Row, NEW end \in BOOLEAN,
             ~RowLocked(r), ApplicationWrites(r, v, end)
      PROVE  FerryInv'
  <2> DEFINE c == [row |-> r, to |-> r, old |-> Source[r], new |-> v, end |-> end]
             data == [Source EXCEPT ![r] = v]
  <2>1. c \in Change
    BY <1>1 DEF Change, TableData
  <2>2. data \in TableData
    BY <1>1 DEF TableData
  <2>3. ProperChange(c, data)
    BY <1>1, <1>2 DEF ProperChange, TableData
  <2> QED
    BY <1>2, <2>1, <2>2, <2>3, LogChangeInv DEF Application, ApplicationWrites
<1>3. CASE LogOther
  <2> DEFINE c == [row |-> Other, to |-> Other, old |-> NoRow, new |-> NoRow, end |-> TRUE]
  <2>1. c \in Change
    BY DEF Change, Row
  <2>2. ProperChange(c, Source)
    BY DEF ProperChange
  <2> QED
    BY <1>1, <1>3, <2>1, <2>2, LogChangeInv DEF Application, LogOther
<1> QED
  BY <1>2, <1>3 DEF Application
----------------------------------------------------------------------------
\* The writer replays the log.

\* What no step of the writer touches.
LEMMA WriterFrame ==
    ASSUME FerryInv, WriterProgress \/ WriterRetries
    PROVE  /\ Started /\ phase' = phase /\ caller' = caller
           /\ binlog' = binlog /\ versions' = versions
           /\ LogMatchesVersions' /\ UnloggedRowsAreStable' /\ BeforeRun' /\ BatchLocks'
           /\ CursorsAdvance'
           /\ \A r \in RowIds : Uncopied(r) => Uncopied(r)'
<1> USE DEF FerryInv, sourceVars, streamerVars, iteratorVars, ferryVars
<1>1. /\ Started
      /\ UNCHANGED <<sourceVars, streamerVars, iteratorVars, ferryVars>>
  BY DEF WriterProgress, WriterRetries
<1>2. LogMatchesVersions'
  BY <1>1 DEF LogMatchesVersions
<1>3. UnloggedRowsAreStable'
  BY <1>1 DEF UnloggedRowsAreStable, Source
<1>4. BeforeRun'
  BY <1>1 DEF BeforeRun, Started
<1>5. BatchLocks' /\ CursorsAdvance'
  BY <1>1 DEF BatchLocks, CursorsAdvance, RowLocked, Source
<1>6. \A r \in RowIds : Uncopied(r) => Uncopied(r)'
  BY <1>1 DEF Uncopied, RowLocked
<1> QED
  BY <1>1, <1>2, <1>3, <1>4, <1>5, <1>6

\* One statement of a batch: what the target and `undo' may hold moves on with exec.
LEMMA ExecuteStatementTracks ==
    ASSUME FerryInv, WriterProgress, ExecuteStatement
    PROVE  RowsTrackHistory' /\ UndoTracksHistory'
<1> DEFINE n == Len(binlog)
           i == exec + 1
<1>1. TypeOK
  BY DEF FerryInv
<1>2. /\ n \in Nat /\ exec \in Nat /\ applied \in Nat /\ applied <= exec
      /\ i \in 1..n /\ i - 1 = exec /\ exec' = i /\ applied' = applied
  BY SMTT(30), <1>1, PositionOrder DEF ExecuteStatement
<1>3. /\ phase # "crashed" /\ phase' = phase /\ binlog' = binlog /\ versions' = versions
      /\ \A r \in RowIds : Uncopied(r) => Uncopied(r)'
  BY WriterFrame DEF Started
<1>4. Other \notin RowIds
  BY DatabasesAssumption DEF RowIds
<1>5. /\ IsDML(i) => /\ binlog[i].to = binlog[i].row
                     /\ binlog[i].old = versions[exec][binlog[i].row]
                     /\ binlog[i].new = versions[i][binlog[i].row]
      /\ \A r \in RowIds : r # binlog[i].row => versions[i][r] = versions[exec][r]
  BY SMTT(30), <1>2 DEF FerryInv, LogMatchesVersions, IsDML
<1>6. target \in TableData
  BY <1>1 DEF TypeOK, DatabasesTypeOK
<1>7. \A r \in RowIds : Tracks(target[r], r, exec)
  BY <1>3 DEF FerryInv, RowsTrackHistory
<1>8. RowsTrackHistory'
  <2> SUFFICES ASSUME NEW r \in RowIds
               PROVE  \/ target'[r] = NoRow /\ Uncopied(r)
                      \/ \E p \in i..n : target'[r] = versions[p][r]
    BY <1>2, <1>3 DEF RowsTrackHistory, Tracks
  <2>1. \/ target[r] = NoRow /\ Uncopied(r)
        \/ target[r] = versions[exec][r]
        \/ \E p \in i..n : target[r] = versions[p][r]
    BY SMTT(30), <1>2, <1>7 DEF Tracks
  <2>2. CASE r # binlog[i].row
    <3>1. target'[r] = target[r]
      BY <1>2, <1>5, <1>6, <2>2 DEF ExecuteStatement, AsSQL, TableData
    <3> QED
      BY SMTT(30), <1>2, <1>5, <2>1, <2>2, <3>1
  <2>3. CASE r = binlog[i].row
    <3>1. IsDML(i)
      BY <1>4, <2>3 DEF IsDML
    <3>2. target'[r] = IF target[r] = versions[exec][r] THEN versions[i][r] ELSE target[r]
      BY <1>2, <1>5, <1>6, <2>3, <3>1 DEF ExecuteStatement, AsSQL, TableData
    <3> QED
      BY SMTT(30), <1>2, <2>1, <3>2
  <2> QED
    BY <2>2, <2>3
<1>9. UndoTracksHistory'
  <2> SUFFICES ASSUME NEW r \in RowIds, TargetLocked(r)'
               PROVE  \/ undo'[r] = NoRow /\ Uncopied(r)
                      \/ \E p \in applied..n : undo'[r] = versions[p][r]
    BY <1>2, <1>3 DEF UndoTracksHistory, Tracks
  <2>1. TargetLocked(r) \/ Touches(i, r)
    BY SMTT(30), <1>2, <1>3 DEF TargetLocked, Touches
  <2>2. undo'[r] = IF TargetLocked(r) THEN undo[r] ELSE target[r]
    BY <1>2, <2>1 DEF ExecuteStatement
  <2>3. CASE TargetLocked(r)
    BY <1>3, <2>2, <2>3 DEF FerryInv, UndoTracksHistory, Tracks
  <2>4. CASE ~TargetLocked(r)
    BY SMTT(30), <1>2, <1>7, <2>2, <2>4 DEF Tracks
  <2> QED
    BY <2>3, <2>4
<1> QED
  BY <1>8, <1>9

\* Every step of the writer keeps the invariant.
LEMMA WriterInv ==
    ASSUME FerryInv, WriterProgress \/ WriterRetries
    PROVE  FerryInv'
<1>1. TypeOK /\ TypeOK'
  BY WriterType DEF FerryInv
<1>2. /\ Started /\ phase' = phase /\ caller' = caller
      /\ binlog' = binlog /\ versions' = versions
      /\ LogMatchesVersions' /\ UnloggedRowsAreStable' /\ BeforeRun' /\ BatchLocks'
      /\ CursorsAdvance'
      /\ \A r \in RowIds : Uncopied(r) => Uncopied(r)'
  BY WriterFrame
<1>3. /\ applied \in Nat /\ exec \in Nat /\ taken \in Nat /\ sent \in Nat
      /\ Len(binlog) \in Nat /\ applied <= exec /\ exec <= taken /\ taken <= sent
  BY <1>1, PositionOrder
<1>4. UNCHANGED <<sourceVars, streamerVars, iteratorVars, ferryVars>>
  BY DEF WriterProgress, WriterRetries
<1>5. /\ phase # "crashed" /\ phase # "done"
      /\ \A r \in RowIds : Tracks(target[r], r, exec)
      /\ \A r \in RowIds : TargetLocked(r) => Tracks(undo[r], r, applied)
  BY <1>2 DEF FerryInv, RowsTrackHistory, UndoTracksHistory, Started
<1>6. Phases'
  BY <1>4, <1>5 DEF FerryInv, Phases, AllTablesCompleted, streamerVars, iteratorVars, ferryVars
<1>7. SUFFICES Stopping' /\ IdleWriter' /\ UndoTracksHistory' /\ RowsTrackHistory'
  BY <1>1, <1>2, <1>6 DEF FerryInv
<1>8. ASSUME writer' # "done" PROVE Stopping'
  BY <1>4, <1>8 DEF FerryInv, Stopping, sourceVars, streamerVars, ferryVars
<1>9. ASSUME UNCHANGED <<exec, applied, undo, target>>
      PROVE  UndoTracksHistory' /\ RowsTrackHistory'
  BY <1>2, <1>5, <1>9 DEF UndoTracksHistory, RowsTrackHistory, Tracks, TargetLocked, Touches
<1>10. ASSUME exec' = applied' PROVE UndoTracksHistory'
  <2>1. applied' \in Nat /\ exec' \in Nat
    BY SMTT(30), <1>1, <1>3, <1>4 DEF TypeOK, WriterTypeOK, streamerVars
  <2>2. \A x, y \in Nat : x = y => \A j \in x + 1..y : FALSE
    BY SMTT(30)
  <2>3. \A r \in RowIds : ~TargetLocked(r)'
    BY <1>10, <2>1, <2>2 DEF TargetLocked
  <2> QED
    BY <2>3 DEF UndoTracksHistory
<1>11. CASE ReceiveEvent
  BY <1>8, <1>9, <1>11 DEF ReceiveEvent, FerryInv, IdleWriter
<1>12. CASE BatchReady
  <2>1. UNCHANGED <<exec, applied, undo, target>>
    BY <1>12 DEF BatchReady, FerryInv, IdleWriter
  <2> QED
    BY <1>8, <1>9, <1>12, <2>1 DEF BatchReady, IdleWriter
<1>13. CASE WriterProgress /\ ExecuteStatement
  BY <1>8, <1>13, ExecuteStatementTracks DEF ExecuteStatement, IdleWriter
<1>14. CASE BatchWritten
  <2>1. RowsTrackHistory'
    BY <1>2, <1>5, <1>14 DEF BatchWritten, RowsTrackHistory, Tracks
  <2> QED
    BY <1>8, <1>10, <1>14, <2>1 DEF BatchWritten, IdleWriter
<1>15. CASE RetryWrite
  <2>1. \A r \in RowIds : Tracks(target[r], r, applied) /\ Tracks(CommittedTarget[r], r, applied)
    <3> TAKE r \in RowIds
    <3>1. Tracks(target[r], r, applied)
      BY SMTT(30), <1>3, <1>5 DEF Tracks
    <3> QED
      BY <1>5, <3>1 DEF CommittedTarget
  <2>2. RowsTrackHistory'
    <3>1. \A r \in RowIds : Tracks(target'[r], r, applied)
      BY <1>15, <2>1 DEF RetryWrite
    <3> QED
      BY <1>2, <1>15, <3>1 DEF RetryWrite, RowsTrackHistory, Tracks
  <2> QED
    BY <1>8, <1>10, <1>15, <2>2 DEF RetryWrite, IdleWriter
<1>16. CASE WriterReturns
  <2>1. UNCHANGED <<exec, applied, undo, target>> /\ exec = applied /\ streamer = "closed"
    BY <1>16 DEF WriterReturns, FerryInv, IdleWriter, BufferClosed
  <2>2. sent = Len(binlog)
    BY <2>1 DEF FerryInv, Stopping
  <2>3. \A j \in exec + 1..Len(binlog) : ~IsDML(j)
    BY SMTT(30), <1>3, <1>16, <2>1, <2>2 DEF WriterReturns, Batch, Buffered
  <2>4. Stopping'
    BY <1>4, <2>1, <2>3 DEF FerryInv, Stopping, IsDML, sourceVars, streamerVars, ferryVars
  <2> QED
    BY <1>9, <1>16, <2>1, <2>4 DEF WriterReturns, IdleWriter
<1> QED
  BY <1>11, <1>12, <1>13, <1>14, <1>15, <1>16 DEF WriterProgress, WriterRetries
----------------------------------------------------------------------------
\* The workers copy the tables.

\* A row before one of the first rows is one of the first rows.
LEMMA FirstRowsAreFirst ==
    ASSUME NEW data, NEW t, NEW k \in Nat, NEW m \in Nat,
           NEW last \in FirstRows(RowsAfter(data, t, k), m),
           NEW r \in RowsAfter(data, t, k), Pk(r) <= Pk(last)
    PROVE  r \in FirstRows(RowsAfter(data, t, k), m)
<1> DEFINE S == RowsAfter(data, t, k)
           Before(q) == {x \in S : Pk(x) < Pk(q)}
<1>1. IsFiniteSet({t} \X PKs)
  BY DatabasesAssumption, FS_Singleton, FS_Product
<1>2. S \subseteq {t} \X PKs
  BY DEF RowsAfter, RowIds, TableOf
<1>3. \A q \in S : Pk(q) \in Nat
  BY DatabasesAssumption DEF RowsAfter, RowIds, Pk
<1>4. last \in S /\ Cardinality(Before(last)) < m
  BY DEF FirstRows
<1>5. IsFiniteSet(Before(last))
  <2>1. Before(last) \subseteq {t} \X PKs
    BY <1>2
  <2> QED
    BY <1>1, <2>1, FS_Subset
<1>6. Before(r) \subseteq Before(last)
  BY SMTT(30), <1>3, <1>4
<1>7. Cardinality(Before(r)) <= Cardinality(Before(last)) /\ IsFiniteSet(Before(r))
  BY <1>5, <1>6, FS_Subset
<1>8. Cardinality(Before(r)) \in Nat /\ Cardinality(Before(last)) \in Nat
  BY <1>5, <1>7, FS_CardinalityType
<1> QED
  BY SMTT(30), <1>4, <1>7, <1>8 DEF FirstRows

\* What no step of a worker touches.
LEMMA IteratorFrame ==
    ASSUME FerryInv, NEW t \in Tables, IteratorProgress(t) \/ IteratorRetries(t)
    PROVE  /\ phase = "copying" /\ phase' = phase
           /\ UNCHANGED <<sourceVars, streamerVars, writerVars, ferryVars>>
           /\ LogMatchesVersions' /\ UnloggedRowsAreStable' /\ BeforeRun' /\ Phases'
           /\ Stopping' /\ IdleWriter'
           /\ \A r \in RowIds : TargetLocked(r)' => TargetLocked(r)
<1> USE DEF FerryInv, sourceVars, streamerVars, writerVars, ferryVars
<1>1. /\ phase = "copying"
      /\ UNCHANGED <<sourceVars, streamerVars, writerVars, ferryVars>>
  BY DEF IteratorProgress, IteratorRetries
<1>2. LogMatchesVersions'
  BY <1>1 DEF LogMatchesVersions
<1>3. UnloggedRowsAreStable'
  BY <1>1 DEF UnloggedRowsAreStable, Source
<1>4. BeforeRun' /\ Phases'
  BY <1>1 DEF BeforeRun, Phases
<1>5. Stopping'
  BY <1>1 DEF Stopping, IsDML
<1>6. IdleWriter'
  BY <1>1 DEF IdleWriter
<1>7. \A r \in RowIds : TargetLocked(r)' => TargetLocked(r)
  BY <1>1 DEF TargetLocked, Touches
<1> QED
  BY <1>1, <1>2, <1>3, <1>4, <1>5, <1>6, <1>7

\* A row the cursor leaves behind was absent from the source at that moment.
LEMMA LeftBehindRows ==
    ASSUME FerryInv, NEW t \in Tables, IteratorProgress(t), IteratorStep(t),
           NEW r \in RowIds, Uncopied(r)
    PROVE  Uncopied(r)' \/ \E p \in committed..Len(binlog) : versions[p][r] = NoRow
<1> DEFINE n == Len(binlog)
<1>1. TypeOK
  BY DEF FerryInv
<1>2. /\ committed \in Nat /\ n \in Nat /\ committed <= n
      /\ committed \in committed..n /\ n \in committed..n
  BY SMTT(30), <1>1, PositionOrder
<1>3. /\ cursor \in [Tables -> {"unread", "queued", "idle", "holding", "done"}]
      /\ maxPk \in [Tables -> Nat] /\ lastPk \in [Tables -> Nat] /\ pkPos \in [Tables -> Nat]
  BY <1>1 DEF TypeOK, IteratorTypeOK
<1>4. TableOf(r) \in Tables /\ Pk(r) \in Nat /\ Pk(r) > 0
  <2>1. TableOf(r) \in Tables /\ Pk(r) \in PKs
    BY DEF RowIds, TableOf, Pk
  <2>2. Pk(r) \in Nat /\ Pk(r) # 0
    BY <2>1, DatabasesAssumption
  <2> QED
    BY SMTT(30), <2>1, <2>2
<1>5. CASE TableOf(r) # t
  <2>1. /\ cursor'[TableOf(r)] = cursor[TableOf(r)] /\ maxPk'[TableOf(r)] = maxPk[TableOf(r)]
        /\ lastPk'[TableOf(r)] = lastPk[TableOf(r)] /\ pkPos'[TableOf(r)] = pkPos[TableOf(r)]
    BY <1>3, <1>4, <1>5 DEF IteratorStep, ReadMaxPrimaryKey, WorkerTakesTable, Fetch, CompleteTable
  <2>2. RowLocked(r) => RowLocked(r)'
    BY <1>5 DEF IteratorStep, ReadMaxPrimaryKey, WorkerTakesTable, Fetch, CompleteTable,
       RowLocked, FirstRows, RowsAfter
  <2> QED
    BY <2>1, <2>2 DEF Uncopied
<1>6. CASE TableOf(r) = t /\ ReadMaxPrimaryKey(t)
  <2> DEFINE rows == RowsAfter(CommittedSource, t, 0)
  <2>1. r \notin rows => versions[committed][r] = NoRow
    BY <1>4, <1>6 DEF RowsAfter, CommittedSource
  <2>2. CASE rows = {}
    BY <1>2, <2>1, <2>2
  <2>3. ASSUME NEW q \in rows, \A x \in rows : Pk(x) <= Pk(q),
               cursor' = [cursor EXCEPT ![t] = "queued"],
               maxPk' = [maxPk EXCEPT ![t] = Pk(q)]
        PROVE  Uncopied(r)' \/ r \notin rows
    <3>1. lastPk'[t] = 0
      BY <1>6 DEF ReadMaxPrimaryKey, FerryInv, CursorsAdvance
    <3> QED
      BY <1>3, <1>4, <1>6, <2>3, <3>1 DEF Uncopied
  <2> QED
    BY <1>2, <1>6, <2>1, <2>2, <2>3 DEF ReadMaxPrimaryKey
<1>7. CASE TableOf(r) = t /\ WorkerTakesTable(t)
  BY <1>3, <1>7 DEF WorkerTakesTable, Uncopied
<1>8. CASE TableOf(r) = t /\ Fetch(t)
  <2> DEFINE rows == RowsAfter(Source, t, lastPk[t])
             batch == FirstRows(rows, IterationBatchSize)
  <2>1. lastPk[t] < Pk(r) /\ Pk(r) <= maxPk[t] /\ cursor[t] = "idle"
    BY <1>8 DEF Fetch, Uncopied
  <2>2. r \notin rows => versions[n][r] = NoRow
    BY <1>3, <1>4, <1>8, <2>1 DEF RowsAfter, Source
  <2>3. CASE rows = {}
    BY <1>2, <2>2, <2>3
  <2>4. ASSUME r \in rows, NEW last \in batch, \A x \in batch : Pk(x) <= Pk(last),
               cursor' = [cursor EXCEPT ![t] = "holding"],
               pkPos' = [pkPos EXCEPT ![t] = Pk(last)],
               fetched' = [x \in RowIds |-> IF x \in batch THEN Source[x] ELSE fetched[x]]
        PROVE  Uncopied(r)'
    <3>1. last \in RowIds
      BY DEF FirstRows, RowsAfter
    <3>2. Pk(last) \in Nat
      BY <3>1, DatabasesAssumption DEF RowIds, Pk
    <3>3. Pk(r) <= Pk(last) => r \in batch
      BY <1>3, <2>4, FirstRowsAreFirst, DataIteratorAssumption
    <3>4. r \in batch => RowLocked(r)'
      BY <2>4 DEF RowLocked, RowsAfter
    <3>5. cursor'[t] = "holding" /\ pkPos'[t] = Pk(last)
      BY <1>3, <2>4
    <3>6. lastPk' = lastPk /\ maxPk' = maxPk
      BY <1>8 DEF Fetch
    <3>7. lastPk'[t] < Pk(r) /\ Pk(r) <= maxPk'[t]
      BY <2>1, <3>6
    <3>8. pkPos'[t] < Pk(r) \/ RowLocked(r)'
      BY SMTT(30), <1>4, <3>2, <3>3, <3>4, <3>5
    <3> QED
      BY <1>8, <3>5, <3>7, <3>8 DEF Uncopied
  <2> QED
    BY <1>2, <1>8, <2>2, <2>3, <2>4 DEF Fetch
<1>9. CASE TableOf(r) = t /\ CompleteTable(t)
  <2>1. cursor[t] = "idle" /\ ~(lastPk[t] < maxPk[t])
    BY <1>9 DEF CompleteTable, MoreToCopy
  <2>2. lastPk[t] < Pk(r) /\ Pk(r) <= maxPk[t]
    BY <1>9, <2>1 DEF Uncopied
  <2>3. lastPk[t] \in Nat /\ maxPk[t] \in Nat
    BY <1>3
  <2> QED
    BY SMTT(30), <1>4, <2>1, <2>2, <2>3
<1> QED
  BY <1>5, <1>6, <1>7, <1>8, <1>9 DEF IteratorStep
\* A step that leaves the target alone keeps its rows on track.
LEMMA IteratorStepTracks ==
    ASSUME FerryInv, NEW t \in Tables, IteratorProgress(t), IteratorStep(t)
    PROVE  RowsTrackHistory' /\ UndoTracksHistory'
<1> DEFINE n == Len(binlog)
<1>1. /\ committed \in Nat /\ n \in Nat /\ exec \in Nat /\ applied \in Nat
      /\ exec <= committed /\ applied <= committed
  BY SMTT(30), PositionOrder DEF FerryInv
<1>2. /\ phase # "crashed" /\ phase' = phase /\ target' = target /\ undo' = undo
      /\ binlog' = binlog /\ versions' = versions /\ exec' = exec /\ applied' = applied
      /\ \A r \in RowIds : TargetLocked(r)' => TargetLocked(r)
  BY IteratorFrame DEF sourceVars, writerVars, IteratorStep, ReadMaxPrimaryKey,
     WorkerTakesTable, Fetch, CompleteTable
<1>3. \A r \in RowIds : Uncopied(r) =>
          Uncopied(r)' \/ \E p \in committed..n : versions[p][r] = NoRow
  BY LeftBehindRows
<1>4. RowsTrackHistory'
  <2> SUFFICES ASSUME NEW r \in RowIds
               PROVE  \/ target[r] = NoRow /\ Uncopied(r)'
                      \/ \E p \in exec..n : target[r] = versions[p][r]
    BY <1>2 DEF RowsTrackHistory, Tracks
  <2>1. Tracks(target[r], r, exec)
    BY <1>2 DEF FerryInv, RowsTrackHistory
  <2> QED
    BY SMTT(30), <1>1, <1>3, <2>1 DEF Tracks
<1>5. UndoTracksHistory'
  <2> SUFFICES ASSUME NEW r \in RowIds, TargetLocked(r)
               PROVE  \/ undo[r] = NoRow /\ Uncopied(r)'
                      \/ \E p \in applied..n : undo[r] = versions[p][r]
    BY <1>2 DEF UndoTracksHistory, Tracks
  <2>1. Tracks(undo[r], r, applied)
    BY <1>2 DEF FerryInv, UndoTracksHistory
  <2> QED
    BY SMTT(30), <1>1, <1>3, <2>1 DEF Tracks
<1> QED
  BY <1>4, <1>5

\* Inserting the rows of a batch, which are current, keeps the target on track.
LEMMA InsertTracks ==
    ASSUME FerryInv, NEW t \in Tables, phase # "crashed",
           NEW r \in RowIds
    PROVE  /\ Tracks(InsertIgnoreBatch(t, target)[r], r, exec)
           /\ TableOf(r) = t /\ RowLocked(r) =>
                 \E p \in exec..Len(binlog) :
                     InsertIgnoreBatch(t, target)[r] = versions[p][r]
<1>1. /\ exec \in Nat /\ Len(binlog) \in Nat /\ Len(binlog) \in exec..Len(binlog)
  BY SMTT(30), PositionOrder DEF FerryInv
<1>2. Tracks(target[r], r, exec)
  BY DEF FerryInv, RowsTrackHistory
<1>3. RowLocked(r) => fetched[r] = versions[Len(binlog)][r]
  BY DEF FerryInv, BatchLocks, Source
<1>4. InsertIgnoreBatch(t, target)[r] =
        IF TableOf(r) = t /\ RowLocked(r) /\ target[r] = NoRow
          THEN fetched[r] ELSE target[r]
  BY DEF InsertIgnoreBatch, RowLocked
<1> QED
  BY <1>1, <1>2, <1>3, <1>4 DEF Tracks
\* A write of a batch, answered or not, keeps the rows on track.
LEMMA BatchWriteTracks ==
    ASSUME FerryInv, NEW t \in Tables,
           \/ IteratorRetries(t)
           \/ IteratorProgress(t) /\ ~InsertWaits(t) /\ WriteRowBatch(t)
    PROVE  RowsTrackHistory' /\ UndoTracksHistory'
<1> DEFINE n == Len(binlog)
<1>1. /\ phase # "crashed" /\ phase' = phase /\ undo' = undo
      /\ binlog' = binlog /\ versions' = versions /\ exec' = exec /\ applied' = applied
      /\ \A r \in RowIds : TargetLocked(r)' => TargetLocked(r)
  BY IteratorFrame DEF sourceVars, writerVars
<1>2. /\ cursor \in [Tables -> {"unread", "queued", "idle", "holding", "done"}]
      /\ maxPk \in [Tables -> Nat] /\ lastPk \in [Tables -> Nat] /\ pkPos \in [Tables -> Nat]
  BY DEF FerryInv, TypeOK, IteratorTypeOK
<1>3. target' = target \/ target' = InsertIgnoreBatch(t, target)
  BY DEF IteratorRetries, RetryRowBatch, WriteRowBatch
<1>4. \A r \in RowIds : Tracks(target'[r], r, exec)
  BY <1>1, <1>3, InsertTracks DEF FerryInv, RowsTrackHistory
<1>5. ~InsertWaits(t)
  BY DEF IteratorRetries
<1>6. ASSUME NEW r \in RowIds, Uncopied(r), ~(TableOf(r) = t /\ RowLocked(r) /\ WriteRowBatch(t))
      PROVE  Uncopied(r)'
  <2>1. CASE IteratorRetries(t)
    BY <1>6, <2>1 DEF IteratorRetries, RetryRowBatch, Uncopied, RowLocked
  <2>2. CASE WriteRowBatch(t) /\ TableOf(r) # t
    <3>1. /\ cursor'[TableOf(r)] = cursor[TableOf(r)] /\ maxPk' = maxPk /\ pkPos' = pkPos
          /\ lastPk'[TableOf(r)] = lastPk[TableOf(r)]
      BY SMTT(30), <1>2, <2>2 DEF WriteRowBatch
    <3>2. RowLocked(r) => RowLocked(r)'
      BY <2>2 DEF WriteRowBatch, RowLocked
    <3> QED
      BY <1>6, <3>1, <3>2 DEF Uncopied
  <2>3. CASE WriteRowBatch(t) /\ TableOf(r) = t
    <3>1. /\ cursor[t] = "holding" /\ cursor'[t] = "idle" /\ maxPk' = maxPk
          /\ lastPk'[t] = pkPos[t]
      BY <1>2, <2>3 DEF WriteRowBatch
    <3> QED
      BY <1>6, <2>3, <3>1 DEF Uncopied
  <2> QED
    BY <2>1, <2>2, <2>3
<1>7. RowsTrackHistory'
  <2> SUFFICES ASSUME NEW r \in RowIds
               PROVE  \/ target'[r] = NoRow /\ Uncopied(r)'
                      \/ \E p \in exec..n : target'[r] = versions[p][r]
    BY <1>1 DEF RowsTrackHistory, Tracks
  <2>1. CASE TableOf(r) = t /\ RowLocked(r) /\ WriteRowBatch(t)
    BY <1>1, <2>1, InsertTracks DEF WriteRowBatch
  <2>2. CASE ~(TableOf(r) = t /\ RowLocked(r) /\ WriteRowBatch(t))
    BY <1>4, <1>6, <2>2 DEF Tracks
  <2> QED
    BY <2>1, <2>2
<1>8. UndoTracksHistory'
  <2> SUFFICES ASSUME NEW r \in RowIds, TargetLocked(r)
               PROVE  \/ undo[r] = NoRow /\ Uncopied(r)'
                      \/ \E p \in applied..n : undo[r] = versions[p][r]
    BY <1>1 DEF UndoTracksHistory, Tracks
  <2>1. Tracks(undo[r], r, applied)
    BY <1>1 DEF FerryInv, UndoTracksHistory
  <2>2. ~(TableOf(r) = t /\ RowLocked(r))
    BY <1>5 DEF InsertWaits
  <2> QED
    BY <1>6, <2>1, <2>2 DEF Tracks
<1> QED
  BY <1>7, <1>8

\* Every step of a worker keeps the invariant.
LEMMA IteratorInv ==
    ASSUME FerryInv, NEW t \in Tables, IteratorProgress(t) \/ IteratorRetries(t)
    PROVE  FerryInv'
<1>1. TypeOK /\ TypeOK'
  BY IteratorType DEF FerryInv
<1>2. /\ UNCHANGED <<sourceVars, streamerVars, writerVars, ferryVars>>
      /\ LogMatchesVersions' /\ UnloggedRowsAreStable' /\ BeforeRun' /\ Phases'
      /\ Stopping' /\ IdleWriter'
  BY IteratorFrame
<1>3. Source' = Source
  BY <1>2 DEF Source, sourceVars
<1>4. /\ cursor \in [Tables -> {"unread", "queued", "idle", "holding", "done"}]
      /\ lastPk \in [Tables -> Nat] /\ pkPos \in [Tables -> Nat]
  BY <1>1 DEF TypeOK, IteratorTypeOK
<1>5. \A r \in RowIds : RowLocked(r) => fetched[r] = Source[r] /\ cursor[TableOf(r)] = "holding"
  BY DEF FerryInv, BatchLocks
<1>6. \A r \in RowIds : TableOf(r) \in Tables
  BY DEF RowIds, TableOf
<1>7. BatchLocks' /\ CursorsAdvance'
  <2>1. CASE IteratorRetries(t)
    BY <1>3, <2>1 DEF IteratorRetries, RetryRowBatch, FerryInv, BatchLocks, CursorsAdvance, RowLocked
  <2>2. CASE ReadMaxPrimaryKey(t)
    <3>1. /\ cursor[t] = "unread" /\ lastPk' = lastPk /\ pkPos' = pkPos /\ fetched' = fetched
          /\ \A u \in Tables : u # t => cursor'[u] = cursor[u]
          /\ cursor'[t] # "unread" /\ cursor'[t] # "holding"
      BY <1>4, <2>2 DEF ReadMaxPrimaryKey
    <3> QED
      BY <1>3, <1>5, <1>6, <3>1 DEF FerryInv, BatchLocks, CursorsAdvance, RowLocked
  <2>3. CASE WorkerTakesTable(t) \/ CompleteTable(t)
    <3>1. /\ cursor[t] # "holding" /\ lastPk' = lastPk /\ pkPos' = pkPos /\ fetched' = fetched
          /\ \A u \in Tables : u # t => cursor'[u] = cursor[u]
          /\ cursor'[t] # "unread" /\ cursor'[t] # "holding"
      BY <1>4, <2>3 DEF WorkerTakesTable, CompleteTable
    <3> QED
      BY <1>3, <1>5, <1>6, <3>1 DEF FerryInv, BatchLocks, CursorsAdvance, RowLocked
  <2>4. CASE Fetch(t)
    <3> DEFINE batch == FirstRows(RowsAfter(Source, t, lastPk[t]), IterationBatchSize)
    <3>1. /\ cursor[t] = "idle" /\ lastPk' = lastPk
          /\ \A u \in Tables : u # t => cursor'[u] = cursor[u]
          /\ cursor'[t] # "unread"
      BY <1>4, <2>4 DEF Fetch
    <3>2. \/ fetched' = fetched
          \/ /\ cursor'[t] = "holding"
             /\ fetched' = [r \in RowIds |-> IF r \in batch THEN Source[r] ELSE fetched[r]]
      BY <1>4, <2>4 DEF Fetch
    <3>3. \A r \in batch : TableOf(r) = t /\ lastPk[t] < Pk(r)
      BY DEF FirstRows, RowsAfter
    <3>4. \/ cursor'[t] = "done" /\ pkPos' = pkPos
          \/ \E r \in batch : pkPos' = [pkPos EXCEPT ![t] = Pk(r)]
      BY <1>4, <2>4 DEF Fetch
    <3> HIDE DEF batch
    <3>5. BatchLocks'
      BY <1>3, <1>5, <1>6, <3>1, <3>2, <3>3 DEF BatchLocks, RowLocked
    <3>6. /\ \A u \in Tables : u # t => pkPos'[u] = pkPos[u]
          /\ cursor'[t] = "holding" => lastPk[t] < pkPos'[t]
      BY <1>4, <3>3, <3>4
    <3> QED
      BY <3>1, <3>5, <3>6 DEF FerryInv, CursorsAdvance
  <2>5. CASE WriteRowBatch(t)
    <3>1. /\ fetched' = [r \in RowIds |-> IF TableOf(r) = t THEN NoRow ELSE fetched[r]]
          /\ pkPos' = pkPos
          /\ \A u \in Tables : u # t => cursor'[u] = cursor[u] /\ lastPk'[u] = lastPk[u]
          /\ cursor'[t] = "idle"
      BY <1>4, <2>5 DEF WriteRowBatch
    <3> QED
      BY <1>3, <1>5, <1>6, <3>1 DEF FerryInv, BatchLocks, CursorsAdvance, RowLocked
  <2> QED
    BY <2>1, <2>2, <2>3, <2>4, <2>5 DEF IteratorProgress, IteratorStep
<1>8. RowsTrackHistory' /\ UndoTracksHistory'
  BY IteratorStepTracks, BatchWriteTracks DEF IteratorProgress
<1> QED
  BY <1>1, <1>2, <1>7, <1>8 DEF FerryInv
----------------------------------------------------------------------------
\* The ferry's own steps.

\* The part of the invariant that is about the databases, the writer and the workers.
LEMMA FerryFrame ==
    ASSUME FerryInv, UNCHANGED <<versions, binlog, target, writerVars, iteratorVars>>,
           phase' # "crashed" => phase # "crashed"
    PROVE  /\ LogMatchesVersions' /\ UnloggedRowsAreStable' /\ BatchLocks' /\ CursorsAdvance'
           /\ IdleWriter' /\ UndoTracksHistory' /\ RowsTrackHistory'
<1> USE DEF FerryInv, writerVars, iteratorVars
<1>1. LogMatchesVersions' /\ UnloggedRowsAreStable'
  BY DEF LogMatchesVersions, UnloggedRowsAreStable, Source
<1>2. BatchLocks' /\ CursorsAdvance' /\ IdleWriter'
  BY DEF BatchLocks, CursorsAdvance, IdleWriter, RowLocked, Source
<1>3. RowsTrackHistory'
  BY DEF RowsTrackHistory, Tracks, Uncopied, RowLocked
<1>4. UndoTracksHistory'
  BY DEF UndoTracksHistory, Tracks, Uncopied, RowLocked, TargetLocked, Touches
<1> QED
  BY <1>1, <1>2, <1>3, <1>4

\* Start: nothing is copied yet, so the replay may begin where the log ends now.
LEMMA StartInv ==
    ASSUME FerryInv, Start
    PROVE  FerryInv'
<1> USE DEF FerryInv, Start, ConnectBinlogStreamerToMysql, sourceVars, iteratorVars, ferryVars
<1>1. TypeOK /\ TypeOK'
  BY FerryStepType DEF FerryStep
<1>2. /\ phase = "starting" /\ cursor = [t \in Tables |-> "unread"]
      /\ target = [r \in RowIds |-> NoRow] /\ writer = "gather" /\ ~stopRequested
      /\ caller = "row_copy" /\ fetched = NothingFetched
  BY DEF BeforeRun
<1>3. LogMatchesVersions' /\ UnloggedRowsAreStable'
  BY DEF LogMatchesVersions, UnloggedRowsAreStable, Source
<1>4. BatchLocks' /\ CursorsAdvance' /\ IdleWriter'
  BY DEF BatchLocks, CursorsAdvance, IdleWriter, RowLocked, Source
<1>5. BeforeRun'
  BY <1>2 DEF BeforeRun
<1>6. Phases'
  BY <1>2 DEF Phases, AllTablesCompleted
<1>7. Stopping'
  BY <1>2 DEF Stopping
<1>8. RowsTrackHistory'
  <2>1. \A r \in RowIds : target'[r] = NoRow /\ cursor'[TableOf(r)] = "unread"
    BY <1>2 DEF RowIds, TableOf
  <2> QED
    BY <2>1 DEF RowsTrackHistory, Tracks, Uncopied
<1>9. UndoTracksHistory'
  <2>1. committed \in Nat
    BY <1>1, PositionOrder
  <2>2. \A x \in Nat : \A j \in x + 1..x : FALSE
    BY SMTT(30)
  <2>3. \A r \in RowIds : ~TargetLocked(r)'
    BY <2>1, <2>2 DEF TargetLocked
  <2> QED
    BY <2>3 DEF UndoTracksHistory
<1> QED
  BY <1>1, <1>3, <1>4, <1>5, <1>6, <1>7, <1>8, <1>9

\* Fatal and Restart: everything is as at first, except the log and the source.
LEMMA CrashInv ==
    ASSUME FerryInv, Fatal \/ Restart
    PROVE  FerryInv'
<1> USE DEF FerryInv
<1>1. TypeOK /\ TypeOK'
  BY FerryStepType DEF FerryStep
<1>2. /\ binlog' = binlog /\ versions' = versions /\ committed' = committed
      /\ phase' \in {"crashed", "starting"}
      /\ writesStopped' => writesStopped
  BY SMTT(30) DEF Fatal, Restart, NewRun, sourceVars
<1>3. /\ cursor' = [t \in Tables |-> "unread"] /\ fetched' = NothingFetched
      /\ writer' = "gather" /\ streamer' \in {"off", "connected"} /\ ~stopRequested'
      /\ caller' = "row_copy"
      /\ phase' = "starting" => target' = [r \in RowIds |-> NoRow]
  BY SMTT(30)
     DEF Fatal, MemoryIsLost, Restart, NewRun, BeforeRun, streamerVars, writerVars, iteratorVars
<1>4. LogMatchesVersions' /\ UnloggedRowsAreStable'
  BY SMTT(30), <1>2 DEF LogMatchesVersions, UnloggedRowsAreStable, Source
<1>5. BeforeRun' /\ Phases'
  BY <1>2, <1>3 DEF BeforeRun, Phases
<1>6. Stopping'
  BY <1>2, <1>3 DEF Stopping
<1>7. BatchLocks'
  BY <1>3 DEF BatchLocks, RowLocked, NothingFetched
<1>8. CursorsAdvance' /\ IdleWriter'
  BY DEF Fatal, MemoryIsLost, Restart, NewRun, CursorsAdvance, IdleWriter, writerVars, iteratorVars
<1>9. RowsTrackHistory'
  <2> SUFFICES ASSUME phase' # "crashed" PROVE \A r \in RowIds : Tracks(target[r], r, exec)'
    BY DEF RowsTrackHistory
  <2>1. \A r \in RowIds : target'[r] = NoRow /\ cursor'[TableOf(r)] = "unread"
    BY <1>2, <1>3 DEF RowIds, TableOf
  <2> QED
    BY <2>1 DEF Tracks, Uncopied
<1>10. UndoTracksHistory'
  <2>1. applied' \in Nat /\ exec' = applied'
    BY SMTT(30), <1>1, <1>3, <1>8, PositionOrder
       DEF IdleWriter, Fatal, MemoryIsLost, Restart, NewRun, writerVars
  <2>2. \A x \in Nat : \A j \in x + 1..x : FALSE
    BY SMTT(30)
  <2>3. \A r \in RowIds : ~TargetLocked(r)'
    BY <2>1, <2>2 DEF TargetLocked
  <2> QED
    BY <2>3 DEF UndoTracksHistory
<1> QED
  BY <1>1, <1>4, <1>5, <1>6, <1>7, <1>8, <1>9, <1>10

\* The steps of ferry.go keep the invariant.
LEMMA FerryStepInv ==
    ASSUME FerryInv, FerryStep
    PROVE  FerryInv'
<1>1. TypeOK /\ TypeOK'
  BY FerryStepType DEF FerryInv
<1>2. /\ sent \in Nat /\ pos \in Nat /\ targetPos \in Nat /\ committed \in Nat
      /\ Len(binlog) \in Nat /\ pos <= sent /\ sent <= committed /\ committed <= Len(binlog)
  BY <1>1, PositionOrder
<1>3. CASE Start \/ Fatal \/ Restart
  BY <1>3, StartInv, CrashInv
<1>4. ASSUME UNCHANGED <<versions, binlog, target, writerVars, iteratorVars>>,
             phase' # "crashed" => phase # "crashed",
             BeforeRun' /\ Phases' /\ Stopping'
      PROVE  FerryInv'
  BY <1>1, <1>4, FerryFrame DEF FerryInv
<1> USE DEF FerryInv, Running, Started, BeforeRun, Phases, Stopping, AllTablesCompleted, IsDML,
        sourceVars, streamerVars, writerVars, iteratorVars, ferryVars
<1>5. CASE LockSource
  BY <1>4, <1>5 DEF LockSource, StopWrites
<1>6. CASE HandleCutover
  BY <1>4, <1>6 DEF HandleCutover
<1>7. CASE Run
  BY <1>4, <1>7 DEF Run
<1>8. CASE StreamerSteps
  <2>1. CASE StreamerSteps /\ StreamEvent
    BY <1>4, <2>1 DEF StreamerSteps, StreamEvent
  <2>2. CASE StreamerSteps /\ StreamerReturns
    <3>1. stopRequested /\ ~(pos < targetPos) /\ sent = pos
      BY <2>2 DEF StreamerReturns, KeepStreaming
    <3>2. targetPos = Len(binlog)
      BY <3>1
    <3>3. sent = Len(binlog)
      BY SMTT(30), <1>2, <3>1, <3>2
    <3> QED
      BY <1>4, <2>2, <3>1, <3>3 DEF StreamerSteps, StreamerReturns
  <2> QED
    BY <1>8, <2>1, <2>2 DEF StreamerSteps
<1>9. CASE OnFinishedIterations
  BY <1>4, <1>9 DEF OnFinishedIterations
<1>10. CASE EnterCutover
  BY <1>4, <1>10 DEF EnterCutover
<1>11. CASE WaitUntilRowCopyIsComplete
  BY <1>4, <1>11 DEF WaitUntilRowCopyIsComplete, CallerMoves
<1>12. CASE WaitUntilBinlogStreamerCatchesUp
  BY <1>4, <1>12 DEF WaitUntilBinlogStreamerCatchesUp, CallerMoves
<1>13. CASE FlushReadsPosition
  BY <1>4, <1>13 DEF FlushReadsPosition, CallerMoves, ReadTargetPosition
<1>14. CASE FlushRequestsStop
  BY <1>4, <1>14 DEF FlushRequestsStop, CallerMoves, RequestStop
<1>15. CASE RunReturns
  BY <1>4, <1>15 DEF RunReturns, CallerMoves, CoreServicesDone
<1>16. CASE Ended
  BY <1>4, <1>16 DEF Ended, vars
<1> QED
  BY <1>3, <1>5, <1>6, <1>7, <1>8, <1>9, <1>10, <1>11, <1>12, <1>13, <1>14, <1>15, <1>16
     DEF FerryStep

----------------------------------------------------------------------------

\* FerryInv holds at first.
LEMMA InitInv ==
    ASSUME Init
    PROVE  FerryInv
<1> USE DEF Init, InitSource, StreamerInit, WriterInit, IteratorInit
<1>1. TypeOK
  BY InitType
<1>2. LogMatchesVersions /\ UnloggedRowsAreStable
  BY SMTT(30) DEF LogMatchesVersions, UnloggedRowsAreStable, Source
<1>3. BeforeRun /\ Phases /\ Stopping
  BY DEF BeforeRun, Phases, Stopping
<1>4. BatchLocks /\ CursorsAdvance /\ IdleWriter
  BY DEF BatchLocks, CursorsAdvance, IdleWriter, RowLocked, NothingFetched
<1>5. RowsTrackHistory
  <2>1. \A r \in RowIds : target[r] = NoRow /\ cursor[TableOf(r)] = "unread"
    BY DEF RowIds, TableOf
  <2> QED
    BY <2>1 DEF RowsTrackHistory, Tracks, Uncopied
<1>6. UndoTracksHistory
  BY SMTT(30) DEF UndoTracksHistory, TargetLocked
<1> QED
  BY <1>1, <1>2, <1>3, <1>4, <1>5, <1>6 DEF FerryInv

\* FerryInv is kept by every step.
LEMMA NextInv ==
    ASSUME FerryInv, [Next]_vars
    PROVE  FerryInv'
<1>1. CASE Next
  BY <1>1, NextCases, ApplicationInv, WriterInv, IteratorInv, FerryStepInv
<1>2. CASE UNCHANGED vars
  <2>1. TypeOK'
    BY <1>2, NextType DEF FerryInv
  <2>2. UNCHANGED <<versions, binlog, target, writerVars, iteratorVars>> /\ phase' = phase
    BY <1>2 DEF vars, sourceVars, ferryVars
  <2>3. BeforeRun' /\ Phases' /\ Stopping'
    BY <1>2 DEF FerryInv, BeforeRun, Phases, Stopping, AllTablesCompleted, IsDML, vars,
       sourceVars, streamerVars, writerVars, iteratorVars, ferryVars
  <2> QED
    BY <2>1, <2>2, <2>3, FerryFrame DEF FerryInv
<1> QED
  BY <1>1, <1>2

\* FerryInv is an invariant.
THEOREM Invariance == Spec => []FerryInv
<1>1. Init => FerryInv
  BY InitInv
<1>2. FerryInv /\ [Next]_vars => FerryInv'
  BY NextInv
<1> QED
  BY <1>1, <1>2, PTL DEF Spec

\* In every reachable state the rows on the target are on track (the race between
\* cursor.go and binlog_writer.go does no harm).
THEOREM RowsStayOnTrack == Spec => []RowsTrackHistory
<1>1. FerryInv => RowsTrackHistory
  BY DEF FerryInv
<1> QED
  BY <1>1, Invariance, PTL

\* The batch in flight is always current (the transaction of cursor.go, Each).
THEOREM BatchesStayCurrent == Spec => []BatchIsCurrent
<1>1. FerryInv => BatchIsCurrent
  BY DEF FerryInv, BatchLocks, BatchIsCurrent
<1> QED
  BY <1>1, Invariance, PTL

\* The streamer stops behind the last change, never before (FlushAndStop).
THEOREM StreamerStopsBehindLog == Spec => []StopPointCoversLog
<1>1. FerryInv => StopPointCoversLog
  BY DEF FerryInv, Stopping, StopPointCoversLog
<1> QED
  BY <1>1, Invariance, PTL

\* At the end of a run target and source are equal (ferry.go, Run).
LEMMA ConsistentAtEnd ==
    ASSUME FerryInv
    PROVE  CutoverConsistent
<1> SUFFICES ASSUME phase = "done"
             PROVE  target = Source /\ CommittedTarget = Source
  BY DEF CutoverConsistent
<1>1. TypeOK
  BY DEF FerryInv
<1>2. Source \in TableData /\ target \in TableData
  BY <1>1, SourceType DEF TypeOK, DatabasesTypeOK
<1>3. writer = "done" /\ AllTablesCompleted /\ exec = applied
  BY DEF FerryInv, Phases, IdleWriter
<1>4. \A i \in exec + 1..Len(binlog) : ~IsDML(i)
  BY <1>3 DEF FerryInv, Stopping
<1>5. exec \in Nat /\ applied \in Nat /\ Len(binlog) \in Nat
  BY <1>1, PositionOrder
<1>6. Other \notin RowIds
  BY DatabasesAssumption DEF RowIds
<1>7. ASSUME NEW r \in RowIds PROVE target[r] = Source[r]
  <2>1. ~Uncopied(r)
    BY <1>3 DEF AllTablesCompleted, Uncopied, RowIds, TableOf
  <2>2. PICK p \in exec..Len(binlog) : target[r] = versions[p][r]
    BY <2>1 DEF FerryInv, RowsTrackHistory, Tracks
  <2>3. p \in 0..Len(binlog) /\ \A i \in p + 1..Len(binlog) : binlog[i].row # r
    BY SMTT(30), <1>4, <1>5, <1>6 DEF IsDML
  <2> QED
    BY <2>2, <2>3 DEF FerryInv, UnloggedRowsAreStable
<1>8. target = Source
  BY SMTT(30), <1>2, <1>7 DEF TableData
<1>9. \A r \in RowIds : ~TargetLocked(r)
  <2>1. \A x \in Nat : \A j \in x + 1..x : FALSE
    BY SMTT(30)
  <2> QED
    BY <1>3, <1>5, <2>1 DEF TargetLocked
<1>10. CommittedTarget = target
  BY <1>2, <1>9 DEF CommittedTarget, TableData
<1> QED
  BY <1>8, <1>10

\* A run that ends without a fatal error leaves source and target equal, for any
\* tables, rows, batch sizes, concurrency, retries and earlier failed runs.
THEOREM FerryIsCorrect == Spec => []CutoverConsistent
<1>1. FerryInv => CutoverConsistent
  BY ConsistentAtEnd
<1> QED
  BY <1>1, Invariance, PTL

----------------------------------------------------------------------------
\* Ferry implements DataMove: initial states map to initial states, and every step
\* to a step of DataMove or to no step.

\* Rows on track hold a value they had.
LEMMA TrackedRows ==
    ASSUME FerryInv, phase # "crashed", NEW r \in RowIds
    PROVE  \/ target[r] = NoRow /\ r \in Pending
           \/ \E p \in applied..Len(binlog) : target[r] = versions[p][r]
<1>1. Tracks(target[r], r, exec)
  BY DEF FerryInv, RowsTrackHistory
<1>2. exec \in Nat /\ applied \in Nat /\ applied <= exec /\ Len(binlog) \in Nat
  BY PositionOrder DEF FerryInv
<1> QED
  BY SMTT(30), <1>1, <1>2 DEF Tracks, Pending

\* The application's steps are those of the source.
LEMMA ApplicationRefines ==
    ASSUME FerryInv, Application
    PROVE  Abstract!SourceChanges
<1>1. TypeOK
  BY DEF FerryInv
<1>2. PICK c \in Change, data \in TableData : LogChange(c, data)
  <2> USE SourceType
  <2>1. ASSUME NEW r \in RowIds, NEW v \in Row, NEW end \in BOOLEAN,
               ApplicationWrites(r, v, end)
        PROVE  \E c \in Change, data \in TableData : LogChange(c, data)
    <3> DEFINE c == [row |-> r, to |-> r, old |-> Source[r], new |-> v, end |-> end]
               data == [Source EXCEPT ![r] = v]
    <3>1. c \in Change /\ data \in TableData
      BY <1>1 DEF Change, TableData
    <3>2. LogChange(c, data)
      BY <2>1 DEF ApplicationWrites
    <3> QED
      BY <3>1, <3>2
  <2>2. CASE LogOther
    <3> DEFINE c == [row |-> Other, to |-> Other, old |-> NoRow, new |-> NoRow, end |-> TRUE]
    <3>1. c \in Change /\ Source \in TableData
      BY <1>1 DEF Change, Row
    <3>2. LogChange(c, Source)
      BY <2>2 DEF LogOther
    <3> QED
      BY <3>1, <3>2
  <2> QED
    BY <2>1, <2>2 DEF Application
<1>3. /\ Len(binlog') = Len(binlog) + 1
      /\ \A p \in 0..Len(binlog) : versions'[p] = versions[p]
      /\ target' = target
  BY <1>1, <1>2, LogChangeEffect DEF LogChange
<1>4. /\ Status = "moving" /\ Status' = "moving"
      /\ Pending' = Pending /\ applied' = applied
  BY DEF Application, Running, Started, Status, Pending, Uncopied, RowLocked, writerVars,
     iteratorVars, ferryVars
<1> QED
  BY <1>3, <1>4 DEF Abstract!SourceChanges

\* A step that leaves the source alone, loses no ground and keeps the run going.
LEMMA MoveRefines ==
    ASSUME FerryInv, FerryInv', Status = "moving", Status' = "moving",
           UNCHANGED <<versions, binlog>>, applied <= applied', Pending' \subseteq Pending
    PROVE  Abstract!Move
<1>1. applied \in Nat /\ applied' \in Nat /\ Len(binlog) \in Nat
      /\ applied' \in applied..Len(binlog)
  <2>1. applied \in Nat /\ Len(binlog) \in Nat
    BY PositionOrder DEF FerryInv
  <2>2. Len(binlog') \in Nat /\ committed' \in 0..Len(binlog') /\ sent' \in 0..committed'
        /\ taken' \in 0..sent' /\ applied' \in 0..taken' /\ exec' \in applied'..taken'
    BY SMTT(30) DEF FerryInv, TypeOK, DatabasesTypeOK, StreamerTypeOK, WriterTypeOK
  <2> QED
    BY SMTT(30), <2>1, <2>2
<1>2. \A r \in RowIds : \/ target'[r] = NoRow /\ r \in Pending'
                        \/ \E p \in applied'..Len(binlog) : target'[r] = versions[p][r]
  <2>1. phase' # "crashed"
    BY DEF Status
  <2>2. /\ \A r \in RowIds : (Tracks(target[r], r, exec))'
        /\ applied' \in Nat /\ exec' \in Nat /\ applied' <= exec'
    BY SMTT(30), <1>1, <2>1 DEF FerryInv, RowsTrackHistory, TypeOK, WriterTypeOK
  <2> QED
    BY SMTT(30), <1>1, <2>2 DEF Tracks, Pending
<1> QED
  BY <1>1, <1>2 DEF Abstract!Move, Abstract!HadValue

\* A worker's step copies nothing twice: no row becomes pending again.
LEMMA PendingShrinks ==
    ASSUME FerryInv, NEW t \in Tables, IteratorProgress(t) \/ IteratorRetries(t)
    PROVE  Pending' \subseteq Pending
<1> SUFFICES ASSUME NEW r \in RowIds, Uncopied(r)'
             PROVE  Uncopied(r)
  BY DEF Pending
<1>1. /\ cursor \in [Tables -> {"unread", "queued", "idle", "holding", "done"}]
      /\ maxPk \in [Tables -> Nat] /\ lastPk \in [Tables -> Nat] /\ pkPos \in [Tables -> Nat]
  BY DEF FerryInv, TypeOK, IteratorTypeOK
<1>2. TableOf(r) \in Tables /\ Pk(r) \in Nat
  BY DatabasesAssumption DEF RowIds, TableOf, Pk
<1>3. CASE IteratorRetries(t)
  BY <1>3 DEF IteratorRetries, RetryRowBatch, Uncopied, RowLocked
<1>4. CASE IteratorProgress(t) /\ TableOf(r) # t
  <2>1. /\ cursor'[TableOf(r)] = cursor[TableOf(r)] /\ maxPk'[TableOf(r)] = maxPk[TableOf(r)]
        /\ lastPk'[TableOf(r)] = lastPk[TableOf(r)] /\ pkPos'[TableOf(r)] = pkPos[TableOf(r)]
    BY <1>1, <1>2, <1>4 DEF IteratorProgress, IteratorStep, ReadMaxPrimaryKey, WorkerTakesTable,
       Fetch, CompleteTable, WriteRowBatch
  <2>2. RowLocked(r)' => RowLocked(r)
    BY <1>4 DEF IteratorProgress, IteratorStep, ReadMaxPrimaryKey, WorkerTakesTable, Fetch,
       CompleteTable, WriteRowBatch, RowLocked, FirstRows, RowsAfter
  <2> QED
    BY <2>1, <2>2 DEF Uncopied
<1>5. CASE TableOf(r) = t /\ ReadMaxPrimaryKey(t)
  BY <1>5 DEF ReadMaxPrimaryKey, Uncopied
<1>6. CASE TableOf(r) = t /\ WorkerTakesTable(t)
  BY <1>1, <1>6 DEF WorkerTakesTable, Uncopied
<1>7. CASE TableOf(r) = t /\ Fetch(t)
  <2>1. /\ cursor[t] = "idle" /\ lastPk' = lastPk /\ maxPk' = maxPk
        /\ cursor'[t] # "unread"
    BY <1>1, <1>7 DEF Fetch
  <2> QED
    BY <1>7, <2>1 DEF Uncopied
<1>8. CASE TableOf(r) = t /\ CompleteTable(t)
  BY <1>1, <1>8 DEF CompleteTable, Uncopied
<1>9. CASE TableOf(r) = t /\ WriteRowBatch(t)
  <2>1. /\ cursor[t] = "holding" /\ cursor'[t] = "idle" /\ maxPk' = maxPk
        /\ lastPk'[t] = pkPos[t]
    BY <1>1, <1>9 DEF WriteRowBatch
  <2>2. lastPk[t] < pkPos[t]
    BY <2>1 DEF FerryInv, CursorsAdvance
  <2>3. pkPos[t] < Pk(r) /\ Pk(r) <= maxPk[t]
    BY <1>9, <2>1 DEF Uncopied
  <2>4. lastPk[t] < Pk(r)
    BY SMTT(30), <1>1, <1>2, <2>2, <2>3
  <2> QED
    BY <1>9, <2>1, <2>3, <2>4 DEF Uncopied
<1> QED
  BY <1>3, <1>4, <1>5, <1>6, <1>7, <1>8, <1>9 DEF IteratorProgress, IteratorStep

\* The end of a run, seen from the step that brings it about.
LEMMA ConsistentAfterwards == FerryInv' => CutoverConsistent'
<1>1. FerryInv => CutoverConsistent
  BY ConsistentAtEnd
<1> QED
  BY <1>1, PTL

\* Every step of the ferry is one of DataMove, or changes nothing there.
LEMMA StepRefines ==
    ASSUME FerryInv, FerryInv', Next
    PROVE  Abstract!MoveNext \/ UNCHANGED Abstract!moveVars
<1> USE DEF Abstract!MoveNext
<1>1. /\ applied \in Nat /\ exec \in Nat /\ taken \in Nat /\ committed \in Nat
      /\ Len(binlog) \in Nat /\ applied <= exec /\ exec <= taken /\ applied <= committed
  BY SMTT(30), PositionOrder DEF FerryInv
<1>2. CASE Application
  BY <1>2, ApplicationRefines
<1>3. CASE WriterProgress \/ WriterRetries
  <2>1. /\ Status = "moving" /\ Status' = "moving" /\ UNCHANGED <<versions, binlog>>
        /\ Pending' = Pending
    BY <1>3 DEF WriterProgress, WriterRetries, Started, Status, Pending, Uncopied, RowLocked,
       sourceVars, iteratorVars, ferryVars
  <2>2. applied' = applied \/ applied' = taken
    BY <1>3 DEF WriterProgress, WriterRetries, ReceiveEvent, BatchReady, ExecuteStatement,
       BatchWritten, RetryWrite, WriterReturns
  <2> QED
    BY SMTT(30), <1>1, <2>1, <2>2, MoveRefines
<1>4. ASSUME NEW t \in Tables, IteratorProgress(t) \/ IteratorRetries(t)
      PROVE  Abstract!Move
  <2>1. /\ Status = "moving" /\ Status' = "moving" /\ UNCHANGED <<versions, binlog, applied>>
    BY <1>4 DEF IteratorProgress, IteratorRetries, Status, sourceVars, writerVars, ferryVars
  <2> QED
    BY SMTT(30), <1>1, <1>4, <2>1, PendingShrinks, MoveRefines
<1>5. CASE FerryStep
  <2>1. CASE Start
    <3>1. /\ Status = "moving" /\ Status' = "moving" /\ UNCHANGED <<versions, binlog>>
          /\ Pending' = Pending /\ applied' = committed
      BY <2>1 DEF Start, Status, Pending, Uncopied, RowLocked, sourceVars, iteratorVars, ferryVars
    <3> QED
      BY <1>1, <3>1, MoveRefines
  <2>2. CASE RunReturns
    <3>1. /\ phase' = "done" /\ Status = "moving"
          /\ UNCHANGED <<versions, binlog, target, applied, iteratorVars>>
      BY <2>2 DEF RunReturns, CallerMoves, Started, Status, sourceVars, writerVars
    <3>2. target' = Source'
      BY <3>1, ConsistentAfterwards DEF CutoverConsistent
    <3>3. target = versions[Len(binlog)]
      BY <3>1, <3>2 DEF Source
    <3>4. \A t \in Tables : cursor[t] = "done"
      BY <3>1 DEF FerryInv, Phases, AllTablesCompleted, iteratorVars
    <3>5. Pending = {} /\ Pending' = Pending
      BY <3>1, <3>4 DEF Pending, Uncopied, RowLocked, RowIds, TableOf, iteratorVars
    <3> QED
      BY <3>1, <3>3, <3>5 DEF Abstract!Finish, Status
  <2>3. CASE Fatal
    <3>1. /\ Status = "moving" /\ Status' = "failed" /\ phase # "crashed"
          /\ UNCHANGED <<versions, binlog>> /\ applied' = 0
          /\ target' = target \/ target' = CommittedTarget
          /\ cursor' = [t \in Tables |-> "unread"]
      BY <2>3 DEF Fatal, MemoryIsLost, Running, Started, Status, sourceVars
    <3>2. Pending' = RowIds
      BY <3>1 DEF Pending, Uncopied, RowIds, TableOf
    <3>3. \A r \in RowIds : target[r] = NoRow \/ \E p \in 0..Len(binlog) : target[r] = versions[p][r]
      BY SMTT(30), <1>1, <3>1, TrackedRows
    <3>4. \A r \in RowIds : TargetLocked(r) =>
             undo[r] = NoRow \/ \E p \in 0..Len(binlog) : undo[r] = versions[p][r]
      BY SMTT(30), <1>1, <3>1 DEF FerryInv, UndoTracksHistory, Tracks
    <3>5. \A r \in RowIds : target'[r] = NoRow \/ \E p \in 0..Len(binlog) : target'[r] = versions[p][r]
      BY SMTT(30), <3>1, <3>3, <3>4 DEF CommittedTarget
    <3> QED
      BY <3>1, <3>2, <3>5 DEF Abstract!Fail, Abstract!HadValue
  <2>4. CASE Restart
    BY <2>4 DEF Restart, NewRun, Status, Pending, Uncopied, RowLocked, writerVars, iteratorVars,
       Abstract!Retry, Abstract!Nothing
  <2>5. CASE \/ LockSource \/ HandleCutover \/ Run \/ StreamerSteps
             \/ OnFinishedIterations \/ EnterCutover
             \/ WaitUntilRowCopyIsComplete \/ WaitUntilBinlogStreamerCatchesUp
             \/ FlushReadsPosition \/ FlushRequestsStop \/ Ended
    <3>1. UNCHANGED <<versions, binlog, target, writerVars, iteratorVars>>
      BY <2>5 DEF LockSource, StopWrites, HandleCutover, Run, StreamerSteps, OnFinishedIterations,
         EnterCutover, WaitUntilRowCopyIsComplete, WaitUntilBinlogStreamerCatchesUp,
         FlushReadsPosition, FlushRequestsStop, CallerMoves, Ended, vars, sourceVars
    <3>2. Status' = Status
      BY <2>5 DEF LockSource, HandleCutover, Run, StreamerSteps, OnFinishedIterations,
         EnterCutover, WaitUntilRowCopyIsComplete, WaitUntilBinlogStreamerCatchesUp,
         FlushReadsPosition, FlushRequestsStop, CallerMoves, Ended, vars, ferryVars, Status
    <3>3. Pending' = Pending
      BY <3>1 DEF Pending, Uncopied, RowLocked, iteratorVars
    <3> QED
      BY <3>1, <3>2, <3>3 DEF Abstract!moveVars, writerVars
  <2> QED
    BY <1>5, <2>1, <2>2, <2>3, <2>4, <2>5 DEF FerryStep
<1> QED
  BY <1>2, <1>3, <1>4, <1>5, NextCases

\* A ferry run does what DataMove says, whatever the constants are.
THEOREM FerryImplementsDataMove == Spec => ImplementsDataMove
<1>1. Init => Abstract!MoveInit
  <2> SUFFICES ASSUME Init PROVE Abstract!MoveInit
    OBVIOUS
  <2>1. /\ Len(binlog) = 0 /\ versions \in [{0} -> [RowIds -> Row]]
        /\ target = [r \in RowIds |-> NoRow] /\ applied = 0 /\ Status = "moving"
    BY DEF Init, InitSource, WriterInit, Status, TableData
  <2>2. Pending = RowIds
    BY DEF Init, IteratorInit, Pending, Uncopied, RowIds, TableOf
  <2> QED
    BY <2>1, <2>2 DEF Abstract!MoveInit, Abstract!Nothing
<1>2. FerryInv /\ FerryInv' /\ [Next]_vars => [Abstract!MoveNext]_(Abstract!moveVars)
  <2> SUFFICES ASSUME FerryInv, FerryInv', [Next]_vars
               PROVE  Abstract!MoveNext \/ UNCHANGED Abstract!moveVars
    OBVIOUS
  <2>1. CASE UNCHANGED vars
    BY <2>1 DEF vars, sourceVars, writerVars, iteratorVars, ferryVars, Abstract!moveVars,
       Pending, Status, Uncopied, RowLocked
  <2> QED
    BY <2>1, StepRefines
<1>3. ImplementsDataMove <=> Abstract!MoveInit /\ [][Abstract!MoveNext]_(Abstract!moveVars)
  BY DEF ImplementsDataMove, Abstract!MoveSpec
<1> QED
  BY <1>1, <1>2, <1>3, Invariance, PTL DEF Spec

----------------------------------------------------------------------------
\* Who waits for whom.

\* The log and the positions end with a transaction, and a batch has its size.
LogInv ==
    /\ committed > 0 => binlog[committed].end
    /\ sent > pos => ~binlog[sent].end
    /\ Cardinality(Batch) <= BinlogBatchSize

\* The goroutines of a run, and how far the request to stop has come.
WaitInv ==
    /\ LogInv
    /\ Started => streamer \in {"running", "closed"}
    /\ caller = "join" => stopRequested

\* The changes of a batch can be counted.
LEMMA BatchIsFinite ==
    ASSUME TypeOK
    PROVE  IsFiniteSet(Batch) /\ Cardinality(Batch) \in Nat
<1>1. applied + 1 \in Int /\ taken \in Int
  BY SMTT(30), PositionOrder
<1>2. IsFiniteSet(applied + 1..taken)
  BY <1>1, FS_Interval
<1>3. Batch \subseteq applied + 1..taken
  BY DEF Batch
<1>4. IsFiniteSet(Batch)
  BY <1>2, <1>3, FS_Subset
<1> QED
  BY <1>4, FS_CardinalityType

\* The transactions of the application.
LEMMA ApplicationWaits ==
    ASSUME FerryInv, WaitInv, Application
    PROVE  WaitInv'
<1>1. TypeOK
  BY DEF FerryInv
<1>2. ASSUME NEW c \in Change, NEW data \in TableData, LogChange(c, data),
             UNCHANGED <<streamerVars, writerVars, iteratorVars, ferryVars>>
      PROVE  WaitInv'
  <2>1. /\ Len(binlog) \in Nat
        /\ \A i \in 1..Len(binlog) : binlog'[i] = binlog[i]
        /\ binlog'[Len(binlog) + 1] = c
    BY <1>1, <1>2, LogChangeEffect
  <2>2. committed' = IF c.end THEN Len(binlog) + 1 ELSE committed
    BY <1>2 DEF LogChange
  <2>3. committed' > 0 => binlog'[committed'].end
    BY SMTT(30), <1>1, <2>1, <2>2, PositionOrder DEF WaitInv, LogInv
  <2>4. sent' > pos' => ~binlog'[sent'].end
    <3>1. sent' = sent /\ pos' = pos
      BY <1>2 DEF streamerVars
    <3>2. sent > pos => sent \in 1..Len(binlog)
      BY SMTT(30), <1>1, PositionOrder
    <3> QED
      BY <2>1, <3>1, <3>2 DEF WaitInv, LogInv
  <2>5. Batch' = Batch
    <3>1. applied' = applied /\ taken' = taken
      BY <1>2 DEF writerVars
    <3>2. \A i \in applied + 1..taken : i \in 1..Len(binlog)
      BY SMTT(30), <1>1, PositionOrder
    <3> QED
      BY <2>1, <3>1, <3>2 DEF Batch, IsDML
  <2>6. Cardinality(Batch') <= BinlogBatchSize
    BY <2>5 DEF WaitInv, LogInv
  <2> QED
    BY <1>2, <2>3, <2>4, <2>6 DEF WaitInv, LogInv, Started, streamerVars, ferryVars
<1> USE SourceType
<1>3. ASSUME NEW r \in RowIds, NEW v \in Row, NEW end \in BOOLEAN,
             ApplicationWrites(r, v, end)
      PROVE  WaitInv'
  <2> DEFINE c == [row |-> r, to |-> r, old |-> Source[r], new |-> v, end |-> end]
             data == [Source EXCEPT ![r] = v]
  <2>1. c \in Change
    BY <1>1 DEF Change, TableData
  <2>2. data \in TableData
    BY <1>1 DEF TableData
  <2> QED
    BY <1>2, <1>3, <2>1, <2>2 DEF Application, ApplicationWrites
<1>4. CASE LogOther
  <2> DEFINE c == [row |-> Other, to |-> Other, old |-> NoRow, new |-> NoRow, end |-> TRUE]
  <2>1. c \in Change
    BY DEF Change, Row
  <2> QED
    BY <1>1, <1>2, <1>4, <2>1 DEF Application, LogOther
<1> QED
  BY <1>3, <1>4 DEF Application

\* The steps of the writer: a batch grows by one change until it is full.
LEMMA WriterWaits ==
    ASSUME FerryInv, WaitInv, WriterProgress \/ WriterRetries
    PROVE  WaitInv'
<1>1. TypeOK
  BY DEF FerryInv
<1>2. UNCHANGED <<binlog, committed, sent, pos, streamer, stopRequested, phase, caller>>
  BY DEF WriterProgress, WriterRetries, sourceVars, streamerVars, ferryVars
<1>3. Cardinality(Batch') <= BinlogBatchSize
  <2>1. CASE UNCHANGED <<applied, taken>>
    <3>1. Batch' = Batch
      BY <1>2, <2>1 DEF Batch, IsDML
    <3> QED
      BY <3>1 DEF WaitInv, LogInv
  <2>2. CASE applied' = taken /\ taken' = taken
    <3>1. Batch' = {}
      BY SMTT(30), <1>1, <2>2, PositionOrder DEF Batch
    <3> QED
      BY SMTT(30), <3>1, FS_EmptySet, BinlogWriterAssumption
  <2>3. CASE ReceiveEvent
    <3>1. PICK i \in Buffered : taken' = i /\ \A j \in Buffered : i <= j
      BY <2>3 DEF ReceiveEvent
    <3>2. applied' = applied /\ Cardinality(Batch) < BinlogBatchSize
      BY <2>3 DEF ReceiveEvent
    <3>3. i \in Nat /\ taken < i /\ i <= sent /\ IsDML(i)
      BY SMTT(30), <1>1, <3>1, PositionOrder DEF Buffered
    <3>4. \A j \in taken + 1..i : IsDML(j) => j = i
      BY SMTT(30), <1>1, <3>1, <3>3, PositionOrder DEF Buffered
    <3>5. \A j : j \in applied + 1..i <=> j \in applied + 1..taken \/ j \in taken + 1..i
      BY SMTT(30), <1>1, <3>3, PositionOrder
    <3>6. i \in taken + 1..i
      BY SMTT(30), <1>1, <3>3, PositionOrder
    <3>7. Batch' = Batch \cup {i}
      <4>1. Batch' = {j \in applied + 1..i : IsDML(j)}
        BY <1>2, <3>1, <3>2 DEF Batch, IsDML
      <4>2. \A j : j \in Batch' <=> j \in applied + 1..i /\ IsDML(j)
        BY <4>1
      <4>3. \A j : j \in Batch <=> j \in applied + 1..taken /\ IsDML(j)
        BY DEF Batch
      <4>4. \A j : j \in Batch' <=> j \in Batch \/ j = i
        BY <3>3, <3>4, <3>5, <3>6, <4>2, <4>3
      <4> QED
        BY <4>4
    <3>8. IsFiniteSet(Batch) /\ Cardinality(Batch) \in Nat
      BY <1>1, BatchIsFinite
    <3>9. i \notin Batch
      BY SMTT(30), <1>1, <3>3, PositionOrder DEF Batch
    <3>10. Cardinality(Batch \cup {i}) = Cardinality(Batch) + 1
      BY <3>8, <3>9, FS_AddElement
    <3> QED
      BY SMTT(30), <3>2, <3>7, <3>8, <3>10, BinlogWriterAssumption
  <2> QED
    BY <2>1, <2>2, <2>3 DEF WriterProgress, WriterRetries, BatchReady, ExecuteStatement,
       BatchWritten, WriterReturns, RetryWrite
<1> QED
  BY <1>2, <1>3 DEF WaitInv, LogInv, Started

\* A step that leaves the log and the positions alone.
LEMMA LogFrame ==
    ASSUME LogInv, UNCHANGED <<binlog, committed, sent, pos, applied, taken>>
    PROVE  LogInv'
<1>1. Batch' = Batch
  BY DEF Batch, IsDML
<1> QED
  BY <1>1 DEF LogInv

\* A step after which nothing is in a batch or between two transactions.
LEMMA LogReset ==
    ASSUME FerryInv, LogInv, UNCHANGED <<binlog, committed>>,
           sent' = pos', sent' \in Nat, applied' = taken', taken' \in Nat
    PROVE  LogInv'
<1>1. Batch' = {}
  BY SMTT(30) DEF Batch
<1>2. Cardinality(Batch') <= BinlogBatchSize
  BY SMTT(30), <1>1, FS_EmptySet, BinlogWriterAssumption
<1> QED
  BY SMTT(30), <1>2 DEF LogInv

\* The other steps.
LEMMA FerryStepWaits ==
    ASSUME FerryInv, WaitInv, FerryStep
    PROVE  WaitInv'
<1> USE DEF sourceVars, streamerVars, writerVars, iteratorVars, ferryVars
<1>1. TypeOK /\ LogInv
  BY DEF FerryInv, WaitInv
<1>2. CASE LockSource \/ HandleCutover \/ OnFinishedIterations \/ EnterCutover \/ Ended
  <2>1. UNCHANGED <<binlog, committed, sent, pos, applied, taken, streamer, stopRequested, caller>>
    BY <1>2 DEF LockSource, StopWrites, HandleCutover, OnFinishedIterations, EnterCutover, Ended,
       vars
  <2>2. Started' => Started
    BY <1>2 DEF LockSource, HandleCutover, OnFinishedIterations, EnterCutover, Ended, Started, vars
  <2> QED
    BY <1>1, <2>1, <2>2, LogFrame DEF WaitInv
<1>3. CASE Start
  <2>1. /\ UNCHANGED <<binlog, committed, phase, caller>> /\ phase = "starting"
        /\ sent' = committed /\ pos' = committed /\ applied' = committed /\ taken' = committed
    BY <1>3 DEF Start, ConnectBinlogStreamerToMysql
  <2>2. LogInv'
    BY <1>1, <2>1, PositionOrder, LogReset
  <2>3. caller' = "row_copy" /\ ~Started'
    BY <2>1 DEF FerryInv, BeforeRun, Started
  <2> QED
    BY <2>2, <2>3 DEF WaitInv
<1>4. CASE Run
  <2>1. /\ UNCHANGED <<binlog, committed, sent, pos, applied, taken, stopRequested, caller>>
        /\ streamer' = "running"
    BY <1>4 DEF Run
  <2> QED
    BY <1>1, <2>1, LogFrame DEF WaitInv
<1>5. CASE StreamerSteps
  <2>1. /\ UNCHANGED <<binlog, committed, applied, taken, stopRequested, phase, caller>>
        /\ streamer' \in {"running", "closed"}
    BY <1>5 DEF StreamerSteps, StreamEvent, StreamerReturns
  <2>2. sent' > pos' => ~binlog'[sent'].end
    <3>1. CASE StreamEvent
      <4>1. sent' = sent + 1 /\ pos' = IF binlog[sent + 1].end THEN sent + 1 ELSE pos
        BY <3>1 DEF StreamEvent
      <4> QED
        BY SMTT(30), <1>1, <2>1, <4>1, PositionOrder
    <3>2. CASE StreamerReturns
      BY <1>1, <2>1, <3>2 DEF StreamerReturns, LogInv
    <3> QED
      BY <1>5, <3>1, <3>2 DEF StreamerSteps
  <2>3. Batch' = Batch
    BY <2>1 DEF Batch, IsDML
  <2>4. LogInv'
    BY <1>1, <2>1, <2>2, <2>3 DEF LogInv
  <2> QED
    BY <2>1, <2>4 DEF WaitInv
<1>6. CASE \/ WaitUntilRowCopyIsComplete \/ WaitUntilBinlogStreamerCatchesUp
           \/ FlushReadsPosition \/ RunReturns
  <2>1. /\ UNCHANGED <<binlog, committed, sent, pos, applied, taken, streamer, stopRequested>>
        /\ Started /\ caller' # "join"
    BY <1>6 DEF WaitUntilRowCopyIsComplete, WaitUntilBinlogStreamerCatchesUp, FlushReadsPosition,
       ReadTargetPosition, RunReturns, CallerMoves
  <2> QED
    BY <1>1, <2>1, LogFrame DEF WaitInv
<1>7. CASE FlushRequestsStop
  <2>1. /\ UNCHANGED <<binlog, committed, sent, pos, applied, taken, streamer>>
        /\ Started /\ stopRequested'
    BY <1>7 DEF FlushRequestsStop, RequestStop, CallerMoves
  <2> QED
    BY <1>1, <2>1, LogFrame DEF WaitInv
<1>8. CASE Fatal
  <2>1. /\ UNCHANGED <<binlog, committed>> /\ phase' = "crashed" /\ caller' = "row_copy"
        /\ sent' = 0 /\ pos' = 0 /\ applied' = 0 /\ taken' = 0
    BY <1>8 DEF Fatal, MemoryIsLost
  <2> QED
    BY <1>1, <2>1, LogReset DEF WaitInv, Started
<1>9. CASE Restart
  <2>1. /\ UNCHANGED <<binlog, committed, sent, pos, applied, taken, stopRequested, caller>>
        /\ phase' = "starting"
    BY <1>9 DEF Restart, NewRun
  <2> QED
    BY <1>1, <2>1, LogFrame DEF WaitInv, Started
<1> QED
  BY <1>2, <1>3, <1>4, <1>5, <1>6, <1>7, <1>8, <1>9 DEF FerryStep

\* The invariant on waiting, in every state of a run.
THEOREM WaitInvariance == Spec => []WaitInv
<1>1. Init => WaitInv
  <2> SUFFICES ASSUME Init PROVE WaitInv
    OBVIOUS
  <2>1. /\ committed = 0 /\ sent = 0 /\ pos = 0 /\ applied = 0 /\ taken = 0
        /\ phase = "starting" /\ caller = "row_copy"
    BY DEF Init, InitSource, StreamerInit, WriterInit
  <2>2. Batch = {}
    BY SMTT(30), <2>1 DEF Batch
  <2>3. Cardinality(Batch) <= BinlogBatchSize
    BY SMTT(30), <2>2, FS_EmptySet, BinlogWriterAssumption
  <2> QED
    BY SMTT(30), <2>1, <2>3 DEF WaitInv, LogInv, Started
<1>2. FerryInv /\ WaitInv /\ [Next]_vars => WaitInv'
  <2> SUFFICES ASSUME FerryInv, WaitInv, [Next]_vars PROVE WaitInv'
    OBVIOUS
  <2> USE DEF sourceVars, streamerVars, writerVars, ferryVars
  <2>1. CASE (\E t \in Tables : IteratorProgress(t) \/ IteratorRetries(t)) \/ UNCHANGED vars
    <3>1. UNCHANGED <<binlog, committed, sent, pos, applied, taken, streamer, stopRequested, phase,
                      caller>>
      BY <2>1 DEF IteratorProgress, IteratorRetries, vars
    <3> QED
      BY <3>1, LogFrame DEF WaitInv, Started
  <2> QED
    BY <2>1, NextCases, ApplicationWaits, WriterWaits, FerryStepWaits
<1> QED
  BY <1>1, <1>2, Invariance, PTL DEF Spec

\* A writer that writes is not refused: no change moves a row to another key.
LEMMA WritingGoesOn ==
    ASSUME FerryInv, writer = "write"
    PROVE  WriterCanGoOn
<1>1. ASSUME exec < taken, IsDML(exec + 1)
      PROVE  ~DuplicateKey(binlog[exec + 1], target)
  <2>1. exec + 1 \in 1..Len(binlog)
    BY SMTT(30), <1>1, PositionOrder DEF FerryInv
  <2>2. binlog[exec + 1].to = binlog[exec + 1].row
    BY <1>1, <2>1 DEF FerryInv, LogMatchesVersions, IsDML
  <2> QED
    BY <2>2 DEF DuplicateKey
<1> QED
  BY <1>1 DEF WriterCanGoOn

\* A writer that gathers takes what is in the buffer, or has enough to write.
LEMMA GatheringGoesOn ==
    ASSUME FerryInv, WaitInv, writer = "gather", Buffered # {} \/ BufferClosed
    PROVE  WriterCanGoOn
<1>1. IsFiniteSet(Batch) /\ Cardinality(Batch) \in Nat
  BY BatchIsFinite DEF FerryInv
<1>2. CASE Buffered # {}
  <2>1. Cardinality(Batch) < BinlogBatchSize \/ Cardinality(Batch) = BinlogBatchSize
    BY SMTT(30), <1>1, BinlogWriterAssumption DEF WaitInv, LogInv
  <2>2. Cardinality(Batch) = BinlogBatchSize => Batch # {}
    BY FS_EmptySet, BinlogWriterAssumption
  <2> QED
    BY <1>2, <2>1, <2>2 DEF WriterCanGoOn
<1>3. CASE Buffered = {}
  BY <1>3 DEF WriterCanGoOn
<1> QED
  BY <1>2, <1>3

\* The streamer never waits for a buffer that nobody empties, no worker for a row
\* that nobody releases, and the caller never for goroutines that wait themselves,
\* for any sizes of buffers and batches (ferry.go, Run with its goroutines).
THEOREM WaitsAreAlwaysServed == Spec => []WaitsAreServed
<1>1. FerryInv /\ WaitInv => WaitsAreServed
  <2> SUFFICES ASSUME FerryInv, WaitInv, Started PROVE WaitsAreServed
    BY DEF WaitsAreServed
  <2>1. writer \in {"gather", "write", "done"}
    BY DEF FerryInv, TypeOK, WriterTypeOK
  <2>2. streamer = "running" => writer # "done"
    BY DEF FerryInv, Stopping
  <2>3. ASSUME streamer = "running", EventAvailable, ~BufferBinlogEvents
        PROVE  WriterCanGoOn
    <3>1. ~ (Cardinality(Buffered) < BinlogBatchSize)
      BY <2>3 DEF BufferBinlogEvents, BufferHasRoom
    <3>2. Buffered # {}
      <4>1. Cardinality({}) < BinlogBatchSize
        BY SMTT(30), FS_EmptySet, BinlogWriterAssumption
      <4> QED
        BY <3>1, <4>1
    <3> QED
      BY <2>1, <2>2, <2>3, <3>2, WritingGoesOn, GatheringGoesOn
  <2>4. ASSUME NEW t \in Tables, InsertWaits(t)
        PROVE  WriterCanGoOn
    <3>1. PICK r \in RowIds : TargetLocked(r)
      BY <2>4 DEF InsertWaits
    <3>2. exec # applied
      BY SMTT(30), <3>1, PositionOrder DEF TargetLocked, FerryInv
    <3>3. writer = "write"
      BY <3>2 DEF FerryInv, IdleWriter
    <3> QED
      BY <3>3, WritingGoesOn
  <2>5. ASSUME caller = "join"
        PROVE  StreamerCanGoOn \/ WriterCanGoOn \/ CoreServicesDone
    <3>1. /\ stopRequested /\ targetPos = Len(binlog) /\ committed = Len(binlog)
          /\ streamer \in {"running", "closed"}
      BY <2>5 DEF WaitInv, FerryInv, Stopping
    <3>2. CASE streamer = "closed"
      BY <2>1, <2>5, <3>2, WritingGoesOn, GatheringGoesOn DEF BufferClosed, CoreServicesDone
    <3>3. CASE streamer = "running" /\ sent < committed
      <4>1. EventAvailable
        BY <3>1, <3>3 DEF EventAvailable, KeepStreaming
      <4> QED
        BY <2>3, <3>3, <4>1 DEF StreamerCanGoOn
    <3>4. CASE streamer = "running" /\ sent = committed
      <4>1. sent = pos
        BY SMTT(30), <3>4, PositionOrder DEF WaitInv, LogInv, FerryInv
      <4>2. ~KeepStreaming
        BY SMTT(30), <3>1, <3>4, <4>1, PositionOrder DEF KeepStreaming, FerryInv
      <4> QED
        BY <3>4, <4>1, <4>2 DEF StreamerCanGoOn
    <3>5. sent < committed \/ sent = committed
      BY SMTT(30), PositionOrder DEF FerryInv
    <3> QED
      BY <3>1, <3>2, <3>3, <3>4, <3>5
  <2> QED
    BY <2>3, <2>4, <2>5 DEF WaitsAreServed
<1> QED
  BY <1>1, Invariance, WaitInvariance, PTL
=============================================================================
