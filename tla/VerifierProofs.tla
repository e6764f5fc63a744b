--------------------------- MODULE VerifierProofs ---------------------------
(***************************************************************************)
(* Proofs about IterativeVerifier, for all tables, keys, values, batch     *)
(* sizes, numbers of workers and bounds: no difference is lost sight of,   *)
(* and the result of the cutover verification is right.                    *)
(***************************************************************************)
EXTENDS IterativeVerifier, FiniteSetTheorems, WellFoundedInduction, TLAPS

\* Most leaves are first-order: Zenon is tried before the SMT solver.
USE ZenonT(5), SMTT(30)

----------------------------------------------------------------------------
\* The invariant.

\* Every entry of the log is a transaction of one row, and a row that no entry
\* names stays as it is.
LogInv ==
    /\ committed = Len(binlog)
    /\ \A i \in 1..Len(binlog) :
          /\ binlog[i].row \in RowIds /\ binlog[i].to = binlog[i].row /\ binlog[i].end
          /\ binlog[i].old = versions[i - 1][binlog[i].row]
          /\ binlog[i].new = versions[i][binlog[i].row]
    /\ \A p, q \in 0..Len(binlog) : \A r \in RowIds :
          p <= q /\ ~ChangedIn(r, p, q) => versions[p][r] = versions[q][r]

\* A row of the open transaction is on its way, and would be again after a
\* rollback, or no change of the transaction has applied to it.
LockedRowsInv ==
    \A r \in RowIds : TargetLocked(r) =>
        \/ OnItsWay(r) /\ \E q \in applied..Len(binlog) : undo[r] = versions[q][r]
        \/ target[r] = undo[r]

\* The end of the run: the streamer stops at the end of the log, after the
\* listeners, and the writer after it.
RunInv ==
    /\ sent = pos
    /\ writer # "write" => exec = applied
    /\ stopRequested => writesStopped /\ targetPos = Len(binlog)
    /\ streamer \in {"running", "closed"}
    /\ streamer = "closed" => stopRequested /\ sent = Len(binlog) /\ notified = sent
    /\ writer = "done" => streamer = "closed" /\ exec = Len(binlog)

\* The row will be compared again, as it is in the store or its change is on
\* its way to the listener.
Noted(r) == r \in store \/ ChangedIn(r, notified, Len(binlog))

\* The scan has one batch of a table at a time, and a row between two of its
\* rows that is not in it was not there when the batch was read.
ScanInv ==
    /\ stage = "copied" => /\ notified = sent
                           /\ \A t \in Tables : scan[t] = "queued" /\ scanLast[t] = 0
    /\ stage \in {"copied", "ready"} => jobs = {}
    /\ stage \in {"copied", "scan", "ready"} => todo = {}
    /\ stage = "scan" =>
          /\ \A r \in RowIds : ChangedIn(r, attachedAt, notified) => r \in store
          /\ \A j \in jobs : \A r \in j.rows : scan[TableOf(r)] = "open"
          /\ \A j, k \in jobs : \A r \in j.rows, s \in k.rows :
                TableOf(r) = TableOf(s) => j = k
          /\ \A j \in jobs : \A r, s \in j.rows : TableOf(r) = TableOf(s)
          /\ \A j \in jobs : \A r \in j.rows, s \in RowIds \ j.rows :
                /\ TableOf(s) = TableOf(r)
                /\ scanLast[TableOf(s)] < Pk(s) /\ Pk(s) <= Pk(r)
                /\ InScope(s)
                => Noted(s)

\* A fingerprint that was read first is still good, or the row is noted: that
\* of the source is current, and that of the target, where it is the source's,
\* tells that the row is on its way.
JobsInv ==
    \A j \in jobs : \A r \in j.rows :
        /\ j.first = "source" => Noted(r) \/ j.hashes[r] = Source[r]
        /\ j.first = "target" => Noted(r) \/ (j.hashes[r] = Source[r] => OnItsWay(r))

\* During the cutover nothing changes any more, so fingerprints stay good.
CutoverInv ==
    /\ stage = "cutover" \/ failed \/ result \in {"correct", "incorrect"} => RunHasReturned
    /\ stage = "cutover" =>
          /\ store = {}
          /\ \A j \in jobs : \A r \in j.rows :
                /\ j.first = "source" => j.hashes[r] = Source[r]
                /\ j.first = "target" => j.hashes[r] = target[r]
    /\ result # "none" => stage = "finished"
    /\ failed => target # Source

----------------------------------------------------------------------------
\* Type correctness.

\* The positions in the log, in their order, and what is read at them.
LEMMA Positions ==
    ASSUME VerificationTypeOK
    PROVE  /\ applied \in Nat /\ exec \in Nat /\ taken \in Nat /\ sent \in Nat
           /\ pos \in Nat /\ targetPos \in Nat /\ committed \in Nat /\ Len(binlog) \in Nat
           /\ attachedAt \in Nat /\ notified \in Nat
           /\ applied <= exec /\ exec <= taken /\ taken <= sent /\ pos <= sent
           /\ sent <= committed /\ targetPos <= committed /\ committed <= Len(binlog)
           /\ attachedAt <= notified /\ notified <= committed
<1>1. Len(binlog) \in Nat
  BY SMTT(30) DEF VerificationTypeOK, DatabasesTypeOK
<1>2. committed \in 0..Len(binlog)
  BY DEF VerificationTypeOK, DatabasesTypeOK
<1>3. sent \in 0..committed /\ pos \in 0..sent /\ targetPos \in 0..committed
  BY DEF VerificationTypeOK, StreamerTypeOK
<1>4. taken \in 0..sent /\ applied \in 0..taken /\ exec \in applied..taken
  BY DEF VerificationTypeOK, WriterTypeOK
<1>5. attachedAt \in 0..committed /\ notified \in attachedAt..committed
  BY DEF VerificationTypeOK
<1> QED
  BY SMTT(30), <1>1, <1>2, <1>3, <1>4, <1>5

\* What is read from the servers are contents of the tables.
LEMMA ServersType ==
    ASSUME VerificationTypeOK
    PROVE  /\ Source \in TableData /\ CommittedSource \in TableData
           /\ CommittedTarget \in TableData
           /\ \A p \in 0..Len(binlog) : versions[p] \in TableData
<1>1. committed \in 0..Len(binlog) /\ Len(binlog) \in 0..Len(binlog)
  BY SMTT(30), Positions
<1>2. versions \in [0..Len(binlog) -> TableData] /\ target \in TableData /\ undo \in TableData
  BY DEF VerificationTypeOK, DatabasesTypeOK, WriterTypeOK
<1>3. CommittedTarget \in TableData
  BY <1>2 DEF CommittedTarget, TableData
<1> QED
  BY <1>1, <1>2, <1>3 DEF Source, CommittedSource

\* The rows are finitely many.
LEMMA FiniteRows ==
    ASSUME VerificationTypeOK
    PROVE  /\ IsFiniteSet(RowIds)
           /\ IsFiniteSet(store) /\ Cardinality(store) \in Nat
<1>1. IsFiniteSet(RowIds)
  BY DatabasesAssumption, VerifierAssumption, FS_Product DEF RowIds
<1>2. store \subseteq RowIds
  BY DEF VerificationTypeOK
<1> QED
  BY <1>1, <1>2, FS_Subset, FS_CardinalityType

\* A row has a table and a primary key, which is a number greater than zero.
LEMMA RowIdsType == \A r \in RowIds : TableOf(r) \in Tables /\ Pk(r) \in PKs /\ Pk(r) \in Nat \ {0}
<1>1. \A r \in RowIds : TableOf(r) \in Tables /\ Pk(r) \in PKs
  BY DEF RowIds, TableOf, Pk
<1> QED
  BY <1>1, DatabasesAssumption

\* The largest primary key of some rows of a table.
LEMMA LargestKey ==
    ASSUME NEW rows \in SUBSET RowIds, rows # {}
    PROVE  \E k \in {Pk(r) : r \in rows} : \A r \in rows : Pk(r) <= k
<1> DEFINE Keys == {Pk(r) : r \in rows}
           Beyond(x) == {y \in PKs : y > x}
           R == OpToRel(<, Nat)
           Sizes == {Cardinality(Beyond(x)) : x \in Keys}
<1>1. Keys \subseteq PKs /\ Keys # {}
  BY DEF RowIds, Pk
<1>2. PKs \subseteq Nat /\ IsFiniteSet(PKs)
  BY DatabasesAssumption
<1>3. \A x \in PKs : IsFiniteSet(Beyond(x)) /\ Cardinality(Beyond(x)) \in Nat
  <2> TAKE x \in PKs
  <2>1. Beyond(x) \subseteq PKs
    OBVIOUS
  <2>2. IsFiniteSet(Beyond(x))
    BY <1>2, <2>1, FS_Subset
  <2> QED
    BY <2>2, FS_CardinalityType
<1>4. Sizes \subseteq Nat /\ Sizes # {}
  BY <1>1, <1>3
<1>5. PICK m \in Sizes : \A i \in Sizes : ~ (<<i, m>> \in R)
  BY <1>4, NatLessThanWellFounded, WFMin
<1>6. \A i \in Sizes : ~ (i < m)
  BY <1>4, <1>5 DEF OpToRel
<1>7. PICK k \in Keys : m = Cardinality(Beyond(k))
  OBVIOUS
<1>8. ASSUME NEW r \in rows, Pk(r) > k
      PROVE  FALSE
  <2>1. Pk(r) \in Keys /\ Pk(r) \in PKs /\ k \in PKs /\ Pk(r) \in Nat /\ k \in Nat
    BY <1>1, <1>2
  <2>2. Beyond(Pk(r)) \subseteq Beyond(k)
    <3>1. \A y \in PKs : y > Pk(r) => y > k
      BY SMTT(30), <1>2, <1>8, <2>1
    <3> QED
      BY <3>1
  <2>3. Pk(r) \in Beyond(k) /\ Pk(r) \notin Beyond(Pk(r))
    BY SMTT(30), <1>8, <2>1
  <2>4. Cardinality(Beyond(Pk(r))) < Cardinality(Beyond(k))
    BY SMTT(30), <1>3, <2>1, <2>2, <2>3, FS_Subset
  <2> QED
    BY <1>6, <1>7, <2>1, <2>4
<1>9. \A r \in rows : Pk(r) \in Nat
  BY RowIdsType
<1>10. k \in Nat
  BY <1>1, <1>2
<1> QED
  BY SMTT(30), <1>7, <1>8, <1>9, <1>10

\* A step of the application keeps the types.
LEMMA ApplicationTypes ==
    ASSUME VerificationTypeOK, ApplicationStep
    PROVE  VerificationTypeOK'
<1>1. PICK r \in RowIds, v \in Row : ApplicationWrites(r, v, TRUE)
  BY DEF ApplicationStep
<1> DEFINE c == [row |-> r, to |-> r, old |-> Source[r], new |-> v, end |-> TRUE]
           data == [Source EXCEPT ![r] = v]
<1>2. c \in Change /\ data \in TableData
  BY ServersType DEF Change, TableData
<1>3. LogChange(c, data)
  BY <1>1 DEF ApplicationWrites
<1> HIDE DEF c, data
<1>4. binlog' \in Seq(Change) /\ Len(binlog') = Len(binlog) + 1
  BY SMTT(30), <1>2, <1>3 DEF VerificationTypeOK, DatabasesTypeOK, LogChange
<1>5. versions' \in [0..Len(binlog') -> TableData]
  BY SMTT(30), <1>2, <1>3, <1>4 DEF VerificationTypeOK, DatabasesTypeOK, LogChange
<1>6. committed' \in 0..Len(binlog') /\ committed <= committed'
  BY SMTT(30), <1>3, <1>4, Positions DEF LogChange
<1>7. DatabasesTypeOK'
  BY <1>3, <1>4, <1>5, <1>6 DEF VerificationTypeOK, DatabasesTypeOK, LogChange
<1>8. UNCHANGED <<streamerVars, writerVars, verifierVars>>
  BY DEF ApplicationStep
<1>9. StreamerTypeOK'
  BY SMTT(30), <1>6, <1>8, Positions DEF VerificationTypeOK, StreamerTypeOK, streamerVars
<1>10. attachedAt' \in 0..committed' /\ notified' \in attachedAt'..committed'
  BY SMTT(30), <1>6, <1>8, Positions DEF VerificationTypeOK, verifierVars
<1> QED
  BY <1>7, <1>8, <1>9, <1>10 DEF VerificationTypeOK, WriterTypeOK, streamerVars, writerVars,
       verifierVars

\* The streamer and the listeners keep the types.
LEMMA StreamerTypes ==
    ASSUME VerificationTypeOK, RunInv, ScanInv, LogInv,
           StreamToWriter \/ BinlogEventListener \/ StreamingEnds
    PROVE  VerificationTypeOK'
<1> USE DEF VerificationTypeOK, DatabasesTypeOK, StreamerTypeOK, WriterTypeOK,
        sourceVars, streamerVars, writerVars, verifierVars
<1>1. CASE StreamToWriter
  <2>1. sent' \in 0..committed' /\ pos' \in 0..sent' /\ sent < sent' /\ committed' = committed
    BY SMTT(30), <1>1, Positions DEF StreamToWriter, StreamEvent, EventAvailable
  <2>2. /\ StreamerTypeOK'
    BY <1>1, <2>1 DEF StreamToWriter, StreamEvent
  <2>3. attachedAt' \in 0..committed' /\ notified' \in attachedAt'..committed'
    <3>1. /\ attachedAt' = attachedAt /\ notified' \in {notified, sent'}
          /\ notified >= sent /\ sent' = sent + 1
      BY <1>1 DEF StreamToWriter, StreamEvent
    <3>2. notified' = sent' => notified = sent \/ notified' = notified
      BY <1>1 DEF StreamToWriter, Listening, ScanInv
    <3> QED
      BY SMTT(30), <2>1, <3>1, <3>2, Positions
  <2>4. DatabasesTypeOK'
    BY <1>1 DEF StreamToWriter
  <2>5. WriterTypeOK'
    BY SMTT(30), <1>1, <2>1, Positions DEF StreamToWriter
  <2> QED
    BY <1>1, <2>2, <2>3, <2>4, <2>5 DEF StreamToWriter
<1>2. CASE BinlogEventListener
  <2>1. notified + 1 \in 1..Len(binlog)
    BY SMTT(30), <1>2, Positions DEF BinlogEventListener
  <2>2. binlog[notified + 1].row \in RowIds
    BY <2>1 DEF LogInv
  <2>3. store' \subseteq RowIds
    BY <1>2, <2>2 DEF BinlogEventListener
  <2>4. notified' \in attachedAt'..committed'
    BY SMTT(30), <1>2, Positions DEF BinlogEventListener
  <2> QED
    BY SMTT(30), <1>2, <2>3, <2>4 DEF BinlogEventListener
<1>3. CASE StreamingEnds
  BY SMTT(30), <1>3 DEF StreamingEnds, StreamerReturns
<1> QED
  BY <1>1, <1>2, <1>3

\* What a replayed statement makes of the rows are rows.
LEMMA StatementTypes ==
    ASSUME NEW c, NEW data \in TableData, c.new \in Row
    PROVE  AsSQL(c, data) \in TableData
<1>1. NoRow \in Row
  BY DEF Row
<1>2. [data EXCEPT ![c.row] = NoRow] \in TableData
  BY <1>1 DEF TableData
<1> QED
  BY <1>2 DEF AsSQL, TableData

\* The writer keeps the types.
LEMMA WriterTypes ==
    ASSUME VerificationTypeOK, WriterStep
    PROVE  VerificationTypeOK'
<1> USE DEF VerificationTypeOK, DatabasesTypeOK, StreamerTypeOK, WriterTypeOK,
        sourceVars, streamerVars, writerVars, verifierVars
<1> USE BinlogWriterAssumption
<1>0. UNCHANGED <<sourceVars, streamerVars, verifierVars>>
  BY DEF WriterStep, WriterProgress, WriterRetries
<1>1. CASE ReceiveEvent
  BY SMTT(30), <1>0, <1>1, Positions DEF ReceiveEvent, Buffered
<1>2. CASE BatchReady
  BY SMTT(30), <1>0, <1>2, Positions DEF BatchReady
<1>3. CASE ExecuteStatement
  <2>1. target' \in TableData
    <3>1. CASE IsDML(exec + 1)
      <4>1. binlog[exec + 1] \in Change
        BY SMTT(30), <1>3, Positions DEF ExecuteStatement
      <4>2. binlog[exec + 1].new \in Row
        BY <4>1 DEF Change
      <4> QED
        BY SMTT(30), <1>3, <3>1, <4>2, StatementTypes DEF ExecuteStatement
    <3> QED
      BY <1>3, <3>1 DEF ExecuteStatement
  <2>2. undo' \in TableData
    BY <1>3 DEF ExecuteStatement, TableData
  <2>3. exec' \in applied'..taken'
    BY SMTT(30), <1>3, Positions DEF ExecuteStatement
  <2>4. UNCHANGED <<writer, taken, applied, attempt>>
    BY <1>3 DEF ExecuteStatement
  <2>5. WriterTypeOK'
    BY <1>0, <2>2, <2>3, <2>4
  <2>6. DatabasesTypeOK' /\ StreamerTypeOK'
    BY <1>0, <2>1
  <2> QED
    BY <1>0, <2>5, <2>6
<1>4. CASE BatchWritten
  <2>1. undo' \in TableData
    BY <1>4 DEF BatchWritten, NothingToUndo, TableData, Row
  <2> QED
    BY SMTT(30), <1>0, <1>4, <2>1, Positions DEF BatchWritten
<1>5. CASE WriterReturns
  BY SMTT(30), <1>0, <1>5 DEF WriterReturns
<1>6. CASE RetryWrite
  <2>1. undo' \in TableData
    BY <1>6 DEF RetryWrite, NothingToUndo, TableData, Row
  <2>2. target' \in TableData
    BY <1>6, ServersType DEF RetryWrite
  <2>3. exec' \in applied'..taken' /\ attempt' \in 1..WriteRetries
    BY SMTT(30), <1>6, Positions DEF RetryWrite
  <2>4. UNCHANGED <<writer, taken, applied>>
    BY <1>6 DEF RetryWrite
  <2>5. WriterTypeOK'
    BY <1>0, <2>1, <2>3, <2>4
  <2>6. DatabasesTypeOK' /\ StreamerTypeOK'
    BY <1>0, <2>2
  <2> QED
    BY <1>0, <2>5, <2>6
<1> QED
  BY <1>1, <1>2, <1>3, <1>4, <1>5, <1>6, ZenonT(30) DEF WriterStep, WriterProgress, WriterRetries

\* The steps of the verifier leave the run alone.
RunUnchanged == UNCHANGED <<sourceVars, target, streamerVars, writerVars, notified>>

LEMMA RunTypes ==
    ASSUME VerificationTypeOK, RunUnchanged
    PROVE  /\ DatabasesTypeOK' /\ StreamerTypeOK' /\ WriterTypeOK'
           /\ committed' = committed /\ notified' = notified
BY DEF VerificationTypeOK, DatabasesTypeOK, StreamerTypeOK, WriterTypeOK, RunUnchanged,
     sourceVars, streamerVars, writerVars

\* A step of a comparison keeps the types.
LEMMA JobTypes ==
    ASSUME VerificationTypeOK, ScanInv, NEW j \in jobs, JobStep(j)
    PROVE  VerificationTypeOK'
<1>1. /\ RunUnchanged
      /\ UNCHANGED <<stage, attachedAt, todo, before, iteration, result>>
  BY DEF JobStep, RunUnchanged
<1>2. /\ DatabasesTypeOK' /\ StreamerTypeOK' /\ WriterTypeOK'
      /\ committed' = committed /\ notified' = notified
  BY <1>1, RunTypes
<1>3. j \in Job /\ jobs \subseteq Job /\ j.rows \subseteq RowIds
  BY DEF VerificationTypeOK, Job
<1>4. CASE GetHashes(j)
  <2>1. PICK side \in {"source", "target"}, data \in {CommittedSource, CommittedTarget} :
            jobs' = (jobs \ {j}) \cup
                    {[j EXCEPT !.first = side, !.hashes = HashesOf(data, j.rows)]}
    BY <1>4 DEF GetHashes
  <2>2. HashesOf(data, j.rows) \in TableData
    BY ServersType DEF HashesOf, TableData, Row
  <2>3. [j EXCEPT !.first = side, !.hashes = HashesOf(data, j.rows)] \in Job
    BY <1>3, <2>2 DEF Job
  <2>4. jobs' \subseteq Job
    BY <1>3, <2>1, <2>3
  <2> QED
    BY <1>1, <1>2, <1>4, <2>4 DEF VerificationTypeOK, GetHashes
<1>5. CASE CompareFingerprints(j)
  <2>1. MismatchedRows(j) \subseteq RowIds
    BY <1>3 DEF MismatchedRows
  <2>2. store' \subseteq RowIds /\ failed' \in BOOLEAN /\ jobs' \subseteq Job
    BY <1>3, <1>5, <2>1, ZenonT(30) DEF VerificationTypeOK, CompareFingerprints
  <2>3. scanLast' \in [Tables -> Nat]
    <3>1. CASE stage # "scan"
      BY <1>5, <3>1 DEF VerificationTypeOK, CompareFingerprints
    <3>2. CASE stage = "scan" /\ j.rows = {}
      BY <1>5, <3>2 DEF VerificationTypeOK, CompareFingerprints
    <3>3. CASE stage = "scan" /\ j.rows # {}
      <4> DEFINE last == CHOOSE k \in {Pk(r) : r \in j.rows} : \A r \in j.rows : Pk(r) <= k
      <4>1. last \in {Pk(r) : r \in j.rows}
        BY <1>3, <3>3, LargestKey
      <4>2. last \in Nat
        BY <1>3, <4>1, RowIdsType
      <4>3. scanLast' = [t \in Tables |-> IF \E r \in j.rows : TableOf(r) = t
                                           THEN last ELSE scanLast[t]]
        BY <1>5, <3>3 DEF CompareFingerprints
      <4> HIDE DEF last
      <4> QED
        BY <4>2, <4>3 DEF VerificationTypeOK
    <3> QED
      BY <3>1, <3>2, <3>3
  <2> QED
    BY <1>1, <1>2, <1>5, <2>2, <2>3 DEF VerificationTypeOK, CompareFingerprints
<1>6. CASE FingerprintError(j)
  BY <1>1, <1>2, <1>3, <1>6, ZenonT(30) DEF VerificationTypeOK, FingerprintError
<1> QED
  BY <1>4, <1>5, <1>6 DEF JobStep

\* Flushing the store makes batches of its rows.
LEMMA FlushTypes ==
    ASSUME VerificationTypeOK, Flush
    PROVE  /\ store' = {} /\ todo' \subseteq SUBSET RowIds /\ before' \in Nat
           /\ UNION todo' = store
<1>1. todo' \in SUBSET SUBSET store /\ UNION todo' = store
  BY DEF Flush, Batchings
<1>2. store \subseteq RowIds
  BY DEF VerificationTypeOK
<1> QED
  BY <1>1, <1>2, FiniteRows DEF Flush

\* The other steps of the verifier keep the types.
LEMMA VerifierTypes ==
    ASSUME VerificationTypeOK, ScanInv,
           \/ \E t \in Tables : IterateTable(t) \/ FetchKeys(t)
           \/ ScanEnds \/ ReverifyBatch \/ AnotherIteration \/ ReverificationEnds
           \/ VerificationResult \/ VerifyDuringCutover \/ AbortRun
    PROVE  VerificationTypeOK' /\ RunUnchanged
<1>1. RunUnchanged
  BY DEF IterateTable, FetchKeys, ScanEnds, ReverifyBatch,
     AnotherIteration, ReverificationEnds, VerificationResult, VerifyDuringCutover, AbortRun,
     RunUnchanged
<1>2. /\ DatabasesTypeOK' /\ StreamerTypeOK' /\ WriterTypeOK'
      /\ committed' = committed /\ notified' = notified
  BY <1>1, RunTypes
<1>3. ASSUME NEW b \in SUBSET RowIds
      PROVE  NewJob(b) \in Job
  BY DEF NewJob, Job, Nothing, TableData, Row
<1> USE DEF VerificationTypeOK
<1>4. ASSUME NEW t \in Tables, IterateTable(t)
      PROVE  VerificationTypeOK'
  BY <1>2, <1>4 DEF IterateTable
<1>5. ASSUME NEW t \in Tables, FetchKeys(t)
      PROVE  VerificationTypeOK'
  <2> DEFINE rows == RowsAfter(CommittedSource, t, scanLast[t])
  <2>1. FirstRows(rows, VerifierBatchSize) \subseteq RowIds
    BY DEF FirstRows, RowsAfter
  <2>2. \/ jobs' = jobs
        \/ jobs' = jobs \cup {NewJob(FirstRows(rows, VerifierBatchSize))}
    BY <1>5 DEF FetchKeys
  <2>3. jobs' \subseteq Job
    BY SMTT(30), <1>3, <2>1, <2>2
  <2>4. scan' \in {scan, [scan EXCEPT ![t] = "done"]} /\ errored' \in {errored, TRUE}
    BY <1>5 DEF FetchKeys
  <2>5. UNCHANGED <<stage, attachedAt, store, scanLast, todo, before, iteration, failed, result>>
    BY <1>5 DEF FetchKeys
  <2> QED
    BY <1>2, <2>3, <2>4, <2>5
<1>6. CASE ScanEnds
  BY SMTT(30), <1>1, <1>2, <1>6, FlushTypes, VerifierAssumption DEF ScanEnds
<1>7. CASE ReverifyBatch
  <2>1. PICK b \in todo : todo' = todo \ {b} /\ jobs' = jobs \cup {NewJob(b)}
    BY <1>7 DEF ReverifyBatch
  <2>2. NewJob(b) \in Job
    BY <1>3
  <2> QED
    BY <1>1, <1>2, <1>7, <2>1, <2>2 DEF ReverifyBatch
<1>8. CASE AnotherIteration
  BY SMTT(30), <1>1, <1>2, <1>8, FlushTypes, VerifierAssumption
     DEF AnotherIteration, StoreIsSmallEnough
<1>9. CASE ReverificationEnds
  BY <1>1, <1>2, <1>9 DEF ReverificationEnds
<1>10. CASE VerificationResult
  BY <1>1, <1>2, <1>10 DEF VerificationResult
<1>11. CASE VerifyDuringCutover
  BY <1>1, <1>2, <1>11, FlushTypes DEF VerifyDuringCutover
<1>12. CASE AbortRun
  BY <1>1, <1>2, <1>12 DEF AbortRun
<1> QED
  BY <1>1, <1>4, <1>5, <1>6, <1>7, <1>8, <1>9, <1>10, <1>11, <1>12, ZenonT(30)

----------------------------------------------------------------------------
\* The log and the end of the run.

\* The application appends a change of one row to the log.
LEMMA ApplicationEffect ==
    ASSUME VerificationTypeOK, ApplicationStep
    PROVE  /\ Len(binlog) \in Nat /\ Len(binlog') = Len(binlog) + 1
           /\ committed' = Len(binlog) + 1 /\ ~writesStopped /\ ~writesStopped'
           /\ target' = target /\ UNCHANGED <<streamerVars, writerVars, verifierVars>>
           /\ \A i \in 1..Len(binlog) : binlog'[i] = binlog[i]
           /\ \A p \in 0..Len(binlog) : versions'[p] = versions[p]
           /\ \E r \in RowIds :
                 /\ binlog'[Len(binlog) + 1].row = r /\ binlog'[Len(binlog) + 1].to = r
                 /\ binlog'[Len(binlog) + 1].end
                 /\ binlog'[Len(binlog) + 1].old = versions[Len(binlog)][r]
                 /\ binlog'[Len(binlog) + 1].new = versions'[Len(binlog) + 1][r]
                 /\ \A s \in RowIds : s # r =>
                       versions'[Len(binlog) + 1][s] = versions[Len(binlog)][s]
<1>1. PICK r \in RowIds, v \in Row : ApplicationWrites(r, v, TRUE)
  BY DEF ApplicationStep
<1> DEFINE c == [row |-> r, to |-> r, old |-> Source[r], new |-> v, end |-> TRUE]
           data == [Source EXCEPT ![r] = v]
<1>2. c \in Change /\ data \in TableData /\ Source \in TableData
  BY ServersType DEF Change, TableData
<1>3. LogChange(c, data)
  BY <1>1 DEF ApplicationWrites
<1>4. /\ c.row = r /\ c.to = r /\ c.end = TRUE /\ c.old = versions[Len(binlog)][r]
      /\ c.new = data[r] /\ \A s \in RowIds : s # r => data[s] = versions[Len(binlog)][s]
  BY <1>2 DEF TableData, Source
<1> HIDE DEF c, data
<1>5. binlog \in Seq(Change) /\ Len(binlog) \in Nat /\ binlog' = Append(binlog, c)
  BY SMTT(30), <1>3 DEF VerificationTypeOK, DatabasesTypeOK, LogChange
<1>6. /\ Len(binlog') = Len(binlog) + 1
      /\ \A i \in 1..Len(binlog) : binlog'[i] = binlog[i]
      /\ binlog'[Len(binlog) + 1] = c
  BY SMTT(30), <1>2, <1>5
<1>7. versions' = [p \in 0..Len(binlog) + 1 |->
                      IF p <= Len(binlog) THEN versions[p] ELSE data]
  BY <1>3 DEF LogChange
<1>8. /\ \A p \in 0..Len(binlog) : versions'[p] = versions[p]
      /\ versions'[Len(binlog) + 1] = data
  BY SMTT(30), <1>5, <1>7
<1>9. /\ committed' = Len(binlog) + 1 /\ ~writesStopped /\ ~writesStopped'
      /\ target' = target
  BY <1>3, <1>4 DEF LogChange
<1>10. UNCHANGED <<streamerVars, writerVars, verifierVars>>
  BY DEF ApplicationStep
<1>11. \E q \in RowIds :
                 /\ c.row = q /\ c.to = q /\ c.end /\ c.old = versions[Len(binlog)][q]
                 /\ c.new = data[q]
                 /\ \A s \in RowIds : s # q => data[s] = versions[Len(binlog)][s]
  BY <1>4
<1> QED
  BY <1>5, <1>6, <1>8, <1>9, <1>10, <1>11, ZenonT(30)

\* The entries of the log stay what they are.
LEMMA LogStep ==
    ASSUME VerificationTypeOK, LogInv, ApplicationStep
    PROVE  LogInv'
<1> DEFINE n == Len(binlog)
<1>1. PICK r \in RowIds :
                 /\ binlog'[n + 1].row = r /\ binlog'[n + 1].to = r
                 /\ binlog'[n + 1].end
                 /\ binlog'[n + 1].old = versions[n][r]
                 /\ binlog'[n + 1].new = versions'[n + 1][r]
                 /\ \A s \in RowIds : s # r => versions'[n + 1][s] = versions[n][s]
  BY ApplicationEffect
<1>2. /\ n \in Nat /\ Len(binlog') = n + 1 /\ committed' = n + 1
      /\ \A i \in 1..n : binlog'[i] = binlog[i]
      /\ \A p \in 0..n : versions'[p] = versions[p]
  BY ApplicationEffect, ZenonT(30)
<1>3. \A i \in 1..n :
          /\ binlog[i].row \in RowIds /\ binlog[i].to = binlog[i].row /\ binlog[i].end
          /\ binlog[i].old = versions[i - 1][binlog[i].row]
          /\ binlog[i].new = versions[i][binlog[i].row]
  BY DEF LogInv
<1>4. \A p, q \in 0..n : \A s \in RowIds :
          p <= q /\ (\A i \in p + 1..q : binlog[i].row # s) => versions[p][s] = versions[q][s]
  <2>1. \A p, q \in 0..n : \A s \in RowIds :
            p <= q /\ ~ChangedIn(s, p, q) => versions[p][s] = versions[q][s]
    BY DEF LogInv
  <2>2. \A p, q, s : (\A i \in p + 1..q : binlog[i].row # s) => ~ChangedIn(s, p, q)
    BY DEF ChangedIn
  <2>3. SUFFICES ASSUME NEW p \in 0..n, NEW q \in 0..n, NEW s \in RowIds, p <= q,
                        \A i \in p + 1..q : binlog[i].row # s
                 PROVE  versions[p][s] = versions[q][s]
    BY ZenonT(30)
  <2>4. ~ChangedIn(s, p, q)
    BY <2>2, <2>3
  <2> QED
    BY <2>1, <2>3, <2>4
<1> HIDE DEF n
<1>5. ASSUME NEW i \in 1..n + 1
      PROVE  /\ binlog'[i].row \in RowIds /\ binlog'[i].to = binlog'[i].row /\ binlog'[i].end
             /\ binlog'[i].old = versions'[i - 1][binlog'[i].row]
             /\ binlog'[i].new = versions'[i][binlog'[i].row]
  <2>1. CASE i = n + 1
    <3>1. i - 1 = n /\ versions'[n] = versions[n]
      BY SMTT(30), <1>2, <2>1
    <3> QED
      BY <1>1, <2>1, <3>1
  <2>2. CASE i \in 1..n
    <3>1. /\ binlog'[i] = binlog[i] /\ versions'[i] = versions[i]
          /\ versions'[i - 1] = versions[i - 1]
      BY SMTT(30), <1>2, <2>2
    <3> QED
      BY <1>3, <2>2, <3>1
  <2> QED
    BY SMTT(30), <1>2, <2>1, <2>2
<1>6. ASSUME NEW p \in 0..n + 1, NEW q \in 0..n + 1, NEW s \in RowIds, p <= q,
             \A i \in p + 1..q : binlog'[i].row # s
      PROVE  versions'[p][s] = versions'[q][s]
  <2>1. CASE q \in 0..n
    <3>1. p \in 0..n /\ \A i \in p + 1..q : i \in 1..n
      BY SMTT(30), <1>2, <1>6, <2>1
    <3>2. \A i \in p + 1..q : binlog[i].row # s
      BY <1>2, <1>6, <3>1
    <3>3. versions[p][s] = versions[q][s]
      BY <1>4, <1>6, <2>1, <3>1, <3>2
    <3> QED
      BY <1>2, <2>1, <3>1, <3>3
  <2>2. CASE q = n + 1 /\ p = n + 1
    BY <2>2
  <2>3. CASE q = n + 1 /\ p \in 0..n
    <3>1. /\ n + 1 \in p + 1..q /\ n \in 0..n /\ p <= n
          /\ \A i \in p + 1..n : i \in 1..n /\ i \in p + 1..q
      BY SMTT(30), <1>2, <2>3
    <3>2. s # r
      BY <1>1, <1>6, <3>1
    <3>3. \A i \in p + 1..n : binlog[i].row # s
      BY <1>2, <1>6, <3>1
    <3>4. versions[p][s] = versions[n][s]
      BY <1>4, <2>3, <3>1, <3>3
    <3> QED
      BY <1>1, <1>2, <2>3, <3>2, <3>4
  <2> QED
    BY SMTT(30), <1>2, <2>1, <2>2, <2>3
<1>7. \A p, q \in 0..n + 1 : \A s \in RowIds :
          p <= q /\ (\A i \in p + 1..q : binlog'[i].row # s) => versions'[p][s] = versions'[q][s]
  BY <1>6
<1>8. \A p, q \in 0..n + 1 : \A s \in RowIds :
          ~ChangedIn(s, p, q)' => \A i \in p + 1..q : binlog'[i].row # s
  BY DEF ChangedIn
<1>9. \A p, q \in 0..n + 1 : \A s \in RowIds :
          p <= q /\ ~ChangedIn(s, p, q)' => versions'[p][s] = versions'[q][s]
  BY SMTT(30), <1>7, <1>8
<1> QED
  BY SMTT(30), <1>2, <1>5, <1>9 DEF LogInv

\* A step that leaves the log alone.
LEMMA LogFrame ==
    ASSUME LogInv, UNCHANGED <<versions, binlog, committed>>
    PROVE  LogInv'
BY SMTT(30) DEF LogInv, ChangedIn

\* Every change in the log is one that the writer replays.
LEMMA AllAreDML ==
    ASSUME VerificationTypeOK, LogInv, NEW i \in 1..Len(binlog)
    PROVE  IsDML(i) /\ \A r : Touches(i, r) <=> r = binlog[i].row
<1>1. binlog[i].row \in RowIds /\ binlog[i].to = binlog[i].row
  BY DEF LogInv
<1> QED
  BY <1>1, DatabasesAssumption DEF IsDML, Touches, RowIds

\* The streamer, the writer and the lock, at the end of the run.
LEMMA RunStepInv ==
    ASSUME VerificationTypeOK, LogInv, RunInv,
           ApplicationStep \/ RunStep \/ CutoverLock
    PROVE  RunInv'
<1> USE DEF sourceVars, streamerVars, writerVars, verifierVars
<1>0. /\ committed = Len(binlog) /\ stopRequested \in BOOLEAN /\ writesStopped \in BOOLEAN
      /\ streamer \in {"running", "closed"}
  BY DEF LogInv, RunInv, VerificationTypeOK, StreamerTypeOK, DatabasesTypeOK
<1>1. CASE ApplicationStep
  <2>1. ~writesStopped /\ UNCHANGED <<streamerVars, writerVars, verifierVars>>
    BY <1>1, ApplicationEffect
  <2>2. ~stopRequested /\ streamer = "running" /\ writer # "done"
    BY <2>1 DEF RunInv
  <2> QED
    BY <2>1, <2>2 DEF RunInv
<1>2. CASE StreamToWriter
  <2>1. /\ streamer = "running" /\ sent < committed /\ sent' = sent + 1
        /\ pos' = IF binlog[sent + 1].end THEN sent + 1 ELSE pos
        /\ UNCHANGED <<binlog, writesStopped, streamer, targetPos, stopRequested, writer, exec,
                       applied>>
    BY <1>2 DEF StreamToWriter, StreamEvent, EventAvailable
  <2>2. sent + 1 \in 1..Len(binlog)
    BY SMTT(30), <1>0, <2>1, Positions
  <2>3. sent' = pos'
    BY <2>1, <2>2 DEF LogInv
  <2> QED
    BY <2>1, <2>3 DEF RunInv
<1>3. CASE BinlogEventListener
  <2>1. /\ notified < sent
        /\ UNCHANGED <<binlog, writesStopped, streamer, targetPos, stopRequested, writer, exec,
                       applied, sent, pos>>
    BY <1>3 DEF BinlogEventListener
  <2>2. streamer # "closed"
    BY SMTT(30), <2>1, Positions DEF RunInv
  <2> QED
    BY <2>1, <2>2 DEF RunInv
<1>4. CASE StreamingEnds
  <2>1. /\ streamer = "running" /\ stopRequested /\ ~(pos < targetPos) /\ notified = sent
        /\ streamer' = "closed"
        /\ UNCHANGED <<binlog, writesStopped, targetPos, stopRequested, writer, exec, applied,
                       sent, pos, notified>>
    BY <1>4 DEF StreamingEnds, StreamerReturns, KeepStreaming
  <2>2. sent = Len(binlog)
    BY SMTT(30), <1>0, <2>1, Positions DEF RunInv
  <2> QED
    BY <2>1, <2>2 DEF RunInv
<1>5. CASE WriterStep
  <2>0. UNCHANGED <<sourceVars, streamerVars, verifierVars>>
    BY <1>5 DEF WriterStep, WriterProgress, WriterRetries
  <2>1. CASE ReceiveEvent
    BY <2>0, <2>1 DEF ReceiveEvent, RunInv
  <2>2. CASE BatchReady
    BY <2>0, <2>2 DEF BatchReady, RunInv
  <2>3. CASE ExecuteStatement
    BY <2>0, <2>3 DEF ExecuteStatement, RunInv
  <2>4. CASE BatchWritten
    BY <2>0, <2>4 DEF BatchWritten, RunInv
  <2>5. CASE WriterReturns
    <3>1. /\ writer = "gather" /\ writer' = "done" /\ exec' = exec /\ applied' = applied
          /\ streamer = "closed" /\ Buffered = {} /\ Batch = {}
      BY <2>5 DEF WriterReturns, BufferClosed
    <3>2. sent = Len(binlog) /\ exec = applied
      BY <3>1 DEF RunInv
    <3>3. taken = sent
      <4>1. SUFFICES ASSUME taken < sent PROVE FALSE
        BY SMTT(30), Positions
      <4>2. taken + 1 \in 1..Len(binlog) /\ taken + 1 \in taken + 1..sent
        BY SMTT(30), <3>2, <4>1, Positions
      <4>3. IsDML(taken + 1)
        BY <4>2, AllAreDML
      <4> QED
        BY <3>1, <4>2, <4>3 DEF Buffered
    <3>4. applied = taken
      <4>1. SUFFICES ASSUME applied < taken PROVE FALSE
        BY SMTT(30), Positions
      <4>2. applied + 1 \in 1..Len(binlog) /\ applied + 1 \in applied + 1..taken
        BY SMTT(30), <3>2, <4>1, Positions
      <4>3. IsDML(applied + 1)
        BY <4>2, AllAreDML
      <4> QED
        BY <3>1, <4>2, <4>3 DEF Batch
    <3> QED
      BY <2>0, <3>1, <3>2, <3>3, <3>4 DEF RunInv
  <2>6. CASE RetryWrite
    BY <2>0, <2>6 DEF RetryWrite, RunInv
  <2> QED
    BY <1>5, <2>1, <2>2, <2>3, <2>4, <2>5, <2>6 DEF WriterStep, WriterProgress, WriterRetries
<1>6. CASE FlushBinlogAndStopStreaming
  <2>1. /\ writesStopped /\ ~stopRequested /\ targetPos' = committed /\ stopRequested'
        /\ UNCHANGED <<binlog, writesStopped, streamer, writer, exec, applied, sent, pos>>
    BY <1>6 DEF FlushBinlogAndStopStreaming
  <2> QED
    BY <1>0, <2>1 DEF RunInv
<1>7. CASE CutoverLock
  BY <1>7 DEF CutoverLock, StopWrites, RunInv
<1> QED
  BY <1>1, <1>2, <1>3, <1>4, <1>5, <1>6, <1>7, ZenonT(30) DEF RunStep

\* A statement of the open transaction: where the rows are, after it.
LEMMA StatementEffect ==
    ASSUME VerificationTypeOK, LogInv, WriterStep, ExecuteStatement
    PROVE  /\ exec + 1 \in 1..Len(binlog) /\ exec' = exec + 1 /\ applied' = applied
           /\ UNCHANGED <<versions, binlog>>
           /\ LET b == binlog[exec + 1].row IN
              /\ b \in RowIds
              /\ target'[b] = IF target[b] = versions[exec][b] THEN versions[exec + 1][b]
                              ELSE target[b]
              /\ undo'[b] = IF TargetLocked(b) THEN undo[b] ELSE target[b]
              /\ \A r \in RowIds : r # b =>
                    /\ target'[r] = target[r] /\ undo'[r] = undo[r]
                    /\ versions[exec + 1][r] = versions[exec][r]
<1> DEFINE i == exec + 1
           b == binlog[i].row
<1>1. /\ i \in 1..Len(binlog) /\ exec' = i /\ applied' = applied /\ i - 1 = exec
      /\ exec \in 0..Len(binlog) /\ i \in 0..Len(binlog) /\ exec <= i /\ exec \in Nat
      /\ \A k \in exec + 1..i : k = i
  <2>1. exec' = exec + 1 /\ applied' = applied /\ exec < taken
    BY DEF ExecuteStatement
  <2>2. /\ exec \in Nat /\ taken \in Nat /\ Len(binlog) \in Nat /\ sent \in Nat
        /\ committed \in Nat /\ taken <= sent /\ sent <= committed /\ committed <= Len(binlog)
    BY Positions
  <2>3. i \in 1..Len(binlog)
    BY SMTT(30), <2>1, <2>2
  <2>4. /\ i - 1 = exec /\ exec \in 0..Len(binlog) /\ i \in 0..Len(binlog) /\ exec <= i
        /\ \A k \in exec + 1..i : k = i
    BY SMTT(30), <2>2, <2>3
  <2> QED
    BY <2>1, <2>2, <2>3, <2>4
<1>2. /\ b \in RowIds /\ binlog[i].to = b /\ binlog[i].old = versions[exec][b]
      /\ binlog[i].new = versions[i][b]
  BY <1>1, ZenonT(30) DEF LogInv
<1>3. IsDML(i) /\ \A r : Touches(i, r) <=> r = b
  BY <1>1, AllAreDML
<1>4. target' = AsSQL(binlog[i], target)
  BY <1>3 DEF ExecuteStatement
<1>5. target \in TableData
  BY DEF VerificationTypeOK, DatabasesTypeOK
<1>6. UNCHANGED <<versions, binlog>>
  BY DEF WriterStep, WriterProgress, WriterRetries, sourceVars
<1>7. undo' = [r \in RowIds |-> IF Touches(i, r) /\ ~TargetLocked(r) THEN target[r] ELSE undo[r]]
  BY DEF ExecuteStatement
<1>8. \A r \in RowIds : r # b => versions[i][r] = versions[exec][r]
  <2> TAKE r \in RowIds
  <2> HAVE r # b
  <2>1. ~ChangedIn(r, exec, i)
    BY <1>1 DEF ChangedIn
  <2> QED
    BY <1>1, <2>1, ZenonT(30) DEF LogInv
<1> HIDE DEF i
<1>9. /\ target'[b] = IF target[b] = versions[exec][b] THEN versions[i][b] ELSE target[b]
      /\ \A r \in RowIds : r # b => target'[r] = target[r]
  BY <1>2, <1>4, <1>5 DEF AsSQL, TableData
<1>10. /\ undo'[b] = IF TargetLocked(b) THEN undo[b] ELSE target[b]
       /\ \A r \in RowIds : r # b => undo'[r] = undo[r]
  BY <1>2, <1>3, <1>7
<1> QED
  BY <1>1, <1>2, <1>6, <1>8, <1>9, <1>10, ZenonT(30) DEF i

\* A statement keeps a row on its way.
LEMMA StatementKeepsTheWay ==
    ASSUME VerificationTypeOK, LogInv, WriterStep, ExecuteStatement,
           NEW r \in RowIds, OnItsWay(r)
    PROVE  OnItsWay(r)'
<1> DEFINE i == exec + 1
           b == binlog[i].row
<1>1. /\ i \in 1..Len(binlog) /\ exec' = i /\ UNCHANGED <<versions, binlog>>
      /\ target'[b] = IF target[b] = versions[exec][b] THEN versions[i][b] ELSE target[b]
      /\ r # b => target'[r] = target[r] /\ versions[i][r] = versions[exec][r]
  BY StatementEffect
<1>2. PICK p \in exec..Len(binlog) : target[r] = versions[p][r]
  BY DEF OnItsWay
<1>3. /\ p = exec \/ p \in i..Len(binlog)
      /\ i \in i..Len(binlog)
  <2>1. exec \in Nat /\ Len(binlog) \in Nat
    BY Positions
  <2>2. i \in 1..Len(binlog)
    BY <1>1
  <2> QED
    BY SMTT(30), <2>1, <2>2
<1> HIDE DEF i
<1>4. \/ target'[r] = versions[p][r] /\ p \in i..Len(binlog)
      \/ target'[r] = versions[i][r]
  BY <1>1, <1>2, <1>3
<1> QED
  BY <1>1, <1>3, <1>4 DEF OnItsWay

\* A statement keeps what is known of the locked rows.
LEMMA LockedRowsStatement ==
    ASSUME VerificationTypeOK, LogInv, LockedRowsInv, WriterStep, ExecuteStatement
    PROVE  LockedRowsInv'
<1> DEFINE i == exec + 1
           b == binlog[i].row
<1>1. /\ i \in 1..Len(binlog) /\ exec' = i /\ applied' = applied /\ UNCHANGED <<versions, binlog>>
      /\ b \in RowIds
      /\ target'[b] = IF target[b] = versions[exec][b] THEN versions[i][b] ELSE target[b]
      /\ undo'[b] = IF TargetLocked(b) THEN undo[b] ELSE target[b]
      /\ \A r \in RowIds : r # b => target'[r] = target[r] /\ undo'[r] = undo[r]
  BY StatementEffect
<1>2. /\ exec \in applied..Len(binlog) /\ i \in i..Len(binlog)
      /\ \A k \in applied + 1..i : k \in applied + 1..exec \/ k = i
  <2>1. /\ exec \in Nat /\ applied \in Nat /\ applied <= exec /\ Len(binlog) \in Nat
    BY Positions
  <2>2. i \in 1..Len(binlog)
    BY <1>1
  <2> QED
    BY SMTT(30), <2>1, <2>2
<1>3. \A r : Touches(i, r) <=> r = b
  BY <1>1, AllAreDML
<1>4. SUFFICES ASSUME NEW r \in RowIds, TargetLocked(r)'
               PROVE  \/ /\ OnItsWay(r)'
                         /\ \E q \in applied..Len(binlog) : undo'[r] = versions[q][r]
                      \/ target'[r] = undo'[r]
  BY <1>1, ZenonT(30) DEF LockedRowsInv
<1>5. TargetLocked(r) \/ r = b
  <2>1. PICK k \in applied + 1..i : Touches(k, r)
    BY <1>1, <1>4 DEF TargetLocked, Touches
  <2> QED
    BY <1>2, <1>3, <2>1 DEF TargetLocked
<1>6. TargetLocked(r) => \/ /\ OnItsWay(r)'
                            /\ \E q \in applied..Len(binlog) : undo[r] = versions[q][r]
                         \/ target[r] = undo[r]
  BY StatementKeepsTheWay DEF LockedRowsInv
<1>7. target'[r] = versions[i][r] => OnItsWay(r)'
  BY <1>1, <1>2 DEF OnItsWay
<1> HIDE DEF i, b
<1>8. CASE r # b
  BY <1>1, <1>5, <1>6, <1>8
<1>9. CASE r = b /\ TargetLocked(r)
  <2>1. /\ target'[r] = IF target[r] = versions[exec][r] THEN versions[i][r] ELSE target[r]
        /\ undo'[r] = undo[r]
    BY <1>1, <1>9
  <2> QED
    BY <1>2, <1>6, <1>7, <1>9, <2>1, ZenonT(30)
<1>10. CASE r = b /\ ~TargetLocked(r)
  <2>1. /\ target'[r] = IF target[r] = versions[exec][r] THEN versions[i][r] ELSE target[r]
        /\ undo'[r] = target[r]
    BY <1>1, <1>10
  <2> QED
    BY <1>2, <1>7, <2>1
<1> QED
  BY <1>8, <1>9, <1>10

\* Every step of the run keeps what is known of the locked rows.
LEMMA LockedRowsStep ==
    ASSUME VerificationTypeOK, LogInv, RunInv, LockedRowsInv,
           ApplicationStep \/ WriterStep
    PROVE  LockedRowsInv'
<1>1. CASE ApplicationStep
  <2>1. /\ target' = target /\ UNCHANGED <<exec, applied, undo>>
        /\ Len(binlog') = Len(binlog) + 1
        /\ \A i \in 1..Len(binlog) : binlog'[i] = binlog[i]
        /\ \A p \in 0..Len(binlog) : versions'[p] = versions[p]
    BY <1>1, ApplicationEffect DEF writerVars
  <2>2. /\ \A i \in applied + 1..exec : i \in 1..Len(binlog)
        /\ \A q \in applied..Len(binlog) : q \in 0..Len(binlog) /\ q \in applied..Len(binlog) + 1
        /\ \A q \in exec..Len(binlog) : q \in 0..Len(binlog) /\ q \in exec..Len(binlog) + 1
    BY SMTT(30), Positions
  <2>3. \A r \in RowIds : TargetLocked(r)' => TargetLocked(r)
    BY <2>1, <2>2 DEF TargetLocked, Touches
  <2>4. SUFFICES ASSUME NEW r \in RowIds, TargetLocked(r)
                 PROVE  \/ /\ OnItsWay(r)'
                           /\ \E q \in applied..Len(binlog) + 1 : undo[r] = versions'[q][r]
                        \/ target[r] = undo[r]
    BY <2>1, <2>3, ZenonT(30) DEF LockedRowsInv
  <2>5. CASE target[r] = undo[r]
    BY <2>5
  <2>6. CASE OnItsWay(r) /\ \E q \in applied..Len(binlog) : undo[r] = versions[q][r]
    <3>1. PICK p \in exec..Len(binlog) : target[r] = versions[p][r]
      BY <2>6 DEF OnItsWay
    <3>2. OnItsWay(r)'
      BY <2>1, <2>2, <3>1 DEF OnItsWay
    <3> QED
      BY <2>1, <2>2, <2>6, <3>2
  <2> QED
    BY <2>4, <2>5, <2>6 DEF LockedRowsInv
<1>2. CASE WriterStep
  <2>0. UNCHANGED <<versions, binlog>>
    BY <1>2 DEF WriterStep, WriterProgress, WriterRetries, sourceVars
  <2>1. CASE ReceiveEvent \/ WriterReturns \/ BatchReady
    <3>1. UNCHANGED <<exec, applied, undo, target>>
      BY <2>1, ZenonT(30) DEF ReceiveEvent, WriterReturns, BatchReady, RunInv
    <3> QED
      BY <2>0, <3>1 DEF LockedRowsInv, TargetLocked, Touches, OnItsWay
  <2>2. CASE ExecuteStatement
    BY <1>2, <2>2, LockedRowsStatement
  <2>3. CASE BatchWritten \/ RetryWrite
    <3>1. exec' = applied' /\ applied' \in Nat
      BY <2>3, Positions DEF BatchWritten, RetryWrite
    <3>2. \A i : i \notin applied' + 1..exec'
      BY SMTT(30), <3>1
    <3> QED
      BY <3>2 DEF LockedRowsInv, TargetLocked
  <2> QED
    BY <1>2, <2>1, <2>2, <2>3 DEF WriterStep, WriterProgress, WriterRetries
<1> QED
  BY <1>1, <1>2

\* A step that leaves the log, the target and the writer alone.
LEMMA LockedRowsFrame ==
    ASSUME LockedRowsInv, UNCHANGED <<versions, binlog, target, writerVars>>
    PROVE  LockedRowsInv'
BY DEF LockedRowsInv, TargetLocked, Touches, OnItsWay, writerVars

\* Replaying keeps a row on its way, also when the batch is written again: what
\* was executed has stayed or is undone, and both are on the way of the changes
\* that come after the last batch.
LEMMA WriterKeepsTheWay ==
    ASSUME VerificationTypeOK, LogInv, RunInv, LockedRowsInv, WriterStep,
           NEW r \in RowIds, OnItsWay(r)
    PROVE  OnItsWay(r)'
<1>0. UNCHANGED <<versions, binlog>>
  BY DEF WriterStep, WriterProgress, WriterRetries, sourceVars
<1>1. CASE ReceiveEvent \/ WriterReturns \/ BatchReady \/ BatchWritten
  <2>1. exec' = exec /\ target' = target
    BY <1>1 DEF ReceiveEvent, WriterReturns, BatchReady, BatchWritten, RunInv
  <2> QED
    BY <1>0, <2>1 DEF OnItsWay
<1>2. CASE ExecuteStatement
  BY <1>2, StatementKeepsTheWay
<1>3. CASE RetryWrite
  <2>1. exec' = applied /\ target' \in {target, CommittedTarget}
    BY <1>3 DEF RetryWrite
  <2>2. \E q \in applied..Len(binlog) : target[r] = versions[q][r]
    <3>1. \A q \in exec..Len(binlog) : q \in applied..Len(binlog)
      BY SMTT(30), Positions
    <3> QED
      BY <3>1 DEF OnItsWay
  <2>3. \E q \in applied..Len(binlog) : CommittedTarget[r] = versions[q][r]
    <3>1. CASE ~TargetLocked(r)
      BY <2>2, <3>1 DEF CommittedTarget
    <3>2. CASE TargetLocked(r)
      <4>1. CommittedTarget[r] = undo[r]
        BY <3>2 DEF CommittedTarget
      <4> QED
        BY <2>2, <3>2, <4>1 DEF LockedRowsInv
    <3> QED
      BY <3>1, <3>2
  <2> QED
    BY <1>0, <2>1, <2>2, <2>3 DEF OnItsWay
<1> QED
  BY <1>1, <1>2, <1>3 DEF WriterStep, WriterProgress, WriterRetries

\* What is read from the target while the writer is at work: a row that is
\* seen as the source has it is on its way.
LEMMA SeenOnItsWay ==
    ASSUME VerificationTypeOK, LockedRowsInv, NEW r \in RowIds, CommittedTarget[r] = Source[r]
    PROVE  OnItsWay(r)
<1>1. Len(binlog) \in exec..Len(binlog)
  BY SMTT(30), Positions
<1>2. CASE ~TargetLocked(r)
  BY <1>1, <1>2 DEF CommittedTarget, OnItsWay, Source
<1>3. CASE TargetLocked(r)
  <2>1. undo[r] = Source[r]
    BY <1>3 DEF CommittedTarget
  <2>2. OnItsWay(r) \/ target[r] = undo[r]
    BY <1>3 DEF LockedRowsInv
  <2> QED
    BY <1>1, <2>1, <2>2, ZenonT(30) DEF OnItsWay, Source
<1> QED
  BY <1>2, <1>3

\* When the run has returned the target is where the log ends.
LEMMA AtTheEnd ==
    ASSUME VerificationTypeOK, RunInv, RunHasReturned
    PROVE  /\ CommittedTarget = target /\ writesStopped /\ notified = Len(binlog)
           /\ \A r \in RowIds : ~ChangedIn(r, notified, Len(binlog))
           /\ \A r \in RowIds : OnItsWay(r) => target[r] = Source[r]
<1>1. /\ exec = applied /\ exec = Len(binlog) /\ writesStopped /\ notified = Len(binlog)
  BY DEF RunInv, RunHasReturned
<1>2. Len(binlog) \in Nat
  BY Positions
<1>3. \A r : ~TargetLocked(r) /\ ~ChangedIn(r, notified, Len(binlog))
  BY SMTT(30), <1>1, <1>2 DEF TargetLocked, ChangedIn
<1>4. target \in TableData
  BY DEF VerificationTypeOK, DatabasesTypeOK
<1>5. CommittedTarget = target
  BY <1>3, <1>4 DEF CommittedTarget, TableData
<1>6. \A r \in RowIds : OnItsWay(r) => target[r] = Source[r]
  BY SMTT(30), <1>1, <1>2 DEF OnItsWay, Source
<1> QED
  BY <1>1, <1>3, <1>5, <1>6

----------------------------------------------------------------------------
\* The rows, while the run goes on.

\* A step of the run that changes a row leaves it noted, and takes no row off
\* its way.
RunEffect ==
    /\ UNCHANGED <<stage, attachedAt, scan, scanLast, todo, jobs, errored, failed, result>>
    /\ stage # "copied"
    /\ \A r \in RowIds :
          /\ Noted(r) => Noted(r)'
          /\ InScope(r)' => InScope(r) \/ Noted(r)'
          /\ OnItsWay(r) => OnItsWay(r)'
          /\ Source'[r] = Source[r] \/ Noted(r)'
          /\ ChangedIn(r, attachedAt, notified)' => ChangedIn(r, attachedAt, notified) \/ r \in store'
          /\ r \in store => r \in store'

\* Every step of the run has that effect once the listener is there.
LEMMA RunStepEffect ==
    ASSUME VerificationTypeOK, LogInv, RunInv, LockedRowsInv, stage # "copied",
           ApplicationStep \/ RunStep \/ CutoverLock
    PROVE  RunEffect
<1> USE DEF sourceVars, streamerVars, writerVars, verifierVars
<1>1. CASE ApplicationStep
  <2> DEFINE n == Len(binlog)
  <2>1. PICK r \in RowIds : /\ binlog'[n + 1].row = r
                            /\ \A s \in RowIds : s # r => versions'[n + 1][s] = versions[n][s]
    BY <1>1, ApplicationEffect
  <2>2. /\ n \in Nat /\ Len(binlog') = n + 1 /\ target' = target
        /\ \A i \in 1..n : binlog'[i] = binlog[i]
        /\ \A p \in 0..n : versions'[p] = versions[p]
        /\ UNCHANGED <<streamerVars, writerVars, verifierVars>>
    BY <1>1, ApplicationEffect
  <2>3. /\ notified \in Nat /\ notified <= n /\ attachedAt \in Nat /\ attachedAt <= notified
        /\ exec \in Nat /\ exec <= n
    BY SMTT(30), Positions
  <2>4. Source = versions[n] /\ Source' = versions'[n + 1]
    BY <2>2 DEF Source
  <2>5. /\ \A s \in RowIds : OnItsWay(s) <=> \E i \in exec..n : target[s] = versions[i][s]
        /\ \A s \in RowIds : OnItsWay(s)' <=> \E i \in exec..n + 1 : target[s] = versions'[i][s]
    BY <2>2 DEF OnItsWay
  <2>6. /\ \A s : Noted(s) <=> s \in store \/ \E i \in notified + 1..n : binlog[i].row = s
        /\ \A s : Noted(s)' <=> s \in store \/ \E i \in notified + 1..n + 1 : binlog'[i].row = s
    BY <2>2 DEF Noted, ChangedIn
  <2>7. /\ \A s : InScope(s) <=> \/ Source[s] # NoRow
                                 \/ \E i \in attachedAt + 1..n : binlog[i].row = s
        /\ \A s : InScope(s)' <=> \/ Source'[s] # NoRow
                                  \/ \E i \in attachedAt + 1..n + 1 : binlog'[i].row = s
    BY <2>2 DEF InScope, ChangedIn
  <2>8. \A s : ChangedIn(s, attachedAt, notified)' <=>
                  \E i \in attachedAt + 1..notified : binlog'[i].row = s
    BY <2>2 DEF ChangedIn
  <2> HIDE DEF n
  <2>9. Noted(r)'
    <3>0. n \in Nat
      BY <2>2
    <3>1. n + 1 \in notified + 1..n + 1
      BY SMTT(30), <2>3, <3>0
    <3> QED
      BY <2>1, <2>6, <3>1
  <2>10. ASSUME NEW s \in RowIds
         PROVE  /\ Noted(s) => Noted(s)'
                /\ InScope(s)' => InScope(s) \/ Noted(s)'
                /\ OnItsWay(s) => OnItsWay(s)'
                /\ Source'[s] = Source[s] \/ Noted(s)'
                /\ ChangedIn(s, attachedAt, notified)' => ChangedIn(s, attachedAt, notified)
    <3>0. n \in Nat
      BY <2>2
    <3>1. Noted(s) => Noted(s)'
      <4>1. \A i \in notified + 1..n : i \in 1..n /\ i \in notified + 1..n + 1
        BY SMTT(30), <2>3, <3>0
      <4> QED
        BY <2>2, <2>6, <4>1
    <3>2. OnItsWay(s) => OnItsWay(s)'
      <4>1. \A i \in exec..n : i \in 0..n /\ i \in exec..n + 1
        BY SMTT(30), <2>3, <3>0
      <4> QED
        BY <2>2, <2>5, <4>1, ZenonT(30)
    <3>3. Source'[s] = Source[s] \/ Noted(s)'
      BY <2>1, <2>4, <2>9
    <3>4. ASSUME NEW i \in attachedAt + 1..n + 1, binlog'[i].row = s, s # r
          PROVE  \E k \in attachedAt + 1..n : binlog[k].row = s
      <4>1. i # n + 1
        BY <2>1, <3>4
      <4>2. i \in attachedAt + 1..n /\ i \in 1..n
        BY SMTT(30), <2>3, <3>0, <4>1
      <4> QED
        BY <2>2, <3>4, <4>2
    <3>5. InScope(s)' => InScope(s) \/ Noted(s)'
      BY <2>7, <2>9, <3>3, <3>4
    <3>6. \A i \in attachedAt + 1..notified : binlog'[i] = binlog[i]
      <4>1. \A i \in attachedAt + 1..notified : i \in 1..n
        BY SMTT(30), <2>3, <3>0
      <4> QED
        BY <2>2, <4>1
    <3>7. ChangedIn(s, attachedAt, notified)' => ChangedIn(s, attachedAt, notified)
      BY <2>8, <3>6, ZenonT(30) DEF ChangedIn
    <3> QED
      BY <3>1, <3>2, <3>3, <3>5, <3>7
  <2> QED
    BY <2>2, <2>10 DEF RunEffect
<1>2. CASE StreamToWriter \/ StreamingEnds \/ FlushBinlogAndStopStreaming \/ CutoverLock
  <2>1. /\ UNCHANGED <<versions, binlog, target, exec, stage, attachedAt, notified, store, scan,
                       scanLast, todo, jobs, errored, failed, result>>
    BY <1>2 DEF StreamToWriter, StreamingEnds, FlushBinlogAndStopStreaming, CutoverLock,
         StopWrites, Listening
  <2> QED
    BY <2>1 DEF RunEffect, Noted, InScope, OnItsWay, ChangedIn, Source
<1>3. CASE BinlogEventListener
  <2> DEFINE b == binlog[notified + 1].row
  <2>1. /\ UNCHANGED <<versions, binlog, target, exec, stage, attachedAt, scan, scanLast, todo,
                       jobs, errored, failed, result>>
        /\ notified' = notified + 1 /\ notified < sent
        /\ store' = IF IsDML(notified + 1) THEN store \cup {b} ELSE store
    BY <1>3 DEF BinlogEventListener
  <2>2. notified + 1 \in 1..Len(binlog) /\ attachedAt \in Nat /\ attachedAt <= notified
        /\ notified \in Nat /\ Len(binlog) \in Nat
    BY SMTT(30), <2>1, Positions
  <2>3. store' = store \cup {b}
    BY <2>1, <2>2, AllAreDML
  <2>4. \A r \in RowIds : ChangedIn(r, notified, Len(binlog)) =>
                              r = b \/ ChangedIn(r, notified, Len(binlog))'
    <3> TAKE r \in RowIds
    <3> HAVE ChangedIn(r, notified, Len(binlog))
    <3>1. PICK i \in notified + 1..Len(binlog) : binlog[i].row = r
      BY DEF ChangedIn
    <3>2. i = notified + 1 \/ i \in notified + 1 + 1..Len(binlog)
      BY SMTT(30), <2>2
    <3> QED
      BY <2>1, <3>1, <3>2 DEF ChangedIn
  <2>5. \A r \in RowIds : ChangedIn(r, attachedAt, notified)' =>
                              ChangedIn(r, attachedAt, notified) \/ r = b
    <3> TAKE r \in RowIds
    <3> HAVE ChangedIn(r, attachedAt, notified)'
    <3>1. PICK i \in attachedAt + 1..notified + 1 : binlog[i].row = r
      BY <2>1 DEF ChangedIn
    <3>2. i = notified + 1 \/ i \in attachedAt + 1..notified
      BY SMTT(30), <2>2
    <3> QED
      BY <3>1, <3>2 DEF ChangedIn
  <2>6. \A r \in RowIds : /\ InScope(r)' => InScope(r)
                          /\ OnItsWay(r) => OnItsWay(r)'
                          /\ Source'[r] = Source[r]
    BY <2>1 DEF InScope, OnItsWay, ChangedIn, Source
  <2>7. \A r \in RowIds : Noted(r) => Noted(r)'
    BY <2>3, <2>4 DEF Noted
  <2> QED
    BY <2>1, <2>3, <2>5, <2>6, <2>7 DEF RunEffect
<1>4. CASE WriterStep
  <2>1. /\ UNCHANGED <<versions, binlog, stage, attachedAt, notified, store, scan, scanLast,
                       todo, jobs, errored, failed, result>>
    BY <1>4 DEF WriterStep, WriterProgress, WriterRetries
  <2>2. \A r \in RowIds : OnItsWay(r) => OnItsWay(r)'
    BY <1>4, WriterKeepsTheWay
  <2>3. \A r \in RowIds : /\ Noted(r) => Noted(r)'
                          /\ InScope(r)' => InScope(r)
                          /\ Source'[r] = Source[r]
                          /\ ChangedIn(r, attachedAt, notified)' => ChangedIn(r, attachedAt, notified)
    BY <2>1 DEF Noted, InScope, ChangedIn, Source
  <2> QED
    BY <2>1, <2>2, <2>3 DEF RunEffect
<1> QED
  BY <1>1, <1>2, <1>3, <1>4 DEF RunStep

\* ToBeCompared in terms of Noted.
LEMMA ToBeComparedOrNoted ==
    \A r : ToBeCompared(r) <=> \/ stage = "copied"
                               \/ /\ stage = "scan" /\ scan[TableOf(r)] # "done"
                                  /\ Pk(r) > scanLast[TableOf(r)]
                               \/ r \in UNION todo
                               \/ \E j \in jobs : r \in j.rows
                               \/ Noted(r)
BY DEF ToBeCompared, Noted

\* With that effect, the rows stay tracked, ...
LEMMA RunTracks ==
    ASSUME DifferencesAreTracked, RunEffect
    PROVE  DifferencesAreTracked'
<1>1. SUFFICES ASSUME ~errored, result = "none", ~failed,
                      NEW r \in RowIds, InScope(r)', ~OnItsWay(r)'
               PROVE  ToBeCompared(r)'
  BY DEF DifferencesAreTracked, RunEffect
<1>2. /\ UNCHANGED <<stage, scan, scanLast, todo, jobs>>
      /\ Noted(r) => Noted(r)'
      /\ InScope(r) \/ Noted(r)'
      /\ ~OnItsWay(r)
  BY <1>1 DEF RunEffect
<1>3. CASE Noted(r)'
  BY <1>3 DEF ToBeCompared, Noted
<1>4. CASE InScope(r)
  <2>1. ToBeCompared(r)
    BY <1>1, <1>2, <1>4 DEF DifferencesAreTracked
  <2>2. \/ stage = "copied"
        \/ stage = "scan" /\ scan[TableOf(r)] # "done" /\ Pk(r) > scanLast[TableOf(r)]
        \/ r \in UNION todo
        \/ \E j \in jobs : r \in j.rows
        \/ Noted(r)
    BY <2>1, ToBeComparedOrNoted
  <2>3. CASE Noted(r)
    BY <1>2, <2>3 DEF ToBeCompared, Noted
  <2>4. CASE ~Noted(r)
    BY <1>2, <2>2, <2>4 DEF ToBeCompared
  <2> QED
    BY <2>3, <2>4
<1> QED
  BY <1>2, <1>3, <1>4

\* ... fingerprints stay good ...
LEMMA RunKeepsJobs ==
    ASSUME VerificationTypeOK, JobsInv, RunEffect
    PROVE  JobsInv'
<1>1. jobs' = jobs
  BY DEF RunEffect
<1>2. SUFFICES ASSUME NEW j \in jobs, NEW r \in j.rows
               PROVE  /\ j.first = "source" => Noted(r)' \/ j.hashes[r] = Source'[r]
                      /\ j.first = "target" =>
                            Noted(r)' \/ (j.hashes[r] = Source'[r] => OnItsWay(r)')
  BY <1>1 DEF JobsInv
<1>3. r \in RowIds
  BY DEF VerificationTypeOK, Job
<1>4. /\ Noted(r) => Noted(r)'
      /\ OnItsWay(r) => OnItsWay(r)'
      /\ Source'[r] = Source[r] \/ Noted(r)'
  BY <1>3 DEF RunEffect
<1>5. /\ j.first = "source" => Noted(r) \/ j.hashes[r] = Source[r]
      /\ j.first = "target" => Noted(r) \/ (j.hashes[r] = Source[r] => OnItsWay(r))
  BY DEF JobsInv
<1> QED
  BY <1>4, <1>5

\* ... and the gaps of a scan stay noted.
LEMMA RunKeepsScan ==
    ASSUME VerificationTypeOK, ScanInv, RunEffect
    PROVE  ScanInv'
<1>1. /\ UNCHANGED <<stage, attachedAt, scan, scanLast, todo, jobs>> /\ stage # "copied"
      /\ \A r \in RowIds :
          /\ Noted(r) => Noted(r)'
          /\ InScope(r)' => InScope(r) \/ Noted(r)'
          /\ ChangedIn(r, attachedAt, notified)' => ChangedIn(r, attachedAt, notified) \/ r \in store'
          /\ r \in store => r \in store'
  BY DEF RunEffect
<1>2. CASE stage # "scan"
  BY <1>1, <1>2 DEF ScanInv
<1>3. CASE stage = "scan"
  <2>1. \A r \in RowIds : ChangedIn(r, attachedAt, notified)' => r \in store'
    BY <1>1, <1>3 DEF ScanInv
  <2>2. ASSUME NEW j \in jobs, NEW r \in j.rows, NEW s \in RowIds \ j.rows,
               TableOf(s) = TableOf(r), scanLast[TableOf(s)] < Pk(s), Pk(s) <= Pk(r),
               InScope(s)'
        PROVE  Noted(s)'
    <3>1. InScope(s) => Noted(s)
      BY <1>3, <2>2 DEF ScanInv
    <3>2. InScope(s) \/ Noted(s)'
      BY <1>1, <2>2
    <3> QED
      BY <1>1, <3>1, <3>2
  <2>3. /\ todo = {}
        /\ \A j \in jobs : \A r \in j.rows : scan[TableOf(r)] = "open"
        /\ \A j, k \in jobs : \A r \in j.rows, s \in k.rows :
              TableOf(r) = TableOf(s) => j = k
        /\ \A j \in jobs : \A r, s \in j.rows : TableOf(r) = TableOf(s)
    BY <1>3 DEF ScanInv
  <2>4. \A j \in jobs : \A r \in j.rows, s \in RowIds \ j.rows :
            /\ TableOf(s) = TableOf(r)
            /\ scanLast[TableOf(s)] < Pk(s) /\ Pk(s) <= Pk(r)
            /\ InScope(s)'
            => Noted(s)'
    BY <2>2
  <2> QED
    BY <1>1, <1>3, <2>1, <2>3, <2>4 DEF ScanInv
<1> QED
  BY <1>2, <1>3

\* Before the listener is there, nothing is to be tracked.
LEMMA RunBeforeListening ==
    ASSUME VerificationTypeOK, ScanInv, stage = "copied",
           ApplicationStep \/ RunStep \/ CutoverLock
    PROVE  /\ ScanInv' /\ JobsInv' /\ DifferencesAreTracked'
           /\ UNCHANGED <<stage, failed, result>>
<1> USE DEF sourceVars, streamerVars, writerVars, verifierVars
<1>1. /\ jobs = {} /\ todo = {} /\ notified = sent
      /\ \A t \in Tables : scan[t] = "queued" /\ scanLast[t] = 0
  BY DEF ScanInv
<1>2. /\ UNCHANGED <<stage, scan, scanLast, todo, jobs, failed, result>>
      /\ notified' = sent'
  <2>1. CASE StreamToWriter
    BY <2>1 DEF StreamToWriter, Listening
  <2>2. CASE ApplicationStep \/ CutoverLock
    BY <1>1, <2>2, ZenonT(30) DEF ApplicationStep, CutoverLock
  <2>3. CASE BinlogEventListener
    BY <2>3 DEF BinlogEventListener, Listening
  <2>4. CASE StreamingEnds
    BY <1>1, <2>4 DEF StreamingEnds, StreamerReturns
  <2>5. CASE WriterStep \/ FlushBinlogAndStopStreaming
    BY <1>1, <2>5 DEF WriterStep, WriterProgress, WriterRetries, FlushBinlogAndStopStreaming
  <2> QED
    BY <2>1, <2>2, <2>3, <2>4, <2>5, ZenonT(30) DEF RunStep
<1>3. ScanInv'
  BY <1>1, <1>2 DEF ScanInv
<1>4. JobsInv'
  BY <1>1, <1>2 DEF JobsInv
<1>5. DifferencesAreTracked'
  BY <1>2 DEF DifferencesAreTracked, ToBeCompared
<1> QED
  BY <1>2, <1>3, <1>4, <1>5, ZenonT(30)

\* When the run has returned, it takes no further step.
LEMMA RunIsOver ==
    ASSUME VerificationTypeOK, RunInv, RunHasReturned
    PROVE  ~(ApplicationStep \/ RunStep \/ CutoverLock)
<1>1. /\ streamer = "closed" /\ writer = "done" /\ writesStopped /\ stopRequested
      /\ notified = sent /\ sent \in Nat
  BY Positions DEF RunHasReturned, RunInv
<1>2. ~ApplicationStep
  BY <1>1, ApplicationEffect
<1>3. ~StreamToWriter /\ ~StreamingEnds
  BY <1>1 DEF StreamToWriter, StreamEvent, StreamingEnds, StreamerReturns
<1>4. ~BinlogEventListener
  BY SMTT(30), <1>1 DEF BinlogEventListener
<1>5. ~WriterStep
  BY <1>1 DEF WriterStep, WriterProgress, WriterRetries, ReceiveEvent, BatchReady,
     ExecuteStatement, BatchWritten, WriterReturns, RetryWrite
<1>6. ~FlushBinlogAndStopStreaming /\ ~CutoverLock
  BY <1>1 DEF FlushBinlogAndStopStreaming, CutoverLock, StopWrites
<1> QED
  BY <1>2, <1>3, <1>4, <1>5, <1>6, ZenonT(30) DEF RunStep

\* So the run's steps do not touch what the cutover verification relies on.
LEMMA RunKeepsCutover ==
    ASSUME VerificationTypeOK, RunInv, CutoverInv,
           ApplicationStep \/ RunStep \/ CutoverLock,
           UNCHANGED <<stage, failed, result>>
    PROVE  CutoverInv' /\ ResultIsRight'
<1>1. ~RunHasReturned
  BY RunIsOver
<1>2. stage # "cutover" /\ ~failed /\ result \notin {"correct", "incorrect"}
  BY <1>1 DEF CutoverInv
<1> QED
  BY <1>2 DEF CutoverInv, ResultIsRight

\* All of the invariant.
VerifierInv ==
    /\ VerificationTypeOK
    /\ LogInv
    /\ RunInv
    /\ LockedRowsInv
    /\ ScanInv
    /\ JobsInv
    /\ CutoverInv
    /\ DifferencesAreTracked
    /\ ResultIsRight

\* The run's steps keep the invariant.
LEMMA RunKeepsInv ==
    ASSUME VerifierInv, ApplicationStep \/ RunStep \/ CutoverLock
    PROVE  VerifierInv'
<1> USE DEF VerifierInv
<1>1. VerificationTypeOK'
  <2>1. CASE ApplicationStep
    BY <2>1, ApplicationTypes
  <2>2. CASE StreamToWriter \/ BinlogEventListener \/ StreamingEnds
    BY <2>2, StreamerTypes
  <2>3. CASE WriterStep
    BY <2>3, WriterTypes
  <2>4. CASE FlushBinlogAndStopStreaming
    <3>1. /\ targetPos' = committed /\ stopRequested' = TRUE
          /\ UNCHANGED <<sourceVars, target, streamer, sent, pos, writerVars, verifierVars>>
      BY <2>4 DEF FlushBinlogAndStopStreaming
    <3>2. targetPos' \in 0..committed'
      BY SMTT(30), <3>1, Positions DEF sourceVars
    <3>3. StreamerTypeOK'
      BY <3>1, <3>2 DEF VerificationTypeOK, StreamerTypeOK, sourceVars
    <3>4. DatabasesTypeOK' /\ WriterTypeOK'
      BY <3>1, ZenonT(30) DEF VerificationTypeOK, DatabasesTypeOK, WriterTypeOK, sourceVars, writerVars
    <3> QED
      BY <3>1, <3>3, <3>4 DEF VerificationTypeOK, sourceVars, verifierVars
  <2>5. CASE CutoverLock
    BY <2>5, ZenonT(30) DEF CutoverLock, StopWrites, VerificationTypeOK, DatabasesTypeOK,
       StreamerTypeOK, WriterTypeOK, streamerVars, writerVars, verifierVars
  <2> QED
    BY <2>1, <2>2, <2>3, <2>4, <2>5 DEF RunStep
<1>2. RunInv'
  BY RunStepInv
<1>3. LogInv' /\ LockedRowsInv'
  <2>1. CASE ApplicationStep
    BY <2>1, LogStep, LockedRowsStep
  <2>2. CASE WriterStep
    <3>1. UNCHANGED <<versions, binlog, committed>>
      BY <2>2 DEF WriterStep, WriterProgress, WriterRetries, sourceVars
    <3> QED
      BY <2>2, <3>1, LogFrame, LockedRowsStep
  <2>3. CASE \/ StreamToWriter \/ BinlogEventListener \/ StreamingEnds
             \/ FlushBinlogAndStopStreaming \/ CutoverLock
    <3>1. UNCHANGED <<versions, binlog, committed, target, writerVars>>
      BY <2>3 DEF StreamToWriter, BinlogEventListener, StreamingEnds,
         FlushBinlogAndStopStreaming, CutoverLock, StopWrites, sourceVars
    <3> QED
      BY <3>1, LogFrame, LockedRowsFrame
  <2> QED
    BY <2>1, <2>2, <2>3 DEF RunStep
<1>4. ScanInv' /\ JobsInv' /\ DifferencesAreTracked' /\ UNCHANGED <<stage, failed, result>>
  <2>1. CASE stage = "copied"
    BY <2>1, RunBeforeListening
  <2>2. CASE stage # "copied"
    <3>1. RunEffect
      BY <2>2, RunStepEffect
    <3> QED
      BY <3>1, RunTracks, RunKeepsJobs, RunKeepsScan DEF RunEffect
  <2> QED
    BY <2>1, <2>2
<1>5. CutoverInv' /\ ResultIsRight'
  BY <1>4, RunKeepsCutover
<1> QED
  BY <1>1, <1>2, <1>3, <1>4, <1>5

----------------------------------------------------------------------------
\* The comparisons.

\* What a step of the verifier leaves as it is.
LEMMA RunFrame ==
    ASSUME VerifierInv, RunUnchanged
    PROVE  /\ LogInv' /\ RunInv' /\ LockedRowsInv'
           /\ Source' = Source /\ target' = target /\ RunHasReturned' = RunHasReturned
           /\ \A r : OnItsWay(r)' <=> OnItsWay(r)
           /\ \A r : ChangedIn(r, notified, Len(binlog))' <=> ChangedIn(r, notified, Len(binlog))
           /\ attachedAt' = attachedAt =>
                 \A r : /\ InScope(r)' <=> InScope(r)
                        /\ ChangedIn(r, attachedAt, notified)' <=> ChangedIn(r, attachedAt, notified)
<1> USE DEF RunUnchanged, sourceVars, streamerVars, writerVars
<1>1. LogInv' /\ LockedRowsInv'
  BY LogFrame, LockedRowsFrame DEF VerifierInv
<1>2. RunInv'
  BY DEF VerifierInv, RunInv
<1>3. /\ Source' = Source /\ target' = target /\ RunHasReturned' = RunHasReturned
  BY DEF Source, RunHasReturned
<1>4. \A r : OnItsWay(r)' <=> OnItsWay(r)
  BY DEF OnItsWay
<1>5. \A r : ChangedIn(r, notified, Len(binlog))' <=> ChangedIn(r, notified, Len(binlog))
  BY DEF ChangedIn
<1>6. attachedAt' = attachedAt =>
                 \A r : /\ InScope(r)' <=> InScope(r)
                        /\ ChangedIn(r, attachedAt, notified)' <=> ChangedIn(r, attachedAt, notified)
  BY <1>3 DEF InScope, ChangedIn
<1> QED
  BY <1>1, <1>2, <1>3, <1>4, <1>5, <1>6, ZenonT(30)

\* A result that stands stays right.
LEMMA ResultFrame ==
    ASSUME VerifierInv, RunUnchanged, attachedAt' = attachedAt, result' = result
    PROVE  ResultIsRight'
BY RunFrame DEF VerifierInv, ResultIsRight

\* A comparison that has read both sides overlooks no difference.
LEMMA ComparedRows ==
    ASSUME VerifierInv, NEW j \in jobs, j.first # "none", NEW r \in j.rows
    PROVE  Noted(r) \/ OnItsWay(r) \/ r \in MismatchedRows(j)
<1>1. j \in Job /\ r \in RowIds /\ CommittedSource = Source
  BY DEF VerifierInv, VerificationTypeOK, Job, LogInv, Source, CommittedSource
<1>2. SUFFICES ASSUME ~Noted(r), r \notin MismatchedRows(j)
               PROVE  OnItsWay(r)
  OBVIOUS
<1>3. CASE j.first = "source"
  <2>1. j.hashes[r] = CommittedTarget[r]
    BY <1>2, <1>3 DEF MismatchedRows
  <2>2. j.hashes[r] = Source[r]
    BY <1>2, <1>3 DEF VerifierInv, JobsInv
  <2> QED
    BY <1>1, <2>1, <2>2, SeenOnItsWay, ZenonT(30) DEF VerifierInv
<1>4. CASE j.first = "target"
  <2>1. j.hashes[r] = Source[r]
    BY <1>1, <1>2, <1>4 DEF MismatchedRows
  <2> QED
    BY <1>2, <1>4, <2>1 DEF VerifierInv, JobsInv
<1> QED
  BY <1>1, <1>3, <1>4 DEF Job

\* One side has been read.
LEMMA GetHashesInv ==
    ASSUME VerifierInv, NEW j \in jobs, JobStep(j), GetHashes(j)
    PROVE  ScanInv' /\ JobsInv' /\ CutoverInv' /\ DifferencesAreTracked'
<1>1. /\ RunUnchanged
      /\ UNCHANGED <<stage, attachedAt, todo, result, store, scan, scanLast, errored, failed>>
  BY DEF JobStep, GetHashes, RunUnchanged
<1>2. /\ Source' = Source /\ target' = target /\ RunHasReturned' = RunHasReturned
      /\ \A r : OnItsWay(r)' <=> OnItsWay(r)
      /\ \A r : ChangedIn(r, notified, Len(binlog))' <=> ChangedIn(r, notified, Len(binlog))
      /\ \A r : InScope(r)' <=> InScope(r)
      /\ \A r : ChangedIn(r, attachedAt, notified)' <=> ChangedIn(r, attachedAt, notified)
  BY <1>1, RunFrame
<1>3. \A r : Noted(r)' <=> Noted(r)
  BY <1>1, <1>2 DEF Noted
<1>4. PICK side \in {"source", "target"} :
          LET data == IF side = "source" THEN CommittedSource ELSE CommittedTarget
          IN  jobs' = (jobs \ {j}) \cup
                      {[j EXCEPT !.first = side, !.hashes = HashesOf(data, j.rows)]}
  BY DEF GetHashes
<1> DEFINE data == IF side = "source" THEN CommittedSource ELSE CommittedTarget
           k == [j EXCEPT !.first = side, !.hashes = HashesOf(data, j.rows)]
<1>5. j \in Job /\ jobs \subseteq Job
  BY DEF VerifierInv, VerificationTypeOK
<1>6. jobs' = (jobs \ {j}) \cup {k}
  BY <1>4
<1>7. k.rows = j.rows /\ k.first = side /\ k.hashes = HashesOf(data, j.rows)
  BY <1>5 DEF Job
<1>8. \A r \in j.rows : r \in RowIds /\ k.hashes[r] = data[r]
  BY <1>5, <1>7 DEF HashesOf, Job
<1>9. CommittedSource = Source
  BY DEF VerifierInv, LogInv, Source, CommittedSource
<1>10. /\ side = "source" => \A r \in j.rows : k.hashes[r] = Source[r]
       /\ side = "target" => \A r \in j.rows : k.hashes[r] = CommittedTarget[r]
  BY <1>8, <1>9
<1> HIDE DEF k, data
<1>11. JobsInv'
  <2>1. \A r \in j.rows : k.first = "source" => k.hashes[r] = Source[r]
    BY <1>7, <1>10
  <2>2. \A r \in j.rows : k.first = "target" => (k.hashes[r] = Source[r] => OnItsWay(r))
    BY <1>7, <1>8, <1>10, SeenOnItsWay, ZenonT(30) DEF VerifierInv
  <2>3. \A i \in jobs : \A r \in i.rows :
            /\ i.first = "source" => Noted(r) \/ i.hashes[r] = Source[r]
            /\ i.first = "target" => Noted(r) \/ (i.hashes[r] = Source[r] => OnItsWay(r))
    BY DEF VerifierInv, JobsInv
  <2>4. \A i \in jobs' : i = k \/ i \in jobs
    BY <1>6
  <2>5. ASSUME NEW i \in jobs', NEW r \in i.rows
        PROVE  /\ i.first = "source" => Noted(r)' \/ i.hashes[r] = Source'[r]
               /\ i.first = "target" => Noted(r)' \/ (i.hashes[r] = Source'[r] => OnItsWay(r)')
    BY <1>2, <1>3, <1>7, <2>1, <2>2, <2>3, <2>4, ZenonT(30)
  <2> QED
    BY <2>5 DEF JobsInv
<1>12. DifferencesAreTracked'
  <2>1. \A r : (\E i \in jobs : r \in i.rows) => \E i \in jobs' : r \in i.rows
    BY <1>6, <1>7
  <2>2. \A r : ToBeCompared(r) => ToBeCompared(r)'
    BY <1>1, <1>2, <2>1 DEF ToBeCompared
  <2> QED
    BY <1>1, <1>2, <2>2 DEF VerifierInv, DifferencesAreTracked
<1>13. CutoverInv'
  <2>1. ASSUME stage = "cutover"
        PROVE  \A i \in jobs' : \A r \in i.rows :
                  /\ i.first = "source" => i.hashes[r] = Source[r]
                  /\ i.first = "target" => i.hashes[r] = target[r]
    <3>1. CommittedTarget = target
      BY <2>1, AtTheEnd DEF VerifierInv, CutoverInv
    <3>2. \A i \in jobs : \A r \in i.rows :
              /\ i.first = "source" => i.hashes[r] = Source[r]
              /\ i.first = "target" => i.hashes[r] = target[r]
      BY <2>1 DEF VerifierInv, CutoverInv
    <3> QED
      BY <1>6, <1>7, <1>10, <3>1, <3>2, ZenonT(30)
  <2> QED
    BY <1>1, <1>2, <2>1 DEF VerifierInv, CutoverInv
<1>14. ScanInv'
  <2>1. CASE stage # "scan"
    BY <1>1, <2>1, ZenonT(30) DEF VerifierInv, ScanInv, RunUnchanged, streamerVars
  <2>2. CASE stage = "scan"
    <3>1. /\ todo = {}
          /\ \A r \in RowIds : ChangedIn(r, attachedAt, notified) => r \in store
          /\ \A i \in jobs : \A r \in i.rows : scan[TableOf(r)] = "open"
          /\ \A i, l \in jobs : \A r \in i.rows, s \in l.rows : TableOf(r) = TableOf(s) => i = l
          /\ \A i \in jobs : \A r, s \in i.rows : TableOf(r) = TableOf(s)
          /\ \A i \in jobs : \A r \in i.rows, s \in RowIds \ i.rows :
                /\ TableOf(s) = TableOf(r)
                /\ scanLast[TableOf(s)] < Pk(s) /\ Pk(s) <= Pk(r)
                /\ InScope(s)
                => Noted(s)
      BY <2>2 DEF VerifierInv, ScanInv
    <3>2. \A i \in jobs' : (i \in jobs /\ i # j) \/ (i = k /\ i.rows = j.rows)
      BY <1>6, <1>7
    <3>3. \A i \in jobs' : \A r \in i.rows : scan[TableOf(r)] = "open"
      BY <3>1, <3>2
    <3>4. ASSUME NEW i \in jobs', NEW l \in jobs', NEW r \in i.rows, NEW s \in l.rows,
                 TableOf(r) = TableOf(s)
          PROVE  i = l
      <4>1. CASE i \in jobs /\ l \in jobs
        BY <3>1, <3>4, <4>1
      <4>2. CASE i = k /\ l = k
        BY <4>2
      <4>3. CASE i \in jobs /\ i # j /\ l.rows = j.rows
        BY <3>1, <3>4, <4>3, ZenonT(30)
      <4>4. CASE l \in jobs /\ l # j /\ i.rows = j.rows
        BY <3>1, <3>4, <4>4, ZenonT(30)
      <4> QED
        BY <3>2, <4>1, <4>2, <4>3, <4>4, ZenonT(30)
    <3>5. \A i \in jobs' : \A r, s \in i.rows : TableOf(r) = TableOf(s)
      BY <3>1, <3>2
    <3>6. \A i \in jobs' : \A r \in i.rows, s \in RowIds \ i.rows :
                /\ TableOf(s) = TableOf(r)
                /\ scanLast[TableOf(s)] < Pk(s) /\ Pk(s) <= Pk(r)
                /\ InScope(s)
                => Noted(s)
      BY <3>1, <3>2
    <3> QED
      BY <1>1, <1>2, <1>3, <2>2, <3>1, <3>3, <3>4, <3>5, <3>6, ZenonT(30) DEF ScanInv
  <2> QED
    BY <2>1, <2>2
<1> QED
  BY <1>11, <1>12, <1>13, <1>14

\* The rows of one comparison less: what is known of a scan's others.
LEMMA FewerJobs ==
    ASSUME VerifierInv, stage = "scan", NEW j \in jobs,
           RunUnchanged, UNCHANGED <<stage, attachedAt, todo>>, jobs' = jobs \ {j},
           \A r \in store : r \in store',
           \A t \in Tables : (\A r \in j.rows : TableOf(r) # t) =>
                                 scan'[t] = scan[t] /\ scanLast'[t] = scanLast[t]
    PROVE  ScanInv'
<1>1. /\ todo = {}
      /\ \A r \in RowIds : ChangedIn(r, attachedAt, notified) => r \in store
      /\ \A i \in jobs : \A r \in i.rows : scan[TableOf(r)] = "open"
      /\ \A i, l \in jobs : \A r \in i.rows, s \in l.rows : TableOf(r) = TableOf(s) => i = l
      /\ \A i \in jobs : \A r, s \in i.rows : TableOf(r) = TableOf(s)
      /\ \A i \in jobs : \A r \in i.rows, s \in RowIds \ i.rows :
            /\ TableOf(s) = TableOf(r)
            /\ scanLast[TableOf(s)] < Pk(s) /\ Pk(s) <= Pk(r)
            /\ InScope(s)
            => Noted(s)
  BY DEF VerifierInv, ScanInv
<1>2. /\ \A r : ChangedIn(r, notified, Len(binlog))' <=> ChangedIn(r, notified, Len(binlog))
      /\ \A r : InScope(r)' <=> InScope(r)
      /\ \A r : ChangedIn(r, attachedAt, notified)' <=> ChangedIn(r, attachedAt, notified)
  BY RunFrame
<1>3. \A r : Noted(r) => Noted(r)'
  BY <1>2 DEF Noted
<1>4. \A i \in jobs' : i \in jobs /\ i # j
  OBVIOUS
<1>5. \A i \in jobs : \A r \in i.rows : r \in RowIds /\ TableOf(r) \in Tables
  BY RowIdsType DEF VerifierInv, VerificationTypeOK, Job
<1>6. ASSUME NEW i \in jobs', NEW r \in i.rows
      PROVE  scan'[TableOf(r)] = scan[TableOf(r)] /\ scanLast'[TableOf(r)] = scanLast[TableOf(r)]
  <2>1. \A s \in j.rows : TableOf(s) # TableOf(r)
    BY <1>1, <1>4
  <2> QED
    BY <1>4, <1>5, <2>1
<1>7. \A i \in jobs' : \A r \in i.rows : scan'[TableOf(r)] = "open"
  BY <1>1, <1>4, <1>6
<1>8. ASSUME NEW i \in jobs', NEW r \in i.rows, NEW s \in RowIds \ i.rows,
             TableOf(s) = TableOf(r), scanLast'[TableOf(s)] < Pk(s), Pk(s) <= Pk(r), InScope(s)'
      PROVE  Noted(s)'
  <2>1. scanLast[TableOf(s)] < Pk(s) /\ InScope(s)
    BY <1>2, <1>6, <1>8, ZenonT(30)
  <2>2. Noted(s)
    BY <1>1, <1>4, <1>8, <2>1
  <2> QED
    BY <1>3, <2>2
<1>9. \A r \in RowIds : ChangedIn(r, attachedAt, notified)' => r \in store'
  BY <1>1, <1>2
<1>10. /\ \A i, l \in jobs' : \A r \in i.rows, s \in l.rows : TableOf(r) = TableOf(s) => i = l
       /\ \A i \in jobs' : \A r, s \in i.rows : TableOf(r) = TableOf(s)
  BY <1>1, <1>4
<1>11. \A i \in jobs' : \A r \in i.rows, s \in RowIds \ i.rows :
            /\ TableOf(s) = TableOf(r)
            /\ scanLast'[TableOf(s)] < Pk(s) /\ Pk(s) <= Pk(r)
            /\ InScope(s)'
            => Noted(s)'
  BY <1>8
<1> QED
  BY <1>1, <1>7, <1>9, <1>10, <1>11, ZenonT(30) DEF ScanInv

\* What is known of the others' fingerprints.
LEMMA FewerFingerprints ==
    ASSUME VerifierInv, NEW j \in jobs, RunUnchanged, attachedAt' = attachedAt,
           jobs' = jobs \ {j}, \A r \in store : r \in store'
    PROVE  JobsInv'
<1>1. /\ Source' = Source
      /\ \A r : OnItsWay(r)' <=> OnItsWay(r)
      /\ \A r : ChangedIn(r, notified, Len(binlog))' <=> ChangedIn(r, notified, Len(binlog))
  BY RunFrame
<1>2. \A r : Noted(r) => Noted(r)'
  BY <1>1 DEF Noted
<1>3. ASSUME NEW i \in jobs', NEW r \in i.rows
      PROVE  /\ i.first = "source" => Noted(r)' \/ i.hashes[r] = Source'[r]
             /\ i.first = "target" => Noted(r)' \/ (i.hashes[r] = Source'[r] => OnItsWay(r)')
  BY <1>1, <1>2 DEF VerifierInv, JobsInv
<1> QED
  BY <1>3 DEF JobsInv

\* Both sides have been read.
LEMMA CompareInv ==
    ASSUME VerifierInv, NEW j \in jobs, JobStep(j), CompareFingerprints(j)
    PROVE  ScanInv' /\ JobsInv' /\ CutoverInv' /\ DifferencesAreTracked'
<1>1. /\ RunUnchanged /\ j.first # "none" /\ jobs' = jobs \ {j}
      /\ UNCHANGED <<stage, attachedAt, todo, result, scan, errored>>
  BY DEF JobStep, CompareFingerprints, RunUnchanged
<1>2. /\ Source' = Source /\ target' = target /\ RunHasReturned' = RunHasReturned
      /\ \A r : OnItsWay(r)' <=> OnItsWay(r)
      /\ \A r : ChangedIn(r, notified, Len(binlog))' <=> ChangedIn(r, notified, Len(binlog))
      /\ \A r : InScope(r)' <=> InScope(r)
  BY <1>1, RunFrame
<1>3. /\ stage = "cutover" => store' = store /\ failed' = (failed \/ MismatchedRows(j) # {})
      /\ stage # "cutover" => store' = store \cup MismatchedRows(j) /\ failed' = failed
  BY DEF CompareFingerprints
<1>4. \A r \in store : r \in store'
  BY <1>3, ZenonT(30)
<1>5. \A r : Noted(r) => Noted(r)'
  BY <1>2, <1>4, ZenonT(30) DEF Noted
<1>6. j \in Job /\ j.rows \subseteq RowIds /\ stage # "copied" /\ stage # "ready"
  BY DEF VerifierInv, VerificationTypeOK, Job, ScanInv
<1> DEFINE last == CHOOSE k \in {Pk(r) : r \in j.rows} : \A r \in j.rows : Pk(r) <= k
<1>7. j.rows # {} => \E q \in j.rows : last = Pk(q)
  BY <1>6, LargestKey
<1>8. stage = "scan" => \A t \in Tables :
          scanLast'[t] = IF \E r \in j.rows : TableOf(r) = t THEN last ELSE scanLast[t]
  BY DEF CompareFingerprints
<1> HIDE DEF last
<1>9. JobsInv'
  BY <1>1, <1>4, FewerFingerprints
<1>10. ScanInv'
  <2>1. CASE stage = "scan"
    BY <1>1, <1>4, <1>8, <2>1, FewerJobs
  <2>2. CASE stage # "scan"
    BY <1>1, <1>6, <2>2, ZenonT(30) DEF ScanInv
  <2> QED
    BY <2>1, <2>2
<1>11. CutoverInv'
  <2>1. CASE stage = "cutover"
    <3>1. /\ RunHasReturned /\ store = {} /\ result = "none"
          /\ failed => target # Source
          /\ \A i \in jobs : \A r \in i.rows :
                /\ i.first = "source" => i.hashes[r] = Source[r]
                /\ i.first = "target" => i.hashes[r] = target[r]
      BY <2>1 DEF VerifierInv, CutoverInv
    <3>2. CommittedTarget = target /\ CommittedSource = Source
      BY <3>1, AtTheEnd DEF VerifierInv, LogInv, Source, CommittedSource
    <3>3. MismatchedRows(j) # {} => target # Source
      <4>1. SUFFICES ASSUME NEW r \in MismatchedRows(j) PROVE target[r] # Source[r]
        OBVIOUS
      <4>2. r \in j.rows
        BY DEF MismatchedRows
      <4>3. CASE j.first = "source"
        BY <3>1, <3>2, <4>2, <4>3, ZenonT(30) DEF MismatchedRows
      <4>4. CASE j.first = "target"
        BY <3>1, <3>2, <4>2, <4>4, ZenonT(30) DEF MismatchedRows
      <4> QED
        BY <1>1, <1>6, <4>3, <4>4, ZenonT(30) DEF Job
    <3>4. failed' => target # Source
      BY <1>3, <2>1, <3>1, <3>3, ZenonT(30)
    <3> QED
      BY <1>1, <1>2, <1>3, <2>1, <3>1, <3>4, ZenonT(30) DEF CutoverInv
  <2>2. CASE stage # "cutover"
    <3>1. failed' = failed
      BY <1>3, <2>2
    <3> QED
      BY <1>1, <1>2, <2>2, <3>1 DEF VerifierInv, CutoverInv
  <2> QED
    BY <2>1, <2>2
<1>12. DifferencesAreTracked'
  <2>1. SUFFICES ASSUME ~errored, result = "none", ~failed',
                        NEW r \in RowIds, InScope(r), ~OnItsWay(r)
                 PROVE  ToBeCompared(r)'
    BY <1>1, <1>2 DEF DifferencesAreTracked
  <2>2. ~failed
    BY <1>3, <2>1
  <2>3. \/ stage = "scan" /\ scan[TableOf(r)] # "done" /\ Pk(r) > scanLast[TableOf(r)]
        \/ r \in UNION todo
        \/ \E i \in jobs : r \in i.rows
        \/ Noted(r)
    BY <1>6, <2>1, <2>2, ToBeComparedOrNoted DEF VerifierInv, DifferencesAreTracked
  <2>4. CASE Noted(r) \/ r \in store'
    BY <1>5, <2>4 DEF ToBeCompared, Noted
  <2>5. CASE r \in UNION todo
    BY <1>1, <2>5 DEF ToBeCompared
  <2>6. CASE r \in j.rows
    <3>1. Noted(r) \/ r \in MismatchedRows(j)
      BY <1>1, <2>1, <2>6, ComparedRows
    <3> QED
      BY <1>3, <2>1, <2>4, <3>1
  <2>7. ASSUME NEW i \in jobs, r \in i.rows
        PROVE  ToBeCompared(r)'
    <3>1. CASE i = j
      BY <2>6, <2>7, <3>1
    <3>2. CASE i # j
      BY <1>1, <2>7, <3>2, ZenonT(30) DEF ToBeCompared
    <3> QED
      BY <3>1, <3>2
  <2>8. CASE stage = "scan" /\ scan[TableOf(r)] # "done" /\ Pk(r) > scanLast[TableOf(r)]
    <3>0. TableOf(r) \in Tables /\ Pk(r) \in Nat
      BY RowIdsType
    <3>1. CASE \A q \in j.rows : TableOf(q) # TableOf(r)
      <4>1. scanLast'[TableOf(r)] = scanLast[TableOf(r)]
        BY <1>8, <2>8, <3>0, <3>1
      <4> QED
        BY <1>1, <2>8, <4>1 DEF ToBeCompared
    <3>2. CASE \E q \in j.rows : TableOf(q) = TableOf(r)
      <4>1. scanLast'[TableOf(r)] = last
        BY <1>8, <2>8, <3>0, <3>2
      <4>2. PICK q \in j.rows : last = Pk(q)
        BY <1>7, <3>2
      <4>3. Pk(q) \in Nat /\ TableOf(q) = TableOf(r)
        BY <1>6, <2>8, <3>2, RowIdsType, ZenonT(30) DEF VerifierInv, ScanInv
      <4>4. CASE Pk(r) > last
        BY <1>1, <2>8, <4>1, <4>4, ZenonT(30) DEF ToBeCompared
      <4>5. CASE Pk(r) <= Pk(q) /\ r \notin j.rows
        <5>1. scanLast[TableOf(r)] < Pk(r)
          <6>1. scanLast[TableOf(r)] \in Nat
            BY <3>0, ZenonT(30) DEF VerifierInv, VerificationTypeOK
          <6> QED
            BY <2>8, <3>0, <6>1, ZenonT(30)
        <5>2. Noted(r)
          BY <2>1, <2>8, <4>3, <4>5, <5>1, ZenonT(30) DEF VerifierInv, ScanInv
        <5> QED
          BY <2>4, <5>2
      <4> QED
        BY SMTT(30), <2>6, <3>0, <4>2, <4>3, <4>4, <4>5
    <3> QED
      BY <3>1, <3>2
  <2> QED
    BY <2>3, <2>4, <2>5, <2>7, <2>8, ZenonT(30)
<1> QED
  BY <1>9, <1>10, <1>11, <1>12

\* A side could not be read.
LEMMA FingerprintErrorInv ==
    ASSUME VerifierInv, NEW j \in jobs, JobStep(j), FingerprintError(j)
    PROVE  ScanInv' /\ JobsInv' /\ CutoverInv' /\ DifferencesAreTracked'
<1>1. /\ RunUnchanged /\ jobs' = jobs \ {j} /\ errored' = TRUE
      /\ UNCHANGED <<stage, attachedAt, todo, result, store, scanLast, failed>>
      /\ \A t \in Tables : (\A r \in j.rows : TableOf(r) # t) => scan'[t] = scan[t]
  BY DEF JobStep, FingerprintError, RunUnchanged
<1>2. /\ Source' = Source /\ target' = target /\ RunHasReturned' = RunHasReturned
  BY <1>1, RunFrame
<1>3. JobsInv'
  BY <1>1, FewerFingerprints, ZenonT(30)
<1>4. ScanInv'
  <2>1. CASE stage = "scan"
    BY <1>1, <2>1, FewerJobs
  <2>2. CASE stage # "scan"
    BY <1>1, <2>2, ZenonT(30) DEF VerifierInv, ScanInv
  <2> QED
    BY <2>1, <2>2
<1>5. CutoverInv'
  BY <1>1, <1>2 DEF VerifierInv, CutoverInv
<1>6. DifferencesAreTracked'
  BY <1>1 DEF DifferencesAreTracked
<1> QED
  BY <1>3, <1>4, <1>5, <1>6

\* The comparisons keep the invariant.
LEMMA JobStepInv ==
    ASSUME VerifierInv, NEW j \in jobs, JobStep(j)
    PROVE  VerifierInv'
<1>1. RunUnchanged /\ attachedAt' = attachedAt /\ result' = result
  BY DEF JobStep, RunUnchanged
<1>2. VerificationTypeOK'
  BY JobTypes DEF VerifierInv
<1>3. LogInv' /\ RunInv' /\ LockedRowsInv' /\ ResultIsRight'
  BY <1>1, RunFrame, ResultFrame
<1>4. ScanInv' /\ JobsInv' /\ CutoverInv' /\ DifferencesAreTracked'
  BY GetHashesInv, CompareInv, FingerprintErrorInv DEF JobStep
<1> QED
  BY <1>2, <1>3, <1>4 DEF VerifierInv

----------------------------------------------------------------------------
\* The other steps of the verifier.

\* A row that comes before one of the first rows is one of them.
LEMMA FirstRowsComeFirst ==
    ASSUME NEW S \in SUBSET RowIds, IsFiniteSet(S), NEW m \in Nat,
           NEW q \in FirstRows(S, m), NEW r \in S, Pk(r) <= Pk(q)
    PROVE  r \in FirstRows(S, m)
<1> DEFINE Before(x) == {y \in S : Pk(y) < Pk(x)}
<1>1. q \in S /\ Cardinality(Before(q)) < m
  BY DEF FirstRows
<1>2. \A x \in S : Pk(x) \in Nat
  BY RowIdsType
<1>3. IsFiniteSet(Before(q))
  <2>1. Before(q) \subseteq S
    OBVIOUS
  <2> QED
    BY <2>1, FS_Subset
<1>4. Before(r) \subseteq Before(q)
  <2>1. \A y \in S : Pk(y) < Pk(r) => Pk(y) < Pk(q)
    BY SMTT(30), <1>1, <1>2
  <2> QED
    BY <2>1
<1>5. Cardinality(Before(r)) <= Cardinality(Before(q)) /\ IsFiniteSet(Before(r))
  BY <1>3, <1>4, FS_Subset
<1>6. Cardinality(Before(r)) \in Nat /\ Cardinality(Before(q)) \in Nat
  BY <1>3, <1>5, FS_CardinalityType, ZenonT(30)
<1>7. Cardinality(Before(r)) < m
  BY SMTT(30), <1>1, <1>5, <1>6
<1> QED
  BY <1>7 DEF FirstRows

\* A row that the source does not have is out of scope or noted.
LEMMA AbsentRows ==
    ASSUME VerifierInv, stage = "scan", NEW r \in RowIds, Source[r] = NoRow, InScope(r)
    PROVE  Noted(r)
<1>1. PICK i \in attachedAt + 1..Len(binlog) : binlog[i].row = r
  BY DEF InScope, ChangedIn
<1>2. i \in attachedAt + 1..notified \/ i \in notified + 1..Len(binlog)
  BY SMTT(30), Positions DEF VerifierInv
<1>3. CASE i \in attachedAt + 1..notified
  <2>1. ChangedIn(r, attachedAt, notified)
    BY <1>1, <1>3 DEF ChangedIn
  <2> QED
    BY <2>1 DEF VerifierInv, ScanInv, Noted
<1>4. CASE i \in notified + 1..Len(binlog)
  BY <1>1, <1>4 DEF Noted, ChangedIn
<1> QED
  BY <1>2, <1>3, <1>4

\* The next batch of a scan is read, or the scan of the table ends.
LEMMA FetchKeysInv ==
    ASSUME VerifierInv, NEW t \in Tables, FetchKeys(t), RunUnchanged
    PROVE  ScanInv' /\ JobsInv' /\ CutoverInv' /\ DifferencesAreTracked'
<1> DEFINE rows == RowsAfter(CommittedSource, t, scanLast[t])
           batch == FirstRows(rows, VerifierBatchSize)
<1>1. /\ stage = "scan" /\ scan[t] = "open"
      /\ \A j \in jobs : \A r \in j.rows : TableOf(r) # t
      /\ UNCHANGED <<stage, attachedAt, store, scanLast, todo, failed, result>>
      /\ \/ rows = {} /\ scan' = [scan EXCEPT ![t] = "done"] /\ jobs' = jobs /\ errored' = errored
         \/ rows # {} /\ jobs' = jobs \cup {NewJob(batch)} /\ scan' = scan /\ errored' = errored
         \/ scan' = [scan EXCEPT ![t] = "done"] /\ errored' = TRUE /\ jobs' = jobs
  BY DEF FetchKeys
<1>2. /\ Source' = Source /\ target' = target /\ RunHasReturned' = RunHasReturned
      /\ \A r : OnItsWay(r)' <=> OnItsWay(r)
      /\ \A r : ChangedIn(r, notified, Len(binlog))' <=> ChangedIn(r, notified, Len(binlog))
      /\ \A r : InScope(r)' <=> InScope(r)
      /\ \A r : ChangedIn(r, attachedAt, notified)' <=> ChangedIn(r, attachedAt, notified)
  BY <1>1, RunFrame
<1>3. \A r : Noted(r)' <=> Noted(r)
  BY <1>1, <1>2 DEF Noted
<1>4. rows = {r \in RowIds : TableOf(r) = t /\ Pk(r) > scanLast[t] /\ Source[r] # NoRow}
  BY DEF RowsAfter, VerifierInv, LogInv, Source, CommittedSource
<1>5. IsFiniteSet(rows) /\ rows \subseteq RowIds /\ batch \subseteq rows
  BY <1>4, FiniteRows, FS_Subset, ZenonT(30) DEF VerifierInv, FirstRows
<1>6. scan \in [Tables -> {"queued", "open", "done"}] /\ scanLast[t] \in Nat
  BY DEF VerifierInv, VerificationTypeOK
<1>7. ASSUME NEW s \in RowIds, TableOf(s) = t, Pk(s) > scanLast[t], s \notin rows, InScope(s)
      PROVE  Noted(s)
  BY <1>1, <1>4, <1>7, AbsentRows, ZenonT(30)
<1>8. ASSUME NEW r \in batch, NEW s \in RowIds, TableOf(s) = t, scanLast[t] < Pk(s),
             Pk(s) <= Pk(r), s \notin batch, InScope(s)
      PROVE  Noted(s)
  <2>1. s \notin rows
    BY <1>5, <1>8, FirstRowsComeFirst, VerifierAssumption, ZenonT(30)
  <2>2. Pk(s) > scanLast[t]
    BY <1>6, <1>8, RowIdsType
  <2> QED
    BY <1>7, <1>8, <2>1, <2>2
<1>9. \A r \in batch : TableOf(r) = t
  BY <1>4, <1>5
<1>10. NewJob(batch).rows = batch /\ NewJob(batch).first = "none"
  BY DEF NewJob
<1>11. /\ todo = {}
       /\ \A r \in RowIds : ChangedIn(r, attachedAt, notified) => r \in store
       /\ \A i \in jobs : \A r \in i.rows : scan[TableOf(r)] = "open"
       /\ \A i, l \in jobs : \A r \in i.rows, s \in l.rows : TableOf(r) = TableOf(s) => i = l
       /\ \A i \in jobs : \A r, s \in i.rows : TableOf(r) = TableOf(s)
       /\ \A i \in jobs : \A r \in i.rows, s \in RowIds \ i.rows :
             /\ TableOf(s) = TableOf(r)
             /\ scanLast[TableOf(s)] < Pk(s) /\ Pk(s) <= Pk(r)
             /\ InScope(s)
             => Noted(s)
  BY <1>1 DEF VerifierInv, ScanInv
<1> HIDE DEF rows, batch
<1>12. \A i \in jobs' : i \in jobs \/ (i = NewJob(batch) /\ i.rows = batch /\ i.first = "none")
  BY <1>1, <1>10, ZenonT(30)
<1>13. ScanInv'
  <2>1. \A i \in jobs' : \A r \in i.rows : scan'[TableOf(r)] = "open"
    <3>1. CASE jobs' = jobs
      <4>1. \A i \in jobs : \A r \in i.rows : TableOf(r) \in Tables
        BY RowIdsType DEF VerifierInv, VerificationTypeOK, Job
      <4> QED
        BY <1>1, <1>6, <1>11, <3>1, <4>1, ZenonT(30)
    <3>2. CASE scan' = scan
      BY <1>1, <1>9, <1>11, <1>12, <3>2, ZenonT(30)
    <3> QED
      BY <1>1, <3>1, <3>2
  <2>2. \A i, l \in jobs' : \A r \in i.rows, s \in l.rows : TableOf(r) = TableOf(s) => i = l
    BY <1>1, <1>9, <1>11, <1>12, ZenonT(30)
  <2>3. \A i \in jobs' : \A r, s \in i.rows : TableOf(r) = TableOf(s)
    BY <1>9, <1>11, <1>12, ZenonT(30)
  <2>4. ASSUME NEW i \in jobs', NEW r \in i.rows, NEW s \in RowIds \ i.rows,
               TableOf(s) = TableOf(r), scanLast[TableOf(s)] < Pk(s), Pk(s) <= Pk(r), InScope(s)
        PROVE  Noted(s)
    <3>1. CASE i \in jobs
      BY <1>11, <2>4, <3>1, ZenonT(30)
    <3>2. CASE i.rows = batch
      BY <1>8, <1>9, <2>4, <3>2, ZenonT(30)
    <3> QED
      BY <1>12, <3>1, <3>2
  <2>5. \A i \in jobs' : \A r \in i.rows, s \in RowIds \ i.rows :
             /\ TableOf(s) = TableOf(r)
             /\ scanLast'[TableOf(s)] < Pk(s) /\ Pk(s) <= Pk(r)
             /\ InScope(s)'
             => Noted(s)'
    BY <1>1, <1>2, <1>3, <2>4, ZenonT(30)
  <2> QED
    BY <1>1, <1>2, <1>11, <2>1, <2>2, <2>3, <2>5, ZenonT(30) DEF ScanInv
<1>14. JobsInv'
  <2>1. ASSUME NEW i \in jobs', NEW r \in i.rows
        PROVE  /\ i.first = "source" => Noted(r)' \/ i.hashes[r] = Source'[r]
               /\ i.first = "target" => Noted(r)' \/ (i.hashes[r] = Source'[r] => OnItsWay(r)')
    BY <1>2, <1>3, <1>12 DEF VerifierInv, JobsInv
  <2> QED
    BY <2>1 DEF JobsInv
<1>15. CutoverInv'
  BY <1>1, <1>2 DEF VerifierInv, CutoverInv
<1>16. DifferencesAreTracked'
  <2>1. SUFFICES ASSUME ~errored', ~errored, result = "none", ~failed,
                        NEW r \in RowIds, InScope(r), ~OnItsWay(r)
                 PROVE  ToBeCompared(r)'
    <3>1. ~errored' => ~errored
      BY <1>1
    <3> QED
      BY <1>1, <1>2, <3>1 DEF DifferencesAreTracked
  <2>2. ToBeCompared(r)
    BY <2>1 DEF VerifierInv, DifferencesAreTracked
  <2>3. CASE Noted(r)
    BY <1>3, <2>3 DEF ToBeCompared, Noted
  <2>4. CASE \E i \in jobs : r \in i.rows
    BY <1>1, <2>4 DEF ToBeCompared
  <2>5. CASE scan[TableOf(r)] # "done" /\ Pk(r) > scanLast[TableOf(r)]
    <3>1. CASE TableOf(r) # t \/ scan' = scan
      <4>1. TableOf(r) \in Tables
        BY RowIdsType
      <4>2. scan'[TableOf(r)] # "done"
        BY <1>1, <1>6, <2>5, <3>1, <4>1, ZenonT(30)
      <4> QED
        BY <1>1, <2>5, <4>2, ZenonT(30) DEF ToBeCompared
    <3>2. CASE TableOf(r) = t /\ rows = {}
      BY <1>7, <2>1, <2>3, <2>5, <3>2, ZenonT(30)
    <3> QED
      BY <1>1, <2>1, <3>1, <3>2, ZenonT(30)
  <2> QED
    BY <1>1, <1>11, <2>2, <2>3, <2>4, <2>5, ToBeComparedOrNoted, ZenonT(30)
<1> QED
  BY <1>13, <1>14, <1>15, <1>16

\* The listener is added and the scan begins: no row has been passed, and a
\* change that the listener will not be told is in the log already.
LEMMA VerifyBeforeCutoverInv ==
    ASSUME VerifierInv, VerifyBeforeCutover
    PROVE  VerifierInv'
<1>1. /\ stage = "copied" /\ stage' = "scan" /\ notified' = attachedAt'
      /\ \/ attachedAt' = sent
         \/ streamer = "running" /\ EventAvailable /\ attachedAt' = sent + 1
      /\ UNCHANGED <<sourceVars, target, streamerVars, writerVars>>
      /\ UNCHANGED <<store, scan, scanLast, todo, jobs, before, iteration, errored, failed, result>>
  BY DEF VerifyBeforeCutover
<1>2. /\ jobs = {} /\ todo = {} /\ notified = sent
      /\ \A t \in Tables : scan[t] = "queued" /\ scanLast[t] = 0
  BY <1>1 DEF VerifierInv, ScanInv
<1>3. VerificationTypeOK'
  <2>1. DatabasesTypeOK' /\ StreamerTypeOK' /\ WriterTypeOK'
    BY <1>1 DEF VerifierInv, VerificationTypeOK, DatabasesTypeOK, StreamerTypeOK, WriterTypeOK,
       sourceVars, streamerVars, writerVars
  <2>2. attachedAt' \in 0..committed' /\ notified' \in attachedAt'..committed'
    BY SMTT(30), <1>1, Positions DEF VerifierInv, EventAvailable, sourceVars
  <2> QED
    BY <1>1, <2>1, <2>2 DEF VerifierInv, VerificationTypeOK
<1>4. LogInv' /\ LockedRowsInv'
  BY <1>1, LogFrame, LockedRowsFrame DEF VerifierInv, sourceVars
<1>5. RunInv'
  BY <1>1, <1>2 DEF VerifierInv, RunInv, sourceVars, streamerVars, writerVars
<1>6. result = "none" /\ Source' = Source /\ target' = target /\ RunHasReturned' = RunHasReturned
  BY <1>1 DEF VerifierInv, CutoverInv, Source, RunHasReturned, sourceVars, streamerVars, writerVars
<1>7. \A r : ~ChangedIn(r, attachedAt, notified)'
  <2>1. notified' \in Nat
    BY SMTT(30), <1>1, Positions DEF VerifierInv
  <2>2. \A i : i \notin attachedAt' + 1..notified'
    BY SMTT(30), <1>1, <2>1
  <2> QED
    BY <2>2 DEF ChangedIn
<1>8. ScanInv'
  BY <1>1, <1>2, <1>7 DEF ScanInv
<1>9. JobsInv'
  BY <1>1, <1>2 DEF JobsInv
<1>10. CutoverInv' /\ ResultIsRight'
  BY <1>1, <1>2, <1>6 DEF VerifierInv, CutoverInv, ResultIsRight
<1>11. \A r \in RowIds : scan'[TableOf(r)] # "done" /\ Pk(r) > scanLast'[TableOf(r)]
  BY SMTT(30), <1>1, <1>2, RowIdsType
<1>12. DifferencesAreTracked'
  BY <1>1, <1>11 DEF DifferencesAreTracked, ToBeCompared
<1> QED
  BY <1>3, <1>4, <1>5, <1>8, <1>9, <1>10, <1>12, ZenonT(30) DEF VerifierInv

\* A table is handed to a worker.
LEMMA IterateTableInv ==
    ASSUME VerifierInv, NEW t \in Tables, IterateTable(t), RunUnchanged
    PROVE  ScanInv' /\ JobsInv' /\ CutoverInv' /\ DifferencesAreTracked'
<1>1. /\ stage = "scan" /\ scan[t] = "queued" /\ scan' = [scan EXCEPT ![t] = "open"]
      /\ UNCHANGED <<stage, attachedAt, store, scanLast, todo, jobs, errored, failed, result>>
  BY DEF IterateTable
<1>2. /\ Source' = Source /\ target' = target /\ RunHasReturned' = RunHasReturned
      /\ \A r : OnItsWay(r)' <=> OnItsWay(r)
      /\ \A r : ChangedIn(r, notified, Len(binlog))' <=> ChangedIn(r, notified, Len(binlog))
      /\ \A r : InScope(r)' <=> InScope(r)
      /\ \A r : ChangedIn(r, attachedAt, notified)' <=> ChangedIn(r, attachedAt, notified)
  BY <1>1, RunFrame
<1>3. \A r : Noted(r)' <=> Noted(r)
  BY <1>1, <1>2 DEF Noted
<1>4. scan \in [Tables -> {"queued", "open", "done"}]
  BY DEF VerifierInv, VerificationTypeOK
<1>5. \A u \in Tables : (scan[u] = "open" => scan'[u] = "open")
                        /\ (scan[u] # "done" => scan'[u] # "done")
  BY <1>1, <1>4
<1>6. \A i \in jobs : \A r \in i.rows : TableOf(r) \in Tables
  BY RowIdsType DEF VerifierInv, VerificationTypeOK, Job
<1>7. \A i \in jobs : \A r \in i.rows : scan'[TableOf(r)] = "open"
  BY <1>1, <1>5, <1>6 DEF VerifierInv, ScanInv
<1>8. /\ todo = {}
      /\ \A r \in RowIds : ChangedIn(r, attachedAt, notified) => r \in store
      /\ \A i, l \in jobs : \A r \in i.rows, s \in l.rows : TableOf(r) = TableOf(s) => i = l
      /\ \A i \in jobs : \A r, s \in i.rows : TableOf(r) = TableOf(s)
      /\ \A i \in jobs : \A r \in i.rows, s \in RowIds \ i.rows :
             /\ TableOf(s) = TableOf(r)
             /\ scanLast[TableOf(s)] < Pk(s) /\ Pk(s) <= Pk(r)
             /\ InScope(s)
             => Noted(s)
  BY <1>1 DEF VerifierInv, ScanInv
<1>9. ScanInv'
  BY <1>1, <1>2, <1>3, <1>7, <1>8, ZenonT(30) DEF ScanInv
<1>10. JobsInv'
  BY <1>1, <1>2, <1>3 DEF VerifierInv, JobsInv
<1>11. CutoverInv'
  BY <1>1, <1>2 DEF VerifierInv, CutoverInv
<1>12. \A r \in RowIds : ToBeCompared(r) => ToBeCompared(r)'
  BY <1>1, <1>2, <1>5, RowIdsType DEF ToBeCompared
<1>13. DifferencesAreTracked'
  BY <1>1, <1>2, <1>12 DEF VerifierInv, DifferencesAreTracked
<1> QED
  BY <1>9, <1>10, <1>11, <1>13

\* The store is emptied into batches when no comparison of rows is going on.
LEMMA FlushInv ==
    ASSUME VerifierInv, Flush, RunUnchanged,
           UNCHANGED <<attachedAt, jobs, errored, failed, result>>,
           \A j \in jobs : j.rows = {}, todo = {},
           stage = "scan" => \A t \in Tables : scan[t] = "done",
           stage # "copied", stage' \in {"reverify", "cutover"}
    PROVE  JobsInv' /\ DifferencesAreTracked'
<1>1. UNION todo' = store
  BY FlushTypes DEF VerifierInv
<1>2. /\ \A r : OnItsWay(r)' <=> OnItsWay(r)
      /\ \A r : ChangedIn(r, notified, Len(binlog))' <=> ChangedIn(r, notified, Len(binlog))
      /\ \A r : InScope(r)' <=> InScope(r)
  BY RunFrame
<1>3. JobsInv'
  BY DEF JobsInv
<1>4. \A r \in RowIds : ToBeCompared(r) => ToBeCompared(r)'
  <2>1. SUFFICES ASSUME NEW r \in RowIds, ToBeCompared(r) PROVE ToBeCompared(r)'
    OBVIOUS
  <2>2. TableOf(r) \in Tables
    BY RowIdsType
  <2>3. ~(stage = "scan" /\ scan[TableOf(r)] # "done")
    BY <2>2
  <2>4. r \in store \/ ChangedIn(r, notified, Len(binlog))
    BY <2>1, <2>3 DEF ToBeCompared
  <2> QED
    BY <1>1, <1>2, <2>4 DEF ToBeCompared
<1>5. DifferencesAreTracked'
  BY <1>2, <1>4 DEF VerifierInv, DifferencesAreTracked
<1> QED
  BY <1>3, <1>5

\* The iterations begin and go on.
LEMMA IterationInv ==
    ASSUME VerifierInv, ScanEnds \/ AnotherIteration, RunUnchanged
    PROVE  ScanInv' /\ JobsInv' /\ CutoverInv' /\ DifferencesAreTracked'
<1>1. /\ Flush /\ stage' = "reverify" /\ ~errored /\ stage \in {"scan", "reverify"}
      /\ UNCHANGED <<attachedAt, jobs, errored, failed, result>>
  BY DEF ScanEnds, AnotherIteration
<1>2. /\ Source' = Source /\ target' = target /\ RunHasReturned' = RunHasReturned
  BY <1>1, RunFrame
<1>3. /\ \A j \in jobs : j.rows = {}
      /\ todo = {}
      /\ stage = "scan" => \A t \in Tables : scan[t] = "done"
  <2>1. CASE ScanEnds
    <3>1. stage = "scan" /\ \A t \in Tables : scan[t] = "done"
      BY <2>1 DEF ScanEnds
    <3>2. \A j \in jobs : \A r \in j.rows : scan[TableOf(r)] = "open" /\ TableOf(r) \in Tables
      BY <3>1, RowIdsType DEF VerifierInv, ScanInv, VerificationTypeOK, Job
    <3>3. todo = {}
      BY <3>1 DEF VerifierInv, ScanInv
    <3> QED
      BY <3>1, <3>2, <3>3
  <2>2. CASE AnotherIteration
    BY <2>2 DEF AnotherIteration, PoolIsDone
  <2> QED
    BY <2>1, <2>2
<1>4. JobsInv' /\ DifferencesAreTracked'
  BY <1>1, <1>3, FlushInv
<1>5. ScanInv'
  BY <1>1 DEF ScanInv
<1>6. CutoverInv'
  BY <1>1, <1>2 DEF VerifierInv, CutoverInv
<1> QED
  BY <1>4, <1>5, <1>6

\* The cutover verification begins with what is in the store.
LEMMA VerifyDuringCutoverInv ==
    ASSUME VerifierInv, VerifyDuringCutover, RunUnchanged
    PROVE  ScanInv' /\ JobsInv' /\ CutoverInv' /\ DifferencesAreTracked'
<1>1. /\ Flush /\ stage = "ready" /\ stage' = "cutover" /\ RunHasReturned
      /\ UNCHANGED <<attachedAt, jobs, errored, failed, result>>
  BY DEF VerifyDuringCutover
<1>2. /\ Source' = Source /\ target' = target /\ RunHasReturned' = RunHasReturned
  BY <1>1, RunFrame
<1>3. jobs = {} /\ todo = {}
  BY <1>1 DEF VerifierInv, ScanInv
<1>4. JobsInv' /\ DifferencesAreTracked'
  BY <1>1, <1>3, FlushInv
<1>5. ScanInv'
  BY <1>1 DEF ScanInv
<1>6. result = "none" /\ store' = {}
  BY <1>1 DEF VerifierInv, CutoverInv, Flush
<1>7. CutoverInv'
  BY <1>1, <1>2, <1>3, <1>6, ZenonT(30) DEF VerifierInv, CutoverInv
<1> QED
  BY <1>4, <1>5, <1>7

\* A batch is handed to a worker.
LEMMA ReverifyBatchInv ==
    ASSUME VerifierInv, ReverifyBatch, RunUnchanged
    PROVE  ScanInv' /\ JobsInv' /\ CutoverInv' /\ DifferencesAreTracked'
<1>1. /\ stage \in {"reverify", "cutover"}
      /\ UNCHANGED <<stage, attachedAt, store, scan, scanLast, errored, failed, result>>
  BY DEF ReverifyBatch
<1>2. PICK b \in todo : todo' = todo \ {b} /\ jobs' = jobs \cup {NewJob(b)}
  BY DEF ReverifyBatch
<1>3. NewJob(b).rows = b /\ NewJob(b).first = "none"
  BY DEF NewJob
<1>4. /\ Source' = Source /\ target' = target /\ RunHasReturned' = RunHasReturned
      /\ \A r : OnItsWay(r)' <=> OnItsWay(r)
      /\ \A r : ChangedIn(r, notified, Len(binlog))' <=> ChangedIn(r, notified, Len(binlog))
      /\ \A r : InScope(r)' <=> InScope(r)
  BY <1>1, RunFrame
<1>5. \A r : Noted(r)' <=> Noted(r)
  BY <1>1, <1>4 DEF Noted
<1>6. \A i \in jobs' : i \in jobs \/ i.first = "none"
  BY <1>2, <1>3
<1>7. ScanInv'
  BY <1>1 DEF ScanInv
<1>8. JobsInv'
  <2>1. ASSUME NEW i \in jobs', NEW r \in i.rows
        PROVE  /\ i.first = "source" => Noted(r)' \/ i.hashes[r] = Source'[r]
               /\ i.first = "target" => Noted(r)' \/ (i.hashes[r] = Source'[r] => OnItsWay(r)')
    BY <1>4, <1>5, <1>6 DEF VerifierInv, JobsInv
  <2> QED
    BY <2>1 DEF JobsInv
<1>9. CutoverInv'
  <2>1. stage = "cutover" => \A i \in jobs' : \A r \in i.rows :
            /\ i.first = "source" => i.hashes[r] = Source[r]
            /\ i.first = "target" => i.hashes[r] = target[r]
    BY <1>6 DEF VerifierInv, CutoverInv
  <2> QED
    BY <1>1, <1>4, <2>1 DEF VerifierInv, CutoverInv
<1>10. \A r : ToBeCompared(r) => ToBeCompared(r)'
  <2>1. SUFFICES ASSUME NEW r, ToBeCompared(r) PROVE ToBeCompared(r)'
    OBVIOUS
  <2>2. CASE r \in UNION todo
    <3>1. PICK c \in todo : r \in c
      BY <2>2
    <3>2. CASE c = b
      BY <1>2, <1>3, <3>1, <3>2, ZenonT(30) DEF ToBeCompared
    <3>3. CASE c # b
      BY <1>2, <3>1, <3>3 DEF ToBeCompared
    <3> QED
      BY <3>2, <3>3
  <2>3. CASE r \notin UNION todo
    BY <1>1, <1>2, <1>4, <2>1, <2>3, ZenonT(30) DEF ToBeCompared
  <2> QED
    BY <2>2, <2>3
<1>11. DifferencesAreTracked'
  BY <1>1, <1>4, <1>10 DEF VerifierInv, DifferencesAreTracked
<1> QED
  BY <1>7, <1>8, <1>9, <1>11, ZenonT(30)

\* The reverification has ended; the cutover may begin.
LEMMA ReverificationEndsInv ==
    ASSUME VerifierInv, ReverificationEnds, RunUnchanged
    PROVE  ScanInv' /\ JobsInv' /\ CutoverInv' /\ DifferencesAreTracked'
<1>1. /\ stage = "reverify" /\ stage' = "ready" /\ jobs = {} /\ todo = {}
      /\ UNCHANGED <<attachedAt, store, scan, scanLast, todo, jobs, errored, failed, result>>
  BY DEF ReverificationEnds, PoolIsDone
<1>2. /\ Source' = Source /\ target' = target /\ RunHasReturned' = RunHasReturned
      /\ \A r : OnItsWay(r)' <=> OnItsWay(r)
      /\ \A r : ChangedIn(r, notified, Len(binlog))' <=> ChangedIn(r, notified, Len(binlog))
      /\ \A r : InScope(r)' <=> InScope(r)
  BY <1>1, RunFrame
<1>3. ScanInv' /\ JobsInv'
  BY <1>1 DEF ScanInv, JobsInv
<1>4. CutoverInv'
  BY <1>1, <1>2 DEF VerifierInv, CutoverInv
<1>5. \A r : ToBeCompared(r) => ToBeCompared(r)'
  BY <1>1, <1>2 DEF ToBeCompared
<1>6. DifferencesAreTracked'
  BY <1>1, <1>2, <1>5, ZenonT(30) DEF VerifierInv, DifferencesAreTracked
<1> QED
  BY <1>3, <1>4, <1>6

\* The run is aborted.
LEMMA AbortRunInv ==
    ASSUME VerifierInv, AbortRun, RunUnchanged
    PROVE  ScanInv' /\ JobsInv' /\ CutoverInv' /\ DifferencesAreTracked' /\ ResultIsRight'
<1>1. /\ stage' = "finished" /\ result' = "error"
      /\ UNCHANGED <<attachedAt, store, jobs, failed>>
  BY DEF AbortRun
<1>2. /\ Source' = Source /\ target' = target /\ RunHasReturned' = RunHasReturned
      /\ \A r : OnItsWay(r)' <=> OnItsWay(r)
      /\ \A r : ChangedIn(r, notified, Len(binlog))' <=> ChangedIn(r, notified, Len(binlog))
  BY <1>1, RunFrame
<1>3. \A r : Noted(r)' <=> Noted(r)
  BY <1>1, <1>2 DEF Noted
<1>4. JobsInv'
  BY <1>1, <1>2, <1>3 DEF VerifierInv, JobsInv
<1>5. ScanInv' /\ DifferencesAreTracked' /\ ResultIsRight'
  BY <1>1 DEF ScanInv, DifferencesAreTracked, ResultIsRight
<1>6. CutoverInv'
  BY <1>1, <1>2 DEF VerifierInv, CutoverInv
<1> QED
  BY <1>4, <1>5, <1>6

\* The result: every row in scope is where the log ends, or a failure was real.
LEMMA VerificationResultInv ==
    ASSUME VerifierInv, VerificationResult, RunUnchanged
    PROVE  ScanInv' /\ JobsInv' /\ CutoverInv' /\ DifferencesAreTracked' /\ ResultIsRight'
<1>1. /\ stage = "cutover" /\ jobs = {} /\ (errored \/ failed \/ todo = {})
      /\ stage' = "finished" /\ jobs' = jobs /\ failed' = failed /\ attachedAt' = attachedAt
      /\ \/ errored /\ result' = "error"
         \/ failed /\ result' = "incorrect"
         \/ ~errored /\ ~failed /\ result' = "correct"
  BY DEF VerificationResult
<1>2. /\ Source' = Source /\ target' = target /\ RunHasReturned' = RunHasReturned
      /\ \A r : InScope(r)' <=> InScope(r)
  BY <1>1, RunFrame
<1>3. /\ RunHasReturned /\ store = {} /\ result = "none"
      /\ failed => target # Source
  BY <1>1 DEF VerifierInv, CutoverInv
<1>4. ASSUME ~errored, ~failed, NEW r \in RowIds, InScope(r)
      PROVE  target[r] = Source[r]
  <2>1. OnItsWay(r) \/ ToBeCompared(r)
    BY <1>3, <1>4 DEF VerifierInv, DifferencesAreTracked
  <2>2. ~ChangedIn(r, notified, Len(binlog)) /\ (OnItsWay(r) => target[r] = Source[r])
    BY <1>3, AtTheEnd DEF VerifierInv
  <2>3. ~ToBeCompared(r)
    BY <1>1, <1>3, <1>4, <2>2, ZenonT(30) DEF ToBeCompared
  <2> QED
    BY <2>1, <2>2, <2>3
<1>5. ResultIsRight'
  BY <1>1, <1>2, <1>3, <1>4 DEF ResultIsRight
<1>6. ScanInv' /\ JobsInv' /\ DifferencesAreTracked'
  BY <1>1 DEF ScanInv, JobsInv, DifferencesAreTracked
<1>7. CutoverInv'
  BY <1>1, <1>2, <1>3 DEF CutoverInv
<1> QED
  BY <1>5, <1>6, <1>7

----------------------------------------------------------------------------
\* The theorems.

\* The invariant holds at the beginning ...
LEMMA VerifierInvInit ==
    ASSUME VerificationInit
    PROVE  VerifierInv
<1> USE DEF VerificationInit, InitSource, WriterInit
<1>1. binlog = <<>> /\ Len(binlog) = 0 /\ versions \in [0..0 -> TableData]
  <2>1. 0..0 = {0}
    BY SMTT(30)
  <2> QED
    BY <2>1
<1>2. VerificationTypeOK
  <2>1. DatabasesTypeOK
    BY SMTT(30), <1>1 DEF DatabasesTypeOK
  <2>2. StreamerTypeOK
    BY SMTT(30) DEF StreamerTypeOK
  <2>3. WriterTypeOK
    BY SMTT(30), BinlogWriterAssumption DEF WriterTypeOK, NothingToUndo, TableData, Row
  <2> QED
    BY SMTT(30), <2>1, <2>2, <2>3, VerifierAssumption DEF VerificationTypeOK
<1>3. LogInv
  BY SMTT(30), <1>1 DEF LogInv
<1>4. RunInv
  BY DEF RunInv
<1>5. LockedRowsInv
  <2>1. \A i : i \notin applied + 1..exec
    BY SMTT(30)
  <2> QED
    BY <2>1 DEF LockedRowsInv, TargetLocked
<1>6. ScanInv /\ JobsInv /\ CutoverInv
  BY DEF ScanInv, JobsInv, CutoverInv
<1>7. DifferencesAreTracked /\ ResultIsRight
  BY DEF DifferencesAreTracked, ToBeCompared, ResultIsRight
<1> QED
  BY <1>2, <1>3, <1>4, <1>5, <1>6, <1>7, ZenonT(30) DEF VerifierInv

\* ... and every step keeps it.
LEMMA VerifierInvStep ==
    ASSUME VerifierInv, [VerificationNext]_verificationVars
    PROVE  VerifierInv'
<1>1. CASE ApplicationStep \/ RunStep \/ CutoverLock
  BY <1>1, RunKeepsInv
<1>2. ASSUME NEW j \in jobs, JobStep(j)
      PROVE  VerifierInv'
  BY <1>2, JobStepInv
<1>3. CASE \/ \E t \in Tables : IterateTable(t) \/ FetchKeys(t)
           \/ ScanEnds \/ ReverifyBatch \/ AnotherIteration \/ ReverificationEnds
           \/ VerificationResult \/ VerifyDuringCutover \/ AbortRun
  <2>1. VerificationTypeOK' /\ RunUnchanged
    BY <1>3, VerifierTypes DEF VerifierInv
  <2>2. LogInv' /\ RunInv' /\ LockedRowsInv'
    BY <2>1, RunFrame
  <2>3. ScanInv' /\ JobsInv' /\ CutoverInv' /\ DifferencesAreTracked' /\ ResultIsRight'
    <3>2. ASSUME NEW t \in Tables, IterateTable(t)
          PROVE  ScanInv' /\ JobsInv' /\ CutoverInv' /\ DifferencesAreTracked' /\ ResultIsRight'
      <4>1. UNCHANGED <<attachedAt, result>>
        BY <3>2 DEF IterateTable
      <4> QED
        BY <2>1, <3>2, <4>1, IterateTableInv, ResultFrame, ZenonT(30)
    <3>3. ASSUME NEW t \in Tables, FetchKeys(t)
          PROVE  ScanInv' /\ JobsInv' /\ CutoverInv' /\ DifferencesAreTracked' /\ ResultIsRight'
      <4>1. UNCHANGED <<attachedAt, result>>
        BY <3>3 DEF FetchKeys
      <4> QED
        BY <2>1, <3>3, <4>1, FetchKeysInv, ResultFrame
    <3>4. CASE ScanEnds \/ AnotherIteration
      <4>1. UNCHANGED <<attachedAt, result>>
        BY <3>4 DEF ScanEnds, AnotherIteration
      <4> QED
        BY <2>1, <3>4, <4>1, IterationInv, ResultFrame, ZenonT(30)
    <3>5. CASE ReverifyBatch
      <4>1. UNCHANGED <<attachedAt, result>>
        BY <3>5, ZenonT(30) DEF ReverifyBatch
      <4> QED
        BY <2>1, <3>5, <4>1, ReverifyBatchInv, ResultFrame, ZenonT(30)
    <3>6. CASE ReverificationEnds
      <4>1. UNCHANGED <<attachedAt, result>>
        BY <3>6, ZenonT(30) DEF ReverificationEnds
      <4> QED
        BY <2>1, <3>6, <4>1, ReverificationEndsInv, ResultFrame
    <3>7. CASE VerifyDuringCutover
      <4>1. UNCHANGED <<attachedAt, result>>
        BY <3>7, ZenonT(30) DEF VerifyDuringCutover
      <4> QED
        BY <2>1, <3>7, <4>1, VerifyDuringCutoverInv, ResultFrame
    <3>8. CASE VerificationResult
      BY <2>1, <3>8, VerificationResultInv
    <3>9. CASE AbortRun
      BY <2>1, <3>9, AbortRunInv
    <3> QED
      BY <1>3, <3>2, <3>3, <3>4, <3>5, <3>6, <3>7, <3>8, <3>9, ZenonT(30)
  <2> QED
    BY <2>1, <2>2, <2>3 DEF VerifierInv
<1>4. CASE VerifyBeforeCutover
  BY <1>4, VerifyBeforeCutoverInv
<1>5. CASE UNCHANGED verificationVars
  <2>1. RunUnchanged /\ UNCHANGED verifierVars
    BY <1>5 DEF verificationVars, RunUnchanged, verifierVars
  <2> USE <2>1 DEF verifierVars
  <2>2. VerificationTypeOK'
    BY RunTypes DEF VerifierInv, VerificationTypeOK
  <2>3. /\ Source' = Source /\ target' = target /\ RunHasReturned' = RunHasReturned
        /\ \A r : OnItsWay(r)' <=> OnItsWay(r)
        /\ \A r : ChangedIn(r, notified, Len(binlog))' <=> ChangedIn(r, notified, Len(binlog))
        /\ \A r : InScope(r)' <=> InScope(r)
        /\ \A r : ChangedIn(r, attachedAt, notified)' <=> ChangedIn(r, attachedAt, notified)
        /\ LogInv' /\ RunInv' /\ LockedRowsInv' /\ ResultIsRight'
    BY RunFrame, ResultFrame
  <2>4. \A r : (Noted(r)' <=> Noted(r)) /\ (ToBeCompared(r) => ToBeCompared(r)')
    BY <2>3 DEF Noted, ToBeCompared
  <2>5. JobsInv'
    BY <2>3, <2>4 DEF VerifierInv, JobsInv
  <2>6. CutoverInv'
    BY <2>3 DEF VerifierInv, CutoverInv
  <2>7. DifferencesAreTracked'
    BY <2>3, <2>4 DEF VerifierInv, DifferencesAreTracked
  <2>8. sent' = sent
    BY DEF RunUnchanged, streamerVars
  <2>9. ScanInv'
    BY <2>3, <2>4, <2>8 DEF VerifierInv, ScanInv
  <2> QED
    BY <2>2, <2>3, <2>5, <2>6, <2>7, <2>9, ZenonT(30) DEF VerifierInv
<1> QED
  BY <1>1, <1>2, <1>3, <1>4, <1>5 DEF VerificationNext, VerifierStep, VerifierProgress, Verified

\* The invariant holds in every state of a verification.
THEOREM VerifierInvariant == VerificationSpec => []VerifierInv
<1>1. VerificationInit => VerifierInv
  BY VerifierInvInit
<1>2. VerifierInv /\ [VerificationNext]_verificationVars => VerifierInv'
  BY VerifierInvStep
<1> QED
  BY <1>1, <1>2, PTL DEF VerificationSpec

\* The verifier's fields hold what they can hold (iterative_verifier.go).
THEOREM VerificationTypeCorrect == VerificationSpec => []VerificationTypeOK
<1>1. VerifierInv => VerificationTypeOK
  BY DEF VerifierInv
<1> QED
  BY <1>1, VerifierInvariant, PTL

(***************************************************************************)
(* No difference is lost sight of: VerifyBeforeCutover compares without    *)
(* locks, and still a row that the replay will not bring to its value on   *)
(* the source is in the store, on its way there or still to be compared.   *)
(***************************************************************************)
THEOREM DifferencesAreAlwaysTracked == VerificationSpec => []DifferencesAreTracked
<1>1. VerifierInv => DifferencesAreTracked
  BY DEF VerifierInv
<1> QED
  BY <1>1, VerifierInvariant, PTL

(***************************************************************************)
(* What VerifyDuringCutover returns is right: "correct" only when every    *)
(* row in scope is the same on both sides, and "incorrect" only when the   *)
(* two sides differ.                                                       *)
(***************************************************************************)
THEOREM ResultIsAlwaysRight == VerificationSpec => []ResultIsRight
<1>1. VerifierInv => ResultIsRight
  BY DEF VerifierInv
<1> QED
  BY <1>1, VerifierInvariant, PTL
=============================================================================
