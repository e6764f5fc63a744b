------------------------------- MODULE Ferry -------------------------------
(***************************************************************************)
(* ferry.go, composed with the goroutines it starts, and the sequence of   *)
(* calls that copydb.go and sharding.go make on it: start, copy, wait for  *)
(* the cutover, stop the writes to the source, flush the binlog, join.     *)
(***************************************************************************)
EXTENDS BinlogWriter, DataIterator

CONSTANT MaxRestarts   \* bound: runs started again after a fatal error

ASSUME FerryAssumption == MaxRestarts \in Nat

VARIABLES phase,              \* OverallState; "crashed" after a fatal error
          caller,             \* where the goroutine that drives the ferry is
          automaticCutover,
          restarts

ferryVars == <<phase, caller, automaticCutover, restarts>>
vars == <<sourceVars, target, streamerVars, writerVars, iteratorVars, ferryVars>>

\* Run has started the goroutines, and they have not all returned.
Started == phase \in {"copying", "waiting", "cutover"}
Running == phase = "starting" \/ Started

Init ==
    /\ InitSource
    /\ target = [r \in RowIds |-> NoRow]
    /\ StreamerInit
    /\ WriterInit
    /\ IteratorInit
    /\ phase = "starting"
    /\ caller = "row_copy"
    /\ automaticCutover = FALSE
    /\ restarts = 0

----------------------------------------------------------------------------
\* The environment.

Application ==
    /\ Running
    /\ \/ \E r \in RowIds, v \in Row, end \in BOOLEAN :
             ~RowLocked(r) /\ ApplicationWrites(r, v, end)
       \/ LogOther
    /\ UNCHANGED <<streamerVars, writerVars, iteratorVars, ferryVars>>

\* The operator of copydb, or sharding's CutoverLock callback.
LockSource ==
    /\ Running
    /\ StopWrites
    /\ UNCHANGED <<streamerVars, writerVars, iteratorVars, ferryVars>>

\* ControlServer.HandleCutover, for either type, at any time until the cutover has
\* begun: after that only the status page reads the field.  A process that has it
\* in its configuration is one where this comes first.
HandleCutover ==
    /\ phase \in {"starting", "copying", "waiting"}
    /\ automaticCutover' = ~automaticCutover
    /\ UNCHANGED <<sourceVars, target, streamerVars, writerVars, iteratorVars,
                   phase, caller, restarts>>

----------------------------------------------------------------------------
\* Start and Run.

\* The log position is determined before anything is read from the tables.
Start ==
    /\ phase = "starting"
    /\ ConnectBinlogStreamerToMysql
    /\ taken' = committed
    /\ applied' = committed
    /\ exec' = committed
    /\ UNCHANGED <<sourceVars, target, writer, attempt, undo, iteratorVars, ferryVars>>

Run ==
    /\ phase = "starting"
    /\ streamer = "connected"
    /\ streamer' = "running"
    /\ phase' = "copying"
    /\ UNCHANGED <<sourceVars, target, sent, pos, targetPos, stopRequested,
                   writerVars, iteratorVars, caller, automaticCutover, restarts>>

StreamerSteps ==
    /\ Started
    /\ \/ StreamEvent /\ BufferBinlogEvents
       \/ StreamerReturns
    /\ UNCHANGED <<sourceVars, target, writerVars, iteratorVars, ferryVars>>

WriterProgress ==
    /\ Started
    /\ ReceiveEvent \/ BatchReady \/ ExecuteStatement \/ BatchWritten \/ WriterReturns
    /\ UNCHANGED <<sourceVars, streamerVars, iteratorVars, ferryVars>>

WriterRetries ==
    /\ Started
    /\ RetryWrite
    /\ UNCHANGED <<sourceVars, streamerVars, iteratorVars, ferryVars>>

\* INSERT IGNORE waits for the rows of the writer's transaction.
InsertWaits(t) == \E r \in RowIds : TableOf(r) = t /\ RowLocked(r) /\ TargetLocked(r)

IteratorProgress(t) ==
    /\ phase = "copying"
    /\ IteratorStep(t) \/ (~InsertWaits(t) /\ WriteRowBatch(t))
    /\ UNCHANGED <<sourceVars, streamerVars, writerVars, ferryVars>>

IteratorRetries(t) ==
    /\ phase = "copying"
    /\ ~InsertWaits(t)
    /\ RetryRowBatch(t)
    /\ UNCHANGED <<sourceVars, streamerVars, writerVars, ferryVars>>

\* Slip: the workers are not waited for.
OnFinishedIterationsTooSoon ==
    /\ phase = "copying"
    /\ phase' = "waiting"
    /\ UNCHANGED <<sourceVars, target, streamerVars, writerVars, iteratorVars,
                   caller, automaticCutover, restarts>>

\* Every worker has returned: the done listener announces it ...
OnFinishedIterations ==
    /\ phase = "copying"
    /\ AllTablesCompleted
    /\ phase' = "waiting"
    /\ UNCHANGED <<sourceVars, target, streamerVars, writerVars, iteratorVars,
                   caller, automaticCutover, restarts>>

\* ... and waits until the cutover is asked for.
EnterCutover ==
    /\ phase = "waiting"
    /\ automaticCutover
    /\ phase' = "cutover"
    /\ UNCHANGED <<sourceVars, target, streamerVars, writerVars, iteratorVars,
                   caller, automaticCutover, restarts>>

----------------------------------------------------------------------------
\* The calling goroutine.

CallerMoves(from, to) ==
    /\ Started
    /\ caller = from
    /\ caller' = to
    /\ UNCHANGED <<sourceVars, target, writerVars, iteratorVars,
                   automaticCutover, restarts>>

\* The done listener and the caller meet on rowCopyCompleteCh.
WaitUntilRowCopyIsComplete ==
    /\ phase = "cutover"
    /\ CallerMoves("row_copy", "catch_up")
    /\ UNCHANGED <<phase, streamerVars>>

\* IsAlmostCaughtUp compares clocks; the answer may come at any time.
WaitUntilBinlogStreamerCatchesUp ==
    /\ CallerMoves("catch_up", "flush")
    /\ UNCHANGED <<phase, streamerVars>>

\* FlushBinlogAndStopStreaming is called once the source takes no writes: sharding
\* has locked it itself; copydb does not wait, its operator has to have made the
\* source read-only by then, as the comment on the function demands.
FlushReadsPosition ==
    /\ writesStopped
    /\ CallerMoves("flush", "stop")
    /\ ReadTargetPosition
    /\ UNCHANGED phase

FlushRequestsStop ==
    /\ CallerMoves("stop", "join")
    /\ RequestStop
    /\ UNCHANGED phase

\* Run's coreServicesWg.Wait and the caller's wait for Run.
CoreServicesDone == streamer = "closed" /\ writer = "done" /\ caller # "row_copy"

RunReturns ==
    /\ CoreServicesDone
    /\ CallerMoves("join", "done")
    /\ phase' = "done"
    /\ UNCHANGED streamerVars

----------------------------------------------------------------------------
\* Fatal errors.

\* The state of the streamer, the writer and the iterator as it is at first.
MemoryIsLost ==
    /\ streamer' = "off"
    /\ sent' = 0
    /\ pos' = 0
    /\ targetPos' = 0
    /\ stopRequested' = FALSE
    /\ writer' = "gather"
    /\ taken' = 0
    /\ applied' = 0
    /\ exec' = 0
    /\ attempt' = 1
    /\ undo' = NothingToUndo
    /\ cursor' = [t \in Tables |-> "unread"]
    /\ maxPk' = [t \in Tables |-> 0]
    /\ lastPk' = [t \in Tables |-> 0]
    /\ pkPos' = [t \in Tables |-> 0]
    /\ fetched' = NothingFetched
    /\ copyAttempt' = [t \in Tables |-> 1]

(***************************************************************************)
(* ErrorHandler.Fatal panics.  Retries that are used up and errors in      *)
(* reading the source lead there at any moment.  What the process knew is  *)
(* lost and its connections are closed: no row stays locked, and an open   *)
(* transaction is undone unless its COMMIT had arrived.                    *)
(***************************************************************************)
Fatal ==
    /\ Running
    /\ phase' = "crashed"
    /\ caller' = "row_copy"
    /\ MemoryIsLost
    /\ automaticCutover' = FALSE
    /\ target' \in {target, CommittedTarget}
    /\ UNCHANGED <<sourceVars, restarts>>

\* Another process is started, and the application writes to the source again.
NewRun ==
    /\ phase = "crashed"
    /\ restarts < MaxRestarts
    /\ restarts' = restarts + 1
    /\ phase' = "starting"
    /\ writesStopped' = FALSE
    /\ UNCHANGED <<versions, binlog, committed, streamerVars, writerVars, iteratorVars,
                   caller, automaticCutover>>

\* What the crashed run left on the target is dropped first.
Restart ==
    /\ NewRun
    /\ target' = [r \in RowIds |-> NoRow]

\* The run has come to an end.
Ended ==
    /\ phase = "done" \/ (phase = "crashed" /\ restarts = MaxRestarts)
    /\ UNCHANGED vars

Next ==
    \/ Application
    \/ LockSource
    \/ HandleCutover
    \/ Start
    \/ Run
    \/ StreamerSteps
    \/ WriterProgress
    \/ WriterRetries
    \/ \E t \in Tables : IteratorProgress(t) \/ IteratorRetries(t)
    \/ OnFinishedIterations
    \/ EnterCutover
    \/ WaitUntilRowCopyIsComplete
    \/ WaitUntilBinlogStreamerCatchesUp
    \/ FlushReadsPosition
    \/ FlushRequestsStop
    \/ RunReturns
    \/ Fatal
    \/ Restart
    \/ Ended

Spec == Init /\ [][Next]_vars

(***************************************************************************)
(* The goroutines run when they can, a transaction of the application      *)
(* does not stay open, and the source is made read-only for the cutover    *)
(* (FlushReadsPosition).  Nothing is assumed of errors, retries,           *)
(* HandleCutover or the start of another run.                              *)
(***************************************************************************)
Fairness ==
    /\ WF_vars(committed < Len(binlog) /\ Application /\ committed' = Len(binlog'))
    /\ WF_vars(caller = "flush" /\ LockSource)
    /\ WF_vars(Start)
    /\ WF_vars(Run)
    /\ WF_vars(StreamerSteps)
    /\ WF_vars(WriterProgress)
    /\ \A t \in Tables : WF_vars(IteratorProgress(t))
    /\ WF_vars(OnFinishedIterations)
    /\ WF_vars(EnterCutover)
    /\ WF_vars(WaitUntilRowCopyIsComplete)
    /\ WF_vars(WaitUntilBinlogStreamerCatchesUp)
    /\ WF_vars(FlushReadsPosition)
    /\ WF_vars(FlushRequestsStop)
    /\ WF_vars(RunReturns)

FairSpec == Spec /\ Fairness

----------------------------------------------------------------------------
\* Properties.

\* The variables hold what the fields, channels and databases they stand for can hold.
TypeOK ==
    /\ DatabasesTypeOK
    /\ StreamerTypeOK
    /\ WriterTypeOK
    /\ IteratorTypeOK
    /\ phase \in {"starting", "copying", "waiting", "cutover", "done", "crashed"}
    /\ caller \in {"row_copy", "catch_up", "flush", "stop", "join", "done"}
    /\ automaticCutover \in BOOLEAN
    /\ restarts \in 0..MaxRestarts

(***************************************************************************)
(* When Ferry.Run returns, the target holds what the source holds, and     *)
(* nothing of it is still in an uncommitted transaction (ferry.go, Run;    *)
(* copydb.go, the comment at the end of Run).                              *)
(***************************************************************************)
CutoverConsistent ==
    phase = "done" => target = Source /\ CommittedTarget = Source

\* The cursor of the row's table has still to come to the row, or holds it.
Uncopied(r) ==
    LET t == TableOf(r) IN
    \/ cursor[t] = "unread"
    \/ /\ cursor[t] # "done"
       /\ lastPk[t] < Pk(r) /\ Pk(r) <= maxPk[t]
       /\ cursor[t] = "holding" => pkPos[t] < Pk(r) \/ RowLocked(r)

\* The value v is one the row r had after position lo or later, or the row is
\* missing and its copy is still to come.
Tracks(v, r, lo) ==
    \/ v = NoRow /\ Uncopied(r)
    \/ \E p \in lo..Len(binlog) : v = versions[p][r]

(***************************************************************************)
(* Copying and replaying race on every row (cursor.go, Each against        *)
(* binlog_writer.go, writeEvents).  Whatever the order, the target has     *)
(* a row's value as of a moment the replay has not gone past, so that the  *)
(* changes still to be replayed bring it up to date, or the row is absent  *)
(* and its copy is still to come.                                          *)
(***************************************************************************)
RowsTrackHistory ==
    phase # "crashed" => \A r \in RowIds : Tracks(target[r], r, exec)

(***************************************************************************)
(* The rows of a batch do not change on the source between the SELECT and  *)
(* the acknowledgement of the INSERT, over all retries (cursor.go, Each:   *)
(* the transaction ends after the callback).                               *)
(***************************************************************************)
BatchIsCurrent == \A r \in RowIds : RowLocked(r) => fetched[r] = Source[r]

(***************************************************************************)
(* The streamer does not return before it has delivered every change the   *)
(* source will ever log in this run (binlog_streamer.go, FlushAndStop and  *)
(* the condition of the loop of Run).                                      *)
(***************************************************************************)
StopPointCoversLog == streamer = "closed" => sent = Len(binlog)

\* The streamer has an event that the buffer takes, or its loop is over.
StreamerCanGoOn ==
    /\ streamer = "running"
    /\ (EventAvailable /\ BufferBinlogEvents) \/ (sent = pos /\ ~KeepStreaming)

\* The writer receives, starts to write, is at the end of a closed buffer, or
\* executes a statement that the target does not refuse.
WriterCanGoOn ==
    \/ /\ writer = "gather"
       /\ \/ Buffered # {} /\ Cardinality(Batch) < BinlogBatchSize
          \/ Batch # {} /\ (Buffered = {} \/ Cardinality(Batch) = BinlogBatchSize)
          \/ Batch = {} /\ Buffered = {} /\ BufferClosed
    \/ /\ writer = "write"
       /\ exec < taken /\ IsDML(exec + 1) => ~DuplicateKey(binlog[exec + 1], target)

(***************************************************************************)
(* Whoever waits is waited on by none it waits for: the streamer with an   *)
(* event for a full buffer and the worker whose insert meets a row of the  *)
(* writer's transaction wait for a writer that can go on, and the caller   *)
(* that has asked for the stop waits for a streamer or a writer that can   *)
(* (binlog_writer.go, Run and BufferBinlogEvents; ferry.go, Run).          *)
(***************************************************************************)
WaitsAreServed ==
    Started =>
        /\ streamer = "running" /\ EventAvailable => BufferBinlogEvents \/ WriterCanGoOn
        /\ \A t \in Tables : InsertWaits(t) => WriterCanGoOn
        /\ caller = "join" => StreamerCanGoOn \/ WriterCanGoOn \/ CoreServicesDone

(***************************************************************************)
(* If the operator leaves AutomaticCutover set, the run ends: no goroutine *)
(* waits forever for another one, on the full buffer, on rowCopyCompleteCh *)
(* or for the position to stop at.                                         *)
(***************************************************************************)
RunEnds == <>[]automaticCutover => <>(phase \in {"done", "crashed"})

\* A row that was locked on the source is released again (cursor.go, Each).
LocksAreReleased == \A r \in RowIds : RowLocked(r) ~> ~RowLocked(r)
----------------------------------------------------------------------------
\* The inductive invariant behind the safety properties.

\* The log tells what changed from one version to the next.
LogMatchesVersions ==
    \A i \in 1..Len(binlog) :
        LET c == binlog[i] IN
        /\ c.row # Other => /\ c.to = c.row
                            /\ c.old = versions[i - 1][c.row]
                            /\ c.new = versions[i][c.row]
        /\ c.row = Other => c.to = Other
        /\ \A r \in RowIds : r # c.row => versions[i][r] = versions[i - 1][r]

\* A row without changes after p is still what it was at p.
UnloggedRowsAreStable ==
    \A p \in 0..Len(binlog), r \in RowIds :
        (\A i \in p + 1..Len(binlog) : binlog[i].row # r) => versions[p][r] = Source[r]

\* What the steps before and after Run establish.
BeforeRun ==
    phase \in {"crashed", "starting"} =>
        /\ cursor = [t \in Tables |-> "unread"]
        /\ fetched = NothingFetched
        /\ writer = "gather"
        /\ streamer \in {"off", "connected"}
        /\ ~stopRequested
        /\ caller = "row_copy"
        /\ phase = "starting" => target = [r \in RowIds |-> NoRow]

Phases ==
    /\ phase \in {"waiting", "cutover", "done"} => AllTablesCompleted
    /\ caller # "row_copy" => phase \in {"cutover", "done"}
    /\ phase = "done" => streamer = "closed" /\ writer = "done"

\* How the stop travels from the caller to the writer.
Stopping ==
    /\ writesStopped => committed = Len(binlog)
    /\ caller \in {"stop", "join", "done"} => writesStopped /\ targetPos = Len(binlog)
    /\ stopRequested => caller \in {"join", "done"}
    /\ streamer = "closed" => stopRequested /\ sent = Len(binlog)
    /\ writer = "done" => /\ streamer = "closed"
                          /\ \A i \in exec + 1..Len(binlog) : ~IsDML(i)

\* The rows of a batch are locked, current, and held by their table's worker.
BatchLocks ==
    \A r \in RowIds : RowLocked(r) => /\ fetched[r] = Source[r]
                                      /\ cursor[TableOf(r)] = "holding"

\* Each starts at zero, and a batch always gets further.
CursorsAdvance ==
    \A t \in Tables : /\ cursor[t] = "unread" => lastPk[t] = 0
                      /\ cursor[t] = "holding" => lastPk[t] < pkPos[t]

\* Statements are executed during a write only.
IdleWriter == writer # "write" => exec = applied

\* A rollback would leave the rows it restores on track as well.
UndoTracksHistory ==
    phase # "crashed" =>
        \A r \in RowIds : TargetLocked(r) => Tracks(undo[r], r, applied)

(***************************************************************************)
(* All of the above, with RowsTrackHistory: preserved by every step of     *)
(* ferry.go's composition, and enough for the properties at the cutover.   *)
(***************************************************************************)
FerryInv ==
    /\ TypeOK
    /\ LogMatchesVersions
    /\ UnloggedRowsAreStable
    /\ BeforeRun
    /\ Phases
    /\ Stopping
    /\ BatchLocks
    /\ CursorsAdvance
    /\ IdleWriter
    /\ UndoTracksHistory
    /\ RowsTrackHistory

----------------------------------------------------------------------------

Pending == {r \in RowIds : Uncopied(r)}
Status == IF phase = "done" THEN "done" ELSE IF phase = "crashed" THEN "failed" ELSE "moving"

(***************************************************************************)
(* A run implements DataMove: the floor is what has been replayed for      *)
(* good, and a row is pending until the cursor has passed it.              *)
(***************************************************************************)
Abstract == INSTANCE DataMove WITH
    Rows <- RowIds,
    history <- versions,
    now <- Len(binlog),
    copy <- target,
    floor <- applied,
    pending <- Pending,
    status <- Status

\* Every step of the ferry is one that DataMove allows (ferry.go, Run).
ImplementsDataMove == Abstract!MoveSpec
=============================================================================
