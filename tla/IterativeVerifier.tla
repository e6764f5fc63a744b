------------------------- MODULE IterativeVerifier -------------------------
(***************************************************************************)
(* iterative_verifier.go, composed with the binlog streamer and writer of  *)
(* the run it verifies, in the order of sharding.go's Run: once the rows   *)
(* are copied, VerifyBeforeCutover compares all tables while changes are   *)
(* still being replayed, and notes the rows that differ or change; after   *)
(* the streaming has ended, VerifyDuringCutover compares those again.      *)
(*                                                                         *)
(* The target starts with anything in it: what there is to find.  A        *)
(* fingerprint is the row itself.  WorkerPool is used by what it is shown  *)
(* to do: it processes all batches, some at the same time, or ends early   *)
(* after an error, with what was begun.  Ignored tables are left out of    *)
(* Tables.                                                                 *)
(***************************************************************************)
EXTENDS BinlogWriter

CONSTANTS VerifierBatchSize,     \* CursorConfig.BatchSize
          VerifierConcurrency,   \* tables or batches compared at the same time
          SmallEnough,           \* a store of this size (1000) is not reduced further
          MaxIterations          \* attempts at reducing it (30)

ASSUME VerifierAssumption ==
    /\ IsFiniteSet(Tables)
    /\ VerifierBatchSize \in Nat \ {0}
    /\ VerifierConcurrency \in Nat \ {0}
    /\ SmallEnough \in Nat
    /\ MaxIterations \in Nat \ {0}

VARIABLES stage,       \* "copied", "scan", "reverify", "ready", "cutover" or "finished"
          attachedAt,  \* log position from which on the listener is called
          notified,    \* log position up to which the verifier was told all it will be
          store,       \* reverifyStore: the rows to compare again
          scan,        \* per table: "queued", "open" or "done"
          scanLast,    \* per table: lastSuccessfulPrimaryKey
          todo,        \* batches of verifyStore not yet begun
          jobs,        \* comparisons in progress
          before,      \* size of the store before the iteration
          iteration,
          errored,     \* a comparison of the current pool run had an error
          failed,      \* a comparison of the current pool run failed
          result       \* "none", "correct", "incorrect" or "error"

verifierVars == <<stage, attachedAt, notified, store, scan, scanLast, todo, jobs, before,
                  iteration, errored, failed, result>>
verificationVars == <<sourceVars, target, streamerVars, writerVars, verifierVars>>

\* A comparison has read the fingerprints of no side yet, or of one.
Job == [rows : SUBSET RowIds, first : {"none", "source", "target"}, hashes : TableData]

Nothing == [r \in RowIds |-> NoRow]
HashesOf(data, rows) == [r \in RowIds |-> IF r \in rows THEN data[r] ELSE NoRow]

\* The row copy is complete and the streamer is at the beginning of the log.
VerificationInit ==
    /\ InitSource
    /\ target \in TableData
    /\ WriterInit
    /\ streamer = "running"
    /\ sent = 0
    /\ pos = 0
    /\ targetPos = 0
    /\ stopRequested = FALSE
    /\ stage = "copied"
    /\ attachedAt = 0
    /\ notified = 0
    /\ store = {}
    /\ scan = [t \in Tables |-> "queued"]
    /\ scanLast = [t \in Tables |-> 0]
    /\ todo = {}
    /\ jobs = {}
    /\ before = 0
    /\ iteration = 0
    /\ errored = FALSE
    /\ failed = FALSE
    /\ result = "none"

Listening == stage # "copied"

----------------------------------------------------------------------------
\* The run that is verified.

\* Transactions of one row.
ApplicationStep ==
    /\ \E r \in RowIds, v \in Row : ApplicationWrites(r, v, TRUE)
    /\ UNCHANGED <<streamerVars, writerVars, verifierVars>>

\* The listeners are called one after the other: first the binlog writer's ...
StreamToWriter ==
    /\ notified >= sent
    /\ StreamEvent
    /\ BufferBinlogEvents
    /\ notified' = IF Listening THEN notified ELSE sent'
    /\ UNCHANGED <<sourceVars, target, writerVars, stage, attachedAt, store, scan, scanLast,
                   todo, jobs, before, iteration, errored, failed, result>>

\* Slip: changes are noted during the scan only.
ListenDuringScan ==
    /\ Listening
    /\ notified < sent
    /\ notified' = notified + 1
    /\ store' = IF stage = "scan" THEN store \cup {binlog[notified + 1].row} ELSE store
    /\ UNCHANGED <<sourceVars, target, streamerVars, writerVars, stage, attachedAt, scan,
                   scanLast, todo, jobs, before, iteration, errored, failed, result>>

\* ... then the verifier's.  The streamer has returned before the cutover
\* verification starts, so the event is never too late.
BinlogEventListener ==
    /\ Listening
    /\ notified < sent
    /\ notified' = notified + 1
    /\ store' = IF IsDML(notified + 1) THEN store \cup {binlog[notified + 1].row} ELSE store
    /\ UNCHANGED <<sourceVars, target, streamerVars, writerVars, stage, attachedAt, scan,
                   scanLast, todo, jobs, before, iteration, errored, failed, result>>

StreamingEnds ==
    /\ notified = sent
    /\ StreamerReturns
    /\ UNCHANGED <<sourceVars, target, writerVars, verifierVars>>

WriterProgress ==
    /\ ReceiveEvent \/ BatchReady \/ ExecuteStatement \/ BatchWritten \/ WriterReturns
    /\ UNCHANGED <<sourceVars, streamerVars, verifierVars>>

WriterRetries ==
    /\ RetryWrite
    /\ UNCHANGED <<sourceVars, streamerVars, verifierVars>>

WriterStep == WriterProgress \/ WriterRetries

\* sharding.go locks the source when VerifyBeforeCutover has returned ...
CutoverLock ==
    /\ stage = "ready"
    /\ StopWrites
    /\ UNCHANGED <<streamerVars, writerVars, verifierVars>>

\* ... and flushes the binlog then.
FlushBinlogAndStopStreaming ==
    /\ writesStopped
    /\ ~stopRequested
    /\ targetPos' = committed
    /\ stopRequested' = TRUE
    /\ UNCHANGED <<sourceVars, target, streamer, sent, pos, writerVars, verifierVars>>

----------------------------------------------------------------------------
\* The parts of a pool run.

\* One of the two goroutines of compareFingerprints has its answer.
GetHashes(j) ==
    /\ j.first = "none"
    /\ \E side \in {"source", "target"} :
          LET data == IF side = "source" THEN CommittedSource ELSE CommittedTarget
          IN  jobs' = (jobs \ {j}) \cup
                      {[j EXCEPT !.first = side, !.hashes = HashesOf(data, j.rows)]}
    /\ UNCHANGED <<store, scan, scanLast, errored, failed>>

\* Slip: a row that one of the sides does not have is passed over.
MismatchedRowsOfBoth(j) ==
    LET data == IF j.first = "source" THEN CommittedTarget ELSE CommittedSource
    IN  {r \in j.rows : NoRow \notin {j.hashes[r], data[r]} /\ j.hashes[r] # data[r]}

\* compareHashes, once the other one has answered.
MismatchedRows(j) ==
    LET data == IF j.first = "source" THEN CommittedTarget ELSE CommittedSource
    IN  {r \in j.rows : j.hashes[r] # data[r]}

\* Slip: the last primary key is not moved.
CompareWithoutAdvancing(j) ==
    /\ j.first # "none"
    /\ jobs' = jobs \ {j}
    /\ IF stage = "cutover"
         THEN /\ failed' = (failed \/ MismatchedRows(j) # {})
              /\ UNCHANGED store
         ELSE /\ store' = store \cup MismatchedRows(j)
              /\ UNCHANGED failed
    /\ UNCHANGED <<scan, scanLast, errored>>

(***************************************************************************)
(* Both have answered.  Until the cutover, rows that differ are put (back) *)
(* into the store; during the cutover they fail the verification.  A scan  *)
(* moves on to the next batch.                                             *)
(***************************************************************************)
CompareFingerprints(j) ==
    /\ j.first # "none"
    /\ jobs' = jobs \ {j}
    /\ IF stage = "cutover"
         THEN /\ failed' = (failed \/ MismatchedRows(j) # {})
              /\ UNCHANGED store
         ELSE /\ store' = store \cup MismatchedRows(j)
              /\ UNCHANGED failed
    /\ scanLast' = IF stage # "scan" THEN scanLast
                   ELSE [t \in Tables |->
                           IF \E r \in j.rows : TableOf(r) = t
                             THEN CHOOSE k \in {Pk(r) : r \in j.rows} :
                                     \A r \in j.rows : Pk(r) <= k
                             ELSE scanLast[t]]
    /\ UNCHANGED <<scan, errored>>

\* The retries of a query are used up; a scan of the table ends with it.
FingerprintError(j) ==
    /\ jobs' = jobs \ {j}
    /\ errored' = TRUE
    /\ scan' = [t \in Tables |-> IF \E r \in j.rows : TableOf(r) = t THEN "done" ELSE scan[t]]
    /\ UNCHANGED <<store, scanLast, failed>>

JobStep(j) ==
    /\ GetHashes(j) \/ CompareFingerprints(j) \/ FingerprintError(j)
    /\ UNCHANGED <<sourceVars, target, streamerVars, writerVars, stage, attachedAt, notified,
                   todo, before, iteration, result>>

NewJob(rows) == [rows |-> rows, first |-> "none", hashes |-> Nothing]

----------------------------------------------------------------------------
\* VerifyBeforeCutover.

(***************************************************************************)
(* AddEventListener comes before the first comparison.  handleRowsEvent    *)
(* goes through the listeners there were when it began: an event that the  *)
(* streamer has in hand, as it waits for room in the writer's buffer, does *)
(* not get to the verifier.                                                *)
(***************************************************************************)
VerifyBeforeCutover ==
    /\ stage = "copied"
    /\ stage' = "scan"
    /\ \/ attachedAt' = sent
       \/ streamer = "running" /\ EventAvailable /\ attachedAt' = sent + 1
    /\ notified' = attachedAt'
    /\ UNCHANGED <<sourceVars, target, streamerVars, writerVars, store, scan, scanLast,
                   todo, jobs, before, iteration, errored, failed, result>>

\* iterateAllTables: the pool hands out a table.
IterateTable(t) ==
    /\ stage = "scan"
    /\ scan[t] = "queued"
    /\ Cardinality({u \in Tables : scan[u] = "open"}) < VerifierConcurrency
    /\ scan' = [scan EXCEPT ![t] = "open"]
    /\ UNCHANGED <<sourceVars, target, streamerVars, writerVars, stage, attachedAt, notified,
                   store, scanLast, todo, jobs, before, iteration, errored, failed, result>>

\* iterateTableFingerprints: the keys of the next batch, without locks, until
\* there are no more or they cannot be read.
FetchKeys(t) ==
    LET rows == RowsAfter(CommittedSource, t, scanLast[t]) IN
    /\ stage = "scan"
    /\ scan[t] = "open"
    /\ \A j \in jobs : \A r \in j.rows : TableOf(r) # t
    /\ \/ /\ rows = {}
          /\ scan' = [scan EXCEPT ![t] = "done"]
          /\ UNCHANGED <<jobs, errored>>
       \/ /\ rows # {}
          /\ jobs' = jobs \cup {NewJob(FirstRows(rows, VerifierBatchSize))}
          /\ UNCHANGED <<scan, errored>>
       \/ /\ scan' = [scan EXCEPT ![t] = "done"]
          /\ errored' = TRUE
          /\ UNCHANGED jobs
    /\ UNCHANGED <<sourceVars, target, streamerVars, writerVars, stage, attachedAt, notified,
                   store, scanLast, todo, before, iteration, failed, result>>

\* FlushAndBatchByTable: the keys of a table, in any order, cut into batches.
Batchings(rows) ==
    {P \in SUBSET SUBSET rows :
        /\ UNION P = rows
        /\ {} \notin P
        /\ \A b, c \in P : b # c => b \cap c = {}
        /\ \A b \in P : \A q, r \in b : TableOf(q) = TableOf(r)
        /\ \A b \in P : Cardinality(b) <= VerifierBatchSize
        /\ \A b, c \in P : /\ b # c
                           /\ \E q \in b, r \in c : TableOf(q) = TableOf(r)
                           => VerifierBatchSize \in {Cardinality(b), Cardinality(c)}}

\* The store is counted and emptied.  A change that is noted between the two
\* would only make the loop below end sooner.
Flush ==
    /\ todo' \in Batchings(store)
    /\ store' = {}
    /\ before' = Cardinality(store)

PoolIsDone == jobs = {} /\ (errored \/ todo = {})

\* The scan is over, and the first iteration of the reverification begins.
ScanEnds ==
    /\ stage = "scan"
    /\ ~errored
    /\ \A t \in Tables : scan[t] = "done"
    /\ stage' = "reverify"
    /\ iteration' = 1
    /\ Flush
    /\ UNCHANGED <<sourceVars, target, streamerVars, writerVars, attachedAt, notified, scan,
                   scanLast, jobs, errored, failed, result>>

\* verifyStore: the pool hands out a batch.
ReverifyBatch ==
    /\ stage \in {"reverify", "cutover"}
    /\ Cardinality(jobs) < VerifierConcurrency
    /\ \E b \in todo : /\ todo' = todo \ {b}
                       /\ jobs' = jobs \cup {NewJob(b)}
    /\ UNCHANGED <<sourceVars, target, streamerVars, writerVars, stage, attachedAt, notified,
                   store, scan, scanLast, before, iteration, errored, failed, result>>

\* The conditions at the end of the loop of reverifyUntilStoreIsSmallEnough.
StoreIsSmallEnough ==
    \/ Cardinality(store) <= SmallEnough
    \/ Cardinality(store) >= before
    \/ iteration = MaxIterations

AnotherIteration ==
    /\ stage = "reverify"
    /\ PoolIsDone
    /\ ~errored
    /\ ~StoreIsSmallEnough
    /\ iteration' = iteration + 1
    /\ Flush
    /\ UNCHANGED <<sourceVars, target, streamerVars, writerVars, stage, attachedAt, notified,
                   scan, scanLast, jobs, errored, failed, result>>

\* beforeCutoverVerifyDone is set.
ReverificationEnds ==
    /\ stage = "reverify"
    /\ PoolIsDone
    /\ ~errored
    /\ StoreIsSmallEnough
    /\ stage' = "ready"
    /\ UNCHANGED <<sourceVars, target, streamerVars, writerVars, attachedAt, notified, store,
                   scan, scanLast, todo, jobs, before, iteration, errored, failed, result>>

\* An error, or a reverification that took longer than MaxExpectedDowntime.
BeforeCutoverError ==
    \/ stage = "scan" /\ errored /\ \A t \in Tables : scan[t] # "open"
    \/ stage = "reverify" /\ PoolIsDone /\ (errored \/ StoreIsSmallEnough)

\* sharding.go aborts the run.
AbortRun ==
    /\ BeforeCutoverError
    /\ stage' = "finished"
    /\ result' = "error"
    /\ UNCHANGED <<sourceVars, target, streamerVars, writerVars, attachedAt, notified, store,
                   scan, scanLast, todo, jobs, before, iteration, errored, failed>>

----------------------------------------------------------------------------
\* VerifyDuringCutover.

\* sharding.go calls it when Ferry.Run has returned.
RunHasReturned == streamer = "closed" /\ writer = "done"

\* Slip: the binlog writer is not waited for.
VerifyWhileWriting ==
    /\ stage = "ready"
    /\ streamer = "closed"
    /\ stage' = "cutover"
    /\ Flush
    /\ UNCHANGED <<sourceVars, target, streamerVars, writerVars, attachedAt, notified, scan,
                   scanLast, jobs, iteration, errored, failed, result>>

VerifyDuringCutover ==
    /\ stage = "ready"
    /\ RunHasReturned
    /\ stage' = "cutover"
    /\ Flush
    /\ UNCHANGED <<sourceVars, target, streamerVars, writerVars, attachedAt, notified, scan,
                   scanLast, jobs, iteration, errored, failed, result>>

\* Slip: an empty store is not a case of its own.
ResultOfNothing ==
    /\ stage = "cutover"
    /\ jobs = {}
    /\ errored \/ failed \/ todo = {}
    /\ stage' = "finished"
    /\ \/ errored /\ result' = "error"
       \/ failed /\ result' = "incorrect"
       \/ ~errored /\ ~failed /\ result' = IF before = 0 THEN "zero" ELSE "correct"
    /\ UNCHANGED <<sourceVars, target, streamerVars, writerVars, attachedAt, notified, store,
                   scan, scanLast, todo, jobs, before, iteration, errored, failed>>

\* verifyStore returns the first result that failed, if there is one.
VerificationResult ==
    /\ stage = "cutover"
    /\ jobs = {}
    /\ errored \/ failed \/ todo = {}
    /\ stage' = "finished"
    /\ \/ errored /\ result' = "error"
       \/ failed /\ result' = "incorrect"
       \/ ~errored /\ ~failed /\ result' = "correct"
    /\ UNCHANGED <<sourceVars, target, streamerVars, writerVars, attachedAt, notified, store,
                   scan, scanLast, todo, jobs, before, iteration, errored, failed>>

----------------------------------------------------------------------------

VerifierProgress ==
    \/ VerifyBeforeCutover
    \/ \E t \in Tables : IterateTable(t) \/ FetchKeys(t)
    \/ \E j \in jobs : JobStep(j)
    \/ ScanEnds
    \/ ReverifyBatch
    \/ AnotherIteration
    \/ ReverificationEnds
    \/ VerificationResult

VerifierStep == VerifierProgress \/ VerifyDuringCutover

RunStep == StreamToWriter \/ BinlogEventListener \/ StreamingEnds \/ WriterStep
           \/ FlushBinlogAndStopStreaming

Verified == stage = "finished" /\ UNCHANGED verificationVars

VerificationNext ==
    \/ ApplicationStep
    \/ RunStep
    \/ CutoverLock
    \/ VerifierStep
    \/ AbortRun
    \/ Verified

VerificationSpec == VerificationInit /\ [][VerificationNext]_verificationVars

(***************************************************************************)
(* The goroutines run when they can, and the CutoverLock callback returns. *)
(***************************************************************************)
FairVerificationSpec ==
    /\ VerificationSpec
    /\ WF_verificationVars(StreamToWriter \/ BinlogEventListener \/ StreamingEnds)
    /\ WF_verificationVars(WriterProgress)
    /\ WF_verificationVars(CutoverLock)
    /\ WF_verificationVars(FlushBinlogAndStopStreaming)
    /\ WF_verificationVars(VerifierStep)
    /\ WF_verificationVars(AbortRun)

----------------------------------------------------------------------------
\* Properties.

\* The variables hold what the fields of the verifier and its pools can hold.
VerificationTypeOK ==
    /\ DatabasesTypeOK
    /\ StreamerTypeOK
    /\ WriterTypeOK
    /\ stage \in {"copied", "scan", "reverify", "ready", "cutover", "finished"}
    /\ attachedAt \in 0..committed
    /\ notified \in attachedAt..committed
    /\ store \subseteq RowIds
    /\ scan \in [Tables -> {"queued", "open", "done"}]
    /\ scanLast \in [Tables -> Nat]
    /\ todo \subseteq SUBSET RowIds
    /\ jobs \subseteq Job
    /\ before \in Nat
    /\ iteration \in 0..MaxIterations
    /\ errored \in BOOLEAN
    /\ failed \in BOOLEAN
    /\ result \in {"none", "correct", "incorrect", "error"}

(***************************************************************************)
(* The replay will bring the row to its value on the source: the target    *)
(* has it as the source had it at a position the replay has not passed,    *)
(* and from that value on every change of the row finds the row it names.  *)
(***************************************************************************)
OnItsWay(r) == \E i \in exec..Len(binlog) : target[r] = versions[i][r]

ChangedIn(r, from, to) == \E i \in from + 1..to : binlog[i].row = r

\* The verifier looks at rows the source has, and rows with a change that it is told
\* of: every one on the source after the listener was added, and those from before
\* that the streamer had not taken up.
InScope(r) == Source[r] # NoRow \/ ChangedIn(r, attachedAt, Len(binlog))

\* The row will be compared, or compared again.
ToBeCompared(r) ==
    \/ stage = "copied"
    \/ stage = "scan" /\ scan[TableOf(r)] # "done" /\ Pk(r) > scanLast[TableOf(r)]
    \/ r \in store \cup UNION todo
    \/ \E j \in jobs : r \in j.rows
    \/ ChangedIn(r, notified, Len(binlog))

(***************************************************************************)
(* Comparing without locks, while the source changes and the target lags   *)
(* behind, loses sight of no difference: a row that the replay will not    *)
(* bring to its value on the source is in the store, on its way there or   *)
(* still to be compared (iterative_verifier.go, VerifyBeforeCutover, with  *)
(* the listener and the two sides of compareFingerprints).                 *)
(***************************************************************************)
DifferencesAreTracked ==
    ~errored /\ result = "none" /\ ~failed =>
        \A r \in RowIds : InScope(r) /\ ~OnItsWay(r) => ToBeCompared(r)

(***************************************************************************)
(* The result of VerifyDuringCutover tells whether every row in scope is   *)
(* the same on both sides; a failure is never a false alarm.               *)
(***************************************************************************)
ResultIsRight ==
    /\ result = "correct" => \A r \in RowIds : InScope(r) => target[r] = Source[r]
    /\ result = "incorrect" => target # Source

(***************************************************************************)
(* The verification comes to an end, however the writes to the source fill *)
(* the store again (reverifyUntilStoreIsSmallEnough).                      *)
(***************************************************************************)
VerificationEnds == <>(stage = "finished")
=============================================================================
