------------------------ MODULE ShardingFerryProofs ------------------------
(***************************************************************************)
(* Proofs about ShardingFerry, for all tables, keys, tenants, batch sizes  *)
(* and bounds: what the lock, the delta copy and the error handler         *)
(* guarantee when the tenant is unlocked on the target.                    *)
(***************************************************************************)
EXTENDS ShardingFerry, FiniteSetTheorems, WellFoundedInduction, TLAPS

\* Most leaves are first-order: Zenon is tried before the SMT solver.
USE ZenonT(5), SMTT(30)

----------------------------------------------------------------------------
\* The inductive invariant.

\* Who may be in Fatal, and where Run is then.
ErrorsInv ==
    /\ errorCount > 0 => \E g \in Goroutines : handling[g] = "dumping"
    /\ \A g \in Goroutines : handling[g] \in {"dumping", "returned"} => errorCount > 0
    /\ handling["main"] # "no" => main \in DOMAIN AfterError
    /\ handling["iterator"] # "no" => main \in {"copying", "delta", "primary_keys"}
    /\ ferryDone => /\ handling["streamer"] \in {"no", "returned"}
                    /\ handling["throttler"] \in {"no", "returned"}
    /\ DuringCutover => ferryDone
    /\ NoErrorIsPassed

\* What holds on the way from the lock to the delta copy, if no error is counted.
LockInv ==
    /\ \A i \in 1..Len(history) : WellFormed(history[i])
    /\ ~sourceIsReplica => replicated = Len(history)
    /\ Started /\ sourceIsReplica => runFerryFromReplica
    /\ errorCount = 0 =>
          /\ main \in {"lock", "disable", "flush"} /\ sourceIsReplica => waiterSet
          /\ main \in {"disable", "flush", "await", "stop", "join"} => cutover # "open"
          /\ main = "await" => masterPos = Len(history)
          /\ main \in {"stop", "join"} => replicated = Len(history)
    /\ SourceIsCurrent
    /\ cutover = "moved" => dead \/ main \in {"unlock", "finished"}

\* How far the delta copy has come, and what is known after it.
DeltaInv ==
    /\ main = "delta" /\ cursor[JoinedTable] = "unread" => lastPk[JoinedTable] = 0
    /\ main = "delta" /\ cursor[JoinedTable] = "open" =>
          /\ \A p \in Source.joined : p <= maxPk[JoinedTable]
          /\ \A p \in References(Source) : p <= lastPk[JoinedTable] => p \in target.joined
    /\ main = "delta" /\ cursor[JoinedTable] = "done" => References(Source) \subseteq target.joined
    /\ main \in {"verify", "load", "primary_keys", "once", "enable", "unlock"} => JoinedRowsArrived
    /\ main \in {"enable", "unlock"} =>
          target.tenant[ShardingValue] = Master.tenant[ShardingValue]
    /\ MovedIsComplete

----------------------------------------------------------------------------
\* Type correctness.

\* The server that is read and the master have contents of the right type.
LEMMA ServerType ==
    ASSUME ReplicationTypeOK
    PROVE  /\ Source \in Contents /\ Master \in Contents
           /\ Len(history) \in Nat \ {0} /\ replicated \in Nat \ {0}
           /\ replicated <= Len(history)
BY SMTT(30) DEF ReplicationTypeOK, Source, Master

\* The keys of a table are natural numbers.
LEMMA KeysType ==
    ASSUME NEW data \in Contents, NEW t \in AllTables
    PROVE  KeysOf(data, t) \subseteq Nat
BY ShardedTablesAssumption DEF KeysOf, Contents, AllTables

\* A batch is a set of keys of the table, none of them behind the cursor.
LEMMA BatchType ==
    ASSUME NEW data \in Contents, NEW t \in AllTables, NEW k \in Nat
    PROVE  /\ BuildSelect(data, t, k) \subseteq KeysOf(data, t)
           /\ BuildSelect(data, JoinedTable, k) \subseteq JoinedPks
<1>1. JoinedBatch(data, k) \subseteq data.joined
  BY DEF JoinedBatch
<1>2. PrimaryKeyBatch(data, k) \subseteq {p \in Tenants : data.tenant[p] # NoRow}
  BY ShardedTablesAssumption DEF PrimaryKeyBatch
<1>3. ShardedBatch(data, t, k) \subseteq {i \in JoinIds : data.join[<<t, i>>] # NoRow}
  BY DEF ShardedBatch, FirstKeys, OfTenant
<1>4. data.joined \subseteq JoinedPks
  BY DEF Contents
<1>5. JoinedTable # PrimaryKeyTable
  BY DEF JoinedTable, PrimaryKeyTable
<1> QED
  BY <1>1, <1>2, <1>3, <1>4, <1>5 DEF BuildSelect, KeysOf

\* Writing a batch keeps the type of the target.
LEMMA InsertIgnoreType ==
    ASSUME NEW data \in Contents, NEW to \in Contents, NEW t \in AllTables,
           NEW keys \in SUBSET KeysOf(data, t)
    PROVE  InsertIgnore(data, t, keys, to) \in Contents
<1>1. CASE t = PrimaryKeyTable
  BY <1>1 DEF InsertIgnore, Contents
<1>2. CASE t = JoinedTable
  BY <1>2 DEF InsertIgnore, Contents, KeysOf, JoinedTable, PrimaryKeyTable
<1>3. CASE t # JoinedTable /\ t # PrimaryKeyTable
  BY <1>3 DEF InsertIgnore, Contents
<1> QED
  BY <1>1, <1>2, <1>3

\* What a transaction may leave is of the right type (SourceReplication).
LEMMA ApplicationType ==
    ASSUME ReplicationTypeOK, ApplicationCommits
    PROVE  /\ ReplicationTypeOK' /\ replicated <= replicated'
           /\ cutover = "open" /\ cutover' = cutover
           /\ \E data \in Contents : WellFormed(data) /\ history' = Append(history, data)
<1> USE ServerType
<1>1. \E data \in Contents : Commit(data)
  <2>1. ASSUME NEW r \in JoinRows, NEW row \in JoinRow, WriteJoinRow(r, row)
        PROVE  \E data \in Contents : Commit(data)
    <3> DEFINE data == [Master EXCEPT !.join = [Master.join EXCEPT ![r] = row],
                                      !.joined = Master.joined \cup ({row.ref} \ {0})]
    <3>1. row.ref \in JoinedPks \cup {0}
      BY DEF JoinRow
    <3>2. data \in Contents
      BY <3>1 DEF Contents
    <3> QED
      BY <2>1, <3>2 DEF WriteJoinRow
  <2>2. ASSUME NEW r \in JoinRows, NEW gone \in SUBSET JoinedPks, DeleteJoinRow(r, gone)
        PROVE  \E data \in Contents : Commit(data)
    <3> DEFINE data == [Master EXCEPT !.join = [Master.join EXCEPT ![r] = NoRow],
                                      !.joined = Master.joined \ gone]
    <3>1. data \in Contents
      BY DEF Contents
    <3> QED
      BY <2>2, <3>1 DEF DeleteJoinRow
  <2>3. ASSUME NEW v \in Versions, UpdateTenant(v)
        PROVE  \E data \in Contents : Commit(data)
    <3> DEFINE data == [Master EXCEPT !.tenant = [Master.tenant EXCEPT ![ShardingValue] = v]]
    <3>1. data \in Contents
      BY DEF Contents
    <3> QED
      BY <2>3, <3>1 DEF UpdateTenant
  <2> QED
    BY <2>1, <2>2, <2>3 DEF ApplicationCommits
<1>2. PICK data \in Contents : Commit(data)
  BY <1>1
<1>3. history' \in Seq(Contents) /\ Len(history') = Len(history) + 1
  BY SMTT(30), <1>2 DEF Commit, ReplicationTypeOK
<1>4. ReplicationTypeOK' /\ replicated <= replicated'
  BY SMTT(30), <1>2, <1>3 DEF Commit, ReplicationTypeOK
<1> QED
  BY <1>2, <1>4 DEF Commit

\* Replaying the changes of a transaction keeps the type of the target.
LEMMA ReplayType ==
    ASSUME ShardingTypeOK, ReplayEvents
    PROVE  target' \in Contents /\ streamed' \in 0..replicated
<1>1. streamed \in Nat /\ streamed < replicated /\ replicated \in Nat
  BY SMTT(30), ServerType DEF ReplayEvents, ShardingTypeOK
<1>2. streamed' \in 0..replicated
  BY SMTT(30), <1>1 DEF ReplayEvents
<1>3. ASSUME NEW r \in JoinRows
      PROVE  target'.join[r] \in JoinRow \cup {NoRow}
  <2>1. history[streamed + 1] \in Contents
    BY SMTT(30), <1>1, ServerType DEF ShardingTypeOK, ReplicationTypeOK
  <2>2. /\ history[streamed + 1].join[r] \in JoinRow \cup {NoRow}
        /\ target.join[r] \in JoinRow \cup {NoRow}
    BY <2>1 DEF ShardingTypeOK, Contents
  <2> QED
    BY <2>2 DEF ReplayEvents, Replay, ShardingTypeOK, Contents
<1> QED
  BY <1>2, <1>3 DEF ReplayEvents, ShardingTypeOK, Contents

\* The steps of an iterator keep the types of its cursors and of the target.
LEMMA IteratorType ==
    ASSUME ShardingTypeOK, IteratorSteps
    PROVE  ShardingTypeOK'
<1> USE DEF replicationVars, throttlerVars, errorVars, runVars, ferryVars, verifierVars
<1>1. Source \in Contents
  BY ServerType DEF ShardingTypeOK
<1>2. CASE MaxPrimaryKeys
  <2>1. \A t \in AllTables : KeysOf(Source, t) \subseteq Nat
    BY <1>1, KeysType
  <2>2. CopiedTables \subseteq AllTables
    BY DEF CopiedTables, ApplicableTables, AllTables
  <2>3. maxPk' \in [AllTables -> Nat]
    BY SMTT(30), <1>2, <2>1, <2>2 DEF MaxPrimaryKeys
  <2>4. cursor' \in [AllTables -> {"unread", "open", "done"}]
    BY <1>2 DEF MaxPrimaryKeys, ShardingTypeOK
  <2> QED
    BY SMTT(30), <1>2, <2>3, <2>4 DEF MaxPrimaryKeys, ShardingTypeOK, ReplicationTypeOK,
         ThrottlerTypeOK, ErrorTypeOK
<1>3. ASSUME NEW t \in AllTables, IteratorStep(t)
      PROVE  ShardingTypeOK'
  <2>1. target' \in Contents /\ lastPk' \in [AllTables -> Nat]
    <3>1. CASE CopyBatch(t)
      <4> DEFINE batch == BuildSelect(Source, t, lastPk[t])
      <4>1. lastPk[t] \in Nat /\ target \in Contents
        BY DEF ShardingTypeOK
      <4>2. batch \subseteq KeysOf(Source, t) /\ batch \subseteq Nat
        BY <1>1, <4>1, BatchType, KeysType
      <4>3. InsertIgnore(Source, t, batch, target) \in Contents
        BY <1>1, <4>1, <4>2, InsertIgnoreType
      <4> QED
        BY SMTT(30), <3>1, <4>1, <4>2, <4>3 DEF CopyBatch, LastOfBatch, Closed, ShardingTypeOK
    <3>2. CASE CompleteTable(t)
      BY <3>2 DEF CompleteTable, Closed, ShardingTypeOK
    <3> QED
      BY <1>3, <3>1, <3>2 DEF IteratorStep
  <2>2. /\ cursor' \in [AllTables -> {"unread", "open", "done"}]
        /\ maxPk' \in [AllTables -> Nat]
    BY SMTT(30), <1>3 DEF IteratorStep, CopyBatch, CompleteTable, Closed, ShardingTypeOK
  <2> QED
    BY SMTT(30), <1>3, <2>1, <2>2 DEF IteratorStep, ShardingTypeOK, ReplicationTypeOK,
         ThrottlerTypeOK, ErrorTypeOK
<1>4. CASE IteratorGivesUp
  <2>1. ErrorTypeOK'
    BY <1>4 DEF IteratorGivesUp, FatalReturns, ShardingTypeOK, ErrorTypeOK
  <2>2. /\ cursor' \in [AllTables -> {"unread", "open", "done"}]
        /\ maxPk' \in [AllTables -> Nat] /\ lastPk' \in [AllTables -> Nat]
    BY <1>4 DEF IteratorGivesUp, ShardingTypeOK
  <2> QED
    BY SMTT(30), <1>4, <2>1, <2>2
       DEF IteratorGivesUp, ShardingTypeOK, ReplicationTypeOK, ThrottlerTypeOK
<1> QED
  BY <1>2, <1>3, <1>4 DEF IteratorSteps

\* The steps of Run keep the types.
LEMMA MainType ==
    ASSUME ShardingTypeOK, MainStep \/ \E p \in JoinedPks : Reverify(p)
    PROVE  ShardingTypeOK'
<1> USE DEF replicationVars, throttlerVars, errorVars, runVars, ferryVars, cursorVars,
            verifierVars, ShardingTypeOK, ReplicationTypeOK, ThrottlerTypeOK, ErrorTypeOK
<1>1. CASE Start
  BY SMTT(30), <1>1 DEF Start
<1>2. CASE WaitUntilRowCopyIsComplete \/ StartDeltaCopy \/ LoadPrimaryKeyTables
  <2>0. PICK t \in AllTables : Rewound(t)
    BY <1>2 DEF WaitUntilRowCopyIsComplete, StartDeltaCopy, LoadPrimaryKeyTables, AllTables
  <2>1. /\ cursor' \in [AllTables -> {"unread", "open", "done"}]
        /\ maxPk' \in [AllTables -> Nat] /\ lastPk' \in [AllTables -> Nat]
    BY <2>0 DEF Rewound
  <2>2. main' \in {"scanning", "delta", "primary_keys"}
    BY <1>2 DEF WaitUntilRowCopyIsComplete, StartDeltaCopy, LoadPrimaryKeyTables, Goes
  <2>3. CASE WaitUntilRowCopyIsComplete
    BY SMTT(30), <2>1, <2>2, <2>3 DEF WaitUntilRowCopyIsComplete, Goes
  <2>4. CASE StartDeltaCopy
    BY <2>1, <2>2, <2>4, ZenonT(30) DEF StartDeltaCopy, Goes
  <2>5. CASE LoadPrimaryKeyTables
    BY <2>1, <2>2, <2>5, ZenonT(30) DEF LoadPrimaryKeyTables, Goes
  <2> QED
    BY <1>2, <2>3, <2>4, <2>5
<1>3. CASE ScanFetch
  <2> DEFINE batch == BuildSelect(Source, JoinedTable, lastPk[JoinedTable])
  <2>1. Source \in Contents /\ JoinedTable \in AllTables /\ lastPk[JoinedTable] \in Nat
    BY ServerType DEF AllTables
  <2>2. batch \subseteq JoinedPks /\ batch \subseteq Nat
    BY <2>1, BatchType, ShardedTablesAssumption
  <2>3. lastPk' \in [AllTables -> Nat]
    BY SMTT(30), <1>3, <2>2 DEF ScanFetch, Closed, LastOfBatch
  <2>4. /\ cursor' \in [AllTables -> {"unread", "open", "done"}]
        /\ maxPk' \in [AllTables -> Nat]
        /\ scanned' \subseteq JoinedPks
    BY SMTT(30), <1>3, <2>2 DEF ScanFetch, Closed
  <2> QED
    BY <1>3, <2>3, <2>4, ZenonT(30) DEF ScanFetch
<1>4. CASE ScanCompare \/ \E p \in JoinedPks : Reverify(p)
  BY SMTT(30), <1>4 DEF ScanCompare, Reverify
<1>5. CASE ScanEnds \/ ReverifyEnds \/ WaitForThrottle \/ WaitUntilBinlogStreamerCatchesUp
  BY SMTT(30), <1>5
     DEF ScanEnds, ReverifyEnds, WaitForThrottle, WaitUntilBinlogStreamerCatchesUp, Goes
<1>6. CASE InitializeWaitUntilReplica \/ DisableThrottler \/ EnableThrottler
  <2>1. waiterSet' \in BOOLEAN /\ disabled' \in BOOLEAN
    BY <1>6 DEF InitializeWaitUntilReplica, DisableThrottler, EnableThrottler, SetDisabled
  <2>2. main' \in {"lock", "flush", "unlock"}
    BY <1>6 DEF InitializeWaitUntilReplica, DisableThrottler, EnableThrottler, Goes
  <2> QED
    BY SMTT(30), <1>6, <2>1, <2>2 DEF InitializeWaitUntilReplica, DisableThrottler, EnableThrottler,
         SetDisabled, Goes
<1>7. CASE CutoverLock \/ CutoverUnlock
  BY SMTT(30), <1>7 DEF CutoverLock, CutoverUnlock, SetCutover, Goes
<1>8. CASE Flush \/ ReplicaIsCaughtUp
  BY SMTT(30), <1>8 DEF Flush, ReplicaIsCaughtUp, ReadMasterPosition, Goes
<1>9. CASE FlushAndStop
  BY SMTT(30), <1>9 DEF FlushAndStop, Goes
<1>10. CASE DeltaCopyEnds \/ PrimaryKeyCopyEnds \/ VerifyOnce
  BY SMTT(30), <1>10 DEF DeltaCopyEnds, PrimaryKeyCopyEnds, VerifyOnce, Goes
<1>11. CASE VerifyDuringCutover
  BY SMTT(30), <1>11 DEF VerifyDuringCutover, Goes
<1>12. CASE VerificationFails \/ VerifyOnceFails
  BY SMTT(30), <1>12 DEF VerificationFails, VerifyOnceFails, Fatal
<1>13. CASE MainGoesOn
  <2>1. main' \in {"throttle", "lock", "disable", "join", "load", "enable", "finished"}
    BY SMTT(30), <1>13 DEF MainGoesOn, AfterError
  <2>2. ErrorTypeOK'
    BY <1>13 DEF MainGoesOn, FatalReturns
  <2> QED
    BY SMTT(30), <1>13, <2>1, <2>2 DEF MainGoesOn
<1> QED
  BY <1>1, <1>2, <1>3, <1>4, <1>5, <1>6, <1>7, <1>8, <1>9, <1>10, <1>11, <1>12, <1>13, ZenonT(30)
    DEF MainStep

\* Type correctness of every step.
LEMMA TypeStep ==
    ASSUME ShardingTypeOK, [Next]_vars
    PROVE  ShardingTypeOK'
<1> USE DEF replicationVars, throttlerVars, errorVars, runVars, ferryVars, cursorVars,
            verifierVars
<1>1. CASE Application
  <2>1. ReplicationTypeOK' /\ replicated <= replicated'
    BY <1>1, ApplicationType DEF Application, ShardingTypeOK
  <2>2. streamed' \in 0..replicated' /\ stopPos' \in 0..replicated'
    BY SMTT(30), <1>1, <2>1 DEF Application, ShardingTypeOK, ReplicationTypeOK
  <2> QED
    BY SMTT(30), <1>1, <2>1, <2>2 DEF Application, ShardingTypeOK, ThrottlerTypeOK, ErrorTypeOK
<1>2. CASE Replication
  <2>1. ReplicationTypeOK' /\ replicated' = replicated + 1
    BY SMTT(30), <1>2 DEF Replication, Replicate, ShardingTypeOK, ReplicationTypeOK
  <2>2. streamed' \in 0..replicated' /\ stopPos' \in 0..replicated'
    BY SMTT(30), <1>2, <2>1 DEF Replication, ShardingTypeOK, ReplicationTypeOK
  <2> QED
    BY SMTT(30), <1>2, <2>1, <2>2 DEF Replication, ShardingTypeOK, ThrottlerTypeOK, ErrorTypeOK
<1>3. CASE MainStep \/ \E p \in JoinedPks : Reverify(p)
  BY <1>3, MainType
<1>4. CASE ReplayEvents
  BY SMTT(30), <1>4, ReplayType
     DEF ReplayEvents, ShardingTypeOK, ReplicationTypeOK, ThrottlerTypeOK,
       ErrorTypeOK
<1>6. CASE FerryReturns
  <2>1. ferryDone' \in BOOLEAN
    BY <1>6 DEF FerryReturns
  <2> QED
    BY SMTT(30), <1>6, <2>1
       DEF FerryReturns, ShardingTypeOK, ReplicationTypeOK, ThrottlerTypeOK, ErrorTypeOK
<1>7. CASE ThrottlerUpdatesLag
  BY SMTT(30), <1>7 DEF ThrottlerUpdatesLag, UpdateLag, ShardingTypeOK, ReplicationTypeOK,
       ThrottlerTypeOK, ErrorTypeOK
<1>8. CASE IteratorSteps
  BY <1>8, IteratorType
<1>9. CASE MainFails \/ FilterFails \/ StreamerFails \/ ThrottlerFails \/ IteratorFails
  <2>1. \E g \in Goroutines : Fatal(g)
    BY <1>9 DEF MainFails, FilterFails, StreamerFails, ThrottlerFails, IteratorFails, Goroutines
  <2>2. ErrorTypeOK'
    BY <2>1 DEF Fatal, ShardingTypeOK, ErrorTypeOK
  <2> QED
    BY SMTT(30), <1>9, <2>2
       DEF MainFails, FilterFails, StreamerFails, ThrottlerFails, IteratorFails,
         ShardingTypeOK, ReplicationTypeOK, ThrottlerTypeOK
<1>10. CASE CutoverLockFails \/ CutoverUnlockFails
  BY SMTT(30), <1>10 DEF CutoverLockFails, CutoverUnlockFails, SetCutover, Fatal, ShardingTypeOK,
       ReplicationTypeOK, ThrottlerTypeOK, ErrorTypeOK
<1>11. ASSUME NEW g \in Goroutines, ErrorStep(g)
       PROVE  ShardingTypeOK'
  <2>1. CASE CountError(g) /\ UNCHANGED <<replicationVars, throttlerVars, runVars, ferryVars,
                                          cursorVars, verifierVars, target>>
    <3>1. ErrorTypeOK'
      BY SMTT(30), <2>1 DEF CountError, ShardingTypeOK, ErrorTypeOK
    <3> QED
      BY SMTT(30), <2>1, <3>1 DEF ShardingTypeOK, ReplicationTypeOK, ThrottlerTypeOK
  <2>2. CASE Panic(g) /\ Forget /\ UNCHANGED <<replicationVars, runFerryFromReplica, target>>
    <3>1. ErrorTypeOK'
      BY <2>2 DEF Panic, ErrorTypeOK
    <3>2. ReplicationTypeOK' /\ ThrottlerTypeOK'
      BY <2>2 DEF Forget, ShardingTypeOK, ReplicationTypeOK, ThrottlerTypeOK
    <3>3. streamed' \in 0..replicated' /\ stopPos' \in 0..replicated'
      BY SMTT(30), <2>2 DEF Forget, ShardingTypeOK, ReplicationTypeOK
    <3>4. waiterSet' \in BOOLEAN /\ ferryDone' \in BOOLEAN
      BY <2>2 DEF Forget
    <3> QED
      BY <2>2, <3>1, <3>2, <3>3, <3>4 DEF Forget, ShardingTypeOK
  <2> QED
    BY <1>11, <2>1, <2>2 DEF ErrorStep
<1>12. CASE UNCHANGED vars
  BY SMTT(30), <1>12 DEF vars, ShardingTypeOK, ReplicationTypeOK, ThrottlerTypeOK, ErrorTypeOK
<1> QED
  BY <1>1, <1>2, <1>3, <1>4, <1>6, <1>7, <1>8, <1>9, <1>10, <1>11, <1>12
    DEF Next, StreamerStep, Failure

\* The initial states have the right types.
LEMMA TypeInit ==
    ASSUME Init
    PROVE  ShardingTypeOK
<1>1. ReplicationTypeOK
  <2>1. PICK data \in Contents : history = <<data>>
    BY SourceReplicationAssumption DEF Init, ReplicationInit
  <2>2. history \in Seq(Contents) /\ Len(history) = 1
    BY SMTT(30), <2>1
  <2>3. replicated \in 1..Len(history) /\ masterPos \in 0..Len(history)
    BY SMTT(30), <2>2 DEF Init, ReplicationInit
  <2> QED
    BY <2>2, <2>3 DEF Init, ReplicationInit, ReplicationTypeOK
<1>2. ThrottlerTypeOK /\ ErrorTypeOK
  BY DEF Init, ThrottlerInit, ErrorInit, ThrottlerTypeOK, ErrorTypeOK
<1>3. target \in Contents
  BY ShardingFerryAssumption DEF Init
<1>4. runFerryFromReplica \in BOOLEAN
  BY <1>1 DEF Init, ReplicationTypeOK
<1>5. streamed \in 0..replicated /\ stopPos \in 0..replicated
  BY SMTT(30) DEF Init, ReplicationInit
<1>6. /\ cursor \in [AllTables -> {"unread", "open", "done"}]
      /\ maxPk \in [AllTables -> Nat] /\ lastPk \in [AllTables -> Nat]
  BY DEF Init
<1>7. waiterSet \in BOOLEAN /\ ferryDone \in BOOLEAN
  BY DEF Init
<1> QED
  BY <1>1, <1>2, <1>3, <1>4, <1>5, <1>6, <1>7 DEF Init, ShardingTypeOK

----------------------------------------------------------------------------
\* Errors.

\* A step that leaves the error handler and the place of Run alone.
LEMMA ErrorsFrame ==
    ASSUME ErrorsInv, UNCHANGED <<main, handling, errorCount, ferryDone>>
    PROVE  ErrorsInv'
BY DEF ErrorsInv, NoErrorIsPassed, DuringCutover

\* Run goes on to its next step.
LEMMA ErrorsGoes ==
    ASSUME ShardingTypeOK, ErrorsInv, NEW from, NEW to, Goes(from, to), ferryDone' = ferryDone,
           from \in {"copying", "delta", "primary_keys"} => handling["iterator"] = "no",
           DuringCutover' => DuringCutover \/ (main = "join" /\ ferryDone)
    PROVE  ErrorsInv'
<1>1. /\ main = from /\ main' = to /\ handling["main"] = "no" /\ handling["iterator"] = "no"
      /\ handling' = handling /\ errorCount' = errorCount
  BY DEF Goes, Alive, ErrorsInv, errorVars
<1>2. errorCount \in Nat
  BY DEF ShardingTypeOK, ErrorTypeOK
<1>3. CASE main = "join" /\ ferryDone
  <2>1. \A g \in Goroutines : handling[g] # "dumping"
    BY <1>1, <1>3 DEF ErrorsInv, Goroutines
  <2>2. errorCount = 0
    BY SMTT(30), <1>2, <2>1 DEF ErrorsInv
  <2>3. handling["streamer"] = "no" /\ handling["throttler"] = "no"
    BY SMTT(30), <1>3, <2>2 DEF ErrorsInv, Goroutines
  <2> QED
    BY SMTT(30), <1>1, <1>3, <2>2, <2>3 DEF ErrorsInv, NoErrorIsPassed, DuringCutover
<1>4. CASE ~DuringCutover'
  BY <1>1, <1>4 DEF ErrorsInv, NoErrorIsPassed
<1>5. CASE DuringCutover
  BY <1>1, <1>5 DEF ErrorsInv, NoErrorIsPassed
<1> QED
  BY <1>3, <1>4, <1>5

\* A goroutine calls Fatal.
LEMMA ErrorsFatal ==
    ASSUME ShardingTypeOK, ErrorsInv, NEW g \in Goroutines, Fatal(g), main' = main,
           ferryDone' = ferryDone,
           g = "main" => main \in DOMAIN AfterError,
           g = "iterator" => main \in {"copying", "delta", "primary_keys"},
           g \in {"streamer", "throttler"} => ~ferryDone
    PROVE  ErrorsInv'
<1>1. /\ handling \in [Goroutines -> {"no", "posting", "dumping", "returned"}]
      /\ handling[g] = "no" /\ handling' = [handling EXCEPT ![g] = "posting"]
      /\ errorCount' = errorCount
  BY DEF Fatal, Alive, ShardingTypeOK, ErrorTypeOK
<1>2. /\ errorCount' > 0 => \E h \in Goroutines : handling'[h] = "dumping"
      /\ \A h \in Goroutines : handling'[h] \in {"dumping", "returned"} => errorCount' > 0
  BY <1>1 DEF ErrorsInv
<1>3. /\ handling'["main"] # "no" => main' \in DOMAIN AfterError
      /\ handling'["iterator"] # "no" => main' \in {"copying", "delta", "primary_keys"}
  BY <1>1 DEF ErrorsInv, Goroutines
<1>4. ferryDone' => /\ handling'["streamer"] \in {"no", "returned"}
                    /\ handling'["throttler"] \in {"no", "returned"}
  BY <1>1 DEF ErrorsInv, Goroutines
<1>5. DuringCutover' => DuringCutover /\ ferryDone
  BY DEF ErrorsInv, DuringCutover
<1>6. NoErrorIsPassed'
  <2> SUFFICES ASSUME DuringCutover' PROVE NoErrorIsPassed'
    BY DEF NoErrorIsPassed
  <2>1. g \in {"main", "iterator"}
    BY <1>5 DEF Goroutines
  <2>2. /\ handling["streamer"] = "no" /\ handling["throttler"] = "no"
        /\ errorCount > 0 => handling["main"] = "dumping" \/ handling["iterator"] = "dumping"
    BY <1>5 DEF ErrorsInv, NoErrorIsPassed
  <2>3. handling'["streamer"] = "no" /\ handling'["throttler"] = "no"
    BY <1>1, <2>1, <2>2 DEF Goroutines
  <2>4. errorCount' > 0 => handling'["main"] = "dumping" \/ handling'["iterator"] = "dumping"
    BY <1>1, <2>1, <2>2 DEF Goroutines
  <2>5. main' # "copying"
    BY DEF DuringCutover
  <2> QED
    BY <1>3, <2>3, <2>4, <2>5 DEF NoErrorIsPassed
<1> QED
  BY <1>2, <1>3, <1>4, <1>5, <1>6 DEF ErrorsInv

\* From the delta copy on Fatal does not return.
LEMMA NoReturnDuringCutover ==
    ASSUME ShardingTypeOK, ErrorsInv, DuringCutover
    PROVE  \A g \in Goroutines : handling[g] # "returned"
<1>1. errorCount \in Nat
  BY DEF ShardingTypeOK, ErrorTypeOK
<1>2. handling["streamer"] = "no" /\ handling["throttler"] = "no"
  BY DEF ErrorsInv, NoErrorIsPassed
<1>3. ~ (handling["main"] # "no" /\ handling["iterator"] # "no")
  BY DEF ErrorsInv, NoErrorIsPassed, AfterError
<1>4. \A g \in Goroutines :
        handling[g] = "returned" => handling["main"] = "dumping" \/ handling["iterator"] = "dumping"
  BY <1>1 DEF ErrorsInv, NoErrorIsPassed
<1> QED
  BY <1>2, <1>3, <1>4 DEF Goroutines

\* Where Run goes on when Fatal has returned to it before the cutover.
LEMMA GoesOnBeforeCutover ==
    ASSUME MainGoesOn, ~DuringCutover
    PROVE  Started /\ ~DuringCutover' /\ main' # "finished"
<1>1. main \in {"scanning", "reverifying", "connect", "lock", "flush", "await", "stop"}
  BY DEF MainGoesOn, AfterError, DuringCutover
<1>2. main' = AfterError[main]
  BY DEF MainGoesOn
<1>3. /\ AfterError["scanning"] = "throttle" /\ AfterError["reverifying"] = "throttle"
      /\ AfterError["connect"] = "lock" /\ AfterError["lock"] = "disable"
  BY DEF AfterError
<1>4. AfterError["flush"] = "join" /\ AfterError["await"] = "join" /\ AfterError["stop"] = "join"
  BY DEF AfterError
<1>5. main' \in {"throttle", "lock", "disable", "join"}
  BY <1>1, <1>2, <1>3, <1>4
<1> QED
  BY <1>1, <1>5 DEF DuringCutover, Started

\* An error is counted.
LEMMA ErrorsCount ==
    ASSUME ShardingTypeOK, ErrorsInv, NEW g \in Goroutines, CountError(g),
           UNCHANGED <<main, ferryDone>>
    PROVE  ErrorsInv'
<1>1. /\ handling \in [Goroutines -> {"no", "posting", "dumping", "returned"}]
      /\ handling[g] = "posting" /\ errorCount \in Nat /\ errorCount' = errorCount + 1
      /\ handling' = [handling EXCEPT ![g] = IF errorCount' > 1 THEN "returned" ELSE "dumping"]
  BY DEF CountError, ShardingTypeOK, ErrorTypeOK
<1>2. /\ \E h \in Goroutines : handling'[h] = "dumping"
      /\ errorCount' > 0
  <2>1. CASE errorCount = 0
    BY SMTT(30), <1>1, <2>1
  <2>2. CASE errorCount > 0
    <3>1. PICK h \in Goroutines : handling[h] = "dumping"
      BY <2>2 DEF ErrorsInv
    <3>2. h # g /\ handling'[h] = "dumping"
      BY <1>1, <3>1
    <3> QED
      BY SMTT(30), <1>1, <2>2, <3>2
  <2> QED
    BY SMTT(30), <1>1, <2>1, <2>2
<1>3. \A h \in Goroutines : h # g => handling'[h] = handling[h]
  BY <1>1
<1>4. /\ handling'["main"] # "no" => handling["main"] # "no"
      /\ handling'["iterator"] # "no" => handling["iterator"] # "no"
  BY <1>1, <1>3 DEF Goroutines
<1>5. ferryDone' => /\ handling'["streamer"] \in {"no", "returned"}
                    /\ handling'["throttler"] \in {"no", "returned"}
  BY <1>1, <1>3 DEF ErrorsInv, Goroutines
<1>6. DuringCutover' => DuringCutover
  BY DEF DuringCutover
<1>7. NoErrorIsPassed'
  <2> SUFFICES ASSUME DuringCutover' PROVE NoErrorIsPassed'
    BY DEF NoErrorIsPassed
  <2>1. handling["streamer"] = "no" /\ handling["throttler"] = "no"
    BY <1>6 DEF ErrorsInv, NoErrorIsPassed
  <2>2. handling'["streamer"] = "no" /\ handling'["throttler"] = "no"
    BY <1>1, <1>3, <2>1 DEF Goroutines
  <2>3. handling'["main"] = "dumping" \/ handling'["iterator"] = "dumping"
    BY <1>2, <2>2 DEF Goroutines
  <2>4. handling'["iterator"] # "no" => main' \in {"delta", "primary_keys"}
    BY <1>4, <1>6 DEF ErrorsInv, NoErrorIsPassed
  <2> QED
    BY <2>2, <2>3, <2>4 DEF NoErrorIsPassed
<1> QED
  BY <1>2, <1>4, <1>5, <1>6, <1>7 DEF ErrorsInv

\* Fatal returns to a caller that goes on.
LEMMA ErrorsReturn ==
    ASSUME ShardingTypeOK, ErrorsInv, ferryDone' = ferryDone,
           \/ FatalReturns("iterator") /\ main' = main
           \/ FatalReturns("main") /\ main \in DOMAIN AfterError /\ main' = AfterError[main]
    PROVE  ErrorsInv'
<1>1. PICK g \in {"main", "iterator"} : FatalReturns(g)
  OBVIOUS
<1>2. /\ handling \in [Goroutines -> {"no", "posting", "dumping", "returned"}]
      /\ g \in Goroutines /\ handling[g] = "returned" /\ errorCount' = errorCount
      /\ handling' = [handling EXCEPT ![g] = "no"]
  BY <1>1 DEF FatalReturns, ShardingTypeOK, ErrorTypeOK, Goroutines
<1>3. ~DuringCutover
  BY <1>2, NoReturnDuringCutover
<1>4. ~DuringCutover'
  BY SMTT(30), <1>3 DEF DuringCutover, AfterError
<1>5. \A h \in Goroutines : h # g => handling'[h] = handling[h]
  BY <1>2
<1>6. /\ handling'["main"] # "no" => handling["main"] # "no" /\ main' = main
      /\ handling'["iterator"] # "no" => handling["iterator"] # "no"
  BY <1>2, <1>5 DEF Goroutines, FatalReturns, ShardingTypeOK, ErrorTypeOK
<1>7. handling'["iterator"] # "no" => main' \in {"copying", "delta", "primary_keys"}
  BY <1>2, <1>5, <1>6 DEF ErrorsInv, AfterError, Goroutines, FatalReturns, ShardingTypeOK,
       ErrorTypeOK
<1>8. /\ errorCount' > 0 => \E h \in Goroutines : handling'[h] = "dumping"
      /\ \A h \in Goroutines : handling'[h] \in {"dumping", "returned"} => errorCount' > 0
  BY <1>2, <1>5 DEF ErrorsInv
<1>9. ferryDone' => /\ handling'["streamer"] \in {"no", "returned"}
                    /\ handling'["throttler"] \in {"no", "returned"}
  BY <1>1, <1>5 DEF ErrorsInv, Goroutines
<1> QED
  BY <1>4, <1>6, <1>7, <1>8, <1>9 DEF ErrorsInv, NoErrorIsPassed

\* Every step keeps the invariant on errors.
LEMMA ErrorsStep ==
    ASSUME ShardingTypeOK, ErrorsInv, [Next]_vars
    PROVE  ErrorsInv'
<1> USE DEF runVars, ferryVars, errorVars
<1>1. CASE \/ Application \/ Replication \/ ReplayEvents \/ ThrottlerUpdatesLag
           \/ MaxPrimaryKeys \/ (\E t \in AllTables : IteratorStep(t))
           \/ (\E p \in JoinedPks : Reverify(p)) \/ ScanFetch \/ ScanCompare
  <2>1. UNCHANGED <<main, handling, errorCount, ferryDone>>
    BY <1>1 DEF Application, Replication, ReplayEvents, ThrottlerUpdatesLag, MaxPrimaryKeys,
         IteratorStep, Reverify, ScanFetch, ScanCompare
  <2> QED
    BY <2>1, ErrorsFrame
<1>2. CASE Start
  BY <1>2 DEF Start, ErrorsInv, NoErrorIsPassed, DuringCutover, AfterError
<1>3. CASE \/ ScanEnds \/ ReverifyEnds \/ WaitForThrottle \/ WaitUntilBinlogStreamerCatchesUp
           \/ InitializeWaitUntilReplica \/ CutoverLock \/ DisableThrottler
           \/ Flush \/ ReplicaIsCaughtUp \/ FlushAndStop
  <2>1. PICK from, to : /\ Goes(from, to) /\ from \notin {"copying", "delta", "primary_keys"}
                        /\ to \in {"reverifying", "throttle", "catch_up", "connect", "lock",
                                   "disable", "flush", "await", "stop", "join"}
    BY <1>3 DEF ScanEnds, ReverifyEnds, WaitForThrottle, WaitUntilBinlogStreamerCatchesUp,
         InitializeWaitUntilReplica, CutoverLock, DisableThrottler, Flush, ReplicaIsCaughtUp,
         FlushAndStop
  <2>2. ferryDone' = ferryDone
    BY <1>3 DEF ScanEnds, ReverifyEnds, WaitForThrottle, WaitUntilBinlogStreamerCatchesUp,
         InitializeWaitUntilReplica, CutoverLock, DisableThrottler, Flush, ReplicaIsCaughtUp,
         FlushAndStop
  <2>3. ~DuringCutover'
    BY <2>1 DEF Goes, DuringCutover
  <2> QED
    BY <2>1, <2>2, <2>3, ErrorsGoes, ZenonT(30)
<1>4. CASE \/ WaitUntilRowCopyIsComplete \/ DeltaCopyEnds \/ PrimaryKeyCopyEnds
           \/ StartDeltaCopy \/ VerifyDuringCutover \/ LoadPrimaryKeyTables \/ VerifyOnce
           \/ EnableThrottler \/ CutoverUnlock
  <2>1. PICK from, to :
          /\ Goes(from, to)
          /\ from \in {"copying", "delta", "primary_keys"} => handling["iterator"] = "no"
          /\ \/ from = "copying" /\ to = "scanning"
             \/ from = "unlock" /\ to = "finished"
             \/ from = "join" /\ ferryDone
             \/ from \in {"delta", "verify", "load", "primary_keys", "once", "enable"}
    BY <1>4 DEF WaitUntilRowCopyIsComplete, DeltaCopyEnds, PrimaryKeyCopyEnds, StartDeltaCopy,
         VerifyDuringCutover, LoadPrimaryKeyTables, VerifyOnce, EnableThrottler, CutoverUnlock,
         Alive
  <2>2. ferryDone' = ferryDone
    BY <1>4 DEF WaitUntilRowCopyIsComplete, DeltaCopyEnds, PrimaryKeyCopyEnds, StartDeltaCopy,
         VerifyDuringCutover, LoadPrimaryKeyTables, VerifyOnce, EnableThrottler, CutoverUnlock
  <2>3. DuringCutover' => DuringCutover \/ (main = "join" /\ ferryDone)
    BY <2>1 DEF Goes, DuringCutover
  <2> QED
    BY <2>1, <2>2, <2>3, ErrorsGoes
<1>5. CASE MainFails \/ CutoverLockFails \/ CutoverUnlockFails \/ VerificationFails \/ VerifyOnceFails
  <2>1. Fatal("main") /\ main \in DOMAIN AfterError /\ UNCHANGED <<main, ferryDone>>
    BY <1>5 DEF MainFails, CutoverLockFails, CutoverUnlockFails, VerificationFails,
         VerifyOnceFails, AfterError
  <2> QED
    BY <2>1, ErrorsFatal DEF Goroutines
<1>6. CASE FilterFails \/ StreamerFails \/ ThrottlerFails
  <2>1. PICK g \in {"streamer", "throttler"} : Fatal(g)
    BY <1>6 DEF FilterFails, StreamerFails, ThrottlerFails
  <2>2. ~ferryDone /\ UNCHANGED <<main, ferryDone>>
    BY <1>6 DEF FilterFails, StreamerFails, ThrottlerFails, Streaming
  <2> QED
    BY <2>1, <2>2, ErrorsFatal DEF Goroutines
<1>7. CASE IteratorFails
  <2>1. main \in {"copying", "delta", "primary_keys"}
    BY <1>7 DEF IteratorFails, CopyIsDone, CopiedTables
  <2>2. Fatal("iterator") /\ UNCHANGED <<main, ferryDone>>
    BY <1>7 DEF IteratorFails
  <2> QED
    BY <2>1, <2>2, ErrorsFatal DEF Goroutines
<1>8. CASE IteratorGivesUp \/ MainGoesOn
  BY <1>8, ErrorsReturn DEF IteratorGivesUp, MainGoesOn
<1>9. CASE FerryReturns
  <2>1. /\ handling["streamer"] \in {"no", "returned"}
        /\ handling["throttler"] \in {"no", "returned"}
        /\ UNCHANGED <<main, handling, errorCount>> /\ ferryDone' = TRUE
    BY <1>9 DEF FerryReturns
  <2> QED
    BY <2>1 DEF ErrorsInv, NoErrorIsPassed, DuringCutover
<1>10. ASSUME NEW g \in Goroutines, ErrorStep(g)
       PROVE  ErrorsInv'
  <2>1. CASE CountError(g) /\ UNCHANGED <<runVars, ferryVars>>
    BY <2>1, ErrorsCount
  <2>2. CASE Panic(g) /\ Forget
    <3>1. /\ handling' = [h \in Goroutines |-> "no"] /\ errorCount' = 0
          /\ main' = "start" /\ ferryDone' = FALSE
      BY <2>2 DEF Panic, Forget
    <3> QED
      BY SMTT(30), <3>1 DEF ErrorsInv, NoErrorIsPassed, DuringCutover, Goroutines
  <2> QED
    BY <1>10, <2>1, <2>2 DEF ErrorStep
<1>11. CASE UNCHANGED vars
  BY <1>11, ErrorsFrame DEF vars
<1> QED
  BY <1>1, <1>2, <1>3, <1>4, <1>5, <1>6, <1>7, <1>8, <1>9, <1>10, <1>11
    DEF Next, MainStep, StreamerStep, IteratorSteps, Failure

----------------------------------------------------------------------------
\* The lock and the replica.

\* When Run comes to the delta copy, no error has been counted.
LEMMA NoErrorAtJoin ==
    ASSUME ShardingTypeOK, ErrorsInv, main = "join", ferryDone, Alive("main")
    PROVE  errorCount = 0
<1>1. \A g \in Goroutines : handling[g] # "dumping"
  BY DEF ErrorsInv, Goroutines, Alive
<1> QED
  BY SMTT(30), <1>1 DEF ErrorsInv, ShardingTypeOK, ErrorTypeOK

\* A step that leaves the servers, the lock and the place of Run alone.
LEMMA LockFrame ==
    ASSUME LockInv, UNCHANGED <<replicationVars, runVars, errorCount, dead>>
    PROVE  LockInv'
BY DEF LockInv, SourceIsCurrent, DuringCutover, Started, replicationVars, runVars

\* A transaction on the master, which needs the tenant to be open.
LEMMA LockApplication ==
    ASSUME ShardingTypeOK, LockInv, Application
    PROVE  LockInv'
<1>1. /\ ReplicationTypeOK /\ cutover = "open" /\ cutover' = cutover
      /\ UNCHANGED <<runVars, errorCount, dead>>
  BY ApplicationType DEF Application, ShardingTypeOK, errorVars
<1>2. PICK data \in Contents : WellFormed(data) /\ history' = Append(history, data)
  BY <1>1, ApplicationType DEF Application
<1>3. /\ history \in Seq(Contents) /\ Len(history') = Len(history) + 1 /\ Len(history) \in Nat
      /\ history'[Len(history) + 1] = data
      /\ \A i \in 1..Len(history) : history'[i] = history[i]
  BY SMTT(30), <1>1, <1>2 DEF ReplicationTypeOK
<1>4. \A i \in 1..Len(history') : WellFormed(history'[i])
  BY SMTT(30), <1>2, <1>3 DEF LockInv
<1>5. /\ sourceIsReplica' = sourceIsReplica
      /\ ~sourceIsReplica => replicated' = Len(history')
  BY <1>3 DEF Application, ApplicationCommits, WriteJoinRow, DeleteJoinRow, UpdateTenant, Commit
<1>6. ~DuringCutover /\ ~DuringCutover'
  BY <1>1 DEF LockInv, SourceIsCurrent, DuringCutover, runVars
<1> QED
  BY <1>1, <1>4, <1>5, <1>6 DEF LockInv, SourceIsCurrent, Started, runVars

\* The steps of Run up to the delta copy.
LEMMA LockMain ==
    ASSUME ShardingTypeOK, ErrorsInv, LockInv,
           \/ Start \/ WaitUntilRowCopyIsComplete \/ ScanEnds \/ ReverifyEnds
           \/ WaitForThrottle \/ WaitUntilBinlogStreamerCatchesUp \/ InitializeWaitUntilReplica
           \/ CutoverLock \/ DisableThrottler \/ Flush \/ ReplicaIsCaughtUp \/ FlushAndStop
           \/ StartDeltaCopy
    PROVE  LockInv'
<1> USE DEF replicationVars, throttlerVars, errorVars, runVars, ferryVars, LockInv,
            SourceIsCurrent, DuringCutover, Started
<1>1. CASE Start
  BY <1>1 DEF Start, SanityCheckReplicationConfig
<1>2. CASE WaitUntilRowCopyIsComplete \/ ScanEnds \/ ReverifyEnds \/ WaitForThrottle
  <2>1. CASE WaitUntilRowCopyIsComplete
    BY <2>1 DEF WaitUntilRowCopyIsComplete, Goes
  <2>2. CASE ScanEnds
    BY <2>2 DEF ScanEnds, Goes
  <2>3. CASE ReverifyEnds
    BY <2>3 DEF ReverifyEnds, Goes
  <2>4. CASE WaitForThrottle
    BY <2>4 DEF WaitForThrottle, Goes
  <2> QED
    BY <1>2, <2>1, <2>2, <2>3, <2>4, ZenonT(30)
<1>3. CASE WaitUntilBinlogStreamerCatchesUp
  BY <1>3 DEF WaitUntilBinlogStreamerCatchesUp, Goes
<1>4. CASE InitializeWaitUntilReplica
  BY <1>4 DEF InitializeWaitUntilReplica, Goes
<1>5. CASE CutoverLock
  BY <1>5 DEF CutoverLock, SetCutover, Goes
<1>6. CASE DisableThrottler
  BY <1>6 DEF DisableThrottler, Goes
<1>7. CASE Flush
  BY SMTT(30), <1>7 DEF Flush, ReadMasterPosition, Goes
<1>8. CASE ReplicaIsCaughtUp
  <2>1. replicated \in 1..Len(history) /\ Len(history) \in Nat
    BY SMTT(30) DEF ShardingTypeOK, ReplicationTypeOK
  <2>2. masterPos = Len(history) => replicated = Len(history)
    BY SMTT(30), <1>8, <2>1 DEF ReplicaIsCaughtUp, IsCaughtUp
  <2> QED
    BY <1>8, <2>2 DEF ReplicaIsCaughtUp, Goes
<1>9. CASE FlushAndStop
  BY <1>9 DEF FlushAndStop, Goes
<1>10. CASE StartDeltaCopy
  <2>1. errorCount = 0 /\ main = "join"
    BY <1>10, NoErrorAtJoin DEF StartDeltaCopy, Goes
  <2> QED
    BY <1>10, <2>1 DEF StartDeltaCopy, Goes
<1> QED
  BY <1>1, <1>2, <1>3, <1>4, <1>5, <1>6, <1>7, <1>8, <1>9, <1>10, ZenonT(30)

\* Every step keeps the invariant on the lock and the replica.
LEMMA LockStep ==
    ASSUME ShardingTypeOK, ErrorsInv, LockInv, [Next]_vars
    PROVE  LockInv'
<1> USE DEF replicationVars, errorVars, runVars
<1>1. CASE Application
  BY <1>1, LockApplication
<1>2. CASE Replication
  <2>1. replicated < Len(history) /\ replicated' = replicated + 1 /\ replicated \in Nat
    BY SMTT(30), <1>2 DEF Replication, Replicate, ShardingTypeOK, ReplicationTypeOK
  <2>2. ~DuringCutover /\ ~DuringCutover' /\ sourceIsReplica
    BY SMTT(30), <1>2, <2>1 DEF LockInv, SourceIsCurrent, DuringCutover, Replication
  <2> QED
    BY SMTT(30), <1>2, <2>1, <2>2 DEF Replication, Replicate, LockInv, SourceIsCurrent, Started
<1>3. CASE \/ ReplayEvents \/ ThrottlerUpdatesLag \/ FerryReturns \/ MaxPrimaryKeys
           \/ (\E t \in AllTables : IteratorStep(t)) \/ IteratorGivesUp
           \/ (\E p \in JoinedPks : Reverify(p)) \/ ScanFetch \/ ScanCompare
  <2>1. UNCHANGED <<replicationVars, runVars, errorCount, dead>>
    BY <1>3 DEF ReplayEvents, ThrottlerUpdatesLag, FerryReturns, MaxPrimaryKeys, IteratorStep,
         IteratorGivesUp, FatalReturns, Reverify, ScanFetch, ScanCompare
  <2> QED
    BY <2>1, LockFrame
<1>4. CASE \/ MainFails \/ FilterFails \/ StreamerFails \/ ThrottlerFails \/ IteratorFails
           \/ VerificationFails \/ VerifyOnceFails
  <2>1. UNCHANGED <<replicationVars, runVars, errorCount, dead>>
    BY <1>4 DEF MainFails, FilterFails, StreamerFails, ThrottlerFails, IteratorFails,
         VerificationFails, VerifyOnceFails, Fatal
  <2> QED
    BY <2>1, LockFrame
<1>5. CASE \/ Start \/ WaitUntilRowCopyIsComplete \/ ScanEnds \/ ReverifyEnds
           \/ WaitForThrottle \/ WaitUntilBinlogStreamerCatchesUp \/ InitializeWaitUntilReplica
           \/ CutoverLock \/ DisableThrottler \/ Flush \/ ReplicaIsCaughtUp \/ FlushAndStop
           \/ StartDeltaCopy
  BY <1>5, LockMain
<1>6. CASE \/ DeltaCopyEnds \/ VerifyDuringCutover \/ LoadPrimaryKeyTables \/ PrimaryKeyCopyEnds
           \/ VerifyOnce \/ EnableThrottler
  <2>1. /\ main \in {"delta", "verify", "load", "primary_keys", "once", "enable"}
        /\ main' \in {"verify", "load", "primary_keys", "once", "enable", "unlock"}
        /\ UNCHANGED <<errorVars, runFerryFromReplica>>
    BY <1>6 DEF DeltaCopyEnds, VerifyDuringCutover, LoadPrimaryKeyTables, PrimaryKeyCopyEnds,
         VerifyOnce, EnableThrottler, Goes
  <2>2. UNCHANGED <<replicationVars, waiterSet>>
    BY <1>6 DEF DeltaCopyEnds, VerifyDuringCutover, LoadPrimaryKeyTables, PrimaryKeyCopyEnds,
         VerifyOnce, EnableThrottler
  <2> QED
    BY <2>1, <2>2 DEF LockInv, SourceIsCurrent, DuringCutover, Started
<1>7. CASE CutoverUnlock
  BY <1>7 DEF CutoverUnlock, SetCutover, Goes, LockInv, SourceIsCurrent, DuringCutover, Started
<1>8. CASE CutoverLockFails \/ CutoverUnlockFails
  BY SMTT(30), <1>8
     DEF CutoverLockFails, CutoverUnlockFails, SetCutover, Fatal, LockInv, SourceIsCurrent,
       DuringCutover, Started
<1>9. CASE MainGoesOn
  <2>1. errorCount > 0 /\ errorCount' = errorCount /\ ~dead /\ UNCHANGED replicationVars
    BY <1>9 DEF MainGoesOn, FatalReturns, ErrorsInv, Goroutines
  <2>2. ~DuringCutover
    BY <1>9, NoReturnDuringCutover DEF MainGoesOn, FatalReturns, Goroutines
  <2>3. ~DuringCutover' /\ Started /\ cutover # "moved"
    <3>1. ~DuringCutover' /\ Started
      BY <1>9, <2>2, GoesOnBeforeCutover
    <3>2. main # "finished"
      BY <1>9 DEF MainGoesOn, AfterError
    <3> QED
      BY <2>1, <2>2, <3>1, <3>2 DEF DuringCutover, LockInv
  <2> QED
    BY SMTT(30), <1>9, <2>1, <2>3 DEF MainGoesOn, LockInv, SourceIsCurrent
<1>10. ASSUME NEW g \in Goroutines, ErrorStep(g)
       PROVE  LockInv'
  <2>1. CASE CountError(g) /\ UNCHANGED <<replicationVars, runVars>>
    <3>1. errorCount' > 0 /\ dead' = dead
      BY SMTT(30), <2>1 DEF CountError, ShardingTypeOK, ErrorTypeOK
    <3> QED
      BY SMTT(30), <2>1, <3>1 DEF LockInv, SourceIsCurrent, DuringCutover, Started
  <2>2. CASE Panic(g) /\ Forget /\ UNCHANGED <<replicationVars, runFerryFromReplica, target>>
    <3>1. dead' = TRUE /\ main' = "start"
      BY <2>2 DEF Panic, Forget
    <3> QED
      BY <2>2, <3>1 DEF LockInv, SourceIsCurrent, DuringCutover, Started
  <2> QED
    BY <1>10, <2>1, <2>2 DEF ErrorStep
<1>11. CASE UNCHANGED vars
  BY <1>11, LockFrame DEF vars
<1> QED
  BY <1>1, <1>2, <1>3, <1>4, <1>5, <1>6, <1>7, <1>8, <1>9, <1>10, <1>11
    DEF Next, MainStep, StreamerStep, IteratorSteps, Failure

----------------------------------------------------------------------------
\* Batches.

\* A set of natural numbers that is not empty has a least element.
LEMMA LeastElement ==
    ASSUME NEW S \in SUBSET Nat, S # {}
    PROVE  \E k \in S : \A j \in S : k <= j
<1>1. PICK k \in S : \A j \in S : ~ (<<j, k>> \in OpToRel(<, Nat))
  BY NatLessThanWellFounded, WFMin
<1>2. \A j \in S : ~ (j < k)
  BY <1>1 DEF OpToRel
<1> QED
  BY SMTT(30), <1>2

\* The first keys of a set that is not empty, and the keys before one of them.
LEMMA FirstKeysAreFirst ==
    ASSUME NEW S \in SUBSET Nat, IsFiniteSet(S)
    PROVE  /\ S # {} => FirstKeys(S) # {}
           /\ \A k \in FirstKeys(S), j \in S : j <= k => j \in FirstKeys(S)
<1> DEFINE Before(x) == {y \in S : y < x}
<1>0. \A k \in S : k \in Nat
  OBVIOUS
<1>1. \A k \in S : IsFiniteSet(Before(k)) /\ Cardinality(Before(k)) \in Nat
  <2> TAKE k \in S
  <2>1. Before(k) \subseteq S
    OBVIOUS
  <2>2. IsFiniteSet(Before(k))
    BY <2>1, FS_Subset
  <2> QED
    BY <2>2, FS_CardinalityType
<1>2. ASSUME S # {}
      PROVE  FirstKeys(S) # {}
  <2>1. PICK k \in S : \A j \in S : k <= j
    BY <1>2, LeastElement
  <2>2. Before(k) = {}
    <3>1. \A j \in S : ~ (j < k)
      BY SMTT(30), <1>0, <2>1
    <3> QED
      BY <3>1
  <2>3. Cardinality(Before(k)) = 0
    BY <2>2, FS_EmptySet
  <2> QED
    BY SMTT(30), <2>3, ShardedTablesAssumption DEF FirstKeys
<1>3. ASSUME NEW k \in FirstKeys(S), NEW j \in S, j <= k
      PROVE  j \in FirstKeys(S)
  <2>1. k \in S /\ Cardinality(Before(k)) < BatchSize
    BY DEF FirstKeys
  <2>2. Before(j) \subseteq Before(k)
    <3>1. \A i \in S : i < j => i < k
      BY SMTT(30), <1>0, <1>3, <2>1
    <3> QED
      BY <3>1
  <2>3. Cardinality(Before(j)) <= Cardinality(Before(k))
    BY <1>1, <2>1, <2>2, FS_Subset
  <2>4. Cardinality(Before(j)) < BatchSize
    BY SMTT(30), <1>1, <2>1, <2>3, ShardedTablesAssumption
  <2> QED
    BY <2>4 DEF FirstKeys
<1> QED
  BY <1>2, <1>3

\* A batch of the joined table holds the next references, unless there are none.
LEMMA JoinedBatchIsNext ==
    ASSUME NEW data \in Contents, References(data) \subseteq data.joined, NEW last \in Nat
    PROVE  LET batch == BuildSelect(data, JoinedTable, last) IN
           /\ batch = {} => \A p \in References(data) : p <= last
           /\ \A k \in batch, p \in References(data) : last < p /\ p <= k => p \in batch
<1> DEFINE S == {p \in References(data) : p > last}
           batch == BuildSelect(data, JoinedTable, last)
<1>1. data.joined \subseteq JoinedPks
  BY DEF Contents
<1>2. S \subseteq JoinedPks /\ S \subseteq Nat
  BY <1>1, ShardedTablesAssumption
<1>3. IsFiniteSet(S)
  BY <1>2, ShardedTablesAssumption, FS_Subset
<1>4. batch = FirstKeys(S)
  BY <1>2 DEF BuildSelect, JoinedBatch, FirstKeys, JoinedTable, PrimaryKeyTable
<1>5. batch = {} => S = {}
  BY <1>2, <1>3, <1>4, FirstKeysAreFirst
<1>6. \A p \in References(data) : p \in Nat
  BY <1>1, ShardedTablesAssumption
<1>7. batch = {} => \A p \in References(data) : p <= last
  BY SMTT(30), <1>5, <1>6
<1>8. \A k \in batch, p \in S : p <= k => p \in batch
  BY SMTT(30), <1>2, <1>3, <1>4, FirstKeysAreFirst
<1>9. \A k \in batch, p \in References(data) : last < p /\ p <= k => p \in batch
  BY <1>6, <1>8
<1> QED
  BY <1>7, <1>9

----------------------------------------------------------------------------
\* The delta copy and what follows it.

\* A step that leaves the servers, the target, the cursors and Run alone.
LEMMA DeltaFrame ==
    ASSUME DeltaInv, UNCHANGED <<history, replicated, cutover, main, cursorVars, target>>
    PROVE  DeltaInv'
BY DEF DeltaInv, MovedIsComplete, JoinedRowsArrived, Source, Master, cursorVars

\* Outside of the cutover only the last conjunct says something.
LEMMA DeltaOutside ==
    ASSUME DeltaInv, ~DuringCutover', UNCHANGED <<history, cutover>>,
           target'.joined = target.joined, target'.tenant = target.tenant
    PROVE  DeltaInv'
<1>1. MovedIsComplete'
  BY DEF DeltaInv, MovedIsComplete, JoinedRowsArrived, Master
<1> QED
  BY <1>1 DEF DeltaInv, DuringCutover

\* The source during the cutover is the master, and its references lead to rows.
LEMMA SourceDuringCutover ==
    ASSUME ShardingTypeOK, LockInv, DuringCutover
    PROVE  /\ Source = Master /\ Source \in Contents /\ WellFormed(Source)
           /\ References(Source) \subseteq Source.joined
           /\ References(Source) \subseteq Nat \ {0}
<1>1. Source = Master /\ Source \in Contents
  BY ServerType DEF LockInv, SourceIsCurrent, Source, Master, ShardingTypeOK
<1>2. WellFormed(Source)
  BY ServerType DEF LockInv, Source, ShardingTypeOK, ReplicationTypeOK
<1>3. References(Source) \subseteq Source.joined
  BY <1>2 DEF WellFormed
<1>4. Source.joined \subseteq JoinedPks
  BY <1>1 DEF Contents
<1>5. \A p \in JoinedPks : p \in Nat \ {0}
  BY ShardedTablesAssumption
<1>6. References(Source) \subseteq Nat \ {0}
  BY <1>3, <1>4, <1>5
<1> QED
  BY <1>1, <1>2, <1>3, <1>6

\* The iterator of the delta copy.
LEMMA DeltaCopySteps ==
    ASSUME ShardingTypeOK, LockInv, DeltaInv, main = "delta",
           MaxPrimaryKeys \/ IteratorStep(JoinedTable)
    PROVE  DeltaInv'
<1> USE DEF runVars, replicationVars
<1>1. /\ CopiedTables = {JoinedTable} /\ JoinedTable \in AllTables /\ JoinedTable # PrimaryKeyTable
  BY DEF CopiedTables, AllTables, JoinedTable, PrimaryKeyTable
<1>2. /\ References(Source) \subseteq Source.joined /\ Source \in Contents
      /\ \A p \in References(Source) : p \in Nat \ {0}
      /\ \A p \in Source.joined : p \in Nat
  <2>1. DuringCutover
    BY DEF DuringCutover
  <2>2. Source.joined \subseteq JoinedPks
    BY <2>1, SourceDuringCutover DEF Contents
  <2>3. \A p \in JoinedPks : p \in Nat
    BY ShardedTablesAssumption
  <2>4. \A p \in Source.joined : p \in Nat
    BY <2>2, <2>3
  <2> QED
    BY <2>1, <2>4, SourceDuringCutover
<1>3. /\ main' = main /\ Source' = Source /\ cutover' = cutover
  BY DEF MaxPrimaryKeys, IteratorStep, Source
<1>4. /\ cursor \in [AllTables -> {"unread", "open", "done"}]
      /\ maxPk \in [AllTables -> Nat] /\ lastPk \in [AllTables -> Nat] /\ target \in Contents
  BY DEF ShardingTypeOK
<1>5. ~ (cutover' = "moved") \/ dead
  BY <1>3 DEF LockInv
<1>6. CASE MaxPrimaryKeys
  <2>1. cursor[JoinedTable] = "unread" /\ lastPk' = lastPk /\ target' = target
    BY <1>1, <1>6 DEF MaxPrimaryKeys
  <2>2. lastPk[JoinedTable] = 0
    BY <2>1 DEF DeltaInv
  <2>3. KeysOf(Source, JoinedTable) = Source.joined
    BY <1>1 DEF KeysOf
  <2>4. CASE Source.joined = {}
    <3>1. cursor'[JoinedTable] = "done"
      BY <1>1, <1>6, <2>3, <2>4 DEF MaxPrimaryKeys
    <3>2. References(Source) \subseteq target.joined
      BY <1>2, <2>4
    <3> QED
      BY <1>3, <1>6, <2>1, <3>1, <3>2 DEF DeltaInv, MovedIsComplete, JoinedRowsArrived, Master,
           MaxPrimaryKeys
  <2>5. CASE Source.joined # {}
    <3>1. cursor'[JoinedTable] = "open"
      BY <1>1, <1>6, <2>3, <2>5, ZenonT(30) DEF MaxPrimaryKeys
    <3>2. \A t \in AllTables : t \in CopiedTables /\ KeysOf(Source, t) # {} =>
             \A k \in KeysOf(Source, t) : k <= maxPk'[t]
      BY <1>6 DEF MaxPrimaryKeys
    <3>3. \A p \in Source.joined : p <= maxPk'[JoinedTable]
      BY <1>1, <2>3, <2>5, <3>2
    <3>4. \A p \in References(Source) : ~ (p <= lastPk'[JoinedTable])
      BY SMTT(30), <1>2, <2>1, <2>2
    <3> QED
      BY <1>3, <1>6, <2>1, <3>1, <3>3, <3>4, ZenonT(30)
      DEF DeltaInv, MovedIsComplete, JoinedRowsArrived, Master,
           MaxPrimaryKeys
  <2> QED
    BY <2>4, <2>5
<1>7. CASE CopyBatch(JoinedTable) /\ IteratorStep(JoinedTable)
  <2> DEFINE last == lastPk[JoinedTable]
             batch == BuildSelect(Source, JoinedTable, last)
  <2>1. /\ ~dead /\ cursor[JoinedTable] = "open" /\ last \in Nat
        /\ \A p \in References(Source) : p <= last => p \in target.joined
        /\ \A p \in Source.joined : p <= maxPk[JoinedTable]
    BY <1>1, <1>4, <1>7 DEF CopyBatch, Alive, DeltaInv
  <2>2. /\ batch = {} => \A p \in References(Source) : p <= last
        /\ \A k \in batch, p \in References(Source) : last < p /\ p <= k => p \in batch
    BY <1>2, <2>1, JoinedBatchIsNext
  <2>3. CASE batch = {} /\ Closed(JoinedTable) /\ target' = target
    <3>1. cursor'[JoinedTable] = "done"
      BY <1>1, <1>4, <2>3 DEF Closed
    <3> QED
      BY <1>3, <1>5, <2>1, <2>2, <2>3, <3>1, ZenonT(30) DEF DeltaInv, MovedIsComplete
  <2>4. ASSUME NEW k \in LastOfBatch(JoinedTable, batch),
               lastPk' = [lastPk EXCEPT ![JoinedTable] = k],
               target' = InsertIgnore(Source, JoinedTable, batch, target),
               UNCHANGED <<cursor, maxPk>>
        PROVE  DeltaInv'
    <3>1. k \in batch /\ k \in Nat
      BY <1>1, <1>2, <2>1, BatchType, KeysType, ZenonT(30) DEF LastOfBatch
    <3>2. target'.joined = target.joined \cup batch
      BY <1>1, <1>4, <2>4 DEF InsertIgnore, Contents
    <3>3. lastPk'[JoinedTable] = k
      BY <1>1, <1>4, <2>4
    <3>4. \A p \in References(Source) : p <= k => p \in target'.joined
      <4>1. ASSUME NEW p \in References(Source), p <= k
            PROVE  p \in target'.joined
        <5>1. p \in Nat
          BY <1>2
        <5>2. p <= last \/ last < p
          BY SMTT(30), <2>1, <5>1
        <5> QED
          BY <2>1, <2>2, <3>1, <3>2, <4>1, <5>2, ZenonT(30)
      <4> QED
        BY <4>1
    <3> QED
      BY <1>3, <1>5, <2>1, <2>4, <3>3, <3>4, ZenonT(30) DEF DeltaInv, MovedIsComplete
  <2> QED
    BY <1>7, <2>3, <2>4 DEF CopyBatch
<1>8. CASE CompleteTable(JoinedTable) /\ IteratorStep(JoinedTable)
  <2>1. /\ ~dead /\ cursor[JoinedTable] = "open" /\ lastPk[JoinedTable] \in Nat
        /\ maxPk[JoinedTable] \in Nat /\ lastPk[JoinedTable] >= maxPk[JoinedTable]
        /\ cursor'[JoinedTable] = "done" /\ target' = target
    BY <1>1, <1>4, <1>8 DEF CompleteTable, Alive, Closed
  <2>2. \A p \in References(Source) : p <= lastPk[JoinedTable]
    <3>1. \A p \in References(Source) : p \in Nat /\ p <= maxPk[JoinedTable]
      BY <1>2, <2>1 DEF DeltaInv
    <3>2. \A p \in Nat : p <= maxPk[JoinedTable] => p <= lastPk[JoinedTable]
      BY SMTT(30), <2>1
    <3> QED
      BY <3>1, <3>2
  <2>3. References(Source) \subseteq target.joined
    BY <2>1, <2>2 DEF DeltaInv
  <2> QED
    BY <1>3, <1>5, <2>1, <2>3 DEF DeltaInv, MovedIsComplete
<1> QED
  BY <1>6, <1>7, <1>8 DEF IteratorStep

\* Every step keeps what the delta copy has reached.
LEMMA DeltaStep ==
    ASSUME ShardingTypeOK, ErrorsInv, LockInv, DeltaInv, [Next]_vars
    PROVE  DeltaInv'
<1> USE DEF replicationVars, errorVars, runVars, ferryVars, cursorVars, verifierVars
<1>1. CASE Application
  <2>1. cutover = "open" /\ cutover' = cutover /\ main' = main
    BY <1>1, ApplicationType DEF Application, ShardingTypeOK
  <2>2. ~DuringCutover'
    BY <2>1 DEF LockInv, SourceIsCurrent, DuringCutover
  <2> QED
    BY <2>1, <2>2 DEF DeltaInv, DuringCutover, MovedIsComplete
<1>2. CASE Replication
  <2>1. ~DuringCutover'
    BY SMTT(30), <1>2, ServerType
    DEF Replication, Replicate, LockInv, SourceIsCurrent, DuringCutover, ShardingTypeOK
  <2> QED
    BY <1>2, <2>1, DeltaOutside DEF Replication, Replicate
<1>3. CASE ReplayEvents
  <2>1. ~DuringCutover'
    BY <1>3 DEF ReplayEvents, Streaming, ErrorsInv, DuringCutover
  <2>2. target'.joined = target.joined /\ target'.tenant = target.tenant
    BY <1>3 DEF ReplayEvents, ShardingTypeOK, Contents
  <2> QED
    BY <1>3, <2>1, <2>2, DeltaOutside DEF ReplayEvents
<1>4. CASE \/ FilterFails \/ StreamerFails \/ FerryReturns \/ ThrottlerUpdatesLag \/ ThrottlerFails
           \/ IteratorFails \/ MainFails \/ ScanCompare \/ (\E p \in JoinedPks : Reverify(p))
           \/ VerificationFails \/ VerifyOnceFails
  BY <1>4, DeltaFrame
  DEF FilterFails, StreamerFails, FerryReturns, ThrottlerUpdatesLag, ThrottlerFails,
      IteratorFails, MainFails, ScanCompare, Reverify, VerificationFails, VerifyOnceFails
<1>5. CASE \/ Start \/ WaitUntilRowCopyIsComplete \/ ScanFetch \/ ScanEnds \/ ReverifyEnds
           \/ WaitForThrottle \/ WaitUntilBinlogStreamerCatchesUp \/ InitializeWaitUntilReplica
           \/ DisableThrottler \/ Flush \/ ReplicaIsCaughtUp \/ FlushAndStop
  <2>1. ~DuringCutover' /\ UNCHANGED <<history, cutover, target>>
    <3>1. CASE Start
      BY <3>1 DEF Start, DuringCutover
    <3>2. CASE WaitUntilRowCopyIsComplete
      BY <3>2 DEF WaitUntilRowCopyIsComplete, Goes, DuringCutover
    <3>3. CASE ScanFetch
      BY <3>3 DEF ScanFetch, DuringCutover
    <3>4. CASE ScanEnds \/ ReverifyEnds \/ WaitForThrottle
      BY <3>4, ZenonT(30) DEF ScanEnds, ReverifyEnds, WaitForThrottle, Goes, DuringCutover
    <3>5. CASE WaitUntilBinlogStreamerCatchesUp \/ InitializeWaitUntilReplica
      BY <3>5 DEF WaitUntilBinlogStreamerCatchesUp, InitializeWaitUntilReplica, Goes, DuringCutover
    <3>6. CASE DisableThrottler
      BY <3>6 DEF DisableThrottler, Goes, DuringCutover
    <3>7. CASE Flush
      <4>1. main' \in {"await", "stop"}
        BY <3>7 DEF Flush, Goes
      <4> QED
        BY <3>7, <4>1 DEF Flush, ReadMasterPosition, DuringCutover
    <3>8. CASE ReplicaIsCaughtUp \/ FlushAndStop
      BY <3>8 DEF ReplicaIsCaughtUp, FlushAndStop, Goes, DuringCutover
    <3> QED
      BY <1>5, <3>1, <3>2, <3>3, <3>4, <3>5, <3>6, <3>7, <3>8
  <2> QED
    BY <2>1, DeltaOutside
<1>6. CASE CutoverLock \/ CutoverLockFails
  <2>1. ~DuringCutover' /\ cutover' # "moved"
    BY <1>6 DEF CutoverLock, CutoverLockFails, Goes, SetCutover, DuringCutover
  <2> QED
    BY <2>1 DEF DeltaInv, DuringCutover, MovedIsComplete
<1>7. CASE MainGoesOn
  <2>1. Alive("main") = FALSE /\ handling["main"] = "returned"
    BY <1>7 DEF MainGoesOn, FatalReturns, Alive
  <2>2. ~DuringCutover
    BY <2>1, NoReturnDuringCutover DEF Goroutines
  <2>3. ~DuringCutover'
    BY <1>7, <2>2, GoesOnBeforeCutover
  <2> QED
    BY <1>7, <2>3, DeltaOutside DEF MainGoesOn
<1>8. CASE StartDeltaCopy
  <2>1. /\ main' = "delta" /\ cursor'[JoinedTable] = "unread" /\ lastPk'[JoinedTable] = 0
        /\ UNCHANGED <<history, cutover, target>>
    BY <1>8 DEF StartDeltaCopy, Goes, Rewound, ShardingTypeOK, AllTables
  <2>2. MovedIsComplete'
    BY <2>1 DEF DeltaInv, MovedIsComplete, JoinedRowsArrived, Master
  <2> QED
    BY <2>1, <2>2 DEF DeltaInv
<1>9. CASE DeltaCopyEnds
  <2>1. /\ main = "delta" /\ main' = "verify" /\ cursor[JoinedTable] = "done"
        /\ UNCHANGED <<history, cutover, target>>
    BY <1>9 DEF DeltaCopyEnds, Goes, CopyIsDone, CopiedTables
  <2>2. JoinedRowsArrived
    BY <2>1, SourceDuringCutover DEF DuringCutover, DeltaInv, JoinedRowsArrived
  <2> QED
    BY <2>1, <2>2, ZenonT(30) DEF DeltaInv, MovedIsComplete, JoinedRowsArrived, Master
<1>10. CASE VerifyDuringCutover \/ LoadPrimaryKeyTables \/ PrimaryKeyCopyEnds \/ EnableThrottler
  <2>1. /\ main \in {"verify", "load", "primary_keys", "enable"}
        /\ main' \in {"load", "primary_keys", "once", "unlock"}
        /\ main' = "unlock" => main = "enable"
        /\ UNCHANGED <<history, cutover, target>>
    <3>1. CASE VerifyDuringCutover
      BY <3>1 DEF VerifyDuringCutover, Goes
    <3>2. CASE LoadPrimaryKeyTables
      BY <3>2 DEF LoadPrimaryKeyTables, Goes
    <3>3. CASE PrimaryKeyCopyEnds
      BY <3>3 DEF PrimaryKeyCopyEnds, Goes
    <3>4. CASE EnableThrottler
      BY <3>4 DEF EnableThrottler, Goes
    <3> QED
      BY <1>10, <3>1, <3>2, <3>3, <3>4
  <2> QED
    BY <2>1 DEF DeltaInv, MovedIsComplete, JoinedRowsArrived, Master
<1>11. CASE VerifyOnce
  <2>1. main = "once" /\ main' = "enable" /\ UNCHANGED <<history, cutover, target>> /\ OnceMatches
    BY <1>11 DEF VerifyOnce, Goes
  <2>2. Source = Master /\ Source.tenant[ShardingValue] # NoRow
    BY <2>1, SourceDuringCutover DEF DuringCutover, WellFormed
  <2>3. ShardingValue > 0
    BY SMTT(30), ShardedTablesAssumption
  <2>4. target.tenant[ShardingValue] = Master.tenant[ShardingValue]
    BY <2>1, <2>2, <2>3 DEF OnceMatches, PrimaryKeyBatch
  <2> QED
    BY <2>1, <2>4 DEF DeltaInv, MovedIsComplete, JoinedRowsArrived, Master
<1>12. CASE CutoverUnlock \/ CutoverUnlockFails
  <2>1. main = "unlock" /\ main' \in {"unlock", "finished"} /\ UNCHANGED <<history, target>>
    BY <1>12 DEF CutoverUnlock, CutoverUnlockFails, Goes, SetCutover
  <2> QED
    BY <2>1 DEF DeltaInv, MovedIsComplete, JoinedRowsArrived, Master
<1>13. CASE MaxPrimaryKeys
  <2>1. CASE main = "delta"
    BY <1>13, <2>1, DeltaCopySteps
  <2>2. CASE main # "delta"
    BY <1>13, <2>2 DEF MaxPrimaryKeys, DeltaInv, MovedIsComplete, JoinedRowsArrived, Master
  <2> QED
    BY <2>1, <2>2
<1>14. ASSUME NEW t \in AllTables, IteratorStep(t)
       PROVE  DeltaInv'
  <2>1. CASE main = "delta"
    <3>1. t = JoinedTable
      BY <1>14, <2>1, ZenonT(30) DEF IteratorStep, CopiedTables
    <3> QED
      BY <1>14, <2>1, <3>1, DeltaCopySteps
  <2>2. CASE main # "delta"
    <3>1. /\ main \in {"copying", "primary_keys"} /\ main' = main /\ UNCHANGED <<history, cutover>>
          /\ main = "primary_keys" => t = PrimaryKeyTable
      BY <1>14, <2>2 DEF IteratorStep, CopiedTables
    <3>2. ~dead
      BY <1>14 DEF IteratorStep, CopyBatch, CompleteTable, Alive
    <3>3. cutover # "moved"
      BY <3>1, <3>2 DEF LockInv
    <3>4. main = "primary_keys" => target'.joined = target.joined
      <4>1. ASSUME NEW batch
            PROVE  InsertIgnore(Source, PrimaryKeyTable, batch, target).joined = target.joined
        BY DEF InsertIgnore, ShardingTypeOK, Contents
      <4> QED
        BY <1>14, <3>1, <4>1, ZenonT(30) DEF IteratorStep, CopyBatch, CompleteTable
    <3> QED
      BY <3>1, <3>3, <3>4 DEF DeltaInv, MovedIsComplete, JoinedRowsArrived, Master
  <2> QED
    BY <2>1, <2>2
<1>15. CASE IteratorGivesUp
  <2>1. handling["iterator"] = "returned"
    BY <1>15 DEF IteratorGivesUp, FatalReturns
  <2>2. ~DuringCutover
    BY <2>1, NoReturnDuringCutover DEF Goroutines
  <2>3. ~DuringCutover'
    BY <1>15, <2>2 DEF IteratorGivesUp, DuringCutover
  <2> QED
    BY <1>15, <2>3, DeltaOutside DEF IteratorGivesUp
<1>16. ASSUME NEW g \in Goroutines, ErrorStep(g)
       PROVE  DeltaInv'
  <2>1. CASE CountError(g) /\ UNCHANGED <<replicationVars, throttlerVars, runVars, ferryVars,
                                          cursorVars, verifierVars, target>>
    BY <2>1, DeltaFrame
  <2>2. CASE Panic(g) /\ Forget /\ UNCHANGED <<replicationVars, runFerryFromReplica, target>>
    <3>1. ~DuringCutover'
      BY <2>2 DEF Forget, DuringCutover
    <3> QED
      BY <2>2, <3>1, DeltaOutside
  <2> QED
    BY <1>16, <2>1, <2>2 DEF ErrorStep
<1>17. CASE UNCHANGED vars
  BY <1>17, DeltaFrame DEF vars
<1> QED
  BY <1>1, <1>2, <1>3, <1>4, <1>5, <1>6, <1>7, <1>8, <1>9, <1>10, <1>11, <1>12, <1>13, <1>14,
     <1>15, <1>16, <1>17
  DEF Next, MainStep, StreamerStep, IteratorSteps, Failure

----------------------------------------------------------------------------
\* Whose rows are on the target.

\* Only batches and replayed events change the target.
LEMMA TargetChanges ==
    ASSUME [Next]_vars
    PROVE  target' = target \/ ReplayEvents \/ \E t \in AllTables : IteratorStep(t)
<1>1. ASSUME MainStep
      PROVE  target' = target
  <2>1. CASE Start \/ ScanFetch \/ ScanCompare
    BY <2>1 DEF Start, ScanFetch, ScanCompare
  <2>2. CASE WaitUntilRowCopyIsComplete \/ ScanEnds \/ ReverifyEnds
    BY <2>2 DEF WaitUntilRowCopyIsComplete, ScanEnds, ReverifyEnds
  <2>3. CASE WaitForThrottle \/ WaitUntilBinlogStreamerCatchesUp \/ InitializeWaitUntilReplica
    BY <2>3 DEF WaitForThrottle, WaitUntilBinlogStreamerCatchesUp, InitializeWaitUntilReplica
  <2>4. CASE CutoverLock \/ DisableThrottler \/ Flush \/ ReplicaIsCaughtUp \/ FlushAndStop
    BY <2>4 DEF CutoverLock, DisableThrottler, Flush, ReplicaIsCaughtUp, FlushAndStop,
        SetDisabled
  <2>5. CASE StartDeltaCopy \/ DeltaCopyEnds \/ VerifyDuringCutover \/ VerificationFails
    BY <2>5 DEF StartDeltaCopy, DeltaCopyEnds, VerifyDuringCutover, VerificationFails
  <2>6. CASE LoadPrimaryKeyTables \/ PrimaryKeyCopyEnds \/ VerifyOnce \/ VerifyOnceFails
    BY <2>6 DEF LoadPrimaryKeyTables, PrimaryKeyCopyEnds, VerifyOnce, VerifyOnceFails
  <2>7. CASE EnableThrottler \/ CutoverUnlock \/ MainGoesOn
    BY <2>7 DEF EnableThrottler, CutoverUnlock, MainGoesOn, SetDisabled
  <2> QED
    BY <1>1, <2>1, <2>2, <2>3, <2>4, <2>5, <2>6, <2>7, ZenonT(30) DEF MainStep
<1>2. Failure => target' = target
  BY DEF Failure, MainFails, CutoverLockFails, CutoverUnlockFails, StreamerFails,
      ThrottlerFails, IteratorFails
<1>3. Application \/ Replication \/ ThrottlerUpdatesLag \/ FilterFails \/ FerryReturns =>
          target' = target
  BY DEF Application, Replication, ThrottlerUpdatesLag, FilterFails, FerryReturns
<1>4. MaxPrimaryKeys \/ IteratorGivesUp \/ (\E p \in JoinedPks : Reverify(p)) => target' = target
  BY DEF MaxPrimaryKeys, IteratorGivesUp, Reverify
<1>5. (\E g \in Goroutines : ErrorStep(g)) => target' = target
  BY DEF ErrorStep
<1> QED
  BY <1>1, <1>2, <1>3, <1>4, <1>5 DEF Next, StreamerStep, IteratorSteps, vars

\* What an applicable event of a row leaves is a row of the tenant, or none.
LEMMA ApplicableIsOfTenant ==
    ASSUME NEW old, NEW new, ApplicableEvent(old, new) = "yes"
    PROVE  /\ new # NoRow => OfTenant(new)
           /\ old # NoRow => OfTenant(old)
           /\ OfTenant(old) \/ OfTenant(new)
<1>1. ~ (old # NoRow /\ new # NoRow /\ OfTenant(old) # OfTenant(new))
  BY DEF ApplicableEvent
<1>2. OfTenant(old) \/ OfTenant(new)
  BY DEF ApplicableEvent
<1>3. OfTenant(old) \in BOOLEAN /\ OfTenant(new) \in BOOLEAN
  BY DEF OfTenant
<1>4. OfTenant(old) => old # NoRow
  BY DEF OfTenant
<1>5. OfTenant(new) => new # NoRow
  BY DEF OfTenant
<1> QED
  BY <1>1, <1>2, <1>3, <1>4, <1>5, ZenonT(30)

\* A replayed transaction brings no row of another tenant.
LEMMA OnlyTheTenantReplay ==
    ASSUME ShardingTypeOK, OnlyTheTenantIsCopied, ReplayEvents
    PROVE  OnlyTheTenantIsCopied'
<1>1. target'.tenant = target.tenant
  BY DEF ReplayEvents, ShardingTypeOK, Contents
<1>2. ASSUME NEW r \in JoinRows
      PROVE  target'.join[r] # NoRow => OfTenant(target'.join[r])
  <2> DEFINE old == history[streamed].join[r]
             new == history[streamed + 1].join[r]
             row == target.join[r]
  <2>1. target'.join[r] =
           IF old # new /\ ApplicableEvent(old, new) = "yes" THEN Replay(old, new, row) ELSE row
    BY DEF ReplayEvents, ShardingTypeOK, Contents
  <2>2. Replay(old, new, row) \in {new, row}
    BY DEF Replay
  <2>3. row # NoRow => OfTenant(row)
    BY DEF OnlyTheTenantIsCopied
  <2> HIDE DEF old, new, row
  <2>4. ApplicableEvent(old, new) = "yes" => (new # NoRow => OfTenant(new))
    BY ApplicableIsOfTenant
  <2> QED
    BY SMTT(30), <2>1, <2>2, <2>3, <2>4
<1> QED
  BY <1>1, <1>2 DEF OnlyTheTenantIsCopied

\* A batch brings no row of another tenant.
LEMMA OnlyTheTenantBatch ==
    ASSUME ShardingTypeOK, OnlyTheTenantIsCopied, NEW t \in AllTables, IteratorStep(t)
    PROVE  OnlyTheTenantIsCopied'
<1>1. CASE target' = target
  BY <1>1 DEF OnlyTheTenantIsCopied
<1>2. CASE target' = InsertIgnore(Source, t, BuildSelect(Source, t, lastPk[t]), target)
  <2> DEFINE batch == BuildSelect(Source, t, lastPk[t])
  <2>1. target \in Contents
    BY DEF ShardingTypeOK
  <2>2. CASE t = PrimaryKeyTable
    <3>1. batch \subseteq {ShardingValue}
      BY <2>2 DEF BuildSelect, PrimaryKeyBatch
    <3>2. /\ target'.join = target.join
          /\ target'.tenant = [p \in Tenants |->
               IF p \in batch /\ target.tenant[p] = NoRow THEN Source.tenant[p] ELSE target.tenant[p]]
      BY <1>2, <2>1, <2>2, ZenonT(30) DEF InsertIgnore, Contents
    <3> QED
      BY <3>1, <3>2 DEF OnlyTheTenantIsCopied
  <2>3. CASE t = JoinedTable
    <3>1. target'.join = target.join /\ target'.tenant = target.tenant
      BY <1>2, <2>1, <2>3 DEF InsertIgnore, Contents, JoinedTable, PrimaryKeyTable
    <3> QED
      BY <3>1 DEF OnlyTheTenantIsCopied
  <2>4. CASE t # JoinedTable /\ t # PrimaryKeyTable
    <3>1. batch = ShardedBatch(Source, t, lastPk[t])
      BY <2>4 DEF BuildSelect
    <3>2. \A i \in batch : OfTenant(Source.join[<<t, i>>])
      BY <3>1 DEF ShardedBatch, FirstKeys
    <3>3. /\ target'.tenant = target.tenant
          /\ target'.join = [r \in JoinRows |->
               IF r[1] = t /\ r[2] \in batch /\ target.join[r] = NoRow
                 THEN Source.join[r] ELSE target.join[r]]
      BY <1>2, <2>1, <2>4 DEF InsertIgnore, Contents
    <3> HIDE DEF batch
    <3>4. \A r \in JoinRows : r = <<r[1], r[2]>>
      BY DEF JoinRows
    <3>5. \A r \in JoinRows : r[1] = t /\ r[2] \in batch => OfTenant(Source.join[r])
      BY <3>2, <3>4
    <3> QED
      BY <3>3, <3>5 DEF OnlyTheTenantIsCopied
  <2> QED
    BY <2>2, <2>3, <2>4
<1> QED
  BY <1>1, <1>2 DEF IteratorStep, CopyBatch, CompleteTable

----------------------------------------------------------------------------
\* Theorems.

\* The parts of the invariant hold at first.
LEMMA InvariantInit ==
    ASSUME Init
    PROVE  ErrorsInv /\ LockInv /\ DeltaInv /\ OnlyTheTenantIsCopied
<1>1. ~DuringCutover /\ ~Started /\ cutover = "open"
  BY DEF Init, DuringCutover, Started, ReplicationInit
<1>2. errorCount = 0 /\ main = "start" /\ ~ferryDone /\ \A g \in Goroutines : handling[g] = "no"
  BY DEF Init, ErrorInit
<1>3. ErrorsInv
  BY <1>1, <1>2 DEF ErrorsInv, NoErrorIsPassed, Goroutines
<1>4. /\ \A i \in 1..Len(history) : WellFormed(history[i])
      /\ replicated = Len(history)
  <2>1. PICK data \in InitialContents : history = <<data>>
    BY DEF Init, ReplicationInit
  <2>2. replicated = 1 /\ WellFormed(data)
    BY <2>1, SourceReplicationAssumption DEF Init, ReplicationInit
  <2> QED
    BY <2>1, <2>2
<1>5. LockInv
  BY <1>1, <1>2, <1>4 DEF LockInv, SourceIsCurrent
<1>6. DeltaInv
  BY <1>1, <1>2 DEF DeltaInv, MovedIsComplete
<1>7. OnlyTheTenantIsCopied
  BY ShardingFerryAssumption DEF Init, OnlyTheTenantIsCopied
<1> QED
  BY <1>3, <1>5, <1>6, <1>7

\* All of the invariant holds in every state of a run.
THEOREM ShardingInvariant ==
    Spec => [](ShardingTypeOK /\ ErrorsInv /\ LockInv /\ DeltaInv)
<1>1. Init => ShardingTypeOK /\ ErrorsInv /\ LockInv /\ DeltaInv
  BY TypeInit, InvariantInit
<1>2. ShardingTypeOK /\ ErrorsInv /\ LockInv /\ DeltaInv /\ [Next]_vars =>
          (ShardingTypeOK /\ ErrorsInv /\ LockInv /\ DeltaInv)'
  BY TypeStep, ErrorsStep, LockStep, DeltaStep
<1> QED
  BY <1>1, <1>2, PTL DEF Spec

\* Type correctness of the sharding run.
THEOREM ShardingTypeCorrect == Spec => []ShardingTypeOK
BY ShardingInvariant, PTL

\* However many goroutines call Fatal, and whoever it returns to, Run does not
\* come past copyWG.Wait with an error that no panic is about to follow.
THEOREM NoErrorIsEverPassed == Spec => []NoErrorIsPassed
<1>1. ErrorsInv => NoErrorIsPassed
  BY DEF ErrorsInv
<1> QED
  BY <1>1, ShardingInvariant, PTL

\* From the delta copy on the tenant is locked and the server that is read has
\* all of its transactions, replica or not.
THEOREM SourceIsAlwaysCurrent == Spec => []SourceIsCurrent
<1>1. LockInv => SourceIsCurrent
  BY DEF LockInv
<1> QED
  BY <1>1, ShardingInvariant, PTL

\* A tenant that is unlocked on the target has all joined rows it refers to
\* there, and its row of the primary key table as it is on the master.
THEOREM MovedIsAlwaysComplete == Spec => []MovedIsComplete
<1>1. DeltaInv => MovedIsComplete
  BY DEF DeltaInv
<1> QED
  BY <1>1, ShardingInvariant, PTL

\* Neither a batch nor a replayed event ever brings a row of another tenant.
THEOREM OnlyTheTenantIsEverCopied == Spec => []OnlyTheTenantIsCopied
<1>1. Init => OnlyTheTenantIsCopied
  BY InvariantInit
<1>2. ShardingTypeOK /\ OnlyTheTenantIsCopied /\ [Next]_vars => OnlyTheTenantIsCopied'
  <2> SUFFICES ASSUME ShardingTypeOK, OnlyTheTenantIsCopied, [Next]_vars
               PROVE  OnlyTheTenantIsCopied'
    OBVIOUS
  <2>1. CASE target' = target
    BY <2>1 DEF OnlyTheTenantIsCopied
  <2> QED
    BY <2>1, TargetChanges, OnlyTheTenantReplay, OnlyTheTenantBatch
<1> QED
  BY <1>1, <1>2, ShardingTypeCorrect, PTL DEF Spec

=============================================================================
