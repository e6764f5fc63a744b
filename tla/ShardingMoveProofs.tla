------------------------ MODULE ShardingMoveProofs ------------------------
(***************************************************************************)
(* ShardingFerry implements TenantMove: initial states map to initial      *)
(* states, and every step to a step of TenantMove or to no step.           *)
(***************************************************************************)
EXTENDS ShardingExactProofs, ShardingMove

\* Most leaves are first-order: Zenon is tried before the SMT solver.
USE ZenonT(5), SMTT(30)

\* The steps of Run before the callback that locks.
Early == {"start", "refused", "copying", "scanning", "reverifying", "throttle", "catch_up",
          "connect"}

\* The steps during which the throttler is disabled.
Unthrottled == {"flush", "await", "stop", "join", "delta", "verify", "load", "primary_keys",
                "once", "enable"}

\* Up to the callback the tenant is open; after it nothing is throttled, the
\* streamer knows where to stop, and Run ends with the tenant moved.
HomeInv ==
    /\ main \in Early /\ ~dead => cutover = "open"
    /\ main = "lock" /\ Alive("main") => cutover = "open"
    /\ main \in Unthrottled => disabled
    /\ main = "join" /\ errorCount = 0 => stopPos > 0
    /\ main = "finished" => cutover = "moved"

----------------------------------------------------------------------------
\* What changes the history and the lock.

\* A step of Run that is no callback leaves the tenant as locked as it was.
LEMMA MainLeavesCutover ==
    ASSUME MainStep
    PROVE  /\ UNCHANGED history
           /\ cutover' = cutover \/ CutoverLock \/ CutoverUnlock
<1> USE DEF replicationVars
<1>1. CASE Start \/ ScanFetch \/ ScanCompare
  BY <1>1 DEF Start, ScanFetch, ScanCompare
<1>2. CASE WaitUntilRowCopyIsComplete \/ ScanEnds \/ ReverifyEnds
  BY <1>2 DEF WaitUntilRowCopyIsComplete, ScanEnds, ReverifyEnds
<1>3. CASE WaitForThrottle \/ WaitUntilBinlogStreamerCatchesUp \/ InitializeWaitUntilReplica
  BY <1>3 DEF WaitForThrottle, WaitUntilBinlogStreamerCatchesUp, InitializeWaitUntilReplica
<1>4. CASE CutoverLock \/ CutoverUnlock
  BY <1>4 DEF CutoverLock, CutoverUnlock, SetCutover
<1>5. CASE DisableThrottler \/ ReplicaIsCaughtUp \/ FlushAndStop
  BY <1>5 DEF DisableThrottler, ReplicaIsCaughtUp, FlushAndStop
<1>6. CASE Flush
  BY <1>6 DEF Flush, ReadMasterPosition
<1>7. CASE StartDeltaCopy \/ DeltaCopyEnds \/ VerifyDuringCutover \/ VerificationFails
  BY <1>7 DEF StartDeltaCopy, DeltaCopyEnds, VerifyDuringCutover, VerificationFails
<1>8. CASE LoadPrimaryKeyTables \/ PrimaryKeyCopyEnds \/ VerifyOnce \/ VerifyOnceFails
  BY <1>8 DEF LoadPrimaryKeyTables, PrimaryKeyCopyEnds, VerifyOnce, VerifyOnceFails
<1>9. CASE EnableThrottler \/ MainGoesOn
  BY <1>9 DEF EnableThrottler, MainGoesOn
<1> QED
  BY <1>1, <1>2, <1>3, <1>4, <1>5, <1>6, <1>7, <1>8, <1>9, ZenonT(30) DEF MainStep

\* Only the application adds to the history, and only the callbacks lock and unlock.
LEMMA CutoverChanges ==
    ASSUME [Next]_vars
    PROVE  \/ Application
           \/ /\ UNCHANGED history
              /\ \/ cutover' = cutover
                 \/ CutoverLock \/ CutoverLockFails \/ CutoverUnlock \/ CutoverUnlockFails
<1> USE DEF replicationVars
<1>1. CASE Replication \/ ThrottlerUpdatesLag \/ StreamerStep
  BY <1>1 DEF Replication, Replicate, ThrottlerUpdatesLag, StreamerStep, ReplayEvents,
      FilterFails, FerryReturns
<1>2. CASE IteratorSteps \/ \E p \in JoinedPks : Reverify(p)
  BY <1>2 DEF IteratorSteps, MaxPrimaryKeys, IteratorStep, IteratorGivesUp, Reverify
<1>3. CASE Failure
  BY <1>3 DEF Failure, MainFails, CutoverLockFails, CutoverUnlockFails, StreamerFails,
      ThrottlerFails, IteratorFails, SetCutover
<1>4. CASE \E g \in Goroutines : ErrorStep(g)
  BY <1>4 DEF ErrorStep
<1>5. CASE UNCHANGED vars
  BY <1>5 DEF vars
<1> QED
  BY <1>1, <1>2, <1>3, <1>4, <1>5, MainLeavesCutover DEF Next

----------------------------------------------------------------------------
\* HomeInv is inductive.

\* A step that changes nothing of all this.
LEMMA HomeFrame ==
    ASSUME HomeInv, UNCHANGED <<main, cutover, dead, disabled, stopPos>>,
           errorCount' = 0 => errorCount = 0,
           handling'["main"] = "no" => handling["main"] = "no"
    PROVE  HomeInv'
BY DEF HomeInv, Alive

\* The steps of Run.
LEMMA HomeMain ==
    ASSUME ShardingTypeOK, ErrorsInv, HomeInv, MainStep
    PROVE  HomeInv'
<1> USE DEF replicationVars, throttlerVars, errorVars, runVars, ferryVars
<1>1. CASE Start
  <2>1. main \in Early /\ ~dead /\ main' \in {"copying", "refused"} /\ cutover' = cutover
    BY <1>1 DEF Start, Alive, Early
  <2> QED
    BY <2>1 DEF HomeInv, Unthrottled
<1>2. CASE \/ WaitUntilRowCopyIsComplete \/ ScanEnds \/ ReverifyEnds \/ WaitForThrottle
           \/ WaitUntilBinlogStreamerCatchesUp \/ InitializeWaitUntilReplica
  <2>1. /\ main \in Early /\ ~dead /\ cutover' = cutover
        /\ main' \in {"scanning", "reverifying", "throttle", "catch_up", "connect", "lock"}
    BY <1>2 DEF WaitUntilRowCopyIsComplete, ScanEnds, ReverifyEnds, WaitForThrottle,
        WaitUntilBinlogStreamerCatchesUp, InitializeWaitUntilReplica, Goes, Alive, Early
  <2> QED
    BY <2>1 DEF HomeInv, Unthrottled
<1>3. CASE ScanFetch \/ ScanCompare
  BY <1>3, HomeFrame DEF ScanFetch, ScanCompare
<1>4. CASE CutoverLock \/ EnableThrottler
  <2>1. main' \in {"disable", "unlock"}
    BY <1>4 DEF CutoverLock, EnableThrottler, Goes
  <2> QED
    BY <2>1 DEF HomeInv, Early, Unthrottled
<1>5. CASE DisableThrottler
  <2>1. main' = "flush" /\ disabled'
    BY <1>5 DEF DisableThrottler, Goes, SetDisabled
  <2> QED
    BY <2>1 DEF HomeInv, Early
<1>6. CASE \/ Flush \/ ReplicaIsCaughtUp \/ StartDeltaCopy \/ DeltaCopyEnds
           \/ VerifyDuringCutover \/ LoadPrimaryKeyTables \/ PrimaryKeyCopyEnds \/ VerifyOnce
  <2>1. /\ main \in Unthrottled /\ disabled' = disabled
        /\ main' \in {"await", "stop", "delta", "verify", "load", "primary_keys", "once", "enable"}
    BY <1>6 DEF Flush, ReplicaIsCaughtUp, StartDeltaCopy, DeltaCopyEnds, VerifyDuringCutover,
        LoadPrimaryKeyTables, PrimaryKeyCopyEnds, VerifyOnce, Goes, Unthrottled
  <2> QED
    BY <2>1 DEF HomeInv, Early
<1>7. CASE FlushAndStop
  <2>1. main = "stop" /\ main' = "join" /\ disabled' = disabled /\ stopPos' = replicated
    BY <1>7 DEF FlushAndStop, Goes
  <2>2. replicated > 0
    BY SMTT(30), PositionType
  <2> QED
    BY <2>1, <2>2 DEF HomeInv, Early, Unthrottled
<1>8. CASE VerificationFails \/ VerifyOnceFails
  <2>1. /\ UNCHANGED <<main, cutover, dead, disabled, stopPos, errorCount>>
        /\ handling["main"] = "no"
    BY <1>8 DEF VerificationFails, VerifyOnceFails, Fatal, Alive
  <2> QED
    BY <2>1, HomeFrame
<1>9. CASE CutoverUnlock
  <2>1. main' = "finished" /\ cutover' = "moved"
    BY <1>9 DEF CutoverUnlock, Goes, SetCutover
  <2> QED
    BY <2>1 DEF HomeInv, Early, Unthrottled
<1>10. CASE MainGoesOn
  <2>1. /\ ~dead /\ handling["main"] = "returned" /\ main' = AfterError[main]
        /\ UNCHANGED <<cutover, disabled, errorCount>>
    BY <1>10 DEF MainGoesOn, FatalReturns
  <2>2. errorCount # 0 /\ "main" \in Goroutines
    BY SMTT(30), <2>1 DEF ErrorsInv, Goroutines
  <2>3. main \in {"scanning", "reverifying", "connect", "lock", "flush", "await", "stop"}
    BY <1>10, <2>1, <2>2, NoReturnDuringCutover DEF MainGoesOn, AfterError, DuringCutover
  <2>4. CASE main \in {"scanning", "reverifying", "connect"}
    <3>1. main \in Early /\ main' \in {"throttle", "lock"}
      BY SMTT(30), <2>1, <2>4 DEF AfterError, Early
    <3> QED
      BY <2>1, <3>1 DEF HomeInv, Unthrottled
  <2>5. CASE main = "lock"
    <3>1. main' = "disable"
      BY <2>1, <2>5 DEF AfterError
    <3> QED
      BY <3>1 DEF HomeInv, Early, Unthrottled
  <2>6. CASE main \in {"flush", "await", "stop"}
    <3>1. main \in Unthrottled /\ main' = "join"
      BY SMTT(30), <2>1, <2>6 DEF AfterError, Unthrottled
    <3> QED
      BY <2>1, <2>2, <3>1 DEF HomeInv, Early
  <2> QED
    BY <2>3, <2>4, <2>5, <2>6
<1> QED
  BY <1>1, <1>2, <1>3, <1>4, <1>5, <1>6, <1>7, <1>8, <1>9, <1>10, ZenonT(30) DEF MainStep

\* All steps.
LEMMA HomeStep ==
    ASSUME ShardingTypeOK, ErrorsInv, HomeInv, [Next]_vars
    PROVE  HomeInv'
<1> USE DEF replicationVars, throttlerVars, errorVars, runVars, ferryVars
<1>1. CASE Application \/ Replication
  <2>1. cutover' = cutover
    BY <1>1, ApplicationType DEF Application, Replication, Replicate, ShardingTypeOK
  <2> QED
    BY <1>1, <2>1, HomeFrame DEF Application, Replication
<1>2. CASE (\E p \in JoinedPks : Reverify(p)) \/ ThrottlerUpdatesLag
  BY <1>2, HomeFrame DEF Reverify, ThrottlerUpdatesLag, UpdateLag
<1>3. CASE ReplayEvents \/ FerryReturns
  BY <1>3, HomeFrame DEF ReplayEvents, FerryReturns
<1>4. CASE MaxPrimaryKeys \/ \E t \in AllTables : IteratorStep(t)
  BY <1>4, HomeFrame DEF MaxPrimaryKeys, IteratorStep
<1>5. ASSUME NEW g \in Goroutines, Fatal(g), UNCHANGED <<main, cutover, disabled, stopPos>>
      PROVE  HomeInv'
  <2>1. handling'["main"] = "no" => handling["main"] = "no"
    BY <1>5 DEF Fatal, Alive, ShardingTypeOK, ErrorTypeOK, Goroutines
  <2> QED
    BY <1>5, <2>1, HomeFrame DEF Fatal
<1>6. CASE MainFails \/ StreamerFails \/ ThrottlerFails \/ IteratorFails \/ FilterFails
  BY <1>5, <1>6 DEF MainFails, StreamerFails, ThrottlerFails, IteratorFails, FilterFails, Goroutines
<1>7. CASE CutoverLockFails
  <2>1. main' = "lock" /\ handling'["main"] = "posting"
    BY <1>7 DEF CutoverLockFails, Fatal, ShardingTypeOK, ErrorTypeOK, Goroutines
  <2> QED
    BY <2>1 DEF HomeInv, Early, Unthrottled, Alive
<1>8. CASE CutoverUnlockFails
  <2>1. main' = "unlock"
    BY <1>8 DEF CutoverUnlockFails
  <2> QED
    BY <2>1 DEF HomeInv, Early, Unthrottled
<1>9. CASE IteratorGivesUp
  <2>1. handling'["main"] = handling["main"]
    BY <1>9 DEF IteratorGivesUp, FatalReturns, ShardingTypeOK, ErrorTypeOK, Goroutines
  <2> QED
    BY <1>9, <2>1, HomeFrame DEF IteratorGivesUp, FatalReturns
<1>10. ASSUME NEW g \in Goroutines, ErrorStep(g)
       PROVE  HomeInv'
  <2>1. CASE CountError(g) /\ UNCHANGED <<replicationVars, throttlerVars, runVars, ferryVars,
                                          cursorVars, verifierVars, target>>
    <3>1. errorCount' # 0
      BY SMTT(30), <2>1 DEF CountError, ShardingTypeOK, ErrorTypeOK
    <3>2. handling'["main"] = "no" => handling["main"] = "no"
      BY <2>1 DEF CountError, ShardingTypeOK, ErrorTypeOK, Goroutines
    <3> QED
      BY <2>1, <3>1, <3>2, HomeFrame DEF CountError
  <2>2. CASE Panic(g) /\ Forget /\ UNCHANGED <<replicationVars, runFerryFromReplica, target>>
    <3>1. dead' /\ main' = "start"
      BY <2>2 DEF Panic, Forget
    <3> QED
      BY <3>1 DEF HomeInv, Early, Unthrottled
  <2> QED
    BY <1>10, <2>1, <2>2 DEF ErrorStep
<1>11. CASE UNCHANGED vars
  BY <1>11, HomeFrame DEF vars
<1> QED
  BY <1>1, <1>2, <1>3, <1>4, <1>6, <1>7, <1>8, <1>9, <1>10, <1>11, HomeMain
  DEF Next, StreamerStep, IteratorSteps, Failure

\* The invariant of the refinement.
MoveInv == ShardingTypeOK /\ ErrorsInv /\ LockInv /\ DeltaInv /\ StopInv /\ HomeInv

\* It holds in every state of a run.
THEOREM MoveInvariant == Spec => []MoveInv
<1>1. Init => HomeInv
  BY DEF Init, ReplicationInit, HomeInv, Unthrottled
<1>2. ShardingTypeOK /\ ErrorsInv /\ HomeInv /\ [Next]_vars => HomeInv'
  BY HomeStep
<1> QED
  BY <1>1, <1>2, ShardingInvariant, ExactInvariant, PTL DEF Spec, MoveInv

----------------------------------------------------------------------------
\* The refinement, step by step.

\* The row of the primary key table is none of the join tables.
LEMMA TenantRowsAre ==
    /\ PrimaryKeyRow \in TenantRows
    /\ \A r \in JoinRows : r \in TenantRows /\ r # PrimaryKeyRow
    /\ \A r \in TenantRows : r = PrimaryKeyRow \/ r \in JoinRows
<1>1. \A r \in JoinRows : r # PrimaryKeyRow
  <2> SUFFICES ASSUME NEW r \in JoinRows, r = PrimaryKeyRow PROVE FALSE
    OBVIOUS
  <2>1. r[1] # PrimaryKeyTable
    BY RowsOfTables
  <2>2. r[1] = PrimaryKeyTable
    BY DEF PrimaryKeyRow
  <2> QED
    BY <2>1, <2>2
<1> QED
  BY <1>1 DEF TenantRows

\* What is known of the tenant on the source depends on the history alone.
LEMMA ViewsFrame ==
    ASSUME history' = history
    PROVE  /\ TenantView(Master)' = TenantView(Master)
           /\ {TenantView(history[p]) : p \in 1..Len(history)}' =
                 {TenantView(history[p]) : p \in 1..Len(history)}
BY DEF Master, TenantView

\* A step that the users of the tenant do not see.
LEMMA Unseen ==
    ASSUME UNCHANGED <<history, target, cutover>>
    PROVE  UNCHANGED Tenant!moveVars
<1>1. TargetRows' = TargetRows /\ Home' = Home /\ target.joined' = target.joined
  BY DEF TargetRows, Home
<1> QED
  BY <1>1, ViewsFrame DEF Tenant!moveVars

\* A transaction of the application adds a view of the tenant.
LEMMA ApplicationRefines ==
    ASSUME ShardingTypeOK, Application
    PROVE  Tenant!SourceChanges
<1>1. /\ cutover = "open" /\ cutover' = cutover /\ target' = target
      /\ history \in Seq(Contents)
  BY ApplicationType DEF Application, ShardingTypeOK, ReplicationTypeOK
<1>2. PICK data \in Contents : history' = Append(history, data)
  BY ApplicationType DEF Application, ShardingTypeOK
<1>3. Len(history) \in Nat
  BY SMTT(30), <1>1
<1>4. Len(history') = Len(history) + 1
  BY SMTT(30), <1>1, <1>2
<1>5. /\ history'[Len(history) + 1] = data
      /\ \A p \in 1..Len(history) : history'[p] = history[p]
  BY SMTT(30), <1>1, <1>2
<1>6. 1..(Len(history) + 1) = (1..Len(history)) \cup {Len(history) + 1}
  BY SMTT(30), <1>3
<1>7. Master' = data
  BY <1>4, <1>5 DEF Master
<1>8. {TenantView(history'[p]) : p \in 1..Len(history')} =
        {TenantView(history[p]) : p \in 1..Len(history)} \cup {TenantView(data)}
  BY <1>4, <1>5, <1>6
<1>9. TargetRows' = TargetRows /\ Home' = Home /\ Home = "source"
  BY <1>1 DEF TargetRows, Home
<1>10. TenantView(Master)' = TenantView(data)
  BY <1>7 DEF TenantView
<1>11. {TenantView(history[p]) : p \in 1..Len(history)}' =
         {TenantView(history'[p]) : p \in 1..Len(history')}
  BY DEF TenantView
<1> QED
  BY <1>1, <1>8, <1>9, <1>10, <1>11 DEF Tenant!SourceChanges

\* What a step has to show to be an arrival of rows.
LEMMA ArrivalRefines ==
    ASSUME UNCHANGED <<history, cutover>>, cutover \in {"open", "locked"},
           NEW p \in 1..Len(history),
           \A r \in JoinRows : \/ target'.join[r] = target.join[r]
                              \/ target'.join[r] = TenantView(history[p]).rows[r],
           \/ target'.tenant[ShardingValue] = target.tenant[ShardingValue]
           \/ target'.tenant[ShardingValue] = history[p].tenant[ShardingValue],
           target.joined \subseteq target'.joined,
           target'.joined \subseteq target.joined \cup References(history[p])
    PROVE  Tenant!Arrive
<1> DEFINE past == {TenantView(history[q]) : q \in 1..Len(history)}
           view == TenantView(history[p])
<1>1. view \in past
  OBVIOUS
<1>2. view.needs = References(history[p])
  BY DEF TenantView
<1>3. \A r \in TenantRows : TargetRows'[r] = TargetRows[r] \/ TargetRows'[r] = view.rows[r]
  <2> SUFFICES ASSUME NEW r \in TenantRows
               PROVE  TargetRows'[r] = TargetRows[r] \/ TargetRows'[r] = view.rows[r]
    OBVIOUS
  <2>1. CASE r = PrimaryKeyRow
    <3>1. /\ TargetRows[r] = target.tenant[ShardingValue]
          /\ TargetRows'[r] = target'.tenant[ShardingValue]
          /\ view.rows[r] = history[p].tenant[ShardingValue]
      BY <2>1 DEF TargetRows, TenantView
    <3> QED
      BY <3>1
  <2>2. CASE r # PrimaryKeyRow
    <3>1. r \in JoinRows /\ TargetRows[r] = target.join[r] /\ TargetRows'[r] = target'.join[r]
      BY <2>2, TenantRowsAre DEF TargetRows
    <3> QED
      BY <3>1
  <2> QED
    BY <2>1, <2>2
<1>4. Home' = Home /\ Home # "target"
  BY DEF Home
<1> HIDE DEF past, view
<1>5. \A r \in TenantRows : \/ TargetRows'[r] = TargetRows[r]
                            \/ \E v \in past : TargetRows'[r] = v.rows[r]
  BY <1>1, <1>3
<1>6. \A s \in target'.joined : s \in target.joined \/ \E v \in past : s \in v.needs
  BY <1>1, <1>2
<1> QED
  BY <1>4, <1>5, <1>6, ViewsFrame DEF Tenant!Arrive, past

\* The rows of the tenant in a view of it.
LEMMA ViewRows ==
    ASSUME NEW data, NEW r \in JoinRows
    PROVE  TenantView(data).rows[r] = IF OfTenant(data.join[r]) THEN data.join[r] ELSE NoRow
BY TenantRowsAre DEF TenantView

\* An event is replayed: the row arrives as it was after the event.
LEMMA ReplayRefines ==
    ASSUME MoveInv, ReplayEvents
    PROVE  Tenant!Arrive
<1>1. UNCHANGED <<history, cutover>> /\ ~dead /\ ~ferryDone
  BY DEF ReplayEvents, replicationVars, Alive, Streaming
<1>2. cutover \in {"open", "locked"}
  <2>1. DuringCutover \/ main = "finished" => ferryDone
    BY DEF MoveInv, ErrorsInv, StopInv
  <2> QED
    BY <1>1, <2>1 DEF MoveInv, LockInv, DuringCutover, ShardingTypeOK, ReplicationTypeOK
<1>3. streamed + 1 \in 1..Len(history)
  BY SMTT(30), PositionType DEF MoveInv, ReplayEvents
<1>4. target'.tenant = target.tenant /\ target'.joined = target.joined
  BY DEF ReplayEvents, MoveInv, ShardingTypeOK, Contents
<1>5. ASSUME NEW r \in JoinRows
      PROVE  \/ target'.join[r] = target.join[r]
             \/ target'.join[r] = TenantView(history[streamed + 1]).rows[r]
  <2> DEFINE old == history[streamed].join[r]
             new == history[streamed + 1].join[r]
             row == target.join[r]
  <2>1. target'.join[r] =
           IF old # new /\ ApplicableEvent(old, new) = "yes" THEN Replay(old, new, row) ELSE row
    BY DEF ReplayEvents, MoveInv, ShardingTypeOK, Contents
  <2>2. Replay(old, new, row) \in {new, row}
    BY DEF Replay
  <2>3. TenantView(history[streamed + 1]).rows[r] = IF OfTenant(new) THEN new ELSE NoRow
    BY ViewRows
  <2> HIDE DEF old, new, row
  <2>4. ApplicableEvent(old, new) = "yes" => (new # NoRow => OfTenant(new))
    BY ApplicableIsOfTenant
  <2> QED
    BY <2>1, <2>2, <2>3, <2>4 DEF row
<1> QED
  BY <1>1, <1>2, <1>3, <1>4, <1>5, ArrivalRefines

\* A batch is written: its rows arrive as they are on the server that is read.
LEMMA BatchRefines ==
    ASSUME MoveInv, NEW t \in AllTables, IteratorStep(t), target' # target
    PROVE  Tenant!Arrive
<1> DEFINE batch == BuildSelect(Source, t, lastPk[t])
<1>1. UNCHANGED <<history, cutover>> /\ ~dead /\ CopiedTables # {}
  BY DEF IteratorStep, CopyBatch, CompleteTable, replicationVars, Alive
<1>2. cutover \in {"open", "locked"}
  BY <1>1 DEF CopiedTables, MoveInv, LockInv, ShardingTypeOK, ReplicationTypeOK
<1>3. target' = InsertIgnore(Source, t, batch, target)
  BY DEF IteratorStep, CopyBatch, CompleteTable
<1>4. replicated \in 1..Len(history)
  BY DEF MoveInv, ShardingTypeOK, ReplicationTypeOK
<1>5. target \in Contents
  BY DEF MoveInv, ShardingTypeOK
<1>6. CASE t = PrimaryKeyTable
  <2>1. /\ target'.join = target.join /\ target'.joined = target.joined
        /\ target'.tenant = [p \in Tenants |->
             IF p \in batch /\ target.tenant[p] = NoRow THEN Source.tenant[p] ELSE target.tenant[p]]
    BY <1>3, <1>5, <1>6, ZenonT(30) DEF InsertIgnore, Contents
  <2>2. \/ target'.tenant[ShardingValue] = target.tenant[ShardingValue]
        \/ target'.tenant[ShardingValue] = history[replicated].tenant[ShardingValue]
    BY <2>1, ShardedTablesAssumption DEF Source
  <2> QED
    BY <1>1, <1>2, <1>4, <2>1, <2>2, ArrivalRefines
<1>7. CASE t = JoinedTable
  <2>1. /\ target'.join = target.join /\ target'.tenant = target.tenant
        /\ target'.joined = target.joined \cup batch
    BY <1>3, <1>5, <1>7 DEF InsertIgnore, Contents, JoinedTable, PrimaryKeyTable
  <2>2. batch \subseteq References(history[replicated])
    BY <1>7 DEF BuildSelect, JoinedBatch, FirstKeys, JoinedTable, PrimaryKeyTable, Source
  <2> QED
    BY <1>1, <1>2, <1>4, <2>1, <2>2, ArrivalRefines
<1>8. CASE t # JoinedTable /\ t # PrimaryKeyTable
  <2>1. /\ target'.tenant = target.tenant /\ target'.joined = target.joined
        /\ target'.join = [r \in JoinRows |->
             IF r[1] = t /\ r[2] \in batch /\ target.join[r] = NoRow
               THEN Source.join[r] ELSE target.join[r]]
    BY <1>3, <1>5, <1>8 DEF InsertIgnore, Contents
  <2>2. \A i \in batch : OfTenant(Source.join[<<t, i>>])
    BY <1>8 DEF BuildSelect, ShardedBatch, FirstKeys
  <2> HIDE DEF batch
  <2>3. ASSUME NEW r \in JoinRows
        PROVE  \/ target'.join[r] = target.join[r]
               \/ target'.join[r] = TenantView(history[replicated]).rows[r]
    <3>1. CASE r[1] = t /\ r[2] \in batch
      <4>1. OfTenant(Source.join[r])
        BY <2>2, <3>1, RowsOfTables
      <4>2. TenantView(history[replicated]).rows[r] = Source.join[r]
        BY <4>1, ViewRows DEF Source
      <4> QED
        BY <2>1, <4>2
    <3>2. CASE ~ (r[1] = t /\ r[2] \in batch)
      BY <2>1, <3>2
    <3> QED
      BY <3>1, <3>2
  <2> QED
    BY <1>1, <1>2, <1>4, <2>1, <2>3, ArrivalRefines
<1> QED
  BY <1>6, <1>7, <1>8

\* The lock callback locks an open tenant.
LEMMA LockRefines ==
    ASSUME MoveInv, CutoverLock \/ CutoverLockFails
    PROVE  Tenant!Lock \/ UNCHANGED Tenant!moveVars
<1>1. /\ main = "lock" /\ Alive("main") /\ UNCHANGED <<history, target>>
      /\ cutover' \in {"open", "locked"}
  BY DEF CutoverLock, CutoverLockFails, Goes, Fatal, SetCutover
<1>2. cutover = "open"
  BY <1>1 DEF MoveInv, HomeInv
<1>3. CASE cutover' = "open"
  BY <1>1, <1>2, <1>3, Unseen
<1>4. CASE cutover' = "locked"
  <2>1. TargetRows' = TargetRows
    BY <1>1 DEF TargetRows
  <2>2. Home = "source" /\ Home' = "nowhere"
    BY <1>2, <1>4 DEF Home
  <2> QED
    BY <1>1, <2>1, <2>2, ViewsFrame DEF Tenant!Lock
<1> QED
  BY <1>1, <1>3, <1>4

\* The unlock callback finds the tenant complete, with nothing beside it.
LEMMA UnlockRefines ==
    ASSUME MoveInv, CutoverUnlock \/ CutoverUnlockFails
    PROVE  Tenant!Unlock \/ UNCHANGED Tenant!moveVars
<1>1. /\ main = "unlock" /\ UNCHANGED <<history, target>>
      /\ cutover' \in {cutover, "moved"}
  BY DEF CutoverUnlock, CutoverUnlockFails, Goes, SetCutover
<1>2. DuringCutover
  BY <1>1 DEF DuringCutover
<1>3. cutover \in {"locked", "moved"}
  BY <1>2 DEF MoveInv, LockInv, SourceIsCurrent, ShardingTypeOK, ReplicationTypeOK
<1>4. CASE cutover' = cutover
  BY <1>1, <1>4, Unseen
<1>5. CASE cutover = "locked" /\ cutover' = "moved"
  <2>1. /\ ShardedRowsArrived /\ JoinedRowsArrived
        /\ target.tenant[ShardingValue] = Master.tenant[ShardingValue]
    BY <1>1, <1>2 DEF MoveInv, StopInv, DeltaInv
  <2>2. ASSUME NEW r \in TenantRows
        PROVE  TargetRows[r] = TenantView(Master).rows[r]
    <3>1. CASE r = PrimaryKeyRow
      BY <2>1, <3>1 DEF TargetRows, TenantView
    <3>2. CASE r # PrimaryKeyRow
      <4>1. r \in JoinRows /\ TargetRows[r] = target.join[r]
        BY <3>2, TenantRowsAre DEF TargetRows
      <4> QED
        BY <2>1, <4>1, ViewRows DEF ShardedRowsArrived
    <3> QED
      BY <3>1, <3>2
  <2>3. TenantView(Master).needs \subseteq target.joined
    BY <2>1 DEF TenantView, JoinedRowsArrived
  <2>4. TargetRows' = TargetRows
    BY <1>1 DEF TargetRows
  <2>5. Home = "nowhere" /\ Home' = "target"
    BY <1>5 DEF Home
  <2> QED
    BY <1>1, <2>2, <2>3, <2>4, <2>5, ViewsFrame DEF Tenant!Unlock
<1> QED
  BY <1>1, <1>3, <1>4, <1>5

\* A sharding run moves a tenant as TenantMove says, for any tables, rows and
\* batch size, with or without a replica, and with any number of errors: rows
\* arrive as they once were, the tenant is unlocked on the target only when it is
\* complete and exact there, and from then on the target is left alone.
THEOREM ShardingImplementsTenantMove == Spec => ImplementsTenantMove
<1>1. Init => Tenant!MoveInit
  <2> SUFFICES ASSUME Init PROVE Tenant!MoveInit
    OBVIOUS
  <2>1. cutover = "open" /\ \E data \in InitialContents : history = <<data>>
    BY DEF Init, ReplicationInit
  <2>2. Len(history) = 1 /\ Master = history[1]
    BY <2>1 DEF Master
  <2>3. 1..Len(history) = {1}
    BY SMTT(30), <2>2
  <2>4. {TenantView(history[p]) : p \in 1..Len(history)} = {TenantView(Master)}
    BY <2>2, <2>3
  <2>5. Home = "source"
    BY <2>1 DEF Home
  <2> QED
    BY <2>4, <2>5 DEF Tenant!MoveInit
<1>2. MoveInv /\ [Next]_vars => [Tenant!MoveNext]_(Tenant!moveVars)
  <2> SUFFICES ASSUME MoveInv, [Next]_vars
               PROVE  Tenant!MoveNext \/ UNCHANGED Tenant!moveVars
    OBVIOUS
  <2>1. CASE Application
    BY <2>1, ApplicationRefines DEF MoveInv, Tenant!MoveNext
  <2>2. CASE ReplayEvents
    BY <2>2, ReplayRefines DEF Tenant!MoveNext
  <2>3. CASE target' # target /\ \E t \in AllTables : IteratorStep(t)
    BY <2>3, BatchRefines DEF Tenant!MoveNext
  <2>4. CASE CutoverLock \/ CutoverLockFails
    BY <2>4, LockRefines DEF Tenant!MoveNext
  <2>5. CASE CutoverUnlock \/ CutoverUnlockFails
    BY <2>5, UnlockRefines DEF Tenant!MoveNext
  <2>6. CASE UNCHANGED <<history, target, cutover>>
    BY <2>6, Unseen
  <2> QED
    BY <2>1, <2>2, <2>3, <2>4, <2>5, <2>6, TargetChanges, CutoverChanges
<1>3. ImplementsTenantMove <=> Tenant!MoveInit /\ [][Tenant!MoveNext]_(Tenant!moveVars)
  BY DEF ImplementsTenantMove, Tenant!MoveSpec
<1> QED
  BY <1>1, <1>2, <1>3, MoveInvariant, PTL DEF Spec

----------------------------------------------------------------------------
\* Nobody waits for ever while the tenant is locked.

\* While the tenant is locked and the process runs, some goroutine, some call of
\* Fatal or the replication can go on: Run never waits for a streamer that was
\* not told where to stop or that the throttler holds back, nor for a replica that
\* has all there is, nor for an iterator that waits itself.
THEOREM LockedRunAlwaysGoesOn == Spec => []LockedRunGoesOn
<1>1. MoveInv => LockedRunGoesOn
  <2> SUFFICES ASSUME MoveInv, cutover = "locked", ~dead, ~CanGoOn
               PROVE  FALSE
    BY DEF LockedRunGoesOn
  <2>1. \A g \in Goroutines : handling[g] \notin {"posting", "dumping"}
    BY DEF CanGoOn
  <2>2. errorCount = 0
    BY SMTT(30), <2>1, PositionType DEF MoveInv, ErrorsInv
  <2>3. \A g \in Goroutines : handling[g] = "no"
    BY <2>1, <2>2 DEF MoveInv, ErrorsInv, ShardingTypeOK, ErrorTypeOK
  <2>4. handling["main"] = "no" /\ Alive("main")
    BY <2>3 DEF Goroutines, Alive
  <2>5. main \notin Early \cup {"lock", "finished"}
    BY <2>4 DEF MoveInv, HomeInv
  <2>6. main \in {"await", "join", "delta", "primary_keys"}
    BY <2>4, <2>5 DEF CanGoOn, Early, MoveInv, ShardingTypeOK
  <2>7. main # "await" => disabled /\ NotThrottled
    BY <2>6 DEF MoveInv, HomeInv, Unthrottled, NotThrottled
  <2>8. CASE main = "await"
    <3>1. masterPos = Len(history)
      BY <2>2, <2>8 DEF MoveInv, LockInv
    <3>2. replicated \in 1..replicated /\ replicated >= Len(history)
      BY SMTT(30), PositionType DEF CanGoOn, MoveInv
    <3>3. IsCaughtUp
      BY <3>1, <3>2 DEF IsCaughtUp
    <3> QED
      BY <2>4, <2>8, <3>3 DEF CanGoOn
  <2>9. CASE main = "join"
    <3>1. stopPos > 0
      BY <2>2, <2>9 DEF MoveInv, HomeInv
    <3>2. ~ferryDone /\ Streaming
      BY <2>4, <2>9 DEF CanGoOn, Streaming, Started
    <3>3. streamed < stopPos /\ streamed < replicated
      BY SMTT(30), <3>1, <3>2, PositionType DEF CanGoOn, MoveInv
    <3> QED
      BY <2>7, <2>9, <3>2, <3>3 DEF CanGoOn
  <2>10. CASE main \in {"delta", "primary_keys"}
    <3>1. ~CopyIsDone
      BY <2>4, <2>10 DEF CanGoOn
    <3>2. PICK t \in CopiedTables : cursor[t] # "done"
      BY <3>1 DEF CopyIsDone
    <3>3. t \in AllTables
      BY <2>10, <3>2 DEF CopiedTables, ApplicableTables, AllTables
    <3>4. cursor[t] \in {"unread", "open"}
      BY <3>2, <3>3 DEF MoveInv, ShardingTypeOK
    <3> QED
      BY <2>7, <2>10, <3>2, <3>4 DEF CanGoOn
  <2> QED
    BY <2>6, <2>8, <2>9, <2>10
<1> QED
  BY <1>1, MoveInvariant, PTL
=============================================================================
