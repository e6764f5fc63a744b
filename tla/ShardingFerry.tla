--------------------------- MODULE ShardingFerry ---------------------------
(***************************************************************************)
(* sharding/sharding.go: the run that moves one tenant, with the callbacks *)
(* that lock and unlock it, composed with the filters, the throttler, the  *)
(* error handler and the replica the tables are read from.                 *)
(*                                                                         *)
(* `main' is where ShardingFerry.Run is.  What Ferry and IterativeVerifier *)
(* show in detail is used here in larger steps: a batch is on the target   *)
(* in the step that reads it, as its rows stay locked in between, and an   *)
(* event is replayed in the step that takes it from the log.  Of the       *)
(* verification the joined table is modelled, which the streamer does not  *)
(* follow.  An iterator that fails stops all its workers.                  *)
(***************************************************************************)
EXTENDS SourceReplication, LagThrottler, FatalErrors

CONSTANT InitialTargets   \* what the target may hold at first

(***************************************************************************)
(* The target may hold rows of the joined table and of the primary key     *)
(* table already, for instance of a run that was given up; the sharded     *)
(* tables have been emptied.                                               *)
(***************************************************************************)
ASSUME ShardingFerryAssumption ==
    \A data \in InitialTargets :
        /\ data \in Contents
        /\ \A r \in JoinRows : data.join[r] = NoRow
        /\ \A p \in Tenants \ {ShardingValue} : data.tenant[p] = NoRow

VARIABLES main,                 \* the step of Run that comes next
          runFerryFromReplica,  \* the configuration says so
          waiterSet,            \* WaitUntilReplicaIsCaughtUpToMaster is not nil
          streamed,             \* position up to which the log is replayed
          stopPos,              \* targetBinlogPosition, 0 before FlushAndStop
          ferryDone,            \* Ferry.Run has returned
          cursor,               \* per table: "unread", "open" or "done"
          maxPk, lastPk,        \* per table, of that cursor
          scanned,              \* joined rows fetched and not yet compared
          store,                \* reverifyStore, the joined rows in it
          verdict,              \* of VerifyDuringCutover
          target

runVars == <<main, runFerryFromReplica, waiterSet>>
ferryVars == <<streamed, stopPos, ferryDone>>
cursorVars == <<cursor, maxPk, lastPk>>
verifierVars == <<scanned, store, verdict>>
vars == <<replicationVars, throttlerVars, errorVars, runVars, ferryVars,
          cursorVars, verifierVars, target>>

Init ==
    /\ ReplicationInit
    /\ ThrottlerInit
    /\ ErrorInit
    /\ main = "start"
    /\ runFerryFromReplica \in {FALSE, sourceIsReplica}
    /\ waiterSet = FALSE
    /\ streamed = 0
    /\ stopPos = 0
    /\ ferryDone = FALSE
    /\ cursor = [t \in AllTables |-> "unread"]
    /\ maxPk = [t \in AllTables |-> 0]
    /\ lastPk = [t \in AllTables |-> 0]
    /\ scanned = {}
    /\ store = {}
    /\ verdict = "none"
    /\ target \in InitialTargets

----------------------------------------------------------------------------
\* Start.

\* sanityCheckReplicationConfig: a replica is not read unless this is configured.
\* The master's configuration is taken to be that of the master.
SanityCheckReplicationConfig == runFerryFromReplica \/ ~sourceIsReplica

\* Slip: the position to stream from is taken from the master.
StartAtMasterPosition ==
    /\ Alive("main")
    /\ main = "start"
    /\ SanityCheckReplicationConfig
    /\ main' = "copying" /\ streamed' = Len(history)
    /\ UNCHANGED <<replicationVars, throttlerVars, errorVars, runFerryFromReplica,
                   waiterSet, stopPos, ferryDone, cursorVars, verifierVars, target>>

Start ==
    /\ Alive("main")
    /\ main = "start"
    /\ IF SanityCheckReplicationConfig
         THEN main' = "copying" /\ streamed' = replicated
         ELSE main' = "refused" /\ UNCHANGED streamed
    /\ UNCHANGED <<replicationVars, throttlerVars, errorVars, runFerryFromReplica,
                   waiterSet, stopPos, ferryDone, cursorVars, verifierVars, target>>

----------------------------------------------------------------------------
\* Ferry.Run: the streamer, with the writer behind it.

Started == main \notin {"start", "refused"}
Streaming == Started /\ ~ferryDone

\* The rows of the join tables the transaction at position p + 1 changed.
Changed(p) == {r \in JoinRows : history[p].join[r] # history[p + 1].join[r]}

Verdicts(p) == {ApplicableEvent(history[p].join[r], history[p + 1].join[r]) : r \in Changed(p)}

ReplayEvents ==
    /\ Streaming
    /\ Alive("streamer")
    /\ NotThrottled
    /\ streamed < replicated
    /\ stopPos = 0 \/ streamed < stopPos
    /\ "error" \notin Verdicts(streamed)
    /\ target' = [target EXCEPT !.join = [r \in JoinRows |->
           LET old == history[streamed].join[r]
               new == history[streamed + 1].join[r] IN
           IF old # new /\ ApplicableEvent(old, new) = "yes"
             THEN Replay(old, new, target.join[r]) ELSE target.join[r]]]
    /\ streamed' = streamed + 1
    /\ UNCHANGED <<replicationVars, throttlerVars, errorVars, runVars, stopPos, ferryDone,
                   cursorVars, verifierVars>>

\* The filter returns an error.
FilterFails ==
    /\ Streaming
    /\ streamed < replicated
    /\ stopPos = 0 \/ streamed < stopPos
    /\ "error" \in Verdicts(streamed)
    /\ Fatal("streamer")
    /\ UNCHANGED <<replicationVars, throttlerVars, runVars, ferryVars,
                   cursorVars, verifierVars, target>>

\* The log cannot be read, or an event cannot be written to the target.
StreamerFails ==
    /\ Streaming
    /\ Fatal("streamer")
    /\ UNCHANGED <<replicationVars, throttlerVars, runVars, ferryVars,
                   cursorVars, verifierVars, target>>

\* Run returns once the streamer has reached the position it is to stop at, and
\* the goroutine of the throttler has ended.
FerryReturns ==
    /\ Streaming
    /\ ~dead
    /\ \/ handling["streamer"] = "no" /\ stopPos # 0 /\ streamed >= stopPos
       \/ handling["streamer"] = "returned"
    /\ handling["throttler"] \in {"no", "returned"}
    /\ main # "copying"
    /\ ferryDone' = TRUE
    /\ UNCHANGED <<replicationVars, throttlerVars, errorVars, runVars, streamed, stopPos,
                   cursorVars, verifierVars, target>>

----------------------------------------------------------------------------
\* The throttler's goroutine, which is cancelled when Ferry.Run returns.

ThrottlerUpdatesLag ==
    /\ Streaming
    /\ Alive("throttler")
    /\ UpdateLag
    /\ UNCHANGED <<replicationVars, errorVars, runVars, ferryVars,
                   cursorVars, verifierVars, target>>

\* The lag could not be read five times in a row.
ThrottlerFails ==
    /\ Streaming
    /\ Fatal("throttler")
    /\ UNCHANGED <<replicationVars, throttlerVars, runVars, ferryVars,
                   cursorVars, verifierVars, target>>

----------------------------------------------------------------------------
\* The data iterator of Ferry.Run, and those of RunStandaloneDataCopy.

\* The tables of the iterator that runs now.
CopiedTables ==
    IF main = "copying" THEN ApplicableTables({})
    ELSE IF main = "delta" THEN {JoinedTable}
    ELSE IF main = "primary_keys" THEN ApplicableTables({PrimaryKeyTable}) \cap {PrimaryKeyTable}
    ELSE {}

\* The cursor of the table t is done with.
Closed(t) ==
    /\ cursor' = [cursor EXCEPT ![t] = "done"]
    /\ maxPk' = [maxPk EXCEPT ![t] = 0]
    /\ lastPk' = [lastPk EXCEPT ![t] = 0]

CopyIsDone == \A t \in CopiedTables : cursor[t] = "done"

\* One round of Cursor.Each: a batch is read and written.  An empty one ends it.
CopyBatch(t) ==
    LET batch == BuildSelect(Source, t, lastPk[t]) IN
    /\ Alive("iterator")
    /\ NotThrottled
    /\ cursor[t] = "open"
    /\ lastPk[t] < maxPk[t]
    /\ \/ batch = {} /\ Closed(t) /\ UNCHANGED target
       \/ \E k \in LastOfBatch(t, batch) :
             /\ lastPk' = [lastPk EXCEPT ![t] = k]
             /\ target' = InsertIgnore(Source, t, batch, target)
             /\ UNCHANGED <<cursor, maxPk>>

CompleteTable(t) ==
    /\ Alive("iterator")
    /\ cursor[t] = "open"
    /\ lastPk[t] >= maxPk[t]
    /\ Closed(t)
    /\ UNCHANGED target

(***************************************************************************)
(* MaxPrimaryKeys of all tables, one query each; a table without rows is   *)
(* done at once.  No batch is read before the last of them.                *)
(***************************************************************************)
MaxPrimaryKeys ==
    /\ Alive("iterator")
    /\ \E t \in CopiedTables : cursor[t] = "unread"
    /\ maxPk' \in [AllTables -> {0} \cup UNION {KeysOf(Source, t) : t \in CopiedTables}]
    /\ \A t \in AllTables :
          IF t \in CopiedTables /\ KeysOf(Source, t) # {}
            THEN maxPk'[t] \in KeysOf(Source, t) /\ \A k \in KeysOf(Source, t) : k <= maxPk'[t]
            ELSE maxPk'[t] = 0
    /\ cursor' = [t \in AllTables |->
           IF t \notin CopiedTables THEN cursor[t]
           ELSE IF KeysOf(Source, t) = {} THEN "done" ELSE "open"]
    /\ UNCHANGED <<replicationVars, throttlerVars, errorVars, runVars, ferryVars, lastPk,
                   verifierVars, target>>

IteratorStep(t) ==
    /\ t \in CopiedTables
    /\ CopyBatch(t) \/ CompleteTable(t)
    /\ UNCHANGED <<replicationVars, throttlerVars, errorVars, runVars, ferryVars, verifierVars>>

IteratorFails ==
    /\ ~CopyIsDone
    /\ Fatal("iterator")
    /\ UNCHANGED <<replicationVars, throttlerVars, runVars, ferryVars,
                   cursorVars, verifierVars, target>>

\* The worker whose Fatal returned leaves its table as it is, and Run goes on.  If
\* MaxPrimaryKeys failed it returns before its done listeners are called, and the
\* wait for the row copy does not end.
IteratorGivesUp ==
    /\ main = "copying" => \A t \in CopiedTables : cursor[t] # "unread"
    /\ FatalReturns("iterator")
    /\ cursor' = [t \in AllTables |-> IF t \in CopiedTables THEN "done" ELSE cursor[t]]
    /\ maxPk' = [t \in AllTables |-> 0]
    /\ lastPk' = [t \in AllTables |-> 0]
    /\ UNCHANGED <<replicationVars, throttlerVars, runVars, ferryVars,
                   verifierVars, target>>

----------------------------------------------------------------------------
\* The main goroutine.

\* Run goes from one step to the next.
Goes(from, to) ==
    /\ Alive("main")
    /\ main = from
    /\ main' = to
    /\ UNCHANGED <<errorVars, runFerryFromReplica>>

\* A cursor that starts over with the table t.
Rewound(t) ==
    /\ cursor' = [cursor EXCEPT ![t] = "unread"]
    /\ maxPk' = [maxPk EXCEPT ![t] = 0]
    /\ lastPk' = [lastPk EXCEPT ![t] = 0]

\* Where Run goes on when Fatal returns, from each step that calls it.
AfterError ==
    [scanning |-> "throttle", reverifying |-> "throttle", connect |-> "lock",
     lock |-> "disable", flush |-> "join", await |-> "join", stop |-> "join",
     verify |-> "load", load |-> "enable", once |-> "enable", unlock |-> "finished"]

\* A step fails for good: a query, a connection, or what was asked for is not there.
MainFails ==
    /\ main \in DOMAIN AfterError \ {"lock", "unlock"}
    /\ Fatal("main")
    /\ UNCHANGED <<replicationVars, throttlerVars, runVars, ferryVars,
                   cursorVars, verifierVars, target>>

MainGoesOn ==
    /\ FatalReturns("main")
    /\ main \in DOMAIN AfterError
    /\ main' = AfterError[main]
    /\ UNCHANGED <<replicationVars, throttlerVars, runFerryFromReplica, waiterSet, ferryVars,
                   cursorVars, verifierVars, target>>

----------------------------------------------------------------------------
\* VerifyBeforeCutover.

WaitUntilRowCopyIsComplete ==
    /\ Goes("copying", "scanning")
    /\ CopyIsDone
    /\ Alive("iterator")
    /\ Rewound(JoinedTable)
    /\ UNCHANGED <<replicationVars, throttlerVars, waiterSet, ferryVars, verifierVars, target>>

\* The fingerprints of a joined row differ iff only one server has the row.
Mismatched(p) == (p \in Source.joined) # (p \in target.joined)

\* iterateTableFingerprints: a batch of keys is fetched, without row locks ...
ScanFetch ==
    LET batch == BuildSelect(Source, JoinedTable, lastPk[JoinedTable]) IN
    /\ Alive("main")
    /\ main = "scanning"
    /\ cursor[JoinedTable] = "unread"
    /\ scanned = {}
    /\ scanned' = batch
    /\ \/ batch = {} /\ Closed(JoinedTable)
       \/ /\ \E k \in LastOfBatch(JoinedTable, batch) :
                lastPk' = [lastPk EXCEPT ![JoinedTable] = k]
          /\ UNCHANGED <<cursor, maxPk>>
    /\ UNCHANGED <<replicationVars, throttlerVars, errorVars, runVars, ferryVars,
                   store, verdict, target>>

\* ... and the rows with these keys are compared.
ScanCompare ==
    /\ Alive("main")
    /\ main = "scanning"
    /\ scanned # {}
    /\ store' = store \cup {p \in scanned : Mismatched(p)}
    /\ scanned' = {}
    /\ UNCHANGED <<replicationVars, throttlerVars, errorVars, runVars, ferryVars,
                   cursorVars, verdict, target>>

ScanEnds ==
    /\ scanned = {}
    /\ cursor[JoinedTable] = "done"
    /\ Goes("scanning", "reverifying")
    /\ UNCHANGED <<replicationVars, throttlerVars, waiterSet, ferryVars,
                   cursorVars, verifierVars, target>>

\* reverifyUntilStoreIsSmallEnough: a row that still differs stays in the store.
Reverify(p) ==
    /\ Alive("main")
    /\ main = "reverifying"
    /\ p \in store
    /\ ~Mismatched(p)
    /\ store' = store \ {p}
    /\ UNCHANGED <<replicationVars, throttlerVars, errorVars, runVars, ferryVars,
                   cursorVars, scanned, verdict, target>>

ReverifyEnds ==
    /\ Goes("reverifying", "throttle")
    /\ UNCHANGED <<replicationVars, throttlerVars, waiterSet, ferryVars,
                   cursorVars, verifierVars, target>>

----------------------------------------------------------------------------
\* The way to the lock.

WaitForThrottle ==
    /\ Goes("throttle", "catch_up")
    /\ NotThrottled
    /\ UNCHANGED <<replicationVars, throttlerVars, waiterSet, ferryVars,
                   cursorVars, verifierVars, target>>

\* IsAlmostCaughtUp compares clocks; the answer may come at any time.
WaitUntilBinlogStreamerCatchesUp ==
    /\ Goes("catch_up", IF runFerryFromReplica THEN "connect" ELSE "lock")
    /\ UNCHANGED <<replicationVars, throttlerVars, waiterSet, ferryVars,
                   cursorVars, verifierVars, target>>

InitializeWaitUntilReplica ==
    /\ Goes("connect", "lock")
    /\ waiterSet' = TRUE
    /\ UNCHANGED <<replicationVars, throttlerVars, ferryVars, cursorVars, verifierVars, target>>

\* The callback has returned 200: writes and open transactions have ended.
CutoverLock ==
    /\ Goes("lock", "disable")
    /\ SetCutover("locked")
    /\ UNCHANGED <<throttlerVars, waiterSet, ferryVars, cursorVars, verifierVars, target>>

\* Any other answer, or none; the tenant may be locked all the same.
CutoverLockFails ==
    /\ main = "lock"
    /\ Fatal("main")
    /\ \E state \in {"open", "locked"} : SetCutover(state)
    /\ UNCHANGED <<throttlerVars, runVars, ferryVars, cursorVars, verifierVars, target>>

\* Slip: the throttler stays enabled during the cutover.
LeaveThrottlerEnabled ==
    /\ Goes("disable", "flush")
    /\ SetDisabled(FALSE)
    /\ UNCHANGED <<replicationVars, waiterSet, ferryVars, cursorVars, verifierVars, target>>

DisableThrottler ==
    /\ Goes("disable", "flush")
    /\ SetDisabled(TRUE)
    /\ UNCHANGED <<replicationVars, waiterSet, ferryVars, cursorVars, verifierVars, target>>

----------------------------------------------------------------------------
\* FlushBinlogAndStopStreaming and the wait for Ferry.Run.

Flush ==
    /\ \/ waiterSet /\ Goes("flush", "await") /\ ReadMasterPosition
       \/ ~waiterSet /\ Goes("flush", "stop") /\ UNCHANGED replicationVars
    /\ UNCHANGED <<throttlerVars, waiterSet, ferryVars, cursorVars, verifierVars, target>>

ReplicaIsCaughtUp ==
    /\ Goes("await", "stop")
    /\ IsCaughtUp
    /\ UNCHANGED <<replicationVars, throttlerVars, waiterSet, ferryVars,
                   cursorVars, verifierVars, target>>

\* Slip: the streamer is not told where to stop.
FlushWithoutStop ==
    /\ Goes("stop", "join")
    /\ UNCHANGED <<replicationVars, throttlerVars, waiterSet, ferryVars,
                   cursorVars, verifierVars, target>>

FlushAndStop ==
    /\ Goes("stop", "join")
    /\ stopPos' = replicated
    /\ UNCHANGED <<replicationVars, throttlerVars, waiterSet, streamed, ferryDone,
                   cursorVars, verifierVars, target>>

\* Slip: nothing is copied again after the lock.
SkipDeltaCopy ==
    /\ Goes("join", "verify")
    /\ ferryDone
    /\ UNCHANGED <<replicationVars, throttlerVars, waiterSet, ferryVars,
                   cursorVars, verifierVars, target>>

\* Slip: the delta copy does not wait for Ferry.Run.
StartDeltaCopyAtOnce ==
    /\ Goes("join", "delta")
    /\ Rewound(JoinedTable)
    /\ UNCHANGED <<replicationVars, throttlerVars, waiterSet, ferryVars, verifierVars, target>>

\* copyWG.Wait returns, and deltaCopyJoinedTables starts an iterator.
StartDeltaCopy ==
    /\ Goes("join", "delta")
    /\ ferryDone
    /\ Rewound(JoinedTable)
    /\ UNCHANGED <<replicationVars, throttlerVars, waiterSet, ferryVars, verifierVars, target>>

DeltaCopyEnds ==
    /\ Goes("delta", "verify")
    /\ CopyIsDone
    /\ Alive("iterator")
    /\ UNCHANGED <<replicationVars, throttlerVars, waiterSet, ferryVars,
                   cursorVars, verifierVars, target>>

----------------------------------------------------------------------------
\* The verification during the cutover, and the primary key tables.

StoreMatches == \A p \in store : ~Mismatched(p)

VerifyDuringCutover ==
    /\ Goes("verify", "load")
    /\ StoreMatches
    /\ verdict' = "correct"
    /\ store' = {}
    /\ UNCHANGED <<replicationVars, throttlerVars, waiterSet, ferryVars,
                   cursorVars, scanned, target>>

VerificationFails ==
    /\ main = "verify"
    /\ ~StoreMatches
    /\ Fatal("main")
    /\ verdict' = "mismatch"
    /\ store' = {}
    /\ UNCHANGED <<replicationVars, throttlerVars, runVars, ferryVars,
                   cursorVars, scanned, target>>

\* The filters are told of the primary key tables, and an iterator starts.
LoadPrimaryKeyTables ==
    /\ Goes("load", "primary_keys")
    /\ Rewound(PrimaryKeyTable)
    /\ UNCHANGED <<replicationVars, throttlerVars, waiterSet, ferryVars, verifierVars, target>>

PrimaryKeyCopyEnds ==
    /\ Goes("primary_keys", "once")
    /\ CopyIsDone
    /\ Alive("iterator")
    /\ UNCHANGED <<replicationVars, throttlerVars, waiterSet, ferryVars,
                   cursorVars, verifierVars, target>>

\* VerifyOnce compares the rows of the source with those of the target.
OnceMatches == \A p \in PrimaryKeyBatch(Source, 0) : Source.tenant[p] = target.tenant[p]

VerifyOnce ==
    /\ Goes("once", "enable")
    /\ OnceMatches
    /\ UNCHANGED <<replicationVars, throttlerVars, waiterSet, ferryVars,
                   cursorVars, verifierVars, target>>

VerifyOnceFails ==
    /\ main = "once"
    /\ ~OnceMatches
    /\ Fatal("main")
    /\ UNCHANGED <<replicationVars, throttlerVars, runVars, ferryVars,
                   cursorVars, verifierVars, target>>

EnableThrottler ==
    /\ Goes("enable", "unlock")
    /\ SetDisabled(FALSE)
    /\ UNCHANGED <<replicationVars, waiterSet, ferryVars, cursorVars, verifierVars, target>>

\* The callback has returned 200: the tenant is used from the target.
CutoverUnlock ==
    /\ Goes("unlock", "finished")
    /\ SetCutover("moved")
    /\ UNCHANGED <<throttlerVars, waiterSet, ferryVars, cursorVars, verifierVars, target>>

CutoverUnlockFails ==
    /\ main = "unlock"
    /\ Fatal("main")
    /\ \E state \in {cutover, "moved"} : SetCutover(state)
    /\ UNCHANGED <<throttlerVars, runVars, ferryVars, cursorVars, verifierVars, target>>

----------------------------------------------------------------------------

Application ==
    /\ ~dead /\ main \notin {"refused", "finished"}
    /\ ApplicationCommits
    /\ UNCHANGED <<throttlerVars, errorVars, runVars, ferryVars, cursorVars, verifierVars, target>>

Replication ==
    /\ ~dead /\ main \notin {"refused", "finished"}
    /\ Replicate
    /\ UNCHANGED <<throttlerVars, errorVars, runVars, ferryVars, cursorVars, verifierVars, target>>

MainStep ==
    \/ Start \/ WaitUntilRowCopyIsComplete
    \/ ScanFetch \/ ScanCompare \/ ScanEnds \/ ReverifyEnds
    \/ WaitForThrottle \/ WaitUntilBinlogStreamerCatchesUp
    \/ InitializeWaitUntilReplica \/ CutoverLock \/ DisableThrottler
    \/ Flush \/ ReplicaIsCaughtUp \/ FlushAndStop
    \/ StartDeltaCopy \/ DeltaCopyEnds
    \/ VerifyDuringCutover \/ VerificationFails
    \/ LoadPrimaryKeyTables \/ PrimaryKeyCopyEnds
    \/ VerifyOnce \/ VerifyOnceFails
    \/ EnableThrottler \/ CutoverUnlock
    \/ MainGoesOn

StreamerStep == ReplayEvents \/ FilterFails \/ FerryReturns

IteratorSteps == MaxPrimaryKeys \/ (\E t \in AllTables : IteratorStep(t)) \/ IteratorGivesUp

Failure ==
    \/ MainFails \/ CutoverLockFails \/ CutoverUnlockFails
    \/ StreamerFails \/ ThrottlerFails \/ IteratorFails

\* With the process its memory is gone.
Forget ==
    /\ main' = "start"
    /\ waiterSet' = FALSE
    /\ lagging' = FALSE /\ disabled' = FALSE
    /\ streamed' = 0 /\ stopPos' = 0 /\ ferryDone' = FALSE
    /\ cursor' = [t \in AllTables |-> "unread"]
    /\ maxPk' = [t \in AllTables |-> 0]
    /\ lastPk' = [t \in AllTables |-> 0]
    /\ scanned' = {} /\ store' = {} /\ verdict' = "none"

ErrorStep(g) ==
    \/ /\ CountError(g)
       /\ UNCHANGED <<replicationVars, throttlerVars, runVars, ferryVars,
                      cursorVars, verifierVars, target>>
    \/ /\ Panic(g)
       /\ Forget
       /\ UNCHANGED <<replicationVars, runFerryFromReplica, target>>

Next ==
    \/ Application
    \/ Replication
    \/ MainStep
    \/ \E p \in JoinedPks : Reverify(p)
    \/ StreamerStep
    \/ ThrottlerUpdatesLag
    \/ IteratorSteps
    \/ Failure
    \/ \E g \in Goroutines : ErrorStep(g)

Spec == Init /\ [][Next]_vars

(***************************************************************************)
(* As long as some goroutine can go on, or transactions are left to        *)
(* replicate, one of these steps is taken; callbacks are answered and the  *)
(* heartbeat is written.  The scheduler guarantees more, for each          *)
(* goroutine.  Nothing has to fail, and the lag may stay above its limit   *)
(* for ever.                                                               *)
(***************************************************************************)
Progress ==
    \/ MainStep
    \/ StreamerStep
    \/ IteratorSteps
    \/ \E g \in Goroutines : ErrorStep(g)
    \/ Replication

FairSpec == Spec /\ WF_vars(Progress)

----------------------------------------------------------------------------
\* Properties.

\* Type invariant.
ShardingTypeOK ==
    /\ ReplicationTypeOK
    /\ ThrottlerTypeOK
    /\ ErrorTypeOK
    /\ main \in {"start", "refused", "copying", "scanning", "reverifying", "throttle",
                 "catch_up", "connect", "lock", "disable", "flush", "await", "stop", "join",
                 "delta", "verify", "load", "primary_keys", "once", "enable", "unlock",
                 "finished"}
    /\ runFerryFromReplica \in BOOLEAN
    /\ waiterSet \in BOOLEAN
    /\ streamed \in 0..replicated
    /\ stopPos \in 0..replicated
    /\ ferryDone \in BOOLEAN
    /\ cursor \in [AllTables -> {"unread", "open", "done"}]
    /\ maxPk \in [AllTables -> Nat]
    /\ lastPk \in [AllTables -> Nat]
    /\ scanned \subseteq JoinedPks
    /\ store \subseteq JoinedPks
    /\ verdict \in {"none", "correct", "mismatch"}
    /\ target \in Contents

JoinedRowsArrived == References(Master) \subseteq target.joined

ShardedRowsArrived ==
    \A r \in JoinRows :
        target.join[r] = IF OfTenant(Master.join[r]) THEN Master.join[r] ELSE NoRow

\* Run has come past the wait for Ferry.Run.
DuringCutover == main \in {"delta", "verify", "load", "primary_keys", "once", "enable", "unlock"}

(***************************************************************************)
(* Fatal returns to every caller but the first, which goes on with its     *)
(* work.  Still no error is left behind: from the delta copy on, only the  *)
(* iterator that Run waits for and Run itself may have called Fatal, and   *)
(* the one of the first error is about to panic.                           *)
(***************************************************************************)
NoErrorIsPassed ==
    DuringCutover =>
        /\ handling["streamer"] = "no" /\ handling["throttler"] = "no"
        /\ handling["iterator"] # "no" => main \in {"delta", "primary_keys"}
        /\ errorCount > 0 => handling["main"] = "dumping" \/ handling["iterator"] = "dumping"

(***************************************************************************)
(* From the delta copy on the tenant is locked or moved, and the server    *)
(* that is read has all transactions of the master: it is the master, or   *)
(* Run has waited for the position the master had after the lock.          *)
(***************************************************************************)
SourceIsCurrent ==
    DuringCutover => cutover # "open" /\ replicated = Len(history)

(***************************************************************************)
(* When the tenant is unlocked on the target, every joined row it refers   *)
(* to on the master is there, and its row of the primary key table is the  *)
(* one of the master.  This is what the delta copy, the wait for the       *)
(* replica and VerifyOnce are for.                                         *)
(***************************************************************************)
MovedIsComplete ==
    cutover = "moved" =>
        /\ JoinedRowsArrived
        /\ target.tenant[ShardingValue] = Master.tenant[ShardingValue]

(***************************************************************************)
(* When the tenant is unlocked on the target, the sharded tables there     *)
(* hold its rows as they are on the master, and nothing else: batches and  *)
(* replayed events, both filtered by tenant, have met.                     *)
(***************************************************************************)
MovedIsExact == cutover = "moved" => ShardedRowsArrived

\* At no time does a row of another tenant come to the sharded tables or to the
\* primary key table of the target, even if rows change their tenant.
OnlyTheTenantIsCopied ==
    /\ \A r \in JoinRows : target.join[r] # NoRow => OfTenant(target.join[r])
    /\ \A p \in Tenants \ {ShardingValue} : target.tenant[p] = NoRow

\* Run, the streamer, the iterator, a call of Fatal or the replication can go on.
CanGoOn ==
    \/ \E g \in Goroutines : handling[g] \in {"posting", "dumping"}
    \/ handling["main"] = "returned" \/ handling["iterator"] = "returned"
    \/ replicated < Len(history)
    \/ /\ handling["main"] = "no"
       /\ \/ main \in {"disable", "flush", "stop", "verify", "load", "once", "enable", "unlock"}
          \/ main = "await" /\ IsCaughtUp
          \/ main = "join" /\ ferryDone
          \/ main \in {"delta", "primary_keys"} /\ CopyIsDone
    \/ /\ Streaming
       /\ \/ handling["streamer"] = "returned"
          \/ stopPos # 0 /\ streamed >= stopPos
          \/ NotThrottled /\ streamed < replicated /\ streamed < stopPos
    \/ \E t \in CopiedTables : cursor[t] = "unread" \/ (cursor[t] = "open" /\ NotThrottled)

(***************************************************************************)
(* While the tenant is locked, nobody waits for somebody who waits: not    *)
(* Run for the replica, for Ferry.Run or for an iterator, not a writer for *)
(* the throttler, and not after errors, when some steps were skipped.      *)
(***************************************************************************)
LockedRunGoesOn == cutover = "locked" /\ ~dead => CanGoOn

\* A tenant that was locked is unlocked, or the process ends with the error
\* callback, even if the throttler would hold back every write from then on.
LockIsReleased == cutover = "locked" ~> (cutover = "moved" \/ dead)

(***************************************************************************)
(* A failed verification means that source and target differ, as the       *)
(* documentation says of step 4b: a row of the tenant is missing or other  *)
(* than on the source, or the target has a joined row the source has not.  *)
(* What differs may be a row that is no longer the tenant's: it was added  *)
(* after the copy and put into the store, and lost its reference before    *)
(* the delta copy.                                                         *)
(***************************************************************************)
MismatchIsReal ==
    verdict = "mismatch" =>
        ~ (JoinedRowsArrived /\ target.joined \subseteq Master.joined /\ ShardedRowsArrived)
=============================================================================
