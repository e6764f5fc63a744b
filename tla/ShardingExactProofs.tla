------------------------ MODULE ShardingExactProofs ------------------------
(***************************************************************************)
(* The proof that a tenant that is unlocked on the target has exactly its  *)
(* rows of the sharded tables there (MovedIsExact).  Each row of the       *)
(* target is what the replay of the log up to some position between the    *)
(* streamer's and the source's would leave; or it is not there and the     *)
(* cursor of its table has not come to it.  Both the batches, which run    *)
(* ahead of the streamer, and the replayed events keep this.               *)
(***************************************************************************)
EXTENDS ShardingFerryProofs

\* Most leaves are first-order: Zenon is tried before the SMT solver.
USE ZenonT(5), SMTT(30)

\* What the target should hold of a row when the log is replayed up to position q.
Wanted(q, r) == IF OfTenant(history[q].join[r]) THEN history[q].join[r] ELSE NoRow

Tracked(r) == \E q \in streamed..replicated : target.join[r] = Wanted(q, r)

Pending(r) ==
    /\ main = "copying"
    /\ target.join[r] = NoRow
    /\ \/ cursor[r[1]] = "unread"
       \/ cursor[r[1]] = "open" /\ lastPk[r[1]] < r[2] /\ r[2] <= maxPk[r[1]]

\* The rows of the target, as long as no error is counted.
RowsInv ==
    /\ main = "start" => \A t \in AllTables : cursor[t] = "unread" /\ lastPk[t] = 0
    /\ ~Started /\ ~dead => \A r \in JoinRows : target.join[r] = NoRow
    /\ Started => streamed > 0
    /\ main = "copying" => \A t \in AllTables : cursor[t] = "unread" => lastPk[t] = 0
    /\ Started /\ errorCount = 0 => \A r \in JoinRows : Tracked(r) \/ Pending(r)

\* Where the streamer stops, and what is known after it.
StopInv ==
    /\ errorCount = 0 /\ stopPos > 0 =>
          /\ stopPos = Len(history)
          /\ main \in {"join", "finished"} \/ DuringCutover
    /\ errorCount = 0 /\ ferryDone => stopPos > 0 /\ streamed >= stopPos
    /\ main = "finished" => ferryDone
    /\ DuringCutover => ShardedRowsArrived
    /\ MovedIsExact

----------------------------------------------------------------------------
\* Rows and positions.

\* A row of a join table names its table and its key.
LEMMA RowsOfTables ==
    ASSUME NEW r \in JoinRows
    PROVE  /\ r[1] \in JoinTables /\ r[1] \in AllTables /\ r[2] \in JoinIds /\ r[2] \in Nat \ {0}
           /\ r = <<r[1], r[2]>> /\ r[1] # JoinedTable /\ r[1] # PrimaryKeyTable
<1>1. r[1] \in JoinTables /\ r[2] \in JoinIds /\ r = <<r[1], r[2]>>
  BY SMTT(30) DEF JoinRows
<1>2. \A i \in JoinIds : i \in Nat \ {0}
  BY ShardedTablesAssumption
<1>3. JoinTables \cap {JoinedTable, PrimaryKeyTable} = {}
  BY ShardedTablesAssumption
<1> QED
  BY <1>1, <1>2, <1>3 DEF AllTables

\* Positions are natural numbers.
LEMMA PositionType ==
    ASSUME ShardingTypeOK
    PROVE  /\ streamed \in Nat /\ replicated \in Nat \ {0} /\ Len(history) \in Nat
           /\ streamed <= replicated /\ replicated <= Len(history)
           /\ stopPos \in Nat /\ stopPos <= replicated
           /\ errorCount \in Nat
BY SMTT(30), ServerType DEF ShardingTypeOK, ErrorTypeOK

\* A row that the target has as the source has it is tracked.
LEMMA TrackedAtSource ==
    ASSUME ShardingTypeOK, NEW r \in JoinRows, target.join[r] = Wanted(replicated, r)
    PROVE  Tracked(r)
<1>1. replicated \in streamed..replicated
  BY SMTT(30), PositionType
<1> QED
  BY <1>1 DEF Tracked

\* A step that changes nothing of all this.
LEMMA RowsFrame ==
    ASSUME RowsInv, UNCHANGED <<history, replicated, streamed, main, cursorVars, target>>,
           errorCount' = 0 => errorCount = 0, dead' = dead
    PROVE  RowsInv'
<1>1. \A r \in JoinRows : (Tracked(r) => Tracked(r)') /\ (Pending(r) => Pending(r)')
  BY DEF Tracked, Pending, Wanted, cursorVars
<1> QED
  BY <1>1 DEF RowsInv, Started, cursorVars

\* A step that is none of the first copy and leaves the join tables of the target alone.
LEMMA RowsElsewhere ==
    ASSUME RowsInv, Started, main # "copying", main' \notin {"start", "refused", "copying"},
           errorCount' = 0 => errorCount = 0, UNCHANGED <<history, replicated, streamed>>,
           target'.join = target.join
    PROVE  RowsInv'
<1>1. \A r \in JoinRows : Tracked(r) => Tracked(r)'
  BY DEF Tracked, Wanted
<1>2. \A r \in JoinRows : ~Pending(r)
  BY DEF Pending
<1> QED
  BY <1>1, <1>2 DEF RowsInv, Started

\* The history and the server that is read only grow.
LEMMA RowsGrow ==
    ASSUME ShardingTypeOK, RowsInv, replicated' \in Nat, replicated <= replicated',
           \A q \in 1..Len(history) : history'[q] = history[q],
           UNCHANGED <<streamed, main, cursorVars, target, errorCount, dead>>
    PROVE  RowsInv'
<1>1. Started /\ errorCount = 0 => \A r \in JoinRows : Tracked(r) => Tracked(r)'
  <2> SUFFICES ASSUME Started, NEW r \in JoinRows, Tracked(r)
               PROVE  Tracked(r)'
    OBVIOUS
  <2>1. PICK q \in streamed..replicated : target.join[r] = Wanted(q, r)
    BY DEF Tracked
  <2>2. streamed > 0
    BY DEF RowsInv
  <2>3. q \in 1..Len(history) /\ q \in streamed'..replicated'
    BY SMTT(30), <2>1, <2>2, PositionType
  <2>4. history'[q] = history[q]
    BY <2>3
  <2>5. Wanted(q, r)' = Wanted(q, r)
    BY <2>4 DEF Wanted
  <2> QED
    BY <2>1, <2>3, <2>5 DEF Tracked
<1>2. \A r \in JoinRows : Pending(r) => Pending(r)'
  BY DEF Pending, cursorVars
<1> QED
  BY <1>1, <1>2 DEF RowsInv, Started, cursorVars

\* Start takes the position of the server that is read, before any row is copied.
LEMMA RowsStart ==
    ASSUME ShardingTypeOK, RowsInv, Start
    PROVE  RowsInv'
<1>1. /\ main = "start" /\ ~dead /\ ~Started /\ main' \in {"copying", "refused"}
      /\ UNCHANGED <<cursorVars, target, errorCount, dead, replicated>>
  BY DEF Start, Alive, Started, replicationVars, errorVars
<1>2. \A r \in JoinRows : target.join[r] = NoRow
  BY <1>1 DEF RowsInv
<1>3. \A t \in AllTables : cursor[t] = "unread" /\ lastPk[t] = 0
  BY <1>1 DEF RowsInv
<1>4. CASE main' = "copying"
  <2>1. streamed' > 0
    BY SMTT(30), <1>4, PositionType DEF Start
  <2>2. ASSUME NEW r \in JoinRows PROVE Pending(r)'
    <3>1. cursor[r[1]] = "unread"
      BY <1>3, RowsOfTables
    <3> QED
      BY <1>1, <1>2, <1>4, <3>1 DEF Pending, cursorVars
  <2>3. Started'
    BY <1>4 DEF Started
  <2> QED
    BY <1>1, <1>3, <1>4, <2>1, <2>2, <2>3 DEF RowsInv, cursorVars
<1>5. CASE main' = "refused"
  BY <1>1, <1>2, <1>5 DEF RowsInv, Started
<1> QED
  BY <1>1, <1>4, <1>5

----------------------------------------------------------------------------
\* The streamer.

(***************************************************************************)
(* One row, when the event at position s + 1 is replayed.  If the target   *)
(* has what is wanted at s it has what is wanted at s + 1 afterwards;      *)
(* anything else, which a batch put there, is not touched by the event, or *)
(* is what the event leads to.                                             *)
(***************************************************************************)
LEMMA ReplayOfRow ==
    ASSUME NEW old, NEW new, NEW row, NEW after,
           old # new => ApplicableEvent(old, new) # "error",
           after = IF old # new /\ ApplicableEvent(old, new) = "yes"
                     THEN Replay(old, new, row) ELSE row
    PROVE  LET want(x) == IF OfTenant(x) THEN x ELSE NoRow IN
           /\ row = want(old) => after = want(new)
           /\ row # want(old) => after = row \/ after = want(new)
<1> DEFINE want(x) == IF OfTenant(x) THEN x ELSE NoRow
<1>1. CASE old = new
  BY <1>1
<1>2. CASE old # new /\ ApplicableEvent(old, new) = "yes"
  <2>1. after = Replay(old, new, row)
    BY <1>2
  <2>2. want(old) = old /\ want(new) = new
    BY <1>2, ApplicableIsOfTenant DEF OfTenant
  <2>3. CASE old = NoRow
    BY <2>1, <2>2, <2>3 DEF Replay
  <2>4. CASE old # NoRow
    BY <2>1, <2>2, <2>4 DEF Replay
  <2> QED
    BY <2>3, <2>4
<1>3. CASE old # new /\ ApplicableEvent(old, new) # "yes"
  <2>1. ApplicableEvent(old, new) # "error" /\ after = row
    BY <1>3
  <2>2. ~OfTenant(old) /\ ~OfTenant(new)
    BY <1>3, <2>1 DEF ApplicableEvent
  <2> QED
    BY <2>1, <2>2
<1> QED
  BY <1>1, <1>2, <1>3

LEMMA RowsReplay ==
    ASSUME ShardingTypeOK, RowsInv, ReplayEvents
    PROVE  RowsInv'
<1> DEFINE next == streamed + 1
<1>1. /\ Started /\ streamed' = next /\ streamed < replicated
      /\ UNCHANGED <<history, replicated, main, cursorVars, errorCount, dead>>
  BY DEF ReplayEvents, Streaming, replicationVars, errorVars, runVars
<1>2. streamed > 0 /\ next > 0 /\ next \in next..replicated
  BY SMTT(30), <1>1, PositionType DEF RowsInv
<1>3. ASSUME NEW r \in JoinRows, Tracked(r) \/ Pending(r)
      PROVE  Tracked(r)' \/ Pending(r)'
  <2> DEFINE old == history[streamed].join[r]
             new == history[next].join[r]
             row == target.join[r]
             after == target'.join[r]
             want(x) == IF OfTenant(x) THEN x ELSE NoRow
  <2>1. after = IF old # new /\ ApplicableEvent(old, new) = "yes"
                  THEN Replay(old, new, row) ELSE row
    BY DEF ReplayEvents, ShardingTypeOK, Contents
  <2>2. old # new => ApplicableEvent(old, new) # "error"
    BY DEF ReplayEvents, Verdicts, Changed
  <2>3. Wanted(streamed, r) = want(old) /\ Wanted(next, r) = want(new)
    BY DEF Wanted
  <2>4. \A q : Wanted(q, r)' = Wanted(q, r)
    BY <1>1 DEF Wanted
  <2> HIDE DEF old, new, row, after
  <2>5. /\ row = want(old) => after = want(new)
        /\ row # want(old) => after = row \/ after = want(new)
    BY SMTT(30), <2>1, <2>2, ReplayOfRow
  <2> HIDE DEF want, next
  <2>6. CASE after = want(new)
    <3>1. PICK q \in next..replicated : q = next
      BY <1>2
    <3>2. target'.join[r] = Wanted(q, r)'
      BY <2>3, <2>4, <2>6, <3>1 DEF after
    <3> QED
      BY <1>1, <3>1, <3>2 DEF Tracked
  <2>7. CASE after = row /\ row # want(old)
    <3>1. target'.join[r] = target.join[r]
      BY <2>7 DEF after, row
    <3>2. CASE Tracked(r)
      <4>1. PICK q \in streamed..replicated : target.join[r] = Wanted(q, r)
        BY <3>2 DEF Tracked
      <4>2. q # streamed
        BY <2>3, <2>7, <4>1 DEF row
      <4>3. q \in next..replicated
        BY SMTT(30), <1>1, <4>1, <4>2, PositionType DEF next
      <4>4. target'.join[r] = Wanted(q, r)'
        BY <2>4, <3>1, <4>1
      <4> QED
        BY <1>1, <4>3, <4>4 DEF Tracked
    <3>3. CASE Pending(r)
      BY <1>1, <3>1, <3>3 DEF Pending, cursorVars
    <3> QED
      BY <1>3, <3>2, <3>3
  <2> QED
    BY <2>5, <2>6, <2>7
<1>4. /\ Started' /\ main' \notin {"start", "refused"}
      /\ streamed' > 0
      /\ main' = "copying" => \A t \in AllTables : cursor'[t] = "unread" => lastPk'[t] = 0
  BY <1>1, <1>2 DEF RowsInv, Started, cursorVars
<1>5. errorCount' = 0 => \A r \in JoinRows : Tracked(r)' \/ Pending(r)'
  BY <1>1, <1>3 DEF RowsInv
<1> QED
  BY <1>4, <1>5 DEF RowsInv

----------------------------------------------------------------------------
\* The first copy.

\* A batch of a sharded table leaves out no row of the tenant that is between the
\* cursor and any row of the batch; an empty one leaves out none at all.
LEMMA ShardedBatchIsNext ==
    ASSUME NEW data \in Contents, NEW t \in JoinTables, NEW last \in Nat, NEW i \in JoinIds,
           i > last
    PROVE  LET batch == BuildSelect(data, t, last) IN
           /\ i \in batch => OfTenant(data.join[<<t, i>>])
           /\ batch = {} => ~OfTenant(data.join[<<t, i>>])
           /\ \A k \in batch : i <= k /\ i \notin batch => ~OfTenant(data.join[<<t, i>>])
<1> DEFINE S == {j \in JoinIds : OfTenant(data.join[<<t, j>>]) /\ j > last}
<1>1. BuildSelect(data, t, last) = FirstKeys(S)
  BY ShardedTablesAssumption DEF BuildSelect, ShardedBatch
<1>2. S \subseteq JoinIds /\ IsFiniteSet(JoinIds)
  BY ShardedTablesAssumption
<1>3. IsFiniteSet(S)
  BY <1>2, FS_Subset
<1>4. S \in SUBSET Nat
  <2>1. \A j \in JoinIds : j \in Nat
    BY ShardedTablesAssumption
  <2> QED
    BY <1>2, <2>1
<1>5. FirstKeys(S) \subseteq S
  BY DEF FirstKeys
<1>6. OfTenant(data.join[<<t, i>>]) => i \in S
  OBVIOUS
<1>7. i \in S => OfTenant(data.join[<<t, i>>])
  OBVIOUS
<1> HIDE DEF S
<1>8. /\ S # {} => FirstKeys(S) # {}
      /\ \A k \in FirstKeys(S), j \in S : j <= k => j \in FirstKeys(S)
  BY <1>3, <1>4, FirstKeysAreFirst
<1> QED
  BY <1>1, <1>5, <1>6, <1>7, <1>8

\* The tables of the first copy.
LEMMA FirstCopyTables ==
    ASSUME main = "copying"
    PROVE  CopiedTables = JoinTables \cup {JoinedTable}
BY DEF CopiedTables, ApplicableTables, AllTables

\* One row, when a batch is copied or its table is completed.
LEMMA CopyOfRow ==
    ASSUME ShardingTypeOK, RowsInv, main = "copying", NEW t \in AllTables, IteratorStep(t),
           NEW r \in JoinRows, Tracked(r) \/ Pending(r)
    PROVE  Tracked(r)' \/ Pending(r)'
<1> DEFINE last == lastPk[t]
           batch == BuildSelect(Source, t, last)
<1>1. /\ UNCHANGED <<history, replicated, streamed, main>>
  BY DEF IteratorStep, replicationVars, ferryVars, runVars
<1>2. /\ cursor \in [AllTables -> {"unread", "open", "done"}] /\ maxPk \in [AllTables -> Nat]
      /\ lastPk \in [AllTables -> Nat] /\ target \in Contents /\ Source \in Contents
      /\ last \in Nat /\ cursor[t] = "open"
  BY ServerType DEF ShardingTypeOK, IteratorStep, CopyBatch, CompleteTable
<1>3. /\ r[1] \in JoinTables /\ r[1] \in AllTables /\ r[2] \in JoinIds /\ r[2] \in Nat
      /\ r = <<r[1], r[2]>> /\ r[1] # JoinedTable /\ r[1] # PrimaryKeyTable
  BY RowsOfTables
<1>4. \A q : Wanted(q, r)' = Wanted(q, r)
  BY <1>1 DEF Wanted
<1>5. Tracked(r) /\ target'.join[r] = target.join[r] => Tracked(r)'
  BY <1>1, <1>4 DEF Tracked
<1>6. target'.join[r] = Wanted(replicated, r) => Tracked(r)'
  <2>1. PICK q \in streamed..replicated : q = replicated
    BY SMTT(30), PositionType
  <2> QED
    BY <1>1, <1>4, <2>1 DEF Tracked
<1>7. Wanted(replicated, r) = IF OfTenant(Source.join[r]) THEN Source.join[r] ELSE NoRow
  BY DEF Wanted, Source
<1>8. CASE r[1] # t
  <2>1. /\ cursor'[r[1]] = cursor[r[1]] /\ maxPk'[r[1]] = maxPk[r[1]]
        /\ lastPk'[r[1]] = lastPk[r[1]]
    BY <1>2, <1>3, <1>8 DEF IteratorStep, CopyBatch, CompleteTable, Closed
  <2>2. InsertIgnore(Source, t, batch, target).join[r] = target.join[r]
    BY <1>2, <1>8 DEF InsertIgnore, Contents
  <2>3. target'.join[r] = target.join[r]
    BY <2>2 DEF IteratorStep, CopyBatch, CompleteTable
  <2>4. Pending(r) => Pending(r)'
    BY <1>1, <2>1, <2>3 DEF Pending
  <2> QED
    BY <1>5, <2>3, <2>4
<1>9. CASE r[1] = t /\ CopyBatch(t) /\ batch = {}
  <2>1. target' = target
    BY <1>9 DEF CopyBatch, LastOfBatch
  <2>2. CASE Pending(r)
    <3>1. target.join[r] = NoRow /\ r[2] > last
      BY <1>2, <1>3, <1>9, <2>2 DEF Pending
    <3>2. ~OfTenant(Source.join[r])
      BY SMTT(30), <1>2, <1>3, <1>9, <3>1, ShardedBatchIsNext
    <3> QED
      BY <1>6, <1>7, <2>1, <3>1, <3>2
  <2> QED
    BY <1>5, <2>1, <2>2
<1>10. CASE r[1] = t /\ CopyBatch(t) /\ batch # {}
  <2>1. PICK k \in batch : /\ lastPk' = [lastPk EXCEPT ![t] = k]
                           /\ target' = InsertIgnore(Source, t, batch, target)
                           /\ UNCHANGED <<cursor, maxPk>>
    BY <1>10 DEF CopyBatch, LastOfBatch
  <2>2. k \in Nat
    BY <1>2, <2>1, BatchType, KeysType
  <2>3. target'.join[r] = IF r[2] \in batch /\ target.join[r] = NoRow
                            THEN Source.join[r] ELSE target.join[r]
    BY <1>2, <1>3, <1>10, <2>1 DEF InsertIgnore, Contents
  <2>4. CASE Pending(r)
    <3>1. target.join[r] = NoRow /\ r[2] > last /\ r[2] <= maxPk[t] /\ last < r[2]
      BY <1>2, <1>3, <1>10, <2>4 DEF Pending
    <3>2. /\ r[2] \in batch => OfTenant(Source.join[r])
          /\ r[2] <= k /\ r[2] \notin batch => ~OfTenant(Source.join[r])
      BY SMTT(30), <1>2, <1>3, <1>10, <2>1, <3>1, ShardedBatchIsNext
    <3>3. CASE r[2] \in batch
      BY <1>6, <1>7, <2>3, <3>1, <3>2, <3>3
    <3>4. CASE r[2] \notin batch /\ r[2] <= k
      BY <1>6, <1>7, <2>3, <3>1, <3>2, <3>4
    <3>5. CASE r[2] \notin batch /\ ~ (r[2] <= k)
      <4>1. lastPk'[t] = k /\ k < r[2]
        BY SMTT(30), <1>2, <1>3, <2>1, <2>2, <3>5
      <4> QED
        BY <1>1, <1>2, <1>10, <2>1, <2>3, <3>1, <3>5, <4>1 DEF Pending
    <3> QED
      BY <3>3, <3>4, <3>5
  <2>5. CASE Tracked(r) /\ ~Pending(r)
    <3>1. CASE target.join[r] # NoRow \/ r[2] \notin batch
      BY <1>5, <2>3, <2>5, <3>1
    <3>2. CASE target.join[r] = NoRow /\ r[2] \in batch
      <4>1. batch = ShardedBatch(Source, t, last)
        BY <1>3, <1>10 DEF BuildSelect
      <4>2. OfTenant(Source.join[r])
        BY <1>3, <1>10, <3>2, <4>1 DEF ShardedBatch, FirstKeys
      <4> QED
        BY <1>6, <1>7, <2>3, <3>2, <4>2
    <3> QED
      BY <3>1, <3>2
  <2> QED
    BY <2>4, <2>5
<1>11. CASE r[1] = t /\ CompleteTable(t)
  <2>1. ~Pending(r) /\ target' = target
    BY SMTT(30), <1>2, <1>3, <1>11 DEF CompleteTable, Pending
  <2> QED
    BY <1>5, <2>1
<1> QED
  BY <1>8, <1>9, <1>10, <1>11 DEF IteratorStep

\* One row, when the largest primary keys are read: a row behind the largest one
\* is not on the source.
LEMMA MaxOfRow ==
    ASSUME ShardingTypeOK, RowsInv, main = "copying", MaxPrimaryKeys,
           NEW r \in JoinRows, Tracked(r) \/ Pending(r)
    PROVE  Tracked(r)' \/ Pending(r)'
<1>1. UNCHANGED <<history, replicated, streamed, main, lastPk, target>>
  BY DEF MaxPrimaryKeys, replicationVars, ferryVars, runVars
<1>2. /\ r[1] \in JoinTables /\ r[1] \in AllTables /\ r[2] \in JoinIds /\ r[2] \in Nat \ {0}
      /\ r = <<r[1], r[2]>> /\ r[1] # JoinedTable /\ r[1] # PrimaryKeyTable
  BY RowsOfTables
<1>3. \A q : Wanted(q, r)' = Wanted(q, r)
  BY <1>1 DEF Wanted
<1>4. Tracked(r) => Tracked(r)'
  BY <1>1, <1>3 DEF Tracked
<1>5. CASE Pending(r)
  <2>1. target.join[r] = NoRow /\ lastPk[r[1]] < r[2]
    BY SMTT(30), <1>2, <1>5 DEF Pending, RowsInv
  <2>2. KeysOf(Source, r[1]) = {i \in JoinIds : Source.join[<<r[1], i>>] # NoRow}
    BY <1>2 DEF KeysOf
  <2>3. CASE Source.join[r] = NoRow
    <3>1. Wanted(replicated, r) = NoRow
      BY <2>3 DEF Wanted, Source, OfTenant
    <3> QED
      BY <1>4, <2>1, <3>1, TrackedAtSource
  <2>4. CASE Source.join[r] # NoRow
    <3>1. r[2] \in KeysOf(Source, r[1])
      BY <1>2, <2>2, <2>4
    <3>2. r[1] \in CopiedTables
      BY <1>2, FirstCopyTables
    <3>3. cursor'[r[1]] = "open" /\ r[2] <= maxPk'[r[1]]
      BY <1>2, <3>1, <3>2 DEF MaxPrimaryKeys
    <3> QED
      BY <1>1, <2>1, <3>3 DEF Pending
  <2> QED
    BY <2>3, <2>4
<1> QED
  BY <1>4, <1>5

\* The steps of the iterators.
LEMMA RowsIterator ==
    ASSUME ShardingTypeOK, ErrorsInv, RowsInv, IteratorSteps
    PROVE  RowsInv'
<1> USE DEF replicationVars, errorVars, runVars, ferryVars, cursorVars
<1>1. CASE MaxPrimaryKeys /\ main = "copying"
  <2>1. /\ Started /\ main' = "copying" /\ Started'
        /\ UNCHANGED <<streamed, errorCount, lastPk>>
    BY <1>1 DEF MaxPrimaryKeys, Started
  <2>2. \A t \in AllTables : cursor'[t] = "unread" => cursor[t] = "unread"
    BY <1>1 DEF MaxPrimaryKeys
  <2>3. errorCount' = 0 => \A r \in JoinRows : Tracked(r)' \/ Pending(r)'
    BY <1>1, <2>1, MaxOfRow DEF RowsInv
  <2> QED
    BY <1>1, <2>1, <2>2, <2>3 DEF RowsInv
<1>2. ASSUME NEW t \in AllTables, IteratorStep(t), main = "copying"
      PROVE  RowsInv'
  <2>1. /\ Started /\ main' = "copying" /\ Started'
        /\ UNCHANGED <<streamed, errorCount>>
    BY <1>2 DEF IteratorStep, Started
  <2>2. /\ cursor \in [AllTables -> {"unread", "open", "done"}] /\ cursor[t] = "open"
        /\ lastPk \in [AllTables -> Nat]
    BY <1>2 DEF ShardingTypeOK, IteratorStep, CopyBatch, CompleteTable
  <2>3. ASSUME NEW u \in AllTables, cursor'[u] = "unread"
        PROVE  lastPk'[u] = 0
    <3>1. cursor'[t] # "unread"
      BY <1>2, <2>2 DEF IteratorStep, CopyBatch, CompleteTable, Closed
    <3>2. u # t
      BY <2>3, <3>1
    <3>3. cursor'[u] = cursor[u] /\ lastPk'[u] = lastPk[u]
      BY <1>2, <2>2, <3>2, ZenonT(30) DEF IteratorStep, CopyBatch, CompleteTable, Closed
    <3> QED
      BY <1>2, <2>3, <3>3 DEF RowsInv
  <2>4. errorCount' = 0 => \A r \in JoinRows : Tracked(r)' \/ Pending(r)'
    BY <1>2, <2>1, CopyOfRow DEF RowsInv
  <2>5. streamed' > 0
    BY <2>1 DEF RowsInv
  <2> QED
    BY <2>1, <2>3, <2>4, <2>5 DEF RowsInv
<1>3. CASE MaxPrimaryKeys /\ main # "copying"
  <2>1. main \in {"delta", "primary_keys"}
    BY <1>3 DEF MaxPrimaryKeys, CopiedTables
  <2> QED
    BY <1>3, <2>1, RowsElsewhere DEF MaxPrimaryKeys, Started
<1>4. ASSUME NEW t \in AllTables, IteratorStep(t), main # "copying"
      PROVE  RowsInv'
  <2>1. main \in {"delta", "primary_keys"} /\ t \in {JoinedTable, PrimaryKeyTable}
    BY <1>4 DEF IteratorStep, CopiedTables
  <2>2. target'.join = target.join
    <3>1. \A batch : InsertIgnore(Source, t, batch, target).join = target.join
      BY <2>1 DEF InsertIgnore, ShardingTypeOK, Contents
    <3> QED
      BY <1>4, <3>1 DEF IteratorStep, CopyBatch, CompleteTable
  <2>3. main' = main /\ UNCHANGED <<history, replicated, streamed, errorCount>>
    BY <1>4 DEF IteratorStep
  <2> QED
    BY <2>1, <2>2, <2>3, RowsElsewhere DEF Started
<1>5. CASE IteratorGivesUp
  <2>1. errorCount > 0 /\ errorCount' = errorCount /\ errorCount \in Nat
    BY <1>5, PositionType DEF IteratorGivesUp, FatalReturns, ErrorsInv, Goroutines
  <2>2. main \in {"copying", "delta", "primary_keys"} /\ main' = main /\ streamed' = streamed
    BY <1>5 DEF IteratorGivesUp, FatalReturns, ErrorsInv
  <2>3. \A t \in AllTables : lastPk'[t] = 0
    BY <1>5 DEF IteratorGivesUp
  <2> QED
    BY SMTT(30), <2>1, <2>2, <2>3 DEF RowsInv, Started
<1> QED
  BY <1>1, <1>2, <1>3, <1>4, <1>5 DEF IteratorSteps

\* The steps of Run.
LEMMA RowsMain ==
    ASSUME ShardingTypeOK, ErrorsInv, RowsInv, MainStep
    PROVE  RowsInv'
<1> USE DEF replicationVars, errorVars, runVars, ferryVars
<1>1. CASE Start
  BY <1>1, RowsStart
<1>2. CASE WaitUntilRowCopyIsComplete
  <2>1. /\ main = "copying" /\ main' = "scanning" /\ CopyIsDone
        /\ UNCHANGED <<history, replicated, streamed, errorCount, target>>
    BY <1>2 DEF WaitUntilRowCopyIsComplete, Goes
  <2>2. ASSUME NEW r \in JoinRows
        PROVE  ~Pending(r) /\ (Tracked(r) => Tracked(r)')
    <3>1. cursor[r[1]] = "done"
      BY <2>1, FirstCopyTables, RowsOfTables DEF CopyIsDone
    <3> QED
      BY <2>1, <3>1 DEF Pending, Tracked, Wanted
  <2> QED
    BY <2>1, <2>2 DEF RowsInv, Started
<1>3. CASE ScanCompare \/ VerificationFails \/ VerifyOnceFails
  BY <1>3, RowsFrame DEF ScanCompare, VerificationFails, VerifyOnceFails, Fatal
<1>4. ASSUME Started, main # "copying", main' \notin {"start", "refused", "copying"},
             UNCHANGED <<history, replicated, streamed, errorCount, target>>
      PROVE  RowsInv'
  BY <1>4, RowsElsewhere
<1>5. CASE ScanFetch \/ ScanEnds \/ ReverifyEnds
  BY <1>4, <1>5 DEF ScanFetch, ScanEnds, ReverifyEnds, Goes, Started
<1>6. CASE WaitForThrottle \/ InitializeWaitUntilReplica
  BY <1>4, <1>6 DEF WaitForThrottle, InitializeWaitUntilReplica, Goes, Started
<1>7. CASE WaitUntilBinlogStreamerCatchesUp
  <2>1. main = "catch_up" /\ main' \in {"connect", "lock"} /\ errorCount' = errorCount
    BY <1>7 DEF WaitUntilBinlogStreamerCatchesUp, Goes
  <2> QED
    BY <1>4, <1>7, <2>1 DEF WaitUntilBinlogStreamerCatchesUp, Started
<1>8. CASE CutoverLock \/ CutoverUnlock
  BY <1>4, <1>8 DEF CutoverLock, CutoverUnlock, Goes, Started, SetCutover
<1>9. CASE DisableThrottler \/ EnableThrottler
  BY <1>4, <1>9 DEF DisableThrottler, EnableThrottler, Goes, Started, SetDisabled
<1>10. CASE Flush
  <2>1. main = "flush" /\ main' \in {"await", "stop"} /\ errorCount' = errorCount
    BY <1>10 DEF Flush, Goes
  <2> QED
    BY <1>4, <1>10, <2>1 DEF Flush, ReadMasterPosition, Started
<1>11. CASE ReplicaIsCaughtUp \/ FlushAndStop \/ StartDeltaCopy
  BY <1>4, <1>11 DEF ReplicaIsCaughtUp, FlushAndStop, StartDeltaCopy, Goes, Started
<1>12. CASE DeltaCopyEnds \/ VerifyDuringCutover \/ LoadPrimaryKeyTables
  BY <1>4, <1>12 DEF DeltaCopyEnds, VerifyDuringCutover, LoadPrimaryKeyTables, Goes, Started
<1>13. CASE PrimaryKeyCopyEnds \/ VerifyOnce
  BY <1>4, <1>13 DEF PrimaryKeyCopyEnds, VerifyOnce, Goes, Started
<1>14. CASE MainGoesOn
  <2>1. main \in DOMAIN AfterError /\ main' = AfterError[main]
    BY <1>14 DEF MainGoesOn
  <2>2. Started /\ main # "copying" /\ main' \notin {"start", "refused", "copying"}
    BY SMTT(30), <2>1 DEF AfterError, Started
  <2> QED
    BY <1>4, <1>14, <2>2 DEF MainGoesOn, FatalReturns
<1> QED
  BY <1>1, <1>2, <1>3, <1>5, <1>6, <1>7, <1>8, <1>9, <1>10, <1>11, <1>12, <1>13, <1>14
  DEF MainStep

\* Every step.
LEMMA RowsStep ==
    ASSUME ShardingTypeOK, ErrorsInv, RowsInv, [Next]_vars
    PROVE  RowsInv'
<1> USE DEF replicationVars, errorVars, runVars, ferryVars
<1>1. CASE Application
  <2>1. PICK data : history' = Append(history, data)
    BY <1>1, ApplicationType DEF Application, ShardingTypeOK
  <2>2. history \in Seq(Contents)
    BY DEF ShardingTypeOK, ReplicationTypeOK
  <2>3. \A q \in 1..Len(history) : history'[q] = history[q]
    BY SMTT(30), <2>1, <2>2
  <2>4. replicated <= replicated' /\ replicated' \in Nat
    BY SMTT(30), <1>1, ApplicationType DEF Application, ShardingTypeOK, ReplicationTypeOK
  <2> QED
    BY <1>1, <2>3, <2>4, RowsGrow DEF Application
<1>2. CASE Replication
  <2>1. replicated' \in Nat /\ replicated <= replicated' /\ history' = history
    BY SMTT(30), <1>2, PositionType DEF Replication, Replicate
  <2> QED
    BY <1>2, <2>1, RowsGrow DEF Replication
<1>3. CASE \/ FilterFails \/ StreamerFails \/ FerryReturns \/ ThrottlerUpdatesLag \/ ThrottlerFails
           \/ IteratorFails \/ MainFails \/ (\E p \in JoinedPks : Reverify(p))
  BY <1>3, RowsFrame
  DEF FilterFails, StreamerFails, FerryReturns, ThrottlerUpdatesLag, ThrottlerFails,
      IteratorFails, MainFails, Reverify, Fatal
<1>4. CASE CutoverLockFails \/ CutoverUnlockFails
  BY <1>4, RowsFrame DEF CutoverLockFails, CutoverUnlockFails, Fatal, SetCutover
<1>5. ASSUME NEW g \in Goroutines, ErrorStep(g)
      PROVE  RowsInv'
  <2>1. CASE CountError(g) /\ UNCHANGED <<replicationVars, throttlerVars, runVars, ferryVars,
                                          cursorVars, verifierVars, target>>
    <3>1. errorCount' # 0 /\ dead' = dead
      BY SMTT(30), <2>1, PositionType DEF CountError
    <3> QED
      BY <2>1, <3>1, RowsFrame
  <2>2. CASE Panic(g) /\ Forget
    BY <2>2 DEF Panic, Forget, RowsInv, Started
  <2> QED
    BY <1>5, <2>1, <2>2 DEF ErrorStep
<1>6. CASE UNCHANGED vars
  BY <1>6, RowsFrame DEF vars
<1> QED
  BY <1>1, <1>2, <1>3, <1>4, <1>5, <1>6, RowsMain, RowsReplay, RowsIterator
  DEF Next, StreamerStep, Failure

----------------------------------------------------------------------------
\* The end of the stream, and the cutover.

\* Run goes on, on either side of the wait for Ferry.Run.
LEMMA StopMove ==
    ASSUME StopInv, UNCHANGED <<history, stopPos, ferryDone, streamed, cutover>>,
           target'.join = target.join, errorCount' = 0 => errorCount = 0,
           main \in {"join", "finished"} \/ DuringCutover =>
               main' \in {"join", "finished"} \/ DuringCutover',
           DuringCutover' => DuringCutover, main' = "finished" => ferryDone
    PROVE  StopInv'
<1>1. ShardedRowsArrived => ShardedRowsArrived'
  BY DEF ShardedRowsArrived, Master
<1> QED
  BY <1>1 DEF StopInv, MovedIsExact

LEMMA StopFrame ==
    ASSUME StopInv, UNCHANGED <<history, main, stopPos, ferryDone, streamed, cutover>>,
           target'.join = target.join, errorCount' = 0 => errorCount = 0
    PROVE  StopInv'
<1>1. main' = "finished" => ferryDone
  BY DEF StopInv
<1> QED
  BY <1>1, StopMove DEF DuringCutover

\* copyWG.Wait returns: without an error, Ferry.Run has replayed all of the log.
LEMMA StopAtJoin ==
    ASSUME ShardingTypeOK, ErrorsInv, RowsInv, StopInv, StartDeltaCopy
    PROVE  ShardedRowsArrived
<1>1. main = "join" /\ ferryDone /\ Alive("main")
  BY DEF StartDeltaCopy, Goes
<1>2. errorCount = 0
  BY <1>1, NoErrorAtJoin
<1>3. streamed >= stopPos /\ stopPos = Len(history)
  BY <1>1, <1>2 DEF StopInv
<1>4. streamed = Len(history) /\ replicated = Len(history) /\ Len(history) \in Nat
  BY SMTT(30), <1>3, PositionType
<1>5. ASSUME NEW r \in JoinRows
      PROVE  target.join[r] = IF OfTenant(Master.join[r]) THEN Master.join[r] ELSE NoRow
  <2>1. Tracked(r)
    BY <1>1, <1>2 DEF RowsInv, Started, Pending
  <2>2. PICK q \in streamed..replicated : target.join[r] = Wanted(q, r)
    BY <2>1 DEF Tracked
  <2>3. q = Len(history)
    BY SMTT(30), <1>4
  <2> QED
    BY <2>2, <2>3 DEF Wanted, Master
<1> QED
  BY <1>5 DEF ShardedRowsArrived

\* The steps of Run.
LEMMA StopMain ==
    ASSUME ShardingTypeOK, ErrorsInv, LockInv, RowsInv, StopInv, MainStep
    PROVE  StopInv'
<1> USE DEF replicationVars, errorVars, runVars, ferryVars
<1> USE PositionType
<1>1. CASE Start
  <2>1. main = "start" /\ main' \in {"copying", "refused"}
        /\ UNCHANGED <<history, stopPos, ferryDone, cutover, errorCount, target>>
    BY <1>1 DEF Start
  <2>2. errorCount = 0 => stopPos = 0 /\ ~ferryDone
    BY SMTT(30), <2>1 DEF StopInv, DuringCutover
  <2>3. ~DuringCutover'
    BY <2>1 DEF DuringCutover
  <2>4. MovedIsExact'
    BY <2>1 DEF StopInv, MovedIsExact, ShardedRowsArrived, Master
  <2> QED
    BY SMTT(30), <2>1, <2>2, <2>3, <2>4 DEF StopInv
<1>2. CASE ScanFetch \/ ScanCompare \/ VerificationFails \/ VerifyOnceFails
  BY <1>2, StopFrame DEF ScanFetch, ScanCompare, VerificationFails, VerifyOnceFails, Fatal
<1>3. ASSUME main \notin {"join", "finished"}, ~DuringCutover, main' # "finished", ~DuringCutover',
             UNCHANGED <<history, stopPos, ferryDone, streamed, cutover, errorCount, target>>
      PROVE  StopInv'
  BY <1>3, StopMove
<1>4. CASE WaitUntilRowCopyIsComplete
  BY <1>3, <1>4 DEF WaitUntilRowCopyIsComplete, Goes, DuringCutover
<1>5. CASE ScanEnds \/ ReverifyEnds
  BY <1>3, <1>5 DEF ScanEnds, ReverifyEnds, Goes, DuringCutover
<1>6. CASE WaitForThrottle \/ InitializeWaitUntilReplica
  BY <1>3, <1>6 DEF WaitForThrottle, InitializeWaitUntilReplica, Goes, DuringCutover
<1>7. CASE WaitUntilBinlogStreamerCatchesUp
  <2>1. main = "catch_up" /\ main' \in {"connect", "lock"} /\ errorCount' = errorCount
    BY <1>7 DEF WaitUntilBinlogStreamerCatchesUp, Goes
  <2> QED
    BY <1>3, <1>7, <2>1 DEF WaitUntilBinlogStreamerCatchesUp, DuringCutover
<1>8. CASE CutoverLock
  <2>1. /\ main = "lock" /\ main' = "disable" /\ cutover' = "locked"
        /\ UNCHANGED <<history, stopPos, ferryDone, streamed, errorCount>>
    BY <1>8 DEF CutoverLock, Goes, SetCutover
  <2> QED
    BY <2>1 DEF StopInv, DuringCutover, MovedIsExact
<1>9. CASE DisableThrottler
  BY <1>3, <1>9 DEF DisableThrottler, Goes, DuringCutover, SetDisabled
<1>10. CASE Flush
  <2>1. main = "flush" /\ main' \in {"await", "stop"} /\ errorCount' = errorCount
    BY <1>10 DEF Flush, Goes
  <2> QED
    BY <1>3, <1>10, <2>1 DEF Flush, ReadMasterPosition, DuringCutover
<1>11. CASE ReplicaIsCaughtUp
  BY <1>3, <1>11 DEF ReplicaIsCaughtUp, Goes, DuringCutover
<1>12. CASE FlushAndStop
  <2>1. /\ main = "stop" /\ main' = "join" /\ stopPos' = replicated
        /\ UNCHANGED <<history, ferryDone, streamed, cutover, errorCount, target>>
    BY <1>12 DEF FlushAndStop, Goes
  <2>2. errorCount = 0 => replicated = Len(history) /\ ~ferryDone
    BY <2>1 DEF LockInv, StopInv, DuringCutover
  <2>3. MovedIsExact'
    BY <2>1 DEF StopInv, MovedIsExact, ShardedRowsArrived, Master
  <2> QED
    BY <2>1, <2>2, <2>3 DEF StopInv, DuringCutover
<1>13. CASE StartDeltaCopy
  <2>1. /\ main = "join" /\ main' = "delta" /\ ferryDone
        /\ UNCHANGED <<history, stopPos, ferryDone, streamed, cutover, errorCount, target>>
    BY <1>13 DEF StartDeltaCopy, Goes
  <2>2. ShardedRowsArrived'
    BY <1>13, <2>1, StopAtJoin DEF ShardedRowsArrived, Master
  <2> QED
    BY <2>1, <2>2 DEF StopInv, DuringCutover, MovedIsExact
<1>14. ASSUME DuringCutover, DuringCutover',
              UNCHANGED <<history, stopPos, ferryDone, streamed, cutover, errorCount, target>>
       PROVE  StopInv'
  BY <1>14, StopMove DEF DuringCutover
<1>15. CASE DeltaCopyEnds \/ VerifyDuringCutover
  BY <1>14, <1>15 DEF DeltaCopyEnds, VerifyDuringCutover, Goes, DuringCutover
<1>16. CASE LoadPrimaryKeyTables \/ PrimaryKeyCopyEnds
  BY <1>14, <1>16 DEF LoadPrimaryKeyTables, PrimaryKeyCopyEnds, Goes, DuringCutover
<1>17. CASE VerifyOnce \/ EnableThrottler
  BY <1>14, <1>17 DEF VerifyOnce, EnableThrottler, Goes, DuringCutover, SetDisabled
<1>18. CASE CutoverUnlock
  <2>1. /\ main = "unlock" /\ main' = "finished"
        /\ UNCHANGED <<history, stopPos, ferryDone, streamed, errorCount, target>>
    BY <1>18 DEF CutoverUnlock, Goes, SetCutover
  <2>2. ferryDone /\ ShardedRowsArrived'
    BY <2>1 DEF ErrorsInv, DuringCutover, StopInv, ShardedRowsArrived, Master
  <2> QED
    BY <2>1, <2>2 DEF StopInv, DuringCutover, MovedIsExact
<1>19. CASE MainGoesOn
  <2>1. handling["main"] = "returned" /\ errorCount' = errorCount
    BY <1>19 DEF MainGoesOn, FatalReturns
  <2>2. ~DuringCutover /\ errorCount > 0
    BY <2>1, NoReturnDuringCutover DEF ErrorsInv, Goroutines
  <2>3. main' # "finished" /\ ~DuringCutover'
    BY <1>19, <2>2, GoesOnBeforeCutover
  <2>4. MovedIsExact'
    BY <1>19 DEF MainGoesOn, StopInv, MovedIsExact, ShardedRowsArrived, Master
  <2> QED
    BY SMTT(30), <2>1, <2>2, <2>3, <2>4 DEF StopInv
<1> QED
  BY <1>1, <1>2, <1>4, <1>5, <1>6, <1>7, <1>8, <1>9, <1>10, <1>11, <1>12, <1>13, <1>15, <1>16,
     <1>17, <1>18, <1>19
  DEF MainStep

\* Every step.
LEMMA StopStep ==
    ASSUME ShardingTypeOK, ErrorsInv, LockInv, RowsInv, StopInv, [Next]_vars
    PROVE  StopInv'
<1> USE DEF replicationVars, errorVars, runVars, ferryVars
<1> USE PositionType
<1>1. CASE Application
  <2>1. /\ cutover = "open" /\ cutover' = cutover
        /\ UNCHANGED <<main, stopPos, ferryDone, streamed, errorCount>> /\ main # "finished"
    BY <1>1, ApplicationType DEF Application, ShardingTypeOK
  <2>2. ~DuringCutover /\ ~DuringCutover'
    BY <2>1 DEF LockInv, SourceIsCurrent, DuringCutover
  <2>3. errorCount = 0 => stopPos = 0
    BY SMTT(30), <2>1, <2>2 DEF StopInv, LockInv
  <2> QED
    BY SMTT(30), <2>1, <2>2, <2>3 DEF StopInv, MovedIsExact
<1>2. CASE ReplayEvents
  <2>1. /\ ~ferryDone /\ ~dead /\ Started
        /\ UNCHANGED <<history, main, stopPos, ferryDone, cutover, errorCount>>
    BY <1>2 DEF ReplayEvents, Streaming, Alive
  <2>2. ~DuringCutover /\ main # "finished"
    BY <2>1 DEF ErrorsInv, StopInv
  <2>3. cutover # "moved"
    BY <2>1, <2>2 DEF LockInv, DuringCutover
  <2> QED
    BY <2>1, <2>2, <2>3 DEF StopInv, MovedIsExact, DuringCutover
<1>3. CASE FerryReturns
  <2>1. /\ ferryDone' = TRUE
        /\ UNCHANGED <<history, main, stopPos, streamed, cutover, errorCount, target>>
    BY <1>3 DEF FerryReturns
  <2>2. errorCount = 0 => stopPos > 0 /\ streamed >= stopPos
    BY SMTT(30), <1>3 DEF FerryReturns, ErrorsInv, Goroutines
  <2>3. ShardedRowsArrived => ShardedRowsArrived'
    BY <2>1 DEF ShardedRowsArrived, Master
  <2> QED
    BY <2>1, <2>2, <2>3 DEF StopInv, MovedIsExact, DuringCutover
<1>4. CASE \/ Replication \/ FilterFails \/ StreamerFails \/ ThrottlerUpdatesLag \/ ThrottlerFails
           \/ IteratorFails \/ MainFails \/ (\E p \in JoinedPks : Reverify(p))
  BY <1>4, StopFrame
  DEF Replication, Replicate, FilterFails, StreamerFails, ThrottlerUpdatesLag, ThrottlerFails,
      IteratorFails, MainFails, Reverify, Fatal
<1>5. CASE CutoverLockFails \/ CutoverUnlockFails
  <2>1. /\ UNCHANGED <<history, main, stopPos, ferryDone, streamed, errorCount, target>>
        /\ cutover' = "moved" => cutover = "moved" \/ main = "unlock"
    BY <1>5 DEF CutoverLockFails, CutoverUnlockFails, Fatal, SetCutover
  <2>2. ShardedRowsArrived => ShardedRowsArrived'
    BY <2>1 DEF ShardedRowsArrived, Master
  <2> QED
    BY <2>1, <2>2 DEF StopInv, MovedIsExact, DuringCutover
<1>6. CASE MaxPrimaryKeys \/ IteratorGivesUp
  BY <1>6, StopFrame DEF MaxPrimaryKeys, IteratorGivesUp, FatalReturns
<1>7. ASSUME NEW t \in AllTables, IteratorStep(t)
      PROVE  StopInv'
  <2>1. UNCHANGED <<history, main, stopPos, ferryDone, streamed, cutover, errorCount>> /\ ~dead
    BY <1>7 DEF IteratorStep, CopyBatch, CompleteTable, Alive
  <2>2. CASE main = "copying"
    <3>1. cutover # "moved" /\ ~DuringCutover
      BY <2>1, <2>2 DEF LockInv, DuringCutover
    <3> QED
      BY <2>1, <3>1 DEF StopInv, MovedIsExact, DuringCutover
  <2>3. CASE main # "copying"
    <3>1. t \in {JoinedTable, PrimaryKeyTable}
      BY <1>7, <2>3 DEF IteratorStep, CopiedTables
    <3>2. \A batch : InsertIgnore(Source, t, batch, target).join = target.join
      BY <3>1 DEF InsertIgnore, ShardingTypeOK, Contents
    <3>3. target'.join = target.join
      BY <1>7, <3>2 DEF IteratorStep, CopyBatch, CompleteTable
    <3> QED
      BY <2>1, <3>3, StopFrame
  <2> QED
    BY <2>2, <2>3
<1>8. ASSUME NEW g \in Goroutines, ErrorStep(g)
      PROVE  StopInv'
  <2>1. CASE CountError(g) /\ UNCHANGED <<replicationVars, throttlerVars, runVars, ferryVars,
                                          cursorVars, verifierVars, target>>
    <3>1. errorCount' # 0
      BY SMTT(30), <2>1 DEF CountError
    <3> QED
      BY <2>1, <3>1, StopFrame
  <2>2. CASE Panic(g) /\ Forget /\ UNCHANGED <<replicationVars, runFerryFromReplica, target>>
    <3>1. MovedIsExact'
      BY <2>2 DEF StopInv, MovedIsExact, ShardedRowsArrived, Master
    <3> QED
      BY SMTT(30), <2>2, <3>1 DEF Forget, StopInv, DuringCutover
  <2> QED
    BY <1>8, <2>1, <2>2 DEF ErrorStep
<1>9. CASE UNCHANGED vars
  BY <1>9, StopFrame DEF vars
<1> QED
  BY <1>1, <1>2, <1>3, <1>4, <1>5, <1>6, <1>7, <1>8, <1>9, StopMain
  DEF Next, StreamerStep, IteratorSteps, Failure

----------------------------------------------------------------------------
\* The rows and the stop of the streamer, in every state of a run.
THEOREM ExactInvariant == Spec => [](RowsInv /\ StopInv)
<1>1. Init => RowsInv /\ StopInv
  <2> SUFFICES ASSUME Init PROVE RowsInv /\ StopInv
    OBVIOUS
  <2>1. main = "start" /\ cutover = "open" /\ stopPos = 0 /\ ~ferryDone
    BY DEF Init, ReplicationInit
  <2>2. \A r \in JoinRows : target.join[r] = NoRow
    BY ShardingFerryAssumption DEF Init
  <2>3. \A t \in AllTables : cursor[t] = "unread" /\ lastPk[t] = 0
    BY DEF Init
  <2> QED
    BY SMTT(30), <2>1, <2>2, <2>3 DEF RowsInv, StopInv, Started, DuringCutover, MovedIsExact
<1>2. ShardingTypeOK /\ ErrorsInv /\ LockInv /\ RowsInv /\ StopInv /\ [Next]_vars =>
          RowsInv' /\ StopInv'
  BY RowsStep, StopStep
<1> QED
  BY <1>1, <1>2, ShardingInvariant, PTL DEF Spec

\* A tenant that is unlocked on the target has exactly its rows in the sharded
\* tables there: none is missing, none is stale, none is left over from the copy,
\* however batches, replayed events, replication lag and errors interleave.
THEOREM MovedIsAlwaysExact == Spec => []MovedIsExact
<1>1. StopInv => MovedIsExact
  BY DEF StopInv
<1> QED
  BY <1>1, ExactInvariant, PTL
=============================================================================
