----------------------------- MODULE Databases -----------------------------
(***************************************************************************)
(* The two MySQL servers of a run, as Ghostferry sees them: the source     *)
(* with the application writing to it and the row-based binary log it      *)
(* keeps, and the tables being filled on the target.  MySQL and the        *)
(* application are outside the repository; what is modelled here is what   *)
(* ferry.go, cursor.go and binlog_streamer.go rely on.                     *)
(*                                                                         *)
(* A row is named by its table and its primary key.  `versions' keeps the  *)
(* contents of the source tables after every logged row change, so         *)
(* versions[0] is the state the model starts from and the last one is the  *)
(* state now; the code never sees it, the properties compare with it.      *)
(***************************************************************************)
EXTENDS Naturals, Sequences, FiniteSets

CONSTANTS Tables,   \* the tables that are copied
          PKs,      \* their primary keys, numbers greater than zero
          Values,   \* what the other columns of a row can hold
          NoRow,    \* there is no row with this key
          Other,    \* stands for the row of an event Ghostferry has no use for
          MaxLog    \* bound: row changes and other events the application logs

ASSUME DatabasesAssumption ==
    /\ IsFiniteSet(PKs)
    /\ PKs \subseteq Nat \ {0}
    /\ NoRow \notin Values
    /\ Other \notin Tables \X PKs
    /\ MaxLog \in Nat

VARIABLES versions, binlog, committed, writesStopped, target

sourceVars == <<versions, binlog, committed, writesStopped>>

RowIds == Tables \X PKs
TableOf(r) == r[1]
Pk(r) == r[2]

Row == Values \cup {NoRow}
TableData == [RowIds -> Row]

(***************************************************************************)
(* One row of a rows event.  An insert has old = NoRow, a delete has       *)
(* new = NoRow.  `row' is the key in the before image and `to' the key in  *)
(* the after image.  `end' marks the last row of a transaction; positions  *)
(* inside a transaction are not told apart, as SHOW MASTER STATUS never    *)
(* gives one.  An event of a table that is not copied, a filtered event, a *)
(* rotation or the end of a transaction has row = Other.                   *)
(***************************************************************************)
Change == [row : RowIds \cup {Other}, to : RowIds \cup {Other},
           old : Row, new : Row, end : BOOLEAN]

Source == versions[Len(binlog)]
CommittedSource == versions[committed]

IsDML(i) == binlog[i].row # Other

\* The rows of the table t with a key beyond k.
RowsAfter(data, t, k) ==
    {r \in RowIds : TableOf(r) = t /\ Pk(r) > k /\ data[r] # NoRow}

\* ORDER BY pk LIMIT n: the rows with fewer than n rows before them.
FirstRows(S, n) ==
    {r \in S : Cardinality({q \in S : Pk(q) < Pk(r)}) < n}

----------------------------------------------------------------------------

InitSource ==
    /\ versions \in [{0} -> TableData]
    /\ binlog = <<>>
    /\ committed = 0
    /\ writesStopped = FALSE

\* The change c is logged and leaves the source tables as data.
LogChange(c, data) ==
    /\ ~writesStopped
    /\ Len(binlog) < MaxLog
    /\ Len(binlog) + 1 = MaxLog => c.end
    /\ binlog' = Append(binlog, c)
    /\ versions' = [p \in 0..Len(binlog) + 1 |->
                       IF p <= Len(binlog) THEN versions[p] ELSE data]
    /\ committed' = IF c.end THEN Len(binlog) + 1 ELSE committed
    /\ UNCHANGED <<writesStopped, target>>

(***************************************************************************)
(* The application inserts, updates or deletes one row; the primary key of *)
(* a row does not change.  The change takes effect with the event that     *)
(* ends its transaction: nobody reads beyond `committed'.                  *)
(***************************************************************************)
ApplicationWrites(r, v, end) ==
    /\ v # Source[r]
    /\ LogChange([row |-> r, to |-> r, old |-> Source[r], new |-> v, end |-> end],
                 [Source EXCEPT ![r] = v])

\* The log grows by something that is not a change of a copied row.
LogOther ==
    LogChange([row |-> Other, to |-> Other, old |-> NoRow, new |-> NoRow, end |-> TRUE],
              Source)

(***************************************************************************)
(* The source becomes read-only once its transactions are complete: the    *)
(* operator's step in copydb, the CutoverLock callback in sharding.        *)
(***************************************************************************)
StopWrites ==
    /\ ~writesStopped
    /\ committed = Len(binlog)
    /\ writesStopped' = TRUE
    /\ UNCHANGED <<versions, binlog, committed, target>>

DatabasesTypeOK ==
    /\ binlog \in Seq(Change)
    /\ versions \in [0..Len(binlog) -> TableData]
    /\ committed \in 0..Len(binlog)
    /\ writesStopped \in BOOLEAN
    /\ target \in TableData
=============================================================================
