--------------------------- MODULE FerryMovedRows ---------------------------
(***************************************************************************)
(* Ferry with an application that also changes primary keys.               *)
(***************************************************************************)
EXTENDS Ferry

(***************************************************************************)
(* UPDATE of the primary key, logged as one change with two keys.          *)
(* BinlogUpdateEvent replays it as one UPDATE whose WHERE clause names the *)
(* old row, wherever the cursor is.                                        *)
(***************************************************************************)
ApplicationMovesRow ==
    /\ Running
    /\ \E r, q \in RowIds :
          /\ TableOf(r) = TableOf(q)
          /\ Source[r] # NoRow
          /\ Source[q] = NoRow
          /\ ~RowLocked(r)
          /\ LogChange([row |-> r, to |-> q, old |-> Source[r], new |-> Source[r], end |-> TRUE],
                       [Source EXCEPT ![r] = NoRow, ![q] = Source[r]])
    /\ UNCHANGED <<streamerVars, writerVars, iteratorVars, ferryVars>>

MovingSpec == Init /\ [][Next \/ ApplicationMovesRow]_vars

(***************************************************************************)
(* "After waiting for the binlog streamer to stop, the source and the      *)
(* target should be identical" (copydb.go, Run).                           *)
(***************************************************************************)
IdenticalAfterStreaming == phase = "done" => target = Source
=============================================================================
