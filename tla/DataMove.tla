------------------------------ MODULE DataMove ------------------------------
(***************************************************************************)
(* What a ferry run promises, without cursors, log positions, batches or   *)
(* goroutines: rows arrive on the target one by one while the source keeps *)
(* changing, each as it was at some moment, that moment never lies before  *)
(* the floor, the floor never falls, and the run is only declared done     *)
(* with source and target equal.  A run that fails promises nothing but    *)
(* that what it leaves behind once was on the source.                      *)
(***************************************************************************)
EXTENDS Naturals

CONSTANTS Rows, Row, NoRow

VARIABLES history,   \* history[p]: the source after p changes
          now,       \* number of changes so far
          copy,      \* the target
          floor,     \* the target is not older than this
          pending,   \* rows that may be missing on the target
          status     \* "moving", "done" or "failed"

moveVars == <<history, now, copy, floor, pending, status>>

Nothing == [r \in Rows |-> NoRow]

\* The value v is one that the row r had, not before the moment lo.
HadValue(r, v, lo) == \E p \in lo..now : v = history[p][r]

MoveInit ==
    /\ now = 0
    /\ history \in [{0} -> [Rows -> Row]]
    /\ copy = Nothing
    /\ floor = 0
    /\ pending = Rows
    /\ status = "moving"

SourceChanges ==
    /\ status = "moving"
    /\ now' = now + 1
    /\ \A p \in 0..now : history'[p] = history[p]
    /\ UNCHANGED <<copy, floor, pending, status>>

Move ==
    /\ status = "moving"
    /\ floor' \in floor..now
    /\ pending' \subseteq pending
    /\ \A r \in Rows : \/ copy'[r] = NoRow /\ r \in pending'
                       \/ HadValue(r, copy'[r], floor')
    /\ UNCHANGED <<history, now, status>>

Finish ==
    /\ status = "moving"
    /\ pending = {}
    /\ copy = history[now]
    /\ status' = "done"
    /\ UNCHANGED <<history, now, copy, floor, pending>>

Fail ==
    /\ status = "moving"
    /\ status' = "failed"
    /\ \A r \in Rows : copy'[r] = NoRow \/ HadValue(r, copy'[r], 0)
    /\ floor' = 0
    /\ pending' = Rows
    /\ UNCHANGED <<history, now>>

Retry ==
    /\ status = "failed"
    /\ status' = "moving"
    /\ copy' = Nothing
    /\ UNCHANGED <<history, now, floor, pending>>

MoveNext == SourceChanges \/ Move \/ Finish \/ Fail \/ Retry

MoveSpec == MoveInit /\ [][MoveNext]_moveVars
=============================================================================
