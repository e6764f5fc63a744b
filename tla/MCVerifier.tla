----------------------------- MODULE MCVerifier -----------------------------
(***************************************************************************)
(* IterativeVerifier for TLC.  Rows are only compared with each other.     *)
(***************************************************************************)
EXTENDS IterativeVerifier, TLC

VerifiedValuesSymmetry == Permutations(Values)

\* What comes after the end is not followed: the run has returned, and the source
\* takes no writes, or the process was aborted.  An error leads there and nowhere
\* else.
Unfinished == stage # "finished" /\ ~errored
(***************************************************************************)
(* What the steps to come and the safety properties depend on.  Two states *)
(* that differ in the rest only go on alike:  changes that were replayed   *)
(* are never read again but for the rows that the listener has still to be *)
(* told of, whether a row was changed since the listener was added matters *)
(* where the source has no such row, and the number of an attempt, the     *)
(* progress of the scan and the count of iterations are set anew before    *)
(* they are used again.                                                    *)
(***************************************************************************)
WhatMatters ==
    <<Len(binlog), committed, writesStopped, target, streamerVars,
      [p \in applied..Len(binlog) |-> versions[p]],
      [p \in applied + 1..Len(binlog) |-> binlog[p]],
      [p \in notified + 1..Len(binlog) |-> binlog[p].row],
      {r \in RowIds : Source[r] = NoRow /\ ChangedIn(r, attachedAt, Len(binlog))},
      writer, taken, applied, exec, undo, IF writer = "write" THEN attempt ELSE 1,
      stage, notified, store, todo, jobs, errored, failed, result,
      IF stage = "scan" THEN <<scan, scanLast>> ELSE <<>>,
      IF stage = "reverify" THEN <<before, iteration>> ELSE <<>> >>
=============================================================================
