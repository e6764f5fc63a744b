---------------------------- MODULE FatalErrors ----------------------------
(***************************************************************************)
(* sharding/error_handler.go and error_handler.go: what Fatal does in the  *)
(* goroutine that calls it.  The error callback is posted first; then the  *)
(* errors are counted, and the goroutine with the first one dumps the      *)
(* state and panics.  For any other goroutine Fatal returns.  Until the    *)
(* panic all other goroutines go on.                                       *)
(***************************************************************************)
EXTENDS Naturals, FiniteSets

CONSTANT MaxFatals   \* bound: calls of Fatal

ASSUME FatalErrorsAssumption == MaxFatals \in Nat \ {0}

VARIABLES handling,     \* per goroutine: "no", "posting", "dumping" or "returned"
          errorCount,
          dead          \* the process has panicked

errorVars == <<handling, errorCount, dead>>

\* The goroutines of a run: the one that runs ShardingFerry.Run, the binlog
\* streamer with the writer, the workers of the data iterator, the throttler.
Goroutines == {"main", "streamer", "iterator", "throttler"}

ErrorInit ==
    /\ handling = [g \in Goroutines |-> "no"]
    /\ errorCount = 0
    /\ dead = FALSE

Alive(g) == ~dead /\ handling[g] = "no"

FatalCalls == errorCount + Cardinality({h \in Goroutines : handling[h] = "posting"})

\* Fatal is called; posting the callback begins.
Fatal(g) ==
    /\ Alive(g)
    /\ FatalCalls < MaxFatals
    /\ handling' = [handling EXCEPT ![g] = "posting"]
    /\ UNCHANGED <<errorCount, dead>>

\* Slip: the first error returns and the second one ends the process.
CountErrorFromZero(g) ==
    /\ ~dead
    /\ handling[g] = "posting"
    /\ errorCount' = errorCount + 1
    /\ handling' = [handling EXCEPT ![g] = IF errorCount > 1 THEN "dumping" ELSE "returned"]
    /\ UNCHANGED dead

\* The callback was answered or failed, which is logged only.
CountError(g) ==
    /\ ~dead
    /\ handling[g] = "posting"
    /\ errorCount' = errorCount + 1
    /\ handling' = [handling EXCEPT ![g] = IF errorCount' > 1 THEN "returned" ELSE "dumping"]
    /\ UNCHANGED dead

Panic(g) ==
    /\ ~dead
    /\ handling[g] = "dumping"
    /\ dead' = TRUE
    /\ handling' = [h \in Goroutines |-> "no"]
    /\ errorCount' = 0

\* Fatal has returned to its caller, which goes on.
FatalReturns(g) ==
    /\ ~dead
    /\ handling[g] = "returned"
    /\ handling' = [handling EXCEPT ![g] = "no"]
    /\ UNCHANGED <<errorCount, dead>>

ErrorTypeOK ==
    /\ handling \in [Goroutines -> {"no", "posting", "dumping", "returned"}]
    /\ errorCount \in Nat
    /\ dead \in BOOLEAN
=============================================================================
