----------------------- MODULE ChecksumTableVerifier -----------------------
(***************************************************************************)
(* The ChecksumTableVerifier of verifier.go, started from the control      *)
(* server as often as the operator likes.  Source and target are quiet:    *)
(* this verifier is used during the cutover.                               *)
(*                                                                         *)
(* The k-th accepted call of StartInBackground allocates the k-th          *)
(* AtomicBoolean, the k-th WaitGroup and the k-th goroutine; v.started and *)
(* v.wg point to the last ones, also for goroutines of earlier calls.      *)
(***************************************************************************)
EXTENDS Naturals, Integers, FiniteSets

CONSTANTS Tables,      \* the tables to verify
          MaxStarts    \* bound: calls that are accepted

ASSUME ChecksumAssumption == MaxStarts \in Nat

VARIABLES equal,       \* the tables that are the same on both sides
          passed,      \* requests that found no verification on going and have not started one
          last,        \* number of calls accepted; v.started and v.wg are the last ones
          flag,        \* the AtomicBooleans
          counter,     \* the WaitGroups' counters
          goroutine,   \* "none", "spawned", "checking", "checked", "stored", "marked",
                       \* "cleared" or "returned"
          todo,        \* per goroutine: tables Verify has still to look at
          outcome,     \* per goroutine: what Verify returned
          myWg,        \* per goroutine: the WaitGroup its deferred Done is about
          result,      \* VerificationResult and verificationErr
          isDone,      \* DoneTime is set
          panicked

checksumVars == <<equal, passed, last, flag, counter, goroutine, todo, outcome, myWg, result,
                  isDone, panicked>>

Calls == 1..MaxStarts

\* "zero" is VerificationResult{} with a nil error.
Outcome == {"zero", "correct", "incorrect", "error"}

ChecksumInit ==
    /\ equal \in SUBSET Tables
    /\ passed = 0
    /\ last = 0
    /\ flag = [k \in Calls |-> FALSE]
    /\ counter = [k \in Calls |-> 0]
    /\ goroutine = [k \in Calls |-> "none"]
    /\ todo = [k \in Calls |-> {}]
    /\ outcome = [k \in Calls |-> "zero"]
    /\ myWg = [k \in Calls |-> 0]
    /\ result = "zero"
    /\ isDone = FALSE
    /\ panicked = FALSE

\* "verification is on going"
OnGoing == last > 0 /\ flag[last] /\ ~isDone

\* Slip: the WaitGroup counts two goroutines.
StartTwoInBackground ==
    LET k == last + 1 IN
    /\ passed > 0
    /\ passed' = passed - 1
    /\ last' = k
    /\ flag' = [flag EXCEPT ![k] = TRUE]
    /\ counter' = [counter EXCEPT ![k] = 2]
    /\ goroutine' = [goroutine EXCEPT ![k] = "spawned"]
    /\ result' = "zero"
    /\ isDone' = FALSE
    /\ UNCHANGED <<equal, todo, outcome, myWg, panicked>>

(***************************************************************************)
(* HandleVerify calls StartInBackground, every request in a goroutine of   *)
(* its own and without a lock: several can pass the check before the first *)
(* of them has set v.started.  A request that is refused changes nothing.  *)
(***************************************************************************)
PassCheck ==
    /\ ~OnGoing
    /\ last + passed < MaxStarts
    /\ passed' = passed + 1
    /\ UNCHANGED <<equal, last, flag, counter, goroutine, todo, outcome, myWg, result, isDone,
                   panicked>>

\* What follows the check.  The stores of one request are taken together.
StartInBackground ==
    LET k == last + 1 IN
    /\ passed > 0
    /\ passed' = passed - 1
    /\ last' = k
    /\ flag' = [flag EXCEPT ![k] = TRUE]
    /\ counter' = [counter EXCEPT ![k] = 1]
    /\ goroutine' = [goroutine EXCEPT ![k] = "spawned"]
    /\ result' = "zero"
    /\ isDone' = FALSE
    /\ UNCHANGED <<equal, todo, outcome, myWg, panicked>>

Advance(k, from, to) ==
    /\ goroutine[k] = from
    /\ goroutine' = [goroutine EXCEPT ![k] = to]
    /\ UNCHANGED <<equal, passed, last>>

\* The receiver of the deferred Done is evaluated.
Begin(k) ==
    /\ Advance(k, "spawned", "checking")
    /\ myWg' = [myWg EXCEPT ![k] = last]
    /\ todo' = [todo EXCEPT ![k] = Tables]
    /\ UNCHANGED <<flag, counter, outcome, result, isDone, panicked>>

\* Slip: the checksums are read and not compared.
TableIsRead(k) ==
    /\ goroutine[k] = "checking"
    /\ \E t \in todo[k] : todo' = [todo EXCEPT ![k] = @ \ {t}]
    /\ UNCHANGED <<equal, passed, last, flag, counter, goroutine, outcome, myWg, result, isDone,
                   panicked>>

\* One table of Verify: both checksums are there and the same.
TableMatches(k) ==
    /\ goroutine[k] = "checking"
    /\ \E t \in todo[k] \cap equal : todo' = [todo EXCEPT ![k] = @ \ {t}]
    /\ UNCHANGED <<equal, passed, last, flag, counter, goroutine, outcome, myWg, result, isDone,
                   panicked>>

\* Verify returns: at a difference, at an error, or at the end.
VerifyReturns(k) ==
    /\ Advance(k, "checking", "checked")
    /\ \E o \in Outcome :
          /\ \/ o = "incorrect" /\ todo[k] \ equal # {}
             \/ o = "error" /\ todo[k] # {}
             \/ o = "correct" /\ todo[k] = {}
          /\ outcome' = [outcome EXCEPT ![k] = o]
    /\ UNCHANGED <<flag, counter, todo, myWg, result, isDone, panicked>>

StoreResult(k) ==
    /\ Advance(k, "checked", "stored")
    /\ result' = outcome[k]
    /\ UNCHANGED <<flag, counter, todo, outcome, myWg, isDone, panicked>>

\* Slip: DoneTime is not set.
SetNoDoneTime(k) ==
    /\ Advance(k, "stored", "marked")
    /\ UNCHANGED <<flag, counter, todo, outcome, myWg, result, isDone, panicked>>

SetDoneTime(k) ==
    /\ Advance(k, "stored", "marked")
    /\ isDone' = TRUE
    /\ UNCHANGED <<flag, counter, todo, outcome, myWg, result, panicked>>

\* v.started.Set(false), of the AtomicBoolean that v.started is now.
ClearStarted(k) ==
    /\ Advance(k, "marked", "cleared")
    /\ flag' = [flag EXCEPT ![last] = FALSE]
    /\ UNCHANGED <<counter, todo, outcome, myWg, result, isDone, panicked>>

\* A WaitGroup panics when its counter becomes negative.
DeferredDone(k) ==
    /\ Advance(k, "cleared", "returned")
    /\ counter' = [counter EXCEPT ![myWg[k]] = @ - 1]
    /\ panicked' = (counter'[myWg[k]] < 0)
    /\ UNCHANGED <<flag, todo, outcome, myWg, result, isDone>>

GoroutineStep(k) ==
    \/ Begin(k)
    \/ TableMatches(k)
    \/ VerifyReturns(k)
    \/ StoreResult(k)
    \/ SetDoneTime(k)
    \/ ClearStarted(k)
    \/ DeferredDone(k)

\* The process is gone, or all is done and nothing more can be started.
ChecksumEnded ==
    /\ panicked \/ (last = MaxStarts /\ \A k \in Calls : goroutine[k] = "returned")
    /\ UNCHANGED checksumVars

ChecksumNext ==
    \/ ~panicked /\ PassCheck
    \/ ~panicked /\ StartInBackground
    \/ ~panicked /\ \E k \in Calls : GoroutineStep(k)
    \/ ChecksumEnded

ChecksumSpec == ChecksumInit /\ [][ChecksumNext]_checksumVars

\* Goroutines run; the operator need not start anything.
FairChecksumSpec ==
    ChecksumSpec /\ \A k \in Calls : WF_checksumVars(~panicked /\ GoroutineStep(k))

----------------------------------------------------------------------------
\* Properties.

\* The variables hold what the fields of the verifier can hold.
ChecksumTypeOK ==
    /\ equal \subseteq Tables
    /\ passed \in 0..MaxStarts
    /\ last \in 0..MaxStarts
    /\ flag \in [Calls -> BOOLEAN]
    /\ counter \in [Calls -> -1..1]
    /\ goroutine \in [Calls -> {"none", "spawned", "checking", "checked", "stored", "marked",
                                "cleared", "returned"}]
    /\ todo \in [Calls -> SUBSET Tables]
    /\ outcome \in [Calls -> Outcome]
    /\ myWg \in [Calls -> 0..MaxStarts]
    /\ result \in Outcome
    /\ isDone \in BOOLEAN
    /\ panicked \in BOOLEAN

(***************************************************************************)
(* However calls and goroutines overlap, VerificationResult{true, ""} is   *)
(* only ever shown when every table is the same (verifier.go, Verify).     *)
(***************************************************************************)
CorrectIsTrue == result = "correct" => equal = Tables

(***************************************************************************)
(* A verification that was started is done some time later, unless the     *)
(* process is gone (verifier.go, the goroutine of StartInBackground).      *)
(***************************************************************************)
StartedIsDone == last > 0 ~> isDone \/ panicked

(***************************************************************************)
(* "If the verification has been completed successfully (without errors)   *)
(* and the data checks out to be "correct", the result will be             *)
(* VerificationResult{true, ""}" (verifier.go, the comment on Result).     *)
(***************************************************************************)
DoneResultIsRight ==
    isDone /\ result # "error" /\ equal = Tables => result = "correct"
=============================================================================
