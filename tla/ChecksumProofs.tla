--------------------------- MODULE ChecksumProofs ---------------------------
(***************************************************************************)
(* The safety of the ChecksumTableVerifier for any set of tables and any   *)
(* number of calls, overlapping goroutines of earlier calls included.      *)
(***************************************************************************)
EXTENDS ChecksumTableVerifier, TLAPS

\* Most leaves are first-order: Zenon is tried before the SMT solver.
USE ZenonT(5), SMTT(30)

(***************************************************************************)
(* A goroutine that has begun knows its WaitGroup, and the tables it is    *)
(* done with are the same.  No counter is negative unless the process is   *)
(* gone.  Every request past the check still has a number to take.         *)
(***************************************************************************)
ChecksumInv ==
    /\ ChecksumTypeOK
    /\ last + passed <= MaxStarts
    /\ ~panicked => \A k \in Calls : counter[k] >= 0
    /\ \A k \in Calls : goroutine[k] # "none" => last > 0
    /\ \A k \in Calls : goroutine[k] \notin {"none", "spawned"} => myWg[k] \in Calls
    /\ \A k \in Calls : goroutine[k] = "checking" => Tables \ todo[k] \subseteq equal
    /\ \A k \in Calls : outcome[k] = "correct" => equal = Tables
    /\ CorrectIsTrue

LEMMA ChecksumPass ==
    ASSUME ChecksumInv, PassCheck
    PROVE  ChecksumInv'
<1>1. /\ passed' \in 0..MaxStarts /\ last' + passed' <= MaxStarts
      /\ UNCHANGED <<equal, last, flag, counter, goroutine, todo, outcome, myWg, result, isDone,
                     panicked>>
  BY SMTT(30), ChecksumAssumption DEF ChecksumInv, ChecksumTypeOK, PassCheck
<1>2. ChecksumTypeOK'
  BY <1>1 DEF ChecksumInv, ChecksumTypeOK
<1> QED
  BY <1>1, <1>2 DEF ChecksumInv, CorrectIsTrue

LEMMA ChecksumStart ==
    ASSUME ChecksumInv, ~panicked, StartInBackground
    PROVE  ChecksumInv'
<1> USE ChecksumAssumption
<1> DEFINE c == last + 1
<1>1. /\ last \in Nat /\ c \in Calls /\ last' = c /\ c > 0 /\ result' = "zero"
      /\ passed' \in 0..MaxStarts /\ last' + passed' <= MaxStarts
      /\ UNCHANGED <<equal, todo, outcome, myWg, panicked>>
  BY SMTT(30) DEF ChecksumInv, ChecksumTypeOK, StartInBackground, Calls
<1>2. /\ flag' \in [Calls -> BOOLEAN] /\ counter' \in [Calls -> -1..1]
      /\ goroutine' \in [Calls -> {"none", "spawned", "checking", "checked", "stored", "marked",
                                   "cleared", "returned"}]
  BY SMTT(30), <1>1 DEF ChecksumInv, ChecksumTypeOK, StartInBackground
<1>3. last' \in 0..MaxStarts
  BY SMTT(30), <1>1 DEF Calls
<1>4. isDone' \in BOOLEAN
  BY DEF StartInBackground
<1>5. ChecksumTypeOK'
  BY <1>1, <1>2, <1>3, <1>4 DEF ChecksumInv, ChecksumTypeOK, Outcome
<1>6. \A k \in Calls : counter'[k] >= 0
  BY SMTT(30) DEF ChecksumInv, ChecksumTypeOK, StartInBackground
<1>7. \A k \in Calls : goroutine'[k] \in {goroutine[k], "spawned"}
  BY DEF ChecksumInv, ChecksumTypeOK, StartInBackground
<1> QED
  BY <1>1, <1>5, <1>6, <1>7 DEF ChecksumInv, CorrectIsTrue

LEMMA ChecksumGoroutine ==
    ASSUME ChecksumInv, ~panicked, NEW g \in Calls, GoroutineStep(g)
    PROVE  ChecksumInv'
<1> USE DEF Advance
<1> DEFINE Places == {"none", "spawned", "checking", "checked", "stored", "marked",
                      "cleared", "returned"}
<1>1. /\ equal \subseteq Tables /\ last \in 0..MaxStarts /\ passed \in 0..MaxStarts
      /\ flag \in [Calls -> BOOLEAN] /\ counter \in [Calls -> -1..1]
      /\ goroutine \in [Calls -> Places] /\ todo \in [Calls -> SUBSET Tables]
      /\ outcome \in [Calls -> Outcome] /\ myWg \in [Calls -> 0..MaxStarts]
      /\ result \in Outcome /\ isDone \in BOOLEAN /\ panicked \in BOOLEAN
  BY DEF ChecksumInv, ChecksumTypeOK
<1>2. goroutine[g] # "none" /\ last > 0 /\ last \in Calls
  <2>1. goroutine[g] # "none"
    BY DEF GoroutineStep, Begin, TableMatches, VerifyReturns, StoreResult, SetDoneTime,
        ClearStarted, DeferredDone
  <2> QED
    BY SMTT(30), <1>1, <2>1, ChecksumAssumption DEF ChecksumInv, Calls
<1> passed' = passed /\ last' = last /\ last' + passed' <= MaxStarts
  BY DEF ChecksumInv, GoroutineStep, Begin, TableMatches, VerifyReturns, StoreResult,
      SetDoneTime, ClearStarted, DeferredDone
<1>3. CASE Begin(g)
  <2>1. /\ goroutine' \in [Calls -> Places] /\ todo' \in [Calls -> SUBSET Tables]
        /\ myWg' \in [Calls -> 0..MaxStarts]
    BY <1>1, <1>3 DEF Begin
  <2>2. \A k \in Calls : k # g =>
            goroutine'[k] = goroutine[k] /\ todo'[k] = todo[k] /\ myWg'[k] = myWg[k]
    BY <1>1, <1>3 DEF Begin
  <2>3. goroutine'[g] = "checking" /\ todo'[g] = Tables /\ myWg'[g] = last
    BY <1>1, <1>3 DEF Begin
  <2>4. ChecksumTypeOK'
    BY <1>1, <1>3, <2>1 DEF Begin, ChecksumTypeOK
  <2> QED
    BY <1>2, <1>3, <2>2, <2>3, <2>4 DEF Begin, ChecksumInv, CorrectIsTrue
<1>4. CASE TableMatches(g)
  <2>1. PICK t \in todo[g] \cap equal : todo' = [todo EXCEPT ![g] = @ \ {t}]
    BY <1>4 DEF TableMatches
  <2>2. todo' \in [Calls -> SUBSET Tables] /\ todo'[g] = todo[g] \ {t}
    BY <1>1, <2>1
  <2>3. \A k \in Calls : k # g => todo'[k] = todo[k]
    BY <1>1, <2>1
  <2>4. goroutine[g] = "checking" /\ Tables \ todo[g] \subseteq equal
    BY <1>4 DEF TableMatches, ChecksumInv
  <2>5. Tables \ todo'[g] \subseteq equal
    BY <2>1, <2>2, <2>4
  <2>6. ChecksumTypeOK'
    BY <1>1, <1>4, <2>2 DEF TableMatches, ChecksumTypeOK
  <2> QED
    BY <1>4, <2>3, <2>5, <2>6 DEF TableMatches, ChecksumInv, CorrectIsTrue
<1>5. CASE VerifyReturns(g)
  <2>1. PICK o \in Outcome : /\ o = "correct" => todo[g] = {}
                             /\ outcome' = [outcome EXCEPT ![g] = o]
    BY <1>5 DEF VerifyReturns
  <2>2. goroutine[g] = "checking" /\ goroutine' = [goroutine EXCEPT ![g] = "checked"]
    BY <1>5 DEF VerifyReturns
  <2>3. o = "correct" => equal = Tables
    BY <1>1, <2>1, <2>2 DEF ChecksumInv
  <2>4. goroutine' \in [Calls -> Places] /\ outcome' \in [Calls -> Outcome]
    BY <1>1, <2>1, <2>2
  <2>5. ChecksumTypeOK'
    BY <1>1, <1>5, <2>4 DEF VerifyReturns, ChecksumTypeOK
  <2>6. \A k \in Calls : outcome'[k] = "correct" => equal = Tables
    BY <1>1, <2>1, <2>3 DEF ChecksumInv
  <2>7. \A k \in Calls : goroutine'[k] = IF k = g THEN "checked" ELSE goroutine[k]
    BY <1>1, <2>2
  <2> QED
    BY <1>5, <2>2, <2>5, <2>6, <2>7 DEF VerifyReturns, ChecksumInv, CorrectIsTrue
<1>6. CASE StoreResult(g) \/ SetDoneTime(g) \/ ClearStarted(g)
  <2>1. PICK to \in {"stored", "marked", "cleared"} : goroutine' = [goroutine EXCEPT ![g] = to]
    BY <1>6 DEF StoreResult, SetDoneTime, ClearStarted
  <2>2. goroutine[g] \notin {"none", "spawned"} /\ UNCHANGED <<equal, last, counter, todo, outcome,
            myWg, panicked>>
    BY <1>6 DEF StoreResult, SetDoneTime, ClearStarted
  <2>3. goroutine' \in [Calls -> Places]
    BY <1>1, <2>1
  <2>4. \A k \in Calls : goroutine'[k] = IF k = g THEN to ELSE goroutine[k]
    BY <1>1, <2>1
  <2>5. flag' \in [Calls -> BOOLEAN]
    BY <1>1, <1>6 DEF StoreResult, SetDoneTime, ClearStarted
  <2>6. isDone' \in BOOLEAN
    BY <1>1, <1>6 DEF StoreResult, SetDoneTime, ClearStarted
  <2>7. result' \in {result, outcome[g]}
    BY <1>6 DEF StoreResult, SetDoneTime, ClearStarted
  <2>8. ChecksumTypeOK'
    BY SMTT(30), <1>1, <2>2, <2>3, <2>5, <2>6, <2>7 DEF ChecksumTypeOK
  <2>9. CorrectIsTrue'
    BY <2>2, <2>7 DEF ChecksumInv, CorrectIsTrue
  <2> QED
    BY <2>2, <2>4, <2>8, <2>9 DEF ChecksumInv
<1>7. CASE DeferredDone(g)
  <2> DEFINE w == myWg[g]
  <2>1. /\ goroutine[g] = "cleared" /\ goroutine' = [goroutine EXCEPT ![g] = "returned"]
        /\ counter' = [counter EXCEPT ![w] = counter[w] - 1]
        /\ UNCHANGED <<equal, last, flag, todo, outcome, myWg, result, isDone>>
    BY <1>7 DEF DeferredDone
  <2>2. w \in Calls
    BY <2>1 DEF ChecksumInv
  <2>3. counter[w] \in 0..1 /\ \A k \in Calls : counter[k] >= 0
    BY SMTT(30), <1>1, <2>2 DEF ChecksumInv
  <2>4. panicked' = (counter'[w] < 0)
    BY <1>7 DEF DeferredDone
  <2>5. panicked' \in BOOLEAN
    BY SMTT(30), <2>4
  <2> HIDE DEF w
  <2>6. counter' \in [Calls -> -1..1]
    BY SMTT(30), <1>1, <2>1, <2>2, <2>3
  <2>7. \A k \in Calls : k # w => counter'[k] = counter[k]
    BY <1>1, <2>1
  <2>8. ASSUME ~panicked'
        PROVE  counter'[w] >= 0
    <3>1. ~ (counter'[w] < 0)
      BY <2>4, <2>8
    <3>2. counter'[w] \in Int
      BY SMTT(30), <2>2, <2>6
    <3> QED
      BY SMTT(30), <3>1, <3>2
  <2>9. goroutine' \in [Calls -> Places]
    BY <1>1, <2>1
  <2>10. \A k \in Calls : goroutine'[k] = IF k = g THEN "returned" ELSE goroutine[k]
    BY <1>1, <2>1
  <2>11. ChecksumTypeOK'
    BY <1>1, <2>1, <2>5, <2>6, <2>9 DEF ChecksumTypeOK
  <2>12. ~panicked' => \A k \in Calls : counter'[k] >= 0
    BY <2>3, <2>7, <2>8
  <2> QED
    BY SMTT(30), <2>1, <2>10, <2>11, <2>12 DEF ChecksumInv, CorrectIsTrue
<1> QED
  BY <1>3, <1>4, <1>5, <1>6, <1>7 DEF GoroutineStep

\* The invariant holds at all times.
THEOREM ChecksumInvariant == ChecksumSpec => []ChecksumInv
<1>1. ChecksumInit => ChecksumInv
  <2> SUFFICES ASSUME ChecksumInit PROVE ChecksumInv
    OBVIOUS
  <2>1. /\ last \in 0..MaxStarts /\ passed \in 0..MaxStarts /\ last + passed <= MaxStarts /\ 0 \in -1..1 /\ 0 \in 0..MaxStarts
    BY SMTT(30), ChecksumAssumption DEF ChecksumInit
  <2>2. isDone \in BOOLEAN /\ panicked \in BOOLEAN
    BY DEF ChecksumInit
  <2>3. flag \in [Calls -> BOOLEAN]
    BY DEF ChecksumInit
  <2>4. ChecksumTypeOK
    BY <2>1, <2>2, <2>3 DEF ChecksumInit, ChecksumTypeOK, Outcome
  <2>5. \A k \in Calls : counter[k] = 0 /\ goroutine[k] = "none" /\ outcome[k] = "zero"
    BY DEF ChecksumInit
  <2> QED
    BY SMTT(30), <2>1, <2>4, <2>5 DEF ChecksumInit, ChecksumInv, CorrectIsTrue
<1>2. ChecksumInv /\ [ChecksumNext]_checksumVars => ChecksumInv'
  <2> SUFFICES ASSUME ChecksumInv, [ChecksumNext]_checksumVars PROVE ChecksumInv'
    OBVIOUS
  <2>1. CASE UNCHANGED checksumVars
    BY <2>1 DEF checksumVars, ChecksumInv, ChecksumTypeOK, CorrectIsTrue
  <2> QED
    BY <2>1, ChecksumPass, ChecksumStart, ChecksumGoroutine DEF ChecksumNext, ChecksumEnded
<1> QED
  BY <1>1, <1>2, PTL DEF ChecksumSpec

\* Type correctness; in particular no WaitGroup's counter falls below -1 or
\* rises above 1, however the goroutines of earlier calls go on.
THEOREM ChecksumTypeCorrect == ChecksumSpec => []ChecksumTypeOK
<1>1. ChecksumInv => ChecksumTypeOK
  BY DEF ChecksumInv
<1> QED
  BY <1>1, ChecksumInvariant, PTL

\* VerificationResult{true, ""} is only ever shown when every table is the same.
THEOREM CorrectIsAlwaysTrue == ChecksumSpec => []CorrectIsTrue
<1>1. ChecksumInv => CorrectIsTrue
  BY DEF ChecksumInv
<1> QED
  BY <1>1, ChecksumInvariant, PTL
=============================================================================
