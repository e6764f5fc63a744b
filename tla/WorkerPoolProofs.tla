-------------------------- MODULE WorkerPoolProofs --------------------------
(***************************************************************************)
(* The safety of WorkerPool.Run for any number of workers and indices.     *)
(***************************************************************************)
EXTENDS WorkerPool, SequenceTheorems, FiniteSetTheorems, TLAPS

\* Most leaves are first-order: Zenon is tried before the SMT solver.
USE ZenonT(5), SMTT(30)

\* What is in a sequence after Append.
LEMMA AppendElements ==
    ASSUME NEW S, NEW s \in Seq(S), NEW e \in S
    PROVE  /\ Append(s, e) \in Seq(S)
           /\ Append(s, e) # <<>>
           /\ {Append(s, e)[k] : k \in 1..Len(Append(s, e))} = {s[k] : k \in 1..Len(s)} \cup {e}
<1> DEFINE t == Append(s, e)
<1>1. /\ t \in Seq(S) /\ t # <<>> /\ Len(t) = Len(s) + 1 /\ Len(s) \in Nat
      /\ \A k \in 1..Len(s) : t[k] = s[k]
      /\ t[Len(s) + 1] = e
  BY SMTT(30)
<1> HIDE DEF t
<1>2. 1..Len(t) = 1..Len(s) \cup {Len(s) + 1}
  BY SMTT(30), <1>1
<1>3. {t[k] : k \in 1..Len(t)} = {t[k] : k \in 1..Len(s)} \cup {t[Len(s) + 1]}
  BY <1>2
<1>4. {t[k] : k \in 1..Len(s)} = {s[k] : k \in 1..Len(s)}
  BY <1>1
<1> QED
  BY <1>1, <1>3, <1>4 DEF t

\* The workers that have returned can be counted.
LEMMA GoneIsFinite ==
    /\ IsFiniteSet({w \in Workers : worker[w] = "returned"})
    /\ Cardinality({w \in Workers : worker[w] = "returned"}) \in Nat
<1> DEFINE gone == {w \in Workers : worker[w] = "returned"}
<1>1. gone \subseteq Workers /\ IsFiniteSet(Workers)
  BY WorkerPoolAssumption
<1> HIDE DEF gone
<1>2. IsFiniteSet(gone)
  BY <1>1, FS_Subset
<1>3. Cardinality(gone) \in Nat
  BY <1>2, FS_CardinalityType
<1> QED
  BY <1>2, <1>3 DEF gone

\* The channel is no fuller, and no worker returns.
LEMMA ChannelFrame ==
    ASSUME PoolInv, Len(errCh') \in Nat, Len(errCh') <= Len(errCh),
           \A w \in Workers : worker'[w] = "returned" <=> worker[w] = "returned"
    PROVE  ChannelFits'
<1> DEFINE n == Cardinality({w \in Workers : worker[w] = "returned"})
<1>1. {w \in Workers : worker'[w] = "returned"} = {w \in Workers : worker[w] = "returned"}
  OBVIOUS
<1>2. n \in Nat
  BY GoneIsFinite
<1>3. Len(errCh) \in Nat /\ Len(errCh) <= n
  BY SMTT(30) DEF PoolInv, PoolTypeOK, ChannelFits
<1>4. ChannelFits' <=> Len(errCh') <= n
  BY <1>1 DEF ChannelFits
<1> HIDE DEF n
<1> QED
  BY SMTT(30), <1>2, <1>3, <1>4

LEMMA PoolInitInv == PoolInit => PoolInv
<1> SUFFICES ASSUME PoolInit PROVE PoolInv
  OBVIOUS
<1>1. PoolTypeOK
  BY SMTT(30), WorkerPoolAssumption DEF PoolInit, PoolTypeOK, Index, Error
<1>2. Failed = {}
  BY SMTT(30) DEF PoolInit, Failed
<1>3. ErrorsTravel
  BY DEF PoolInit, ErrorsTravel
<1>4. IndicesAccounted
  BY SMTT(30), <1>2 DEF PoolInit, IndicesAccounted, HasIndex
<1>5. PoolPhases
  BY SMTT(30) DEF PoolInit, PoolPhases, HasIndex
<1>6. NoIndexTwice
  BY DEF PoolInit, NoIndexTwice, HasIndex
<1>7. ChannelFits
  <2>1. {w \in Workers : worker[w] = "returned"} = {} /\ Len(errCh) = 0
    BY DEF PoolInit
  <2> QED
    BY SMTT(30), <2>1, FS_EmptySet DEF ChannelFits
<1> QED
  BY <1>1, <1>3, <1>4, <1>5, <1>6, <1>7 DEF PoolInv

\* An index is handed out.
LEMMA HandOutInv ==
    ASSUME PoolInv, NEW w \in Workers, HandOut(w)
    PROVE  PoolInv'
<1> USE WorkerPoolAssumption
<1>1. PoolTypeOK'
  BY SMTT(30) DEF PoolInv, PoolTypeOK, HandOut
<1>2. Failed' = Failed
  BY DEF HandOut, Failed
<1>3. /\ \A v \in Workers : v # w => worker'[v] = worker[v] /\ item'[v] = item[v]
      /\ worker'[w] = "working" /\ item'[w] = next /\ worker[w] = "waiting"
  BY DEF PoolInv, PoolTypeOK, HandOut
<1>4. ErrorsTravel'
  BY DEF PoolInv, PoolPhases, ErrorsTravel, HandOut
<1>5. next \in Nat /\ next' = next + 1 /\ 0..next' - 1 = 0..next - 1 \cup {next}
  BY SMTT(30) DEF PoolInv, PoolTypeOK, HandOut
<1>6. {item'[v] : v \in {u \in Workers : HasIndex(u)'}}
      = {item[v] : v \in {u \in Workers : HasIndex(u)}} \cup {next}
  BY <1>3 DEF HasIndex
<1>7. IndicesAccounted'
  BY <1>2, <1>5, <1>6 DEF PoolInv, IndicesAccounted, HandOut
<1>8. PoolPhases'
  BY SMTT(30), <1>3, <1>5 DEF PoolInv, PoolTypeOK, PoolPhases, HasIndex, HandOut
<1>9. NoIndexTwice'
  <2>1. next \notin processed \cup Failed
    BY SMTT(30), <1>5 DEF PoolInv, IndicesAccounted
  <2>2. \A v \in Workers : HasIndex(v) => item[v] # next
    BY SMTT(30), <1>5 DEF PoolInv, PoolPhases, PoolTypeOK
  <2>3. \A v \in Workers : v # w => (HasIndex(v)' <=> HasIndex(v))
    BY <1>3 DEF HasIndex
  <2> QED
    BY SMTT(30), <1>2, <1>3, <2>1, <2>2, <2>3 DEF PoolInv, NoIndexTwice, HandOut
<1>10. ChannelFits'
  <2>1. errCh' = errCh /\ Len(errCh) \in Nat
    BY SMTT(30) DEF PoolInv, PoolTypeOK, HandOut
  <2> QED
    BY SMTT(30), <1>3, <2>1, ChannelFrame
<1> QED
  BY <1>1, <1>4, <1>7, <1>8, <1>9, <1>10 DEF PoolInv

\* Run's own steps.
LEMMA MainStepInv ==
    ASSUME PoolInv, MainStep
    PROVE  PoolInv'
<1> USE WorkerPoolAssumption
<1>1. Failed' = Failed /\ UNCHANGED <<next, worker, item, results, processed, failures>>
  BY DEF MainStep, ReceiveError, CloseQueue, Return, Failed
<1>2. IndicesAccounted' /\ NoIndexTwice'
  BY <1>1 DEF PoolInv, IndicesAccounted, NoIndexTwice, HasIndex
<1>3. errCh' \in {errCh, Tail(errCh)} /\ (errCh' = errCh \/ errCh # <<>>)
  BY DEF MainStep, ReceiveError, CloseQueue, Return
<1>4. ChannelFits'
  <2>1. /\ errCh # <<>> => Len(Tail(errCh)) = Len(errCh) - 1 /\ Len(errCh) > 0
        /\ Len(errCh) \in Nat
    BY SMTT(30) DEF PoolInv, PoolTypeOK
  <2>2. Len(errCh') \in Nat /\ Len(errCh') <= Len(errCh)
    BY SMTT(30), <1>3, <2>1
  <2> QED
    BY <1>1, <2>2, ChannelFrame
<1>5. CASE ReceiveError
  <2>1. /\ main = "handing" /\ next < Items /\ errCh # <<>>
        /\ err' = Head(errCh) /\ errCh' = Tail(errCh)
    BY <1>5 DEF ReceiveError
  <2>2. errCh = failures /\ failures \in Seq(Index) /\ errCh \in Seq(Error)
    BY <2>1 DEF PoolInv, PoolTypeOK, ErrorsTravel
  <2>3. err' = failures[1] /\ err' \in Index /\ errCh' \in Seq(Error)
    BY SMTT(30), <2>1, <2>2
  <2>4. err' # Nil /\ err' \in Error
    BY SMTT(30), <2>3 DEF Index, Error
  <2>5. main' = "closed"
    BY <1>5, <2>1, <2>4 DEF ReceiveError
  <2>6. PoolTypeOK'
    BY <1>1, <2>3, <2>4, <2>5 DEF PoolInv, PoolTypeOK
  <2>7. ErrorsTravel'
    BY <1>1, <2>1, <2>2, <2>3, <2>4, <2>5 DEF ErrorsTravel
  <2>8. PoolPhases'
    BY <1>1, <2>5 DEF PoolInv, PoolPhases, HasIndex
  <2> QED
    BY <1>2, <1>4, <2>6, <2>7, <2>8 DEF PoolInv
<1>6. CASE CloseQueue
  <2>1. /\ main = "handing" /\ main' = "closed" /\ next = Items
        /\ UNCHANGED <<errCh, err>>
    BY <1>6 DEF CloseQueue
  <2>2. err = Nil /\ errCh = failures /\ failures \in Seq(Index)
    BY <2>1 DEF PoolInv, PoolTypeOK, PoolPhases, ErrorsTravel
  <2>3. LastIsLast
    <3>1. CASE failures = <<>>
      BY SMTT(30), <2>2, <3>1 DEF LastIsLast
    <3>2. CASE failures # <<>>
      <4>1. Len(failures) \in 1..Len(errCh) /\ \A j : j \notin Len(failures) + 1..Len(errCh)
        BY SMTT(30), <2>2, <3>2
      <4> QED
        BY <2>2, <3>2, <4>1 DEF LastIsLast
    <3> QED
      BY <3>1, <3>2
  <2>4. ErrorsTravel'
    BY <1>1, <2>1, <2>2, <2>3 DEF ErrorsTravel, LastIsLast
  <2>5. PoolTypeOK' /\ PoolPhases'
    BY <1>1, <2>1 DEF PoolInv, PoolTypeOK, PoolPhases, HasIndex
  <2> QED
    BY <1>2, <1>4, <2>4, <2>5 DEF PoolInv
<1>7. CASE Return
  <2>1. /\ main = "closed" /\ main' = "returned" /\ errCh' = errCh
        /\ \A w \in Workers : worker[w] = "returned"
        /\ err # Nil => err' = err
        /\ err = Nil => err' \in Drained(errCh)
    BY <1>7 DEF Return
  <2>2. err' \in Error
    BY <2>1 DEF PoolInv, PoolTypeOK, Drained
  <2>3. PoolTypeOK'
    BY <1>1, <2>1, <2>2 DEF PoolInv, PoolTypeOK
  <2>4. next \in Nat /\ failures \in Seq(Index) /\ Len(errCh) \in Nat
    BY SMTT(30) DEF PoolInv, PoolTypeOK
  <2>5. CASE err # Nil
    <3>1. err' = err /\ next < Items /\ next # Items
      BY SMTT(30), <2>1, <2>4, <2>5 DEF PoolInv, ErrorsTravel
    <3>2. ErrorsTravel'
      BY <1>1, <2>1, <3>1 DEF PoolInv, ErrorsTravel
    <3>3. PoolPhases'
      BY <1>1, <2>1, <2>5, <3>1 DEF PoolInv, PoolPhases, HasIndex
    <3> QED
      BY <1>2, <1>4, <2>3, <3>2, <3>3 DEF PoolInv
  <2>6. CASE err = Nil
    <3>1. next = Items /\ ~(next < Items) /\ LastIsLast
      BY SMTT(30), <2>1, <2>4, <2>6 DEF PoolInv, ErrorsTravel
    <3>2. /\ err' = Nil => failures = <<>>
          /\ err' # Nil => failures # <<>> /\ err' = failures[Len(failures)]
      <4>1. \/ err' = Nil /\ \A k \in 1..Len(errCh) : errCh[k] = Nil
            \/ err' # Nil /\ \E k \in 1..Len(errCh) :
                  errCh[k] = err' /\ \A j \in k + 1..Len(errCh) : errCh[j] = Nil
        BY <2>1, <2>6 DEF Drained
      <4>2. CASE failures = <<>>
        BY <3>1, <4>1, <4>2 DEF LastIsLast
      <4>3. CASE failures # <<>>
        <5>1. failures[Len(failures)] \in Index
          BY SMTT(30), <2>4, <4>3
        <5>2. failures[Len(failures)] # Nil
          BY SMTT(30), <5>1 DEF Index
        <5>3. PICK k \in 1..Len(errCh) : /\ errCh[k] = failures[Len(failures)]
                                         /\ \A j \in k + 1..Len(errCh) : errCh[j] = Nil
          BY <3>1, <4>3 DEF LastIsLast
        <5>4. err' # Nil
          BY <4>1, <5>2, <5>3
        <5>5. PICK l \in 1..Len(errCh) :
                  errCh[l] = err' /\ \A j \in l + 1..Len(errCh) : errCh[j] = Nil
          BY <4>1, <5>4
        <5>6. k = l \/ k \in l + 1..Len(errCh) \/ l \in k + 1..Len(errCh)
          BY SMTT(30), <2>4
        <5> QED
          BY <4>3, <5>2, <5>3, <5>4, <5>5, <5>6
      <4> QED
        BY <4>2, <4>3
    <3>3. ErrorsTravel'
      BY <1>1, <2>1, <3>1 DEF ErrorsTravel
    <3>4. PoolPhases'
      BY <1>1, <2>1, <3>1, <3>2 DEF PoolInv, PoolPhases, HasIndex
    <3> QED
      BY <1>2, <1>4, <2>3, <3>3, <3>4 DEF PoolInv
  <2> QED
    BY <2>5, <2>6
<1> QED
  BY <1>5, <1>6, <1>7 DEF MainStep

\* An index is processed, with or without an error.
LEMMA ProcessInv ==
    ASSUME PoolInv, NEW w \in Workers, Process(w)
    PROVE  PoolInv'
<1> USE WorkerPoolAssumption
<1>1. /\ UNCHANGED <<main, next, item, errCh, err, failures>> /\ Failed' = Failed
      /\ worker[w] = "working" /\ worker'[w] \in {"waiting", "failing"}
      /\ \A v \in Workers : v # w => worker'[v] = worker[v] /\ results'[v] = results[v]
  BY DEF PoolInv, PoolTypeOK, Process, ProcessSucceeds, ProcessFails, Failed
<1>2. item[w] \in Index
  <2>1. item[w] \in 0..next - 1
    BY <1>1 DEF PoolInv, IndicesAccounted, HasIndex
  <2> QED
    BY SMTT(30), <2>1 DEF PoolInv, PoolTypeOK, Index
<1>3. ChannelFits'
  <2>1. errCh' = errCh /\ Len(errCh) \in Nat
    BY SMTT(30), <1>1 DEF PoolInv, PoolTypeOK
  <2> QED
    BY SMTT(30), <1>1, <2>1, ChannelFrame
<1>4. ErrorsTravel'
  BY <1>1 DEF PoolInv, ErrorsTravel, LastIsLast
<1>5. \A v \in Workers : v # w => (HasIndex(v)' <=> HasIndex(v))
  BY <1>1 DEF HasIndex
<1>6. HasIndex(w)
  BY <1>1 DEF HasIndex
<1>7. CASE ProcessSucceeds(w)
  <2>1. /\ processed' = processed \cup {item[w]}
        /\ worker'[w] = "waiting" /\ results'[w] = "ok"
    BY <1>7 DEF PoolInv, PoolTypeOK, ProcessSucceeds
  <2>2. PoolTypeOK'
    BY <1>2, <1>7 DEF PoolInv, PoolTypeOK, ProcessSucceeds
  <2>3. ~HasIndex(w)'
    BY <2>1 DEF HasIndex
  <2>4. {item[v] : v \in {u \in Workers : HasIndex(u)}}
        = {item'[v] : v \in {u \in Workers : HasIndex(u)'}} \cup {item[w]}
    BY <1>1, <1>5, <1>6, <2>3
  <2>5. IndicesAccounted'
    BY <1>1, <2>1, <2>4 DEF PoolInv, IndicesAccounted
  <2>6. PoolPhases'
    <3>1. results[w] # "failed"
      BY <1>1 DEF PoolInv, PoolPhases
    <3> QED
      BY SMTT(30), <1>1, <1>5, <2>1, <2>3, <3>1 DEF PoolInv, PoolPhases
  <2>7. NoIndexTwice'
    BY ZenonT(30), <1>1, <1>5, <1>6, <2>1, <2>3 DEF PoolInv, NoIndexTwice
  <2> QED
    BY <1>3, <1>4, <2>2, <2>5, <2>6, <2>7 DEF PoolInv
<1>8. CASE ProcessFails(w)
  <2>1. worker'[w] = "failing" /\ results'[w] = "failed" /\ processed' = processed
    BY <1>8 DEF PoolInv, PoolTypeOK, ProcessFails
  <2>2. PoolTypeOK'
    BY <1>8 DEF PoolInv, PoolTypeOK, ProcessFails
  <2>3. \A v \in Workers : HasIndex(v)' <=> HasIndex(v)
    BY <1>5, <1>6, <2>1 DEF HasIndex
  <2>4. IndicesAccounted' /\ NoIndexTwice'
    <3>1. {u \in Workers : HasIndex(u)'} = {u \in Workers : HasIndex(u)}
      BY <2>3
    <3>2. IndicesAccounted'
      BY <1>1, <2>1, <3>1 DEF PoolInv, IndicesAccounted
    <3>3. NoIndexTwice'
      BY ZenonT(30), <1>1, <2>1, <2>3 DEF PoolInv, NoIndexTwice
    <3> QED
      BY <3>2, <3>3
  <2>5. PoolPhases'
    BY SMTT(30), <1>1, <2>1, <2>3 DEF PoolInv, PoolPhases
  <2> QED
    BY <1>3, <1>4, <2>2, <2>4, <2>5 DEF PoolInv
<1> QED
  BY <1>7, <1>8 DEF Process

\* A worker sends its error, or nil, and returns.
LEMMA SendInv ==
    ASSUME PoolInv, NEW w \in Workers, SendError(w) \/ SendNil(w)
    PROVE  PoolInv'
<1> USE WorkerPoolAssumption
<1>1. PICK e : /\ Send(w, e)
               /\ \/ worker[w] = "failing" /\ e = item[w]
                  \/ worker[w] = "waiting" /\ e = Nil /\ main = "closed"
  BY DEF SendError, SendNil
<1>2. worker[w] = "failing" => e \in Index /\ e # Nil
  <2>1. worker[w] = "failing" => item[w] \in 0..next - 1
    BY DEF PoolInv, IndicesAccounted, HasIndex
  <2> QED
    BY SMTT(30), <1>1, <2>1 DEF PoolInv, PoolTypeOK, Index
<1>3. /\ e \in Error /\ errCh' = Append(errCh, e)
      /\ failures' = IF e # Nil THEN Append(failures, e) ELSE failures
      /\ errCh \in Seq(Error) /\ failures \in Seq(Index)
  BY <1>1, <1>2 DEF Send, PoolInv, PoolTypeOK, Error
<1>4. /\ Len(errCh') = Len(errCh) + 1 /\ Len(errCh) \in Nat /\ errCh' \in Seq(Error)
      /\ errCh'[Len(errCh')] = e /\ \A k \in 1..Len(errCh) : errCh'[k] = errCh[k]
  BY SMTT(30), <1>3
<1>5. /\ UNCHANGED <<main, next, item, results, err, processed>>
      /\ worker'[w] = "returned" /\ worker[w] # "returned" /\ main # "returned"
      /\ \A v \in Workers : v # w => worker'[v] = worker[v]
      /\ worker' \in [Workers -> {"waiting", "working", "failing", "returned"}]
  BY <1>1 DEF PoolInv, PoolTypeOK, PoolPhases, Send
<1>6. /\ failures' \in Seq(Index)
      /\ worker[w] = "failing" => /\ failures' # <<>> /\ failures'[Len(failures')] = e
                                  /\ Failed' = Failed \cup {e}
                                  /\ failures # <<>> => failures'[1] = failures[1]
      /\ worker[w] = "waiting" => failures' = failures /\ Failed' = Failed
  <2>1. CASE worker[w] = "failing"
    <3>1. failures' = Append(failures, e) /\ e \in Index
      BY <1>2, <1>3, <2>1
    <3>2. /\ failures' \in Seq(Index) /\ failures' # <<>> /\ failures'[Len(failures')] = e
          /\ failures # <<>> => failures'[1] = failures[1]
      BY SMTT(30), <1>3, <3>1
    <3>3. Failed' = Failed \cup {e}
      BY <1>3, <3>1, AppendElements DEF Failed
    <3> QED
      BY <2>1, <3>2, <3>3
  <2>2. CASE worker[w] = "waiting"
    BY <1>1, <1>3, <2>2 DEF Failed
  <2> QED
    BY <1>1, <2>1, <2>2
<1>7. PoolTypeOK'
  BY <1>4, <1>5, <1>6 DEF PoolInv, PoolTypeOK
<1>8. ErrorsTravel'
  <2>1. main = "handing" => errCh' = failures'
    BY <1>1, <1>2, <1>3 DEF PoolInv, ErrorsTravel
  <2>2. ASSUME main = "closed", err = Nil
        PROVE  LastIsLast'
    <3> DEFINE n == Len(errCh')
    <3>1. /\ n \in 1..n /\ \A j : j \notin n + 1..n
          /\ \A k \in 1..n : k \in 1..Len(errCh) \/ k = n
          /\ \A k \in 1..Len(errCh) : k \in 1..n
          /\ \A k \in 1..Len(errCh) : \A j \in k + 1..n : j \in k + 1..Len(errCh) \/ j = n
          /\ \A k \in 1..Len(errCh) : \A j \in k + 1..Len(errCh) : j \in 1..Len(errCh)
      BY SMTT(30), <1>4
    <3>2. errCh'[n] = e
      BY <1>4
    <3> HIDE DEF n
    <3>3. LastIsLast' <=>
            IF failures' = <<>> THEN \A k \in 1..n : errCh'[k] = Nil
            ELSE \E k \in 1..n : /\ errCh'[k] = failures'[Len(failures')]
                                 /\ \A j \in k + 1..n : errCh'[j] = Nil
      BY DEF LastIsLast, n
    <3>4. CASE worker[w] = "failing"
      BY <1>6, <3>1, <3>2, <3>3, <3>4
    <3>5. CASE worker[w] = "waiting"
      <4>1. e = Nil /\ failures' = failures /\ LastIsLast
        BY <1>1, <1>6, <2>2, <3>5 DEF PoolInv, ErrorsTravel
      <4>2. CASE failures = <<>>
        BY <1>4, <3>1, <3>2, <3>3, <4>1, <4>2 DEF LastIsLast
      <4>3. CASE failures # <<>>
        <5>1. PICK k \in 1..Len(errCh) : /\ errCh[k] = failures[Len(failures)]
                                         /\ \A j \in k + 1..Len(errCh) : errCh[j] = Nil
          BY <4>1, <4>3 DEF LastIsLast
        <5>2. \A j \in k + 1..n : errCh'[j] = Nil
          BY <1>4, <3>1, <3>2, <4>1, <5>1
        <5> QED
          BY <1>4, <3>1, <3>3, <4>1, <4>3, <5>1, <5>2
      <4> QED
        BY <4>2, <4>3
    <3> QED
      BY <1>1, <3>4, <3>5
  <2>3. err # Nil /\ next < Items => failures' # <<>> /\ err = failures'[1]
    BY <1>1, <1>6 DEF PoolInv, ErrorsTravel
  <2>4. main = "closed" => IF err = Nil THEN next = Items ELSE next < Items
    BY DEF PoolInv, ErrorsTravel
  <2> QED
    BY <1>5, <2>1, <2>2, <2>3, <2>4 DEF ErrorsTravel
<1>9. /\ \A v \in Workers : v # w => (HasIndex(v)' <=> HasIndex(v))
      /\ ~HasIndex(w)' /\ (HasIndex(w) <=> worker[w] = "failing")
  BY <1>1, <1>5 DEF HasIndex
<1>10. IndicesAccounted' /\ NoIndexTwice'
  <2>1. CASE worker[w] = "failing"
    <3>1. {item[v] : v \in {u \in Workers : HasIndex(u)}}
          = {item'[v] : v \in {u \in Workers : HasIndex(u)'}} \cup {e}
      BY <1>1, <1>5, <1>9, <2>1
    <3>2. Failed' = Failed \cup {e} /\ e = item[w]
      BY <1>1, <1>6, <2>1
    <3>3. IndicesAccounted'
      BY <1>5, <3>1, <3>2 DEF PoolInv, IndicesAccounted
    <3>4. NoIndexTwice'
      BY ZenonT(30), <1>5, <1>9, <2>1, <3>2 DEF PoolInv, NoIndexTwice
    <3> QED
      BY <3>3, <3>4
  <2>2. CASE worker[w] = "waiting"
    <3>1. Failed' = Failed /\ \A v \in Workers : HasIndex(v)' <=> HasIndex(v)
      BY <1>6, <1>9, <2>2
    <3>2. {u \in Workers : HasIndex(u)'} = {u \in Workers : HasIndex(u)}
      BY <3>1
    <3>3. IndicesAccounted'
      BY <1>5, <3>1, <3>2 DEF PoolInv, IndicesAccounted
    <3>4. NoIndexTwice'
      BY ZenonT(30), <1>5, <3>1 DEF PoolInv, NoIndexTwice
    <3> QED
      BY <3>3, <3>4
  <2> QED
    BY <1>1, <2>1, <2>2
<1>11. PoolPhases'
  <2>1. worker[w] = "failing" => results[w] = "failed"
    BY DEF PoolInv, PoolPhases
  <2>2. (\E v \in Workers : results[v] = "failed") <=>
            failures' # <<>> \/ \E v \in Workers : worker'[v] = "failing"
    <3>1. (\E v \in Workers : results[v] = "failed") <=>
              failures # <<>> \/ \E v \in Workers : worker[v] = "failing"
      BY DEF PoolInv, PoolPhases
    <3>2. CASE worker[w] = "failing"
      BY <1>6, <2>1, <3>2
    <3>3. CASE worker[w] = "waiting"
      BY <1>5, <1>6, <3>1, <3>3
    <3> QED
      BY <1>1, <3>2, <3>3
  <2>3. main = "handing" => worker[w] = "failing"
    BY <1>1
  <2> QED
    BY <1>5, <1>9, <2>1, <2>2, <2>3 DEF PoolInv, PoolPhases
<1>12. ChannelFits'
  <2> DEFINE gone == {v \in Workers : worker[v] = "returned"}
  <2>1. IsFiniteSet(gone) /\ Cardinality(gone) \in Nat
    BY GoneIsFinite
  <2>2. w \notin gone
    BY <1>5
  <2>3. {v \in Workers : worker'[v] = "returned"} = gone \cup {w}
    BY <1>5
  <2>4. Len(errCh') = Len(errCh) + 1 /\ Len(errCh) \in Nat
    BY <1>4
  <2>5. Cardinality(gone \cup {w}) = Cardinality(gone) + 1
    BY <2>1, <2>2, FS_AddElement
  <2>6. Len(errCh) <= Cardinality(gone)
    BY DEF PoolInv, ChannelFits
  <2>7. ChannelFits' <=> Len(errCh') <= Cardinality(gone \cup {w})
    BY <2>3 DEF ChannelFits
  <2> HIDE DEF gone
  <2> QED
    BY SMTT(30), <2>1, <2>4, <2>5, <2>6, <2>7
<1> QED
  BY <1>7, <1>8, <1>10, <1>11, <1>12 DEF PoolInv

\* Every step of the pool keeps the invariant (utils.go, WorkerPool.Run).
THEOREM PoolInvariance == PoolSpec => []PoolInv
<1>1. PoolInv /\ [PoolNext]_poolVars => PoolInv'
  <2> SUFFICES ASSUME PoolInv, [PoolNext]_poolVars PROVE PoolInv'
    OBVIOUS
  <2>1. CASE UNCHANGED poolVars
    <3> USE <2>1 DEF poolVars
    <3>1. Failed' = Failed
      BY DEF Failed
    <3>2. PoolTypeOK'
      BY DEF PoolInv, PoolTypeOK
    <3>3. PoolPhases' /\ NoIndexTwice'
      BY <3>1, ZenonT(30) DEF PoolInv, PoolPhases, NoIndexTwice, HasIndex
    <3>4. ErrorsTravel' /\ IndicesAccounted'
      BY <3>1 DEF PoolInv, ErrorsTravel, LastIsLast, IndicesAccounted, HasIndex
    <3>5. ChannelFits'
      BY DEF PoolInv, ChannelFits
    <3> QED
      BY <3>2, <3>3, <3>4, <3>5 DEF PoolInv
  <2>2. CASE MainStep
    BY <2>2, MainStepInv
  <2>3. ASSUME NEW w \in Workers, HandOut(w) \/ WorkerStep(w)
        PROVE  PoolInv'
    <3>1. CASE HandOut(w)
      BY <3>1, HandOutInv
    <3>2. CASE Process(w)
      BY <3>2, ProcessInv
    <3>3. CASE SendError(w) \/ SendNil(w)
      BY <3>3, SendInv
    <3> QED
      BY <2>3, <3>1, <3>2, <3>3 DEF WorkerStep
  <2> QED
    BY <2>1, <2>2, <2>3 DEF PoolNext, Returned
<1> QED
  BY <1>1, PoolInitInv, PTL DEF PoolSpec

\* The locals of Run stay within their types, whatever Process returns.
THEOREM PoolTypeCorrect == PoolSpec => []PoolTypeOK
<1>1. PoolInv => PoolTypeOK
  BY DEF PoolInv
<1> QED
  BY <1>1, PoolInvariance, PTL

\* Run tells the truth about what was processed, for any number of workers and indices.
THEOREM PoolIsHonest == PoolSpec => []ErrorTellsOutcome
<1>1. PoolInv => ErrorTellsOutcome
  <2> USE WorkerPoolAssumption
  <2> SUFFICES ASSUME PoolInv, main = "returned"
               PROVE  IF err = Nil THEN processed = Index /\ failures = <<>>
                      ELSE /\ failures # <<>>
                           /\ err = IF next < Items THEN failures[1] ELSE failures[Len(failures)]
    BY DEF ErrorTellsOutcome
  <2>1. next < Items \/ next = Items
    BY SMTT(30) DEF PoolInv, PoolTypeOK
  <2>2. ASSUME err = Nil
        PROVE  processed = Index /\ failures = <<>>
    <3>1. /\ \A w \in Workers : worker[w] = "returned"
          /\ next = Items /\ failures = <<>>
      BY <2>2 DEF PoolInv, PoolPhases
    <3>2. Failed = {} /\ \A w \in Workers : ~HasIndex(w)
      BY SMTT(30), <3>1 DEF Failed, HasIndex
    <3>3. 0..next - 1 = processed
      BY <3>2 DEF PoolInv, IndicesAccounted
    <3> QED
      BY <3>1, <3>3 DEF Index
  <2>3. ASSUME err # Nil
        PROVE  /\ failures # <<>>
               /\ err = IF next < Items THEN failures[1] ELSE failures[Len(failures)]
    BY <2>1, <2>3 DEF PoolInv, ErrorsTravel, PoolPhases
  <2> QED
    BY <2>2, <2>3
<1> QED
  BY <1>1, PoolInvariance, PTL

\* So does what verifyStore reads off the workers' results.
THEOREM ResultsAreHonest == PoolSpec => []ResultsTellOutcome
<1>1. PoolInv /\ ErrorTellsOutcome => ResultsTellOutcome
  <2> USE WorkerPoolAssumption
  <2> SUFFICES ASSUME PoolInv, ErrorTellsOutcome, main = "returned", Items > 0
               PROVE  CombinedResult = IF processed = Index /\ failures = <<>> THEN "ok" ELSE "failed"
    BY DEF ResultsTellOutcome
  <2>1. CASE err = Nil
    <3>1. processed = Index /\ failures = <<>> /\ 0 \in Index
      BY SMTT(30), <2>1 DEF ErrorTellsOutcome, Index
    <3>2. \E w \in Workers : results[w] # "none"
      BY <3>1 DEF PoolInv, PoolPhases
    <3>3. \A w \in Workers : results[w] # "failed"
      BY <3>1 DEF PoolInv, PoolPhases
    <3>4. \E w \in Workers : results[w] = "ok"
      BY <3>2, <3>3 DEF PoolInv, PoolTypeOK
    <3> QED
      BY <3>1, <3>3, <3>4 DEF CombinedResult
  <2>2. CASE err # Nil
    <3>1. failures # <<>>
      BY <2>2 DEF ErrorTellsOutcome
    <3>2. \E w \in Workers : results[w] = "failed"
      BY <3>1 DEF PoolInv, PoolPhases
    <3> QED
      BY <3>1, <3>2 DEF CombinedResult
  <2> QED
    BY <2>1, <2>2
<1> QED
  BY <1>1, PoolInvariance, PoolIsHonest, PTL

\* No two workers ever have the same index, and none is processed again.
THEOREM NoIndexIsProcessedTwice == PoolSpec => []NoIndexTwice
<1>1. PoolInv => NoIndexTwice
  BY DEF PoolInv
<1> QED
  BY <1>1, PoolInvariance, PTL

\* No goroutine of Run is ever stuck: sends on errCh do not block, and the select
\* of the hand-out does not wait for workers that are all gone.
THEOREM NobodyEverBlocks == PoolSpec => []NobodyBlocks
<1>1. PoolInv => NobodyBlocks
  <2> USE WorkerPoolAssumption
  <2> SUFFICES ASSUME PoolInv PROVE NobodyBlocks
    OBVIOUS
  <2>1. ASSUME NEW w \in Workers, worker[w] # "returned"
        PROVE  Len(errCh) < Capacity
    <3> DEFINE gone == {v \in Workers : worker[v] = "returned"}
    <3>1. /\ IsFiniteSet(Workers \ {w}) /\ Cardinality(Workers) \in Nat
          /\ Cardinality(Workers \ {w}) = Cardinality(Workers) - 1
      BY FS_RemoveElement, FS_CardinalityType
    <3>2. gone \subseteq Workers \ {w}
      BY <2>1
    <3>3. Cardinality(gone) \in Nat /\ Cardinality(gone) <= Cardinality(Workers \ {w})
      BY <3>1, <3>2, FS_Subset, FS_CardinalityType
    <3>4. Len(errCh) <= Cardinality(gone) /\ Len(errCh) \in Nat
      BY SMTT(30) DEF PoolInv, ChannelFits, PoolTypeOK
    <3> QED
      BY SMTT(30), <3>1, <3>3, <3>4 DEF Capacity
  <2>2. ASSUME main = "handing", \A w \in Workers : worker[w] = "returned"
        PROVE  errCh # <<>>
    <3>1. \E w \in Workers : results[w] = "failed"
      BY <2>2 DEF PoolInv, PoolPhases
    <3>2. failures # <<>>
      BY <2>2, <3>1 DEF PoolInv, PoolPhases
    <3> QED
      BY <2>2, <3>2 DEF PoolInv, ErrorsTravel
  <2> QED
    BY <2>1, <2>2 DEF NobodyBlocks
<1> QED
  BY <1>1, PoolInvariance, PTL
----------------------------------------------------------------------------
\* Every step leaves less to do.

\* How many workers are in the state s, with f for the variable worker.
HowMany(f, s) == Cardinality({v \in Workers : f[v] = s})

\* The worker w goes from a to b.
Goes(w, a, b) ==
    /\ PoolTypeOK
    /\ worker[w] = a
    /\ worker' = [worker EXCEPT ![w] = b]

\* The workers in a state can be counted.
LEMMA HowManyType == ASSUME NEW f, NEW s PROVE HowMany(f, s) \in Nat
<1>1. {v \in Workers : f[v] = s} \subseteq Workers /\ IsFiniteSet(Workers)
  BY WorkerPoolAssumption
<1>2. IsFiniteSet({v \in Workers : f[v] = s})
  BY <1>1, FS_Subset
<1> QED
  BY <1>2, FS_CardinalityType DEF HowMany

\* One element more in a finite set.
LEMMA OneMore ==
    ASSUME NEW f, NEW g, NEW w \in Workers, NEW s, f[w] # s, g[w] = s,
           \A v \in Workers \ {w} : g[v] = f[v]
    PROVE  HowMany(g, s) = HowMany(f, s) + 1
<1> DEFINE F == {v \in Workers : f[v] = s}
           G == {v \in Workers : g[v] = s}
<1>1. G = F \cup {w} /\ w \notin F /\ F \subseteq Workers
  OBVIOUS
<1>2. IsFiniteSet(F)
  BY <1>1, FS_Subset, WorkerPoolAssumption
<1> HIDE DEF F, G
<1>3. Cardinality(G) = Cardinality(F) + 1
  BY <1>1, <1>2, FS_AddElement
<1> QED
  BY <1>3 DEF F, G, HowMany

\* A worker that goes from a to b: one less at a, one more at b.
LEMMA WorkerMoves ==
    ASSUME NEW w \in Workers, NEW CONSTANT a, NEW CONSTANT b, a # b, Goes(w, a, b)
    PROVE  /\ HowMany(worker, a) = HowMany(worker', a) + 1
           /\ HowMany(worker', b) = HowMany(worker, b) + 1
           /\ \A c : c # a /\ c # b => HowMany(worker', c) = HowMany(worker, c)
<1>1. worker[w] = a /\ worker'[w] = b /\ \A v \in Workers \ {w} : worker'[v] = worker[v]
  BY DEF Goes, PoolTypeOK
<1>2. ASSUME NEW c, c # a, c # b
      PROVE  HowMany(worker', c) = HowMany(worker, c)
  <2>1. {v \in Workers : worker'[v] = c} = {v \in Workers : worker[v] = c}
    BY <1>1, <1>2
  <2> QED
    BY <2>1 DEF HowMany
<1> DEFINE f == worker
           g == worker'
<1>3. f[w] = a /\ g[w] = b /\ \A v \in Workers \ {w} : g[v] = f[v]
  BY <1>1
<1>4. HowMany(f, a) = HowMany(g, a) + 1
  <2> HIDE DEF f, g
  <2>1. g[w] # a /\ f[w] = a /\ \A v \in Workers \ {w} : f[v] = g[v]
    BY <1>3
  <2> QED
    BY ZenonT(30), <2>1, OneMore
<1>5. HowMany(g, b) = HowMany(f, b) + 1
  <2> HIDE DEF f, g
  <2>1. f[w] # b /\ g[w] = b /\ \A v \in Workers \ {w} : g[v] = f[v]
    BY <1>3
  <2> QED
    BY ZenonT(30), <2>1, OneMore
<1> QED
  BY <1>2, <1>4, <1>5

\* What is left to do, before and after a step.
LEMMA StepsLeftIs ==
    /\ StepsLeft = 2 * (Items - next) + 2 * HowMany(worker, "waiting")
                   + 3 * HowMany(worker, "working") + 2 * HowMany(worker, "failing")
                   + Len(errCh) + MainStepsLeft
    /\ StepsLeft' = 2 * (Items - next') + 2 * HowMany(worker', "waiting")
                    + 3 * HowMany(worker', "working") + 2 * HowMany(worker', "failing")
                    + Len(errCh') + MainStepsLeft'
  BY DEF StepsLeft, Many, HowMany

\* It is made of numbers.
LEMMA StepsLeftType ==
    ASSUME PoolTypeOK
    PROVE  /\ Items \in Nat /\ next \in 0..Items
           /\ Len(errCh) \in Nat /\ MainStepsLeft \in 0..2
           /\ StepsLeft \in Nat
<1>1. Items \in Nat /\ next \in 0..Items /\ Len(errCh) \in Nat
  BY SMTT(30), WorkerPoolAssumption DEF PoolTypeOK
<1>2. MainStepsLeft \in 0..2
  BY SMTT(30) DEF MainStepsLeft
<1> DEFINE d == Items - next
           l == Len(errCh)
           m == MainStepsLeft
           a == HowMany(worker, "waiting")
           b == HowMany(worker, "working")
           c == HowMany(worker, "failing")
<1>3. d \in Nat /\ l \in Nat /\ m \in Nat /\ a \in Nat /\ b \in Nat /\ c \in Nat
  <2>1. d \in Nat /\ m \in Nat
    BY SMTT(30), <1>1, <1>2
  <2> QED
    BY <1>1, <2>1, HowManyType
<1>4. StepsLeft = 2 * d + 2 * a + 3 * b + 2 * c + l + m
  BY StepsLeftIs
<1>5. StepsLeft \in Nat
  <2> HIDE DEF d, l, m, a, b, c
  <2> QED
    BY SMTT(30), <1>3, <1>4
<1> QED
  BY <1>1, <1>2, <1>5

\* A step of Run leaves the workers alone.
LEMMA MainStepCounts ==
    ASSUME PoolTypeOK, MainStep
    PROVE  StepsLeft' < StepsLeft
<1>1. UNCHANGED <<next, worker>>
  BY DEF MainStep, ReceiveError, CloseQueue, Return
<1>2. Len(errCh) \in Nat /\ (errCh # <<>> => Len(Tail(errCh)) = Len(errCh) - 1)
  BY SMTT(30) DEF PoolTypeOK
<1>3. /\ Len(errCh') \in Nat /\ MainStepsLeft \in 0..2 /\ MainStepsLeft' \in 0..2
      /\ Len(errCh') + MainStepsLeft' < Len(errCh) + MainStepsLeft
  BY SMTT(30), <1>2 DEF MainStep, ReceiveError, CloseQueue, Return, MainStepsLeft
<1> DEFINE d == Items - next
           l == Len(errCh)     l2 == Len(errCh')
           m == MainStepsLeft  m2 == MainStepsLeft'
           a == HowMany(worker, "waiting")
           b == HowMany(worker, "working")
           c == HowMany(worker, "failing")
<1>4. /\ StepsLeft = 2 * d + 2 * a + 3 * b + 2 * c + l + m
      /\ StepsLeft' = 2 * d + 2 * a + 3 * b + 2 * c + l2 + m2
  BY <1>1, StepsLeftIs
<1>5. a \in Nat /\ b \in Nat /\ c \in Nat
  BY HowManyType
<1>6. d \in Nat
  <2>1. Items \in Nat /\ next \in 0..Items
    BY StepsLeftType
  <2> QED
    BY SMTT(30), <2>1
<1>7. l \in Nat /\ l2 \in Nat /\ m \in 0..2 /\ m2 \in 0..2 /\ l2 + m2 < l + m
  BY <1>2, <1>3
<1> HIDE DEF d, l, l2, m, m2, a, b, c
<1> QED
  BY SMTT(30), <1>4, <1>5, <1>6, <1>7

\* A worker receives an index, has done with it, or returns.
LEMMA WorkerStepCounts ==
    ASSUME PoolTypeOK, NEW w \in Workers, HandOut(w) \/ WorkerStep(w)
    PROVE  StepsLeft' < StepsLeft
<1> DEFINE i == Items
           n == next           n2 == next'
           l == Len(errCh)     l2 == Len(errCh')
           m == MainStepsLeft  m2 == MainStepsLeft'
           a == HowMany(worker, "waiting")  a2 == HowMany(worker', "waiting")
           b == HowMany(worker, "working")  b2 == HowMany(worker', "working")
           c == HowMany(worker, "failing")  c2 == HowMany(worker', "failing")
<1>1. PoolTypeOK
  OBVIOUS
<1>2. /\ i \in Nat /\ n \in 0..i /\ l \in Nat /\ m \in 0..2
      /\ a \in Nat /\ b \in Nat /\ c \in Nat /\ a2 \in Nat /\ b2 \in Nat /\ c2 \in Nat
  BY HowManyType, StepsLeftType
<1>3. /\ StepsLeft = 2 * (i - n) + 2 * a + 3 * b + 2 * c + l + m
      /\ StepsLeft' = 2 * (i - n2) + 2 * a2 + 3 * b2 + 2 * c2 + l2 + m2
  BY StepsLeftIs
<1>4. CASE HandOut(w)
  <2>1. /\ Goes(w, "waiting", "working")
        /\ next' = next + 1 /\ UNCHANGED <<main, errCh>>
    BY <1>1, <1>4 DEF HandOut, Goes
  <2>2. a = a2 + 1 /\ b2 = b + 1 /\ c2 = c
    BY SMTT(30), <2>1, WorkerMoves
  <2>3. n2 = n + 1 /\ l2 = l /\ m2 = m
    BY <2>1 DEF MainStepsLeft
  <2> HIDE DEF i, n, n2, l, l2, m, m2, a, a2, b, b2, c, c2
  <2> QED
    BY SMTT(30), <1>2, <1>3, <2>2, <2>3
<1>5. CASE ProcessSucceeds(w)
  <2>1. /\ Goes(w, "working", "waiting")
        /\ UNCHANGED <<next, main, errCh>>
    BY <1>1, <1>5 DEF ProcessSucceeds, Goes
  <2>2. b = b2 + 1 /\ a2 = a + 1 /\ c2 = c
    BY SMTT(30), <2>1, WorkerMoves
  <2>3. n2 = n /\ l2 = l /\ m2 = m
    BY <2>1 DEF MainStepsLeft
  <2> HIDE DEF i, n, n2, l, l2, m, m2, a, a2, b, b2, c, c2
  <2> QED
    BY SMTT(30), <1>2, <1>3, <2>2, <2>3
<1>6. CASE ProcessFails(w)
  <2>1. /\ Goes(w, "working", "failing")
        /\ UNCHANGED <<next, main, errCh>>
    BY <1>1, <1>6 DEF ProcessFails, Goes
  <2>2. b = b2 + 1 /\ c2 = c + 1 /\ a2 = a
    BY SMTT(30), <2>1, WorkerMoves
  <2>3. n2 = n /\ l2 = l /\ m2 = m
    BY <2>1 DEF MainStepsLeft
  <2> HIDE DEF i, n, n2, l, l2, m, m2, a, a2, b, b2, c, c2
  <2> QED
    BY SMTT(30), <1>2, <1>3, <2>2, <2>3
<1>7. CASE SendError(w) \/ SendNil(w)
  <2>1. /\ Goes(w, "failing", "returned") \/ Goes(w, "waiting", "returned")
        /\ errCh' = Append(errCh, item[w]) \/ errCh' = Append(errCh, Nil)
        /\ UNCHANGED <<next, main>>
    BY <1>1, <1>7 DEF SendError, SendNil, Send, Goes
  <2>2. l2 = l + 1
    BY SMTT(30), <1>1, <2>1 DEF PoolTypeOK
  <2>3. n2 = n /\ m2 = m
    BY <2>1 DEF MainStepsLeft
  <2>4. CASE Goes(w, "failing", "returned")
    <3>1. c = c2 + 1 /\ a2 = a /\ b2 = b
      BY SMTT(30), <2>4, WorkerMoves
    <3> HIDE DEF i, n, n2, l, l2, m, m2, a, a2, b, b2, c, c2
    <3> QED
      BY SMTT(30), <1>2, <1>3, <2>2, <2>3, <3>1
  <2>5. CASE Goes(w, "waiting", "returned")
    <3>1. a = a2 + 1 /\ c2 = c /\ b2 = b
      BY SMTT(30), <2>5, WorkerMoves
    <3> HIDE DEF i, n, n2, l, l2, m, m2, a, a2, b, b2, c, c2
    <3> QED
      BY SMTT(30), <1>2, <1>3, <2>2, <2>3, <3>1
  <2> QED
    BY <2>1, <2>4, <2>5
<1> QED
  BY <1>4, <1>5, <1>6, <1>7 DEF WorkerStep, Process

\* For any number of workers and indices, each step of Run and its goroutines leaves
\* less to do: with NobodyEverBlocks, Run cannot but come to its end.
THEOREM EveryStepAlwaysCounts == PoolSpec => EveryStepCounts
<1>1. PoolTypeOK => StepsLeft \in Nat
  BY StepsLeftType
<1>2. (PoolTypeOK => StepsLeft \in Nat)'
  BY <1>1, PTL
<1>3. PoolTypeOK /\ PoolTypeOK' /\ [PoolNext]_poolVars
      => [StepsLeft' \in 0..StepsLeft - 1]_poolVars
  <2> SUFFICES ASSUME PoolTypeOK, PoolTypeOK', PoolNext, poolVars' # poolVars
               PROVE  StepsLeft' \in 0..StepsLeft - 1
    OBVIOUS
  <2>1. StepsLeft' < StepsLeft
    BY MainStepCounts, WorkerStepCounts DEF PoolNext, Returned
  <2>2. StepsLeft \in Nat /\ StepsLeft' \in Nat
    BY <1>1, <1>2
  <2> QED
    BY SMTT(30), <2>1, <2>2
<1> QED
  BY <1>3, PoolTypeCorrect, PTL DEF PoolSpec, EveryStepCounts
=============================================================================
