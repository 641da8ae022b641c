--------------------------- MODULE AsyncConnProofs ---------------------------
(***************************************************************************)
(* Proofs about workerQueue, and about a connection together with its      *)
(* writeQueue, for every set of jobs and every maxConcurrency >= 1.        *)
(*                                                                         *)
(* The conjuncts of IndInv support each other: the counter is exact only   *)
(* if a job taken is not already held, which needs TakenJobsAccounted and  *)
(* QueueIsSuffix.  The steps of the composition are steps of the queue or  *)
(* leave the queue alone, so what is proved of the queue holds there; the  *)
(* order of the frames on the wire needs AsyncInv, which relates the place *)
(* of the Worker in the library to the jobs.                               *)
(***************************************************************************)
EXTENDS AsyncConn, FiniteSetTheorems, TLAPS

IndInv ==
    /\ TypeOK
    /\ CounterExact
    /\ NoStrandedJob
    /\ QueueIsSuffix
    /\ TakenJobsAccounted

(* The three outcomes of a step of getJob on a queue of jobs. *)
LEMMA GetJobCases ==
    ASSUME NEW jobs \in Seq(Jobs), NEW delta \in Int, getJob(jobs, delta)
    PROVE  \/ /\ ~(curConcurrency + delta < maxConcurrency /\ jobs # <<>>)
              /\ q' = jobs
              /\ curConcurrency' = curConcurrency + delta
              /\ launched' = launched
           \/ /\ curConcurrency + delta < maxConcurrency
              /\ jobs # <<>>
              /\ q' = Tail(jobs)
              /\ curConcurrency' = curConcurrency + delta + 1
              /\ launched' = launched \cup {jobs[1]}
BY DEF getJob, HasSlot, PopFront

LEMMA InitInv == Init => IndInv
<1> SUFFICES ASSUME Init PROVE IndInv
  OBVIOUS
<1>1. TypeOK
  BY MaxConcurrencyAssumption DEF Init, TypeOK
<1>2. CounterExact
  BY FS_EmptySet DEF Init, CounterExact, Live
<1>3. NoStrandedJob /\ QueueIsSuffix /\ TakenJobsAccounted
  BY DEF Init, NoStrandedJob, QueueIsSuffix, TakenJobsAccounted, Taken, Live
<1> QED
  BY <1>1, <1>2, <1>3 DEF IndInv

LEMMA PushStep ==
    ASSUME IndInv, NEW j \in Jobs, Push(j)
    PROVE  IndInv'
<1> USE MaxConcurrencyAssumption
<1> DEFINE s == Append(q, j)
<1>1. /\ q \in Seq(Jobs) /\ pushed \in Seq(Jobs) /\ s \in Seq(Jobs)
      /\ s # <<>> /\ Len(s) = Len(q) + 1
      /\ curConcurrency \in 0..maxConcurrency
  BY DEF IndInv, TypeOK
<1>2. /\ pushed' = Append(pushed, j) /\ running' = running
      /\ finished' = finished /\ executed' = executed
  BY DEF Push
<1>3. \A i \in 1..Len(pushed) : pushed[i] # j
  BY <1>1 DEF Push, Range
<1>4. getJob(s, 0)
  BY DEF Push
<1>5. CASE /\ ~(curConcurrency + 0 < maxConcurrency /\ s # <<>>)
           /\ q' = s /\ curConcurrency' = curConcurrency + 0
           /\ launched' = launched
  <2>1. TypeOK' /\ NoStrandedJob'
    BY <1>1, <1>2, <1>5 DEF IndInv, TypeOK, NoStrandedJob
  <2>2. Live' = Live /\ Taken' = Taken /\ Taken \in Nat /\ Taken <= Len(pushed)
    BY <1>1, <1>2, <1>5 DEF IndInv, Live, Taken, QueueIsSuffix
  <2>3. CounterExact'
    BY <1>1, <1>2, <1>5, <2>2 DEF IndInv, CounterExact
  <2>4. QueueIsSuffix'
    <3>1. Len(pushed) = Taken + Len(q) /\ Len(pushed) \in Nat /\ Len(q) \in Nat
      BY <1>1, <2>2 DEF Taken
    <3>2. \A i \in 1..Len(q) : s[i] = q[i] /\ q[i] = pushed[Taken + i]
      BY <1>1 DEF IndInv, QueueIsSuffix
    <3>3. \A i \in 1..Len(pushed) : pushed'[i] = pushed[i]
      BY <1>1, <1>2
    <3>4. s[Len(q) + 1] = j /\ pushed'[Len(pushed) + 1] = j
      BY <1>1, <1>2
    <3>5. \A i \in 1..Len(s) : s[i] = pushed'[Taken + i]
      <4> SUFFICES ASSUME NEW i \in 1..Len(s) PROVE s[i] = pushed'[Taken + i]
        OBVIOUS
      <4>1. CASE i \in 1..Len(q)
        BY <2>2, <3>1, <3>2, <3>3, <4>1
      <4>2. CASE i = Len(q) + 1
        BY <2>2, <3>1, <3>4, <4>2
      <4> QED
        BY <1>1, <3>1, <4>1, <4>2
    <3> QED
      BY <1>5, <2>2, <3>5 DEF QueueIsSuffix
  <2>5. TakenJobsAccounted'
    BY <1>1, <1>2, <1>3, <1>5, <2>2 DEF IndInv, TakenJobsAccounted
  <2> QED
    BY <2>1, <2>3, <2>4, <2>5 DEF IndInv
<1>6. CASE /\ curConcurrency + 0 < maxConcurrency /\ s # <<>>
           /\ q' = Tail(s) /\ curConcurrency' = curConcurrency + 0 + 1
           /\ launched' = launched \cup {s[1]}
  <2>1. q = <<>>
    BY <1>1, <1>6 DEF IndInv, NoStrandedJob
  <2>2. /\ q' = <<>> /\ launched' = launched \cup {j}
        /\ curConcurrency' = curConcurrency + 1
    BY <1>1, <1>6, <2>1
  <2>3. Taken = Len(pushed) /\ Taken' = Len(pushed) + 1 /\ Len(pushed) \in Nat
    BY <1>1, <1>2, <2>1, <2>2 DEF Taken
  <2>4. j \notin Live /\ j \notin finished
    BY <1>3, <2>3 DEF IndInv, TakenJobsAccounted
  <2>5. Live' = Live \cup {j}
    BY <1>2, <2>2 DEF Live
  <2>6. CounterExact'
    <3>1. IsFiniteSet(Live) /\ curConcurrency = Cardinality(Live)
      BY DEF IndInv, CounterExact
    <3>2. IsFiniteSet(Live') /\ Cardinality(Live') = Cardinality(Live) + 1
      BY <3>1, <2>4, <2>5, FS_AddElement
    <3>3. launched' \cap running' = {}
      BY <1>2, <2>2, <2>4 DEF IndInv, CounterExact, Live
    <3> QED
      BY <3>1, <3>2, <3>3, <2>2 DEF CounterExact
  <2>7. TypeOK' /\ NoStrandedJob'
    BY <1>1, <1>2, <1>6, <2>2 DEF IndInv, TypeOK, NoStrandedJob
  <2>8. QueueIsSuffix'
    BY <1>1, <1>2, <2>2, <2>3 DEF QueueIsSuffix
  <2>9. TakenJobsAccounted'
    <3>1. TakenJobsAccounted /\ finished' = finished
      BY <1>2 DEF IndInv
    <3>2. /\ \A i \in 1..Len(pushed) : pushed'[i] = pushed[i]
          /\ pushed'[Len(pushed) + 1] = j /\ Len(pushed') = Len(pushed) + 1
      BY <1>1, <1>2, <2>3 DEF IndInv, TypeOK
    <3>3. \A i \in 1..Len(pushed) : pushed[i] # j
      BY <2>3, <2>4, <3>1 DEF TakenJobsAccounted
    <3>4. \A x \in Live' \cup finished' : \E i \in 1..Taken' : pushed'[i] = x
      BY <2>3, <2>5, <3>1, <3>2 DEF TakenJobsAccounted
    <3>5. \A i \in 1..Taken' : pushed'[i] \in Live' \cup finished'
      BY <2>3, <2>5, <3>1, <3>2 DEF TakenJobsAccounted
    <3>6. \A i, k \in 1..Len(pushed') : pushed'[i] = pushed'[k] => i = k
      BY <2>3, <3>1, <3>2, <3>3 DEF TakenJobsAccounted
    <3>7. finished' \cap Live' = {}
      BY <2>4, <2>5, <3>1 DEF TakenJobsAccounted
    <3> QED BY <3>4, <3>5, <3>6, <3>7 DEF TakenJobsAccounted
  <2> QED
    BY <2>6, <2>7, <2>8, <2>9 DEF IndInv
<1>7. 0 \in Int
  OBVIOUS
<1> QED
  BY <1>1, <1>4, <1>5, <1>6, <1>7, GetJobCases, Zenon

LEMMA RunJobStep ==
    ASSUME IndInv, NEW j \in Jobs, RunJob(j)
    PROVE  IndInv'
<1>1. /\ q' = q /\ pushed' = pushed /\ finished' = finished
      /\ curConcurrency' = curConcurrency /\ executed' = Append(executed, j)
      /\ launched' = launched \ {j} /\ running' = running \cup {j} /\ j \in launched
  BY DEF RunJob
<1>2. Live' = Live /\ Taken' = Taken
  BY <1>1 DEF Live, Taken
<1>3. TypeOK'
  BY <1>1 DEF IndInv, TypeOK
<1>4. CounterExact'
  BY <1>1, <1>2 DEF IndInv, CounterExact
<1>5. NoStrandedJob' /\ QueueIsSuffix' /\ TakenJobsAccounted'
  BY <1>1, <1>2 DEF IndInv, NoStrandedJob, QueueIsSuffix, TakenJobsAccounted
<1> QED
  BY <1>3, <1>4, <1>5 DEF IndInv

LEMMA NextJobStep ==
    ASSUME IndInv, NEW j \in Jobs, NextJob(j)
    PROVE  IndInv'
<1> USE MaxConcurrencyAssumption
<1>1. /\ q \in Seq(Jobs) /\ pushed \in Seq(Jobs)
      /\ curConcurrency \in 0..maxConcurrency
      /\ Taken \in Nat /\ Taken = Len(pushed) - Len(q)
  BY DEF IndInv, TypeOK, QueueIsSuffix, Taken
<1>2. /\ pushed' = pushed /\ executed' = executed /\ j \in running
      /\ running' = running \ {j} /\ finished' = finished \cup {j}
  BY DEF NextJob
<1>3. getJob(q, -1)
  BY DEF NextJob
<1>4. IsFiniteSet(Live) /\ curConcurrency = Cardinality(Live) /\ launched \cap running = {}
  BY DEF IndInv, CounterExact
<1>5. /\ IsFiniteSet(Live \ {j}) /\ Cardinality(Live \ {j}) = curConcurrency - 1
      /\ curConcurrency - 1 \in 0..maxConcurrency
  <2>1. j \in Live
    BY <1>2 DEF Live
  <2>2. IsFiniteSet(Live \ {j}) /\ Cardinality(Live \ {j}) = Cardinality(Live) - 1
    BY <1>4, <2>1, FS_RemoveElement
  <2>3. Cardinality(Live \ {j}) \in Nat
    BY <2>2, FS_CardinalityType
  <2> QED
    BY <1>1, <1>4, <2>2, <2>3
<1>6. CASE /\ ~(curConcurrency + (-1) < maxConcurrency /\ q # <<>>)
           /\ q' = q /\ curConcurrency' = curConcurrency + (-1)
           /\ launched' = launched
  <2>1. q = <<>> /\ curConcurrency' = curConcurrency - 1
    BY <1>1, <1>6
  <2>2. Live' = Live \ {j} /\ Taken' = Taken
    BY <1>2, <1>4, <1>6 DEF Live, Taken
  <2>3. TypeOK' /\ NoStrandedJob'
    BY <1>2, <1>5, <1>6, <2>1 DEF IndInv, TypeOK, NoStrandedJob
  <2>4. CounterExact'
    BY <1>2, <1>4, <1>5, <1>6, <2>1, <2>2 DEF CounterExact
  <2>5. QueueIsSuffix'
    BY <1>2, <1>6, <2>2 DEF IndInv, QueueIsSuffix
  <2>6. TakenJobsAccounted'
    BY <1>2, <2>2 DEF IndInv, TakenJobsAccounted, Live
  <2> QED
    BY <2>3, <2>4, <2>5, <2>6 DEF IndInv
<1>7. CASE /\ curConcurrency + (-1) < maxConcurrency /\ q # <<>>
           /\ q' = Tail(q) /\ curConcurrency' = curConcurrency + (-1) + 1
           /\ launched' = launched \cup {q[1]}
  <2> DEFINE h == q[1]
  <2>1. /\ Len(q) \in Nat \ {0} /\ Len(pushed) \in Nat /\ q' \in Seq(Jobs)
        /\ Len(q') = Len(q) - 1 /\ \A i \in 1..Len(q') : q'[i] = q[i + 1]
        /\ h \in Jobs /\ curConcurrency' = curConcurrency
    BY <1>1, <1>7
  <2>2. Taken' = Taken + 1 /\ Taken + 1 \in 1..Len(pushed)
    BY <1>1, <1>2, <2>1 DEF Taken
  <2>3. h = pushed[Taken + 1]
    BY <1>1, <2>1 DEF IndInv, QueueIsSuffix
  <2>4. h \notin Live \cup finished
    <3> SUFFICES ASSUME h \in Live \cup finished PROVE FALSE
      OBVIOUS
    <3>1. PICK i \in 1..Taken : pushed[i] = h
      BY DEF IndInv, TakenJobsAccounted
    <3>2. i \in 1..Len(pushed) /\ i # Taken + 1
      BY <1>1, <2>1, <2>2, <3>1
    <3> QED
      BY <2>2, <2>3, <3>1, <3>2 DEF IndInv, TakenJobsAccounted
  <2>5. h # j /\ Live' = (Live \ {j}) \cup {h}
    BY <1>2, <1>4, <1>7, <2>4 DEF Live
  <2>6. TypeOK'
    BY <1>1, <1>2, <1>7, <2>1 DEF IndInv, TypeOK
  <2>7. NoStrandedJob'
    BY <1>7, <2>1 DEF IndInv, NoStrandedJob
  <2>8. CounterExact'
    <3>1. IsFiniteSet(Live') /\ Cardinality(Live') = Cardinality(Live \ {j}) + 1
      BY <1>5, <2>4, <2>5, FS_AddElement
    <3>2. launched' \cap running' = {}
      BY <1>2, <1>4, <1>7, <2>4 DEF Live
    <3> QED
      BY <1>1, <1>5, <2>1, <3>1, <3>2 DEF CounterExact
  <2>9. QueueIsSuffix'
    <3>1. \A i \in 1..Len(q') : q'[i] = pushed[Taken + 1 + i]
      <4> SUFFICES ASSUME NEW i \in 1..Len(q') PROVE q'[i] = pushed[Taken + 1 + i]
        OBVIOUS
      <4>1. i + 1 \in 1..Len(q) /\ q'[i] = q[i + 1]
        BY <2>1
      <4>2. q[i + 1] = pushed[Taken + (i + 1)]
        BY <4>1 DEF IndInv, QueueIsSuffix
      <4> QED
        BY <1>1, <4>1, <4>2
    <3> QED
      BY <1>1, <1>2, <2>2, <3>1 DEF QueueIsSuffix
  <2>10. TakenJobsAccounted'
    <3>1. \A k \in Live' \cup finished' : \E i \in 1..Taken' : pushed'[i] = k
      <4> SUFFICES ASSUME NEW k \in Live' \cup finished'
                   PROVE  \E i \in 1..(Taken + 1) : pushed[i] = k
        BY <1>2, <2>2
      <4>1. CASE k = h
        BY <1>1, <2>2, <2>3, <4>1
      <4>2. CASE k # h
        <5>1. k \in Live \cup finished
          BY <1>2, <2>5, <4>2 DEF Live
        <5>2. PICK i \in 1..Taken : pushed[i] = k
          BY <5>1 DEF IndInv, TakenJobsAccounted
        <5> QED
          BY <1>1, <5>2
      <4> QED
        BY <4>1, <4>2
    <3>2. \A i \in 1..Taken' : pushed'[i] \in Live' \cup finished'
      BY <1>1, <1>2, <2>2, <2>3, <2>5 DEF IndInv, TakenJobsAccounted, Live
    <3>3. finished' \cap Live' = {}
      BY <1>2, <2>4, <2>5 DEF IndInv, TakenJobsAccounted
    <3> QED
      BY <1>2, <3>1, <3>2, <3>3 DEF IndInv, TakenJobsAccounted
  <2> QED
    BY <2>6, <2>7, <2>8, <2>9, <2>10 DEF IndInv
<1> QED
  BY <1>1, <1>3, <1>6, <1>7, GetJobCases

LEMMA Inductive == IndInv /\ [Next]_vars => IndInv'
<1> SUFFICES ASSUME IndInv, [Next]_vars PROVE IndInv'
  OBVIOUS
<1>1. CASE UNCHANGED vars
  BY <1>1 DEF vars, IndInv, TypeOK, CounterExact, NoStrandedJob, QueueIsSuffix,
              TakenJobsAccounted, Taken, Live
<1>2. CASE Next
  BY <1>2, PushStep, RunJobStep, NextJobStep DEF Next
<1> QED
  BY <1>1, <1>2

(* In every reachable state IndInv holds. *)
THEOREM Invariance == Spec => []IndInv
BY InitInv, Inductive, PTL DEF Spec

(* task.go, getJob: the queue never holds a job while a slot is free, for  *)
(* every maxConcurrency.                                                   *)
THEOREM NoStrandedJobTheorem == Spec => []NoStrandedJob
<1>1. IndInv => NoStrandedJob
  BY DEF IndInv
<1> QED
  BY <1>1, Invariance, PTL

(* task.go, getJob: the counter that decides whether a job may start is    *)
(* the number of goroutines that run do, for every maxConcurrency.         *)
THEOREM CounterExactTheorem == Spec => []CounterExact
<1>1. IndInv => CounterExact
  BY DEF IndInv
<1> QED
  BY <1>1, Invariance, PTL

(* task.go: no job is lost, duplicated or taken out of order. *)
THEOREM NoJobLost == Spec => [](QueueIsSuffix /\ TakenJobsAccounted)
<1>1. IndInv => QueueIsSuffix /\ TakenJobsAccounted
  BY DEF IndInv
<1> QED
  BY <1>1, Invariance, PTL

-----------------------------------------------------------------------------
(***************************************************************************)
(* Order of execution at concurrency 1.  Taking a job and entering its     *)
(* body are two steps, so the invariant says where the job in between is.  *)
(***************************************************************************)
FIFOInv ==
    maxConcurrency = 1 =>
        /\ \A j, k \in Live : j = k
        /\ \A i \in 1..Len(executed) : executed[i] = pushed[i]
        /\ launched = {} => Len(executed) = Taken
        /\ \A j \in launched : Len(executed) + 1 = Taken /\ pushed[Taken] = j

LEMMA FIFOImplied == IndInv /\ FIFOInv => FIFO
<1> SUFFICES ASSUME IndInv, FIFOInv, maxConcurrency = 1
             PROVE  /\ Len(executed) <= Len(pushed)
                    /\ \A i \in 1..Len(executed) : executed[i] = pushed[i]
                    /\ \A j, k \in running : j = k
  BY DEF FIFO
<1>1. Len(pushed) \in Nat /\ Len(q) \in Nat /\ Len(executed) \in Nat
  BY DEF IndInv, TypeOK
<1>2. Taken \in Nat /\ Taken <= Len(pushed)
  BY <1>1 DEF IndInv, QueueIsSuffix, Taken
<1>3. Len(executed) <= Taken
  <2>1. CASE launched = {}
    BY <1>1, <1>2, <2>1 DEF FIFOInv
  <2>2. CASE launched # {}
    BY <1>1, <1>2, <2>2 DEF FIFOInv
  <2> QED
    BY <2>1, <2>2
<1> QED
  BY <1>1, <1>2, <1>3 DEF FIFOInv, Live

LEMMA FIFOPush ==
    ASSUME IndInv, FIFOInv, NEW j \in Jobs, Push(j)
    PROVE  FIFOInv'
<1> SUFFICES ASSUME maxConcurrency = 1
             PROVE  /\ \A k, l \in Live' : k = l
                    /\ \A i \in 1..Len(executed') : executed'[i] = pushed'[i]
                    /\ launched' = {} => Len(executed') = Taken'
                    /\ \A k \in launched' : Len(executed') + 1 = Taken' /\ pushed'[Taken'] = k
  BY DEF FIFOInv
<1>1. /\ pushed' = Append(pushed, j) /\ running' = running /\ executed' = executed
      /\ getJob(Append(q, j), 0)
  BY DEF Push
<1>2. /\ q \in Seq(Jobs) /\ pushed \in Seq(Jobs) /\ Append(q, j) \in Seq(Jobs)
      /\ executed \in Seq(Jobs) /\ curConcurrency \in 0..1
      /\ Append(q, j) # <<>> /\ Len(Append(q, j)) = Len(q) + 1
      /\ Append(pushed, j) \in Seq(Jobs) /\ Len(Append(pushed, j)) = Len(pushed) + 1
      /\ \A i \in 1..Len(pushed) : Append(pushed, j)[i] = pushed[i]
      /\ Append(pushed, j)[Len(pushed) + 1] = j
  BY DEF IndInv, TypeOK
<1>3. FIFO
  BY FIFOImplied
<1>4. \A i \in 1..Len(executed') : executed'[i] = pushed'[i]
  BY <1>1, <1>2, <1>3 DEF FIFO
<1>5. Taken \in Nat /\ Taken = Len(pushed) - Len(q) /\ Len(q) \in Nat /\ Len(pushed) \in Nat
  BY <1>2 DEF IndInv, QueueIsSuffix, Taken
<1>6. CASE q' = Append(q, j) /\ launched' = launched
  <2>1. Live' = Live /\ Taken' = Taken
    BY <1>1, <1>2, <1>5, <1>6 DEF Live, Taken
  <2>2. \A k \in launched : Taken \in 1..Len(pushed)
    BY <1>2, <1>5 DEF FIFOInv
  <2> QED
    BY <1>1, <1>2, <1>4, <1>6, <2>1, <2>2 DEF FIFOInv
<1>7. CASE /\ curConcurrency < 1 /\ q' = Tail(Append(q, j))
           /\ launched' = launched \cup {Append(q, j)[1]}
  <2>1. q = <<>>
    BY <1>2, <1>7 DEF IndInv, NoStrandedJob
  <2>2. q' = <<>> /\ launched' = launched \cup {j}
    BY <1>2, <1>7, <2>1
  <2>3. Live = {}
    <3>1. Cardinality(Live) = 0 /\ IsFiniteSet(Live)
      BY <1>2, <1>7 DEF IndInv, CounterExact
    <3> QED
      BY <3>1, FS_EmptySet
  <2>4. launched = {} /\ launched' = {j} /\ Live' = {j}
    BY <1>1, <2>2, <2>3 DEF Live
  <2>5. Taken = Len(pushed) /\ Taken' = Len(pushed) + 1 /\ Len(executed) = Taken
    BY <1>1, <1>2, <2>1, <2>2, <2>4 DEF FIFOInv, Taken
  <2> QED
    BY <1>1, <1>2, <1>4, <2>4, <2>5
<1>8. 0 \in Int /\ curConcurrency + 0 = curConcurrency
  BY <1>2
<1> QED
  BY <1>1, <1>2, <1>6, <1>7, <1>8, GetJobCases, Zenon

LEMMA FIFORun ==
    ASSUME IndInv, FIFOInv, NEW j \in Jobs, RunJob(j)
    PROVE  FIFOInv'
<1> SUFFICES ASSUME maxConcurrency = 1
             PROVE  /\ \A k, l \in Live' : k = l
                    /\ \A i \in 1..Len(executed') : executed'[i] = pushed'[i]
                    /\ launched' = {} => Len(executed') = Taken'
                    /\ \A k \in launched' : Len(executed') + 1 = Taken' /\ pushed'[Taken'] = k
  BY DEF FIFOInv
<1>1. /\ q' = q /\ pushed' = pushed /\ executed' = Append(executed, j)
      /\ launched' = launched \ {j} /\ running' = running \cup {j} /\ j \in launched
  BY DEF RunJob
<1>2. /\ executed \in Seq(Jobs) /\ Len(executed) \in Nat
      /\ Len(executed') = Len(executed) + 1 /\ executed'[Len(executed) + 1] = j
      /\ \A i \in 1..Len(executed) : executed'[i] = executed[i]
  BY <1>1 DEF IndInv, TypeOK
<1>3. Live' = Live /\ Taken' = Taken
  BY <1>1 DEF Live, Taken
<1>4. launched' = {}
  BY <1>1 DEF FIFOInv, Live
<1>5. Len(executed) + 1 = Taken /\ pushed[Taken] = j
  BY <1>1 DEF FIFOInv
<1>6. \A i \in 1..Len(executed') : executed'[i] = pushed[i]
  <2> SUFFICES ASSUME NEW i \in 1..Len(executed') PROVE executed'[i] = pushed[i]
    OBVIOUS
  <2>1. CASE i \in 1..Len(executed)
    BY <1>2, <2>1 DEF FIFOInv
  <2>2. CASE i = Len(executed) + 1
    BY <1>2, <1>5, <2>2
  <2> QED
    BY <1>2, <2>1, <2>2
<1> QED
  BY <1>1, <1>2, <1>3, <1>4, <1>5, <1>6 DEF FIFOInv

LEMMA FIFONext ==
    ASSUME IndInv, FIFOInv, NEW j \in Jobs, NextJob(j)
    PROVE  FIFOInv'
<1> SUFFICES ASSUME maxConcurrency = 1
             PROVE  /\ \A k, l \in Live' : k = l
                    /\ \A i \in 1..Len(executed') : executed'[i] = pushed'[i]
                    /\ launched' = {} => Len(executed') = Taken'
                    /\ \A k \in launched' : Len(executed') + 1 = Taken' /\ pushed'[Taken'] = k
  BY DEF FIFOInv
<1>1. /\ pushed' = pushed /\ executed' = executed /\ j \in running
      /\ running' = running \ {j} /\ getJob(q, -1)
  BY DEF NextJob
<1>2. q \in Seq(Jobs) /\ pushed \in Seq(Jobs) /\ executed \in Seq(Jobs)
  BY DEF IndInv, TypeOK
<1>3. launched = {} /\ running = {j} /\ running' = {}
  BY <1>1 DEF IndInv, CounterExact, FIFOInv, Live
<1>4. Len(executed) = Taken /\ Taken \in Nat
  BY <1>3 DEF FIFOInv, IndInv, QueueIsSuffix
<1>5. \A i \in 1..Len(executed') : executed'[i] = pushed'[i]
  BY <1>1 DEF FIFOInv
<1>6. CASE q' = q /\ launched' = launched
  BY <1>1, <1>3, <1>4, <1>5, <1>6 DEF Live, Taken
<1>7. CASE q # <<>> /\ q' = Tail(q) /\ launched' = launched \cup {q[1]}
  <2>1. /\ Len(q) \in Nat \ {0} /\ Len(q') = Len(q) - 1 /\ Len(pushed) \in Nat
        /\ 1 \in 1..Len(q)
    BY <1>2, <1>7
  <2>2. Taken' = Taken + 1
    BY <1>1, <2>1 DEF Taken
  <2>3. q[1] = pushed[Taken + 1]
    BY <2>1 DEF IndInv, QueueIsSuffix
  <2>4. launched' = {q[1]} /\ Live' = {q[1]}
    BY <1>3, <1>7 DEF Live
  <2> QED
    BY <1>1, <1>4, <1>5, <2>2, <2>3, <2>4
<1>8. -1 \in Int
  OBVIOUS
<1> QED
  BY <1>1, <1>2, <1>6, <1>7, <1>8, GetJobCases, Zenon

LEMMA FIFOInit == Init => FIFOInv
BY DEF Init, FIFOInv, Live, Taken

LEMMA FIFOStep == IndInv /\ FIFOInv /\ [Next]_vars => FIFOInv'
<1> SUFFICES ASSUME IndInv, FIFOInv, [Next]_vars PROVE FIFOInv'
  OBVIOUS
<1>1. CASE UNCHANGED vars
  BY <1>1 DEF vars, FIFOInv, Live, Taken
<1>2. CASE Next
  BY <1>2, FIFOPush, FIFORun, FIFONext DEF Next
<1> QED
  BY <1>1, <1>2

(* writer.go, Conn.Async ("concurrency 1"): asynchronous writes run one at *)
(* a time in the order they were submitted.                                *)
THEOREM FIFOTheorem == Spec => []FIFO
BY FIFOInit, FIFOStep, Invariance, FIFOImplied, PTL DEF Spec

-----------------------------------------------------------------------------
(***************************************************************************)
(* workerQueue implements AsyncExecutor, step by step: a job is pending    *)
(* while it is in q, active while a goroutine holds it.  NoStrandedJob is  *)
(* what makes a Push that finds a slot hand out the very job it brought.   *)
(***************************************************************************)
LEMMA SameCardinality == Executor!Cardinality(Live) = Cardinality(Live)
BY DEF Executor!Cardinality, Cardinality

LEMMA PushIsSubmit ==
    ASSUME IndInv, NEW j \in Jobs, Push(j)
    PROVE  Executor!SubmitAndTake(j) \/ Executor!SubmitAndWait(j)
<1> DEFINE s == Append(q, j)
<1>1. /\ q \in Seq(Jobs) /\ pushed \in Seq(Jobs) /\ s \in Seq(Jobs)
      /\ s # <<>> /\ Len(s) = Len(q) + 1 /\ Len(q) \in Nat
      /\ curConcurrency \in 0..maxConcurrency /\ maxConcurrency \in Nat
  BY MaxConcurrencyAssumption DEF IndInv, TypeOK
<1>2. running' = running /\ finished' = finished /\ getJob(s, 0)
  BY DEF Push
<1>3. curConcurrency = Cardinality(Live)
  BY DEF IndInv, CounterExact
<1>4. j \notin Executor!Submitted
  <2>1. \A i \in 1..Len(pushed) : pushed[i] # j
    BY <1>1 DEF Push, Range
  <2>2. Taken \in Nat /\ Taken + Len(q) = Len(pushed) /\ Len(pushed) \in Nat
    BY <1>1 DEF IndInv, QueueIsSuffix, Taken
  <2>3. \A i \in 1..Len(q) : q[i] # j
    BY <1>1, <2>1, <2>2 DEF IndInv, QueueIsSuffix
  <2>4. j \notin Live \cup finished
    BY <1>1, <2>1, <2>2 DEF IndInv, TakenJobsAccounted
  <2>5. DOMAIN q = 1..Len(q)
    BY <1>1
  <2> QED BY <2>3, <2>4, <2>5 DEF Executor!Submitted
<1>5. CASE /\ ~(curConcurrency + 0 < maxConcurrency /\ s # <<>>)
           /\ q' = s /\ launched' = launched
  <2>1. Live' = Live /\ Cardinality(Live) = maxConcurrency
    BY <1>1, <1>2, <1>3, <1>5 DEF Live
  <2> QED BY <1>2, <1>4, <1>5, <2>1, SameCardinality DEF Executor!SubmitAndWait
<1>6. CASE /\ curConcurrency + 0 < maxConcurrency
           /\ q' = Tail(s) /\ launched' = launched \cup {s[1]}
  <2>1. q = <<>>
    BY <1>1, <1>6 DEF IndInv, NoStrandedJob
  <2>2. q' = q /\ Live' = Live \cup {j}
    BY <1>1, <1>2, <1>6, <2>1 DEF Live
  <2>3. Cardinality(Live) < maxConcurrency
    BY <1>1, <1>3, <1>6
  <2> QED BY <1>2, <1>4, <2>2, <2>3, SameCardinality DEF Executor!SubmitAndTake
<1>7. 0 \in Int
  OBVIOUS
<1> QED
  BY <1>1, <1>2, <1>5, <1>6, <1>7, GetJobCases, Zenon

LEMMA NextJobIsComplete ==
    ASSUME IndInv, NEW j \in Jobs, NextJob(j)
    PROVE  Executor!Complete(j)
<1>1. /\ q \in Seq(Jobs) /\ curConcurrency \in 0..maxConcurrency
      /\ maxConcurrency \in Nat \ {0}
      /\ launched \cap running = {}
  BY MaxConcurrencyAssumption DEF IndInv, TypeOK, CounterExact
<1>2. /\ j \in running /\ running' = running \ {j} /\ finished' = finished \cup {j}
      /\ getJob(q, -1)
  BY DEF NextJob
<1>3. j \in Live /\ j \notin launched
  BY <1>1, <1>2 DEF Live
<1>4. CASE /\ ~(curConcurrency + (-1) < maxConcurrency /\ q # <<>>)
           /\ q' = q /\ launched' = launched
  <2>1. q = <<>>
    BY <1>1, <1>4
  <2>2. Live' = Live \ {j}
    BY <1>2, <1>3, <1>4 DEF Live
  <2> QED BY <1>2, <1>3, <1>4, <2>1, <2>2 DEF Executor!Complete
<1>5. CASE q # <<>> /\ q' = Tail(q) /\ launched' = launched \cup {q[1]}
  <2>1. Head(q) = q[1]
    BY <1>1, <1>5
  <2>2. Live' = (Live \ {j}) \cup {q[1]}
    <3>1. q[1] # j
      <4>1. Taken \in Nat /\ Len(q) \in Nat \ {0} /\ Len(pushed) \in Nat
            /\ Taken + Len(q) = Len(pushed)
        BY <1>1, <1>5 DEF IndInv, TypeOK, QueueIsSuffix, Taken
      <4>2. q[1] = pushed[Taken + 1]
        BY <4>1 DEF IndInv, QueueIsSuffix
      <4>3. PICK i \in 1..Taken : pushed[i] = j
        BY <1>3 DEF IndInv, TakenJobsAccounted
      <4>4. i \in 1..Len(pushed) /\ Taken + 1 \in 1..Len(pushed) /\ i # Taken + 1
        BY <4>1, <4>3
      <4> QED BY <4>2, <4>3, <4>4 DEF IndInv, TakenJobsAccounted
    <3> QED BY <1>2, <1>3, <1>5, <3>1 DEF Live
  <2> QED BY <1>2, <1>3, <1>5, <2>1, <2>2 DEF Executor!Complete
<1>6. -1 \in Int
  OBVIOUS
<1> QED
  BY <1>1, <1>2, <1>4, <1>5, <1>6, GetJobCases, Zenon

LEMMA ExecutorInit == Init => Executor!Init
BY DEF Init, Executor!Init, Live

LEMMA ExecutorStep == IndInv /\ [Next]_vars => [Executor!Next]_(Executor!vars)
<1> SUFFICES ASSUME IndInv, [Next]_vars PROVE [Executor!Next]_(Executor!vars)
  OBVIOUS
<1>1. ASSUME NEW j \in Jobs, Push(j) PROVE Executor!Next
  BY <1>1, PushIsSubmit DEF Executor!Next
<1>2. ASSUME NEW j \in Jobs, RunJob(j) PROVE UNCHANGED Executor!vars
  BY <1>2 DEF RunJob, Executor!vars, Live
<1>3. ASSUME NEW j \in Jobs, NextJob(j) PROVE Executor!Next
  BY <1>3, NextJobIsComplete DEF Executor!Next
<1>4. CASE UNCHANGED vars
  BY <1>4 DEF vars, Executor!vars, Live
<1> QED BY <1>1, <1>2, <1>3, <1>4 DEF Next

(* task.go: every step of the queue is a step of the abstract executor or  *)
(* leaves it unchanged, for every set of jobs and every maxConcurrency:    *)
(* the safety part of ImplementsExecutor.                                  *)
THEOREM ExecutorSteps == Spec => Executor!Init /\ [][Executor!Next]_(Executor!vars)
BY ExecutorInit, ExecutorStep, Invariance, PTL DEF Spec

-----------------------------------------------------------------------------
(* The queue inside the composition. *)

LEMMA QueueStep == [AsyncNext]_all => [Next]_vars
<1> SUFFICES ASSUME [AsyncNext]_all PROVE [Next]_vars
  OBVIOUS
<1>1. ASSUME NEW j \in Jobs, Async(j) PROVE [Next]_vars
  BY <1>1 DEF Async, Next
<1>2. ASSUME NEW j \in Jobs, StartJob(j) PROVE [Next]_vars
  BY <1>2 DEF StartJob, Next
<1>3. ASSUME NEW j \in Jobs, JobStep(j) PROVE [Next]_vars
  BY <1>3 DEF JobStep
<1>4. ASSUME NEW j \in Jobs, EndJob(j) PROVE [Next]_vars
  BY <1>4 DEF EndJob, Next
<1>5. CASE ConnStep
  BY <1>5 DEF ConnStep
<1>6. CASE UNCHANGED all
  BY <1>6 DEF all
<1> QED BY <1>1, <1>2, <1>3, <1>4, <1>5, <1>6 DEF AsyncNext

LEMMA QueueInvariance == AsyncSpec => [](IndInv /\ FIFOInv)
<1>1. AsyncInit => Init
  BY DEF AsyncInit
<1> QED BY <1>1, InitInv, Inductive, FIFOInit, FIFOStep, QueueStep, PTL DEF AsyncSpec

(* task.go inside a connection: whatever the connection does, the counter  *)
(* is exact, no job waits beside a free slot, and the bodies of the jobs   *)
(* run one at a time in the order of Push.                                 *)
THEOREM AsyncQueue == AsyncSpec => [](CounterExact /\ NoStrandedJob /\ FIFO)
<1>1. IndInv /\ FIFOInv => CounterExact /\ NoStrandedJob /\ FIFO
  BY FIFOImplied DEF IndInv
<1> QED BY <1>1, QueueInvariance, PTL

(* ... and the composition still implements the abstract executor, step by *)
(* step: the safety part of ImplementsExecutor.                            *)
THEOREM AsyncExecutorSteps == AsyncSpec => Executor!Init /\ [][Executor!Next]_(Executor!vars)
<1>1. AsyncInit => Init
  BY DEF AsyncInit
<1> QED BY <1>1, ExecutorInit, ExecutorStep, QueueStep, QueueInvariance, PTL DEF AsyncSpec

-----------------------------------------------------------------------------
(* What a job of the queue can make the Worker do: jobs only write. *)
WorkerAt == {"idle", "lock", "write", "check", "bcastLock", "bcastWrite", "emit"} \cup C!Closing

AsyncTypes ==
    /\ pc = [g \in C!Goroutines |-> pc[g]]
    /\ closed \in BOOLEAN
    /\ wire \in Seq(C!Frames)
    /\ written \in Seq(Jobs)
    /\ pc[Worker] \in WorkerAt

(* The Worker is inside the library only for the job that runs, the last   *)
(* one whose body was entered.                                             *)
WorkerRuns ==
    /\ pc[Worker] # "idle" => running # {}
    /\ \A j \in running : Len(executed) > 0 /\ executed[Len(executed)] = j

(* The frames on the wire are those of the first jobs entered.  As long as *)
(* the connection is open only the one of the running job is missing, and  *)
(* a job that got past the test of isClosed did so on an open connection.  *)
NoGap ==
    /\ Len(written) <= Len(executed)
    /\ \A i \in 1..Len(written) : written[i] = executed[i]
    /\ pc[Worker] \in C!Closing => closed
    /\ pc[Worker] \in {"write", "bcastLock", "bcastWrite"} => Len(written) + 1 = Len(executed)
    /\ ~closed /\ pc[Worker] \in {"lock", "check"} => Len(written) + 1 = Len(executed)
    /\ ~closed /\ pc[Worker] = "idle" => Len(written) = Len(executed)

AsyncInv == maxConcurrency = 1 /\ AsyncTypes /\ WorkerRuns /\ NoGap

LEMMA Roles ==
    /\ Worker \in C!Goroutines
    /\ ReadLoop \in C!Goroutines
    /\ ReadLoop # Worker
    /\ Handlers \subseteq C!Goroutines
    /\ Worker \notin Handlers
BY AsyncAssumption DEF C!Goroutines

(* At concurrency 1 the job that runs is the only one a goroutine holds. *)
LEMMA OneJob ==
    ASSUME IndInv, FIFOInv, AsyncInv
    PROVE  /\ \A j \in launched : running = {}
           /\ \A j \in running : running = {j} /\ launched = {}
BY DEF AsyncInv, IndInv, CounterExact, FIFOInv, Live

LEMMA AsyncInvInit == AsyncInit => AsyncInv
<1> SUFFICES ASSUME AsyncInit PROVE AsyncInv
  OBVIOUS
<1>1. AsyncTypes
  <2>1. wire \in Seq(C!Frames) /\ written \in Seq(Jobs)
    BY DEF AsyncInit, C!Init
  <2> QED BY <2>1, Roles DEF AsyncInit, C!Init, AsyncTypes, WorkerAt
<1>2. WorkerRuns /\ NoGap
  BY Roles DEF AsyncInit, Init, C!Init, WorkerRuns, NoGap, C!Closing
<1>3. maxConcurrency = 1
  BY DEF AsyncInit
<1> QED BY <1>1, <1>2, <1>3 DEF AsyncInv

LEMMA PushKeeps ==
    ASSUME AsyncInv, NEW j \in Jobs, Async(j)
    PROVE  AsyncInv'
<1>1. UNCHANGED <<pc, closed, wire, written, running, executed>>
  BY DEF Async, conn, Push
<1> QED BY <1>1 DEF AsyncInv, AsyncTypes, WorkerRuns, NoGap

LEMMA StartKeeps ==
    ASSUME IndInv, FIFOInv, AsyncInv, NEW j \in Jobs, StartJob(j)
    PROVE  AsyncInv'
<1>1. /\ UNCHANGED <<closed, wire, written>>
      /\ running' = running \cup {j} /\ executed' = Append(executed, j) /\ j \in launched
      /\ \E l \in {"lock", "check"} : pc' = [pc EXCEPT ![Worker] = l]
  BY DEF StartJob, RunJob, C!Goto
<1>2. running = {} /\ running' = {j}
  BY <1>1, OneJob
<1>3. pc[Worker] = "idle"
  BY <1>2 DEF AsyncInv, WorkerRuns
<1>4. executed \in Seq(Jobs) /\ written \in Seq(Jobs)
  BY DEF IndInv, TypeOK, AsyncInv, AsyncTypes
<1>5. /\ Len(executed') = Len(executed) + 1 /\ Len(executed) \in Nat /\ Len(written) \in Nat
      /\ executed'[Len(executed) + 1] = j
      /\ \A i \in 1..Len(executed) : executed'[i] = executed[i]
  BY <1>1, <1>4
<1>6. pc' = [g \in C!Goroutines |-> pc'[g]] /\ pc'[Worker] \in {"lock", "check"}
  BY <1>1, Roles DEF AsyncInv, AsyncTypes
<1>7. AsyncTypes'
  BY <1>1, <1>6 DEF AsyncInv, AsyncTypes, WorkerAt
<1>8. WorkerRuns'
  BY <1>2, <1>5 DEF WorkerRuns
<1>9. NoGap'
  BY <1>1, <1>3, <1>5, <1>6 DEF AsyncInv, NoGap, C!Closing
<1> QED BY <1>7, <1>8, <1>9 DEF AsyncInv

LEMMA EndKeeps ==
    ASSUME IndInv, FIFOInv, AsyncInv, NEW j \in Jobs, EndJob(j)
    PROVE  AsyncInv'
<1>1. /\ UNCHANGED <<pc, closed, wire, written, executed>>
      /\ pc[Worker] = "idle" /\ j \in running /\ running' = running \ {j}
  BY DEF EndJob, conn, NextJob
<1>2. running' = {}
  BY <1>1, OneJob
<1> QED BY <1>1, <1>2 DEF AsyncInv, AsyncTypes, WorkerRuns, NoGap

-----------------------------------------------------------------------------
(* The steps of the job's body. *)

(* What the wire says about a step: the job's frame went out, or not. *)
LEMMA FrameOut ==
    ASSUME AsyncInv, NEW f \in {"data", "bcast"}, wire' = Append(wire, f)
    PROVE  Len(wire') > Len(wire) /\ wire'[Len(wire')] \in {"data", "bcast"} /\ wire' \in Seq(C!Frames)
BY DEF AsyncInv, AsyncTypes, C!Frames

LEMMA NoFrameOut ==
    ASSUME AsyncInv, wire' \in {wire, Append(wire, "cut"), Append(wire, "close")}
    PROVE  /\ ~(Len(wire') > Len(wire) /\ wire'[Len(wire')] \in {"data", "bcast"})
           /\ wire' \in Seq(C!Frames)
<1>1. wire \in Seq(C!Frames) /\ "cut" \in C!Frames /\ "close" \in C!Frames
  BY DEF AsyncInv, AsyncTypes, C!Frames
<1>2. CASE wire' = wire
  BY <1>1, <1>2
<1>3. CASE wire' = Append(wire, "cut")
  BY <1>1, <1>3
<1>4. CASE wire' = Append(wire, "close")
  BY <1>1, <1>4
<1> QED BY <1>2, <1>3, <1>4

(* The Worker moves without a frame.  Where it may not arrive like this:   *)
(* at the start of a write, and, while the connection is open, at the end  *)
(* of one.                                                                 *)
LEMMA WorkerMoves ==
    ASSUME AsyncInv, NEW j \in running, JobStep(j),
           NEW l \in WorkerAt, pc' = [pc EXCEPT ![Worker] = l],
           wire' \in {wire, Append(wire, "cut"), Append(wire, "close")},
           closed' \in BOOLEAN, closed => closed',
           l \notin {"lock", "check"},
           l = "idle" \/ l \in C!Closing => closed',
           l \in {"write", "bcastLock", "bcastWrite"} => Len(written) + 1 = Len(executed)
    PROVE  AsyncInv'
<1>1. written' = written /\ wire' \in Seq(C!Frames)
  BY NoFrameOut DEF JobStep
<1>2. executed' = executed /\ running' = running
  BY DEF JobStep, vars
<1>3. pc' = [g \in C!Goroutines |-> pc'[g]] /\ pc'[Worker] = l
  BY Roles DEF AsyncInv, AsyncTypes
<1>4. AsyncTypes'
  BY <1>1, <1>3 DEF AsyncInv, AsyncTypes
<1>5. WorkerRuns'
  BY <1>2 DEF AsyncInv, WorkerRuns
<1>6. NoGap'
  BY <1>1, <1>2, <1>3 DEF AsyncInv, NoGap
<1> QED BY <1>4, <1>5, <1>6 DEF AsyncInv

(* The job's frame goes out. *)
LEMMA WorkerWrites ==
    ASSUME IndInv, AsyncInv, NEW j \in running, JobStep(j),
           NEW f \in {"data", "bcast"}, wire' = Append(wire, f),
           pc[Worker] \in {"write", "bcastWrite"}, pc' = [pc EXCEPT ![Worker] = "idle"],
           closed' = closed
    PROVE  AsyncInv'
<1>1. written' = Append(written, j) /\ wire' \in Seq(C!Frames)
  BY FrameOut DEF JobStep
<1>2. executed' = executed /\ running' = running
  BY DEF JobStep, vars
<1>3. pc' = [g \in C!Goroutines |-> pc'[g]] /\ pc'[Worker] = "idle"
  BY Roles DEF AsyncInv, AsyncTypes
<1>4. j \in Jobs /\ written \in Seq(Jobs) /\ executed \in Seq(Jobs)
  BY DEF IndInv, TypeOK, AsyncInv, AsyncTypes
<1>5. /\ written' \in Seq(Jobs) /\ Len(written') = Len(written) + 1
      /\ Len(written) \in Nat /\ Len(executed) \in Nat
      /\ written'[Len(written) + 1] = j
      /\ \A i \in 1..Len(written) : written'[i] = written[i]
  BY <1>1, <1>4
<1>6. Len(written) + 1 = Len(executed) /\ executed[Len(executed)] = j
  BY DEF AsyncInv, NoGap, WorkerRuns
<1>7. AsyncTypes'
  BY <1>1, <1>3, <1>5 DEF AsyncInv, AsyncTypes, WorkerAt
<1>8. WorkerRuns'
  BY <1>2, <1>3 DEF AsyncInv, WorkerRuns
<1>9. \A i \in 1..Len(written') : written'[i] = executed[i]
  <2> SUFFICES ASSUME NEW i \in 1..Len(written') PROVE written'[i] = executed[i]
    OBVIOUS
  <2>1. CASE i \in 1..Len(written)
    BY <1>5, <2>1 DEF AsyncInv, NoGap
  <2>2. CASE i = Len(written) + 1
    BY <1>5, <1>6, <2>2
  <2> QED BY <1>5, <2>1, <2>2
<1>10. NoGap'
  BY <1>2, <1>3, <1>5, <1>6, <1>9 DEF NoGap, C!Closing
<1> QED BY <1>7, <1>8, <1>10 DEF AsyncInv

LEMMA JobStepKeeps ==
    ASSUME IndInv, AsyncInv, NEW j \in Jobs, JobStep(j)
    PROVE  AsyncInv'
<1>1. j \in running /\ closed \in BOOLEAN /\ pc[Worker] \in WorkerAt
  BY DEF JobStep, AsyncInv, AsyncTypes
<1>2. CASE C!WriteFrame(Worker)
  <2>1. pc[Worker] = "write" /\ closed' = closed
    BY <1>2 DEF C!WriteFrame, C!lifecycle
  <2>2. CASE C!WriteOK("data") /\ C!Goto(Worker, "idle")
    BY <1>1, <2>1, <2>2, WorkerWrites DEF C!WriteOK, C!Goto
  <2>3. CASE C!WriteFails /\ C!FailWith(Worker, "io")
    <3>1. wire' \in {wire, Append(wire, "cut"), Append(wire, "close")}
      BY <2>3 DEF C!WriteFails, C!output
    <3> QED BY <1>1, <2>1, <2>3, <3>1, WorkerMoves DEF C!FailWith, C!Goto, WorkerAt, C!Closing
  <2> QED BY <1>2, <2>2, <2>3 DEF C!WriteFrame
<1>3. CASE C!WriteBroadcast
  <2>1. pc[Worker] = "bcastWrite" /\ closed' = closed
    BY <1>3 DEF C!WriteBroadcast, C!lifecycle
  <2>2. CASE C!WriteOK("bcast") /\ C!Goto(Worker, "idle")
    BY <1>1, <2>1, <2>2, WorkerWrites DEF C!WriteOK, C!Goto
  <2>3. CASE C!WriteFails /\ C!FailWith(Worker, "io")
    <3>1. wire' \in {wire, Append(wire, "cut"), Append(wire, "close")}
      BY <2>3 DEF C!WriteFails, C!output
    <3> QED BY <1>1, <2>1, <2>3, <3>1, WorkerMoves DEF C!FailWith, C!Goto, WorkerAt, C!Closing
  <2> QED BY <1>3, <2>2, <2>3 DEF C!WriteBroadcast
<1>4. CASE C!WriteCloseFrame(Worker)
  <2>1. /\ pc' = [pc EXCEPT ![Worker] = "netClose"] /\ closed' = closed
        /\ pc[Worker] = "closeWrite"
        /\ wire' \in {wire, Append(wire, "cut"), Append(wire, "close")}
    BY <1>4 DEF C!WriteCloseFrame, C!WriteOK, C!WriteFails, C!output, C!lifecycle, C!Goto
  <2>2. closed
    BY <2>1 DEF AsyncInv, NoGap, C!Closing
  <2> QED BY <1>1, <2>1, <2>2, WorkerMoves DEF WorkerAt, C!Closing
<1>5. CASE C!WriteSegment(Worker) \/ C!WriteLastSegment(Worker) \/ C!LockFile(Worker) \/ C!NextSegment(Worker)
  BY <1>1, <1>5 DEF C!WriteSegment, C!WriteLastSegment, C!LockFile, C!NextSegment, WorkerAt, C!Closing
<1>6. CASE C!LockToWrite(Worker)
  <2>1. pc[Worker] = "lock" /\ closed' = closed /\ wire' = wire
    BY <1>6 DEF C!LockToWrite, C!lifecycle, C!output
  <2>2. CASE pc' = [pc EXCEPT ![Worker] = "emit"]
    BY <1>1, <2>1, <2>2, WorkerMoves DEF WorkerAt, C!Closing
  <2>3. CASE ~closed /\ pc' = [pc EXCEPT ![Worker] = "write"]
    <3>1. Len(written) + 1 = Len(executed)
      BY <2>1, <2>3 DEF AsyncInv, NoGap
    <3> QED BY <1>1, <2>1, <2>3, <3>1, WorkerMoves DEF WorkerAt, C!Closing
  <2> QED BY <1>6, <2>2, <2>3 DEF C!LockToWrite, C!FailWith, C!Goto
<1>7. CASE C!CheckBroadcast
  <2>1. pc[Worker] = "check" /\ closed' = closed /\ wire' = wire
    BY <1>7 DEF C!CheckBroadcast, C!lifecycle, C!output
  <2>2. CASE pc' = [pc EXCEPT ![Worker] = "emit"]
    BY <1>1, <2>1, <2>2, WorkerMoves DEF WorkerAt, C!Closing
  <2>3. CASE ~closed /\ pc' = [pc EXCEPT ![Worker] = "bcastLock"]
    <3>1. Len(written) + 1 = Len(executed)
      BY <2>1, <2>3 DEF AsyncInv, NoGap
    <3> QED BY <1>1, <2>1, <2>3, <3>1, WorkerMoves DEF WorkerAt, C!Closing
  <2> QED BY <1>7, <2>2, <2>3 DEF C!CheckBroadcast, C!FailWith, C!Goto
<1>8. CASE C!LockBroadcast
  <2>1. /\ pc[Worker] = "bcastLock" /\ closed' = closed /\ wire' = wire
        /\ pc' = [pc EXCEPT ![Worker] = "bcastWrite"]
    BY <1>8 DEF C!LockBroadcast, C!lifecycle, C!output, C!Goto
  <2>2. Len(written) + 1 = Len(executed)
    BY <2>1 DEF AsyncInv, NoGap
  <2> QED BY <1>1, <2>1, <2>2, WorkerMoves DEF WorkerAt, C!Closing
<1>9. CASE C!EmitError(Worker)
  <2>1. wire' = wire
    BY <1>9 DEF C!EmitError, C!output
  <2>2. CASE closed' = TRUE /\ pc' = [pc EXCEPT ![Worker] = "store"]
    BY <1>1, <2>1, <2>2, WorkerMoves DEF WorkerAt, C!Closing
  <2>3. CASE closed /\ closed' = closed /\ pc' = [pc EXCEPT ![Worker] = "idle"]
    BY <1>1, <2>1, <2>3, WorkerMoves DEF WorkerAt, C!Closing
  <2> QED BY <1>9, <2>2, <2>3 DEF C!EmitError, C!Goto
<1>10. CASE C!StoreError(Worker) \/ C!LockToClose(Worker) \/ C!CloseNetConn(Worker)
  <2>1. /\ closed' = closed /\ wire' = wire
        /\ pc[Worker] \in {"store", "closeLock", "netClose"}
        /\ \E l \in {"closeLock", "closeWrite", "netClose", "idle"} : pc' = [pc EXCEPT ![Worker] = l]
    BY <1>10 DEF C!StoreError, C!LockToClose, C!CloseNetConn, C!lifecycle, C!output, C!Goto
  <2>2. closed
    BY <2>1 DEF AsyncInv, NoGap, C!Closing
  <2> QED BY <1>1, <2>1, <2>2, WorkerMoves DEF WorkerAt, C!Closing
<1> QED
  BY <1>2, <1>3, <1>4, <1>5, <1>6, <1>7, <1>8, <1>9, <1>10
  DEF JobStep, C!NetworkStep, C!OtherStep

-----------------------------------------------------------------------------
(* The other goroutines: none of them moves the Worker or reopens the      *)
(* connection.                                                             *)

LEMMA OthersKeep ==
    ASSUME AsyncInv, UNCHANGED <<running, executed, written>>,
           wire' \in Seq(C!Frames), closed' \in BOOLEAN, closed => closed',
           pc' = [g \in C!Goroutines |-> pc'[g]], pc'[Worker] = pc[Worker]
    PROVE  AsyncInv'
BY DEF AsyncInv, AsyncTypes, WorkerRuns, NoGap

LEMMA ConnStepKeeps ==
    ASSUME AsyncInv, ConnStep
    PROVE  AsyncInv'
<1>1. UNCHANGED <<running, executed, written>>
  BY DEF ConnStep, vars
<1>2. wire \in Seq(C!Frames) /\ closed \in BOOLEAN /\ pc = [g \in C!Goroutines |-> pc[g]]
  BY DEF AsyncInv, AsyncTypes
<1>3. ASSUME NEW g \in C!Goroutines \ {Worker}, C!Call(g) PROVE AsyncInv'
  <2>1. wire' = wire
    BY <1>3 DEF C!Call, C!CallWriteMessage, C!CallWriteFile, C!CallWriteClose, C!CallSetDeadline,
       C!StartCall, C!output
  <2>2. closed' \in BOOLEAN /\ (closed => closed')
    BY <1>2, <1>3 DEF C!Call, C!CallWriteMessage, C!CallWriteFile, C!CallWriteClose,
       C!CallSetDeadline, C!lifecycle
  <2>3. pc' = pc \/ \E l \in {"lock", "fileLock", "store", "emit"} : pc' = [pc EXCEPT ![g] = l]
    BY <1>3 DEF C!Call, C!CallWriteMessage, C!CallWriteFile, C!CallWriteClose, C!CallSetDeadline,
       C!Goto, C!FailWith
  <2>4. pc' = [h \in C!Goroutines |-> pc'[h]] /\ pc'[Worker] = pc[Worker]
    BY <1>2, <2>3, Roles
  <2> QED BY <1>1, <1>2, <2>1, <2>2, <2>4, OthersKeep
<1>4. ASSUME NEW g \in C!Goroutines \ {Worker}, C!NetworkStep(g) PROVE AsyncInv'
  <2>1. \E f \in C!Frames : wire' \in {wire, Append(wire, f)}
    BY <1>4 DEF C!NetworkStep, C!WriteFrame, C!WriteSegment, C!WriteLastSegment, C!WriteCloseFrame,
       C!WriteOK, C!WriteFails, C!output, C!Frames
  <2>2. wire' \in Seq(C!Frames)
    BY <1>2, <2>1
  <2>3. closed' = closed
    BY <1>4 DEF C!NetworkStep, C!WriteFrame, C!WriteSegment, C!WriteLastSegment, C!WriteCloseFrame,
       C!lifecycle
  <2>4. \E l \in C!Locations : pc' = [pc EXCEPT ![g] = l]
    BY <1>4 DEF C!NetworkStep, C!WriteFrame, C!WriteSegment, C!WriteLastSegment, C!WriteCloseFrame,
       C!Goto, C!FailWith, C!Locations, C!InMutex, C!Closing
  <2>5. pc' = [h \in C!Goroutines |-> pc'[h]] /\ pc'[Worker] = pc[Worker]
    BY <1>2, <2>4, Roles
  <2> QED BY <1>1, <1>2, <2>2, <2>3, <2>5, OthersKeep
<1>5. ASSUME NEW g \in C!Goroutines \ {Worker}, C!OtherStep(g) PROVE AsyncInv'
  <2>1. wire' = wire
    BY <1>5 DEF C!OtherStep, C!LockToWrite, C!LockFile, C!NextSegment, C!EmitError, C!StoreError,
       C!LockToClose, C!CloseNetConn, C!output
  <2>2. closed' \in BOOLEAN /\ (closed => closed')
    BY <1>2, <1>5 DEF C!OtherStep, C!LockToWrite, C!LockFile, C!NextSegment, C!EmitError,
       C!StoreError, C!LockToClose, C!CloseNetConn, C!lifecycle
  <2>3. \E l \in C!Locations : pc' = [pc EXCEPT ![g] = l]
    BY <1>5 DEF C!OtherStep, C!LockToWrite, C!LockFile, C!NextSegment, C!EmitError, C!StoreError,
       C!LockToClose, C!CloseNetConn, C!Goto, C!FailWith, C!Locations, C!InMutex, C!Closing
  <2>4. pc' = [h \in C!Goroutines |-> pc'[h]] /\ pc'[Worker] = pc[Worker]
    BY <1>2, <2>3, Roles
  <2> QED BY <1>1, <1>2, <2>1, <2>2, <2>4, OthersKeep
<1>6. CASE C!ReadStep
  <2>1. UNCHANGED <<wire, closed, pc>>
    BY <1>6 DEF C!ReadStep, C!CallbackReturns, C!LoadError, C!ReclaimResources, C!Dispatch,
       C!HandlerReturns, C!unreader, C!output
  <2> QED BY <1>1, <1>2, <2>1, OthersKeep
<1>7. CASE C!PeerStep
  <2>1. wire' = wire
    BY <1>7 DEF C!PeerStep, C!ReadFragment, C!ReadPingPong, C!ReadData, C!ReadClose, C!ReadFails,
       C!unreader, C!output
  <2>2. closed' \in BOOLEAN /\ (closed => closed')
    BY <1>2, <1>7 DEF C!PeerStep, C!ReadFragment, C!ReadPingPong, C!ReadData, C!ReadClose,
       C!ReadFails
  <2>3. pc' = pc \/ \E l \in {"store", "emit"} : pc' = [pc EXCEPT ![ReadLoop] = l]
    BY <1>7 DEF C!PeerStep, C!ReadFragment, C!ReadPingPong, C!ReadData, C!ReadClose, C!ReadFails,
       C!Goto, C!FailWith
  <2>4. pc' = [h \in C!Goroutines |-> pc'[h]] /\ pc'[Worker] = pc[Worker]
    BY <1>2, <2>3, Roles
  <2> QED BY <1>1, <1>2, <2>1, <2>2, <2>4, OthersKeep
<1> QED BY <1>3, <1>4, <1>5, <1>6, <1>7 DEF ConnStep

LEMMA AsyncInvStep == IndInv /\ FIFOInv /\ AsyncInv /\ [AsyncNext]_all => AsyncInv'
<1> SUFFICES ASSUME IndInv, FIFOInv, AsyncInv, [AsyncNext]_all PROVE AsyncInv'
  OBVIOUS
<1>1. CASE UNCHANGED all
  BY <1>1 DEF all, vars, conn, AsyncInv, AsyncTypes, WorkerRuns, NoGap
<1>2. CASE AsyncNext
  BY <1>2, PushKeeps, StartKeeps, JobStepKeeps, EndKeeps, ConnStepKeeps DEF AsyncNext
<1> QED BY <1>1, <1>2

(* writer.go, WriteAsync: the asynchronous frames on the wire are those of *)
(* the first jobs pushed, in the order of Push and without a gap, whoever  *)
(* else writes on the connection or closes it.                             *)
THEOREM AsyncPrefixTheorem == AsyncSpec => []AsyncPrefix
<1>1. IndInv /\ FIFOInv /\ AsyncInv => AsyncPrefix
  <2> SUFFICES ASSUME IndInv, FIFOInv, AsyncInv PROVE AsyncPrefix
    OBVIOUS
  <2>1. Len(written) \in Nat /\ Len(executed) \in Nat /\ Len(pushed) \in Nat
    BY DEF IndInv, TypeOK, AsyncInv, AsyncTypes
  <2>2. Len(executed) <= Len(pushed) /\ \A i \in 1..Len(executed) : executed[i] = pushed[i]
    BY FIFOImplied DEF FIFO, AsyncInv
  <2>3. Len(written) <= Len(executed) /\ \A i \in 1..Len(written) : written[i] = executed[i]
    BY DEF AsyncInv, NoGap
  <2> QED BY <2>1, <2>2, <2>3 DEF AsyncPrefix
<1> QED
  BY <1>1, AsyncInvInit, AsyncInvStep, QueueInvariance, PTL DEF AsyncSpec
==============================================================================
