-------------------------- MODULE DispatcherProofs --------------------------
(****************************************************************************)
(* Theorems about the dispatcher, for every set of jobs, every set of       *)
(* panicking jobs, every number of workers and every capacity of JobQueue.  *)
(****************************************************************************)
EXTENDS Dispatcher, FiniteSetTheorems, SequenceTheorems, TLAPS

----------------------------------------------------------------------------
(* Sequences that list each element once                                    *)

Once(s) == \A i, k \in 1 .. Len(s) : s[i] = s[k] => i = k

\* Append adds its element to what a sequence lists.
LEMMA AppendLists ==
  ASSUME NEW S, NEW s \in Seq(S), NEW x \in S
  PROVE  /\ Range(Append(s, x)) = Range(s) \cup {x}
         /\ Once(s) /\ x \notin Range(s) => Once(Append(s, x))
<1>1. /\ Append(s, x) \in Seq(S) /\ Len(Append(s, x)) = Len(s) + 1
      /\ \A i \in 1 .. Len(s) : Append(s, x)[i] = s[i]
      /\ Append(s, x)[Len(s) + 1] = x
      /\ Len(s) \in Nat
  BY AppendProperties, LenProperties
<1>2. /\ Range(s) = {s[i] : i \in 1 .. Len(s)}
      /\ Range(Append(s, x)) = {Append(s, x)[i] : i \in 1 .. Len(s) + 1}
  BY <1>1, RangeEquality
<1>3. Range(Append(s, x)) = Range(s) \cup {x}
  BY <1>1, <1>2
<1>4. ASSUME Once(s), x \notin Range(s) PROVE Once(Append(s, x))
  BY <1>1, <1>2, <1>4 DEF Once
<1>. QED BY <1>3, <1>4

\* Head is listed, and Tail takes it away from a sequence that lists it once.
LEMMA TailLists ==
  ASSUME NEW S, NEW s \in Seq(S), s # <<>>
  PROVE  /\ Head(s) \in Range(s)
         /\ Range(Tail(s)) \subseteq Range(s)
         /\ Once(s) => Once(Tail(s)) /\ Range(Tail(s)) = Range(s) \ {Head(s)}
<1>1. /\ Tail(s) \in Seq(S) /\ Len(Tail(s)) = Len(s) - 1
      /\ \A i \in 1 .. Len(s) - 1 : Tail(s)[i] = s[i + 1]
      /\ Len(s) \in Nat /\ Len(s) >= 1 /\ Head(s) = s[1]
  BY HeadTailProperties, LenProperties, EmptySeq
<1>2. /\ Range(s) = {s[i] : i \in 1 .. Len(s)}
      /\ Range(Tail(s)) = {Tail(s)[i] : i \in 1 .. Len(s) - 1}
  BY <1>1, RangeEquality, ZenonT(60)
<1>3. \A i \in 1 .. Len(s) : i = 1 \/ (i - 1 \in 1 .. Len(s) - 1 /\ i = (i - 1) + 1)
  BY <1>1
<1>4. Head(s) \in Range(s) /\ Range(Tail(s)) \subseteq Range(s)
  BY <1>1, <1>2
<1>5. ASSUME Once(s) PROVE Once(Tail(s)) /\ Range(Tail(s)) = Range(s) \ {Head(s)}
  <2>1. Once(Tail(s))
    BY <1>1, <1>5 DEF Once
  <2>2. Head(s) \notin Range(Tail(s))
    BY <1>1, <1>2, <1>5 DEF Once
  <2>3. \A i \in 1 .. Len(s) : s[i] # Head(s) => s[i] \in Range(Tail(s))
    BY <1>1, <1>2, <1>3, ZenonT(60)
  <2>. QED BY <1>2, <1>4, <2>1, <2>2, <2>3
<1>. QED BY <1>4, <1>5

\* A contiguous part of a sequence that lists its elements once does so too.
LEMMA SubSeqLists ==
  ASSUME NEW S, NEW s \in Seq(S), NEW m \in 1 .. Len(s) + 1, NEW n \in 0 .. Len(s)
  PROVE  /\ SubSeq(s, m, n) \in Seq(S)
         /\ Range(SubSeq(s, m, n)) = {s[i] : i \in m .. n}
         /\ Once(s) => Once(SubSeq(s, m, n))
<1>0. Len(s) \in Nat /\ \A i \in 1 .. Len(s) : s[i] \in S
  BY LenProperties
<1>1. /\ SubSeq(s, m, n) \in Seq(S)
      /\ Len(SubSeq(s, m, n)) = IF m <= n THEN n - m + 1 ELSE 0
      /\ \A i \in 1 .. n - m + 1 : SubSeq(s, m, n)[i] = s[m + i - 1]
  BY <1>0, SubSeqProperties
<1>2. Range(SubSeq(s, m, n)) = {SubSeq(s, m, n)[i] : i \in 1 .. Len(SubSeq(s, m, n))}
  BY <1>1, RangeEquality
<1>3. Range(SubSeq(s, m, n)) = {s[i] : i \in m .. n}
  <2>1. \A i \in m .. n : i - m + 1 \in 1 .. n - m + 1 /\ m + (i - m + 1) - 1 = i
    BY <1>0
  <2>2. \A i \in 1 .. n - m + 1 : m + i - 1 \in m .. n
    BY <1>0
  <2>3. Len(SubSeq(s, m, n)) \in Nat
        /\ 1 .. Len(SubSeq(s, m, n)) = 1 .. n - m + 1
    BY <1>0, <1>1
  <2>4. Range(SubSeq(s, m, n)) = {SubSeq(s, m, n)[i] : i \in 1 .. n - m + 1}
    BY <1>2, <2>3
  <2>5. \A i \in m .. n : s[i] = SubSeq(s, m, n)[i - m + 1]
    BY <1>1, <2>1
  <2>6. \A i \in 1 .. n - m + 1 : SubSeq(s, m, n)[i] \in {s[k] : k \in m .. n}
    BY <1>1, <2>2
  <2>7. \A i \in m .. n : s[i] \in Range(SubSeq(s, m, n))
    BY <2>1, <2>4, <2>5
  <2>. QED BY <2>4, <2>6, <2>7
<1>4. ASSUME Once(s) PROVE Once(SubSeq(s, m, n))
  BY <1>0, <1>1, <1>4 DEF Once
<1>. QED BY <1>1, <1>3, <1>4

\* SetToSeq lists every element of a finite set once.
LEMMA SetToSeqLists ==
  ASSUME NEW S, IsFiniteSet(S)
  PROVE  /\ SetToSeq(S) \in Seq(S)
         /\ Once(SetToSeq(S))
         /\ Range(SetToSeq(S)) = S
<1> DEFINE n == Cardinality(S)
<1>1. n \in Nat /\ ExistsBijection(1 .. n, S)
  BY FS_CardinalityType
<1>2. \E f \in [1 .. n -> S] : IsInjective(f)
  BY <1>1 DEF ExistsBijection, Bijection, Injection
<1>3. SetToSeq(S) \in [1 .. n -> S] /\ IsInjective(SetToSeq(S))
  BY <1>2 DEF SetToSeq
<1>4. SetToSeq(S) \in Seq(S) /\ Len(SetToSeq(S)) = n
  BY <1>1, <1>3
<1>5. Once(SetToSeq(S))
  BY <1>3, <1>4 DEF Once, IsInjective
<1>6. Range(SetToSeq(S)) = S
  <2>1. SetToSeq(S) \in Injection(1 .. n, S)
    BY <1>3 DEF Injection
  <2>2. Cardinality(1 .. n) = n
    BY <1>1, FS_Interval
  <2>3. SetToSeq(S) \in Surjection(1 .. n, S)
    BY <2>1, <2>2, FS_Injection
  <2>. QED BY <1>3, <2>3 DEF Surjection, Range
<1>. QED BY <1>4, <1>5, <1>6

----------------------------------------------------------------------------
(* Types                                                                    *)

\* The pool is of finite size.
LEMMA CountIsNat == count \in Nat /\ count > 0
BY ConstantsAssumption, FS_CardinalityType, FS_EmptySet DEF count

\* assignmentTask pairs jobs of jobSlice with workers of workerPool.
LEMMA PairsAreInRange ==
  ASSUME TypeOK
  PROVE  /\ Pairs \in Nat /\ Pairs <= Len(jobSlice) /\ Pairs <= Len(workerPool)
         /\ Len(jobSlice) \in Nat /\ Len(workerPool) \in Nat
         /\ \A i \in 1 .. Pairs : Chosen(i) \in Workers /\ jobSlice[i] \in Jobs
<1>1. Len(jobSlice) \in Nat /\ Len(workerPool) \in Nat
  BY LenProperties DEF TypeOK
<1>2. Pairs \in Nat /\ Pairs <= Len(jobSlice) /\ Pairs <= Len(workerPool)
  BY <1>1 DEF Pairs
<1>3. ASSUME NEW i \in 1 .. Pairs
      PROVE  Chosen(i) \in Workers /\ jobSlice[i] \in Jobs
  <2>1. /\ i \in 1 .. Len(jobSlice) /\ i \in 1 .. Len(workerPool)
        /\ Len(workerPool) + 1 - i \in 1 .. Len(workerPool)
    BY <1>1, <1>2
  <2>. QED BY <2>1, ElementOfSeq DEF TypeOK, Chosen
<1>. QED BY <1>1, <1>2, <1>3

\* The initial state has the types.
LEMMA InitType == Init => TypeOK
<1> SUFFICES ASSUME Init PROVE TypeOK
  OBVIOUS
<1>1. SetToSeq(Workers) \in Seq(Workers)
  BY SetToSeqLists, ConstantsAssumption
<1>2. <<>> \in Seq(Jobs) /\ <<>> \in Seq(Workers) /\ Len(<<>>) = 0
  BY EmptySeq
<1>3. MaxQueue >= 0 /\ count >= 0 /\ count \in Int
  BY CountIsNat, ConstantsAssumption
<1>4. finished \in [Jobs -> Nat] /\ wtmp \in [Workers -> Int]
      /\ worker \in [Workers -> {"receive", "run", "return", "load", "store", "exited"}]
      /\ job \in [Workers -> Jobs \cup {NoJob}]
  BY DEF Init
<1>5. sent \subseteq Jobs /\ stopChan \in BOOLEAN
  BY DEF Init
<1>6. /\ dtmp \in Int
      /\ dpc \in {"select", "drain", "pool", "poolLoad", "poolStore", "queue",
                  "queueLoad", "queueStore", "wait", "end"}
  BY DEF Init
<1>. QED BY <1>1, <1>2, <1>3, <1>4, <1>5, <1>6 DEF Init, TypeOK

\* A round of assignmentTask keeps the types.
LEMMA AssignmentType ==
  ASSUME TypeOK, assignmentTask
  PROVE  TypeOK'
<1>1. jobSlice' \in Seq(Jobs)
  <2>1. Pairs + 1 \in 1 .. Len(jobSlice) + 1 /\ Len(jobSlice) \in 0 .. Len(jobSlice)
    BY PairsAreInRange
  <2>. QED BY <2>1, SubSeqLists DEF assignmentTask, JobsLeft, TypeOK
<1>2. workerPool' \in Seq(Workers)
  <2>1. Len(workerPool) - Pairs \in 0 .. Len(workerPool) /\ 1 \in 1 .. Len(workerPool) + 1
    BY PairsAreInRange
  <2>. QED BY <2>1, SubSeqLists DEF assignmentTask, WorkersLeft, TypeOK
<1>3. job' \in [Workers -> Jobs \cup {NoJob}]
  BY PairsAreInRange DEF assignmentTask, TypeOK
<1>4. worker' \in [Workers -> {"receive", "run", "return", "load", "store", "exited"}]
  BY DEF assignmentTask, TypeOK
<1>. QED BY <1>1, <1>2, <1>3, <1>4 DEF assignmentTask, TypeOK, dispatcherVars

\* The dispatcher's own steps keep the types.
LEMMA RunType ==
  ASSUME TypeOK, TakeWorker \/ TakeJob \/ Tick \/ Stop \/ Shutdown
  PROVE  TypeOK'
<1> USE DEF jobVars, poolVars, dispatcherVars, workerVars
<1>1. CASE TakeWorker
  <2>1. Head(workerQueue) \in Workers /\ workerQueue' \in Seq(Workers)
        /\ Len(workerQueue') <= count /\ workerPool' \in Seq(Workers)
    BY <1>1, HeadTailProperties, AppendProperties, LenProperties, CountIsNat
    DEF TakeWorker, TypeOK
  <2>. QED BY <1>1, <2>1 DEF TakeWorker, TypeOK
<1>2. CASE TakeJob
  <2>1. Head(JobQueue) \in Jobs /\ JobQueue' \in Seq(Jobs)
        /\ Len(JobQueue') <= MaxQueue /\ jobSlice' \in Seq(Jobs)
    BY <1>2, HeadTailProperties, AppendProperties, LenProperties,
       ConstantsAssumption
    DEF TakeJob, TypeOK
  <2>. QED BY <1>2, <2>1 DEF TakeJob, TypeOK
<1>3. CASE Tick \/ Drain
  BY <1>3, AssignmentType DEF Tick, Drain
<1>4. CASE Stop \/ DrainEnd \/ PoolEnd \/ QueueEnd \/ WaitEnd
  BY <1>4 DEF Stop, DrainEnd, PoolEnd, QueueEnd, WaitEnd, Goto, TypeOK
<1>5. CASE PoolNil
  <2>1. workerPool' \in Seq(Workers)
    BY <1>5, HeadTailProperties DEF PoolNil, TypeOK
  <2>. QED BY <1>5, <2>1 DEF PoolNil, Dismiss, Goto, TypeOK
<1>6. CASE QueueNil
  <2>1. workerQueue' \in Seq(Workers) /\ Len(workerQueue') <= count
    BY <1>6, HeadTailProperties, LenProperties, CountIsNat DEF QueueNil, TypeOK
  <2>. QED BY <1>6, <2>1 DEF QueueNil, Dismiss, Goto, TypeOK
<1>7. CASE CountLoad \/ CountStore
  BY <1>7 DEF CountLoad, CountStore, Goto, TypeOK
<1>. QED BY <1>1, <1>2, <1>3, <1>4, <1>5, <1>6, <1>7 DEF Shutdown

\* A worker's steps keep the types.
LEMMA WorkType ==
  ASSUME TypeOK, NEW w \in Workers, Work(w)
  PROVE  TypeOK'
<1> USE DEF jobVars, poolVars, dispatcherVars, workerVars
<1>1. CASE WorkFunc(w)
  <2>1. finished' \in [Jobs -> Nat]
    <3>1. finished' = [finished EXCEPT ![job[w]] = @ + 1] /\ finished \in [Jobs -> Nat]
      BY <1>1 DEF WorkFunc, TypeOK
    <3>2. CASE job[w] \in Jobs
      BY <3>1, <3>2
    <3>3. CASE job[w] \notin Jobs
      BY <3>1, <3>3, Zenon
    <3>. QED BY <3>2, <3>3
  <2>2. worker' \in [Workers -> {"receive", "run", "return", "load", "store", "exited"}]
    BY <1>1 DEF WorkFunc, TypeOK
  <2>3. job' \in [Workers -> Jobs \cup {NoJob}]
    BY <1>1 DEF WorkFunc, TypeOK
  <2>. QED BY <1>1, <2>1, <2>2, <2>3 DEF WorkFunc, TypeOK
<1>2. CASE Return(w)
  <2>1. workerQueue' \in Seq(Workers) /\ Len(workerQueue') <= count
    BY <1>2, AppendProperties, LenProperties, CountIsNat DEF Return, TypeOK
  <2>. QED BY <1>2, <2>1 DEF Return, TypeOK
<1>3. CASE ExitLoad(w) \/ ExitStore(w)
  <2>1. wtmp' \in [Workers -> Int] /\ workerPoolCount' \in Int
    BY <1>3 DEF ExitLoad, ExitStore, TypeOK
  <2>2. worker' \in [Workers -> {"receive", "run", "return", "load", "store", "exited"}]
    BY <1>3 DEF ExitLoad, ExitStore, TypeOK
  <2>. QED BY <1>3, <2>1, <2>2 DEF ExitLoad, ExitStore, TypeOK
<1>. QED BY <1>1, <1>2, <1>3 DEF Work

\* Every step of the dispatcher, its workers and its callers keeps the types.
LEMMA NextType == TypeOK /\ [Next]_vars => TypeOK'
<1> SUFFICES ASSUME TypeOK, [Next]_vars PROVE TypeOK'
  OBVIOUS
<1> USE DEF jobVars, poolVars, dispatcherVars, workerVars
<1>1. ASSUME NEW j \in Jobs, Send(j) PROVE TypeOK'
  <2>1. JobQueue' \in Seq(Jobs) /\ Len(JobQueue') <= MaxQueue
    BY <1>1, AppendProperties, LenProperties, ConstantsAssumption
    DEF Send, HasRoom, TypeOK
  <2>. QED BY <1>1, <2>1 DEF Send, TypeOK
<1>2. CASE Close \/ UNCHANGED vars
  BY <1>2 DEF Close, vars, TypeOK
<1>. QED BY <1>1, <1>2, RunType, WorkType DEF Next

\* Every variable keeps its type, JobQueue holds at most MaxQueue jobs, and
\* workerQueue at most as many workers as the pool has.
THEOREM TypeCorrect == Spec => []TypeOK
BY InitType, NextType, PTL DEF Spec

----------------------------------------------------------------------------
(* A round of assignmentTask                                                *)

Paired == {Chosen(i) : i \in 1 .. Pairs}

Started == {jobSlice[i] : i \in 1 .. Pairs}

\* It takes the paired workers out of workerPool and the started jobs out of
\* jobSlice.
LEMMA AssignmentTakes ==
  ASSUME TypeOK, Once(workerPool), Once(jobSlice), assignmentTask
  PROVE  /\ Once(workerPool') /\ Once(jobSlice')
         /\ Paired \subseteq Range(workerPool)
         /\ Range(workerPool') = Range(workerPool) \ Paired
         /\ Started \subseteq Range(jobSlice)
         /\ Range(jobSlice') = Range(jobSlice) \ Started
<1> DEFINE n == Len(workerPool)
           m == Len(jobSlice)
<1>1. /\ Pairs \in Nat /\ Pairs <= m /\ Pairs <= n /\ m \in Nat /\ n \in Nat
      /\ workerPool \in Seq(Workers) /\ jobSlice \in Seq(Jobs)
  BY PairsAreInRange DEF TypeOK
<1>2. /\ Range(workerPool) = {workerPool[i] : i \in 1 .. n}
      /\ Range(jobSlice) = {jobSlice[i] : i \in 1 .. m}
  BY <1>1, RangeEquality
<1>3. /\ Once(workerPool')
      /\ Range(workerPool') = {workerPool[i] : i \in 1 .. n - Pairs}
  <2>1. n - Pairs \in 0 .. n /\ 1 \in 1 .. n + 1
    BY <1>1
  <2>. QED BY <1>1, <2>1, SubSeqLists DEF assignmentTask, WorkersLeft
<1>4. /\ Once(jobSlice')
      /\ Range(jobSlice') = {jobSlice[i] : i \in Pairs + 1 .. m}
  <2>1. m \in 0 .. m /\ Pairs + 1 \in 1 .. m + 1
    BY <1>1
  <2>. QED BY <1>1, <2>1, SubSeqLists DEF assignmentTask, JobsLeft
<1>5. Paired = {workerPool[i] : i \in n - Pairs + 1 .. n}
  <2>1. CASE m >= n
    <3>1. Pairs = n /\ \A i \in 1 .. Pairs : Chosen(i) = workerPool[i]
      BY <1>1, <2>1 DEF Pairs, Chosen
    <3>2. n - Pairs + 1 .. n = 1 .. Pairs
      BY <1>1, <3>1
    <3>. QED BY <3>1, <3>2 DEF Paired
  <2>2. CASE ~(m >= n)
    <3>1. \A i \in 1 .. Pairs : /\ Chosen(i) = workerPool[n + 1 - i]
                                /\ n + 1 - i \in n - Pairs + 1 .. n
      BY <1>1, <2>2 DEF Chosen
    <3>2. \A i \in n - Pairs + 1 .. n :
             n + 1 - i \in 1 .. Pairs /\ n + 1 - (n + 1 - i) = i
      BY <1>1
    <3>3. \A i \in n - Pairs + 1 .. n : workerPool[i] \in Paired
      BY <3>1, <3>2 DEF Paired
    <3>4. \A i \in 1 .. Pairs : Chosen(i) \in {workerPool[k] : k \in n - Pairs + 1 .. n}
      BY <3>1
    <3>. QED BY <3>3, <3>4 DEF Paired
  <2>. QED BY <2>1, <2>2
<1>6. /\ Paired \subseteq Range(workerPool)
      /\ Range(workerPool') = Range(workerPool) \ Paired
  <2>1. \A i \in 1 .. n : i \in 1 .. n - Pairs \/ i \in n - Pairs + 1 .. n
    BY <1>1
  <2>2. \A i \in 1 .. n - Pairs : \A k \in n - Pairs + 1 .. n :
          i \in 1 .. n /\ k \in 1 .. n /\ i # k
    BY <1>1
  <2>3. \A k \in n - Pairs + 1 .. n : k \in 1 .. n
    BY <1>1
  <2>4. \A i \in 1 .. n - Pairs : i \in 1 .. n
    BY <1>1
  <2>. QED BY <1>2, <1>3, <1>5, <2>1, <2>2, <2>3, <2>4 DEF Once
<1>7. /\ Started \subseteq Range(jobSlice)
      /\ Range(jobSlice') = Range(jobSlice) \ Started
  <2>1. \A i \in 1 .. m : i \in 1 .. Pairs \/ i \in Pairs + 1 .. m
    BY <1>1
  <2>2. \A i \in 1 .. Pairs : \A k \in Pairs + 1 .. m :
          i \in 1 .. m /\ k \in 1 .. m /\ i # k
    BY <1>1
  <2>3. \A k \in Pairs + 1 .. m : k \in 1 .. m
    BY <1>1
  <2>4. \A i \in 1 .. Pairs : i \in 1 .. m
    BY <1>1
  <2>. QED BY <1>2, <1>4, <2>1, <2>2, <2>3, <2>4 DEF Once, Started
<1>. QED BY <1>3, <1>4, <1>6, <1>7

\* It gives every paired worker a started job of its own and leaves the others
\* alone.
LEMMA AssignmentGives ==
  ASSUME TypeOK, Once(workerPool), Once(jobSlice), assignmentTask
  PROVE  /\ \A w \in Paired : /\ worker[w] = "receive" /\ worker'[w] = "run"
                              /\ job'[w] \in Started
         /\ \A w \in Workers \ Paired : worker'[w] = worker[w] /\ job'[w] = job[w]
         /\ \A j \in Started : \E w \in Paired : job'[w] = j
         /\ \A v, w \in Paired : job'[v] = job'[w] => v = w
<1> DEFINE n == Len(workerPool)
           m == Len(jobSlice)
<1>1. /\ Pairs \in Nat /\ Pairs <= m /\ Pairs <= n /\ m \in Nat /\ n \in Nat
      /\ \A i \in 1 .. Pairs : Chosen(i) \in Workers
  BY PairsAreInRange
<1>2. \A i, k \in 1 .. Pairs : Chosen(i) = Chosen(k) => i = k
  <2>1. CASE m >= n
    BY <1>1, <2>1 DEF Chosen, Once
  <2>2. CASE ~(m >= n)
    <3>1. \A i \in 1 .. Pairs : Chosen(i) = workerPool[n + 1 - i] /\ n + 1 - i \in 1 .. n
      BY <1>1, <2>2 DEF Chosen
    <3>2. \A i, k \in 1 .. Pairs : n + 1 - i = n + 1 - k => i = k
      BY <1>1
    <3>. QED BY <3>1, <3>2 DEF Once
  <2>. QED BY <2>1, <2>2
<1>3. \A i \in 1 .. Pairs : /\ worker[Chosen(i)] = "receive"
                            /\ worker'[Chosen(i)] = "run"
                            /\ job'[Chosen(i)] = jobSlice[i]
  <2> SUFFICES ASSUME NEW i \in 1 .. Pairs
               PROVE  /\ worker[Chosen(i)] = "receive"
                      /\ worker'[Chosen(i)] = "run"
                      /\ job'[Chosen(i)] = jobSlice[i]
    OBVIOUS
  <2>1. (CHOOSE k \in 1 .. Pairs : Chosen(k) = Chosen(i)) = i
    BY <1>2
  <2>2. worker[Chosen(i)] = "receive" /\ worker'[Chosen(i)] = "run"
    BY <1>1 DEF assignmentTask
  <2>3. job'[Chosen(i)] = jobSlice[CHOOSE k \in 1 .. Pairs : Chosen(k) = Chosen(i)]
    BY <1>1 DEF assignmentTask
  <2>. QED BY <2>1, <2>2, <2>3
<1>4. \A w \in Workers \ Paired : worker'[w] = worker[w] /\ job'[w] = job[w]
  BY DEF assignmentTask, Paired
<1>5. \A i, k \in 1 .. Pairs : jobSlice[i] = jobSlice[k] => i = k
  BY <1>1 DEF Once
<1>. QED BY <1>3, <1>4, <1>5 DEF Paired, Started

----------------------------------------------------------------------------
(* Idle workers                                                             *)

Receiving == {w \in Workers : worker[w] = "receive"}

\* workerPool and workerQueue share out the workers that wait on their jobChan.
IdleLists ==
  /\ Once(workerPool) /\ Once(workerQueue)
  /\ Range(workerPool) \cap Range(workerQueue) = {}
  /\ Range(workerPool) \cup Range(workerQueue) = Receiving

\* Every worker starts in workerPool.
LEMMA InitIdle == Init => IdleLists
<1> SUFFICES ASSUME Init PROVE IdleLists
  OBVIOUS
<1>1. /\ Once(workerPool) /\ Range(workerPool) = Workers
      /\ Receiving = Workers
  BY SetToSeqLists, ConstantsAssumption DEF Init, Receiving
<1>2. Once(workerQueue) /\ Range(workerQueue) = {}
  BY DEF Init, Once, Range
<1>. QED BY <1>1, <1>2 DEF IdleLists

\* Dismissing a listed worker takes it off the workers that wait.
LEMMA DismissReceiving ==
  ASSUME TypeOK, NEW w \in Workers, Dismiss(w)
  PROVE  Receiving' = Receiving \ {w}
BY DEF Dismiss, Receiving, TypeOK

\* The dispatcher's steps keep the idle lists.
LEMMA RunIdle ==
  ASSUME TypeOK, IdleLists, Once(jobSlice),
         TakeWorker \/ TakeJob \/ Tick \/ Stop \/ Shutdown
  PROVE  IdleLists'
<1> USE DEF IdleLists, jobVars, poolVars, dispatcherVars, workerVars
<1>0. workerPool \in Seq(Workers) /\ workerQueue \in Seq(Workers)
  BY DEF TypeOK
<1>1. CASE TakeWorker
  <2>1. Receiving' = Receiving
    BY <1>1 DEF TakeWorker, Receiving
  <2>2. /\ Head(workerQueue) \in Range(workerQueue)
        /\ Once(workerQueue') /\ Range(workerQueue') = Range(workerQueue) \ {Head(workerQueue)}
    BY <1>0, <1>1, TailLists DEF TakeWorker
  <2>3. Head(workerQueue) \in Workers /\ Head(workerQueue) \notin Range(workerPool)
    BY <1>0, <1>1, <2>2, HeadTailProperties DEF TakeWorker
  <2>4. /\ Once(workerPool')
        /\ Range(workerPool') = Range(workerPool) \cup {Head(workerQueue)}
    BY <1>0, <1>1, <2>3, AppendLists DEF TakeWorker
  <2>. QED BY <2>1, <2>2, <2>3, <2>4
<1>2. CASE Tick \/ Drain
  <2>1. assignmentTask
    BY <1>2 DEF Tick, Drain
  <2>2. Receiving' = Receiving \ Paired
    <3>1. Paired \subseteq Workers
      BY <2>1, AssignmentTakes DEF Receiving
    <3>. QED BY <2>1, <3>1, AssignmentGives DEF Receiving
  <2>3. UNCHANGED workerQueue
    BY <2>1 DEF assignmentTask
  <2>. QED BY <2>1, <2>2, <2>3, AssignmentTakes
<1>3. CASE PoolNil
  <2>1. Head(workerPool) \in Range(workerPool)
        /\ Once(workerPool') /\ Range(workerPool') = Range(workerPool) \ {Head(workerPool)}
    BY <1>0, <1>3, TailLists DEF PoolNil
  <2>2. Receiving' = Receiving \ {Head(workerPool)}
    BY <1>0, <1>3, DismissReceiving, HeadTailProperties DEF PoolNil
  <2>3. UNCHANGED workerQueue
    BY <1>3 DEF PoolNil
  <2>. QED BY <2>1, <2>2, <2>3
<1>4. CASE QueueNil
  <2>1. Head(workerQueue) \in Range(workerQueue)
        /\ Once(workerQueue') /\ Range(workerQueue') = Range(workerQueue) \ {Head(workerQueue)}
    BY <1>0, <1>4, TailLists DEF QueueNil
  <2>2. Receiving' = Receiving \ {Head(workerQueue)}
    BY <1>0, <1>4, DismissReceiving, HeadTailProperties DEF QueueNil
  <2>3. UNCHANGED workerPool
    BY <1>4 DEF QueueNil
  <2>. QED BY <2>1, <2>2, <2>3
<1>5. CASE UNCHANGED <<workerPool, workerQueue, worker>>
  BY <1>5 DEF Receiving
<1>. QED BY <1>1, <1>2, <1>3, <1>4, <1>5
         DEF Shutdown, TakeJob, Stop, DrainEnd, PoolEnd, QueueEnd, WaitEnd,
             CountLoad, CountStore

\* A worker lists itself before it waits, and only then.
LEMMA WorkIdle ==
  ASSUME TypeOK, IdleLists, NEW w \in Workers, Work(w)
  PROVE  IdleLists'
<1> USE DEF IdleLists, jobVars, poolVars, dispatcherVars, workerVars
<1>1. CASE Return(w)
  <2>1. Receiving' = Receiving \cup {w} /\ w \notin Receiving
    BY <1>1 DEF Return, Receiving, TypeOK
  <2>2. Once(workerQueue') /\ Range(workerQueue') = Range(workerQueue) \cup {w}
    BY <1>1, <2>1, AppendLists DEF Return, TypeOK
  <2>3. UNCHANGED workerPool
    BY <1>1 DEF Return
  <2>. QED BY <2>1, <2>2, <2>3
<1>2. CASE WorkFunc(w) \/ ExitLoad(w) \/ ExitStore(w)
  <2>1. Receiving' = Receiving
    BY <1>2 DEF WorkFunc, ExitLoad, ExitStore, Receiving, TypeOK
  <2>2. UNCHANGED <<workerPool, workerQueue>>
    BY <1>2 DEF WorkFunc, ExitLoad, ExitStore
  <2>. QED BY <2>1, <2>2
<1>. QED BY <1>1, <1>2 DEF Work

\* Every step keeps the idle lists.
LEMMA NextIdle ==
  ASSUME TypeOK, IdleLists, Once(jobSlice), [Next]_vars
  PROVE  IdleLists'
<1>1. CASE (\E j \in Jobs : Send(j)) \/ Close \/ UNCHANGED vars
  <2>1. UNCHANGED <<workerPool, workerQueue, worker>>
    BY <1>1 DEF Send, Close, vars, poolVars, workerVars
  <2>. QED BY <2>1 DEF IdleLists, Receiving
<1>. QED BY <1>1, RunIdle, WorkIdle DEF Next

\* A list that lists each worker once has one index for a worker it lists and
\* none for another.
LEMMA OccurrencesOnce ==
  ASSUME NEW s \in Seq(Workers), Once(s), NEW w \in Workers
  PROVE  Occurrences(w, s) = IF w \in Range(s) THEN 1 ELSE 0
<1> DEFINE at == {i \in DOMAIN s : s[i] = w}
<1>1. DOMAIN s = 1 .. Len(s) /\ Range(s) = {s[i] : i \in 1 .. Len(s)}
  BY LenProperties, RangeEquality
<1>2. CASE w \in Range(s)
  <2>1. PICK i \in 1 .. Len(s) : s[i] = w
    BY <1>1, <1>2
  <2>2. at = {i}
    BY <1>1, <2>1 DEF Once
  <2>. QED BY <1>2, <2>2, FS_Singleton DEF Occurrences
<1>3. CASE w \notin Range(s)
  <2>1. at = {}
    BY <1>1, <1>3
  <2>. QED BY <1>3, <2>1, FS_EmptySet DEF Occurrences
<1>. QED BY <1>2, <1>3

\* IdleListedOnce counts what IdleLists says of the lists.
LEMMA IdleListsCount == TypeOK /\ IdleLists => IdleListedOnce
<1> SUFFICES ASSUME TypeOK, IdleLists, NEW w \in Workers
             PROVE  Occurrences(w, workerPool) + Occurrences(w, workerQueue) =
                      IF worker[w] = "receive" THEN 1 ELSE 0
  BY DEF IdleListedOnce
<1>1. Occurrences(w, workerPool) = IF w \in Range(workerPool) THEN 1 ELSE 0
  BY OccurrencesOnce DEF TypeOK, IdleLists
<1>2. Occurrences(w, workerQueue) = IF w \in Range(workerQueue) THEN 1 ELSE 0
  BY OccurrencesOnce DEF TypeOK, IdleLists
<1>3. worker[w] = "receive" <=> w \in Range(workerPool) \cup Range(workerQueue)
  BY DEF IdleLists, Receiving
<1>4. ~(w \in Range(workerPool) /\ w \in Range(workerQueue))
  BY DEF IdleLists
<1>. QED BY <1>1, <1>2, <1>3, <1>4

----------------------------------------------------------------------------
(* Jobs                                                                     *)

Held == {j \in Jobs : \E w \in Workers : job[w] = j}

Ended == {j \in Jobs : finished[j] > 0}

\* Every job that was sent is in exactly one place: in JobQueue, in jobSlice,
\* with one worker that runs it, or ended, and then once.
JobPlaces ==
  /\ sent = Range(JobQueue) \cup Range(jobSlice) \cup Held \cup Ended
  /\ Range(JobQueue) \cap Range(jobSlice) = {}
  /\ (Range(JobQueue) \cup Range(jobSlice)) \cap (Held \cup Ended) = {}
  /\ Held \cap Ended = {}
  /\ Once(JobQueue) /\ Once(jobSlice)
  /\ \A w \in Workers : job[w] # NoJob <=> worker[w] = "run"
  /\ \A v, w \in Workers : job[v] = job[w] /\ job[v] # NoJob => v = w
  /\ \A j \in Jobs : finished[j] <= 1

\* Before the first call no job is anywhere.
LEMMA InitPlaces == Init => JobPlaces
<1> SUFFICES ASSUME Init PROVE JobPlaces
  OBVIOUS
<1>1. /\ Range(JobQueue) = {} /\ Range(jobSlice) = {}
      /\ Once(JobQueue) /\ Once(jobSlice)
  BY DEF Init, Once, Range
<1>2. Held = {} /\ Ended = {}
  BY ConstantsAssumption DEF Init, Held, Ended
<1>3. \A w \in Workers : job[w] = NoJob /\ worker[w] = "receive"
  BY DEF Init
<1>4. sent = {} /\ \A j \in Jobs : finished[j] <= 1
  BY DEF Init
<1>. QED BY <1>1, <1>2, <1>3, <1>4 DEF JobPlaces

\* A round of assignmentTask moves the started jobs from jobSlice to workers.
LEMMA AssignmentPlaces ==
  ASSUME TypeOK, IdleLists, JobPlaces, assignmentTask
  PROVE  /\ JobPlaces'
         /\ Held' = Held \cup Started /\ Ended' = Ended /\ sent' = sent
<1>0. Once(workerPool) /\ Once(jobSlice)
  BY DEF IdleLists, JobPlaces
<1>1. /\ Paired \subseteq Workers
      /\ Once(jobSlice')
      /\ Started \subseteq Range(jobSlice)
      /\ Range(jobSlice') = Range(jobSlice) \ Started
  BY <1>0, AssignmentTakes, RangeOfSeq DEF TypeOK
<1>2. /\ \A w \in Paired : /\ worker[w] = "receive" /\ worker'[w] = "run"
                           /\ job'[w] \in Started
      /\ \A w \in Workers \ Paired : worker'[w] = worker[w] /\ job'[w] = job[w]
      /\ \A j \in Started : \E w \in Paired : job'[w] = j
      /\ \A v, w \in Paired : job'[v] = job'[w] => v = w
  BY <1>0, AssignmentGives
<1>3. Started \subseteq Jobs /\ NoJob \notin Started
  BY <1>1, RangeOfSeq, ConstantsAssumption DEF TypeOK
<1>4. UNCHANGED <<sent, finished, JobQueue>>
  BY DEF assignmentTask
<1>5. Held' = Held \cup Started
  <2>1. ASSUME NEW j \in Held PROVE j \in Held'
    <3>1. PICK w \in Workers : job[w] = j
      BY DEF Held
    <3>2. j # NoJob
      BY ConstantsAssumption DEF Held
    <3>3. worker[w] = "run"
      BY <3>1, <3>2 DEF JobPlaces
    <3>4. job'[w] = j
      BY <1>2, <3>1, <3>3
    <3>. QED BY <3>4 DEF Held
  <2>2. Started \subseteq Held'
    BY <1>1, <1>2, <1>3 DEF Held
  <2>3. ASSUME NEW j \in Held' PROVE j \in Held \cup Started
    BY <1>2 DEF Held
  <2>. QED BY <2>1, <2>2, <2>3
<1>6. Ended' = Ended
  BY <1>4 DEF Ended
<1>7. /\ sent' = Range(JobQueue') \cup Range(jobSlice') \cup Held' \cup Ended'
      /\ Range(JobQueue') \cap Range(jobSlice') = {}
      /\ (Range(JobQueue') \cup Range(jobSlice')) \cap (Held' \cup Ended') = {}
      /\ Held' \cap Ended' = {}
  BY <1>1, <1>4, <1>5, <1>6 DEF JobPlaces
<1>8. \A w \in Workers : job'[w] # NoJob <=> worker'[w] = "run"
  BY <1>2, <1>3 DEF JobPlaces
<1>9. \A v, w \in Workers : job'[v] = job'[w] /\ job'[v] # NoJob => v = w
  <2>1. \A w \in Workers : job[w] \notin Started
    BY <1>1, <1>3 DEF JobPlaces, Held
  <2>. QED BY <1>2, <2>1 DEF JobPlaces
<1>. QED BY <1>1, <1>4, <1>5, <1>6, <1>7, <1>8, <1>9 DEF JobPlaces

\* WorkFunc ends the job its worker holds, for the first time.
LEMMA WorkFuncPlaces ==
  ASSUME TypeOK, JobPlaces, NEW w \in Workers, WorkFunc(w)
  PROVE  /\ JobPlaces'
         /\ job[w] \in Held /\ Held' = Held \ {job[w]}
         /\ Ended' = Ended \cup {job[w]} /\ sent' = sent
<1>1. /\ worker[w] = "run"
      /\ finished' = [finished EXCEPT ![job[w]] = @ + 1]
      /\ job' = [job EXCEPT ![w] = NoJob]
      /\ UNCHANGED <<sent, JobQueue, jobSlice>>
  BY DEF WorkFunc
<1>2. job[w] \in Jobs /\ job[w] \in Held /\ job[w] \notin Ended
  BY <1>1 DEF JobPlaces, Held, TypeOK
<1>3. finished[job[w]] = 0
  BY <1>2 DEF Ended, TypeOK
<1>4. \A j \in Jobs : finished'[j] = IF j = job[w] THEN 1 ELSE finished[j]
  BY <1>1, <1>2, <1>3 DEF TypeOK
<1>5. Ended' = Ended \cup {job[w]}
  BY <1>2, <1>4 DEF Ended
<1>6. \A v \in Workers : job'[v] = IF v = w THEN NoJob ELSE job[v]
  BY <1>1 DEF TypeOK
<1>7. Held' = Held \ {job[w]}
  <2>1. NoJob \notin Jobs
    BY ConstantsAssumption
  <2>2. \A v \in Workers : job[v] = job[w] => v = w
    BY <1>2, <2>1 DEF JobPlaces
  <2>. QED BY <1>6, <2>1, <2>2 DEF Held
<1>8. /\ sent' = Range(JobQueue') \cup Range(jobSlice') \cup Held' \cup Ended'
      /\ (Range(JobQueue') \cup Range(jobSlice')) \cap (Held' \cup Ended') = {}
      /\ Held' \cap Ended' = {}
  BY <1>1, <1>2, <1>5, <1>7 DEF JobPlaces
<1>9. \A v \in Workers : worker'[v] = "run" <=> v # w /\ worker[v] = "run"
  BY DEF WorkFunc, TypeOK
<1>10. /\ \A v \in Workers : job'[v] # NoJob <=> worker'[v] = "run"
       /\ \A u, v \in Workers : job'[u] = job'[v] /\ job'[u] # NoJob => u = v
  BY <1>6, <1>9 DEF JobPlaces
<1>11. \A j \in Jobs : finished'[j] <= 1
  BY <1>4 DEF JobPlaces
<1>. QED BY <1>1, <1>2, <1>5, <1>7, <1>8, <1>10, <1>11 DEF JobPlaces

\* A job that was not sent before goes into JobQueue.
LEMMA SendPlaces ==
  ASSUME TypeOK, JobPlaces, NEW j \in Jobs, Send(j)
  PROVE  JobPlaces' /\ Held' = Held /\ Ended' = Ended
<1>1. /\ j \notin sent /\ sent' = sent \cup {j} /\ JobQueue' = Append(JobQueue, j)
      /\ UNCHANGED <<finished, jobSlice, worker, job>>
  BY DEF Send, workerVars
<1>2. Held' = Held /\ Ended' = Ended
  BY <1>1 DEF Held, Ended
<1>3. Once(JobQueue') /\ Range(JobQueue') = Range(JobQueue) \cup {j}
  BY <1>1, AppendLists DEF JobPlaces, TypeOK
<1>. QED BY <1>1, <1>2, <1>3 DEF JobPlaces

\* The dispatcher moves the head of JobQueue to the end of jobSlice.
LEMMA TakeJobPlaces ==
  ASSUME TypeOK, JobPlaces, TakeJob
  PROVE  JobPlaces'
<1>1. /\ JobQueue # <<>> /\ JobQueue' = Tail(JobQueue)
      /\ jobSlice' = Append(jobSlice, Head(JobQueue))
      /\ UNCHANGED <<sent, finished, worker, job>>
      /\ JobQueue \in Seq(Jobs) /\ jobSlice \in Seq(Jobs)
  BY DEF TakeJob, workerVars, TypeOK
<1>2. Held' = Held /\ Ended' = Ended
  BY <1>1 DEF Held, Ended
<1>3. /\ Head(JobQueue) \in Range(JobQueue) /\ Head(JobQueue) \in Jobs
      /\ Once(JobQueue') /\ Range(JobQueue') = Range(JobQueue) \ {Head(JobQueue)}
  BY <1>1, TailLists, HeadTailProperties DEF JobPlaces
<1>4. /\ Once(jobSlice')
      /\ Range(jobSlice') = Range(jobSlice) \cup {Head(JobQueue)}
  BY <1>1, <1>3, AppendLists DEF JobPlaces
<1>. QED BY <1>1, <1>2, <1>3, <1>4 DEF JobPlaces

\* The steps that neither move a job nor start or end one.
Idles ==
  /\ UNCHANGED <<jobVars, job>>
  /\ \A w \in Workers : worker'[w] = "run" <=> worker[w] = "run"

\* A step that moves no job keeps every job in its place.
LEMMA IdlesPlaces ==
  ASSUME JobPlaces, Idles
  PROVE  JobPlaces' /\ Held' = Held /\ Ended' = Ended
<1>1. UNCHANGED <<sent, finished, JobQueue, jobSlice, job>>
  BY DEF Idles, jobVars
<1>2. Held' = Held /\ Ended' = Ended
  BY <1>1 DEF Held, Ended
<1>3. \A w \in Workers : worker'[w] = "run" <=> worker[w] = "run"
  BY DEF Idles
<1>. QED BY <1>1, <1>2, <1>3 DEF JobPlaces

\* Every step sends, takes, starts or ends jobs, or moves none.
LEMMA StepKinds ==
  ASSUME TypeOK, [Next]_vars
  PROVE  \/ \E j \in Jobs : Send(j)
         \/ TakeJob
         \/ assignmentTask
         \/ \E w \in Workers : WorkFunc(w)
         \/ Idles
<1> USE DEF poolVars, dispatcherVars, workerVars
<1>1. CASE UNCHANGED vars \/ Close
  BY <1>1 DEF vars, Close, Idles
<1>2. CASE TakeWorker \/ Stop
  BY <1>2 DEF TakeWorker, Stop, Idles
<1>3. CASE Tick
  BY <1>3 DEF Tick
<1>4. CASE Shutdown
  <2>1. CASE Drain
    BY <2>1 DEF Drain
  <2>2. CASE PoolNil
    BY <2>2 DEF PoolNil, Dismiss, Idles, TypeOK
  <2>3. CASE QueueNil
    BY <2>3 DEF QueueNil, Dismiss, Idles, TypeOK
  <2>4. CASE DrainEnd \/ PoolEnd \/ QueueEnd \/ CountLoad \/ CountStore \/ WaitEnd
    BY <2>4 DEF DrainEnd, PoolEnd, QueueEnd, CountLoad, CountStore, WaitEnd, Idles
  <2>. QED BY <1>4, <2>1, <2>2, <2>3, <2>4 DEF Shutdown
<1>5. ASSUME NEW w \in Workers, Return(w) \/ ExitLoad(w) \/ ExitStore(w) PROVE Idles
  BY <1>5 DEF Return, ExitLoad, ExitStore, Idles, TypeOK
<1>. QED BY <1>1, <1>2, <1>3, <1>4, <1>5 DEF Next, Work

\* The idle lists and the places of the jobs are an inductive invariant.
LEMMA NextPlaces == TypeOK /\ IdleLists /\ JobPlaces /\ [Next]_vars
                    => IdleLists' /\ JobPlaces'
<1> SUFFICES ASSUME TypeOK, IdleLists, JobPlaces, [Next]_vars
             PROVE  IdleLists' /\ JobPlaces'
  OBVIOUS
<1>1. IdleLists'
  BY NextIdle DEF JobPlaces
<1>2. JobPlaces'
  BY StepKinds, SendPlaces, TakeJobPlaces, AssignmentPlaces, WorkFuncPlaces,
     IdlesPlaces
<1>. QED BY <1>1, <1>2

\* Every job that Submit put into the channel is in exactly one place, in
\* JobQueue, in jobSlice, at one worker or ended, and its WorkFunc ends at most
\* once: the dispatcher loses no job and starts none twice.
THEOREM JobsAreKept == Spec => [](IdleLists /\ JobPlaces)
BY TypeCorrect, InitIdle, InitPlaces, NextPlaces, PTL DEF Spec

\* A worker is listed as idle exactly when it waits on its jobChan, and once, so
\* a send of assignmentTask never blocks and no worker gets two jobs.
THEOREM IdleIsListedOnce == Spec => []IdleListedOnce
BY TypeCorrect, JobsAreKept, IdleListsCount, PTL

----------------------------------------------------------------------------
(* The abstract pool                                                        *)

\* Each worker holds one job, so no more jobs run than the pool has workers.
LEMMA HeldBound == TypeOK => IsFiniteSet(Held) /\ Cardinality(Held) <= count
<1> SUFFICES ASSUME TypeOK PROVE IsFiniteSet(Held) /\ Cardinality(Held) <= count
  OBVIOUS
<1> DEFINE all == {job[w] : w \in Workers}
<1>1. job \in Surjection(Workers, all)
  BY DEF TypeOK, Surjection
<1>2. IsFiniteSet(all) /\ Cardinality(all) <= count
  BY <1>1, FS_Surjection, ConstantsAssumption DEF count
<1>3. Held \in SUBSET all
  BY DEF Held
<1>4. /\ IsFiniteSet(Held) /\ Cardinality(Held) <= Cardinality(all)
      /\ Cardinality(Held) \in Nat /\ Cardinality(all) \in Nat /\ count \in Nat
  BY <1>2, <1>3, FS_Subset, FS_CardinalityType, CountIsNat
<1>. QED BY <1>2, <1>4

\* The pool counts as the dispatcher does.
LEMMA PoolCardinality == \A S : Pool!Cardinality(S) = Cardinality(S)
BY DEF Pool!Cardinality, Cardinality

Waiting == {j \in sent : finished[j] = 0 /\ \A w \in Workers : job[w] # j}

\* What the pool calls waiting are the sent jobs no worker holds or has ended.
LEMMA WaitingAreTheRest == TypeOK => Waiting = sent \ (Held \cup Ended)
<1> SUFFICES ASSUME TypeOK PROVE Waiting = sent \ (Held \cup Ended)
  OBVIOUS
<1>1. \A j \in sent : j \in Jobs /\ finished[j] \in Nat
  BY DEF TypeOK
<1>2. \A j \in sent : finished[j] = 0 <=> j \notin Ended
  BY <1>1 DEF Ended
<1>3. \A j \in sent : (\A w \in Workers : job[w] # j) <=> j \notin Held
  BY <1>1 DEF Held
<1>. QED BY <1>2, <1>3 DEF Waiting

\* A step of the dispatcher is a step of the pool, or changes nothing of it.
LEMMA PoolStep ==
  ASSUME TypeOK, TypeOK', IdleLists, JobPlaces, [Next]_vars
  PROVE  [Pool!Next]_(Pool!vars)
<1>1. /\ Waiting = sent \ (Held \cup Ended)
      /\ Waiting' = sent' \ (Held' \cup Ended')
  <2>1. (TypeOK => Waiting = sent \ (Held \cup Ended))'
    BY WaitingAreTheRest, PTL
  <2>. QED BY <2>1, WaitingAreTheRest
<1> DEFINE A(j) == /\ j \notin Waiting \cup Held \cup Ended
                   /\ Waiting' = Waiting \cup {j}
                   /\ Held' = Held /\ Ended' = Ended
           S(J) == /\ J # {} /\ J \subseteq Waiting
                   /\ Cardinality(Held \cup J) <= count
                   /\ Waiting' = Waiting \ J
                   /\ Held' = Held \cup J /\ Ended' = Ended
           F(j) == /\ j \in Held /\ Held' = Held \ {j}
                   /\ Ended' = Ended \cup {j} /\ Waiting' = Waiting
<1>2. ASSUME NEW j \in Jobs, Send(j) PROVE A(j)
  <2>1. j \notin sent /\ sent' = sent \cup {j} /\ Held' = Held /\ Ended' = Ended
    BY <1>2, SendPlaces DEF Send
  <2>2. Held \subseteq sent /\ Ended \subseteq sent
    BY DEF JobPlaces
  <2>. QED BY <1>1, <2>1, <2>2
<1>3. ASSUME TakeJob PROVE UNCHANGED <<Waiting, Held, Ended>>
  BY <1>3 DEF TakeJob, workerVars, Waiting, Held, Ended
<1>4. ASSUME assignmentTask PROVE Started \in SUBSET Jobs /\ S(Started)
  <2>1. /\ Started \subseteq Range(jobSlice)
        /\ Held' = Held \cup Started /\ Ended' = Ended /\ sent' = sent
    BY <1>4, AssignmentTakes, AssignmentPlaces DEF IdleLists, JobPlaces
  <2>2. Started \subseteq Waiting /\ Started \subseteq Jobs
    BY <1>1, <2>1 DEF JobPlaces, TypeOK
  <2>3. Started # {}
    <3>1. 1 \in 1 .. Pairs
      BY <1>4, PairsAreInRange DEF assignmentTask
    <3>. QED BY <3>1 DEF Started
  <2>4. Cardinality(Held \cup Started) <= count
    <3>1. (TypeOK => IsFiniteSet(Held) /\ Cardinality(Held) <= count)'
      BY HeldBound, PTL
    <3>. QED BY <2>1, <3>1
  <2>. QED BY <1>1, <2>1, <2>2, <2>3, <2>4
<1>5. ASSUME NEW w \in Workers, WorkFunc(w) PROVE job[w] \in Jobs /\ F(job[w])
  <2>1. /\ job[w] \in Held /\ Held' = Held \ {job[w]}
        /\ Ended' = Ended \cup {job[w]} /\ sent' = sent
    BY <1>5, WorkFuncPlaces
  <2>. QED BY <1>1, <2>1 DEF Held
<1>6. ASSUME Idles PROVE UNCHANGED <<Waiting, Held, Ended>>
  BY <1>6 DEF Idles, jobVars, Waiting, Held, Ended
<1>7. \/ \E j \in Jobs : A(j)
      \/ \E J \in SUBSET Jobs : S(J)
      \/ \E j \in Jobs : F(j)
      \/ UNCHANGED <<Waiting, Held, Ended>>
  BY <1>2, <1>3, <1>4, <1>5, <1>6, StepKinds
<1>8. ASSUME NEW j \in Jobs, A(j) PROVE Pool!Accept(j)
  BY <1>8 DEF Pool!Accept, Waiting, Held, Ended
<1>9. ASSUME NEW J \in SUBSET Jobs, S(J) PROVE Pool!Start(J)
  BY <1>9, PoolCardinality DEF Pool!Start, Waiting, Held, Ended
<1>10. ASSUME NEW j \in Jobs, F(j) PROVE Pool!Finish(j)
  BY <1>10 DEF Pool!Finish, Waiting, Held, Ended
<1>11. ASSUME UNCHANGED <<Waiting, Held, Ended>> PROVE UNCHANGED Pool!vars
  BY <1>11 DEF Pool!vars, Waiting, Held, Ended
<1>. QED BY <1>7, <1>8, <1>9, <1>10, <1>11 DEF Pool!Next

\* The dispatcher implements the abstract pool: a job that was accepted is
\* started at most once, never more of them run at a time than there are
\* workers, and none runs that was not accepted.
THEOREM DispatcherImplementsPool == Spec => ImplementsPool
<1>1. Init => Pool!Init
  <2> SUFFICES ASSUME Init PROVE Pool!Init
    OBVIOUS
  <2>1. Held = {} /\ Ended = {} /\ sent = {}
    BY ConstantsAssumption DEF Init, Held, Ended
  <2>. QED BY <2>1 DEF Pool!Init, Held, Ended
<1>2. /\ TypeOK /\ TypeOK' /\ IdleLists /\ JobPlaces /\ [Next]_vars
      => [Pool!Next]_(Pool!vars)
  BY PoolStep
<1>. QED BY <1>1, <1>2, TypeCorrect, JobsAreKept, PTL
         DEF Spec, ImplementsPool, Pool!Spec
=============================================================================
