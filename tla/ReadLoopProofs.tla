---------------------------- MODULE ReadLoopProofs ----------------------------
(****************************************************************************)
(* Theorems about the read loops and the Limiter, for any connections, any  *)
(* streams of frames, any buffers and any limits.                           *)
(****************************************************************************)
EXTENDS ReadLoop, FiniteSetTheorems, SequenceTheorems, WellFoundedInduction, TLAPS

----------------------------------------------------------------------------
(* Where a frame begins: the fold of Offset adds up the lengths             *)

\* A non-empty set of naturals has a least element.
LEMMA LeastNat ==
  ASSUME NEW T, T \subseteq Nat, T # {}
  PROVE  \E x \in T : \A y \in T : x <= y
<1>1. PICK x \in T : \A y \in T : ~(<<y, x>> \in OpToRel(<, Nat))
  BY NatLessThanWellFounded, WFMin
<1>2. \A y \in T : ~(y < x)
  BY <1>1 DEF OpToRel
<1>. QED BY <1>2

\* A non-empty set of some of the first n indices has a greatest.
LEMMA GreatestIndex ==
  ASSUME NEW n \in Nat, NEW T \in SUBSET (1 .. n), T # {}
  PROVE  Max(T) \in T /\ \A y \in T : y <= Max(T)
<1> DEFINE B == {n - x : x \in T}
<1>0. \A x \in T : x \in Nat /\ x <= n /\ n - x \in Nat
  OBVIOUS
<1>1. B \subseteq Nat /\ B # {}
  BY <1>0
<1>2. PICK b \in B : \A y \in B : b <= y
  BY <1>1, LeastNat
<1>3. PICK g \in T : b = n - g
  BY <1>2
<1>4. \A y \in T : g >= y
  <2> SUFFICES ASSUME NEW y \in T PROVE g >= y
    OBVIOUS
  <2>1. n - g <= n - y
    BY <1>2, <1>3
  <2>. QED BY <1>0, <2>1
<1>5. Max(T) \in T /\ \A y \in T : Max(T) >= y
  <2> HIDE DEF B
  <2>. QED BY <1>4 DEF Max
<1>. QED BY <1>0, <1>5

\* What a fold from the left computes on the way, when it adds the weights l.
FoldOf(f, n, l) ==
  f = [T \in SUBSET (1 .. n) |-> IF T = {} THEN 0 ELSE f[T \ {Max(T)}] + l[Max(T)]]

\* There is such a fold.
LEMMA FoldExists ==
  ASSUME NEW n \in Nat, NEW l
  PROVE  \E f : FoldOf(f, n, l)
<1> DEFINE Sets == SUBSET (1 .. n)
           UpTo(f, m) ==
             /\ f \in [Sets -> {f[T] : T \in Sets}]
             /\ \A T \in Sets : Cardinality(T) <= m =>
                  f[T] = IF T = {} THEN 0 ELSE f[T \ {Max(T)}] + l[Max(T)]
           Bad == {m \in Nat : ~ \E f : UpTo(f, m)}
<1>0. /\ \A T \in Sets : Cardinality(T) \in Nat /\ Cardinality(T) <= n
      /\ \A T \in Sets : Cardinality(T) = 0 <=> T = {}
      /\ \A T \in Sets : T # {} => /\ T \ {Max(T)} \in Sets
                                   /\ Cardinality(T \ {Max(T)}) = Cardinality(T) - 1
  <2>1. IsFiniteSet(1 .. n) /\ Cardinality(1 .. n) = n
    <3>1. 1 \in Int /\ n \in Int
      OBVIOUS
    <3>. QED BY <3>1, FS_Interval
  <2>2. \A T \in Sets : IsFiniteSet(T) /\ Cardinality(T) \in Nat /\ Cardinality(T) <= n
    BY <2>1, FS_Subset, FS_CardinalityType
  <2>3. \A T \in Sets : Cardinality(T) = 0 <=> T = {}
    BY <2>2, FS_EmptySet
  <2>4. ASSUME NEW T \in Sets, T # {}
        PROVE  T \ {Max(T)} \in Sets /\ Cardinality(T \ {Max(T)}) = Cardinality(T) - 1
    <3>1. Max(T) \in T
      BY <2>4, GreatestIndex
    <3>. QED BY <2>2, <3>1, FS_RemoveElement
  <2>. QED BY <2>2, <2>3, <2>4
<1> HIDE DEF Sets
<1>1. Bad = {}
  <2> SUFFICES ASSUME Bad # {} PROVE FALSE
    OBVIOUS
  <2>1. PICK m \in Bad : \A k \in Bad : m <= k
    BY LeastNat
  <2>2. m \in Nat /\ ~ \E f : UpTo(f, m)
    BY <2>1
  <2>3. m # 0
    <3> SUFFICES ASSUME m = 0 PROVE FALSE
      OBVIOUS
    <3> DEFINE f == [T \in Sets |-> 0]
    <3>1. \A T \in Sets : Cardinality(T) <= 0 => T = {}
      BY <1>0
    <3>2. f \in [Sets -> {f[T] : T \in Sets}]
      OBVIOUS
    <3>3. \A T \in Sets : f[T] = 0
      OBVIOUS
    <3>4. UpTo(f, 0)
      <4> HIDE DEF f
      <4>. QED BY <3>1, <3>2, <3>3
    <3>. QED BY <2>2, <3>4
  <2>4. m - 1 \in Nat /\ m - 1 \notin Bad
    <3> HIDE DEF Bad
    <3>. QED BY <2>1, <2>2, <2>3
  <2>5. PICK f : UpTo(f, m - 1)
    BY <2>4
  <2> DEFINE g == [T \in Sets |-> IF Cardinality(T) <= m - 1 THEN f[T]
                                  ELSE f[T \ {Max(T)}] + l[Max(T)]]
  <2>6. g \in [Sets -> {g[T] : T \in Sets}]
    OBVIOUS
  <2>7. ASSUME NEW T \in Sets, Cardinality(T) <= m
        PROVE  g[T] = IF T = {} THEN 0 ELSE g[T \ {Max(T)}] + l[Max(T)]
    <3>1. CASE T = {}
      <4>1. Cardinality(T) <= m - 1
        BY <1>0, <2>4, <3>1
      <4>. QED BY <2>5, <3>1, <4>1
    <3>2. CASE T # {}
      <4>1. /\ T \ {Max(T)} \in Sets /\ Cardinality(T \ {Max(T)}) <= m - 1
            /\ Cardinality(T) \in Nat
        BY <1>0, <2>2, <2>7, <3>2
      <4>2. g[T \ {Max(T)}] = f[T \ {Max(T)}]
        BY <4>1
      <4>3. CASE Cardinality(T) <= m - 1
        BY <2>5, <3>2, <4>2, <4>3
      <4>4. CASE ~(Cardinality(T) <= m - 1)
        BY <3>2, <4>2, <4>4
      <4>. QED BY <4>3, <4>4
    <3>. QED BY <3>1, <3>2
  <2>8. UpTo(g, m)
    <3> HIDE DEF g
    <3>. QED BY <2>6, <2>7
  <2>. QED BY <2>2, <2>8
<1>2. PICK f : UpTo(f, n)
  BY <1>1
<1>3. f = [T \in Sets |-> IF T = {} THEN 0 ELSE f[T \ {Max(T)}] + l[Max(T)]]
  BY <1>0, <1>2
<1>. QED BY <1>3 DEF FoldOf, Sets

\* It adds one weight after the other.
LEMMA FoldNext ==
  ASSUME NEW n \in Nat, NEW l, NEW f, FoldOf(f, n, l), NEW j \in 1 .. n
  PROVE  f[1 .. j] = f[1 .. j - 1] + l[j] /\ f[1 .. 0] = 0
<1>1. 1 .. j \in SUBSET (1 .. n) /\ 1 .. j # {} /\ 1 .. 0 = {}
  OBVIOUS
<1>2. Max(1 .. j) = j
  <2> DEFINE T == 1 .. j
  <2>1. j \in T /\ \A y \in T : y \in Nat /\ y <= j
    OBVIOUS
  <2>2. T \in SUBSET (1 .. n) /\ T # {}
    BY <1>1
  <2> HIDE DEF T
  <2>3. Max(T) \in T /\ j <= Max(T)
    BY <2>1, <2>2, GreatestIndex
  <2>4. \A y \in T : j <= y => y = j
    BY <2>1
  <2>5. Max(T) = j
    BY <2>3, <2>4
  <2>. QED BY <2>5 DEF T
<1>3. (1 .. j) \ {j} = 1 .. j - 1
  OBVIOUS
<1>. QED BY <1>1, <1>2, <1>3 DEF FoldOf

\* Folds with the same first weights agree, and are numbers when the weights are.
LEMMA FoldsAgree ==
  ASSUME NEW n \in Nat, NEW l, NEW f, FoldOf(f, n, l),
         NEW m \in 0 .. n, NEW v, NEW h, FoldOf(h, m, v),
         \A i \in 1 .. m : v[i] = l[i] /\ l[i] \in Nat
  PROVE  \A j \in 0 .. m : f[1 .. j] = h[1 .. j] /\ f[1 .. j] \in Nat
<1> DEFINE Good(j) == f[1 .. j] = h[1 .. j] /\ f[1 .. j] \in Nat
           Bad == {j \in 0 .. m : ~Good(j)}
<1>0. Good(0)
  <2>1. {} \in SUBSET (1 .. n) /\ {} \in SUBSET (1 .. m) /\ 1 .. 0 = {}
    OBVIOUS
  <2>. QED BY <2>1 DEF FoldOf
<1>1. Bad = {}
  <2> SUFFICES ASSUME Bad # {} PROVE FALSE
    OBVIOUS
  <2>1. PICK j \in Bad : \A k \in Bad : j <= k
    <3>1. Bad \subseteq Nat
      OBVIOUS
    <3> HIDE DEF Bad
    <3>. QED BY <3>1, LeastNat
  <2>2. j \in 0 .. m /\ ~Good(j) /\ j # 0
    BY <1>0, <2>1
  <2>3. j - 1 \in 0 .. m /\ j \in 1 .. m /\ j \in 1 .. n
    BY <2>2
  <2>4. j - 1 \notin Bad
    <3> HIDE DEF Bad
    <3>. QED BY <2>1, <2>3
  <2>5. Good(j - 1)
    BY <2>3, <2>4
  <2>6. f[1 .. j] = f[1 .. j - 1] + l[j] /\ h[1 .. j] = h[1 .. j - 1] + v[j]
    <3>1. m \in Nat
      OBVIOUS
    <3>. QED BY <2>3, <3>1, FoldNext
  <2>7. f[1 .. j] = h[1 .. j] /\ f[1 .. j] \in Nat
    BY <2>3, <2>5, <2>6
  <2>. QED BY <2>2, <2>7
<1>. QED BY <1>1

\* A frame, and the streams that are made of frames.
Frame == [len : Nat, kind : {"work", "nobody", "nil", "exit", "panics"}]

Lengths(s) == [i \in DOMAIN s |-> s[i].len]

\* Offset is the fold of the lengths before.
LEMMA OffsetIsFold ==
  ASSUME NEW s \in Seq(Frame), NEW k \in 1 .. Len(s) + 1
  PROVE  \E f : FoldOf(f, k - 1, Lengths(s)) /\ Offset(s, k) = f[1 .. k - 1]
<1> DEFINE q == SubSeq(s, 1, k - 1)
<1>1. q \in Seq(Frame) /\ Len(q) = k - 1 /\ DOMAIN q = 1 .. k - 1
      /\ \A i \in 1 .. k - 1 : q[i] = s[i]
  <2>1. \A i \in 1 .. k - 1 : s[i] \in Frame
    BY LenProperties
  <2>2. /\ q \in Seq(Frame) /\ Len(q) = (IF 1 <= k - 1 THEN k - 1 - 1 + 1 ELSE 0)
        /\ \A i \in 1 .. k - 1 - 1 + 1 : q[i] = s[1 + i - 1]
    <3>1. 1 \in Int /\ k - 1 \in Int
      BY LenProperties
    <3>. QED BY <2>1, <3>1, SubSeqProperties
  <2> HIDE DEF q
  <2>3. k \in Nat /\ k >= 1
    BY LenProperties
  <2>4. Len(q) = k - 1
    BY <2>2, <2>3
  <2>5. \A i \in 1 .. k - 1 : q[i] = s[i]
    <3>1. k - 1 - 1 + 1 = k - 1 /\ \A i \in 1 .. k - 1 : 1 + i - 1 = i
      BY <2>3
    <3>. QED BY <2>2, <3>1
  <2>. QED BY <2>2, <2>4, <2>5, LenProperties
<1> DEFINE LenFold(f) ==
             f = [T \in SUBSET DOMAIN q |->
                    IF T = {} THEN 0 ELSE f[T \ {Max(T)}] + q[Max(T)].len]
<1>2. Offset(s, k) = FoldLeft(LAMBDA n, f : n + f.len, 0, q)
  BY DEF Offset
<1> HIDE DEF q
<1>3. \A f : LenFold(f) <=> FoldOf(f, k - 1, Lengths(s))
  <2>1. \A T \in SUBSET (1 .. k - 1) : T # {} => Lengths(s)[Max(T)] = q[Max(T)].len
    <3> SUFFICES ASSUME NEW T \in SUBSET (1 .. k - 1), T # {}
                 PROVE  Lengths(s)[Max(T)] = q[Max(T)].len
      OBVIOUS
    <3>1. k - 1 \in Nat /\ Max(T) \in 1 .. k - 1
      <4>1. k - 1 \in Nat
        BY LenProperties
      <4>. QED BY <4>1, GreatestIndex
    <3>2. Max(T) \in DOMAIN s
      BY <3>1, LenProperties
    <3>. QED BY <1>1, <3>1, <3>2 DEF Lengths
  <2>. QED BY <1>1, <2>1 DEF FoldOf
<1>4. PICK f : LenFold(f)
  <2>1. k - 1 \in Nat
    BY LenProperties
  <2>. QED BY <1>3, <2>1, FoldExists
<1>5. \E g : LenFold(g) /\ FoldLeft(LAMBDA n, e : n + e.len, 0, q) = g[DOMAIN q]
  BY <1>4, ZenonT(60) DEF FoldLeft, MapThenFoldSet
<1>. QED BY <1>1, <1>2, <1>3, <1>5

\* A frame begins where the one before ended.
LEMMA OffsetNext ==
  ASSUME NEW s \in Seq(Frame)
  PROVE  /\ Offset(s, 1) = 0
         /\ \A k \in 1 .. Len(s) + 1 : Offset(s, k) \in Nat
         /\ \A k \in 1 .. Len(s) : Offset(s, k + 1) = Offset(s, k) + s[k].len
<1>0. Len(s) \in Nat /\ DOMAIN s = 1 .. Len(s) /\ \A i \in 1 .. Len(s) : s[i] \in Frame
  BY LenProperties
<1>1. \A i \in 1 .. Len(s) : Lengths(s)[i] = s[i].len /\ Lengths(s)[i] \in Nat
  BY <1>0 DEF Lengths, Frame
<1>2. Offset(s, 1) = 0
  <2>1. 1 \in 1 .. Len(s) + 1
    BY <1>0
  <2>2. PICK f : FoldOf(f, 1 - 1, Lengths(s)) /\ Offset(s, 1) = f[1 .. 1 - 1]
    BY <2>1, OffsetIsFold
  <2>3. 1 .. 1 - 1 = {}
    OBVIOUS
  <2>. QED BY <2>2, <2>3 DEF FoldOf
<1>3. ASSUME NEW k \in 1 .. Len(s) + 1 PROVE Offset(s, k) \in Nat
  <2>1. PICK f : FoldOf(f, k - 1, Lengths(s)) /\ Offset(s, k) = f[1 .. k - 1]
    BY OffsetIsFold
  <2>2. k - 1 \in Nat /\ k - 1 \in 0 .. k - 1 /\ 1 .. k - 1 \subseteq 1 .. Len(s)
    BY <1>0
  <2>. QED BY <1>1, <2>1, <2>2, FoldsAgree
<1>4. ASSUME NEW k \in 1 .. Len(s) PROVE Offset(s, k + 1) = Offset(s, k) + s[k].len
  <2>1. /\ k \in Nat /\ k \in 1 .. Len(s) + 1 /\ k + 1 \in 1 .. Len(s) + 1 /\ k + 1 - 1 = k
        /\ k \in 1 .. k /\ k - 1 \in 0 .. k /\ k - 1 \in 0 .. k - 1 /\ 1 .. k - 1 \subseteq 1 .. Len(s)
    BY <1>0
  <2>2. PICK f : FoldOf(f, k - 1, Lengths(s)) /\ Offset(s, k) = f[1 .. k - 1]
    BY <2>1, OffsetIsFold
  <2>3. PICK h : FoldOf(h, k, Lengths(s)) /\ Offset(s, k + 1) = h[1 .. k]
    BY <2>1, OffsetIsFold
  <2>4. h[1 .. k] = h[1 .. k - 1] + Lengths(s)[k]
    BY <2>1, <2>3, FoldNext
  <2>5. h[1 .. k - 1] = f[1 .. k - 1]
    BY <1>1, <2>1, <2>2, <2>3, FoldsAgree
  <2>. QED BY <1>1, <2>2, <2>3, <2>4, <2>5
<1>. QED BY <1>2, <1>3, <1>4

\* No two frames begin at the same byte when each has a head at least.
LEMMA OffsetsDiffer ==
  ASSUME NEW s \in Seq(Frame), \A i \in DOMAIN s : s[i].len # 0,
         NEW j \in 1 .. Len(s) + 1, NEW k \in 1 .. Len(s) + 1, j < k
  PROVE  Offset(s, j) < Offset(s, k)
<1>0. Len(s) \in Nat /\ DOMAIN s = 1 .. Len(s) /\ \A i \in 1 .. Len(s) : s[i] \in Frame
  BY LenProperties
<1> DEFINE Bad == {i \in j + 1 .. Len(s) + 1 : ~(Offset(s, j) < Offset(s, i))}
<1>1. Bad = {}
  <2> SUFFICES ASSUME Bad # {} PROVE FALSE
    OBVIOUS
  <2>1. PICK i \in Bad : \A x \in Bad : i <= x
    <3>1. Bad \subseteq Nat
      BY <1>0
    <3> HIDE DEF Bad
    <3>. QED BY <3>1, LeastNat
  <2>2. i \in j + 1 .. Len(s) + 1 /\ ~(Offset(s, j) < Offset(s, i))
    BY <2>1
  <2>3. i - 1 \in 1 .. Len(s) /\ i - 1 + 1 = i /\ i - 1 >= j /\ ~(i <= i - 1)
    BY <1>0, <2>2
  <2>4. i - 1 \notin Bad
    <3> HIDE DEF Bad
    <3>. QED BY <2>1, <2>3
  <2>5. Offset(s, i) = Offset(s, i - 1) + s[i - 1].len
    BY <2>3, OffsetNext
  <2>6. s[i - 1].len \in Nat \ {0} /\ Offset(s, i - 1) \in Nat /\ Offset(s, j) \in Nat
    <3>1. i - 1 \in 1 .. Len(s) + 1
      BY <1>0, <2>3
    <3>. QED BY <1>0, <2>3, <3>1, OffsetNext DEF Frame
  <2>7. i - 1 = j \/ Offset(s, j) < Offset(s, i - 1)
    <3>1. i - 1 = j \/ i - 1 \in j + 1 .. Len(s) + 1
      BY <1>0, <2>2, <2>3
    <3>. QED BY <2>4, <3>1
  <2>. QED BY <2>2, <2>5, <2>6, <2>7
<1>2. k \in j + 1 .. Len(s) + 1
  BY <1>0
<1>. QED BY <1>1, <1>2

----------------------------------------------------------------------------
(* The invariant                                                            *)

LoopTypes ==
  /\ stream \in [Conns -> Seq(Frame)] /\ \A c \in Conns : stream[c] \in Streams[c]
  /\ got \in [Conns -> Nat] /\ \A c \in Conns : got[c] <= Size(c)
  /\ mem \in [Buffers -> [1 .. BufLength -> {<<>>} \cup (Conns \X Nat)]]
  /\ pool \subseteq Buffers /\ rBuf \in [Conns -> Buffers]
  /\ r \in [Conns -> Nat] /\ w \in [Conns -> Nat]
  /\ \A c \in Conns : r[c] <= w[c] /\ w[c] <= BufLength
  /\ closed \in [Conns -> {"no", "yes", "pooled"}]
  /\ pc \in [Conns -> {"new", "head", "read", "take", "back", "route",
                      "end", "cut", "overflow", "refused"}]
  /\ routed \in [Conns -> Seq(Conns \X Nat)]

\* The tokens that loops have taken and not given back yet, one by one.
Borrowed == {t \in Conns \X (1 .. BufLength) : pc[t[1]] = "back" /\ t[2] <= w[t[1]]}

\* With them there are never less than none, nor more than the Limiter puts in and
\* gets back.
LimiterOK ==
  /\ limiter \in {"new", "select", "cap"} /\ tokens \in Int
  /\ tokens + Cardinality(Borrowed) >= 0
  /\ tokens + Cardinality(Borrowed)
       <= LimitSize + Held + (IF limiter = "cap" THEN LimitRate ELSE 0)

\* Who has a buffer, until it goes back to the pool.
Holds(c) == pc[c] # "new" /\ closed[c] # "pooled"

\* Nobody else has it, and who has none has no loop.
Owned ==
  /\ \A c \in Conns : pc[c] = "new" => closed[c] = "no"
  /\ \A c \in Conns : closed[c] = "pooled" => Over(c)
  /\ \A c \in Conns : Holds(c) => rBuf[c] \notin pool
  /\ \A c, d \in Conns : c # d /\ Holds(c) /\ Holds(d) => rBuf[c] # rBuf[d]

\* What was read and not routed lies in it, as it came.
Buffered ==
  \A c \in Conns :
    /\ pc[c] \in {"new", "head"} => r[c] = w[c]
    /\ ~Over(c) => \A i \in r[c] + 1 .. w[c] : mem[rBuf[c]][i] = <<c, got[c] - w[c] + i>>

WorkOf(c) ==
  {k \in DOMAIN stream[c] :
     stream[c][k].kind = "work" /\ \A j \in 1 .. k : ~Stops(stream[c][j])}

\* The frames for the handlers before the k-th.
Before(c, k) == {j \in WorkOf(c) : j < k}

\* A loop has come to the k-th frame.
CameTo(c, k) ==
  /\ got[c] - w[c] + r[c] = Offset(stream[c], k)
  /\ \A j \in 1 .. k - 1 : ~Stops(stream[c][j])
  /\ Len(routed[c]) = Cardinality(Before(c, k))
  /\ \A i \in DOMAIN routed[c] : routed[c][i] = Readable(c)[i]

Position == \A c \in Conns : \E k \in 1 .. Len(stream[c]) + 1 : CameTo(c, k)

----------------------------------------------------------------------------
(* Types                                                                    *)

LEMMA Constants ==
  /\ IsFiniteSet(Conns) /\ Cardinality(Conns) \in Nat /\ Held \in Nat
  /\ HeadLength \in Nat \ {0} /\ BufLength \in Nat \ {0}
  /\ LimitSize \in Nat \ {0} /\ LimitRate \in Nat \ {0}
  /\ \A c \in Conns : \A s \in Streams[c] :
       s \in Seq(Frame) /\ \A k \in DOMAIN s : s[k].len >= HeadLength
<1>1. IsFiniteSet(Conns) /\ Cardinality(Conns) \in Nat
  BY ConstantsAssumption, FS_CardinalityType
<1>2. /\ HeadLength \in Nat \ {0} /\ BufLength \in Nat \ {0}
      /\ LimitSize \in Nat \ {0} /\ LimitRate \in Nat \ {0}
  BY ConstantsAssumption
<1>3. Held \in Nat
  BY <1>1, <1>2 DEF Held
<1>. QED BY <1>1, <1>2, <1>3, ConstantsAssumption DEF Frame

\* The frames of a stream.
LEMMA StreamOf ==
  ASSUME LoopTypes, NEW c \in Conns
  PROVE  /\ Len(stream[c]) \in Nat /\ DOMAIN stream[c] = 1 .. Len(stream[c])
         /\ stream[c] \in Seq(Frame) /\ Size(c) \in Nat
         /\ \A k \in DOMAIN stream[c] :
              /\ stream[c][k] \in Frame
              /\ stream[c][k].len \in Nat /\ stream[c][k].len >= HeadLength
<1>1. stream[c] \in Seq(Frame) /\ \A k \in DOMAIN stream[c] : stream[c][k].len >= HeadLength
  BY Constants DEF LoopTypes
<1>2. /\ Len(stream[c]) \in Nat /\ DOMAIN stream[c] = 1 .. Len(stream[c])
      /\ \A k \in DOMAIN stream[c] : stream[c][k] \in Frame
  BY <1>1, LenProperties
<1>3. Size(c) \in Nat
  <2>1. Len(stream[c]) + 1 \in 1 .. Len(stream[c]) + 1
    BY <1>2
  <2>. QED BY <1>1, <2>1, OffsetNext DEF Size
<1>. QED BY <1>1, <1>2, <1>3 DEF Frame

LEMMA InitTypes == Init => LoopTypes
<1> SUFFICES ASSUME Init PROVE LoopTypes
  OBVIOUS
<1>1. stream \in [Conns -> Seq(Frame)] /\ \A c \in Conns : stream[c] \in Streams[c]
  <2>1. \A c \in Conns : stream[c] \in Streams[c]
    BY DEF Init
  <2>2. \A c \in Conns : stream[c] \in Seq(Frame)
    BY <2>1, Constants
  <2>3. stream = [c \in Conns |-> stream[c]]
    BY DEF Init
  <2>. QED BY <2>1, <2>2, <2>3
<1>2. got \in [Conns -> Nat] /\ \A c \in Conns : got[c] <= Size(c)
  <2>1. ASSUME NEW c \in Conns PROVE Size(c) \in Nat
    <3>1. Len(stream[c]) + 1 \in 1 .. Len(stream[c]) + 1
      BY <1>1, LenProperties
    <3>. QED BY <1>1, <3>1, OffsetNext DEF Size
  <2>. QED BY <2>1 DEF Init
<1>3. rBuf \in [Conns -> Buffers]
  <2>1. ASSUME NEW c \in Conns PROVE 1 \in Buffers
    <3>1. Cardinality(Conns) # 0
      BY Constants, FS_EmptySet
    <3>. QED BY <3>1, Constants DEF Buffers
  <2>. QED BY <2>1 DEF Init
<1>4. mem \in [Buffers -> [1 .. BufLength -> {<<>>} \cup (Conns \X Nat)]]
  BY DEF Init
<1>5. routed \in [Conns -> Seq(Conns \X Nat)]
  BY EmptySeq DEF Init
<1>. QED BY <1>1, <1>2, <1>3, <1>4, <1>5, Constants DEF Init, LoopTypes

\* A frame that a loop finds is one of a stream.
LEMMA FoundFrame ==
  ASSUME LoopTypes, NEW c \in Conns, NEW fr \in FramesAt(c)
  PROVE  /\ fr[1] \in Conns /\ fr[2] \in DOMAIN stream[fr[1]] /\ fr = <<fr[1], fr[2]>>
         /\ fr \in Conns \X Nat /\ stream[fr[1]][fr[2]].len \in Nat
         /\ Left(c) >= HeadLength
         /\ mem[rBuf[c]][r[c] + 1] = <<fr[1], Offset(stream[fr[1]], fr[2]) + 1>>
<1>1. PICK d \in Conns : fr \in {d} \X DOMAIN stream[d]
  BY DEF FramesAt
<1>2. fr[1] = d /\ fr[2] \in DOMAIN stream[d] /\ fr = <<fr[1], fr[2]>>
  BY <1>1
<1>3. fr[2] \in Nat /\ stream[d][fr[2]].len \in Nat
  BY <1>2, StreamOf
<1>. QED BY <1>1, <1>2, <1>3 DEF FramesAt

LEMMA CellType ==
  ASSUME LoopTypes, NEW b \in Buffers, NEW i \in 1 .. BufLength
  PROVE  mem[b][i] \in {<<>>} \cup (Conns \X Nat)
<1> DEFINE Cell == {<<>>} \cup (Conns \X Nat)
<1>1. mem \in [Buffers -> [1 .. BufLength -> Cell]]
  BY DEF LoopTypes
<1> HIDE DEF Cell
<1>2. mem[b][i] \in Cell
  BY <1>1
<1>. QED BY <1>2 DEF Cell

\* What a read puts where.
LEMMA ReadEffect ==
  ASSUME LoopTypes, NEW c \in Conns, NEW n \in 1 .. BufLength, Read(c, n)
  PROVE  /\ w[c] - r[c] \in Nat /\ w[c] - r[c] + n <= BufLength
         /\ r' = [r EXCEPT ![c] = 0] /\ w' = [w EXCEPT ![c] = w[c] - r[c] + n]
         /\ got' = [got EXCEPT ![c] = got[c] + n]
         /\ mem' \in [Buffers -> [1 .. BufLength -> {<<>>} \cup (Conns \X Nat)]]
         /\ \A b \in Buffers \ {rBuf[c]} : mem'[b] = mem[b]
         /\ \A i \in 1 .. BufLength :
              mem'[rBuf[c]][i] = IF i - (w[c] - r[c]) \in 1 .. n
                                 THEN <<c, got[c] + i - (w[c] - r[c])>>
                                 ELSE mem[rBuf[c]][IF i + r[c] <= w[c] THEN i + r[c] ELSE i]
<1> DEFINE b == rBuf[c]
           l == w[c] - r[c]
           row == [i \in 1 .. BufLength |->
                     IF i - Left(c) \in 1 .. n THEN <<c, got[c] + i - Left(c)>>
                     ELSE Moved(c)[i]]
<1>1. b \in Buffers /\ l \in Nat /\ Left(c) = l /\ got[c] \in Nat
  BY DEF LoopTypes, Left
<1>2. ASSUME NEW i \in 1 .. BufLength
      PROVE  /\ row[i] = IF i - l \in 1 .. n THEN <<c, got[c] + i - l>>
                         ELSE mem[b][IF i + r[c] <= w[c] THEN i + r[c] ELSE i]
             /\ row[i] \in {<<>>} \cup (Conns \X Nat)
  <2>1. row[i] = IF i - l \in 1 .. n THEN <<c, got[c] + i - l>> ELSE Moved(c)[i]
    BY <1>1
  <2>2. Moved(c)[i] = mem[b][IF i + r[c] <= w[c] THEN i + r[c] ELSE i]
    BY DEF Moved
  <2>3. (IF i + r[c] <= w[c] THEN i + r[c] ELSE i) \in 1 .. BufLength
    BY Constants DEF LoopTypes
  <2>4. mem[b][IF i + r[c] <= w[c] THEN i + r[c] ELSE i] \in {<<>>} \cup (Conns \X Nat)
    <3>1. \A k \in 1 .. BufLength : mem[b][k] \in {<<>>} \cup (Conns \X Nat)
      BY <1>1, CellType
    <3> DEFINE x == IF i + r[c] <= w[c] THEN i + r[c] ELSE i
    <3>2. x \in 1 .. BufLength
      BY <2>3
    <3> HIDE DEF x
    <3>3. mem[b][x] \in {<<>>} \cup (Conns \X Nat)
      BY <3>1, <3>2
    <3>. QED BY <3>3 DEF x
  <2>5. i - l \in 1 .. n => <<c, got[c] + i - l>> \in Conns \X Nat
    BY <1>1
  <2>. QED BY <2>1, <2>2, <2>4, <2>5
<1>3. row \in [1 .. BufLength -> {<<>>} \cup (Conns \X Nat)]
  <2>1. \A i \in 1 .. BufLength : row[i] \in {<<>>} \cup (Conns \X Nat)
    BY <1>2
  <2>2. row = [i \in 1 .. BufLength |-> row[i]]
    OBVIOUS
  <2> HIDE DEF row
  <2>. QED BY <2>1, <2>2
<1>4. mem' = [mem EXCEPT ![b] = row] /\ w[c] - r[c] + n <= BufLength
      /\ r' = [r EXCEPT ![c] = 0] /\ w' = [w EXCEPT ![c] = w[c] - r[c] + n]
      /\ got' = [got EXCEPT ![c] = got[c] + n]
  BY DEF Read, Left
<1> HIDE DEF row
<1>5. mem'[b] = row /\ \A x \in Buffers \ {b} : mem'[x] = mem[x]
  BY <1>1, <1>4 DEF LoopTypes
<1>6. mem' \in [Buffers -> [1 .. BufLength -> {<<>>} \cup (Conns \X Nat)]]
  BY <1>1, <1>3, <1>4 DEF LoopTypes
<1>. QED BY <1>1, <1>2, <1>4, <1>5, <1>6

\* The steps that read or route, and those that do neither.
LEMMA RouteEffect ==
  ASSUME LoopTypes, NEW c \in Conns, Route(c)
  PROVE  \E fr \in FramesAt(c) :
           LET f == stream[fr[1]][fr[2]]
           IN  /\ r[c] + f.len <= w[c] /\ f.kind # "nil" /\ pc[c] = "route"
               /\ \/ Ends(f) /\ Goto(c, "end") /\ UNCHANGED <<r, routed>>
                  \/ /\ ~Ends(f) /\ r' = [r EXCEPT ![c] = r[c] + f.len]
                     /\ routed' = IF f.kind = "work"
                                  THEN [routed EXCEPT ![c] = Append(routed[c], fr)] ELSE routed
                     /\ pc' = pc
<1>1. PICK fr \in FramesAt(c) :
           LET f == stream[fr[1]][fr[2]]
           IN  /\ Whole(c, f.len) /\ f.kind # "nil"
               /\ IF Ends(f)
                  THEN Goto(c, "end") /\ UNCHANGED <<r, routed>>
                  ELSE /\ r' = [r EXCEPT ![c] = @ + f.len]
                       /\ routed' = [routed EXCEPT ![c] = IF f.kind = "work" THEN Append(@, fr) ELSE @]
                       /\ UNCHANGED pc
  BY DEF Route
<1> DEFINE f == stream[fr[1]][fr[2]]
<1>2. r[c] + f.len <= w[c] /\ f.kind # "nil" /\ pc[c] = "route"
  BY <1>1 DEF Whole, Route
<1>3. CASE Ends(f)
  <2>1. Goto(c, "end") /\ UNCHANGED <<r, routed>>
    BY <1>1, <1>3
  <2>. QED BY <1>2, <1>3, <2>1
<1>4. CASE ~Ends(f)
  <2>1. /\ r' = [r EXCEPT ![c] = r[c] + f.len] /\ pc' = pc
        /\ routed' = [routed EXCEPT ![c] = IF f.kind = "work" THEN Append(@, fr) ELSE @]
    BY <1>1, <1>4
  <2>2. routed' = IF f.kind = "work" THEN [routed EXCEPT ![c] = Append(routed[c], fr)] ELSE routed
    <3>1. CASE f.kind = "work"
      <4> HIDE DEF f
      <4>. QED BY <2>1, <3>1
    <3>2. CASE f.kind # "work"
      <4>1. [routed EXCEPT ![c] = routed[c]] = routed
        BY DEF LoopTypes
      <4> HIDE DEF f
      <4>. QED BY <2>1, <3>2, <4>1
    <3>. QED BY <3>1, <3>2
  <2>. QED BY <1>2, <1>4, <2>1, <2>2
<1>. QED BY <1>3, <1>4

\* A step that neither reads nor routes nor gives a buffer.
Aside(c) ==
  Close(c) \/ Recycle(c) \/ ReadHead(c) \/ Overflow(c) \/ ReadEnds(c) \/ Take(c) \/ AddBack(c)
    \/ RouteNil(c)

LEMMA AsideEffect ==
  ASSUME LoopTypes, NEW c \in Conns, Aside(c)
  PROVE  /\ UNCHANGED <<stream, got, mem, rBuf, r, w, routed>>
         /\ pool' \subseteq Buffers /\ closed' \in [Conns -> {"no", "yes", "pooled"}]
         /\ pc' \in [Conns -> {"new", "head", "read", "take", "back", "route",
                              "end", "cut", "overflow", "refused"}]
<1>1. rBuf[c] \in Buffers
  BY DEF LoopTypes
<1>. QED BY <1>1 DEF Aside, Close, Recycle, ReadHead, Overflow, ReadEnds, Take, AddBack, RouteNil,
                     Goto, sessionVars, limiterVars, LoopTypes

LEMMA NextSteps ==
  ASSUME [Next]_vars
  PROVE  \/ \E c \in Conns : \/ Aside(c) \/ NewSession(c) \/ Route(c)
                             \/ \E n \in 1 .. BufLength : Read(c, n)
         \/ LimiterRun \/ Refill \/ Cap \/ UNCHANGED vars
BY DEF Next, Loop, Reads, Aside

\* Every step of a loop keeps the types.
LEMMA TypesStep == LoopTypes /\ [Next]_vars => LoopTypes'
<1> SUFFICES ASSUME LoopTypes, [Next]_vars PROVE LoopTypes'
  OBVIOUS
<1>0. stream' = stream
  BY NextSteps, AsideEffect DEF NewSession, Route, Read, LimiterRun, Refill, Cap, sessionVars, vars
<1>1. \A c \in Conns : Size(c)' = Size(c)
  BY <1>0 DEF Size
<1>2. ASSUME NEW c \in Conns, Aside(c) PROVE LoopTypes'
  BY <1>0, <1>1, <1>2, AsideEffect DEF LoopTypes
<1>3. ASSUME NEW c \in Conns, NewSession(c) PROVE LoopTypes'
  <2>1. PICK b \in pool : rBuf' = [rBuf EXCEPT ![c] = b] /\ pool' = pool \ {b}
    BY <1>3 DEF NewSession
  <2>2. b \in Buffers
    BY DEF LoopTypes
  <2>. QED BY <1>0, <1>1, <1>3, <2>1, <2>2 DEF NewSession, LoopTypes, Goto, limiterVars
<1>4. ASSUME NEW c \in Conns, Route(c) PROVE LoopTypes'
  <2>1. UNCHANGED <<stream, got, mem, pool, rBuf, w, closed>>
    BY <1>4 DEF Route
  <2>2. PICK fr \in FramesAt(c) :
          /\ r[c] + stream[fr[1]][fr[2]].len <= w[c]
          /\ \/ Goto(c, "end") /\ UNCHANGED <<r, routed>>
             \/ /\ r' = [r EXCEPT ![c] = r[c] + stream[fr[1]][fr[2]].len] /\ pc' = pc
                /\ routed' = [routed EXCEPT ![c] = Append(routed[c], fr)] \/ routed' = routed
    BY <1>4, RouteEffect
  <2>3. stream[fr[1]][fr[2]].len \in Nat /\ Append(routed[c], fr) \in Seq(Conns \X Nat)
    <3>1. fr \in Conns \X Nat /\ routed[c] \in Seq(Conns \X Nat)
      BY FoundFrame DEF LoopTypes
    <3>. QED BY <3>1, FoundFrame, AppendProperties
  <2> DEFINE l == stream[fr[1]][fr[2]].len
  <2> HIDE DEF l
  <2>4. CASE Goto(c, "end") /\ UNCHANGED <<r, routed>>
    BY <1>0, <1>1, <2>1, <2>4 DEF LoopTypes, Goto
  <2>5. CASE /\ r' = [r EXCEPT ![c] = r[c] + l] /\ pc' = pc
             /\ routed' = [routed EXCEPT ![c] = Append(routed[c], fr)] \/ routed' = routed
    <3>1. l \in Nat /\ r[c] + l <= w[c]
      BY <2>2, <2>3 DEF l
    <3>2. /\ r' \in [Conns -> Nat] /\ \A d \in Conns : r'[d] <= w[d]
      BY <2>5, <3>1 DEF LoopTypes
    <3>3. routed' \in [Conns -> Seq(Conns \X Nat)]
      BY <2>3, <2>5 DEF LoopTypes
    <3>. QED BY <1>0, <1>1, <2>1, <2>5, <3>2, <3>3 DEF LoopTypes
  <2>. QED BY <2>2, <2>4, <2>5 DEF l
<1>5. ASSUME NEW c \in Conns, NEW n \in 1 .. BufLength, Read(c, n) PROVE LoopTypes'
  <2>1. /\ UNCHANGED <<stream, pool, rBuf, routed, closed>> /\ pc' = [pc EXCEPT ![c] = "take"]
        /\ got[c] + n <= Size(c)
    BY <1>5 DEF Read, Goto
  <2>2. /\ w[c] - r[c] \in Nat /\ w[c] - r[c] + n <= BufLength
        /\ r' = [r EXCEPT ![c] = 0] /\ w' = [w EXCEPT ![c] = w[c] - r[c] + n]
        /\ got' = [got EXCEPT ![c] = got[c] + n]
        /\ mem' \in [Buffers -> [1 .. BufLength -> {<<>>} \cup (Conns \X Nat)]]
    BY <1>5, ReadEffect
  <2>3. got' \in [Conns -> Nat] /\ \A d \in Conns : got'[d] <= Size(d)
    BY <2>1, <2>2 DEF LoopTypes
  <2>4. /\ r' \in [Conns -> Nat] /\ w' \in [Conns -> Nat]
        /\ \A d \in Conns : r'[d] <= w'[d] /\ w'[d] <= BufLength
    BY <2>2 DEF LoopTypes
  <2>5. pc' \in [Conns -> {"new", "head", "read", "take", "back", "route",
                          "end", "cut", "overflow", "refused"}]
    BY <2>1 DEF LoopTypes
  <2>6. stream' \in [Conns -> Seq(Frame)] /\ \A d \in Conns : stream'[d] \in Streams[d]
    BY <1>0 DEF LoopTypes
  <2>7. /\ pool' \subseteq Buffers /\ rBuf' \in [Conns -> Buffers]
        /\ closed' \in [Conns -> {"no", "yes", "pooled"}] /\ routed' \in [Conns -> Seq(Conns \X Nat)]
    BY <2>1 DEF LoopTypes
  <2>8. \A d \in Conns : got'[d] <= Size(d)'
    BY <1>1, <2>3
  <2>. QED BY <2>2, <2>3, <2>4, <2>5, <2>6, <2>7, <2>8, Zenon DEF LoopTypes
<1>6. CASE LimiterRun \/ Refill \/ Cap \/ UNCHANGED vars
  BY <1>0, <1>1, <1>6 DEF LimiterRun, Refill, Cap, vars, sessionVars, LoopTypes
<1>. QED BY <1>2, <1>3, <1>4, <1>5, <1>6, NextSteps

----------------------------------------------------------------------------
(* The tokens                                                               *)

LEMMA DisjointUnion ==
  ASSUME NEW S, IsFiniteSet(S), NEW T, IsFiniteSet(T), S \cap T = {}
  PROVE  Cardinality(S \cup T) = Cardinality(S) + Cardinality(T)
<1>1. Cardinality({}) = 0 /\ Cardinality(S) \in Nat /\ Cardinality(T) \in Nat
  BY FS_EmptySet, FS_CardinalityType
<1>2. Cardinality(S \cup T) = Cardinality(S) + Cardinality(T) - Cardinality(S \cap T)
  BY FS_Union
<1>3. Cardinality(S \cap T) = 0
  BY <1>1
<1>. QED BY <1>1, <1>2, <1>3

\* There are no more of them than bytes in all buffers.
LEMMA BorrowedBound ==
  ASSUME LoopTypes
  PROVE  /\ IsFiniteSet(Borrowed) /\ Cardinality(Borrowed) \in Nat
         /\ Cardinality(Borrowed) <= Held
<1> DEFINE All == Conns \X (1 .. BufLength)
<1>1. IsFiniteSet(1 .. BufLength) /\ Cardinality(1 .. BufLength) = BufLength
  <2>1. 1 \in Int /\ BufLength \in Int /\ ~(1 > BufLength)
    BY Constants
  <2>. QED BY <2>1, FS_Interval, Constants
<1>2. IsFiniteSet(All) /\ Cardinality(All) = Held
  BY <1>1, Constants, FS_Product DEF Held
<1>3. Borrowed \subseteq All
  BY DEF Borrowed
<1>. QED BY <1>2, <1>3, FS_Subset, FS_CardinalityType

\* Those of one loop.
Own(c) == {c} \X (1 .. w[c])

LEMMA OwnCount ==
  ASSUME LoopTypes, NEW c \in Conns
  PROVE  IsFiniteSet(Own(c)) /\ Cardinality(Own(c)) = w[c] /\ w[c] \in Nat
<1>1. w[c] \in Nat
  BY DEF LoopTypes
<1>2. IsFiniteSet(1 .. w[c]) /\ Cardinality(1 .. w[c]) = w[c]
  <2>1. 1 \in Int /\ w[c] \in Int
    BY <1>1
  <2>2. (IF 1 > w[c] THEN 0 ELSE w[c] - 1 + 1) = w[c]
    BY <1>1
  <2>. QED BY <2>1, <2>2, FS_Interval
<1>3. IsFiniteSet({c}) /\ Cardinality({c}) = 1
  BY FS_Singleton
<1>4. Cardinality(Own(c)) = 1 * w[c] /\ IsFiniteSet(Own(c))
  <2> DEFINE S == {c}
             T == 1 .. w[c]
  <2>1. IsFiniteSet(S) /\ Cardinality(S) = 1 /\ IsFiniteSet(T) /\ Cardinality(T) = w[c]
    BY <1>2, <1>3
  <2>2. Own(c) = S \X T
    BY DEF Own
  <2> HIDE DEF S, T
  <2>3. IsFiniteSet(S \X T) /\ Cardinality(S \X T) = Cardinality(S) * Cardinality(T)
    BY <2>1, FS_Product
  <2>. QED BY <2>1, <2>2, <2>3
<1>. QED BY <1>1, <1>4

\* A loop that borrows, or gives back, moves its own.
LEMMA BorrowedMoves ==
  ASSUME LoopTypes, NEW c \in Conns, w' = w, NEW l, pc' = [pc EXCEPT ![c] = l]
  PROVE  /\ pc[c] # "back" /\ l # "back" => Borrowed' = Borrowed
         /\ pc[c] # "back" /\ l = "back" =>
              Cardinality(Borrowed') = Cardinality(Borrowed) + w[c]
         /\ pc[c] = "back" /\ l # "back" =>
              Cardinality(Borrowed) = Cardinality(Borrowed') + w[c]
<1>1. pc'[c] = l /\ \A d \in Conns \ {c} : pc'[d] = pc[d]
  BY DEF LoopTypes
<1>2. /\ Borrowed = {t \in Conns \X (1 .. BufLength) : pc[t[1]] = "back" /\ t[2] <= w[t[1]]}
      /\ Borrowed' = {t \in Conns \X (1 .. BufLength) : pc'[t[1]] = "back" /\ t[2] <= w[t[1]]}
  BY DEF Borrowed
<1>3. \A t \in Conns \X (1 .. BufLength) :
        /\ t[1] \in Conns /\ t[2] \in 1 .. BufLength /\ (t[1] # c => pc'[t[1]] = pc[t[1]])
        /\ t[1] = c /\ t[2] <= w[c] <=> t \in Own(c)
  <2> SUFFICES ASSUME NEW t \in Conns \X (1 .. BufLength)
               PROVE  t[1] = c /\ t[2] <= w[c] <=> t \in Own(c)
    BY <1>1
  <2>1. t = <<t[1], t[2]>> /\ t[2] \in 1 .. BufLength /\ w[c] \in Nat
    BY DEF LoopTypes
  <2>. QED BY <2>1 DEF Own
<1>4. Own(c) \subseteq Conns \X (1 .. BufLength)
  <2>1. w[c] \in Nat /\ w[c] <= BufLength
    BY DEF LoopTypes
  <2>2. 1 .. w[c] \subseteq 1 .. BufLength
    BY <2>1, Constants
  <2>. QED BY <2>2 DEF Own
<1>5. ASSUME pc[c] # "back", l # "back" PROVE Borrowed' = Borrowed
  BY <1>1, <1>2, <1>3, <1>5
<1>6. ASSUME pc[c] # "back", l = "back"
      PROVE  Cardinality(Borrowed') = Cardinality(Borrowed) + w[c]
  <2>1. Borrowed' = Borrowed \cup Own(c) /\ Borrowed \cap Own(c) = {}
    BY <1>1, <1>2, <1>3, <1>4, <1>6
  <2>. QED BY <2>1, DisjointUnion, BorrowedBound, OwnCount
<1>7. ASSUME pc[c] = "back", l # "back"
      PROVE  Cardinality(Borrowed) = Cardinality(Borrowed') + w[c]
  <2>1. Borrowed = Borrowed' \cup Own(c) /\ Borrowed' \cap Own(c) = {}
    BY <1>1, <1>2, <1>3, <1>4, <1>7
  <2>2. IsFiniteSet(Borrowed')
    <3>1. Borrowed' \subseteq Borrowed
      BY <2>1
    <3> DEFINE B == Borrowed'
    <3> HIDE DEF B
    <3>2. B \in SUBSET Borrowed
      BY <3>1 DEF B
    <3>3. IsFiniteSet(B)
      BY <3>2, BorrowedBound, FS_Subset
    <3>. QED BY <3>3 DEF B
  <2>. QED BY <2>1, <2>2, DisjointUnion, BorrowedBound, OwnCount
<1>. QED BY <1>5, <1>6, <1>7

\* A loop gives back what it had borrowed.
LEMMA GivesBack ==
  ASSUME LoopTypes, NEW c \in Conns, w' = w, pc[c] = "back", pc' = [pc EXCEPT ![c] = "take"]
  PROVE  Cardinality(Borrowed) = Cardinality(Borrowed') + w[c]
<1> DEFINE l == "take"
<1>1. pc' = [pc EXCEPT ![c] = l] /\ l # "back"
  OBVIOUS
<1> HIDE DEF l
<1>. QED BY <1>1, BorrowedMoves

\* The steps keep the tokens in their bounds.
LEMMA LimiterStep == LoopTypes /\ LimiterOK /\ [Next]_vars => LimiterOK'
<1> SUFFICES ASSUME LoopTypes, LimiterOK, [Next]_vars PROVE LimiterOK'
  OBVIOUS
<1> DEFINE B == Cardinality(Borrowed)
           B1 == Cardinality(Borrowed')
<1>0. /\ B \in Nat /\ B <= Held /\ tokens \in Int /\ tokens + B >= 0
      /\ tokens + B <= LimitSize + Held + (IF limiter = "cap" THEN LimitRate ELSE 0)
      /\ LimitSize \in Nat /\ LimitRate \in Nat /\ Held \in Nat
      /\ limiter \in {"new", "select", "cap"}
  BY BorrowedBound, Constants DEF LimiterOK
<1>s. ASSUME tokens' \in Int, limiter' \in {"new", "select", "cap"}, tokens' + B1 >= 0,
             tokens' + B1 <= LimitSize + Held + (IF limiter' = "cap" THEN LimitRate ELSE 0)
      PROVE  LimiterOK'
  BY <1>s DEF LimiterOK, Held
<1>1. ASSUME NEW c \in Conns, Take(c) PROVE LimiterOK'
  <2>1. /\ pc[c] = "take" /\ tokens' = tokens - w[c] /\ limiter' = limiter /\ w' = w
        /\ pc' = [pc EXCEPT ![c] = IF tokens' < 0 THEN "back" ELSE "route"]
    BY <1>1 DEF Take, Goto, sessionVars
  <2>2. w[c] \in Nat
    BY DEF LoopTypes
  <2>3. CASE tokens' < 0
    <3>1. pc' = [pc EXCEPT ![c] = "back"]
      BY <2>1, <2>3
    <3>2. B1 = B + w[c]
      BY <2>1, <3>1, BorrowedMoves
    <3> HIDE DEF B, B1
    <3>. QED BY <1>0, <1>s, <2>1, <2>2, <3>2
  <2>4. CASE ~(tokens' < 0)
    <3>1. pc' = [pc EXCEPT ![c] = "route"]
      BY <2>1, <2>4
    <3>2. B1 = B
      BY <2>1, <3>1, BorrowedMoves
    <3> HIDE DEF B, B1
    <3>. QED BY <1>0, <1>s, <2>1, <2>2, <2>4, <3>2
  <2>. QED BY <2>3, <2>4
<1>2. ASSUME NEW c \in Conns, AddBack(c) PROVE LimiterOK'
  <2>1. /\ pc[c] = "back" /\ tokens' = tokens + w[c] /\ limiter' = limiter /\ w' = w
        /\ pc' = [pc EXCEPT ![c] = "take"]
    BY <1>2 DEF AddBack, Goto, sessionVars
  <2>2. w[c] \in Nat
    BY DEF LoopTypes
  <2>3. B = B1 + w[c] /\ B1 \in Nat
    <3>1. B = B1 + w[c]
      BY <2>1, GivesBack
    <3>2. LoopTypes'
      BY TypesStep
    <3>3. B1 \in Nat
      <4>1. (LoopTypes => Cardinality(Borrowed) \in Nat)'
        BY BorrowedBound, PTL
      <4>. QED BY <3>2, <4>1
    <3>. QED BY <3>1, <3>3
  <2> HIDE DEF B, B1
  <2>. QED BY <1>0, <1>s, <2>1, <2>2, <2>3
<1>3. ASSUME Borrowed' = Borrowed, UNCHANGED limiterVars PROVE LimiterOK'
  BY <1>3 DEF LimiterOK, limiterVars, Held
<1>4. ASSUME NEW c \in Conns, NEW l, pc' = [pc EXCEPT ![c] = l], pc[c] # "back", l # "back",
             w' = w, UNCHANGED limiterVars
      PROVE  LimiterOK'
  BY <1>3, <1>4, BorrowedMoves
<1>5. ASSUME pc' = pc, w' = w, UNCHANGED limiterVars PROVE LimiterOK'
  <2>1. Borrowed' = Borrowed
    BY <1>5 DEF Borrowed
  <2>. QED BY <1>3, <1>5, <2>1
<1>6. ASSUME NEW c \in Conns, Close(c) \/ Recycle(c) PROVE LimiterOK'
  BY <1>5, <1>6 DEF Close, Recycle, sessionVars
<1>7. ASSUME NEW c \in Conns, ReadHead(c) PROVE LimiterOK'
  <2>1. pc[c] = "head" /\ w' = w /\ UNCHANGED limiterVars
    BY <1>7 DEF ReadHead, sessionVars
  <2>2. \E l \in {"read", "cut", "refused"} : pc' = [pc EXCEPT ![c] = l]
    BY <1>7 DEF ReadHead, Goto
  <2>. QED BY <1>4, <2>1, <2>2
<1>8. ASSUME NEW c \in Conns, Overflow(c) \/ ReadEnds(c) PROVE LimiterOK'
  <2>1. pc[c] = "read" /\ w' = w /\ UNCHANGED limiterVars
    BY <1>8 DEF Overflow, ReadEnds, sessionVars
  <2>2. \E l \in {"overflow", "end", "cut"} : pc' = [pc EXCEPT ![c] = l]
    BY <1>8 DEF Overflow, ReadEnds, Goto
  <2>. QED BY <1>4, <2>1, <2>2
<1>9. ASSUME NEW c \in Conns, RouteNil(c) PROVE LimiterOK'
  BY <1>4, <1>9 DEF RouteNil, Goto, sessionVars
<1>10. ASSUME NEW c \in Conns, NewSession(c) PROVE LimiterOK'
  <2>1. pc[c] = "new" /\ w' = w /\ UNCHANGED limiterVars
    BY <1>10 DEF NewSession
  <2>2. \E l \in {"head", "read"} : pc' = [pc EXCEPT ![c] = l]
    BY <1>10 DEF NewSession, Goto
  <2>. QED BY <1>4, <2>1, <2>2
<1>11. ASSUME NEW c \in Conns, Route(c) PROVE LimiterOK'
  <2>1. pc[c] = "route" /\ w' = w /\ UNCHANGED limiterVars
    BY <1>11 DEF Route
  <2>2. Goto(c, "end") \/ pc' = pc
    BY <1>11, RouteEffect
  <2>. QED BY <1>4, <1>5, <2>1, <2>2 DEF Goto
<1>12. ASSUME NEW c \in Conns, NEW n \in 1 .. BufLength, Read(c, n) PROVE LimiterOK'
  <2>1. /\ pc[c] = "read" /\ pc' = [pc EXCEPT ![c] = "take"] /\ UNCHANGED limiterVars
        /\ \A d \in Conns \ {c} : w'[d] = w[d]
    BY <1>12, ReadEffect DEF Read, Goto, LoopTypes
  <2>2. pc'[c] # "back" /\ \A d \in Conns \ {c} : pc'[d] = pc[d]
    BY <2>1 DEF LoopTypes
  <2>3. \A t \in Conns \X (1 .. BufLength) :
          pc'[t[1]] = "back" /\ t[2] <= w'[t[1]] <=> pc[t[1]] = "back" /\ t[2] <= w[t[1]]
    BY <2>1, <2>2
  <2>4. Borrowed' = Borrowed
    BY <2>3 DEF Borrowed
  <2>. QED BY <1>3, <2>1, <2>4
<1>13. CASE LimiterRun \/ Refill \/ Cap
  <2>1. B1 = B
    <3>1. pc' = pc /\ w' = w
      BY <1>13 DEF LimiterRun, Refill, Cap, sessionVars
    <3>. QED BY <3>1 DEF Borrowed
  <2> HIDE DEF B, B1
  <2>2. CASE LimiterRun
    BY <1>0, <1>s, <2>1, <2>2 DEF LimiterRun
  <2>3. CASE Refill
    BY <1>0, <1>s, <2>1, <2>3 DEF Refill
  <2>4. CASE Cap
    BY <1>0, <1>s, <2>1, <2>4 DEF Cap, Capped
  <2>. QED BY <1>13, <2>2, <2>3, <2>4
<1>14. CASE UNCHANGED vars
  BY <1>5, <1>14 DEF vars, sessionVars
<1>. QED BY <1>1, <1>2, <1>6, <1>7, <1>8, <1>9, <1>10, <1>11, <1>12, <1>13, <1>14, NextSteps
         DEF Aside

LEMMA InitLimiter == Init => LimiterOK
<1> SUFFICES ASSUME Init PROVE LimiterOK
  OBVIOUS
<1>1. Borrowed = {}
  BY DEF Init, Borrowed
<1>. QED BY <1>1, FS_EmptySet, Constants DEF Init, LimiterOK

\* Every variable keeps its type; the tokens stay within bounds however many loops borrow
\* them, and give them back, while Limiter.Run adds and then stores the cap.
THEOREM TypeCorrect == Spec => []TypeOK
<1>1. Init => LoopTypes /\ LimiterOK
  BY InitTypes, InitLimiter
<1>2. LoopTypes /\ LimiterOK /\ [Next]_vars => (LoopTypes /\ LimiterOK)'
  BY TypesStep, LimiterStep
<1>3. LoopTypes /\ LimiterOK => TypeOK
  <2> SUFFICES ASSUME LoopTypes, LimiterOK PROVE TypeOK
    OBVIOUS
  <2>1. tokens \in -Held .. LimitSize + LimitRate + Held
    <3> DEFINE B == Cardinality(Borrowed)
    <3>1. /\ B \in Nat /\ B <= Held /\ tokens \in Int /\ tokens + B >= 0
          /\ tokens + B <= LimitSize + Held + (IF limiter = "cap" THEN LimitRate ELSE 0)
          /\ LimitSize \in Nat /\ LimitRate \in Nat /\ Held \in Nat
      BY BorrowedBound, Constants DEF LimiterOK
    <3> HIDE DEF B
    <3>. QED BY <3>1
  <2>2. \A c \in Conns : /\ 0 <= r[c] /\ r[c] <= w[c] /\ w[c] <= BufLength
                         /\ got[c] \in 0 .. Size(c) /\ routed[c] \in Seq(Conns \X Nat)
    BY StreamOf DEF LoopTypes
  <2>3. \A b \in Buffers, i \in 1 .. BufLength : mem[b][i] \in {<<>>} \cup (Conns \X Nat)
    BY CellType
  <2>. QED BY <2>1, <2>2, <2>3, SMTT(60) DEF TypeOK, LoopTypes, LimiterOK
<1>. QED BY <1>1, <1>2, <1>3, PTL DEF Spec

----------------------------------------------------------------------------
(* A buffer belongs to one session at a time                                *)

\* A loop that goes on keeps its buffer.
LEMMA GoesOn ==
  ASSUME LoopTypes, Owned, NEW c \in Conns, NEW l, pc' = [pc EXCEPT ![c] = l],
         pc[c] # "new", ~Over(c), l # "new", UNCHANGED <<closed, pool, rBuf>>
  PROVE  Owned'
<1>1. pc'[c] = l /\ \A d \in Conns \ {c} : pc'[d] = pc[d]
  BY DEF LoopTypes
<1>2. closed[c] # "pooled" /\ Holds(c)
  BY DEF Owned, Holds
<1>3. \A d \in Conns : (pc'[d] = "new" => pc[d] = "new") /\ (Holds(d)' => Holds(d))
  BY <1>1, <1>2 DEF Holds
<1>4. \A d \in Conns : closed[d] = "pooled" => Over(d)'
  BY <1>1, <1>2 DEF Owned, Over
<1>. QED BY <1>3, <1>4 DEF Owned

\* Without loops that outlast the 5 s no step gives a buffer that is in use.
LEMMA OwnedStep ==
  ASSUME SlowLoops = FALSE
  PROVE  LoopTypes /\ Owned /\ [Next]_vars => Owned'
<1> SUFFICES ASSUME LoopTypes, Owned, [Next]_vars PROVE Owned'
  OBVIOUS
<1>1. ASSUME NEW c \in Conns, NewSession(c) PROVE Owned'
  <2>1. PICK b \in pool : rBuf' = [rBuf EXCEPT ![c] = b] /\ pool' = pool \ {b}
    BY <1>1 DEF NewSession
  <2>2. /\ pc[c] = "new" /\ closed' = closed /\ pc'[c] \in {"head", "read"}
        /\ \A d \in Conns \ {c} : pc'[d] = pc[d]
    BY <1>1 DEF NewSession, Goto, LoopTypes
  <2>3. rBuf'[c] = b /\ b \notin pool' /\ \A d \in Conns \ {c} : rBuf'[d] = rBuf[d]
    BY <2>1 DEF LoopTypes
  <2>4. closed[c] = "no"
    BY <2>2 DEF Owned
  <2>5. \A d \in Conns \ {c} : Holds(d)' => Holds(d) /\ rBuf'[d] # b /\ rBuf'[d] \notin pool'
    BY <2>1, <2>2, <2>3 DEF Owned, Holds
  <2>6. \A d \in Conns : pc'[d] = "new" => closed'[d] = "no"
    BY <2>2 DEF Owned
  <2>7. \A d \in Conns : closed'[d] = "pooled" => Over(d)'
    BY <2>2, <2>4 DEF Owned, Over
  <2>8. \A d, e \in Conns : d # e /\ Holds(d)' /\ Holds(e)' => rBuf'[d] # rBuf'[e]
    BY <2>3, <2>5 DEF Owned
  <2>. QED BY <2>3, <2>5, <2>6, <2>7, <2>8 DEF Owned
<1>2. ASSUME NEW c \in Conns, Close(c) PROVE Owned'
  <2>1. /\ pc[c] # "new" /\ UNCHANGED <<pc, pool, rBuf>> /\ closed[c] = "no" /\ closed'[c] = "yes"
        /\ \A d \in Conns \ {c} : closed'[d] = closed[d]
    BY <1>2 DEF Close, sessionVars, LoopTypes
  <2>2. \A d \in Conns : Holds(d)' => Holds(d)
    BY <2>1 DEF Holds
  <2>. QED BY <2>1, <2>2 DEF Owned, Over
<1>3. ASSUME NEW c \in Conns, Recycle(c) PROVE Owned'
  <2>1. /\ Over(c) /\ UNCHANGED <<pc, rBuf>> /\ pool' = pool \cup {rBuf[c]}
        /\ closed[c] = "yes" /\ closed'[c] = "pooled"
        /\ \A d \in Conns \ {c} : closed'[d] = closed[d]
    BY <1>3 DEF Recycle, LoopTypes
  <2>2. Holds(c) /\ ~Holds(c)' /\ \A d \in Conns \ {c} : Holds(d)' => Holds(d)
    BY <2>1 DEF Holds, Owned
  <2>3. \A d \in Conns : Holds(d)' => rBuf'[d] \notin pool'
    BY <2>1, <2>2 DEF Owned
  <2>4. \A d \in Conns : pc'[d] = "new" => closed'[d] = "no"
    BY <2>1 DEF Owned, Over
  <2>5. \A d \in Conns : closed'[d] = "pooled" => Over(d)'
    BY <2>1 DEF Owned, Over
  <2>. QED BY <2>1, <2>2, <2>3, <2>4, <2>5 DEF Owned
<1>4. ASSUME UNCHANGED <<pc, closed, pool, rBuf>> PROVE Owned'
  BY <1>4 DEF Owned, Holds, Over
<1>5. ASSUME NEW c \in Conns, NEW L, "new" \notin L, \E l \in L : pc' = [pc EXCEPT ![c] = l],
             pc[c] \in {"head", "read", "take", "back", "route"}, UNCHANGED <<closed, pool, rBuf>>
      PROVE  Owned'
  BY <1>5, GoesOn DEF Over
<1>6. ASSUME NEW c \in Conns, ReadHead(c) PROVE Owned'
  <2>1. \E l \in {"read", "cut", "refused"} : pc' = [pc EXCEPT ![c] = l]
    BY <1>6 DEF ReadHead, Goto
  <2>2. pc[c] = "head" /\ UNCHANGED <<closed, pool, rBuf>>
    BY <1>6 DEF ReadHead, sessionVars
  <2>. QED BY <1>5, <2>1, <2>2
<1>7. ASSUME NEW c \in Conns, Overflow(c) \/ ReadEnds(c) PROVE Owned'
  <2>1. \E l \in {"overflow", "end", "cut"} : pc' = [pc EXCEPT ![c] = l]
    BY <1>7 DEF Overflow, ReadEnds, Goto
  <2>2. pc[c] = "read" /\ UNCHANGED <<closed, pool, rBuf>>
    BY <1>7 DEF Overflow, ReadEnds, sessionVars
  <2>. QED BY <1>5, <2>1, <2>2
<1>8. ASSUME NEW c \in Conns, Take(c) \/ AddBack(c) \/ RouteNil(c) PROVE Owned'
  <2>1. \E l \in {"take", "back", "route", "read"} : pc' = [pc EXCEPT ![c] = l]
    BY <1>8 DEF Take, AddBack, RouteNil, Goto
  <2>2. pc[c] \in {"take", "back", "route"} /\ UNCHANGED <<closed, pool, rBuf>>
    BY <1>8 DEF Take, AddBack, RouteNil, sessionVars
  <2>. QED BY <1>5, <2>1, <2>2
<1>9. ASSUME NEW c \in Conns, Route(c) PROVE Owned'
  <2>1. pc[c] = "route" /\ UNCHANGED <<closed, pool, rBuf>>
    BY <1>9 DEF Route
  <2>2. CASE pc' = pc
    BY <1>4, <2>1, <2>2
  <2>3. CASE \E l \in {"end"} : pc' = [pc EXCEPT ![c] = l]
    BY <1>5, <2>1, <2>3
  <2>. QED BY <1>9, <2>2, <2>3, RouteEffect DEF Goto
<1>10. ASSUME NEW c \in Conns, NEW n \in 1 .. BufLength, Read(c, n) PROVE Owned'
  <2>1. \E l \in {"take"} : pc' = [pc EXCEPT ![c] = l]
    BY <1>10 DEF Read, Goto
  <2>2. pc[c] = "read" /\ UNCHANGED <<closed, pool, rBuf>>
    BY <1>10 DEF Read
  <2>. QED BY <1>5, <2>1, <2>2
<1>11. CASE LimiterRun \/ Refill \/ Cap \/ UNCHANGED vars
  BY <1>4, <1>11 DEF LimiterRun, Refill, Cap, vars, sessionVars
<1>. QED BY <1>1, <1>2, <1>3, <1>6, <1>7, <1>8, <1>9, <1>10, <1>11, NextSteps DEF Aside

----------------------------------------------------------------------------
(* What is in it came from its connection, in order                         *)

\* What a loop had not routed stays where it is while others read.
LEMMA OthersKeep ==
  ASSUME LoopTypes, Owned, Buffered, NEW c \in Conns, NEW n \in 1 .. BufLength, Read(c, n),
         NEW d \in Conns \ {c}, ~Over(d), NEW i \in r[d] + 1 .. w[d]
  PROVE  mem'[rBuf[d]] = mem[rBuf[d]]
<1>1. pc[d] # "new"
  BY DEF Buffered, LoopTypes
<1>2. Holds(d)
  BY <1>1 DEF Holds, Owned
<1>3. Holds(c)
  <2>1. pc[c] = "read"
    BY DEF Read
  <2>. QED BY <2>1 DEF Holds, Owned, Over
<1>4. rBuf[d] \in Buffers \ {rBuf[c]}
  BY <1>2, <1>3 DEF Owned, LoopTypes
<1>. QED BY <1>4, ReadEffect

LEMMA BufferedStep == LoopTypes /\ Owned /\ Buffered /\ [Next]_vars => Buffered'
<1> SUFFICES ASSUME LoopTypes, Owned, Buffered, [Next]_vars PROVE Buffered'
  OBVIOUS
<1>1. ASSUME UNCHANGED <<mem, rBuf, got, r, w>>,
             \A d \in Conns : /\ pc'[d] \in {"new", "head"} => pc[d] \in {"new", "head"}
                              /\ ~Over(d)' => ~Over(d)
      PROVE  Buffered'
  BY <1>1 DEF Buffered
<1>2. ASSUME NEW c \in Conns, Aside(c) PROVE Buffered'
  <2>1. UNCHANGED <<mem, rBuf, got, r, w>>
    BY <1>2, AsideEffect
  <2>2. \A d \in Conns : /\ pc'[d] \in {"new", "head"} => pc[d] \in {"new", "head"}
                         /\ ~Over(d)' => ~Over(d)
    <3>1. CASE Close(c) \/ Recycle(c)
      BY <3>1 DEF Close, Recycle, Over
    <3>2. CASE ReadHead(c) \/ Overflow(c) \/ ReadEnds(c)
      BY <3>2 DEF ReadHead, Overflow, ReadEnds, Goto, Over, LoopTypes
    <3>3. CASE Take(c) \/ AddBack(c) \/ RouteNil(c)
      BY <3>3 DEF Take, AddBack, RouteNil, Goto, Over, LoopTypes
    <3>. QED BY <1>2, <3>1, <3>2, <3>3 DEF Aside
  <2>. QED BY <1>1, <2>1, <2>2
<1>3. ASSUME NEW c \in Conns, NewSession(c) PROVE Buffered'
  <2>1. /\ pc[c] = "new" /\ UNCHANGED <<mem, got, r, w>> /\ r[c] = w[c]
        /\ \A d \in Conns \ {c} : pc'[d] = pc[d] /\ rBuf'[d] = rBuf[d]
    BY <1>3 DEF NewSession, Goto, LoopTypes, Buffered
  <2>2. ASSUME NEW d \in Conns, d # c
        PROVE  /\ pc'[d] \in {"new", "head"} => r'[d] = w'[d]
               /\ ~Over(d)' => \A i \in r'[d] + 1 .. w'[d] :
                                 mem'[rBuf'[d]][i] = <<d, got'[d] - w'[d] + i>>
    BY <2>1, <2>2 DEF Buffered, Over
  <2>3. r'[c] = w'[c] /\ ~ \E i : i \in r'[c] + 1 .. w'[c]
    BY <2>1 DEF LoopTypes
  <2>. QED BY <2>2, <2>3 DEF Buffered
<1>4. ASSUME NEW c \in Conns, Route(c) PROVE Buffered'
  <2>1. UNCHANGED <<mem, rBuf, got, w>> /\ pc[c] = "route"
    BY <1>4 DEF Route
  <2>2. (r' = r /\ Goto(c, "end"))
          \/ \E l \in Nat : r' = [r EXCEPT ![c] = r[c] + l] /\ pc' = pc
    BY <1>4, RouteEffect, FoundFrame
  <2>3. CASE r' = r /\ Goto(c, "end")
    BY <1>1, <2>1, <2>3 DEF Goto, Over, LoopTypes
  <2>4. CASE \E l \in Nat : r' = [r EXCEPT ![c] = r[c] + l] /\ pc' = pc
    <3>1. PICK l \in Nat : r' = [r EXCEPT ![c] = r[c] + l] /\ pc' = pc
      BY <2>4
    <3>2. \A d \in Conns : /\ d # c => r'[d] = r[d]
                           /\ r[d] \in Nat /\ r'[d] \in Nat /\ r'[d] >= r[d] /\ w[d] \in Nat
      BY <3>1 DEF LoopTypes
    <3>3. \A d \in Conns : \A i \in r'[d] + 1 .. w[d] : i \in r[d] + 1 .. w[d]
      BY <3>2
    <3>. QED BY <2>1, <3>1, <3>2, <3>3 DEF Buffered, Over
  <2>. QED BY <2>2, <2>3, <2>4
<1>5. ASSUME NEW c \in Conns, NEW n \in 1 .. BufLength, Read(c, n) PROVE Buffered'
  <2> DEFINE l == w[c] - r[c]
  <2>1. /\ pc[c] = "read" /\ rBuf' = rBuf /\ pc'[c] = "take"
        /\ \A d \in Conns \ {c} : pc'[d] = pc[d]
    BY <1>5 DEF Read, Goto, LoopTypes
  <2>2. /\ l \in Nat /\ l + n <= BufLength /\ r'[c] = 0 /\ w'[c] = l + n /\ got'[c] = got[c] + n
        /\ \A d \in Conns \ {c} : r'[d] = r[d] /\ w'[d] = w[d] /\ got'[d] = got[d]
    BY <1>5, ReadEffect, SMTT(60) DEF LoopTypes
  <2>3. ASSUME NEW d \in Conns, d # c
        PROVE  /\ pc'[d] \in {"new", "head"} => r'[d] = w'[d]
               /\ ~Over(d)' => \A i \in r'[d] + 1 .. w'[d] :
                                 mem'[rBuf'[d]][i] = <<d, got'[d] - w'[d] + i>>
    <3>1. pc'[d] \in {"new", "head"} => r'[d] = w'[d]
      BY <2>1, <2>2, <2>3 DEF Buffered
    <3>2. ASSUME ~Over(d)', NEW i \in r'[d] + 1 .. w'[d]
          PROVE  mem'[rBuf'[d]][i] = <<d, got'[d] - w'[d] + i>>
      <4>1. d \in Conns \ {c} /\ ~Over(d) /\ i \in r[d] + 1 .. w[d]
        BY <2>1, <2>2, <2>3, <3>2 DEF Over
      <4>2. mem'[rBuf[d]] = mem[rBuf[d]]
        BY <1>5, <4>1, OthersKeep
      <4>. QED BY <2>1, <2>2, <4>1, <4>2 DEF Buffered
    <3>. QED BY <3>1, <3>2
  <2>4. ASSUME NEW i \in r'[c] + 1 .. w'[c]
        PROVE  mem'[rBuf[c]][i] = <<c, got'[c] - w'[c] + i>>
    <3>1. i \in 1 .. BufLength /\ i <= l + n /\ got[c] \in Nat /\ r[c] \in Nat /\ w[c] \in Nat
      BY <2>2, Constants DEF LoopTypes
    <3>2. mem'[rBuf[c]][i] = IF i - l \in 1 .. n THEN <<c, got[c] + i - l>>
                             ELSE mem[rBuf[c]][IF i + r[c] <= w[c] THEN i + r[c] ELSE i]
      <4>1. \A j \in 1 .. BufLength :
              mem'[rBuf[c]][j] = IF j - (w[c] - r[c]) \in 1 .. n
                                 THEN <<c, got[c] + j - (w[c] - r[c])>>
                                 ELSE mem[rBuf[c]][IF j + r[c] <= w[c] THEN j + r[c] ELSE j]
        BY <1>5, ReadEffect
      <4>. QED BY <3>1, <4>1
    <3>3. got'[c] - w'[c] + i = got[c] + i - l
      BY <2>2, <3>1
    <3>4. CASE i - l \in 1 .. n
      BY <3>2, <3>3, <3>4
    <3>5. CASE ~(i - l \in 1 .. n)
      <4>1. i + r[c] <= w[c] /\ i + r[c] \in r[c] + 1 .. w[c]
        BY <2>2, <3>1, <3>5
      <4>2. mem'[rBuf[c]][i] = mem[rBuf[c]][i + r[c]]
        BY <3>2, <3>5, <4>1
      <4>3. mem[rBuf[c]][i + r[c]] = <<c, got[c] - w[c] + (i + r[c])>>
        BY <2>1, <4>1 DEF Buffered, Over
      <4>4. got[c] - w[c] + (i + r[c]) = got[c] + i - l
        BY <3>1
      <4>. QED BY <3>3, <4>2, <4>3, <4>4
    <3>. QED BY <3>4, <3>5
  <2>. QED BY <2>1, <2>3, <2>4 DEF Buffered
<1>6. CASE LimiterRun \/ Refill \/ Cap \/ UNCHANGED vars
  BY <1>1, <1>6 DEF LimiterRun, Refill, Cap, vars, sessionVars, Over
<1>. QED BY <1>2, <1>3, <1>4, <1>5, <1>6, NextSteps
----------------------------------------------------------------------------
(* The frames are routed one after the other                                *)

\* Its frames are finitely many.
LEMMA WorkCount ==
  ASSUME LoopTypes, NEW c \in Conns
  PROVE  /\ IsFiniteSet(WorkOf(c)) /\ Cardinality(WorkOf(c)) \in Nat
         /\ \A k : /\ IsFiniteSet(Before(c, k)) /\ Cardinality(Before(c, k)) \in Nat
                   /\ Cardinality(Before(c, k)) <= Cardinality(WorkOf(c))
<1>1. IsFiniteSet(DOMAIN stream[c])
  <2>1. 1 \in Int /\ Len(stream[c]) \in Int /\ DOMAIN stream[c] = 1 .. Len(stream[c])
    BY StreamOf
  <2>. QED BY <2>1, FS_Interval
<1>2. IsFiniteSet(WorkOf(c))
  <2>1. WorkOf(c) \subseteq DOMAIN stream[c]
    BY DEF WorkOf
  <2>. QED BY <1>1, <2>1, FS_Subset
<1>3. ASSUME NEW k
      PROVE  /\ IsFiniteSet(Before(c, k)) /\ Cardinality(Before(c, k)) \in Nat
             /\ Cardinality(Before(c, k)) <= Cardinality(WorkOf(c))
  <2>1. Before(c, k) \subseteq WorkOf(c)
    BY DEF Before
  <2>. QED BY <1>2, <2>1, FS_Subset, FS_CardinalityType
<1>. QED BY <1>2, <1>3, FS_CardinalityType

\* One more with a frame that is for them, else as many.
LEMMA OneMore ==
  ASSUME LoopTypes, NEW c \in Conns, NEW k \in DOMAIN stream[c]
  PROVE  /\ k \notin WorkOf(c) => Before(c, k + 1) = Before(c, k)
         /\ k \in WorkOf(c) =>
              /\ Before(c, k + 1) = {j \in WorkOf(c) : j <= k}
              /\ Cardinality(Before(c, k + 1)) = Cardinality(Before(c, k)) + 1
<1>1. k \in Nat /\ \A j \in WorkOf(c) : j \in Nat
  BY StreamOf DEF WorkOf
<1>2. \A j \in WorkOf(c) : (j < k + 1 <=> j <= k) /\ (j < k + 1 <=> j < k \/ j = k)
  BY <1>1
<1>3. k \notin Before(c, k)
  BY <1>1 DEF Before
<1>4. k \notin WorkOf(c) => Before(c, k + 1) = Before(c, k)
  BY <1>2 DEF Before
<1>5. ASSUME k \in WorkOf(c)
      PROVE  /\ Before(c, k + 1) = {j \in WorkOf(c) : j <= k}
             /\ Cardinality(Before(c, k + 1)) = Cardinality(Before(c, k)) + 1
  <2>1. Before(c, k + 1) = {j \in WorkOf(c) : j <= k}
    BY <1>2 DEF Before
  <2>2. Before(c, k + 1) = Before(c, k) \cup {k}
    BY <1>2, <1>5 DEF Before
  <2>. QED BY <1>3, <2>1, <2>2, WorkCount, FS_AddElement
<1>. QED BY <1>4, <1>5

\* Readable, in the terms of WorkOf.
NthWork(c, i) == CHOOSE k \in WorkOf(c) : Cardinality({j \in WorkOf(c) : j <= k}) = i

LEMMA ReadableIs ==
  ASSUME NEW c \in Conns
  PROVE  Readable(c) = [i \in 1 .. Cardinality(WorkOf(c)) |-> <<c, NthWork(c, i)>>]
BY DEF Readable, WorkOf, NthWork

LEMMA SameStream ==
  ASSUME stream' = stream, NEW c \in Conns
  PROVE  /\ WorkOf(c)' = WorkOf(c) /\ Readable(c)' = Readable(c)
         /\ \A k : Before(c, k)' = Before(c, k)
<1>1. WorkOf(c)' = WorkOf(c)
  BY DEF WorkOf
<1>2. Readable(c)' = Readable(c)
  BY DEF Readable
<1>. QED BY <1>1, <1>2 DEF Before

\* Its last frame up to the k-th is the k-th: no two have as many before.
LEMMA ReadableAt ==
  ASSUME LoopTypes, NEW c \in Conns, NEW k \in WorkOf(c), NEW i \in Nat,
         i = Cardinality(Before(c, k)) + 1
  PROVE  i \in 1 .. Cardinality(WorkOf(c)) /\ Readable(c)[i] = <<c, k>>
<1> DEFINE To(x) == {j \in WorkOf(c) : j <= x}
<1>0. \A x \in WorkOf(c) : x \in DOMAIN stream[c] /\ x \in Nat
  BY StreamOf DEF WorkOf
<1>1. \A x \in WorkOf(c) : /\ To(x) = Before(c, x + 1)
                           /\ Cardinality(To(x)) = Cardinality(Before(c, x)) + 1
  BY <1>0, OneMore
<1>2. Cardinality(To(k)) = i
  BY <1>1
<1>3. ASSUME NEW x \in WorkOf(c), NEW y \in WorkOf(c), x < y
      PROVE  Cardinality(To(x)) # Cardinality(To(y))
  <2>1. To(x) \subseteq Before(c, y)
    BY <1>0, <1>3 DEF Before
  <2>2. Cardinality(To(x)) <= Cardinality(Before(c, y))
    <3>1. IsFiniteSet(Before(c, y))
      BY WorkCount
    <3> HIDE DEF To
    <3>. QED BY <2>1, <3>1, FS_Subset
  <2>3. /\ Cardinality(To(y)) = Cardinality(Before(c, y)) + 1
        /\ Cardinality(Before(c, y)) \in Nat /\ Cardinality(To(x)) \in Nat
    <3>1. Cardinality(Before(c, y)) \in Nat /\ Cardinality(Before(c, x + 1)) \in Nat
      BY WorkCount
    <3>. QED BY <1>1, <3>1
  <2> HIDE DEF To
  <2>. QED BY <2>2, <2>3
<1>4. \A x \in WorkOf(c) : Cardinality(To(x)) = i => x = k
  <2>1. \A x \in WorkOf(c) : x < k \/ k < x \/ x = k
    BY <1>0
  <2> HIDE DEF To
  <2>. QED BY <1>2, <1>3, <2>1
<1>5. NthWork(c, i) = k
  <2>1. NthWork(c, i) = CHOOSE x \in WorkOf(c) : Cardinality(To(x)) = i
    BY DEF NthWork
  <2> HIDE DEF To
  <2>. QED BY <1>2, <1>4, <2>1
<1>6. i \in 1 .. Cardinality(WorkOf(c))
  <2>1. /\ Cardinality(Before(c, k + 1)) = i /\ Cardinality(WorkOf(c)) \in Nat
        /\ Cardinality(Before(c, k + 1)) <= Cardinality(WorkOf(c))
        /\ Cardinality(Before(c, k)) \in Nat
    <3>1. Cardinality(Before(c, k + 1)) = i
      BY <1>1, <1>2
    <3>. QED BY <3>1, WorkCount
  <2>. QED BY <2>1
<1>7. Readable(c)[i] = <<c, NthWork(c, i)>>
  BY <1>6, ReadableIs
<1>. QED BY <1>5, <1>6, <1>7

\* The frame that a loop finds is the one it has come to.
LEMMA FindsNext ==
  ASSUME LoopTypes, Buffered, NEW c \in Conns, pc[c] = "route", NEW fr \in FramesAt(c),
         NEW k \in 1 .. Len(stream[c]) + 1, CameTo(c, k)
  PROVE  k \in DOMAIN stream[c] /\ fr = <<c, k>>
<1>1. /\ fr[1] \in Conns /\ fr[2] \in DOMAIN stream[fr[1]] /\ fr = <<fr[1], fr[2]>>
      /\ Left(c) >= HeadLength
      /\ mem[rBuf[c]][r[c] + 1] = <<fr[1], Offset(stream[fr[1]], fr[2]) + 1>>
  BY FoundFrame
<1>2. r[c] \in Nat /\ w[c] \in Nat /\ got[c] \in Nat /\ r[c] + 1 \in r[c] + 1 .. w[c]
  <2>1. r[c] \in Nat /\ w[c] \in Nat /\ got[c] \in Nat
    BY DEF LoopTypes
  <2>2. w[c] - r[c] >= HeadLength /\ HeadLength \in Nat /\ HeadLength >= 1
    BY <1>1, Constants DEF Left
  <2>. QED BY <2>1, <2>2
<1>3. mem[rBuf[c]][r[c] + 1] = <<c, got[c] - w[c] + (r[c] + 1)>>
  BY <1>2 DEF Buffered, Over
<1>4. fr[1] = c /\ Offset(stream[fr[1]], fr[2]) + 1 = got[c] - w[c] + (r[c] + 1)
  BY <1>1, <1>3
<1>5. fr[2] \in DOMAIN stream[c] /\ Offset(stream[c], fr[2]) + 1 = Offset(stream[c], k) + 1
  <2>1. got[c] - w[c] + (r[c] + 1) = got[c] - w[c] + r[c] + 1
    BY <1>2
  <2>. QED BY <1>1, <1>4, <2>1 DEF CameTo
<1>6. /\ stream[c] \in Seq(Frame) /\ DOMAIN stream[c] = 1 .. Len(stream[c])
      /\ Len(stream[c]) \in Nat /\ \A i \in DOMAIN stream[c] : stream[c][i].len # 0
  <2>1. \A i \in DOMAIN stream[c] : stream[c][i].len \in Nat /\ stream[c][i].len >= HeadLength
    BY StreamOf
  <2>. QED BY <2>1, StreamOf, Constants
<1>7. fr[2] \in 1 .. Len(stream[c]) + 1
  BY <1>5, <1>6
<1>8. Offset(stream[c], fr[2]) \in Nat /\ Offset(stream[c], k) \in Nat
  BY <1>6, <1>7, OffsetNext
<1>9. ~(fr[2] < k) /\ ~(k < fr[2])
  <2>1. ~(Offset(stream[c], fr[2]) < Offset(stream[c], k))
        /\ ~(Offset(stream[c], k) < Offset(stream[c], fr[2]))
    BY <1>5, <1>8
  <2>. QED BY <1>6, <1>7, <2>1, OffsetsDiffer
<1>10. fr[2] = k
  BY <1>6, <1>7, <1>9
<1>. QED BY <1>1, <1>4, <1>5, <1>10

\* Once it is routed the loop has come to the frame after it.
LEMMA RouteComes ==
  ASSUME LoopTypes, Buffered, NEW c \in Conns, Route(c),
         NEW k \in 1 .. Len(stream[c]) + 1, CameTo(c, k)
  PROVE  \E i \in 1 .. Len(stream[c]) + 1 : CameTo(c, i)'
<1>1. PICK fr \in FramesAt(c) :
           LET f == stream[fr[1]][fr[2]]
           IN  /\ r[c] + f.len <= w[c] /\ f.kind # "nil" /\ pc[c] = "route"
               /\ \/ Ends(f) /\ Goto(c, "end") /\ UNCHANGED <<r, routed>>
                  \/ /\ ~Ends(f) /\ r' = [r EXCEPT ![c] = r[c] + f.len]
                     /\ routed' = IF f.kind = "work"
                                  THEN [routed EXCEPT ![c] = Append(routed[c], fr)] ELSE routed
                     /\ pc' = pc
  BY RouteEffect
<1>2. k \in DOMAIN stream[c] /\ fr = <<c, k>> /\ UNCHANGED <<stream, got, w>>
  <2>1. pc[c] = "route"
    BY <1>1
  <2>. QED BY <2>1, FindsNext DEF Route
<1> DEFINE s == stream[c]
           f == s[k]
<1>3. /\ s \in Seq(Frame) /\ Len(s) \in Nat /\ DOMAIN s = 1 .. Len(s)
      /\ f \in Frame /\ f.len \in Nat
  BY <1>2, StreamOf
<1>4. CASE Ends(f)
  <2>1. r' = r /\ routed' = routed
    BY <1>1, <1>2, <1>4
  <2>2. CameTo(c, k)'
    BY <1>2, <2>1, SameStream DEF CameTo
  <2>. QED BY <2>2
<1>5. CASE ~Ends(f)
  <2>1. /\ r[c] + f.len <= w[c] /\ f.kind # "nil" /\ r' = [r EXCEPT ![c] = r[c] + f.len]
        /\ routed' = IF f.kind = "work" THEN [routed EXCEPT ![c] = Append(routed[c], fr)] ELSE routed
    BY <1>1, <1>2, <1>5
  <2>2. k + 1 \in 1 .. Len(s) + 1 /\ k \in Nat
    BY <1>2, <1>3
  <2>3. ~Stops(f)
    <3>1. r[c] \in Nat /\ w[c] \in Nat /\ w[c] <= BufLength /\ BufLength \in Nat
      BY Constants DEF LoopTypes
    <3>2. ~(f.len > BufLength)
      BY <1>3, <2>1, <3>1
    <3>. QED BY <1>5, <2>1, <3>2 DEF Stops
  <2>4. \A j \in 1 .. k : ~Stops(s[j])
    <3>1. \A j \in 1 .. k : j \in 1 .. k - 1 \/ j = k
      BY <2>2
    <3>. QED BY <2>3, <3>1 DEF CameTo
  <2>5. got'[c] - w'[c] + r'[c] = Offset(s, k + 1)
    <3>1. Offset(s, k + 1) = Offset(s, k) + f.len
      BY <1>2, <1>3, OffsetNext
    <3>2. r'[c] = r[c] + f.len /\ got'[c] = got[c] /\ w'[c] = w[c]
      BY <1>2, <2>1 DEF LoopTypes
    <3>3. got[c] - w[c] + r[c] = Offset(s, k) /\ got[c] \in Nat /\ w[c] \in Nat /\ r[c] \in Nat
      BY DEF CameTo, LoopTypes
    <3>4. got[c] - w[c] + (r[c] + f.len) = got[c] - w[c] + r[c] + f.len
      BY <1>3, <3>3
    <3>. QED BY <3>1, <3>2, <3>3, <3>4
  <2>6. k \in WorkOf(c) <=> f.kind = "work"
    BY <1>2, <2>4 DEF WorkOf
  <2>7. /\ Len(routed'[c]) = Cardinality(Before(c, k + 1))
        /\ \A i \in DOMAIN routed'[c] : routed'[c][i] = Readable(c)[i]
    <3>1. routed[c] \in Seq(Conns \X Nat) /\ Len(routed[c]) = Cardinality(Before(c, k))
          /\ \A i \in DOMAIN routed[c] : routed[c][i] = Readable(c)[i]
      BY DEF LoopTypes, CameTo, Before
    <3>2. CASE f.kind # "work"
      <4>1. routed' = routed /\ Before(c, k + 1) = Before(c, k)
        BY <1>2, <2>1, <2>6, <3>2, OneMore
      <4>. QED BY <3>1, <4>1
    <3>3. CASE f.kind = "work"
      <4> DEFINE q == routed[c]
                 n == Len(q)
      <4>1. routed'[c] = Append(q, fr)
        BY <2>1, <3>3 DEF LoopTypes
      <4>2. Cardinality(Before(c, k + 1)) = n + 1 /\ n \in Nat
        BY <1>2, <2>6, <3>1, <3>3, OneMore, LenProperties
      <4>3. Readable(c)[n + 1] = fr
        <5>1. k \in WorkOf(c) /\ n + 1 \in Nat /\ n + 1 = Cardinality(Before(c, k)) + 1
          BY <2>6, <3>1, <3>3, <4>2
        <5>. QED BY <1>2, <5>1, ReadableAt
      <4>4. /\ Len(Append(q, fr)) = n + 1 /\ DOMAIN Append(q, fr) = 1 .. n + 1
            /\ \A i \in 1 .. n : Append(q, fr)[i] = q[i] /\ i \in DOMAIN q
            /\ Append(q, fr)[n + 1] = fr
        <5>1. fr \in Conns \X Nat /\ q \in Seq(Conns \X Nat)
          BY <3>1, FoundFrame
        <5> HIDE DEF q
        <5>2. /\ Len(Append(q, fr)) = Len(q) + 1 /\ Append(q, fr)[Len(q) + 1] = fr
              /\ \A i \in 1 .. Len(q) : Append(q, fr)[i] = q[i]
              /\ Append(q, fr) \in Seq(Conns \X Nat)
          BY <5>1, AppendProperties
        <5>. QED BY <5>1, <5>2, LenProperties
      <4>5. \A i \in 1 .. n + 1 : i \in 1 .. n \/ i = n + 1
        BY <4>2
      <4> HIDE DEF q, n
      <4>6. \A i \in 1 .. n : Append(q, fr)[i] = Readable(c)[i]
        BY <3>1, <4>4 DEF q
      <4>. QED BY <4>1, <4>2, <4>3, <4>4, <4>5, <4>6
    <3>. QED BY <3>2, <3>3
  <2>8. CameTo(c, k + 1)'
    <3>1. Readable(c)' = Readable(c) /\ Before(c, k + 1)' = Before(c, k + 1) /\ stream' = stream
      BY <1>2, SameStream
    <3>2. \A j \in 1 .. k + 1 - 1 : ~Stops(s[j])
      <4>1. k + 1 - 1 = k
        BY <2>2
      <4>. QED BY <2>4, <4>1
    <3>. QED BY <2>5, <2>7, <3>1, <3>2 DEF CameTo
  <2>. QED BY <2>2, <2>8
<1>. QED BY <1>4, <1>5

LEMMA PositionStep == LoopTypes /\ Buffered /\ Position /\ [Next]_vars => Position'
<1> SUFFICES ASSUME LoopTypes, Buffered, Position, [Next]_vars PROVE Position'
  OBVIOUS
<1>1. ASSUME NEW d \in Conns, stream' = stream, routed'[d] = routed[d],
             got'[d] - w'[d] + r'[d] = got[d] - w[d] + r[d]
      PROVE  \E k \in 1 .. Len(stream[d])' + 1 : CameTo(d, k)'
  <2>1. PICK k \in 1 .. Len(stream[d]) + 1 : CameTo(d, k)
    BY DEF Position
  <2>2. CameTo(d, k)'
    BY <1>1, <2>1, SameStream DEF CameTo
  <2>. QED BY <1>1, <2>2
<1>2. ASSUME UNCHANGED <<stream, got, w, r, routed>> PROVE Position'
  BY <1>1, <1>2 DEF Position
<1>3. ASSUME NEW c \in Conns, Aside(c) \/ NewSession(c) PROVE Position'
  BY <1>2, <1>3, AsideEffect DEF NewSession
<1>4. ASSUME NEW c \in Conns, NEW n \in 1 .. BufLength, Read(c, n) PROVE Position'
  <2>1. /\ stream' = stream /\ routed' = routed
        /\ r' = [r EXCEPT ![c] = 0] /\ w' = [w EXCEPT ![c] = w[c] - r[c] + n]
        /\ got' = [got EXCEPT ![c] = got[c] + n]
    BY <1>4, ReadEffect DEF Read
  <2>2. \A d \in Conns : got'[d] - w'[d] + r'[d] = got[d] - w[d] + r[d]
    BY <2>1 DEF LoopTypes
  <2>. QED BY <1>1, <2>1, <2>2 DEF Position
<1>5. ASSUME NEW c \in Conns, Route(c) PROVE Position'
  <2>1. UNCHANGED <<stream, got, w>>
    BY <1>5 DEF Route
  <2>2. \A d \in Conns \ {c} : r'[d] = r[d] /\ routed'[d] = routed[d]
    <3>1. /\ r' = r \/ \E l : r' = [r EXCEPT ![c] = l]
          /\ routed' = routed \/ \E l : routed' = [routed EXCEPT ![c] = l]
      BY <1>5, RouteEffect
    <3>. QED BY <3>1 DEF LoopTypes
  <2>3. \E i \in 1 .. Len(stream[c])' + 1 : CameTo(c, i)'
    <3>1. PICK k \in 1 .. Len(stream[c]) + 1 : CameTo(c, k)
      BY DEF Position
    <3>. QED BY <1>5, <2>1, <3>1, RouteComes
  <2>4. ASSUME NEW d \in Conns, d # c PROVE \E k \in 1 .. Len(stream[d])' + 1 : CameTo(d, k)'
    BY <1>1, <2>1, <2>2, <2>4
  <2>. QED BY <2>3, <2>4 DEF Position
<1>6. CASE LimiterRun \/ Refill \/ Cap \/ UNCHANGED vars
  BY <1>2, <1>6 DEF LimiterRun, Refill, Cap, vars, sessionVars
<1>. QED BY <1>3, <1>4, <1>5, <1>6, NextSteps

LEMMA InitPosition == Init => Owned /\ Buffered /\ Position
<1> SUFFICES ASSUME Init PROVE Owned /\ Buffered /\ Position
  OBVIOUS
<1>1. Owned
  BY DEF Init, Owned, Holds
<1>2. Buffered
  <2>1. \A c \in Conns : r[c] = 0 /\ w[c] = 0 /\ ~ \E i : i \in r[c] + 1 .. w[c]
    BY DEF Init
  <2>. QED BY <2>1 DEF Buffered
<1>3. ASSUME NEW c \in Conns PROVE \E k \in 1 .. Len(stream[c]) + 1 : CameTo(c, k)
  <2>1. stream[c] \in Seq(Frame) /\ Len(stream[c]) \in Nat
    BY InitTypes, StreamOf
  <2>2. got[c] - w[c] + r[c] = Offset(stream[c], 1)
    BY <2>1, OffsetNext DEF Init
  <2>3. Before(c, 1) = {}
    <3>1. \A j \in WorkOf(c) : j \in 1 .. Len(stream[c])
      BY <2>1, LenProperties DEF WorkOf
    <3>. QED BY <3>1 DEF Before
  <2>4. Len(routed[c]) = Cardinality(Before(c, 1)) /\ DOMAIN routed[c] = {}
    <3>1. routed[c] = <<>> /\ Len(<<>>) = 0 /\ DOMAIN <<>> = {} /\ Cardinality({}) = 0
      BY FS_EmptySet DEF Init
    <3>. QED BY <2>3, <3>1
  <2>5. CameTo(c, 1)
    BY <2>2, <2>4 DEF CameTo
  <2>. QED BY <2>1, <2>5
<1>. QED BY <1>1, <1>2, <1>3 DEF Position

\* Whoever has come to a frame has routed those before it.
LEMMA PositionRouted == LoopTypes /\ Position => RoutedInOrder
<1> SUFFICES ASSUME LoopTypes, Position, NEW c \in Conns PROVE IsPrefix(routed[c], Readable(c))
  BY DEF RoutedInOrder
<1> DEFINE q == routed[c]
           t == Readable(c)
<1>1. PICK k \in 1 .. Len(stream[c]) + 1 : CameTo(c, k)
  BY DEF Position
<1>2. /\ q \in Seq(Conns \X Nat) /\ Len(q) \in Nat /\ DOMAIN q = 1 .. Len(q)
      /\ Len(q) = Cardinality(Before(c, k)) /\ \A i \in DOMAIN q : q[i] = t[i]
  BY <1>1, LenProperties DEF LoopTypes, CameTo, Before
<1>3. Len(q) <= Cardinality(WorkOf(c)) /\ Cardinality(WorkOf(c)) \in Nat
  BY <1>2, WorkCount
<1>4. Len(t) = Cardinality(WorkOf(c))
  <2>1. DOMAIN t = 1 .. Cardinality(WorkOf(c))
    BY ReadableIs
  <2> HIDE DEF t
  <2>. QED BY <1>3, <2>1
<1> HIDE DEF q, t
<1>5. SubSeq(q, 1, Len(q)) = SubSeq(t, 1, Len(q))
  <2>1. SubSeq(q, 1, Len(q)) = [i \in 1 .. Len(q) |-> q[i]]
        /\ SubSeq(t, 1, Len(q)) = [i \in 1 .. Len(q) |-> t[i]]
    BY <1>2
  <2>. QED BY <1>2, <2>1
<1>6. IsPrefix(q, t)
  BY <1>3, <1>4, <1>5 DEF IsPrefix
<1>. QED BY <1>6 DEF q, t

\* When every loop is over within the 5 s that Close waits, the handlers of a session are
\* called with the frames its peer sent, each once, whole and in order, however the bytes
\* came and whoever had the buffer before.
THEOREM RoutedCorrect == ASSUME SlowLoops = FALSE PROVE Spec => []RoutedInOrder
<1> DEFINE Inv == LoopTypes /\ Owned /\ Buffered /\ Position
<1>1. Init => Inv
  BY InitTypes, InitPosition
<1>2. Inv /\ [Next]_vars => Inv'
  BY TypesStep, OwnedStep, BufferedStep, PositionStep
<1>3. Inv => RoutedInOrder
  BY PositionRouted
<1>. QED BY <1>1, <1>2, <1>3, PTL DEF Spec
===============================================================================
