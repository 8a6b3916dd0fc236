------------------------ MODULE CircuitBreakerProofs ------------------------
(****************************************************************************)
(* Theorems about the circuit breaker, for every set of callers, every      *)
(* window, threshold and sleep, every number of pings under way and every   *)
(* kind of fault.                                                           *)
(****************************************************************************)
EXTENDS CircuitBreaker, FiniteSetTheorems, SequenceTheorems, WellFoundedInduction, TLAPS

----------------------------------------------------------------------------
(* The half-open token                                                      *)

\* The callers between taking the token and the end of their ping.
Probing == {c \in Callers : pc[c] \in {"stamp", "ping"}}

\* What the argument needs of the types.
ProbeTypes ==
  /\ pc \in [Callers -> {"idle", "sleep", "take", "stamp", "ping"}]
  /\ pings \in Nat
  /\ pong \in {"idle", "token"}
  /\ halfOpenToken \in BOOLEAN

\* The callers, the pings and the pong keep those types.
LEMMA ProbeTypesStep == ProbeTypes /\ [Next]_vars => ProbeTypes'
<1> SUFFICES ASSUME ProbeTypes, [Next]_vars PROVE ProbeTypes'
  OBVIOUS
<1> USE DEF ProbeTypes, breakerVars
<1>1. CASE Tick \/ ErrorRecord \/ RecordSwap \/ RecordStamp
  BY <1>1 DEF Tick, ErrorRecord, RecordSwap, RecordStamp
<1>2. ASSUME NEW c \in Callers, Call(c) PROVE ProbeTypes'
  <2>1. /\ pc' \in [Callers -> {"idle", "sleep", "take", "stamp", "ping"}]
        /\ pings' \in Nat /\ pong' = pong
    BY <1>2 DEF Call, IsPass, CheckSleep, TakeToken, Stamp, PingSent, PingFailed, Goto
  <2>2. halfOpenToken' \in BOOLEAN
    BY <1>2 DEF Call, IsPass, CheckSleep, TakeToken, Stamp, PingSent, PingFailed,
                TokenAfterFailure
  <2>. QED BY <2>1, <2>2
<1>3. CASE Pong \/ ForeignPong \/ PongToken \/ PongLost
  <2>1. pings' \in Nat /\ pc' = pc /\ pong' \in {"idle", "token"}
    BY <1>3 DEF Pong, ForeignPong, PongToken, PongLost
  <2>2. halfOpenToken' \in BOOLEAN
    BY <1>3 DEF Pong, ForeignPong, PongToken, PongLost
  <2>. QED BY <2>1, <2>2
<1>4. CASE UNCHANGED vars
  BY <1>4 DEF vars
<1>. QED BY <1>1, <1>2, <1>3, <1>4 DEF Next, Record

\* The number of callers that probe, and what a change of one caller does to it.
LEMMA ProbingCount ==
  /\ IsFiniteSet(Probing) /\ Cardinality(Probing) \in Nat
  /\ \A c \in Callers : IsFiniteSet(Probing \ {c})
  /\ \A c \in Callers \ Probing :
       Cardinality(Probing \cup {c}) = Cardinality(Probing) + 1
  /\ \A c \in Probing : Cardinality(Probing \ {c}) = Cardinality(Probing) - 1
<1>1. IsFiniteSet(Probing)
  <2>1. Probing \in SUBSET Callers
    BY DEF Probing
  <2>. QED BY <2>1, FS_Subset, ConstantsAssumption
<1>. QED BY <1>1, FS_CardinalityType, FS_AddElement, FS_RemoveElement

\* Every step keeps the half-open state to one probe.
LEMMA OneProbeStep == ProbeTypes /\ OneProbe /\ [Next]_vars => OneProbe'
<1> SUFFICES ASSUME ProbeTypes, OneProbe, [Next]_vars, "foreign" \notin faults'
             PROVE  /\ Probes' <= 1
                    /\ Probes' = 1 => halfOpenToken'
                    /\ halfOpenToken' => Probes' = 1 \/ "lost" \in faults'
  BY DEF OneProbe
<1> DEFINE n == Cardinality(Probing)
           Answered == IF pong = "token" THEN 1 ELSE 0
<1>1. n \in Nat /\ Probes = n + pings + Answered /\ pings \in Nat
  BY ProbingCount DEF Probes, Probing, ProbeTypes
<1>2. Probes' = Cardinality(Probing') + pings' + IF pong' = "token" THEN 1 ELSE 0
  BY DEF Probes, Probing
<1>3. faults \subseteq faults' /\ "foreign" \notin faults
  BY DEF Next, Tick, Record, ErrorRecord, RecordSwap, RecordStamp, Call, IsPass,
         CheckSleep, TakeToken, Stamp, PingSent, PingFailed, Pong, ForeignPong,
         PongToken, PongLost, vars
<1>4. /\ Probes <= 1
      /\ Probes = 1 => halfOpenToken
      /\ halfOpenToken => Probes = 1 \/ "lost" \in faults
  BY <1>3 DEF OneProbe
<1>5. CASE Probing' = Probing /\ UNCHANGED <<pings, pong, halfOpenToken>>
  BY <1>1, <1>2, <1>3, <1>4, <1>5
<1>6. CASE Tick \/ Record \/ UNCHANGED vars
  BY <1>5, <1>6 DEF Tick, Record, ErrorRecord, RecordSwap, RecordStamp, vars,
                    breakerVars, Probing
<1>7. ASSUME NEW c \in Callers, Call(c)
      PROVE  /\ Probes' <= 1
             /\ Probes' = 1 => halfOpenToken'
             /\ halfOpenToken' => Probes' = 1 \/ "lost" \in faults'
  <2>1. CASE IsPass(c) \/ CheckSleep(c) \/ Stamp(c)
    BY <1>5, <2>1 DEF IsPass, CheckSleep, Stamp, Goto, breakerVars, Probing, ProbeTypes
  <2>2. CASE TakeToken(c) /\ halfOpenToken
    BY <1>5, <2>2 DEF TakeToken, TokenFree, Goto, Probing, ProbeTypes
  <2>3. CASE TakeToken(c) /\ ~halfOpenToken
    <3>1. /\ Probing' = Probing \cup {c} /\ c \notin Probing
          /\ UNCHANGED <<pings, pong>> /\ halfOpenToken' = TRUE
      BY <2>3 DEF TakeToken, TokenFree, Goto, Probing, ProbeTypes
    <3>2. Probes = 0
      BY <1>1, <1>4, <2>3
    <3>3. Cardinality(Probing') = n + 1
      BY <3>1, ProbingCount
    <3>. QED BY <1>1, <1>2, <3>1, <3>2, <3>3
  <2>4. CASE PingSent(c) \/ PingFailed(c)
    <3>1. Probing' = Probing \ {c} /\ c \in Probing /\ pong' = pong
      BY <2>4 DEF PingSent, PingFailed, Goto, Probing, ProbeTypes
    <3>2. Cardinality(Probing') = n - 1
      BY <3>1, ProbingCount
    <3>3. n >= 1 /\ Probes = 1 /\ halfOpenToken
      BY <1>1, <1>4, <3>1, <3>2, FS_EmptySet, ProbingCount
    <3>4. CASE PingSent(c)
      <4>1. pings' = pings + 1 /\ halfOpenToken' = halfOpenToken
        BY <3>4 DEF PingSent, breakerVars
      <4>. QED BY <1>1, <1>2, <3>1, <3>2, <3>3, <4>1
    <3>5. CASE PingFailed(c)
      <4>1. pings' = pings /\ halfOpenToken' = FALSE
        BY <3>5 DEF PingFailed, TokenAfterFailure
      <4>. QED BY <1>1, <1>2, <3>1, <3>2, <3>3, <4>1
    <3>. QED BY <2>4, <3>4, <3>5
  <2>. QED BY <1>7, <2>1, <2>2, <2>3, <2>4 DEF Call
<1>8. CASE Pong
  <2>1. /\ Probing' = Probing /\ pings > 0 /\ pings' = pings - 1
        /\ pong = "idle" /\ pong' = "token" /\ halfOpenToken' = halfOpenToken
    BY <1>8 DEF Pong, Probing
  <2>. QED BY <1>1, <1>2, <1>3, <1>4, <2>1
<1>9. CASE ForeignPong
  BY <1>9 DEF ForeignPong
<1>10. CASE PongToken
  <2>1. /\ Probing' = Probing /\ pings' = pings
        /\ pong = "token" /\ pong' = "idle" /\ halfOpenToken' = FALSE
    BY <1>10 DEF PongToken, Probing
  <2>. QED BY <1>1, <1>2, <1>4, <2>1
<1>11. CASE PongLost
  <2>1. /\ Probing' = Probing /\ pings > 0 /\ pings' = pings - 1 /\ pong' = pong
        /\ halfOpenToken' = halfOpenToken /\ "lost" \in faults'
    BY <1>11 DEF PongLost, Probing, breakerVars
  <2>. QED BY <1>1, <1>2, <1>4, <2>1
<1>. QED BY <1>6, <1>7, <1>8, <1>9, <1>10, <1>11 DEF Next

\* As long as no pong of another session ran this session's handler, at most one
\* probe is under way and it holds the token, and unless a pong was lost nothing
\* else does.
THEOREM HalfOpenLetsOneThrough == Spec => []OneProbe
<1>1. Init => ProbeTypes /\ OneProbe
  <2> SUFFICES ASSUME Init PROVE ProbeTypes /\ OneProbe
    OBVIOUS
  <2>1. ProbeTypes
    BY DEF Init, ProbeTypes
  <2>2. Probing = {} /\ pings = 0 /\ pong = "idle" /\ halfOpenToken = FALSE
    BY DEF Init, Probing
  <2>3. Probes = 0
    BY <2>2, FS_EmptySet DEF Probes, Probing
  <2>. QED BY <2>1, <2>2, <2>3 DEF OneProbe
<1>. QED BY <1>1, ProbeTypesStep, OneProbeStep, PTL DEF Spec

----------------------------------------------------------------------------
(* Sums: a fold over a finite set adds up, in whatever order it goes        *)

\* A non-empty set of naturals has a least element.
LEMMA LeastNat ==
  ASSUME NEW T, T \subseteq Nat, T # {}
  PROVE  \E x \in T : \A y \in T : x <= y
<1>1. PICK x \in T : \A y \in T : ~(<<y, x>> \in OpToRel(<, Nat))
  BY NatLessThanWellFounded, WFMin
<1>2. \A y \in T : ~(y < x)
  BY <1>1 DEF OpToRel
<1>. QED BY <1>2

\* f gives the subsets of S the sums of their members' weights: taken in any order ...
Additive(f, S, w) ==
  /\ f \in [SUBSET S -> Nat] /\ f[{}] = 0
  /\ \A T \in SUBSET S : \A x \in T : f[T] = w[x] + f[T \ {x}]

First(T) == CHOOSE x \in T : TRUE

\* ... or in the order in which a fold takes them.
FoldOf(f, S, w) ==
  f = [T \in SUBSET S |-> IF T = {} THEN 0 ELSE w[First(T)] + f[T \ {First(T)}]]

\* A member less is one member less.
LEMMA OneLess ==
  ASSUME NEW S, IsFiniteSet(S), NEW T \in SUBSET S, NEW x \in T
  PROVE  /\ Cardinality(T) \in Nat \ {0}
         /\ Cardinality(T \ {x}) \in Nat /\ Cardinality(T \ {x}) = Cardinality(T) - 1
<1>1. IsFiniteSet(T)
  BY FS_Subset
<1>2. Cardinality(T) \in Nat /\ Cardinality(T) # 0
  BY <1>1, FS_CardinalityType, FS_EmptySet
<1>3. Cardinality(T \ {x}) = Cardinality(T) - 1
  BY <1>1, FS_RemoveElement
<1>. QED BY <1>2, <1>3

\* There is a sum of the weights of a finite set.
LEMMA SumExists ==
  ASSUME NEW S, IsFiniteSet(S), NEW w, \A x \in S : w[x] \in Nat
  PROVE  \E f : Additive(f, S, w)
<1> DEFINE UpTo(f, n) ==
             /\ f \in [SUBSET S -> Nat] /\ f[{}] = 0
             /\ \A T \in SUBSET S : Cardinality(T) <= n =>
                  \A x \in T : f[T] = w[x] + f[T \ {x}]
           Bad == {n \in Nat : ~ \E f : UpTo(f, n)}
<1>1. Bad = {}
  <2> SUFFICES ASSUME Bad # {} PROVE FALSE
    OBVIOUS
  <2>1. PICK n \in Bad : \A m \in Bad : n <= m
    BY LeastNat
  <2>2. n \in Nat /\ ~ \E f : UpTo(f, n)
    BY <2>1
  <2>3. n # 0
    <3> SUFFICES ASSUME n = 0 PROVE FALSE
      OBVIOUS
    <3> DEFINE f == [T \in SUBSET S |-> 0]
    <3>1. ASSUME NEW T \in SUBSET S, Cardinality(T) <= 0, NEW x \in T PROVE FALSE
      <4>1. Cardinality(T) \in Nat \ {0}
        BY OneLess
      <4>. QED BY <3>1, <4>1
    <3>2. UpTo(f, 0)
      BY <3>1
    <3>. QED BY <2>2, <3>2
  <2>4. n - 1 \in Nat /\ n - 1 \notin Bad
    <3> HIDE DEF Bad
    <3>. QED BY <2>1, <2>2, <2>3
  <2>5. PICK f : UpTo(f, n - 1)
    BY <2>4
  <2> DEFINE g == [T \in SUBSET S |->
                     IF Cardinality(T) <= n - 1 THEN f[T]
                     ELSE w[First(T)] + f[T \ {First(T)}]]
  <2>6. ASSUME NEW T \in SUBSET S, T # {} PROVE First(T) \in T
    BY <2>6 DEF First
  <2>7. Cardinality({}) = 0
    BY FS_EmptySet
  <2>8. g \in [SUBSET S -> Nat] /\ g[{}] = 0
    <3>1. ASSUME NEW T \in SUBSET S
          PROVE  (IF Cardinality(T) <= n - 1 THEN f[T]
                  ELSE w[First(T)] + f[T \ {First(T)}]) \in Nat
      <4>1. CASE Cardinality(T) <= n - 1
        BY <2>5, <4>1
      <4>2. CASE ~(Cardinality(T) <= n - 1)
        <5>1. T # {}
          BY <2>4, <2>7, <4>2
        <5>2. w[First(T)] \in Nat /\ f[T \ {First(T)}] \in Nat
          BY <2>5, <2>6, <5>1
        <5>. QED BY <4>2, <5>2
      <4>. QED BY <4>1, <4>2
    <3>2. g[{}] = f[{}]
      BY <2>4, <2>7
    <3>. QED BY <2>5, <3>1, <3>2
  <2>9. ASSUME NEW T \in SUBSET S, Cardinality(T) <= n, NEW x \in T
        PROVE  g[T] = w[x] + g[T \ {x}]
    <3>1. /\ Cardinality(T) \in Nat /\ Cardinality(T \ {x}) \in Nat
          /\ Cardinality(T \ {x}) = Cardinality(T) - 1
      BY OneLess
    <3>2. g[T \ {x}] = f[T \ {x}]
      BY <2>2, <2>9, <3>1
    <3>3. CASE Cardinality(T) <= n - 1
      BY <2>5, <3>2, <3>3
    <3>4. CASE ~(Cardinality(T) <= n - 1)
      <4> DEFINE c == First(T)
      <4>1. c \in T
        BY <2>6
      <4>2. g[T] = w[c] + f[T \ {c}]
        BY <3>4
      <4>3. CASE x = c
        BY <3>2, <4>2, <4>3
      <4>4. CASE x # c
        <5> HIDE DEF c, g
        <5>1. Cardinality(T \ {c}) \in Nat /\ Cardinality(T \ {c}) = Cardinality(T) - 1
          BY <4>1, OneLess
        <5>2. Cardinality(T \ {c}) <= n - 1 /\ Cardinality(T \ {x}) <= n - 1
          BY <2>2, <2>9, <3>1, <5>1
        <5>3. f[T \ {c}] = w[x] + f[(T \ {c}) \ {x}]
          BY <2>5, <4>4, <5>2
        <5>4. f[T \ {x}] = w[c] + f[(T \ {x}) \ {c}]
          BY <2>5, <4>1, <4>4, <5>2
        <5>5. (T \ {c}) \ {x} = (T \ {x}) \ {c}
          OBVIOUS
        <5>6. w[x] \in Nat /\ w[c] \in Nat /\ f[(T \ {x}) \ {c}] \in Nat
          BY <2>5, <4>1
        <5>7. \A i, j, k \in Nat : i + (j + k) = j + (i + k)
          OBVIOUS
        <5>8. w[c] + (w[x] + f[(T \ {x}) \ {c}]) = w[x] + (w[c] + f[(T \ {x}) \ {c}])
          BY <5>6, <5>7
        <5>. QED BY <3>2, <4>2, <5>3, <5>4, <5>5, <5>8
      <4>. QED BY <4>3, <4>4
    <3>. QED BY <3>3, <3>4
  <2>10. UpTo(g, n)
    <3> HIDE DEF g
    <3>. QED BY <2>8, <2>9
  <2>. QED BY <2>2, <2>10, ZenonT(60)
<1>2. Cardinality(S) \in Nat
  BY FS_CardinalityType
<1>3. PICK f : UpTo(f, Cardinality(S))
  BY <1>1, <1>2
<1>4. ASSUME NEW T \in SUBSET S PROVE Cardinality(T) <= Cardinality(S)
  BY FS_Subset
<1>5. Additive(f, S, w)
  BY <1>3, <1>4 DEF Additive
<1>. QED BY <1>5

\* What a fold computes is that sum.
LEMMA FoldAdds ==
  ASSUME NEW S, IsFiniteSet(S), NEW w, \A x \in S : w[x] \in Nat,
         NEW g, FoldOf(g, S, w)
  PROVE  Additive(g, S, w)
<1>1. PICK f : Additive(f, S, w)
  BY SumExists
<1> DEFINE Bad == {n \in Nat : \E T \in SUBSET S : Cardinality(T) = n /\ g[T] # f[T]}
<1>2. Bad = {}
  <2> SUFFICES ASSUME Bad # {} PROVE FALSE
    OBVIOUS
  <2>1. PICK n \in Bad : \A m \in Bad : n <= m
    BY LeastNat
  <2>2. PICK T \in SUBSET S : Cardinality(T) = n /\ g[T] # f[T]
    BY <2>1
  <2>3. T # {}
    BY <1>1, <2>2 DEF Additive, FoldOf
  <2> DEFINE x == First(T)
  <2>4. x \in T
    BY <2>3 DEF First
  <2>5. g[T] = w[x] + g[T \ {x}] /\ f[T] = w[x] + f[T \ {x}]
    BY <1>1, <2>3, <2>4 DEF Additive, FoldOf
  <2> HIDE DEF x
  <2>6. Cardinality(T \ {x}) \in Nat /\ Cardinality(T \ {x}) = n - 1 /\ n \in Nat
    BY <2>2, <2>4, OneLess
  <2>7. Cardinality(T \ {x}) \notin Bad
    <3> HIDE DEF Bad
    <3>. QED BY <2>1, <2>6
  <2>8. g[T \ {x}] = f[T \ {x}]
    BY <2>6, <2>7
  <2>. QED BY <2>2, <2>5, <2>8
<1>3. ASSUME NEW T \in SUBSET S PROVE g[T] = f[T]
  BY <1>2, FS_Subset, FS_CardinalityType
<1>4. g \in [SUBSET S -> Nat]
  <2>1. g = [T \in SUBSET S |-> IF T = {} THEN 0 ELSE w[First(T)] + g[T \ {First(T)}]]
    BY DEF FoldOf
  <2>. QED BY <1>1, <1>3, <2>1 DEF Additive
<1>. QED BY <1>1, <1>3, <1>4 DEF Additive

\* There is a fold.
LEMMA FoldExists ==
  ASSUME NEW S, IsFiniteSet(S), NEW w, \A x \in S : w[x] \in Nat
  PROVE  \E f : FoldOf(f, S, w)
<1>1. PICK f : Additive(f, S, w)
  BY SumExists
<1>2. ASSUME NEW T \in SUBSET S
      PROVE  f[T] = IF T = {} THEN 0 ELSE w[First(T)] + f[T \ {First(T)}]
  BY <1>1 DEF Additive, First
<1>3. FoldOf(f, S, w)
  BY <1>1, <1>2 DEF Additive, FoldOf
<1>. QED BY <1>3

Counts(s) == [i \in DOMAIN s |-> s[i].count]

LEMMA SumCountsAdds ==
  ASSUME NEW s, IsFiniteSet(DOMAIN s), \A i \in DOMAIN s : s[i].count \in Nat
  PROVE  \E f : Additive(f, DOMAIN s, Counts(s)) /\ SumCounts(s) = f[DOMAIN s]
<1> DEFINE CountFold(f) ==
             f = [T \in SUBSET DOMAIN s |->
                    IF T = {} THEN 0 ELSE s[First(T)].count + f[T \ {First(T)}]]
<1>1. \A x \in DOMAIN s : Counts(s)[x] \in Nat
  BY DEF Counts
<1>2. \A f : CountFold(f) <=> FoldOf(f, DOMAIN s, Counts(s))
  <2>1. \A T \in SUBSET DOMAIN s : T # {} => Counts(s)[First(T)] = s[First(T)].count
    BY DEF Counts, First
  <2>. QED BY <2>1 DEF FoldOf
<1>3. PICK f : CountFold(f)
  BY <1>1, <1>2, FoldExists
<1>4. \E g : CountFold(g) /\ SumCounts(s) = g[DOMAIN s]
  BY <1>3, Zenon DEF First, SumCounts, FoldSeq, FoldFunction, FoldFunctionOnSet,
                     MapThenFoldSet
<1>. QED BY <1>1, <1>2, <1>4, FoldAdds


\* ErrorsUpTo, of any record of errors.
SumErrors(e, a) == FoldSet(LAMBDA b, n : e[b] + n, 0, {b \in DOMAIN e : b >= a})

LEMMA SumErrorsAdds ==
  ASSUME NEW a, NEW e, NEW B, B = {b \in DOMAIN e : b >= a}, IsFiniteSet(B),
         \A b \in B : e[b] \in Nat
  PROVE  \E f : Additive(f, B, e) /\ SumErrors(e, a) = f[B]
<1>1. PICK f : FoldOf(f, B, e)
  BY FoldExists
<1>2. \E g : FoldOf(g, B, e) /\ SumErrors(e, a) = g[B]
  BY <1>1, ZenonT(60) DEF FoldOf, First, SumErrors, FoldSet, MapThenFoldSet
<1>. QED BY <1>2, FoldAdds

\* Two sums agree when each weight of the first is one of the second, and the others of
\* the second are zero.
Matches(m, I, w, S, v) ==
  /\ \A i \in I : m[i] \in S /\ w[i] = v[m[i]]
  /\ \A i, j \in I : m[i] = m[j] => i = j
  /\ \A a \in S : v[a] # 0 => \E i \in I : m[i] = a
  /\ \A a \in S : v[a] \in Nat

LEMMA SameSum ==
  ASSUME NEW I0, NEW S0, NEW w, NEW v, NEW f, NEW h, Additive(f, I0, w), Additive(h, S0, v),
         NEW I \in SUBSET I0, NEW S \in SUBSET S0, IsFiniteSet(I0), IsFiniteSet(S0),
         NEW m, Matches(m, I, w, S, v)
  PROVE  f[I] = h[S]
<1> DEFINE Image(T) == {m[i] : i \in T}
           Bad == {n \in Nat : \E T \in SUBSET I : Cardinality(T) = n /\ f[T] # h[Image(T)]}
           Worse == {n \in Nat : \E U \in SUBSET S :
                       Image(I) \subseteq U /\ Cardinality(U) = n /\ h[U] # h[Image(I)]}
<1>0. /\ \A i \in I : m[i] \in S /\ w[i] = v[m[i]]
      /\ \A i, j \in I : m[i] = m[j] => i = j
      /\ \A a \in S : v[a] # 0 => \E i \in I : m[i] = a
      /\ \A a \in S : v[a] \in Nat
  BY DEF Matches
<1>1. Bad = {}
  <2> SUFFICES ASSUME Bad # {} PROVE FALSE
    OBVIOUS
  <2>1. PICK n \in Bad : \A k \in Bad : n <= k
    BY LeastNat
  <2>2. PICK T \in SUBSET I : Cardinality(T) = n /\ f[T] # h[Image(T)]
    BY <2>1
  <2>3. T # {}
    <3> SUFFICES ASSUME T = {} PROVE FALSE
      OBVIOUS
    <3>1. Image(T) = {}
      OBVIOUS
    <3>. QED BY <2>2, <3>1 DEF Additive
  <2>4. PICK x \in T : TRUE
    BY <2>3
  <2>5. f[T] = w[x] + f[T \ {x}]
    BY <2>4 DEF Additive
  <2>6. Image(T) \ {m[x]} = Image(T \ {x}) /\ m[x] \in Image(T) /\ Image(T) \in SUBSET S0
    BY <1>0, <2>4
  <2>7. h[Image(T)] = v[m[x]] + h[Image(T \ {x})]
    <3>1. h[Image(T)] = v[m[x]] + h[Image(T) \ {m[x]}]
      <4> HIDE DEF Image
      <4>. QED BY <2>6 DEF Additive
    <3>. QED BY <2>6, <3>1
  <2>8. Cardinality(T \ {x}) \in Nat /\ Cardinality(T \ {x}) = n - 1 /\ n \in Nat
    BY <2>2, <2>4, OneLess
  <2>9. Cardinality(T \ {x}) \notin Bad
    <3> HIDE DEF Bad
    <3>. QED BY <2>1, <2>8
  <2>10. f[T \ {x}] = h[Image(T \ {x})]
    <3>1. T \ {x} \in SUBSET I
      OBVIOUS
    <3> HIDE DEF Image
    <3>. QED BY <2>8, <2>9, <3>1
  <2>11. w[x] = v[m[x]]
    BY <1>0, <2>4
  <2> HIDE DEF Image, Bad
  <2>. QED BY <2>2, <2>5, <2>7, <2>10, <2>11
<1>2. f[I] = h[Image(I)]
  <2>1. Cardinality(I) \in Nat
    BY FS_Subset, FS_CardinalityType
  <2> HIDE DEF Image
  <2>. QED BY <1>1, <2>1
<1>3. Image(I) \subseteq S /\ \A a \in S \ Image(I) : v[a] = 0
  BY <1>0
<1>4. Worse = {}
  <2> HIDE DEF Image
  <2> SUFFICES ASSUME Worse # {} PROVE FALSE
    OBVIOUS
  <2>1. PICK n \in Worse : \A k \in Worse : n <= k
    BY LeastNat
  <2>2. PICK U \in SUBSET S : Image(I) \subseteq U /\ Cardinality(U) = n /\ h[U] # h[Image(I)]
    BY <2>1
  <2>3. PICK x \in U : x \notin Image(I)
    BY <2>2
  <2>4. h[U] = v[x] + h[U \ {x}] /\ v[x] = 0 /\ h[U \ {x}] \in Nat
    BY <1>3, <2>3 DEF Additive
  <2>5. Cardinality(U \ {x}) \in Nat /\ Cardinality(U \ {x}) = n - 1 /\ n \in Nat
    BY <2>2, <2>3, OneLess
  <2>6. Cardinality(U \ {x}) \notin Worse
    <3> HIDE DEF Worse
    <3>. QED BY <2>1, <2>5
  <2>7. h[U \ {x}] = h[Image(I)]
    BY <2>2, <2>3, <2>5, <2>6
  <2>. QED BY <2>2, <2>4, <2>7
<1>5. Cardinality(S) \in Nat
  BY FS_Subset, FS_CardinalityType
<1> HIDE DEF Image
<1>. QED BY <1>2, <1>3, <1>4, <1>5

----------------------------------------------------------------------------
(* The window                                                               *)

Ages == 0 .. RollingBucketsNum - 1
Bucket == [age : 0 .. Oldest, count : Nat \ {0}, total : Nat \ {0}]

\* Later buckets are younger, those out of the window excepted.
Apart(s) == \A i, j \in DOMAIN s : i < j => s[i].age = Oldest \/ s[j].age < s[i].age

\* The buckets hold the errors of the window.
Accounted(s, e) ==
  /\ \A i \in DOMAIN s : InWindow(s[i]) => s[i].count = e[s[i].age]
  /\ \A a \in Ages : e[a] # 0 => \E i \in DOMAIN s : s[i].age = a

LEMMA Periods ==
  /\ RollingBucketsNum \in Nat /\ 0 < RollingBucketsNum /\ 0 \in Ages /\ IsFiniteSet(Ages)
  /\ MaxErrors \in Nat /\ SleepWindow \in Nat
  /\ \A b \in Bucket : b.age \in Nat /\ (InWindow(b) <=> b.age \in Ages)
                       /\ (~InWindow(b) <=> b.age = Oldest)
<1>1. RollingBucketsNum \in Nat /\ 0 < RollingBucketsNum /\ MaxErrors \in Nat /\ SleepWindow \in Nat
  BY ConstantsAssumption
<1>2. IsFiniteSet(Ages)
  <2>1. 0 \in Int /\ RollingBucketsNum - 1 \in Int
    BY <1>1
  <2>. QED BY <2>1, FS_Interval DEF Ages
<1>3. ASSUME NEW b \in Bucket
      PROVE  b.age \in Nat /\ (InWindow(b) <=> b.age \in Ages) /\ (~InWindow(b) <=> b.age = Oldest)
  <2>1. b.age \in 0 .. RollingBucketsNum
    BY DEF Bucket, Oldest
  <2>. QED BY <1>1, <2>1 DEF InWindow, Ages, Oldest
<1>. QED BY <1>1, <1>2, <1>3 DEF Ages

\* There is a sum of the errors.
LEMMA ErrorsAdd ==
  ASSUME NEW e \in [Ages -> Nat]
  PROVE  \E f : Additive(f, Ages, e) /\ SumErrors(e, 0) = f[Ages]
<1>1. Ages = {b \in DOMAIN e : b >= 0}
  BY Periods DEF Ages
<1>2. \A b \in Ages : e[b] \in Nat
  OBVIOUS
<1>. QED BY <1>1, <1>2, Periods, SumErrorsAdds

\* The counts of the window add up to its errors.
LEMMA WindowSum ==
  ASSUME NEW s \in Seq(Bucket), NEW e \in [Ages -> Nat], Apart(s), Accounted(s, e),
         \A i \in DOMAIN s : InWindow(s[i])
  PROVE  SumCounts(s) = SumErrors(e, 0) /\ SumCounts(s) \in Nat
<1> DEFINE I == DOMAIN s
           m == [i \in I |-> s[i].age]
<1>1. I = 1 .. Len(s) /\ Len(s) \in Nat /\ \A i \in I : s[i] \in Bucket
  BY LenProperties
<1>2. IsFiniteSet(I)
  <2>1. 1 \in Int /\ Len(s) \in Int
    BY <1>1
  <2>. QED BY <1>1, <2>1, FS_Interval
<1>3. \A i \in I : s[i].count \in Nat /\ m[i] \in Ages
  BY <1>1, Periods DEF Bucket
<1>4. PICK f : Additive(f, I, Counts(s)) /\ SumCounts(s) = f[I]
  BY <1>2, <1>3, SumCountsAdds
<1>6. PICK h : Additive(h, Ages, e) /\ SumErrors(e, 0) = h[Ages]
  BY ErrorsAdd
<1>7. \A i \in I : Counts(s)[i] = e[m[i]]
  BY <1>1 DEF Counts, Accounted
<1>8. \A i, j \in I : m[i] = m[j] => i = j
  <2> SUFFICES ASSUME NEW i \in I, NEW j \in I, i < j, m[i] = m[j] PROVE FALSE
    BY <1>1
  <2>1. s[i].age = Oldest \/ s[j].age < s[i].age
    BY DEF Apart
  <2>2. s[i].age # Oldest /\ s[i].age \in Nat /\ s[i].age = s[j].age
    BY <1>1, Periods
  <2>. QED BY <2>1, <2>2
<1>9. \A a \in Ages : e[a] # 0 => \E i \in I : m[i] = a
  BY DEF Accounted
<1>10. f[I] = h[Ages]
  <2>1. \A i \in I : m[i] \in Ages /\ Counts(s)[i] = e[m[i]]
    BY <1>3, <1>7
  <2>2. \A a \in Ages : e[a] \in Nat
    OBVIOUS
  <2>3. I \in SUBSET I /\ Ages \in SUBSET Ages /\ IsFiniteSet(Ages)
    BY Periods
  <2>4. Matches(m, I, Counts(s), Ages, e)
    BY <1>8, <1>9, <2>1, <2>2 DEF Matches
  <2> HIDE DEF I, m
  <2>. QED BY <1>2, <1>4, <1>6, <2>3, <2>4, SameSum
<1>11. f[I] \in Nat
  BY <1>4 DEF Additive
<1>. QED BY <1>4, <1>6, <1>10, <1>11

\* One error more adds one.
LEMMA OneError ==
  ASSUME NEW e \in [Ages -> Nat], NEW d \in [Ages -> Nat],
         d[0] = e[0] + 1, \A a \in Ages \ {0} : d[a] = e[a]
  PROVE  SumErrors(d, 0) = SumErrors(e, 0) + 1 /\ SumErrors(e, 0) \in Nat
<1> DEFINE R == Ages \ {0}
           m == [a \in R |-> a]
<1>2. PICK f : Additive(f, Ages, e) /\ SumErrors(e, 0) = f[Ages]
  BY ErrorsAdd
<1>3. PICK h : Additive(h, Ages, d) /\ SumErrors(d, 0) = h[Ages]
  BY ErrorsAdd
<1>4. /\ \A i \in R : m[i] \in R /\ e[i] = d[m[i]]
      /\ \A i, j \in R : m[i] = m[j] => i = j
      /\ \A a \in R : d[a] # 0 => \E i \in R : m[i] = a
      /\ \A a \in R : d[a] \in Nat
  OBVIOUS
<1>5. R \in SUBSET Ages
  OBVIOUS
<1>6. f[Ages] = e[0] + f[R] /\ h[Ages] = d[0] + h[R] /\ f[R] \in Nat
  BY <1>2, <1>3, Periods DEF Additive
<1>7. d[0] = e[0] + 1 /\ e[0] \in Nat
  BY Periods
<1>8. f[R] = h[R]
  <2>1. IsFiniteSet(Ages)
    BY Periods
  <2>2. Matches(m, R, e, R, d)
    BY <1>4 DEF Matches
  <2> HIDE DEF R, m
  <2>. QED BY <1>2, <1>3, <1>5, <2>1, <2>2, SameSum
<1>. QED BY <1>2, <1>3, <1>6, <1>7, <1>8

\* The greatest of some indices.
LEMMA MaxIndex ==
  ASSUME NEW n \in Nat, NEW T \in SUBSET (1 .. n), T # {}
  PROVE  Max(T) \in T /\ \A i \in T : i <= Max(T)
<1> DEFINE D == {n - i : i \in T}
<1>1. D \subseteq Nat /\ D # {}
  <2>1. \A i \in T : i \in 1 .. n /\ n - i \in Nat
    OBVIOUS
  <2>. QED BY <2>1
<1>2. PICK d \in D : \A x \in D : d <= x
  BY <1>1, LeastNat
<1>3. PICK k \in T : d = n - k
  BY <1>2
<1>4. \A i \in T : k >= i
  <2> SUFFICES ASSUME NEW i \in T PROVE k >= i
    OBVIOUS
  <2>1. d <= n - i
    BY <1>2
  <2>2. i \in 1 .. n /\ k \in 1 .. n
    OBVIOUS
  <2>. QED BY <1>3, <2>1, <2>2
<1>5. Max(T) \in T /\ \A i \in T : Max(T) >= i
  BY <1>4 DEF Max
<1>. QED BY <1>5

\* Kept cuts off what is out of the window, and nothing else.
LEMMA KeptIsWindow ==
  ASSUME NEW s \in Seq(Bucket), Apart(s), s # <<>>, InWindow(s[Len(s)])
  PROVE  \E m \in 0 .. Len(s) - 1 :
           /\ Kept(s) \in Seq(Bucket) /\ Len(Kept(s)) = Len(s) - m
           /\ \A i \in 1 .. Len(s) - m : m + i \in 1 .. Len(s) /\ Kept(s)[i] = s[m + i]
                                         /\ InWindow(s[m + i])
           /\ \A j \in 1 .. Len(s) : InWindow(s[j]) => m < j
<1>1. /\ DOMAIN s = 1 .. Len(s) /\ Len(s) \in Nat /\ 0 < Len(s)
      /\ \A i \in 1 .. Len(s) : s[i] \in Bucket
  BY LenProperties, EmptySeq
<1> DEFINE n == Len(s)
           out == {i \in DOMAIN s : ~InWindow(s[i])}
<1>2. CASE out = {}
  <2>1. Kept(s) = s
    BY <1>2 DEF Kept
  <2>2. \A i \in 1 .. n : InWindow(s[i]) /\ 0 + i = i
    BY <1>1, <1>2
  <2>3. 0 \in 0 .. n - 1 /\ n - 0 = n /\ \A j \in 1 .. n : 0 < j
    BY <1>1
  <2>. QED BY <2>1, <2>2, <2>3
<1>3. CASE out # {}
  <2> DEFINE m == Max(out)
  <2>1. m \in out /\ \A i \in out : i <= m
    <3>1. out \in SUBSET (1 .. n)
      BY <1>1
    <3> HIDE DEF out
    <3>. QED BY <1>1, <1>3, <3>1, MaxIndex
  <2>2. Kept(s) = SubSeq(s, m + 1, n)
    BY <1>3 DEF Kept
  <2> HIDE DEF m
  <2>3. m \in 1 .. n - 1 /\ m \in Nat /\ s[m].age = Oldest
    <3>1. m \in 1 .. n /\ m # n /\ ~InWindow(s[m])
      BY <1>1, <2>1
    <3>2. s[m].age = Oldest
      BY <1>1, <3>1, Periods
    <3>3. \A k, l \in Nat : k \in 1 .. l /\ k # l => k \in 1 .. l - 1
      OBVIOUS
    <3>4. m \in Nat /\ n \in Nat /\ m \in 1 .. n
      <4>1. n \in Nat
        BY <1>1
      <4>2. m \in 1 .. n
        BY <3>1
      <4>. QED BY <4>1, <4>2
    <3>5. m \in 1 .. n - 1
      BY <3>1, <3>3, <3>4
    <3>. QED BY <3>2, <3>4, <3>5
  <2>4. \A i \in m + 1 .. n : s[i] \in Bucket
    BY <1>1, <2>3
  <2>5. /\ Kept(s) \in Seq(Bucket)
        /\ Len(Kept(s)) = IF m + 1 <= n THEN n - (m + 1) + 1 ELSE 0
        /\ \A i \in 1 .. n - (m + 1) + 1 : Kept(s)[i] = s[(m + 1) + i - 1]
    BY <1>1, <2>2, <2>3, <2>4, SubSeqProperties
  <2>6. Len(Kept(s)) = n - m
    <3>1. Len(Kept(s)) = IF m + 1 <= n THEN n - (m + 1) + 1 ELSE 0
      BY <2>5
    <3>. QED BY <1>1, <2>3, <3>1
  <2>7. ASSUME NEW i \in 1 .. n - m
        PROVE  m + i \in 1 .. n /\ Kept(s)[i] = s[m + i] /\ InWindow(s[m + i])
    <3>1. m + i \in 1 .. n /\ (m + 1) + i - 1 = m + i /\ i \in 1 .. n - (m + 1) + 1 /\ m < m + i
      BY <1>1, <2>3
    <3>2. m + i \notin out
      BY <2>1, <2>3, <3>1
    <3>. QED BY <1>1, <2>5, <3>1, <3>2
  <2>8. ASSUME NEW j \in 1 .. n, InWindow(s[j]) PROVE m < j
    <3> SUFFICES ASSUME j < m PROVE FALSE
      <4>1. j # m
        BY <2>1, <2>8
      <4>. QED BY <1>1, <2>3, <4>1
    <3>1. s[j].age = Oldest \/ s[m].age < s[j].age
      BY <1>1, <2>3 DEF Apart
    <3>2. s[j].age \in Nat /\ s[j].age < Oldest
      BY <1>1, <2>8, Periods DEF InWindow, Oldest
    <3>. QED BY <2>3, <3>1, <3>2, Periods DEF Oldest
  <2>9. m \in 0 .. n - 1
    BY <1>1, <2>3
  <2>. QED BY <2>5, <2>6, <2>7, <2>8, <2>9
<1>. QED BY <1>2, <1>3

\* What is kept of the errors: the newest bucket's total is their number, or one more.
WindowIn(s, e) ==
  /\ s \in Seq(Bucket) /\ e \in [Ages -> 0 .. MaxErrors]
  /\ Apart(s) /\ Accounted(s, e)
  /\ s # <<>> /\ s[Len(s)].age = 0 => s[Len(s)].total \in {SumErrors(e, 0), SumErrors(e, 0) + 1}

\* The first error.
LEMMA FirstError ==
  ASSUME WindowIn(<<>>, errors),
         NEW d \in [Ages -> 0 .. MaxErrors],
         d[0] = errors[0] + 1, \A a \in Ages \ {0} : d[a] = errors[a]
  PROVE  WindowIn(<<Fresh(1)>>, d)
<1> DEFINE s == <<Fresh(1)>>
<1> USE Periods
<1>1. Fresh(1) \in Bucket /\ Fresh(1).age = 0 /\ Fresh(1).count = 1 /\ Fresh(1).total = 1
  BY DEF Fresh, Bucket, Oldest
<1>2. s \in Seq(Bucket) /\ Len(s) = 1 /\ DOMAIN s = {1} /\ s[1] = Fresh(1)
  BY <1>1
<1>3. errors \in [Ages -> Nat] /\ d \in [Ages -> Nat] /\ \A a \in Ages : errors[a] = 0
  BY DEF WindowIn, Accounted
<1>4. SumErrors(errors, 0) = 0
  <2>1. <<>> \in Seq(Bucket) /\ DOMAIN <<>> = {}
    OBVIOUS
  <2>2. SumCounts(<<>>) = SumErrors(errors, 0)
    BY <1>3, <2>1, WindowSum DEF WindowIn
  <2>3. IsFiniteSet(DOMAIN <<>>)
    BY <2>1, FS_EmptySet
  <2>4. \E f : Additive(f, DOMAIN <<>>, Counts(<<>>)) /\ SumCounts(<<>>) = f[DOMAIN <<>>]
    BY <2>1, <2>3, SumCountsAdds
  <2>. QED BY <2>1, <2>2, <2>4 DEF Additive
<1>5. SumErrors(d, 0) = 1
  BY <1>3, <1>4, OneError
<1>6. d[0] = 1 /\ \A a \in Ages : d[a] # 0 => a = 0
  BY <1>3
<1> HIDE DEF s
<1>7. Apart(s) /\ Accounted(s, d)
  BY <1>1, <1>2, <1>6 DEF Apart, Accounted
<1>. QED BY <1>1, <1>2, <1>5, <1>7 DEF WindowIn, s

\* One error more in the newest bucket.
LEMMA ErrorCounted ==
  ASSUME WindowIn(item, errors), item # <<>>, item[Len(item)].age = 0,
         NEW d \in [Ages -> 0 .. MaxErrors],
         d[0] = errors[0] + 1, \A a \in Ages \ {0} : d[a] = errors[a],
         NEW s, s = [item EXCEPT ![Len(item)] = Counted(@)]
  PROVE  WindowIn(s, d)
<1> DEFINE n == Len(item)
<1> USE Periods
<1>1. /\ item \in Seq(Bucket) /\ DOMAIN item = 1 .. n /\ n \in Nat /\ 0 < n
      /\ \A i \in 1 .. n : item[i] \in Bucket
  BY LenProperties, EmptySeq DEF WindowIn
<1>2. n \in 1 .. n
  BY <1>1
<1>3. /\ s[n] \in Bucket /\ s[n].age = 0
      /\ s[n].count = item[n].count + 1 /\ s[n].total = item[n].total + 1
  <2>1. item[n] \in Bucket /\ s[n] = Counted(item[n])
    BY <1>1, <1>2
  <2>. QED BY <2>1 DEF Counted, Bucket
<1>4. s \in Seq(Bucket) /\ Len(s) = n /\ DOMAIN s = 1 .. n /\ \A i \in 1 .. n : i # n => s[i] = item[i]
  <2>1. s \in Seq(Bucket)
    BY <1>1, <1>2, <1>3, ExceptSeq
  <2>2. Len(s) = n /\ DOMAIN s = 1 .. n
    BY <1>1, <1>2, <1>3, ExceptSeq
  <2>. QED BY <1>1, <2>1, <2>2
<1>5. \A i \in 1 .. n : s[i].age = item[i].age
  BY <1>3, <1>4
<1>6. errors \in [Ages -> Nat] /\ d \in [Ages -> Nat]
  BY DEF WindowIn
<1>7. SumErrors(d, 0) = SumErrors(errors, 0) + 1 /\ SumErrors(errors, 0) \in Nat
  BY <1>6, OneError
<1>8. \A i \in 1 .. n : i # n => item[i].age # 0
  <2> SUFFICES ASSUME NEW i \in 1 .. n, i # n PROVE item[i].age # 0
    OBVIOUS
  <2>1. \A k \in Nat : \A l \in 1 .. k : l # k => l < k
    OBVIOUS
  <2>2. n \in Nat
    BY <1>1
  <2> HIDE DEF n
  <2>3. i < n
    BY <2>1, <2>2
  <2>4. item[i].age = Oldest \/ item[n].age < item[i].age
    BY <1>1, <1>2, <2>3 DEF WindowIn, Apart
  <2>5. item[n].age = 0
    BY DEF n
  <2>6. item[i].age # 0
    BY <2>4, <2>5 DEF Oldest
  <2>. QED BY <2>6
<1>9. Accounted(s, d)
  <2>1. ASSUME NEW i \in 1 .. n, InWindow(s[i]) PROVE s[i].count = d[s[i].age]
    <3>1. InWindow(item[i]) /\ s[i].age = item[i].age /\ item[i].count = errors[item[i].age]
          /\ item[i].age \in Ages
      BY <1>1, <1>5, <2>1 DEF InWindow, WindowIn, Accounted
    <3>2. CASE i = n
      BY <1>2, <1>3, <3>1, <3>2
    <3>3. CASE i # n
      BY <1>4, <1>8, <3>1, <3>3
    <3>. QED BY <3>2, <3>3
  <2>2. ASSUME NEW a \in Ages, d[a] # 0 PROVE \E i \in 1 .. n : s[i].age = a
    <3>1. CASE a = 0
      BY <1>2, <1>3, <3>1
    <3>2. CASE a # 0
      BY <1>1, <1>5, <2>2, <3>2 DEF WindowIn, Accounted
    <3>. QED BY <3>1, <3>2
  <2>. QED BY <1>4, <2>1, <2>2 DEF Accounted
<1>10. Apart(s)
  <2> HIDE DEF n
  <2>1. Apart(item)
    BY DEF WindowIn
  <2> SUFFICES ASSUME NEW i \in 1 .. n, NEW j \in 1 .. n, i < j
               PROVE  s[i].age = Oldest \/ s[j].age < s[i].age
    BY <1>4 DEF Apart
  <2>2. item[i].age = Oldest \/ item[j].age < item[i].age
    BY <1>1, <2>1 DEF Apart
  <2>3. s[i].age = item[i].age /\ s[j].age = item[j].age
    BY <1>5
  <2>. QED BY <2>2, <2>3
<1>11. s[n].total \in {SumErrors(d, 0), SumErrors(d, 0) + 1}
  <2>1. item[n].total \in {SumErrors(errors, 0), SumErrors(errors, 0) + 1}
    BY DEF WindowIn
  <2>. QED BY <1>3, <1>7, <2>1
<1>. QED BY <1>4, <1>9, <1>10, <1>11 DEF WindowIn

\* One error in a new bucket, whose total is one more than the errors.
LEMMA NewBucket ==
  ASSUME WindowIn(item, errors), item # <<>>, item[Len(item)].age # 0,
         NEW d \in [Ages -> 0 .. MaxErrors],
         d[0] = errors[0] + 1, \A a \in Ages \ {0} : d[a] = errors[a]
  PROVE  /\ NewTotal(item) = SumErrors(d, 0) + 1
         /\ WindowIn(Kept(Append(item, Fresh(NewTotal(item)))), d)
<1> DEFINE n == Len(item)
<1> USE Periods
<1>1. /\ item \in Seq(Bucket) /\ DOMAIN item = 1 .. n /\ n \in Nat /\ 0 < n
      /\ \A i \in 1 .. n : item[i] \in Bucket
  BY LenProperties, EmptySeq DEF WindowIn
<1>2. \A i \in 1 .. n : item[i].age # 0
  <2> SUFFICES ASSUME NEW i \in 1 .. n, item[i].age = 0 PROVE FALSE
    OBVIOUS
  <2>1. i < n /\ n \in 1 .. n
    BY <1>1
  <2>2. item[i].age = Oldest \/ item[n].age < item[i].age
    BY <1>1, <2>1 DEF WindowIn, Apart
  <2>. QED BY <1>1, <2>1, <2>2 DEF Oldest
<1>3. errors[0] = 0 /\ errors \in [Ages -> Nat] /\ d \in [Ages -> Nat] /\ d[0] = 1
  <2>1. errors[0] = 0
    BY <1>1, <1>2 DEF WindowIn, Accounted
  <2>. QED BY <2>1 DEF WindowIn
\* The sequence with a fresh bucket, whatever its total, and what Kept leaves of it.
<1>4. ASSUME NEW t \in Nat \ {0}, NEW k, k = Kept(Append(item, Fresh(t)))
      PROVE  /\ k \in Seq(Bucket) /\ k # <<>> /\ k[Len(k)] = Fresh(t)
             /\ Apart(k) /\ Accounted(k, d) /\ \A i \in DOMAIN k : InWindow(k[i])
  <2> DEFINE s == Append(item, Fresh(t))
  <2>1. Fresh(t) \in Bucket /\ Fresh(t).age = 0 /\ Fresh(t).count = 1
    BY DEF Fresh, Bucket, Oldest
  <2>2. /\ s \in Seq(Bucket) /\ Len(s) = n + 1 /\ DOMAIN s = 1 .. n + 1
        /\ s[n + 1] = Fresh(t) /\ \A i \in 1 .. n : s[i] = item[i]
    <3>1. /\ s \in Seq(Bucket) /\ Len(s) = n + 1
          /\ s[n + 1] = Fresh(t) /\ \A i \in 1 .. n : s[i] = item[i]
      BY <1>1, <2>1, AppendProperties
    <3>. QED BY <3>1, LenProperties
  <2> HIDE DEF s
  <2>3. \A i \in 1 .. n + 1 : i \in 1 .. n \/ i = n + 1
    BY <1>1
  <2>4. Apart(s)
    <3> SUFFICES ASSUME NEW i \in 1 .. n + 1, NEW j \in 1 .. n + 1, i < j
                 PROVE  s[i].age = Oldest \/ s[j].age < s[i].age
      BY <2>2 DEF Apart
    <3>1. i \in 1 .. n /\ s[i] = item[i] /\ item[i].age \in Nat /\ item[i].age # 0
      BY <1>1, <1>2, <2>2, <2>3
    <3>2. CASE j \in 1 .. n
      BY <1>1, <2>2, <3>1, <3>2 DEF WindowIn, Apart
    <3>3. CASE j = n + 1
      BY <2>1, <2>2, <3>1, <3>3
    <3>. QED BY <2>3, <3>2, <3>3
  <2>5. Accounted(s, d)
    <3>1. ASSUME NEW i \in 1 .. n + 1, InWindow(s[i]) PROVE s[i].count = d[s[i].age]
      <4>1. CASE i = n + 1
        BY <1>3, <2>1, <2>2, <4>1
      <4>2. CASE i \in 1 .. n
        <5>1. InWindow(item[i]) /\ item[i].age \in Ages \ {0}
          BY <1>1, <1>2, <2>2, <3>1, <4>2
        <5>. QED BY <1>1, <2>2, <4>2, <5>1 DEF WindowIn, Accounted
      <4>. QED BY <2>3, <4>1, <4>2
    <3>2. ASSUME NEW a \in Ages, d[a] # 0 PROVE \E i \in 1 .. n + 1 : s[i].age = a
      <4>1. CASE a = 0
        <5>1. n + 1 \in 1 .. n + 1
          BY <1>1
        <5>. QED BY <2>1, <2>2, <4>1, <5>1
      <4>2. CASE a # 0
        <5>1. PICK i \in 1 .. n : item[i].age = a
          BY <1>1, <3>2, <4>2 DEF WindowIn, Accounted
        <5>2. i \in 1 .. n + 1
          BY <1>1
        <5>. QED BY <2>2, <5>1, <5>2
      <4>. QED BY <4>1, <4>2
    <3>. QED BY <2>2, <3>1, <3>2 DEF Accounted
  <2>6. s # <<>> /\ InWindow(s[Len(s)])
    BY <1>1, <2>1, <2>2
  <2>7. PICK m \in 0 .. n + 1 - 1 :
           /\ k \in Seq(Bucket) /\ Len(k) = n + 1 - m
           /\ \A i \in 1 .. n + 1 - m : m + i \in 1 .. n + 1 /\ k[i] = s[m + i]
                                         /\ InWindow(s[m + i])
           /\ \A j \in 1 .. n + 1 : InWindow(s[j]) => m < j
    BY <1>4, <2>2, <2>4, <2>6, KeptIsWindow DEF s
  <2>8. DOMAIN k = 1 .. n + 1 - m /\ n + 1 - m \in Nat /\ 0 < n + 1 - m /\ m \in Nat
    <3>1. m \in Nat /\ m <= n
      BY <1>1
    <3>2. DOMAIN k = 1 .. Len(k)
      BY <2>7, LenProperties
    <3>3. n + 1 - m \in Nat /\ 0 < n + 1 - m
      BY <1>1, <3>1
    <3>. QED BY <2>7, <3>1, <3>2, <3>3
  <2>9. k # <<>> /\ k[Len(k)] = Fresh(t)
    <3>1. n + 1 - m \in 1 .. n + 1 - m /\ m + (n + 1 - m) = n + 1
      BY <1>1, <2>8
    <3>. QED BY <2>2, <2>7, <2>8, <3>1
  <2>10. Apart(k)
    <3> SUFFICES ASSUME NEW i \in 1 .. n + 1 - m, NEW j \in 1 .. n + 1 - m, i < j
                 PROVE  k[i].age = Oldest \/ k[j].age < k[i].age
      BY <2>8 DEF Apart
    <3>1. m + i < m + j /\ m + i \in 1 .. n + 1 /\ m + j \in 1 .. n + 1
      BY <2>7, <2>8
    <3>2. k[i] = s[m + i] /\ k[j] = s[m + j]
      BY <2>7
    <3>. QED BY <2>2, <2>4, <3>1, <3>2 DEF Apart
  <2>11. Accounted(k, d)
    <3>1. ASSUME NEW i \in 1 .. n + 1 - m, InWindow(k[i]) PROVE k[i].count = d[k[i].age]
      <4>1. k[i] = s[m + i] /\ m + i \in 1 .. n + 1
        BY <2>7
      <4>2. \A j \in 1 .. n + 1 : InWindow(s[j]) => s[j].count = d[s[j].age]
        BY <2>2, <2>5 DEF Accounted
      <4>3. InWindow(s[m + i])
        BY <3>1, <4>1
      <4>4. s[m + i].count = d[s[m + i].age]
        BY <4>1, <4>2, <4>3
      <4>. QED BY <4>1, <4>4
    <3>2. ASSUME NEW a \in Ages, d[a] # 0 PROVE \E i \in 1 .. n + 1 - m : k[i].age = a
      <4>1. PICK j \in 1 .. n + 1 : s[j].age = a
        BY <2>2, <2>5, <3>2 DEF Accounted
      <4>2. m < j
        BY <2>2, <2>7, <4>1 DEF InWindow, Ages
      <4>3. j - m \in 1 .. n + 1 - m /\ m + (j - m) = j
        BY <1>1, <2>8, <4>2
      <4>. QED BY <2>7, <4>1, <4>3, ZenonT(60)
    <3>. QED BY <2>8, <3>1, <3>2 DEF Accounted
  <2>12. \A i \in DOMAIN k : InWindow(k[i])
    BY <2>7, <2>8
  <2>. QED BY <2>7, <2>9, <2>10, <2>11, <2>12
<1> DEFINE k1 == Kept(Append(item, Fresh(1)))
           t == NewTotal(item)
           k == Kept(Append(item, Fresh(t)))
<1>5. t = SumErrors(d, 0) + 1 /\ SumErrors(d, 0) \in Nat
  <2>1. k1 \in Seq(Bucket) /\ Apart(k1) /\ Accounted(k1, d) /\ \A i \in DOMAIN k1 : InWindow(k1[i])
    BY <1>4
  <2>2. SumCounts(k1) = SumErrors(d, 0) /\ SumCounts(k1) \in Nat
    <3> HIDE DEF k1
    <3>. QED BY <1>3, <2>1, WindowSum
  <2>. QED BY <2>2 DEF NewTotal
<1> HIDE DEF t
<1>6. k \in Seq(Bucket) /\ k # <<>> /\ k[Len(k)] = Fresh(t) /\ Apart(k) /\ Accounted(k, d)
  BY <1>4, <1>5
<1>7. Fresh(t).total = t
  BY DEF Fresh
<1> HIDE DEF k
<1>8. WindowIn(k, d)
  BY <1>5, <1>6, <1>7 DEF WindowIn
<1>. QED BY <1>5, <1>8 DEF k, t

\* A tick makes every bucket and every error a period older.
LEMMA TickKeepsWindow ==
  ASSUME WindowIn(item, errors),
         NEW s, s = [i \in DOMAIN item |-> [item[i] EXCEPT !.age = Older(@, Oldest)]],
         NEW d, d = [a \in DOMAIN errors |-> IF a = 0 THEN 0 ELSE errors[a - 1]]
  PROVE  WindowIn(s, d)
<1> DEFINE n == Len(item)
<1>1. /\ item \in Seq(Bucket) /\ DOMAIN item = 1 .. n /\ n \in Nat
      /\ \A i \in 1 .. n : item[i] \in Bucket
      /\ Apart(item) /\ Accounted(item, errors)
  BY LenProperties DEF WindowIn
<1>2. errors \in [Ages -> 0 .. MaxErrors]
  BY DEF WindowIn
<1> HIDE DEF n
<1>3. ASSUME NEW b \in Bucket, NEW c, c = [b EXCEPT !.age = Older(@, Oldest)]
      PROVE  /\ c \in Bucket /\ c.count = b.count
             /\ c.age = IF b.age < Oldest THEN b.age + 1 ELSE b.age
  <2>1. b.age \in 0 .. Oldest /\ Oldest \in Nat
    BY Periods DEF Bucket, Oldest
  <2>2. Older(b.age, Oldest) \in 0 .. Oldest
    BY <2>1 DEF Older
  <2>3. c \in Bucket
    BY <1>3, <2>2 DEF Bucket
  <2>4. c.count = b.count /\ c.age = Older(b.age, Oldest)
    BY <1>3 DEF Bucket
  <2>. QED BY <2>3, <2>4 DEF Older
<1>4. DOMAIN s = 1 .. n
  BY <1>1
<1>5. \A i \in 1 .. n : s[i] = [item[i] EXCEPT !.age = Older(@, Oldest)]
  BY <1>1
<1>6. \A i \in 1 .. n : /\ s[i] \in Bucket /\ s[i].count = item[i].count
                        /\ s[i].age = IF item[i].age < Oldest THEN item[i].age + 1
                                                             ELSE item[i].age
  BY <1>1, <1>3, <1>5
<1>7. s \in Seq(Bucket) /\ Len(s) = n
  <2>1. s \in [1 .. n -> Bucket]
    BY <1>1, <1>4, <1>6
  <2>2. s \in Seq(Bucket)
    BY <1>1, <2>1
  <2>. QED BY <1>1, <1>4, <2>2
<1>8. /\ DOMAIN errors = Ages
      /\ \A a \in Ages : d[a] = IF a = 0 THEN 0 ELSE errors[a - 1]
  BY <1>2
<1>9. \A a \in Ages \ {0} : a \in Nat /\ a - 1 \in Ages /\ (a - 1) + 1 = a /\ a - 1 < Oldest
  BY Periods DEF Ages, Oldest
<1>10. d \in [Ages -> 0 .. MaxErrors]
  <2>1. 0 \in 0 .. MaxErrors
    BY Periods
  <2>2. \A a \in Ages : d[a] \in 0 .. MaxErrors
    BY <1>2, <1>8, <1>9, <2>1
  <2>. QED BY <1>8, <2>2
<1>11. \A i \in 1 .. n : item[i].age \in Nat /\ item[i].age <= Oldest
  BY <1>1, Periods DEF Bucket, Oldest
<1>12. Oldest \in Nat /\ 0 < Oldest /\ \A b : InWindow(b) <=> b.age < Oldest
  BY Periods DEF InWindow, Oldest
<1>13. Apart(s)
  <2> SUFFICES ASSUME NEW i \in 1 .. n, NEW j \in 1 .. n, i < j
               PROVE  s[i].age = Oldest \/ s[j].age < s[i].age
    BY <1>4 DEF Apart
  <2>1. item[i].age = Oldest \/ item[j].age < item[i].age
    BY <1>1 DEF Apart
  <2>2. s[i].age = IF item[i].age < Oldest THEN item[i].age + 1 ELSE item[i].age
    BY <1>6
  <2>3. s[j].age = IF item[j].age < Oldest THEN item[j].age + 1 ELSE item[j].age
    BY <1>6
  <2>4. /\ item[i].age \in Nat /\ item[i].age <= Oldest
        /\ item[j].age \in Nat /\ item[j].age <= Oldest
    BY <1>11
  <2>. QED BY <1>12, <2>1, <2>2, <2>3, <2>4, SMTT(60)
<1>14. Accounted(s, d)
  <2>1. ASSUME NEW i \in 1 .. n, InWindow(s[i]) PROVE s[i].count = d[s[i].age]
    <3>1. s[i].age = IF item[i].age < Oldest THEN item[i].age + 1 ELSE item[i].age
      BY <1>6
    <3>2. s[i].age < Oldest
      BY <1>12, <2>1
    <3>3. item[i].age \in Nat /\ item[i].age < Oldest /\ s[i].age = item[i].age + 1
      BY <1>11, <1>12, <3>1, <3>2
    <3>4. InWindow(item[i]) /\ s[i].age \in Ages /\ s[i].age # 0 /\ s[i].age - 1 = item[i].age
      <4>1. InWindow(item[i])
        BY <1>12, <3>3
      <4>2. s[i].age \in Ages
        BY <1>6, <2>1, Periods
      <4>. QED BY <3>3, <4>1, <4>2
    <3>5. item[i].count = errors[item[i].age]
      BY <1>1, <3>4 DEF Accounted
    <3>. QED BY <1>6, <1>8, <3>4, <3>5
  <2>2. ASSUME NEW a \in Ages, d[a] # 0 PROVE \E i \in 1 .. n : s[i].age = a
    <3>1. a # 0 /\ d[a] = errors[a - 1]
      BY <1>8, <2>2
    <3>2. a - 1 \in Ages /\ (a - 1) + 1 = a /\ a - 1 < Oldest
      BY <1>9, <3>1
    <3>3. PICK i \in 1 .. n : item[i].age = a - 1
      BY <1>1, <2>2, <3>1, <3>2 DEF Accounted
    <3>. QED BY <1>6, <3>2, <3>3
  <2>. QED BY <1>4, <2>1, <2>2 DEF Accounted
<1>15. s # <<>> /\ s[Len(s)].age = 0 => FALSE
  <2> SUFFICES ASSUME s # <<>>, s[Len(s)].age = 0 PROVE FALSE
    OBVIOUS
  <2>1. n # 0
    BY <1>7, EmptySeq
  <2>2. n \in 1 .. n
    BY <1>1, <2>1
  <2>3. s[n].age = IF item[n].age < Oldest THEN item[n].age + 1 ELSE item[n].age
    BY <1>6, <2>2
  <2>4. item[n].age \in Nat
    BY <1>11, <2>2
  <2>. QED BY <1>7, <1>12, <2>3, <2>4
<1>. QED BY <1>7, <1>10, <1>13, <1>14, <1>15 DEF WindowIn

----------------------------------------------------------------------------
(* The types and the window together                                        *)

\* The variables that only have a type.
OtherTypes ==
  /\ ProbeTypes
  /\ state \in {"Closed", "Open"}
  /\ stampAge \in 0 .. Asleep
  /\ recorder \in {"idle", "swap", "stamp"}
  /\ faults \subseteq Faults

\* They keep it.
LEMMA OtherTypesStep == OtherTypes /\ [Next]_vars => OtherTypes'
<1> SUFFICES ASSUME OtherTypes, [Next]_vars PROVE OtherTypes'
  OBVIOUS
<1>1. ProbeTypes'
  BY ProbeTypesStep DEF OtherTypes
<1>2. Asleep \in Nat /\ 0 \in 0 .. Asleep
  BY ConstantsAssumption DEF Asleep
<1>3. \A a \in 0 .. Asleep : Older(a, Asleep) \in 0 .. Asleep
  BY <1>2 DEF Older
<1> HIDE DEF Asleep
<1>4. /\ state' \in {"Closed", "Open"}
      /\ stampAge' \in 0 .. Asleep
      /\ recorder' \in {"idle", "swap", "stamp"}
      /\ faults' \subseteq Faults
  <2> USE DEF OtherTypes, breakerVars
  <2>1. CASE Tick
    BY <1>3, <2>1 DEF Tick
  <2>2. CASE ErrorRecord \/ RecordSwap
    BY <2>2 DEF ErrorRecord, RecordSwap
  <2>3. CASE RecordStamp
    BY <1>2, <2>3 DEF RecordStamp
  <2>4. CASE \E c \in Callers : Call(c)
    BY <1>2, <2>4 DEF Call, IsPass, CheckSleep, TakeToken, Stamp, PingSent, PingFailed
  <2>5. CASE Pong \/ ForeignPong \/ PongToken \/ PongLost
    BY <2>5 DEF Pong, ForeignPong, PongToken, PongLost
  <2>6. CASE UNCHANGED vars
    BY <2>6 DEF vars
  <2>. QED BY <2>1, <2>2, <2>3, <2>4, <2>5, <2>6 DEF Next, Record
<1>. QED BY <1>1, <1>4 DEF OtherTypes

\* A recorded error, whichever bucket it goes to.
LEMMA RecordKeepsWindow ==
  ASSUME WindowIn(item, errors), ErrorRecord
  PROVE  WindowIn(item', errors')
<1> DEFINE d == [errors EXCEPT ![0] = @ + 1]
<1>1. errors \in [Ages -> 0 .. MaxErrors] /\ item \in Seq(Bucket)
  BY DEF WindowIn
<1>2. d[0] = errors[0] + 1 /\ \A a \in Ages \ {0} : d[a] = errors[a]
  BY <1>1, Periods
<1>3. d \in [Ages -> 0 .. MaxErrors]
  <2>1. errors[0] \in 0 .. MaxErrors /\ errors[0] < MaxErrors /\ MaxErrors \in Nat
    BY <1>1, Periods DEF ErrorRecord
  <2>2. errors[0] + 1 \in 0 .. MaxErrors
    BY <2>1
  <2>. QED BY <1>1, <2>2
<1>4. errors' = d /\ item' = Recorded
  BY DEF ErrorRecord
<1> HIDE DEF d
<1>5. CASE item = <<>>
  <2>1. Recorded = <<Fresh(1)>>
    BY <1>5 DEF Recorded
  <2>2. WindowIn(<<>>, errors)
    BY <1>5
  <2>3. WindowIn(<<Fresh(1)>>, d)
    BY <1>2, <1>3, <2>2, FirstError
  <2>. QED BY <1>4, <2>1, <2>3
<1>6. CASE item # <<>> /\ item[Len(item)].age = 0
  <2>1. Recorded = [item EXCEPT ![Len(item)] = Counted(@)]
    BY <1>6 DEF Recorded, Last
  <2>2. WindowIn(Recorded, d)
    BY <1>2, <1>3, <1>6, <2>1, ErrorCounted
  <2>. QED BY <1>4, <2>2
<1>7. CASE item # <<>> /\ item[Len(item)].age # 0
  <2>1. Recorded = Kept(Append(item, Fresh(NewTotal(item))))
    BY <1>7 DEF Recorded, Last
  <2>2. WindowIn(Recorded, d)
    BY <1>2, <1>3, <1>7, <2>1, NewBucket
  <2>. QED BY <1>4, <2>2
<1>. QED BY <1>5, <1>6, <1>7

Window == WindowIn(item, errors)

\* Every step keeps the window.
LEMMA WindowStep == Window /\ [Next]_vars => Window'
<1> SUFFICES ASSUME Window, [Next]_vars PROVE WindowIn(item', errors')
  BY DEF Window
<1>1. CASE Tick
  BY <1>1, TickKeepsWindow DEF Window, Tick
<1>2. CASE ErrorRecord
  BY <1>2, RecordKeepsWindow DEF Window
<1>3. CASE UNCHANGED windowVars
  BY <1>3 DEF Window, windowVars
<1>4. CASE RecordSwap \/ RecordStamp \/ UNCHANGED vars
  BY <1>3, <1>4 DEF RecordSwap, RecordStamp, vars
<1>5. CASE \E c \in Callers : Call(c)
  BY <1>3, <1>5 DEF Call, IsPass, CheckSleep, TakeToken, Stamp, PingSent, PingFailed
<1>6. CASE Pong \/ ForeignPong \/ PongToken \/ PongLost
  BY <1>3, <1>6 DEF Pong, ForeignPong, PongToken, PongLost
<1>. QED BY <1>1, <1>2, <1>4, <1>5, <1>6 DEF Next, Record

\* A breaker is made with an empty window.
LEMMA WindowAtFirst == Init => OtherTypes /\ Window
<1> SUFFICES ASSUME Init PROVE OtherTypes /\ Window
  OBVIOUS
<1>1. OtherTypes
  <2>1. Asleep \in 0 .. Asleep
    BY ConstantsAssumption DEF Asleep
  <2>. QED BY <2>1 DEF Init, OtherTypes, ProbeTypes
<1>2. item = <<>> /\ errors = [a \in Ages |-> 0] /\ 0 \in 0 .. MaxErrors
  BY Periods DEF Init, Ages
<1>3. errors \in [Ages -> 0 .. MaxErrors] /\ item \in Seq(Bucket) /\ DOMAIN item = {}
  BY <1>2
<1>4. Apart(item) /\ Accounted(item, errors)
  BY <1>2, <1>3 DEF Apart, Accounted
<1>. QED BY <1>1, <1>2, <1>3, <1>4 DEF Window, WindowIn

LEMMA WindowAlways == Spec => [](OtherTypes /\ Window)
BY WindowAtFirst, OtherTypesStep, WindowStep, PTL DEF Spec

\* Every variable stays in its type: the ages that the model caps within their caps,
\* every bucket with an error at least.
THEOREM TypeCorrect == Spec => []TypeOK
<1>1. OtherTypes /\ Window => TypeOK
  BY DEF OtherTypes, ProbeTypes, Window, WindowIn, TypeOK, Bucket, Ages
<1>. QED BY <1>1, WindowAlways, PTL

\* The breaker never opens late: once an error is recorded the newest bucket's total is
\* the number of errors in the window or one more, although it is kept by adding one at
\* a time and computed anew only when a period begins.
THEOREM NewestTotalIsWindow == Spec => []TotalWithinOne
<1>1. Window => TotalWithinOne
  <2>1. ErrorsUpTo(0) = SumErrors(errors, 0)
    BY DEF ErrorsUpTo, SumErrors
  <2>. QED BY <2>1 DEF Window, WindowIn, TotalWithinOne, Last
<1>. QED BY <1>1, WindowAlways, PTL
=============================================================================
