-------------------------- MODULE ClusterViewProofs --------------------------
(****************************************************************************)
(* Theorems about what a node knows of the cluster, for every set of other  *)
(* nodes, every number of machine ids, every capacity of the channels, and  *)
(* whether membership changes while events are on their way or not.         *)
(****************************************************************************)
EXTENDS ClusterView, FiniteSetTheorems, SequenceTheorems, WellFoundedInduction, TLAPS

----------------------------------------------------------------------------
(* The machine id a node gets                                               *)

\* A non-empty set of naturals has a least element.
LEMMA LeastNat ==
  ASSUME NEW T, T \subseteq Nat, T # {}
  PROVE  \E x \in T : \A y \in T : x <= y
<1>1. PICK x \in T : \A y \in T : ~(<<y, x>> \in OpToRel(<, Nat))
  BY NatLessThanWellFounded, WFMin
<1>2. \A y \in T : ~(y < x)
  BY <1>1 DEF OpToRel
<1>. QED BY <1>2

Ascending(q) == \A i, j \in DOMAIN q : i < j => q[i] < q[j]

\* Every set of numbers below k has an ascending list.
Sortable(S) == \E q \in [1 .. Cardinality(S) -> S] : Ascending(q)

LEMMA SortableBelow ==
  ASSUME NEW k \in Nat, NEW S \in SUBSET (0 .. k - 1)
  PROVE  Sortable(S)
<1> DEFINE Bad == {m \in Nat : \E T \in SUBSET (0 .. m - 1) : ~Sortable(T)}
<1> SUFFICES ASSUME Bad # {} PROVE FALSE
  OBVIOUS
<1>1. PICK m \in Bad : \A n \in Bad : m <= n
  BY LeastNat
<1>2. PICK T \in SUBSET (0 .. m - 1) : ~Sortable(T)
  BY <1>1
<1>3. m # 0
  <2> SUFFICES ASSUME m = 0 PROVE FALSE
    OBVIOUS
  <2>1. T = {}
    BY <1>2
  <2>2. Cardinality(T) = 0
    BY <2>1, FS_EmptySet
  <2>3. [i \in 1 .. 0 |-> 0] \in [1 .. Cardinality(T) -> T]
    BY <2>1, <2>2
  <2>4. Ascending([i \in 1 .. 0 |-> 0])
    BY DEF Ascending
  <2>. QED BY <1>2, <2>3, <2>4 DEF Sortable
<1>4. m \in Nat /\ m - 1 \in Nat /\ m - 1 \notin Bad
  <2>1. m \in Nat
    OBVIOUS
  <2> HIDE DEF Bad
  <2>. QED BY <1>1, <1>3, <2>1
<1>5. \A U \in SUBSET (0 .. (m - 1) - 1) : Sortable(U)
  BY <1>4
<1>6. m - 1 \in T
  <2> SUFFICES ASSUME m - 1 \notin T PROVE FALSE
    OBVIOUS
  <2>1. T \in SUBSET (0 .. (m - 1) - 1)
    BY <1>2, <1>4
  <2>. QED BY <1>2, <1>5, <2>1
<1> DEFINE U == T \ {m - 1}
           n == Cardinality(U)
<1>7. U \in SUBSET (0 .. (m - 1) - 1)
  BY <1>2, <1>4
<1>8. PICK q \in [1 .. n -> U] : Ascending(q)
  BY <1>5, <1>7 DEF Sortable
<1>9. n \in Nat /\ Cardinality(T) = n + 1
  <2>1. IsFiniteSet(0 .. m - 1)
    <3>1. 0 \in Int /\ m - 1 \in Int
      BY <1>4
    <3>. QED BY <3>1, FS_Interval
  <2>2. IsFiniteSet(T) /\ IsFiniteSet(U)
    BY <1>2, <2>1, FS_Subset
  <2>3. T = U \cup {m - 1} /\ m - 1 \notin U
    BY <1>6
  <2> HIDE DEF U
  <2>4. Cardinality(U \cup {m - 1}) = Cardinality(U) + 1
    BY <2>2, <2>3, FS_AddElement
  <2>. QED BY <2>2, <2>3, <2>4, FS_CardinalityType
<1> HIDE DEF n
<1> DEFINE r == [i \in 1 .. n + 1 |-> IF i <= n THEN q[i] ELSE m - 1]
<1>10. r \in [1 .. n + 1 -> T]
  <2> SUFFICES ASSUME NEW i \in 1 .. n + 1 PROVE (IF i <= n THEN q[i] ELSE m - 1) \in T
    OBVIOUS
  <2>1. i <= n => i \in 1 .. n /\ q[i] \in U
    BY <1>8, <1>9
  <2>. QED BY <1>6, <2>1
<1>11. Ascending(r)
  <2> SUFFICES ASSUME NEW i \in 1 .. n + 1, NEW j \in 1 .. n + 1, i < j
               PROVE  r[i] < r[j]
    BY DEF Ascending
  <2>1. i \in 1 .. n /\ r[i] = q[i] /\ q[i] \in U
    BY <1>8, <1>9
  <2>2. CASE j <= n
    BY <1>8, <1>9, <2>1, <2>2 DEF Ascending
  <2>3. CASE j = n + 1
    <3>1. r[j] = m - 1
      BY <1>9, <2>3
    <3>2. q[i] < m - 1
      <4>1. q[i] \in 0 .. (m - 1) - 1
        BY <1>7, <2>1
      <4>. QED BY <1>4, <4>1
    <3>. QED BY <2>1, <3>1, <3>2
  <2>. QED BY <1>9, <2>2, <2>3
<1>12. r \in [1 .. Cardinality(T) -> T]
  BY <1>9, <1>10 DEF n
<1>. QED BY <1>2, <1>11, <1>12 DEF Sortable

\* Sorted lists a set of ids, each once, in ascending order.
LEMMA SortedLists ==
  ASSUME NEW S \in SUBSET Ids
  PROVE  /\ Cardinality(S) \in Nat
         /\ Sorted(S) \in Seq(Ids) /\ Len(Sorted(S)) = Cardinality(S)
         /\ Sorted(S) \in [1 .. Cardinality(S) -> S] /\ Ascending(Sorted(S))
         /\ Range(Sorted(S)) = S
<1> DEFINE n == Cardinality(S)
           q == Sorted(S)
<1>1. MaxWorkNumber \in Nat /\ Sortable(S)
  BY ConstantsAssumption, SortableBelow DEF Ids
<1>2. q \in [1 .. n -> S] /\ Ascending(q)
  BY <1>1 DEF Sorted, Sortable, Ascending
<1>3. IsFiniteSet(S) /\ n \in Nat
  <2>1. 0 \in Int /\ MaxWorkNumber - 1 \in Int
    BY <1>1
  <2>. QED BY <2>1, FS_Interval, FS_Subset, FS_CardinalityType DEF Ids
<1>4. q \in Seq(Ids) /\ Len(q) = n
  BY <1>2, <1>3
<1> HIDE DEF n, q
<1>5. q \in Injection(1 .. n, S)
  <2> SUFFICES ASSUME NEW i \in 1 .. n, NEW j \in 1 .. n, q[i] = q[j] PROVE i = j
    BY <1>2 DEF Injection, IsInjective
  <2>1. q[i] \in Int /\ i \in Int /\ j \in Int
    <3>1. q[i] \in S
      BY <1>2
    <3>2. q[i] \in Ids
      BY <3>1
    <3>3. i \in Int /\ j \in Int
      BY <1>3
    <3>. QED BY <1>1, <3>2, <3>3 DEF Ids
  <2>. QED BY <1>2, <2>1 DEF Ascending
<1>6. Cardinality(1 .. n) = n
  BY <1>3, FS_Interval
<1>7. q \in Surjection(1 .. n, S)
  <2>1. IsFiniteSet(1 .. n) /\ Cardinality(1 .. n) = Cardinality(S)
    BY <1>3, <1>6, FS_Interval DEF n
  <2>. QED BY <1>3, <1>5, <2>1, FS_Injection
<1>8. Range(q) = S
  BY <1>2, <1>7 DEF Surjection, Range
<1>. QED BY <1>2, <1>3, <1>4, <1>8 DEF n, q

\* getMachineID finds an id that is not in use, whatever ids were given back; it may be
\* MaxWorkNumber or more, and then Register refuses it.
LEMMA AllocatedIsFree ==
  ASSUME machine \in [Ids -> All \cup {None}]
  PROVE  Allocated \in Nat /\ Allocated \notin Taken
<1> DEFINE n == Cardinality(Taken)
           q == Sorted(Taken)
           gaps == {i \in DOMAIN q : i - 1 < q[i]}
<1>1. Taken \in SUBSET Ids
  BY DEF Taken
<1>2. /\ n \in Nat /\ Len(q) = n /\ DOMAIN q = 1 .. n /\ \A i \in 1 .. n : q[i] \in Nat
      /\ Ascending(q) /\ \A id \in Taken : \E i \in 1 .. n : q[i] = id
  BY <1>1, SortedLists, ConstantsAssumption DEF Range, Ids
<1> HIDE DEF n, q
<1>3. CASE gaps = {}
  <2>1. Allocated = n
    BY <1>2, <1>3 DEF Allocated, q
  <2>2. \A i \in 1 .. n : q[i] < n
    BY <1>2, <1>3, SMTT(60)
  <2>. QED BY <1>2, <2>1, <2>2
<1>4. CASE gaps # {}
  <2>1. gaps \subseteq Nat
    BY <1>2
  <2> DEFINE g == CHOOSE i \in gaps : \A j \in gaps : i <= j
  <2>2. g \in gaps /\ \A j \in gaps : g <= j
    BY <1>4, <2>1, LeastNat
  <2>3. Allocated = g - 1
    BY <1>4 DEF Allocated, q
  <2> HIDE DEF g
  <2>4. \A i \in 1 .. n : q[i] # g - 1
    <3> SUFFICES ASSUME NEW i \in 1 .. n PROVE q[i] # g - 1
      OBVIOUS
    <3>1. g \in 1 .. n /\ g - 1 < q[g]
      BY <1>2, <2>2
    <3>2. CASE i < g
      BY <1>2, <2>2, <3>1, <3>2, SMTT(60)
    <3>3. CASE i = g
      BY <1>2, <3>1, <3>3
    <3>4. CASE g < i
      BY <1>2, <3>1, <3>4, SMTT(60) DEF Ascending
    <3>. QED BY <1>2, <3>1, <3>2, <3>3, <3>4
  <2>. QED BY <1>2, <2>2, <2>3, <2>4
<1>. QED BY <1>3, <1>4

\* bucket.remove leaves a list of ids, and takes no id but the one it is asked to.
LEMMA WithoutKeeps ==
  ASSUME NEW s \in Seq(Ids), NEW id \in Ids
  PROVE  /\ Without(s, id) \in Seq(Ids)
         /\ Range(s) \ {id} \subseteq Range(Without(s, id))
<1>0. DOMAIN s = 1 .. Len(s) /\ Len(s) \in Nat /\ \A i \in 1 .. Len(s) : s[i] \in Ids
  BY LenProperties
<1>1. CASE id \in Range(s)
  <2> DEFINE T == {i \in DOMAIN s : s[i] = id}
             First(i) == s[i] = id /\ \A j \in 1 .. i - 1 : s[j] # id
             k == CHOOSE i \in DOMAIN s : First(i)
             a == SubSeq(s, 1, k - 1)
             b == SubSeq(s, k + 1, Len(s))
             w == a \o b
  <2>1. T # {} /\ T \subseteq Nat
    BY <1>0, <1>1 DEF Range
  <2>2. PICK i \in T : \A j \in T : i <= j
    BY <2>1, LeastNat
  <2>3. i \in DOMAIN s /\ First(i)
    <3>1. \A j \in 1 .. i - 1 : j \in 1 .. Len(s) /\ ~(i <= j)
      BY <1>0, <2>2
    <3>. QED BY <1>0, <2>2, <3>1
  <2>4. k \in 1 .. Len(s) /\ s[k] = id
    BY <1>0, <2>3
  <2>5. Without(s, id) = w
    BY <1>1 DEF Without, RemoveAt
  <2> HIDE DEF k, T
  <2>6. /\ a \in Seq(Ids) /\ Len(a) = k - 1 /\ \A x \in 1 .. k - 1 : a[x] = s[x]
        /\ b \in Seq(Ids) /\ Len(b) = Len(s) - k /\ \A x \in 1 .. Len(s) - k : b[x] = s[k + x]
    <3>1. \A x \in 1 .. k - 1 : s[x] \in Ids
      BY <1>0, <2>4
    <3>2. \A x \in k + 1 .. Len(s) : s[x] \in Ids
      BY <1>0, <2>4
    <3>3. /\ a \in Seq(Ids)
          /\ Len(a) = (IF 1 <= k - 1 THEN k - 1 - 1 + 1 ELSE 0)
          /\ \A x \in 1 .. k - 1 - 1 + 1 : a[x] = s[1 + x - 1]
      BY <1>0, <2>4, <3>1, SubSeqProperties
    <3>4. /\ b \in Seq(Ids)
          /\ Len(b) = (IF k + 1 <= Len(s) THEN Len(s) - (k + 1) + 1 ELSE 0)
          /\ \A x \in 1 .. Len(s) - (k + 1) + 1 : b[x] = s[k + 1 + x - 1]
      BY <1>0, <2>4, <3>2, SubSeqProperties
    <3>5. k - 1 - 1 + 1 = k - 1 /\ Len(s) - (k + 1) + 1 = Len(s) - k
      BY <1>0, <2>4
    <3>6. \A x \in 1 .. k - 1 : 1 + x - 1 = x
      BY <1>0, <2>4
    <3>7. \A x \in 1 .. Len(s) - k : k + 1 + x - 1 = k + x
      BY <1>0, <2>4
    <3> HIDE DEF a, b
    <3>8. Len(a) = k - 1 /\ Len(b) = Len(s) - k
      <4>1. Len(a) = (IF 1 <= k - 1 THEN k - 1 - 1 + 1 ELSE 0)
        BY <3>3
      <4>2. Len(b) = (IF k + 1 <= Len(s) THEN Len(s) - (k + 1) + 1 ELSE 0)
        BY <3>4
      <4>3. k \in Nat /\ 1 <= k /\ k <= Len(s) /\ Len(s) \in Nat
        BY <1>0, <2>4
      <4>. QED BY <4>1, <4>2, <4>3
    <3>. QED BY <3>3, <3>4, <3>5, <3>6, <3>7, <3>8
  <2> HIDE DEF a, b
  <2>7. w \in Seq(Ids) /\ Len(w) = Len(a) + Len(b) /\ DOMAIN w = 1 .. Len(a) + Len(b)
    <3>1. w \in Seq(Ids) /\ Len(w) = Len(a) + Len(b)
      BY <2>6, ConcatProperties
    <3>. QED BY <3>1, LenProperties
  <2>8. ASSUME NEW x \in Range(s) \ {id} PROVE x \in Range(w)
    <3>1. PICK y \in 1 .. Len(s) : s[y] = x
      BY <1>0, <2>8 DEF Range
    <3>2. y # k
      BY <2>4, <2>8, <3>1
    <3>3. CASE y < k
      <4>1. y \in 1 .. Len(a) + Len(b) /\ y <= Len(a) /\ a[y] = x
        BY <1>0, <2>4, <2>6, <3>1, <3>3
      <4>2. w[y] = x
        BY <2>6, <4>1, ConcatProperties
      <4>. QED BY <2>7, <4>1, <4>2 DEF Range
    <3>4. CASE k < y
      <4>1. y - 1 \in 1 .. Len(a) + Len(b) /\ ~(y - 1 <= Len(a)) /\ b[y - k] = x
        <5>1. y - k \in 1 .. Len(s) - k /\ k + (y - k) = y
          BY <1>0, <2>4, <3>1, <3>4
        <5>2. b[y - k] = x
          BY <2>6, <3>1, <5>1
        <5>3. y - 1 \in 1 .. Len(a) + Len(b) /\ ~(y - 1 <= Len(a))
          BY <1>0, <2>4, <2>6, <3>1, <3>4
        <5>. QED BY <5>2, <5>3
      <4>2. w[y - 1] = x
        <5>1. w[y - 1] = b[y - 1 - Len(a)]
          BY <2>6, <4>1, ConcatProperties
        <5>2. y - 1 - Len(a) = y - k
          BY <1>0, <2>4, <2>6, <3>1
        <5>. QED BY <4>1, <5>1, <5>2
      <4>. QED BY <2>7, <4>1, <4>2 DEF Range
    <3>. QED BY <2>4, <3>1, <3>2, <3>3, <3>4
  <2>. QED BY <2>5, <2>7, <2>8
<1>2. CASE id \notin Range(s)
  BY <1>2 DEF Without
<1>. QED BY <1>1, <1>2

----------------------------------------------------------------------------
(* Types                                                                    *)

Stages == Life \cup Booting \cup Stopped \cup {"watching"}

\* What etcd and the nodes' lives are made of; a node that registered has an id.
LifeOK ==
  /\ machine \in [Ids -> All \cup {None}] /\ chanKeys \subseteq Ids
  /\ node \in [All -> Stages] /\ mid \in [All -> Ids \cup {NoId}] /\ knows \subseteq Nodes
  /\ \A n \in All : node[n] # "new" => mid[n] \in Ids
  /\ puts \in [All -> Nat] /\ \A n \in All : puts[n] <= MaxSubscribes[n]

TcpOK ==
  /\ conn \in [All -> {None, "sent", "on", "closed"}]
  /\ sstate \in [All -> {"work", "die"}]
  /\ \A n \in All : conn[n] = "sent" => node[n] # "new"

NodeMsgs == ({"offline"} \X Ids) \cup ({"connect"} \X Ids \X All)
StateEvents == Ids \X {"work", "die"}
ChanEvents == {"put", "delete"} \X Ids
StateMsgs == (Ids \cup {NoId}) \X {"work", "die"}

QueuesOK ==
  /\ nodeW \in Seq(Ids)
  /\ stateW \in Seq(StateEvents)
  /\ chanW \in Seq(ChanEvents)
  /\ NodeChan \in Seq(NodeMsgs) /\ Len(NodeChan) <= ChanCap
  /\ StateChan \in Seq(StateMsgs) /\ Len(StateChan) <= ChanCap
  /\ ChannelChan \in Seq({"put", "delete", "ownPut", "ownDelete"} \X Ids)
  /\ Len(ChannelChan) <= ChanCap

ViewOK ==
  /\ todo \in Seq(All) /\ hole \in BOOLEAN /\ told \in {None, "work", "die"}
  /\ snap \in Seq(Ids) /\ bucket \in Seq(Ids)
  /\ sessions \in [Ids -> All \cup {None}]

TypeInv == LifeOK /\ TcpOK /\ QueuesOK /\ ViewOK /\ hasty \in BOOLEAN

LEMMA TypeInvImplies == TypeInv => TypeOK
<1>1. \A n \in All : MaxSubscribes[n] \in Nat
  BY ConstantsAssumption DEF All
<1>. QED BY <1>1 DEF TypeInv, LifeOK, TcpOK, QueuesOK, ViewOK, TypeOK, Stages, NodeMsgs,
                     StateEvents, ChanEvents, StateMsgs, Events

LEMMA Constants ==
  /\ MaxWorkNumber \in Nat /\ ChanCap \in Nat /\ 0 < ChanCap /\ Self \in All
  /\ Nodes \subseteq All /\ \A n \in All : MaxSubscribes[n] \in Nat /\ n # None
  /\ NoId \notin Ids /\ Ids \subseteq Int
BY ConstantsAssumption DEF All, NoId, Ids

\* A node that registered goes on to another stage.
LEMMA StageType ==
  ASSUME LifeOK, NEW n \in All, NEW s \in Stages, Becomes(n, s), node[n] # "new" \/ s = "new",
         mid' = mid
  PROVE  node' \in [All -> Stages] /\ \A m \in All : node'[m] # "new" => mid'[m] \in Ids
BY DEF LifeOK, Becomes

\* The steps keep the types of what is in etcd and of the lives of the nodes.
LEMMA LifeStep ==
  ASSUME LifeOK, QueuesOK, [Next]_vars
  PROVE  LifeOK'
<1> USE Constants
<1>1. ASSUME NEW n \in All, Register(n) PROVE LifeOK'
  <2>1. Allocated \in Ids
    BY <1>1, AllocatedIsFree DEF Register, LifeOK, Ids
  <2>2. /\ mid' = [mid EXCEPT ![n] = Allocated]
        /\ machine' = [machine EXCEPT ![Allocated] = n]
        /\ node' = [node EXCEPT ![n] = "registered"]
        /\ knows' = knows \/ (n \in Nodes /\ knows' = knows \cup {n})
        /\ UNCHANGED <<chanKeys, puts>>
    BY <1>1 DEF Register, Becomes, All
  <2>. QED BY <2>1, <2>2 DEF LifeOK, Stages, Life
<1>2. ASSUME NEW n \in All, KeysGo(n) PROVE LifeOK'
  <2>1. node[n] # "new"
    BY <1>2 DEF KeysGo, Stopped
  <2>2. machine' \in [Ids -> All \cup {None}] /\ chanKeys' \subseteq Ids
    BY <1>2 DEF KeysGo, LifeOK
  <2>3. node' \in [All -> Stages] /\ \A m \in All : node'[m] # "new" => mid'[m] \in Ids
    BY <1>2, <2>1, StageType DEF KeysGo, Stages, Life
  <2>. QED BY <1>2, <2>2, <2>3 DEF KeysGo, LifeOK
<1>3. ASSUME NEW n \in Nodes,
             Listen(n) \/ Dial(n) \/ Work(n) \/ Leave(n) \/ Crash(n)
      PROVE  LifeOK'
  <2>1. /\ UNCHANGED <<etcdVars, mid, knows, puts>> /\ node[n] # "new"
        /\ \E s \in Life : Becomes(n, s)
    BY <1>3 DEF Listen, Dial, Work, Leave, Crash, StepNode, Life
  <2>2. node' \in [All -> Stages] /\ \A m \in All : node'[m] # "new" => mid'[m] \in Ids
    BY <2>1, StageType DEF Stages
  <2>. QED BY <2>1, <2>2 DEF LifeOK, etcdVars
<1>4. ASSUME NEW n \in Nodes, PutChannel(n) \/ DeleteChannel(n) PROVE LifeOK'
  <2>1. node[n] = "up" /\ UNCHANGED <<machine, node, mid, knows>>
    BY <1>4 DEF PutChannel, DeleteChannel, Keys
  <2>2. chanKeys' \subseteq Ids
    <3>1. mid[n] \in Ids /\ chanKeys \subseteq Ids
      BY <2>1 DEF LifeOK, All
    <3>2. chanKeys' = chanKeys \cup {mid[n]} \/ chanKeys' = chanKeys \ {mid[n]}
      BY <1>4 DEF PutChannel, DeleteChannel, Keys
    <3>. QED BY <3>1, <3>2
  <2>3. puts' \in [All -> Nat] /\ \A m \in All : puts'[m] <= MaxSubscribes[m]
    BY <1>4 DEF PutChannel, DeleteChannel, LifeOK
  <2>. QED BY <2>1, <2>2, <2>3 DEF LifeOK
<1>5. CASE Start \/ Heartbeat
  <2>1. /\ UNCHANGED <<etcdVars, mid, knows, puts>>
        /\ node' = node \/ (Me # "new" /\ \E s \in Stages : Becomes(Self, s))
    BY <1>5 DEF Start, StartWatch, SelfListens, DialNext, DialDone, Snapshot, CheckState,
                CheckChannel, Heartbeat, StepSelf, lifeVars, Stages, Life, Booting, Stopped
  <2>. QED BY <2>1, StageType DEF LifeOK, etcdVars, Me
<1>6. CASE HandleChannel
  <2>1. UNCHANGED <<machine, lifeVars>>
    BY <1>6 DEF HandleChannel
  <2>2. chanKeys' \subseteq Ids
    <3>1. Head(ChannelChan)[2] \in Ids
      BY <1>6, HeadTailProperties DEF HandleChannel, QueuesOK
    <3>2. \/ chanKeys' = chanKeys \/ chanKeys' = chanKeys \cup {Head(ChannelChan)[2]}
          \/ chanKeys' = chanKeys \ {Head(ChannelChan)[2]}
      BY <1>6 DEF HandleChannel
    <3>. QED BY <3>1, <3>2 DEF LifeOK
  <2>. QED BY <2>1, <2>2 DEF LifeOK, lifeVars
<1>7. CASE HandleState
  <2>1. /\ UNCHANGED <<etcdVars, mid, knows, puts>> /\ Me = "up"
        /\ node' = node \/ Becomes(Self, "dead")
    BY <1>7 DEF HandleState, OwnState, NodeState
  <2>. QED BY <2>1, StageType DEF LifeOK, etcdVars, Me, Stages, Stopped
<1>8. CASE Subscribe \/ Unsubscribe
  <2>1. /\ UNCHANGED <<etcdVars, node, mid, knows>> /\ puts[Self] < MaxSubscribes[Self]
        /\ puts' = [puts EXCEPT ![Self] = @ + 1]
    BY <1>8 DEF Subscribe, Unsubscribe, Ask
  <2>. QED BY <2>1 DEF LifeOK, etcdVars
<1>9. CASE UNCHANGED <<etcdVars, lifeVars>>
  BY <1>9 DEF LifeOK, etcdVars, lifeVars
<1>. QED
  BY <1>1, <1>2, <1>3, <1>4, <1>5, <1>6, <1>7, <1>8, <1>9
  DEF Next, Other, Connect, Announce, ReadEnds, Pump, PumpNode, PumpState, PumpChannel,
      Handle, HandleNode, SetState, vars

\* The connections keep their types.
LEMMA TcpStep ==
  ASSUME LifeOK, TcpOK, QueuesOK, ViewOK, [Next]_vars
  PROVE  TcpOK'
<1> USE Constants
<1>1. ASSUME NEW n \in All, Register(n) \/ KeysGo(n) PROVE TcpOK'
  <2>1. /\ UNCHANGED tcpVars /\ \E s \in Life : s # "new" /\ Becomes(n, s)
    BY <1>1 DEF Register, KeysGo, Life
  <2>. QED BY <2>1 DEF TcpOK, LifeOK, tcpVars, Becomes
<1>2. ASSUME NEW n \in Nodes,
             Listen(n) \/ Dial(n) \/ Work(n) \/ Leave(n) \/ Crash(n)
      PROVE  TcpOK'
  <2>1. /\ sstate' = sstate /\ node[n] # "new" /\ \E s \in Life : s # "new" /\ Becomes(n, s)
        /\ \/ conn' = conn
           \/ \E c \in {conn[n], "sent"} : conn' = [conn EXCEPT ![n] = c]
    BY <1>2 DEF Listen, Dial, Work, Leave, Crash, StepNode, Life, tcpVars
  <2>. QED BY <2>1 DEF TcpOK, LifeOK, Becomes
<1>3. ASSUME NEW n \in Nodes, Announce(n) \/ ReadEnds(n) PROVE TcpOK'
  <2>1. /\ UNCHANGED lifeVars /\ \E c \in {"on", "closed"} : conn' = [conn EXCEPT ![n] = c]
        /\ sstate' = sstate \/ sstate' = [sstate EXCEPT ![n] = "die"]
    BY <1>3 DEF Announce, ReadEnds
  <2>. QED BY <2>1 DEF TcpOK, lifeVars
<1>4. CASE DialNext
  <2>1. UNCHANGED <<node, sstate>>
    BY <1>4 DEF DialNext
  <2>2. conn' = conn \/ conn' = [conn EXCEPT ![Head(todo)] = "on"]
    BY <1>4 DEF DialNext
  <2>. QED BY <2>1, <2>2 DEF TcpOK
<1>5. CASE StartWatch \/ SelfListens \/ DialDone \/ Snapshot \/ CheckState \/ CheckChannel
           \/ Heartbeat
  <2>1. UNCHANGED tcpVars /\ Me # "new" /\ \E s \in Stages \ {"new"} : Becomes(Self, s)
    BY <1>5 DEF StartWatch, SelfListens, DialDone, Snapshot, CheckState, CheckChannel,
                Heartbeat, StepSelf, Stages, Booting, Stopped, Life
  <2>. QED BY <2>1 DEF TcpOK, LifeOK, tcpVars, Me, Becomes
<1>6. CASE HandleState
  <2>1. ASSUME NEW id, NEW u \in {"work", "die"}, NodeState(id, u), UNCHANGED node
        PROVE  TcpOK'
    BY <2>1 DEF NodeState, NewState, TcpOK
  <2>2. ASSUME NEW u, OwnState(u) PROVE TcpOK'
    <3>1. CASE u = "die"
      <4>1. Me = "up" /\ Becomes(Self, "dead")
        BY <1>6, <2>2, <3>1 DEF HandleState, OwnState
      <4>2. /\ sstate' \in [All -> {"work", "die"}]
            /\ conn' \in [All -> {None, "sent", "on", "closed"}]
            /\ \A n \in All : conn'[n] = "sent" => conn[n] = "sent"
        BY <2>2, <3>1 DEF OwnState, TcpOK
      <4>. QED BY <4>1, <4>2 DEF TcpOK, LifeOK, Me, Becomes
    <3>2. CASE u # "die"
      BY <2>2, <3>2 DEF OwnState, TcpOK
    <3>. QED BY <3>1, <3>2
  <2>3. Head(StateChan) \in StateMsgs
    BY <1>6, HeadTailProperties DEF HandleState, QueuesOK
  <2>4. Head(StateChan)[2] \in {"work", "die"}
    BY <2>3 DEF StateMsgs
  <2>. QED BY <1>6, <2>1, <2>2, <2>4 DEF HandleState, NodeState
<1>7. CASE HandleNode
  <2>1. UNCHANGED <<lifeVars, conn>>
    BY <1>7 DEF HandleNode
  <2>2. \/ sstate' = sstate
        \/ sstate' = [sstate EXCEPT ![sessions[Head(NodeChan)[2]]] = "die"]
    BY <1>7 DEF HandleNode
  <2>. QED BY <2>1, <2>2 DEF TcpOK, lifeVars
<1>8. CASE UNCHANGED <<node, tcpVars>>
  BY <1>8 DEF TcpOK, tcpVars
<1>. QED
  BY <1>1, <1>2, <1>3, <1>4, <1>5, <1>6, <1>7, <1>8
  DEF Next, Other, Connect, PutChannel, DeleteChannel, Keys, Start, Pump, PumpNode,
      PumpState, PumpChannel, Handle, HandleChannel, Subscribe, Unsubscribe, Ask, SetState,
      vars, lifeVars

\* An append keeps a list of members of S.
LEMMA AppendType ==
  \A S : \A q \in Seq(S), e \in S : Append(q, e) \in Seq(S)
BY AppendProperties

\* The watches and the channels keep their types.
LEMMA QueuesStep ==
  ASSUME LifeOK, TcpOK, QueuesOK, ViewOK, [Next]_vars
  PROVE  QueuesOK'
<1> USE Constants
<1>1. ASSUME NEW n \in All, KeysGo(n) PROVE QueuesOK'
  <2>1. UNCHANGED <<stateW, chans>> /\ mid[n] \in Ids
    BY <1>1 DEF KeysGo, LifeOK, Stopped
  <2>2. nodeW' = nodeW \/ nodeW' = Append(nodeW, mid[n])
    BY <1>1 DEF KeysGo, Watched
  <2>3. chanW' = chanW \/ chanW' = Append(chanW, <<"delete", mid[n]>>)
    BY <1>1 DEF KeysGo, Watched
  <2>4. nodeW' \in Seq(Ids)
    BY <2>1, <2>2, AppendType DEF QueuesOK
  <2>5. chanW' \in Seq(ChanEvents)
    <3>1. <<"delete", mid[n]>> \in ChanEvents
      BY <2>1 DEF ChanEvents
    <3>. QED BY <2>3, <3>1, AppendType DEF QueuesOK
  <2>. QED BY <2>1, <2>4, <2>5 DEF QueuesOK, chans
<1>2. ASSUME NEW n \in Nodes, Work(n) \/ Leave(n) PROVE QueuesOK'
  <2>1. UNCHANGED <<nodeW, chanW, chans>> /\ mid[n] \in Ids
    BY <1>2 DEF Work, Leave, StepNode, LifeOK, All
  <2>2. stateW' = stateW \/ \E u \in {"work", "die"} : stateW' = Append(stateW, <<mid[n], u>>)
    BY <1>2 DEF Work, Leave, Watched
  <2>3. stateW' \in Seq(StateEvents)
    <3>1. \A u \in {"work", "die"} : <<mid[n], u>> \in StateEvents
      BY <2>1 DEF StateEvents
    <3>. QED BY <2>2, <3>1, AppendType DEF QueuesOK
  <2>. QED BY <2>1, <2>3 DEF QueuesOK, chans
<1>3. ASSUME NEW n \in Nodes, PutChannel(n) \/ DeleteChannel(n) PROVE QueuesOK'
  <2>1. UNCHANGED <<nodeW, stateW, chans>> /\ mid[n] \in Ids
    BY <1>3 DEF PutChannel, DeleteChannel, Keys, LifeOK, All
  <2>2. \/ chanW' = chanW
        \/ \E op \in {"put", "delete"} : chanW' = Append(chanW, <<op, mid[n]>>)
    BY <1>3 DEF PutChannel, DeleteChannel, Keys, Watched
  <2>3. chanW' \in Seq(ChanEvents)
    <3>1. \A op \in {"put", "delete"} : <<op, mid[n]>> \in ChanEvents
      BY <2>1 DEF ChanEvents
    <3>. QED BY <2>2, <3>1, AppendType DEF QueuesOK
  <2>. QED BY <2>1, <2>3 DEF QueuesOK, chans
<1>4. ASSUME NEW n \in Nodes, Announce(n) PROVE QueuesOK'
  <2>1. UNCHANGED <<watchVars, StateChan, ChannelChan>> /\ Len(NodeChan) < ChanCap
    BY <1>4 DEF Announce, Room
  <2>2. mid[n] \in Ids
    BY <1>4 DEF Announce, LifeOK, TcpOK, All
  <2>3. NodeChan' = Append(NodeChan, <<"connect", mid[n], n>>)
    BY <1>4 DEF Announce, FrameId
  <2>. QED BY <2>1, <2>2, <2>3 DEF QueuesOK, watchVars, NodeMsgs, All
<1>5. CASE DialNext
  <2>1. UNCHANGED <<watchVars, StateChan, ChannelChan>>
    BY <1>5 DEF DialNext
  <2>2. ASSUME node[Head(todo)] \in Listening PROVE QueuesOK'
    <3>1. Head(todo) \in All
      BY <1>5, HeadTailProperties DEF DialNext, ViewOK
    <3>2. mid[Head(todo)] \in Ids
      BY <2>2, <3>1 DEF LifeOK, Listening, Booting
    <3>3. /\ NodeChan' = Append(NodeChan, <<"connect", mid[Head(todo)], Head(todo)>>)
          /\ Len(NodeChan) < ChanCap
      BY <1>5, <2>2 DEF DialNext, Room
    <3>. QED BY <2>1, <3>1, <3>2, <3>3 DEF QueuesOK, watchVars, NodeMsgs
  <2>3. CASE node[Head(todo)] \notin Listening
    BY <1>5, <2>1, <2>3 DEF DialNext, QueuesOK, watchVars
  <2>. QED BY <2>2, <2>3
<1>6. CASE PumpNode
  <2>1. Head(nodeW) \in Ids /\ nodeW' \in Seq(Ids)
    BY <1>6, HeadTailProperties DEF PumpNode, QueuesOK
  <2>2. UNCHANGED <<stateW, chanW, StateChan, ChannelChan>> /\ Len(NodeChan) < ChanCap
    BY <1>6 DEF PumpNode, Room
  <2>. QED BY <1>6, <2>1, <2>2 DEF PumpNode, QueuesOK, NodeMsgs
<1>7. CASE PumpState
  <2>1. Head(stateW) \in StateEvents /\ stateW' \in Seq(StateEvents)
    BY <1>7, HeadTailProperties DEF PumpState, QueuesOK
  <2>2. UNCHANGED <<nodeW, chanW, NodeChan, ChannelChan>> /\ Len(StateChan) < ChanCap
    BY <1>7 DEF PumpState, Room
  <2>. QED BY <1>7, <2>1, <2>2 DEF PumpState, QueuesOK, StateMsgs, StateEvents
<1>8. CASE PumpChannel
  <2>1. Head(chanW) \in ChanEvents /\ chanW' \in Seq(ChanEvents)
    BY <1>8, HeadTailProperties DEF PumpChannel, QueuesOK
  <2>2. UNCHANGED <<nodeW, stateW, NodeChan, StateChan>> /\ Len(ChannelChan) < ChanCap
    BY <1>8 DEF PumpChannel, Room
  <2>. QED BY <1>8, <2>1, <2>2 DEF PumpChannel, QueuesOK, ChanEvents
<1>9. CASE HandleChannel
  <2>1. /\ Head(ChannelChan)[2] \in Ids /\ Len(ChannelChan') = Len(ChannelChan) - 1
        /\ ChannelChan' \in Seq({"put", "delete", "ownPut", "ownDelete"} \X Ids)
    BY <1>9, HeadTailProperties DEF HandleChannel, QueuesOK
  <2>2. \/ chanW' = chanW
        \/ \E op \in {"put", "delete"} : chanW' = Append(chanW, <<op, Head(ChannelChan)[2]>>)
    BY <1>9 DEF HandleChannel
  <2>3. UNCHANGED <<nodeW, stateW, NodeChan, StateChan>>
    BY <1>9 DEF HandleChannel
  <2>4. chanW' \in Seq(ChanEvents)
    <3>1. \A op \in {"put", "delete"} :
            <<op, Head(ChannelChan)[2]>> \in ChanEvents
      BY <2>1 DEF ChanEvents
    <3>. QED BY <2>2, <3>1, AppendType DEF QueuesOK
  <2>5. Len(ChannelChan') <= ChanCap
    BY <2>1 DEF QueuesOK
  <2>. QED BY <2>1, <2>3, <2>4, <2>5 DEF QueuesOK
<1>10. CASE HandleState
  <2>1. /\ Head(StateChan) \in StateMsgs /\ Len(StateChan') = Len(StateChan) - 1
        /\ StateChan' \in Seq(StateMsgs)
    BY <1>10, HeadTailProperties DEF HandleState, QueuesOK
  <2>2. UNCHANGED <<nodeW, chanW, NodeChan, ChannelChan>> /\ mid[Self] \in Ids
    BY <1>10 DEF HandleState, Me, LifeOK
  <2>3. stateW' = stateW \/ stateW' = Append(stateW, <<mid[Self], Head(StateChan)[2]>>)
    BY <1>10 DEF HandleState, OwnState, NodeState
  <2>4. stateW' \in Seq(StateEvents)
    <3>1. <<mid[Self], Head(StateChan)[2]>> \in StateEvents
      BY <2>1, <2>2 DEF StateMsgs, StateEvents
    <3>. QED BY <2>3, <3>1, AppendType DEF QueuesOK
  <2>5. Len(StateChan') <= ChanCap
    BY <2>1 DEF QueuesOK
  <2>. QED BY <2>1, <2>2, <2>4, <2>5 DEF QueuesOK
<1>11. CASE HandleNode
  <2>1. Len(NodeChan') = Len(NodeChan) - 1 /\ NodeChan' \in Seq(NodeMsgs)
    BY <1>11, HeadTailProperties DEF HandleNode, QueuesOK
  <2>. QED BY <1>11, <2>1 DEF HandleNode, QueuesOK, watchVars
<1>12. ASSUME NEW op \in {"ownPut", "ownDelete"}, Ask(op) PROVE QueuesOK'
  <2>1. mid[Self] \in Ids /\ Len(ChannelChan) < ChanCap
    BY <1>12 DEF Ask, Room, Me, LifeOK
  <2>. QED BY <1>12, <2>1 DEF Ask, QueuesOK, watchVars
<1>13. ASSUME NEW u \in {"work", "die"}, SetState(u) PROVE QueuesOK'
  BY <1>13 DEF SetState, Room, QueuesOK, StateMsgs, watchVars
<1>14. CASE UNCHANGED <<watchVars, chans>>
  BY <1>14 DEF QueuesOK, watchVars, chans
<1>. QED
  BY <1>1, <1>2, <1>3, <1>4, <1>5, <1>6, <1>7, <1>8, <1>9, <1>10, <1>11, <1>12, <1>13, <1>14
  DEF Next, Register, Other, Listen, Dial, Crash, StepNode, Connect, ReadEnds, Start,
      StartWatch, SelfListens, DialDone, Snapshot, CheckState, CheckChannel, Heartbeat, Pump,
      Handle, Subscribe, Unsubscribe, vars, watchVars

\* What Self holds keeps its type.
LEMMA ViewStep ==
  ASSUME LifeOK, TcpOK, QueuesOK, ViewOK, [Next]_vars
  PROVE  ViewOK'
<1> USE Constants
<1>1. ASSUME NEW n \in All, Register(n) PROVE ViewOK'
  <2>1. Addresses \in Seq(All)
    <3> DEFINE k == Cardinality(Taken)
               rest == [i \in 1 .. k |-> machine[Sorted(Taken)[i]]]
    <3>1. k \in Nat /\ \A i \in 1 .. k : Sorted(Taken)[i] \in Taken
      BY SortedLists DEF Taken
    <3>2. \A i \in Taken : machine[i] \in All
      BY DEF Taken, LifeOK
    <3>3. rest \in Seq(All)
      BY <3>1, <3>2
    <3>4. <<Self>> \in Seq(All)
      OBVIOUS
    <3>. QED BY <3>3, <3>4, ConcatProperties DEF Addresses
  <2>2. UNCHANGED <<hole, told, snap, viewVars>> /\ todo' \in {todo, Addresses}
    BY <1>1 DEF Register
  <2>. QED BY <2>1, <2>2 DEF ViewOK, viewVars
<1>2. CASE DialNext
  <2>1. todo' \in Seq(All) /\ hole' \in BOOLEAN
    BY <1>2, HeadTailProperties DEF DialNext, ViewOK
  <2>. QED BY <1>2, <2>1 DEF DialNext, ViewOK, viewVars
<1>3. CASE Snapshot
  <2>1. snap' \in Seq(Ids)
    BY <1>3, SortedLists DEF Snapshot, Read, LifeOK
  <2>. QED BY <1>3, <2>1 DEF Snapshot, ViewOK, viewVars
<1>4. CASE CheckChannel
  BY <1>4 DEF CheckChannel, ViewOK, bootVars
<1>5. CASE HandleChannel
  <2>1. Head(ChannelChan)[2] \in Ids
    BY <1>5, HeadTailProperties DEF HandleChannel, QueuesOK
  <2>2. bucket' \in Seq(Ids)
    <3>1. bucket \in Seq(Ids)
      BY DEF ViewOK
    <3>2. bucket' \in {bucket, Append(bucket, Head(ChannelChan)[2]),
                       Without(bucket, Head(ChannelChan)[2])}
      BY <1>5 DEF HandleChannel, With
    <3>3. Append(bucket, Head(ChannelChan)[2]) \in Seq(Ids)
      BY <2>1, <3>1, AppendProperties
    <3>4. Without(bucket, Head(ChannelChan)[2]) \in Seq(Ids)
      BY <2>1, <3>1, WithoutKeeps
    <3>. QED BY <3>1, <3>2, <3>3, <3>4
  <2>. QED BY <1>5, <2>2 DEF HandleChannel, ViewOK, bootVars
<1>6. CASE HandleState
  <2>1. UNCHANGED <<bootVars, bucket>>
    BY <1>6 DEF HandleState
  <2>2. sessions' = sessions \/ sessions' = [i \in Ids |-> None]
    BY <1>6 DEF HandleState, OwnState, NodeState
  <2>. QED BY <2>1, <2>2 DEF ViewOK, bootVars
<1>7. CASE HandleNode
  <2>1. Head(NodeChan) \in NodeMsgs
    BY <1>7, HeadTailProperties DEF HandleNode, QueuesOK
  <2>2. sessions' \in [Ids -> All \cup {None}]
    <3>1. ASSUME Head(NodeChan)[1] = "connect" PROVE Head(NodeChan)[3] \in All
      BY <2>1, <3>1 DEF NodeMsgs
    <3>. QED BY <1>7, <3>1 DEF HandleNode, Offline, ViewOK
  <2>. QED BY <1>7, <2>2 DEF HandleNode, ViewOK, bootVars
<1>8. ASSUME NEW u \in {"work", "die"}, SetState(u) PROVE ViewOK'
  BY <1>8 DEF SetState, ViewOK, viewVars
<1>9. CASE UNCHANGED <<bootVars, viewVars>>
  BY <1>9 DEF ViewOK, bootVars, viewVars
<1>. QED
  BY <1>1, <1>2, <1>3, <1>4, <1>5, <1>6, <1>7, <1>8, <1>9
  DEF Next, KeysGo, Other, Listen, Dial, Work, PutChannel, DeleteChannel, Keys, Leave, Crash,
      StepNode, Connect, Announce, ReadEnds, Start, StartWatch, SelfListens, DialDone,
      CheckState, Heartbeat, Pump, PumpNode, PumpState, PumpChannel, Handle, Subscribe,
      Unsubscribe, Ask, vars

\* A step in haste is remembered.
LEMMA HasteStep ==
  ASSUME hasty \in BOOLEAN, [Next]_vars PROVE hasty' \in BOOLEAN /\ (hasty => hasty')
<1>1. ASSUME NEW c, Haste(c) PROVE hasty' \in BOOLEAN /\ (hasty => hasty')
  BY <1>1 DEF Haste
<1>2. ASSUME NEW n \in All, Register(n) PROVE \E c : Haste(c)
  BY <1>2 DEF Register
<1>3. ASSUME NEW n \in Nodes, Dial(n) \/ Leave(n) \/ Crash(n) PROVE \E c : Haste(c)
  BY <1>3 DEF Dial, Leave, Crash
<1>4. CASE DialNext
  BY <1>4, <1>1 DEF DialNext
<1>5. CASE UNCHANGED hasty
  BY <1>5
<1>. QED
  BY <1>1, <1>2, <1>3, <1>4, <1>5
  DEF Next, KeysGo, Other, Listen, Work, PutChannel, DeleteChannel, Keys, Connect, Announce,
      ReadEnds, Start, StartWatch, SelfListens, DialDone, Snapshot, CheckState, CheckChannel,
      Heartbeat, Pump, PumpNode, PumpState, PumpChannel, Handle, HandleChannel, HandleState,
      HandleNode, Subscribe, Unsubscribe, Ask, SetState, vars, lifeVars

LEMMA InitTypes == Init => TypeInv
<1> SUFFICES ASSUME Init PROVE TypeInv
  OBVIOUS
<1> USE Constants DEF Init
<1>1. LifeOK
  BY DEF LifeOK, Stages, Life
<1>2. TcpOK
  BY DEF TcpOK, None
<1>3. QueuesOK
  BY DEF QueuesOK
<1>4. ViewOK
  <2>1. \A S : <<>> \in Seq(S)
    BY EmptySeq
  <2>. QED BY <2>1 DEF ViewOK
<1>. QED BY <1>1, <1>2, <1>3, <1>4 DEF TypeInv

LEMMA NextTypes == TypeInv /\ [Next]_vars => TypeInv'
BY LifeStep, TcpStep, QueuesStep, ViewStep, HasteStep DEF TypeInv

LEMMA TypesAlways == Spec => []TypeInv
BY InitTypes, NextTypes, PTL DEF Spec

\* What etcd, the nodes, the watches, the three channels and the view hold keeps its type:
\* ids in the range of the machine ids, channels within their capacity, and a session only
\* for a node, in every order in which nodes come, go and are seen.
THEOREM TypeCorrect == Spec => []TypeOK
BY TypesAlways, TypeInvImplies, PTL

----------------------------------------------------------------------------
(* Machine ids                                                              *)

\* The key of a node that has keys in etcd holds its address.
KeysAreOwn == \A n \in All : node[n] \notin {"new", "gone"} => machine[mid[n]] = n

LEMMA KeysStep == TypeInv /\ KeysAreOwn /\ [Next]_vars => KeysAreOwn'
<1> SUFFICES ASSUME TypeInv, KeysAreOwn, [Next]_vars PROVE KeysAreOwn'
  OBVIOUS
<1> USE Constants DEF TypeInv
<1>1. ASSUME NEW n \in All, Register(n) PROVE KeysAreOwn'
  <2>1. Allocated \in Ids /\ Allocated \notin Taken
    BY <1>1, AllocatedIsFree DEF Register, LifeOK, Ids
  <2>2. machine[Allocated] = None
    BY <2>1 DEF Taken
  <2>3. /\ mid' = [mid EXCEPT ![n] = Allocated] /\ machine' = [machine EXCEPT ![Allocated] = n]
        /\ node' = [node EXCEPT ![n] = "registered"] /\ node[n] = "new"
    BY <1>1 DEF Register, Becomes
  <2>4. ASSUME NEW m \in All, m # n, node'[m] \notin {"new", "gone"}
        PROVE  machine'[mid'[m]] = m
    <3>1. mid[m] \in Ids /\ machine[mid[m]] = m /\ mid'[m] = mid[m]
      BY <2>3, <2>4 DEF LifeOK, KeysAreOwn
    <3>. QED BY <2>1, <2>2, <2>3, <3>1 DEF LifeOK
  <2>5. machine'[mid'[n]] = n
    BY <2>1, <2>3 DEF LifeOK
  <2>. QED BY <2>4, <2>5 DEF KeysAreOwn
<1>2. ASSUME NEW n \in All, KeysGo(n) PROVE KeysAreOwn'
  <2>1. /\ mid' = mid /\ machine' = [machine EXCEPT ![mid[n]] = None]
        /\ node' = [node EXCEPT ![n] = "gone"] /\ node[n] \notin {"new", "gone"}
    BY <1>2 DEF KeysGo, Becomes, Stopped
  <2>2. ASSUME NEW m \in All, node'[m] \notin {"new", "gone"}
        PROVE  machine'[mid'[m]] = m
    <3>1. m # n /\ mid[m] \in Ids /\ machine[mid[m]] = m /\ machine[mid[n]] = n
      BY <2>1, <2>2 DEF LifeOK, KeysAreOwn
    <3>. QED BY <2>1, <3>1 DEF LifeOK
  <2>. QED BY <2>2 DEF KeysAreOwn
<1>3. ASSUME NEW n \in All, UNCHANGED <<machine, mid>>, node[n] \notin {"new", "gone"},
             NEW s, Becomes(n, s)
      PROVE  KeysAreOwn'
  BY <1>3 DEF KeysAreOwn, Becomes, LifeOK
<1>4. ASSUME NEW n \in Nodes,
             Listen(n) \/ Dial(n) \/ Work(n) \/ Leave(n) \/ Crash(n)
      PROVE  KeysAreOwn'
  <2>1. /\ UNCHANGED <<machine, mid>> /\ node[n] \notin {"new", "gone"}
        /\ \E s : Becomes(n, s)
    BY <1>4 DEF Listen, Dial, Work, Leave, Crash, StepNode, etcdVars
  <2>. QED BY <1>3, <2>1
<1>5. CASE Start \/ Heartbeat \/ HandleState
  <2>1. /\ UNCHANGED <<machine, mid>> /\ Me \notin {"new", "gone"}
        /\ node' = node \/ \E s : Becomes(Self, s)
    BY <1>5 DEF Start, StartWatch, SelfListens, DialNext, DialDone, Snapshot, CheckState,
                CheckChannel, Heartbeat, StepSelf, HandleState, OwnState, NodeState, etcdVars,
                lifeVars
  <2>2. CASE node' = node
    BY <2>1, <2>2 DEF KeysAreOwn
  <2>. QED BY <1>3, <2>1, <2>2 DEF Me
<1>6. CASE UNCHANGED <<machine, node, mid>>
  BY <1>6 DEF KeysAreOwn
<1>. QED
  BY <1>1, <1>2, <1>4, <1>5, <1>6
  DEF Next, Other, Connect, PutChannel, DeleteChannel, Keys, Announce, ReadEnds, Pump,
      PumpNode, PumpState, PumpChannel, Handle, HandleChannel, HandleNode, Subscribe,
      Unsubscribe, Ask, SetState, vars, etcdVars, lifeVars

\* getMachineID gives no two nodes with keys in etcd the same machine id, whatever ids were
\* given back in between: the sorted ids run ahead of their index exactly at a free one.
THEOREM IdsAreUnique == Spec => []UniqueIds
<1>1. Init => KeysAreOwn
  BY DEF Init, KeysAreOwn
<1>2. KeysAreOwn => UniqueIds
  BY DEF KeysAreOwn, UniqueIds
<1>. QED BY <1>1, <1>2, KeysStep, TypesAlways, PTL DEF Spec

----------------------------------------------------------------------------
(* Subscriptions: what the events on their way will still do to an id       *)

NoDelete(q, id) == \A i \in DOMAIN q : q[i] # <<"delete", id>>

\* A put of id is on its way and no delete comes after it.
PutLast(q, id) ==
  \E i \in DOMAIN q : /\ q[i] = <<"put", id>>
                      /\ \A j \in DOMAIN q : i < j => q[j] # <<"delete", id>>

LEMMA AppendedEvent ==
  ASSUME NEW S, NEW q \in Seq(S), NEW e \in S, NEW id
  PROVE  /\ e = <<"put", id>> => PutLast(Append(q, e), id)
         /\ e # <<"delete", id>> /\ PutLast(q, id) => PutLast(Append(q, e), id)
         /\ e # <<"delete", id>> /\ NoDelete(q, id) => NoDelete(Append(q, e), id)
<1> DEFINE r == Append(q, e)
           n == Len(q)
<1>1. /\ n \in Nat /\ DOMAIN q = 1 .. n /\ DOMAIN r = 1 .. n + 1 /\ r[n + 1] = e
      /\ \A i \in 1 .. n : r[i] = q[i]
  <2>1. r \in Seq(S) /\ Len(r) = n + 1 /\ r[n + 1] = e /\ \A i \in 1 .. n : r[i] = q[i]
    BY AppendProperties
  <2>. QED BY <2>1, LenProperties
<1> HIDE DEF n, r
<1>2. ASSUME e = <<"put", id>> PROVE PutLast(r, id)
  <2>1. n + 1 \in DOMAIN r /\ \A j \in DOMAIN r : ~(n + 1 < j)
    BY <1>1
  <2>. QED BY <1>1, <1>2, <2>1 DEF PutLast
<1>3. ASSUME e # <<"delete", id>>, PutLast(q, id) PROVE PutLast(r, id)
  <2>1. PICK i \in 1 .. n : /\ q[i] = <<"put", id>>
                            /\ \A j \in 1 .. n : i < j => q[j] # <<"delete", id>>
    BY <1>1, <1>3 DEF PutLast
  <2>2. i \in DOMAIN r /\ r[i] = <<"put", id>>
    BY <1>1, <2>1
  <2>3. ASSUME NEW j \in DOMAIN r, i < j PROVE r[j] # <<"delete", id>>
    <3>1. j \in 1 .. n \/ j = n + 1
      BY <1>1
    <3>. QED BY <1>1, <1>3, <2>1, <2>3, <3>1
  <2>. QED BY <2>2, <2>3 DEF PutLast
<1>4. ASSUME e # <<"delete", id>>, NoDelete(q, id) PROVE NoDelete(r, id)
  <2>1. \A j \in DOMAIN r : j \in 1 .. n \/ j = n + 1
    BY <1>1
  <2>. QED BY <1>1, <1>4, <2>1 DEF NoDelete
<1>. QED BY <1>2, <1>3, <1>4 DEF r

LEMMA TakenEvent ==
  ASSUME NEW S, NEW q \in Seq(S), q # <<>>, NEW id
  PROVE  /\ NoDelete(q, id) => NoDelete(Tail(q), id) /\ Head(q) # <<"delete", id>>
         /\ PutLast(q, id) =>
              PutLast(Tail(q), id) \/ (Head(q) = <<"put", id>> /\ NoDelete(Tail(q), id))
<1> DEFINE t == Tail(q)
           n == Len(q)
<1>1. /\ n \in Nat /\ 0 < n /\ DOMAIN q = 1 .. n /\ DOMAIN t = 1 .. n - 1
      /\ Head(q) = q[1] /\ \A i \in 1 .. n - 1 : t[i] = q[i + 1]
  <2>1. t \in Seq(S) /\ Len(t) = n - 1 /\ \A i \in 1 .. Len(t) : t[i] = q[i + 1]
    BY HeadTailProperties
  <2>2. n \in Nat /\ 0 < n /\ DOMAIN q = 1 .. n
    BY EmptySeq, LenProperties
  <2>3. DOMAIN t = 1 .. n - 1
    BY <2>1, LenProperties
  <2>. QED BY <2>1, <2>2, <2>3
<1>2. Head(q) = q[1]
  BY <1>1
<1> HIDE DEF n, t
<1>3. ASSUME NEW j \in 1 .. n - 1 PROVE j + 1 \in 1 .. n /\ t[j] = q[j + 1] /\ 1 < j + 1
  BY <1>1
<1>4. ASSUME NoDelete(q, id) PROVE NoDelete(t, id) /\ Head(q) # <<"delete", id>>
  <2>1. 1 \in 1 .. n
    BY <1>1
  <2>. QED BY <1>1, <1>3, <1>4, <2>1 DEF NoDelete
<1>5. ASSUME PutLast(q, id)
      PROVE  PutLast(t, id) \/ (Head(q) = <<"put", id>> /\ NoDelete(t, id))
  <2>1. PICK i \in 1 .. n : /\ q[i] = <<"put", id>>
                            /\ \A j \in 1 .. n : i < j => q[j] # <<"delete", id>>
    BY <1>1, <1>5 DEF PutLast
  <2>2. CASE i = 1
    BY <1>1, <1>2, <1>3, <2>1, <2>2 DEF NoDelete
  <2>3. CASE i # 1
    <3>1. i - 1 \in 1 .. n - 1 /\ t[i - 1] = <<"put", id>>
      <4>1. i - 1 \in 1 .. n - 1 /\ (i - 1) + 1 = i
        BY <1>1, <2>3
      <4>. QED BY <1>3, <2>1, <4>1
    <3>2. ASSUME NEW j \in 1 .. n - 1, i - 1 < j PROVE t[j] # <<"delete", id>>
      <4>1. i < j + 1
        BY <1>1, <3>2
      <4>. QED BY <1>3, <2>1, <4>1
    <3>. QED BY <1>1, <3>1, <3>2 DEF PutLast
  <2>. QED BY <2>2, <2>3
<1>. QED BY <1>4, <1>5 DEF t

\* What initStateAndChannels read, or cluster.Run holds, has id.
Held(id) ==
  /\ Me \in {"checkState", "checkChannel"} => id \in Range(snap)
  /\ Me = "up" => id \in Range(bucket)

\* The last event on its way about id is a put, or there is none that could take id away.
Covered(id) ==
  \/ PutLast(chanW, id)
  \/ PutLast(ChannelChan, id) /\ NoDelete(chanW, id)
  \/ NoDelete(ChannelChan, id) /\ NoDelete(chanW, id) /\ Held(id)

KeysCovered ==
  /\ Me \in {"new", "registered"} => chanW = <<>> /\ ChannelChan = <<>>
  /\ Watching => \A id \in chanKeys : Covered(id)

\* A key that is put, or deleted, and the event of it.
LEMMA KeyChange ==
  ASSUME TypeInv, KeysCovered, NEW x \in Ids, Watching, Watching',
         \/ chanKeys' = chanKeys \cup {x} /\ chanW' = Append(chanW, <<"put", x>>)
         \/ chanKeys' = chanKeys \ {x} /\ chanW' = Append(chanW, <<"delete", x>>)
         \/ chanKeys' \subseteq chanKeys /\ chanW' = chanW,
         \A id \in chanKeys : /\ PutLast(ChannelChan, id) => PutLast(ChannelChan', id)
                              /\ NoDelete(ChannelChan, id) => NoDelete(ChannelChan', id),
         \A id \in chanKeys : Held(id) => Held(id)'
  PROVE  \A id \in chanKeys' : Covered(id)'
<1>1. chanW \in Seq(ChanEvents) /\ <<"put", x>> \in ChanEvents /\ <<"delete", x>> \in ChanEvents
  BY DEF TypeInv, QueuesOK, ChanEvents
<1> SUFFICES ASSUME NEW id \in chanKeys' PROVE Covered(id)'
  OBVIOUS
<1>2. CASE chanW' = Append(chanW, <<"put", x>>) /\ id = x
  <2>1. PutLast(chanW', id)
    BY <1>1, <1>2, AppendedEvent
  <2>. QED BY <2>1 DEF Covered
<1>3. CASE chanW' = Append(chanW, <<"put", x>>) /\ id # x /\ id \in chanKeys
  <2>1. <<"put", x>> # <<"delete", id>>
    OBVIOUS
  <2>2. /\ PutLast(chanW, id) => PutLast(chanW', id)
        /\ NoDelete(chanW, id) => NoDelete(chanW', id)
    BY <1>1, <1>3, <2>1, AppendedEvent
  <2>. QED BY <1>3, <2>2 DEF Covered, KeysCovered
<1>4. CASE chanW' = Append(chanW, <<"delete", x>>) /\ id # x /\ id \in chanKeys
  <2>1. <<"delete", x>> # <<"delete", id>>
    BY <1>4
  <2>2. /\ PutLast(chanW, id) => PutLast(chanW', id)
        /\ NoDelete(chanW, id) => NoDelete(chanW', id)
    BY <1>1, <1>4, <2>1, AppendedEvent
  <2>. QED BY <1>4, <2>2 DEF Covered, KeysCovered
<1>5. CASE chanW' = chanW /\ id \in chanKeys
  BY <1>5 DEF Covered, KeysCovered
<1>. QED BY <1>2, <1>3, <1>4, <1>5

\* Nothing about a key happens, and Self goes no further.
LEMMA NoKeyChange ==
  ASSUME KeysCovered, UNCHANGED <<chanKeys, chanW, ChannelChan, snap, bucket>>,
         Me' = Me \/ Me' \notin {"new", "registered", "watching", "up"} \cup Booting
  PROVE  KeysCovered'
BY DEF KeysCovered, Watching, Covered, Held

LEMMA CoveredStep == TypeInv /\ KeysCovered /\ [Next]_vars => KeysCovered'
<1> SUFFICES ASSUME TypeInv, KeysCovered, [Next]_vars PROVE KeysCovered'
  OBVIOUS
<1> USE Constants DEF TypeInv
<1>0. \A n \in Nodes : \A s : Becomes(n, s) => Me' = Me
  BY ConstantsAssumption DEF Becomes, Me, LifeOK
<1>1. \A s : Becomes(Self, s) => Me' = s
  BY DEF Becomes, Me, LifeOK
<1>2. ASSUME NEW n \in All, Register(n) PROVE KeysCovered'
  <2>1. UNCHANGED <<chanKeys, chanW, ChannelChan, snap, bucket>> /\ Becomes(n, "registered")
    BY <1>2 DEF Register, watchVars, chans, viewVars
  <2>2. CASE n = Self
    <3>1. Me = "new" /\ Me' = "registered"
      BY <1>1, <1>2, <2>1, <2>2 DEF Register, Me
    <3>. QED BY <2>1, <3>1 DEF KeysCovered, Watching, Booting
  <2>. QED BY <1>0, <2>1, <2>2, NoKeyChange DEF All
<1>3. ASSUME NEW n \in All, KeysGo(n) PROVE KeysCovered'
  <2>1. /\ Becomes(n, "gone") /\ UNCHANGED <<ChannelChan, snap, bucket>> /\ mid[n] \in Ids
        /\ \/ chanKeys' = chanKeys \ {mid[n]}
              /\ chanW' = Watched(chanW, <<"delete", mid[n]>>)
           \/ chanKeys' \subseteq chanKeys /\ chanW' = chanW
    BY <1>3 DEF KeysGo, chans, bootVars, viewVars, LifeOK, Stopped
  <2>2. CASE n = Self
    BY <1>1, <2>1, <2>2 DEF KeysCovered, Watching, Booting
  <2>3. CASE n # Self
    <3>1. Me' = Me
      BY <1>0, <2>1, <2>3 DEF All
    <3>2. CASE Watching
      BY <2>1, <3>1, <3>2, KeyChange DEF Watched, KeysCovered, Watching, Held, Booting
    <3>3. CASE ~Watching
      BY <2>1, <3>1, <3>3 DEF Watched, KeysCovered, Watching
    <3>. QED BY <3>2, <3>3
  <2>. QED BY <2>2, <2>3
<1>4. ASSUME NEW n \in Nodes, PutChannel(n) \/ DeleteChannel(n) PROVE KeysCovered'
  <2>1. /\ UNCHANGED <<node, ChannelChan, snap, bucket>> /\ mid[n] \in Ids
        /\ \/ chanKeys' = chanKeys \ {mid[n]}
              /\ chanW' = Watched(chanW, <<"delete", mid[n]>>)
           \/ chanKeys' = chanKeys \cup {mid[n]}
              /\ chanW' = Watched(chanW, <<"put", mid[n]>>)
    BY <1>4 DEF PutChannel, DeleteChannel, Keys, chans, bootVars, viewVars, LifeOK
  <2>2. CASE Watching
    BY <2>1, <2>2, KeyChange DEF Watched, KeysCovered, Watching, Me, Held, Booting
  <2>3. CASE ~Watching
    BY <2>1, <2>3 DEF Watched, KeysCovered, Watching, Me
  <2>. QED BY <2>2, <2>3
<1>5. ASSUME NEW n \in Nodes,
             Listen(n) \/ Dial(n) \/ Work(n) \/ Leave(n) \/ Crash(n)
      PROVE  KeysCovered'
  <2>1. UNCHANGED <<chanKeys, chanW, ChannelChan, snap, bucket>> /\ \E s : Becomes(n, s)
    BY <1>5 DEF Listen, Dial, Work, Leave, Crash, StepNode, etcdVars, watchVars, chans,
                bootVars, viewVars
  <2>. QED BY <1>0, <2>1, NoKeyChange
<1>6. CASE StartWatch \/ SelfListens \/ DialDone \/ CheckState \/ Heartbeat
  <2>1. UNCHANGED <<chanKeys, chanW, ChannelChan, snap, bucket>>
    BY <1>6 DEF StartWatch, SelfListens, DialDone, CheckState, Heartbeat, etcdVars, watchVars,
                chans, bootVars, viewVars
  <2>2. \/ Me = "registered" /\ Me' = "watching"
        \/ Me \in {"watching", "dialing"} /\ Me' \in {"dialing", "snapshot"}
        \/ Me = "checkState" /\ Me' \in {"checkChannel", "exit"}
        \/ Me = "up" /\ Me' = "exit"
    BY <1>1, <1>6 DEF StartWatch, SelfListens, DialDone, CheckState, Heartbeat, StepSelf
  <2>3. CASE Me = "registered"
    <3>1. NoDelete(chanW', 0) /\ chanW' = <<>> /\ ChannelChan' = <<>> /\ Me' = "watching"
      BY <2>1, <2>2, <2>3 DEF KeysCovered, NoDelete
    <3>. QED BY <3>1 DEF KeysCovered, Covered, Held, NoDelete
  <2>4. CASE Me # "registered"
    BY <2>1, <2>2, <2>4 DEF KeysCovered, Watching, Covered, Held, Booting
  <2>. QED BY <2>3, <2>4
<1>7. CASE Snapshot
  <2>1. /\ UNCHANGED <<chanKeys, chanW, ChannelChan>> /\ snap' = Sorted(chanKeys)
        /\ Me = "snapshot" /\ Me' = "checkState"
    BY <1>1, <1>7 DEF Snapshot, StepSelf, Read, etcdVars, watchVars, chans
  <2>2. Range(snap') = chanKeys
    BY <2>1, SortedLists DEF LifeOK
  <2>. QED BY <2>1, <2>2 DEF KeysCovered, Watching, Covered, Held, Booting
<1>8. CASE CheckChannel
  <2>1. UNCHANGED <<chanKeys, chanW, ChannelChan, snap>> /\ Me = "checkChannel"
    BY <1>8 DEF CheckChannel, StepSelf, etcdVars, watchVars, chans, bootVars
  <2>2. CASE ChannelChan = <<>>
    <3>1. Me' = "up" /\ bucket' = snap
      BY <1>1, <1>8, <2>2 DEF CheckChannel, StepSelf
    <3>. QED BY <2>1, <3>1 DEF KeysCovered, Watching, Covered, Held, Booting
  <2>3. CASE ChannelChan # <<>>
    <3>1. Me' = "exit"
      BY <1>1, <1>8, <2>3 DEF CheckChannel, StepSelf
    <3>. QED BY <3>1 DEF KeysCovered, Watching, Booting
  <2>. QED BY <2>2, <2>3
<1>9. CASE PumpChannel
  <2>1. /\ UNCHANGED <<chanKeys, node, snap, bucket>> /\ chanW # <<>> /\ Watching
        /\ ChannelChan' = Append(ChannelChan, Head(chanW)) /\ chanW' = Tail(chanW)
    BY <1>9 DEF PumpChannel, etcdVars, lifeVars, bootVars, viewVars
  <2> DEFINE Asked == {"put", "delete", "ownPut", "ownDelete"} \X Ids
  <2>2. /\ chanW \in Seq(ChanEvents) /\ Head(chanW) \in Asked
        /\ ChannelChan \in Seq(Asked)
    BY <2>1, HeadTailProperties DEF QueuesOK, ChanEvents
  <2> HIDE DEF Asked
  <2>3. ASSUME NEW id \in chanKeys PROVE Covered(id)'
    <3>1. Covered(id)
      BY <2>1, <2>3 DEF KeysCovered
    <3>2. /\ NoDelete(chanW, id) => NoDelete(chanW', id) /\ Head(chanW) # <<"delete", id>>
          /\ PutLast(chanW, id) =>
               PutLast(chanW', id) \/ (Head(chanW) = <<"put", id>> /\ NoDelete(chanW', id))
      BY <2>1, <2>2, TakenEvent
    <3>3. /\ Head(chanW) = <<"put", id>> => PutLast(ChannelChan', id)
          /\ Head(chanW) # <<"delete", id>> /\ PutLast(ChannelChan, id) =>
               PutLast(ChannelChan', id)
          /\ Head(chanW) # <<"delete", id>> /\ NoDelete(ChannelChan, id) =>
               NoDelete(ChannelChan', id)
      BY <2>1, <2>2, AppendedEvent
    <3>4. Held(id) => Held(id)'
      BY <2>1 DEF Held, Me
    <3>. QED BY <3>1, <3>2, <3>3, <3>4 DEF Covered
  <2>4. Me' \notin {"new", "registered"}
    BY <2>1 DEF Watching, Me, Booting
  <2>. QED BY <2>1, <2>3, <2>4 DEF KeysCovered
<1>10. CASE HandleChannel
  <2> DEFINE e == Head(ChannelChan)
             x == e[2]
             Asked == {"put", "delete", "ownPut", "ownDelete"} \X Ids
  <2>1. /\ UNCHANGED <<node, snap>> /\ Me = "up" /\ ChannelChan # <<>>
        /\ ChannelChan' = Tail(ChannelChan)
    BY <1>10 DEF HandleChannel, lifeVars, bootVars
  <2>2. ChannelChan \in Seq(Asked) /\ e \in Asked /\ x \in Ids /\ e = <<e[1], x>>
    BY <2>1, HeadTailProperties DEF QueuesOK
  <2>3. bucket \in Seq(Ids)
    BY DEF ViewOK
  <2>4. Watching /\ Watching' /\ Me' = "up"
    BY <2>1 DEF Watching, Me
  <2>5. \A id : /\ NoDelete(ChannelChan, id) => NoDelete(ChannelChan', id)
                                                /\ e # <<"delete", id>>
                /\ PutLast(ChannelChan, id) =>
                     \/ PutLast(ChannelChan', id)
                     \/ e = <<"put", id>> /\ NoDelete(ChannelChan', id)
    <3> HIDE DEF Asked
    <3>. QED BY <2>1, <2>2, TakenEvent
  <2>6. CASE e[1] = "put"
    <3>1. UNCHANGED <<chanKeys, chanW>> /\ bucket' = Append(bucket, x)
      BY <1>10, <2>6 DEF HandleChannel, With
    <3>2. Range(bucket') = Range(bucket) \cup {x}
      <4>1. /\ Append(bucket, x) \in Seq(Ids) /\ Len(Append(bucket, x)) = Len(bucket) + 1
            /\ \A i \in 1 .. Len(bucket) : Append(bucket, x)[i] = bucket[i]
            /\ Append(bucket, x)[Len(bucket) + 1] = x
        BY <2>2, <2>3, AppendProperties
      <4>2. /\ DOMAIN bucket = 1 .. Len(bucket) /\ Len(bucket) \in Nat
            /\ DOMAIN Append(bucket, x) = 1 .. Len(bucket) + 1
        BY <2>3, <4>1, LenProperties
      <4>3. 1 .. Len(bucket) + 1 = (1 .. Len(bucket)) \cup {Len(bucket) + 1}
        BY <4>2
      <4>. QED BY <3>1, <4>1, <4>2, <4>3 DEF Range
    <3>3. ASSUME NEW id \in chanKeys' PROVE Covered(id)'
      <4>1. Covered(id)
        BY <2>4, <3>1, <3>3 DEF KeysCovered
      <4>2. (Held(id) => Held(id)') /\ (e = <<"put", id>> => Held(id)')
        <5>1. e = <<"put", id>> => x = id
          OBVIOUS
        <5> HIDE DEF e, x
        <5>. QED BY <2>1, <2>4, <3>2, <5>1 DEF Held
      <4>. QED BY <2>5, <3>1, <4>1, <4>2 DEF Covered
    <3>. QED BY <2>4, <3>3 DEF KeysCovered
  <2>7. CASE e[1] = "delete"
    <3>1. UNCHANGED <<chanKeys, chanW>> /\ bucket' = Without(bucket, x)
      BY <1>10, <2>7 DEF HandleChannel
    <3>2. Range(bucket) \ {x} \subseteq Range(bucket')
      BY <2>2, <2>3, <3>1, WithoutKeeps
    <3>3. ASSUME NEW id \in chanKeys' PROVE Covered(id)'
      <4>1. Covered(id)
        BY <2>4, <3>1, <3>3 DEF KeysCovered
      <4>2. e # <<"put", id>> /\ (e # <<"delete", id>> /\ Held(id) => Held(id)')
        <5>1. e = <<"delete", x>>
          BY <2>2, <2>7
        <5> HIDE DEF e, x
        <5>2. e # <<"delete", id>> => id # x
          BY <5>1
        <5>3. e # <<"put", id>>
          BY <5>1
        <5>. QED BY <2>1, <2>4, <3>2, <5>2, <5>3 DEF Held
      <4>. QED BY <2>5, <3>1, <4>1, <4>2 DEF Covered
    <3>. QED BY <2>4, <3>3 DEF KeysCovered
  <2>8. CASE e[1] \in {"ownPut", "ownDelete"}
    <3>1. /\ bucket' = bucket
          /\ \/ chanKeys' = chanKeys \cup {x} /\ chanW' = Append(chanW, <<"put", x>>)
             \/ chanKeys' = chanKeys \ {x} /\ chanW' = Append(chanW, <<"delete", x>>)
             \/ chanKeys' \subseteq chanKeys /\ chanW' = chanW
      BY <1>10, <2>8 DEF HandleChannel
    <3>2. \A id : e # <<"put", id>>
      BY <2>8
    <3>3. \A id \in chanKeys : Held(id) => Held(id)'
      BY <2>1, <3>1 DEF Held, Me
    <3>4. \A id \in chanKeys : /\ PutLast(ChannelChan, id) => PutLast(ChannelChan', id)
                               /\ NoDelete(ChannelChan, id) => NoDelete(ChannelChan', id)
      BY <2>5, <3>2
    <3>5. \A id \in chanKeys' : Covered(id)'
      BY <2>2, <2>4, <3>1, <3>3, <3>4, KeyChange
    <3>. QED BY <2>4, <3>5 DEF KeysCovered
  <2>. QED BY <1>10, <2>6, <2>7, <2>8 DEF HandleChannel
<1>11. CASE HandleState
  <2>1. /\ UNCHANGED <<chanKeys, chanW, ChannelChan, snap, bucket>>
        /\ node' = node \/ Becomes(Self, "dead")
    BY <1>11 DEF HandleState, OwnState, NodeState, etcdVars, bootVars
  <2>2. Me' = Me \/ Me' = "dead"
    BY <1>1, <2>1 DEF Me
  <2>. QED BY <2>1, <2>2, NoKeyChange DEF Booting
<1>12. ASSUME NEW op \in {"ownPut", "ownDelete"}, Ask(op) PROVE KeysCovered'
  <2> DEFINE Asked == {"put", "delete", "ownPut", "ownDelete"} \X Ids
  <2>1. /\ UNCHANGED <<chanKeys, node, chanW, snap, bucket>> /\ Me = "up"
        /\ ChannelChan' = Append(ChannelChan, <<op, mid[Self]>>)
    BY <1>12 DEF Ask, etcdVars, watchVars, bootVars, viewVars
  <2>2. ChannelChan \in Seq(Asked) /\ <<op, mid[Self]>> \in Asked
    BY <2>1 DEF QueuesOK, LifeOK, Me
  <2>3. \A id : <<op, mid[Self]>> # <<"delete", id>>
    OBVIOUS
  <2> HIDE DEF Asked
  <2>4. ASSUME NEW id PROVE /\ PutLast(ChannelChan, id) => PutLast(ChannelChan', id)
                            /\ NoDelete(ChannelChan, id) => NoDelete(ChannelChan', id)
    BY <2>1, <2>2, <2>3, AppendedEvent
  <2>. QED BY <2>1, <2>4 DEF KeysCovered, Watching, Covered, Held, Me
<1>13. CASE UNCHANGED <<chanKeys, node, chanW, ChannelChan, snap, bucket>>
  BY <1>13, NoKeyChange DEF Me
<1>. QED
  BY <1>2, <1>3, <1>4, <1>5, <1>6, <1>7, <1>8, <1>9, <1>10, <1>11, <1>12, <1>13
  DEF Next, Other, Connect, Announce, ReadEnds, Start, DialNext, Pump, PumpNode, PumpState,
      Handle, HandleNode, Subscribe, Unsubscribe, SetState, vars, etcdVars, lifeVars,
      watchVars, chans, bootVars, viewVars

\* When every event has been handled, each node that is subscribed is in the bucket: the
\* watch starts before the keys are read, so that a subscription is in what is read or its
\* event is on its way, and no delete that cluster.Run has yet to see is older than that.
THEOREM NoneIsMissing == Spec => []NoneMissing
<1>1. Init => KeysCovered
  BY DEF Init, KeysCovered, Watching, Me, Booting, All
<1>2. KeysCovered => NoneMissing
  BY DEF KeysCovered, Covered, Held, NoneMissing, Quiet, Watching, PutLast
<1>. QED BY <1>1, <1>2, CoveredStep, TypesAlways, PTL DEF Spec

----------------------------------------------------------------------------
(* The table of sessions, when membership changes only once Self has        *)
(* settled                                                                  *)

\* Self has not stopped; once it has, it handles no event any more.
Live == Me \in {"new", "registered", "watching", "up"} \cup Booting

Alive(n) == node[n] \in {"registered", "listening", "dialled", "up"}

\* An id in etcd is that of its node; the stages of Self's start are its own.
HoldersAreKnown ==
  /\ \A i \in Ids : machine[i] # None =>
       mid[machine[i]] = i /\ node[machine[i]] \notin {"new", "gone"}
  /\ \A n \in All : node[n] = "new" => mid[n] = NoId
  /\ \A n \in Nodes : node[n] \in Life

\* What is on its way to cluster.Run.
OfflineComes(i) == i \in Range(nodeW) \/ <<"offline", i>> \in Range(NodeChan)
ConnectComes(i, n) == <<"connect", i, n>> \in Range(NodeChan)
StateComes(i, u) == <<i, u>> \in Range(stateW) \/ <<i, u>> \in Range(StateChan)

\* No event is older than the life of the node it is about.
NewsIsFresh ==
  /\ \A i \in Ids : OfflineComes(i) => machine[i] = None
  /\ \A i \in Ids, n \in All : ConnectComes(i, n) =>
       mid[n] = i /\ conn[n] = "on" /\ (n = Self \/ Alive(n))
  /\ \A i \in Ids : StateComes(i, "work") =>
       machine[i] = Self \/ (machine[i] # None /\ node[machine[i]] = "up")
  /\ \A i \in Ids : StateComes(i, "die") =>
       machine[i] \in {None, Self} \/ node[machine[i]] = "leaving"

\* The connection and the session of another node go with its stage of life.
ConnectionsOK ==
  /\ Me \in {"new", "registered", "watching"} => \A n \in All : conn[n] = None
  /\ \A n \in Nodes :
       /\ node[n] \in {"new", "registered"} => conn[n] = None
       /\ conn[n] = "sent" => Alive(n)
       /\ conn[n] = "closed" =>
            sstate[n] = "die" /\ node[n] \in {"leaving", "crashed", "gone"}
       /\ node[n] = "new" \/ Alive(n) => sstate[n] = "work"

\* A session in the table is that of the node with its id, unless the event that the node
\* went is on its way; a connected node has its session in the table or on its way to it.
TableOK ==
  /\ Me # "up" => \A i \in Ids : sessions[i] = None
  /\ \A i \in Ids, n \in All : sessions[i] = n =>
       /\ mid[n] = i /\ conn[n] \in {"on", "closed"}
       /\ machine[i] = n \/ (machine[i] = None /\ OfflineComes(i))
  /\ \A i \in Ids, n \in Nodes : mid[n] = i /\ conn[n] = "on" /\ node[n] # "gone" =>
       sessions[i] = n \/ ConnectComes(i, n)

\* Of any two nodes the later one dials.
DialsOK ==
  /\ Me \in {"snapshot", "checkState", "checkChannel", "up"} => todo = <<>>
  /\ Me = "new" => knows = {}
  /\ \A n \in Nodes :
       /\ n \notin knows /\ Alive(n) /\ Me # "new" => n \in Range(todo) \/ conn[n] = "on"
       /\ n \in knows \/ node[n] = "new" => n \notin Range(todo)
       /\ n \in knows /\ node[n] \in {"registered", "listening"} => conn[n] = None
       /\ n \in knows /\ node[n] \in {"dialled", "up"} => conn[n] \in {"sent", "on"}

SessionsInv == Live => NewsIsFresh /\ ConnectionsOK /\ TableOK /\ DialsOK

LEMMA AppendedRange ==
  ASSUME NEW S, NEW q \in Seq(S), NEW e \in S
  PROVE  Range(Append(q, e)) = Range(q) \cup {e}
<1>1. /\ Append(q, e) \in Seq(S) /\ Len(Append(q, e)) = Len(q) + 1
      /\ \A i \in 1 .. Len(q) : Append(q, e)[i] = q[i]
      /\ Append(q, e)[Len(q) + 1] = e
  BY AppendProperties
<1>2. /\ DOMAIN q = 1 .. Len(q) /\ Len(q) \in Nat
      /\ DOMAIN Append(q, e) = 1 .. Len(q) + 1
  BY <1>1, LenProperties
<1>3. 1 .. Len(q) + 1 = (1 .. Len(q)) \cup {Len(q) + 1}
  BY <1>2
<1>. QED BY <1>1, <1>2, <1>3 DEF Range

LEMMA TakenRange ==
  ASSUME NEW S, NEW q \in Seq(S), q # <<>>
  PROVE  Range(q) = Range(Tail(q)) \cup {Head(q)} /\ Head(q) \in S
<1> DEFINE t == Tail(q)
           n == Len(q)
<1>1. /\ n \in Nat /\ 0 < n /\ DOMAIN q = 1 .. n /\ DOMAIN t = 1 .. n - 1
      /\ Head(q) = q[1] /\ \A i \in 1 .. n - 1 : t[i] = q[i + 1]
  <2>1. t \in Seq(S) /\ Len(t) = n - 1 /\ \A i \in 1 .. Len(t) : t[i] = q[i + 1]
    BY HeadTailProperties
  <2>2. n \in Nat /\ 0 < n /\ DOMAIN q = 1 .. n
    BY EmptySeq, LenProperties
  <2>3. DOMAIN t = 1 .. n - 1
    BY <2>1, LenProperties
  <2>. QED BY <2>1, <2>2, <2>3
<1>2. Head(q) \in S
  BY HeadTailProperties
<1> HIDE DEF n, t
<1>3. \A i \in 1 .. n : i = 1 \/ (i - 1 \in 1 .. n - 1 /\ (i - 1) + 1 = i)
  BY <1>1
<1>4. Range(q) \subseteq Range(t) \cup {Head(q)}
  <2> SUFFICES ASSUME NEW i \in 1 .. n PROVE q[i] \in Range(t) \cup {Head(q)}
    BY <1>1 DEF Range
  <2>1. CASE i = 1
    BY <1>1, <2>1
  <2>2. CASE i - 1 \in 1 .. n - 1 /\ (i - 1) + 1 = i
    <3>1. t[i - 1] = q[i]
      BY <1>1, <2>2
    <3>. QED BY <1>1, <2>2, <3>1 DEF Range
  <2>. QED BY <1>3, <2>1, <2>2
<1>5. Range(t) \cup {Head(q)} \subseteq Range(q)
  <2>1. \A i \in 1 .. n - 1 : i + 1 \in 1 .. n
    BY <1>1
  <2>2. 1 \in 1 .. n
    BY <1>1
  <2>. QED BY <1>1, <2>1, <2>2 DEF Range
<1>. QED BY <1>2, <1>4, <1>5 DEF t

\* Where no queue changes, nothing else is on its way.
LEMMA SameNews ==
  /\ UNCHANGED <<nodeW, NodeChan>> => \A i : OfflineComes(i)' <=> OfflineComes(i)
  /\ UNCHANGED NodeChan => \A i, n : ConnectComes(i, n)' <=> ConnectComes(i, n)
  /\ UNCHANGED <<stateW, StateChan>> => \A i, u : StateComes(i, u)' <=> StateComes(i, u)
BY DEF OfflineComes, ConnectComes, StateComes

LEMMA QuietSays ==
  Quiet =>
    /\ \A i : ~OfflineComes(i)
    /\ \A i, n : ~ConnectComes(i, n)
    /\ \A i, u : ~StateComes(i, u)
    /\ \A n \in Nodes : conn[n] # "sent"
    /\ \A n \in Nodes : conn[n] = "on" => node[n] \notin {"crashed", "leaving", "gone"}
BY DEF Quiet, OfflineComes, ConnectComes, StateComes, Range

\* Of an id that no event is about none is on its way.
LEMMA NoNewsSays ==
  ASSUME NEW id, ~NewsOf(id)
  PROVE  /\ ~OfflineComes(id)
         /\ \A n : ~ConnectComes(id, n)
         /\ \A u : ~StateComes(id, u)
<1>1. \A x, y : <<x, id>>[2] = id /\ <<id, y>>[1] = id /\ <<x, id, y>>[2] = id
  OBVIOUS
<1>. QED BY <1>1 DEF NewsOf, OfflineComes, ConnectComes, StateComes

\* What the pumps pass on stays on its way.
LEMMA PumpedNews ==
  ASSUME TypeInv, PumpNode
  PROVE  /\ \A i \in Ids : OfflineComes(i)' <=> OfflineComes(i)
         /\ \A i \in Ids, n \in All : ConnectComes(i, n)' <=> ConnectComes(i, n)
<1> USE Constants DEF TypeInv
<1>1. nodeW # <<>> /\ nodeW' = Tail(nodeW) /\ nodeW \in Seq(Ids)
  BY DEF PumpNode, QueuesOK
<1>2. Range(nodeW) = Range(nodeW') \cup {Head(nodeW)} /\ Head(nodeW) \in Ids
  BY <1>1, TakenRange
<1>3. <<"offline", Head(nodeW)>> \in NodeMsgs /\ NodeChan \in Seq(NodeMsgs)
  BY <1>2 DEF NodeMsgs, QueuesOK
<1>4. Range(NodeChan') = Range(NodeChan) \cup {<<"offline", Head(nodeW)>>}
  <2> DEFINE e == <<"offline", Head(nodeW)>>
  <2>1. e \in NodeMsgs /\ NodeChan' = Append(NodeChan, e)
    BY <1>3 DEF PumpNode
  <2> HIDE DEF e
  <2>2. Range(NodeChan') = Range(NodeChan) \cup {e}
    BY <1>3, <2>1, AppendedRange
  <2>. QED BY <2>2 DEF e
<1>. QED BY <1>2, <1>4 DEF OfflineComes, ConnectComes

LEMMA PumpedState ==
  ASSUME TypeInv, PumpState
  PROVE  \A i \in Ids, u \in {"work", "die"} : StateComes(i, u)' <=> StateComes(i, u)
<1> USE Constants DEF TypeInv
<1>1. stateW # <<>> /\ stateW' = Tail(stateW) /\ stateW \in Seq(StateEvents)
  BY DEF PumpState, QueuesOK
<1>2. Range(stateW) = Range(stateW') \cup {Head(stateW)} /\ Head(stateW) \in StateEvents
  BY <1>1, TakenRange
<1>3. Head(stateW) \in StateMsgs /\ StateChan \in Seq(StateMsgs)
  BY <1>2 DEF StateMsgs, StateEvents, QueuesOK
<1>4. Range(StateChan') = Range(StateChan) \cup {Head(stateW)}
  BY <1>3, AppendedRange DEF PumpState
<1>. QED BY <1>2, <1>4 DEF StateComes

\* Two nodes with keys hold different ids; one that is new holds none.
LEMMA HoldersStep == TypeInv /\ KeysAreOwn /\ HoldersAreKnown /\ [Next]_vars => HoldersAreKnown'
<1> SUFFICES ASSUME TypeInv, KeysAreOwn, HoldersAreKnown, [Next]_vars PROVE HoldersAreKnown'
  OBVIOUS
<1> USE Constants DEF TypeInv
<1>1. ASSUME NEW n \in All, Register(n) PROVE HoldersAreKnown'
  <2>1. Allocated \in Ids /\ Allocated \notin Taken
    BY <1>1, AllocatedIsFree DEF Register, LifeOK, Ids
  <2>2. machine[Allocated] = None
    BY <2>1 DEF Taken
  <2>3. /\ mid' = [mid EXCEPT ![n] = Allocated] /\ machine' = [machine EXCEPT ![Allocated] = n]
        /\ node' = [node EXCEPT ![n] = "registered"] /\ node[n] = "new"
    BY <1>1 DEF Register, Becomes
  <2> HIDE DEF Allocated
  <2>4. ASSUME NEW i \in Ids, machine'[i] # None
        PROVE  mid'[machine'[i]] = i /\ node'[machine'[i]] \notin {"new", "gone"}
    <3>1. CASE i = Allocated
      BY <2>1, <2>3, <3>1 DEF LifeOK
    <3>2. CASE i # Allocated
      <4>1. machine'[i] = machine[i] /\ machine[i] \in All /\ machine[i] # n
        BY <2>1, <2>3, <2>4, <3>2 DEF LifeOK, HoldersAreKnown
      <4>. QED BY <2>1, <2>3, <2>4, <4>1 DEF LifeOK, HoldersAreKnown
    <3>. QED BY <3>1, <3>2
  <2>5. \A m \in All : node'[m] = "new" => mid'[m] = NoId
    BY <2>3 DEF LifeOK, HoldersAreKnown
  <2>6. \A m \in Nodes : node'[m] \in Life
    BY <2>3 DEF LifeOK, HoldersAreKnown, Life
  <2>. QED BY <2>4, <2>5, <2>6 DEF HoldersAreKnown
<1>2. ASSUME NEW n \in All, KeysGo(n) PROVE HoldersAreKnown'
  <2>1. /\ mid' = mid /\ machine' = [machine EXCEPT ![mid[n]] = None]
        /\ node' = [node EXCEPT ![n] = "gone"] /\ mid[n] \in Ids
    BY <1>2 DEF KeysGo, Becomes, Stopped, LifeOK
  <2>2. ASSUME NEW i \in Ids, machine'[i] # None
        PROVE  mid'[machine'[i]] = i /\ node'[machine'[i]] \notin {"new", "gone"}
    <3>1. i # mid[n] /\ machine'[i] = machine[i] /\ machine[i] \in All
      BY <2>1, <2>2 DEF LifeOK
    <3>2. mid[machine[i]] = i /\ machine[i] # n
      BY <2>2, <3>1 DEF HoldersAreKnown
    <3>. QED BY <2>1, <2>2, <3>1, <3>2 DEF HoldersAreKnown, LifeOK
  <2>3. \A m \in Nodes : node'[m] \in Life
    BY <2>1 DEF LifeOK, HoldersAreKnown, Life
  <2>. QED BY <2>1, <2>2, <2>3 DEF HoldersAreKnown, LifeOK
<1>3. ASSUME NEW n \in All, UNCHANGED <<machine, mid>>, node[n] \notin {"new", "gone"},
             NEW s, s \notin {"new", "gone"}, n \in Nodes => s \in Life, Becomes(n, s)
      PROVE  HoldersAreKnown'
  BY <1>3 DEF HoldersAreKnown, Becomes, LifeOK
<1>4. ASSUME NEW n \in Nodes,
             Listen(n) \/ Dial(n) \/ Work(n) \/ Leave(n) \/ Crash(n)
      PROVE  HoldersAreKnown'
  <2>1. /\ UNCHANGED <<machine, mid>> /\ node[n] \notin {"new", "gone"}
        /\ \E s : s \notin {"new", "gone"} /\ s \in Life /\ Becomes(n, s)
    BY <1>4 DEF Life, Listen, Dial, Work, Leave, Crash, StepNode, etcdVars
  <2>. QED BY <1>3, <2>1
<1>5. CASE Start \/ Heartbeat \/ HandleState
  <2>1. /\ UNCHANGED <<machine, mid>> /\ Me \notin {"new", "gone"}
        /\ node' = node \/ \E s : s \notin {"new", "gone"} /\ Becomes(Self, s)
    BY <1>5 DEF Start, StartWatch, SelfListens, DialNext, DialDone, Snapshot, CheckState,
                CheckChannel, Heartbeat, StepSelf, HandleState, OwnState, NodeState, etcdVars,
                lifeVars
  <2>2. CASE node' = node
    BY <2>1, <2>2 DEF HoldersAreKnown
  <2>. QED BY <1>3, <2>1, <2>2, ConstantsAssumption DEF Me
<1>6. CASE UNCHANGED <<machine, node, mid>>
  BY <1>6 DEF HoldersAreKnown
<1>. QED
  BY <1>1, <1>2, <1>4, <1>5, <1>6
  DEF Next, Other, Connect, PutChannel, DeleteChannel, Keys, Announce, ReadEnds, Pump,
      PumpNode, PumpState, PumpChannel, Handle, HandleChannel, HandleNode, Subscribe,
      Unsubscribe, Ask, SetState, vars, etcdVars, lifeVars

\* A node that stopped stays so.
LEMMA LiveBefore == TypeInv /\ [Next]_vars /\ Live' => Live
<1> SUFFICES ASSUME TypeInv, [Next]_vars, ~Live PROVE ~Live'
  OBVIOUS
<1> USE Constants DEF TypeInv, Live, Booting
<1>0. \A n \in Nodes : \A s : Becomes(n, s) => Me' = Me
  BY ConstantsAssumption DEF Becomes, Me, LifeOK
<1>1. ASSUME NEW n \in All, Register(n) \/ KeysGo(n) PROVE ~Live'
  <2>1. CASE n = Self
    BY <1>1, <2>1 DEF Register, KeysGo, Me, Becomes, LifeOK
  <2>2. CASE n \in Nodes
    BY <1>0, <1>1, <2>2 DEF Register, KeysGo
  <2>. QED BY <2>1, <2>2 DEF All
<1>2. ASSUME NEW n \in Nodes,
             Listen(n) \/ Dial(n) \/ Work(n) \/ Leave(n) \/ Crash(n)
      PROVE  ~Live'
  BY <1>0, <1>2 DEF Listen, Dial, Work, Leave, Crash, StepNode
<1>3. ~Start /\ ~Heartbeat /\ ~HandleState
  BY DEF Start, StartWatch, SelfListens, DialNext, DialDone, Snapshot, CheckState,
         CheckChannel, Heartbeat, StepSelf, HandleState
<1>4. CASE UNCHANGED node
  BY <1>4 DEF Me
<1>. QED
  BY <1>1, <1>2, <1>3, <1>4
  DEF Next, Other, Connect, PutChannel, DeleteChannel, Keys, Announce, ReadEnds, Pump,
      PumpNode, PumpState, PumpChannel, Handle, HandleChannel, HandleNode, Subscribe,
      Unsubscribe, Ask, SetState, vars, lifeVars

\* Another node has keys in etcd from its registration until it is gone.
LEMMA AliveHolds ==
  ASSUME TypeInv, KeysAreOwn, NEW n \in All, Alive(n) \/ node[n] \in {"leaving", "crashed"}
  PROVE  mid[n] \in Ids /\ machine[mid[n]] = n
BY DEF TypeInv, LifeOK, KeysAreOwn, Alive

\* As long as Self lives, its own keys are in etcd from its registration on.
LEMMA SelfHolds ==
  ASSUME TypeInv, KeysAreOwn, Live, Me # "new"
  PROVE  mid[Self] \in Ids /\ machine[mid[Self]] = Self
BY Constants DEF TypeInv, LifeOK, KeysAreOwn, Live, Me, Booting

\* What Self does that is about no other node: it goes on with its start, or an event
\* comes closer.
LEMMA OwnStep ==
  ASSUME TypeInv, SessionsInv, Live, Live',
         \A i \in Ids : OfflineComes(i)' <=> OfflineComes(i),
         \A i \in Ids, n \in All : ConnectComes(i, n)' <=> ConnectComes(i, n),
         \A i \in Ids, u \in {"work", "die"} : StateComes(i, u)' <=> StateComes(i, u),
         UNCHANGED <<machine, mid, knows, conn, sstate, todo, sessions>>,
         \A n \in Nodes : node'[n] = node[n],
         \/ Me' = Me
         \/ Me = "registered" /\ Me' = "watching"
         \/ Me = "watching" /\ Me' = "dialing"
         \/ Me = "dialing" /\ Me' = "snapshot" /\ todo = <<>>
         \/ /\ Me \in {"snapshot", "checkState", "checkChannel"}
            /\ Me' \in {"checkState", "checkChannel", "up"}
  PROVE  SessionsInv'
<1> USE Constants DEF TypeInv
<1>0. NewsIsFresh /\ ConnectionsOK /\ TableOK /\ DialsOK
  BY DEF SessionsInv
<1>1. \A n \in Nodes : Alive(n)' <=> Alive(n)
  BY DEF Alive
<1>2. \A i \in Ids : machine[i] # None /\ machine[i] # Self => machine[i] \in Nodes
  BY DEF LifeOK, All
<1>3. NewsIsFresh'
  <2>1. \A i \in Ids : OfflineComes(i)' => machine'[i] = None
    BY <1>0 DEF NewsIsFresh
  <2>2. ASSUME NEW i \in Ids, NEW n \in All, ConnectComes(i, n)'
        PROVE  mid'[n] = i /\ conn'[n] = "on" /\ (n = Self \/ Alive(n)')
    BY <1>0, <1>1, <2>2 DEF NewsIsFresh, All
  <2>3. ASSUME NEW i \in Ids, StateComes(i, "work")'
        PROVE  machine'[i] = Self \/ (machine'[i] # None /\ node'[machine'[i]] = "up")
    BY <1>0, <1>2, <2>3 DEF NewsIsFresh
  <2>4. ASSUME NEW i \in Ids, StateComes(i, "die")'
        PROVE  machine'[i] \in {None, Self} \/ node'[machine'[i]] = "leaving"
    BY <1>0, <1>2, <2>4 DEF NewsIsFresh
  <2>. QED BY ONLY <2>1, <2>2, <2>3, <2>4 DEF NewsIsFresh
<1>4. ConnectionsOK'
  BY <1>0, <1>1 DEF ConnectionsOK
<1>5. TableOK'
  <2>1. Me' # "up" => \A i \in Ids : sessions'[i] = None
    BY <1>0 DEF TableOK
  <2>2. ASSUME NEW i \in Ids, NEW n \in All, sessions'[i] = n
        PROVE  /\ mid'[n] = i /\ conn'[n] \in {"on", "closed"}
               /\ machine'[i] = n \/ (machine'[i] = None /\ OfflineComes(i)')
    BY <1>0, <2>2 DEF TableOK
  <2>3. ASSUME NEW i \in Ids, NEW n \in Nodes, mid'[n] = i, conn'[n] = "on", node'[n] # "gone"
        PROVE  sessions'[i] = n \/ ConnectComes(i, n)'
    <3>1. mid[n] = i /\ conn[n] = "on" /\ node[n] # "gone"
      BY <2>3
    <3>2. sessions[i] = n \/ ConnectComes(i, n)
      BY <1>0, <3>1 DEF TableOK
    <3>3. n \in All
      BY DEF All
    <3>. QED BY <3>2, <3>3
  <2>. QED BY ONLY <2>1, <2>2, <2>3 DEF TableOK
<1>6. DialsOK'
  BY <1>0, <1>1 DEF DialsOK
<1>. QED BY <1>3, <1>4, <1>5, <1>6 DEF SessionsInv

\* Another node changes its stage.
LEMMA OtherStage ==
  ASSUME TypeInv, NEW n \in Nodes, NEW s, Becomes(n, s)
  PROVE  /\ Me' = Me /\ node'[n] = s
         /\ \A m \in All : m # n => node'[m] = node[m]
BY Constants, ConstantsAssumption DEF Becomes, Me, TypeInv, LifeOK

\* The events that Self's watches take up.
LEMMA WatchedNode ==
  ASSUME TypeInv, NEW x \in Ids, nodeW' = Watched(nodeW, x), NodeChan' = NodeChan
  PROVE  /\ \A i : OfflineComes(i) => OfflineComes(i)'
         /\ \A i : OfflineComes(i)' => OfflineComes(i) \/ i = x
         /\ Watching => OfflineComes(x)'
<1>1. nodeW \in Seq(Ids)
  BY DEF TypeInv, QueuesOK
<1>2. Watching => Range(nodeW') = Range(nodeW) \cup {x}
  BY <1>1, AppendedRange DEF Watched
<1>3. ~Watching => nodeW' = nodeW
  BY DEF Watched
<1>. QED BY <1>2, <1>3 DEF OfflineComes

LEMMA WatchedState ==
  ASSUME TypeInv, NEW e \in StateEvents, stateW' = Watched(stateW, e), StateChan' = StateChan
  PROVE  \A i, u : StateComes(i, u)' => StateComes(i, u) \/ <<i, u>> = e
<1>1. stateW \in Seq(StateEvents)
  BY DEF TypeInv, QueuesOK
<1>2. Watching => Range(stateW') = Range(stateW) \cup {e}
  BY <1>1, AppendedRange DEF Watched
<1>3. ~Watching => stateW' = stateW
  BY DEF Watched
<1>. QED BY <1>2, <1>3 DEF StateComes

LEMMA ListenStep ==
  ASSUME TypeInv, KeysAreOwn, HoldersAreKnown, SessionsInv, Live, Live',
         NEW n \in Nodes, Listen(n)
  PROVE  SessionsInv'
<1> USE Constants, ConstantsAssumption DEF TypeInv
<1>0. NewsIsFresh /\ ConnectionsOK /\ TableOK /\ DialsOK
  BY DEF SessionsInv
<1>1. /\ node[n] = "registered" /\ Becomes(n, "listening")
      /\ UNCHANGED <<machine, mid, knows, conn, sstate, todo, sessions>>
      /\ UNCHANGED <<nodeW, stateW, NodeChan, StateChan>>
  BY DEF Listen, StepNode, etcdVars, tcpVars, watchVars, chans, bootVars, viewVars
<1>2. /\ Me' = Me /\ node'[n] = "listening" /\ Alive(n) /\ Alive(n)'
      /\ \A m \in All : m # n => node'[m] = node[m]
      /\ \A m \in All : m # n => (Alive(m)' <=> Alive(m))
  BY <1>1, OtherStage DEF Alive
<1>3. /\ \A i \in Ids : OfflineComes(i)' <=> OfflineComes(i)
      /\ \A i \in Ids, m \in All : ConnectComes(i, m)' <=> ConnectComes(i, m)
      /\ \A i \in Ids, u \in {"work", "die"} : StateComes(i, u)' <=> StateComes(i, u)
  BY <1>1, SameNews
<1>4. NewsIsFresh'
  <2>0. \A i \in Ids : OfflineComes(i)' => machine'[i] = None
    BY <1>0, <1>1, <1>3 DEF NewsIsFresh
  <2>1. ASSUME NEW i \in Ids, NEW m \in All, ConnectComes(i, m)'
        PROVE  mid'[m] = i /\ conn'[m] = "on" /\ (m = Self \/ Alive(m)')
    BY <1>0, <1>1, <1>2, <1>3, <2>1 DEF NewsIsFresh
  <2>2. ASSUME NEW i \in Ids, StateComes(i, "work")'
        PROVE  machine'[i] = Self \/ (machine'[i] # None /\ node'[machine'[i]] = "up")
    <3>1. machine[i] = Self \/ (machine[i] # None /\ node[machine[i]] = "up")
      BY <1>0, <1>3, <2>2 DEF NewsIsFresh
    <3>. QED BY <1>1, <1>2, <3>1 DEF LifeOK
  <2>3. ASSUME NEW i \in Ids, StateComes(i, "die")'
        PROVE  machine'[i] \in {None, Self} \/ node'[machine'[i]] = "leaving"
    <3>1. machine[i] \in {None, Self} \/ node[machine[i]] = "leaving"
      BY <1>0, <1>3, <2>3 DEF NewsIsFresh
    <3>. QED BY <1>1, <1>2, <3>1 DEF LifeOK
  <2>. QED BY ONLY <2>0, <2>1, <2>2, <2>3 DEF NewsIsFresh
<1>5. ConnectionsOK'
  BY <1>0, <1>1, <1>2 DEF ConnectionsOK
<1>6. TableOK'
  BY <1>0, <1>1, <1>2, <1>3 DEF TableOK
<1>7. DialsOK'
  BY <1>0, <1>1, <1>2 DEF DialsOK
<1>. QED BY <1>4, <1>5, <1>6, <1>7 DEF SessionsInv

LEMMA DialStep ==
  ASSUME ~hasty', TypeInv, KeysAreOwn, HoldersAreKnown, SessionsInv, Live, Live',
         NEW n \in Nodes, Dial(n)
  PROVE  SessionsInv'
<1> USE Constants, ConstantsAssumption DEF TypeInv
<1>0. NewsIsFresh /\ ConnectionsOK /\ TableOK /\ DialsOK
  BY DEF SessionsInv
<1>1. /\ node[n] = "listening" /\ Becomes(n, "dialled")
      /\ UNCHANGED <<machine, mid, knows, sstate, todo, sessions>>
      /\ UNCHANGED <<nodeW, stateW, NodeChan, StateChan>>
  BY DEF Dial, StepNode, etcdVars, tcpVars, watchVars, chans, bootVars, viewVars
<1>2. /\ Me' = Me /\ node'[n] = "dialled" /\ Alive(n) /\ Alive(n)'
      /\ \A m \in All : m # n => node'[m] = node[m]
      /\ \A m \in All : m # n => (Alive(m)' <=> Alive(m))
  BY <1>1, OtherStage DEF Alive
<1>3. /\ \A m \in All : m # n => conn'[m] = conn[m]
      /\ n \notin knows => conn'[n] = conn[n]
      /\ n \in knows => conn[n] = None /\ conn'[n] = "sent"
                        /\ Me \notin {"new", "registered", "watching"}
  <2>1. conn' = [conn EXCEPT ![n] = IF n \in knows /\ Me \in Listening THEN "sent" ELSE @]
    BY DEF Dial
  <2>2. n \in knows => Me \notin {"new", "registered", "watching"} /\ conn[n] = None
    BY <1>0, <1>1 DEF Dial, Haste, DialsOK
  <2>3. n \in knows => Me \in Listening
    BY <2>2 DEF Live, Listening
  <2>. QED BY <2>1, <2>2, <2>3 DEF TcpOK
<1>4. NewsIsFresh'
  <2>1. \A i \in Ids : OfflineComes(i)' => machine'[i] = None
    BY <1>0, <1>1, SameNews DEF NewsIsFresh
  <2>2. ASSUME NEW i \in Ids, NEW m \in All, ConnectComes(i, m)'
        PROVE  mid'[m] = i /\ conn'[m] = "on" /\ (m = Self \/ Alive(m)')
    <3>1. mid[m] = i /\ conn[m] = "on" /\ (m = Self \/ Alive(m))
      BY <1>0, <1>1, <2>2, SameNews DEF NewsIsFresh
    <3>. QED BY <1>1, <1>2, <1>3, <3>1 DEF None
  <2>3. ASSUME NEW i \in Ids, StateComes(i, "work")'
        PROVE  machine'[i] = Self \/ (machine'[i] # None /\ node'[machine'[i]] = "up")
    <3>1. machine[i] = Self \/ (machine[i] # None /\ node[machine[i]] = "up")
      BY <1>0, <1>1, <2>3, SameNews DEF NewsIsFresh
    <3>. QED BY <1>1, <1>2, <3>1 DEF LifeOK
  <2>4. ASSUME NEW i \in Ids, StateComes(i, "die")'
        PROVE  machine'[i] \in {None, Self} \/ node'[machine'[i]] = "leaving"
    <3>1. machine[i] \in {None, Self} \/ node[machine[i]] = "leaving"
      BY <1>0, <1>1, <2>4, SameNews DEF NewsIsFresh
    <3>. QED BY <1>1, <1>2, <3>1 DEF LifeOK
  <2>. QED BY ONLY <2>1, <2>2, <2>3, <2>4 DEF NewsIsFresh
<1>5. ConnectionsOK'
  BY <1>0, <1>1, <1>2, <1>3 DEF ConnectionsOK
<1>6. TableOK'
  <2>1. \A i \in Ids : ~(n \in knows /\ sessions[i] = n)
    BY <1>0, <1>3 DEF TableOK, None
  <2>. QED BY <1>0, <1>1, <1>2, <1>3, <2>1, SameNews DEF TableOK
<1>7. DialsOK'
  BY <1>0, <1>1, <1>2, <1>3 DEF DialsOK
<1>. QED BY <1>4, <1>5, <1>6, <1>7 DEF SessionsInv

LEMMA WorkStep ==
  ASSUME TypeInv, KeysAreOwn, HoldersAreKnown, SessionsInv, Live, Live',
         NEW n \in Nodes, Work(n)
  PROVE  SessionsInv'
<1> USE Constants, ConstantsAssumption DEF TypeInv
<1>0. NewsIsFresh /\ ConnectionsOK /\ TableOK /\ DialsOK
  BY DEF SessionsInv
<1>1. /\ node[n] = "dialled" /\ Becomes(n, "up")
      /\ UNCHANGED <<machine, mid, knows, conn, sstate, todo, sessions>>
      /\ UNCHANGED <<nodeW, NodeChan, StateChan>>
  BY DEF Work, StepNode, etcdVars, tcpVars, chans, bootVars, viewVars
<1>2. /\ Me' = Me /\ node'[n] = "up" /\ Alive(n) /\ Alive(n)'
      /\ \A m \in All : m # n => node'[m] = node[m]
      /\ \A m \in All : m # n => (Alive(m)' <=> Alive(m))
  BY <1>1, OtherStage DEF Alive
<1>3. mid[n] \in Ids /\ machine[mid[n]] = n
  BY <1>2, AliveHolds
<1>4. \A i \in Ids, u \in {"work", "die"} : StateComes(i, u)' =>
        StateComes(i, u) \/ (i = mid[n] /\ u = "work")
  <2>1. <<mid[n], "work">> \in StateEvents
    BY <1>3 DEF StateEvents
  <2>2. stateW' = Watched(stateW, <<mid[n], "work">>)
    BY DEF Work
  <2>3. \A i, u : StateComes(i, u)' => StateComes(i, u) \/ <<i, u>> = <<mid[n], "work">>
    BY <1>1, <2>1, <2>2, WatchedState
  <2>. QED BY <2>3
<1>5. NewsIsFresh'
  <2>1. ASSUME NEW i \in Ids, StateComes(i, "work")'
        PROVE  machine'[i] = Self \/ (machine'[i] # None /\ node'[machine'[i]] = "up")
    <3>1. CASE i = mid[n]
      BY <1>1, <1>2, <1>3, <3>1
    <3>2. CASE i # mid[n]
      <4>1. machine[i] = Self \/ (machine[i] # None /\ node[machine[i]] = "up")
        BY <1>0, <1>4, <2>1, <3>2 DEF NewsIsFresh
      <4>. QED BY <1>1, <1>2, <4>1 DEF LifeOK
    <3>. QED BY <3>1, <3>2
  <2>2. ASSUME NEW i \in Ids, StateComes(i, "die")'
        PROVE  machine'[i] \in {None, Self} \/ node'[machine'[i]] = "leaving"
    <3>1. machine[i] \in {None, Self} \/ node[machine[i]] = "leaving"
      BY <1>0, <1>4, <2>2 DEF NewsIsFresh
    <3>. QED BY <1>1, <1>2, <3>1 DEF LifeOK
  <2>3. \A i \in Ids : OfflineComes(i)' => machine'[i] = None
    BY <1>0, <1>1, SameNews DEF NewsIsFresh
  <2>4. ASSUME NEW i \in Ids, NEW m \in All, ConnectComes(i, m)'
        PROVE  mid'[m] = i /\ conn'[m] = "on" /\ (m = Self \/ Alive(m)')
    <3>1. mid[m] = i /\ conn[m] = "on" /\ (m = Self \/ Alive(m))
      BY <1>0, <1>1, <2>4, SameNews DEF NewsIsFresh
    <3>. QED BY <1>1, <1>2, <3>1
  <2>. QED BY ONLY <2>1, <2>2, <2>3, <2>4 DEF NewsIsFresh
<1>6. ConnectionsOK'
  BY <1>0, <1>1, <1>2 DEF ConnectionsOK
<1>7. TableOK'
  BY <1>0, <1>1, <1>2, SameNews DEF TableOK
<1>8. DialsOK'
  BY <1>0, <1>1, <1>2 DEF DialsOK
<1>. QED BY <1>5, <1>6, <1>7, <1>8 DEF SessionsInv

\* A node that leaves or crashes not in haste does so when Self knows it as it is.
LEMMA EndStep ==
  ASSUME ~hasty', TypeInv, KeysAreOwn, HoldersAreKnown, SessionsInv, Live, Live',
         NEW n \in Nodes, Leave(n) \/ Crash(n)
  PROVE  SessionsInv'
<1> USE Constants, ConstantsAssumption DEF TypeInv
<1>0. NewsIsFresh /\ ConnectionsOK /\ TableOK /\ DialsOK
  BY DEF SessionsInv
<1>1. /\ Alive(n) /\ conn[n] # "sent" /\ ~NewsOf(mid[n])
      /\ UNCHANGED <<machine, mid, knows, conn, sstate, todo, sessions>>
      /\ UNCHANGED <<nodeW, NodeChan, StateChan>>
      /\ \/ Becomes(n, "leaving") /\ stateW' = Watched(stateW, <<mid[n], "die">>)
         \/ Becomes(n, "crashed") /\ stateW' = stateW
  BY DEF Leave, Crash, StepNode, Haste, Alive, etcdVars, tcpVars, watchVars, chans, bootVars,
         viewVars
<1>2. /\ Me' = Me /\ node'[n] \in {"leaving", "crashed"} /\ ~Alive(n)'
      /\ \A m \in All : m # n => node'[m] = node[m]
      /\ \A m \in All : m # n => (Alive(m)' <=> Alive(m))
  <2>1. \E s \in {"leaving", "crashed"} : Becomes(n, s)
    BY <1>1
  <2>. QED BY <2>1, OtherStage DEF Alive
<1>3. mid[n] \in Ids /\ machine[mid[n]] = n
  BY <1>1, AliveHolds
<1>4. /\ ~OfflineComes(mid[n]) /\ \A m : ~ConnectComes(mid[n], m)
      /\ \A u : ~StateComes(mid[n], u)
  BY <1>1, NoNewsSays
<1>5. \A i \in Ids, u \in {"work", "die"} : StateComes(i, u)' =>
        \/ i # mid[n] /\ StateComes(i, u)
        \/ i = mid[n] /\ u = "die" /\ node'[n] = "leaving"
  <2>1. <<mid[n], "die">> \in StateEvents
    BY <1>3 DEF StateEvents
  <2>2. CASE Becomes(n, "leaving") /\ stateW' = Watched(stateW, <<mid[n], "die">>)
    <3>1. \A i, u : StateComes(i, u)' => StateComes(i, u) \/ <<i, u>> = <<mid[n], "die">>
      BY <1>1, <2>1, <2>2, WatchedState
    <3>2. node'[n] = "leaving"
      BY <2>2, OtherStage
    <3>. QED BY <1>4, <3>1, <3>2
  <2>3. CASE stateW' = stateW
    BY <1>1, <1>4, <2>3, SameNews
  <2>. QED BY <1>1, <2>2, <2>3
<1>6. /\ \A i : OfflineComes(i)' <=> OfflineComes(i)
      /\ \A i, m : ConnectComes(i, m)' <=> ConnectComes(i, m)
  BY <1>1, SameNews
<1>7. NewsIsFresh'
  <2>1. \A i \in Ids : OfflineComes(i)' => machine'[i] = None
    BY <1>0, <1>1, <1>6 DEF NewsIsFresh
  <2>2. ASSUME NEW i \in Ids, NEW m \in All, ConnectComes(i, m)'
        PROVE  mid'[m] = i /\ conn'[m] = "on" /\ (m = Self \/ Alive(m)')
    <3>1. mid[m] = i /\ conn[m] = "on" /\ (m = Self \/ Alive(m))
      BY <1>0, <1>6, <2>2 DEF NewsIsFresh
    <3>2. m # n
      BY <1>4, <1>6, <2>2, <3>1
    <3>. QED BY <1>1, <1>2, <3>1, <3>2
  <2>3. ASSUME NEW i \in Ids, StateComes(i, "work")'
        PROVE  machine'[i] = Self \/ (machine'[i] # None /\ node'[machine'[i]] = "up")
    <3>1. i # mid[n] /\ (machine[i] = Self \/ (machine[i] # None /\ node[machine[i]] = "up"))
      BY <1>0, <1>5, <2>3 DEF NewsIsFresh
    <3>2. machine[i] # n
      BY <3>1 DEF HoldersAreKnown
    <3>. QED BY <1>1, <1>2, <3>1, <3>2 DEF LifeOK
  <2>4. ASSUME NEW i \in Ids, StateComes(i, "die")'
        PROVE  machine'[i] \in {None, Self} \/ node'[machine'[i]] = "leaving"
    <3>1. CASE i = mid[n] /\ node'[n] = "leaving"
      BY <1>1, <1>3, <3>1
    <3>2. CASE i # mid[n] /\ StateComes(i, "die")
      <4>1. machine[i] \in {None, Self} \/ node[machine[i]] = "leaving"
        BY <1>0, <3>2 DEF NewsIsFresh
      <4>2. machine[i] # n
        BY <3>2 DEF HoldersAreKnown
      <4>. QED BY <1>1, <1>2, <4>1, <4>2 DEF LifeOK
    <3>. QED BY <1>5, <2>4, <3>1, <3>2
  <2>. QED BY ONLY <2>1, <2>2, <2>3, <2>4 DEF NewsIsFresh
<1>8. ConnectionsOK'
  BY <1>0, <1>1, <1>2 DEF ConnectionsOK
<1>9. TableOK'
  <2>1. Me' # "up" => \A i \in Ids : sessions'[i] = None
    BY <1>0, <1>1, <1>2 DEF TableOK
  <2>2. ASSUME NEW i \in Ids, NEW m \in All, sessions'[i] = m
        PROVE  /\ mid'[m] = i /\ conn'[m] \in {"on", "closed"}
               /\ machine'[i] = m \/ (machine'[i] = None /\ OfflineComes(i)')
    BY <1>0, <1>1, <1>6, <2>2 DEF TableOK
  <2>3. ASSUME NEW i \in Ids, NEW m \in Nodes, mid'[m] = i, conn'[m] = "on", node'[m] # "gone"
        PROVE  sessions'[i] = m \/ ConnectComes(i, m)'
    <3>1. node[m] # "gone"
      BY <1>1, <1>2, <2>3 DEF Alive
    <3>. QED BY <1>0, <1>1, <1>6, <2>3, <3>1 DEF TableOK
  <2>. QED BY ONLY <2>1, <2>2, <2>3 DEF TableOK
<1>10. DialsOK'
  BY <1>0, <1>1, <1>2 DEF DialsOK
<1>. QED BY <1>7, <1>8, <1>9, <1>10 DEF SessionsInv

LEMMA KeysGoStep ==
  ASSUME TypeInv, KeysAreOwn, HoldersAreKnown, SessionsInv, Live, Live',
         NEW n \in Nodes, KeysGo(n)
  PROVE  SessionsInv'
<1> USE Constants, ConstantsAssumption DEF TypeInv
<1>0. NewsIsFresh /\ ConnectionsOK /\ TableOK /\ DialsOK
  BY DEF SessionsInv
<1>1. /\ node[n] \in {"leaving", "crashed"} \cup Stopped /\ Becomes(n, "gone")
      /\ machine' = [machine EXCEPT ![mid[n]] = None] /\ nodeW' = Watched(nodeW, mid[n])
      /\ UNCHANGED <<mid, knows, conn, sstate, todo, sessions>>
      /\ UNCHANGED <<stateW, NodeChan, StateChan>>
  BY DEF KeysGo, tcpVars, chans, bootVars, viewVars
<1>2. /\ Me' = Me /\ node'[n] = "gone" /\ ~Alive(n) /\ ~Alive(n)'
      /\ \A m \in All : m # n => node'[m] = node[m]
      /\ \A m \in All : m # n => (Alive(m)' <=> Alive(m))
  BY <1>1, OtherStage DEF Alive, Stopped
<1>3. mid[n] \in Ids /\ machine[mid[n]] = n
  BY <1>1 DEF LifeOK, KeysAreOwn, Stopped
<1>4. machine'[mid[n]] = None /\ \A i \in Ids : i # mid[n] => machine'[i] = machine[i]
  BY <1>1, <1>3 DEF LifeOK
<1>5. /\ \A i : OfflineComes(i) => OfflineComes(i)'
      /\ \A i : OfflineComes(i)' => OfflineComes(i) \/ i = mid[n]
      /\ Watching => OfflineComes(mid[n])'
  BY <1>1, <1>3, WatchedNode
<1>6. \A i \in Ids : machine[i] = n => i = mid[n]
  BY DEF HoldersAreKnown, LifeOK
<1>7. NewsIsFresh'
  <2>1. \A i \in Ids : OfflineComes(i)' => machine'[i] = None
    BY <1>0, <1>4, <1>5 DEF NewsIsFresh
  <2>2. ASSUME NEW i \in Ids, NEW m \in All, ConnectComes(i, m)'
        PROVE  mid'[m] = i /\ conn'[m] = "on" /\ (m = Self \/ Alive(m)')
    <3>1. mid[m] = i /\ conn[m] = "on" /\ (m = Self \/ Alive(m))
      BY <1>0, <1>1, <2>2, SameNews DEF NewsIsFresh
    <3>. QED BY <1>1, <1>2, <3>1
  <2>3. ASSUME NEW i \in Ids, StateComes(i, "work")'
        PROVE  machine'[i] = Self \/ (machine'[i] # None /\ node'[machine'[i]] = "up")
    <3>1. machine[i] = Self \/ (machine[i] # None /\ node[machine[i]] = "up")
      BY <1>0, <1>1, <2>3, SameNews DEF NewsIsFresh
    <3>2. i # mid[n]
      BY <1>1, <1>3, <3>1 DEF Stopped
    <3>. QED BY <1>2, <1>4, <1>6, <3>1, <3>2 DEF LifeOK
  <2>4. ASSUME NEW i \in Ids, StateComes(i, "die")'
        PROVE  machine'[i] \in {None, Self} \/ node'[machine'[i]] = "leaving"
    <3>1. machine[i] \in {None, Self} \/ node[machine[i]] = "leaving"
      BY <1>0, <1>1, <2>4, SameNews DEF NewsIsFresh
    <3>. QED BY <1>2, <1>4, <1>6, <3>1 DEF LifeOK
  <2>. QED BY ONLY <2>1, <2>2, <2>3, <2>4 DEF NewsIsFresh
<1>8. ConnectionsOK'
  BY <1>0, <1>1, <1>2 DEF ConnectionsOK
<1>9. TableOK'
  <2>1. Me' # "up" => \A i \in Ids : sessions'[i] = None
    BY <1>0, <1>1, <1>2 DEF TableOK
  <2>2. ASSUME NEW i \in Ids, NEW m \in All, sessions'[i] = m
        PROVE  /\ mid'[m] = i /\ conn'[m] \in {"on", "closed"}
               /\ machine'[i] = m \/ (machine'[i] = None /\ OfflineComes(i)')
    <3>1. Watching
      BY <1>0, <1>1, <2>2 DEF TableOK, Watching
    <3>. QED BY <1>0, <1>1, <1>4, <1>5, <2>2, <3>1 DEF TableOK
  <2>3. ASSUME NEW i \in Ids, NEW m \in Nodes, mid'[m] = i, conn'[m] = "on", node'[m] # "gone"
        PROVE  sessions'[i] = m \/ ConnectComes(i, m)'
    BY <1>0, <1>1, <1>2, <2>3, SameNews DEF TableOK
  <2>. QED BY ONLY <2>1, <2>2, <2>3 DEF TableOK
<1>10. DialsOK'
  BY <1>0, <1>1, <1>2 DEF DialsOK
<1>. QED BY <1>7, <1>8, <1>9, <1>10 DEF SessionsInv

\* A node that registers not in haste gets an id of which no event is on its way: what Self
\* knew under it is gone.
LEMMA RegisterStep ==
  ASSUME ~hasty', TypeInv, KeysAreOwn, HoldersAreKnown, SessionsInv, Live, Live',
         NEW n \in Nodes, Register(n)
  PROVE  SessionsInv'
<1> USE Constants, ConstantsAssumption DEF TypeInv
<1> DEFINE id == Allocated
<1>0. NewsIsFresh /\ ConnectionsOK /\ TableOK /\ DialsOK
  BY DEF SessionsInv
<1>1. /\ node[n] = "new" /\ ~NewsOf(id) /\ Becomes(n, "registered")
      /\ mid' = [mid EXCEPT ![n] = id] /\ machine' = [machine EXCEPT ![id] = n]
      /\ knows' = IF mid[Self] \in Taken THEN knows \cup {n} ELSE knows
      /\ UNCHANGED <<conn, sstate, todo, sessions>>
      /\ UNCHANGED <<nodeW, NodeChan, stateW, StateChan>>
  BY DEF Register, Haste, tcpVars, watchVars, chans, viewVars
<1>2. /\ Me' = Me /\ node'[n] = "registered" /\ ~Alive(n) /\ Alive(n)'
      /\ \A m \in All : m # n => node'[m] = node[m]
      /\ \A m \in All : m # n => (Alive(m)' <=> Alive(m))
  BY <1>1, OtherStage DEF Alive
<1>3. id \in Ids /\ id \notin Taken /\ machine[id] = None
  <2>1. id \in Ids /\ id \notin Taken
    BY AllocatedIsFree DEF Register, LifeOK, Ids
  <2>. QED BY <2>1 DEF Taken
<1> HIDE DEF id
<1>4. /\ mid'[n] = id /\ machine'[id] = n
      /\ \A m \in All : m # n => mid'[m] = mid[m]
      /\ \A i \in Ids : i # id => machine'[i] = machine[i]
  BY <1>1, <1>3 DEF LifeOK
<1>5. /\ ~OfflineComes(id) /\ \A m : ~ConnectComes(id, m) /\ \A u : ~StateComes(id, u)
      /\ \A i : OfflineComes(i)' <=> OfflineComes(i)
      /\ \A i, m : ConnectComes(i, m)' <=> ConnectComes(i, m)
      /\ \A i, u : StateComes(i, u)' <=> StateComes(i, u)
  BY <1>1, SameNews, NoNewsSays
<1>6. /\ Me # "new" => n \in knows'
      /\ Me = "new" => knows' = knows
      /\ \A m \in Nodes : m # n => (m \in knows' <=> m \in knows)
  <2>1. Me # "new" => mid[Self] \in Taken
    BY SelfHolds DEF Taken
  <2>2. Me = "new" => mid[Self] \notin Taken
    BY DEF HoldersAreKnown, Me, Taken
  <2>. QED BY <1>1, <2>1, <2>2
<1>7. NewsIsFresh'
  <2>1. \A i \in Ids : OfflineComes(i)' => machine'[i] = None
    BY <1>0, <1>4, <1>5 DEF NewsIsFresh
  <2>2. ASSUME NEW i \in Ids, NEW m \in All, ConnectComes(i, m)'
        PROVE  mid'[m] = i /\ conn'[m] = "on" /\ (m = Self \/ Alive(m)')
    <3>1. mid[m] = i /\ conn[m] = "on" /\ (m = Self \/ Alive(m))
      BY <1>0, <1>5, <2>2 DEF NewsIsFresh
    <3>2. m # n
      BY <1>0, <1>1, <3>1 DEF ConnectionsOK, None
    <3>. QED BY <1>1, <1>2, <1>4, <3>1, <3>2
  <2>3. ASSUME NEW i \in Ids, StateComes(i, "work")'
        PROVE  machine'[i] = Self \/ (machine'[i] # None /\ node'[machine'[i]] = "up")
    <3>1. i # id /\ (machine[i] = Self \/ (machine[i] # None /\ node[machine[i]] = "up"))
      BY <1>0, <1>5, <2>3 DEF NewsIsFresh
    <3>. QED BY <1>1, <1>2, <1>4, <3>1 DEF LifeOK
  <2>4. ASSUME NEW i \in Ids, StateComes(i, "die")'
        PROVE  machine'[i] \in {None, Self} \/ node'[machine'[i]] = "leaving"
    <3>1. i # id /\ (machine[i] \in {None, Self} \/ node[machine[i]] = "leaving")
      BY <1>0, <1>5, <2>4 DEF NewsIsFresh
    <3>. QED BY <1>1, <1>2, <1>4, <3>1 DEF LifeOK
  <2>. QED BY ONLY <2>1, <2>2, <2>3, <2>4 DEF NewsIsFresh
<1>8. ConnectionsOK'
  BY <1>0, <1>1, <1>2 DEF ConnectionsOK
<1>9. conn[n] = None /\ \A i \in Ids : sessions[i] # n
  BY <1>0, <1>1 DEF ConnectionsOK, TableOK, None
<1>10. TableOK'
  <2>1. Me' # "up" => \A i \in Ids : sessions'[i] = None
    BY <1>0, <1>1, <1>2 DEF TableOK
  <2>2. ASSUME NEW i \in Ids, NEW m \in All, sessions'[i] = m
        PROVE  /\ mid'[m] = i /\ conn'[m] \in {"on", "closed"}
               /\ machine'[i] = m \/ (machine'[i] = None /\ OfflineComes(i)')
    <3>1. /\ mid[m] = i /\ conn[m] \in {"on", "closed"} /\ m # n
          /\ machine[i] = m \/ (machine[i] = None /\ OfflineComes(i))
      BY <1>0, <1>1, <1>9, <2>2 DEF TableOK
    <3>2. i # id
      BY <1>3, <1>5, <3>1, ConstantsAssumption DEF All
    <3>. QED BY <1>1, <1>4, <1>5, <3>1, <3>2
  <2>3. ASSUME NEW i \in Ids, NEW m \in Nodes, mid'[m] = i, conn'[m] = "on", node'[m] # "gone"
        PROVE  sessions'[i] = m \/ ConnectComes(i, m)'
    <3>1. m # n
      BY <1>1, <1>9, <2>3 DEF None
    <3>. QED BY <1>0, <1>1, <1>2, <1>4, <1>5, <2>3, <3>1 DEF TableOK
  <2>. QED BY ONLY <2>1, <2>2, <2>3 DEF TableOK
<1>11. n \notin Range(todo)
  BY <1>0, <1>1 DEF DialsOK
<1>12. DialsOK'
  BY <1>0, <1>1, <1>2, <1>6, <1>9, <1>11 DEF DialsOK
<1>. QED BY <1>7, <1>8, <1>10, <1>12 DEF SessionsInv

\* Self registers: it dials every node that is there, and no other knows it yet.
LEMMA OwnRegisterStep ==
  ASSUME ~hasty', TypeInv, KeysAreOwn, HoldersAreKnown, SessionsInv, Live, Live',
         Register(Self)
  PROVE  SessionsInv'
<1> USE Constants, ConstantsAssumption DEF TypeInv
<1> DEFINE id == Allocated
<1>0. NewsIsFresh /\ ConnectionsOK /\ TableOK /\ DialsOK
  BY DEF SessionsInv
<1>1. /\ Me = "new" /\ ~NewsOf(id) /\ Becomes(Self, "registered") /\ todo' = Addresses
      /\ mid' = [mid EXCEPT ![Self] = id] /\ machine' = [machine EXCEPT ![id] = Self]
      /\ UNCHANGED <<knows, conn, sstate, sessions>>
      /\ UNCHANGED <<nodeW, NodeChan, stateW, StateChan>>
  BY DEF Register, Haste, tcpVars, watchVars, chans, viewVars, Me
<1> HIDE DEF id
<1>2. /\ Me' = "registered" /\ \A m \in Nodes : node'[m] = node[m]
      /\ \A m \in Nodes : Alive(m)' <=> Alive(m)
  BY <1>1 DEF Becomes, Me, LifeOK, Alive
<1>3. /\ ~OfflineComes(id) /\ \A u : ~StateComes(id, u)
      /\ \A i : OfflineComes(i)' <=> OfflineComes(i)
      /\ \A i, m : ConnectComes(i, m)' <=> ConnectComes(i, m)
      /\ \A i, u : StateComes(i, u)' <=> StateComes(i, u)
  BY <1>1, SameNews, NoNewsSays
<1>4. \A m \in Nodes : (Alive(m) => m \in Range(Addresses))
                       /\ (node[m] = "new" => m \notin Range(Addresses))
  <2> DEFINE k == Cardinality(Taken)
             rest == [i \in 1 .. k |-> machine[Sorted(Taken)[i]]]
             all == <<Self>> \o rest
  <2>1. /\ k \in Nat /\ \A i \in 1 .. k : Sorted(Taken)[i] \in Taken
        /\ \A x \in Taken : \E i \in 1 .. k : Sorted(Taken)[i] = x
    <3>1. Taken \in SUBSET Ids
      BY DEF Taken
    <3>2. /\ k \in Nat /\ Sorted(Taken) \in [1 .. k -> Taken]
          /\ Range(Sorted(Taken)) = Taken
      BY <3>1, SortedLists
    <3> HIDE DEF k
    <3>. QED BY <3>2 DEF Range
  <2>2. \A x \in Taken : machine[x] \in All
    BY DEF Taken, LifeOK
  <2>3. rest \in Seq(All) /\ <<Self>> \in Seq(All) /\ Len(rest) = k /\ Len(<<Self>>) = 1
    BY <2>1, <2>2
  <2>4. \A i \in 1 .. k : rest[i] = machine[Sorted(Taken)[i]]
    OBVIOUS
  <2>5. Addresses = all
    BY DEF Addresses
  <2> HIDE DEF rest, k
  <2>6. /\ all \in Seq(All) /\ Len(all) = k + 1
        /\ all[1] = Self /\ \A i \in 1 .. k : all[i + 1] = rest[i]
    <3>1. /\ all \in Seq(All) /\ Len(all) = Len(<<Self>>) + Len(rest)
          /\ \A i \in 1 .. Len(<<Self>>) + Len(rest) :
               all[i] = IF i <= Len(<<Self>>) THEN <<Self>>[i] ELSE rest[i - Len(<<Self>>)]
      BY <2>3, ConcatProperties
    <3>2. \A i \in 1 .. k : i + 1 \in 1 .. 1 + k /\ ~(i + 1 <= 1) /\ (i + 1) - 1 = i
      BY <2>1
    <3>3. 1 \in 1 .. 1 + k /\ 1 <= 1
      BY <2>1
    <3> HIDE DEF all
    <3>. QED BY <2>1, <2>3, <3>1, <3>2, <3>3
  <2>7. DOMAIN all = 1 .. k + 1
    BY <2>6, LenProperties
  <2> HIDE DEF all
  <2>8. ASSUME NEW m \in Nodes, Alive(m) PROVE m \in Range(all)
    <3>1. mid[m] \in Taken /\ machine[mid[m]] = m
      BY <2>8, AliveHolds DEF Taken
    <3>2. PICK i \in 1 .. k : Sorted(Taken)[i] = mid[m]
      BY <2>1, <3>1
    <3>3. all[i + 1] = m /\ i + 1 \in 1 .. k + 1
      BY <2>1, <2>4, <2>6, <3>1, <3>2
    <3>. QED BY <2>7, <3>3 DEF Range
  <2>9. ASSUME NEW m \in Nodes, node[m] = "new", m \in Range(all) PROVE FALSE
    <3>1. PICK j \in 1 .. k + 1 : all[j] = m
      BY <2>7, <2>9 DEF Range
    <3>2. j # 1
      BY <2>6, <3>1
    <3>3. j - 1 \in 1 .. k /\ (j - 1) + 1 = j
      BY <2>1, <3>2
    <3>4. m = machine[Sorted(Taken)[j - 1]]
      BY <2>4, <2>6, <3>1, <3>3
    <3>5. Sorted(Taken)[j - 1] \in Taken
      BY <2>1, <3>3
    <3>. QED BY <2>9, <3>4, <3>5 DEF HoldersAreKnown, Taken
  <2>. QED BY <2>5, <2>8, <2>9
<1>5. NewsIsFresh'
  <2>1. id \in Ids /\ machine'[id] = Self /\ \A i \in Ids : i # id => machine'[i] = machine[i]
    <3>1. Allocated \in Ids
      BY AllocatedIsFree DEF Register, LifeOK, Ids
    <3>. QED BY <1>1, <3>1 DEF LifeOK, id
  <2>2. \A m \in All : conn[m] = None
    BY <1>0, <1>1 DEF ConnectionsOK
  <2>3. \A i \in Ids : OfflineComes(i)' => machine'[i] = None
    BY <1>0, <1>3, <2>1 DEF NewsIsFresh
  <2>4. \A i \in Ids, m \in All : ~ConnectComes(i, m)'
    BY <1>0, <1>3, <2>2 DEF NewsIsFresh, None
  <2>5. ASSUME NEW i \in Ids, StateComes(i, "work")'
        PROVE  machine'[i] = Self \/ (machine'[i] # None /\ node'[machine'[i]] = "up")
    <3>1. StateComes(i, "work") /\ i # id
      BY <1>3, <2>5
    <3>2. machine[i] = Self \/ (machine[i] # None /\ node[machine[i]] = "up")
      BY <1>0, <3>1 DEF NewsIsFresh
    <3>. QED BY <1>2, <2>1, <3>1, <3>2 DEF LifeOK, All
  <2>6. ASSUME NEW i \in Ids, StateComes(i, "die")'
        PROVE  machine'[i] \in {None, Self} \/ node'[machine'[i]] = "leaving"
    <3>1. StateComes(i, "die") /\ i # id
      BY <1>3, <2>6
    <3>2. machine[i] \in {None, Self} \/ node[machine[i]] = "leaving"
      BY <1>0, <3>1 DEF NewsIsFresh
    <3>. QED BY <1>2, <2>1, <3>1, <3>2 DEF LifeOK, All
  <2>. QED BY ONLY <2>3, <2>4, <2>5, <2>6 DEF NewsIsFresh
<1>6. ConnectionsOK'
  BY <1>0, <1>1, <1>2 DEF ConnectionsOK
<1>7. TableOK'
  <2>1. \A i \in Ids : sessions[i] = None
    BY <1>0, <1>1 DEF TableOK
  <2>2. \A n \in All : conn[n] = None
    BY <1>0, <1>1 DEF ConnectionsOK
  <2>. QED BY <1>1, <2>1, <2>2 DEF TableOK, None
<1>8. DialsOK'
  BY <1>0, <1>1, <1>2, <1>4 DEF DialsOK
<1>. QED BY <1>5, <1>6, <1>7, <1>8 DEF SessionsInv

\* What a node that is announced, or dialled, puts in the channel of cluster.Run.
LEMMA AnnouncedNews ==
  ASSUME TypeInv, NEW n \in All, NEW id \in Ids, nodeW' = nodeW,
         NodeChan' = Append(NodeChan, <<"connect", id, n>>)
  PROVE  /\ \A i : OfflineComes(i)' <=> OfflineComes(i)
         /\ \A i, m : ConnectComes(i, m)' <=> ConnectComes(i, m) \/ (i = id /\ m = n)
<1> DEFINE e == <<"connect", id, n>>
<1>1. e \in NodeMsgs /\ NodeChan' = Append(NodeChan, e) /\ NodeChan \in Seq(NodeMsgs)
  BY DEF NodeMsgs, TypeInv, QueuesOK
<1> HIDE DEF e
<1>2. Range(NodeChan') = Range(NodeChan) \cup {e}
  BY <1>1, AppendedRange
<1>. QED BY <1>2 DEF OfflineComes, ConnectComes, e

LEMMA AnnounceStep ==
  ASSUME TypeInv, KeysAreOwn, HoldersAreKnown, SessionsInv, Live, Live',
         NEW n \in Nodes, Announce(n)
  PROVE  SessionsInv'
<1> USE Constants, ConstantsAssumption DEF TypeInv
<1>0. NewsIsFresh /\ ConnectionsOK /\ TableOK /\ DialsOK
  BY DEF SessionsInv
<1>1. /\ conn[n] = "sent" /\ Me \in Listening /\ conn' = [conn EXCEPT ![n] = "on"]
      /\ NodeChan' = Append(NodeChan, <<"connect", mid[n], n>>)
      /\ UNCHANGED <<machine, node, mid, knows, sstate, todo, sessions>>
      /\ UNCHANGED <<nodeW, stateW, StateChan>>
  BY DEF Announce, FrameId, etcdVars, lifeVars, watchVars, bootVars, viewVars
<1>2. Alive(n) /\ mid[n] \in Ids /\ machine[mid[n]] = n
  <2>1. Alive(n)
    BY <1>0, <1>1 DEF ConnectionsOK
  <2>. QED BY <2>1, AliveHolds
<1>3. conn'[n] = "on" /\ \A m \in All : m # n => conn'[m] = conn[m]
  BY <1>1 DEF TcpOK
<1>4. /\ \A i : OfflineComes(i)' <=> OfflineComes(i)
      /\ \A i, m : ConnectComes(i, m)' <=> ConnectComes(i, m) \/ (i = mid[n] /\ m = n)
  BY <1>1, <1>2, AnnouncedNews
<1>5. Me' = Me /\ Me \notin {"new", "registered", "watching"} /\ \A m : Alive(m)' <=> Alive(m)
  BY <1>1 DEF Me, Alive, Listening, Booting
<1>6. NewsIsFresh'
  BY <1>0, <1>1, <1>2, <1>3, <1>4, <1>5, SameNews DEF NewsIsFresh
<1>7. ConnectionsOK'
  <2>1. node[n] \notin {"new", "registered"}
    BY <1>0, <1>1 DEF ConnectionsOK, None
  <2>. QED BY <1>0, <1>1, <1>3, <1>5, <2>1 DEF ConnectionsOK
<1>8. TableOK'
  <2>1. \A i \in Ids : sessions[i] # n
    BY <1>0, <1>1 DEF TableOK
  <2>2. Me' # "up" => \A i \in Ids : sessions'[i] = None
    BY <1>0, <1>1, <1>5 DEF TableOK
  <2>3. ASSUME NEW i \in Ids, NEW m \in All, sessions'[i] = m
        PROVE  /\ mid'[m] = i /\ conn'[m] \in {"on", "closed"}
               /\ machine'[i] = m \/ (machine'[i] = None /\ OfflineComes(i)')
    BY <1>0, <1>1, <1>3, <1>4, <2>1, <2>3 DEF TableOK
  <2>4. ASSUME NEW i \in Ids, NEW m \in Nodes, mid'[m] = i, conn'[m] = "on", node'[m] # "gone"
        PROVE  sessions'[i] = m \/ ConnectComes(i, m)'
    <3>1. CASE m = n
      BY <1>1, <1>4, <2>4, <3>1
    <3>2. CASE m # n
      <4>1. sessions[i] = m \/ ConnectComes(i, m)
        BY <1>0, <1>1, <1>3, <2>4, <3>2 DEF TableOK
      <4>. QED BY <1>1, <1>4, <4>1
    <3>. QED BY <3>1, <3>2
  <2>. QED BY ONLY <2>2, <2>3, <2>4 DEF TableOK
<1>9. DialsOK'
  <2>1. ~(n \in knows /\ node[n] \in {"registered", "listening"})
    BY <1>0, <1>1 DEF DialsOK, None
  <2>. QED BY <1>0, <1>1, <1>3, <1>5, <2>1 DEF DialsOK
<1>. QED BY <1>6, <1>7, <1>8, <1>9 DEF SessionsInv

LEMMA ReadEndsStep ==
  ASSUME TypeInv, KeysAreOwn, HoldersAreKnown, SessionsInv, Live, Live',
         NEW n \in Nodes, ReadEnds(n)
  PROVE  SessionsInv'
<1> USE Constants, ConstantsAssumption DEF TypeInv
<1>0. NewsIsFresh /\ ConnectionsOK /\ TableOK /\ DialsOK
  BY DEF SessionsInv
<1>1. /\ conn[n] = "on" /\ node[n] \in {"leaving", "crashed", "gone"}
      /\ conn' = [conn EXCEPT ![n] = "closed"] /\ sstate' = [sstate EXCEPT ![n] = "die"]
      /\ UNCHANGED <<machine, node, mid, knows, todo, sessions>>
      /\ UNCHANGED <<nodeW, stateW, NodeChan, StateChan>>
  BY DEF ReadEnds, etcdVars, lifeVars, watchVars, chans, bootVars, viewVars
<1>2. /\ conn'[n] = "closed" /\ \A m \in All : m # n => conn'[m] = conn[m]
      /\ sstate'[n] = "die" /\ \A m \in All : m # n => sstate'[m] = sstate[m]
  BY <1>1 DEF TcpOK
<1>3. Me' = Me /\ ~Alive(n) /\ n # Self /\ \A m : Alive(m)' <=> Alive(m)
  BY <1>1 DEF Me, Alive
<1>4. NewsIsFresh'
  BY <1>0, <1>1, <1>2, <1>3, SameNews DEF NewsIsFresh
<1>5. ConnectionsOK'
  <2>1. Me \notin {"new", "registered", "watching"}
    BY <1>0, <1>1 DEF ConnectionsOK, None
  <2>. QED BY <1>0, <1>1, <1>2, <1>3, <2>1 DEF ConnectionsOK
<1>6. TableOK'
  BY <1>0, <1>1, <1>2, <1>3, SameNews DEF TableOK
<1>7. DialsOK'
  BY <1>0, <1>1, <1>2, <1>3 DEF DialsOK, Alive
<1>. QED BY <1>4, <1>5, <1>6, <1>7 DEF SessionsInv

LEMMA DialNextStep ==
  ASSUME ~hasty', TypeInv, KeysAreOwn, HoldersAreKnown, SessionsInv, Live, Live',
         DialNext
  PROVE  SessionsInv'
<1> USE Constants, ConstantsAssumption DEF TypeInv
<1> DEFINE n == Head(todo)
<1>0. NewsIsFresh /\ ConnectionsOK /\ TableOK /\ DialsOK
  BY DEF SessionsInv
<1>1. /\ Me = "dialing" /\ todo # <<>> /\ node[n] # "registered" /\ todo' = Tail(todo)
      /\ UNCHANGED <<machine, node, mid, knows, sstate, sessions>>
      /\ UNCHANGED <<nodeW, stateW, StateChan>>
  BY DEF DialNext, Haste, etcdVars, watchVars, viewVars
<1>2. n \in All /\ Range(todo) = Range(todo') \cup {n}
  BY <1>1, TakenRange DEF ViewOK
<1>3. Me' = Me /\ \A m : Alive(m)' <=> Alive(m)
  BY <1>1 DEF Me, Alive
<1>4. CASE node[n] \in Listening
  <2>1. conn' = [conn EXCEPT ![n] = "on"] /\ NodeChan' = Append(NodeChan, <<"connect", mid[n], n>>)
    BY <1>4 DEF DialNext
  <2> HIDE DEF n
  <2>2. conn'[n] = "on" /\ \A m \in All : m # n => conn'[m] = conn[m]
    BY <1>2, <2>1 DEF TcpOK
  <2>3. mid[n] \in Ids /\ machine[mid[n]] = n
    BY <1>2, <1>4 DEF LifeOK, KeysAreOwn, Listening, Booting
  <2>4. n = Self \/ (n \in Nodes /\ n \notin knows /\ node[n] \notin {"new", "registered"})
    BY <1>0, <1>1, <1>2, <1>4 DEF DialsOK, All, Listening, Booting
  <2>5. n = Self \/ Alive(n)
    BY <1>4, <2>4 DEF HoldersAreKnown, Life, Listening, Booting, Alive
  <2>6. /\ \A i : OfflineComes(i)' <=> OfflineComes(i)
        /\ \A i, m : ConnectComes(i, m)' <=> ConnectComes(i, m) \/ (i = mid[n] /\ m = n)
    BY <1>1, <1>2, <2>1, <2>3, AnnouncedNews
  <2>7. NewsIsFresh'
    BY <1>0, <1>1, <1>3, <2>2, <2>3, <2>5, <2>6, SameNews DEF NewsIsFresh
  <2>8. ConnectionsOK'
    BY <1>0, <1>1, <1>3, <2>2, <2>4, <2>5 DEF ConnectionsOK
  <2>9. TableOK'
    BY <1>0, <1>1, <1>3, <2>2, <2>6 DEF TableOK
  <2>10. DialsOK'
    BY <1>0, <1>1, <1>2, <1>3, <2>2, <2>4 DEF DialsOK
  <2>. QED BY <2>7, <2>8, <2>9, <2>10 DEF SessionsInv
<1>5. CASE node[n] \notin Listening
  <2>1. UNCHANGED <<conn, NodeChan>>
    BY <1>5 DEF DialNext
  <2> HIDE DEF n
  <2>2. n \in Nodes /\ ~Alive(n)
    BY <1>1, <1>2, <1>5 DEF All, Me, Alive, Listening, Booting
  <2>3. NewsIsFresh'
    BY <1>0, <1>1, <1>3, <2>1, SameNews DEF NewsIsFresh
  <2>4. ConnectionsOK'
    BY <1>0, <1>1, <1>3, <2>1 DEF ConnectionsOK
  <2>5. TableOK'
    BY <1>0, <1>1, <1>3, <2>1, SameNews DEF TableOK
  <2>6. DialsOK'
    BY <1>0, <1>1, <1>2, <1>3, <2>1, <2>2 DEF DialsOK
  <2>. QED BY <2>3, <2>4, <2>5, <2>6 DEF SessionsInv
<1>. QED BY <1>4, <1>5

\* What cluster.Run takes from its channels.
LEMMA TakenNews ==
  ASSUME TypeInv, NodeChan # <<>>, NodeChan' = Tail(NodeChan), nodeW' = nodeW
  PROVE  /\ Head(NodeChan) \in NodeMsgs
         /\ \A i : OfflineComes(i)' => OfflineComes(i)
         /\ \A i : OfflineComes(i) => OfflineComes(i)' \/ Head(NodeChan) = <<"offline", i>>
         /\ \A i, n : ConnectComes(i, n)' => ConnectComes(i, n)
         /\ \A i, n : ConnectComes(i, n) =>
              ConnectComes(i, n)' \/ Head(NodeChan) = <<"connect", i, n>>
         /\ \A i : Head(NodeChan) = <<"offline", i>> => OfflineComes(i)
         /\ \A i, n : Head(NodeChan) = <<"connect", i, n>> => ConnectComes(i, n)
<1>1. NodeChan \in Seq(NodeMsgs)
  BY DEF TypeInv, QueuesOK
<1>2. Range(NodeChan) = Range(NodeChan') \cup {Head(NodeChan)} /\ Head(NodeChan) \in NodeMsgs
  BY <1>1, TakenRange
<1>. QED BY <1>2 DEF OfflineComes, ConnectComes

LEMMA TakenState ==
  ASSUME TypeInv, StateChan # <<>>, StateChan' = Tail(StateChan)
  PROVE  /\ Head(StateChan) \in StateMsgs
         /\ Range(StateChan) = Range(StateChan') \cup {Head(StateChan)}
<1>1. StateChan \in Seq(StateMsgs)
  BY DEF TypeInv, QueuesOK
<1>. QED BY <1>1, TakenRange

LEMMA HandleNodeStep ==
  ASSUME TypeInv, KeysAreOwn, HoldersAreKnown, SessionsInv, Live, Live', HandleNode
  PROVE  SessionsInv'
<1> USE Constants, ConstantsAssumption DEF TypeInv
<1> DEFINE e == Head(NodeChan)
           id == e[2]
<1>0. NewsIsFresh /\ ConnectionsOK /\ TableOK /\ DialsOK
  BY DEF SessionsInv
<1>1. /\ Me = "up" /\ NodeChan # <<>> /\ NodeChan' = Tail(NodeChan)
      /\ UNCHANGED <<machine, node, mid, knows, conn, todo>>
      /\ UNCHANGED <<nodeW, stateW, StateChan>>
  BY DEF HandleNode, etcdVars, lifeVars, watchVars, bootVars
<1>2. /\ e \in NodeMsgs
      /\ \A i : OfflineComes(i)' => OfflineComes(i)
      /\ \A i : OfflineComes(i) => OfflineComes(i)' \/ e = <<"offline", i>>
      /\ \A i, n : ConnectComes(i, n)' => ConnectComes(i, n)
      /\ \A i, n : ConnectComes(i, n) => ConnectComes(i, n)' \/ e = <<"connect", i, n>>
      /\ \A i : e = <<"offline", i>> => OfflineComes(i)
      /\ \A i, n : e = <<"connect", i, n>> => ConnectComes(i, n)
  BY <1>1, TakenNews
<1>3. Me' = Me /\ \A m : Alive(m)' <=> Alive(m)
  BY <1>1 DEF Me, Alive
<1>4. NewsIsFresh'
  BY <1>0, <1>1, <1>2, <1>3, SameNews DEF NewsIsFresh
<1>5. DialsOK'
  BY <1>0, <1>1, <1>3 DEF DialsOK
<1>6. CASE e[1] = "offline"
  <2>1. e = <<"offline", id>> /\ id \in Ids
    BY <1>2, <1>6 DEF NodeMsgs
  <2>2. /\ sessions' = [sessions EXCEPT ![id] = None]
        /\ sstate' = IF sessions[id] = None THEN sstate
                     ELSE [sstate EXCEPT ![sessions[id]] = "die"]
    BY <1>6 DEF HandleNode, Offline
  <2>3. machine[id] = None
    BY <1>0, <1>2, <2>1 DEF NewsIsFresh
  <2> HIDE DEF id, e
  <2>4. /\ sessions'[id] = None /\ \A i \in Ids : i # id => sessions'[i] = sessions[i]
    BY <2>1, <2>2 DEF ViewOK
  <2>5. ConnectionsOK'
    <3>1. ASSUME NEW n \in Nodes, sstate'[n] # sstate[n]
          PROVE  sstate'[n] = "die" /\ ~Alive(n) /\ node[n] # "new"
      <4>1. sessions[id] = n /\ sstate'[n] = "die"
        BY <2>2, <3>1 DEF TcpOK, ViewOK
      <4>2. conn[n] # None /\ mid[n] = id
        BY <1>0, <2>1, <4>1 DEF TableOK, None
      <4>3. ~Alive(n)
        BY <2>3, <4>2, AliveHolds
      <4>. QED BY <1>0, <4>1, <4>2, <4>3 DEF ConnectionsOK
    <3>. QED BY <1>0, <1>1, <1>3, <3>1 DEF ConnectionsOK
  <2>6. TableOK'
    <3>1. Me' # "up" => \A i \in Ids : sessions'[i] = None
      BY <1>1, <1>3
    <3>2. ASSUME NEW i \in Ids, NEW n \in All, sessions'[i] = n
          PROVE  /\ mid'[n] = i /\ conn'[n] \in {"on", "closed"}
                 /\ machine'[i] = n \/ (machine'[i] = None /\ OfflineComes(i)')
      <4>1. i # id /\ sessions[i] = n
        BY <2>4, <3>2
      <4>2. OfflineComes(i) => OfflineComes(i)'
        BY <1>2, <2>1, <4>1
      <4>. QED BY <1>0, <1>1, <4>1, <4>2 DEF TableOK
    <3>3. ASSUME NEW i \in Ids, NEW n \in Nodes, mid'[n] = i, conn'[n] = "on", node'[n] # "gone"
          PROVE  sessions'[i] = n \/ ConnectComes(i, n)'
      <4>1. machine[i] = n
        BY <1>0, <1>1, <3>3 DEF ConnectionsOK, KeysAreOwn, None
      <4>2. i # id
        BY <2>3, <4>1
      <4>3. sessions[i] = n \/ ConnectComes(i, n)
        BY <1>0, <1>1, <3>3 DEF TableOK
      <4>. QED BY <1>2, <2>1, <2>4, <4>2, <4>3
    <3>. QED BY ONLY <3>1, <3>2, <3>3 DEF TableOK
  <2>. QED BY <1>4, <1>5, <2>5, <2>6 DEF SessionsInv
<1>7. CASE e[1] = "connect"
  <2> DEFINE c == e[3]
  <2>1. e = <<"connect", id, c>> /\ id \in Ids /\ c \in All
    BY <1>2, <1>7 DEF NodeMsgs
  <2>2. sessions' = [sessions EXCEPT ![id] = c] /\ sstate' = sstate
    BY <1>7 DEF HandleNode
  <2>3. mid[c] = id /\ conn[c] = "on" /\ machine[id] = c
    <3> HIDE DEF e
    <3>0. ConnectComes(id, c)
      BY <1>2, <2>1
    <3> HIDE DEF id, c
    <3>1. mid[c] = id /\ conn[c] = "on" /\ (c = Self \/ Alive(c))
      BY <1>0, <2>1, <3>0 DEF NewsIsFresh
    <3>2. machine[mid[c]] = c
      BY <1>1, <2>1, <3>1, AliveHolds, SelfHolds
    <3>. QED BY <3>1, <3>2
  <2> HIDE DEF id, c, e
  <2>4. sessions'[id] = c /\ \A i \in Ids : i # id => sessions'[i] = sessions[i]
    BY <2>1, <2>2 DEF ViewOK
  <2>5. ConnectionsOK'
    BY <1>0, <1>1, <1>3, <2>2 DEF ConnectionsOK
  <2>6. TableOK'
    <3>1. Me' # "up" => \A i \in Ids : sessions'[i] = None
      BY <1>1, <1>3
    <3>2. ASSUME NEW i \in Ids, NEW n \in All, sessions'[i] = n
          PROVE  /\ mid'[n] = i /\ conn'[n] \in {"on", "closed"}
                 /\ machine'[i] = n \/ (machine'[i] = None /\ OfflineComes(i)')
      <4>1. CASE i = id
        BY <1>1, <2>3, <2>4, <3>2, <4>1
      <4>2. CASE i # id
        <5>1. sessions[i] = n
          BY <2>4, <3>2, <4>2
        <5>2. OfflineComes(i) => OfflineComes(i)'
          BY <1>2, <2>1
        <5>. QED BY <1>0, <1>1, <5>1, <5>2 DEF TableOK
      <4>. QED BY <4>1, <4>2
    <3>3. ASSUME NEW i \in Ids, NEW n \in Nodes, mid'[n] = i, conn'[n] = "on", node'[n] # "gone"
          PROVE  sessions'[i] = n \/ ConnectComes(i, n)'
      <4>1. machine[i] = n
        BY <1>0, <1>1, <3>3 DEF ConnectionsOK, KeysAreOwn, None
      <4>2. sessions[i] = n \/ ConnectComes(i, n)
        BY <1>0, <1>1, <3>3 DEF TableOK
      <4>3. i = id => c = n
        BY <2>3, <4>1
      <4>. QED BY <1>2, <2>1, <2>4, <4>2, <4>3
    <3>. QED BY ONLY <3>1, <3>2, <3>3 DEF TableOK
  <2>. QED BY <1>4, <1>5, <2>5, <2>6 DEF SessionsInv
<1>. QED BY <1>2, <1>6, <1>7 DEF NodeMsgs

LEMMA HandleStateStep ==
  ASSUME TypeInv, KeysAreOwn, HoldersAreKnown, SessionsInv, Live, Live', HandleState
  PROVE  SessionsInv'
<1> USE Constants, ConstantsAssumption DEF TypeInv
<1> DEFINE e == Head(StateChan)
<1>0. NewsIsFresh /\ ConnectionsOK /\ TableOK /\ DialsOK
  BY DEF SessionsInv
<1>1. /\ Me = "up" /\ StateChan # <<>> /\ StateChan' = Tail(StateChan)
      /\ UNCHANGED <<machine, mid, knows, todo, nodeW, NodeChan>>
  BY DEF HandleState, etcdVars, bootVars
<1>2. e \in StateMsgs /\ Range(StateChan) = Range(StateChan') \cup {e}
  BY <1>1, TakenState
<1>3. e[1] \in Ids \cup {NoId} /\ e[2] \in {"work", "die"} /\ e = <<e[1], e[2]>>
  BY <1>2 DEF StateMsgs
<1>4. CASE e[1] = NoId /\ OwnState(e[2])
  <2>1. CASE e[2] = "die"
    <3>1. Me' = "dead"
      BY <1>4, <2>1 DEF OwnState, Becomes, Me, LifeOK
    <3>. QED BY <3>1 DEF Live, Booting
  <2>2. CASE e[2] = "work"
    <3>1. /\ stateW' = Append(stateW, <<mid[Self], "work">>)
          /\ UNCHANGED <<node, conn, sstate, sessions>>
      BY <1>4, <2>2 DEF OwnState
    <3>2. mid[Self] \in Ids /\ machine[mid[Self]] = Self
      BY <1>1, SelfHolds
    <3>3. Range(stateW') = Range(stateW) \cup {<<mid[Self], "work">>}
      <4>1. <<mid[Self], "work">> \in StateEvents /\ stateW \in Seq(StateEvents)
        BY <3>2 DEF StateEvents, QueuesOK
      <4>. QED BY <3>1, <4>1, AppendedRange
    <3>4. \A i, u : StateComes(i, u)' => StateComes(i, u) \/ (i = mid[Self] /\ u = "work")
      <4> HIDE DEF e
      <4>. QED BY <1>2, <3>3 DEF StateComes
    <3>5. Me' = Me /\ \A m : Alive(m)' <=> Alive(m)
      BY <3>1 DEF Me, Alive
    <3>6. NewsIsFresh'
      BY <1>0, <1>1, <3>1, <3>2, <3>4, <3>5, SameNews DEF NewsIsFresh
    <3>7. ConnectionsOK'
      BY <1>0, <1>1, <3>1, <3>5 DEF ConnectionsOK
    <3>8. TableOK'
      BY <1>0, <1>1, <3>1, <3>5, SameNews DEF TableOK
    <3>9. DialsOK'
      BY <1>0, <1>1, <3>1, <3>5 DEF DialsOK
    <3>. QED BY <3>6, <3>7, <3>8, <3>9 DEF SessionsInv
  <2>. QED BY <1>3, <2>1, <2>2
<1>5. CASE e[1] # NoId /\ NodeState(e[1], e[2])
  <2> DEFINE id == e[1]
             u == e[2]
  <2>1. id \in Ids /\ u \in {"work", "die"} /\ e = <<id, u>>
    BY <1>3, <1>5
  <2>2. /\ UNCHANGED <<node, conn, stateW, sessions>>
        /\ sstate' = IF sessions[id] = None THEN sstate ELSE [sstate EXCEPT ![sessions[id]] = u]
    BY <1>5 DEF NodeState, NewState
  <2>3. StateComes(id, u) /\ \A i, x : StateComes(i, x)' => StateComes(i, x)
    <3> HIDE DEF id, u, e
    <3>. QED BY <1>2, <2>1, <2>2 DEF StateComes
  <2> HIDE DEF id, u, e
  <2>4. Me' = Me /\ \A m : Alive(m)' <=> Alive(m)
    BY <2>2 DEF Me, Alive
  <2>5. NewsIsFresh'
    BY <1>0, <1>1, <2>2, <2>3, <2>4, SameNews DEF NewsIsFresh
  <2>6. ConnectionsOK'
    <3>1. ASSUME NEW n \in Nodes, sstate'[n] # sstate[n]
          PROVE  /\ sstate'[n] = "work" => conn[n] # "closed"
                 /\ sstate'[n] = "die" => ~Alive(n) /\ node[n] # "new"
      <4>1. sessions[id] = n /\ sstate'[n] = u
        BY <2>1, <2>2, <3>1 DEF TcpOK, ViewOK
      <4>2. conn[n] # None /\ mid[n] = id /\ machine[id] \in {None, n} /\ n # Self
        BY <1>0, <2>1, <4>1 DEF TableOK, None
      <4>3. u = "work" => node[n] = "up"
        BY <1>0, <2>1, <2>3, <4>2 DEF NewsIsFresh
      <4>4. u = "die" => ~Alive(n)
        <5>1. u = "die" => machine[id] = None \/ node[n] = "leaving"
          BY <1>0, <2>1, <2>3, <4>2 DEF NewsIsFresh
        <5>. QED BY <4>2, <5>1, AliveHolds DEF Alive
      <4>. QED BY <1>0, <4>1, <4>2, <4>3, <4>4 DEF ConnectionsOK
    <3>2. sstate' \in [All -> {"work", "die"}]
      BY <2>1, <2>2 DEF TcpOK
    <3>. QED BY <1>0, <1>1, <2>2, <2>4, <3>1, <3>2 DEF ConnectionsOK, TcpOK
  <2>7. TableOK'
    BY <1>0, <1>1, <2>2, <2>4, SameNews DEF TableOK
  <2>8. DialsOK'
    BY <1>0, <1>1, <2>2, <2>4 DEF DialsOK
  <2>. QED BY <2>5, <2>6, <2>7, <2>8 DEF SessionsInv
<1>. QED BY <1>4, <1>5 DEF HandleState

LEMMA SessionsStep ==
  ~hasty' /\ TypeInv /\ KeysAreOwn /\ HoldersAreKnown /\ SessionsInv /\ [Next]_vars =>
    SessionsInv'
<1> SUFFICES ASSUME ~hasty', TypeInv, KeysAreOwn, HoldersAreKnown, SessionsInv,
                    [Next]_vars
             PROVE  SessionsInv'
  OBVIOUS
<1> SUFFICES ASSUME Live' PROVE SessionsInv'
  BY DEF SessionsInv
<1>0. Live
  BY LiveBefore
<1>1. ASSUME NEW n \in All, Register(n) PROVE SessionsInv'
  BY <1>0, <1>1, RegisterStep, OwnRegisterStep DEF All
<1>2. ASSUME NEW n \in All, KeysGo(n) PROVE SessionsInv'
  <2>1. n # Self
    BY <1>0, <1>2, Constants DEF KeysGo, Becomes, Live, Me, Booting, Stopped
  <2>. QED BY <1>0, <1>2, <2>1, KeysGoStep DEF All
<1>3. ASSUME NEW n \in Nodes, Listen(n) \/ Dial(n) \/ Work(n) \/ Leave(n) \/ Crash(n)
      PROVE  SessionsInv'
  BY <1>0, <1>3, ListenStep, DialStep, WorkStep, EndStep
<1>4. ASSUME NEW n \in Nodes, Connect(n) PROVE SessionsInv'
  BY <1>0, <1>4, AnnounceStep, ReadEndsStep DEF Connect
<1>5. CASE DialNext \/ HandleNode \/ HandleState
  BY <1>0, <1>5, DialNextStep, HandleNodeStep, HandleStateStep
<1>6. CASE StartWatch \/ SelfListens \/ DialDone \/ Snapshot \/ CheckState \/ CheckChannel
           \/ Heartbeat
  <2>1. /\ UNCHANGED <<machine, mid, knows, conn, sstate, todo, sessions>>
        /\ UNCHANGED <<nodeW, NodeChan, stateW, StateChan>>
    BY <1>6 DEF StartWatch, SelfListens, DialDone, Snapshot, CheckState, CheckChannel,
                Heartbeat, etcdVars, tcpVars, watchVars, chans, bootVars, viewVars
  <2>2. \E s : /\ Becomes(Self, s)
               /\ \/ Me = "registered" /\ s = "watching"
                  \/ Me = "watching" /\ s = "dialing"
                  \/ Me = "dialing" /\ s = "snapshot" /\ todo = <<>>
                  \/ Me = "snapshot" /\ s = "checkState"
                  \/ Me = "checkState" /\ s = "checkChannel"
                  \/ Me = "checkChannel" /\ s = "up"
                  \/ s = "exit"
    BY <1>6 DEF StartWatch, SelfListens, DialDone, Snapshot, CheckState, CheckChannel,
                Heartbeat, StepSelf
  <2>3. \A s : Becomes(Self, s) => Me' = s /\ \A n \in Nodes : node'[n] = node[n]
    BY Constants, ConstantsAssumption DEF Becomes, Me, TypeInv, LifeOK
  <2>4. Me' # "exit"
    BY DEF Live, Booting
  <2>. QED BY <1>0, <2>1, <2>2, <2>3, <2>4, OwnStep, SameNews
<1>7. CASE PumpNode
  <2>1. /\ UNCHANGED <<machine, node, mid, knows, conn, sstate, todo, sessions>>
        /\ UNCHANGED <<stateW, StateChan>>
    BY <1>7 DEF PumpNode, etcdVars, lifeVars, tcpVars, bootVars, viewVars
  <2>. QED BY <1>0, <1>7, <2>1, OwnStep, PumpedNews, SameNews DEF Me
<1>8. CASE PumpState
  <2>1. /\ UNCHANGED <<machine, node, mid, knows, conn, sstate, todo, sessions>>
        /\ UNCHANGED <<nodeW, NodeChan>>
    BY <1>8 DEF PumpState, etcdVars, lifeVars, tcpVars, bootVars, viewVars
  <2>. QED BY <1>0, <1>8, <2>1, OwnStep, PumpedState, SameNews DEF Me
<1>9. ASSUME NEW x \in {"work", "die"}, SetState(x) PROVE SessionsInv'
  <2>1. /\ UNCHANGED <<machine, node, mid, knows, conn, sstate, todo, sessions>>
        /\ UNCHANGED <<nodeW, NodeChan, stateW>>
        /\ StateChan' = Append(StateChan, <<NoId, x>>)
    BY <1>9 DEF SetState, etcdVars, lifeVars, tcpVars, watchVars, viewVars
  <2>2. Range(StateChan') = Range(StateChan) \cup {<<NoId, x>>}
    <3>1. StateChan \in Seq(StateMsgs) /\ <<NoId, x>> \in StateMsgs
      BY DEF TypeInv, QueuesOK, StateMsgs
    <3>. QED BY <2>1, <3>1, AppendedRange
  <2>3. \A i \in Ids, u \in {"work", "die"} : StateComes(i, u)' <=> StateComes(i, u)
    BY <2>1, <2>2, Constants DEF StateComes
  <2>. QED BY <1>0, <2>1, <2>3, OwnStep, SameNews DEF Me
<1>10. CASE UNCHANGED <<machine, node, mid, knows, conn, sstate, todo, sessions>>
            /\ UNCHANGED <<nodeW, NodeChan, stateW, StateChan>>
  BY <1>0, <1>10, OwnStep, SameNews DEF Me
<1>11. ASSUME \/ \E n \in Nodes : PutChannel(n) \/ DeleteChannel(n)
              \/ PumpChannel \/ HandleChannel \/ Subscribe \/ Unsubscribe \/ UNCHANGED vars
       PROVE  SessionsInv'
  BY <1>10, <1>11 DEF PutChannel, DeleteChannel, Keys, PumpChannel, HandleChannel, Subscribe,
                      Unsubscribe, Ask, vars, etcdVars, lifeVars, tcpVars, watchVars, chans,
                      bootVars, viewVars
<1>. QED
  BY <1>1, <1>2, <1>3, <1>4, <1>5, <1>6, <1>7, <1>8, <1>9, <1>11
  DEF Next, Other, Start, Pump, Handle

Settled == KeysAreOwn /\ HoldersAreKnown /\ (~hasty => SessionsInv)

LEMMA InitSettled == Init => Settled
<1> SUFFICES ASSUME Init PROVE Settled
  OBVIOUS
<1> USE Constants DEF Init
<1>1. KeysAreOwn /\ HoldersAreKnown
  BY DEF KeysAreOwn, HoldersAreKnown, Life
<1>2. Range(<<>>) = {}
  BY DEF Range
<1>3. NewsIsFresh
  BY <1>2 DEF NewsIsFresh, OfflineComes, ConnectComes, StateComes
<1>4. ConnectionsOK
  BY DEF ConnectionsOK, None
<1>5. TableOK
  BY DEF TableOK, None
<1>6. DialsOK
  BY <1>2 DEF DialsOK, Me
<1>. QED BY <1>1, <1>3, <1>4, <1>5, <1>6 DEF Settled, SessionsInv

LEMMA SettledAlways == Spec => []Settled
<1>1. TypeInv /\ Settled /\ [Next]_vars => Settled'
  BY KeysStep, HoldersStep, SessionsStep, HasteStep DEF Settled
<1>. QED BY <1>1, InitSettled, TypesAlways, PTL DEF Spec

\* As long as no step was taken in haste, whenever every event has been handled the table of
\* sessions agrees with etcd, whatever joins, leaves and crashes overlap and however late
\* the events are: the later of two nodes finds the address of the earlier one and dials it,
\* and the event that a node went takes its session away.  A step in haste is one of four: an
\* id is given again while an event about it is on its way, a node ends before Self has
\* handled its connection or its state, a node dials Self before Self listens, or Self dials
\* a node before that one listens.  No other order of the steps can make the table wrong.
THEOREM SessionsDoAgree ==
  Spec => [](~hasty => SessionsAgree)
<1>1. TypeInv /\ Settled => (~hasty => SessionsAgree)
  <2> SUFFICES ASSUME TypeInv, KeysAreOwn, HoldersAreKnown, SessionsInv, Me = "up", Quiet
               PROVE  SessionsAgree
    BY DEF Settled, SessionsAgree, AllConnected, LiveIsReachable
  <2> USE Constants DEF TypeInv
  <2>0. ConnectionsOK /\ TableOK /\ DialsOK
    BY DEF SessionsInv, Live
  <2>1. ASSUME NEW n \in Nodes, node[n] = "up" PROVE conn[n] = "on"
    <3>1. n \in Range(todo) \/ conn[n] \in {"sent", "on"}
      BY <2>0, <2>1 DEF DialsOK, Alive
    <3>2. Range(todo) = {}
      BY <2>0 DEF DialsOK, Range
    <3>. QED BY <3>1, <3>2, QuietSays
  <2>2. ASSUME NEW n \in Nodes, node[n] = "up", conn[n] = "on"
        PROVE  sessions[mid[n]] = n /\ sstate[n] = "work"
    <3>1. mid[n] \in Ids
      BY <2>2 DEF LifeOK
    <3>2. ~ConnectComes(mid[n], n)
      BY QuietSays
    <3>. QED BY <2>0, <2>2, <3>1, <3>2 DEF TableOK, ConnectionsOK, Alive
  <2>3. ASSUME NEW n \in Nodes, node[n] = "gone"
        PROVE  n \notin Range(sessions) /\ (conn[n] # None => sstate[n] = "die")
    <3>1. \A i \in Ids : sessions[i] # n
      <4> SUFFICES ASSUME NEW i \in Ids, sessions[i] = n PROVE FALSE
        OBVIOUS
      <4>1. machine[i] = n
        BY <2>0, QuietSays DEF TableOK
      <4>. QED BY <2>3, <4>1 DEF HoldersAreKnown
    <3>2. n \notin Range(sessions)
      BY <3>1 DEF Range, ViewOK
    <3>3. conn[n] # None => conn[n] = "closed"
      BY <2>3, QuietSays DEF TcpOK
    <3>. QED BY <2>0, <3>2, <3>3 DEF ConnectionsOK
  <2>. QED BY <2>1, <2>2, <2>3 DEF SessionsAgree, AllConnected, LiveIsReachable
<1>. QED BY <1>1, SettledAlways, TypesAlways, PTL

\* A step that sets a session that was closed to "work" again comes after a step in haste:
\* otherwise a state that cluster.Run handles is about the very node whose session it finds
\* under the id.
THEOREM ClosedSessionsStay ==
  Spec => [][\A n \in Nodes : ~hasty /\ conn[n] = "closed" /\ sstate[n] = "die" =>
               sstate'[n] = "die"]_vars
<1>1. TypeInv /\ Settled /\ [Next]_vars =>
        [\A n \in Nodes : ~hasty /\ conn[n] = "closed" /\ sstate[n] = "die" =>
           sstate'[n] = "die"]_vars
  <2> SUFFICES ASSUME TypeInv, Settled, Next, ~hasty,
                      NEW n \in Nodes, conn[n] = "closed", sstate[n] = "die"
               PROVE  sstate'[n] = "die"
    OBVIOUS
  <2> USE Constants DEF TypeInv
  <2>1. CASE HandleState
    <3> DEFINE e == Head(StateChan)
    <3>1. NewsIsFresh /\ ConnectionsOK /\ TableOK
      BY <2>1 DEF HandleState, Settled, SessionsInv, Live
    <3>2. StateChan # <<>> /\ StateChan' = Tail(StateChan)
      BY <2>1 DEF HandleState
    <3>3. e \in StateMsgs /\ Range(StateChan) = Range(StateChan') \cup {e}
      BY <3>2, TakenState
    <3>4. e[1] \in Ids \cup {NoId} /\ e = <<e[1], e[2]>> /\ e[2] \in {"work", "die"}
      BY <3>3 DEF StateMsgs
    <3>5. CASE e[1] = NoId /\ OwnState(e[2])
      BY <3>5, ConstantsAssumption DEF OwnState
    <3>6. CASE e[1] # NoId /\ NodeState(e[1], e[2])
      <4> DEFINE id == e[1]
      <4>1. id \in Ids /\ e = <<id, e[2]>>
        BY <3>4, <3>6
      <4>2. StateComes(id, e[2])
        BY <3>3, <4>1 DEF StateComes
      <4>3. CASE sessions[id] = n /\ e[2] = "work"
        <5> HIDE DEF id, e
        <5>1. machine[id] \in {None, n} /\ n # Self
          BY <3>1, <4>1, <4>3, ConstantsAssumption DEF TableOK
        <5>2. machine[id] = Self \/ (machine[id] # None /\ node[machine[id]] = "up")
          BY <3>1, <4>1, <4>2, <4>3 DEF NewsIsFresh
        <5>3. node[n] = "up"
          BY <5>1, <5>2
        <5>. QED BY <3>1, <5>3 DEF ConnectionsOK
      <4>4. CASE ~(sessions[id] = n /\ e[2] = "work")
        BY <3>4, <3>6, <4>1, <4>4 DEF NodeState, NewState, TcpOK, ViewOK
      <4>. QED BY <4>3, <4>4
    <3>. QED BY <2>1, <3>5, <3>6 DEF HandleState
  <2>2. CASE sstate' = sstate \/ \E m : sstate' = [sstate EXCEPT ![m] = "die"]
    BY <2>2 DEF TcpOK
  <2>. QED
    BY <2>1, <2>2
    DEF Next, Register, KeysGo, Other, Listen, Dial, Work, PutChannel, DeleteChannel, Keys,
        Leave, Crash, StepNode, Connect, Announce, ReadEnds, Start, StartWatch, SelfListens,
        DialNext, DialDone, Snapshot, CheckState, CheckChannel, Heartbeat, Pump, PumpNode,
        PumpState, PumpChannel, Handle, HandleChannel, HandleNode, Subscribe, Unsubscribe, Ask,
        SetState, tcpVars
<1>. QED BY <1>1, SettledAlways, TypesAlways, PTL DEF Spec
=============================================================================
