--------------------------- MODULE RequestProofs ---------------------------
(****************************************************************************)
(* Theorems about the requests to the nodes of a channel, for every set of  *)
(* askers and of nodes, every first bucket and every number of buckets.     *)
(****************************************************************************)
EXTENDS Request, FiniteSetTheorems, SequenceTheorems, WellFoundedInduction, TLAPS

----------------------------------------------------------------------------
(* The inductive invariant                                                  *)

\* The askers between the addition and the reset of a bucket's cursor.
Wrapping(b) == {a \in Askers : my[a] = b /\ pc[a] = "wrap"}

\* A bucket somebody asks is made and holds an id.
InUse(b) == b <= made /\ sets[b] # <<>>

BucketsOK ==
  /\ \A b \in Buckets : b > made => cursor[b] = 0
  /\ channel # Nil => InUse(channel)
  /\ \A a \in Askers : my[a] # Nil => InUse(my[a])
  /\ \A a \in Askers : pc[a] # "idle" => my[a] # Nil

\* Each asker carries the cursor at most one past the last id, and whoever
\* resets it sets it to 0.
CursorBound ==
  \A b \in Buckets :
    cursor[b] = 0 \/ cursor[b] < Len(sets[b]) + Cardinality(Wrapping(b))

PositionsOK ==
  \A a \in Askers : pc[a] \in {"pick", "all"} => at[a] < Lenght(a)

Count(s, id) == Cardinality({i \in DOMAIN s : s[i] = id})

Passed(a, id) == Cardinality({i \in 1 .. at[a] : sets[my[a]][i] = id})

\* An AskOne has sent nothing before it ends; an AskAll has sent to the ids it
\* has passed, to each once per entry, and what it still owes lies ahead of it.
SentBy(a) ==
  /\ pc[a] \in {"next", "wrap", "pick"} => got[a] = <<>> /\ due[a] = {}
  /\ pc[a] = "all" => \A id \in Ids : Count(got[a], id) <= Passed(a, id)
  /\ pc[a] = "all" =>
       \A id \in due[a] :
         id \in Range(got[a]) \/ \E i \in at[a] + 1 .. Len(sets[my[a]]) : sets[my[a]][i] = id
  /\ pc[a] = "idle" => due[a] \subseteq Range(got[a])
  /\ due[a] \subseteq accepts
  /\ my[a] # Nil =>
       \A id \in Ids : Count(got[a], id) <= Count(sets[my[a]], id)

SentSoFar == \A a \in Askers : SentBy(a)

Inv == TypeOK /\ BucketsOK /\ CursorBound /\ PositionsOK

\* Where the cursor of a bucket stands when only a has asked.
InTurn(a, b) ==
  LET last == IF picked[b] = -1 THEN 0 ELSE picked[b] IN
  /\ picked[b] \in -1 .. Len(sets[b]) - 1
  /\ IF my[a] = b /\ pc[a] \in {"wrap", "pick"}
     THEN /\ cursor[b] = at[a]
          /\ IF pc[a] = "wrap" THEN at[a] = last + 1 /\ at[a] = Len(sets[b])
             ELSE \/ at[a] = last + 1
                  \/ at[a] = 0 /\ last + 1 = Len(sets[b])
     ELSE cursor[b] = last

Alone(a) == asked \subseteq {a}

Turns ==
  /\ \A a \in Askers \ asked : pc[a] = "idle" /\ my[a] = Nil
  /\ \A b \in Buckets : b > made => picked[b] = -1
  /\ \A a \in Askers : Alone(a) => \A b \in Buckets : InTurn(a, b)

----------------------------------------------------------------------------
(* Operators                                                                *)

\* A non-empty set of naturals has a least element.
LEMMA LeastNat ==
  ASSUME NEW T, T \subseteq Nat, T # {}
  PROVE  \E x \in T : \A y \in T : x <= y
<1>1. PICK x \in T : \A y \in T : ~(<<y, x>> \in OpToRel(<, Nat))
  BY NatLessThanWellFounded, WFMin
<1>2. \A y \in T : ~(y < x)
  BY <1>1 DEF OpToRel
<1>. QED BY <1>2

\* bucket.remove leaves a list of ids.
LEMMA WithoutType ==
  ASSUME NEW s \in Seq(Ids), NEW id \in Ids
  PROVE  Without(s, id) \in Seq(Ids)
<1>0. DOMAIN s = 1 .. Len(s) /\ Len(s) \in Nat /\ \A i \in 1 .. Len(s) : s[i] \in Ids
  BY LenProperties
<1>1. CASE id \in Range(s)
  <2> DEFINE T == {i \in DOMAIN s : s[i] = id}
             First(i) == s[i] = id /\ \A j \in 1 .. i - 1 : s[j] # id
             k == CHOOSE i \in DOMAIN s : First(i)
  <2>1. T # {} /\ T \subseteq Nat
    BY <1>0, <1>1 DEF Range
  <2>2. PICK i \in T : \A j \in T : i <= j
    BY <2>1, LeastNat
  <2>3. i \in DOMAIN s /\ First(i)
    <3>1. \A j \in 1 .. i - 1 : j \in 1 .. Len(s) /\ ~(i <= j)
      BY <1>0, <2>2
    <3>. QED BY <1>0, <2>2, <3>1
  <2>4. k \in 1 .. Len(s)
    BY <1>0, <2>3
  <2>5. SubSeq(s, 1, k - 1) \in Seq(Ids) /\ SubSeq(s, k + 1, Len(s)) \in Seq(Ids)
    <3>1. \A x \in 1 .. k - 1 : s[x] \in Ids
      BY <1>0, <2>4
    <3>2. \A x \in k + 1 .. Len(s) : s[x] \in Ids
      BY <1>0, <2>4
    <3>. QED BY <1>0, <2>4, <3>1, <3>2, SubSeqProperties, SMTT(60)
  <2>6. SubSeq(s, 1, k - 1) \o SubSeq(s, k + 1, Len(s)) \in Seq(Ids)
    BY <2>5, ConcatProperties
  <2>. QED BY <1>1, <2>6 DEF Without, RemoveAt
<1>2. CASE id \notin Range(s)
  BY <1>2 DEF Without
<1>. QED BY <1>1, <1>2

----------------------------------------------------------------------------
(* Types and bounds                                                         *)

Pcs == {"idle", "next", "wrap", "pick", "all"}

\* What the steps of cluster.Run leave of the askers.
LEMMA InstallInv ==
  ASSUME Inv, NEW s \in Seq(Ids), Install(s)
  PROVE  Inv'
<1> USE DEF Inv
<1>1. /\ made \in Buckets /\ made + 1 \in Buckets /\ made' = made + 1
      /\ sets' = [sets EXCEPT ![made + 1] = s] /\ sets \in [Buckets -> Seq(Ids)]
      /\ channel' = IF s = <<>> THEN Nil ELSE made + 1
      /\ UNCHANGED <<cursor, accepts, pc, my, at, got, picked, asked, due>>
  BY ConstantsAssumption DEF Install, TypeOK, Buckets, askVars
<1>2. \A b \in Buckets : b <= made => sets'[b] = sets[b]
  BY <1>1 DEF Buckets
<1>3. /\ sets'[made + 1] = s
      /\ \A b \in Buckets : b # made + 1 => sets'[b] = sets[b]
      /\ sets' \in [Buckets -> Seq(Ids)]
  BY <1>1
<1>4. TypeOK'
  BY <1>1, <1>3 DEF TypeOK
<1>5. \A b \in Buckets : InUse(b) => InUse(b)'
  BY <1>1, <1>2 DEF InUse, Buckets
<1>6. BucketsOK'
  <2>1. channel' # Nil => InUse(channel)'
    BY <1>1, <1>3 DEF InUse, Buckets
  <2>2. \A b \in Buckets : b > made' => cursor'[b] = 0
    BY <1>1 DEF BucketsOK, Buckets
  <2>. QED BY <1>1, <1>5, <2>1, <2>2 DEF BucketsOK, TypeOK
<1>7. CursorBound'
  <2> SUFFICES ASSUME NEW b \in Buckets, cursor[b] # 0
               PROVE  cursor[b] < Len(sets'[b]) + Cardinality(Wrapping(b)')
    BY <1>1 DEF CursorBound
  <2>1. b <= made
    BY <1>1 DEF BucketsOK, Buckets
  <2>2. Wrapping(b)' = Wrapping(b)
    BY <1>1 DEF Wrapping
  <2>. QED BY <1>2, <2>1, <2>2 DEF CursorBound
<1>8. PositionsOK'
  <2> SUFFICES ASSUME NEW a \in Askers, pc[a] \in {"pick", "all"}
               PROVE  at[a] < Len(sets'[my[a]])
    BY <1>1 DEF PositionsOK, Lenght
  <2>1. my[a] \in Buckets /\ my[a] <= made
    BY DEF BucketsOK, TypeOK, InUse
  <2>. QED BY <1>2, <2>1 DEF PositionsOK, Lenght
<1>. QED BY <1>4, <1>6, <1>7, <1>8

\* Id of an asker at a position in range is an id of its bucket.
LEMMA IdType ==
  ASSUME Inv, NEW a \in Askers, pc[a] \in {"pick", "all"}
  PROVE  /\ Id(a) \in Ids /\ my[a] \in Buckets /\ sets[my[a]] \in Seq(Ids)
         /\ at[a] \in Nat /\ at[a] + 1 \in 1 .. Len(sets[my[a]])
<1>1. my[a] \in Buckets /\ at[a] \in Nat /\ sets[my[a]] \in Seq(Ids)
  BY DEF Inv, BucketsOK, TypeOK
<1>2. at[a] + 1 \in 1 .. Len(sets[my[a]])
  BY <1>1, LenProperties DEF Inv, PositionsOK, Lenght
<1>. QED BY <1>1, <1>2, ElementOfSeq DEF Id

\* Beginning a request takes the current bucket.
LEMMA BeginInv ==
  ASSUME Inv, NEW a \in Askers, NEW l \in {"next", "all"}, Begin(a, l)
  PROVE  Inv'
<1> USE DEF Inv
<1>1. /\ pc[a] = "idle"
      /\ asked' = asked \cup {a}
      /\ due' = [due EXCEPT ![a] = IF l = "all" THEN Range(Current) \cap accepts ELSE {}]
      /\ my' = [my EXCEPT ![a] = channel]
      /\ at' = [at EXCEPT ![a] = 0]
      /\ got' = [got EXCEPT ![a] = <<>>]
      /\ pc' = [pc EXCEPT ![a] = IF channel = Nil THEN "idle" ELSE l]
      /\ UNCHANGED <<channel, made, sets, cursor, accepts, picked>>
  BY DEF Begin, Goto, bucketVars
<1>2. /\ \A o \in Askers \ {a} : my'[o] = my[o] /\ at'[o] = at[o] /\ pc'[o] = pc[o]
      /\ my'[a] = channel /\ at'[a] = 0
      /\ pc'[a] = IF channel = Nil THEN "idle" ELSE l
  BY <1>1 DEF TypeOK
<1>3. TypeOK'
  <2>1. asked' \subseteq Askers /\ due' \in [Askers -> SUBSET Ids]
    BY <1>1 DEF TypeOK
  <2>2. my' \in [Askers -> Buckets \cup {Nil}] /\ at' \in [Askers -> Nat]
    BY <1>1 DEF TypeOK
  <2>3. got' \in [Askers -> Seq(Ids)]
    BY <1>1, EmptySeq DEF TypeOK
  <2>4. pc' \in [Askers -> Pcs]
    BY <1>1 DEF TypeOK, Pcs
  <2>. QED BY <1>1, <2>1, <2>2, <2>3, <2>4 DEF TypeOK, Pcs
<1>4. \A b : InUse(b)' <=> InUse(b)
  BY <1>1 DEF InUse
<1>5. BucketsOK'
  BY <1>1, <1>2, <1>4 DEF BucketsOK, TypeOK
<1>6. CursorBound'
  <2>1. \A b \in Buckets : Wrapping(b)' = Wrapping(b)
    BY <1>1, <1>2 DEF Wrapping
  <2>. QED BY <1>1, <2>1 DEF CursorBound
<1>7. PositionsOK'
  <2>1. channel # Nil => 0 < Len(sets[channel])
    BY EmptySeq DEF BucketsOK, InUse, TypeOK
  <2>. QED BY <1>1, <1>2, <2>1 DEF PositionsOK, Lenght
<1>. QED BY <1>3, <1>5, <1>6, <1>7

\* The addition of bucket.next.
LEMMA Next1Inv ==
  ASSUME Inv, NEW a \in Askers, Next1(a)
  PROVE  Inv'
<1> USE DEF Inv
<1> DEFINE b == my[a]
<1>0. /\ b \in Buckets /\ InUse(b) /\ cursor[b] \in Nat /\ pc[a] = "next"
      /\ Len(sets[b]) \in Nat /\ Len(sets[b]) > 0
  BY EmptySeq DEF Next1, BucketsOK, TypeOK, InUse
<1>1. /\ cursor' = [cursor EXCEPT ![b] = @ + 1]
      /\ cursor'[b] = cursor[b] + 1
      /\ at' = [at EXCEPT ![a] = cursor[b] + 1]
      /\ pc' = [pc EXCEPT ![a] = IF cursor[b] + 1 >= Len(sets[b]) THEN "wrap" ELSE "pick"]
      /\ UNCHANGED <<channel, made, sets, accepts, my, got, picked, asked, due>>
  BY <1>0 DEF Next1, Goto, bucketVars, TypeOK, Wraps, Lenght
<1>2. /\ \A o \in Askers \ {a} : at'[o] = at[o] /\ pc'[o] = pc[o]
      /\ at'[a] = cursor[b] + 1
      /\ pc'[a] = IF cursor[b] + 1 >= Len(sets[b]) THEN "wrap" ELSE "pick"
  BY <1>1 DEF TypeOK
<1>3. TypeOK'
  <2>1. cursor' \in [Buckets -> Nat] /\ at' \in [Askers -> Nat]
    BY <1>0, <1>1 DEF TypeOK
  <2>2. pc' \in [Askers -> Pcs]
    BY <1>1 DEF TypeOK, Pcs
  <2>. QED BY <1>1, <2>1, <2>2 DEF TypeOK, Pcs
<1>4. BucketsOK'
  <2>1. \A c \in Buckets : c > made => cursor'[c] = 0
    BY <1>0, <1>1 DEF BucketsOK, InUse, Buckets, TypeOK
  <2>2. \A c : InUse(c)' <=> InUse(c)
    BY <1>1 DEF InUse
  <2>3. \A o \in Askers : pc'[o] # "idle" => my'[o] # Nil
    BY <1>1, <1>2, <1>0 DEF BucketsOK
  <2>. QED BY <1>1, <2>1, <2>2, <2>3 DEF BucketsOK
<1>5. CursorBound'
  <2> SUFFICES ASSUME NEW c \in Buckets
               PROVE  cursor'[c] = 0 \/ cursor'[c] < Len(sets[c]) + Cardinality(Wrapping(c)')
    BY <1>1 DEF CursorBound
  <2>1. CASE c # b
    <3>1. Wrapping(c)' = Wrapping(c) /\ cursor'[c] = cursor[c]
      BY <1>1, <1>2, <2>1 DEF Wrapping, TypeOK
    <3>. QED BY <3>1 DEF CursorBound
  <2>2. CASE c = b
    <3>1. IsFiniteSet(Wrapping(b)) /\ a \notin Wrapping(b)
      BY <1>0, FS_Subset, ConstantsAssumption DEF Wrapping
    <3>2. Cardinality(Wrapping(b)) \in Nat
      BY <3>1, FS_CardinalityType
    <3>3. CASE cursor[b] + 1 >= Len(sets[b])
      <4>1. Wrapping(b)' = Wrapping(b) \cup {a}
        BY <1>1, <1>2, <3>3 DEF Wrapping
      <4>2. Cardinality(Wrapping(b)') = Cardinality(Wrapping(b)) + 1
        BY <3>1, <4>1, FS_AddElement
      <4>. QED BY <1>0, <1>1, <2>2, <3>2, <4>2 DEF CursorBound
    <3>4. CASE ~(cursor[b] + 1 >= Len(sets[b]))
      <4>1. Wrapping(b)' = Wrapping(b)
        BY <1>0, <1>1, <1>2, <3>4 DEF Wrapping
      <4>. QED BY <1>0, <1>1, <2>2, <3>2, <3>4, <4>1
    <3>. QED BY <3>3, <3>4
  <2>. QED BY <2>1, <2>2
<1>6. PositionsOK'
  BY <1>0, <1>1, <1>2 DEF PositionsOK, Lenght
<1>. QED BY <1>3, <1>4, <1>5, <1>6

\* The reset of bucket.next.
LEMMA Next2Inv ==
  ASSUME Inv, NEW a \in Askers, Next2(a)
  PROVE  Inv'
<1> USE DEF Inv
<1> DEFINE b == my[a]
<1>0. /\ b \in Buckets /\ InUse(b) /\ pc[a] = "wrap"
      /\ Len(sets[b]) \in Nat /\ Len(sets[b]) > 0
  BY EmptySeq DEF Next2, BucketsOK, TypeOK, InUse
<1>1. /\ cursor' = [cursor EXCEPT ![b] = 0]
      /\ at' = [at EXCEPT ![a] = 0]
      /\ pc' = [pc EXCEPT ![a] = "pick"]
      /\ UNCHANGED <<channel, made, sets, accepts, my, got, picked, asked, due>>
  BY DEF Next2, Goto, bucketVars, Stored, FirstCursor
<1>2. /\ \A o \in Askers \ {a} : at'[o] = at[o] /\ pc'[o] = pc[o]
      /\ at'[a] = 0 /\ pc'[a] = "pick"
  BY <1>1 DEF TypeOK
<1>3. TypeOK'
  <2>1. cursor' \in [Buckets -> Nat] /\ at' \in [Askers -> Nat]
    BY <1>1 DEF TypeOK
  <2>2. pc' \in [Askers -> Pcs]
    BY <1>1 DEF TypeOK, Pcs
  <2>. QED BY <1>1, <2>1, <2>2 DEF TypeOK, Pcs
<1>4. BucketsOK'
  <2>1. \A c \in Buckets : c > made => cursor'[c] = 0
    BY <1>1 DEF BucketsOK, TypeOK
  <2>2. \A c : InUse(c)' <=> InUse(c)
    BY <1>1 DEF InUse
  <2>3. \A o \in Askers : pc'[o] # "idle" => my'[o] # Nil
    BY <1>1, <1>2, <1>0 DEF BucketsOK
  <2>. QED BY <1>1, <2>1, <2>2, <2>3 DEF BucketsOK
<1>5. CursorBound'
  <2>1. cursor'[b] = 0
    BY <1>0, <1>1 DEF TypeOK
  <2>2. \A c \in Buckets \ {b} : cursor'[c] = cursor[c] /\ Wrapping(c)' = Wrapping(c)
    BY <1>1, <1>2 DEF TypeOK, Wrapping
  <2>. QED BY <1>1, <2>1, <2>2 DEF CursorBound
<1>6. PositionsOK'
  BY <1>0, <1>1, <1>2 DEF PositionsOK, Lenght
<1>. QED BY <1>3, <1>4, <1>5, <1>6

\* Every other step of an asker leaves the cursors and, for Specify, takes no
\* bucket.
LEMMA OtherInv ==
  ASSUME Inv, NEW a \in Askers,
         Pick(a) \/ AllStep(a) \/ \E id \in Ids : Specify(a, id)
  PROVE  Inv'
<1> USE DEF Inv
<1>1. UNCHANGED <<channel, made, sets, cursor, accepts>>
  BY DEF Pick, AllStep, Specify, bucketVars
<1>2. /\ pc' \in [Askers -> Pcs] /\ my' \in [Askers -> Buckets \cup {Nil}]
      /\ \A o \in Askers \ {a} : pc'[o] = pc[o] /\ my'[o] = my[o] /\ at'[o] = at[o]
      /\ pc[a] # "wrap" /\ pc'[a] # "wrap"
  BY DEF Pick, AllStep, Specify, Goto, TypeOK, Pcs
<1>3. /\ at' \in [Askers -> Nat] /\ picked' \in [Buckets -> Int]
      /\ asked' \subseteq Askers /\ due' \in [Askers -> SUBSET Ids]
  <2>1. CASE Pick(a) \/ AllStep(a)
    <3>1. /\ my[a] \in Buckets /\ at[a] \in Nat
          /\ asked' = asked /\ due' = due
          /\ at' = at \/ at' = [at EXCEPT ![a] = at[a] + 1]
          /\ picked' = picked \/ picked' = [picked EXCEPT ![my[a]] = at[a]]
      BY <2>1, IdType DEF Pick, AllStep, After
    <3>. QED BY <3>1 DEF TypeOK
  <2>2. CASE \E id \in Ids : Specify(a, id)
    BY <2>2 DEF Specify, TypeOK
  <2>. QED BY <2>1, <2>2
<1>4. got' \in [Askers -> Seq(Ids)]
  <2>1. CASE Pick(a) \/ AllStep(a)
    <3>1. Id(a) \in Ids /\ got[a] \in Seq(Ids)
      BY <2>1, IdType DEF Pick, AllStep, TypeOK
    <3>2. Append(got[a], Id(a)) \in Seq(Ids)
      BY <3>1, AppendProperties
    <3>. QED BY <2>1, <3>2 DEF Pick, AllStep, TypeOK
  <2>2. ASSUME NEW id \in Ids, Specify(a, id) PROVE got' \in [Askers -> Seq(Ids)]
    <3>1. <<id>> \in Seq(Ids) /\ <<>> \in Seq(Ids)
      OBVIOUS
    <3>. QED BY <2>2, <3>1 DEF Specify, TypeOK
  <2>. QED BY <2>1, <2>2
<1>5. TypeOK'
  BY <1>1, <1>2, <1>3, <1>4 DEF TypeOK, Pcs
<1>6. /\ my'[a] # Nil => my'[a] = my[a]
      /\ pc'[a] # "idle" => my'[a] # Nil
  BY DEF Pick, AllStep, Specify, Goto, TypeOK, BucketsOK
<1>7. BucketsOK'
  <2>1. \A b : InUse(b)' <=> InUse(b)
    BY <1>1 DEF InUse
  <2>. QED BY <1>1, <1>2, <1>6, <2>1 DEF BucketsOK
<1>8. CursorBound'
  <2>1. \A b \in Buckets : Wrapping(b)' = Wrapping(b)
    BY <1>2 DEF Wrapping
  <2>. QED BY <1>1, <2>1 DEF CursorBound
<1>9. PositionsOK'
  <2>1. pc'[a] \in {"pick", "all"} => my'[a] = my[a] /\ at'[a] < Len(sets[my[a]])
    BY DEF Pick, AllStep, Specify, Goto, TypeOK, Lenght
  <2>. QED BY <1>1, <1>2, <2>1 DEF PositionsOK, Lenght
<1>. QED BY <1>5, <1>7, <1>8, <1>9

\* The first bucket is made, and no cursor has moved.
LEMMA InitInv == Init => Inv
<1> SUFFICES ASSUME Init PROVE Inv
  OBVIOUS
<1>0. 1 \in Buckets /\ FirstSets \in Seq(Ids) /\ FirstSets # <<>> /\ <<>> \in Seq(Ids)
  BY ConstantsAssumption DEF Buckets
<1>1. sets \in [Buckets -> Seq(Ids)] /\ sets[1] = FirstSets
  BY <1>0 DEF Init
<1>2. channel = 1 /\ made = 1 /\ accepts = Ids
  BY DEF Init
<1>3. /\ cursor \in [Buckets -> Nat] /\ picked \in [Buckets -> Int]
      /\ pc \in [Askers -> Pcs] /\ my \in [Askers -> Buckets \cup {Nil}]
      /\ at \in [Askers -> Nat] /\ asked \subseteq Askers
      /\ got \in [Askers -> Seq(Ids)] /\ due \in [Askers -> SUBSET Ids]
  BY <1>0 DEF Init, Pcs
<1>4. TypeOK
  BY <1>0, <1>1, <1>2, <1>3 DEF TypeOK, Pcs
<1>5. /\ \A b \in Buckets : cursor[b] = 0
      /\ \A a \in Askers : pc[a] = "idle" /\ my[a] = Nil
  BY DEF Init
<1>6. BucketsOK /\ CursorBound /\ PositionsOK
  BY <1>0, <1>1, <1>2, <1>5 DEF BucketsOK, CursorBound, PositionsOK, InUse
<1>. QED BY <1>4, <1>6 DEF Inv

\* Types and bounds are an inductive invariant.
LEMMA NextInv == Inv /\ [Next]_vars => Inv'
<1> SUFFICES ASSUME Inv, [Next]_vars PROVE Inv'
  OBVIOUS
<1>1. ASSUME NEW id \in Ids, AddId(id) PROVE Inv'
  <2>1. Current \in Seq(Ids)
    BY DEF Current, Inv, TypeOK
  <2>2. Append(Current, id) \in Seq(Ids)
    BY <2>1, AppendProperties
  <2>. QED BY <1>1, <2>2, InstallInv DEF AddId
<1>2. ASSUME NEW id \in Ids, RemoveId(id) PROVE Inv'
  <2>1. Current \in Seq(Ids)
    BY DEF Current, Inv, TypeOK
  <2>. QED BY <1>2, <2>1, WithoutType, InstallInv DEF RemoveId
<1>3. ASSUME NEW id \in Ids, SessionDies(id) \/ SessionLives(id) PROVE Inv'
  <2>1. UNCHANGED <<channel, made, sets, cursor, pc, my, at, got, picked, asked>>
        /\ accepts' \subseteq Ids /\ due' \in [Askers -> SUBSET Ids]
    BY <1>3 DEF SessionDies, SessionLives, bucketVars, askVars, Inv, TypeOK
  <2>2. TypeOK'
    BY <2>1 DEF Inv, TypeOK
  <2>3. BucketsOK' /\ PositionsOK'
    BY <2>1 DEF Inv, BucketsOK, PositionsOK, InUse, Lenght
  <2>4. CursorBound'
    BY <2>1 DEF Inv, CursorBound, Wrapping
  <2>. QED BY <2>2, <2>3, <2>4 DEF Inv
<1>4. CASE UNCHANGED vars
  <2>1. UNCHANGED <<channel, made, sets, cursor, accepts, pc, my, at, got, picked, asked, due>>
    BY <1>4 DEF vars, bucketVars, askVars
  <2>. QED BY <2>1 DEF Inv, TypeOK, BucketsOK, CursorBound, PositionsOK, InUse,
                       Lenght, Wrapping
<1>. QED BY <1>1, <1>2, <1>3, <1>4, BeginInv, Next1Inv, Next2Inv, OtherInv
         DEF Next, AskOne, AskAll, Ask

\* Every variable keeps its type, the position of a pick among them.
THEOREM InvCorrect == Spec => []Inv
BY InitInv, NextInv, PTL DEF Spec

\* The types are the first part of that invariant.
THEOREM TypeCorrect == Spec => []TypeOK
<1>1. Inv => TypeOK
  BY DEF Inv
<1>. QED BY <1>1, InvCorrect, PTL

\* b.sets[cursor] is in range for every interleaving of the askers' additions and
\* resets, and the cursor passes the length by at most one per asker.
THEOREM IndexIsInRange == Spec => []IndexInRange
<1>1. Inv => IndexInRange
  <2> SUFFICES ASSUME Inv, NEW b \in Buckets
               PROVE  cursor[b] <= Len(sets[b]) + Cardinality(Askers)
    BY DEF IndexInRange, Inv, PositionsOK
  <2>1. IsFiniteSet(Askers) /\ Wrapping(b) \in SUBSET Askers
    BY ConstantsAssumption DEF Wrapping
  <2>2. /\ Cardinality(Wrapping(b)) <= Cardinality(Askers)
        /\ Cardinality(Wrapping(b)) \in Nat /\ Cardinality(Askers) \in Nat
    BY <2>1, FS_Subset, FS_CardinalityType
  <2>3. cursor[b] \in Nat /\ Len(sets[b]) \in Nat
    BY LenProperties DEF Inv, TypeOK
  <2>. QED BY <2>2, <2>3 DEF Inv, CursorBound
<1>. QED BY <1>1, InvCorrect, PTL

----------------------------------------------------------------------------
(* Who gets a request                                                       *)

\* Counting an id in a list that is empty, or grows by one entry.
LEMMA CountAppend ==
  ASSUME NEW s \in Seq(Ids), NEW x \in Ids, NEW id \in Ids
  PROVE  /\ Count(<<>>, id) = 0
         /\ Count(s, id) \in Nat
         /\ Count(Append(s, x), id) = Count(s, id) + IF x = id THEN 1 ELSE 0
<1> DEFINE A == {i \in DOMAIN s : s[i] = id}
           B == {i \in DOMAIN Append(s, x) : Append(s, x)[i] = id}
<1>1. /\ DOMAIN s = 1 .. Len(s) /\ Len(s) \in Nat
      /\ Append(s, x) \in Seq(Ids) /\ Len(Append(s, x)) = Len(s) + 1
      /\ DOMAIN Append(s, x) = 1 .. Len(s) + 1
      /\ \A i \in 1 .. Len(s) : Append(s, x)[i] = s[i]
      /\ Append(s, x)[Len(s) + 1] = x
  BY AppendProperties, LenProperties
<1>2. IsFiniteSet(A) /\ Cardinality(A) \in Nat
  <2>1. IsFiniteSet(1 .. Len(s)) /\ A \in SUBSET (1 .. Len(s))
    BY <1>1, FS_Interval
  <2>. QED BY <2>1, FS_Subset, FS_CardinalityType
<1>3. Count(<<>>, id) = 0
  <2>1. {i \in DOMAIN <<>> : <<>>[i] = id} = {}
    OBVIOUS
  <2>. QED BY <2>1, FS_EmptySet DEF Count
<1>4. Count(s, id) = Cardinality(A) /\ Count(Append(s, x), id) = Cardinality(B)
  BY DEF Count
<1>5. Cardinality(B) = Cardinality(A) + IF x = id THEN 1 ELSE 0
  <2>1. CASE x = id
    <3>1. B = A \cup {Len(s) + 1} /\ Len(s) + 1 \notin A
      BY <1>1, <2>1
    <3> HIDE DEF A, B
    <3>. QED BY <1>2, <2>1, <3>1, FS_AddElement
  <2>2. CASE x # id
    <3>1. B = A
      BY <1>1, <2>2
    <3> HIDE DEF A, B
    <3>. QED BY <1>2, <2>2, <3>1
  <2>. QED BY <2>1, <2>2
<1> HIDE DEF A, B
<1>. QED BY <1>2, <1>3, <1>4, <1>5

\* Counting an id in a list passed up to an entry, and in the whole list.
LEMMA CountPassed ==
  ASSUME NEW s \in Seq(Ids), NEW n \in 0 .. Len(s) - 1, NEW id \in Ids
  PROVE  LET P(k) == Cardinality({i \in 1 .. k : s[i] = id}) IN
         /\ P(n) \in Nat /\ P(n + 1) <= Count(s, id) /\ P(n + 1) \in Nat
         /\ P(n + 1) = P(n) + IF s[n + 1] = id THEN 1 ELSE 0
<1> DEFINE A == {i \in 1 .. n : s[i] = id}
           B == {i \in 1 .. n + 1 : s[i] = id}
           C == {i \in DOMAIN s : s[i] = id}
<1>1. /\ DOMAIN s = 1 .. Len(s) /\ Len(s) \in Nat /\ n \in Nat /\ n + 1 <= Len(s)
  BY LenProperties
<1>2. /\ IsFiniteSet(A) /\ IsFiniteSet(B) /\ IsFiniteSet(C)
  <2>1. IsFiniteSet(1 .. n) /\ IsFiniteSet(1 .. n + 1) /\ IsFiniteSet(1 .. Len(s))
    BY <1>1, FS_Interval
  <2>. QED BY <1>1, <2>1, FS_Subset
<1>3. /\ Cardinality(A) \in Nat /\ Cardinality(B) \in Nat /\ Cardinality(C) \in Nat
  BY <1>2, FS_CardinalityType
<1>4. Cardinality(B) <= Cardinality(C)
  <2>1. B \in SUBSET C
    BY <1>1
  <2>. QED BY <1>2, <2>1, FS_Subset
<1>5. Cardinality(B) = Cardinality(A) + IF s[n + 1] = id THEN 1 ELSE 0
  <2>1. CASE s[n + 1] = id
    <3>1. B = A \cup {n + 1} /\ n + 1 \notin A
      BY <1>1, <2>1
    <3>. QED BY <1>2, <2>1, <3>1, FS_AddElement
  <2>2. CASE s[n + 1] # id
    <3>1. B = A
      BY <1>1, <2>2
    <3> HIDE DEF A, B
    <3>. QED BY <1>3, <2>2, <3>1
  <2>. QED BY <2>1, <2>2
<1>. QED BY <1>3, <1>4, <1>5 DEF Count

\* A step of something else leaves what an asker has sent.
LEMMA SentFrame ==
  ASSUME NEW o \in Askers, SentBy(o), due'[o] \subseteq due[o],
         due'[o] \subseteq accepts',
         pc'[o] = pc[o], my'[o] = my[o], at'[o] = at[o], got'[o] = got[o],
         my[o] # Nil => sets'[my[o]] = sets[my[o]], pc[o] # "idle" => my[o] # Nil
  PROVE  SentBy(o)'
<1>1. CASE my[o] = Nil
  BY <1>1 DEF SentBy
<1>2. CASE my[o] # Nil
  BY <1>2 DEF SentBy, Passed
<1>. QED BY <1>1, <1>2

\* cluster.Run makes a new bucket and lets the made ones be.
LEMMA InstallSent ==
  ASSUME Inv, SentSoFar, NEW s, Install(s)
  PROVE  SentSoFar'
<1>1. /\ made' = made + 1 /\ sets' = [sets EXCEPT ![made + 1] = s]
      /\ UNCHANGED <<accepts, pc, my, at, got, due>>
  BY DEF Install, askVars
<1>2. ASSUME NEW o \in Askers PROVE SentBy(o)'
  <2>1. my[o] # Nil => sets'[my[o]] = sets[my[o]]
    BY <1>1 DEF Inv, BucketsOK, InUse, TypeOK, Buckets, Nil
  <2>2. pc[o] # "idle" => my[o] # Nil
    BY DEF Inv, BucketsOK
  <2>3. due'[o] \subseteq due[o] /\ due'[o] \subseteq accepts'
    BY <1>1 DEF SentSoFar, SentBy
  <2>. QED BY <1>1, <2>1, <2>2, <2>3, SentFrame DEF SentSoFar
<1>. QED BY <1>2 DEF SentSoFar

\* What a step of one asker does to what it has sent.
LEMMA AskerSent ==
  ASSUME Inv, SentSoFar, NEW a \in Askers,
         \/ AskOne(a) \/ AskAll(a) \/ Ask(a)
         \/ \E id \in Ids : Specify(a, id)
  PROVE  SentBy(a)'
<1>0. /\ SentBy(a) /\ got[a] \in Seq(Ids) /\ a \in Askers
      /\ pc \in [Askers -> Pcs] /\ my \in [Askers -> Buckets \cup {Nil}]
      /\ at \in [Askers -> Nat] /\ got \in [Askers -> Seq(Ids)]
      /\ due \in [Askers -> SUBSET Ids]
      /\ \A b \in Buckets : sets[b] \in Seq(Ids)
  BY DEF SentSoFar, Inv, TypeOK, Pcs
<1>1. ASSUME NEW l \in {"next", "all"}, Begin(a, l) PROVE SentBy(a)'
  <2>1. /\ got'[a] = <<>> /\ at'[a] = 0 /\ my'[a] = channel
        /\ pc'[a] = IF channel = Nil THEN "idle" ELSE l
        /\ sets' = sets /\ accepts' = accepts
        /\ channel \in Buckets \cup {Nil}
        /\ due'[a] = IF l = "all" THEN Range(Current) \cap accepts ELSE {}
    BY <1>0, <1>1 DEF Begin, Goto, bucketVars, Inv, TypeOK
  <2>2. ASSUME NEW id \in Ids PROVE Count(got'[a], id) = 0 /\ Passed(a, id)' = 0
    <3>1. Count(<<>>, id) = 0
      BY <1>0, CountAppend
    <3>2. {i \in 1 .. at'[a] : sets'[my'[a]][i] = id} = {}
      BY <2>1
    <3>. QED BY <2>1, <3>1, <3>2, FS_EmptySet DEF Passed
  <2>3. my'[a] # Nil => \A id \in Ids : Count(sets'[my'[a]], id) \in Nat
    BY <1>0, <2>1, CountAppend
  <2>4. channel = Nil => due'[a] = {}
    BY <2>1 DEF Current, Range
  <2>5. channel # Nil => \A id \in due'[a] : \E i \in 1 .. Len(sets[channel]) : sets[channel][i] = id
    <3>1. channel # Nil => DOMAIN sets[channel] = 1 .. Len(sets[channel])
      BY <1>0, <2>1, LenProperties
    <3>. QED BY <2>1, <3>1 DEF Current, Range
  <2>6. due'[a] \subseteq accepts'
    BY <2>1
  <2>. QED BY <2>1, <2>2, <2>3, <2>4, <2>5, <2>6 DEF SentBy
<1>2. CASE Next1(a) \/ Next2(a)
  <2>1. /\ pc[a] \in {"next", "wrap"} /\ pc'[a] \in {"wrap", "pick"}
        /\ UNCHANGED <<sets, my, got, due, accepts>>
    BY <1>0, <1>2 DEF Next1, Next2, Goto, bucketVars
  <2>. QED BY <1>0, <2>1 DEF SentBy
<1>3. CASE Pick(a)
  <2>1. /\ pc[a] = "pick" /\ pc'[a] \in {"idle", "next"} /\ got[a] = <<>>
        /\ UNCHANGED <<sets, my, due, accepts>> /\ due[a] = {}
        /\ \/ got'[a] = Append(<<>>, Id(a)) /\ pc'[a] = "idle"
           \/ got'[a] = <<>>
    BY <1>0, <1>3 DEF Pick, Goto, bucketVars, SentBy
  <2> DEFINE t == sets[my[a]]
  <2>2. Id(a) \in Ids /\ t \in Seq(Ids) /\ at[a] \in 0 .. Len(t) - 1 /\ Id(a) = t[at[a] + 1]
    BY <2>1, IdType, LenProperties DEF Id
  <2>3. ASSUME NEW id \in Ids PROVE Count(got'[a], id) <= Count(t, id)
    <3>0. <<>> \in Seq(Ids)
      BY EmptySeq
    <3>1. /\ Count(<<>>, id) = 0 /\ Count(t, id) \in Nat
          /\ Count(Append(<<>>, Id(a)), id) = Count(<<>>, id) + IF Id(a) = id THEN 1 ELSE 0
      BY <2>2, <3>0, CountAppend
    <3>2. Id(a) = id => Count(t, id) >= 1
      <4> DEFINE P(k) == Cardinality({i \in 1 .. k : t[i] = id})
                 n == at[a]
      <4>1. /\ P(n) \in Nat /\ P(n + 1) <= Count(t, id)
            /\ P(n + 1) = P(n) + IF t[n + 1] = id THEN 1 ELSE 0
        BY <2>2, CountPassed
      <4> HIDE DEF P
      <4>. QED BY <2>2, <3>1, <4>1
    <3>. QED BY <2>1, <3>1, <3>2
  <2>. QED BY <2>1, <2>3 DEF SentBy
<1>4. CASE AllStep(a)
  <2> DEFINE t == sets[my[a]]
             n == at[a]
  <2>1. /\ pc[a] = "all" /\ at'[a] = n + 1
        /\ pc'[a] = IF n + 1 < Len(t) THEN "all" ELSE "idle"
        /\ got'[a] = IF Id(a) \in accepts THEN Append(got[a], Id(a)) ELSE got[a]
        /\ UNCHANGED <<sets, my, accepts, due>>
    BY <1>0, <1>4 DEF AllStep, After, Goto, bucketVars, Lenght
  <2>2. Id(a) \in Ids /\ t \in Seq(Ids) /\ n \in 0 .. Len(t) - 1 /\ Id(a) = t[n + 1]
    BY <2>1, IdType, LenProperties DEF Id
  <2>3. ASSUME NEW id \in Ids
        PROVE  Count(got'[a], id) <= Passed(a, id)' /\ Count(got'[a], id) <= Count(t, id)
    <3>1. /\ Count(got[a], id) \in Nat /\ Count(t, id) \in Nat
          /\ Count(Append(got[a], Id(a)), id) =
               Count(got[a], id) + IF Id(a) = id THEN 1 ELSE 0
      BY <1>0, <2>2, CountAppend
    <3>2. Count(got[a], id) <= Passed(a, id)
      BY <1>0, <2>1 DEF SentBy
    <3>3. /\ Passed(a, id) \in Nat /\ Passed(a, id)' \in Nat
          /\ Passed(a, id)' <= Count(t, id)
          /\ Passed(a, id)' = Passed(a, id) + IF t[n + 1] = id THEN 1 ELSE 0
      <4> DEFINE P(k) == Cardinality({i \in 1 .. k : t[i] = id})
      <4>1. /\ P(n) \in Nat /\ P(n + 1) <= Count(t, id) /\ P(n + 1) \in Nat
            /\ P(n + 1) = P(n) + IF t[n + 1] = id THEN 1 ELSE 0
        BY <2>2, CountPassed
      <4>2. Passed(a, id) = P(n) /\ Passed(a, id)' = P(n + 1)
        BY <2>1 DEF Passed
      <4>. QED BY <4>1, <4>2
    <3>. QED BY <2>1, <2>2, <3>1, <3>2, <3>3
  <2>4. /\ Range(got[a]) \subseteq Range(got'[a])
        /\ Id(a) \in accepts => Id(a) \in Range(got'[a])
    <3>1. /\ DOMAIN Append(got[a], Id(a)) = 1 .. Len(got[a]) + 1 /\ Len(got[a]) \in Nat
          /\ DOMAIN got[a] = 1 .. Len(got[a])
          /\ \A k \in 1 .. Len(got[a]) : Append(got[a], Id(a))[k] = got[a][k]
          /\ Append(got[a], Id(a))[Len(got[a]) + 1] = Id(a)
      BY <1>0, <2>2, AppendProperties, LenProperties
    <3>2. Range(got[a]) \subseteq Range(Append(got[a], Id(a)))
      BY <3>1 DEF Range
    <3>3. Id(a) \in Range(Append(got[a], Id(a)))
      BY <3>1 DEF Range
    <3>. QED BY <2>1, <3>2, <3>3
  <2>5. ASSUME NEW id \in due'[a]
        PROVE  id \in Range(got'[a]) \/ \E i \in n + 2 .. Len(t) : t[i] = id
    <3>1. /\ id \in accepts
          /\ id \in Range(got[a]) \/ \E i \in n + 1 .. Len(t) : t[i] = id
      BY <1>0, <2>1, <2>5 DEF SentBy
    <3>2. ASSUME NEW i \in n + 1 .. Len(t), t[i] = id
          PROVE  id = Id(a) \/ \E j \in n + 2 .. Len(t) : t[j] = id
      <4>1. i = n + 1 \/ i \in n + 2 .. Len(t)
        BY <2>2, LenProperties
      <4>. QED BY <2>2, <3>2, <4>1
    <3>. QED BY <2>4, <3>1, <3>2
  <2>6. pc'[a] = "idle" => n + 2 .. Len(t) = {}
    BY <2>1, <2>2, LenProperties
  <2>7. pc'[a] = "idle" => due'[a] \subseteq Range(got'[a])
    BY <2>5, <2>6
  <2>8. at'[a] + 1 = n + 2 /\ sets'[my'[a]] = t /\ pc'[a] \in {"all", "idle"}
    BY <2>1, <2>2
  <2>9. due'[a] \subseteq accepts'
    BY <1>0, <2>1 DEF SentBy
  <2>. QED BY <2>3, <2>5, <2>7, <2>8, <2>9 DEF SentBy
<1>5. ASSUME NEW id \in Ids, Specify(a, id) PROVE SentBy(a)'
  <2>1. my'[a] = Nil /\ pc'[a] = "idle" /\ due'[a] = {}
    BY <1>0, <1>5 DEF Specify
  <2>. QED BY <2>1 DEF SentBy
<1>. QED BY <1>1, <1>2, <1>3, <1>4, <1>5 DEF AskOne, AskAll, Ask

\* Every step keeps what is said of the requests sent so far.
LEMMA NextSent == Inv /\ SentSoFar /\ [Next]_vars => SentSoFar'
<1> SUFFICES ASSUME Inv, SentSoFar, [Next]_vars PROVE SentSoFar'
  OBVIOUS
<1>0. \A o \in Askers : pc[o] # "idle" => my[o] # Nil
  BY DEF Inv, BucketsOK
<1>1. ASSUME NEW id \in Ids, AddId(id) \/ RemoveId(id) PROVE SentSoFar'
  BY <1>1, InstallSent DEF AddId, RemoveId
<1>2. CASE \/ \E id \in Ids : SessionDies(id) \/ SessionLives(id)
           \/ UNCHANGED vars
  <2>1. UNCHANGED <<sets, pc, my, at, got>>
    BY <1>2 DEF SessionDies, SessionLives, bucketVars, askVars, vars
  <2>2. \A o \in Askers : due[o] \subseteq accepts
    BY DEF SentSoFar, SentBy
  <2>3. \A o \in Askers : due'[o] \subseteq due[o] /\ due'[o] \subseteq accepts'
    BY <1>2, <2>2 DEF SessionDies, SessionLives, vars
  <2>. QED BY <1>0, <2>1, <2>3, SentFrame DEF SentSoFar
<1>3. ASSUME NEW a \in Askers,
             \/ AskOne(a) \/ AskAll(a) \/ Ask(a)
             \/ \E id \in Ids : Specify(a, id)
      PROVE  SentSoFar'
  <2>1. /\ UNCHANGED <<sets, accepts>>
        /\ \A o \in Askers \ {a} : /\ pc'[o] = pc[o] /\ my'[o] = my[o]
                                   /\ at'[o] = at[o] /\ got'[o] = got[o]
                                   /\ due'[o] = due[o]
    BY <1>3 DEF AskOne, AskAll, Begin, Ask, Next1, Next2, Pick, AllStep, Specify,
                Goto, bucketVars, Inv, TypeOK
  <2>2. ASSUME NEW o \in Askers \ {a} PROVE SentBy(o)'
    <3>1. due'[o] \subseteq due[o] /\ due'[o] \subseteq accepts'
      BY <2>1 DEF SentSoFar, SentBy
    <3>. QED BY <1>0, <2>1, <3>1, SentFrame DEF SentSoFar
  <2>. QED BY <1>3, <2>2, AskerSent DEF SentSoFar
<1>. QED BY <1>1, <1>2, <1>3 DEF Next

\* A request names nodes of the bucket it loaded, each entry at most once, and an
\* AskAll that has returned has reached every node that accepted frames all the
\* while, the last entry and the only one included.
THEOREM RequestsGoToBucket == Spec => []SentToBucket
<1>1. Init => SentSoFar
  BY DEF Init, SentSoFar, SentBy
<1>2. SentSoFar => SentToBucket
  BY DEF SentSoFar, SentBy, SentToBucket, Count
<1>. QED BY <1>1, <1>2, NextSent, InvCorrect, PTL DEF Spec

----------------------------------------------------------------------------
(* The nodes in turn                                                        *)

\* A step of one asker keeps the turns of the buckets it alone has asked.
LEMMA AskerTurn ==
  ASSUME Inv, Turns, NEW a \in Askers, Alone(a),
         \/ AskOne(a) \/ AskAll(a) \/ Ask(a)
         \/ \E id \in Ids : Specify(a, id)
  PROVE  \A b \in Buckets : InTurn(a, b)'
<1>0. /\ pc \in [Askers -> Pcs] /\ my \in [Askers -> Buckets \cup {Nil}]
      /\ at \in [Askers -> Nat] /\ cursor \in [Buckets -> Nat]
      /\ picked \in [Buckets -> Int]
      /\ \A b \in Buckets : sets[b] \in Seq(Ids) /\ Len(sets[b]) \in Nat
      /\ \A b \in Buckets : InTurn(a, b)
  BY LenProperties DEF Inv, TypeOK, Pcs, Turns
<1>1. /\ sets' = sets
      /\ \A b \in Buckets : b # my[a] => cursor'[b] = cursor[b] /\ picked'[b] = picked[b]
  BY <1>0 DEF AskOne, AskAll, Begin, Ask, Next1, Next2, Pick, AllStep, Specify,
              bucketVars
<1>2. CASE AskOne(a) \/ AskAll(a) \/ AllStep(a) \/ \E id \in Ids : Specify(a, id)
  <2>1. /\ pc[a] \notin {"wrap", "pick"} /\ pc'[a] \notin {"wrap", "pick"}
        /\ UNCHANGED <<cursor, picked>>
    BY <1>0, <1>2 DEF AskOne, AskAll, Begin, AllStep, Specify, Goto
  <2>. QED BY <1>0, <1>1, <2>1 DEF InTurn
<1>3. CASE Next1(a) \/ Next2(a) \/ Pick(a)
  <2> DEFINE b == my[a]
             L == Len(sets[b])
  <2>1. /\ b \in Buckets /\ my' = my /\ L \in Nat /\ L > 0
        /\ at[a] \in Nat /\ cursor[b] \in Nat /\ picked[b] \in Int
    BY <1>0, <1>3, EmptySeq DEF Next1, Next2, Pick, Inv, BucketsOK, InUse
  <2>2. ASSUME NEW c \in Buckets, c # b PROVE InTurn(a, c)'
    BY <1>0, <1>1, <2>1, <2>2 DEF InTurn
  <2>3. ASSUME NEW c \in Buckets, c = b PROVE InTurn(a, c)'
    <3>1. CASE Next1(a)
      <4>1. /\ pc[a] = "next" /\ cursor'[b] = cursor[b] + 1 /\ at'[a] = cursor[b] + 1
            /\ pc'[a] = IF cursor[b] + 1 >= L THEN "wrap" ELSE "pick"
            /\ picked' = picked
        BY <1>0, <2>1, <3>1 DEF Next1, Goto, Wraps, Lenght
      <4>. QED BY <1>0, <1>1, <2>1, <2>3, <4>1 DEF InTurn
    <3>2. CASE Next2(a)
      <4>1. /\ pc[a] = "wrap" /\ cursor'[b] = 0 /\ at'[a] = 0 /\ pc'[a] = "pick"
            /\ picked' = picked
        BY <1>0, <2>1, <3>2 DEF Next2, Goto, Stored, FirstCursor
      <4>. QED BY <1>0, <1>1, <2>1, <2>3, <4>1 DEF InTurn
    <3>3. CASE Pick(a)
      <4>1. /\ pc[a] = "pick" /\ picked'[b] = at[a] /\ pc'[a] \in {"idle", "next"}
            /\ cursor' = cursor
        BY <1>0, <2>1, <3>3 DEF Pick, Goto
      <4>2. at[a] < L
        BY <4>1 DEF Inv, PositionsOK, Lenght
      <4>. QED BY <1>0, <1>1, <2>1, <2>3, <4>1, <4>2 DEF InTurn
    <3>. QED BY <1>3, <3>1, <3>2, <3>3
  <2>. QED BY <2>2, <2>3
<1>. QED BY <1>2, <1>3 DEF Ask

\* Every step keeps the turns.
LEMMA NextTurn == Inv /\ Turns /\ [Next]_vars => Turns'
<1> SUFFICES ASSUME Inv, Turns, [Next]_vars PROVE Turns'
  OBVIOUS
<1>0. /\ asked \subseteq Askers /\ made \in Nat
      /\ pc \in [Askers -> Pcs] /\ my \in [Askers -> Buckets \cup {Nil}]
      /\ picked \in [Buckets -> Int]
  BY DEF Inv, TypeOK, Buckets, Pcs
<1>1. ASSUME NEW s, Install(s) PROVE Turns'
  <2>1. /\ made' = made + 1 /\ sets' = [sets EXCEPT ![made + 1] = s]
        /\ made + 1 \in Buckets /\ s = sets'[made + 1]
        /\ UNCHANGED <<cursor, pc, my, at, asked, picked>>
    BY <1>0, <1>1, ConstantsAssumption DEF Install, askVars, Inv, TypeOK, Buckets
  <2>2. ASSUME NEW a \in Askers, Alone(a)', NEW b \in Buckets PROVE InTurn(a, b)'
    <3>1. InTurn(a, b)
      BY <2>1, <2>2 DEF Turns, Alone
    <3>2. CASE b = made + 1
      <4>1. picked[b] = -1 /\ cursor[b] = 0 /\ my[a] # b
        <5>1. b > made /\ b # Nil /\ b \in Buckets
          BY <1>0, <2>1, <3>2 DEF Buckets, Nil
        <5>2. picked[b] = -1
          BY <5>1 DEF Turns
        <5>3. cursor[b] = 0 /\ my[a] # b
          <6>1. ~(b <= made)
            BY <1>0, <5>1 DEF Buckets
          <6>2. /\ b > made => cursor[b] = 0
                /\ my[a] # Nil => my[a] <= made
            BY <5>1 DEF Inv, BucketsOK, InUse
          <6>. QED BY <5>1, <6>1, <6>2
        <5>. QED BY <5>2, <5>3
      <4>2. Len(sets'[b]) \in Nat
        <5>1. (Inv => Inv)' /\ Inv'
          BY <1>1, NextInv
        <5>. QED BY <5>1, LenProperties DEF Inv, TypeOK
      <4>. QED BY <2>1, <4>1, <4>2 DEF InTurn
    <3>3. CASE b # made + 1
      <4>1. sets'[b] = sets[b]
        BY <2>1, <3>3 DEF Inv, TypeOK
      <4>. QED BY <2>1, <3>1, <4>1 DEF InTurn
    <3>. QED BY <3>2, <3>3
  <2>. QED BY <1>0, <2>1, <2>2 DEF Turns, Buckets
<1>2. CASE \/ \E id \in Ids : SessionDies(id) \/ SessionLives(id)
           \/ UNCHANGED vars
  <2>1. UNCHANGED <<made, sets, cursor, pc, my, at, asked, picked>>
    BY <1>2 DEF SessionDies, SessionLives, bucketVars, askVars, vars
  <2>. QED BY <2>1 DEF Turns, InTurn, Alone
<1>3. ASSUME NEW a \in Askers,
             \/ AskOne(a) \/ AskAll(a) \/ Ask(a)
             \/ \E id \in Ids : Specify(a, id)
      PROVE  Turns'
  <2>1. /\ \A o \in Askers \ {a} : pc'[o] = pc[o] /\ my'[o] = my[o]
        /\ made' = made /\ asked' \in {asked, asked \cup {a}}
    BY <1>0, <1>3 DEF AskOne, AskAll, Begin, Ask, Next1, Next2, Pick, AllStep,
                      Specify, Goto, bucketVars
  <2>2. a \in asked'
    <3>1. CASE Ask(a)
      <4>1. pc[a] # "idle" /\ asked' = asked
        BY <3>1 DEF Ask, Next1, Next2, Pick, AllStep
      <4>. QED BY <4>1 DEF Turns
    <3>2. CASE \/ AskOne(a) \/ AskAll(a)
               \/ \E id \in Ids : Specify(a, id)
      BY <1>0, <3>2 DEF AskOne, AskAll, Begin, Specify
    <3>. QED BY <1>3, <3>1, <3>2
  <2>3. \A b \in Buckets : b > made => picked'[b] = -1
    <3>1. CASE Pick(a)
      <4>1. my[a] # Nil /\ my[a] <= made /\ picked' = [picked EXCEPT ![my[a]] = at[a]]
        BY <3>1 DEF Pick, Inv, BucketsOK, InUse
      <4>. QED BY <1>0, <4>1 DEF Turns, Buckets, Nil
    <3>2. CASE ~Pick(a)
      <4>1. picked' = picked
        BY <1>3, <3>2 DEF AskOne, AskAll, Begin, Ask, Next1, Next2, AllStep, Specify
      <4>. QED BY <4>1 DEF Turns
    <3>. QED BY <3>1, <3>2
  <2>4. \A o \in Askers \ {a} : ~Alone(o)'
    BY <2>2 DEF Alone
  <2>5. Alone(a)' => Alone(a)
    BY <2>1 DEF Alone
  <2>. QED BY <1>3, <2>1, <2>2, <2>3, <2>4, <2>5, AskerTurn DEF Turns
<1>. QED BY <1>1, <1>2, <1>3 DEF Next, AddId, RemoveId

\* The successor of a position, modulo the length.
LEMMA NextPosition ==
  ASSUME NEW n \in Nat, NEW i \in 0 .. n - 1
  PROVE  (i + 1) % n = IF i + 1 = n THEN 0 ELSE i + 1
OBVIOUS

\* A goroutine that asks alone gets the nodes of a bucket one after the other,
\* and the first again after the last.
THEOREM NodesTakeTurns == Spec => RoundRobin
<1>1. Init => Turns
  <2> SUFFICES ASSUME Init PROVE Turns
    OBVIOUS
  <2>1. /\ \A a \in Askers : pc[a] = "idle" /\ my[a] = Nil
        /\ \A b \in Buckets : cursor[b] = 0 /\ picked[b] = -1
    BY DEF Init
  <2>2. \A b \in Buckets : Len(sets[b]) \in Nat
    BY InitInv, LenProperties DEF Inv, TypeOK
  <2>. QED BY <2>1, <2>2 DEF Turns, InTurn
<1>2. ASSUME Inv, Turns, NEW a \in Askers, Pick(a), picked[my[a]] # -1, Alone(a)
      PROVE  picked'[my[a]] = (picked[my[a]] + 1) % Lenght(a)
  <2> DEFINE b == my[a]
             L == Len(sets[b])
  <2>1. /\ b \in Buckets /\ L \in Nat /\ at[a] < L /\ at[a] \in Nat /\ pc[a] = "pick"
        /\ picked \in [Buckets -> Int] /\ picked'[b] = at[a]
    BY <1>2, LenProperties DEF Pick, Inv, BucketsOK, PositionsOK, TypeOK, Lenght
  <2>2. /\ picked[b] \in 0 .. L - 1
        /\ \/ at[a] = picked[b] + 1
           \/ at[a] = 0 /\ picked[b] + 1 = L
    BY <1>2, <2>1 DEF Turns, InTurn
  <2>3. (picked[b] + 1) % L = IF picked[b] + 1 = L THEN 0 ELSE picked[b] + 1
    BY <2>1, <2>2, NextPosition
  <2>4. picked'[b] = (picked[b] + 1) % L
    <3>1. picked[b] + 1 = L <=> at[a] = 0
      BY <2>1, <2>2
    <3>2. picked[b] + 1 # L => at[a] = picked[b] + 1
      BY <2>2
    <3>. QED BY <2>1, <2>3, <3>1, <3>2
  <2>. QED BY <2>4 DEF Lenght
<1>3. Inv /\ Turns /\ [Next]_vars
      => [\A a \in Askers :
            Pick(a) /\ picked[my[a]] # -1 /\ asked = {a}
              => picked'[my[a]] = (picked[my[a]] + 1) % Lenght(a)]_vars
  BY <1>2 DEF Alone
<1>. QED BY <1>1, <1>3, NextTurn, InvCorrect, PTL DEF Spec, RoundRobin
=============================================================================
