-------------------------- MODULE RingBufferProofs --------------------------
(****************************************************************************)
(* Theorems about the ring buffer, for any producers, any ring and frames   *)
(* of any lengths: it is a queue as long as the consumer is not misled, that *)
(* is, as long as it finds no mark at an end it computed from other bytes   *)
(* than the length of the next frame.  With frames of one length that       *)
(* divides the ring it never is.                                            *)
(****************************************************************************)
EXTENDS RingBuffer, SequenceTheorems, WellFoundedInduction, TLAPS

----------------------------------------------------------------------------
(* The cells                                                                *)

LEMMA DivMod ==
  ASSUME NEW b \in Nat \ {0}, NEW q \in Nat, NEW x \in 0 .. b - 1
  PROVE  (b * q + x) % b = x
OBVIOUS

\* Every natural number has a quotient and a remainder.
LEMMA Rounds ==
  ASSUME NEW b \in Nat \ {0}
  PROVE  \A a \in Nat : \E q \in Nat, x \in 0 .. b - 1 : a = b * q + x
<1> DEFINE Bad == {a \in Nat : ~ \E q \in Nat, x \in 0 .. b - 1 : a = b * q + x}
<1> SUFFICES ASSUME Bad # {} PROVE FALSE
  OBVIOUS
<1>1. Bad \subseteq Nat
  OBVIOUS
<1> HIDE DEF Bad
<1>2. PICK a \in Bad : \A c \in Bad : ~(<<c, a>> \in OpToRel(<, Nat))
  BY <1>1, NatLessThanWellFounded, WFMin
<1>3. a \in Nat /\ ~ \E q \in Nat, x \in 0 .. b - 1 : a = b * q + x
  BY DEF Bad
<1>4. a # 0
  <2> SUFFICES ASSUME a = 0 PROVE FALSE
    OBVIOUS
  <2>1. 0 = b * 0 + 0 /\ 0 \in 0 .. b - 1
    OBVIOUS
  <2>. QED BY <1>3, <2>1
<1>5. a - 1 \in Nat /\ a - 1 < a
  BY <1>3, <1>4
<1>6. a - 1 \notin Bad
  <2> SUFFICES ASSUME a - 1 \in Bad PROVE FALSE
    OBVIOUS
  <2>1. <<a - 1, a>> \in OpToRel(<, Nat)
    BY <1>3, <1>5 DEF OpToRel
  <2>. QED BY <1>2, <2>1
<1>7. PICK q \in Nat, x \in 0 .. b - 1 : a - 1 = b * q + x
  BY <1>5, <1>6 DEF Bad
<1>8. CASE x < b - 1
  <2>1. a = b * q + (x + 1) /\ x + 1 \in 0 .. b - 1
    BY <1>3, <1>7, <1>8
  <2>. QED BY <1>3, <2>1
<1>9. CASE x = b - 1
  <2>1. a = b * (q + 1) + 0 /\ 0 \in 0 .. b - 1 /\ q + 1 \in Nat
    BY <1>3, <1>7, <1>9
  <2>. QED BY <1>3, <2>1
<1>. QED BY <1>8, <1>9

\* Two cursors less than a round apart are in different cells.
LEMMA AtApart ==
  ASSUME NEW a \in Nat, NEW b \in Nat
  PROVE  /\ At(a) \in Cells
         /\ a < b /\ b - a < ringBufferSize => At(a) # At(b)
<1> DEFINE N == ringBufferSize
<1>1. N \in Nat \ {0}
  BY ConstantsAssumption
<1> HIDE DEF N
<1>2. PICK p \in Nat, x \in 0 .. N - 1 : a = N * p + x
  BY <1>1, Rounds
<1>3. PICK q \in Nat, y \in 0 .. N - 1 : b = N * q + y
  BY <1>1, Rounds
<1>4. a % N = x /\ b % N = y
  BY <1>1, <1>2, <1>3, DivMod
<1>5. At(a) = x /\ At(b) = y /\ x \in Cells
  BY <1>4 DEF At, Cells, N
<1>6. ASSUME a < b, b - a < N, x = y PROVE FALSE
  <2>1. N * p \in Nat /\ N * q \in Nat
    BY <1>1
  <2>2. N * p < N * q /\ N * q < N * p + N
    BY <1>1, <1>2, <1>3, <1>6, <2>1
  <2>3. ~(q <= p)
    <3> SUFFICES ASSUME q <= p PROVE FALSE
      OBVIOUS
    <3>1. N * q <= N * p
      BY <1>1
    <3>. QED BY <2>1, <2>2, <3>1
  <2>4. p + 1 <= q
    BY <2>3
  <2>5. N * (p + 1) <= N * q /\ N * (p + 1) = N * p + N
    BY <1>1, <2>4
  <2>. QED BY <1>1, <2>1, <2>2, <2>5
<1>. QED BY <1>5, <1>6 DEF N

----------------------------------------------------------------------------
(* The invariant                                                            *)

\* The frames given back, which lag behind those taken while the last is given back.
Released == IF cpc = "store" THEN Len(taken) - 1 ELSE Len(taken)

\* The frames that are claimed and not taken.
Waiting == Len(taken) + 1 .. Len(claims)

Busy == {frame[p] : p \in {q \in Producers : pc[q] \in {"copy", "submit"}}}
Copying == {frame[p] : p \in {q \in Producers : pc[q] = "copy"}}

\* Where the range of the n-th claim ends.
EndOf(n) == IF n = 0 THEN 0 ELSE places[n] + FrameLen[claims[n]]

Types ==
  /\ state \in {"work", "die"}
  /\ ring \in [Cells -> Cell]
  /\ submitRing \in [Cells -> {0, 1}]
  /\ begun \in [Producers -> Nat]
  /\ pc \in [Producers -> {"idle", "load", "check", "claim", "copy", "submit"} \cup Fate]
  /\ frame \in [Producers -> Frames \cup {None}]
  /\ ask \in [Producers -> Nat]
  /\ claims \in Seq(Frames) /\ places \in Seq(Nat)
  /\ cpc \in {"idle", "mark", "got", "store"}
  /\ end \in Nat
  /\ data \in Seq(Cell) /\ taken \in Seq(Seq(Cell)) /\ misled \in BOOLEAN

\* The claimed ranges lie one behind the other, from the cursor of the consumer to that
\* of the producers, and less than a ring of them is not given back.
Cursors ==
  /\ Released \in Nat /\ Released <= Len(taken) /\ Len(taken) <= Len(claims)
  /\ Len(places) = Len(claims)
  /\ \A n \in 1 .. Len(claims) : places[n] = EndOf(n - 1)
  /\ \A m, n \in 1 .. Len(claims) : m < n => EndOf(m) <= places[n]
  /\ askCursor = EndOf(Len(claims)) /\ availableCursor = EndOf(Released)
  /\ askCursor - availableCursor < ringBufferSize

\* A producer's cursor is not ahead of the ring's; when it is about to claim there is
\* room behind it.
Asked ==
  \A p \in Producers :
    /\ ask[p] <= askCursor
    /\ pc[p] = "claim" => ask[p] + Length(p) - availableCursor < ringBufferSize

\* A frame is claimed once, by the call it is passed to.
Owned ==
  /\ \A p \in Producers :
       /\ begun[p] <= Len(Stream[p])
       /\ frame[p] = IF begun[p] = 0 THEN None ELSE Stream[p][begun[p]]
       /\ begun[p] = 0 => pc[p] = "idle"
       /\ pc[p] \in {"load", "check", "claim"} => frame[p] \notin Range(claims)
       /\ pc[p] \in {"copy", "submit"} =>
            \E n \in Waiting : claims[n] = frame[p] /\ ask[p] = places[n]
       /\ \A k \in begun[p] + 1 .. Len(Stream[p]) : Stream[p][k] \notin Range(claims)
  /\ \A m, n \in 1 .. Len(claims) : claims[m] = claims[n] => m = n

\* The marks in the ring are the ends of the submitted frames that are not taken.
Marks ==
  \A c \in Cells :
    submitRing[c] = 1 <=> \E n \in Waiting : claims[n] \notin Busy /\ c = At(EndOf(n))

\* A frame that was copied stays whole until it is taken.
Bytes ==
  \A n \in Waiting : claims[n] \notin Copying =>
    \A j \in 0 .. FrameLen[claims[n]] - 1 : ring[At(places[n] + j)] = <<claims[n], j>>

\* What the consumer has found so far.
Found ==
  /\ cpc = "mark" => Released < Len(claims)
  /\ cpc = "got" => /\ Released < Len(claims) /\ end = EndOf(Released + 1)
                    /\ claims[Released + 1] \notin Busy
                    /\ data = Whole(claims[Released + 1])
  /\ cpc = "store" => end = EndOf(Len(taken))

IInv == Types /\ Cursors /\ Asked /\ Owned /\ Marks /\ Bytes /\ Found /\ TakenInOrder

----------------------------------------------------------------------------
(* What every step needs                                                    *)

\* A frame belongs to one place of one producer's stream.
LEMMA FramesApart ==
  /\ \A p \in Producers : \A k \in 1 .. Len(Stream[p]) : Stream[p][k] \in Frames
  /\ \A p \in Producers : Len(Stream[p]) \in Nat
  /\ \A p, q \in Producers : \A k \in 1 .. Len(Stream[p]), l \in 1 .. Len(Stream[q]) :
       Stream[p][k] = Stream[q][l] => p = q /\ k = l
<1>1. \A p \in Producers : Len(Stream[p]) \in Nat /\ DOMAIN Stream[p] = 1 .. Len(Stream[p])
  BY ConstantsAssumption, LenProperties
<1>2. ASSUME NEW p \in Producers, NEW k \in 1 .. Len(Stream[p])
      PROVE  Stream[p][k] \in Range(Stream[p]) /\ Stream[p][k] \in Frames
  <2>1. Stream[p][k] \in Range(Stream[p])
    BY <1>1 DEF Range
  <2>. QED BY <2>1 DEF Frames
<1>3. ASSUME NEW p \in Producers, NEW q \in Producers,
             NEW k \in 1 .. Len(Stream[p]), NEW l \in 1 .. Len(Stream[q]),
             Stream[p][k] = Stream[q][l]
      PROVE  p = q /\ k = l
  <2>1. p = q
    BY <1>2, <1>3, ConstantsAssumption
  <2>2. IsInjective(Stream[p])
    BY ConstantsAssumption
  <2>. QED BY <1>1, <1>3, <2>1, <2>2 DEF IsInjective
<1>. QED BY <1>1, <1>2, <1>3

\* A producer with a frame.
LEMMA FrameOf ==
  ASSUME Types, Owned
  PROVE  /\ \A p \in Producers : pc[p] # "idle" =>
              /\ begun[p] \in 1 .. Len(Stream[p]) /\ frame[p] = Stream[p][begun[p]]
              /\ frame[p] \in Frames
         /\ \A p, q \in Producers :
              pc[p] # "idle" /\ pc[q] # "idle" /\ frame[p] = frame[q] => p = q
<1>1. ASSUME NEW p \in Producers, pc[p] # "idle"
      PROVE  /\ begun[p] \in 1 .. Len(Stream[p]) /\ frame[p] = Stream[p][begun[p]]
             /\ frame[p] \in Frames
  <2>1. begun[p] \in Nat /\ begun[p] # 0 /\ begun[p] <= Len(Stream[p])
    BY <1>1 DEF Types, Owned
  <2>2. begun[p] \in 1 .. Len(Stream[p])
    BY <2>1, FramesApart
  <2>3. frame[p] = Stream[p][begun[p]]
    BY <2>1 DEF Owned
  <2>. QED BY <2>2, <2>3, FramesApart
<1>2. ASSUME NEW p \in Producers, NEW q \in Producers, pc[p] # "idle", pc[q] # "idle",
             frame[p] = frame[q]
      PROVE  p = q
  <2>1. begun[p] \in 1 .. Len(Stream[p]) /\ frame[p] = Stream[p][begun[p]]
    BY <1>1, <1>2
  <2>2. begun[q] \in 1 .. Len(Stream[q]) /\ frame[q] = Stream[q][begun[q]]
    BY <1>1, <1>2
  <2>3. \A k \in 1 .. Len(Stream[p]), l \in 1 .. Len(Stream[q]) :
          Stream[p][k] = Stream[q][l] => p = q
    BY FramesApart
  <2>4. Stream[p][begun[p]] = Stream[q][begun[q]]
    BY <1>2, <2>1, <2>2
  <2>. QED BY <2>1, <2>2, <2>3, <2>4, Zenon
<1>. QED BY <1>1, <1>2

\* The claims, and those of them that are not taken.
LEMMA ClaimsOf ==
  ASSUME Types, Cursors
  PROVE  /\ Len(claims) \in Nat /\ DOMAIN claims = 1 .. Len(claims)
         /\ \A n \in 1 .. Len(claims) : claims[n] \in Frames /\ claims[n] \in Range(claims)
         /\ \A f \in Range(claims) : \E n \in 1 .. Len(claims) : f = claims[n]
         /\ Len(taken) \in Nat /\ Len(taken) <= Len(claims)
         /\ Waiting \subseteq 1 .. Len(claims)
         /\ \A n \in Waiting : n \in Nat /\ n - 1 \in Nat /\ Len(taken) < n
<1>1. Len(claims) \in Nat /\ DOMAIN claims = 1 .. Len(claims) /\ Len(taken) \in Nat
      /\ \A n \in 1 .. Len(claims) : claims[n] \in Frames
  BY LenProperties DEF Types
<1>2. Len(taken) <= Len(claims)
  BY DEF Cursors
<1>. QED BY <1>1, <1>2 DEF Range, Waiting

\* Where the claimed ranges are.
LEMMA Ranges ==
  ASSUME Types, Cursors
  PROVE  /\ \A n \in 1 .. Len(claims) :
              /\ places[n] \in Nat /\ FrameLen[claims[n]] \in Nat \ {0}
              /\ FrameLen[claims[n]] < ringBufferSize
              /\ EndOf(n) = places[n] + FrameLen[claims[n]]
              /\ EndOf(n) \in Nat /\ places[n] < EndOf(n)
         /\ EndOf(0) = 0
         /\ askCursor \in Nat /\ availableCursor \in Nat /\ availableCursor <= askCursor
         /\ \A n \in Waiting : availableCursor <= places[n] /\ EndOf(n) <= askCursor
<1> DEFINE N == Len(claims)
<1>1. N \in Nat /\ \A n \in 1 .. N : claims[n] \in Frames
  BY ClaimsOf
<1>2. ASSUME NEW n \in 1 .. N
      PROVE  /\ places[n] \in Nat /\ FrameLen[claims[n]] \in Nat \ {0}
             /\ FrameLen[claims[n]] < ringBufferSize
             /\ EndOf(n) = places[n] + FrameLen[claims[n]]
             /\ EndOf(n) \in Nat /\ places[n] < EndOf(n)
  <2>1. places[n] \in Nat
    <3>1. places \in Seq(Nat) /\ n \in 1 .. Len(places)
      BY DEF Types, Cursors
    <3>. QED BY <3>1, LenProperties
  <2>2. FrameLen[claims[n]] \in Nat \ {0} /\ FrameLen[claims[n]] < ringBufferSize
    BY <1>1, ConstantsAssumption
  <2>3. EndOf(n) = places[n] + FrameLen[claims[n]]
    BY <1>1 DEF EndOf
  <2>. QED BY <2>1, <2>2, <2>3
<1>3. EndOf(0) = 0
  BY DEF EndOf
<1>4. \A n \in 0 .. N : EndOf(n) \in Nat
  <2>1. \A n \in 0 .. N : n = 0 \/ n \in 1 .. N
    BY <1>1
  <2>. QED BY <1>2, <1>3, <2>1
<1>5. \A m, n \in 1 .. N : m < n => EndOf(m) <= places[n]
  BY DEF Cursors
<1>6. \A n \in 1 .. N : EndOf(n) <= EndOf(N)
  <2> SUFFICES ASSUME NEW n \in 1 .. N, n # N PROVE EndOf(n) <= EndOf(N)
    BY <1>4, <1>1
  <2>1. N \in 1 .. N /\ n < N
    BY <1>1
  <2>2. EndOf(n) <= places[N] /\ places[N] \in Nat /\ EndOf(n) \in Nat
    BY <1>2, <1>5, <2>1
  <2>3. EndOf(N) \in Nat /\ places[N] < EndOf(N)
    BY <1>2, <2>1
  <2>. QED BY <2>2, <2>3
<1>7. /\ askCursor = EndOf(N) /\ availableCursor = EndOf(Released)
      /\ Released \in 0 .. N /\ Len(taken) \in Nat /\ Released <= Len(taken)
  <2>1. Released \in Nat /\ Released <= Len(taken) /\ Len(taken) <= N /\ Len(taken) \in Nat
    BY ClaimsOf DEF Cursors
  <2>. QED BY <1>1, <2>1 DEF Cursors
<1>8. askCursor \in Nat /\ availableCursor \in Nat
  BY <1>1, <1>4, <1>7
<1>9. availableCursor <= askCursor
  <2>1. CASE Released = 0
    BY <1>3, <1>7, <1>8, <2>1
  <2>2. CASE Released \in 1 .. N
    BY <1>6, <1>7, <2>2
  <2>. QED BY <1>7, <2>1, <2>2
<1>10. ASSUME NEW n \in Waiting PROVE availableCursor <= places[n] /\ EndOf(n) <= askCursor
  <2>1. n \in 1 .. N /\ Len(taken) < n
    BY ClaimsOf
  <2>2. Released < n
    BY <1>7, <2>1
  <2>3. availableCursor <= places[n]
    <3>1. CASE Released = 0
      BY <1>2, <1>3, <1>7, <2>1, <3>1
    <3>2. CASE Released \in 1 .. N
      BY <1>5, <1>7, <2>1, <2>2, <3>2
    <3>. QED BY <1>7, <3>1, <3>2
  <2>4. EndOf(n) <= askCursor
    BY <1>6, <1>7, <2>1
  <2>. QED BY <2>3, <2>4
<1>. QED BY <1>2, <1>3, <1>8, <1>9, <1>10

\* No two ranges that wait have a cell in common, and no two of them end in one cell.
LEMMA RangesApart ==
  ASSUME Types, Cursors, NEW m \in Waiting, NEW n \in Waiting
  PROVE  /\ At(EndOf(m)) \in Cells
         /\ At(EndOf(m)) = At(EndOf(n)) => m = n
         /\ \A i \in 0 .. FrameLen[claims[m]] - 1 : At(places[m] + i) \in Cells
         /\ \A i \in 0 .. FrameLen[claims[m]] - 1, j \in 0 .. FrameLen[claims[n]] - 1 :
              At(places[m] + i) = At(places[n] + j) => m = n /\ i = j
<1>1. m \in 1 .. Len(claims) /\ n \in 1 .. Len(claims) /\ m \in Nat /\ n \in Nat
  BY ClaimsOf
<1> DEFINE P == places[m]
           Q == places[n]
           D == EndOf(m)
           E == EndOf(n)
           k == FrameLen[claims[m]]
           l == FrameLen[claims[n]]
<1>2. /\ P \in Nat /\ k \in Nat \ {0} /\ D = P + k /\ D \in Nat
      /\ Q \in Nat /\ l \in Nat \ {0} /\ E = Q + l /\ E \in Nat
  BY <1>1, Ranges
<1>3. /\ availableCursor \in Nat /\ askCursor \in Nat
      /\ askCursor - availableCursor < ringBufferSize /\ ringBufferSize \in Nat
  BY Ranges, ConstantsAssumption DEF Cursors
<1>4. availableCursor <= P /\ D <= askCursor /\ availableCursor <= Q /\ E <= askCursor
  BY Ranges
<1>5. (m < n => D <= Q) /\ (n < m => E <= P)
  BY <1>1 DEF Cursors
<1>6. m = n => P = Q /\ D = E
  OBVIOUS
<1> HIDE DEF P, Q, D, E, k, l
<1>7. ASSUME NEW a \in availableCursor .. askCursor, NEW b \in availableCursor .. askCursor,
             At(a) = At(b)
      PROVE  a = b
  <2>1. a \in Nat /\ b \in Nat /\ a - b < ringBufferSize /\ b - a < ringBufferSize
    BY <1>3
  <2>2. ~(a < b) /\ ~(b < a)
    BY <1>7, <2>1, AtApart
  <2>. QED BY <2>1, <2>2
<1>8. At(D) = At(E) => m = n
  <2>1. D \in availableCursor .. askCursor /\ E \in availableCursor .. askCursor
    BY <1>2, <1>3, <1>4
  <2>2. At(D) = At(E) => D = E
    BY <1>7, <2>1
  <2>3. D = E => ~(m < n) /\ ~(n < m)
    BY <1>2, <1>5
  <2>. QED BY <1>1, <2>2, <2>3
<1>9. ASSUME NEW i \in 0 .. k - 1, NEW j \in 0 .. l - 1, At(P + i) = At(Q + j)
      PROVE  m = n /\ i = j
  <2>1. P + i \in availableCursor .. askCursor /\ Q + j \in availableCursor .. askCursor
    BY <1>2, <1>3, <1>4
  <2>2. P + i = Q + j
    BY <1>7, <1>9, <2>1
  <2>3. ~(m < n) /\ ~(n < m)
    BY <1>2, <1>5, <2>2
  <2>4. m = n
    BY <1>1, <2>3
  <2>. QED BY <1>2, <1>6, <2>2, <2>4
<1>10. At(D) \in Cells /\ \A i \in 0 .. k - 1 : At(P + i) \in Cells
  <2>1. \A i \in 0 .. k - 1 : P + i \in Nat
    BY <1>2
  <2>. QED BY <1>2, <2>1, AtApart
<1>. QED BY <1>8, <1>9, <1>10 DEF P, Q, D, E, k, l

\* A step of a producer that is neither a claim nor a copy nor a submission.
LEMMA QuietStep ==
  ASSUME IInv, UNCHANGED <<bufVars, cursorVars, claimVars, consumerVars>>,
         Busy' = Busy, Copying' = Copying
  PROVE  Cursors' /\ Marks' /\ Bytes' /\ Found' /\ TakenInOrder'
<1> USE DEF bufVars, cursorVars, claimVars, consumerVars
<1>1. Released' = Released /\ Waiting' = Waiting
  BY DEF Released, Waiting
<1>2. Cursors'
  BY <1>1 DEF IInv, Cursors, EndOf
<1>3. Marks'
  BY <1>1 DEF IInv, Marks, EndOf
<1>4. Bytes'
  BY <1>1 DEF IInv, Bytes
<1>5. Found'
  BY <1>1 DEF IInv, Found, EndOf
<1>6. TakenInOrder'
  BY DEF IInv, TakenInOrder
<1>. QED BY <1>2, <1>3, <1>4, <1>5, <1>6

----------------------------------------------------------------------------
(* The steps of a producer                                                  *)

LEMMA BeginStep ==
  ASSUME IInv, NEW p \in Producers, Begin(p)
  PROVE  IInv'
<1>0. Types /\ Cursors /\ Asked /\ Owned
  BY DEF IInv
<1>1. /\ pc[p] \in {"idle"} \cup Fate /\ begun[p] < Len(Stream[p]) /\ begun[p] \in Nat
      /\ begun' = [begun EXCEPT ![p] = begun[p] + 1]
      /\ frame' = [frame EXCEPT ![p] = Stream[p][begun[p] + 1]]
      /\ pc' = [pc EXCEPT ![p] = IF state = "work" THEN "load" ELSE "closed"]
      /\ UNCHANGED <<state, bufVars, cursorVars, ask, claimVars, consumerVars>>
  BY <1>0 DEF Begin, Goto, Types
<1>2. begun[p] + 1 \in 1 .. Len(Stream[p]) /\ Stream[p][begun[p] + 1] \in Frames
  BY <1>1, FramesApart
<1>3. Types'
  BY <1>0, <1>1, <1>2 DEF Types, Fate, bufVars, claimVars, consumerVars
<1>4. \A q \in Producers : q # p => UNCHANGED <<begun[q], frame[q], pc[q], ask[q]>>
  BY <1>0, <1>1 DEF Types
<1>5. /\ pc'[p] \in {"load", "closed"} /\ begun'[p] = begun[p] + 1
      /\ frame'[p] = Stream[p][begun[p] + 1]
  BY <1>0, <1>1 DEF Types
<1>6. Busy' = Busy /\ Copying' = Copying
  BY <1>1, <1>4, <1>5 DEF Busy, Copying, Fate
<1>7. Released' = Released /\ Waiting' = Waiting
  BY <1>1 DEF Released, Waiting, claimVars, consumerVars
<1>8. Asked'
  BY <1>0, <1>1, <1>4, <1>5, <1>7 DEF Asked, cursorVars, Length
<1>9. Owned'
  <2>1. ASSUME NEW q \in Producers, q # p
        PROVE  /\ begun'[q] <= Len(Stream[q])
               /\ frame'[q] = IF begun'[q] = 0 THEN None ELSE Stream[q][begun'[q]]
               /\ begun'[q] = 0 => pc'[q] = "idle"
               /\ pc'[q] \in {"load", "check", "claim"} => frame'[q] \notin Range(claims')
               /\ pc'[q] \in {"copy", "submit"} =>
                    \E n \in Waiting' : claims'[n] = frame'[q] /\ ask'[q] = places'[n]
               /\ \A k \in begun'[q] + 1 .. Len(Stream[q]) : Stream[q][k] \notin Range(claims')
    BY <1>0, <1>1, <1>4, <1>7, <2>1 DEF Owned, claimVars
  <2>2. /\ begun'[p] <= Len(Stream[p]) /\ begun'[p] # 0
        /\ frame'[p] = Stream[p][begun'[p]]
        /\ pc'[p] \notin {"copy", "submit"}
        /\ frame'[p] \notin Range(claims')
        /\ \A k \in begun'[p] + 1 .. Len(Stream[p]) : Stream[p][k] \notin Range(claims')
    <3>1. \A k \in begun[p] + 1 .. Len(Stream[p]) : Stream[p][k] \notin Range(claims)
      BY <1>0 DEF Owned
    <3>2. begun[p] + 1 \in begun[p] + 1 .. Len(Stream[p])
      BY <1>1, FramesApart
    <3>3. \A k \in begun'[p] + 1 .. Len(Stream[p]) : k \in begun[p] + 1 .. Len(Stream[p])
      BY <1>1, <1>5, FramesApart
    <3>. QED BY <1>1, <1>2, <1>5, <3>1, <3>2, <3>3 DEF claimVars
  <2>3. \A m, n \in 1 .. Len(claims') : claims'[m] = claims'[n] => m = n
    BY <1>0, <1>1 DEF Owned, claimVars
  <2>. QED BY <2>1, <2>2, <2>3 DEF Owned
<1>. QED BY <1>1, <1>3, <1>6, <1>8, <1>9, QuietStep DEF IInv

\* Load, Check and a claim that fails move one producer on with its frame.
LEMMA LookStep ==
  ASSUME IInv, NEW p \in Producers,
         Load(p) \/ Check(p) \/ (Claim(p) /\ ~Claimed(p))
  PROVE  IInv'
<1>0. Types /\ Cursors /\ Asked /\ Owned
  BY DEF IInv
<1>1. /\ pc[p] \in {"load", "check", "claim"}
      /\ pc' = [pc EXCEPT ![p] = pc'[p]] /\ pc'[p] \in {"load", "check", "claim", "overflow"}
      /\ ask' = [ask EXCEPT ![p] = ask'[p]] /\ ask'[p] \in Nat
      /\ UNCHANGED <<state, bufVars, cursorVars, begun, frame, claimVars, consumerVars>>
  <2>1. askCursor \in Nat
    BY <1>0, Ranges
  <2>2. CASE Load(p)
    BY <1>0, <2>1, <2>2 DEF Load, Goto, Types, cursorVars
  <2>3. CASE Check(p)
    BY <1>0, <2>3 DEF Check, Goto, Types
  <2>4. CASE Claim(p) /\ ~Claimed(p)
    BY <1>0, <2>4 DEF Claim, Goto, Types, cursorVars, claimVars
  <2>. QED BY <2>2, <2>3, <2>4
<1>2. Types'
  <2>1. pc'[p] \in {"idle", "load", "check", "claim", "copy", "submit"} \cup Fate
    BY <1>1 DEF Fate
  <2>. QED BY <1>0, <1>1, <2>1 DEF Types, bufVars, claimVars, consumerVars
<1>3. \A q \in Producers : q # p => UNCHANGED <<pc[q], ask[q]>>
  BY <1>0, <1>1 DEF Types
<1>4. Busy' = Busy /\ Copying' = Copying
  BY <1>1, <1>3 DEF Busy, Copying
<1>5. Released' = Released /\ Waiting' = Waiting
  BY <1>1 DEF Released, Waiting, claimVars, consumerVars
<1>6. Asked'
  <2> DEFINE Room(q) == ask'[q] + Length(q) - availableCursor < ringBufferSize
  <2>1. ask'[p] <= askCursor /\ (pc'[p] = "claim" => Room(p))
    <3>1. CASE Load(p)
      <4>1. ask'[p] = askCursor /\ pc'[p] = "check"
        BY <1>0, <3>1 DEF Load, Goto, Types
      <4>2. askCursor \in Nat
        BY <1>0, Ranges
      <4>. QED BY <4>1, <4>2
    <3>2. CASE Check(p)
      <4>1. /\ ask'[p] = ask[p] /\ pc[p] = "check"
            /\ pc'[p] = IF Full(ask[p] + Length(p)) THEN "overflow" ELSE "claim"
        BY <1>0, <3>2 DEF Check, Goto, Types
      <4>2. ask[p] \in Nat /\ Length(p) \in Nat /\ availableCursor \in Nat
        <5>1. frame[p] \in Frames
          BY <1>0, <4>1, FrameOf
        <5>. QED BY <1>0, <5>1, ConstantsAssumption, Ranges DEF Types, Length
      <4>3. ASSUME pc'[p] = "claim" PROVE Room(p)
        <5>1. ~Full(ask[p] + Length(p))
          BY <4>1, <4>3
        <5>2. ringBufferSize \in Nat
          BY ConstantsAssumption
        <5>. QED BY <4>1, <4>2, <5>1, <5>2 DEF Full
      <4>. QED BY <1>0, <4>1, <4>3 DEF Asked
    <3>3. CASE Claim(p) /\ ~Claimed(p)
      BY <1>0, <3>3 DEF Claim, Goto, Types, Asked
    <3>. QED BY <3>1, <3>2, <3>3
  <2>2. ASSUME NEW q \in Producers, q # p
        PROVE  ask'[q] <= askCursor /\ (pc'[q] = "claim" => Room(q))
    BY <1>0, <1>3, <2>2 DEF Asked
  <2>3. \A q \in Producers : Length(q)' = Length(q)
    BY <1>1 DEF Length
  <2>. QED BY <1>1, <2>1, <2>2, <2>3 DEF Asked, cursorVars
<1>7. Owned'
  <2>1. ASSUME NEW q \in Producers
        PROVE  /\ begun'[q] <= Len(Stream[q])
               /\ frame'[q] = IF begun'[q] = 0 THEN None ELSE Stream[q][begun'[q]]
               /\ begun'[q] = 0 => pc'[q] = "idle"
               /\ pc'[q] \in {"load", "check", "claim"} => frame'[q] \notin Range(claims')
               /\ pc'[q] \in {"copy", "submit"} =>
                    \E n \in Waiting' : claims'[n] = frame'[q] /\ ask'[q] = places'[n]
               /\ \A k \in begun'[q] + 1 .. Len(Stream[q]) : Stream[q][k] \notin Range(claims')
    <3>1. CASE q # p
      BY <1>0, <1>1, <1>3, <1>5, <3>1 DEF Owned, claimVars
    <3>2. CASE q = p
      BY <1>0, <1>1, <3>2 DEF Owned, claimVars
    <3>. QED BY <3>1, <3>2
  <2>2. \A m, n \in 1 .. Len(claims') : claims'[m] = claims'[n] => m = n
    BY <1>0, <1>1 DEF Owned, claimVars
  <2>. QED BY <2>1, <2>2 DEF Owned
<1>. QED BY <1>1, <1>2, <1>4, <1>6, <1>7, QuietStep DEF IInv

\* A claim puts the frame behind those that wait; nobody had claimed it.
LEMMA ClaimStep ==
  ASSUME IInv, NEW p \in Producers, Claim(p), Claimed(p)
  PROVE  IInv'
<1>0. Types /\ Cursors /\ Asked /\ Owned
  BY DEF IInv
<1> DEFINE N == Len(claims)
<1>1. /\ pc[p] = "claim" /\ pc' = [pc EXCEPT ![p] = "copy"]
      /\ askCursor = ask[p] /\ askCursor' = ask[p] + Length(p)
      /\ claims' = Append(claims, frame[p]) /\ places' = Append(places, ask[p])
      /\ UNCHANGED <<state, bufVars, availableCursor, begun, frame, ask, consumerVars>>
  BY <1>0 DEF Claim, Claimed, Goto
<1>2. /\ frame[p] \in Frames /\ frame[p] \notin Range(claims)
      /\ Length(p) \in Nat \ {0} /\ Length(p) = FrameLen[frame[p]]
  BY <1>0, <1>1, FrameOf, ConstantsAssumption DEF Owned, Length
<1>3. N \in Nat /\ Len(claims') = N + 1 /\ claims' \in Seq(Frames)
      /\ claims'[N + 1] = frame[p] /\ \A n \in 1 .. N : claims'[n] = claims[n]
  BY <1>0, <1>1, <1>2, AppendProperties, LenProperties DEF Types
<1>4. /\ Len(places') = N + 1 /\ places' \in Seq(Nat)
      /\ places'[N + 1] = askCursor /\ \A n \in 1 .. N : places'[n] = places[n]
  <2>1. places \in Seq(Nat) /\ ask[p] \in Nat /\ Len(places) = N
    BY <1>0 DEF Types, Cursors
  <2>. QED BY <1>1, <2>1, AppendProperties, LenProperties
<1>5. Released' = Released /\ Len(taken') = Len(taken)
  BY <1>1 DEF Released, consumerVars
<1>6. /\ DOMAIN claims = 1 .. N /\ Range(claims') = Range(claims) \cup {frame[p]}
      /\ \A n \in 1 .. N : claims[n] \in Range(claims) /\ claims[n] # frame[p]
  <2>1. DOMAIN claims = 1 .. N /\ DOMAIN claims' = 1 .. N + 1
    BY <1>0, <1>3, LenProperties DEF Types
  <2>2. \A n \in 1 .. N + 1 : n \in 1 .. N \/ n = N + 1
    BY <1>3
  <2>3. N + 1 \in 1 .. N + 1 /\ \A n \in 1 .. N : n \in 1 .. N + 1
    BY <1>3
  <2>4. Range(claims') = Range(claims) \cup {frame[p]}
    <3> HIDE DEF N
    <3>. QED BY <1>3, <2>1, <2>2, <2>3 DEF Range
  <2>. QED BY <1>2, <2>1, <2>4 DEF Range
<1>7. Waiting' = Waiting \cup {N + 1} /\ Waiting \subseteq 1 .. N
  <2>1. Len(taken) \in Nat /\ Len(taken) <= N
    BY <1>0, ClaimsOf
  <2>. QED BY <1>3, <1>5, <2>1 DEF Waiting
<1>8. \A q \in Producers : q # p => pc'[q] = pc[q]
  BY <1>0, <1>1 DEF Types
<1>9. pc'[p] = "copy"
  BY <1>0, <1>1 DEF Types
<1>10. Busy' = Busy \cup {frame[p]} /\ Copying' = Copying \cup {frame[p]}
  BY <1>1, <1>8, <1>9 DEF Busy, Copying
<1>11. Types'
  BY <1>0, <1>1, <1>3, <1>4 DEF Types, bufVars, consumerVars
<1> DEFINE E1(n) == IF n = 0 THEN 0 ELSE places'[n] + FrameLen[claims'[n]]
<1>12. /\ \A n \in 0 .. N : E1(n) = EndOf(n)
       /\ E1(N + 1) = askCursor'
  <2>1. \A n \in 0 .. N : n = 0 \/ n \in 1 .. N
    BY <1>3
  <2>2. \A n \in 0 .. N : E1(n) = EndOf(n)
    BY <1>3, <1>4, <2>1 DEF EndOf
  <2>3. E1(N + 1) = askCursor'
    <3>1. E1(N + 1) = places'[N + 1] + FrameLen[claims'[N + 1]]
      <4>1. N + 1 # 0
        BY <1>3
      <4>. QED BY <4>1
    <3>. QED BY <1>1, <1>2, <1>3, <1>4, <3>1
  <2>. QED BY <2>2, <2>3
<1>13. askCursor \in Nat /\ availableCursor \in Nat /\ askCursor' = askCursor + Length(p)
  BY <1>0, <1>1, Ranges
<1> HIDE DEF E1
<1>14. Cursors'
  <2>1. Released \in Nat /\ Released <= Len(taken) /\ Len(taken) <= N + 1 /\ Released \in 0 .. N
    BY <1>0, <1>3, ClaimsOf DEF Cursors
  <2>2. availableCursor' = E1(Released)
    BY <1>0, <1>1, <1>12, <2>1 DEF Cursors
  <2>3. ASSUME NEW n \in 1 .. N + 1 PROVE places'[n] = E1(n - 1)
    <3>1. CASE n \in 1 .. N
      <4>1. n - 1 \in 0 .. N
        BY <1>3, <3>1
      <4>. QED BY <1>0, <1>4, <1>12, <3>1, <4>1 DEF Cursors
    <3>2. CASE n = N + 1
      <4>1. n - 1 = N /\ N \in 0 .. N
        BY <1>3, <3>2
      <4>. QED BY <1>0, <1>4, <1>12, <3>2, <4>1 DEF Cursors
    <3>3. n \in 1 .. N \/ n = N + 1
      BY <1>3
    <3>. QED BY <3>1, <3>2, <3>3
  <2>4. ASSUME NEW m \in 1 .. N + 1, NEW n \in 1 .. N + 1, m < n PROVE E1(m) <= places'[n]
    <3>1. m \in 1 .. N /\ m \in 0 .. N
      BY <1>3, <2>4
    <3>2. CASE n \in 1 .. N
      <4>1. EndOf(m) <= places[n]
        BY <1>0, <2>4, <3>1, <3>2 DEF Cursors
      <4>. QED BY <1>4, <1>12, <3>1, <3>2, <4>1
    <3>3. CASE n = N + 1
      <4>1. EndOf(m) <= EndOf(N)
        <5>1. CASE m = N
          BY <1>0, <3>1, <5>1, Ranges
        <5>2. CASE m < N
          <6>1. N \in 1 .. N
            BY <1>3, <3>1
          <6>2. EndOf(m) <= places[N]
            BY <1>0, <3>1, <5>2, <6>1 DEF Cursors
          <6>3. EndOf(m) \in Nat /\ places[N] \in Nat /\ EndOf(N) \in Nat /\ places[N] < EndOf(N)
            BY <1>0, <3>1, <6>1, Ranges
          <6>. QED BY <6>2, <6>3
        <5>. QED BY <1>3, <3>1, <5>1, <5>2
      <4>2. askCursor = EndOf(N)
        BY <1>0 DEF Cursors
      <4>. QED BY <1>4, <1>12, <3>1, <3>3, <4>1, <4>2
    <3>4. n \in 1 .. N \/ n = N + 1
      BY <1>3
    <3>. QED BY <3>2, <3>3, <3>4
  <2>5. askCursor' - availableCursor' < ringBufferSize
    <3>1. ask[p] + Length(p) - availableCursor < ringBufferSize
      BY <1>0, <1>1 DEF Asked
    <3>2. ask[p] + Length(p) = askCursor' /\ availableCursor' = availableCursor
      BY <1>1
    <3>3. /\ ask[p] \in Nat /\ Length(p) \in Nat /\ availableCursor \in Nat
          /\ ringBufferSize \in Nat
      BY <1>1, <1>2, <1>13, ConstantsAssumption
    <3>. QED BY <3>1, <3>2, <3>3
  <2>6. /\ Released' \in Nat /\ Released' <= Len(taken') /\ Len(taken') <= Len(claims')
        /\ Len(places') = Len(claims')
    BY <1>3, <1>4, <1>5, <2>1
  <2>7. \A n \in 1 .. Len(claims') : places'[n] = E1(n - 1)
    BY <1>3, <2>3
  <2>8. \A m, n \in 1 .. Len(claims') : m < n => E1(m) <= places'[n]
    BY <1>3, <2>4
  <2>9. askCursor' = E1(Len(claims')) /\ availableCursor' = E1(Released')
    BY <1>3, <1>5, <1>12, <2>2
  <2> HIDE DEF N
  <2>. QED BY <2>5, <2>6, <2>7, <2>8, <2>9 DEF Cursors, E1, EndOf
<1>15. Asked'
  <2> SUFFICES ASSUME NEW q \in Producers
               PROVE  /\ ask[q] <= askCursor'
                      /\ pc'[q] = "claim" => ask[q] + Length(q) - availableCursor < ringBufferSize
    BY <1>1 DEF Asked, Length
  <2>1. ask[q] <= askCursor /\ ask[q] \in Nat
    BY <1>0 DEF Asked, Types
  <2>2. ask[q] <= askCursor'
    BY <1>2, <1>13, <2>1
  <2>3. pc'[q] = "claim" => pc[q] = "claim"
    BY <1>8, <1>9
  <2>. QED BY <1>0, <2>2, <2>3 DEF Asked
<1>16. Owned'
  <2>1. ASSUME NEW q \in Producers
        PROVE  /\ begun'[q] <= Len(Stream[q])
               /\ frame'[q] = IF begun'[q] = 0 THEN None ELSE Stream[q][begun'[q]]
               /\ begun'[q] = 0 => pc'[q] = "idle"
    BY <1>0, <1>1, <1>8, <1>9 DEF Owned
  <2>2. ASSUME NEW q \in Producers, pc'[q] \in {"load", "check", "claim"}
        PROVE  frame'[q] \notin Range(claims')
    <3>1. q # p /\ pc[q] = pc'[q] /\ frame'[q] = frame[q]
      BY <1>1, <1>8, <1>9, <2>2
    <3>2. frame[q] # frame[p]
      BY <1>0, <1>1, <2>2, <3>1, FrameOf
    <3>3. frame[q] \notin Range(claims)
      BY <1>0, <2>2, <3>1 DEF Owned
    <3>. QED BY <1>6, <3>1, <3>2, <3>3
  <2>3. ASSUME NEW q \in Producers, pc'[q] \in {"copy", "submit"}
        PROVE  \E n \in Waiting' : claims'[n] = frame'[q] /\ ask'[q] = places'[n]
    <3>1. CASE q = p
      BY <1>1, <1>3, <1>4, <1>7, <3>1
    <3>2. CASE q # p
      <4>1. PICK n \in Waiting : claims[n] = frame[q] /\ ask[q] = places[n]
        BY <1>0, <1>8, <2>3, <3>2 DEF Owned
      <4>. QED BY <1>1, <1>3, <1>4, <1>7, <4>1
    <3>. QED BY <3>1, <3>2
  <2>4. ASSUME NEW q \in Producers, NEW k \in begun'[q] + 1 .. Len(Stream[q])
        PROVE  Stream[q][k] \notin Range(claims')
    <3>1. Stream[q][k] \notin Range(claims)
      BY <1>0, <1>1 DEF Owned
    <3>2. begun[p] \in 1 .. Len(Stream[p]) /\ frame[p] = Stream[p][begun[p]]
      BY <1>0, <1>1, FrameOf
    <3>3. begun[q] \in Nat /\ k \in 1 .. Len(Stream[q]) /\ k # begun[q]
      <4>1. begun[q] \in Nat /\ Len(Stream[q]) \in Nat /\ begun'[q] = begun[q]
        BY <1>0, <1>1, FramesApart DEF Types
      <4>. QED BY <4>1
    <3>4. Stream[q][k] # frame[p]
      <4>1. \A i \in 1 .. Len(Stream[p]), j \in 1 .. Len(Stream[q]) :
              Stream[p][i] = Stream[q][j] => p = q /\ i = j
        BY FramesApart
      <4>2. Stream[p][begun[p]] = Stream[q][k] => p = q /\ begun[p] = k
        BY <3>2, <3>3, <4>1, Zenon
      <4>. QED BY <3>2, <3>3, <4>2
    <3>. QED BY <1>6, <3>1, <3>4
  <2>5. ASSUME NEW m \in 1 .. Len(claims'), NEW n \in 1 .. Len(claims'), claims'[m] = claims'[n]
        PROVE  m = n
    <3>1. (m \in 1 .. N \/ m = N + 1) /\ (n \in 1 .. N \/ n = N + 1)
      BY <1>3
    <3>2. \A i, j \in 1 .. N : claims[i] = claims[j] => i = j
      BY <1>0 DEF Owned
    <3> HIDE DEF N
    <3>. QED BY <1>3, <1>6, <2>5, <3>1, <3>2
  <2>. QED BY <2>1, <2>2, <2>3, <2>4, <2>5 DEF Owned
<1> HIDE DEF N
<1>17. \A n \in Waiting : /\ claims'[n] = claims[n] /\ places'[n] = places[n]
                          /\ E1(n) = EndOf(n)
                          /\ claims[n] \in Busy' <=> claims[n] \in Busy
                          /\ claims[n] \in Copying' <=> claims[n] \in Copying
  <2> SUFFICES ASSUME NEW n \in Waiting
               PROVE  /\ claims'[n] = claims[n] /\ places'[n] = places[n]
                      /\ E1(n) = EndOf(n)
                      /\ claims[n] \in Busy' <=> claims[n] \in Busy
                      /\ claims[n] \in Copying' <=> claims[n] \in Copying
    OBVIOUS
  <2>1. claims'[n] = claims[n] /\ places'[n] = places[n] /\ claims[n] # frame[p]
    BY <1>3, <1>4, <1>6, <1>7
  <2>2. E1(n) = EndOf(n)
    <3>1. n \in 0 .. N
      BY <1>3, <1>7
    <3>. QED BY <1>12, <3>1
  <2>3. claims[n] \in Busy' <=> claims[n] \in Busy
    BY <1>10, <2>1
  <2>4. claims[n] \in Copying' <=> claims[n] \in Copying
    BY <1>10, <2>1
  <2>. QED BY <2>1, <2>2, <2>3, <2>4
<1>18. claims'[N + 1] \in Busy' /\ claims'[N + 1] \in Copying'
  BY <1>3, <1>10
<1>19. Marks'
  <2> SUFFICES ASSUME NEW c \in Cells
               PROVE  submitRing[c] = 1 <=>
                        \E n \in Waiting' : claims'[n] \notin Busy' /\ c = At(E1(n))
    BY <1>1 DEF Marks, bufVars, E1, EndOf, At
  <2>1. submitRing[c] = 1 <=> \E n \in Waiting : claims[n] \notin Busy /\ c = At(EndOf(n))
    BY DEF IInv, Marks
  <2>2. ASSUME NEW n \in Waiting', claims'[n] \notin Busy', c = At(E1(n))
        PROVE  submitRing[c] = 1
    <3>1. n \in Waiting
      BY <1>7, <1>18, <2>2
    <3>. QED BY <1>17, <2>1, <2>2, <3>1
  <2>3. ASSUME NEW n \in Waiting, claims[n] \notin Busy, c = At(EndOf(n))
        PROVE  n \in Waiting' /\ claims'[n] \notin Busy' /\ c = At(E1(n))
    BY <1>7, <1>17, <2>3
  <2>. QED BY <2>1, <2>2, <2>3
<1>20. Bytes'
  <2>1. \A n \in Waiting : claims[n] \notin Copying =>
          \A j \in 0 .. FrameLen[claims[n]] - 1 : ring[At(places[n] + j)] = <<claims[n], j>>
    BY DEF IInv, Bytes
  <2>2. \A n \in Waiting' : claims'[n] \notin Copying' =>
          \A j \in 0 .. FrameLen[claims'[n]] - 1 : ring[At(places'[n] + j)] = <<claims'[n], j>>
    <3> SUFFICES ASSUME NEW n \in Waiting', claims'[n] \notin Copying',
                        NEW j \in 0 .. FrameLen[claims'[n]] - 1
                 PROVE  ring[At(places'[n] + j)] = <<claims'[n], j>>
      OBVIOUS
    <3>1. n \in Waiting
      BY <1>7, <1>18
    <3>2. claims'[n] = claims[n] /\ places'[n] = places[n] /\ claims[n] \notin Copying
      BY <1>17, <3>1
    <3>. QED BY <2>1, <3>1, <3>2
  <2>. QED BY <1>1, <2>2 DEF Bytes, bufVars, At
<1>21. Found'
  <2>1. Found
    BY DEF IInv
  <2>2. Released \in Nat /\ Released <= N /\ Len(taken) \in Nat /\ Len(taken) <= N
    BY <1>0, ClaimsOf DEF Cursors, N
  <2>3. cpc = "mark" => Released < N + 1
    BY <1>3, <2>2
  <2>4. cpc = "store" => end = E1(Len(taken))
    <3>1. Len(taken) \in 0 .. N
      BY <1>3, <2>2
    <3>. QED BY <1>12, <2>1, <3>1 DEF Found
  <2>5. ASSUME cpc = "got"
        PROVE  /\ Released < N + 1 /\ end = E1(Released + 1)
               /\ claims'[Released + 1] \notin Busy'
               /\ data = Whole(claims'[Released + 1])
    <3>1. /\ Released < N /\ end = EndOf(Released + 1)
          /\ claims[Released + 1] \notin Busy /\ data = Whole(claims[Released + 1])
      BY <2>1, <2>5 DEF Found, N
    <3>2. Released = Len(taken)
      BY <2>5 DEF Released
    <3>3. Released + 1 \in Waiting
      BY <1>3, <2>2, <3>1, <3>2 DEF Waiting, N
    <3>4. /\ claims'[Released + 1] = claims[Released + 1] /\ E1(Released + 1) = EndOf(Released + 1)
          /\ claims[Released + 1] \notin Busy'
      BY <1>17, <3>1, <3>3
    <3>. QED BY <1>3, <2>2, <3>1, <3>4
  <2>6. cpc' = cpc /\ end' = end /\ data' = data /\ Len(taken)' = Len(taken) /\ Len(claims)' = N + 1
    BY <1>1, <1>3 DEF consumerVars
  <2>. QED BY <1>5, <2>3, <2>4, <2>5, <2>6 DEF Found, E1, EndOf, Whole
<1>22. TakenInOrder'
  <2>1. Len(taken) <= N + 1 /\ DOMAIN taken \subseteq 1 .. N
    <3>1. Len(taken) \in Nat /\ Len(taken) <= N
      BY <1>0, ClaimsOf DEF N
    <3>2. DOMAIN taken = 1 .. Len(taken)
      BY <1>0, LenProperties DEF Types
    <3>. QED BY <1>3, <3>1, <3>2
  <2>2. \A i \in DOMAIN taken : taken[i] = Whole(claims[i])
    BY DEF IInv, TakenInOrder
  <2>. QED BY <1>1, <1>3, <2>1, <2>2 DEF TakenInOrder, consumerVars
<1>. QED BY <1>11, <1>14, <1>15, <1>16, <1>19, <1>20, <1>21, <1>22 DEF IInv

\* A producer that copies or submits: its claim is one of those that wait, and its frame
\* is nobody else's.
LEMMA Holder ==
  ASSUME IInv, NEW p \in Producers, pc[p] \in {"copy", "submit"}
  PROVE  \E n \in Waiting :
           /\ claims[n] = frame[p] /\ ask[p] = places[n] /\ Length(p) = FrameLen[claims[n]]
           /\ ask[p] + Length(p) = EndOf(n)
           /\ \A q \in Producers : q # p /\ pc[q] # "idle" => frame[q] # frame[p]
           /\ \A m \in Waiting : m # n => claims[m] # frame[p]
<1>0. Types /\ Cursors /\ Asked /\ Owned
  BY DEF IInv
<1>1. PICK n \in Waiting : claims[n] = frame[p] /\ ask[p] = places[n]
  BY <1>0 DEF Owned
<1>2. Length(p) = FrameLen[claims[n]]
  BY <1>1 DEF Length
<1>3. \A q \in Producers : q # p /\ pc[q] # "idle" => frame[q] # frame[p]
  BY <1>0, FrameOf
<1>4. n \in 1 .. Len(claims) /\ EndOf(n) = places[n] + FrameLen[claims[n]]
  BY <1>0, ClaimsOf, Ranges
<1>5. ASSUME NEW m \in Waiting, m # n PROVE claims[m] # frame[p]
  <2>1. m \in 1 .. Len(claims)
    BY <1>0, ClaimsOf
  <2>. QED BY <1>0, <1>1, <1>4, <1>5, <2>1 DEF Owned
<1>. QED BY <1>1, <1>2, <1>3, <1>4, <1>5

\* A copy fills the cells of its claim and no others that wait.
LEMMA CopyStep ==
  ASSUME IInv, NEW p \in Producers, Copy(p)
  PROVE  IInv'
<1>0. Types /\ Cursors /\ Asked /\ Owned
  BY DEF IInv
<1>1. pc[p] = "copy"
  BY DEF Copy
<1>2. PICK n \in Waiting :
        /\ claims[n] = frame[p] /\ ask[p] = places[n] /\ Length(p) = FrameLen[claims[n]]
        /\ \A q \in Producers : q # p /\ pc[q] # "idle" => frame[q] # frame[p]
        /\ \A m \in Waiting : m # n => claims[m] # frame[p]
  BY <1>1, Holder
<1> DEFINE l == FrameLen[claims[n]]
           Mine(c, i) == c = At(places[n] + i)
<1>3. /\ ring' = [c \in Cells |-> IF \E i \in 0 .. l - 1 : Mine(c, i)
                                  THEN <<frame[p], CHOOSE i \in 0 .. l - 1 : Mine(c, i)>>
                                  ELSE ring[c]]
      /\ pc' = [pc EXCEPT ![p] = "submit"]
      /\ UNCHANGED <<state, submitRing, cursorVars, begun, frame, ask, claimVars, consumerVars>>
  BY <1>2 DEF Copy, Goto
<1>4. l \in Nat \ {0} /\ l < ringBufferSize /\ ringBufferSize \in Nat
  BY <1>0, ClaimsOf, Ranges, ConstantsAssumption
<1>5. ASSUME NEW c \in Cells, NEW i \in 0 .. l - 1, Mine(c, i)
      PROVE  ring'[c] = <<frame[p], i>>
  <2>1. \A j \in 0 .. l - 1 : Mine(c, j) => j = i
    BY <1>0, <1>5, RangesApart
  <2> HIDE DEF Mine
  <2>2. (CHOOSE j \in 0 .. l - 1 : Mine(c, j)) = i
    BY <1>5, <2>1
  <2>. QED BY <1>3, <1>5, <2>2
<1>6. ASSUME NEW c \in Cells, ~ \E i \in 0 .. l - 1 : Mine(c, i)
      PROVE  ring'[c] = ring[c]
  BY <1>3, <1>6
<1>7. frame[p] \in Frames
  BY <1>0, <1>1, FrameOf
<1>8. Types'
  <2>1. ASSUME NEW c \in Cells PROVE ring'[c] \in Cell
    <3> HIDE DEF Mine
    <3>1. CASE \E i \in 0 .. l - 1 : Mine(c, i)
      <4>1. PICK i \in 0 .. l - 1 : Mine(c, i)
        BY <3>1
      <4>2. i \in Cells
        BY <1>4 DEF Cells
      <4>3. <<frame[p], i>> \in Frames \X Cells
        BY <1>7, <4>2
      <4>4. ring'[c] = <<frame[p], i>>
        BY <1>5, <4>1
      <4>. QED BY <4>3, <4>4 DEF Cell
    <3>2. CASE ~ \E i \in 0 .. l - 1 : Mine(c, i)
      BY <1>0, <1>6, <3>2 DEF Types
    <3>. QED BY <3>1, <3>2
  <2>2. DOMAIN ring' = Cells /\ ring' = [c \in Cells |-> ring'[c]]
    BY <1>3
  <2>3. ring' \in [Cells -> Cell]
    BY <2>1, <2>2
  <2>. QED BY <1>0, <1>3, <2>3 DEF Types, cursorVars, claimVars, consumerVars
<1>9. /\ \A q \in Producers : q # p => pc'[q] = pc[q]
      /\ pc'[p] = "submit"
  BY <1>0, <1>3 DEF Types
<1>10. Busy' = Busy
  BY <1>1, <1>3, <1>9 DEF Busy
<1>11. Copying' = Copying \ {frame[p]}
  <2>1. ASSUME NEW q \in Producers, pc[q] = "copy", frame[q] # frame[p] PROVE pc'[q] = "copy"
    BY <1>9, <2>1
  <2>2. ASSUME NEW q \in Producers, pc'[q] = "copy" PROVE pc[q] = "copy" /\ frame[q] # frame[p]
    <3>1. q # p /\ pc[q] = "copy"
      BY <1>9, <2>2
    <3>. QED BY <1>2, <3>1
  <2>. QED BY <1>3, <2>1, <2>2 DEF Copying
<1>12. Released' = Released /\ Waiting' = Waiting
  BY <1>3 DEF Released, Waiting, claimVars, consumerVars
<1>13. Cursors'
  BY <1>0, <1>3, <1>12 DEF Cursors, EndOf, cursorVars, claimVars, consumerVars
<1>14. Asked'
  BY <1>0, <1>3, <1>9, <1>12 DEF Asked, Length, cursorVars
<1>15. Owned'
  <2>1. ASSUME NEW q \in Producers
        PROVE  /\ begun'[q] <= Len(Stream[q])
               /\ frame'[q] = IF begun'[q] = 0 THEN None ELSE Stream[q][begun'[q]]
               /\ begun'[q] = 0 => pc'[q] = "idle"
               /\ pc'[q] \in {"load", "check", "claim"} => frame'[q] \notin Range(claims')
               /\ pc'[q] \in {"copy", "submit"} =>
                    \E m \in Waiting' : claims'[m] = frame'[q] /\ ask'[q] = places'[m]
               /\ \A k \in begun'[q] + 1 .. Len(Stream[q]) : Stream[q][k] \notin Range(claims')
    <3>1. CASE q # p
      BY <1>0, <1>3, <1>9, <1>12, <3>1 DEF Owned, claimVars
    <3>2. CASE q = p
      BY <1>0, <1>1, <1>3, <1>9, <1>12, <3>2 DEF Owned, claimVars
    <3>. QED BY <3>1, <3>2
  <2>2. \A j, m \in 1 .. Len(claims') : claims'[j] = claims'[m] => j = m
    BY <1>0, <1>3 DEF Owned, claimVars
  <2>. QED BY <2>1, <2>2 DEF Owned
<1>16. Marks'
  BY <1>3, <1>10, <1>12 DEF IInv, Marks, EndOf, claimVars
<1>17. Bytes'
  <2>1. ASSUME NEW m \in Waiting, claims[m] \notin Copying',
               NEW j \in 0 .. FrameLen[claims[m]] - 1
        PROVE  ring'[At(places[m] + j)] = <<claims[m], j>>
    <3> DEFINE c == At(places[m] + j)
    <3>1. c \in Cells
      BY <1>0, RangesApart
    <3>2. CASE m = n
      BY <1>2, <1>5, <3>1, <3>2
    <3>3. CASE m # n
      <4>1. claims[m] \notin Copying
        BY <1>2, <1>11, <2>1, <3>3
      <4>2. ring[c] = <<claims[m], j>>
        BY <4>1 DEF IInv, Bytes
      <4>3. ~ \E i \in 0 .. l - 1 : Mine(c, i)
        BY <1>0, <3>3, RangesApart
      <4>4. ring'[c] = ring[c]
        <5> HIDE DEF c, Mine
        <5>. QED BY <1>6, <3>1, <4>3
      <4>. QED BY <4>2, <4>4
    <3>. QED BY <3>2, <3>3
  <2>2. claims' = claims /\ places' = places
    BY <1>3 DEF claimVars
  <2>. QED BY <1>12, <2>1, <2>2 DEF Bytes, At
<1>18. Found' /\ TakenInOrder'
  BY <1>3, <1>10, <1>12 DEF IInv, Found, TakenInOrder, EndOf, claimVars, consumerVars
<1>. QED BY <1>8, <1>13, <1>14, <1>15, <1>16, <1>17, <1>18 DEF IInv

\* A submission marks the end of its claim.
LEMMA SubmitStep ==
  ASSUME IInv, NEW p \in Producers, Submit(p)
  PROVE  IInv'
<1>0. Types /\ Cursors /\ Asked /\ Owned
  BY DEF IInv
<1>1. pc[p] = "submit"
  BY DEF Submit
<1>2. PICK n \in Waiting :
        /\ claims[n] = frame[p] /\ ask[p] + Length(p) = EndOf(n)
        /\ \A q \in Producers : q # p /\ pc[q] # "idle" => frame[q] # frame[p]
        /\ \A m \in Waiting : m # n => claims[m] # frame[p]
  BY <1>1, Holder
<1>3. MarkAt(p) = At(EndOf(n)) /\ At(EndOf(n)) \in Cells
  BY <1>0, <1>2, RangesApart DEF MarkAt
<1>4. /\ submitRing' = [submitRing EXCEPT ![At(EndOf(n))] = 1]
      /\ pc' = [pc EXCEPT ![p] = "ok"]
      /\ UNCHANGED <<state, ring, cursorVars, begun, frame, ask, claimVars, consumerVars>>
  BY <1>3 DEF Submit, Goto
<1>5. Types'
  BY <1>0, <1>3, <1>4 DEF Types, Fate, cursorVars, claimVars, consumerVars
<1>6. /\ \A q \in Producers : q # p => pc'[q] = pc[q]
      /\ pc'[p] = "ok"
  BY <1>0, <1>4 DEF Types
<1>7. Copying' = Copying
  BY <1>1, <1>4, <1>6 DEF Copying
<1>8. Busy' = Busy \ {frame[p]}
  <2>1. ASSUME NEW q \in Producers, pc[q] \in {"copy", "submit"}, frame[q] # frame[p]
        PROVE  pc'[q] \in {"copy", "submit"}
    BY <1>6, <2>1
  <2>2. ASSUME NEW q \in Producers, pc'[q] \in {"copy", "submit"}
        PROVE  pc[q] \in {"copy", "submit"} /\ frame[q] # frame[p]
    <3>1. q # p /\ pc[q] \in {"copy", "submit"}
      BY <1>6, <2>2
    <3>. QED BY <1>2, <3>1
  <2>. QED BY <1>4, <2>1, <2>2 DEF Busy
<1>9. Released' = Released /\ Waiting' = Waiting
  BY <1>4 DEF Released, Waiting, claimVars, consumerVars
<1>10. Cursors'
  BY <1>0, <1>4, <1>9 DEF Cursors, EndOf, cursorVars, claimVars, consumerVars
<1>11. Asked'
  BY <1>0, <1>4, <1>6, <1>9 DEF Asked, Length, cursorVars
<1>12. Owned'
  <2>1. ASSUME NEW q \in Producers
        PROVE  /\ begun'[q] <= Len(Stream[q])
               /\ frame'[q] = IF begun'[q] = 0 THEN None ELSE Stream[q][begun'[q]]
               /\ begun'[q] = 0 => pc'[q] = "idle"
               /\ pc'[q] \in {"load", "check", "claim"} => frame'[q] \notin Range(claims')
               /\ pc'[q] \in {"copy", "submit"} =>
                    \E m \in Waiting' : claims'[m] = frame'[q] /\ ask'[q] = places'[m]
               /\ \A k \in begun'[q] + 1 .. Len(Stream[q]) : Stream[q][k] \notin Range(claims')
    <3>1. CASE q # p
      BY <1>0, <1>4, <1>6, <1>9, <3>1 DEF Owned, claimVars
    <3>2. CASE q = p
      BY <1>0, <1>1, <1>4, <1>6, <1>9, <3>2 DEF Owned, claimVars
    <3>. QED BY <3>1, <3>2
  <2>2. \A l, m \in 1 .. Len(claims') : claims'[l] = claims'[m] => l = m
    BY <1>0, <1>4 DEF Owned, claimVars
  <2>. QED BY <2>1, <2>2 DEF Owned
<1>13. ASSUME NEW m \in Waiting PROVE claims[m] \notin Busy' <=> claims[m] \notin Busy \/ m = n
  BY <1>2, <1>8
<1>14. Marks'
  <2> SUFFICES ASSUME NEW c \in Cells
               PROVE  submitRing'[c] = 1 <=>
                        \E m \in Waiting : claims[m] \notin Busy' /\ c = At(EndOf(m))
    BY <1>4, <1>9 DEF Marks, EndOf, claimVars
  <2>1. submitRing[c] = 1 <=> \E m \in Waiting : claims[m] \notin Busy /\ c = At(EndOf(m))
    BY DEF IInv, Marks
  <2>2. submitRing'[c] = IF c = At(EndOf(n)) THEN 1 ELSE submitRing[c]
    BY <1>0, <1>4 DEF Types
  <2>. QED BY <1>13, <2>1, <2>2
<1>15. Bytes'
  BY <1>4, <1>7, <1>9 DEF IInv, Bytes, claimVars
<1>16. Found'
  <2>1. cpc = "got" => claims[Released + 1] \notin Busy'
    BY <1>8 DEF IInv, Found
  <2>. QED BY <1>4, <1>9, <2>1 DEF IInv, Found, EndOf, claimVars, consumerVars
<1>17. TakenInOrder'
  BY <1>4 DEF IInv, TakenInOrder, claimVars, consumerVars
<1>. QED BY <1>5, <1>10, <1>11, <1>12, <1>14, <1>15, <1>16, <1>17 DEF IInv

----------------------------------------------------------------------------
(* The steps of the consumer                                                *)

\* The frame that the consumer takes next is one of those that wait.
LEMMA NextFrame ==
  ASSUME IInv, cpc # "store", Released < Len(claims)
  PROVE  /\ Released = Len(taken) /\ Released \in Nat /\ Released + 1 \in Waiting
         /\ claims[Released + 1] \in Frames
         /\ places[Released + 1] = availableCursor
         /\ EndOf(Released + 1) = availableCursor + FrameLen[claims[Released + 1]]
<1>1. Types /\ Cursors
  BY DEF IInv
<1>2. Released = Len(taken) /\ Released \in Nat /\ Len(claims) \in Nat
  BY <1>1, ClaimsOf DEF Released
<1>3. Released + 1 \in Waiting /\ Released + 1 \in 1 .. Len(claims) /\ (Released + 1) - 1 = Released
  BY <1>2 DEF Waiting
<1>4. claims[Released + 1] \in Frames
  BY <1>1, <1>3, ClaimsOf
<1>5. places[Released + 1] = availableCursor
  <2>1. places[Released + 1] = EndOf((Released + 1) - 1)
    BY <1>1, <1>3 DEF Cursors
  <2>. QED BY <1>1, <1>3, <2>1 DEF Cursors
<1>6. EndOf(Released + 1) = availableCursor + FrameLen[claims[Released + 1]]
  BY <1>1, <1>3, <1>5, Ranges
<1>. QED BY <1>2, <1>3, <1>4, <1>5, <1>6

LEMMA ReadLengthStep ==
  ASSUME IInv, ReadLength
  PROVE  IInv'
<1>0. Types /\ Cursors /\ Asked /\ Owned /\ Marks /\ Bytes
  BY DEF IInv
<1>1. /\ cpc = "idle" /\ cpc' = "mark" /\ askCursor > availableCursor
      /\ UNCHANGED <<state, bufVars, cursorVars, producerVars, claimVars, data, taken, misled>>
  BY DEF ReadLength
<1>2. Released < Len(claims)
  <2>1. Released \in Nat /\ Len(claims) \in Nat /\ Released <= Len(claims)
    BY <1>0, ClaimsOf DEF Cursors
  <2>2. Released # Len(claims)
    BY <1>0, <1>1, Ranges DEF Cursors
  <2>. QED BY <2>1, <2>2
<1>3. end' \in Nat
  <2>1. PICK n \in LengthAt(availableCursor) : end' = availableCursor + n
    BY DEF ReadLength
  <2>2. availableCursor \in Nat
    BY <1>0, Ranges
  <2>3. n \in Nat
    <3> DEFINE cell == ring[At(availableCursor)]
    <3>1. cell \in Cell
      BY <1>0, <2>2, AtApart DEF Types
    <3>2. cell[1] # Zero => FrameLen[cell[1]] \in Nat
      BY <3>1, ConstantsAssumption DEF Cell
    <3>. QED BY <2>1, <3>2, ConstantsAssumption DEF LengthAt
  <2>. QED BY <2>1, <2>2, <2>3
<1>4. Released' = Released /\ Waiting' = Waiting /\ Busy' = Busy /\ Copying' = Copying
  BY <1>1 DEF Released, Waiting, Busy, Copying, producerVars, claimVars
<1>5. Types'
  BY <1>0, <1>1, <1>3 DEF Types, bufVars, producerVars, claimVars
<1>6. Cursors'
  BY <1>0, <1>1, <1>4 DEF Cursors, EndOf, cursorVars, claimVars
<1>7. Asked'
  BY <1>0, <1>1, <1>4 DEF Asked, Length, cursorVars, producerVars
<1>8. Owned'
  BY <1>0, <1>1, <1>4 DEF Owned, producerVars, claimVars
<1>9. Marks' /\ Bytes'
  BY <1>0, <1>1, <1>4 DEF Marks, Bytes, EndOf, bufVars, claimVars
<1>10. Found'
  BY <1>1, <1>2, <1>4 DEF Found, claimVars
<1>11. TakenInOrder'
  BY <1>1 DEF IInv, TakenInOrder, claimVars
<1>. QED BY <1>5, <1>6, <1>7, <1>8, <1>9, <1>10, <1>11 DEF IInv

\* A mark that was found at the end of the next frame is that frame's: it was submitted,
\* and is whole.
LEMMA MarkIsNext ==
  ASSUME IInv, cpc = "mark", submitRing[At(end)] = 1, EndsNext
  PROVE  /\ end = EndOf(Released + 1) /\ claims[Released + 1] \notin Busy
         /\ [i \in 1 .. end - availableCursor |-> ring[At(availableCursor + i - 1)]]
              = Whole(claims[Released + 1])
<1>0. Types /\ Cursors /\ Owned /\ Marks /\ Bytes
  BY DEF IInv
<1>1. Released < Len(claims)
  BY DEF IInv, Found
<1>2. /\ Released = Len(taken) /\ Released \in Nat /\ Released + 1 \in Waiting
      /\ places[Released + 1] = availableCursor
      /\ EndOf(Released + 1) = availableCursor + FrameLen[claims[Released + 1]]
  BY <1>1, NextFrame
<1> DEFINE n == Released + 1
           l == FrameLen[claims[n]]
<1>3. end = EndOf(n) /\ end = availableCursor + l
  BY <1>2 DEF EndsNext
<1>4. l \in Nat \ {0} /\ availableCursor \in Nat
  BY <1>0, <1>2, ClaimsOf, Ranges
<1>5. At(EndOf(n)) \in Cells
  BY <1>0, <1>2, RangesApart
<1>6. PICK m \in Waiting : claims[m] \notin Busy /\ At(EndOf(n)) = At(EndOf(m))
  BY <1>0, <1>3, <1>5 DEF Marks
<1>7. m = n
  BY <1>0, <1>2, <1>6, RangesApart
<1>8. claims[n] \notin Busy
  BY <1>6, <1>7
<1>9. ASSUME NEW i \in 1 .. l PROVE ring[At(availableCursor + i - 1)] = <<claims[n], i - 1>>
  <2>1. claims[n] \notin Copying
    BY <1>8 DEF Busy, Copying
  <2>2. \A j \in 0 .. l - 1 : ring[At(places[n] + j)] = <<claims[n], j>>
    BY <1>0, <1>2, <2>1 DEF Bytes
  <2>3. i - 1 \in 0 .. l - 1
    BY <1>4
  <2>. QED BY <1>2, <2>2, <2>3
<1>10. end - availableCursor = l
  BY <1>3, <1>4
<1>11. [i \in 1 .. end - availableCursor |-> ring[At(availableCursor + i - 1)]]
         = Whole(claims[n])
  BY <1>9, <1>10 DEF Whole
<1>. QED BY <1>3, <1>8, <1>11

\* A whole frame is a sequence of cells, from which the frame is known.
LEMMA WholeFrames ==
  ASSUME NEW f \in Frames
  PROVE  Whole(f) \in Seq(Cell) /\ \A g \in Frames : Whole(f) = Whole(g) => f = g
<1> DEFINE l == FrameLen[f]
<1>1. l \in Nat \ {0} /\ l < ringBufferSize /\ ringBufferSize \in Nat
  BY ConstantsAssumption
<1>2. ASSUME NEW i \in 1 .. l PROVE <<f, i - 1>> \in Cell
  <2>1. i - 1 \in Cells
    BY <1>1 DEF Cells
  <2>2. <<f, i - 1>> \in Frames \X Cells
    BY <2>1
  <2>. QED BY <2>2 DEF Cell
<1>3. Whole(f) \in [1 .. l -> Cell]
  BY <1>2 DEF Whole
<1>4. Whole(f) \in Seq(Cell)
  <2> HIDE DEF l
  <2>. QED BY <1>1, <1>3
<1>5. ASSUME NEW g \in Frames, Whole(f) = Whole(g) PROVE f = g
  <2>1. 1 \in 1 .. l /\ 1 \in 1 .. FrameLen[g]
    BY <1>1, ConstantsAssumption
  <2>2. Whole(f)[1] = <<f, 0>> /\ Whole(g)[1] = <<g, 0>>
    BY <2>1 DEF Whole
  <2>. QED BY <1>5, <2>2
<1>. QED BY <1>4, <1>5

LEMMA ReadMarkStep ==
  ASSUME IInv, ReadMark, ~misled'
  PROVE  IInv'
<1>0. Types /\ Cursors /\ Asked /\ Owned /\ Marks /\ Bytes
  BY DEF IInv
<1>1. /\ cpc = "mark" /\ cpc' \in {"got", "idle"}
      /\ UNCHANGED <<state, bufVars, cursorVars, producerVars, claimVars, end, taken>>
  BY DEF ReadMark
<1>2. Released < Len(claims)
  BY <1>1 DEF IInv, Found
<1>3. claims[Released + 1] \in Frames
  BY <1>1, <1>2, NextFrame
<1>4. /\ data' \in Seq(Cell) /\ misled' \in BOOLEAN
      /\ cpc' = "got" => /\ end = EndOf(Released + 1) /\ claims[Released + 1] \notin Busy
                         /\ data' = Whole(claims[Released + 1])
  <2>1. CASE cpc' = "got"
    <3>1. /\ submitRing[At(end)] = 1 /\ EndsNext /\ misled' = FALSE
          /\ data' = [i \in 1 .. end - availableCursor |-> ring[At(availableCursor + i - 1)]]
      BY <2>1 DEF ReadMark
    <3>2. /\ end = EndOf(Released + 1) /\ claims[Released + 1] \notin Busy
          /\ data' = Whole(claims[Released + 1])
      BY <1>1, <3>1, MarkIsNext
    <3>. QED BY <1>3, <3>1, <3>2, WholeFrames
  <2>2. CASE cpc' = "idle"
    BY <1>0, <2>2 DEF ReadMark, Types
  <2>. QED BY <1>1, <2>1, <2>2
<1>5. Released' = Released /\ Waiting' = Waiting /\ Busy' = Busy /\ Copying' = Copying
  BY <1>1 DEF Released, Waiting, Busy, Copying, producerVars, claimVars
<1>6. Types'
  BY <1>0, <1>1, <1>4 DEF Types, bufVars, producerVars, claimVars
<1>7. Cursors'
  BY <1>0, <1>1, <1>5 DEF Cursors, EndOf, cursorVars, claimVars
<1>8. Asked'
  BY <1>0, <1>1, <1>5 DEF Asked, Length, cursorVars, producerVars
<1>9. Owned'
  BY <1>0, <1>1, <1>5 DEF Owned, producerVars, claimVars
<1>10. Marks' /\ Bytes'
  BY <1>0, <1>1, <1>5 DEF Marks, Bytes, EndOf, bufVars, claimVars
<1>11. Found'
  BY <1>1, <1>2, <1>4, <1>5 DEF Found, EndOf, claimVars
<1>12. TakenInOrder'
  BY <1>1 DEF IInv, TakenInOrder, claimVars
<1>. QED BY <1>6, <1>7, <1>8, <1>9, <1>10, <1>11, <1>12 DEF IInv

\* The frame is taken and its mark goes; its cells are not given back yet.
LEMMA ClearMarkStep ==
  ASSUME IInv, ClearMark
  PROVE  IInv'
<1>0. Types /\ Cursors /\ Asked /\ Owned /\ Marks /\ Bytes /\ TakenInOrder
  BY DEF IInv
<1> DEFINE t == Len(taken)
<1>1. /\ cpc = "got" /\ cpc' = "store" /\ taken' = Append(taken, data)
      /\ submitRing' = [submitRing EXCEPT ![At(end)] = 0]
      /\ UNCHANGED <<state, ring, cursorVars, producerVars, claimVars, end, data, misled>>
  BY DEF ClearMark, Cleared
<1>2. /\ Released < Len(claims) /\ end = EndOf(Released + 1)
      /\ claims[Released + 1] \notin Busy /\ data = Whole(claims[Released + 1])
  BY <1>1 DEF IInv, Found
<1>3. Released = t /\ t \in Nat /\ t + 1 \in Waiting
  BY <1>1, <1>2, NextFrame
<1>4. /\ Len(taken') = t + 1 /\ taken'[t + 1] = data /\ taken' \in Seq(Seq(Cell))
      /\ \A i \in 1 .. t : taken'[i] = taken[i]
  BY <1>0, <1>1, AppendProperties, LenProperties DEF Types
<1>5. /\ Released' = Released
      /\ Waiting' = Waiting \ {t + 1} /\ Busy' = Busy /\ Copying' = Copying
  <2>1. Released' = (t + 1) - 1
    BY <1>1, <1>4 DEF Released
  <2>2. Len(claims) \in Nat
    BY <1>0, ClaimsOf
  <2>3. Waiting' = Waiting \ {t + 1}
    BY <1>1, <1>3, <1>4, <2>2 DEF Waiting, claimVars
  <2>4. Busy' = Busy /\ Copying' = Copying
    BY <1>1 DEF Busy, Copying, producerVars
  <2>. QED BY <1>3, <2>1, <2>3, <2>4
<1>6. At(end) \in Cells /\ \A n \in Waiting : At(EndOf(n)) = At(end) => n = t + 1
  BY <1>0, <1>2, <1>3, RangesApart
<1> HIDE DEF t
<1>7. Types'
  BY <1>0, <1>1, <1>4, <1>6 DEF Types, producerVars, claimVars
<1>8. Cursors'
  <2>1. t + 1 <= Len(claims) /\ Released <= t + 1
    BY <1>0, <1>2, <1>3, ClaimsOf
  <2>. QED BY <1>0, <1>1, <1>4, <1>5, <2>1 DEF Cursors, EndOf, cursorVars, claimVars
<1>9. Asked'
  BY <1>0, <1>1, <1>5 DEF Asked, Length, cursorVars, producerVars
<1>10. Owned'
  <2>1. ASSUME NEW q \in Producers, pc[q] \in {"copy", "submit"}
        PROVE  \E n \in Waiting' : claims[n] = frame[q] /\ ask[q] = places[n]
    <3>1. PICK n \in Waiting : claims[n] = frame[q] /\ ask[q] = places[n]
      BY <1>0, <2>1 DEF Owned
    <3>2. frame[q] \in Busy
      BY <2>1 DEF Busy
    <3>3. n # t + 1
      BY <1>2, <1>3, <3>1, <3>2
    <3>. QED BY <1>5, <3>1, <3>3
  <2>2. ASSUME NEW q \in Producers
        PROVE  /\ begun'[q] <= Len(Stream[q])
               /\ frame'[q] = IF begun'[q] = 0 THEN None ELSE Stream[q][begun'[q]]
               /\ begun'[q] = 0 => pc'[q] = "idle"
               /\ pc'[q] \in {"load", "check", "claim"} => frame'[q] \notin Range(claims')
               /\ pc'[q] \in {"copy", "submit"} =>
                    \E n \in Waiting' : claims'[n] = frame'[q] /\ ask'[q] = places'[n]
               /\ \A k \in begun'[q] + 1 .. Len(Stream[q]) : Stream[q][k] \notin Range(claims')
    BY <1>0, <1>1, <2>1 DEF Owned, producerVars, claimVars
  <2>3. \A m, n \in 1 .. Len(claims') : claims'[m] = claims'[n] => m = n
    BY <1>0, <1>1 DEF Owned, claimVars
  <2>. QED BY <2>2, <2>3 DEF Owned
<1>11. Marks'
  <2> SUFFICES ASSUME NEW c \in Cells
               PROVE  submitRing'[c] = 1 <=>
                        \E n \in Waiting' : claims[n] \notin Busy /\ c = At(EndOf(n))
    BY <1>1, <1>5 DEF Marks, EndOf, claimVars
  <2>1. submitRing[c] = 1 <=> \E n \in Waiting : claims[n] \notin Busy /\ c = At(EndOf(n))
    BY <1>0 DEF Marks
  <2>2. submitRing'[c] = IF c = At(end) THEN 0 ELSE submitRing[c]
    BY <1>0, <1>1, <1>6 DEF Types
  <2>3. At(end) = At(EndOf(t + 1))
    BY <1>2, <1>3
  <2>. QED BY <1>5, <1>6, <2>1, <2>2, <2>3
<1>12. Bytes'
  <2>1. claims' = claims /\ places' = places /\ ring' = ring
    BY <1>1 DEF claimVars
  <2>2. \A n \in Waiting' : claims[n] \notin Copying =>
          \A j \in 0 .. FrameLen[claims[n]] - 1 : ring[At(places[n] + j)] = <<claims[n], j>>
    BY <1>0, <1>5 DEF Bytes
  <2>. QED BY <1>5, <2>1, <2>2 DEF Bytes
<1>13. Found'
  <2>1. end = EndOf(t + 1)
    BY <1>2, <1>3
  <2>. QED BY <1>1, <1>4, <2>1 DEF Found, EndOf, claimVars
<1>14. TakenInOrder'
  <2>1. DOMAIN taken' = 1 .. t + 1 /\ DOMAIN taken = 1 .. t
    BY <1>0, <1>4, LenProperties DEF Types, t
  <2>2. \A i \in 1 .. t + 1 : i \in 1 .. t \/ i = t + 1
    BY <1>3
  <2>3. t + 1 <= Len(claims)
    BY <1>0, <1>2, <1>3, ClaimsOf
  <2>. QED BY <1>0, <1>1, <1>2, <1>3, <1>4, <2>1, <2>2, <2>3 DEF TakenInOrder, claimVars
<1>. QED BY <1>7, <1>8, <1>9, <1>10, <1>11, <1>12, <1>13, <1>14 DEF IInv

LEMMA StoreStep ==
  ASSUME IInv, StoreAvailable
  PROVE  IInv'
<1>0. Types /\ Cursors /\ Asked /\ Owned /\ Marks /\ Bytes /\ TakenInOrder
  BY DEF IInv
<1>1. /\ cpc = "store" /\ cpc' = "idle" /\ availableCursor' = end
      /\ UNCHANGED <<state, bufVars, askCursor, producerVars, claimVars, end, data, taken, misled>>
  BY DEF StoreAvailable, NewAvailable
<1>2. end = EndOf(Len(taken))
  BY <1>1 DEF IInv, Found
<1>3. /\ Len(taken) \in Nat /\ Released' = Len(taken) /\ Released = Len(taken) - 1
      /\ Len(taken) \in 1 .. Len(claims) /\ Len(claims) \in Nat
  <2>1. Len(taken) \in Nat /\ Len(claims) \in Nat /\ Len(taken) <= Len(claims)
    BY <1>0, ClaimsOf
  <2>2. Released' = Len(taken) /\ Released = Len(taken) - 1
    BY <1>1 DEF Released
  <2>3. Released \in Nat
    BY <1>0 DEF Cursors
  <2>. QED BY <2>1, <2>2, <2>3
<1>4. Waiting' = Waiting /\ Busy' = Busy /\ Copying' = Copying
  BY <1>1 DEF Waiting, Busy, Copying, producerVars, claimVars
\* The consumer's cursor moves on.
<1>5. /\ availableCursor \in Nat /\ end \in Nat /\ availableCursor <= end
      /\ askCursor \in Nat /\ ringBufferSize \in Nat
  <2>1. places[Len(taken)] = availableCursor
    BY <1>0, <1>3 DEF Cursors
  <2>2. /\ EndOf(Len(taken)) \in Nat /\ places[Len(taken)] \in Nat
        /\ places[Len(taken)] < EndOf(Len(taken))
    BY <1>0, <1>3, Ranges
  <2>. QED BY <1>0, <1>2, <2>1, <2>2, Ranges, ConstantsAssumption
<1>6. Types'
  BY <1>0, <1>1 DEF Types, bufVars, producerVars, claimVars
<1>7. Cursors'
  <2>1. askCursor - end < ringBufferSize
    BY <1>0, <1>5 DEF Cursors
  <2>. QED BY <1>0, <1>1, <1>2, <1>3, <2>1 DEF Cursors, EndOf, claimVars
<1>8. Asked'
  <2> SUFFICES ASSUME NEW q \in Producers
               PROVE  /\ ask[q] <= askCursor
                      /\ pc[q] = "claim" => ask[q] + Length(q) - end < ringBufferSize
    BY <1>1 DEF Asked, Length, producerVars
  <2>1. ASSUME pc[q] = "claim" PROVE ask[q] + Length(q) - end < ringBufferSize
    <3>1. ask[q] + Length(q) - availableCursor < ringBufferSize
      BY <1>0, <2>1 DEF Asked
    <3>2. frame[q] \in Frames
      BY <1>0, <2>1, FrameOf
    <3>3. ask[q] \in Nat /\ Length(q) \in Nat
      BY <1>0, <3>2, ConstantsAssumption DEF Types, Length
    <3>. QED BY <1>5, <3>1, <3>3
  <2>. QED BY <1>0, <2>1 DEF Asked
<1>9. Owned'
  BY <1>0, <1>1, <1>4 DEF Owned, producerVars, claimVars
<1>10. Marks' /\ Bytes'
  BY <1>0, <1>1, <1>4 DEF Marks, Bytes, EndOf, bufVars, claimVars
<1>11. Found'
  BY <1>1 DEF Found
<1>12. TakenInOrder'
  BY <1>0, <1>1 DEF TakenInOrder, claimVars
<1>. QED BY <1>6, <1>7, <1>8, <1>9, <1>10, <1>11, <1>12 DEF IInv

----------------------------------------------------------------------------
(* The invariant holds until the consumer is misled                         *)

LEMMA StillStep == IInv /\ (SetState \/ UNCHANGED vars) => IInv'
<1> SUFFICES ASSUME IInv, SetState \/ UNCHANGED vars PROVE IInv'
  OBVIOUS
<1>0. Types /\ Cursors /\ Asked /\ Owned /\ Marks /\ Bytes /\ Found /\ TakenInOrder
  BY DEF IInv
<1>1. /\ state' \in {"work", "die"}
      /\ UNCHANGED <<bufVars, cursorVars, producerVars, claimVars, consumerVars>>
  BY <1>0 DEF SetState, vars, Types
<1> USE <1>1 DEF bufVars, cursorVars, producerVars, claimVars, consumerVars
<1>2. Released' = Released /\ Waiting' = Waiting /\ Busy' = Busy /\ Copying' = Copying
  BY DEF Released, Waiting, Busy, Copying
<1>3. Types'
  BY <1>0 DEF Types
<1>4. Cursors' /\ Asked'
  BY <1>0, <1>2 DEF Cursors, Asked, EndOf, Length
<1>5. Owned'
  BY <1>0, <1>2 DEF Owned
<1>6. Marks' /\ Bytes'
  BY <1>0, <1>2 DEF Marks, Bytes, EndOf
<1>7. Found' /\ TakenInOrder'
  BY <1>0, <1>2 DEF Found, TakenInOrder, EndOf
<1>. QED BY <1>3, <1>4, <1>5, <1>6, <1>7 DEF IInv

LEMMA IInvStep == IInv /\ [Next]_vars /\ ~misled' => IInv'
<1> SUFFICES ASSUME IInv, [Next]_vars, ~misled' PROVE IInv'
  OBVIOUS
<1>1. ASSUME NEW p \in Producers, Begin(p) \/ Write(p) PROVE IInv'
  <2>1. CASE Begin(p)
    BY <2>1, BeginStep
  <2>2. CASE Load(p) \/ Check(p) \/ (Claim(p) /\ ~Claimed(p))
    BY <2>2, LookStep
  <2>3. CASE Claim(p) /\ Claimed(p)
    BY <2>3, ClaimStep
  <2>4. CASE Copy(p)
    BY <2>4, CopyStep
  <2>5. CASE Submit(p)
    BY <2>5, SubmitStep
  <2>. QED BY <1>1, <2>1, <2>2, <2>3, <2>4, <2>5 DEF Write
<1>2. CASE Consume
  BY <1>2, ReadLengthStep, ReadMarkStep, ClearMarkStep, StoreStep DEF Consume
<1>3. CASE SetState \/ UNCHANGED vars
  BY <1>3, StillStep
<1>. QED BY <1>1, <1>2, <1>3 DEF Next

\* Only a mark that is found misleads, and for good.
LEMMA MisledStays ==
  /\ [Next]_vars /\ ~misled' => ~misled
  /\ [Next]_vars /\ ~misled => ~misled' \/ (ReadMark /\ submitRing[At(end)] = 1 /\ ~EndsNext)
<1> SUFFICES ASSUME [Next]_vars
             PROVE  \/ misled' <=> misled
                    \/ /\ ReadMark /\ submitRing[At(end)] = 1
                       /\ misled' <=> misled \/ ~EndsNext
  OBVIOUS
<1>1. ASSUME NEW p \in Producers, Begin(p) \/ Write(p) PROVE misled' <=> misled
  BY <1>1 DEF Begin, Write, Load, Check, Claim, Copy, Submit, consumerVars
<1>2. CASE ReadLength \/ ClearMark \/ StoreAvailable
  BY <1>2 DEF ReadLength, ClearMark, StoreAvailable
<1>3. CASE ReadMark
  BY <1>3 DEF ReadMark
<1>4. CASE SetState \/ UNCHANGED vars
  BY <1>4 DEF SetState, vars, consumerVars
<1>. QED BY <1>1, <1>2, <1>3, <1>4 DEF Next, Consume

LEMMA IInvInit == Init => IInv /\ ~misled
<1> SUFFICES ASSUME Init PROVE IInv /\ ~misled
  OBVIOUS
<1> USE DEF Init
<1>1. /\ Len(claims) = 0 /\ Len(places) = 0 /\ Len(taken) = 0 /\ Range(claims) = {}
      /\ DOMAIN taken = {}
  BY DEF Range
<1>2. Released = 0 /\ Waiting = {} /\ EndOf(0) = 0
  BY <1>1 DEF Released, Waiting, EndOf
<1>3. Types
  <2>1. <<Zero, 0>> \in Cell
    BY DEF Cell
  <2>2. ring \in [Cells -> Cell]
    BY <2>1
  <2>3. <<>> \in Seq(Frames) /\ <<>> \in Seq(Nat) /\ <<>> \in Seq(Cell) /\ <<>> \in Seq(Seq(Cell))
    OBVIOUS
  <2>. QED BY <2>2, <2>3 DEF Types
<1>4. Cursors
  BY <1>1, <1>2, ConstantsAssumption DEF Cursors
<1>5. Asked
  BY DEF Asked
<1>6. Owned
  <2>1. \A p \in Producers : Len(Stream[p]) \in Nat
    BY FramesApart
  <2>. QED BY <1>1, <2>1 DEF Owned
<1>7. Marks /\ Bytes
  BY <1>2 DEF Marks, Bytes
<1>8. Found /\ TakenInOrder
  BY <1>1 DEF Found, TakenInOrder
<1>. QED BY <1>3, <1>4, <1>5, <1>6, <1>7, <1>8 DEF IInv

LEMMA IInvCorrect == Spec => [](~misled => IInv)
<1>1. (~misled => IInv) /\ [Next]_vars => (~misled => IInv)'
  BY IInvStep, MisledStays
<1>. QED BY <1>1, IInvInit, PTL DEF Spec

\* As long as the consumer is not misled every variable stays in its type, for frames of
\* any lengths; in particular the consumer never passes the producers, and no producer's
\* cursor is ahead of the ring's.
THEOREM TypeCorrect == Spec => [](~misled => TypeOK)
<1>1. IInv => TypeOK
  <2> SUFFICES ASSUME IInv PROVE TypeOK
    OBVIOUS
  <2>1. Types /\ Cursors /\ Asked
    BY DEF IInv
  <2>2. askCursor \in Nat /\ availableCursor \in 0 .. askCursor
    <3>1. askCursor \in Nat /\ availableCursor \in Nat /\ availableCursor <= askCursor
      BY <2>1, Ranges
    <3>. QED BY <3>1
  <2>3. ask \in [Producers -> 0 .. askCursor]
    BY <2>1, <2>2 DEF Types, Asked
  <2>. QED BY <2>1, <2>2, <2>3 DEF TypeOK, Types
<1>. QED BY <1>1, IInvCorrect, PTL

\* As long as it is not misled the consumer gets the frames whole, each once, in the order
\* of their claims, however far the producers run ahead of it and of each other and
\* whatever the lengths: a wrong length does harm only where a mark answers to it.
THEOREM FramesAreTakenInOrder == Spec => [](~misled => TakenInOrder)
<1>1. IInv => TakenInOrder
  BY DEF IInv
<1>. QED BY <1>1, IInvCorrect, PTL

----------------------------------------------------------------------------
(* The ring as a queue                                                      *)

\* What is behind the first t members of a sequence.
LEMMA Behind ==
  ASSUME NEW S, NEW s \in Seq(S), NEW t \in 0 .. Len(s)
  PROVE  LET b == SubSeq(s, t + 1, Len(s))
         IN  /\ b \in Seq(S) /\ Len(b) = Len(s) - t /\ DOMAIN b = 1 .. Len(s) - t
             /\ \A i \in 1 .. Len(s) - t : b[i] = s[t + i] /\ t + i \in t + 1 .. Len(s)
<1> DEFINE n == Len(s)
           b == SubSeq(s, t + 1, n)
<1>1. n \in Nat /\ \A i \in 1 .. n : s[i] \in S
  BY LenProperties
<1>2. \A i \in t + 1 .. n : s[i] \in S
  BY <1>1
<1>3. /\ b \in Seq(S) /\ Len(b) = IF t + 1 <= n THEN n - (t + 1) + 1 ELSE 0
      /\ \A i \in 1 .. n - (t + 1) + 1 : b[i] = s[(t + 1) + i - 1]
  BY <1>1, <1>2, SubSeqProperties
<1> HIDE DEF b, n
<1>4. Len(b) = n - t
  BY <1>1, <1>3 DEF n
<1>5. ASSUME NEW i \in 1 .. n - t PROVE b[i] = s[t + i] /\ t + i \in t + 1 .. n
  <2>1. i \in 1 .. n - (t + 1) + 1 /\ (t + 1) + i - 1 = t + i /\ t + i \in t + 1 .. n
    BY <1>1 DEF n
  <2>. QED BY <1>3, <2>1
<1>6. DOMAIN b = 1 .. Len(b)
  BY <1>3, LenProperties
<1>. QED BY <1>3, <1>4, <1>5, <1>6 DEF b, n

\* One more at the end of the sequence is one more behind.
LEMMA BehindAppend ==
  ASSUME NEW S, NEW s \in Seq(S), NEW e \in S, NEW t \in 0 .. Len(s)
  PROVE  SubSeq(Append(s, e), t + 1, Len(Append(s, e)))
           = Append(SubSeq(s, t + 1, Len(s)), e)
<1> DEFINE n == Len(s)
           u == Append(s, e)
           b == SubSeq(s, t + 1, n)
           c == SubSeq(u, t + 1, Len(u))
           d == Append(b, e)
<1>1. n \in Nat /\ u \in Seq(S) /\ Len(u) = n + 1 /\ u[n + 1] = e
      /\ \A i \in 1 .. n : u[i] = s[i]
  BY LenProperties, AppendProperties
<1> HIDE DEF u
<1>2. t \in 0 .. Len(u)
  BY <1>1
<1>3. /\ b \in Seq(S) /\ Len(b) = n - t
      /\ \A i \in 1 .. n - t : b[i] = s[t + i] /\ t + i \in t + 1 .. n
  BY Behind
<1>4. /\ c \in Seq(S) /\ Len(c) = Len(u) - t
      /\ \A i \in 1 .. Len(u) - t : c[i] = u[t + i] /\ t + i \in t + 1 .. Len(u)
  BY <1>1, <1>2, Behind
<1> HIDE DEF b, c
<1>5. /\ d \in Seq(S) /\ Len(d) = Len(b) + 1 /\ d[Len(b) + 1] = e
      /\ \A i \in 1 .. Len(b) : d[i] = b[i]
  BY <1>3, AppendProperties
<1> HIDE DEF d, n
<1>6. Len(c) = Len(d) /\ Len(c) = (n - t) + 1 /\ n - t \in Nat
  BY <1>1, <1>3, <1>4, <1>5 DEF n
<1>7. ASSUME NEW i \in 1 .. Len(c) PROVE c[i] = d[i]
  <2>1. i \in 1 .. n - t \/ i = (n - t) + 1
    BY <1>6
  <2>2. CASE i \in 1 .. n - t
    <3>1. d[i] = s[t + i] /\ t + i \in t + 1 .. n
      BY <1>3, <1>5, <2>2
    <3>2. c[i] = u[t + i]
      BY <1>4
    <3>3. t + i \in 1 .. n
      BY <1>1, <3>1
    <3>. QED BY <1>1, <3>1, <3>2, <3>3
  <2>3. CASE i = (n - t) + 1
    <3>1. t + i = n + 1
      BY <1>1, <2>3
    <3>2. c[i] = u[t + i]
      BY <1>4
    <3>. QED BY <1>1, <1>3, <1>5, <2>3, <3>1, <3>2
  <2>. QED BY <2>1, <2>2, <2>3
<1>8. c = d
  BY <1>4, <1>5, <1>6, <1>7, SeqEqual
<1>. QED BY <1>8 DEF b, c, d, n, u

\* The three variables of the queue, and the frames that wait.
Queued == SubSeq(claims, Len(taken) + 1, Len(claims))
Ready ==
  {f \in Range(Queued) : \A p \in Producers : frame[p] = f => pc[p] \notin {"copy", "submit"}}
Rest == {claims[n] : n \in Waiting}
Worked == [i \in DOMAIN taken |-> FrameIn(taken[i])]

\* What they are, as the invariant has it.
LEMMA QueueOf ==
  ASSUME IInv
  PROVE  /\ claims \in Seq(Frames) /\ Len(taken) \in 0 .. Len(claims)
         /\ Range(Queued) = Rest
         /\ Ready = Range(Queued) \ Busy
         /\ Worked = [i \in 1 .. Len(taken) |-> claims[i]]
<1>1. Types /\ Cursors /\ TakenInOrder
  BY DEF IInv
<1> DEFINE t == Len(taken)
           n == Len(claims)
<1>2. /\ claims \in Seq(Frames) /\ n \in Nat /\ t \in Nat /\ t \in 0 .. n
      /\ \A i \in 1 .. n : claims[i] \in Frames
      /\ DOMAIN taken = 1 .. t
  <2>1. t \in Nat /\ n \in Nat /\ t <= n
    BY <1>1, ClaimsOf
  <2>2. t \in 0 .. n
    BY <2>1
  <2>. QED BY <1>1, <2>1, <2>2, ClaimsOf, LenProperties DEF Types
<1> HIDE DEF t, n
<1>3. /\ DOMAIN Queued = 1 .. n - t
      /\ \A i \in 1 .. n - t : Queued[i] = claims[t + i] /\ t + i \in t + 1 .. n
  BY <1>2, Behind DEF Queued, t, n
<1>4. Range(Queued) = {claims[m] : m \in Waiting}
  <2>1. ASSUME NEW m \in Waiting PROVE claims[m] \in Range(Queued)
    <3>1. m - t \in 1 .. n - t /\ t + (m - t) = m
      BY <1>2 DEF Waiting, t, n
    <3>2. Queued[m - t] = claims[m]
      BY <1>3, <3>1
    <3>. QED BY <1>3, <3>1, <3>2 DEF Range
  <2>2. ASSUME NEW i \in 1 .. n - t PROVE Queued[i] \in {claims[m] : m \in Waiting}
    BY <1>3 DEF Waiting, t, n
  <2>. QED BY <1>3, <2>1, <2>2 DEF Range
<1>5. Ready = Range(Queued) \ Busy
  BY DEF Ready, Busy
<1>6. Worked = [i \in 1 .. t |-> claims[i]]
  <2>1. ASSUME NEW i \in 1 .. t PROVE FrameIn(taken[i]) = claims[i]
    <3>1. taken[i] = Whole(claims[i])
      BY <1>1, <1>2 DEF TakenInOrder
    <3>2. claims[i] \in Frames
      BY <1>2
    <3>3. \A g \in Frames : Whole(claims[i]) = Whole(g) => claims[i] = g
      BY <3>2, WholeFrames
    <3>. QED BY <3>1, <3>2, <3>3 DEF FrameIn
  <2>. QED BY <1>2, <2>1 DEF Worked
<1>. QED BY <1>2, <1>4, <1>5, <1>6 DEF t, n, Rest

\* A claim is the queue's.
LEMMA ClaimIsClaim ==
  ASSUME IInv, IInv', NEW p \in Producers, Claim(p), Claimed(p)
  PROVE  /\ frame[p] \in Frames
         /\ frame[p] \notin Range(Queued) \cup Range(Worked)
         /\ Queued' = Append(Queued, frame[p]) /\ Ready' = Ready /\ Worked' = Worked
<1>0. Types /\ Cursors /\ Owned /\ Types'
  BY DEF IInv
<1>1. /\ pc[p] = "claim" /\ pc' = [pc EXCEPT ![p] = "copy"]
      /\ claims' = Append(claims, frame[p]) /\ UNCHANGED <<frame, consumerVars>>
  BY DEF Claim, Claimed, Goto
<1>2. frame[p] \in Frames /\ frame[p] \notin Range(claims)
  BY <1>0, <1>1, FrameOf DEF Owned
<1> DEFINE t == Len(taken)
<1>3. /\ claims \in Seq(Frames) /\ t \in 0 .. Len(claims)
      /\ Range(Queued) = {claims[n] : n \in Waiting} /\ Ready = Range(Queued) \ Busy
      /\ Worked = [i \in 1 .. t |-> claims[i]]
  BY QueueOf DEF Rest
<1>4. /\ Ready' = Range(Queued)' \ Busy' /\ Worked' = [i \in 1 .. Len(taken)' |-> claims'[i]]
  <2>1. (IInv => /\ Ready = Range(Queued) \ Busy
                              /\ Worked = [i \in 1 .. Len(taken) |-> claims[i]])'
    BY QueueOf, PTL
  <2>. QED BY <2>1
<1>5. Queued' = Append(Queued, frame[p])
  BY <1>1, <1>2, <1>3, BehindAppend DEF Queued, consumerVars
<1>6. \A n \in 1 .. Len(claims) : claims[n] \in Range(claims) /\ claims'[n] = claims[n]
  <2>1. DOMAIN claims = 1 .. Len(claims)
    BY <1>3, LenProperties
  <2>2. \A n \in 1 .. Len(claims) : claims[n] \in Range(claims)
    BY <2>1 DEF Range
  <2>3. \A n \in 1 .. Len(claims) : Append(claims, frame[p])[n] = claims[n]
    BY <1>2, <1>3, AppendProperties
  <2>. QED BY <1>1, <2>2, <2>3
<1>7. Worked' = Worked
  <2>1. \A i \in 1 .. t : i \in 1 .. Len(claims)
    BY <1>0, ClaimsOf
  <2>2. Len(taken)' = t
    BY <1>1 DEF consumerVars
  <2>. QED BY <1>3, <1>4, <1>6, <2>1, <2>2
<1>8. Range(Queued) \subseteq Range(claims) /\ Range(Worked) \subseteq Range(claims)
  <2>1. Waiting \subseteq 1 .. Len(claims) /\ \A i \in 1 .. t : i \in 1 .. Len(claims)
    BY <1>0, ClaimsOf
  <2>2. Range(Queued) \subseteq Range(claims)
    BY <1>3, <1>6, <2>1
  <2>3. Range(Worked) \subseteq Range(claims)
    BY <1>3, <1>6, <2>1 DEF Range
  <2>. QED BY <2>2, <2>3
<1>9. Ready' = Ready
  <2>1. Range(Queued)' = Range(Queued) \cup {frame[p]}
    <3>1. Queued \in Seq(Frames)
      BY <1>3, Behind DEF Queued
    <3> DEFINE q == Queued
               m == Len(q)
    <3>2. /\ DOMAIN Queued = 1 .. m /\ DOMAIN Queued' = 1 .. m + 1 /\ m \in Nat
          /\ Queued'[m + 1] = frame[p] /\ \A i \in 1 .. m : Queued'[i] = Queued[i]
      BY <1>2, <1>5, <3>1, AppendProperties, LenProperties
    <3> HIDE DEF q, m
    <3>3. \A i \in 1 .. m + 1 : i \in 1 .. m \/ i = m + 1
      BY <3>2
    <3>4. m + 1 \in 1 .. m + 1 /\ \A i \in 1 .. m : i \in 1 .. m + 1
      BY <3>2
    <3>. QED BY <3>2, <3>3, <3>4 DEF Range
  <2>2. Busy' = Busy \cup {frame[p]}
    <3>1. pc'[p] = "copy" /\ \A q \in Producers : q # p => pc'[q] = pc[q]
      BY <1>0, <1>1 DEF Types
    <3>. QED BY <1>1, <3>1 DEF Busy
  <2>. QED BY <1>2, <1>3, <1>4, <1>8, <2>1, <2>2
<1>. QED BY <1>2, <1>5, <1>7, <1>8, <1>9

\* A submission fills a place of the queue.
LEMMA SubmitIsFill ==
  ASSUME IInv, NEW p \in Producers, Submit(p)
  PROVE  /\ frame[p] \in Range(Queued) \ Ready
         /\ Ready' = Ready \cup {frame[p]} /\ Queued' = Queued /\ Worked' = Worked
<1>0. Types /\ Cursors /\ Owned
  BY DEF IInv
<1>1. /\ pc[p] = "submit" /\ pc' = [pc EXCEPT ![p] = "ok"]
      /\ UNCHANGED <<frame, claimVars, consumerVars>>
  BY DEF Submit, Goto
<1>2. PICK n \in Waiting :
        /\ claims[n] = frame[p]
        /\ \A q \in Producers : q # p /\ pc[q] # "idle" => frame[q] # frame[p]
  BY <1>1, Holder
<1>3. Range(Queued) = {claims[m] : m \in Waiting} /\ Ready = Range(Queued) \ Busy
  BY QueueOf DEF Rest
<1>4. Queued' = Queued /\ Worked' = Worked
  BY <1>1 DEF Queued, Worked, claimVars, consumerVars
<1>5. frame[p] \in Range(Queued) /\ frame[p] \in Busy
  BY <1>1, <1>2, <1>3 DEF Busy
<1>6. /\ pc'[p] = "ok" /\ \A q \in Producers : q # p => pc'[q] = pc[q]
  BY <1>0, <1>1 DEF Types
<1>7. Ready' = Ready \cup {frame[p]}
  <2>1. ASSUME NEW f \in Range(Queued), f # frame[p]
        PROVE  (\A q \in Producers : frame[q] = f => pc'[q] \notin {"copy", "submit"})
                 <=> (\A q \in Producers : frame[q] = f => pc[q] \notin {"copy", "submit"})
    BY <1>1, <1>6, <2>1
  <2>2. \A q \in Producers : frame[q] = frame[p] => pc'[q] \notin {"copy", "submit"}
    <3> SUFFICES ASSUME NEW q \in Producers, frame[q] = frame[p]
                 PROVE  pc'[q] \notin {"copy", "submit"}
      OBVIOUS
    <3>1. CASE q = p
      BY <1>6, <3>1
    <3>2. CASE q # p
      <4>1. pc[q] = "idle"
        BY <1>2, <3>2
      <4>. QED BY <1>6, <3>2, <4>1
    <3>. QED BY <3>1, <3>2
  <2>. QED BY <1>1, <1>4, <1>5, <2>1, <2>2 DEF Ready
<1>. QED BY <1>3, <1>4, <1>5, <1>7

\* The consumer's taking is the queue's.
LEMMA ClearMarkIsTake ==
  ASSUME IInv, IInv', ClearMark
  PROVE  /\ Queued # <<>> /\ Head(Queued) \in Ready
         /\ Worked' = Append(Worked, Head(Queued))
         /\ Queued' = Tail(Queued) /\ Ready' = Ready \ {Head(Queued)}
<1>0. Types /\ Cursors /\ Owned
  BY DEF IInv
<1> DEFINE t == Len(taken)
           n == Len(claims)
<1>1. /\ cpc = "got" /\ taken' = Append(taken, data)
      /\ UNCHANGED <<claims, producerVars>>
  BY DEF ClearMark, claimVars
<1>2. Released < n /\ claims[Released + 1] \notin Busy
  BY <1>1 DEF IInv, Found
<1>3. Released = t /\ t + 1 \in Waiting
  BY <1>1, <1>2, NextFrame
<1>4. /\ claims \in Seq(Frames) /\ t \in 0 .. n
      /\ Range(Queued) = {claims[m] : m \in Waiting} /\ Ready = Range(Queued) \ Busy
      /\ Worked = [i \in 1 .. t |-> claims[i]]
  BY QueueOf DEF Rest
<1>5. /\ Ready' = Range(Queued)' \ Busy' /\ Range(Queued)' = {claims'[m] : m \in Waiting'}
      /\ Worked' = [i \in 1 .. Len(taken)' |-> claims'[i]]
  <2>1. (IInv => /\ Ready = Range(Queued) \ Busy
                              /\ Range(Queued) = Rest
                              /\ Worked = [i \in 1 .. Len(taken) |-> claims[i]])'
    BY QueueOf, PTL
  <2>. QED BY <2>1 DEF Rest
<1>6. /\ n \in Nat /\ t \in Nat /\ Len(taken)' = t + 1 /\ t + 1 \in 1 .. n
      /\ \A i \in 1 .. n : claims[i] \in Frames
  <2>1. data \in Seq(Cell) /\ taken \in Seq(Seq(Cell))
    BY <1>0 DEF Types
  <2>. QED BY <1>0, <1>1, <1>3, <2>1, ClaimsOf, AppendProperties
<1>7. /\ Queued \in Seq(Frames) /\ Len(Queued) = n - t
      /\ Head(Queued) = claims[t + 1] /\ Tail(Queued) = SubSeq(claims, (t + 1) + 1, n)
  <2>1. t + 1 \in 1 .. n /\ n \in t + 1 .. n
    BY <1>6
  <2>. QED BY <1>4, <2>1, Behind, HeadTailOfSubSeq DEF Queued
<1>8. Queued # <<>>
  BY <1>6, <1>7
<1>9. Head(Queued) \in Ready
  BY <1>2, <1>3, <1>4, <1>7
<1>10. Queued' = Tail(Queued)
  BY <1>1, <1>6, <1>7 DEF Queued
<1>11. Worked' = Append(Worked, Head(Queued))
  <2> DEFINE w == [i \in 1 .. t |-> claims[i]]
             v == [i \in 1 .. t + 1 |-> claims[i]]
  <2>1. w \in Seq(Frames) /\ Len(w) = t /\ v \in Seq(Frames) /\ Len(v) = t + 1
    <3>1. \A i \in 1 .. t + 1 : claims[i] \in Frames
      BY <1>6
    <3>2. \A i \in 1 .. t : i \in 1 .. t + 1
      BY <1>6
    <3>3. t + 1 \in Nat
      BY <1>6
    <3> HIDE DEF t
    <3>. QED BY <1>6, <3>1, <3>2, <3>3
  <2>2. claims[t + 1] \in Frames
    BY <1>6
  <2>3. /\ Append(w, claims[t + 1]) \in Seq(Frames) /\ Len(Append(w, claims[t + 1])) = t + 1
        /\ Append(w, claims[t + 1])[t + 1] = claims[t + 1]
        /\ \A i \in 1 .. t : Append(w, claims[t + 1])[i] = w[i]
    BY <2>1, <2>2, AppendProperties
  <2>4. \A i \in 1 .. t + 1 : i \in 1 .. t \/ i = t + 1
    BY <1>6
  <2>5. ASSUME NEW i \in 1 .. t + 1 PROVE v[i] = Append(w, claims[t + 1])[i]
    <3>1. CASE i \in 1 .. t
      BY <2>3, <3>1
    <3>2. CASE i = t + 1
      BY <2>3, <3>2
    <3>. QED BY <2>4, <3>1, <3>2
  <2>6. v = Append(w, claims[t + 1])
    <3> HIDE DEF v, w
    <3>. QED BY <2>1, <2>3, <2>5, SeqEqual
  <2>7. Worked' = v /\ Worked = w
    BY <1>1, <1>4, <1>5, <1>6
  <2>. QED BY <1>7, <2>6, <2>7
<1>12. Ready' = Ready \ {Head(Queued)}
  <2>1. Busy' = Busy
    BY <1>1 DEF Busy, producerVars
  <2>2. Waiting' = Waiting \ {t + 1} /\ Waiting \subseteq 1 .. n
    <3>1. Waiting' = (t + 1) + 1 .. n
      BY <1>1, <1>6 DEF Waiting
    <3>2. Waiting = t + 1 .. n
      BY DEF Waiting
    <3> HIDE DEF t, n
    <3>. QED BY <1>6, <3>1, <3>2
  <2>3. \A m \in Waiting : m # t + 1 => claims[m] # claims[t + 1]
    BY <1>0, <1>6, <2>2 DEF Owned
  <2> HIDE DEF t
  <2>. QED BY <1>1, <1>4, <1>5, <1>7, <2>1, <2>2, <2>3
<1>. QED BY <1>8, <1>9, <1>10, <1>11, <1>12

\* Every step is one of the queue's, or none.
LEMMA QueueStep ==
  IInv /\ IInv' /\ [Next]_vars => [Queue!Next]_(Queue!vars)
<1> SUFFICES ASSUME IInv, IInv', [Next]_vars
             PROVE  Queue!Next \/ UNCHANGED Queue!vars
  OBVIOUS
<1>1. ASSUME NEW S PROVE Queue!In(S) = Range(S)
  BY DEF Queue!In, Range
<1>2. ASSUME UNCHANGED <<Queued, Ready, Worked>> PROVE UNCHANGED Queue!vars
  BY <1>2 DEF Queue!vars, Queued, Ready, Worked
<1>3. ASSUME UNCHANGED <<claims, taken, Busy>> PROVE UNCHANGED Queue!vars
  <2>1. Queued' = Queued /\ Worked' = Worked
    BY <1>3 DEF Queued, Worked
  <2>2. Ready = Range(Queued) \ Busy
    BY QueueOf
  <2>3. Ready' = Range(Queued)' \ Busy'
    <3>1. (IInv => Ready = Range(Queued) \ Busy)'
      BY QueueOf, PTL
    <3>. QED BY <3>1
  <2>4. Ready' = Ready
    BY <1>3, <2>1, <2>2, <2>3
  <2>. QED BY <1>2, <2>1, <2>4
<1>4. Types
  BY DEF IInv
<1>5. ASSUME NEW p \in Producers, Begin(p) \/ Write(p)
      PROVE  Queue!Next \/ UNCHANGED Queue!vars
  <2>1. CASE Begin(p)
    <3>1. /\ pc[p] \notin {"copy", "submit"} /\ pc'[p] \notin {"copy", "submit"}
          /\ \A q \in Producers : q # p => pc'[q] = pc[q] /\ frame'[q] = frame[q]
          /\ UNCHANGED <<claims, taken>>
      BY <1>4, <2>1 DEF Begin, Goto, Types, Fate, claimVars, consumerVars
    <3>. QED BY <1>3, <3>1 DEF Busy
  <2>2. CASE Load(p) \/ Check(p) \/ (Claim(p) /\ ~Claimed(p))
    <3>1. /\ pc[p] \notin {"copy", "submit"} /\ pc'[p] \notin {"copy", "submit"}
          /\ \A q \in Producers : q # p => pc'[q] = pc[q]
          /\ UNCHANGED <<claims, taken, frame>>
      BY <1>4, <2>2 DEF Load, Check, Claim, Goto, Types, claimVars, consumerVars
    <3>. QED BY <1>3, <3>1 DEF Busy
  <2>3. CASE Claim(p) /\ Claimed(p)
    <3>1. /\ frame[p] \in Frames
          /\ frame[p] \notin Range(Queued) \cup Range(Worked)
          /\ Queued' = Append(Queued, frame[p]) /\ Ready' = Ready /\ Worked' = Worked
      BY <2>3, ClaimIsClaim
    <3>2. PICK f \in Frames : f = frame[p]
      BY <3>1
    <3>3. Queue!Claim(f)
      BY <1>1, <3>1, <3>2 DEF Queue!Claim, Queued, Ready, Worked
    <3>. QED BY <3>3 DEF Queue!Next
  <2>4. CASE Copy(p)
    <3>1. /\ pc[p] = "copy" /\ pc'[p] = "submit"
          /\ \A q \in Producers : q # p => pc'[q] = pc[q]
          /\ UNCHANGED <<claims, taken, frame>>
      BY <1>4, <2>4 DEF Copy, Goto, Types, claimVars, consumerVars
    <3>. QED BY <1>3, <3>1 DEF Busy
  <2>5. CASE Submit(p)
    <3>1. /\ frame[p] \in Range(Queued) \ Ready
          /\ Ready' = Ready \cup {frame[p]} /\ Queued' = Queued /\ Worked' = Worked
      BY <2>5, SubmitIsFill
    <3>2. PICK f \in Frames : f = frame[p]
      BY <1>4, <2>5, FrameOf DEF Submit, IInv
    <3>3. Queue!Fill(f)
      BY <1>1, <3>1, <3>2 DEF Queue!Fill, Queued, Ready, Worked
    <3>. QED BY <3>3 DEF Queue!Next
  <2>. QED BY <1>5, <2>1, <2>2, <2>3, <2>4, <2>5 DEF Write
<1>6. CASE ReadLength \/ ReadMark \/ StoreAvailable \/ SetState \/ UNCHANGED vars
  <2>1. UNCHANGED <<claims, taken, pc, frame>>
    BY <1>6 DEF ReadLength, ReadMark, StoreAvailable, SetState, vars, producerVars,
                claimVars, consumerVars
  <2>. QED BY <1>3, <2>1 DEF Busy
<1>7. CASE ClearMark
  <2>1. /\ Queued # <<>> /\ Head(Queued) \in Ready
        /\ Worked' = Append(Worked, Head(Queued))
        /\ Queued' = Tail(Queued) /\ Ready' = Ready \ {Head(Queued)}
    BY <1>7, ClearMarkIsTake
  <2>2. Queue!Take
    BY <2>1 DEF Queue!Take, Queue!HasReady, Queued, Ready, Worked
  <2>. QED BY <2>2 DEF Queue!Next
<1>. QED BY <1>5, <1>6, <1>7 DEF Next, Consume

\* In a behaviour that does not mislead the consumer the ring is a queue, for frames of any
\* lengths: frames in the order of their claims, none taken before it is submitted, each
\* taken once.
THEOREM RingImplementsQueue == Spec /\ [](~misled) => ImplementsQueue
<1>1. Init => Queue!Init
  <2> SUFFICES ASSUME Init PROVE Queue!Init
    OBVIOUS
  <2>1. claims = <<>> /\ taken = <<>>
    BY DEF Init
  <2>2. Queued = <<>>
    BY <2>1 DEF Queued
  <2>3. Ready = {} /\ Worked = <<>>
    BY <2>1, <2>2 DEF Ready, Worked, Range
  <2>. QED BY <2>2, <2>3 DEF Queue!Init, Queued, Ready, Worked
<1>2. IInv /\ IInv' /\ [Next]_vars => [Queue!Next]_(Queue!vars)
  BY QueueStep
<1>. QED BY <1>1, <1>2, IInvCorrect, PTL DEF Spec, ImplementsQueue, Queue!Spec

----------------------------------------------------------------------------
(* Frames of one length                                                     *)

\* Frames of one length that divides the ring, as in the repository's tests: then a frame
\* begins where others began in earlier rounds, and the consumer never takes data for a
\* length.
IsLength(l) ==
  /\ l \in Nat \ {0}
  /\ \E k \in Nat \ {0} : ringBufferSize = l * k
  /\ \A f \in Frames : FrameLen[f] = l

OneLength == \E l : IsLength(l)

L == CHOOSE l : IsLength(l)
K == CHOOSE k \in Nat \ {0} : ringBufferSize = L * k

\* The cell of byte j behind n frames.
CellOf(n, j) == At(L * n + j)

LEMMA Lengths ==
  ASSUME OneLength
  PROVE  /\ L \in Nat \ {0} /\ K \in Nat \ {0} /\ ringBufferSize = L * K
         /\ \A f \in Frames : FrameLen[f] = L /\ L < ringBufferSize
<1>1. IsLength(L)
  BY DEF OneLength, L
<1>2. K \in Nat \ {0} /\ ringBufferSize = L * K
  BY <1>1 DEF IsLength, K
<1>. QED BY <1>1, <1>2, ConstantsAssumption DEF IsLength

\* A row and a place in it are found from the cell.
LEMMA RowAndPlace ==
  ASSUME NEW l \in Nat \ {0}, NEW a \in Nat, NEW b \in Nat,
         NEW i \in 0 .. l - 1, NEW j \in 0 .. l - 1, l * a + i = l * b + j
  PROVE  a = b /\ i = j
<1>1. ~(a < b)
  <2> SUFFICES ASSUME a < b PROVE FALSE
    OBVIOUS
  <2>1. b >= a + 1
    OBVIOUS
  <2>2. l * b >= l * (a + 1)
    BY <2>1
  <2>3. l * (a + 1) = l * a + l
    OBVIOUS
  <2>. QED BY <2>2, <2>3
<1>2. ~(b < a)
  <2> SUFFICES ASSUME b < a PROVE FALSE
    OBVIOUS
  <2>1. a >= b + 1
    OBVIOUS
  <2>2. l * a >= l * (b + 1)
    BY <2>1
  <2>3. l * (b + 1) = l * b + l
    OBVIOUS
  <2>. QED BY <2>2, <2>3
<1>. QED BY <1>1, <1>2

\* Where byte j behind n frames is, by the round and the place of the frame.
LEMMA CellInRound ==
  ASSUME OneLength, NEW q \in Nat, NEW s \in 0 .. K - 1, NEW j \in 0 .. L - 1
  PROVE  CellOf(K * q + s, j) = L * s + j /\ L * s + j \in Cells
<1> DEFINE b == L * K
           x == L * s + j
<1>1. L \in Nat \ {0} /\ K \in Nat \ {0} /\ ringBufferSize = b
  BY Lengths
<1>2. b \in Nat \ {0}
  BY <1>1
<1>3. x \in 0 .. b - 1
  <2>1. L * (s + 1) <= L * K
    BY <1>1
  <2>2. L * (s + 1) = L * s + L
    BY <1>1
  <2>. QED BY <1>1, <2>1, <2>2
<1>4. L * (K * q + s) + j = b * q + x
  BY <1>1
<1>5. (b * q + x) % b = x
  <2> HIDE DEF b, x
  <2>. QED BY <1>2, <1>3, DivMod
<1> HIDE DEF b, x
<1>6. CellOf(K * q + s, j) = x /\ x \in Cells
  BY <1>1, <1>3, <1>4, <1>5 DEF CellOf, At, Cells
<1>. QED BY <1>6 DEF x

\* A byte has its place in a frame in every round, and less than a round apart two frames
\* have no cell in common.
LEMMA CellsApart ==
  ASSUME OneLength, NEW m \in Nat, NEW n \in Nat, NEW i \in 0 .. L - 1, NEW j \in 0 .. L - 1
  PROVE  /\ CellOf(n, j) \in Cells
         /\ CellOf(m, i) = CellOf(n, j) => i = j
         /\ m < n /\ n < m + K => CellOf(m, i) # CellOf(n, j)
<1>1. L \in Nat \ {0} /\ K \in Nat \ {0}
  BY Lengths
<1>2. PICK p \in Nat, s \in 0 .. K - 1 : m = K * p + s
  BY <1>1, Rounds
<1>3. PICK q \in Nat, t \in 0 .. K - 1 : n = K * q + t
  BY <1>1, Rounds
<1>4. CellOf(m, i) = L * s + i
  BY <1>2, CellInRound
<1>5. CellOf(n, j) = L * t + j /\ L * t + j \in Cells
  BY <1>3, CellInRound
<1>6. CellOf(m, i) = CellOf(n, j) => s = t /\ i = j
  BY <1>1, <1>4, <1>5, RowAndPlace
<1>7. ASSUME m < n, n < m + K PROVE s # t
  <2> SUFFICES ASSUME s = t PROVE FALSE
    OBVIOUS
  <2>1. K * p < K * q /\ K * q < K * p + K
    BY <1>1, <1>2, <1>3, <1>7
  <2>2. ~(q <= p)
    <3> SUFFICES ASSUME q <= p PROVE FALSE
      OBVIOUS
    <3>1. K * q <= K * p
      BY <1>1
    <3>. QED BY <1>1, <2>1, <3>1
  <2>3. p + 1 <= q
    BY <2>2
  <2>4. K * (p + 1) <= K * q /\ K * (p + 1) = K * p + K
    BY <1>1, <2>3
  <2>. QED BY <1>1, <2>1, <2>4
<1>. QED BY <1>5, <1>6, <1>7

\* The frames lie in rows; where a row begins there is never data of an older frame, so
\* that the consumer computes the end of the next frame or, from a fresh cell, none.
Rows ==
  /\ ~misled
  /\ \A n \in 1 .. Len(claims) : places[n] = L * (n - 1)
  /\ \A n \in Nat : ring[CellOf(n, 0)][1] = Zero \/ ring[CellOf(n, 0)][2] = 0
  /\ cpc = "mark" => end = availableCursor \/ end = availableCursor + L

\* The cursors of the producers and of the consumer are at the beginning of a row.
LEMMA RowCursors ==
  ASSUME OneLength, IInv, Rows
  PROVE  \A n \in 0 .. Len(claims) : EndOf(n) = L * n
<1>1. Types /\ Cursors
  BY DEF IInv
<1>2. L \in Nat \ {0}
  BY Lengths
<1> SUFFICES ASSUME NEW n \in 0 .. Len(claims) PROVE EndOf(n) = L * n
  OBVIOUS
<1>3. CASE n = 0
  BY <1>2, <1>3 DEF EndOf
<1>4. CASE n # 0
  <2>1. n \in 1 .. Len(claims) /\ n \in Nat
    BY <1>1, <1>4, ClaimsOf
  <2>2. claims[n] \in Frames
    BY <1>1, <2>1, ClaimsOf
  <2>3. FrameLen[claims[n]] = L
    BY <2>2, Lengths
  <2>4. EndOf(n) = places[n] + L
    BY <1>1, <2>1, <2>3, Ranges
  <2>5. places[n] = L * (n - 1)
    BY <2>1 DEF Rows
  <2>6. L * (n - 1) + L = L * n
    BY <1>2, <2>1
  <2>. QED BY <2>4, <2>5, <2>6
<1>. QED BY <1>3, <1>4

LEMMA RowsStep == OneLength /\ IInv /\ Rows /\ [Next]_vars => IInv' /\ Rows'
<1> SUFFICES ASSUME OneLength, IInv, Rows, [Next]_vars PROVE IInv' /\ Rows'
  OBVIOUS
<1>1. Types /\ Cursors /\ Asked /\ Owned /\ Marks
  BY DEF IInv
<1>2. L \in Nat \ {0} /\ ringBufferSize \in Nat /\ 0 \in 0 .. L - 1
  BY Lengths, ConstantsAssumption
<1>3. ~misled'
  <2>1. ASSUME ReadMark, submitRing[At(end)] = 1 PROVE EndsNext
    <3>1. cpc = "mark" /\ Released < Len(claims)
      BY <2>1 DEF ReadMark, IInv, Found
    <3>2. /\ Released = Len(taken) /\ Released \in Nat /\ Released + 1 \in Waiting
          /\ places[Released + 1] = availableCursor
          /\ claims[Released + 1] \in Frames
      BY <3>1, NextFrame
    <3>3. FrameLen[claims[Released + 1]] = L
      BY <3>2, Lengths
    <3>4. availableCursor \in Nat /\ askCursor \in Nat
      BY <1>1, Ranges
    <3>5. end # availableCursor
      <4> SUFFICES ASSUME end = availableCursor PROVE FALSE
        OBVIOUS
      <4>1. At(availableCursor) \in Cells
        BY <3>4, AtApart
      <4>2. PICK n \in Waiting : At(availableCursor) = At(EndOf(n))
        BY <1>1, <2>1, <4>1 DEF Marks
      <4>3. /\ EndOf(n) \in Nat /\ places[n] \in Nat /\ places[n] < EndOf(n)
            /\ availableCursor <= places[n] /\ EndOf(n) <= askCursor
        BY <1>1, ClaimsOf, Ranges
      <4>4. availableCursor < EndOf(n) /\ EndOf(n) - availableCursor < ringBufferSize
        <5>1. askCursor - availableCursor < ringBufferSize
          BY <1>1 DEF Cursors
        <5> DEFINE e == EndOf(n)
                   b == places[n]
        <5>2. e \in Nat /\ b \in Nat /\ b < e /\ availableCursor <= b /\ e <= askCursor
          BY <4>3
        <5> HIDE DEF e, b
        <5>3. availableCursor < e /\ e - availableCursor < ringBufferSize
          BY <1>2, <3>4, <5>1, <5>2
        <5>. QED BY <5>3 DEF e
      <4>. QED BY <3>4, <4>2, <4>3, <4>4, AtApart
    <3>6. end = availableCursor + L
      BY <3>1, <3>5 DEF Rows
    <3>7. Len(taken) + 1 <= Len(claims)
      BY <1>1, <3>1, <3>2, ClaimsOf
    <3>. QED BY <3>2, <3>3, <3>6, <3>7 DEF EndsNext
  <2>. QED BY <2>1, MisledStays DEF Rows
<1>4. IInv'
  BY <1>3, IInvStep
<1>5. \A n \in 1 .. Len(claims') : places'[n] = L * (n - 1)
  <2>1. CASE UNCHANGED claimVars
    BY <2>1 DEF Rows, claimVars
  <2>2. ASSUME NEW p \in Producers, Claim(p), Claimed(p)
        PROVE  \A n \in 1 .. Len(claims') : places'[n] = L * (n - 1)
    <3> DEFINE N == Len(claims)
    <3>1. /\ claims' = Append(claims, frame[p]) /\ places' = Append(places, ask[p])
          /\ ask[p] = askCursor /\ pc[p] = "claim"
      BY <2>2 DEF Claim, Claimed
    <3>2. /\ N \in Nat /\ Len(claims') = N + 1
      BY <1>1, <3>1, FrameOf, ClaimsOf, AppendProperties DEF Types
    <3>3. /\ places'[N + 1] = askCursor /\ \A n \in 1 .. N : places'[n] = places[n]
      <4>1. places \in Seq(Nat) /\ ask[p] \in Nat /\ Len(places) = N
        BY <1>1 DEF Types, Cursors
      <4>. QED BY <3>1, <4>1, AppendProperties
    <3>4. askCursor = L * N
      <4>1. N \in 0 .. N
        BY <3>2
      <4>. QED BY <1>1, <4>1, RowCursors DEF Cursors
    <3> HIDE DEF N
    <3>5. ASSUME NEW n \in 1 .. N + 1 PROVE places'[n] = L * (n - 1)
      <4>1. CASE n = N + 1
        <5>1. n - 1 = N
          BY <3>2, <4>1
        <5>. QED BY <3>3, <3>4, <4>1, <5>1
      <4>2. CASE n \in 1 .. N
        BY <3>3, <4>2 DEF Rows, N
      <4>. QED BY <3>2, <4>1, <4>2
    <3>. QED BY <3>2, <3>5
  <2>3. \/ UNCHANGED claimVars
        \/ \E p \in Producers : Claim(p) /\ Claimed(p)
    <3>1. ASSUME NEW p \in Producers, Begin(p) \/ Load(p) \/ Check(p) \/ Copy(p) \/ Submit(p)
          PROVE  UNCHANGED claimVars
      BY <3>1 DEF Begin, Load, Check, Copy, Submit
    <3>2. ASSUME NEW p \in Producers, Claim(p), ~Claimed(p) PROVE UNCHANGED claimVars
      BY <3>2 DEF Claim
    <3>3. CASE Consume \/ SetState \/ UNCHANGED vars
      BY <3>3 DEF Consume, ReadLength, ReadMark, ClearMark, StoreAvailable, SetState, vars
    <3>. QED BY <3>1, <3>2, <3>3 DEF Next, Write
  <2>. QED BY <2>1, <2>2, <2>3
<1>6. \A m \in Nat : ring'[CellOf(m, 0)][1] = Zero \/ ring'[CellOf(m, 0)][2] = 0
  <2>1. CASE ring' = ring
    BY <2>1 DEF Rows
  <2>2. ASSUME NEW p \in Producers, Copy(p)
        PROVE  \A m \in Nat : ring'[CellOf(m, 0)][1] = Zero \/ ring'[CellOf(m, 0)][2] = 0
    <3>1. PICK n \in Waiting : ask[p] = places[n] /\ Length(p) = FrameLen[claims[n]]
      BY <2>2, Holder DEF Copy
    <3>2. /\ n \in 1 .. Len(claims) /\ n - 1 \in Nat /\ claims[n] \in Frames
      BY <1>1, ClaimsOf
    <3>3. ask[p] = L * (n - 1) /\ Length(p) = L
      BY <3>1, <3>2, Lengths DEF Rows
    <3>4. ring' = [c \in Cells |->
                     IF \E i \in 0 .. L - 1 : c = CellOf(n - 1, i)
                     THEN <<frame[p], CHOOSE i \in 0 .. L - 1 : c = CellOf(n - 1, i)>>
                     ELSE ring[c]]
      BY <2>2, <3>3 DEF Copy, CellOf
    <3> SUFFICES ASSUME NEW m \in Nat
                 PROVE  ring'[CellOf(m, 0)][1] = Zero \/ ring'[CellOf(m, 0)][2] = 0
      OBVIOUS
    <3> DEFINE c == CellOf(m, 0)
    <3>5. c \in Cells
      BY <1>2, CellsApart
    <3>6. CASE \E i \in 0 .. L - 1 : c = CellOf(n - 1, i)
      <4>1. \A i \in 0 .. L - 1 : c = CellOf(n - 1, i) => i = 0
        BY <1>2, <3>2, CellsApart
      <4> HIDE DEF c
      <4>2. (CHOOSE i \in 0 .. L - 1 : c = CellOf(n - 1, i)) = 0
        BY <3>6, <4>1
      <4>3. ring'[c] = <<frame[p], 0>>
        BY <3>4, <3>5, <3>6, <4>2
      <4>. QED BY <4>3 DEF c
    <3>7. CASE ~ \E i \in 0 .. L - 1 : c = CellOf(n - 1, i)
      <4>1. ring'[c] = ring[c]
        BY <3>4, <3>5, <3>7
      <4>. QED BY <4>1 DEF Rows
    <3>. QED BY <3>6, <3>7
  <2>3. ring' = ring \/ \E p \in Producers : Copy(p)
    <3>1. ASSUME NEW p \in Producers, Begin(p) \/ Load(p) \/ Check(p) \/ Claim(p) \/ Submit(p)
          PROVE  ring' = ring
      BY <3>1 DEF Begin, Load, Check, Claim, Submit, bufVars
    <3>2. CASE Consume \/ SetState \/ UNCHANGED vars
      BY <3>2 DEF Consume, ReadLength, ReadMark, ClearMark, StoreAvailable, SetState, vars, bufVars
    <3>. QED BY <3>1, <3>2 DEF Next, Write
  <2>. QED BY <2>1, <2>2, <2>3
<1>7. cpc' = "mark" => end' = availableCursor' \/ end' = availableCursor' + L
  <2>1. CASE UNCHANGED <<cpc, end, availableCursor>>
    BY <2>1 DEF Rows
  <2>2. CASE ReadLength
    <3>1. PICK n \in LengthAt(availableCursor) : end' = availableCursor + n
      BY <2>2 DEF ReadLength
    <3>2. availableCursor' = availableCursor /\ availableCursor \in Nat
      BY <1>1, <2>2, Ranges DEF ReadLength, cursorVars
    <3>3. n \in {0, L}
      <4>1. Released \in Nat /\ Released \in 0 .. Len(claims) /\ availableCursor = EndOf(Released)
        BY <1>1, ClaimsOf DEF Cursors
      <4>2. availableCursor = L * Released + 0 /\ L * Released \in Nat
        BY <1>2, <3>2, <4>1, RowCursors
      <4>3. At(availableCursor) = CellOf(Released, 0) /\ At(availableCursor) \in Cells
        BY <1>2, <4>1, <4>2, CellsApart DEF CellOf
      <4> DEFINE cell == ring[At(availableCursor)]
      <4>4. cell[1] = Zero \/ cell[2] = 0
        BY <4>1, <4>3 DEF Rows
      <4>5. cell \in Cell
        BY <1>1, <4>3 DEF Types
      <4>6. cell[1] # Zero => FrameLen[cell[1]] = L
        BY <4>5, Lengths DEF Cell
      <4>. QED BY <3>1, <4>4, <4>6 DEF LengthAt
    <3>. QED BY <3>1, <3>2, <3>3
  <2>3. CASE ReadMark \/ ClearMark \/ StoreAvailable
    BY <2>3 DEF ReadMark, ClearMark, StoreAvailable
  <2>4. ASSUME NEW p \in Producers, Begin(p) \/ Write(p)
        PROVE  UNCHANGED <<cpc, end, availableCursor>>
    BY <2>4 DEF Begin, Write, Load, Check, Claim, Copy, Submit, cursorVars, consumerVars
  <2>5. CASE SetState \/ UNCHANGED vars
    BY <2>1, <2>5 DEF SetState, vars, cursorVars, consumerVars
  <2>. QED BY <2>1, <2>2, <2>3, <2>4, <2>5 DEF Next, Consume
<1>. QED BY <1>3, <1>4, <1>5, <1>6, <1>7 DEF Rows

\* Frames of one length that divides the ring never mislead the consumer: what is proved
\* above then holds of every behaviour.
THEOREM OneLengthNeverMisleads == ASSUME OneLength PROVE Spec => [](~misled)
<1>1. Init => Rows
  <2> SUFFICES ASSUME Init PROVE Rows
    OBVIOUS
  <2>1. \A n \in Nat : CellOf(n, 0) \in Cells
    BY Lengths, CellsApart
  <2>2. ~misled /\ Len(claims) = 0 /\ cpc = "idle" /\ ring = [c \in Cells |-> <<Zero, 0>>]
    BY DEF Init
  <2>. QED BY <2>1, <2>2 DEF Rows
<1>2. OneLength /\ IInv /\ Rows /\ [Next]_vars => IInv' /\ Rows'
  BY RowsStep
<1>3. Rows => ~misled
  BY DEF Rows
<1>. QED BY <1>1, <1>2, <1>3, IInvInit, PTL DEF Spec

\* So the ring is a queue for frames of one length; Serial rests on it.
THEOREM OneLengthIsAQueue == ASSUME OneLength PROVE Spec => ImplementsQueue
BY OneLengthNeverMisleads, RingImplementsQueue, PTL
=============================================================================
