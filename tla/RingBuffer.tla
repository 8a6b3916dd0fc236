------------------------------ MODULE RingBuffer ------------------------------
(****************************************************************************)
(* util.RingBuffer (util/ring.go): many goroutines claim a range of the     *)
(* ring with a compare-and-swap, copy a frame there and mark its end in     *)
(* submitRing; one consumer follows the lengths at the head of the frames.  *)
(*                                                                          *)
(* A cell of the model holds as many bytes as the length field, so a frame  *)
(* of n cells is its length and n - 1 cells of data.                        *)
(****************************************************************************)
EXTENDS Integers, FiniteSets, SequencesExt

CONSTANTS
  Producers,       \* goroutines that call WriteToRingBuffer
  Stream,          \* the frames each of them writes, in order
  FrameLen,        \* the lengths of the frames in cells
  ringBufferSize   \* in cells, a power of 2

Frames == UNION {Range(Stream[p]) : p \in Producers}
Zero == "zero"    \* what a fresh cell holds

ASSUME ConstantsAssumption ==
  /\ IsFiniteSet(Producers)
  /\ \A p \in Producers : Stream[p] \in Seq(Range(Stream[p])) /\ IsInjective(Stream[p])
  /\ \A p, q \in Producers : p # q => Range(Stream[p]) \cap Range(Stream[q]) = {}
  /\ Zero \notin Frames
  /\ FrameLen \in [Frames -> Nat \ {0}]
  /\ ringBufferSize \in Nat \ {0}
  /\ \A f \in Frames : FrameLen[f] < ringBufferSize

Cells == 0 .. ringBufferSize - 1
At(c) == c % ringBufferSize   \* c & ringBufferShift

VARIABLES
  state,             \* "work" or "die"
  ring, submitRing,
  askCursor, availableCursor,
  begun,             \* how many frames of its stream a producer has begun
  pc, frame, ask,    \* a producer: control point, its frame, its loaded cursor
  claims, places,    \* history: the frames in the order of their claims, and the
                     \* cursors where their ranges begin
  cpc, end,          \* the consumer: control point, the end it computed
  data,              \* what ReadFromRingBuffer returned
  taken,             \* history: what the consumer worked on
  misled             \* history: it found a mark at an end that was not its frame's

bufVars == <<ring, submitRing>>
cursorVars == <<askCursor, availableCursor>>
producerVars == <<begun, pc, frame, ask>>
claimVars == <<claims, places>>
consumerVars == <<cpc, end, data, taken, misled>>
vars == <<state, bufVars, cursorVars, producerVars, claimVars, consumerVars>>

Fate == {"ok", "overflow", "closed"}
None == "none"

Init ==
  /\ state = "work"
  /\ ring = [c \in Cells |-> <<Zero, 0>>]
  /\ submitRing = [c \in Cells |-> 0]
  /\ askCursor = 0 /\ availableCursor = 0
  /\ begun = [p \in Producers |-> 0]
  /\ claims = <<>> /\ places = <<>>
  /\ pc = [p \in Producers |-> "idle"]
  /\ frame = [p \in Producers |-> None]
  /\ ask = [p \in Producers |-> 0]
  /\ cpc = "idle" /\ end = 0 /\ data = <<>> /\ taken = <<>>
  /\ misled = FALSE

----------------------------------------------------------------------------
(* WriteToRingBuffer                                                        *)

Goto(p, l) == pc' = [pc EXCEPT ![p] = l]

Length(p) == FrameLen[frame[p]]

Begin(p) ==
  /\ pc[p] \in {"idle"} \cup Fate
  /\ begun[p] < Len(Stream[p])
  /\ begun' = [begun EXCEPT ![p] = @ + 1]
  /\ frame' = [frame EXCEPT ![p] = Stream[p][begun'[p]]]
  /\ Goto(p, IF state = "work" THEN "load" ELSE "closed")
  /\ UNCHANGED <<state, bufVars, cursorVars, ask, claimVars, consumerVars>>

Load(p) ==
  /\ pc[p] = "load"
  /\ ask' = [ask EXCEPT ![p] = askCursor]
  /\ Goto(p, "check")
  /\ UNCHANGED <<state, bufVars, cursorVars, begun, frame, claimVars, consumerVars>>

Full_NotChecked(e) == FALSE

\* (end - availableCursor) >= ringBufferSize, in unsigned 64-bit arithmetic: an
\* end that the consumer has passed wraps around.
Full(e) == e < availableCursor \/ e - availableCursor >= ringBufferSize

Check(p) ==
  /\ pc[p] = "check"
  /\ Goto(p, IF Full(ask[p] + Length(p)) THEN "overflow" ELSE "claim")
  /\ UNCHANGED <<state, bufVars, cursorVars, begun, frame, ask, claimVars, consumerVars>>

\* CompareAndSwapUint64(&askCursor, ask, end)
Claimed(p) == askCursor = ask[p]

Claim(p) ==
  /\ pc[p] = "claim"
  /\ \/ /\ Claimed(p)
        /\ askCursor' = ask[p] + Length(p)
        /\ claims' = Append(claims, frame[p])
        /\ places' = Append(places, ask[p])
        /\ Goto(p, "copy")
     \/ /\ ~Claimed(p)
        /\ Goto(p, "load")
        /\ UNCHANGED <<askCursor, claimVars>>
  /\ UNCHANGED <<state, bufVars, availableCursor, begun, frame, ask, consumerVars>>

Copy(p) ==
  /\ pc[p] = "copy"
  /\ ring' = [c \in Cells |->
                IF \E i \in 0 .. Length(p) - 1 : c = At(ask[p] + i)
                THEN <<frame[p], CHOOSE i \in 0 .. Length(p) - 1 : c = At(ask[p] + i)>>
                ELSE ring[c]]
  /\ Goto(p, "submit")
  /\ UNCHANGED <<state, submitRing, cursorVars, begun, frame, ask, claimVars, consumerVars>>

MarkAt_Start(p) == At(ask[p])

MarkAt(p) == At(ask[p] + Length(p))

Submit(p) ==
  /\ pc[p] = "submit"
  /\ submitRing' = [submitRing EXCEPT ![MarkAt(p)] = 1]
  /\ Goto(p, "ok")
  /\ UNCHANGED <<state, ring, cursorVars, begun, frame, ask, claimVars, consumerVars>>

----------------------------------------------------------------------------
(* The consumer                                                             *)

\* What the length field at the head of a range may say: the length of the frame
\* that begins there, 0 in a fresh ring, anything when it is data of an older
\* frame.  (A value past the size meets the same marks as its remainder.)
LengthAt(c) ==
  LET cell == ring[At(c)]
  IN  IF cell[1] = Zero THEN {0}
      ELSE IF cell[2] = 0 THEN {FrameLen[cell[1]]}
      ELSE 0 .. ringBufferSize - 1

\* ReadFromRingBuffer: end := available + the length at the head ...
ReadLength ==
  /\ cpc = "idle"
  /\ askCursor > availableCursor
  /\ \E n \in LengthAt(availableCursor) : end' = availableCursor + n
  /\ cpc' = "mark"
  /\ UNCHANGED <<state, bufVars, cursorVars, producerVars, claimVars, data, taken, misled>>

\* The end is that of the frame that is to be taken next.
EndsNext ==
  LET n == Len(taken) + 1
  IN  n <= Len(claims) /\ end = places[n] + FrameLen[claims[n]]

\* ... returned when submitRing marks that end.
ReadMark ==
  /\ cpc = "mark"
  /\ IF submitRing[At(end)] = 1
     THEN /\ data' = [i \in 1 .. end - availableCursor |->
                        ring[At(availableCursor + i - 1)]]
          /\ cpc' = "got"
          /\ misled' = (misled \/ ~EndsNext)
     ELSE /\ cpc' = "idle" /\ UNCHANGED <<data, misled>>
  /\ UNCHANGED <<state, bufVars, cursorVars, producerVars, claimVars, end, taken>>

Cleared == [submitRing EXCEPT ![At(end)] = 0]

\* The handler runs; SetAvailableCursor takes the mark back ...
ClearMark ==
  /\ cpc = "got"
  /\ taken' = Append(taken, data)
  /\ submitRing' = Cleared
  /\ cpc' = "store"
  /\ UNCHANGED <<state, ring, cursorVars, producerVars, claimVars, end, data, misled>>

NewAvailable_OneMore == end + 1

NewAvailable == end

\* ... and gives the range back.
StoreAvailable ==
  /\ cpc = "store"
  /\ availableCursor' = NewAvailable
  /\ cpc' = "idle"
  /\ UNCHANGED <<state, bufVars, askCursor, producerVars, claimVars, end, data, taken, misled>>

SetState ==
  /\ state = "work" /\ state' = "die"
  /\ UNCHANGED <<bufVars, cursorVars, producerVars, claimVars, consumerVars>>

----------------------------------------------------------------------------

Write(p) == Load(p) \/ Check(p) \/ Claim(p) \/ Copy(p) \/ Submit(p)

Consume == ReadLength \/ ReadMark \/ ClearMark \/ StoreAvailable

Next ==
  \/ \E p \in Producers : Begin(p) \/ Write(p)
  \/ Consume
  \/ SetState

Spec == Init /\ [][Next]_vars

\* A producer that began goes on; the ticker of Serial.Run calls the consumer.
FairSpec == Spec /\ WF_vars(Consume) /\ \A p \in Producers : WF_vars(Write(p))

----------------------------------------------------------------------------
(* Properties                                                               *)

Cell == (Frames \X Cells) \cup {<<Zero, 0>>}

\* Every variable stays in its type; in particular the consumer never passes the
\* producers.
TypeOK ==
  /\ state \in {"work", "die"}
  /\ ring \in [Cells -> Cell]
  /\ submitRing \in [Cells -> {0, 1}]
  /\ askCursor \in Nat /\ availableCursor \in 0 .. askCursor
  /\ begun \in [Producers -> Nat]
  /\ pc \in [Producers -> {"idle", "load", "check", "claim", "copy", "submit"} \cup Fate]
  /\ frame \in [Producers -> Frames \cup {None}]
  /\ ask \in [Producers -> 0 .. askCursor]
  /\ claims \in Seq(Frames) /\ places \in Seq(Nat)
  /\ cpc \in {"idle", "mark", "got", "store"}
  /\ end \in Nat
  /\ data \in Seq(Cell) /\ taken \in Seq(Seq(Cell)) /\ misled \in BOOLEAN

Whole(f) == [i \in 1 .. FrameLen[f] |-> <<f, i - 1>>]

\* The consumer gets the frames whole, each once, in the order of their claims:
\* never bytes of a range that is claimed and not yet copied.
TakenInOrder ==
  /\ Len(taken) <= Len(claims)
  /\ \A i \in DOMAIN taken : taken[i] = Whole(claims[i])

\* The frame that a range taken by the consumer holds.
FrameIn(d) ==
  IF \E f \in Frames : d = Whole(f) THEN CHOOSE f \in Frames : d = Whole(f) ELSE None

\* The ring as a queue: a claimed range is filled when its producer has submitted.
Queue == INSTANCE FrameQueue
  WITH queue <- SubSeq(claims, Len(taken) + 1, Len(claims)),
       ready <- {f \in Range(SubSeq(claims, Len(taken) + 1, Len(claims))) :
                   \A p \in Producers : frame[p] = f => pc[p] \notin {"copy", "submit"}},
       taken <- [i \in DOMAIN taken |-> FrameIn(taken[i])]

\* However far producers run ahead, the consumer sees a queue: frames in the order of
\* their claims, each whole and once, none before it is submitted (what Serial builds
\* on).  It holds as long as the consumer is not misled: for frames of one length that
\* divides the ring, not for lengths that let it meet an old mark behind old bytes.
ImplementsQueue == Queue!Spec

\* A write is refused for want of space only when the space is wanting.
OverflowIsReal ==
  [][\A p \in Producers : pc[p] = "check" /\ pc'[p] = "overflow" =>
       askCursor + Length(p) - availableCursor >= ringBufferSize]_vars

\* A frame that was accepted is worked on.
AcceptedIsTaken ==
  \A f \in Frames : (f \in Range(claims)) ~> (\E d \in Range(taken) : d = Whole(f))
=============================================================================
