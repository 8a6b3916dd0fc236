------------------------------ MODULE FrameQueue ------------------------------
(****************************************************************************)
(* What util.RingBuffer promises Serial: a queue in the order of the claims *)
(* in which the consumer stops at a frame that is claimed and not yet       *)
(* filled, and takes each frame once.                                       *)
(****************************************************************************)
EXTENDS FiniteSets, Sequences

CONSTANT Frames

VARIABLES queue,   \* claimed, not yet taken
          ready,   \* those of them that are filled
          taken    \* history: what the consumer took

vars == <<queue, ready, taken>>

In(s) == {s[i] : i \in DOMAIN s}

Init == queue = <<>> /\ ready = {} /\ taken = <<>>

Claim(f) ==
  /\ f \notin In(queue) \cup In(taken)
  /\ queue' = Append(queue, f)
  /\ UNCHANGED <<ready, taken>>

Fill(f) ==
  /\ f \in In(queue) \ ready
  /\ ready' = ready \cup {f}
  /\ UNCHANGED <<queue, taken>>

HasReady == queue # <<>> /\ Head(queue) \in ready

Take ==
  /\ HasReady
  /\ taken' = Append(taken, Head(queue))
  /\ queue' = Tail(queue)
  /\ ready' = ready \ {Head(queue)}

Next == Take \/ \E f \in Frames : Claim(f) \/ Fill(f)

Spec == Init /\ [][Next]_vars
=============================================================================
