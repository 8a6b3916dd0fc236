---------------------------- MODULE MCRingBuffer ----------------------------
(* Small instances of RingBuffer: rings that the frames go round more than    *)
(* once.                                                                     *)
EXTENDS RingBuffer, TLC

CONSTANTS p1, p2, f1, f2, f3, f4, f5, f6

OneProducer == {p1}
TwoProducers == {p1, p2}

TwoStreams == (p1 :> <<f1, f2, f3>>) @@ (p2 :> <<f4, f5, f6>>)
OneStream == p1 :> <<f1, f2, f3, f4>>

\* Frames of one length that divides the ring.
TwoCells == [f \in {f1, f2, f3, f4, f5, f6} |-> 2]

\* Frames of different lengths.
MixedLens == (f1 :> 2) @@ (f2 :> 2) @@ (f3 :> 1) @@ (f4 :> 1)
=============================================================================
