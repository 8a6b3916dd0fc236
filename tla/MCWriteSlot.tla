----------------------------- MODULE MCWriteSlot -----------------------------
(* Small instances of WriteSlot, whose buffer has 6 bytes where the code has *)
(* 32768.                                                                    *)
EXTENDS WriteSlot, TLC

CONSTANTS f1, f2, f3, f4

ThreeFrames == {f1, f2, f3}
FourFrames == ThreeFrames \cup {f4}

\* Any two of three frames meet the end of the buffer in a different way: short
\* of it, exactly at it, across it.
ThreeLens == (f1 :> 2) @@ (f2 :> 3) @@ (f3 :> 4)

\* Three frames fit the buffer together, in any order; the fourth is as long as
\* the buffer and takes the simpleSlot path.
FitLens == [f \in FourFrames |-> IF f = f4 THEN 6 ELSE 2]
Alike == Permutations(ThreeFrames)

\* Three bare headers fill the buffer.
HeaderLens == [f \in ThreeFrames |-> 2]
=============================================================================
