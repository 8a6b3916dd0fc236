------------------------------ MODULE MCReadLoop ------------------------------
(* Small instances of ReadLoop: bytes are cells, a frame is a few of them.    *)
EXTENDS ReadLoop, TLC

CONSTANTS c1, c2

F(n, k) == [len |-> n, kind |-> k]

\* One that ends well, one that says so, one with a frame that fits no buffer,
\* one with a frame of type FrameTypeNil, one whose first handler panics.
Plain == <<F(2, "work"), F(2, "work")>>
Others == {
  <<F(3, "work"), F(2, "exit")>>,
  <<F(2, "nobody"), F(4, "work")>>,
  <<F(2, "nil"), F(2, "work")>>,
  <<F(2, "panics"), F(2, "work")>> }

Mixed == (c1 :> {Plain}) @@ (c2 :> Others)
=============================================================================
