------------------------------- MODULE MCSerial -------------------------------
(* Small instances of Serial: a group of two channels whose messages come at  *)
(* different speeds, and a plain channel.                                    *)
EXTENDS Serial, TLC

CONSTANTS pair, a1, a2, b1, b2, p, x

TwoRows == (a1 :> 1) @@ (a2 :> 1) @@ (b1 :> 2) @@ (b2 :> 2)
OneRow == (a1 :> 1) @@ (b1 :> 2) @@ (p :> 3)
InOrder == {<<a1, a2>>, <<b1, b2>>} \cap (Frames \X Frames)
OneGroup == pair :> <<1, 2>>

TestOrder == <<"Init", "SubscribeAll", "Run">>
\* RunAssembly calls Init once more.
ReadmeOrder == <<"Init", "SubscribeAll", "Init", "Run">>
=============================================================================
