----------------------------- MODULE MCRequest -----------------------------
(* Small instances of Request: three nodes, of which two are in the first    *)
(* bucket, and one or two askers.                                           *)
EXTENDS Request

CONSTANTS a1, a2, n1, n2, n3

OneAsker == {a1}
TwoAskers == {a1, a2}
ThreeIds == {n1, n2, n3}
TwoIds == {n1, n2}
TwoOfThem == <<n1, n2>>
AllOfThem == <<n1, n2, n3>>
=============================================================================
