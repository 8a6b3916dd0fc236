-------------------------- MODULE MCCircuitBreaker --------------------------
(* Small instances of CircuitBreaker: one or two callers, a window of one or *)
(* two periods, thresholds of two or three errors.                           *)
EXTENDS CircuitBreaker

CONSTANTS c1, c2

OneCaller == {c1}
TwoCallers == {c1, c2}
=============================================================================
