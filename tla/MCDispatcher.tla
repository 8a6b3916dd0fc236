---------------------------- MODULE MCDispatcher ----------------------------
(* Small instances of Dispatcher: two workers, up to four jobs, of which as  *)
(* many as the configuration says panic.                                     *)
EXTENDS Dispatcher

CONSTANTS j1, j2, j3, j4, w1, w2

TwoWorkers == {w1, w2}
TwoJobs == {j1, j2}
ThreeJobs == {j1, j2, j3}
FourJobs == {j1, j2, j3, j4}
=============================================================================
