------------------------------ MODULE MCShutdown ------------------------------
(* Small instances of Shutdown: a session this node dialled, and one that may *)
(* come, and may say or not that it is a node's.                             *)
EXTENDS Shutdown

CONSTANTS dialled, node
=============================================================================
