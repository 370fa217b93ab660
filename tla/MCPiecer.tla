-------------------------------- MODULE MCPiecer --------------------------------
(* An instance of Piecer for TLC. *)
EXTENDS Piecer

CONSTANTS b1, b2, p1, p2
================================================================================
