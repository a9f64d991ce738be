---------------------------- MODULE MCMinerThread ----------------------------
(* Model values for MinerThread: every template of a height of its own.    *)
EXTENDS MinerThread

DistinctHeights == [w \in Works |-> w]
=============================================================================
