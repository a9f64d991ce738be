----------------------------- MODULE MCHashPool -----------------------------
(* Model values for HashPool.                                              *)
EXTENDS HashPool

DistinctHeights == [w \in Works |-> w]
SameHeight      == [w \in Works |-> 1]
=============================================================================
