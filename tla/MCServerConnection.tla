------------------------- MODULE MCServerConnection -------------------------
(* Model values for ServerConnection: two templates of different heights,  *)
(* or of the same height.                                                  *)
EXTENDS ServerConnection

DistinctHeights == [w \in Works |-> w]
SameHeight      == [w \in Works |-> 1]
=============================================================================
