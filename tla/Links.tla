-------------------------------- MODULE Links --------------------------------
(***************************************************************************)
(* The two links of the miner that carry bytes: the TCP link to the pool   *)
(* (Framing) and a serial line to a board (TimeoutSerial).  They share no  *)
(* state and no thread, so a behaviour shows one of them and the other one *)
(* stays as it starts.                                                     *)
(***************************************************************************)
EXTENDS Framing, TimeoutSerial

VARIABLE shown  \* the link that moves: "tcp" or "serial"

linkVars == <<shown, framingVars, serialVars>>

Init == shown \in {"tcp", "serial"} /\ FramingInit /\ SerialInit

(* The bound on the calls is no end of the program.                        *)
ReadsUsedUp == call = MaxReads /\ reader = "idle"

Next ==
  \/ shown = "tcp" /\ FramingNext /\ UNCHANGED <<shown, serialVars>>
  \/ shown = "serial" /\ SerialNext /\ UNCHANGED <<shown, framingVars>>
  \/ shown = "serial" /\ ReadsUsedUp /\ UNCHANGED linkVars

(* Each link under its own fairness, which asks nothing of it while it is  *)
(* not shown.                                                              *)
Spec ==
  /\ Init /\ [][Next]_linkVars
  /\ shown = "tcp" => FramingFairness
  /\ shown = "serial" => SerialFairness
=============================================================================
