----------------------------- MODULE Computations -----------------------------
(* Everything the miner computes, side by side: the hash down to the calls of  *)
(* its block function and its permutation (HashTemplates), those two on real     *)
(* words (Threefish, KeccakF), the big integers (Uint1024) and the bytes of a    *)
(* block (BlockCodec). They share no state: a behaviour is one of one unit, the  *)
(* others staying as they start.                                                 *)
EXTENDS HashTemplates, Uint1024, BlockCodec, Threefish, KeccakF

VARIABLE unit

vars == <<unit, htVars, uiVars, coVars, tfVars, kfVars>>

Units == {"hash", "compression", "permutation", "integer", "codec"}

(* Where a unit with several initial states is while another one is shown. *)
Idle(u) ==
  CASE u = "compression"    -> tfCase = CHOOSE c \in Blocks : TRUE
    [] u = "permutation"    -> kfState = CHOOSE s \in States : TRUE
    [] u = "integer"        -> pn = Zero(WIDTH)
    [] OTHER                -> TRUE

Init ==
  /\ unit \in Units
  /\ \A u \in Units \ {unit} : Idle(u)
  /\ HtInit /\ TfInit /\ KfInit /\ UiInit /\ CodecInit

(* A unit that has nothing left to do has done its work. *)
Done ==
  CASE unit = "compression"    -> tfPhase = "done"
    [] unit = "permutation"    -> kfStep = "done"
    [] unit = "integer"        -> uiCalls = MaxCalls
    [] unit = "codec"          -> coPhase = "submit"
    [] OTHER                   -> FALSE

Next ==
  \/ unit = "hash" /\ HtNext /\ UNCHANGED <<unit, uiVars, coVars, tfVars, kfVars>>
  \/ unit = "compression" /\ TfNext /\ UNCHANGED <<unit, htVars, uiVars, coVars, kfVars>>
  \/ unit = "permutation" /\ KfNext /\ UNCHANGED <<unit, htVars, uiVars, coVars, tfVars>>
  \/ unit = "integer" /\ UiNext /\ UNCHANGED <<unit, htVars, coVars, tfVars, kfVars>>
  \/ unit = "codec" /\ CodecNext /\ UNCHANGED <<unit, htVars, uiVars, tfVars, kfVars>>
  \/ Done /\ UNCHANGED vars

Spec == Init /\ [][Next]_vars
===============================================================================
