------------------------------ MODULE HashPool ------------------------------
(***************************************************************************)
(* The whole miner: the connection thread, one mining thread per COM port, *)
(* their boards and the pool, all running at once.  exit() and a crash end *)
(* every thread; a board goes on without the program.                      *)
(***************************************************************************)
EXTENDS ServerConnection, MinerThread

vars == <<objectVars, netVars, serverVars, minerVars>>

TypeOK == ServerInv /\ MinerTypeOK

Init == ThreadStateInit /\ ConnectionInit /\ ServerInit /\ MinerInit

Next ==
  \/ ServerStep /\ UNCHANGED minerVars
  \/ Running /\ PoolStep /\ UNCHANGED <<objectVars, serverVars, minerVars>>
  \/ /\ Running
     /\ \E t \in Threads : MinerStep(t) \/ BoardStep(t)
     /\ UNCHANGED <<netVars, serverVars>>
  \/ ~ Running /\ UNCHANGED vars

Spec == Init /\ [][Next]_vars

(* Fairness: the threads of the process are scheduled, and a board          *)
(* executes the commands it was sent.  Nothing is asked of the pool or the  *)
(* link, and no nonce need ever be found.                                   *)
Fairness ==
  /\ WF_vars(ServerStep /\ UNCHANGED minerVars)
  /\ \A t \in Threads :
       /\ WF_vars(Running /\ MinerStep(t) /\ UNCHANGED <<netVars, serverVars>>)
       /\ WF_vars(Running /\ Execute(t) /\ UNCHANGED <<netVars, serverVars>>)

FairSpec == Spec /\ Fairness

-----------------------------------------------------------------------------
(* The nonce submitted solves the block it is submitted for.               *)
ShareSolvesBlock ==
  spc = "verdict" => nNonceSubmitted \in {NoShare, m_pBLOCK[nIndex].work}

(* As WorkGetsMined, with the connection thread that really gives the work. *)
WorkGetsMinedOrEnds ==
  \A t \in Threads, w \in Works :
    Told(t, w) ~> (Mining(t, w) \/ ~ Told(t, w) \/ ~ Running)

=============================================================================
