---------------------------- MODULE ThreadState ----------------------------
(***************************************************************************)
(* The MinerThread object (MinerThread.h) as the two threads that share it *)
(* see it: the connection thread (ServerConnection) and the mining thread  *)
(* that owns the serial port (MinerThread).  Neither side synchronises     *)
(* with the other: m_clLock is taken by the mining thread alone, so every  *)
(* load and store below may interleave.                                    *)
(***************************************************************************)
EXTENDS Naturals, Sequences, FiniteSets

CONSTANTS
  NThreads,  \* number of COM ports, hence of mining threads
  MaxWork,   \* BOUND: number of block templates the pool ever hands out
  Height,    \* height of each template; two templates may share one
  NULL       \* the null CBlock pointer

Threads == 0 .. NThreads - 1
Works   == 1 .. MaxWork

(***************************************************************************)
(* A nonce is kept only as what it solves: the template whose share it is, *)
(* or NoShare for a nonce that solves nothing (a scan's starting point).   *)
(***************************************************************************)
NoShare == 0
Nonces  == 0 .. MaxWork

(* A CBlock: the template (merkle root, height, ...) and its nonce field.  *)
CBlock == [work : Works, nonce : Nonces]

ASSUME ThreadAssumption == NThreads \in Nat \ {0}
ASSUME WorkAssumption ==
  /\ MaxWork \in Nat \ {0}
  /\ Height \in [Works -> Nat \ {0}]
  /\ \A v, w \in Works : v <= w => Height[v] <= Height[w]
ASSUME NullAssumption == NULL \notin CBlock

VARIABLES
  m_pBLOCK,       \* the block being mined, written by the connection thread
  m_unBits,       \* the share target, named by the template it came with
  m_bBlockFound,  \* raised by the mining thread, lowered by the other
  m_bNewBlock,    \* written by the connection thread alone
  m_bShutdown

objectVars == <<m_pBLOCK, m_unBits, m_bBlockFound, m_bNewBlock, m_bShutdown>>

ThreadStateTypeOK ==
  /\ m_pBLOCK \in [Threads -> CBlock \cup {NULL}]
  /\ m_unBits \in [Threads -> Nonces]
  /\ m_bBlockFound \in [Threads -> BOOLEAN]
  /\ m_bNewBlock \in [Threads -> BOOLEAN]
  /\ m_bShutdown \in [Threads -> BOOLEAN]

(* The constructor: m_bNewBlock is left uninitialised.                     *)
ThreadStateInit ==
  /\ m_pBLOCK = [t \in Threads |-> NULL]
  /\ m_unBits = [t \in Threads |-> NoShare]
  /\ m_bBlockFound = [t \in Threads |-> FALSE]
  /\ m_bNewBlock \in [Threads -> BOOLEAN]
  /\ m_bShutdown = [t \in Threads |-> FALSE]

SetIsBlockFound(t, b) == m_bBlockFound' = [m_bBlockFound EXCEPT ![t] = b]
SetIsNewBlock(t, b)   == m_bNewBlock' = [m_bNewBlock EXCEPT ![t] = b]
SetBits(t, w)         == m_unBits' = [m_unBits EXCEPT ![t] = w]
SetBlock(t, w)        == m_pBLOCK' = [m_pBLOCK EXCEPT
                                        ![t] = [work |-> w, nonce |-> NoShare]]
SetNonce(t, n)        == m_pBLOCK' = [m_pBLOCK EXCEPT ![t].nonce = n]

=============================================================================
