--------------------------- MODULE HashPoolProofs ---------------------------
(***************************************************************************)
(* ServerConnection first, for any number of threads, templates and        *)
(* attempts, and any pool: pointers, the share under submission, packets    *)
(* and errors that outlive their link, the order of work. Then MinerThread, *)
(* for any number of boards and buffer sizes: types and pointers, and the   *)
(* handshake that parks a thread behind its share. Then the composed        *)
(* program, which implements both closed specifications: each side keeps    *)
(* what the other assumes of the object they share without a common lock.   *)
(***************************************************************************)
EXTENDS HashPool, TLAPS

(* Work packets carry work, in the socket and in INCOMING.                 *)
GoodPackets == {p \in Packets : p.header = "BLOCK_DATA" => p.work \in Works}

NetInv ==
  /\ ConnectionTypeOK
  /\ INCOMING \in GoodPackets
  /\ toClient \in Seq(GoodPackets)

(* A packet is left in INCOMING only by OtherVerdict, on a live link, and  *)
(* is gone after the next WaitWorkUpdate; an error of a write is pending   *)
(* only until the answer is given up for.                                  *)
LeftOver ==
  /\ INCOMING # NoPacket =>
       /\ spc \in {"rej_new", "rej_found", "loop", "wait"}
       /\ CONNECTED /\ ~ ERROR_HANDLE
  /\ CONNECTED /\ ERROR_HANDLE =>
       spc \in {"need", "retry", "verdict", "fail_new", "fail_found",
                "fail_close", "crashed"}

(* nIndex is a thread wherever the loop over the threads uses it, and zero *)
(* where a loop is about to begin.                                         *)
AtThread == {"reset_found", "reset_new", "need", "have", "retry", "set_bits",
             "set_block", "set_found", "set_new", "found", "submit", "verdict",
             "acc_nonce", "acc_new", "acc_found", "rej_new", "rej_found",
             "fail_new", "fail_found"}

LoopInv ==
  /\ spc \in AtThread => nIndex \in Threads
  /\ spc \in {"login", "login_work", "wait"} => nIndex = 0
  /\ spc \in {"have", "set_bits", "set_block", "set_found", "set_new"} =>
       pWork \in Works

FoundHasBlock == \A t \in Threads : m_bBlockFound[t] => m_pBLOCK[t] # NULL

SInv == /\ ThreadStateTypeOK
        /\ ServerTypeOK
        /\ NetInv
        /\ LeftOver
        /\ LoopInv
        /\ FoundHasBlock
        /\ SubmissionStable

-----------------------------------------------------------------------------
(* The operations of the connection, and first their packets.              *)
LEMMA PacketTypes ==
  /\ NoShare \in Nonces
  /\ \A w \in Works : w \in Nonces /\ w # NoShare
  /\ \A h \in Headers : Request(h) \in Packets
  /\ \A h \in Headers \ {"BLOCK_DATA"} : \A w, n \in Nonces :
       Packet(h, w, n) \in GoodPackets
  /\ \A w \in Works : BLOCK_DATA(w) \in GoodPackets
  /\ NoPacket \in GoodPackets
  /\ NoPacket.header = "NULL"
  /\ GoodPackets \subseteq Packets
<1>1. /\ NoShare \in Nonces
      /\ \A w \in Works : w \in Nonces /\ w # NoShare
  BY WorkAssumption DEF NoShare, Nonces, Works
<1>2. \A h \in Headers : \A w, n \in Nonces : Packet(h, w, n) \in Packets
  BY DEF Packet, Packets
<1>3. \A h \in Headers \ {"BLOCK_DATA"} : \A w, n \in Nonces :
        Packet(h, w, n) \in GoodPackets
  BY <1>2 DEF Packet, GoodPackets
<1>4. \A h \in Headers : Request(h) \in Packets
  BY <1>1, <1>2 DEF Request
<1>5. \A w \in Works : BLOCK_DATA(w) \in GoodPackets
  <2>1. "BLOCK_DATA" \in Headers
    BY DEF Headers
  <2> QED
    BY <1>1, <1>2, <2>1 DEF Packet, BLOCK_DATA, GoodPackets
<1>6. NoPacket \in GoodPackets /\ NoPacket.header = "NULL"
  <2>1. "NULL" \in Headers \ {"BLOCK_DATA"}
    BY DEF Headers
  <2> QED
    BY <1>1, <1>3, <2>1 DEF NoPacket, Request, Packet
<1> QED
  BY <1>1, <1>3, <1>4, <1>5, <1>6 DEF GoodPackets

(* Sequences of a set of packets.                                          *)
LEMMA SequenceTypes ==
  ASSUME NEW S, NEW e \in S, NEW q \in Seq(S)
  PROVE  /\ <<>> \in Seq(S)
         /\ <<e>> \in Seq(S)
         /\ Append(q, e) \in Seq(S)
         /\ q # <<>> => Head(q) \in S /\ Tail(q) \in Seq(S)
  OBVIOUS

(* A connection made: the errors of the last one are gone, INCOMING is not. *)
LEMMA ConnectEffect ==
  ASSUME NetInv, NEW m \in Packets, ConnectAndWrite(m)
  PROVE  NetInv' /\ CONNECTED' /\ ~ ERROR_HANDLE' /\ INCOMING' = INCOMING
<1>1. <<m>> \in Seq(Packets) /\ <<>> \in Seq(Packets) /\ <<>> \in Seq(GoodPackets)
  BY SequenceTypes, PacketTypes
<1>2. toPool' \in Seq(Packets) /\ toClient' \in Seq(Packets)
      /\ toClient' \in Seq(GoodPackets)
  BY <1>1 DEF ConnectAndWrite
<1> QED
  BY <1>2 DEF NetInv, ConnectionTypeOK, ConnectAndWrite

(* A connection given up, or not made: nothing is left in INCOMING.        *)
LEMMA DisconnectEffect ==
  ASSUME NetInv, Disconnect \/ ConnectFails
  PROVE  NetInv' /\ ~ CONNECTED' /\ INCOMING' = NoPacket
<1>1. <<>> \in Seq(Packets) /\ <<>> \in Seq(GoodPackets)
  BY SequenceTypes, PacketTypes
<1>2. NoPacket \in Packets /\ NoPacket \in GoodPackets
  BY PacketTypes
<1>3. toPool' \in Seq(Packets) /\ toClient' \in Seq(Packets)
      /\ toClient' \in Seq(GoodPackets)
  BY <1>1 DEF NetInv, ConnectionTypeOK, Disconnect, ConnectFails
<1>4. ERROR_HANDLE' \in BOOLEAN /\ loggedIn' \in BOOLEAN
  BY DEF NetInv, ConnectionTypeOK, Disconnect, ConnectFails
<1> QED
  BY <1>2, <1>3, <1>4 DEF NetInv, ConnectionTypeOK, Disconnect, ConnectFails

(* A packet written: at most an error, and neither flag nor INCOMING.      *)
LEMMA WriteEffect ==
  ASSUME NetInv, NEW m \in Packets, WritePacket(m)
  PROVE  NetInv' /\ CONNECTED' = CONNECTED /\ INCOMING' = INCOMING
<1>1. Append(toPool, m) \in Seq(Packets) /\ <<>> \in Seq(Packets)
  BY SequenceTypes DEF NetInv, ConnectionTypeOK
<1>2. /\ toPool' \in Seq(Packets)
      /\ ERROR_HANDLE' \in BOOLEAN
      /\ link' \in {"up", "down"}
      /\ loggedIn' \in BOOLEAN
  BY <1>1 DEF NetInv, ConnectionTypeOK, WritePacket
<1> QED
  BY <1>2 DEF NetInv, ConnectionTypeOK, WritePacket

(* A packet read: only on a live link without an error.                    *)
LEMMA ReadEffect ==
  ASSUME NetInv, LeftOver, NEW kept \in GoodPackets, PacketArrives,
         TakePacket(kept)
  PROVE  /\ NetInv' /\ INCOMING' = kept
         /\ NextPacket \in GoodPackets
         /\ CONNECTED' /\ ~ ERROR_HANDLE'
         /\ CONNECTED' = CONNECTED /\ ERROR_HANDLE' = ERROR_HANDLE
<1>1. CONNECTED /\ ~ ERROR_HANDLE
  BY DEF LeftOver, PacketArrives
<1>2. NextPacket \in GoodPackets
  BY DEF PacketArrives, NextPacket, NetInv
<1>3. toClient' \in Seq(GoodPackets) /\ toClient' \in Seq(Packets)
  BY SequenceTypes DEF TakePacket, PacketArrives, NetInv, ConnectionTypeOK
<1>4. kept \in Packets
  BY PacketTypes
<1> QED
  BY <1>1, <1>2, <1>3, <1>4 DEF TakePacket, NetInv, ConnectionTypeOK

-----------------------------------------------------------------------------
(* The initial states.                                                     *)
LEMMA ServerInitInv == ServerSpecInit => SInv
<1> SUFFICES ASSUME ServerSpecInit PROVE SInv
  OBVIOUS
<1> USE DEF ServerSpecInit
<1>1. NoShare \in Nonces /\ 1 \in Works /\ 0 \in 0 .. NThreads
      /\ 0 \in Attempts
  BY WorkAssumption, ThreadAssumption, ServerAssumption
     DEF NoShare, Nonces, Works, Attempts
<1>2. ThreadStateTypeOK
  BY <1>1 DEF ThreadStateInit, ThreadStateTypeOK
<1>3. ServerTypeOK
  BY <1>1, ServerAssumption DEF ServerInit, ServerTypeOK, ServerPCs
<1>4. NetInv
  <2>1. <<>> \in Seq(Packets) /\ <<>> \in Seq(GoodPackets)
    BY SequenceTypes, PacketTypes
  <2> QED
    BY <1>1, <2>1, PacketTypes DEF ConnectionInit, NetInv, ConnectionTypeOK
<1>5. LeftOver /\ LoopInv /\ FoundHasBlock /\ SubmissionStable
  BY DEF ConnectionInit, ServerInit, ThreadStateInit, LeftOver, LoopInv,
         AtThread, FoundHasBlock, SubmissionStable, HasShare
<1> QED
  BY <1>2, <1>3, <1>4, <1>5 DEF SInv

-----------------------------------------------------------------------------
(* The steps of the others: they leave the connection thread and its end   *)
(* of the link alone.                                                      *)
(* The pool answers with good packets, and its work is the newest.         *)
LEMMA AnswersGood ==
  ASSUME NEW m \in Packets, NEW a \in Answers(m), tip \in Works
  PROVE  /\ a \in Seq(GoodPackets)
         /\ \A i \in DOMAIN a : a[i].header = "BLOCK_DATA" => a[i].work = tip
<1> DEFINE v == Packet(IF m.nonce = m.work /\ Height[m.work] = Height[tip]
                       THEN "GOOD" ELSE "FAIL", m.work, m.nonce)
           W == {p \in GoodPackets : p.header = "BLOCK_DATA" => p.work = tip}
<1>1. \A h \in Headers \ {"BLOCK_DATA"} : \A w, n \in Nonces : Packet(h, w, n) \in W
  BY PacketTypes DEF Packet
<1>2. /\ Request("PING") \in W
      /\ Request("LOGIN_SUCCESS") \in W
      /\ Request("LOGIN_FAIL") \in W
  BY <1>1, PacketTypes DEF Headers, Request
<1>3. BLOCK_DATA(tip) \in W
  BY PacketTypes DEF BLOCK_DATA, Packet
<1>4. v \in W
  <2>1. m.work \in Nonces /\ m.nonce \in Nonces
    BY DEF Packets
  <2>2. "GOOD" \in Headers \ {"BLOCK_DATA"} /\ "FAIL" \in Headers \ {"BLOCK_DATA"}
    BY DEF Headers
  <2> QED
    BY <1>1, <2>1, <2>2
<1>5. a \in {<<Request("PING")>>, <<Request("LOGIN_SUCCESS")>>,
             <<Request("LOGIN_SUCCESS"), BLOCK_DATA(tip)>>,
             <<Request("LOGIN_FAIL")>>, <<BLOCK_DATA(tip)>>, <<v>>}
  BY DEF Answers
<1> HIDE DEF v, W
<1>6. \A p, q \in W : <<p>> \in Seq(W) /\ <<p, q>> \in Seq(W)
  OBVIOUS
<1>7. a \in Seq(W)
  BY <1>2, <1>3, <1>4, <1>5, <1>6
<1>8. \A i \in DOMAIN a : a[i] \in W
  BY <1>7
<1>9. W \subseteq GoodPackets /\ \A p \in W : p.header = "BLOCK_DATA" => p.work = tip
  BY DEF W
<1> QED
  BY <1>7, <1>8, <1>9

(* Whatever the pool does leaves the client's variables alone.             *)
LEMMA PoolKeepsNet ==
  ASSUME NetInv, PoolStep
  PROVE  NetInv' /\ UNCHANGED clientVars
<1> USE DEF NetInv
<1>1. CASE PoolAnswers
  <2>1. PICK a \in Answers(Head(toPool)) :
          /\ toClient' = toClient \o a
          /\ loggedIn' = (loggedIn \/ a[1].header = "LOGIN_SUCCESS")
    BY <1>1 DEF PoolAnswers
  <2>2. Head(toPool) \in Packets /\ Tail(toPool) \in Seq(Packets)
    BY <1>1, SequenceTypes DEF PoolAnswers, ConnectionTypeOK
  <2>3. a \in Seq(GoodPackets)
    BY <2>2, AnswersGood DEF ConnectionTypeOK
  <2>4. toClient' \in Seq(GoodPackets)
    BY <2>1, <2>3
  <2>5. toClient' \in Seq(Packets)
    BY <2>4, PacketTypes
  <2>6. loggedIn' \in BOOLEAN
    BY <2>1 DEF ConnectionTypeOK
  <2>7. toPool' \in Seq(Packets)
    BY <1>1, <2>2 DEF PoolAnswers
  <2> QED
    BY <1>1, <2>4, <2>5, <2>6, <2>7
       DEF PoolAnswers, ConnectionTypeOK, clientVars
<1>2. CASE PoolHasNewWork
  <2>1. tip' = tip + 1 /\ tip' \in Works
    BY <1>2, WorkAssumption DEF PoolHasNewWork, ConnectionTypeOK, Works
  <2>2. BLOCK_DATA(tip + 1) \in GoodPackets /\ BLOCK_DATA(tip + 1) \in Packets
    BY <2>1, PacketTypes
  <2>3. toClient' \in Seq(GoodPackets) /\ toClient' \in Seq(Packets)
    BY <1>2, <2>2, SequenceTypes DEF PoolHasNewWork, ConnectionTypeOK
  <2> QED
    BY <1>2, <2>1, <2>3 DEF PoolHasNewWork, ConnectionTypeOK, clientVars
<1>3. CASE LinkDrops
  <2>1. <<>> \in Seq(Packets)
    BY SequenceTypes, PacketTypes
  <2> QED
    BY <1>3, <2>1 DEF LinkDrops, ConnectionTypeOK, clientVars
<1> QED
  BY <1>1, <1>2, <1>3 DEF PoolStep

(* A step of the pool or of the network.                                   *)
LEMMA PoolKeepsSInv ==
  SInv /\ PoolStep /\ UNCHANGED <<objectVars, serverVars>> => SInv'
<1> SUFFICES ASSUME SInv, PoolStep, UNCHANGED <<objectVars, serverVars>>
             PROVE  SInv'
  OBVIOUS
<1>1. NetInv' /\ UNCHANGED clientVars
  BY PoolKeepsNet DEF SInv
<1> USE DEF SInv, objectVars, serverVars, rareVars, counters, timers, runVars,
            clientVars
<1>2. ThreadStateTypeOK' /\ ServerTypeOK'
  BY DEF ThreadStateTypeOK, ServerTypeOK
<1>3. LeftOver' /\ LoopInv' /\ FoundHasBlock' /\ SubmissionStable'
  BY <1>1 DEF LeftOver, LoopInv, FoundHasBlock, SubmissionStable, HasShare
<1> QED
  BY <1>1, <1>2, <1>3

(* A store of a mining thread: a nonce while no share is pending, or the   *)
(* flag once there is a block.                                             *)
LEMMA MinerKeepsSInv ==
  ASSUME SInv, NEW t \in Threads, MinerStoresNonce(t) \/ MinerRaisesFlag(t),
         UNCHANGED <<netVars, serverVars>>
  PROVE  SInv'
<1> USE DEF SInv, netVars, clientVars, poolVars, serverVars, rareVars, counters,
            timers, runVars
<1>1. ServerTypeOK' /\ NetInv' /\ LeftOver' /\ LoopInv'
  BY DEF ServerTypeOK, NetInv, ConnectionTypeOK, LeftOver, LoopInv
<1>2. CASE MinerStoresNonce(t)
  <2>1. PICK n \in Nonces : SetNonce(t, n)
    BY <1>2 DEF MinerStoresNonce
  <2> DEFINE b == [m_pBLOCK[t] EXCEPT !.nonce = n]
  <2>2. b \in CBlock /\ b # NULL
    <3>1. m_pBLOCK[t] \in CBlock
      BY <1>2 DEF MinerStoresNonce, ThreadStateTypeOK
    <3> QED
      BY <3>1, NullAssumption DEF CBlock
  <2>3. m_pBLOCK' = [m_pBLOCK EXCEPT ![t] = b]
    BY <2>1 DEF SetNonce
  <2> HIDE DEF b
  <2>4. ThreadStateTypeOK'
    BY <1>2, <2>2, <2>3 DEF MinerStoresNonce, ThreadStateTypeOK
  <2>5. FoundHasBlock'
    BY <1>2, <2>2, <2>3 DEF MinerStoresNonce, ThreadStateTypeOK, FoundHasBlock
  <2>6. SubmissionStable'
    BY <1>2, <2>3 DEF MinerStoresNonce, ThreadStateTypeOK, SubmissionStable,
                      HasShare
  <2> QED
    BY <1>1, <2>4, <2>5, <2>6
<1>3. CASE MinerRaisesFlag(t)
  <2>1. m_bBlockFound' = [m_bBlockFound EXCEPT ![t] = TRUE]
    BY <1>3 DEF MinerRaisesFlag, SetIsBlockFound
  <2>2. ThreadStateTypeOK'
    BY <1>3, <2>1 DEF MinerRaisesFlag, ThreadStateTypeOK
  <2>3. FoundHasBlock' /\ SubmissionStable'
    BY <1>3, <2>1 DEF MinerRaisesFlag, ThreadStateTypeOK, FoundHasBlock,
                      SubmissionStable, HasShare, LoopInv, AtThread
  <2> QED
    BY <1>1, <2>2, <2>3
<1> QED
  BY <1>2, <1>3

-----------------------------------------------------------------------------
(* The steps of the connection thread.  What of SInv does not depend on   *)
(* what the step did to the object or to the link is common to all.        *)
LEMMA ObjectSame ==
  ASSUME ThreadStateTypeOK, FoundHasBlock, UNCHANGED objectVars
  PROVE  ThreadStateTypeOK' /\ FoundHasBlock'
  BY DEF ThreadStateTypeOK, FoundHasBlock, objectVars

(* A step that leaves the link alone.                                      *)
LEMMA NetSame ==
  ASSUME NetInv, UNCHANGED netVars
  PROVE  NetInv' /\ UNCHANGED clientVars
  BY DEF NetInv, ConnectionTypeOK, netVars, clientVars, poolVars

(* Steps that only move the control point.                                 *)
LEMMA ControlSteps ==
  ASSUME SInv, UNCHANGED <<objectVars, netVars>>,
         \/ MeterNotDue \/ MeterReset \/ ScanDone \/ ScanNext \/ ScanFound
         \/ ReadShare \/ NoVerdict \/ Exit
  PROVE  SInv'
<1>1. NetInv' /\ UNCHANGED clientVars
  BY NetSame DEF SInv
<1>2. ThreadStateTypeOK' /\ FoundHasBlock'
  BY ObjectSame DEF SInv
<1>3. \A i \in 0 .. NThreads :
        i < NThreads => i \in Threads /\ i + 1 \in 0 .. NThreads
  BY ThreadAssumption DEF Threads
<1> USE DEF SInv, SGoto, ServerTypeOK, ServerPCs, LeftOver, LoopInv, AtThread,
            SubmissionStable, HasShare, ReadTimesOut, rareVars, counters,
            timers, runVars, objectVars, clientVars
<1>4. CASE MeterNotDue
  BY <1>1, <1>2, <1>3, <1>4 DEF MeterNotDue
<1>5. CASE MeterReset
  BY <1>1, <1>2, <1>3, <1>5 DEF MeterReset
<1>6. CASE ScanDone
  BY <1>1, <1>2, <1>3, <1>6 DEF ScanDone
<1>7. CASE ScanNext
  BY <1>1, <1>2, <1>3, <1>7 DEF ScanNext
<1>8. CASE ScanFound
  BY <1>1, <1>2, <1>3, <1>8 DEF ScanFound
<1>9. CASE NoVerdict
  BY <1>1, <1>2, <1>3, <1>9 DEF NoVerdict
<1>10. CASE Exit
  BY <1>1, <1>2, <1>3, <1>10 DEF Exit
<1>11. CASE ReadShare
  <2>1. m_pBLOCK[nIndex] \in CBlock /\ m_pBLOCK[nIndex].nonce \in Nonces
    BY <1>11 DEF ReadShare, FoundHasBlock, ThreadStateTypeOK, CBlock
  <2> QED
    BY <1>1, <1>2, <1>11, <2>1 DEF ReadShare
<1> QED
  BY <1>4, <1>5, <1>6, <1>7, <1>8, <1>9, <1>10, <1>11

(* Steps that write, read, open or close the link.                         *)
LEMMA NetSteps ==
  ASSUME SInv, UNCHANGED objectVars,
         \/ PingPool \/ PingConnectFails \/ PingAnswered \/ PingTimesOut
         \/ KeepsConnection \/ Reconnects \/ ReconnectFails
         \/ LoginSucceeds \/ LoginFails \/ WorkArrives \/ OtherArrives
         \/ NoWork \/ MeterDue \/ ScanNew \/ CheckHeight \/ SubmitBlock
         \/ ShareAccepted \/ ShareRejected \/ OtherVerdict \/ FailClose
  PROVE  SInv'
<1>1. ThreadStateTypeOK' /\ FoundHasBlock'
  BY ObjectSame DEF SInv
<1>2. /\ \A i \in 0 .. NThreads : i < NThreads => i \in Threads
      /\ 0 \in Threads /\ 0 \in 0 .. NThreads
      /\ \A i \in Attempts : i < MaxAttempts => i + 1 \in Attempts
      /\ \A i \in Attempts : ~ (i >= MaxAttempts) => i + 1 \in Attempts
  BY ThreadAssumption, ServerAssumption DEF Threads, Attempts
<1>3. /\ Request("PING") \in Packets
      /\ Request("LOGIN") \in Packets
      /\ Request("GET_BLOCK") \in Packets
      /\ NoPacket \in GoodPackets
      /\ NoShare \in Nonces
      /\ \A w \in Works : w \in Nonces
  BY PacketTypes DEF Headers
<1> USE DEF SInv, SGoto, ServerTypeOK, ServerPCs, LeftOver, LoopInv, AtThread,
            SubmissionStable, HasShare, ReadTimesOut, rareVars, counters,
            timers, runVars, objectVars, clientVars, Shutdown, NewPass,
            NeedsConnection
<1>4. CASE PingPool
  <2>1. NetInv' /\ CONNECTED' /\ ~ ERROR_HANDLE' /\ INCOMING' = INCOMING
    BY ConnectEffect, <1>3, <1>4 DEF PingPool
  <2> QED
    BY <1>1, <1>2, <1>3, <1>4, <2>1 DEF PingPool
<1>5. CASE PingConnectFails
  <2>1. NetInv' /\ ~ CONNECTED' /\ INCOMING' = NoPacket
    BY DisconnectEffect, <1>3, <1>5 DEF PingConnectFails, PingAgain
  <2> QED
    BY <1>1, <1>2, <1>3, <1>5, <2>1 DEF PingConnectFails, PingAgain
<1>6. CASE PingAnswered
  <2>1. NetInv' /\ ~ CONNECTED' /\ INCOMING' = NoPacket
    BY DisconnectEffect, <1>3, <1>6 DEF PingAnswered
  <2> QED
    BY <1>1, <1>2, <1>3, <1>6, <2>1 DEF PingAnswered
<1>7. CASE PingTimesOut
  <2>1. NetInv' /\ ~ CONNECTED' /\ INCOMING' = NoPacket
    BY DisconnectEffect, <1>3, <1>7 DEF PingTimesOut, PingAgain
  <2> QED
    BY <1>1, <1>2, <1>3, <1>7, <2>1 DEF PingTimesOut, PingAgain
<1>8. CASE KeepsConnection
  <2>1. NetInv' /\ UNCHANGED clientVars
    BY NetSame, <1>3, <1>8 DEF KeepsConnection
  <2> QED
    BY <1>1, <1>2, <1>3, <1>8, <2>1 DEF KeepsConnection
<1>9. CASE Reconnects
  <2>1. NetInv' /\ CONNECTED' /\ ~ ERROR_HANDLE' /\ INCOMING' = INCOMING
    BY ConnectEffect, <1>3, <1>9 DEF Reconnects
  <2> QED
    BY <1>1, <1>2, <1>3, <1>9, <2>1 DEF Reconnects
<1>10. CASE ReconnectFails
  <2>1. NetInv' /\ ~ CONNECTED' /\ INCOMING' = NoPacket
    BY DisconnectEffect, <1>3, <1>10 DEF ReconnectFails
  <2> QED
    BY <1>1, <1>2, <1>3, <1>10, <2>1 DEF ReconnectFails
<1>11. CASE LoginSucceeds
  <2>1. /\ NetInv' /\ INCOMING' = NoPacket /\ CONNECTED' /\ ~ ERROR_HANDLE'
    BY ReadEffect, <1>3, <1>11 DEF LoginSucceeds, ReadAndReset
  <2> QED
    BY <1>1, <1>2, <1>3, <1>11, <2>1 DEF LoginSucceeds, ReadAndReset
<1>12. CASE LoginFails
  <2>1. NetInv' /\ ~ CONNECTED' /\ INCOMING' = NoPacket
    BY DisconnectEffect, <1>3, <1>12 DEF LoginFails
  <2> QED
    BY <1>1, <1>2, <1>3, <1>12, <2>1 DEF LoginFails
<1>13. CASE WorkArrives
  <2>1. /\ NetInv' /\ INCOMING' = NoPacket /\ CONNECTED' /\ ~ ERROR_HANDLE'
        /\ NextPacket \in GoodPackets
    BY ReadEffect, <1>3, <1>13 DEF WorkArrives, ReadAndReset
  <2>2. NextPacket.work \in Works
    BY <1>13, <2>1 DEF WorkArrives, GoodPackets
  <2>3. ServerTypeOK'
    BY <1>3, <1>13, <2>2 DEF WorkArrives, Awaiting, AfterWork
  <2> QED
    BY <1>1, <1>2, <1>13, <2>1, <2>2, <2>3 DEF WorkArrives, Awaiting, AfterWork
<1>14. CASE OtherArrives
  <2>1. /\ NetInv' /\ INCOMING' = NoPacket /\ CONNECTED' /\ ~ ERROR_HANDLE'
    BY ReadEffect, <1>3, <1>14 DEF OtherArrives, ReadAndReset
  <2> QED
    BY <1>1, <1>2, <1>3, <1>14, <2>1 DEF OtherArrives, ReadAndReset
<1>15. CASE NoWork
  <2>1. NetInv' /\ INCOMING' = NoPacket
        /\ (CONNECTED' /\ ERROR_HANDLE' => spc = "retry")
    <3>1. CASE spc = "need"
      BY DisconnectEffect, <1>15, <3>1 DEF NoWork
    <3>2. CASE spc # "need"
      <4>1. UNCHANGED netVars /\ spc \in {"login_work", "wait", "retry"}
        BY <1>15, <3>2 DEF NoWork, Awaiting
      <4> QED
        BY NetSame, <1>15, <4>1 DEF NoWork
    <3> QED
      BY <3>1, <3>2
  <2>2. ServerTypeOK'
    <3>1. spc' \in {"reset_found", "meter", "loop", "crashed"} /\ pWork' = NoShare
      BY <1>15 DEF NoWork, Awaiting
    <3>2. UNCHANGED <<nIndex, rareVars>>
      BY <1>15 DEF NoWork
    <3> QED
      BY <1>3, <3>1, <3>2
  <2> QED
    BY <1>1, <1>2, <1>15, <2>1, <2>2 DEF NoWork, Awaiting
<1>16. CASE MeterDue
  <2>1. NetInv' /\ INCOMING' = NoPacket /\ ~ (CONNECTED' /\ ERROR_HANDLE')
    <3>1. CASE NoBlockYet
      BY DisconnectEffect, <1>16, <3>1 DEF MeterDue
    <3>2. CASE ~ NoBlockYet
      BY NetSame, <1>16, <3>2 DEF MeterDue
    <3> QED
      BY <3>1, <3>2
  <2>2. nLoginCount' \in Attempts
    BY <1>2, <1>16, ServerAssumption DEF MeterDue, Attempts
  <2>3. ServerTypeOK'
    BY <1>16, <2>2 DEF MeterDue, ClockRead
  <2> QED
    BY <1>1, <1>2, <1>16, <2>1, <2>3 DEF MeterDue
<1>17. CASE ScanNew
  <2>1. NetInv' /\ CONNECTED' = CONNECTED /\ INCOMING' = INCOMING
    BY WriteEffect, NetSame, <1>3, <1>17 DEF ScanNew
  <2>2. spc' = "need" \/ ERROR_HANDLE' = ERROR_HANDLE
    BY NetSame, <1>17 DEF ScanNew
  <2>3. spc' = "have" => pWork \in Works
    BY <1>17 DEF ScanNew, NoShare, Nonces, Works
  <2> QED
    BY <1>1, <1>2, <1>17, <2>1, <2>2, <2>3 DEF ScanNew
<1>18. CASE CheckHeight
  <2>1. NetInv' /\ CONNECTED' = CONNECTED /\ INCOMING' = INCOMING
    BY WriteEffect, NetSame, <1>3, <1>18 DEF CheckHeight
  <2>2. spc' = "retry" \/ ERROR_HANDLE' = ERROR_HANDLE
    BY NetSame, <1>18 DEF CheckHeight
  <2> QED
    BY <1>1, <1>2, <1>18, <2>1, <2>2 DEF CheckHeight
<1>19. CASE SubmitBlock
  <2>1. /\ m_pBLOCK[nIndex].work \in Nonces
        /\ m_pBLOCK[nIndex].nonce \in Nonces
    <3>1. m_pBLOCK[nIndex] \in CBlock
      BY <1>19 DEF SubmitBlock, FoundHasBlock, ThreadStateTypeOK
    <3> QED
      BY <1>3, <3>1 DEF CBlock
  <2>2. Packet("SUBMIT_BLOCK", m_pBLOCK[nIndex].work, m_pBLOCK[nIndex].nonce)
          \in Packets
    <3>1. "SUBMIT_BLOCK" \in Headers \ {"BLOCK_DATA"}
      BY DEF Headers
    <3> QED
      BY <2>1, <3>1, PacketTypes
  <2>3. NetInv' /\ CONNECTED' = CONNECTED /\ INCOMING' = INCOMING
    BY WriteEffect, <1>19, <2>2 DEF SubmitBlock
  <2> QED
    BY <1>1, <1>2, <1>19, <2>3 DEF SubmitBlock
<1>20. CASE ShareAccepted
  <2>1. /\ NetInv' /\ INCOMING' = NoPacket /\ CONNECTED' /\ ~ ERROR_HANDLE'
    BY ReadEffect, <1>3, <1>20 DEF ShareAccepted, ReadAndReset
  <2> QED
    BY <1>1, <1>2, <1>3, <1>20, <2>1 DEF ShareAccepted, ReadAndReset
<1>21. CASE ShareRejected
  <2>1. /\ NetInv' /\ INCOMING' = NoPacket /\ CONNECTED' /\ ~ ERROR_HANDLE'
    BY ReadEffect, <1>3, <1>21 DEF ShareRejected, ReadAndReset
  <2> QED
    BY <1>1, <1>2, <1>3, <1>21, <2>1 DEF ShareRejected, ReadAndReset
<1>22. CASE OtherVerdict
  <2>1. NextPacket \in GoodPackets
    BY <1>22 DEF OtherVerdict, ReadAndKeep, PacketArrives, NextPacket, NetInv
  <2>2. NetInv' /\ CONNECTED' /\ ~ ERROR_HANDLE'
    BY ReadEffect, <1>22, <2>1 DEF OtherVerdict, ReadAndKeep
  <2> QED
    BY <1>1, <1>2, <1>22, <2>2 DEF OtherVerdict
<1>23. CASE FailClose
  <2>1. NetInv' /\ ~ CONNECTED' /\ INCOMING' = NoPacket
    BY DisconnectEffect, <1>3, <1>23 DEF FailClose
  <2> QED
    BY <1>1, <1>2, <1>3, <1>23, <2>1 DEF FailClose
<1> QED
  BY <1>4, <1>5, <1>6, <1>7, <1>8, <1>9, <1>10, <1>11, <1>12, <1>13,
     <1>14, <1>15, <1>16, <1>17, <1>18, <1>19, <1>20, <1>21, <1>22, <1>23

(* Steps that store into a MinerThread object.                             *)
LEMMA ObjectSteps ==
  ASSUME SInv, UNCHANGED netVars,
         \/ ResetFound \/ ResetNew \/ AssignBits \/ AssignBlock \/ AssignFound
         \/ AssignNew \/ AcceptNonce \/ SettleNew \/ SettleFound
         \/ RaiseShutdown
  PROVE  SInv'
<1>1. NetInv' /\ UNCHANGED clientVars
  BY NetSame DEF SInv
<1>2. /\ \A i \in Threads : i \in 0 .. NThreads /\ i + 1 \in 0 .. NThreads
      /\ \A i \in Threads : i + 1 < NThreads => i + 1 \in Threads
      /\ 0 \in Threads /\ 0 \in 0 .. NThreads
  BY ThreadAssumption DEF Threads
<1>3. NoShare \in Nonces /\ \A w \in Works : w \in Nonces /\ Height[w] \in Nat
  BY PacketTypes, WorkAssumption
<1> USE DEF SInv, SGoto, ServerTypeOK, ServerPCs, LeftOver, LoopInv, AtThread,
            SubmissionStable, HasShare, FoundHasBlock, ThreadStateTypeOK,
            rareVars, counters, timers, runVars, clientVars,
            SetIsBlockFound, SetIsNewBlock
<1>4. CASE ResetFound
  BY <1>1, <1>2, <1>3, <1>4 DEF ResetFound
<1>5. CASE ResetNew
  BY <1>1, <1>2, <1>3, <1>5 DEF ResetNew
<1>6. CASE AssignBits
  BY <1>1, <1>2, <1>3, <1>6 DEF AssignBits, SetBits
<1>7. CASE AssignBlock
  <2> DEFINE b == [work |-> pWork, nonce |-> NoShare]
  <2>1. b \in CBlock /\ b # NULL
    BY <1>3, <1>7, NullAssumption DEF AssignBlock, CBlock
  <2>2. m_pBLOCK' = [m_pBLOCK EXCEPT ![nIndex] = b]
    BY <1>7 DEF AssignBlock, SetBlock
  <2> HIDE DEF b
  <2> QED
    BY <1>1, <1>7, <2>1, <2>2 DEF AssignBlock
<1>8. CASE AssignFound
  BY <1>1, <1>2, <1>3, <1>8 DEF AssignFound
<1>9. CASE AssignNew
  BY <1>1, <1>2, <1>3, <1>9 DEF AssignNew
<1>10. CASE AcceptNonce
  <2> DEFINE b == [m_pBLOCK[nIndex] EXCEPT !.nonce = NoShare]
  <2>1. b \in CBlock /\ b # NULL
    <3>1. m_pBLOCK[nIndex] \in CBlock
      BY <1>10 DEF AcceptNonce
    <3> QED
      BY <1>3, <3>1, NullAssumption DEF CBlock
  <2>2. m_pBLOCK' = [m_pBLOCK EXCEPT ![nIndex] = b]
    BY <1>10 DEF AcceptNonce, SetNonce
  <2> HIDE DEF b
  <2> QED
    BY <1>1, <1>10, <2>1, <2>2 DEF AcceptNonce
<1>11. CASE SettleNew
  BY <1>1, <1>2, <1>3, <1>11 DEF SettleNew, AfterNewFlag
<1>12. CASE SettleFound
  BY <1>1, <1>2, <1>3, <1>12 DEF SettleFound
<1>13. CASE RaiseShutdown
  BY <1>1, <1>2, <1>3, <1>13 DEF RaiseShutdown
<1> QED
  BY <1>4, <1>5, <1>6, <1>7, <1>8, <1>9, <1>10, <1>11, <1>12, <1>13

(* Every step of the connection thread.                                    *)
LEMMA ServerStepInv == SInv /\ ServerStep => SInv'
<1> SUFFICES ASSUME SInv, ServerStep PROVE SInv'
  OBVIOUS
<1>1. CASE \/ MeterNotDue \/ MeterReset \/ ScanDone \/ ScanNext \/ ScanFound
           \/ ReadShare \/ NoVerdict \/ Exit
  <2>1. UNCHANGED <<objectVars, netVars>>
    BY <1>1 DEF MeterNotDue, MeterReset, ScanDone, ScanNext, ScanFound,
                ReadShare, NoVerdict, Exit
  <2> QED
    BY <1>1, <2>1, ControlSteps
<1>2. CASE \/ PingPool \/ PingConnectFails \/ PingAnswered \/ PingTimesOut
           \/ KeepsConnection \/ Reconnects \/ ReconnectFails
           \/ LoginSucceeds \/ LoginFails \/ WorkArrives \/ OtherArrives
           \/ NoWork \/ MeterDue \/ ScanNew \/ CheckHeight \/ SubmitBlock
           \/ ShareAccepted \/ ShareRejected \/ OtherVerdict \/ FailClose
  <2>1. UNCHANGED objectVars
    BY <1>2 DEF PingPool, PingConnectFails, PingAnswered, PingTimesOut,
         PingAgain, KeepsConnection, Reconnects, ReconnectFails, LoginSucceeds,
         LoginFails, WorkArrives, OtherArrives, NoWork, MeterDue, ScanNew,
         CheckHeight, SubmitBlock, ShareAccepted, ShareRejected, OtherVerdict,
         FailClose
  <2> QED
    BY <1>2, <2>1, NetSteps
<1>3. CASE \/ ResetFound \/ ResetNew \/ AssignBits \/ AssignBlock
           \/ AssignFound \/ AssignNew \/ AcceptNonce \/ SettleNew
           \/ SettleFound \/ RaiseShutdown
  <2>1. UNCHANGED netVars
    BY <1>3 DEF ResetFound, ResetNew, AssignBits, AssignBlock, AssignFound,
         AssignNew, AcceptNonce, SettleNew, SettleFound, RaiseShutdown
  <2> QED
    BY <1>3, <2>1, ObjectSteps
<1> QED
  BY <1>1, <1>2, <1>3 DEF ServerStep

-----------------------------------------------------------------------------
(* Every step of the closed specification.                                 *)
LEMMA ServerNextInv ==
  ASSUME SInv, [ServerSpecNext]_serverSpecVars
  PROVE  SInv'
<1>1. CASE UNCHANGED serverSpecVars
  <2>1. ThreadStateTypeOK' /\ FoundHasBlock' /\ NetInv'
    BY <1>1, ObjectSame, NetSame DEF SInv, serverSpecVars
  <2>2. ServerTypeOK' /\ LeftOver' /\ LoopInv' /\ SubmissionStable'
    BY <1>1 DEF SInv, serverSpecVars, objectVars, netVars, clientVars,
         serverVars, rareVars, counters, timers, runVars, ServerTypeOK,
         LeftOver, LoopInv, SubmissionStable, HasShare
  <2> QED
    BY <2>1, <2>2 DEF SInv
<1>2. CASE ServerStep
  BY <1>2, ServerStepInv
<1>3. CASE Running /\ PoolStep /\ UNCHANGED <<objectVars, serverVars>>
  BY <1>3, PoolKeepsSInv
<1>4. CASE /\ \E t \in Threads : MinerStoresNonce(t) \/ MinerRaisesFlag(t)
           /\ UNCHANGED <<netVars, serverVars>>
  BY <1>4, MinerKeepsSInv
<1> QED
  BY <1>1, <1>2, <1>3, <1>4 DEF ServerSpecNext

(* SInv holds of the connection thread among any mining threads that keep  *)
(* their hands off a flagged object, and with any pool.                    *)
THEOREM ServerInvariant == ServerSpec => []SInv
  BY ServerInitInv, ServerNextInv, PTL DEF ServerSpec

(* Every variable of the connection thread, of its end of the link and of  *)
(* the shared objects keeps its type; the attempt counters stop at their   *)
(* limit (core.cpp:150, 187, 282).                                         *)
THEOREM ServerTypeCorrect == ServerSpec => []ServerInv
<1>1. SInv => ServerInv
  BY DEF SInv, ServerInv, NetInv
<1> QED
  BY <1>1, ServerInvariant, PTL

(* No null pointer is followed outside the second request of the           *)
(* same-height path (core.cpp:377, NoWork).                                *)
THEOREM NoNullDereferenceHolds == ServerSpec => []NoNullDereference
<1>1. SInv => NoNullDereference
  <2>1. NoShare \notin Works
    BY PacketTypes
  <2> QED
    BY <2>1 DEF SInv, NoNullDereference, LoopInv, HasWork, HasShare, AtThread,
         FoundHasBlock, SubmissionStable
<1> QED
  BY <1>1, ServerInvariant, PTL

(* The block and the nonce of a share do not change while it is submitted  *)
(* (core.cpp:489-503).                                                     *)
THEOREM SubmissionStableHolds == ServerSpec => []SubmissionStable
<1>1. SInv => SubmissionStable
  BY DEF SInv
<1> QED
  BY <1>1, ServerInvariant, PTL

(* A login never reads a packet of an earlier link (core.cpp:180-206).     *)
THEOREM FreshLoginHolds == ServerSpec => []FreshLogin
<1>1. SInv => FreshLogin
  BY DEF SInv, LeftOver, FreshLogin
<1> QED
  BY <1>1, ServerInvariant, PTL

(* No pass of the main loop begins on a link known to have failed.         *)
THEOREM ErrorsDisconnectHolds == ServerSpec => []ErrorsDisconnect
<1>1. SInv => ErrorsDisconnect
  BY DEF SInv, LeftOver, ErrorsDisconnect
<1> QED
  BY <1>1, ServerInvariant, PTL

-----------------------------------------------------------------------------
(***************************************************************************)
(* What the connection thread guarantees the mining threads: a thread's    *)
(* block is replaced only under a raised m_bNewBlock, and never by older   *)
(* work.  Work gets older nowhere between the pool and a thread, because   *)
(* the link is a queue and INCOMING is read before the socket.             *)
(***************************************************************************)

IsWork(p) == p.header = "BLOCK_DATA"

(* Work w is no newer than anything still under way.                       *)
NotAfter(w) ==
  /\ \A i \in DOMAIN toClient : IsWork(toClient[i]) => w <= toClient[i].work
  /\ IsWork(INCOMING) => w <= INCOMING.work
  /\ w <= tip

NetOrder ==
  /\ \A i, j \in DOMAIN toClient :
       i <= j /\ IsWork(toClient[i]) /\ IsWork(toClient[j]) =>
         toClient[i].work <= toClient[j].work
  /\ \A i \in DOMAIN toClient : IsWork(toClient[i]) => toClient[i].work <= tip
  /\ IsWork(INCOMING) => NotAfter(INCOMING.work)

WorkOrder ==
  /\ NetOrder
  /\ pWork # NoShare => NotAfter(pWork)
  /\ \A t \in Threads : m_pBLOCK[t] # NULL =>
       /\ NotAfter(m_pBLOCK[t].work)
       /\ pWork # NoShare => m_pBLOCK[t].work <= pWork

(* While a thread is being given work its flag is up, and once it has the  *)
(* block, or a share of it was accepted, the block is there.               *)
Assigning ==
  /\ spc \in {"need", "have", "retry", "set_bits", "set_block", "set_found",
              "set_new"} => m_bNewBlock[nIndex]
  /\ spc \in {"set_found", "set_new", "acc_new"} => m_pBLOCK[nIndex] # NULL

OInv == SInv /\ WorkOrder /\ Assigning

-----------------------------------------------------------------------------
(* The queue, and first what it holds.                                     *)
LEMMA QueueTypes ==
  ASSUME NetInv
  PROVE  /\ tip \in Works
         /\ \A w \in Works : w \in Nat
         /\ \A i \in DOMAIN toClient : /\ toClient[i] \in GoodPackets
                                       /\ IsWork(toClient[i]) =>
                                            toClient[i].work \in Works
         /\ IsWork(INCOMING) => INCOMING.work \in Works
  BY WorkAssumption
     DEF NetInv, ConnectionTypeOK, GoodPackets, IsWork, Works

(* What a client's step may do to the queue: read its head, or empty it.   *)
Shortens ==
  \/ toClient' = <<>>
  \/ toClient' = toClient
  \/ toClient # <<>> /\ toClient' = Tail(toClient)

(* Shortening the queue keeps the order.                                   *)
LEMMA ShorterQueue ==
  ASSUME NetInv, NetOrder, Shortens, tip' = tip,
         INCOMING' = INCOMING \/ INCOMING' = NoPacket
  PROVE  NetOrder' /\ \A w : NotAfter(w) => NotAfter(w)'
<1>1. ~ IsWork(NoPacket)
  BY PacketTypes DEF IsWork
<1>2. \A i \in DOMAIN toClient' :
        \E k \in DOMAIN toClient : k >= i /\ toClient'[i] = toClient[k]
  <2>1. CASE toClient' = <<>> \/ toClient' = toClient
    BY <2>1 DEF NetInv
  <2>2. CASE toClient # <<>> /\ toClient' = Tail(toClient)
    <3>1. /\ \A i \in DOMAIN Tail(toClient) :
               i + 1 \in DOMAIN toClient /\ Tail(toClient)[i] = toClient[i + 1]
          /\ DOMAIN Tail(toClient) \subseteq Nat
      BY <2>2 DEF NetInv
    <3> QED
      BY <2>2, <3>1
  <2> QED
    BY <2>1, <2>2 DEF Shortens
<1>3. \A i, j \in DOMAIN toClient' : i <= j =>
        \E k, l \in DOMAIN toClient :
          k <= l /\ toClient'[i] = toClient[k] /\ toClient'[j] = toClient[l]
  <2>1. CASE toClient' = <<>> \/ toClient' = toClient
    BY <2>1 DEF NetInv
  <2>2. CASE toClient # <<>> /\ toClient' = Tail(toClient)
    <3>1. /\ \A i \in DOMAIN Tail(toClient) :
               i + 1 \in DOMAIN toClient /\ Tail(toClient)[i] = toClient[i + 1]
          /\ DOMAIN Tail(toClient) \subseteq Nat
      BY <2>2 DEF NetInv
    <3>2. \A i, j \in Nat : i <= j => i + 1 <= j + 1
      OBVIOUS
    <3> QED
      BY <2>2, <3>1, <3>2
  <2> QED
    BY <2>1, <2>2 DEF Shortens
<1>4. \A w : NotAfter(w) => NotAfter(w)'
  BY <1>1, <1>2 DEF NotAfter
<1>5. IsWork(INCOMING)' => NotAfter(INCOMING.work)'
  BY <1>1, <1>4 DEF NetOrder, IsWork
<1> QED
  BY <1>2, <1>3, <1>4, <1>5 DEF NetOrder

(* Whatever is appended to the queue is the pool's newest template.        *)
LEMMA AppendedWork ==
  ASSUME NetInv, NetOrder, NEW a \in Seq(GoodPackets),
         toClient' = toClient \o a, tip' \in {tip, tip + 1},
         \A i \in DOMAIN a : IsWork(a[i]) => a[i].work = tip',
         UNCHANGED INCOMING
  PROVE  NetOrder' /\ \A w \in Works : NotAfter(w) => NotAfter(w)'
<1> DEFINE n == Len(toClient)
<1>1. /\ n \in Nat /\ DOMAIN toClient = 1 .. n
      /\ DOMAIN toClient' \subseteq Nat
      /\ \A i \in DOMAIN toClient' :
           \/ i \in 1 .. n /\ toClient'[i] = toClient[i]
           \/ i > n /\ i - n \in DOMAIN a /\ toClient'[i] = a[i - n]
  BY DEF NetInv
<1>2. tip \in Nat /\ tip' \in Nat /\ tip <= tip'
  BY QueueTypes
<1> HIDE DEF n
<1>3. \A i \in DOMAIN toClient' : IsWork(toClient'[i]) =>
        \/ i \in DOMAIN toClient /\ toClient'[i] = toClient[i]
        \/ i \notin DOMAIN toClient /\ toClient'[i].work = tip'
  BY <1>1
<1>4. \A w \in Nat : w <= tip => w <= tip'
  BY <1>2
<1>5. \A w \in Works : NotAfter(w) => NotAfter(w)'
  BY <1>3, <1>4, QueueTypes DEF NotAfter, IsWork
<1>6. \A i \in DOMAIN toClient' : IsWork(toClient'[i]) => toClient'[i].work <= tip'
  BY <1>2, <1>3, <1>4, QueueTypes DEF NetOrder
<1>7. \A i, j \in DOMAIN toClient' :
        i <= j /\ IsWork(toClient'[i]) /\ IsWork(toClient'[j]) =>
          toClient'[i].work <= toClient'[j].work
  <2> SUFFICES ASSUME NEW i \in DOMAIN toClient', NEW j \in DOMAIN toClient',
                      i <= j, IsWork(toClient'[i]), IsWork(toClient'[j])
               PROVE  toClient'[i].work <= toClient'[j].work
    OBVIOUS
  <2>1. CASE j \notin DOMAIN toClient
    BY <1>3, <1>6, <2>1
  <2>2. CASE j \in DOMAIN toClient
    <3>1. i \in DOMAIN toClient
      BY <1>1, <2>2
    <3> QED
      BY <1>3, <2>2, <3>1 DEF NetOrder
  <2> QED
    BY <2>1, <2>2
<1>8. IsWork(INCOMING)' => NotAfter(INCOMING.work)'
  BY <1>5, QueueTypes DEF NetOrder, IsWork
<1> QED
  BY <1>5, <1>6, <1>7, <1>8 DEF NetOrder

(* A step of the pool or of the network.                                   *)
LEMMA PoolKeepsOrder ==
  ASSUME NetInv, NetOrder, PoolStep
  PROVE  NetOrder' /\ \A w \in Works : NotAfter(w) => NotAfter(w)'
<1>0. UNCHANGED INCOMING
  BY DEF PoolStep, PoolAnswers, PoolHasNewWork, LinkDrops, clientVars
<1>1. CASE PoolAnswers
  <2>1. PICK a \in Answers(Head(toPool)) : toClient' = toClient \o a
    BY <1>1 DEF PoolAnswers
  <2>2. /\ a \in Seq(GoodPackets)
        /\ \A i \in DOMAIN a : IsWork(a[i]) => a[i].work = tip
    <3>1. Head(toPool) \in Packets
      BY <1>1, SequenceTypes DEF PoolAnswers, NetInv, ConnectionTypeOK
    <3> QED
      BY <2>1, <3>1, AnswersGood DEF NetInv, ConnectionTypeOK, IsWork
  <2>3. tip' = tip
    BY <1>1 DEF PoolAnswers
  <2> QED
    BY <1>0, <2>1, <2>2, <2>3, AppendedWork
<1>2. CASE PoolHasNewWork
  <2>1. tip' = tip + 1 /\ tip' \in Works
    BY <1>2, WorkAssumption DEF PoolHasNewWork, NetInv, ConnectionTypeOK, Works
  <2>2. /\ BLOCK_DATA(tip') \in GoodPackets
        /\ BLOCK_DATA(tip').work = tip'
    BY <2>1, PacketTypes DEF BLOCK_DATA, Packet
  <2>3. CASE toClient' = toClient
    <3>1. /\ toClient' = toClient \o <<>>
          /\ <<>> \in Seq(GoodPackets)
          /\ DOMAIN <<>> = {}
      BY <2>3 DEF NetInv
    <3> QED
      BY <1>0, <2>1, <3>1, AppendedWork
  <2>4. CASE toClient' = Append(toClient, BLOCK_DATA(tip + 1))
    <3> DEFINE a == <<BLOCK_DATA(tip')>>
    <3>1. toClient' = toClient \o a /\ a \in Seq(GoodPackets)
      BY <2>1, <2>2, <2>4 DEF NetInv
    <3>2. \A i \in DOMAIN a : IsWork(a[i]) => a[i].work = tip'
      BY <2>2
    <3> HIDE DEF a
    <3> QED
      BY <1>0, <2>1, <3>1, <3>2, AppendedWork
  <2> QED
    BY <1>2, <2>3, <2>4 DEF PoolHasNewWork
<1>3. CASE LinkDrops
  BY <1>0, <1>3, ShorterQueue DEF LinkDrops, Shortens
<1> QED
  BY <1>1, <1>2, <1>3 DEF PoolStep

-----------------------------------------------------------------------------
(* The connection thread.  What each of its steps does to the queue, to    *)
(* the work at hand and to the blocks, as far as the order can tell.       *)
KeepsQueue == Shortens /\ tip' = tip /\ INCOMING' \in {INCOMING, NoPacket}

KeepsBlocks ==
  \A t \in Threads :
    /\ m_pBLOCK'[t] = NULL <=> m_pBLOCK[t] = NULL
    /\ m_pBLOCK[t] # NULL => m_pBLOCK'[t].work = m_pBLOCK[t].work

(* All but OtherVerdict, which leaves a packet in INCOMING.                *)
LEMMA StepKeepsQueue ==
  ASSUME NetInv, ServerStep, ~ OtherVerdict
  PROVE  KeepsQueue
<1>1. /\ \A m : ConnectAndWrite(m) => KeepsQueue
      /\ \A m : WritePacket(m) => KeepsQueue
      /\ Disconnect => KeepsQueue
      /\ ConnectFails => KeepsQueue
      /\ UNCHANGED netVars => KeepsQueue
  BY DEF ConnectAndWrite, WritePacket, Disconnect, ConnectFails, KeepsQueue,
         Shortens, netVars, clientVars, poolVars
<1>2. ReadAndReset => KeepsQueue
  BY DEF ReadAndReset, PacketArrives, TakePacket, KeepsQueue, Shortens
<1>3. CASE \/ PingPool \/ PingConnectFails \/ PingAnswered \/ PingTimesOut
           \/ KeepsConnection \/ Reconnects \/ ReconnectFails
           \/ LoginSucceeds \/ LoginFails \/ ResetFound \/ ResetNew
  BY <1>1, <1>2, <1>3
     DEF PingPool, PingConnectFails, PingAnswered, PingTimesOut, KeepsConnection,
         Reconnects, ReconnectFails, LoginSucceeds, LoginFails, ResetFound,
         ResetNew
<1>4. CASE WorkArrives \/ OtherArrives
  BY <1>2, <1>4 DEF WorkArrives, OtherArrives
<1>5. CASE NoWork
  BY <1>1, <1>5 DEF NoWork, Awaiting
<1>6. CASE \/ MeterNotDue \/ MeterDue \/ MeterReset \/ ScanDone \/ ScanNext
           \/ ScanNew \/ CheckHeight \/ AssignBits \/ AssignBlock
           \/ AssignFound \/ AssignNew
  BY <1>1, <1>6
     DEF MeterNotDue, MeterDue, MeterReset, ScanDone, ScanNext, ScanNew,
         CheckHeight, AssignBits, AssignBlock, AssignFound, AssignNew
<1>7. CASE \/ ScanFound \/ ReadShare \/ SubmitBlock \/ ShareAccepted
           \/ ShareRejected \/ NoVerdict \/ AcceptNonce \/ SettleNew
           \/ SettleFound \/ FailClose \/ RaiseShutdown \/ Exit
  BY <1>1, <1>2, <1>7
     DEF ScanFound, ReadShare, SubmitBlock, ShareAccepted, ShareRejected,
         NoVerdict, AcceptNonce, SettleNew, SettleFound, FailClose,
         RaiseShutdown, Exit
<1> QED
  BY <1>3, <1>4, <1>5, <1>6, <1>7 DEF ServerStep

(* All but WorkArrives leave the work at hand or drop it.                  *)
LEMMA StepKeepsWork ==
  ASSUME ServerStep, ~ WorkArrives
  PROVE  pWork' \in {pWork, NoShare}
  BY DEF ServerStep, PingPool, PingConnectFails, PingAnswered, PingTimesOut,
         PingAgain, KeepsConnection, Reconnects, ReconnectFails, NewPass,
         LoginSucceeds, LoginFails, OtherArrives, NoWork, ResetFound, ResetNew,
         MeterNotDue, MeterDue, MeterReset, ScanDone, ScanNext, ScanNew,
         CheckHeight, AssignBits, AssignBlock, AssignFound, AssignNew,
         ScanFound, ReadShare, SubmitBlock, ShareAccepted, ShareRejected,
         OtherVerdict, NoVerdict, AcceptNonce, SettleNew, SettleFound,
         FailClose, RaiseShutdown, Exit

(* All but AssignBlock leave the blocks, up to their nonces.               *)
LEMMA StepKeepsBlocks ==
  ASSUME SInv, ServerStep, ~ AssignBlock
  PROVE  KeepsBlocks
<1>1. CASE AcceptNonce
  <2>1. nIndex \in Threads /\ m_pBLOCK[nIndex] # NULL
    BY <1>1 DEF AcceptNonce, SInv, LoopInv, AtThread, SubmissionStable, HasShare,
                FoundHasBlock
  <2>2. /\ m_pBLOCK[nIndex] \in CBlock
        /\ [m_pBLOCK[nIndex] EXCEPT !.nonce = NoShare] # NULL
    BY <2>1, PacketTypes, NullAssumption DEF SInv, ThreadStateTypeOK, CBlock
  <2> QED
    BY <1>1, <2>1, <2>2
       DEF AcceptNonce, SetNonce, KeepsBlocks, SInv, ThreadStateTypeOK, CBlock
<1>2. CASE ~ AcceptNonce
  <2>1. UNCHANGED m_pBLOCK
    BY <1>2
       DEF ServerStep, objectVars, PingPool, PingConnectFails, PingAnswered,
         PingTimesOut, PingAgain, KeepsConnection, Reconnects, ReconnectFails,
         LoginSucceeds, LoginFails, WorkArrives, OtherArrives, NoWork,
         ResetFound, ResetNew, MeterNotDue, MeterDue, MeterReset, ScanDone,
         ScanNext, ScanNew, CheckHeight, AssignBits, AssignFound, AssignNew,
         ScanFound, ReadShare, SubmitBlock, ShareAccepted, ShareRejected,
         OtherVerdict, NoVerdict, SettleNew, SettleFound, FailClose,
         RaiseShutdown, Exit
  <2> QED
    BY <2>1 DEF KeepsBlocks
<1> QED
  BY <1>1, <1>2

(* Such steps keep the order.                                              *)
LEMMA OrderKept ==
  ASSUME SInv, WorkOrder, NetOrder', KeepsBlocks, pWork' \in {pWork, NoShare},
         \A w \in Works : NotAfter(w) => NotAfter(w)'
  PROVE  WorkOrder'
<1>1. pWork # NoShare => pWork \in Works
  BY WorkAssumption DEF SInv, ServerTypeOK, Nonces, Works, NoShare
<1>2. \A t \in Threads : m_pBLOCK[t] # NULL => m_pBLOCK[t].work \in Works
  BY DEF SInv, ThreadStateTypeOK, CBlock
<1>3. (pWork # NoShare => NotAfter(pWork))'
  BY <1>1 DEF WorkOrder, NotAfter
<1>4. ASSUME NEW t \in Threads, m_pBLOCK'[t] # NULL
      PROVE  NotAfter(m_pBLOCK[t].work)'
             /\ (pWork' # NoShare => m_pBLOCK'[t].work <= pWork')
  <2>1. m_pBLOCK[t] # NULL /\ m_pBLOCK'[t].work = m_pBLOCK[t].work
    BY <1>4 DEF KeepsBlocks
  <2>2. m_pBLOCK[t].work \in Works /\ NotAfter(m_pBLOCK[t].work)
    BY <1>2, <2>1 DEF WorkOrder
  <2>3. NotAfter(m_pBLOCK[t].work)'
    BY <2>1, <2>2 DEF NotAfter
  <2> QED
    BY <2>1, <2>3 DEF WorkOrder
<1> QED
  BY <1>3, <1>4 DEF WorkOrder

(* The packet read comes before everything still under way, and after all  *)
(* that was assigned.                                                      *)
LEMMA ReadOrder ==
  ASSUME NetInv, NetOrder, PacketArrives, IsWork(NextPacket)
  PROVE  /\ NotAfter(NextPacket.work)
         /\ NextPacket.work \in Works
         /\ \A w : NotAfter(w) => w <= NextPacket.work
<1>1. CASE INCOMING # NoPacket
  BY <1>1, QueueTypes DEF NextPacket, NetOrder, NotAfter
<1>2. CASE INCOMING = NoPacket
  <2>1. /\ toClient # <<>>
        /\ 1 \in DOMAIN toClient
        /\ NextPacket = toClient[1]
        /\ \A i \in DOMAIN toClient : 1 <= i
    BY <1>2 DEF PacketArrives, NextPacket, NetInv
  <2>2. ~ IsWork(INCOMING)
    BY <1>2, PacketTypes DEF IsWork
  <2> QED
    BY <2>1, <2>2, QueueTypes DEF NetOrder, NotAfter
<1> QED
  BY <1>1, <1>2

(* The work just read becomes the work at hand.                            *)
LEMMA WorkArrivesOrder ==
  ASSUME SInv, WorkOrder, WorkArrives, NetOrder',
         \A w : NotAfter(w) => NotAfter(w)'
  PROVE  WorkOrder'
<1>1. PacketArrives /\ IsWork(NextPacket) /\ pWork' = NextPacket.work
  BY DEF WorkArrives, ReadAndReset, IsWork
<1>2. /\ NotAfter(NextPacket.work)
      /\ NextPacket.work \in Works
      /\ \A w : NotAfter(w) => w <= NextPacket.work
  BY <1>1, ReadOrder DEF SInv, WorkOrder
<1>3. NotAfter(pWork)'
  <2>1. PICK w : w = NextPacket.work /\ NotAfter(w) /\ NotAfter(w)'
    BY <1>2
  <2> QED
    BY <1>1, <2>1 DEF NotAfter
<1>4. UNCHANGED m_pBLOCK
  BY DEF WorkArrives, objectVars
<1>5. ASSUME NEW t \in Threads, m_pBLOCK'[t] # NULL
      PROVE  NotAfter(m_pBLOCK[t].work)' /\ m_pBLOCK'[t].work <= pWork'
  <2>1. PICK w : w = m_pBLOCK[t].work /\ NotAfter(w) /\ NotAfter(w)'
    BY <1>4, <1>5 DEF WorkOrder
  <2> QED
    BY <1>1, <1>2, <1>4, <2>1 DEF NotAfter
<1> QED
  BY <1>3, <1>5 DEF WorkOrder

(* A packet left in INCOMING is read before the rest of the queue.         *)
LEMMA OtherVerdictOrder ==
  ASSUME SInv, WorkOrder, OtherVerdict
  PROVE  NetOrder' /\ \A w \in Works : NotAfter(w) => NotAfter(w)'
<1>1. /\ PacketArrives /\ TakePacket(NextPacket)
      /\ NetInv /\ NetOrder
  BY DEF OtherVerdict, ReadAndKeep, SInv, WorkOrder
<1>2. CASE INCOMING # NoPacket
  <2>1. UNCHANGED <<INCOMING, toClient, tip>>
    BY <1>1, <1>2 DEF TakePacket, NextPacket
  <2> QED
    BY <1>1, <2>1, ShorterQueue DEF Shortens
<1>3. CASE INCOMING = NoPacket
  <2>1. /\ toClient # <<>>
        /\ toClient' = Tail(toClient)
        /\ INCOMING' = toClient[1] /\ tip' = tip
        /\ 1 \in DOMAIN toClient
    BY <1>1, <1>3 DEF PacketArrives, NextPacket, TakePacket, NetInv
  <2>2. /\ \A i \in DOMAIN toClient' : /\ i \in Nat /\ i + 1 \in DOMAIN toClient
                                       /\ toClient'[i] = toClient[i + 1]
        /\ \A i, j \in Nat : i <= j => i + 1 <= j + 1 /\ 1 <= i + 1
    BY <2>1 DEF NetInv
  <2>3. \A w \in Works : NotAfter(w) => NotAfter(w)'
    BY <2>1, <2>2 DEF NotAfter, IsWork
  <2>4. (IsWork(INCOMING) => NotAfter(INCOMING.work))'
    BY <1>1, <2>1, <2>2, QueueTypes DEF NetOrder, NotAfter, IsWork
  <2>5. /\ \A i, j \in DOMAIN toClient' :
             i <= j /\ IsWork(toClient'[i]) /\ IsWork(toClient'[j]) =>
               toClient'[i].work <= toClient'[j].work
        /\ \A i \in DOMAIN toClient' :
             IsWork(toClient'[i]) => toClient'[i].work <= tip'
    BY <1>1, <2>1, <2>2 DEF NetOrder
  <2> QED
    BY <2>3, <2>4, <2>5 DEF NetOrder, IsWork
<1> QED
  BY <1>2, <1>3

(* The work at hand becomes a thread's block.                              *)
LEMMA AssignBlockOrder ==
  ASSUME SInv, WorkOrder, AssignBlock
  PROVE  WorkOrder'
<1>1. /\ nIndex \in Threads
      /\ pWork \in Works /\ pWork # NoShare
      /\ UNCHANGED <<pWork, toClient, INCOMING, tip>>
      /\ NotAfter(pWork)
  BY PacketTypes DEF AssignBlock, SInv, LoopInv, AtThread, WorkOrder, netVars,
                     clientVars, poolVars
<1>2. NetOrder' /\ \A w : NotAfter(w) => NotAfter(w)'
  BY <1>1 DEF NetOrder, NotAfter, WorkOrder
<1>3. \A t \in Threads :
        \/ m_pBLOCK'[t].work = pWork
        \/ m_pBLOCK'[t] = m_pBLOCK[t]
  BY <1>1 DEF AssignBlock, SetBlock, SInv, ThreadStateTypeOK
<1>4. pWork <= pWork
  BY <1>1 DEF Works
<1> QED
  BY <1>1, <1>2, <1>3, <1>4 DEF WorkOrder, NotAfter

(* Every step of the connection thread keeps the order.                    *)
LEMMA ServerStepOrder ==
  ASSUME SInv, WorkOrder, ServerStep
  PROVE  WorkOrder'
<1>1. NetInv /\ NetOrder
  BY DEF SInv, WorkOrder
<1>2. CASE OtherVerdict
  <2>1. NetOrder' /\ \A w \in Works : NotAfter(w) => NotAfter(w)'
    BY <1>2, OtherVerdictOrder
  <2>2. UNCHANGED <<pWork, m_pBLOCK>>
    BY <1>2 DEF OtherVerdict, objectVars
  <2> QED
    BY <2>1, <2>2, OrderKept DEF KeepsBlocks
<1>3. CASE ~ OtherVerdict
  <2>1. NetOrder' /\ \A w : NotAfter(w) => NotAfter(w)'
    BY <1>1, <1>3, StepKeepsQueue, ShorterQueue DEF KeepsQueue
  <2>2. CASE WorkArrives
    BY <2>1, <2>2, WorkArrivesOrder
  <2>3. CASE AssignBlock
    BY <2>3, AssignBlockOrder
  <2>4. CASE ~ WorkArrives /\ ~ AssignBlock
    BY <2>1, <2>4, StepKeepsWork, StepKeepsBlocks, OrderKept
  <2> QED
    BY <2>2, <2>3, <2>4
<1> QED
  BY <1>2, <1>3

(* Only this thread writes m_bNewBlock, and no step takes a block away.    *)
LEMMA ServerStepAssigning ==
  ASSUME SInv, Assigning, ServerStep
  PROVE  Assigning'
<1> USE DEF SInv, Assigning, SGoto, ServerTypeOK, ThreadStateTypeOK, LoopInv,
            AtThread, rareVars, objectVars
<1>1. CASE \/ PingPool \/ PingConnectFails \/ PingAnswered \/ PingTimesOut
           \/ KeepsConnection \/ Reconnects \/ ReconnectFails
           \/ LoginSucceeds \/ LoginFails \/ OtherArrives
           \/ MeterNotDue \/ MeterDue \/ MeterReset \/ ScanDone \/ ScanNext
  BY <1>1 DEF PingPool, PingConnectFails, PingAnswered, PingTimesOut, PingAgain,
       KeepsConnection, Reconnects, ReconnectFails, LoginSucceeds, LoginFails,
       OtherArrives, Shutdown, MeterNotDue, MeterDue, MeterReset, ScanDone,
       ScanNext
<1>2. CASE WorkArrives
  BY <1>2 DEF WorkArrives, Awaiting, AfterWork
<1>3. CASE NoWork
  BY <1>3 DEF NoWork, Awaiting
<1>4. CASE ResetFound \/ ResetNew
  BY <1>4 DEF ResetFound, ResetNew, SetIsBlockFound, SetIsNewBlock
<1>5. CASE ScanNew \/ CheckHeight \/ AssignBits
  BY <1>5 DEF ScanNew, CheckHeight, AssignBits, SetBits
<1>6. CASE AssignBlock
  <2>1. [work |-> pWork, nonce |-> NoShare] # NULL
    BY <1>6, PacketTypes, NullAssumption DEF AssignBlock, CBlock
  <2> QED
    BY <1>6, <2>1 DEF AssignBlock, SetBlock
<1>7. CASE AssignFound \/ AssignNew
  BY <1>7 DEF AssignFound, AssignNew, SetIsBlockFound, SetIsNewBlock
<1>8. CASE \/ ScanFound \/ ReadShare \/ SubmitBlock \/ ShareAccepted
           \/ ShareRejected \/ OtherVerdict \/ NoVerdict \/ FailClose
           \/ RaiseShutdown \/ Exit
  BY <1>8 DEF ScanFound, ReadShare, SubmitBlock, ShareAccepted, ShareRejected,
       OtherVerdict, NoVerdict, FailClose, RaiseShutdown, Exit
<1>9. CASE AcceptNonce
  <2>1. nIndex \in Threads /\ m_pBLOCK[nIndex] \in CBlock
    BY <1>9 DEF AcceptNonce, SubmissionStable, HasShare, FoundHasBlock
  <2>2. [m_pBLOCK[nIndex] EXCEPT !.nonce = NoShare] # NULL
    BY <2>1, PacketTypes, NullAssumption DEF CBlock
  <2> QED
    BY <1>9, <2>1, <2>2 DEF AcceptNonce, SetNonce
<1>10. CASE SettleNew \/ SettleFound
  BY <1>10 DEF SettleNew, SettleFound, AfterNewFlag, SetIsNewBlock,
               SetIsBlockFound
<1> QED
  BY <1>1, <1>2, <1>3, <1>4, <1>5, <1>6, <1>7, <1>8, <1>9, <1>10 DEF ServerStep

(* A store of a mining thread changes at most the nonce of its block.      *)
LEMMA MinerKeepsBlocks ==
  ASSUME SInv, NEW t \in Threads, MinerStoresNonce(t) \/ MinerRaisesFlag(t)
  PROVE  KeepsBlocks
<1>1. CASE MinerStoresNonce(t)
  <2>1. m_pBLOCK[t] \in CBlock
    BY <1>1 DEF MinerStoresNonce, SInv, ThreadStateTypeOK
  <2>2. PICK n \in Nonces : SetNonce(t, n)
    BY <1>1 DEF MinerStoresNonce
  <2>3. /\ [m_pBLOCK[t] EXCEPT !.nonce = n] # NULL
        /\ [m_pBLOCK[t] EXCEPT !.nonce = n].work = m_pBLOCK[t].work
    BY <2>1, NullAssumption DEF CBlock
  <2> QED
    BY <1>1, <2>2, <2>3 DEF MinerStoresNonce, SetNonce, KeepsBlocks, SInv,
                            ThreadStateTypeOK
<1>2. CASE MinerRaisesFlag(t)
  BY <1>2 DEF MinerRaisesFlag, KeepsBlocks
<1> QED
  BY <1>1, <1>2

(* Hence it keeps the order and what the thread is being given.            *)
LEMMA MinerKeepsOrder ==
  ASSUME OInv, NEW t \in Threads, MinerStoresNonce(t) \/ MinerRaisesFlag(t),
         UNCHANGED <<netVars, serverVars>>
  PROVE  WorkOrder' /\ Assigning'
<1>1. KeepsBlocks
  BY MinerKeepsBlocks DEF OInv
<1>2. /\ UNCHANGED <<toClient, INCOMING, tip, pWork, spc, nIndex>>
      /\ UNCHANGED m_bNewBlock
  BY DEF netVars, clientVars, poolVars, serverVars, MinerStoresNonce,
         MinerRaisesFlag
<1>3. NetOrder' /\ \A w : NotAfter(w) => NotAfter(w)'
  BY <1>2 DEF OInv, WorkOrder, NetOrder, NotAfter
<1>4. WorkOrder'
  BY <1>1, <1>2, <1>3, OrderKept DEF OInv
<1>5. Assigning'
  BY <1>1, <1>2 DEF KeepsBlocks, OInv, Assigning, SInv, LoopInv, AtThread
<1> QED
  BY <1>4, <1>5

(* A step of the pool, with respect to the blocks.                         *)
LEMMA PoolKeepsOInv ==
  ASSUME OInv, PoolStep, UNCHANGED <<objectVars, serverVars>>
  PROVE  WorkOrder' /\ Assigning'
<1>1. NetOrder' /\ \A w \in Works : NotAfter(w) => NotAfter(w)'
  BY PoolKeepsOrder DEF OInv, SInv, WorkOrder
<1>2. WorkOrder'
  BY <1>1, OrderKept DEF OInv, KeepsBlocks, objectVars, serverVars
<1>3. Assigning'
  BY DEF OInv, Assigning, objectVars, serverVars
<1> QED
  BY <1>2, <1>3

(* The initial states: nobody holds or sends any work.                     *)
LEMMA OrderInitInv == ServerSpecInit => OInv
<1> SUFFICES ASSUME ServerSpecInit PROVE OInv
  OBVIOUS
<1>1. WorkOrder /\ Assigning
  BY PacketTypes DEF ServerSpecInit, ServerInit, ConnectionInit,
     ThreadStateInit, WorkOrder, NetOrder, NotAfter, IsWork, Assigning
<1> QED
  BY <1>1, ServerInitInv DEF OInv

(* Every step of the closed specification.                                 *)
LEMMA OrderNextInv ==
  ASSUME OInv, [ServerSpecNext]_serverSpecVars
  PROVE  OInv'
<1>0. SInv'
  BY ServerNextInv DEF OInv
<1>1. CASE ServerStep
  BY <1>0, <1>1, ServerStepOrder, ServerStepAssigning DEF OInv
<1>2. CASE PoolStep /\ UNCHANGED <<objectVars, serverVars>>
  BY <1>0, <1>2, PoolKeepsOInv DEF OInv
<1>3. CASE /\ \E t \in Threads : MinerStoresNonce(t) \/ MinerRaisesFlag(t)
           /\ UNCHANGED <<netVars, serverVars>>
  BY <1>0, <1>3, MinerKeepsOrder DEF OInv
<1>4. CASE UNCHANGED serverSpecVars
  <2>1. WorkOrder' /\ Assigning'
    BY <1>4 DEF serverSpecVars, objectVars, netVars, clientVars, poolVars,
         serverVars, OInv, WorkOrder, NetOrder, NotAfter, IsWork, Assigning
  <2> QED
    BY <1>0, <2>1 DEF OInv
<1> QED
  BY <1>1, <1>2, <1>3, <1>4 DEF ServerSpecNext

-----------------------------------------------------------------------------
(* The work a mining thread holds is never newer than the work at hand,    *)
(* than what is still under way, or than the pool's: no interleaving of    *)
(* answers, pushed templates, dropped links and leftover packets hands a   *)
(* thread older work than it had (core.cpp:355-383).                       *)
THEOREM OrderInvariant == ServerSpec => []OInv
<1>1. OInv /\ [ServerSpecNext]_serverSpecVars => OInv'
  BY OrderNextInv
<1> QED
  BY <1>1, OrderInitInv, PTL DEF ServerSpec

(* A thread's block is replaced only while it is told to wait, and never   *)
(* by older work (core.cpp:378-383).                                       *)
THEOREM BlocksInOrderHolds == ServerSpec => BlocksInOrder
<1> DEFINE Order(t, old, new) == old # new =>
                                   /\ new # NULL
                                   /\ old # NULL => old.work <= new.work
                                   /\ ~ m_bNewBlock[t] =>
                                        old # NULL /\ old.work = new.work
<1>1. OInv /\ [ServerSpecNext]_serverSpecVars =>
        \A t \in Threads : Order(t, m_pBLOCK[t], m_pBLOCK'[t])
  <2> SUFFICES ASSUME OInv, [ServerSpecNext]_serverSpecVars, NEW t \in Threads
               PROVE  Order(t, m_pBLOCK[t], m_pBLOCK'[t])
    OBVIOUS
  <2>1. m_pBLOCK[t] \in CBlock \cup {NULL} /\ m_pBLOCK'[t] \in CBlock \cup {NULL}
    BY OrderNextInv DEF OInv, SInv, ThreadStateTypeOK
  <2>2. m_pBLOCK[t] # NULL => m_pBLOCK[t].work <= m_pBLOCK[t].work
    BY <2>1 DEF CBlock, Works
  <2>3. CASE KeepsBlocks
    BY <2>2, <2>3 DEF KeepsBlocks
  <2>4. CASE AssignBlock
    <3>1. nIndex \in Threads /\ m_bNewBlock[nIndex] /\ pWork # NoShare
      BY <2>4, PacketTypes DEF AssignBlock, OInv, SInv, LoopInv, AtThread, Assigning
    <3>2. CASE t = nIndex
      <4>1. m_pBLOCK'[t] = [work |-> pWork, nonce |-> NoShare]
        BY <2>4, <3>2 DEF AssignBlock, SetBlock, OInv, SInv, ThreadStateTypeOK
      <4>2. m_pBLOCK'[t] # NULL
        BY <2>4, <4>1, PacketTypes, NullAssumption
           DEF AssignBlock, OInv, SInv, LoopInv, CBlock
      <4> QED
        BY <3>1, <3>2, <4>1, <4>2 DEF OInv, WorkOrder
    <3>3. CASE t # nIndex
      BY <2>4, <3>1, <3>3 DEF AssignBlock, SetBlock, OInv, SInv, ThreadStateTypeOK
    <3> QED
      BY <3>2, <3>3
  <2>5. KeepsBlocks \/ AssignBlock
    <3>1. CASE UNCHANGED m_pBLOCK
      BY <3>1 DEF KeepsBlocks
    <3>2. CASE ServerStep
      BY <3>2, StepKeepsBlocks DEF OInv
    <3>3. CASE \E u \in Threads : MinerStoresNonce(u) \/ MinerRaisesFlag(u)
      BY <3>3, MinerKeepsBlocks DEF OInv
    <3> QED
      BY <3>1, <3>2, <3>3 DEF ServerSpecNext, serverSpecVars, objectVars
  <2> QED
    BY <2>3, <2>4, <2>5
<1> QED
  BY <1>1, OrderInvariant, PTL DEF ServerSpec, BlocksInOrder

-----------------------------------------------------------------------------
(***************************************************************************)
(* MinerThread.                                                            *)
(***************************************************************************)

(* The inductive invariant.  Handshake needs nothing else, but the block a *)
(* thread follows is only known to be there because it passed the waiting  *)
(* loop, and the heights and nonces it copies have their types only then.  *)
MinerInv == /\ ThreadStateTypeOK
            /\ MinerTypeOK
            /\ Handshake
            /\ MinerNeverNull

(* What a step of the connection thread may do to the object, as far as    *)
(* MinerInv can tell: lower the flag, but never raise it, and replace a    *)
(* block, but never by the null pointer.                                   *)
ServerRespects ==
  /\ ThreadStateTypeOK'
  /\ \A t \in Threads : m_bBlockFound'[t] => m_bBlockFound[t]
  /\ \A t \in Threads : m_pBLOCK[t] # NULL => m_pBLOCK'[t] # NULL

(* The threads have their first values when the constructors are done.     *)
LEMMA MinerInitInv == MinerSpecInit => MinerInv
<1> SUFFICES ASSUME MinerSpecInit PROVE MinerInv
  OBVIOUS
<1>1. /\ NoShare \in Nonces
      /\ 1 \in DOMAIN Program
      /\ "disable" \in Ops
  BY WorkAssumption DEF NoShare, Nonces, Program, Ops
<1>2. ThreadStateTypeOK
  BY <1>1 DEF MinerSpecInit, ThreadStateInit, ThreadStateTypeOK
<1>3. MinerTypeOK
  <2>1. [op |-> "disable", work |-> NoShare] \in Command
    BY <1>1 DEF Command
  <2>2. /\ tx \in [Threads -> Seq(Command)]
        /\ rx \in [Threads -> Seq(Message)]
    BY <2>1 DEF MinerSpecInit, MinerInit
  <2>3. fpga \in [Threads -> Board]
    BY <1>1 DEF MinerSpecInit, MinerInit, Board
  <2> QED
    BY <1>1, <2>2, <2>3 DEF MinerSpecInit, MinerInit, MinerTypeOK, MinerPCs
<1>4. Handshake /\ MinerNeverNull
  BY DEF MinerSpecInit, MinerInit, ThreadStateInit, Handshake, MinerNeverNull
<1> QED
  BY <1>2, <1>3, <1>4 DEF MinerInv

(* Reading a block that is there yields a height and a template.           *)
LEMMA BlockFields ==
  ASSUME ThreadStateTypeOK, NEW t \in Threads, m_pBLOCK[t] # NULL
  PROVE  /\ m_pBLOCK[t] \in CBlock
         /\ m_pBLOCK[t].work \in Works
         /\ m_pBLOCK[t].work \in Nonces
         /\ Height[m_pBLOCK[t].work] \in Nat
  BY WorkAssumption DEF ThreadStateTypeOK, CBlock, Works, Nonces

(* Storing a nonce in a block that is there leaves every block there.      *)
LEMMA SetNonceKeeps ==
  ASSUME ThreadStateTypeOK, NEW t \in Threads, NEW n \in Nonces,
         m_pBLOCK[t] # NULL, SetNonce(t, n)
  PROVE  /\ m_pBLOCK' \in [Threads -> CBlock \cup {NULL}]
         /\ \A u \in Threads : m_pBLOCK[u] # NULL => m_pBLOCK'[u] # NULL
<1> DEFINE b == [m_pBLOCK[t] EXCEPT !.nonce = n]
<1>1. b \in CBlock
  BY DEF ThreadStateTypeOK, CBlock
<1>2. b # NULL
  BY <1>1, NullAssumption
<1>3. m_pBLOCK' = [m_pBLOCK EXCEPT ![t] = b]
  BY DEF SetNonce
<1> QED
  BY <1>1, <1>2, <1>3 DEF ThreadStateTypeOK

(* A step of the connection thread.                                        *)
LEMMA ServerKeepsMinerInv ==
  MinerInv /\ ServerRespects /\ UNCHANGED minerVars => MinerInv'
<1> SUFFICES ASSUME MinerInv, ServerRespects, UNCHANGED minerVars
             PROVE  MinerInv'
  OBVIOUS
<1>1. ThreadStateTypeOK'
  BY DEF ServerRespects
<1>2. MinerTypeOK'
  BY DEF MinerInv, MinerTypeOK, minerVars, threadVars, boardVars
<1>3. Handshake'
  BY DEF MinerInv, ServerRespects, Handshake, minerVars, threadVars
<1>4. MinerNeverNull'
  BY DEF MinerInv, ServerRespects, MinerNeverNull, minerVars, threadVars
<1> QED
  BY <1>1, <1>2, <1>3, <1>4 DEF MinerInv


(* Every store the closed form allows the connection thread respects the   *)
(* object in that sense.                                                   *)
LEMMA StoresRespect ==
  ASSUME ThreadStateTypeOK,
         (\E t \in Threads : ServerStores(t) /\ UNCHANGED m_bShutdown)
           \/ ServerShutsDown
  PROVE  ServerRespects
<1>1. CASE ServerShutsDown
  BY <1>1 DEF ServerShutsDown, ThreadStateTypeOK, ServerRespects
<1>2. ASSUME NEW t \in Threads, ServerStores(t), UNCHANGED m_bShutdown
      PROVE  ServerRespects
  <2> USE <1>2 DEF ThreadStateTypeOK, ServerRespects
  <2>1. CASE /\ \/ SetIsNewBlock(t, TRUE)
                \/ m_pBLOCK[t] # NULL /\ SetIsNewBlock(t, FALSE)
             /\ UNCHANGED <<m_pBLOCK, m_unBits, m_bBlockFound>>
    BY <2>1 DEF SetIsNewBlock
  <2>2. CASE /\ SetIsBlockFound(t, FALSE)
             /\ UNCHANGED <<m_pBLOCK, m_unBits, m_bNewBlock>>
    BY <2>2 DEF SetIsBlockFound
  <2>3. CASE /\ m_bNewBlock[t]
             /\ \E w \in Works : SetBits(t, w)
             /\ UNCHANGED <<m_pBLOCK, m_bBlockFound, m_bNewBlock>>
    <3>1. Works \subseteq Nonces
      BY WorkAssumption DEF Works, Nonces
    <3> QED
      BY <2>3, <3>1 DEF SetBits
  <2>4. CASE /\ m_bNewBlock[t]
             /\ \E w \in Works : /\ m_pBLOCK[t] # NULL => m_pBLOCK[t].work <= w
                                 /\ SetBlock(t, w)
             /\ UNCHANGED <<m_unBits, m_bBlockFound, m_bNewBlock>>
    <3>1. PICK w \in Works : SetBlock(t, w)
      BY <2>4
    <3>2. [work |-> w, nonce |-> NoShare] \in CBlock
      BY WorkAssumption DEF CBlock, Nonces, NoShare
    <3>3. [work |-> w, nonce |-> NoShare] # NULL
      BY <3>2, NullAssumption
    <3> QED
      BY <2>4, <3>1, <3>2, <3>3 DEF SetBlock
  <2>5. CASE /\ m_bBlockFound[t]
             /\ m_pBLOCK[t] # NULL
             /\ SetNonce(t, NoShare)
             /\ UNCHANGED <<m_unBits, m_bBlockFound, m_bNewBlock>>
    <3>1. NoShare \in Nonces
      BY WorkAssumption DEF NoShare, Nonces
    <3> QED
      BY <2>5, <3>1, SetNonceKeeps
  <2> QED
    BY <2>1, <2>2, <2>3, <2>4, <2>5 DEF ServerStores
<1> QED
  BY <1>1, <1>2

-----------------------------------------------------------------------------
(* The seven commands of a pass.                                           *)
LEMMA ProgramLength == Len(Program) = 7 /\ DOMAIN Program = 1 .. 7
  BY DEF Program

(* Consuming a message leaves messages.                                    *)
LEMMA PopKeeps ==
  ASSUME rx \in [Threads -> Seq(Message)], NEW t \in Threads,
         rx[t] # <<>>, PopRx(t)
  PROVE  rx' \in [Threads -> Seq(Message)] /\ Head(rx[t]) \in Message
<1>1. rx[t] \in Seq(Message)
  OBVIOUS
<1>2. Tail(rx[t]) \in Seq(Message) /\ Head(rx[t]) \in Message
  BY <1>1
<1> QED
  BY <1>2 DEF PopRx

(* The next command is one of the program.                                 *)
LEMMA NextCommandKeeps ==
  ASSUME MinerTypeOK, NEW t \in Threads, NextCommand(t)
  PROVE  /\ cmd' \in [Threads -> DOMAIN Program]
         /\ mpc' \in {[mpc EXCEPT ![t] = "poll"], [mpc EXCEPT ![t] = "send"]}
<1>1. cmd[t] \in 1 .. 7
  BY ProgramLength DEF MinerTypeOK
<1>2. cmd[t] # 7 => cmd[t] + 1 \in 1 .. 7
  BY <1>1
<1> QED
  BY <1>2, ProgramLength DEF NextCommand, Goto, MinerTypeOK

(* A step of the mining thread.  Only Wait2 lets it out of the waiting     *)
(* loop, with the flag down and a block in place; only RaiseFlag raises    *)
(* the flag, and it goes back to the top of the loop.                      *)
LEMMA MinerStepInv ==
  ASSUME MinerInv, NEW t \in Threads, MinerStep(t)
  PROVE  MinerInv'
<1> USE DEF MinerInv, ThreadStateTypeOK, MinerTypeOK, Handshake, MinerNeverNull,
            MinerPCs, Goto, objectVars, threadVars, boardVars
<1>0. /\ NoShare \in Nonces
      /\ 1 \in DOMAIN Program
  BY WorkAssumption DEF NoShare, Nonces, Program
<1>1. CASE Boot(t)
  <2>1. rx' \in [Threads -> Seq(Message)]
    BY <1>1, PopKeeps DEF Boot
  <2> QED
    BY <1>1, <2>1 DEF Boot
<1>2. CASE Top(t)
  BY <1>2 DEF Top
<1>3. CASE Wait(t)
  BY <1>3 DEF Wait
<1>4. CASE Wait2(t)
  BY <1>4 DEF Wait2
<1>5. CASE ReadHeight(t)
  <2>1. Height[m_pBLOCK[t].work] \in Nat
    BY <1>5, BlockFields DEF ReadHeight
  <2> QED
    BY <1>5, <2>1 DEF ReadHeight
<1>6. CASE Send(t)
  <2>1. [op |-> Program[cmd[t]], work |-> Argument(t)] \in Command
    <3>1. Program[cmd[t]] \in Ops
      BY DEF Ops
    <3>2. m_pBLOCK[t].work \in Nonces
      BY <1>6, BlockFields DEF Send
    <3>3. Argument(t) \in Nonces
      BY <1>0, <3>2 DEF Argument
    <3> QED
      BY <3>1, <3>3 DEF Command
  <2>2. tx' \in [Threads -> Seq(Command)]
    BY <1>6, <2>1 DEF Send
  <2> QED
    BY <1>6, <2>2 DEF Send
<1>7. CASE SendThrows(t)
  BY <1>0, <1>7 DEF SendThrows, Leave
<1>8. CASE Recv(t)
  <2>1. /\ rx' \in [Threads -> Seq(Message)]
        /\ Head(rx[t]) \in Message
    BY <1>8, PopKeeps DEF Recv
  <2>2. m_unHashes' \in [Threads -> SUBSET {"count", "nonce"}]
    BY <1>8, <2>1 DEF Recv, Message
  <2>3. /\ cmd' \in [Threads -> DOMAIN Program]
        /\ mpc' \in {[mpc EXCEPT ![t] = "poll"], [mpc EXCEPT ![t] = "send"]}
    BY <1>8, NextCommandKeeps DEF Recv
  <2> QED
    BY <1>8, <2>1, <2>2, <2>3 DEF Recv
<1>9. CASE RecvTimeout(t)
  <2>1. /\ cmd' \in [Threads -> DOMAIN Program]
        /\ mpc' \in {[mpc EXCEPT ![t] = "poll"], [mpc EXCEPT ![t] = "send"]}
    BY <1>9, NextCommandKeeps DEF RecvTimeout
  <2> QED
    BY <1>9, <2>1 DEF RecvTimeout
<1>10. CASE Poll(t)
  <2>1. CASE Leave(t)
    BY <1>0, <1>10, <2>1 DEF Poll, Leave
  <2>2. CASE Goto(t, "read") /\ UNCHANGED <<cmd, nHeight, nNonce>>
    BY <1>10, <2>2 DEF Poll
  <2> QED
    BY <1>10, <2>1, <2>2 DEF Poll
<1>11. CASE Read(t)
  <2>1. /\ rx' \in [Threads -> Seq(Message)]
        /\ Head(rx[t]) \in Message
    BY <1>11, PopKeeps DEF Read
  <2>2. Head(rx[t]).nonce \in Nonces
    BY <2>1 DEF Message
  <2>3. nNonce' \in [Threads -> Nonces]
    <3>1. CASE nNonce' = [nNonce EXCEPT ![t] = Head(rx[t]).nonce]
      BY <2>2, <3>1
    <3>2. CASE UNCHANGED nNonce
      BY <3>2
    <3> QED
      BY <1>11, <3>1, <3>2 DEF Read
  <2>4. mpc' \in {[mpc EXCEPT ![t] = "nonce"], [mpc EXCEPT ![t] = "poll"]}
    BY <1>11 DEF Read
  <2> QED
    BY <1>11, <2>1, <2>3, <2>4 DEF Read
<1>12. CASE ReadTimeout(t)
  BY <1>12 DEF ReadTimeout
<1>13. CASE StoreNonce(t)
  <2>1. /\ m_pBLOCK' \in [Threads -> CBlock \cup {NULL}]
        /\ \A u \in Threads : m_pBLOCK[u] # NULL => m_pBLOCK'[u] # NULL
    BY <1>13, SetNonceKeeps DEF StoreNonce
  <2> QED
    BY <1>13, <2>1 DEF StoreNonce
<1>14. CASE RaiseFlag(t)
  BY <1>0, <1>14 DEF RaiseFlag, SetIsBlockFound, Leave
<1> QED
  BY <1>1, <1>2, <1>3, <1>4, <1>5, <1>6, <1>7, <1>8, <1>9, <1>10, <1>11, <1>12,
     <1>13, <1>14 DEF MinerStep

(* A step of a board: nothing but the serial line and its registers.       *)
LEMMA BoardStepInv ==
  ASSUME MinerInv, NEW t \in Threads, BoardStep(t)
  PROVE  MinerInv'
<1> USE DEF MinerInv, ThreadStateTypeOK, MinerTypeOK, Handshake, MinerNeverNull,
            objectVars, threadVars
<1>0. NoShare \in Nonces
  BY WorkAssumption DEF NoShare, Nonces
<1>1. ASSUME NEW m \in Message, ToHost(t, m)
      PROVE  rx' \in [Threads -> Seq(Message)]
  BY <1>1 DEF ToHost
<1>2. CASE Execute(t)
  <2>1. /\ tx' \in [Threads -> Seq(Command)]
        /\ Head(tx[t]) \in Command
    BY <1>2 DEF Execute
  <2>2. Executed(fpga[t], Head(tx[t])) \in Board
    <3>1. Head(tx[t]).work \in Nonces
      BY <2>1 DEF Command
    <3>2. fpga[t] \in Board
      OBVIOUS
    <3> HIDE DEF MinerInv
    <3> QED
      BY <3>1, <3>2 DEF Executed, Board
  <2>3. fpga' \in [Threads -> Board]
    BY <1>2, <2>2 DEF Execute
  <2>4. rx' \in [Threads -> Seq(Message)]
    BY <1>0, <1>1, <1>2 DEF Execute, Message
  <2> QED
    BY <1>2, <2>1, <2>3, <2>4 DEF Execute
<1>3. CASE FindNonce(t)
  <2>1. rx' \in [Threads -> Seq(Message)]
    BY <1>0, <1>1, <1>3 DEF FindNonce, Message, Board
  <2> QED
    BY <1>3, <2>1 DEF FindNonce
<1> QED
  BY <1>2, <1>3 DEF BoardStep

-----------------------------------------------------------------------------
(* Every step of the closed specification.                                 *)
LEMMA MinerNextInv ==
  ASSUME MinerInv, [MinerSpecNext]_minerSpecVars
  PROVE  MinerInv'
<1>1. CASE \E t \in Threads : MinerStep(t) \/ BoardStep(t)
  BY <1>1, MinerStepInv, BoardStepInv
<1>2. CASE /\ \/ \E t \in Threads : ServerStores(t) /\ UNCHANGED m_bShutdown
              \/ ServerShutsDown
           /\ UNCHANGED minerVars
  BY <1>2, StoresRespect, ServerKeepsMinerInv DEF MinerInv
<1>3. CASE UNCHANGED minerSpecVars
  BY <1>3 DEF minerSpecVars, objectVars, minerVars, threadVars, boardVars,
              MinerInv, ThreadStateTypeOK, MinerTypeOK, Handshake, MinerNeverNull
<1> QED
  BY <1>1, <1>2, <1>3 DEF MinerSpecNext

(* MinerInv holds of the mining threads with any connection thread that    *)
(* keeps its side of the flags.                                            *)
THEOREM MinerInvariant == MinerSpec => []MinerInv
  BY MinerInitInv, MinerNextInv, PTL DEF MinerSpec

(* Type correctness, of the object, the thread, the line and the board.    *)
THEOREM MinerTypeCorrect == MinerSpec => []MinerTypeOK
  BY MinerInvariant, PTL DEF MinerInv

(* A mining thread that raised its flag stays in the waiting loop until    *)
(* the flag is lowered.                                                    *)
THEOREM HandshakeHolds == MinerSpec => []Handshake
  BY MinerInvariant, PTL DEF MinerInv

(* A mining thread never follows a null block pointer.                     *)
THEOREM NeverNullHolds == MinerSpec => []MinerNeverNull
  BY MinerInvariant, PTL DEF MinerInv

-----------------------------------------------------------------------------
(***************************************************************************)
(* What the board of a mining thread does, for any number of boards,       *)
(* templates and buffer sizes: it is never reloaded while it hashes, and   *)
(* the thread polls it only for one whole template.                        *)
(***************************************************************************)

Commands == Seq(Command)
Loads    == {"key2", "message2", "bits"}

(* The commands of this pass up to number i of Program are written.        *)
Written(t, i) ==
  \/ mpc[t] = "send" /\ cmd[t] > i
  \/ mpc[t] = "recv" /\ cmd[t] >= i
  \/ mpc[t] \in {"poll", "read"}

(* A register is loaded from a block between the one whose height the      *)
(* thread remembers and the one it has now.                                *)
Loaded(t, op, now, old) ==
  \E w \in Works : /\ old <= w /\ w <= m_pBLOCK[t].work
                   /\ Holds(tx[t], op, now, w)

(* The switch follows the program: off before the loads, on at the end.    *)
SwitchInv(t) ==
  /\ Written(t, 3) /\ ~ Written(t, 7) => Rests(tx[t], fpga[t], Len(tx[t]))
  /\ Written(t, 7) => Hashes(tx[t], fpga[t], Len(tx[t]))

(* No load under way meets a hashing board.                                *)
ColdInv(t) ==
  \A i \in 1..Len(tx[t]) : tx[t][i].op \in Loads => Rests(tx[t], fpga[t], i - 1)

(* The registers, as far as they are loaded.                               *)
LoadInv(t) ==
  mpc[t] \in {"send", "recv", "poll", "read"} =>
    \E old \in Works : /\ nHeight[t] = Height[old]
                       /\ old <= m_pBLOCK[t].work
                       /\ Written(t, 4) => Loaded(t, "key2", fpga[t].key2, old)
                       /\ Written(t, 5) => Loaded(t, "message2", fpga[t].message2, old)

(* Outside the program and the polling loop the next pass has not begun.   *)
StartInv(t) ==
  mpc[t] \in {"boot", "top", "wait", "wait2", "height", "stopped"} => cmd[t] = 1

(* Heights tell the templates apart.                                       *)
Distinct == \A v, w \in Works : Height[v] = Height[w] => v = w

OneTemplate(t) ==
  \E w \in Works : /\ Holds(tx[t], "key2", fpga[t].key2, w)
                  /\ Holds(tx[t], "message2", fpga[t].message2, w)
                  /\ Height[w] = nHeight[t]

OneInv(t) == Distinct /\ mpc[t] = "read" => OneTemplate(t)

ThreadInv(t) == /\ SwitchInv(t) /\ ColdInv(t)
                /\ LoadInv(t) /\ StartInv(t) /\ OneInv(t)

BoardInv == MinerInv /\ \A t \in Threads : ThreadInv(t)

-----------------------------------------------------------------------------
(* One command more under way.                                             *)
LEMMA AppendSwitch ==
  ASSUME NEW q \in Commands, NEW c \in Command, NEW b
  PROVE  LET r == Append(q, c) IN
         /\ Len(r) = Len(q) + 1
         /\ r[Len(q) + 1] = c /\ \A i \in 1..Len(q) : r[i] = q[i]
         /\ \A n \in 0..Len(q) : Rests(q, b, n) => Rests(r, b, n)
         /\ c.op = "disable" => Rests(r, b, Len(r))
         /\ c.op = "enable" => Hashes(r, b, Len(r))
         /\ c.op \notin Switches /\ Rests(q, b, Len(q)) => Rests(r, b, Len(r))
         /\ c.op \notin Switches /\ Hashes(q, b, Len(q)) => Hashes(r, b, Len(r))
<1> DEFINE r == Append(q, c)
<1>1. /\ Len(q) \in Nat /\ Len(r) = Len(q) + 1
      /\ r[Len(q) + 1] = c /\ \A i \in 1..Len(q) : r[i] = q[i]
  BY DEF Commands
<1> HIDE DEF r
<1>2. \A n \in 0..Len(q) : Rests(q, b, n) => Rests(r, b, n)
  BY <1>1 DEF Rests, LastSwitch, Unswitched
<1>3. c.op = "disable" => Rests(r, b, Len(r))
  BY <1>1 DEF Rests, LastSwitch
<1>4. c.op = "enable" => Hashes(r, b, Len(r))
  BY <1>1 DEF Hashes, LastSwitch
<1>5. c.op \notin Switches /\ Rests(q, b, Len(q)) => Rests(r, b, Len(r))
  BY <1>1 DEF Rests, LastSwitch, Unswitched
<1>6. c.op \notin Switches /\ Hashes(q, b, Len(q)) => Hashes(r, b, Len(r))
  BY <1>1 DEF Hashes, LastSwitch, Unswitched
<1> QED
  BY <1>1, <1>2, <1>3, <1>4, <1>5, <1>6 DEF r

LEMMA AppendLoad ==
  ASSUME NEW q \in Commands, NEW c \in Command, NEW op, NEW now, NEW v
  PROVE  /\ c.op = op => Holds(Append(q, c), op, now, c.work)
         /\ c.op # op /\ Holds(q, op, now, v) => Holds(Append(q, c), op, now, v)
<1> DEFINE r == Append(q, c)
<1>1. /\ Len(q) \in Nat /\ Len(r) = Len(q) + 1
      /\ r[Len(q) + 1] = c /\ \A i \in 1..Len(q) : r[i] = q[i]
  BY DEF Commands
<1> HIDE DEF r
<1>2. c.op = op => Holds(r, op, now, c.work)
  BY <1>1 DEF Holds
<1>3. c.op # op /\ Holds(q, op, now, v) => Holds(r, op, now, v)
  BY <1>1 DEF Holds
<1> QED
  BY <1>2, <1>3 DEF r

(* The oldest command executed.                                            *)
LEMMA ExecuteSwitch ==
  ASSUME NEW q \in Commands, q # <<>>, NEW b \in Board, NEW n \in 1..Len(q)
  PROVE  LET r == Tail(q)
             e == Executed(b, Head(q))
         IN /\ Rests(q, b, n) => Rests(r, e, n - 1)
            /\ Hashes(q, b, n) => Hashes(r, e, n - 1)
<1> DEFINE r == Tail(q)
           e == Executed(b, Head(q))
<1>1. /\ Len(q) \in Nat /\ Len(r) = Len(q) - 1 /\ Head(q) = q[1] /\ q[1] \in Command
      /\ \A i \in 1..Len(r) : r[i] = q[i + 1]
  BY DEF Commands
<1>2. /\ q[1].op = "enable" => e.hashing
      /\ q[1].op = "disable" => ~ e.hashing
      /\ q[1].op \notin Switches => e.hashing = b.hashing
  BY <1>1 DEF Executed, Board, Switches, Command, Ops, Program
<1> HIDE DEF r, e
<1>3. ASSUME NEW op \in Switches
      PROVE  LastSwitch(q, n, op) => \/ LastSwitch(r, n - 1, op)
                                     \/ q[1].op = op /\ Unswitched(r, n - 1)
  <2> SUFFICES ASSUME LastSwitch(q, n, op)
               PROVE  \/ LastSwitch(r, n - 1, op)
                      \/ q[1].op = op /\ Unswitched(r, n - 1)
    OBVIOUS
  <2>1. PICK i \in 1..n : q[i].op = op /\ \A j \in (i + 1)..n : q[j].op \notin Switches
    BY DEF LastSwitch
  <2>2. \A j \in i..(n - 1) : j \in 1..Len(r) => r[j].op \notin Switches
    BY <1>1, <2>1
  <2>3. \A j \in 1..(n - 1) : j \in 1..Len(r)
    BY <1>1
  <2>4. CASE i = 1
    BY <2>1, <2>2, <2>3, <2>4 DEF Unswitched
  <2>5. CASE i # 1
    <3>1. i - 1 \in 1..(n - 1) /\ r[i - 1] = q[i] /\ (i - 1) + 1 = i
      BY <1>1, <2>5
    <3> QED
      BY <2>1, <2>2, <2>3, <3>1 DEF LastSwitch
  <2> QED
    BY <2>4, <2>5
<1>4. Unswitched(q, n) => q[1].op \notin Switches /\ Unswitched(r, n - 1)
  BY <1>1 DEF Unswitched
<1>5. Rests(q, b, n) => Rests(r, e, n - 1)
  BY <1>2, <1>3, <1>4 DEF Rests, Switches
<1>6. Hashes(q, b, n) => Hashes(r, e, n - 1)
  BY <1>2, <1>3, <1>4 DEF Hashes, Switches
<1> QED
  BY <1>5, <1>6 DEF r, e

LEMMA ExecuteLoad ==
  ASSUME NEW q \in Commands, q # <<>>, NEW b \in Board, NEW v
  PROVE  LET r == Tail(q)
             e == Executed(b, Head(q))
         IN /\ Holds(q, "key2", b.key2, v) => Holds(r, "key2", e.key2, v)
            /\ Holds(q, "message2", b.message2, v) => Holds(r, "message2", e.message2, v)
<1> DEFINE r == Tail(q)
           e == Executed(b, Head(q))
<1>1. /\ Len(q) \in Nat /\ Len(q) >= 1 /\ Len(r) = Len(q) - 1 /\ Head(q) = q[1] /\ q[1] \in Command
      /\ \A i \in 1..Len(r) : r[i] = q[i + 1]
  BY DEF Commands
<1>2. /\ e.key2 = IF q[1].op = "key2" THEN q[1].work ELSE b.key2
      /\ e.message2 = IF q[1].op = "message2" THEN q[1].work ELSE b.message2
  BY <1>1 DEF Executed, Board, Command, Ops, Program
<1> HIDE DEF r, e
<1>3. ASSUME NEW op, NEW now, Holds(q, op, now, v)
      PROVE  Holds(r, op, IF q[1].op = op THEN q[1].work ELSE now, v)
  <2>1. CASE now = v /\ \A i \in 1..Len(q) : q[i].op # op
    BY <1>1, <2>1 DEF Holds
  <2>2. ASSUME NEW i \in 1..Len(q), q[i].op = op, q[i].work = v,
               \A j \in (i + 1)..Len(q) : q[j].op # op
        PROVE  Holds(r, op, IF q[1].op = op THEN q[1].work ELSE now, v)
    <3>1. \A j \in 1..Len(r) : j >= i => r[j].op # op
      BY <1>1, <2>2
    <3>2. CASE i = 1
      BY <1>1, <2>2, <3>1, <3>2 DEF Holds
    <3>3. CASE i # 1
      <4>1. i - 1 \in 1..Len(r) /\ r[i - 1] = q[i] /\ (i - 1) + 1 = i
        BY <1>1, <3>3
      <4> QED
        BY <1>1, <2>2, <3>1, <4>1 DEF Holds
    <3> QED
      BY <3>2, <3>3
  <2> QED
    BY <1>3, <2>1, <2>2 DEF Holds
<1> QED
  BY <1>2, <1>3 DEF r, e

-----------------------------------------------------------------------------
Passing == {"send", "recv", "poll", "read"}

(* The thread's block is there, and was replaced by no older one.          *)
NoOlder(t) ==
  m_pBLOCK[t] # NULL => m_pBLOCK'[t] # NULL /\ m_pBLOCK[t].work <= m_pBLOCK'[t].work

(* Blocks of a thread in its pass are templates, now and a step later.     *)
LEMMA PassBlock ==
  ASSUME MinerInv, MinerInv', NEW t \in Threads, NoOlder(t), mpc[t] \in Passing
  PROVE  /\ m_pBLOCK[t].work \in Works /\ m_pBLOCK'[t].work \in Works
         /\ m_pBLOCK[t].work <= m_pBLOCK'[t].work
<1>1. m_pBLOCK[t] # NULL
  BY DEF MinerInv, MinerNeverNull, Passing
<1>2. m_pBLOCK'[t] # NULL
  BY <1>1 DEF NoOlder
<1>3. m_pBLOCK[t] \in CBlock /\ m_pBLOCK'[t] \in CBlock
  BY <1>1, <1>2 DEF MinerInv, ThreadStateTypeOK
<1> QED
  BY <1>1, <1>3 DEF NoOlder, CBlock

(* A pass goes on: nothing new is written, and the line is as it was.      *)
LEMMA PassKept ==
  ASSUME BoardInv, MinerInv', NEW t \in Threads, NoOlder(t),
         mpc[t] \in Passing, mpc'[t] \in Passing,
         tx'[t] = tx[t], fpga'[t] = fpga[t], nHeight'[t] = nHeight[t],
         \A i \in 1..7 : Written(t, i)' <=> Written(t, i)
  PROVE  SwitchInv(t)' /\ ColdInv(t)' /\ LoadInv(t)' /\ StartInv(t)'
<1>1. SwitchInv(t) /\ ColdInv(t) /\ LoadInv(t)
  BY DEF BoardInv, ThreadInv
<1>2. SwitchInv(t)'
  BY <1>1 DEF SwitchInv
<1>3. ColdInv(t)'
  BY <1>1 DEF ColdInv
<1>4. PICK old \in Works :
         /\ nHeight[t] = Height[old]
         /\ old <= m_pBLOCK[t].work
         /\ Written(t, 4) => Loaded(t, "key2", fpga[t].key2, old)
         /\ Written(t, 5) => Loaded(t, "message2", fpga[t].message2, old)
  BY <1>1 DEF LoadInv, Passing
<1>5. /\ m_pBLOCK[t].work \in Works /\ m_pBLOCK'[t].work \in Works
      /\ m_pBLOCK[t].work <= m_pBLOCK'[t].work
  BY PassBlock DEF BoardInv
<1>6. \A w \in Works : w <= m_pBLOCK[t].work => w <= m_pBLOCK'[t].work
  BY <1>5, WorkAssumption DEF Works
<1>7. Written(t, 4)' => Loaded(t, "key2", fpga[t].key2, old)'
  BY <1>4, <1>6 DEF Loaded
<1>8. Written(t, 5)' => Loaded(t, "message2", fpga[t].message2, old)'
  BY <1>4, <1>6 DEF Loaded
<1>9. LoadInv(t)'
  BY <1>4, <1>6, <1>7, <1>8 DEF LoadInv
<1> QED
  BY <1>2, <1>3, <1>9 DEF StartInv, Passing

(* A thread out of its pass, or a board alone: nothing is asked of it but  *)
(* that the commands under way stay harmless.                              *)
LEMMA OutKept ==
  ASSUME BoardInv, NEW t \in Threads, mpc'[t] \notin Passing,
         tx'[t] = tx[t], fpga'[t] = fpga[t], StartInv(t)'
  PROVE  ThreadInv(t)'
<1>1. ColdInv(t)'
  BY DEF BoardInv, ThreadInv, ColdInv
<1>2. \A i \in 3..7 : ~ Written(t, i)'
  BY DEF Written, Passing
<1>3. SwitchInv(t)' /\ LoadInv(t)' /\ OneInv(t)'
  BY <1>2 DEF SwitchInv, LoadInv, OneInv, Passing
<1> QED
  BY <1>1, <1>3 DEF ThreadInv

(* Nothing of the thread, its line and its board changes.                  *)
LEMMA ThreadKept ==
  ASSUME BoardInv, MinerInv', NEW t \in Threads, NoOlder(t),
         mpc'[t] = mpc[t], cmd'[t] = cmd[t], nHeight'[t] = nHeight[t],
         tx'[t] = tx[t], fpga'[t] = fpga[t]
  PROVE  ThreadInv(t)'
<1>1. \A i \in 1..7 : Written(t, i)' <=> Written(t, i)
  BY DEF Written
<1>2. StartInv(t)' /\ OneInv(t)'
  BY DEF BoardInv, ThreadInv, StartInv, OneInv, OneTemplate
<1>3. CASE mpc[t] \in Passing
  BY <1>1, <1>2, <1>3, PassKept DEF ThreadInv
<1>4. CASE mpc[t] \notin Passing
  BY <1>2, <1>4, OutKept
<1> QED
  BY <1>3, <1>4

-----------------------------------------------------------------------------
(* No block gets older: a mining thread stores a nonce at most, and the    *)
(* connection thread assigns no older work.                                *)
LEMMA StepNoOlder ==
  ASSUME MinerInv, [MinerSpecNext]_minerSpecVars, NEW u \in Threads
  PROVE  NoOlder(u)
<1> USE DEF MinerInv, ThreadStateTypeOK
<1>1. CASE UNCHANGED m_pBLOCK
  <2>1. m_pBLOCK[u] # NULL => m_pBLOCK[u].work <= m_pBLOCK[u].work
    BY WorkAssumption DEF CBlock, Works
  <2> QED
    BY <1>1, <2>1 DEF NoOlder
<1>2. ASSUME NEW t \in Threads, NEW n \in Nonces, m_pBLOCK[t] # NULL, SetNonce(t, n)
      PROVE  NoOlder(u)
  <2>1. m_pBLOCK' = [m_pBLOCK EXCEPT ![t] = [m_pBLOCK[t] EXCEPT !.nonce = n]]
    BY <1>2 DEF SetNonce
  <2>2. /\ [m_pBLOCK[t] EXCEPT !.nonce = n] \in CBlock
        /\ [m_pBLOCK[t] EXCEPT !.nonce = n].work = m_pBLOCK[t].work
    BY <1>2 DEF CBlock
  <2>3. m_pBLOCK[u] # NULL => m_pBLOCK[u].work <= m_pBLOCK[u].work
    BY WorkAssumption DEF CBlock, Works
  <2> QED
    BY <2>1, <2>2, <2>3, NullAssumption DEF NoOlder
<1>3. ASSUME NEW t \in Threads, NEW w \in Works,
             m_pBLOCK[t] # NULL => m_pBLOCK[t].work <= w, SetBlock(t, w)
      PROVE  NoOlder(u)
  <2>1. m_pBLOCK' = [m_pBLOCK EXCEPT ![t] = [work |-> w, nonce |-> NoShare]]
    BY <1>3 DEF SetBlock
  <2>2. [work |-> w, nonce |-> NoShare] \in CBlock
    BY WorkAssumption DEF CBlock, Nonces, NoShare
  <2>3. m_pBLOCK[u] # NULL => m_pBLOCK[u].work <= m_pBLOCK[u].work
    BY WorkAssumption DEF CBlock, Works
  <2> QED
    BY <1>3, <2>1, <2>2, <2>3, NullAssumption DEF NoOlder
<1>4. NoShare \in Nonces
  BY WorkAssumption DEF NoShare, Nonces
<1>5. CASE \E t \in Threads : MinerStep(t) \/ BoardStep(t)
  <2>1. PICK t \in Threads : MinerStep(t) \/ BoardStep(t)
    BY <1>5
  <2>2. CASE StoreNonce(t)
    <3>1. m_pBLOCK[t] # NULL /\ nNonce[t] \in Nonces /\ SetNonce(t, nNonce[t])
      BY <2>2 DEF StoreNonce, MinerNeverNull, MinerTypeOK
    <3> QED
      BY <1>2, <3>1
  <2>3. CASE ~ StoreNonce(t)
    <3>1. UNCHANGED m_pBLOCK
      BY <2>1, <2>3 DEF MinerStep, BoardStep, Boot, Top, Wait, Wait2, ReadHeight, Send,
         SendThrows, Recv, RecvTimeout, Poll, Read, ReadTimeout, RaiseFlag, Execute,
         FindNonce, objectVars
    <3> QED
      BY <1>1, <3>1
  <2> QED
    BY <2>2, <2>3
<1>6. CASE \E t \in Threads : ServerStores(t)
  <2>1. PICK t \in Threads : ServerStores(t)
    BY <1>6
  <2>2. \/ UNCHANGED m_pBLOCK
        \/ \E w \in Works : /\ m_pBLOCK[t] # NULL => m_pBLOCK[t].work <= w
                            /\ SetBlock(t, w)
        \/ m_pBLOCK[t] # NULL /\ SetNonce(t, NoShare)
    BY <2>1 DEF ServerStores
  <2> QED
    BY <1>1, <1>2, <1>3, <1>4, <2>2
<1>7. CASE ServerShutsDown \/ UNCHANGED minerSpecVars
  <2>1. UNCHANGED m_pBLOCK
    BY <1>7 DEF ServerShutsDown, minerSpecVars, objectVars
  <2> QED
    BY <1>1, <2>1
<1> QED
  BY <1>5, <1>6, <1>7 DEF MinerSpecNext

(* A step of one thread or its board is none of another's.                 *)
LEMMA OthersKept ==
  ASSUME BoardInv, MinerInv', NEW t \in Threads, MinerStep(t) \/ BoardStep(t),
         NEW u \in Threads, u # t, NoOlder(u)
  PROVE  ThreadInv(u)'
<1> USE DEF Goto, Leave, PopRx, NextCommand, ToHost
<1>1. /\ mpc \in [Threads -> MinerPCs] /\ cmd \in [Threads -> DOMAIN Program]
      /\ nHeight \in [Threads -> Nat] /\ tx \in [Threads -> Seq(Command)]
      /\ fpga \in [Threads -> Board]
  BY DEF BoardInv, MinerInv, MinerTypeOK
<1>2. mpc'[u] = mpc[u] /\ cmd'[u] = cmd[u]
  BY <1>1 DEF MinerStep, BoardStep, Boot, Top, Wait, Wait2, ReadHeight, Send,
     SendThrows, Recv, RecvTimeout, Poll, Read, ReadTimeout, StoreNonce, RaiseFlag, Execute,
     FindNonce, threadVars
<1>3. nHeight'[u] = nHeight[u]
  BY <1>1 DEF MinerStep, BoardStep, Boot, Top, Wait, Wait2, ReadHeight, Send,
     SendThrows, Recv, RecvTimeout, Poll, Read, ReadTimeout, StoreNonce, RaiseFlag, Execute,
     FindNonce, threadVars
<1>4. tx'[u] = tx[u] /\ fpga'[u] = fpga[u]
  BY <1>1 DEF MinerStep, BoardStep, Boot, Top, Wait, Wait2, ReadHeight, Send,
     SendThrows, Recv, RecvTimeout, Poll, Read, ReadTimeout, StoreNonce, RaiseFlag, Execute,
     FindNonce, boardVars
<1> QED
  BY <1>2, <1>3, <1>4, ThreadKept

-----------------------------------------------------------------------------
(* The steps of the thread itself.  Out of the pass, or into its first     *)
(* lines, with the line as it was.                                         *)
LEMMA OutStepInv ==
  ASSUME BoardInv, NEW t \in Threads,
         \/ Boot(t) \/ Top(t) \/ Wait(t) \/ Wait2(t) \/ SendThrows(t)
         \/ StoreNonce(t) \/ RaiseFlag(t)
  PROVE  ThreadInv(t)'
<1>1. mpc \in [Threads -> MinerPCs] /\ cmd \in [Threads -> DOMAIN Program]
  BY DEF BoardInv, MinerInv, MinerTypeOK
<1>2. tx'[t] = tx[t] /\ fpga'[t] = fpga[t]
  BY DEF Boot, Top, Wait, Wait2, SendThrows, StoreNonce, RaiseFlag, boardVars
<1>3. StartInv(t)
  BY DEF BoardInv, ThreadInv
<1>4. CASE Boot(t) \/ Top(t) \/ Wait(t) \/ Wait2(t)
  <2>1. mpc'[t] \in {"top", "stopped", "wait", "wait2", "height"} /\ cmd'[t] = cmd[t]
    BY <1>1, <1>4 DEF Boot, Top, Wait, Wait2, Goto
  <2>2. cmd[t] = 1
    BY <1>3, <1>4 DEF StartInv, Boot, Top, Wait, Wait2
  <2> QED
    BY <1>2, <2>1, <2>2, OutKept DEF StartInv, Passing
<1>5. CASE SendThrows(t) \/ RaiseFlag(t)
  <2>1. mpc'[t] = "top" /\ cmd'[t] = 1
    BY <1>1, <1>5 DEF SendThrows, RaiseFlag, Leave, Goto
  <2> QED
    BY <1>2, <2>1, OutKept DEF StartInv, Passing
<1>6. CASE StoreNonce(t)
  <2>1. mpc'[t] = "flag"
    BY <1>1, <1>6 DEF StoreNonce, Goto
  <2> QED
    BY <1>2, <2>1, OutKept DEF StartInv, Passing
<1> QED
  BY <1>4, <1>5, <1>6

(* The height is remembered before anything is written.                    *)
LEMMA ReadHeightInv ==
  ASSUME BoardInv, MinerInv', NEW t \in Threads, ReadHeight(t)
  PROVE  ThreadInv(t)'
<1>1. /\ mpc \in [Threads -> MinerPCs] /\ nHeight \in [Threads -> Nat]
      /\ m_pBLOCK[t] # NULL /\ m_pBLOCK[t] \in CBlock
  BY DEF BoardInv, MinerInv, MinerTypeOK, MinerNeverNull, ThreadStateTypeOK, ReadHeight
<1>2. /\ mpc'[t] = "send" /\ cmd'[t] = 1 /\ nHeight'[t] = Height[m_pBLOCK[t].work]
      /\ tx'[t] = tx[t] /\ fpga'[t] = fpga[t] /\ m_pBLOCK' = m_pBLOCK
  BY <1>1 DEF ReadHeight, Goto, boardVars, objectVars, BoardInv, ThreadInv, StartInv
<1>3. \A i \in 1..7 : ~ Written(t, i)'
  BY <1>2 DEF Written
<1>4. m_pBLOCK[t].work \in Works /\ m_pBLOCK[t].work <= m_pBLOCK[t].work
  BY <1>1, WorkAssumption DEF CBlock, Works
<1>5. LoadInv(t)'
  BY <1>2, <1>3, <1>4 DEF LoadInv
<1>6. SwitchInv(t)' /\ StartInv(t)' /\ OneInv(t)'
  BY <1>2, <1>3 DEF SwitchInv, StartInv, OneInv
<1>7. ColdInv(t)'
  BY <1>2 DEF BoardInv, ThreadInv, ColdInv
<1> QED
  BY <1>5, <1>6, <1>7 DEF ThreadInv

(* The reads that end a command, and those of the polling loop.            *)
LEMMA ReadStepInv ==
  ASSUME BoardInv, MinerInv', NEW t \in Threads, NoOlder(t),
         Recv(t) \/ RecvTimeout(t) \/ Read(t) \/ ReadTimeout(t)
  PROVE  ThreadInv(t)'
<1>1. /\ mpc \in [Threads -> MinerPCs] /\ cmd \in [Threads -> 1..7]
      /\ nHeight \in [Threads -> Nat] /\ Len(Program) = 7
  BY ProgramLength DEF BoardInv, MinerInv, MinerTypeOK
<1>2. tx'[t] = tx[t] /\ fpga'[t] = fpga[t] /\ nHeight'[t] = nHeight[t]
  BY DEF Recv, RecvTimeout, Read, ReadTimeout, boardVars
<1>3. CASE Recv(t) \/ RecvTimeout(t)
  <2>1. /\ mpc[t] = "recv"
        /\ \/ cmd[t] = 7 /\ mpc'[t] = "poll" /\ cmd'[t] = cmd[t]
           \/ mpc'[t] = "send" /\ cmd'[t] = cmd[t] + 1
    BY <1>1, <1>3 DEF Recv, RecvTimeout, NextCommand, Goto
  <2>2. \A i \in 1..7 : Written(t, i)' <=> Written(t, i)
    BY <1>1, <2>1 DEF Written
  <2>3. OneInv(t)'
    BY <2>1 DEF OneInv
  <2> QED
    BY <1>2, <2>1, <2>2, <2>3, PassKept DEF ThreadInv, Passing
<1>4. CASE Read(t) \/ ReadTimeout(t)
  <2>1. mpc[t] = "read" /\ mpc'[t] \in {"poll", "nonce"}
    BY <1>1, <1>4 DEF Read, ReadTimeout, Goto
  <2>2. CASE mpc'[t] = "poll"
    <3>1. \A i \in 1..7 : Written(t, i)' <=> Written(t, i)
      BY <2>1, <2>2 DEF Written
    <3>2. OneInv(t)'
      BY <2>2 DEF OneInv
    <3> QED
      BY <1>2, <2>1, <2>2, <3>1, <3>2, PassKept DEF ThreadInv, Passing
  <2>3. CASE mpc'[t] = "nonce"
    BY <1>2, <2>3, OutKept DEF StartInv, Passing
  <2> QED
    BY <2>1, <2>2, <2>3
<1> QED
  BY <1>3, <1>4

(* The height check: when heights tell templates apart the block of now is *)
(* the one remembered, and both registers were loaded in between.          *)
LEMMA PollStepInv ==
  ASSUME BoardInv, MinerInv', NEW t \in Threads, NoOlder(t), Poll(t)
  PROVE  ThreadInv(t)'
<1>1. /\ mpc \in [Threads -> MinerPCs] /\ cmd \in [Threads -> DOMAIN Program]
      /\ nHeight \in [Threads -> Nat] /\ nNonce \in [Threads -> Nonces]
  BY DEF BoardInv, MinerInv, MinerTypeOK
<1>2. tx'[t] = tx[t] /\ fpga'[t] = fpga[t] /\ m_pBLOCK' = m_pBLOCK /\ mpc[t] = "poll"
  BY DEF Poll, boardVars, objectVars
<1>3. CASE Leave(t)
  <2>1. mpc'[t] = "top" /\ cmd'[t] = 1
    BY <1>1, <1>3 DEF Leave, Goto
  <2> QED
    BY <1>2, <2>1, OutKept DEF StartInv, Passing
<1>4. CASE /\ nHeight[t] = Height[m_pBLOCK[t].work]
           /\ Goto(t, "read") /\ UNCHANGED <<cmd, nHeight, nNonce>>
  <2>1. mpc'[t] = "read" /\ nHeight'[t] = nHeight[t]
    BY <1>1, <1>4 DEF Goto
  <2>2. \A i \in 1..7 : Written(t, i) /\ Written(t, i)'
    BY <1>2, <2>1 DEF Written
  <2>3. OneInv(t)'
    <3> SUFFICES ASSUME Distinct PROVE OneTemplate(t)'
      BY DEF OneInv, Distinct
    <3>1. PICK old \in Works :
             /\ nHeight[t] = Height[old]
             /\ Loaded(t, "key2", fpga[t].key2, old)
             /\ Loaded(t, "message2", fpga[t].message2, old)
      BY <1>2, <2>2 DEF BoardInv, ThreadInv, LoadInv
    <3>2. m_pBLOCK[t].work \in Works
      BY <1>2, PassBlock DEF Passing, BoardInv
    <3>3. old = m_pBLOCK[t].work
      BY <1>4, <3>1, <3>2 DEF Distinct
    <3>4. \A w \in Works : old <= w /\ w <= old => w = old
      BY WorkAssumption DEF Works
    <3>5. /\ Holds(tx[t], "key2", fpga[t].key2, old)
          /\ Holds(tx[t], "message2", fpga[t].message2, old)
      BY <3>1, <3>3, <3>4 DEF Loaded
    <3> QED
      BY <1>2, <2>1, <3>1, <3>5 DEF OneTemplate
  <2> QED
    BY <1>2, <2>1, <2>2, <2>3, PassKept DEF ThreadInv, Passing
<1> QED
  BY <1>3, <1>4 DEF Poll

(* A command is written.                                                   *)
LEMMA SendStepInv ==
  ASSUME BoardInv, MinerInv', NEW t \in Threads, Send(t)
  PROVE  ThreadInv(t)'
<1> DEFINE c == [op |-> Program[cmd[t]], work |-> Argument(t)]
           q == tx[t]
           b == fpga[t]
<1>1. /\ mpc \in [Threads -> MinerPCs] /\ cmd \in [Threads -> 1..7]
      /\ tx \in [Threads -> Seq(Command)]
  BY ProgramLength DEF BoardInv, MinerInv, MinerTypeOK
<1>2. /\ mpc[t] = "send" /\ mpc'[t] = "recv" /\ cmd'[t] = cmd[t] /\ cmd[t] \in 1..7
      /\ nHeight'[t] = nHeight[t] /\ tx'[t] = Append(q, c) /\ fpga'[t] = b
      /\ m_pBLOCK' = m_pBLOCK /\ q \in Commands
  BY <1>1 DEF Send, Goto, objectVars, Commands
<1>3. m_pBLOCK[t] # NULL /\ m_pBLOCK[t].work \in Works
  BY <1>2 DEF BoardInv, MinerInv, MinerNeverNull, ThreadStateTypeOK, CBlock
<1>4. tx'[t] \in Seq(Command)
  BY DEF MinerInv, MinerTypeOK
<1>5. /\ c.op = Program[cmd[t]]
      /\ cmd[t] \in {4, 5} => c.work = m_pBLOCK[t].work
  BY <1>2 DEF Argument, Program
<1>6. c \in Command
  <2>1. tx'[t][Len(q) + 1] = c /\ Len(q) + 1 \in 1..Len(tx'[t])
    BY <1>2 DEF Commands
  <2> HIDE DEF c
  <2> QED
    BY <1>4, <2>1
<1> HIDE DEF c, q, b
<1>7. \A i \in 1..7 : Written(t, i)' <=> Written(t, i) \/ i = cmd[t]
  BY <1>2 DEF Written
<1>8. \A i \in 1..7 : Written(t, i) <=> cmd[t] > i
  BY <1>2 DEF Written
<1>9. SwitchInv(t)'
  <2>1. /\ c.op = "disable" <=> cmd[t] = 3
        /\ c.op = "enable" <=> cmd[t] = 7
    BY <1>2, <1>5 DEF Program
  <2>2. cmd[t] = 3 => Rests(tx'[t], b, Len(tx'[t]))
    BY <1>2, <1>6, <2>1, AppendSwitch
  <2>3. cmd[t] \in 4..6 => Rests(tx'[t], b, Len(tx'[t]))
    <3> SUFFICES ASSUME cmd[t] \in 4..6 PROVE Rests(tx'[t], b, Len(tx'[t]))
      OBVIOUS
    <3>1. Rests(q, b, Len(q))
      BY <1>8 DEF BoardInv, ThreadInv, SwitchInv, q, b
    <3>2. c.op \notin Switches
      BY <2>1 DEF Switches
    <3> QED
      BY <1>2, <1>6, <3>1, <3>2, AppendSwitch
  <2>4. cmd[t] = 7 => Hashes(tx'[t], b, Len(tx'[t]))
    BY <1>2, <1>6, <2>1, AppendSwitch
  <2>5. Written(t, 3)' /\ ~ Written(t, 7)' => cmd[t] \in 3..6
    BY <1>2, <1>7, <1>8
  <2>6. Written(t, 7)' => cmd[t] = 7
    BY <1>2, <1>7, <1>8
  <2> QED
    BY <1>2, <2>2, <2>3, <2>4, <2>5, <2>6 DEF SwitchInv
<1>10. ColdInv(t)'
  <2>1. /\ Len(q) \in Nat /\ Len(tx'[t]) = Len(q) + 1 /\ tx'[t][Len(q) + 1] = c
        /\ \A i \in 1..Len(q) : tx'[t][i] = q[i]
        /\ \A n \in 0..Len(q) : Rests(q, b, n) => Rests(tx'[t], b, n)
    <3> DEFINE r == Append(q, c)
    <3>1. Len(q) \in Nat
      BY <1>2 DEF Commands
    <3>2. /\ Len(r) = Len(q) + 1 /\ r[Len(q) + 1] = c
          /\ \A i \in 1..Len(q) : r[i] = q[i]
      BY <1>2, <1>6, AppendSwitch
    <3>3. \A n \in 0..Len(q) : Rests(q, b, n) => Rests(r, b, n)
      BY <1>2, <1>6, AppendSwitch
    <3>4. tx'[t] = r
      BY <1>2
    <3> HIDE DEF r
    <3> QED
      BY <3>1, <3>2, <3>3, <3>4
  <2>2. c.op \in Loads => Rests(q, b, Len(q))
    <3>1. c.op \in Loads => cmd[t] \in 4..6
      BY <1>2, <1>5 DEF Loads, Program
    <3> QED
      BY <1>8, <3>1 DEF BoardInv, ThreadInv, SwitchInv, q, b
  <2>3. \A i \in 1..Len(q) : q[i].op \in Loads => Rests(q, b, i - 1)
    BY DEF BoardInv, ThreadInv, ColdInv, q, b
  <2>4. ASSUME NEW i \in 1..Len(tx'[t]), tx'[t][i].op \in Loads
        PROVE  Rests(tx'[t], b, i - 1)
    <3>1. CASE i = Len(q) + 1
      BY <2>1, <2>2, <2>4, <3>1
    <3>2. CASE i \in 1..Len(q)
      BY <2>1, <2>3, <2>4, <3>2
    <3> QED
      BY <2>1, <2>4, <3>1, <3>2
  <2> QED
    BY <1>2, <2>4 DEF ColdInv
<1>11. LoadInv(t)'
  <2>1. PICK old \in Works :
           /\ nHeight[t] = Height[old]
           /\ old <= m_pBLOCK[t].work
           /\ Written(t, 4) => Loaded(t, "key2", b.key2, old)
           /\ Written(t, 5) => Loaded(t, "message2", b.message2, old)
    BY <1>2 DEF BoardInv, ThreadInv, LoadInv, b
  <2>2. m_pBLOCK[t].work <= m_pBLOCK[t].work
    BY <1>3, WorkAssumption DEF Works
  <2>3. /\ c.op = "key2" <=> cmd[t] = 4
        /\ c.op = "message2" <=> cmd[t] = 5
    BY <1>2, <1>5 DEF Program
  <2>4. cmd[t] = 4 => Loaded(t, "key2", b.key2, old)'
    BY <1>2, <1>3, <1>5, <1>6, <2>1, <2>2, <2>3, AppendLoad DEF Loaded, b
  <2>5. cmd[t] = 5 => Loaded(t, "message2", b.message2, old)'
    BY <1>2, <1>3, <1>5, <1>6, <2>1, <2>2, <2>3, AppendLoad DEF Loaded, b
  <2>6. ASSUME cmd[t] # 4, Written(t, 4) PROVE Loaded(t, "key2", b.key2, old)'
    BY <1>2, <1>6, <2>1, <2>3, <2>6, AppendLoad DEF Loaded, q, b
  <2>7. ASSUME cmd[t] # 5, Written(t, 5) PROVE Loaded(t, "message2", b.message2, old)'
    BY <1>2, <1>6, <2>1, <2>3, <2>7, AppendLoad DEF Loaded, q, b
  <2> QED
    BY <1>2, <1>7, <2>1, <2>4, <2>5, <2>6, <2>7 DEF LoadInv, b
<1>12. StartInv(t)' /\ OneInv(t)'
  BY <1>2 DEF StartInv, OneInv
<1> QED
  BY <1>9, <1>10, <1>11, <1>12 DEF ThreadInv

-----------------------------------------------------------------------------
(* The steps of the board.                                                 *)
LEMMA ExecuteInv ==
  ASSUME BoardInv, MinerInv', NEW t \in Threads, Execute(t)
  PROVE  /\ ThreadInv(t)'
         /\ fpga[t].hashing /\ fpga'[t].hashing => fpga'[t] = fpga[t]
<1> DEFINE q == tx[t]
           b == fpga[t]
<1>1. tx \in [Threads -> Seq(Command)] /\ fpga \in [Threads -> Board]
  BY DEF BoardInv, MinerInv, MinerTypeOK
<1>2. /\ q \in Commands /\ q # <<>> /\ b \in Board
      /\ tx'[t] = Tail(q) /\ fpga'[t] = Executed(b, Head(q))
      /\ UNCHANGED <<mpc, cmd, nHeight, m_pBLOCK>>
  BY <1>1 DEF Execute, Commands, objectVars, threadVars
<1>3. SwitchInv(t) /\ ColdInv(t) /\ LoadInv(t) /\ StartInv(t) /\ OneInv(t)
  BY DEF BoardInv, ThreadInv
<1>4. /\ Len(q) \in Nat /\ Len(q) \in 1..Len(q) /\ Len(tx'[t]) = Len(q) - 1
      /\ \A i \in 1..Len(tx'[t]) : tx'[t][i] = q[i + 1] /\ i + 1 \in 1..Len(q)
  BY <1>2 DEF Commands
<1>5. \A i \in 1..7 : Written(t, i)' <=> Written(t, i)
  BY <1>2 DEF Written
<1>6. SwitchInv(t)'
  <2>1. /\ Rests(q, b, Len(q)) => Rests(tx'[t], fpga'[t], Len(tx'[t]))
        /\ Hashes(q, b, Len(q)) => Hashes(tx'[t], fpga'[t], Len(tx'[t]))
    BY <1>2, <1>4, ExecuteSwitch
  <2> QED
    BY <1>3, <1>5, <2>1 DEF SwitchInv
<1>7. ColdInv(t)'
  <2>1. ASSUME NEW i \in 1..Len(tx'[t]), tx'[t][i].op \in Loads
        PROVE  Rests(tx'[t], fpga'[t], i - 1)
    <3>1. i \in 1..Len(q) /\ i + 1 \in 1..Len(q) /\ q[i + 1].op \in Loads /\ (i + 1) - 1 = i
      BY <1>4, <2>1
    <3>2. Rests(q, b, i)
      BY <1>3, <3>1 DEF ColdInv
    <3> HIDE DEF q, b
    <3> QED
      BY <1>2, <3>1, <3>2, ExecuteSwitch
  <2> QED
    BY <2>1 DEF ColdInv
<1>8. \A v : /\ Holds(q, "key2", b.key2, v) => Holds(tx'[t], "key2", fpga'[t].key2, v)
             /\ Holds(q, "message2", b.message2, v)
                  => Holds(tx'[t], "message2", fpga'[t].message2, v)
  BY <1>2, ExecuteLoad
<1>9. LoadInv(t)'
  <2>1. \A old : /\ Loaded(t, "key2", fpga[t].key2, old) => Loaded(t, "key2", fpga[t].key2, old)'
                 /\ Loaded(t, "message2", fpga[t].message2, old)
                      => Loaded(t, "message2", fpga[t].message2, old)'
    BY <1>2, <1>8 DEF Loaded
  <2> QED
    BY <1>2, <1>3, <1>5, <2>1 DEF LoadInv
<1>10. StartInv(t)' /\ OneInv(t)'
  BY <1>2, <1>3, <1>8 DEF StartInv, OneInv, OneTemplate, Distinct
<1>11. fpga[t].hashing /\ fpga'[t].hashing => fpga'[t] = fpga[t]
  <2>1. q[1] \in Command /\ Head(q) = q[1]
    BY <1>2 DEF Commands
  <2>2. q[1].op \in Loads => ~ b.hashing
    <3>1. q[1].op \in Loads => Rests(q, b, 0)
      BY <1>3, <1>4 DEF ColdInv
    <3> QED
      BY <3>1 DEF Rests, LastSwitch
  <2>3. q[1].op \in Loads \cup {"enable", "disable", "ping", "count"}
    BY <2>1 DEF Command, Ops, Program, Loads
  <2>4. CASE q[1].op \in Loads
    BY <2>2, <2>4
  <2>5. CASE q[1].op = "enable"
    <3>1. b.hashing => [b EXCEPT !.hashing = TRUE] = b
      BY <1>2 DEF Board
    <3> QED
      BY <1>2, <2>1, <2>5, <3>1 DEF Executed
  <2>6. CASE q[1].op = "disable"
    BY <1>2, <2>1, <2>6 DEF Executed, Board
  <2>7. CASE q[1].op \in {"ping", "count"}
    BY <1>2, <2>1, <2>7 DEF Executed
  <2> QED
    BY <2>3, <2>4, <2>5, <2>6, <2>7
<1> QED
  BY <1>6, <1>7, <1>9, <1>10, <1>11 DEF ThreadInv
(* The board finds a nonce: nothing but the line to the host changes.      *)
LEMMA FindNonceInv ==
  ASSUME BoardInv, MinerInv', NEW t \in Threads, FindNonce(t), NoOlder(t)
  PROVE  ThreadInv(t)'
<1>1. /\ mpc' = mpc /\ cmd' = cmd /\ nHeight' = nHeight
      /\ tx' = tx /\ fpga' = fpga
  BY DEF FindNonce, threadVars
<1> QED
  BY <1>1, ThreadKept

-----------------------------------------------------------------------------
(* Nothing but the closing disableHashing of an earlier run is under way.  *)
LEMMA BoardInitInv == MinerSpecInit => BoardInv
<1> SUFFICES ASSUME MinerSpecInit PROVE BoardInv
  OBVIOUS
<1>1. MinerInv
  BY MinerInitInv
<1>2. ASSUME NEW t \in Threads PROVE ThreadInv(t)
  <2>1. /\ mpc[t] = "boot" /\ cmd[t] = 1
        /\ tx[t] = <<[op |-> "disable", work |-> NoShare]>>
    BY DEF MinerSpecInit, MinerInit
  <2>2. \A i \in 1..7 : ~ Written(t, i)
    BY <2>1 DEF Written
  <2>3. \A i \in 1..Len(tx[t]) : tx[t][i].op \notin Loads
    BY <2>1 DEF Loads
  <2>4. SwitchInv(t) /\ LoadInv(t) /\ StartInv(t) /\ OneInv(t)
    BY <2>1, <2>2 DEF SwitchInv, LoadInv, StartInv, OneInv
  <2>5. ColdInv(t)
    BY <2>3 DEF ColdInv
  <2> QED
    BY <2>4, <2>5 DEF ThreadInv
<1> QED
  BY <1>1, <1>2 DEF BoardInv

(* Every step of the closed specification.                                 *)
LEMMA BoardNextInv ==
  ASSUME BoardInv, [MinerSpecNext]_minerSpecVars
  PROVE  BoardInv'
<1>1. MinerInv'
  BY MinerNextInv DEF BoardInv
<1>2. \A u \in Threads : NoOlder(u)
  BY StepNoOlder DEF BoardInv
<1>3. ASSUME NEW t \in Threads, MinerStep(t) \/ BoardStep(t), NEW u \in Threads
      PROVE  ThreadInv(u)'
  <2>1. CASE u # t
    BY <1>1, <1>2, <1>3, <2>1, OthersKept
  <2>2. CASE u = t
    <3>1. CASE Send(t)
      BY <1>1, <2>2, <3>1, SendStepInv
    <3>2. CASE ReadHeight(t)
      BY <1>1, <2>2, <3>2, ReadHeightInv
    <3>3. CASE Recv(t) \/ RecvTimeout(t) \/ Read(t) \/ ReadTimeout(t)
      BY <1>1, <1>2, <2>2, <3>3, ReadStepInv
    <3>4. CASE Poll(t)
      BY <1>1, <1>2, <2>2, <3>4, PollStepInv
    <3>5. CASE Execute(t)
      BY <1>1, <2>2, <3>5, ExecuteInv
    <3>6. CASE FindNonce(t)
      BY <1>1, <1>2, <2>2, <3>6, FindNonceInv
    <3>7. CASE \/ Boot(t) \/ Top(t) \/ Wait(t) \/ Wait2(t) \/ SendThrows(t)
               \/ StoreNonce(t) \/ RaiseFlag(t)
      BY <2>2, <3>7, OutStepInv
    <3> QED
      BY <1>3, <3>1, <3>2, <3>3, <3>4, <3>5, <3>6, <3>7 DEF MinerStep, BoardStep
  <2> QED
    BY <2>1, <2>2
<1>4. ASSUME UNCHANGED minerVars, NEW u \in Threads
      PROVE  ThreadInv(u)'
  <2>1. /\ mpc' = mpc /\ cmd' = cmd /\ nHeight' = nHeight
        /\ tx' = tx /\ fpga' = fpga
    BY <1>4 DEF minerVars, threadVars, boardVars
  <2> QED
    BY <1>1, <1>2, <2>1, ThreadKept
<1>5. \A u \in Threads : ThreadInv(u)'
  <2>1. CASE \E t \in Threads : MinerStep(t) \/ BoardStep(t)
    BY <1>3, <2>1
  <2>2. CASE UNCHANGED minerVars
    BY <1>4, <2>2
  <2> QED
    BY <2>1, <2>2 DEF MinerSpecNext, minerSpecVars
<1> QED
  BY <1>1, <1>5 DEF BoardInv

(* Whatever replies are lost or late, whatever serial writes throw and     *)
(* whatever an earlier run left behind, the commands under way follow the  *)
(* program of a pass.                                                      *)
THEOREM BoardInvariant == MinerSpec => []BoardInv
  BY BoardInitInv, BoardNextInv, PTL DEF MinerSpec

(* A board is reprogrammed only while it is not hashing: only the board    *)
(* changes its registers, and no load it is sent meets it hashing.         *)
THEOREM NoHotReloadHolds == MinerSpec => NoHotReload
<1> DEFINE Cold == \A t \in Threads :
                     fpga[t].hashing /\ fpga'[t].hashing => fpga'[t] = fpga[t]
<1>1. BoardInv /\ [MinerSpecNext]_minerSpecVars => [Cold]_fpga
  <2> SUFFICES ASSUME BoardInv, [MinerSpecNext]_minerSpecVars, fpga' # fpga,
                      NEW u \in Threads
               PROVE  fpga[u].hashing /\ fpga'[u].hashing => fpga'[u] = fpga[u]
    OBVIOUS
  <2>1. MinerInv' /\ fpga \in [Threads -> Board]
    BY MinerNextInv DEF BoardInv, MinerInv, MinerTypeOK
  <2>2. \E t \in Threads : Execute(t)
    BY DEF MinerSpecNext, minerSpecVars, MinerStep, BoardStep, Boot, Top, Wait, Wait2,
       ReadHeight, Send, SendThrows, Recv, RecvTimeout, Poll, Read, ReadTimeout,
       StoreNonce, RaiseFlag, FindNonce, boardVars, minerVars
  <2>3. PICK t \in Threads : Execute(t)
    BY <2>2
  <2>4. u # t => fpga'[u] = fpga[u]
    BY <2>1, <2>3 DEF Execute
  <2>5. fpga[t].hashing /\ fpga'[t].hashing => fpga'[t] = fpga[t]
    BY <2>1, <2>3, ExecuteInv
  <2> QED
    BY <2>4, <2>5
<1>2. QED
  BY <1>1, BoardInvariant, PTL DEF MinerSpec, NoHotReload

(* When heights tell templates apart, a thread polls a board for one whole *)
(* template, of the height it remembers: between the height it read before *)
(* the loads and the one it checks after them no other template fits.  Two *)
(* templates of one height may be mixed, which a run on HashPool shows.    *)
THEOREM PollsOneTemplateHolds ==
  ASSUME \A v, w \in Works : Height[v] = Height[w] => v = w
  PROVE  MinerSpec => []PollsOneTemplate
<1>1. BoardInv => PollsOneTemplate
  <2> SUFFICES ASSUME BoardInv, NEW t \in Threads, mpc[t] = "read"
               PROVE  /\ Hashes(tx[t], fpga[t], Len(tx[t]))
                      /\ OneTemplate(t)
    BY DEF PollsOneTemplate, OneTemplate
  <2>1. SwitchInv(t) /\ OneInv(t)
    BY DEF BoardInv, ThreadInv
  <2> QED
    BY <2>1 DEF SwitchInv, Written, OneInv, Distinct
<1> QED
  BY <1>1, BoardInvariant, PTL

-----------------------------------------------------------------------------
(* The composition.                                                        *)

(* Neither side's invariant implies the other's, and each of the two       *)
(* mappings below needs both.                                              *)
JInv == OInv /\ MinerInv

(* What a mining thread does to the shared object: only StoreNonce and     *)
(* RaiseFlag touch it, the one with the flag down (Handshake) and both     *)
(* with a block in place (MinerNeverNull).                                 *)
LEMMA MinerStepMaps ==
  ASSUME MinerInv, NEW t \in Threads, MinerStep(t) \/ BoardStep(t)
  PROVE  \/ MinerStoresNonce(t)
         \/ MinerRaisesFlag(t)
         \/ UNCHANGED objectVars
<1>1. CASE StoreNonce(t)
  <2>1. m_pBLOCK[t] # NULL /\ ~ m_bBlockFound[t] /\ nNonce[t] \in Nonces
    BY <1>1 DEF StoreNonce, MinerInv, Handshake, MinerNeverNull, MinerTypeOK
  <2> QED
    BY <1>1, <2>1 DEF StoreNonce, MinerStoresNonce
<1>2. CASE RaiseFlag(t)
  <2>1. m_pBLOCK[t] # NULL
    BY <1>2 DEF RaiseFlag, MinerInv, MinerNeverNull
  <2> QED
    BY <1>2, <2>1 DEF RaiseFlag, MinerRaisesFlag
<1>3. CASE BoardStep(t)
  BY <1>3 DEF BoardStep, Execute, FindNonce
<1> QED
  BY <1>1, <1>2, <1>3
     DEF MinerStep, Boot, Top, Wait, Wait2, ReadHeight, Send, SendThrows, Recv,
         RecvTimeout, Poll, Read, ReadTimeout

(* What the connection thread does to the shared object.  It lowers        *)
(* m_bNewBlock only over a block (Assigning), stores work only under the   *)
(* raised flag and never older work (WorkOrder), and stores a nonce only   *)
(* while the share it came from is still flagged (SubmissionStable).       *)
LEMMA ServerStepMaps ==
  ASSUME OInv, ServerStep
  PROVE  \/ \E t \in Threads : ServerStores(t) /\ UNCHANGED m_bShutdown
         \/ ServerShutsDown
         \/ UNCHANGED objectVars
<1> USE DEF OInv, SInv, LoopInv, AtThread
<1>1. CASE ResetFound \/ AssignFound \/ SettleFound
  <2>1. nIndex \in Threads
    BY <1>1 DEF ResetFound, AssignFound, SettleFound
  <2> QED
    BY <1>1, <2>1 DEF ResetFound, AssignFound, SettleFound, ServerStores
<1>2. CASE ResetNew \/ AssignNew \/ SettleNew
  <2>1. nIndex \in Threads
    BY <1>2 DEF ResetNew, AssignNew, SettleNew, AfterNewFlag
  <2>2. \/ SetIsNewBlock(nIndex, TRUE)
        \/ m_pBLOCK[nIndex] # NULL /\ SetIsNewBlock(nIndex, FALSE)
    <3>1. CASE ResetNew
      BY <3>1 DEF ResetNew
    <3>2. CASE AssignNew
      BY <3>2 DEF AssignNew, Assigning
    <3>3. CASE SettleNew
      BY <3>3 DEF SettleNew, Assigning
    <3> QED
      BY <1>2, <3>1, <3>2, <3>3
  <2>3. UNCHANGED <<m_pBLOCK, m_unBits, m_bBlockFound, m_bShutdown>>
    BY <1>2 DEF ResetNew, AssignNew, SettleNew
  <2> QED
    BY <2>1, <2>2, <2>3 DEF ServerStores
<1>3. CASE AssignBits
  <2>1. nIndex \in Threads /\ pWork \in Works /\ m_bNewBlock[nIndex]
    BY <1>3 DEF AssignBits, Assigning
  <2> QED
    BY <1>3, <2>1 DEF AssignBits, ServerStores
<1>4. CASE AssignBlock
  <2>1. /\ nIndex \in Threads /\ pWork \in Works /\ m_bNewBlock[nIndex]
        /\ m_pBLOCK[nIndex] # NULL => m_pBLOCK[nIndex].work <= pWork
    BY <1>4, PacketTypes DEF AssignBlock, Assigning, WorkOrder
  <2> QED
    BY <1>4, <2>1 DEF AssignBlock, ServerStores
<1>5. CASE AcceptNonce
  <2>1. nIndex \in Threads /\ m_bBlockFound[nIndex] /\ m_pBLOCK[nIndex] # NULL
    BY <1>5 DEF AcceptNonce, SubmissionStable, HasShare, FoundHasBlock
  <2> QED
    BY <1>5, <2>1 DEF AcceptNonce, ServerStores
<1>6. CASE RaiseShutdown
  BY <1>6 DEF RaiseShutdown, ServerShutsDown
<1>7. CASE \/ PingPool \/ PingConnectFails \/ PingAnswered \/ PingTimesOut
           \/ KeepsConnection \/ Reconnects \/ ReconnectFails
           \/ LoginSucceeds \/ LoginFails \/ WorkArrives \/ OtherArrives
           \/ NoWork \/ MeterNotDue \/ MeterDue \/ MeterReset
  BY <1>7 DEF PingPool, PingConnectFails, PingAnswered, PingTimesOut, PingAgain,
       KeepsConnection, Reconnects, ReconnectFails, LoginSucceeds, LoginFails,
       WorkArrives, OtherArrives, NoWork, MeterNotDue, MeterDue, MeterReset
<1>8. CASE \/ ScanDone \/ ScanNext \/ ScanNew \/ CheckHeight \/ ScanFound
           \/ ReadShare \/ SubmitBlock \/ ShareAccepted \/ ShareRejected
           \/ OtherVerdict \/ NoVerdict \/ FailClose \/ Exit
  BY <1>8 DEF ScanDone, ScanNext, ScanNew, CheckHeight, ScanFound, ReadShare,
       SubmitBlock, ShareAccepted, ShareRejected, OtherVerdict, NoVerdict,
       FailClose, Exit
<1> QED
  BY <1>1, <1>2, <1>3, <1>4, <1>5, <1>6, <1>7, <1>8 DEF ServerStep

-----------------------------------------------------------------------------
(* A step of the program is a step of both closed specifications.          *)
LEMMA NextMaps ==
  ASSUME JInv, [Next]_vars
  PROVE  [ServerSpecNext]_serverSpecVars /\ [MinerSpecNext]_minerSpecVars
<1> USE DEF JInv
<1>1. CASE ServerStep /\ UNCHANGED minerVars
  BY <1>1, ServerStepMaps DEF ServerSpecNext, MinerSpecNext, minerSpecVars
<1>2. CASE Running /\ PoolStep /\ UNCHANGED <<objectVars, serverVars, minerVars>>
  BY <1>2 DEF ServerSpecNext, minerSpecVars
<1>3. CASE /\ Running
           /\ \E t \in Threads : MinerStep(t) \/ BoardStep(t)
           /\ UNCHANGED <<netVars, serverVars>>
  BY <1>3, MinerStepMaps DEF ServerSpecNext, MinerSpecNext, serverSpecVars
<1>4. CASE UNCHANGED vars
  BY <1>4 DEF vars, serverSpecVars, minerSpecVars
<1> QED
  BY <1>1, <1>2, <1>3, <1>4 DEF Next

(* The joint invariant of the program.                                     *)
THEOREM PoolInvariant == Spec => []JInv
<1>1. Init => JInv
  <2>1. Init => ServerSpecInit /\ MinerSpecInit
    BY DEF Init, ServerSpecInit, MinerSpecInit
  <2>2. ServerSpecInit => OInv
    BY OrderInitInv
  <2> QED
    BY <2>1, <2>2, MinerInitInv DEF JInv
<1>2. JInv /\ [Next]_vars => JInv'
  BY NextMaps, OrderNextInv, MinerNextInv DEF JInv
<1> QED
  BY <1>1, <1>2, PTL DEF Spec

(* Every variable of the program keeps its type.                           *)
THEOREM TypeCorrect == Spec => []TypeOK
<1>1. JInv => TypeOK
  BY DEF JInv, OInv, SInv, NetInv, MinerInv, TypeOK, ServerInv
<1> QED
  BY <1>1, PoolInvariant, PTL

(* The mining threads and boards of the program are what ServerSpec takes  *)
(* them to be, so whatever is proved of ServerSpec holds of the program.   *)
THEOREM ImplementsServerSpec == Spec => ServerSpec
<1>1. Init => ServerSpecInit
  BY DEF Init, ServerSpecInit
<1>2. JInv /\ [Next]_vars => [ServerSpecNext]_serverSpecVars
  BY NextMaps
<1> QED
  BY <1>1, <1>2, PoolInvariant, PTL DEF Spec, ServerSpec

(* The connection thread of the program is what MinerSpec takes it to be.  *)
THEOREM ImplementsMinerSpec == Spec => MinerSpec
<1>1. Init => MinerSpecInit
  BY DEF Init, MinerSpecInit
<1>2. JInv /\ [Next]_vars => [MinerSpecNext]_minerSpecVars
  BY NextMaps
<1> QED
  BY <1>1, <1>2, PoolInvariant, PTL DEF Spec, MinerSpec

=============================================================================
