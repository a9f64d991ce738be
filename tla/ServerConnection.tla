-------------------------- MODULE ServerConnection --------------------------
(***************************************************************************)
(* ServerConnection::ServerThread: pings the pool, logs in, receives work, *)
(* hands it to the mining threads and submits the shares they flag.  One   *)
(* step per access to a MinerThread object, since the mining threads run   *)
(* in between, and one per packet written or awaited.                      *)
(*                                                                         *)
(* Printed statistics (the accepted, rejected and found counters and the   *)
(* hash rate) are left out.  MaxAttempts is 8 in the code.                 *)
(***************************************************************************)
EXTENDS Connection

CONSTANTS
  MaxAttempts,  \* the 8 of nPingCount, nReconnectCount and nLoginCount
  TestModes     \* the values of bBenchmark, the TEST_MODE argument

ASSUME ServerAssumption == /\ MaxAttempts \in Nat
                           /\ TestModes \subseteq BOOLEAN

VARIABLES
  spc,             \* control point of the connection thread
  nIndex,          \* the mining thread its loops have come to
  pWork,           \* the template of pWork, NoShare for a null pointer
  nHeightGlobal,   \* the global nHeight: height of the last block assigned
  nNonceSubmitted, \* its local nNonce
  nPingCount, nReconnectCount, nLoginCount,
  nReceivedBlock,  \* whether nReceivedBlockCount > 0
  meterDue,        \* TIMER.Elapsed() > nTimerWait
  startDue,        \* elapsedFromStart > 5
  reason,          \* which of its four exits it took
  bBenchmark,      \* TEST_MODE: found blocks are reported, not submitted
  everReceived     \* history: a BLOCK_DATA packet was parsed

counters   == <<nPingCount, nReconnectCount, nLoginCount>>
timers     == <<meterDue, startDue>>
runVars    == <<bBenchmark, everReceived>>
rareVars   == <<nHeightGlobal, nReceivedBlock, nNonceSubmitted, counters,
                timers, reason, runVars>>
serverVars == <<spc, nIndex, pWork, rareVars>>

ServerPCs ==
  {"start", "ping", "loop", "login", "login_work", "wait",
   "reset_found", "reset_new", "meter", "meter_reset", "scan",
   "need", "have", "retry", "set_bits", "set_block", "set_found", "set_new",
   "found", "submit", "verdict", "acc_nonce", "acc_new", "acc_found",
   "rej_new", "rej_found", "fail_new", "fail_found", "fail_close",
   "shutdown", "exiting", "exited", "crashed"}
Ended    == {"exited", "crashed"}
Running  == spc \notin Ended
Attempts == 0 .. MaxAttempts

ServerTypeOK ==
  /\ spc \in ServerPCs
  /\ nIndex \in 0 .. NThreads
  /\ pWork \in Nonces
  /\ nHeightGlobal \in Nat
  /\ nNonceSubmitted \in Nonces
  /\ nPingCount \in Attempts /\ nReconnectCount \in Attempts
  /\ nLoginCount \in Attempts
  /\ nReceivedBlock \in BOOLEAN /\ meterDue \in BOOLEAN /\ startDue \in BOOLEAN
  /\ reason \in {"none", "ping", "connect", "login", "blocks"}
  /\ bBenchmark \in BOOLEAN /\ everReceived \in BOOLEAN

ServerInit ==
  /\ spc = "start"
  /\ nIndex = 0
  /\ pWork = NoShare
  /\ nHeightGlobal = 0
  /\ nNonceSubmitted = NoShare
  /\ nPingCount = 0 /\ nReconnectCount = 0 /\ nLoginCount = 0
  /\ nReceivedBlock = FALSE /\ meterDue = FALSE /\ startDue = FALSE
  /\ reason = "none"
  /\ bBenchmark \in TestModes
  /\ everReceived = FALSE

SGoto(l) == spc' = l
Shutdown(why) == SGoto("shutdown") /\ reason' = why

-----------------------------------------------------------------------------
(* Before the main loop: is the pool up?                                   *)
(* Mutants of PingAgain: one attempt too many, and attempts not counted.   *)
PingOnceMore ==
  /\ IF nPingCount > MaxAttempts
     THEN Shutdown("ping") /\ UNCHANGED nPingCount
     ELSE /\ SGoto("start")
          /\ nPingCount' = nPingCount + 1
          /\ UNCHANGED reason
  /\ UNCHANGED <<nIndex, pWork, nHeightGlobal, nReceivedBlock, nNonceSubmitted,
                 nReconnectCount, nLoginCount, timers, runVars, objectVars>>

PingForEver ==
  /\ SGoto("start")
  /\ UNCHANGED <<nIndex, pWork, rareVars, objectVars>>

PingAgain ==
  /\ IF nPingCount >= MaxAttempts
     THEN Shutdown("ping") /\ UNCHANGED nPingCount
     ELSE /\ SGoto("start")
          /\ nPingCount' = nPingCount + 1
          /\ UNCHANGED reason
  /\ UNCHANGED <<nIndex, pWork, nHeightGlobal, nReceivedBlock, nNonceSubmitted,
                 nReconnectCount, nLoginCount, timers, runVars, objectVars>>

PingPool ==
  /\ spc = "start"
  /\ ConnectAndWrite(Request("PING"))
  /\ SGoto("ping")
  /\ UNCHANGED <<nIndex, pWork, rareVars, objectVars>>

PingConnectFails == spc = "start" /\ ConnectFails /\ PingAgain

(* Any packet at all counts as an answer.                                  *)
PingAnswered ==
  /\ spc = "ping"
  /\ PacketArrives
  /\ Disconnect
  /\ SGoto("loop")
  /\ UNCHANGED <<nIndex, pWork, rareVars, objectVars>>

PingTimesOut == spc = "ping" /\ ReadTimesOut /\ Disconnect /\ PingAgain

-----------------------------------------------------------------------------
(* The top of the main loop.                                               *)
NeedsConnection == ~ CONNECTED \/ ERROR_HANDLE

(* The locals of the loop's body start afresh.                             *)
NewPass == pWork' = NoShare /\ nNonceSubmitted' = NoShare /\ nIndex' = 0

KeepsConnection ==
  /\ spc = "loop"
  /\ ~ NeedsConnection
  /\ SGoto("wait")
  /\ NewPass
  /\ UNCHANGED <<nHeightGlobal, nReceivedBlock, counters, timers, reason, runVars,
                 objectVars, netVars>>

Reconnects ==
  /\ spc = "loop"
  /\ NeedsConnection
  /\ ConnectAndWrite(Request("LOGIN"))
  /\ SGoto("login")
  /\ NewPass
  /\ UNCHANGED <<nHeightGlobal, nReceivedBlock, counters, timers, reason,
                 runVars, objectVars>>

(* The failure path sleeps, then runs the rest of the body unconnected.    *)
ReconnectFails ==
  /\ spc = "loop"
  /\ NeedsConnection
  /\ ConnectFails
  /\ NewPass
  /\ IF nReconnectCount >= MaxAttempts
     THEN Shutdown("connect") /\ UNCHANGED nReconnectCount
     ELSE /\ SGoto("meter")
          /\ nReconnectCount' = nReconnectCount + 1
          /\ UNCHANGED reason
  /\ UNCHANGED <<nHeightGlobal, nReceivedBlock, nPingCount,
                 nLoginCount, timers, runVars, objectVars>>

LoginSucceeds ==
  /\ spc = "login"
  /\ ReadAndReset
  /\ NextPacket.header = "LOGIN_SUCCESS"
  /\ SGoto("login_work")
  /\ UNCHANGED <<nIndex, pWork, rareVars, objectVars>>

(* Refused, answered by something else, or not answered: give up.          *)
LoginFails ==
  /\ spc = "login"
  /\ \/ PacketArrives /\ NextPacket.header # "LOGIN_SUCCESS"
     \/ ReadTimesOut
  /\ Disconnect
  /\ Shutdown("login")
  /\ UNCHANGED <<nIndex, pWork, nHeightGlobal, nReceivedBlock, nNonceSubmitted,
                 counters, timers, runVars, objectVars>>

-----------------------------------------------------------------------------
(* WaitWorkUpdate(), called from four places.  Only the first two callers  *)
(* reset the threads; RequestWork() is the other two.                      *)
Awaiting == {"login_work", "wait", "need", "retry"}

AfterWork == [login_work |-> "reset_found", wait  |-> "reset_found",
              need       |-> "have",        retry |-> "set_bits"]

(* Mutant of WorkArrives: no ResetPacket() at its end.                     *)
WorkArrivesAndStays ==
  /\ spc \in Awaiting
  /\ ReadAndKeep
  /\ NextPacket.header = "BLOCK_DATA"
  /\ pWork' = NextPacket.work
  /\ everReceived' = TRUE
  /\ SGoto(AfterWork[spc])
  /\ UNCHANGED <<nIndex, nHeightGlobal, nReceivedBlock, nNonceSubmitted,
                 counters, timers, reason, bBenchmark, objectVars>>

WorkArrives ==
  /\ spc \in Awaiting
  /\ ReadAndReset
  /\ NextPacket.header = "BLOCK_DATA"
  /\ pWork' = NextPacket.work
  /\ everReceived' = TRUE
  /\ SGoto(AfterWork[spc])
  /\ UNCHANGED <<nIndex, nHeightGlobal, nReceivedBlock, nNonceSubmitted,
                 counters, timers, reason, bBenchmark, objectVars>>

(* Anything but work is reset, and then parsed as work all the same: the   *)
(* iterator past its empty data makes a vector of negative length, and the *)
(* exception ends this pass of the main loop.                              *)
OtherArrives ==
  /\ spc \in Awaiting
  /\ ReadAndReset
  /\ NextPacket.header # "BLOCK_DATA"
  /\ SGoto("loop")
  /\ UNCHANGED <<nIndex, pWork, rareVars, objectVars>>

(* Mutant of NoWork: the null pointer is taken for work.                   *)
NoWorkIgnored ==
  /\ spc \in Awaiting
  /\ ReadTimesOut
  /\ SGoto(AfterWork[spc])
  /\ pWork' = NoShare
  /\ UNCHANGED <<nIndex, rareVars, objectVars, netVars>>

(* Mutant of NoWork: no Disconnect() when no work comes (core.cpp:416).     *)
NoWorkStaysOpen ==
  /\ spc \in Awaiting
  /\ ReadTimesOut
  /\ SGoto([login_work |-> "reset_found", wait  |-> "meter",
            need       |-> "loop",        retry |-> "crashed"][spc])
  /\ pWork' = NoShare
  /\ UNCHANGED <<nIndex, rareVars, objectVars, netVars>>

(* No work in time.  After a login the threads are reset regardless; a     *)
(* first request disconnects; a second one (same height) dereferences the  *)
(* null pointer.                                                           *)
NoWork ==
  /\ spc \in Awaiting
  /\ ReadTimesOut
  /\ CASE spc = "login_work" -> SGoto("reset_found") /\ UNCHANGED netVars
       [] spc = "wait"       -> SGoto("meter") /\ UNCHANGED netVars
       [] spc = "need"       -> SGoto("loop") /\ Disconnect
       [] spc = "retry"      -> SGoto("crashed") /\ UNCHANGED netVars
  /\ pWork' = NoShare
  /\ UNCHANGED <<nIndex, rareVars, objectVars>>

(* ResetThreads(): found off, then new on, thread by thread.               *)
ResetFound ==
  /\ spc = "reset_found"
  /\ SetIsBlockFound(nIndex, FALSE)
  /\ SGoto("reset_new")
  /\ UNCHANGED <<nIndex, pWork, rareVars, m_pBLOCK, m_unBits, m_bNewBlock,
                 m_bShutdown, netVars>>

(* Mutant of ResetNew: the flag is lowered where it should be raised.      *)
ResetNewOff ==
  /\ spc = "reset_new"
  /\ SetIsNewBlock(nIndex, FALSE)
  /\ IF nIndex + 1 < NThreads
     THEN SGoto("reset_found") /\ nIndex' = nIndex + 1
     ELSE SGoto("meter") /\ nIndex' = 0
  /\ UNCHANGED <<pWork, rareVars, m_pBLOCK, m_unBits, m_bBlockFound,
                 m_bShutdown, netVars>>

ResetNew ==
  /\ spc = "reset_new"
  /\ SetIsNewBlock(nIndex, TRUE)
  /\ IF nIndex + 1 < NThreads
     THEN SGoto("reset_found") /\ nIndex' = nIndex + 1
     ELSE SGoto("meter") /\ nIndex' = 0
  /\ UNCHANGED <<pWork, rareVars, m_pBLOCK, m_unBits, m_bBlockFound,
                 m_bShutdown, netVars>>

-----------------------------------------------------------------------------
(* The meter.  Time passes elsewhere, so a clock may turn out due here and *)
(* stays due until it is reset.                                            *)
ClockRead ==
  /\ meterDue' \in {meterDue, TRUE}
  /\ startDue' \in {startDue, TRUE}

MeterNotDue ==
  /\ spc = "meter"
  /\ ~ meterDue
  /\ SGoto("scan")
  /\ UNCHANGED <<nIndex, pWork, rareVars, objectVars, netVars>>

NoBlockYet == startDue' /\ ~ nReceivedBlock

(* Due: give the link up if no block came, count that, and exit when it    *)
(* happened too often.  While thread 0 has no block the rest of the pass   *)
(* is skipped, TIMER.Reset() and the work in pWork included.               *)
MeterDue ==
  /\ spc = "meter"
  /\ ClockRead
  /\ meterDue'
  /\ IF NoBlockYet THEN Disconnect ELSE UNCHANGED netVars
  /\ IF NoBlockYet /\ nLoginCount >= MaxAttempts
     THEN Shutdown("blocks") /\ UNCHANGED nLoginCount
     ELSE /\ SGoto(IF m_pBLOCK[0] = NULL THEN "loop" ELSE "meter_reset")
          /\ nLoginCount' = nLoginCount + (IF NoBlockYet THEN 1 ELSE 0)
          /\ UNCHANGED reason
  /\ UNCHANGED <<nIndex, pWork, nHeightGlobal, nReceivedBlock, nNonceSubmitted,
                 nPingCount, nReconnectCount, runVars, objectVars>>

MeterReset ==
  /\ spc = "meter_reset"
  /\ meterDue' = FALSE
  /\ SGoto("scan")
  /\ UNCHANGED <<nIndex, pWork, nHeightGlobal, nReceivedBlock, nNonceSubmitted,
                 counters, startDue, reason, runVars, objectVars, netVars>>

-----------------------------------------------------------------------------
(* The loop over the mining threads.                                       *)
ScanDone ==
  /\ spc = "scan"
  /\ nIndex = NThreads
  /\ SGoto("loop")
  /\ UNCHANGED <<nIndex, pWork, rareVars, objectVars, netVars>>

ScanNext ==
  /\ spc = "scan"
  /\ nIndex < NThreads
  /\ ~ m_bNewBlock[nIndex]
  /\ ~ m_bBlockFound[nIndex]
  /\ nIndex' = nIndex + 1
  /\ UNCHANGED <<spc, pWork, rareVars, objectVars, netVars>>

(* A thread wants a block: take the work at hand, or ask for some.         *)
ScanNew ==
  /\ spc = "scan"
  /\ nIndex < NThreads
  /\ m_bNewBlock[nIndex]
  /\ IF pWork = NoShare
     THEN SGoto("need") /\ WritePacket(Request("GET_BLOCK"))
     ELSE SGoto("have") /\ UNCHANGED netVars
  /\ UNCHANGED <<nIndex, pWork, rareVars, objectVars>>

(* Same height as the last block assigned, to whichever thread: ask once   *)
(* more, and take whatever comes.                                          *)
CheckHeight ==
  /\ spc = "have"
  /\ IF Height[pWork] = nHeightGlobal
     THEN SGoto("retry") /\ WritePacket(Request("GET_BLOCK"))
     ELSE SGoto("set_bits") /\ UNCHANGED netVars
  /\ UNCHANGED <<nIndex, pWork, rareVars, objectVars>>

(* SetBits, SetBlock, SetIsBlockFound(false), SetIsNewBlock(false).        *)
(* Mutant of AssignBits: the thread may mine before its block is in place. *)
AssignBitsFlagOff ==
  /\ spc = "set_bits"
  /\ SetBits(nIndex, pWork)
  /\ SetIsNewBlock(nIndex, FALSE)
  /\ SGoto("set_block")
  /\ UNCHANGED <<nIndex, pWork, rareVars, m_pBLOCK, m_bBlockFound, m_bShutdown,
                 netVars>>

AssignBits ==
  /\ spc = "set_bits"
  /\ SetBits(nIndex, pWork)
  /\ SGoto("set_block")
  /\ UNCHANGED <<nIndex, pWork, rareVars, m_pBLOCK, m_bBlockFound, m_bNewBlock,
                 m_bShutdown, netVars>>

AssignBlock ==
  /\ spc = "set_block"
  /\ SetBlock(nIndex, pWork)
  /\ SGoto("set_found")
  /\ UNCHANGED <<nIndex, pWork, rareVars, m_unBits, m_bBlockFound, m_bNewBlock,
                 m_bShutdown, netVars>>

AssignFound ==
  /\ spc = "set_found"
  /\ SetIsBlockFound(nIndex, FALSE)
  /\ SGoto("set_new")
  /\ UNCHANGED <<nIndex, pWork, rareVars, m_pBLOCK, m_unBits, m_bNewBlock,
                 m_bShutdown, netVars>>

AssignNew ==
  /\ spc = "set_new"
  /\ SetIsNewBlock(nIndex, FALSE)
  /\ nReceivedBlock' = (nReceivedBlock \/ nHeightGlobal # Height[pWork])
  /\ nHeightGlobal' = Height[pWork]
  /\ pWork' = NoShare
  /\ nIndex' = nIndex + 1
  /\ SGoto("scan")
  /\ UNCHANGED <<nNonceSubmitted, counters, timers, reason, runVars, m_pBLOCK,
                 m_unBits, m_bBlockFound, m_bShutdown, netVars>>

-----------------------------------------------------------------------------
(* A thread flagged a share.                                               *)
ScanFound ==
  /\ spc = "scan"
  /\ nIndex < NThreads
  /\ ~ m_bNewBlock[nIndex]
  /\ m_bBlockFound[nIndex]
  /\ SGoto(IF bBenchmark THEN "rej_new" ELSE "found")
  /\ UNCHANGED <<nIndex, pWork, rareVars, objectVars, netVars>>

ReadShare ==
  /\ spc = "found"
  /\ nNonceSubmitted' = m_pBLOCK[nIndex].nonce
  /\ SGoto("submit")
  /\ UNCHANGED <<nIndex, pWork, nHeightGlobal, nReceivedBlock, counters, timers,
                 reason, runVars, objectVars, netVars>>

SubmitBlock ==
  /\ spc = "submit"
  /\ WritePacket(Packet("SUBMIT_BLOCK", m_pBLOCK[nIndex].work,
                        m_pBLOCK[nIndex].nonce))
  /\ SGoto("verdict")
  /\ UNCHANGED <<nIndex, pWork, rareVars, objectVars>>

ShareAccepted ==
  /\ spc = "verdict"
  /\ ReadAndReset
  /\ NextPacket.header = "GOOD"
  /\ SGoto("acc_nonce")
  /\ UNCHANGED <<nIndex, pWork, rareVars, objectVars>>

ShareRejected ==
  /\ spc = "verdict"
  /\ ReadAndReset
  /\ NextPacket.header = "FAIL"
  /\ SGoto("rej_new")
  /\ UNCHANGED <<nIndex, pWork, rareVars, objectVars>>

(* Any other packet counts as a rejection and stays in INCOMING.           *)
OtherVerdict ==
  /\ spc = "verdict"
  /\ ReadAndKeep
  /\ NextPacket.header \notin {"GOOD", "FAIL"}
  /\ SGoto("rej_new")
  /\ UNCHANGED <<nIndex, pWork, rareVars, objectVars>>

(* Mutant of NoVerdict: without an answer the share is simply sent again.  *)
NoVerdictRetries ==
  /\ spc = "verdict"
  /\ ReadTimesOut
  /\ SGoto("loop")
  /\ UNCHANGED <<nIndex, pWork, rareVars, objectVars, netVars>>

NoVerdict ==
  /\ spc = "verdict"
  /\ ReadTimesOut
  /\ SGoto("fail_new")
  /\ UNCHANGED <<nIndex, pWork, rareVars, objectVars, netVars>>

(* Accepted: SetNonce(nNonce + 1), then both flags off.  nNonce + 1 solves *)
(* nothing that is known.                                                  *)
AcceptNonce ==
  /\ spc = "acc_nonce"
  /\ SetNonce(nIndex, NoShare)
  /\ SGoto("acc_new")
  /\ UNCHANGED <<nIndex, pWork, rareVars, m_unBits, m_bBlockFound, m_bNewBlock,
                 m_bShutdown, netVars>>

(* SetIsNewBlock, on every outcome, and then SetIsBlockFound(false).       *)
AfterNewFlag == [acc_new |-> "acc_found", rej_new |-> "rej_found",
                 fail_new |-> "fail_found"]

SettleNew ==
  /\ spc \in DOMAIN AfterNewFlag
  /\ SetIsNewBlock(nIndex, spc # "acc_new")
  /\ SGoto(AfterNewFlag[spc])
  /\ UNCHANGED <<nIndex, pWork, rareVars, m_pBLOCK, m_unBits, m_bBlockFound,
                 m_bShutdown, netVars>>

SettleFound ==
  /\ spc \in {"acc_found", "rej_found", "fail_found"}
  /\ SetIsBlockFound(nIndex, FALSE)
  /\ SGoto(IF spc = "fail_found" THEN "fail_close" ELSE "loop")
  /\ UNCHANGED <<nIndex, pWork, rareVars, m_pBLOCK, m_unBits, m_bNewBlock,
                 m_bShutdown, netVars>>

(* Mutant of FailClose: a failed submission leaves the link open.          *)
FailStaysOpen ==
  /\ spc = "fail_close"
  /\ SGoto("loop")
  /\ UNCHANGED <<nIndex, pWork, rareVars, objectVars, netVars>>

FailClose ==
  /\ spc = "fail_close"
  /\ Disconnect
  /\ SGoto("loop")
  /\ UNCHANGED <<nIndex, pWork, rareVars, objectVars>>

-----------------------------------------------------------------------------
(* Every exit: raise m_bShutdown everywhere, wait a second, exit(0).       *)
RaiseShutdown ==
  /\ spc = "shutdown"
  /\ m_bShutdown' = [t \in Threads |-> TRUE]
  /\ SGoto("exiting")
  /\ UNCHANGED <<nIndex, pWork, rareVars, m_pBLOCK, m_unBits, m_bBlockFound,
                 m_bNewBlock, netVars>>

Exit ==
  /\ spc = "exiting"
  /\ SGoto("exited")
  /\ UNCHANGED <<nIndex, pWork, rareVars, objectVars, netVars>>

ServerStep ==
  \/ PingPool \/ PingConnectFails \/ PingAnswered \/ PingTimesOut
  \/ KeepsConnection \/ Reconnects \/ ReconnectFails
  \/ LoginSucceeds \/ LoginFails
  \/ WorkArrives \/ OtherArrives \/ NoWork \/ ResetFound \/ ResetNew
  \/ MeterNotDue \/ MeterDue \/ MeterReset
  \/ ScanDone \/ ScanNext \/ ScanNew \/ CheckHeight
  \/ AssignBits \/ AssignBlock \/ AssignFound \/ AssignNew
  \/ ScanFound \/ ReadShare \/ SubmitBlock
  \/ ShareAccepted \/ ShareRejected \/ OtherVerdict \/ NoVerdict
  \/ AcceptNonce \/ SettleNew \/ SettleFound \/ FailClose
  \/ RaiseShutdown \/ Exit

-----------------------------------------------------------------------------
(* The connection thread in closed form: what it relies on is that a       *)
(* mining thread touches its object only while no share of it is pending.  *)
(* Mutant of MinerStoresNonce: a thread that goes on polling after a find. *)
MinerStoresAnyTime(t) ==
  /\ m_pBLOCK[t] # NULL
  /\ \E n \in Nonces : SetNonce(t, n)
  /\ UNCHANGED <<m_unBits, m_bBlockFound, m_bNewBlock, m_bShutdown>>

MinerStoresNonce(t) ==
  /\ m_pBLOCK[t] # NULL
  /\ ~ m_bBlockFound[t]
  /\ \E n \in Nonces : SetNonce(t, n)
  /\ UNCHANGED <<m_unBits, m_bBlockFound, m_bNewBlock, m_bShutdown>>

MinerRaisesFlag(t) ==
  /\ m_pBLOCK[t] # NULL
  /\ SetIsBlockFound(t, TRUE)
  /\ UNCHANGED <<m_pBLOCK, m_unBits, m_bNewBlock, m_bShutdown>>

serverSpecVars == <<objectVars, netVars, serverVars>>

ServerSpecInit == ThreadStateInit /\ ConnectionInit /\ ServerInit

ServerSpecNext ==
  \/ ServerStep
  \/ Running /\ PoolStep /\ UNCHANGED <<objectVars, serverVars>>
  \/ /\ Running
     /\ \E t \in Threads : MinerStoresNonce(t) \/ MinerRaisesFlag(t)
     /\ UNCHANGED <<netVars, serverVars>>
  \/ ~ Running /\ UNCHANGED serverSpecVars

ServerSpec == ServerSpecInit /\ [][ServerSpecNext]_serverSpecVars
ServerFairSpec == ServerSpec /\ WF_serverSpecVars(ServerStep)

-----------------------------------------------------------------------------
(* Types, and the pointers: pWork and the block of thread nIndex are not   *)
(* null where the code dereferences them.                                  *)
ServerInv == ThreadStateTypeOK /\ ConnectionTypeOK /\ ServerTypeOK

HasWork  == spc \in {"have", "set_bits", "set_block", "set_found", "set_new"}
HasShare == spc \in {"found", "submit", "verdict", "acc_nonce"}

NoNullDereference ==
  /\ HasWork => pWork # NoShare
  /\ HasShare => m_pBLOCK[nIndex] # NULL

(* While a share is on its way the block it was read from does not change: *)
(* the merkle root and the nonce sent (core.cpp:490) are the ones the log  *)
(* reports and the nonce read at core.cpp:489, from which AcceptNonce goes *)
(* on.  No lock protects this: it rests on the flag alone.                 *)
SubmissionStable ==
  /\ HasShare => m_bBlockFound[nIndex]
  /\ spc \in {"submit", "verdict", "acc_nonce"} =>
       m_pBLOCK[nIndex].nonce = nNonceSubmitted

(* A login never reads a packet of an earlier link: Connect() does not     *)
(* reset INCOMING, so every path back to it must have gone through         *)
(* Disconnect() (core.cpp:180-206).                                        *)
FreshLogin == spc \in {"ping", "login"} => INCOMING = NoPacket

(* The main loop never starts a pass with the connected flag up on a link  *)
(* that failed: whoever meets an error disconnects (core.cpp:416, 533).    *)
ErrorsDisconnect == spc = "loop" /\ CONNECTED => ~ ERROR_HANDLE

(* A block is replaced only while its thread is told to wait, and never by *)
(* older work, whatever was pushed, answered late or left in INCOMING      *)
(* (core.cpp:355-383): the mining threads notice a new block that came     *)
(* between two looks only by its greater height.                           *)
BlocksInOrder ==
  [][\A t \in Threads : LET old == m_pBLOCK[t]
                          new == m_pBLOCK'[t]
                      IN old # new =>
                           /\ new # NULL
                           /\ old # NULL => old.work <= new.work
                           /\ ~ m_bNewBlock[t] =>
                                old # NULL /\ old.work = new.work]_m_pBLOCK

(* The connection thread never hangs: it comes back to the top of its loop *)
(* for ever, or the process ends.                                          *)
KeepsLooping == []<>(spc = "loop" \/ ~ Running)

(* A flagged share is dealt with, or the process ends.                     *)
FlagServed ==
  \A t \in Threads : m_bBlockFound[t] ~> (~ m_bBlockFound[t] \/ ~ Running)

(* A link the other end has closed is given up some time, as long as       *)
(* shares keep coming.  Reads never see the end of a stream: it takes a    *)
(* write that fails, a submission or a request for the next block that     *)
(* nobody answers (core.cpp:416, 490, 533), and whatever still waits in    *)
(* the socket is taken for an answer first.  Without a share the loop goes *)
(* round on a dead link for ever (core.cpp:180).                           *)
SharesKeepComing == []<>(\E t \in Threads : m_bBlockFound[t])

LinkLossNoticed ==
  SharesKeepComing =>
    ((link = "down" /\ CONNECTED) ~> (~ CONNECTED \/ ERROR_HANDLE \/ ~ Running))

-----------------------------------------------------------------------------
(* What comments and messages of the code say of it.                       *)

(* "Block not received from pool after 8 attempts...Exiting"               *)
(* (core.cpp:284).                                                         *)
NoBlockMeansNone == reason = "blocks" => ~ everReceived

(* "Share ... Found by FPGA[..] (Accepted)" (core.cpp:499): the verdict    *)
(* counted for a share is the pool's verdict on that share.                *)
VerdictOnThisShare ==
  [][spc = "verdict" /\ spc' = "acc_nonce" =>
       /\ NextPacket.work = m_pBLOCK[nIndex].work
       /\ NextPacket.nonce = m_pBLOCK[nIndex].nonce]_spc

=============================================================================
