---------------------------- MODULE MinerThread ----------------------------
(***************************************************************************)
(* MinerThread::SK1024Miner: the loop that programs one FPGA board over    *)
(* its serial port and polls it for nonces, with the board itself.         *)
(*                                                                         *)
(* Every com.*() call writes one command and then consumes at most one     *)
(* '}'-terminated message, whichever came first: the reply, an older       *)
(* reply, or a nonce the board volunteered.  The Boolean it returns is     *)
(* ignored, so neither a wrong reply nor a timeout stops the programming.  *)
(***************************************************************************)
EXTENDS ThreadState

CONSTANTS
  MaxTx,        \* BOUND: commands the serial port buffers before a write blocks
  MaxRx,        \* BOUND: messages buffered on their way to the host
  DeviceErrors  \* whether a serial write may throw

ASSUME SerialAssumption == /\ MaxTx \in Nat \ {0}
                           /\ MaxRx \in Nat \ {0}
                           /\ DeviceErrors \in BOOLEAN

VARIABLES
  mpc,         \* control point of the mining thread
  cmd,         \* which command of Program it is sending
  nHeight,     \* its local nHeight: the height it programmed the board for
  nNonce,      \* its local nNonce: the last nonce read, by what it solves
  m_unHashes,  \* kinds of message whose digits went into the hash counter
  tx,          \* commands written to the port and not yet executed
  rx,          \* messages from the board and not yet consumed
  fpga         \* the board's registers

threadVars == <<mpc, cmd, nHeight, nNonce, m_unHashes>>
boardVars  == <<tx, rx, fpga>>
minerVars  == <<threadVars, boardVars>>

(* Mutant of Program: the board is not told to stop before it is reloaded. *)
ProgramHot == <<"ping", "count", "key2", "message2", "bits", "enable">>

(* The serial commands of one pass of the outer loop, in program order.    *)
Program == <<"ping", "count", "disable", "key2", "message2", "bits", "enable">>
Ops     == {Program[i] : i \in DOMAIN Program}

Command == [op : Ops, work : Nonces]
Message == [kind : {"ok", "count", "nonce"}, nonce : Nonces]
Board   == [key2 : Nonces, message2 : Nonces, bits : Nonces, hashing : BOOLEAN]

MinerPCs == {"boot", "top", "wait", "wait2", "height", "send", "recv",
             "poll", "read", "nonce", "flag", "stopped"}

MinerTypeOK ==
  /\ mpc \in [Threads -> MinerPCs]
  /\ cmd \in [Threads -> DOMAIN Program]
  /\ nHeight \in [Threads -> Nat]
  /\ nNonce \in [Threads -> Nonces]
  /\ m_unHashes \in [Threads -> SUBSET {"count", "nonce"}]
  /\ tx \in [Threads -> Seq(Command)]
  /\ rx \in [Threads -> Seq(Message)]
  /\ fpga \in [Threads -> Board]

(***************************************************************************)
(* A board keeps running across runs of the program: it may still be       *)
(* hashing a forgotten block when the port is opened.                      *)
(***************************************************************************)
MinerInit ==
  /\ mpc = [t \in Threads |-> "boot"]
  /\ cmd = [t \in Threads |-> 1]
  /\ nHeight = [t \in Threads |-> 0]
  /\ nNonce = [t \in Threads |-> NoShare]
  /\ m_unHashes = [t \in Threads |-> {}]
  /\ tx = [t \in Threads |-> <<[op |-> "disable", work |-> NoShare]>>]
  /\ rx = [t \in Threads |-> <<>>]
  /\ fpga \in [Threads -> [key2 : {NoShare}, message2 : {NoShare},
                           bits : {NoShare}, hashing : BOOLEAN]]

Goto(t, l)  == mpc' = [mpc EXCEPT ![t] = l]

(* Back to the top of the outer loop: the locals of its body are gone.     *)
Leave(t) ==
  /\ Goto(t, "top")
  /\ cmd' = [cmd EXCEPT ![t] = 1]
  /\ nHeight' = [nHeight EXCEPT ![t] = 0]
  /\ nNonce' = [nNonce EXCEPT ![t] = NoShare]

PopRx(t)    == rx' = [rx EXCEPT ![t] = Tail(@)]

-----------------------------------------------------------------------------
(* The reply to the disableHashing() that precedes the loop, or a timeout. *)
Boot(t) ==
  /\ mpc[t] = "boot"
  /\ \/ /\ rx[t] # <<>>
        /\ PopRx(t)
     \/ /\ rx[t] = <<>>
        /\ UNCHANGED rx
  /\ Goto(t, "top")
  /\ UNCHANGED <<objectVars, cmd, nHeight, nNonce, m_unHashes, tx, fpga>>

(* The top of the outer loop, the only place besides the polling loop that *)
(* looks at m_bShutdown.                                                   *)
Top(t) ==
  /\ mpc[t] = "top"
  /\ Goto(t, IF m_bShutdown[t] THEN "stopped" ELSE "wait")
  /\ UNCHANGED <<objectVars, cmd, nHeight, nNonce, m_unHashes, boardVars>>

(* while (m_bNewBlock || m_bBlockFound || !m_pBLOCK): the first load, then *)
(* the other two, so that a store may fall in between.                     *)
Wait(t) ==
  /\ mpc[t] = "wait"
  /\ ~ m_bNewBlock[t]
  /\ Goto(t, "wait2")
  /\ UNCHANGED <<objectVars, cmd, nHeight, nNonce, m_unHashes, boardVars>>

(* Mutants of Wait2: the loop forgets one of the conditions it waits for.  *)
Wait2AnyFlag(t) ==
  /\ mpc[t] = "wait2"
  /\ Goto(t, IF m_pBLOCK[t] = NULL THEN "wait" ELSE "height")
  /\ UNCHANGED <<objectVars, cmd, nHeight, nNonce, m_unHashes, boardVars>>

Wait2AnyBlock(t) ==
  /\ mpc[t] = "wait2"
  /\ Goto(t, IF m_bBlockFound[t] THEN "wait" ELSE "height")
  /\ UNCHANGED <<objectVars, cmd, nHeight, nNonce, m_unHashes, boardVars>>

Wait2(t) ==
  /\ mpc[t] = "wait2"
  /\ Goto(t, IF m_bBlockFound[t] \/ m_pBLOCK[t] = NULL THEN "wait" ELSE "height")
  /\ UNCHANGED <<objectVars, cmd, nHeight, nNonce, m_unHashes, boardVars>>

ReadHeight(t) ==
  /\ mpc[t] = "height"
  /\ nHeight' = [nHeight EXCEPT ![t] = Height[m_pBLOCK[t].work]]
  /\ Goto(t, "send")
  /\ UNCHANGED <<objectVars, cmd, nNonce, m_unHashes, boardVars>>

(* What the command carries, read from the object when it is sent.         *)
Argument(t) ==
  CASE Program[cmd[t]] \in {"key2", "message2"} -> m_pBLOCK[t].work
    [] Program[cmd[t]] = "bits" -> m_unBits[t]
    [] OTHER -> NoShare

Send(t) ==
  /\ mpc[t] = "send"
  /\ Len(tx[t]) < MaxTx
  /\ tx' = [tx EXCEPT ![t] = Append(@, [op |-> Program[cmd[t]], work |-> Argument(t)])]
  /\ Goto(t, "recv")
  /\ UNCHANGED <<objectVars, cmd, nHeight, nNonce, m_unHashes, rx, fpga>>

(* writeString throws: the handler of the outer loop starts the pass again. *)
SendThrows(t) ==
  /\ DeviceErrors
  /\ mpc[t] = "send"
  /\ Leave(t)
  /\ UNCHANGED <<objectVars, m_unHashes, boardVars>>

(* Mutant of NextCommand: off by one at the end of the program.            *)
NextCommandPastEnd(t) ==
  IF cmd[t] > Len(Program)
  THEN Goto(t, "poll") /\ UNCHANGED cmd
  ELSE Goto(t, "send") /\ cmd' = [cmd EXCEPT ![t] = @ + 1]

NextCommand(t) ==
  IF cmd[t] = Len(Program)
  THEN Goto(t, "poll") /\ UNCHANGED cmd
  ELSE Goto(t, "send") /\ cmd' = [cmd EXCEPT ![t] = @ + 1]

(* The read that ends a command.  getDiff28HashCount parses the last eight *)
(* characters of whatever it read as a hexadecimal number: an "{K" adds 0, *)
(* a nonce adds its low 32 bits.                                           *)
Recv(t) ==
  /\ mpc[t] = "recv"
  /\ rx[t] # <<>>
  /\ PopRx(t)
  /\ m_unHashes' = IF Program[cmd[t]] = "count" /\ Head(rx[t]).kind # "ok"
                   THEN [m_unHashes EXCEPT ![t] = @ \cup {Head(rx[t]).kind}]
                   ELSE m_unHashes
  /\ NextCommand(t)
  /\ UNCHANGED <<objectVars, nHeight, nNonce, tx, fpga>>

RecvTimeout(t) ==
  /\ mpc[t] = "recv"
  /\ rx[t] = <<>>
  /\ NextCommand(t)
  /\ UNCHANGED <<objectVars, nHeight, nNonce, m_unHashes, boardVars>>

(* Mutant of Poll: the polling loop trusts the flag and not the height.    *)
PollAnyHeight(t) ==
  /\ mpc[t] = "poll"
  /\ IF ~ m_bNewBlock[t] /\ ~ m_bShutdown[t]
     THEN Goto(t, "read") /\ UNCHANGED <<cmd, nHeight, nNonce>>
     ELSE Leave(t)
  /\ UNCHANGED <<objectVars, m_unHashes, boardVars>>

(* while (!m_bNewBlock && nHeight == m_pBLOCK->GetHeight()), then the test *)
(* of m_bShutdown that opens its body.                                     *)
Poll(t) ==
  /\ mpc[t] = "poll"
  /\ IF /\ ~ m_bNewBlock[t]
        /\ nHeight[t] = Height[m_pBLOCK[t].work]
        /\ ~ m_bShutdown[t]
     THEN Goto(t, "read") /\ UNCHANGED <<cmd, nHeight, nNonce>>
     ELSE Leave(t)
  /\ UNCHANGED <<objectVars, m_unHashes, boardVars>>

(* readStringUntil("}") inside the polling loop: a nonce ends the loop,    *)
(* any other message is dropped.                                           *)
Read(t) ==
  /\ mpc[t] = "read"
  /\ rx[t] # <<>>
  /\ PopRx(t)
  /\ IF Head(rx[t]).kind = "nonce"
     THEN /\ nNonce' = [nNonce EXCEPT ![t] = Head(rx[t]).nonce]
          /\ Goto(t, "nonce")
     ELSE /\ Goto(t, "poll")
          /\ UNCHANGED nNonce
  /\ UNCHANGED <<objectVars, cmd, nHeight, m_unHashes, tx, fpga>>

ReadTimeout(t) ==
  /\ mpc[t] = "read"
  /\ rx[t] = <<>>
  /\ Goto(t, "poll")
  /\ UNCHANGED <<objectVars, cmd, nHeight, nNonce, m_unHashes, boardVars>>

(* m_pBLOCK->SetNonce(nNonce): on the block m_pBLOCK points to NOW, which  *)
(* need not be the block the board was programmed with.                    *)
StoreNonce(t) ==
  /\ mpc[t] = "nonce"
  /\ SetNonce(t, nNonce[t])
  /\ Goto(t, "flag")
  /\ UNCHANGED <<m_unBits, m_bBlockFound, m_bNewBlock, m_bShutdown,
                 cmd, nHeight, nNonce, m_unHashes, boardVars>>

RaiseFlag(t) ==
  /\ mpc[t] = "flag"
  /\ SetIsBlockFound(t, TRUE)
  /\ Leave(t)
  /\ UNCHANGED <<m_pBLOCK, m_unBits, m_bNewBlock, m_bShutdown, m_unHashes,
                 boardVars>>

MinerStep(t) ==
  \/ Boot(t) \/ Top(t) \/ Wait(t) \/ Wait2(t) \/ ReadHeight(t)
  \/ Send(t) \/ SendThrows(t) \/ Recv(t) \/ RecvTimeout(t)
  \/ Poll(t) \/ Read(t) \/ ReadTimeout(t) \/ StoreNonce(t) \/ RaiseFlag(t)

-----------------------------------------------------------------------------
(* The board executes the oldest command and answers it; the host drops    *)
(* what arrives while its buffer is full.                                  *)
Executed(b, c) ==
  CASE c.op = "key2"     -> [b EXCEPT !.key2 = c.work]
    [] c.op = "message2" -> [b EXCEPT !.message2 = c.work]
    [] c.op = "bits"     -> [b EXCEPT !.bits = c.work]
    [] c.op = "enable"   -> [b EXCEPT !.hashing = TRUE]
    [] c.op = "disable"  -> [b EXCEPT !.hashing = FALSE]
    [] OTHER             -> b

ToHost(t, m) ==
  rx' = IF Len(rx[t]) < MaxRx THEN [rx EXCEPT ![t] = Append(@, m)] ELSE rx

Execute(t) ==
  /\ tx[t] # <<>>
  /\ fpga' = [fpga EXCEPT ![t] = Executed(@, Head(tx[t]))]
  /\ tx' = [tx EXCEPT ![t] = Tail(@)]
  /\ ToHost(t, [kind  |-> IF Head(tx[t]).op = "count" THEN "count" ELSE "ok",
                      nonce |-> NoShare])
  /\ UNCHANGED <<objectVars, threadVars>>

(* The board volunteers a nonce.  It solves a template only if both halves *)
(* of the hash state came from that template.                              *)
FindNonce(t) ==
  /\ fpga[t].hashing
  /\ ToHost(t, [kind  |-> "nonce",
                nonce |-> IF fpga[t].key2 = fpga[t].message2
                          THEN fpga[t].key2 ELSE NoShare])
  /\ UNCHANGED <<objectVars, threadVars, tx, fpga>>

BoardStep(t) == Execute(t) \/ FindNonce(t)

-----------------------------------------------------------------------------
(* The mining threads in closed form: what they rely on is that the        *)
(* connection thread replaces a block only with newer or equal work, under *)
(* a raised m_bNewBlock, and touches a nonce only under a raised           *)
(* m_bBlockFound.                                                          *)
ServerStores(t) ==
  \/ /\ \/ SetIsNewBlock(t, TRUE)
        \/ m_pBLOCK[t] # NULL /\ SetIsNewBlock(t, FALSE)
     /\ UNCHANGED <<m_pBLOCK, m_unBits, m_bBlockFound>>
  \/ /\ SetIsBlockFound(t, FALSE)
     /\ UNCHANGED <<m_pBLOCK, m_unBits, m_bNewBlock>>
  \/ /\ m_bNewBlock[t]
     /\ \E w \in Works : SetBits(t, w)
     /\ UNCHANGED <<m_pBLOCK, m_bBlockFound, m_bNewBlock>>
  \/ /\ m_bNewBlock[t]
     /\ \E w \in Works : /\ m_pBLOCK[t] # NULL => m_pBLOCK[t].work <= w
                         /\ SetBlock(t, w)
     /\ UNCHANGED <<m_unBits, m_bBlockFound, m_bNewBlock>>
  \/ /\ m_bBlockFound[t]
     /\ m_pBLOCK[t] # NULL
     /\ SetNonce(t, NoShare)
     /\ UNCHANGED <<m_unBits, m_bBlockFound, m_bNewBlock>>

ServerShutsDown ==
  /\ m_bShutdown' = [t \in Threads |-> TRUE]
  /\ UNCHANGED <<m_pBLOCK, m_unBits, m_bBlockFound, m_bNewBlock>>

minerSpecVars == <<objectVars, minerVars>>

MinerSpecInit == ThreadStateInit /\ MinerInit

MinerSpecNext ==
  \/ \E t \in Threads : MinerStep(t) \/ BoardStep(t)
  \/ /\ \E t \in Threads : ServerStores(t) /\ UNCHANGED m_bShutdown
     /\ UNCHANGED minerVars
  \/ ServerShutsDown /\ UNCHANGED minerVars

MinerSpec == MinerSpecInit /\ [][MinerSpecNext]_minerSpecVars

(* The threads are scheduled, and a board executes what it was sent; no    *)
(* nonce need ever be found.                                               *)
MinerFairSpec ==
  /\ MinerSpec
  /\ \A t \in Threads : /\ WF_minerSpecVars(MinerStep(t))
                        /\ WF_minerSpecVars(Execute(t))

-----------------------------------------------------------------------------
(* What the commands q will do to board b: whether it rests or hashes when *)
(* it has executed the first n of them, and whether a register that holds  *)
(* now holds v after all of them, op being the command that loads it.      *)
Switches == {"enable", "disable"}

LastSwitch(q, n, op) ==
  \E i \in 1..n : /\ q[i].op = op
                  /\ \A j \in (i + 1)..n : q[j].op \notin Switches

Unswitched(q, n) == \A i \in 1..n : q[i].op \notin Switches

Rests(q, b, n)  == \/ ~ b.hashing /\ Unswitched(q, n)
                   \/ LastSwitch(q, n, "disable")
Hashes(q, b, n) == \/ b.hashing /\ Unswitched(q, n)
                   \/ LastSwitch(q, n, "enable")

Holds(q, op, now, v) ==
  \/ now = v /\ \A i \in 1..Len(q) : q[i].op # op
  \/ \E i \in 1..Len(q) : /\ q[i].op = op /\ q[i].work = v
                          /\ \A j \in (i + 1)..Len(q) : q[j].op # op

(* A flag raised by the mining thread parks it: until the connection       *)
(* thread lowers the flag it gets no further than the waiting loop         *)
(* (MinerThread.cpp:100), so it neither overwrites the nonce being         *)
(* submitted nor reprograms its board.                                     *)
Handshake ==
  \A t \in Threads :
    m_bBlockFound[t] => mpc[t] \in {"top", "wait", "wait2", "stopped"}

(* The mining thread never follows a null block pointer.                   *)
MinerNeverNull ==
  \A t \in Threads :
    mpc[t] \in {"height", "send", "recv", "poll", "read", "nonce", "flag"}
      => m_pBLOCK[t] # NULL

(* A board is reprogrammed only while it is not hashing, whatever replies  *)
(* were lost or late and whatever an earlier run left it doing             *)
(* (disableHashing before sendKey2, MinerThread.cpp:73, 116).              *)
NoHotReload ==
  [][\A t \in Threads :
       fpga[t].hashing /\ fpga'[t].hashing => fpga'[t] = fpga[t]]_fpga

(* Once its height check passed (MinerThread.cpp:126), the thread polls a  *)
(* board that is, or is about to be, hashing one whole template, and of    *)
(* the height it remembers: the two halves of the hash state are read      *)
(* under two separate locks (MinerThread.cpp:77-90).                       *)
PollsOneTemplate ==
  \A t \in Threads :
    mpc[t] = "read" =>
      /\ Hashes(tx[t], fpga[t], Len(tx[t]))
      /\ \E w \in Works : /\ Holds(tx[t], "key2", fpga[t].key2, w)
                          /\ Holds(tx[t], "message2", fpga[t].message2, w)
                          /\ Height[w] = nHeight[t]

(* A block a thread was told it may mine gets mined: the board ends up     *)
(* hashing it, unless the thread is first told otherwise.  The flag is no  *)
(* event: a new block assigned and cleared for mining between two looks at *)
(* it shows only in the height (MinerThread.cpp:126).  Serial writes may   *)
(* throw at any time and leave the board half programmed, as long as they  *)
(* stop doing so at last.                                                  *)
Told(t, w)   == /\ m_pBLOCK[t] # NULL
                /\ m_pBLOCK[t].work = w
                /\ ~ m_bNewBlock[t]
                /\ ~ m_bBlockFound[t]
Mining(t, w) == /\ fpga[t].hashing
                /\ fpga[t].key2 = w
                /\ fpga[t].message2 = w

WritesSucceedAtLast == \A t \in Threads : <>[][~ SendThrows(t)]_minerSpecVars

WorkGetsMined ==
  WritesSucceedAtLast =>
    \A t \in Threads, w \in Works :
      Told(t, w) ~> (Mining(t, w) \/ ~ Told(t, w) \/ m_bShutdown[t])

=============================================================================
