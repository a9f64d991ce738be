----------------------------- MODULE Connection -----------------------------
(***************************************************************************)
(* LLP::Connection and LLP::Outbound, the client's end of the TCP link to  *)
(* the pool, with the link and the pool themselves.  A packet is atomic    *)
(* here: it is in INCOMING once its last byte was read.                    *)
(*                                                                         *)
(* Reads happen only when available() says there are bytes, so a read      *)
(* neither fails nor sees the end of the stream: ERROR_HANDLE is raised by *)
(* writes, by connect() and by the shutdown() in Disconnect.               *)
(***************************************************************************)
EXTENDS ThreadState

CONSTANTS
  MaxToPool,   \* BOUND: requests under way; one more and the link drops
  MaxToClient  \* BOUND: packets under way to the client

ASSUME LinkAssumption == /\ MaxToPool \in Nat \ {0}
                         /\ MaxToClient \in Nat \ {0, 1}

VARIABLES
  CONNECTED,     \* the Connected flag of the client
  ERROR_HANDLE,  \* whether the last socket operation left an error
  INCOMING,      \* the packet being built, once complete, or NoPacket
  link,          \* whether the pool still holds its end open
  toPool,        \* packets under way to the pool
  toClient,      \* packets under way to the client, or waiting in its socket
  loggedIn,      \* the pool has accepted the login of this session
  tip            \* the newest template of the pool

clientVars == <<CONNECTED, ERROR_HANDLE, INCOMING>>
poolVars   == <<link, toPool, toClient, loggedIn, tip>>
netVars    == <<clientVars, poolVars>>

Packet(h, w, n) == [header |-> h, work |-> w, nonce |-> n]
Request(h)      == Packet(h, NoShare, NoShare)
BLOCK_DATA(w)   == Packet("BLOCK_DATA", w, NoShare)
NoPacket        == Request("NULL")

Headers == {"PING", "LOGIN", "GET_BLOCK", "SUBMIT_BLOCK", "BLOCK_DATA",
            "LOGIN_SUCCESS", "LOGIN_FAIL", "GOOD", "FAIL", "NULL"}
Packets == [header : Headers, work : Nonces, nonce : Nonces]

ConnectionTypeOK ==
  /\ CONNECTED \in BOOLEAN
  /\ ERROR_HANDLE \in BOOLEAN
  /\ INCOMING \in Packets
  /\ link \in {"up", "down"}
  /\ toPool \in Seq(Packets)
  /\ toClient \in Seq(Packets)
  /\ loggedIn \in BOOLEAN
  /\ tip \in Works

ConnectionInit ==
  /\ CONNECTED = FALSE
  /\ ERROR_HANDLE = FALSE
  /\ INCOMING = NoPacket
  /\ link = "down"
  /\ toPool = <<>>
  /\ toClient = <<>>
  /\ loggedIn = FALSE
  /\ tip = 1

-----------------------------------------------------------------------------
(* Connect(), which succeeds, and the first request on the new link.       *)
(* INCOMING is not reset: what an earlier link left there stays.           *)
ConnectAndWrite(m) ==
  /\ CONNECTED' = TRUE
  /\ ERROR_HANDLE' = FALSE
  /\ link' = "up"
  /\ toPool' = <<m>>
  /\ toClient' = <<>>
  /\ loggedIn' = FALSE
  /\ UNCHANGED <<INCOMING, tip>>

(* Disconnect(): shutdown() overwrites ERROR_HANDLE with its own outcome.  *)
Disconnect ==
  /\ INCOMING' = NoPacket
  /\ CONNECTED' = FALSE
  /\ IF CONNECTED
     THEN /\ ERROR_HANDLE' \in {FALSE, link = "down"}
          /\ link' = "down"
          /\ toPool' = <<>>
          /\ toClient' = <<>>
          /\ loggedIn' = FALSE
     ELSE UNCHANGED <<ERROR_HANDLE, link, toPool, toClient, loggedIn>>
  /\ UNCHANGED tip

(* Connect(), which fails: connect() reports an error, or resolve() throws *)
(* and ERROR_HANDLE keeps its value.  Both end in Disconnect().            *)
ConnectFails ==
  /\ INCOMING' = NoPacket
  /\ CONNECTED' = FALSE
  /\ ERROR_HANDLE' \in {TRUE, ERROR_HANDLE}
  /\ link' = "down"
  /\ toPool' = <<>>
  /\ toClient' = <<>>
  /\ loggedIn' = FALSE
  /\ UNCHANGED tip

(* WritePacket(): nothing while an error is pending; an error on a closed  *)
(* socket; on a link the pool has closed the packet is lost, and the       *)
(* socket may or may not know it yet.                                      *)
WritePacket(m) ==
  /\ IF ERROR_HANDLE
     THEN UNCHANGED <<ERROR_HANDLE, link, toPool, loggedIn>>
     ELSE IF ~ CONNECTED
     THEN ERROR_HANDLE' = TRUE /\ UNCHANGED <<link, toPool, loggedIn>>
     ELSE IF link = "down"
     THEN ERROR_HANDLE' \in BOOLEAN /\ UNCHANGED <<link, toPool, loggedIn>>
     ELSE IF Len(toPool) < MaxToPool
     THEN /\ toPool' = Append(toPool, m)
          /\ UNCHANGED <<ERROR_HANDLE, link, loggedIn>>
     ELSE /\ link' = "down"
          /\ toPool' = <<>>
          /\ loggedIn' = FALSE
          /\ UNCHANGED ERROR_HANDLE
  /\ UNCHANGED <<CONNECTED, INCOMING, toClient, tip>>

(* ReadNextPacket() returns NextPacket: a complete INCOMING at once, error *)
(* or not, else the next packet from the socket.                           *)
PacketArrives ==
  \/ INCOMING # NoPacket
  \/ CONNECTED /\ ~ ERROR_HANDLE /\ toClient # <<>>

NextPacket == IF INCOMING # NoPacket THEN INCOMING ELSE Head(toClient)

TakePacket(kept) ==
  /\ toClient' = IF INCOMING # NoPacket THEN toClient ELSE Tail(toClient)
  /\ INCOMING' = kept
  /\ UNCHANGED <<CONNECTED, ERROR_HANDLE, link, toPool, loggedIn, tip>>

(* ... followed by ResetPacket(), or left in INCOMING.                     *)
ReadAndReset == PacketArrives /\ TakePacket(NoPacket)
ReadAndKeep  == PacketArrives /\ TakePacket(NextPacket)

(* ReadNextPacket() returns the null packet: Timeout() or Errors().  The   *)
(* packet it waits for may be on its way all the same.                     *)
ReadTimesOut == INCOMING = NoPacket

-----------------------------------------------------------------------------
(* The pool (external): what it may answer to each request.  It judges a   *)
(* share by the nonce solving the template named and by the template being *)
(* of the current height.  A verdict is shown with the share it judges,    *)
(* which the packet itself does not name.                                  *)
Answers(m) ==
  CASE m.header = "PING"      -> {<<Request("PING")>>}
    [] m.header = "LOGIN"     -> {<<Request("LOGIN_SUCCESS")>>,
                                  <<Request("LOGIN_SUCCESS"), BLOCK_DATA(tip)>>,
                                  <<Request("LOGIN_FAIL")>>}
    [] m.header = "GET_BLOCK" -> {<<BLOCK_DATA(tip)>>}
    [] OTHER -> {<<Packet(IF m.nonce = m.work /\ Height[m.work] = Height[tip]
                          THEN "GOOD" ELSE "FAIL", m.work, m.nonce)>>}

PoolAnswers ==
  /\ link = "up"
  /\ toPool # <<>>
  /\ \E a \in Answers(Head(toPool)) :
       /\ Len(toClient) + Len(a) <= MaxToClient
       /\ toClient' = toClient \o a
       /\ loggedIn' = (loggedIn \/ a[1].header = "LOGIN_SUCCESS")
  /\ toPool' = Tail(toPool)
  /\ UNCHANGED <<clientVars, link, tip>>

(* A new template: pushed to a logged-in miner without being asked for.    *)
PoolHasNewWork ==
  /\ tip < MaxWork
  /\ tip' = tip + 1
  /\ IF loggedIn
     THEN /\ Len(toClient) < MaxToClient
          /\ toClient' = Append(toClient, BLOCK_DATA(tip + 1))
     ELSE UNCHANGED toClient
  /\ UNCHANGED <<clientVars, link, toPool, loggedIn>>

(* The pool or the network closes the link; what already reached the       *)
(* client's socket can still be read.                                      *)
LinkDrops ==
  /\ link = "up"
  /\ link' = "down"
  /\ toPool' = <<>>
  /\ loggedIn' = FALSE
  /\ UNCHANGED <<clientVars, toClient, tip>>

PoolStep == PoolAnswers \/ PoolHasNewWork \/ LinkDrops

=============================================================================
