---------------------------- MODULE TimeoutSerial ----------------------------
(***************************************************************************)
(* TimeoutSerial::readStringUntil: a read with a timeout made of an        *)
(* asynchronous read, an asynchronous timer and one io_service that runs   *)
(* their handlers, one per run_one().  Module MinerThread takes such a     *)
(* read to be atomic, a message or a timeout.                              *)
(*                                                                         *)
(* A handler that is queued can no longer be cancelled: it runs in the     *)
(* next call, with the outcome it was queued with.  So does the handler of *)
(* a cancelled operation, with an error that the code ignores.             *)
(*                                                                         *)
(* A message of the device is two pieces, its text and its delimiter;      *)
(* the port hands over the pieces that have arrived, however many.         *)
(***************************************************************************)
EXTENDS Integers, Sequences

CONSTANTS
  MaxMessages,  \* BOUND: messages of the device
  MaxReads      \* BOUND: calls of readStringUntil

ASSUME SerialAssumption == MaxMessages \in Nat /\ MaxReads \in Nat

VARIABLES
  arrived,   \* how many pieces the device has sent
  tty,       \* the pieces that wait in the port
  readData,  \* the pieces read and not yet returned
  reading,   \* whether a read waits in the port
  timer,     \* the call whose timer is running, or 0
  queue,     \* the handlers that are ready to run
  result,    \* the outcome, written by the handlers
  reader,        \* "idle", or "loop" inside readStringUntil
  call,      \* the number of the current or the last call
  returned,  \* the messages returned
  overlap,   \* whether two reads have been under way at once
  threw      \* what the last call threw: "nothing", "timeout", "early", "error"

serialVars == <<arrived, tty, readData, reading, timer, queue, result, reader, call,
          returned, overlap, threw>>
device == <<arrived, tty>>

Piece(i) == [message |-> (i + 1) \div 2, delim |-> i % 2 = 0]

ReadHandler(data)    == [kind |-> "read", data |-> data, error |-> FALSE, call |-> 0]
ReadCancelled        == [kind |-> "read", data |-> <<>>, error |-> TRUE, call |-> 0]
ReadFailed           == [kind |-> "failed", data |-> <<>>, error |-> TRUE, call |-> 0]
TimerHandler(n, err) == [kind |-> "timer", data |-> <<>>, error |-> err, call |-> n]

Delims(s) == {i \in 1 .. Len(s) : s[i].delim}
HasDelim(s) == Delims(s) # {}
FirstDelim(s) == CHOOSE i \in Delims(s) : \A j \in Delims(s) : i <= j

(* A queued read that was not cancelled before it completed.               *)
Uncancelled == \E i \in 1 .. Len(queue) : queue[i].kind = "read" /\ ~ queue[i].error

SerialInit ==
  /\ arrived = 0
  /\ tty = <<>>
  /\ readData = <<>>
  /\ reading = FALSE
  /\ timer = 0
  /\ queue = <<>>
  /\ result = "none"
  /\ reader = "idle"
  /\ call = 0
  /\ returned = <<>>
  /\ overlap = FALSE
  /\ threw = "nothing"

-----------------------------------------------------------------------------
(* The device, the port and the timer (external).                          *)
DeviceSends ==
  /\ arrived < 2 * MaxMessages
  /\ arrived' = arrived + 1
  /\ tty' = Append(tty, Piece(arrived + 1))
  /\ UNCHANGED <<readData, reading, timer, queue, result, reader, call, returned, overlap, threw>>

PortDelivers ==
  /\ reader = "loop" /\ reading /\ tty # <<>>
  /\ queue' = Append(queue, ReadHandler(tty))
  /\ tty' = <<>>
  /\ reading' = FALSE
  /\ UNCHANGED <<arrived, readData, timer, result, reader, call, returned, overlap, threw>>

PortFails ==
  /\ reader = "loop" /\ reading
  /\ queue' = Append(queue, ReadFailed)
  /\ reading' = FALSE
  /\ UNCHANGED <<device, readData, timer, result, reader, call, returned, overlap, threw>>

TimerExpires ==
  /\ reader = "loop" /\ timer # 0
  /\ queue' = Append(queue, TimerHandler(timer, FALSE))
  /\ timer' = 0
  /\ UNCHANGED <<device, readData, reading, result, reader, call, returned, overlap, threw>>

-----------------------------------------------------------------------------
(* performReadSetup: async_read_until completes at once when readData has  *)
(* a delimiter.  A cancelled wait on the timer is queued by                *)
(* expires_from_now().                                                     *)
performReadSetup(q) ==
  IF HasDelim(readData)
  THEN queue' = Append(q, ReadHandler(<<>>)) /\ UNCHANGED reading
  ELSE queue' = q /\ reading' = TRUE

TimerCancelled(q) == IF timer = 0 THEN q ELSE Append(q, TimerHandler(timer, TRUE))

(* Mutant: no timeout is taken literally.                                  *)
BeginReadForEver ==
  /\ reader = "idle" /\ call < MaxReads /\ ~ overlap
  /\ ~ reading /\ ~ Uncancelled
  /\ performReadSetup(TimerCancelled(queue))
  /\ timer' = 0
  /\ result' = "resultInProgress"
  /\ reader' = "loop"
  /\ call' = call + 1
  /\ threw' = "nothing"
  /\ UNCHANGED <<device, readData, returned, overlap>>

(* The first half of readStringUntil.  A read that is still under way from *)
(* an earlier call shares readData with this one.                          *)
BeginRead ==
  /\ reader = "idle" /\ call < MaxReads /\ ~ overlap
  /\ ~ reading /\ ~ Uncancelled
  /\ performReadSetup(TimerCancelled(queue))
  /\ timer' = call + 1
  /\ result' = "resultInProgress"
  /\ reader' = "loop"
  /\ call' = call + 1
  /\ threw' = "nothing"
  /\ UNCHANGED <<device, readData, returned, overlap>>

BeginOverlappingRead ==
  /\ reader = "idle" /\ call < MaxReads /\ ~ overlap
  /\ reading \/ Uncancelled
  /\ overlap' = TRUE
  /\ UNCHANGED <<device, readData, reading, timer, queue, result, reader, call, returned, threw>>

(* Two reads into one buffer: whatever it then holds is returned.          *)
ReadGarbage ==
  /\ overlap /\ call < MaxReads
  /\ call' = call + 1
  /\ \E m \in 0 .. MaxMessages : returned' = Append(returned, m)
  /\ UNCHANGED <<device, readData, reading, timer, queue, result, reader, overlap, threw>>

-----------------------------------------------------------------------------
(* The three ways out of the loop.                                         *)
(* Mutant: the delimiter stays in readData.                                *)
ReturnKeepsDelim(q, data) ==
  /\ queue' = TimerCancelled(q) /\ timer' = 0
  /\ returned' = Append(returned, data[1].message)
  /\ readData' = SubSeq(data, FirstDelim(data), Len(data))
  /\ reader' = "idle"
  /\ UNCHANGED <<reading, threw>>

Return(q, data) ==
  /\ queue' = TimerCancelled(q) /\ timer' = 0
  /\ returned' = Append(returned, data[1].message)
  /\ readData' = SubSeq(data, FirstDelim(data) + 1, Len(data))
  /\ reader' = "idle"
  /\ UNCHANGED <<reading, threw>>

PortCancelled(q) == IF reading THEN Append(q, ReadCancelled) ELSE q

ThrowTimeout(q, n) ==
  /\ queue' = PortCancelled(q) /\ reading' = FALSE
  /\ threw' = IF n = call THEN "timeout" ELSE "early"
  /\ reader' = "idle"
  /\ UNCHANGED <<timer, readData, returned>>

ThrowError(q) ==
  /\ queue' = PortCancelled(TimerCancelled(q))
  /\ timer' = 0 /\ reading' = FALSE
  /\ threw' = "error"
  /\ reader' = "idle"
  /\ UNCHANGED <<readData, returned>>

StayInLoop(q) ==
  /\ queue' = q
  /\ UNCHANGED <<reading, timer, readData, returned, threw, reader, result>>

(* timeoutExpired, run by run_one(), and the switch after it.  The handler *)
(* does not know which call's timer it belongs to.                         *)
timeoutExpired ==
  /\ reader = "loop" /\ queue # <<>> /\ Head(queue).kind = "timer"
  /\ IF Head(queue).error
     THEN StayInLoop(Tail(queue))
     ELSE result' = "resultTimeoutExpired" /\ ThrowTimeout(Tail(queue), Head(queue).call)
  /\ UNCHANGED <<device, call, overlap>>

(* The read's own handler: data without a delimiter makes it read on, else *)
(* readCompleted is called; an operation cancelled is ignored, any other   *)
(* error ends the call.                                                    *)
readMore ==
  /\ reader = "loop" /\ queue # <<>> /\ Head(queue).kind = "read" /\ ~ Head(queue).error
  /\ LET data == readData \o Head(queue).data
     IN /\ ~ HasDelim(data)
        /\ readData' = data
  /\ reading' = TRUE
  /\ queue' = Tail(queue)
  /\ UNCHANGED <<device, timer, result, reader, call, returned, overlap, threw>>

readCompleted ==
  /\ reader = "loop" /\ queue # <<>> /\ Head(queue).kind # "timer"
  /\ LET h    == Head(queue)
         data == readData \o h.data
     IN \/ /\ ~ h.error /\ HasDelim(data)
           /\ result' = "resultSuccess"
           /\ Return(Tail(queue), data)
        \/ h.error /\ h.kind = "read" /\ StayInLoop(Tail(queue))
        \/ /\ h.kind = "failed"
           /\ result' = "resultError"
           /\ ThrowError(Tail(queue))
  /\ UNCHANGED <<device, call, overlap>>

Handlers == timeoutExpired \/ readMore \/ readCompleted

SerialNext ==
  \/ DeviceSends \/ PortDelivers \/ PortFails \/ TimerExpires
  \/ BeginRead \/ BeginOverlappingRead \/ ReadGarbage
  \/ Handlers

(* run_one() runs a handler whenever one is queued, and the timer of a     *)
(* call, which is always set, runs out.                                    *)
SerialFairness == WF_serialVars(Handlers) /\ WF_serialVars(TimerExpires)

SerialSpec == SerialInit /\ [][SerialNext]_serialVars
SerialFairSpec == SerialSpec /\ SerialFairness

-----------------------------------------------------------------------------
(* Whatever the port, the timer and leftover handlers do, a call comes     *)
(* back: "there should always be a timeout" (TimeoutSerial.cpp:104).       *)
ReadReturns == reader = "loop" ~> reader = "idle"

(* The strings returned are the device's messages, whole and in order,     *)
(* also when reads before them gave up in the middle of a message or left  *)
(* cancelled handlers behind (readStringUntil, readCompleted); until a     *)
(* completed read is left behind by a timeout and the next one overlaps it.*)
Line == INSTANCE SerialLine WITH written <- arrived \div 2
ReadsMessages == Line!Spec

=============================================================================
