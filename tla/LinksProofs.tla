------------------------------ MODULE LinksProofs ------------------------------
(***************************************************************************)
(* The two links that carry bytes.  For the serial line: TimeoutSerial     *)
(* implements SerialLine for any number of messages and of calls; timeouts,*)
(* failures and the handlers they leave behind neither lose, repeat,       *)
(* reorder nor split a message.  For the TCP link: NoByteLost, and the     *)
(* safety part of the refinement of PacketChannel, for packets of any      *)
(* number and length, length headers of any width and deliveries cut       *)
(* anywhere.                                                               *)
(***************************************************************************)
EXTENDS Links, SharedLemmas

(***************************************************************************)
(* The serial line.                                                        *)
(***************************************************************************)
(* The pieces of the device from the one after lo, n of them.              *)
Segment(lo, n) == [i \in 1 .. n |-> Piece(lo + i)]

Pieces   == [message : Int, delim : BOOLEAN]
Handler  == { h \in [kind : {"read", "failed", "timer"}, data : Seq(Pieces),
                     error : BOOLEAN, call : Nat] : h.kind = "failed" => h.error }

(* A read that completed with data: where pieces wait to be returned.      *)
Live(h)    == h.kind = "read" /\ ~ h.error
NoRead(q)  == \A i \in 1 .. Len(q) : ~ Live(q[i])
OneRead(q, d) == \E i \in 1 .. Len(q) : /\ Live(q[i]) /\ q[i].data = d
                                        /\ \A j \in 1 .. Len(q) : Live(q[j]) => j = i

Types ==
  /\ arrived \in Nat /\ timer \in Nat /\ call \in Nat
  /\ reading \in BOOLEAN /\ overlap \in BOOLEAN
  /\ queue \in Seq(Handler)
  /\ returned \in Seq(Nat)
  /\ reader \in {"idle", "loop"}

(* What the device has sent is, in order, two pieces for each message      *)
(* returned, then what is in readData, in the one completed read, if any,  *)
(* and in the port.                                                        *)
Base == 2 * Len(returned)

Cut(a, b) ==
  /\ Base + a + b <= arrived
  /\ readData = Segment(Base, a)
  /\ \/ NoRead(queue) /\ b = 0
     \/ OneRead(queue, Segment(Base + a, b)) /\ ~ reading
  /\ tty = Segment(Base + a + b, arrived - Base - a - b)

Stream == \E a, b \in Nat : Cut(a, b)

(* Once two reads have overlapped no handler runs any more.                *)
SerialInv == /\ Types
             /\ overlap => reader = "idle"
             /\ ~ overlap => Stream

-----------------------------------------------------------------------------
(* Segments.                                                               *)
LEMMA SegmentSeq ==
  ASSUME NEW lo \in Nat, NEW n \in Nat
  PROVE  /\ Segment(lo, n) \in Seq(Pieces) /\ Len(Segment(lo, n)) = n
         /\ \A i \in 1 .. n : Segment(lo, n)[i] = Piece(lo + i)
  BY DEF Segment, Pieces, Piece

LEMMA SegmentEmpty == ASSUME NEW lo \in Nat PROVE Segment(lo, 0) = <<>>
  BY DEF Segment

LEMMA SegmentConcat ==
  ASSUME NEW lo \in Nat, NEW m \in Nat, NEW n \in Nat
  PROVE  Segment(lo, m) \o Segment(lo + m, n) = Segment(lo, m + n)
  BY DEF Segment

LEMMA SegmentAppend ==
  ASSUME NEW lo \in Nat, NEW n \in Nat
  PROVE  Append(Segment(lo, n), Piece(lo + n + 1)) = Segment(lo, n + 1)
  BY DEF Segment

LEMMA SegmentRest ==
  ASSUME NEW lo \in Nat, NEW n \in Nat, n >= 2
  PROVE  SubSeq(Segment(lo, n), 3, n) = Segment(lo + 2, n - 2)
  BY DEF Segment

(* From an even place on, every second piece is a delimiter.               *)
LEMMA SegmentDelim ==
  ASSUME NEW k \in Nat, NEW n \in Nat
  PROVE  LET s == Segment(2 * k, n) IN
         /\ HasDelim(s) <=> n >= 2
         /\ n >= 2 => FirstDelim(s) = 2 /\ s[1].message = k + 1
<1> DEFINE s == Segment(2 * k, n)
<1>1. Len(s) = n /\ \A i \in 1 .. n : s[i] = Piece(2 * k + i)
  BY SegmentSeq
<1>2. \A i \in Nat : Piece(2 * k + i).delim <=> i % 2 = 0
  <2>1. \A i \in Nat : (2 * k + i) % 2 = i % 2
    OBVIOUS
  <2>2. \A i \in Nat : Piece(i).delim <=> i % 2 = 0
    BY DEF Piece
  <2>3. \A i \in Nat : 2 * k + i \in Nat
    OBVIOUS
  <2> QED
    BY <2>1, <2>2, <2>3
<1>3. Piece(2 * k + 1).message = k + 1
  BY DEF Piece
<1> HIDE DEF s
<1>4. Delims(s) = {i \in 1 .. n : i % 2 = 0}
  <2>1. \A i \in 1 .. n : s[i].delim <=> i % 2 = 0
    <3> TAKE i \in 1 .. n
    <3>1. s[i] = Piece(2 * k + i) /\ i \in Nat
      BY <1>1
    <3> QED
      BY <1>2, <3>1, Zenon
  <2> QED
    BY <1>1, <2>1 DEF Delims
<1>5. n >= 2 => 2 \in Delims(s) /\ \A j \in Delims(s) : 2 <= j
  BY <1>4
<1>6. HasDelim(s) <=> n >= 2
  BY <1>4, <1>5 DEF HasDelim
<1>7. ASSUME n >= 2 PROVE FirstDelim(s) = 2
  <2>1. \A i \in Delims(s) : (\A j \in Delims(s) : i <= j) => i = 2
    BY <1>4, <1>5, <1>7
  <2> QED
    BY <1>5, <1>7, <2>1 DEF FirstDelim
<1> QED
  BY <1>1, <1>3, <1>6, <1>7 DEF s

-----------------------------------------------------------------------------
(* The queue.                                                              *)
LEMMA QueueAppend ==
  ASSUME NEW q \in Seq(Handler), NEW h \in Handler, NEW d
  PROVE  /\ Append(q, h) \in Seq(Handler)
         /\ NoRead(q) /\ ~ Live(h) => NoRead(Append(q, h))
         /\ NoRead(q) /\ Live(h) => OneRead(Append(q, h), h.data)
         /\ OneRead(q, d) /\ ~ Live(h) => OneRead(Append(q, h), d)
  BY DEF NoRead, OneRead

LEMMA QueueTail ==
  ASSUME NEW q \in Seq(Handler), q # <<>>, NEW d
  PROVE  /\ Tail(q) \in Seq(Handler) /\ Head(q) \in Handler
         /\ NoRead(q) => ~ Live(Head(q)) /\ NoRead(Tail(q))
         /\ OneRead(q, d) /\ ~ Live(Head(q)) => OneRead(Tail(q), d)
         /\ OneRead(q, d) /\ Live(Head(q)) => Head(q).data = d /\ NoRead(Tail(q))
  BY DEF NoRead, OneRead

-----------------------------------------------------------------------------
(* The steps.                                                              *)
LEMMA HandlersAreHandlers ==
  /\ \A d \in Seq(Pieces) : ReadHandler(d) \in Handler /\ Live(ReadHandler(d))
                          /\ ReadHandler(d).data = d
  /\ ReadCancelled \in Handler /\ ~ Live(ReadCancelled)
  /\ ReadFailed \in Handler /\ ~ Live(ReadFailed)
  /\ \A n \in Nat, e \in BOOLEAN : TimerHandler(n, e) \in Handler /\ ~ Live(TimerHandler(n, e))
<1>1. <<>> \in Seq(Pieces)
  OBVIOUS
<1> QED
  BY <1>1 DEF ReadHandler, ReadCancelled, ReadFailed, TimerHandler, Handler, Live

LEMMA SerialInitInv == SerialInit => SerialInv
<1> SUFFICES ASSUME SerialInit PROVE SerialInv
  OBVIOUS
<1>1. queue \in Seq(Handler) /\ returned \in Seq(Nat)
  BY DEF SerialInit
<1>2. Types
  BY <1>1 DEF SerialInit, Types
<1>3. Base = 0 /\ NoRead(queue)
  BY DEF SerialInit, NoRead, Base
<1>4. Cut(0, 0)
  BY <1>3, SegmentEmpty DEF SerialInit, Cut
<1> QED
  BY <1>2, <1>4 DEF SerialInv, SerialInit, Stream

(* A step that leaves the pieces and their reads where they are, but may   *)
(* queue handlers or take some away that carry nothing.                    *)
LEMMA CutKept ==
  ASSUME NEW a \in Nat, NEW b \in Nat, Cut(a, b),
         UNCHANGED <<arrived, tty, readData, returned>>,
         reading' => reading \/ NoRead(queue),
         NoRead(queue) => NoRead(queue'),
         \A d : OneRead(queue, d) => OneRead(queue', d)
  PROVE  Cut(a, b)'
<1>1. Base' = Base
  BY DEF Base
<1>2. \/ NoRead(queue') /\ b = 0
      \/ OneRead(queue', Segment(Base + a, b)) /\ ~ reading'
  <2>1. \A d : ~ (NoRead(queue) /\ OneRead(queue, d))
    BY DEF NoRead, OneRead
  <2> QED
    BY <2>1 DEF Cut
<1> QED
  BY <1>1, <1>2 DEF Cut

(* The device and the port.                                                *)
LEMMA DeviceSendsInv == ASSUME SerialInv, DeviceSends PROVE SerialInv'
<1>1. Types'
  BY DEF DeviceSends, SerialInv, Types
<1>2. ASSUME NEW a \in Nat, NEW b \in Nat, Cut(a, b) PROVE Cut(a, b)'
  <2>1. Base \in Nat /\ arrived \in Nat /\ Base' = Base
    BY DEF SerialInv, Types, Base, DeviceSends
  <2>2. /\ Base + a + b \in Nat /\ arrived - Base - a - b \in Nat
        /\ (Base + a + b) + (arrived - Base - a - b) + 1 = arrived + 1
        /\ arrived' - Base - a - b = (arrived - Base - a - b) + 1
        /\ Base + a + b <= arrived'
    BY <1>2, <2>1 DEF Cut, DeviceSends
  <2>3. tty' = Append(tty, Piece(arrived + 1)) /\ tty = Segment(Base + a + b, arrived - Base - a - b)
    BY <1>2 DEF DeviceSends, Cut
  <2>4. tty' = Segment(Base + a + b, arrived' - Base - a - b)
    BY <2>2, <2>3, SegmentAppend
  <2> QED
    BY <1>2, <2>1, <2>2, <2>4 DEF Cut, DeviceSends
<1> QED
  BY <1>1, <1>2 DEF SerialInv, DeviceSends, Stream

(* What has arrived in the port is handed to the read that waits for it.   *)
LEMMA PortDeliversInv == ASSUME SerialInv, PortDelivers PROVE SerialInv'
<1>1. ~ overlap /\ ~ overlap' /\ reading /\ ~ reading'
  BY DEF SerialInv, PortDelivers, Types
<1>2. PICK a \in Nat, b \in Nat : Cut(a, b)
  BY <1>1 DEF SerialInv, Stream
<1>3. /\ Base \in Nat /\ arrived \in Nat /\ queue \in Seq(Handler)
      /\ Base' = Base /\ arrived' = arrived /\ readData' = readData
  BY DEF SerialInv, Types, Base, PortDelivers
<1>4. NoRead(queue) /\ b = 0
  BY <1>1, <1>2 DEF Cut
<1>5. PICK n \in Nat : n = arrived - Base - a
  BY <1>2, <1>3, <1>4 DEF Cut
<1>14. /\ arrived - Base - a - n = 0 /\ Base + a \in Nat
       /\ Base + a + n <= arrived /\ Base + a + n \in Nat
  BY <1>2, <1>3, <1>5
<1>6. tty = Segment(Base + a, n)
  BY <1>2, <1>3, <1>4, <1>5 DEF Cut
<1>7. tty \in Seq(Pieces)
  BY <1>6, <1>14, SegmentSeq
<1>8. ReadHandler(tty) \in Handler /\ Live(ReadHandler(tty)) /\ ReadHandler(tty).data = tty
  BY <1>7, HandlersAreHandlers
<1>9. queue' = Append(queue, ReadHandler(tty)) /\ tty' = <<>>
  BY DEF PortDelivers
<1>10. OneRead(queue', Segment(Base + a, n)) /\ queue' \in Seq(Handler)
  BY <1>3, <1>4, <1>6, <1>8, <1>9, QueueAppend
<1>11. tty' = Segment(Base + a + n, 0)
  BY <1>9, <1>14, SegmentEmpty
<1>12. Cut(a, n)'
  BY <1>1, <1>2, <1>3, <1>10, <1>11, <1>14 DEF Cut
<1>13. Types'
  BY <1>10 DEF PortDelivers, SerialInv, Types
<1> QED
  BY <1>1, <1>12, <1>13 DEF SerialInv, Stream

(* What may be appended to the queue or taken off its head without any     *)
(* piece in it.                                                            *)
Idle(q) == /\ q \in Seq(Handler)
           /\ NoRead(queue) => NoRead(q)
           /\ \A d : OneRead(queue, d) => OneRead(q, d)

LEMMA IdleQueues ==
  ASSUME SerialInv
  PROVE  /\ Idle(queue)
         /\ queue # <<>> /\ ~ Live(Head(queue)) => Idle(Tail(queue))
         /\ \A q : Idle(q) => Idle(TimerCancelled(q)) /\ Idle(PortCancelled(q))
         /\ \A h \in Handler : ~ Live(h) => Idle(Append(queue, h))
<1>1. queue \in Seq(Handler) /\ timer \in Nat /\ reading \in BOOLEAN
  BY DEF SerialInv, Types
<1>2. \A q, h : Idle(q) /\ h \in Handler /\ ~ Live(h) => Idle(Append(q, h))
  BY QueueAppend DEF Idle
<1>3. /\ ReadCancelled \in Handler /\ ~ Live(ReadCancelled)
      /\ TimerHandler(timer, TRUE) \in Handler /\ ~ Live(TimerHandler(timer, TRUE))
  BY <1>1, HandlersAreHandlers
<1>4. Idle(queue)
  BY <1>1 DEF Idle
<1>5. queue # <<>> /\ ~ Live(Head(queue)) => Idle(Tail(queue))
  BY <1>1, QueueTail DEF Idle
<1> QED
  BY <1>2, <1>3, <1>4, <1>5 DEF TimerCancelled, PortCancelled

LEMMA QuietLineInv ==
  ASSUME SerialInv, Types', ~ overlap,
         UNCHANGED <<arrived, tty, readData, returned, overlap>>,
         reading' => reading \/ NoRead(queue),
         Idle(queue')
  PROVE  SerialInv'
<1>1. PICK a \in Nat, b \in Nat : Cut(a, b)
  BY DEF SerialInv, Stream
<1>2. Cut(a, b)'
  BY <1>1, CutKept DEF Idle
<1> QED
  BY <1>2 DEF SerialInv, Stream

(* A failing port and a timer that runs out queue a handler.               *)
LEMMA EventInv == ASSUME SerialInv, PortFails \/ TimerExpires PROVE SerialInv'
<1>1. /\ ~ overlap /\ UNCHANGED <<arrived, tty, readData, returned, overlap, reader, call>>
  BY DEF SerialInv, Types, PortFails, TimerExpires, device
<1>5. reading' \in BOOLEAN /\ (reading' => reading)
  <2>1. CASE PortFails
    BY <2>1 DEF PortFails
  <2>2. CASE TimerExpires
    BY <2>2 DEF TimerExpires, SerialInv, Types
  <2> QED
    BY <2>1, <2>2
<1>6. timer' \in Nat
  <2>1. timer' = timer \/ timer' = 0
    BY DEF PortFails, TimerExpires
  <2>2. timer \in Nat
    BY DEF SerialInv, Types
  <2> QED
    BY <2>1, <2>2
<1>2. \E h \in Handler : ~ Live(h) /\ queue' = Append(queue, h)
  <2>1. /\ ReadFailed \in Handler /\ ~ Live(ReadFailed)
        /\ TimerHandler(timer, FALSE) \in Handler /\ ~ Live(TimerHandler(timer, FALSE))
    BY HandlersAreHandlers DEF SerialInv, Types
  <2> QED
    BY <2>1 DEF PortFails, TimerExpires
<1>3. Idle(queue')
  BY <1>2, IdleQueues
<1>4. Types'
  BY <1>1, <1>3, <1>5, <1>6 DEF Idle, SerialInv, Types
<1> QED
  BY <1>1, <1>3, <1>4, <1>5, QuietLineInv

(* A call of readStringUntil begins: it finds no completed read, and       *)
(* starts one that is complete at once if readData holds a message.        *)
LEMMA BeginReadInv == ASSUME SerialInv, BeginRead PROVE SerialInv'
<1> DEFINE q == TimerCancelled(queue)
<1>1. /\ ~ overlap /\ ~ reading /\ NoRead(queue) /\ queue \in Seq(Handler)
      /\ UNCHANGED <<arrived, tty, readData, returned, overlap>>
  BY DEF BeginRead, Uncancelled, NoRead, Live, SerialInv, Types, device
<1>2. Idle(q) /\ NoRead(q) /\ q \in Seq(Handler)
  BY <1>1, IdleQueues DEF Idle
<1> HIDE DEF q
<1>3. performReadSetup(q)
  BY DEF BeginRead, q
<1>4. CASE ~ HasDelim(readData)
  <2>1. queue' = q /\ reading' = TRUE
    BY <1>3, <1>4 DEF performReadSetup
  <2>2. Types'
    BY <1>1, <1>2, <2>1 DEF BeginRead, SerialInv, Types
  <2> QED
    BY <1>1, <1>2, <2>1, <2>2, QuietLineInv
<1>5. CASE HasDelim(readData)
  <2>1. queue' = Append(q, ReadHandler(<<>>)) /\ reading' = reading
    BY <1>3, <1>5 DEF performReadSetup
  <2>2. ReadHandler(<<>>) \in Handler /\ Live(ReadHandler(<<>>)) /\ ReadHandler(<<>>).data = <<>>
    <3>1. <<>> \in Seq(Pieces)
      OBVIOUS
    <3> QED
      BY <3>1, HandlersAreHandlers
  <2>3. OneRead(queue', <<>>) /\ queue' \in Seq(Handler)
    BY <1>2, <2>1, <2>2, QueueAppend
  <2>4. PICK a \in Nat, b \in Nat : Cut(a, b)
    BY <1>1 DEF SerialInv, Stream
  <2>5. b = 0
    BY <1>1, <2>4 DEF Cut, NoRead, OneRead
  <2>6. Base + a \in Nat /\ Base' = Base
    BY <1>1 DEF SerialInv, Types, Base
  <2>7. Segment(Base + a, 0) = <<>>
    BY <2>6, SegmentEmpty
  <2>8. Cut(a, 0)'
    BY <1>1, <2>1, <2>3, <2>4, <2>5, <2>6, <2>7 DEF Cut
  <2>9. Types'
    BY <1>1, <2>1, <2>3 DEF BeginRead, SerialInv, Types
  <2> QED
    BY <1>1, <2>8, <2>9 DEF SerialInv, Stream
<1> QED
  BY <1>4, <1>5

(* Handlers that carry nothing: a timer's, a cancelled read's, an error's. *)
LEMMA EmptyHandlerInv ==
  ASSUME SerialInv, reader = "loop", queue # <<>>, ~ Live(Head(queue)),
         UNCHANGED <<device, readData, returned, call, overlap>>,
         \/ StayInLoop(Tail(queue))
         \/ ThrowTimeout(Tail(queue), Head(queue).call)
         \/ ThrowError(Tail(queue))
  PROVE  SerialInv'
<1>1. ~ overlap /\ UNCHANGED <<arrived, tty, readData, returned, overlap>>
  BY DEF SerialInv, Types, device
<1>2. Idle(Tail(queue))
  BY IdleQueues
<1>3. Idle(queue')
  BY <1>2, IdleQueues DEF StayInLoop, ThrowTimeout, ThrowError
<1>4. reading' \in BOOLEAN /\ (reading' => reading)
  <2>1. CASE StayInLoop(Tail(queue))
    BY <2>1 DEF StayInLoop, SerialInv, Types
  <2>2. CASE ThrowTimeout(Tail(queue), Head(queue).call) \/ ThrowError(Tail(queue))
    BY <2>2 DEF ThrowTimeout, ThrowError
  <2> QED
    BY <2>1, <2>2
<1>5. timer' \in Nat /\ reader' \in {"idle", "loop"}
  BY DEF StayInLoop, ThrowTimeout, ThrowError, SerialInv, Types
<1>6. Types'
  BY <1>1, <1>3, <1>4, <1>5 DEF Idle, SerialInv, Types
<1> QED
  BY <1>1, <1>3, <1>4, <1>6, QuietLineInv

LEMMA timeoutExpiredInv == ASSUME SerialInv, timeoutExpired PROVE SerialInv'
<1>1. /\ reader = "loop" /\ queue # <<>> /\ ~ Live(Head(queue))
      /\ StayInLoop(Tail(queue)) \/ ThrowTimeout(Tail(queue), Head(queue).call)
  BY DEF timeoutExpired, Live
<1>2. UNCHANGED <<device, readData, returned, call, overlap>>
  BY <1>1 DEF timeoutExpired, StayInLoop, ThrowTimeout
<1> QED
  BY <1>1, <1>2, EmptyHandlerInv

(* A completed read: the pieces it carries continue those in readData.     *)
LEMMA LiveHead ==
  ASSUME SerialInv, reader = "loop", queue # <<>>, Live(Head(queue))
  PROVE  \E n \in Nat :
           /\ Base + n <= arrived
           /\ readData \o Head(queue).data = Segment(Base, n)
           /\ NoRead(Tail(queue)) /\ ~ reading
           /\ tty = Segment(Base + n, arrived - Base - n)
<1>1. ~ overlap /\ queue \in Seq(Handler) /\ Base \in Nat /\ arrived \in Nat
  BY DEF SerialInv, Types, Base
<1>2. PICK a \in Nat, b \in Nat : Cut(a, b)
  BY <1>1 DEF SerialInv, Stream
<1>3. ~ NoRead(queue)
  BY <1>1, QueueTail
<1>4. /\ OneRead(queue, Segment(Base + a, b)) /\ ~ reading
      /\ readData = Segment(Base, a)
      /\ Base + a + b <= arrived
      /\ tty = Segment(Base + a + b, arrived - Base - a - b)
  BY <1>2, <1>3 DEF Cut
<1>5. Head(queue).data = Segment(Base + a, b) /\ NoRead(Tail(queue))
  BY <1>1, <1>4, QueueTail
<1>6. PICK n \in Nat : n = a + b
  OBVIOUS
<1>7. readData \o Head(queue).data = Segment(Base, n)
  <2>1. Segment(Base, a) \o Segment(Base + a, b) = Segment(Base, a + b)
    BY <1>1, SegmentConcat
  <2> QED
    BY <1>4, <1>5, <1>6, <2>1
<1>8. Base + a + b = Base + n /\ arrived - Base - a - b = arrived - Base - n
  BY <1>1, <1>6
<1> QED
  BY <1>4, <1>5, <1>7, <1>8

LEMMA readMoreInv == ASSUME SerialInv, readMore PROVE SerialInv'
<1>1. /\ reader = "loop" /\ queue # <<>> /\ Live(Head(queue))
      /\ readData' = readData \o Head(queue).data
      /\ reading' = TRUE /\ queue' = Tail(queue)
      /\ UNCHANGED <<arrived, tty, returned, overlap, reader, call, timer>>
  BY DEF readMore, Live, device
<1>2. PICK n \in Nat :
         /\ Base + n <= arrived
         /\ readData \o Head(queue).data = Segment(Base, n)
         /\ NoRead(Tail(queue)) /\ ~ reading
         /\ tty = Segment(Base + n, arrived - Base - n)
  BY <1>1, LiveHead
<1>3. Base' = Base /\ Base \in Nat /\ arrived \in Nat
  BY <1>1 DEF Base, SerialInv, Types
<1>4. Base + n = Base + n + 0 /\ arrived - Base - n = arrived - Base - n - 0
  BY <1>2, <1>3
<1>5. Cut(n, 0)'
  BY <1>1, <1>2, <1>3, <1>4 DEF Cut
<1>6. queue' \in Seq(Handler)
  BY <1>1 DEF SerialInv, Types
<1>7. Types'
  BY <1>1, <1>6 DEF SerialInv, Types
<1> QED
  BY <1>1, <1>5, <1>7 DEF SerialInv, Stream

(* readCompleted with a delimiter: the first message is taken off, and it  *)
(* is the one after those returned.                                        *)
LEMMA ReturnInv ==
  ASSUME SerialInv, reader = "loop", queue # <<>>, Live(Head(queue)),
         UNCHANGED <<device, call, overlap>>,
         NEW data, data = readData \o Head(queue).data, HasDelim(data),
         Return(Tail(queue), data)
  PROVE  /\ SerialInv'
         /\ returned' = Append(returned, Len(returned) + 1)
         /\ 2 * Len(returned) + 2 <= arrived
<1>1. PICK n \in Nat :
         /\ Base + n <= arrived
         /\ data = Segment(Base, n)
         /\ NoRead(Tail(queue)) /\ ~ reading
         /\ tty = Segment(Base + n, arrived - Base - n)
  BY LiveHead
<1>2. /\ Len(returned) \in Nat /\ Base = 2 * Len(returned) /\ Base \in Nat /\ arrived \in Nat
      /\ queue \in Seq(Handler) /\ Tail(queue) \in Seq(Handler) /\ timer \in Nat
  BY DEF SerialInv, Types, Base
<1>3. /\ queue' = TimerCancelled(Tail(queue)) /\ timer' = 0
      /\ returned' = Append(returned, data[1].message)
      /\ readData' = SubSeq(data, FirstDelim(data) + 1, Len(data))
      /\ reader' = "idle" /\ reading' = reading
  BY DEF Return
<1>4. n >= 2 /\ FirstDelim(data) = 2 /\ data[1].message = Len(returned) + 1
  BY <1>1, <1>2, SegmentDelim, ZenonT(30)
<1>5. Len(data) = n
  <2>1. Len(Segment(Base, n)) = n
    BY <1>2, SegmentSeq
  <2> QED
    BY <1>1, <2>1
<1>6. returned' = Append(returned, Len(returned) + 1)
  BY <1>3, <1>4
<1>7. returned' \in Seq(Nat) /\ Base' = Base + 2
  BY <1>2, <1>6 DEF Base, SerialInv, Types
<1>8. PICK m \in Nat : m = n - 2
  BY <1>4
<1>9. readData' = Segment(Base', m)
  <2>1. readData' = SubSeq(data, 3, n)
    <3>1. FirstDelim(data) + 1 = 3
      BY ONLY <1>4
    <3> QED
      BY ONLY <1>3, <1>5, <3>1, Zenon
  <2>2. SubSeq(Segment(Base, n), 3, n) = Segment(Base + 2, n - 2)
    BY <1>2, <1>4, SegmentRest
  <2> QED
    BY <1>1, <1>7, <1>8, <2>1, <2>2
<1>10. /\ Base' + m + 0 = Base + n /\ arrived' - Base' - m - 0 = arrived - Base - n
       /\ arrived' = arrived /\ tty' = tty
  BY <1>2, <1>7, <1>8 DEF device
<1>11. NoRead(queue') /\ queue' \in Seq(Handler)
  <2>1. TimerHandler(timer, TRUE) \in Handler /\ ~ Live(TimerHandler(timer, TRUE))
    BY <1>2, HandlersAreHandlers
  <2>2. CASE timer = 0
    BY <1>1, <1>2, <1>3, <2>2 DEF TimerCancelled
  <2>3. CASE timer # 0
    <3>1. queue' = Append(Tail(queue), TimerHandler(timer, TRUE))
      BY <1>3, <2>3 DEF TimerCancelled
    <3>2. /\ NoRead(Append(Tail(queue), TimerHandler(timer, TRUE)))
          /\ Append(Tail(queue), TimerHandler(timer, TRUE)) \in Seq(Handler)
      BY <1>1, <1>2, <2>1, QueueAppend
    <3> QED
      BY <3>1, <3>2
  <2> QED
    BY <2>2, <2>3
<1>12. Cut(m, 0)'
  BY <1>1, <1>9, <1>10, <1>11 DEF Cut
<1>13. Types'
  BY <1>3, <1>7, <1>10, <1>11 DEF SerialInv, Types
<1> QED
  BY <1>1, <1>2, <1>4, <1>6, <1>12, <1>13 DEF SerialInv, Stream

LEMMA readCompletedInv ==
  ASSUME SerialInv, readCompleted
  PROVE  /\ SerialInv'
         /\ \/ UNCHANGED <<arrived, returned, overlap>>
            \/ /\ ~ overlap /\ UNCHANGED <<arrived, overlap>>
               /\ returned' = Append(returned, Len(returned) + 1)
               /\ 2 * Len(returned) + 2 <= arrived
<1> DEFINE data == readData \o Head(queue).data
<1>1. /\ reader = "loop" /\ queue # <<>> /\ UNCHANGED <<device, call, overlap>> /\ ~ overlap
      /\ UNCHANGED <<arrived, overlap>>
  BY DEF readCompleted, device, SerialInv
<1>2. CASE ~ Head(queue).error /\ HasDelim(data) /\ Return(Tail(queue), data)
  <2>1. Head(queue) \in Handler
    BY <1>1, QueueTail DEF SerialInv, Types
  <2>2. Live(Head(queue))
    BY <1>2, <2>1 DEF Live, Handler, readCompleted
  <2> QED
    BY <1>1, <1>2, <2>2, ReturnInv
<1>3. CASE Head(queue).error /\ StayInLoop(Tail(queue))
  BY <1>1, <1>3, EmptyHandlerInv DEF StayInLoop, Live
<1>4. CASE Head(queue).kind = "failed" /\ ThrowError(Tail(queue))
  BY <1>1, <1>4, EmptyHandlerInv DEF ThrowError, Live
<1> QED
  BY <1>2, <1>3, <1>4 DEF readCompleted

-----------------------------------------------------------------------------
(* Two reads at once: nothing is promised any more, and no handler runs.   *)
LEMMA OverlapInv ==
  ASSUME SerialInv, BeginOverlappingRead \/ ReadGarbage
  PROVE  SerialInv' /\ overlap'
<1>1. CASE BeginOverlappingRead
  BY <1>1 DEF BeginOverlappingRead, SerialInv, Types, device
<1>2. CASE ReadGarbage
  <2>1. returned' \in Seq(Nat)
    BY <1>2 DEF ReadGarbage, SerialInv, Types
  <2> QED
    BY <1>2, <2>1 DEF ReadGarbage, SerialInv, Types, device
<1> QED
  BY <1>1, <1>2

LEMMA SerialStutterInv == ASSUME SerialInv, UNCHANGED serialVars PROVE SerialInv'
  BY DEF serialVars, SerialInv, Types, Stream, Cut, Base

(* SerialInv is an invariant of TimeoutSerial: whatever the timer and the  *)
(* handlers that earlier calls of readStringUntil left queued do.           *)
THEOREM SerialInvariant == SerialSpec => []SerialInv
<1>1. SerialInit => SerialInv
  BY SerialInitInv
<1>2. SerialInv /\ [SerialNext]_serialVars => SerialInv'
  BY DeviceSendsInv, PortDeliversInv, EventInv, BeginReadInv, OverlapInv,
     timeoutExpiredInv, readMoreInv, readCompletedInv, SerialStutterInv
  DEF SerialNext, Handlers
<1> QED
  BY <1>1, <1>2, PTL DEF SerialSpec

(* The device completes a message with every second piece.                 *)
LEMMA Halves ==
  ASSUME NEW n \in Nat
  PROVE  /\ 0 \div 2 = 0
         /\ (n + 1) \div 2 \in {n \div 2, (n \div 2) + 1}
         /\ \A k \in Nat : 2 * k + 2 <= n => k < n \div 2
  OBVIOUS

(* Each step is a step of the line or leaves it as it is.                  *)
LEMMA StepMaps ==
  ASSUME SerialInv, [SerialNext]_serialVars
  PROVE  [Line!Next]_(Line!lineVars)
<1>1. arrived \in Nat /\ returned \in Seq(Nat)
  BY DEF SerialInv, Types
<1>2. CASE UNCHANGED <<arrived, returned, overlap>>
  BY <1>2 DEF Line!lineVars
<1>3. CASE DeviceSends
  <2>1. arrived' = arrived + 1 /\ UNCHANGED <<returned, overlap>>
    BY <1>3 DEF DeviceSends
  <2>2. arrived' \div 2 = arrived \div 2 \/ arrived' \div 2 = (arrived \div 2) + 1
    BY <1>1, <2>1, Halves
  <2> QED
    BY <2>1, <2>2 DEF Line!Next, Line!DeviceWrites, Line!lineVars
<1>4. CASE BeginOverlappingRead
  BY <1>4 DEF BeginOverlappingRead, device, Line!Next, Line!Overlap
<1>5. CASE ReadGarbage
  <2>1. overlap /\ Len(returned') = Len(returned) + 1 /\ UNCHANGED <<arrived, overlap>>
    BY <1>1, <1>5 DEF ReadGarbage, device
  <2> QED
    BY <2>1 DEF Line!Next, Line!ReadGarbage
<1>6. CASE readCompleted
  <2>1. CASE UNCHANGED <<arrived, returned, overlap>>
    BY <1>2, <2>1
  <2>2. CASE /\ ~ overlap /\ UNCHANGED <<arrived, overlap>>
             /\ returned' = Append(returned, Len(returned) + 1)
             /\ 2 * Len(returned) + 2 <= arrived
    <3>1. Len(returned) < arrived \div 2
      BY <1>1, <2>2, Halves
    <3> QED
      BY <2>2, <3>1 DEF Line!Next, Line!Read
  <2> QED
    BY <1>6, <2>1, <2>2, readCompletedInv
<1>7. CASE PortDelivers \/ PortFails \/ TimerExpires \/ BeginRead \/ timeoutExpired \/ readMore
  <2>1. UNCHANGED <<arrived, returned, overlap>>
    BY <1>7 DEF PortDelivers, PortFails, TimerExpires, BeginRead, timeoutExpired,
                readMore, StayInLoop, ThrowTimeout, device
  <2> QED
    BY <1>2, <2>1
<1>8. CASE UNCHANGED serialVars
  BY <1>2, <1>8 DEF serialVars
<1> QED
  BY <1>3, <1>4, <1>5, <1>6, <1>7, <1>8 DEF SerialNext, Handlers

(***************************************************************************)
(* TimeoutSerial implements SerialLine: for any number of messages and of  *)
(* calls, and whatever timers and handlers of earlier calls do, the        *)
(* strings returned are the device's messages, whole, each once and in     *)
(* order, until two reads overlap.                                         *)
(***************************************************************************)
THEOREM ReadsMessagesHolds == SerialSpec => ReadsMessages
<1>1. SerialInit => Line!Init
  <2>1. 0 \div 2 = 0
    BY Halves
  <2> QED
    BY <2>1 DEF SerialInit, Line!Init
<1>2. SerialInv /\ [SerialNext]_serialVars => [Line!Next]_(Line!lineVars)
  BY StepMaps
<1> QED
  BY <1>1, <1>2, SerialInvariant, PTL DEF SerialSpec, ReadsMessages, Line!Spec

(***************************************************************************)
(* The TCP link.                                                           *)
(***************************************************************************)
-----------------------------------------------------------------------------
(* The bytes s w and the bytes a r are the same bytes, cut differently.    *)
SameBytes(s, w, a, r) == s \o w = a \o r

(* The first n bytes can be read off either way, and what is left is the   *)
(* same again.                                                             *)
LEMMA TakeBytes ==
  ASSUME NEW S, NEW s \in Seq(S), NEW w \in Seq(S), NEW a \in Seq(S), NEW r \in Seq(S),
         SameBytes(s, w, a, r), NEW n \in Nat, n <= Len(s), n <= Len(a)
  PROVE  /\ SubSeq(s, 1, n) = SubSeq(a, 1, n)
         /\ SubSeq(s, n + 1, Len(s)) \in Seq(S)
         /\ SubSeq(a, n + 1, Len(a)) \in Seq(S)
         /\ SameBytes(SubSeq(s, n + 1, Len(s)), w, SubSeq(a, n + 1, Len(a)), r)
<1> USE DEF SameBytes
<1>1. Len(s) \in Nat /\ Len(a) \in Nat /\ Len(w) \in Nat /\ Len(r) \in Nat
  OBVIOUS
<1>2. Len(s) + Len(w) = Len(a) + Len(r)
  <2>1. Len(s \o w) = Len(s) + Len(w) /\ Len(a \o r) = Len(a) + Len(r)
    OBVIOUS
  <2> QED
    BY <2>1
<1>3. \A i \in 1 .. Len(s) + Len(w) :
        (IF i <= Len(s) THEN s[i] ELSE w[i - Len(s)]) = (IF i <= Len(a) THEN a[i] ELSE r[i - Len(a)])
  <2> TAKE i \in 1 .. Len(s) + Len(w)
  <2>1. (s \o w)[i] = IF i <= Len(s) THEN s[i] ELSE w[i - Len(s)]
    BY ConcatProperties
  <2>2. (a \o r)[i] = IF i <= Len(a) THEN a[i] ELSE r[i - Len(a)]
    BY <1>2, ConcatProperties
  <2> QED
    BY <2>1, <2>2
<1> DEFINE s2 == SubSeq(s, n + 1, Len(s))
           a2 == SubSeq(a, n + 1, Len(a))
<1>4. /\ s2 \in Seq(S) /\ Len(s2) = Len(s) - n /\ \A i \in 1 .. Len(s) - n : s2[i] = s[n + i]
      /\ a2 \in Seq(S) /\ Len(a2) = Len(a) - n /\ \A i \in 1 .. Len(a) - n : a2[i] = a[n + i]
  BY <1>1
<1>5. SubSeq(s, 1, n) = SubSeq(a, 1, n)
  <2>1. \A i \in 1 .. n : s[i] = a[i]
    BY <1>1, <1>2, <1>3
  <2>2. /\ SubSeq(s, 1, n) \in Seq(S) /\ Len(SubSeq(s, 1, n)) = n /\ \A i \in 1 .. n : SubSeq(s, 1, n)[i] = s[i]
        /\ SubSeq(a, 1, n) \in Seq(S) /\ Len(SubSeq(a, 1, n)) = n /\ \A i \in 1 .. n : SubSeq(a, 1, n)[i] = a[i]
    BY <1>1
  <2> QED
    BY <2>1, <2>2, SeqEqual
<1> HIDE DEF s2, a2
<1>6. s2 \o w = a2 \o r
  <2>1. /\ s2 \o w \in Seq(S) /\ Len(s2 \o w) = Len(s) + Len(w) - n
        /\ a2 \o r \in Seq(S) /\ Len(a2 \o r) = Len(s) + Len(w) - n
    <3>1. s2 \o w \in Seq(S) /\ Len(s2 \o w) = Len(s2) + Len(w)
      BY ONLY <1>4, ConcatProperties, w \in Seq(S)
    <3>2. a2 \o r \in Seq(S) /\ Len(a2 \o r) = Len(a2) + Len(r)
      BY ONLY <1>4, ConcatProperties, r \in Seq(S)
    <3>3. Len(s2) + Len(w) = Len(s) + Len(w) - n /\ Len(a2) + Len(r) = Len(s) + Len(w) - n
      BY ONLY <1>1, <1>2, <1>4, n \in Nat
    <3> QED
      BY ONLY <3>1, <3>2, <3>3
  <2>2. ASSUME NEW i \in 1 .. Len(s) + Len(w) - n PROVE (s2 \o w)[i] = (a2 \o r)[i]
    <3>1. (s2 \o w)[i] = IF i <= Len(s) - n THEN s[n + i] ELSE w[n + i - Len(s)]
      <4>0. i \in 1 .. Len(s2) + Len(w)
        BY <1>1, <1>4
      <4>1. (s2 \o w)[i] = IF i <= Len(s2) THEN s2[i] ELSE w[i - Len(s2)]
        BY <4>0, <1>4, ConcatProperties
      <4>2. i - (Len(s) - n) = n + i - Len(s)
        BY <1>1
      <4>3. i <= Len(s) - n => s2[i] = s[n + i]
        BY <1>1, <1>4
      <4> QED
        BY <4>1, <4>2, <4>3, <1>4
    <3>2. (a2 \o r)[i] = IF i <= Len(a) - n THEN a[n + i] ELSE r[n + i - Len(a)]
      <4>1. (a2 \o r)[i] = IF i <= Len(a2) THEN a2[i] ELSE r[i - Len(a2)]
        BY <1>1, <1>2, <1>4, ConcatProperties
      <4> QED
        BY <4>1, <1>1, <1>4
    <3>3. PICK j \in 1 .. Len(s) + Len(w) : j = n + i
      BY <1>1
    <3>4. (IF j <= Len(s) THEN s[j] ELSE w[j - Len(s)]) = (IF j <= Len(a) THEN a[j] ELSE r[j - Len(a)])
      BY <1>3
    <3>5. (j <= Len(s) <=> i <= Len(s) - n) /\ (j <= Len(a) <=> i <= Len(a) - n)
      BY <1>1, <3>3
    <3> QED
      BY <3>1, <3>2, <3>3, <3>4, <3>5
  <2> QED
    BY <2>1, <2>2, SeqEqual
<1> QED
  BY <1>4, <1>5, <1>6 DEF s2, a2

-----------------------------------------------------------------------------
(* The recursive function in Shifts is what it says: n shifted by one byte *)
(* at each step.                                                           *)
LEMMA ShiftsAre ==
  ASSUME NEW n \in Nat
  PROVE  /\ Shifts(n) \in [0 .. LengthBytes -> Nat]
         /\ Shifts(n)[0] = n
         /\ \A i \in 1 .. LengthBytes : Shifts(n)[i] = Shifts(n)[i - 1] \div 256
<1> DEFINE step == [i \in Nat |-> [v \in Nat |-> v \div 256]]
<1>1. step \in [Nat -> [Nat -> Nat]]
  OBVIOUS
<1>2. \A i \in Nat, v \in Nat : step[i][v] = v \div 256
  OBVIOUS
<1> HIDE DEF step
<1>3. LengthBytes \in Nat
  BY FramingAssumption
<1>4. PICK f : Iterates(f, Nat, n, step, LengthBytes)
  BY <1>1, <1>3, RecursionUpTo
<1>5. f \in [0 .. LengthBytes -> Nat] /\ f[0] = n /\ \A i \in 1 .. LengthBytes : f[i] = f[i - 1] \div 256
  <2>1. ASSUME NEW i \in 1 .. LengthBytes PROVE f[i] = f[i - 1] \div 256
    <3>1. f[i] = step[i][f[i - 1]] /\ f[i - 1] \in Nat /\ i \in Nat
      BY <1>3, <1>4 DEF Iterates
    <3> QED
      BY <3>1, <1>2
  <2> QED
    BY <1>4, <2>1 DEF Iterates
<1>6. f = [i \in 0 .. LengthBytes |-> IF i = 0 THEN n ELSE f[i - 1] \div 256]
  BY <1>3, <1>5
<1>7. Shifts(n) = [i \in 0 .. LengthBytes |-> IF i = 0 THEN n ELSE Shifts(n)[i - 1] \div 256]
  BY <1>6 DEF Shifts
<1> DEFINE T == {i \in 0 .. LengthBytes : Shifts(n)[i] = f[i]}
<1>8. T = 0 .. LengthBytes
  <2>1. 0 \in T
    BY <1>3, <1>5, <1>7
  <2>2. ASSUME NEW i \in 1 .. LengthBytes, i - 1 \in T PROVE i \in T
    <3>1. Shifts(n)[i] = Shifts(n)[i - 1] \div 256
      BY <1>3, <1>7
    <3> QED
      BY <2>2, <3>1, <1>5
  <2>3. T \in SUBSET (0 .. LengthBytes)
    OBVIOUS
  <2> HIDE DEF T
  <2> QED
    BY <2>1, <2>2, <2>3, <1>3, InductUpTo
<1>9. Shifts(n) = f
  BY <1>5, <1>7, <1>8, ZenonT(30)
<1> QED
  BY <1>9, <1>5


(* A byte is a natural number.                                             *)
LEMMA BytesAreNat == \A b \in Byte : b \in Nat
BY DEF Byte

(* A length header is LengthBytes bytes.                                   *)
LEMMA LengthHeaderType ==
  ASSUME NEW n \in Nat
  PROVE  LengthHeader(n) \in Seq(Byte) /\ Len(LengthHeader(n)) = LengthBytes
<1>1. LengthBytes \in Nat
  BY FramingAssumption
<1>2. ASSUME NEW i \in 1 .. LengthBytes PROVE Shifts(n)[LengthBytes - i] % 256 \in Byte
  <2>1. PICK k \in 0 .. LengthBytes : k = LengthBytes - i
    BY <1>1
  <2>2. Shifts(n)[LengthBytes - i] \in Nat
    <3>1. Shifts(n) \in [0 .. LengthBytes -> Nat]
      BY ShiftsAre
    <3> QED
      BY ONLY <2>1, <3>1
  <2> QED
    BY <2>2 DEF Byte
<1> QED
  BY <1>1, <1>2 DEF LengthHeader

(* LengthOf is what reading the bytes one by one makes.                    *)
LEMMA LengthOfIs ==
  ASSUME NEW bytes \in Seq(Byte), NEW n \in Nat, n = Len(bytes), NEW f \in [0 .. n -> Nat],
         f[0] = 0, \A i \in 1 .. n : f[i] = 256 * f[i - 1] + bytes[i]
  PROVE  LengthOf(bytes) = f[n]
<1>1. \A i \in 1 .. n : bytes[i] \in Nat
  <2>1. \A i \in 1 .. n : bytes[i] \in Byte
    BY ElementOfSeq
  <2> QED
    BY <2>1, BytesAreNat
<1> DEFINE F == CHOOSE g : g = [i \in 0 .. n |-> IF i = 0 THEN 0 ELSE 256 * g[i - 1] + bytes[i]]
<1>2. f = [i \in 0 .. n |-> IF i = 0 THEN 0 ELSE 256 * f[i - 1] + bytes[i]]
  OBVIOUS
<1>3. F = [i \in 0 .. n |-> IF i = 0 THEN 0 ELSE 256 * F[i - 1] + bytes[i]]
  <2>1. \E g : g = [i \in 0 .. n |-> IF i = 0 THEN 0 ELSE 256 * g[i - 1] + bytes[i]]
    BY ONLY <1>2
  <2> QED
    BY ONLY <2>1
<1> DEFINE T == {i \in 0 .. n : F[i] = f[i]}
<1>4. LengthOf(bytes) = F[n]
  BY DEF LengthOf
<1> HIDE DEF F
<1>5. T = 0 .. n
  <2>1. 0 \in T
    BY <1>3
  <2>2. ASSUME NEW i \in 1 .. n, i - 1 \in T PROVE i \in T
    <3>1. F[i] = 256 * F[i - 1] + bytes[i]
      BY <1>3
    <3> QED
      BY <2>2, <3>1
  <2>3. T \in SUBSET (0 .. n)
    OBVIOUS
  <2> HIDE DEF T
  <2> QED
    BY <2>1, <2>2, <2>3, InductUpTo
<1>6. F[n] = f[n]
  <2>1. n \in T
    BY <1>5
  <2> QED
    BY <2>1
<1> QED
  BY <1>4, <1>6

(* A length that was read is a natural number.                             *)
LEMMA LengthOfType ==
  ASSUME NEW bytes \in Seq(Byte)
  PROVE  LengthOf(bytes) \in Nat
<1>1. Len(bytes) \in Nat
  OBVIOUS
<1>2. PICK n \in Nat : n = Len(bytes)
  BY <1>1
<1>3. \A i \in 1 .. n : bytes[i] \in Nat
  <2>1. \A i \in 1 .. n : bytes[i] \in Byte
    BY <1>2, ElementOfSeq
  <2> QED
    BY <2>1, BytesAreNat
<1> DEFINE step == [i \in Nat |-> [v \in Nat |-> IF i \in 1 .. n THEN 256 * v + bytes[i] ELSE 0]]
<1>4. step \in [Nat -> [Nat -> Nat]]
  BY <1>3
<1>5. \A i \in 1 .. n, v \in Nat : step[i][v] = 256 * v + bytes[i]
  OBVIOUS
<1> HIDE DEF step
<1>6. PICK f : Iterates(f, Nat, 0, step, n)
  BY <1>4, RecursionUpTo
<1>7. ASSUME NEW i \in 1 .. n PROVE f[i] = 256 * f[i - 1] + bytes[i]
  <2>1. f[i] = step[i][f[i - 1]] /\ f[i - 1] \in Nat
    BY <1>6 DEF Iterates
  <2> QED
    BY <2>1, <1>5
<1>8. f \in [0 .. n -> Nat] /\ f[0] = 0
  BY <1>6 DEF Iterates
<1>9. LengthOf(bytes) = f[n]
  BY <1>2, <1>7, <1>8, LengthOfIs, SMTT(30)
<1> QED
  BY <1>8, <1>9

(* A length that is no wider than its header is read back as it was        *)
(* written: Packet::SetLength after Packet::GetBytes, for every width.     *)
LEMMA LengthIsRead ==
  ASSUME NEW n \in Nat, Shifts(n)[LengthBytes] = 0
  PROVE  LengthOf(LengthHeader(n)) = n
<1>1. LengthBytes \in Nat
  BY FramingAssumption
<1>0. /\ Shifts(n) \in [0 .. LengthBytes -> Nat]
      /\ Shifts(n)[0] = n
      /\ \A i \in 1 .. LengthBytes : Shifts(n)[i] = Shifts(n)[i - 1] \div 256
  BY ShiftsAre
<1> DEFINE bytes == LengthHeader(n)
           f == [i \in 0 .. LengthBytes |-> Shifts(n)[LengthBytes - i]]
<1>2. bytes \in Seq(Byte) /\ Len(bytes) = LengthBytes
  BY <1>1, LengthHeaderType
<1>3. f \in [0 .. LengthBytes -> Nat] /\ f[0] = 0 /\ f[LengthBytes] = n
  BY <1>1, ShiftsAre
<1>4. ASSUME NEW i \in 1 .. LengthBytes PROVE f[i] = 256 * f[i - 1] + bytes[i]
  <2>1. PICK j \in 1 .. LengthBytes : j = LengthBytes - (i - 1)
    BY <1>1
  <2>2. f[i] = Shifts(n)[j - 1] /\ f[i - 1] = Shifts(n)[j] /\ j - 1 = LengthBytes - i
    BY <1>1, <2>1
  <2>3. Shifts(n)[j] = Shifts(n)[j - 1] \div 256 /\ Shifts(n)[j - 1] \in Nat
    <3>1. j - 1 \in 0 .. LengthBytes
      BY <1>1
    <3> QED
      BY <3>1, <1>0
  <2>4. bytes[i] = Shifts(n)[j - 1] % 256
    BY <1>1, <2>2 DEF LengthHeader
  <2> HIDE DEF f, bytes
  <2> QED
    BY <2>2, <2>3, <2>4
<1> HIDE DEF f, bytes
<1>5. LengthOf(bytes) = f[LengthBytes]
  BY ONLY <1>1, <1>2, <1>3, <1>4, LengthOfIs, ZenonT(30)
<1> QED
  BY <1>3, <1>5 DEF bytes


(* The same for the lengths a packet may have.                             *)
LEMMA LengthSurvives ==
  ASSUME NEW n \in LengthType
  PROVE  n \in Nat /\ LengthOf(LengthHeader(n)) = n
<1>1. PICK m \in Nat : m = n /\ Shifts(m)[LengthBytes] = 0
  BY DEF LengthType
<1>2. LengthOf(LengthHeader(m)) = m
  BY <1>1, LengthIsRead
<1> QED
  BY <1>1, <1>2


-----------------------------------------------------------------------------
(* What the other side may write.                                          *)
WirePacket == [HEADER : Byte, LENGTH : LengthType, DATA : Seq(Byte)]

(* The shape of the bytes of a packet: a header byte and, for a data       *)
(* packet, the length and the data.                                        *)
LEMMA GetBytesType ==
  ASSUME NEW p \in WirePacket
  PROVE  /\ GetBytes(p) \in Seq(Byte)
         /\ p.HEADER >= 128 => GetBytes(p) = <<p.HEADER>>
         /\ p.HEADER < 128 => GetBytes(p) = <<p.HEADER>> \o (LengthHeader(p.LENGTH) \o p.DATA)
         /\ LengthHeader(p.LENGTH) \in Seq(Byte) /\ Len(LengthHeader(p.LENGTH)) = LengthBytes
         /\ LengthHeader(p.LENGTH) \o p.DATA \in Seq(Byte)
<1>1. p.HEADER \in Byte /\ p.HEADER \in Int /\ p.DATA \in Seq(Byte) /\ p.LENGTH \in Nat
  <2>1. p.HEADER \in Byte /\ p.DATA \in Seq(Byte) /\ p.LENGTH \in LengthType
    BY DEF WirePacket
  <2>2. \A n \in LengthType : n \in Nat
    BY DEF LengthType
  <2> QED
    BY <2>1, <2>2, BytesAreNat
<1>2. LengthHeader(p.LENGTH) \in Seq(Byte) /\ Len(LengthHeader(p.LENGTH)) = LengthBytes
  BY ONLY <1>1, LengthHeaderType
<1>3. <<p.HEADER>> \in Seq(Byte)
  BY <1>1
<1>4. LengthHeader(p.LENGTH) \o p.DATA \in Seq(Byte)
  BY ONLY <1>1, <1>2, ConcatProperties
<1>5. /\ <<p.HEADER>> \o (LengthHeader(p.LENGTH) \o p.DATA) \in Seq(Byte)
      /\ <<p.HEADER>> \o <<>> = <<p.HEADER>>
  BY ONLY <1>3, <1>4, ConcatProperties, ConcatEmptySeq
<1>6. p.HEADER >= 128 => GetBytes(p) = <<p.HEADER>>
  <2> SUFFICES ASSUME p.HEADER >= 128 PROVE GetBytes(p) = <<p.HEADER>>
    OBVIOUS
  <2>1. ~ (p.HEADER < 128)
    BY <1>1
  <2> QED
    BY ONLY <2>1, <1>5 DEF GetBytes
<1>7. p.HEADER < 128 => GetBytes(p) = <<p.HEADER>> \o (LengthHeader(p.LENGTH) \o p.DATA)
  BY <1>1 DEF GetBytes
<1>8. p.HEADER >= 128 \/ p.HEADER < 128
  BY <1>1
<1> QED
  BY ONLY <1>2, <1>3, <1>4, <1>5, <1>6, <1>7, <1>8

(* The bytes of the packets ps from the one after m on.                    *)
Rest(ps, m) == FlattenSeq([i \in 1 .. Len(ps) - m |-> GetBytes(ps[m + i])])

(* The packets after m are byte strings.                                   *)
LEMMA PartsType ==
  ASSUME NEW ps \in Seq(WirePacket), NEW m \in 0 .. Len(ps)
  PROVE  [i \in 1 .. Len(ps) - m |-> GetBytes(ps[m + i])] \in Seq(Seq(Byte))
<1>1. Len(ps) \in Nat
  OBVIOUS
<1>2. PICK k \in Nat : k = Len(ps) - m
  BY <1>1
<1>3. ASSUME NEW i \in 1 .. k PROVE GetBytes(ps[m + i]) \in Seq(Byte)
  <2>1. m + i \in 1 .. Len(ps)
    BY <1>1, <1>2
  <2>2. ps[m + i] \in WirePacket
    BY <2>1, ElementOfSeq
  <2> QED
    BY <2>2, GetBytesType
<1> QED
  BY <1>2, <1>3

(* And so is what they make together.                                      *)
LEMMA RestType ==
  ASSUME NEW ps \in Seq(WirePacket), NEW m \in 0 .. Len(ps)
  PROVE  Rest(ps, m) \in Seq(Byte)
BY PartsType, FlattenType DEF Rest

(* After no packet: all bytes.                                             *)
LEMMA RestAll ==
  ASSUME NEW ps \in Seq(WirePacket)
  PROVE  Rest(ps, 0) = BytesOf(ps)
<1>1. Len(ps) \in Nat /\ Len(ps) - 0 = Len(ps)
  OBVIOUS
<1>2. \A i \in 1 .. Len(ps) : 0 + i = i
  BY <1>1
<1>3. [i \in 1 .. Len(ps) - 0 |-> GetBytes(ps[0 + i])] = [i \in 1 .. Len(ps) |-> GetBytes(ps[i])]
  BY <1>1, <1>2
<1> QED
  BY <1>3 DEF Rest, BytesOf

(* After the last packet: none.                                            *)
LEMMA RestNone ==
  ASSUME NEW ps \in Seq(WirePacket)
  PROVE  Rest(ps, Len(ps)) = <<>>
<1>1. Len(ps) \in Nat /\ Len(ps) - Len(ps) = 0
  OBVIOUS
<1>2. [i \in 1 .. Len(ps) - Len(ps) |-> GetBytes(ps[Len(ps) + i])] = <<>>
  BY <1>1
<1> QED
  BY <1>2, FlattenEmpty DEF Rest

(* The bytes of the next packet, then those of the ones after it.          *)
LEMMA RestCons ==
  ASSUME NEW ps \in Seq(WirePacket), NEW m \in Nat, m < Len(ps)
  PROVE  Rest(ps, m) = GetBytes(ps[m + 1]) \o Rest(ps, m + 1)
<1>1. Len(ps) \in Nat
  OBVIOUS
<1>2. PICK k \in Nat : k = Len(ps) - m
  BY <1>1
<1> DEFINE xs == [i \in 1 .. Len(ps) - m |-> GetBytes(ps[m + i])]
           ys == [i \in 1 .. Len(ps) - (m + 1) |-> GetBytes(ps[m + 1 + i])]
<1>3. xs \in Seq(Seq(Byte)) /\ ys \in Seq(Seq(Byte))
  <2>1. m \in 0 .. Len(ps) /\ m + 1 \in 0 .. Len(ps)
    BY <1>1
  <2> QED
    BY <2>1, PartsType
<1>4. Len(xs) = k /\ Len(ys) = k - 1 /\ k > 0 /\ xs[1] = GetBytes(ps[m + 1])
  BY <1>1, <1>2
<1>5. \A i \in 1 .. k - 1 : ys[i] = xs[i + 1]
  <2> TAKE i \in 1 .. k - 1
  <2>1. i + 1 \in 1 .. Len(ps) - m /\ i \in 1 .. Len(ps) - (m + 1) /\ m + (i + 1) = m + 1 + i
    BY <1>1, <1>2
  <2> QED
    BY <2>1
<1> HIDE DEF xs, ys
<1>6. ys = Tail(xs)
  <2>1. xs # <<>>
    BY <1>4
  <2>2. Tail(xs) \in Seq(Seq(Byte)) /\ Len(Tail(xs)) = k - 1 /\ \A i \in 1 .. k - 1 : Tail(xs)[i] = xs[i + 1]
    BY <2>1, <1>3, <1>4, HeadTailProperties
  <2> QED
    BY <2>2, <1>3, <1>4, <1>5, SeqEqual
<1>7. FlattenSeq(xs) = xs[1] \o FlattenSeq(Tail(xs))
  <2>1. xs # <<>>
    BY <1>4
  <2> QED
    BY ONLY <2>1, <1>3, FlattenCons
<1> QED
  BY <1>4, <1>6, <1>7 DEF Rest, xs, ys

(* Another packet adds its bytes at the end.                               *)
LEMMA RestAppend ==
  ASSUME NEW ps \in Seq(WirePacket), NEW p \in WirePacket, NEW m \in 0 .. Len(ps)
  PROVE  Rest(Append(ps, p), m) = Rest(ps, m) \o GetBytes(p)
<1>1. Len(ps) \in Nat /\ Append(ps, p) \in Seq(WirePacket) /\ Len(Append(ps, p)) = Len(ps) + 1
      /\ Append(ps, p)[Len(ps) + 1] = p /\ \A i \in 1 .. Len(ps) : Append(ps, p)[i] = ps[i]
  BY AppendProperties
<1>2. PICK k \in Nat : k = Len(ps) - m
  BY <1>1
<1> DEFINE qs == Append(ps, p)
           xs == [i \in 1 .. Len(ps) - m |-> GetBytes(ps[m + i])]
           ys == [i \in 1 .. Len(qs) - m |-> GetBytes(qs[m + i])]
<1> HIDE DEF qs
<1>3. xs \in Seq(Seq(Byte)) /\ ys \in Seq(Seq(Byte)) /\ GetBytes(p) \in Seq(Byte)
  <2>1. m \in 0 .. Len(qs)
    BY <1>1 DEF qs
  <2> QED
    BY <2>1, <1>1, PartsType, GetBytesType DEF qs
<1>4. Len(xs) = k /\ Len(ys) = k + 1
  BY <1>1, <1>2 DEF qs
<1>5. ASSUME NEW i \in 1 .. k PROVE ys[i] = xs[i]
  <2>1. i \in 1 .. Len(ps) - m /\ i \in 1 .. Len(qs) - m /\ m + i \in 1 .. Len(ps)
    BY <1>1, <1>2 DEF qs
  <2>2. qs[m + i] = ps[m + i]
    BY <2>1, <1>1 DEF qs
  <2> QED
    BY <2>1, <2>2
<1>6. ys[k + 1] = GetBytes(p)
  <2>1. k + 1 \in 1 .. Len(qs) - m /\ m + (k + 1) = Len(ps) + 1
    BY <1>1, <1>2 DEF qs
  <2> QED
    BY <2>1, <1>1 DEF qs
<1> HIDE DEF xs, ys
<1>7. ys = Append(xs, GetBytes(p))
  BY <1>3, <1>4, <1>5, <1>6, AppendProperties, SeqEqual
<1>8. FlattenSeq(Append(xs, GetBytes(p))) = FlattenSeq(xs) \o GetBytes(p)
  BY ONLY <1>3, FlattenAppend
<1> QED
  BY <1>7, <1>8 DEF Rest, xs, ys, qs


-----------------------------------------------------------------------------
(* What INCOMING may hold: the length is whatever was read.                *)
Part == [HEADER : Byte, LENGTH : Nat, DATA : Seq(Byte)]

(* The types of the variables of Framing, lengths being any number.        *)
FramingTypeOK ==
  /\ sent \in Seq(WirePacket)
  /\ wire \in Seq(Byte)
  /\ socket \in Seq(Byte)
  /\ INCOMING \in Part
  /\ link \in {"up", "down"}
  /\ received \in Seq(Part)

(* INCOMING between two reads of ReadPacket: a null header has nothing     *)
(* after it, data come after a length and are no more than it says, and    *)
(* what is returned is complete.                                           *)
PartIsWellFormed ==
  /\ IsNull(INCOMING) => INCOMING = NULL_PACKET
  /\ INCOMING.HEADER >= 128 => INCOMING.LENGTH = 0
  /\ INCOMING.LENGTH = 0 => INCOMING.DATA = <<>>
  /\ Len(INCOMING.DATA) <= INCOMING.LENGTH
  /\ pc = "got" => Complete(INCOMING)

(* What a part p of the packet q leaves to be read of q.                   *)
LeftOf(p, q) ==
  IF q.HEADER >= 128 THEN <<>>
  ELSE IF p.LENGTH = 0 THEN LengthHeader(q.LENGTH) \o q.DATA
  ELSE SubSeq(q.DATA, Len(p.DATA) + 1, Len(q.DATA))

(* p is what the reads made of q so far.                                   *)
PartOf(p, q) ==
  /\ p.HEADER = q.HEADER
  /\ p.LENGTH \in {0, q.LENGTH}
  /\ p.DATA = SubSeq(q.DATA, 1, Len(p.DATA))
  /\ Len(p.DATA) <= Len(q.DATA)

(* The bytes that are still to be read.                                    *)
Unread ==
  IF IsNull(INCOMING) THEN Rest(sent, Len(received))
  ELSE LeftOf(INCOMING, sent[Len(received) + 1]) \o Rest(sent, Len(received) + 1)

(* All packets up to the one under construction can be framed.             *)
StillFramable == \A k \in 1 .. Len(sent) : k <= Len(received) + 1 => sent[k] \in Framable

(* The packets received are the first ones sent.                           *)
ReceivedInOrder ==
  /\ Len(received) <= Len(sent)
  /\ \A i \in 1 .. Len(received) : received[i] = sent[i]

(* INCOMING is a part of the next one.                                     *)
PartInOrder ==
  ~ IsNull(INCOMING) =>
    Len(received) < Len(sent) /\ PartOf(INCOMING, sent[Len(received) + 1])

(* The bytes in the socket and on the wire are those still to be read, but *)
(* for a tail lost with the link.                                          *)
StreamInOrder ==
  \E lost \in Seq(Byte) : (link = "up" => lost = <<>>) /\ socket \o (wire \o lost) = Unread

(* The inductive invariant. Its three last parts need each other: what a   *)
(* read takes from the socket is of the right packet only because the      *)
(* stream is aligned with INCOMING, and stays aligned only because the     *)
(* packets before were taken whole. Behind a packet that cannot be framed  *)
(* nothing but the types remains.                                          *)
FramingInv ==
  /\ FramingTypeOK
  /\ PartIsWellFormed
  /\ StillFramable => ReceivedInOrder /\ PartInOrder /\ StreamInOrder


(* The variables FramingInv is about, but for the control point.           *)
framingStream == <<sent, wire, socket, INCOMING, link, received>>

-----------------------------------------------------------------------------
(* The fields of a packet that can be framed.                              *)
LEMMA FramableShape ==
  ASSUME NEW q \in Framable
  PROVE  /\ q \in WirePacket /\ q.HEADER \in 0 .. 254 /\ q.LENGTH \in Nat /\ q.DATA \in Seq(Byte)
         /\ Len(q.DATA) = q.LENGTH
         /\ q.HEADER < 128 => q.LENGTH > 0
         /\ q.HEADER >= 128 => q.LENGTH = 0 /\ q.DATA = <<>>
<1>1. q \in Packets /\ (\/ q.HEADER < 128 /\ q.LENGTH > 0 /\ Len(q.DATA) = q.LENGTH
                        \/ q.HEADER \in 128 .. 254 /\ q.LENGTH = 0 /\ q.DATA = <<>>)
  BY DEF Framable
<1>2. q \in WirePacket
  BY <1>1, PacketsAssumption DEF WirePacket
<1>3. q.HEADER \in Byte /\ q.DATA \in Seq(Byte) /\ q.LENGTH \in LengthType
  BY <1>2 DEF WirePacket
<1>4. q.HEADER \in 0 .. 255 /\ q.LENGTH \in Nat
  BY <1>3 DEF Byte, LengthType
<1>5. PICK h \in 0 .. 255 : h = q.HEADER
  BY <1>4
<1>6. h \in 0 .. 254 /\ (h < 128 => q.LENGTH > 0) /\ Len(q.DATA) = q.LENGTH
      /\ (h >= 128 => q.LENGTH = 0 /\ q.DATA = <<>>)
  <2>1. CASE h < 128 /\ q.LENGTH > 0 /\ Len(q.DATA) = q.LENGTH
    BY <2>1
  <2>2. CASE h \in 128 .. 254 /\ q.LENGTH = 0 /\ q.DATA = <<>>
    BY <2>2
  <2> QED
    BY <1>1, <1>5, <2>1, <2>2
<1> QED
  BY <1>2, <1>3, <1>4, <1>5, <1>6

(* The fields of INCOMING.                                                 *)
LEMMA PartFields ==
  ASSUME FramingTypeOK
  PROVE  /\ INCOMING.HEADER \in 0 .. 255 /\ INCOMING.HEADER \in Byte
         /\ INCOMING.LENGTH \in Nat /\ INCOMING.DATA \in Seq(Byte) /\ Len(INCOMING.DATA) \in Nat
         /\ Len(sent) \in Nat /\ Len(received) \in Nat
<1>1. INCOMING.HEADER \in Byte /\ INCOMING.LENGTH \in Nat /\ INCOMING.DATA \in Seq(Byte)
  BY DEF FramingTypeOK, Part
<1>2. INCOMING.HEADER \in 0 .. 255
  BY <1>1 DEF Byte
<1> QED
  BY <1>1, <1>2 DEF FramingTypeOK

(* What is left to read of a packet is bytes.                              *)
LEMMA LeftType ==
  ASSUME NEW q \in WirePacket, NEW p \in Part, Len(p.DATA) <= Len(q.DATA)
  PROVE  LeftOf(p, q) \in Seq(Byte)
<1>1. q.DATA \in Seq(Byte) /\ Len(q.DATA) \in Nat /\ p.DATA \in Seq(Byte) /\ Len(p.DATA) \in Nat
  BY DEF WirePacket, Part
<1>2. LengthHeader(q.LENGTH) \o q.DATA \in Seq(Byte)
  BY GetBytesType
<1>3. SubSeq(q.DATA, Len(p.DATA) + 1, Len(q.DATA)) \in Seq(Byte)
  BY <1>1
<1> QED
  BY <1>2, <1>3 DEF LeftOf

(* What is left to read is bytes.                                          *)
LEMMA UnreadType ==
  ASSUME FramingTypeOK, ReceivedInOrder, PartInOrder
  PROVE  Unread \in Seq(Byte)
<1>1. sent \in Seq(WirePacket) /\ Len(sent) \in Nat /\ Len(received) \in Nat /\ Len(received) <= Len(sent)
  BY PartFields DEF FramingTypeOK, ReceivedInOrder
<1>2. CASE IsNull(INCOMING)
  <2>1. Len(received) \in 0 .. Len(sent)
    BY <1>1
  <2>2. Rest(sent, Len(received)) \in Seq(Byte)
    BY ONLY <1>1, <2>1, RestType
  <2> QED
    BY <1>2, <2>2 DEF Unread
<1>3. CASE ~ IsNull(INCOMING)
  <2>1. Len(received) < Len(sent) /\ PartOf(INCOMING, sent[Len(received) + 1])
    BY <1>3 DEF PartInOrder
  <2>2. Len(received) + 1 \in 0 .. Len(sent) /\ Len(received) + 1 \in 1 .. Len(sent)
    BY <1>1, <2>1
  <2>3. Rest(sent, Len(received) + 1) \in Seq(Byte)
    BY ONLY <1>1, <2>2, RestType
  <2>4. sent[Len(received) + 1] \in WirePacket
    BY <1>1, <2>2, ElementOfSeq
  <2>5. LeftOf(INCOMING, sent[Len(received) + 1]) \in Seq(Byte)
    BY <2>1, <2>4, LeftType DEF PartOf, FramingTypeOK
  <2> QED
    BY ONLY <1>3, <2>3, <2>5, ConcatProperties DEF Unread
<1> QED
  BY <1>2, <1>3

(* At the start nothing is sent and nothing is to be read.                 *)
LEMMA FramingInitInv ==
  ASSUME FramingInit
  PROVE  FramingInv
<1> USE DEF FramingInit
<1>1. FramingTypeOK
  BY DEF FramingTypeOK, Part, NULL_PACKET, Byte
<1>2. PartIsWellFormed
  BY DEF PartIsWellFormed, NULL_PACKET
<1>3. ReceivedInOrder
  BY DEF ReceivedInOrder
<1>4. IsNull(INCOMING)
  BY DEF IsNull, NULL_PACKET
<1>5. StreamInOrder
  <2>1. Rest(sent, Len(received)) = <<>>
    <3>1. sent \in Seq(WirePacket) /\ Len(received) = Len(sent)
      BY <1>1 DEF FramingTypeOK
    <3> QED
      BY <3>1, RestNone
  <2>2. <<>> \in Seq(Byte) /\ socket \o (wire \o <<>>) = <<>>
    BY ConcatEmptySeq
  <2> QED
    BY <1>4, <2>1, <2>2 DEF StreamInOrder, Unread
<1> QED
  BY <1>1, <1>2, <1>3, <1>4, <1>5 DEF FramingInv, PartInOrder

(* The other side writes a packet (external): its bytes go to the end of   *)
(* what is to be read.                                                     *)
LEMMA WriteInv ==
  ASSUME FramingInv, Write
  PROVE  FramingInv'
<1> USE DEF FramingInv
<1>1. PICK p \in Packets : sent' = Append(sent, p) /\ wire' = wire \o GetBytes(p)
  BY DEF Write
<1>2. p \in WirePacket /\ GetBytes(p) \in Seq(Byte)
  <2>1. p \in WirePacket
    BY PacketsAssumption DEF WirePacket
  <2> QED
    BY <2>1, GetBytesType
<1>3. link = "up" /\ link' = link /\ socket' = socket /\ INCOMING' = INCOMING
      /\ pc' = pc /\ received' = received
  BY DEF Write
<1>4. /\ sent \in Seq(WirePacket) /\ socket \in Seq(Byte) /\ wire \in Seq(Byte)
      /\ Len(sent) \in Nat /\ Len(received) \in Nat
      /\ sent' \in Seq(WirePacket) /\ Len(sent') = Len(sent) + 1
      /\ \A i \in 1 .. Len(sent) : sent'[i] = sent[i]
  BY <1>1, <1>2, PartFields, AppendProperties DEF FramingTypeOK
<1>5. FramingTypeOK'
  BY <1>1, <1>2, <1>3, <1>4, ConcatProperties DEF FramingTypeOK
<1>6. PartIsWellFormed'
  BY <1>3 DEF PartIsWellFormed, IsNull, Complete, Header
<1>7. ASSUME StillFramable' PROVE StillFramable
  BY <1>3, <1>4, <1>7 DEF StillFramable
<1>8. ASSUME StillFramable' PROVE ReceivedInOrder' /\ PartInOrder'
  <2>1. ReceivedInOrder /\ PartInOrder
    BY <1>7, <1>8
  <2>2. ReceivedInOrder'
    BY <2>1, <1>3, <1>4 DEF ReceivedInOrder
  <2>3. PartInOrder'
    <3>1. IsNull(INCOMING)' <=> IsNull(INCOMING)
      BY <1>3 DEF IsNull
    <3>2. Len(received) < Len(sent) => sent'[Len(received) + 1] = sent[Len(received) + 1]
      BY <1>4
    <3> QED
      BY <2>1, <3>1, <3>2, <1>3, <1>4 DEF PartInOrder
  <2> QED
    BY <2>2, <2>3
<1>9. ASSUME StillFramable' PROVE StreamInOrder'
  <2>1. ReceivedInOrder /\ PartInOrder /\ StreamInOrder
    BY <1>7, <1>9
  <2>2. socket \o wire = Unread
    BY <2>1, <1>3, <1>4, ConcatEmptySeq DEF StreamInOrder
  <2>3. Unread \in Seq(Byte)
    BY <2>1, UnreadType
  <2>4. Unread' = Unread \o GetBytes(p)
    <3>1. CASE IsNull(INCOMING)
      <4>1. Len(received) \in 0 .. Len(sent)
        BY <2>1, <1>4 DEF ReceivedInOrder
      <4>2. Rest(Append(sent, p), Len(received)) = Rest(sent, Len(received)) \o GetBytes(p)
        BY ONLY <4>1, <1>2, <1>4, RestAppend
      <4> QED
        BY <4>2, <3>1, <1>1, <1>3 DEF Unread, IsNull
    <3>2. CASE ~ IsNull(INCOMING)
      <4>1. Len(received) < Len(sent)
        BY <2>1, <3>2 DEF PartInOrder
      <4>2. Len(received) + 1 \in 0 .. Len(sent) /\ Len(received) + 1 \in 1 .. Len(sent)
        BY <4>1, <1>4
      <4>3. Rest(Append(sent, p), Len(received) + 1) = Rest(sent, Len(received) + 1) \o GetBytes(p)
        BY ONLY <4>2, <1>2, <1>4, RestAppend
      <4>4. PICK x \in Seq(Byte), y \in Seq(Byte) :
              x = LeftOf(INCOMING, sent[Len(received) + 1]) /\ y = Rest(sent, Len(received) + 1)
        <5>1. Rest(sent, Len(received) + 1) \in Seq(Byte)
          BY ONLY <4>2, <1>4, RestType
        <5>2. sent[Len(received) + 1] \in WirePacket
          BY <1>4, <4>2, ElementOfSeq
        <5>3. LeftOf(INCOMING, sent[Len(received) + 1]) \in Seq(Byte)
          BY <2>1, <3>2, <5>2, LeftType DEF PartInOrder, PartOf, FramingTypeOK
        <5> QED
          BY ONLY <5>1, <5>3
      <4>5. Unread = x \o y
        BY <4>4, <3>2 DEF Unread
      <4>6. Unread' = x \o (y \o GetBytes(p))
        <5>1. sent'[Len(received) + 1] = sent[Len(received) + 1]
          BY <1>4, <4>2
        <5> QED
          BY <5>1, <4>3, <4>4, <3>2, <1>1, <1>3 DEF Unread, IsNull
      <4>7. x \o (y \o GetBytes(p)) = (x \o y) \o GetBytes(p)
        BY ONLY <1>2, x \in Seq(Byte), y \in Seq(Byte), ConcatAssociates
      <4> QED
        BY <4>5, <4>6, <4>7
    <3> QED
      BY <3>1, <3>2
  <2>5. socket' \o (wire' \o <<>>) = Unread'
    <3>1. wire \o GetBytes(p) \in Seq(Byte)
      BY <1>2, <1>4, ConcatProperties
    <3>2. socket \o (wire \o GetBytes(p)) = (socket \o wire) \o GetBytes(p)
      <4>1. Associates(socket, wire, GetBytes(p))
        BY ONLY <1>2, <1>4, Regroups, Zenon
      <4> QED
        BY ONLY <4>1, Zenon DEF Associates
    <3> QED
      BY <1>1, <1>3, <2>2, <2>4, <3>1, <3>2, ConcatEmptySeq
  <2>6. <<>> \in Seq(Byte)
    OBVIOUS
  <2> QED
    BY <2>5, <2>6, <1>3 DEF StreamInOrder
<1> QED
  BY <1>5, <1>6, <1>8, <1>9


(* Bytes go from the wire to the socket (external).                        *)
LEMMA ArriveInv ==
  ASSUME FramingInv, Arrive
  PROVE  FramingInv'
<1> USE DEF FramingInv
<1>1. PICK n \in 1 .. Len(wire) :
         socket' = socket \o SubSeq(wire, 1, n) /\ wire' = SubSeq(wire, n + 1, Len(wire))
  BY DEF Arrive
<1>2. sent' = sent /\ link' = link /\ INCOMING' = INCOMING /\ pc' = pc /\ received' = received
  BY DEF Arrive
<1>3. socket \in Seq(Byte) /\ wire \in Seq(Byte) /\ Len(wire) \in Nat
  BY DEF FramingTypeOK
<1>4. PICK x \in Seq(Byte), y \in Seq(Byte) :
         x = SubSeq(wire, 1, n) /\ y = SubSeq(wire, n + 1, Len(wire)) /\ wire = x \o y
  <2>1. SubSeq(wire, 1, n) \in Seq(Byte) /\ SubSeq(wire, n + 1, Len(wire)) \in Seq(Byte)
    BY <1>3
  <2>2. SubSeq(wire, 1, n) \o SubSeq(wire, n + 1, Len(wire)) = SubSeq(wire, 1, Len(wire))
    BY <1>3, ConcatAdjacentSubSeq
  <2>3. SubSeq(wire, 1, Len(wire)) = wire
    BY <1>3, SubSeqFull
  <2> QED
    BY <2>1, <2>2, <2>3
<1>5. FramingTypeOK'
  BY <1>1, <1>2, <1>3, <1>4, ConcatProperties DEF FramingTypeOK
<1>6. PartIsWellFormed'
  BY <1>2 DEF PartIsWellFormed, IsNull, Complete, Header
<1>7. ASSUME StillFramable' PROVE StillFramable
  BY <1>2, <1>7 DEF StillFramable
<1>8. ASSUME StillFramable' PROVE ReceivedInOrder' /\ PartInOrder' /\ StreamInOrder'
  <2>1. ReceivedInOrder /\ PartInOrder /\ StreamInOrder
    BY <1>7, <1>8
  <2>2. ReceivedInOrder' /\ PartInOrder'
    BY <2>1, <1>2 DEF ReceivedInOrder, PartInOrder, IsNull
  <2>3. PICK lost \in Seq(Byte) : (link = "up" => lost = <<>>) /\ socket \o (wire \o lost) = Unread
    BY <2>1 DEF StreamInOrder
  <2>4. (socket \o x) \o (y \o lost) = socket \o ((x \o y) \o lost)
    <3>1. x \o y \in Seq(Byte) /\ y \o lost \in Seq(Byte)
      BY ConcatProperties
    <3>2. (x \o y) \o lost = x \o (y \o lost)
      BY ConcatAssociates
    <3>3. (socket \o x) \o (y \o lost) = socket \o (x \o (y \o lost))
      <4>1. PICK u \in Seq(Byte), z \in Seq(Byte) : u = socket /\ z = y \o lost
        BY <1>3, <3>1
      <4>2. (u \o x) \o z = u \o (x \o z)
        <5>1. Associates(u, x, z)
          BY Regroups, Zenon
        <5> QED
          BY ONLY <5>1, Zenon DEF Associates
      <4> QED
        BY <4>1, <4>2
    <3> QED
      BY <3>2, <3>3
  <2>5. Unread' = Unread
    BY <1>2 DEF Unread, IsNull
  <2> QED
    BY <2>2, <2>3, <2>4, <2>5, <1>1, <1>2, <1>4 DEF StreamInOrder
<1> QED
  BY <1>5, <1>6, <1>8

(* The link drops (external): the bytes on the wire join those lost.       *)
LEMMA LinkDropsInv ==
  ASSUME FramingInv, LinkDrops
  PROVE  FramingInv'
<1> USE DEF FramingInv
<1>1. /\ sent' = sent /\ link' = "down" /\ INCOMING' = INCOMING /\ pc' = pc /\ received' = received
      /\ socket' = socket /\ wire' = <<>>
  BY DEF LinkDrops
<1>2. FramingTypeOK'
  BY <1>1 DEF FramingTypeOK
<1>3. PartIsWellFormed'
  BY <1>1 DEF PartIsWellFormed, IsNull, Complete, Header
<1>4. ASSUME StillFramable' PROVE ReceivedInOrder' /\ PartInOrder' /\ StreamInOrder'
  <2>1. ReceivedInOrder /\ PartInOrder /\ StreamInOrder
    BY <1>1, <1>4 DEF StillFramable
  <2>2. ReceivedInOrder' /\ PartInOrder'
    BY <2>1, <1>1 DEF ReceivedInOrder, PartInOrder, IsNull
  <2>3. PICK lost \in Seq(Byte) : socket \o (wire \o lost) = Unread
    BY <2>1 DEF StreamInOrder
  <2>4. wire \o lost \in Seq(Byte) /\ <<>> \o (wire \o lost) = wire \o lost
    BY ConcatProperties, ConcatEmptySeq DEF FramingTypeOK
  <2>5. Unread' = Unread
    BY <1>1 DEF Unread, IsNull
  <2> QED
    BY <2>2, <2>3, <2>4, <2>5, <1>1 DEF StreamInOrder
<1> QED
  BY <1>2, <1>3, <1>4

(* Steps that move the control point only: the bounds of ReadNextPacket,   *)
(* its returns, a failing write.                                           *)
LEMMA QuietInv ==
  ASSUME FramingInv, UNCHANGED framingStream, pc' = "got" => Complete(INCOMING)
  PROVE  FramingInv'
<1> USE DEF FramingInv, framingStream
<1>1. FramingTypeOK'
  BY DEF FramingTypeOK
<1>2. PartIsWellFormed'
  BY DEF PartIsWellFormed, IsNull, Complete, Header
<1>3. Unread' = Unread
  BY DEF Unread, IsNull
<1>4. ASSUME StillFramable' PROVE ReceivedInOrder' /\ PartInOrder' /\ StreamInOrder'
  <2>1. ReceivedInOrder /\ PartInOrder /\ StreamInOrder
    BY <1>4 DEF StillFramable
  <2> QED
    BY <2>1, <1>3 DEF ReceivedInOrder, PartInOrder, IsNull, StreamInOrder
<1> QED
  BY <1>1, <1>2, <1>4

(* Disconnect() leaves no part of a packet behind                          *)
(* (Connection::Disconnect).                                            *)
LEMMA DisconnectInv ==
  ASSUME FramingInv, Disconnect
  PROVE  FramingInv'
<1>1. /\ INCOMING' = NULL_PACKET /\ link' = "up" /\ sent' = <<>> /\ received' = <<>>
      /\ wire' = <<>> /\ socket' = <<>> /\ pc' = "idle"
  BY DEF Disconnect
<1>2. FramingTypeOK'
  BY <1>1 DEF FramingTypeOK, Part, NULL_PACKET, Byte
<1>3. PartIsWellFormed'
  BY <1>1 DEF PartIsWellFormed, NULL_PACKET
<1>4. ReceivedInOrder'
  BY <1>1 DEF ReceivedInOrder
<1>5. IsNull(INCOMING)'
  BY <1>1 DEF IsNull, NULL_PACKET
<1>6. StreamInOrder'
  <2>1. Rest(<<>>, Len(<<>>)) = <<>>
    <3>1. PICK e \in Seq(WirePacket) : e = <<>>
      BY EmptySeq
    <3> QED
      BY <3>1, RestNone
  <2>2. <<>> \in Seq(Byte) /\ <<>> \o (<<>> \o <<>>) = <<>>
    BY ConcatEmptySeq
  <2> QED
    BY <1>1, <1>5, <2>1, <2>2 DEF StreamInOrder, Unread
<1> QED
  BY <1>2, <1>3, <1>4, <1>5, <1>6 DEF FramingInv, PartInOrder


(* TakeBytes for one byte.                                                 *)
LEMMA TakeOne ==
  ASSUME NEW S, NEW s \in Seq(S), NEW w \in Seq(S), NEW a \in Seq(S), NEW r \in Seq(S),
         SameBytes(s, w, a, r), s # <<>>, Len(a) = 1
  PROVE  Head(s) = a[1] /\ Tail(s) \in Seq(S) /\ Tail(s) \o w = r
<1>1. Len(s) \in Nat /\ 1 <= Len(s)
  OBVIOUS
<1>3. /\ SubSeq(s, 1, 1) = SubSeq(a, 1, 1)
      /\ SubSeq(s, 1 + 1, Len(s)) \in Seq(S)
      /\ SameBytes(SubSeq(s, 1 + 1, Len(s)), w, SubSeq(a, 1 + 1, Len(a)), r)
  BY <1>1, TakeBytes
<1>4. Head(s) = a[1]
  <2>1. SubSeq(s, 1, 1)[1] = s[1] /\ SubSeq(a, 1, 1)[1] = a[1]
    BY <1>1
  <2> QED
    BY <2>1, <1>3
<1>5. SubSeq(a, 2, 1) = <<>>
  BY SubSeqEmpty
<1>6. Tail(s) = SubSeq(s, 2, Len(s))
  BY TailIsSubSeq
<1>7. SubSeq(a, 1 + 1, Len(a)) = <<>> /\ SubSeq(s, 1 + 1, Len(s)) = Tail(s)
  BY <1>1, <1>5, <1>6
<1>8. <<>> \o r = r
  BY ConcatEmptySeq
<1> QED
  BY <1>3, <1>4, <1>7, <1>8 DEF SameBytes

(* ReadPacket reads a header byte: INCOMING becomes a part of the next     *)
(* packet.                                                                 *)
LEMMA ReadHeaderInv ==
  ASSUME FramingInv, ReadHeader, UNCHANGED <<sent, wire, link, received>>, pc' \in {"idle", "loop"}
  PROVE  FramingInv'
<1> USE DEF FramingInv
<1> DEFINE h == Head(socket)
           m == Len(received)
           q == sent[m + 1]
<1>1. INCOMING = NULL_PACKET
  BY DEF ReadHeader, PartIsWellFormed
<1>2. socket \in Seq(Byte) /\ wire \in Seq(Byte) /\ socket # <<>> /\ h \in Byte /\ Tail(socket) \in Seq(Byte)
  BY HeadTailProperties DEF FramingTypeOK, ReadHeader
<1>3. INCOMING' = [HEADER |-> h, LENGTH |-> 0, DATA |-> <<>>] /\ socket' = Tail(socket)
  BY <1>1 DEF ReadHeader, NULL_PACKET
<1>h. h \in 0 .. 255
  BY <1>2 DEF Byte
<1> HIDE DEF h
<1>4. FramingTypeOK'
  BY <1>2, <1>3 DEF FramingTypeOK, Part
<1>5. PartIsWellFormed'
  <2>1. IsNull(INCOMING)' => INCOMING' = NULL_PACKET
    BY <1>3 DEF IsNull, NULL_PACKET
  <2>2. INCOMING'.LENGTH = 0 /\ INCOMING'.DATA = <<>> /\ Len(INCOMING'.DATA) = 0
    BY <1>3
  <2> QED
    BY <2>1, <2>2 DEF PartIsWellFormed
<1>6. ASSUME StillFramable' PROVE ReceivedInOrder' /\ PartInOrder' /\ StreamInOrder'
  <2>1. StillFramable /\ ReceivedInOrder /\ StreamInOrder
    BY <1>6 DEF StillFramable
  <2>2. ReceivedInOrder'
    BY <2>1 DEF ReceivedInOrder
  <2>3. PICK lost \in Seq(Byte) : (link = "up" => lost = <<>>) /\ socket \o (wire \o lost) = Rest(sent, m)
    BY <2>1, <1>1 DEF StreamInOrder, Unread, IsNull, NULL_PACKET
  <2>4. wire \o lost \in Seq(Byte)
    BY <1>2, ConcatProperties
  <2>5. sent \in Seq(WirePacket) /\ m \in Nat /\ Len(sent) \in Nat /\ m <= Len(sent)
    BY <2>1, PartFields DEF FramingTypeOK, ReceivedInOrder
  <2>6. m < Len(sent)
    <3>1. Rest(sent, m) # <<>>
      BY <1>2, <2>3, <2>4, ConcatSimplifications
    <3> QED
      BY <3>1, <2>5, RestNone
  <2>7. q \in Framable
    BY <2>1, <2>5, <2>6 DEF StillFramable
  <2> HIDE DEF q
  <2>8. /\ q \in WirePacket /\ q.HEADER \in 0 .. 254 /\ q.LENGTH \in Nat /\ q.DATA \in Seq(Byte)
        /\ q.HEADER \in Byte
    BY <2>7, FramableShape DEF Byte
  <2>8a. q.HEADER # 255 /\ (q.HEADER >= 128 \/ (~ (q.HEADER >= 128) /\ q.HEADER < 128))
    <3>1. \A x \in 0 .. 254 : x # 255 /\ (x >= 128 \/ (~ (x >= 128) /\ x < 128))
      OBVIOUS
    <3> QED
      BY <3>1, <2>8
  <2> DEFINE l == LeftOf(INCOMING', q)
  <2>9. l \in Seq(Byte) /\ GetBytes(q) = <<q.HEADER>> \o l
    <3>1. CASE q.HEADER >= 128
      <4>1. l = <<>> /\ GetBytes(q) = <<q.HEADER>> /\ <<q.HEADER>> \in Seq(Byte)
        BY <3>1, <2>8, GetBytesType DEF LeftOf
      <4> QED
        BY <4>1, ConcatEmptySeq
    <3>2. CASE ~ (q.HEADER >= 128) /\ q.HEADER < 128
      <4>1. ~ (q.HEADER >= 128) /\ INCOMING'.LENGTH = 0
        BY <3>2, <1>3
      <4>2. l = LengthHeader(q.LENGTH) \o q.DATA
        BY <4>1 DEF LeftOf
      <4> QED
        BY <3>2, <4>2, <2>8, GetBytesType
    <3> QED
      BY <3>1, <3>2, <2>8a
  <2> HIDE DEF l
  <2>10. Rest(sent, m + 1) \in Seq(Byte)
    <3>1. m + 1 \in 0 .. Len(sent)
      BY <2>5, <2>6
    <3> QED
      BY ONLY <3>1, <2>5, RestType
  <2>11. Rest(sent, m) = <<q.HEADER>> \o (l \o Rest(sent, m + 1))
    <3>1. Rest(sent, m) = GetBytes(q) \o Rest(sent, m + 1)
      BY <2>5, <2>6, RestCons DEF q
    <3>2a. <<q.HEADER>> \in Seq(Byte)
      BY <2>8
    <3>2. PICK y \in Seq(Byte), z \in Seq(Byte) : y = <<q.HEADER>> /\ z = Rest(sent, m + 1)
      BY <3>2a, <2>10
    <3>3. y \o (l \o z) = (y \o l) \o z
      BY <2>9, ConcatAssociates
    <3> QED
      BY <3>1, <3>2, <3>3, <2>9
  <2>12. h = q.HEADER /\ socket' \o (wire \o lost) = l \o Rest(sent, m + 1)
    <3>1. l \o Rest(sent, m + 1) \in Seq(Byte)
      BY <2>9, <2>10, ConcatProperties
    <3>2. PICK w \in Seq(Byte) : w = wire \o lost
      BY <2>4
    <3>3. PICK r \in Seq(Byte) : r = l \o Rest(sent, m + 1)
      BY <3>1
    <3>4. PICK a \in Seq(Byte) : a = <<q.HEADER>> /\ Len(a) = 1 /\ a[1] = q.HEADER
      <4>1. PICK x \in Byte : x = q.HEADER
        BY <2>8
      <4>2. <<x>> \in Seq(Byte) /\ Len(<<x>>) = 1 /\ <<x>>[1] = x
        OBVIOUS
      <4> QED
        BY <4>1, <4>2
    <3>5. SameBytes(socket, w, a, r)
      BY <3>2, <3>3, <3>4, <2>3, <2>11 DEF SameBytes
    <3>6. Head(socket) = a[1] /\ Tail(socket) \o w = r
      BY <1>2, <3>4, <3>5, TakeOne
    <3> QED
      BY <3>2, <3>3, <3>4, <3>6, <1>3 DEF h
  <2>13. ~ IsNull(INCOMING)'
    BY <1>3, <2>8a, <2>12 DEF IsNull
  <2>14. PartOf(INCOMING', q)
    <3>1. SubSeq(q.DATA, 1, 0) = <<>> /\ Len(<<>>) = 0 /\ 0 <= Len(q.DATA)
      BY <2>8, SubSeqEmpty
    <3> QED
      BY <3>1, <1>3, <2>12 DEF PartOf
  <2>15. PartInOrder'
    BY <2>6, <2>14 DEF PartInOrder, q
  <2>16. StreamInOrder'
    BY <2>3, <2>12, <2>13 DEF StreamInOrder, Unread, l, q
  <2> QED
    BY <2>2, <2>15, <2>16
<1> QED
  BY <1>4, <1>5, <1>6


(* ReadPacket reads a length: it is the one that was sent.                 *)
LEMMA ReadLengthInv ==
  ASSUME FramingInv, ReadLength, UNCHANGED <<sent, wire, link, received>>, pc' \in {"idle", "loop"}
  PROVE  FramingInv'
<1> USE DEF FramingInv
<1> DEFINE m == Len(received)
           q == sent[m + 1]
           head == SubSeq(socket, 1, LengthBytes)
<1>0. LengthBytes \in Nat /\ LengthBytes > 0
  BY FramingAssumption
<1>1. INCOMING \in Part /\ ~ IsNull(INCOMING) /\ INCOMING.LENGTH = 0 /\ INCOMING.DATA = <<>>
  BY DEF ReadLength, PartIsWellFormed, FramingTypeOK
<1>2. socket \in Seq(Byte) /\ wire \in Seq(Byte) /\ LengthBytes <= Len(socket) /\ Len(socket) \in Nat
  BY <1>0 DEF FramingTypeOK, ReadLength
<1>3. head \in Seq(Byte) /\ socket' = SubSeq(socket, LengthBytes + 1, Len(socket)) /\ socket' \in Seq(Byte)
  BY <1>0, <1>2 DEF ReadLength
<1>4. LengthOf(head) \in Nat
  BY <1>3, LengthOfType
<1>5. INCOMING' = [HEADER |-> INCOMING.HEADER, LENGTH |-> LengthOf(head), DATA |-> <<>>]
  BY <1>1 DEF ReadLength, Part
<1>6. INCOMING.HEADER \in Byte /\ INCOMING.HEADER \in Nat /\ INCOMING.HEADER < 128
  <2>1. PICK h \in 0 .. 255 : h = INCOMING.HEADER
    BY PartFields
  <2>2. h # 255
    BY <1>1, <2>1 DEF IsNull
  <2>3. ~ (h \in 128 .. 254)
    <3>1. Len(INCOMING.DATA) = 0
      BY <1>1
    <3>2. ~ Complete(INCOMING)
      BY DEF ReadLength
    <3> QED
      BY <1>1, <2>1, <3>1, <3>2 DEF Complete, Header
  <2>4. h \in Nat /\ h < 128
    BY <2>2, <2>3
  <2> QED
    BY <2>1, <2>4, PartFields
<1> HIDE DEF head
<1>7. FramingTypeOK'
  BY <1>3, <1>4, <1>5, <1>6 DEF FramingTypeOK, Part
<1>8. PartIsWellFormed'
  <2>1. ~ IsNull(INCOMING)' /\ ~ (INCOMING'.HEADER >= 128)
    BY <1>5, <1>6 DEF IsNull
  <2>2. INCOMING'.DATA = <<>> /\ Len(INCOMING'.DATA) = 0 /\ INCOMING'.LENGTH \in Nat
    BY <1>4, <1>5
  <2> QED
    BY <2>1, <2>2 DEF PartIsWellFormed
<1>9. ASSUME StillFramable' PROVE ReceivedInOrder' /\ PartInOrder' /\ StreamInOrder'
  <2>1. StillFramable /\ ReceivedInOrder /\ PartInOrder /\ StreamInOrder
    BY <1>9 DEF StillFramable
  <2>2. ReceivedInOrder'
    BY <2>1 DEF ReceivedInOrder
  <2>3. sent \in Seq(WirePacket) /\ m \in Nat /\ Len(sent) \in Nat /\ m < Len(sent) /\ PartOf(INCOMING, q)
    BY <2>1, <1>1, PartFields DEF FramingTypeOK, PartInOrder
  <2>4. q \in Framable
    BY <2>1, <2>3 DEF StillFramable
  <2>5. PICK lost \in Seq(Byte) : (link = "up" => lost = <<>>)
           /\ socket \o (wire \o lost) = LeftOf(INCOMING, q) \o Rest(sent, m + 1)
    BY <2>1, <1>1 DEF StreamInOrder, Unread
  <2> HIDE DEF q
  <2>6. q \in WirePacket /\ q.LENGTH \in Nat /\ q.DATA \in Seq(Byte) /\ Len(q.DATA) = q.LENGTH
        /\ q.HEADER = INCOMING.HEADER /\ q.LENGTH > 0 /\ q.LENGTH \in LengthType
    BY <2>3, <2>4, <1>6, FramableShape DEF PartOf, WirePacket
  <2>7. PICK a \in Seq(Byte) : a = LengthHeader(q.LENGTH) /\ Len(a) = LengthBytes
    BY <2>6, GetBytesType
  <2>8. Rest(sent, m + 1) \in Seq(Byte)
    <3>1. m + 1 \in 0 .. Len(sent)
      BY <2>3
    <3> QED
      BY ONLY <3>1, <2>3, RestType
  <2>9. PICK r \in Seq(Byte) : r = q.DATA \o Rest(sent, m + 1)
    BY <2>6, <2>8, ConcatProperties
  <2>10. PICK w \in Seq(Byte) : w = wire \o lost
    BY <1>2, ConcatProperties
  <2>11. SameBytes(socket, w, a, r)
    <3>1. LeftOf(INCOMING, q) = a \o q.DATA
      <4>1. ~ (q.HEADER >= 128)
        BY <2>6, <1>6
      <4> QED
        BY <4>1, <1>1, <2>7 DEF LeftOf
    <3>2. PICK d \in Seq(Byte), z \in Seq(Byte) : d = q.DATA /\ z = Rest(sent, m + 1)
      BY <2>6, <2>8
    <3>3. a \o (d \o z) = (a \o d) \o z
      <4>1. Associates(a, d, z)
        BY Regroups, Zenon
      <4> QED
        BY ONLY <4>1, Zenon DEF Associates
    <3>4. socket \o w = (a \o d) \o z
      BY ONLY <3>1, <3>2, <2>5, <2>10, Zenon
    <3>5. a \o r = a \o (d \o z)
      BY ONLY <3>2, <2>9, Zenon
    <3> QED
      BY ONLY <3>3, <3>4, <3>5, Zenon DEF SameBytes
  <2>12. head = SubSeq(a, 1, LengthBytes) /\ SameBytes(socket', w, SubSeq(a, LengthBytes + 1, Len(a)), r)
    BY <2>7, <2>11, <1>0, <1>2, <1>3, TakeBytes, SMTT(30) DEF head
  <2>13. SubSeq(a, 1, LengthBytes) = a /\ SubSeq(a, LengthBytes + 1, Len(a)) = <<>>
    BY <2>7, <1>0, SubSeqFull, SubSeqEmpty
  <2>14. INCOMING'.LENGTH = q.LENGTH
    <3>1. LengthOf(LengthHeader(q.LENGTH)) = q.LENGTH
      BY <2>6, LengthSurvives
    <3> QED
      BY <3>1, <2>7, <2>12, <2>13, <1>5
  <2>15. socket' \o (wire \o lost) = q.DATA \o Rest(sent, m + 1)
    <3>1. <<>> \o r = r
      BY ConcatEmptySeq
    <3> QED
      BY <3>1, <2>9, <2>10, <2>12, <2>13 DEF SameBytes
  <2>16. PartOf(INCOMING', q)
    <3>1. SubSeq(q.DATA, 1, 0) = <<>> /\ Len(<<>>) = 0 /\ 0 <= Len(q.DATA)
      BY <2>6, SubSeqEmpty
    <3> QED
      BY <3>1, <2>6, <2>14, <1>5 DEF PartOf
  <2>17. LeftOf(INCOMING', q) = q.DATA
    <3>1. INCOMING'.LENGTH # 0 /\ ~ (q.HEADER >= 128) /\ Len(INCOMING'.DATA) + 1 = 1
      BY <2>6, <2>14, <1>5, <1>6
    <3>2. SubSeq(q.DATA, 1, Len(q.DATA)) = q.DATA
      BY <2>6, SubSeqFull
    <3> QED
      BY <3>1, <3>2 DEF LeftOf
  <2>18. ~ IsNull(INCOMING)'
    BY <1>5, <1>6 DEF IsNull
  <2>19. PartInOrder'
    BY <2>3, <2>16 DEF PartInOrder, q
  <2>20. StreamInOrder'
    BY <2>5, <2>15, <2>17, <2>18 DEF StreamInOrder, Unread, q
  <2> QED
    BY <2>2, <2>19, <2>20
<1> QED
  BY <1>7, <1>8, <1>9


(* A piece of a sequence.                                                  *)
LEMMA SliceIs ==
  ASSUME NEW S, NEW s \in Seq(S), NEW lo \in Nat, NEW hi \in Nat, lo <= hi, hi <= Len(s)
  PROVE  /\ SubSeq(s, lo + 1, hi) \in Seq(S)
         /\ Len(SubSeq(s, lo + 1, hi)) = hi - lo
         /\ \A i \in 1 .. hi - lo : SubSeq(s, lo + 1, hi)[i] = s[lo + i]
<1>1. Len(s) \in Nat
  OBVIOUS
<1> QED
  BY <1>1

(* A piece cut from the rest of a sequence continues the piece before it.  *)
LEMMA SliceOn ==
  ASSUME NEW S, NEW s \in Seq(S), NEW d \in Nat, NEW n \in Nat, d + n <= Len(s)
  PROVE  /\ SubSeq(s, d + 1, Len(s)) \in Seq(S)
         /\ Len(SubSeq(s, d + 1, Len(s))) = Len(s) - d
         /\ SubSeq(s, 1, d) \o SubSeq(SubSeq(s, d + 1, Len(s)), 1, n) = SubSeq(s, 1, d + n)
         /\ SubSeq(SubSeq(s, d + 1, Len(s)), n + 1, Len(s) - d) = SubSeq(s, d + n + 1, Len(s))
<1>1. Len(s) \in Nat
  OBVIOUS
<1>k. PICK k \in Nat : k = Len(s)
  BY <1>1
<1> DEFINE a == SubSeq(s, d + 1, k)
           u == SubSeq(s, 1, d)
           v == SubSeq(a, 1, n)
           t == SubSeq(s, 1, d + n)
           x == SubSeq(a, n + 1, k - d)
           y == SubSeq(s, d + n + 1, k)
<1>2. a \in Seq(S) /\ Len(a) = k - d /\ \A i \in 1 .. k - d : a[i] = s[d + i]
  BY <1>k, SliceIs
<1>3. u \in Seq(S) /\ Len(u) = d /\ \A i \in 1 .. d : u[i] = s[i]
  BY <1>k
<1>5. t \in Seq(S) /\ Len(t) = d + n /\ \A i \in 1 .. d + n : t[i] = s[i]
  BY <1>k
<1>8. y \in Seq(S) /\ Len(y) = k - (d + n) /\ \A i \in 1 .. k - (d + n) : y[i] = s[d + n + i]
  <2>1. d + n \in Nat /\ d + n <= k
    BY <1>k
  <2> QED
    BY <1>k, <2>1, SliceIs
<1> HIDE DEF a, u, t, y
<1>4. v \in Seq(S) /\ Len(v) = n /\ \A i \in 1 .. n : v[i] = a[i]
  BY <1>2, <1>k
<1>7. x \in Seq(S) /\ Len(x) = k - d - n /\ \A i \in 1 .. k - d - n : x[i] = a[n + i]
  <2>1. k - d \in Nat /\ n <= k - d
    BY <1>k
  <2> QED
    BY <1>2, <2>1, SliceIs
<1> HIDE DEF v, x
<1>6. u \o v = t
  <2>1. u \o v \in Seq(S) /\ Len(u \o v) = d + n
    BY <1>3, <1>4, ConcatProperties
  <2>2. ASSUME NEW i \in 1 .. d + n PROVE (u \o v)[i] = t[i]
    <3>0. i \in 1 .. Len(u) + Len(v)
      BY <1>3, <1>4
    <3>1. (u \o v)[i] = IF i <= Len(u) THEN u[i] ELSE v[i - Len(u)]
      BY <3>0, <1>3, <1>4, ConcatProperties
    <3>2. CASE i <= d
      BY <3>1, <3>2, <1>3, <1>5
    <3>3. CASE ~ (i <= d)
      <4>1. i - d \in 1 .. n /\ i - d \in 1 .. k - d /\ d + (i - d) = i
        BY <3>3, <1>k
      <4>2. v[i - d] = a[i - d] /\ a[i - d] = s[d + (i - d)]
        BY <4>1, <1>2, <1>4
      <4>3. (u \o v)[i] = v[i - d]
        BY <3>1, <3>3, <1>3
      <4> QED
        BY <4>1, <4>2, <4>3, <1>5
    <3> QED
      BY <3>2, <3>3
  <2> QED
    BY <2>1, <2>2, <1>5, SeqEqual
<1>9. x = y
  <2>1. ASSUME NEW i \in 1 .. k - d - n PROVE x[i] = y[i]
    <3>1. n + i \in 1 .. k - d /\ d + (n + i) = d + n + i /\ i \in 1 .. k - (d + n)
      BY <1>k
    <3>2. a[n + i] = s[d + (n + i)]
      BY <3>1, <1>2
    <3> QED
      BY <3>1, <3>2, <1>7, <1>8
  <2>2. Len(x) = Len(y)
    BY <1>7, <1>8
  <2> QED
    BY <2>1, <2>2, <1>7, <1>8, SeqEqual
<1> QED
  BY <1>2, <1>6, <1>9, <1>k DEF a, u, v, t, x, y

(* ReadPacket reads as much data as are there and missing: INCOMING stays  *)
(* a part of its packet.                                                   *)
LEMMA ReadDataInv ==
  ASSUME FramingInv, ReadData, UNCHANGED <<sent, wire, link, received>>, pc' \in {"idle", "loop"}
  PROVE  FramingInv'
<1> USE DEF FramingInv
<1> DEFINE m == Len(received)
           q == sent[m + 1]
           d == Len(INCOMING.DATA)
<1>1. /\ INCOMING \in Part /\ ~ IsNull(INCOMING) /\ INCOMING.LENGTH > 0 /\ INCOMING.LENGTH \in Nat
      /\ INCOMING.DATA \in Seq(Byte) /\ d \in Nat /\ d < INCOMING.LENGTH
      /\ socket \in Seq(Byte) /\ wire \in Seq(Byte) /\ Len(socket) \in Nat
  BY PartFields, SMTT(30) DEF ReadData, FramingTypeOK, DataMissing
<1>2. PICK n \in Nat :
        /\ n <= Len(socket) /\ n <= INCOMING.LENGTH - d
        /\ INCOMING' = [INCOMING EXCEPT !.DATA = @ \o SubSeq(socket, 1, n)]
        /\ socket' = SubSeq(socket, n + 1, Len(socket))
  <2>1. PICK n : /\ n = IF Len(socket) < DataMissing THEN Len(socket) ELSE DataMissing
                 /\ INCOMING' = [INCOMING EXCEPT !.DATA = @ \o SubSeq(socket, 1, n)]
                 /\ socket' = SubSeq(socket, n + 1, Len(socket))
    BY DEF ReadData
  <2>2. DataMissing = INCOMING.LENGTH - d
    BY DEF DataMissing
  <2>3. n \in Nat /\ n <= Len(socket) /\ n <= INCOMING.LENGTH - d
    BY <2>1, <2>2, <1>1
  <2> QED
    BY <2>1, <2>3
<1>3. PICK c \in Seq(Byte) : c = SubSeq(socket, 1, n) /\ Len(c) = n
  <2>1. SubSeq(socket, 1, n) \in Seq(Byte) /\ Len(SubSeq(socket, 1, n)) = n
    BY <1>1, <1>2
  <2> QED
    BY <2>1
<1>4. PICK e \in Seq(Byte) : e = INCOMING.DATA \o c /\ Len(e) = d + n
  <2>1. INCOMING.DATA \o c \in Seq(Byte) /\ Len(INCOMING.DATA \o c) = d + n
    <3>1. PICK a \in Seq(Byte) : a = INCOMING.DATA /\ Len(a) = d
      BY <1>1
    <3>2. a \o c \in Seq(Byte) /\ Len(a \o c) = Len(a) + Len(c)
      OBVIOUS
    <3> QED
      BY <1>3, <3>1, <3>2
  <2> QED
    BY <2>1
<1>5. INCOMING' = [HEADER |-> INCOMING.HEADER, LENGTH |-> INCOMING.LENGTH, DATA |-> e]
  BY <1>1, <1>2, <1>3, <1>4 DEF Part
<1>6. socket' \in Seq(Byte)
  BY <1>1, <1>2
<1>7. FramingTypeOK'
  BY <1>1, <1>5, <1>6 DEF FramingTypeOK, Part
<1>8. PartIsWellFormed'
  <2>1. IsNull(INCOMING)' = IsNull(INCOMING) /\ INCOMING'.HEADER = INCOMING.HEADER
        /\ INCOMING'.LENGTH = INCOMING.LENGTH /\ INCOMING'.DATA = e
    BY <1>5 DEF IsNull
  <2>2. d + n <= INCOMING.LENGTH /\ INCOMING.LENGTH # 0
    BY <1>1, <1>2
  <2> QED
    BY <2>1, <2>2, <1>1, <1>4 DEF PartIsWellFormed
<1>9. ASSUME StillFramable' PROVE ReceivedInOrder' /\ PartInOrder' /\ StreamInOrder'
  <2>1. StillFramable /\ ReceivedInOrder /\ PartInOrder /\ StreamInOrder
    BY <1>9 DEF StillFramable
  <2>2. ReceivedInOrder'
    BY <2>1 DEF ReceivedInOrder
  <2>3. sent \in Seq(WirePacket) /\ m \in Nat /\ Len(sent) \in Nat /\ m < Len(sent) /\ PartOf(INCOMING, q)
    BY <2>1, <1>1, PartFields DEF FramingTypeOK, PartInOrder
  <2>4. q \in Framable
    BY <2>1, <2>3 DEF StillFramable
  <2>5. PICK lost \in Seq(Byte) : (link = "up" => lost = <<>>)
           /\ socket \o (wire \o lost) = LeftOf(INCOMING, q) \o Rest(sent, m + 1)
    BY <2>1, <1>1 DEF StreamInOrder, Unread
  <2> HIDE DEF q
  <2>6. /\ q.DATA \in Seq(Byte) /\ Len(q.DATA) = q.LENGTH /\ q.LENGTH = INCOMING.LENGTH
        /\ q.HEADER = INCOMING.HEADER /\ INCOMING.DATA = SubSeq(q.DATA, 1, d) /\ ~ (q.HEADER >= 128)
    <3>1. q.LENGTH = INCOMING.LENGTH /\ q.HEADER = INCOMING.HEADER /\ INCOMING.DATA = SubSeq(q.DATA, 1, d)
      BY <2>3, <1>1 DEF PartOf
    <3>2. ~ (INCOMING.HEADER >= 128)
      BY <1>1 DEF PartIsWellFormed
    <3> QED
      BY <3>1, <3>2, <2>4, FramableShape
  <2>7. d + n <= Len(q.DATA) /\ Len(q.DATA) - d \in Nat /\ n <= Len(q.DATA) - d
    BY <2>6, <1>1, <1>2, SMTT(30)
  <2>8. PICK a \in Seq(Byte) :
          /\ a = SubSeq(q.DATA, d + 1, Len(q.DATA)) /\ Len(a) = Len(q.DATA) - d
          /\ SubSeq(q.DATA, 1, d) \o SubSeq(a, 1, n) = SubSeq(q.DATA, 1, d + n)
          /\ SubSeq(a, n + 1, Len(a)) = SubSeq(q.DATA, d + n + 1, Len(q.DATA))
    <3>1. PICK t \in Seq(Byte) : t = q.DATA
      BY <2>6
    <3>2. /\ SubSeq(t, d + 1, Len(t)) \in Seq(Byte)
          /\ Len(SubSeq(t, d + 1, Len(t))) = Len(t) - d
          /\ SubSeq(t, 1, d) \o SubSeq(SubSeq(t, d + 1, Len(t)), 1, n) = SubSeq(t, 1, d + n)
          /\ SubSeq(SubSeq(t, d + 1, Len(t)), n + 1, Len(t) - d) = SubSeq(t, d + n + 1, Len(t))
      <4>1. d + n <= Len(t)
        BY <2>7, <3>1
      <4> QED
        BY ONLY <4>1, <1>1, n \in Nat, t \in Seq(Byte), SliceOn, ZenonT(30)
    <3> QED
      BY <3>1, <3>2
  <2>9. PICK r \in Seq(Byte) : r = Rest(sent, m + 1)
    <3>1. m + 1 \in 0 .. Len(sent)
      BY <2>3
    <3>2. Rest(sent, m + 1) \in Seq(Byte)
      BY ONLY <3>1, <2>3, RestType
    <3> QED
      BY <3>2
  <2>10. PICK w \in Seq(Byte) : w = wire \o lost
    BY <1>1, ConcatProperties
  <2>11. SameBytes(socket, w, a, r)
    <3>1. LeftOf(INCOMING, q) = a
      <4>1. ~ (INCOMING.LENGTH = 0)
        BY <1>1
      <4> QED
        BY <4>1, <2>6, <2>8 DEF LeftOf
    <3> QED
      BY <3>1, <2>5, <2>9, <2>10 DEF SameBytes
  <2>12. c = SubSeq(a, 1, n) /\ SameBytes(socket', w, SubSeq(a, n + 1, Len(a)), r)
    <3>1. n <= Len(a)
      BY <2>7, <2>8
    <3> QED
      BY <3>1, <2>11, <1>1, <1>2, <1>3, TakeBytes
  <2>13. e = SubSeq(q.DATA, 1, d + n)
    BY <2>6, <2>8, <2>12, <1>4
  <2>14. PartOf(INCOMING', q)
    BY <2>6, <2>7, <2>13, <1>4, <1>5 DEF PartOf
  <2>15. LeftOf(INCOMING', q) = SubSeq(a, n + 1, Len(a))
    <3>1. INCOMING'.LENGTH # 0 /\ Len(INCOMING'.DATA) = d + n
      BY <1>1, <1>4, <1>5
    <3> QED
      BY <3>1, <2>6, <2>8 DEF LeftOf
  <2>16. socket' \o (wire \o lost) = LeftOf(INCOMING', q) \o Rest(sent, m + 1)
    BY <2>9, <2>10, <2>12, <2>15 DEF SameBytes
  <2>17. ~ IsNull(INCOMING)'
    BY <1>1, <1>5 DEF IsNull
  <2>18. PartInOrder'
    BY <2>3, <2>14 DEF PartInOrder, q
  <2>19. StreamInOrder'
    BY <2>5, <2>16, <2>17 DEF StreamInOrder, Unread, q
  <2> QED
    BY <2>2, <2>18, <2>19
<1> QED
  BY <1>7, <1>8, <1>9

(* A part that is complete is the packet itself.                           *)
LEMMA CompletePartIs ==
  ASSUME NEW q \in Framable, NEW p \in Part, PartOf(p, q), Complete(p)
  PROVE  p = q /\ LeftOf(p, q) = <<>>
<1>1. /\ q \in WirePacket /\ q.HEADER \in 0 .. 254 /\ q.LENGTH \in Nat /\ q.DATA \in Seq(Byte)
      /\ Len(q.DATA) = q.LENGTH /\ (q.HEADER < 128 => q.LENGTH > 0)
      /\ (q.HEADER >= 128 => q.LENGTH = 0 /\ q.DATA = <<>>)
  BY FramableShape
<1>2. p.HEADER = q.HEADER /\ p.LENGTH \in Nat /\ p.DATA \in Seq(Byte) /\ Len(p.DATA) = p.LENGTH
      /\ p.LENGTH \in {0, q.LENGTH} /\ p.DATA = SubSeq(q.DATA, 1, Len(p.DATA))
      /\ ((p.HEADER < 128 /\ p.LENGTH > 0) \/ (p.HEADER \in 128 .. 254 /\ p.LENGTH = 0))
  BY DEF PartOf, Complete, Header, Part
<1>3. PICK h \in 0 .. 254 : h = q.HEADER
  BY <1>1
<1>4. p.DATA = q.DATA /\ p.LENGTH = q.LENGTH
  <2>1. CASE h < 128
    <3>1. ~ (h \in 128 .. 254)
      BY <2>1
    <3>2. h = p.HEADER
      BY <1>2, <1>3
    <3>3. p.LENGTH > 0
      BY <1>2, <3>1, <3>2
    <3>4. p.LENGTH = q.LENGTH
      BY <3>3, <1>2
    <3>5. SubSeq(q.DATA, 1, Len(q.DATA)) = q.DATA
      BY <1>1, SubSeqFull
    <3> QED
      BY <3>4, <3>5, <1>1, <1>2
  <2>2. CASE h >= 128
    <3>1. q.LENGTH = 0 /\ q.DATA = <<>> /\ p.LENGTH = 0
      BY <1>1, <1>2, <1>3, <2>2
    <3>2. p.DATA = <<>>
      BY <3>1, <1>2
    <3> QED
      BY <3>1, <3>2
  <2> QED
    BY <2>1, <2>2
<1>5. p = q
  <2>1. p = [HEADER |-> p.HEADER, LENGTH |-> p.LENGTH, DATA |-> p.DATA]
    BY DEF Part
  <2>2. q = [HEADER |-> q.HEADER, LENGTH |-> q.LENGTH, DATA |-> q.DATA]
    BY <1>1 DEF WirePacket
  <2> QED
    BY <2>1, <2>2, <1>2, <1>4
<1>6. LeftOf(p, q) = <<>>
  <2>1. CASE h >= 128
    BY <1>3, <2>1 DEF LeftOf
  <2>2. CASE h < 128
    <3>1. ~ (q.HEADER >= 128) /\ ~ (p.LENGTH = 0)
      BY <2>2, <1>1, <1>3, <1>4
    <3>2. SubSeq(q.DATA, Len(p.DATA) + 1, Len(q.DATA)) = <<>>
      BY <1>1, <1>4, SubSeqEmpty
    <3> QED
      BY <3>1, <3>2 DEF LeftOf
  <2> QED
    BY <2>1, <2>2
<1> QED
  BY <1>5, <1>6

(* The caller takes the packet: it is the next one sent.                   *)
LEMMA ResetPacketInv ==
  ASSUME FramingInv, ResetPacket
  PROVE  FramingInv'
<1> USE DEF FramingInv
<1> DEFINE m == Len(received)
           q == sent[m + 1]
<1>1. /\ INCOMING \in Part /\ received \in Seq(Part) /\ received' = Append(received, INCOMING)
      /\ INCOMING' = NULL_PACKET /\ pc' = "idle" /\ pc = "got" /\ m \in Nat /\ Len(sent) \in Nat
      /\ UNCHANGED <<sent, wire, socket, link>>
  BY PartFields DEF ResetPacket, FramingTypeOK
<1>2. /\ Complete(INCOMING) /\ ~ IsNull(INCOMING)
  <2>1. Complete(INCOMING)
    BY <1>1 DEF PartIsWellFormed
  <2>2. \A h \in 0 .. 255 : h < 128 \/ h \in 128 .. 254 => h # 255
    OBVIOUS
  <2> QED
    BY <2>1, <2>2, PartFields DEF Complete, Header, IsNull
<1>3. /\ received' \in Seq(Part) /\ Len(received') = m + 1 /\ received'[m + 1] = INCOMING
      /\ \A i \in 1 .. m : received'[i] = received[i]
  BY <1>1, AppendProperties
<1>4. FramingTypeOK'
  BY <1>1, <1>3 DEF FramingTypeOK, Part, NULL_PACKET, Byte
<1>5. PartIsWellFormed'
  BY <1>1 DEF PartIsWellFormed, NULL_PACKET
<1>6. IsNull(INCOMING)'
  BY <1>1 DEF IsNull, NULL_PACKET
<1>7. ASSUME StillFramable' PROVE ReceivedInOrder' /\ StreamInOrder'
  <2>1. StillFramable
    BY <1>1, <1>3, <1>7 DEF StillFramable
  <2>2. ReceivedInOrder /\ PartInOrder /\ StreamInOrder
    BY <2>1
  <2>3. sent \in Seq(WirePacket) /\ m < Len(sent) /\ PartOf(INCOMING, q)
    BY <2>2, <1>2 DEF FramingTypeOK, PartInOrder
  <2>4. q \in Framable
    BY <2>1, <2>3, <1>1 DEF StillFramable
  <2>5. PICK lost \in Seq(Byte) : (link = "up" => lost = <<>>)
           /\ socket \o (wire \o lost) = LeftOf(INCOMING, q) \o Rest(sent, m + 1)
    BY <2>2, <1>2 DEF StreamInOrder, Unread
  <2>6. INCOMING = q /\ LeftOf(INCOMING, q) = <<>>
    BY <2>3, <2>4, <1>1, <1>2, CompletePartIs
  <2>7. ReceivedInOrder'
    <3>1. ASSUME NEW i \in 1 .. m + 1 PROVE received'[i] = sent[i]
      BY <2>2, <2>6, <1>1, <1>3 DEF ReceivedInOrder
    <3> QED
      BY <3>1, <2>3, <1>1, <1>3 DEF ReceivedInOrder
  <2>8. StreamInOrder'
    <3>1. PICK r \in Seq(Byte) : r = Rest(sent, m + 1)
      <4>1. m + 1 \in 0 .. Len(sent)
        BY <2>3, <1>1
      <4>2. Rest(sent, m + 1) \in Seq(Byte)
        BY ONLY <4>1, <2>3, RestType
      <4> QED
        BY <4>2
    <3>2. <<>> \o r = r
      BY ConcatEmptySeq
    <3>3. socket \o (wire \o lost) = Rest(sent, m + 1)
      BY <3>1, <3>2, <2>5, <2>6
    <3> QED
      BY <3>3, <2>5, <1>1, <1>3, <1>6 DEF StreamInOrder, Unread
  <2> QED
    BY <2>7, <2>8
<1> QED
  BY <1>4, <1>5, <1>6, <1>7 DEF PartInOrder


(* Every step preserves FramingInv.                                        *)
LEMMA FramingStepInv ==
  FramingInv /\ [FramingNext]_framingVars => FramingInv'
<1> SUFFICES ASSUME FramingInv, [FramingNext]_framingVars PROVE FramingInv'
  OBVIOUS
<1>1. CASE Write
  BY <1>1, WriteInv
<1>2. CASE Arrive
  BY <1>2, ArriveInv
<1>3. CASE LinkDrops
  BY <1>3, LinkDropsInv
<1>4. CASE WriteFails
  BY <1>4, QuietInv DEF WriteFails, framingStream
<1>5. CASE ReadNextPacket
  BY <1>5, QuietInv DEF ReadNextPacket, framingStream
<1>6. CASE LoopOnce
  <2>1. pc' \in {"idle", "loop"} /\ UNCHANGED <<sent, wire, link, received>>
    BY <1>6 DEF LoopOnce
  <2>2. CASE ReadHeader
    BY <2>1, <2>2, ReadHeaderInv
  <2>3. CASE ReadLength
    BY <2>1, <2>3, ReadLengthInv
  <2>4. CASE ReadData
    BY <2>1, <2>4, ReadDataInv
  <2>5. CASE ReadNothing
    BY <2>1, <2>5, QuietInv DEF ReadNothing, framingStream
  <2> QED
    BY <1>6, <2>2, <2>3, <2>4, <2>5 DEF LoopOnce, ReadPacket
<1>7. CASE ReturnPacket
  BY <1>7, QuietInv DEF ReturnPacket, framingStream
<1>8. CASE ResetPacket
  BY <1>8, ResetPacketInv
<1>9. CASE KeepPacket
  BY <1>9, QuietInv DEF KeepPacket, framingStream
<1>10. CASE Disconnect
  BY <1>10, DisconnectInv
<1>11. CASE UNCHANGED framingVars
  BY <1>11, QuietInv DEF framingVars, framingStream, FramingInv, PartIsWellFormed
<1> QED
  BY <1>1, <1>2, <1>3, <1>4, <1>5, <1>6, <1>7, <1>8, <1>9, <1>10, <1>11 DEF FramingNext

(* FramingInv is an invariant of the framing: in every state that          *)
(* ReadPacket and ReadNextPacket can reach, wherever the stream was cut,   *)
(* the packets taken and INCOMING are a prefix of what was sent, and what  *)
(* the socket holds continues it.                                          *)
THEOREM FramingInvariant == FramingSpec => []FramingInv
<1>1. FramingInit => FramingInv
  BY FramingInitInv
<1> QED
  BY <1>1, FramingStepInv, PTL DEF FramingSpec

-----------------------------------------------------------------------------
(* The bytes of the packets sent are those of the packets received and the *)
(* rest.                                                                   *)
LEMMA BytesSplit ==
  ASSUME NEW ps \in Seq(WirePacket), NEW m \in Nat, m <= Len(ps), NEW rs, rs \in Seq(Part),
         Len(rs) = m, \A i \in 1 .. m : rs[i] = ps[i]
  PROVE  BytesOf(rs) \in Seq(Byte) /\ BytesOf(ps) = BytesOf(rs) \o Rest(ps, m)
<1>1. Len(ps) \in Nat
  OBVIOUS
<1> DEFINE Parts(i) == [j \in 1 .. i |-> GetBytes(ps[j])]
           T == {i \in 0 .. m : FlattenSeq(Parts(i)) \o Rest(ps, i) = BytesOf(ps)}
<1>2. ASSUME NEW i \in 0 .. m PROVE Parts(i) \in Seq(Seq(Byte)) /\ FlattenSeq(Parts(i)) \in Seq(Byte)
  <2>1. ASSUME NEW j \in 1 .. i PROVE GetBytes(ps[j]) \in Seq(Byte)
    <3>1. j \in 1 .. Len(ps)
      BY <1>1
    <3>2. ps[j] \in WirePacket
      BY <3>1, ElementOfSeq
    <3> QED
      BY <3>2, GetBytesType
  <2>2. Parts(i) \in Seq(Seq(Byte))
    BY <2>1
  <2> QED
    BY <2>2, FlattenType
<1>3. 0 \in T
  <2>1. Parts(0) = <<>>
    OBVIOUS
  <2>2. Rest(ps, 0) = BytesOf(ps) /\ Rest(ps, 0) \in Seq(Byte)
    <3>1. 0 \in 0 .. Len(ps)
      BY <1>1
    <3> QED
      BY <3>1, RestAll, RestType
  <2>3. <<>> \o Rest(ps, 0) = Rest(ps, 0)
    BY <2>2, ConcatEmptySeq
  <2> HIDE DEF Parts
  <2>4. 0 \in 0 .. m
    OBVIOUS
  <2> QED
    BY <2>1, <2>2, <2>3, <2>4, FlattenEmpty
<1>4. ASSUME NEW i \in 1 .. m, i - 1 \in T PROVE i \in T
  <2>1. PICK k \in 0 .. m : k = i - 1 /\ k + 1 = i /\ k < Len(ps)
    BY <1>1
  <2>2. ps[i] \in WirePacket
    <3>1. i \in 1 .. Len(ps)
      BY <1>1
    <3> QED
      BY <3>1, ElementOfSeq
  <2>3. PICK x \in Seq(Byte), g \in Seq(Byte), z \in Seq(Byte) :
          x = FlattenSeq(Parts(k)) /\ g = GetBytes(ps[i]) /\ z = Rest(ps, i)
    <3>1. i \in 0 .. Len(ps)
      BY <1>1
    <3>2. Rest(ps, i) \in Seq(Byte)
      BY <3>1, RestType
    <3>3. GetBytes(ps[i]) \in Seq(Byte)
      BY <2>2, GetBytesType
    <3>4. FlattenSeq(Parts(k)) \in Seq(Byte)
      BY <1>2
    <3> HIDE DEF Parts
    <3> QED
      BY <3>2, <3>3, <3>4
  <2>4. Rest(ps, k) = g \o z
    <3> HIDE DEF T, Parts
    <3>1. k \in Nat
      OBVIOUS
    <3> QED
      BY <3>1, <2>1, <2>3, RestCons
  <2>5. Parts(i) = Append(Parts(k), g)
    <3>0. i \in 0 .. m
      OBVIOUS
    <3>1. Parts(i) \in Seq(Seq(Byte)) /\ Parts(k) \in Seq(Seq(Byte))
      BY <1>2, <3>0
    <3>2. Len(Parts(i)) = k + 1 /\ Len(Parts(k)) = k /\ Parts(i)[k + 1] = g
      BY <2>1, <2>3
    <3>3. \A j \in 1 .. k : Parts(i)[j] = Parts(k)[j]
      BY <2>1
    <3> HIDE DEF Parts
    <3> QED
      BY <3>1, <3>2, <3>3, <2>3, AppendProperties, SeqEqual
  <2>6. FlattenSeq(Parts(i)) = x \o g
    <3>1. Parts(k) \in Seq(Seq(Byte))
      BY <1>2
    <3> HIDE DEF Parts
    <3>2. FlattenSeq(Append(Parts(k), g)) = FlattenSeq(Parts(k)) \o g
      BY <3>1, FlattenAppend
    <3> QED
      BY <3>2, <2>3, <2>5
  <2>7. x \o (g \o z) = (x \o g) \o z
    BY ONLY x \in Seq(Byte), g \in Seq(Byte), z \in Seq(Byte), ConcatAssociates
  <2> HIDE DEF Parts
  <2>8. x \o Rest(ps, k) = BytesOf(ps)
    BY <1>4, <2>1, <2>3
  <2>9. i \in 0 .. m
    OBVIOUS
  <2>10. FlattenSeq(Parts(i)) \o Rest(ps, i) = BytesOf(ps)
    BY <2>3, <2>4, <2>6, <2>7, <2>8
  <2> QED
    BY <2>9, <2>10
<1>5. T \in SUBSET (0 .. m)
  OBVIOUS
<1>6. T = 0 .. m
  <2> HIDE DEF T
  <2> QED
    BY <1>3, <1>4, <1>5, InductUpTo
<1>7. FlattenSeq(Parts(m)) \o Rest(ps, m) = BytesOf(ps)
  <2>1. m \in 0 .. m
    OBVIOUS
  <2> HIDE DEF Parts
  <2>2. m \in T
    BY ONLY <2>1, <1>6
  <2> QED
    BY <2>2
<1>8. BytesOf(rs) = FlattenSeq(Parts(m))
  <2>1. [i \in 1 .. Len(rs) |-> GetBytes(rs[i])] = Parts(m)
    OBVIOUS
  <2> QED
    BY <2>1 DEF BytesOf
<1>9. FlattenSeq(Parts(m)) \in Seq(Byte)
  BY <1>2
<1> HIDE DEF Parts
<1> QED
  BY <1>7, <1>8, <1>9

(* The bytes read into a part and those left make up the packet.           *)
LEMMA PartAndLeft ==
  ASSUME NEW q \in Framable, NEW p \in Part, PartOf(p, q), ~ IsNull(p),
         p.LENGTH = 0 => p.DATA = <<>>
  PROVE  BytesRead(p) \in Seq(Byte) /\ BytesRead(p) \o LeftOf(p, q) = GetBytes(q)
<1>1. /\ q \in WirePacket /\ q.HEADER \in 0 .. 254 /\ q.LENGTH \in Nat /\ q.DATA \in Seq(Byte)
      /\ (q.HEADER < 128 => q.LENGTH > 0)
      /\ (q.HEADER >= 128 => q.LENGTH = 0 /\ q.DATA = <<>>)
  BY FramableShape
<1>2. /\ p.HEADER = q.HEADER /\ p.LENGTH \in {0, q.LENGTH} /\ p.DATA = SubSeq(q.DATA, 1, Len(p.DATA))
      /\ Len(p.DATA) <= Len(q.DATA) /\ p.DATA \in Seq(Byte) /\ p.LENGTH \in Nat
  BY DEF PartOf, Part
<1>3. PICK h \in 0 .. 254 : h = q.HEADER
  BY <1>1
<1>4. PICK hd \in Seq(Byte) : hd = <<h>>
  <2>1. h \in Byte
    BY DEF Byte
  <2>2. <<h>> \in Seq(Byte)
    BY <2>1
  <2> QED
    BY <2>2
<1>5. CASE h >= 128
  <2>1. p.LENGTH = 0 /\ p.DATA = <<>> /\ LeftOf(p, q) = <<>> /\ GetBytes(q) = hd
    <3>1. q.HEADER >= 128 /\ q.LENGTH = 0 /\ q.DATA = <<>>
      BY <1>1, <1>3, <1>5
    <3>2. p.DATA = <<>>
      BY <3>1, <1>2
    <3> QED
      BY <3>1, <3>2, <1>1, <1>2, <1>3, <1>4, GetBytesType DEF LeftOf
  <2>2. BytesRead(p) = hd \o (<<>> \o <<>>)
    <3>1. BytesRead(p) = (<<p.HEADER>> \o <<>>) \o p.DATA
      BY <2>1 DEF BytesRead
    <3> QED
      BY <3>1, <2>1, <1>2, <1>3, <1>4, ConcatEmptySeq
  <2> QED
    BY <2>1, <2>2, ConcatEmptySeq
<1>6. CASE h < 128
  <2>1. q.HEADER < 128 /\ ~ (q.HEADER >= 128) /\ q.LENGTH > 0
    BY <1>1, <1>3, <1>6
  <2>2. PICK lh \in Seq(Byte), d \in Seq(Byte) : lh = LengthHeader(q.LENGTH) /\ d = q.DATA
    BY <1>1, GetBytesType
  <2>3. GetBytes(q) = hd \o (lh \o d)
    BY <1>1, <1>3, <1>4, <2>1, <2>2, GetBytesType
  <2>4. CASE p.LENGTH = 0
    <3>1. LeftOf(p, q) = lh \o d
      BY <2>1, <2>2, <2>4 DEF LeftOf
    <3>2. BytesRead(p) = (hd \o <<>>) \o p.DATA
      BY <2>4, <1>2, <1>3, <1>4 DEF BytesRead
    <3>3. p.DATA = <<>>
      BY <2>4
    <3>4. BytesRead(p) = hd
      BY <3>2, <3>3, ConcatEmptySeq
    <3> QED
      BY <3>1, <3>4, <2>3
  <2>5. CASE p.LENGTH # 0
    <3>1. p.LENGTH = q.LENGTH
      BY <1>2, <2>5
    <3>2. PICK u \in Seq(Byte), v \in Seq(Byte) :
            u = p.DATA /\ v = SubSeq(q.DATA, Len(p.DATA) + 1, Len(q.DATA)) /\ u \o v = d
      <4>1. SubSeq(d, 1, Len(d)) = d
        BY SubSeqFull
      <4>2. PICK k \in Nat, n \in Nat : k = Len(p.DATA) /\ n = Len(d) /\ k <= n
        BY <1>2, <2>2
      <4>3. SubSeq(d, 1, k) \o SubSeq(d, k + 1, n) = SubSeq(d, 1, n)
        <5>1. 1 \in 1 .. Len(d) + 1 /\ k \in 1 - 1 .. Len(d) /\ n \in k .. Len(d)
          BY <4>2
        <5> QED
          BY <5>1, ConcatAdjacentSubSeq
      <4>4. SubSeq(d, k + 1, n) \in Seq(Byte)
        BY <4>2, SliceIs
      <4> QED
        BY <4>1, <4>2, <4>3, <4>4, <1>2, <2>2
    <3>3. LeftOf(p, q) = v
      BY <2>1, <2>5, <3>2 DEF LeftOf
    <3>4. BytesRead(p) = (hd \o lh) \o u
      BY <2>5, <3>1, <3>2, <1>2, <1>3, <1>4, <2>2 DEF BytesRead
    <3>5. PICK hl \in Seq(Byte) : hl = hd \o lh
      BY ConcatProperties
    <3>6. hl \o u \in Seq(Byte) /\ (hl \o u) \o v = hl \o (u \o v) /\ hl \o d = hd \o (lh \o d)
      <4>1. hl \o u \in Seq(Byte)
        BY ConcatProperties
      <4>2. hl \o (u \o v) = (hl \o u) \o v
        <5>1. Associates(hl, u, v)
          BY Regroups, Zenon
        <5> QED
          BY ONLY <5>1, Zenon DEF Associates
      <4>3. hd \o (lh \o d) = (hd \o lh) \o d
        <5>1. Associates(hd, lh, d)
          BY Regroups, Zenon
        <5> QED
          BY ONLY <5>1, Zenon DEF Associates
      <4> QED
        BY <3>5, <4>1, <4>2, <4>3
    <3> QED
      BY <2>3, <3>2, <3>3, <3>4, <3>5, <3>6
  <2> QED
    BY <2>4, <2>5
<1> QED
  BY <1>5, <1>6

(* What is concatenated first is a prefix.                                 *)
LEMMA PrefixOfConcat ==
  ASSUME NEW S, NEW s \in Seq(S), NEW t \in Seq(S)
  PROVE  IsPrefix(s, s \o t)
<1> QED
  BY DEF IsPrefix

(* Concatenation under a name of its own.                                  *)
Join(s, t) == s \o t

(* Its associativity.                                                      *)
LEMMA JoinAssociates ==
  ASSUME NEW S, NEW s \in Seq(S), NEW t \in Seq(S), NEW u \in Seq(S)
  PROVE  Join(s, t) \in Seq(S) /\ Join(s, Join(t, u)) = Join(Join(s, t), u)
BY ConcatAssociative, ConcatProperties DEF Join

(* The same for five pieces.                                               *)
LEMMA JoinFive ==
  ASSUME NEW S, NEW a \in Seq(S), NEW b \in Seq(S), NEW c \in Seq(S), NEW d \in Seq(S), NEW e \in Seq(S)
  PROVE  /\ Join(Join(Join(a, b), c), d) \in Seq(S)
         /\ Join(a, Join(b, Join(c, Join(d, e)))) = Join(Join(Join(Join(a, b), c), d), e)
<1>1. Join(a, b) \in Seq(S) /\ Join(d, e) \in Seq(S)
  BY JoinAssociates
<1>2. Join(Join(a, b), c) \in Seq(S) /\ Join(c, Join(d, e)) \in Seq(S)
  BY <1>1, JoinAssociates
<1>3. Join(a, Join(b, Join(c, Join(d, e)))) = Join(Join(a, b), Join(c, Join(d, e)))
  BY <1>2, JoinAssociates
<1>4. Join(Join(a, b), Join(c, Join(d, e))) = Join(Join(Join(a, b), c), Join(d, e))
  BY <1>1, JoinAssociates
<1>5. Join(Join(Join(a, b), c), Join(d, e)) = Join(Join(Join(Join(a, b), c), d), e)
  BY <1>2, JoinAssociates
<1>6. Join(Join(Join(a, b), c), d) \in Seq(S)
  BY <1>2, JoinAssociates
<1> QED
  BY <1>3, <1>4, <1>5, <1>6

(* NoByteLost is a consequence of FramingInv.                              *)
LEMMA NoByteIsLost ==
  ASSUME FramingInv
  PROVE  NoByteLost
<1> USE DEF FramingInv
<1> DEFINE m == Len(received)
           q == sent[m + 1]
<1> SUFFICES ASSUME \A i \in 1 .. Len(sent) : sent[i] \in Framable
             PROVE  IF link = "up" THEN Known = BytesOf(sent) ELSE IsPrefix(Known, BytesOf(sent))
  BY DEF NoByteLost
<1>1. ReceivedInOrder /\ PartInOrder /\ StreamInOrder
  BY DEF StillFramable
<1>2. /\ sent \in Seq(WirePacket) /\ received \in Seq(Part) /\ m \in Nat /\ Len(sent) \in Nat
      /\ socket \in Seq(Byte) /\ wire \in Seq(Byte) /\ INCOMING \in Part /\ link \in {"up", "down"}
      /\ m <= Len(sent)
  BY <1>1, PartFields DEF FramingTypeOK, ReceivedInOrder
<1>3. PICK lost \in Seq(Byte) : (link = "up" => lost = <<>>) /\ socket \o (wire \o lost) = Unread
  BY <1>1 DEF StreamInOrder
<1>4. PICK bs \in Seq(Byte) : bs = BytesOf(received) /\ BytesOf(sent) = bs \o Rest(sent, m)
  <2>1. BytesOf(received) \in Seq(Byte) /\ BytesOf(sent) = BytesOf(received) \o Rest(sent, m)
    BY <1>1, <1>2, BytesSplit DEF ReceivedInOrder
  <2> QED
    BY <2>1
<1>5. PICK x \in Seq(Byte) : x = BytesRead(INCOMING) /\ x \o Unread = Rest(sent, m)
  <2>1. CASE IsNull(INCOMING)
    <3>1. Rest(sent, m) \in Seq(Byte)
      <4>1. m \in 0 .. Len(sent)
        BY <1>2
      <4> QED
        BY <4>1, <1>2, RestType
    <3>2. BytesRead(INCOMING) = <<>> /\ Unread = Rest(sent, m)
      BY <2>1 DEF BytesRead, Unread
    <3>3. <<>> \in Seq(Byte) /\ <<>> \o Rest(sent, m) = Rest(sent, m)
      BY <3>1, ConcatEmptySeq
    <3> QED
      BY <3>2, <3>3
  <2>2. CASE ~ IsNull(INCOMING)
    <3>1. m < Len(sent) /\ PartOf(INCOMING, q) /\ q \in Framable
      BY <1>1, <1>2, <2>2 DEF PartInOrder
    <3>2. PICK z \in Seq(Byte) : z = Rest(sent, m + 1)
      <4>1. m + 1 \in 0 .. Len(sent)
        BY <1>2, <3>1
      <4>2. Rest(sent, m + 1) \in Seq(Byte)
        BY <4>1, <1>2, RestType
      <4> QED
        BY <4>2
    <3>3. Rest(sent, m) = GetBytes(q) \o z
      BY <1>2, <3>1, <3>2, RestCons
    <3> HIDE DEF q
    <3>4. PICK l \in Seq(Byte) : l = LeftOf(INCOMING, q)
      <4>1. q \in WirePacket /\ Len(INCOMING.DATA) <= Len(q.DATA)
        BY <3>1, FramableShape DEF PartOf
      <4>2. LeftOf(INCOMING, q) \in Seq(Byte)
        BY <4>1, <1>2, LeftType
      <4> QED
        BY <4>2
    <3>5. PICK y \in Seq(Byte) : y = BytesRead(INCOMING) /\ y \o l = GetBytes(q)
      <4>1. INCOMING.LENGTH = 0 => INCOMING.DATA = <<>>
        BY DEF PartIsWellFormed
      <4> QED
        BY <4>1, <2>2, <3>1, <3>4, <1>2, PartAndLeft
    <3>6. Unread = l \o z
      BY <2>2, <3>2, <3>4 DEF Unread, q
    <3>7. y \o (l \o z) = (y \o l) \o z
      BY ConcatAssociates
    <3> QED
      BY <3>3, <3>5, <3>6, <3>7
  <2> QED
    BY <2>1, <2>2
<1>6. Known \in Seq(Byte) /\ BytesOf(sent) = Known \o lost
  <2>1. PICK s \in Seq(Byte), w \in Seq(Byte) : s = socket /\ w = wire
    BY <1>2
  <2>2. /\ Join(Join(Join(bs, x), s), w) \in Seq(Byte)
        /\ Join(bs, Join(x, Join(s, Join(w, lost)))) = Join(Join(Join(Join(bs, x), s), w), lost)
    BY JoinFive
  <2>3. Known = Join(Join(Join(bs, x), s), w)
    BY <1>4, <1>5, <2>1 DEF Known, Join
  <2>4. BytesOf(sent) = Join(bs, Join(x, Join(s, Join(w, lost))))
    BY <1>3, <1>4, <1>5, <2>1 DEF Join
  <2>5. Join(Join(Join(Join(bs, x), s), w), lost) = Join(Join(Join(bs, x), s), w) \o lost
    BY DEF Join
  <2> QED
    BY <2>2, <2>3, <2>4, <2>5
<1>7. CASE link = "up"
  <2>1. Known \o <<>> = Known
    BY <1>6, ConcatEmptySeq
  <2> QED
    BY <1>3, <1>6, <1>7, <2>1
<1>8. CASE link # "up"
  <2>1. IsPrefix(Known, Known \o lost)
    BY <1>6, PrefixOfConcat
  <2> QED
    BY <1>6, <1>8, <2>1
<1> QED
  BY <1>7, <1>8

(* NoByteLost: however the stream was cut into pieces and wherever calls   *)
(* of ReadNextPacket gave up, the packets received, the partial packet and *)
(* the bytes still to be read are the bytes written, in order and without  *)
(* a gap; after a drop, all but a tail of them.                            *)
THEOREM NoByteLostHolds == FramingSpec => []NoByteLost
BY FramingInvariant, NoByteIsLost, PTL


-----------------------------------------------------------------------------
(* A packet that is taken is one the channel delivers.                     *)
LEMMA ResetReceives ==
  ASSUME FramingInv, ResetPacket
  PROVE  Channel!Receive \/ Channel!ReceiveGarbage
<1> USE DEF FramingInv
<1> DEFINE m == Len(received)
<1>1. /\ INCOMING \in Part /\ received \in Seq(Part) /\ received' = Append(received, INCOMING)
      /\ pc = "got" /\ m \in Nat /\ Len(sent) \in Nat /\ sent' = sent
  BY PartFields DEF ResetPacket, FramingTypeOK
<1>2. Complete(INCOMING) /\ ~ IsNull(INCOMING)
  <2>1. Complete(INCOMING)
    BY <1>1 DEF PartIsWellFormed
  <2>2. \A h \in 0 .. 255 : h < 128 \/ h \in 128 .. 254 => h # 255
    OBVIOUS
  <2> QED
    BY <2>1, <2>2, PartFields DEF Complete, Header, IsNull
<1>3. CASE StillFramable
  <2>1. m < Len(sent) /\ PartOf(INCOMING, sent[m + 1])
    BY <1>2, <1>3 DEF PartInOrder
  <2>2. \A i \in 1 .. m + 1 : sent[i] \in Framable
    BY <2>1, <1>1, <1>3 DEF StillFramable
  <2>3. INCOMING = sent[m + 1]
    <3>1. sent[m + 1] \in Framable
      BY <2>2, <1>1
    <3> QED
      BY <3>1, <2>1, <1>1, <1>2, CompletePartIs
  <2>4. Channel!Pending
    BY <2>1, <2>2 DEF Channel!Pending, Channel!Intact
  <2>5. Channel!Receive
    BY <2>3, <2>4, <1>1 DEF Channel!Receive
  <2> QED
    BY <2>5
<1>4. CASE ~ StillFramable
  <2>1. \E k \in 1 .. Len(sent) : sent[k] \notin Framable /\ k <= m + 1
    BY <1>4 DEF StillFramable
  <2>2. Len(received') = m + 1 /\ SubSeq(received', 1, m) = received
    <3>1. /\ received' \in Seq(Part) /\ Len(received') = m + 1
          /\ \A i \in 1 .. m : received'[i] = received[i]
      BY <1>1, AppendProperties
    <3>2. SubSeq(received', 1, m) \in Seq(Part) /\ Len(SubSeq(received', 1, m)) = m
          /\ \A i \in 1 .. m : SubSeq(received', 1, m)[i] = received'[i]
      BY <3>1, <1>1
    <3> QED
      BY <3>1, <3>2, <1>1, SeqEqual
  <2>3. Channel!ReceiveGarbage
    BY <2>1, <2>2, <1>1 DEF Channel!ReceiveGarbage
  <2> QED
    BY <2>3
<1> QED
  BY <1>3, <1>4

(* Framing implements the safety part of PacketChannel: ReadPacket and     *)
(* ReadNextPacket hand out whole packets, in the order they were sent, as  *)
(* long as what is sent can be framed (the rest of DeliversPackets is      *)
(* liveness).                                                              *)
THEOREM ChannelIsImplemented == FramingSpec => Channel!Safety
<1>1. FramingInit => Channel!Init
  BY DEF FramingInit, Channel!Init
<1>2. FramingInv /\ [FramingNext]_framingVars => [Channel!Next]_(Channel!channelVars)
  <2> SUFFICES ASSUME FramingInv, [FramingNext]_framingVars
               PROVE  Channel!Next \/ UNCHANGED Channel!channelVars
    OBVIOUS
  <2> USE DEF Channel!Next, Channel!channelVars
  <2>1. CASE Write
    BY <2>1 DEF Write, Channel!Write
  <2>2. CASE Arrive \/ LinkDrops \/ WriteFails \/ ReadNextPacket \/ LoopOnce \/ ReturnPacket \/ KeepPacket
    BY <2>2 DEF Arrive, LinkDrops, WriteFails, ReadNextPacket, LoopOnce, ReturnPacket, KeepPacket
  <2>3. CASE ResetPacket
    BY <2>3, ResetReceives
  <2>4. CASE Disconnect
    BY <2>4 DEF Disconnect, Channel!Reset
  <2>5. CASE UNCHANGED framingVars
    BY <2>5 DEF framingVars
  <2> QED
    BY <2>1, <2>2, <2>3, <2>4, <2>5 DEF FramingNext
<1> QED
  BY <1>1, <1>2, FramingInvariant, PTL DEF FramingSpec, Channel!Safety
-----------------------------------------------------------------------------
(* The two links side by side: each of them behaves as it does alone,      *)
(* moving or not, so what is proved of it above holds of both together.    *)
THEOREM LinksImplementBoth == Spec => FramingSpec /\ SerialSpec
<1>1. Init => FramingInit /\ SerialInit
  BY DEF Init
<1>2. [Next]_linkVars => [FramingNext]_framingVars /\ [SerialNext]_serialVars
  BY DEF Next, linkVars
<1> QED
  BY ONLY <1>1, <1>2, PTL DEF Spec, FramingSpec, SerialSpec

(* What is proved of the two holds in the composition, the serial port     *)
(* taking no byte from the socket: packets in order, none of their bytes   *)
(* lost (DeliversPackets but for its liveness, NoByteLost), and the        *)
(* messages of the board, each once (ReadsMessages).                       *)
THEOREM PromisesHoldBeside == Spec => Channel!Safety /\ ReadsMessages /\ []NoByteLost
BY ONLY LinksImplementBoth, ChannelIsImplemented, ReadsMessagesHolds, NoByteLostHolds, PTL
=============================================================================
