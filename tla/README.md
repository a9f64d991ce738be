# A TLA+ model of hashstat-pool

hashstat-pool is a pool miner for the Nexus hash channel. It reads the serial
ports of its FPGA boards from `config.ini`, logs in to a mining pool over TCP,
receives block templates ("work"), has every board search for a nonce and
submits the nonces found ("shares"). This directory holds TLA+ modules of its
threads, its two links, its start and what it computes, the TLC configurations
that check them, and proofs that the TLA+ proof system TLAPS checks.

## 1. Inventory

| Component | State | Operations | Interacts by |
|---|---|---|---|
| `ServerConnection` (`core.cpp`) | the connection thread's locals (`pWork`, `nIndex`, `nReceivedBlockCount`, timers) and the globals `nHeight`, `nPingCount`, `nReconnectCount`, `nLoginCount` | `ServerThread`, `ResetThreads` | calls `LLP::Miner`; reads and writes every `MinerThread` object through its accessors |
| `LLP::Miner` (`miner.cpp`) | none of its own | `Ping`, `Login`, `WaitWorkUpdate`, `RequestWork`, `SubmitBlock` | one request packet, then a wait for the next packet |
| `LLP::Connection`, `Outbound`, `Packet` | `CONNECTED`, `ERROR_HANDLE`, `INCOMING`, the socket | `Connect`, `Disconnect`, `WritePacket`, `ReadPacket`, `ReadNextPacket`, `ResetPacket` | the TCP link to the pool |
| `MinerThread` (one per board) | `m_pBLOCK`, `m_unBits`, `m_bBlockFound`, `m_bNewBlock`, `m_bShutdown`, `m_unHashes`; locals `nHeight`, `nNonce` | `SK1024Miner` | shared fields with the connection thread, without common locking; its board by `ApertureSerialComm` |
| `ApertureSerialComm` | the port | `ping`, `getDiff28HashCount`, `disableHashing`, `sendMessage`, `setDifficulty`, `enableHashing` | one command out, one `}`-terminated message in |
| `TimeoutSerial` | asio port, timer, buffer, result | `open`, `writeString`, `readStringUntil` and the completion handlers | the operating system |
| `CBlock`, `PoolWork` | a block header and its nonce | accessors, `GetHash`, `GetKey2`, `GetMessage2` | owned by nobody: pointers are handed over and never freed |
| `hash/` (SK1024: Skein-1024 and Keccak-1024) | hash contexts | init, update, final; the mid-state (`SKEINKEY2`, `SKEINMESSAGE2`) | pure |
| `uint1024.h` and the byte conversions of `miner.cpp` | digits | arithmetic, shifts, (de)serialisation | pure |
| `Timer` | start and end time | `Start`, `Reset`, `Elapsed` | the clock |
| `DDOS_Filter`, `DDOS_Score` | moving scores | `Update`, `+=`, `Ban` | no caller on the client's side |
| `skminer.cpp`, `INIReader.h` | arguments, configuration | `main`, parsing | builds `ServerConnection` |

**Threads.** The process runs the main thread (which sleeps), one connection
thread and one mining thread per COM port. A `MinerThread` object is shared by
its mining thread and the connection thread. `m_clLock` is taken by the mining
thread only, so it excludes nobody. What keeps the two apart is a protocol of
three plain fields:

* the connection thread raises `m_bNewBlock` to take a block away, replaces
  `m_pBLOCK` and lowers the flag again ("okay to mine");
* the mining thread stores a nonce and raises `m_bBlockFound`, then parks in
  front of its waiting loop until the connection thread has submitted the
  share and lowered the flag.

**What is hard here.** The interleaving of these two threads between any two
field accesses; a board that answers late, volunteers nonces and keeps running
across restarts; a pool that pushes work, answers late, or not at all, or
drops the link while something is under way; replies that do not name their
request, on both wires; counters and timers that decide when to give up.
`PROJECT.json` lists each hazard at its line.

**What makes each component correct.**

* Connection thread: null pointers are never followed; a share under
  submission does not change; no packet or error of one link is taken for
  another's; it never hangs, and every flagged share is dealt with; it gives
  up only for the reason it prints.
* Mining thread and board: parked while a share is pending; no null block; the
  board is reprogrammed only when it is stopped; it hashes one whole template,
  and the one the thread was told to mine.
* Together: a nonce is submitted for the block it solves; work that was
  handed out gets mined.
* The TCP link: whole packets, in order, none lost, none made up, however the
  stream is cut and wherever a wait gives up.
* A serial read: the next message, whole, or a timeout; never neither.
* Startup: one thread for each port configured, and no look at an object before
  it is complete.
* The hash: the digest of the data, whatever pieces they come in, and the same
  digest when the board finishes what the miner began. Integers: numbers modulo
  a power of two. The codec: the pool's block in, the thread's share out.

## 2. Modules

```
ThreadState            the MinerThread object, as both threads see it
  Connection           the TCP link, the pool (external), the packet layer
    ServerConnection   the connection thread; closed form ServerSpec
  MinerThread          the mining threads and their boards; closed form MinerSpec
HashPool               ServerConnection + MinerThread: the whole program
  HashPoolProofs       the connection thread: invariant, pointers, submission,
                       packets, errors, order of work; the mining threads and
                       their boards; the program implements ServerSpec and MinerSpec

PacketChannel          abstract: whole packets, in order
  Framing              LLP packets cut out of a byte stream; implements it
SerialLine             abstract: the messages of a board, one per read
  TimeoutSerial        a read with a timeout and its handlers; implements it
Links                  Framing and TimeoutSerial side by side
  LinksProofs          both links implement what they are abstracted to

IniFile                how config.ini is read
  Startup              main and the two constructors
    StartupProofs      nobody begins before the constructors are done; what
                       the parser makes of a file

Word64                 64-bit words
  Threefish, KeccakF   Skein's block function, Keccak's permutation
Skein, KeccakSponge    the hash modes, block function and permutation symbolic
  SkeinProofs          a Skein context computes the Skein hash; its block
                       function is Threefish
  KeccakProofs         a Keccak instance computes the sponge function; its
                       permutation is Keccak-f
  HashTemplates        the templates made of them, and the mid-state of a board
    HashTemplatesProofs       two-stage hashes; the mid-state completes to one;
                              all that Computations computes is as defined
Numerals               powers, numbers and their digits, bit by bit operations
  BigInteger           abstract: numbers modulo a power of two
WordBytes              the bytes of the words of an integer
  Uint1024             arrays of words; implements BigInteger
  BlockCodec           a block in, a share out, in bytes
    IntegerProofs      the words count, and read back what they write; a block
                       and a share lose nothing on the wire
Computations           HashTemplates, Threefish, KeccakF, Uint1024, BlockCodec
                       side by side

SharedLemmas           induction and recursive functions, numbers and their
                       digits, words: for all proof modules but HashPoolProofs
MC*                    constants for TLC
```

**ThreadState.** `CBlock` is a template number and a nonce. A nonce is kept
only as the template it solves (`NoShare`: none), which is all the properties
tell apart; `m_unBits` is named by the template it came with; `Height` maps
templates to heights, and two templates may share one. `m_bNewBlock` is not
initialised by the constructor, so `ThreadStateInit` leaves it open.

**Connection.** `CONNECTED`, `ERROR_HANDLE`, `INCOMING` are the fields of
`LLP::Connection`; `link`, `toPool`, `toClient`, `loggedIn`, `tip` are the
network and the pool, modelled from the calls the client makes. A packet is
atomic: `INCOMING` holds a whole packet or `NoPacket`. `ReadPacket` reads only
when `available()` says so, therefore a read neither fails nor sees the end of
the stream and `ERROR_HANDLE` comes from writes, `connect()` and `shutdown()`.
`ReadTimesOut` is enabled whenever no complete packet is held: the packet may
be on its way all the same. A write on a link the other end has closed may or
may not report an error.

**ServerConnection.** `spc` is the control point. There is one step per access
to a `MinerThread` object and one per packet written or awaited, because the
mining threads run in between. `ResetThreads` is two steps per thread, the
assignment of work four (`SetBits`, `SetBlock`, `SetIsBlockFound(false)`,
`SetIsNewBlock(false)`), the handling of a share one per access. The `8` of
the attempt counters is `MaxAttempts`. `everReceived` is a history variable
for one of the findings. No attempt counter is ever reset by the code
(`nReconnectCount`, `core.cpp:200`), so failures of long ago count.

**MinerThread.** `mpc` is the control point, `cmd` the command of `Program` (the
seven serial commands of one pass) being sent. `tx` and `rx` are the two
directions of the serial line, `fpga` the registers of the board, which executes
commands in order, answers each and volunteers nonces while it hashes. The
condition of the waiting loop is evaluated in two steps (`Wait`, `Wait2`), the
fields being loaded one after the other. `Program`'s block arguments are read
when each command is sent, as in the two lambdas. The Boolean results of the
`com.*()` calls are ignored by the code and do not occur.

**HashPool.** Everything at once. `ServerSpec` describes the mining threads
only by `MinerStoresNonce` and `MinerRaisesFlag`, `MinerSpec` the connection
thread only by `ServerStores` and `ServerShutsDown`; that each side really
behaves as the other assumes is the refinement `Spec => ServerSpec /\
MinerSpec`, checked by the run `pool` and proved in `HashPoolProofs`. `exit()` or a crash ends all threads
(`Running`).

**Framing and PacketChannel.** What `Connection` takes for granted: the bytes.
`ReadPacket` makes at most one read per call (a header byte, a length, some
data) and `ReadNextPacket` may give up between any two of them, leaving part of
a packet in `INCOMING` for the next call. The network delivers bytes in pieces
of any size and may drop the link in the middle of a packet. `PacketChannel`
says what the callers count on: the packets of a link, in order, and one that
stays in reach sooner or later. `inReach` is where the link comes in (`InReach` of
`Framing`): while the link is up, and after a drop as long as the next packet has
arrived and no write has met the error. A packet lost with the link is not promised,
nor that anyone notices the loss. The promise is limited to what can be framed (`Framable`): a data packet
of length zero never gets past its length (`Connection.cpp:94`), and from such
a packet on anything may be received. Nothing of the program sends one.

**TimeoutSerial and SerialLine.** What `MinerThread` takes for granted: a read
returns a message or times out. `readStringUntil` is an asynchronous read, a
timer and a loop that runs one handler of a common queue at a time. A handler
that is queued cannot be cancelled and runs in the next call, with the outcome
it was queued with, so `timeoutExpired` of one call may end the next
(`threw = "early"`). `SerialLine` says that each string returned is the next
message of the device; the promise ends when a read that completed too late for
its own call is still queued as the next one starts (`overlap`), since the two
then share one buffer.

**IniFile and Startup.** `ReadText` and the operators around it are
`ini_parse_stream` line by line: comments, continuation by indentation,
sections, errors (`Readers`: what it holds after each line). A port with the
value `FAIL` is no port, because that is the default `main` compares with
(`skminer.cpp:55`). `Startup` is `main` up to its sleep and the two constructors,
which both start a thread in the middle: `StartServerThread` is the place of
`THREAD` among the members, `InitMember` the members after it, `NewMinerThread`
to `PushBack` one turn of the loop that makes the mining threads. The
connection thread waits for `THREADS.size() == nThreads` and looks at nothing
else. `THREADS` is read while `main` appends to it; a size read in the middle of
a reallocation is the difference of pointers into two allocations and is
taken not to be the number of ports.

**What is computed.** `Skein` has `Init`, `InitExt`, `Update`, `Final`,
`Final_Pad` and `Output` over contexts, with the compression symbolic: a
chaining value is the sequence of compressions that made it. `KeccakSponge` has
the sponge and the hash calls over states kept in the same way.
`HashTemplates` puts them together as `templates.h` does and adds
`SKEINKEY2`, `SKEINMESSAGE2` and what the board makes of them. `Threefish` and
`KeccakF` are the two functions that were symbolic, on real 64-bit words and with
the tables of the code, a round or a step of a round at a time. `Uint1024` has
every operator of `base_uint` on an array of words, of `DIGIT` bits instead of
32, and `BlockCodec` the byte order, offsets and lengths of `miner.cpp` and
`CBlock`. `WordBytes` is the order of the bytes in a word, four of `Byte` values
each, which both build upon. `Numerals` is what a row of digits is worth and which
digits a number has; the words of an integer, the digits of its text and its bits
are all digits in that sense. Each is held against a definition written another way: UBI and
Skein's output, the padding and the rounds of Keccak by coordinates, the
subkeys by index, Threefish with its words permuted after every round where the
code names them in another order (`StepsAreThreefish`), `BigInteger` with the
arithmetic of the naturals.

**Links and Computations** put together units that share neither state nor
thread. A behaviour shows one unit, chosen at the start, while the others stay
as they start; since no step of one reads a variable of another, nothing a unit
can do is lost, and a run does not multiply their states.

## 3. What the runs check

| Run | Properties | Shows |
|---|---|---|
| `server` | `ServerInv`, `NoNullDereference`, `SubmissionStable`, `FreshLogin`, `ErrorsDisconnect`, `BlocksInOrder` | two mining threads, two templates: the connection thread's safety |
| `server_live` | `KeepsLooping`, `FlagServed`, `LinkLossNoticed` | it comes back to its loop for ever or ends; every flagged share is dealt with, in test mode too; a link that was closed is given up as long as shares keep coming |
| `miner` | `MinerTypeOK`, `Handshake`, `MinerNeverNull`, `PollsOneTemplate`, `NoHotReload`, `WorkGetsMined` | a mining thread, its board, failing writes, lost and late replies, a board left hashing; work that was handed out gets onto the board |
| `pool` | `MinerSpec`, `ServerSpec` | the composition implements both closed specifications |
| `links` | `NoByteLost`, `DeliversPackets`, `ReadReturns`, `ReadsMessages` | the framing implements `PacketChannel`: whole packets in order, none that stays in reach left unread; a serial read implements `SerialLine` and comes back |
| `startup` | `StartupTypeOK`, `ServerBeginsComplete`, `PortsAsConfigured`, `StartsOrEnds` | every command line and configuration within the bounds, up to the first look at the pool |
| `compute` | `StreamIsUBI`, `DigestIsSkein`, `AbsorbsInOrder`, `HashIsKeccak`, `PartsHashAsOne`, `MidStateCompletes`, `InjectsSubkeys`, `StepsAreThreefish`, `TablesAreConfigured`, `RoundsAreKeccakF`, `CountsModulo`, `ReadsWhatItWrites`, `BlockSurvivesWire`, `ShareSurvivesWire` | what is computed is what its definition says |

Four refinements are checked as properties: `Framing` of `PacketChannel`
(`DeliversPackets`), `TimeoutSerial` of `SerialLine` (`ReadsMessages`, a message
counting as written when its delimiter has arrived), `Uint1024` of `BigInteger`
(`CountsModulo`, the array read as a number), and `HashPool` of `ServerSpec` and
`MinerSpec` (the state as it is).

Five runs find what a comment or message of the code says violated by the
code (section 4): `server_no_block`, `server_verdict`, `pool_stale`,
`pool_torn`, `startup_port`.

Deadlock is checked everywhere but in `startup` and `startup_port`, where the
process may end: by a missing argument, an exception, a port that cannot be
opened.

Every property of a passing run has a mutant: an operator next to the one it
changes (`PingOnceMore` beside `PingAgain`, `ReadDataGreedy` beside `ReadData`,
...) under which the same run finds the property violated. These operators occur
in no specification.

## 4. What the runs found

1. `core.cpp:298`: while thread 0 has no block, a due meter throws away the
   work just received, does not reset its timer, and so does it again every
   pass until the program exits for want of a block (`server_no_block`).
2. `miner.cpp:226`: a packet other than a verdict counts as a rejection; the
   verdicts after it are credited to the wrong shares (`server_verdict`).
3. `MinerThread.cpp:142`: a nonce of the old block can be stored in, and
   submitted for, the new one (`pool_stale`).
4. `MinerThread.cpp:126`: a new template of the height being mined goes
   unnoticed when `m_bNewBlock` rises and falls between two looks
   (`pool_torn`, with both templates of one height).
5. `MinerThread.cpp:20`: the mining thread starts before its constructor has
   set the port's name; running at once it opens the empty name, outside its
   try block, and ends the process (`startup_port`).

The modules also show, without a run of its own: when a template has the height
of the last one, the answer to a second request replaces it and is dereferenced
untested (`core.cpp:377`, the exception in `NoNullDereference`); a packet that is
not work is "dropped" and parsed as work all the same, and the exception ends
the pass (`miner.cpp:103`, `OtherArrives`); with blocks handed out and no share
found nothing is written, and reads do not see the end of a stream, so a closed
link is taken to be open for ever (`core.cpp:180`, the hypothesis of
`LinkLossNoticed`; before the first block the meter would give the link up); the
timer of one serial read may end the next one at once (`TimeoutSerial.cpp:171`,
`threw = "early"`); a volunteered nonce may be added to the hash counter
(`ApertureSerialComm.cpp:176`, `m_unHashes`); the optional arguments are read one
place too early (`skminer.cpp:35`, `BadArguments`); a data packet of length zero
puts the stream out of step (`Connection.cpp:94`, `Framable`).

## 5. Bounds

* `MaxWork = 2`: an old and a new template are what staleness, torn
  programming and misattributed verdicts take; the height is distinct or
  shared (`DistinctHeights`, `SameHeight`).
* `NThreads = 2` in `server`, so that the loops over the threads, the break
  after a share and "thread 0 has no block" mean something; mining threads do
  not touch each other, so one is enough elsewhere. `FlagServed` is checked
  for one only: with several, a thread that always finds shares can keep the
  ones behind it waiting (`core.cpp:536`).
* `MaxToPool = 1`: the client has one request under way, and a second one
  means the pool does not read: the link drops. `MaxToClient = 2`: a reply and a
  pushed template; more wait at the pool.
* `MaxAttempts = 0` or `1` for 8: each counter reaches its limit and stays there.
* `TestModes`: both values of the TEST_MODE argument in `server` and
  `server_live`, where test mode makes a difference; normal mode elsewhere.
* `MaxTx = 2` in `miner` lets commands pile up in front of a slow board;
  `MaxRx = 1` makes the reply queue overrun, which loses replies.
* Time is not counted: a clock turns out due when it is looked at, or not.
* `links`: `LengthBytes = 2` for 4, so that a length is more than one read and
  more than one byte; three packets out of a request, data of one and of two
  bytes (one of them 255, which looks like the null header) and the packet that
  cannot be framed; three messages and four reads, enough for a handler to
  outlive its call and for a read to start in the middle of a message.
* `startup`: every file of at most four lines out of ten (two section headers,
  two ports, an empty value, a port called `FAIL`, two indented lines, a blank and
  a broken one), so
  that a value can be given twice, continued, or follow a broken header; up to
  five arguments, of which the third and fourth may be numbers or not.
* `compute`: message pieces of 0, 1, 31, 64 and 129 bytes up to 160, which lie
  on both sides of every block boundary of the three sizes; output lengths with
  and without a table, of one block and more; Keccak rates of 72 and 128 bits,
  where blocks are short and rates are no whole lanes, in addition to those of
  the templates; all thirteen tables of `skein_iv.h`; three states of the
  permutation, all 24 rounds; integers of three words of 8 bits (`DIGIT = 8`,
  so a byte takes `Byte = 4` values) from ten values around every carry, two
  operations in a row and all shifts; blocks with hashes of two words.

## 6. Fairness

Weak fairness of the connection thread, of each mining thread and of each
board's execution of the commands it was sent: the operating system schedules
threads and the board runs. Every wait in the code ends by a timeout, which is
a step of the waiting thread. Nothing is asked of the pool, the link or the
finding of nonces. Two properties have a hypothesis of their own:
`WorkGetsMined`, that from some time on no serial write throws
(`WritesSucceedAtLast`), and `LinkLossNoticed`, that shares keep coming
(`SharesKeepComing`), since nothing else need ever be sent.

`links`: the network delivers what it carries; the waiting loop runs; a caller
that keeps finding a packet resets it some time (strong fairness: every
`WaitWorkUpdate` does). Nothing is assumed of noticing that a link was dropped:
the main loop writes only when a thread wants a block or has flagged a share, and
`Ping` is called only before its first pass, so `WriteFails` and `Disconnect` need
never happen, and `DeliversPackets` promises only what stays in reach. A serial read runs the handlers that are queued, and its timer,
which the code always sets, runs out.

`startup`: `main` and the connection thread are scheduled; nothing is asked of
the mining threads. `compute` has safety properties only.

## 7. Proofs

The proofs hold for every number of threads, templates, heights, attempts and
buffer sizes, under the assumptions named in the modules: at least one thread
and one template, a null pointer that is no block, buffers that hold at least
one message (two to the client), heights that do not fall as templates get newer
(`WorkAssumption`; no proof uses that last part). `PollsOneTemplateHolds` has one
hypothesis more, heights that tell templates apart.

`PacketsAssumption` asks a packet to have a byte for a header, a length that fits
the length header and bytes for data; `StartupAssumption` an argument list and
lines of the kinds the parser tells apart; `CodecAssumption` hashes of at least one
word; `ByteAssumption` more than one value for a byte; `DigitAssumption` words of a
multiple of eight bits, at least two of them, and operands that fit into them, which
holds of the code's 8, 18 and 32 words of 32 bits; `SizesAssumption` the
three block sizes of Skein and outputs of at least one bit; `SpongeAssumption`
rates that are multiples of eight, which `Keccak_SpongeInitialize` checks;
`LengthAssumption`, which no proof uses, lengths that fit an unsigned int, below
which the casts of `KeccakSponge.c:70` and `179` change nothing (the program hashes
no more than a header and a nonce at once);
`TemplatesAssumption` lengths and nonces that are numbers; `BlocksAssumption` blocks
of one of the three sizes, with as many words of 64 bits in the block and in the
chaining value; `StatesAssumption` states of 25 words of 64 bits. All are evaluated by TLC on
the runs' constants.

| Module | Theorem | Says |
|---|---|---|
| `HashPoolProofs` | `ServerInvariant` | `ServerSpec => []SInv` |
| | `ServerTypeCorrect`, `NoNullDereferenceHolds`, `SubmissionStableHolds`, `FreshLoginHolds`, `ErrorsDisconnectHolds` | the invariants of the run `server` |
| | `OrderInvariant` | `ServerSpec => []OInv` |
| | `BlocksInOrderHolds` | the action property of the run `server` |
| | `MinerInvariant` | `MinerSpec => []MinerInv` |
| | `MinerTypeCorrect`, `HandshakeHolds`, `NeverNullHolds` | `MinerTypeOK`, `Handshake`, `MinerNeverNull` |
| | `BoardInvariant` | `MinerSpec => []BoardInv` |
| | `NoHotReloadHolds`, `PollsOneTemplateHolds` | the other two safety properties of the run `miner` |
| | `PoolInvariant` | `Spec => [](OInv /\ MinerInv)` |
| | `TypeCorrect` | `Spec => []TypeOK` |
| | `ImplementsServerSpec`, `ImplementsMinerSpec` | `Spec => ServerSpec`, `Spec => MinerSpec` |
| `LinksProofs` | `FramingInvariant` | `FramingSpec => []FramingInv` |
| | `NoByteLostHolds` | `FramingSpec => []NoByteLost` |
| | `ChannelIsImplemented` | `FramingSpec => Channel!Safety`: it implements `PacketChannel` but for fairness |
| | `SerialInvariant` | `SerialSpec => []SerialInv` |
| | `ReadsMessagesHolds` | `SerialSpec => ReadsMessages`: it implements `SerialLine` |
| | `LinksImplementBoth`, `PromisesHoldBeside` | of `Links`: `Spec => FramingSpec /\ SerialSpec`, so `Channel!Safety`, `NoByteLost` and `ReadsMessages` hold of the two side by side |
| `StartupProofs` | `StartupInvariant` | `StartupSpec => []StartupInv` |
| | `StartupTypeCorrect`, `ServerBeginsCompleteHolds`, `PortsAsConfiguredHolds` | the safety properties of the run `startup` |
| `IntegerProofs` | `CodecInvariant` | `CodecSpec => []CodecInv` |
| | `BlockSurvivesWireHolds`, `ShareSurvivesWireHolds` | both properties of the codec |
| | `UiTypeCorrect` | `UiSpec => []UiTypeOK`: every operator leaves words |
| | `WordsCount` | `UiSpec => CountsModulo`: it implements `BigInteger` |
| | `ReadsWhatItWritesHolds` | `UiSpec => []ReadsWhatItWrites` |
| `SkeinProofs` | `SkeinInvariant` | `SkSpec => []SkInv` |
| | `StreamIsUBIHolds`, `DigestIsSkeinHolds` | both properties of Skein |
| | `TfInvariant` | `TfSpec => []TfInv` |
| | `InjectsSubkeysHolds`, `StepsAreThreefishHolds` | the key schedule, and every step of the block function |
| `KeccakProofs` | `SpongeInvariant` | `SpSpec => []SpInv` |
| | `AbsorbsInOrderHolds`, `HashIsKeccakHolds` | both properties of the sponge |
| | `KfInvariant` | `KfSpec => []KfInv` |
| | `RoundsAreKeccakFHolds` | the rounds of the permutation |
| `HashTemplatesProofs` | `TemplatesInvariant` | `HtSpec => []TpInv` |
| | `PartsHashAsOneHolds`, `MidStateCompletesHolds` | both properties of the templates |
| | `TemplatesImplement`, `HashesHoldBeside` | `HtSpec => SkSpec /\ SpSpec`, so what is proved of a context and of an instance holds beside the templates |
| | `ComputationsImplement`, `ComputedAsDefined` | of `Computations`: `Spec => HtSpec /\ TfSpec /\ KfSpec /\ UiSpec /\ CodecSpec`, so every property of the run `compute` but `TablesAreConfigured` holds of the specification that run checks |

**The mining thread.** `MinerInv` is the types, `Handshake` and
`MinerNeverNull`. `Handshake` needs no more: of the points past the waiting loop
only `flag` raises the flag, and `Wait2` passes only when it is lowered.
`MinerNeverNull` is inductive because no step of the connection thread sets a
block pointer back to null. One lemma per operator that transforms data
(`SetNonceKeeps`, `PopKeeps`, `NextCommandKeeps`), one for the connection
thread (`ServerKeepsMinerInv`), one for the thread (`MinerStepInv`, one step per
action), one for the board (`BoardStepInv`).

**The board.** A command is executed long after it was written, so what is
proved is about the commands under way: what the board will do when it has
executed them. `Rests` and `Hashes` say whether it then rests or hashes (the
last switch decides), `Holds` what a register then holds (the last load
decides). `BoardInv` has one conjunct for each question. `SwitchInv`: between
`disable` and `enable` of a pass the board comes to rest, after it to hashing.
`ColdInv`: no load under way meets a hashing board, whatever the pass it was
written in, so `NoHotReload` follows. `LoadInv`: a register is loaded from a block between the
one whose height the thread remembers and the present one, because blocks get
no older. `OneInv`: at the height check the two ends of that span have one
height; if heights tell templates apart they are one template. The lemmas
`AppendSwitch`, `AppendLoad`, `ExecuteSwitch` and `ExecuteLoad` say what
writing and executing a command do to the three operators; all else is about
the thread, action by action.

**The connection thread.** None of the properties is inductive. `SInv` adds:

* `NetInv`: every packet that says `BLOCK_DATA` carries work, in the socket and
  in `INCOMING`; without it `pWork` need not be a template;
* `LeftOver`: the only points where `INCOMING` may hold a packet (after a
  verdict that was none, until the next `WaitWorkUpdate`) or an error may be
  pending on an open link; `FreshLogin` and `ErrorsDisconnect` follow;
* `LoopInv`: `nIndex` is a thread, and `pWork` is work, where they are used;
* `FoundHasBlock`: a raised `m_bBlockFound` stands over a block, so that the
  share read from it exists.

The proof sorts the actions by what they touch (`ControlSteps`, `NetSteps`,
`ObjectSteps`) and uses one lemma per operation of the connection.

**The order of work.** `MinerSpec` assumes that a block is never replaced by
older work: the mining thread tells two blocks apart by height alone. That
holds because nothing on the way overtakes: `NetOrder` says so of the queue, of
`INCOMING` (read before the socket) and of the pool's `tip`, `WorkOrder` adds
`pWork` and the threads' blocks, and `Assigning` that a thread's flag is up
while it is being given work. `AppendedWork` and `ShorterQueue` are the two
things that can happen to the queue.

**The program.** A step of a mining thread maps to `MinerStoresNonce`,
`MinerRaisesFlag` or a stutter (`MinerStepMaps`, from `Handshake` and
`MinerNeverNull`); a step of the connection thread to `ServerStores`,
`ServerShutsDown` or a stutter (`ServerStepMaps`, from `Assigning`, `WorkOrder`
and `SubmissionStable`). Each mapping needs an invariant proved under the
other's assumption; `JInv`, both invariants at once, resolves the circle:
`JInv` and a step of the program give a step of both closed specifications
(`NextMaps`), each of which keeps its invariant. So everything proved of
`ServerSpec` and `MinerSpec` holds of the program.

**The TCP link.** `FramingInv` is about the whole stream: what was received is a
prefix of what was sent (`ReceivedInOrder`), `INCOMING` is a part of the next
packet (`PartInOrder`), and the socket followed by the wire is what remains to be
read, but for a tail lost with the link (`StreamInOrder`). The three need each
other. A read takes its bytes from the front of the socket, whatever `INCOMING` asks
for, so it completes the right packet only while the two are aligned, and they
stay aligned only because every earlier packet was taken whole. The claim ends
with the first packet that cannot be framed, as does the promise of
`PacketChannel`. `LengthSurvives` says that a length written as bytes is read
back, for a length header of any width. `NoByteLost` follows by adding up the
lengths; the refinement is `ReceivedInOrder` at the moment a packet is taken.

**A serial read.** `SerialInv` says where the bytes of the device are: two
pieces for every message returned, then what is in `readData`, then what the one
completed read in the queue carries, then what waits in the port, and all
of them are consecutive (`Stream`). The queue may hold any number of leftover
handlers, of which at most one carries data. A read returns a message when
`readData` and that data hold a delimiter, and since an even number of pieces
was returned so far the delimiter found is the one of the next message
(`SegmentDelim`). When a read would overlap another nothing more is claimed,
nor does `SerialLine` claim it.

**The start.** `ServerBeginsComplete` is about everything `main` sets, while the
connection thread sees only the size of `THREADS`. `StartupInv` puts `main`'s
points in order (`MainInv`: no mining thread before the last member is set) and
relates the size to the objects (`ThreadsInv`: while a mining thread is being
made there is one object more than `THREADS` counts, and all the others are
complete). With a port configured, the size reaches the number of ports only
after the last `PushBack`.

**The file.** `ParserKnows` says what the parser holds after each line: the
section of the last header, a value for a name of a section if and only if the
file gave it one, and as that value all texts given, joined (`Knows`; an empty text
does not count until another one is there). `HeaderStep`, `TextsAre` and
`KnowsMore` follow one line through both sides, `PortsInv` the scan through the seven
names: the ports found up to a name are those configured up to it.

**The codec.** `BytesMakeWord` is the arithmetic (four digits of base `Byte` make up
a word and come back, by division), `GetBytesIs` and `SetBytesReads` the two
byte orders over words of any number, `PiecesReadBack` the cutting of a header at the
offsets `DeserializeBlock` counts from the front and from the end.
`BlockSurvivesWire` is inductive only with what is in the packet under way, which
`CodecInv` adds.

**The integers.** `Uint1024` works on words, `BigInteger` on numbers, and the proof is
about what lies between, the digits. `NumberSplits`, `DigitOfNumber`,
`NumberOfDigits` and `SameDigits` say that digits and numbers are the same thing,
whatever the base: the value of an integer has its words as digits, each of
those its bits (`DigitOfDigit`), and every fourth of these is a digit of the
text. The operators come in three kinds. Addition, subtraction,
increment, decrement and negation pass something from word to word: `Carries`
adds it up, in either direction, and what leaves the topmost word is the
modulus. Shifts make each word out of two neighbours: `WordUp` and `WordDown` say
which bits it gets, shifting by no bits included, where the code takes care not to
shift a word by its whole width; `ShiftLeftIs` and `ShiftRightIs` compare the bits
with those of a product and a quotient. Comparisons decide at the topmost words
that differ (`DecidesIs`). `StepCounts` puts the operators together: every step of
`UiSpec` is one of `BigInteger`, under the mapping `Value`. Reading and writing
is about the same digits: `SkipsPrefix` says what `SetHex` passes over, `PrefixSize` how
far it reads.

**Skein.** `StreamIsUBI` and `DigestIsSkein` are not inductive: they do not say
what `b[]` holds beyond the bytes that wait, what `Final_Pad` leaves for `Output`,
nor that a context can be used again. `SkInv` says of a context that was given
n bytes: some whole blocks were compressed, in order, each under the tweak of its
place, and the others wait in `b[]`, never more than one block and never none
once there were any. `UpdateStreams` shows that each of the three stages of
`Update` (fill the buffer, compress past it, keep the rest) leads from such a state
to such a state, `LastBlock` and `PadCompletes` that padding ends it as UBI does,
`CounterModeIs` that the output loop is Skein's output function, `TableIs` and `InitIs`
that a tabulated chaining value is the one the configuration block gives.

**Keccak.** The input is put on a tape of bytes without an end, behind it the partial
byte joined with the suffix. `Stands` says where on the tape a sponge is: which
blocks were permuted, how far the next one is filled. `AbsorbTurnIs` is one
turn of the absorbing loop, which takes whole blocks or pieces. `LastBitsAre` and
`PaddedIs` close the input: the delimiter may fill the last byte of a block, which
makes another one of nothing but the final bit. `StandsOut` says the same of a
sponge that is read. The two properties are not inductive: neither says how the
position of the sponge goes with the output, and nothing is said before the
squeezing. The loops are bounded by `MaxTurns` in the model; `LoopEnds` shows that
they end within it.

**The block function.** `TfInv` says where in its one array the key schedule
stands: after n injections the key part and the tweak part are windows of the
extended key and of the extended tweak, n places on (`Schedule`), which is what makes
the words read next those of the next subkey. For 256 and 512 bits the array does not
change and the indices are taken modulo its length; for 1024 bits `Turn` writes two
words, and the window stays whole because the key word is copied before the
tweak is written over it. The rounds are about places: reading the words in the order
of the round (`Cipher`) turns a round in place into mixing and permuting, since
the order of each round is the order of the one before after the permutation, and
after eight rounds it is back where it was. An injection adds to each word a sum, the
definition adds the sum of two to it; `AddAssociates` says that this is the same, from
`AddCounts`: the carries of `Add64` make it the sum modulo 2^64 of what the words are
worth as numbers, which the digits of `SharedLemmas` tell.

**The permutation.** `KfInv` holds the state against the start of its round.
Theta: the exclusive or of five lanes has a bit where an odd number of them has
(`InXor5`, `CountFive`). Rho and pi: `Walked` says which lanes have been moved after
x turns of the walk, which are still in their place and which is in `temp`; that the walk
comes through every lane but the first, once, is `TurnOfIs`, that a lane is put where the
coordinates say and turned by what they say is `LaneAtIs`, `OffsetIs` and `PlacedIs`.
Iota: the shift register is followed through its 168 turns (`RegistersAre`), the bits it
gives are those of the constants of the definition (`ConstantsAre`).
`RoundOfKeccak` puts the steps together.

**The templates.** `Feeding` is a context that was given some parts, and
`PartFed` gives it one more, however long; `RecipesAre` and `TemplateIs` go through
the five templates with their rates, lengths and suffixes. Two headers that
differ in the last eight bytes only have a first block in common; 88 bytes wait
behind it (`HeaderWaits`), the nonce among them, and swapping the bytes of words
twice changes nothing (`SwapIs`). So the board can put in any nonce and go on
(`BoardCompletes`), and the digest is the first stage of `GetHash` for that nonce.
`TpInv` is small, because a template is one step; that contexts and instances
run beside it is `TemplatesImplement`.

**Side by side.** A run checks `Links` or `Computations`, a theorem is stated of
the part. `LinksImplementBoth` and `ComputationsImplement` connect the two: a
step of the composition is a step of each part or leaves it alone. So
`PromisesHoldBeside` and `ComputedAsDefined` state of the very specifications
the runs `links` and `compute` check what the runs show of small instances.

**Induction.** `SharedLemmas` gives the provers what the library's induction
theorems, with their predicate parameters, cannot: induction over a set of naturals
(`Induct`, `InductUpTo`), that a recursive function exists and is unique
(`RecursionUpTo`, `RecursionUnique`), and that a loop's value is known once a
function that satisfies its recursion is named (`StepsAre`). Loops are therefore
recursive functions in the modules proved about.

**Only model-checked.** All liveness (`KeepsLooping`, `FlagServed`, `LinkLossNoticed`,
`WorkGetsMined`, `ReadReturns`, `StartsOrEnds`) and the fairness half of
`DeliversPackets`, which are out of the reach of the proof system as is anything about
ENABLED. Of `compute` only `TablesAreConfigured`:
it compares thirteen tables of numbers with what is computed for
them, which a run settles for good.

The theorems about the threads
hold of the program once its objects are constructed; `StartupProofs` says that
they are when the connection thread begins, `startup_port` that a mining
thread may begin too early.

## 8. Not modelled

* `DDOS_Filter`, `DDOS_Score`: a server's protection against clients. This
  program is a client, gives its connection no filter and calls none of it, so
  no state of the program depends on it.
* The duplex object of Keccak and the tree mode of Skein: never called.
* `SetChannel`, `GetBlock`, `GetHeight` of `LLP::Miner`, `read` and `readString`
  of `TimeoutSerial`, the copies of `CBlock` and `MinerThread`, `GetInteger`,
  `GetReal` and `GetBoolean` of `INIReader`: never called.
  `MinerThread::m_bBenchmark` is never set.
* Printed statistics, `GetDifficulty` and console output: nothing but the
  output depends on them.
* The clock behind `Timer`: a wait is over when it turns out to be.
* The text of serial commands and of the digits in replies; the starting nonce
  of a scan; blocking inside a synchronous serial write beyond a full buffer.
  In `MinerThread` a failing serial read behaves as a timeout; `TimeoutSerial`
  has both.
* Lines of `config.ini` of 200 characters and more, which `fgets` cuts in two, and
  names of 50 and more, which are cut off (`INI_MAX_LINE`, `MAX_NAME`).
* Calls of Keccak that are refused: input after the output has begun
  (`KeccakSponge.c:47`, `111`), output lengths that are no whole bytes
  (`KeccakHash.c:76`). No caller makes them.
* Data of a block shorter than its header, which makes the offsets of
  `DeserializeBlock` cross and which no sender of this protocol produces.
* Old and platform headers, build files: no behaviour of their own.
