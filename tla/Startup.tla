------------------------------ MODULE Startup ------------------------------
(***************************************************************************)
(* main and the constructors of ServerConnection and MinerThread: how the  *)
(* program gets from its command line to the threads the other modules     *)
(* start with.  Both constructors start a thread before they are done, so  *)
(* three kinds of thread run side by side: main, the connection thread and *)
(* the mining threads.                                                     *)
(*                                                                         *)
(* THREADS is read by the connection thread while main appends to it.  A   *)
(* size read in the middle of a reallocation is a difference of pointers   *)
(* into two allocations; it is taken not to be the number of ports.        *)
(***************************************************************************)
EXTENDS IniFile

CONSTANTS
  Arguments,  \* the command lines: sequences over ArgumentKinds
  Files       \* what config.ini may be: a file of some lines, or NoFile

ArgumentKinds == {"text", "number", "bit"}

ASSUME StartupAssumption ==
  /\ Arguments \subseteq Seq(ArgumentKinds)
  /\ \A f \in Files : f = NoFile \/ (f.opens /\ f.lines \in Seq(Lines))

VARIABLES
  process,    \* "running", "ended" or "crashed"
  mpc,        \* control point of main
  file,       \* config.ini
  comPorts,   \* the ports found, in order
  nPort,      \* main's index in the scan for ports
  late,       \* members of ServerConnection constructed after THREAD
  nIndex,     \* the constructor's loop index
  THREADS,    \* how many mining threads have been appended
  object,     \* fields of each MinerThread object under construction
  tpc,        \* control point of each mining thread
  opened,     \* the port each of them opened, or tried to
  spc         \* control point of the connection thread

startupVars == <<process, mpc, file, comPorts, nPort, late, nIndex, THREADS,
                 object, tpc, opened, spc>>

(* The members initialised after THREAD has started the connection thread. *)
Late == <<"TIMER", "StartTimer", "IP", "PORT", "m_szLogin", "bBenchmark">>

MaxThreads == Len(PortName)
nThreads   == Len(comPorts)

NotOpened == <<"not opened">>
Unset     == <<>>                 \* the empty string

Raw == [m_bShutdown : BOOLEAN, m_sComPort : {Unset}]

StartupInit ==
  /\ process = "running" /\ mpc = "args"
  /\ file \in Files
  /\ comPorts = <<>> /\ nPort = 0
  /\ late = 0 /\ nIndex = 0 /\ THREADS = 0
  /\ object = <<>> /\ tpc = <<>> /\ opened = <<>>
  /\ spc = "unborn"

mainVars    == <<file, comPorts, nPort, late, nIndex, THREADS>>
threadState == <<object, tpc, opened>>

Dies(how) == /\ process' = how
             /\ UNCHANGED <<mpc, mainVars, threadState, spc>>

(* boost::lexical_cast throws on what is not of the type, and main catches *)
(* nothing.                                                                *)
IsInt(kind)  == kind \in {"number", "bit"}
IsBool(kind) == kind = "bit"

(* The address is taken from argv[3] when there are two arguments as well, *)
(* and the timeout and the test mode from the places before theirs.        *)
BadArguments(args) ==
  \/ Len(args) = 2
  \/ Len(args) > 3 /\ ~ IsInt(args[3])
  \/ Len(args) > 4 /\ ~ IsBool(args[4])

ReadArguments(args) ==
  /\ mpc = "args"
  /\ IF Len(args) < 2 THEN Dies("ended")
     ELSE IF BadArguments(args) THEN Dies("crashed")
     ELSE /\ mpc' = "config"
          /\ UNCHANGED <<process, mainVars, threadState, spc>>

(* A file that cannot be opened leaves no port.                            *)
ReadConfig ==
  /\ mpc = "config"
  /\ IF INIReader(file).error < 0
     THEN mpc' = "members" /\ file' = NoFile
     ELSE mpc' = "scan" /\ UNCHANGED file
  /\ UNCHANGED <<process, comPorts, nPort, late, nIndex, THREADS, threadState, spc>>

ScanPort ==
  /\ mpc = "scan"
  /\ LET comPort == Get(INIReader(file), "com", PortName[nPort + 1], FAIL)
     IN comPorts' = IF comPort # FAIL THEN Append(comPorts, comPort) ELSE comPorts
  /\ nPort' = nPort + 1
  /\ IF nPort' = MaxThreads
     THEN mpc' = "members" /\ file' = NoFile
     ELSE UNCHANGED <<mpc, file>>
  /\ UNCHANGED <<process, late, nIndex, THREADS, threadState, spc>>

(* nThreads, nTimeout and THREADS come before THREAD in the class, so the  *)
(* connection thread starts with these three set and nothing else.         *)
StartServerThread ==
  /\ mpc = "members"
  /\ spc' = "wait" /\ mpc' = "late"
  /\ UNCHANGED <<process, mainVars, threadState>>

InitMember ==
  /\ mpc = "late"
  /\ late' = late + 1
  /\ mpc' = IF late' = Len(Late) THEN "loop" ELSE "late"
  /\ UNCHANGED <<process, file, comPorts, nPort, nIndex, THREADS, threadState, spc>>

(* Mutant of MoreThreads: one pass of the loop too many.                   *)
MoreThreadsOnePast == nIndex <= nThreads

MoreThreads == nIndex < nThreads

(* The object is new memory: its thread starts before the constructor has  *)
(* set m_bShutdown, and with an empty port name.                           *)
NewMinerThread ==
  /\ mpc = "loop" /\ MoreThreads
  /\ \E raw \in Raw : object' = Append(object, raw)
  /\ tpc' = Append(tpc, "boot") /\ opened' = Append(opened, NotOpened)
  /\ mpc' = "shutdown"
  /\ UNCHANGED <<process, mainVars, spc>>

SetShutdown ==
  /\ mpc = "shutdown" /\ mpc' = "port"
  /\ object' = [object EXCEPT ![nIndex + 1].m_bShutdown = FALSE]
  /\ UNCHANGED <<process, mainVars, tpc, opened, spc>>

SetComPort ==
  /\ mpc = "port" /\ mpc' = "push"
  /\ object' = [object EXCEPT ![nIndex + 1].m_sComPort = comPorts[nIndex + 1]]
  /\ UNCHANGED <<process, mainVars, tpc, opened, spc>>

PushBack ==
  /\ mpc = "push" /\ mpc' = "loop"
  /\ THREADS' = THREADS + 1 /\ nIndex' = nIndex + 1
  /\ UNCHANGED <<process, file, comPorts, nPort, late, threadState, spc>>

(* main sleeps for ever.                                                   *)
MainIdle ==
  /\ mpc = "loop" /\ nIndex = nThreads
  /\ UNCHANGED startupVars

(* The port is opened outside the thread's try block: a name that is no    *)
(* device ends the process.                                                *)
OpenPort(t) ==
  /\ tpc[t] = "boot"
  /\ opened' = [opened EXCEPT ![t] = object[t].m_sComPort]
  /\ \/ /\ object[t].m_sComPort # Unset
        /\ tpc' = [tpc EXCEPT ![t] = "top"]
        /\ UNCHANGED process
     \/ process' = "crashed" /\ UNCHANGED tpc
  /\ UNCHANGED <<mpc, mainVars, object, spc>>

(* Past the test m_pBLOCK is null until ServerThread sets it.              *)
TestShutdown(t) ==
  /\ tpc[t] = "top"
  /\ tpc' = [tpc EXCEPT ![t] = IF object[t].m_bShutdown THEN "stopped" ELSE "wait"]
  /\ UNCHANGED <<process, mpc, mainVars, object, opened, spc>>

(* Mutant of AllCreated: the first thread is enough.                       *)
AllCreatedFirst == THREADS > 0 \/ nThreads = 0

(* Mutant of AllCreated: one thread too many is waited for.                *)
AllCreatedAndOne == THREADS > nThreads

AllCreated == THREADS = nThreads

(* new LLP::Miner(IP, PORT): a string that is not constructed yet may be   *)
(* copied or may bring the process down.                                   *)
BeginServing ==
  /\ spc = "wait" /\ AllCreated
  /\ \/ spc' = "serving" /\ UNCHANGED process
     \/ late < Len(Late) /\ process' = "crashed" /\ UNCHANGED spc
  /\ UNCHANGED <<mpc, mainVars, threadState>>

Main == \/ \E args \in Arguments : ReadArguments(args)
        \/ ReadConfig \/ ScanPort \/ StartServerThread \/ InitMember
        \/ NewMinerThread \/ SetShutdown \/ SetComPort \/ PushBack \/ MainIdle

StartupNext ==
  /\ process = "running"
  /\ \/ Main
     \/ BeginServing
     \/ \E t \in DOMAIN tpc : OpenPort(t) \/ TestShutdown(t)

StartupSpec == StartupInit /\ [][StartupNext]_startupVars

(* Both threads are scheduled; nothing is asked of the mining threads.     *)
StartupFairSpec ==
  /\ StartupSpec
  /\ WF_startupVars(process = "running" /\ Main)
  /\ WF_startupVars(process = "running" /\ BeginServing)

-----------------------------------------------------------------------------
(***************************************************************************)
(* Types: at most one object per port, and no port that was not found.     *)
(***************************************************************************)
StartupTypeOK ==
  /\ process \in {"running", "ended", "crashed"}
  /\ late \in 0..Len(Late)
  /\ nPort \in 0..MaxThreads
  /\ nThreads \in 0..MaxThreads /\ nIndex \in 0..nThreads /\ THREADS \in 0..nThreads
  /\ Len(object) = Len(tpc) /\ Len(opened) = Len(tpc) /\ Len(tpc) \in 0..nThreads

(***************************************************************************)
(* core.cpp:120, "Don't begin until all mining threads are Created": with  *)
(* a port configured the connection thread finds every member of the       *)
(* object, every thread in THREADS and every thread's fields set, although *)
(* it was started in the middle of the constructor and looks at nothing    *)
(* but the size of the vector.                                             *)
(***************************************************************************)
ServerBeginsComplete ==
  spc = "serving" /\ nThreads > 0 =>
    /\ late = Len(Late)
    /\ Len(object) = nThreads
    /\ \A t \in DOMAIN object : /\ object[t].m_sComPort = comPorts[t]
                                /\ ~ object[t].m_bShutdown

(***************************************************************************)
(* What config.ini means, without a parser: line i belongs to the last     *)
(* header at or before it, and a port is the texts given to its name under *)
(* [COM], in order.  Stated of files without indented lines, which the     *)
(* parser takes for the continuation of the value above them.              *)
(***************************************************************************)
HeaderOf(lines, i) ==
  LET headers == {j \in 1..i : lines[j].kind = "section"}
  IN IF headers = {} THEN "" ELSE lines[Max(headers)].name

(* The texts given to the name up to each line.                            *)
Texts(lines, section, name) ==
  LET mine(i) == /\ lines[i].kind = "pair" /\ lines[i].name = name
                 /\ HeaderOf(lines, i) = section
      texts[i \in 0..Len(lines)] == IF i = 0 THEN <<>>
                                    ELSE IF mine(i) THEN Append(texts[i - 1], lines[i].text)
                                    ELSE texts[i - 1]
  IN  texts

(* Nothing needs no line end after it.                                     *)
WithoutEmptyHead(texts) ==
  LET full == {i \in DOMAIN texts : texts[i] # ""}
  IN IF full = {} THEN <<>> ELSE SubSeq(texts, Min(full), Len(texts))

(* The ports up to each of the seven names; one that is called FAIL is no  *)
(* port.                                                                   *)
Ports(f) ==
  LET texts(i) == Texts(f.lines, "com", PortName[i])[Len(f.lines)]
      port(i)  == WithoutEmptyHead(texts(i))
      ports[i \in 0..MaxThreads] ==
        IF i = 0 THEN <<>>
        ELSE IF texts(i) # <<>> /\ port(i) # FAIL THEN Append(ports[i - 1], port(i))
        ELSE ports[i - 1]
  IN  ports

ConfiguredPorts(f) == Ports(f)[MaxThreads]

Unindented(f) == \A i \in DOMAIN f.lines : ~ f.lines[i].indent

(***************************************************************************)
(* config.ini, "It can map to any com port": the program starts one thread *)
(* for each PORTn of the [COM] section, in the order of n, whatever lines, *)
(* sections and errors surround it (INIReader.h:169, skminer.cpp:58).      *)
(***************************************************************************)
PortsAsConfigured ==
  [][mpc # "members" /\ mpc' = "members" /\ Unindented(file) =>
       comPorts' = ConfiguredPorts(file)]_startupVars

(***************************************************************************)
(* The program gets as far as serving the pool, unless it ends: no port    *)
(* and no order of the three threads leaves the connection thread waiting  *)
(* for mining threads that are never appended (core.cpp:121).              *)
(***************************************************************************)
StartsOrEnds == <>(spc = "serving" \/ process # "running")

(***************************************************************************)
(* core.cpp:47, "launch new threads for each com port": a thread opens the *)
(* port it was created for.                                                *)
(***************************************************************************)
OpensItsPort == \A t \in DOMAIN opened : opened[t] \in {NotOpened, comPorts[t]}

=============================================================================
