--------------------------- MODULE StartupProofs ---------------------------
(***************************************************************************)
(* Startup for every command line and every config.ini: the size of        *)
(* THREADS, which is all the connection thread looks at, tells it that     *)
(* main is through with the constructor, and the ports main finds are the  *)
(* ones the file gives.                                                    *)
(***************************************************************************)
EXTENDS Startup, SharedLemmas

Before   == {"args", "config", "scan", "members"}  \* no other thread yet
Creating == {"shutdown", "port", "push"}           \* a thread not in THREADS

Constructed(t) == /\ object[t].m_sComPort = comPorts[t]
                  /\ ~ object[t].m_bShutdown

(* What a port is called is no matter: there is a set of all names in use. *)
Sequences ==
  /\ \E Names : /\ Unset \in Names
                /\ comPorts \in Seq(Names)
                /\ object \in Seq([m_bShutdown : BOOLEAN, m_sComPort : Names])
                /\ opened \in Seq(Names \cup {NotOpened})
  /\ tpc \in Seq({"boot", "top", "wait", "stopped"})

(* Main goes through its points in order, and what it has done by each.    *)
MainInv ==
  /\ mpc \in Before \cup Creating \cup {"late", "loop"}
  /\ nPort \in 0..MaxThreads /\ nThreads <= nPort
  /\ mpc = "scan" => nPort < MaxThreads
  /\ mpc \in {"args", "config"} => nPort = 0
  /\ mpc \in Before => spc = "unborn" /\ late = 0
  /\ mpc \in Before \cup {"late"} => nIndex = 0
  /\ mpc = "late" => late < Len(Late)
  /\ mpc \in Creating \cup {"loop"} => late = Len(Late)

(* Between the loop's points one object more exists than THREADS counts,   *)
(* and that one is unfinished up to main's last step.                      *)
ThreadsInv ==
  /\ THREADS = nIndex
  /\ Len(object) = IF mpc \in Creating THEN nIndex + 1 ELSE nIndex
  /\ mpc \in Creating => nIndex < nThreads
  /\ \A t \in 1..nIndex : Constructed(t)
  /\ mpc \in {"port", "push"} => ~ object[nIndex + 1].m_bShutdown
  /\ mpc = "push" => object[nIndex + 1].m_sComPort = comPorts[nIndex + 1]

(* THREADS is full for good once the connection thread has seen it full.   *)
ServingInv == spc = "serving" => THREADS = nThreads

StartupInv == /\ StartupTypeOK
              /\ Sequences
              /\ MainInv
              /\ ThreadsInv
              /\ ServingInv

(* The two sequences whose lengths bound everything.                       *)
LEMMA Lengths == MaxThreads = 7 /\ Len(Late) = 6
  BY DEF MaxThreads, PortName, Late

LEMMA StartupInitInv == StartupInit => StartupInv
<1> SUFFICES ASSUME StartupInit PROVE StartupInv
  OBVIOUS
<1>1. Sequences
  <2>1. /\ Unset \in {Unset}
        /\ comPorts \in Seq({Unset})
        /\ object \in Seq([m_bShutdown : BOOLEAN, m_sComPort : {Unset}])
        /\ opened \in Seq({Unset} \cup {NotOpened})
        /\ tpc \in Seq({"boot", "top", "wait", "stopped"})
    BY DEF StartupInit
  <2> QED
    BY <2>1 DEF Sequences
<1>2. Len(comPorts) = 0 /\ Len(object) = 0 /\ Len(tpc) = 0 /\ Len(opened) = 0
  BY DEF StartupInit
<1> QED
  BY <1>1, <1>2, Lengths
  DEF StartupInit, StartupInv, StartupTypeOK, MainInv, ThreadsInv, ServingInv,
      nThreads, Before, Creating

(* One field of one object replaced: what main does after a thread's start. *)
LEMMA SetField ==
  ASSUME NEW Names, NEW s \in Seq([m_bShutdown : BOOLEAN, m_sComPort : Names]),
         NEW i \in 1..Len(s), NEW o \in [m_bShutdown : BOOLEAN, m_sComPort : Names],
         NEW x, x = [s EXCEPT ![i] = o]
  PROVE  /\ x \in Seq([m_bShutdown : BOOLEAN, m_sComPort : Names])
         /\ Len(x) = Len(s) /\ x[i] = o
         /\ \A t \in 1..Len(s) : t # i => x[t] = s[t]
<1> DEFINE Objects == [m_bShutdown : BOOLEAN, m_sComPort : Names]
<1> HIDE DEF Objects
<1>1. s \in Seq(Objects) /\ o \in Objects
  BY DEF Objects
<1>2. /\ [s EXCEPT ![i] = o] \in Seq(Objects) /\ Len([s EXCEPT ![i] = o]) = Len(s)
      /\ \A t \in 1..Len(s) : [s EXCEPT ![i] = o][t] = IF t = i THEN o ELSE s[t]
  BY <1>1, ExceptSeq
<1> QED
  BY <1>2 DEF Objects

(* The objects are records with the two fields.                            *)
LEMMA ObjectFields ==
  ASSUME NEW Names, NEW s \in Seq([m_bShutdown : BOOLEAN, m_sComPort : Names]),
         NEW i \in 1..Len(s)
  PROVE  /\ s[i] \in [m_bShutdown : BOOLEAN, m_sComPort : Names]
         /\ s[i].m_sComPort \in Names
<1> DEFINE Objects == [m_bShutdown : BOOLEAN, m_sComPort : Names]
<1>1. s[i] \in Objects
  <2> HIDE DEF Objects
  <2>1. s \in Seq(Objects)
    BY DEF Objects
  <2> QED
    BY <2>1
<1> QED
  BY <1>1

(* Steps that leave the ports, the objects and the threads alone.          *)
LEMMA SequencesKept ==
  ASSUME Sequences, UNCHANGED <<comPorts, threadState>>
  PROVE  Sequences' /\ nThreads' = nThreads /\ (\A t : Constructed(t)' = Constructed(t))
  BY DEF Sequences, threadState, nThreads, Constructed

(* Main up to the loop: no thread is there yet.                            *)
LEMMA SetUpInv ==
  ASSUME StartupInv,
         \/ \E args \in Arguments : ReadArguments(args)
         \/ ReadConfig \/ StartServerThread \/ InitMember
  PROVE  StartupInv'
<1>1. CASE \E args \in Arguments : ReadArguments(args)
  <2> PICK args \in Arguments : ReadArguments(args)
    BY <1>1
  <2>1. UNCHANGED <<comPorts, threadState>>
    BY DEF ReadArguments, Dies, mainVars
  <2>2. Sequences'
    BY <2>1, SequencesKept DEF StartupInv
  <2>3. StartupTypeOK'
    BY <2>1, Lengths
    DEF ReadArguments, Dies, mainVars, threadState, StartupInv, StartupTypeOK, nThreads, MainInv
  <2>4. MainInv'
    BY Lengths
    DEF ReadArguments, Dies, mainVars, StartupInv, StartupTypeOK, MainInv, Before, Creating, nThreads
  <2>5. ThreadsInv' /\ ServingInv'
    BY <2>1
    DEF ReadArguments, Dies, mainVars, threadState, StartupInv, MainInv, ThreadsInv, ServingInv, Before,
        Creating, nThreads
  <2> QED
    BY <2>2, <2>3, <2>4, <2>5 DEF StartupInv
<1>2. CASE ReadConfig
  <2>1. UNCHANGED <<comPorts, threadState>>
    BY <1>2 DEF ReadConfig
  <2>2. Sequences'
    BY <2>1, SequencesKept DEF StartupInv
  <2>3. StartupTypeOK'
    BY <1>2, <2>1, Lengths
    DEF ReadConfig, threadState, StartupInv, StartupTypeOK, nThreads, MainInv
  <2>4. MainInv'
    BY <1>2, Lengths
    DEF ReadConfig, StartupInv, StartupTypeOK, MainInv, Before, Creating, nThreads
  <2>5. ThreadsInv' /\ ServingInv'
    BY <1>2, <2>1
    DEF ReadConfig, threadState, StartupInv, MainInv, ThreadsInv, ServingInv, Before,
        Creating, nThreads
  <2> QED
    BY <2>2, <2>3, <2>4, <2>5 DEF StartupInv
<1>3. CASE StartServerThread
  <2>1. UNCHANGED <<comPorts, threadState>>
    BY <1>3 DEF StartServerThread, mainVars
  <2>2. Sequences'
    BY <2>1, SequencesKept DEF StartupInv
  <2>3. StartupTypeOK'
    BY <1>3, <2>1, Lengths
    DEF StartServerThread, mainVars, threadState, StartupInv, StartupTypeOK, nThreads, MainInv
  <2>4. MainInv'
    BY <1>3, Lengths
    DEF StartServerThread, mainVars, StartupInv, StartupTypeOK, MainInv, Before, Creating, nThreads
  <2>5. ThreadsInv' /\ ServingInv'
    BY <1>3, <2>1
    DEF StartServerThread, mainVars, threadState, StartupInv, MainInv, ThreadsInv, ServingInv, Before,
        Creating, nThreads
  <2> QED
    BY <2>2, <2>3, <2>4, <2>5 DEF StartupInv
<1>4. CASE InitMember
  <2>1. UNCHANGED <<comPorts, threadState>>
    BY <1>4 DEF InitMember
  <2>2. Sequences'
    BY <2>1, SequencesKept DEF StartupInv
  <2>3. StartupTypeOK'
    BY <1>4, <2>1, Lengths
    DEF InitMember, threadState, StartupInv, StartupTypeOK, nThreads, MainInv
  <2>4. MainInv'
    BY <1>4, Lengths
    DEF InitMember, StartupInv, StartupTypeOK, MainInv, Before, Creating, nThreads
  <2>5. ThreadsInv' /\ ServingInv'
    BY <1>4, <2>1
    DEF InitMember, threadState, StartupInv, MainInv, ThreadsInv, ServingInv, Before,
        Creating, nThreads
  <2> QED
    BY <2>2, <2>3, <2>4, <2>5 DEF StartupInv
<1> QED
  BY <1>1, <1>2, <1>3, <1>4

(* The scan for ports: only comPorts grows, and no object is there yet.    *)
LEMMA ScanInv == ASSUME StartupInv, ScanPort PROVE StartupInv'
<1>1. Len(object) = 0 /\ nIndex = 0 /\ spc = "unborn" /\ nPort + 1 \in 1..MaxThreads
  BY Lengths DEF StartupInv, ThreadsInv, MainInv, ScanPort, Before, Creating
<1>2. PICK Names : /\ Unset \in Names
                   /\ comPorts \in Seq(Names)
                   /\ object \in Seq([m_bShutdown : BOOLEAN, m_sComPort : Names])
                   /\ opened \in Seq(Names \cup {NotOpened})
  BY DEF StartupInv, Sequences
<1>3. PICK comPort : \/ comPorts' = comPorts
                     \/ comPorts' = Append(comPorts, comPort)
  BY DEF ScanPort
<1> DEFINE All == Names \cup {comPort}
<1>4. comPorts \in Seq(All) /\ opened \in Seq(All \cup {NotOpened})
  BY <1>2
<1>5. object = <<>>
  BY <1>1, <1>2
<1>6. /\ comPorts' \in Seq(All)
      /\ nThreads' \in {nThreads, nThreads + 1}
  BY <1>3, <1>4 DEF nThreads
<1>7. Sequences'
  <2>1. object' \in Seq([m_bShutdown : BOOLEAN, m_sComPort : All])
    BY <1>5 DEF ScanPort, threadState
  <2>2. opened' \in Seq(All \cup {NotOpened}) /\ tpc' \in Seq({"boot", "top", "wait", "stopped"})
    BY <1>4 DEF ScanPort, threadState, StartupInv, Sequences
  <2> QED
    BY <1>2, <1>6, <2>1, <2>2 DEF Sequences
<1>8. StartupTypeOK' /\ MainInv'
  BY <1>1, <1>6, Lengths
  DEF ScanPort, threadState, StartupInv, StartupTypeOK, MainInv, Before, Creating, nThreads
<1>9. ThreadsInv' /\ ServingInv'
  BY <1>1 DEF ScanPort, threadState, StartupInv, MainInv, ThreadsInv, ServingInv,
              Before, Creating
<1> QED
  BY <1>7, <1>8, <1>9 DEF StartupInv

(* new MinerThread: its object is one more than THREADS counts.            *)
LEMMA NewMinerThreadInv == ASSUME StartupInv, NewMinerThread PROVE StartupInv'
<1>1. PICK Names : /\ Unset \in Names
                   /\ comPorts \in Seq(Names)
                   /\ object \in Seq([m_bShutdown : BOOLEAN, m_sComPort : Names])
                   /\ opened \in Seq(Names \cup {NotOpened})
  BY DEF StartupInv, Sequences
<1> DEFINE Objects == [m_bShutdown : BOOLEAN, m_sComPort : Names]
<1>2. PICK raw \in Raw : object' = Append(object, raw)
  BY DEF NewMinerThread
<1>3. raw \in Objects
  BY <1>1 DEF Raw
<1> HIDE DEF Objects
<1>4. object \in Seq(Objects)
  BY <1>1 DEF Objects
<1>5. /\ object' \in Seq(Objects) /\ Len(object') = Len(object) + 1
      /\ \A t \in 1..Len(object) : object'[t] = object[t]
  BY <1>2, <1>3, <1>4
<1>6. /\ tpc' \in Seq({"boot", "top", "wait", "stopped"}) /\ Len(tpc') = Len(tpc) + 1
      /\ opened' \in Seq(Names \cup {NotOpened}) /\ Len(opened') = Len(opened) + 1
  BY <1>1 DEF NewMinerThread, StartupInv, Sequences
<1>7. UNCHANGED <<process, mainVars, spc>> /\ mpc = "loop" /\ mpc' = "shutdown"
  BY DEF NewMinerThread
<1>8. Len(object) = nIndex /\ nIndex < nThreads /\ nIndex \in Nat /\ nThreads \in Nat
  BY <1>7, Lengths DEF NewMinerThread, MoreThreads, StartupInv, StartupTypeOK, ThreadsInv, Creating
<1>9. Sequences'
  BY <1>1, <1>5, <1>6, <1>7 DEF Sequences, Objects, mainVars
<1>10. StartupTypeOK' /\ MainInv'
  BY <1>5, <1>6, <1>7, <1>8, Lengths
  DEF mainVars, StartupInv, StartupTypeOK, MainInv, Before, Creating, nThreads
<1>11. ThreadsInv' /\ ServingInv'
  BY <1>5, <1>7, <1>8
  DEF mainVars, StartupInv, ThreadsInv, ServingInv, Creating, Constructed, nThreads
<1> QED
  BY <1>9, <1>10, <1>11 DEF StartupInv

(* The constructor's two assignments, to the object not yet in THREADS.    *)
LEMMA SetShutdownInv == ASSUME StartupInv, SetShutdown PROVE StartupInv'
<1>1. PICK Names : /\ Unset \in Names
                   /\ comPorts \in Seq(Names)
                   /\ object \in Seq([m_bShutdown : BOOLEAN, m_sComPort : Names])
                   /\ opened \in Seq(Names \cup {NotOpened})
  BY DEF StartupInv, Sequences
<1>2. /\ UNCHANGED <<process, mainVars, tpc, opened, spc>>
      /\ mpc = "shutdown" /\ mpc' = "port"
      /\ object' = [object EXCEPT ![nIndex + 1].m_bShutdown = FALSE]
  BY DEF SetShutdown
<1>3. /\ Len(object) = nIndex + 1 /\ nIndex < nThreads /\ nIndex \in Nat
      /\ nIndex + 1 \in 1..Len(object) /\ \A t \in 1..nIndex : t \in 1..Len(object) /\ t # nIndex + 1
  BY <1>2, Lengths DEF StartupInv, StartupTypeOK, ThreadsInv, Creating
<1>4. /\ object' \in Seq([m_bShutdown : BOOLEAN, m_sComPort : Names])
      /\ Len(object') = Len(object)
      /\ object'[nIndex + 1].m_bShutdown = FALSE
      /\ \A t \in 1..nIndex : object'[t] = object[t]
  <2> DEFINE o == [object[nIndex + 1] EXCEPT !.m_bShutdown = FALSE]
  <2>1. o \in [m_bShutdown : BOOLEAN, m_sComPort : Names] /\ o.m_bShutdown = FALSE
    <3>1. object[nIndex + 1] \in [m_bShutdown : BOOLEAN, m_sComPort : Names]
      BY <1>1, <1>3, ObjectFields
    <3> QED
      BY <3>1
  <2>2. object' = [object EXCEPT ![nIndex + 1] = o]
    BY <1>2
  <2> HIDE DEF o
  <2> QED
    BY <1>1, <1>3, <2>1, <2>2, SetField
<1>5. Sequences'
  BY <1>1, <1>2, <1>4 DEF Sequences, mainVars, StartupInv
<1>6. StartupTypeOK' /\ MainInv'
  BY <1>2, <1>4 DEF mainVars, StartupInv, StartupTypeOK, MainInv, Before, Creating, nThreads
<1>7. ThreadsInv' /\ ServingInv'
  BY <1>2, <1>4
  DEF mainVars, StartupInv, ThreadsInv, ServingInv, Creating, Constructed, nThreads
<1> QED
  BY <1>5, <1>6, <1>7 DEF StartupInv

LEMMA SetComPortInv == ASSUME StartupInv, SetComPort PROVE StartupInv'
<1>1. PICK Names : /\ Unset \in Names
                   /\ comPorts \in Seq(Names)
                   /\ object \in Seq([m_bShutdown : BOOLEAN, m_sComPort : Names])
                   /\ opened \in Seq(Names \cup {NotOpened})
  BY DEF StartupInv, Sequences
<1>2. /\ UNCHANGED <<process, mainVars, tpc, opened, spc>>
      /\ mpc = "port" /\ mpc' = "push"
      /\ object' = [object EXCEPT ![nIndex + 1].m_sComPort = comPorts[nIndex + 1]]
  BY DEF SetComPort
<1>3. /\ Len(object) = nIndex + 1 /\ nIndex < nThreads /\ nIndex \in Nat
      /\ nIndex + 1 \in 1..Len(object) /\ nIndex + 1 \in 1..Len(comPorts)
      /\ \A t \in 1..nIndex : t \in 1..Len(object) /\ t # nIndex + 1
  BY <1>2, Lengths DEF StartupInv, StartupTypeOK, ThreadsInv, Creating, nThreads
<1>4. comPorts[nIndex + 1] \in Names
  BY <1>1, <1>3
<1>5. /\ object' \in Seq([m_bShutdown : BOOLEAN, m_sComPort : Names])
      /\ Len(object') = Len(object)
      /\ object'[nIndex + 1].m_sComPort = comPorts[nIndex + 1]
      /\ object'[nIndex + 1].m_bShutdown = object[nIndex + 1].m_bShutdown
      /\ \A t \in 1..nIndex : object'[t] = object[t]
  <2> DEFINE o == [object[nIndex + 1] EXCEPT !.m_sComPort = comPorts[nIndex + 1]]
  <2>1. /\ o \in [m_bShutdown : BOOLEAN, m_sComPort : Names]
        /\ o.m_sComPort = comPorts[nIndex + 1]
        /\ o.m_bShutdown = object[nIndex + 1].m_bShutdown
    <3>1. object[nIndex + 1] \in [m_bShutdown : BOOLEAN, m_sComPort : Names]
      BY <1>1, <1>3, ObjectFields
    <3> QED
      BY <1>4, <3>1
  <2>2. object' = [object EXCEPT ![nIndex + 1] = o]
    BY <1>2
  <2> HIDE DEF o
  <2> QED
    BY <1>1, <1>3, <2>1, <2>2, SetField
<1>6. Sequences'
  BY <1>1, <1>2, <1>5 DEF Sequences, mainVars, StartupInv
<1>7. StartupTypeOK' /\ MainInv'
  BY <1>2, <1>5 DEF mainVars, StartupInv, StartupTypeOK, MainInv, Before, Creating, nThreads
<1>8. ThreadsInv' /\ ServingInv'
  BY <1>2, <1>5
  DEF mainVars, StartupInv, ThreadsInv, ServingInv, Creating, Constructed, nThreads
<1> QED
  BY <1>6, <1>7, <1>8 DEF StartupInv

(* THREADS.push_back: the object is complete, and THREADS was not full.    *)
LEMMA PushBackInv == ASSUME StartupInv, PushBack PROVE StartupInv'
<1>1. /\ UNCHANGED <<process, file, comPorts, nPort, late, threadState, spc>>
      /\ mpc = "push" /\ mpc' = "loop" /\ THREADS' = THREADS + 1 /\ nIndex' = nIndex + 1
  BY DEF PushBack
<1>2. /\ nIndex < nThreads /\ nIndex \in Nat /\ nThreads \in Nat /\ THREADS = nIndex
      /\ spc # "serving" /\ Constructed(nIndex + 1)
  BY <1>1, Lengths
  DEF StartupInv, StartupTypeOK, ThreadsInv, ServingInv, Creating, Constructed
<1>3. UNCHANGED <<comPorts, threadState>> /\ nThreads' = nThreads
  BY <1>1 DEF nThreads
<1>4. Sequences' /\ \A t : Constructed(t)' = Constructed(t)
  BY <1>3, SequencesKept DEF StartupInv
<1>5. StartupTypeOK' /\ MainInv'
  BY <1>1, <1>2, <1>3
  DEF threadState, StartupInv, StartupTypeOK, MainInv, Before, Creating
<1>6. \A t \in 1..nIndex' : Constructed(t)'
  BY <1>1, <1>2, <1>4 DEF StartupInv, ThreadsInv
<1>7. ThreadsInv' /\ ServingInv'
  BY <1>1, <1>2, <1>3, <1>6 DEF threadState, StartupInv, ThreadsInv, ServingInv, Creating
<1> QED
  BY <1>4, <1>5, <1>7 DEF StartupInv

(* A mining thread opens its port and comes to its loop; what it opened is *)
(* what the name is at that time.                                          *)
LEMMA ThreadInv ==
  ASSUME StartupInv, NEW t \in DOMAIN tpc, OpenPort(t) \/ TestShutdown(t)
  PROVE  StartupInv'
<1>1. PICK Names : /\ Unset \in Names
                   /\ comPorts \in Seq(Names)
                   /\ object \in Seq([m_bShutdown : BOOLEAN, m_sComPort : Names])
                   /\ opened \in Seq(Names \cup {NotOpened})
  BY DEF StartupInv, Sequences
<1>2. /\ UNCHANGED <<mpc, mainVars, object, spc>>
      /\ process' \in {process, "crashed"}
  BY DEF OpenPort, TestShutdown
<1>3. t \in 1..Len(tpc) /\ t \in 1..Len(object) /\ t \in 1..Len(opened)
  BY DEF StartupInv, StartupTypeOK, Sequences
<1>4. object[t].m_sComPort \in Names
  BY <1>1, <1>3, ObjectFields
<1>5. /\ tpc' \in Seq({"boot", "top", "wait", "stopped"}) /\ Len(tpc') = Len(tpc)
      /\ opened' \in Seq(Names \cup {NotOpened}) /\ Len(opened') = Len(opened)
  <2>1. tpc \in Seq({"boot", "top", "wait", "stopped"})
    BY DEF StartupInv, Sequences
  <2>2. \A p \in {"boot", "top", "wait", "stopped"} :
          /\ [tpc EXCEPT ![t] = p] \in Seq({"boot", "top", "wait", "stopped"})
          /\ Len([tpc EXCEPT ![t] = p]) = Len(tpc)
    BY <1>3, <2>1, ExceptSeq
  <2>3. \A p \in Names :
          /\ [opened EXCEPT ![t] = p] \in Seq(Names \cup {NotOpened})
          /\ Len([opened EXCEPT ![t] = p]) = Len(opened)
    BY <1>1, <1>3, ExceptSeq
  <2>4. tpc' = tpc \/ \E p \in {"boot", "top", "wait", "stopped"} : tpc' = [tpc EXCEPT ![t] = p]
    BY DEF OpenPort, TestShutdown
  <2>5. opened' = opened \/ \E p \in Names : opened' = [opened EXCEPT ![t] = p]
    BY <1>4 DEF OpenPort, TestShutdown
  <2>6. tpc' \in Seq({"boot", "top", "wait", "stopped"}) /\ Len(tpc') = Len(tpc)
    BY <2>1, <2>2, <2>4, Zenon
  <2>7. opened' \in Seq(Names \cup {NotOpened}) /\ Len(opened') = Len(opened)
    <3>1. CASE opened' = opened
      BY <1>1, <3>1
    <3>2. CASE \E p \in Names : opened' = [opened EXCEPT ![t] = p]
      BY <2>3, <3>2
    <3> QED
      BY <2>5, <3>1, <3>2
  <2> QED
    BY <2>6, <2>7
<1>6. Sequences'
  BY <1>1, <1>2, <1>5 DEF Sequences, mainVars
<1>7. StartupTypeOK' /\ MainInv'
  BY <1>2, <1>5 DEF mainVars, StartupInv, StartupTypeOK, MainInv, nThreads
<1>8. ThreadsInv' /\ ServingInv'
  BY <1>2 DEF mainVars, StartupInv, ThreadsInv, ServingInv, Constructed, nThreads
<1> QED
  BY <1>6, <1>7, <1>8 DEF StartupInv

(* The connection thread goes on when the sizes are equal.                 *)
LEMMA BeginServingInv == ASSUME StartupInv, BeginServing PROVE StartupInv'
<1>1. UNCHANGED <<comPorts, threadState>>
  BY DEF BeginServing, mainVars
<1>2. Sequences'
  BY <1>1, SequencesKept DEF StartupInv
<1>3. mpc \notin Before
  BY DEF BeginServing, StartupInv, MainInv
<1> QED
  BY <1>2, <1>3
  DEF BeginServing, AllCreated, mainVars, threadState, StartupInv, StartupTypeOK,
      MainInv, ThreadsInv, ServingInv, Constructed, nThreads

LEMMA StutterInv == ASSUME StartupInv, UNCHANGED startupVars PROVE StartupInv'
<1>1. UNCHANGED <<comPorts, threadState>>
  BY DEF startupVars, threadState
<1>2. Sequences'
  BY <1>1, SequencesKept DEF StartupInv
<1> QED
  BY <1>2
  DEF startupVars, StartupInv, StartupTypeOK, MainInv, ThreadsInv, ServingInv,
      Constructed, nThreads

(* StartupInv is an invariant of main and the constructors it runs.         *)
THEOREM StartupInvariant == StartupSpec => []StartupInv
<1>1. StartupInit => StartupInv
  BY StartupInitInv
<1>2. StartupInv /\ [StartupNext]_startupVars => StartupInv'
  BY SetUpInv, ScanInv, NewMinerThreadInv, SetShutdownInv, SetComPortInv, PushBackInv,
     ThreadInv, BeginServingInv, StutterInv
  DEF StartupNext, Main, MainIdle
<1> QED
  BY <1>1, <1>2, PTL DEF StartupSpec

(***************************************************************************)
(* Types, for every command line and every config.ini: never more objects  *)
(* than ports, and never more ports than seven.                            *)
(***************************************************************************)
THEOREM StartupTypeCorrect == StartupSpec => []StartupTypeOK
<1>1. StartupInv => StartupTypeOK
  BY DEF StartupInv
<1> QED
  BY <1>1, StartupInvariant, PTL

(***************************************************************************)
(* core.cpp:120: with a port configured the connection thread serves the   *)
(* pool only when every member of its object and every mining thread's     *)
(* fields are set, whatever the order of the threads.                      *)
(***************************************************************************)
THEOREM ServerBeginsCompleteHolds == StartupSpec => []ServerBeginsComplete
<1>1. ASSUME StartupInv, spc = "serving", nThreads > 0
      PROVE  /\ late = Len(Late) /\ Len(object) = nThreads
             /\ \A t \in 1..nThreads : Constructed(t)
  <2>1. nIndex = nThreads /\ nThreads > 0 /\ mpc \notin Creating /\ nIndex # 0
    BY <1>1 DEF StartupInv, StartupTypeOK, ThreadsInv, ServingInv
  <2> QED
    BY <1>1, <2>1 DEF StartupInv, MainInv, ThreadsInv
<1>2. StartupInv => DOMAIN object = 1..Len(object)
  BY DEF StartupInv, Sequences
<1>3. StartupInv => ServerBeginsComplete
  BY <1>1, <1>2 DEF ServerBeginsComplete, Constructed
<1> QED
  BY <1>3, StartupInvariant, PTL

-----------------------------------------------------------------------------
(***************************************************************************)
(* The file: how the parser's loop and main's loop come to what            *)
(* ConfiguredPorts says.                                                   *)
(***************************************************************************)
(* Names and texts, and the values the texts are joined to.                *)
Strings == STRING \cup {""}

LEMMA EmptyIsString == "" \in Strings
BY DEF Strings

Values == UNION {[D -> Seq(Strings)] : D \in SUBSET (Strings \X Strings)}
Reader == [section : Strings, prev_name : Strings, values : Values, error : Nat, lineno : Nat]

LEMMA JoinedType ==
  ASSUME NEW v \in Seq(Strings), NEW t \in Strings
  PROVE  Joined(v, t) \in Seq(Strings)
<1>1. <<>> \in Seq(Strings) /\ <<t>> \in Seq(Strings) /\ Append(v, t) \in Seq(Strings)
  OBVIOUS
<1> QED
  BY <1>1, Zenon DEF Joined

(* The fields of a reader, and what setting one of them leaves.            *)
LEMMA ReaderFields ==
  ASSUME NEW r \in Reader
  PROVE  /\ r.section \in Strings /\ r.prev_name \in Strings /\ r.values \in Values
         /\ r.error \in Nat /\ r.lineno \in Nat
BY DEF Reader

LEMMA SetName ==
  ASSUME NEW r \in Reader, NEW n \in Strings, NEW q, q = [r EXCEPT !.prev_name = n]
  PROVE  q \in Reader /\ q.section = r.section /\ q.values = r.values
BY DEF Reader

LEMMA SetValues ==
  ASSUME NEW r \in Reader, NEW v \in Values, NEW q, q = [r EXCEPT !.values = v]
  PROVE  q \in Reader /\ q.section = r.section /\ q.values = v
BY DEF Reader

LEMMA SetError ==
  ASSUME NEW r \in Reader, NEW e \in Nat, NEW q, q = [r EXCEPT !.error = e]
  PROVE  q \in Reader /\ q.section = r.section /\ q.values = r.values
BY DEF Reader

LEMMA SetLineno ==
  ASSUME NEW r \in Reader, NEW e \in Nat, NEW q, q = [r EXCEPT !.lineno = e]
  PROVE  q \in Reader /\ q.section = r.section /\ q.values = r.values
BY DEF Reader

(* What a pair adds: its key, and its text to the value of it.             *)
Adds(new, old, key, text) ==
  /\ DOMAIN new = DOMAIN old \cup {key}
  /\ \A k \in DOMAIN old \ {key} : new[k] = old[k]
  /\ new[key] = Joined(Value(old, key), text)

LEMMA ValuesAre ==
  ASSUME NEW r \in Reader, NEW section \in Strings, NEW name \in Strings, NEW text \in Strings,
         NEW q, q = ValueHandler(r, section, name, text)
  PROVE  /\ q \in Reader
         /\ q.section = r.section
         /\ Adds(q.values, r.values, <<section, name>>, text)
<1> DEFINE key == <<section, name>>
           D == DOMAIN r.values \cup {key}
           v == [k \in D |-> IF k = key THEN Joined(Value(r.values, key), text)
                                        ELSE r.values[k]]
<1>1. r.values \in Values /\ r.section \in Strings
  BY ReaderFields
<1>2. PICK C \in SUBSET (Strings \X Strings) : r.values \in [C -> Seq(Strings)]
  BY <1>1 DEF Values
<1>3. Value(r.values, key) \in Seq(Strings)
  BY <1>2 DEF Value, Has
<1>4. Joined(Value(r.values, key), text) \in Seq(Strings)
  BY <1>3, JoinedType
<1>5. D \in SUBSET (Strings \X Strings) /\ v \in [D -> Seq(Strings)]
  BY <1>2, <1>4
<1>6. v \in Values
  BY <1>5 DEF Values
<1>7. q = [r EXCEPT !.values = v]
  BY DEF ValueHandler, Key
<1> HIDE DEF v
<1>8. q \in Reader /\ q.section = r.section /\ q.values = v
  BY ONLY <1>6, <1>7, SetValues, r \in Reader
<1> QED
  BY <1>5, <1>8 DEF v, Adds

(* A line leaves a reader, of which a header changes the section.          *)
LEMMA LineRead ==
  ASSUME NEW r \in Reader, NEW line \in Lines, ~ line.indent,
         NEW q, q = ReadLine(r, line)
  PROVE  /\ q \in Reader
         /\ q.section = IF line.kind = "section" THEN line.name ELSE r.section
         /\ line.kind # "pair" => q.values = r.values
         /\ line.kind = "pair" => Adds(q.values, r.values, <<r.section, line.name>>, line.text)
<1> PICK e \in Nat : e = r.lineno + 1
  <2>1. r.lineno \in Nat
    BY ReaderFields
  <2> QED
    BY <2>1
<1> PICK p : p = [r EXCEPT !.lineno = e]
  OBVIOUS
<1>1. p \in Reader /\ p.section = r.section /\ p.values = r.values /\ p.section \in Strings
  <2>1. p \in Reader /\ p.section = r.section /\ p.values = r.values
    BY ONLY SetLineno, e \in Nat, r \in Reader, p = [r EXCEPT !.lineno = e]
  <2> QED
    BY ONLY <2>1, ReaderFields
<1>2. q = ReadText(p, line)
  BY DEF ReadLine, Continues
<1>3. line.kind \in Kinds /\ line.name \in Strings /\ line.text \in Strings
  BY DEF Lines, Strings
<1>4. ASSUME line.kind = "section"
      PROVE  q \in Reader /\ q.section = line.name /\ q.values = r.values
  <2>1. q = [p EXCEPT !.section = line.name, !.prev_name = ""]
    BY <1>2, <1>4 DEF ReadText
  <2>2. PICK none \in Strings : none = ""
    BY EmptyIsString
  <2>3. PICK name \in Strings : name = line.name
    BY <1>3
  <2>4. q = [p EXCEPT !.section = name, !.prev_name = none]
    BY ONLY <2>1, <2>2, <2>3
  <2> QED
    BY ONLY <1>1, <2>3, <2>4, none \in Strings, name \in Strings DEF Reader
<1>5. ASSUME line.kind = "pair"
      PROVE  /\ q \in Reader /\ q.section = r.section
             /\ Adds(q.values, r.values, <<r.section, line.name>>, line.text)
  <2>1. PICK section \in Strings, name \in Strings, text \in Strings :
          section = p.section /\ name = line.name /\ text = line.text
    BY <1>1, <1>3
  <2>2. PICK h : h = ValueHandler(p, section, name, text)
    OBVIOUS
  <2>3. q = [h EXCEPT !.prev_name = name]
    BY <1>2, <1>5, <2>1, <2>2 DEF ReadText
  <2>4. h \in Reader /\ h.section = p.section /\ Adds(h.values, p.values, <<section, name>>, text)
    BY ONLY <1>1, <2>2, ValuesAre, section \in Strings, name \in Strings, text \in Strings
  <2>5. q \in Reader /\ q.section = h.section /\ q.values = h.values
    BY ONLY <2>3, <2>4, SetName, name \in Strings
  <2> QED
    BY ONLY <1>1, <2>1, <2>4, <2>5
<1>6. ASSUME line.kind \in {"unclosed", "noise"}
      PROVE  q \in Reader /\ q.section = r.section /\ q.values = r.values
  <2>1. q = FirstError(p)
    BY <1>2, <1>6 DEF ReadText
  <2>2. q = p \/ q = [p EXCEPT !.error = p.lineno]
    BY <2>1 DEF FirstError
  <2>3. p.lineno \in Nat
    BY ONLY <1>1, ReaderFields
  <2> QED
    BY ONLY <2>2, <2>3, <1>1, SetError
<1>7. ASSUME line.kind \in {"blank", "comment"}
      PROVE  q \in Reader /\ q.section = r.section /\ q.values = r.values
  <2>1. q = p
    BY <1>2, <1>7 DEF ReadText
  <2> QED
    BY <2>1, <1>1
<1>8. line.kind \in {"section", "pair", "unclosed", "noise", "blank", "comment"}
  BY <1>3 DEF Kinds
<1>9. /\ q \in Reader
      /\ q.section = IF line.kind = "section" THEN line.name ELSE r.section
      /\ line.kind # "pair" => q.values = r.values
      /\ line.kind = "pair" => Adds(q.values, r.values, <<r.section, line.name>>, line.text)
  BY ONLY <1>4, <1>5, <1>6, <1>7, <1>8
<1> QED
  BY ONLY <1>9

(* The parser's loop.                                                      *)
LEMMA ReadersAre ==
  ASSUME NEW lines \in Seq(Lines), \A i \in 1..Len(lines) : ~ lines[i].indent,
         NEW n \in Nat, n = Len(lines)
  PROVE  /\ Readers(lines) \in [0..n -> Reader]
         /\ Readers(lines)[0] = NewReader
         /\ \A i \in 1..n : Readers(lines)[i] = ReadLine(Readers(lines)[i - 1], lines[i])
<1> DEFINE step == [i \in Nat |-> [r \in Reader |-> IF i \in 1..n THEN ReadLine(r, lines[i]) ELSE r]]
<1>1. NewReader \in Reader
  <2>1. <<>> \in [{} -> Seq(Strings)]
    OBVIOUS
  <2>2. {} \in SUBSET (Strings \X Strings)
    OBVIOUS
  <2>3. <<>> \in Values
    BY <2>1, <2>2 DEF Values
  <2>4. "" \in Strings /\ 0 \in Nat
    BY EmptyIsString
  <2> QED
    BY ONLY <2>3, <2>4 DEF NewReader, Reader
<1>2. ASSUME NEW i \in 1..n, NEW r \in Reader
      PROVE  ReadLine(r, lines[i]) \in Reader
  <2>1. lines[i] \in Lines /\ ~ lines[i].indent
    OBVIOUS
  <2> QED
    BY ONLY <2>1, LineRead, r \in Reader
<1>3. step \in [Nat -> [Reader -> Reader]]
  BY <1>2
<1>4. \A i \in 1..n, r \in Reader : step[i][r] = ReadLine(r, lines[i])
  OBVIOUS
<1> HIDE DEF step
<1>5. PICK f : Iterates(f, Reader, NewReader, step, n)
  BY <1>1, <1>3, RecursionUpTo
<1>6. f \in [0..n -> Reader] /\ f[0] = NewReader /\ \A i \in 1..n : f[i] = ReadLine(f[i - 1], lines[i])
  <2>1. ASSUME NEW i \in 1..n PROVE f[i] = ReadLine(f[i - 1], lines[i])
    <3>1. f[i] = step[i][f[i - 1]] /\ f[i - 1] \in Reader
      BY <1>5 DEF Iterates
    <3> QED
      BY <3>1, <1>4
  <2> QED
    BY <1>5, <2>1 DEF Iterates
<1>7. f = [i \in 0..n |-> IF i = 0 THEN NewReader ELSE ReadLine(f[i - 1], lines[i])]
  BY ONLY <1>6, n \in Nat
<1> PICK F : F = Readers(lines)
  OBVIOUS
<1>8. F = [i \in 0..n |-> IF i = 0 THEN NewReader ELSE ReadLine(F[i - 1], lines[i])]
  BY ONLY <1>7, F = Readers(lines), n = Len(lines) DEF Readers
<1>9. /\ F = [i \in 0..n |-> F[i]] /\ F[0] = NewReader
      /\ \A i \in 1..n : F[i] = ReadLine(F[i - 1], lines[i])
  <2>1. ASSUME NEW i \in 0..n
        PROVE  F[i] = IF i = 0 THEN NewReader ELSE ReadLine(F[i - 1], lines[i])
    BY ONLY <1>8, Zenon, i \in 0..n
  <2>2. 0 \in 0..n /\ \A i \in 1..n : i \in 0..n /\ i # 0
    BY ONLY n \in Nat
  <2>3. F = [i \in 0..n |-> F[i]]
    BY ONLY <1>8, <2>1, Zenon
  <2> QED
    BY ONLY <2>1, <2>2, <2>3, Zenon
<1>10. \A i \in 1..n : F[i - 1] \in Reader => F[i] = step[i][F[i - 1]]
  BY ONLY <1>4, <1>9
<1>11. Takes(F, Reader, NewReader, step, n)
  BY ONLY <1>9, <1>10, Zenon DEF Takes
<1>12. Iterates(F, Reader, NewReader, step, n)
  BY ONLY <1>1, <1>3, <1>11, n \in Nat, StepsAre
<1> QED
  BY ONLY <1>9, <1>12, F = Readers(lines) DEF Iterates

-----------------------------------------------------------------------------
(* A header at line i is the last one at or before it; any other line is   *)
(* under the header of the line before.                                    *)
LEMMA HeaderStep ==
  ASSUME NEW lines, NEW i \in Nat \ {0}
  PROVE  HeaderOf(lines, i) = IF lines[i].kind = "section" THEN lines[i].name
                                                           ELSE HeaderOf(lines, i - 1)
<1> DEFINE H(k) == {j \in 1..k : lines[j].kind = "section"}
<1>1. CASE lines[i].kind = "section"
  <2>1. i \in H(i) /\ \A j \in H(i) : j \in Nat /\ i >= j
    BY <1>1
  <2>2. Max(H(i)) = i
    <3> PICK S : S = H(i)
      OBVIOUS
    <3>1. i \in S /\ \A j \in S : j \in Nat /\ i >= j
      BY ONLY <2>1, S = H(i)
    <3>2. PICK m : m = Max(S)
      OBVIOUS
    <3>3. m \in S /\ \A j \in S : m >= j
      BY ONLY <3>1, <3>2 DEF Max
    <3>4. m = i
      BY ONLY <3>1, <3>3, i \in Nat \ {0}
    <3> QED
      BY ONLY <3>2, <3>4, S = H(i)
  <2>3. H(i) # {}
    BY ONLY <2>1
  <2> QED
    BY <1>1, <2>2, <2>3 DEF HeaderOf
<1>2. CASE lines[i].kind # "section"
  <2>1. H(i) = H(i - 1)
    BY <1>2
  <2> QED
    BY <1>2, <2>1 DEF HeaderOf
<1> QED
  BY <1>1, <1>2

LEMMA NoHeader == ASSUME NEW lines, NEW z, z = 0 PROVE HeaderOf(lines, z) = ""
<1>1. {j \in 1..z : lines[j].kind = "section"} = {}
  OBVIOUS
<1> QED
  BY <1>1 DEF HeaderOf

(* Where the first text that is not empty is, if there is one.             *)
FirstFull(ts, k) == /\ k \in 1..Len(ts) /\ ts[k] # ""
                    /\ \A i \in 1..Len(ts) : ts[i] # "" => k <= i

AllEmpty(ts) == \A i \in 1..Len(ts) : ts[i] = ""

LEMMA HeadIs ==
  ASSUME NEW ts \in Seq(Strings)
  PROVE  /\ AllEmpty(ts) \/ \E k \in 1..Len(ts) : FirstFull(ts, k)
         /\ AllEmpty(ts) => WithoutEmptyHead(ts) = <<>>
         /\ \A k : FirstFull(ts, k) => WithoutEmptyHead(ts) = SubSeq(ts, k, Len(ts))
<1> PICK n \in Nat : n = Len(ts) /\ DOMAIN ts = 1..n
  OBVIOUS
<1> PICK S : S = {i \in DOMAIN ts : ts[i] # ""}
  OBVIOUS
<1>1. S \in SUBSET Nat /\ \A i : i \in S <=> i \in 1..n /\ ts[i] # ""
  <2>1. \A i : i \in S <=> i \in 1..n /\ ts[i] # ""
    BY ONLY S = {i \in DOMAIN ts : ts[i] # ""}, DOMAIN ts = 1..n, Zenon
  <2>2. \A i \in 1..n : i \in Nat
    BY ONLY n \in Nat
  <2> QED
    BY ONLY <2>1, <2>2
<1>2. AllEmpty(ts) <=> S = {}
  BY ONLY <1>1, n = Len(ts), Zenon DEF AllEmpty
<1>3. ASSUME S # {}
      PROVE  \E k \in 1..Len(ts) : FirstFull(ts, k)
  <2>1. PICK k \in S : \A i \in S : k <= i
    BY ONLY <1>1, <1>3, Least
  <2>2. k \in 1..n /\ ts[k] # "" /\ \A i \in 1..n : ts[i] # "" => k <= i
    BY ONLY <1>1, <2>1
  <2> QED
    BY ONLY <2>2, n = Len(ts) DEF FirstFull
<1>4. WithoutEmptyHead(ts) = IF S = {} THEN <<>> ELSE SubSeq(ts, Min(S), Len(ts))
  BY ONLY S = {i \in DOMAIN ts : ts[i] # ""} DEF WithoutEmptyHead
<1>5. ASSUME NEW k, FirstFull(ts, k)
      PROVE  WithoutEmptyHead(ts) = SubSeq(ts, k, Len(ts))
  <2>1. k \in S /\ \A i \in S : k <= i
    BY ONLY <1>1, <1>5, n = Len(ts) DEF FirstFull
  <2>2. PICK l : l = Min(S)
    OBVIOUS
  <2>3. l \in S /\ \A i \in S : l <= i
    BY ONLY <2>1, <2>2 DEF Min
  <2>4. l <= k /\ k <= l /\ k \in Nat /\ l \in Nat
    BY ONLY <1>1, <2>1, <2>3, Zenon
  <2> QED
    BY ONLY <1>4, <2>1, <2>2, <2>4, n = Len(ts)
<1> QED
  BY ONLY <1>2, <1>3, <1>4, <1>5

(* The rest of a sequence from some place on, with one member more.        *)
LEMMA RestAppended ==
  ASSUME NEW ts \in Seq(Strings), NEW t \in Strings, NEW k \in 1..Len(ts)
  PROVE  /\ SubSeq(ts, k, Len(ts)) \in Seq(Strings) /\ SubSeq(ts, k, Len(ts)) # <<>>
         /\ SubSeq(Append(ts, t), k, Len(ts) + 1) = Append(SubSeq(ts, k, Len(ts)), t)
<1> PICK n \in Nat : n = Len(ts)
  OBVIOUS
<1> PICK us \in Seq(Strings) : us = Append(ts, t)
  BY AppendProperties
<1>1. /\ Len(us) = n + 1 /\ us[n + 1] = t
      /\ \A i \in 1..n : us[i] = ts[i]
  BY AppendProperties
<1>2. /\ k \in Nat /\ k >= 1 /\ k <= n
  OBVIOUS
<1> PICK v, w : v = SubSeq(ts, k, n) /\ w = SubSeq(us, k, n + 1)
  OBVIOUS
<1>3. /\ v \in Seq(Strings) /\ Len(v) = n - k + 1
      /\ \A i \in 1..n - k + 1 : v[i] = ts[k + i - 1]
  BY ONLY <1>2, v = SubSeq(ts, k, n), n = Len(ts), n \in Nat, ts \in Seq(Strings), SubSeqProperties
<1>4. /\ w \in Seq(Strings) /\ Len(w) = n - k + 2
      /\ \A i \in 1..n - k + 2 : w[i] = us[k + i - 1]
  BY ONLY <1>1, <1>2, w = SubSeq(us, k, n + 1), n \in Nat, us \in Seq(Strings), SubSeqProperties
<1> PICK x : x = Append(v, t)
  OBVIOUS
<1>5. /\ x \in Seq(Strings) /\ Len(x) = n - k + 2 /\ x[n - k + 2] = t
      /\ \A i \in 1..n - k + 1 : x[i] = v[i]
  <2>1. v \in Seq(Strings)
    BY ONLY <1>3
  <2>2. /\ x \in Seq(Strings) /\ Len(x) = Len(v) + 1 /\ x[Len(v) + 1] = t
        /\ \A i \in 1..Len(v) : x[i] = v[i]
    BY ONLY <2>1, x = Append(v, t), t \in Strings, AppendProperties
  <2>3. Len(v) + 1 = n - k + 2
    BY ONLY <1>2, <1>3, n \in Nat
  <2> QED
    BY ONLY <1>3, <2>2, <2>3
<1>6. ASSUME NEW i \in 1..n - k + 2
      PROVE  w[i] = x[i]
  <2>1. w[i] = us[k + i - 1]
    BY ONLY <1>4, i \in 1..n - k + 2
  <2>2. CASE i = n - k + 2
    <3>1. k + i - 1 = n + 1
      BY ONLY <1>2, <2>2, n \in Nat
    <3> QED
      BY ONLY <1>1, <1>5, <2>1, <2>2, <3>1
  <2>3. CASE i # n - k + 2
    <3>1. i \in 1..n - k + 1 /\ k + i - 1 \in 1..n
      BY ONLY <1>2, <2>3, n \in Nat, i \in 1..n - k + 2
    <3> QED
      BY ONLY <1>1, <1>3, <1>5, <2>1, <3>1
  <2> QED
    BY <2>2, <2>3
<1>7. w = x
  BY ONLY <1>4, <1>5, <1>6, SeqEqual
<1>8. v # <<>>
  BY ONLY <1>2, <1>3, n \in Nat, EmptySeq
<1> QED
  BY ONLY <1>3, <1>7, <1>8, v = SubSeq(ts, k, n), w = SubSeq(us, k, n + 1), x = Append(v, t),
          n = Len(ts), us = Append(ts, t)

(* The text of a line goes to the value joined before it.                  *)
LEMMA HeadKept ==
  ASSUME NEW ts \in Seq(Strings), NEW t \in Strings
  PROVE  /\ WithoutEmptyHead(ts) \in Seq(Strings)
         /\ WithoutEmptyHead(Append(ts, t)) = Joined(WithoutEmptyHead(ts), t)
<1> PICK n \in Nat : n = Len(ts)
  OBVIOUS
<1> PICK us \in Seq(Strings) : us = Append(ts, t)
  BY AppendProperties
<1> PICK m \in Nat : m = n + 1
  OBVIOUS
<1>1. /\ Len(us) = m /\ us[m] = t
      /\ \A i \in 1..n : us[i] = ts[i]
      /\ m \in 1..m /\ \A i \in 1..m : i = m \/ i \in 1..n
      /\ \A i \in 1..n : i \in 1..m
  BY AppendProperties
<1> PICK v, w : v = WithoutEmptyHead(ts) /\ w = WithoutEmptyHead(us)
  OBVIOUS
<1>2. CASE AllEmpty(ts)
  <2>1. v = <<>>
    BY ONLY <1>2, v = WithoutEmptyHead(ts), ts \in Seq(Strings), HeadIs
  <2>2. CASE t = ""
    <3>1. AllEmpty(us)
      BY ONLY <1>1, <1>2, <2>2, n = Len(ts) DEF AllEmpty
    <3>2. w = <<>>
      BY ONLY <3>1, w = WithoutEmptyHead(us), us \in Seq(Strings), HeadIs
    <3>3. Joined(v, t) = <<>>
      BY ONLY <2>1, <2>2 DEF Joined
    <3> QED
      BY ONLY <2>1, <3>2, <3>3, EmptySeq, v = WithoutEmptyHead(ts), w = WithoutEmptyHead(us), us = Append(ts, t)
  <2>3. CASE t # ""
    <3>1. FirstFull(us, m)
      <4>1. \A i \in 1..m : us[i] # "" => i = m
        BY ONLY <1>1, <1>2, n = Len(ts) DEF AllEmpty
      <4>2. \A i \in 1..Len(us) : us[i] # "" => m <= i
        <5>1. ASSUME NEW i \in 1..m, us[i] # "" PROVE m <= i
          <6>1. i = m
            BY ONLY <4>1, <5>1
          <6> QED
            BY ONLY <6>1, m \in Nat
        <5> QED
          BY ONLY <1>1, <5>1
      <4> QED
        BY ONLY <1>1, <2>3, <4>2 DEF FirstFull
    <3>2. w = SubSeq(us, m, m)
      BY ONLY <1>1, <3>1, w = WithoutEmptyHead(us), us \in Seq(Strings), HeadIs
    <3>3. w = <<t>>
      <4>1. m \in Int /\ \A i \in m..m : us[i] \in Strings
        BY <1>1
      <4>2. w \in Seq(Strings) /\ Len(w) = 1 /\ w[1] = us[m]
        <5>1. /\ w \in Seq(Strings) /\ Len(w) = m - m + 1
              /\ \A i \in 1..m - m + 1 : w[i] = us[m + i - 1]
          BY ONLY <3>2, <4>1, SubSeqProperties
        <5>2. 1 \in 1..m - m + 1 /\ m - m + 1 = 1 /\ m + 1 - 1 = m
          BY ONLY m \in Nat
        <5> QED
          BY ONLY <5>1, <5>2
      <4>3. <<t>> \in Seq(Strings) /\ Len(<<t>>) = 1 /\ <<t>>[1] = t
        BY ONLY t \in Strings
      <4>4. \A i \in 1..1 : i = 1
        OBVIOUS
      <4>5. \A i \in 1..Len(w) : w[i] = <<t>>[i]
        BY ONLY <1>1, <4>2, <4>3, <4>4
      <4> QED
        BY ONLY <4>2, <4>3, <4>5, SeqEqual
    <3>4. Joined(v, t) = <<t>>
      BY ONLY <2>1, <2>3 DEF Joined
    <3> QED
      BY ONLY <2>1, <3>3, <3>4, EmptySeq, v = WithoutEmptyHead(ts), w = WithoutEmptyHead(us), us = Append(ts, t)
  <2> QED
    BY <2>2, <2>3
<1>3. CASE ~ AllEmpty(ts)
  <2>1. PICK k \in 1..n : FirstFull(ts, k)
    BY ONLY <1>3, ts \in Seq(Strings), n = Len(ts), HeadIs
  <2>2. FirstFull(us, k)
    <3>1. k \in 1..m /\ k <= m
      BY ONLY k \in 1..n, n \in Nat, m = n + 1
    <3>2. us[k] # ""
      BY ONLY <1>1, <2>1, k \in 1..n DEF FirstFull
    <3>3. \A i \in 1..m : us[i] # "" => k <= i
      BY ONLY <1>1, <2>1, <3>1, n = Len(ts) DEF FirstFull
    <3> QED
      BY ONLY <1>1, <3>1, <3>2, <3>3 DEF FirstFull
  <2>3. v = SubSeq(ts, k, n) /\ w = SubSeq(us, k, m)
    BY ONLY <1>1, <2>1, <2>2, v = WithoutEmptyHead(ts), w = WithoutEmptyHead(us), n = Len(ts),
            ts \in Seq(Strings), us \in Seq(Strings), HeadIs
  <2>4. v \in Seq(Strings) /\ v # <<>> /\ w = Append(v, t)
    BY ONLY <2>3, RestAppended, k \in 1..n, n = Len(ts), m = n + 1, us = Append(ts, t),
            ts \in Seq(Strings), t \in Strings
  <2>5. Joined(v, t) = Append(v, t)
    BY ONLY <2>4 DEF Joined
  <2> QED
    BY ONLY <2>4, <2>5, v = WithoutEmptyHead(ts), w = WithoutEmptyHead(us), us = Append(ts, t)
<1> QED
  BY <1>2, <1>3

-----------------------------------------------------------------------------
(* The texts of a name up to each line of a file.                          *)
Mine(lines, section, name, i) ==
  lines[i].kind = "pair" /\ lines[i].name = name /\ HeaderOf(lines, i) = section

LEMMA TextsAre ==
  ASSUME NEW lines \in Seq(Lines), NEW n \in Nat, n = Len(lines), NEW section, NEW name,
         NEW F, F = Texts(lines, section, name)
  PROVE  /\ F \in [0..n -> Seq(Strings)]
         /\ F[0] = <<>>
         /\ \A i \in 1..n : F[i] = IF Mine(lines, section, name, i)
                                  THEN Append(F[i - 1], lines[i].text) ELSE F[i - 1]
<1> DEFINE Next(v, i) == IF Mine(lines, section, name, i) THEN Append(v, lines[i].text) ELSE v
           step == [i \in Nat |-> [v \in Seq(Strings) |-> IF i \in 1..n THEN Next(v, i) ELSE v]]
<1>1. <<>> \in Seq(Strings)
  BY EmptySeq
<1>2. ASSUME NEW i \in 1..n, NEW v \in Seq(Strings)
      PROVE  Next(v, i) \in Seq(Strings)
  <2>1. lines[i] \in Lines
    OBVIOUS
  <2>2. lines[i].text \in Strings
    BY <2>1 DEF Lines, Strings
  <2>3. Append(v, lines[i].text) \in Seq(Strings)
    BY <2>2, AppendProperties
  <2> QED
    BY ONLY <2>3, v \in Seq(Strings)
<1> HIDE DEF Next
<1>3. step \in [Nat -> [Seq(Strings) -> Seq(Strings)]]
  BY <1>2
<1>4. \A i \in 1..n, v \in Seq(Strings) : step[i][v] = Next(v, i)
  OBVIOUS
<1> HIDE DEF step
<1>5. PICK f : Iterates(f, Seq(Strings), <<>>, step, n)
  BY <1>1, <1>3, RecursionUpTo
<1>6. /\ f \in [0..n -> Seq(Strings)] /\ f[0] = <<>>
      /\ \A i \in 1..n : f[i] = Next(f[i - 1], i)
  <2>1. ASSUME NEW i \in 1..n PROVE f[i] = Next(f[i - 1], i)
    <3>1. f[i] = step[i][f[i - 1]] /\ f[i - 1] \in Seq(Strings)
      BY <1>5 DEF Iterates
    <3> QED
      BY <3>1, <1>4
  <2> QED
    BY <1>5, <2>1 DEF Iterates
<1>7. f = [i \in 0..n |-> IF i = 0 THEN <<>> ELSE Next(f[i - 1], i)]
  BY ONLY <1>6, n \in Nat
<1>8. F = [i \in 0..n |-> IF i = 0 THEN <<>> ELSE Next(F[i - 1], i)]
  BY ONLY <1>7, F = Texts(lines, section, name), n = Len(lines) DEF Texts, Next, Mine
<1>9. /\ F = [i \in 0..n |-> F[i]] /\ F[0] = <<>>
      /\ \A i \in 1..n : F[i] = Next(F[i - 1], i)
  <2>1. ASSUME NEW i \in 0..n
        PROVE  F[i] = IF i = 0 THEN <<>> ELSE Next(F[i - 1], i)
    BY ONLY <1>8, Zenon, i \in 0..n
  <2>2. 0 \in 0..n /\ \A i \in 1..n : i \in 0..n /\ i # 0
    BY ONLY n \in Nat
  <2>3. F = [i \in 0..n |-> F[i]]
    BY ONLY <1>8, <2>1, Zenon
  <2> QED
    BY ONLY <2>1, <2>2, <2>3, Zenon
<1>10. \A i \in 1..n : F[i - 1] \in Seq(Strings) => F[i] = step[i][F[i - 1]]
  BY ONLY <1>4, <1>9
<1>11. Takes(F, Seq(Strings), <<>>, step, n)
  BY ONLY <1>9, <1>10, Zenon DEF Takes
<1>12. Iterates(F, Seq(Strings), <<>>, step, n)
  BY ONLY <1>1, <1>3, <1>11, n \in Nat, StepsAre
<1>13. F \in [0..n -> Seq(Strings)]
  BY ONLY <1>12 DEF Iterates
<1> QED
  BY ONLY <1>9, <1>13, Zenon DEF Next

(* What the reader knows of a name after some texts of it: its key, if     *)
(* there was any, with the texts joined.                                   *)
Knows(values, key, texts) ==
  /\ Has(values, key) <=> texts # <<>>
  /\ Value(values, key) = WithoutEmptyHead(texts)

LEMMA NothingKnown == ASSUME NEW key PROVE Knows(<<>>, key, <<>>)
<1>1. DOMAIN <<>> = {} /\ <<>> \in Seq(Strings) /\ AllEmpty(<<>>)
  BY EmptySeq DEF AllEmpty
<1>2. WithoutEmptyHead(<<>>) = <<>>
  BY ONLY <1>1, HeadIs
<1> QED
  BY ONLY <1>1, <1>2 DEF Knows, Has, Value

LEMMA KnowsMore ==
  ASSUME NEW old, NEW new, NEW key, NEW k, NEW text \in Strings, NEW texts \in Seq(Strings),
         Adds(new, old, k, text), Knows(old, key, texts)
  PROVE  Knows(new, key, IF k = key THEN Append(texts, text) ELSE texts)
<1>1. CASE k = key
  <2>1. Has(new, key) /\ Value(new, key) = Joined(Value(old, key), text)
    BY ONLY <1>1, Adds(new, old, k, text) DEF Adds, Has, Value
  <2>2. Append(texts, text) # <<>>
    BY AppendProperties
  <2>3. Value(new, key) = WithoutEmptyHead(Append(texts, text))
    BY ONLY <2>1, HeadKept, Knows(old, key, texts), text \in Strings, texts \in Seq(Strings)
    DEF Knows
  <2> QED
    BY ONLY <1>1, <2>1, <2>2, <2>3 DEF Knows
<1>2. CASE k # key
  <2>1. (Has(new, key) <=> Has(old, key)) /\ Value(new, key) = Value(old, key)
    BY ONLY <1>2, Adds(new, old, k, text) DEF Adds, Has, Value
  <2> QED
    BY ONLY <1>2, <2>1, Knows(old, key, texts) DEF Knows
<1> QED
  BY <1>1, <1>2

(* The parser has, after each line, the section of the last header and the *)
(* texts given to each name so far.                                        *)
LEMMA ParserKnows ==
  ASSUME NEW lines \in Seq(Lines), \A i \in 1..Len(lines) : ~ lines[i].indent,
         NEW n \in Nat, n = Len(lines), NEW section, NEW name
  PROVE  /\ Readers(lines)[n] \in Reader
         /\ Texts(lines, section, name)[n] \in Seq(Strings)
         /\ Knows(Readers(lines)[n].values, <<section, name>>, Texts(lines, section, name)[n])
<1> PICK R, F, key : /\ R = Readers(lines) /\ F = Texts(lines, section, name)
                     /\ key = <<section, name>>
  OBVIOUS
<1>1. /\ R \in [0..n -> Reader] /\ R[0] = NewReader
      /\ \A i \in 1..n : R[i] = ReadLine(R[i - 1], lines[i])
  BY ReadersAre
<1>2. /\ F \in [0..n -> Seq(Strings)] /\ F[0] = <<>>
      /\ \A i \in 1..n : F[i] = IF Mine(lines, section, name, i)
                               THEN Append(F[i - 1], lines[i].text) ELSE F[i - 1]
  BY ONLY TextsAre, lines \in Seq(Lines), n \in Nat, n = Len(lines), F = Texts(lines, section, name), SMTT(30)
<1> DEFINE T == {i \in 0..n : R[i].section = HeaderOf(lines, i) /\ Knows(R[i].values, key, F[i])}
<1>3. 0 \in T
  <2>1. NewReader.section = "" /\ NewReader.values = <<>>
    BY DEF NewReader
  <2>2. Knows(<<>>, key, <<>>)
    BY ONLY NothingKnown
  <2>3. PICK z \in Nat : z = 0
    OBVIOUS
  <2>4. HeaderOf(lines, z) = "" /\ z \in 0..n
    <3>1. HeaderOf(lines, z) = ""
      BY ONLY <2>3, NoHeader, Zenon
    <3>2. z \in 0..n
      BY ONLY <2>3, n \in Nat
    <3> QED
      BY ONLY <3>1, <3>2
  <2>5. R[z].section = HeaderOf(lines, z) /\ Knows(R[z].values, key, F[z])
    BY ONLY <1>1, <1>2, <2>1, <2>2, <2>3, <2>4
  <2>6. z \in T
    BY ONLY <2>4, <2>5
  <2> QED
    BY ONLY <2>3, <2>6
<1>4. ASSUME NEW i \in 1..n, i - 1 \in T
      PROVE  i \in T
  <2> PICK h : h = i - 1
    OBVIOUS
  <2>a. h \in 0..n /\ i \in 0..n /\ i \in 1..Len(lines)
    OBVIOUS
  <2> PICK q : q = R[i]
    OBVIOUS
  <2> PICK r \in Reader, line \in Lines : r = R[h] /\ line = lines[i]
    BY <1>1, <2>a
  <2>1. r = R[i - 1] /\ q = R[i] /\ line = lines[i]
    OBVIOUS
  <2> PICK ts \in Seq(Strings) : ts = F[h]
    BY <1>2, <2>a
  <2>2. ts = F[i - 1]
    OBVIOUS
  <2>3. r.section = HeaderOf(lines, i - 1) /\ Knows(r.values, key, ts)
    BY <1>4, <2>1, <2>2
  <2>4. q = ReadLine(r, line) /\ ~ line.indent
    BY <1>1, <2>1
  <2>5. /\ q.section = IF line.kind = "section" THEN line.name ELSE r.section
        /\ line.kind # "pair" => q.values = r.values
        /\ line.kind = "pair" => Adds(q.values, r.values, <<r.section, line.name>>, line.text)
    BY ONLY <2>4, LineRead, r \in Reader, line \in Lines
  <2>6. q.section = HeaderOf(lines, i)
    BY <2>1, <2>3, <2>5, HeaderStep
  <2>7. Mine(lines, section, name, i) <=> line.kind = "pair" /\ <<r.section, line.name>> = key
    <3>1. line.kind = "pair" => HeaderOf(lines, i) = r.section
      BY ONLY <2>5, <2>6
    <3> QED
      BY ONLY <2>1, <3>1, key = <<section, name>> DEF Mine
  <2>8. line.text \in Strings
    BY DEF Lines, Strings
  <2>9. Knows(q.values, key, F[i])
    <3>1. CASE line.kind # "pair"
      <4>1. F[i] = ts
        BY ONLY <1>2, <2>2, <2>7, <3>1, i \in 1..n
      <4> QED
        BY ONLY <2>3, <2>5, <3>1, <4>1
    <3>2. CASE line.kind = "pair"
      <4>1. F[i] = IF <<r.section, line.name>> = key THEN Append(ts, line.text) ELSE ts
        BY ONLY <1>2, <2>1, <2>2, <2>7, <3>2, i \in 1..n
      <4>2. PICK text \in Strings, k \in {<<r.section, line.name>>} :
              k = <<r.section, line.name>> /\ text = line.text
        BY <2>8
      <4>3. Adds(q.values, r.values, k, text)
        BY ONLY <2>5, <3>2, <4>2
      <4>4. PICK old, new : old = r.values /\ new = q.values
        OBVIOUS
      <4>5. Knows(new, key, IF k = key THEN Append(ts, text) ELSE ts)
        BY ONLY <2>3, <4>3, <4>4, KnowsMore, text \in Strings, ts \in Seq(Strings)
      <4> QED
        BY ONLY <4>1, <4>2, <4>4, <4>5
    <3> QED
      BY <3>1, <3>2
  <2> QED
    BY ONLY <2>1, <2>6, <2>9, i \in 1..n, n \in Nat
<1>5. T \in SUBSET (0..n)
  OBVIOUS
<1> HIDE DEF T
<1>6. T = 0..n
  BY ONLY <1>3, <1>4, <1>5, InductUpTo, n \in Nat
<1>7. n \in 0..n
  OBVIOUS
<1>8. Knows(R[n].values, key, F[n])
  BY ONLY <1>6, <1>7 DEF T
<1> QED
  BY <1>1, <1>2, <1>7, <1>8

-----------------------------------------------------------------------------
(* What main finds under each name, and the ports it has up to it.         *)
Given(f, i) == Texts(f.lines, "com", PortName[i])[Len(f.lines)]

LEMMA PortsAre ==
  ASSUME NEW f, f.lines \in Seq(Lines), NEW P, P = Ports(f)
  PROVE  /\ P[0] = <<>>
         /\ \A i \in 1..MaxThreads :
              P[i] = IF Given(f, i) # <<>> /\ WithoutEmptyHead(Given(f, i)) # FAIL
                     THEN Append(P[i - 1], WithoutEmptyHead(Given(f, i))) ELSE P[i - 1]
<1> PICK m \in Nat : m = MaxThreads
  BY Lengths
<1> DEFINE V == Seq(Seq(Strings))
           Next(v, i) == IF Given(f, i) # <<>> /\ WithoutEmptyHead(Given(f, i)) # FAIL
                         THEN Append(v, WithoutEmptyHead(Given(f, i))) ELSE v
           step == [i \in Nat |-> [v \in V |-> IF i \in 1..m THEN Next(v, i) ELSE v]]
<1>1. <<>> \in V
  BY EmptySeq
<1>2. ASSUME NEW i \in 1..m, NEW v \in V
      PROVE  Next(v, i) \in V
  <2>0. PICK lines \in Seq(Lines), n \in Nat : lines = f.lines /\ n = Len(lines)
    OBVIOUS
  <2>1. PICK F : F = Texts(lines, "com", PortName[i])
    OBVIOUS
  <2>2. F \in [0..n -> Seq(Strings)]
    BY ONLY <2>0, <2>1, TextsAre, lines \in Seq(Lines), n \in Nat
  <2>3. Given(f, i) \in Seq(Strings)
    BY <2>0, <2>1, <2>2 DEF Given
  <2>4. WithoutEmptyHead(Given(f, i)) \in Seq(Strings)
    BY ONLY <2>3, HeadKept, EmptyIsString
  <2>5. Append(v, WithoutEmptyHead(Given(f, i))) \in V
    BY ONLY <2>4, AppendProperties, v \in V
  <2> QED
    BY ONLY <2>5, v \in V
<1> HIDE DEF Next, V
<1>3. step \in [Nat -> [V -> V]]
  BY <1>2
<1>4. \A i \in 1..m, v \in V : step[i][v] = Next(v, i)
  OBVIOUS
<1> HIDE DEF step
<1>5. PICK g : Iterates(g, V, <<>>, step, m)
  BY <1>1, <1>3, RecursionUpTo
<1>6. g \in [0..m -> V] /\ g[0] = <<>> /\ \A i \in 1..m : g[i] = Next(g[i - 1], i)
  <2>1. ASSUME NEW i \in 1..m PROVE g[i] = Next(g[i - 1], i)
    <3>1. g[i] = step[i][g[i - 1]] /\ g[i - 1] \in V
      BY <1>5 DEF Iterates
    <3> QED
      BY <3>1, <1>4
  <2> QED
    BY <1>5, <2>1 DEF Iterates
<1>7. g = [i \in 0..m |-> IF i = 0 THEN <<>> ELSE Next(g[i - 1], i)]
  BY ONLY <1>6, m \in Nat
<1>8. P = [i \in 0..m |-> IF i = 0 THEN <<>> ELSE Next(P[i - 1], i)]
  BY ONLY <1>7, P = Ports(f), m = MaxThreads DEF Ports, Next, Given
<1>9. P[0] = <<>> /\ \A i \in 1..m : P[i] = Next(P[i - 1], i)
  <2>1. ASSUME NEW i \in 0..m
        PROVE  P[i] = IF i = 0 THEN <<>> ELSE Next(P[i - 1], i)
    BY ONLY <1>8, Zenon, i \in 0..m
  <2>2. 0 \in 0..m /\ \A i \in 1..m : i \in 0..m /\ i # 0
    BY ONLY m \in Nat
  <2> QED
    BY ONLY <2>1, <2>2, Zenon
<1> QED
  BY ONLY <1>9, m = MaxThreads, Zenon DEF Next

(* What reader.Get returns for a name.                                     *)
LEMMA PortFound ==
  ASSUME NEW f, f.opens, f.lines \in Seq(Lines), Unindented(f), NEW i \in 1..MaxThreads
  PROVE  Get(INIReader(f), "com", PortName[i], FAIL)
           = IF Given(f, i) # <<>> THEN WithoutEmptyHead(Given(f, i)) ELSE FAIL
<1>0. PICK name : name = PortName[i]
  OBVIOUS
<1>1. PICK lines \in Seq(Lines), n \in Nat : lines = f.lines /\ n = Len(lines)
  OBVIOUS
<1>2. \A j \in 1..Len(lines) : ~ lines[j].indent
  BY <1>1 DEF Unindented
<1>3. PICK r, ts, key : /\ r = Readers(lines)[n] /\ ts = Texts(lines, "com", name)[n]
                        /\ key = <<"com", name>>
  OBVIOUS
<1>4. Knows(r.values, key, ts)
  BY ONLY <1>1, <1>2, <1>3, ParserKnows, lines \in Seq(Lines), n \in Nat
<1>5. INIReader(f) = r
  BY <1>1, <1>3 DEF INIReader, ini_parse_stream
<1>6. Given(f, i) = ts
  BY ONLY <1>0, <1>1, <1>3 DEF Given
<1>7. Get(r, "com", name, FAIL) = IF Has(r.values, key) THEN Value(r.values, key) ELSE FAIL
  BY ONLY <1>3 DEF Get, Has, Value, Key
<1> QED
  BY ONLY <1>0, <1>1, <1>4, <1>5, <1>6, <1>7 DEF Knows

(* A file that cannot be opened is the only one below zero.                *)
LEMMA OpensOrNot ==
  /\ INIReader(NoFile).error < 0
  /\ \A f : f.opens /\ f.lines \in Seq(Lines) /\ Unindented(f) => ~ (INIReader(f).error < 0)
<1>1. INIReader(NoFile).error = -1
  BY DEF INIReader, NoFile, NewReader
<1>2. ASSUME NEW f, f.opens, f.lines \in Seq(Lines), Unindented(f)
      PROVE  ~ (INIReader(f).error < 0)
  <2>1. PICK lines \in Seq(Lines), n \in Nat : lines = f.lines /\ n = Len(lines)
    BY <1>2
  <2>2. \A j \in 1..Len(lines) : ~ lines[j].indent
    BY <1>2, <2>1 DEF Unindented
  <2>3. Readers(lines)[n] \in Reader
    BY ONLY <2>1, <2>2, ParserKnows, lines \in Seq(Lines), n \in Nat
  <2>4. INIReader(f) = Readers(lines)[n]
    BY <1>2, <2>1 DEF INIReader, ini_parse_stream
  <2>5. INIReader(f).error \in Nat
    BY ONLY <2>3, <2>4, ReaderFields
  <2> QED
    BY ONLY <2>5
<1> QED
  BY <1>1, <1>2

LEMMA NoPorts == ConfiguredPorts(NoFile) = <<>>
<1>1. PICK f : f = NoFile
  OBVIOUS
<1>2. f.lines = <<>> /\ f.lines \in Seq(Lines) /\ Len(f.lines) = 0
  BY <1>1, EmptySeq DEF NoFile
<1>3. PICK P : P = Ports(f)
  OBVIOUS
<1>4. ASSUME NEW i \in 1..7
      PROVE  P[i] = P[i - 1]
  <2>0. PICK lines \in Seq(Lines), n \in Nat : lines = f.lines /\ n = Len(lines) /\ n = 0
    BY <1>2
  <2>1. PICK F : F = Texts(lines, "com", PortName[i])
    OBVIOUS
  <2>2. F[0] = <<>>
    BY ONLY <2>0, <2>1, TextsAre, lines \in Seq(Lines), n \in Nat
  <2>3. Given(f, i) = <<>>
    BY ONLY <2>0, <2>1, <2>2 DEF Given
  <2> QED
    <3>1. i \in 1..MaxThreads /\ f.lines \in Seq(Lines)
      BY <1>2, Lengths
    <3>2. P[i] = IF Given(f, i) # <<>> /\ WithoutEmptyHead(Given(f, i)) # FAIL
                 THEN Append(P[i - 1], WithoutEmptyHead(Given(f, i))) ELSE P[i - 1]
      BY ONLY <1>3, <3>1, PortsAre
    <3> QED
      BY ONLY <2>3, <3>2
<1>5. P[0] = <<>>
  BY ONLY <1>2, <1>3, PortsAre
<1>6. P[7] = P[6] /\ P[6] = P[5] /\ P[5] = P[4] /\ P[4] = P[3] /\ P[3] = P[2] /\ P[2] = P[1] /\ P[1] = P[0]
  BY <1>4
<1> QED
  BY <1>1, <1>3, <1>5, <1>6, Lengths DEF ConfiguredPorts

(* Up to the last name, the ports found are those of the names before.     *)
PortsInv ==
  /\ mpc \in {"args", "config", "scan"} => file \in Files
  /\ mpc = "scan" => file # NoFile
  /\ mpc = "scan" /\ Unindented(file) => comPorts = Ports(file)[nPort]

PortsStep == mpc # "members" /\ mpc' = "members" /\ Unindented(file) =>
               comPorts' = ConfiguredPorts(file)

LEMMA NothingScanned == ASSUME StartupInv, mpc \in {"args", "config"} PROVE comPorts = <<>> /\ nPort = 0
<1>1. nPort = 0 /\ Len(comPorts) <= 0
  BY DEF StartupInv, MainInv, nThreads
<1>2. PICK Names : comPorts \in Seq(Names)
  BY DEF StartupInv, Sequences
<1> QED
  BY <1>1, <1>2, EmptySeq

LEMMA ReadConfigPorts == ASSUME StartupInv, PortsInv, ReadConfig PROVE PortsInv' /\ PortsStep
<1>1. file \in Files /\ comPorts = <<>> /\ nPort = 0
  BY NothingScanned DEF PortsInv, ReadConfig
<1>2. file = NoFile \/ (file.opens /\ file.lines \in Seq(Lines))
  BY <1>1, StartupAssumption
<1>3. UNCHANGED <<comPorts, nPort>>
  BY DEF ReadConfig
<1>4. CASE INIReader(file).error < 0
  <2>1. mpc' = "members"
    BY <1>4 DEF ReadConfig
  <2>2. Unindented(file) => file = NoFile
    BY <1>2, <1>4, OpensOrNot
  <2>3. PortsStep
    BY <1>1, <1>3, <2>2, NoPorts DEF PortsStep
  <2> QED
    BY <2>1, <2>3 DEF PortsInv
<1>5. CASE ~ (INIReader(file).error < 0)
  <2>1. mpc' = "scan" /\ file' = file
    BY <1>5 DEF ReadConfig
  <2>2. file # NoFile
    BY <1>5, OpensOrNot
  <2>3. Ports(file)[0] = <<>>
    BY <1>2, <2>2, PortsAre
  <2> QED
    BY <1>1, <1>3, <2>1, <2>2, <2>3 DEF PortsInv, PortsStep
<1> QED
  BY <1>4, <1>5

LEMMA ScanPorts == ASSUME StartupInv, PortsInv, ScanPort PROVE PortsInv' /\ PortsStep
<1>1. mpc = "scan" /\ file \in Files /\ file # NoFile
  BY DEF PortsInv, ScanPort
<1>2. file.opens /\ file.lines \in Seq(Lines)
  BY <1>1, StartupAssumption
<1>3. PICK i \in 1..MaxThreads : i = nPort + 1 /\ nPort = i - 1
  BY <1>1, Lengths DEF StartupInv, MainInv
<1>4. ASSUME Unindented(file)
      PROVE  comPorts' = Ports(file)[i]
  <2>1. comPorts = Ports(file)[i - 1]
    BY <1>1, <1>3, <1>4 DEF PortsInv
  <2>2. PICK port : port = Get(INIReader(file), "com", PortName[i], FAIL)
    OBVIOUS
  <2>3. comPorts' = IF port # FAIL THEN Append(comPorts, port) ELSE comPorts
    BY <1>3, <2>2 DEF ScanPort
  <2>4. port = IF Given(file, i) # <<>> THEN WithoutEmptyHead(Given(file, i)) ELSE FAIL
    BY ONLY <1>2, <1>4, <2>2, PortFound, i \in 1..MaxThreads
  <2>5. Ports(file)[i] = IF Given(file, i) # <<>> /\ WithoutEmptyHead(Given(file, i)) # FAIL
                         THEN Append(Ports(file)[i - 1], WithoutEmptyHead(Given(file, i)))
                         ELSE Ports(file)[i - 1]
    BY ONLY <1>2, PortsAre, i \in 1..MaxThreads
  <2> QED
    BY ONLY <2>1, <2>3, <2>4, <2>5
<1>5. nPort' = i
  BY <1>3 DEF ScanPort
<1>6. CASE i = MaxThreads
  <2>1. mpc' = "members"
    BY <1>5, <1>6 DEF ScanPort
  <2> QED
    BY <1>4, <1>6, <2>1 DEF PortsInv, PortsStep, ConfiguredPorts
<1>7. CASE i # MaxThreads
  <2>1. mpc' = "scan" /\ file' = file
    BY <1>1, <1>5, <1>7 DEF ScanPort
  <2> QED
    BY <1>1, <1>4, <1>5, <2>1 DEF PortsInv, PortsStep
<1> QED
  BY <1>6, <1>7

(* No other step finds ports or leads to "members".                        *)
LEMMA PortsNext == ASSUME StartupInv, PortsInv, [StartupNext]_startupVars PROVE PortsInv' /\ PortsStep
<1>1. CASE ReadConfig
  BY <1>1, ReadConfigPorts
<1>2. CASE ScanPort
  BY <1>2, ScanPorts
<1>3. ASSUME NEW args \in Arguments, ReadArguments(args)
      PROVE  PortsInv' /\ PortsStep
  BY <1>3 DEF ReadArguments, Dies, mainVars, PortsInv, PortsStep
<1>4. CASE StartServerThread \/ InitMember \/ NewMinerThread \/ SetShutdown \/ SetComPort \/ PushBack
  <2>1. mpc' \notin {"args", "config", "scan", "members"}
    BY <1>4 DEF StartServerThread, InitMember, NewMinerThread, SetShutdown, SetComPort, PushBack
  <2> QED
    BY <2>1 DEF PortsInv, PortsStep
<1>5. ASSUME UNCHANGED <<mpc, mainVars>>
      PROVE  PortsInv' /\ PortsStep
  BY <1>5 DEF mainVars, PortsInv, PortsStep
<1>6. ASSUME \/ MainIdle \/ BeginServing \/ UNCHANGED startupVars
             \/ \E t \in DOMAIN tpc : OpenPort(t) \/ TestShutdown(t)
      PROVE  PortsInv' /\ PortsStep
  <2>1. UNCHANGED <<mpc, mainVars>>
    BY <1>6 DEF MainIdle, BeginServing, OpenPort, TestShutdown, startupVars, mainVars
  <2> QED
    BY <1>5, <2>1
<1> QED
  BY <1>1, <1>2, <1>3, <1>4, <1>6 DEF StartupNext, Main

(***************************************************************************)
(* config.ini, "It can map to any com port": for every file without        *)
(* indented lines, whatever its sections, repeated names, empty values and *)
(* broken lines, main has one port for each PORTn under [COM], in order.   *)
(***************************************************************************)
THEOREM PortsAsConfiguredHolds == StartupSpec => PortsAsConfigured
<1>1. StartupInit => PortsInv
  BY DEF StartupInit, PortsInv
<1>2. StartupInv /\ PortsInv /\ [StartupNext]_startupVars => PortsInv'
  BY PortsNext
<1>3. StartupInv /\ PortsInv /\ [StartupNext]_startupVars
        => [mpc # "members" /\ mpc' = "members" /\ Unindented(file) =>
              comPorts' = ConfiguredPorts(file)]_startupVars
  BY PortsNext DEF PortsStep
<1> QED
  BY <1>1, <1>2, <1>3, StartupInvariant, PTL DEF StartupSpec, PortsAsConfigured

=============================================================================
