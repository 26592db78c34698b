----------------------- MODULE MonitorFragmentsProofs -----------------------
(***************************************************************************)
(* What holds of the two monitoring screens for any number of threads,     *)
(* instances, shells and packets, any buffer size and any Env.             *)
(***************************************************************************)
EXTENDS MonitorFragments, TLAPS

(***************************************************************************)
(* Every operation of the loopback port, the root shell and csiutil keeps  *)
(* the types of their variables, whoever calls it and when.                *)
(***************************************************************************)

(* The port: opening, closing, delivery and receipt. *)
LEMMA BindType ==
    ASSUME LoopbackTypeOK, NEW s \in Threads, BindSocket(s)
    PROVE  LoopbackTypeOK'
BY DEF LoopbackTypeOK, BindSocket

LEMMA CloseType ==
    ASSUME LoopbackTypeOK, NEW s, CloseSocket(s)
    PROVE  LoopbackTypeOK'
<1>1. << >> \in Seq(Datagram)
  OBVIOUS
<1>2. QED
  BY <1>1 DEF LoopbackTypeOK, CloseSocket

LEMMA DeliverType ==
    ASSUME LoopbackTypeOK, NEW d \in Datagram, Deliver(d)
    PROVE  LoopbackTypeOK'
BY DEF LoopbackTypeOK, Deliver

LEMMA TakeType ==
    ASSUME LoopbackTypeOK, NEW s \in Threads, TakeDatagram(s)
    PROVE  LoopbackTypeOK' /\ Head(rxQueue[s]) \in Datagram
BY DEF LoopbackTypeOK, TakeDatagram

-----------------------------------------------------------------------------
(* BashProcess *)

LEMMA OpenShellType ==
    ASSUME RootTypeOK, NEW s \in Shells, OpenShell(s)
    PROVE  RootTypeOK'
BY DEF RootTypeOK, OpenShell, ShellState, utilVars

LEMMA InputType ==
    ASSUME RootTypeOK, NEW s, NEW cmd \in Command, Input(s, cmd)
    PROVE  RootTypeOK'
<1>1. CASE s \in Shells
  BY <1>1 DEF RootTypeOK, Input, utilVars
<1>2. CASE s \notin Shells
  <2>1. stdin' = stdin
    BY <1>2 DEF RootTypeOK, Input
  <2>2. QED
    BY <2>1 DEF RootTypeOK, Input, utilVars
<1>3. QED
  BY <1>1, <1>2

LEMMA ExitShellType ==
    ASSUME RootTypeOK, NEW s \in Shells, ExitShell(s)
    PROVE  RootTypeOK'
BY DEF RootTypeOK, ExitShell, ShellState, utilVars

-----------------------------------------------------------------------------
(* The shell *)

LEMMA UtilEndsType ==
    ASSUME RootTypeOK, NEW u \in Threads, UtilEnds(u), UNCHANGED <<shell, stdin>>
    PROVE  RootTypeOK'
BY LoopbackAssumption DEF RootTypeOK, UtilEnds, UtilState

LEMMA ExecuteType ==
    ASSUME RootTypeOK, NEW s \in Shells, ExecuteCommand(s)
    PROVE  RootTypeOK'
<1> DEFINE cmd == Head(stdin[s])
<1>1. cmd \in Command /\ stdin' \in [Shells -> Seq(Command)]
  BY DEF ExecuteCommand, RootTypeOK
<1>2. shell' \in [Shells -> ShellState]
  BY DEF ExecuteCommand, RootTypeOK
<1>3. CASE RunCsiutil(s, cmd.arg)
  <2>1. cmd.arg \in Threads \cup {NONE}
    BY <1>1 DEF Command
  <2>2. QED
    BY <1>1, <1>2, <1>3, <2>1 DEF RunCsiutil, RootTypeOK, UtilState
<1>4. CASE RunKill(s)
  <2>1. CASE job1[s] = NONE
    BY <1>1, <1>2, <1>4, <2>1 DEF RunKill, RootTypeOK, utilVars
  <2>2. CASE job1[s] # NONE
    <3>1. job1[s] \in Threads /\ UtilEnds(job1[s])
      BY <1>4, <2>2 DEF RunKill, RootTypeOK
    <3>2. QED
      BY <1>1, <1>2, <3>1, LoopbackAssumption DEF RootTypeOK, UtilEnds, UtilState
  <2>3. QED
    BY <2>1, <2>2
<1>5. CASE RunIfconfig(s)
  BY <1>1, <1>2, <1>5 DEF RunIfconfig, RootTypeOK
<1>6. QED
  BY <1>3, <1>4, <1>5 DEF ExecuteCommand

LEMMA ShellType ==
    ASSUME RootTypeOK, NEW s \in Shells, DropCommands(s) \/ ShellDies(s)
    PROVE  RootTypeOK'
<1>1. << >> \in Seq(Command)
  OBVIOUS
<1>2. QED
  BY <1>1 DEF RootTypeOK, DropCommands, ShellDies, ShellState, utilVars

-----------------------------------------------------------------------------
(* csiutil *)

LEMMA SendToType ==
    ASSUME LoopbackTypeOK, NEW u \in Threads, NEW d \in Datagram, SendTo(u, d)
    PROVE  LoopbackTypeOK'
BY DeliverType DEF SendTo, LoopbackTypeOK, loopbackVars

LEMMA UtilStepType ==
    ASSUME LoopbackTypeOK, RootTypeOK, NEW u \in Threads,
           \/ PcapFails(u) \/ CreateUdpSendSocket(u) \/ SleepDelay(u)
           \/ GotPacket(u) \/ GotShortPacket(u) \/ SendStop(u) \/ CloseSendSocket(u)
    PROVE  LoopbackTypeOK' /\ RootTypeOK'
<1>1. CASE PcapFails(u) \/ CloseSendSocket(u)
  <2>1. RootTypeOK'
    BY <1>1, UtilEndsType DEF PcapFails, CloseSendSocket
  <2>2. QED
    BY <1>1, <2>1 DEF PcapFails, CloseSendSocket, LoopbackTypeOK, loopbackVars
<1>2. CASE CreateUdpSendSocket(u)
  BY <1>2 DEF CreateUdpSendSocket, AtUtil, LoopbackTypeOK, loopbackVars,
              RootTypeOK, shellVars, UtilState
<1>3. CASE SleepDelay(u)
  BY <1>3 DEF SleepDelay, AtUtil, LoopbackTypeOK, loopbackVars,
              RootTypeOK, shellVars, UtilState
<1>4. CASE GotPacket(u)
  <2>1. sent[u] + 1 \in 0..PacketCount
    BY <1>4, LoopbackAssumption DEF GotPacket, RootTypeOK
  <2>2. [src |-> u, n |-> sent[u] + 1] \in Datagram
    BY <2>1 DEF Datagram
  <2>3. LoopbackTypeOK'
    BY <1>4, <2>2, SendToType DEF GotPacket
  <2>4. RootTypeOK'
    BY <1>4, <2>1 DEF GotPacket, AtUtil, RootTypeOK, shellVars, UtilState
  <2>5. QED
    BY <2>3, <2>4
<1>5. CASE SendStop(u)
  <2>1. StopMsg(u) \in Datagram
    BY LoopbackAssumption DEF StopMsg, Datagram
  <2>2. LoopbackTypeOK'
    BY <1>5, <2>1, SendToType DEF SendStop
  <2>3. RootTypeOK'
    BY <1>5 DEF SendStop, AtUtil, RootTypeOK, shellVars, UtilState
  <2>4. QED
    BY <2>2, <2>3
<1>6. CASE GotShortPacket(u)
  BY <1>6, LoopbackAssumption DEF GotShortPacket, AtUtil, LoopbackTypeOK,
     loopbackVars, RootTypeOK, shellVars, UtilState
<1>7. QED
  BY <1>1, <1>2, <1>3, <1>4, <1>5, <1>6

-----------------------------------------------------------------------------
(* The screens *)

(* A thread that has been started knows its fragment; so does the main     *)
(* thread while it is in onDestroyView.                                    *)
Located ==
    /\ \A t \in Threads : pc[t] # "unborn" => inst[t] \in Instances
    /\ pc[Main] # "looper" => inst[Main] \in Instances

(* A session about to write has received a datagram. *)
Holding == \A t \in Threads : pc[t] = "write" => packet[t] \in Datagram

TypeInv == TypeOK /\ Located /\ Holding

(* A posted or displayed "capturing" is backed by a thread that has posted *)
(* and will still post idle.                                               *)
Unposted == {"unborn", "post", "done"}

CapturingHasThread ==
    \A i \in Instances :
        Shown(i) = "capturing"
            => \E t \in Threads : inst[t] = i /\ pc[t] \notin Unposted

-----------------------------------------------------------------------------
(* The initial states *)

LEMMA InitTypeInv == Init => TypeInv
<1> SUFFICES ASSUME Init PROVE TypeInv
  OBVIOUS
<1>1. LoopbackTypeOK
  <2>1. << >> \in Seq(Datagram)
    OBVIOUS
  <2>2. QED
    BY <2>1 DEF Init, LoopbackInit, LoopbackTypeOK
<1>2. RootTypeOK
  <2>1. << >> \in Seq(Command)
    OBVIOUS
  <2>2. QED
    BY <2>1, LoopbackAssumption
    DEF Init, RootInit, RootTypeOK, ShellState, UtilState
<1>3. FragmentTypeOK
  <2>1. << >> \in Seq(Line)
    OBVIOUS
  <2>2. QED
    BY <2>1 DEF Init, FragmentTypeOK, UiState, ThreadPc, NumberText
<1>4. Located /\ Holding
  BY FragmentAssumption DEF Init, Located, Holding, Agents
<1>5. QED
  BY <1>1, <1>2, <1>3, <1>4 DEF TypeInv, TypeOK

-----------------------------------------------------------------------------
(* The session thread keeps the types *)

(* A step that moves an agent to another place. *)
LEMMA PlaceInv ==
    ASSUME TypeInv, NEW a \in Agents, NEW to, GoTo(a, to),
           inst[a] \in Instances, inst' = inst,
           \A u \in Threads : u # a => packet'[u] = packet[u],
           a \in Threads /\ to = "write" => packet'[a] \in Datagram
    PROVE  Located' /\ Holding'
<1>1. \A b \in Agents : b # a => pc'[b] = pc[b]
  BY DEF TypeInv, TypeOK, FragmentTypeOK, GoTo
<1>2. pc'[a] = to
  BY DEF TypeInv, TypeOK, FragmentTypeOK, GoTo
<1>3. Threads \subseteq Agents /\ Main \in Agents
  BY DEF Agents
<1>4. Located'
  BY <1>1, <1>3 DEF TypeInv, Located
<1>5. Holding'
  BY <1>1, <1>2, <1>3 DEF TypeInv, Holding
<1>6. QED
  BY <1>4, <1>5

(* A step that changes no variable but pc, and moves thread t forward. *)
LEMMA MoveType ==
    ASSUME TypeInv, NEW a \in Agents, NEW to \in ThreadPc \cup {"looper"},
           GoTo(a, to), OnlyPc,
           inst[a] \in Instances, to # "write"
    PROVE  TypeInv'
<1>1. LoopbackTypeOK' /\ RootTypeOK'
  BY DEF TypeInv, TypeOK, OnlyPc, LoopbackTypeOK, loopbackVars,
         RootTypeOK, rootVars, shellVars, utilVars
<1>2. FragmentTypeOK'
  BY DEF TypeInv, TypeOK, FragmentTypeOK, GoTo, OnlyPc, fieldVars, uiVars,
         localVars, fileVars
<1>3. Located' /\ Holding'
  BY DEF TypeInv, TypeOK, FragmentTypeOK, Located, Holding, GoTo, OnlyPc,
         localVars, loopbackVars, Agents
<1>4. QED
  BY <1>1, <1>2, <1>3 DEF TypeInv, TypeOK

LEMMA SessionType ==
    ASSUME TypeInv, NEW t \in Threads, SessionThread(t)
    PROVE  TypeInv'
<1>1. t \in Agents /\ t # Main
  BY FragmentAssumption DEF Agents
<1>2. pc[t] # "unborn" /\ inst[t] \in Instances
  BY DEF TypeInv, Located, SessionThread, At, PostCapturing, LaunchCsiutil,
         JobsOutput, TestSocket, NewSocket, AssignSocket, CreateFileCloses,
         CreateFileOpens, ReadSocketField, ReceiveThrows, Receive, WriteText
<1>3. CASE PostCapturing(t)
  <2>1. LoopbackTypeOK' /\ RootTypeOK'
    BY <1>3 DEF PostCapturing, TypeInv, TypeOK, LoopbackTypeOK, loopbackVars,
                RootTypeOK, rootVars, shellVars, utilVars
  <2>2. FragmentTypeOK'
    BY <1>1, <1>2, <1>3
    DEF PostCapturing, PostValue, GoTo, TypeInv, TypeOK, FragmentTypeOK,
        fieldVars, localVars, fileVars, loopbackVars, ThreadPc, UiState
  <2>3. Located' /\ Holding'
    BY <1>1, <1>2, <1>3, PlaceInv
    DEF PostCapturing, PostValue, GoTo, TypeInv, TypeOK, FragmentTypeOK, Located,
        Holding, fieldVars, localVars, fileVars, loopbackVars, ThreadPc, UiState
  <2>4. QED
    BY <2>1, <2>2, <2>3 DEF TypeInv, TypeOK
<1>4. CASE LaunchCsiutil(t)
  <2>1. LaunchCmd(t) \in Command
    BY DEF LaunchCmd, Command
  <2>2. LoopbackTypeOK' /\ RootTypeOK'
    BY <1>4, <2>1, InputType
    DEF LaunchCsiutil, TypeInv, TypeOK, LoopbackTypeOK, loopbackVars,
        RootTypeOK, rootVars, shellVars, utilVars
  <2>3. FragmentTypeOK'
    BY <1>1, <1>2, <1>4
    DEF LaunchCsiutil, GoTo, TypeInv, TypeOK, FragmentTypeOK,
        fieldVars, uiVars, localVars, fileVars, ThreadPc, CleanupPc
  <2>4. Located' /\ Holding'
    BY <1>1, <1>2, <1>4, PlaceInv
    DEF LaunchCsiutil, GoTo, TypeInv, TypeOK, FragmentTypeOK, Located, Holding,
        fieldVars, uiVars, localVars, fileVars, ThreadPc, CleanupPc
  <2>5. QED
    BY <2>2, <2>3, <2>4 DEF TypeInv, TypeOK
<1>5. CASE JobsOutput(t)
  BY <1>1, <1>2, <1>5, MoveType DEF JobsOutput, ThreadPc, CleanupPc
<1>6. CASE TestSocket(t)
  BY <1>1, <1>2, <1>6, MoveType DEF TestSocket, ThreadPc, CleanupPc
<1>7. CASE NewSocket(t)
  <2>1. LoopbackTypeOK' /\ RootTypeOK'
    BY <1>7, BindType
    DEF NewSocket, TypeInv, TypeOK, LoopbackTypeOK, loopbackVars,
        RootTypeOK, rootVars, shellVars, utilVars
  <2>2. FragmentTypeOK'
    BY <1>1, <1>2, <1>7
    DEF NewSocket, GoTo, TypeInv, TypeOK, FragmentTypeOK,
        fieldVars, uiVars, localVars, fileVars, ThreadPc, CleanupPc
  <2>3. Located' /\ Holding'
    BY <1>1, <1>2, <1>7, PlaceInv
    DEF NewSocket, GoTo, TypeInv, TypeOK, FragmentTypeOK, Located, Holding,
        fieldVars, uiVars, localVars, fileVars, ThreadPc, CleanupPc
  <2>4. QED
    BY <2>1, <2>2, <2>3 DEF TypeInv, TypeOK
<1>8. CASE AssignSocket(t) \/ CreateFileCloses(t) \/ CreateFileOpens(t)
  <2>1. LoopbackTypeOK' /\ RootTypeOK'
    BY <1>8 DEF AssignSocket, CreateFileCloses, CreateFileOpens, TypeInv, TypeOK,
                LoopbackTypeOK, loopbackVars, RootTypeOK, rootVars, shellVars, utilVars
  <2>2. FragmentTypeOK'
    <3> USE <1>1, <1>2 DEF GoTo, TypeInv, TypeOK, FragmentTypeOK, uiVars, localVars,
                           ThreadPc, CleanupPc
    <3>1. CASE AssignSocket(t)
      BY <3>1 DEF AssignSocket, fileVars
    <3>2. CASE CreateFileCloses(t)
      BY <3>2 DEF CreateFileCloses, CloseWriterOf, fieldVars
    <3>3. CASE CreateFileOpens(t)
      <4>1. CASE GoTo(t, "loop")
        <5>1. pc' \in [Agents -> ThreadPc \cup {"looper"}]
          BY <4>1
        <5>2. bw' \in [Instances -> Threads \cup {NONE}]
          BY <3>3 DEF CreateFileOpens
        <5>3. openWriters' \subseteq Threads
          BY <3>3 DEF CreateFileOpens
        <5>4. QED
          BY <3>3, <5>1, <5>2, <5>3 DEF CreateFileOpens
      <4>2. CASE GoTo(t, "checkNull")
        <5>1. pc' \in [Agents -> ThreadPc \cup {"looper"}]
          BY <4>2
        <5>2. bw' \in [Instances -> Threads \cup {NONE}]
          BY <3>3 DEF CreateFileOpens
        <5>3. openWriters' \subseteq Threads
          BY <3>3 DEF CreateFileOpens
        <5>4. QED
          BY <3>3, <5>1, <5>2, <5>3 DEF CreateFileOpens
      <4>3. QED
        BY <3>3, <4>1, <4>2 DEF CreateFileOpens
    <3>4. QED
      BY <1>8, <3>1, <3>2, <3>3
  <2>3. Located' /\ Holding'
    BY <1>1, <1>2, <1>8, PlaceInv
    DEF AssignSocket, CreateFileCloses, CreateFileOpens, CloseWriterOf, GoTo,
        TypeInv, TypeOK, FragmentTypeOK, Located, Holding,
        fieldVars, uiVars, localVars, ThreadPc, CleanupPc
  <2>4. QED
    BY <2>1, <2>2, <2>3 DEF TypeInv, TypeOK
<1>9. CASE ReadSocketField(t) \/ ReceiveThrows(t)
  <2>1. LoopbackTypeOK' /\ RootTypeOK'
    BY <1>9 DEF ReadSocketField, ReceiveThrows, TypeInv, TypeOK,
                LoopbackTypeOK, loopbackVars, RootTypeOK, rootVars, shellVars, utilVars
  <2>2. FragmentTypeOK'
    BY <1>1, <1>2, <1>9
    DEF ReadSocketField, ReceiveThrows, GoTo, TypeInv, TypeOK, FragmentTypeOK,
        fieldVars, uiVars, fileVars, ThreadPc, CleanupPc
  <2>3. Located' /\ Holding'
    BY <1>1, <1>2, <1>9, PlaceInv
    DEF ReadSocketField, ReceiveThrows, GoTo, TypeInv, TypeOK, FragmentTypeOK,
        Located, Holding, fieldVars, uiVars, fileVars, ThreadPc, CleanupPc
  <2>4. QED
    BY <2>1, <2>2, <2>3 DEF TypeInv, TypeOK
<1>10. CASE Receive(t)
  <2>1. ref[t] \in Threads
    BY <1>10 DEF Receive, TypeInv, TypeOK, LoopbackTypeOK
  <2>2. LoopbackTypeOK' /\ Head(rxQueue[ref[t]]) \in Datagram
    BY <1>10, <2>1, TakeType DEF Receive, TypeInv, TypeOK
  <2>3. RootTypeOK'
    BY <1>10 DEF Receive, TypeInv, TypeOK, RootTypeOK, rootVars, shellVars, utilVars
  <2>4. FragmentTypeOK'
    <3>1. pc' \in [Agents -> ThreadPc \cup {"looper"}]
      BY <1>10 DEF Receive, GoTo, TypeInv, TypeOK, FragmentTypeOK, ThreadPc, CleanupPc
    <3>2. packet' \in [Threads -> Datagram \cup {NONE}]
      BY <1>10, <2>2 DEF Receive, TypeInv, TypeOK, FragmentTypeOK
    <3>3. ref' \in [Threads -> Threads \cup {NONE}]
      BY <1>10 DEF Receive, TypeInv, TypeOK, FragmentTypeOK
    <3>4. QED
      BY <1>10, <3>1, <3>2, <3>3
      DEF Receive, TypeInv, TypeOK, FragmentTypeOK, fieldVars, uiVars, fileVars
  <2>5. Located' /\ Holding'
    BY <1>1, <1>2, <1>10, <2>2, PlaceInv
    DEF Receive, GoTo, TypeInv, TypeOK, FragmentTypeOK, Located, Holding,
        fieldVars, uiVars, fileVars, ThreadPc, CleanupPc
  <2>6. QED
    BY <2>2, <2>3, <2>4, <2>5 DEF TypeInv, TypeOK
<1>11. CASE WriteText(t)
  <2>1. LoopbackTypeOK' /\ RootTypeOK'
    BY <1>11 DEF WriteText, TypeInv, TypeOK,
                 LoopbackTypeOK, loopbackVars, RootTypeOK, rootVars, shellVars, utilVars
  <2>2. [by |-> t, packet |-> packet[t]] \in Line
    BY <1>11 DEF WriteText, At, TypeInv, Holding, Line
  <2>3. FragmentTypeOK'
    <3>1. pc' \in [Agents -> ThreadPc \cup {"looper"}]
      BY <1>11 DEF WriteText, GoTo, TypeInv, TypeOK, FragmentTypeOK, ThreadPc, CleanupPc
    <3>2. file' \in [Threads -> Seq(Line)]
      <4>1. \A w \in Threads :
              Append(file[w], [by |-> t, packet |-> packet[t]]) \in Seq(Line)
        BY <2>2 DEF TypeInv, TypeOK, FragmentTypeOK
      <4>2. CASE bw[inst[t]] \in openWriters
        <5>1. file' = [file EXCEPT ![bw[inst[t]]] =
                         Append(file[bw[inst[t]]], [by |-> t, packet |-> packet[t]])]
          BY <1>11, <4>2 DEF WriteText
        <5>2. QED
          BY <4>1, <4>2, <5>1 DEF TypeInv, TypeOK, FragmentTypeOK
      <4>3. CASE bw[inst[t]] \notin openWriters
        BY <1>11, <4>3 DEF WriteText, TypeInv, TypeOK, FragmentTypeOK
      <4>4. QED
        BY <4>2, <4>3
    <3>3. packet' \in [Threads -> Datagram \cup {NONE}]
      BY <1>11 DEF WriteText, TypeInv, TypeOK, FragmentTypeOK
    <3>4. QED
      BY <1>11, <3>1, <3>2, <3>3
      DEF WriteText, TypeInv, TypeOK, FragmentTypeOK, fieldVars, uiVars
  <2>4. Located' /\ Holding'
    BY <1>1, <1>2, <1>11, <2>2, PlaceInv
    DEF WriteText, GoTo, TypeInv, TypeOK, FragmentTypeOK, Located, Holding,
        fieldVars, uiVars, ThreadPc, CleanupPc
  <2>5. QED
    BY <2>1, <2>3, <2>4 DEF TypeInv, TypeOK
<1>12. QED
  BY <1>3, <1>4, <1>5, <1>6, <1>7, <1>8, <1>9, <1>10, <1>11 DEF SessionThread
-----------------------------------------------------------------------------
(* The cleanup, the end of a thread and the stop thread keep the types *)

LEMMA CleanupType ==
    ASSUME TypeInv, NEW a \in Agents, Cleanup(a)
    PROVE  TypeInv'
<1>1. inst[a] \in Instances /\ "looper" \notin CleanupPc
  BY DEF TypeInv, Located, Agents, CleanupPc, Cleanup, At, CheckNull, CheckClosed,
         CloseTheSocket, SetNull
<1>2. /\ AfterCleanup(a) \in (ThreadPc \cup {"looper"}) \ {"write"}
      /\ CleanupPc \subseteq ThreadPc \ {"write"}
  BY DEF AfterCleanup, ThreadPc, CleanupPc
<1>3. CASE CheckNull(a)
  BY <1>1, <1>2, <1>3, MoveType DEF CheckNull, CleanupPc
<1>4. CASE Crash
  BY <1>4 DEF Crash, TypeInv, TypeOK, LoopbackTypeOK, loopbackVars,
         RootTypeOK, rootVars, shellVars, utilVars, FragmentTypeOK,
         fieldVars, uiVars, localVars, fileVars, Located, Holding
<1>5. CASE CheckClosed(a)
  BY <1>1, <1>2, <1>4, <1>5, MoveType DEF CheckClosed, CleanupPc
<1>6. CASE CloseTheSocket(a)
  <2>1. CASE socket[inst[a]] = NONE
    BY <1>4, <1>6, <2>1 DEF CloseTheSocket
  <2>2. CASE socket[inst[a]] # NONE
    <3>1. LoopbackTypeOK'
      BY <1>6, <2>2, CloseType DEF CloseTheSocket, TypeInv, TypeOK
    <3>2. RootTypeOK'
      BY <1>6, <2>2 DEF CloseTheSocket, TypeInv, TypeOK,
                        RootTypeOK, rootVars, shellVars, utilVars
    <3>3. FragmentTypeOK'
      BY <1>6, <2>2, <1>2
      DEF CloseTheSocket, GoTo, TypeInv, TypeOK, FragmentTypeOK, CleanupPc,
          fieldVars, uiVars, localVars, fileVars
    <3>4. GoTo(a, "setNull") /\ UNCHANGED localVars
      BY <1>6, <2>2 DEF CloseTheSocket
    <3>5. Located' /\ Holding'
      BY <1>1, <3>4, PlaceInv DEF localVars
    <3>6. QED
      BY <3>1, <3>2, <3>3, <3>5 DEF TypeInv, TypeOK
  <2>3. QED
    BY <2>1, <2>2
<1>7. CASE SetNull(a)
  <2>1. LoopbackTypeOK' /\ RootTypeOK'
    BY <1>7 DEF SetNull, TypeInv, TypeOK, LoopbackTypeOK, loopbackVars,
                RootTypeOK, rootVars, shellVars, utilVars
  <2>2. FragmentTypeOK'
    BY <1>2, <1>7
    DEF SetNull, GoTo, TypeInv, TypeOK, FragmentTypeOK, uiVars, localVars, fileVars
  <2>3. GoTo(a, AfterCleanup(a)) /\ UNCHANGED localVars
    BY <1>7 DEF SetNull
  <2>4. Located' /\ Holding'
    BY <1>1, <1>2, <2>3, PlaceInv DEF localVars
  <2>5. QED
    BY <2>1, <2>2, <2>4 DEF TypeInv, TypeOK
<1>8. QED
  BY <1>3, <1>5, <1>6, <1>7 DEF Cleanup

LEMMA EndType ==
    ASSUME TypeInv, NEW t \in Threads,
           StopThread(t) \/ CloseFile(t) \/ PostIdle(t)
    PROVE  TypeInv'
<1>1. t \in Agents /\ t # Main
  BY FragmentAssumption DEF Agents
<1>2. inst[t] \in Instances
  BY DEF TypeInv, Located, StopThread, At, KillJob, KillOutput, CloseFile, PostIdle
<1>3. CASE KillJob(t)
  <2>1. KillCmd \in Command
    BY DEF KillCmd, Command
  <2>2. LoopbackTypeOK' /\ RootTypeOK'
    BY <1>3, <2>1, InputType
    DEF KillJob, TypeInv, TypeOK, LoopbackTypeOK, loopbackVars,
        RootTypeOK, rootVars, shellVars, utilVars
  <2>3. FragmentTypeOK'
    BY <1>1, <1>3
    DEF KillJob, GoTo, TypeInv, TypeOK, FragmentTypeOK,
        fieldVars, uiVars, localVars, fileVars, ThreadPc
  <2>4. UNCHANGED localVars /\ (GoTo(t, "killOut") \/ GoTo(t, "postIdle"))
    BY <1>3 DEF KillJob
  <2>5. Located' /\ Holding'
    BY <1>1, <1>2, <2>4, PlaceInv DEF localVars
  <2>6. QED
    BY <2>2, <2>3, <2>5 DEF TypeInv, TypeOK
<1>4. CASE KillOutput(t)
  BY <1>1, <1>2, <1>4, MoveType DEF KillOutput, ThreadPc, CleanupPc
<1>5. CASE CloseFile(t)
  <2>1. LoopbackTypeOK' /\ RootTypeOK'
    BY <1>5 DEF CloseFile, TypeInv, TypeOK, LoopbackTypeOK, loopbackVars,
                RootTypeOK, rootVars, shellVars, utilVars
  <2>2. FragmentTypeOK'
    BY <1>1, <1>5
    DEF CloseFile, CloseWriterOf, GoTo, TypeInv, TypeOK, FragmentTypeOK,
        fieldVars, uiVars, localVars, ThreadPc
  <2>3. UNCHANGED localVars /\ GoTo(t, "postIdle")
    BY <1>5 DEF CloseFile
  <2>4. Located' /\ Holding'
    BY <1>1, <1>2, <2>3, PlaceInv DEF localVars
  <2>5. QED
    BY <2>1, <2>2, <2>4 DEF TypeInv, TypeOK
<1>6. CASE PostIdle(t)
  <2>1. LoopbackTypeOK' /\ RootTypeOK'
    BY <1>6 DEF PostIdle, TypeInv, TypeOK, LoopbackTypeOK, loopbackVars,
                RootTypeOK, rootVars, shellVars, utilVars
  <2>2. FragmentTypeOK'
    BY <1>1, <1>6
    DEF PostIdle, PostValue, GoTo, TypeInv, TypeOK, FragmentTypeOK, UiState,
        fieldVars, localVars, fileVars, ThreadPc
  <2>3. UNCHANGED localVars /\ GoTo(t, "done")
    BY <1>6 DEF PostIdle
  <2>4. Located' /\ Holding'
    BY <1>1, <1>2, <2>3, PlaceInv DEF localVars
  <2>5. QED
    BY <2>1, <2>2, <2>4 DEF TypeInv, TypeOK
<1>7. QED
  BY <1>3, <1>4, <1>5, <1>6 DEF StopThread

-----------------------------------------------------------------------------
(* The main thread keeps the types *)

LEMMA UserType ==
    ASSUME TypeInv, NEW i \in Instances, DispatchPosted(i) \/ User(i)
    PROVE  TypeInv'
<1>1. Main \in Agents /\ Threads \subseteq Agents /\ Main \notin Threads
  BY FragmentAssumption DEF Agents
<1>2. pc[Main] = "looper"
  BY DEF User, DispatchPosted, OnCreateView, OnDestroyView, OpenRoot, ClickStartStop, Pressed,
         RestartNic, EditNumbers, ClickThrows, Crash, OnMain, At
<1>3. CASE DispatchPosted(i)
  <2>1. LoopbackTypeOK' /\ RootTypeOK'
    BY <1>3 DEF DispatchPosted, TypeInv, TypeOK, LoopbackTypeOK, loopbackVars,
                RootTypeOK, rootVars, shellVars, utilVars
  <2>2. FragmentTypeOK' /\ Located' /\ Holding'
    BY <1>3
    DEF DispatchPosted, TypeInv, TypeOK, FragmentTypeOK, Located, Holding,
        fieldVars, localVars, fileVars
  <2>3. QED
    BY <2>1, <2>2 DEF TypeInv, TypeOK
<1>4. CASE OnCreateView(i)
  <2>1. LoopbackTypeOK' /\ RootTypeOK'
    BY <1>4 DEF OnCreateView, TypeInv, TypeOK, LoopbackTypeOK, loopbackVars,
                RootTypeOK, rootVars, shellVars, utilVars
  <2>2. FragmentTypeOK' /\ Located' /\ Holding'
    BY <1>4
    DEF OnCreateView, TypeInv, TypeOK, FragmentTypeOK, Located, Holding,
        localVars, fileVars
  <2>3. QED
    BY <2>1, <2>2 DEF TypeInv, TypeOK
<1>5. CASE OpenRoot(i)
  <2>1. PICK s \in Shells : OpenShell(s) /\ bp' = [bp EXCEPT ![i] = s]
    BY <1>5 DEF OpenRoot
  <2>2. LoopbackTypeOK' /\ RootTypeOK'
    BY <1>5, <2>1, OpenShellType
    DEF OpenRoot, TypeInv, TypeOK, LoopbackTypeOK, loopbackVars
  <2>3. FragmentTypeOK' /\ Located' /\ Holding'
    BY <1>5, <2>1
    DEF OpenRoot, TypeInv, TypeOK, FragmentTypeOK, Located, Holding,
        uiVars, localVars, fileVars
  <2>4. QED
    BY <2>2, <2>3 DEF TypeInv, TypeOK
<1>6. CASE ClickStartStop(i)
  <2>1. PICK t \in Threads :
               /\ GoTo(t, IF mState[i] = "idle" THEN "post" ELSE "kill")
               /\ inst' = [inst EXCEPT ![t] = i]
    BY <1>6 DEF ClickStartStop, Pressed
  <2>2. GoTo(t, "post") \/ GoTo(t, "kill")
    BY <2>1
  <2>3. LoopbackTypeOK' /\ RootTypeOK'
    BY <1>6 DEF ClickStartStop, Pressed, TypeInv, TypeOK, LoopbackTypeOK, loopbackVars,
                RootTypeOK, rootVars, shellVars, utilVars
  <2>4. FragmentTypeOK'
    BY <1>1, <1>6, <2>1, <2>2
    DEF ClickStartStop, Pressed, GoTo, TypeInv, TypeOK, FragmentTypeOK, ThreadPc, fieldVars,
        uiVars, fileVars
  <2>5. /\ \A b \in Agents : b # t => pc'[b] = pc[b] /\ inst'[b] = inst[b]
        /\ pc'[t] \in {"post", "kill"} /\ inst'[t] = i
        /\ packet' = packet
    BY <1>1, <1>6, <2>1, <2>2
    DEF ClickStartStop, Pressed, GoTo, TypeInv, TypeOK, FragmentTypeOK
  <2>6. Located' /\ Holding'
    BY <1>1, <2>5 DEF TypeInv, Located, Holding
  <2>7. QED
    BY <2>3, <2>4, <2>6 DEF TypeInv, TypeOK
<1>7. CASE OnDestroyView(i)
  <2>1. /\ GoTo(Main, "checkNull") \/ UNCHANGED pc
        /\ inst' = [inst EXCEPT ![Main] = i]
        /\ packet' = packet
    BY <1>7 DEF OnDestroyView
  <2>2. bp[i] # NONE => bp[i] \in Shells
    BY DEF TypeInv, TypeOK, FragmentTypeOK
  <2>3. RootTypeOK'
    <3>1. CASE UNCHANGED rootVars
      BY <3>1 DEF TypeInv, TypeOK, RootTypeOK, rootVars, shellVars, utilVars
    <3>2. CASE bp[i] # NONE /\ ExitShell(bp[i])
      BY <3>2, <2>2, ExitShellType DEF TypeInv, TypeOK
    <3>3. QED
      BY <1>7, <3>1, <3>2 DEF OnDestroyView
  <2>4. LoopbackTypeOK'
    BY <1>7 DEF OnDestroyView, TypeInv, TypeOK, LoopbackTypeOK, loopbackVars
  <2>5. pc' \in [Agents -> ThreadPc \cup {"looper"}]
    BY <2>1 DEF GoTo, TypeInv, TypeOK, FragmentTypeOK, ThreadPc, CleanupPc
  <2>6. FragmentTypeOK'
    BY <1>7, <2>1, <2>5
    DEF OnDestroyView, TypeInv, TypeOK, FragmentTypeOK, fieldVars, fileVars
  <2>7. /\ \A t \in Threads : pc'[t] = pc[t] /\ inst'[t] = inst[t]
        /\ inst'[Main] = i
    BY <1>1, <2>1 DEF GoTo, TypeInv, TypeOK, FragmentTypeOK
  <2>8. Located' /\ Holding'
    BY <2>1, <2>7 DEF TypeInv, Located, Holding
  <2>9. QED
    BY <2>3, <2>4, <2>6, <2>8 DEF TypeInv, TypeOK
<1>8. CASE RestartNic(i)
  <2>1. CASE bp[i] = NONE
    BY <1>8, <2>1
    DEF RestartNic, Crash, TypeInv, TypeOK, LoopbackTypeOK, loopbackVars, RootTypeOK, rootVars,
        shellVars, utilVars, FragmentTypeOK, fieldVars, uiVars, localVars, fileVars, Located,
        Holding
  <2>2. CASE bp[i] # NONE
    <3>1. IfconfigCmd \in Command
      BY DEF IfconfigCmd, Command
    <3>2. RootTypeOK'
      BY <1>8, <2>2, <3>1, InputType DEF RestartNic, TypeInv, TypeOK
    <3>3. UNCHANGED <<loopbackVars, fragmentVars>>
      BY <1>8, <2>2 DEF RestartNic
    <3>4. QED
      BY <3>2, <3>3
      DEF TypeInv, TypeOK, LoopbackTypeOK, loopbackVars, FragmentTypeOK, fragmentVars,
          fieldVars, uiVars, localVars, fileVars, Located, Holding
  <2>3. QED
    BY <2>1, <2>2
<1>9. CASE EditNumbers(i) \/ ClickThrows(i)
  <2>1. LoopbackTypeOK' /\ RootTypeOK'
    BY <1>9
    DEF EditNumbers, ClickThrows, Crash, TypeInv, TypeOK, LoopbackTypeOK, loopbackVars,
        RootTypeOK, rootVars, shellVars, utilVars
  <2>2. FragmentTypeOK' /\ Located' /\ Holding'
    BY <1>9
    DEF EditNumbers, ClickThrows, Crash, TypeInv, TypeOK, FragmentTypeOK, fieldVars, uiVars,
        localVars, fileVars, Located, Holding
  <2>3. QED
    BY <2>1, <2>2 DEF TypeInv, TypeOK
<1>10. QED
  BY <1>3, <1>4, <1>5, <1>6, <1>7, <1>8, <1>9 DEF User

-----------------------------------------------------------------------------
(* Type correctness *)

LEMMA NextTypeInv == TypeInv /\ [Next]_vars => TypeInv'
<1> SUFFICES ASSUME TypeInv, [Next]_vars PROVE TypeInv'
  OBVIOUS
<1>1. ASSUME LoopbackTypeOK', RootTypeOK', UNCHANGED fragmentVars PROVE TypeInv'
  BY <1>1
  DEF TypeInv, TypeOK, FragmentTypeOK, fragmentVars, fieldVars, uiVars,
      localVars, fileVars, Located, Holding
<1>2. CASE MainThread
  <2>1. Main \in Agents
    BY DEF Agents
  <2>2. QED
    BY <1>2, <2>1, CleanupType, UserType DEF MainThread
<1>3. ASSUME NEW t \in Threads, BackgroundThread(t) PROVE TypeInv'
  <2>1. t \in Agents
    BY DEF Agents
  <2>2. QED
    BY <1>3, <2>1, SessionType, CleanupType, EndType DEF BackgroundThread
<1>4. ASSUME NEW u \in Threads, CsiutilRuns(u) \/ FrameArrives(u) PROVE TypeInv'
  <2>1. LoopbackTypeOK /\ RootTypeOK
    BY DEF TypeInv, TypeOK
  <2>2. LoopbackTypeOK' /\ RootTypeOK'
    BY <1>4, <2>1, UtilStepType DEF CsiutilRuns, FrameArrives
  <2>3. QED
    BY <1>1, <1>4, <2>2 DEF CsiutilRuns, FrameArrives
<1>5. ASSUME NEW s \in Shells, ShellProcess(s) PROVE TypeInv'
  <2>1. RootTypeOK'
    BY <1>5, ExecuteType, ShellType DEF ShellProcess, TypeInv, TypeOK
  <2>2. LoopbackTypeOK'
    BY <1>5 DEF ShellProcess, TypeInv, TypeOK, LoopbackTypeOK, loopbackVars
  <2>3. QED
    BY <1>1, <1>5, <2>1, <2>2 DEF ShellProcess
<1>6. CASE UNCHANGED vars
  <2>1. LoopbackTypeOK' /\ RootTypeOK' /\ UNCHANGED fragmentVars
    BY <1>6 DEF vars, TypeInv, TypeOK, LoopbackTypeOK, loopbackVars,
                RootTypeOK, rootVars, shellVars, utilVars
  <2>2. QED
    BY <1>1, <2>1
<1>7. QED
  BY <1>2, <1>3, <1>4, <1>5, <1>6 DEF Next

(* In every reachable state, for any number of threads, screens, shells    *)
(* and packets and any Env, each variable has a value of its type: no step *)
(* of the protocol reads a field, a queue or a place that is not there.    *)
THEOREM TypeCorrect == Spec => []TypeOK
<1>1. TypeInv => TypeOK
  BY DEF TypeInv
<1>2. QED
  BY <1>1, InitTypeInv, NextTypeInv, PTL DEF Spec
-----------------------------------------------------------------------------
(* The button returns to "start": CapturingHasThread is inductive *)

(* A step that neither posts nor dispatches, and after which every thread  *)
(* that was still going to post idle still is.                             *)
LEMMA BackedFrame ==
    ASSUME CapturingHasThread, mState' = mState, pending' = pending,
           \A u \in Threads : pc[u] \notin Unposted
               => pc'[u] \notin Unposted /\ inst'[u] = inst[u]
    PROVE  CapturingHasThread'
BY DEF CapturingHasThread, Shown

LEMMA MoveBacked ==
    ASSUME TypeInv, CapturingHasThread, NEW a \in Agents, NEW to, GoTo(a, to),
           a \in Threads => to \notin Unposted,
           inst' = inst, mState' = mState, pending' = pending
    PROVE  CapturingHasThread'
<1>1. \A u \in Threads : pc[u] \notin Unposted => pc'[u] \notin Unposted
  BY DEF GoTo, TypeInv, TypeOK, FragmentTypeOK, Agents
<1>2. QED
  BY <1>1, BackedFrame

LEMMA ThreadBacked ==
    ASSUME TypeInv, CapturingHasThread, NEW t \in Threads, BackgroundThread(t)
    PROVE  CapturingHasThread'
<1>1. t \in Agents /\ t # Main /\ pc \in [Agents -> ThreadPc \cup {"looper"}]
  BY FragmentAssumption DEF Agents, TypeInv, TypeOK, FragmentTypeOK
<1>2. CASE PostCapturing(t)
  <2>1. pc'[t] = "launch" /\ inst' = inst /\ mState' = mState
    BY <1>1, <1>2 DEF PostCapturing, GoTo, localVars
  <2>2. \A u \in Threads : u # t => pc'[u] = pc[u]
    BY <1>1, <1>2 DEF PostCapturing, GoTo, Agents
  <2>3. \A i \in Instances : i # inst[t] => pending'[i] = pending[i]
    BY <1>2 DEF PostCapturing, PostValue, TypeInv, TypeOK, FragmentTypeOK
  <2>4. ASSUME NEW i \in Instances, Shown(i)' = "capturing"
        PROVE  \E u \in Threads : inst'[u] = i /\ pc'[u] \notin Unposted
    <3>1. CASE i = inst[t]
      BY <2>1, <3>1 DEF Unposted
    <3>2. CASE i # inst[t]
      <4>1. Shown(i) = "capturing"
        BY <2>1, <2>3, <2>4, <3>2 DEF Shown
      <4>2. PICK u \in Threads : inst[u] = i /\ pc[u] \notin Unposted
        BY <4>1 DEF CapturingHasThread
      <4>3. QED
        BY <2>1, <2>2, <3>2, <4>2
    <3>3. QED
      BY <3>1, <3>2
  <2>5. QED
    BY <2>4 DEF CapturingHasThread
<1>3. CASE PostIdle(t)
  <2>1. inst' = inst /\ mState' = mState
    BY <1>3 DEF PostIdle, localVars
  <2>2. \A u \in Threads : u # t => pc'[u] = pc[u]
    BY <1>1, <1>3 DEF PostIdle, GoTo, Agents
  <2>3. /\ \A i \in Instances : i # inst[t] => pending'[i] = pending[i]
        /\ inst[t] \in Instances => pending'[inst[t]] = "idle"
    BY <1>3 DEF PostIdle, PostValue, TypeInv, TypeOK, FragmentTypeOK
  <2>4. ASSUME NEW i \in Instances, Shown(i)' = "capturing"
        PROVE  \E u \in Threads : inst'[u] = i /\ pc'[u] \notin Unposted
    <3>1. i # inst[t]
      BY <2>3, <2>4, FragmentAssumption DEF Shown
    <3>2. Shown(i) = "capturing"
      BY <2>1, <2>3, <2>4, <3>1 DEF Shown
    <3>3. PICK u \in Threads : inst[u] = i /\ pc[u] \notin Unposted
      BY <3>2 DEF CapturingHasThread
    <3>4. QED
      BY <2>1, <2>2, <3>1, <3>3
  <2>5. QED
    BY <2>4 DEF CapturingHasThread
<1>4. CASE UNCHANGED <<inst, mState, pending>> /\ \E to : GoTo(t, to) /\ to \notin Unposted
  BY <1>1, <1>4, MoveBacked
<1>5. CASE Crash
  BY <1>5, BackedFrame DEF Crash, uiVars, localVars
<1>6. CASE LaunchCsiutil(t) \/ JobsOutput(t) \/ TestSocket(t) \/ NewSocket(t)
  <2>1. UNCHANGED <<inst, mState, pending>>
    BY <1>6 DEF LaunchCsiutil, JobsOutput, TestSocket, NewSocket, OnlyPc, uiVars, localVars
  <2>2. \E to \in {"jobs", "checkNull", "testNull", "bind", "testClosed", "closeOld",
                   "assign"} : GoTo(t, to)
    BY <1>6 DEF LaunchCsiutil, JobsOutput, TestSocket, NewSocket
  <2>3. QED
    BY <1>4, <2>1, <2>2 DEF Unposted
<1>7. CASE AssignSocket(t) \/ CreateFileCloses(t) \/ CreateFileOpens(t) \/ ReadSocketField(t)
  <2>1. UNCHANGED <<inst, mState, pending>>
    BY <1>7 DEF AssignSocket, CreateFileCloses, CreateFileOpens, ReadSocketField,
                uiVars, localVars
  <2>2. \E to \in {"closeOld", "openNew", "loop", "checkNull", "receive"} : GoTo(t, to)
    BY <1>7 DEF AssignSocket, CreateFileCloses, CreateFileOpens, ReadSocketField
  <2>3. QED
    BY <1>4, <2>1, <2>2 DEF Unposted
<1>8. CASE ReceiveThrows(t) \/ Receive(t) \/ WriteText(t)
  <2>1. UNCHANGED <<inst, mState, pending>>
    BY <1>8 DEF ReceiveThrows, Receive, WriteText, uiVars
  <2>2. \E to \in {"checkNull", "write", "loop"} : GoTo(t, to)
    BY <1>8 DEF ReceiveThrows, Receive, WriteText
  <2>3. QED
    BY <1>4, <2>1, <2>2 DEF Unposted
<1>9. CASE StopThread(t) \/ CloseFile(t)
  <2>1. UNCHANGED <<inst, mState, pending>>
    BY <1>9 DEF StopThread, KillJob, KillOutput, CloseFile, OnlyPc, uiVars, localVars
  <2>2. \E to \in {"killOut", "checkNull", "postIdle"} : GoTo(t, to)
    BY <1>9 DEF StopThread, KillJob, KillOutput, CloseFile
  <2>3. QED
    BY <1>4, <2>1, <2>2 DEF Unposted
<1>10. CASE Cleanup(t) /\ ~Crash
  <2>1. UNCHANGED <<inst, mState, pending>>
    BY <1>10 DEF Cleanup, CheckNull, CheckClosed, CloseTheSocket, SetNull, OnlyPc,
                 uiVars, localVars
  <2>2. \E to \in CleanupPc \cup {"closeFile"} : GoTo(t, to)
    BY <1>1, <1>10 DEF Cleanup, CheckNull, CheckClosed, CloseTheSocket, SetNull,
                       AfterCleanup, CleanupPc
  <2>3. QED
    BY <1>4, <2>1, <2>2 DEF Unposted, CleanupPc
<1>11. QED
  BY <1>2, <1>3, <1>5, <1>6, <1>7, <1>8, <1>9, <1>10 DEF BackgroundThread, SessionThread

LEMMA MainBacked ==
    ASSUME TypeInv, CapturingHasThread, MainThread
    PROVE  CapturingHasThread'
<1>1. Main \in Agents /\ Threads \subseteq Agents /\ Main \notin Threads
  BY FragmentAssumption DEF Agents
<1>2. CASE Cleanup(Main)
  <2>1. UNCHANGED <<inst, mState, pending>>
    BY <1>2 DEF Cleanup, CheckNull, CheckClosed, CloseTheSocket, SetNull, OnlyPc,
                Crash, uiVars, localVars
  <2>2. \A u \in Threads : pc'[u] = pc[u]
    BY <1>1, <1>2 DEF Cleanup, CheckNull, CheckClosed, CloseTheSocket, SetNull, Crash,
                      GoTo, TypeInv, TypeOK, FragmentTypeOK
  <2>3. QED
    BY <2>1, <2>2, BackedFrame
<1>3. ASSUME NEW i \in Instances, DispatchPosted(i) PROVE CapturingHasThread'
  <2>1. pc' = pc /\ inst' = inst
    BY <1>3 DEF DispatchPosted, localVars
  <2>2. \A j \in Instances : Shown(j)' = Shown(j)
    BY <1>3 DEF DispatchPosted, Shown, TypeInv, TypeOK, FragmentTypeOK
  <2>3. QED
    BY <2>1, <2>2 DEF CapturingHasThread
<1>4. ASSUME NEW i \in Instances,
             \/ OnCreateView(i) \/ OpenRoot(i)
             \/ RestartNic(i) \/ EditNumbers(i) \/ ClickThrows(i)
      PROVE  CapturingHasThread'
  BY <1>4, BackedFrame
  DEF OnCreateView, OpenRoot, RestartNic, EditNumbers, ClickThrows, Pressed, Crash, uiVars,
      localVars, fragmentVars
<1>5. ASSUME NEW i \in Instances, ClickStartStop(i) PROVE CapturingHasThread'
  <2>1. PICK t \in Threads :
               /\ pc[t] = "unborn"
               /\ GoTo(t, IF mState[i] = "idle" THEN "post" ELSE "kill")
               /\ inst' = [inst EXCEPT ![t] = i]
    BY <1>5 DEF ClickStartStop, Pressed
  <2>2. \A u \in Threads : u # t => pc'[u] = pc[u] /\ inst'[u] = inst[u]
    BY <1>1, <2>1 DEF GoTo, TypeInv, TypeOK, FragmentTypeOK
  <2>3. mState' = mState /\ pending' = pending
    BY <1>5 DEF ClickStartStop, Pressed, uiVars
  <2>4. QED
    BY <2>1, <2>2, <2>3, BackedFrame DEF Unposted
<1>6. ASSUME NEW i \in Instances, OnDestroyView(i) PROVE CapturingHasThread'
  <2>1. \A u \in Threads : pc'[u] = pc[u] /\ inst'[u] = inst[u]
    BY <1>1, <1>6 DEF OnDestroyView, GoTo, TypeInv, TypeOK, FragmentTypeOK
  <2>2. mState' = mState /\ pending' = pending
    BY <1>6 DEF OnDestroyView
  <2>3. QED
    BY <2>1, <2>2, BackedFrame
<1>7. QED
  BY <1>2, <1>3, <1>4, <1>5, <1>6 DEF MainThread, User

LEMMA NextBacked ==
    TypeInv /\ CapturingHasThread /\ [Next]_vars => CapturingHasThread'
<1> SUFFICES ASSUME TypeInv, CapturingHasThread, [Next]_vars PROVE CapturingHasThread'
  OBVIOUS
<1>1. CASE UNCHANGED fragmentVars
  BY <1>1, BackedFrame DEF fragmentVars, uiVars, localVars
<1>2. ASSUME NEW t \in Threads, BackgroundThread(t) \/ CsiutilRuns(t) \/ FrameArrives(t)
      PROVE  CapturingHasThread'
  BY <1>1, <1>2, ThreadBacked DEF CsiutilRuns, FrameArrives
<1>3. ASSUME NEW s \in Shells, ShellProcess(s) PROVE CapturingHasThread'
  BY <1>1, <1>3 DEF ShellProcess
<1>4. CASE UNCHANGED vars
  BY <1>1, <1>4 DEF vars
<1>5. QED
  BY <1>2, <1>3, <1>4, MainBacked DEF Next

(* For any number of threads and screens, and whatever fails: when no      *)
(* thread of a fragment is left, the value last posted to mState is idle,  *)
(* so its button offers "start" again (CaptureFragment:93-98, 213, 256,    *)
(* 277).                                                                   *)
THEOREM UiSafety == Spec => []UiReturnsToIdle
<1>1. Init => CapturingHasThread
  BY FragmentAssumption DEF Init, CapturingHasThread, Shown
<1>2. TypeInv /\ CapturingHasThread => UiReturnsToIdle
  <2> SUFFICES ASSUME TypeInv, CapturingHasThread, NEW i \in Instances, Active(i) = {}
               PROVE  Shown(i) = "idle"
    BY DEF UiReturnsToIdle
  <2>1. Shown(i) \in UiState
    BY DEF Shown, TypeInv, TypeOK, FragmentTypeOK, UiState
  <2>2. Shown(i) # "capturing"
    BY DEF CapturingHasThread, Active, Unposted
  <2>3. QED
    BY <2>1, <2>2 DEF UiState
<1>3. QED
  BY <1>1, <1>2, InitTypeInv, NextTypeInv, NextBacked, PTL DEF Spec
-----------------------------------------------------------------------------
(* What it takes to crash *)

(* Between its null test and its close(), an agent finds the field null    *)
(* only if somebody else has been through the cleanup.                     *)
NullNeedsRace ==
    \A a \in Agents :
        pc[a] \in {"checkClosed", "close"} /\ socket[inst[a]] = NONE => Overtaken(a)

(* A step that takes nobody back to before the end of the cleanup.         *)
LEMMA OvertakenStays ==
    ASSUME NEW a \in Agents, Overtaken(a), inst'[a] = inst[a],
           inst[Main] # NONE => inst'[Main] # NONE,
           \A t \in Threads : pc[t] \in {"closeFile", "postIdle", "done"}
               => /\ pc'[t] \in {"closeFile", "postIdle", "done"}
                  /\ inst'[t] = inst[t]
    PROVE  Overtaken(a)'
BY DEF Overtaken

(* A step that sets no socket field to null.                               *)
LEMMA RaceFrame ==
    ASSUME NullNeedsRace,
           inst[Main] # NONE => inst'[Main] # NONE,
           \A t \in Threads : pc[t] \in {"closeFile", "postIdle", "done"}
               => /\ pc'[t] \in {"closeFile", "postIdle", "done"}
                  /\ inst'[t] = inst[t],
           \A a \in Agents :
               pc'[a] \in {"checkClosed", "close"} /\ socket'[inst'[a]] = NONE
                   => /\ pc[a] \in {"checkClosed", "close"}
                      /\ inst'[a] = inst[a] /\ socket[inst[a]] = NONE
    PROVE  NullNeedsRace'
BY OvertakenStays DEF NullNeedsRace

LEMMA SetNullRace ==
    ASSUME TypeInv, NullNeedsRace, NEW b \in Agents, SetNull(b)
    PROVE  NullNeedsRace'
<1>1. /\ inst[b] \in Instances /\ inst' = inst
      /\ pc[b] = "setNull" /\ pc'[b] = AfterCleanup(b)
      /\ \A a \in Agents : a # b => pc'[a] = pc[a]
      /\ \A i \in Instances : i # inst[b] => socket'[i] = socket[i]
  BY DEF SetNull, At, GoTo, TypeInv, TypeOK, FragmentTypeOK, Located, Agents, localVars
<1>2. b \in Threads => pc'[b] = "closeFile"
  BY <1>1, FragmentAssumption DEF AfterCleanup
<1>3. SUFFICES ASSUME NEW a \in Agents, pc'[a] \in {"checkClosed", "close"},
                      socket'[inst[a]] = NONE
               PROVE  Overtaken(a)'
  BY <1>1 DEF NullNeedsRace
<1>4. a # b /\ pc'[a] = pc[a] /\ inst[a] \in Instances
  BY <1>1, <1>3 DEF AfterCleanup, TypeInv, Located, Agents
<1>5. CASE inst[a] = inst[b]
  <2>1. CASE b \in Threads
    BY <1>1, <1>2, <1>4, <1>5, <2>1 DEF Overtaken
  <2>2. CASE b = Main
    BY <1>1, <1>4, <2>2, FragmentAssumption DEF Overtaken
  <2>3. QED
    BY <2>1, <2>2 DEF Agents
<1>6. CASE inst[a] # inst[b]
  <2>1. Overtaken(a)
    BY <1>1, <1>3, <1>4, <1>6 DEF NullNeedsRace
  <2>2. \A t \in Threads : pc[t] \in {"closeFile", "postIdle", "done"} => pc'[t] = pc[t]
    BY <1>1 DEF Agents
  <2>3. QED
    BY <1>1, <2>1, <2>2, OvertakenStays
<1>7. QED
  BY <1>5, <1>6

(* A step of agent b that keeps the fields and locations.                  *)
LEMMA MoveRace ==
    ASSUME TypeInv, NullNeedsRace, NEW b \in Agents, NEW to, GoTo(b, to),
           inst' = inst, socket' = socket,
           pc[b] \in {"closeFile", "postIdle"} => to \in {"postIdle", "done"},
           pc[b] # "done",
           to \in {"checkClosed", "close"} => socket[inst[b]] # NONE
    PROVE  NullNeedsRace'
<1>1. pc'[b] = to /\ \A a \in Agents : a # b => pc'[a] = pc[a]
  BY DEF GoTo, TypeInv, TypeOK, FragmentTypeOK
<1>2. \A t \in Threads : pc[t] \in {"closeFile", "postIdle", "done"}
               => pc'[t] \in {"closeFile", "postIdle", "done"}
  BY <1>1 DEF Agents
<1>3. \A a \in Agents :
        pc'[a] \in {"checkClosed", "close"} /\ socket'[inst'[a]] = NONE
          => pc[a] \in {"checkClosed", "close"} /\ socket[inst[a]] = NONE
  BY <1>1
<1>4. QED
  BY <1>2, <1>3, RaceFrame

LEMMA CleanupRace ==
    ASSUME TypeInv, NullNeedsRace, NEW b \in Agents, Cleanup(b)
    PROVE  NullNeedsRace'
<1>1. CASE SetNull(b)
  BY <1>1, SetNullRace
<1>2. CASE Crash
  BY <1>2, RaceFrame DEF Crash, fieldVars, localVars
<1>3. CASE CheckNull(b)
  BY <1>3, MoveRace DEF CheckNull, At, OnlyPc, fieldVars, localVars, AfterCleanup
<1>4. CASE CheckClosed(b) /\ ~Crash
  BY <1>4, MoveRace DEF CheckClosed, At, OnlyPc, fieldVars, localVars
<1>5. CASE CloseTheSocket(b) /\ ~Crash
  BY <1>5, MoveRace DEF CloseTheSocket, At, fieldVars, localVars
<1>6. QED
  BY <1>1, <1>2, <1>3, <1>4, <1>5 DEF Cleanup

LEMMA ThreadRace ==
    ASSUME TypeInv, NullNeedsRace, NEW t \in Threads, BackgroundThread(t)
    PROVE  NullNeedsRace'
<1>1. t \in Agents /\ t # Main /\ pc \in [Agents -> ThreadPc \cup {"looper"}]
  BY FragmentAssumption DEF Agents, TypeInv, TypeOK, FragmentTypeOK
<1>2. CASE AssignSocket(t)
  <2>1. /\ inst' = inst /\ pc[t] = "assign" /\ pc'[t] = "closeOld"
        /\ \A a \in Agents : a # t => pc'[a] = pc[a]
    BY <1>1, <1>2 DEF AssignSocket, At, GoTo, localVars
  <2>2. \A i \in Instances : socket'[i] = NONE => socket[i] = NONE
    BY <1>2, NoneAssumption DEF AssignSocket, TypeInv, TypeOK, FragmentTypeOK
  <2>3. \A a \in Agents : pc[a] \in {"checkClosed", "close"} => inst[a] \in Instances
    BY DEF TypeInv, Located, Agents
  <2>4. \A a \in Agents :
          pc'[a] \in {"checkClosed", "close"} /\ socket'[inst'[a]] = NONE
            => pc[a] \in {"checkClosed", "close"} /\ socket[inst[a]] = NONE
    BY <2>1, <2>2, <2>3
  <2>5. \A u \in Threads : pc[u] \in {"closeFile", "postIdle", "done"} => pc'[u] = pc[u]
    BY <2>1 DEF Agents
  <2>6. QED
    BY <2>1, <2>4, <2>5, RaceFrame
<1>3. ASSUME UNCHANGED <<inst, socket>>, pc[t] \notin {"closeFile", "postIdle", "done"},
             \E to : GoTo(t, to) /\ to \notin {"checkClosed", "close"}
      PROVE  NullNeedsRace'
  BY <1>1, <1>3, MoveRace
<1>4. CASE PostCapturing(t) \/ LaunchCsiutil(t) \/ JobsOutput(t) \/ TestSocket(t) \/ NewSocket(t)
  <2>1. UNCHANGED <<inst, socket>> /\ pc[t] \notin {"closeFile", "postIdle", "done"}
    BY <1>4 DEF PostCapturing, LaunchCsiutil, JobsOutput, TestSocket, NewSocket, At,
                OnlyPc, fieldVars, localVars
  <2>2. \E to \in {"launch", "jobs", "checkNull", "testNull", "bind", "testClosed",
                   "closeOld", "assign"} : GoTo(t, to)
    BY <1>4 DEF PostCapturing, LaunchCsiutil, JobsOutput, TestSocket, NewSocket
  <2>3. QED
    BY <1>3, <2>1, <2>2
<1>5. CASE CreateFileCloses(t) \/ CreateFileOpens(t) \/ ReadSocketField(t)
           \/ ReceiveThrows(t) \/ Receive(t) \/ WriteText(t)
  <2>1. UNCHANGED <<inst, socket>> /\ pc[t] \notin {"closeFile", "postIdle", "done"}
    BY <1>5 DEF CreateFileCloses, CreateFileOpens, ReadSocketField, ReceiveThrows,
                Receive, WriteText, At, fieldVars, localVars
  <2>2. \E to \in {"openNew", "loop", "checkNull", "receive", "write"} : GoTo(t, to)
    BY <1>5 DEF CreateFileCloses, CreateFileOpens, ReadSocketField, ReceiveThrows,
                Receive, WriteText
  <2>3. QED
    BY <1>3, <2>1, <2>2
<1>6. CASE StopThread(t)
  <2>1. UNCHANGED <<inst, socket>> /\ pc[t] \notin {"closeFile", "postIdle", "done"}
    BY <1>6 DEF StopThread, KillJob, KillOutput, At, OnlyPc, fieldVars, localVars
  <2>2. \E to \in {"killOut", "checkNull", "postIdle"} : GoTo(t, to)
    BY <1>6 DEF StopThread, KillJob, KillOutput
  <2>3. QED
    BY <1>3, <2>1, <2>2
<1>7. CASE CloseFile(t) \/ PostIdle(t)
  <2>1. /\ UNCHANGED <<inst, socket>> /\ pc[t] # "done"
        /\ \E to \in {"postIdle", "done"} : GoTo(t, to)
    BY <1>7 DEF CloseFile, PostIdle, At, fieldVars, localVars
  <2>2. QED
    BY <1>1, <2>1, MoveRace
<1>8. QED
  BY <1>1, <1>2, <1>4, <1>5, <1>6, <1>7, CleanupRace DEF BackgroundThread, SessionThread

LEMMA UserRace ==
    ASSUME TypeInv, NullNeedsRace, NEW i \in Instances, DispatchPosted(i) \/ User(i)
    PROVE  NullNeedsRace'
<1>1. /\ Main \in Agents /\ Threads \subseteq Agents /\ Main \notin Threads
      /\ pc \in [Agents -> ThreadPc \cup {"looper"}] /\ inst \in [Agents -> Instances \cup {NONE}]
  BY FragmentAssumption DEF Agents, TypeInv, TypeOK, FragmentTypeOK
<1>2. CASE \/ DispatchPosted(i) \/ OnCreateView(i) \/ OpenRoot(i)
           \/ RestartNic(i) \/ EditNumbers(i) \/ ClickThrows(i)
  <2>1. UNCHANGED <<pc, inst, socket>>
    BY <1>2 DEF DispatchPosted, OnCreateView, OpenRoot, RestartNic, EditNumbers, ClickThrows,
                Pressed, Crash, fragmentVars, fieldVars, localVars
  <2>2. QED
    BY <2>1, RaceFrame
<1>3. CASE ClickStartStop(i)
  <2>1. PICK t \in Threads :
               /\ pc[t] = "unborn"
               /\ GoTo(t, IF mState[i] = "idle" THEN "post" ELSE "kill")
               /\ inst' = [inst EXCEPT ![t] = i]
    BY <1>3 DEF ClickStartStop, Pressed
  <2>2. /\ pc'[t] \in {"post", "kill"} /\ inst'[Main] = inst[Main]
        /\ \A a \in Agents : a # t => pc'[a] = pc[a] /\ inst'[a] = inst[a]
    BY <1>1, <2>1 DEF GoTo
  <2>3. socket' = socket
    BY <1>3 DEF ClickStartStop, Pressed, fieldVars
  <2>4. \A u \in Threads : pc[u] \in {"closeFile", "postIdle", "done"}
              => pc'[u] = pc[u] /\ inst'[u] = inst[u]
    BY <1>1, <2>1, <2>2
  <2>5. \A a \in Agents : pc'[a] \in {"checkClosed", "close"}
              => pc[a] = pc'[a] /\ inst'[a] = inst[a]
    BY <2>2
  <2>6. QED
    BY <2>2, <2>3, <2>4, <2>5, RaceFrame
<1>4. CASE OnDestroyView(i)
  <2>1. /\ socket' = socket /\ pc[Main] = "looper"
        /\ inst' = [inst EXCEPT ![Main] = i]
        /\ GoTo(Main, "checkNull") \/ pc' = pc
    BY <1>4 DEF OnDestroyView, OnMain, At, fieldVars
  <2>2. /\ pc'[Main] \in {"looper", "checkNull"} /\ inst'[Main] # NONE
        /\ \A a \in Agents : a # Main => pc'[a] = pc[a] /\ inst'[a] = inst[a]
    BY <1>1, <2>1, FragmentAssumption DEF GoTo
  <2>3. \A u \in Threads : pc'[u] = pc[u] /\ inst'[u] = inst[u]
    BY <1>1, <2>2
  <2>4. \A a \in Agents : pc'[a] \in {"checkClosed", "close"}
              => pc[a] = pc'[a] /\ inst'[a] = inst[a]
    BY <2>2
  <2>5. QED
    BY <2>1, <2>2, <2>3, <2>4, RaceFrame
<1>5. QED
  BY <1>2, <1>3, <1>4 DEF User

LEMMA NextRace ==
    TypeInv /\ NullNeedsRace /\ [Next]_vars => NullNeedsRace'
<1> SUFFICES ASSUME TypeInv, NullNeedsRace, [Next]_vars PROVE NullNeedsRace'
  OBVIOUS
<1>1. CASE UNCHANGED fragmentVars
  BY <1>1, RaceFrame DEF fragmentVars, fieldVars, localVars
<1>2. CASE MainThread
  BY <1>2, CleanupRace, UserRace DEF MainThread, Agents
<1>3. ASSUME NEW t \in Threads, BackgroundThread(t) \/ CsiutilRuns(t) \/ FrameArrives(t)
      PROVE  NullNeedsRace'
  BY <1>1, <1>3, ThreadRace DEF CsiutilRuns, FrameArrives
<1>4. ASSUME NEW s \in Shells, ShellProcess(s) PROVE NullNeedsRace'
  BY <1>1, <1>4 DEF ShellProcess
<1>5. CASE UNCHANGED vars
  BY <1>1, <1>5 DEF vars
<1>6. QED
  BY <1>2, <1>3, <1>4, <1>5 DEF Next

(* Why a handler of the main thread can end the app: a menu item without a *)
(* shell, or number fields the click handler cannot use.                   *)
HandlerThrows ==
    \/ "menu" \in Env /\ view # NONE /\ bp[view] = NONE
    \/ view # NONE /\ NumbersThrow(view)

(* Only four steps can end the app. *)
LEMMA CrashSteps ==
    ASSUME TypeInv, NullNeedsRace, Next, appUp, ~appUp'
    PROVE  \/ HandlerThrows
           \/ \E a \in Agents : pc[a] \in {"checkClosed", "close"} /\ Overtaken(a)
<1>1. ASSUME NEW a \in Agents, Cleanup(a)
      PROVE  pc[a] \in {"checkClosed", "close"} /\ Overtaken(a)
  <2>1. pc[a] \in {"checkClosed", "close"} /\ socket[inst[a]] = NONE
    BY <1>1 DEF Cleanup, CheckNull, CheckClosed, CloseTheSocket, SetNull, At, OnlyPc
  <2>2. QED
    BY <2>1 DEF NullNeedsRace
<1>2. ASSUME NEW t \in Threads, SessionThread(t) \/ StopThread(t) \/ CloseFile(t) \/ PostIdle(t)
      PROVE  FALSE
  BY <1>2 DEF SessionThread, StopThread, CloseFile, PostIdle, PostCapturing,
              LaunchCsiutil, JobsOutput, TestSocket, NewSocket, AssignSocket,
              CreateFileCloses, CreateFileOpens, ReadSocketField, ReceiveThrows,
              Receive, WriteText, KillJob, KillOutput, OnlyPc
<1>3. ASSUME NEW i \in Instances, DispatchPosted(i) \/ User(i)
      PROVE  HandlerThrows
  <2>1. RestartNic(i) \/ ClickThrows(i)
    BY <1>3 DEF User, DispatchPosted, OnCreateView, OnDestroyView, OpenRoot, EditNumbers,
                ClickStartStop
  <2>2. CASE RestartNic(i)
    <3>1. "menu" \in Env /\ view = i /\ bp[i] = NONE
      BY <2>2 DEF RestartNic, fragmentVars
    <3>2. QED
      BY <3>1, FragmentAssumption DEF HandlerThrows
  <2>3. CASE ClickThrows(i)
    <3>1. view = i /\ NumbersThrow(i)
      BY <2>3 DEF ClickThrows, Pressed
    <3>2. QED
      BY <3>1, FragmentAssumption DEF HandlerThrows
  <2>4. QED
    BY <2>1, <2>2, <2>3
<1>4. ASSUME NEW u \in Threads, CsiutilRuns(u) \/ FrameArrives(u) PROVE FALSE
  BY <1>4 DEF CsiutilRuns, FrameArrives, fragmentVars
<1>5. ASSUME NEW s \in Shells, ShellProcess(s) PROVE FALSE
  BY <1>5 DEF ShellProcess, fragmentVars
<1>6. QED
  BY <1>1, <1>2, <1>3, <1>4, <1>5 DEF Next, MainThread, BackgroundThread, Agents

(* For any number of threads and screens and any Env: the app dies only of *)
(* a NIC menu item without a shell, of number fields that the click        *)
(* handler cannot use (CaptureFragment:205, 209; CsiFragment:212-216,      *)
(* 225), or when an agent between the null test and close() of the socket  *)
(* cleanup has been overtaken by another one that has been through it      *)
(* (CaptureFragment:249-254, 267-272, 356-361).                            *)
THEOREM CrashSafety == Spec => CrashNeedsRace
<1>1. Init => NullNeedsRace
  BY DEF Init, NullNeedsRace
<1>2. TypeInv /\ NullNeedsRace /\ [Next]_vars
      => [appUp /\ ~appUp' =>
            \/ "menu" \in Env /\ view # NONE /\ bp[view] = NONE
            \/ view # NONE /\ NumbersThrow(view)
            \/ \E a \in Agents : pc[a] \in {"checkClosed", "close"} /\ Overtaken(a)]_vars
  BY CrashSteps DEF HandlerThrows, vars, fragmentVars
<1>3. QED
  BY <1>1, <1>2, InitTypeInv, NextTypeInv, NextRace, PTL DEF Spec, CrashNeedsRace
=============================================================================
