------------------------ MODULE CsiutilReducedProofs ------------------------
(***************************************************************************)
(* The csiutil of module Csiutil implements RootShell's, for every set of  *)
(* frames, every count and every command line without an -o that fails.    *)
(*                                                                         *)
(* RootShell's steps need to know two things of a csiutil that its own     *)
(* state shows only indirectly: the app's queue has room for what it       *)
(* sends, and it stops capturing for one of two reasons.                   *)
(***************************************************************************)
EXTENDS CsiutilReduced, CsiutilProofs

Progress ==
    /\ pc \notin {"closeSend", "closeDump", "exit"} => Len(wire) <= Len(handed)
    /\ pc \in Early \cup {"loop"} => result = "running"
    /\ pc = "stop" => Len(handed) = Count \/ result = "error"

RInv == IInv /\ Progress

LEMMA WireGrows ==
    ASSUME TypeOK, TypeOK', NEW p, GotPacket(p)
    PROVE  Len(wire') <= Len(wire) + 1 /\ Len(handed') = Len(handed) + 1
BY DEF GotPacket, TypeOK

LEMMA ProgressStep == IInv /\ Progress /\ [Next]_vars => Progress'
<1>1. ASSUME IInv, Progress, Next
      PROVE  Progress'
  <2>1. CASE SendStop \/ CloseSendSocket \/ CloseDump \/ Killed \/ Refused
    BY <2>1 DEF SendStop, CloseSendSocket, CloseDump, Killed, Refused, Exit, GoTo, Progress,
       Early, SetupPc
  <2>2. CASE ReadPacket
    <3>0. TypeOK /\ TypeOK'
      BY <1>1, TypeStep DEF IInv
    <3>1. CASE UNCHANGED outVars /\ GoTo("loop", "loop")
      BY <3>1, <1>1 DEF Progress, GoTo, outVars
    <3>2. CASE /\ GotPacket(Head(rxFrames))
               /\ GoTo("loop", IF Len(handed') = Count THEN "stop" ELSE "loop")
      <4>1. Len(wire) <= Len(handed) /\ Len(wire) \in Nat /\ Len(wire') \in Nat
            /\ Len(handed) \in Nat
        BY <3>0, <3>2, <1>1 DEF Progress, GoTo, TypeOK
      <4>2. Len(wire') <= Len(wire) + 1 /\ Len(handed') = Len(handed) + 1
        BY <3>0, <3>2, WireGrows
      <4>3. /\ pc' = "stop" => Len(handed') = Count
            /\ pc' = "loop" => result' = "running"
            /\ pc' \in {"stop", "loop"}
        BY <2>2, <3>2, <1>1 DEF GoTo, ReadPacket, outVars, Progress
      <4>4. QED
        BY <4>1, <4>2, <4>3 DEF Progress, Early, SetupPc
    <3>3. QED
      BY <2>2, <3>1, <3>2 DEF ReadPacket
  <2>3. CASE Kernel
    BY <2>3, <1>1 DEF Kernel, mainVars, outVars, Progress
  <2>4. CASE ReadError
    BY <2>4, <1>1 DEF ReadError, GoTo, Progress, Early, SetupPc
  <2>5. CASE /\ Process
             /\ ~(SendStop \/ CloseSendSocket \/ CloseDump \/ Refused)
             /\ ~ReadPacket /\ ~ReadError
    <3>1. UNCHANGED <<wire, handed, result>> /\ pc' # "stop" /\ pc \in Early
      BY <2>5 DEF Process, Exit, GoTo, outVars, DrainOne, DrainEnds, OpenPacketSocket,
         ChooseLinkType, IfaceBind, FinishActivation, PcapCompile, InstallProgram,
         AttachTotalFilter, AttachProgram, ResetKernelFilter, CreateSendSocket,
         SleepDelay, DumpOpen, Early, SetupPc
    <3>2. QED
      BY <3>1, <1>1 DEF Progress, Early, SetupPc
  <2>6. QED
    BY <2>1, <2>2, <2>3, <2>4, <2>5, <1>1 DEF Next, Process
<1>2. ASSUME IInv, Progress, UNCHANGED vars
      PROVE  Progress'
  BY <1>2 DEF vars, mainVars, outVars, Progress
<1>3. QED
  BY <1>1, <1>2

-----------------------------------------------------------------------------
(* What a step of main does to the variables of RootShell.                 *)

LEMMA Stutters ==
    ASSUME UtilPc' = UtilPc, Over' <=> Over, UNCHANGED <<wire, opt>>,
           Over \/ handed' = handed,
           (soError \/ result = "error")' = (soError \/ result = "error")
    PROVE  UNCHANGED UtilVars
<1>1. UNCHANGED RxQueueOf
  BY DEF RxQueueOf, Received
<1>2. UNCHANGED LocalPortOf
  BY DEF LocalPortOf, HasSendSocket, Forwarding
<1>3. UNCHANGED <<Job1Of, UtilPcOf, HostOf, SentOf, IfaceGoneOf>>
  BY DEF Job1Of, UtilPcOf, HostOf, SentOf, IfaceGoneOf
<1>4. QED
  BY <1>1, <1>2, <1>3 DEF UtilVars, Util!loopbackVars, Util!rootVars, Util!shellVars,
     Util!utilVars

(* The process is over. *)
LEMMA Ends ==
    ASSUME ~Over, Over', UNCHANGED <<wire, opt>>
    PROVE  Util!UtilEnds(Me) /\ UNCHANGED Util!loopbackVars
<1>1. UtilPc' = "exit"
  BY DEF Over, UtilPc, SetupPc
<1>2. UtilPcOf' = [UtilPcOf EXCEPT ![Me] = "exit"]
  BY <1>1 DEF UtilPcOf, Names
<1>3. LocalPortOf' = LocalPortOf \ {Me}
  BY <1>1, NamesAssumption DEF LocalPortOf, HasSendSocket, Forwarding
<1>4. SentOf' = [SentOf EXCEPT ![Me] = 0]
  BY DEF SentOf, Names
<1>5. HostOf' = [HostOf EXCEPT ![Me] = NoOne]
  BY DEF HostOf, Names
<1>6. IfaceGoneOf' = IfaceGoneOf \ {Me}
  BY DEF IfaceGoneOf
<1>7. Job1Of' = [s \in {Sh} |-> IF Job1Of[s] = Me THEN NoOne ELSE Job1Of[s]]
  BY DEF Job1Of
<1>8. RxQueueOf' = RxQueueOf
  BY DEF RxQueueOf, Received
<1>9. QED
  BY <1>2, <1>3, <1>4, <1>5, <1>6, <1>7, <1>8 DEF Util!UtilEnds, Util!loopbackVars

(* A datagram reaches the app's socket. *)
LEMMA Delivers ==
    ASSUME TypeOK, NEW d, wire' = Append(wire, d), Len(wire) <= Count
    PROVE  Util!Deliver([src |-> Me, n |-> d.k])
<1> DEFINE m == [src |-> Me, n |-> d.k]
<1>1. wire \in Seq(WireType)
  BY DEF TypeOK
<1>2. DOMAIN wire = 1..Len(wire) /\ Len(wire) \in Nat
  BY <1>1
<1>3. Received \in Seq({[src |-> Me, n |-> wire[i].k] : i \in DOMAIN wire})
  BY <1>2 DEF Received
<1>4. Len(Received) = Len(wire) /\ DOMAIN Received = DOMAIN wire
  BY <1>2 DEF Received
<1>5. /\ DOMAIN wire' = 1..(Len(wire) + 1) /\ wire'[Len(wire) + 1] = d
      /\ \A i \in DOMAIN wire : wire'[i] = wire[i]
  BY <1>1
<1>6. Received' = Append(Received, m)
  BY <1>2, <1>3, <1>4, <1>5 DEF Received
<1>7. Len(RxQueueOf[App]) < Count + 1 /\ RxQueueOf[App] = Received
  BY <1>2, <1>4, CsiutilAssumption DEF RxQueueOf, Names
<1>8. RxQueueOf' = [s \in Names |-> IF s \in {App} /\ Len(RxQueueOf[s]) < Count + 1
                                    THEN Append(RxQueueOf[s], m) ELSE RxQueueOf[s]]
  BY <1>6, <1>7 DEF RxQueueOf
<1>9. QED
  BY <1>8 DEF Util!Deliver

(* Only its place in main changes. *)
LEMMA Moves ==
    ASSUME ~Over, ~Over', UNCHANGED <<wire, opt, handed>>,
           (soError \/ result = "error")' = (soError \/ result = "error")
    PROVE  /\ UtilPcOf' = [UtilPcOf EXCEPT ![Me] = UtilPc']
           /\ UNCHANGED <<RxQueueOf, Job1Of, HostOf, SentOf, IfaceGoneOf>>
<1>1. UtilPcOf' = [UtilPcOf EXCEPT ![Me] = UtilPc']
  BY DEF UtilPcOf, Names
<1>2. UNCHANGED RxQueueOf
  BY DEF RxQueueOf, Received
<1>3. QED
  BY <1>1, <1>2 DEF Job1Of, HostOf, SentOf, IfaceGoneOf

-----------------------------------------------------------------------------
(* Every step is a step of RootShell's csiutil, or none. *)

LEMMA ExitSimulates ==
    ASSUME pc # "exit", pc' = "exit", UNCHANGED <<wire, opt>>,
           \/ pc \in SetupPc
           \/ pc = "closeDump"
           \/ Killed
    PROVE  UtilNext
<1>1. Util!UtilEnds(Me) /\ UNCHANGED Util!loopbackVars
  BY Ends DEF Over
<1>2. CASE pc \in SetupPc
  <2>1. UtilPc = "open"
    BY <1>2 DEF SetupPc, UtilPc
  <2>2. QED
    BY <1>1, <2>1 DEF UtilNext, Util!PcapFails, UtilPcOf, Names
<1>3. CASE pc = "closeDump"
  <2>1. UtilPc = "close"
    BY <1>3 DEF SetupPc, UtilPc
  <2>2. QED
    BY <1>1, <2>1 DEF UtilNext, Util!CloseSendSocket, UtilPcOf, Names
<1>4. CASE Killed
  <2>1. Job1Of[Sh] = Me /\ Me # NoOne
    BY NamesAssumption DEF Job1Of, Over
  <2>2. QED
    BY <1>1, <2>1 DEF UtilNext, Util!RunKill
<1>5. QED
  BY <1>2, <1>3, <1>4

LEMMA ReadPacketSimulates ==
    ASSUME RInv, TypeOK', ReadPacket
    PROVE  UtilNext \/ UNCHANGED UtilVars
<1>1. /\ pc = "loop" /\ pc' \in {"loop", "stop"} /\ UNCHANGED <<opt, soError>>
      /\ result' = "error" <=> result = "error"
  BY DEF ReadPacket, GoTo, TakeFrame, outVars, RInv, Progress
<1>2. UtilPc = "loop" /\ UtilPc' = "loop" /\ ~Over /\ ~Over'
  BY <1>1 DEF UtilPc, SetupPc, Over
<1>3. CASE UNCHANGED outVars
  BY <1>1, <1>2, <1>3, Stutters DEF outVars
<1>4. CASE GotPacket(Head(rxFrames))
  <2> DEFINE p == Head(rxFrames)
             n == Len(handed) + 1
             d == [k |-> n, size |-> SizeOf(p), captured |-> CapturedOf(p)]
  <2>1. TypeOK /\ Len(handed') = n /\ Len(handed) < Count /\ Len(handed) \in Nat
        /\ Len(wire) <= Len(handed) /\ Len(wire) \in Nat
    BY <1>1, <1>4, WireGrows DEF RInv, IInv, Capture, Progress, TypeOK
  <2>2. wire' = IF Sendable(p) THEN Append(wire, d) ELSE wire
    BY <1>4 DEF GotPacket
  <2>3. /\ UtilPcOf[Me] = "loop" /\ UtilPcOf' = [UtilPcOf EXCEPT ![Me] = "loop"]
        /\ SentOf[Me] = Len(handed)
        /\ UNCHANGED <<Job1Of, HostOf, IfaceGoneOf, LocalPortOf>>
    BY <1>1, <1>2 DEF UtilPcOf, Names, SentOf, Job1Of, HostOf, IfaceGoneOf, LocalPortOf,
       HasSendSocket, Forwarding
  <2>4. SentOf' = [SentOf EXCEPT ![Me] = SentOf[Me] + 1]
    BY <1>2, <2>1, <2>3 DEF SentOf, Names
  <2>5. Me \in LocalPortOf <=> HasSendSocket
    BY <1>2, NamesAssumption DEF LocalPortOf
  <2>6. CASE Sendable(p)
    <3>1. Util!Deliver([src |-> Me, n |-> d.k])
      BY <2>1, <2>2, <2>6, Delivers, CsiutilAssumption
    <3>2. Util!SendTo(Me, [src |-> Me, n |-> SentOf[Me] + 1])
      BY <3>1, <2>3, <2>5, <2>6 DEF Util!SendTo, Sendable
    <3>3. Util!GotPacket(Me)
      BY <3>2, <2>1, <2>3, <2>4 DEF Util!GotPacket, Util!AtUtil, Util!shellVars
    <3>4. QED
      BY <3>3 DEF UtilNext
  <2>7. CASE ~Sendable(p)
    <3>1. UNCHANGED Util!loopbackVars
      BY <2>2, <2>7 DEF Util!loopbackVars, RxQueueOf, Received
    <3>2. Util!GotShortPacket(Me)
      BY <3>1, <2>1, <2>3, <2>4 DEF Util!GotShortPacket, Util!AtUtil, Util!shellVars
    <3>3. QED
      BY <3>2 DEF UtilNext
  <2>8. QED
    BY <2>6, <2>7
<1>5. QED
  BY <1>3, <1>4 DEF ReadPacket

LEMMA SendStopSimulates ==
    ASSUME RInv, SendStop
    PROVE  UtilNext
<1> DEFINE d == [k |-> 0, size |-> 1, captured |-> 1]
<1>1. /\ pc = "stop" /\ pc' = "closeSend"
      /\ UNCHANGED <<opt, soError, handed, result>>
      /\ wire' = IF HasSendSocket THEN Append(wire, d) ELSE wire
  BY DEF SendStop, GoTo, socketVars
<1>2. UtilPc = "loop" /\ UtilPc' = "close" /\ ~Over /\ ~Over'
  BY <1>1 DEF UtilPc, SetupPc, Over
<1>3. /\ UtilPcOf[Me] = "loop" /\ UtilPcOf' = [UtilPcOf EXCEPT ![Me] = "close"]
      /\ SentOf[Me] = Len(handed)
      /\ UNCHANGED <<Job1Of, HostOf, SentOf, IfaceGoneOf, LocalPortOf>>
  BY <1>1, <1>2 DEF UtilPcOf, Names, SentOf, Job1Of, HostOf, IfaceGoneOf, LocalPortOf,
     HasSendSocket, Forwarding
<1>4. SentOf[Me] = Count \/ Me \in IfaceGoneOf
  BY <1>1, <1>2, <1>3 DEF RInv, Progress, IfaceGoneOf
<1>5. Me \in LocalPortOf <=> HasSendSocket
  BY <1>2, NamesAssumption DEF LocalPortOf
<1>6. Util!SendTo(Me, Util!StopMsg(Me))
  <2>1. CASE HasSendSocket
    <3>1. TypeOK /\ Len(wire) <= Count
      BY <1>1, CsiutilAssumption DEF RInv, IInv, Progress, Capture, TypeOK
    <3>2. Util!Deliver([src |-> Me, n |-> d.k])
      BY <3>1, <2>1, <1>1, Delivers
    <3>3. QED
      BY <3>2, <2>1, <1>5 DEF Util!SendTo, Util!StopMsg
  <2>2. CASE ~HasSendSocket
    BY <2>2, <1>1, <1>5 DEF Util!SendTo, Util!loopbackVars, RxQueueOf, Received
  <2>3. QED
    BY <2>1, <2>2
<1>7. QED
  BY <1>3, <1>4, <1>6 DEF UtilNext, Util!SendStop, Util!AtUtil, Util!shellVars

LEMMA DownSimulates ==
    ASSUME TypeOK, InterfaceDown, UNCHANGED <<mainVars, handleVars, outVars>>
    PROVE  UtilNext \/ UNCHANGED UtilVars
<1>1. /\ UNCHANGED <<wire, opt, handed, result, pc>> /\ soError' = TRUE
      /\ Over' = Over /\ UtilPc' = UtilPc
  BY DEF InterfaceDown, mainVars, outVars, Over, UtilPc
<1>2. CASE Over
  <2>1. UNCHANGED RxQueueOf
    BY <1>1 DEF RxQueueOf, Received
  <2>2. UNCHANGED LocalPortOf
    BY <1>1 DEF LocalPortOf, HasSendSocket, Forwarding
  <2>3. UNCHANGED <<Job1Of, UtilPcOf, HostOf, SentOf, IfaceGoneOf>>
    BY <1>1, <1>2 DEF Job1Of, UtilPcOf, HostOf, SentOf, IfaceGoneOf
  <2>4. QED
    BY <2>1, <2>2, <2>3 DEF UtilVars, Util!loopbackVars, Util!rootVars,
       Util!shellVars, Util!utilVars
<1>3. CASE ~Over
  <2>1. UNCHANGED RxQueueOf
    BY <1>1 DEF RxQueueOf, Received
  <2>2. UNCHANGED LocalPortOf
    BY <1>1 DEF LocalPortOf, HasSendSocket, Forwarding
  <2>3. UNCHANGED <<Job1Of, UtilPcOf, HostOf, SentOf>>
    BY <1>1 DEF Job1Of, UtilPcOf, HostOf, SentOf
  <2>4. IfaceGoneOf \in {{}, {Me}} /\ IfaceGoneOf' = {Me}
    BY <1>1, <1>3 DEF IfaceGoneOf
  <2>5. UtilPc \in {"open", "sleep", "loop", "close"}
    BY <1>3 DEF UtilPc, Over, TypeOK, Pc
  <2>6. {u \in Names : UtilPcOf[u] \in {"sleep", "loop", "close"}}
          = IF UtilPc = "open" THEN {} ELSE {Me}
    BY <2>5, NamesAssumption DEF UtilPcOf, Names
  <2>7. {u \in Names : UtilPcOf[u] = "open"} = IF UtilPc = "open" THEN {Me} ELSE {}
    BY <2>5, NamesAssumption DEF UtilPcOf, Names
  <2>8. \E bound \in SUBSET {u \in Names : UtilPcOf[u] = "open"} :
          IfaceGoneOf' = IfaceGoneOf \cup bound
            \cup {u \in Names : UtilPcOf[u] \in {"sleep", "loop", "close"}}
    BY <2>4, <2>6, <2>7
  <2>9. Util!RunIfconfig(Sh)
    BY <2>2, <2>3, <2>8 DEF Util!RunIfconfig
  <2>10. QED
    BY <2>1, <2>9 DEF UtilNext, Util!loopbackVars
<1>4. QED
  BY <1>2, <1>3

LEMMA StepSimulates ==
    ASSUME RInv, TypeOK', Next, opt.file # "refused"
    PROVE  UtilNext \/ UNCHANGED UtilVars
<1>1. CASE ReadPacket
  BY <1>1, ReadPacketSimulates
<1>2. CASE SendStop
  BY <1>2, SendStopSimulates
<1>3. CASE Killed
  BY <1>3, ExitSimulates DEF Killed, Exit, outVars
<1>4. CASE Kernel
  <2>1. CASE InterfaceDown
    BY <2>1, <1>4, DownSimulates DEF Kernel, RInv, IInv
  <2>2. CASE ~InterfaceDown
    <3>1. UNCHANGED <<pc, opt, soError, handed, result, wire>>
      BY <2>2, <1>4 DEF Kernel, FrameArrives, FrameQueued, mainVars, outVars
    <3>2. QED
      BY <3>1, Stutters DEF UtilPc, Over
  <2>3. QED
    BY <2>1, <2>2
<1>5. CASE CreateSendSocket
  <2>1. /\ pc = "sender" /\ pc' = "sleep"
        /\ UNCHANGED <<opt, soError, handed, result, wire>>
    BY <1>5 DEF CreateSendSocket, GoTo, socketVars, outVars
  <2>2. UtilPc = "open" /\ UtilPc' = "sleep" /\ ~Over /\ ~Over'
    BY <2>1 DEF UtilPc, SetupPc, Over
  <2>3. /\ UtilPcOf[Me] = "open" /\ UtilPcOf' = [UtilPcOf EXCEPT ![Me] = "sleep"]
        /\ UNCHANGED <<RxQueueOf, Job1Of, HostOf, SentOf, IfaceGoneOf>>
    BY <2>1, <2>2, Moves DEF UtilPcOf, Names
  <2>4. LocalPortOf' = IF LocalPortOf = {} THEN {Me} ELSE LocalPortOf
    BY <2>1, <2>2 DEF LocalPortOf, HasSendSocket, Forwarding
  <2>5. QED
    BY <2>3, <2>4 DEF UtilNext, Util!CreateUdpSendSocket, Util!AtUtil, Util!shellVars,
       Util!loopbackVars
<1>6. CASE DumpOpen
  <2>1. /\ pc = "dump" /\ pc' = "loop"
        /\ UNCHANGED <<opt, soError, handed, result, wire>>
    BY <1>6 DEF DumpOpen, GoTo, socketVars, outVars
  <2>2. UtilPc = "sleep" /\ UtilPc' = "loop" /\ ~Over /\ ~Over'
    BY <2>1 DEF UtilPc, SetupPc, Over
  <2>3. /\ UtilPcOf[Me] = "sleep" /\ UtilPcOf' = [UtilPcOf EXCEPT ![Me] = "loop"]
        /\ UNCHANGED <<RxQueueOf, Job1Of, HostOf, SentOf, IfaceGoneOf>>
    BY <2>1, <2>2, Moves DEF UtilPcOf, Names
  <2>4. UNCHANGED LocalPortOf
    BY <2>1, <2>2 DEF LocalPortOf, HasSendSocket, Forwarding
  <2>5. QED
    BY <2>3, <2>4 DEF UtilNext, Util!SleepDelay, Util!AtUtil, Util!shellVars,
       Util!loopbackVars
<1>7. CASE ReadError
  <2>1. /\ pc = "loop" /\ pc' = "stop" /\ soError /\ result' = "error"
        /\ UNCHANGED <<opt, handed, wire>>
    BY <1>7 DEF ReadError, GoTo, TakeError
  <2>2. QED
    BY <2>1, Stutters DEF UtilPc, SetupPc, Over
<1>8. CASE CloseDump
  BY <1>8, ExitSimulates DEF CloseDump, Exit, outVars
<1>9. CASE SleepDelay \/ CloseSendSocket
  <2>1. /\ \/ pc = "sleep" /\ pc' = "dump"
           \/ pc = "closeSend" /\ pc' = "closeDump"
        /\ UNCHANGED <<opt, soError, handed, result, wire>>
    BY <1>9 DEF SleepDelay, CloseSendSocket, GoTo, socketVars, outVars
  <2>2. UtilPc' = UtilPc /\ Over' = Over
    BY <2>1 DEF UtilPc, SetupPc, Over
  <2>3. QED
    BY <2>1, <2>2, Stutters
<1>10. CASE \/ OpenPacketSocket \/ ChooseLinkType \/ IfaceBind \/ FinishActivation
            \/ PcapCompile \/ Refused \/ InstallProgram \/ AttachTotalFilter
            \/ DrainOne \/ DrainEnds \/ AttachProgram \/ ResetKernelFilter
  <2>1. pc \in SetupPc /\ UNCHANGED <<opt, handed, result, wire>>
    BY <1>10 DEF OpenPacketSocket, ChooseLinkType, IfaceBind, FinishActivation,
       PcapCompile, Refused, InstallProgram, AttachTotalFilter, DrainOne, DrainEnds,
       AttachProgram, ResetKernelFilter, GoTo, Exit, outVars, SetupPc
  <2>2. \/ pc' = "exit"
        \/ pc' \in SetupPc /\ UNCHANGED soError
    BY <1>10 DEF OpenPacketSocket, ChooseLinkType, IfaceBind, FinishActivation,
       PcapCompile, Refused, InstallProgram, AttachTotalFilter, DrainOne, DrainEnds,
       AttachProgram, ResetKernelFilter, GoTo, Exit, SetupPc, CreateSocket,
       RecreateSocket, BindToInterface, AttachFilter, TakeFrame, socketVars
  <2>3. CASE pc' = "exit"
    BY <2>1, <2>3, ExitSimulates DEF SetupPc
  <2>4. CASE pc' \in SetupPc /\ UNCHANGED soError
    <3>1. UtilPc' = UtilPc /\ Over' = Over
      BY <2>1, <2>4 DEF UtilPc, SetupPc, Over
    <3>2. QED
      BY <3>1, <2>1, <2>4, Stutters
  <2>5. QED
    BY <2>2, <2>3, <2>4
<1>11. QED
  BY <1>1, <1>2, <1>3, <1>4, <1>5, <1>6, <1>7, <1>8, <1>9, <1>10 DEF Next, Process

(* Every step of csiutil is a step of the csiutil the app's model runs, or *)
(* one the app cannot tell from none.                                      *)
THEOREM Refinement == Spec => Implements
<1>1. Init => Progress
  BY CsiutilAssumption DEF Init, Progress
<1>2. RInv /\ [Next]_vars => RInv'
  BY IInvStep, ProgressStep DEF RInv
<1>3. RInv /\ RInv' /\ [Next]_vars => [opt.file # "refused" => UtilNext]_UtilVars
  <2>1. ASSUME UNCHANGED vars
        PROVE  UNCHANGED UtilVars
    BY <2>1, Stutters DEF vars, socketVars, mainVars, outVars, UtilPc, Over
  <2>2. QED
    BY <2>1, StepSimulates DEF RInv, IInv
<1>4. QED
  BY <1>1, <1>2, <1>3, IInvInit, PTL DEF Spec, Implements, RInv
=============================================================================
