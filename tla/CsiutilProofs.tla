--------------------------- MODULE CsiutilProofs ---------------------------
(***************************************************************************)
(* What csiutil captures, and that it is what RootShell says it is: the    *)
(* properties of Csiutil and CsiutilReduced for every set of frames, every *)
(* bound and every command line.                                           *)
(*                                                                         *)
(* A frame is filtered long before it is handed to got_packet, and the     *)
(* filter changes in between.  The inductive invariant therefore follows   *)
(* the frames that are still on their way: Overtaking says at which points *)
(* of pcap_setfilter a queued frame, or the one in flight, is one that no  *)
(* filter could stop.                                                      *)
(***************************************************************************)
EXTENDS Csiutil, FiniteSetTheorems, TLAPS

(* Every number is that of a frame that was seen. *)
Bounds ==
    /\ flight \in 0..Len(seen)
    /\ \A i \in DOMAIN rxFrames : rxFrames[i] \in 1..Len(seen)
    /\ \A i \in DOMAIN handed : handed[i] \in 1..Len(seen)

Early == SetupPc \cup {"sleep", "dump"}
Capturing == {"sender", "sleep", "dump", "loop", "stop", "closeSend", "closeDump"}

(* Nothing is captured before pcap_loop, and no more than -n packets in it. *)
Capture ==
    /\ pc \in Early => handed = << >> /\ wire = << >> /\ saved = << >>
    /\ pc \in Early \cup {"loop"} => Len(handed) < Count
    /\ Len(handed) <= Count

(* Which filter is on, and who runs it. *)
FilterState ==
    /\ pc \in {"open", "link", "bind", "promisc", "compile", "install"}
         => ~userland /\ filter = "none"
    /\ pc \in {"total", "reset"} => userland /\ filter = "none"
    /\ pc = "drain" => userland /\ filter = "total"
    /\ pc = "attach" => userland /\ filter # "program"
    /\ pc \in Capturing => filter # "total" /\ (userland <=> filter = "none")

(* What is on its way was either filtered or could not be stopped. *)
Overtaking ==
    /\ pc = "drain" => flight \in overtook \cup {0}
    /\ pc = "attach" /\ filter = "total"
         => /\ flight \in overtook \cup {0}
            /\ \A i \in DOMAIN rxFrames : rxFrames[i] \in overtook
    /\ pc \in Capturing /\ ~userland
         => /\ flight # 0 => seen[flight].matches \/ flight \in overtook
            /\ \A i \in DOMAIN rxFrames :
                 seen[rxFrames[i]].matches \/ rxFrames[i] \in overtook

HandedOn ==
    \A i \in DOMAIN handed :
        /\ seen[handed[i]].ours
        /\ seen[handed[i]].matches \/ handed[i] \in overtook

IInv == TypeOK /\ Bounds /\ Capture /\ FilterState /\ Overtaking /\ HandedOn

-----------------------------------------------------------------------------
(* What reading, arriving, queueing and handing on do to their sequences.  *)

LEMMA TakenFrame ==
    ASSUME TypeOK, Bounds, TakeFrame
    PROVE  /\ Head(rxFrames) \in 1..Len(seen) /\ Head(rxFrames) \in Numbers
           /\ 1 \in DOMAIN rxFrames /\ Head(rxFrames) = rxFrames[1]
           /\ rxFrames' \in Seq(Numbers)
           /\ \A i \in DOMAIN rxFrames' :
                i + 1 \in DOMAIN rxFrames /\ rxFrames'[i] = rxFrames[i + 1]
BY DEF TypeOK, PacketSocketTypeOK, Bounds, TakeFrame

LEMMA ArrivedFrame ==
    ASSUME TypeOK, Bounds, NEW f \in Frames, FrameArrives(f)
    PROVE  /\ seen' \in Seq(Frames)
           /\ Len(seen') = Len(seen) + 1 /\ Len(seen') \in Numbers
           /\ \A i \in 1..Len(seen) : seen'[i] = seen[i]
           /\ seen'[Len(seen')] = f
BY PacketSocketAssumption DEF TypeOK, PacketSocketTypeOK, Bounds, FrameArrives, Numbers

LEMMA QueuedFrame ==
    ASSUME TypeOK, FrameQueued
    PROVE  /\ rxFrames' \in Seq(Numbers)
           /\ \A i \in DOMAIN rxFrames' :
                \/ rxFrames'[i] = flight
                \/ i \in DOMAIN rxFrames /\ rxFrames'[i] = rxFrames[i]
BY DEF TypeOK, PacketSocketTypeOK, FrameQueued

LEMMA HandedFrame ==
    ASSUME TypeOK, NEW p \in Numbers, GotPacket(p)
    PROVE  /\ handed' \in Seq(Numbers)
           /\ Len(handed') = Len(handed) + 1
           /\ \A i \in DOMAIN handed :
                i \in DOMAIN handed' /\ handed'[i] = handed[i]
           /\ \A i \in DOMAIN handed' :
                \/ i = Len(handed) + 1 /\ handed'[i] = p
                \/ i \in DOMAIN handed /\ handed'[i] = handed[i]
BY DEF TypeOK, GotPacket

-----------------------------------------------------------------------------
(* Every conjunct of IInv is kept by every step. *)

LEMMA ExitType ==
    ASSUME TypeOK, NEW how \in {"ok", "refused", "noFile", "crashed", "killed"},
           Exit(how)
    PROVE  TypeOK'
<1>1. << >> \in Seq(Numbers)
  OBVIOUS
<1>2. QED
  BY <1>1 DEF TypeOK, PacketSocketTypeOK, Exit, DestroySocket, handleVars, outVars,
              Pc

LEMMA SizesAreNat ==
    ASSUME TypeOK, NEW p \in 1..Len(seen)
    PROVE  PacketLen(p) \in Nat /\ SizeOf(p) \in Nat
           /\ CapLen(p) \in Nat /\ CapturedOf(p) \in Nat
<1>1. seen[p].len \in Nat
  BY PacketSocketAssumption DEF TypeOK, PacketSocketTypeOK
<1>2. PacketLen(p) \in Nat
  BY <1>1 DEF PacketLen
<1>3. CapLen(p) \in Nat /\ CapturedOf(p) \in Nat
  BY <1>2, CsiutilAssumption DEF CapLen, CapturedOf, Least, Skipped, NetHeaders
<1>4. SizeOf(p) \in Nat
  BY <1>2 DEF SizeOf, Skipped, NetHeaders, SizeModulus
<1>5. QED
  BY <1>2, <1>3, <1>4

(* Every variable keeps its type. *)
LEMMA TypeStep ==
    ASSUME IInv, Next
    PROVE  TypeOK'
<1>. USE DEF IInv
<1>1. CASE OpenPacketSocket
  BY <1>1 DEF
      OpenPacketSocket, GoTo, CreateSocket, handleVars, outVars, TypeOK,
          PacketSocketTypeOK, Pc, SetupPc
<1>2. CASE ChooseLinkType
  <2>1. << >> \in Seq(Numbers)
    OBVIOUS
  <2>2. QED
    BY <1>2, <2>1 DEF ChooseLinkType, GoTo, RecreateSocket, socketVars, outVars, TypeOK,
        PacketSocketTypeOK, Pc, SetupPc
<1>3. CASE IfaceBind
  BY <1>3 DEF
      IfaceBind, GoTo, BindToInterface, handleVars, outVars, TypeOK,
          PacketSocketTypeOK, Pc, SetupPc
<1>4. CASE FinishActivation
  BY <1>4 DEF
      FinishActivation, GoTo, socketVars, handleVars, outVars, TypeOK,
          PacketSocketTypeOK, Pc, SetupPc
<1>5. CASE PcapCompile
  BY <1>5 DEF
      PcapCompile, GoTo, socketVars, handleVars, outVars, TypeOK,
          PacketSocketTypeOK, Pc, SetupPc
<1>6. CASE Refused
  BY <1>6, ExitType DEF Refused
<1>7. CASE InstallProgram
  BY <1>7 DEF
      InstallProgram, GoTo, socketVars, outVars, TypeOK, PacketSocketTypeOK,
          Pc, SetupPc
<1>8. CASE AttachTotalFilter
  <2>1. {flight} \ {0} \subseteq Numbers
    BY DEF TypeOK, PacketSocketTypeOK
  <2>2. QED
    BY <1>8, <2>1 DEF AttachTotalFilter, GoTo, AttachFilter, socketVars, outVars, TypeOK,
        PacketSocketTypeOK, Pc, SetupPc
<1>9. CASE DrainOne
  BY <1>9, TakenFrame DEF DrainOne, GoTo, TakeFrame, handleVars, outVars, TypeOK,
      PacketSocketTypeOK, Pc, SetupPc
<1>10. CASE DrainEnds
  <2>1. CASE Exit("refused")
    BY <2>1, ExitType
  <2>2. CASE ~Exit("refused")
    BY <1>10, <2>2 DEF DrainEnds, GoTo, AttachFilter, socketVars, handleVars, outVars,
        TypeOK, PacketSocketTypeOK, Pc, SetupPc
  <2>3. QED
    BY <2>1, <2>2
<1>11. CASE AttachProgram
  <2>1. OnTheWay \subseteq Numbers
    BY DEF OnTheWay, TypeOK, PacketSocketTypeOK
  <2>2. QED
    BY <1>11, <2>1 DEF AttachProgram, GoTo, AttachFilter, outVars, TypeOK,
        PacketSocketTypeOK, Pc, SetupPc
<1>12. CASE ResetKernelFilter
  <2>1. CASE Exit("refused")
    BY <2>1, ExitType
  <2>2. CASE ~Exit("refused")
    BY <1>12, <2>2 DEF ResetKernelFilter, GoTo, AttachFilter, socketVars, handleVars, outVars,
        TypeOK, PacketSocketTypeOK, Pc, SetupPc
  <2>3. QED
    BY <2>1, <2>2
<1>13. CASE CreateSendSocket
  BY <1>13 DEF
      CreateSendSocket, GoTo, socketVars, handleVars, outVars, TypeOK,
          PacketSocketTypeOK, Pc, SetupPc
<1>14. CASE SleepDelay
  BY <1>14 DEF
      SleepDelay, GoTo, socketVars, handleVars, outVars, TypeOK,
          PacketSocketTypeOK, Pc, SetupPc
<1>15. CASE DumpOpen
  <2>1. CASE Exit("noFile")
    BY <2>1, ExitType
  <2>2. CASE ~Exit("noFile")
    BY <1>15, <2>2 DEF DumpOpen, GoTo, AttachFilter, socketVars, handleVars, outVars,
        TypeOK, PacketSocketTypeOK, Pc, SetupPc
  <2>3. QED
    BY <2>1, <2>2
<1>16. CASE ReadPacket
  <2>1. /\ TakeFrame /\ UNCHANGED handleVars
        /\ \/ GoTo("loop", "loop") /\ UNCHANGED outVars
           \/ /\ GotPacket(Head(rxFrames))
              /\ pc = "loop" /\ pc' \in {"loop", "stop"} /\ UNCHANGED <<status, opt>>
              /\ result' \in {"running", "count", "error"}
    BY <1>16 DEF ReadPacket, GoTo, TypeOK
  <2>2. PacketSocketTypeOK' /\ UNCHANGED <<cooked, userland, overtook>>
    BY <2>1, TakenFrame DEF TypeOK, PacketSocketTypeOK, TakeFrame, handleVars
  <2>3. CASE UNCHANGED outVars /\ GoTo("loop", "loop")
    BY <2>2, <2>3 DEF GoTo, outVars, TypeOK, Pc
  <2>4. CASE GotPacket(Head(rxFrames)) /\ pc = "loop" /\ pc' \in {"loop", "stop"}
             /\ UNCHANGED <<status, opt>>
             /\ result' \in {"running", "count", "error"}
    <3>1. /\ Head(rxFrames) \in Numbers /\ Len(handed) + 1 \in 1..Count
      BY <2>1, <2>4, TakenFrame, CsiutilAssumption DEF TypeOK, Capture
    <3>2. /\ PacketLen(Head(rxFrames)) \in Nat
          /\ SizeOf(Head(rxFrames)) \in Nat
          /\ CapLen(Head(rxFrames)) \in Nat
          /\ CapturedOf(Head(rxFrames)) \in Nat
      BY <2>1, TakenFrame, SizesAreNat
    <3>3. handed' \in Seq(Numbers)
      BY <3>1, <2>4, HandedFrame
    <3>4. saved' \in Seq([k : 1..Count, size : Nat])
      <4> DEFINE T == [k : 1..Count, size : Nat]
                 r == [k |-> Len(handed) + 1, size |-> CapLen(Head(rxFrames))]
      <4>1. r \in T
        BY <3>1, <3>2
      <4>2. saved \in Seq(T)
        BY DEF TypeOK
      <4>3. saved' = saved \/ saved' = Append(saved, r)
        BY <2>4 DEF GotPacket
      <4> HIDE DEF T, r
      <4>4. saved' \in Seq(T)
        BY <4>1, <4>2, <4>3
      <4>5. QED
        BY <4>4 DEF T
    <3>5. wire' \in Seq(WireType)
      <4>1. [k |-> Len(handed) + 1, size |-> SizeOf(Head(rxFrames)),
             captured |-> CapturedOf(Head(rxFrames))] \in WireType
        BY <3>1, <3>2 DEF WireType
      <4>2. wire \in Seq(WireType)
        BY DEF TypeOK
      <4>3. \/ wire' = wire
            \/ wire' = Append(wire, [k |-> Len(handed) + 1,
                                     size |-> SizeOf(Head(rxFrames)),
                                     captured |-> CapturedOf(Head(rxFrames))])
        BY <2>4 DEF GotPacket
      <4>4. QED
        BY <4>1, <4>2, <4>3
    <3>6. QED
      BY <2>2, <2>4, <3>3, <3>4, <3>5 DEF TypeOK, Pc
  <2>5. QED
    BY <2>1, <2>3, <2>4
<1>17. CASE ReadError
  BY <1>17 DEF
      ReadError, GoTo, TakeError, handleVars, TypeOK, PacketSocketTypeOK,
          Pc, SetupPc
<1>18. CASE SendStop
  <2>1. [k |-> 0, size |-> 1, captured |-> 1] \in WireType
    BY CsiutilAssumption DEF WireType
  <2>2. QED
    BY <1>18, <2>1 DEF SendStop, GoTo, socketVars, handleVars, TypeOK, PacketSocketTypeOK,
        Pc
<1>19. CASE CloseSendSocket
  BY <1>19 DEF
      CloseSendSocket, GoTo, socketVars, handleVars, outVars, TypeOK,
          PacketSocketTypeOK, Pc, SetupPc
<1>20. CASE CloseDump
  BY <1>20, ExitType DEF CloseDump
<1>21. CASE Killed
  BY <1>21, ExitType DEF Killed
<1>22. CASE Kernel
  <2>1. UNCHANGED <<pc, status, opt, cooked, userland, overtook, handed, result, wire,
                    saved>>
    BY <1>22 DEF Kernel, mainVars, handleVars, outVars
  <2>2. PacketSocketTypeOK'
    <3>1. CASE \E f \in Frames : FrameArrives(f)
      BY <3>1, ArrivedFrame DEF FrameArrives, TypeOK, PacketSocketTypeOK
    <3>2. CASE FrameQueued
      BY <3>2, QueuedFrame DEF FrameQueued, TypeOK, PacketSocketTypeOK
    <3>3. CASE InterfaceDown
      BY <3>3 DEF InterfaceDown, TypeOK, PacketSocketTypeOK
    <3>4. QED
      BY <1>22, <3>1, <3>2, <3>3 DEF Kernel
  <2>3. QED
    BY <2>1, <2>2 DEF TypeOK
<1>23. QED
  BY <1>1, <1>2, <1>3, <1>4, <1>5, <1>6, <1>7, <1>8, <1>9, <1>10, <1>11,
      <1>12, <1>13, <1>14, <1>15, <1>16, <1>17, <1>18, <1>19, <1>20, <1>21,
      <1>22 DEF Next, Process

(* Numbers stay numbers of frames that were seen. *)
LEMMA BoundsStep ==
    ASSUME IInv, Next
    PROVE  Bounds'
<1>. USE DEF IInv
<1>1. CASE OpenPacketSocket
  BY <1>1 DEF
      OpenPacketSocket, GoTo, CreateSocket, handleVars, outVars, Bounds
<1>2. CASE ChooseLinkType
  BY <1>2 DEF
      ChooseLinkType, GoTo, RecreateSocket, socketVars, outVars, Bounds
<1>3. CASE IfaceBind
  BY <1>3 DEF
      IfaceBind, GoTo, BindToInterface, handleVars, outVars, Bounds
<1>4. CASE FinishActivation
  BY <1>4 DEF
      FinishActivation, GoTo, socketVars, handleVars, outVars, Bounds
<1>5. CASE PcapCompile
  BY <1>5 DEF
      PcapCompile, GoTo, socketVars, handleVars, outVars, Bounds
<1>6. CASE Refused
  BY <1>6 DEF
      Refused, Exit, DestroySocket, handleVars, outVars, Bounds
<1>7. CASE InstallProgram
  BY <1>7 DEF
      InstallProgram, GoTo, socketVars, outVars, Bounds
<1>8. CASE AttachTotalFilter
  BY <1>8 DEF
      AttachTotalFilter, GoTo, AttachFilter, socketVars, outVars, Bounds
<1>9. CASE DrainOne
  BY <1>9, TakenFrame DEF DrainOne, TakeFrame, outVars, Bounds
<1>10. CASE DrainEnds
  BY <1>10 DEF
      DrainEnds, GoTo, Exit, DestroySocket, socketVars, handleVars, outVars,
          Bounds
<1>11. CASE AttachProgram
  BY <1>11 DEF
      AttachProgram, GoTo, AttachFilter, outVars, Bounds
<1>12. CASE ResetKernelFilter
  BY <1>12 DEF
      ResetKernelFilter, GoTo, AttachFilter, Exit, DestroySocket,
          handleVars, outVars, Bounds
<1>13. CASE CreateSendSocket
  BY <1>13 DEF
      CreateSendSocket, GoTo, socketVars, handleVars, outVars, Bounds
<1>14. CASE SleepDelay
  BY <1>14 DEF
      SleepDelay, GoTo, socketVars, handleVars, outVars, Bounds
<1>15. CASE DumpOpen
  BY <1>15 DEF
      DumpOpen, GoTo, Exit, DestroySocket, socketVars, handleVars, outVars,
          Bounds
<1>16. CASE ReadPacket
  <2>1. TakeFrame /\ UNCHANGED seen
    BY <1>16 DEF ReadPacket, TakeFrame
  <2>2. handed' = handed \/ GotPacket(Head(rxFrames))
    BY <1>16 DEF ReadPacket, outVars
  <2>3. QED
    BY <2>1, <2>2, TakenFrame, HandedFrame DEF Bounds, TakeFrame
<1>17. CASE ReadError
  BY <1>17 DEF
      ReadError, GoTo, TakeError, handleVars, Bounds
<1>18. CASE SendStop
  BY <1>18 DEF
      SendStop, GoTo, socketVars, handleVars, Bounds
<1>19. CASE CloseSendSocket
  BY <1>19 DEF
      CloseSendSocket, GoTo, socketVars, handleVars, outVars, Bounds
<1>20. CASE CloseDump
  BY <1>20 DEF
      CloseDump, Exit, DestroySocket, handleVars, outVars, Bounds
<1>21. CASE Killed
  BY <1>21 DEF
      Killed, Exit, DestroySocket, handleVars, outVars, Bounds
<1>22. CASE Kernel
  <2>1. handed' = handed
    BY <1>22 DEF Kernel, outVars
  <2>2. CASE \E f \in Frames : FrameArrives(f)
    <3>1. PICK f \in Frames : FrameArrives(f)
      BY <2>2
    <3>2. flight' \in 0..Len(seen') /\ rxFrames' = rxFrames
      BY <3>1, ArrivedFrame DEF FrameArrives, Bounds, TypeOK, PacketSocketTypeOK
    <3>3. QED
      BY <2>1, <3>1, <3>2, ArrivedFrame DEF Bounds, TypeOK, PacketSocketTypeOK
  <2>3. CASE FrameQueued
    BY <2>1, <2>3, QueuedFrame DEF FrameQueued, Bounds, TypeOK, PacketSocketTypeOK
  <2>4. CASE InterfaceDown
    BY <2>1, <2>4 DEF InterfaceDown, Bounds
  <2>5. QED
    BY <1>22, <2>2, <2>3, <2>4 DEF Kernel
<1>23. QED
  BY <1>1, <1>2, <1>3, <1>4, <1>5, <1>6, <1>7, <1>8, <1>9, <1>10, <1>11,
      <1>12, <1>13, <1>14, <1>15, <1>16, <1>17, <1>18, <1>19, <1>20, <1>21,
      <1>22 DEF Next, Process

(* The capture starts empty and ends with -n packets. *)
LEMMA CaptureStep ==
    ASSUME IInv, Next
    PROVE  Capture'
<1>. USE DEF IInv
<1>1. CASE OpenPacketSocket
  BY <1>1 DEF
      OpenPacketSocket, GoTo, CreateSocket, handleVars, outVars, Capture,
          Early, SetupPc
<1>2. CASE ChooseLinkType
  BY <1>2 DEF
      ChooseLinkType, GoTo, RecreateSocket, socketVars, outVars, Capture,
          Early, SetupPc
<1>3. CASE IfaceBind
  BY <1>3 DEF
      IfaceBind, GoTo, BindToInterface, handleVars, outVars, Capture, Early,
          SetupPc
<1>4. CASE FinishActivation
  BY <1>4 DEF
      FinishActivation, GoTo, socketVars, handleVars, outVars, Capture,
          Early, SetupPc
<1>5. CASE PcapCompile
  BY <1>5 DEF
      PcapCompile, GoTo, socketVars, handleVars, outVars, Capture, Early,
          SetupPc
<1>6. CASE Refused
  BY <1>6 DEF
      Refused, Exit, DestroySocket, handleVars, outVars, Capture, Early,
          SetupPc
<1>7. CASE InstallProgram
  BY <1>7 DEF
      InstallProgram, GoTo, socketVars, outVars, Capture, Early, SetupPc
<1>8. CASE AttachTotalFilter
  BY <1>8 DEF
      AttachTotalFilter, GoTo, AttachFilter, socketVars, outVars, Capture,
          Early, SetupPc
<1>9. CASE DrainOne
  BY <1>9 DEF
      DrainOne, GoTo, TakeFrame, handleVars, outVars, Capture, Early,
          SetupPc
<1>10. CASE DrainEnds
  BY <1>10 DEF
      DrainEnds, GoTo, Exit, DestroySocket, socketVars, handleVars, outVars,
          Capture, Early, SetupPc
<1>11. CASE AttachProgram
  BY <1>11 DEF
      AttachProgram, GoTo, AttachFilter, outVars, Capture, Early, SetupPc
<1>12. CASE ResetKernelFilter
  BY <1>12 DEF
      ResetKernelFilter, GoTo, AttachFilter, Exit, DestroySocket,
          handleVars, outVars, Capture, Early, SetupPc
<1>13. CASE CreateSendSocket
  BY <1>13 DEF
      CreateSendSocket, GoTo, socketVars, handleVars, outVars, Capture,
          Early, SetupPc
<1>14. CASE SleepDelay
  BY <1>14 DEF
      SleepDelay, GoTo, socketVars, handleVars, outVars, Capture, Early,
          SetupPc
<1>15. CASE DumpOpen
  BY <1>15 DEF
      DumpOpen, GoTo, Exit, DestroySocket, socketVars, handleVars, outVars,
          Capture, Early, SetupPc
<1>16. CASE ReadPacket
  <2>1. CASE UNCHANGED outVars /\ GoTo("loop", "loop")
    BY <2>1 DEF GoTo, outVars, Capture, Early, SetupPc
  <2>2. CASE /\ GotPacket(Head(rxFrames)) /\ TakeFrame
             /\ GoTo("loop", IF Len(handed') = Count THEN "stop" ELSE "loop")
    <3>1. Len(handed') = Len(handed) + 1
      BY <2>2, TakenFrame, HandedFrame
    <3>2. QED
      BY <2>2, <3>1, CsiutilAssumption DEF GoTo, TypeOK, Capture, Early, SetupPc
  <2>3. QED
    BY <1>16, <2>1, <2>2 DEF ReadPacket
<1>17. CASE ReadError
  BY <1>17 DEF
      ReadError, GoTo, TakeError, handleVars, Capture, Early, SetupPc
<1>18. CASE SendStop
  BY <1>18 DEF
      SendStop, GoTo, socketVars, handleVars, Capture, Early, SetupPc
<1>19. CASE CloseSendSocket
  BY <1>19 DEF
      CloseSendSocket, GoTo, socketVars, handleVars, outVars, Capture,
          Early, SetupPc
<1>20. CASE CloseDump
  BY <1>20 DEF
      CloseDump, Exit, DestroySocket, handleVars, outVars, Capture, Early,
          SetupPc
<1>21. CASE Killed
  BY <1>21 DEF
      Killed, Exit, DestroySocket, handleVars, outVars, Capture, Early,
          SetupPc
<1>22. CASE Kernel
  BY <1>22 DEF Kernel, mainVars, outVars, Capture, Early
<1>23. QED
  BY <1>1, <1>2, <1>3, <1>4, <1>5, <1>6, <1>7, <1>8, <1>9, <1>10, <1>11,
      <1>12, <1>13, <1>14, <1>15, <1>16, <1>17, <1>18, <1>19, <1>20, <1>21,
      <1>22 DEF Next, Process

(* One filter is on. *)
LEMMA FilterStateStep ==
    ASSUME IInv, Next
    PROVE  FilterState'
<1>. USE DEF IInv
<1>1. CASE OpenPacketSocket
  BY <1>1 DEF
      OpenPacketSocket, GoTo, CreateSocket, handleVars, outVars,
          FilterState, Capturing
<1>2. CASE ChooseLinkType
  BY <1>2 DEF
      ChooseLinkType, GoTo, RecreateSocket, socketVars, outVars,
          FilterState, Capturing
<1>3. CASE IfaceBind
  BY <1>3 DEF
      IfaceBind, GoTo, BindToInterface, handleVars, outVars, FilterState,
          Capturing
<1>4. CASE FinishActivation
  BY <1>4 DEF
      FinishActivation, GoTo, socketVars, handleVars, outVars, FilterState,
          Capturing
<1>5. CASE PcapCompile
  BY <1>5 DEF
      PcapCompile, GoTo, socketVars, handleVars, outVars, FilterState,
          Capturing
<1>6. CASE Refused
  BY <1>6 DEF
      Refused, Exit, DestroySocket, handleVars, outVars, FilterState,
          Capturing
<1>7. CASE InstallProgram
  BY <1>7 DEF
      InstallProgram, GoTo, socketVars, outVars, FilterState, Capturing
<1>8. CASE AttachTotalFilter
  BY <1>8 DEF
      AttachTotalFilter, GoTo, AttachFilter, socketVars, outVars,
          FilterState, Capturing
<1>9. CASE DrainOne
  BY <1>9 DEF
      DrainOne, GoTo, TakeFrame, handleVars, outVars, FilterState, Capturing
<1>10. CASE DrainEnds
  BY <1>10 DEF
      DrainEnds, GoTo, Exit, DestroySocket, socketVars, handleVars, outVars,
          FilterState, Capturing
<1>11. CASE AttachProgram
  BY <1>11 DEF
      AttachProgram, GoTo, AttachFilter, outVars, FilterState, Capturing
<1>12. CASE ResetKernelFilter
  BY <1>12 DEF
      ResetKernelFilter, GoTo, AttachFilter, Exit, DestroySocket,
          handleVars, outVars, FilterState, Capturing
<1>13. CASE CreateSendSocket
  BY <1>13 DEF
      CreateSendSocket, GoTo, socketVars, handleVars, outVars, FilterState,
          Capturing
<1>14. CASE SleepDelay
  BY <1>14 DEF
      SleepDelay, GoTo, socketVars, handleVars, outVars, FilterState,
          Capturing
<1>15. CASE DumpOpen
  BY <1>15 DEF
      DumpOpen, GoTo, Exit, DestroySocket, socketVars, handleVars, outVars,
          FilterState, Capturing
<1>16. CASE ReadPacket
  BY <1>16 DEF
      ReadPacket, GoTo, TakeFrame, handleVars, outVars, FilterState,
          Capturing
<1>17. CASE ReadError
  BY <1>17 DEF
      ReadError, GoTo, TakeError, handleVars, FilterState, Capturing
<1>18. CASE SendStop
  BY <1>18 DEF
      SendStop, GoTo, socketVars, handleVars, FilterState, Capturing
<1>19. CASE CloseSendSocket
  BY <1>19 DEF
      CloseSendSocket, GoTo, socketVars, handleVars, outVars, FilterState,
          Capturing
<1>20. CASE CloseDump
  BY <1>20 DEF
      CloseDump, Exit, DestroySocket, handleVars, outVars, FilterState,
          Capturing
<1>21. CASE Killed
  BY <1>21 DEF
      Killed, Exit, DestroySocket, handleVars, outVars, FilterState,
          Capturing
<1>22. CASE Kernel
  BY <1>22 DEF Kernel, FrameArrives, FrameQueued, InterfaceDown, mainVars, handleVars,
      FilterState
<1>23. QED
  BY <1>1, <1>2, <1>3, <1>4, <1>5, <1>6, <1>7, <1>8, <1>9, <1>10, <1>11,
      <1>12, <1>13, <1>14, <1>15, <1>16, <1>17, <1>18, <1>19, <1>20, <1>21,
      <1>22 DEF Next, Process

(* What is on its way has been filtered, or was past the filter already. *)
LEMMA OvertakingStep ==
    ASSUME IInv, Next
    PROVE  Overtaking'
<1>. USE DEF IInv
<1>1. CASE OpenPacketSocket
  BY <1>1 DEF
      OpenPacketSocket, GoTo, CreateSocket, handleVars, outVars, Overtaking,
          Capturing
<1>2. CASE ChooseLinkType
  BY <1>2 DEF
      ChooseLinkType, GoTo, RecreateSocket, socketVars, outVars, Overtaking,
          Capturing
<1>3. CASE IfaceBind
  BY <1>3 DEF
      IfaceBind, GoTo, BindToInterface, handleVars, outVars, Overtaking,
          Capturing
<1>4. CASE FinishActivation
  BY <1>4 DEF
      FinishActivation, GoTo, socketVars, handleVars, outVars, Overtaking,
          Capturing
<1>5. CASE PcapCompile
  BY <1>5 DEF
      PcapCompile, GoTo, socketVars, handleVars, outVars, Overtaking,
          Capturing
<1>6. CASE Refused
  BY <1>6 DEF
      Refused, Exit, DestroySocket, handleVars, outVars, Overtaking,
          Capturing
<1>7. CASE InstallProgram
  BY <1>7 DEF
      InstallProgram, GoTo, socketVars, outVars, Overtaking, Capturing
<1>8. CASE AttachTotalFilter
  <2>1. CASE pc' = "drain"
    BY <1>8, <2>1 DEF AttachTotalFilter, GoTo, AttachFilter, Overtaking, Capturing
  <2>2. CASE pc' = "attach"
    <3>1. filter' = "none"
      BY <1>8, <2>2 DEF AttachTotalFilter, GoTo, FilterState, socketVars
    <3>2. QED
      BY <2>2, <3>1 DEF Overtaking, Capturing
  <2>3. QED
    BY <1>8, <2>1, <2>2 DEF AttachTotalFilter, GoTo
<1>9. CASE DrainOne
  BY <1>9, TakenFrame DEF DrainOne, GoTo, TakeFrame, handleVars, Overtaking, Capturing
<1>10. CASE DrainEnds
  BY <1>10 DEF
      DrainEnds, GoTo, Exit, DestroySocket, socketVars, handleVars, outVars,
          Overtaking, Capturing
<1>11. CASE AttachProgram
  <2>1. CASE pc' = "reset"
    BY <2>1 DEF Overtaking, Capturing
  <2>2. CASE pc' = "sender"
    <3>1. pc = "attach" /\ UNCHANGED <<seen, flight, rxFrames>>
      BY <1>11 DEF AttachProgram, GoTo, AttachFilter
    <3>2. overtook' = IF filter = "total" THEN overtook ELSE OnTheWay
      BY <1>11, <2>2 DEF AttachProgram, GoTo
    <3>3. /\ flight # 0 => flight \in overtook'
          /\ \A i \in DOMAIN rxFrames : rxFrames[i] \in overtook'
      BY <3>1, <3>2 DEF OnTheWay, Overtaking
    <3>4. QED
      BY <2>2, <3>1, <3>3 DEF Overtaking
  <2>3. pc' = "reset" \/ pc' = "sender"
    BY <1>11 DEF AttachProgram, GoTo
  <2>4. QED
    BY <2>1, <2>2, <2>3
<1>12. CASE ResetKernelFilter
  BY <1>12 DEF ResetKernelFilter, GoTo, AttachFilter, Exit, handleVars, FilterState,
      Overtaking, Capturing
<1>13. CASE CreateSendSocket
  BY <1>13 DEF
      CreateSendSocket, GoTo, socketVars, handleVars, outVars, Overtaking,
          Capturing
<1>14. CASE SleepDelay
  BY <1>14 DEF
      SleepDelay, GoTo, socketVars, handleVars, outVars, Overtaking,
          Capturing
<1>15. CASE DumpOpen
  BY <1>15 DEF
      DumpOpen, GoTo, Exit, DestroySocket, socketVars, handleVars, outVars,
          Overtaking, Capturing
<1>16. CASE ReadPacket
  BY <1>16, TakenFrame DEF ReadPacket, GoTo, TakeFrame, handleVars, Overtaking, Capturing
<1>17. CASE ReadError
  BY <1>17 DEF
      ReadError, GoTo, TakeError, handleVars, Overtaking, Capturing
<1>18. CASE SendStop
  BY <1>18 DEF
      SendStop, GoTo, socketVars, handleVars, Overtaking, Capturing
<1>19. CASE CloseSendSocket
  BY <1>19 DEF
      CloseSendSocket, GoTo, socketVars, handleVars, outVars, Overtaking,
          Capturing
<1>20. CASE CloseDump
  BY <1>20 DEF
      CloseDump, Exit, DestroySocket, handleVars, outVars, Overtaking,
          Capturing
<1>21. CASE Killed
  BY <1>21 DEF
      Killed, Exit, DestroySocket, handleVars, outVars, Overtaking,
          Capturing
<1>22. CASE Kernel
  <2>1. UNCHANGED <<pc, userland, overtook>>
    BY <1>22 DEF Kernel, mainVars, handleVars
  <2>2. CASE \E f \in Frames : FrameArrives(f)
    <3>1. PICK f \in Frames : FrameArrives(f)
      BY <2>2
    <3>2. UNCHANGED <<filter, rxFrames>> /\ flight = 0
      BY <3>1 DEF FrameArrives
    <3>3. \A i \in DOMAIN rxFrames : seen'[rxFrames[i]] = seen[rxFrames[i]]
      BY <3>1, ArrivedFrame DEF Bounds
    <3>4. /\ filter = "total" => flight' = 0
          /\ filter = "program" /\ flight' # 0 => seen'[flight'].matches
      BY <3>1, ArrivedFrame DEF FrameArrives, Accepts
    <3>5. pc \in Capturing /\ ~userland => filter = "program"
      BY DEF FilterState, TypeOK, PacketSocketTypeOK
    <3>6. pc = "drain" => filter = "total"
      BY DEF FilterState
    <3>7. QED
      BY <2>1, <3>2, <3>3, <3>4, <3>5, <3>6 DEF Overtaking
  <2>3. CASE FrameQueued
    BY <2>1, <2>3, QueuedFrame DEF FrameQueued, Overtaking
  <2>4. CASE InterfaceDown
    BY <2>1, <2>4 DEF InterfaceDown, Overtaking
  <2>5. QED
    BY <1>22, <2>2, <2>3, <2>4 DEF Kernel
<1>23. QED
  BY <1>1, <1>2, <1>3, <1>4, <1>5, <1>6, <1>7, <1>8, <1>9, <1>10, <1>11,
      <1>12, <1>13, <1>14, <1>15, <1>16, <1>17, <1>18, <1>19, <1>20, <1>21,
      <1>22 DEF Next, Process

(* Only frames of this interface, filtered or past every filter, are handed on. *)
LEMMA HandedOnStep ==
    ASSUME IInv, Next
    PROVE  HandedOn'
<1>. USE DEF IInv
<1>1. CASE OpenPacketSocket
  BY <1>1 DEF
      OpenPacketSocket, GoTo, CreateSocket, handleVars, outVars, HandedOn
<1>2. CASE ChooseLinkType
  BY <1>2 DEF
      ChooseLinkType, GoTo, RecreateSocket, socketVars, outVars, HandedOn
<1>3. CASE IfaceBind
  BY <1>3 DEF
      IfaceBind, GoTo, BindToInterface, handleVars, outVars, HandedOn
<1>4. CASE FinishActivation
  BY <1>4 DEF
      FinishActivation, GoTo, socketVars, handleVars, outVars, HandedOn
<1>5. CASE PcapCompile
  BY <1>5 DEF
      PcapCompile, GoTo, socketVars, handleVars, outVars, HandedOn
<1>6. CASE Refused
  BY <1>6 DEF
      Refused, Exit, DestroySocket, handleVars, outVars, HandedOn
<1>7. CASE InstallProgram
  BY <1>7 DEF
      InstallProgram, GoTo, socketVars, outVars, HandedOn
<1>8. CASE AttachTotalFilter
  <2>1. handed' = << >>
    BY <1>8 DEF AttachTotalFilter, GoTo, outVars, Capture, Early, SetupPc
  <2>2. QED
    BY <2>1 DEF HandedOn
<1>9. CASE DrainOne
  BY <1>9 DEF
      DrainOne, GoTo, TakeFrame, handleVars, outVars, HandedOn
<1>10. CASE DrainEnds
  BY <1>10 DEF
      DrainEnds, GoTo, Exit, DestroySocket, socketVars, handleVars, outVars,
          HandedOn
<1>11. CASE AttachProgram
  <2>1. handed' = << >>
    BY <1>11 DEF AttachProgram, GoTo, outVars, Capture, Early, SetupPc
  <2>2. QED
    BY <2>1 DEF HandedOn
<1>12. CASE ResetKernelFilter
  BY <1>12 DEF
      ResetKernelFilter, GoTo, AttachFilter, Exit, DestroySocket,
          handleVars, outVars, HandedOn
<1>13. CASE CreateSendSocket
  BY <1>13 DEF
      CreateSendSocket, GoTo, socketVars, handleVars, outVars, HandedOn
<1>14. CASE SleepDelay
  BY <1>14 DEF
      SleepDelay, GoTo, socketVars, handleVars, outVars, HandedOn
<1>15. CASE DumpOpen
  BY <1>15 DEF
      DumpOpen, GoTo, Exit, DestroySocket, socketVars, handleVars, outVars,
          HandedOn
<1>16. CASE ReadPacket
  <2>1. UNCHANGED <<seen, overtook>> /\ TakeFrame /\ pc = "loop"
    BY <1>16 DEF ReadPacket, GoTo, TakeFrame, handleVars
  <2>2. CASE UNCHANGED outVars
    BY <2>1, <2>2 DEF outVars, HandedOn
  <2>3. CASE GotPacket(Head(rxFrames)) /\ ~Rejected(Head(rxFrames))
    <3>1. seen[Head(rxFrames)].ours
      BY <2>3 DEF Rejected
    <3>2. seen[Head(rxFrames)].matches \/ Head(rxFrames) \in overtook
      <4>1. CASE userland
        BY <4>1, <2>3 DEF Rejected
      <4>2. CASE ~userland
        BY <4>2, <2>1, TakenFrame DEF Overtaking, Capturing
      <4>3. QED
        BY <4>1, <4>2
    <3>3. QED
      BY <2>1, <2>3, <3>1, <3>2, TakenFrame, HandedFrame DEF HandedOn
  <2>4. QED
    BY <1>16, <2>2, <2>3 DEF ReadPacket
<1>17. CASE ReadError
  BY <1>17 DEF
      ReadError, GoTo, TakeError, handleVars, HandedOn
<1>18. CASE SendStop
  BY <1>18 DEF
      SendStop, GoTo, socketVars, handleVars, HandedOn
<1>19. CASE CloseSendSocket
  BY <1>19 DEF
      CloseSendSocket, GoTo, socketVars, handleVars, outVars, HandedOn
<1>20. CASE CloseDump
  BY <1>20 DEF
      CloseDump, Exit, DestroySocket, handleVars, outVars, HandedOn
<1>21. CASE Killed
  BY <1>21 DEF
      Killed, Exit, DestroySocket, handleVars, outVars, HandedOn
<1>22. CASE Kernel
  <2>1. handed' = handed /\ overtook' = overtook
    BY <1>22 DEF Kernel, handleVars, outVars
  <2>2. \A i \in DOMAIN handed : seen'[handed[i]] = seen[handed[i]]
    BY <1>22, ArrivedFrame DEF Kernel, FrameQueued, InterfaceDown, Bounds
  <2>3. QED
    BY <2>1, <2>2 DEF HandedOn
<1>23. QED
  BY <1>1, <1>2, <1>3, <1>4, <1>5, <1>6, <1>7, <1>8, <1>9, <1>10, <1>11,
      <1>12, <1>13, <1>14, <1>15, <1>16, <1>17, <1>18, <1>19, <1>20, <1>21,
      <1>22 DEF Next, Process

-----------------------------------------------------------------------------
LEMMA IInvInit == Init => IInv
<1>1. /\ << >> \in Seq(Numbers) /\ << >> \in Seq(Frames) /\ << >> \in Seq(WireType)
      /\ << >> \in Seq([k : 1..Count, size : Nat])
  OBVIOUS
<1>2. Init => TypeOK
  BY <1>1 DEF Init, NoSocket, TypeOK, PacketSocketTypeOK, Pc, SetupPc
<1>3. Init => Bounds /\ Capture /\ FilterState /\ Overtaking /\ HandedOn
  BY CsiutilAssumption DEF Init, NoSocket, Bounds, Capture, FilterState, Overtaking,
      HandedOn, Capturing, Early
<1>4. QED
  BY <1>2, <1>3 DEF IInv

LEMMA IInvStep == IInv /\ [Next]_vars => IInv'
<1>1. ASSUME IInv, Next
      PROVE  IInv'
  BY <1>1, TypeStep, BoundsStep, CaptureStep, FilterStateStep, OvertakingStep,
      HandedOnStep DEF IInv
<1>2. ASSUME IInv, UNCHANGED vars
      PROVE  IInv'
  BY <1>2 DEF IInv, TypeOK, PacketSocketTypeOK, Bounds, Capture, FilterState,
      Overtaking, HandedOn, vars, mainVars, handleVars, outVars, socketVars
<1>3. QED
  BY <1>1, <1>2

THEOREM Invariance == Spec => []IInv
<1>1. QED
  BY IInvInit, IInvStep, PTL DEF Spec

(* Every variable keeps its type. *)
THEOREM TypeCorrect == Spec => []TypeOK
<1>1. IInv => TypeOK
  BY DEF IInv
<1>2. QED
  BY <1>1, Invariance, PTL

(* No frame of another interface is handed on. *)
THEOREM KeepsToInterface == Spec => []OnlyThisInterface
<1>1. IInv => OnlyThisInterface
  BY DEF IInv, HandedOn, OnlyThisInterface
<1>2. QED
  BY <1>1, Invariance, PTL

(* What is handed on matches the filter, or no filter could stop it. *)
THEOREM Filters == Spec => []FilteredOrOvertook
<1>1. IInv => FilteredOrOvertook
  BY DEF IInv, HandedOn, FilteredOrOvertook
<1>2. QED
  BY <1>1, Invariance, PTL

(* A process that captures runs its filter, and runs it once. *)
THEOREM NeverDeaf == Spec => []FiltersOnce
<1>1. IInv => FiltersOnce
  BY DEF IInv, FilterState, Capturing, FiltersOnce
<1>2. QED
  BY <1>1, Invariance, PTL

(* While the queue is drained it grows by at most the frame in flight. *)
THEOREM DrainEndsSoon == Spec => DrainReadsOld
<1> DEFINE Grows == pc = "drain" /\ Len(rxFrames') > Len(rxFrames)
                      => rxFrames'[Len(rxFrames')] \in overtook
<1>1. ASSUME IInv, [Next]_vars
      PROVE  [Grows]_vars
  <2>1. CASE pc = "drain" /\ ~UNCHANGED rxFrames
    <3>1. CASE Process \/ Killed
      <4>1. TakeFrame \/ DestroySocket \/ UNCHANGED rxFrames
        BY <3>1, <2>1 DEF Process, Killed, Exit, GoTo, CreateSocket, BindToInterface,
           AttachFilter, TakeError, DrainOne, DrainEnds, OpenPacketSocket,
           ChooseLinkType, IfaceBind, FinishActivation, PcapCompile, Refused,
           InstallProgram, AttachTotalFilter, AttachProgram, ResetKernelFilter,
           CreateSendSocket, SleepDelay, DumpOpen, ReadPacket, ReadError, SendStop,
           CloseSendSocket, CloseDump, socketVars
      <4>2. rxFrames \in Seq(Numbers)
        BY <1>1 DEF IInv, TypeOK, PacketSocketTypeOK
      <4>3. Len(rxFrames') <= Len(rxFrames)
        BY <4>1, <4>2 DEF TakeFrame, DestroySocket
      <4>4. Len(rxFrames') \in Nat /\ Len(rxFrames) \in Nat
        BY <4>1, <4>2 DEF TakeFrame, DestroySocket
      <4>5. QED
        BY <4>3, <4>4
    <3>2. CASE Kernel
      <4>1. FrameQueued
        BY <3>2, <2>1 DEF Kernel, FrameArrives, InterfaceDown
      <4>2. flight \in overtook
        BY <4>1, <2>1, <1>1 DEF IInv, Overtaking, FrameQueued
      <4>3. Len(rxFrames') > Len(rxFrames) => rxFrames'[Len(rxFrames')] = flight
        BY <4>1, <1>1 DEF FrameQueued, IInv, TypeOK, PacketSocketTypeOK
      <4>4. QED
        BY <4>2, <4>3
    <3>3. QED
      BY <3>1, <3>2, <2>1, <1>1 DEF Next, vars, socketVars
  <2>2. CASE pc # "drain" \/ UNCHANGED rxFrames
    BY <2>2, <1>1 DEF IInv, TypeOK, PacketSocketTypeOK
  <2>3. QED
    BY <2>1, <2>2
<1>2. QED
  BY <1>1, Invariance, PTL DEF Spec, DrainReadsOld

-----------------------------------------------------------------------------
(* Every packet that was handed on is sent once, or is too short. *)

SentOnce(k) ==
    IF PacketLen(handed[k]) < Skipped
    THEN \A i \in DOMAIN wire : wire[i].k # k
    ELSE \E i \in DOMAIN wire : \A j \in DOMAIN wire : wire[j].k = k <=> j = i

Sending ==
    /\ \A i \in DOMAIN wire : wire[i].k \in 0..Len(handed)
    /\ HasSendSocket /\ opt.type \in {0, 1, 2} => \A k \in DOMAIN handed : SentOnce(k)

(* The size wraps exactly for a packet that is shorter than what is        *)
(* skipped of it.                                                          *)
LEMMA ShortIsRefused ==
    ASSUME TypeOK, NEW p \in 1..Len(seen)
    PROVE  SizeOf(p) <= MaxDatagram <=> PacketLen(p) >= Skipped
<1>1. seen[p].len \in Nat /\ seen[p].len + 2 <= MaxDatagram
  BY PacketSocketAssumption, MtuAssumption DEF TypeOK, PacketSocketTypeOK
<1>2. PacketLen(p) \in Nat /\ PacketLen(p) <= 65507
  BY <1>1 DEF PacketLen, MaxDatagram
<1>3. Skipped \in {0, 42}
  BY DEF Skipped, NetHeaders
<1>4. QED
  BY <1>2, <1>3 DEF SizeOf, MaxDatagram, SizeModulus

(* A step that hands on and sends nothing. *)
LEMMA QuietSending ==
    ASSUME IInv, Sending, UNCHANGED <<handed, wire, opt>>,
           cooked' = cooked \/ handed = << >>,
           \A p \in 1..Len(seen) : seen'[p] = seen[p]
    PROVE  Sending'
<1>1. \A k \in DOMAIN handed : PacketLen(handed[k])' = PacketLen(handed[k])
  BY DEF PacketLen, IInv, Bounds
<1>2. HasSendSocket' = HasSendSocket /\ Skipped' = Skipped
  BY DEF HasSendSocket, Forwarding, Skipped
<1>3. \A k \in DOMAIN handed : SentOnce(k)' = SentOnce(k)
  BY <1>1, <1>2 DEF SentOnce
<1>4. QED
  BY <1>2, <1>3 DEF Sending

LEMMA GotPacketSending ==
    ASSUME IInv, Sending, TakeFrame, GotPacket(Head(rxFrames)), UNCHANGED <<opt, cooked>>
    PROVE  Sending'
<1> DEFINE p == Head(rxFrames)
           n == Len(handed) + 1
           d == [k |-> n, size |-> SizeOf(p), captured |-> CapturedOf(p)]
<1>0. TypeOK /\ Bounds /\ p \in 1..Len(seen) /\ p \in Numbers
  BY TakenFrame DEF IInv
<1>1. UNCHANGED seen /\ UNCHANGED HasSendSocket /\ UNCHANGED Skipped
  BY DEF TakeFrame, HasSendSocket, Forwarding, Skipped
<1>2. /\ Len(handed') = n /\ handed' \in Seq(Numbers) /\ handed'[n] = p
      /\ \A k \in DOMAIN handed' :
           \/ k = n
           \/ k \in DOMAIN handed /\ handed'[k] = handed[k]
  <2>1. /\ handed' \in Seq(Numbers) /\ Len(handed') = n
        /\ \A k \in DOMAIN handed' : \/ k = n /\ handed'[k] = p
                                     \/ k \in DOMAIN handed /\ handed'[k] = handed[k]
    <3> HIDE DEF p
    <3>1. GotPacket(p)
      BY DEF p
    <3>2. QED
      BY <3>1, <1>0, HandedFrame
  <2>2. n \in DOMAIN handed' /\ n \notin DOMAIN handed
    <3>1. handed \in Seq(Numbers)
      BY <1>0 DEF TypeOK
    <3>2. Len(handed) \in Nat /\ DOMAIN handed = 1..Len(handed)
          /\ DOMAIN handed' = 1..Len(handed')
      BY <2>1, <3>1
    <3>3. QED
      BY <2>1, <3>2
  <2>3. QED
    BY <2>1, <2>2
<1>3. \A q \in Numbers : PacketLen(q)' = PacketLen(q)
  BY <1>1 DEF PacketLen
<1>4. wire \in Seq(WireType) /\ wire' = IF Sendable(p) THEN Append(wire, d) ELSE wire
  BY <1>0 DEF TypeOK, GotPacket
<1>5. Sendable(p) <=> HasSendSocket /\ opt.type \in {0, 1, 2} /\ PacketLen(p) >= Skipped
  BY <1>0, ShortIsRefused DEF Sendable
<1>6. n \in Nat \ {0} /\ d.k = n /\ PacketLen(p) \in Nat /\ Skipped \in Nat
  BY <1>0, SizesAreNat DEF TypeOK, Skipped, NetHeaders
<1>7. \A i \in DOMAIN wire : wire[i].k \in 0..(n - 1)
  BY DEF Sending
<1> HIDE DEF d, n, p
<1>8. /\ \A i \in DOMAIN wire : i \in DOMAIN wire' /\ wire'[i] = wire[i]
      /\ \A i \in DOMAIN wire' :
           \/ i \in DOMAIN wire /\ wire'[i] = wire[i]
           \/ i = Len(wire) + 1 /\ wire'[i].k = n /\ Sendable(p)
      /\ Sendable(p) => Len(wire) + 1 \in DOMAIN wire' /\ wire'[Len(wire) + 1].k = n
      /\ Len(wire) + 1 \notin DOMAIN wire
  BY <1>4, <1>6
<1>9. \A i \in DOMAIN wire' : wire'[i].k \in 0..Len(handed')
  BY <1>2, <1>6, <1>7, <1>8
<1>10. ASSUME HasSendSocket, opt.type \in {0, 1, 2}, NEW k \in DOMAIN handed'
       PROVE  SentOnce(k)'
  <2>1. CASE k = n
    <3>1. CASE PacketLen(p) < Skipped
      BY <3>1, <2>1, <1>0, <1>1, <1>2, <1>3, <1>5, <1>6, <1>7, <1>8 DEF SentOnce
    <3>2. CASE PacketLen(p) >= Skipped
      <4>1. Sendable(p)
        BY <3>2, <1>5, <1>10
      <4>2. \A j \in DOMAIN wire' : wire'[j].k = n <=> j = Len(wire) + 1
        BY <4>1, <1>6, <1>7, <1>8
      <4>3. ~(PacketLen(handed[k])' < Skipped')
        BY <3>2, <2>1, <1>0, <1>1, <1>2, <1>3, <1>6
      <4>4. QED
        BY <2>1, <4>1, <4>2, <4>3, <1>8 DEF SentOnce
    <3>3. QED
      BY <3>1, <3>2, <1>6
  <2>2. CASE k # n
    <3>1. k \in DOMAIN handed /\ handed'[k] = handed[k] /\ handed[k] \in Numbers
      BY <2>2, <1>0, <1>2 DEF TypeOK
    <3>2. SentOnce(k)
      BY <3>1, <1>10 DEF Sending
    <3>3. PacketLen(handed[k])' = PacketLen(handed[k])
      BY <3>1, <1>3
    <3>4. CASE PacketLen(handed[k]) < Skipped
      BY <3>2, <3>3, <3>4, <1>1, <1>8, <2>2 DEF SentOnce
    <3>5. CASE ~(PacketLen(handed[k]) < Skipped)
      <4>1. PICK i \in DOMAIN wire : \A j \in DOMAIN wire : wire[j].k = k <=> j = i
        BY <3>2, <3>5 DEF SentOnce
      <4>2. i \in DOMAIN wire' /\ \A j \in DOMAIN wire' : wire'[j].k = k <=> j = i
        BY <4>1, <1>8, <2>2
      <4>3. QED
        BY <4>2, <3>3, <3>5, <1>1 DEF SentOnce
    <3>6. QED
      BY <3>4, <3>5
  <2>3. QED
    BY <2>1, <2>2
<1>11. QED
  BY <1>1, <1>9, <1>10 DEF Sending

LEMMA SendStopSending ==
    ASSUME IInv, Sending, SendStop
    PROVE  Sending'
<1>1. UNCHANGED <<handed, seen, opt, cooked>>
  BY DEF SendStop, GoTo, socketVars, handleVars
<1>2. wire \in Seq(WireType)
  BY DEF IInv, TypeOK
<1>3. PICK d : d.k = 0 /\ (wire' = wire \/ wire' = Append(wire, d))
  BY DEF SendStop
<1>4. /\ \A i \in DOMAIN wire : i \in DOMAIN wire' /\ wire'[i] = wire[i]
      /\ \A i \in DOMAIN wire' :
           \/ i \in DOMAIN wire /\ wire'[i] = wire[i]
           \/ wire'[i].k = 0
  BY <1>2, <1>3
<1>5. \A k \in DOMAIN handed : k # 0 /\ PacketLen(handed[k])' = PacketLen(handed[k])
  BY <1>1 DEF PacketLen, IInv, TypeOK
<1>6. HasSendSocket' = HasSendSocket /\ Skipped' = Skipped
  BY <1>1 DEF HasSendSocket, Forwarding, Skipped
<1>7. Len(handed) \in Nat
  BY DEF IInv, TypeOK
<1>8. ASSUME NEW k \in DOMAIN handed, SentOnce(k)
      PROVE  SentOnce(k)'
  <2>1. CASE PacketLen(handed[k]) < Skipped
    BY <2>1, <1>8, <1>4, <1>5, <1>6, <1>1 DEF SentOnce
  <2>2. CASE ~(PacketLen(handed[k]) < Skipped)
    <3>1. PICK i \in DOMAIN wire : \A j \in DOMAIN wire : wire[j].k = k <=> j = i
      BY <2>2, <1>8 DEF SentOnce
    <3>2. i \in DOMAIN wire' /\ \A j \in DOMAIN wire' : wire'[j].k = k <=> j = i
      BY <3>1, <1>4, <1>5
    <3>3. QED
      BY <3>2, <2>2, <1>5, <1>6, <1>1 DEF SentOnce
  <2>3. QED
    BY <2>1, <2>2
<1>9. QED
  BY <1>1, <1>4, <1>6, <1>7, <1>8 DEF Sending

LEMMA SendingStep == IInv /\ Sending /\ [Next]_vars => Sending'
<1>1. ASSUME IInv, Sending, Next
      PROVE  Sending'
  <2>1. CASE SendStop
    BY <2>1, <1>1, SendStopSending
  <2>2. CASE ReadPacket
    <3>1. TakeFrame /\ UNCHANGED <<opt, cooked, seen>>
      BY <2>2 DEF ReadPacket, GoTo, TakeFrame, handleVars
    <3>2. GotPacket(Head(rxFrames)) \/ UNCHANGED outVars
      BY <2>2 DEF ReadPacket
    <3>3. QED
      BY <3>1, <3>2, <1>1, GotPacketSending, QuietSending DEF outVars
  <2>3. CASE Kernel
    <3>1. UNCHANGED <<handed, wire, opt, cooked>>
      BY <2>3 DEF Kernel, mainVars, handleVars, outVars
    <3>2. \A p \in 1..Len(seen) : seen'[p] = seen[p]
      BY <2>3, <1>1, ArrivedFrame DEF Kernel, FrameQueued, InterfaceDown, IInv
    <3>3. QED
      BY <3>1, <3>2, <1>1, QuietSending
  <2>4. CASE ChooseLinkType
    <3>1. UNCHANGED <<handed, wire, opt, seen>> /\ handed = << >>
      BY <2>4, <1>1 DEF ChooseLinkType, GoTo, RecreateSocket, socketVars, outVars, IInv,
         Capture, Early, SetupPc
    <3>2. QED
      BY <3>1, <1>1, QuietSending
  <2>5. CASE (Process \/ Killed) /\ ~SendStop /\ ~ReadPacket /\ ~ChooseLinkType
    <3>1. UNCHANGED <<handed, wire, opt, cooked, seen>>
      BY <2>5 DEF Process, Killed, Exit, GoTo, handleVars, outVars, socketVars, CreateSocket,
         BindToInterface, DestroySocket, AttachFilter, TakeError, TakeFrame,
         DrainOne, DrainEnds, OpenPacketSocket, IfaceBind, FinishActivation, PcapCompile,
         Refused, InstallProgram, AttachTotalFilter, AttachProgram, ResetKernelFilter,
         CreateSendSocket, SleepDelay, DumpOpen, ReadError, CloseSendSocket, CloseDump
    <3>2. QED
      BY <3>1, <1>1, QuietSending
  <2>6. QED
    BY <2>1, <2>2, <2>3, <2>4, <2>5, <1>1 DEF Next
<1>2. ASSUME IInv, Sending, UNCHANGED vars
      PROVE  Sending'
  BY <1>2, QuietSending DEF vars, mainVars, handleVars, outVars, socketVars
<1>3. QED
  BY <1>1, <1>2

LEMMA SendingCounts == IInv /\ Sending => SentOnceUnlessShort
<1> SUFFICES ASSUME IInv, Sending, HasSendSocket, opt.type \in {0, 1, 2},
                    NEW k \in DOMAIN handed
             PROVE  Cardinality({i \in DOMAIN wire : wire[i].k = k})
                      = IF PacketLen(handed[k]) < Skipped THEN 0 ELSE 1
  BY DEF SentOnceUnlessShort
<1>1. SentOnce(k)
  BY DEF Sending
<1>2. CASE PacketLen(handed[k]) < Skipped
  <2>1. {i \in DOMAIN wire : wire[i].k = k} = {}
    BY <1>1, <1>2 DEF SentOnce
  <2>2. QED
    BY <2>1, <1>2, FS_EmptySet
<1>3. CASE ~(PacketLen(handed[k]) < Skipped)
  <2>1. PICK i \in DOMAIN wire : \A j \in DOMAIN wire : wire[j].k = k <=> j = i
    BY <1>1, <1>3 DEF SentOnce
  <2>2. {j \in DOMAIN wire : wire[j].k = k} = {i}
    BY <2>1
  <2>3. QED
    BY <2>2, <1>3, FS_Singleton
<1>4. QED
  BY <1>2, <1>3

(* A packet that was handed on has been sent once, unless its size wrapped. *)
THEOREM SendsOnce == Spec => []SentOnceUnlessShort
<1>1. Init => Sending
  BY DEF Init, Sending
<1>2. IInv /\ Sending /\ [Next]_vars => (IInv /\ Sending)'
  BY IInvStep, SendingStep
<1>3. Spec => [](IInv /\ Sending)
  BY <1>1, <1>2, IInvInit, PTL DEF Spec
<1>4. QED
  BY <1>3, SendingCounts, PTL

=============================================================================
