------------------------------ MODULE Csiutil ------------------------------
(***************************************************************************)
(* csiutil: main() and got_packet() of csiutil.c on top of the part of     *)
(* libpcap they run through: pcap_open_live, pcap_compile, pcap_setfilter, *)
(* pcap_loop and, below them, pcap-linux.c without memory-mapped ring      *)
(* (config.h does not define PCAP_SUPPORT_PACKET_RING).                    *)
(*                                                                         *)
(* The process is sequential; what interleaves with it are the frames, the *)
(* interface and the signal that `kill %1` sends.                          *)
(***************************************************************************)
EXTENDS PacketSocket, FiniteSets

CONSTANTS
    Options,      \* the command lines and circumstances to start with
    Count,        \* -n: packets to capture
    SnapLen,      \* BUFSIZ: the snapshot length
    DetachEmpty   \* what SO_DETACH_FILTER says when no filter is attached

(* mode, type: -m and -t.  file: what becomes of -o (none: not given).     *)
(* link: the interface type; libpcap reads an unknown one in cooked mode.  *)
(* linkField: the filter looks at the link-layer header.  portBusy:        *)
(* another csiutil has port 5501 when this one asks for it.                *)
OptionType ==
    [mode : 0..3, type : 0..3, file : {"none", "written", "refused"},
     link : {"known", "unknown"}, linkField : BOOLEAN, portBusy : BOOLEAN]

ASSUME CsiutilAssumption ==
    /\ Options \subseteq OptionType
    /\ Count \in Nat \ {0}
    /\ SnapLen \in Nat \ {0}
    /\ DetachEmpty \subseteq {"ok", "refused"}

VARIABLES
    pc,           \* where main() is, also inside libpcap
    status,       \* how the process ended
    opt,          \* its member of Options
    cooked,       \* handlep->cooked
    userland,     \* handlep->filter_in_userland
    handed,       \* the frames pcap_loop has handed to got_packet
    result,       \* pcap_loop: "running", its count reached, or an error
    wire,         \* the datagrams sent to port 5502
    saved,        \* the packets written to the file of -o
    overtook      \* the frames no filter of this process could stop (history)

mainVars == <<pc, status, opt>>
handleVars == <<cooked, userland, overtook>>
outVars == <<handed, result, wire, saved>>
vars == <<socketVars, mainVars, handleVars, outVars>>

SetupPc == {"open", "link", "bind", "promisc", "compile", "install", "total",
            "drain", "attach", "reset", "sender"}

Pc == SetupPc \cup {"sleep", "dump", "loop", "stop", "closeSend", "closeDump", "exit"}

(* A datagram: the how-manieth packet it is (0: the stop message), its     *)
(* size, and how many of its bytes the snapshot really holds.              *)
WireType == [k : 0..Count, size : Nat, captured : Nat]

TypeOK ==
    /\ PacketSocketTypeOK
    /\ pc \in Pc
    /\ status \in {"running", "ok", "refused", "noFile", "crashed", "killed"}
    /\ opt \in Options
    /\ cooked \in BOOLEAN
    /\ userland \in BOOLEAN
    /\ handed \in Seq(Numbers)
    /\ result \in {"running", "count", "error"}
    /\ wire \in Seq(WireType)
    /\ saved \in Seq([k : 1..Count, size : Nat])
    /\ overtook \subseteq Numbers

Init ==
    /\ NoSocket
    /\ pc = "open"
    /\ status = "running"
    /\ opt \in Options
    /\ cooked = FALSE
    /\ userland = FALSE
    /\ handed = << >>
    /\ result = "running"
    /\ wire = << >>
    /\ saved = << >>
    /\ overtook = {}

-----------------------------------------------------------------------------
(* Steps *)

GoTo(from, to) ==
    /\ pc = from
    /\ pc' = to
    /\ UNCHANGED <<status, opt>>

(* The process ends; the kernel closes what it has open. *)
Exit(how) ==
    /\ pc' = "exit"
    /\ status' = how
    /\ DestroySocket
    /\ UNCHANGED <<opt, handleVars, outVars>>

-----------------------------------------------------------------------------
(* pcap_open_live *)

(* activate_new: socket(PF_PACKET, SOCK_RAW, ETH_P_ALL).  From here to the *)
(* bind frames of every interface are queued.                              *)
OpenPacketSocket ==
    /\ GoTo("open", "link")
    /\ CreateSocket
    /\ UNCHANGED <<handleVars, outVars>>

(* An interface type without a DLT is reopened with SOCK_DGRAM. *)
ChooseLinkType ==
    /\ GoTo("link", "bind")
    /\ IF opt.link = "unknown"
       THEN RecreateSocket /\ cooked' = TRUE
       ELSE UNCHANGED <<socketVars, cooked>>
    /\ UNCHANGED <<userland, overtook, outVars>>

IfaceBind ==
    /\ GoTo("bind", "promisc")
    /\ BindToInterface
    /\ UNCHANGED <<handleVars, outVars>>

(* Promiscuous mode, auxiliary data, the buffer; activate_mmap declines. *)
FinishActivation ==
    /\ GoTo("promisc", "compile")
    /\ UNCHANGED <<socketVars, handleVars, outVars>>

PcapCompile ==
    /\ GoTo("compile", "install")
    /\ UNCHANGED <<socketVars, handleVars, outVars>>

(* Each of these calls may be refused (no permission, no such device, not  *)
(* up, a syntax error, no memory): main returns 2.                         *)
Refused ==
    /\ pc \in {"open", "link", "bind", "promisc", "compile", "install"}
    /\ Exit("refused")

-----------------------------------------------------------------------------
(* pcap_setfilter *)

(* install_bpf_program, then fix_program: in cooked mode the kernel does   *)
(* not see the header libpcap makes up, so a filter that looks at it can   *)
(* only run in userland.                                                   *)
InstallProgram ==
    /\ GoTo("install", IF cooked /\ opt.linkField THEN "reset" ELSE "total")
    /\ userland' = TRUE
    /\ UNCHANGED <<socketVars, cooked, overtook, outVars>>

(* Mutant of AttachTotalFilter: the queue is drained with no filter on. *)
DrainUnfiltered ==
    /\ \/ /\ GoTo("total", "drain")
          /\ overtook' = {flight} \ {0}
       \/ /\ GoTo("total", "attach")
          /\ UNCHANGED overtook
    /\ UNCHANGED <<socketVars, cooked, userland, outVars>>

(* set_kernel_filter: the total filter keeps further frames out while the  *)
(* queue is drained.  If it cannot be attached the queue is not drained.   *)
AttachTotalFilter ==
    /\ \/ /\ GoTo("total", "drain")
          /\ AttachFilter("total")
          /\ overtook' = {flight} \ {0}
       \/ /\ GoTo("total", "attach")
          /\ UNCHANGED <<socketVars, overtook>>
    /\ UNCHANGED <<cooked, userland, outVars>>

(* Mutant of DrainEnds: one recv() is enough. *)
DrainEndsEarly ==
    \/ /\ GoTo("drain", "attach")
       /\ ~soError
       /\ UNCHANGED <<socketVars, handleVars, outVars>>
    \/ /\ pc = "drain"
       /\ soError
       /\ Exit("refused")

(* recv() until it fails; any error but EAGAIN is fatal. *)
DrainOne ==
    /\ GoTo("drain", "drain")
    /\ TakeFrame
    /\ UNCHANGED <<handleVars, outVars>>

DrainEnds ==
    \/ /\ GoTo("drain", "attach")
       /\ ~soError /\ rxFrames = << >>
       /\ UNCHANGED <<socketVars, handleVars, outVars>>
    \/ /\ pc = "drain"
       /\ soError
       /\ Exit("refused")

(* The frames that are past the filter and not read yet. *)
OnTheWay == ({flight} \ {0}) \cup {rxFrames[i] : i \in DOMAIN rxFrames}

(* Mutant of AttachProgram: the total filter stays on. *)
AttachProgramOrNot ==
    /\ \/ /\ GoTo("attach", "sender")
          /\ AttachFilter("program")
          /\ userland' = FALSE
          /\ overtook' = IF filter = "total" THEN overtook ELSE OnTheWay
       \/ /\ GoTo("attach", "sender")
          /\ filter = "total"
          /\ UNCHANGED <<socketVars, userland, overtook>>
    /\ UNCHANGED <<cooked, outVars>>

(* The kernel takes the program, or refuses it (too long, no memory): then *)
(* the total filter comes off again.                                       *)
AttachProgram ==
    /\ \/ /\ GoTo("attach", "sender")
          /\ AttachFilter("program")
          /\ userland' = FALSE
          /\ overtook' = IF filter = "total" THEN overtook ELSE OnTheWay
       \/ /\ GoTo("attach", "reset")
          /\ AttachFilter("none")
          /\ UNCHANGED <<userland, overtook>>
    /\ UNCHANGED <<cooked, outVars>>

(* pcap_setfilter_linux_common removes whatever filter is still attached   *)
(* before it filters in userland; here none is.                            *)
ResetKernelFilter ==
    \/ /\ GoTo("reset", "sender")
       /\ filter # "none" \/ "ok" \in DetachEmpty
       /\ AttachFilter("none")
       /\ UNCHANGED <<handleVars, outVars>>
    \/ /\ pc = "reset"
       /\ filter = "none" /\ "refused" \in DetachEmpty
       /\ Exit("refused")

-----------------------------------------------------------------------------
(* main before the capture *)

Forwarding == opt.mode \in {2, 3}
Standalone == opt.mode \in {1, 3}

(* create_udp_send_socket(5501) gives -1 when the port is taken, and main  *)
(* goes on: every sendto of this process will fail.                        *)
HasSendSocket == Forwarding /\ ~opt.portBusy

CreateSendSocket ==
    /\ GoTo("sender", "sleep")
    /\ UNCHANGED <<socketVars, handleVars, outVars>>

(* sleep(delay): frames that match pile up in the receive queue. *)
SleepDelay ==
    /\ GoTo("sleep", "dump")
    /\ UNCHANGED <<socketVars, handleVars, outVars>>

(* With -o the file is opened; if that fails main returns at once. *)
DumpOpen ==
    \/ /\ GoTo("dump", "loop")
       /\ opt.file # "refused"
       /\ UNCHANGED <<socketVars, handleVars, outVars>>
    \/ /\ pc = "dump"
       /\ opt.file = "refused"
       /\ Exit("noFile")

-----------------------------------------------------------------------------
(* pcap_loop *)

Least(a, b) == IF a < b THEN a ELSE b

(* packet_len and caplen.  In cooked mode 16 bytes that libpcap makes up   *)
(* replace the 14 bytes of an Ethernet header.                             *)
PacketLen(p) == seen[p].len + IF cooked THEN 2 ELSE 0
CapLen(p) == Least(PacketLen(p), SnapLen)

(* sizeof(struct net_headers), and what got_packet skips of a packet.      *)
NetHeaders == 42
Skipped == IF opt.type = 2 THEN NetHeaders ELSE 0

(* header->len - sizeof(...) is unsigned: below zero it wraps.  2^30 is in *)
(* the place of 2^32, which TLC's integers do not hold; either is longer   *)
(* than the longest datagram.                                              *)
SizeModulus == 1073741824
SizeOf(p) == (PacketLen(p) - Skipped + SizeModulus) % SizeModulus
MaxDatagram == 65507

(* The MTU keeps frames shorter than that. *)
ASSUME MtuAssumption == \A f \in Frames : f.len + 2 <= MaxDatagram

CapturedOf(p) == IF CapLen(p) > Skipped THEN CapLen(p) - Skipped ELSE 0

Sendable(p) == HasSendSocket /\ opt.type \in {0, 1, 2} /\ SizeOf(p) <= MaxDatagram

(* Mutant of GotPacket: `break` is missing after the case of type 1. *)
GotPacketFallsThrough(p) ==
    LET datagram == [k |-> Len(handed) + 1, size |-> SizeOf(p), captured |-> CapturedOf(p)]
    IN  /\ handed' = Append(handed, p)
        /\ saved' = saved
        /\ wire' = IF ~Sendable(p) THEN wire
                   ELSE IF opt.type = 1 THEN wire \o <<datagram, datagram>>
                   ELSE Append(wire, datagram)

(* got_packet: print and dump in standalone mode, send in forwarding mode. *)
GotPacket(p) ==
    /\ handed' = Append(handed, p)
    /\ saved' = IF Standalone /\ opt.type \in {1, 2} /\ opt.file = "written"
                THEN Append(saved, [k |-> Len(handed) + 1, size |-> CapLen(p)])
                ELSE saved
    /\ wire' = IF Sendable(p)
               THEN Append(wire, [k |-> Len(handed) + 1, size |-> SizeOf(p),
                                  captured |-> CapturedOf(p)])
               ELSE wire

(* Mutant of Rejected: the interface of the frame is not looked at. *)
RejectedByFilter(p) == userland /\ ~seen[p].matches

(* pcap_read_packet returns 0 for a frame that was queued before the bind  *)
(* and for one the userland filter rejects: pcap_loop reads on.            *)
Rejected(p) == ~seen[p].ours \/ (userland /\ ~seen[p].matches)

(* Mutant of ReadPacket: `if (cnt < 0) return`. *)
ReadOneMore ==
    LET p == Head(rxFrames)
    IN  /\ TakeFrame
        /\ IF Rejected(p)
           THEN GoTo("loop", "loop") /\ UNCHANGED outVars
           ELSE /\ GotPacket(p)
                /\ GoTo("loop", IF Len(handed') > Count THEN "stop" ELSE "loop")
                /\ result' = IF Len(handed') > Count THEN "count" ELSE result
        /\ UNCHANGED handleVars

ReadPacket ==
    LET p == Head(rxFrames)
    IN  /\ TakeFrame
        /\ IF Rejected(p)
           THEN GoTo("loop", "loop") /\ UNCHANGED outVars
           ELSE /\ GotPacket(p)
                /\ GoTo("loop", IF Len(handed') = Count THEN "stop" ELSE "loop")
                /\ result' = IF Len(handed') = Count THEN "count" ELSE result
        /\ UNCHANGED handleVars

(* ENETDOWN: pcap_loop returns PCAP_ERROR, which main does not look at. *)
ReadError ==
    /\ GoTo("loop", "stop")
    /\ TakeError
    /\ result' = "error"
    /\ UNCHANGED <<handleVars, handed, wire, saved>>

-----------------------------------------------------------------------------
(* main after the capture *)

(* Mutant of SendStop: no message after an error. *)
SendStopAfterCount ==
    /\ GoTo("stop", "closeSend")
    /\ wire' = IF HasSendSocket /\ result = "count"
               THEN Append(wire, [k |-> 0, size |-> 1, captured |-> 1]) ELSE wire
    /\ UNCHANGED <<socketVars, handleVars, handed, result, saved>>

SendStop ==
    /\ GoTo("stop", "closeSend")
    /\ wire' = IF HasSendSocket THEN Append(wire, [k |-> 0, size |-> 1, captured |-> 1])
               ELSE wire
    /\ UNCHANGED <<socketVars, handleVars, handed, result, saved>>

CloseSendSocket ==
    /\ GoTo("closeSend", "closeDump")
    /\ UNCHANGED <<socketVars, handleVars, outVars>>

(* pcap_dump_close(output_file) is called without -o as well, and hands a  *)
(* null pointer to fclose, which may do anything.                          *)
CloseDump ==
    /\ pc = "closeDump"
    /\ \/ Exit("ok")
       \/ opt.file = "none" /\ Exit("crashed")

(* SIGTERM of `kill %1`: csiutil installs no handler. *)
Killed ==
    /\ pc # "exit"
    /\ Exit("killed")

-----------------------------------------------------------------------------
Process ==
    \/ OpenPacketSocket \/ ChooseLinkType \/ IfaceBind \/ FinishActivation
    \/ PcapCompile \/ Refused
    \/ InstallProgram \/ AttachTotalFilter \/ DrainOne \/ DrainEnds
    \/ AttachProgram \/ ResetKernelFilter
    \/ CreateSendSocket \/ SleepDelay \/ DumpOpen
    \/ ReadPacket \/ ReadError
    \/ SendStop \/ CloseSendSocket \/ CloseDump

Kernel ==
    /\ (\E f \in Frames : FrameArrives(f)) \/ FrameQueued \/ InterfaceDown
    /\ UNCHANGED <<mainVars, handleVars, outVars>>

Next == Process \/ Killed \/ Kernel

Spec == Init /\ [][Next]_vars

-----------------------------------------------------------------------------
(* Properties *)

(* Between socket() and bind() frames of every interface are queued, and   *)
(* only some paths of pcap_setfilter drain them: none is ever handed to    *)
(* got_packet (pcap-linux.c:1671-1685).                                    *)
OnlyThisInterface == \A i \in DOMAIN handed : seen[handed[i]].ours

(* A packet that does not match the filter is handed on only if it was in  *)
(* flight, past the old filter, when the total filter was attached - or    *)
(* queued, when the total filter could not be attached and the drain was   *)
(* skipped (pcap-linux.c:6470-6500).  No other interleaving of arrivals,   *)
(* drain and attachment lets one through.                                  *)
FilteredOrOvertook ==
    \A i \in DOMAIN handed : seen[handed[i]].matches \/ handed[i] \in overtook

(* The drain ends however fast frames arrive: all that is still queued     *)
(* while it runs is the frame that was in flight when the total filter was *)
(* attached (pcap-linux.c:6493-6497).                                      *)
DrainReadsOld ==
    [][pc = "drain" /\ Len(rxFrames') > Len(rxFrames)
         => rxFrames'[Len(rxFrames')] \in overtook]_vars

(* Whatever fails in pcap_setfilter, a process that captures is not deaf:  *)
(* the total filter is off, and the filter is run exactly once, in the     *)
(* kernel or in userland (pcap-linux.c:2438, 2522-2561, 6556-6584).        *)
FiltersOnce ==
    pc = "loop" => /\ filter # "total"
                   /\ userland <=> filter = "none"

(* Every packet that was handed on has been sent exactly once, but for     *)
(* those the size arithmetic wraps for (csiutil.c:204): they took one of   *)
(* the -n places for nothing.                                              *)
SentOnceUnlessShort ==
    HasSendSocket /\ opt.type \in {0, 1, 2} =>
        \A k \in DOMAIN handed :
            Cardinality({i \in DOMAIN wire : wire[i].k = k})
                = IF PacketLen(handed[k]) < Skipped THEN 0 ELSE 1

(* Every byte of a datagram is a byte of the packet: got_packet sends      *)
(* header->len bytes, of which only header->caplen are "present"           *)
(* (pcap/pcap.h:162).                                                      *)
SentWasCaptured == \A i \in DOMAIN wire : wire[i].size <= wire[i].captured
=============================================================================
