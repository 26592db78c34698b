------------------------------ MODULE Loopback ------------------------------
(***************************************************************************)
(* UDP port 5502 on the loopback interface: csiutil sends captured packets *)
(* to it and the app's fragments receive them from a DatagramSocket.       *)
(* The kernel and java.net are not in the repository: this module models   *)
(* them from how the fragments and csiutil use them.                       *)
(*                                                                         *)
(* A socket is named by the thread whose `new DatagramSocket(5502, ...)`   *)
(* created it; every thread creates at most one.                           *)
(***************************************************************************)
EXTENDS Naturals, Sequences

CONSTANTS
    Threads,      \* the app's background threads; also names their csiutil
    PacketCount,  \* csiutil's -n argument: packets in a complete capture
    QueueMax      \* datagrams a socket's kernel buffer holds

ASSUME LoopbackAssumption ==
    /\ PacketCount \in Nat \ {0}    \* pcap_loop never returns for -n0
    /\ QueueMax \in Nat

VARIABLES
    openSockets,  \* the sockets that are bound to port 5502
    rxQueue       \* rxQueue[s]: the datagrams waiting in socket s

loopbackVars == <<openSockets, rxQueue>>

(* Datagram n of the csiutil launched by thread `src`; n = 0 is the single *)
(* byte 0xc5 that csiutil sends when its capture loop has ended.           *)
Datagram == [src : Threads, n : 0..PacketCount]

StopMsg(u) == [src |-> u, n |-> 0]

IsStop(d) == d.n = 0

LoopbackTypeOK ==
    /\ openSockets \subseteq Threads
    /\ rxQueue \in [Threads -> Seq(Datagram)]

LoopbackInit ==
    /\ openSockets = {}
    /\ rxQueue = [s \in Threads |-> << >>]

-----------------------------------------------------------------------------
(* Binding a second socket to the port throws BindException. *)
PortFree == openSockets = {}

BindSocket(s) ==
    /\ openSockets' = openSockets \cup {s}
    /\ UNCHANGED rxQueue

(* Closing discards what was not received; closing twice is harmless. *)
CloseSocket(s) ==
    /\ openSockets' = openSockets \ {s}
    /\ rxQueue' = [rxQueue EXCEPT ![s] = << >>]

(* A datagram for a port nobody has bound, or for a full buffer, is lost. *)
Deliver(d) ==
    /\ rxQueue' = [s \in Threads |->
                     IF s \in openSockets /\ Len(rxQueue[s]) < QueueMax
                     THEN Append(rxQueue[s], d)
                     ELSE rxQueue[s]]
    /\ UNCHANGED openSockets

(* receive() on socket s takes the oldest datagram, if there is one. *)
TakeDatagram(s) ==
    /\ rxQueue[s] # << >>
    /\ rxQueue' = [rxQueue EXCEPT ![s] = Tail(@)]
    /\ UNCHANGED openSockets
=============================================================================
