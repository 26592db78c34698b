---------------------------- MODULE PacketSocket ----------------------------
(***************************************************************************)
(* One PF_PACKET socket of the Linux kernel, as libpcap's pcap-linux.c     *)
(* uses it: the frames that pass its binding and its filter are queued     *)
(* until they are read.  The kernel is not in the repository; this module  *)
(* models what the code relies on and what its comments say of it.         *)
(*                                                                         *)
(* Frames are numbered in the order in which they reach the socket.  A     *)
(* frame is filtered first and queued later: between the two it is `in     *)
(* flight`, and a change of the filter does not call it back.              *)
(***************************************************************************)
EXTENDS Naturals, Sequences

CONSTANTS
    Frames,       \* the frames of the air: records with fields ours, matches, len
    MaxFrames,    \* bound: frames that reach the socket
    RcvMax        \* frames the receive queue holds

ASSUME PacketSocketAssumption ==
    /\ MaxFrames \in Nat
    /\ RcvMax \in Nat \ {0}
    /\ Frames \subseteq [ours : BOOLEAN, matches : BOOLEAN, len : Nat]

VARIABLES
    fd,           \* "none", "everywhere" (created) or "bound" (to the interface)
    filter,       \* the attached filter: "none", "total" or "program"
    seen,         \* the frames that passed the binding, in order
    flight,       \* the number of the frame in flight, 0 for none
    rxFrames,     \* the numbers of the queued frames
    soError       \* the interface went down and nobody has been told

socketVars == <<fd, filter, seen, flight, rxFrames, soError>>

Numbers == 1..MaxFrames

PacketSocketTypeOK ==
    /\ fd \in {"none", "everywhere", "bound"}
    /\ filter \in {"none", "total", "program"}
    /\ seen \in Seq(Frames)
    /\ flight \in Numbers \cup {0}
    /\ rxFrames \in Seq(Numbers)
    /\ soError \in BOOLEAN

NoSocket ==
    /\ fd = "none"
    /\ filter = "none"
    /\ seen = << >>
    /\ flight = 0
    /\ rxFrames = << >>
    /\ soError = FALSE

-----------------------------------------------------------------------------
(* What the kernel does on its own *)

Accepts(f) ==
    CASE filter = "none" -> TRUE
      [] filter = "total" -> FALSE
      [] OTHER -> f.matches

(* A frame of the interface, or of any interface before the socket is      *)
(* bound, is run through the filter.                                       *)
FrameArrives(f) ==
    /\ fd # "none"
    /\ f.ours \/ fd = "everywhere"
    /\ flight = 0
    /\ Len(seen) < MaxFrames
    /\ seen' = Append(seen, f)
    /\ flight' = IF Accepts(f) THEN Len(seen') ELSE 0
    /\ UNCHANGED <<fd, filter, rxFrames, soError>>

(* The accepted frame is queued, or dropped when the queue is full. *)
FrameQueued ==
    /\ flight # 0
    /\ flight' = 0
    /\ rxFrames' = IF Len(rxFrames) < RcvMax THEN Append(rxFrames, flight) ELSE rxFrames
    /\ UNCHANGED <<fd, filter, seen, soError>>

InterfaceDown ==
    /\ fd = "bound"
    /\ ~soError
    /\ soError' = TRUE
    /\ UNCHANGED <<fd, filter, seen, flight, rxFrames>>

-----------------------------------------------------------------------------
(* System calls *)

CreateSocket ==
    /\ fd' = "everywhere"
    /\ UNCHANGED <<filter, seen, flight, rxFrames, soError>>

(* close() and socket() again: what was queued or in flight is gone. *)
RecreateSocket ==
    /\ fd' = "everywhere"
    /\ flight' = 0
    /\ rxFrames' = << >>
    /\ UNCHANGED <<filter, seen, soError>>

(* bind() waits until no frame is in flight (synchronize_net); what was    *)
(* queued stays queued.                                                    *)
BindToInterface ==
    /\ flight = 0
    /\ fd' = "bound"
    /\ UNCHANGED <<filter, seen, flight, rxFrames, soError>>

DestroySocket ==
    /\ fd' = "none"
    /\ filter' = "none"
    /\ flight' = 0
    /\ rxFrames' = << >>
    /\ soError' = FALSE
    /\ UNCHANGED seen

AttachFilter(f) ==
    /\ filter' = f
    /\ UNCHANGED <<fd, seen, flight, rxFrames, soError>>

(* recv() that finds a pending error reports it before any frame. *)
TakeError ==
    /\ soError
    /\ soError' = FALSE
    /\ UNCHANGED <<fd, filter, seen, flight, rxFrames>>

TakeFrame ==
    /\ ~soError
    /\ rxFrames # << >>
    /\ rxFrames' = Tail(rxFrames)
    /\ UNCHANGED <<fd, filter, seen, flight, soError>>
=============================================================================
