--------------------------- MODULE CsiutilReduced ---------------------------
(***************************************************************************)
(* RootShell's csiutil - a handful of steps the app can observe - is what  *)
(* the csiutil of module Csiutil amounts to.                               *)
(*                                                                         *)
(* The csiutil is job 1 of its shell.  The app's socket takes everything;  *)
(* it is named App, which is also another csiutil that may have port 5501. *)
(***************************************************************************)
EXTENDS Csiutil

CONSTANTS Me, App, Sh, NoOne

ASSUME NamesAssumption == Me # App /\ NoOne \notin {Me, App, Sh}

(* Where RootShell sees the process. *)
UtilPc ==
    CASE pc \in SetupPc -> "open"
      [] pc \in {"sleep", "dump"} -> "sleep"
      [] pc \in {"loop", "stop"} -> "loop"
      [] pc \in {"closeSend", "closeDump"} -> "close"
      [] pc = "exit" -> "exit"

Over == pc = "exit"

Names == {Me, App}

(* The datagrams as the app's socket holds them. *)
Received == [i \in DOMAIN wire |-> [src |-> Me, n |-> wire[i].k]]
RxQueueOf == [t \in Names |-> IF t = App THEN Received ELSE << >>]

Job1Of == [s \in {Sh} |-> IF Over THEN NoOne ELSE Me]
UtilPcOf == [t \in Names |-> IF t = Me THEN UtilPc ELSE "none"]
HostOf == [t \in Names |-> IF t = Me /\ ~Over THEN Sh ELSE NoOne]
SentOf == [t \in Names |-> IF t = Me /\ ~Over THEN Len(handed) ELSE 0]
IfaceGoneOf == IF ~Over /\ (soError \/ result = "error") THEN {Me} ELSE {}

(* Port 5501 is App's, free, or once csiutil has its socket Me's. *)
LocalPortOf == IF ~HasSendSocket THEN {App}
               ELSE IF UtilPc \in {"open", "exit"} THEN {} ELSE {Me}

Util == INSTANCE RootShell WITH
    Threads <- Names,
    PacketCount <- Count,
    QueueMax <- Count + 1,
    Shells <- {Sh},
    NONE <- NoOne,
    openSockets <- {App},
    rxQueue <- RxQueueOf,
    shell <- [s \in {Sh} |-> "up"],
    stdin <- [s \in {Sh} |-> << >>],
    job1 <- Job1Of,
    utilPc <- UtilPcOf,
    host <- HostOf,
    localPort <- LocalPortOf,
    sent <- SentOf,
    ifaceGone <- IfaceGoneOf

UtilVars == <<Util!loopbackVars, Util!rootVars>>

(* What RootShell lets a csiutil, the signal and the interface do.  Of the *)
(* two csiutils only Me is started.                                        *)
UtilNext ==
    \/ Util!PcapFails(Me) \/ Util!CreateUdpSendSocket(Me) \/ Util!SleepDelay(Me)
    \/ Util!GotPacket(Me) \/ Util!GotShortPacket(Me)
    \/ Util!SendStop(Me) \/ Util!CloseSendSocket(Me)
    \/ /\ Util!RunKill(Sh) \/ Util!RunIfconfig(Sh)
       /\ UNCHANGED Util!loopbackVars

(* Every step of the real csiutil is a step, or none, of RootShell's: with *)
(* the options the app passes the model of the app loses nothing.  (The    *)
(* app never passes -o, whose failure ends main between sleep and loop.)   *)
Implements == [][opt.file # "refused" => UtilNext]_UtilVars
=============================================================================
