----------------------------- MODULE RootShell -----------------------------
(***************************************************************************)
(* The root shell that a BashProcess object talks to, and the csiutil      *)
(* processes it runs in the background.                                    *)
(*                                                                         *)
(* BashProcess.input only puts a command line into the shell's stdin; the  *)
(* shell executes it later.  A csiutil is named by the thread that asked   *)
(* for it.  Its main() is reduced to what the app can observe with the     *)
(* arguments the fragments pass (-m2 -l0 -d1 -n<PacketCount>).             *)
(***************************************************************************)
EXTENDS Loopback

CONSTANTS
    Shells,       \* BashProcess objects
    NONE          \* the null reference

ASSUME NoneAssumption == NONE \notin Threads \cup Shells

VARIABLES
    shell,        \* shell[s]: the state of the process behind s
    stdin,        \* stdin[s]: the commands s has not executed yet
    job1,         \* job1[s]: the running csiutil that `%1` designates in s
    utilPc,       \* utilPc[u]: where csiutil u is
    host,         \* host[u]: the shell that u is a running job of
    localPort,    \* the csiutils that have UDP port 5501 bound
    sent,         \* sent[u]: packets that u's capture loop has handled
    ifaceGone     \* the csiutils whose pcap handle reports ENETDOWN next

shellVars == <<shell, stdin, job1>>
utilVars == <<utilPc, host, localPort, sent, ifaceGone>>
rootVars == <<shellVars, utilVars>>

(* Command lines with an effect on the model: launching csiutil u, killing *)
(* job 1, and taking the interface down and up again.                      *)
LaunchCmd(u) == [op |-> "csiutil", arg |-> u]
KillCmd == [op |-> "kill", arg |-> NONE]
IfconfigCmd == [op |-> "ifconfig", arg |-> NONE]

Command == [op : {"csiutil", "kill", "ifconfig"}, arg : Threads \cup {NONE}]

(* "dead": the process is gone (su refused or killed) but the object does  *)
(* not know; "closed": BashProcess.exit has run.                           *)
ShellState == {"unborn", "up", "dead", "closed"}

UtilState == {"none", "open", "sleep", "loop", "close", "exit"}

RootTypeOK ==
    /\ shell \in [Shells -> ShellState]
    /\ stdin \in [Shells -> Seq(Command)]
    /\ job1 \in [Shells -> Threads \cup {NONE}]
    /\ utilPc \in [Threads -> UtilState]
    /\ host \in [Threads -> Shells \cup {NONE}]
    /\ localPort \subseteq Threads
    /\ sent \in [Threads -> 0..PacketCount]
    /\ ifaceGone \subseteq Threads

RootInit ==
    /\ shell = [s \in Shells |-> "unborn"]
    /\ stdin = [s \in Shells |-> << >>]
    /\ job1 = [s \in Shells |-> NONE]
    /\ utilPc = [u \in Threads |-> "none"]
    /\ host = [u \in Threads |-> NONE]
    /\ localPort = {}
    /\ sent = [u \in Threads |-> 0]
    /\ ifaceGone = {}

-----------------------------------------------------------------------------
(* BashProcess *)

(* The constructor starts the process; s is the new object. *)
OpenShell(s) ==
    /\ shell[s] = "unborn"
    /\ shell' = [shell EXCEPT ![s] = "up"]
    /\ UNCHANGED <<stdin, job1, utilVars>>

(* input: the write succeeds while the process reads its stdin; otherwise  *)
(* it throws IOException and the caller does not use this action.          *)
Input(s, cmd) ==
    /\ shell[s] = "up"
    /\ stdin' = [stdin EXCEPT ![s] = Append(@, cmd)]
    /\ UNCHANGED <<shell, job1, utilVars>>

(* exit: writes "exit", closes both streams and destroys the process.  On  *)
(* a dead or closed shell the first write throws and nothing is done.      *)
ExitShell(s) ==
    /\ shell[s] = "up"
    /\ shell' = [shell EXCEPT ![s] = "closed"]
    /\ UNCHANGED <<stdin, job1, utilVars>>

Usable(s) == s # NONE /\ shell[s] = "up"

-----------------------------------------------------------------------------
(* The shell itself *)

HasLiveJob(s) == \E u \in Threads : host[u] = s

(* A csiutil is over: its port, its memory and its job number are free. *)
UtilEnds(u) ==
    /\ utilPc' = [utilPc EXCEPT ![u] = "exit"]
    /\ localPort' = localPort \ {u}
    /\ sent' = [sent EXCEPT ![u] = 0]
    /\ ifaceGone' = ifaceGone \ {u}
    /\ host' = [host EXCEPT ![u] = NONE]
    /\ job1' = [s \in Shells |-> IF job1[s] = u THEN NONE ELSE job1[s]]

(* `csiutil ... &`: the new job gets the number 1 when the shell has no    *)
(* live job.  Next to live jobs it may get 1 if job 1 itself is over (the  *)
(* lowest free number) or a higher one (one more than the highest).        *)
RunCsiutil(s, u) ==
    /\ utilPc' = [utilPc EXCEPT ![u] = "open"]
    /\ host' = [host EXCEPT ![u] = s]
    /\ \/ job1[s] = NONE /\ job1' = [job1 EXCEPT ![s] = u]
       \/ HasLiveJob(s) /\ UNCHANGED job1
    /\ UNCHANGED <<localPort, sent, ifaceGone>>

(* SIGTERM: csiutil installs no handler, so it ends without stop message.  *)
RunKill(s) ==
    IF job1[s] = NONE THEN UNCHANGED <<job1, utilVars>> ELSE UtilEnds(job1[s])

(* Every handle that is bound to the interface will report ENETDOWN; of    *)
(* the csiutils that are still opening theirs, some are bound already.     *)
RunIfconfig(s) ==
    /\ \E bound \in SUBSET {u \in Threads : utilPc[u] = "open"} :
         ifaceGone' = ifaceGone \cup bound
                        \cup {u \in Threads : utilPc[u] \in {"sleep", "loop", "close"}}
    /\ UNCHANGED <<job1, utilPc, host, localPort, sent>>

(* A shell that was told to exit may still work off what it has read. *)
ExecuteCommand(s) ==
    /\ shell[s] \in {"up", "closed"}
    /\ stdin[s] # << >>
    /\ stdin' = [stdin EXCEPT ![s] = Tail(@)]
    /\ UNCHANGED shell
    /\ LET cmd == Head(stdin[s])
       IN  \/ cmd.op = "csiutil" /\ RunCsiutil(s, cmd.arg)
           \/ cmd.op = "kill" /\ RunKill(s)
           \/ cmd.op = "ifconfig" /\ RunIfconfig(s)

(* p.destroy() reached the shell before it had executed everything. *)
DropCommands(s) ==
    /\ shell[s] = "closed"
    /\ stdin[s] # << >>
    /\ stdin' = [stdin EXCEPT ![s] = << >>]
    /\ UNCHANGED <<shell, job1, utilVars>>

(* su is refused, or the shell is killed. *)
ShellDies(s) ==
    /\ shell[s] = "up"
    /\ shell' = [shell EXCEPT ![s] = "dead"]
    /\ stdin' = [stdin EXCEPT ![s] = << >>]
    /\ UNCHANGED <<job1, utilVars>>

-----------------------------------------------------------------------------
(* csiutil *)

AtUtil(u, from, to) ==
    /\ utilPc[u] = from
    /\ utilPc' = [utilPc EXCEPT ![u] = to]

(* The device, the filter expression or its installation is refused: main  *)
(* returns 2 before it has a socket, so no stop message is ever sent.      *)
PcapFails(u) ==
    /\ utilPc[u] = "open"
    /\ UtilEnds(u)
    /\ UNCHANGED <<loopbackVars, shell, stdin>>

(* create_udp_send_socket(5501): when another csiutil has the port the     *)
(* result is -1, main goes on, and every sendto of this csiutil fails.     *)
CreateUdpSendSocket(u) ==
    /\ AtUtil(u, "open", "sleep")
    /\ localPort' = IF localPort = {} THEN {u} ELSE localPort
    /\ UNCHANGED <<loopbackVars, shellVars, host, sent, ifaceGone>>

SleepDelay(u) ==
    /\ AtUtil(u, "sleep", "loop")
    /\ UNCHANGED <<loopbackVars, shellVars, host, localPort, sent, ifaceGone>>

SendTo(u, d) == IF u \in localPort THEN Deliver(d) ELSE UNCHANGED loopbackVars

(* Mutants of GotPacket: one packet too many; a packet is sent again. *)
GotPacketOneMore(u) ==
    /\ AtUtil(u, "loop", "loop")
    /\ sent[u] <= PacketCount
    /\ sent' = [sent EXCEPT ![u] = @ + 1]
    /\ SendTo(u, [src |-> u, n |-> sent[u] + 1])
    /\ UNCHANGED <<shellVars, host, localPort, ifaceGone>>

GotPacketResends(u) ==
    /\ AtUtil(u, "loop", "loop")
    /\ sent[u] < PacketCount
    /\ sent' = [sent EXCEPT ![u] = @ + 1]
    /\ SendTo(u, [src |-> u, n |-> IF sent[u] = 0 THEN 1 ELSE sent[u]])
    /\ UNCHANGED <<shellVars, host, localPort, ifaceGone>>

(* got_packet, called by pcap_loop for the next captured packet. *)
GotPacket(u) ==
    /\ AtUtil(u, "loop", "loop")
    /\ sent[u] < PacketCount
    /\ sent' = [sent EXCEPT ![u] = @ + 1]
    /\ SendTo(u, [src |-> u, n |-> sent[u] + 1])
    /\ UNCHANGED <<shellVars, host, localPort, ifaceGone>>

(* got_packet for a packet shorter than the headers it skips (-t2): the    *)
(* size wraps, sendto refuses it, and the packet counts all the same.      *)
GotShortPacket(u) ==
    /\ AtUtil(u, "loop", "loop")
    /\ sent[u] < PacketCount
    /\ sent' = [sent EXCEPT ![u] = @ + 1]
    /\ UNCHANGED <<loopbackVars, shellVars, host, localPort, ifaceGone>>

(* Mutants of SendStop: one packet early; the message is not sent. *)
SendStopEarly(u) ==
    /\ AtUtil(u, "loop", "close")
    /\ sent[u] + 1 >= PacketCount \/ u \in ifaceGone
    /\ SendTo(u, StopMsg(u))
    /\ UNCHANGED <<shellVars, host, localPort, sent, ifaceGone>>

SendNoStop(u) ==
    /\ AtUtil(u, "loop", "close")
    /\ sent[u] = PacketCount \/ u \in ifaceGone
    /\ UNCHANGED <<loopbackVars, shellVars, host, localPort, sent, ifaceGone>>

(* pcap_loop returns after -n packets, or when the interface went down;    *)
(* either way the stop message is sent.                                    *)
SendStop(u) ==
    /\ AtUtil(u, "loop", "close")
    /\ sent[u] = PacketCount \/ u \in ifaceGone
    /\ SendTo(u, StopMsg(u))
    /\ UNCHANGED <<shellVars, host, localPort, sent, ifaceGone>>

CloseSendSocket(u) ==
    /\ utilPc[u] = "close"
    /\ UtilEnds(u)
    /\ UNCHANGED <<loopbackVars, shell, stdin>>
=============================================================================
