--------------------------- MODULE PatientProofs ---------------------------
(***************************************************************************)
(* What the two monitoring screens keep for a user who does not click      *)
(* again before the effect of the last click, for any number of threads,   *)
(* instances, shells and packets.  Each theorem names the other liberties  *)
(* it has to exclude; whatever it does not name may happen.                *)
(***************************************************************************)
EXTENDS RecordingProofs

(* What the theorems assume of the user and the environment.               *)
Patient == "impatient" \notin Env

Stays == "leaves" \notin Env

Timely == "untimely" \notin Env

Rooted == "noSu" \notin Env

(* csiutil may fail, and the user may restart the interface and edit the   *)
(* number fields at any time.                                              *)
Orderly == Env \subseteq {"menu", "noPcap", "numbers"}

(* The same, but nobody restarts the interface.                            *)
Steady == Env \subseteq {"noPcap", "numbers"}

(* A socket's buffer holds all packets of a capture. *)
Roomy == PacketCount <= QueueMax

-----------------------------------------------------------------------------
(* Places in a session: until its socket is in the field, between opening  *)
(* the file and a stop, and where a thread's socket may be in the field.   *)

PreField == {"post", "launch", "jobs", "testNull", "testClosed", "bind", "assign"}

RecordPc == {"loop", "receive", "write"}

SessionPc == PreField \cup {"closeOld", "openNew"} \cup RecordPc

Owner == {"closeOld", "openNew"} \cup RecordPc \cup CleanupPc

(* Places in the cleanup behind the test for null. *)
Behind == {"checkClosed", "close", "setNull"}

Over == {"unborn", "done"}

-----------------------------------------------------------------------------
(* Whose socket is in the field *)

(* Of one screen at most one thread is a session. *)
OneSession ==
    \A t \in Threads, u \in Threads :
        inst[t] = inst[u] /\ pc[t] \in SessionPc /\ pc[u] \in SessionPc => t = u

(* The field holds a socket of a thread of that screen that is not done. *)
FieldOwned ==
    \A i \in Instances :
        socket[i] # NONE => inst[socket[i]] = i /\ pc[socket[i]] \in Owner

(* A session that has not stored its socket finds the field empty ... *)
NotYet == \A t \in Threads : pc[t] \in PreField => socket[inst[t]] = NONE

(* ... and nobody in the middle of a cleanup to empty it again. *)
NoneBehind ==
    \A a \in Agents, t \in Threads :
        pc[a] \in Behind /\ inst[t] = inst[a] => pc[t] \notin PreField

(* Null is assigned only to a field whose socket is closed. *)
Shut == \A a \in Agents : pc[a] = "setNull" => socket[inst[a]] \notin openSockets

(* An open socket is in the field of its thread, or about to be. *)
SocketOwned ==
    \A s \in openSockets : pc[s] = "assign" \/ (inst[s] \in Instances /\ socket[inst[s]] = s)

Sockets == OneSession /\ FieldOwned /\ NotYet /\ NoneBehind /\ Shut /\ SocketOwned

-----------------------------------------------------------------------------
(* Whose writer is open *)

(* Every thread at work belongs to the screen that is shown. *)
OneView == \A t \in Threads : pc[t] \notin Over => inst[t] = view

HasWriter == RecordPc \cup CleanupPc \cup {"closeFile"}

(* An open writer is in the field, and its thread has yet to close it. *)
WriterOwned ==
    \A w \in openWriters :
        inst[w] \in Instances /\ bw[inst[w]] = w /\ pc[w] \in HasWriter

BeforeWriter == PreField \cup {"closeOld", "openNew"}

(* While a session has not opened its file, no file is open. *)
NoWriterYet == \A t \in Threads : pc[t] \in BeforeWriter => openWriters = {}

Writers == OneView /\ WriterOwned /\ NoWriterYet

-----------------------------------------------------------------------------
(* What the button says *)

StartPc == {"post", "launch"}

WorkPc == SessionPc \ StartPc

OpeningPc == SessionPc \ ({"post"} \cup RecordPc)

EndPc == CleanupPc \cup {"closeFile", "postIdle"}

(* A session that has not written its command line is the only thread.     *)
Alone ==
    \A t \in Threads, u \in Threads :
        pc[t] \in StartPc /\ pc[u] \notin Over => t = u

(* While a thread is at work there is a BashProcess ... *)
HasShell == \A t \in Threads : pc[t] \notin Over => bp[view] # NONE

(* ... and its shell runs for those who write to it or wait for it. *)
ShellUp == \A t \in Threads : pc[t] \in WorkPc \cup {"killOut"} => Usable(bp[view])

(* Nobody cleans up while a session is on its way to its socket. *)
NoOpener ==
    \A t \in Threads, u \in Threads :
        pc[u] \in EndPc => pc[t] \notin OpeningPc \cup {"post"}

(* A session that has posted shows capturing until it receives. *)
Posted == \A t \in Threads : pc[t] \in OpeningPc => Shown(view) = "capturing"

(* Who posts idle next to a session has closed that session's socket. *)
Silenced ==
    \A t \in Threads, u \in Threads :
        pc[u] \in {"closeFile", "postIdle"} /\ pc[t] \in RecordPc
            => socket[view] \notin openSockets

(* A session that can still receive has the button say stop. *)
StoppedIfIdle ==
    \A t \in Threads :
        pc[t] \in RecordPc /\ socket[view] \in openSockets => Shown(view) = "capturing"

Idle == Alone /\ HasShell /\ ShellUp /\ NoOpener /\ Posted /\ Silenced /\ StoppedIfIdle

-----------------------------------------------------------------------------
(* One csiutil at a time, that of the session *)

Live == {"open", "sleep", "loop"}

Running == Live \cup {"close"}

KillAt(s, k) == stdin[s][k] = KillCmd

(* The shell has no commands but those of the model. *)
Known ==
    \A s \in Shells : \A k \in 1..Len(stdin[s]) :
        KillAt(s, k) \/ stdin[s][k] = IfconfigCmd \/ \E u \in Threads : Commanded(s, k, u)

(* A command line not yet read is that of the session that waits for it. *)
Waiting ==
    \A s \in Shells, u \in Threads : \A k \in 1..Len(stdin[s]) :
        Commanded(s, k, u) => pc[u] = "jobs" /\ s = bp[view]

(* A kill not yet read has a stop thread that sleeps on it. *)
KillSent ==
    \A s \in Shells : \A k \in 1..Len(stdin[s]) :
        KillAt(s, k) => s = bp[view] /\ \E v \in Threads : pc[v] = "killOut"

(* A kill comes after the command line it is meant for. *)
LaunchFirst ==
    \A s \in Shells, u \in Threads : \A j \in 1..Len(stdin[s]), k \in 1..Len(stdin[s]) :
        Commanded(s, j, u) /\ KillAt(s, k) => j < k

(* While a stop thread sleeps, a csiutil that lives has its kill coming. *)
KillComes ==
    \A v \in Threads, u \in Threads :
        /\ pc[v] = "killOut"
        /\ utilPc[u] \in Live \/ \E k \in 1..Len(stdin[bp[view]]) : Commanded(bp[view], k, u)
        => \E k \in 1..Len(stdin[bp[view]]) : KillAt(bp[view], k)

(* Two csiutils never run at once. *)
OneRuns ==
    \A u \in Threads, v \in Threads : utilPc[u] \in Running /\ utilPc[v] \in Running => u = v

(* What holds port 5501, and what a shell calls job 1, runs. *)
JobRuns ==
    /\ \A u \in Threads : host[u] # NONE => utilPc[u] \in Running
    /\ \A s \in Shells : job1[s] # NONE => utilPc[job1[s]] \in Running

(* A csiutil that lives is job 1 of the shell in the field, its session is *)
(* at work, and the only other threads are stops.                          *)
LiveWorks ==
    \A u \in Threads : utilPc[u] \in Live =>
        /\ pc[u] \in WorkPc
        /\ job1[bp[view]] = u
        /\ \A v \in Threads : v # u => pc[v] \in Over \cup {"kill", "killOut"}

Commands ==
    /\ Known /\ Waiting /\ KillSent /\ LaunchFirst /\ KillComes
    /\ OneRuns /\ JobRuns /\ LiveWorks

-----------------------------------------------------------------------------
(* Nobody but a stop disturbs a session *)

(* The main thread cleans up only when no screen is shown. *)
MainLeaves == pc[Main] # "looper" => view = NONE

(* Who writes a kill is a stop thread. *)
KillersStop == \A v \in Threads : pc[v] \in {"kill", "killOut"} => Stopper(v)

(* Beside a session only stop threads are at work. *)
OnlyStoppers ==
    \A u \in Threads, v \in Threads :
        pc[u] \in SessionPc /\ v # u /\ pc[v] \notin Over => Stopper(v)

(* The user has not pressed stop, or the csiutil is still there. *)
Calm(u) == utilPc[u] \in Live \/ \A v \in Threads : ~Stopper(v)

(* A session works on its own socket and its own file, or finds them gone. *)
OwnField ==
    \A u \in Threads :
        /\ pc[u] \notin {"testClosed", "looper"}
        /\ pc[u] = "assign" => u \in openSockets
        /\ pc[u] \in SessionPc \ PreField => socket[view] \in {NONE, u}
        /\ pc[u] \in RecordPc => bw[view] = u
        /\ pc[u] = "receive" => ref[u] = u

(* A calm session has both, open. *)
Undisturbed ==
    \A u \in Threads : Calm(u) =>
        /\ pc[u] \in SessionPc \ PreField => socket[view] = u /\ u \in openSockets
        /\ pc[u] \in RecordPc => u \in openWriters

Sessions == MainLeaves /\ KillersStop /\ OnlyStoppers /\ OwnField /\ Undisturbed

(* What a session in its receive loop works on is there. *)
Equipped(t) ==
    pc[t] \in RecordPc => socket[view] = t /\ t \in openSockets /\ t \in openWriters

-----------------------------------------------------------------------------
(* Where the packets of a csiutil are *)

(* A csiutil has bound port 5501 from its sleep to its close. *)
HasPort == \A u \in Threads : u \in localPort <=> utilPc[u] \in {"sleep", "loop", "close"}

(* The packets a session has received. *)
Got(u) == Len(file[u]) + IF Writes(u) THEN 1 ELSE 0

(* A socket's buffer has datagrams of its own session's csiutil only. *)
OwnQueue == \A s \in Threads : \A k \in 1..Len(rxQueue[s]) : rxQueue[s][k].src = s

(* When csiutil sends, its session is there to receive. *)
LoopRecords == \A u \in Threads : utilPc[u] = "loop" => pc[u] \in RecordPc

(* Nothing is received or sent before both are ready. *)
NothingYet ==
    \A u \in Threads :
        /\ pc[u] \in BeforeWriter \cup {"unborn"} => rxQueue[u] = << >> /\ file[u] = << >>
        /\ utilPc[u] \in {"none", "open", "sleep"} => sent[u] = 0

(* The buffer goes on where the session has got to; only the stop message, *)
(* at its end, has no number.                                              *)
Consecutive ==
    \A u \in Threads : pc[u] \in RecordPc =>
        \A k \in 1..Len(rxQueue[u]) :
            \/ rxQueue[u][k].n = Got(u) + k
            \/ rxQueue[u][k].n = 0 /\ k = Len(rxQueue[u])

(* The packet in a session's hands is the next line of its file. *)
InHand == \A u \in Threads : Writes(u) => packet[u] = [src |-> u, n |-> Len(file[u]) + 1]

(* What a csiutil has sent is received or in the buffer. *)
NoneLost == \A u \in Threads : utilPc[u] = "loop" => Got(u) + Len(rxQueue[u]) = sent[u]

(* The stop message is in the buffer only when its csiutil sends no more. *)
StopSaid ==
    \A s \in Threads : \A k \in 1..Len(rxQueue[s]) :
        rxQueue[s][k].n = 0 => utilPc[s] \in {"close", "exit"}

(* Line k of a file is packet k of the session's own csiutil. *)
Prefixes ==
    \A w \in Threads : \A k \in 1..Len(file[w]) :
        file[w][k] = [by |-> w, packet |-> [src |-> w, n |-> k]]

Data ==
    /\ HasPort /\ OwnQueue /\ LoopRecords /\ NothingYet /\ Consecutive
    /\ InHand /\ NoneLost /\ StopSaid /\ Prefixes

-----------------------------------------------------------------------------
(* Whose capture is complete *)

(* No interface has gone, and none will. *)
NoRestart ==
    /\ ifaceGone = {}
    /\ \A s \in Shells : \A k \in 1..Len(stdin[s]) : stdin[s][k] # IfconfigCmd

(* The stop message comes after the last packet. *)
StopCounts ==
    \A u \in Threads : pc[u] \in RecordPc =>
        \A k \in 1..Len(rxQueue[u]) : rxQueue[u][k].n = 0 => Got(u) + k = PacketCount + 1

(* If no stop was pressed, a session that has ended has them all. *)
Finished ==
    \A t \in Threads :
        /\ \A v \in Threads : ~Stopper(v)
        /\ utilPc[t] # "none"
        /\ pc[t] \in EndPc \cup {"done"}
        => Len(file[t]) = PacketCount

Complete == NoRestart /\ StopCounts /\ Finished

-----------------------------------------------------------------------------
(* What a stop does to a file *)

(* A session that has launched its csiutil is no stop. *)
Launched ==
    \A t \in Threads : pc[t] \in SessionPc \ Early \/ t \in openWriters => ~Stopper(t)

StopGoesOn == \E v \in Threads : Stopper(v) /\ pc[v] # "done"

(* While a file is open, nobody but stops is at work beside its session ... *)
Escorted ==
    \A w \in openWriters, v \in Threads : v # w /\ pc[v] \notin Over => Stopper(v)

(* ... and the shell in the field runs. *)
ShellStays == openWriters # {} => Usable(bp[view])

(* A session that no stop is about to end has its socket, ... *)
Keeps ==
    \A w \in Threads :
        /\ pc[w] \in {"closeOld", "openNew"} \/ (w \in openWriters /\ pc[w] \in RecordPc)
        /\ ~StopGoesOn
        => socket[view] = w /\ w \in openSockets

(* ... and has its file complete when it comes to close it. *)
ClosesWhole ==
    \A w \in openWriters :
        pc[w] \in CleanupPc \cup {"closeFile"} /\ ~StopGoesOn => Len(file[w]) = PacketCount

(* Who is about to post idle leaves no file open. *)
ClosedFirst == \A v \in Threads : pc[v] = "postIdle" => openWriters = {}

Stops == Launched /\ Escorted /\ ShellStays /\ Keeps /\ ClosesWhole /\ ClosedFirst

-----------------------------------------------------------------------------
(* Steps in general *)

LEMMA Places ==
    ASSUME TypeInv
    PROVE  /\ Threads \subseteq Agents /\ Main \in Agents /\ Main \notin Threads
           /\ NONE \notin Threads /\ NONE \notin Instances
           /\ pc \in [Agents -> ThreadPc \cup {"looper"}]
           /\ inst \in [Agents -> Instances \cup {NONE}]
           /\ openSockets \subseteq Threads
           /\ socket \in [Instances -> Threads \cup {NONE}]
           /\ \A t \in Threads : pc[t] # "unborn" => inst[t] \in Instances
           /\ pc[Main] # "looper" => inst[Main] \in Instances
BY FragmentAssumption, NoneAssumption
DEF Agents, TypeInv, TypeOK, LoopbackTypeOK, FragmentTypeOK, Located

LEMMA Moves ==
    ASSUME TypeInv, NEW a \in Agents, NEW to, GoTo(a, to)
    PROVE  pc'[a] = to /\ \A b \in Agents : b # a => pc'[b] = pc[b]
BY Places DEF GoTo

-----------------------------------------------------------------------------
(* The socket of a patient user *)

LEMMA InitSockets == Init => Sockets
<1> SUFFICES ASSUME Init PROVE Sockets
  OBVIOUS
<1>1. /\ \A t \in Threads : pc[t] = "unborn"
      /\ pc[Main] = "looper"
      /\ \A a \in Agents : pc[a] \in {"unborn", "looper"}
      /\ openSockets = {} /\ \A i \in Instances : socket[i] = NONE
  BY FragmentAssumption DEF Init, LoopbackInit, Agents
<1>2. QED
  BY <1>1 DEF Sockets, OneSession, FieldOwned, NotYet, NoneBehind, Shut, SocketOwned,
              SessionPc, PreField, RecordPc, Behind

(* A step that leaves the field alone, starts no session and, at most,     *)
(* closes sockets.                                                         *)
LEMMA SocketsFrame ==
    ASSUME TypeInv, Sockets, socket' = socket, openSockets' \subseteq openSockets,
           \A t \in Threads : pc'[t] \in SessionPc => pc[t] \in SessionPc /\ inst'[t] = inst[t],
           \A t \in Threads : pc'[t] \in PreField => pc[t] \in PreField,
           \A t \in Threads : pc[t] \in Owner /\ socket[inst[t]] = t
                                  => pc'[t] \in Owner /\ inst'[t] = inst[t],
           \A t \in Threads : pc[t] = "assign" /\ t \in openSockets' => pc'[t] = "assign",
           \A a \in Agents : pc'[a] \in Behind
                => inst'[a] = inst[a] /\ (pc[a] \in Behind \/ socket[inst[a]] # NONE),
           \A a \in Agents : pc'[a] = "setNull"
                => pc[a] = "setNull" \/ socket[inst[a]] \notin openSockets'
    PROVE  Sockets'
<1>1. OneSession'
  BY DEF Sockets, OneSession
<1>2. FieldOwned'
  BY Places DEF Sockets, FieldOwned
<1>3. NotYet'
  BY DEF Sockets, NotYet, SessionPc
<1>4. NoneBehind'
  <2> SUFFICES ASSUME NEW a \in Agents, NEW t \in Threads, pc'[a] \in Behind,
                      inst'[t] = inst'[a], pc'[t] \in PreField
               PROVE  FALSE
    BY DEF NoneBehind
  <2>1. pc[t] \in PreField /\ inst[t] = inst[a] /\ socket[inst[t]] = NONE
    BY DEF Sockets, NotYet, SessionPc
  <2>2. QED
    BY <2>1 DEF Sockets, NoneBehind
<1>5. Shut'
  BY DEF Sockets, Shut, Behind
<1>6. SocketOwned'
  <2> SUFFICES ASSUME NEW s \in openSockets', pc'[s] # "assign"
               PROVE  inst'[s] \in Instances /\ socket'[inst'[s]] = s
    BY DEF SocketOwned
  <2>1. s \in Threads /\ s \in openSockets
    BY Places
  <2>2. inst[s] \in Instances /\ socket[inst[s]] = s
    BY <2>1 DEF Sockets, SocketOwned
  <2>3. pc[s] \in Owner
    BY <2>1, <2>2, Places DEF Sockets, FieldOwned
  <2>4. QED
    BY <2>1, <2>2, <2>3
<1>7. QED
  BY <1>1, <1>2, <1>3, <1>4, <1>5, <1>6 DEF Sockets

(* One agent moves. *)
LEMMA MoveSockets ==
    ASSUME TypeInv, Sockets, NEW a \in Agents, NEW to, GoTo(a, to),
           UNCHANGED <<socket, inst>>, openSockets' \subseteq openSockets,
           to \in SessionPc => pc[a] \in SessionPc,
           to \in PreField => pc[a] \in PreField,
           a \in Threads /\ pc[a] \in Owner /\ socket[inst[a]] = a => to \in Owner,
           pc[a] # "assign",
           to \in Behind => pc[a] \in Behind \/ socket[inst[a]] # NONE,
           to = "setNull" => socket[inst[a]] \notin openSockets'
    PROVE  Sockets'
<1>1. Threads \subseteq Agents
  BY Places
<1>2. pc'[a] = to /\ \A b \in Agents : b # a => pc'[b] = pc[b]
  BY Moves
<1>3. QED
  BY <1>1, <1>2, SocketsFrame

LEMMA StaySockets ==
    ASSUME TypeInv, Sockets, UNCHANGED <<socket, inst, pc, openSockets>>
    PROVE  Sockets'
BY SocketsFrame

(* The constructor of DatagramSocket has bound the port, and nobody closes *)
(* the new socket before it is in the field.                               *)
LEMMA BindSockets ==
    ASSUME TypeInv, Sockets, NEW t \in Threads, NewSocket(t)
    PROVE  Sockets'
<1>1. UNCHANGED <<socket, inst>> /\ pc[t] = "bind" /\ t \in Agents
  BY Places DEF NewSocket, fieldVars, localVars, At
<1>2. CASE ~PortFree
  <2>1. openSockets' = openSockets /\ GoTo(t, "checkNull")
    BY <1>2 DEF NewSocket, loopbackVars
  <2>2. QED
    BY <1>1, <2>1, MoveSockets DEF SessionPc, PreField, RecordPc, Owner, CleanupPc, Behind
<1>3. CASE PortFree
  <2>1. openSockets = {} /\ openSockets' = {t} /\ GoTo(t, "assign")
    BY <1>3 DEF NewSocket, BindSocket, PortFree
  <2>2. pc'[t] = "assign" /\ \A b \in Agents : b # t => pc'[b] = pc[b]
    BY <1>1, <2>1, Moves
  <2>3. Threads \subseteq Agents
    BY Places
  <2>4. OneSession' /\ NotYet' /\ NoneBehind'
    BY <1>1, <2>2, <2>3
    DEF Sockets, OneSession, NotYet, NoneBehind, SessionPc, PreField, Behind
  <2>5. FieldOwned'
    <3>1. ASSUME NEW i \in Instances, socket[i] # NONE
          PROVE  socket[i] \in Threads /\ socket[i] # t
      BY <1>1, <3>1, Places
      DEF Sockets, FieldOwned, Owner, RecordPc, CleanupPc
    <3>2. QED
      BY <1>1, <2>2, <2>3, <3>1 DEF Sockets, FieldOwned
  <2>6. Shut'
    <3>1. ASSUME NEW a \in Agents, pc'[a] = "setNull" PROVE socket[inst[a]] # t
      <4>1. pc[a] = "setNull" /\ inst[a] \in Instances
        BY <1>1, <2>2, <3>1, Places DEF Agents
      <4>2. QED
        BY <1>1, <4>1, Places DEF Sockets, FieldOwned, Owner, RecordPc, CleanupPc
    <3>2. QED
      BY <1>1, <2>1, <3>1 DEF Shut
  <2>7. SocketOwned'
    BY <2>1, <2>2 DEF SocketOwned
  <2>8. QED
    BY <2>4, <2>5, <2>6, <2>7 DEF Sockets
<1>4. QED
  BY <1>2, <1>3

(* socket = new DatagramSocket(...): the field was null, and no cleanup    *)
(* of this fragment is half-way.                                           *)
LEMMA AssignSockets ==
    ASSUME TypeInv, Sockets, NEW t \in Threads, AssignSocket(t)
    PROVE  Sockets'
<1>1. /\ UNCHANGED <<inst, openSockets>> /\ pc[t] = "assign" /\ GoTo(t, "closeOld")
      /\ t \in Agents /\ inst[t] \in Instances /\ Threads \subseteq Agents
  BY Places DEF AssignSocket, loopbackVars, localVars, At
<1>2. pc'[t] = "closeOld" /\ \A b \in Agents : b # t => pc'[b] = pc[b]
  BY <1>1, Moves
<1>3. /\ socket'[inst[t]] = t
      /\ \A i \in Instances : i # inst[t] => socket'[i] = socket[i]
      /\ socket[inst[t]] = NONE
  BY <1>1, Places DEF AssignSocket, Sockets, NotYet, PreField
<1>4. \A u \in Threads : u # t /\ inst[u] = inst[t] => pc[u] \notin SessionPc
  BY <1>1 DEF Sockets, OneSession, SessionPc, PreField
<1>5. OneSession'
  BY <1>1, <1>2 DEF Sockets, OneSession, SessionPc, PreField
<1>6. FieldOwned'
  <2>1. ASSUME NEW i \in Instances, socket'[i] # NONE
        PROVE  inst[socket'[i]] = i /\ pc'[socket'[i]] \in Owner
    <3>1. CASE i = inst[t]
      BY <1>1, <1>2, <1>3, <3>1 DEF Owner
    <3>2. CASE i # inst[t]
      <4>1. socket'[i] = socket[i] /\ socket[i] \in Threads
        BY <1>3, <2>1, <3>2, Places
      <4>2. inst[socket[i]] = i /\ pc[socket[i]] \in Owner
        BY <2>1, <4>1 DEF Sockets, FieldOwned
      <4>3. QED
        BY <1>1, <1>2, <3>2, <4>1, <4>2
    <3>3. QED
      BY <3>1, <3>2
  <2>2. QED
    BY <1>1, <2>1 DEF FieldOwned
<1>7. NotYet'
  <2>1. ASSUME NEW u \in Threads, pc'[u] \in PreField
        PROVE  socket'[inst[u]] = NONE
    <3>1. u # t /\ pc[u] \in PreField
      BY <1>1, <1>2, <2>1 DEF PreField
    <3>2. inst[u] # inst[t] /\ inst[u] \in Instances
      BY <1>4, <3>1, Places DEF SessionPc, PreField
    <3>3. QED
      BY <1>3, <3>1, <3>2 DEF Sockets, NotYet
  <2>2. QED
    BY <1>1, <2>1 DEF NotYet
<1>8. NoneBehind'
  BY <1>1, <1>2 DEF Sockets, NoneBehind, PreField, Behind
<1>9. Shut'
  <2>1. ASSUME NEW a \in Agents, pc'[a] = "setNull"
        PROVE  socket'[inst[a]] \notin openSockets
    <3>1. pc[a] = "setNull" /\ inst[a] \in Instances
      BY <1>2, <2>1, Places DEF Agents
    <3>2. inst[a] # inst[t]
      BY <1>1, <3>1 DEF Sockets, NoneBehind, Behind, PreField
    <3>3. QED
      BY <1>3, <3>1, <3>2 DEF Sockets, Shut
  <2>2. QED
    BY <1>1, <2>1 DEF Shut
<1>10. SocketOwned'
  <2>1. ASSUME NEW s \in openSockets, s # t, pc[s] # "assign"
        PROVE  inst[s] \in Instances /\ socket'[inst[s]] = s
    <3>1. s \in Threads /\ inst[s] \in Instances /\ socket[inst[s]] = s
      BY <2>1, Places DEF Sockets, SocketOwned
    <3>2. inst[s] # inst[t]
      BY <1>3, <3>1, Places
    <3>3. QED
      BY <1>3, <3>1, <3>2
  <2>2. QED
    BY <1>1, <1>2, <1>3, <2>1, Places DEF SocketOwned
<1>11. QED
  BY <1>5, <1>6, <1>7, <1>8, <1>9, <1>10 DEF Sockets

(* socket = null: what the field held is closed. *)
LEMMA SetNullSockets ==
    ASSUME TypeInv, Sockets, NEW a \in Agents, SetNull(a)
    PROVE  Sockets'
<1>1. /\ UNCHANGED <<inst, openSockets>> /\ pc[a] = "setNull" /\ GoTo(a, AfterCleanup(a))
      /\ inst[a] \in Instances /\ Threads \subseteq Agents
  BY Places DEF SetNull, loopbackVars, localVars, At, Agents
<1>2. pc'[a] = AfterCleanup(a) /\ \A b \in Agents : b # a => pc'[b] = pc[b]
  BY <1>1, Moves
<1>3. /\ socket'[inst[a]] = NONE
      /\ \A i \in Instances : i # inst[a] => socket'[i] = socket[i]
  BY <1>1, Places DEF SetNull
<1>4. pc'[a] \notin SessionPc \cup Behind
  BY <1>2 DEF AfterCleanup, SessionPc, PreField, RecordPc, Behind
<1>5. OneSession' /\ NoneBehind'
  BY <1>1, <1>2, <1>4 DEF Sockets, OneSession, NoneBehind, SessionPc
<1>6. FieldOwned'
  <2>1. ASSUME NEW i \in Instances, socket'[i] # NONE
        PROVE  inst[socket'[i]] = i /\ pc'[socket'[i]] \in Owner
    <3>1. i # inst[a] /\ socket'[i] = socket[i]
      BY <1>3, <2>1
    <3>2. socket[i] \in Threads /\ inst[socket[i]] = i /\ pc[socket[i]] \in Owner
      BY <2>1, <3>1, Places DEF Sockets, FieldOwned
    <3>3. QED
      BY <1>1, <1>2, <3>1, <3>2
  <2>2. QED
    BY <1>1, <2>1 DEF FieldOwned
<1>7. NotYet'
  <2>1. ASSUME NEW u \in Threads, pc'[u] \in PreField
        PROVE  socket'[inst[u]] = NONE
    <3>1. pc[u] \in PreField /\ inst[u] \in Instances
      BY <1>1, <1>2, <1>4, <2>1, Places DEF SessionPc, PreField
    <3>2. QED
      BY <1>3, <3>1 DEF Sockets, NotYet
  <2>2. QED
    BY <1>1, <2>1 DEF NotYet
<1>8. Shut'
  <2>1. ASSUME NEW b \in Agents, pc'[b] = "setNull"
        PROVE  socket'[inst[b]] \notin openSockets
    <3>1. pc[b] = "setNull" /\ inst[b] \in Instances
      BY <1>1, <1>2, <2>1, Places DEF Agents
    <3>2. NONE \notin openSockets
      BY Places
    <3>3. QED
      BY <1>3, <3>1, <3>2 DEF Sockets, Shut
  <2>2. QED
    BY <1>1, <2>1 DEF Shut
<1>9. SocketOwned'
  <2>1. ASSUME NEW s \in openSockets, pc'[s] # "assign"
        PROVE  inst[s] \in Instances /\ socket'[inst[s]] = s
    <3>1. s \in Threads /\ pc[s] # "assign"
      BY <1>1, <1>2, <2>1, Places
    <3>2. inst[s] \in Instances /\ socket[inst[s]] = s
      BY <2>1, <3>1 DEF Sockets, SocketOwned
    <3>3. inst[s] # inst[a]
      BY <1>1, <2>1, <3>2 DEF Sockets, Shut
    <3>4. QED
      BY <1>3, <3>2, <3>3
  <2>2. QED
    BY <1>1, <2>1 DEF SocketOwned
<1>10. QED
  BY <1>5, <1>6, <1>7, <1>8, <1>9 DEF Sockets

LEMMA CleanupSockets ==
    ASSUME TypeInv, Sockets, NEW a \in Agents, Cleanup(a)
    PROVE  Sockets'
<1> USE DEF SessionPc, PreField, RecordPc, Owner, CleanupPc, Behind, AfterCleanup
<1>1. CASE Crash
  BY <1>1, StaySockets DEF Crash, fieldVars, localVars, loopbackVars
<1>2. CASE CheckNull(a)
  <2>1. UNCHANGED <<socket, inst, openSockets>> /\ pc[a] = "checkNull"
    BY <1>2 DEF CheckNull, OnlyPc, fieldVars, localVars, loopbackVars, At
  <2>2. CASE socket[inst[a]] = NONE
    <3>1. GoTo(a, AfterCleanup(a))
      BY <1>2, <2>2 DEF CheckNull
    <3>2. AfterCleanup(a) \in {"looper", "closeFile"}
      OBVIOUS
    <3>3. a \in Threads => socket[inst[a]] # a
      BY <2>2, Places
    <3>4. QED
      BY <2>1, <3>1, <3>2, <3>3, MoveSockets
  <2>3. CASE socket[inst[a]] # NONE
    <3>1. GoTo(a, "checkClosed")
      BY <1>2, <2>3 DEF CheckNull
    <3>2. QED
      BY <2>1, <2>3, <3>1, MoveSockets
  <2>4. QED
    BY <2>2, <2>3
<1>3. CASE CheckClosed(a) /\ ~Crash
  <2>1. UNCHANGED <<socket, inst, openSockets>> /\ pc[a] = "checkClosed"
    BY <1>3 DEF CheckClosed, OnlyPc, fieldVars, localVars, loopbackVars, At
  <2>2. \/ GoTo(a, "close")
        \/ GoTo(a, "setNull") /\ socket[inst[a]] \notin openSockets
    BY <1>3 DEF CheckClosed
  <2>3. QED
    BY <2>1, <2>2, MoveSockets
<1>4. CASE CloseTheSocket(a) /\ ~Crash
  <2>1. /\ UNCHANGED <<socket, inst>> /\ pc[a] = "close" /\ GoTo(a, "setNull")
        /\ openSockets' = openSockets \ {socket[inst[a]]}
    BY <1>4 DEF CloseTheSocket, CloseSocket, fieldVars, localVars, At
  <2>2. QED
    BY <2>1, MoveSockets
<1>5. QED
  BY <1>1, <1>2, <1>3, <1>4, SetNullSockets DEF Cleanup

LEMMA ThreadSockets ==
    ASSUME TypeInv, Sockets, NEW t \in Threads,
           SessionThread(t) \/ StopThread(t) \/ CloseFile(t) \/ PostIdle(t)
    PROVE  Sockets'
<1>1. t \in Agents
  BY Places
<1>2. CASE NewSocket(t) \/ AssignSocket(t)
  BY <1>2, BindSockets, AssignSockets
<1>3. CASE PostCapturing(t) \/ LaunchCsiutil(t) \/ JobsOutput(t) \/ TestSocket(t)
  <2>1. /\ UNCHANGED <<socket, inst, openSockets>>
        /\ pc[t] \in {"post", "launch", "jobs", "testNull", "testClosed"}
        /\ \E to \in {"launch", "jobs", "checkNull", "testNull", "bind", "testClosed",
                      "closeOld"} : GoTo(t, to)
    BY <1>3 DEF PostCapturing, LaunchCsiutil, JobsOutput, TestSocket, OnlyPc,
                fieldVars, localVars, loopbackVars, At
  <2>2. QED
    BY <1>1, <2>1, MoveSockets DEF SessionPc, PreField, RecordPc, Owner, CleanupPc, Behind
<1>4. CASE \/ CreateFileCloses(t) \/ CreateFileOpens(t) \/ ReadSocketField(t)
           \/ ReceiveThrows(t) \/ Receive(t) \/ WriteText(t)
  <2>1. /\ UNCHANGED <<socket, inst, openSockets>>
        /\ pc[t] \in {"closeOld", "openNew"} \cup RecordPc
        /\ \E to \in {"openNew", "loop", "checkNull", "receive", "write"} : GoTo(t, to)
    BY <1>4 DEF CreateFileCloses, CreateFileOpens, ReadSocketField, ReceiveThrows,
                Receive, WriteText, TakeDatagram, fieldVars, localVars, loopbackVars, At, RecordPc
  <2>2. QED
    BY <1>1, <2>1, MoveSockets DEF SessionPc, PreField, RecordPc, Owner, CleanupPc, Behind
<1>5. CASE KillJob(t) \/ KillOutput(t) \/ CloseFile(t) \/ PostIdle(t)
  <2>1. /\ UNCHANGED <<socket, inst, openSockets>>
        /\ pc[t] \in {"kill", "killOut", "closeFile", "postIdle"}
        /\ \E to \in {"killOut", "checkNull", "postIdle", "done"} : GoTo(t, to)
    BY <1>5 DEF KillJob, KillOutput, CloseFile, PostIdle, OnlyPc,
                fieldVars, localVars, loopbackVars, At
  <2>2. QED
    BY <1>1, <2>1, MoveSockets DEF SessionPc, PreField, RecordPc, Owner, CleanupPc, Behind
<1>6. QED
  BY <1>2, <1>3, <1>4, <1>5 DEF SessionThread, StopThread

(* A patient user starts a session when no thread of the fragment is left. *)
LEMMA ClickSockets ==
    ASSUME Patient, TypeInv, Sockets, NEW i \in Instances, ClickStartStop(i)
    PROVE  Sockets'
<1>1. PICK t \in Threads :
        /\ pc[t] = "unborn"
        /\ GoTo(t, IF mState[i] = "idle" THEN "post" ELSE "kill")
        /\ inst' = [inst EXCEPT ![t] = i]
  BY DEF ClickStartStop, Pressed
<1>2. /\ UNCHANGED <<socket, openSockets>> /\ pc[Main] = "looper"
      /\ t \in Agents /\ Threads \subseteq Agents /\ t # Main
  BY Places DEF ClickStartStop, Pressed, OnMain, At, fieldVars, loopbackVars
<1>3. /\ pc'[t] = IF mState[i] = "idle" THEN "post" ELSE "kill"
      /\ \A b \in Agents : b # t => pc'[b] = pc[b] /\ inst'[b] = inst[b]
      /\ inst'[t] = i
  BY <1>1, <1>2, Moves, Places
<1>4. CASE mState[i] # "idle"
  <2>1. pc'[t] = "kill"
    BY <1>3, <1>4
  <2>2. QED
    BY <1>1, <1>2, <1>3, <2>1, SocketsFrame
    DEF SessionPc, PreField, RecordPc, Owner, CleanupPc, Behind
<1>5. CASE mState[i] = "idle"
  <2>1. \A u \in Threads : u # t /\ inst[u] = i => pc[u] \in Over
    BY <1>5 DEF ClickStartStop, Pressed, Patient, UserWaited, Active, Over
  <2>2. pc'[t] = "post"
    BY <1>3, <1>5
  <2>3. OneSession'
    BY <1>2, <1>3, <2>1
    DEF Sockets, OneSession, Over, SessionPc, PreField, RecordPc
  <2>4. \A j \in Instances : socket[j] # NONE =>
          /\ socket[j] \in Threads /\ socket[j] # t /\ j # i
          /\ inst[socket[j]] = j /\ pc[socket[j]] \in Owner
    <3>1. ASSUME NEW j \in Instances, socket[j] # NONE
          PROVE  /\ socket[j] \in Threads /\ socket[j] # t
                 /\ inst[socket[j]] = j /\ pc[socket[j]] \in Owner
      BY <1>1, <3>1, Places DEF Sockets, FieldOwned, Owner, RecordPc, CleanupPc
    <3>2. QED
      BY <2>1, <3>1 DEF Over, Owner, RecordPc, CleanupPc
  <2>5. FieldOwned'
    BY <1>2, <1>3, <2>4 DEF FieldOwned
  <2>6. NotYet'
    <3>1. ASSUME NEW u \in Threads, pc'[u] \in PreField PROVE socket[inst'[u]] = NONE
      <4>1. CASE u = t
        BY <1>3, <2>4, <4>1
      <4>2. CASE u # t
        BY <1>2, <1>3, <3>1, <4>2 DEF Sockets, NotYet
      <4>3. QED
        BY <4>1, <4>2
    <3>2. QED
      BY <1>2, <3>1 DEF NotYet
  <2>7. NoneBehind'
    <3>1. ASSUME NEW a \in Agents, NEW u \in Threads, pc'[a] \in Behind,
                 inst'[u] = inst'[a], pc'[u] \in PreField
          PROVE  FALSE
      <4>1. a # t /\ a # Main /\ a \in Threads
        BY <1>2, <1>3, <2>2, <3>1 DEF Behind, Agents
      <4>2. CASE u = t
        BY <1>2, <1>3, <2>1, <3>1, <4>1, <4>2 DEF Over, Behind
      <4>3. CASE u # t
        BY <1>2, <1>3, <3>1, <4>1, <4>3 DEF Sockets, NoneBehind
      <4>4. QED
        BY <4>2, <4>3
    <3>2. QED
      BY <3>1 DEF NoneBehind
  <2>8. Shut'
    BY <1>2, <1>3, <2>2 DEF Sockets, Shut
  <2>9. SocketOwned'
    <3>1. ASSUME NEW s \in openSockets, pc'[s] # "assign"
          PROVE  inst'[s] \in Instances /\ socket[inst'[s]] = s
      <4>1. s \in Threads /\ s \in Agents
        BY Places
      <4>2. CASE pc[s] = "assign"
        BY <1>1, <1>3, <3>1, <4>1, <4>2
      <4>3. CASE pc[s] # "assign"
        <5>1. inst[s] \in Instances /\ socket[inst[s]] = s
          BY <4>1, <4>3 DEF Sockets, SocketOwned
        <5>2. s # t
          BY <2>4, <4>1, <5>1, Places
        <5>3. QED
          BY <1>3, <4>1, <5>1, <5>2
      <4>4. QED
        BY <4>2, <4>3
    <3>2. QED
      BY <1>2, <3>1 DEF SocketOwned
  <2>10. QED
    BY <2>3, <2>5, <2>6, <2>7, <2>8, <2>9 DEF Sockets
<1>6. QED
  BY <1>4, <1>5

LEMMA UserSockets ==
    ASSUME Patient, TypeInv, Sockets, NEW i \in Instances, DispatchPosted(i) \/ User(i)
    PROVE  Sockets'
<1>1. CASE \/ DispatchPosted(i) \/ OnCreateView(i) \/ OpenRoot(i)
           \/ RestartNic(i) \/ EditNumbers(i) \/ ClickThrows(i)
  BY <1>1, StaySockets
  DEF DispatchPosted, OnCreateView, OpenRoot, RestartNic, EditNumbers, ClickThrows, Pressed,
      Crash, fragmentVars, fieldVars, localVars, loopbackVars
<1>2. CASE OnDestroyView(i)
  <2>1. /\ UNCHANGED <<socket, openSockets>> /\ pc[Main] = "looper"
        /\ pc' = pc \/ GoTo(Main, "checkNull")
        /\ inst' = [inst EXCEPT ![Main] = i]
    BY <1>2 DEF OnDestroyView, OnMain, At, fieldVars, loopbackVars
  <2>2. /\ pc'[Main] \in {"looper", "checkNull"}
        /\ \A a \in Agents : a # Main => pc'[a] = pc[a] /\ inst'[a] = inst[a]
    BY <2>1, Moves, Places
  <2>3. Threads \subseteq Agents /\ Main \notin Threads
    BY Places
  <2>4. QED
    BY <2>1, <2>2, <2>3, SocketsFrame
    DEF SessionPc, PreField, RecordPc, Owner, CleanupPc, Behind
<1>3. QED
  BY <1>1, <1>2, ClickSockets DEF User

(* A step of a shell, of a csiutil, or of the network interface. *)
LEMMA ProcessSockets ==
    ASSUME TypeInv, Sockets,
           \/ \E s \in Shells : ShellProcess(s)
           \/ \E u \in Threads : CsiutilRuns(u) \/ FrameArrives(u)
    PROVE  Sockets'
<1>1. UNCHANGED fragmentVars /\ openSockets' = openSockets
  BY DEF ShellProcess, CsiutilRuns, FrameArrives, PcapFails, SleepDelay, CreateUdpSendSocket,
         SendStop, CloseSendSocket, GotPacket, GotShortPacket, SendTo, Deliver, loopbackVars
<1>2. QED
  BY <1>1, StaySockets DEF fragmentVars, fieldVars, localVars

LEMMA NextSockets ==
    ASSUME Patient
    PROVE  TypeInv /\ Sockets /\ [Next]_vars => Sockets'
<1> SUFFICES ASSUME TypeInv, Sockets, [Next]_vars PROVE Sockets'
  OBVIOUS
<1>1. ASSUME NEW t \in Threads, BackgroundThread(t) PROVE Sockets'
  BY <1>1, Places, CleanupSockets, ThreadSockets DEF BackgroundThread
<1>2. CASE MainThread
  BY <1>2, Places, CleanupSockets, UserSockets DEF MainThread
<1>3. CASE UNCHANGED vars
  BY <1>3, StaySockets DEF vars, fragmentVars, fieldVars, localVars, loopbackVars
<1>4. QED
  BY <1>1, <1>2, <1>3, ProcessSockets DEF Next

(* For a user who does not click again before the effect of the last click *)
(* is on the screen, whatever else happens - also when he leaves screens   *)
(* at any time, the shell dies and sleeps are too short: when no thread is *)
(* left, port 5502 is free (CaptureFragment:249-254, 356-361).             *)
THEOREM PatientSocketsClosed ==
    ASSUME Patient PROVE Spec => []SocketsClosed
<1>1. TypeInv /\ Sockets => SocketsClosed
  <2> SUFFICES ASSUME TypeInv, Sockets, Quiet, NEW s \in openSockets PROVE FALSE
    BY DEF SocketsClosed
  <2>1. s \in Threads
    BY Places
  <2>2. pc[s] \in {"assign"} \cup Owner /\ inst[s] \in Instances
    <3>1. CASE pc[s] = "assign"
      BY <2>1, <3>1, Places
    <3>2. CASE pc[s] # "assign"
      BY <2>1, <3>2, Places DEF Sockets, SocketOwned, FieldOwned
    <3>3. QED
      BY <3>1, <3>2
  <2>3. s \in Active(inst[s])
    BY <2>1, <2>2 DEF Active, Owner, RecordPc, CleanupPc
  <2>4. QED
    BY <2>2, <2>3 DEF Quiet
<1>2. QED
  BY <1>1, InitTypeInv, InitSockets, NextTypeInv, NextSockets, PTL DEF Spec

-----------------------------------------------------------------------------
(* The writer of a user who stays *)

LEMMA InitWriters == Init => Writers
<1> SUFFICES ASSUME Init PROVE Writers
  OBVIOUS
<1>1. (\A t \in Threads : pc[t] = "unborn") /\ openWriters = {}
  BY FragmentAssumption DEF Init, Agents
<1>2. QED
  BY <1>1 DEF Writers, OneView, WriterOwned, NoWriterYet, Over

(* A step that makes no writer. *)
LEMMA WritersFrame ==
    ASSUME TypeInv, Writers, bw' = bw, openWriters' \subseteq openWriters,
           \A t \in Threads : pc'[t] \notin Over => inst'[t] = view',
           \A t \in Threads : pc[t] \in HasWriter /\ t \in openWriters'
                                  => pc'[t] \in HasWriter /\ inst'[t] = inst[t],
           \A t \in Threads : pc'[t] \in BeforeWriter => pc[t] \in BeforeWriter
    PROVE  Writers'
<1>1. openWriters \subseteq Threads
  BY DEF TypeInv, TypeOK, FragmentTypeOK
<1>2. WriterOwned'
  BY <1>1 DEF Writers, WriterOwned
<1>3. OneView' /\ NoWriterYet'
  BY DEF Writers, OneView, NoWriterYet
<1>4. QED
  BY <1>2, <1>3 DEF Writers

LEMMA MoveWriters ==
    ASSUME TypeInv, Writers, NEW a \in Agents, NEW to, GoTo(a, to),
           UNCHANGED <<bw, view, inst>>, openWriters' \subseteq openWriters,
           a \in Threads => pc[a] \notin Over,
           pc[a] \in HasWriter /\ a \in openWriters' => to \in HasWriter,
           to \in BeforeWriter => pc[a] \in BeforeWriter
    PROVE  Writers'
<1>1. Threads \subseteq Agents
  BY Places
<1>2. pc'[a] = to /\ \A b \in Agents : b # a => pc'[b] = pc[b]
  BY Moves
<1>3. QED
  BY <1>1, <1>2, WritersFrame DEF Writers, OneView

LEMMA StayWriters ==
    ASSUME TypeInv, Writers, UNCHANGED <<bw, view, inst, pc, openWriters>>
    PROVE  Writers'
BY WritersFrame DEF Writers, OneView

(* The session that creates a file is the only one, and no file is open.   *)
LEMMA CreateWriters ==
    ASSUME TypeInv, Sockets, Writers, NEW t \in Threads, CreateFileOpens(t)
    PROVE  Writers'
<1>1. /\ UNCHANGED <<inst, view>> /\ pc[t] = "openNew"
      /\ t \in Agents /\ Threads \subseteq Agents /\ inst[t] \in Instances
  BY Places DEF CreateFileOpens, localVars, uiVars, At
<1>2. CASE GoTo(t, "checkNull") /\ UNCHANGED <<bw, openWriters>>
  BY <1>1, <1>2, MoveWriters
  DEF Over, HasWriter, BeforeWriter, RecordPc, CleanupPc, PreField
<1>3. CASE GoTo(t, "loop") /\ bw' = [bw EXCEPT ![inst[t]] = t]
           /\ openWriters' = openWriters \cup {t}
  <2>1. pc'[t] = "loop" /\ \A b \in Agents : b # t => pc'[b] = pc[b]
    BY <1>1, <1>3, Moves
  <2>2. openWriters' = {t} /\ bw'[inst[t]] = t
    BY <1>1, <1>3
    DEF Writers, NoWriterYet, BeforeWriter, TypeInv, TypeOK, FragmentTypeOK
  <2>3. OneView'
    BY <1>1, <2>1 DEF Writers, OneView, Over
  <2>4. WriterOwned'
    BY <1>1, <2>1, <2>2 DEF WriterOwned, HasWriter, RecordPc
  <2>5. NoWriterYet'
    <3>1. ASSUME NEW u \in Threads, pc'[u] \in BeforeWriter PROVE FALSE
      <4>1. u # t /\ pc[u] \in BeforeWriter
        BY <1>1, <2>1, <3>1 DEF BeforeWriter, PreField
      <4>2. inst[u] = inst[t]
        BY <1>1, <4>1 DEF Writers, OneView, Over, BeforeWriter, PreField
      <4>3. QED
        BY <1>1, <4>1, <4>2 DEF Sockets, OneSession, SessionPc, BeforeWriter
    <3>2. QED
      BY <3>1 DEF NoWriterYet
  <2>6. QED
    BY <2>3, <2>4, <2>5 DEF Writers
<1>4. QED
  BY <1>2, <1>3 DEF CreateFileOpens

(* Every writer that is open is the one closeFile finds in the field. *)
LEMMA CloseWriters ==
    ASSUME TypeInv, Writers, NEW t \in Threads, CloseFile(t)
    PROVE  Writers'
<1>1. /\ UNCHANGED <<bw, inst, view>> /\ pc[t] = "closeFile" /\ GoTo(t, "postIdle")
      /\ openWriters' = openWriters \ {bw[inst[t]]} /\ t \in Agents
  BY Places DEF CloseFile, CloseWriterOf, localVars, uiVars, fieldVars, At
<1>2. t \notin openWriters'
  BY <1>1 DEF Writers, WriterOwned
<1>3. QED
  BY <1>1, <1>2, MoveWriters DEF Over, BeforeWriter, PreField

LEMMA CleanupWriters ==
    ASSUME TypeInv, Writers, NEW a \in Agents, Cleanup(a)
    PROVE  Writers'
<1>1. UNCHANGED <<bw, inst, view, openWriters>>
  BY DEF Cleanup, CheckNull, CheckClosed, CloseTheSocket, SetNull, Crash, OnlyPc,
         fieldVars, localVars, uiVars, fileVars
<1>2. CASE Crash
  BY <1>1, <1>2, StayWriters DEF Crash
<1>3. CASE ~Crash
  <2>1. /\ pc[a] \in CleanupPc
        /\ \E to \in CleanupPc \cup {AfterCleanup(a)} : GoTo(a, to)
    BY <1>3 DEF Cleanup, CheckNull, CheckClosed, CloseTheSocket, SetNull, At, CleanupPc
  <2>2. PICK to \in CleanupPc \cup {AfterCleanup(a)} : GoTo(a, to)
    BY <2>1
  <2>3. a \in openWriters => to \in HasWriter
    <3>1. openWriters \subseteq Threads /\ Main \notin Threads
      BY Places DEF TypeInv, TypeOK, FragmentTypeOK
    <3>2. QED
      BY <2>2, <3>1 DEF HasWriter, AfterCleanup
  <2>4. to \notin BeforeWriter /\ pc[a] \notin Over
    BY <2>1, <2>2 DEF AfterCleanup, BeforeWriter, PreField, CleanupPc, Over
  <2>5. QED
    BY <1>1, <2>2, <2>3, <2>4, MoveWriters
<1>4. QED
  BY <1>2, <1>3

LEMMA ThreadWriters ==
    ASSUME TypeInv, Sockets, Writers, NEW t \in Threads,
           SessionThread(t) \/ StopThread(t) \/ CloseFile(t) \/ PostIdle(t)
    PROVE  Writers'
<1> USE DEF Over, HasWriter, BeforeWriter, RecordPc, CleanupPc, PreField
<1>1. t \in Agents
  BY Places
<1>2. CASE CreateFileOpens(t) \/ CloseFile(t)
  BY <1>2, CreateWriters, CloseWriters
<1>3. CASE \/ PostCapturing(t) \/ LaunchCsiutil(t) \/ JobsOutput(t) \/ TestSocket(t)
           \/ NewSocket(t) \/ AssignSocket(t) \/ CreateFileCloses(t)
  <2>1. UNCHANGED <<bw, view, inst>> /\ openWriters' \subseteq openWriters
    BY <1>3 DEF PostCapturing, LaunchCsiutil, JobsOutput, TestSocket, NewSocket,
                AssignSocket, CreateFileCloses, CloseWriterOf, OnlyPc, fieldVars,
                localVars, uiVars, fileVars
  <2>2. /\ pc[t] \in PreField \cup {"closeOld"}
        /\ \E to \in {"launch", "jobs", "checkNull", "testNull", "bind", "testClosed",
                      "closeOld", "assign", "openNew"} : GoTo(t, to)
    BY <1>3 DEF PostCapturing, LaunchCsiutil, JobsOutput, TestSocket, NewSocket,
                AssignSocket, CreateFileCloses, At
  <2>3. QED
    BY <1>1, <2>1, <2>2, MoveWriters
<1>4. CASE ReadSocketField(t) \/ ReceiveThrows(t) \/ Receive(t) \/ WriteText(t)
  <2>1. /\ UNCHANGED <<bw, view, inst, openWriters>>
        /\ pc[t] \in RecordPc
        /\ \E to \in {"loop", "checkNull", "receive", "write"} : GoTo(t, to)
    BY <1>4 DEF ReadSocketField, ReceiveThrows, Receive, WriteText,
                fieldVars, localVars, uiVars, fileVars, At
  <2>2. QED
    BY <1>1, <2>1, MoveWriters
<1>5. CASE KillJob(t) \/ KillOutput(t) \/ PostIdle(t)
  <2>1. /\ UNCHANGED <<bw, view, inst, openWriters>>
        /\ pc[t] \in {"kill", "killOut", "postIdle"}
        /\ \E to \in {"killOut", "checkNull", "postIdle", "done"} : GoTo(t, to)
    BY <1>5 DEF KillJob, KillOutput, PostIdle, OnlyPc,
                fieldVars, localVars, uiVars, fileVars, At
  <2>2. QED
    BY <1>1, <2>1, MoveWriters
<1>6. QED
  BY <1>2, <1>3, <1>4, <1>5 DEF SessionThread, StopThread

LEMMA UserWriters ==
    ASSUME Patient, Stays, TypeInv, Sockets, Writers, NEW i \in Instances,
           DispatchPosted(i) \/ User(i)
    PROVE  Writers'
<1>1. CASE \/ DispatchPosted(i) \/ OpenRoot(i)
           \/ RestartNic(i) \/ EditNumbers(i) \/ ClickThrows(i)
  BY <1>1, StayWriters
  DEF DispatchPosted, OpenRoot, RestartNic, EditNumbers, ClickThrows, Pressed, Crash,
      fragmentVars, fieldVars, localVars, uiVars, fileVars
<1>2. ASSUME view = NONE \/ Active(view) = {}
      PROVE  openWriters = {} /\ \A t \in Threads : pc[t] \in Over
  <2>1. \A t \in Threads : pc[t] \in Over
    BY <1>2, Places DEF Active, Over, Writers, OneView
  <2>2. openWriters \subseteq Threads
    BY DEF TypeInv, TypeOK, FragmentTypeOK
  <2>3. QED
    BY <2>1, <2>2 DEF Writers, WriterOwned, HasWriter, RecordPc, CleanupPc, Over
<1>3. CASE OnCreateView(i)
  <2>1. view = NONE /\ UNCHANGED <<pc, inst, openWriters>>
    BY <1>3 DEF OnCreateView, localVars, fileVars
  <2>2. QED
    BY <1>2, <2>1 DEF Writers, OneView, WriterOwned, NoWriterYet
<1>4. CASE OnDestroyView(i)
  <2>1. /\ view = i /\ Active(i) = {} /\ UNCHANGED <<bw, openWriters>>
        /\ pc' = pc \/ GoTo(Main, "checkNull")
    BY <1>4 DEF OnDestroyView, Stays, fieldVars, fileVars
  <2>2. \A t \in Threads : pc'[t] = pc[t]
    BY <2>1, Places, Moves
  <2>3. QED
    BY <1>2, <2>1, <2>2, WritersFrame
    DEF BeforeWriter, PreField, HasWriter, RecordPc, CleanupPc, Over
<1>5. CASE ClickStartStop(i)
  <2>1. PICK t \in Threads :
          /\ pc[t] = "unborn"
          /\ GoTo(t, IF mState[i] = "idle" THEN "post" ELSE "kill")
          /\ inst' = [inst EXCEPT ![t] = i]
    BY <1>5 DEF ClickStartStop, Pressed
  <2>2. /\ UNCHANGED <<bw, openWriters, view>> /\ view = i
        /\ t \in Agents /\ Threads \subseteq Agents
    BY <1>5, Places DEF ClickStartStop, Pressed, fieldVars, uiVars, fileVars
  <2>3. /\ pc'[t] = IF mState[i] = "idle" THEN "post" ELSE "kill"
        /\ \A b \in Agents : b # t => pc'[b] = pc[b] /\ inst'[b] = inst[b]
        /\ inst'[t] = i
    BY <2>1, <2>2, Moves, Places
  <2>4. CASE mState[i] # "idle"
    <3>1. pc'[t] = "kill"
      BY <2>3, <2>4
    <3>2. QED
      BY <2>1, <2>2, <2>3, <3>1, WritersFrame
      DEF Writers, OneView, Over, HasWriter, BeforeWriter, RecordPc, CleanupPc, PreField
  <2>5. CASE mState[i] = "idle"
    <3>1. Active(i) = {}
      BY <1>5, <2>5 DEF ClickStartStop, Pressed, Patient, UserWaited
    <3>2. openWriters = {}
      BY <1>2, <2>2, <3>1
    <3>3. QED
      BY <2>1, <2>2, <2>3, <3>2 DEF Writers, OneView, WriterOwned, NoWriterYet
  <2>6. QED
    BY <2>4, <2>5
<1>6. QED
  BY <1>1, <1>3, <1>4, <1>5 DEF User

LEMMA NextWriters ==
    ASSUME Patient, Stays
    PROVE  TypeInv /\ Sockets /\ Writers /\ [Next]_vars => Writers'
<1> SUFFICES ASSUME TypeInv, Sockets, Writers, [Next]_vars PROVE Writers'
  OBVIOUS
<1>1. ASSUME NEW t \in Threads, BackgroundThread(t) PROVE Writers'
  BY <1>1, Places, CleanupWriters, ThreadWriters DEF BackgroundThread
<1>2. CASE MainThread
  BY <1>2, Places, CleanupWriters, UserWriters DEF MainThread
<1>3. CASE UNCHANGED fragmentVars
  BY <1>3, StayWriters DEF fragmentVars, fieldVars, localVars, uiVars, fileVars
<1>4. QED
  BY <1>1, <1>2, <1>3 DEF Next, ShellProcess, CsiutilRuns, FrameArrives, vars

(* ... and if he does not leave the screen while a thread is at work: when *)
(* no thread is left, every capture file is closed (CaptureFragment:       *)
(* 255, 273, FileHandler:100-141).                                         *)
THEOREM PatientWritersClosed ==
    ASSUME Patient, Stays PROVE Spec => []WritersClosed
<1>1. TypeInv /\ Writers => WritersClosed
  <2> SUFFICES ASSUME TypeInv, Writers, Quiet, NEW w \in openWriters PROVE FALSE
    BY DEF WritersClosed
  <2>1. w \in Threads
    BY DEF TypeInv, TypeOK, FragmentTypeOK
  <2>2. QED
    BY <2>1 DEF Writers, WriterOwned, HasWriter, RecordPc, CleanupPc, Quiet, Active
<1>2. QED
  BY <1>1, InitTypeInv, InitSockets, InitWriters, NextTypeInv, NextSockets, NextWriters, PTL
  DEF Spec

-----------------------------------------------------------------------------
(* The button of a user who stays, with a root shell that lives and sleeps *)
(* that suffice                                                            *)

LEMMA InitIdle == Init => Idle
<1> SUFFICES ASSUME Init PROVE Idle
  OBVIOUS
<1>1. \A t \in Threads : pc[t] = "unborn"
  BY FragmentAssumption DEF Init, Agents
<1>2. QED
  BY <1>1 DEF Idle, Alone, HasShell, ShellUp, NoOpener, Posted, Silenced, StoppedIfIdle,
              StartPc, WorkPc, OpeningPc, EndPc, CleanupPc, SessionPc, PreField, RecordPc, Over

LEMMA IdleFrame ==
    ASSUME Idle, view' = view, Alone', HasShell',
           \A t \in Threads : pc'[t] \in WorkPc \cup {"killOut"}
                                  => pc[t] \in WorkPc \cup {"killOut"} \/ Usable(bp[view]),
           Usable(bp[view]) => Usable(bp[view])',
           \A t \in Threads : pc'[t] \in OpeningPc \cup {"post"} => pc[t] \in OpeningPc \cup {"post"},
           \A t \in Threads : pc'[t] \in OpeningPc
                                  => pc[t] \in OpeningPc \/ Shown(view)' = "capturing",
           \A t \in Threads : pc'[t] \in EndPc
                => pc[t] \in EndPc \/ \A u \in Threads : pc'[u] \notin OpeningPc \cup {"post"},
           \A t \in Threads : pc'[t] \in {"closeFile", "postIdle"}
                => \/ pc[t] \in {"closeFile", "postIdle"}
                   \/ \A u \in Threads : pc'[u] \in RecordPc => socket'[view] \notin openSockets',
           \A t \in Threads : pc'[t] \in RecordPc => pc[t] \in RecordPc \cup OpeningPc,
           \A t \in Threads : pc'[t] \in RecordPc /\ socket'[view] \in openSockets'
                                  => socket[view] \in openSockets,
           \/ Shown(view)' \in {Shown(view), "capturing"}
           \/ \A t \in Threads : /\ pc'[t] \notin OpeningPc
                                 /\ pc'[t] \in RecordPc => socket'[view] \notin openSockets'
    PROVE  Idle'
<1>1. ShellUp'
  BY DEF Idle, ShellUp
<1>2. NoOpener'
  BY DEF Idle, NoOpener
<1>3. Posted'
  BY DEF Idle, Posted
<1>4. Silenced'
  <2> SUFFICES ASSUME NEW t \in Threads, NEW u \in Threads,
                      pc'[u] \in {"closeFile", "postIdle"}, pc'[t] \in RecordPc,
                      socket'[view] \in openSockets'
               PROVE  FALSE
    BY DEF Silenced
  <2>1. pc[u] \in {"closeFile", "postIdle"} /\ socket[view] \in openSockets
    OBVIOUS
  <2>2. CASE pc[t] \in RecordPc
    BY <2>1, <2>2 DEF Idle, Silenced
  <2>3. CASE pc[t] \in OpeningPc
    BY <2>1, <2>3 DEF Idle, NoOpener, EndPc
  <2>4. QED
    BY <2>2, <2>3
<1>5. StoppedIfIdle'
  BY DEF Idle, StoppedIfIdle, Posted
<1>6. QED
  BY <1>1, <1>2, <1>3, <1>4, <1>5 DEF Idle

(* One agent moves, or none; the field is not filled and what the button   *)
(* says remains.                                                           *)
LEMMA MoveIdle ==
    ASSUME TypeInv, Idle, NEW a \in Agents, NEW to, GoTo(a, to),
           view' = view, bp' = bp, shell' = shell, Shown(view)' = Shown(view),
           \/ socket'[view] \in openSockets' => socket[view] \in openSockets
           \/ to \notin RecordPc /\ \A u \in Threads \ {a} : pc[u] \notin RecordPc,
           a \in Threads => pc[a] \notin Over, to \notin StartPc,
           to \in WorkPc \cup {"killOut"} => pc[a] \in WorkPc \cup {"killOut"} \/ Usable(bp[view]),
           to \in OpeningPc => pc[a] \in OpeningPc,
           a \in Threads /\ to \in EndPc
                => \/ pc[a] \in EndPc
                   \/ \A u \in Threads \ {a} : pc[u] \notin OpeningPc \cup {"post"},
           to \in {"closeFile", "postIdle"}
                => \/ pc[a] \in {"closeFile", "postIdle"}
                   \/ socket'[view] \notin openSockets'
                   \/ \A u \in Threads \ {a} : pc[u] \notin RecordPc,
           to \in RecordPc => pc[a] \in RecordPc \cup OpeningPc
    PROVE  Idle'
<1>1. Threads \subseteq Agents
  BY Places
<1>2. pc'[a] = to /\ \A b \in Agents : b # a => pc'[b] = pc[b]
  BY Moves
<1>3. \A t \in Threads : pc'[t] \notin Over => pc[t] \notin Over
  BY <1>1, <1>2
<1>4. \A t \in Threads : pc'[t] \in StartPc => pc[t] \in StartPc
  BY <1>1, <1>2
<1>5. Alone' /\ HasShell'
  BY <1>3, <1>4 DEF Idle, Alone, HasShell
<1>6. Usable(bp[view]) => Usable(bp[view])'
  BY DEF Usable
<1>7. to # "post"
  BY DEF StartPc
<1>8. to \in EndPc => to \notin OpeningPc \cup {"post"} \cup RecordPc
  BY DEF EndPc, OpeningPc, SessionPc, PreField, RecordPc, CleanupPc
<1>9. \A t \in Threads : pc'[t] \in EndPc
         => pc[t] \in EndPc \/ \A u \in Threads : pc'[u] \notin OpeningPc \cup {"post"}
  BY <1>1, <1>2, <1>8
<1>10. \A t \in Threads : pc'[t] \in {"closeFile", "postIdle"}
         => \/ pc[t] \in {"closeFile", "postIdle"}
            \/ \A u \in Threads : pc'[u] \in RecordPc => socket'[view] \notin openSockets'
  BY <1>1, <1>2, <1>8 DEF EndPc
<1>11. QED
  BY <1>1, <1>2, <1>5, <1>6, <1>7, <1>9, <1>10, IdleFrame

LEMMA StayIdle ==
    ASSUME Idle, UNCHANGED <<view, pc, socket, openSockets>>, Shown(view)' = Shown(view),
           bp[view] # NONE => bp'[view] # NONE, Usable(bp[view]) => Usable(bp[view])'
    PROVE  Idle'
<1>1. Alone' /\ HasShell'
  BY DEF Idle, Alone, HasShell
<1>2. QED
  BY <1>1, IdleFrame DEF WorkPc, OpeningPc, EndPc

LEMMA OnlySession ==
    ASSUME Sockets, Writers, NEW t \in Threads, pc[t] \in SessionPc
    PROVE  inst[t] = view /\ \A u \in Threads \ {t} : pc[u] \notin SessionPc
BY DEF Sockets, OneSession, Writers, OneView, Over, SessionPc, PreField, RecordPc

LEMMA PostCapturingIdle ==
    ASSUME TypeInv, Sockets, Writers, Idle, NEW t \in Threads, PostCapturing(t)
    PROVE  Idle'
<1>1. /\ pc[t] = "post" /\ inst[t] = view /\ view \in Instances
      /\ GoTo(t, "launch") /\ pending' = [pending EXCEPT ![view] = "capturing"]
      /\ UNCHANGED <<view, bp, shell>>
  BY Places, OnlySession DEF PostCapturing, PostValue, At, SessionPc, PreField, fieldVars,
                             rootVars, shellVars
<1>2. \A u \in Threads : u # t => pc[u] \in Over
  BY <1>1 DEF Idle, Alone, StartPc
<1>3. pc'[t] = "launch" /\ \A u \in Threads : u # t => pc'[u] = pc[u]
  BY <1>1, Moves, Places
<1>4. Shown(view)' = "capturing"
  BY <1>1, FragmentAssumption DEF Shown, TypeInv, TypeOK, FragmentTypeOK
<1>5. Usable(bp[view]) => Usable(bp[view])'
  BY <1>1 DEF Usable
<1>6. Alone' /\ HasShell'
  BY <1>1, <1>2, <1>3 DEF Idle, Alone, HasShell, Over
<1>7. QED
  BY <1>1, <1>2, <1>3, <1>4, <1>5, <1>6, IdleFrame
  DEF WorkPc, OpeningPc, EndPc, SessionPc, PreField, RecordPc, CleanupPc, StartPc, Over

LEMMA SessionIdle ==
    ASSUME Rooted, TypeInv, Sockets, Writers, Idle, NEW t \in Threads, SessionThread(t)
    PROVE  Idle'
<1> USE DEF WorkPc, OpeningPc, EndPc, SessionPc, PreField, RecordPc, CleanupPc, StartPc, Over
<1>1. t \in Agents /\ pc[t] \in SessionPc
  BY Places DEF SessionThread, PostCapturing, LaunchCsiutil, JobsOutput, TestSocket, NewSocket,
                AssignSocket, CreateFileCloses, CreateFileOpens, ReadSocketField,
                ReceiveThrows, Receive, WriteText, At
<1>2. inst[t] = view /\ view \in Instances /\ \A u \in Threads \ {t} : pc[u] \notin SessionPc
  BY <1>1, OnlySession, Places
<1>3. CASE PostCapturing(t)
  BY <1>3, PostCapturingIdle
<1>4. CASE LaunchCsiutil(t)
  <2>1. /\ pc[t] = "launch" /\ UNCHANGED <<view, bp, shell, socket, openSockets>>
        /\ Shown(view)' = Shown(view)
    BY <1>4 DEF LaunchCsiutil, Input, At, uiVars, fieldVars, loopbackVars, rootVars, shellVars,
                Shown
  <2>2. \/ GoTo(t, "jobs") /\ shell[bp[view]] = "up"
        \/ GoTo(t, "checkNull")
    BY <1>2, <1>4 DEF LaunchCsiutil, Input
  <2>3. bp[view] # NONE
    BY <2>1 DEF Idle, HasShell
  <2>4. QED
    BY <1>1, <1>2, <2>1, <2>2, <2>3, MoveIdle DEF Usable
<1>5. CASE JobsOutput(t) \/ TestSocket(t) \/ CreateFileCloses(t) \/ CreateFileOpens(t)
  <2>1. /\ UNCHANGED <<view, bp, shell, socket, openSockets>> /\ Shown(view)' = Shown(view)
        /\ pc[t] \in {"jobs", "testNull", "testClosed", "closeOld", "openNew"}
        /\ \E to \in {"testNull", "checkNull", "bind", "testClosed", "closeOld", "openNew", "loop"} :
             GoTo(t, to) /\ (to = "loop" => pc[t] = "openNew")
    BY <1>5 DEF JobsOutput, TestSocket, CreateFileCloses, CreateFileOpens, OnlyPc, At, uiVars,
                fieldVars, loopbackVars, rootVars, shellVars, Shown
  <2>2. QED
    BY <1>1, <1>2, <2>1, MoveIdle
<1>6. CASE NewSocket(t) \/ AssignSocket(t)
  <2>1. /\ UNCHANGED <<view, bp, shell>> /\ Shown(view)' = Shown(view)
        /\ pc[t] \in {"bind", "assign"}
        /\ \E to \in {"assign", "checkNull", "closeOld"} : GoTo(t, to)
    BY <1>6 DEF NewSocket, AssignSocket, At, uiVars, fieldVars, rootVars, shellVars, Shown
  <2>2. QED
    BY <1>1, <1>2, <2>1, MoveIdle
<1>7. CASE ReadSocketField(t) \/ ReceiveThrows(t) \/ Receive(t) \/ WriteText(t)
  <2>1. /\ UNCHANGED <<view, bp, shell, socket, openSockets>> /\ Shown(view)' = Shown(view)
        /\ pc[t] \in RecordPc
        /\ \E to \in {"loop", "checkNull", "receive", "write"} : GoTo(t, to)
    BY <1>7 DEF ReadSocketField, ReceiveThrows, Receive, WriteText, TakeDatagram, At, uiVars,
                fieldVars, loopbackVars, rootVars, shellVars, Shown
  <2>2. QED
    BY <1>1, <1>2, <2>1, MoveIdle
<1>8. QED
  BY <1>3, <1>4, <1>5, <1>6, <1>7 DEF SessionThread

(* kill finds a shell that is up, so a session that is opening its socket  *)
(* is waited for.                                                          *)
LEMMA StopIdle ==
    ASSUME Timely, TypeInv, Sockets, Writers, Idle, NEW t \in Threads, StopThread(t)
    PROVE  Idle'
<1> USE DEF WorkPc, OpeningPc, EndPc, SessionPc, PreField, RecordPc, CleanupPc, StartPc, Over
<1>1. t \in Agents /\ pc[t] \in {"kill", "killOut"}
  BY Places DEF StopThread, KillJob, KillOutput, At
<1>2. /\ inst[t] = view /\ view \in Instances /\ bp[view] # NONE
      /\ \A u \in Threads \ {t} : pc[u] \notin StartPc
  BY <1>1, Places DEF Writers, OneView, Idle, HasShell, Alone
<1>3. /\ UNCHANGED <<view, bp, shell, socket, openSockets>> /\ Shown(view)' = Shown(view)
  BY DEF StopThread, KillJob, KillOutput, Input, OnlyPc, uiVars,
         fieldVars, loopbackVars, rootVars, shellVars, Shown
<1>4. CASE GoTo(t, "killOut") /\ shell[bp[view]] = "up"
  BY <1>1, <1>2, <1>3, <1>4, MoveIdle DEF Usable
<1>5. CASE shell[bp[view]] # "up" /\ pc[t] = "kill" /\ GoTo(t, "postIdle")
  <2>1. \A u \in Threads : pc[u] \notin WorkPc
    BY <1>5 DEF Idle, ShellUp, Usable
  <2>2. QED
    BY <1>1, <1>2, <1>3, <1>5, <2>1, MoveIdle
<1>6. CASE KillOutput(t)
  <2>1. pc[t] = "killOut"
    BY <1>6 DEF KillOutput, At
  <2>2. shell[bp[view]] = "up"
    BY <2>1 DEF Idle, ShellUp, Usable
  <2>3. GoTo(t, "checkNull")
    BY <1>2, <1>6, <2>2 DEF KillOutput
  <2>4. \A u \in Threads \ {t} : pc[u] \notin OpeningPc \cup {"post"}
    <3>1. ASSUME NEW u \in Threads \ {t}, pc[u] \in OpeningPc PROVE FALSE
      <4>1. u \in Active(inst[t])
        BY <1>2, <3>1 DEF Active, Writers, OneView
      <4>2. ~Opening(u)
        BY <1>6, <4>1 DEF KillOutput, Timely
      <4>3. QED
        BY <3>1, <4>2 DEF Opening
    <3>2. QED
      BY <1>2, <3>1
  <2>5. QED
    BY <1>1, <1>2, <1>3, <2>1, <2>3, <2>4, MoveIdle
<1>7. QED
  BY <1>2, <1>4, <1>5, <1>6 DEF StopThread, KillJob, Input, At

(* The thread that says idle leaves no session behind that could still     *)
(* receive.                                                                *)
LEMMA PostIdleIdle ==
    ASSUME TypeInv, Writers, Idle, NEW t \in Threads, PostIdle(t)
    PROVE  Idle'
<1> USE DEF WorkPc, OpeningPc, EndPc, SessionPc, PreField, RecordPc, CleanupPc, StartPc, Over
<1>1. /\ pc[t] = "postIdle" /\ GoTo(t, "done")
      /\ UNCHANGED <<view, bp, shell, socket, openSockets>>
  BY DEF PostIdle, At, fieldVars, loopbackVars, rootVars, shellVars
<1>2. pc'[t] = "done" /\ \A u \in Threads : u # t => pc'[u] = pc[u]
  BY <1>1, Moves, Places
<1>3. \A u \in Threads : pc[u] \notin OpeningPc /\ (pc[u] \in RecordPc => socket[view] \notin openSockets)
  BY <1>1 DEF Idle, NoOpener, Silenced
<1>4. Usable(bp[view]) => Usable(bp[view])'
  BY <1>1 DEF Usable
<1>5. Alone' /\ HasShell'
  BY <1>1, <1>2 DEF Idle, Alone, HasShell
<1>6. QED
  BY <1>1, <1>2, <1>3, <1>4, <1>5, IdleFrame

LEMMA CleanupIdle ==
    ASSUME TypeInv, Writers, Idle, NEW a \in Agents, Cleanup(a)
    PROVE  Idle'
<1> USE DEF WorkPc, OpeningPc, EndPc, SessionPc, PreField, RecordPc, CleanupPc, StartPc, Over
<1>1. UNCHANGED <<view, bp, shell>> /\ Shown(view)' = Shown(view)
  BY DEF Cleanup, CheckNull, CheckClosed, CloseTheSocket, SetNull, Crash, OnlyPc,
         fieldVars, uiVars, rootVars, shellVars, Shown
<1>2. CASE Crash
  BY <1>1, <1>2, StayIdle DEF Crash, fieldVars, loopbackVars, Usable, rootVars, shellVars
<1>3. CASE ~Crash
  <2>1. pc[a] \in CleanupPc
    BY DEF Cleanup, CheckNull, CheckClosed, CloseTheSocket, SetNull, At
  <2>2. /\ a \in Threads => inst[a] = view /\ view \in Instances
        /\ a \notin Threads => AfterCleanup(a) = "looper"
        /\ AfterCleanup(a) \in {"looper", "closeFile"}
        /\ view \in Instances \/ \A u \in Threads : pc[u] \notin RecordPc
        /\ inst[a] \in Instances /\ NONE \notin openSockets
    BY <2>1, Places DEF Writers, OneView, AfterCleanup, Agents
  <2>3. CASE CheckNull(a)
    <3>1. UNCHANGED <<socket, openSockets>>
      BY <2>3 DEF CheckNull, OnlyPc, fieldVars, loopbackVars
    <3>2. \/ GoTo(a, "checkClosed")
          \/ GoTo(a, AfterCleanup(a)) /\ socket[inst[a]] = NONE
      BY <2>3 DEF CheckNull
    <3>3. QED
      BY <1>1, <2>1, <2>2, <3>1, <3>2, MoveIdle
  <2>4. CASE CheckClosed(a) \/ CloseTheSocket(a)
    <3>1. /\ socket' = socket /\ openSockets' \subseteq openSockets
          /\ \E to \in {"close", "setNull"} : GoTo(a, to)
      BY <1>3, <2>4 DEF CheckClosed, CloseTheSocket, CloseSocket, OnlyPc, fieldVars, loopbackVars
    <3>2. QED
      BY <1>1, <2>1, <2>2, <3>1, MoveIdle
  <2>5. CASE SetNull(a)
    <3>1. /\ openSockets' = openSockets /\ GoTo(a, AfterCleanup(a))
          /\ socket' = [socket EXCEPT ![inst[a]] = NONE]
          /\ socket \in [Instances -> Threads \cup {NONE}]
      BY <2>5, Places DEF SetNull, loopbackVars
    <3>2. view \in Instances => socket'[view] \in {NONE, socket[view]}
      BY <3>1
    <3>3. a \in Threads => socket'[view] = NONE
      BY <2>2, <3>1
    <3>4. QED
      BY <1>1, <2>1, <2>2, <3>1, <3>2, <3>3, MoveIdle
  <2>6. QED
    BY <1>3, <2>3, <2>4, <2>5 DEF Cleanup
<1>4. QED
  BY <1>2, <1>3

LEMMA UserIdle ==
    ASSUME Patient, Stays, TypeInv, Sockets, Writers, Idle, NEW i \in Instances,
           DispatchPosted(i) \/ User(i)
    PROVE  Idle'
<1> USE DEF WorkPc, OpeningPc, EndPc, SessionPc, PreField, RecordPc, CleanupPc, StartPc, Over
<1>1. ASSUME view = NONE \/ Active(view) = {}
      PROVE  \A t \in Threads : pc[t] \in Over
  BY <1>1, Places DEF Active, Writers, OneView
<1>2. ASSUME \A t \in Threads : pc'[t] \in Over PROVE Idle'
  BY <1>2 DEF Idle, Alone, HasShell, ShellUp, NoOpener, Posted, Silenced, StoppedIfIdle
<1>3. CASE DispatchPosted(i)
  <2>1. UNCHANGED <<view, pc, socket, openSockets, bp, shell>>
    BY <1>3 DEF DispatchPosted, fieldVars, loopbackVars, rootVars, shellVars
  <2>2. view \in Instances => Shown(view)' = Shown(view)
    BY <1>3, FragmentAssumption DEF DispatchPosted, Shown, TypeInv, TypeOK, FragmentTypeOK
  <2>3. CASE view \in Instances
    BY <2>1, <2>2, <2>3, StayIdle DEF Usable
  <2>4. CASE view \notin Instances
    <3>1. \A t \in Threads : pc[t] \in Over
      BY <2>4, Places DEF Writers, OneView
    <3>2. QED
      BY <1>2, <2>1, <3>1
  <2>5. QED
    BY <2>3, <2>4
<1>4. CASE OnCreateView(i)
  BY <1>1, <1>2, <1>4 DEF OnCreateView
<1>5. CASE OpenRoot(i)
  <2>1. /\ view = i /\ ~Usable(bp[view]) /\ UNCHANGED <<view, pc, socket, openSockets>>
        /\ Shown(view)' = Shown(view)
    BY <1>5 DEF OpenRoot, Patient, loopbackVars, uiVars, Shown
  <2>2. PICK s \in Shells : bp' = [bp EXCEPT ![i] = s]
    BY <1>5 DEF OpenRoot
  <2>3. bp'[view] # NONE
    BY <2>1, <2>2, NoneAssumption DEF TypeInv, TypeOK, FragmentTypeOK
  <2>4. QED
    BY <2>1, <2>3, StayIdle
<1>6. CASE RestartNic(i) \/ EditNumbers(i) \/ ClickThrows(i)
  <2>1. UNCHANGED <<view, pc, socket, openSockets, bp, shell, mState, pending>>
    BY <1>6 DEF RestartNic, EditNumbers, ClickThrows, Crash, Input, fragmentVars, fieldVars,
                uiVars, loopbackVars, rootVars, shellVars
  <2>2. QED
    BY <2>1, StayIdle DEF Shown, Usable
<1>7. CASE OnDestroyView(i)
  <2>1. view = i /\ Active(view) = {} /\ (pc' = pc \/ GoTo(Main, "checkNull"))
    BY <1>7 DEF OnDestroyView, Stays
  <2>2. \A t \in Threads : pc'[t] = pc[t]
    BY <2>1, Places, Moves
  <2>3. QED
    BY <1>1, <1>2, <2>1, <2>2
<1>8. CASE ClickStartStop(i)
  <2>1. PICK t \in Threads :
          pc[t] = "unborn" /\ GoTo(t, IF mState[i] = "idle" THEN "post" ELSE "kill")
    BY <1>8 DEF ClickStartStop, Pressed
  <2>2. /\ view = i /\ bp[view] # NONE /\ Shown(view)' = Shown(view)
        /\ UNCHANGED <<view, bp, shell, socket, openSockets>>
    BY <1>8 DEF ClickStartStop, Pressed, uiVars, fieldVars, loopbackVars, rootVars, shellVars,
                Shown
  <2>3. /\ pc'[t] = IF mState[i] = "idle" THEN "post" ELSE "kill"
        /\ \A u \in Threads : u # t => pc'[u] = pc[u]
    BY <2>1, Moves, Places
  <2>4. \A u \in Threads : pc[u] \notin Over => u \in Active(i)
    BY <2>2 DEF Active, Writers, OneView
  <2>5. Usable(bp[view]) => Usable(bp[view])'
    BY <2>2 DEF Usable
  <2>6. CASE mState[i] = "idle"
    <3>1. \A u \in Threads : pc[u] \in Over
      BY <1>8, <2>4, <2>6 DEF ClickStartStop, Pressed, Patient, UserWaited
    <3>2. pc'[t] = "post"
      BY <2>3, <2>6
    <3>3. QED
      BY <2>2, <2>3, <3>1, <3>2
      DEF Idle, Alone, HasShell, ShellUp, NoOpener, Posted, Silenced, StoppedIfIdle
  <2>7. CASE mState[i] # "idle"
    <3>1. \A u \in Threads : pc[u] \notin StartPc
      BY <1>8, <2>4 DEF ClickStartStop, Pressed, Patient, UserWaited
    <3>2. pc'[t] = "kill"
      BY <2>3, <2>7
    <3>3. Alone' /\ HasShell'
      BY <2>2, <2>3, <3>1, <3>2 DEF Alone, HasShell
    <3>4. QED
      BY <2>1, <2>2, <2>3, <2>5, <3>2, <3>3, IdleFrame
  <2>8. QED
    BY <2>6, <2>7
<1>9. QED
  BY <1>3, <1>4, <1>5, <1>6, <1>7, <1>8 DEF User

LEMMA NextIdle ==
    ASSUME Patient, Stays, Timely, Rooted
    PROVE  TypeInv /\ Sockets /\ Writers /\ Idle /\ [Next]_vars => Idle'
<1> SUFFICES ASSUME TypeInv, Sockets, Writers, Idle, [Next]_vars PROVE Idle'
  OBVIOUS
<1>1. ASSUME NEW t \in Threads, BackgroundThread(t) PROVE Idle'
  <2>1. CASE CloseFile(t)
    <3>1. /\ pc[t] = "closeFile" /\ GoTo(t, "postIdle") /\ Shown(view)' = Shown(view)
          /\ UNCHANGED <<view, bp, shell, socket, openSockets>>
      BY <2>1 DEF CloseFile, At, fieldVars, uiVars, loopbackVars, rootVars, shellVars, Shown
    <3>2. QED
      BY <3>1, Places, MoveIdle
      DEF WorkPc, OpeningPc, EndPc, SessionPc, PreField, RecordPc, CleanupPc, StartPc, Over
  <2>2. QED
    BY <1>1, <2>1, Places, SessionIdle, StopIdle, CleanupIdle, PostIdleIdle DEF BackgroundThread
<1>2. CASE MainThread
  BY <1>2, Places, CleanupIdle, UserIdle DEF MainThread
<1>3. CASE /\ UNCHANGED <<view, pc, socket, bp, mState, pending>>
           /\ openSockets' = openSockets /\ shell' = shell
  BY <1>3, StayIdle DEF Shown, Usable
<1>4. ASSUME NEW s \in Shells, ShellProcess(s) PROVE Idle'
  BY <1>3, <1>4 DEF ShellProcess, ExecuteCommand, DropCommands, Rooted, fragmentVars,
                    fieldVars, uiVars, loopbackVars
<1>5. ASSUME NEW u \in Threads, CsiutilRuns(u) \/ FrameArrives(u) PROVE Idle'
  BY <1>3, <1>5 DEF CsiutilRuns, FrameArrives, PcapFails, SleepDelay, CreateUdpSendSocket,
         SendStop, CloseSendSocket, GotPacket, GotShortPacket, SendTo, Deliver, loopbackVars,
         shellVars, fragmentVars, fieldVars, uiVars
<1>6. CASE UNCHANGED vars
  BY <1>3, <1>6 DEF vars, rootVars, shellVars, fragmentVars, fieldVars, uiVars, loopbackVars
<1>7. QED
  BY <1>1, <1>2, <1>4, <1>5, <1>6 DEF Next

(* ... and if the root shell lives and the sleeps of the code suffice:     *)
(* while a session can still receive, the button says "stop", also after   *)
(* a stop whose kill failed to reach it (CaptureFragment:93-98, 261-277).  *)
THEOREM PatientIdleMeansStopped ==
    ASSUME Patient, Stays, Timely, Rooted PROVE Spec => []IdleMeansStopped
<1>1. TypeInv /\ Writers /\ Idle => IdleMeansStopped
  BY DEF IdleMeansStopped, Writers, OneView, Idle, StoppedIfIdle, RecordPc, Over
<1>2. QED
  BY <1>1, InitTypeInv, InitSockets, InitWriters, InitIdle,
     NextTypeInv, NextSockets, NextWriters, NextIdle, PTL DEF Spec

-----------------------------------------------------------------------------
(* The commands of an orderly capture *)

Base == TypeInv /\ LaunchedOnce /\ Recording /\ Sockets /\ Writers /\ Idle

LEMMA InitCommands == Init => Commands
<1> SUFFICES ASSUME Init PROVE Commands
  OBVIOUS
<1>1. /\ \A t \in Threads : pc[t] = "unborn" /\ utilPc[t] = "none" /\ host[t] = NONE
      /\ \A s \in Shells : job1[s] = NONE /\ stdin[s] = << >>
  BY FragmentAssumption DEF Init, RootInit, Agents
<1>2. QED
  BY <1>1 DEF Commands, Known, Waiting, KillSent, LaunchFirst, KillComes, OneRuns, JobRuns,
              LiveWorks, Running, Live

(* Threads move; no command is written or read, and no csiutil moves.      *)
LEMMA CommandsFrame ==
    ASSUME Commands, UNCHANGED <<stdin, utilPc, job1, host>>, bp'[view'] = bp[view],
           \A s \in Shells, u \in Threads : \A k \in 1..Len(stdin[s]) :
               Commanded(s, k, u) => pc'[u] = "jobs",
           \A v \in Threads : pc'[v] = "killOut" => pc[v] = "killOut",
           \A v \in Threads : pc[v] = "killOut" => pc'[v] = "killOut" \/ stdin[bp[view]] = << >>,
           \A u \in Threads : utilPc[u] \in Live =>
               /\ pc'[u] \in WorkPc
               /\ \A v \in Threads : v # u => pc'[v] \in Over \cup {"kill", "killOut"}
    PROVE  Commands'
<1>1. Known'
  BY DEF Commands, Known, KillAt, KillCmd, Commanded, LaunchCmd, IfconfigCmd
<1>2. Waiting'
  BY DEF Commands, Waiting, Commanded, LaunchCmd
<1>3. KillSent'
  BY DEF Commands, KillSent, KillAt, KillCmd
<1>4. LaunchFirst'
  BY DEF Commands, LaunchFirst, KillAt, KillCmd, Commanded, LaunchCmd
<1>5. KillComes'
  BY DEF Commands, KillComes, KillAt, KillCmd, Commanded, LaunchCmd
<1>6. OneRuns' /\ JobRuns'
  BY DEF Commands, OneRuns, JobRuns
<1>7. LiveWorks'
  BY DEF Commands, LiveWorks
<1>8. QED
  BY <1>1, <1>2, <1>3, <1>4, <1>5, <1>6, <1>7 DEF Commands

(* No session is at work and no stop has sent its kill. *)
AtRest ==
    /\ \A u \in Threads : utilPc[u] \notin Live /\ pc[u] # "killOut"
    /\ \A s \in Shells : \A k \in 1..Len(stdin[s]) :
         ~KillAt(s, k) /\ \A u \in Threads : ~Commanded(s, k, u)

LEMMA RestFound ==
    ASSUME Commands, \A t \in Threads : pc[t] \notin WorkPc \cup {"killOut"}
    PROVE  AtRest
BY DEF Commands, LiveWorks, Waiting, KillSent, AtRest, WorkPc, StartPc, SessionPc, PreField

LEMMA RestCommands ==
    ASSUME Commands, AtRest', UNCHANGED <<utilPc, job1, host>>, Known'
    PROVE  Commands'
<1>1. Waiting' /\ KillSent' /\ LaunchFirst' /\ KillComes' /\ LiveWorks'
  BY DEF AtRest, Waiting, KillSent, LaunchFirst, KillComes, LiveWorks
<1>2. OneRuns' /\ JobRuns'
  BY DEF Commands, OneRuns, JobRuns
<1>3. QED
  BY <1>1, <1>2 DEF Commands

LEMMA RestStays ==
    ASSUME Commands, AtRest, UNCHANGED <<stdin, utilPc, job1, host>>,
           \A v \in Threads : pc'[v] = "killOut" => pc[v] = "killOut"
    PROVE  Commands'
<1>1. AtRest'
  BY DEF AtRest, KillAt, KillCmd, Commanded, LaunchCmd
<1>2. Known'
  BY DEF Commands, Known, KillAt, KillCmd, Commanded, LaunchCmd, IfconfigCmd
<1>3. QED
  BY <1>1, <1>2, RestCommands

(* One agent moves. *)
LEMMA MoveCommands ==
    ASSUME TypeInv, Commands, NEW a \in Agents, NEW to, GoTo(a, to),
           UNCHANGED <<stdin, utilPc, job1, host, view, bp>>,
           pc[a] \in {"jobs", "killOut"} => stdin[bp[view]] = << >>,
           to # "killOut",
           \A u \in Threads : utilPc[u] \in Live
               => IF a = u THEN to \in WorkPc ELSE a \in Threads => to \in Over \cup {"kill"}
    PROVE  Commands'
<1>1. Threads \subseteq Agents
  BY Places
<1>2. pc'[a] = to /\ \A b \in Agents : b # a => pc'[b] = pc[b]
  BY Moves
<1>3. \A s \in Shells, u \in Threads : \A k \in 1..Len(stdin[s]) :
        Commanded(s, k, u) => pc'[u] = "jobs"
  BY <1>1, <1>2 DEF Commands, Waiting
<1>4. \A u \in Threads : utilPc[u] \in Live =>
        /\ pc'[u] \in WorkPc
        /\ \A v \in Threads : v # u => pc'[v] \in Over \cup {"kill", "killOut"}
  BY <1>1, <1>2 DEF Commands, LiveWorks
<1>5. QED
  BY <1>1, <1>2, <1>3, <1>4, CommandsFrame

(* A command is written to the shell. *)
LEMMA CommandAppended ==
    ASSUME TypeInv, NEW b \in Shells, NEW cmd \in Command, Input(b, cmd)
    PROVE  /\ \A s \in Shells : Len(stdin[s]) \in Nat
           /\ \A s \in Shells : \A k \in 1..Len(stdin[s]) :
                k \in 1..Len(stdin'[s]) /\ stdin'[s][k] = stdin[s][k]
           /\ Len(stdin[b]) + 1 \in 1..Len(stdin'[b]) /\ stdin'[b][Len(stdin[b]) + 1] = cmd
           /\ \A s \in Shells : \A k \in 1..Len(stdin'[s]) :
                k \in 1..Len(stdin[s]) \/ (s = b /\ k = Len(stdin[b]) + 1)
<1>1. stdin \in [Shells -> Seq(Command)] /\ stdin' = [stdin EXCEPT ![b] = Append(@, cmd)]
  BY DEF Input, TypeInv, TypeOK, RootTypeOK
<1>2. stdin'[b] = Append(stdin[b], cmd) /\ \A s \in Shells : s # b => stdin'[s] = stdin[s]
  BY <1>1
<1>3. /\ Len(stdin[b]) \in Nat /\ Len(Append(stdin[b], cmd)) = Len(stdin[b]) + 1
      /\ \A k \in 1..Len(stdin[b]) : Append(stdin[b], cmd)[k] = stdin[b][k]
      /\ Append(stdin[b], cmd)[Len(stdin[b]) + 1] = cmd
  BY <1>1, AppendOne
<1>4. \A s \in Shells : Len(stdin[s]) \in Nat
  BY <1>1
<1>5. /\ Len(stdin'[b]) = Len(stdin[b]) + 1
      /\ \A k \in 1..Len(stdin[b]) : stdin'[b][k] = stdin[b][k]
      /\ stdin'[b][Len(stdin[b]) + 1] = cmd
  BY <1>2, <1>3
<1>6. ASSUME NEW s \in Shells, NEW k \in 1..Len(stdin[s])
      PROVE  k \in 1..Len(stdin'[s]) /\ stdin'[s][k] = stdin[s][k]
  BY <1>2, <1>4, <1>5
<1>7. ASSUME NEW s \in Shells, NEW k \in 1..Len(stdin'[s])
      PROVE  k \in 1..Len(stdin[s]) \/ (s = b /\ k = Len(stdin[b]) + 1)
  BY <1>2, <1>4, <1>5
<1>8. Len(stdin[b]) + 1 \in 1..Len(stdin'[b])
  BY <1>3, <1>5
<1>9. QED
  BY <1>4, <1>5, <1>6, <1>7, <1>8

LEMMA ShellFound ==
    ASSUME TypeInv, Idle, NEW t \in Threads, pc[t] \notin Over
    PROVE  bp[view] # NONE /\ (view \in Instances => bp[view] \in Shells)
BY DEF Idle, HasShell, TypeInv, TypeOK, FragmentTypeOK

(* The session that writes its command line is the only thread. *)
LEMMA LaunchCommands ==
    ASSUME Base, Commands, NEW t \in Threads, pc[t] = "launch", GoTo(t, "jobs"),
           Input(bp[view], LaunchCmd(t)), UNCHANGED <<view, bp>>
    PROVE  Commands'
<1>1. view \in Instances /\ bp[view] \in Shells /\ LaunchCmd(t) \in Command
      /\ TypeInv /\ t \in Agents
  BY ShellFound, Places, OnlySession
  DEF Base, Over, SessionPc, PreField, LaunchCmd, Command
<1>2. \A u \in Threads : u # t => pc[u] \in Over
  BY DEF Base, Idle, Alone, StartPc
<1>3. pc'[t] = "jobs" /\ \A u \in Threads : u # t => pc'[u] = pc[u]
  BY <1>1, Moves, Places
<1>4. AtRest
  BY <1>2, RestFound DEF WorkPc, StartPc, SessionPc, PreField, RecordPc, Over
<1>5. PICK b \in Shells : b = bp[view]
  BY <1>1
<1>6. PICK n \in Nat : n = Len(stdin[b])
  BY <1>1, <1>5, CommandAppended
<1>7. UNCHANGED <<utilPc, job1, host>>
  BY DEF Input, utilVars
<1>8. ASSUME NEW s \in Shells, NEW k \in 1..Len(stdin'[s])
      PROVE  \/ stdin'[s][k] = IfconfigCmd
             \/ s = b /\ k = n + 1 /\ stdin'[s][k] = LaunchCmd(t)
  <2>1. CASE k \in 1..Len(stdin[s])
    <3>1. stdin'[s][k] = stdin[s][k]
      BY <1>1, <2>1, CommandAppended
    <3>2. stdin[s][k] = IfconfigCmd
      BY <1>4, <2>1 DEF AtRest, Commands, Known
    <3>3. QED
      BY <3>1, <3>2
  <2>2. CASE s = b /\ k = n + 1
    BY <1>1, <1>5, <1>6, <2>2, CommandAppended
  <2>3. QED
    BY <1>1, <1>5, <1>6, <2>1, <2>2, CommandAppended
<1>9. ASSUME NEW s \in Shells, NEW k \in 1..Len(stdin'[s])
      PROVE  /\ ~KillAt(s, k)'
             /\ \A u \in Threads : Commanded(s, k, u)' => s = b /\ k = n + 1 /\ u = t
  BY <1>8 DEF KillAt, KillCmd, IfconfigCmd, LaunchCmd, Commanded
<1>10. Known'
  BY <1>8 DEF Known, KillAt, Commanded, IfconfigCmd, LaunchCmd
<1>11. Waiting' /\ KillSent' /\ LaunchFirst'
  BY <1>3, <1>5, <1>9 DEF Waiting, KillSent, LaunchFirst
<1>12. KillComes' /\ LiveWorks'
  BY <1>2, <1>3, <1>4, <1>7 DEF KillComes, LiveWorks, AtRest, Over
<1>13. OneRuns' /\ JobRuns'
  BY <1>7 DEF Commands, OneRuns, JobRuns
<1>14. QED
  BY <1>10, <1>11, <1>12, <1>13 DEF Commands

(* kill comes after the launch it is meant for. *)
LEMMA KillCommands ==
    ASSUME Base, Commands, NEW t \in Threads, pc[t] = "kill", GoTo(t, "killOut"),
           Input(bp[view], KillCmd), UNCHANGED <<view, bp>>
    PROVE  Commands'
<1>1. view \in Instances /\ bp[view] \in Shells /\ KillCmd \in Command
      /\ TypeInv /\ t \in Agents
  BY ShellFound, Places DEF Base, Writers, OneView, Over, KillCmd, Command
<1>2. pc'[t] = "killOut" /\ \A u \in Threads : u # t => pc'[u] = pc[u]
  BY <1>1, Moves, Places
<1>3. UNCHANGED <<utilPc, job1, host>>
  BY DEF Input, utilVars
<1>4. PICK b \in Shells : b = bp[view]
  BY <1>1
<1>5. PICK n \in Nat : n = Len(stdin[b])
  BY <1>1, <1>4, CommandAppended
<1>6. KillAt(b, n + 1)' /\ n + 1 \in 1..Len(stdin'[b])
  BY <1>1, <1>4, <1>5, CommandAppended DEF KillAt, KillCmd
<1>7. ASSUME NEW s \in Shells, NEW k \in 1..Len(stdin'[s])
      PROVE  \/ k \in 1..Len(stdin[s]) /\ stdin'[s][k] = stdin[s][k]
             \/ s = b /\ k = n + 1 /\ stdin'[s][k] = KillCmd
  BY <1>1, <1>4, <1>5, CommandAppended
<1>8. ASSUME NEW s \in Shells, NEW k \in 1..Len(stdin'[s]), NEW u \in Threads, Commanded(s, k, u)'
      PROVE  k \in 1..Len(stdin[s]) /\ Commanded(s, k, u)
  BY <1>7, <1>8 DEF Commanded, LaunchCmd, KillCmd
<1>9. ASSUME NEW s \in Shells, NEW k \in 1..Len(stdin'[s]), KillAt(s, k)'
      PROVE  (k \in 1..Len(stdin[s]) /\ KillAt(s, k)) \/ (s = b /\ k = n + 1)
  BY <1>7, <1>9 DEF KillAt, KillCmd
<1>10. Known'
  <2>1. ASSUME NEW s \in Shells, NEW k \in 1..Len(stdin'[s])
        PROVE  KillAt(s, k)' \/ stdin'[s][k] = IfconfigCmd \/ \E u \in Threads : Commanded(s, k, u)'
    <3>1. CASE stdin'[s][k] = KillCmd
      BY <3>1 DEF KillAt, KillCmd
    <3>2. CASE k \in 1..Len(stdin[s]) /\ stdin'[s][k] = stdin[s][k]
      BY <3>2 DEF Commands, Known, KillAt, KillCmd, Commanded, LaunchCmd
    <3>3. QED
      BY <1>7, <3>1, <3>2
  <2>2. QED
    BY <2>1 DEF Known, IfconfigCmd
<1>11. Waiting'
  BY <1>2, <1>8 DEF Commands, Waiting
<1>12. KillSent'
  <2>1. ASSUME NEW s \in Shells, NEW k \in 1..Len(stdin'[s]), KillAt(s, k)' PROVE s = b
    BY <1>4, <1>9, <2>1 DEF Commands, KillSent
  <2>2. QED
    BY <1>2, <1>4, <2>1 DEF KillSent
<1>13. LaunchFirst'
  <2>1. ASSUME NEW s \in Shells, NEW u \in Threads, NEW j \in 1..Len(stdin'[s]),
               NEW k \in 1..Len(stdin'[s]), Commanded(s, j, u)', KillAt(s, k)'
        PROVE  j < k
    <3>1. j \in 1..Len(stdin[s]) /\ Commanded(s, j, u)
      BY <1>8, <2>1
    <3>2. CASE k \in 1..Len(stdin[s]) /\ KillAt(s, k)
      BY <3>1, <3>2 DEF Commands, LaunchFirst
    <3>3. CASE s = b /\ k = n + 1
      BY <1>5, <3>1, <3>3
    <3>4. QED
      BY <1>9, <2>1, <3>2, <3>3
  <2>2. QED
    BY <2>1 DEF LaunchFirst
<1>14. KillComes'
  BY <1>4, <1>6 DEF KillComes
<1>15. LiveWorks'
  BY <1>2, <1>3 DEF Commands, LiveWorks, WorkPc, StartPc, SessionPc, PreField, RecordPc
<1>16. OneRuns' /\ JobRuns'
  BY <1>3 DEF Commands, OneRuns, JobRuns
<1>17. QED
  BY <1>10, <1>11, <1>12, <1>13, <1>14, <1>15, <1>16 DEF Commands

LEMMA MenuCommands ==
    ASSUME Base, Commands, NEW i \in Instances, bp[i] # NONE,
           Input(bp[i], IfconfigCmd), UNCHANGED fragmentVars
    PROVE  Commands'
<1>1. bp[i] \in Shells /\ IfconfigCmd \in Command /\ IfconfigCmd.op = "ifconfig" /\ TypeInv
  BY DEF Base, TypeInv, TypeOK, FragmentTypeOK, IfconfigCmd, Command
<1>2. UNCHANGED <<utilPc, job1, host, pc, view, bp>>
  BY DEF Input, utilVars, fragmentVars, uiVars, fieldVars
<1>3. ASSUME NEW s \in Shells, NEW k \in 1..Len(stdin'[s])
      PROVE  \/ k \in 1..Len(stdin[s]) /\ stdin'[s][k] = stdin[s][k]
             \/ stdin'[s][k] = IfconfigCmd
  BY <1>1, CommandAppended
<1>4. ASSUME NEW s \in Shells, NEW k \in 1..Len(stdin'[s]), NEW u \in Threads, Commanded(s, k, u)'
      PROVE  k \in 1..Len(stdin[s]) /\ Commanded(s, k, u)
  BY <1>3, <1>4 DEF Commanded, LaunchCmd, IfconfigCmd
<1>5. ASSUME NEW s \in Shells, NEW k \in 1..Len(stdin'[s]), KillAt(s, k)'
      PROVE  k \in 1..Len(stdin[s]) /\ KillAt(s, k)
  BY <1>3, <1>5 DEF KillAt, KillCmd, IfconfigCmd
<1>6. Known'
  BY <1>3 DEF Commands, Known, KillAt, KillCmd, Commanded, LaunchCmd, IfconfigCmd
<1>7. Waiting' /\ KillSent'
  BY <1>2, <1>4, <1>5 DEF Commands, Waiting, KillSent
<1>8. LaunchFirst'
  BY <1>4, <1>5 DEF Commands, LaunchFirst
<1>9. KillComes'
  <2>1. ASSUME NEW v \in Threads, NEW u \in Threads, NEW b, b = bp[view], pc[v] = "killOut",
               utilPc[u] \in Live \/ \E k \in 1..Len(stdin'[b]) : Commanded(b, k, u)'
        PROVE  \E k \in 1..Len(stdin'[b]) : KillAt(b, k)'
    <3>1. b \in Shells
      <4>1. pc[v] \notin Over /\ inst[v] \in Instances
        BY <1>1, <2>1, Places DEF Over
      <4>2. inst[v] = view /\ Idle
        BY <4>1 DEF Base, Writers, OneView
      <4>3. QED
        BY <1>1, <2>1, <4>1, <4>2, ShellFound
    <3>2. \E k \in 1..Len(stdin[b]) : KillAt(b, k)
      BY <1>4, <2>1, <3>1 DEF Commands, KillComes
    <3>3. \A k \in 1..Len(stdin[b]) : k \in 1..Len(stdin'[b]) /\ stdin'[b][k] = stdin[b][k]
      BY <1>1, <3>1, CommandAppended
    <3>4. QED
      BY <3>2, <3>3 DEF KillAt, KillCmd
  <2>2. QED
    BY <1>2, <2>1 DEF KillComes
<1>10. OneRuns' /\ JobRuns' /\ LiveWorks'
  BY <1>2 DEF Commands, OneRuns, JobRuns, LiveWorks
<1>11. QED
  BY <1>6, <1>7, <1>8, <1>9, <1>10 DEF Commands

-----------------------------------------------------------------------------
(* The shell works off its commands *)

LEMMA CommandTaken ==
    ASSUME TypeInv, NEW s \in Shells, stdin[s] # << >>,
           stdin' = [stdin EXCEPT ![s] = Tail(@)]
    PROVE  /\ 1 \in 1..Len(stdin[s]) /\ Head(stdin[s]) = stdin[s][1]
           /\ \A r \in Shells : r # s => stdin'[r] = stdin[r]
           /\ \A k \in 1..Len(stdin'[s]) :
                k + 1 \in 1..Len(stdin[s]) /\ stdin'[s][k] = stdin[s][k + 1]
           /\ \A k \in 1..Len(stdin[s]) :
                k # 1 => k - 1 \in 1..Len(stdin'[s]) /\ stdin'[s][k - 1] = stdin[s][k]
<1>1. stdin[s] \in Seq(Command) /\ stdin'[s] = Tail(stdin[s])
      /\ \A r \in Shells : r # s => stdin'[r] = stdin[r]
  BY DEF TypeInv, TypeOK, RootTypeOK
<1>2. /\ Len(stdin[s]) \in Nat \ {0} /\ Len(Tail(stdin[s])) = Len(stdin[s]) - 1
      /\ Head(stdin[s]) = stdin[s][1]
      /\ \A k \in 1..Len(stdin[s]) - 1 : Tail(stdin[s])[k] = stdin[s][k + 1]
  BY <1>1, TailOne
<1>3. ASSUME NEW k \in 1..Len(stdin'[s])
      PROVE  k + 1 \in 1..Len(stdin[s]) /\ stdin'[s][k] = stdin[s][k + 1]
  <2>1. k \in 1..Len(stdin[s]) - 1
    BY <1>1, <1>2
  <2>2. k + 1 \in 1..Len(stdin[s])
    BY <1>2, <2>1
  <2>3. Tail(stdin[s])[k] = stdin[s][k + 1]
    BY <1>2, <2>1
  <2>4. QED
    BY <1>1, <2>2, <2>3
<1>4. ASSUME NEW k \in 1..Len(stdin[s]), k # 1
      PROVE  k - 1 \in 1..Len(stdin'[s]) /\ stdin'[s][k - 1] = stdin[s][k]
  <2>1. k - 1 \in 1..Len(stdin[s]) - 1 /\ (k - 1) + 1 = k
    BY <1>2, <1>4
  <2>2. QED
    BY <1>1, <1>2, <2>1
<1>5. QED
  BY <1>1, <1>2, <1>3, <1>4

(* What is still waiting was waiting before. *)
LEMMA TakenFrame ==
    ASSUME TypeInv, Commands, NEW s \in Shells, stdin[s] # << >>,
           stdin' = [stdin EXCEPT ![s] = Tail(@)], UNCHANGED <<pc, view, bp>>
    PROVE  Known' /\ Waiting' /\ KillSent' /\ LaunchFirst'
<1>1. ASSUME NEW r \in Shells, NEW k \in 1..Len(stdin'[r])
      PROVE  \E j \in 1..Len(stdin[r]) :
               stdin'[r][k] = stdin[r][j] /\ j = IF r = s THEN k + 1 ELSE k
  BY CommandTaken
<1>2. Known'
  <2>1. ASSUME NEW r \in Shells, NEW k \in 1..Len(stdin'[r])
        PROVE  KillAt(r, k)' \/ stdin'[r][k] = IfconfigCmd \/ \E u \in Threads : Commanded(r, k, u)'
    <3>1. PICK j \in 1..Len(stdin[r]) : stdin'[r][k] = stdin[r][j]
      BY <1>1
    <3>2. QED
      BY <3>1 DEF Commands, Known, KillAt, KillCmd, Commanded, LaunchCmd
  <2>2. QED
    BY <2>1 DEF Known, IfconfigCmd
<1>3. Waiting' /\ KillSent'
  <2>1. ASSUME NEW r \in Shells, NEW k \in 1..Len(stdin'[r])
        PROVE  /\ \A u \in Threads : Commanded(r, k, u)' => pc[u] = "jobs" /\ r = bp[view]
               /\ KillAt(r, k)' => r = bp[view] /\ \E v \in Threads : pc[v] = "killOut"
    BY <1>1 DEF Commands, Waiting, KillSent, KillAt, KillCmd, Commanded, LaunchCmd
  <2>2. QED
    BY <2>1 DEF Waiting, KillSent
<1>4. LaunchFirst'
  <2>1. ASSUME NEW r \in Shells, NEW u \in Threads, NEW j \in 1..Len(stdin'[r]),
               NEW k \in 1..Len(stdin'[r]), Commanded(r, j, u)', KillAt(r, k)'
        PROVE  j < k
    <3>1. PICK i \in 1..Len(stdin[r]) :
            stdin'[r][j] = stdin[r][i] /\ i = IF r = s THEN j + 1 ELSE j
      BY <1>1
    <3>2. PICK l \in 1..Len(stdin[r]) :
            stdin'[r][k] = stdin[r][l] /\ l = IF r = s THEN k + 1 ELSE k
      BY <1>1
    <3>3. Commanded(r, i, u) /\ KillAt(r, l)
      BY <2>1, <3>1, <3>2 DEF KillAt, KillCmd, Commanded, LaunchCmd
    <3>4. i < l
      BY <3>3 DEF Commands, LaunchFirst
    <3>5. QED
      BY <3>1, <3>2, <3>4
  <2>2. QED
    BY <2>1 DEF LaunchFirst
<1>5. QED
  BY <1>2, <1>3, <1>4

(* A kill that was waiting behind the first command still is. *)
LEMMA KillStillComes ==
    ASSUME TypeInv, Commands, NEW s \in Shells, stdin[s] # << >>,
           stdin' = [stdin EXCEPT ![s] = Tail(@)], UNCHANGED <<pc, view, bp>>,
           ~KillAt(s, 1),
           \A u \in Threads : utilPc'[u] \in Live => utilPc[u] \in Live \/ (s = bp[view] /\ Commanded(s, 1, u))
    PROVE  KillComes'
<1>1. ASSUME NEW v \in Threads, NEW u \in Threads, NEW b, b = bp[view], pc[v] = "killOut",
             utilPc'[u] \in Live \/ \E k \in 1..Len(stdin'[b]) : Commanded(b, k, u)'
      PROVE  \E k \in 1..Len(stdin'[b]) : KillAt(b, k)'
  <2>1. utilPc[u] \in Live \/ \E k \in 1..Len(stdin[b]) : Commanded(b, k, u)
    <3>1. CASE utilPc'[u] \in Live
      <4>1. 1 \in 1..Len(stdin[s])
        BY CommandTaken
      <4>2. QED
        BY <1>1, <3>1, <4>1
    <3>2. ASSUME NEW k \in 1..Len(stdin'[b]), Commanded(b, k, u)'
          PROVE  \E j \in 1..Len(stdin[b]) : Commanded(b, j, u)
      <4>1. CASE b = s
        BY <3>2, <4>1, CommandTaken DEF Commanded, LaunchCmd
      <4>2. CASE b # s
        <5>1. stdin'[b] = stdin[b]
          BY <4>2 DEF TypeInv, TypeOK, RootTypeOK
        <5>2. QED
          BY <3>2, <5>1 DEF Commanded, LaunchCmd
      <4>3. QED
        BY <4>1, <4>2
    <3>3. QED
      BY <1>1, <3>1, <3>2
  <2>2. PICK k \in 1..Len(stdin[b]) : KillAt(b, k)
    BY <1>1, <2>1 DEF Commands, KillComes
  <2>3. CASE b = s
    <3>1. k # 1
      BY <2>2, <2>3
    <3>2. \A j \in 1..Len(stdin[s]) :
            j # 1 => j - 1 \in 1..Len(stdin'[s]) /\ stdin'[s][j - 1] = stdin[s][j]
      BY CommandTaken
    <3>3. k - 1 \in 1..Len(stdin'[b]) /\ stdin'[b][k - 1] = stdin[b][k]
      BY <2>2, <2>3, <3>1, <3>2
    <3>4. QED
      BY <2>2, <3>3 DEF KillAt, KillCmd
  <2>4. CASE b # s
    <3>1. stdin'[b] = stdin[b]
      BY <2>4 DEF TypeInv, TypeOK, RootTypeOK
    <3>2. QED
      BY <2>2, <3>1 DEF KillAt, KillCmd
  <2>5. QED
    BY <2>3, <2>4
<1>2. QED
  BY <1>1 DEF KillComes

(* The shell launches a csiutil when no other one is left.                 *)
LEMMA RunCommands ==
    ASSUME Base, Commands, OwnField, NEW s \in Shells, NEW u \in Threads, stdin[s] # << >>,
           stdin' = [stdin EXCEPT ![s] = Tail(@)], UNCHANGED <<pc, view, bp>>,
           Commanded(s, 1, u), RunCsiutil(s, u), \A v \in Threads : utilPc[v] # "close"
    PROVE  Commands'
<1>1. /\ TypeInv /\ 1 \in 1..Len(stdin[s]) /\ NONE \notin Threads /\ NONE \notin Shells
      /\ pc \in [Agents -> ThreadPc \cup {"looper"}] /\ Threads \subseteq Agents
  BY CommandTaken, Places, NoneAssumption DEF Base
<1>2. pc[u] = "jobs" /\ s = bp[view] /\ utilPc[u] = "none"
  BY <1>1 DEF Commands, Waiting, Base, LaunchedOnce
<1>3. \A v \in Threads : v # u => pc[v] \notin SessionPc
  BY <1>2, OnlySession DEF Base, SessionPc, PreField
<1>4. \A v \in Threads : utilPc[v] \notin Running
  <2>1. \A v \in Threads : utilPc[v] \in Live => v # u /\ pc[v] \in SessionPc
    BY <1>2 DEF Commands, LiveWorks, WorkPc, Live
  <2>2. QED
    BY <1>3, <2>1 DEF Running
<1>5. \A v \in Threads : host[v] = NONE
  BY <1>4 DEF Commands, JobRuns
<1>6. \A r \in Shells : job1[r] = NONE
  BY <1>1, <1>4 DEF Commands, JobRuns, TypeInv, TypeOK, RootTypeOK
<1>7. ~HasLiveJob(s)
  BY <1>1, <1>5 DEF HasLiveJob
<1>8. /\ utilPc' = [utilPc EXCEPT ![u] = "open"] /\ host' = [host EXCEPT ![u] = s]
      /\ job1' = [job1 EXCEPT ![s] = u]
  BY <1>7 DEF RunCsiutil
<1>9. /\ utilPc'[u] = "open" /\ \A v \in Threads : v # u => utilPc'[v] = utilPc[v]
      /\ \A v \in Threads : v # u => host'[v] = NONE
      /\ job1'[s] = u /\ \A r \in Shells : r # s => job1'[r] = NONE
  BY <1>1, <1>5, <1>6, <1>8 DEF TypeInv, TypeOK, RootTypeOK
<1>10. ~KillAt(s, 1)
  BY DEF KillAt, KillCmd, Commanded, LaunchCmd
<1>11. \A v \in Threads : utilPc'[v] \in Live => v = u
  BY <1>4, <1>9 DEF Running
<1>12. Known' /\ Waiting' /\ KillSent' /\ LaunchFirst'
  BY <1>1, TakenFrame
<1>13. KillComes'
  BY <1>1, <1>2, <1>10, <1>11, KillStillComes
<1>14. OneRuns'
  BY <1>4, <1>9 DEF OneRuns
<1>15. JobRuns'
  BY <1>9 DEF JobRuns, Running, Live
<1>16. LiveWorks'
  <2>1. ASSUME NEW v \in Threads, v # u PROVE pc[v] \in Over \cup {"kill", "killOut"}
    <3>1. pc[v] \notin EndPc
      BY <1>2 DEF Base, Idle, NoOpener, OpeningPc, SessionPc, PreField, RecordPc
    <3>2. pc[v] \notin SessionPc /\ pc[v] # "looper" /\ pc[v] \in ThreadPc \cup {"looper"}
      BY <1>1, <1>3, <2>1 DEF OwnField
    <3>3. QED
      BY <3>1, <3>2 DEF ThreadPc, EndPc, SessionPc, PreField, RecordPc, Over
  <2>2. \A v \in Threads : utilPc'[v] \in Live =>
          v = u /\ pc'[v] \in WorkPc /\ bp'[view'] = s
    BY <1>2, <1>11 DEF WorkPc, StartPc, SessionPc, PreField
  <2>3. QED
    BY <1>9, <2>1, <2>2 DEF LiveWorks
<1>17. QED
  BY <1>12, <1>13, <1>14, <1>15, <1>16 DEF Commands

(* kill ends the csiutil of the session, if it runs, and no other launch   *)
(* is waiting.                                                             *)
LEMMA EndCommands ==
    ASSUME Base, Commands, NEW s \in Shells, stdin[s] # << >>,
           stdin' = [stdin EXCEPT ![s] = Tail(@)], UNCHANGED <<pc, view, bp>>,
           KillAt(s, 1), RunKill(s)
    PROVE  Commands'
<1>1. TypeInv /\ 1 \in 1..Len(stdin[s])
  BY CommandTaken DEF Base
<1>2. s = bp[view]
  BY <1>1 DEF Commands, KillSent
<1>3. \A r \in Shells : job1[r] \in Threads \cup {NONE}
  BY <1>1 DEF TypeInv, TypeOK, RootTypeOK
<1>4. /\ \A v \in Threads : utilPc'[v] \notin Live
      /\ \A v \in Threads : utilPc'[v] \in Running => utilPc[v] \in Running
      /\ JobRuns'
  <2>1. CASE job1[s] = NONE
    <3>1. UNCHANGED <<job1, utilPc, host>>
      BY <2>1 DEF RunKill, utilVars
    <3>2. \A v \in Threads : utilPc[v] \notin Live
      BY <1>2, <2>1, Places, <1>1 DEF Commands, LiveWorks
    <3>3. QED
      BY <3>1, <3>2 DEF Commands, JobRuns
  <2>2. ASSUME NEW u \in Threads, job1[s] = u
        PROVE  /\ \A v \in Threads : utilPc'[v] \notin Live
               /\ \A v \in Threads : utilPc'[v] \in Running => utilPc[v] \in Running
               /\ JobRuns'
    <3>1. UtilEnds(u)
      BY <2>2, Places, <1>1 DEF RunKill
    <3>2. \A v \in Threads : utilPc[v] \in Running => v = u
      BY <2>2, Places, <1>1 DEF Commands, JobRuns, OneRuns
    <3>3. utilPc'[u] = "exit" /\ \A v \in Threads : v # u => utilPc'[v] = utilPc[v]
      BY <1>1, <3>1 DEF UtilEnds, TypeInv, TypeOK, RootTypeOK
    <3>4. \A v \in Threads : host'[v] = NONE
      BY <1>1, <3>1, <3>2 DEF UtilEnds, TypeInv, TypeOK, RootTypeOK, Commands, JobRuns
    <3>5. \A r \in Shells : job1'[r] = NONE
      <4>1. \A r \in Shells : job1[r] = NONE \/ job1[r] = u
        BY <1>3, <3>2 DEF Commands, JobRuns
      <4>2. QED
        BY <3>1, <4>1 DEF UtilEnds
    <3>6. QED
      BY <3>2, <3>3, <3>4, <3>5 DEF JobRuns, Running, Live
  <2>3. QED
    BY <1>3, <2>1, <2>2
<1>5. Known' /\ Waiting' /\ KillSent' /\ LaunchFirst'
  BY <1>1, TakenFrame
<1>6. KillComes'
  <2>1. ASSUME NEW b, b = bp[view], NEW u \in Threads, NEW k \in 1..Len(stdin'[b]),
               Commanded(b, k, u)'
        PROVE  FALSE
    <3>1. \A j \in 1..Len(stdin'[s]) :
            j + 1 \in 1..Len(stdin[s]) /\ stdin'[s][j] = stdin[s][j + 1]
      BY <1>1, CommandTaken
    <3>2. b = s
      BY <1>2, <2>1
    <3>3. k \in 1..Len(stdin'[s]) /\ stdin'[s][k] = LaunchCmd(u)
      BY <2>1, <3>2 DEF Commanded, LaunchCmd
    <3>4. k + 1 \in 1..Len(stdin[s]) /\ stdin[s][k + 1] = LaunchCmd(u)
      BY <3>1, <3>3
    <3>5. k + 1 < 1
      BY <1>1, <3>4 DEF Commands, LaunchFirst, Commanded
    <3>6. QED
      BY <3>3, <3>5
  <2>2. QED
    BY <1>4, <2>1 DEF KillComes
<1>7. OneRuns' /\ LiveWorks'
  BY <1>4 DEF Commands, OneRuns, LiveWorks
<1>8. QED
  BY <1>4, <1>5, <1>6, <1>7 DEF Commands

LEMMA ShellCommands ==
    ASSUME Orderly, Base, Commands, OwnField, NEW s \in Shells, ShellProcess(s)
    PROVE  Commands'
<1>1. UNCHANGED <<pc, view, bp>> /\ TypeInv /\ Idle
  BY DEF ShellProcess, fragmentVars, uiVars, fieldVars, Base
<1>2. CASE ExecuteCommand(s) /\ \A v \in Threads : utilPc[v] # "close"
  <2>1. stdin[s] # << >> /\ stdin' = [stdin EXCEPT ![s] = Tail(@)]
    BY <1>2 DEF ExecuteCommand
  <2>2. 1 \in 1..Len(stdin[s]) /\ Head(stdin[s]) = stdin[s][1]
    BY <1>1, <2>1, CommandTaken
  <2>3. ASSUME NEW u \in Threads, Commanded(s, 1, u) PROVE Commands'
    <3>1. Head(stdin[s]).op = "csiutil" /\ Head(stdin[s]).arg = u
      BY <2>2, <2>3 DEF Commanded, LaunchCmd
    <3>2. RunCsiutil(s, Head(stdin[s]).arg)
      BY <1>2, <3>1 DEF ExecuteCommand
    <3>3. RunCsiutil(s, u)
      BY <3>1, <3>2
    <3>4. QED
      BY <1>1, <1>2, <2>1, <2>3, <3>3, RunCommands
  <2>4. CASE KillAt(s, 1)
    <3>1. RunKill(s)
      BY <1>2, <2>2, <2>4 DEF ExecuteCommand, KillAt, KillCmd
    <3>2. QED
      BY <1>1, <2>1, <2>4, <3>1, EndCommands
  <2>5. CASE stdin[s][1] = IfconfigCmd
    <3>1. UNCHANGED <<utilPc, host, job1>>
      BY <1>2, <2>2, <2>5 DEF ExecuteCommand, IfconfigCmd, RunIfconfig
    <3>2. ~KillAt(s, 1)
      BY <2>5 DEF KillAt, KillCmd, IfconfigCmd
    <3>3. Known' /\ Waiting' /\ KillSent' /\ LaunchFirst'
      BY <1>1, <2>1, TakenFrame
    <3>4. KillComes'
      BY <1>1, <2>1, <3>1, <3>2, KillStillComes
    <3>5. OneRuns' /\ JobRuns' /\ LiveWorks'
      BY <1>1, <3>1 DEF Commands, OneRuns, JobRuns, LiveWorks
    <3>6. QED
      BY <3>3, <3>4, <3>5 DEF Commands
  <2>6. QED
    BY <2>2, <2>3, <2>4, <2>5 DEF Commands, Known
<1>3. CASE DropCommands(s)
  <2>1. /\ shell[s] = "closed" /\ stdin' = [stdin EXCEPT ![s] = << >>]
        /\ UNCHANGED <<utilPc, host, job1>> /\ stdin \in [Shells -> Seq(Command)]
    BY <1>1, <1>3 DEF DropCommands, utilVars, TypeInv, TypeOK, RootTypeOK
  <2>2. \A r \in Shells : \A k \in 1..Len(stdin'[r]) :
          r # s /\ stdin'[r] = stdin[r] /\ k \in 1..Len(stdin[r])
    BY <2>1
  <2>3. Known'
    <3>1. ASSUME NEW r \in Shells, NEW k \in 1..Len(stdin'[r])
          PROVE  KillAt(r, k)' \/ stdin'[r][k] = IfconfigCmd \/ \E u \in Threads : Commanded(r, k, u)'
      <4>1. stdin'[r][k] = stdin[r][k] /\ k \in 1..Len(stdin[r])
        BY <2>2
      <4>2. QED
        BY <4>1 DEF Commands, Known, KillAt, KillCmd, Commanded, LaunchCmd
    <3>2. QED
      BY <3>1 DEF Known, IfconfigCmd
  <2>4. CASE s = bp[view]
    <3>1. AtRest
      BY <1>1, <2>1, <2>4, RestFound DEF Idle, ShellUp, Usable
    <3>2. AtRest'
      BY <1>1, <2>1, <2>2, <3>1 DEF AtRest, KillAt, KillCmd, Commanded, LaunchCmd
    <3>3. QED
      BY <2>1, <2>3, <3>2, RestCommands
  <2>5. ASSUME NEW b, b = bp[view], b # s PROVE Commands'
    <3>1. Waiting' /\ KillSent' /\ LaunchFirst'
      BY <1>1, <2>2 DEF Commands, Waiting, KillSent, LaunchFirst, KillAt, KillCmd, Commanded, LaunchCmd
    <3>2. stdin'[b] = stdin[b]
      BY <2>1, <2>5
    <3>3. KillComes'
      BY <1>1, <2>1, <2>5, <3>2 DEF Commands, KillComes, KillAt, KillCmd, Commanded, LaunchCmd
    <3>4. OneRuns' /\ JobRuns' /\ LiveWorks'
      BY <1>1, <2>1 DEF Commands, OneRuns, JobRuns, LiveWorks
    <3>5. QED
      BY <2>3, <3>1, <3>3, <3>4 DEF Commands
  <2>6. QED
    BY <2>4, <2>5
<1>4. QED
  BY <1>2, <1>3 DEF ShellProcess, Orderly

(* A csiutil goes on, or ends. *)
LEMMA UtilCommands ==
    ASSUME Base, Commands, NEW u \in Threads, CsiutilRuns(u) \/ FrameArrives(u)
    PROVE  Commands'
<1>1. UNCHANGED <<pc, view, bp, stdin>> /\ TypeInv
  BY DEF CsiutilRuns, FrameArrives, PcapFails, SleepDelay, CreateUdpSendSocket, SendStop,
         CloseSendSocket, GotPacket, GotShortPacket, shellVars, fragmentVars, uiVars, fieldVars, Base
<1>2. Known' /\ Waiting' /\ KillSent' /\ LaunchFirst'
  BY <1>1 DEF Commands, Known, Waiting, KillSent, LaunchFirst, KillAt, KillCmd, Commanded,
              LaunchCmd, IfconfigCmd
<1>3. /\ \A v \in Threads : utilPc'[v] \in Live => utilPc[v] \in Live
      /\ \A v \in Threads : utilPc'[v] \in Running => utilPc[v] \in Running
      /\ JobRuns' /\ \A r \in Shells : job1'[r] = job1[r] \/ \A v \in Threads : utilPc'[v] \notin Live
  <2>1. CASE UtilEnds(u) /\ utilPc[u] \in Running
    <3>1. \A v \in Threads : utilPc[v] \in Running => v = u
      BY <2>1 DEF Commands, OneRuns
    <3>2. utilPc'[u] = "exit" /\ \A v \in Threads : v # u => utilPc'[v] = utilPc[v]
      BY <1>1, <2>1 DEF UtilEnds, TypeInv, TypeOK, RootTypeOK
    <3>3. \A v \in Threads : host'[v] = NONE
      BY <1>1, <2>1, <3>1 DEF UtilEnds, TypeInv, TypeOK, RootTypeOK, Commands, JobRuns
    <3>4. \A r \in Shells : job1'[r] = NONE
      <4>1. \A r \in Shells : job1[r] = NONE \/ job1[r] = u
        BY <1>1, <3>1 DEF Commands, JobRuns, TypeInv, TypeOK, RootTypeOK
      <4>2. QED
        BY <2>1, <4>1 DEF UtilEnds
    <3>5. QED
      BY <3>1, <3>2, <3>3, <3>4 DEF JobRuns, Running, Live
  <2>2. CASE UNCHANGED <<job1, host>> /\ \E p \in Running : utilPc[u] \in Live /\ utilPc' = [utilPc EXCEPT ![u] = p]
    <3>1. utilPc'[u] \in Running /\ \A v \in Threads : v # u => utilPc'[v] = utilPc[v]
      BY <1>1, <2>2 DEF TypeInv, TypeOK, RootTypeOK
    <3>2. \A v \in Threads : utilPc'[v] \in Live => utilPc[v] \in Live
      BY <2>2, <3>1
    <3>3. \A v \in Threads : utilPc[v] \in Running => utilPc'[v] \in Running
      BY <3>1
    <3>4. \A v \in Threads : utilPc'[v] \in Running => utilPc[v] \in Running
      BY <2>2, <3>1 DEF Running
    <3>5. JobRuns'
      BY <1>1, <2>2, <3>3, Places DEF Commands, JobRuns, TypeInv, TypeOK, RootTypeOK
    <3>6. QED
      BY <2>2, <3>2, <3>4, <3>5
  <2>3. QED
    BY <2>1, <2>2 DEF CsiutilRuns, FrameArrives, PcapFails, SleepDelay, CreateUdpSendSocket,
       SendStop, CloseSendSocket, GotPacket, GotShortPacket, AtUtil, shellVars, Running, Live
<1>4. OneRuns'
  BY <1>3 DEF Commands, OneRuns
<1>5. KillComes'
  BY <1>1, <1>3 DEF Commands, KillComes, KillAt, KillCmd, Commanded, LaunchCmd
<1>6. LiveWorks'
  <2>1. ASSUME NEW v \in Threads, NEW b, b = bp[view], utilPc'[v] \in Live
        PROVE  /\ pc[v] \in WorkPc /\ job1'[b] = v
               /\ \A w \in Threads : w # v => pc[w] \in Over \cup {"kill", "killOut"}
    <3>1. /\ pc[v] \in WorkPc /\ job1[b] = v
          /\ \A w \in Threads : w # v => pc[w] \in Over \cup {"kill", "killOut"}
      BY <1>3, <2>1 DEF Commands, LiveWorks
    <3>2. b \in Shells
      BY <1>1, <2>1, <3>1, OnlySession, ShellFound, Places
      DEF Base, WorkPc, Over, SessionPc, PreField, RecordPc
    <3>3. job1'[b] = job1[b]
      BY <1>3, <2>1, <3>2
    <3>4. QED
      BY <3>1, <3>3
  <2>2. QED
    BY <1>1, <2>1 DEF LiveWorks
<1>7. QED
  BY <1>2, <1>3, <1>4, <1>5, <1>6 DEF Commands

-----------------------------------------------------------------------------
(* A session nobody stops *)

LEMMA SessionFrom ==
    ASSUME NEW t, SessionThread(t)
    PROVE  pc[t] \in SessionPc
BY DEF SessionThread, PostCapturing, LaunchCsiutil, JobsOutput, TestSocket, NewSocket,
       AssignSocket, CreateFileCloses, CreateFileOpens, ReadSocketField, ReceiveThrows,
       Receive, WriteText, At, SessionPc, PreField, RecordPc

(* Nobody else has the port while a session is about to bind it. *)
LEMMA PortIsFree ==
    ASSUME Base, NEW t \in Threads, pc[t] = "bind"
    PROVE  PortFree
<1>1. /\ openSockets \subseteq Threads
      /\ Sockets /\ pc[t] \in SessionPc /\ pc[t] \in PreField /\ inst[t] = view
      /\ NONE \notin Threads
  BY Places, OnlySession DEF Base, SessionPc, PreField
<1>2. socket[view] = NONE
  BY <1>1 DEF Sockets, NotYet
<1>3. ASSUME NEW s \in openSockets PROVE FALSE
  <2>1. pc[s] # "assign"
    BY <1>1, <1>3, OnlySession DEF Base, SessionPc, PreField
  <2>2. inst[s] \in Instances /\ socket[inst[s]] = s
    BY <1>1, <1>3, <2>1 DEF Sockets, SocketOwned
  <2>3. pc[s] \in Owner
    BY <1>1, <1>3, <2>2 DEF Sockets, FieldOwned
  <2>4. inst[s] = view
    BY <1>1, <1>3, <2>3 DEF Base, Writers, OneView, Owner, Over, RecordPc, CleanupPc
  <2>5. QED
    BY <1>1, <1>2, <1>3, <2>2, <2>4
<1>4. QED
  BY <1>3 DEF PortFree

(* Undisturbed, it takes one step after the other, until its receive()     *)
(* returns the stop message.                                               *)
LEMMA GoesOn ==
    ASSUME Orderly, Base, OwnField, NEW t \in Threads,
           SessionThread(t), pc[t] \in WorkPc, Equipped(t)
    PROVE  \/ \E to \in WorkPc : GoTo(t, to)
           \/ Receive(t) /\ ref[t] = t /\ IsStop(Head(rxQueue[t])) /\ GoTo(t, "checkNull")
<1> USE DEF WorkPc, StartPc, SessionPc, PreField, RecordPc
<1>1. /\ inst[t] = view /\ NONE \notin Threads
      /\ pc[t] \in PreField => socket[view] = NONE
      /\ Usable(bp[view])
  BY Places, OnlySession DEF Base, Sockets, NotYet, Idle, ShellUp
<1>2. CASE PostCapturing(t) \/ LaunchCsiutil(t)
  BY <1>2 DEF PostCapturing, LaunchCsiutil, At
<1>3. CASE JobsOutput(t)
  BY <1>1, <1>3 DEF JobsOutput, Usable
<1>4. CASE TestSocket(t)
  <2>1. pc[t] = "testNull"
    BY <1>4 DEF TestSocket, At, OwnField
  <2>2. GoTo(t, "bind")
    BY <1>1, <1>4, <2>1 DEF TestSocket, At
  <2>3. QED
    BY <2>2
<1>5. CASE NewSocket(t)
  <2>1. PortFree
    BY <1>5, PortIsFree DEF NewSocket, At
  <2>2. QED
    BY <1>5, <2>1 DEF NewSocket
<1>6. CASE AssignSocket(t) \/ CreateFileCloses(t)
  BY <1>6 DEF AssignSocket, CreateFileCloses
<1>7. CASE CreateFileOpens(t)
  BY <1>7 DEF CreateFileOpens, Orderly
<1>8. CASE ReadSocketField(t)
  <2>1. socket[view] = t
    BY <1>8 DEF ReadSocketField, At, Equipped
  <2>2. QED
    BY <1>1, <1>8, <2>1 DEF ReadSocketField
<1>9. CASE ReceiveThrows(t)
  <2>1. ref[t] = t /\ t \in openSockets
    BY <1>9 DEF ReceiveThrows, At, OwnField, Equipped
  <2>2. QED
    BY <1>9, <2>1 DEF ReceiveThrows
<1>10. CASE Receive(t)
  <2>1. ref[t] = t
    BY <1>10 DEF Receive, At, OwnField
  <2>2. ~PacketThrows(t)
    BY DEF PacketThrows, Orderly
  <2>3. QED
    BY <1>10, <2>1, <2>2 DEF Receive
<1>11. CASE WriteText(t)
  <2>1. bw[view] = t /\ t \in openWriters
    BY <1>11 DEF WriteText, At, OwnField, Equipped
  <2>2. QED
    BY <1>1, <1>11, <2>1 DEF WriteText
<1>12. QED
  BY <1>2, <1>3, <1>4, <1>5, <1>6, <1>7, <1>8, <1>9, <1>10, <1>11 DEF SessionThread

(* While csiutil runs there is no stop message, so nothing ends it. *)
LEMMA LiveGoesOn ==
    ASSUME Orderly, Base, OwnField, Undisturbed, StopSaid, NEW t \in Threads,
           SessionThread(t), pc[t] \in WorkPc, utilPc[t] \in Live
    PROVE  \E to \in WorkPc : GoTo(t, to)
<1>1. ASSUME Receive(t), ref[t] = t, IsStop(Head(rxQueue[t])) PROVE FALSE
  <2>1. rxQueue[t] \in Seq(Datagram) /\ rxQueue[t] # << >>
    BY <1>1, Elements DEF Receive, TakeDatagram, Base
  <2>2. 1 \in 1..Len(rxQueue[t]) /\ Head(rxQueue[t]) = rxQueue[t][1]
    BY <2>1, TailOne
  <2>3. rxQueue[t][1].n = 0
    BY <1>1, <2>2 DEF IsStop
  <2>4. QED
    BY <2>2, <2>3 DEF StopSaid, Live
<1>2. Equipped(t)
  BY DEF Equipped, Undisturbed, Calm, SessionPc, PreField, RecordPc
<1>3. QED
  BY <1>1, <1>2, GoesOn

(* A thread has read what the shell answered: the shell has nothing left   *)
(* to execute.                                                             *)
LEMMA CaughtUp ==
    ASSUME Orderly, Base, NEW t \in Threads, pc[t] \in {"jobs", "killOut"},
           ShellCaughtUp(bp[inst[t]])
    PROVE  shell[bp[view]] = "up" /\ stdin[bp[view]] = << >>
<1>1. inst[t] = view
  BY DEF Base, Writers, OneView, Over
<1>2. Usable(bp[view])
  BY DEF Base, Idle, ShellUp, WorkPc, SessionPc, PreField, StartPc
<1>3. QED
  BY <1>1, <1>2 DEF ShellCaughtUp, Orderly, Usable

LEMMA SessionCommands ==
    ASSUME Orderly, Base, Commands, OwnField, Undisturbed, StopSaid, NEW t \in Threads,
           SessionThread(t)
    PROVE  Commands'
<1>1. /\ TypeInv /\ t \in Agents /\ pc[t] \in SessionPc /\ inst[t] = view
      /\ \A u \in Threads : utilPc[u] \in Live => u = t
  <2>1. pc[t] \in SessionPc
    BY SessionFrom
  <2>2. QED
    BY <2>1, Places, OnlySession
    DEF Base, Commands, LiveWorks, SessionPc, PreField, RecordPc, Over
<1>2. CASE Input(bp[view], LaunchCmd(t)) /\ GoTo(t, "jobs") /\ LaunchCsiutil(t)
  BY <1>2, LaunchCommands DEF LaunchCsiutil, At, fieldVars, uiVars
<1>3. CASE UNCHANGED <<stdin, utilPc, job1, host, view, bp>>
  <2>1. PICK to \in SessionPc \cup {"checkNull"} : GoTo(t, to)
    BY DEF SessionThread, PostCapturing, LaunchCsiutil, JobsOutput, TestSocket, NewSocket,
           AssignSocket, CreateFileCloses, CreateFileOpens, ReadSocketField, ReceiveThrows,
           Receive, WriteText, SessionPc, PreField, RecordPc
  <2>2. pc[t] = "jobs" => stdin[bp[view]] = << >>
    <3>1. ASSUME pc[t] = "jobs" PROVE ShellCaughtUp(bp[inst[t]])
      BY <3>1 DEF SessionThread, PostCapturing, LaunchCsiutil, JobsOutput, TestSocket, NewSocket,
           AssignSocket, CreateFileCloses, CreateFileOpens, ReadSocketField, ReceiveThrows,
           Receive, WriteText, At
    <3>2. QED
      BY <3>1, CaughtUp
  <2>3. ASSUME utilPc[t] \in Live PROVE to \in WorkPc
    <3>1. pc[t] \in WorkPc
      BY <2>3 DEF Commands, LiveWorks
    <3>2. PICK go \in WorkPc : GoTo(t, go)
      BY <2>3, <3>1, LiveGoesOn
    <3>3. go = to
      BY <1>1, <2>1, <3>2, Moves
    <3>4. QED
      BY <3>2, <3>3
  <2>4. pc[t] # "killOut" /\ to # "killOut"
    BY <1>1 DEF SessionPc, PreField, RecordPc
  <2>5. QED
    BY <1>1, <1>3, <2>1, <2>2, <2>3, <2>4, MoveCommands
<1>4. QED
  BY <1>1, <1>2, <1>3
  DEF SessionThread, PostCapturing, LaunchCsiutil, JobsOutput, TestSocket, NewSocket,
      AssignSocket, CreateFileCloses, CreateFileOpens, ReadSocketField, ReceiveThrows,
      Receive, WriteText, OnlyPc, rootVars, shellVars, utilVars, uiVars, fieldVars

(* When a stop has read the answer to its kill, no csiutil is left. *)
LEMMA StopCommands ==
    ASSUME Orderly, Base, Commands, NEW t \in Threads, StopThread(t)
    PROVE  Commands'
<1>1. /\ TypeInv /\ t \in Agents /\ pc[t] \in {"kill", "killOut"} /\ inst[t] = view
  BY Places DEF StopThread, KillJob, KillOutput, At, Base, Writers, OneView, Over
<1>2. CASE KillJob(t) /\ Input(bp[view], KillCmd)
  <2>1. GoTo(t, "killOut")
    BY <1>1, <1>2 DEF KillJob, Input
  <2>2. QED
    BY <1>2, <2>1, KillCommands DEF KillJob, At, fieldVars, uiVars
<1>3. CASE shell[bp[view]] # "up" /\ KillJob(t)
  <2>1. \A u \in Threads : pc[u] \notin WorkPc
    BY <1>3 DEF Base, Idle, ShellUp, Usable
  <2>2. pc[t] = "kill" /\ GoTo(t, "postIdle") /\ UNCHANGED <<stdin, utilPc, job1, host, view, bp>>
    BY <1>1, <1>3 DEF KillJob, At, Input, rootVars, shellVars, utilVars, uiVars, fieldVars
  <2>3. \A u \in Threads : utilPc[u] \notin Live
    BY <2>1 DEF Commands, LiveWorks
  <2>4. QED
    BY <1>1, <2>2, <2>3, MoveCommands
<1>4. CASE KillOutput(t)
  <2>1. pc[t] = "killOut" /\ stdin[bp[view]] = << >> /\ UNCHANGED <<stdin, utilPc, job1, host, view, bp>>
    <3>1. pc[t] = "killOut" /\ ShellCaughtUp(bp[inst[t]])
      BY <1>4 DEF KillOutput, At
    <3>2. QED
      BY <1>4, <3>1, CaughtUp DEF KillOutput, OnlyPc, rootVars, shellVars, utilVars, uiVars, fieldVars
  <2>2. \A u \in Threads : utilPc[u] \notin Live
    <3>1. ASSUME NEW b, b = bp[view], NEW u \in Threads, utilPc[u] \in Live PROVE FALSE
      <4>1. \E k \in 1..Len(stdin[b]) : KillAt(b, k)
        BY <2>1, <3>1 DEF Commands, KillComes
      <4>2. stdin[b] = << >>
        BY <2>1, <3>1
      <4>3. QED
        BY <4>1, <4>2
    <3>2. QED
      BY <3>1
  <2>3. PICK to \in {"postIdle", "checkNull"} : GoTo(t, to)
    BY <1>4 DEF KillOutput
  <2>4. QED
    BY <1>1, <2>1, <2>2, <2>3, MoveCommands
<1>5. QED
  BY <1>1, <1>2, <1>3, <1>4 DEF StopThread, KillJob

LEMMA EndingCommands ==
    ASSUME Base, Commands, NEW a \in Agents,
           Cleanup(a) \/ (a \in Threads /\ (CloseFile(a) \/ PostIdle(a)))
    PROVE  Commands'
<1>1. UNCHANGED <<stdin, utilPc, job1, host, view, bp>> /\ TypeInv
  BY DEF Cleanup, CheckNull, CheckClosed, CloseTheSocket, SetNull, Crash, CloseFile, PostIdle,
         OnlyPc, rootVars, shellVars, utilVars, uiVars, fieldVars, Base
<1>2. CASE pc' = pc
  BY <1>1, <1>2, CommandsFrame DEF Commands, Waiting, LiveWorks
<1>3. CASE pc' # pc
  <2>1. pc[a] \in EndPc
    BY DEF Cleanup, CheckNull, CheckClosed, CloseTheSocket, SetNull, CloseFile, PostIdle, At,
           EndPc, CleanupPc
  <2>2. PICK to \in EndPc \cup {"looper", "done"} : GoTo(a, to)
    BY <1>3 DEF Cleanup, CheckNull, CheckClosed, CloseTheSocket, SetNull, Crash, CloseFile, PostIdle,
           EndPc, CleanupPc, AfterCleanup
  <2>3. a \in Threads => \A u \in Threads : utilPc[u] \notin Live
    BY <2>1 DEF Commands, LiveWorks, EndPc, CleanupPc, WorkPc, SessionPc, PreField, RecordPc, Over
  <2>4. pc[a] \notin {"jobs", "killOut"} /\ to # "killOut"
    BY <2>1, <2>2 DEF EndPc, CleanupPc
  <2>5. QED
    BY <1>1, <2>2, <2>3, <2>4, MoveCommands
<1>4. QED
  BY <1>2, <1>3

(* Nobody is left when the view comes and goes, and a shell is opened when *)
(* there is none to work with. *)
LEMMA UserCommands ==
    ASSUME Orderly, Base, Commands, NEW i \in Instances, DispatchPosted(i) \/ User(i)
    PROVE  Commands'
<1>1. TypeInv /\ Idle /\ Main \in Agents
  BY Places DEF Base
<1>2. ASSUME \A t \in Threads : pc[t] \notin WorkPc \cup {"killOut"},
             UNCHANGED <<stdin, utilPc, job1, host>>,
             \A t \in Threads : pc'[t] = pc[t]
      PROVE  Commands'
  BY <1>2, RestFound, RestStays
<1>3. ASSUME view = NONE \/ Active(view) = {}
      PROVE  \A t \in Threads : pc[t] \notin WorkPc \cup {"killOut"}
  BY <1>1, <1>3, Places
  DEF Active, Base, Writers, OneView, Over, WorkPc, SessionPc, PreField, RecordPc
<1>4. CASE DispatchPosted(i)
  <2>1. UNCHANGED <<stdin, utilPc, job1, host, pc, view, bp>>
    BY <1>4 DEF DispatchPosted, rootVars, shellVars, utilVars, fieldVars
  <2>2. QED
    BY <2>1, CommandsFrame DEF Commands, Waiting, LiveWorks
<1>5. CASE OnCreateView(i)
  BY <1>2, <1>3, <1>5 DEF OnCreateView, rootVars, shellVars, utilVars
<1>6. CASE OnDestroyView(i)
  <2>1. Active(view) = {} /\ (pc' = pc \/ GoTo(Main, "checkNull"))
        /\ UNCHANGED <<stdin, utilPc, job1, host>>
    BY <1>6 DEF OnDestroyView, Orderly, ExitShell, rootVars, shellVars, utilVars
  <2>2. \A t \in Threads : pc'[t] = pc[t]
    BY <1>1, <2>1, Places, Moves
  <2>3. QED
    BY <1>2, <1>3, <2>1, <2>2
<1>7. CASE OpenRoot(i)
  <2>1. ~Usable(bp[view]) /\ UNCHANGED <<stdin, utilPc, job1, host, pc>>
    BY <1>7 DEF OpenRoot, Orderly, OpenShell, utilVars
  <2>2. QED
    BY <1>1, <1>2, <2>1 DEF Idle, ShellUp
<1>8. CASE RestartNic(i) \/ EditNumbers(i) \/ ClickThrows(i)
  <2>1. CASE Crash \/ EditNumbers(i)
    <3>1. UNCHANGED <<stdin, utilPc, job1, host, pc, view, bp>>
      BY <2>1 DEF Crash, EditNumbers, rootVars, shellVars, utilVars, fieldVars, uiVars
    <3>2. QED
      BY <3>1, CommandsFrame DEF Commands, Waiting, LiveWorks
  <2>2. QED
    BY <1>8, <2>1, MenuCommands DEF RestartNic, ClickThrows
<1>9. CASE ClickStartStop(i)
  <2>1. PICK t \in Threads :
          pc[t] = "unborn" /\ GoTo(t, IF mState[i] = "idle" THEN "post" ELSE "kill")
    BY <1>9 DEF ClickStartStop, Pressed
  <2>2. view = i /\ UNCHANGED <<stdin, utilPc, job1, host, view, bp>> /\ t \in Agents
    BY <1>9, Places, <1>1 DEF ClickStartStop, Pressed, rootVars, shellVars, utilVars, fieldVars,
                              uiVars
  <2>3. CASE mState[i] = "idle"
    <3>1. \A u \in Threads : utilPc[u] \notin Live
      BY <1>3, <1>9, <2>2, <2>3 DEF ClickStartStop, Pressed, Orderly, UserWaited, Commands,
                                    LiveWorks
    <3>2. GoTo(t, "post")
      BY <2>1, <2>3
    <3>3. QED
      BY <1>1, <2>1, <2>2, <3>1, <3>2, MoveCommands
  <2>4. CASE mState[i] # "idle"
    <3>1. GoTo(t, "kill")
      BY <2>1, <2>4
    <3>2. \A u \in Threads : utilPc[u] \in Live => u # t
      BY <2>1 DEF Commands, LiveWorks, WorkPc, SessionPc, PreField, RecordPc
    <3>3. QED
      BY <1>1, <2>1, <2>2, <3>1, <3>2, MoveCommands
  <2>5. QED
    BY <2>3, <2>4
<1>10. QED
  BY <1>4, <1>5, <1>6, <1>7, <1>8, <1>9 DEF User

LEMMA NextCommands ==
    ASSUME Orderly
    PROVE  Base /\ Commands /\ OwnField /\ Undisturbed /\ StopSaid /\ [Next]_vars => Commands'
<1> SUFFICES ASSUME Base, Commands, OwnField, Undisturbed, StopSaid, [Next]_vars PROVE Commands'
  OBVIOUS
<1>1. TypeInv
  BY DEF Base
<1>2. ASSUME NEW t \in Threads, BackgroundThread(t) PROVE Commands'
  BY <1>1, <1>2, Places, SessionCommands, StopCommands, EndingCommands DEF BackgroundThread
<1>3. CASE MainThread
  BY <1>1, <1>3, Places, EndingCommands, UserCommands DEF MainThread
<1>4. CASE UNCHANGED vars
  <2>1. UNCHANGED <<stdin, utilPc, job1, host, pc, view, bp>>
    BY <1>4 DEF vars, rootVars, shellVars, utilVars, fragmentVars, fieldVars, uiVars
  <2>2. QED
    BY <2>1, CommandsFrame DEF Commands, Waiting, LiveWorks
<1>5. QED
  BY <1>2, <1>3, <1>4, ShellCommands, UtilCommands DEF Next

-----------------------------------------------------------------------------
(* Who stops whom *)

(* Only a click starts a thread, and no thread goes back. *)
LEMMA ThreadPlaces ==
    ASSUME TypeInv, [Next]_vars, \A i \in Instances : ~ClickStartStop(i), NEW v \in Threads
    PROVE  /\ pc'[v] \in {"kill", "killOut"} => pc[v] \in {"kill", "killOut"}
           /\ pc'[v] \in SessionPc => pc[v] \in SessionPc
           /\ pc'[v] \notin Over => pc[v] \notin Over
           /\ pc'[v] \in Early => pc[v] \in Early
<1> USE DEF SessionPc, PreField, RecordPc, EndPc, CleanupPc, Over, Early
<1> DEFINE Kept ==
             /\ pc'[v] \in {"kill", "killOut"} => pc[v] \in {"kill", "killOut"}
             /\ pc'[v] \in SessionPc => pc[v] \in SessionPc
             /\ pc'[v] \notin Over => pc[v] \notin Over
             /\ pc'[v] \in Early => pc[v] \in Early
<1>1. ASSUME NEW a \in Agents, NEW to, GoTo(a, to),
             a = v => \/ pc[a] \in SessionPc /\ to \in SessionPc \cup {"checkNull"}
                         /\ (to \in Early => pc[a] \in Early)
                      \/ pc[a] \in {"kill", "killOut"} /\ to \in {"killOut", "postIdle", "checkNull"}
                      \/ pc[a] \in EndPc /\ to \in EndPc \cup {"done"}
      PROVE  Kept
  <2>1. pc'[a] = to /\ \A b \in Agents : b # a => pc'[b] = pc[b]
    BY <1>1, Moves
  <2>2. CASE a = v
    BY <1>1, <2>1, <2>2
  <2>3. CASE a # v
    BY <2>1, <2>3, Places
  <2>4. QED
    BY <2>2, <2>3
<1>2. ASSUME pc' = pc PROVE Kept
  BY <1>2
<1> HIDE DEF Kept
<1>3. ASSUME NEW t \in Threads, SessionThread(t) PROVE Kept
  <2>1. \E to \in SessionPc \cup {"checkNull"} : GoTo(t, to) /\ (to \in Early => pc[t] \in Early)
    BY <1>3 DEF SessionThread, PostCapturing, LaunchCsiutil, JobsOutput, TestSocket, NewSocket,
           AssignSocket, CreateFileCloses, CreateFileOpens, ReadSocketField, ReceiveThrows,
           Receive, WriteText, At
  <2>2. QED
    BY <1>1, <1>3, <2>1, SessionFrom, Places
<1>4. ASSUME NEW t \in Threads, StopThread(t) PROVE Kept
  <2>1. pc[t] \in {"kill", "killOut"} /\ \E to \in {"killOut", "postIdle", "checkNull"} : GoTo(t, to)
    BY <1>4 DEF StopThread, KillJob, KillOutput, At
  <2>2. QED
    BY <1>1, <2>1, Places
<1>5. ASSUME NEW a \in Agents, Cleanup(a) \/ (a \in Threads /\ (CloseFile(a) \/ PostIdle(a)))
      PROVE  Kept
  <2>1. CASE pc' = pc
    BY <1>2, <2>1
  <2>2. CASE pc' # pc
    <3>1. /\ pc[a] \in EndPc
          /\ a \in Threads => a # Main
          /\ \E to \in EndPc \cup {"done", "looper"} : GoTo(a, to) /\ (a # Main => to # "looper")
      BY <1>5, <2>2, Places DEF Cleanup, CheckNull, CheckClosed, CloseTheSocket, SetNull, Crash,
         CloseFile, PostIdle, At, AfterCleanup
    <3>2. QED
      BY <1>1, <3>1
  <2>3. QED
    BY <2>1, <2>2
<1>6. ASSUME NEW i \in Instances, DispatchPosted(i) \/ User(i) PROVE Kept
  <2>1. pc' = pc \/ GoTo(Main, "checkNull")
    BY <1>6 DEF DispatchPosted, User, OnCreateView, OnDestroyView, OpenRoot, RestartNic,
                EditNumbers, ClickThrows, Pressed, Crash, fragmentVars
  <2>2. QED
    BY <1>1, <1>2, <2>1, Places
<1>7. ASSUME UNCHANGED fragmentVars PROVE Kept
  BY <1>2, <1>7 DEF fragmentVars
<1>8. Kept
  <2>1. ASSUME NEW t \in Threads, BackgroundThread(t) PROVE Kept
    BY <2>1, <1>3, <1>4, <1>5, Places DEF BackgroundThread
  <2>2. CASE MainThread
    BY <2>2, <1>5, <1>6, Places DEF MainThread
  <2>3. QED
    BY <1>7, <2>1, <2>2 DEF Next, ShellProcess, CsiutilRuns, FrameArrives, vars
<1>9. QED
  BY <1>8 DEF Kept

(* A click starts one thread. *)
LEMMA ClickStarts ==
    ASSUME TypeInv, NEW i \in Instances, ClickStartStop(i)
    PROVE  \E t \in Threads :
             /\ pc[t] = "unborn" /\ inst'[t] = i
             /\ pc'[t] = IF mState[i] = "idle" THEN "post" ELSE "kill"
             /\ \A v \in Threads : v # t => pc'[v] = pc[v] /\ inst'[v] = inst[v]
<1>1. PICK t \in Threads :
        /\ pc[t] = "unborn" /\ GoTo(t, IF mState[i] = "idle" THEN "post" ELSE "kill")
        /\ inst' = [inst EXCEPT ![t] = i]
  BY DEF ClickStartStop, Pressed
<1>2. /\ pc'[t] = IF mState[i] = "idle" THEN "post" ELSE "kill"
      /\ \A v \in Threads : v # t => pc'[v] = pc[v]
      /\ inst'[t] = i /\ \A v \in Threads : v # t => inst'[v] = inst[v]
  BY <1>1, Places, Moves
<1>3. QED
  BY <1>1, <1>2

(* A thread that has not launched a csiutil by now never does. *)
LEMMA StopperStays ==
    ASSUME TypeInv, LaunchedOnce, [Next]_vars, NEW v \in Threads, Stopper(v)
    PROVE  Stopper(v)'
<1>1. pc'[v] \notin Early
  <2>1. CASE \A i \in Instances : ~ClickStartStop(i)
    BY <2>1, ThreadPlaces DEF Stopper
  <2>2. ASSUME NEW i \in Instances, ClickStartStop(i) PROVE pc'[v] \notin Early
    BY <2>2, ClickStarts DEF Stopper, Early
  <2>3. QED
    BY <2>1, <2>2
<1>2. ASSUME NEW s \in Shells, NEW k \in 1..Len(stdin'[s]), Commanded(s, k, v)'
      PROVE  FALSE
  <2>1. CASE stdin' = stdin
    BY <1>2, <2>1 DEF Stopper, Commanded, LaunchCmd
  <2>2. ASSUME NEW b, NEW cmd \in Command, b \in Shells, Input(b, cmd), cmd # LaunchCmd(v)
        PROVE  FALSE
    <3>1. \/ k \in 1..Len(stdin[s]) /\ stdin'[s][k] = stdin[s][k]
          \/ stdin'[s][k] = cmd
      BY <2>2, CommandAppended
    <3>2. QED
      BY <1>2, <2>2, <3>1 DEF Stopper, Commanded, LaunchCmd
  <2>3. ASSUME NEW r \in Shells, stdin[r] # << >>, stdin' = [stdin EXCEPT ![r] = Tail(@)]
        PROVE  FALSE
    <3>1. \E j \in 1..Len(stdin[s]) : stdin'[s][k] = stdin[s][j]
      BY <2>3, CommandTaken
    <3>2. QED
      BY <1>2, <3>1 DEF Stopper, Commanded, LaunchCmd
  <2>4. ASSUME NEW r \in Shells, stdin' = [stdin EXCEPT ![r] = << >>] PROVE FALSE
    BY <1>2, <2>4 DEF Stopper, Commanded, LaunchCmd, TypeInv, TypeOK, RootTypeOK
  <2>5. ASSUME NEW t \in Threads, BackgroundThread(t) PROVE FALSE
    <3>1. CASE LaunchCsiutil(t) /\ stdin' # stdin
      <4>1. PICK b : b = bp[inst[t]]
        OBVIOUS
      <4>2. Input(b, LaunchCmd(t)) /\ pc[t] = "launch"
        BY <3>1, <4>1 DEF LaunchCsiutil, At, rootVars, shellVars
      <4>3. LaunchCmd(t) \in Command /\ LaunchCmd(t) # LaunchCmd(v)
        BY <4>2 DEF LaunchCmd, Command, Stopper, Early
      <4>4. CASE b \in Shells
        BY <2>2, <4>2, <4>3, <4>4
      <4>5. CASE b \notin Shells
        <5>1. stdin' = stdin
          BY <4>2, <4>5 DEF Input, TypeInv, TypeOK, RootTypeOK
        <5>2. QED
          BY <2>1, <5>1
      <4>6. QED
        BY <4>4, <4>5
    <3>2. CASE KillJob(t) /\ stdin' # stdin
      <4>1. PICK b : b = bp[inst[t]]
        OBVIOUS
      <4>2. Input(b, KillCmd)
        BY <3>2, <4>1 DEF KillJob, rootVars, shellVars
      <4>3. KillCmd \in Command /\ KillCmd # LaunchCmd(v)
        BY DEF LaunchCmd, KillCmd, Command
      <4>4. CASE b \in Shells
        BY <2>2, <4>2, <4>3, <4>4
      <4>5. CASE b \notin Shells
        <5>1. stdin' = stdin
          BY <4>2, <4>5 DEF Input, TypeInv, TypeOK, RootTypeOK
        <5>2. QED
          BY <2>1, <5>1
      <4>6. QED
        BY <4>4, <4>5
    <3>3. QED
      BY <2>1, <2>5, <3>1, <3>2
      DEF BackgroundThread, SessionThread, PostCapturing, LaunchCsiutil, JobsOutput, TestSocket,
          NewSocket, AssignSocket, CreateFileCloses, CreateFileOpens, ReadSocketField,
          ReceiveThrows, Receive, WriteText, StopThread, KillJob, KillOutput, Cleanup, CheckNull,
          CheckClosed, CloseTheSocket, SetNull, Crash, CloseFile, PostIdle, OnlyPc, rootVars, shellVars
  <2>6. CASE MainThread
    <3>1. ASSUME NEW i \in Instances, RestartNic(i), stdin' # stdin PROVE FALSE
      <4>1. /\ bp[i] # NONE /\ Input(bp[i], IfconfigCmd) /\ bp[i] \in Shells
            /\ IfconfigCmd \in Command /\ IfconfigCmd # LaunchCmd(v)
        BY <3>1 DEF RestartNic, Crash, rootVars, shellVars, TypeInv, TypeOK, FragmentTypeOK,
                    IfconfigCmd, LaunchCmd, Command
      <4>2. QED
        BY <2>2, <4>1
    <3>2. QED
      BY <2>1, <2>6, <3>1
      DEF MainThread, User, DispatchPosted, OnCreateView, OnDestroyView, OpenRoot,
          ClickStartStop, Pressed, RestartNic, EditNumbers, ClickThrows, Cleanup, CheckNull,
          CheckClosed, CloseTheSocket, SetNull, Crash, OnlyPc, OpenShell, ExitShell, rootVars,
          shellVars
  <2>7. ASSUME NEW r \in Shells, ShellProcess(r) PROVE FALSE
    BY <2>3, <2>4, <2>7 DEF ShellProcess, ExecuteCommand, DropCommands, ShellDies
  <2>8. ASSUME NEW u \in Threads, CsiutilRuns(u) \/ FrameArrives(u) PROVE FALSE
    BY <2>1, <2>8 DEF CsiutilRuns, FrameArrives, PcapFails, SleepDelay, CreateUdpSendSocket,
       SendStop, CloseSendSocket, GotPacket, GotShortPacket, shellVars
  <2>9. QED
    BY <2>1, <2>5, <2>6, <2>7, <2>8 DEF Next, vars, rootVars, shellVars
<1>3. utilPc'[v] = "none"
  <2>1. CASE utilPc' = utilPc
    BY <2>1 DEF Stopper
  <2>2. ASSUME NEW u \in Threads, utilPc[u] # "none", NEW p, utilPc' = [utilPc EXCEPT ![u] = p]
        PROVE  utilPc'[v] = "none"
    BY <2>2 DEF Stopper, TypeInv, TypeOK, RootTypeOK
  <2>3. ASSUME NEW s \in Shells, ExecuteCommand(s), utilPc' # utilPc
        PROVE  utilPc'[v] = "none"
    <3>1. CASE Head(stdin[s]).op = "csiutil" /\ RunCsiutil(s, Head(stdin[s]).arg)
      <4>1. PICK c \in Command : c = Head(stdin[s]) /\ c = stdin[s][1] /\ 1 \in 1..Len(stdin[s])
        <5>1. stdin[s] \in Seq(Command) /\ stdin[s] # << >>
          BY <2>3 DEF ExecuteCommand, TypeInv, TypeOK, RootTypeOK
        <5>2. QED
          BY <5>1, TailOne
      <4>2. c.op = "csiutil" /\ utilPc' = [utilPc EXCEPT ![c.arg] = "open"]
        BY <3>1, <4>1 DEF RunCsiutil
      <4>3. c.arg # v
        <5>1. ASSUME c.arg = v PROVE c = LaunchCmd(v)
          BY <4>2, <5>1 DEF Command, LaunchCmd
        <5>2. QED
          BY <4>1, <5>1 DEF Stopper, Commanded
      <4>4. QED
        BY <4>2, <4>3 DEF Stopper, TypeInv, TypeOK, RootTypeOK
    <3>2. CASE RunKill(s) /\ job1[s] # NONE
      <4>1. PICK u \in Threads : u = job1[s]
        BY <3>2 DEF TypeInv, TypeOK, RootTypeOK
      <4>2. utilPc[u] # "none" /\ utilPc' = [utilPc EXCEPT ![u] = "exit"]
        BY <3>2, <4>1 DEF RunKill, UtilEnds, LaunchedOnce
      <4>3. QED
        BY <2>2, <4>2
    <3>3. QED
      BY <2>3, <3>1, <3>2 DEF ExecuteCommand, RunKill, RunIfconfig, utilVars
  <2>4. ASSUME NEW t \in Threads, BackgroundThread(t) PROVE utilPc' = utilPc
    BY <2>4 DEF BackgroundThread, SessionThread, PostCapturing, LaunchCsiutil, JobsOutput,
       TestSocket, NewSocket, AssignSocket, CreateFileCloses, CreateFileOpens, ReadSocketField,
       ReceiveThrows, Receive, WriteText, StopThread, KillJob, KillOutput, Cleanup, CheckNull,
       CheckClosed, CloseTheSocket, SetNull, Crash, CloseFile, PostIdle, OnlyPc, Input,
       rootVars, utilVars
  <2>5. CASE MainThread
    <3>1. utilPc' = utilPc
      BY <2>5 DEF MainThread, User, DispatchPosted, OnCreateView, OnDestroyView, OpenRoot,
                  ClickStartStop, Pressed, RestartNic, EditNumbers, ClickThrows, Cleanup,
                  CheckNull, CheckClosed, CloseTheSocket, SetNull, Crash, OnlyPc, OpenShell,
                  ExitShell, Input, rootVars, utilVars
    <3>2. QED
      BY <2>1, <3>1
  <2>6. ASSUME NEW s \in Shells, ShellProcess(s) PROVE utilPc'[v] = "none"
    BY <2>1, <2>3, <2>6 DEF ShellProcess, DropCommands, ShellDies, utilVars
  <2>7. ASSUME NEW u \in Threads, CsiutilRuns(u) \/ FrameArrives(u) PROVE utilPc'[v] = "none"
    <3>1. utilPc[u] # "none" /\ \E p : utilPc' = [utilPc EXCEPT ![u] = p]
      BY <2>7 DEF CsiutilRuns, FrameArrives, PcapFails, SleepDelay, CreateUdpSendSocket,
         SendStop, CloseSendSocket, GotPacket, GotShortPacket, AtUtil, UtilEnds
    <3>2. QED
      BY <2>2, <3>1
  <2>8. QED
    BY <2>1, <2>4, <2>5, <2>6, <2>7 DEF Next, vars, rootVars, utilVars
<1>4. QED
  BY <1>1, <1>2, <1>3 DEF Stopper

(* A csiutil that starts has been waited for since its command was written. *)
LEMMA LiveFrom ==
    ASSUME TypeInv, Commands, [Next]_vars, NEW u \in Threads,
           utilPc'[u] \in Live, utilPc[u] \notin Live
    PROVE  pc'[u] = "jobs"
<1>1. CASE utilPc' = utilPc
  BY <1>1
<1>2. ASSUME NEW v \in Threads, NEW p, utilPc' = [utilPc EXCEPT ![v] = p],
             p \in Live => utilPc[v] \in Live
      PROVE  FALSE
  BY <1>2 DEF TypeInv, TypeOK, RootTypeOK
<1>3. ASSUME NEW s \in Shells, ExecuteCommand(s), UNCHANGED fragmentVars, utilPc' # utilPc
      PROVE  pc'[u] = "jobs"
  <2>1. CASE Head(stdin[s]).op = "csiutil" /\ RunCsiutil(s, Head(stdin[s]).arg)
    <3>1. PICK c \in Command : c = Head(stdin[s]) /\ c = stdin[s][1] /\ 1 \in 1..Len(stdin[s])
      <4>1. stdin[s] \in Seq(Command) /\ stdin[s] # << >>
        BY <1>3 DEF ExecuteCommand, TypeInv, TypeOK, RootTypeOK
      <4>2. QED
        BY <4>1, TailOne
    <3>2. c.op = "csiutil" /\ utilPc' = [utilPc EXCEPT ![c.arg] = "open"]
      BY <2>1, <3>1 DEF RunCsiutil
    <3>3. c.arg = u
      BY <3>2 DEF TypeInv, TypeOK, RootTypeOK
    <3>4. c = LaunchCmd(u)
      BY <3>2, <3>3 DEF Command, LaunchCmd
    <3>5. pc[u] = "jobs"
      BY <3>1, <3>4 DEF Commands, Waiting, Commanded
    <3>6. QED
      BY <1>3, <3>5 DEF fragmentVars
  <2>2. CASE RunKill(s) /\ job1[s] # NONE
    <3>1. PICK v \in Threads : v = job1[s]
      BY <2>2 DEF TypeInv, TypeOK, RootTypeOK
    <3>2. utilPc' = [utilPc EXCEPT ![v] = "exit"]
      BY <2>2, <3>1 DEF RunKill, UtilEnds
    <3>3. QED
      BY <1>2, <3>2 DEF Live
  <2>3. QED
    BY <1>3, <2>1, <2>2 DEF ExecuteCommand, RunKill, RunIfconfig, utilVars
<1>4. ASSUME NEW t \in Threads, BackgroundThread(t) PROVE utilPc' = utilPc
  BY <1>4 DEF BackgroundThread, SessionThread, PostCapturing, LaunchCsiutil, JobsOutput,
     TestSocket, NewSocket, AssignSocket, CreateFileCloses, CreateFileOpens, ReadSocketField,
     ReceiveThrows, Receive, WriteText, StopThread, KillJob, KillOutput, Cleanup, CheckNull,
     CheckClosed, CloseTheSocket, SetNull, Crash, CloseFile, PostIdle, OnlyPc, Input,
     rootVars, utilVars
<1>5. ASSUME MainThread PROVE utilPc' = utilPc
  BY <1>5 DEF MainThread, User, DispatchPosted, OnCreateView, OnDestroyView, OpenRoot,
              ClickStartStop, Pressed, RestartNic, EditNumbers, ClickThrows, Cleanup, CheckNull,
              CheckClosed, CloseTheSocket, SetNull, Crash, OnlyPc, OpenShell, ExitShell, Input,
              rootVars, utilVars
<1>6. ASSUME NEW s \in Shells, ShellProcess(s) PROVE pc'[u] = "jobs"
  BY <1>1, <1>3, <1>6 DEF ShellProcess, DropCommands, ShellDies, utilVars
<1>7. ASSUME NEW v \in Threads, CsiutilRuns(v) \/ FrameArrives(v) PROVE FALSE
  <2>1. \E p : utilPc' = [utilPc EXCEPT ![v] = p] /\ (p \in Live => utilPc[v] \in Live)
    BY <1>7 DEF CsiutilRuns, FrameArrives, PcapFails, SleepDelay, CreateUdpSendSocket,
       SendStop, CloseSendSocket, GotPacket, GotShortPacket, AtUtil, UtilEnds, Live
  <2>2. QED
    BY <1>2, <2>1
<1>8. QED
  BY <1>1, <1>4, <1>5, <1>6, <1>7 DEF Next, vars, rootVars, utilVars

LEMMA CalmBefore ==
    ASSUME TypeInv, LaunchedOnce, Commands, [Next]_vars, NEW u \in Threads,
           Calm(u)', pc'[u] # "jobs"
    PROVE  Calm(u)
<1>1. CASE utilPc'[u] \in Live
  BY <1>1, LiveFrom DEF Calm
<1>2. CASE \A v \in Threads : ~Stopper(v)'
  BY <1>2, StopperStays DEF Calm
<1>3. QED
  BY <1>1, <1>2 DEF Calm

(* Who is started next to a session is a stop, and while one cleans up the *)
(* session is not calm. *)
LEMMA NextStoppers ==
    ASSUME Orderly, TypeInv, LaunchedOnce, Writers, Sessions, [Next]_vars
    PROVE  KillersStop' /\ OnlyStoppers'
<1>1. \A v \in Threads : Stopper(v) => Stopper(v)'
  BY StopperStays
<1>2. CASE \A i \in Instances : ~ClickStartStop(i)
  <2>1. KillersStop'
    BY <1>1, <1>2, ThreadPlaces DEF Sessions, KillersStop
  <2>2. OnlyStoppers'
    BY <1>1, <1>2, ThreadPlaces DEF Sessions, OnlyStoppers
  <2>3. QED
    BY <2>1, <2>2
<1>3. ASSUME NEW i \in Instances, ClickStartStop(i) PROVE KillersStop' /\ OnlyStoppers'
  <2>1. PICK t \in Threads :
          /\ pc[t] = "unborn"
          /\ pc'[t] = IF mState[i] = "idle" THEN "post" ELSE "kill"
          /\ \A v \in Threads : v # t => pc'[v] = pc[v]
    BY <1>3, ClickStarts
  <2>2. UNCHANGED <<utilPc, stdin>> /\ view = i
    BY <1>3 DEF ClickStartStop, Pressed, rootVars, shellVars, utilVars
  <2>3. CASE mState[i] = "idle"
    <3>1. \A v \in Threads : v # t => pc'[v] \in Over
      BY <1>3, <2>1, <2>2, <2>3
      DEF ClickStartStop, Pressed, Orderly, UserWaited, Active, Writers, OneView, Over
    <3>2. pc'[t] = "post"
      BY <2>1, <2>3
    <3>3. KillersStop'
      BY <3>1, <3>2 DEF KillersStop, Over
    <3>4. OnlyStoppers'
      BY <3>1, <3>2 DEF OnlyStoppers, Over, SessionPc, PreField, RecordPc
    <3>5. QED
      BY <3>3, <3>4
  <2>4. CASE mState[i] # "idle"
    <3>1. pc'[t] = "kill"
      BY <2>1, <2>4
    <3>2. Stopper(t)'
      <4>1. utilPc[t] = "none" /\ \A s \in Shells : \A k \in 1..Len(stdin[s]) : ~Commanded(s, k, t)
        BY <2>1 DEF LaunchedOnce, Early
      <4>2. QED
        BY <2>2, <3>1, <4>1 DEF Stopper, Early, Commanded, LaunchCmd
    <3>3. KillersStop'
      BY <1>1, <2>1, <3>2 DEF Sessions, KillersStop
    <3>4. OnlyStoppers'
      BY <1>1, <2>1, <3>1, <3>2 DEF Sessions, OnlyStoppers, SessionPc, PreField, RecordPc
    <3>5. QED
      BY <3>3, <3>4
  <2>5. QED
    BY <2>3, <2>4
<1>4. QED
  BY <1>2, <1>3

LEMMA Disturbed ==
    ASSUME TypeInv, Writers, Commands, Sessions, NEW a \in Agents, pc[a] \in EndPc,
           NEW u \in Threads, pc[u] \in SessionPc
    PROVE  ~Calm(u)
<1>1. a # u /\ pc[a] \notin Over \cup {"kill", "killOut", "looper"} /\ pc[u] \notin Over
  BY DEF EndPc, CleanupPc, SessionPc, PreField, RecordPc, Over
<1>2. CASE a = Main
  BY <1>1, <1>2, Places DEF Sessions, MainLeaves, Writers, OneView, Over
<1>3. CASE a \in Threads
  <2>1. Stopper(a)
    BY <1>1, <1>3 DEF Sessions, OnlyStoppers
  <2>2. utilPc[u] \notin Live
    BY <1>1, <1>3 DEF Commands, LiveWorks
  <2>3. QED
    BY <1>3, <2>1, <2>2 DEF Calm
<1>4. QED
  BY <1>2, <1>3 DEF Agents

LEMMA NextLeaves ==
    ASSUME TypeInv, MainLeaves, [Next]_vars
    PROVE  MainLeaves'
<1>1. Main \in Agents /\ Main \notin Threads
  BY Places
<1>2. CASE view' = view /\ (pc'[Main] = pc[Main] \/ pc'[Main] = "looper" \/ pc[Main] # "looper")
  BY <1>2 DEF MainLeaves
<1>3. ASSUME NEW t \in Threads, BackgroundThread(t) PROVE MainLeaves'
  <2>1. view' = view /\ (pc' = pc \/ \E to : GoTo(t, to))
    BY <1>3 DEF BackgroundThread, SessionThread, PostCapturing, LaunchCsiutil, JobsOutput,
       TestSocket, NewSocket, AssignSocket, CreateFileCloses, CreateFileOpens, ReadSocketField,
       ReceiveThrows, Receive, WriteText, StopThread, KillJob, KillOutput, Cleanup, CheckNull,
       CheckClosed, CloseTheSocket, SetNull, Crash, CloseFile, PostIdle, OnlyPc, uiVars
  <2>2. pc'[Main] = pc[Main]
    BY <1>1, <2>1, Moves, Places
  <2>3. QED
    BY <1>2, <2>1, <2>2
<1>4. CASE Cleanup(Main)
  <2>1. view' = view /\ pc[Main] # "looper"
    BY <1>4 DEF Cleanup, CheckNull, CheckClosed, CloseTheSocket, SetNull, Crash, OnlyPc, uiVars, At
  <2>2. QED
    BY <1>2, <2>1
<1>5. ASSUME NEW i \in Instances, DispatchPosted(i) \/ User(i) PROVE MainLeaves'
  <2>1. CASE view' = NONE
    BY <2>1 DEF MainLeaves
  <2>2. CASE UNCHANGED <<pc, view>>
    BY <1>2, <2>2
  <2>3. CASE pc' = pc /\ OnMain
    BY <2>3 DEF MainLeaves, OnMain, At
  <2>4. CASE ClickStartStop(i)
    <3>1. view' = view /\ \E t \in Threads : \E to \in {"post", "kill"} : GoTo(t, to)
      BY <2>4 DEF ClickStartStop, Pressed, uiVars
    <3>2. pc'[Main] = pc[Main]
      BY <1>1, <3>1, Moves, Places
    <3>3. QED
      BY <1>2, <3>1, <3>2
  <2>5. QED
    BY <1>5, <2>1, <2>2, <2>3, <2>4
    DEF DispatchPosted, User, OnCreateView, OnDestroyView, OpenRoot, RestartNic, EditNumbers,
        ClickThrows, Pressed, Crash, fragmentVars, uiVars
<1>6. CASE UNCHANGED fragmentVars
  BY <1>2, <1>6 DEF fragmentVars, uiVars
<1>7. QED
  BY <1>3, <1>4, <1>5, <1>6 DEF Next, MainThread, ShellProcess, CsiutilRuns, FrameArrives, vars

-----------------------------------------------------------------------------
(* The field, the socket and the file of a session stay its own *)

InField == SessionPc \ PreField

CalmSince == \A u \in Threads : Calm(u)' /\ pc'[u] # "jobs" => Calm(u)

(* One agent moves. *)
LEMMA MoveField ==
    ASSUME TypeInv, OwnField, Undisturbed, CalmSince, NEW a \in Agents, NEW to, GoTo(a, to),
           UNCHANGED <<view, socket>>, openSockets \subseteq openSockets',
           \A u \in Threads \ {a} : ref'[u] = ref[u],
           a \in Threads =>
               /\ to \notin {"testClosed", "looper"}
               /\ to = "assign" => a \in openSockets'
               /\ to \in InField => pc[a] \in InField
               /\ to = "receive" => ref'[a] = a,
           \/ /\ UNCHANGED <<bw, openWriters>>
              /\ a \in Threads /\ to \in RecordPc => pc[a] \in RecordPc
           \/ /\ \A u \in Threads \ {a} : pc[u] \notin RecordPc
              /\ to \in RecordPc => bw'[view] = a /\ a \in openWriters'
    PROVE  OwnField' /\ Undisturbed'
<1> USE DEF InField, RecordPc
<1>1. Threads \subseteq Agents
  BY Places
<1>2. pc'[a] = to /\ \A b \in Agents : b # a => pc'[b] = pc[b]
  BY Moves
<1>3. \A u \in Threads : pc'[u] \in InField => pc[u] \in InField
  BY <1>1, <1>2
<1>4. ASSUME NEW u \in Threads
      PROVE  /\ pc'[u] \notin {"testClosed", "looper"}
             /\ pc'[u] = "assign" => u \in openSockets'
             /\ pc'[u] \in InField => socket'[view'] \in {NONE, u}
             /\ pc'[u] \in RecordPc => bw'[view'] = u
             /\ pc'[u] = "receive" => ref'[u] = u
  <2>1. CASE u = a
    BY <1>2, <1>3, <2>1 DEF OwnField
  <2>2. CASE u # a
    BY <1>1, <1>2, <2>2 DEF OwnField
  <2>3. QED
    BY <2>1, <2>2
<1>5. ASSUME NEW u \in Threads, Calm(u)'
      PROVE  /\ pc'[u] \in InField => socket'[view'] = u /\ u \in openSockets'
             /\ pc'[u] \in RecordPc => u \in openWriters'
  <2>1. pc'[u] \in InField => Calm(u) /\ pc[u] \in InField
    BY <1>3, <1>5 DEF CalmSince, SessionPc, PreField
  <2>2. pc'[u] \in RecordPc => pc'[u] \in InField
    BY DEF SessionPc, PreField
  <2>3. pc'[u] \in InField => socket'[view'] = u /\ u \in openSockets'
    BY <2>1 DEF Undisturbed
  <2>4. pc'[u] \in RecordPc => u \in openWriters'
    <3>1. CASE u = a
      BY <1>2, <2>1, <2>2, <3>1 DEF Undisturbed
    <3>2. CASE u # a
      BY <1>1, <1>2, <2>1, <2>2, <3>2 DEF Undisturbed
    <3>3. QED
      BY <3>1, <3>2
  <2>5. QED
    BY <2>3, <2>4
<1>6. OwnField'
  BY <1>4 DEF OwnField
<1>7. Undisturbed'
  BY <1>5 DEF Undisturbed
<1>8. QED
  BY <1>6, <1>7

(* Nobody moves. *)
LEMMA StayField ==
    ASSUME OwnField, Undisturbed, CalmSince, UNCHANGED <<pc, view, socket, bw, ref>>,
           openSockets' = openSockets, openWriters' = openWriters
    PROVE  OwnField' /\ Undisturbed'
<1>1. OwnField'
  BY DEF OwnField
<1>2. ASSUME NEW u \in Threads, Calm(u)'
      PROVE  /\ pc'[u] \in InField => socket'[view'] = u /\ u \in openSockets'
             /\ pc'[u] \in RecordPc => u \in openWriters'
  <2>1. CASE pc'[u] = "jobs"
    BY <2>1 DEF InField, RecordPc, PreField
  <2>2. CASE pc'[u] # "jobs"
    BY <1>2, <2>2 DEF CalmSince, Undisturbed, InField
  <2>3. QED
    BY <2>1, <2>2
<1>3. Undisturbed'
  BY <1>2 DEF Undisturbed, InField
<1>4. QED
  BY <1>1, <1>3

(* No session is left to be disturbed. *)
LEMMA EmptyField ==
    ASSUME \A u \in Threads : pc'[u] \in Over \cup {"post", "kill"}
    PROVE  OwnField' /\ Undisturbed'
<1> USE DEF Over, SessionPc, PreField, RecordPc
<1>1. OwnField'
  BY DEF OwnField
<1>2. Undisturbed'
  BY DEF Undisturbed
<1>3. QED
  BY <1>1, <1>2

LEMMA SessionField ==
    ASSUME Orderly, Base, Sessions, CalmSince, NEW t \in Threads, SessionThread(t)
    PROVE  OwnField' /\ Undisturbed'
<1> USE DEF InField, SessionPc, PreField, RecordPc
<1>1. /\ TypeInv /\ t \in Agents /\ inst[t] = view /\ view \in Instances
      /\ \A u \in Threads \ {t} : pc[u] \notin SessionPc
      /\ OwnField /\ Undisturbed /\ NONE \notin Threads
      /\ pc[t] \in PreField => socket[view] = NONE
  <2>1. pc[t] \in SessionPc
    BY SessionFrom
  <2>2. QED
    BY <2>1, Places, OnlySession DEF Base, Sessions, Sockets, NotYet
<1>2. CASE PostCapturing(t) \/ LaunchCsiutil(t) \/ JobsOutput(t)
  <2>1. /\ UNCHANGED <<view, socket, openSockets, ref, bw, openWriters>>
        /\ pc[t] \notin InField
        /\ \E to \in {"launch", "jobs", "checkNull", "testNull"} : GoTo(t, to)
    BY <1>2 DEF PostCapturing, LaunchCsiutil, JobsOutput, OnlyPc, At, uiVars, fieldVars,
                localVars, fileVars, loopbackVars
  <2>2. QED
    BY <1>1, <2>1, MoveField
<1>3. CASE TestSocket(t)
  <2>1. pc[t] = "testNull"
    BY <1>1, <1>3 DEF TestSocket, At, OwnField
  <2>2. /\ UNCHANGED <<view, socket, openSockets, ref, bw, openWriters>>
        /\ GoTo(t, "bind")
    BY <1>1, <1>3, <2>1 DEF TestSocket, OnlyPc, At, uiVars, fieldVars, localVars, fileVars, loopbackVars
  <2>3. QED
    BY <1>1, <2>1, <2>2, MoveField
<1>4. CASE NewSocket(t)
  <2>1. /\ UNCHANGED <<view, socket, ref, bw, openWriters>>
        /\ openSockets \subseteq openSockets'
        /\ \/ GoTo(t, "assign") /\ t \in openSockets'
           \/ GoTo(t, "checkNull")
    BY <1>4 DEF NewSocket, BindSocket, At, uiVars, fieldVars, localVars, fileVars, loopbackVars
  <2>2. QED
    BY <1>1, <2>1, MoveField
<1>5. CASE AssignSocket(t)
  <2>1. /\ UNCHANGED <<view, openSockets, ref, bw, openWriters>> /\ pc[t] = "assign"
        /\ GoTo(t, "closeOld") /\ socket' = [socket EXCEPT ![view] = t]
    BY <1>1, <1>5 DEF AssignSocket, At, uiVars, fieldVars, localVars, fileVars, loopbackVars
  <2>2. pc'[t] = "closeOld" /\ \A u \in Threads \ {t} : pc'[u] = pc[u]
    BY <1>1, <2>1, Moves, Places
  <2>3. socket'[view] = t /\ t \in openSockets
    BY <1>1, <2>1, Places DEF OwnField
  <2>4. OwnField'
    BY <1>1, <2>1, <2>2, <2>3 DEF OwnField
  <2>5. Undisturbed'
    BY <1>1, <2>1, <2>2, <2>3 DEF Undisturbed
  <2>6. QED
    BY <2>4, <2>5
<1>6. CASE CreateFileCloses(t)
  <2>1. /\ UNCHANGED <<view, socket, openSockets, ref, bw>> /\ pc[t] = "closeOld"
        /\ GoTo(t, "openNew")
    BY <1>6 DEF CreateFileCloses, At, uiVars, fieldVars, localVars, loopbackVars
  <2>2. QED
    BY <1>1, <2>1, MoveField
<1>7. CASE CreateFileOpens(t)
  <2>1. /\ UNCHANGED <<view, socket, openSockets, ref>> /\ pc[t] = "openNew"
        /\ GoTo(t, "loop") /\ bw' = [bw EXCEPT ![view] = t] /\ t \in openWriters'
    BY <1>1, <1>7 DEF CreateFileOpens, Orderly, At, uiVars, fieldVars, localVars, loopbackVars
  <2>2. bw'[view] = t
    BY <1>1, <2>1 DEF TypeInv, TypeOK, FragmentTypeOK
  <2>3. QED
    BY <1>1, <2>1, <2>2, MoveField
<1>8. CASE ReadSocketField(t)
  <2>1. /\ UNCHANGED <<view, socket, openSockets, bw, openWriters>> /\ pc[t] = "loop"
        /\ \A u \in Threads \ {t} : ref'[u] = ref[u]
        /\ \/ GoTo(t, "checkNull")
           \/ GoTo(t, "receive") /\ ref'[t] = socket[view] /\ socket[view] # NONE
    BY <1>1, <1>8 DEF ReadSocketField, At, uiVars, fieldVars, fileVars, loopbackVars,
                      TypeInv, TypeOK, FragmentTypeOK
  <2>2. socket[view] \in {NONE, t}
    BY <1>1, <2>1 DEF OwnField
  <2>3. QED
    BY <1>1, <2>1, <2>2, MoveField
<1>9. CASE ReceiveThrows(t) \/ Receive(t)
  <2>1. /\ UNCHANGED <<view, socket, openSockets, bw, openWriters>> /\ pc[t] = "receive"
        /\ \A u \in Threads \ {t} : ref'[u] = ref[u]
        /\ \E to \in {"checkNull", "write"} : GoTo(t, to)
    BY <1>1, <1>9 DEF ReceiveThrows, Receive, TakeDatagram, At, uiVars, fieldVars, fileVars,
                      loopbackVars, TypeInv, TypeOK, FragmentTypeOK
  <2>2. QED
    BY <1>1, <2>1, MoveField
<1>10. CASE WriteText(t)
  <2>1. /\ UNCHANGED <<view, socket, openSockets, ref, bw, openWriters>> /\ pc[t] = "write"
        /\ \E to \in {"checkNull", "loop"} : GoTo(t, to)
    BY <1>10 DEF WriteText, At, uiVars, fieldVars, loopbackVars
  <2>2. QED
    BY <1>1, <2>1, MoveField
<1>11. QED
  BY <1>2, <1>3, <1>4, <1>5, <1>6, <1>7, <1>8, <1>9, <1>10 DEF SessionThread

(* A cleanup leaves no session that is calm. *)
LEMMA EndingField ==
    ASSUME Base, Commands, Sessions, CalmSince, NEW a \in Agents,
           Cleanup(a) \/ (a \in Threads /\ (CloseFile(a) \/ PostIdle(a)))
    PROVE  OwnField' /\ Undisturbed'
<1> USE DEF InField, SessionPc, PreField, RecordPc
<1>1. TypeInv /\ Writers /\ OwnField /\ Undisturbed /\ Threads \subseteq Agents /\ Main \notin Threads
      /\ Main \in Agents
  BY Places DEF Base, Sessions
<1>2. CASE Crash
  BY <1>1, <1>2, StayField DEF Crash, fieldVars, uiVars, localVars, fileVars, loopbackVars
<1>3. CASE ~Crash
  <2>1. pc[a] \in EndPc
    BY DEF Cleanup, CheckNull, CheckClosed, CloseTheSocket, SetNull, CloseFile, PostIdle, At,
           EndPc, CleanupPc
  <2>2. PICK to \in EndPc \cup {"looper", "done"} : GoTo(a, to) /\ (to = "looper" => a = Main)
    BY <1>1, <1>3 DEF Cleanup, CheckNull, CheckClosed, CloseTheSocket, SetNull, CloseFile, PostIdle,
           EndPc, CleanupPc, AfterCleanup
  <2>3. pc'[a] = to /\ \A u \in Threads : u # a => pc'[u] = pc[u]
    BY <1>1, <2>2, Moves
  <2>4. \A u \in Threads : pc'[u] \in SessionPc => u # a /\ pc[u] \in SessionPc
    BY <2>2, <2>3 DEF EndPc, CleanupPc
  <2>5. \A u \in Threads : pc'[u] \in InField => ~Calm(u)'
    <3>1. ASSUME NEW u \in Threads, pc'[u] \in InField PROVE ~Calm(u)'
      <4>1. ~Calm(u)
        BY <1>1, <2>1, <2>4, <3>1, Disturbed
      <4>2. QED
        BY <3>1, <4>1 DEF CalmSince
    <3>2. QED
      BY <3>1
  <2>6. Undisturbed'
    BY <2>5 DEF Undisturbed
  <2>7. UNCHANGED <<view, bw, ref>>
    BY DEF Cleanup, CheckNull, CheckClosed, CloseTheSocket, SetNull, Crash, CloseFile, PostIdle,
           OnlyPc, uiVars, fieldVars, localVars
  <2>8. ASSUME NEW u \in Threads, pc[u] = "assign" PROVE u \in openSockets'
    <3>1. u \in openSockets /\ \A i \in Instances : socket[i] # u
      BY <2>8, <1>1, Places DEF OwnField, Base, Sockets, FieldOwned, Owner, CleanupPc
    <3>2. CASE CloseTheSocket(a)
      <4>1. inst[a] \in Instances
        BY <1>1, <3>2, Places DEF CloseTheSocket, At, Agents
      <4>2. QED
        BY <1>3, <3>1, <3>2, <4>1 DEF CloseTheSocket, CloseSocket
    <3>3. QED
      BY <1>3, <3>1, <3>2 DEF Cleanup, CheckNull, CheckClosed, SetNull, CloseFile, PostIdle, OnlyPc,
           loopbackVars
  <2>9. ASSUME NEW u \in Threads, pc[u] \in InField PROVE socket'[view] \in {NONE, u}
    <3>1. socket[view] \in {NONE, u} /\ view \in Instances
      BY <1>1, <2>9, Places, OnlySession DEF Base, OwnField
    <3>2. CASE SetNull(a)
      BY <3>1, <3>2, Places, <1>1 DEF SetNull
    <3>3. QED
      BY <1>3, <3>1, <3>2 DEF Cleanup, CheckNull, CheckClosed, CloseTheSocket, CloseFile, PostIdle,
           OnlyPc, fieldVars
  <2>10. ASSUME NEW u \in Threads
         PROVE  /\ pc'[u] \notin {"testClosed", "looper"}
                /\ pc'[u] = "assign" => u \in openSockets'
                /\ pc'[u] \in InField => socket'[view'] \in {NONE, u}
                /\ pc'[u] \in RecordPc => bw'[view'] = u
                /\ pc'[u] = "receive" => ref'[u] = u
    <3>1. CASE u = a
      BY <1>1, <2>2, <2>3, <3>1 DEF EndPc, CleanupPc
    <3>2. CASE u # a
      BY <1>1, <2>3, <2>7, <2>8, <2>9, <3>2 DEF OwnField
    <3>3. QED
      BY <3>1, <3>2
  <2>11. OwnField'
    BY <2>10 DEF OwnField
  <2>12. QED
    BY <2>6, <2>11
<1>4. QED
  BY <1>2, <1>3

LEMMA UserField ==
    ASSUME Orderly, Base, Sessions, CalmSince, NEW i \in Instances, DispatchPosted(i) \/ User(i)
    PROVE  OwnField' /\ Undisturbed'
<1>1. TypeInv /\ OwnField /\ Undisturbed /\ Main \in Agents
  BY Places DEF Base, Sessions
<1>2. ASSUME view = NONE \/ Active(view) = {}
      PROVE  \A t \in Threads : pc[t] \in Over
  BY <1>1, <1>2, Places DEF Active, Base, Writers, OneView, Over
<1>3. CASE OnCreateView(i)
  BY <1>2, <1>3, EmptyField DEF OnCreateView
<1>4. CASE OnDestroyView(i)
  <2>1. Active(view) = {} /\ (pc' = pc \/ GoTo(Main, "checkNull"))
    BY <1>4 DEF OnDestroyView, Orderly
  <2>2. \A t \in Threads : pc'[t] = pc[t]
    BY <1>1, <2>1, Places, Moves
  <2>3. QED
    BY <1>2, <2>1, <2>2, EmptyField
<1>5. CASE ClickStartStop(i)
  <2>1. PICK t \in Threads :
          pc[t] = "unborn" /\ GoTo(t, IF mState[i] = "idle" THEN "post" ELSE "kill")
    BY <1>5 DEF ClickStartStop, Pressed
  <2>2. PICK to \in {"post", "kill"} : GoTo(t, to)
    BY <2>1
  <2>3. t \in Agents /\ UNCHANGED <<view, socket, ref, bw>> /\ openSockets' = openSockets
        /\ openWriters' = openWriters
    BY <1>5, Places, <1>1 DEF ClickStartStop, Pressed, uiVars, fieldVars, localVars, fileVars,
                              loopbackVars
  <2>4. QED
    BY <1>1, <2>2, <2>3, MoveField DEF InField, SessionPc, PreField, RecordPc
<1>6. CASE \/ DispatchPosted(i) \/ OpenRoot(i)
           \/ RestartNic(i) \/ EditNumbers(i) \/ ClickThrows(i)
  <2>1. UNCHANGED <<pc, view, socket, bw, ref>> /\ openSockets' = openSockets
        /\ openWriters' = openWriters
    BY <1>6 DEF DispatchPosted, OpenRoot, RestartNic, EditNumbers, ClickThrows, Pressed, Crash,
                uiVars, fieldVars, localVars, fileVars, loopbackVars, fragmentVars
  <2>2. QED
    BY <1>1, <2>1, StayField
<1>7. QED
  BY <1>3, <1>4, <1>5, <1>6 DEF User

LEMMA NextSessions ==
    ASSUME Orderly
    PROVE  Base /\ Commands /\ Sessions /\ [Next]_vars => Sessions'
<1> SUFFICES ASSUME Base, Commands, Sessions, [Next]_vars PROVE Sessions'
  OBVIOUS
<1>1. TypeInv /\ LaunchedOnce /\ Writers /\ MainLeaves /\ OwnField /\ Undisturbed
  BY DEF Base, Sessions
<1>2. CalmSince
  BY <1>1, CalmBefore DEF CalmSince
<1>3. ASSUME NEW t \in Threads, BackgroundThread(t) PROVE OwnField' /\ Undisturbed'
  <2>1. CASE StopThread(t)
    <3>1. /\ UNCHANGED <<view, socket, bw, ref>> /\ openSockets' = openSockets
          /\ openWriters' = openWriters
          /\ \E to \in {"killOut", "postIdle", "checkNull"} : GoTo(t, to)
      BY <2>1 DEF StopThread, KillJob, KillOutput, OnlyPc, uiVars, fieldVars, localVars, fileVars,
                  loopbackVars
    <3>2. QED
      BY <1>1, <1>2, <3>1, Places, MoveField DEF InField, SessionPc, PreField, RecordPc
  <2>2. QED
    BY <1>1, <1>2, <1>3, <2>1, Places, SessionField, EndingField DEF BackgroundThread
<1>4. ASSUME MainThread PROVE OwnField' /\ Undisturbed'
  <2>1. CASE Cleanup(Main)
    BY <1>1, <1>2, <2>1, Places, EndingField
  <2>2. ASSUME NEW i \in Instances, DispatchPosted(i) \/ User(i) PROVE OwnField' /\ Undisturbed'
    BY <1>2, <2>2, UserField
  <2>3. QED
    BY <1>4, <2>1, <2>2 DEF MainThread
<1>5. ASSUME UNCHANGED fragmentVars, openSockets' = openSockets
      PROVE  OwnField' /\ Undisturbed'
  <2>1. UNCHANGED <<pc, view, socket, bw, ref>> /\ openWriters' = openWriters
    BY <1>5 DEF fragmentVars, uiVars, fieldVars, localVars, fileVars
  <2>2. QED
    BY <1>1, <1>2, <1>5, <2>1, StayField
<1>6. ASSUME NEW u \in Threads, CsiutilRuns(u) \/ FrameArrives(u)
      PROVE  UNCHANGED fragmentVars /\ openSockets' = openSockets
  BY <1>6 DEF CsiutilRuns, FrameArrives, PcapFails, SleepDelay, CreateUdpSendSocket,
     SendStop, CloseSendSocket, GotPacket, GotShortPacket, SendTo, Deliver, loopbackVars
<1>7. OwnField' /\ Undisturbed'
  <2>1. ASSUME NEW s \in Shells, ShellProcess(s)
        PROVE  UNCHANGED fragmentVars /\ openSockets' = openSockets
    BY <2>1 DEF ShellProcess, loopbackVars
  <2>2. UNCHANGED vars => UNCHANGED fragmentVars /\ openSockets' = openSockets
    BY DEF vars, loopbackVars
  <2>3. QED
    BY <1>3, <1>4, <1>5, <1>6, <2>1, <2>2 DEF Next
<1>8. MainLeaves' /\ KillersStop' /\ OnlyStoppers'
  BY <1>1, NextLeaves, NextStoppers
<1>9. QED
  BY <1>7, <1>8 DEF Sessions

LEMMA InitSessions == Init => Sessions
<1> SUFFICES ASSUME Init PROVE Sessions
  OBVIOUS
<1>1. \A t \in Threads : pc[t] = "unborn"
  BY FragmentAssumption DEF Init, Agents
<1>2. view = NONE
  BY DEF Init
<1>3. QED
  BY <1>1, <1>2 DEF Sessions, MainLeaves, KillersStop, OnlyStoppers, OwnField, Undisturbed,
                    SessionPc, PreField, RecordPc

-----------------------------------------------------------------------------
(* Where the packets are *)

LEMMA InitData == Init => Data
<1> SUFFICES ASSUME Init PROVE Data
  OBVIOUS
<1>1. /\ \A t \in Threads : pc[t] = "unborn" /\ utilPc[t] = "none" /\ sent[t] = 0
      /\ \A t \in Threads : rxQueue[t] = << >> /\ file[t] = << >>
      /\ localPort = {}
  BY FragmentAssumption DEF Init, RootInit, LoopbackInit, Agents
<1>2. \A t \in Threads : ~Writes(t)
  BY <1>1 DEF Writes
<1>3. QED
  BY <1>1, <1>2 DEF Data, HasPort, OwnQueue, LoopRecords, NothingYet, Consecutive, InHand,
                    NoneLost, StopSaid, Prefixes, RecordPc

LEMMA GotIs ==
    ASSUME TypeInv, NEW u \in Threads
    PROVE  /\ Len(file[u]) \in Nat /\ Len(rxQueue[u]) \in Nat /\ Got(u) \in Nat
           /\ Writes(u) => Got(u) = Len(file[u]) + 1
           /\ ~Writes(u) => Got(u) = Len(file[u])
<1>1. Len(file[u]) \in Nat /\ Len(rxQueue[u]) \in Nat
  BY Elements
<1>2. CASE Writes(u)
  <2>1. Got(u) = Len(file[u]) + 1
    BY <1>2 DEF Got
  <2>2. QED
    BY <1>1, <1>2, <2>1
<1>3. CASE ~Writes(u)
  <2>1. Got(u) = Len(file[u]) + 0
    BY <1>3 DEF Got
  <2>2. QED
    BY <1>1, <1>3, <2>1
<1>4. QED
  BY <1>2, <1>3

(* Threads move; no datagram does, but a socket may be closed whose csiutil *)
(* does not send any more. *)
LEMMA DataFrame ==
    ASSUME TypeInv, Data, UNCHANGED <<utilPc, sent, localPort, file>>,
           \A s \in Threads : \/ rxQueue'[s] = rxQueue[s]
                              \/ rxQueue'[s] = << >> /\ utilPc[s] # "loop",
           \A u \in Threads : Writes(u)' => Writes(u) /\ packet'[u] = packet[u],
           \A u \in Threads : pc'[u] \in RecordPc =>
               /\ pc[u] \in RecordPc \cup {"openNew"}
               /\ Writes(u) => Writes(u)',
           \A u \in Threads : utilPc[u] = "loop" => pc'[u] \in RecordPc,
           \A u \in Threads : pc'[u] \in BeforeWriter \cup {"unborn"}
                                  => pc[u] \in BeforeWriter \cup {"unborn"}
    PROVE  Data'
<1>1. \A s \in Threads : \A k \in 1..Len(rxQueue'[s]) :
        rxQueue'[s] = rxQueue[s] /\ k \in 1..Len(rxQueue[s])
  OBVIOUS
<1>2. \A u \in Threads : pc'[u] \in RecordPc => Got(u)' = Got(u)
  BY DEF Got
<1>3. HasPort' /\ LoopRecords' /\ Prefixes'
  BY DEF Data, HasPort, LoopRecords, Prefixes
<1>4. OwnQueue' /\ StopSaid'
  BY <1>1 DEF Data, OwnQueue, StopSaid
<1>5. NothingYet'
  BY DEF Data, NothingYet
<1>6. Consecutive'
  <2>1. ASSUME NEW u \in Threads, pc'[u] \in RecordPc, NEW k \in 1..Len(rxQueue'[u])
        PROVE  \/ rxQueue'[u][k].n = Got(u)' + k
               \/ rxQueue'[u][k].n = 0 /\ k = Len(rxQueue'[u])
    <3>1. rxQueue'[u] = rxQueue[u] /\ k \in 1..Len(rxQueue[u]) /\ Got(u)' = Got(u)
      BY <1>1, <1>2, <2>1
    <3>2. pc[u] # "openNew"
      BY <3>1 DEF Data, NothingYet, BeforeWriter
    <3>3. pc[u] \in RecordPc
      BY <2>1, <3>2
    <3>4. QED
      BY <3>1, <3>3 DEF Data, Consecutive
  <2>2. QED
    BY <2>1 DEF Consecutive
<1>7. InHand'
  BY DEF Data, InHand
<1>8. NoneLost'
  <2>1. ASSUME NEW u \in Threads, utilPc[u] = "loop" PROVE Got(u)' + Len(rxQueue'[u]) = sent[u]
    <3>1. Got(u)' = Got(u) /\ rxQueue'[u] = rxQueue[u]
      BY <1>2, <2>1
    <3>2. QED
      BY <2>1, <3>1 DEF Data, NoneLost
  <2>2. QED
    BY <2>1 DEF NoneLost
<1>9. QED
  BY <1>3, <1>4, <1>5, <1>6, <1>7, <1>8 DEF Data

(* A session receives from its own socket: the packet after the last one   *)
(* in its file, or the stop message, which came behind all packets.        *)
LEMMA ReceiveData ==
    ASSUME Orderly, TypeInv, OwnField, Data, NEW t \in Threads, Receive(t)
    PROVE  Data'
<1>1. /\ pc[t] = "receive" /\ ref[t] = t /\ rxQueue[t] # << >>
      /\ rxQueue' = [rxQueue EXCEPT ![t] = Tail(@)]
      /\ UNCHANGED <<utilPc, sent, localPort, file>>
      /\ ~PacketThrows(t) /\ ~Writes(t)
  BY DEF Receive, At, OwnField, TakeDatagram, PacketThrows, Orderly, Writes, rootVars, utilVars,
         fileVars
<1>2. PICK q \in Seq(Datagram) : q = rxQueue[t]
  BY Elements
<1>3. /\ rxQueue'[t] = Tail(q) /\ \A s \in Threads : s # t => rxQueue'[s] = rxQueue[s]
  BY <1>1, <1>2 DEF TypeInv, TypeOK, LoopbackTypeOK
<1>4. /\ Len(q) \in Nat \ {0} /\ Len(Tail(q)) = Len(q) - 1 /\ Head(q) = q[1] /\ q[1] \in Datagram
      /\ \A k \in 1..Len(q) - 1 : Tail(q)[k] = q[k + 1]
  BY <1>1, <1>2, TailOne
<1>5. \/ ~IsStop(q[1]) /\ GoTo(t, "write") /\ packet' = [packet EXCEPT ![t] = q[1]]
      \/ IsStop(q[1]) /\ GoTo(t, "checkNull") /\ packet' = packet
  BY <1>1, <1>2, <1>4 DEF Receive
<1>6. /\ pc'[t] \in {"write", "checkNull"} /\ \A u \in Threads : u # t => pc'[u] = pc[u]
      /\ \A u \in Threads : u # t => packet'[u] = packet[u]
      /\ pc'[t] = "write" => ~IsStop(q[1]) /\ packet'[t] = q[1]
      /\ pc'[t] = "checkNull" => IsStop(q[1])
  <2>1. t \in Agents /\ Threads \subseteq Agents
    BY Places
  <2>2. CASE ~IsStop(q[1]) /\ GoTo(t, "write") /\ packet' = [packet EXCEPT ![t] = q[1]]
    BY <2>1, <2>2, Moves DEF TypeInv, TypeOK, FragmentTypeOK
  <2>3. CASE IsStop(q[1]) /\ GoTo(t, "checkNull") /\ packet' = packet
    BY <2>1, <2>3, Moves
  <2>4. QED
    BY <1>5, <2>2, <2>3
<1>7. q[1].src = t /\ (IsStop(q[1]) => utilPc[t] \in {"close", "exit"})
  BY <1>2, <1>4 DEF Data, OwnQueue, StopSaid, IsStop
<1>8. Len(file[t]) \in Nat /\ Got(t) = Len(file[t])
  BY <1>1, GotIs
<1>9. ~IsStop(q[1]) => q[1] = [src |-> t, n |-> Len(file[t]) + 1]
  <2>1. pc[t] \in RecordPc
    BY <1>1 DEF RecordPc
  <2>2. q[1].n = Len(file[t]) + 1 \/ q[1].n = 0
    BY <1>2, <1>4, <1>8, <2>1 DEF Data, Consecutive
  <2>3. QED
    BY <1>4, <1>7, <2>2 DEF IsStop, Datagram
<1>10. \A u \in Threads : u # t => Writes(u)' = Writes(u) /\ Got(u)' = Got(u)
  BY <1>1, <1>6 DEF Writes, Got
<1>11. pc'[t] = "write" => Got(t)' = Len(file[t]) + 1
  BY <1>1 DEF Writes, Got
<1>12. \A s \in Threads : \A k \in 1..Len(rxQueue'[s]) :
         \/ s # t /\ rxQueue'[s] = rxQueue[s] /\ k \in 1..Len(rxQueue[s])
         \/ s = t /\ k + 1 \in 1..Len(q) /\ rxQueue'[s][k] = q[k + 1]
  <2>1. ASSUME NEW k \in 1..Len(Tail(q)) PROVE k + 1 \in 1..Len(q) /\ Tail(q)[k] = q[k + 1]
    BY <1>4
  <2>2. QED
    BY <1>3, <2>1
<1>13. HasPort' /\ Prefixes'
  BY <1>1 DEF Data, HasPort, Prefixes
<1>14. OwnQueue' /\ StopSaid'
  BY <1>1, <1>2, <1>12 DEF Data, OwnQueue, StopSaid
<1>15. LoopRecords'
  BY <1>1, <1>6, <1>7 DEF Data, LoopRecords, RecordPc
<1>16. NothingYet'
  BY <1>1, <1>3, <1>6 DEF Data, NothingYet, BeforeWriter, PreField
<1>17. Consecutive'
  <2>1. ASSUME NEW u \in Threads, pc'[u] \in RecordPc, NEW k \in 1..Len(rxQueue'[u])
        PROVE  \/ rxQueue'[u][k].n = Got(u)' + k
               \/ rxQueue'[u][k].n = 0 /\ k = Len(rxQueue'[u])
    <3>1. CASE u # t
      BY <1>6, <1>10, <1>12, <2>1, <3>1 DEF Data, Consecutive
    <3>2. CASE u = t
      <4>1. Got(t)' = Len(file[t]) + 1
        BY <1>6, <1>11, <2>1, <3>2 DEF RecordPc
      <4>2. k + 1 \in 1..Len(q) /\ rxQueue'[t][k] = q[k + 1] /\ Len(rxQueue'[t]) = Len(q) - 1
        BY <1>3, <1>4, <1>12, <2>1, <3>2
      <4>3. q[k + 1].n = Len(file[t]) + (k + 1) \/ (q[k + 1].n = 0 /\ k + 1 = Len(q))
        BY <1>1, <1>2, <1>8, <4>2 DEF Data, Consecutive, RecordPc
      <4>4. k \in Nat
        BY <2>1
      <4>5. \A x \in Nat, y \in Nat : x + (y + 1) = (x + 1) + y /\ (y + 1) - 1 = y
        OBVIOUS
      <4>6. CASE q[k + 1].n = Len(file[t]) + (k + 1)
        <5>1. Len(file[t]) + (k + 1) = (Len(file[t]) + 1) + k
          BY <1>8, <4>4, <4>5
        <5>2. QED
          BY <3>2, <4>1, <4>2, <4>6, <5>1
      <4>7. CASE q[k + 1].n = 0 /\ k + 1 = Len(q)
        <5>1. k = Len(q) - 1
          BY <4>4, <4>5, <4>7
        <5>2. QED
          BY <3>2, <4>2, <4>7, <5>1
      <4>8. QED
        BY <4>3, <4>6, <4>7
    <3>3. QED
      BY <3>1, <3>2
  <2>2. QED
    BY <2>1 DEF Consecutive
<1>18. InHand'
  BY <1>1, <1>6, <1>9, <1>10 DEF Data, InHand, Writes
<1>19. NoneLost'
  <2>1. ASSUME NEW u \in Threads, utilPc[u] = "loop" PROVE Got(u)' + Len(rxQueue'[u]) = sent[u]
    <3>1. CASE u # t
      BY <1>3, <1>10, <2>1, <3>1 DEF Data, NoneLost
    <3>2. CASE u = t
      <4>1. pc'[t] = "write"
        BY <1>6, <1>7, <2>1, <3>2
      <4>2. Len(file[t]) + Len(q) = sent[t]
        BY <1>2, <1>8, <2>1, <3>2 DEF Data, NoneLost
      <4>3. Got(t)' = Len(file[t]) + 1 /\ Len(rxQueue'[t]) = Len(q) - 1
        BY <1>3, <1>4, <1>11, <4>1
      <4>4. (Len(file[t]) + 1) + (Len(q) - 1) = sent[t]
        BY <1>4, <1>8, <4>2
      <4>5. Got(t)' + Len(rxQueue'[t]) = sent[t]
        BY <4>3, <4>4
      <4>6. QED
        BY <3>2, <4>5
    <3>3. QED
      BY <3>1, <3>2
  <2>2. QED
    BY <1>1, <2>1 DEF NoneLost
<1>20. QED
  BY <1>13, <1>14, <1>15, <1>16, <1>17, <1>18, <1>19 DEF Data

(* A session writes the packet in its hand to its own file. *)
LEMMA WriteData ==
    ASSUME TypeInv, Data, NEW t \in Threads, pc[t] = "write", GoTo(t, "loop"),
           file' = [file EXCEPT ![t] = Append(@, [by |-> t, packet |-> packet[t]])],
           packet' = [packet EXCEPT ![t] = NONE],
           UNCHANGED <<utilPc, sent, localPort, rxQueue>>
    PROVE  Data'
<1>1. PICK q \in Seq(Line) : q = file[t]
  BY Elements
<1>2. PICK l : l = [by |-> t, packet |-> packet[t]]
  OBVIOUS
<1>3. /\ Writes(t) /\ packet[t] = [src |-> t, n |-> Len(q) + 1] /\ l \in Line
  <2>1. Writes(t)
    BY DEF Writes
  <2>2. packet[t] \in Datagram
    BY <2>1, Elements
  <2>3. QED
    BY <1>1, <1>2, <2>1, <2>2 DEF Data, InHand, Line
<1>4. /\ file'[t] = Append(q, l) /\ \A w \in Threads : w # t => file'[w] = file[w]
  BY <1>1, <1>2 DEF TypeInv, TypeOK, FragmentTypeOK
<1>5. /\ Len(q) \in Nat /\ Len(Append(q, l)) = Len(q) + 1
      /\ \A k \in 1..Len(q) : Append(q, l)[k] = q[k]
      /\ Append(q, l)[Len(q) + 1] = l
  BY <1>1, <1>3, AppendOne
<1>6. pc'[t] = "loop" /\ \A u \in Threads : u # t => pc'[u] = pc[u]
  BY Moves, Places
<1>7. \A u \in Threads : u # t => packet'[u] = packet[u]
  BY DEF TypeInv, TypeOK, FragmentTypeOK
<1>8. \A u \in Threads : u # t => Writes(u)' = Writes(u) /\ Got(u)' = Got(u)
  BY <1>4, <1>6 DEF Writes, Got
<1>9. ~Writes(t)'
  BY <1>6 DEF Writes
<1>10. Got(t)' = Got(t)
  <2>1. Got(t)' = Len(file'[t]) + 0
    BY <1>9 DEF Got
  <2>2. Got(t) = Len(q) + 1
    BY <1>1, <1>3, GotIs
  <2>3. QED
    BY <1>4, <1>5, <2>1, <2>2
<1>11. \A u \in Threads : Got(u)' = Got(u)
  BY <1>8, <1>10
<1>12. HasPort' /\ OwnQueue' /\ StopSaid'
  BY DEF Data, HasPort, OwnQueue, StopSaid
<1>13. LoopRecords' /\ NothingYet'
  BY <1>4, <1>6 DEF Data, LoopRecords, NothingYet, RecordPc, BeforeWriter, PreField
<1>14. Consecutive'
  <2>1. \A u \in Threads : pc'[u] \in RecordPc => pc[u] \in RecordPc
    BY <1>6 DEF RecordPc
  <2>2. QED
    BY <1>11, <2>1 DEF Data, Consecutive
<1>15. InHand'
  BY <1>4, <1>7, <1>8, <1>9 DEF Data, InHand
<1>16. NoneLost'
  BY <1>11 DEF Data, NoneLost
<1>17. Prefixes'
  <2>1. ASSUME NEW w \in Threads, NEW k \in 1..Len(file'[w])
        PROVE  file'[w][k] = [by |-> w, packet |-> [src |-> w, n |-> k]]
    <3>1. CASE w # t
      BY <1>4, <2>1, <3>1 DEF Data, Prefixes
    <3>2. CASE w = t /\ k \in 1..Len(q)
      BY <1>1, <1>4, <1>5, <3>2 DEF Data, Prefixes
    <3>3. CASE w = t /\ k = Len(q) + 1
      BY <1>2, <1>3, <1>4, <1>5, <3>3
    <3>4. QED
      BY <1>4, <1>5, <2>1, <3>1, <3>2, <3>3
  <2>2. QED
    BY <2>1 DEF Prefixes
<1>18. QED
  BY <1>12, <1>13, <1>14, <1>15, <1>16, <1>17 DEF Data

(* A csiutil only starts, or ends. *)
LEMMA UtilData ==
    ASSUME TypeInv, Data, NEW u \in Threads, NEW p \in {"open", "sleep", "exit"},
           utilPc' = [utilPc EXCEPT ![u] = p], UNCHANGED <<rxQueue, file, packet, pc>>,
           HasPort', \A v \in Threads : v # u => sent'[v] = sent[v],
           p \in {"open", "sleep"} => sent'[u] = 0 /\ utilPc[u] \notin {"close", "exit"}
    PROVE  Data'
<1>1. utilPc'[u] = p /\ \A v \in Threads : v # u => utilPc'[v] = utilPc[v]
  BY DEF TypeInv, TypeOK, RootTypeOK
<1>2. \A v \in Threads : Writes(v)' = Writes(v) /\ Got(v)' = Got(v)
  BY DEF Writes, Got
<1>3. \A v \in Threads : utilPc'[v] = "loop" => v # u /\ utilPc[v] = "loop"
  BY <1>1
<1>4. OwnQueue' /\ Prefixes'
  BY DEF Data, OwnQueue, Prefixes
<1>5. LoopRecords' /\ NoneLost'
  BY <1>2, <1>3 DEF Data, LoopRecords, NoneLost
<1>6. NothingYet'
  BY <1>1 DEF Data, NothingYet
<1>7. Consecutive'
  BY <1>2 DEF Data, Consecutive
<1>8. InHand'
  BY <1>2 DEF Data, InHand
<1>9. StopSaid'
  BY <1>1 DEF Data, StopSaid
<1>10. QED
  BY <1>4, <1>5, <1>6, <1>7, <1>8, <1>9 DEF Data

LEMMA EndsData ==
    ASSUME TypeInv, Data, NEW u \in Threads, UtilEnds(u), UNCHANGED <<rxQueue, file, packet, pc>>
    PROVE  Data'
<1>1. /\ utilPc' = [utilPc EXCEPT ![u] = "exit"] /\ localPort' = localPort \ {u}
      /\ \A v \in Threads : v # u => sent'[v] = sent[v]
  BY DEF UtilEnds, TypeInv, TypeOK, RootTypeOK
<1>2. HasPort'
  <2>1. utilPc'[u] = "exit" /\ \A v \in Threads : v # u => utilPc'[v] = utilPc[v]
    BY <1>1 DEF TypeInv, TypeOK, RootTypeOK
  <2>2. QED
    BY <1>1, <2>1 DEF Data, HasPort
<1>3. QED
  BY <1>1, <1>2, UtilData

(* The delay of csiutil is over: nothing has been sent yet. *)
LEMMA SleepData ==
    ASSUME Orderly, Base, Commands, Data, NEW u \in Threads, SleepDelay(u), ~Opening(u),
           UNCHANGED <<file, packet, pc>>
    PROVE  Data'
<1>1. /\ utilPc[u] = "sleep" /\ utilPc' = [utilPc EXCEPT ![u] = "loop"]
      /\ UNCHANGED <<rxQueue, localPort, sent>> /\ TypeInv
  BY DEF SleepDelay, AtUtil, loopbackVars, Base
<1>2. utilPc'[u] = "loop" /\ \A v \in Threads : v # u => utilPc'[v] = utilPc[v]
  BY <1>1 DEF TypeInv, TypeOK, RootTypeOK
<1>3. pc[u] \in RecordPc
  BY <1>1 DEF Commands, LiveWorks, Live, WorkPc, StartPc, SessionPc, PreField, Opening
<1>4. \A d : d.src = u => ~Issued(d)
  BY <1>1 DEF Issued
<1>5. Len(rxQueue[u]) = 0 /\ Len(file[u]) = 0 /\ ~Writes(u)
  <2>1. Len(rxQueue[u]) \in Nat /\ Len(file[u]) \in Nat
    BY <1>1, Elements
  <2>2. \A k \in 1..Len(rxQueue[u]) : FALSE
    BY <1>4 DEF Data, OwnQueue, Base, Recording, AllIssued
  <2>3. ASSUME NEW k \in 1..Len(file[u]) PROVE FALSE
    <3>1. Issued(file[u][k].packet)
      BY DEF Base, Recording, AllIssued
    <3>2. file[u][k] = [by |-> u, packet |-> [src |-> u, n |-> k]]
      BY DEF Data, Prefixes
    <3>3. file[u][k].packet = [src |-> u, n |-> k]
      BY <3>2
    <3>4. file[u][k].packet.src = u
      BY <3>3
    <3>5. QED
      BY <1>4, <3>1, <3>4
  <2>4. ~Writes(u)
    BY <1>4 DEF Data, InHand, Base, Recording, AllIssued
  <2>5. QED
    BY <2>1, <2>2, <2>3, <2>4
<1>6. \A v \in Threads : Writes(v)' = Writes(v) /\ Got(v)' = Got(v)
  BY DEF Writes, Got
<1>7. Got(u) + Len(rxQueue[u]) = sent[u]
  <2>1. sent[u] = 0
    BY <1>1 DEF Data, NothingYet
  <2>2. Got(u) = 0
    BY <1>1, <1>5, GotIs
  <2>3. QED
    BY <1>5, <2>1, <2>2
<1>8. HasPort' /\ LoopRecords'
  BY <1>1, <1>2, <1>3 DEF Data, HasPort, LoopRecords
<1>9. NothingYet'
  BY <1>1, <1>2 DEF Data, NothingYet
<1>10. OwnQueue' /\ Prefixes'
  BY <1>1 DEF Data, OwnQueue, Prefixes
<1>11. Consecutive' /\ InHand'
  BY <1>1, <1>6 DEF Data, Consecutive, InHand
<1>12. NoneLost'
  BY <1>1, <1>2, <1>6, <1>7 DEF Data, NoneLost
<1>13. StopSaid'
  BY <1>1, <1>2 DEF Data, StopSaid
<1>14. QED
  BY <1>8, <1>9, <1>10, <1>11, <1>12, <1>13 DEF Data

(* What a csiutil sends goes into the socket of its own session. *)
LEMMA Delivered ==
    ASSUME Base, Sessions, Data, NEW u \in Threads, utilPc[u] = "loop", NEW d \in Datagram,
           Deliver(d)
    PROVE  /\ \A s \in Threads : s # u => rxQueue'[s] = rxQueue[s]
           /\ Len(rxQueue[u]) < QueueMax => rxQueue'[u] = Append(rxQueue[u], d)
           /\ rxQueue'[u] \in {rxQueue[u], Append(rxQueue[u], d)}
<1>1. pc[u] \in RecordPc
  BY DEF Data, LoopRecords
<1>2. Calm(u)
  BY DEF Calm, Live
<1>3. u \in openSockets
  BY <1>1, <1>2 DEF Sessions, Undisturbed, SessionPc, PreField, RecordPc
<1>4. \A s \in openSockets : s = u
  BY <1>3 DEF Base, Recording, OneSocket
<1>5. QED
  BY <1>3, <1>4 DEF Deliver

LEMMA SendsData ==
    ASSUME Base, Sessions, Data, NEW u \in Threads, utilPc[u] = "loop", NEW d \in Datagram,
           Deliver(d), d.src = u, NEW p \in {"loop", "close"},
           utilPc' = [utilPc EXCEPT ![u] = p], UNCHANGED <<localPort, file, packet, pc>>,
           \A v \in Threads : v # u => sent'[v] = sent[v],
           p = "close" => d.n = 0,
           p = "loop" => /\ d.n = sent[u] + 1 /\ sent'[u] = sent[u] + 1
                         /\ Len(rxQueue[u]) < QueueMax
    PROVE  Data'
<1>1. TypeInv
  BY DEF Base
<1>2. utilPc'[u] = p /\ \A v \in Threads : v # u => utilPc'[v] = utilPc[v]
  BY <1>1 DEF TypeInv, TypeOK, RootTypeOK
<1>3. PICK q \in Seq(Datagram) : q = rxQueue[u]
  BY <1>1, Elements
<1>4. /\ Len(q) \in Nat /\ Len(Append(q, d)) = Len(q) + 1
      /\ \A k \in 1..Len(q) : Append(q, d)[k] = q[k]
      /\ Append(q, d)[Len(q) + 1] = d
  BY AppendOne
<1>5. /\ \A s \in Threads : s # u => rxQueue'[s] = rxQueue[s]
      /\ rxQueue'[u] = Append(q, d) \/ (p = "close" /\ rxQueue'[u] = q)
  <2>1. /\ \A s \in Threads : s # u => rxQueue'[s] = rxQueue[s]
        /\ Len(q) < QueueMax => rxQueue'[u] = Append(q, d)
        /\ rxQueue'[u] \in {q, Append(q, d)}
    BY <1>3, Delivered
  <2>2. QED
    BY <1>3, <2>1
<1>6. \A s \in Threads : \A k \in 1..Len(rxQueue'[s]) :
        \/ k \in 1..Len(rxQueue[s]) /\ rxQueue'[s][k] = rxQueue[s][k]
        \/ s = u /\ k = Len(q) + 1 /\ rxQueue'[s][k] = d /\ Len(rxQueue'[s]) = Len(q) + 1
  <2>1. ASSUME NEW k \in 1..Len(Append(q, d))
        PROVE  (k \in 1..Len(q) /\ Append(q, d)[k] = q[k])
                 \/ (k = Len(q) + 1 /\ Append(q, d)[k] = d)
    BY <1>4
  <2>2. ASSUME NEW k \in 1..Len(rxQueue'[u])
        PROVE  \/ k \in 1..Len(q) /\ rxQueue'[u][k] = q[k]
               \/ k = Len(q) + 1 /\ rxQueue'[u][k] = d /\ Len(rxQueue'[u]) = Len(q) + 1
    <3>1. CASE rxQueue'[u] = Append(q, d)
      BY <1>4, <2>1, <3>1
    <3>2. CASE rxQueue'[u] = q
      BY <3>2
    <3>3. QED
      BY <1>5, <3>1, <3>2
  <2>3. QED
    BY <1>3, <1>5, <2>2
<1>7. pc[u] \in RecordPc /\ \A k \in 1..Len(q) : q[k].n = Got(u) + k
  <2>1. \A k \in 1..Len(q) : q[k].n # 0
    BY <1>3 DEF Data, StopSaid
  <2>2. QED
    BY <1>3, <2>1 DEF Data, LoopRecords, Consecutive
<1>8. \A v \in Threads : Writes(v)' = Writes(v) /\ Got(v)' = Got(v)
  BY DEF Writes, Got
<1>9. Got(u) \in Nat /\ Got(u) + Len(q) = sent[u]
  BY <1>1, <1>3, GotIs DEF Data, NoneLost
<1>10. HasPort' /\ Prefixes'
  BY <1>2 DEF Data, HasPort, Prefixes
<1>11. OwnQueue'
  BY <1>6 DEF Data, OwnQueue
<1>12. LoopRecords' /\ InHand'
  BY <1>2, <1>7, <1>8 DEF Data, LoopRecords, InHand
<1>13. NothingYet'
  <2>1. pc[u] \notin BeforeWriter \cup {"unborn"} /\ utilPc'[u] \notin {"none", "open", "sleep"}
    BY <1>2, <1>7 DEF RecordPc, BeforeWriter, PreField
  <2>2. QED
    BY <1>2, <1>5, <2>1 DEF Data, NothingYet
<1>14. Consecutive'
  <2>1. ASSUME NEW v \in Threads, pc[v] \in RecordPc, NEW k \in 1..Len(rxQueue'[v])
        PROVE  \/ rxQueue'[v][k].n = Got(v) + k
               \/ rxQueue'[v][k].n = 0 /\ k = Len(rxQueue'[v])
    <3>1. CASE v # u
      BY <1>5, <2>1, <3>1 DEF Data, Consecutive
    <3>2. CASE v = u /\ k \in 1..Len(q) /\ rxQueue'[v][k] = q[k]
      BY <1>7, <3>2
    <3>3. CASE v = u /\ k = Len(q) + 1 /\ rxQueue'[v][k] = d /\ Len(rxQueue'[v]) = Len(q) + 1
      <4>1. CASE p = "close"
        BY <3>3, <4>1
      <4>2. CASE p = "loop"
        BY <1>4, <1>9, <3>3, <4>2
      <4>3. QED
        BY <4>1, <4>2
    <3>4. QED
      BY <1>3, <1>6, <2>1, <3>1, <3>2, <3>3
  <2>2. QED
    BY <1>8, <2>1 DEF Consecutive
<1>15. NoneLost'
  <2>1. ASSUME NEW v \in Threads, utilPc'[v] = "loop"
        PROVE  Got(v) + Len(rxQueue'[v]) = sent'[v]
    <3>1. CASE v # u
      BY <1>2, <1>5, <2>1, <3>1 DEF Data, NoneLost
    <3>2. CASE v = u
      <4>1. p = "loop" /\ rxQueue'[u] = Append(q, d) /\ sent'[u] = sent[u] + 1
        BY <1>2, <1>5, <2>1, <3>2
      <4>2. Len(rxQueue'[u]) = Len(q) + 1
        BY <1>4, <4>1
      <4>3. Got(u) + (Len(q) + 1) = sent[u] + 1
        BY <1>4, <1>9
      <4>4. QED
        BY <3>2, <4>1, <4>2, <4>3
    <3>3. QED
      BY <3>1, <3>2
  <2>2. QED
    BY <1>8, <2>1 DEF NoneLost
<1>16. StopSaid'
  <2>1. ASSUME NEW v \in Threads, NEW k \in 1..Len(rxQueue'[v]), rxQueue'[v][k].n = 0
        PROVE  utilPc'[v] \in {"close", "exit"}
    <3>1. CASE v # u
      BY <1>2, <1>5, <2>1, <3>1 DEF Data, StopSaid
    <3>2. CASE v = u /\ k \in 1..Len(q) /\ rxQueue'[v][k] = q[k]
      BY <1>3, <2>1, <3>2 DEF Data, StopSaid
    <3>3. CASE v = u /\ rxQueue'[v][k] = d
      <4>1. p # "loop"
        <5>1. d.n = 0 /\ sent[u] \in Nat
          BY <1>4, <1>9, <2>1, <3>3
        <5>2. QED
          BY <5>1
      <4>2. QED
        BY <1>2, <3>3, <4>1
    <3>4. QED
      BY <1>3, <1>6, <2>1, <3>1, <3>2, <3>3
  <2>2. QED
    BY <2>1 DEF StopSaid
<1>17. QED
  BY <1>10, <1>11, <1>12, <1>13, <1>14, <1>15, <1>16 DEF Data

LEMMA FrameData ==
    ASSUME Orderly, Roomy, Base, Sessions, Data, NEW u \in Threads, FrameArrives(u)
    PROVE  Data'
<1>1. GotPacket(u) /\ UNCHANGED <<file, packet, pc>>
  BY DEF FrameArrives, Orderly, fragmentVars, fileVars, localVars
<1>2. /\ utilPc[u] = "loop" /\ utilPc' = [utilPc EXCEPT ![u] = "loop"]
      /\ sent[u] < PacketCount /\ sent' = [sent EXCEPT ![u] = @ + 1]
      /\ SendTo(u, [src |-> u, n |-> sent[u] + 1]) /\ localPort' = localPort /\ TypeInv
  BY <1>1 DEF GotPacket, AtUtil, Base
<1>3. sent[u] \in Nat /\ PacketCount \in Nat /\ QueueMax \in Nat /\ PacketCount <= QueueMax
      /\ sent'[u] = sent[u] + 1 /\ \A v \in Threads : v # u => sent'[v] = sent[v]
  BY <1>2, LoopbackAssumption DEF TypeInv, TypeOK, RootTypeOK, Roomy
<1>4. u \in localPort
  BY <1>2 DEF Data, HasPort
<1>5. PICK d \in Datagram : d = [src |-> u, n |-> sent[u] + 1]
  BY <1>2, <1>3 DEF Datagram
<1>6. Deliver(d) /\ d.src = u /\ d.n = sent[u] + 1
  BY <1>2, <1>4, <1>5 DEF SendTo
<1>7. Len(rxQueue[u]) < QueueMax
  <2>1. Len(rxQueue[u]) \in Nat /\ Got(u) \in Nat /\ Got(u) + Len(rxQueue[u]) = sent[u]
    BY <1>2, GotIs DEF Data, NoneLost
  <2>2. QED
    BY <1>2, <1>3, <2>1
<1>8. QED
  BY <1>1, <1>2, <1>3, <1>6, <1>7, SendsData

LEMMA CsiutilData ==
    ASSUME Orderly, Base, Commands, Sessions, Data, NEW u \in Threads, CsiutilRuns(u)
    PROVE  Data'
<1>1. UNCHANGED <<file, packet, pc>> /\ TypeInv
  BY DEF CsiutilRuns, fragmentVars, fileVars, localVars, Base
<1>2. CASE PcapFails(u) \/ CloseSendSocket(u)
  BY <1>1, <1>2, EndsData DEF PcapFails, CloseSendSocket, loopbackVars
<1>3. CASE SleepDelay(u) /\ ~Opening(u)
  BY <1>1, <1>3, SleepData
<1>4. CASE CreateUdpSendSocket(u)
  <2>1. /\ utilPc[u] = "open" /\ utilPc' = [utilPc EXCEPT ![u] = "sleep"]
        /\ UNCHANGED <<rxQueue, sent>> /\ localPort' = IF localPort = {} THEN {u} ELSE localPort
    BY <1>4 DEF CreateUdpSendSocket, AtUtil, loopbackVars
  <2>2. localPort = {}
    <3>1. ASSUME NEW v \in localPort PROVE FALSE
      <4>1. v \in Threads
        BY <1>1, <3>1 DEF TypeInv, TypeOK, RootTypeOK
      <4>2. utilPc[v] \in {"sleep", "loop", "close"}
        BY <3>1, <4>1 DEF Data, HasPort
      <4>3. v = u
        BY <2>1, <4>1, <4>2 DEF Commands, OneRuns, Running, Live
      <4>4. QED
        BY <2>1, <4>2, <4>3
    <3>2. QED
      BY <3>1
  <2>3. utilPc'[u] = "sleep" /\ \A v \in Threads : v # u => utilPc'[v] = utilPc[v]
    BY <1>1, <2>1 DEF TypeInv, TypeOK, RootTypeOK
  <2>4. HasPort'
    BY <2>1, <2>2, <2>3 DEF Data, HasPort
  <2>5. sent'[u] = 0
    BY <2>1 DEF Data, NothingYet
  <2>6. QED
    BY <1>1, <2>1, <2>4, <2>5, UtilData
<1>5. CASE SendStop(u)
  <2>1. /\ utilPc[u] = "loop" /\ utilPc' = [utilPc EXCEPT ![u] = "close"]
        /\ UNCHANGED <<sent, localPort>> /\ SendTo(u, StopMsg(u))
    BY <1>5 DEF SendStop, AtUtil
  <2>2. u \in localPort
    BY <2>1 DEF Data, HasPort
  <2>3. PICK d \in Datagram : d = StopMsg(u)
    <3>1. 0 \in 0..PacketCount
      BY LoopbackAssumption
    <3>2. QED
      BY <3>1 DEF StopMsg, Datagram
  <2>4. Deliver(d) /\ d.src = u /\ d.n = 0
    BY <2>1, <2>2, <2>3 DEF SendTo, StopMsg
  <2>5. QED
    BY <1>1, <2>1, <2>4, SendsData
<1>6. QED
  BY <1>2, <1>3, <1>4, <1>5 DEF CsiutilRuns, Orderly

(* The shell launches a csiutil, ends one, or restarts the interface.      *)
LEMMA ShellData ==
    ASSUME Orderly, Base, Commands, Data, NEW s \in Shells, ShellProcess(s)
    PROVE  Data'
<1>1. UNCHANGED <<pc, file, packet, rxQueue>> /\ TypeInv /\ LaunchedOnce
  BY DEF ShellProcess, fragmentVars, fileVars, localVars, loopbackVars, Base
<1>2. ASSUME UNCHANGED <<utilPc, sent, localPort>> PROVE Data'
  <2>1. \A u \in Threads : Writes(u)' = Writes(u)
    BY <1>1 DEF Writes
  <2>2. \A u \in Threads : utilPc[u] = "loop" => pc[u] \in RecordPc
    BY DEF Data, LoopRecords
  <2>3. QED
    BY <1>1, <1>2, <2>1, <2>2, DataFrame
<1>3. CASE ExecuteCommand(s)
  <2>1. stdin[s] # << >> /\ stdin' = [stdin EXCEPT ![s] = Tail(@)]
    BY <1>3 DEF ExecuteCommand
  <2>2. 1 \in 1..Len(stdin[s]) /\ Head(stdin[s]) = stdin[s][1]
    BY <1>1, <2>1, CommandTaken
  <2>3. ASSUME NEW u \in Threads, Commanded(s, 1, u) PROVE Data'
    <3>1. Head(stdin[s]).op = "csiutil" /\ Head(stdin[s]).arg = u
      BY <2>2, <2>3 DEF Commanded, LaunchCmd
    <3>2. RunCsiutil(s, Head(stdin[s]).arg)
      BY <1>3, <3>1 DEF ExecuteCommand
    <3>3. utilPc' = [utilPc EXCEPT ![u] = "open"] /\ UNCHANGED <<localPort, sent>>
      BY <3>1, <3>2 DEF RunCsiutil
    <3>4. utilPc[u] = "none" /\ utilPc'[u] = "open"
          /\ \A v \in Threads : v # u => utilPc'[v] = utilPc[v]
      BY <1>1, <2>2, <2>3, <3>3 DEF LaunchedOnce, TypeInv, TypeOK, RootTypeOK
    <3>5. HasPort'
      BY <3>3, <3>4 DEF Data, HasPort
    <3>6. sent'[u] = 0
      BY <3>3, <3>4 DEF Data, NothingYet
    <3>7. QED
      BY <1>1, <3>3, <3>4, <3>5, <3>6, UtilData
  <2>4. CASE KillAt(s, 1)
    <3>1. RunKill(s)
      BY <1>3, <2>2, <2>4 DEF ExecuteCommand, KillAt, KillCmd
    <3>2. CASE job1[s] = NONE
      BY <1>2, <3>1, <3>2 DEF RunKill, utilVars
    <3>3. CASE job1[s] # NONE
      <4>1. job1[s] \in Threads
        BY <1>1, <3>3 DEF TypeInv, TypeOK, RootTypeOK
      <4>2. UtilEnds(job1[s])
        BY <3>1, <3>3 DEF RunKill
      <4>3. QED
        BY <1>1, <4>1, <4>2, EndsData
    <3>4. QED
      BY <3>2, <3>3
  <2>5. CASE stdin[s][1] = IfconfigCmd
    BY <1>2, <1>3, <2>2, <2>5 DEF ExecuteCommand, IfconfigCmd, RunIfconfig
  <2>6. QED
    BY <2>2, <2>3, <2>4, <2>5 DEF Commands, Known
<1>4. CASE DropCommands(s)
  BY <1>2, <1>4 DEF DropCommands, utilVars
<1>5. QED
  BY <1>3, <1>4 DEF ShellProcess, Orderly

(* A thread goes on without touching a datagram. *)
LEMMA MoveData ==
    ASSUME TypeInv, Data, NEW a \in Agents, NEW to, GoTo(a, to),
           UNCHANGED <<utilPc, sent, localPort, file, rxQueue>>,
           to # "write", \A u \in Threads \ {a} : packet'[u] = packet[u],
           a \in Threads =>
               /\ to \in RecordPc => pc[a] \in {"openNew", "loop", "receive"}
               /\ utilPc[a] = "loop" => to \in RecordPc
               /\ to \in BeforeWriter \cup {"unborn"} => pc[a] \in BeforeWriter \cup {"unborn"}
    PROVE  Data'
<1>1. pc'[a] = to /\ \A u \in Threads : u # a => pc'[u] = pc[u]
  BY Moves, Places
<1>2. \A u \in Threads : Writes(u)' => u # a /\ Writes(u) /\ packet'[u] = packet[u]
  BY <1>1 DEF Writes
<1>3. \A u \in Threads : pc'[u] \in RecordPc =>
        /\ pc[u] \in RecordPc \cup {"openNew"}
        /\ Writes(u) => Writes(u)'
  BY <1>1 DEF Writes, RecordPc
<1>4. \A u \in Threads : utilPc[u] = "loop" => pc'[u] \in RecordPc
  BY <1>1 DEF Data, LoopRecords
<1>5. \A u \in Threads : pc'[u] \in BeforeWriter \cup {"unborn"}
                             => pc[u] \in BeforeWriter \cup {"unborn"}
  BY <1>1
<1>6. QED
  BY <1>2, <1>3, <1>4, <1>5, DataFrame

LEMMA SessionData ==
    ASSUME Orderly, Base, Sessions, Data, NEW t \in Threads, SessionThread(t)
    PROVE  Data'
<1>1. /\ TypeInv /\ t \in Agents /\ inst[t] = view /\ NONE \notin Threads
      /\ OwnField /\ Undisturbed /\ StopSaid /\ LoopRecords
  <2>1. pc[t] \in SessionPc
    BY SessionFrom
  <2>2. QED
    BY <2>1, Places, OnlySession DEF Base, Sessions, Data
<1>2. ASSUME utilPc[t] = "loop" PROVE \E to \in WorkPc : GoTo(t, to)
  <2>1. pc[t] \in WorkPc
    BY <1>1, <1>2 DEF LoopRecords, WorkPc, StartPc, SessionPc, PreField, RecordPc
  <2>2. QED
    BY <1>1, <1>2, <2>1, LiveGoesOn DEF Live
<1>3. CASE Receive(t)
  BY <1>1, <1>3, ReceiveData
<1>4. CASE WriteText(t)
  <2>1. /\ pc[t] = "write" /\ bw[view] = t
        /\ UNCHANGED <<utilPc, sent, localPort, rxQueue>>
        /\ packet' = [packet EXCEPT ![t] = NONE]
    BY <1>1, <1>4 DEF WriteText, At, OwnField, RecordPc, loopbackVars, rootVars, utilVars
  <2>2. CASE t \in openWriters
    <3>1. GoTo(t, "loop")
      BY <1>1, <1>4, <2>1, <2>2 DEF WriteText
    <3>2. file' = [file EXCEPT ![t] = Append(@, [by |-> t, packet |-> packet[t]])]
      BY <1>1, <1>4, <2>1, <2>2 DEF WriteText
    <3>3. QED
      BY <1>1, <2>1, <3>1, <3>2, WriteData
  <2>3. CASE t \notin openWriters
    <3>1. GoTo(t, "checkNull") /\ file' = file
      BY <1>1, <1>4, <2>1, <2>3 DEF WriteText
    <3>2. utilPc[t] # "loop"
      BY <2>1, <2>3, <1>1 DEF Undisturbed, Calm, Live, RecordPc
    <3>3. \A u \in Threads \ {t} : packet'[u] = packet[u]
      BY <1>1, <2>1 DEF TypeInv, TypeOK, FragmentTypeOK
    <3>4. QED
      BY <1>1, <2>1, <3>1, <3>2, <3>3, MoveData DEF RecordPc, BeforeWriter, PreField
  <2>4. QED
    BY <2>2, <2>3
<1>5. CASE ~Receive(t) /\ ~WriteText(t)
  <2>1. UNCHANGED <<utilPc, sent, localPort, file, rxQueue, packet>>
    BY <1>5 DEF SessionThread, PostCapturing, LaunchCsiutil, JobsOutput, TestSocket, NewSocket,
           AssignSocket, CreateFileCloses, CreateFileOpens, ReadSocketField, ReceiveThrows,
           OnlyPc, BindSocket, Input, loopbackVars, rootVars, utilVars, localVars, fileVars
  <2>2. PICK to \in SessionPc \cup {"checkNull"} : GoTo(t, to) /\ to # "write"
              /\ (to \in RecordPc => pc[t] \in {"openNew", "loop", "receive"})
              /\ (to \in BeforeWriter => pc[t] \in BeforeWriter)
    BY <1>5 DEF SessionThread, PostCapturing, LaunchCsiutil, JobsOutput, TestSocket, NewSocket,
           AssignSocket, CreateFileCloses, CreateFileOpens, ReadSocketField, ReceiveThrows,
           At, SessionPc, PreField, RecordPc, BeforeWriter
  <2>3. ASSUME utilPc[t] = "loop" PROVE to \in RecordPc
    <3>1. PICK go \in WorkPc : GoTo(t, go)
      BY <1>2, <2>3
    <3>2. go = to
      BY <1>1, <2>2, <3>1, Moves
    <3>3. pc[t] \in RecordPc
      BY <1>1, <2>3 DEF LoopRecords
    <3>4. QED
      BY <2>2, <3>1, <3>2, <3>3
      DEF WorkPc, StartPc, SessionPc, PreField, RecordPc, BeforeWriter
  <2>4. to # "unborn"
    BY <2>2 DEF SessionPc, PreField, RecordPc
  <2>5. QED
    BY <1>1, <2>1, <2>2, <2>3, <2>4, MoveData
<1>6. QED
  BY <1>3, <1>4, <1>5

(* A cleanup empties the queue of the socket it closes, which no csiutil   *)
(* that is still capturing sends to.                                       *)
LEMMA EndingData ==
    ASSUME Base, Commands, Sessions, Data, NEW a \in Agents,
           Cleanup(a) \/ (a \in Threads /\ (StopThread(a) \/ CloseFile(a) \/ PostIdle(a)))
    PROVE  Data'
<1>1. TypeInv /\ Threads \subseteq Agents /\ Writers /\ NONE \notin Threads
  BY Places DEF Base
<1>2. UNCHANGED <<utilPc, sent, localPort, file, packet>>
  BY DEF Cleanup, CheckNull, CheckClosed, CloseTheSocket, SetNull, Crash, CloseFile, PostIdle,
         StopThread, KillJob, KillOutput, Input, OnlyPc, rootVars, utilVars, localVars, fileVars
<1>3. CASE Crash
  <2>1. UNCHANGED <<rxQueue, pc>>
    BY <1>3 DEF Crash, loopbackVars
  <2>2. \A u \in Threads : Writes(u)' = Writes(u)
    BY <2>1 DEF Writes
  <2>3. QED
    BY <1>1, <1>2, <2>1, <2>2, DataFrame DEF Data, LoopRecords
<1>4. CASE ~Crash
  <2>1. /\ pc[a] \in EndPc \cup {"kill", "killOut"}
        /\ \E to \in EndPc \cup {"looper", "done", "killOut"} : GoTo(a, to)
    BY <1>4 DEF Cleanup, CheckNull, CheckClosed, CloseTheSocket, SetNull, CloseFile, PostIdle, At,
           StopThread, KillJob, KillOutput, EndPc, CleanupPc, AfterCleanup
  <2>2. PICK to \in EndPc \cup {"looper", "done", "killOut"} : GoTo(a, to)
    BY <2>1
  <2>3. a \in Threads => utilPc[a] # "loop"
    BY <2>1 DEF Data, LoopRecords, RecordPc, EndPc, CleanupPc
  <2>4. CASE CloseTheSocket(a)
    <3>1. PICK s \in Threads : s = socket[inst[a]]
      BY <1>1, <1>4, <2>4, Places DEF CloseTheSocket, At, Agents
    <3>2. CloseSocket(s) /\ pc[a] = "close" /\ GoTo(a, "setNull")
      BY <1>1, <2>4, <1>4, <3>1 DEF CloseTheSocket, At
    <3>3. \A r \in Threads : rxQueue'[r] = rxQueue[r] \/ (r = s /\ rxQueue'[r] = << >>)
      BY <1>1, <3>2 DEF CloseSocket, TypeInv, TypeOK, LoopbackTypeOK
    <3>4. ASSUME utilPc[s] = "loop" PROVE FALSE
      <4>1. pc[s] \in SessionPc
        BY <3>4 DEF Data, LoopRecords, SessionPc
      <4>2. ~Calm(s)
        BY <1>1, <3>2, <4>1, Disturbed DEF EndPc, CleanupPc
      <4>3. QED
        BY <3>4, <4>2 DEF Calm, Live
    <3>5. pc'[a] = "setNull" /\ \A u \in Threads : u # a => pc'[u] = pc[u]
      BY <1>1, <3>2, Moves
    <3>6. \A u \in Threads : Writes(u)' => Writes(u) /\ packet'[u] = packet[u]
      BY <1>2, <3>5 DEF Writes
    <3>7. \A u \in Threads : pc'[u] \in RecordPc =>
            /\ pc[u] \in RecordPc \cup {"openNew"}
            /\ Writes(u) => Writes(u)'
      BY <3>5 DEF Writes, RecordPc
    <3>8. \A u \in Threads : utilPc[u] = "loop" => pc'[u] \in RecordPc
      BY <2>3, <3>5 DEF Data, LoopRecords
    <3>9. \A u \in Threads : pc'[u] \in BeforeWriter \cup {"unborn"}
                                 => pc[u] \in BeforeWriter \cup {"unborn"}
      BY <3>5 DEF BeforeWriter, PreField
    <3>10. \A r \in Threads : rxQueue'[r] = rxQueue[r] \/ (rxQueue'[r] = << >> /\ utilPc[r] # "loop")
      BY <3>3, <3>4
    <3>11. QED
      BY <1>1, <1>2, <3>6, <3>7, <3>8, <3>9, <3>10, DataFrame
  <2>5. CASE ~CloseTheSocket(a)
    <3>1. rxQueue' = rxQueue
      BY <1>4, <2>5 DEF Cleanup, CheckNull, CheckClosed, SetNull, CloseFile, PostIdle,
         StopThread, KillJob, KillOutput, OnlyPc, loopbackVars
    <3>2. QED
      BY <1>1, <1>2, <2>2, <2>3, <3>1, MoveData
      DEF EndPc, CleanupPc, RecordPc, BeforeWriter, PreField
  <2>6. QED
    BY <2>4, <2>5
<1>5. QED
  BY <1>3, <1>4

LEMMA UserData ==
    ASSUME Base, Data, NEW i \in Instances, DispatchPosted(i) \/ User(i)
    PROVE  Data'
<1>1. TypeInv /\ Main \in Agents /\ Main \notin Threads /\ Threads \subseteq Agents
  BY Places DEF Base
<1>2. UNCHANGED <<utilPc, sent, localPort, file, packet, rxQueue>>
  BY DEF DispatchPosted, User, OnCreateView, OnDestroyView, OpenRoot, ClickStartStop, Pressed,
         RestartNic, EditNumbers, ClickThrows, OpenShell, ExitShell, Input, Crash, loopbackVars,
         rootVars, utilVars, localVars, fileVars, fragmentVars
<1>3. CASE ClickStartStop(i)
  <2>1. PICK t \in Threads, to \in {"post", "kill"} : pc[t] = "unborn" /\ GoTo(t, to)
    BY <1>3 DEF ClickStartStop, Pressed
  <2>2. utilPc[t] # "loop"
    BY <2>1 DEF Data, LoopRecords, RecordPc
  <2>3. QED
    BY <1>1, <1>2, <2>1, <2>2, MoveData DEF RecordPc, BeforeWriter, PreField
<1>4. CASE ~ClickStartStop(i)
  <2>1. pc' = pc \/ GoTo(Main, "checkNull")
    BY <1>4 DEF DispatchPosted, User, OnCreateView, OnDestroyView, OpenRoot, RestartNic,
                EditNumbers, ClickThrows, Pressed, Crash, fragmentVars
  <2>2. CASE GoTo(Main, "checkNull")
    BY <1>1, <1>2, <2>2, MoveData
  <2>3. CASE pc' = pc
    <3>1. \A u \in Threads : Writes(u)' = Writes(u)
      BY <2>3 DEF Writes
    <3>2. QED
      BY <1>1, <1>2, <2>3, <3>1, DataFrame DEF Data, LoopRecords
  <2>4. QED
    BY <2>1, <2>2, <2>3
<1>5. QED
  BY <1>3, <1>4

LEMMA NextData ==
    ASSUME Orderly, Roomy
    PROVE  Base /\ Commands /\ Sessions /\ Data /\ [Next]_vars => Data'
<1> SUFFICES ASSUME Base, Commands, Sessions, Data, [Next]_vars PROVE Data'
  OBVIOUS
<1>1. ASSUME NEW t \in Threads, BackgroundThread(t) PROVE Data'
  BY <1>1, Places, SessionData, EndingData DEF BackgroundThread, Base
<1>2. CASE MainThread
  BY <1>2, Places, EndingData, UserData DEF MainThread, Base
<1>3. ASSUME NEW u \in Threads, CsiutilRuns(u) \/ FrameArrives(u) PROVE Data'
  BY <1>3, CsiutilData, FrameData
<1>4. ASSUME NEW s \in Shells, ShellProcess(s) PROVE Data'
  BY <1>4, ShellData
<1>5. CASE UNCHANGED vars
  <2>1. UNCHANGED <<utilPc, sent, localPort, file, packet, rxQueue, pc>> /\ TypeInv
    BY <1>5 DEF vars, loopbackVars, rootVars, utilVars, localVars, fileVars, fragmentVars, Base
  <2>2. \A u \in Threads : Writes(u)' = Writes(u)
    BY <2>1 DEF Writes
  <2>3. QED
    BY <2>1, <2>2, DataFrame DEF Data, LoopRecords
<1>6. QED
  BY <1>1, <1>2, <1>3, <1>4, <1>5 DEF Next

-----------------------------------------------------------------------------
(* The file of an orderly capture *)

Capturing == Base /\ Commands /\ Sessions /\ Data

LEMMA InitCapturing == Init => Capturing
BY InitTypeInv, InitRecording, InitSockets, InitWriters, InitIdle, InitCommands,
   InitSessions, InitData DEF Capturing, Base

LEMMA NextCapturing ==
    ASSUME Orderly, Roomy
    PROVE  Capturing /\ [Next]_vars => Capturing'
<1>1. Patient /\ Stays /\ Timely /\ Rooted
  BY DEF Orderly, Patient, Stays, Timely, Rooted
<1> SUFFICES ASSUME Capturing, [Next]_vars PROVE Capturing'
  OBVIOUS
<1>2. TypeInv' /\ LaunchedOnce' /\ Recording'
  BY NextTypeInv, NextRecording DEF Capturing, Base
<1>3. Sockets' /\ Writers' /\ Idle'
  BY <1>1, NextSockets, NextWriters, NextIdle DEF Capturing, Base
<1>4. Commands'
  BY NextCommands DEF Capturing, Sessions, Data
<1>5. Sessions' /\ Data'
  BY NextSessions, NextData DEF Capturing
<1>6. QED
  BY <1>2, <1>3, <1>4, <1>5 DEF Capturing, Base

(* For any number of threads, screens, shells and packets: a user who      *)
(* waits gets, in the file of a session, the packets of its own csiutil    *)
(* from the first one on without a gap, however the session ends - by      *)
(* itself, by a stop at any moment, by a csiutil that fails or by a        *)
(* restart of the interface (CaptureFragment:213-277, csiutil.c:183-212).  *)
THEOREM PatientRecordsPrefix ==
    ASSUME Orderly, Roomy PROVE Spec => []RecordsPrefix
<1>1. Capturing => RecordsPrefix
  <2> SUFFICES ASSUME Capturing, NEW l \in Lines
               PROVE  LineAt(l) = [by |-> l[1], packet |-> [src |-> l[1], n |-> l[2]]]
    BY DEF RecordsPrefix
  <2>1. l[1] \in Threads /\ l[2] \in 1..Len(file[l[1]])
    BY LinesFound DEF Capturing, Base
  <2>2. QED
    BY <2>1 DEF Capturing, Data, Prefixes, LineAt
<1>2. QED
  BY <1>1, InitCapturing, NextCapturing, PTL DEF Spec

-----------------------------------------------------------------------------
(* The length of a file *)

LEMMA InitComplete == Init => Complete
<1> SUFFICES ASSUME Init PROVE Complete
  OBVIOUS
<1>1. /\ ifaceGone = {} /\ \A s \in Shells : stdin[s] = << >>
      /\ \A t \in Threads : pc[t] = "unborn"
  BY FragmentAssumption DEF Init, RootInit, Agents
<1>2. QED
  BY <1>1 DEF Complete, NoRestart, StopCounts, Finished, RecordPc, EndPc, CleanupPc

LEMMA AppendedRestart ==
    ASSUME TypeInv, NoRestart, NEW b \in Shells, NEW cmd \in Command, cmd # IfconfigCmd,
           Input(b, cmd)
    PROVE  NoRestart'
<1>1. ifaceGone' = ifaceGone
  BY DEF Input, utilVars
<1>2. ASSUME NEW s \in Shells, NEW k \in 1..Len(stdin'[s]) PROVE stdin'[s][k] # IfconfigCmd
  <2>1. CASE k \in 1..Len(stdin[s])
    BY <2>1, CommandAppended DEF NoRestart
  <2>2. CASE s = b /\ k = Len(stdin[b]) + 1
    BY <2>2, CommandAppended
  <2>3. QED
    BY <1>2, <2>1, <2>2, CommandAppended
<1>3. QED
  BY <1>1, <1>2 DEF NoRestart, IfconfigCmd

(* Nobody asks for ifconfig, so no handle of csiutil goes down.            *)
LEMMA NextRestart ==
    ASSUME Steady
    PROVE  Base /\ Commands /\ NoRestart /\ [Next]_vars => NoRestart'
<1> SUFFICES ASSUME Base, Commands, NoRestart, [Next]_vars PROVE NoRestart'
  OBVIOUS
<1>1. TypeInv /\ ifaceGone = {}
  BY DEF Base, NoRestart
<1>2. CASE UNCHANGED <<stdin, ifaceGone>>
  BY <1>2 DEF NoRestart, IfconfigCmd
<1>3. ASSUME NEW t \in Threads, LaunchCsiutil(t) \/ KillJob(t), ~UNCHANGED <<stdin, ifaceGone>>
      PROVE  NoRestart'
  <2>1. inst[t] = view /\ view \in Instances /\ bp[view] \in Shells
    BY <1>1, <1>3, ShellFound, Places
    DEF LaunchCsiutil, KillJob, At, Base, Writers, OneView, Over
  <2>2. Input(bp[view], LaunchCmd(t)) \/ Input(bp[view], KillCmd)
    BY <1>3, <2>1 DEF LaunchCsiutil, KillJob, rootVars, shellVars, utilVars
  <2>3. /\ LaunchCmd(t) \in Command /\ LaunchCmd(t) # IfconfigCmd
        /\ KillCmd \in Command /\ KillCmd # IfconfigCmd
    BY DEF LaunchCmd, KillCmd, IfconfigCmd, Command
  <2>4. QED
    BY <1>1, <2>1, <2>2, <2>3, AppendedRestart
<1>4. ASSUME NEW t \in Threads, BackgroundThread(t), ~LaunchCsiutil(t), ~KillJob(t)
      PROVE  UNCHANGED <<stdin, ifaceGone>>
  BY <1>4 DEF BackgroundThread, SessionThread, PostCapturing, JobsOutput,
     TestSocket, NewSocket, AssignSocket, CreateFileCloses, CreateFileOpens, ReadSocketField,
     ReceiveThrows, Receive, WriteText, StopThread, KillOutput, Cleanup, CheckNull,
     CheckClosed, CloseTheSocket, SetNull, Crash, CloseFile, PostIdle, OnlyPc,
     rootVars, shellVars, utilVars
<1>5. ASSUME MainThread PROVE UNCHANGED <<stdin, ifaceGone>>
  <2>1. \A i \in Instances : ~RestartNic(i)
    BY DEF RestartNic, Steady
  <2>2. QED
    BY <1>5, <2>1 DEF MainThread, User, DispatchPosted, OnCreateView, OnDestroyView, OpenRoot,
                      ClickStartStop, Pressed, EditNumbers, ClickThrows, Cleanup, CheckNull, CheckClosed, CloseTheSocket,
                      SetNull, Crash, OnlyPc, OpenShell, ExitShell, rootVars, shellVars,
                      utilVars
<1>6. ASSUME NEW u \in Threads, CsiutilRuns(u) \/ FrameArrives(u)
      PROVE  UNCHANGED <<stdin, ifaceGone>>
  BY <1>1, <1>6 DEF CsiutilRuns, FrameArrives, PcapFails, SleepDelay, CreateUdpSendSocket,
     SendStop, CloseSendSocket, GotPacket, GotShortPacket, UtilEnds, shellVars
<1>7. ASSUME NEW s \in Shells, ExecuteCommand(s) PROVE NoRestart'
  <2>1. stdin[s] # << >> /\ stdin' = [stdin EXCEPT ![s] = Tail(@)]
    BY <1>7 DEF ExecuteCommand
  <2>2. 1 \in 1..Len(stdin[s]) /\ Head(stdin[s]) = stdin[s][1]
    BY <1>1, <2>1, CommandTaken
  <2>3. Head(stdin[s]).op # "ifconfig"
    <3>1. ASSUME NEW u \in Threads, Commanded(s, 1, u) PROVE Head(stdin[s]).op = "csiutil"
      BY <2>2, <3>1 DEF Commanded, LaunchCmd
    <3>2. ASSUME KillAt(s, 1) PROVE Head(stdin[s]).op = "kill"
      BY <2>2, <3>2 DEF KillAt, KillCmd
    <3>3. QED
      BY <2>2, <3>1, <3>2 DEF Commands, Known, NoRestart
  <2>4. ifaceGone' = {}
    BY <1>1, <1>7, <2>3 DEF ExecuteCommand, RunCsiutil, RunKill, UtilEnds, utilVars
  <2>5. ASSUME NEW r \in Shells, NEW k \in 1..Len(stdin'[r]) PROVE stdin'[r][k] # IfconfigCmd
    BY <1>1, <2>1, <2>5, CommandTaken DEF NoRestart
  <2>6. QED
    BY <2>4, <2>5 DEF NoRestart, IfconfigCmd
<1>8. ASSUME NEW s \in Shells, DropCommands(s) \/ ShellDies(s) PROVE NoRestart'
  <2>1. ifaceGone' = {} /\ \A r \in Shells : stdin'[r] \in {stdin[r], << >>}
    BY <1>1, <1>8 DEF DropCommands, ShellDies, utilVars, TypeInv, TypeOK, RootTypeOK
  <2>2. QED
    BY <2>1 DEF NoRestart, IfconfigCmd
<1>9. QED
  BY <1>2, <1>3, <1>4, <1>5, <1>6, <1>7, <1>8
  DEF Next, ShellProcess, vars, rootVars, shellVars, utilVars

(* A step that sends nothing, and receives nothing that is recorded.       *)
LEMMA StopFrame ==
    ASSUME StopCounts,
           \A s \in Threads : rxQueue'[s] \in {rxQueue[s], << >>},
           \A u \in Threads : pc'[u] \in RecordPc =>
               \/ pc[u] \in RecordPc /\ Got(u)' = Got(u)
               \/ rxQueue[u] = << >>
    PROVE  StopCounts'
<1>1. ASSUME NEW u \in Threads, pc'[u] \in RecordPc, NEW k \in 1..Len(rxQueue'[u]),
             rxQueue'[u][k].n = 0
      PROVE  Got(u)' + k = PacketCount + 1
  <2>1. rxQueue'[u] = rxQueue[u] /\ rxQueue[u] # << >>
    BY <1>1
  <2>2. pc[u] \in RecordPc /\ Got(u)' = Got(u)
    BY <1>1, <2>1
  <2>3. QED
    BY <1>1, <2>1, <2>2 DEF StopCounts
<1>2. QED
  BY <1>1 DEF StopCounts

LEMMA MoveStop ==
    ASSUME TypeInv, Data, StopCounts, NEW a \in Agents, NEW to, GoTo(a, to), file' = file,
           \A s \in Threads : rxQueue'[s] \in {rxQueue[s], << >>}, to # "write",
           a \in Threads /\ to \in RecordPc => pc[a] \in {"openNew", "loop", "receive"}
    PROVE  StopCounts'
<1>1. pc'[a] = to /\ \A u \in Threads : u # a => pc'[u] = pc[u]
  BY Moves, Places
<1>2. ASSUME NEW u \in Threads, pc'[u] \in RecordPc
      PROVE  (pc[u] \in RecordPc /\ Got(u)' = Got(u)) \/ rxQueue[u] = << >>
  <2>1. CASE u # a
    BY <1>1, <1>2, <2>1 DEF Got, Writes
  <2>2. CASE u = a /\ pc[a] \in {"loop", "receive"}
    BY <1>1, <2>2 DEF Got, Writes, RecordPc
  <2>3. CASE u = a /\ pc[a] = "openNew"
    BY <2>3 DEF Data, NothingYet, BeforeWriter
  <2>4. QED
    BY <1>1, <1>2, <2>1, <2>2, <2>3
<1>3. QED
  BY <1>2, StopFrame

(* The stop message waits behind all packets that were not received yet.   *)
LEMMA ReceiveStop ==
    ASSUME Orderly, TypeInv, OwnField, StopCounts, NEW t \in Threads, Receive(t)
    PROVE  StopCounts'
<1>1. ref[t] = t /\ pc[t] = "receive" /\ file' = file /\ t \in Agents /\ ~Writes(t)
  BY Places DEF Receive, At, OwnField, fileVars, Writes
<1>2. PICK q \in Seq(Datagram) : q = rxQueue[t]
  BY Elements
<1>3. q # << >> /\ rxQueue' = [rxQueue EXCEPT ![t] = Tail(q)]
  BY <1>1, <1>2 DEF Receive, TakeDatagram
<1>4. /\ Len(q) \in Nat /\ Len(Tail(q)) = Len(q) - 1
      /\ \A k \in 1..Len(Tail(q)) : Tail(q)[k] = q[k + 1] /\ k + 1 \in 1..Len(q)
  BY <1>3, TailOne
<1>5. rxQueue'[t] = Tail(q) /\ \A s \in Threads : s # t => rxQueue'[s] = rxQueue[s]
  BY <1>3 DEF TypeInv, TypeOK, LoopbackTypeOK
<1>6. \E to \in {"write", "checkNull"} : GoTo(t, to)
  BY DEF Receive
<1>7. /\ pc'[t] \in {"write", "checkNull"}
      /\ \A u \in Threads : u # t => pc'[u] = pc[u]
  BY <1>1, <1>6, Moves, Places
<1>8. Len(file[t]) \in Nat /\ Got(t) = Len(file[t])
  BY <1>1, GotIs
<1>9. ASSUME NEW u \in Threads, pc'[u] \in RecordPc, NEW k \in 1..Len(rxQueue'[u]),
             rxQueue'[u][k].n = 0
      PROVE  Got(u)' + k = PacketCount + 1
  <2>1. CASE u # t
    BY <1>1, <1>5, <1>7, <1>9, <2>1 DEF StopCounts, Got, Writes
  <2>2. CASE u = t
    <3>1. pc'[t] = "write"
      BY <1>7, <1>9, <2>2 DEF RecordPc
    <3>2. Got(t)' = Len(file[t]) + 1
      BY <1>1, <3>1 DEF Got, Writes
    <3>3. k + 1 \in 1..Len(q) /\ q[k + 1].n = 0 /\ k \in Nat
      <4>1. k \in 1..Len(Tail(q)) /\ Tail(q)[k].n = 0
        BY <1>5, <1>9, <2>2
      <4>2. Tail(q)[k] = q[k + 1] /\ k + 1 \in 1..Len(q)
        BY <1>4, <4>1
      <4>3. QED
        BY <4>1, <4>2
    <3>4. Len(file[t]) + (k + 1) = PacketCount + 1
      <4>1. pc[t] \in RecordPc
        BY <1>1 DEF RecordPc
      <4>2. \A j \in 1..Len(q) : q[j].n = 0 => Got(t) + j = PacketCount + 1
        BY <1>2, <4>1 DEF StopCounts
      <4>3. Got(t) + (k + 1) = PacketCount + 1
        BY <3>3, <4>2
      <4>4. QED
        BY <1>8, <4>3
    <3>5. (Len(file[t]) + 1) + k = PacketCount + 1
      <4>1. PICK m \in Nat : m = Len(file[t])
        BY <1>8
      <4>2. m + (k + 1) = PacketCount + 1 /\ k \in Nat
        BY <3>3, <3>4, <4>1
      <4>3. (m + 1) + k = PacketCount + 1
        BY <4>2
      <4>4. QED
        BY <4>1, <4>3
    <3>6. QED
      BY <2>2, <3>2, <3>5
  <2>3. QED
    BY <2>1, <2>2
<1>10. QED
  BY <1>9 DEF StopCounts

LEMMA WriteStop ==
    ASSUME TypeInv, OwnField, StopCounts, NEW t \in Threads, inst[t] = view, WriteText(t)
    PROVE  StopCounts'
<1>1. pc[t] = "write" /\ bw[view] = t /\ rxQueue' = rxQueue /\ t \in Agents
  BY Places DEF WriteText, At, OwnField, RecordPc, loopbackVars
<1>2. PICK q \in Seq(Line) : q = file[t]
  BY Elements
<1>3. PICK l : l = [by |-> t, packet |-> packet[t]]
  OBVIOUS
<1>4. l \in Line /\ Len(q) \in Nat /\ Got(t) = Len(q) + 1
  <2>1. Writes(t)
    BY <1>1 DEF Writes
  <2>2. packet[t] \in Datagram
    BY <2>1, Elements
  <2>3. QED
    BY <1>2, <1>3, <2>1, <2>2, GotIs DEF Line
<1>5. PICK to \in {"loop", "checkNull"} :
        /\ GoTo(t, to)
        /\ to = "loop" => file' = [file EXCEPT ![t] = Append(q, l)]
        /\ to = "checkNull" => file' = file
  BY <1>1, <1>2, <1>3 DEF WriteText
<1>6. pc'[t] = to /\ \A u \in Threads : u # t => pc'[u] = pc[u] /\ file'[u] = file[u]
  BY <1>1, <1>5, Moves, Places DEF TypeInv, TypeOK, FragmentTypeOK
<1>7. ASSUME to = "loop" PROVE Got(t)' = Got(t)
  <2>1. file'[t] = Append(q, l)
    BY <1>5, <1>7 DEF TypeInv, TypeOK, FragmentTypeOK
  <2>2. Len(Append(q, l)) = Len(q) + 1
    BY <1>4, AppendOne
  <2>3. Got(t)' = Len(file'[t]) + 0
    BY <1>6, <1>7 DEF Got, Writes
  <2>4. QED
    BY <1>4, <2>1, <2>2, <2>3
<1>8. ASSUME NEW u \in Threads, pc'[u] \in RecordPc
      PROVE  pc[u] \in RecordPc /\ Got(u)' = Got(u)
  <2>1. CASE u # t
    BY <1>6, <1>8, <2>1 DEF Got, Writes
  <2>2. CASE u = t
    BY <1>1, <1>6, <1>7, <1>8, <2>2 DEF RecordPc
  <2>3. QED
    BY <2>1, <2>2
<1>9. QED
  BY <1>1, <1>8, StopFrame

(* A csiutil that was not disturbed sends it after its last packet.        *)
LEMMA SendsStop ==
    ASSUME Base, Sessions, Data, NoRestart, StopCounts, NEW u \in Threads,
           UNCHANGED <<pc, file>>, GotPacket(u) \/ SendStop(u)
    PROVE  StopCounts'
<1>1. TypeInv /\ utilPc[u] = "loop" /\ pc[u] \in RecordPc /\ u \in localPort
  BY DEF Base, GotPacket, SendStop, AtUtil, Data, LoopRecords, HasPort
<1>2. sent[u] \in Nat /\ PacketCount \in Nat
  BY <1>1, LoopbackAssumption DEF TypeInv, TypeOK, RootTypeOK
<1>3. PICK n \in 0..PacketCount : SendTo(u, [src |-> u, n |-> n])
                                  /\ (n = 0 => sent[u] = PacketCount)
  <2>1. CASE GotPacket(u)
    <3>1. sent[u] + 1 \in 0..PacketCount /\ sent[u] + 1 # 0
      BY <1>2, <2>1 DEF GotPacket
    <3>2. QED
      BY <2>1, <3>1 DEF GotPacket
  <2>2. CASE SendStop(u)
    <3>1. SendTo(u, [src |-> u, n |-> 0]) /\ sent[u] = PacketCount
      BY <2>2 DEF SendStop, StopMsg, NoRestart
    <3>2. 0 \in 0..PacketCount
      BY <1>2
    <3>3. QED
      BY <3>1, <3>2
  <2>3. QED
    BY <2>1, <2>2
<1>4. PICK d \in Datagram : d = [src |-> u, n |-> n]
  BY DEF Datagram
<1>5. Deliver(d) /\ d.n = n
  BY <1>1, <1>3, <1>4 DEF SendTo
<1>6. PICK q \in Seq(Datagram) : q = rxQueue[u]
  BY <1>1, Elements
<1>7. /\ Len(q) \in Nat /\ Len(Append(q, d)) = Len(q) + 1
      /\ \A k \in 1..Len(q) : Append(q, d)[k] = q[k]
      /\ Append(q, d)[Len(q) + 1] = d
  BY AppendOne
<1>8. /\ \A s \in Threads : s # u => rxQueue'[s] = rxQueue[s]
      /\ rxQueue'[u] \in {q, Append(q, d)}
  BY <1>1, <1>5, <1>6, Delivered
<1>9. Got(u) \in Nat /\ Got(u) + Len(q) = sent[u]
  BY <1>1, <1>6, GotIs DEF Data, NoneLost
<1>10. \A v \in Threads : Got(v)' = Got(v)
  BY DEF Got, Writes
<1>11. ASSUME NEW k \in 1..Len(rxQueue'[u]), rxQueue'[u][k].n = 0
       PROVE  Got(u) + k = PacketCount + 1
  <2>1. CASE k \in 1..Len(q) /\ rxQueue'[u][k] = q[k]
    BY <1>1, <1>6, <1>11, <2>1 DEF StopCounts
  <2>2. CASE k = Len(q) + 1 /\ rxQueue'[u][k] = d
    <3>1. sent[u] = PacketCount
      BY <1>3, <1>5, <1>11, <2>2
    <3>2. QED
      BY <1>7, <1>9, <2>2, <3>1
  <2>3. CASE rxQueue'[u] = q
    BY <1>11, <2>1, <2>3
  <2>4. CASE rxQueue'[u] = Append(q, d)
    <3>1. k \in 1..Len(q) \/ k = Len(q) + 1
      BY <1>7, <1>11, <2>4
    <3>2. QED
      BY <1>7, <2>1, <2>2, <2>4, <3>1
  <2>5. QED
    BY <1>8, <2>3, <2>4
<1>12. QED
  BY <1>8, <1>10, <1>11 DEF StopCounts

LEMMA NextStop ==
    ASSUME Orderly, Steady
    PROVE  Capturing /\ NoRestart /\ StopCounts /\ [Next]_vars => StopCounts'
<1> SUFFICES ASSUME Capturing, NoRestart, StopCounts, [Next]_vars PROVE StopCounts'
  OBVIOUS
<1>1. /\ TypeInv /\ OwnField /\ Writers /\ Data /\ Sessions /\ Base
      /\ Threads \subseteq Agents /\ Main \in Agents /\ Main \notin Threads
  BY Places DEF Capturing, Base, Sessions
<1>2. CASE UNCHANGED <<pc, file, rxQueue>>
  <2>1. \A u \in Threads : Got(u)' = Got(u)
    BY <1>2 DEF Got, Writes
  <2>2. QED
    BY <1>2, <2>1, StopFrame
<1>3. ASSUME NEW a \in Agents, Cleanup(a) PROVE StopCounts'
  <2>1. CASE Crash
    BY <1>2, <2>1 DEF Crash, loopbackVars, fileVars
  <2>2. CASE ~Crash
    <3>1. file' = file /\ \E to \in CleanupPc \cup {"looper", "closeFile"} : GoTo(a, to)
      BY <1>3, <2>2 DEF Cleanup, CheckNull, CheckClosed, CloseTheSocket, SetNull, OnlyPc, fileVars,
                        AfterCleanup, CleanupPc
    <3>2. CASE CloseTheSocket(a)
      <4>1. PICK s \in Threads : s = socket[inst[a]]
        BY <1>1, <2>2, <3>2, Places DEF CloseTheSocket, At, Agents
      <4>2. CloseSocket(s)
        BY <1>1, <2>2, <3>2, <4>1, Places DEF CloseTheSocket
      <4>3. \A r \in Threads : rxQueue'[r] \in {rxQueue[r], << >>}
        BY <1>1, <4>2 DEF CloseSocket, TypeInv, TypeOK, LoopbackTypeOK
      <4>4. QED
        BY <1>1, <3>1, <4>3, MoveStop DEF CleanupPc, RecordPc
    <3>3. CASE ~CloseTheSocket(a)
      <4>1. rxQueue' = rxQueue
        BY <1>3, <2>2, <3>3 DEF Cleanup, CheckNull, CheckClosed, SetNull, OnlyPc, loopbackVars
      <4>2. QED
        BY <1>1, <3>1, <4>1, MoveStop DEF CleanupPc, RecordPc
    <3>4. QED
      BY <3>2, <3>3
  <2>3. QED
    BY <2>1, <2>2
<1>4. ASSUME NEW t \in Threads, BackgroundThread(t) PROVE StopCounts'
  <2>1. CASE Cleanup(t)
    BY <1>1, <1>3, <2>1
  <2>2. CASE Receive(t)
    BY <1>1, <2>2, ReceiveStop
  <2>3. CASE WriteText(t)
    BY <1>1, <2>3, WriteStop DEF WriteText, At, Writers, OneView, Over
  <2>4. CASE ~Cleanup(t) /\ ~Receive(t) /\ ~WriteText(t)
    <3>1. UNCHANGED <<file, rxQueue>>
      BY <1>4, <2>4 DEF BackgroundThread, SessionThread, PostCapturing, LaunchCsiutil, JobsOutput,
         TestSocket, NewSocket, AssignSocket, CreateFileCloses, CreateFileOpens, ReadSocketField,
         ReceiveThrows, StopThread, KillJob, KillOutput, CloseFile, PostIdle, OnlyPc, BindSocket,
         loopbackVars, fileVars
    <3>2. PICK to \in SessionPc \cup {"checkNull", "killOut", "postIdle", "done"} :
            GoTo(t, to) /\ to # "write" /\ (to \in RecordPc => pc[t] \in {"openNew", "loop", "receive"})
      BY <1>4, <2>4 DEF BackgroundThread, SessionThread, PostCapturing, LaunchCsiutil, JobsOutput,
         TestSocket, NewSocket, AssignSocket, CreateFileCloses, CreateFileOpens, ReadSocketField,
         ReceiveThrows, StopThread, KillJob, KillOutput, CloseFile, PostIdle, At,
         SessionPc, PreField, RecordPc
    <3>3. QED
      BY <1>1, <3>1, <3>2, MoveStop
  <2>5. QED
    BY <2>1, <2>2, <2>3, <2>4
<1>5. ASSUME NEW i \in Instances, DispatchPosted(i) \/ User(i) PROVE StopCounts'
  <2>1. UNCHANGED <<file, rxQueue>>
    BY <1>5 DEF DispatchPosted, User, OnCreateView, OnDestroyView, OpenRoot, ClickStartStop,
                Pressed, RestartNic, EditNumbers, ClickThrows, Crash, loopbackVars, fileVars,
                fragmentVars
  <2>2. \/ pc' = pc
        \/ GoTo(Main, "checkNull")
        \/ \E t \in Threads, to \in {"post", "kill"} : GoTo(t, to)
    BY <1>5 DEF DispatchPosted, User, OnCreateView, OnDestroyView, OpenRoot, ClickStartStop,
                Pressed, RestartNic, EditNumbers, ClickThrows, Crash, fragmentVars
  <2>3. QED
    BY <1>1, <1>2, <2>1, <2>2, MoveStop DEF RecordPc
<1>6. ASSUME NEW u \in Threads, CsiutilRuns(u) \/ FrameArrives(u) PROVE StopCounts'
  <2>1. UNCHANGED <<pc, file>>
    BY <1>6 DEF CsiutilRuns, FrameArrives, fragmentVars, fileVars
  <2>2. CASE GotPacket(u) \/ SendStop(u)
    BY <1>1, <2>1, <2>2, SendsStop
  <2>3. CASE ~GotPacket(u) /\ ~SendStop(u)
    <3>1. rxQueue' = rxQueue
      BY <1>6, <2>3 DEF CsiutilRuns, FrameArrives, PcapFails, SleepDelay, CreateUdpSendSocket,
         CloseSendSocket, GotShortPacket, loopbackVars
    <3>2. QED
      BY <1>2, <2>1, <3>1
  <2>4. QED
    BY <2>2, <2>3
<1>7. ASSUME NEW s \in Shells, ShellProcess(s) PROVE StopCounts'
  BY <1>2, <1>7 DEF ShellProcess, loopbackVars, fragmentVars, fileVars
<1>8. QED
  BY <1>2, <1>3, <1>4, <1>5, <1>6, <1>7, <1>1
  DEF Next, MainThread, vars, loopbackVars, fragmentVars, fileVars

(* A csiutil that has not been launched can only be launched.              *)
LEMMA LaunchFrom ==
    ASSUME TypeInv, LaunchedOnce, [Next]_vars, NEW u \in Threads, utilPc[u] = "none"
    PROVE  utilPc'[u] \in {"none"} \cup Live
<1>1. CASE utilPc' = utilPc
  BY <1>1
<1>2. ASSUME NEW v \in Threads, NEW p, utilPc' = [utilPc EXCEPT ![v] = p],
             utilPc[v] # "none" \/ p \in Live
      PROVE  utilPc'[u] \in {"none"} \cup Live
  BY <1>2 DEF TypeInv, TypeOK, RootTypeOK
<1>3. ASSUME NEW s \in Shells, ExecuteCommand(s), utilPc' # utilPc
      PROVE  utilPc'[u] \in {"none"} \cup Live
  <2>1. CASE RunCsiutil(s, Head(stdin[s]).arg)
    <3>1. utilPc' = [utilPc EXCEPT ![Head(stdin[s]).arg] = "open"]
      BY <2>1 DEF RunCsiutil
    <3>2. QED
      BY <3>1 DEF Live, TypeInv, TypeOK, RootTypeOK
  <2>2. CASE RunKill(s) /\ job1[s] # NONE
    <3>1. PICK v \in Threads : v = job1[s]
      BY <2>2 DEF TypeInv, TypeOK, RootTypeOK
    <3>2. utilPc' = [utilPc EXCEPT ![v] = "exit"] /\ utilPc[v] # "none"
      BY <2>2, <3>1 DEF RunKill, UtilEnds, LaunchedOnce
    <3>3. QED
      BY <1>2, <3>2
  <2>3. QED
    BY <1>3, <2>1, <2>2 DEF ExecuteCommand, RunKill, RunIfconfig, utilVars
<1>4. ASSUME NEW t \in Threads, BackgroundThread(t) PROVE utilPc' = utilPc
  BY <1>4 DEF BackgroundThread, SessionThread, PostCapturing, LaunchCsiutil, JobsOutput,
     TestSocket, NewSocket, AssignSocket, CreateFileCloses, CreateFileOpens, ReadSocketField,
     ReceiveThrows, Receive, WriteText, StopThread, KillJob, KillOutput, Cleanup, CheckNull,
     CheckClosed, CloseTheSocket, SetNull, Crash, CloseFile, PostIdle, OnlyPc, Input,
     rootVars, utilVars
<1>5. ASSUME MainThread PROVE utilPc' = utilPc
  BY <1>5 DEF MainThread, User, DispatchPosted, OnCreateView, OnDestroyView, OpenRoot,
              ClickStartStop, Pressed, RestartNic, EditNumbers, ClickThrows, Cleanup, CheckNull,
              CheckClosed, CloseTheSocket, SetNull, Crash, OnlyPc, OpenShell, ExitShell, Input,
              rootVars, utilVars
<1>6. ASSUME NEW s \in Shells, ShellProcess(s) PROVE utilPc'[u] \in {"none"} \cup Live
  BY <1>1, <1>3, <1>6 DEF ShellProcess, DropCommands, ShellDies, utilVars
<1>7. ASSUME NEW v \in Threads, CsiutilRuns(v) \/ FrameArrives(v)
      PROVE  utilPc'[u] \in {"none"} \cup Live
  <2>1. \E p : utilPc' = [utilPc EXCEPT ![v] = p] /\ utilPc[v] # "none"
    BY <1>7 DEF CsiutilRuns, FrameArrives, PcapFails, SleepDelay, CreateUdpSendSocket,
       SendStop, CloseSendSocket, GotPacket, GotShortPacket, AtUtil, UtilEnds
  <2>2. QED
    BY <1>2, <2>1
<1>8. QED
  BY <1>1, <1>4, <1>5, <1>6, <1>7 DEF Next, vars, rootVars, utilVars

(* A file changes only under the thread that records into it.              *)
LEMMA FileStays ==
    ASSUME TypeInv, Writers, OwnField, [Next]_vars, NEW t \in Threads, pc[t] # "write"
    PROVE  file'[t] = file[t]
<1>1. CASE file' = file
  BY <1>1
<1>2. ASSUME NEW x \in Threads, WriteText(x) PROVE file'[t] = file[t]
  <2>1. pc[x] = "write" /\ bw[inst[x]] = x /\ x # t
    BY <1>2 DEF WriteText, At, Writers, OneView, Over, OwnField, RecordPc
  <2>2. file' = file \/ file' = [file EXCEPT ![x] = Append(@, [by |-> x, packet |-> packet[x]])]
    BY <1>2, <2>1 DEF WriteText
  <2>3. QED
    BY <2>1, <2>2 DEF TypeInv, TypeOK, FragmentTypeOK
<1>3. ASSUME NEW x \in Threads, BackgroundThread(x), ~WriteText(x) PROVE file' = file
  BY <1>3 DEF BackgroundThread, SessionThread, PostCapturing, LaunchCsiutil, JobsOutput,
     TestSocket, NewSocket, AssignSocket, CreateFileCloses, CreateFileOpens, ReadSocketField,
     ReceiveThrows, Receive, StopThread, KillJob, KillOutput, Cleanup, CheckNull,
     CheckClosed, CloseTheSocket, SetNull, Crash, CloseFile, PostIdle, OnlyPc, fileVars
<1>4. ASSUME MainThread PROVE file' = file
  BY <1>4 DEF MainThread, User, DispatchPosted, OnCreateView, OnDestroyView, OpenRoot,
              ClickStartStop, Pressed, RestartNic, EditNumbers, ClickThrows, Cleanup, CheckNull,
              CheckClosed, CloseTheSocket, SetNull, Crash, OnlyPc, fileVars, fragmentVars
<1>5. ASSUME UNCHANGED fragmentVars PROVE file' = file
  BY <1>5 DEF fragmentVars, fileVars
<1>6. QED
  BY <1>1, <1>2, <1>3, <1>4, <1>5 DEF Next, vars, ShellProcess, CsiutilRuns, FrameArrives

(* A thread moves only by a step of its own, or when it is started.        *)
LEMMA OwnMove ==
    ASSUME TypeInv, [Next]_vars, NEW t \in Threads, pc'[t] # pc[t]
    PROVE  /\ \A v \in Threads \ {t} : pc'[v] = pc[v]
           /\ \/ BackgroundThread(t) /\ pc[t] \notin Over
              \/ /\ pc[t] = "unborn" /\ pc'[t] \in {"post", "kill"}
                 /\ UNCHANGED <<stdin, utilPc, file, openWriters>>
                 /\ \E i \in Instances : ClickStartStop(i)
<1> DEFINE Result ==
             /\ \A v \in Threads \ {t} : pc'[v] = pc[v]
             /\ \/ BackgroundThread(t) /\ pc[t] \notin Over
                \/ /\ pc[t] = "unborn" /\ pc'[t] \in {"post", "kill"}
                   /\ UNCHANGED <<stdin, utilPc, file, openWriters>>
                   /\ \E i \in Instances : ClickStartStop(i)
<1>1. \A a \in Agents : \A to : GoTo(a, to) => a = t /\ \A v \in Threads \ {t} : pc'[v] = pc[v]
  BY Moves, Places
<1>2. \A a \in Agents : Cleanup(a) => pc' = pc \/ \E to : GoTo(a, to)
  BY DEF Cleanup, CheckNull, CheckClosed, CloseTheSocket, SetNull, Crash, OnlyPc
<1>3. ASSUME NEW x \in Threads, BackgroundThread(x) PROVE Result
  <2>1. pc' = pc \/ \E to : GoTo(x, to)
    BY <1>3, <1>2, Places DEF BackgroundThread, SessionThread, PostCapturing, LaunchCsiutil,
       JobsOutput, TestSocket, NewSocket, AssignSocket, CreateFileCloses, CreateFileOpens,
       ReadSocketField, ReceiveThrows, Receive, WriteText, StopThread, KillJob, KillOutput,
       CloseFile, PostIdle
  <2>2. x = t /\ \A v \in Threads \ {t} : pc'[v] = pc[v]
    BY <1>1, <2>1, Places
  <2>3. pc[x] \notin Over
    BY <1>3 DEF BackgroundThread, SessionThread, PostCapturing, LaunchCsiutil,
       JobsOutput, TestSocket, NewSocket, AssignSocket, CreateFileCloses, CreateFileOpens,
       ReadSocketField, ReceiveThrows, Receive, WriteText, StopThread, KillJob, KillOutput,
       Cleanup, CheckNull, CheckClosed, CloseTheSocket, SetNull, CloseFile, PostIdle, At, Over
  <2>4. QED
    BY <1>3, <2>2, <2>3
<1>4. ASSUME MainThread PROVE Result
  <2>1. CASE Cleanup(Main)
    BY <1>1, <1>2, <2>1, Places
  <2>2. ASSUME NEW i \in Instances, ClickStartStop(i) PROVE Result
    <3>1. PICK x \in Threads :
            pc[x] = "unborn" /\ GoTo(x, IF mState[i] = "idle" THEN "post" ELSE "kill")
      BY <2>2 DEF ClickStartStop, Pressed
    <3>2. x = t /\ \A v \in Threads \ {t} : pc'[v] = pc[v]
      BY <1>1, <3>1, Places
    <3>3. pc'[t] \in {"post", "kill"}
      BY <3>1, <3>2, Moves, Places
    <3>4. UNCHANGED <<stdin, utilPc, file, openWriters>>
      BY <2>2 DEF ClickStartStop, Pressed, rootVars, shellVars, utilVars, fileVars
    <3>5. QED
      BY <2>2, <3>1, <3>2, <3>3, <3>4
  <2>3. ASSUME NEW i \in Instances, DispatchPosted(i) \/ User(i), ~ClickStartStop(i) PROVE FALSE
    <3>1. pc' = pc \/ GoTo(Main, "checkNull")
      BY <2>3 DEF DispatchPosted, User, OnCreateView, OnDestroyView, OpenRoot, RestartNic,
                  EditNumbers, ClickThrows, Pressed, Crash, fragmentVars
    <3>2. QED
      BY <1>1, <3>1, Places
  <2>4. QED
    BY <1>4, <2>1, <2>2, <2>3 DEF MainThread
<1>5. pc' # pc
  OBVIOUS
<1>6. QED
  BY <1>3, <1>4, <1>5 DEF Next, vars, ShellProcess, CsiutilRuns, FrameArrives, fragmentVars

(* In a session, that is a step of the session.                            *)
LEMMA OwnStep ==
    ASSUME TypeInv, [Next]_vars, NEW t \in Threads, pc[t] \in SessionPc, pc'[t] # pc[t]
    PROVE  SessionThread(t)
<1>1. BackgroundThread(t)
  BY OwnMove DEF SessionPc, PreField, RecordPc
<1>2. ~Cleanup(t) /\ ~StopThread(t) /\ ~CloseFile(t) /\ ~PostIdle(t)
  BY DEF Cleanup, CheckNull, CheckClosed, CloseTheSocket, SetNull, StopThread, KillJob, KillOutput,
         CloseFile, PostIdle, At, SessionPc, PreField, RecordPc
<1>3. QED
  BY <1>1, <1>2 DEF BackgroundThread

(* Such a session gets out of its loop only by the stop message, and then  *)
(* its file has all the packets.                                           *)
LEMMA EndsWhole ==
    ASSUME Orderly, Capturing, StopCounts, [Next]_vars, NEW t \in Threads,
           pc[t] \in WorkPc, Equipped(t), pc'[t] \notin WorkPc
    PROVE  Len(file[t]) = PacketCount /\ pc[t] = "receive" /\ pc'[t] = "checkNull"
<1>1. TypeInv /\ Base /\ OwnField
  BY DEF Capturing, Base, Sessions
<1>2. pc[t] \in SessionPc /\ t \in Agents
  BY <1>1, Places DEF WorkPc
<1>3. SessionThread(t)
  BY <1>1, <1>2, OwnStep
<1>4. \/ \E to \in WorkPc : GoTo(t, to)
      \/ Receive(t) /\ ref[t] = t /\ IsStop(Head(rxQueue[t])) /\ GoTo(t, "checkNull")
  BY <1>1, <1>3, GoesOn
<1>5. \A to : GoTo(t, to) => pc'[t] = to
  BY <1>1, <1>2, Moves
<1>6. /\ Receive(t) /\ ref[t] = t /\ IsStop(Head(rxQueue[t]))
      /\ pc[t] = "receive" /\ pc'[t] = "checkNull"
  BY <1>4, <1>5 DEF Receive, At
<1>7. 1 \in 1..Len(rxQueue[t]) /\ rxQueue[t][1].n = 0
  <2>1. rxQueue[t] \in Seq(Datagram) /\ rxQueue[t] # << >>
    BY <1>1, <1>6, Elements DEF Receive, TakeDatagram
  <2>2. 1 \in 1..Len(rxQueue[t]) /\ Head(rxQueue[t]) = rxQueue[t][1]
    BY <2>1, TailOne
  <2>3. QED
    BY <1>6, <2>2 DEF IsStop
<1>8. Got(t) + 1 = PacketCount + 1
  BY <1>6, <1>7 DEF StopCounts, RecordPc
<1>9. Got(t) = Len(file[t]) /\ Got(t) \in Nat
  BY <1>1, <1>6, GotIs DEF Writes
<1>10. QED
  BY <1>6, <1>8, <1>9, LoopbackAssumption

LEMMA NextFinished ==
    ASSUME Orderly
    PROVE  Capturing /\ StopCounts /\ Finished /\ [Next]_vars => Finished'
<1> SUFFICES ASSUME Capturing, StopCounts, Finished, [Next]_vars,
                    NEW t \in Threads, \A v \in Threads : ~Stopper(v)',
                    utilPc'[t] # "none", pc'[t] \in EndPc \cup {"done"}
             PROVE  Len(file'[t]) = PacketCount
  BY DEF Finished
<1>1. /\ TypeInv /\ LaunchedOnce /\ Base /\ Writers /\ Commands /\ Sessions /\ Data
      /\ OwnField /\ Undisturbed
  BY DEF Capturing, Base, Sessions
<1>2. \A v \in Threads : ~Stopper(v)
  BY <1>1, StopperStays
<1>3. utilPc[t] # "none"
  <2>1. ASSUME utilPc[t] = "none" PROVE FALSE
    <3>1. utilPc'[t] \in Live
      BY <1>1, <2>1, LaunchFrom
    <3>2. pc'[t] = "jobs"
      BY <1>1, <2>1, <3>1, LiveFrom DEF Live
    <3>3. QED
      BY <3>2 DEF EndPc, CleanupPc
  <2>2. QED
    BY <2>1
<1>4. CASE pc[t] \in EndPc \cup {"done"}
  <2>1. Len(file[t]) = PacketCount
    BY <1>2, <1>3, <1>4 DEF Finished
  <2>2. pc[t] # "write"
    BY <1>4 DEF EndPc, CleanupPc
  <2>3. QED
    BY <1>1, <2>1, <2>2, FileStays
<1>5. CASE pc[t] \notin EndPc \cup {"done"}
  <2>1. pc[t] \in ThreadPc \cup {"looper"} /\ t \in Agents
    BY <1>1, Places
  <2>2. pc[t] \notin Early /\ pc[t] \notin {"kill", "killOut"} /\ pc[t] # "looper"
    BY <1>1, <1>2, <1>3 DEF LaunchedOnce, Sessions, KillersStop, OwnField
  <2>3. pc[t] \in WorkPc /\ pc[t] \in SessionPc
    BY <1>5, <2>1, <2>2 DEF ThreadPc, Early, WorkPc, StartPc, SessionPc, PreField, RecordPc,
                            EndPc, CleanupPc
  <2>4. Equipped(t)
    BY <1>1, <1>2 DEF Equipped, Undisturbed, Calm, SessionPc, PreField, RecordPc
  <2>5. pc'[t] \notin WorkPc
    BY DEF EndPc, CleanupPc, WorkPc, StartPc, SessionPc, PreField, RecordPc
  <2>6. Len(file[t]) = PacketCount /\ pc[t] = "receive"
    BY <2>3, <2>4, <2>5, EndsWhole
  <2>7. QED
    BY <1>1, <2>6, FileStays
<1>6. QED
  BY <1>4, <1>5

(* ... and if nobody restarts the interface: a capture that nobody stopped *)
(* has in its file all the packets that were asked for - the stop datagram *)
(* never overtakes one, and csiutil's delay lets none fall before the      *)
(* socket is open (CaptureFragment:228-244, csiutil.c:183-230).            *)
THEOREM PatientComplete ==
    ASSUME Steady, Roomy PROVE Spec => []CompleteUnlessStopped
<1>1. Orderly
  BY DEF Steady, Orderly
<1>2. Init => Capturing /\ Complete
  BY InitCapturing, InitComplete
<1>3. Capturing /\ Complete /\ [Next]_vars => (Capturing /\ Complete)'
  <2> SUFFICES ASSUME Capturing, Complete, [Next]_vars PROVE Capturing' /\ Complete'
    OBVIOUS
  <2>1. Capturing'
    BY <1>1, NextCapturing
  <2>2. NoRestart'
    BY NextRestart DEF Capturing, Complete
  <2>3. StopCounts' /\ Finished'
    BY <1>1, NextStop, NextFinished DEF Complete
  <2>4. QED
    BY <2>1, <2>2, <2>3 DEF Complete
<1>4. Capturing /\ Complete => CompleteUnlessStopped
  <2> SUFFICES ASSUME Finished, NEW t \in Threads, pc[t] = "done", utilPc[t] # "none",
                      Len(file[t]) < PacketCount
               PROVE  \E u \in Threads : pc[u] # "unborn" /\ utilPc[u] = "none"
    BY DEF Complete, CompleteUnlessStopped
  <2>1. PICK v \in Threads : Stopper(v)
    BY LoopbackAssumption DEF Finished
  <2>2. QED
    BY <2>1 DEF Stopper, Early
<1>5. QED
  BY <1>2, <1>3, <1>4, PTL DEF Spec

-----------------------------------------------------------------------------
(* Steps of one thread *)

(* Only a thread that creates or closes its file changes what is open.     *)
LEMMA WritersChange ==
    ASSUME [Next]_vars, openWriters' # openWriters
    PROVE  \E t \in Threads : CreateFileOpens(t) \/ CreateFileCloses(t) \/ CloseFile(t)
<1>1. ASSUME MainThread PROVE FALSE
  BY <1>1 DEF MainThread, User, DispatchPosted, OnCreateView, OnDestroyView, OpenRoot,
              ClickStartStop, Pressed, RestartNic, EditNumbers, ClickThrows, Cleanup, CheckNull,
              CheckClosed, CloseTheSocket, SetNull, Crash, OnlyPc, fileVars, fragmentVars
<1>2. ASSUME NEW t \in Threads, BackgroundThread(t)
      PROVE  CreateFileOpens(t) \/ CreateFileCloses(t) \/ CloseFile(t)
  BY <1>2 DEF BackgroundThread, SessionThread, PostCapturing, LaunchCsiutil, JobsOutput,
     TestSocket, NewSocket, AssignSocket, ReadSocketField,
     ReceiveThrows, Receive, WriteText, StopThread, KillJob, KillOutput, Cleanup, CheckNull,
     CheckClosed, CloseTheSocket, SetNull, Crash, PostIdle, OnlyPc, fileVars
<1>3. QED
  BY <1>1, <1>2 DEF Next, vars, ShellProcess, CsiutilRuns, FrameArrives, fragmentVars, fileVars

(* Only binding, storing, closing and erasing change a socket or a field.  *)
LEMMA SocketsChange ==
    ASSUME [Next]_vars, <<socket, openSockets>>' # <<socket, openSockets>>
    PROVE  \/ \E t \in Threads : NewSocket(t) \/ AssignSocket(t)
           \/ \E a \in Agents : CloseTheSocket(a) \/ SetNull(a)
<1> DEFINE Result == \/ \E t \in Threads : NewSocket(t) \/ AssignSocket(t)
                     \/ \E a \in Agents : CloseTheSocket(a) \/ SetNull(a)
<1>1. ASSUME NEW a \in Agents, Cleanup(a) PROVE CloseTheSocket(a) \/ SetNull(a)
  BY <1>1 DEF Cleanup, CheckNull, CheckClosed, Crash, OnlyPc, loopbackVars, fieldVars
<1>2. ASSUME MainThread PROVE Result
  <2>1. ASSUME NEW i \in Instances, DispatchPosted(i) \/ User(i) PROVE FALSE
    BY <2>1 DEF User, DispatchPosted, OnCreateView, OnDestroyView, OpenRoot, ClickStartStop,
                Pressed, RestartNic, EditNumbers, ClickThrows, Crash, loopbackVars, fieldVars,
                fragmentVars
  <2>2. QED
    BY <1>1, <1>2, <2>1 DEF MainThread, Agents
<1>3. ASSUME NEW t \in Threads, BackgroundThread(t) PROVE Result
  <2>1. CASE Cleanup(t)
    BY <1>1, <2>1 DEF Agents
  <2>2. CASE ~Cleanup(t)
    BY <1>3, <2>2 DEF BackgroundThread, SessionThread, PostCapturing, LaunchCsiutil, JobsOutput,
       TestSocket, CreateFileCloses, CreateFileOpens, ReadSocketField,
       ReceiveThrows, Receive, TakeDatagram, WriteText, StopThread, KillJob, KillOutput,
       CloseFile, PostIdle, OnlyPc, loopbackVars, fieldVars
  <2>3. QED
    BY <2>1, <2>2
<1>4. ASSUME NEW u \in Threads, CsiutilRuns(u) \/ FrameArrives(u) PROVE FALSE
  BY <1>4 DEF CsiutilRuns, FrameArrives, PcapFails, SleepDelay, CreateUdpSendSocket, SendStop,
     CloseSendSocket, GotPacket, GotShortPacket, SendTo, Deliver, loopbackVars, fragmentVars,
     fieldVars
<1>5. QED
  BY <1>2, <1>3, <1>4 DEF Next, vars, ShellProcess, fragmentVars, fieldVars, loopbackVars

(* A user who does not click again before the effect of the last click     *)
(* never makes a cleanup erase the socket of a later session, whatever     *)
(* else happens: null is stored only over a closed socket                  *)
(* (CaptureFragment:249-254, 267-272, 356-361).                            *)
THEOREM PatientNullsClosed ==
    ASSUME Patient PROVE Spec => NullsClosedSocket
<1> DEFINE Null == \A i \in Instances :
             socket[i] # NONE /\ socket'[i] = NONE => socket[i] \notin openSockets
<1>1. TypeInv /\ Sockets /\ [Next]_vars => Null
  <2> SUFFICES ASSUME TypeInv, Sockets, [Next]_vars, NEW i \in Instances,
                      socket[i] # NONE, socket'[i] = NONE
               PROVE  socket[i] \notin openSockets
    OBVIOUS
  <2>1. ASSUME NEW t \in Threads, NewSocket(t) \/ AssignSocket(t) PROVE FALSE
    BY <2>1, Places DEF NewSocket, AssignSocket, fieldVars
  <2>2. ASSUME NEW a \in Agents, CloseTheSocket(a) PROVE FALSE
    BY <2>2 DEF CloseTheSocket, Crash, fieldVars
  <2>3. ASSUME NEW a \in Agents, SetNull(a) PROVE socket[i] \notin openSockets
    <3>1. pc[a] = "setNull" /\ inst[a] = i
      BY <2>3, Places DEF SetNull, At
    <3>2. QED
      BY <3>1 DEF Sockets, Shut
  <2>4. QED
    BY <2>1, <2>2, <2>3, SocketsChange
<1>2. QED
  BY <1>1, InitTypeInv, InitSockets, NextTypeInv, NextSockets, PTL DEF Spec, NullsClosedSocket

(* A stop is over only with a step from postIdle, which leaves the files.  *)
LEMMA StopsEnd ==
    ASSUME TypeInv, LaunchedOnce, [Next]_vars, StopGoesOn, ~StopGoesOn'
    PROVE  \E v \in Threads : pc[v] = "postIdle" /\ PostIdle(v)
<1>1. PICK v \in Threads : Stopper(v) /\ pc[v] # "done"
  BY DEF StopGoesOn
<1>2. pc'[v] = "done"
  BY <1>1, StopperStays DEF StopGoesOn
<1>3. BackgroundThread(v) /\ pc'[v] # pc[v]
  BY <1>1, <1>2, OwnMove
<1>4. \A to : GoTo(v, to) => to = "done"
  BY <1>2, Moves, Places
<1>5. PostIdle(v)
  BY <1>3, <1>4, Places DEF BackgroundThread, SessionThread, PostCapturing, LaunchCsiutil,
     JobsOutput, TestSocket, NewSocket, AssignSocket, CreateFileCloses, CreateFileOpens,
     ReadSocketField, ReceiveThrows, Receive, WriteText, StopThread, KillJob, KillOutput, Cleanup,
     CheckNull, CheckClosed, CloseTheSocket, SetNull, Crash, CloseFile, OnlyPc, AfterCleanup
<1>6. QED
  BY <1>5 DEF PostIdle, At

-----------------------------------------------------------------------------
(* Who is a stop *)

(* A step writes a command, takes the oldest one, or drops them all.       *)
LEMMA StdinChange ==
    ASSUME TypeInv, [Next]_vars, NEW s \in Shells, stdin'[s] # stdin[s]
    PROVE  \/ \E cmd \in Command : Input(s, cmd)
           \/ ExecuteCommand(s)
           \/ DropCommands(s)
           \/ "noSu" \in Env /\ ShellDies(s)
<1>1. stdin \in [Shells -> Seq(Command)] /\ stdin' # stdin
  BY DEF TypeInv, TypeOK, RootTypeOK
<1>2. \A r : \A cmd : Input(r, cmd) => r = s
  BY <1>1 DEF Input
<1>3. ASSUME NEW t \in Threads, BackgroundThread(t) PROVE \E cmd \in Command : Input(s, cmd)
  <2>1. CASE LaunchCsiutil(t)
    BY <1>1, <1>2, <2>1 DEF LaunchCsiutil, LaunchCmd, Command, rootVars, shellVars
  <2>2. CASE KillJob(t)
    BY <1>1, <1>2, <2>2 DEF KillJob, KillCmd, Command, rootVars, shellVars
  <2>3. QED
    BY <1>1, <1>3, <2>1, <2>2
    DEF BackgroundThread, SessionThread, PostCapturing, JobsOutput, TestSocket,
        NewSocket, AssignSocket, CreateFileCloses, CreateFileOpens, ReadSocketField,
        ReceiveThrows, Receive, WriteText, StopThread, KillOutput, Cleanup, CheckNull,
        CheckClosed, CloseTheSocket, SetNull, Crash, CloseFile, PostIdle, OnlyPc, rootVars, shellVars
<1>4. ASSUME MainThread PROVE \E cmd \in Command : Input(s, cmd)
  <2>1. ASSUME NEW i \in Instances, RestartNic(i) PROVE \E cmd \in Command : Input(s, cmd)
    BY <1>1, <1>2, <2>1 DEF RestartNic, IfconfigCmd, Command, Crash, rootVars, shellVars
  <2>2. QED
    BY <1>1, <1>4, <2>1
    DEF MainThread, User, DispatchPosted, OnCreateView, OnDestroyView, OpenRoot, ClickStartStop,
        Pressed, EditNumbers, ClickThrows, Cleanup, CheckNull, CheckClosed, CloseTheSocket, SetNull, Crash, OnlyPc,
        OpenShell, ExitShell, rootVars, shellVars
<1>5. ASSUME NEW r \in Shells, ShellProcess(r)
      PROVE  ExecuteCommand(s) \/ DropCommands(s) \/ ("noSu" \in Env /\ ShellDies(s))
  <2>1. r = s
    BY <1>1, <1>5 DEF ShellProcess, ExecuteCommand, DropCommands, ShellDies
  <2>2. QED
    BY <1>5, <2>1 DEF ShellProcess
<1>6. ASSUME NEW u \in Threads, CsiutilRuns(u) \/ FrameArrives(u) PROVE FALSE
  BY <1>1, <1>6 DEF CsiutilRuns, FrameArrives, PcapFails, SleepDelay, CreateUdpSendSocket,
     SendStop, CloseSendSocket, GotPacket, GotShortPacket, shellVars
<1>7. QED
  BY <1>1, <1>3, <1>4, <1>5, <1>6 DEF Next, vars, rootVars, shellVars

(* A csiutil that was launched has been launched for good. *)
LEMMA UtilStays ==
    ASSUME TypeInv, [Next]_vars, NEW u \in Threads, utilPc[u] # "none"
    PROVE  utilPc'[u] # "none"
<1>1. CASE utilPc' = utilPc
  BY <1>1
<1>2. ASSUME NEW v, NEW p, utilPc' = [utilPc EXCEPT ![v] = p], p # "none"
      PROVE  utilPc'[u] # "none"
  BY <1>2 DEF TypeInv, TypeOK, RootTypeOK
<1>3. ASSUME NEW s \in Shells, ExecuteCommand(s) PROVE utilPc'[u] # "none"
  <2>1. CASE \E v : RunCsiutil(s, v)
    BY <1>2, <2>1 DEF RunCsiutil
  <2>2. CASE RunKill(s)
    <3>1. utilPc' = utilPc \/ UtilEnds(job1[s])
      BY <2>2 DEF RunKill, utilVars
    <3>2. QED
      BY <1>1, <1>2, <3>1 DEF UtilEnds
  <2>3. CASE RunIfconfig(s)
    BY <1>1, <2>3 DEF RunIfconfig
  <2>4. QED
    BY <1>3, <2>1, <2>2, <2>3 DEF ExecuteCommand
<1>4. ASSUME NEW t \in Threads, BackgroundThread(t) PROVE utilPc' = utilPc
  BY <1>4 DEF BackgroundThread, SessionThread, PostCapturing, LaunchCsiutil, JobsOutput,
     TestSocket, NewSocket, AssignSocket, CreateFileCloses, CreateFileOpens, ReadSocketField,
     ReceiveThrows, Receive, WriteText, StopThread, KillJob, KillOutput, Cleanup, CheckNull,
     CheckClosed, CloseTheSocket, SetNull, Crash, CloseFile, PostIdle, OnlyPc, Input,
     rootVars, utilVars
<1>5. ASSUME MainThread PROVE utilPc' = utilPc
  BY <1>5 DEF MainThread, User, DispatchPosted, OnCreateView, OnDestroyView, OpenRoot,
              ClickStartStop, Pressed, RestartNic, EditNumbers, ClickThrows, Cleanup, CheckNull,
              CheckClosed, CloseTheSocket, SetNull, Crash, OnlyPc, OpenShell, ExitShell, Input,
              rootVars, utilVars
<1>6. ASSUME NEW s \in Shells, ShellProcess(s) PROVE utilPc'[u] # "none"
  BY <1>1, <1>3, <1>6 DEF ShellProcess, DropCommands, ShellDies, utilVars
<1>7. ASSUME NEW v \in Threads, CsiutilRuns(v) \/ FrameArrives(v) PROVE utilPc'[u] # "none"
  <2>1. \E p : utilPc' = [utilPc EXCEPT ![v] = p] /\ p # "none"
    BY <1>7 DEF CsiutilRuns, FrameArrives, PcapFails, SleepDelay, CreateUdpSendSocket,
       SendStop, CloseSendSocket, GotPacket, GotShortPacket, AtUtil, UtilEnds
  <2>2. QED
    BY <1>2, <2>1
<1>8. QED
  BY <1>1, <1>4, <1>5, <1>6, <1>7 DEF Next, vars, rootVars, utilVars

(* Past its launch, a thread that is no stop does not become one.          *)
LEMMA StopperBack ==
    ASSUME Orderly, TypeInv, Idle, Commands, [Next]_vars,
           NEW v \in Threads, pc[v] \notin Early, ~Stopper(v)
    PROVE  ~Stopper(v)'
<1>1. CASE utilPc[v] # "none"
  BY <1>1, UtilStays DEF Stopper
<1>2. CASE utilPc[v] = "none"
  <2>1. PICK s \in Shells : \E k \in 1..Len(stdin[s]) : Commanded(s, k, v)
    BY <1>2 DEF Stopper
  <2>2. PICK k \in 1..Len(stdin[s]) : Commanded(s, k, v)
    BY <2>1
  <2>3. pc[v] = "jobs" /\ s = bp[view] /\ shell[s] = "up"
    BY <2>2 DEF Commands, Waiting, Idle, ShellUp, Usable, WorkPc, SessionPc, PreField, StartPc
  <2>4. CASE stdin'[s] = stdin[s]
    BY <2>2, <2>4 DEF Stopper, Commanded, LaunchCmd
  <2>5. ASSUME NEW cmd \in Command, Input(s, cmd) PROVE ~Stopper(v)'
    <3>1. k \in 1..Len(stdin'[s]) /\ stdin'[s][k] = stdin[s][k]
      BY <2>5, CommandAppended
    <3>2. QED
      BY <2>2, <3>1 DEF Stopper, Commanded, LaunchCmd
  <2>6. CASE ExecuteCommand(s)
    <3>1. /\ Head(stdin[s]) = stdin[s][1]
          /\ k # 1 => k - 1 \in 1..Len(stdin'[s]) /\ stdin'[s][k - 1] = stdin[s][k]
      BY <2>6, CommandTaken DEF ExecuteCommand
    <3>2. CASE k # 1
      BY <2>2, <3>1, <3>2 DEF Stopper, Commanded, LaunchCmd
    <3>3. CASE k = 1
      <4>1. Head(stdin[s]).op = "csiutil" /\ Head(stdin[s]).arg = v
        BY <2>2, <3>1, <3>3 DEF Commanded, LaunchCmd
      <4>2. utilPc' = [utilPc EXCEPT ![v] = "open"]
        BY <2>6, <4>1 DEF ExecuteCommand, RunCsiutil
      <4>3. QED
        BY <4>2 DEF Stopper, TypeInv, TypeOK, RootTypeOK
    <3>4. QED
      BY <3>2, <3>3
  <2>7. ~DropCommands(s) /\ "noSu" \notin Env
    BY <2>3 DEF DropCommands, Orderly
  <2>8. QED
    BY <2>4, <2>5, <2>6, <2>7, StdinChange
<1>3. QED
  BY <1>1, <1>2

(* A session on its way to its file gets there, unless its shell is gone   *)
(* before it has written its command line: then it is as good as a stop.   *)
LEMMA OpensOn ==
    ASSUME Orderly, Base, OwnField, [Next]_vars, NEW t \in Threads, Unfiled(t), ~Unfiled(t)'
    PROVE  \/ pc[t] = "unborn" /\ Stopper(t)' /\ pc'[t] = "kill" /\ UNCHANGED <<file, openWriters>>
           \/ pc[t] = "launch" /\ Stopper(t)' /\ pc'[t] = "checkNull" /\ UNCHANGED <<file, openWriters>>
           \/ CreateFileOpens(t) /\ pc'[t] = "loop"
<1> USE DEF SessionPc, PreField, RecordPc
<1>1. TypeInv /\ Sockets /\ Writers /\ Idle /\ LaunchedOnce /\ t \in Agents
  BY Places DEF Base
<1>2. pc[t] \in SessionPc \cup {"unborn"} /\ pc[t] \notin RecordPc /\ pc'[t] # pc[t]
  BY DEF Unfiled, Opening
<1>3. CASE pc[t] = "unborn"
  <2>1. pc'[t] = "kill" /\ UNCHANGED <<stdin, utilPc, file, openWriters>>
    BY <1>1, <1>2, <1>3, OwnMove DEF Unfiled, Over
  <2>2. Stopper(t)'
    BY <1>1, <1>3, <2>1 DEF Stopper, Early, LaunchedOnce, Commanded, LaunchCmd
  <2>3. QED
    BY <1>3, <2>1, <2>2
<1>4. CASE pc[t] \in SessionPc
  <2>1. SessionThread(t)
    BY <1>1, <1>2, <1>4, OwnStep
  <2>2. inst[t] = view /\ (pc[t] \in PreField => socket[view] = NONE)
    BY <1>1, <1>4, OnlySession DEF Sockets, NotYet
  <2>3. \A to : GoTo(t, to) => pc'[t] = to
    BY <1>1, Moves
  <2>4. CASE PostCapturing(t) \/ AssignSocket(t) \/ CreateFileCloses(t)
    BY <2>3, <2>4 DEF PostCapturing, AssignSocket, CreateFileCloses, Unfiled, Opening
  <2>5. CASE LaunchCsiutil(t)
    <3>1. pc[t] = "launch" /\ (GoTo(t, "jobs") \/ (GoTo(t, "checkNull") /\ UNCHANGED rootVars))
          /\ UNCHANGED <<file, openWriters>>
      BY <2>5 DEF LaunchCsiutil, At, fileVars
    <3>2. pc'[t] = "checkNull" /\ UNCHANGED <<stdin, utilPc>>
      BY <2>3, <3>1 DEF Unfiled, Opening, rootVars, shellVars, utilVars
    <3>3. Stopper(t)'
      BY <1>1, <3>1, <3>2 DEF Stopper, Early, LaunchedOnce, Commanded, LaunchCmd
    <3>4. QED
      BY <3>1, <3>2, <3>3
  <2>6. CASE JobsOutput(t)
    <3>1. Usable(bp[view]) /\ pc[t] = "jobs"
      BY <1>1, <2>6 DEF JobsOutput, At, Idle, ShellUp, WorkPc, StartPc
    <3>2. pc'[t] = "testNull"
      BY <2>2, <2>3, <2>6, <3>1 DEF JobsOutput, Usable
    <3>3. QED
      BY <3>2 DEF Unfiled, Opening
  <2>7. CASE TestSocket(t)
    <3>1. pc[t] = "testNull"
      BY <2>7 DEF TestSocket, At, OwnField
    <3>2. pc'[t] = "bind"
      BY <2>2, <2>3, <2>7, <3>1 DEF TestSocket, At
    <3>3. QED
      BY <3>2 DEF Unfiled, Opening
  <2>8. CASE NewSocket(t)
    <3>1. PortFree
      BY <2>8, PortIsFree DEF NewSocket, At
    <3>2. pc'[t] = "assign"
      BY <2>3, <2>8, <3>1 DEF NewSocket
    <3>3. QED
      BY <3>2 DEF Unfiled, Opening
  <2>9. CASE CreateFileOpens(t)
    BY <2>3, <2>9 DEF CreateFileOpens, Orderly
  <2>10. QED
    BY <1>2, <2>1, <2>4, <2>5, <2>6, <2>7, <2>8, <2>9
    DEF SessionThread, ReadSocketField, ReceiveThrows, Receive, WriteText, At
<1>5. QED
  BY <1>2, <1>3, <1>4

-----------------------------------------------------------------------------
(* What a stop does to a file *)

LEMMA InitStops == Init => Stops
<1> SUFFICES ASSUME Init PROVE Stops
  OBVIOUS
<1>1. openWriters = {} /\ \A t \in Threads : pc[t] = "unborn"
  BY FragmentAssumption DEF Init, Agents
<1>2. QED
  BY <1>1 DEF Stops, Launched, Escorted, ShellStays, Keeps, ClosesWhole, ClosedFirst, SessionPc,
              PreField, RecordPc, Early, Over

LEMMA NextLaunched ==
    ASSUME Orderly, Capturing, Launched, [Next]_vars
    PROVE  Launched'
<1> SUFFICES ASSUME NEW t \in Threads, pc'[t] \in SessionPc \ Early \/ t \in openWriters'
             PROVE  ~Stopper(t)'
  BY DEF Launched
<1> USE DEF SessionPc, PreField, RecordPc, Early
<1>1. TypeInv /\ Writers /\ Idle /\ Commands /\ LaunchedOnce /\ t \in Agents
  BY Places DEF Capturing, Base
<1>2. CASE pc[t] \in SessionPc \ Early \/ t \in openWriters
  <2>1. ~Stopper(t) /\ pc[t] \notin Early
    BY <1>1, <1>2 DEF Launched, Writers, WriterOwned, HasWriter, CleanupPc
  <2>2. QED
    BY <1>1, <2>1, StopperBack
<1>3. CASE ~(pc[t] \in SessionPc \ Early \/ t \in openWriters)
  <2>1. CASE t \in openWriters'
    <3>1. PICK x \in Threads : CreateFileOpens(x) \/ CreateFileCloses(x) \/ CloseFile(x)
      BY <1>3, <2>1, WritersChange
    <3>2. CreateFileOpens(x) /\ t = x
      BY <1>3, <2>1, <3>1 DEF CreateFileOpens, CreateFileCloses, CloseFile, CloseWriterOf
    <3>3. QED
      BY <1>3, <3>2 DEF CreateFileOpens, At
  <2>2. CASE t \notin openWriters'
    <3>1. pc'[t] # pc[t] /\ pc'[t] \in SessionPc \ Early
      BY <1>3, <2>2
    <3>2. BackgroundThread(t)
      BY <1>1, <3>1, OwnMove
    <3>3. \A to : GoTo(t, to) => pc'[t] = to
      BY <1>1, Moves
    <3>4. LaunchCsiutil(t) /\ GoTo(t, "jobs")
      BY <1>3, <3>1, <3>2, <3>3, Places
      DEF BackgroundThread, SessionThread, PostCapturing, LaunchCsiutil,
       JobsOutput, TestSocket, NewSocket, AssignSocket, CreateFileCloses, CreateFileOpens,
       ReadSocketField, ReceiveThrows, Receive, WriteText, StopThread, KillJob, KillOutput,
       Cleanup, CheckNull, CheckClosed, CloseTheSocket, SetNull, Crash, CloseFile, PostIdle, At,
       AfterCleanup, OnlyPc
    <3>5. inst[t] = view /\ bp[view] \in Shells /\ LaunchCmd(t) \in Command /\ pc[t] = "launch"
      <4>1. pc[t] = "launch"
        BY <3>4 DEF LaunchCsiutil, At
      <4>2. inst[t] = view /\ view \in Instances
        BY <1>1, <4>1, Places DEF Writers, OneView, Over
      <4>3. QED
        BY <1>1, <4>1, <4>2, ShellFound DEF Over, LaunchCmd, Command
    <3>6. pc'[t] = "jobs" /\ Input(bp[view], LaunchCmd(t))
      BY <3>3, <3>4, <3>5 DEF LaunchCsiutil
    <3>7. \E k \in 1..Len(stdin'[bp[view]]) : stdin'[bp[view]][k] = LaunchCmd(t)
      BY <1>1, <3>5, <3>6, CommandAppended
    <3>8. QED
      BY <3>5, <3>7 DEF Stopper, Commanded, LaunchCmd
  <2>3. QED
    BY <2>1, <2>2
<1>4. QED
  BY <1>2, <1>3

(* A thread at work is on the screen that is shown, and keeps it there.    *)
LEMMA ViewStays ==
    ASSUME Orderly, TypeInv, Writers, [Next]_vars, NEW t \in Threads, pc[t] \notin Over
    PROVE  /\ view' = view /\ inst[t] = view /\ view \in Instances
           /\ \A i \in Instances : ~OnDestroyView(i) /\ ~OnCreateView(i)
<1>1. inst[t] = view /\ view \in Instances /\ view # NONE /\ t \in Active(view)
  BY Places DEF Writers, OneView, Over, Active
<1>2. \A i \in Instances : ~OnDestroyView(i) /\ ~OnCreateView(i)
  BY <1>1 DEF OnDestroyView, OnCreateView, Orderly
<1>3. ASSUME NEW x \in Threads, BackgroundThread(x) PROVE view' = view
  BY <1>3 DEF BackgroundThread, SessionThread, PostCapturing, LaunchCsiutil, JobsOutput,
     TestSocket, NewSocket, AssignSocket, CreateFileCloses, CreateFileOpens, ReadSocketField,
     ReceiveThrows, Receive, WriteText, StopThread, KillJob, KillOutput, Cleanup, CheckNull,
     CheckClosed, CloseTheSocket, SetNull, Crash, CloseFile, PostIdle, OnlyPc, uiVars
<1>4. ASSUME MainThread PROVE view' = view
  BY <1>2, <1>4 DEF MainThread, User, DispatchPosted, OpenRoot, ClickStartStop, Pressed,
                    RestartNic, EditNumbers, ClickThrows, Cleanup, CheckNull, CheckClosed,
                    CloseTheSocket, SetNull, Crash, OnlyPc, uiVars, fragmentVars
<1>5. QED
  BY <1>1, <1>2, <1>3, <1>4
  DEF Next, vars, ShellProcess, CsiutilRuns, FrameArrives, fragmentVars, uiVars

(* An open file belongs to a thread at work on the screen that is shown.   *)
LEMMA OpenFound ==
    ASSUME TypeInv, Writers, NEW w \in openWriters
    PROVE  w \in Threads /\ pc[w] \in HasWriter /\ pc[w] \notin Over /\ inst[w] = view
           /\ bw[view] = w /\ openWriters = {w}
<1>1. \A x \in openWriters : x \in Threads /\ pc[x] \in HasWriter /\ bw[inst[x]] = x
  BY DEF TypeInv, TypeOK, FragmentTypeOK, Writers, WriterOwned
<1>2. \A x \in openWriters : pc[x] \notin Over /\ inst[x] = view
  BY <1>1 DEF Writers, OneView, HasWriter, RecordPc, CleanupPc, Over
<1>3. QED
  BY <1>1, <1>2

LEMMA NextEscorted ==
    ASSUME Orderly, Capturing, Sessions', Escorted, [Next]_vars
    PROVE  Escorted'
<1> SUFFICES ASSUME NEW w \in openWriters', NEW v \in Threads, v # w, pc'[v] \notin Over
             PROVE  Stopper(v)'
  BY DEF Escorted
<1>1. TypeInv /\ Writers /\ LaunchedOnce /\ Sessions
  BY DEF Capturing, Base
<1>2. Stopper(v) => Stopper(v)'
  BY <1>1, StopperStays
<1>3. CASE w \in openWriters
  <2>1. CASE pc[v] \notin Over
    BY <1>2, <1>3, <2>1 DEF Escorted
  <2>2. CASE pc[v] \in Over
    <3>1. pc'[v] \in {"post", "kill"} /\ \E i \in Instances : ClickStartStop(i)
      BY <1>1, <2>2, OwnMove
    <3>2. PICK i \in Instances : ClickStartStop(i)
      BY <3>1
    <3>3. w \in Active(i)
      BY <1>1, <1>3, <3>2, OpenFound DEF ClickStartStop, Pressed, Active, Over
    <3>4. mState[i] # "idle"
      BY <3>2, <3>3 DEF ClickStartStop, Pressed, UserWaited, Orderly
    <3>5. pc'[v] = "kill"
      BY <1>1, <2>2, <3>2, <3>4, ClickStarts
    <3>6. QED
      BY <3>5 DEF Sessions, KillersStop
  <2>3. QED
    BY <2>1, <2>2
<1>4. CASE w \notin openWriters
  <2>1. PICK x \in Threads : CreateFileOpens(x) \/ CreateFileCloses(x) \/ CloseFile(x)
    BY <1>4, WritersChange
  <2>2. CreateFileOpens(w) /\ w \in Threads
    BY <1>4, <2>1 DEF CreateFileOpens, CreateFileCloses, CloseFile, CloseWriterOf
  <2>3. pc[w] = "openNew" /\ pc'[v] = pc[v]
    BY <1>1, <2>2, Moves, Places DEF CreateFileOpens, At
  <2>4. Stopper(v)
    BY <1>1, <2>2, <2>3 DEF Sessions, OnlyStoppers, SessionPc
  <2>5. QED
    BY <1>2, <2>4
<1>5. QED
  BY <1>3, <1>4

(* A shell that runs for the screen that is shown keeps running. *)
LEMMA ShellKept ==
    ASSUME Orderly, TypeInv, Writers, [Next]_vars, NEW t \in Threads, pc[t] \notin Over,
           Usable(bp[view])
    PROVE  Usable(bp[view])'
<1>1. view' = view /\ \A i \in Instances : ~OnDestroyView(i)
  BY ViewStays
<1>2. \A i \in Instances : ~OpenRoot(i)
  BY DEF OpenRoot, Orderly
<1>3. ASSUME NEW x \in Threads, BackgroundThread(x) PROVE bp' = bp /\ shell' = shell
  BY <1>3 DEF BackgroundThread, SessionThread, PostCapturing, LaunchCsiutil, JobsOutput,
     TestSocket, NewSocket, AssignSocket, CreateFileCloses, CreateFileOpens, ReadSocketField,
     ReceiveThrows, Receive, WriteText, StopThread, KillJob, KillOutput, Cleanup, CheckNull,
     CheckClosed, CloseTheSocket, SetNull, Crash, CloseFile, PostIdle, OnlyPc, Input,
     fieldVars, rootVars, shellVars
<1>4. ASSUME MainThread PROVE bp' = bp /\ shell' = shell
  BY <1>1, <1>2, <1>4 DEF MainThread, User, DispatchPosted, OnCreateView, ClickStartStop,
                          Pressed, RestartNic, EditNumbers, ClickThrows, Cleanup, CheckNull,
                          CheckClosed, CloseTheSocket, SetNull, Crash, OnlyPc, Input, fieldVars,
                          rootVars, shellVars, fragmentVars
<1>5. ASSUME NEW s \in Shells, ShellProcess(s) PROVE bp' = bp /\ shell' = shell
  BY <1>5 DEF ShellProcess, ExecuteCommand, DropCommands, Orderly, fragmentVars, fieldVars
<1>6. ASSUME NEW u \in Threads, CsiutilRuns(u) \/ FrameArrives(u)
      PROVE  bp' = bp /\ shell' = shell
  BY <1>6 DEF CsiutilRuns, FrameArrives, PcapFails, SleepDelay, CreateUdpSendSocket,
     SendStop, CloseSendSocket, GotPacket, GotShortPacket, shellVars, fragmentVars, fieldVars
<1>7. bp' = bp /\ shell' = shell
  BY <1>3, <1>4, <1>5, <1>6 DEF Next, vars, rootVars, shellVars, fragmentVars, fieldVars
<1>8. QED
  BY <1>1, <1>7 DEF Usable

LEMMA NextShellStays ==
    ASSUME Orderly, Capturing, Idle', ShellStays, [Next]_vars
    PROVE  ShellStays'
<1> SUFFICES ASSUME openWriters' # {} PROVE Usable(bp[view])'
  BY DEF ShellStays
<1>1. TypeInv /\ Writers
  BY DEF Capturing, Base
<1>2. CASE openWriters # {}
  <2>1. PICK w : w \in openWriters
    BY <1>2
  <2>2. w \in Threads /\ pc[w] \notin Over
    BY <1>1, <2>1, OpenFound
  <2>3. QED
    BY <1>1, <1>2, <2>2, ShellKept DEF ShellStays
<1>3. CASE openWriters = {}
  <2>1. PICK t \in Threads : CreateFileOpens(t) \/ CreateFileCloses(t) \/ CloseFile(t)
    BY <1>3, WritersChange
  <2>2. CreateFileOpens(t)
    BY <1>3, <2>1 DEF CreateFileCloses, CloseFile, CloseWriterOf
  <2>3. pc'[t] = "loop"
    BY <1>1, <1>3, <2>2, Moves, Places DEF CreateFileOpens
  <2>4. QED
    BY <2>3 DEF Idle, ShellUp, WorkPc, SessionPc, StartPc, RecordPc
<1>4. QED
  BY <1>2, <1>3

(* A stop is over only when no file is open. *)
LEMMA StopOverClosed ==
    ASSUME Capturing, ClosedFirst, [Next]_vars, StopGoesOn, ~StopGoesOn'
    PROVE  \E v \in Threads : /\ pc[v] = "postIdle" /\ openWriters' = {}
                              /\ \A x \in Threads \ {v} : pc'[x] = pc[x]
<1>1. TypeInv /\ LaunchedOnce
  BY DEF Capturing, Base
<1>2. PICK v \in Threads : pc[v] = "postIdle" /\ PostIdle(v)
  BY <1>1, StopsEnd
<1>3. openWriters' = {} /\ \A x \in Threads \ {v} : pc'[x] = pc[x]
  BY <1>1, <1>2, Moves, Places DEF PostIdle, ClosedFirst, fileVars
<1>4. QED
  BY <1>2, <1>3

LEMMA NextKeeps ==
    ASSUME Orderly, Capturing, Keeps, ClosedFirst, [Next]_vars
    PROVE  Keeps'
<1> USE DEF SessionPc, PreField, RecordPc
<1> SUFFICES ASSUME NEW w \in Threads, ~StopGoesOn',
                    pc'[w] \in {"closeOld", "openNew"} \/ (w \in openWriters' /\ pc'[w] \in RecordPc)
             PROVE  socket'[view'] = w /\ w \in openSockets'
  BY DEF Keeps
<1>1. TypeInv /\ Writers /\ Sockets /\ Idle /\ Sessions /\ OwnField /\ w \in Agents
  BY Places DEF Capturing, Base, Sessions
<1>2. pc[w] \notin Over
  <2>1. CASE pc'[w] # pc[w]
    BY <1>1, <2>1, OwnMove DEF Over
  <2>2. QED
    BY <2>1 DEF Over
<1>3. view' = view /\ inst[w] = view /\ view \in Instances /\ NONE \notin Instances
  BY <1>1, <1>2, ViewStays, Places
<1>4. ~StopGoesOn
  <2>1. ASSUME StopGoesOn PROVE FALSE
    <3>1. PICK v \in Threads : /\ pc[v] = "postIdle" /\ openWriters' = {}
                               /\ \A x \in Threads \ {v} : pc'[x] = pc[x]
      BY <2>1, StopOverClosed
    <3>2. pc'[w] \in {"closeOld", "openNew"}
      BY <3>1
    <3>3. v # w
      <4>1. ASSUME v = w PROVE FALSE
        <5>1. BackgroundThread(w) /\ pc'[w] # pc[w]
          BY <1>1, <3>1, <3>2, <4>1, OwnMove
        <5>2. \A to : GoTo(w, to) => pc'[w] = to
          BY <1>1, Moves
        <5>3. PostIdle(w)
          BY <3>1, <4>1, <5>1 DEF BackgroundThread, SessionThread, PostCapturing, LaunchCsiutil,
             JobsOutput, TestSocket, NewSocket, AssignSocket, CreateFileCloses, CreateFileOpens,
             ReadSocketField, ReceiveThrows, Receive, WriteText, StopThread, KillJob, KillOutput,
             Cleanup, CheckNull, CheckClosed, CloseTheSocket, SetNull, CloseFile, At
        <5>4. QED
          BY <3>2, <5>2, <5>3 DEF PostIdle
      <4>2. QED
        BY <4>1
    <3>4. pc[w] \in {"closeOld", "openNew"}
      BY <3>1, <3>2, <3>3
    <3>5. QED
      BY <1>1, <3>1, <3>4 DEF Idle, NoOpener, EndPc, OpeningPc
  <2>2. QED
    BY <2>1
<1>5. CASE pc'[w] = pc[w]
  <2>1. w \in openWriters' => w \in openWriters \/ pc[w] = "openNew"
    <3>1. ASSUME w \in openWriters', w \notin openWriters PROVE pc[w] = "openNew"
      <4>1. PICK x \in Threads : CreateFileOpens(x) \/ CreateFileCloses(x) \/ CloseFile(x)
        BY <3>1, WritersChange
      <4>2. QED
        BY <3>1, <4>1 DEF CreateFileOpens, CreateFileCloses, CloseFile, CloseWriterOf, At
    <3>2. QED
      BY <3>1
  <2>2. socket[view] = w /\ w \in openSockets
    BY <1>4, <1>5, <2>1 DEF Keeps
  <2>3. UNCHANGED <<socket, openSockets>>
    <3>1. \A t \in Threads : pc[t] \in PreField => FALSE
      BY <1>1, <1>5, OnlySession
    <3>2. \A t \in Threads : ~NewSocket(t) /\ ~AssignSocket(t)
      BY <3>1 DEF NewSocket, AssignSocket, At
    <3>3. ASSUME NEW a \in Agents, CloseTheSocket(a) \/ SetNull(a) PROVE FALSE
      <4>1. pc[a] \in {"close", "setNull"}
        BY <3>3 DEF CloseTheSocket, SetNull, At
      <4>2. a # Main
        BY <1>1, <1>3, <4>1 DEF Sessions, MainLeaves
      <4>3. a \in Threads /\ a # w
        BY <1>5, <4>1, <4>2 DEF Agents
      <4>4. Stopper(a)
        BY <1>1, <1>5, <4>1, <4>3 DEF Sessions, OnlyStoppers, Over
      <4>5. QED
        BY <1>4, <4>1, <4>3, <4>4 DEF StopGoesOn
    <3>4. QED
      BY <3>2, <3>3, SocketsChange
  <2>4. QED
    BY <1>3, <2>2, <2>3
<1>6. CASE pc'[w] # pc[w]
  <2>1. BackgroundThread(w)
    BY <1>1, <1>6, OwnMove
  <2>2. \A to : GoTo(w, to) => pc'[w] = to
    BY <1>1, Moves
  <2>3. \/ AssignSocket(w) \/ CreateFileCloses(w) \/ CreateFileOpens(w)
        \/ ReadSocketField(w) \/ Receive(w) \/ WriteText(w) \/ pc[w] = "testClosed"
    BY <1>6, <2>1, <2>2 DEF BackgroundThread, SessionThread, PostCapturing, LaunchCsiutil,
       JobsOutput, TestSocket, NewSocket, ReceiveThrows, StopThread, KillJob, KillOutput, Cleanup,
       CheckNull, CheckClosed, CloseTheSocket, SetNull, Crash, CloseFile, PostIdle, OnlyPc,
       AfterCleanup, At
  <2>4. pc[w] # "testClosed"
    BY <1>1 DEF OwnField
  <2>5. CASE AssignSocket(w)
    <3>1. w \in openSockets
      BY <1>1, <2>5 DEF AssignSocket, At, OwnField
    <3>2. QED
      BY <1>1, <1>3, <2>5, <3>1, Places DEF AssignSocket, loopbackVars
  <2>6. CASE CreateFileCloses(w) \/ CreateFileOpens(w)
    <3>1. socket[view] = w /\ w \in openSockets
      BY <1>4, <2>6 DEF Keeps, CreateFileCloses, CreateFileOpens, At
    <3>2. QED
      BY <1>3, <2>6, <3>1 DEF CreateFileCloses, CreateFileOpens, loopbackVars, fieldVars
  <2>7. CASE ReadSocketField(w) \/ Receive(w) \/ WriteText(w)
    <3>1. pc[w] \in RecordPc /\ UNCHANGED <<openWriters, openSockets, socket>>
      BY <2>7 DEF ReadSocketField, Receive, TakeDatagram, WriteText, At, loopbackVars, fieldVars,
                  fileVars
    <3>2. pc'[w] \in RecordPc
      <4>1. pc'[w] \notin {"closeOld", "openNew"}
        BY <2>2, <2>7 DEF ReadSocketField, Receive, WriteText
      <4>2. QED
        BY <4>1
    <3>3. socket[view] = w /\ w \in openSockets
      BY <1>4, <3>1, <3>2 DEF Keeps
    <3>4. QED
      BY <1>3, <3>1, <3>3
  <2>8. QED
    BY <2>3, <2>4, <2>5, <2>6, <2>7
<1>7. QED
  BY <1>5, <1>6

LEMMA NextClosesWhole ==
    ASSUME Orderly, Capturing, StopCounts, Keeps, ClosesWhole, ClosedFirst, [Next]_vars
    PROVE  ClosesWhole'
<1> SUFFICES ASSUME NEW w \in openWriters', ~StopGoesOn',
                    pc'[w] \in CleanupPc \cup {"closeFile"}
             PROVE  Len(file'[w]) = PacketCount
  BY DEF ClosesWhole
<1> USE DEF RecordPc, CleanupPc
<1>1. TypeInv /\ Writers /\ OwnField
  BY DEF Capturing, Base, Sessions
<1>2. ~StopGoesOn
  BY StopOverClosed
<1>3. w \in openWriters
  <2>1. ASSUME w \notin openWriters PROVE FALSE
    <3>1. PICK x \in Threads : CreateFileOpens(x) \/ CreateFileCloses(x) \/ CloseFile(x)
      BY <2>1, WritersChange
    <3>2. CreateFileOpens(w) /\ GoTo(w, "loop") /\ w \in Agents
      BY <1>1, <2>1, <3>1, Places DEF CreateFileOpens, CreateFileCloses, CloseFile, CloseWriterOf
    <3>3. QED
      BY <1>1, <3>2, Moves
  <2>2. QED
    BY <2>1
<1>4. w \in Threads /\ pc[w] \in HasWriter
  BY <1>1, <1>3, OpenFound
<1>5. CASE pc[w] \in CleanupPc \cup {"closeFile"}
  <2>1. Len(file[w]) = PacketCount
    BY <1>2, <1>3, <1>5 DEF ClosesWhole
  <2>2. QED
    BY <1>1, <1>4, <1>5, <2>1, FileStays
<1>6. CASE pc[w] \in RecordPc
  <2>1. Equipped(w)
    BY <1>2, <1>3, <1>4, <1>6 DEF Keeps, Equipped
  <2>2. pc[w] \in WorkPc /\ pc'[w] \notin WorkPc
    BY <1>6 DEF WorkPc, StartPc, SessionPc, PreField
  <2>3. Len(file[w]) = PacketCount /\ pc[w] = "receive"
    BY <1>4, <2>1, <2>2, EndsWhole
  <2>4. QED
    BY <1>1, <1>4, <2>3, FileStays
<1>7. QED
  BY <1>4, <1>5, <1>6 DEF HasWriter

LEMMA NextClosedFirst ==
    ASSUME Capturing, ShellStays, ClosedFirst, [Next]_vars
    PROVE  ClosedFirst'
<1> SUFFICES ASSUME NEW v \in Threads, pc'[v] = "postIdle", openWriters' # {} PROVE FALSE
  BY DEF ClosedFirst
<1>1. TypeInv /\ Writers /\ Idle /\ v \in Agents
  BY Places DEF Capturing, Base
<1>2. CASE pc[v] = "postIdle"
  <2>1. openWriters = {}
    BY <1>2 DEF ClosedFirst
  <2>2. PICK x \in Threads : CreateFileOpens(x) \/ CreateFileCloses(x) \/ CloseFile(x)
    BY <2>1, WritersChange
  <2>3. pc[x] = "openNew"
    BY <2>1, <2>2 DEF CreateFileOpens, CreateFileCloses, CloseFile, CloseWriterOf, At
  <2>4. QED
    BY <1>1, <1>2, <2>3 DEF Idle, NoOpener, EndPc, OpeningPc, SessionPc, RecordPc
<1>3. CASE pc[v] # "postIdle"
  <2>1. BackgroundThread(v) /\ pc[v] \notin Over
    BY <1>1, <1>3, OwnMove
  <2>2. \A to : GoTo(v, to) => to = "postIdle"
    BY <1>1, Moves
  <2>3. \/ CloseFile(v)
        \/ KillJob(v) /\ ~Usable(bp[inst[v]]) /\ UNCHANGED openWriters
        \/ KillOutput(v) /\ ~Usable(bp[inst[v]]) /\ pc[v] = "killOut"
    BY <1>3, <2>1, <2>2, Places DEF BackgroundThread, SessionThread, PostCapturing, LaunchCsiutil,
       JobsOutput, TestSocket, NewSocket, AssignSocket, CreateFileCloses, CreateFileOpens,
       ReadSocketField, ReceiveThrows, Receive, WriteText, StopThread, KillJob, KillOutput,
       Cleanup, CheckNull, CheckClosed, CloseTheSocket, SetNull, Crash, PostIdle, OnlyPc,
       AfterCleanup, At, Usable, fileVars
  <2>4. inst[v] = view
    BY <1>1, <2>1 DEF Writers, OneView
  <2>5. CASE CloseFile(v)
    <3>1. PICK w : w \in openWriters /\ w # bw[view]
      BY <2>4, <2>5 DEF CloseFile, CloseWriterOf
    <3>2. QED
      BY <1>1, <3>1, OpenFound
  <2>6. QED
    BY <1>1, <2>3, <2>4, <2>5 DEF ShellStays, Idle, ShellUp
<1>4. QED
  BY <1>2, <1>3

LEMMA NextStops ==
    ASSUME Orderly, Capturing, Capturing', StopCounts, Stops, [Next]_vars
    PROVE  Stops'
<1>1. Idle' /\ Sessions'
  BY DEF Capturing, Base
<1>2. QED
  BY <1>1, NextLaunched, NextEscorted, NextShellStays, NextKeeps, NextClosesWhole, NextClosedFirst
  DEF Stops

-----------------------------------------------------------------------------
(* The capture files, as CaptureFiles describes them *)

LEMMA PhaseStays ==
    ASSUME Orderly, Capturing, [Next]_vars, NEW x \in Threads,
           x \in openWriters' <=> x \in openWriters, Unfiled(x)' <=> Unfiled(x),
           pc'[x] = "done" <=> pc[x] = "done"
    PROVE  PhaseOf(x)' = PhaseOf(x)
<1>1. TypeInv /\ LaunchedOnce /\ Idle /\ Commands
  BY DEF Capturing, Base
<1>2. CASE x \in openWriters \/ Unfiled(x)
  BY <1>2 DEF PhaseOf
<1>3. CASE ~(x \in openWriters \/ Unfiled(x))
  <2>1. pc[x] \notin Early
    BY <1>3 DEF Unfiled, Opening, Early
  <2>2. Stopper(x)' <=> Stopper(x)
    BY <1>1, <2>1, StopperStays, StopperBack
  <2>3. QED
    BY <1>3, <2>2 DEF PhaseOf
<1>4. QED
  BY <1>2, <1>3

(* What is open is what CaptureFiles calls open, and a stop goes on there, *)
(* too.                                                                    *)
LEMMA PhaseFound ==
    /\ \A t \in Threads : PhaseOf(t) = "open" <=> t \in openWriters
    /\ Launched /\ StopGoesOn => \E t \in Threads : PhaseOf(t) = "stop"
<1>1. \A t \in Threads : PhaseOf(t) = "open" <=> t \in openWriters
  BY DEF PhaseOf
<1>2. ASSUME Launched, StopGoesOn PROVE \E t \in Threads : PhaseOf(t) = "stop"
  <2>1. PICK v \in Threads : Stopper(v) /\ pc[v] # "done"
    BY <1>2 DEF StopGoesOn
  <2>2. v \notin openWriters /\ pc[v] \notin SessionPc \ Early /\ pc[v] \notin Early
    BY <1>2, <2>1 DEF Launched, Stopper
  <2>3. ~Unfiled(v)
    BY <2>2 DEF Unfiled, Opening, SessionPc, PreField, Early
  <2>4. QED
    BY <2>1, <2>2, <2>3 DEF PhaseOf
<1>3. QED
  BY <1>1, <1>2

(* Nothing goes back to where nothing is recorded yet. *)
LEMMA UnfiledBack ==
    ASSUME TypeInv, [Next]_vars, NEW t \in Threads, ~Unfiled(t)
    PROVE  ~Unfiled(t)'
<1>1. SUFFICES ASSUME Unfiled(t)' PROVE FALSE
  OBVIOUS
<1>2. pc'[t] # pc[t]
  BY <1>1 DEF Unfiled, Opening
<1>3. BackgroundThread(t)
  BY <1>2, OwnMove DEF Unfiled
<1>4. \A to : GoTo(t, to) => to = pc'[t]
  BY Moves, Places
<1>5. QED
  BY <1>1, <1>2, <1>3, <1>4, Places DEF BackgroundThread, SessionThread, PostCapturing, LaunchCsiutil,
       JobsOutput, TestSocket, NewSocket, AssignSocket, CreateFileCloses, CreateFileOpens,
       ReadSocketField, ReceiveThrows, Receive, WriteText, StopThread, KillJob, KillOutput,
       Cleanup, CheckNull, CheckClosed, CloseTheSocket, SetNull, Crash, CloseFile, PostIdle, OnlyPc,
       AfterCleanup, At, Unfiled, Opening

Phases == [t \in Threads |-> PhaseOf(t)]

LEMMA PhaseBecomes ==
    ASSUME NEW t \in Threads, NEW to, PhaseOf(t)' = to,
           \A x \in Threads \ {t} : PhaseOf(x)' = PhaseOf(x)
    PROVE  Phases' = [Phases EXCEPT ![t] = to]
BY DEF Phases

(* A line is written to the session's own file, the next one it has.       *)
LEMMA WritesLine ==
    ASSUME Orderly, Capturing, [Next]_vars, NEW t \in Threads, WriteText(t), file' # file
    PROVE  Files!WriteLine(t)
<1>1. /\ TypeInv /\ OwnField /\ Holding /\ Data /\ t \in Agents
      /\ pc[t] = "write" /\ inst[t] = view /\ bw[view] = t
  BY Places DEF Capturing, Base, TypeInv, Sessions, OwnField, RecordPc, Writers, OneView, Over,
                WriteText, At
<1>2. /\ t \in openWriters /\ openWriters' = openWriters /\ GoTo(t, "loop")
      /\ file' = [file EXCEPT ![t] = Append(@, [by |-> t, packet |-> packet[t]])]
  BY <1>1 DEF WriteText
<1>3. packet[t] = [src |-> t, n |-> Len(file[t]) + 1] /\ packet[t] \in Datagram
  BY <1>1 DEF Data, InHand, Writes, Holding
<1>4. Len(file[t]) < PacketCount
  <2>1. packet[t].n \in 0..PacketCount /\ packet[t].n = Len(file[t]) + 1
    BY <1>3 DEF Datagram
  <2>2. Len(file[t]) \in Nat
    BY <1>1, GotIs
  <2>3. QED
    BY <2>1, <2>2, LoopbackAssumption
<1>5. pc'[t] = "loop" /\ \A x \in Threads \ {t} : pc'[x] = pc[x]
  BY <1>1, <1>2, Moves, Places
<1>6. \A x \in Threads : PhaseOf(x)' = PhaseOf(x)
  <2>1. \A x \in Threads : (Unfiled(x)' <=> Unfiled(x)) /\ (pc'[x] = "done" <=> pc[x] = "done")
    BY <1>1, <1>5 DEF Unfiled, Opening
  <2>2. QED
    BY <1>2, <2>1, PhaseStays
<1>7. Phases' = Phases /\ Phases[t] = "open"
  BY <1>2, <1>6 DEF Phases, PhaseOf
<1>8. file' = [file EXCEPT ![t] = Append(@, Files!Entry(t, Len(@) + 1))]
  BY <1>2, <1>3 DEF Files!Entry
<1>9. QED
  BY <1>4, <1>7, <1>8 DEF Files!WriteLine, Phases

(* A file is opened when no other one is open.                             *)
LEMMA OpensFile ==
    ASSUME Orderly, Capturing, [Next]_vars, NEW t \in Threads, CreateFileOpens(t)
    PROVE  Files!OpenFile(t)
<1>1. TypeInv /\ openWriters = {} /\ t \in Agents /\ pc[t] = "openNew"
  BY Places DEF Capturing, Base, Writers, NoWriterYet, BeforeWriter, CreateFileOpens, At
<1>2. openWriters' = {t} /\ GoTo(t, "loop") /\ file' = file
  BY <1>1 DEF CreateFileOpens, Orderly
<1>3. \A x \in Threads \ {t} : pc'[x] = pc[x]
  BY <1>1, <1>2, Moves, Places
<1>4. \A x \in Threads \ {t} : PhaseOf(x)' = PhaseOf(x)
  <2>1. \A x \in Threads \ {t} : (Unfiled(x)' <=> Unfiled(x)) /\ (pc'[x] = "done" <=> pc[x] = "done")
    BY <1>3 DEF Unfiled, Opening
  <2>2. QED
    BY <1>1, <1>2, <2>1, PhaseStays
<1>5. PhaseOf(t)' = "open" /\ PhaseOf(t) = "new"
  BY <1>1, <1>2 DEF PhaseOf, Unfiled, Opening
<1>6. Phases' = [Phases EXCEPT ![t] = "open"] /\ Phases[t] = "new"
  BY <1>4, <1>5, PhaseBecomes DEF Phases
<1>7. \A p \in Threads : Phases[p] # "open"
  BY <1>1, PhaseFound DEF Phases
<1>8. QED
  BY <1>2, <1>6, <1>7 DEF Files!OpenFile, Files!Become, Files!NoneOpen, Phases

(* Whoever closes the open file: it is complete, or a stop is going on.    *)
LEMMA ClosesFile ==
    ASSUME Orderly, Capturing, Stops, [Next]_vars, NEW t \in Threads, CloseFile(t),
           openWriters' # openWriters
    PROVE  \E w \in Threads : Files!CloseFile(w)
<1>1. /\ TypeInv /\ Writers /\ LaunchedOnce /\ Idle /\ Commands /\ t \in Agents
      /\ Launched /\ Escorted /\ ClosesWhole
  BY Places DEF Capturing, Base, Stops
<1>2. PICK w : w \in openWriters
  BY DEF CloseFile, CloseWriterOf
<1>3. /\ w \in Threads /\ pc[w] \in HasWriter /\ pc[w] \notin Over /\ inst[w] = view
      /\ bw[view] = w /\ openWriters = {w}
  BY <1>1, <1>2, OpenFound
<1>4. pc[t] = "closeFile" /\ inst[t] = view
  BY <1>1 DEF CloseFile, At, Writers, OneView, Over
<1>5. openWriters' = {} /\ file' = file /\ GoTo(t, "postIdle")
  BY <1>3, <1>4 DEF CloseFile, CloseWriterOf
<1>6. pc'[t] = "postIdle" /\ \A x \in Threads \ {t} : pc'[x] = pc[x]
  BY <1>1, <1>5, Moves, Places
<1>7. \A x \in Threads : (Unfiled(x)' <=> Unfiled(x)) /\ (pc'[x] = "done" <=> pc[x] = "done")
  BY <1>4, <1>6 DEF Unfiled, Opening
<1>8. \A x \in Threads \ {w} : PhaseOf(x)' = PhaseOf(x)
  BY <1>3, <1>5, <1>7, PhaseStays
<1>9. PhaseOf(w)' = "over"
  <2>1. ~Stopper(w) /\ pc[w] \notin Early
    BY <1>1, <1>2, <1>3 DEF Launched, HasWriter, RecordPc, CleanupPc, Early
  <2>2. ~Stopper(w)'
    BY <1>1, <1>3, <2>1, StopperBack
  <2>3. ~Unfiled(w)'
    BY <1>3, <1>7 DEF Unfiled, Opening, HasWriter, RecordPc, CleanupPc
  <2>4. QED
    BY <1>5, <2>2, <2>3 DEF PhaseOf
<1>10. Phases' = [Phases EXCEPT ![w] = "over"] /\ Phases[w] = "open"
  BY <1>3, <1>8, <1>9, PhaseBecomes DEF Phases, PhaseOf
<1>11. Len(file[w]) = PacketCount \/ StopGoesOn
  <2>1. CASE t = w
    BY <1>1, <1>2, <1>4, <2>1 DEF ClosesWhole
  <2>2. CASE t # w
    BY <1>1, <1>2, <1>4, <2>2 DEF Escorted, StopGoesOn, Over
  <2>3. QED
    BY <2>1, <2>2
<1>12. Len(file[w]) = PacketCount \/ \E p \in Threads : Phases[p] = "stop"
  BY <1>1, <1>11, PhaseFound DEF Phases
<1>13. QED
  BY <1>3, <1>5, <1>10, <1>12 DEF Files!CloseFile, Files!Become, Files!StopGoesOn, Phases

(* A press that records nothing is a stop from then on. *)
LEMMA StartsStop ==
    ASSUME Orderly, Capturing, [Next]_vars, NEW t \in Threads, Unfiled(t), ~Unfiled(t)',
           openWriters' = openWriters
    PROVE  Files!Stop(t)
<1>1. TypeInv /\ Base /\ OwnField /\ Writers /\ t \in Agents
  BY Places DEF Capturing, Base, Sessions
<1>2. t \notin openWriters
  BY <1>1 DEF Writers, WriterOwned, Unfiled, Opening, HasWriter, RecordPc, CleanupPc
<1>3. ~CreateFileOpens(t) \/ pc'[t] # "loop"
  BY <1>1, <1>2, Moves DEF CreateFileOpens
<1>4. Stopper(t)' /\ pc'[t] \in {"kill", "checkNull"} /\ pc'[t] # pc[t] /\ file' = file
  BY <1>1, <1>3, OpensOn
<1>5. \A x \in Threads \ {t} : pc'[x] = pc[x]
  BY <1>1, <1>4, OwnMove
<1>6. \A x \in Threads \ {t} : PhaseOf(x)' = PhaseOf(x)
  <2>1. \A x \in Threads \ {t} : (Unfiled(x)' <=> Unfiled(x)) /\ (pc'[x] = "done" <=> pc[x] = "done")
    BY <1>5 DEF Unfiled, Opening
  <2>2. QED
    BY <2>1, PhaseStays
<1>7. PhaseOf(t) = "new" /\ PhaseOf(t)' = "stop"
  BY <1>2, <1>4 DEF PhaseOf
<1>8. Phases' = [Phases EXCEPT ![t] = "stop"] /\ Phases[t] = "new"
  BY <1>6, <1>7, PhaseBecomes DEF Phases
<1>9. QED
  BY <1>4, <1>8 DEF Files!Stop, Files!Become, Phases

(* The last step of a thread leaves no file open; if it was a stop, the    *)
(* stop is over.                                                           *)
LEMMA EndsStop ==
    ASSUME Orderly, Capturing, Stops, [Next]_vars, NEW t \in Threads, pc[t] # "done",
           pc'[t] = "done"
    PROVE  Files!StopOver(t) \/ UNCHANGED <<Phases, file>>
<1>1. TypeInv /\ ClosedFirst /\ t \in Agents
  BY Places DEF Capturing, Base, Stops
<1>2. BackgroundThread(t)
  BY <1>1, OwnMove
<1>3. \A to : GoTo(t, to) => to = "done"
  BY <1>1, Moves
<1>4. PostIdle(t)
  BY <1>2, <1>3, Places DEF BackgroundThread, SessionThread, PostCapturing, LaunchCsiutil,
     JobsOutput, TestSocket, NewSocket, AssignSocket, CreateFileCloses, CreateFileOpens,
     ReadSocketField, ReceiveThrows, Receive, WriteText, StopThread, KillJob, KillOutput, Cleanup,
     CheckNull, CheckClosed, CloseTheSocket, SetNull, Crash, CloseFile, OnlyPc, AfterCleanup
<1>5. /\ pc[t] = "postIdle" /\ openWriters = {} /\ openWriters' = {} /\ file' = file
      /\ \A x \in Threads \ {t} : pc'[x] = pc[x]
  BY <1>1, <1>4, Moves, Places DEF PostIdle, At, ClosedFirst, fileVars
<1>6. \A x \in Threads \ {t} : PhaseOf(x)' = PhaseOf(x)
  <2>1. \A x \in Threads \ {t} : (Unfiled(x)' <=> Unfiled(x)) /\ (pc'[x] = "done" <=> pc[x] = "done")
    BY <1>5 DEF Unfiled, Opening
  <2>2. QED
    BY <1>5, <2>1, PhaseStays
<1>7. PhaseOf(t) = (IF Stopper(t) THEN "stop" ELSE "over") /\ PhaseOf(t)' = "over"
  BY <1>5 DEF PhaseOf, Unfiled, Opening
<1>8. \A p \in Threads : Phases[p] # "open"
  BY <1>5, PhaseFound DEF Phases
<1>9. CASE Stopper(t)
  <2>1. Phases' = [Phases EXCEPT ![t] = "over"] /\ Phases[t] = "stop"
    BY <1>6, <1>7, <1>9, PhaseBecomes DEF Phases
  <2>2. QED
    BY <1>5, <1>8, <2>1 DEF Files!StopOver, Files!Become, Files!NoneOpen, Phases
<1>10. CASE ~Stopper(t)
  <2>1. \A x \in Threads : PhaseOf(x)' = PhaseOf(x)
    BY <1>6, <1>7, <1>10
  <2>2. QED
    BY <1>5, <2>1 DEF Phases
<1>11. QED
  BY <1>9, <1>10

(* Only writeText changes a file. *)
LEMMA FileChange ==
    ASSUME [Next]_vars, file' # file
    PROVE  \E t \in Threads : WriteText(t)
<1>1. ASSUME MainThread PROVE FALSE
  BY <1>1 DEF MainThread, User, DispatchPosted, OnCreateView, OnDestroyView, OpenRoot,
              ClickStartStop, Pressed, RestartNic, EditNumbers, ClickThrows, Cleanup, CheckNull,
              CheckClosed, CloseTheSocket, SetNull, Crash, OnlyPc, fileVars, fragmentVars
<1>2. ASSUME NEW t \in Threads, BackgroundThread(t) PROVE WriteText(t)
  BY <1>2 DEF BackgroundThread, SessionThread, PostCapturing, LaunchCsiutil, JobsOutput,
     TestSocket, NewSocket, AssignSocket, CreateFileCloses, CreateFileOpens, ReadSocketField,
     ReceiveThrows, Receive, StopThread, KillJob, KillOutput, Cleanup, CheckNull,
     CheckClosed, CloseTheSocket, SetNull, Crash, CloseFile, PostIdle, OnlyPc, fileVars
<1>3. QED
  BY <1>1, <1>2 DEF Next, vars, ShellProcess, CsiutilRuns, FrameArrives, fragmentVars, fileVars

LEMMA FilesInit == Init => Files!Init
<1> SUFFICES ASSUME Init PROVE Files!Init
  OBVIOUS
<1>1. openWriters = {} /\ \A t \in Threads : pc[t] = "unborn"
  BY FragmentAssumption DEF Init, Agents
<1>2. \A t \in Threads : PhaseOf(t) = "new"
  BY <1>1 DEF PhaseOf, Unfiled
<1>3. file = [t \in Threads |-> << >>]
  BY DEF Init
<1>4. QED
  BY <1>2, <1>3 DEF Files!Init

(* Every step is one of CaptureFiles, or none of its concern.              *)
LEMMA FilesStep ==
    ASSUME Orderly, Capturing, Stops, [Next]_vars
    PROVE  [Files!Next]_(Files!vars)
<1>1. TypeInv /\ Writers
  BY DEF Capturing, Base
<1>2. CASE file' # file
  <2>1. PICK t \in Threads : WriteText(t)
    BY <1>2, FileChange
  <2>2. QED
    BY <1>2, <2>1, WritesLine DEF Files!Next
<1>3. CASE openWriters' # openWriters
  <2>1. PICK t \in Threads : CreateFileOpens(t) \/ CreateFileCloses(t) \/ CloseFile(t)
    BY <1>3, WritersChange
  <2>2. CASE CreateFileOpens(t)
    BY <2>2, OpensFile DEF Files!Next
  <2>3. CASE CreateFileCloses(t)
    BY <1>1, <1>3, <2>3 DEF CreateFileCloses, CloseWriterOf, At, Writers, NoWriterYet, BeforeWriter
  <2>4. CASE CloseFile(t)
    BY <1>3, <2>4, ClosesFile DEF Files!Next
  <2>5. QED
    BY <2>1, <2>2, <2>3, <2>4
<1>4. CASE file' = file /\ openWriters' = openWriters
  <2>1. CASE \E t \in Threads : ~(Unfiled(t)' <=> Unfiled(t))
    <3>1. PICK t \in Threads : Unfiled(t) /\ ~Unfiled(t)'
      BY <1>1, <2>1, UnfiledBack
    <3>2. QED
      BY <1>4, <3>1, StartsStop DEF Files!Next
  <2>2. CASE \E t \in Threads : ~(pc'[t] = "done" <=> pc[t] = "done")
    <3>1. PICK t \in Threads : ~(pc'[t] = "done" <=> pc[t] = "done")
      BY <2>2
    <3>2. pc[t] # "done" /\ pc'[t] = "done"
      BY <1>1, <3>1, OwnMove DEF Over
    <3>3. Files!StopOver(t) \/ UNCHANGED <<Phases, file>>
      BY <3>2, EndsStop
    <3>4. QED
      BY <3>3 DEF Files!Next, Files!vars, Phases
  <2>3. CASE \A t \in Threads : (Unfiled(t)' <=> Unfiled(t)) /\ (pc'[t] = "done" <=> pc[t] = "done")
    <3>1. \A t \in Threads : PhaseOf(t)' = PhaseOf(t)
      BY <1>4, <2>3, PhaseStays
    <3>2. QED
      BY <1>4, <3>1 DEF Files!vars
  <2>4. QED
    BY <2>1, <2>2, <2>3
<1>5. QED
  BY <1>2, <1>3, <1>4

(* With a user who waits, and nobody who restarts the interface: the two   *)
(* screens write one file at a time, with the packets of its own csiutil   *)
(* in order, close it incomplete only while a stop is being carried out,   *)
(* and end no stop before the file is closed (CaptureFragment:205-279,     *)
(* FileHandler:94-155, csiutil.c:183-230).                                 *)
THEOREM PatientKeepsFiles ==
    ASSUME Steady, Roomy PROVE Spec => KeepsFiles
<1>1. Orderly
  BY DEF Steady, Orderly
<1>2. Init => Capturing /\ Complete /\ Stops
  BY InitCapturing, InitComplete, InitStops
<1>3. Capturing /\ Complete /\ Stops /\ [Next]_vars => (Capturing /\ Complete /\ Stops)'
  <2> SUFFICES ASSUME Capturing, Complete, Stops, [Next]_vars
               PROVE  Capturing' /\ Complete' /\ Stops'
    OBVIOUS
  <2>1. Capturing'
    BY <1>1, NextCapturing
  <2>2. Complete'
    BY <1>1, NextRestart, NextStop, NextFinished DEF Complete, Capturing
  <2>3. Stops'
    BY <1>1, <2>1, NextStops DEF Complete
  <2>4. QED
    BY <2>1, <2>2, <2>3
<1>4. Capturing /\ Stops /\ [Next]_vars => [Files!Next]_(Files!vars)
  BY <1>1, FilesStep
<1>5. QED
  BY <1>2, <1>3, <1>4, FilesInit, PTL DEF Spec, KeepsFiles, Files!Spec
=============================================================================
