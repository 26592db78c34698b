-------------------------- MODULE MonitorFragments --------------------------
(***************************************************************************)
(* CaptureFragment and CsiFragment: what the main thread and the anonymous *)
(* background threads of the two monitoring screens do to the shared       *)
(* fields bp, socket and fileHandler and to the LiveData mState, together  *)
(* with the root shell, csiutil and the loopback port.                     *)
(*                                                                         *)
(* The two classes run the same protocol; where they differ (what a        *)
(* session starts, what a malformed packet does, which instance a visit    *)
(* uses) the action says so.  Two threads of one fragment interleave at    *)
(* every read and write of a shared field.                                 *)
(***************************************************************************)
EXTENDS RootShell, FiniteSets

CONSTANTS
    Instances,    \* fragment objects
    Kind,         \* Kind[i]: "capture" or "csi"
    Main,         \* the main (UI) thread
    Env           \* what user and environment may do beyond the ordinary

(* impatient   clicks without waiting for the effect of the last click     *)
(* untimely    a sleep is too short for what it waits for                  *)
(* leaves      the user leaves the screen while a thread is at work        *)
(* menu        the user picks "reload firmware" or "restart nic"           *)
(* noSu        the root shell is refused or dies                           *)
(* noPcap      csiutil cannot open the device or install the filter        *)
(* noMedia     the external storage is not mounted                         *)
(* malformed   a packet, or the CSI configuration, does not parse          *)
(* short       csiutil captures a packet it cannot send on                 *)
(* numbers     the user edits the number fields                            *)
Liberties == {"impatient", "untimely", "leaves", "menu", "noSu", "noPcap",
              "noMedia", "malformed", "short", "numbers"}

ASSUME FragmentAssumption ==
    /\ Kind \in [Instances -> {"capture", "csi"}]
    /\ NONE \notin Instances \cup {"idle", "capturing"}
    /\ Main \notin Threads
    /\ Env \subseteq Liberties

VARIABLES
    view,         \* the instance whose view exists
    used,         \* the instances that have had a view
    bp,           \* field bp of each instance
    socket,       \* field socket: the thread that created it, or NONE
    bw,           \* field bw of the instance's FileHandler: a writer, or NONE
    openWriters,  \* the BufferedWriters not closed; named by their creator
    mState,       \* the value of the LiveData mState
    pending,      \* the value postValue has queued for the main looper
    pc,           \* where each thread is
    inst,         \* the fragment a thread belongs to
    ref,          \* the socket a receive loop has read from the field
    packet,       \* the datagram it has received
    file,         \* file[w]: the lines written through writer w
    numbers,      \* what the number fields of each instance hold
    appUp         \* no thread has died of an uncaught exception

fieldVars == <<bp, socket, bw>>
uiVars == <<view, used, mState, pending>>
localVars == <<inst, ref, packet>>
fileVars == <<openWriters, file>>
fragmentVars == <<fieldVars, uiVars, localVars, fileVars, pc, numbers, appUp>>
vars == <<loopbackVars, rootVars, fragmentVars>>

Agents == Threads \cup {Main}

UiState == {"idle", "capturing"}

(* Numbers the handlers can use; a field (of CSI there are four) that is   *)
(* empty or above an int; or a count for whose points there is no array,   *)
(* because twice the count overflows an int or the heap.                   *)
NumberText == {"usable", "unparsed", "huge"}

(* A line of a capture file: the thread that wrote it and the datagram. *)
Line == [by : Threads, packet : Datagram]

CleanupPc == {"checkNull", "checkClosed", "close", "setNull"}

ThreadPc == {"unborn", "post", "launch", "jobs", "testNull", "testClosed", "bind",
             "assign", "closeOld", "openNew", "loop", "receive", "write",
             "kill", "killOut", "closeFile", "postIdle", "done"} \cup CleanupPc

FragmentTypeOK ==
    /\ view \in Instances \cup {NONE}
    /\ used \subseteq Instances
    /\ bp \in [Instances -> Shells \cup {NONE}]
    /\ socket \in [Instances -> Threads \cup {NONE}]
    /\ bw \in [Instances -> Threads \cup {NONE}]
    /\ openWriters \subseteq Threads
    /\ mState \in [Instances -> UiState]
    /\ pending \in [Instances -> UiState \cup {NONE}]
    /\ pc \in [Agents -> ThreadPc \cup {"looper"}]
    /\ inst \in [Agents -> Instances \cup {NONE}]
    /\ ref \in [Threads -> Threads \cup {NONE}]
    /\ packet \in [Threads -> Datagram \cup {NONE}]
    /\ file \in [Threads -> Seq(Line)]
    /\ numbers \in [Instances -> NumberText]
    /\ appUp \in BOOLEAN

(* The types of all variables. *)
TypeOK == LoopbackTypeOK /\ RootTypeOK /\ FragmentTypeOK

Init ==
    /\ LoopbackInit
    /\ RootInit
    /\ view = NONE
    /\ used = {}
    /\ bp = [i \in Instances |-> NONE]
    /\ socket = [i \in Instances |-> NONE]
    /\ bw = [i \in Instances |-> NONE]
    /\ openWriters = {}
    /\ mState = [i \in Instances |-> "idle"]
    /\ pending = [i \in Instances |-> NONE]
    /\ pc = [a \in Agents |-> IF a = Main THEN "looper" ELSE "unborn"]
    /\ inst = [a \in Agents |-> NONE]
    /\ ref = [t \in Threads |-> NONE]
    /\ packet = [t \in Threads |-> NONE]
    /\ file = [t \in Threads |-> << >>]
    /\ numbers = [i \in Instances |-> "usable"]
    /\ appUp = TRUE

-----------------------------------------------------------------------------
(* The steps every thread is made of *)

At(a, from) == appUp /\ pc[a] = from

GoTo(a, to) == pc' = [pc EXCEPT ![a] = to]

(* A step that reads and branches: only the place of a thread changes. *)
OnlyPc == UNCHANGED <<loopbackVars, rootVars, fieldVars, uiVars, localVars,
                      fileVars, numbers, appUp>>

(* postValue replaces a value the main looper has not dispatched yet. *)
PostValue(i, v) == pending' = [pending EXCEPT ![i] = v]

Active(i) == {t \in Threads : inst[t] = i /\ pc[t] \notin {"unborn", "done"}}

(* A session between its launch of csiutil and its first receive. *)
Opening(t) == pc[t] \in {"launch", "jobs", "testNull", "testClosed", "bind",
                         "assign", "closeOld", "openNew"}

(* An exception nobody catches ends the app; the model ends with it. *)
Crash ==
    /\ appUp' = FALSE
    /\ UNCHANGED <<loopbackVars, rootVars, fieldVars, uiVars, localVars, fileVars,
                   pc, numbers>>

-----------------------------------------------------------------------------
(* The session thread: what the start button starts *)

PostCapturing(t) ==
    /\ At(t, "post") /\ GoTo(t, "launch")
    /\ PostValue(inst[t], "capturing")
    /\ UNCHANGED <<loopbackVars, rootVars, fieldVars, view, used, mState,
                   localVars, fileVars, numbers, appUp>>

(* Mutant of LaunchCsiutil: the catch block returns. *)
LaunchReturnsOnError(t) ==
    /\ At(t, "launch")
    /\ UNCHANGED <<loopbackVars, fieldVars, uiVars, localVars,
                   fileVars, numbers, appUp>>
    /\ \/ Input(bp[inst[t]], LaunchCmd(t)) /\ GoTo(t, "jobs")
       \/ shell[bp[inst[t]]] # "up" /\ GoTo(t, "done") /\ UNCHANGED rootVars

(* A CSI session first packs its parameters, which throws for more source  *)
(* addresses than fit.                                                     *)
ConfThrows(t) == Kind[inst[t]] = "csi" /\ "malformed" \in Env

(* A CSI packet whose status is not 0 has no csi array and its toString    *)
(* throws; a broken radiotap packet is recorded as a line with status 1.   *)
PacketThrows(t) == Kind[inst[t]] = "csi" /\ "malformed" \in Env

(* bp.input(cmd) with the csiutil command line. *)
LaunchCsiutil(t) ==
    /\ At(t, "launch")
    /\ UNCHANGED <<loopbackVars, fieldVars, uiVars, localVars,
                   fileVars, numbers, appUp>>
    /\ \/ Input(bp[inst[t]], LaunchCmd(t)) /\ GoTo(t, "jobs")
       \/ /\ shell[bp[inst[t]]] # "up" \/ ConfThrows(t)
          /\ GoTo(t, "checkNull") /\ UNCHANGED rootVars

(* `jobs -l`, then getOutput(100): 100 ms are enough for the shell to have *)
(* executed its commands unless Env says otherwise.                        *)
ShellCaughtUp(s) == "untimely" \in Env \/ stdin[s] = << >> \/ shell[s] # "up"

JobsOutput(t) ==
    LET s == bp[inst[t]]
    IN  /\ At(t, "jobs")
        /\ ShellCaughtUp(s)
        /\ \/ shell[s] \in {"up", "dead"} /\ GoTo(t, "testNull")
           \/ shell[s] # "up" /\ GoTo(t, "checkNull")
        /\ OnlyPc

(* `socket==null || socket.isClosed()` reads the field twice; a null at    *)
(* the second read throws inside the try block.                            *)
TestSocket(t) ==
    LET s == socket[inst[t]]
    IN  /\ \/ At(t, "testNull") /\ GoTo(t, IF s = NONE THEN "bind" ELSE "testClosed")
           \/ /\ At(t, "testClosed")
              /\ GoTo(t, IF s = NONE THEN "checkNull"
                         ELSE IF s \in openSockets THEN "closeOld" ELSE "bind")
        /\ OnlyPc

(* The constructor binds, then the field is assigned. *)
NewSocket(t) ==
    /\ At(t, "bind")
    /\ IF PortFree THEN BindSocket(t) /\ GoTo(t, "assign")
                   ELSE UNCHANGED loopbackVars /\ GoTo(t, "checkNull")
    /\ UNCHANGED <<rootVars, fieldVars, uiVars, localVars,
                   fileVars, numbers, appUp>>

AssignSocket(t) ==
    /\ At(t, "assign") /\ GoTo(t, "closeOld")
    /\ socket' = [socket EXCEPT ![inst[t]] = t]
    /\ UNCHANGED <<loopbackVars, rootVars, bp, bw, uiVars, localVars,
                   fileVars, numbers, appUp>>

(* FileHandler.closeFile keeps the field; closing again does nothing. *)
CloseWriterOf(i) == openWriters' = openWriters \ {bw[i]}

(* FileHandler.createFile: close the writer of the previous session, ... *)
CreateFileCloses(t) ==
    /\ At(t, "closeOld") /\ GoTo(t, "openNew")
    /\ CloseWriterOf(inst[t])
    /\ UNCHANGED <<loopbackVars, rootVars, fieldVars, uiVars, localVars,
                   file, numbers, appUp>>

(* ... then open a new one, unless the storage is not there. *)
CreateFileOpens(t) ==
    /\ At(t, "openNew")
    /\ \/ /\ GoTo(t, "loop")
          /\ bw' = [bw EXCEPT ![inst[t]] = t]
          /\ openWriters' = openWriters \cup {t}
       \/ /\ "noMedia" \in Env
          /\ GoTo(t, "checkNull")
          /\ UNCHANGED <<bw, openWriters>>
    /\ UNCHANGED <<loopbackVars, rootVars, bp, socket, uiVars, localVars,
                   file, numbers, appUp>>

(* socket.receive(response) takes the socket from the field and waits on   *)
(* that object, whatever happens to the field.                             *)
ReadSocketField(t) ==
    /\ At(t, "loop")
    /\ IF socket[inst[t]] = NONE
       THEN GoTo(t, "checkNull") /\ UNCHANGED ref
       ELSE GoTo(t, "receive") /\ ref' = [ref EXCEPT ![t] = socket[inst[t]]]
    /\ UNCHANGED <<loopbackVars, rootVars, fieldVars, uiVars, inst, packet,
                   fileVars, numbers, appUp>>

ReceiveThrows(t) ==
    /\ At(t, "receive") /\ GoTo(t, "checkNull")
    /\ ref[t] \notin openSockets
    /\ ref' = [ref EXCEPT ![t] = NONE]
    /\ UNCHANGED <<loopbackVars, rootVars, fieldVars, uiVars, inst, packet,
                   fileVars, numbers, appUp>>

(* 0xc5 ends the loop; anything else is decoded and recorded. *)
Receive(t) ==
    /\ At(t, "receive")
    /\ ref[t] \in openSockets
    /\ TakeDatagram(ref[t])
    /\ LET d == Head(rxQueue[ref[t]])
       IN  \/ /\ ~IsStop(d)
              /\ GoTo(t, "write")
              /\ packet' = [packet EXCEPT ![t] = d]
           \/ /\ IsStop(d) \/ PacketThrows(t)
              /\ GoTo(t, "checkNull")
              /\ UNCHANGED packet
    /\ ref' = [ref EXCEPT ![t] = NONE]
    /\ UNCHANGED <<rootVars, fieldVars, uiVars, inst, fileVars, numbers, appUp>>

(* Mutant of WriteText: a line is written again when it was not flushed. *)
WriteTextAgain(t) ==
    LET w == bw[inst[t]]
    IN  /\ At(t, "write")
        /\ IF w \in openWriters
           THEN \/ GoTo(t, "loop") /\ packet' = [packet EXCEPT ![t] = NONE]
                \/ UNCHANGED <<pc, packet>>
           ELSE GoTo(t, "checkNull") /\ packet' = [packet EXCEPT ![t] = NONE]
        /\ file' = IF w \in openWriters
                   THEN [file EXCEPT ![w] =
                            Append(@, [by |-> t, packet |-> packet[t]])]
                   ELSE file
        /\ UNCHANGED <<loopbackVars, rootVars, fieldVars, uiVars, inst, ref,
                       openWriters, numbers, appUp>>

(* FileHandler.writeText: the field may be null or another session's       *)
(* writer by now; null and a closed writer both throw.                     *)
WriteText(t) ==
    LET w == bw[inst[t]]
    IN  /\ At(t, "write")
        /\ IF w \in openWriters
           THEN /\ GoTo(t, "loop")
                /\ file' = [file EXCEPT ![w] =
                              Append(@, [by |-> t, packet |-> packet[t]])]
           ELSE GoTo(t, "checkNull") /\ UNCHANGED file
        /\ packet' = [packet EXCEPT ![t] = NONE]
        /\ UNCHANGED <<loopbackVars, rootVars, fieldVars, uiVars, inst, ref,
                       openWriters, numbers, appUp>>

-----------------------------------------------------------------------------
(* The cleanup `if (socket != null) { if (!socket.isClosed()) {...} ... }` *)
(* of sessions, stop threads and onDestroyView.  Each of the four accesses *)
(* reads or writes the field on its own; a field that turned null in       *)
(* between throws where nothing catches NullPointerException.              *)

AfterCleanup(a) == IF a = Main THEN "looper" ELSE "closeFile"

(* Mutant of CheckNull: the null test is missing. *)
CheckNullMissing(a) ==
    /\ At(a, "checkNull") /\ GoTo(a, "checkClosed")
    /\ OnlyPc

CheckNull(a) ==
    /\ At(a, "checkNull")
    /\ GoTo(a, IF socket[inst[a]] = NONE THEN AfterCleanup(a) ELSE "checkClosed")
    /\ OnlyPc

(* Mutant of CheckClosed: the test is the wrong way round. *)
CheckClosedInverted(a) ==
    LET s == socket[inst[a]]
    IN  /\ At(a, "checkClosed")
        /\ IF s = NONE
           THEN Crash
           ELSE /\ GoTo(a, IF s \in openSockets THEN "setNull" ELSE "close")
                /\ OnlyPc

CheckClosed(a) ==
    LET s == socket[inst[a]]
    IN  /\ At(a, "checkClosed")
        /\ IF s = NONE
           THEN Crash
           ELSE /\ GoTo(a, IF s \in openSockets THEN "close" ELSE "setNull")
                /\ OnlyPc

CloseTheSocket(a) ==
    LET s == socket[inst[a]]
    IN  /\ At(a, "close")
        /\ IF s = NONE
           THEN Crash
           ELSE /\ CloseSocket(s)
                /\ GoTo(a, "setNull")
                /\ UNCHANGED <<rootVars, fieldVars, uiVars, localVars,
                               fileVars, numbers, appUp>>

SetNull(a) ==
    /\ At(a, "setNull") /\ GoTo(a, AfterCleanup(a))
    /\ socket' = [socket EXCEPT ![inst[a]] = NONE]
    /\ UNCHANGED <<loopbackVars, rootVars, bp, bw, uiVars, localVars,
                   fileVars, numbers, appUp>>

(* Mutants of CloseFile: the thread ends without posting idle; the writer  *)
(* stays open.                                                             *)
CloseFileIsLast(t) ==
    /\ At(t, "closeFile") /\ GoTo(t, "done")
    /\ CloseWriterOf(inst[t])
    /\ UNCHANGED <<loopbackVars, rootVars, fieldVars, uiVars, localVars,
                   file, numbers, appUp>>

CloseFileForgotten(t) ==
    /\ At(t, "closeFile") /\ GoTo(t, "postIdle")
    /\ OnlyPc

CloseFile(t) ==
    /\ At(t, "closeFile") /\ GoTo(t, "postIdle")
    /\ CloseWriterOf(inst[t])
    /\ UNCHANGED <<loopbackVars, rootVars, fieldVars, uiVars, localVars,
                   file, numbers, appUp>>

PostIdle(t) ==
    /\ At(t, "postIdle") /\ GoTo(t, "done")
    /\ PostValue(inst[t], "idle")
    /\ UNCHANGED <<loopbackVars, rootVars, fieldVars, view, used, mState,
                   localVars, fileVars, numbers, appUp>>

-----------------------------------------------------------------------------
(* The stop thread: what the button starts while mState is not idle.  An   *)
(* IOException skips the cleanup but not the postValue.                    *)

(* Mutant of KillJob: kill is written to the log only. *)
KillJobForgets(t) ==
    /\ At(t, "kill") /\ GoTo(t, "killOut")
    /\ UNCHANGED <<loopbackVars, rootVars, fieldVars, uiVars, localVars,
                   fileVars, numbers, appUp>>

KillJob(t) ==
    LET s == bp[inst[t]]
    IN  /\ At(t, "kill")
        /\ \/ Input(s, KillCmd) /\ GoTo(t, "killOut")
           \/ shell[s] # "up" /\ GoTo(t, "postIdle") /\ UNCHANGED rootVars
        /\ UNCHANGED <<loopbackVars, fieldVars, uiVars, localVars,
                       fileVars, numbers, appUp>>

(* Mutant of KillOutput: stop relies on kill alone and leaves the socket. *)
KillOutputOnly(t) ==
    LET s == bp[inst[t]]
    IN  /\ At(t, "killOut") /\ GoTo(t, "postIdle")
        /\ ShellCaughtUp(s)
        /\ "untimely" \in Env \/ \A u \in Active(inst[t]) : ~Opening(u)
        /\ OnlyPc

(* getOutput(500): time for the shell, and for a session that waited its   *)
(* 100 ms to have opened its socket and file, unless Env says otherwise.   *)
KillOutput(t) ==
    LET s == bp[inst[t]]
    IN  /\ At(t, "killOut")
        /\ ShellCaughtUp(s)
        /\ "untimely" \in Env \/ \A u \in Active(inst[t]) : ~Opening(u)
        /\ GoTo(t, IF shell[s] = "closed" THEN "postIdle" ELSE "checkNull")
        /\ OnlyPc

-----------------------------------------------------------------------------
(* The main thread *)

OnMain == At(Main, "looper")

(* The looper hands the last posted value to the LiveData. *)
DispatchPosted(i) ==
    /\ OnMain
    /\ pending[i] # NONE
    /\ mState' = [mState EXCEPT ![i] = pending[i]]
    /\ pending' = [pending EXCEPT ![i] = NONE]
    /\ UNCHANGED <<loopbackVars, rootVars, fieldVars, view, used, localVars,
                   fileVars, pc, numbers, appUp>>

(* onCreateView makes a new FileHandler, so the writer of a session that   *)
(* is still running is out of reach.  A visit of the capture screen finds  *)
(* the instance of the last visit (the start of the navigation graph stays *)
(* on the back stack); the CSI screen gets a new instance.                 *)
OnCreateView(i) ==
    /\ OnMain
    /\ view = NONE
    /\ Kind[i] = "csi" => i \notin used
    /\ view' = i
    /\ used' = used \cup {i}
    /\ bw' = [bw EXCEPT ![i] = NONE]
    /\ UNCHANGED <<loopbackVars, rootVars, bp, socket, mState, pending, localVars,
                   fileVars, pc, numbers, appUp>>

(* button_openRoot: the old BashProcess, if any, is dropped, not exited. *)
OpenRoot(i) ==
    /\ OnMain
    /\ view = i
    /\ "impatient" \in Env \/ ~Usable(bp[i])
    /\ \E s \in Shells :
         /\ OpenShell(s)
         /\ bp' = [bp EXCEPT ![i] = s]
    /\ UNCHANGED <<loopbackVars, socket, bw, uiVars, localVars, fileVars,
                   pc, numbers, appUp>>

(* A user who waits: what was posted is on the screen, a session is not    *)
(* started next to another thread, nor stopped before it has written its   *)
(* command lines (which it does right after posting), nor stopped twice.   *)
UserWaited(i) ==
    /\ pending[i] = NONE
    /\ mState[i] = "idle" => Active(i) = {}
    /\ \A t \in Active(i) : pc[t] \notin {"post", "launch"}
    /\ Cardinality(Active(i)) < 2

(* The number fields have an input type that admits digits only.           *)
EditNumbers(i) ==
    /\ OnMain
    /\ view = i
    /\ "numbers" \in Env
    /\ \E text \in NumberText : numbers' = [numbers EXCEPT ![i] = text]
    /\ UNCHANGED <<loopbackVars, rootVars, fieldVars, uiVars, localVars, fileVars,
                   pc, appUp>>

(* button_startCapture, button_startCsi: without a shell only a toast.     *)
Pressed(i) ==
    /\ OnMain
    /\ view = i
    /\ bp[i] # NONE
    /\ "impatient" \in Env \/ UserWaited(i)

(* The fields are parsed on every press, before the state is tested; only  *)
(* a start calls setScale.                                                 *)
NumbersThrow(i) ==
    \/ numbers[i] = "unparsed"
    \/ numbers[i] = "huge" /\ mState[i] = "idle"

(* Nothing on the main thread catches these exceptions.                    *)
ClickThrows(i) == Pressed(i) /\ NumbersThrow(i) /\ Crash

(* The choice between start and stop reads mState, which trails the        *)
(* threads by a dispatch.                                                  *)
ClickStartStop(i) ==
    /\ Pressed(i)
    /\ ~NumbersThrow(i)
    /\ \E t \in Threads :
         /\ pc[t] = "unborn"
         /\ GoTo(t, IF mState[i] = "idle" THEN "post" ELSE "kill")
         /\ inst' = [inst EXCEPT ![t] = i]
    /\ UNCHANGED <<loopbackVars, rootVars, fieldVars, uiVars, ref, packet,
                   fileVars, numbers, appUp>>

(* onDestroyView: exit the shell and clean up, on the main thread.  On a   *)
(* shell that is dead or exited already, exit throws and skips the rest.   *)
OnDestroyView(i) ==
    /\ OnMain
    /\ view = i
    /\ "leaves" \in Env \/ Active(i) = {}
    /\ view' = NONE
    /\ inst' = [inst EXCEPT ![Main] = i]
    /\ IF bp[i] = NONE
       THEN GoTo(Main, "checkNull") /\ UNCHANGED rootVars
       ELSE IF Usable(bp[i])
       THEN GoTo(Main, "checkNull") /\ ExitShell(bp[i])
       ELSE UNCHANGED <<pc, rootVars>>
    /\ UNCHANGED <<loopbackVars, fieldVars, used, mState, pending, ref, packet,
                   fileVars, numbers, appUp>>

(* "restart nic" and "reload firmware" run in a thread of their own and    *)
(* take the interface down and up.  Without a shell that thread shows a    *)
(* toast, which a thread without a looper may not.  At most one such       *)
(* command is waiting in a shell.                                          *)
RestartNic(i) ==
    /\ OnMain
    /\ view = i
    /\ "menu" \in Env
    /\ IF bp[i] = NONE
       THEN Crash
       ELSE /\ IfconfigCmd \notin {stdin[bp[i]][k] : k \in DOMAIN stdin[bp[i]]}
            /\ Input(bp[i], IfconfigCmd)
            /\ UNCHANGED <<loopbackVars, fragmentVars>>

-----------------------------------------------------------------------------
(* The whole *)

SessionThread(t) ==
    \/ PostCapturing(t) \/ LaunchCsiutil(t) \/ JobsOutput(t) \/ TestSocket(t)
    \/ NewSocket(t) \/ AssignSocket(t) \/ CreateFileCloses(t) \/ CreateFileOpens(t)
    \/ ReadSocketField(t) \/ ReceiveThrows(t) \/ Receive(t) \/ WriteText(t)

Cleanup(a) == CheckNull(a) \/ CheckClosed(a) \/ CloseTheSocket(a) \/ SetNull(a)

StopThread(t) == KillJob(t) \/ KillOutput(t)

BackgroundThread(t) ==
    SessionThread(t) \/ StopThread(t) \/ Cleanup(t) \/ CloseFile(t) \/ PostIdle(t)

User(i) ==
    \/ OnCreateView(i) \/ OnDestroyView(i)
    \/ OpenRoot(i) \/ RestartNic(i)
    \/ EditNumbers(i) \/ ClickStartStop(i) \/ ClickThrows(i)

MainThread ==
    \/ Cleanup(Main)
    \/ \E i \in Instances : DispatchPosted(i) \/ User(i)

(* A csiutil that has sent its stop message is gone before the shell gets  *)
(* another command - unless Env says otherwise.                            *)
ShellProcess(s) ==
    /\ \/ /\ "untimely" \in Env \/ \A u \in Threads : utilPc[u] # "close"
          /\ ExecuteCommand(s)
       \/ DropCommands(s)
       \/ "noSu" \in Env /\ ShellDies(s)
    /\ appUp
    /\ UNCHANGED <<loopbackVars, fragmentVars>>

(* The delay of one second (-d1) starts when the shell launches csiutil    *)
(* and is enough for the session to open its socket and file - unless Env  *)
(* says otherwise.                                                         *)
CsiutilRuns(u) ==
    /\ \/ "noPcap" \in Env /\ PcapFails(u)
       \/ /\ "untimely" \in Env \/ ~Opening(u)
          /\ SleepDelay(u)
       \/ CreateUdpSendSocket(u) \/ SendStop(u) \/ CloseSendSocket(u)
    /\ appUp
    /\ UNCHANGED fragmentVars

FrameArrives(u) ==
    /\ \/ GotPacket(u)
       \/ "short" \in Env /\ GotShortPacket(u)
    /\ appUp
    /\ UNCHANGED fragmentVars

Next ==
    \/ MainThread
    \/ \E t \in Threads : BackgroundThread(t) \/ CsiutilRuns(t) \/ FrameArrives(t)
    \/ \E s \in Shells : ShellProcess(s)

Spec == Init /\ [][Next]_vars

(* What the schedulers guarantee: a thread, the shell and a csiutil that   *)
(* can go on eventually do.  Nothing is assumed of the user.               *)
SystemFairness ==
    /\ \A t \in Threads :
         /\ WF_vars(BackgroundThread(t))
         /\ WF_vars(CsiutilRuns(t))
    /\ WF_vars(Cleanup(Main))
    /\ \A i \in Instances : WF_vars(DispatchPosted(i))
    /\ \A s \in Shells : WF_vars(ShellProcess(s))

(* Frames that match the filter keep arriving. *)
Traffic == \A t \in Threads : WF_vars(FrameArrives(t))

FairSpec == Spec /\ SystemFairness

-----------------------------------------------------------------------------
(* Properties *)

(* What mState is once the main looper has caught up. *)
Shown(i) == IF pending[i] = NONE THEN mState[i] ELSE pending[i]

Quiet == \A i \in Instances : Active(i) = {}

Lines == {l \in Threads \X (1..Cardinality(Threads) * PacketCount) :
            l[2] \in DOMAIN file[l[1]]}

LineAt(l) == file[l[1]][l[2]]

(* However starts, stops, failures and late dispatches interleave: when no *)
(* thread of a fragment is left, its button goes back to "start".  (Every  *)
(* postValue(capturing) at CaptureFragment:213 is followed by a            *)
(* postValue(idle) at 256 or 277, also after an exception.)                *)
UiReturnsToIdle ==
    \A i \in Instances : Active(i) = {} => Shown(i) = "idle"

(* Two sessions may share one socket and one file, but no captured packet  *)
(* is recorded twice, in whichever file (CaptureFragment:228-244).         *)
RecordedOnce ==
    \A l, m \in Lines : LineAt(l).packet = LineAt(m).packet => l = m

(* In every file, the lines one session has written of one csiutil are in  *)
(* the order of the capture, also when other sessions write in between.    *)
RecordedInOrder ==
    \A l, m \in Lines :
        /\ l[1] = m[1] /\ l[2] < m[2]
        /\ LineAt(l).by = LineAt(m).by
        /\ LineAt(l).packet.src = LineAt(m).packet.src
        => LineAt(l).packet.n < LineAt(m).packet.n

(* Somebody else may have been through a's socket cleanup: a thread of the *)
(* same fragment that is behind it, or the main thread on leaving a screen.*)
Overtaken(a) ==
    \/ \E t \in Threads \ {a} :
         inst[t] = inst[a] /\ pc[t] \in {"closeFile", "postIdle", "done"}
    \/ a # Main /\ inst[Main] # NONE

(* Besides a menu item without a shell and number fields the click handler *)
(* cannot use (CaptureFragment:205, 209; CsiFragment:212-216, 225), the    *)
(* app dies only when an agent in the socket cleanup (CaptureFragment:     *)
(* 249-254, 267-272, 356-361) is overtaken by another one that has been    *)
(* through it: a session, a stop or a departure on its own never finds the *)
(* field null half-way.                                                    *)
CrashNeedsRace ==
    [][appUp /\ ~appUp' =>
         \/ "menu" \in Env /\ view # NONE /\ bp[view] = NONE
         \/ view # NONE /\ NumbersThrow(view)
         \/ \E a \in Agents : pc[a] \in {"checkClosed", "close"} /\ Overtaken(a)]_vars

(* With a user who waits and sleeps that suffice, a session's file holds   *)
(* the packets of its own csiutil and nothing else, from the first one on, *)
(* without a gap (CaptureFragment:219-244, csiutil.c:183-212).             *)
RecordsPrefix ==
    \A l \in Lines :
        LineAt(l) = [by |-> l[1], packet |-> [src |-> l[1], n |-> l[2]]]

(* ... and it is shorter than the requested number of packets only if the  *)
(* user has pressed stop: the stop datagram never overtakes packets, and   *)
(* csiutil's delay lets no packet fall before the socket is open.          *)
CompleteUnlessStopped ==
    \A t \in Threads :
        pc[t] = "done" /\ utilPc[t] # "none" /\ Len(file[t]) < PacketCount
            => \E u \in Threads : pc[u] # "unborn" /\ utilPc[u] = "none"

(* When no thread is left, port 5502 is free for the next session, of this *)
(* screen or the other one (CaptureFragment:249-254, 356-361).             *)
SocketsClosed == appUp /\ Quiet /\ OnMain => openSockets = {}

(* The field is the only way to a bound socket, so null is stored in it    *)
(* only when that socket is closed: no cleanup that was overtaken erases   *)
(* the socket of a session that has started meanwhile                      *)
(* (CaptureFragment:249-254, 267-272, 356-361).                            *)
NullsClosedSocket ==
    [][\A i \in Instances :
         socket[i] # NONE /\ socket'[i] = NONE => socket[i] \notin openSockets]_vars

(* When no thread is left, every capture file has been closed. *)
WritersClosed == appUp /\ Quiet => openWriters = {}

(* While a session still records, the button says "stop": a user who sees  *)
(* "start" cannot be recording (CaptureFragment:93-98, 261-277).           *)
IdleMeansStopped ==
    \A t \in Threads :
        /\ appUp
        /\ pc[t] \in {"loop", "receive", "write"}
        /\ socket[inst[t]] \in openSockets
        => Shown(inst[t]) = "capturing"

(* Pressing stop ends the session, without any further frame: the kill or  *)
(* the closed socket gets it out of receive().                             *)
StopEnds ==
    \A t \in Threads, i \in Instances :
        pc[t] = "kill" /\ inst[t] = i ~> Active(i) = {} \/ ~appUp

(* As long as frames arrive, a session ends by itself: csiutil's stop      *)
(* datagram reaches the receive loop. *)
SessionEnds ==
    Traffic => \A t \in Threads : pc[t] = "post" ~> pc[t] = "done" \/ ~appUp

(* ... and the button that said "stop" says "start" again. *)
UiSettles ==
    Traffic => \A i \in Instances : mState[i] = "capturing" ~> mState[i] = "idle" \/ ~appUp
=============================================================================
