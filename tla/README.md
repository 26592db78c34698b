# LocTag, verified: the monitoring and injection protocols of the Android app

LocTag is an Android app (Java, package `top.tjunet.loctag`) that drives native
command-line tools (C, `src/app/src/main/jni/Csi`) in a root shell to capture
802.11 packets and CSI records and to inject frames. The capture tool stands on
a vendored libpcap (`src/app/src/main/jni/libpcap`). This directory holds TLA+
models of the part of it that is hard to get right, the TLC runs that check
them, and TLAPS proofs.

Paths below are relative to `src/app/src/main/`; `J` is `java/top/tjunet/loctag`,
`C` is `jni/Csi`, `P` is `jni/libpcap`.

## 1. Inventory

| Component | State it keeps | Operations | Talks to |
|---|---|---|---|
| `J/ui/capture/CaptureFragment`, `CaptureViewModel` | `bp`, `socket`, `fileHandler`, `mState` (LiveData) | open root, start/stop, menu, view life cycle; two anonymous background threads | root shell (text commands), UDP 5502, capture file |
| `J/ui/csi/CsiFragment`, `CsiViewModel` | the same | the same, plus packing of CSI parameters | the same |
| `J/BashProcess` | process, `dos`, `br` | constructor, `input`, `getOutput`, `exit` | `su` |
| `J/FileHandler` | `bw`, file-name components | `createFile`, `writeText`, `closeFile`, name editing, `fileStatue` | external storage |
| `C/csiutil.c` | arguments, counters, pcap handle, socket | `main`, `got_packet`, `create_udp_send_socket` | libpcap, UDP 5501 -> 5502 |
| `P/pcap-linux.c`, `P/pcap.c` | capture handle: socket, snapshot, `cooked`, `filter_in_userland` | open, set filter, loop | PF_PACKET socket of the kernel |
| `P/gencode.c`, `P/grammar.y`, `P/optimize.c`, `P/bpf/net/bpf_filter.c` | blocks of the filter being parsed | compile a filter expression, run the program | called by `pcap_compile`, `pcap_setfilter` |
| UDP port 5502 | bound socket, receive buffer | bind, deliver, receive, close | kernel, `java.net` |
| `J/ui/injection/InjectionFragment`, `Inject*Conf` | `state`, `mState`, `timer`, `bp`, configurations | start, stop, timer, files | root shell, `injectutil` |
| `C/injectutil.c` | arguments | read the frame, send ioctls in a loop | Nexmon driver |
| `C/JNICsi.c`, `J/jni/*` | none | decode a datagram | called from the receive loops |
| `J/jni/CsiConf`, `C/makecsiparams/makecsiparams.c` | parameter block of 34 bytes | pack the parameters | `nexutil` |
| `C/makecsiparams/bcmwifi_channels.c` | none | chanspec <-> text | linked into two programs |
| `C/mcutils.c`, `radiotap.c`, `nex_dot11rt.c`, `MainActivity`, `PtsGraphView`, `MacList`, `Complex` | none to speak of | I/O helpers, tables, drawing | - |

### How a capture works

1. *Open root* creates a `BashProcess` (field `bp`).
2. *Start* spawns a session thread: it posts `capturing`, writes the csiutil
   command line to the shell, waits 100 ms, binds UDP 5502, creates a file and
   loops: `receive`, decode, `writeText`.
3. The shell starts csiutil in the background. It opens pcap, binds UDP 5501,
   sleeps one second (`-d1`) and sends one datagram per matching frame to 5502;
   after `-n` frames it sends a single byte `0xc5`.
4. That byte ends the receive loop. The session closes the socket (a
   null test, a closed test, `close`, assignment of null: four separate accesses
   to a shared field), closes the file and posts `idle`.
5. *Stop* (the same button while `mState` is not idle) spawns a thread that
   writes `kill %1`, waits 500 ms, runs the same cleanup and posts `idle`.
6. Leaving the screen (`onDestroyView`) exits the shell and runs the same socket
   cleanup on the main thread.

### How an injection works

*Start* runs on the main thread: it posts `injecting`, parses the three numbers,
writes the `nexutil` and `injectutil` command lines to the shell, makes a
`java.util.Timer` and schedules a task that ticks every half second. injectutil
hands the frame to the firmware and exits; nothing reports the end of the
injection, so the task counts down a time computed from the parameters, cancels
the Timer in the field and posts `idle`. *Stop* cancels the Timer in the field
and posts `idle`; it sends the shell nothing.

### What is hard about it

No field is locked or volatile. Two taps that come before the looper has
dispatched a post start two sessions; a session, its stop thread and the
departing main thread run the same cleanup on the same field; `kill %1` addresses
whatever job the shell numbers 1; datagrams carry no session; UDP loses the only
end-of-capture message when nobody listens; two sleeps are the only
synchronisation with the shell and with csiutil; a screen that is visited again
gets a new `FileHandler` under a running session. On the injection screen a
task cancels whatever Timer the field holds, which after a second start is not its
own; and an exception after `postValue(injecting)` leaves the state without a
Timer. `PROJECT.json` lists each of
these hazards at its line.

### What makes it correct

* Screens: the button comes back to *start*; it never says *start* during a
  recording; a file holds the packets of its own session, in order, once each,
  and all of them unless stop was pressed; sockets and files are closed when the
  threads are gone; the app survives; a session and a stop end.
* BashProcess: commands are executed in order, `kill %1` meets its csiutil.
* csiutil: at most `-n` packets, then exactly one stop message.
* Injection: an injecting screen has a Timer that will end it; nothing ticks on
  behind an idle screen; the countdown does not end before the injection.
* FileHandler (planned): names are unique per increment, the cursor stays in range.
* CsiConf/makecsiparams: both packers produce the same 34 bytes for the same
  parameters, whatever the order of setters and options; the base64 text of
  makecsiparams decodes to them.
* Chanspec: parsing and printing are inverse on valid chanspecs; a text gets the
  channel it names; tables and checks agree; what is built from a primary channel and a
  bandwidth has that primary channel and bandwidth.

* csiutil on libpcap: only frames of its interface, and only such as pass the
  filter, are handed on; each is sent once; no failure leaves the capture deaf or
  unfiltered; what the app can see of it is RootShell's csiutil.
* Filter compiler: a program accepts exactly the packets its text describes, the
  kernel's checks pass it, and its generation ends.

## 2. Modules

Monitoring:

    Loopback            UDP port 5502                         (kernel, java.net)
      ^ EXTENDS
    RootShell           BashProcess, the shell, csiutil       (BashProcess.java, csiutil.c)
      ^ EXTENDS
    MonitorFragments    both screens
      ^ EXTENDS                          ^ EXTENDS
    MonitorFiles        INSTANCE         MonitorFragmentsProofs   theorems
      ^  CaptureFiles                    ^ (and MonitorFiles)
    MCMonitorFragments  TLC values       RecordingProofs          theorems on the files
                                         ^
                                         PatientProofs            a user who waits, the refinement

Injection (it shares only the shell with the above, and nothing the shell does
comes back to it):

    Injection           the screen and its Timers       (InjectionFragment.java)
      ^ EXTENDS             ^ EXTENDS
    MCInjection         InjectionProofs   theorems

CSI parameters:

    CsiBlock            the 34 bytes, toBase64          (CsiConf.java, struct csi_params)
      ^ EXTENDS
    MakeCsiParams       main, option by option          (makecsiparams.c)
      ^ EXTENDS             ^ EXTENDS
    MCMakeCsiParams     MakeCsiParamsProofs   theorems

    Chanspec            parser, printer, checks         (bcmwifi_channels.c)
      ^ EXTENDS             ^ EXTENDS
    MCChanspec          ChanspecProofs   theorems

csiutil from the inside:

    PacketSocket        a PF_PACKET socket              (kernel)
      ^ EXTENDS
    Csiutil             main, libpcap's live capture    (csiutil.c, pcap-linux.c, pcap.c)
      ^ EXTENDS             ^ EXTENDS
      |                 CsiutilProofs   theorems
    CsiutilReduced      INSTANCE RootShell WITH its csiutil's variables
      ^ EXTENDS             ^ EXTENDS
    MCCsiutil           CsiutilReducedProofs   the refinement

Filters:

    FlowGraph           blocks, lists, jumps            (gencode.c, optimize.c)
    BpfMachine          the interpreter                 (bpf_filter.c)
      ^ EXTENDS both
    FilterTerms         the tests of each primitive     (gencode.c)
      ^ EXTENDS
    FilterCompiler      the parser's actions, the whole (grammar.y, pcap_compile)
      ^ EXTENDS
    MCFilterCompiler

### Loopback

`openSockets` are the sockets bound to port 5502 and `rxQueue` their receive
buffers. A socket is named by the thread whose constructor call made it. Binding
a taken port throws; a datagram for an unbound port or a full buffer is lost;
closing drops the buffer. Both sides of this are outside the repository, so the
module follows from how csiutil and the fragments use it.

### RootShell

`BashProcess.input` only appends to the shell's `stdin`; `ExecuteCommand` is the
shell taking the next line, later. `job1[s]` is the csiutil that `%1` designates;
a new csiutil next to a live one may or may not get the number. A shell is
`unborn`, `up`, `dead` (refused or killed; the object does not know) or
`closed` (`exit` has run, whether the shell got to its last commands or not). A
csiutil is at `open` (pcap), `sleep` (`-d1`), `loop` (`pcap_loop`), `close` or
`exit`; `localPort` is who has UDP 5501 - a second csiutil goes on with socket
-1, as `main` does not test the result. `ifaceGone` is the effect of
`ifconfig wlan0 down` on a capture that is running.

### MonitorFragments

One model for both fragments (`Kind[i]` says which an instance is). Each
background thread has a place `pc[t]`:

| places | code (`CaptureFragment.java`; `CsiFragment.java` alike) |
|---|---|
| `post`, `launch`, `jobs` | 213-223: postValue, the command lines, getOutput(100) |
| `testNull`, `testClosed`, `bind`, `assign` | 224-225: each access of `socket` on its own |
| `closeOld`, `openNew` | 227 and `FileHandler.createFile` |
| `loop`, `receive`, `write` | 228-244: field read, receive on that object, writeText |
| `checkNull`, `checkClosed`, `close`, `setNull` | 249-254, 267-272, 356-361: the cleanup |
| `closeFile`, `postIdle`, `done` | 255-256, 273-277 |
| `kill`, `killOut` | 264-266: the stop thread |

The main thread is at `looper` between callbacks, or in the cleanup of
`onDestroyView`. `pending[i]` is what `postValue` has queued: a second post
replaces the first, and `DispatchPosted` hands the survivor to `mState`, which is
all a click can see. `numbers[i]` is what the number fields hold: numbers, a text that
`Integer.parseInt` refuses (empty, or above an int), or a count for whose points `setScale` gets no
array. The click handler parses them on every press, of a stop too, and calls `setScale` on a
start; nothing catches what that throws (`ClickThrows`). `file[w]` are the lines written through the BufferedWriter
that thread `w` opened, whatever path it has. An exception nobody catches sets
`appUp` to FALSE, and the model ends there.

`Env` names what may go wrong beyond the ordinary; each liberty enables an action
or drops a guard:

| liberty | without it |
|---|---|
| `impatient` | the user waits for the dispatch, does not start next to a running thread, does not stop twice, and does not replace a shell that works |
| `untimely` | the sleeps suffice: 100 ms and 500 ms for the shell to work off its input, 500 ms also for a session to open socket and file, 1 s for the same, and a csiutil that has sent its stop message is gone before the shell gets another command |
| `leaves` | a screen is left only when no thread is at work |
| `menu` | nobody picks *reload firmware* or *restart nic* |
| `noSu`, `noPcap`, `noMedia`, `malformed`, `short` | the shell lives, csiutil's pcap calls succeed, the storage is mounted, packets and parameters are well-formed, packets are longer than their headers |
| `numbers` | nobody edits the number fields, and what they hold can be used |

The timing liberties stand for real time, which the model does not have: a sleep
that suffices is a guard that waits for what the sleep waits for.

### CaptureFiles, MonitorFiles

`CaptureFiles` is what the start/stop button promises of the capture files, without threads,
sockets, datagrams or a shell: a press starts a session or a stop; one file is open at a time and gets
the packets 1, 2, ... of its own csiutil; it is closed when it has them all or while a stop is
going on; and no stop is over while a file is open. The button that says *start* again, after a
stop, therefore means that the file on the card is closed.

`MonitorFiles` maps the threads to it. A press is the thread it starts. It is `new` until it has
opened its file (`Unfiled`), `open` while its writer is (`openWriters`), `over` afterwards, and a
`stop` from the moment at which it is settled that it will never launch a csiutil (`Stopper`): that is
the stop thread from its start on, and a session from the exception that took it past its launch -
its cleanup does what a stop does. The lines of the files are the same on both sides.
`KeepsFiles` says that `MonitorFragments` implements `CaptureFiles` under this mapping.

### Injection

A press that starts an injection and the Timer it makes have one name `k`. The
main thread and the Timer threads interleave at these places
(`InjectionFragment.java`):

| places | code |
|---|---|
| `mainPc`: `configure`, `input`, `output` | 273-285: after postValue, the three `parseInt`, both command lines, both `getOutput(100)` |
| `mainPc`: `newTimer`, `schedule` | 287 and 288-303: the field is assigned, then read again |
| `mainPc`: `stopped` | 314-316: between `timer.cancel()` and postValue |
| `timerPc`: `wait`, `read`, `cancel`, `post`, `dead` | 289-305: the task between ticks, then the three steps of the last tick |

`victim[k]` is the Timer that the task of `k` has read from the field and not yet
cancelled; it need not be `k`. `cancelled` is what `cancel()` has been called on.
`left[k]` is `seconds2`; it is computed with Java's int arithmetic over
`-Half..Half-1` (`HalfSeconds`), and below zero all its values act the same, so
`Countdown` stops at -1. `DispatchPosted` calls the observer, which tests the
field `state` (line 111); nothing assigns that field after line 46. One
instance is modelled: a visit of the screen makes a new fragment, and Timers of
the old one only see the old one.

| liberty | without it |
|---|---|
| `impatient` | the user clicks only when every post is dispatched and no task is in its last tick |
| `leaves` | the screen stays |
| `menu`, `noSu`, `blank` | no NIC menu item, a shell that lives, all number fields filled |

### CsiBlock, MakeCsiParams

A buffer is a function on 0..33. `Pack` is what `CsiConf.toBase64` writes into it,
`Unpack` how `struct csi_params` of makecsiparams.c, the firmware's layout, reads it.
`ToBase64` also has its null for a malformed address and its exception at the fifth.

`MakeCsiParams` has one action per option; `p` is the struct and the other
variables are the locals of `main`. `asked` is no variable of the program: it
collects what the options ask for as the CsiConf of the app, so that `SameBlock`
can compare the two packers: the struct that is written is the one `toBase64` makes, and
addresses for which `toBase64` makes none are refused.
`Wanted` is the rule of the usage text for the default delay ("3x4, 4x3 and 4x4
configurations"), where the code counts bits and multiplies. Numbers and addresses
are values: an argument that is no number is `Invalid`, an address that is not six
bytes stands for every text that is none.

### Chanspec

A chanspec is its 16-bit number, and a text is the record of what its characters
say: band, channel, width, side, the pair of an 80+80 channel. `Aton` and `Ntoa` are
`wf_chspec_aton` and `wf_chspec_ntoa`, with the unmasked `|` of line 779
(`Compose`, on 16 bits and bit by bit); `CHANSPEC_NEW_40MHZ_FORMAT` and `D11AC_IOTYPES` are set as in
`C/Android.mk`. A behaviour is a value that is converted by `strToChanspec` and
`chanspecToStr` in turn, from every text and every chanspec. The parser and
`wf_channel2chspec` each have their own choice of a table and their own search in it
(`Centers` and `Wide`, `Search` and `Channel2Chspec`). `wf_chspec_ctlchan`
asserts that its argument is well-formed and so `ChanspecToStr` requires it; no
80+80 chanspec is, so their printing is left out.

### PacketSocket, Csiutil

Frames are numbered as they reach the socket. The kernel filters a frame and
queues it later; in between it is `flight`, and a change of the filter does not call it
back. `fd` is `everywhere` from `socket()` to `bind()`: frames of every interface are
queued. `Csiutil` has one action per call that can fail or that frames can
come between:

| `pc` | code |
|---|---|
| `open`, `link`, `bind`, `promisc` | `pcap_open_live`: `activate_new` and the rest of `pcap_activate_linux`; the memory-mapped ring is compiled out (`P/config.h`) |
| `compile`, `install` | `pcap_compile`; `install_bpf_program`, `fix_program` |
| `total`, `drain`, `attach` | `set_kernel_filter` |
| `reset` | `reset_kernel_filter` at the end of `pcap_setfilter_linux_common` |
| `sender`, `sleep`, `dump` | `create_udp_send_socket`, `sleep(delay)`, `-o` |
| `loop` | `pcap_loop`: one read, with its rejects, `got_packet` and errors |
| `stop`, `closeSend`, `closeDump` | the end of `main` |

`opt` holds the command line (`-m`, `-t`, `-o`) and what it meets: an interface type
libpcap reads in cooked mode, a filter that looks at the link-layer header, port 5501 taken.
`overtook` is history: the frames that were past the filter when the total filter was attached,
or queued when it could not be. `DetachEmpty` is what the kernel says when asked to detach a
filter that is not there: it has been success and an error (ENOENT).

`CsiutilReduced` gives RootShell's variables their values in terms of Csiutil's: all of
`pc` from `open` to `sender` is RootShell's `open`, `loop` and `stop` are its `loop`, the
datagrams in `wire` are the receive buffer of the app. `Implements` says that every step
is one of RootShell's actions for a csiutil (`PcapFails`, `CreateUdpSendSocket`,
`SleepDelay`, `GotPacket`, `GotShortPacket`, `SendStop`, `CloseSendSocket`, `RunKill`,
`RunIfconfig`) or a stutter. It excludes a refused `-o`, which the app never passes.

### FlowGraph, FilterTerms, BpfMachine, FilterCompiler

A heap of blocks is a sequence; a pointer is an index, 0 is NULL. `Backpatch`,
`Merge`, `GenAnd`, `GenOr`, `GenNot` and `FinishParse` are the functions of those names,
with the trick they rest on: the unresolved exit of a block, which one `sense`
says, is the link of the list the block is on. `FilterTerms` has the code of each
primitive on an Ethernet link as the calls its function makes. A behaviour of
`FilterCompiler` is a parse: `Term`, `Negate`, `Conjoin` and `Disjoin` are
the reductions of the grammar, the stack is the parser's; then `Parsed` and the rounds of
`icode_to_fcode`. With each subexpression goes its text (`says`), and `Says` is what
that text means for a packet, from the packet's fields and without the generated code: yes, no, or
short, where a load beyond the packet's end rejects it whatever the rest says. The protocol of an
IPv6 packet is its next header or, if that is a fragment header, the one behind it (`GenProtoIp6`).
csiutil passes `optimize` 0 (`C/csiutil.c:229`), so the code is not optimised.

### Not in the model

`mCnt`, `mRssi`, the graph and other display values; wording and logging;
`nexutil` command lines (no effect on anything modelled); the tap on the RSSI text, whose `jobs -l`
changes nothing; the tap on the file's status (`startActivity`, which throws where no
application shows text files); the file path and
the fact that two sessions may open the same path. On the injection screen: the label with the time that is left,
the frame-file dialog, the rate spinners and what the firmware does with a frame.
In csiutil: what the printers write (`process_dot11rt`, `process_csi` change nothing
but the dump file) and how argp reads options. In libpcap: the memory-mapped ring and
SOCK_PACKET (not built, not reached), monitor mode, the `any` device, direction, VLAN tags; savefiles;
the optimizer; the scanner and the tables of the parser, which are generated; link types other
than Ethernet, arithmetic relations, `net`, `vlan`, `mpls`, 802.11 and ISO primitives.
`PROJECT.json` gives the reason for each component that is left out.

## 3. Runs

| run | Env | bounds | checks |
|---|---|---|---|
| `sessions` | impatient | capture, 2 threads, 2 packets, buffer 1, 1 shell | TypeOK, UiReturnsToIdle, RecordedOnce, RecordedInOrder, CrashNeedsRace |
| `faults` | untimely, menu, noSu, noMedia, noPcap, malformed, short, numbers | csi, 2 threads, 1 packet, 2 shells | UiReturnsToIdle, CrashNeedsRace |
| `patient` | none | FairSpec, capture, 4 threads, 2 packets, buffer 3 | RecordsPrefix, CompleteUnlessStopped, WritersClosed, IdleMeansStopped, KeepsFiles, StopEnds, SessionEnds, UiSettles |
| `navigation` | leaves | capture and csi, 2 threads, 1 packet, 2 shells | SocketsClosed, NullsClosedSocket |
| `strays` | all | FairSpec, injection, 3 Timers, one set of parameters | InjectingHasTimer, CrashNeedsStaleTick, InjectionEnds |
| `countdown` | leaves | injection, 3 Timers, five sets of parameters, seconds of 4 ms, 6-bit ints | TypeOK, NoStrayTimer, NeverIdleEarly |
| `button` | none | injection, 1 Timer | ButtonFollowsState, violated |
| `options` | - | MakeCsiParams, two or three values of each option | TypeOK, SameBlock, FirmwareReads, PrintsBlock |
| `chanspecs` | - | all 65536 chanspecs, about 82000 texts | PrimaryAgrees, RoundTrip, TextMeans, ConstructorInverts |
| `capture` | - | 3 kinds of frame, 4 frames, queue 2, `-n2`, 5 command lines | TypeOK, OnlyThisInterface, FilteredOrOvertook, FiltersOnce, SentOnceUnlessShort, DrainReadsOld, Implements |
| `tail` | - | CSI packets of 64 and 256 subcarriers | SentWasCaptured, violated |
| `filters` | - | 3 primitives of 23, 2 negations, jumps of up to 31 instructions, 42 packets | CodeMeans, EveryRoundCounts |

Bounds (monitoring). A thread is one press of the button, so `Threads` bounds the number of
presses. Two are enough for every pair that can collide (two sessions, a session
and a stop, two stops, a thread and the departing main thread); four allow two
complete start/stop rounds, which is what it takes for one session to leave
something behind for the next. Two packets are the least with an order and with
a proper prefix. A buffer of 1 makes loss easy, 3 (two packets and the stop
message) excludes it. Two shells allow the old one to be replaced. `Shells` and
`Threads` are symmetry sets in the safety runs; liveness is checked without symmetry, but
`patient` starts its threads in one fixed order (`InTurn`): a run that starts them in another
is the same up to their names, and no fairness speaks of starting.
`sessions` and `navigation` use the view `UiForgotten`, which keeps only `Shown` of `mState` and `pending` once no
thread is left to be started - no action but the dispatch reads them then.
`CHECK_DEADLOCK FALSE` because the system may stop: all presses spent, or the app
gone.

Bounds (injection). Three Timers: one whose last tick is late, the one it cancels
in its place, and one that comes after both; a fourth meets nothing new.
Seconds of 4 ms and ints of 6 bits let five sets of parameters cover no time at all,
both quotients rounded down, an ordinary injection, and products that overflow to a
negative and to a positive int (the sum cannot overflow, as four times a quotient
by 1000 is far below an int). Where only the order of events matters one set (one second)
is enough, and Timers are a symmetry set except under fairness.

Bounds (parameters). The address lists fill the four places exactly, overrun them,
stay below, and are malformed; masks reach 12 captures from
both sides (4x3) and below it (2x3, 4x1, 2x1), and have values that are refused; a delay of 65836 needs
more than 16 bits. The chanspec space is complete; texts have every channel up to
`MAXCHANNEL` + 3, and four larger ones at the edges of the bit fields.

Bounds (csiutil). Four frames allow one of another interface before the bind, one in
flight over the change of the filter, one queued in its place and one more than `-n`; a queue
of two can be full. The five command lines are the app's, one that finds port 5501 taken,
cooked mode with a filter on the link header (userland), both modes with `-o`, and a refused `-o`.
Sizes are real: 316 and 1084 bytes are CSI packets of 20 and 80 MHz, 41 is one byte short of
the headers, 1024 is Android's BUFSIZ.

Bounds (filters). A primitive that is only a variant of another (`Rare`) counts for two, so
three common ones, or a common and a rare one, are combined in every shape: `port` alone is a
tree of a dozen tests, so that lists of five and more unresolved exits occur. 256 is scaled
to 32 (`LongOffset`): with 256 a long jump takes about twenty primitives, with 32 most pairs of
ports have one on the true side, the false side or both. Packets differ in every field that a primitive
looks at, and end before, within and behind each; IPv6 packets come with and without a fragment header.

What the runs show: monitoring. Under every interleaving the button returns to *start* and no
packet is recorded twice or out of order. Under a user who waits and sleeps that
suffice a file is an unbroken prefix of its own csiutil's packets, complete
unless stop was pressed, and nothing stays open; the two screens implement `CaptureFiles`
(`KeepsFiles`). A user who waits may leave a screen at work (`navigation`): a cleanup
that another one overtakes may end the app, but it never erases a socket that is still
bound (`NullsClosedSocket`), and the port is free when the threads are gone. `RecordsPrefix` and the other
properties of `patient` are **not** claimed for `impatient` or `untimely`:
there the code really leaks a socket, orphans a csiutil, runs one that cannot
send, or mixes two sessions in a file. In `sessions` nobody uses the menu or edits a
number, so that only an overtaken cleanup is left of what `CrashNeedsRace` allows; in `faults` an
emptied field ends the app with the next press, in the middle of a capture too. The race is
reachable by ordinary use: one stop closes the socket, which wakes the session
into the same unlocked cleanup, and whichever thread is between the test at 249
and the call at 250 or 251 when the other assigns null ends the app with a
NullPointerException.

What the runs show: injection. Whatever order presses, ticks and dispatches come
in, a screen that says injecting has a Timer that will post idle (or a start has
failed with an IOException, which leaves it injecting until the next press), every
such state ends if no start fails, and a crash takes an empty field, a menu item
without a shell, or a tick of an old Timer between `new Timer()` and `schedule`.
For a user who waits only the Timer in the field ticks, and never behind an idle
screen; for one who does not, a task that has cancelled another's Timer ticks for
ever and ends every later injection on that screen early, so `NoStrayTimer` is
claimed for `countdown` only. `NeverIdleEarly` is claimed for parameters whose
product fits an int (`Fits`); for others the countdown ends at its first
tick. The allowance of two seconds is what rounding each quotient down can cost.

What the runs show: parameters. makecsiparams makes the block of `toBase64` for the same
parameters in every order of its options, the firmware reads those parameters from it, and its hand-written base64 decodes to it, padding
included. Every valid chanspec survives printing and parsing; a text with a channel number
up to 255 gets the channel, band, width and side it names. Above 255 it need not: the
parts are or-ed without masking, and `2g2049` is a 40 MHz channel. From the primary channel and
the bandwidth of a valid channel `wf_channel2chspec` finds that channel again
(`ConstructorInverts`); at 2.4 GHz it finds no 40 MHz channel, as its tables are those of 5 GHz.

What the runs show: csiutil. Whatever arrives while pcap is opened and the filter changed,
got_packet sees frames of its interface only, and one that fails the filter only if it was past the
old filter (in flight, or queued when the total filter could not be attached) before the new one was
on. No combination of refused calls ends with a capture behind the total filter, without a filter or
with two. Every packet handed on is sent exactly once - but one shorter than the headers takes a place
of `-n` for nothing. And the csiutil of the monitoring model, with its handful of steps, is all
the app can see of this one.

What the runs show: filters. All 85,000 states of parsing, resolving and placing give valid programs that
accept what their text says, on whole packets and on truncated ones; every failed round
of `icode_to_fcode` finds one more long jump, so the loop ends after as many rounds as there are jumps.

Findings. `tail`: `got_packet` sends `header->len` bytes less the headers (`csiutil.c:204`), of
which only `header->caplen`, at most 1024, were captured (`P/pcap/pcap.h:162`): of the 256 subcarriers of an
80 MHz record the last fifteen are read beyond what was captured, and possibly beyond the snapshot buffer.

`button`: the observer at line 111 tests `state`, not the
dispatched value, so the button says *start* during an injection although the
code has a branch for *stop* (line 114) and calls the observer the one that
updates the UI (line 88). One press shows it.

Noted while reading and modelled as it is, without a run of its own:

* `CHSPEC_CHAN2` (`bcmwifi_channels.h:226`) masks without shifting, so every 80+80
  text is refused, the documented example (`bcmwifi_channels.c:326`) too.
* The comment at `P/pcap-linux.c:6563` says that a filter the kernel refuses is run in userland. But
  `set_kernel_filter` has then removed the total filter, and the second removal at line 2559 fails on
  kernels that report a filter that is not there: csiutil ends instead.
* The comment at `P/pcap-linux.c:1594` says ENETDOWN is ignored; line 1650 returns an error, and
  `main` sends its stop message before the count is reached.
* `gen_byteop` (`P/gencode.c:7145`) generates no load for `&` and `|`: `byte 0 & 1` tests
  what the last test left in the accumulator (`GenByteOp`; these two are not among the terms of `filters`).
* Without `-o` main calls `pcap_dump_close(NULL)`, which hands NULL to `fclose` (`CloseDump`).

Too simple for a model: `wf_chspec_malformed` tests the largest
channel number in the 5 GHz band only (`2g225` is accepted); `CsiConf.csiCollect`
starts false where the comment of `setEnable` says true; makecsiparams exits with 0
after `finish_error`, whose assignment to `retval` nothing reads.

Fairness. `SystemFairness` is weak fairness of every background thread, of
csiutil, of the shell, of the looper's dispatches and of the main thread's
cleanup: the schedulers of Java, Android and Linux run what can run. Nothing is
assumed of the user. `Traffic` (frames that match the filter keep arriving) is
the antecedent of the properties that need it: `SessionEnds` and `UiSettles`.
`StopEnds` needs none, which is its point: `receive()` has no timeout, and the
stop must get the session out of it. On the injection screen the click handler
and the Timer threads are weakly fair; the dispatch of a posted value is strongly
fair, because the looper's queue is first in, first out: clicks come between it and its
turn, but cannot keep it from its turn for ever.

## 4. Proofs

| theorem | states | for |
|---|---|---|
| `TypeCorrect` | `Spec => []TypeOK` | every number of threads, instances, shells, packets; every buffer size; every `Env` |
| `UiSafety` | `Spec => []UiReturnsToIdle` | the same |
| `CrashSafety` | `Spec => CrashNeedsRace` | the same |
| `RecordsOnce` | `Spec => []RecordedOnce` | the same |
| `RecordsInOrder` | `Spec => []RecordedInOrder` | the same |
| `PatientSocketsClosed` | `Spec => []SocketsClosed` | the same, under `Patient` |
| `PatientWritersClosed` | `Spec => []WritersClosed` | the same, under `Patient`, `Stays` |
| `PatientIdleMeansStopped` | `Spec => []IdleMeansStopped` | the same, under `Patient`, `Stays`, `Timely`, `Rooted` |
| `PatientRecordsPrefix` | `Spec => []RecordsPrefix` | the same, under `Orderly`, `Roomy` |
| `PatientComplete` | `Spec => []CompleteUnlessStopped` | the same, under `Steady`, `Roomy` |
| `PatientKeepsFiles` | `Spec => KeepsFiles`, the refinement of CaptureFiles | the same, under `Steady`, `Roomy` |
| `PatientNullsClosed` | `Spec => NullsClosedSocket` | the same, under `Patient` |
| `InjectionTypeCorrect` | `Spec => []TypeOK` of Injection | every number of presses, all parameters, every int width, every `Env` |
| `InjectionSafety` | `Spec => []InjectingHasTimer` | the same |
| `InjectionCrashSafety` | `Spec => CrashNeedsStaleTick` | the same |
| `InjectionNotEarly` | `Spec => []NeverIdleEarly` | the same |
| `InjectionPatient` | `Spec => []NoStrayTimer` | the same, but for a user who waits: `"impatient" \notin Env` is assumed |
| `MakeCsiParamsTypeCorrect` | `Spec => []TypeOK` of MakeCsiParams | any options in any order and number, every set of arguments |
| `SameBlockAlways` | `Spec => []SameBlock` | the same |
| `FirmwareReadsAlways` | `Spec => []FirmwareReads` | the same |
| `PrintsBlockAlways` | `Spec => []PrintsBlock` | the same |
| CsiutilProofs: `TypeCorrect` | `Spec => []TypeOK` of Csiutil | all frames, options, counts, queues and snapshot lengths |
| `KeepsToInterface` | `Spec => []OnlyThisInterface` | the same |
| `Filters` | `Spec => []FilteredOrOvertook` | the same |
| `NeverDeaf` | `Spec => []FiltersOnce` | the same |
| `DrainEndsSoon` | `Spec => DrainReadsOld` | the same |
| `SendsOnce` | `Spec => []SentOnceUnlessShort` | the same |
| `Refinement` | `Spec => Implements` | the same |
| `PrimaryAgreesHolds` | `Spec => []PrimaryAgrees` of Chanspec | all texts, with any numbers, and all chanspecs |
| `RoundTripHolds` | `Spec => RoundTrip` | the same |
| `TextMeansHolds` | `Spec => TextMeans` | the same |
| `ConstructorInvertsHolds` | `Spec => []ConstructorInverts` | the same |

Assumptions (named, in the modules that declare the constants):
`PacketCount` is a positive natural (`pcap_loop` never returns for `-n0`),
`QueueMax` a natural, `NONE` is no thread, shell, instance or UI state, `Main` is
no background thread, each instance has a kind. In Injection, `Second` and `Half`
are positive naturals, the parameters are non-negative ints (the fields take
digits only), and `NONE` is no Timer, no set of parameters and no UI state. In
MakeCsiParams the value of `-e` is 0 or 1, a chanspec is 16 bits (as in Chanspec), addresses are
sequences of bytes; every other number is any integer. The theorems of PatientProofs
assume, by name, what the user and the environment do not do: `Patient` (no click before the
effect of the last one), `Stays` (no screen is left while one of its threads is at work), `Timely`
(the sleeps of the code suffice), `Rooted` (`su` starts), `Orderly` (of all liberties only `menu`,
`noPcap` and `numbers` are left: the interface may be restarted and the number fields edited at any time,
and csiutil may fail), `Steady` (the same without `menu`) and `Roomy` (the socket's buffer holds a capture). Each is there
because the statement is false without it: with any one of the excluded liberties added, or a buffer of
one, TLC finds a trace with at most four threads and two screens. All of them hold in the run `patient`,
and `Patient` in `navigation`. In Csiutil the count, the snapshot
length and the queue are positive and frames fit a datagram (`MtuAssumption`); in
CsiutilReduced the names differ.

`TypeOK` is not inductive: a thread that writes does so through the fragment it
belongs to, with a packet it has received. `TypeInv` adds `Located` (a thread
that has been started knows its fragment, the main thread does while it is in
`onDestroyView`) and `Holding` (at `write` there is a packet).
`MonitorFragmentsProofs` first proves that each operation of port, shell and csiutil keeps
their types, and then has one lemma for each group of actions.

`UiReturnsToIdle` is not inductive either: it says nothing while a thread runs.
`CapturingHasThread` says that a value `capturing` - displayed, or posted and not
yet overwritten - is backed by a thread of that fragment that has posted and has
not yet posted idle. Only three actions touch that balance (`PostCapturing`,
`PostIdle`, `DispatchPosted`); every other step is an instance of one frame
lemma. With no thread left the value cannot be `capturing`.

`CrashNeedsRace` follows from `NullNeedsRace`: an agent between the null test and
`close()` finds its field null only if somebody else is behind the same cleanup.
Only `SetNull` assigns null, and it leaves its agent at `closeFile` or - for the
main thread, which by `Located` has a fragment - at `looper`; both are places
from which it cannot get back to before the cleanup. Outside the cleanup only two handlers throw,
a menu item and the button, for which `HandlerThrows` says when.

Neither statement about the files is inductive: both speak of lines, and a
packet becomes a line three steps after it has been sent. `Recording` follows it
all the way. Every datagram anywhere has been sent (`AllIssued`). At most one
socket is open, and only an open socket has datagrams in its buffer
(`OneSocket`). The buffer is in the order of sending (`QueueInOrder`), and what a
session holds or a file contains is older than every datagram of the same csiutil
that is still in it (`TakenBefore`). A packet in the hands of a session is in no other's,
and in no line (`HeldOnce`). So the packet that `receive` takes is new, `WriteText` moves it
to one file, and the lines stay distinct and in order (`LinesOnce`,
`LinesInOrder`). This needs that a csiutil counts from one only once:
`LaunchedOnce` says that each launch is written once, waits in one place of one
stdin, and finds its csiutil not yet started. Nothing is assumed of `Env`: two
sessions may read one socket through two fields, a writer may be replaced under a
session, and both statements hold.

What a user who waits can count on is proved in layers (PatientProofs), each an
invariant relative to those before it, together `Capturing`:

* `Sockets`: of one screen at most one thread is a session, so the field is its own from
  `assign` on; nobody is between the null test and the assignment of null while a session has
  yet to store its socket (`NoneBehind`), so that no cleanup can erase a socket that it has not closed
  (`Shut`). Being patient is enough for that: leaving the screen,
  dead shells and late sleeps only add cleanups of a field whose socket is closed first.
* `Writers`: the same for the file. It needs `Stays`, because a screen that is left and entered
  again has a new `FileHandler` and the session of the old one goes on.
* `Idle`: a stop cleans up only when no session is on its way to its socket (`NoOpener`),
  so it closes what the session would receive from, and only then posts idle
  (`Silenced`). Here the sleeps come in: `Timely` is what puts the launch before the kill and the
  bind before the cleanup.
* `Commands`: launches come before kills in the stdin of the shell in the field
  (`LaunchFirst`), a stop that sleeps has its kill ahead of every csiutil that lives (`KillComes`), and a csiutil
  that lives is job 1 (`LiveWorks`) - `kill %1` hits the right one.
* `Sessions`: beside a session only stops are at work (`OnlyStoppers`), and until one has
  killed the csiutil, socket and file of the session are its own and open (`Undisturbed`).
* `Data`: so the buffer holds datagrams of that csiutil only (`OwnQueue`), which go on where the
  session has got to (`Consecutive`), without a gap, as the buffer is roomy (`NoneLost`).
  Line k of the file is packet k (`Prefixes`), which is `RecordsPrefix`.
* `Complete` adds that the stop message comes after the last packet (`StopCounts`); only the loss of the
  interface makes csiutil say it earlier, hence `Steady`. A session that nobody
  stopped ends by that message, with all packets in the file (`Finished`).
* `Stops` says what `CaptureFiles` needs and lines do not show. While a file is open everybody beside
  its session is a stop (`Escorted`), and the shell is there for the stop to write to
  (`ShellStays`): a stop whose `kill` throws posts idle without a cleanup. Until a stop goes on, the
  session has its socket (`Keeps`), so it comes to its `closeFile` only with all packets
  (`ClosesWhole`). And whoever is about to post idle has left no file open (`ClosedFirst`), whether he
  closed it himself or found it closed.

The refinement is then one lemma for each action of `CaptureFiles`: the step of a thread that opens,
writes or closes the file, the step with which a thread becomes a stop (`OpensOn`: from `unborn`, or
from `launch` by an exception), and the last step of a thread. That nothing else changes a phase is
`PhaseStays`: past its launch a thread neither becomes a stop nor ceases to be one (`StopperBack`,
`StopperStays`), although its command line travels from the shell's stdin to csiutil meanwhile.

For the injection screen `Anchored` says what the places of the threads mean for
fields and locals (a task has parameters, the field is not null while any task
lives, a task in its last tick has run out), and makes `TypeOK` inductive;
`HalfSecondsRange` keeps the countdown an int, by one lemma on `Wrap` and one on
the quotient. `InjectingHasTimer` says nothing in the middle of a click;
`Backed` extends it over the handler: after the post a start either reaches
`schedule` or marks itself failed. `CrashNeedsStaleTick` needs two more:
`OnlyPastCancelled` (no Timer is cancelled before it has been assigned to the
field) and `StaleTick` (a Timer cancelled between its assignment and its schedule
has met a task that has run out). `NoStrayTimer` follows, for a user who waits, from
`OneAtATime`: while a click is being handled no task is left that would still post, at
other times only the one in the field, and then the screen says injecting.
`NeverIdleEarly` follows from `HalfSecondsFits` (each of the two quotients of the
countdown loses less than a second) and from `left` not being positive at the end.

`SameBlock` speaks of the end only. `BlockInv` says what holds while options are
read: the locals are the fields of the request (`Agree`), and the struct is
`Draft(asked)`, the block of what has been asked for so far with `csi_collect` and
a delay nobody has given left zero. `DraftByte` gives a draft byte by byte; one
lemma per option shows that its stores lead from the draft of a request to the
draft of the request with that option (`DraftMacs` is the long one: appending
addresses by position is concatenation of the lists). At the end the bytes written
late are those of `Wanted`, because counts of at most 4 multiply to 12 or more
exactly for 3x4, 4x3 and 4x4 (`TwelveCaptures`). `FirmwareReads` follows by reading
the block back, `Lo(x) + 256 * Hi(x)` being `x` or, for a delay, `x % 65536`.
`PrintsBlock` is arithmetic: a group of three bytes is a number of 24 bits, this is its four
digits (`Sextets`) and its three bytes (`Octets`), and the two digits that the last group has no
bytes for, printed as padding and read as 0, would have been 0 (`LastDigits`).

For csiutil one invariant, `IInv`, serves the first five: `FilterState` (which filter is on at which
`pc`, and what `userland` then is), `Overtaking` (what is on its way while the total filter
is on is in `overtook`; once the program is on, it matches or is in `overtook`) and `HandedOn` (what
has been handed on is ours, and matches or is in `overtook`), over the bounds on counts and indices
of `Bounds` and `Capture`. `SendsOnce` adds `Sending`: a packet handed on has one datagram in `wire`
with its number, or none if its size wrapped; no number is used that has not been handed on. The refinement adds `Progress`: the count is not reached before `stop`, and the receive buffer
of the app, of `Count + 1` places, always has room - there are no more datagrams than packets, and one.
One lemma per action then shows its RootShell step or that nothing RootShell knows has changed.

For Chanspec the state is small and the arithmetic is not. A chanspec that is composed of a channel
that fits a byte has the fields it was composed of (`ComposeIs`; the or of the code is written bit
by bit in the model, and a larger channel gives some number of 16 bits, `ComposeRange`). The centers of a
table lie at least their own width apart (`Table`), so that a primary channel fits at most one of them
(`OneCenter`): the first match of a loop is the only one, and so the center that a printed
chanspec came from is found again (`WideFinds`). The loop of `wf_channel2chspec` is another one: what it
finds is a center that fits (`Found`), so a valid channel with the right primary channel (`FoundValid`),
and as only one center fits it is that of the channel one started from (`FoundAgain`); in the
2.4 GHz band no center does (`NoneFound`). `Readable` lists the four shapes of a readable text;
80+80 chanspecs have a width that no valid one has (`PairIs`). The invariant `CInv` says that
a text that follows a chanspec is its print, which is what `RoundTrip` needs to know of the text.

Model-checked only: `FilterCompiler` (`CodeMeans` and `EveryRoundCounts`: its functions are
recursive over pointers, and what they compute is an induction over the program), and liveness -
`StopEnds`, `SessionEnds`, `UiSettles` and `InjectionEnds` - which TLAPS
does not cover here. Every other property of a passing run is stated by a theorem.

## 5. Plan

1. `InjectRate`: the rate spinners and the rate word of InjectPhyConf, the frame
   file of InjectMacConf and its reading by injectutil.
2. `FileNames`: cursor and components of FileHandler, `createFile` with paths.
3. `Decoder`: size, magic and status checks of JNICsi.
4. Filters: arithmetic relations (`gen_relation`, registers) and `net`; the optimizer as a
   refinement, for tools that ask for it.
5. Proofs about the modules above.
