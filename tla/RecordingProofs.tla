-------------------------- MODULE RecordingProofs --------------------------
(***************************************************************************)
(* No captured packet is recorded twice, and no session records packets    *)
(* out of order, for any number of threads, instances, shells and packets, *)
(* any buffer size and any Env.                                            *)
(*                                                                         *)
(* A packet is in one place at a time: in the buffer of the one socket     *)
(* that is open, in the hands of a session that has received it, or in a   *)
(* line.  A csiutil numbers what it sends, is launched only once, and what *)
(* has left the buffer is older than what is in it.                        *)
(***************************************************************************)
EXTENDS MonitorFragmentsProofs, MonitorFiles

-----------------------------------------------------------------------------
(* Every csiutil is launched at most once *)

LaunchedOnce ==
    /\ \A u \in Threads : pc[u] \in Early => utilPc[u] = "none"
    /\ \A u \in Threads, s \in Shells : \A k \in 1..Len(stdin[s]) :
         Commanded(s, k, u) => utilPc[u] = "none" /\ pc[u] \notin Early
    /\ \A u \in Threads, r \in Shells, s \in Shells :
         \A j \in 1..Len(stdin[r]), k \in 1..Len(stdin[s]) :
             Commanded(r, j, u) /\ Commanded(s, k, u) => r = s /\ j = k
    /\ \A s \in Shells : job1[s] \in Threads => utilPc[job1[s]] # "none"

-----------------------------------------------------------------------------
(* Datagrams have been sent *)

Issued(d) ==
    /\ utilPc[d.src] \in {"loop", "close", "exit"}
    /\ utilPc[d.src] = "loop" => d.n <= sent[d.src]

Writes(t) == pc[t] = "write"

AllIssued ==
    /\ \A s \in Threads : \A k \in 1..Len(rxQueue[s]) : Issued(rxQueue[s][k])
    /\ \A t \in Threads : Writes(t) => Issued(packet[t]) /\ ~IsStop(packet[t])
    /\ \A w \in Threads : \A k \in 1..Len(file[w]) :
         Issued(file[w][k].packet) /\ ~IsStop(file[w][k].packet)

OneSocket ==
    /\ \A r \in openSockets, s \in openSockets : r = s
    /\ \A s \in Threads : Len(rxQueue[s]) > 0 => s \in openSockets

-----------------------------------------------------------------------------
(* Who has which datagram *)

(* c is an earlier datagram of the same csiutil than d, if d is a packet. *)
Before(c, d) == c.src = d.src /\ ~IsStop(d) => c.n < d.n

QueueInOrder ==
    \A s \in Threads : \A j \in 1..Len(rxQueue[s]), k \in 1..Len(rxQueue[s]) :
        j < k => Before(rxQueue[s][j], rxQueue[s][k])

TakenBefore ==
    \A s \in Threads : \A k \in 1..Len(rxQueue[s]) :
        /\ \A t \in Threads : Writes(t) => Before(packet[t], rxQueue[s][k])
        /\ \A w \in Threads : \A j \in 1..Len(file[w]) :
             Before(file[w][j].packet, rxQueue[s][k])

HeldOnce ==
    /\ \A t \in Threads, u \in Threads :
         Writes(t) /\ Writes(u) /\ packet[t] = packet[u] => t = u
    /\ \A t \in Threads, w \in Threads : \A k \in 1..Len(file[w]) :
         Writes(t) => /\ file[w][k].packet # packet[t]
                      /\ file[w][k].by = t => Before(file[w][k].packet, packet[t])

LinesOnce ==
    \A w \in Threads, x \in Threads : \A j \in 1..Len(file[w]), k \in 1..Len(file[x]) :
        file[w][j].packet = file[x][k].packet => w = x /\ j = k

LinesInOrder ==
    \A w \in Threads : \A j \in 1..Len(file[w]), k \in 1..Len(file[w]) :
        j < k /\ file[w][j].by = file[w][k].by
            => Before(file[w][j].packet, file[w][k].packet)

Recording ==
    /\ AllIssued /\ OneSocket /\ QueueInOrder /\ TakenBefore
    /\ HeldOnce /\ LinesOnce /\ LinesInOrder

-----------------------------------------------------------------------------
(* The types, element by element *)

LEMMA Elements ==
    ASSUME TypeInv
    PROVE  /\ \A s \in Threads :
                /\ rxQueue[s] \in Seq(Datagram) /\ Len(rxQueue[s]) \in Nat
                /\ \A k \in 1..Len(rxQueue[s]) : rxQueue[s][k] \in Datagram
           /\ \A w \in Threads :
                /\ file[w] \in Seq(Line) /\ Len(file[w]) \in Nat
                /\ \A k \in 1..Len(file[w]) :
                     file[w][k].packet \in Datagram /\ file[w][k].by \in Threads
           /\ \A t \in Threads : Writes(t) => packet[t] \in Datagram
<1>1. \A s \in Threads : rxQueue[s] \in Seq(Datagram)
  BY DEF TypeInv, TypeOK, LoopbackTypeOK
<1>2. \A w \in Threads : file[w] \in Seq(Line)
  BY DEF TypeInv, TypeOK, FragmentTypeOK
<1>3. \A l \in Line : l.packet \in Datagram /\ l.by \in Threads
  BY DEF Line
<1>4. \A t \in Threads : Writes(t) => packet[t] \in Datagram
  BY DEF TypeInv, Holding, Writes
<1>5. ASSUME NEW w \in Threads
      PROVE  /\ file[w] \in Seq(Line) /\ Len(file[w]) \in Nat
             /\ \A k \in 1..Len(file[w]) :
                  file[w][k].packet \in Datagram /\ file[w][k].by \in Threads
  <2>1. \A k \in 1..Len(file[w]) : file[w][k] \in Line
    BY <1>2
  <2>2. QED
    BY <1>2, <1>3, <2>1
<1>6. QED
  BY <1>1, <1>4, <1>5

LEMMA AppendOne ==
    ASSUME NEW S, NEW q \in Seq(S), NEW e \in S
    PROVE  /\ Len(q) \in Nat /\ Len(Append(q, e)) = Len(q) + 1
           /\ \A k \in 1..Len(q) : Append(q, e)[k] = q[k]
           /\ Append(q, e)[Len(q) + 1] = e
OBVIOUS

LEMMA TailOne ==
    ASSUME NEW S, NEW q \in Seq(S), q # << >>
    PROVE  /\ Len(q) \in Nat \ {0} /\ Len(Tail(q)) = Len(q) - 1
           /\ Head(q) = q[1]
           /\ \A k \in 1..Len(q) - 1 : Tail(q)[k] = q[k + 1]
OBVIOUS

LEMMA InitRecording == Init => LaunchedOnce /\ Recording
<1> SUFFICES ASSUME Init PROVE LaunchedOnce /\ Recording
  OBVIOUS
<1>1. /\ \A s \in Threads : rxQueue[s] = << >> /\ file[s] = << >> /\ ~Writes(s)
      /\ \A s \in Shells : stdin[s] = << >> /\ job1[s] = NONE
      /\ \A u \in Threads : utilPc[u] = "none"
      /\ openSockets = {}
  BY FragmentAssumption DEF Init, LoopbackInit, RootInit, Writes, Agents
<1>2. LaunchedOnce
  BY <1>1, NoneAssumption DEF LaunchedOnce
<1>3. Recording
  BY <1>1 DEF Recording, AllIssued, OneSocket, QueueInOrder, TakenBefore, HeldOnce,
              LinesOnce, LinesInOrder
<1>4. QED
  BY <1>2, <1>3

-----------------------------------------------------------------------------
(* What a step does to the datagrams *)

(* A step that moves no datagram; it may empty the buffer of a socket.     *)
LEMMA RecordingFrame ==
    ASSUME TypeInv, Recording, OneSocket', file' = file,
           \A s \in Threads : rxQueue'[s] = rxQueue[s] \/ rxQueue'[s] = << >>,
           \A t \in Threads : Writes(t)' => Writes(t) /\ packet'[t] = packet[t],
           \A d \in Datagram : Issued(d) => Issued(d)'
    PROVE  Recording'
<1>1. \A s \in Threads : \A k \in 1..Len(rxQueue'[s]) :
        rxQueue'[s] = rxQueue[s] /\ k \in 1..Len(rxQueue[s])
  OBVIOUS
<1>2. AllIssued'
  BY <1>1, Elements DEF Recording, AllIssued
<1>3. QueueInOrder'
  BY <1>1 DEF Recording, QueueInOrder, Before
<1>4. TakenBefore'
  BY <1>1 DEF Recording, TakenBefore, Before
<1>5. HeldOnce' /\ LinesOnce' /\ LinesInOrder'
  BY DEF Recording, HeldOnce, LinesOnce, LinesInOrder, Before
<1>6. QED
  BY <1>2, <1>3, <1>4, <1>5 DEF Recording

(* A datagram is delivered that is newer than all others of its csiutil.   *)
LEMMA DeliverRecording ==
    ASSUME TypeInv, Recording, NEW d \in Datagram, Deliver(d), Issued(d)',
           UNCHANGED <<file, packet, pc>>,
           \A c \in Datagram : Issued(c) => Issued(c)' /\ Before(c, d)
    PROVE  Recording'
<1>1. \A s \in Threads :
        \/ rxQueue'[s] = rxQueue[s]
        \/ s \in openSockets /\ rxQueue'[s] = Append(rxQueue[s], d)
  BY DEF Deliver
<1>2. \A s \in Threads : \A k \in 1..Len(rxQueue'[s]) :
        \/ k \in 1..Len(rxQueue[s]) /\ rxQueue'[s][k] = rxQueue[s][k]
        \/ k = Len(rxQueue[s]) + 1 /\ rxQueue'[s][k] = d
  <2> SUFFICES ASSUME NEW s \in Threads, rxQueue'[s] = Append(rxQueue[s], d),
                      NEW k \in 1..Len(rxQueue'[s])
               PROVE  \/ k \in 1..Len(rxQueue[s]) /\ rxQueue'[s][k] = rxQueue[s][k]
                      \/ k = Len(rxQueue[s]) + 1 /\ rxQueue'[s][k] = d
    BY <1>1
  <2>1. rxQueue[s] \in Seq(Datagram)
    BY Elements
  <2>2. QED
    BY <2>1, AppendOne
<1>3. /\ \A s \in Threads : Len(rxQueue[s]) \in Nat
      /\ \A s \in Threads : \A k \in 1..Len(rxQueue[s]) :
           rxQueue[s][k] \in Datagram /\ Issued(rxQueue[s][k])
      /\ \A t \in Threads : Writes(t) => packet[t] \in Datagram /\ Issued(packet[t])
      /\ \A w \in Threads : \A j \in 1..Len(file[w]) :
           file[w][j].packet \in Datagram /\ Issued(file[w][j].packet)
  BY Elements DEF Recording, AllIssued
<1>4. AllIssued'
  BY <1>2, <1>3 DEF Recording, AllIssued, Writes
<1>5. OneSocket'
  BY <1>1 DEF Recording, OneSocket, Deliver
<1>6. QueueInOrder'
  <2> SUFFICES ASSUME NEW s \in Threads,
                      NEW j \in 1..Len(rxQueue'[s]), NEW k \in 1..Len(rxQueue'[s]), j < k
               PROVE  Before(rxQueue'[s][j], rxQueue'[s][k])
    BY DEF QueueInOrder, Before
  <2>1. j \in 1..Len(rxQueue[s]) /\ rxQueue'[s][j] = rxQueue[s][j]
    BY <1>2, <1>3
  <2>2. CASE k \in 1..Len(rxQueue[s]) /\ rxQueue'[s][k] = rxQueue[s][k]
    BY <2>1, <2>2 DEF Recording, QueueInOrder
  <2>3. CASE rxQueue'[s][k] = d
    BY <1>3, <2>1, <2>3
  <2>4. QED
    BY <1>2, <2>2, <2>3
<1>7. TakenBefore'
  <2> SUFFICES ASSUME NEW s \in Threads, NEW k \in 1..Len(rxQueue'[s])
               PROVE  /\ \A t \in Threads : Writes(t) => Before(packet[t], rxQueue'[s][k])
                      /\ \A w \in Threads : \A j \in 1..Len(file[w]) :
                           Before(file[w][j].packet, rxQueue'[s][k])
    BY DEF TakenBefore, Before, Writes
  <2>1. CASE k \in 1..Len(rxQueue[s]) /\ rxQueue'[s][k] = rxQueue[s][k]
    BY <2>1 DEF Recording, TakenBefore
  <2>2. CASE rxQueue'[s][k] = d
    BY <1>3, <2>2
  <2>3. QED
    BY <1>2, <2>1, <2>2
<1>8. HeldOnce' /\ LinesOnce' /\ LinesInOrder'
  BY DEF Recording, HeldOnce, LinesOnce, LinesInOrder, Before, Writes
<1>9. QED
  BY <1>4, <1>5, <1>6, <1>7, <1>8 DEF Recording

(* receive() takes the oldest datagram of the only buffer that has any.    *)
LEMMA ReceiveRecording ==
    ASSUME TypeInv, Recording, NEW t \in Threads, Receive(t)
    PROVE  Recording'
<1> DEFINE s == ref[t]
           d == Head(rxQueue[s])
<1>1. /\ s \in Threads /\ s \in openSockets /\ rxQueue[s] # << >>
      /\ rxQueue' = [rxQueue EXCEPT ![s] = Tail(@)]
      /\ openSockets' = openSockets
      /\ rxQueue \in [Threads -> Seq(Datagram)]
  BY DEF Receive, TakeDatagram, TypeInv, TypeOK, LoopbackTypeOK
<1>2. /\ Len(rxQueue[s]) \in Nat \ {0} /\ Len(Tail(rxQueue[s])) = Len(rxQueue[s]) - 1
      /\ d = rxQueue[s][1] /\ d \in Datagram
      /\ \A k \in 1..Len(rxQueue[s]) - 1 : Tail(rxQueue[s])[k] = rxQueue[s][k + 1]
  <2>1. rxQueue[s] \in Seq(Datagram)
    BY <1>1
  <2>2. QED
    BY <1>1, <2>1, TailOne, Elements
<1>3. \A r \in Threads : \A k \in 1..Len(rxQueue'[r]) :
        /\ r = s /\ k \in 1..Len(rxQueue[s]) - 1
        /\ rxQueue'[r][k] = rxQueue[s][k + 1]
  <2> SUFFICES ASSUME NEW r \in Threads, NEW k \in 1..Len(rxQueue'[r])
               PROVE  /\ r = s /\ k \in 1..Len(rxQueue[s]) - 1
                      /\ rxQueue'[r][k] = rxQueue[s][k + 1]
    OBVIOUS
  <2>1. CASE r # s
    <3>1. rxQueue'[r] = rxQueue[r] /\ Len(rxQueue[r]) \in Nat
      BY <1>1, <2>1, Elements
    <3>2. r \in openSockets
      BY <3>1 DEF Recording, OneSocket
    <3>3. QED
      BY <1>1, <2>1, <3>2 DEF Recording, OneSocket
  <2>2. CASE r = s
    BY <1>1, <1>2, <2>2
  <2>3. QED
    BY <2>1, <2>2
<1>4. \A u \in Threads : Writes(u)' =>
        \/ u # t /\ Writes(u) /\ packet'[u] = packet[u]
        \/ u = t /\ packet'[u] = d /\ ~IsStop(d)
  <2>1. pc \in [Agents -> ThreadPc \cup {"looper"}] /\ t \in Agents /\ Threads \subseteq Agents
        /\ packet \in [Threads -> Datagram \cup {NONE}]
    BY DEF TypeInv, TypeOK, FragmentTypeOK, Agents
  <2>2. QED
    BY <2>1 DEF Receive, GoTo, Writes
<1>5. file' = file /\ \A c : Issued(c)' <=> Issued(c)
  BY DEF Receive, fileVars, rootVars, utilVars, Issued
<1>6. /\ \A k \in 1..Len(rxQueue[s]) - 1 : Before(d, rxQueue[s][k + 1])
      /\ \A u \in Threads : Writes(u) => Before(packet[u], d)
      /\ \A w \in Threads : \A j \in 1..Len(file[w]) : Before(file[w][j].packet, d)
      /\ Issued(d)
  BY <1>1, <1>2 DEF Recording, QueueInOrder, TakenBefore, AllIssued
<1> HIDE DEF s, d
<1>7. AllIssued'
  <2>1. \A r \in Threads : \A k \in 1..Len(rxQueue'[r]) : Issued(rxQueue'[r][k])
    BY <1>1, <1>2, <1>3 DEF Recording, AllIssued
  <2>2. QED
    BY <1>4, <1>5, <1>6, <2>1 DEF Recording, AllIssued
<1>8. OneSocket'
  BY <1>1, <1>3 DEF Recording, OneSocket
<1>9. QueueInOrder'
  <2>1. ASSUME NEW r \in Threads, NEW j \in 1..Len(rxQueue'[r]),
               NEW k \in 1..Len(rxQueue'[r]), j < k
        PROVE  Before(rxQueue'[r][j], rxQueue'[r][k])
    <3>1. /\ rxQueue'[r][j] = rxQueue[s][j + 1] /\ rxQueue'[r][k] = rxQueue[s][k + 1]
          /\ j \in 1..Len(rxQueue[s]) - 1 /\ k \in 1..Len(rxQueue[s]) - 1
      BY <1>3
    <3>2. j + 1 \in 1..Len(rxQueue[s]) /\ k + 1 \in 1..Len(rxQueue[s]) /\ j + 1 < k + 1
      BY <1>2, <2>1, <3>1
    <3>3. QED
      BY <1>1, <3>1, <3>2 DEF Recording, QueueInOrder
  <2>2. QED
    BY <2>1 DEF QueueInOrder, Before
<1>10. TakenBefore'
  <2>1. ASSUME NEW r \in Threads, NEW k \in 1..Len(rxQueue'[r]),
               NEW u \in Threads, Writes(u)'
        PROVE  Before(packet'[u], rxQueue'[r][k])
    <3>1. /\ k \in 1..Len(rxQueue[s]) - 1 /\ k + 1 \in 1..Len(rxQueue[s])
          /\ rxQueue'[r][k] = rxQueue[s][k + 1]
      BY <1>2, <1>3
    <3>2. CASE u # t
      BY <1>1, <1>4, <2>1, <3>1, <3>2 DEF Recording, TakenBefore
    <3>3. CASE u = t
      BY <1>4, <1>6, <2>1, <3>1, <3>3
    <3>4. QED
      BY <3>2, <3>3
  <2>2. ASSUME NEW r \in Threads, NEW k \in 1..Len(rxQueue'[r]),
               NEW w \in Threads, NEW j \in 1..Len(file[w])
        PROVE  Before(file[w][j].packet, rxQueue'[r][k])
    BY <1>1, <1>2, <1>3 DEF Recording, TakenBefore
  <2>3. QED
    BY <1>5, <2>1, <2>2 DEF TakenBefore, Before
<1>11. HeldOnce'
  <2>1. d.n < d.n => FALSE
    BY <1>2 DEF Datagram
  <2>2. \A u \in Threads : Writes(u) /\ ~IsStop(d) => packet[u] # d
    BY <1>6, <2>1 DEF Before
  <2>3. \A w \in Threads : \A j \in 1..Len(file[w]) : ~IsStop(d) => file[w][j].packet # d
    BY <1>6, <2>1 DEF Before
  <2>4. ASSUME NEW u \in Threads, NEW v \in Threads, Writes(u)', Writes(v)',
               packet'[u] = packet'[v]
        PROVE  u = v
    BY <1>4, <2>2, <2>4 DEF Recording, HeldOnce
  <2>5. ASSUME NEW u \in Threads, NEW w \in Threads, NEW k \in 1..Len(file[w]), Writes(u)'
        PROVE  /\ file[w][k].packet # packet'[u]
               /\ file[w][k].by = u => Before(file[w][k].packet, packet'[u])
    BY <1>4, <1>6, <2>3, <2>5 DEF Recording, HeldOnce
  <2>6. QED
    BY <1>5, <2>4, <2>5 DEF HeldOnce, Before
<1>12. LinesOnce' /\ LinesInOrder'
  BY <1>5 DEF Recording, LinesOnce, LinesInOrder, Before
<1>13. QED
  BY <1>7, <1>8, <1>9, <1>10, <1>11, <1>12 DEF Recording

(* writeText moves what a session holds to the end of a file, or drops it. *)
LEMMA WriteRecording ==
    ASSUME TypeInv, Recording, NEW t \in Threads, WriteText(t)
    PROVE  Recording'
<1> DEFINE w == bw[inst[t]]
           line == [by |-> t, packet |-> packet[t]]
<1>1. /\ UNCHANGED <<openSockets, rxQueue>> /\ \A c : Issued(c)' <=> Issued(c)
      /\ Writes(t) /\ packet' = [packet EXCEPT ![t] = NONE]
  BY DEF WriteText, At, loopbackVars, rootVars, utilVars, Issued, Writes
<1>2. \A u \in Threads : Writes(u)' => u # t /\ Writes(u) /\ packet'[u] = packet[u]
  <2>1. pc \in [Agents -> ThreadPc \cup {"looper"}] /\ t \in Agents /\ Threads \subseteq Agents
        /\ packet \in [Threads -> Datagram \cup {NONE}]
    BY DEF TypeInv, TypeOK, FragmentTypeOK, Agents
  <2>2. QED
    BY <1>1, <2>1 DEF WriteText, GoTo, Writes
<1>3. OneSocket'
  BY <1>1 DEF Recording, OneSocket
<1>4. CASE w \notin openWriters
  <2>1. file' = file
    BY <1>4 DEF WriteText
  <2>2. QED
    BY <1>1, <1>2, <1>3, <2>1, RecordingFrame
<1>5. CASE w \in openWriters
  <2>1. w \in Threads /\ file' = [file EXCEPT ![w] = Append(@, line)]
        /\ file \in [Threads -> Seq(Line)] /\ packet[t] \in Datagram /\ line \in Line
    BY <1>1, <1>5, Elements DEF WriteText, TypeInv, TypeOK, FragmentTypeOK, Line
  <2>2. \A x \in Threads : \A k \in 1..Len(file'[x]) :
          \/ k \in 1..Len(file[x]) /\ file'[x][k] = file[x][k]
          \/ x = w /\ k = Len(file[w]) + 1 /\ file'[x][k] = line
    <3> SUFFICES ASSUME NEW x \in Threads, NEW k \in 1..Len(file'[x])
                 PROVE  \/ k \in 1..Len(file[x]) /\ file'[x][k] = file[x][k]
                        \/ x = w /\ k = Len(file[w]) + 1 /\ file'[x][k] = line
      OBVIOUS
    <3> HIDE DEF w, line
    <3>1. CASE x # w
      BY <2>1, <3>1
    <3>2. CASE x = w
      <4>1. file[w] \in Seq(Line) /\ file'[x] = Append(file[w], line)
        BY <2>1, <3>2
      <4>2. QED
        BY <2>1, <3>2, <4>1, AppendOne
    <3>3. QED
      BY <3>1, <3>2
  <2>3. line.by = t /\ line.packet = packet[t]
    OBVIOUS
  <2>4. /\ Issued(packet[t]) /\ ~IsStop(packet[t])
        /\ \A s \in Threads : \A k \in 1..Len(rxQueue[s]) : Before(packet[t], rxQueue[s][k])
        /\ \A u \in Threads : Writes(u) /\ u # t => packet[u] # packet[t]
        /\ \A x \in Threads : \A k \in 1..Len(file[x]) :
             /\ file[x][k].packet # packet[t]
             /\ file[x][k].by = t => Before(file[x][k].packet, packet[t])
        /\ \A x \in Threads : Len(file[x]) \in Nat
    BY <1>1, Elements DEF Recording, AllIssued, TakenBefore, HeldOnce
  <2> HIDE DEF w, line
  <2>5. AllIssued'
    <3>1. ASSUME NEW x \in Threads, NEW k \in 1..Len(file'[x])
          PROVE  Issued(file'[x][k].packet) /\ ~IsStop(file'[x][k].packet)
      BY <2>2, <2>3, <2>4 DEF Recording, AllIssued
    <3>2. QED
      BY <1>1, <1>2, <3>1 DEF Recording, AllIssued, IsStop
  <2>6. QueueInOrder'
    BY <1>1 DEF Recording, QueueInOrder, Before
  <2>7. TakenBefore'
    <3>1. ASSUME NEW s \in Threads, NEW k \in 1..Len(rxQueue[s]),
                 NEW x \in Threads, NEW j \in 1..Len(file'[x])
          PROVE  Before(file'[x][j].packet, rxQueue[s][k])
      BY <2>2, <2>3, <2>4 DEF Recording, TakenBefore
    <3>2. QED
      BY <1>1, <1>2, <3>1 DEF Recording, TakenBefore, Before
  <2>8. HeldOnce'
    <3>1. ASSUME NEW u \in Threads, NEW x \in Threads, NEW k \in 1..Len(file'[x]), Writes(u)'
          PROVE  /\ file'[x][k].packet # packet'[u]
                 /\ file'[x][k].by = u => Before(file'[x][k].packet, packet'[u])
      BY <1>2, <2>2, <2>3, <2>4, <3>1 DEF Recording, HeldOnce
    <3>2. QED
      BY <1>2, <3>1 DEF Recording, HeldOnce, Before
  <2>9. LinesOnce'
    <3>1. ASSUME NEW x \in Threads, NEW y \in Threads,
                 NEW j \in 1..Len(file'[x]), NEW k \in 1..Len(file'[y]),
                 file'[x][j].packet = file'[y][k].packet
          PROVE  x = y /\ j = k
      <4>1. CASE /\ j \in 1..Len(file[x]) /\ file'[x][j] = file[x][j]
                 /\ k \in 1..Len(file[y]) /\ file'[y][k] = file[y][k]
        BY <3>1, <4>1 DEF Recording, LinesOnce
      <4>2. CASE x = w /\ j = Len(file[w]) + 1 /\ file'[x][j] = line
        <5>1. file'[y][k].packet = packet[t]
          BY <2>3, <3>1, <4>2
        <5>2. ~(k \in 1..Len(file[y]) /\ file'[y][k] = file[y][k])
          BY <2>4, <5>1
        <5>3. QED
          BY <2>2, <4>2, <5>2
      <4>3. CASE y = w /\ k = Len(file[w]) + 1 /\ file'[y][k] = line
        <5>1. file'[x][j].packet = packet[t]
          BY <2>3, <3>1, <4>3
        <5>2. ~(j \in 1..Len(file[x]) /\ file'[x][j] = file[x][j])
          BY <2>4, <5>1
        <5>3. QED
          BY <2>2, <4>3, <5>2
      <4>4. QED
        BY <2>2, <4>1, <4>2, <4>3
    <3>2. QED
      BY <3>1 DEF LinesOnce
  <2>10. LinesInOrder'
    <3>1. ASSUME NEW x \in Threads, NEW j \in 1..Len(file'[x]), NEW k \in 1..Len(file'[x]),
                 j < k, file'[x][j].by = file'[x][k].by
          PROVE  Before(file'[x][j].packet, file'[x][k].packet)
      <4>1. j \in 1..Len(file[x]) /\ file'[x][j] = file[x][j]
        BY <2>2, <2>4, <3>1
      <4>2. QED
        BY <2>2, <2>3, <2>4, <3>1, <4>1 DEF Recording, LinesInOrder
    <3>2. QED
      BY <3>1 DEF LinesInOrder, Before
  <2>11. QED
    BY <1>3, <2>5, <2>6, <2>7, <2>8, <2>9, <2>10 DEF Recording
<1>6. QED
  BY <1>4, <1>5

-----------------------------------------------------------------------------
(* The commands *)

(* A step that adds no launch, and takes no csiutil from or back to "none".*)
LEMMA LaunchedFrame ==
    ASSUME LaunchedOnce,
           \A u \in Threads : utilPc'[u] = "none" <=> utilPc[u] = "none",
           \A u \in Threads : pc'[u] \in Early => pc[u] \in Early,
           \A s \in Shells, u \in Threads : \A k \in 1..Len(stdin'[s]) :
               Commanded(s, k, u)' => k \in 1..Len(stdin[s]) /\ Commanded(s, k, u),
           \A s \in Shells : job1'[s] \in Threads => job1'[s] = job1[s]
    PROVE  LaunchedOnce'
<1>1. \A u \in Threads : pc'[u] \in Early => utilPc'[u] = "none"
  BY DEF LaunchedOnce
<1>2. \A u \in Threads, s \in Shells : \A k \in 1..Len(stdin'[s]) :
        Commanded(s, k, u)' => utilPc'[u] = "none" /\ pc'[u] \notin Early
  BY DEF LaunchedOnce
<1>3. \A u \in Threads, r \in Shells, s \in Shells :
        \A j \in 1..Len(stdin'[r]), k \in 1..Len(stdin'[s]) :
             Commanded(r, j, u)' /\ Commanded(s, k, u)' => r = s /\ j = k
  BY DEF LaunchedOnce
<1>4. \A s \in Shells : job1'[s] \in Threads => utilPc'[job1'[s]] # "none"
  BY DEF LaunchedOnce
<1>5. QED
  BY <1>1, <1>2, <1>3, <1>4 DEF LaunchedOnce

LEMMA InputLaunched ==
    ASSUME TypeInv, LaunchedOnce, NEW b, NEW cmd \in Command, Input(b, cmd),
           cmd.op # "csiutil", \A u \in Threads : pc'[u] \in Early => pc[u] \in Early
    PROVE  LaunchedOnce'
<1>1. stdin \in [Shells -> Seq(Command)] /\ stdin' = [stdin EXCEPT ![b] = Append(@, cmd)]
      /\ UNCHANGED <<job1, utilPc>>
  BY DEF Input, utilVars, TypeInv, TypeOK, RootTypeOK
<1>2. ASSUME NEW s \in Shells, NEW u \in Threads, NEW k \in 1..Len(stdin'[s]),
             Commanded(s, k, u)'
      PROVE  k \in 1..Len(stdin[s]) /\ Commanded(s, k, u)
  <2>1. CASE s # b
    BY <1>1, <1>2, <2>1 DEF Commanded, LaunchCmd
  <2>2. CASE s = b
    <3>1. stdin[s] \in Seq(Command) /\ stdin'[s] = Append(stdin[s], cmd)
      BY <1>1, <2>2
    <3>2. k = Len(stdin[s]) + 1 => stdin'[s][k] = cmd
      BY <3>1, AppendOne
    <3>3. k # Len(stdin[s]) + 1
      BY <1>2, <3>2 DEF Commanded, LaunchCmd
    <3>4. k \in 1..Len(stdin[s]) /\ stdin'[s][k] = stdin[s][k]
      BY <3>1, <3>3, AppendOne
    <3>5. QED
      BY <1>2, <3>4 DEF Commanded, LaunchCmd
  <2>3. QED
    BY <2>1, <2>2
<1>3. QED
  BY <1>1, <1>2, LaunchedFrame

(* The session thread's launch is the only one of its csiutil.             *)
LEMMA LaunchLaunched ==
    ASSUME TypeInv, LaunchedOnce, NEW t \in Threads, LaunchCsiutil(t),
           Input(bp[inst[t]], LaunchCmd(t)), GoTo(t, "jobs")
    PROVE  LaunchedOnce'
<1> DEFINE b == bp[inst[t]]
           cmd == LaunchCmd(t)
<1>1. /\ stdin \in [Shells -> Seq(Command)] /\ stdin' = [stdin EXCEPT ![b] = Append(@, cmd)]
      /\ UNCHANGED <<job1, utilPc>> /\ cmd \in Command
  BY DEF Input, utilVars, TypeInv, TypeOK, RootTypeOK, LaunchCmd, Command
<1>2. /\ pc[t] = "launch" /\ pc'[t] = "jobs"
      /\ \A u \in Threads : u # t => pc'[u] = pc[u]
  BY DEF LaunchCsiutil, At, GoTo, TypeInv, TypeOK, FragmentTypeOK, Agents
<1>3. utilPc[t] = "none"
      /\ \A s \in Shells : \A k \in 1..Len(stdin[s]) : ~Commanded(s, k, t)
  BY <1>2 DEF LaunchedOnce, Early
<1>4. ASSUME NEW s \in Shells, NEW u \in Threads, NEW k \in 1..Len(stdin'[s]),
             Commanded(s, k, u)'
      PROVE  \/ u # t /\ k \in 1..Len(stdin[s]) /\ Commanded(s, k, u)
             \/ u = t /\ s = b /\ k = Len(stdin[b]) + 1
  <2> HIDE DEF b, cmd
  <2>1. CASE s # b
    BY <1>1, <1>3, <1>4, <2>1 DEF Commanded, LaunchCmd
  <2>2. CASE s = b
    <3>1. stdin[s] \in Seq(Command) /\ stdin'[s] = Append(stdin[s], cmd)
      BY <1>1, <2>2
    <3>2. CASE k = Len(stdin[s]) + 1
      <4>1. LaunchCmd(u) = LaunchCmd(t)
        BY <1>1, <1>4, <3>1, <3>2, AppendOne DEF Commanded, LaunchCmd, cmd
      <4>2. QED
        BY <2>2, <3>2, <4>1 DEF LaunchCmd
    <3>3. CASE k # Len(stdin[s]) + 1
      <4>1. k \in 1..Len(stdin[s]) /\ stdin'[s][k] = stdin[s][k]
        BY <1>1, <3>1, <3>3, AppendOne
      <4>2. QED
        BY <1>3, <1>4, <4>1 DEF Commanded, LaunchCmd
    <3>4. QED
      BY <3>2, <3>3
  <2>3. QED
    BY <2>1, <2>2
<1> HIDE DEF b, cmd
<1>5. \A u \in Threads : pc'[u] \in Early => utilPc'[u] = "none"
  BY <1>1, <1>2 DEF LaunchedOnce, Early
<1>6. \A u \in Threads, s \in Shells : \A k \in 1..Len(stdin'[s]) :
        Commanded(s, k, u)' => utilPc'[u] = "none" /\ pc'[u] \notin Early
  BY <1>1, <1>2, <1>3, <1>4 DEF LaunchedOnce, Early
<1>7. \A u \in Threads, r \in Shells, s \in Shells :
        \A j \in 1..Len(stdin'[r]), k \in 1..Len(stdin'[s]) :
             Commanded(r, j, u)' /\ Commanded(s, k, u)' => r = s /\ j = k
  BY <1>4 DEF LaunchedOnce
<1>8. \A s \in Shells : job1'[s] \in Threads => utilPc'[job1'[s]] # "none"
  BY <1>1 DEF LaunchedOnce
<1>9. QED
  BY <1>5, <1>6, <1>7, <1>8 DEF LaunchedOnce

(* The shell takes the next command; a launch is then waiting nowhere.     *)
LEMMA ExecuteStep ==
    ASSUME TypeInv, LaunchedOnce, NEW s \in Shells, ExecuteCommand(s),
           UNCHANGED fragmentVars
    PROVE  LaunchedOnce' /\ \A d \in Datagram : Issued(d) => Issued(d)'
<1> DEFINE q == stdin[s]
           cmd == Head(q)
           u == cmd.arg
<1>1. /\ stdin \in [Shells -> Seq(Command)] /\ q \in Seq(Command) /\ q # << >>
      /\ stdin' = [stdin EXCEPT ![s] = Tail(@)]
      /\ pc' = pc /\ job1 \in [Shells -> Threads \cup {NONE}]
      /\ utilPc \in [Threads -> UtilState] /\ sent \in [Threads -> 0..PacketCount]
  BY DEF ExecuteCommand, TypeInv, TypeOK, RootTypeOK, fragmentVars
<1>2. /\ Len(q) \in Nat \ {0} /\ Len(Tail(q)) = Len(q) - 1 /\ cmd = q[1]
      /\ \A k \in 1..Len(q) - 1 : Tail(q)[k] = q[k + 1]
  BY <1>1, TailOne
<1>3. \A r \in Shells : \A k \in 1..Len(stdin'[r]) :
        \/ r # s /\ stdin'[r] = stdin[r]
        \/ /\ r = s /\ k \in 1..Len(q) - 1 /\ k + 1 \in 1..Len(q)
           /\ stdin'[r][k] = q[k + 1]
  <2> HIDE DEF cmd
  <2>1. \A r \in Shells : r # s => stdin'[r] = stdin[r]
    BY <1>1
  <2>2. stdin'[s] = Tail(q)
    BY <1>1
  <2> HIDE DEF q
  <2>3. QED
    BY <1>2, <2>1, <2>2
<1>4. \A v \in Threads, r \in Shells : \A k \in 1..Len(stdin'[r]) :
        Commanded(r, k, v)' => \/ r # s /\ k \in 1..Len(stdin[r]) /\ Commanded(r, k, v)
                               \/ /\ r = s /\ k \in Nat \ {0}
                                  /\ k + 1 \in 1..Len(stdin[s]) /\ Commanded(s, k + 1, v)
  BY <1>2, <1>3 DEF Commanded, LaunchCmd
<1>5. \A v \in Threads, r \in Shells : \A k \in 1..Len(stdin'[r]) :
        Commanded(r, k, v)' => utilPc[v] = "none" /\ pc[v] \notin Early
  BY <1>4 DEF LaunchedOnce
<1>6. \A v \in Threads, p \in Shells, r \in Shells :
        \A j \in 1..Len(stdin'[p]), k \in 1..Len(stdin'[r]) :
             Commanded(p, j, v)' /\ Commanded(r, k, v)' => p = r /\ j = k
  <2> SUFFICES ASSUME NEW v \in Threads, NEW p \in Shells, NEW r \in Shells,
                      NEW j \in 1..Len(stdin'[p]), NEW k \in 1..Len(stdin'[r]),
                      Commanded(p, j, v)', Commanded(r, k, v)'
               PROVE  p = r /\ j = k
    OBVIOUS
  <2>1. CASE p # s /\ r # s
    BY <1>4, <2>1 DEF LaunchedOnce
  <2>2. CASE p = s /\ r # s
    BY <1>4, <2>2 DEF LaunchedOnce
  <2>3. CASE p # s /\ r = s
    BY <1>4, <2>3 DEF LaunchedOnce
  <2>4. CASE p = s /\ r = s
    <3>1. j + 1 = k + 1
      BY <1>4, <2>4 DEF LaunchedOnce
    <3>2. QED
      BY <1>3, <2>4, <3>1
  <2>5. QED
    BY <2>1, <2>2, <2>3, <2>4
<1>7. ASSUME \A v \in Threads : utilPc'[v] = "none" <=> utilPc[v] = "none",
             \A r \in Shells : job1'[r] \in Threads => job1'[r] = job1[r]
      PROVE  LaunchedOnce'
  BY <1>1, <1>5, <1>6, <1>7 DEF LaunchedOnce
<1>8. CASE cmd.op = "csiutil" /\ RunCsiutil(s, u)
  <2>1. utilPc' = [utilPc EXCEPT ![u] = "open"] /\ sent' = sent
        /\ (job1' = job1 \/ job1' = [job1 EXCEPT ![s] = u])
    BY <1>8 DEF RunCsiutil
  <2>2. cmd \in Command /\ u \in Threads \cup {NONE}
    <3>1. cmd \in Command
      BY <1>1, <1>2
    <3>2. QED
      BY <3>1 DEF Command
  <2>3. ASSUME NEW v \in Threads, u = v
        PROVE  LaunchedOnce' /\ \A d \in Datagram : Issued(d) => Issued(d)'
    <3>1. 1 \in 1..Len(stdin[s]) /\ Commanded(s, 1, v)
      <4>1. cmd = LaunchCmd(v)
        BY <1>8, <2>2, <2>3 DEF Command, LaunchCmd
      <4>2. stdin[s][1] = cmd
        BY <1>2
      <4>3. 1 \in 1..Len(stdin[s])
        BY <1>2
      <4>4. QED
        BY <4>1, <4>2, <4>3 DEF Commanded
    <3>2. utilPc[v] = "none" /\ pc[v] \notin Early
      BY <3>1 DEF LaunchedOnce
    <3>3. \A r \in Shells : \A k \in 1..Len(stdin'[r]) : ~Commanded(r, k, v)'
      <4> SUFFICES ASSUME NEW r \in Shells, NEW k \in 1..Len(stdin'[r]), Commanded(r, k, v)'
                   PROVE  FALSE
        OBVIOUS
      <4>1. \/ r # s /\ k \in 1..Len(stdin[r]) /\ Commanded(r, k, v)
            \/ r = s /\ k \in Nat \ {0} /\ k + 1 \in 1..Len(stdin[s]) /\ Commanded(s, k + 1, v)
        BY <1>4
      <4>2. CASE r # s
        BY <3>1, <4>1, <4>2 DEF LaunchedOnce
      <4>3. CASE r = s
        <5>1. k + 1 \in 1..Len(stdin[s]) /\ Commanded(s, k + 1, v)
          BY <4>1, <4>3
        <5>2. k + 1 = 1
          BY <3>1, <5>1 DEF LaunchedOnce
        <5>3. QED
          BY <4>1, <4>3, <5>2
      <4>4. QED
        BY <4>2, <4>3
    <3>4. utilPc'[v] = "open" /\ \A x \in Threads : x # v => utilPc'[x] = utilPc[x]
      BY <1>1, <2>1, <2>3
    <3>5. job1' = job1 \/ job1' = [job1 EXCEPT ![s] = v]
      BY <2>1, <2>3
    <3> HIDE DEF u, q, cmd
    <3>6. ASSUME NEW x \in Threads, pc'[x] \in Early PROVE utilPc'[x] = "none"
      <4>1. pc[x] \in Early /\ x # v
        BY <1>1, <3>2, <3>6
      <4>2. QED
        BY <3>4, <4>1 DEF LaunchedOnce
    <3>7. \A x \in Threads, r \in Shells : \A k \in 1..Len(stdin'[r]) :
            Commanded(r, k, x)' => utilPc'[x] = "none" /\ pc'[x] \notin Early
      BY <1>1, <1>5, <3>3, <3>4
    <3>8. ASSUME NEW r \in Shells, job1'[r] \in Threads PROVE utilPc'[job1'[r]] # "none"
      <4>1. CASE job1'[r] = v
        BY <3>4, <4>1
      <4>2. CASE job1'[r] # v
        <5>1. job1'[r] = job1[r]
          BY <1>1, <3>5, <4>2
        <5>2. utilPc[job1[r]] # "none"
          BY <3>8, <5>1 DEF LaunchedOnce
        <5>3. QED
          BY <3>4, <3>8, <4>2, <5>1, <5>2
      <4>3. QED
        BY <4>1, <4>2
    <3>9. LaunchedOnce'
      BY <1>6, <3>6, <3>7, <3>8 DEF LaunchedOnce
    <3>10. ASSUME NEW d \in Datagram, Issued(d) PROVE Issued(d)'
      <4>1. d.src \in Threads /\ d.src # v
        BY <3>2, <3>10 DEF Issued, Datagram
      <4>2. QED
        BY <2>1, <3>4, <3>10, <4>1 DEF Issued
    <3>11. QED
      BY <3>9, <3>10
  <2>4. CASE u \notin Threads
    <3> HIDE DEF u, q, cmd
    <3>1. utilPc' = utilPc
      BY <1>1, <2>1, <2>4
    <3>2. \A r \in Shells : job1'[r] \in Threads => job1'[r] = job1[r]
      BY <1>1, <2>1, <2>4
    <3>3. QED
      BY <1>7, <2>1, <3>1, <3>2 DEF Issued
  <2>5. QED
    BY <2>3, <2>4
<1>9. CASE RunKill(s) /\ job1[s] # NONE
  <2> DEFINE v == job1[s]
  <2>1. /\ v \in Threads /\ utilPc[v] # "none"
        /\ utilPc' = [utilPc EXCEPT ![v] = "exit"] /\ sent' = [sent EXCEPT ![v] = 0]
        /\ \A r \in Shells : job1'[r] = NONE \/ job1'[r] = job1[r]
    BY <1>1, <1>9 DEF RunKill, UtilEnds, LaunchedOnce
  <2> HIDE DEF v
  <2>2. LaunchedOnce'
    BY <1>1, <1>7, <2>1, NoneAssumption
  <2>3. \A d \in Datagram : Issued(d) => Issued(d)'
    BY <1>1, <2>1 DEF Issued, Datagram
  <2>4. QED
    BY <2>2, <2>3
<1>10. CASE (RunKill(s) /\ job1[s] = NONE) \/ RunIfconfig(s)
  <2>1. UNCHANGED <<job1, utilPc, sent>>
    BY <1>10 DEF RunKill, RunIfconfig, utilVars
  <2>2. QED
    BY <1>7, <2>1 DEF Issued
<1>11. QED
  BY <1>8, <1>9, <1>10 DEF ExecuteCommand

LEMMA ShellRecording ==
    ASSUME TypeInv, LaunchedOnce, Recording, NEW s \in Shells, ShellProcess(s)
    PROVE  LaunchedOnce' /\ Recording'
<1>1. /\ UNCHANGED <<openSockets, rxQueue, file, pc, packet>>
      /\ UNCHANGED fragmentVars
  BY DEF ShellProcess, loopbackVars, fragmentVars, fileVars, localVars
<1>2. LaunchedOnce' /\ \A d \in Datagram : Issued(d) => Issued(d)'
  <2>1. CASE ExecuteCommand(s)
    BY <1>1, <2>1, ExecuteStep
  <2>2. CASE DropCommands(s) \/ ShellDies(s)
    <3>1. UNCHANGED <<job1, utilPc, sent>> /\ stdin' = [stdin EXCEPT ![s] = << >>]
          /\ stdin \in [Shells -> Seq(Command)]
      BY <2>2 DEF DropCommands, ShellDies, utilVars, TypeInv, TypeOK, RootTypeOK
    <3>2. \A r \in Shells, u \in Threads : \A k \in 1..Len(stdin'[r]) :
            Commanded(r, k, u)' => k \in 1..Len(stdin[r]) /\ Commanded(r, k, u)
      BY <3>1 DEF Commanded, LaunchCmd
    <3>3. LaunchedOnce'
      BY <1>1, <3>1, <3>2, LaunchedFrame
    <3>4. QED
      BY <3>1, <3>3 DEF Issued
  <2>3. QED
    BY <2>1, <2>2 DEF ShellProcess
<1>3. Recording'
  <2>1. OneSocket'
    BY <1>1 DEF Recording, OneSocket
  <2>2. QED
    BY <1>1, <1>2, <2>1, RecordingFrame DEF Writes
<1>4. QED
  BY <1>2, <1>3

-----------------------------------------------------------------------------
(* The csiutils *)

(* A step of csiutil u, which has started, that adds no command.           *)
LEMMA UtilLaunched ==
    ASSUME TypeInv, LaunchedOnce, NEW u \in Threads, utilPc[u] # "none",
           NEW to \in UtilState \ {"none"}, utilPc' = [utilPc EXCEPT ![u] = to],
           UNCHANGED <<stdin, pc>>,
           \A s \in Shells : job1'[s] \in {NONE, job1[s]}
    PROVE  LaunchedOnce'
<1>1. \A v \in Threads : utilPc'[v] = "none" <=> utilPc[v] = "none"
  BY DEF TypeInv, TypeOK, RootTypeOK
<1>2. \A s \in Shells, v \in Threads : \A k \in 1..Len(stdin'[s]) :
        Commanded(s, k, v)' => k \in 1..Len(stdin[s]) /\ Commanded(s, k, v)
  BY DEF Commanded, LaunchCmd
<1>3. \A s \in Shells : job1'[s] \in Threads => job1'[s] = job1[s]
  BY NoneAssumption
<1>4. QED
  BY <1>1, <1>2, <1>3, LaunchedFrame

(* A step of csiutil u that sends nothing. *)
LEMMA SilentRecording ==
    ASSUME TypeInv, Recording, NEW u \in Threads,
           \A v \in Threads : v # u => utilPc'[v] = utilPc[v] /\ sent'[v] = sent[v],
           utilPc[u] \in {"loop", "close", "exit"}
               => \/ utilPc'[u] \in {"close", "exit"}
                  \/ utilPc[u] = "loop" /\ utilPc'[u] = "loop" /\ sent'[u] >= sent[u],
           sent \in [Threads -> 0..PacketCount], sent'[u] \in Nat,
           UNCHANGED <<loopbackVars, file, pc, packet>>
    PROVE  Recording'
<1>1. \A d \in Datagram : d.src \in Threads /\ d.n \in Nat
  BY LoopbackAssumption DEF Datagram
<1>2. \A d \in Datagram : Issued(d) => Issued(d)'
  BY <1>1 DEF Issued
<1>3. OneSocket'
  BY DEF Recording, OneSocket, loopbackVars
<1>4. QED
  BY <1>2, <1>3, RecordingFrame DEF Writes, loopbackVars

(* A step of csiutil u that sends datagram d, if it has the port. *)
LEMMA SendRecording ==
    ASSUME TypeInv, Recording, NEW u \in Threads, NEW d \in Datagram, SendTo(u, d),
           d.src = u, Issued(d)', utilPc[u] = "loop",
           IsStop(d) \/ d.n = sent[u] + 1,
           \A c \in Datagram : Issued(c) => Issued(c)',
           UNCHANGED <<file, pc, packet>>
    PROVE  Recording'
<1>1. \A c \in Datagram : c.n \in Nat
  BY LoopbackAssumption DEF Datagram
<1>2. sent[u] \in Nat
  BY LoopbackAssumption DEF TypeInv, TypeOK, RootTypeOK
<1>3. \A c \in Datagram : Issued(c) => Before(c, d)
  BY <1>1, <1>2 DEF Issued, Before
<1>4. CASE Deliver(d)
  BY <1>3, <1>4, DeliverRecording
<1>5. CASE UNCHANGED loopbackVars
  <2>1. OneSocket'
    BY <1>5 DEF Recording, OneSocket, loopbackVars
  <2>2. QED
    BY <1>5, <2>1, RecordingFrame DEF Writes, loopbackVars
<1>6. QED
  BY <1>4, <1>5 DEF SendTo

LEMMA CsiutilRecording ==
    ASSUME TypeInv, LaunchedOnce, Recording, NEW u \in Threads,
           CsiutilRuns(u) \/ FrameArrives(u)
    PROVE  LaunchedOnce' /\ Recording'
<1>1. /\ UNCHANGED <<file, pc, packet, stdin>>
      /\ utilPc \in [Threads -> UtilState] /\ sent \in [Threads -> 0..PacketCount]
      /\ PacketCount \in Nat
  BY LoopbackAssumption DEF CsiutilRuns, FrameArrives, PcapFails, SleepDelay,
         CreateUdpSendSocket, SendStop, CloseSendSocket, GotPacket, GotShortPacket,
         fragmentVars, fileVars, localVars, shellVars, TypeInv, TypeOK, RootTypeOK
<1>2. CASE PcapFails(u) \/ CloseSendSocket(u)
  <2>1. /\ utilPc[u] \in {"open", "close"} /\ utilPc' = [utilPc EXCEPT ![u] = "exit"]
        /\ sent' = [sent EXCEPT ![u] = 0] /\ UNCHANGED loopbackVars
        /\ \A s \in Shells : job1'[s] \in {NONE, job1[s]}
    BY <1>2 DEF PcapFails, CloseSendSocket, UtilEnds
  <2>2. LaunchedOnce'
    BY <1>1, <2>1, UtilLaunched DEF UtilState
  <2>3. QED
    BY <1>1, <2>1, <2>2, SilentRecording
<1>3. CASE SleepDelay(u) \/ CreateUdpSendSocket(u)
  <2>1. PICK to \in {"sleep", "loop"} : utilPc' = [utilPc EXCEPT ![u] = to]
    BY <1>3 DEF SleepDelay, CreateUdpSendSocket, AtUtil
  <2>2. /\ utilPc[u] \in {"open", "sleep"}
        /\ sent' = sent /\ UNCHANGED loopbackVars /\ job1' = job1
    BY <1>3 DEF SleepDelay, CreateUdpSendSocket, AtUtil, shellVars
  <2>3. LaunchedOnce'
    BY <1>1, <2>1, <2>2, UtilLaunched DEF UtilState
  <2>4. QED
    BY <1>1, <2>1, <2>2, <2>3, SilentRecording
<1>4. CASE GotPacket(u) \/ GotShortPacket(u)
  <2>1. /\ utilPc[u] = "loop" /\ utilPc' = [utilPc EXCEPT ![u] = "loop"]
        /\ sent[u] < PacketCount /\ sent' = [sent EXCEPT ![u] = @ + 1] /\ job1' = job1
    BY <1>4 DEF GotPacket, GotShortPacket, AtUtil, shellVars
  <2>2. LaunchedOnce'
    BY <1>1, <2>1, UtilLaunched DEF UtilState
  <2>3. sent[u] \in Nat /\ sent'[u] = sent[u] + 1 /\ utilPc'[u] = "loop"
    BY <1>1, <2>1
  <2>4. CASE GotShortPacket(u)
    BY <1>1, <2>1, <2>2, <2>3, <2>4, SilentRecording DEF GotShortPacket
  <2>5. CASE GotPacket(u)
    <3>1. PICK d \in Datagram : d.src = u /\ d.n = sent[u] + 1 /\ SendTo(u, d)
      BY <1>1, <2>1, <2>3, <2>5 DEF GotPacket, Datagram
    <3>2. Issued(d)'
      BY <2>3, <3>1 DEF Issued
    <3>3. ASSUME NEW c \in Datagram, Issued(c) PROVE Issued(c)'
      <4>1. c.src \in Threads /\ c.n \in Nat
        BY LoopbackAssumption DEF Datagram
      <4>2. /\ utilPc'[c.src] = utilPc[c.src]
            /\ sent'[c.src] = sent[c.src] \/ c.src = u
        BY <1>1, <2>1, <2>3, <4>1
      <4>3. QED
        BY <2>3, <3>3, <4>1, <4>2 DEF Issued
    <3>4. QED
      BY <1>1, <2>1, <2>2, <3>1, <3>2, <3>3, SendRecording
  <2>6. QED
    BY <1>4, <2>4, <2>5
<1>5. CASE SendStop(u)
  <2>1. /\ utilPc[u] = "loop" /\ utilPc' = [utilPc EXCEPT ![u] = "close"]
        /\ sent' = sent /\ job1' = job1 /\ SendTo(u, StopMsg(u))
    BY <1>5 DEF SendStop, AtUtil, shellVars
  <2>2. LaunchedOnce'
    BY <1>1, <2>1, UtilLaunched DEF UtilState
  <2>3. StopMsg(u) \in Datagram /\ StopMsg(u).src = u /\ IsStop(StopMsg(u))
    BY LoopbackAssumption DEF StopMsg, Datagram, IsStop
  <2>4. \A c \in Datagram : c.src = u \/ Issued(c) => Issued(c)'
    <3>1. \A c \in Datagram : c.src \in Threads
      BY DEF Datagram
    <3>2. QED
      BY <1>1, <2>1, <3>1 DEF Issued
  <2>5. Issued(StopMsg(u))'
    BY <1>1, <2>1, <2>3, <2>4 DEF Issued, StopMsg
  <2>6. QED
    BY <1>1, <2>1, <2>2, <2>3, <2>4, <2>5, SendRecording
<1>6. QED
  BY <1>2, <1>3, <1>4, <1>5 DEF CsiutilRuns, FrameArrives

-----------------------------------------------------------------------------
(* The threads *)

LEMMA MoveLaunched ==
    ASSUME TypeInv, LaunchedOnce, NEW a \in Agents, NEW to, GoTo(a, to),
           to \in Early => pc[a] \in Early, UNCHANGED rootVars
    PROVE  LaunchedOnce'
<1>1. \A u \in Threads : pc'[u] \in Early => pc[u] \in Early
  BY DEF GoTo, TypeInv, TypeOK, FragmentTypeOK, Agents
<1>2. UNCHANGED <<stdin, job1, utilPc>>
  BY DEF rootVars, shellVars, utilVars
<1>3. \A s \in Shells, u \in Threads : \A k \in 1..Len(stdin'[s]) :
        Commanded(s, k, u)' => k \in 1..Len(stdin[s]) /\ Commanded(s, k, u)
  BY <1>2 DEF Commanded, LaunchCmd
<1>4. QED
  BY <1>1, <1>2, <1>3, LaunchedFrame

LEMMA MoveRecording ==
    ASSUME TypeInv, Recording, NEW a \in Agents, NEW to, GoTo(a, to), to # "write",
           OneSocket', file' = file, UNCHANGED <<utilPc, sent>>,
           \A s \in Threads : rxQueue'[s] = rxQueue[s] \/ rxQueue'[s] = << >>,
           \A t \in Threads : t # a => packet'[t] = packet[t]
    PROVE  Recording'
<1>1. \A t \in Threads : Writes(t)' => Writes(t) /\ packet'[t] = packet[t]
  BY DEF Writes, GoTo, TypeInv, TypeOK, FragmentTypeOK, Agents
<1>2. \A d \in Datagram : Issued(d) => Issued(d)'
  BY DEF Issued
<1>3. QED
  BY <1>1, <1>2, RecordingFrame

LEMMA SocketsKept ==
    ASSUME Recording, UNCHANGED loopbackVars
    PROVE  OneSocket' /\ \A s \in Threads : rxQueue'[s] = rxQueue[s]
BY DEF Recording, OneSocket, loopbackVars

LEMMA CrashRecording ==
    ASSUME TypeInv, LaunchedOnce, Recording, Crash
    PROVE  LaunchedOnce' /\ Recording'
<1>1. /\ UNCHANGED <<loopbackVars, rootVars, pc, file, packet>>
      /\ UNCHANGED <<stdin, job1, utilPc, sent>>
  BY DEF Crash, fileVars, localVars, rootVars, shellVars, utilVars
<1>2. \A s \in Shells, u \in Threads : \A k \in 1..Len(stdin'[s]) :
        Commanded(s, k, u)' => k \in 1..Len(stdin[s]) /\ Commanded(s, k, u)
  BY <1>1 DEF Commanded, LaunchCmd
<1>3. LaunchedOnce'
  BY <1>1, <1>2, LaunchedFrame
<1>4. Recording'
  BY <1>1, SocketsKept, RecordingFrame DEF Writes, Issued
<1>5. QED
  BY <1>3, <1>4

LEMMA CleanupRecording ==
    ASSUME TypeInv, LaunchedOnce, Recording, NEW a \in Agents, Cleanup(a)
    PROVE  LaunchedOnce' /\ Recording'
<1>1. CASE Crash
  BY <1>1, CrashRecording
<1>2. CASE ~Crash
  <2>1. /\ UNCHANGED <<rootVars, file, packet, utilPc, sent>>
        /\ \E to \in CleanupPc \cup {AfterCleanup(a)} : GoTo(a, to)
    BY <1>2 DEF Cleanup, CheckNull, CheckClosed, CloseTheSocket, SetNull, OnlyPc,
                CleanupPc, fileVars, localVars, rootVars, utilVars
  <2>2. PICK to : GoTo(a, to) /\ to # "write" /\ to \notin Early
    BY <2>1 DEF CleanupPc, AfterCleanup, Early
  <2>3. LaunchedOnce'
    BY <2>1, <2>2, MoveLaunched
  <2>4. OneSocket' /\ \A s \in Threads : rxQueue'[s] = rxQueue[s] \/ rxQueue'[s] = << >>
    <3>1. CASE UNCHANGED loopbackVars
      BY <3>1, SocketsKept
    <3>2. ASSUME NEW r, CloseSocket(r)
          PROVE  OneSocket' /\ \A s \in Threads : rxQueue'[s] = rxQueue[s] \/ rxQueue'[s] = << >>
      <4>1. /\ openSockets' = openSockets \ {r}
            /\ \A s \in Threads : s # r => rxQueue'[s] = rxQueue[s]
            /\ r \in Threads => rxQueue'[r] = << >>
        BY <3>2 DEF CloseSocket, TypeInv, TypeOK, LoopbackTypeOK
      <4>2. \A s \in Threads : Len(rxQueue'[s]) > 0 => s \in openSockets'
        BY <4>1 DEF Recording, OneSocket
      <4>3. QED
        BY <4>1, <4>2 DEF Recording, OneSocket
    <3>3. QED
      BY <1>2, <3>1, <3>2 DEF Cleanup, CheckNull, CheckClosed, CloseTheSocket, SetNull, OnlyPc
  <2>5. QED
    BY <2>1, <2>2, <2>3, <2>4, MoveRecording
<1>3. QED
  BY <1>1, <1>2

LEMMA ThreadLaunched ==
    ASSUME TypeInv, LaunchedOnce, NEW t \in Threads,
           SessionThread(t) \/ StopThread(t) \/ CloseFile(t) \/ PostIdle(t)
    PROVE  LaunchedOnce'
<1>1. t \in Agents
  BY DEF Agents
<1>2. CASE Input(bp[inst[t]], LaunchCmd(t)) /\ GoTo(t, "jobs") /\ LaunchCsiutil(t)
  BY <1>2, LaunchLaunched
<1>3. CASE Input(bp[inst[t]], KillCmd) /\ GoTo(t, "killOut")
  <2>1. \A u \in Threads : pc'[u] \in Early => pc[u] \in Early
    BY <1>1, <1>3 DEF GoTo, TypeInv, TypeOK, FragmentTypeOK, Agents, Early
  <2>2. KillCmd \in Command /\ KillCmd.op # "csiutil"
    BY DEF KillCmd, Command
  <2>3. QED
    BY <1>3, <2>1, <2>2, InputLaunched
<1>4. CASE PostCapturing(t) \/ (LaunchCsiutil(t) /\ UNCHANGED rootVars)
  <2>1. UNCHANGED rootVars /\ pc[t] \in Early
    BY <1>4 DEF PostCapturing, LaunchCsiutil, At, Early
  <2>2. \E to : GoTo(t, to)
    BY <1>4 DEF PostCapturing, LaunchCsiutil
  <2>3. QED
    BY <1>1, <2>1, <2>2, MoveLaunched
<1>5. CASE \/ JobsOutput(t) \/ TestSocket(t) \/ NewSocket(t) \/ AssignSocket(t)
           \/ CreateFileCloses(t) \/ CreateFileOpens(t)
  <2>1. UNCHANGED rootVars
    BY <1>5 DEF JobsOutput, TestSocket, NewSocket, AssignSocket, CreateFileCloses,
                CreateFileOpens, OnlyPc
  <2>2. \E to \in {"testNull", "checkNull", "bind", "testClosed", "closeOld", "assign",
                   "openNew", "loop"} : GoTo(t, to)
    BY <1>5 DEF JobsOutput, TestSocket, NewSocket, AssignSocket, CreateFileCloses,
                CreateFileOpens
  <2>3. QED
    BY <1>1, <2>1, <2>2, MoveLaunched DEF Early
<1>6. CASE ReadSocketField(t) \/ ReceiveThrows(t) \/ Receive(t) \/ WriteText(t)
  <2>1. UNCHANGED rootVars
    BY <1>6 DEF ReadSocketField, ReceiveThrows, Receive, WriteText
  <2>2. \E to \in {"checkNull", "receive", "write", "loop"} : GoTo(t, to)
    BY <1>6 DEF ReadSocketField, ReceiveThrows, Receive, WriteText
  <2>3. QED
    BY <1>1, <2>1, <2>2, MoveLaunched DEF Early
<1>7. CASE \/ KillJob(t) /\ UNCHANGED rootVars
           \/ KillOutput(t) \/ CloseFile(t) \/ PostIdle(t)
  <2>1. UNCHANGED rootVars
    BY <1>7 DEF KillOutput, CloseFile, PostIdle, OnlyPc
  <2>2. \E to \in {"killOut", "checkNull", "postIdle", "done"} : GoTo(t, to)
    BY <1>7 DEF KillJob, KillOutput, CloseFile, PostIdle
  <2>3. QED
    BY <1>1, <2>1, <2>2, MoveLaunched DEF Early
<1>8. CASE LaunchCsiutil(t)
  BY <1>2, <1>4, <1>8 DEF LaunchCsiutil
<1>9. CASE KillJob(t)
  BY <1>3, <1>7, <1>9 DEF KillJob
<1>10. QED
  BY <1>4, <1>5, <1>6, <1>7, <1>8, <1>9 DEF SessionThread, StopThread

LEMMA ThreadRecording ==
    ASSUME TypeInv, Recording, NEW t \in Threads,
           SessionThread(t) \/ StopThread(t) \/ CloseFile(t) \/ PostIdle(t)
    PROVE  Recording'
<1>1. t \in Agents
  BY DEF Agents
<1>2. CASE Receive(t) \/ WriteText(t)
  BY <1>2, ReceiveRecording, WriteRecording
<1>3. CASE NewSocket(t)
  <2>1. /\ UNCHANGED <<file, packet, utilPc, sent, rxQueue>>
        /\ \E to \in {"assign", "checkNull"} : GoTo(t, to)
    BY <1>3 DEF NewSocket, BindSocket, loopbackVars, rootVars, utilVars, fileVars, localVars
  <2>2. openSockets' = openSockets \/ (openSockets = {} /\ openSockets' = {t})
    BY <1>3 DEF NewSocket, BindSocket, PortFree, loopbackVars
  <2>3. OneSocket'
    BY <2>1, <2>2 DEF Recording, OneSocket
  <2>4. QED
    BY <1>1, <2>1, <2>3, MoveRecording
<1>4. CASE PostCapturing(t) \/ LaunchCsiutil(t) \/ JobsOutput(t) \/ TestSocket(t)
  <2>1. UNCHANGED <<loopbackVars, file, packet, utilPc, sent>>
    BY <1>4 DEF PostCapturing, LaunchCsiutil, JobsOutput, TestSocket, Input, OnlyPc,
                rootVars, utilVars, fileVars, localVars
  <2>2. \E to \in {"launch", "jobs", "checkNull", "testNull", "bind", "testClosed",
                   "closeOld"} : GoTo(t, to)
    BY <1>4 DEF PostCapturing, LaunchCsiutil, JobsOutput, TestSocket
  <2>3. QED
    BY <1>1, <2>1, <2>2, SocketsKept, MoveRecording
<1>5. CASE \/ AssignSocket(t) \/ CreateFileCloses(t) \/ CreateFileOpens(t)
           \/ ReadSocketField(t) \/ ReceiveThrows(t)
  <2>1. UNCHANGED <<loopbackVars, file, packet, utilPc, sent>>
    BY <1>5 DEF AssignSocket, CreateFileCloses, CreateFileOpens, ReadSocketField,
                ReceiveThrows, rootVars, utilVars, fileVars, localVars
  <2>2. \E to \in {"closeOld", "openNew", "loop", "checkNull", "receive"} : GoTo(t, to)
    BY <1>5 DEF AssignSocket, CreateFileCloses, CreateFileOpens, ReadSocketField,
                ReceiveThrows
  <2>3. QED
    BY <1>1, <2>1, <2>2, SocketsKept, MoveRecording
<1>6. CASE KillJob(t) \/ KillOutput(t) \/ CloseFile(t) \/ PostIdle(t)
  <2>1. UNCHANGED <<loopbackVars, file, packet, utilPc, sent>>
    BY <1>6 DEF KillJob, KillOutput, CloseFile, PostIdle, Input, OnlyPc,
                rootVars, utilVars, fileVars, localVars
  <2>2. \E to \in {"killOut", "checkNull", "postIdle", "done"} : GoTo(t, to)
    BY <1>6 DEF KillJob, KillOutput, CloseFile, PostIdle
  <2>3. QED
    BY <1>1, <2>1, <2>2, SocketsKept, MoveRecording
<1>7. QED
  BY <1>2, <1>3, <1>4, <1>5, <1>6 DEF SessionThread, StopThread

(* A step of the user that sends no command line. *)
LEMMA QuietUser ==
    ASSUME TypeInv, LaunchedOnce, Recording,
           UNCHANGED <<loopbackVars, stdin, job1, utilPc, sent, file, packet>>,
           \A t \in Threads : pc'[t] = pc[t] \/ (pc[t] = "unborn" /\ pc'[t] \in {"post", "kill"})
    PROVE  LaunchedOnce' /\ Recording'
<1>1. \A s \in Shells, u \in Threads : \A k \in 1..Len(stdin'[s]) :
        Commanded(s, k, u)' => k \in 1..Len(stdin[s]) /\ Commanded(s, k, u)
  BY DEF Commanded, LaunchCmd
<1>2. \A t \in Threads : pc'[t] \in Early => pc[t] \in Early
  BY DEF Early
<1>3. LaunchedOnce'
  BY <1>1, <1>2, LaunchedFrame
<1>4. Recording'
  BY SocketsKept, RecordingFrame DEF Writes, Issued
<1>5. QED
  BY <1>3, <1>4

LEMMA UserRecording ==
    ASSUME TypeInv, LaunchedOnce, Recording, NEW i \in Instances,
           DispatchPosted(i) \/ User(i)
    PROVE  LaunchedOnce' /\ Recording'
<1>1. Main \notin Threads /\ Threads \subseteq Agents
      /\ pc \in [Agents -> ThreadPc \cup {"looper"}]
  BY FragmentAssumption DEF Agents, TypeInv, TypeOK, FragmentTypeOK
<1>2. CASE DispatchPosted(i) \/ OnCreateView(i) \/ OpenRoot(i) \/ EditNumbers(i)
  <2>1. UNCHANGED <<loopbackVars, stdin, job1, utilPc, sent, file, packet, pc>>
    BY <1>2 DEF DispatchPosted, OnCreateView, OpenRoot, EditNumbers, OpenShell, rootVars,
                shellVars, utilVars, fileVars, localVars
  <2>2. QED
    BY <2>1, QuietUser
<1>3. CASE ClickStartStop(i)
  <2>1. UNCHANGED <<loopbackVars, stdin, job1, utilPc, sent, file, packet>>
    BY <1>3 DEF ClickStartStop, Pressed, rootVars, shellVars, utilVars, fileVars
  <2>2. PICK t \in Threads :
          pc[t] = "unborn" /\ GoTo(t, IF mState[i] = "idle" THEN "post" ELSE "kill")
    BY <1>3 DEF ClickStartStop, Pressed
  <2>3. \A u \in Threads :
          pc'[u] = pc[u] \/ (pc[u] = "unborn" /\ pc'[u] \in {"post", "kill"})
    BY <1>1, <2>2 DEF GoTo
  <2>4. QED
    BY <2>1, <2>3, QuietUser
<1>4. CASE OnDestroyView(i)
  <2>1. /\ UNCHANGED <<loopbackVars, stdin, job1, utilPc, sent, file, packet>>
        /\ GoTo(Main, "checkNull") \/ pc' = pc
    BY <1>4 DEF OnDestroyView, ExitShell, rootVars, shellVars, utilVars, fileVars
  <2>2. \A u \in Threads : pc'[u] = pc[u]
    BY <1>1, <2>1 DEF GoTo
  <2>3. QED
    BY <2>1, <2>2, QuietUser
<1>5. CASE RestartNic(i)
  <2>1. CASE Crash
    BY <2>1, CrashRecording
  <2>2. CASE Input(bp[i], IfconfigCmd) /\ UNCHANGED <<loopbackVars, fragmentVars>>
    <3>1. /\ UNCHANGED <<loopbackVars, utilPc, sent, file, packet, pc>>
          /\ IfconfigCmd \in Command /\ IfconfigCmd.op # "csiutil"
      BY <2>2 DEF Input, utilVars, fragmentVars, fileVars, localVars, IfconfigCmd, Command
    <3>2. LaunchedOnce'
      BY <2>2, <3>1, InputLaunched
    <3>3. Recording'
      BY <3>1, SocketsKept, RecordingFrame DEF Writes, Issued
    <3>4. QED
      BY <3>2, <3>3
  <2>3. QED
    BY <1>5, <2>1, <2>2 DEF RestartNic
<1>6. CASE ClickThrows(i)
  BY <1>6, CrashRecording DEF ClickThrows
<1>7. QED
  BY <1>2, <1>3, <1>4, <1>5, <1>6 DEF User

LEMMA NextRecording ==
    TypeInv /\ LaunchedOnce /\ Recording /\ [Next]_vars => LaunchedOnce' /\ Recording'
<1> SUFFICES ASSUME TypeInv, LaunchedOnce, Recording, [Next]_vars
             PROVE  LaunchedOnce' /\ Recording'
  OBVIOUS
<1>1. ASSUME NEW t \in Threads, BackgroundThread(t) PROVE LaunchedOnce' /\ Recording'
  <2>1. t \in Agents
    BY DEF Agents
  <2>2. QED
    BY <1>1, <2>1, CleanupRecording, ThreadLaunched, ThreadRecording DEF BackgroundThread
<1>2. ASSUME NEW u \in Threads, CsiutilRuns(u) \/ FrameArrives(u)
      PROVE  LaunchedOnce' /\ Recording'
  BY <1>2, CsiutilRecording
<1>3. ASSUME NEW s \in Shells, ShellProcess(s) PROVE LaunchedOnce' /\ Recording'
  BY <1>3, ShellRecording
<1>4. CASE MainThread
  BY <1>4, CleanupRecording, UserRecording DEF MainThread, Agents
<1>5. CASE UNCHANGED vars
  <2>1. UNCHANGED <<loopbackVars, stdin, job1, utilPc, sent, file, packet, pc>>
    BY <1>5 DEF vars, rootVars, shellVars, utilVars, fragmentVars, fileVars, localVars
  <2>2. QED
    BY <2>1, QuietUser
<1>6. QED
  BY <1>1, <1>2, <1>3, <1>4, <1>5 DEF Next

-----------------------------------------------------------------------------
(* The two theorems *)

LEMMA LinesFound ==
    ASSUME TypeInv, NEW l \in Lines
    PROVE  l[1] \in Threads /\ l[2] \in 1..Len(file[l[1]])
<1>1. l[1] \in Threads /\ l[2] \in DOMAIN file[l[1]]
  BY DEF Lines
<1>2. file[l[1]] \in Seq(Line)
  BY <1>1, Elements
<1>3. QED
  BY <1>1, <1>2

(* For any number of threads, screens, shells and packets, whatever        *)
(* interleaves and fails: no captured packet has two lines, in one capture *)
(* file or in two (CaptureFragment:228-244).                               *)
THEOREM RecordsOnce == Spec => []RecordedOnce
<1>1. TypeInv /\ Recording => RecordedOnce
  <2> SUFFICES ASSUME TypeInv, Recording, NEW l \in Lines, NEW m \in Lines,
                      LineAt(l).packet = LineAt(m).packet
               PROVE  l = m
    BY DEF RecordedOnce
  <2>1. l[1] = m[1] /\ l[2] = m[2]
    BY LinesFound DEF Recording, LinesOnce, LineAt
  <2>2. QED
    BY <2>1 DEF Lines
<1>2. QED
  BY <1>1, InitTypeInv, InitRecording, NextTypeInv, NextRecording, PTL DEF Spec

(* ... and in every capture file, what one session has written of one      *)
(* csiutil is in the order in which it was captured (CaptureFragment:      *)
(* 228-244, csiutil.c:183-212).                                            *)
THEOREM RecordsInOrder == Spec => []RecordedInOrder
<1>1. TypeInv /\ Recording => RecordedInOrder
  <2> SUFFICES ASSUME TypeInv, Recording, NEW l \in Lines, NEW m \in Lines,
                      l[1] = m[1], l[2] < m[2], LineAt(l).by = LineAt(m).by,
                      LineAt(l).packet.src = LineAt(m).packet.src
               PROVE  LineAt(l).packet.n < LineAt(m).packet.n
    BY DEF RecordedInOrder
  <2>1. Before(LineAt(l).packet, LineAt(m).packet) /\ ~IsStop(LineAt(m).packet)
    BY LinesFound DEF Recording, LinesInOrder, AllIssued, LineAt
  <2>2. QED
    BY <2>1 DEF Before
<1>2. QED
  BY <1>1, InitTypeInv, InitRecording, NextTypeInv, NextRecording, PTL DEF Spec
=============================================================================
