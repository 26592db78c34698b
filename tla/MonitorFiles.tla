---------------------------- MODULE MonitorFiles ----------------------------
(***************************************************************************)
(* The two monitoring screens, with a user who waits and sleeps that       *)
(* suffice, keep what CaptureFiles promises.  A press of the button is the *)
(* thread it starts; the lines of the files are the same on both sides.    *)
(***************************************************************************)
EXTENDS MonitorFragments

(* A thread that has not yet written the command line of csiutil. *)
Early == {"unborn", "post", "launch"}

(* The k-th command that shell s has not executed is the launch of u. *)
Commanded(s, k, u) == stdin[s][k] = LaunchCmd(u)

(* A thread that has been started and never launches a csiutil. *)
Stopper(v) ==
    /\ pc[v] \notin Early /\ utilPc[v] = "none"
    /\ \A s \in Shells : \A k \in 1..Len(stdin[s]) : ~Commanded(s, k, v)

(* Nothing recorded yet: not pressed, or a session on its way to its file. *)
Unfiled(t) == pc[t] \in {"unborn", "post"} \/ Opening(t)

PhaseOf(t) ==
    IF t \in openWriters THEN "open"
    ELSE IF Unfiled(t) THEN "new"
    ELSE IF Stopper(t) /\ pc[t] # "done" THEN "stop"
    ELSE "over"

Files == INSTANCE CaptureFiles WITH
    Presses <- Threads,
    Count <- PacketCount,
    phase <- [t \in Threads |-> PhaseOf(t)]

-----------------------------------------------------------------------------
(* One file at a time is written, with the packets of its own csiutil in   *)
(* order; it is closed incomplete only while a stop is being carried out,  *)
(* and no stop is over before the file is closed (CaptureFragment:205-279, *)
(* FileHandler:94-155, csiutil.c:183-230).                                 *)
KeepsFiles == Files!Spec
=============================================================================
