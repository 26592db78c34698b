---------------------------- MODULE CaptureFiles ----------------------------
(***************************************************************************)
(* What the start/stop button of a monitoring screen promises of the       *)
(* capture files: one file is written at a time, by its own session, with  *)
(* the packets of its own csiutil one after the other; it is closed when   *)
(* it is complete, or by a stop, and the stop is over when it is closed.   *)
(*                                                                         *)
(* Neither threads, sockets, datagrams nor the shell occur here.           *)
(***************************************************************************)
EXTENDS Naturals, Sequences

CONSTANTS
    Presses,      \* presses of the button: each starts a session or stops
    Count         \* packets in a complete capture

VARIABLES
    phase,        \* phase[p]: what has become of press p
    file          \* file[p]: the lines of the file that p has opened

vars == <<phase, file>>

(* "new": nothing recorded yet; "open": its file is written; "stop": a     *)
(* stop, or a start that failed and cleans up like one; "over"             *)
Phase == {"new", "open", "stop", "over"}

(* Packet n of the csiutil of p, recorded by p. *)
Entry(p, n) == [by |-> p, packet |-> [src |-> p, n |-> n]]

NoneOpen == \A p \in Presses : phase[p] # "open"

StopGoesOn == \E p \in Presses : phase[p] = "stop"

Become(p, from, to) ==
    /\ phase[p] = from
    /\ phase' = [phase EXCEPT ![p] = to]

Init ==
    /\ phase = [p \in Presses |-> "new"]
    /\ file = [p \in Presses |-> << >>]

-----------------------------------------------------------------------------
OpenFile(p) ==
    /\ NoneOpen
    /\ Become(p, "new", "open")
    /\ UNCHANGED file

WriteLine(p) ==
    /\ phase[p] = "open"
    /\ Len(file[p]) < Count
    /\ file' = [file EXCEPT ![p] = Append(@, Entry(p, Len(@) + 1))]
    /\ UNCHANGED phase

CloseFile(p) ==
    /\ Become(p, "open", "over")
    /\ Len(file[p]) = Count \/ StopGoesOn
    /\ UNCHANGED file

Stop(p) ==
    /\ Become(p, "new", "stop")
    /\ UNCHANGED file

StopOver(p) ==
    /\ NoneOpen
    /\ Become(p, "stop", "over")
    /\ UNCHANGED file

Next ==
    \E p \in Presses : OpenFile(p) \/ WriteLine(p) \/ CloseFile(p) \/ Stop(p) \/ StopOver(p)

Spec == Init /\ [][Next]_vars
=============================================================================
