------------------------ MODULE MCMonitorFragments ------------------------
EXTENDS MonitorFiles, TLC

CONSTANTS capture, csi

OneScreen == (capture :> "capture")
OneCsiScreen == (csi :> "csi")
TwoScreens == (capture :> "capture") @@ (csi :> "csi")

(* When no thread is left to be started, no action reads mState or pending *)
(* but the one that dispatches them: states that agree on Shown are the    *)
(* same for a property that sees no more of the two than Shown.            *)
UiForgotten ==
    <<loopbackVars, rootVars, fieldVars, localVars, fileVars, view, used, pc, numbers, appUp,
      IF \E t \in Threads : pc[t] = "unborn" THEN <<mState, pending>> ELSE [i \in Instances |-> Shown(i)] >>

(* Symmetry is not sound for liveness: the threads are numbered instead,   *)
(* and a behaviour that starts them in another order is a renaming of one  *)
(* that does not.                                                          *)
Number == CHOOSE f \in [Threads -> 1..Cardinality(Threads)] :
              \A t, u \in Threads : f[t] = f[u] => t = u

InTurn ==
    \A t, u \in Threads : Number[t] < Number[u] /\ pc[u] # "unborn" => pc[t] # "unborn"

ThreadSymmetry == Permutations(Threads)

Symmetry == Permutations(Threads) \cup Permutations(Shells)
=============================================================================
