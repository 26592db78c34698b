---------------------------- MODULE MCInjection ----------------------------
EXTENDS Injection, TLC

(* Seconds of 4 ms and 6-bit ints.  No time at all, rounding down of both  *)
(* quotients, an ordinary injection, a product that overflows to a         *)
(* negative int and one that overflows to a positive int.                  *)
SmallConfs ==
    {[delay |-> 0, period |-> 1, number |-> 0],
     [delay |-> 3, period |-> 1, number |-> 3],
     [delay |-> 13, period |-> 3, number |-> 2],
     [delay |-> 0, period |-> 9, number |-> 4],
     [delay |-> 31, period |-> 9, number |-> 9]}

OneConf == {[delay |-> 0, period |-> 4, number |-> 1]}

TimerSymmetry == Permutations(Timers)
=============================================================================
