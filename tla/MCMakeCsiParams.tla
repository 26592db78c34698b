-------------------------- MODULE MCMakeCsiParams ---------------------------
EXTENDS MakeCsiParams

M(n) == [j \in 1..6 |-> 10 * n + j]

(* Lists that fill the four places exactly, overrun them, or are malformed. *)
SomeMacs == {<<>>, <<M(1)>>, <<M(2), M(3), M(4)>>, <<M(1), <<1>>>>}

SomeCoreMasks == {5, 15, 16}
SomeNssMasks == {1, 7, -1}
SomeFirstBytes == {0, 136, 256}
SomeDelays == {-1, 0, 65836}
=============================================================================
