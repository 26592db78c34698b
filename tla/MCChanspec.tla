----------------------------- MODULE MCChanspec -----------------------------
EXTENDS Chanspec

AllChanspecs == 0..65535

(* All channel numbers around the two bands, some that are too large, and  *)
(* pairs that are proper, in the wrong order, adjacent and off the table.  *)
AllTexts ==
    [band : {"", "2g", "3g", "5g"},
     ch   : 0..(MAXCHANNEL + 3) \cup {255, 256, 2049, 65572},
     bw   : {0, 10, 20, 40, 80, 160},
     side : {"", "u", "l"},
     pair : {<<>>, <<42, 106>>, <<106, 42>>, <<42, 58>>, <<36, 42>>}]

=============================================================================
