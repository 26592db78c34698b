----------------------------- MODULE MCCsiutil -----------------------------
EXTENDS CsiutilReduced

(* CSI packets of 64 and 256 subcarriers (42 + 18 + 256 and 42 + 18 + 1024 *)
(* bytes), an ARP packet, and a packet of another interface.               *)
Air == {[ours |-> TRUE, matches |-> TRUE, len |-> 316],
        [ours |-> TRUE, matches |-> FALSE, len |-> 41],
        [ours |-> FALSE, matches |-> TRUE, len |-> 316]}

WideAir == {[ours |-> TRUE, matches |-> TRUE, len |-> 316],
            [ours |-> TRUE, matches |-> TRUE, len |-> 1084]}

AppCsi == [mode |-> 2, type |-> 2, file |-> "none", link |-> "known",
           linkField |-> FALSE, portBusy |-> FALSE]

CommandLines == {
    AppCsi,
    [AppCsi EXCEPT !.portBusy = TRUE],
    [AppCsi EXCEPT !.type = 1, !.link = "unknown", !.linkField = TRUE],
    [AppCsi EXCEPT !.mode = 3, !.file = "written"],
    [AppCsi EXCEPT !.mode = 1, !.type = 3, !.file = "refused"]}

OnlyAppCsi == {AppCsi}
=============================================================================
