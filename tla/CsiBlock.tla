------------------------------ MODULE CsiBlock ------------------------------
(***************************************************************************)
(* The 34 bytes of CSI parameters that nexutil hands to the firmware, and  *)
(* CsiConf.toBase64, which packs them in the app.                          *)
(*                                                                         *)
(* A buffer is a function on 0..33.  A source address is a sequence of     *)
(* bytes; one that does not have six stands for every text that is not an  *)
(* address.                                                                *)
(***************************************************************************)
EXTENDS Integers, Sequences, FiniteSets

Byte == 0..255

Buffer == [0..33 -> Byte]

Lo(x) == x % 256
Hi(x) == (x \div 256) % 256

Code == 0..65535
Mask == 0..15
MacList == Seq(Seq(Byte))

(* The fields of a CsiConf; chanspec is what strToChanspec makes of the    *)
(* text, 0 for an error.                                                   *)
CsiConf ==
    [chanspec : Code, csiCollect : BOOLEAN, nssMask : Mask, coreMask : Mask,
     usePktFilter : BOOLEAN, firstPktByte : Byte, cmpSrcMacs : MacList, delay : Int]

MacByte(macs, i) ==
    LET m == (i - 8) \div 6 + 1
    IN  IF m <= Len(macs) THEN macs[m][((i - 8) % 6) + 1] ELSE 0

Flag(b) == IF b THEN 1 ELSE 0

(* The bytes toBase64 writes for a conf with at most four addresses. *)
Pack(conf) ==
    [i \in 0..33 |->
        CASE i = 0 -> Lo(conf.chanspec)      [] i = 1 -> Hi(conf.chanspec)
          [] i = 2 -> Flag(conf.csiCollect)
          [] i = 3 -> 16 * (conf.nssMask % 16) + (conf.coreMask % 16)
          [] i = 4 -> Flag(conf.usePktFilter) [] i = 5 -> conf.firstPktByte
          [] i = 6 -> Lo(Len(conf.cmpSrcMacs)) [] i = 7 -> 0
          [] i \in 8..31 -> MacByte(conf.cmpSrcMacs, i)
          [] i = 32 -> Lo(conf.delay)        [] i = 33 -> Hi(conf.delay)]

Zero == [i \in 0..33 |-> 0]

BadAt(macs) == {i \in 1..Len(macs) : Len(macs[i]) # 6}

(* toBase64: the addresses are written in order.  One that is malformed    *)
(* makes it return null; the fifth overruns the buffer at its third byte,  *)
(* which throws.  (A malformed fifth address returns null wherever its     *)
(* fault is, where the code throws if its first three bytes are numbers.)  *)
ToBase64(conf) ==
    LET macs == conf.cmpSrcMacs
    IN  CASE \E i \in BadAt(macs) : i <= 5 -> [status |-> "null", buff |-> Zero]
          [] Len(macs) > 4 /\ ~\E i \in BadAt(macs) : i <= 5 ->
                 [status |-> "throws", buff |-> Zero]
          [] Len(macs) <= 4 /\ BadAt(macs) = {} -> [status |-> "block", buff |-> Pack(conf)]

-----------------------------------------------------------------------------
(* The block as the firmware reads it: struct csi_params *)

Word(buff, i) == buff[i] + 256 * buff[i + 1]

Unpack(buff) ==
    [chanspec |-> Word(buff, 0), csi_collect |-> buff[2], core_nss_mask |-> buff[3],
     use_pkt_filter |-> buff[4], first_pkt_byte |-> buff[5], n_mac_addr |-> Word(buff, 6),
     cmp_src_mac |-> [m \in 1..4 |-> [j \in 1..6 |-> buff[8 + 6 * (m - 1) + j - 1]]],
     delay |-> Word(buff, 32)]
=============================================================================
