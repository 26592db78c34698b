------------------------------ MODULE Chanspec ------------------------------
(***************************************************************************)
(* The conversion between chanspecs and their texts that both the JNI      *)
(* library and makecsiparams link (bcmwifi_channels.c).                    *)
(*                                                                         *)
(* A chanspec is the 16-bit number of the code; 0 stands for an error.  A  *)
(* text is what its characters say: the band before a 'g', the channel,    *)
(* the bandwidth after '/' (0: none), the side 'u' or 'l', and the two     *)
(* channels after '+80/'.  A text that no such record describes is refused *)
(* by the parser and left out; spaces make no difference.                  *)
(***************************************************************************)
EXTENDS Integers, Sequences

CONSTANTS
    Texts,       \* the texts a user may enter
    Chanspecs    \* the chanspecs that may come from the firmware

Uint16Max == 65535

(* chanspec_t *)
Uint16 == 0..Uint16Max

(* The numbers are those that read_uint returns. *)
TextRecord == [band : {"", "2g", "3g", "5g"}, ch : Nat, bw : Nat,
               side : {"", "u", "l"}, pair : {<<>>} \cup (Nat \X Nat)]

ASSUME ChanspecAssumption == Texts \subseteq TextRecord /\ Chanspecs \subseteq Uint16

VARIABLES
    step,        \* which of the two is the newer: "text" or "chanspec"
    text,
    chanspec

vars == <<step, text, chanspec>>

CH_MAX_2G_CHANNEL == 14
MAXCHANNEL == 224

Band2G == 0
Band5G == 3

BW_20 == 2
BW_40 == 3
BW_80 == 4
BW_160 == 5
BW_8080 == 6

(* wf_chspec_bw_mhz *)
Mhz(bw) == <<5, 10, 20, 40, 80, 160, 160>>[bw + 1]

(* The center channels of the 5 GHz band. *)
Chans40 == <<38, 46, 54, 62, 102, 110, 118, 126, 134, 142, 151, 159>>
Chans80 == <<42, 58, 106, 122, 138, 155>>
Chans160 == <<50, 114>>

Members(seq) == {seq[i] : i \in DOMAIN seq}

Lower20(ch) == IF ch > 2 THEN ch - 2 ELSE 0

Upper20(ch) == IF ch < MAXCHANNEL - 2 THEN ch + 2 ELSE 0

-----------------------------------------------------------------------------
(* The fields of a chanspec *)

Channel(c) == c % 256
CtlSb(c) == (c \div 256) % 8
Bw(c) == (c \div 2048) % 8
Band(c) == c \div 16384

Chan1(c) == c % 16

(* CHSPEC_CHAN2 masks the second index and leaves it where it is. *)
Chan2(c) == 16 * ((c \div 16) % 16)

(* The bitwise or of two bytes. *)
OrByte(x, y) ==
    LET bit(w) == IF (x \div w) % 2 = 1 \/ (y \div w) % 2 = 1 THEN w ELSE 0
    IN  bit(1) + bit(2) + bit(4) + bit(8) + bit(16) + bit(32) + bit(64) + bit(128)

(* The parts are or-ed, so a channel above 255 runs into the other fields. *)
Compose(ch, band, bw, sb) ==
    (ch % 256) + 256 * OrByte((ch \div 256) % 256, 64 * band + 8 * bw + sb)

Malformed(c) ==
    \/ Band(c) \notin {Band2G, Band5G}
    \/ Band(c) = Band2G /\ Bw(c) \notin {BW_20, BW_40}
    \/ /\ Band(c) = Band5G
       /\ \/ Bw(c) \notin {BW_20, BW_40, BW_80, BW_160, BW_8080}
          \/ Bw(c) # BW_8080 /\ Channel(c) > MAXCHANNEL
          \/ /\ Bw(c) = BW_8080
             /\ Chan1(c) >= Len(Chans80) \/ Chan2(c) >= Len(Chans80) \/ Chan2(c) <= Chan1(c)
    \/ Bw(c) = BW_20 /\ CtlSb(c) # 0
    \/ Bw(c) = BW_40 /\ CtlSb(c) > 1
    \/ Bw(c) = BW_80 /\ CtlSb(c) > 3

(* The 20 MHz channels next to a 40 MHz center, 165 and the old Japanese   *)
(* ones.                                                                   *)
Chans20 ==
    {Lower20(x) : x \in Members(Chans40)} \cup {Upper20(x) : x \in Members(Chans40)}
        \cup {165, 34, 38, 42, 46}

(* A channel of 802.11.  No 80+80 chanspec gets past Malformed. *)
Valid(c) ==
    /\ ~Malformed(c)
    /\ \/ Band(c) = Band2G /\ Bw(c) = BW_20 /\ Channel(c) \in 1..14
       \/ Band(c) = Band2G /\ Bw(c) = BW_40 /\ Channel(c) \in 3..11
       \/ Band(c) = Band5G /\ Bw(c) = BW_20 /\ Channel(c) \in Chans20
       \/ Band(c) = Band5G /\ Bw(c) = BW_40 /\ Channel(c) \in Members(Chans40)
       \/ Band(c) = Band5G /\ Bw(c) = BW_80 /\ Channel(c) \in Members(Chans80)
       \/ Band(c) = Band5G /\ Bw(c) = BW_160 /\ Channel(c) \in Members(Chans160)

-----------------------------------------------------------------------------
(* Center and primary channel *)

(* The lowest 20 MHz channel around a center, a uint8. *)
LowEdge(center, mhz) == (center - (mhz - 20) \div 10) % 256

(* The sidebands of a channel, each with its number; the code's unsigned   *)
(* difference is too large for a primary channel below the low edge.       *)
HasSideband(center, ctl, mhz) ==
    \E sb \in 0..(mhz \div 20) - 1 : ctl = LowEdge(center, mhz) + 4 * sb

Sideband(center, ctl, mhz) == (ctl - LowEdge(center, mhz)) \div 4

(* wf_chspec_ctlchan, for what is well-formed. *)
CtlChan(c) ==
    IF Bw(c) = BW_20 THEN Channel(c)
    ELSE (LowEdge(Channel(c), Mhz(Bw(c))) + 4 * CtlSb(c)) % 256

CtlChspec(c) ==
    IF Bw(c) = BW_20 THEN c ELSE Compose(CtlChan(c), Band(c), BW_20, 0)

(* Mutant of Primary40: the upper half keeps its sideband. *)
Primary40SameSideband(c) ==
    IF Bw(c) # BW_80 THEN c
    ELSE IF CtlSb(c) \in {2, 3} THEN Compose(Channel(c) + 4, Band5G, BW_40, 1)
    ELSE Compose(Channel(c) - 4, Band5G, BW_40, CtlSb(c))

(* The 40 MHz half of an 80 MHz channel that has the primary channel. *)
Primary40(c) ==
    IF Bw(c) # BW_80 THEN c
    ELSE IF CtlSb(c) \in {2, 3} THEN Compose(Channel(c) + 4, Band5G, BW_40, CtlSb(c) - 2)
    ELSE Compose(Channel(c) - 4, Band5G, BW_40, CtlSb(c))

(* Mutant of Search: the case of 160 MHz is a copy of that of 80 MHz. *)
SearchCopied(bw) ==
    CASE bw = BW_40  -> [centers |-> Chans40, mhz |-> 40]
      [] bw = BW_80  -> [centers |-> Chans80, mhz |-> 80]
      [] bw = BW_160 -> [centers |-> Chans80, mhz |-> 160]

(* Where wf_channel2chspec looks for a center, and how wide. *)
Search(bw) ==
    CASE bw = BW_40  -> [centers |-> Chans40, mhz |-> 40]
      [] bw = BW_80  -> [centers |-> Chans80, mhz |-> 80]
      [] bw = BW_160 -> [centers |-> Chans160, mhz |-> 160]

(* wf_channel2chspec: its loop stops at the first center that fits. *)
Channel2Chspec(ctl, bw) ==
    LET band == IF ctl <= CH_MAX_2G_CHANNEL THEN Band2G ELSE Band5G
        centers == Search(bw).centers
        mhz == Search(bw).mhz
        fitting == {i \in DOMAIN centers : HasSideband(centers[i], ctl, mhz)}
        center == centers[CHOOSE i \in fitting : \A j \in fitting : i <= j]
    IN  CASE bw = BW_20 -> Compose(ctl, band, BW_20, 0)
          [] bw \in {BW_40, BW_80, BW_160} /\ fitting # {} ->
                 Compose(center, band, bw, Sideband(center, ctl, mhz))
          [] OTHER -> 0

-----------------------------------------------------------------------------
(* Texts *)

(* Where the parser looks for a center. *)
Centers(bw) == CASE bw = BW_40 -> Chans40 [] bw = BW_80 -> Chans80 [] bw = BW_160 -> Chans160

(* The chanspec of the first center in the table that has the primary      *)
(* channel, or 0.                                                          *)
Wide(ctl, band, bw) ==
    LET fits(i) == HasSideband(Centers(bw)[i], ctl, Mhz(bw))
        first == CHOOSE i \in DOMAIN Centers(bw) : fits(i) /\ \A j \in 1..(i - 1) : ~fits(j)
        center == Centers(bw)[first]
    IN  IF \E i \in DOMAIN Centers(bw) : fits(i)
        THEN Compose(center, band, bw, Sideband(center, ctl, Mhz(bw)))
        ELSE 0

DefaultBand(ch) == IF ch <= CH_MAX_2G_CHANNEL THEN Band2G ELSE Band5G

TextBand(t) ==
    CASE t.band = "2g" -> Band2G [] t.band = "5g" -> Band5G [] OTHER -> DefaultBand(t.ch)

(* The return statements while the text is read: another band, another     *)
(* bandwidth, a side after a bandwidth other than 40 MHz in the 2.4 GHz    *)
(* band, a pair of channels without a bandwidth or after a side.           *)
Unreadable(t) ==
    \/ t.band = "3g"
    \/ t.bw \notin {0, 20, 40, 80, 160}
    \/ t.side # "" /\ t.bw # 0 /\ ~(t.bw = 40 /\ TextBand(t) = Band2G)
    \/ t.pair # <<>> /\ (t.bw = 0 \/ t.side # "")

(* An 80+80 chanspec: the primary channel is looked for around the first   *)
(* center, then around the second, with the bandwidth read before '+'.     *)
Pair(t) ==
    LET id(ch) == CHOOSE i \in DOMAIN Chans80 : Chans80[i] = ch
        ch1 == t.pair[1]
        ch2 == t.pair[2]
        compose(sb) == Compose(id(ch1) - 1 + 16 * (id(ch2) - 1), TextBand(t), BW_8080, sb)
    IN  CASE {ch1, ch2} \subseteq Members(Chans80) /\ ch1 < ch2
                 /\ HasSideband(ch1, t.ch, t.bw) -> compose(Sideband(ch1, t.ch, t.bw))
          [] {ch1, ch2} \subseteq Members(Chans80) /\ ch1 < ch2
                 /\ ~HasSideband(ch1, t.ch, t.bw) /\ HasSideband(ch2, t.ch, t.bw)
                 -> compose(4 + Sideband(ch2, t.ch, t.bw))
          [] OTHER -> 0

(* What the parts of a readable text make. *)
Composed(t) ==
    CASE t.side = "l" -> Compose(Upper20(t.ch), TextBand(t), BW_40, 0)
      [] t.side = "u" -> Compose(Lower20(t.ch), TextBand(t), BW_40, 1)
      [] t.pair # <<>> -> Pair(t)
      [] t.side = "" /\ t.pair = <<>> /\ t.bw \in {0, 20} ->
             Compose(t.ch, TextBand(t), BW_20, 0)
      [] t.side = "" /\ t.pair = <<>> /\ t.bw \notin {0, 20} ->
             Wide(t.ch, TextBand(t),
                  CASE t.bw = 40 -> BW_40 [] t.bw = 80 -> BW_80 [] t.bw = 160 -> BW_160)

(* Mutant of Aton: 'u' and 'l' exchanged. *)
AtonSwapped(t) ==
    LET s == [t EXCEPT !.side = CASE @ = "u" -> "l" [] @ = "l" -> "u" [] OTHER -> ""]
    IN  IF Unreadable(s) \/ Malformed(Composed(s)) THEN 0 ELSE Composed(s)

(* wf_chspec_aton *)
Aton(t) == IF Unreadable(t) \/ Malformed(Composed(t)) THEN 0 ELSE Composed(t)

(* Mutant of Ntoa: the band is never written. *)
NtoaNoBand(c) ==
    [band |-> "", ch |-> CtlChan(c),
     bw   |-> IF Bw(c) = BW_20 THEN 0 ELSE Mhz(Bw(c)),
     side |-> IF Bw(c) = BW_40 /\ Band(c) = Band2G
              THEN IF CtlSb(c) = 1 THEN "u" ELSE "l" ELSE "",
     pair |-> <<>>]

(* wf_chspec_ntoa, for what is well-formed.  The band is written when the  *)
(* center channel alone would suggest the other one.                       *)
Ntoa(c) ==
    [band |-> CASE Band(c) = Band2G /\ Channel(c) > CH_MAX_2G_CHANNEL -> "2g"
                [] Band(c) = Band5G /\ Channel(c) <= CH_MAX_2G_CHANNEL -> "5g"
                [] OTHER -> "",
     ch   |-> CtlChan(c),
     bw   |-> IF Bw(c) = BW_20 THEN 0 ELSE Mhz(Bw(c)),
     side |-> IF Bw(c) = BW_40 /\ Band(c) = Band2G
              THEN IF CtlSb(c) = 1 THEN "u" ELSE "l" ELSE "",
     pair |-> <<>>]

-----------------------------------------------------------------------------
(* A value that starts as a text or as a chanspec and is converted *)

NoText == [band |-> "", ch |-> 0, bw |-> 0, side |-> "", pair |-> <<>>]

Init ==
    \/ step = "text" /\ text \in Texts /\ chanspec = 0
    \/ step = "chanspec" /\ text = NoText /\ chanspec \in Chanspecs

(* strToChanspec *)
StrToChanspec ==
    /\ step = "text"
    /\ step' = "chanspec"
    /\ chanspec' = Aton(text)
    /\ UNCHANGED text

(* chanspecToStr, of a chanspec that satisfies the assertion in ctlchan. *)
ChanspecToStr ==
    /\ step = "chanspec"
    /\ ~Malformed(chanspec)
    /\ step' = "text"
    /\ text' = Ntoa(chanspec)
    /\ UNCHANGED chanspec

Next == StrToChanspec \/ ChanspecToStr

Spec == Init /\ [][Next]_vars

-----------------------------------------------------------------------------
(* Properties *)

(* A channel of 802.11, and any well-formed 20 MHz chanspec, survives      *)
(* being printed and parsed (bcmwifi_channels:462-519, 545-785).           *)
RoundTrip ==
    [][step = "text" /\ chanspec # 0 /\ (Valid(chanspec) \/ Bw(chanspec) = BW_20)
           => chanspec' = chanspec]_vars

(* If a text gives a channel of 802.11, its primary channel, its band, its *)
(* bandwidth and the side of the primary channel are those written.        *)
(* Numbers above 255 run into other fields and are not claimed to be       *)
(* refused (bcmwifi_channels:545-785, 949-984).                            *)
TextMeans ==
    [][step = "text" /\ text.ch <= 255 /\ Valid(chanspec') =>
           /\ CtlChan(chanspec') = text.ch
           /\ Band(chanspec') = TextBand(text)
           /\ text.side = "l" => text.ch < Channel(chanspec')
           /\ text.side = "u" => text.ch > Channel(chanspec')
           /\ Mhz(Bw(chanspec')) = CASE text.side # "" -> 40
                                     [] text.side = "" /\ text.bw = 0 -> 20
                                     [] OTHER -> text.bw]_vars

(* The primary channel of a channel of 802.11 is one, too, and the same    *)
(* for the 40 MHz half of an 80 MHz channel: the tables of centers, the    *)
(* sidebands and the list of 20 MHz channels agree                         *)
(* (bcmwifi_channels:357-373, 854-941, 990-1003, 1065-1096).               *)
PrimaryAgrees ==
    Valid(chanspec) =>
        /\ Valid(CtlChspec(chanspec))
        /\ Valid(Primary40(chanspec))
        /\ CtlChan(Primary40(chanspec)) = CtlChan(chanspec)

(* wf_channel2chspec inverts the accessors: from the primary channel of a  *)
(* channel of 802.11 it makes, for any bandwidth, nothing or a channel of  *)
(* 802.11 with that primary channel and bandwidth, and for the bandwidth   *)
(* of the channel that very channel; only of the two 40 MHz channels of    *)
(* the 2.4 GHz band around a primary channel it makes none                 *)
(* (bcmwifi_channels:853-941, 948-984, 1010-1056).                         *)
ConstructorInverts ==
    Valid(chanspec) =>
        \A bw \in {BW_20, BW_40, BW_80, BW_160} :
            LET c == Channel2Chspec(CtlChan(chanspec), bw)
            IN  /\ c # 0 => Valid(c) /\ CtlChan(c) = CtlChan(chanspec) /\ Bw(c) = bw
                /\ bw = Bw(chanspec) /\ ~(Band(chanspec) = Band2G /\ bw = BW_40)
                       => c = chanspec
=============================================================================
