--------------------------- MODULE ChanspecProofs ---------------------------
(***************************************************************************)
(* Every property of Chanspec, for every text - any channel number, width  *)
(* and pair - and every set of chanspecs.                                  *)
(*                                                                         *)
(* The arithmetic comes first: a composed chanspec has the fields it was   *)
(* composed of as long as the channel is a byte.  Then the tables: their   *)
(* centers are so far apart that a primary channel fits at most one, which *)
(* is why the first match is the center a printed chanspec came from.  The *)
(* invariant says that a text after a chanspec is its print.               *)
(***************************************************************************)
EXTENDS Chanspec, TLAPS

-----------------------------------------------------------------------------
(* The sixteen bits: composing the fields and reading them back *)

(* A number of 16 bits. *)
Word(c) == c \in Nat /\ c <= 65535

(* The four fields side by side. *)
Packed(ch, band, bw, sb) == ch + 256 * sb + 2048 * bw + 16384 * band

(* A number with these fields. *)
Parts(c, ch, band, bw, sb) ==
    /\ Word(c)
    /\ Channel(c) = ch /\ Band(c) = band /\ Bw(c) = bw /\ CtlSb(c) = sb

LEMMA OrByteOfByte ==
    ASSUME NEW y \in 0..255
    PROVE  OrByte(0, y) = y
<1>1. \A w \in {1, 2, 4, 8, 16, 32, 64, 128} : (0 \div w) % 2 = 0
  OBVIOUS
<1> DEFINE bit(w) == IF (y \div w) % 2 = 1 THEN w ELSE 0
<1>2. OrByte(0, y) = bit(1) + bit(2) + bit(4) + bit(8) + bit(16) + bit(32) + bit(64) + bit(128)
  BY <1>1 DEF OrByte
<1>3. QED
  BY <1>2, SMTT(60)

LEMMA OrByteIsByte ==
    ASSUME NEW x \in Int, NEW y \in Int
    PROVE  OrByte(x, y) \in 0..255
<1> DEFINE bit(w) == IF (x \div w) % 2 = 1 \/ (y \div w) % 2 = 1 THEN w ELSE 0
<1>1. \A w \in {1, 2, 4, 8, 16, 32, 64, 128} : bit(w) \in 0..w
  OBVIOUS
<1>2. OrByte(x, y) = bit(1) + bit(2) + bit(4) + bit(8) + bit(16) + bit(32) + bit(64) + bit(128)
  BY DEF OrByte
<1> HIDE DEF bit
<1> DEFINE a == bit(1)
           b == bit(2)
           c == bit(4)
           d == bit(8)
           e == bit(16)
           f == bit(32)
           g == bit(64)
           h == bit(128)
           or == OrByte(x, y)
<1>3. /\ a \in 0..1 /\ b \in 0..2 /\ c \in 0..4 /\ d \in 0..8
      /\ e \in 0..16 /\ f \in 0..32 /\ g \in 0..64 /\ h \in 0..128
  BY <1>1
<1>4. or = a + b + c + d + e + f + g + h
  BY <1>2
<1> HIDE DEF a, b, c, d, e, f, g, h, or
<1>5. or \in Nat /\ or <= 255
  BY <1>3, <1>4, SMT
<1>6. or \in 0..255
  BY <1>5, SMT
<1>7. QED
  BY <1>6 DEF or

LEMMA ComposeIs ==
    ASSUME NEW ch \in 0..255, NEW band \in 0..3, NEW bw \in 0..7, NEW sb \in 0..7
    PROVE  /\ Compose(ch, band, bw, sb) = Packed(ch, band, bw, sb)
           /\ Parts(Compose(ch, band, bw, sb), ch, band, bw, sb)
<1>1. 64 * band + 8 * bw + sb \in 0..255
  BY SMT
<1>2. (ch \div 256) % 256 = 0 /\ ch % 256 = ch
  BY SMT
<1>3. Compose(ch, band, bw, sb) = ch + 256 * (64 * band + 8 * bw + sb)
  BY <1>1, <1>2, OrByteOfByte DEF Compose
<1> DEFINE c == Compose(ch, band, bw, sb)
<1>4. c = ch + 256 * sb + 2048 * bw + 16384 * band
  BY <1>3, SMT
<1> HIDE DEF c
<1>5. c \in Nat /\ c <= 65535
  BY <1>4, SMT
<1>6. Channel(c) = ch
  BY <1>4, SMT DEF Channel
<1>7. CtlSb(c) = sb
  <2>1. c \div 256 = sb + 8 * bw + 64 * band
    BY <1>4, SMT
  <2>2. QED
    BY <2>1, SMT DEF CtlSb
<1>8. Bw(c) = bw
  <2>1. c \div 2048 = bw + 8 * band
    BY <1>4, SMT
  <2>2. QED
    BY <2>1, SMT DEF Bw
<1>9. Band(c) = band
  BY <1>4, <1>5, SMT DEF Band
<1>10. QED
  BY <1>4, <1>5, <1>6, <1>7, <1>8, <1>9 DEF c, Word, Packed, Parts

LEMMA ComposeRange ==
    ASSUME NEW ch \in Int, NEW band \in Int, NEW bw \in Int, NEW sb \in Int
    PROVE  Word(Compose(ch, band, bw, sb))
<1> DEFINE h == OrByte((ch \div 256) % 256, 64 * band + 8 * bw + sb)
<1>1. h \in 0..255
  <2>1. (ch \div 256) % 256 \in Int /\ 64 * band + 8 * bw + sb \in Int
    BY SMT
  <2>2. QED
    BY <2>1, OrByteIsByte, ZenonT(30)
<1>2. ch % 256 \in 0..255
  BY SMT
<1>3. Compose(ch, band, bw, sb) = (ch % 256) + 256 * h
  BY DEF Compose
<1> HIDE DEF h
<1>4. QED
  BY <1>1, <1>2, <1>3, SMT DEF Word

LEMMA Fields ==
    ASSUME NEW c, Word(c)
    PROVE  /\ Channel(c) \in 0..255 /\ CtlSb(c) \in 0..7 /\ Bw(c) \in 0..7 /\ Band(c) \in 0..3
           /\ c = Packed(Channel(c), Band(c), Bw(c), CtlSb(c))
<1>1. Channel(c) \in 0..255
  BY SMT DEF Channel, Word
<1>2. CtlSb(c) \in 0..7
  BY SMT DEF CtlSb, Word
<1>3. Bw(c) \in 0..7
  BY SMT DEF Bw, Word
<1>4. Band(c) \in 0..3
  BY SMT DEF Band, Word
<1> DEFINE q == c \div 256
           r == c \div 2048
<1>5. c \in Int /\ q \in Int /\ r \in Int /\ c = Channel(c) + 256 * q
  BY SMT DEF Channel, Word
<1>6. q = CtlSb(c) + 8 * r
  BY SMT DEF CtlSb, Word
<1>7. r = Bw(c) + 8 * Band(c)
  BY SMT DEF Bw, Band, Word
<1> HIDE DEF q, r
<1>8. ASSUME NEW ch \in Int, NEW sb \in Int, NEW bw \in Int, NEW band \in Int,
             c = ch + 256 * q, q = sb + 8 * r, r = bw + 8 * band
      PROVE  c = Packed(ch, band, bw, sb)
  BY <1>5, <1>8, SMT DEF Packed
<1>9. Channel(c) \in Int /\ CtlSb(c) \in Int /\ Bw(c) \in Int /\ Band(c) \in Int
  BY <1>1, <1>2, <1>3, <1>4, SMT
<1>10. c = Packed(Channel(c), Band(c), Bw(c), CtlSb(c))
  BY <1>5, <1>6, <1>7, <1>8, <1>9, Zenon
<1>11. QED
  BY <1>1, <1>2, <1>3, <1>4, <1>10

LEMMA Recompose ==
    ASSUME NEW c, Word(c)
    PROVE  Compose(Channel(c), Band(c), Bw(c), CtlSb(c)) = c
<1>1. /\ Channel(c) \in 0..255 /\ CtlSb(c) \in 0..7 /\ Bw(c) \in 0..7 /\ Band(c) \in 0..3
      /\ c = Packed(Channel(c), Band(c), Bw(c), CtlSb(c))
  BY Fields
<1>2. QED
  BY <1>1, ComposeIs

-----------------------------------------------------------------------------
(* Centers, sides and primary channels *)

Wides == {BW_40, BW_80, BW_160}

(* The number of 20 MHz channels, and how far the lowest is below the center. *)
Sides(bw) == CASE bw = BW_40 -> 2 [] bw = BW_80 -> 4 [] bw = BW_160 -> 8
Below(bw) == CASE bw = BW_40 -> 2 [] bw = BW_80 -> 6 [] bw = BW_160 -> 14

LEMMA MhzIs ==
    /\ Mhz(BW_20) = 20
    /\ Mhz(BW_40) = 40
    /\ Mhz(BW_80) = 80
    /\ Mhz(BW_160) = 160
BY DEF Mhz, BW_20, BW_40, BW_80, BW_160

LEMMA Table ==
    ASSUME NEW bw \in Wides
    PROVE  /\ DOMAIN Centers(bw) \subseteq Nat
           /\ \A i \in DOMAIN Centers(bw) : Centers(bw)[i] \in 38..159
           /\ \A i, j \in DOMAIN Centers(bw) :
                  i < j => Centers(bw)[j] - Centers(bw)[i] >= 4 * Sides(bw)
<1>1. CASE bw = BW_40
  <2>1. Centers(bw) = Chans40 /\ Sides(bw) = 2
    BY <1>1 DEF Centers, Sides, BW_40, BW_80, BW_160
  <2>2. DOMAIN Chans40 = 1..12
    BY DEF Chans40
  <2>3. \A i \in 1..12 : Chans40[i] \in 38..159
    BY DEF Chans40
  <2>4. \A i, j \in 1..12 : i < j => Chans40[j] - Chans40[i] >= 8
    BY DEF Chans40
  <2>5. QED
    BY <2>1, <2>2, <2>3, <2>4
<1>2. CASE bw = BW_80
  <2>1. Centers(bw) = Chans80 /\ Sides(bw) = 4
    BY <1>2 DEF Centers, Sides, BW_40, BW_80, BW_160
  <2>2. DOMAIN Chans80 = 1..6
    BY DEF Chans80
  <2>3. \A i \in 1..6 : Chans80[i] \in 38..159
    BY DEF Chans80
  <2>4. \A i, j \in 1..6 : i < j => Chans80[j] - Chans80[i] >= 16
    BY DEF Chans80
  <2>5. QED
    BY <2>1, <2>2, <2>3, <2>4
<1>3. CASE bw = BW_160
  <2>1. Centers(bw) = Chans160 /\ Sides(bw) = 8
    BY <1>3 DEF Centers, Sides, BW_40, BW_80, BW_160
  <2>2. DOMAIN Chans160 = 1..2
    BY DEF Chans160
  <2>3. \A i \in 1..2 : Chans160[i] \in 38..159
    BY DEF Chans160
  <2>4. \A i, j \in 1..2 : i < j => Chans160[j] - Chans160[i] >= 32
    BY DEF Chans160
  <2>5. QED
    BY <2>1, <2>2, <2>3, <2>4
<1>4. QED
  BY <1>1, <1>2, <1>3 DEF Wides

(* What LowEdge is away from the ends of a byte. *)
LEMMA LowEdgeIs ==
    ASSUME NEW bw \in Wides, NEW x \in 14..255
    PROVE  /\ LowEdge(x, Mhz(bw)) = x - Below(bw)
           /\ Mhz(bw) \div 20 = Sides(bw)
           /\ Sides(bw) \in 2..8 /\ Below(bw) \in 2..14 /\ Below(bw) = 2 * Sides(bw) - 2
<1>1. CASE bw = BW_40
  <2>1. Mhz(bw) = 40 /\ Below(bw) = 2 /\ Sides(bw) = 2
    BY <1>1, MhzIs DEF Below, Sides, BW_40, BW_80, BW_160
  <2>2. QED
    BY <2>1, SMT DEF LowEdge
<1>2. CASE bw = BW_80
  <2>1. Mhz(bw) = 80 /\ Below(bw) = 6 /\ Sides(bw) = 4
    BY <1>2, MhzIs DEF Below, Sides, BW_40, BW_80, BW_160
  <2>2. QED
    BY <2>1, SMT DEF LowEdge
<1>3. CASE bw = BW_160
  <2>1. Mhz(bw) = 160 /\ Below(bw) = 14 /\ Sides(bw) = 8
    BY <1>3, MhzIs DEF Below, Sides, BW_40, BW_80, BW_160
  <2>2. QED
    BY <2>1, SMT DEF LowEdge
<1>4. QED
  BY <1>1, <1>2, <1>3 DEF Wides

(* A channel that fits is one of the sides, and its number says which. *)
LEMMA Fits ==
    ASSUME NEW bw \in Wides, NEW x \in 14..241, NEW ctl \in Nat, HasSideband(x, ctl, Mhz(bw))
    PROVE  /\ Sideband(x, ctl, Mhz(bw)) \in 0..(Sides(bw) - 1)
           /\ ctl = x - Below(bw) + 4 * Sideband(x, ctl, Mhz(bw))
           /\ ctl >= x - Below(bw) /\ ctl <= x + Below(bw)
<1>1. /\ LowEdge(x, Mhz(bw)) = x - Below(bw)
      /\ Mhz(bw) \div 20 = Sides(bw)
      /\ Sides(bw) \in 2..8 /\ Below(bw) \in 2..14 /\ Below(bw) = 2 * Sides(bw) - 2
  BY LowEdgeIs
<1>2. PICK sb \in 0..(Sides(bw) - 1) : ctl = (x - Below(bw)) + 4 * sb
  BY <1>1 DEF HasSideband
<1>3. Sideband(x, ctl, Mhz(bw)) = sb
  <2>1. (ctl - (x - Below(bw))) \div 4 = sb
    BY <1>1, <1>2, SMT
  <2>2. QED
    BY <1>1, <2>1 DEF Sideband
<1>4. QED
  BY <1>1, <1>2, <1>3

LEMMA Fitting ==
    ASSUME NEW bw \in Wides, NEW x \in 14..241, NEW sb \in 0..(Sides(bw) - 1)
    PROVE  /\ x - Below(bw) + 4 * sb \in Nat
           /\ x - Below(bw) + 4 * sb <= 255
           /\ HasSideband(x, x - Below(bw) + 4 * sb, Mhz(bw))
           /\ Sideband(x, x - Below(bw) + 4 * sb, Mhz(bw)) = sb
<1>1. /\ LowEdge(x, Mhz(bw)) = x - Below(bw)
      /\ Mhz(bw) \div 20 = Sides(bw)
      /\ Sides(bw) \in 2..8 /\ Below(bw) \in 2..14 /\ Below(bw) = 2 * Sides(bw) - 2
  BY LowEdgeIs
<1>2. HasSideband(x, x - Below(bw) + 4 * sb, Mhz(bw))
  BY <1>1 DEF HasSideband
<1>3. ((x - Below(bw) + 4 * sb) - (x - Below(bw))) \div 4 = sb
  BY <1>1, SMT
<1>4. x - Below(bw) + 4 * sb \in Nat /\ x - Below(bw) + 4 * sb <= 255
  BY <1>1, SMT
<1>5. QED
  BY <1>1, <1>2, <1>3, <1>4 DEF Sideband

(* At most one center of a table has the primary channel. *)
LEMMA OneCenter ==
    ASSUME NEW bw \in Wides, NEW ctl \in Nat,
           NEW i \in DOMAIN Centers(bw), NEW j \in DOMAIN Centers(bw),
           HasSideband(Centers(bw)[i], ctl, Mhz(bw)), HasSideband(Centers(bw)[j], ctl, Mhz(bw))
    PROVE  i = j
<1> DEFINE a == Centers(bw)[i]
           b == Centers(bw)[j]
           n == Sides(bw)
           m == Below(bw)
<1>1. /\ i \in Nat /\ j \in Nat
      /\ a \in 38..159 /\ b \in 38..159
      /\ i < j => b - a >= 4 * n
      /\ j < i => a - b >= 4 * n
  BY Table
<1>2. /\ a \in 14..241 /\ b \in 14..241
      /\ n \in 2..8 /\ m \in 2..14 /\ m = 2 * n - 2
  BY <1>1, LowEdgeIs
<1>3. /\ ctl >= a - m /\ ctl <= a + m
      /\ ctl >= b - m /\ ctl <= b + m
  BY <1>2, Fits
<1> HIDE DEF a, b, n, m
<1>4. ~(i < j) /\ ~(j < i)
  BY <1>1, <1>2, <1>3, SMT
<1>5. QED
  BY <1>1, <1>4

-----------------------------------------------------------------------------
(* The tables: the first center that fits is the only one *)

LEMMA Domains ==
    ASSUME NEW bw \in Wides
    PROVE  DOMAIN Centers(bw) = 1..Len(Centers(bw)) /\ Len(Centers(bw)) \in Nat
<1>1. DOMAIN Chans40 = 1..Len(Chans40) /\ Len(Chans40) \in Nat
  BY DEF Chans40
<1>2. DOMAIN Chans80 = 1..Len(Chans80) /\ Len(Chans80) \in Nat
  BY DEF Chans80
<1>3. DOMAIN Chans160 = 1..Len(Chans160) /\ Len(Chans160) \in Nat
  BY DEF Chans160
<1>4. QED
  BY <1>1, <1>2, <1>3 DEF Centers, Wides, BW_40, BW_80, BW_160

LEMMA WideIs ==
    ASSUME NEW bw \in Wides, NEW band, NEW ctl \in Nat
    PROVE  \/ /\ Wide(ctl, band, bw) = 0
              /\ \A i \in DOMAIN Centers(bw) : ~HasSideband(Centers(bw)[i], ctl, Mhz(bw))
           \/ \E i \in DOMAIN Centers(bw) :
                 /\ HasSideband(Centers(bw)[i], ctl, Mhz(bw))
                 /\ Wide(ctl, band, bw)
                      = Compose(Centers(bw)[i], band, bw, Sideband(Centers(bw)[i], ctl, Mhz(bw)))
<1> DEFINE fits(i) == HasSideband(Centers(bw)[i], ctl, Mhz(bw))
           Is(i) == fits(i) /\ \A j \in 1..(i - 1) : ~fits(j)
           first == CHOOSE i \in DOMAIN Centers(bw) : Is(i)
<1>1. CASE \A i \in DOMAIN Centers(bw) : ~fits(i)
  BY <1>1 DEF Wide
<1>2. CASE \E i \in DOMAIN Centers(bw) : fits(i)
  <2>1. PICK i \in DOMAIN Centers(bw) : fits(i)
    BY <1>2
  <2>2. \A j \in 1..(i - 1) : j \in DOMAIN Centers(bw) /\ j # i
    BY <2>1, Domains
  <2>3. Is(i)
    BY <2>1, <2>2, OneCenter
  <2>4. first \in DOMAIN Centers(bw) /\ Is(first)
    BY <2>1, <2>3
  <2>5. Wide(ctl, band, bw)
          = Compose(Centers(bw)[first], band, bw, Sideband(Centers(bw)[first], ctl, Mhz(bw)))
    BY <1>2 DEF Wide
  <2>6. QED
    BY <2>4, <2>5
<1>3. QED
  BY <1>1, <1>2

(* The tables of 20 MHz channels and of centers. *)
LEMMA Twenties ==
    {36, 40, 44, 48, 52, 56, 60, 64, 100, 104, 108, 112, 116, 120, 124, 128, 132, 136, 140, 144,
     149, 153, 157, 161} \subseteq Chans20
<1>1. DOMAIN Chans40 = 1..12
  BY DEF Chans40
<1>2. \A x \in {38, 46, 54, 62, 102, 110, 118, 126, 134, 142, 151, 159} : x \in Members(Chans40)
  <2>1. /\ Chans40[1] = 38 /\ Chans40[2] = 46 /\ Chans40[3] = 54 /\ Chans40[4] = 62
        /\ Chans40[5] = 102 /\ Chans40[6] = 110 /\ Chans40[7] = 118 /\ Chans40[8] = 126
        /\ Chans40[9] = 134 /\ Chans40[10] = 142 /\ Chans40[11] = 151 /\ Chans40[12] = 159
    BY DEF Chans40
  <2>2. QED
    BY <1>1, <2>1 DEF Members
<1>3. \A x \in {38, 46, 54, 62, 102, 110, 118, 126, 134, 142, 151, 159} :
          x - 2 \in Chans20 /\ x + 2 \in Chans20
  <2>1. \A x \in {38, 46, 54, 62, 102, 110, 118, 126, 134, 142, 151, 159} :
            Lower20(x) = x - 2 /\ Upper20(x) = x + 2
    BY DEF Lower20, Upper20, MAXCHANNEL
  <2>2. QED
    BY <1>2, <2>1 DEF Chans20
<1>4. QED
  BY <1>3

LEMMA MembersAre ==
    /\ Members(Chans40) = {38, 46, 54, 62, 102, 110, 118, 126, 134, 142, 151, 159}
    /\ Members(Chans80) = {42, 58, 106, 122, 138, 155}
    /\ Members(Chans160) = {50, 114}
<1>1. Members(Chans40) = {38, 46, 54, 62, 102, 110, 118, 126, 134, 142, 151, 159}
  BY DEF Chans40, Members
<1>2. Members(Chans80) = {42, 58, 106, 122, 138, 155}
  BY DEF Chans80, Members
<1>3. Members(Chans160) = {50, 114}
  BY DEF Chans160, Members
<1>4. QED
  BY <1>1, <1>2, <1>3

LEMMA Primaries ==
    ASSUME NEW bw \in Wides, NEW x \in Members(Centers(bw)), NEW sb \in 0..(Sides(bw) - 1)
    PROVE  x \in 38..159 /\ x - Below(bw) + 4 * sb \in Chans20
<1>1. CASE bw = BW_40
  <2>1. Centers(bw) = Chans40 /\ Sides(bw) = 2 /\ Below(bw) = 2
    BY <1>1 DEF Centers, Sides, Below, BW_40, BW_80, BW_160
  <2>2. QED
    BY <2>1, MembersAre, Twenties
<1>2. CASE bw = BW_80
  <2>1. Centers(bw) = Chans80 /\ Sides(bw) = 4 /\ Below(bw) = 6
    BY <1>2 DEF Centers, Sides, Below, BW_40, BW_80, BW_160
  <2>2. QED
    BY <2>1, MembersAre, Twenties
<1>3. CASE bw = BW_160
  <2>1. Centers(bw) = Chans160 /\ Sides(bw) = 8 /\ Below(bw) = 14
    BY <1>3 DEF Centers, Sides, Below, BW_40, BW_80, BW_160
  <2>2. QED
    BY <2>1, MembersAre, Twenties
<1>4. QED
  BY <1>1, <1>2, <1>3 DEF Wides

-----------------------------------------------------------------------------
(* The primary channel of a channel of 802.11 *)

LEMMA CtlChanIs ==
    ASSUME NEW c, Word(c), Bw(c) \in Wides, Channel(c) \in 14..241,
           CtlSb(c) \in 0..(Sides(Bw(c)) - 1)
    PROVE  CtlChan(c) = Channel(c) - Below(Bw(c)) + 4 * CtlSb(c)
<1> DEFINE x == Channel(c)
           bw == Bw(c)
           sb == CtlSb(c)
<1>1. LowEdge(x, Mhz(bw)) = x - Below(bw)
  BY LowEdgeIs
<1>2. x - Below(bw) + 4 * sb \in Nat /\ x - Below(bw) + 4 * sb <= 255
  BY Fitting, ZenonT(30)
<1>3. CtlChan(c) = (LowEdge(x, Mhz(bw)) + 4 * sb) % 256
  BY DEF CtlChan, Wides, BW_20, BW_40, BW_80, BW_160
<1>4. CtlChan(c) = (x - Below(bw) + 4 * sb) % 256
  BY <1>1, <1>3
<1> DEFINE y == x - Below(bw) + 4 * sb
<1> HIDE DEF y
<1>5. y \in Nat /\ y <= 255
  BY <1>2 DEF y
<1>6. y % 256 = y
  BY <1>5, SMT
<1>7. CtlChan(c) = y % 256
  BY <1>4 DEF y
<1>8. QED
  BY <1>6, <1>7 DEF y

(* The sides of a well-formed chanspec of the 5 GHz band. *)
LEMMA SideOf ==
    ASSUME NEW c, Word(c), ~Malformed(c), Bw(c) \in Wides
    PROVE  CtlSb(c) \in 0..(Sides(Bw(c)) - 1)
<1>1. CtlSb(c) \in 0..7
  BY Fields
<1>2. /\ Bw(c) = BW_40 => CtlSb(c) <= 1 /\ Sides(Bw(c)) = 2
      /\ Bw(c) = BW_80 => CtlSb(c) <= 3 /\ Sides(Bw(c)) = 4
      /\ Bw(c) = BW_160 => Sides(Bw(c)) = 8
  BY <1>1 DEF Malformed, Sides, BW_20, BW_40, BW_80, BW_160
<1>3. QED
  BY <1>1, <1>2 DEF Wides

(* A wide channel of the 5 GHz band. *)
LEMMA WideValid ==
    ASSUME NEW c, Word(c), Valid(c), Band(c) = Band5G, Bw(c) \in Wides
    PROVE  /\ Channel(c) \in Members(Centers(Bw(c)))
           /\ Channel(c) \in 38..159
           /\ CtlSb(c) \in 0..(Sides(Bw(c)) - 1)
           /\ CtlChan(c) = Channel(c) - Below(Bw(c)) + 4 * CtlSb(c)
           /\ CtlChan(c) \in Chans20
<1>1. Channel(c) \in Members(Centers(Bw(c)))
  BY DEF Valid, Centers, Wides, Band2G, Band5G, BW_20, BW_40, BW_80, BW_160
<1>2. CtlSb(c) \in 0..(Sides(Bw(c)) - 1)
  BY SideOf DEF Valid
<1>3. /\ Channel(c) \in 38..159
      /\ Channel(c) - Below(Bw(c)) + 4 * CtlSb(c) \in Chans20
  BY <1>1, <1>2, Primaries
<1>4. Channel(c) \in 14..241
  BY <1>3
<1>5. CtlChan(c) = Channel(c) - Below(Bw(c)) + 4 * CtlSb(c)
  BY <1>2, <1>4, CtlChanIs
<1>6. QED
  BY <1>1, <1>2, <1>3, <1>5

LEMMA Chans20InByte == \A x \in Chans20 : x \in 1..224
<1>1. \A x \in Members(Chans40) : Lower20(x) \in 1..224 /\ Upper20(x) \in 1..224
  BY MembersAre DEF Lower20, Upper20, MAXCHANNEL
<1>2. QED
  BY <1>1 DEF Chans20

(* The 20 MHz chanspecs. *)
LEMMA TwentyValid ==
    ASSUME NEW ch \in Chans20
    PROVE  Valid(Compose(ch, Band5G, BW_20, 0))
<1>1. ch \in 0..255 /\ ch <= MAXCHANNEL /\ ch \in Nat
  BY Chans20InByte DEF MAXCHANNEL
<1>2. Band5G \in 0..3 /\ BW_20 \in 0..7 /\ 0 \in 0..7
  BY DEF Band5G, BW_20
<1> DEFINE c == Compose(ch, Band5G, BW_20, 0)
<1>3. Parts(c, ch, Band5G, BW_20, 0)
  BY <1>1, <1>2, ComposeIs, Zenon
<1> HIDE DEF c
<1>4. ~Malformed(c)
  BY <1>1, <1>3, SMT DEF Parts, MAXCHANNEL, Malformed, Band2G, Band5G, BW_20, BW_40, BW_80,
     BW_160, BW_8080
<1>5. QED
  BY <1>3, <1>4 DEF c, Valid, Parts

LEMMA Twenty2GValid ==
    ASSUME NEW ch \in 1..14
    PROVE  Valid(Compose(ch, Band2G, BW_20, 0))
<1>1. ch \in 0..255 /\ Band2G \in 0..3 /\ BW_20 \in 0..7 /\ 0 \in 0..7
  BY DEF Band2G, BW_20
<1> DEFINE c == Compose(ch, Band2G, BW_20, 0)
<1>2. Parts(c, ch, Band2G, BW_20, 0)
  BY <1>1, ComposeIs, Zenon
<1> HIDE DEF c
<1>3. ~Malformed(c)
  BY <1>2, SMT DEF Parts, Malformed, Band2G, Band5G, BW_20, BW_40, BW_80,
     BW_160, BW_8080
<1>4. QED
  BY <1>2, <1>3 DEF c, Valid, Parts

-----------------------------------------------------------------------------
(* PrimaryAgrees for one chanspec *)

LEMMA BandOfValid ==
    ASSUME NEW c, Word(c), Valid(c)
    PROVE  \/ Bw(c) = BW_20
           \/ Band(c) = Band2G /\ Bw(c) = BW_40 /\ Channel(c) \in 3..11 /\ CtlSb(c) \in 0..1
           \/ Band(c) = Band5G /\ Bw(c) \in Wides
<1>1. CtlSb(c) \in 0..7
  BY Fields
<1>2. Bw(c) = BW_40 => CtlSb(c) \in 0..1
  BY <1>1 DEF Valid, Malformed
<1>3. QED
  BY <1>2 DEF Valid, Wides

LEMMA Ctl2G ==
    ASSUME NEW c, Word(c), Bw(c) = BW_40, Channel(c) \in 3..11, CtlSb(c) \in 0..1
    PROVE  CtlChan(c) = Channel(c) - 2 + 4 * CtlSb(c) /\ CtlChan(c) \in 1..13
<1>1. CtlChan(c) = (LowEdge(Channel(c), 40) + 4 * CtlSb(c)) % 256
  BY MhzIs DEF CtlChan, BW_20, BW_40
<1>2. LowEdge(Channel(c), 40) = Channel(c) - 2
  BY SMT DEF LowEdge
<1>3. CtlChan(c) = (Channel(c) - 2 + 4 * CtlSb(c)) % 256
  BY <1>1, <1>2
<1>4. \A x \in 3..11, s \in 0..1 :
          (x - 2 + 4 * s) % 256 = x - 2 + 4 * s /\ x - 2 + 4 * s \in 1..13
  BY SMT
<1>5. QED
  BY <1>3, <1>4

LEMMA PrimaryValid ==
    ASSUME NEW c, Word(c), Valid(c)
    PROVE  Valid(CtlChspec(c))
<1>1. CASE Bw(c) = BW_20
  BY <1>1 DEF CtlChspec
<1>2. CASE Band(c) = Band2G /\ Bw(c) = BW_40 /\ Channel(c) \in 3..11 /\ CtlSb(c) \in 0..1
  <2>1. CtlChan(c) \in 1..14
    BY <1>2, Ctl2G
  <2>2. CtlChspec(c) = Compose(CtlChan(c), Band2G, BW_20, 0)
    BY <1>2 DEF CtlChspec, BW_20, BW_40
  <2>3. QED
    BY <2>1, <2>2, Twenty2GValid
<1>3. CASE Band(c) = Band5G /\ Bw(c) \in Wides
  <2>1. CtlChan(c) \in Chans20
    BY <1>3, WideValid
  <2>2. CtlChspec(c) = Compose(CtlChan(c), Band5G, BW_20, 0)
    BY <1>3 DEF CtlChspec, Wides, BW_20, BW_40, BW_80, BW_160
  <2>3. QED
    BY <2>1, <2>2, TwentyValid
<1>4. QED
  BY <1>1, <1>2, <1>3, BandOfValid

LEMMA HalfOf80 ==
    ASSUME NEW c, Word(c), NEW x \in Members(Chans40), NEW sb \in 0..1,
           c = Compose(x, Band5G, BW_40, sb)
    PROVE  Valid(c) /\ CtlChan(c) = x - 2 + 4 * sb
<1>1. x \in 38..159 /\ x \in 0..255 /\ x \in Nat /\ x <= 224
  BY MembersAre
<1>2. sb \in 0..7 /\ Band5G \in 0..3 /\ BW_40 \in 0..7
  BY DEF Band5G, BW_40
<1>3. Parts(c, x, Band5G, BW_40, sb)
  BY <1>1, <1>2, ComposeIs, Zenon
<1>4. ~Malformed(c)
  BY <1>1, <1>3, SMT DEF Parts, MAXCHANNEL, Malformed, Band2G, Band5G, BW_20, BW_40, BW_80, BW_160,
     BW_8080
<1>6. Valid(c)
  BY <1>3, <1>4 DEF Valid, Parts
<1>7. Bw(c) \in Wides /\ Below(Bw(c)) = 2
  BY <1>3 DEF Parts, Wides, Below, BW_40, BW_80, BW_160
<1>8. QED
  BY <1>3, <1>6, <1>7, WideValid DEF Parts

LEMMA Primary40Agrees ==
    ASSUME NEW c, Word(c), Valid(c)
    PROVE  Valid(Primary40(c)) /\ CtlChan(Primary40(c)) = CtlChan(c)
<1>1. CASE Bw(c) # BW_80
  BY <1>1 DEF Primary40
<1>2. CASE Bw(c) = BW_80
  <2>1. Bw(c) \in Wides /\ Band(c) = Band5G /\ Sides(Bw(c)) = 4 /\ Below(Bw(c)) = 6
        /\ Centers(Bw(c)) = Chans80
    BY <1>2, BandOfValid DEF Wides, Sides, Below, Centers, BW_20, BW_40, BW_80, BW_160
  <2>2. /\ Channel(c) \in {42, 58, 106, 122, 138, 155}
        /\ CtlSb(c) \in 0..3
        /\ CtlChan(c) = Channel(c) - 6 + 4 * CtlSb(c)
    BY <2>1, WideValid, MembersAre
  <2>3. Channel(c) + 4 \in Members(Chans40) /\ Channel(c) - 4 \in Members(Chans40)
    BY <2>2, MembersAre
  <2>4. CASE CtlSb(c) \in {2, 3}
    <3>1. Primary40(c) = Compose(Channel(c) + 4, Band5G, BW_40, CtlSb(c) - 2)
      BY <1>2, <2>4 DEF Primary40
    <3>2. CtlSb(c) - 2 \in 0..1
      BY <2>4
    <3>3. Word(Primary40(c))
      BY <2>2, <3>1, <3>2, ComposeRange DEF Band5G, BW_40
    <3>4. Valid(Primary40(c)) /\ CtlChan(Primary40(c)) = (Channel(c) + 4) - 2 + 4 * (CtlSb(c) - 2)
      BY <2>3, <3>1, <3>2, <3>3, HalfOf80
    <3>5. QED
      BY <2>2, <3>4
  <2>5. CASE CtlSb(c) \in {0, 1}
    <3>1. Primary40(c) = Compose(Channel(c) - 4, Band5G, BW_40, CtlSb(c))
      BY <1>2, <2>5 DEF Primary40
    <3>2. CtlSb(c) \in 0..1
      BY <2>5
    <3>3. Word(Primary40(c))
      BY <2>2, <3>1, <3>2, ComposeRange DEF Band5G, BW_40
    <3>4. Valid(Primary40(c)) /\ CtlChan(Primary40(c)) = (Channel(c) - 4) - 2 + 4 * CtlSb(c)
      BY <2>3, <3>1, <3>2, <3>3, HalfOf80
    <3>5. QED
      BY <2>2, <3>4
  <2>6. QED
    BY <2>2, <2>4, <2>5
<1>3. QED
  BY <1>1, <1>2

-----------------------------------------------------------------------------
(* 80+80 texts: whatever is composed of them is refused *)

LEMMA TextBandIs ==
    ASSUME NEW t \in TextRecord
    PROVE  TextBand(t) \in {Band2G, Band5G} /\ TextBand(t) \in 0..3
<1>1. DefaultBand(t.ch) \in {Band2G, Band5G}
  BY DEF DefaultBand
<1>2. TextBand(t) \in {Band2G, Band5G}
  BY <1>1 DEF TextBand
<1>3. QED
  BY <1>2 DEF Band2G, Band5G

(* The sideband of a channel that has one, around any center. *)
LEMMA SidebandRange ==
    ASSUME NEW center \in Nat, NEW ctl \in Nat, NEW mhz \in {20, 40, 80, 160},
           HasSideband(center, ctl, mhz)
    PROVE  Sideband(center, ctl, mhz) \in 0..7
<1> DEFINE e == LowEdge(center, mhz)
           n == mhz \div 20
<1>1. e \in Int
  <2>1. (mhz - 20) \div 10 \in Int
    BY SMT
  <2>2. \A x \in Int : x % 256 \in Int
    BY SMT
  <2>3. QED
    BY <2>1, <2>2 DEF LowEdge
<1>2. n \in 1..8
  BY SMT
<1>3. PICK sb \in 0..(n - 1) : ctl = e + 4 * sb
  BY DEF HasSideband
<1> HIDE DEF e, n
<1>4. (ctl - e) \div 4 = sb
  BY <1>1, <1>2, <1>3, SMT
<1>5. Sideband(center, ctl, mhz) = (ctl - e) \div 4
  BY DEF Sideband, e
<1>6. QED
  BY <1>2, <1>3, <1>4, <1>5

(* The width field of a composed 80+80 chanspec, overrun or not. *)
Pairish(c) == Word(c) /\ Bw(c) \in {6, 7}

(* A composed 80+80 chanspec has none of the other widths. *)
LEMMA Compose8080 ==
    ASSUME NEW ch \in 0..255, NEW band \in 0..3, NEW sb \in 0..11
    PROVE  Pairish(Compose(ch, band, BW_8080, sb))
<1> DEFINE c == Compose(ch, band, BW_8080, sb)
           y == 64 * band + 8 * BW_8080 + sb
<1>1. y \in 0..255
  BY SMT DEF BW_8080
<1>2. (ch \div 256) % 256 = 0 /\ ch % 256 = ch
  BY SMT
<1>3. c = ch + 256 * y
  BY <1>1, <1>2, OrByteOfByte DEF Compose
<1>4. y = 64 * band + 48 + sb
  BY SMT DEF BW_8080
<1> HIDE DEF c, y
<1>5. c \in Nat /\ c <= 65535
  BY <1>1, <1>3, SMT
<1>6. c \div 2048 = 8 * band + (IF sb < 8 THEN 6 ELSE 7)
  BY <1>3, <1>4, SMT
<1>7. Bw(c) \in {6, 7}
  BY <1>6, SMT DEF Bw
<1>8. QED
  BY <1>5, <1>7 DEF c, Word, Pairish

(* Two indices of the table of 80 MHz centers fit a byte. *)
LEMMA ComposePair ==
    ASSUME NEW i \in 1..6, NEW j \in 1..6
    PROVE  i - 1 + 16 * (j - 1) \in 0..255
BY SMT

LEMMA PairOf ==
    ASSUME NEW t \in TextRecord, NEW p, p \in 0..255, NEW sb, sb \in 0..11,
           Pair(t) = Compose(p, TextBand(t), BW_8080, sb)
    PROVE  Pairish(Pair(t))
<1>1. TextBand(t) \in 0..3
  BY TextBandIs
<1>2. QED
  BY <1>1, Compose8080

LEMMA PairIs ==
    ASSUME NEW t \in TextRecord, t.pair # <<>>, t.bw \in {20, 40, 80, 160}
    PROVE  Pair(t) = 0 \/ Pairish(Pair(t))
<1> DEFINE id(ch) == CHOOSE i \in DOMAIN Chans80 : Chans80[i] = ch
           ch1 == t.pair[1]
           ch2 == t.pair[2]
           pairs == id(ch1) - 1 + 16 * (id(ch2) - 1)
           sb1 == Sideband(ch1, t.ch, t.bw)
           sb2 == 4 + Sideband(ch2, t.ch, t.bw)
<1>1. t.ch \in Nat /\ ch1 \in Nat /\ ch2 \in Nat
  BY DEF TextRecord
<1>2. {ch1, ch2} \subseteq Members(Chans80) => pairs \in 0..255
  <2>1. DOMAIN Chans80 = 1..6
    BY DEF Chans80
  <2>2. \A ch \in Members(Chans80) : id(ch) \in 1..6
    BY <2>1 DEF Members
  <2> DEFINE a == id(ch1)
             b == id(ch2)
  <2>3. ASSUME {ch1, ch2} \subseteq Members(Chans80)
        PROVE  a \in 1..6 /\ b \in 1..6
    BY <2>2, <2>3
  <2> HIDE DEF a, b
  <2>4. a \in 1..6 /\ b \in 1..6 => a - 1 + 16 * (b - 1) \in 0..255
    BY ComposePair
  <2>5. QED
    BY <2>3, <2>4 DEF a, b
<1>3. HasSideband(ch1, t.ch, t.bw) => sb1 \in 0..11
  <2>1. HasSideband(ch1, t.ch, t.bw) => Sideband(ch1, t.ch, t.bw) \in 0..7
    BY <1>1, SidebandRange, SMTT(30)
  <2>2. QED
    BY <2>1
<1>4. HasSideband(ch2, t.ch, t.bw) => sb2 \in 0..11
  <2>1. HasSideband(ch2, t.ch, t.bw) => Sideband(ch2, t.ch, t.bw) \in 0..7
    BY <1>1, SidebandRange, SMTT(30)
  <2>2. QED
    BY <2>1
<1>5. \/ Pair(t) = 0
      \/ /\ {ch1, ch2} \subseteq Members(Chans80)
         /\ \/ /\ HasSideband(ch1, t.ch, t.bw)
               /\ Pair(t) = Compose(pairs, TextBand(t), BW_8080, sb1)
            \/ /\ HasSideband(ch2, t.ch, t.bw)
               /\ Pair(t) = Compose(pairs, TextBand(t), BW_8080, sb2)
  BY DEF Pair
<1> HIDE DEF ch1, ch2, pairs, sb1, sb2
<1>6. QED
  BY <1>2, <1>3, <1>4, <1>5, PairOf

-----------------------------------------------------------------------------
(* What a readable text composes *)

(* What a readable text can be. *)
Sided(t) ==
    /\ t.side \in {"u", "l"} /\ t.bw \in {0, 40}
    /\ t.side = "l" => Composed(t) = Compose(Upper20(t.ch), TextBand(t), BW_40, 0)
    /\ t.side = "u" => Composed(t) = Compose(Lower20(t.ch), TextBand(t), BW_40, 1)

Paired(t) == t.side = "" /\ t.pair # <<>> /\ t.bw \in {20, 40, 80, 160} /\ Composed(t) = Pair(t)

Narrow(t) == t.side = "" /\ t.bw \in {0, 20} /\ Composed(t) = Compose(t.ch, TextBand(t), BW_20, 0)

Centered(t, bw) ==
    t.side = "" /\ bw \in Wides /\ t.bw = Mhz(bw) /\ Composed(t) = Wide(t.ch, TextBand(t), bw)

LEMMA Readable ==
    ASSUME NEW t \in TextRecord, ~Unreadable(t)
    PROVE  \/ Sided(t)
           \/ Paired(t)
           \/ Narrow(t)
           \/ \E bw \in Wides : Centered(t, bw)
<1>1. /\ t.bw \in {0, 20, 40, 80, 160}
      /\ t.side \in {"", "u", "l"}
      /\ t.side # "" => t.pair = <<>> /\ t.bw \in {0, 40}
      /\ t.pair # <<>> => t.bw # 0 /\ t.side = ""
  BY DEF Unreadable, TextRecord
<1>2. CASE t.side = "l"
  <2>1. Composed(t) = Compose(Upper20(t.ch), TextBand(t), BW_40, 0)
    BY <1>1, <1>2 DEF Composed
  <2>2. QED
    BY <1>1, <1>2, <2>1 DEF Sided
<1>3. CASE t.side = "u"
  <2>1. Composed(t) = Compose(Lower20(t.ch), TextBand(t), BW_40, 1)
    BY <1>1, <1>3 DEF Composed
  <2>2. QED
    BY <1>1, <1>3, <2>1 DEF Sided
<1>4. CASE t.side = "" /\ t.pair # <<>>
  <2>1. Composed(t) = Pair(t)
    BY <1>4 DEF Composed
  <2>2. QED
    BY <1>1, <1>4, <2>1 DEF Paired
<1>5. CASE t.side = "" /\ t.pair = <<>> /\ t.bw \in {0, 20}
  <2>1. Composed(t) = Compose(t.ch, TextBand(t), BW_20, 0)
    BY <1>5 DEF Composed
  <2>2. QED
    BY <1>5, <2>1 DEF Narrow
<1>6. CASE t.side = "" /\ t.pair = <<>> /\ t.bw \in {40, 80, 160}
  <2>0. t.bw \notin {0, 20}
    <3>1. \A n \in {40, 80, 160} : n \notin {0, 20}
      OBVIOUS
    <3>2. QED
      BY <1>6, <3>1, ZenonT(30)
  <2> DEFINE bw == CASE t.bw = 40 -> BW_40 [] t.bw = 80 -> BW_80 [] t.bw = 160 -> BW_160
  <2>1. Composed(t) = Wide(t.ch, TextBand(t), bw)
    BY <1>6, <2>0 DEF Composed
  <2>2. bw \in Wides /\ t.bw = Mhz(bw)
    <3>1. CASE t.bw = 40
      BY <3>1, MhzIs DEF Wides
    <3>2. CASE t.bw = 80
      BY <3>2, MhzIs DEF Wides
    <3>3. CASE t.bw = 160
      BY <3>3, MhzIs DEF Wides
    <3>4. QED
      BY <1>6, <3>1, <3>2, <3>3
  <2> HIDE DEF bw
  <2>3. QED
    BY <1>6, <2>1, <2>2 DEF Centered
<1>7. QED
  BY <1>1, <1>2, <1>3, <1>4, <1>5, <1>6

(* A center with a sideband of its table, composed. *)
LEMMA WideParts ==
    ASSUME NEW bw \in Wides, NEW band \in 0..3, NEW ctl \in Nat, NEW i \in DOMAIN Centers(bw),
           HasSideband(Centers(bw)[i], ctl, Mhz(bw)), NEW c,
           c = Compose(Centers(bw)[i], band, bw, Sideband(Centers(bw)[i], ctl, Mhz(bw)))
    PROVE  /\ Parts(c, Centers(bw)[i], band, bw, Sideband(Centers(bw)[i], ctl, Mhz(bw)))
           /\ CtlSb(c) \in 0..(Sides(bw) - 1)
           /\ CtlChan(c) = ctl
           /\ ctl \in 15..224
           /\ Channel(c) \in 38..159
<1> DEFINE x == Centers(bw)[i]
           sb == Sideband(x, ctl, Mhz(bw))
<1>1. x \in 38..159 /\ x \in 14..241 /\ x \in 0..255
  <2>1. x \in 38..159
    BY Table
  <2> HIDE DEF x
  <2>2. QED
    BY <2>1
<1>2. /\ sb \in 0..(Sides(bw) - 1)
      /\ ctl = x - Below(bw) + 4 * sb
      /\ ctl >= x - Below(bw) /\ ctl <= x + Below(bw)
  BY <1>1, Fits
<1>3. Sides(bw) \in 2..8 /\ Below(bw) \in 2..14
  BY <1>1, LowEdgeIs
<1>4. c = Compose(x, band, bw, sb)
  OBVIOUS
<1> HIDE DEF x, sb
<1>5. sb \in 0..7 /\ ctl \in 15..224
  BY <1>1, <1>2, <1>3
<1>6. bw \in 0..7
  BY DEF Wides, BW_40, BW_80, BW_160
<1>7. Parts(c, x, band, bw, sb)
  BY <1>1, <1>4, <1>5, <1>6, ComposeIs, Zenon
<1>8. CtlChan(c) = x - Below(bw) + 4 * sb
  BY <1>1, <1>2, <1>7, CtlChanIs DEF Parts
<1>9. QED
  BY <1>1, <1>2, <1>5, <1>7, <1>8 DEF Parts, x, sb

LEMMA WideWord ==
    ASSUME NEW bw \in Wides, NEW band \in 0..3, NEW ctl \in Nat
    PROVE  Word(Wide(ctl, band, bw))
<1>1. CASE Wide(ctl, band, bw) = 0
  BY <1>1 DEF Word
<1>2. CASE Wide(ctl, band, bw) # 0
  <2>1. PICK i \in DOMAIN Centers(bw) :
           /\ HasSideband(Centers(bw)[i], ctl, Mhz(bw))
           /\ Wide(ctl, band, bw)
                = Compose(Centers(bw)[i], band, bw, Sideband(Centers(bw)[i], ctl, Mhz(bw)))
    BY <1>2, WideIs
  <2> DEFINE x == Centers(bw)[i]
             sb == Sideband(x, ctl, Mhz(bw))
  <2>2. Parts(Wide(ctl, band, bw), x, band, bw, sb)
    BY <2>1, WideParts
  <2>3. QED
    BY <2>2 DEF Parts
<1>3. QED
  BY <1>1, <1>2

LEMMA ComposedWord ==
    ASSUME NEW t \in TextRecord, ~Unreadable(t)
    PROVE  Word(Composed(t))
<1>1. t.ch \in Nat /\ TextBand(t) \in 0..3
  BY TextBandIs DEF TextRecord
<1>2. CASE Sided(t)
  <2>1. Upper20(t.ch) \in Int /\ Lower20(t.ch) \in Int
    BY <1>1 DEF Upper20, Lower20, MAXCHANNEL
  <2>2. BW_40 \in Int /\ TextBand(t) \in Int
    BY <1>1 DEF BW_40
  <2>3. QED
    BY <1>2, <2>1, <2>2, ComposeRange DEF Sided
<1>3. CASE Paired(t)
  <2>1. Pair(t) = 0 \/ Pairish(Pair(t))
    BY <1>3, PairIs DEF Paired
  <2>2. Word(0)
    BY DEF Word
  <2>3. QED
    BY <1>3, <2>1, <2>2, ZenonT(30) DEF Paired, Pairish
<1>4. CASE Narrow(t)
  <2>1. BW_20 \in Int /\ 0 \in Int /\ TextBand(t) \in Int /\ t.ch \in Int
    BY <1>1 DEF BW_20
  <2>2. QED
    BY <1>4, <2>1, ComposeRange DEF Narrow
<1>5. ASSUME NEW bw \in Wides, Centered(t, bw)
      PROVE  Word(Composed(t))
  BY <1>1, <1>5, WideWord DEF Centered
<1>6. QED
  BY <1>2, <1>3, <1>4, <1>5, Readable

-----------------------------------------------------------------------------
(* The inductive invariant *)

(* A text that comes after a chanspec is the printed chanspec. *)
Printed == step = "text" /\ chanspec # 0 => ~Malformed(chanspec) /\ text = Ntoa(chanspec)

CInv ==
    /\ step \in {"text", "chanspec"}
    /\ text \in TextRecord
    /\ Word(chanspec)
    /\ Printed

LEMMA AtonWord ==
    ASSUME NEW t \in TextRecord
    PROVE  Word(Aton(t))
<1>1. Word(0)
  BY DEF Word
<1>2. QED
  BY <1>1, ComposedWord DEF Aton

LEMMA RecordType ==
    ASSUME NEW b \in {"", "2g", "3g", "5g"}, NEW c \in Nat, NEW w \in Nat, NEW s \in {"", "u", "l"}
    PROVE  [band |-> b, ch |-> c, bw |-> w, side |-> s, pair |-> <<>>] \in TextRecord
<1> DEFINE P == {<<>>} \cup (Nat \X Nat)
           p == <<>>
<1>1. p \in P
  OBVIOUS
<1> HIDE DEF P, p
<1>2. [band |-> b, ch |-> c, bw |-> w, side |-> s, pair |-> p]
        \in [band : {"", "2g", "3g", "5g"}, ch : Nat, bw : Nat, side : {"", "u", "l"}, pair : P]
  BY <1>1
<1>3. QED
  BY <1>2 DEF P, p, TextRecord

LEMMA NtoaType ==
    ASSUME NEW c, Word(c), ~Malformed(c)
    PROVE  Ntoa(c) \in TextRecord
<1>1. /\ Channel(c) \in 0..255 /\ CtlSb(c) \in 0..7 /\ Bw(c) \in 0..7 /\ Band(c) \in 0..3
  BY Fields
<1>2. CtlChan(c) \in Nat
  <2>1. LowEdge(Channel(c), Mhz(Bw(c))) \in Int \/ Bw(c) = BW_20
    <3>1. Mhz(Bw(c)) \in Int \/ Bw(c) = 7
      BY <1>1 DEF Mhz
    <3>2. Bw(c) # 7
      BY <1>1 DEF Malformed, Band2G, Band5G, BW_20, BW_40, BW_80,
     BW_160, BW_8080
    <3>3. \A m \in Int, x \in 0..255 : (x - (m - 20) \div 10) % 256 \in Int
      BY SMT
    <3>4. QED
      BY <1>1, <3>1, <3>2, <3>3 DEF LowEdge
  <2>2. \A e \in Int, s \in 0..7 : (e + 4 * s) % 256 \in Nat
    BY SMT
  <2>3. QED
    BY <1>1, <2>1, <2>2 DEF CtlChan
<1>3. Bw(c) # BW_20 => Mhz(Bw(c)) \in Nat
  <2>1. Bw(c) \in 0..6
    BY <1>1 DEF Malformed, Band2G, Band5G, BW_20, BW_40, BW_80,
     BW_160, BW_8080
  <2>2. QED
    BY <2>1 DEF Mhz
<1> DEFINE band == CASE Band(c) = Band2G /\ Channel(c) > CH_MAX_2G_CHANNEL -> "2g"
                     [] Band(c) = Band5G /\ Channel(c) <= CH_MAX_2G_CHANNEL -> "5g"
                     [] OTHER -> ""
           bw == IF Bw(c) = BW_20 THEN 0 ELSE Mhz(Bw(c))
           side == IF Bw(c) = BW_40 /\ Band(c) = Band2G
                   THEN IF CtlSb(c) = 1 THEN "u" ELSE "l" ELSE ""
<1>4. band \in {"", "2g", "3g", "5g"}
  BY Zenon
<1>5. bw \in Nat
  BY <1>3
<1>6. side \in {"", "u", "l"}
  OBVIOUS
<1>7. Ntoa(c) = [band |-> band, ch |-> CtlChan(c), bw |-> bw, side |-> side, pair |-> <<>>]
  BY DEF Ntoa
<1> HIDE DEF band, bw, side
<1>8. QED
  BY <1>2, <1>4, <1>5, <1>6, <1>7, RecordType, ZenonT(30)

LEMMA Uint16Word ==
    ASSUME NEW c \in Uint16
    PROVE  Word(c)
<1>1. Uint16Max \in Nat
  BY DEF Uint16Max
<1>2. c \in Nat /\ c <= Uint16Max
  BY <1>1 DEF Uint16
<1>3. QED
  BY <1>2 DEF Word, Uint16Max

LEMMA CInvInit == Init => CInv
<1>1. CASE step = "text" /\ text \in Texts /\ chanspec = 0
  <2>1. Word(chanspec)
    BY <1>1 DEF Word
  <2>2. QED
    BY <1>1, <2>1, ChanspecAssumption DEF CInv, Printed
<1>2. CASE step = "chanspec" /\ text = NoText /\ chanspec \in Chanspecs
  <2>1. Word(chanspec)
    <3>1. chanspec \in Uint16
      BY <1>2, ChanspecAssumption
    <3>2. QED
      BY <3>1, Uint16Word
  <2>2. NoText \in TextRecord
    BY DEF NoText, TextRecord
  <2>3. QED
    BY <1>2, <2>1, <2>2 DEF CInv, Printed
<1>3. QED
  BY <1>1, <1>2 DEF Init

LEMMA CInvStep == CInv /\ [Next]_vars => CInv'
<1> SUFFICES ASSUME CInv, [Next]_vars
             PROVE  CInv'
  OBVIOUS
<1>1. CASE StrToChanspec
  BY <1>1, AtonWord DEF StrToChanspec, CInv, Printed
<1>2. CASE ChanspecToStr
  BY <1>2, NtoaType DEF ChanspecToStr, CInv, Printed
<1>3. CASE UNCHANGED vars
  BY <1>3 DEF vars, CInv, Printed
<1>4. QED
  BY <1>1, <1>2, <1>3 DEF Next

(* For every 16-bit chanspec: the primary channel of a channel of 802.11 is *)
(* one, and so is the 40 MHz half of an 80 MHz channel, with the same       *)
(* primary channel (bcmwifi_channels.c:357-373, 854-941, 990-1003,          *)
(* 1065-1096).                                                              *)
THEOREM PrimaryAgreesHolds == Spec => []PrimaryAgrees
<1>1. CInv => PrimaryAgrees
  BY PrimaryValid, Primary40Agrees DEF CInv, PrimaryAgrees
<1>2. QED
  BY <1>1, CInvInit, CInvStep, PTL DEF Spec

-----------------------------------------------------------------------------
(* What a text means *)

LEMMA ZeroMalformed == Malformed(0)
<1>1. Band(0) = 0 /\ Bw(0) = 0
  BY SMT DEF Band, Bw
<1>2. QED
  BY <1>1 DEF Malformed, Band2G, BW_20, BW_40

LEMMA NoPairValid ==
    ASSUME NEW c, Bw(c) \in {6, 7}
    PROVE  ~Valid(c)
BY DEF Valid, BW_20, BW_40, BW_80, BW_160

LEMMA MhzWides ==
    ASSUME NEW bw \in Wides
    PROVE  Mhz(bw) \in {40, 80, 160}
<1>1. Mhz(BW_40) = 40 /\ Mhz(BW_80) = 80 /\ Mhz(BW_160) = 160
  BY MhzIs
<1>2. bw = BW_40 \/ bw = BW_80 \/ bw = BW_160
  BY DEF Wides
<1>3. QED
  BY <1>1, <1>2

(* The 40 MHz channels of both bands. *)
LEMMA Valid40 ==
    ASSUME NEW c, Word(c), Valid(c), Bw(c) = BW_40
    PROVE  /\ Channel(c) \in 3..159
           /\ CtlSb(c) \in 0..1
           /\ CtlChan(c) = Channel(c) - 2 + 4 * CtlSb(c)
<1>1. CASE Band(c) = Band2G /\ Channel(c) \in 3..11 /\ CtlSb(c) \in 0..1
  BY <1>1, Ctl2G
<1>2. CASE Band(c) = Band5G
  <2>1. Bw(c) \in Wides /\ Sides(Bw(c)) = 2 /\ Below(Bw(c)) = 2
    BY DEF Wides, Sides, Below, BW_40, BW_80, BW_160
  <2>2. QED
    BY <1>2, <2>1, WideValid
<1>3. Bw(c) # BW_20
  BY DEF BW_20, BW_40
<1>4. QED
  BY <1>1, <1>2, <1>3, BandOfValid

Means(t, c) ==
    /\ CtlChan(c) = t.ch
    /\ Band(c) = TextBand(t)
    /\ t.side = "l" => t.ch < Channel(c)
    /\ t.side = "u" => t.ch > Channel(c)
    /\ Mhz(Bw(c)) = CASE t.side # "" -> 40
                      [] t.side = "" /\ t.bw = 0 -> 20
                      [] OTHER -> t.bw

LEMMA SidedMeans ==
    ASSUME NEW t \in TextRecord, t.ch <= 255, Sided(t), NEW c, c = Composed(t), Valid(c)
    PROVE  Means(t, c)
<1>1. t.ch \in Nat /\ TextBand(t) \in 0..3
  BY TextBandIs DEF TextRecord
<1>2. BW_40 \in 0..7 /\ 0 \in 0..7 /\ 1 \in 0..7
  BY DEF BW_40
<1> DEFINE n == t.ch
<1>3. CASE t.side = "l"
  <2>1. Upper20(n) \in 0..255 /\ (Upper20(n) = n + 2 \/ Upper20(n) = 0)
    BY <1>1 DEF Upper20, MAXCHANNEL
  <2>2. c = Compose(Upper20(n), TextBand(t), BW_40, 0)
    BY <1>3 DEF Sided
  <2>3. Parts(c, Upper20(n), TextBand(t), BW_40, 0)
    BY <1>1, <1>2, <2>1, <2>2, ComposeIs, ZenonT(30)
  <2>4. Channel(c) \in 3..159 /\ CtlChan(c) = Channel(c) - 2 + 4 * 0
    BY <2>3, Valid40 DEF Parts
  <2>5. CtlChan(c) = n /\ n < Channel(c)
    BY <1>1, <2>1, <2>3, <2>4 DEF Parts
  <2>6. Mhz(Bw(c)) = 40
    BY <2>3, MhzIs DEF Parts
  <2>7. QED
    BY <1>3, <2>3, <2>5, <2>6 DEF Means, Parts
<1>4. CASE t.side = "u"
  <2>1. Lower20(n) \in 0..255 /\ (Lower20(n) = n - 2 \/ Lower20(n) = 0)
    BY <1>1 DEF Lower20
  <2>2. c = Compose(Lower20(n), TextBand(t), BW_40, 1)
    BY <1>4 DEF Sided
  <2>3. Parts(c, Lower20(n), TextBand(t), BW_40, 1)
    BY <1>1, <1>2, <2>1, <2>2, ComposeIs, Zenon
  <2>4. Channel(c) \in 3..159 /\ CtlChan(c) = Channel(c) - 2 + 4 * 1
    BY <2>3, Valid40 DEF Parts
  <2>5. CtlChan(c) = n /\ n > Channel(c)
    BY <1>1, <2>1, <2>3, <2>4 DEF Parts
  <2>6. Mhz(Bw(c)) = 40
    BY <2>3, MhzIs DEF Parts
  <2>7. QED
    BY <1>4, <2>3, <2>5, <2>6 DEF Means, Parts
<1>5. QED
  BY <1>3, <1>4 DEF Sided

LEMMA NarrowMeans ==
    ASSUME NEW t \in TextRecord, t.ch <= 255, Narrow(t), NEW c, c = Composed(t)
    PROVE  Means(t, c)
<1>1. t.ch \in 0..255 /\ TextBand(t) \in 0..3
  <2>1. \A n \in Nat : n <= 255 => n \in 0..255
    OBVIOUS
  <2>2. t.ch \in Nat
    BY DEF TextRecord
  <2>3. QED
    BY <2>1, <2>2, TextBandIs
<1>2. BW_20 \in 0..7 /\ 0 \in 0..7
  BY DEF BW_20
<1>3. c = Compose(t.ch, TextBand(t), BW_20, 0)
  BY DEF Narrow
<1>4. Parts(c, t.ch, TextBand(t), BW_20, 0)
  BY <1>1, <1>2, <1>3, ComposeIs, Zenon
<1>5. CtlChan(c) = t.ch /\ Mhz(Bw(c)) = 20
  BY <1>4, MhzIs DEF Parts, CtlChan
<1>6. t.side = "" /\ (t.bw # 0 => t.bw = 20)
  BY DEF Narrow
<1>7. QED
  BY <1>4, <1>5, <1>6 DEF Means, Parts

LEMMA CenteredMeans ==
    ASSUME NEW t \in TextRecord, NEW bw \in Wides, Centered(t, bw), NEW c, c = Composed(t), c # 0
    PROVE  Means(t, c)
<1>1. t.ch \in Nat /\ TextBand(t) \in 0..3
  BY TextBandIs DEF TextRecord
<1>2. PICK i \in DOMAIN Centers(bw) :
         /\ HasSideband(Centers(bw)[i], t.ch, Mhz(bw))
         /\ c = Compose(Centers(bw)[i], TextBand(t), bw, Sideband(Centers(bw)[i], t.ch, Mhz(bw)))
  BY <1>1, WideIs DEF Centered
<1> DEFINE x == Centers(bw)[i]
           sb == Sideband(x, t.ch, Mhz(bw))
<1>3. Parts(c, x, TextBand(t), bw, sb) /\ CtlChan(c) = t.ch
  BY <1>1, <1>2, WideParts
<1>4. t.side = "" /\ t.bw = Mhz(bw) /\ t.bw # 0
  <2>1. Mhz(bw) \in {40, 80, 160}
    BY MhzWides
  <2>2. \A n \in {40, 80, 160} : n # 0
    OBVIOUS
  <2>3. QED
    BY <2>1, <2>2, ZenonT(30) DEF Centered
<1> HIDE DEF x, sb
<1>5. QED
  BY <1>3, <1>4 DEF Means, Parts

LEMMA AtonMeans ==
    ASSUME NEW t \in TextRecord, t.ch <= 255, Valid(Aton(t))
    PROVE  Means(t, Aton(t))
<1> DEFINE c == Aton(t)
<1>1. c # 0
  BY ZeroMalformed DEF Valid
<1>2. ~Unreadable(t) /\ c = Composed(t)
  BY <1>1 DEF Aton
<1> HIDE DEF c
<1>3. Valid(c)
  BY DEF c
<1>4. ASSUME Paired(t)
      PROVE  FALSE
  <2>1. c = Pair(t)
    BY <1>2, <1>4 DEF Paired
  <2>2. Bw(c) \in {6, 7}
    BY <1>1, <1>4, <2>1, PairIs DEF Paired, Pairish
  <2>3. QED
    BY <1>3, <2>2, NoPairValid
<1>5. Sided(t) => Means(t, c)
  BY <1>2, <1>3, SidedMeans
<1>6. Narrow(t) => Means(t, c)
  BY <1>2, NarrowMeans
<1>7. ASSUME NEW bw \in Wides, Centered(t, bw)
      PROVE  Means(t, c)
  BY <1>1, <1>2, <1>7, CenteredMeans
<1>8. Means(t, c)
  BY <1>2, <1>4, <1>5, <1>6, <1>7, Readable
<1>9. QED
  BY <1>8 DEF c

(* For every text with a channel of at most 255: if the parser makes a      *)
(* channel of 802.11 of it, the primary channel, band, width and side are   *)
(* the written ones (bcmwifi_channels.c:545-785, 949-984).                  *)
THEOREM TextMeansHolds == Spec => TextMeans
<1> DEFINE A == step = "text" /\ text.ch <= 255 /\ Valid(chanspec') => Means(text, chanspec')
<1>1. ASSUME CInv, [Next]_vars
      PROVE  [A]_vars
  <2>1. CASE StrToChanspec
    BY <1>1, <2>1, AtonMeans DEF StrToChanspec, CInv
  <2>2. CASE ChanspecToStr
    BY <2>2 DEF ChanspecToStr
  <2>3. QED
    BY <1>1, <2>1, <2>2 DEF Next
<1>2. [A]_vars =>
        [step = "text" /\ text.ch <= 255 /\ Valid(chanspec') =>
           /\ CtlChan(chanspec') = text.ch
           /\ Band(chanspec') = TextBand(text)
           /\ text.side = "l" => text.ch < Channel(chanspec')
           /\ text.side = "u" => text.ch > Channel(chanspec')
           /\ Mhz(Bw(chanspec')) = CASE text.side # "" -> 40
                                     [] text.side = "" /\ text.bw = 0 -> 20
                                     [] OTHER -> text.bw]_vars
  BY DEF Means
<1>3. QED
  BY <1>1, <1>2, CInvInit, CInvStep, PTL DEF Spec, TextMeans

-----------------------------------------------------------------------------
(* Printing and parsing *)

LEMMA Distinct ==
    /\ BW_20 # BW_40 /\ BW_20 # BW_80 /\ BW_20 # BW_160
    /\ BW_40 # BW_80 /\ BW_40 # BW_160 /\ BW_80 # BW_160
BY DEF BW_20, BW_40, BW_80, BW_160

(* The fields of a printed text. *)
LEMMA NtoaFields ==
    ASSUME NEW c
    PROVE  /\ Ntoa(c).ch = CtlChan(c)
           /\ Ntoa(c).pair = <<>>
           /\ Bw(c) = BW_20 => Ntoa(c).bw = 0
           /\ Bw(c) # BW_20 => Ntoa(c).bw = Mhz(Bw(c))
           /\ ~(Bw(c) = BW_40 /\ Band(c) = Band2G) => Ntoa(c).side = ""
           /\ Bw(c) = BW_40 /\ Band(c) = Band2G =>
                 Ntoa(c).side = IF CtlSb(c) = 1 THEN "u" ELSE "l"
           /\ Ntoa(c).band = CASE Band(c) = Band2G /\ Channel(c) > CH_MAX_2G_CHANNEL -> "2g"
                               [] Band(c) = Band5G /\ Channel(c) <= CH_MAX_2G_CHANNEL -> "5g"
                               [] OTHER -> ""
BY DEF Ntoa

(* The band that is written, or suggested by the channel, is the chanspec's. *)
LEMMA BandReadsBack ==
    ASSUME NEW c, Word(c), Band(c) \in {Band2G, Band5G},
           Channel(c) > CH_MAX_2G_CHANNEL <=> CtlChan(c) > CH_MAX_2G_CHANNEL, CtlChan(c) \in Nat
    PROVE  TextBand(Ntoa(c)) = Band(c) /\ Ntoa(c).band # "3g"
<1> DEFINE t == Ntoa(c)
<1>1. Channel(c) \in Nat
  BY Fields
<1>2. t.ch = CtlChan(c)
  BY NtoaFields
<1>3. Band2G # Band5G
  BY DEF Band2G, Band5G
<1>4. Channel(c) <= CH_MAX_2G_CHANNEL <=> ~(Channel(c) > CH_MAX_2G_CHANNEL)
  BY <1>1 DEF CH_MAX_2G_CHANNEL
<1>5. CtlChan(c) <= CH_MAX_2G_CHANNEL <=> ~(CtlChan(c) > CH_MAX_2G_CHANNEL)
  BY DEF CH_MAX_2G_CHANNEL
<1>6. t.band = CASE Band(c) = Band2G /\ Channel(c) > CH_MAX_2G_CHANNEL -> "2g"
                 [] Band(c) = Band5G /\ Channel(c) <= CH_MAX_2G_CHANNEL -> "5g"
                 [] OTHER -> ""
  BY NtoaFields
<1> HIDE DEF t
<1>7. CASE Band(c) = Band2G /\ Channel(c) > CH_MAX_2G_CHANNEL
  <2>1. t.band = "2g"
    BY <1>3, <1>6, <1>7, Zenon
  <2>2. QED
    BY <1>7, <2>1 DEF TextBand, t
<1>8. CASE Band(c) = Band5G /\ Channel(c) <= CH_MAX_2G_CHANNEL
  <2>1. t.band = "5g"
    BY <1>3, <1>6, <1>8, Zenon
  <2>2. QED
    BY <1>8, <2>1 DEF TextBand, t
<1>9. CASE /\ ~(Band(c) = Band2G /\ Channel(c) > CH_MAX_2G_CHANNEL)
           /\ ~(Band(c) = Band5G /\ Channel(c) <= CH_MAX_2G_CHANNEL)
  <2>1. t.band = ""
    BY <1>6, <1>9, Zenon
  <2>2. DefaultBand(t.ch) = Band(c)
    BY <1>2, <1>4, <1>5, <1>9, Zenon DEF DefaultBand
  <2>3. TextBand(t) = DefaultBand(t.ch)
    BY <2>1 DEF TextBand
  <2>4. QED
    BY <2>1, <2>2, <2>3 DEF t
<1>10. QED
  BY <1>7, <1>8, <1>9

LEMMA WellBand ==
    ASSUME NEW c, ~Malformed(c)
    PROVE  Band(c) \in {Band2G, Band5G}
BY DEF Malformed

LEMMA RoundTrip20 ==
    ASSUME NEW c, Word(c), ~Malformed(c), Bw(c) = BW_20
    PROVE  Aton(Ntoa(c)) = c
<1> DEFINE t == Ntoa(c)
<1>1. Channel(c) \in 0..255 /\ Channel(c) \in Nat /\ CtlSb(c) = 0
  <2>1. Channel(c) \in 0..255
    BY Fields
  <2>2. CtlSb(c) = 0
    BY Zenon DEF Malformed
  <2>3. QED
    BY <2>1, <2>2
<1>2. CtlChan(c) = Channel(c)
  BY DEF CtlChan
<1>3. TextBand(t) = Band(c) /\ t.band # "3g"
  BY <1>1, <1>2, WellBand, BandReadsBack
<1>4. /\ t.ch = Channel(c) /\ t.pair = <<>> /\ t.bw = 0 /\ t.side = ""
  BY <1>2, NtoaFields, Distinct
<1> HIDE DEF t
<1>5. ~Unreadable(t)
  BY <1>3, <1>4 DEF Unreadable
<1>6. Composed(t) = Compose(t.ch, TextBand(t), BW_20, 0)
  BY <1>4 DEF Composed
<1>7. Composed(t) = Compose(Channel(c), Band(c), Bw(c), CtlSb(c))
  BY <1>1, <1>3, <1>4, <1>6, Zenon
<1>8. Composed(t) = c
  BY <1>7, Recompose
<1>9. QED
  BY <1>5, <1>8 DEF Aton, t

LEMMA RoundTrip2G ==
    ASSUME NEW c, Word(c), ~Malformed(c), Band(c) = Band2G, Bw(c) = BW_40,
           Channel(c) \in 3..11, CtlSb(c) \in 0..1
    PROVE  Aton(Ntoa(c)) = c
<1> DEFINE t == Ntoa(c)
<1>1. CtlChan(c) = Channel(c) - 2 + 4 * CtlSb(c) /\ CtlChan(c) \in 1..13
  BY Ctl2G
<1>2. TextBand(t) = Band(c) /\ t.band # "3g"
  <2>1. ~(CtlChan(c) > CH_MAX_2G_CHANNEL) /\ ~(Channel(c) > CH_MAX_2G_CHANNEL)
    BY <1>1 DEF CH_MAX_2G_CHANNEL
  <2>2. CtlChan(c) \in Nat
    BY <1>1
  <2>3. QED
    BY <2>1, <2>2, BandReadsBack
<1>3. /\ t.ch = CtlChan(c) /\ t.pair = <<>> /\ t.bw = 40
      /\ t.side = IF CtlSb(c) = 1 THEN "u" ELSE "l"
  BY NtoaFields, MhzIs, Distinct, ZenonT(30)
<1> HIDE DEF t
<1>4. ~Unreadable(t)
  <2>1. t.bw \in {0, 20, 40, 80, 160}
    BY <1>3
  <2>2. QED
    BY <1>2, <1>3, <2>1 DEF Unreadable
<1>5. Composed(t) = Compose(Channel(c), Band(c), Bw(c), CtlSb(c))
  <2>1. CASE CtlSb(c) = 1
    <3>1. t.side = "u" /\ Lower20(t.ch) = Channel(c)
      BY <1>1, <1>3, <2>1 DEF Lower20
    <3>2. Composed(t) = Compose(Lower20(t.ch), TextBand(t), BW_40, 1)
      BY <1>3, <3>1 DEF Composed
    <3>3. QED
      BY <1>2, <2>1, <3>1, <3>2
  <2>2. CASE CtlSb(c) = 0
    <3>1. t.side = "l" /\ Upper20(t.ch) = Channel(c)
      BY <1>1, <1>3, <2>2 DEF Upper20, MAXCHANNEL
    <3>2. Composed(t) = Compose(Upper20(t.ch), TextBand(t), BW_40, 0)
      BY <1>3, <3>1 DEF Composed
    <3>3. QED
      BY <1>2, <2>2, <3>1, <3>2
  <2>3. QED
    BY <2>1, <2>2
<1>6. QED
  BY <1>4, <1>5, Recompose DEF Aton, t

LEMMA MhzTells ==
    ASSUME NEW v \in Wides, NEW w \in Wides, Mhz(v) = Mhz(w)
    PROVE  v = w
BY MhzIs DEF Wides

(* The table finds the center the channel came from. *)
LEMMA WideFinds ==
    ASSUME NEW c, Word(c), Valid(c), Band(c) = Band5G, Bw(c) \in Wides
    PROVE  Wide(CtlChan(c), Band5G, Bw(c)) = c
<1> DEFINE bw == Bw(c)
           ctl == CtlChan(c)
<1>1. /\ Channel(c) \in Members(Centers(bw))
      /\ Channel(c) \in 38..159 /\ CtlSb(c) \in 0..(Sides(bw) - 1)
      /\ ctl = Channel(c) - Below(bw) + 4 * CtlSb(c)
  BY WideValid
<1>2. Channel(c) \in 14..241
  BY <1>1
<1>3. /\ ctl \in Nat /\ HasSideband(Channel(c), ctl, Mhz(bw))
      /\ Sideband(Channel(c), ctl, Mhz(bw)) = CtlSb(c)
  <2> DEFINE e == Channel(c) - Below(bw) + 4 * CtlSb(c)
  <2>1. /\ e \in Nat /\ HasSideband(Channel(c), e, Mhz(bw))
        /\ Sideband(Channel(c), e, Mhz(bw)) = CtlSb(c)
    BY <1>1, <1>2, Fitting, ZenonT(30)
  <2> HIDE DEF e
  <2>2. ctl = e
    BY <1>1 DEF e
  <2>3. QED
    BY <2>1, <2>2
<1>4. PICK k \in DOMAIN Centers(bw) : Centers(bw)[k] = Channel(c)
  BY <1>1 DEF Members
<1> HIDE DEF bw, ctl
<1>5. PICK i \in DOMAIN Centers(bw) :
         /\ HasSideband(Centers(bw)[i], ctl, Mhz(bw))
         /\ Wide(ctl, Band5G, bw)
              = Compose(Centers(bw)[i], Band5G, bw, Sideband(Centers(bw)[i], ctl, Mhz(bw)))
  BY <1>3, <1>4, WideIs DEF bw
<1>6. i = k
  BY <1>3, <1>4, <1>5, OneCenter DEF bw
<1>7. Wide(ctl, Band5G, bw) = Compose(Channel(c), Band(c), Bw(c), CtlSb(c))
  BY <1>3, <1>4, <1>5, <1>6 DEF bw
<1>8. QED
  BY <1>7, Recompose DEF bw, ctl

LEMMA NotNarrow == \A n \in {40, 80, 160} : n \notin {0, 20}
OBVIOUS

LEMMA RoundTripWide ==
    ASSUME NEW c, Word(c), Valid(c), Band(c) = Band5G, Bw(c) \in Wides
    PROVE  Aton(Ntoa(c)) = c
<1> DEFINE t == Ntoa(c)
<1>1. ~Malformed(c)
  BY DEF Valid
<1>2. t \in TextRecord
  BY <1>1, NtoaType
<1>3. Channel(c) \in 38..159 /\ CtlChan(c) \in 24..255
  <2>1. /\ Channel(c) \in 38..159 /\ CtlSb(c) \in 0..(Sides(Bw(c)) - 1)
        /\ CtlChan(c) = Channel(c) - Below(Bw(c)) + 4 * CtlSb(c)
    BY WideValid
  <2>2. Channel(c) \in 14..241
    BY <2>1
  <2>3. Sides(Bw(c)) \in 2..8 /\ Below(Bw(c)) \in 2..14 /\ Below(Bw(c)) = 2 * Sides(Bw(c)) - 2
    BY <2>2, LowEdgeIs
  <2> DEFINE x == Channel(c)
             s == CtlSb(c)
             m == Below(Bw(c))
             n == Sides(Bw(c))
             p == CtlChan(c)
  <2> HIDE DEF x, s, m, n, p
  <2>4. x \in 38..159 /\ n \in 2..8 /\ m \in 2..14 /\ s \in 0..(n - 1) /\ p = x - m + 4 * s
    BY <2>1, <2>3 DEF x, s, m, n, p
  <2>5. p \in 24..255
    BY <2>4, SMT
  <2>6. QED
    BY <2>1, <2>5 DEF p
<1>4. TextBand(t) = Band5G /\ t.band # "3g"
  <2>1. CtlChan(c) > CH_MAX_2G_CHANNEL /\ Channel(c) > CH_MAX_2G_CHANNEL /\ CtlChan(c) \in Nat
    BY <1>3 DEF CH_MAX_2G_CHANNEL
  <2>2. QED
    BY <2>1, BandReadsBack
<1>5. Bw(c) # BW_20 /\ Band5G # Band2G
  BY Distinct DEF Wides, Band2G, Band5G
<1>6. t.ch = CtlChan(c) /\ t.pair = <<>> /\ t.bw = Mhz(Bw(c)) /\ t.side = ""
  BY <1>5, NtoaFields
<1> HIDE DEF t
<1>7. t.bw \in {40, 80, 160}
  BY <1>6, MhzWides
<1>8. ~Unreadable(t)
  <2>1. t.bw \in {0, 20, 40, 80, 160}
    BY <1>7
  <2>2. QED
    BY <1>4, <1>6, <2>1 DEF Unreadable
<1>9. PICK bw \in Wides : Centered(t, bw)
  <2>1. ~Sided(t)
    BY <1>6 DEF Sided
  <2>2. ~Paired(t)
    BY <1>6 DEF Paired
  <2>3. ~Narrow(t)
    <3>1. t.bw \notin {0, 20}
      BY <1>7, NotNarrow, ZenonT(30)
    <3>2. QED
      BY <3>1 DEF Narrow
  <2>4. QED
    BY <1>2, <1>8, <2>1, <2>2, <2>3, Readable
<1>10. bw = Bw(c)
  BY <1>6, <1>9, MhzTells DEF Centered
<1>11. Composed(t) = c
  BY <1>4, <1>6, <1>9, <1>10, WideFinds DEF Centered
<1>12. QED
  BY <1>1, <1>8, <1>11 DEF Aton, t

(* For every channel of 802.11 and every well-formed 20 MHz chanspec:       *)
(* printed and parsed it is the same number                                 *)
(* (bcmwifi_channels.c:462-519, 545-785).                                   *)
THEOREM RoundTripHolds == Spec => RoundTrip
<1> DEFINE P == step = "text" /\ chanspec # 0 /\ (Valid(chanspec) \/ Bw(chanspec) = BW_20)
<1>1. ASSUME NEW c, Word(c), ~Malformed(c), Valid(c) \/ Bw(c) = BW_20
      PROVE  Aton(Ntoa(c)) = c
  BY <1>1, BandOfValid, RoundTrip20, RoundTrip2G, RoundTripWide
<1>2. ASSUME CInv, [Next]_vars
      PROVE  [P => chanspec' = chanspec]_vars
  <2>1. CASE StrToChanspec
    <3>1. SUFFICES ASSUME P
                   PROVE  chanspec' = chanspec
      OBVIOUS
    <3>2. ~Malformed(chanspec) /\ text = Ntoa(chanspec) /\ Word(chanspec)
      BY <1>2, <3>1 DEF CInv, Printed
    <3>3. QED
      BY <1>1, <2>1, <3>1, <3>2 DEF StrToChanspec
  <2>2. CASE ChanspecToStr
    BY <2>2 DEF ChanspecToStr
  <2>3. QED
    BY <1>2, <2>1, <2>2 DEF Next
<1>3. QED
  BY <1>2, CInvInit, CInvStep, PTL DEF Spec, RoundTrip

-----------------------------------------------------------------------------
(* From a primary channel and a bandwidth *)

(* A chanspec composed of a center of the table is well-formed. *)
LEMMA WideWell ==
    ASSUME NEW bw \in Wides, NEW ctl \in Nat, NEW i \in DOMAIN Centers(bw),
           HasSideband(Centers(bw)[i], ctl, Mhz(bw)), NEW c,
           c = Compose(Centers(bw)[i], Band5G, bw, Sideband(Centers(bw)[i], ctl, Mhz(bw)))
    PROVE  ~Malformed(c)
<1>1. Band5G \in 0..3
  BY DEF Band5G
<1>2. /\ Band(c) = Band5G /\ Bw(c) = bw
      /\ CtlSb(c) \in 0..(Sides(bw) - 1)
      /\ Channel(c) \in 38..159
  <2> DEFINE x == Centers(bw)[i]
             sb == Sideband(x, ctl, Mhz(bw))
  <2>1. Parts(c, x, Band5G, bw, sb) /\ CtlSb(c) \in 0..(Sides(bw) - 1) /\ Channel(c) \in 38..159
    BY <1>1, WideParts
  <2>2. QED
    BY <2>1 DEF Parts
<1>3. /\ bw = BW_40 => Sides(bw) = 2
      /\ bw = BW_80 => Sides(bw) = 4
  BY DEF Sides, BW_40, BW_80, BW_160
<1>4. CtlSb(c) \in Nat /\ Channel(c) \in Nat /\ Channel(c) <= 224
  <2>1. \A n \in 38..159 : n \in Nat /\ n <= 224
    BY SMT
  <2>2. CtlSb(c) \in Nat
    BY <1>2, LowEdgeIs
  <2>3. QED
    BY <1>2, <2>1, <2>2
<1>5. /\ bw = BW_40 => CtlSb(c) <= 1
      /\ bw = BW_80 => CtlSb(c) <= 3
  BY <1>2, <1>3, <1>4
<1>6. QED
  BY <1>2, <1>4, <1>5, SMT DEF Wides, Malformed, MAXCHANNEL, Band2G, Band5G, BW_20, BW_40, BW_80,
     BW_160, BW_8080

LEMMA SearchIs ==
    ASSUME NEW bw \in Wides
    PROVE  Search(bw).centers = Centers(bw) /\ Search(bw).mhz = Mhz(bw)
<1>1. CASE bw = BW_40
  BY <1>1, MhzIs DEF Search, Centers, BW_40, BW_80, BW_160
<1>2. CASE bw = BW_80
  BY <1>2, MhzIs DEF Search, Centers, BW_40, BW_80, BW_160
<1>3. CASE bw = BW_160
  BY <1>3, MhzIs DEF Search, Centers, BW_40, BW_80, BW_160
<1>4. QED
  BY <1>1, <1>2, <1>3 DEF Wides

(* The loop of wf_channel2chspec finds the center there is, if any. *)
LEMMA Found ==
    ASSUME NEW bw \in Wides, NEW ctl \in Nat, ctl > CH_MAX_2G_CHANNEL
    PROVE  \/ /\ Channel2Chspec(ctl, bw) = 0
              /\ \A i \in DOMAIN Centers(bw) : ~HasSideband(Centers(bw)[i], ctl, Mhz(bw))
           \/ \E i \in DOMAIN Centers(bw) :
                 /\ HasSideband(Centers(bw)[i], ctl, Mhz(bw))
                 /\ Channel2Chspec(ctl, bw)
                      = Compose(Centers(bw)[i], Band5G, bw, Sideband(Centers(bw)[i], ctl, Mhz(bw)))
<1> DEFINE fitting == {i \in DOMAIN Centers(bw) : HasSideband(Centers(bw)[i], ctl, Mhz(bw))}
           Least(i) == \A j \in fitting : i <= j
           first == CHOOSE i \in fitting : Least(i)
<1>1. bw # BW_20 /\ bw \in {BW_40, BW_80, BW_160}
  BY Distinct DEF Wides
<1>2. ~(ctl <= CH_MAX_2G_CHANNEL)
  BY DEF CH_MAX_2G_CHANNEL
<1>3. CASE fitting = {}
  <2>1. Channel2Chspec(ctl, bw) = 0
    BY <1>1, <1>3, SearchIs, Zenon DEF Channel2Chspec
  <2>2. QED
    BY <1>3, <2>1
<1>4. CASE fitting # {}
  <2>1. PICK i \in fitting : TRUE
    BY <1>4
  <2>2. \A j \in fitting : j = i
    BY <2>1, OneCenter
  <2>3. i \in Nat
    BY <2>1, Table
  <2>4. Least(i)
    BY <2>2, <2>3
  <2>5. first \in fitting
    BY <2>1, <2>4
  <2>6. Channel2Chspec(ctl, bw)
          = Compose(Centers(bw)[first], Band5G, bw, Sideband(Centers(bw)[first], ctl, Mhz(bw)))
    BY <1>1, <1>2, <1>4, SearchIs, Zenon DEF Channel2Chspec
  <2>7. QED
    BY <2>5, <2>6
<1>5. QED
  BY <1>3, <1>4

(* Around a channel of the 2.4 GHz band there is no center. *)
LEMMA NoneFound ==
    ASSUME NEW bw \in Wides, NEW ctl \in 1..14
    PROVE  Channel2Chspec(ctl, bw) = 0
<1> DEFINE fitting == {i \in DOMAIN Centers(bw) : HasSideband(Centers(bw)[i], ctl, Mhz(bw))}
<1>1. bw # BW_20 /\ bw \in {BW_40, BW_80, BW_160}
  BY Distinct DEF Wides
<1>2. ASSUME NEW i \in DOMAIN Centers(bw), HasSideband(Centers(bw)[i], ctl, Mhz(bw))
      PROVE  FALSE
  <2>1. Band5G \in 0..3 /\ ctl \in Nat
    BY DEF Band5G
  <2> DEFINE x == Centers(bw)[i]
             c == Compose(x, Band5G, bw, Sideband(x, ctl, Mhz(bw)))
  <2>2. ctl \in 15..224
    BY <1>2, <2>1, WideParts
  <2>3. QED
    BY <2>2
<1>3. fitting = {}
  BY <1>2
<1>4. QED
  BY <1>1, <1>3, SearchIs, Zenon DEF Channel2Chspec

(* What it finds is a channel of 802.11. *)
LEMMA FoundValid ==
    ASSUME NEW bw \in Wides, NEW ctl \in Nat, ctl > CH_MAX_2G_CHANNEL,
           Channel2Chspec(ctl, bw) # 0
    PROVE  /\ Valid(Channel2Chspec(ctl, bw))
           /\ CtlChan(Channel2Chspec(ctl, bw)) = ctl
           /\ Bw(Channel2Chspec(ctl, bw)) = bw
<1> DEFINE c == Channel2Chspec(ctl, bw)
<1>1. PICK i \in DOMAIN Centers(bw) :
         /\ HasSideband(Centers(bw)[i], ctl, Mhz(bw))
         /\ c = Compose(Centers(bw)[i], Band5G, bw, Sideband(Centers(bw)[i], ctl, Mhz(bw)))
  BY Found
<1> HIDE DEF c
<1> DEFINE x == Centers(bw)[i]
           sb == Sideband(x, ctl, Mhz(bw))
<1>2. Band5G \in 0..3
  BY DEF Band5G
<1>3. Parts(c, x, Band5G, bw, sb) /\ CtlChan(c) = ctl
  BY <1>1, <1>2, WideParts
<1>4. ~Malformed(c)
  BY <1>1, WideWell
<1>5. Channel(c) \in Members(Centers(bw))
  BY <1>3 DEF Parts, Members
<1>6. Band(c) = Band5G /\ Bw(c) = bw
  BY <1>3 DEF Parts
<1>7. Valid(c)
  <2>1. CASE bw = BW_40
    BY <1>4, <1>5, <1>6, <2>1 DEF Valid, Centers, BW_40, BW_80, BW_160
  <2>2. CASE bw = BW_80
    BY <1>4, <1>5, <1>6, <2>2 DEF Valid, Centers, BW_40, BW_80, BW_160
  <2>3. CASE bw = BW_160
    BY <1>4, <1>5, <1>6, <2>3 DEF Valid, Centers, BW_40, BW_80, BW_160
  <2>4. QED
    BY <2>1, <2>2, <2>3 DEF Wides
<1>8. QED
  BY <1>3, <1>6, <1>7 DEF c

(* For the bandwidth of the channel it finds the channel: the loop and the *)
(* parser's meet at the only center there is.                              *)
LEMMA FoundAgain ==
    ASSUME NEW c, Word(c), Valid(c), Band(c) = Band5G, Bw(c) \in Wides,
           CtlChan(c) \in Nat, CtlChan(c) > CH_MAX_2G_CHANNEL
    PROVE  Channel2Chspec(CtlChan(c), Bw(c)) = c
<1> DEFINE bw == Bw(c)
           ctl == CtlChan(c)
<1>1. Wide(ctl, Band5G, bw) = c
  BY WideFinds
<1>2. c # 0
  BY ZeroMalformed DEF Valid
<1> HIDE DEF bw, ctl
<1>3. bw \in Wides /\ ctl \in Nat /\ ctl > CH_MAX_2G_CHANNEL
  BY DEF bw, ctl
<1>4. PICK i \in DOMAIN Centers(bw) :
         /\ HasSideband(Centers(bw)[i], ctl, Mhz(bw))
         /\ c = Compose(Centers(bw)[i], Band5G, bw, Sideband(Centers(bw)[i], ctl, Mhz(bw)))
  BY <1>1, <1>2, <1>3, WideIs
<1>5. PICK j \in DOMAIN Centers(bw) :
         /\ HasSideband(Centers(bw)[j], ctl, Mhz(bw))
         /\ Channel2Chspec(ctl, bw)
              = Compose(Centers(bw)[j], Band5G, bw, Sideband(Centers(bw)[j], ctl, Mhz(bw)))
  BY <1>3, <1>4, Found
<1>6. i = j
  BY <1>3, <1>4, <1>5, OneCenter
<1>7. QED
  BY <1>4, <1>5, <1>6 DEF bw, ctl

LEMMA Chans20High == \A x \in Chans20 : x \in 15..224
<1>1. \A x \in Members(Chans40) : Lower20(x) \in 15..224 /\ Upper20(x) \in 15..224
  BY MembersAre DEF Lower20, Upper20, MAXCHANNEL
<1>2. QED
  BY <1>1 DEF Chans20

(* The primary channel tells the band. *)
LEMMA PrimaryTellsBand ==
    ASSUME NEW c, Word(c), Valid(c)
    PROVE  \/ Band(c) = Band2G /\ CtlChan(c) \in 1..14 /\ Bw(c) \in {BW_20, BW_40}
           \/ Band(c) = Band5G /\ CtlChan(c) \in Chans20
<1>1. CASE Bw(c) = BW_20
  <2>1. CtlChan(c) = Channel(c)
    BY <1>1 DEF CtlChan
  <2>2. QED
    BY <1>1, <2>1, Distinct DEF Valid
<1>2. CASE Band(c) = Band2G /\ Bw(c) = BW_40 /\ Channel(c) \in 3..11 /\ CtlSb(c) \in 0..1
  <2>1. CtlChan(c) \in 1..13
    BY <1>2, Ctl2G
  <2>2. QED
    BY <1>2, <2>1
<1>3. CASE Band(c) = Band5G /\ Bw(c) \in Wides
  BY <1>3, WideValid
<1>4. QED
  BY <1>1, <1>2, <1>3, BandOfValid

(* A 20 MHz chanspec. *)
LEMMA TwentyParts ==
    ASSUME NEW ch \in 0..255, NEW band \in {Band2G, Band5G}
    PROVE  /\ Bw(Compose(ch, band, BW_20, 0)) = BW_20
           /\ CtlChan(Compose(ch, band, BW_20, 0)) = ch
<1>1. band \in 0..3 /\ BW_20 \in 0..7 /\ 0 \in 0..7
  BY DEF Band2G, Band5G, BW_20
<1>2. Parts(Compose(ch, band, BW_20, 0), ch, band, BW_20, 0)
  BY <1>1, ComposeIs, Zenon
<1>3. QED
  BY <1>2 DEF Parts, CtlChan

LEMMA Inverts ==
    ASSUME NEW c, Word(c), Valid(c), NEW bw \in {BW_20, BW_40, BW_80, BW_160},
           NEW d, d = Channel2Chspec(CtlChan(c), bw)
    PROVE  /\ d # 0 => Valid(d) /\ CtlChan(d) = CtlChan(c) /\ Bw(d) = bw
           /\ bw = Bw(c) /\ ~(Band(c) = Band2G /\ bw = BW_40) => d = c
<1> DEFINE ctl == CtlChan(c)
<1>1. \/ Band(c) = Band2G /\ ctl \in 1..14 /\ Bw(c) \in {BW_20, BW_40}
      \/ Band(c) = Band5G /\ ctl \in Chans20
  BY PrimaryTellsBand
<1>2. ctl \in Chans20 => ctl \in Nat /\ ctl > CH_MAX_2G_CHANNEL /\ ctl \in 0..255
  <2> HIDE DEF ctl
  <2>1. ctl \in 15..224 => ctl \in Nat /\ ctl > CH_MAX_2G_CHANNEL /\ ctl \in 0..255
    BY DEF CH_MAX_2G_CHANNEL
  <2>2. QED
    BY <2>1, Chans20High
<1>3. CASE bw = BW_20
  <2>1. d = Compose(ctl, Band(c), BW_20, 0)
    <3>1. CASE Band(c) = Band2G /\ ctl \in 1..14
      <4>1. ctl <= CH_MAX_2G_CHANNEL
        BY <3>1 DEF CH_MAX_2G_CHANNEL
      <4>2. QED
        BY <1>3, <3>1, <4>1, Distinct, Zenon DEF Channel2Chspec
    <3>2. CASE Band(c) = Band5G /\ ctl \in Chans20
      <4>1. ~(ctl <= CH_MAX_2G_CHANNEL)
        BY <1>2, <3>2 DEF CH_MAX_2G_CHANNEL
      <4>2. QED
        BY <1>3, <3>2, <4>1, Distinct, Zenon DEF Channel2Chspec
    <3>3. QED
      BY <1>1, <3>1, <3>2
  <2>2. Valid(d)
    BY <1>1, <2>1, TwentyValid, Twenty2GValid
  <2>3. ctl \in 0..255 /\ Band(c) \in {Band2G, Band5G}
    BY <1>1, <1>2
  <2>4. Bw(d) = BW_20 /\ CtlChan(d) = ctl
    <3> HIDE DEF ctl
    <3>1. QED
      BY <2>1, <2>3, TwentyParts
  <2>5. ASSUME Bw(c) = BW_20
        PROVE  d = c
    <3>1. CtlSb(c) = 0 /\ ctl = Channel(c)
      BY <2>5 DEF Valid, Malformed, CtlChan
    <3>2. QED
      BY <2>1, <2>5, <3>1, Recompose
  <2>6. QED
    BY <1>3, <2>2, <2>4, <2>5
<1>4. CASE bw \in Wides /\ Band(c) = Band2G /\ ctl \in 1..14 /\ Bw(c) \in {BW_20, BW_40}
  <2>1. d = 0
    BY <1>4, NoneFound
  <2>2. bw = Bw(c) => bw = BW_40
    BY <1>4, Distinct DEF Wides
  <2>3. QED
    BY <1>4, <2>1, <2>2
<1>5. CASE bw \in Wides /\ Band(c) = Band5G /\ ctl \in Chans20
  <2>1. d # 0 => Valid(d) /\ CtlChan(d) = ctl /\ Bw(d) = bw
    BY <1>2, <1>5, FoundValid
  <2>2. bw = Bw(c) => d = c
    BY <1>2, <1>5, FoundAgain
  <2>3. QED
    BY <2>1, <2>2
<1>6. bw = BW_20 \/ bw \in Wides
  BY DEF Wides
<1>7. QED
  BY <1>1, <1>3, <1>4, <1>5, <1>6

(* For every 16-bit chanspec that is a channel of 802.11 and every         *)
(* bandwidth: wf_channel2chspec makes of the primary channel nothing or a  *)
(* channel with that primary channel and bandwidth, and the channel itself *)
(* for its own bandwidth (bcmwifi_channels.c:853-941, 948-984, 1010-1056). *)
THEOREM ConstructorInvertsHolds == Spec => []ConstructorInverts
<1>1. CInv => ConstructorInverts
  BY Inverts DEF CInv, ConstructorInverts
<1>2. QED
  BY <1>1, CInvInit, CInvStep, PTL DEF Spec
=============================================================================
