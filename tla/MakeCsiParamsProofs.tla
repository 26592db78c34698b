------------------------ MODULE MakeCsiParamsProofs -------------------------
(***************************************************************************)
(* makecsiparams packs what CsiConf.toBase64 packs, for all options.       *)
(***************************************************************************)
EXTENDS MakeCsiParams, FiniteSetTheorems, TLAPS

(* The struct while options are being read: csi_collect is written at the  *)
(* end, and so is a delay nobody has given.                                *)
Draft(a) ==
    Pack([a EXCEPT !.csiCollect = FALSE, !.delay = IF @ = NotGiven THEN 0 ELSE @])

(* The locals of main say what has been asked for. *)
Agree ==
    /\ enable = Flag(asked.csiCollect)
    /\ coremask = asked.coreMask /\ nssmask = asked.nssMask
    /\ chanspec = asked.chanspec
    /\ nmac = Len(asked.cmpSrcMacs)
    /\ BadAt(asked.cmpSrcMacs) = {}
    /\ force_delay = IF asked.delay = NotGiven THEN 0 ELSE 1

BlockInv ==
    /\ TypeOK
    /\ asked.delay \in Nat \cup {NotGiven}
    /\ phase # "failed" => Agree
    /\ phase = "options" => p = Draft(asked)
    /\ phase = "written" => p = Pack(Wanted)

-----------------------------------------------------------------------------
(* Bytes and buffers *)

(* Both halves of a number are bytes. *)
LEMMA HalvesAreBytes ==
  ASSUME NEW x \in Int
  PROVE  Lo(x) \in Byte /\ Hi(x) \in Byte
BY DEF Lo, Hi, Byte

(* A number below 2^16 is its two halves. *)
LEMMA WordOfHalves ==
  \A x \in Code : Lo(x) + 256 * Hi(x) = x
<1>1. ASSUME NEW x \in Int, 0 <= x, x <= 65535
      PROVE  Lo(x) + 256 * Hi(x) = x
  <2> DEFINE q == x \div 256
  <2>1. q \in Int
    OBVIOUS
  <2>2. q >= 0
    BY <1>1
  <2>3. q <= 255
    BY <1>1
  <2>4. x = 256 * q + (x % 256)
    BY SMTT(30)
  <2> HIDE DEF q
  <2>5. q % 256 = q
    BY <2>1, <2>2, <2>3
  <2>6. Lo(x) = x % 256 /\ Hi(x) = q % 256
    BY DEF Lo, Hi, q
  <2>7. x % 256 \in Int
    OBVIOUS
  <2> QED
    BY <2>1, <2>4, <2>5, <2>6, <2>7
<1>2. \A x \in Code : x \in Int /\ 0 <= x /\ x <= 65535
  BY DEF Code
<1> QED
  BY <1>1, <1>2

(* Every index of the block of a conf. *)
LEMMA PackAt ==
  ASSUME NEW conf
  PROVE  /\ Pack(conf) = [i \in 0..33 |-> Pack(conf)[i]]
         /\ Pack(conf)[0] = Lo(conf.chanspec) /\ Pack(conf)[1] = Hi(conf.chanspec)
         /\ Pack(conf)[2] = Flag(conf.csiCollect)
         /\ Pack(conf)[3] = 16 * (conf.nssMask % 16) + (conf.coreMask % 16)
         /\ Pack(conf)[4] = Flag(conf.usePktFilter) /\ Pack(conf)[5] = conf.firstPktByte
         /\ Pack(conf)[6] = Lo(Len(conf.cmpSrcMacs)) /\ Pack(conf)[7] = 0
         /\ \A i \in 8..31 : Pack(conf)[i] = MacByte(conf.cmpSrcMacs, i)
         /\ Pack(conf)[32] = Lo(conf.delay) /\ Pack(conf)[33] = Hi(conf.delay)
BY DEF Pack

(* A conf one field of which is changed. *)
LEMMA ConfChanged ==
  ASSUME NEW a \in CsiConf
  PROVE  /\ \A v \in Code : [a EXCEPT !.chanspec = v] \in CsiConf
         /\ \A v \in BOOLEAN : [a EXCEPT !.csiCollect = v] \in CsiConf
         /\ \A v \in Mask : [a EXCEPT !.nssMask = v] \in CsiConf
         /\ \A v \in Mask : [a EXCEPT !.coreMask = v] \in CsiConf
         /\ \A v \in Byte : [a EXCEPT !.usePktFilter = TRUE, !.firstPktByte = v] \in CsiConf
         /\ \A v \in MacList : [a EXCEPT !.cmpSrcMacs = v] \in CsiConf
         /\ \A v \in Int : [a EXCEPT !.delay = v] \in CsiConf
BY DEF CsiConf

(* The same for the struct while options are being read. *)
LEMMA DraftAt ==
  ASSUME NEW a \in CsiConf
  PROVE  /\ Draft(a) = [i \in 0..33 |-> Draft(a)[i]]
         /\ Draft(a)[0] = Lo(a.chanspec) /\ Draft(a)[1] = Hi(a.chanspec)
         /\ Draft(a)[2] = 0
         /\ Draft(a)[3] = 16 * a.nssMask + a.coreMask
         /\ Draft(a)[4] = Flag(a.usePktFilter) /\ Draft(a)[5] = a.firstPktByte
         /\ Draft(a)[6] = Lo(Len(a.cmpSrcMacs)) /\ Draft(a)[7] = 0
         /\ \A i \in 8..31 : Draft(a)[i] = MacByte(a.cmpSrcMacs, i)
         /\ Draft(a)[32] = Lo(IF a.delay = NotGiven THEN 0 ELSE a.delay)
         /\ Draft(a)[33] = Hi(IF a.delay = NotGiven THEN 0 ELSE a.delay)
<1> DEFINE d == IF a.delay = NotGiven THEN 0 ELSE a.delay
           b == [[a EXCEPT !.csiCollect = FALSE] EXCEPT !.delay = d]
<1>1. /\ b.chanspec = a.chanspec /\ b.csiCollect = FALSE
      /\ b.nssMask = a.nssMask /\ b.coreMask = a.coreMask
      /\ b.usePktFilter = a.usePktFilter /\ b.firstPktByte = a.firstPktByte
      /\ b.cmpSrcMacs = a.cmpSrcMacs
      /\ b.delay = d
  BY DEF CsiConf
<1>2. a.nssMask % 16 = a.nssMask /\ a.coreMask % 16 = a.coreMask
  <2>1. \A m \in 0..15 : m % 16 = m
    OBVIOUS
  <2>2. a.nssMask \in 0..15 /\ a.coreMask \in 0..15
    BY DEF CsiConf, Mask
  <2> QED
    BY <2>1, <2>2
<1>3. Draft(a) = Pack(b)
  BY DEF Draft
<1> HIDE DEF b
<1>4. /\ Pack(b) = [i \in 0..33 |-> Pack(b)[i]]
      /\ Pack(b)[0] = Lo(b.chanspec) /\ Pack(b)[1] = Hi(b.chanspec)
      /\ Pack(b)[2] = Flag(b.csiCollect)
      /\ Pack(b)[3] = 16 * (b.nssMask % 16) + (b.coreMask % 16)
      /\ Pack(b)[4] = Flag(b.usePktFilter) /\ Pack(b)[5] = b.firstPktByte
      /\ Pack(b)[6] = Lo(Len(b.cmpSrcMacs)) /\ Pack(b)[7] = 0
      /\ \A i \in 8..31 : Pack(b)[i] = MacByte(b.cmpSrcMacs, i)
      /\ Pack(b)[32] = Lo(b.delay) /\ Pack(b)[33] = Hi(b.delay)
  BY PackAt, Zenon
<1>5. Flag(FALSE) = 0
  BY DEF Flag
<1> QED
  BY <1>1, <1>2, <1>3, <1>4, <1>5

(* The addresses of a good list are bytes. *)
LEMMA MacBytes ==
  ASSUME NEW macs \in Seq(Seq(Byte)), BadAt(macs) = {},
         NEW m \in 1..Len(macs), NEW j \in 1..6
  PROVE  macs[m][j] \in Byte
<1>1. macs[m] \in Seq(Byte)
  OBVIOUS
<1>2. Len(macs[m]) = 6
  BY DEF BadAt
<1> QED
  BY <1>1, <1>2

(* The address a byte of the block belongs to, and its column there. *)
Place(i) == (i - 8) \div 6 + 1
Column(i) == ((i - 8) % 6) + 1

(* Bytes 8 to 31 are those of four addresses. *)
LEMMA Places ==
  /\ \A i \in 8..31 : Place(i) \in 1..4 /\ Column(i) \in 1..6
  /\ \A i \in 32..33 : Place(i) = 5
<1>1. \A i \in 8..31 : Place(i) \in 1..4
  BY DEF Place
<1>2. \A i \in 8..31 : Column(i) \in 1..6
  BY DEF Column
<1>3. \A i \in 32..33 : Place(i) = 5
  BY DEF Place
<1> QED
  BY <1>1, <1>2, <1>3

(* Adding an address list to the block: the old addresses stay, the new    *)
(* ones come after them.                                                   *)
LEMMA MacsAppended ==
  ASSUME NEW old \in Seq(Seq(Byte)), NEW new \in Seq(Seq(Byte)),
         BadAt(old) = {}, BadAt(new) = {}, Len(old) + Len(new) <= 4
  PROVE  /\ old \o new \in Seq(Seq(Byte))
         /\ Len(old \o new) = Len(old) + Len(new)
         /\ BadAt(old \o new) = {}
         /\ \A i \in 8..31 :
              MacByte(old \o new, i) =
                IF Place(i) - Len(old) \in 1..Len(new) THEN new[Place(i) - Len(old)][Column(i)]
                ELSE MacByte(old, i)
<1>1. old \o new \in Seq(Seq(Byte)) /\ Len(old \o new) = Len(old) + Len(new)
  OBVIOUS
<1>2. \A m \in 1..Len(old \o new) :
        (old \o new)[m] = IF m <= Len(old) THEN old[m] ELSE new[m - Len(old)]
  OBVIOUS
<1>3. \A m \in 1..Len(old \o new) : Len((old \o new)[m]) = 6
  <2> TAKE m \in 1..Len(old \o new)
  <2>1. CASE m <= Len(old)
    BY <1>1, <1>2, <2>1 DEF BadAt
  <2>2. CASE m > Len(old)
    <3>1. m - Len(old) \in 1..Len(new)
      BY <1>1, <2>2
    <3>2. (old \o new)[m] = new[m - Len(old)]
      BY <1>2, <2>2
    <3> QED
      BY <3>1, <3>2 DEF BadAt
  <2> QED
    BY <2>1, <2>2
<1>4. BadAt(old \o new) = {}
  BY <1>3 DEF BadAt
<1>5. ASSUME NEW i \in 8..31
      PROVE  MacByte(old \o new, i) =
               IF Place(i) - Len(old) \in 1..Len(new) THEN new[Place(i) - Len(old)][Column(i)]
               ELSE MacByte(old, i)
  <2>1. Place(i) \in 1..4
    BY Places
  <2>2. /\ MacByte(old \o new, i) =
             IF Place(i) <= Len(old \o new) THEN (old \o new)[Place(i)][Column(i)] ELSE 0
        /\ MacByte(old, i) = IF Place(i) <= Len(old) THEN old[Place(i)][Column(i)] ELSE 0
    BY DEF MacByte, Place, Column
  <2>3. Place(i) - Len(old) \in 1..Len(new)
          <=> Place(i) > Len(old) /\ Place(i) <= Len(old \o new)
    BY <1>1, <2>1
  <2>4. Place(i) <= Len(old \o new) =>
          (old \o new)[Place(i)]
            = IF Place(i) <= Len(old) THEN old[Place(i)] ELSE new[Place(i) - Len(old)]
    BY <1>1, <1>2, <2>1
  <2>5. CASE Place(i) - Len(old) \in 1..Len(new)
    <3>1. Place(i) <= Len(old \o new) /\ ~(Place(i) <= Len(old))
      BY <1>1, <2>1, <2>3, <2>5
    <3> QED
      BY <2>2, <2>4, <2>5, <3>1, Zenon
  <2>6. CASE Place(i) - Len(old) \notin 1..Len(new)
    BY <1>1, <2>1, <2>2, <2>3, <2>4, <2>6
  <2> QED
    BY <2>5, <2>6
<1> QED
  BY <1>1, <1>4, <1>5

(* The default delay: twelve captures are 3x4, 4x3 or 4x4. *)
LEMMA TwelveCaptures ==
  ASSUME NEW x, NEW y
  PROVE  CountBit(x) * CountBit(y) >= 12
           <=> <<CountBit(x), CountBit(y)>> \in {<<3, 4>>, <<4, 3>>, <<4, 4>>}
<1>1. \A z : CountBit(z) \in 0..4
  <2> TAKE z
  <2> DEFINE bits == {i \in 0..3 : (z \div 2^i) % 2 = 1}
  <2>1. IsFiniteSet(0..3) /\ Cardinality(0..3) = 4
    <3> DEFINE lo == 0
               hi == 3
    <3>1. lo \in Int /\ hi \in Int
      OBVIOUS
    <3> HIDE DEF lo, hi
    <3>2. IsFiniteSet(lo..hi) /\ Cardinality(lo..hi) = IF lo > hi THEN 0 ELSE hi - lo + 1
      BY <3>1, FS_Interval
    <3> QED
      BY <3>2 DEF lo, hi
  <2>2. Cardinality(bits) \in Nat /\ Cardinality(bits) <= Cardinality(0..3)
    <3>1. bits \subseteq 0..3
      OBVIOUS
    <3> HIDE DEF bits
    <3> QED
      BY <2>1, <3>1, FS_Subset, FS_CardinalityType
  <2> QED
    BY <2>1, <2>2 DEF CountBit
<1> DEFINE c == CountBit(x)
           d == CountBit(y)
<1>2. c \in {0, 1, 2, 3, 4} /\ d \in {0, 1, 2, 3, 4}
  BY <1>1
<1> HIDE DEF c, d
<1>3. c * d >= 12 <=> <<c, d>> \in {<<3, 4>>, <<4, 3>>, <<4, 4>>}
  BY <1>2
<1> QED
  BY <1>3 DEF c, d
-----------------------------------------------------------------------------
(* What an option does to the struct *)

(* The struct while options are being read, byte by byte. *)
DraftByte(a, i) ==
    IF i = 0 THEN Lo(a.chanspec) ELSE IF i = 1 THEN Hi(a.chanspec)
    ELSE IF i = 2 THEN 0 ELSE IF i = 3 THEN 16 * a.nssMask + a.coreMask
    ELSE IF i = 4 THEN Flag(a.usePktFilter) ELSE IF i = 5 THEN a.firstPktByte
    ELSE IF i = 6 THEN Lo(Len(a.cmpSrcMacs)) ELSE IF i = 7 THEN 0
    ELSE IF i = 32 THEN Lo(IF a.delay = NotGiven THEN 0 ELSE a.delay)
    ELSE IF i = 33 THEN Hi(IF a.delay = NotGiven THEN 0 ELSE a.delay)
    ELSE MacByte(a.cmpSrcMacs, i)

(* A draft is the function of its bytes. *)
LEMMA DraftBytes ==
  ASSUME NEW a \in CsiConf
  PROVE  Draft(a) = [i \in 0..33 |-> DraftByte(a, i)]
<1> DEFINE F == Draft(a)
<1>1. /\ F = [i \in 0..33 |-> F[i]]
      /\ F[0] = Lo(a.chanspec) /\ F[1] = Hi(a.chanspec)
      /\ F[2] = 0
      /\ F[3] = 16 * a.nssMask + a.coreMask
      /\ F[4] = Flag(a.usePktFilter) /\ F[5] = a.firstPktByte
      /\ F[6] = Lo(Len(a.cmpSrcMacs)) /\ F[7] = 0
      /\ \A i \in 8..31 : F[i] = MacByte(a.cmpSrcMacs, i)
      /\ F[32] = Lo(IF a.delay = NotGiven THEN 0 ELSE a.delay)
      /\ F[33] = Hi(IF a.delay = NotGiven THEN 0 ELSE a.delay)
  BY DraftAt, Zenon
<1> HIDE DEF F
<1>2. ASSUME NEW i \in 0..33
      PROVE  F[i] = DraftByte(a, i)
  <2>1. i \in 8..31 \/ i \in {0, 1, 2, 3, 4, 5, 6, 7, 32, 33}
    OBVIOUS
  <2> QED
    BY <1>1, <2>1 DEF DraftByte
<1>3. F = [i \in 0..33 |-> DraftByte(a, i)]
  BY <1>1, <1>2
<1> QED
  BY <1>3 DEF F

(* One byte written. *)
LEMMA PutOne ==
  ASSUME NEW a \in CsiConf, NEW b \in CsiConf, NEW at \in Int, NEW x,
         \A i \in 0..33 : DraftByte(b, i) = IF i = at THEN x ELSE DraftByte(a, i)
  PROVE  Draft(b) = Put(Draft(a), at, <<x>>)
<1> DEFINE buff == Draft(a)
<1> HIDE DEF buff
<1>1. Put(buff, at, <<x>>) = [i \in 0..33 |-> IF i = at THEN x ELSE buff[i]]
  BY DEF Put
<1>2. /\ buff = [i \in 0..33 |-> DraftByte(a, i)]
      /\ Draft(b) = [i \in 0..33 |-> DraftByte(b, i)]
  BY DraftBytes DEF buff
<1>3. Draft(b) = Put(buff, at, <<x>>)
  BY <1>1, <1>2
<1> QED
  BY <1>3 DEF buff

(* Two bytes written. *)
LEMMA PutTwo ==
  ASSUME NEW a \in CsiConf, NEW b \in CsiConf, NEW at \in Int, NEW x, NEW y,
         \A i \in 0..33 : DraftByte(b, i) =
            IF i = at THEN x ELSE IF i = at + 1 THEN y ELSE DraftByte(a, i)
  PROVE  Draft(b) = Put(Draft(a), at, <<x, y>>)
<1> DEFINE buff == Draft(a)
<1> HIDE DEF buff
<1>1. Put(buff, at, <<x, y>>)
        = [i \in 0..33 |-> IF i = at THEN x ELSE IF i = at + 1 THEN y ELSE buff[i]]
  BY DEF Put
<1>2. /\ buff = [i \in 0..33 |-> DraftByte(a, i)]
      /\ Draft(b) = [i \in 0..33 |-> DraftByte(b, i)]
  BY DraftBytes DEF buff
<1>3. Draft(b) = Put(buff, at, <<x, y>>)
  BY <1>1, <1>2
<1> QED
  BY <1>3 DEF buff

(* csi_collect is written late: the draft does not have it. *)
LEMMA DraftCollect ==
  ASSUME NEW a \in CsiConf, NEW v \in BOOLEAN
  PROVE  Draft([a EXCEPT !.csiCollect = v]) = Draft(a)
<1> DEFINE b == [a EXCEPT !.csiCollect = v]
<1>1. b \in CsiConf
  BY ConfChanged
<1>2. \A i \in 0..33 : DraftByte(b, i) = DraftByte(a, i)
  BY DEF DraftByte, CsiConf
<1> QED
  BY <1>1, <1>2, DraftBytes

(* -c writes the first two bytes. *)
LEMMA DraftChanspec ==
  ASSUME NEW a \in CsiConf, NEW c \in Code
  PROVE  Draft([a EXCEPT !.chanspec = c])
           = Put(Draft(a), 0, Word16(c))
<1> DEFINE b == [a EXCEPT !.chanspec = c]
<1>1. b \in CsiConf
  BY ConfChanged
<1>2. /\ b.chanspec = c /\ b.nssMask = a.nssMask /\ b.coreMask = a.coreMask
      /\ b.usePktFilter = a.usePktFilter /\ b.firstPktByte = a.firstPktByte
      /\ b.cmpSrcMacs = a.cmpSrcMacs /\ b.delay = a.delay
  BY DEF CsiConf
<1> HIDE DEF b
<1>3. \A i \in 0..33 :
        DraftByte(b, i) = IF i = 0 THEN Lo(c) ELSE IF i = 0 + 1 THEN Hi(c) ELSE DraftByte(a, i)
  <2> TAKE i \in 0..33
  <2>1. CASE i = 0
    BY <1>2, <2>1 DEF DraftByte
  <2>2. CASE i = 1
    BY <1>2, <2>2 DEF DraftByte
  <2>3. CASE i \notin {0, 1}
    BY <1>2, <2>3 DEF DraftByte
  <2> QED
    BY <2>1, <2>2, <2>3
<1>4. Draft(b) = Put(Draft(a), 0, <<Lo(c), Hi(c)>>)
  BY <1>1, <1>3, PutTwo
<1> QED
  BY <1>4 DEF b, Word16

(* -b writes bytes 4 and 5. *)
LEMMA DraftFilter ==
  ASSUME NEW a \in CsiConf, NEW v \in Byte
  PROVE  Draft([a EXCEPT !.usePktFilter = TRUE, !.firstPktByte = v])
           = Put(Draft(a), 4, <<1, v>>)
<1> DEFINE b == [a EXCEPT !.usePktFilter = TRUE, !.firstPktByte = v]
<1>1. b \in CsiConf
  BY ConfChanged
<1>2. /\ b.chanspec = a.chanspec /\ b.nssMask = a.nssMask
      /\ b.coreMask = a.coreMask /\ b.usePktFilter = TRUE
      /\ b.firstPktByte = v /\ b.cmpSrcMacs = a.cmpSrcMacs
      /\ b.delay = a.delay
  BY DEF CsiConf
<1> HIDE DEF b
<1>3. \A i \in 0..33 :
        DraftByte(b, i) = IF i = 4 THEN 1 ELSE IF i = 4 + 1 THEN v ELSE DraftByte(a, i)
  <2> TAKE i \in 0..33
  <2>1. CASE i = 4
    BY <1>2, <2>1 DEF DraftByte, Flag
  <2>2. CASE i = 5
    BY <1>2, <2>2 DEF DraftByte, Flag
  <2>3. CASE i \notin {4, 5}
    BY <1>2, <2>3 DEF DraftByte, Flag
  <2> QED
    BY <2>1, <2>2, <2>3
<1>4. Draft(b) = Put(Draft(a), 4, <<1, v>>)
  BY <1>1, <1>3, PutTwo
<1> QED
  BY <1>4 DEF b

(* -C writes the low half of byte 3. *)
LEMMA DraftCores ==
  ASSUME NEW a \in CsiConf, NEW mask \in Mask
  PROVE  Draft([a EXCEPT !.coreMask = mask])
           = Put(Draft(a), 3, <<16 * (Draft(a)[3] \div 16) + mask>>)
<1> DEFINE b == [a EXCEPT !.coreMask = mask]
<1>1. b \in CsiConf
  BY ConfChanged
<1>2. /\ b.chanspec = a.chanspec /\ b.nssMask = a.nssMask
      /\ b.coreMask = mask /\ b.usePktFilter = a.usePktFilter
      /\ b.firstPktByte = a.firstPktByte /\ b.cmpSrcMacs = a.cmpSrcMacs
      /\ b.delay = a.delay
  BY DEF CsiConf
<1> HIDE DEF b
<1>3. \A i \in 0..33 :
        DraftByte(b, i) = IF i = 3 THEN 16 * a.nssMask + mask ELSE DraftByte(a, i)
  <2> TAKE i \in 0..33
  <2>1. CASE i = 3
    BY <1>2, <2>1 DEF DraftByte
  <2>2. CASE i # 3
    BY <1>2, <2>2 DEF DraftByte
  <2> QED
    BY <2>1, <2>2
<1>4. Draft(b) = Put(Draft(a), 3, <<16 * a.nssMask + mask>>)
  BY <1>1, <1>3, PutOne
<1>5. Draft(a)[3] \div 16 = a.nssMask
  <2>1. \A n, c \in 0..15 : (16 * n + c) \div 16 = n
    OBVIOUS
  <2>2. a.nssMask \in 0..15 /\ a.coreMask \in 0..15
    BY DEF CsiConf, Mask
  <2>3. Draft(a)[3] = 16 * a.nssMask + a.coreMask
    BY DraftAt
  <2> QED
    BY <2>1, <2>2, <2>3
<1> QED
  BY <1>4, <1>5 DEF b

(* -N writes the high half of byte 3. *)
LEMMA DraftStreams ==
  ASSUME NEW a \in CsiConf, NEW mask \in Mask
  PROVE  Draft([a EXCEPT !.nssMask = mask])
           = Put(Draft(a), 3, <<16 * mask + (Draft(a)[3] % 16)>>)
<1> DEFINE b == [a EXCEPT !.nssMask = mask]
<1>1. b \in CsiConf
  BY ConfChanged
<1>2. /\ b.chanspec = a.chanspec /\ b.nssMask = mask
      /\ b.coreMask = a.coreMask /\ b.usePktFilter = a.usePktFilter
      /\ b.firstPktByte = a.firstPktByte /\ b.cmpSrcMacs = a.cmpSrcMacs
      /\ b.delay = a.delay
  BY DEF CsiConf
<1> HIDE DEF b
<1>3. \A i \in 0..33 :
        DraftByte(b, i) = IF i = 3 THEN 16 * mask + a.coreMask ELSE DraftByte(a, i)
  <2> TAKE i \in 0..33
  <2>1. CASE i = 3
    BY <1>2, <2>1 DEF DraftByte
  <2>2. CASE i # 3
    BY <1>2, <2>2 DEF DraftByte
  <2> QED
    BY <2>1, <2>2
<1>4. Draft(b) = Put(Draft(a), 3, <<16 * mask + a.coreMask>>)
  BY <1>1, <1>3, PutOne
<1>5. Draft(a)[3] % 16 = a.coreMask
  <2>1. \A n, c \in 0..15 : (16 * n + c) % 16 = c
    OBVIOUS
  <2>2. a.nssMask \in 0..15 /\ a.coreMask \in 0..15
    BY DEF CsiConf, Mask
  <2>3. Draft(a)[3] = 16 * a.nssMask + a.coreMask
    BY DraftAt
  <2> QED
    BY <2>1, <2>2, <2>3
<1> QED
  BY <1>4, <1>5 DEF b

(* -d writes the last two bytes. *)
LEMMA DraftDelay ==
  ASSUME NEW a \in CsiConf, NEW d \in Nat, d \in Int
  PROVE  Draft([a EXCEPT !.delay = d])
           = Put(Draft(a), 32, Word16(d))
<1> DEFINE b == [a EXCEPT !.delay = d]
<1>1. b \in CsiConf
  BY ConfChanged
<1>2. /\ b.chanspec = a.chanspec /\ b.nssMask = a.nssMask
      /\ b.coreMask = a.coreMask /\ b.usePktFilter = a.usePktFilter
      /\ b.firstPktByte = a.firstPktByte /\ b.cmpSrcMacs = a.cmpSrcMacs
      /\ b.delay = d
  BY DEF CsiConf
<1> HIDE DEF b
<1>3. \A i \in 0..33 :
        DraftByte(b, i) = IF i = 32 THEN Lo(d) ELSE IF i = 32 + 1 THEN Hi(d) ELSE DraftByte(a, i)
  <2> TAKE i \in 0..33
  <2>1. CASE i = 32
    BY <1>2, <2>1 DEF DraftByte, NotGiven
  <2>2. CASE i = 33
    BY <1>2, <2>2 DEF DraftByte, NotGiven
  <2>3. CASE i \notin {32, 33}
    BY <1>2, <2>3 DEF DraftByte, NotGiven
  <2> QED
    BY <2>1, <2>2, <2>3
<1>4. Draft(b) = Put(Draft(a), 32, <<Lo(d), Hi(d)>>)
  BY <1>1, <1>3, PutTwo
<1> QED
  BY <1>4 DEF b, Word16

(* Writing addresses disturbs the bytes from 8 to 31 only. *)
LEMMA PutMacsAt ==
  ASSUME NEW buff, NEW n \in Nat, NEW macs, Len(macs) \in Nat, n + Len(macs) <= 4
  PROVE  /\ \A i \in 0..5 \cup 32..33 : PutMacs(buff, n, macs)[i] = buff[i]
         /\ \A i \in 8..31 : PutMacs(buff, n, macs)[i] =
              IF Place(i) - n \in 1..Len(macs) THEN macs[Place(i) - n][Column(i)] ELSE buff[i]
<1> DEFINE G == PutMacs(buff, n, macs)
           k == Len(macs)
<1>1. k \in Nat /\ n + k <= 4
  OBVIOUS
<1>2. \A i \in 0..33 : G[i] = IF i >= 8 /\ Place(i) - n \in 1..k
                            THEN macs[Place(i) - n][Column(i)] ELSE buff[i]
  BY DEF PutMacs, Place, Column
<1> HIDE DEF G, k
<1>3. \A i \in 0..5 : G[i] = buff[i]
  BY <1>2, SMTT(60)
<1>4. \A i \in 32..33 : G[i] = buff[i]
  BY <1>1, <1>2, Places, SMTT(60)
<1>5. ASSUME NEW i \in 8..31
      PROVE  G[i] = IF Place(i) - n \in 1..k THEN macs[Place(i) - n][Column(i)] ELSE buff[i]
  <2>1. i \in 0..33 /\ i >= 8
    OBVIOUS
  <2>2. G[i] = IF i >= 8 /\ Place(i) - n \in 1..k
               THEN macs[Place(i) - n][Column(i)] ELSE buff[i]
    BY <1>2, <2>1, Zenon
  <2>3. CASE Place(i) - n \in 1..k
    BY <2>1, <2>2, <2>3, Zenon
  <2>4. CASE ~(Place(i) - n \in 1..k)
    BY <2>2, <2>4, Zenon
  <2> QED
    BY <2>3, <2>4, Zenon
<1> QED
  BY <1>3, <1>4, <1>5 DEF G, k

(* Bytes of two drafts that differ in the addresses only. *)
LEMMA SameByte ==
  ASSUME NEW a, NEW b,
         b.chanspec = a.chanspec, b.nssMask = a.nssMask, b.coreMask = a.coreMask,
         b.usePktFilter = a.usePktFilter, b.firstPktByte = a.firstPktByte, b.delay = a.delay
  PROVE  \A i \in 0..5 \cup 32..33 : DraftByte(b, i) = DraftByte(a, i)
BY DEF DraftByte

(* -m writes its addresses after those there are, and their number. *)
LEMMA DraftMacs ==
  ASSUME NEW a \in CsiConf, NEW macs \in MacList,
         BadAt(a.cmpSrcMacs) = {}, BadAt(macs) = {}, Len(a.cmpSrcMacs) + Len(macs) <= 4
  PROVE  Draft([a EXCEPT !.cmpSrcMacs = @ \o macs])
           = Put(PutMacs(Draft(a), Len(a.cmpSrcMacs), macs), 6,
                 Word16(Len(a.cmpSrcMacs) + Len(macs)))
<1> DEFINE old == a.cmpSrcMacs
           all == old \o macs
           b == [a EXCEPT !.cmpSrcMacs = all]
           l == Len(old)
           k == Len(macs)
           F == Draft(a)
           G == PutMacs(F, l, macs)
<1>1. old \in MacList /\ l \in Nat /\ k \in Nat /\ l + k <= 4
  BY DEF CsiConf, MacList
<1>2. /\ all \in MacList /\ Len(all) = l + k
      /\ \A i \in 8..31 :
           MacByte(all, i) =
             IF Place(i) - l \in 1..k THEN macs[Place(i) - l][Column(i)] ELSE MacByte(old, i)
  <2> HIDE DEF old
  <2>1. old \in Seq(Seq(Byte)) /\ macs \in Seq(Seq(Byte))
    BY <1>1 DEF MacList
  <2>2. BadAt(old) = {}
    BY DEF old
  <2>3. /\ all \in Seq(Seq(Byte)) /\ Len(all) = l + k
        /\ \A i \in 8..31 :
             MacByte(all, i) =
               IF Place(i) - l \in 1..k THEN macs[Place(i) - l][Column(i)] ELSE MacByte(old, i)
    BY <1>1, <2>1, <2>2, MacsAppended, Zenon
  <2> HIDE DEF all, l, k
  <2>4. all \in MacList
    BY <2>3 DEF MacList
  <2> QED
    BY <2>3, <2>4
<1>3. b \in CsiConf
  BY <1>2, ConfChanged
<1>4. /\ b.chanspec = a.chanspec /\ b.nssMask = a.nssMask /\ b.coreMask = a.coreMask
      /\ b.usePktFilter = a.usePktFilter /\ b.firstPktByte = a.firstPktByte
      /\ b.cmpSrcMacs = all /\ b.delay = a.delay
  BY DEF CsiConf
<1>5. F = [i \in 0..33 |-> DraftByte(a, i)] /\ Draft(b) = [i \in 0..33 |-> DraftByte(b, i)]
  BY <1>3, DraftBytes
<1> HIDE DEF b, F, all, l, k
<1>6. /\ \A i \in 0..5 \cup 32..33 : G[i] = F[i]
      /\ \A i \in 8..31 : G[i] =
           IF Place(i) - l \in 1..k THEN macs[Place(i) - l][Column(i)] ELSE F[i]
  BY <1>1, PutMacsAt DEF k
<1> HIDE DEF G
<1>7. Put(G, 6, <<Lo(l + k), Hi(l + k)>>)
        = [i \in 0..33 |-> IF i = 6 THEN Lo(l + k) ELSE IF i = 7 THEN Hi(l + k) ELSE G[i]]
  BY DEF Put
<1>8. Hi(l + k) = 0
  <2>1. \A x \in 0..4 : Hi(x) = 0
    BY DEF Hi
  <2> QED
    BY <1>1, <2>1
<1> HIDE DEF old
<1>9. \A i \in 8..31 : DraftByte(b, i) = MacByte(all, i) /\ DraftByte(a, i) = MacByte(old, i)
  BY <1>4 DEF DraftByte, old
<1>10. DraftByte(b, 6) = Lo(l + k) /\ DraftByte(b, 7) = 0
  BY <1>2, <1>4 DEF DraftByte
<1>11. \A i \in 0..5 \cup 32..33 : DraftByte(b, i) = DraftByte(a, i)
  BY <1>4, SameByte
<1>12. ASSUME NEW i \in 0..33
       PROVE  DraftByte(b, i) = IF i = 6 THEN Lo(l + k) ELSE IF i = 7 THEN Hi(l + k) ELSE G[i]
  <2>1. CASE i \in {6, 7}
    BY <1>8, <1>10, <2>1
  <2>2. CASE i \in 8..31
    <3>1. F[i] = MacByte(old, i)
      BY <1>5, <1>9, <2>2
    <3>2. MacByte(all, i) = G[i]
      BY <1>2, <1>6, <2>2, <3>1
    <3>3. i # 6 /\ i # 7
      BY <2>2
    <3> QED
      BY <1>9, <2>2, <3>2, <3>3, Zenon
  <2>3. CASE i \in 0..5 \cup 32..33
    <3>1. i # 6 /\ i # 7
      BY <2>3
    <3>2. F[i] = DraftByte(a, i)
      BY <1>5
    <3> QED
      BY <1>6, <1>11, <2>3, <3>1, <3>2, Zenon
  <2> QED
    BY <2>1, <2>2, <2>3
<1>13. Draft(b) = Put(G, 6, <<Lo(l + k), Hi(l + k)>>)
  BY <1>5, <1>7, <1>12
<1> QED
  BY <1>13 DEF b, F, G, Word16, l, k, all, old

(* The draft of a good address list is a buffer. *)
LEMMA DraftIsBuffer ==
  ASSUME NEW a \in CsiConf, BadAt(a.cmpSrcMacs) = {}
  PROVE  Draft(a) \in Buffer
<1> DEFINE d == IF a.delay = NotGiven THEN 0 ELSE a.delay
           macs == a.cmpSrcMacs
           k == Len(macs)
<1>1. d \in Int /\ a.chanspec \in Int /\ a.nssMask \in 0..15 /\ a.coreMask \in 0..15
  <2>1. a.delay \in Int /\ a.chanspec \in Code /\ a.nssMask \in Mask /\ a.coreMask \in Mask
    BY SMTT(30) DEF CsiConf
  <2>2. \A c \in Code : c \in Int
    BY DEF Code
  <2> HIDE DEF d
  <2>3. d \in Int
    BY <2>1 DEF d
  <2> QED
    BY <2>1, <2>2, <2>3 DEF Mask
<1>2. a.firstPktByte \in Byte
  BY DEF CsiConf
<1>3. macs \in MacList
  BY DEF CsiConf
<1> HIDE DEF d
<1>4. k \in Nat
  BY <1>3 DEF MacList
<1>5. 0 \in Byte /\ Flag(a.usePktFilter) \in Byte
  BY DEF Byte, Flag
<1> HIDE DEF k
<1>6. /\ Lo(d) \in Byte /\ Hi(d) \in Byte /\ Lo(k) \in Byte
      /\ Lo(a.chanspec) \in Byte /\ Hi(a.chanspec) \in Byte
  BY <1>1, <1>4, HalvesAreBytes
<1>7. 16 * a.nssMask + a.coreMask \in Byte
  <2>1. \A n, c \in 0..15 : 16 * n + c \in Byte
    BY DEF Byte
  <2> QED
    BY <1>1, <2>1
<1>8. ASSUME NEW i \in 8..31
      PROVE  MacByte(macs, i) \in Byte
  <2>1. Place(i) \in 1..4 /\ Column(i) \in 1..6
    BY Places
  <2>2. MacByte(macs, i) = IF Place(i) <= k THEN macs[Place(i)][Column(i)] ELSE 0
    BY DEF MacByte, Place, Column, k
  <2>3. CASE Place(i) <= k
    <3>1. Place(i) \in 1..k
      BY <1>4, <2>1, <2>3
    <3>2. macs[Place(i)][Column(i)] \in Byte
      BY <1>3, <2>1, <3>1, MacBytes DEF MacList, k
    <3> QED
      BY <2>2, <2>3, <3>2
  <2>4. CASE ~(Place(i) <= k)
    BY <1>5, <2>2, <2>4
  <2> QED
    BY <2>3, <2>4
<1>9. ASSUME NEW i \in 0..33
      PROVE  DraftByte(a, i) \in Byte
  <2>1. i \in 8..31 \/ i \in {0, 1, 2, 3, 4, 5, 6, 7, 32, 33}
    OBVIOUS
  <2> HIDE DEF macs
  <2> QED
    BY <1>2, <1>5, <1>6, <1>7, <1>8, <2>1 DEF DraftByte, d, k, macs
<1>10. Draft(a) = [i \in 0..33 |-> DraftByte(a, i)]
  BY DraftBytes
<1> QED
  BY <1>9, <1>10 DEF Buffer

(* What is wanted of the app: what was asked for, with the default delay. *)
LEMMA WantedFields ==
  ASSUME asked \in CsiConf
  PROVE  /\ Wanted.chanspec = asked.chanspec /\ Wanted.csiCollect = asked.csiCollect
         /\ Wanted.nssMask = asked.nssMask /\ Wanted.coreMask = asked.coreMask
         /\ Wanted.usePktFilter = asked.usePktFilter
         /\ Wanted.firstPktByte = asked.firstPktByte
         /\ Wanted.cmpSrcMacs = asked.cmpSrcMacs
         /\ Wanted.delay =
              IF asked.delay # NotGiven THEN asked.delay
              ELSE IF CountBit(asked.nssMask) * CountBit(asked.coreMask) >= 12
                   THEN DEFAULT_DELAY_US ELSE 0
<1> DEFINE captures == <<CountBit(asked.nssMask), CountBit(asked.coreMask)>>
           d == IF asked.delay # NotGiven THEN asked.delay
                ELSE IF captures \in {<<3, 4>>, <<4, 3>>, <<4, 4>>} THEN DEFAULT_DELAY_US ELSE 0
<1>1. Wanted = [asked EXCEPT !.delay = d]
  BY DEF Wanted
<1>2. captures \in {<<3, 4>>, <<4, 3>>, <<4, 4>>}
        <=> CountBit(asked.nssMask) * CountBit(asked.coreMask) >= 12
  BY TwelveCaptures, Zenon
<1>3. d = IF asked.delay # NotGiven THEN asked.delay
          ELSE IF CountBit(asked.nssMask) * CountBit(asked.coreMask) >= 12
               THEN DEFAULT_DELAY_US ELSE 0
  BY <1>2, Zenon
<1> HIDE DEF d
<1>4. /\ Wanted.chanspec = asked.chanspec /\ Wanted.csiCollect = asked.csiCollect
      /\ Wanted.nssMask = asked.nssMask /\ Wanted.coreMask = asked.coreMask
      /\ Wanted.usePktFilter = asked.usePktFilter
      /\ Wanted.firstPktByte = asked.firstPktByte
      /\ Wanted.cmpSrcMacs = asked.cmpSrcMacs
      /\ Wanted.delay = d
  BY <1>1 DEF CsiConf
<1> QED
  BY <1>3, <1>4, Zenon

(* The block of the wanted parameters is the draft, with csi_collect and   *)
(* the delay.                                                              *)
LEMMA WantedBytes ==
  ASSUME asked \in CsiConf
  PROVE  Pack(Wanted) =
           [i \in 0..33 |-> IF i = 2 THEN Flag(asked.csiCollect)
                           ELSE IF i = 32 THEN Lo(Wanted.delay)
                           ELSE IF i = 33 THEN Hi(Wanted.delay) ELSE DraftByte(asked, i)]
<1> DEFINE F == Pack(Wanted)
           w == Wanted
<1>1. /\ F = [i \in 0..33 |-> F[i]]
      /\ F[0] = Lo(w.chanspec) /\ F[1] = Hi(w.chanspec)
      /\ F[2] = Flag(w.csiCollect)
      /\ F[3] = 16 * (w.nssMask % 16) + (w.coreMask % 16)
      /\ F[4] = Flag(w.usePktFilter) /\ F[5] = w.firstPktByte
      /\ F[6] = Lo(Len(w.cmpSrcMacs)) /\ F[7] = 0
      /\ \A i \in 8..31 : F[i] = MacByte(w.cmpSrcMacs, i)
      /\ F[32] = Lo(w.delay) /\ F[33] = Hi(w.delay)
  BY PackAt, Zenon
<1>2. /\ w.chanspec = asked.chanspec /\ w.csiCollect = asked.csiCollect
      /\ w.nssMask = asked.nssMask /\ w.coreMask = asked.coreMask
      /\ w.usePktFilter = asked.usePktFilter /\ w.firstPktByte = asked.firstPktByte
      /\ w.cmpSrcMacs = asked.cmpSrcMacs
  BY WantedFields, Zenon
<1>3. asked.nssMask % 16 = asked.nssMask /\ asked.coreMask % 16 = asked.coreMask
  <2>1. \A m \in 0..15 : m % 16 = m
    OBVIOUS
  <2>2. asked.nssMask \in 0..15 /\ asked.coreMask \in 0..15
    BY DEF CsiConf, Mask
  <2> QED
    BY <2>1, <2>2
<1> HIDE DEF F, w
<1>4. ASSUME NEW i \in 0..33
      PROVE  F[i] = IF i = 2 THEN Flag(asked.csiCollect) ELSE IF i = 32 THEN Lo(w.delay)
                    ELSE IF i = 33 THEN Hi(w.delay) ELSE DraftByte(asked, i)
  <2>1. i \in 8..31 \/ i \in {0, 1, 2, 3, 4, 5, 6, 7, 32, 33}
    OBVIOUS
  <2> QED
    BY <1>1, <1>2, <1>3, <2>1 DEF DraftByte
<1>5. F = [i \in 0..33 |-> IF i = 2 THEN Flag(asked.csiCollect)
                          ELSE IF i = 32 THEN Lo(w.delay)
                          ELSE IF i = 33 THEN Hi(w.delay) ELSE DraftByte(asked, i)]
  BY <1>1, <1>4
<1> QED
  BY <1>5 DEF F, w

(* After the last option the struct is that block. *)
LEMMA FinishedIsWanted ==
  ASSUME BlockInv, phase = "options"
  PROVE  Finished(Put(p, 2, <<Lo(enable)>>)) = Pack(Wanted)
<1> DEFINE F == Put(p, 2, <<Lo(enable)>>)
           G == Put(F, 32, Word16(DEFAULT_DELAY_US))
           D == Draft(asked)
           W == Wanted.delay
           twelve == CountBit(asked.nssMask) * CountBit(asked.coreMask) >= 12
<1>1. asked \in CsiConf /\ p = D /\ Agree
  <2>1. asked \in CsiConf
    BY DEF BlockInv, TypeOK
  <2>2. p = Draft(asked) /\ Agree
    BY DEF BlockInv
  <2> QED
    BY <2>1, <2>2
<1>2. Lo(enable) = Flag(asked.csiCollect)
  <2>1. \A x \in {0, 1} : Lo(x) = x
    BY DEF Lo
  <2>2. enable \in {0, 1}
    BY DEF BlockInv, TypeOK
  <2> QED
    BY <1>1, <2>1, <2>2 DEF Agree
<1>3. D = [i \in 0..33 |-> DraftByte(asked, i)]
  BY <1>1, DraftBytes
<1>4. W = IF asked.delay # NotGiven THEN asked.delay
          ELSE IF twelve THEN DEFAULT_DELAY_US ELSE 0
  BY <1>1, WantedFields, Zenon
<1>5. Finished(F) = IF asked.delay = NotGiven /\ twelve THEN G ELSE F
  <2>1. force_delay = 0 <=> asked.delay = NotGiven
    BY <1>1 DEF Agree
  <2>2. nssmask = asked.nssMask /\ coremask = asked.coreMask
    BY <1>1 DEF Agree
  <2> QED
    BY <2>1, <2>2, Zenon DEF Finished
<1> HIDE DEF D, W, twelve
<1>6. F = [i \in 0..33 |-> IF i = 2 THEN Flag(asked.csiCollect) ELSE DraftByte(asked, i)]
  <2>1. Put(D, 2, <<Lo(enable)>>) = [i \in 0..33 |-> IF i = 2 THEN Lo(enable) ELSE D[i]]
    BY DEF Put
  <2> QED
    BY <1>1, <1>2, <1>3, <2>1
<1> HIDE DEF F
<1>7. G = [i \in 0..33 |-> IF i = 32 THEN Lo(DEFAULT_DELAY_US)
                          ELSE IF i = 33 THEN Hi(DEFAULT_DELAY_US) ELSE F[i]]
  BY DEF Put, Word16
<1> HIDE DEF G
<1>8. DraftByte(asked, 32) = Lo(IF asked.delay = NotGiven THEN 0 ELSE asked.delay)
      /\ DraftByte(asked, 33) = Hi(IF asked.delay = NotGiven THEN 0 ELSE asked.delay)
  BY DEF DraftByte
<1> DEFINE R == Finished(F)
<1>9. ASSUME NEW i \in 0..33
      PROVE  R[i] = IF i = 2 THEN Flag(asked.csiCollect) ELSE IF i = 32 THEN Lo(W)
                    ELSE IF i = 33 THEN Hi(W) ELSE DraftByte(asked, i)
  <2>1. CASE asked.delay = NotGiven /\ twelve
    <3>1. R[i] = IF i = 32 THEN Lo(DEFAULT_DELAY_US)
                 ELSE IF i = 33 THEN Hi(DEFAULT_DELAY_US) ELSE F[i]
      BY <1>5, <1>7, <2>1
    <3>2. F[i] = IF i = 2 THEN Flag(asked.csiCollect) ELSE DraftByte(asked, i)
      BY <1>6
    <3>3. W = DEFAULT_DELAY_US
      BY <1>4, <2>1
    <3> HIDE DEF R
    <3> QED
      BY <3>1, <3>2, <3>3
  <2>2. CASE ~(asked.delay = NotGiven /\ twelve)
    <3>1. R[i] = IF i = 2 THEN Flag(asked.csiCollect) ELSE DraftByte(asked, i)
      BY <1>5, <1>6, <2>2
    <3>2. W = IF asked.delay = NotGiven THEN 0 ELSE asked.delay
      BY <1>4, <2>2
    <3> HIDE DEF R
    <3> QED
      BY <1>8, <3>1, <3>2
  <2> QED
    BY <2>1, <2>2
<1>10. R = [i \in 0..33 |-> R[i]]
  BY <1>5, <1>6, <1>7
<1> HIDE DEF R
<1>11. R = Pack(Wanted)
  BY <1>1, <1>9, <1>10, WantedBytes DEF W
<1> QED
  BY <1>11 DEF R, F

-----------------------------------------------------------------------------
(* The invariant *)

(* main starts with the draft of an empty request. *)
LEMMA InitBlock ==
  Init => BlockInv
<1> SUFFICES ASSUME Init
             PROVE  BlockInv
  OBVIOUS
<1>1. /\ asked.chanspec = 0 /\ asked.csiCollect = TRUE /\ asked.nssMask = 0
      /\ asked.coreMask = 0 /\ asked.usePktFilter = FALSE /\ asked.firstPktByte = 0
      /\ asked.cmpSrcMacs = <<>> /\ asked.delay = NotGiven
  BY DEF Init
<1>2. 0 \in Code /\ 0 \in Mask /\ 0 \in Byte /\ <<>> \in MacList /\ NotGiven \in Int
  BY DEF Code, Mask, Byte, MacList, NotGiven
<1>3. asked \in CsiConf
  BY <1>2 DEF Init, CsiConf
<1>4. BadAt(asked.cmpSrcMacs) = {} /\ Len(asked.cmpSrcMacs) = 0
  BY <1>1 DEF BadAt
<1>5. p = Draft(asked)
  <2>1. Lo(0) = 0 /\ Hi(0) = 0
    BY DEF Lo, Hi
  <2>2. \A i \in 8..31 : MacByte(asked.cmpSrcMacs, i) = 0
    <3>1. \A i \in 8..31 : ~(Place(i) <= 0)
      BY Places
    <3>2. \A i \in 8..31 : MacByte(asked.cmpSrcMacs, i)
            = IF Place(i) <= 0 THEN asked.cmpSrcMacs[Place(i)][Column(i)] ELSE 0
      BY <1>4 DEF MacByte, Place, Column
    <3> QED
      BY <3>1, <3>2
  <2>3. p = Zero
    BY DEF Init
  <2>4. /\ Lo(asked.chanspec) = 0 /\ Hi(asked.chanspec) = 0
        /\ 16 * asked.nssMask + asked.coreMask = 0
        /\ Flag(asked.usePktFilter) = 0 /\ asked.firstPktByte = 0
        /\ Lo(Len(asked.cmpSrcMacs)) = 0
        /\ Lo(IF asked.delay = NotGiven THEN 0 ELSE asked.delay) = 0
        /\ Hi(IF asked.delay = NotGiven THEN 0 ELSE asked.delay) = 0
    BY <1>1, <1>4, <2>1 DEF Flag
  <2>5. ASSUME NEW i \in 0..33
        PROVE  DraftByte(asked, i) = 0
    <3>1. i \in 8..31 \/ i \in {0, 1, 2, 3, 4, 5, 6, 7, 32, 33}
      OBVIOUS
    <3> QED
      BY <2>2, <2>4, <3>1 DEF DraftByte
  <2> QED
    BY <1>3, <2>3, <2>5, DraftBytes DEF Zero
<1>6. p \in Buffer
  BY <1>2 DEF Init, Zero, Buffer
<1>7. /\ phase = "options" /\ enable = 1 /\ coremask = 0 /\ nssmask = 0 /\ nmac = 0
      /\ chanspec = 0 /\ force_delay = 0 /\ doraw = FALSE
  BY DEF Init
<1>8. TypeOK
  <2>1. /\ phase \in {"options", "written", "usage", "failed"}
        /\ enable \in {0, 1} /\ force_delay \in {0, 1}
    BY <1>7
  <2>2. doraw \in BOOLEAN /\ nmac \in 0..MAX_MAC_ADDRESS
    <3>1. doraw \in BOOLEAN
      BY <1>7, Zenon
    <3>2. nmac \in 0..MAX_MAC_ADDRESS
      BY <1>7 DEF MAX_MAC_ADDRESS
    <3> QED
      BY <3>1, <3>2
  <2>3. coremask \in Mask /\ nssmask \in Mask /\ chanspec \in Code
    BY <1>2, <1>7
  <2> QED
    BY <1>3, <1>6, <2>1, <2>2, <2>3, Zenon DEF TypeOK
<1>9. Agree
  BY <1>1, <1>4, <1>7 DEF Agree, Flag
<1> QED
  BY <1>1, <1>5, <1>7, <1>8, <1>9 DEF BlockInv

(* An option that is read keeps the invariant when the draft follows the   *)
(* request and the locals do.                                              *)
LEMMA OptionKeeps ==
  ASSUME BlockInv, phase = "options", phase' = "options",
         asked' \in CsiConf, asked'.delay \in Nat \cup {NotGiven},
         p' = Draft(asked'), Agree', doraw' \in BOOLEAN, Len(asked'.cmpSrcMacs) <= 4
  PROVE  BlockInv'
<1>1. p' \in Buffer
  BY DraftIsBuffer DEF Agree
<1>2. enable' \in {0, 1} /\ force_delay' \in {0, 1}
  BY DEF Agree, Flag
<1>3. coremask' \in Mask /\ nssmask' \in Mask /\ chanspec' \in Code
  <2>1. asked'.coreMask \in Mask /\ asked'.nssMask \in Mask /\ asked'.chanspec \in Code
    BY DEF CsiConf
  <2>2. coremask' = asked'.coreMask /\ nssmask' = asked'.nssMask /\ chanspec' = asked'.chanspec
    BY DEF Agree
  <2> QED
    BY <2>1, <2>2
<1>4. nmac' \in 0..MAX_MAC_ADDRESS
  <2>1. asked'.cmpSrcMacs \in MacList
    BY DEF CsiConf
  <2>2. Len(asked'.cmpSrcMacs) \in Nat
    BY <2>1 DEF MacList
  <2>3. nmac' = Len(asked'.cmpSrcMacs)
    BY DEF Agree
  <2>4. nmac' \in Nat /\ nmac' <= 4
    BY <2>2, <2>3, Zenon
  <2> QED
    BY <2>4 DEF MAX_MAC_ADDRESS
<1>5. phase' \in {"options", "written", "usage", "failed"}
  OBVIOUS
<1>6. TypeOK'
  BY <1>1, <1>2, <1>3, <1>4, <1>5, Zenon DEF TypeOK
<1> QED
  BY <1>6 DEF BlockInv

(* A refused option leaves the struct and the locals. *)
LEMMA RefuseKeeps ==
  ASSUME BlockInv, Refuse, asked' \in CsiConf, asked'.delay = asked.delay
  PROVE  BlockInv'
<1>1. /\ phase' = "failed" /\ p' = p /\ enable' = enable /\ coremask' = coremask
      /\ nssmask' = nssmask /\ nmac' = nmac /\ chanspec' = chanspec
      /\ force_delay' = force_delay /\ doraw' = doraw
  BY DEF Refuse, locals
<1>2. TypeOK
  BY DEF BlockInv
<1>3. TypeOK'
  <2>1. phase' \in {"options", "written", "usage", "failed"} /\ p' \in Buffer
    BY <1>1, <1>2 DEF TypeOK
  <2>2. enable' \in {0, 1} /\ force_delay' \in {0, 1} /\ nmac' \in 0..MAX_MAC_ADDRESS
    BY <1>1, <1>2 DEF TypeOK
  <2>3. coremask' \in Mask /\ nssmask' \in Mask /\ chanspec' \in Code
    BY <1>1, <1>2 DEF TypeOK
  <2>4. doraw' \in BOOLEAN
    BY <1>1, <1>2 DEF TypeOK
  <2> QED
    BY <2>1, <2>2, <2>3, <2>4, Zenon DEF TypeOK
<1>4. asked'.delay \in Nat \cup {NotGiven}
  BY DEF BlockInv
<1> QED
  BY <1>1, <1>3, <1>4 DEF BlockInv

(* A failed option keeps the invariant. *)
LEMMA FailKeeps ==
  ASSUME BlockInv, Fail
  PROVE  BlockInv'
<1>1. asked' = asked /\ asked \in CsiConf
  BY DEF Fail, BlockInv, TypeOK
<1> QED
  BY <1>1, RefuseKeeps DEF Fail

(* What an option starts from. *)
LEMMA Before ==
  ASSUME BlockInv, phase = "options"
  PROVE  /\ asked \in CsiConf /\ p = Draft(asked) /\ Agree /\ doraw \in BOOLEAN
         /\ asked.delay \in Nat \cup {NotGiven}
         /\ asked.cmpSrcMacs \in MacList /\ Len(asked.cmpSrcMacs) <= 4
<1>1. TypeOK /\ Agree /\ p = Draft(asked) /\ asked.delay \in Nat \cup {NotGiven}
  BY DEF BlockInv
<1>2. asked \in CsiConf /\ doraw \in BOOLEAN /\ nmac \in 0..4
  BY <1>1, Zenon DEF TypeOK, MAX_MAC_ADDRESS
<1>3. asked.cmpSrcMacs \in MacList
  BY <1>2 DEF CsiConf
<1>4. Len(asked.cmpSrcMacs) <= 4
  <2>1. nmac = Len(asked.cmpSrcMacs)
    BY <1>1 DEF Agree
  <2>2. nmac <= 4
    BY <1>2
  <2> QED
    BY <2>1, <2>2, Zenon
<1> QED
  BY <1>1, <1>2, <1>3, <1>4

(* -r keeps the invariant. *)
LEMMA OptRKeeps ==
  ASSUME BlockInv, OptR
  PROVE  BlockInv'
<1>1. /\ phase = "options" /\ phase' = "options" /\ doraw' = TRUE /\ p' = p
      /\ asked' = asked
      /\ enable' = enable /\ coremask' = coremask /\ nssmask' = nssmask /\ nmac' = nmac
      /\ chanspec' = chanspec /\ force_delay' = force_delay
  BY DEF OptR, Continue
<1>2. Agree'
  BY <1>1, Before DEF Agree
<1>3. doraw' \in BOOLEAN
  BY <1>1, Zenon
<1> QED
  BY <1>1, <1>2, <1>3, Before, OptionKeeps

(* -e keeps it. *)
LEMMA OptEKeeps ==
  ASSUME BlockInv, OptE
  PROVE  BlockInv'
<1>1. PICK v \in Enables :
        /\ enable' = v
        /\ asked' = [asked EXCEPT !.csiCollect = (v # 0)]
  BY DEF OptE
<1>2. /\ phase = "options" /\ phase' = "options" /\ p' = p
      /\ coremask' = coremask /\ nssmask' = nssmask /\ nmac' = nmac
      /\ chanspec' = chanspec /\ force_delay' = force_delay /\ doraw' = doraw
  BY DEF OptE, Continue
<1>3. v \in {0, 1}
  BY MakeCsiParamsAssumption
<1> DEFINE c == v # 0
<1>4. c \in BOOLEAN
  OBVIOUS
<1>5. v = Flag(c)
  BY <1>3 DEF Flag
<1>6. asked' = [asked EXCEPT !.csiCollect = c]
  BY <1>1
<1> HIDE DEF c
<1>7. asked \in CsiConf
  BY <1>2, Before
<1>8. asked' \in CsiConf
  BY <1>4, <1>6, <1>7, ConfChanged
<1>9. /\ asked'.csiCollect = c /\ asked'.coreMask = asked.coreMask
      /\ asked'.nssMask = asked.nssMask /\ asked'.chanspec = asked.chanspec
      /\ asked'.cmpSrcMacs = asked.cmpSrcMacs /\ asked'.delay = asked.delay
  BY <1>6, <1>7 DEF CsiConf
<1>10. Agree'
  BY <1>1, <1>2, <1>5, <1>9, Before DEF Agree
<1>11. p' = Draft(asked')
  BY <1>2, <1>4, <1>6, <1>7, Before, DraftCollect
<1> QED
  BY <1>2, <1>8, <1>9, <1>10, <1>11, Before, OptionKeeps

(* -b keeps it. *)
LEMMA OptBKeeps ==
  ASSUME BlockInv, OptB
  PROVE  BlockInv'
<1>1. PICK byte \in FirstBytes :
        \/ byte \notin 0..255 /\ Fail
        \/ /\ Continue
           /\ byte \in 0..255
           /\ p' = Put(p, 4, <<1, byte>>)
           /\ asked' = [asked EXCEPT !.usePktFilter = TRUE, !.firstPktByte = byte]
           /\ UNCHANGED locals
  BY DEF OptB
<1>2. CASE Fail
  BY <1>2, FailKeeps
<1>3. CASE ~Fail
  <2>1. /\ phase = "options" /\ phase' = "options"
        /\ byte \in 0..255
        /\ p' = Put(p, 4, <<1, byte>>)
        /\ asked' = [asked EXCEPT !.usePktFilter = TRUE, !.firstPktByte = byte]
    BY <1>1, <1>3 DEF Continue
  <2>2. /\ enable' = enable /\ coremask' = coremask /\ nssmask' = nssmask /\ nmac' = nmac
        /\ chanspec' = chanspec /\ force_delay' = force_delay /\ doraw' = doraw
    BY <1>1, <1>3 DEF locals
  <2>3. byte \in Byte
    BY <2>1 DEF Byte
  <2>4. asked \in CsiConf /\ p = Draft(asked)
    BY <2>1, Before
  <2>5. asked' \in CsiConf
    BY <2>1, <2>3, <2>4, ConfChanged
  <2>6. /\ asked'.csiCollect = asked.csiCollect /\ asked'.coreMask = asked.coreMask
        /\ asked'.nssMask = asked.nssMask /\ asked'.chanspec = asked.chanspec
        /\ asked'.cmpSrcMacs = asked.cmpSrcMacs /\ asked'.delay = asked.delay
    BY <2>1, <2>4 DEF CsiConf
  <2>7. Agree'
    BY <2>1, <2>2, <2>3, <2>6, Before DEF Agree
  <2>8. p' = Draft(asked')
    BY <2>1, <2>3, <2>4, DraftFilter
  <2> QED
    BY <2>1, <2>2, <2>3, <2>5, <2>6, <2>7, <2>8, Before, OptionKeeps
<1> QED
  BY <1>2, <1>3

(* -c keeps it. *)
LEMMA OptCKeeps ==
  ASSUME BlockInv, OptC
  PROVE  BlockInv'
<1>1. PICK c \in ChanspecCodes :
        \/ c = 0 /\ Fail
        \/ /\ Continue
           /\ c # 0
           /\ chanspec' = c
           /\ p' = Put(p, 0, Word16(c))
           /\ asked' = [asked EXCEPT !.chanspec = c]
           /\ UNCHANGED <<enable, coremask, nssmask, nmac, force_delay, doraw>>
  BY DEF OptC
<1>2. CASE Fail
  BY <1>2, FailKeeps
<1>3. CASE ~Fail
  <2>1. /\ phase = "options" /\ phase' = "options"
        /\ c # 0
        /\ chanspec' = c
        /\ p' = Put(p, 0, Word16(c))
        /\ asked' = [asked EXCEPT !.chanspec = c]
    BY <1>1, <1>3 DEF Continue
  <2>2. /\ enable' = enable /\ coremask' = coremask /\ nssmask' = nssmask
        /\ nmac' = nmac /\ force_delay' = force_delay /\ doraw' = doraw
    BY <1>1, <1>3
  <2>3. c \in Code
    BY <2>1, MakeCsiParamsAssumption
  <2>4. asked \in CsiConf /\ p = Draft(asked)
    BY <2>1, Before
  <2>5. asked' \in CsiConf
    BY <2>1, <2>3, <2>4, ConfChanged
  <2>6. /\ asked'.csiCollect = asked.csiCollect /\ asked'.coreMask = asked.coreMask
        /\ asked'.nssMask = asked.nssMask /\ asked'.chanspec = c
        /\ asked'.cmpSrcMacs = asked.cmpSrcMacs /\ asked'.delay = asked.delay
    BY <2>1, <2>4 DEF CsiConf
  <2>7. Agree'
    BY <2>1, <2>2, <2>3, <2>6, Before DEF Agree
  <2>8. p' = Draft(asked')
    BY <2>1, <2>3, <2>4, DraftChanspec
  <2> QED
    BY <2>1, <2>2, <2>3, <2>5, <2>6, <2>7, <2>8, Before, OptionKeeps
<1> QED
  BY <1>2, <1>3

(* -C keeps it. *)
LEMMA OptCoreKeeps ==
  ASSUME BlockInv, OptCore
  PROVE  BlockInv'
<1>1. PICK mask \in CoreMasks :
        \/ mask \notin 0..15 /\ Fail
        \/ /\ Continue
           /\ mask \in 0..15
           /\ coremask' = mask
           /\ p' = Put(p, 3, <<16 * (p[3] \div 16) + mask>>)
           /\ asked' = [asked EXCEPT !.coreMask = mask]
           /\ UNCHANGED <<enable, nssmask, nmac, chanspec, force_delay, doraw>>
  BY DEF OptCore
<1>2. CASE Fail
  BY <1>2, FailKeeps
<1>3. CASE ~Fail
  <2>1. /\ phase = "options" /\ phase' = "options"
        /\ mask \in 0..15
        /\ coremask' = mask
        /\ p' = Put(p, 3, <<16 * (p[3] \div 16) + mask>>)
        /\ asked' = [asked EXCEPT !.coreMask = mask]
    BY <1>1, <1>3 DEF Continue
  <2>2. /\ enable' = enable /\ nssmask' = nssmask /\ nmac' = nmac
        /\ chanspec' = chanspec /\ force_delay' = force_delay /\ doraw' = doraw
    BY <1>1, <1>3
  <2>3. mask \in Mask
    BY <2>1 DEF Mask
  <2>4. asked \in CsiConf /\ p = Draft(asked)
    BY <2>1, Before
  <2>5. asked' \in CsiConf
    BY <2>1, <2>3, <2>4, ConfChanged
  <2>6. /\ asked'.csiCollect = asked.csiCollect /\ asked'.coreMask = mask
        /\ asked'.nssMask = asked.nssMask /\ asked'.chanspec = asked.chanspec
        /\ asked'.cmpSrcMacs = asked.cmpSrcMacs /\ asked'.delay = asked.delay
    BY <2>1, <2>4 DEF CsiConf
  <2>7. Agree'
    BY <2>1, <2>2, <2>3, <2>6, Before DEF Agree
  <2>8. p' = Draft(asked')
    BY <2>1, <2>3, <2>4, DraftCores
  <2> QED
    BY <2>1, <2>2, <2>3, <2>5, <2>6, <2>7, <2>8, Before, OptionKeeps
<1> QED
  BY <1>2, <1>3

(* -N keeps it. *)
LEMMA OptNKeeps ==
  ASSUME BlockInv, OptN
  PROVE  BlockInv'
<1>1. PICK mask \in NssMasks :
        \/ mask \notin 0..15 /\ Fail
        \/ /\ Continue
           /\ mask \in 0..15
           /\ nssmask' = mask
           /\ p' = Put(p, 3, <<16 * mask + (p[3] % 16)>>)
           /\ asked' = [asked EXCEPT !.nssMask = mask]
           /\ UNCHANGED <<enable, coremask, nmac, chanspec, force_delay, doraw>>
  BY DEF OptN
<1>2. CASE Fail
  BY <1>2, FailKeeps
<1>3. CASE ~Fail
  <2>1. /\ phase = "options" /\ phase' = "options"
        /\ mask \in 0..15
        /\ nssmask' = mask
        /\ p' = Put(p, 3, <<16 * mask + (p[3] % 16)>>)
        /\ asked' = [asked EXCEPT !.nssMask = mask]
    BY <1>1, <1>3 DEF Continue
  <2>2. /\ enable' = enable /\ coremask' = coremask /\ nmac' = nmac
        /\ chanspec' = chanspec /\ force_delay' = force_delay /\ doraw' = doraw
    BY <1>1, <1>3
  <2>3. mask \in Mask
    BY <2>1 DEF Mask
  <2>4. asked \in CsiConf /\ p = Draft(asked)
    BY <2>1, Before
  <2>5. asked' \in CsiConf
    BY <2>1, <2>3, <2>4, ConfChanged
  <2>6. /\ asked'.csiCollect = asked.csiCollect /\ asked'.coreMask = asked.coreMask
        /\ asked'.nssMask = mask /\ asked'.chanspec = asked.chanspec
        /\ asked'.cmpSrcMacs = asked.cmpSrcMacs /\ asked'.delay = asked.delay
    BY <2>1, <2>4 DEF CsiConf
  <2>7. Agree'
    BY <2>1, <2>2, <2>3, <2>6, Before DEF Agree
  <2>8. p' = Draft(asked')
    BY <2>1, <2>3, <2>4, DraftStreams
  <2> QED
    BY <2>1, <2>2, <2>3, <2>5, <2>6, <2>7, <2>8, Before, OptionKeeps
<1> QED
  BY <1>2, <1>3

(* -d keeps it. *)
LEMMA OptDKeeps ==
  ASSUME BlockInv, OptD
  PROVE  BlockInv'
<1>1. PICK delay \in Delays :
        \/ delay < 0 /\ Fail
        \/ /\ Continue
           /\ delay >= 0
           /\ force_delay' = 1
           /\ p' = Put(p, 32, Word16(delay))
           /\ asked' = [asked EXCEPT !.delay = delay]
           /\ UNCHANGED <<enable, coremask, nssmask, nmac, chanspec, doraw>>
  BY DEF OptD
<1>2. CASE Fail
  BY <1>2, FailKeeps
<1>3. CASE ~Fail
  <2>1. /\ phase = "options" /\ phase' = "options"
        /\ delay >= 0
        /\ force_delay' = 1
        /\ p' = Put(p, 32, Word16(delay))
        /\ asked' = [asked EXCEPT !.delay = delay]
    BY <1>1, <1>3 DEF Continue
  <2>2. /\ enable' = enable /\ coremask' = coremask /\ nssmask' = nssmask
        /\ nmac' = nmac /\ chanspec' = chanspec /\ doraw' = doraw
    BY <1>1, <1>3
  <2>3. delay \in Nat /\ delay \in Int
    BY <2>1, MakeCsiParamsAssumption
  <2>4. asked \in CsiConf /\ p = Draft(asked)
    BY <2>1, Before
  <2>5. asked' \in CsiConf
    BY <2>1, <2>3, <2>4, ConfChanged
  <2>6. /\ asked'.csiCollect = asked.csiCollect /\ asked'.coreMask = asked.coreMask
        /\ asked'.nssMask = asked.nssMask /\ asked'.chanspec = asked.chanspec
        /\ asked'.cmpSrcMacs = asked.cmpSrcMacs /\ asked'.delay = delay
    BY <2>1, <2>4 DEF CsiConf
  <2>7. Agree'
    BY <2>1, <2>2, <2>3, <2>6, Before DEF Agree, NotGiven
  <2>8. p' = Draft(asked')
    BY <2>1, <2>3, <2>4, DraftDelay
  <2> QED
    BY <2>1, <2>2, <2>3, <2>5, <2>6, <2>7, <2>8, Before, OptionKeeps
<1> QED
  BY <1>2, <1>3

(* -m keeps it, refused or not. *)
LEMMA OptMKeeps ==
  ASSUME BlockInv, OptM
  PROVE  BlockInv'
<1>1. PICK macs \in MacLists :
        \/ /\ BadAt(macs) # {} \/ nmac + Len(macs) > MAX_MAC_ADDRESS
           /\ Refuse
           /\ asked' = [asked EXCEPT !.cmpSrcMacs = @ \o macs]
        \/ /\ Continue
           /\ BadAt(macs) = {} /\ nmac + Len(macs) <= MAX_MAC_ADDRESS
           /\ nmac' = nmac + Len(macs)
           /\ p' = IF macs = <<>> THEN p ELSE Put(PutMacs(p, nmac, macs), 6, Word16(nmac'))
           /\ asked' = [asked EXCEPT !.cmpSrcMacs = @ \o macs]
           /\ UNCHANGED <<enable, coremask, nssmask, chanspec, force_delay, doraw>>
  BY DEF OptM
<1> DEFINE all == asked.cmpSrcMacs \o macs
<1>2. macs \in MacList
  BY MakeCsiParamsAssumption
<1>3. asked \in CsiConf /\ asked.cmpSrcMacs \in MacList
  <2>1. asked \in CsiConf
    BY DEF BlockInv, TypeOK
  <2> QED
    BY <2>1 DEF CsiConf
<1>4. all \in MacList
  BY <1>2, <1>3 DEF MacList
<1>5. asked' = [asked EXCEPT !.cmpSrcMacs = all]
  BY <1>1
<1> HIDE DEF all
<1>6. asked' \in CsiConf
  BY <1>3, <1>4, <1>5, ConfChanged
<1>7. /\ asked'.csiCollect = asked.csiCollect /\ asked'.coreMask = asked.coreMask
      /\ asked'.nssMask = asked.nssMask /\ asked'.chanspec = asked.chanspec
      /\ asked'.cmpSrcMacs = all /\ asked'.delay = asked.delay
  BY <1>3, <1>5 DEF CsiConf
<1>8. CASE Refuse
  BY <1>6, <1>7, <1>8, RefuseKeeps
<1>9. CASE ~Refuse
  <2>1. /\ phase = "options" /\ phase' = "options"
        /\ BadAt(macs) = {} /\ nmac + Len(macs) <= MAX_MAC_ADDRESS
        /\ nmac' = nmac + Len(macs)
        /\ p' = IF macs = <<>> THEN p ELSE Put(PutMacs(p, nmac, macs), 6, Word16(nmac'))
        /\ enable' = enable /\ coremask' = coremask /\ nssmask' = nssmask
        /\ chanspec' = chanspec /\ force_delay' = force_delay /\ doraw' = doraw
    BY <1>1, <1>9 DEF Continue
  <2>2. p = Draft(asked) /\ Agree /\ doraw \in BOOLEAN /\ asked.delay \in Nat \cup {NotGiven}
    BY <2>1, Before
  <2>3. nmac = Len(asked.cmpSrcMacs) /\ BadAt(asked.cmpSrcMacs) = {}
    BY <2>2 DEF Agree
  <2>4. Len(asked.cmpSrcMacs) + Len(macs) <= 4
    BY <2>1, <2>3 DEF MAX_MAC_ADDRESS
  <2>5. Len(all) = nmac' /\ BadAt(all) = {}
    <3>1. asked.cmpSrcMacs \in Seq(Seq(Byte)) /\ macs \in Seq(Seq(Byte))
      BY <1>2, <1>3 DEF MacList
    <3>2. /\ Len(asked.cmpSrcMacs \o macs) = Len(asked.cmpSrcMacs) + Len(macs)
          /\ BadAt(asked.cmpSrcMacs \o macs) = {}
      BY <2>1, <2>3, <2>4, <3>1, MacsAppended, Zenon
    <3> QED
      BY <2>1, <2>3, <3>2, Zenon DEF all
  <2>6. Agree'
    BY <1>7, <2>1, <2>2, <2>5 DEF Agree
  <2>7. p' = Draft(asked')
    <3>1. CASE macs = <<>>
      <4>1. all = asked.cmpSrcMacs
        BY <1>3, <3>1 DEF all, MacList
      <4>2. asked' = asked
        BY <1>3, <1>5, <4>1 DEF CsiConf
      <4> QED
        BY <2>1, <2>2, <3>1, <4>2
    <3>2. CASE macs # <<>>
      <4>1. Draft([asked EXCEPT !.cmpSrcMacs = @ \o macs])
              = Put(PutMacs(Draft(asked), Len(asked.cmpSrcMacs), macs), 6,
                    Word16(Len(asked.cmpSrcMacs) + Len(macs)))
        BY <1>2, <1>3, <2>1, <2>3, <2>4, DraftMacs
      <4> QED
        BY <1>1, <2>1, <2>2, <2>3, <3>2, <4>1
    <3> QED
      BY <3>1, <3>2
  <2>8. Len(asked'.cmpSrcMacs) <= 4
    BY <1>7, <2>1, <2>5 DEF MAX_MAC_ADDRESS
  <2> QED
    BY <1>6, <1>7, <2>1, <2>2, <2>6, <2>7, <2>8, OptionKeeps
<1> QED
  BY <1>8, <1>9

(* Finishing keeps it. *)
LEMMA FinishKeeps ==
  ASSUME BlockInv, Finish
  PROVE  BlockInv'
<1>1. CASE Fail
  BY <1>1, FailKeeps
<1>2. CASE ~Fail
  <2>1. /\ phase = "options" /\ phase' = "written" /\ asked' = asked
        /\ p' = Finished(Put(p, 2, <<Lo(enable)>>))
        /\ enable' = enable /\ coremask' = coremask /\ nssmask' = nssmask /\ nmac' = nmac
        /\ chanspec' = chanspec /\ force_delay' = force_delay /\ doraw' = doraw
    BY <1>2 DEF Finish, locals
  <2>2. p' = Pack(Wanted)
    BY <2>1, FinishedIsWanted
  <2>3. Wanted' = Wanted
    BY <2>1 DEF Wanted
  <2>4. TypeOK /\ Agree /\ asked.delay \in Nat \cup {NotGiven}
    BY <2>1 DEF BlockInv
  <2>5. Agree'
    BY <2>1, <2>4 DEF Agree
  <2>6. p' \in Buffer
    <3>1. p \in Buffer /\ enable \in Int
      BY <2>4 DEF TypeOK
    <3>2. Lo(enable) \in Byte /\ Lo(DEFAULT_DELAY_US) \in Byte /\ Hi(DEFAULT_DELAY_US) \in Byte
      BY <3>1, HalvesAreBytes DEF DEFAULT_DELAY_US
    <3>3. \A buff \in Buffer, x \in Byte : Put(buff, 2, <<x>>) \in Buffer
      <4> TAKE buff \in Buffer, x \in Byte
      <4>1. Put(buff, 2, <<x>>) = [i \in 0..33 |-> IF i = 2 THEN x ELSE buff[i]]
        BY DEF Put
      <4> QED
        BY <4>1 DEF Buffer
    <3>4. \A buff \in Buffer, x, y \in Byte : Put(buff, 32, <<x, y>>) \in Buffer
      <4> TAKE buff \in Buffer, x, y \in Byte
      <4>1. Put(buff, 32, <<x, y>>)
              = [i \in 0..33 |-> IF i = 32 THEN x ELSE IF i = 33 THEN y ELSE buff[i]]
        BY DEF Put
      <4> QED
        BY <4>1 DEF Buffer
    <3> DEFINE F == Put(p, 2, <<Lo(enable)>>)
    <3>5. F \in Buffer
      BY <3>1, <3>2, <3>3, Zenon
    <3> HIDE DEF F
    <3>6. Put(F, 32, Word16(DEFAULT_DELAY_US)) \in Buffer
      BY <3>2, <3>4, <3>5, Zenon DEF Word16
    <3> QED
      BY <2>1, <3>5, <3>6 DEF Finished, F
  <2>7. TypeOK'
    <3>1. phase' \in {"options", "written", "usage", "failed"}
      BY <2>1
    <3> QED
      BY <2>1, <2>4, <2>6, <3>1 DEF TypeOK
  <2> QED
    BY <2>1, <2>2, <2>3, <2>4, <2>5, <2>7 DEF BlockInv
<1> QED
  BY <1>1, <1>2

(* A step that leaves everything but, perhaps, the phase. *)
LEMMA QuietKeeps ==
  ASSUME BlockInv, UNCHANGED <<p, locals, asked>>,
         phase' = phase \/ (phase = "options" /\ phase' = "usage")
  PROVE  BlockInv'
<1>1. /\ p' = p /\ asked' = asked
      /\ enable' = enable /\ coremask' = coremask /\ nssmask' = nssmask /\ nmac' = nmac
      /\ chanspec' = chanspec /\ force_delay' = force_delay /\ doraw' = doraw
  BY DEF locals
<1>2. TypeOK /\ asked.delay \in Nat \cup {NotGiven}
  BY DEF BlockInv
<1>3. phase' \in {"options", "written", "usage", "failed"}
  BY <1>2 DEF TypeOK
<1>4. TypeOK'
  BY <1>1, <1>2, <1>3 DEF TypeOK
<1>5. phase' # "failed" => Agree'
  <2>1. phase # "failed" => Agree
    BY DEF BlockInv
  <2> QED
    BY <1>1, <2>1 DEF Agree
<1>6. Draft(asked') = Draft(asked) /\ Wanted' = Wanted
  BY <1>1 DEF Wanted
<1> QED
  BY <1>1, <1>2, <1>4, <1>5, <1>6 DEF BlockInv

(* Every step keeps the invariant. *)
LEMMA NextBlock ==
  BlockInv /\ [Next]_vars => BlockInv'
<1> SUFFICES ASSUME BlockInv, [Next]_vars
             PROVE  BlockInv'
  OBVIOUS
<1>1. CASE Usage
  BY <1>1, QuietKeeps DEF Usage
<1>2. CASE Invalid
  BY <1>2, FailKeeps DEF Invalid
<1>3. CASE Finish
  BY <1>3, FinishKeeps
<1>4. CASE OptR
  BY <1>4, OptRKeeps
<1>5. CASE OptE
  BY <1>5, OptEKeeps
<1>6. CASE OptM
  BY <1>6, OptMKeeps
<1>7. CASE OptB
  BY <1>7, OptBKeeps
<1>8. CASE OptC
  BY <1>8, OptCKeeps
<1>9. CASE OptCore
  BY <1>9, OptCoreKeeps
<1>10. CASE OptN
  BY <1>10, OptNKeeps
<1>11. CASE OptD
  BY <1>11, OptDKeeps
<1>12. CASE UNCHANGED vars
  BY <1>12, QuietKeeps DEF vars
<1> QED
  BY <1>1, <1>2, <1>3, <1>4, <1>5, <1>6, <1>7, <1>8, <1>9, <1>10, <1>11, <1>12 DEF Next

(* The invariant gives what the runs check. *)
LEMMA BlockGivesSame ==
  BlockInv => SameBlock
<1> SUFFICES ASSUME BlockInv
             PROVE  SameBlock
  OBVIOUS
<1>1. \A conf : BadAt(conf.cmpSrcMacs) = {} /\ Len(conf.cmpSrcMacs) <= 4
                 => ToBase64(conf) = [status |-> "block", buff |-> Pack(conf)]
  <2> TAKE conf
  <2> HAVE BadAt(conf.cmpSrcMacs) = {} /\ Len(conf.cmpSrcMacs) <= 4
  <2> DEFINE bad == \E i \in BadAt(conf.cmpSrcMacs) : i <= 5
             long == Len(conf.cmpSrcMacs) > 4
             fits == Len(conf.cmpSrcMacs) <= 4 /\ BadAt(conf.cmpSrcMacs) = {}
  <2>1. ~bad
    OBVIOUS
  <2>2. fits
    OBVIOUS
  <2>3. ~long
    OBVIOUS
  <2>4. ToBase64(conf) =
          CASE bad -> [status |-> "null", buff |-> Zero]
            [] long /\ ~bad -> [status |-> "throws", buff |-> Zero]
            [] fits -> [status |-> "block", buff |-> Pack(conf)]
    BY Zenon DEF ToBase64
  <2> HIDE DEF bad, long, fits
  <2> QED
    BY <2>1, <2>2, <2>3, <2>4
<1>2. asked \in CsiConf /\ nmac <= 4
  BY DEF BlockInv, TypeOK, MAX_MAC_ADDRESS
<1>3. phase # "failed" => BadAt(asked.cmpSrcMacs) = {} /\ Len(asked.cmpSrcMacs) <= 4
  BY <1>2 DEF BlockInv, Agree
<1>4. Wanted.cmpSrcMacs = asked.cmpSrcMacs
  BY <1>2, WantedFields
<1>5. phase = "written" => ToBase64(Wanted) = [status |-> "block", buff |-> p]
  <2>1. phase = "written" => p = Pack(Wanted)
    BY DEF BlockInv
  <2> QED
    BY <1>1, <1>3, <1>4, <2>1
<1>6. phase # "failed" => ToBase64(asked).status = "block"
  BY <1>1, <1>3
<1> QED
  BY <1>5, <1>6 DEF SameBlock

(* The low word of a number is its two low bytes. *)
LEMMA WordOfDelay ==
  ASSUME NEW x \in Nat
  PROVE  Lo(x) + 256 * Hi(x) = x % 65536
<1> DEFINE q == x \div 256
           r == x % 256
           t == q \div 256
           u == q % 256
<1>1. q \in Int /\ r \in Int /\ x = 256 * q + r
  BY SMTT(30)
<1>2. 0 <= r /\ r <= 255
  OBVIOUS
<1> HIDE DEF q, r
<1>3. t \in Int /\ u \in Int /\ q = 256 * t + u
  BY <1>1, SMTT(30)
<1>4. 0 <= u /\ u <= 255
  BY <1>1
<1>5. Lo(x) = r /\ Hi(x) = u
  BY DEF Lo, Hi, q, r
<1> HIDE DEF t, u
<1>6. x = 65536 * t + (256 * u + r) /\ 0 <= 256 * u + r /\ 256 * u + r <= 65535
  BY <1>1, <1>2, <1>3, <1>4
<1>7. x % 65536 = 256 * u + r
  <2> DEFINE v == 256 * u + r
  <2>1. v \in Int
    BY <1>1, <1>3
  <2> HIDE DEF v
  <2> QED
    BY <1>3, <1>6, <2>1, SMTT(30) DEF v
<1> QED
  BY <1>1, <1>3, <1>5, <1>7

(* The addresses as the firmware finds them. *)
LEMMA MacsRead ==
  ASSUME NEW macs \in MacList, BadAt(macs) = {}, NEW m \in 1..Len(macs), Len(macs) <= 4
  PROVE  [j \in 1..6 |-> MacByte(macs, 8 + 6 * (m - 1) + j - 1)] = macs[m]
<1>1. macs[m] \in Seq(Byte) /\ m \in 1..4
  BY DEF MacList
<1>2. Len(macs[m]) = 6
  BY DEF BadAt
<1>3. macs[m] = [j \in 1..6 |-> macs[m][j]]
  BY <1>1, <1>2
<1>4. ASSUME NEW j \in 1..6
      PROVE  MacByte(macs, 8 + 6 * (m - 1) + j - 1) = macs[m][j]
  <2> DEFINE i == 8 + 6 * (m - 1) + j - 1
  <2>1. Place(i) = m
    <3>1. \A n \in 1..4, c \in 1..6 : Place(8 + 6 * (n - 1) + c - 1) = n
      BY DEF Place
    <3> QED
      BY <1>1, <3>1
  <2>2. Column(i) = j
    <3>1. \A n \in 1..4, c \in 1..6 : Column(8 + 6 * (n - 1) + c - 1) = c
      BY DEF Column
    <3> QED
      BY <1>1, <3>1
  <2>3. MacByte(macs, i) = IF Place(i) <= Len(macs) THEN macs[Place(i)][Column(i)] ELSE 0
    BY DEF MacByte, Place, Column
  <2> HIDE DEF i
  <2>4. m <= Len(macs)
    OBVIOUS
  <2> QED
    BY <2>1, <2>2, <2>3, <2>4 DEF i
<1> QED
  BY <1>3, <1>4

(* The firmware reads from the struct what was asked for. *)
LEMMA BlockGivesReads ==
  BlockInv => FirmwareReads
<1> SUFFICES ASSUME BlockInv, phase = "written"
             PROVE  FirmwareReads
  BY DEF FirmwareReads
<1> DEFINE params == Unpack(p)
           macs == asked.cmpSrcMacs
           W == Wanted.delay
<1>1. asked \in CsiConf /\ nmac \in 0..4
  <2>1. TypeOK
    BY DEF BlockInv
  <2> QED
    BY <2>1, Zenon DEF TypeOK, MAX_MAC_ADDRESS
<1>2. p = Pack(Wanted) /\ Agree /\ asked.delay \in Nat \cup {NotGiven}
  BY DEF BlockInv
<1>3. Len(macs) = nmac /\ BadAt(macs) = {}
  BY <1>2 DEF Agree
<1>4. p = [i \in 0..33 |-> IF i = 2 THEN Flag(asked.csiCollect)
                          ELSE IF i = 32 THEN Lo(W)
                          ELSE IF i = 33 THEN Hi(W) ELSE DraftByte(asked, i)]
  BY <1>1, <1>2, WantedBytes, Zenon
<1>5. asked.delay # NotGiven => W = asked.delay
  BY <1>1, WantedFields, Zenon
<1>6. /\ p[0] = Lo(asked.chanspec) /\ p[1] = Hi(asked.chanspec)
      /\ p[2] = Flag(asked.csiCollect) /\ p[3] = 16 * asked.nssMask + asked.coreMask
      /\ p[4] = Flag(asked.usePktFilter) /\ p[5] = asked.firstPktByte
      /\ p[6] = Lo(Len(macs)) /\ p[7] = 0
      /\ \A i \in 8..31 : p[i] = MacByte(macs, i)
      /\ p[32] = Lo(W) /\ p[33] = Hi(W)
  <2> HIDE DEF W
  <2> QED
    BY <1>4 DEF DraftByte
<1>7. /\ params.chanspec = p[0] + 256 * p[1] /\ params.csi_collect = p[2]
      /\ params.core_nss_mask = p[3] /\ params.use_pkt_filter = p[4]
      /\ params.first_pkt_byte = p[5] /\ params.n_mac_addr = p[6] + 256 * p[7]
      /\ params.cmp_src_mac = [m \in 1..4 |-> [j \in 1..6 |-> p[8 + 6 * (m - 1) + j - 1]]]
      /\ params.delay = p[32] + 256 * p[33]
  BY DEF Unpack, Word
<1> HIDE DEF params, W
<1>8. params.chanspec = asked.chanspec
  <2>1. asked.chanspec \in Code
    BY <1>1 DEF CsiConf
  <2>2. Lo(asked.chanspec) + 256 * Hi(asked.chanspec) = asked.chanspec
    BY <2>1, WordOfHalves
  <2> QED
    BY <1>6, <1>7, <2>2
<1>9. params.n_mac_addr = Len(macs)
  <2>1. \A n \in 0..4 : Lo(n) + 256 * 0 = n
    BY DEF Lo
  <2> QED
    BY <1>1, <1>3, <1>6, <1>7, <2>1
<1>10. \A m \in 1..Len(macs) : m \in 1..4 /\ params.cmp_src_mac[m] = macs[m]
  <2> TAKE m \in 1..Len(macs)
  <2>1. macs \in MacList
    BY <1>1 DEF CsiConf
  <2> HIDE DEF macs
  <2>2. Len(macs) <= 4 /\ m \in 1..4
    BY <1>1, <1>3
  <2>3. params.cmp_src_mac[m] = [j \in 1..6 |-> p[8 + 6 * (m - 1) + j - 1]]
    BY <1>7, <2>2
  <2>4. \A j \in 1..6 : 8 + 6 * (m - 1) + j - 1 \in 8..31
    BY <2>2
  <2>5. \A j \in 1..6 : p[8 + 6 * (m - 1) + j - 1] = MacByte(macs, 8 + 6 * (m - 1) + j - 1)
    BY <1>6, <2>4
  <2>6. [j \in 1..6 |-> MacByte(macs, 8 + 6 * (m - 1) + j - 1)] = macs[m]
    BY <1>3, <2>1, <2>2, MacsRead
  <2> QED
    BY <2>2, <2>3, <2>5, <2>6
<1>11. asked.delay # NotGiven => params.delay = asked.delay % 65536
  <2>1. \A x \in Nat : Lo(x) + 256 * Hi(x) = x % 65536
    BY WordOfDelay
  <2>2. asked.delay # NotGiven => W \in Nat /\ W = asked.delay
    BY <1>2, <1>5
  <2>3. params.delay = Lo(W) + 256 * Hi(W)
    BY <1>6, <1>7
  <2>4. W \in Nat => Lo(W) + 256 * Hi(W) = W % 65536
    BY <2>1
  <2> QED
    BY <2>2, <2>3, <2>4
<1>12. /\ params.csi_collect = Flag(asked.csiCollect)
       /\ params.core_nss_mask = 16 * asked.nssMask + asked.coreMask
       /\ params.use_pkt_filter = Flag(asked.usePktFilter)
       /\ params.first_pkt_byte = asked.firstPktByte
  BY <1>6, <1>7, Zenon
<1> HIDE DEF macs
<1> QED
  BY <1>8, <1>9, <1>10, <1>11, <1>12 DEF FirmwareReads, params, macs

-----------------------------------------------------------------------------
(* Base64 *)

(* Three bytes in 24 bits, and the four digits these are cut into. *)
Group(a, b, c) == 65536 * a + 256 * b + c
Digit == 0..63
Digits(h, m, n, l) == 262144 * h + 4096 * m + 64 * n + l
Sextet(v, k) == (v \div 2^(18 - 6 * k)) % 64

(* A number of 24 bits is its four digits. *)
LEMMA SextetsOf ==
  \A h, m, n, l \in Digit :
    /\ Sextet(Digits(h, m, n, l), 0) = h /\ Sextet(Digits(h, m, n, l), 1) = m
    /\ Sextet(Digits(h, m, n, l), 2) = n /\ Sextet(Digits(h, m, n, l), 3) = l
<1> TAKE h, m, n, l \in Digit
<1>0. h \in 0..63 /\ m \in 0..63 /\ n \in 0..63 /\ l \in 0..63
  BY SMT DEF Digit
<1> DEFINE v == 262144 * h + 4096 * m + 64 * n + l
<1>1. 2^18 = 262144 /\ 2^12 = 4096 /\ 2^6 = 64 /\ 2^0 = 1
  BY SMT
<1>2. v \in Int
  BY <1>0, SMT
<1>3. (v \div 262144) % 64 = h
  <2>1. v \div 262144 = h
    BY <1>0, SMT
  <2> QED
    BY <1>0, <2>1, SMT
<1>4. (v \div 4096) % 64 = m
  <2>1. v \div 4096 = 64 * h + m
    BY <1>0, SMT
  <2> QED
    BY <1>0, <2>1, SMT
<1>5. (v \div 64) % 64 = n
  <2>1. v \div 64 = 4096 * h + 64 * m + n
    BY <1>0, SMT
  <2> QED
    BY <1>0, <2>1, SMT
<1>6. (v \div 1) % 64 = l
  <2>1. v \div 1 = v
    BY <1>2, SMT
  <2> QED
    BY <1>0, <2>1, SMT
<1>7. 18 - 6 * 0 = 18 /\ 18 - 6 * 1 = 12 /\ 18 - 6 * 2 = 6 /\ 18 - 6 * 3 = 0
  BY SMT
<1>8. Digits(h, m, n, l) = v
  BY SMT DEF Digits
<1> HIDE DEF v
<1> QED
  BY <1>1, <1>3, <1>4, <1>5, <1>6, <1>7, <1>8, SMT DEF Sextet

(* Every number of 24 bits has four digits, which make it up again. *)
LEMMA Sextets ==
  ASSUME NEW v \in Nat, v < 2^24
  PROVE  /\ \A k \in 0..3 : Sextet(v, k) \in Digit
         /\ Digits(Sextet(v, 0), Sextet(v, 1), Sextet(v, 2), Sextet(v, 3)) = v
<1> DEFINE q == v \div 64
           l == v % 64
           r == q \div 64
           n == q % 64
           h == r \div 64
           m == r % 64
<1>1. q \in Int /\ l \in Digit
  BY SMT DEF Digit
<1>2. v = 64 * q + l
  BY SMTT(30)
<1> HIDE DEF q, l
<1>3. r \in Int /\ n \in Digit
  BY <1>1, SMT DEF Digit
<1>4. q = 64 * r + n
  BY <1>1, SMTT(30)
<1> HIDE DEF r, n
<1>5. h \in Int /\ m \in Digit
  BY <1>3, SMT DEF Digit
<1>6. r = 64 * h + m
  BY <1>3, SMTT(30)
<1> HIDE DEF h, m
<1>7. v = 262144 * h + 4096 * m + 64 * n + l
  BY <1>1, <1>2, <1>3, <1>4, <1>5, <1>6, SMT DEF Digit
<1>8. h \in Digit
  <2>1. 2^24 = 16777216
    BY SMT
  <2> QED
    BY <1>1, <1>3, <1>5, <1>7, <2>1, SMT DEF Digit
<1>9. v = Digits(h, m, n, l)
  BY <1>7, SMT DEF Digits, Digit
<1>10. Sextet(v, 0) = h /\ Sextet(v, 1) = m /\ Sextet(v, 2) = n /\ Sextet(v, 3) = l
  <2>1. /\ Sextet(Digits(h, m, n, l), 0) = h /\ Sextet(Digits(h, m, n, l), 1) = m
        /\ Sextet(Digits(h, m, n, l), 2) = n /\ Sextet(Digits(h, m, n, l), 3) = l
    BY <1>1, <1>3, <1>5, <1>8, SextetsOf, SMT
  <2> QED
    BY <1>9, <2>1, SMT
<1>11. \A k \in 0..3 : k \in {0, 1, 2, 3}
  BY SMT
<1>12. \A k \in 0..3 : Sextet(v, k) \in Digit
  BY <1>1, <1>3, <1>5, <1>8, <1>10, <1>11, SMT
<1>13. Digits(Sextet(v, 0), Sextet(v, 1), Sextet(v, 2), Sextet(v, 3)) = v
  BY <1>9, <1>10, SMT
<1> QED
  BY <1>12, <1>13, SMT

(* Three bytes are found again in their 24 bits. *)
LEMMA Octets ==
  ASSUME NEW a \in Byte, NEW b \in Byte, NEW c \in Byte
  PROVE  /\ Group(a, b, c) \in Nat /\ Group(a, b, c) < 16777216
         /\ (Group(a, b, c) \div 65536) % 256 = a
         /\ (Group(a, b, c) \div 256) % 256 = b
         /\ (Group(a, b, c) \div 1) % 256 = c
<1>1. a \in 0..255 /\ b \in 0..255 /\ c \in 0..255
  BY SMT DEF Byte
<1> DEFINE v == 65536 * a + 256 * b + c
<1>2. v \in Nat /\ v < 16777216
  BY <1>1, SMT
<1>3. v \div 65536 = a
  BY <1>1, SMT
<1>4. v \div 256 = 256 * a + b
  BY <1>1, SMT
<1>5. v \div 1 = v
  BY <1>2, SMT
<1>6. a % 256 = a
  BY <1>1, SMT
<1>7. (256 * a + b) % 256 = b
  BY <1>1, SMT
<1>8. v % 256 = c
  BY <1>1, SMT
<1>9. Group(a, b, c) = v
  BY SMT DEF Group
<1> HIDE DEF v
<1> QED
  BY <1>2, <1>3, <1>4, <1>5, <1>6, <1>7, <1>8, <1>9, SMT

(* The block is read three bytes at a time; the last group has only one. *)
ByteAt(buff, n) == IF n <= 33 THEN buff[n] ELSE 0
GroupAt(buff, g) ==
    Group(ByteAt(buff, 3 * g + 0), ByteAt(buff, 3 * g + 1), ByteAt(buff, 3 * g + 2))

(* The text, digit by digit. *)
LEMMA TextAt ==
  ASSUME NEW buff, NEW g \in 0..11, NEW k \in 0..3
  PROVE  Base64(buff)[4 * g + k]
           = IF g = 11 /\ k >= 2 THEN Pad ELSE Sextet(GroupAt(buff, g), k)
<1> DEFINE i == 4 * g + k
<1>1. i \in 0..47 /\ i \div 4 = g /\ i % 4 = k
  BY SMT
<1> HIDE DEF i
<1> DEFINE bits(jj) == IF 34 - jj >= 3 THEN 24 ELSE 8 * (34 - jj)
           byte(jj, n) == IF jj + n <= 33 THEN buff[jj + n] ELSE 0
           digit(x, y) ==
             IF 6 * y > bits(3 * x) THEN Pad
             ELSE ((65536 * byte(3 * x, 0) + 256 * byte(3 * x, 1) + byte(3 * x, 2))
                     \div 2^(18 - 6 * y)) % 64
<1>2. Base64(buff)[i] = digit(i \div 4, i % 4)
  BY <1>1, SMT DEF Base64
<1>3. Base64(buff)[i] = digit(g, k)
  BY <1>1, <1>2, SMT
<1>4. 6 * k > bits(3 * g) <=> g = 11 /\ k >= 2
  <2>1. CASE g = 11
    BY <2>1, SMT
  <2>2. CASE g # 11
    BY <2>2, SMT
  <2> QED
    BY <2>1, <2>2, SMT
<1>5. ((65536 * byte(3 * g, 0) + 256 * byte(3 * g, 1) + byte(3 * g, 2))
         \div 2^(18 - 6 * k)) % 64 = Sextet(GroupAt(buff, g), k)
  BY SMT DEF Sextet, GroupAt, Group, ByteAt
<1> QED
  BY <1>3, <1>4, <1>5, SMT DEF i

(* The digits the last group has no bytes for would be 0. *)
LEMMA LastDigits ==
  ASSUME NEW a \in Byte
  PROVE  Sextet(Group(a, 0, 0), 2) = 0 /\ Sextet(Group(a, 0, 0), 3) = 0
<1>1. a \in 0..255
  BY SMT DEF Byte
<1>2. 18 - 6 * 2 = 6 /\ 18 - 6 * 3 = 0 /\ 2^6 = 64 /\ 2^0 = 1
  BY SMT
<1>3. ((65536 * a + 256 * 0 + 0) \div 64) % 64 = 0
  <2>1. (65536 * a + 256 * 0 + 0) \div 64 = 64 * (16 * a)
    BY <1>1, SMT
  <2>2. (64 * (16 * a)) % 64 = 0
    BY <1>1, SMT
  <2> QED
    BY <2>1, <2>2, SMT
<1>4. ((65536 * a + 256 * 0 + 0) \div 1) % 64 = 0
  <2>1. (65536 * a + 256 * 0 + 0) \div 1 = 64 * (1024 * a)
    BY <1>1, SMT
  <2>2. (64 * (1024 * a)) % 64 = 0
    BY <1>1, SMT
  <2> QED
    BY <2>1, <2>2, SMT
<1> QED
  BY <1>2, <1>3, <1>4, SMT DEF Sextet, Group

(* What a reader takes for a digit, padding as 0. *)
Read(text, n) == IF text[n] = Pad THEN 0 ELSE text[n]

(* It is the digit that was meant. *)
LEMMA ReadsDigit ==
  ASSUME NEW buff \in Buffer, NEW g \in 0..11, NEW k \in 0..3
  PROVE  Read(Base64(buff), 4 * g + k) = Sextet(GroupAt(buff, g), k)
<1>1. Base64(buff)[4 * g + k]
        = IF g = 11 /\ k >= 2 THEN Pad ELSE Sextet(GroupAt(buff, g), k)
  BY TextAt, SMT
<1>2. \A n \in Int : n >= 0 => ByteAt(buff, n) \in Byte
  BY SMT DEF ByteAt, Buffer, Byte
<1>3. CASE g = 11 /\ k >= 2
  <2>1. GroupAt(buff, g) = Group(ByteAt(buff, 33), 0, 0)
    BY <1>3, SMT DEF GroupAt, ByteAt
  <2>2. ByteAt(buff, 33) \in Byte
    BY <1>2, SMT
  <2>3. Sextet(GroupAt(buff, g), 2) = 0 /\ Sextet(GroupAt(buff, g), 3) = 0
    BY <2>1, <2>2, LastDigits, SMT
  <2>4. k = 2 \/ k = 3
    BY <1>3, SMT
  <2>5. Sextet(GroupAt(buff, g), k) = 0
    BY <2>3, <2>4, SMT
  <2> QED
    BY <1>1, <1>3, <2>5, SMT DEF Read
<1>4. CASE ~(g = 11 /\ k >= 2)
  <2>1. ByteAt(buff, 3 * g + 0) \in Byte /\ ByteAt(buff, 3 * g + 1) \in Byte /\ ByteAt(buff, 3 * g + 2) \in Byte
    BY <1>2, SMT
  <2>2. GroupAt(buff, g) \in Nat /\ GroupAt(buff, g) < 16777216
    BY <2>1, Octets, SMT DEF GroupAt
  <2>3. 2^24 = 16777216
    BY SMT
  <2>4. Sextet(GroupAt(buff, g), k) \in Digit
    BY <2>2, <2>3, Sextets, SMT
  <2>5. Sextet(GroupAt(buff, g), k) # Pad
    BY <2>4, SMT DEF Digit, Pad
  <2> QED
    BY <1>1, <1>4, <2>5, SMT DEF Read
<1> QED
  BY <1>3, <1>4, SMT

(* A reader of the text gets the block back. *)
LEMMA DecodesBlock ==
  ASSUME NEW buff \in Buffer
  PROVE  Decode(Base64(buff)) = buff
<1> DEFINE text == Base64(buff)
<1>1. ASSUME NEW i \in 0..33
      PROVE  Decode(text)[i] = buff[i]
  <2> DEFINE g == i \div 3
             j == i % 3
             v == GroupAt(buff, g)
  <2>1. g \in 0..11 /\ j \in 0..2 /\ i = 3 * g + j
    BY SMT
  <2> HIDE DEF g, j
  <2>2. Decode(text)[i]
          = ((2^18 * Read(text, 4 * g + 0) + 2^12 * Read(text, 4 * g + 1)
               + 2^6 * Read(text, 4 * g + 2) + Read(text, 4 * g + 3)) \div 256^(2 - j)) % 256
    BY SMT DEF Decode, Read, g, j
  <2>3. /\ Read(text, 4 * g + 0) = Sextet(v, 0) /\ Read(text, 4 * g + 1) = Sextet(v, 1)
        /\ Read(text, 4 * g + 2) = Sextet(v, 2) /\ Read(text, 4 * g + 3) = Sextet(v, 3)
    BY <2>1, ReadsDigit, SMT
  <2>4. /\ ByteAt(buff, 3 * g + 0) \in Byte /\ ByteAt(buff, 3 * g + 1) \in Byte
        /\ ByteAt(buff, 3 * g + 2) \in Byte
    BY <2>1, SMT DEF ByteAt, Buffer, Byte
  <2>5. /\ v \in Nat /\ v < 16777216
        /\ (v \div 65536) % 256 = ByteAt(buff, 3 * g + 0)
        /\ (v \div 256) % 256 = ByteAt(buff, 3 * g + 1)
        /\ (v \div 1) % 256 = ByteAt(buff, 3 * g + 2)
    BY <2>4, Octets, SMT DEF GroupAt
  <2> HIDE DEF v, text
  <2>6. 2^18 * Sextet(v, 0) + 2^12 * Sextet(v, 1) + 2^6 * Sextet(v, 2) + Sextet(v, 3) = v
    <3>1. 2^24 = 16777216 /\ 2^18 = 262144 /\ 2^12 = 4096 /\ 2^6 = 64
      BY SMT
    <3>2. Digits(Sextet(v, 0), Sextet(v, 1), Sextet(v, 2), Sextet(v, 3)) = v
      BY <2>5, <3>1, Sextets, SMT
    <3> QED
      BY <3>1, <3>2, SMT DEF Digits
  <2>7. Decode(text)[i] = (v \div 256^(2 - j)) % 256
    BY <2>2, <2>3, <2>6, SMT
  <2>8. 256^2 = 65536 /\ 256^1 = 256 /\ 256^0 = 1
    BY SMT
  <2>9. ByteAt(buff, i) = buff[i]
    BY SMT DEF ByteAt
  <2>10. CASE j = 0
    BY <2>1, <2>5, <2>7, <2>8, <2>9, <2>10, SMT
  <2>11. CASE j = 1
    BY <2>1, <2>5, <2>7, <2>8, <2>9, <2>11, SMT
  <2>12. CASE j = 2
    BY <2>1, <2>5, <2>7, <2>8, <2>9, <2>12, SMT
  <2> QED
    BY <2>1, <2>10, <2>11, <2>12, SMT
<1>2. Decode(text) = [i \in 0..33 |-> Decode(text)[i]]
  BY SMT DEF Decode
<1>3. buff = [i \in 0..33 |-> buff[i]]
  BY SMT DEF Buffer
<1> HIDE DEF text
<1>4. Decode(text) = buff
  BY <1>1, <1>2, <1>3, SMT
<1> QED
  BY <1>4, SMT DEF text

(* Two characters of padding, at the end. *)
LEMMA PadsOfBlock ==
  ASSUME NEW buff \in Buffer
  PROVE  {i \in 0..47 : Base64(buff)[i] = Pad} = {46, 47}
<1>1. ASSUME NEW i \in 0..47
      PROVE  Base64(buff)[i] = Pad <=> i \in {46, 47}
  <2> DEFINE g == i \div 4
             k == i % 4
  <2>1. g \in 0..11 /\ k \in 0..3 /\ i = 4 * g + k
    BY SMT
  <2> HIDE DEF g, k
  <2>2. Base64(buff)[i] = IF g = 11 /\ k >= 2 THEN Pad ELSE Sextet(GroupAt(buff, g), k)
    BY <2>1, TextAt, SMT
  <2>3. GroupAt(buff, g) \in Nat /\ GroupAt(buff, g) < 2^24
    <3>1. /\ ByteAt(buff, 3 * g + 0) \in Byte /\ ByteAt(buff, 3 * g + 1) \in Byte
          /\ ByteAt(buff, 3 * g + 2) \in Byte
      BY <2>1, SMT DEF ByteAt, Buffer, Byte
    <3>2. 2^24 = 16777216
      BY SMT
    <3> QED
      BY <3>1, <3>2, Octets, SMT DEF GroupAt
  <2>4. Sextet(GroupAt(buff, g), k) # Pad
    <3>1. Sextet(GroupAt(buff, g), k) \in Digit
      BY <2>1, <2>3, Sextets, SMT
    <3> QED
      BY <3>1, SMT DEF Digit, Pad
  <2>5. g = 11 /\ k >= 2 <=> i \in {46, 47}
    BY <2>1, SMT
  <2> QED
    BY <2>2, <2>4, <2>5, SMT
<1>2. 46 \in 0..47 /\ 47 \in 0..47
  BY SMT
<1> QED
  BY <1>1, <1>2, SMT

-----------------------------------------------------------------------------
(* What is on standard output is what the struct was turned into. *)
Printed == phase = "written" => printed = IF doraw THEN p ELSE Base64(p)

LEMMA InitPrinted ==
  Init => Printed
BY DEF Init, Printed

LEMMA NextPrinted ==
  Printed /\ [Next]_vars => Printed'
<1> SUFFICES ASSUME Printed, [Next]_vars
             PROVE  Printed'
  OBVIOUS
<1>1. CASE Finish
  BY <1>1 DEF Finish, Fail, Refuse, Printed, locals
<1>2. CASE Usage
  BY <1>2 DEF Usage, Printed
<1>3. CASE Invalid
  BY <1>3 DEF Invalid, Fail, Refuse, Printed
<1>4. CASE OptR \/ OptE
  BY <1>4 DEF OptR, OptE, Continue, Printed
<1>5. CASE OptM
  BY <1>5 DEF OptM, Refuse, Continue, Printed
<1>6. CASE OptB \/ OptC \/ OptCore
  BY <1>6 DEF OptB, OptC, OptCore, Fail, Refuse, Continue, Printed
<1>7. CASE OptN \/ OptD
  BY <1>7 DEF OptN, OptD, Fail, Refuse, Continue, Printed
<1>8. CASE UNCHANGED vars
  BY <1>8 DEF vars, locals, Printed
<1> QED
  BY <1>1, <1>2, <1>3, <1>4, <1>5, <1>6, <1>7, <1>8 DEF Next

(* A struct that is printed so is read back as it is. *)
LEMMA PrintedGivesBlock ==
  p \in Buffer /\ Printed => PrintsBlock
<1> SUFFICES ASSUME p \in Buffer, Printed, phase = "written"
             PROVE  IF doraw THEN printed = p
                    ELSE Decode(printed) = p /\ {i \in 0..47 : printed[i] = Pad} = {46, 47}
  BY DEF PrintsBlock
<1>1. Decode(Base64(p)) = p /\ {i \in 0..47 : Base64(p)[i] = Pad} = {46, 47}
  BY DecodesBlock, PadsOfBlock, SMT
<1>2. printed = IF doraw THEN p ELSE Base64(p)
  BY DEF Printed
<1>3. CASE doraw
  BY <1>2, <1>3, SMT
<1>4. CASE ~doraw
  <2>1. printed = Base64(p)
    BY <1>2, <1>4, SMT
  <2> QED
    BY <1>1, <1>4, <2>1, SMT
<1> QED
  BY <1>3, <1>4

-----------------------------------------------------------------------------
(* Type correctness, for all options. *)
THEOREM MakeCsiParamsTypeCorrect == Spec => []TypeOK
<1>1. BlockInv => TypeOK
  BY DEF BlockInv
<1> QED
  BY <1>1, InitBlock, NextBlock, PTL DEF Spec

(* From the struct that is written the firmware reads, in the layout of    *)
(* csi_params, every parameter that was given, for all options.            *)
THEOREM FirmwareReadsAlways == Spec => []FirmwareReads
BY InitBlock, NextBlock, BlockGivesReads, PTL DEF Spec

(* makecsiparams and the app agree: in whatever order and however often    *)
(* options are given, whatever their arguments, the struct that is written *)
(* is the one CsiConf.toBase64 packs for the same parameters, and what the *)
(* app cannot pack is refused.                                             *)
THEOREM SameBlockAlways == Spec => []SameBlock
<1>1. Spec => []BlockInv
  BY InitBlock, NextBlock, PTL DEF Spec
<1> QED
  BY <1>1, BlockGivesSame, PTL

(* What makecsiparams leaves on standard output is the struct: raw with    *)
(* -r, and otherwise a base64 text from which a reader gets every byte     *)
(* back, its last two characters padding (makecsiparams:254-283).          *)
THEOREM PrintsBlockAlways == Spec => []PrintsBlock
<1>1. BlockInv => p \in Buffer
  BY DEF BlockInv, TypeOK
<1> QED
  BY <1>1, InitBlock, NextBlock, InitPrinted, NextPrinted, PrintedGivesBlock, PTL DEF Spec
=============================================================================
