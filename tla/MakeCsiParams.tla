--------------------------- MODULE MakeCsiParams ----------------------------
(***************************************************************************)
(* makecsiparams: main, option by option.  The options come in any order   *)
(* and any number; what they ask for is kept as the CsiConf of the app.    *)
(***************************************************************************)
EXTENDS CsiBlock

CONSTANTS
    Enables, CoreMasks, NssMasks, FirstBytes, Delays,   \* numbers a user may enter
    ChanspecCodes,   \* what the chanspec texts stand for, 0 for an error
    MacLists         \* the address lists a user may enter

NotGiven == -1

ASSUME MakeCsiParamsAssumption ==
    /\ Enables \subseteq {0, 1}
    /\ CoreMasks \subseteq Int /\ NssMasks \subseteq Int
    /\ FirstBytes \subseteq Int /\ Delays \subseteq Int
    /\ ChanspecCodes \subseteq Code
    /\ \A macs \in MacLists : macs \in MacList

VARIABLES
    phase,       \* "options", "written", "usage" or "failed"
    p,           \* the struct, as its bytes
    enable, coremask, nssmask, nmac, chanspec, force_delay, doraw,
    printed,     \* what has been written to standard output
    asked        \* the CsiConf the options amount to; its delay may be NotGiven

locals == <<enable, coremask, nssmask, nmac, chanspec, force_delay, doraw>>
vars == <<phase, p, locals, printed, asked>>

MAX_MAC_ADDRESS == 4
DEFAULT_DELAY_US == 50

Init ==
    /\ phase = "options"
    /\ p = Zero
    /\ enable = 1 /\ coremask = 0 /\ nssmask = 0 /\ nmac = 0 /\ chanspec = 0
    /\ force_delay = 0 /\ doraw = FALSE
    /\ printed = <<>>
    /\ asked = [chanspec |-> 0, csiCollect |-> TRUE, nssMask |-> 0, coreMask |-> 0,
                usePktFilter |-> FALSE, firstPktByte |-> 0, cmpSrcMacs |-> <<>>,
                delay |-> NotGiven]

-----------------------------------------------------------------------------
(* Buffers *)

(* The bytes of a sequence at an offset. *)
Put(buff, at, bytes) ==
    [i \in 0..33 |-> IF i - at + 1 \in 1..Len(bytes) THEN bytes[i - at + 1] ELSE buff[i]]

(* Mutant of Word16: the high byte first. *)
Word16Swapped(x) == <<Hi(x), Lo(x)>>

(* st16le *)
Word16(x) == <<Lo(x), Hi(x)>>

(* The addresses of a list, after those there are. *)
PutMacs(buff, n, macs) ==
    [i \in 0..33 |->
        LET m == (i - 8) \div 6 + 1 - n
        IN  IF i >= 8 /\ m \in 1..Len(macs) THEN macs[m][((i - 8) % 6) + 1] ELSE buff[i]]

CountBit(mask) == Cardinality({i \in 0..3 : (mask \div 2^i) % 2 = 1})

Pad == 64

(* Mutant of Base64: the bits of the last group are counted one byte short. *)
Base64Short(buff) ==
    [i \in 0..47 |->
        LET jj   == 3 * (i \div 4)
            kk   == 6 * (i % 4)
            bits == IF 34 - jj >= 3 THEN 24 ELSE 8 * (33 - jj)
            byte(k) == IF jj + k <= 33 THEN buff[jj + k] ELSE 0
            val  == 65536 * byte(0) + 256 * byte(1) + byte(2)
        IN  IF kk > bits THEN Pad ELSE (val \div 2^(18 - kk)) % 64]

(* The base64 loop: 24 bits at a time, '=' for what the last bytes lack. *)
Base64(buff) ==
    [i \in 0..47 |->
        LET jj   == 3 * (i \div 4)
            kk   == 6 * (i % 4)
            bits == IF 34 - jj >= 3 THEN 24 ELSE 8 * (34 - jj)
            byte(k) == IF jj + k <= 33 THEN buff[jj + k] ELSE 0
            val  == 65536 * byte(0) + 256 * byte(1) + byte(2)
        IN  IF kk > bits THEN Pad ELSE (val \div 2^(18 - kk)) % 64]

(* What a base64 reader gets back. *)
Decode(text) ==
    [i \in 0..33 |->
        LET digit(k) == LET d == text[4 * (i \div 3) + k] IN IF d = Pad THEN 0 ELSE d
            val == 2^18 * digit(0) + 2^12 * digit(1) + 2^6 * digit(2) + digit(3)
        IN  (val \div 256^(2 - (i % 3))) % 256]

-----------------------------------------------------------------------------
(* The options *)

Continue == phase = "options" /\ UNCHANGED <<phase, printed>>

(* finish_error.  What the failing option had already written is not read  *)
(* again.                                                                  *)
Refuse ==
    /\ phase = "options"
    /\ phase' = "failed"
    /\ UNCHANGED <<p, locals, printed>>

Fail == Refuse /\ UNCHANGED asked

(* -h, or no argument at all *)
Usage ==
    /\ phase = "options"
    /\ phase' = "usage"
    /\ UNCHANGED <<p, locals, printed, asked>>

(* An option that is unknown, or an argument that is no number.  *)
Invalid == Fail

OptR ==
    /\ Continue
    /\ doraw' = TRUE
    /\ UNCHANGED <<p, enable, coremask, nssmask, nmac, chanspec, force_delay, asked>>

OptE ==
    /\ Continue
    /\ \E v \in Enables :
         /\ enable' = v
         /\ asked' = [asked EXCEPT !.csiCollect = (v # 0)]
    /\ UNCHANGED <<p, coremask, nssmask, nmac, chanspec, force_delay, doraw>>

(* Mutant of OptM: the limit holds for each option, not for all of them. *)
OptMPerOption ==
    \E macs \in MacLists :
        \/ /\ BadAt(macs) # {} \/ Len(macs) > MAX_MAC_ADDRESS
           /\ Refuse
           /\ asked' = [asked EXCEPT !.cmpSrcMacs = @ \o macs]
        \/ /\ Continue
           /\ BadAt(macs) = {} /\ Len(macs) <= MAX_MAC_ADDRESS
           /\ nmac' = nmac + Len(macs)
           /\ p' = IF macs = <<>> THEN p ELSE Put(PutMacs(p, nmac, macs), 6, Word16(nmac'))
           /\ asked' = [asked EXCEPT !.cmpSrcMacs = @ \o macs]
           /\ UNCHANGED <<enable, coremask, nssmask, chanspec, force_delay, doraw>>

(* -m: the addresses are appended; one that is malformed, or the fifth in  *)
(* all, fails.                                                             *)
OptM ==
    \E macs \in MacLists :
        \/ /\ BadAt(macs) # {} \/ nmac + Len(macs) > MAX_MAC_ADDRESS
           /\ Refuse
           /\ asked' = [asked EXCEPT !.cmpSrcMacs = @ \o macs]
        \/ /\ Continue
           /\ BadAt(macs) = {} /\ nmac + Len(macs) <= MAX_MAC_ADDRESS
           /\ nmac' = nmac + Len(macs)
           /\ p' = IF macs = <<>> THEN p ELSE Put(PutMacs(p, nmac, macs), 6, Word16(nmac'))
           /\ asked' = [asked EXCEPT !.cmpSrcMacs = @ \o macs]
           /\ UNCHANGED <<enable, coremask, nssmask, chanspec, force_delay, doraw>>

OptB ==
    \E byte \in FirstBytes :
        \/ byte \notin 0..255 /\ Fail
        \/ /\ Continue
           /\ byte \in 0..255
           /\ p' = Put(p, 4, <<1, byte>>)
           /\ asked' = [asked EXCEPT !.usePktFilter = TRUE, !.firstPktByte = byte]
           /\ UNCHANGED locals

OptC ==
    \E c \in ChanspecCodes :
        \/ c = 0 /\ Fail
        \/ /\ Continue
           /\ c # 0
           /\ chanspec' = c
           /\ p' = Put(p, 0, Word16(c))
           /\ asked' = [asked EXCEPT !.chanspec = c]
           /\ UNCHANGED <<enable, coremask, nssmask, nmac, force_delay, doraw>>

(* Mutant of OptCore: the streams are cleared. *)
OptCoreClears ==
    \E mask \in CoreMasks :
        \/ mask \notin 0..15 /\ Fail
        \/ /\ Continue
           /\ mask \in 0..15
           /\ coremask' = mask
           /\ p' = Put(p, 3, <<mask>>)
           /\ asked' = [asked EXCEPT !.coreMask = mask]
           /\ UNCHANGED <<enable, nssmask, nmac, chanspec, force_delay, doraw>>

(* -C: the low half of core_nss_mask. *)
OptCore ==
    \E mask \in CoreMasks :
        \/ mask \notin 0..15 /\ Fail
        \/ /\ Continue
           /\ mask \in 0..15
           /\ coremask' = mask
           /\ p' = Put(p, 3, <<16 * (p[3] \div 16) + mask>>)
           /\ asked' = [asked EXCEPT !.coreMask = mask]
           /\ UNCHANGED <<enable, nssmask, nmac, chanspec, force_delay, doraw>>

(* -N: the high half. *)
OptN ==
    \E mask \in NssMasks :
        \/ mask \notin 0..15 /\ Fail
        \/ /\ Continue
           /\ mask \in 0..15
           /\ nssmask' = mask
           /\ p' = Put(p, 3, <<16 * mask + (p[3] % 16)>>)
           /\ asked' = [asked EXCEPT !.nssMask = mask]
           /\ UNCHANGED <<enable, coremask, nmac, chanspec, force_delay, doraw>>

OptD ==
    \E delay \in Delays :
        \/ delay < 0 /\ Fail
        \/ /\ Continue
           /\ delay >= 0
           /\ force_delay' = 1
           /\ p' = Put(p, 32, Word16(delay))
           /\ asked' = [asked EXCEPT !.delay = delay]
           /\ UNCHANGED <<enable, coremask, nssmask, nmac, chanspec, doraw>>

Incomplete == enable # 0 /\ (chanspec = 0 \/ nssmask = 0 \/ coremask = 0)

(* The default delay, for as many captures as need one. *)
Finished(buff) ==
    IF force_delay = 0 /\ CountBit(nssmask) * CountBit(coremask) >= 12
    THEN Put(buff, 32, Word16(DEFAULT_DELAY_US)) ELSE buff

(* After the last option *)
Finish ==
    \/ Incomplete /\ Fail
    \/ /\ phase = "options"
       /\ ~Incomplete
       /\ phase' = "written"
       /\ p' = Finished(Put(p, 2, <<Lo(enable)>>))
       /\ printed' = IF doraw THEN p' ELSE Base64(p')
       /\ UNCHANGED <<locals, asked>>

Next ==
    \/ Usage \/ Invalid \/ Finish
    \/ OptR \/ OptE \/ OptM \/ OptB \/ OptC \/ OptCore \/ OptN \/ OptD

Spec == Init /\ [][Next]_vars

-----------------------------------------------------------------------------
(* Properties *)

TypeOK ==
    /\ phase \in {"options", "written", "usage", "failed"}
    /\ p \in Buffer
    /\ enable \in {0, 1} /\ coremask \in Mask /\ nssmask \in Mask
    /\ nmac \in 0..MAX_MAC_ADDRESS
    /\ chanspec \in Code
    /\ force_delay \in {0, 1} /\ doraw \in BOOLEAN
    /\ asked \in CsiConf

(* The usage text: a delay is "really needed for 3x4, 4x3 and 4x4          *)
(* configurations, without it is enforced automatically".                  *)
Wanted ==
    LET captures == <<CountBit(asked.nssMask), CountBit(asked.coreMask)>>
    IN  [asked EXCEPT !.delay =
            IF @ # NotGiven THEN @
            ELSE IF captures \in {<<3, 4>>, <<4, 3>>, <<4, 4>>} THEN DEFAULT_DELAY_US ELSE 0]

(* In whatever order and however often options are given, the bytes of the *)
(* struct are those the app packs for the same parameters; addresses the   *)
(* app cannot pack are refused (makecsiparams:125-252, CsiConf:80-107).    *)
SameBlock ==
    /\ phase = "written" => ToBase64(Wanted) = [status |-> "block", buff |-> p]
    /\ ToBase64(asked).status # "block" => phase = "failed"

(* From the struct, byte by byte in the layout of csi_params, the firmware *)
(* reads the parameters that were given (makecsiparams:44-64, 125-252).    *)
FirmwareReads ==
    phase = "written" =>
        LET params == Unpack(p)
            macs == asked.cmpSrcMacs
        IN  /\ params.chanspec = asked.chanspec
            /\ params.csi_collect = Flag(asked.csiCollect)
            /\ params.core_nss_mask = 16 * asked.nssMask + asked.coreMask
            /\ params.use_pkt_filter = Flag(asked.usePktFilter)
            /\ params.first_pkt_byte = asked.firstPktByte
            /\ params.n_mac_addr = Len(macs)
            /\ \A m \in 1..Len(macs) : m \in 1..4 /\ params.cmp_src_mac[m] = macs[m]
            /\ asked.delay # NotGiven => params.delay = asked.delay % 65536

(* What is printed is the struct, raw or as base64 of 48 characters of     *)
(* which the last two are padding (makecsiparams:254-283).                 *)
PrintsBlock ==
    phase = "written" =>
        IF doraw THEN printed = p
        ELSE Decode(printed) = p /\ {i \in 0..47 : printed[i] = Pad} = {46, 47}
=============================================================================
