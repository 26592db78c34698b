--------------------------- MODULE FilterCompiler ---------------------------
(***************************************************************************)
(* pcap_compile(), as csiutil calls it (no optimizer): the parser's        *)
(* actions on a stack of subexpressions, each a block of the flow graph,   *)
(* and the loop that turns the finished graph into BPF code.               *)
(*                                                                         *)
(* With every subexpression goes `says`, the text it was parsed from: what *)
(* the code must do is said of that text and of a packet's fields.         *)
(***************************************************************************)
EXTENDS FilterTerms, FiniteSets

CONSTANTS
    Terms,      \* the primitives an expression is made of
    Rare,       \* those of them that count for two
    MaxTerms,   \* bound: primitives in an expression
    MaxNots,    \* bound: negations in an expression
    Packets,    \* the packets the compiled filter is tried on
    SnapLen     \* what an accepting filter returns

ASSUME FilterAssumption ==
    /\ Rare \subseteq Terms
    /\ MaxTerms \in Nat
    /\ MaxNots \in Nat
    /\ SnapLen \in Nat \ {0}

VARIABLES
    blk,     \* the heap of blocks
    stack,   \* the parser's subexpressions, the last one on top
    used,    \* how many primitives and negations it has seen
    phase,   \* "parse", "convert", "done"
    root,    \* the block the filter starts with
    rounds,  \* how often icode_to_fcode has been round its loop
    fcode    \* the BPF program

vars == <<blk, stack, used, phase, root, rounds, fcode>>

Init ==
    /\ blk = << >>
    /\ stack = << >>
    /\ used = [terms |-> 0, nots |-> 0]
    /\ phase = "parse"
    /\ root = 0
    /\ rounds = 0
    /\ fcode = << >>

-----------------------------------------------------------------------------
(* The parser (grammar.y) *)

Top == stack[Len(stack)]
Second == stack[Len(stack) - 1]
Below(n) == SubSeq(stack, 1, Len(stack) - n)

Weight(t) == IF t \in Rare THEN 2 ELSE 1

(* A primitive: its tests are generated and wait on the stack. *)
Term(t) ==
    /\ phase = "parse"
    /\ used.terms + Weight(t) <= MaxTerms
    /\ LET g == Gen(blk, GenTerm(t)) IN
         /\ blk' = g.blk
         /\ stack' = Append(stack, [b |-> g.b, says |-> t])
    /\ used' = [used EXCEPT !.terms = @ + Weight(t)]
    /\ UNCHANGED <<phase, root, rounds, fcode>>

Negate ==
    /\ phase = "parse"
    /\ Len(stack) > 0
    /\ used.nots < MaxNots
    /\ blk' = GenNot(blk, Top.b)
    /\ stack' = Append(Below(1), [Top EXCEPT !.says = [prim |-> "not", of |-> @]])
    /\ used' = [used EXCEPT !.nots = @ + 1]
    /\ UNCHANGED <<phase, root, rounds, fcode>>

(* `expr and term', `expr or term': equal in precedence, grouped from the  *)
(* left; parentheses give every other shape.                               *)
Join(word, graph) ==
    /\ phase = "parse"
    /\ Len(stack) > 1
    /\ blk' = graph
    /\ stack' = Append(Below(2),
            [b |-> Top.b,
             says |-> [prim |-> word, left |-> Second.says, right |-> Top.says]])
    /\ UNCHANGED <<used, phase, root, rounds, fcode>>

Conjoin == Join("and", GenAnd(blk, Second.b, Top.b))
Disjoin == Join("or", GenOr(blk, Second.b, Top.b))

(* prog: an expression, or nothing at all, which accepts every packet. *)
Parsed ==
    /\ phase = "parse"
    /\ Len(stack) <= 1
    /\ IF stack = << >>
       THEN blk' = GenRetBlk(blk, SnapLen) /\ root' = 1
       ELSE blk' = FinishParse(blk, Top.b, SnapLen) /\ root' = blk[Top.b].head
    /\ phase' = "convert"
    /\ UNCHANGED <<stack, used, rounds, fcode>>

-----------------------------------------------------------------------------
(* icode_to_fcode *)

Convert ==
    /\ phase = "convert"
    /\ LET try == ConvertTry(blk, root) IN
         /\ blk' = try.blk
         /\ IF try.ok THEN phase' = "done" /\ fcode' = try.code
                      ELSE UNCHANGED <<phase, fcode>>
    /\ rounds' = rounds + 1
    /\ UNCHANGED <<stack, used, root>>

Next ==
    \/ \E t \in Terms : Term(t)
    \/ Negate
    \/ Conjoin
    \/ Disjoin
    \/ Parsed
    \/ Convert

Spec == Init /\ [][Next]_vars

-----------------------------------------------------------------------------
(* What a filter says of a packet, from the packet's own fields: "yes",    *)
(* "no", or "short" when it asks for a byte the packet does not have,      *)
(* which rejects the packet whatever else the expression says.             *)

Says3(holds) == IF holds THEN "yes" ELSE "no"

(* The fields a primitive compares, first to last, until one decides. *)
FirstOf(p, dir, srcAt, dstAt, size, matches(_)) ==
    LET src == matches(srcAt)
        dst == matches(dstAt)
    IN  CASE dir = "src" -> IF Holds(p, srcAt, size) THEN Says3(src) ELSE "short"
          [] dir = "dst" -> IF Holds(p, dstAt, size) THEN Says3(dst) ELSE "short"
          [] OTHER ->
               IF ~Holds(p, srcAt, size) THEN "short"
               ELSE IF src = (dir = "or") THEN Says3(src)
               ELSE IF ~Holds(p, dstAt, size) THEN "short" ELSE Says3(dst)

PortSays(t, p) ==
    LET type   == Half(p, 12)
        protos == IF t.proto = 0 THEN {IPPROTO_TCP, IPPROTO_UDP, IPPROTO_SCTP}
                                 ELSE {t.proto}
        tran   == IF type = ETHERTYPE_IP THEN 14 + 4 * (Byte(p, 14) % 16) ELSE 54
        within(at) == /\ Half(p, at) >= (IF t.lo > t.hi THEN t.hi ELSE t.lo)
                      /\ Half(p, at) <= (IF t.lo > t.hi THEN t.lo ELSE t.hi)
        ports  == FirstOf(p, t.dir, tran, tran + 2, 2, within)
    IN  IF ~Holds(p, 12, 2) THEN "short"
        ELSE IF type = ETHERTYPE_IPV6
        THEN IF ~Holds(p, 20, 1) THEN "short"
             ELSE IF Byte(p, 20) \in protos THEN ports ELSE "no"
        ELSE IF type # ETHERTYPE_IP THEN "no"
        ELSE IF ~Holds(p, 23, 1) THEN "short"
        ELSE IF Byte(p, 23) \in protos /\ Half(p, 20) % 8192 = 0 THEN ports ELSE "no"

HostSays(t, p) ==
    LET type == Half(p, 12)
        is(at) == Bytes(p, at, 4) = t.addr
    IN  IF ~Holds(p, 12, 2) THEN "short"
        ELSE IF type = ETHERTYPE_IP THEN FirstOf(p, t.dir, 26, 30, 4, is)
        ELSE IF type \in {ETHERTYPE_ARP, ETHERTYPE_REVARP}
        THEN FirstOf(p, t.dir, 28, 38, 4, is) ELSE "no"

(* Of an address the last four bytes are compared first. *)
EtherSays(t, p) ==
    LET is(at) == Bytes(p, at - 2, 6) = t.addr IN FirstOf(p, t.dir, 8, 2, 4, is)

(* The protocol of a packet: of an IPv6 fragment the one in the fragment   *)
(* header, if that comes first.                                            *)
ProtoSays(t, p) ==
    LET says(at) == IF Holds(p, at, 1) THEN Says3(Byte(p, at) = t.proto) ELSE "short"
        fragment == Holds(p, 20, 1) /\ Byte(p, 20) = IPPROTO_FRAGMENT
    IN  IF ~Holds(p, 12, 2) THEN "short"
        ELSE CASE Half(p, 12) = ETHERTYPE_IP -> says(23)
               [] Half(p, 12) = ETHERTYPE_IPV6 -> says(IF fragment THEN 54 ELSE 20)
               [] OTHER -> "no"

ByteSays(t, p) ==
    LET byte == Byte(p, t.index) IN
    IF ~Holds(p, t.index, 1) THEN "short"
    ELSE Says3(CASE t.op = "=" -> byte = t.v
                 [] t.op = "<" -> byte < t.v
                 [] t.op = ">" -> byte > t.v
                 [] t.op = "&" -> (byte & t.v) # 0
                 [] t.op = "|" -> (byte | t.v) # 0)

RECURSIVE Says(_, _)
Says(t, p) ==
    CASE t.prim = "not" ->
           LET of == Says(t.of, p) IN
           IF of = "yes" THEN "no" ELSE IF of = "no" THEN "yes" ELSE "short"
      [] t.prim = "and" ->
           LET left == Says(t.left, p) IN
           IF left = "yes" THEN Says(t.right, p) ELSE left
      [] t.prim = "or" ->
           LET left == Says(t.left, p) IN
           IF left = "no" THEN Says(t.right, p) ELSE left
      [] t.prim \in {"port", "portrange"} -> PortSays(t, p)
      [] t.prim = "ether" -> EtherSays(t, p)
      [] t.prim = "host" -> HostSays(t, p)
      [] t.prim = "proto" -> ProtoSays(t, p)
      [] t.prim = "byte" -> ByteSays(t, p)
      [] t.prim = "type" ->
           IF Holds(p, 12, 2) THEN Says3(Half(p, 12) = t.type) ELSE "short"
      [] t.prim = "less" -> Says3(p.wirelen <= t.n)
      [] t.prim = "greater" -> Says3(p.wirelen >= t.n)
      [] t.prim = "broadcast" ->
           IF Holds(p, 2, 4) THEN Says3(Bytes(p, 0, 6) = [i \in 1..6 |-> 255])
                             ELSE "short"
      [] t.prim = "multicast" ->
           IF Holds(p, 0, 1) THEN Says3(Byte(p, 0) % 2 = 1) ELSE "short"

FilterSays(p) == IF stack = << >> THEN "yes" ELSE Says(Top.says, p)

-----------------------------------------------------------------------------
(* Properties *)

(* The program pcap_compile returns is one bpf_validate and the kernel     *)
(* take, and it accepts exactly the packets the text of the filter         *)
(* describes, however its parts were nested, negated and spread over       *)
(* jumps too long for a byte (gencode.c:562-670, optimize.c:1984-2203).    *)
CodeMeans ==
    phase = "done" =>
      /\ Validate(fcode)
      /\ \A p \in Packets :
           BpfFilter(fcode, p) = IF FilterSays(p) = "yes" THEN SnapLen ELSE 0

LongJumps ==
    {b \in 1..Len(blk) : blk[b].longjt} \X {"jt"}
      \cup {b \in 1..Len(blk) : blk[b].longjf} \X {"jf"}

(* A round of icode_to_fcode that fails has found exactly one more jump    *)
(* that needs room, and the last round none: the loop ends after at most   *)
(* one round per jump and never grows the program more than it has to      *)
(* (optimize.c:2097-2135, 2178-2203).                                      *)
EveryRoundCounts ==
    rounds = Cardinality(LongJumps) + (IF phase = "done" THEN 1 ELSE 0)
=============================================================================
