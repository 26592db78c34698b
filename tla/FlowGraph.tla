----------------------------- MODULE FlowGraph -----------------------------
(***************************************************************************)
(* The flow graph that libpcap's filter compiler builds (gencode.c) and    *)
(* the array of BPF instructions it turns it into (optimize.c).            *)
(*                                                                         *)
(* A heap is a sequence of blocks and a pointer its index, 0 for NULL.     *)
(* While an expression is being parsed a block has one exit resolved and   *)
(* the other used as the link of a list of blocks still to be resolved;    *)
(* `sense` says which, and flipping it negates the expression.             *)
(***************************************************************************)
EXTENDS Integers, Sequences, Functions

CONSTANT LongOffset   \* 256: an offset a jump's u_char does not hold

ASSUME LongOffsetAssumption == LongOffset \in Nat \ {0, 1}

Insn(op, size, k) == [op |-> op, size |-> size, k |-> k, jt |-> 0, jf |-> 0]

NewBlock(h, stmts, op, k) ==
    Append(h, [stmts |-> stmts, op |-> op, k |-> k, jt |-> 0, jf |-> 0,
               sense |-> FALSE, head |-> Len(h) + 1,
               longjt |-> FALSE, longjf |-> FALSE])

GenRetBlk(h, v) == NewBlock(h, << >>, "ret", v)

-----------------------------------------------------------------------------
(* Lists of unresolved exits *)

Link(h, b) == IF h[b].sense THEN h[b].jf ELSE h[b].jt

SetLink(h, b, to) ==
    IF h[b].sense THEN [h EXCEPT ![b].jf = to] ELSE [h EXCEPT ![b].jt = to]

RECURSIVE Backpatch(_, _, _)
Backpatch(h, list, target) ==
    IF list = 0 THEN h
    ELSE Backpatch(SetLink(h, list, target), Link(h, list), target)

RECURSIVE LastOf(_, _)
LastOf(h, b) == IF Link(h, b) = 0 THEN b ELSE LastOf(h, Link(h, b))

Merge(h, b0, b1) == SetLink(h, LastOf(h, b0), b1)

Flip(h, b) == [h EXCEPT ![b].sense = ~@]

GenNot(h, b) == Flip(h, b)

(* Mutant of GenAnd: the result starts with the second test. *)
GenAndLateHead(h, b0, b1) ==
    LET patched == Flip(Flip(Backpatch(h, b0, h[b1].head), b0), b1)
    IN  Flip(Merge(patched, b1, b0), b1)

(* Both leave the result in b1: its head is b0's, its list has all exits.  *)
GenAnd(h, b0, b1) ==
    LET patched == Flip(Flip(Backpatch(h, b0, h[b1].head), b0), b1)
        merged  == Flip(Merge(patched, b1, b0), b1)
    IN  [merged EXCEPT ![b1].head = h[b0].head]

GenOr(h, b0, b1) ==
    LET patched == Flip(Backpatch(Flip(h, b0), b0, h[b1].head), b0)
    IN  [Merge(patched, b1, b0) EXCEPT ![b1].head = h[b0].head]

(* The true list to `return snaplen`, the false list to `return 0`. *)
FinishParse(h, p, snaplen) ==
    LET accept == Backpatch(GenRetBlk(h, snaplen), p, Len(h) + 1)
    IN  Backpatch(GenRetBlk(Flip(accept, p), 0), p, Len(h) + 2)

-----------------------------------------------------------------------------
(* The code generators of gencode.c are trees of gen_and, gen_or and       *)
(* gen_not calls over single tests; Gen makes those calls on a heap.       *)

Test(stmts, op, k) == [kind |-> "test", stmts |-> stmts, op |-> op, k |-> k]
AndOf(t0, t1) == [kind |-> "and", t0 |-> t0, t1 |-> t1]
OrOf(t0, t1) == [kind |-> "or", t0 |-> t0, t1 |-> t1]
NotOf(t) == [kind |-> "not", t0 |-> t]

RECURSIVE Gen(_, _)
Gen(h, t) ==
    IF t.kind = "test"
    THEN [blk |-> NewBlock(h, t.stmts, t.op, t.k), b |-> Len(h) + 1]
    ELSE LET g0 == Gen(h, t.t0) IN
         IF t.kind = "not" THEN [g0 EXCEPT !.blk = GenNot(@, g0.b)]
         ELSE LET g1 == Gen(g0.blk, t.t1) IN
              [g1 EXCEPT !.blk = IF t.kind = "and" THEN GenAnd(@, g0.b, g1.b)
                                                   ELSE GenOr(@, g0.b, g1.b)]

-----------------------------------------------------------------------------
(* icode_to_fcode.  The array is filled from its end, so what has been     *)
(* written so far is the tail of the program: `code`.  start[b] is the     *)
(* distance from b's first instruction to the end of the array.            *)

ZeroInsn == Insn("ld imm", 0, 0)

(* The jump at the end of block p and the extra long jumps after it. *)
Jump(p, offT, offF) ==
    LET longT == offT >= LongOffset
        longF == offF >= LongOffset
        first == IF longT THEN 1 ELSE 0
        jump  == [Insn(p.op, 0, p.k) EXCEPT
                    !.jt = IF longT THEN 0 ELSE offT % LongOffset,
                    !.jf = IF longF THEN first ELSE offF % LongOffset]
        jas   == (IF longT THEN <<Insn("ja", 0, offT - 1)>> ELSE << >>)
              \o (IF longF THEN <<Insn("ja", 0, offF - first - 1)>> ELSE << >>)
    IN  <<jump>> \o jas

Extra(p) == (IF p.longjt THEN 1 ELSE 0) + (IF p.longjf THEN 1 ELSE 0)

(* Mutant of MarkLong: room is made for the true branch, whichever it is. *)
MarkLongTrue(s, b, tooFarT) ==
    [s EXCEPT !.ok = FALSE, !.blk = [@ EXCEPT ![b].longjt = TRUE]]

(* A jump too long for the room left: remember it and give up this try. *)
MarkLong(s, b, tooFarT) ==
    [s EXCEPT !.ok = FALSE,
              !.blk = IF tooFarT THEN [@ EXCEPT ![b].longjt = TRUE]
                                 ELSE [@ EXCEPT ![b].longjf = TRUE]]

Place(s, b) ==
    LET p     == s.blk[b]
        slen  == Len(p.stmts)
        size  == slen + 1 + Extra(p)
        here  == Len(s.code) + size
        offT  == here - slen - 1 - s.start[p.jt]
        offF  == here - slen - 1 - s.start[p.jf]
        write(insns) ==
            LET pad == [i \in 1..(size - slen - Len(insns)) |-> ZeroInsn]
            IN  [s EXCEPT !.code = p.stmts \o insns \o pad \o @,
                          !.start[b] = here]
    IN  IF p.jt = 0 THEN write(<<Insn(p.op, 0, p.k)>>)
        ELSE IF offT >= LongOffset /\ ~p.longjt THEN MarkLong(s, b, TRUE)
        ELSE IF offF >= LongOffset /\ ~p.longjf THEN MarkLong(s, b, FALSE)
        ELSE write(Jump(p, offT, offF))

(* convert_code_r: every block once, its false side before its true side. *)
RECURSIVE ConvertCode(_, _)
ConvertCode(s, b) ==
    IF ~s.ok \/ b = 0 \/ b \in s.marked THEN s
    ELSE LET s1 == ConvertCode([s EXCEPT !.marked = @ \cup {b}], s.blk[b].jf)
             s2 == ConvertCode(s1, s.blk[b].jt)
         IN  IF s2.ok THEN Place(s2, b) ELSE s2

(* One round of the loop of icode_to_fcode, with fresh marks. *)
ConvertTry(h, root) ==
    ConvertCode([ok |-> TRUE, blk |-> h, code |-> << >>, marked |-> {},
                 start |-> [b \in 1..Len(h) |-> 0]], root)

-----------------------------------------------------------------------------
(* bpf_validate: every jump stays inside and the last instruction returns. *)
Validate(code) ==
    /\ Len(code) > 0
    /\ code[Len(code)].op = "ret"
    /\ \A i \in 1..Len(code) :
         /\ code[i].op = "ja" => i + 1 + code[i].k <= Len(code)
         /\ code[i].op \in {"jeq", "jgt", "jge", "jset"} =>
              i + 1 + code[i].jt <= Len(code) /\ i + 1 + code[i].jf <= Len(code)
=============================================================================
