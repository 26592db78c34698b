----------------------------- MODULE BpfMachine -----------------------------
(***************************************************************************)
(* bpf_filter(), the interpreter libpcap runs a filter with when it stays  *)
(* in userland; the kernel's gives the same answers.                       *)
(*                                                                         *)
(* A packet is the bytes there are of it and its length on the wire.  A    *)
(* 32-bit word is kept in two's complement: words are only compared for    *)
(* equality.                                                               *)
(***************************************************************************)
EXTENDS Integers, Sequences, Bitwise

PacketType == [bytes : Seq(0..255), wirelen : Nat]

Byte(p, i) == p.bytes[i + 1]
Half(p, i) == 256 * Byte(p, i) + Byte(p, i + 1)
WordOf(b) == 16777216 * (IF b[1] > 127 THEN b[1] - 256 ELSE b[1])
             + 65536 * b[2] + 256 * b[3] + b[4]
Bytes(p, i, n) == SubSeq(p.bytes, i + 1, i + n)
Holds(p, i, n) == i + n <= Len(p.bytes)

(* EXTRACT_LONG, EXTRACT_SHORT or a byte, of size n. *)
Extract(p, i, n) ==
    IF n = 4 THEN WordOf(Bytes(p, i, 4))
    ELSE IF n = 2 THEN Half(p, i) ELSE Byte(p, i)

(* A load beyond the packet's end makes the whole filter return 0. *)
RECURSIVE RunFrom(_, _, _, _, _)
RunFrom(code, pc, A, X, p) ==
    LET i    == code[pc]
        goto(off, a, x) == RunFrom(code, pc + 1 + off, a, x, p)
        branch(taken)   == goto(IF taken THEN i.jt ELSE i.jf, A, X)
        load(at)        == IF Holds(p, at, i.size)
                           THEN goto(0, Extract(p, at, i.size), X) ELSE 0
    IN  CASE i.op = "ret"     -> i.k
          [] i.op = "ld abs"  -> load(i.k)
          [] i.op = "ld ind"  -> load(X + i.k)
          [] i.op = "ld len"  -> goto(0, p.wirelen, X)
          [] i.op = "ld imm"  -> goto(0, i.k, X)
          [] i.op = "ldx msh" -> IF Holds(p, i.k, 1)
                                 THEN goto(0, A, 4 * (Byte(p, i.k) % 16)) ELSE 0
          [] i.op = "and"     -> goto(0, A & i.k, X)
          [] i.op = "or"      -> goto(0, A | i.k, X)
          [] i.op = "ja"      -> goto(i.k, A, X)
          [] i.op = "jeq"     -> branch(A = i.k)
          [] i.op = "jgt"     -> branch(A > i.k)
          [] i.op = "jge"     -> branch(A >= i.k)
          [] i.op = "jset"    -> branch((A & i.k) # 0)

BpfFilter(code, p) == RunFrom(code, 1, 0, 0, p)
=============================================================================
