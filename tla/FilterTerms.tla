---------------------------- MODULE FilterTerms ----------------------------
(***************************************************************************)
(* The tests gencode.c generates for the primitives of a filter on an      *)
(* Ethernet link (DLT_EN10MB, what wlan0 is), each as the tree of gen_and, *)
(* gen_or and gen_not calls its function makes.                            *)
(***************************************************************************)
EXTENDS FlowGraph, BpfMachine

ETHERTYPE_IP == 2048
ETHERTYPE_ARP == 2054
ETHERTYPE_REVARP == 32821
ETHERTYPE_IPV6 == 34525
IPPROTO_TCP == 6
IPPROTO_UDP == 17
IPPROTO_FRAGMENT == 44
IPPROTO_SCTP == 132

-----------------------------------------------------------------------------
(* Loads and comparisons *)

(* init_linktype: where the type field and the payload of a frame are. *)
OffLinkType == 12
OffLinkPl == 14

GenLoadA(offrel, offset, size) ==
    CASE offrel = "linkhdr"  -> <<Insn("ld abs", size, offset)>>
      [] offrel = "linktype" -> <<Insn("ld abs", size, OffLinkType + offset)>>
      [] offrel = "linkpl"   -> <<Insn("ld abs", size, OffLinkPl + offset)>>
      [] offrel = "ipv4"     -> <<Insn("ldx msh", 1, OffLinkPl),
                                  Insn("ld ind", size, OffLinkPl + offset)>>
      [] offrel = "ipv6"     -> <<Insn("ld abs", size, OffLinkPl + 40 + offset)>>

GenCmp(offrel, offset, size, v) == Test(GenLoadA(offrel, offset, size), "jeq", v)
GenCmpGe(offrel, offset, size, v) == Test(GenLoadA(offrel, offset, size), "jge", v)
GenCmpLe(offrel, offset, size, v) ==
    NotOf(Test(GenLoadA(offrel, offset, size), "jgt", v))

(* gen_bcmp for six bytes: the last four first, then the first two. *)
GenBcmp(offrel, offset, v) ==
    AndOf(GenCmp(offrel, offset + 2, 4, WordOf(SubSeq(v, 3, 6))),
          GenCmp(offrel, offset, 2, 256 * v[1] + v[2]))

GenLinkType(proto) == GenCmp("linktype", 0, 2, proto)

-----------------------------------------------------------------------------
(* Addresses *)

GenEhostOp(eaddr, dir) ==
    LET src == GenBcmp("linkhdr", 6, eaddr)
        dst == GenBcmp("linkhdr", 0, eaddr)
    IN  CASE dir = "src" -> src
          [] dir = "dst" -> dst
          [] dir = "and" -> AndOf(src, dst)
          [] dir = "or"  -> OrOf(src, dst)

GenHostOp(addr, dir, proto, srcOff, dstOff) ==
    LET at(off) == AndOf(GenLinkType(proto), GenCmp("linkpl", off, 4, WordOf(addr)))
    IN  CASE dir = "src" -> at(srcOff)
          [] dir = "dst" -> at(dstOff)
          [] dir = "and" -> AndOf(at(srcOff), at(dstOff))
          [] dir = "or"  -> OrOf(at(srcOff), at(dstOff))

GenHost(addr, dir) ==
    OrOf(OrOf(GenHostOp(addr, dir, ETHERTYPE_IP, 12, 16),
              GenHostOp(addr, dir, ETHERTYPE_ARP, 14, 24)),
         GenHostOp(addr, dir, ETHERTYPE_REVARP, 14, 24))

GenBroadcast == GenEhostOp([i \in 1..6 |-> 255], "dst")
GenMulticast == Test(GenLoadA("linkhdr", 0, 1), "jset", 1)

-----------------------------------------------------------------------------
(* Protocols, bytes and lengths *)

GenProtoIp(v) == AndOf(GenLinkType(ETHERTYPE_IP), GenCmp("linkpl", 9, 1, v))

(* The next header, or the one behind a fragment header. *)
GenProtoIp6(v) ==
    AndOf(GenLinkType(ETHERTYPE_IPV6),
          OrOf(GenCmp("linkpl", 6, 1, v),
               AndOf(GenCmp("linkpl", 6, 1, IPPROTO_FRAGMENT), GenCmp("linkpl", 40, 1, v))))

GenProto(v) == OrOf(GenProtoIp6(v), GenProtoIp(v))

(* gen_byteop: "byte index op value", where index counts from the start of *)
(* the link-layer header.  The last two operators are applied to whatever  *)
(* the accumulator holds: no load is generated for them.                   *)
GenByteOp(op, index, v) ==
    CASE op = "=" -> GenCmp("linkhdr", index, 1, v)
      [] op = "<" -> NotOf(GenCmpGe("linkhdr", index, 1, v))
      [] op = ">" -> Test(GenLoadA("linkhdr", index, 1), "jgt", v)
      [] op = "&" -> NotOf(Test(<<Insn("and", 0, v)>>, "jeq", 0))
      [] op = "|" -> NotOf(Test(<<Insn("or", 0, v)>>, "jeq", 0))

GenLess(n) == NotOf(Test(<<Insn("ld len", 4, 0)>>, "jgt", n))
GenGreater(n) == Test(<<Insn("ld len", 4, 0)>>, "jge", n)

-----------------------------------------------------------------------------
(* Ports.  A port is the range with one member, but for the comparison. *)

GenIpFrag == NotOf(Test(GenLoadA("linkpl", 6, 2), "jset", 8191))

GenPortRangeAtom(net, off, v1, v2) ==
    LET lo == IF v1 > v2 THEN v2 ELSE v1
        hi == IF v1 > v2 THEN v1 ELSE v2
    IN  AndOf(GenCmpGe(net, off, 2, lo), GenCmpLe(net, off, 2, hi))

GenPortAtom(net, off, port) == GenCmp(net, off, 2, port)

(* gen_portop, gen_portrangeop and their IPv6 forms: atom[off] is the test *)
(* of the port at off in the transport header.                             *)
PortOffsets == {0, 2}

GenPortOp(net, proto, dir, atom) ==
    LET first == IF net = "ipv4"
                 THEN AndOf(GenCmp("linkpl", 9, 1, proto), GenIpFrag)
                 ELSE GenCmp("linkpl", 6, 1, proto)
        ports == CASE dir = "src" -> atom[0]
                   [] dir = "dst" -> atom[2]
                   [] dir = "and" -> AndOf(atom[0], atom[2])
                   [] dir = "or"  -> OrOf(atom[0], atom[2])
    IN  AndOf(first, ports)

(* gen_port, gen_port6, gen_portrange, gen_portrange6: proto 0 is UNDEF. *)
GenPorts(net, proto, dir, atom) ==
    LET op(v) == GenPortOp(net, v, dir, atom)
    IN  AndOf(GenLinkType(IF net = "ipv4" THEN ETHERTYPE_IP ELSE ETHERTYPE_IPV6),
              IF proto # 0 THEN op(proto)
              ELSE OrOf(op(IPPROTO_SCTP), OrOf(op(IPPROTO_TCP), op(IPPROTO_UDP))))

(* gen_ncode for Q_PORT and Q_PORTRANGE: IPv6 is tried before IPv4. *)
GenPort(proto, dir, port) ==
    LET atom(net) == [off \in PortOffsets |-> GenPortAtom(net, off, port)]
    IN  OrOf(GenPorts("ipv6", proto, dir, atom("ipv6")),
             GenPorts("ipv4", proto, dir, atom("ipv4")))

GenPortRange(proto, dir, v1, v2) ==
    LET atom(net) == [off \in PortOffsets |-> GenPortRangeAtom(net, off, v1, v2)]
    IN  OrOf(GenPorts("ipv6", proto, dir, atom("ipv6")),
             GenPorts("ipv4", proto, dir, atom("ipv4")))

-----------------------------------------------------------------------------
(* What the parser calls for a primitive (gen_ncode, gen_ecode,            *)
(* gen_proto_abbrev, gen_broadcast, ...)                                   *)
GenTerm(t) ==
    CASE t.prim = "port"      -> GenPort(t.proto, t.dir, t.lo)
      [] t.prim = "portrange" -> GenPortRange(t.proto, t.dir, t.lo, t.hi)
      [] t.prim = "ether"     -> GenEhostOp(t.addr, t.dir)
      [] t.prim = "host"      -> GenHost(t.addr, t.dir)
      [] t.prim = "proto"     -> GenProto(t.proto)
      [] t.prim = "type"      -> GenLinkType(t.type)
      [] t.prim = "byte"      -> GenByteOp(t.op, t.index, t.v)
      [] t.prim = "less"      -> GenLess(t.n)
      [] t.prim = "greater"   -> GenGreater(t.n)
      [] t.prim = "broadcast" -> GenBroadcast
      [] t.prim = "multicast" -> GenMulticast
=============================================================================
