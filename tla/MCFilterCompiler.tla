-------------------------- MODULE MCFilterCompiler --------------------------
(***************************************************************************)
(* Filters over the primitives the app's screens use (`dst port 5500',     *)
(* `ether src ...') and some others, tried on packets that differ in every *)
(* field they look at and that end before, in and after those fields.      *)
(***************************************************************************)
EXTENDS FilterCompiler

Zeros(n) == [i \in 1..n |-> 0]

TagMac == <<2, 18, 52, 86, 120, 154>>
OtherMac == <<2, 18, 52, 86, 120, 155>>
TwinMac == <<3, 18, 52, 86, 120, 154>>
AllOnes == [i \in 1..6 |-> 255]
HostA == <<10, 10, 10, 10>>
HostB == <<200, 10, 10, 11>>

Two(n) == <<n \div 256, n % 256>>

Ether(dst, src, type) == dst \o src \o Two(type)

IPv4(proto, frag, words, src, dst, sport, dport) ==
    <<64 + words>> \o Zeros(5) \o Two(frag) \o <<64, proto, 0, 0>> \o src \o dst
      \o Zeros(4 * words - 20) \o Two(sport) \o Two(dport) \o Zeros(4)

IPv6(proto, sport, dport) ==
    <<96>> \o Zeros(5) \o <<proto, 64>> \o Zeros(32) \o Two(sport) \o Two(dport)

(* A fragment: the fragment header names the protocol of what it carries. *)
IPv6Fragment(proto, sport, dport) ==
    <<96>> \o Zeros(5) \o <<IPPROTO_FRAGMENT, 64>> \o Zeros(32)
      \o <<proto>> \o Zeros(7) \o Two(sport) \o Two(dport)

Arp(src, dst) == Zeros(14) \o src \o Zeros(6) \o dst

Frame(bytes) == [bytes |-> bytes, wirelen |-> Len(bytes)]

IpFrame(ports, proto, frag, words) ==
    Ether(OtherMac, TagMac, ETHERTYPE_IP)
      \o IPv4(proto, frag, words, HostA, HostB, ports[1], ports[2])

CsiFrame == IpFrame(<<7, 5500>>, IPPROTO_UDP, 0, 5)

WholeFrames ==
    {IpFrame(ports, proto, 0, 5) : ports \in {<<7, 5500>>, <<5500, 7>>, <<7, 8>>},
                                   proto \in {IPPROTO_TCP, IPPROTO_UDP}}
    \cup {IpFrame(<<7, 5500>>, proto, 0, 5) : proto \in {IPPROTO_SCTP, 1}}
    \cup {IpFrame(<<7, 5500>>, IPPROTO_UDP, frag, 5) : frag \in {1, 8191, 8192}}
    \cup {IpFrame(<<5500, 5501>>, IPPROTO_UDP, 0, words) : words \in {6, 15}}
    \cup {Ether(AllOnes, OtherMac, ETHERTYPE_IPV6) \o IPv6(proto, 5499, 5500) :
            proto \in {IPPROTO_UDP, 58}}
    \cup {Ether(AllOnes, OtherMac, ETHERTYPE_IPV6) \o IPv6Fragment(proto, 5499, 5500) :
            proto \in {IPPROTO_UDP, 58}}
    \cup {Ether(AllOnes, src, type) \o Arp(HostB, HostA) :
            src \in {TagMac, TwinMac}, type \in {ETHERTYPE_ARP, ETHERTYPE_REVARP}}
    \cup {Ether(TagMac, OtherMac, ETHERTYPE_IP)
            \o IPv4(IPPROTO_UDP, 0, 5, HostB, HostA, 5501, 5502)}

CutFrames ==
    {SubSeq(CsiFrame, 1, n) : n \in {0, 1, 5, 6, 11, 13, 14, 23, 24, 29, 33, 35, 37, 38}}
    \cup {SubSeq(Ether(OtherMac, TagMac, ETHERTYPE_IPV6) \o IPv6(17, 7, 5500), 1, n) :
            n \in {20, 21, 56, 57}}
    \cup {SubSeq(Ether(OtherMac, TagMac, ETHERTYPE_IPV6) \o IPv6Fragment(17, 7, 5500), 1, n) :
            n \in {54, 55}}

MCPackets == {Frame(bytes) : bytes \in WholeFrames \cup CutFrames}

-----------------------------------------------------------------------------

Port(proto, dir, n) == [prim |-> "port", proto |-> proto, dir |-> dir, lo |-> n, hi |-> n]
PortRange(proto, dir, lo, hi) ==
    [prim |-> "portrange", proto |-> proto, dir |-> dir, lo |-> lo, hi |-> hi]
EtherAddr(dir, addr) == [prim |-> "ether", dir |-> dir, addr |-> addr]
Host(dir, addr) == [prim |-> "host", dir |-> dir, addr |-> addr]
ByteIs(op, index, v) == [prim |-> "byte", op |-> op, index |-> index, v |-> v]

(* What the CSI screen and the RSSI screen pass to csiutil. *)
DstPort5500 == Port(0, "dst", 5500)
FromTag == EtherAddr("src", TagMac)

CommonTerms == {DstPort5500, FromTag, Host("or", HostA), [prim |-> "multicast"]}

RareTerms ==
    {Port(IPPROTO_UDP, dir, 5500) : dir \in {"src", "or", "and"}}
    \cup {PortRange(0, dir, 5501, 5500) : dir \in {"dst", "or"}}
    \cup {PortRange(IPPROTO_TCP, "src", 5499, 5500)}
    \cup {EtherAddr(dir, TagMac) : dir \in {"dst", "or"}}
    \cup {EtherAddr("and", OtherMac), Host("src", HostB), Host("and", HostA)}
    \cup {[prim |-> "proto", proto |-> IPPROTO_UDP], [prim |-> "broadcast"],
          [prim |-> "type", type |-> ETHERTYPE_ARP],
          [prim |-> "less", n |-> 37], [prim |-> "greater", n |-> 38]}
    \cup {ByteIs(op, 12, 8) : op \in {"=", "<", ">"}}

AllTerms == CommonTerms \cup RareTerms

MaskTerms == {ByteIs(op, 0, 2) : op \in {"&", "|"}}
=============================================================================
