-------------------------------- MODULE Wire --------------------------------
(***************************************************************************)
(* Probes as they leave, responses as they arrive, and the parsing that    *)
(* finds out which probe a response answers (probe/icmp.rs, udp.rs, tcp.rs,*)
(* rawip.rs and correlate.rs).                                             *)
(*                                                                         *)
(* The header of a probe is a sequence of 16-bit words, so that a router   *)
(* that quotes n bytes of it keeps its first n / 2 words; IP headers and   *)
(* ICMP extensions are records of the fields the parsers read.  This       *)
(* module declares no variables: SessionStats sends, quotes and parses.    *)
(***************************************************************************)
EXTENDS Integers, Sequences, FiniteSets, FiniteSetsExt, SequencesExt

CONSTANTS
    Ident,          \* our ICMP identifier, the low 16 bits of the process id
    SrcPortBase,    \* config.src_port_base
    None            \* an absent Option

W16 == 65536

ASSUME WireAssumption ==
    /\ Ident \in 0..(W16 - 1)
    /\ SrcPortBase \in 1..(W16 - 1)
    /\ None \notin Int

Hi(w) == w \div 256
Lo(w) == w % 256

\* The value of an optional, or that of its absence.
Some(x) == x # None
-----------------------------------------------------------------------------
(* Checksums: one's complement sums of 16-bit words, carries folded back.   *)

Fold16(sum) == LET s == (sum % W16) + (sum \div W16) IN (s % W16) + (s \div W16)
OnesSum(words) == Fold16(FoldLeft(LAMBDA sum, w : sum + w, 0, words))

InternetChecksum(words) == W16 - 1 - OnesSum(words)

\* A UDP checksum of zero would mean that there is none.
UdpChecksum(words) == IF InternetChecksum(words) = 0 THEN W16 - 1 ELSE InternetChecksum(words)

ValidateChecksum(words) == Len(words) >= 2 /\ OnesSum(words) \in {0, W16 - 1}
-----------------------------------------------------------------------------
(* Probes.                                                                  *)

ToSequence(id) == id.ttl * 256 + id.seq
FromSequence(w) == [ttl |-> Hi(w), seq |-> Lo(w)]

EchoRequestType(fam) == IF fam = 6 THEN 128 ELSE 8
PmtudMarker == 80                            \* 0x50, the byte at payload[8]

\* ICMP header, then identifier, sequence, timestamp and marker as payload.
\* The ICMPv6 checksum needs the kernel's addresses and is not looked at.
BuildEchoRequest(fam, id, pmtud) ==
    LET body == <<Ident, ToSequence(id), Ident, ToSequence(id), 0, 7,
                  IF pmtud THEN PmtudMarker * 256 + 1 ELSE 1>>
        type == EchoRequestType(fam) * 256
    IN  <<type, IF fam = 4 THEN InternetChecksum(<<type, 0>> \o body) ELSE 0>> \o body

UdpMagic == <<84 * 256 + 84, 76 * 256>>      \* 'T' 'T' 'L' and a version of 0

BuildUdpPayload(id) == <<ToSequence(id)>> \o UdpMagic

\* The pseudo header is left out of the sum: nothing here verifies it.
BuildUdpDatagram(srcPort, dstPort, payload) ==
    LET length == 8 + 2 * Len(payload)
    IN  <<srcPort, dstPort, length, UdpChecksum(<<srcPort, dstPort, length, 0>> \o payload)>>
            \o payload

\* The sequence number holds the probe in its high half; data offset 5, SYN.
BuildTcpSyn(id, srcPort, dstPort) ==
    LET front == <<srcPort, dstPort, ToSequence(id), 0, 0, 0, 80 * 256 + 2, 65535>>
    IN  front \o <<InternetChecksum(front \o <<0, 0>>), 0>>

\* The IP packet of a probe: the engine writes the TTL into the header or sets
\* it on a socket that sends this packet only.
BuildPacket(fam, proto, dest, ttl, words) ==
    [fam |-> fam, proto |-> proto, dest |-> dest, ttl |-> ttl, words |-> words]

FlowPort(flow) == (SrcPortBase + flow) % W16

\* A probe as the engine sends it: id, flow, target, protocol, family, pmtud.
Encode(p) ==
    BuildPacket(p.fam, p.proto, p.dest, p.id.ttl,
        CASE p.proto = "icmp" -> BuildEchoRequest(p.fam, p.id, p.pmtud)
          [] p.proto = "udp"  -> BuildUdpDatagram(FlowPort(p.flow), 33434, BuildUdpPayload(p.id))
          [] p.proto = "tcp"  -> BuildTcpSyn(p.id, FlowPort(p.flow), 80))
-----------------------------------------------------------------------------
(* What happens to a probe on its way: a macOS kernel writes its own        *)
(* identifier into echo requests of datagram sockets (and fixes the         *)
(* checksum), a NAT writes another source port.                             *)

RewriteIdent(packet, ident) ==
    LET w == [packet.words EXCEPT ![3] = ident, ![2] = 0]
    IN  [packet EXCEPT !.words = IF packet.fam = 4 THEN [w EXCEPT ![2] = InternetChecksum(w)] ELSE w]

RewritePort(packet, port) == [packet EXCEPT !.words[1] = port]

\* An echo reply returns the words of the request under its own type.
EchoReply(packet) ==
    LET w == [packet.words EXCEPT ![1] = IF packet.fam = 6 THEN 129 * 256 ELSE 0, ![2] = 0]
    IN  [fam |-> packet.fam, type |-> Hi(w[1]), code |-> 0, length |-> 0, mtu |-> 0, ext |-> None,
         quote |-> None,
         words |-> IF packet.fam = 4 THEN [w EXCEPT ![2] = InternetChecksum(w)] ELSE w]

\* An error quotes the IP header, with the TTL the router saw and the extension
\* headers of IPv6 that precede the probe, and the first n bytes of the probe.
IcmpError(packet, type, code, mtu, ttl, n, chain, ext) ==
    [fam |-> packet.fam, type |-> type, code |-> code, mtu |-> mtu, words |-> <<>>,
     length |-> IF Some(ext) THEN ext.length ELSE 0, ext |-> ext,
     quote |-> [dest |-> packet.dest, ttl |-> ttl, proto |-> packet.proto, chain |-> chain,
                words |-> SubSeq(packet.words, 1, Min({n \div 2, Len(packet.words)}))]]
-----------------------------------------------------------------------------
(* ICMP extensions (RFC 4884): MPLS label stacks and interface information. *)

\* The extension starts where the length field says, at byte 128 when it is 0.
ExtStart(length, fam) == IF length > 0 THEN length * (IF fam = 6 THEN 8 ELSE 4) ELSE 128

\* Mutant: a repeated role is recorded again.
AddInterfaceAgain(acc, o) ==
    IF ~o.whole THEN acc ELSE [acc EXCEPT !.infos = Append(@, [role |-> o.role, info |-> o.info])]

\* The first object of a role is kept, unless a part it announces is missing;
\* it bars later ones of the role either way.
AddInterface(acc, o) ==
    IF o.role \in acc.seen THEN acc
    ELSE [acc EXCEPT !.seen = @ \cup {o.role},
                     !.infos = IF o.whole THEN Append(@, [role |-> o.role, info |-> o.info]) ELSE @]

\* The labels of a stack up to the one marked as its bottom.
StackLabels(stack) ==
    LET bottoms == {i \in 1..Len(stack) : stack[i].bottom}
    IN  IF bottoms = {} THEN stack ELSE SubSeq(stack, 1, CHOOSE i \in bottoms : \A j \in bottoms : i <= j)

\* The loop over the objects: one whose length is bad ends it, and one of
\* another class is stepped over.
NothingRead == [labels |-> <<>>, seen |-> {}, infos |-> <<>>, torn |-> FALSE]

ReadObject(acc, o) ==
    IF acc.torn \/ ~o.fits THEN [acc EXCEPT !.torn = TRUE]
    ELSE CASE o.class = "mpls"      -> [acc EXCEPT !.labels = @ \o StackLabels(o.stack)]
           [] o.class = "interface" -> AddInterface(acc, o)
           [] o.class = "other"     -> acc

ParseExtensions(m) ==
    LET read == IF m.ext = None \/ m.ext.at # ExtStart(m.length, m.fam) \/ m.ext.version # 2 THEN NothingRead
                ELSE FoldLeft(ReadObject, NothingRead, m.ext.objects)
    IN  [labels |-> read.labels, interfaces |-> read.infos]
-----------------------------------------------------------------------------
(* Parsing.  A parser returns the probe the message answers, or None.       *)

Parsed(m, type, id, pmtud, port, mtu, quotedTtl, dest) ==
    LET ext == ParseExtensions(m)
    IN  [id |-> id, type |-> type, code |-> m.code, pmtud |-> pmtud, port |-> port, mtu |-> mtu,
         quotedTtl |-> quotedTtl, dest |-> dest, labels |-> ext.labels,
         interfaces |-> ext.interfaces]

\* Mutant: the identifier is not compared.
EchoSequenceOfAnyone(words) == words[4]

\* The ICMP identifier, or the copy of it in the payload, is ours.  The words
\* are those of an echo request or reply; returns the sequence number.
EchoSequence(words) ==
    IF words[3] = Ident THEN words[4]
    ELSE IF Len(words) >= 6 /\ words[5] = Ident THEN words[6]
    ELSE None

\* The checksum of an ICMPv6 message was verified by the kernel.
ParseEchoReply(m, responder) ==
    IF Len(m.words) < 4 \/ (m.fam = 4 /\ ~ValidateChecksum(m.words)) THEN None
    ELSE IF EchoSequence(m.words) = None THEN None
    ELSE Parsed(m, "EchoReply", FromSequence(EchoSequence(m.words)),
                Len(m.words) >= 9 /\ Hi(m.words[9]) = PmtudMarker, None, None, None, responder)

\* extract_probe_id_from_tcp: the high half of the sequence number.
TcpSequence(words) == words[3]

\* extract_probe_id_from_udp_payload: the header and six bytes, with the magic.
UdpSequence(words) ==
    IF Len(words) < 7 THEN None
    ELSE IF words[6] # UdpMagic[1] \/ Hi(words[7]) # Hi(UdpMagic[2]) THEN None
    ELSE words[5]

\* The parts of an error's parsing that do not depend on the IP version: the
\* quoted probe by its protocol.
ParseQuoted(m, type, mtu) ==
    LET q == m.quote
        w == q.words
        seq == CASE q.proto = "icmp" -> IF Hi(w[1]) # EchoRequestType(m.fam) THEN None
                                        ELSE EchoSequence(w)
                 [] q.proto = "tcp"  -> TcpSequence(w)
                 [] q.proto = "udp"  -> UdpSequence(w)
                 [] OTHER            -> None
        port == IF q.proto = "icmp" THEN None ELSE w[1]
    IN  IF seq = None THEN None
        ELSE Parsed(m, type, FromSequence(seq), FALSE, port, mtu, q.ttl, q.dest)

\* The quoted IP header and eight bytes of the probe must be there.
ErrorV4(m, type, mtu) ==
    IF Len(m.quote.words) < 4 THEN None ELSE ParseQuoted(m, type, mtu)

\* The copy of the above for datagram sockets.
ErrorV4Dgram(m, type, mtu) ==
    IF Len(m.quote.words) < 4 THEN None ELSE ParseQuoted(m, type, mtu)

\* Extension headers of the quoted packet are stepped over; a fragment, a
\* header with nothing after it, or one that is cut off hides the probe.
SkipExtHeadersQuoted(chain) == \A i \in 1..Len(chain) : chain[i] \in {"hopbyhop", "routing", "destopts"}

\* Forty bytes of IP header and eight more, extension headers included; each
\* of those has eight bytes here.
ErrorV6(m, type, mtu) ==
    IF 8 * Len(m.quote.chain) + 2 * Len(m.quote.words) < 8 THEN None
    ELSE IF ~SkipExtHeadersQuoted(m.quote.chain) \/ Len(m.quote.words) < 4 THEN None
    ELSE ParseQuoted(m, type, mtu)

MtuV4(m) == IF m.code = 4 /\ m.mtu > 0 THEN m.mtu ELSE None
MtuV6(m) == IF m.mtu \in 1..(W16 - 1) THEN m.mtu ELSE None

\* A raw IPv4 socket delivers the IP header too.
ParseV4(m, responder) ==
    CASE m.type = 0  -> ParseEchoReply(m, responder)
      [] m.type = 11 -> ErrorV4(m, "TimeExceeded", None)
      [] m.type = 3  -> ErrorV4(m, "DestUnreachable", MtuV4(m))
      [] OTHER       -> None

ParseV4Dgram(m, responder) ==
    CASE m.type = 0  -> ParseEchoReply(m, responder)
      [] m.type = 11 -> ErrorV4Dgram(m, "TimeExceeded", None)
      [] m.type = 3  -> ErrorV4Dgram(m, "DestUnreachable", MtuV4(m))
      [] OTHER       -> None

ParseV6Dgram(m, responder) ==
    CASE m.type = 129 -> ParseEchoReply(m, responder)
      [] m.type = 2   -> ErrorV6(m, "PacketTooBig", MtuV6(m))
      [] m.type = 3   -> ErrorV6(m, "TimeExceeded", None)
      [] m.type = 1   -> ErrorV6(m, "DestUnreachable", None)
      [] OTHER        -> None

\* The responder's address tells the version; the kernel strips an IPv6 header.
ParseIcmpResponse(m, responder, dgram) ==
    IF m.fam = 6 THEN ParseV6Dgram(m, responder)
    ELSE IF dgram THEN ParseV4Dgram(m, responder)
    ELSE ParseV4(m, responder)

\* Mutant: the last flow's port is left out.
DeriveFlowHintShort(port, numFlows) ==
    IF Some(port) THEN
        IF port >= SrcPortBase /\ port < SrcPortBase + numFlows - 1 THEN port - SrcPortBase ELSE None
    ELSE IF numFlows = 1 THEN 0 ELSE None

\* The port tells the flow when it is one of ours.  The sum is a u16: a range
\* that ends at 65535 has its end at 0 in a release build.
DeriveFlowHint(port, numFlows) ==
    IF Some(port) THEN
        IF port >= SrcPortBase /\ port < (SrcPortBase + numFlows) % W16 THEN port - SrcPortBase
        ELSE None
    ELSE IF numFlows = 1 THEN 0 ELSE None

\* Frag Needed and Packet Too Big are taken to answer a PMTUD probe.
IsPmtudResponse(r) ==
    r.pmtud \/ r.type = "PacketTooBig" \/ (r.type = "DestUnreachable" /\ r.code = 4)
=============================================================================
