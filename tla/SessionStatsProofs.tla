-------------------------- MODULE SessionStatsProofs --------------------------
(***************************************************************************)
(* Proofs about SessionStats, for every set of addresses, flows and TTLs   *)
(* and for every profile: whatever a probe goes through, its answer is     *)
(* never taken for another probe's; the counters of every hop add up; the  *)
(* route changes form a chain; and the verdicts stand on evidence.         *)
(***************************************************************************)
EXTENDS SessionHopProofs, SequenceTheorems

-----------------------------------------------------------------------------
(* Folds over sequences.                                                    *)

\* The sum of a packet's words, and the replay of a log.
AddWord(c, word, sum) == sum + word
ReplayOne(q, e, s) == ApplyReplayEvent(s, e, q.flows, q.target)
Highest(s) == Max(s)

WS == INSTANCE FoldTheory WITH Op <- AddWord, Choice <- Highest
RF == INSTANCE FoldTheory WITH Op <- ReplayOne, Choice <- Highest

\* The greatest of some of the first n numbers is one of them.
LEMMA MaxOfSome ==
    ASSUME NEW n \in Nat, NEW s \in SUBSET (1..n), s # {}
    PROVE  Max(s) \in s /\ \A x \in s : x <= Max(s)
<1> DEFINE T == {n - x : x \in s}
<1>1. T \in SUBSET Nat /\ T # {}
    <2>1. \A x \in s : n - x \in Nat  OBVIOUS
    <2> QED  BY <2>1
<1>2. PICK k \in T : \A y \in T : k <= y
    <2> HIDE DEF T
    <2> QED  BY <1>1, WS!LeastNat
<1>3. PICK m \in s : k = n - m
    BY <1>2
<1>4. \A x \in s : m >= x
    <2>1. TAKE x \in s
    <2>2. n - x \in T  BY <2>1
    <2>3. n - m <= n - x  BY <1>2, <1>3, <2>2
    <2> QED  BY <2>3
<1>5. Max(s) \in s /\ \A x \in s : Max(s) >= x
    BY <1>4 DEF Max
<1> QED  BY <1>5

LEMMA MaxGreatest ==
    ASSUME NEW n \in Nat
    PROVE  /\ WS!Chooses(1..n) /\ RF!Chooses(1..n)
           /\ Highest(1..(n + 1)) = n + 1
<1>1. WS!Chooses(1..n) /\ RF!Chooses(1..n)
    BY MaxOfSome DEF WS!Chooses, RF!Chooses, Highest
<1>2. Max(1..(n + 1)) \in 1..(n + 1) /\ n + 1 <= Max(1..(n + 1))
    <2> DEFINE m == n + 1
               s == 1..m
    <2>1. m \in Nat /\ s \in SUBSET (1..m) /\ s # {} /\ m \in s  OBVIOUS
    <2> HIDE DEF m, s
    <2>2. Max(s) \in s /\ \A x \in s : x <= Max(s)  BY <2>1, MaxOfSome
    <2> QED  BY <2>1, <2>2 DEF m, s
<1> QED  BY <1>1, <1>2 DEF Highest

LEMMA WordFold ==
    ASSUME NEW words, NEW n \in Nat, DOMAIN words = 1..n
    PROVE  FoldLeft(LAMBDA sum, w : sum + w, 0, words) = WS!Iter(0, words, 0, 1..n)[1..n]
BY Zenon DEF FoldLeft, MapThenFoldSet, WS!Iter, WS!Recursion, WS!Step, AddWord, Highest

\* The sum of the first k words.
SumOf(words, k) == WS!Iter(0, words, 0, 1..k)[1..k]

LEMMA WordSums ==
    ASSUME NEW words, NEW n \in Nat, DOMAIN words = 1..n
    PROVE  /\ OnesSum(words) = Fold16(SumOf(words, n))
           /\ SumOf(words, 0) = 0
           /\ \A k \in Nat : SumOf(words, k + 1) = SumOf(words, k) + words[k + 1]
<1>1. OnesSum(words) = Fold16(SumOf(words, n))
    BY WordFold DEF OnesSum, SumOf
<1>2. SumOf(words, 0) = 0
    BY WS!Starts DEF SumOf
<1>3. ASSUME NEW k \in Nat PROVE SumOf(words, k + 1) = SumOf(words, k) + words[k + 1]
    <2>1. WS!Greatest  BY MaxGreatest DEF WS!Greatest
    <2> DEFINE m == k + 1
    <2>2. m \in Nat  OBVIOUS
    <2> HIDE DEF m
    <2>3. WS!Chooses(1..k) /\ WS!Chooses(1..m)  BY <2>2, MaxGreatest
    <2>4. WS!Chooses(1..k) /\ WS!Chooses(1..(k + 1))  BY <2>3 DEF m
    <2>5. WS!Iter(0, words, 0, 1..(k + 1))[1..(k + 1)]
            = AddWord(0, words[k + 1], WS!Iter(0, words, 0, 1..k)[1..k])
        BY <2>1, <2>4, WS!Appends
    <2> QED  BY <2>5 DEF SumOf, AddWord
<1> QED  BY <1>1, <1>2, <1>3

\* A sum of words, and so a checksum, is a number.
LEMMA ChecksumIsNumber ==
    ASSUME NEW words \in Seq(Int)
    PROVE  OnesSum(words) \in Int /\ InternetChecksum(words) \in Int /\ UdpChecksum(words) \in Int
<1> DEFINE n == Len(words)
           Bad == {k \in 0..n : SumOf(words, k) \notin Int}
<1>1. n \in Nat /\ DOMAIN words = 1..n
    OBVIOUS
<1> HIDE DEF n
<1>2. /\ OnesSum(words) = Fold16(SumOf(words, n)) /\ SumOf(words, 0) = 0
      /\ \A k \in Nat : SumOf(words, k + 1) = SumOf(words, k) + words[k + 1]
    BY <1>1, WordSums
<1>3. Bad = {}
    <2> SUFFICES ASSUME Bad # {} PROVE FALSE
        OBVIOUS
    <2>1. Bad \in SUBSET Nat  BY <1>1
    <2>2. PICK k \in Bad : \A j \in Bad : k <= j
        <3> HIDE DEF Bad
        <3> QED  BY <2>1, WS!LeastNat
    <2>3. k \in 0..n /\ k # 0 /\ k - 1 \in 0..n /\ k - 1 \in Nat /\ (k - 1) + 1 = k
        <3>1. k \in 0..n /\ SumOf(words, k) \notin Int  BY <2>2
        <3>2. SUFFICES ASSUME k = 0 PROVE FALSE
            BY <1>1, <3>1
        <3>3. SumOf(words, k) = 0  BY <1>2, <3>2
        <3> QED  BY <3>1, <3>3
    <2>4. k - 1 \notin Bad
        <3> HIDE DEF Bad
        <3> QED  BY <2>1, <2>2, <2>3
    <2>5. SumOf(words, k - 1) \in Int  BY <2>3, <2>4
    <2>6. SumOf(words, k) = SumOf(words, k - 1) + words[k]
        <3>1. SumOf(words, (k - 1) + 1) = SumOf(words, k - 1) + words[(k - 1) + 1]  BY <1>2, <2>3
        <3> QED  BY <2>3, <3>1
    <2>7. words[k] \in Int
        <3>1. k \in 1..n  BY <1>1, <2>3
        <3> QED  BY <1>1, <3>1
    <2>8. SumOf(words, k) \in Int  BY <2>5, <2>6, <2>7
    <2> QED  BY <2>2, <2>8
<1>4. SumOf(words, n) \in Int
    BY <1>1, <1>3
<1>5. OnesSum(words) \in Int
    <2>1. \A s \in Int : Fold16(s) \in Int  BY DEF Fold16, W16
    <2> QED  BY <1>2, <1>4, <2>1
<1>6. InternetChecksum(words) \in Int
    BY <1>5 DEF InternetChecksum, W16
<1> QED  BY <1>5, <1>6 DEF UdpChecksum, W16

LEMMA ReplayFold ==
    ASSUME NEW q, NEW events, NEW n \in Nat, DOMAIN events = 1..n
    PROVE  Replay(events, q.flows, q.target) = RF!Iter(q, events, NewSession, 1..n)[1..n]
BY Zenon DEF Replay, FoldLeft, MapThenFoldSet, RF!Iter, RF!Recursion, RF!Step, ReplayOne, Highest

\* A replay of a longer log is one more event.
LEMMA ReplayAppends ==
    ASSUME NEW q, NEW T, NEW events \in Seq(T), NEW e \in T
    PROVE  /\ Replay(<<>>, q.flows, q.target) = NewSession
           /\ Replay(Append(events, e), q.flows, q.target)
                = ApplyReplayEvent(Replay(events, q.flows, q.target), e, q.flows, q.target)
<1> DEFINE n == Len(events)
           longer == Append(events, e)
<1>1. n \in Nat /\ DOMAIN events = 1..n /\ DOMAIN longer = 1..(n + 1) /\ longer[n + 1] = e
      /\ \A i \in 1..n : longer[i] = events[i]
    OBVIOUS
<1> HIDE DEF n, longer
<1>2. Replay(longer, q.flows, q.target) = RF!Iter(q, longer, NewSession, 1..(n + 1))[1..(n + 1)]
    BY <1>1, ReplayFold
<1>3. Replay(events, q.flows, q.target) = RF!Iter(q, events, NewSession, 1..n)[1..n]
    BY <1>1, ReplayFold
<1>4. RF!Chooses(1..n) /\ RF!Chooses(1..(n + 1)) /\ RF!Greatest
    <2>1. RF!Greatest  BY MaxGreatest DEF RF!Greatest
    <2> DEFINE m == n + 1
    <2>2. m \in Nat  BY <1>1
    <2> HIDE DEF m
    <2>3. RF!Chooses(1..n) /\ RF!Chooses(1..m)  BY <1>1, <2>2, MaxGreatest
    <2> QED  BY <2>1, <2>3 DEF m
<1>5. RF!Iter(q, longer, NewSession, 1..(n + 1))[1..(n + 1)]
        = ReplayOne(q, longer[n + 1], RF!Iter(q, events, NewSession, 1..n)[1..n])
    BY <1>1, <1>4, RF!Appends
<1>6. Replay(<<>>, q.flows, q.target) = NewSession
    <2>1. DOMAIN <<>> = 1..0 /\ 1..0 = {} /\ 0 \in Nat  OBVIOUS
    <2>2. Replay(<<>>, q.flows, q.target) = RF!Iter(q, <<>>, NewSession, 1..0)[1..0]
        BY <2>1, ReplayFold
    <2> DEFINE none == <<>>
    <2> HIDE DEF none
    <2>3. RF!Iter(q, none, NewSession, 1..0)[1..0] = NewSession
        BY RF!Starts
    <2> QED  BY <2>2, <2>3 DEF none
<1> QED  BY <1>1, <1>2, <1>3, <1>5, <1>6 DEF ReplayOne, longer
-----------------------------------------------------------------------------
(* Parsing.                                                                 *)

LEMMA BetweenNats ==
    ASSUME NEW a \in Nat, NEW b \in Nat, NEW x \in a..b
    PROVE  x \in Int /\ x \in Nat
OBVIOUS

LEMMA WireNumbers ==
    SrcPortBase \in Nat /\ Ident \in Nat /\ None \notin Int
<1>1. W16 - 1 \in Nat  BY DEF W16
<1>2. SrcPortBase \in 1..(W16 - 1) /\ Ident \in 0..(W16 - 1) /\ None \notin Int
    BY WireAssumption
<1>3. SrcPortBase \in Nat  BY <1>1, <1>2, BetweenNats
<1>4. Ident \in Nat  BY <1>1, <1>2, BetweenNats
<1> QED  BY <1>2, <1>3, <1>4

\* An optional that is there.
LEMMA Present ==
    ASSUME NEW S, NEW x \in Maybe(S), Some(x)
    PROVE  x \in S
BY DEF Maybe, Some

LEMMA PresentWord ==
    ASSUME NEW x \in Maybe(Word), Some(x)
    PROVE  x \in Int
<1>1. x \in 0..(W16 - 1)  BY Present DEF Word
<1>2. W16 - 1 \in Nat  BY DEF W16
<1> QED  BY <1>1, <1>2, BetweenNats

\* What a profile's probe is made of.
LEMMA ProbeFields ==
    ASSUME NEW q \in Profiles, NEW p \in Probes(q)
    PROVE  /\ p.id \in [ttl : 1..MaxTtl, seq : Byte]
           /\ p.flow \in FlowIds /\ p.flow < q.flows
           /\ p.pmtud \in BOOLEAN /\ (p.pmtud => q.mtuProbes)
           /\ p.proto \in {"icmp", "udp", "tcp"} /\ p.fam \in {4, 6} /\ p.dest = q.target
           /\ p.fate \in Fates /\ p.fate.from \in Addrs /\ p.fate.ttl \in Maybe(Byte)
           /\ p.fate.port \in Maybe(Word) /\ p.fate.ident \in Maybe(Word)
           /\ (p.fate.echo \/ p.fate.foreign \/ Some(p.fate.ident)) => p.proto = "icmp"
           /\ p.proto = "icmp" => q.flows = 1
           /\ Some(p.fate.port) => p.proto # "icmp"
           /\ p.fam = 4 => p.fate.chain = <<>>
<1>1. /\ p \in [id : [ttl : 1..MaxTtl, seq : Byte], flow : {f \in FlowIds : f < q.flows},
                pmtud : IF q.mtuProbes THEN BOOLEAN ELSE {FALSE}, proto : {"icmp", "udp", "tcp"},
                fam : {4, 6}, dest : {q.target}, fate : Fates]
      /\ (p.fate.echo \/ p.fate.foreign \/ Some(p.fate.ident)) => p.proto = "icmp"
      /\ p.proto = "icmp" => q.flows = 1
      /\ Some(p.fate.port) => p.proto # "icmp"
      /\ p.fam = 4 => p.fate.chain = <<>>
    BY DEF Probes
<1>2. p.fate \in Fates  BY <1>1
<1>3. p.fate.from \in Addrs
    BY <1>2 DEF Fates
<1>4. p.fate.ttl \in Maybe(Byte)
    BY <1>2 DEF Fates
<1>5. p.fate.port \in Maybe(Word)
    BY <1>2 DEF Fates
<1>8. p.fate.ident \in Maybe(Word)
    BY <1>2 DEF Fates
<1>6. p.pmtud \in BOOLEAN /\ (p.pmtud => q.mtuProbes)
    <2>1. p.pmtud \in IF q.mtuProbes THEN BOOLEAN ELSE {FALSE}  BY <1>1
    <2> QED  BY <2>1
<1>7. /\ p.id \in [ttl : 1..MaxTtl, seq : Byte] /\ p.flow \in FlowIds /\ p.flow < q.flows
      /\ p.proto \in {"icmp", "udp", "tcp"} /\ p.fam \in {4, 6} /\ p.dest = q.target
    BY <1>1
<1> QED  BY <1>1, <1>2, <1>3, <1>4, <1>5, <1>6, <1>7, <1>8

\* The sequence number holds a probe's id.
LEMMA SequenceHoldsId ==
    ASSUME NEW id \in [ttl : 1..MaxTtl, seq : Byte]
    PROVE  ToSequence(id) \in Nat /\ FromSequence(ToSequence(id)) = id
<1>1. id.ttl \in Nat /\ id.seq \in Byte /\ id = [ttl |-> id.ttl, seq |-> id.seq]
    BY SessionStatsAssumption
<1>3. Hi(ToSequence(id)) = id.ttl /\ Lo(ToSequence(id)) = id.seq
    <2> DEFINE t == id.ttl
               s == id.seq
    <2>1. t \in Nat /\ s \in 0..255  BY <1>1 DEF Byte
    <2>2. ToSequence(id) = t * 256 + s  BY DEF ToSequence
    <2> HIDE DEF t, s
    <2>3. (t * 256 + s) \div 256 = t /\ (t * 256 + s) % 256 = s  BY <2>1
    <2>4. Hi(ToSequence(id)) = t /\ Lo(ToSequence(id)) = s  BY <2>2, <2>3, Zenon DEF Hi, Lo
    <2> QED  BY <2>4 DEF t, s
<1> QED  BY <1>1, <1>3 DEF ToSequence, FromSequence, Byte

\* Where the words of a probe that are read back stand.
IdWords(w, p) ==
    /\ p.proto = "icmp" => Len(w) = 9 /\ w[4] = ToSequence(p.id) /\ w[6] = ToSequence(p.id)
    /\ p.proto = "udp"  => Len(w) = 7 /\ w[5] = ToSequence(p.id)
    /\ p.proto = "tcp"  => Len(w) = 10 /\ w[3] = ToSequence(p.id)

Marker(p) == IF p.pmtud THEN PmtudMarker * 256 + 1 ELSE 1

\* The elements of a concatenation.
Joins(w, s, t) ==
    /\ Len(w) = Len(s) + Len(t)
    /\ \A i \in 1..Len(s) : w[i] = s[i]
    /\ \A i \in 1..Len(t) : w[Len(s) + i] = t[i]

LEMMA Concatenated ==
    ASSUME NEW T, NEW s \in Seq(T), NEW t \in Seq(T), NEW w, w = s \o t
    PROVE  w \in Seq(T) /\ Joins(w, s, t)
BY DEF Joins

LEMMA EncodedWords ==
    ASSUME NEW q \in Profiles, NEW p \in Probes(q)
    PROVE  LET w == Encode(p).words IN
           /\ w \in Seq(Int) /\ IdWords(w, p)
           /\ p.proto # "icmp" => w[1] = FlowPort(p.flow)
           /\ p.proto = "icmp" =>
                /\ w[1] = EchoRequestType(p.fam) * 256 /\ w[3] = Ident /\ w[5] = Ident
                /\ w[7] = 0 /\ w[8] = 7 /\ w[9] = Marker(p)
           /\ p.proto = "udp" => w[6] = UdpMagic[1] /\ w[7] = UdpMagic[2]
<1> DEFINE S == ToSequence(p.id)
           w == Encode(p).words
<1>1. p.id \in [ttl : 1..MaxTtl, seq : Byte] /\ p.flow \in FlowIds /\ p.proto \in {"icmp", "udp", "tcp"}
    BY ProbeFields
<1>2. S \in Nat
    BY <1>1, SequenceHoldsId
<1>3. p.flow \in Int /\ SrcPortBase \in Int /\ Ident \in Nat
    <2>1. p.flow \in Nat  BY <1>1, HopStatsAssumption
    <2>2. SrcPortBase \in Int  BY WireNumbers
    <2>3. Ident \in Nat  BY WireNumbers
    <2> QED  BY <2>1, <2>2, <2>3
<1>4. FlowPort(p.flow) \in Nat
    BY <1>3 DEF FlowPort, W16
<1> DEFINE port == FlowPort(p.flow)
<1>5. /\ p.proto = "icmp" => w = BuildEchoRequest(p.fam, p.id, p.pmtud)
      /\ p.proto = "udp"  => w = BuildUdpDatagram(port, 33434, BuildUdpPayload(p.id))
      /\ p.proto = "tcp"  => w = BuildTcpSyn(p.id, port, 80)
    <2> HIDE DEF port
    <2>1. CASE p.proto = "icmp"
        BY <2>1 DEF Encode, BuildPacket
    <2>2. CASE p.proto = "udp"
        BY <2>2 DEF Encode, BuildPacket, port
    <2>3. CASE p.proto = "tcp"
        BY <2>3 DEF Encode, BuildPacket, port
    <2> QED  BY <1>1, <2>1, <2>2, <2>3
<1> HIDE DEF w, S, port
<1>6. CASE p.proto = "icmp"
    <2> DEFINE last == Marker(p)
               body == <<Ident, S, Ident, S, 0, 7, last>>
               type == EchoRequestType(p.fam) * 256
               check == IF p.fam = 4 THEN InternetChecksum(<<type, 0>> \o body) ELSE 0
    <2>1. w = <<type, check>> \o body
        BY <1>5, <1>6 DEF BuildEchoRequest, Marker, S
    <2>2. last \in Int /\ type \in Int /\ check \in Int
        <3>1. last \in Nat /\ type \in Nat  BY DEF Marker, PmtudMarker, EchoRequestType
        <3> HIDE DEF last, type
        <3>2. <<type, 0>> \in Seq(Int) /\ body \in Seq(Int)  BY <1>2, <1>3, <3>1
        <3> HIDE DEF body
        <3>3. InternetChecksum(<<type, 0>> \o body) \in Int  BY <3>2, Concatenated, ChecksumIsNumber
        <3> QED  BY <3>1, <3>3
    <2> HIDE DEF last, type, check
    <2>3. <<type, check>> \in Seq(Int) /\ body \in Seq(Int) /\ Len(<<type, check>>) = 2 /\ Len(body) = 7
        BY <1>2, <1>3, <2>2
    <2> DEFINE front == <<type, check>>
    <2>4. /\ front[1] = type
          /\ body[1] = Ident /\ body[2] = S /\ body[3] = Ident /\ body[4] = S
          /\ body[5] = 0 /\ body[6] = 7 /\ body[7] = last
        OBVIOUS
    <2> HIDE DEF body, front
    <2>a. front \in Seq(Int) /\ body \in Seq(Int) /\ Len(front) = 2 /\ Len(body) = 7 /\ w = front \o body
        BY <2>1, <2>3 DEF front, body
    <2>5. w \in Seq(Int) /\ Joins(w, front, body)
        BY <2>a, Concatenated
    <2>b. /\ Len(w) = 9 /\ \A i \in 1..2 : w[i] = front[i]
          /\ \A i \in 1..7 : w[2 + i] = body[i]
        <3>1. Joins(w, front, body) /\ Len(front) = 2 /\ Len(body) = 7  BY <2>a, <2>5
        <3>2. /\ Len(w) = Len(front) + Len(body)
              /\ \A i \in 1..Len(front) : w[i] = front[i]
              /\ \A i \in 1..Len(body) : w[Len(front) + i] = body[i]
            BY <3>1, Zenon DEF Joins
        <3>3. Len(w) = 9 /\ \A i \in 1..2 : w[i] = front[i]  BY <3>1, <3>2
        <3>4. \A i \in 1..7 : w[2 + i] = body[i]  BY <3>1, <3>2
        <3> QED  BY <3>3, <3>4
    <2>c. w[1] = front[1] /\ w[3] = body[1] /\ w[4] = body[2] /\ w[5] = body[3]
        BY <2>b
    <2>6. /\ w[1] = front[1] /\ w[3] = body[1] /\ w[4] = body[2] /\ w[5] = body[3] /\ w[6] = body[4]
          /\ w[7] = body[5] /\ w[8] = body[6] /\ w[9] = body[7] /\ w \in Seq(Int) /\ Len(w) = 9
        BY <2>5, <2>b, <2>c
    <2> QED  BY <1>6, <2>4, <2>6 DEF IdWords, S, w, type, last
<1>7. CASE p.proto = "udp"
    <2> DEFINE payload == BuildUdpPayload(p.id)
               length == 8 + 2 * Len(payload)
               start == <<port, 33434, length, 0>>
               check == UdpChecksum(start \o payload)
               front == <<port, 33434, length, check>>
    <2>1. /\ payload \in Seq(Int) /\ Len(payload) = 3
          /\ payload[1] = S /\ payload[2] = UdpMagic[1] /\ payload[3] = UdpMagic[2]
        <3>1. <<S>> \in Seq(Int) /\ Len(<<S>>) = 1 /\ UdpMagic \in Seq(Int) /\ Len(UdpMagic) = 2
            BY <1>2 DEF UdpMagic
        <3>2. payload = <<S>> \o UdpMagic  BY DEF BuildUdpPayload, S
        <3> HIDE DEF payload
        <3> DEFINE one == <<S>>
        <3>3. one \in Seq(Int) /\ Len(one) = 1 /\ one[1] = S  BY <3>1
        <3> HIDE DEF one
        <3>4. payload = one \o UdpMagic  BY <3>2 DEF one
        <3>5. payload \in Seq(Int) /\ Joins(payload, one, UdpMagic)
            BY <3>1, <3>3, <3>4, Concatenated
        <3> QED  BY <3>1, <3>3, <3>5 DEF Joins
    <2>2. w = front \o payload
        BY <1>5, <1>7 DEF BuildUdpDatagram
    <2> HIDE DEF payload
    <2>3. length \in Nat /\ port \in Nat /\ check \in Int
        <3>1. length \in Nat  BY <2>1
        <3> HIDE DEF length
        <3>2. start \in Seq(Int)
            <4>1. port \in Nat /\ 33434 \in Nat /\ 0 \in Nat  BY <1>4 DEF port
            <4> QED  BY <3>1, <4>1
        <3> HIDE DEF start
        <3>3. start \o payload \in Seq(Int)  BY <2>1, <3>2, Concatenated
        <3>4. check \in Int  BY <3>3, ChecksumIsNumber
        <3> QED  BY <1>4, <3>1, <3>4 DEF port
    <2> HIDE DEF length, check
    <2>4. front \in Seq(Int) /\ Len(front) = 4 /\ front[1] = port /\ payload \in Seq(Int)
        BY <2>1, <2>3
    <2> HIDE DEF front
    <2>5. w \in Seq(Int) /\ Joins(w, front, payload)
        BY <2>2, <2>4, Concatenated
    <2>6. /\ w[1] = front[1] /\ w[5] = payload[1] /\ w[6] = payload[2] /\ w[7] = payload[3]
          /\ w \in Seq(Int) /\ Len(w) = 7
        BY <2>1, <2>4, <2>5 DEF Joins
    <2> QED  BY <1>7, <2>1, <2>4, <2>6 DEF IdWords, S, w, port
<1>8. CASE p.proto = "tcp"
    <2> DEFINE front == <<port, 80, S, 0, 0, 0, 80 * 256 + 2, 65535>>
               zeros == <<0, 0>>
               check == InternetChecksum(front \o zeros)
               end == <<check, 0>>
    <2>1. w = front \o end
        BY <1>5, <1>8 DEF BuildTcpSyn, S
    <2>2. front \in Seq(Int) /\ Len(front) = 8 /\ front[1] = port /\ front[3] = S /\ zeros \in Seq(Int)
        <3>1. port \in Nat  BY <1>4 DEF port
        <3> QED  BY <1>2, <3>1
    <2> HIDE DEF front, zeros
    <2>3. check \in Int
        BY <2>2, Concatenated, ChecksumIsNumber
    <2> HIDE DEF check
    <2>4. end \in Seq(Int) /\ Len(end) = 2 /\ front \in Seq(Int)
        BY <2>2, <2>3
    <2> HIDE DEF end
    <2>5. w \in Seq(Int) /\ Joins(w, front, end)
        BY <2>1, <2>4, Concatenated
    <2>6. w[1] = front[1] /\ w[3] = front[3] /\ w \in Seq(Int) /\ Len(w) = 10
        BY <2>2, <2>4, <2>5 DEF Joins
    <2> QED  BY <1>8, <2>2, <2>6 DEF IdWords, S, w, port
<1> QED  BY <1>1, <1>4, <1>5, <1>6, <1>7, <1>8 DEF port

\* A sequence with another element at i.
IsReplaced(v, w, i, x) ==
    /\ v \in Seq(Int) /\ Len(v) = Len(w) /\ v[i] = x
    /\ \A j \in 1..Len(w) : j # i => v[j] = w[j]

LEMMA Replaced ==
    ASSUME NEW w \in Seq(Int), NEW i \in 1..Len(w), NEW x \in Int, NEW v, v = [w EXCEPT ![i] = x]
    PROVE  IsReplaced(v, w, i, x)
BY DEF IsReplaced

\* The probe as a router or the target gets it.
PacketOf(p) == [fam : {p.fam}, proto : {p.proto}, dest : {p.dest}, ttl : {p.id.ttl}, words : Seq(Int)]

Translated(p) == IF Some(p.fate.port) THEN RewritePort(Encode(p), p.fate.port) ELSE Encode(p)

Renamed(p) ==
    IF Some(p.fate.ident) THEN RewriteIdent(Translated(p), p.fate.ident) ELSE Translated(p)

Carried(p) ==
    IF p.fate.foreign
    THEN [Renamed(p) EXCEPT !.words = [Renamed(p).words EXCEPT ![3] = Ident + 1, ![5] = Ident + 1]]
    ELSE Renamed(p)

\* What of the words of a probe no rewriting changes.
Kept(w, p) ==
    /\ w \in Seq(Int) /\ IdWords(w, p)
    /\ p.proto # "icmp" => w[1] = IF Some(p.fate.port) THEN p.fate.port ELSE FlowPort(p.flow)
    /\ p.proto = "udp" => w[6] = UdpMagic[1] /\ w[7] = UdpMagic[2]
    /\ p.proto = "icmp" =>
        /\ Some(p.fate.port) \/ w[1] = EchoRequestType(p.fam) * 256
        /\ w[7] = 0 /\ w[8] = 7 /\ w[9] = Marker(p)

LEMMA EncodedPacket ==
    ASSUME NEW q \in Profiles, NEW p \in Probes(q)
    PROVE  Encode(p) \in PacketOf(p)
<1>1. Encode(p).words \in Seq(Int)
    BY EncodedWords
<1>2. Encode(p) = [fam |-> p.fam, proto |-> p.proto, dest |-> p.dest, ttl |-> p.id.ttl,
                   words |-> Encode(p).words]
    <2>1. p.proto \in {"icmp", "udp", "tcp"}  BY ProbeFields
    <2>2. CASE p.proto = "icmp"  BY <2>2 DEF Encode, BuildPacket
    <2>3. CASE p.proto = "udp"  BY <2>3 DEF Encode, BuildPacket
    <2>4. CASE p.proto = "tcp"  BY <2>4 DEF Encode, BuildPacket
    <2> QED  BY <2>1, <2>2, <2>3, <2>4
<1> QED  BY <1>1, <1>2 DEF PacketOf

LEMMA WithWords ==
    ASSUME NEW p, NEW k \in PacketOf(p), NEW w \in Seq(Int), NEW g, g = [k EXCEPT !.words = w]
    PROVE  g \in PacketOf(p) /\ g.words = w
BY DEF PacketOf

LEMMA TranslatedWords ==
    ASSUME NEW q \in Profiles, NEW p \in Probes(q)
    PROVE  /\ Translated(p) \in PacketOf(p) /\ Kept(Translated(p).words, p)
           /\ p.proto = "icmp" => Translated(p).words[3] = Ident /\ Translated(p).words[5] = Ident
<1> DEFINE w == Encode(p).words
           g == Translated(p)
<1>1. /\ w \in Seq(Int) /\ IdWords(w, p)
      /\ p.proto # "icmp" => w[1] = FlowPort(p.flow)
      /\ p.proto = "icmp" =>
            /\ w[1] = EchoRequestType(p.fam) * 256 /\ w[3] = Ident /\ w[5] = Ident
            /\ w[7] = 0 /\ w[8] = 7 /\ w[9] = Marker(p)
      /\ p.proto = "udp" => w[6] = UdpMagic[1] /\ w[7] = UdpMagic[2]
    BY EncodedWords
<1>2. Encode(p) \in PacketOf(p) /\ p.proto \in {"icmp", "udp", "tcp"} /\ p.fate.port \in Maybe(Word)
    BY EncodedPacket, ProbeFields
<1>5. Len(w) \in 7..10 /\ (p.proto = "icmp" => Len(w) = 9)
    <2>1. IdWords(w, p) /\ p.proto \in {"icmp", "udp", "tcp"}  BY <1>1, <1>2
    <2> HIDE DEF w
    <2>2. p.proto = "icmp" => Len(w) = 9  BY <2>1 DEF IdWords
    <2>3. Len(w) \in {7, 9, 10}  BY <2>1 DEF IdWords
    <2>4. \A n \in {7, 9, 10} : n \in 7..10  OBVIOUS
    <2> QED  BY <2>2, <2>3, <2>4
<1>3. CASE ~Some(p.fate.port)
    <2>1. g = Encode(p)  BY <1>3 DEF Translated
    <2> QED  BY <1>1, <1>2, <1>3, <2>1 DEF Kept
<1>4. CASE Some(p.fate.port)
    <2> DEFINE v == [w EXCEPT ![1] = p.fate.port]
    <2>1. Len(w) \in Nat /\ Len(w) >= 7 /\ p.fate.port \in Int
        <3> HIDE DEF v, w, g
        <3>1. p.fate.port \in Int  BY <1>2, <1>4, PresentWord
        <3>2. \A n \in 7..10 : n \in Nat /\ n >= 7  OBVIOUS
        <3>3. Len(w) \in Nat /\ Len(w) >= 7  BY <1>5, <3>2
        <3> QED  BY <3>1, <3>3
    <2>2. /\ v \in Seq(Int) /\ Len(v) = Len(w) /\ v[1] = p.fate.port
          /\ \A j \in 1..Len(w) : j # 1 => v[j] = w[j]
        <3>1. 1 \in 1..Len(w) /\ v = [w EXCEPT ![1] = p.fate.port]  BY <2>1
        <3>2. w \in Seq(Int)  BY <1>1
        <3> HIDE DEF v, w
        <3>3. IsReplaced(v, w, 1, p.fate.port)  BY <2>1, <3>1, <3>2, Replaced
        <3> QED  BY <3>3 DEF IsReplaced
    <2>3. g = [Encode(p) EXCEPT !.words = v]
        BY <1>2, <1>4 DEF Translated, RewritePort, PacketOf
    <2> HIDE DEF v, g
    <2>4. g \in PacketOf(p) /\ g.words = v
        BY <1>2, <2>2, <2>3, WithWords
    <2>5. IdWords(v, p)
        <3> HIDE DEF w
        <3> HIDE DEF v
        <3>1. p.proto = "icmp" => Len(w) = 9 /\ v[4] = w[4] /\ v[6] = w[6]
            <4>1. SUFFICES ASSUME p.proto = "icmp" PROVE Len(w) = 9 /\ v[4] = w[4] /\ v[6] = w[6]
                OBVIOUS
            <4>2. Len(w) = 9  BY <1>5, <4>1
            <4>3. 4 \in 1..Len(w) /\ 6 \in 1..Len(w)  BY <4>2
            <4> QED  BY <2>2, <4>2, <4>3
        <3>2. p.proto = "udp" => v[5] = w[5]  BY <2>1, <2>2
        <3>3. p.proto = "tcp" => v[3] = w[3]  BY <2>1, <2>2
        <3> QED  BY <1>1, <2>2, <3>1, <3>2, <3>3 DEF IdWords
    <2>6. /\ p.proto = "udp" => v[6] = UdpMagic[1] /\ v[7] = UdpMagic[2]
          /\ p.proto = "icmp" =>
                /\ v[3] = Ident /\ v[5] = Ident
                /\ v[7] = 0 /\ v[8] = 7 /\ v[9] = Marker(p)
        <3>1. p.proto = "udp" => v[6] = w[6] /\ v[7] = w[7]
            <4>1. 6 \in 1..Len(w) /\ 7 \in 1..Len(w)
                <5> HIDE DEF v, w, g
                <5> QED  BY <2>1
            <4> HIDE DEF v, w, g
            <4> QED  BY <2>2, <4>1
        <3>2. p.proto = "icmp" => v[3] = w[3] /\ v[5] = w[5] /\ v[7] = w[7] /\ v[8] = w[8] /\ v[9] = w[9]
            <4>1. p.proto = "icmp" => Len(w) = 9  BY <1>1 DEF IdWords
            <4> QED  BY <2>2, <4>1
        <3> HIDE DEF w
        <3> QED  BY <1>1, <3>1, <3>2
    <2> QED  BY <1>4, <2>2, <2>4, <2>5, <2>6 DEF Kept, g
<1> QED  BY <1>3, <1>4

\* The checksum and the identifiers are not what is kept.
LEMMA KeptExcept ==
    ASSUME NEW p, p.proto = "icmp", NEW w, Kept(w, p), NEW v \in Seq(Int), Len(v) = Len(w),
           \A j \in 1..Len(w) : j \notin {2, 3, 5} => v[j] = w[j]
    PROVE  Kept(v, p)
<1>1. Len(w) = 9 /\ w[4] = ToSequence(p.id) /\ w[6] = ToSequence(p.id)
    BY DEF Kept, IdWords
<1>2. v[1] = w[1] /\ v[4] = w[4] /\ v[6] = w[6] /\ v[7] = w[7] /\ v[8] = w[8] /\ v[9] = w[9]
    BY <1>1
<1>3. IdWords(v, p)
    BY <1>1, <1>2 DEF IdWords
<1> QED  BY <1>2, <1>3 DEF Kept

LEMMA RenamedWords ==
    ASSUME NEW q \in Profiles, NEW p \in Probes(q)
    PROVE  /\ Renamed(p) \in PacketOf(p) /\ Kept(Renamed(p).words, p)
           /\ p.proto = "icmp" =>
                /\ Renamed(p).words[3] = IF Some(p.fate.ident) THEN p.fate.ident ELSE Ident
                /\ Renamed(p).words[5] = Ident
<1> DEFINE k == Translated(p)
           w == k.words
           g == Renamed(p)
<1>1. k \in PacketOf(p) /\ Kept(w, p) /\ (p.proto = "icmp" => w[3] = Ident /\ w[5] = Ident)
    BY TranslatedWords
<1>2. Some(p.fate.ident) => p.proto = "icmp"
    BY ProbeFields
<1>3. CASE ~Some(p.fate.ident)
    <2>1. g = k  BY <1>3 DEF Renamed
    <2> QED  BY <1>1, <1>3, <2>1
<1>4. CASE Some(p.fate.ident)
    <2> DEFINE x == p.fate.ident
               u1 == [w EXCEPT ![3] = x]
               u2 == [u1 EXCEPT ![2] = 0]
               v == IF p.fam = 4 THEN [u2 EXCEPT ![2] = InternetChecksum(u2)] ELSE u2
    <2>1. w \in Seq(Int) /\ Len(w) = 9 /\ p.proto = "icmp"
        BY <1>1, <1>2, <1>4 DEF Kept, IdWords
    <2>2. x \in Int
        <3>1. x \in Maybe(Word)  BY ProbeFields
        <3> HIDE DEF x
        <3> QED  BY <1>4, <3>1, PresentWord DEF x
    <2>3. g = [k EXCEPT !.words = v]
        <3>1. g = RewriteIdent(k, x)  BY <1>4 DEF Renamed
        <3>2. k.fam = p.fam  BY <1>1 DEF PacketOf
        <3>3. u2 = [w EXCEPT ![3] = x, ![2] = 0]  BY <2>1
        <3> HIDE DEF u1, u2, x, k, g
        <3> QED  BY <3>1, <3>2, <3>3 DEF RewriteIdent
    <2> HIDE DEF w, x, k, g
    <2>4. /\ u1 \in Seq(Int) /\ Len(u1) = 9 /\ u1[3] = x
          /\ \A j \in 1..9 : j # 3 => u1[j] = w[j]
        <3>1. 3 \in 1..Len(w) /\ u1 = [w EXCEPT ![3] = x]  BY <2>1
        <3> HIDE DEF u1
        <3>2. IsReplaced(u1, w, 3, x)  BY <2>1, <2>2, <3>1, Replaced
        <3> QED  BY <2>1, <3>2 DEF IsReplaced
    <2> HIDE DEF u1
    <2>5. /\ u2 \in Seq(Int) /\ Len(u2) = 9 /\ u2[3] = x
          /\ \A j \in 1..9 : j \notin {2, 3} => u2[j] = w[j]
        <3>1. 2 \in 1..Len(u1) /\ u2 = [u1 EXCEPT ![2] = 0]  BY <2>4
        <3> HIDE DEF u2
        <3>2. 0 \in Int  OBVIOUS
        <3>3. IsReplaced(u2, u1, 2, 0)  BY <2>4, <3>1, <3>2, Replaced
        <3> QED  BY <2>4, <3>3 DEF IsReplaced
    <2> HIDE DEF u2
    <2>6. /\ v \in Seq(Int) /\ Len(v) = 9 /\ v[3] = x
          /\ \A j \in 1..9 : j \notin {2, 3} => v[j] = w[j]
        <3>1. CASE p.fam # 4  BY <2>5, <3>1
        <3>2. CASE p.fam = 4
            <4> DEFINE y == InternetChecksum(u2)
            <4>1. v = [u2 EXCEPT ![2] = y] /\ y \in Int /\ 2 \in 1..Len(u2)
                BY <2>5, <3>2, ChecksumIsNumber
            <4> HIDE DEF v, y
            <4>2. IsReplaced(v, u2, 2, y)
                BY <2>5, <4>1, Replaced
            <4> QED  BY <2>5, <4>2 DEF IsReplaced
        <3> QED  BY <3>1, <3>2
    <2> HIDE DEF v
    <2>7. g \in PacketOf(p) /\ g.words = v
        BY <1>1, <2>3, <2>6, WithWords
    <2>8. Kept(v, p)
        <3>1. Len(v) = Len(w) /\ \A j \in 1..Len(w) : j \notin {2, 3, 5} => v[j] = w[j]
            BY <2>1, <2>6
        <3> QED  BY <1>1, <2>1, <2>6, <3>1, KeptExcept
    <2>9. v[5] = w[5]  BY <2>6
    <2> QED  BY <1>1, <1>4, <2>1, <2>6, <2>7, <2>8, <2>9 DEF g, x
<1> QED  BY <1>3, <1>4

LEMMA CarriedWords ==
    ASSUME NEW q \in Profiles, NEW p \in Probes(q)
    PROVE  /\ Carried(p) \in PacketOf(p) /\ Kept(Carried(p).words, p)
           /\ p.proto = "icmp" =>
                /\ Carried(p).words[3] = IF p.fate.foreign THEN Ident + 1
                                         ELSE IF Some(p.fate.ident) THEN p.fate.ident ELSE Ident
                /\ Carried(p).words[5] = IF p.fate.foreign THEN Ident + 1 ELSE Ident
<1> DEFINE k == Renamed(p)
           w == k.words
           g == Carried(p)
<1>1. /\ k \in PacketOf(p) /\ Kept(w, p)
      /\ p.proto = "icmp" => /\ w[3] = IF Some(p.fate.ident) THEN p.fate.ident ELSE Ident
                             /\ w[5] = Ident
    BY RenamedWords
<1>2. p.fate.foreign => p.proto = "icmp"
    BY ProbeFields
<1>3. CASE ~p.fate.foreign
    <2>1. g = k  BY <1>3 DEF Carried
    <2> QED  BY <1>1, <1>3, <2>1
<1>4. CASE p.fate.foreign
    <2> DEFINE x == Ident + 1
               u == [w EXCEPT ![3] = x]
               v == [u EXCEPT ![5] = x]
    <2>1. w \in Seq(Int) /\ Len(w) = 9 /\ p.proto = "icmp" /\ x \in Int
        <3>1. w \in Seq(Int) /\ Len(w) = 9 /\ p.proto = "icmp"  BY <1>1, <1>2, <1>4 DEF Kept, IdWords
        <3>2. x \in Int  BY WireNumbers
        <3> QED  BY <3>1, <3>2
    <2>2. g = [k EXCEPT !.words = v]
        <3>1. v = [w EXCEPT ![3] = x, ![5] = x]  BY <2>1
        <3>2. g = [k EXCEPT !.words = [w EXCEPT ![3] = x, ![5] = x]]  BY <1>4 DEF Carried
        <3> QED  BY <3>1, <3>2
    <2> HIDE DEF w, x, k, g
    <2>3. /\ u \in Seq(Int) /\ Len(u) = 9 /\ u[3] = x
          /\ \A j \in 1..9 : j # 3 => u[j] = w[j]
        <3>1. 3 \in 1..Len(w) /\ u = [w EXCEPT ![3] = x]  BY <2>1
        <3> HIDE DEF u
        <3>2. IsReplaced(u, w, 3, x)  BY <2>1, <3>1, Replaced
        <3> QED  BY <2>1, <3>2 DEF IsReplaced
    <2> HIDE DEF u
    <2>4. /\ v \in Seq(Int) /\ Len(v) = 9 /\ v[3] = x /\ v[5] = x
          /\ \A j \in 1..9 : j \notin {3, 5} => v[j] = w[j]
        <3>1. 5 \in 1..Len(u) /\ v = [u EXCEPT ![5] = x]  BY <2>3
        <3> HIDE DEF v
        <3>2. IsReplaced(v, u, 5, x)  BY <2>1, <2>3, <3>1, Replaced
        <3> QED  BY <2>3, <3>2 DEF IsReplaced
    <2> HIDE DEF v
    <2>5. g \in PacketOf(p) /\ g.words = v
        BY <1>1, <2>2, <2>4, WithWords
    <2>6. Kept(v, p)
        <3>1. Len(v) = Len(w) /\ \A j \in 1..Len(w) : j \notin {2, 3, 5} => v[j] = w[j]
            BY <2>1, <2>4
        <3> QED  BY <1>1, <2>1, <2>4, <3>1, KeptExcept
    <2> QED  BY <1>4, <2>4, <2>5, <2>6 DEF g, x
<1> QED  BY <1>3, <1>4

\* The two kinds of answers.
ErrorOf(p) ==
    IcmpError(Carried(p), p.fate.type, p.fate.code, p.fate.mtu, p.fate.quotedTtl, p.fate.bytes,
              p.fate.chain, p.fate.ext)

LEMMA MessageIs ==
    ASSUME NEW p
    PROVE  Message(p) = IF p.fate.echo THEN EchoReply(Carried(p)) ELSE ErrorOf(p)
BY DEF Message, ErrorOf, Carried, Renamed, Translated

\* The words of a reply, from the third on, are those of the request; the second
\* is the checksum of them all.
Sealed(v) ==
    \E u \in Seq(Int) : Len(u) = 9 /\ u[1] = 0 /\ u[2] = 0 /\ v = [u EXCEPT ![2] = InternetChecksum(u)]

IsReplyTo(m, p) ==
    /\ m.words \in Seq(Int) /\ Len(m.words) = 9 /\ m.fam = p.fam /\ m.ext = None
    /\ \A j \in 3..9 : m.words[j] = Carried(p).words[j]
    /\ m.type = IF p.fam = 6 THEN 129 ELSE 0
    /\ p.fam = 4 => Sealed(m.words)

LEMMA ReplyWords ==
    ASSUME NEW q \in Profiles, NEW p \in Probes(q), p.proto = "icmp",
           NEW m, m = EchoReply(Carried(p))
    PROVE  IsReplyTo(m, p)
<1> DEFINE k == Carried(p)
           w == k.words
           x == IF p.fam = 6 THEN 129 * 256 ELSE 0
           u1 == [w EXCEPT ![1] = x]
           u2 == [u1 EXCEPT ![2] = 0]
           v == IF p.fam = 4 THEN [u2 EXCEPT ![2] = InternetChecksum(u2)] ELSE u2
<1>1. k \in PacketOf(p) /\ k.fam = p.fam /\ w \in Seq(Int) /\ Len(w) = 9
    BY CarriedWords DEF Kept, IdWords, PacketOf
<1>2. m = [fam |-> p.fam, type |-> Hi(u2[1]), code |-> 0, length |-> 0, mtu |-> 0, ext |-> None,
           quote |-> None, words |-> v]
    <2>1. u2 = [w EXCEPT ![1] = x, ![2] = 0]  BY <1>1
    <2>2. x = IF k.fam = 6 THEN 129 * 256 ELSE 0  BY <1>1
    <2> DEFINE u == [k.words EXCEPT ![1] = IF k.fam = 6 THEN 129 * 256 ELSE 0, ![2] = 0]
    <2>3. EchoReply(k) = [fam |-> k.fam, type |-> Hi(u[1]), code |-> 0, length |-> 0, mtu |-> 0,
                          ext |-> None, quote |-> None,
                          words |-> IF k.fam = 4 THEN [u EXCEPT ![2] = InternetChecksum(u)] ELSE u]
        BY Zenon DEF EchoReply
    <2>4. u = u2  BY <2>1, <2>2
    <2> HIDE DEF u2, u, x, k
    <2> QED  BY <1>1, <2>3, <2>4 DEF k
<1>3. x \in Int /\ (Hi(x) = IF p.fam = 6 THEN 129 ELSE 0) /\ (p.fam = 4 => x = 0)
    BY DEF Hi
<1> HIDE DEF w, x
<1>4. u1 \in Seq(Int) /\ Len(u1) = 9 /\ u1[1] = x /\ \A j \in 3..9 : u1[j] = w[j]
    <2>1. 1 \in 1..Len(w) /\ u1 = [w EXCEPT ![1] = x]  BY <1>1
    <2> HIDE DEF u1
    <2>2. IsReplaced(u1, w, 1, x)  BY <1>1, <1>3, <2>1, Replaced
    <2> QED  BY <1>1, <2>2 DEF IsReplaced
<1> HIDE DEF u1
<1>5. u2 \in Seq(Int) /\ Len(u2) = 9 /\ u2[1] = x /\ u2[2] = 0 /\ \A j \in 3..9 : u2[j] = w[j]
    <2>1. 2 \in 1..Len(u1) /\ u2 = [u1 EXCEPT ![2] = 0] /\ 0 \in Int  BY <1>4
    <2> HIDE DEF u2
    <2>2. IsReplaced(u2, u1, 2, 0)  BY <1>4, <2>1, Replaced
    <2> QED  BY <1>4, <2>2 DEF IsReplaced
<1> HIDE DEF u2
<1>6. v \in Seq(Int) /\ Len(v) = 9 /\ \A j \in 3..9 : v[j] = w[j]
    <2>1. CASE p.fam # 4  BY <1>5, <2>1
    <2>2. CASE p.fam = 4
        <3> DEFINE y == InternetChecksum(u2)
        <3>1. v = [u2 EXCEPT ![2] = y] /\ y \in Int /\ 2 \in 1..Len(u2)
            BY <1>5, <2>2, ChecksumIsNumber
        <3> HIDE DEF v, y
        <3>2. IsReplaced(v, u2, 2, y)  BY <1>5, <3>1, Replaced
        <3> QED  BY <1>5, <3>2 DEF IsReplaced
    <2> QED  BY <2>1, <2>2
<1>8. p.fam = 4 => Sealed(v)
    BY <1>3, <1>5, Zenon DEF Sealed
<1> HIDE DEF v
<1>7. m.words = v /\ m.fam = p.fam /\ m.ext = None /\ m.type = Hi(x)
    BY <1>2, <1>5
<1> QED  BY <1>3, <1>6, <1>7, <1>8 DEF w, IsReplyTo

\* Whatever identifier it is found by, the sequence number is the probe's.
LEMMA EchoSequenceIs ==
    ASSUME NEW w, NEW n, NEW k, k = EchoSequence(w), Some(k), w[4] = n, Len(w) >= 6 => w[6] = n
    PROVE  k = n
BY DEF EchoSequence, Some

LEMMA ParsedFields ==
    ASSUME NEW m, NEW type, NEW id, NEW pmtud, NEW port, NEW mtu, NEW ttl, NEW dest,
           NEW r, r = Parsed(m, type, id, pmtud, port, mtu, ttl, dest)
    PROVE  /\ r.id = id /\ r.port = port /\ r.dest = dest /\ r.type = type /\ r.pmtud = pmtud
BY DEF Parsed

\* An echo reply that is recognised is that of its probe.
LEMMA ReplyParsed ==
    ASSUME NEW q \in Profiles, NEW p \in Probes(q), p.fate.echo, NEW r, r = ParsedOf(p), Some(r)
    PROVE  r.id = p.id /\ r.port = None /\ r.type = "EchoReply"
<1> DEFINE m == Message(p)
<1>1. p.proto = "icmp" /\ m = EchoReply(Carried(p)) /\ p.fam \in {4, 6}
      /\ p.id \in [ttl : 1..MaxTtl, seq : Byte]
    BY MessageIs, ProbeFields
<1>2. /\ Len(m.words) = 9 /\ m.fam = p.fam /\ m.type = IF p.fam = 6 THEN 129 ELSE 0
      /\ m.words[4] = Carried(p).words[4] /\ m.words[6] = Carried(p).words[6]
    <2>1. /\ Len(m.words) = 9 /\ m.fam = p.fam /\ m.type = IF p.fam = 6 THEN 129 ELSE 0
          /\ \A j \in 3..9 : m.words[j] = Carried(p).words[j]
        <3> HIDE DEF m
        <3>1. IsReplyTo(m, p)  BY <1>1, ReplyWords
        <3> QED  BY <3>1 DEF IsReplyTo
    <2>2. 4 \in 3..9 /\ 6 \in 3..9  OBVIOUS
    <2> HIDE DEF m
    <2> QED  BY <2>1, <2>2
<1>3. m.words[4] = ToSequence(p.id) /\ m.words[6] = ToSequence(p.id)
    BY <1>1, <1>2, CarriedWords DEF Kept, IdWords
<1>4. r = ParseIcmpResponse(m, p.fate.from, p.fate.dgram)
    BY DEF ParsedOf
<1> HIDE DEF m
<1>5. r = ParseEchoReply(m, p.fate.from)
    <2>1. CASE p.fam = 6  BY <1>2, <1>4, <2>1 DEF ParseIcmpResponse, ParseV6Dgram
    <2>2. CASE p.fam = 4  BY <1>2, <1>4, <2>2 DEF ParseIcmpResponse, ParseV4, ParseV4Dgram
    <2> QED  BY <1>1, <2>1, <2>2
<1> DEFINE seq == EchoSequence(m.words)
<1>6. Some(seq) /\ r = Parsed(m, "EchoReply", FromSequence(seq),
                Len(m.words) >= 9 /\ Hi(m.words[9]) = PmtudMarker, None, None, None, p.fate.from)
    BY <1>5 DEF ParseEchoReply, Some
<1>7. seq = ToSequence(p.id)
    BY <1>3, <1>6, EchoSequenceIs
<1> HIDE DEF seq
<1>8. r.id = FromSequence(seq) /\ r.port = None /\ r.type = "EchoReply"
    BY <1>6, ParsedFields
<1> QED  BY <1>1, <1>7, <1>8, SequenceHoldsId

\* A prefix of a sequence.
LEMMA Prefix ==
    ASSUME NEW w \in Seq(Int), NEW b \in Nat, NEW k, k = SubSeq(w, 1, Min({b \div 2, Len(w)}))
    PROVE  /\ k \in Seq(Int) /\ Len(k) <= Len(w) /\ \A j \in 1..Len(k) : k[j] = w[j]
           /\ Len(k) = IF b \div 2 <= Len(w) THEN b \div 2 ELSE Len(w)
<1> DEFINE n == Min({b \div 2, Len(w)})
<1>1. b \div 2 \in Nat /\ Len(w) \in Nat
    OBVIOUS
<1>9. n = IF b \div 2 <= Len(w) THEN b \div 2 ELSE Len(w)
    BY <1>1, MinOfTwo
<1>2. n \in 0..Len(w)
    <2> HIDE DEF n
    <2> QED  BY <1>1, <1>9
<1> HIDE DEF n
<1>3. k = SubSeq(w, 1, n)  BY DEF n
<1>4. 1 \in 1..(Len(w) + 1) /\ n \in 0..Len(w) /\ n \in Nat  BY <1>1, <1>2
<1>5. /\ k \in Seq(Int) /\ Len(k) = IF 1 <= n THEN n - 1 + 1 ELSE 0
      /\ \A j \in 1..(n - 1 + 1) : k[j] = w[1 + j - 1]
    <2>1. \A i \in 1..n : w[i] \in Int  BY <1>1, <1>4
    <2>2. 1 \in Int /\ n \in Int  BY <1>4
    <2>3. SubSeq(w, 1, n) \in Seq(Int)  BY <2>1, <2>2, SubSeqProperties
    <2>4. Len(SubSeq(w, 1, n)) = IF 1 <= n THEN n - 1 + 1 ELSE 0  BY <2>1, <2>2, SubSeqProperties
    <2>5. \A j \in 1..(n - 1 + 1) : SubSeq(w, 1, n)[j] = w[1 + j - 1]  BY <2>1, <2>2, SubSeqProperties
    <2> QED  BY <1>3, <2>3, <2>4, <2>5
<1>6. Len(k) = n /\ \A j \in 1..n : k[j] = w[j]
    <2>1. n - 1 + 1 = n /\ \A j \in 1..n : 1 + j - 1 = j  BY <1>4
    <2>2. Len(k) = n  BY <1>4, <1>5
    <2>3. ASSUME NEW j \in 1..n PROVE k[j] = w[j]
        <3>1. j \in 1..(n - 1 + 1) /\ 1 + j - 1 = j  BY <1>4
        <3>2. k[j] = w[1 + j - 1]  BY <1>5, <3>1
        <3> QED  BY <3>1, <3>2
    <2> QED  BY <2>2, <2>3
<1>7. Len(k) <= Len(w)
    <2>1. n <= Len(w)  BY <1>1, <1>2
    <2>2. Len(k) = n  BY <1>6
    <2> QED  BY <2>1, <2>2
<1>8. \A j \in 1..Len(k) : k[j] = w[j]  BY <1>6
<1> QED  BY <1>5, <1>6, <1>7, <1>8, <1>9

\* What an error quotes.
Quotes(m, p) ==
    /\ m.fam = p.fam /\ m.words = <<>> /\ m.type = p.fate.type
    /\ m.quote.proto = p.proto /\ m.quote.dest = p.dest
    /\ m.quote.words \in Seq(Int)
    /\ \A j \in 1..Len(m.quote.words) :
        j <= Len(Carried(p).words) /\ m.quote.words[j] = Carried(p).words[j]

LEMMA ErrorWords ==
    ASSUME NEW q \in Profiles, NEW p \in Probes(q), NEW m, m = ErrorOf(p)
    PROVE  Quotes(m, p)
<1> DEFINE k == Carried(p)
           w == k.words
           n == p.fate.bytes
           part == SubSeq(w, 1, Min({n \div 2, Len(w)}))
<1>1. k.fam = p.fam /\ k.proto = p.proto /\ k.dest = p.dest /\ w \in Seq(Int)
    BY CarriedWords DEF Kept, PacketOf
<1>2. n \in Nat
    <2>1. p.fate \in Fates  BY ProbeFields
    <2> QED  BY <2>1 DEF Fates
<1>3. /\ m.fam = k.fam /\ m.words = <<>> /\ m.type = p.fate.type
      /\ m.quote.proto = k.proto /\ m.quote.dest = k.dest /\ m.quote.words = part
    BY DEF ErrorOf, IcmpError
<1> HIDE DEF w, k, n
<1>4. part \in Seq(Int) /\ Len(part) <= Len(w) /\ \A j \in 1..Len(part) : part[j] = w[j]
    BY <1>1, <1>2, Prefix
<1> HIDE DEF part
<1> QED  BY <1>1, <1>3, <1>4 DEF Quotes, w, k

\* An error that is recognised quotes its probe, with the port it had.
LEMMA QuoteParsed ==
    ASSUME NEW q \in Profiles, NEW p \in Probes(q), NEW m, Quotes(m, p), Len(m.quote.words) >= 4,
           NEW type, NEW mtu, NEW r, r = ParseQuoted(m, type, mtu), Some(r)
    PROVE  /\ r.id = p.id /\ r.type = type /\ r.dest = p.dest
           /\ r.port \in Int \cup {None}
<1> DEFINE w == m.quote.words
           c == Carried(p).words
           seq == CASE m.quote.proto = "icmp" -> IF Hi(w[1]) # EchoRequestType(m.fam) THEN None
                                                 ELSE EchoSequence(w)
                    [] m.quote.proto = "tcp"  -> TcpSequence(w)
                    [] m.quote.proto = "udp"  -> UdpSequence(w)
                    [] OTHER                  -> None
           port == IF m.quote.proto = "icmp" THEN None ELSE w[1]
<1>1. /\ w \in Seq(Int) /\ m.quote.proto = p.proto /\ m.quote.dest = p.dest
      /\ \A j \in 1..Len(w) : j <= Len(c) /\ w[j] = c[j]
    BY DEF Quotes
<1>2. p.proto \in {"icmp", "udp", "tcp"} /\ p.id \in [ttl : 1..MaxTtl, seq : Byte]
    BY ProbeFields
<1>3. IdWords(c, p)
    BY CarriedWords DEF Kept
<1>4. Some(seq) /\ r = Parsed(m, type, FromSequence(seq), FALSE, port, mtu, m.quote.ttl, m.quote.dest)
    BY DEF ParseQuoted, Some
<1> HIDE DEF w, c
<1>5. port \in Int \cup {None}
    <2>1. 1 \in 1..Len(w)  BY <1>1 DEF w
    <2> QED  BY <1>1, <2>1
<1>6. seq = ToSequence(p.id)
    <2>1. CASE p.proto = "icmp"
        <3>1. seq = EchoSequence(w)
            BY <1>1, <1>4, <2>1 DEF Some
        <3>2. 4 \in 1..Len(w) /\ (Len(w) >= 6 => 6 \in 1..Len(w))  BY <1>1 DEF w
        <3>3. w[4] = ToSequence(p.id) /\ (Len(w) >= 6 => w[6] = ToSequence(p.id))
            BY <1>1, <1>3, <2>1, <3>2 DEF IdWords
        <3> HIDE DEF seq
        <3> QED  BY <1>4, <3>1, <3>3, EchoSequenceIs
    <2>2. CASE p.proto = "tcp"
        <3>1. seq = w[3]
            BY <1>1, <2>2 DEF TcpSequence
        <3>2. 3 \in 1..Len(w)  BY <1>1 DEF w
        <3> QED  BY <1>1, <1>3, <2>2, <3>1, <3>2 DEF IdWords
    <2>3. CASE p.proto = "udp"
        <3>1. seq = UdpSequence(w)
            BY <1>1, <2>3
        <3>2. Len(w) >= 7 /\ seq = w[5]
            BY <1>1, <1>4, <3>1 DEF UdpSequence, Some
        <3>3. 5 \in 1..Len(w)  BY <1>1, <3>2
        <3> QED  BY <1>1, <1>3, <2>3, <3>2, <3>3 DEF IdWords
    <2> QED  BY <1>2, <2>1, <2>2, <2>3
<1> HIDE DEF seq, port
<1>7. r.id = FromSequence(seq) /\ r.port = port /\ r.dest = m.quote.dest /\ r.type = type
    BY <1>4 DEF Parsed
<1> QED  BY <1>1, <1>2, <1>5, <1>6, <1>7, SequenceHoldsId

LEMMA ErrorParsed ==
    ASSUME NEW q \in Profiles, NEW p \in Probes(q), ~p.fate.echo, NEW r, r = ParsedOf(p), Some(r)
    PROVE  r.id = p.id /\ r.port \in Int \cup {None} /\ r.dest = p.dest /\ r.type # "EchoReply"
<1> DEFINE m == Message(p)
<1>1. Quotes(m, p)
    <2>1. m = ErrorOf(p)  BY MessageIs
    <2> HIDE DEF m
    <2> QED  BY <2>1, ErrorWords
<1>2. r = ParseIcmpResponse(m, p.fate.from, p.fate.dgram)
    BY DEF ParsedOf
<1> HIDE DEF m
<1>3. \E type \in {"TimeExceeded", "DestUnreachable", "PacketTooBig"}, mtu \in {None, MtuV4(m), MtuV6(m)} :
        r = ParseQuoted(m, type, mtu) /\ Len(m.quote.words) >= 4
    <2>1. ParseEchoReply(m, p.fate.from) = None
        BY <1>1 DEF Quotes, ParseEchoReply
    <2>2. r \in {ParseEchoReply(m, p.fate.from), None, ErrorV4(m, "TimeExceeded", None),
                 ErrorV4(m, "DestUnreachable", MtuV4(m)), ErrorV6(m, "PacketTooBig", MtuV6(m)),
                 ErrorV6(m, "TimeExceeded", None), ErrorV6(m, "DestUnreachable", None)}
        <3>1. \A type, mtu : ErrorV4Dgram(m, type, mtu) = ErrorV4(m, type, mtu)
            BY Zenon DEF ErrorV4Dgram, ErrorV4
        <3> QED  BY <1>2, <3>1 DEF ParseIcmpResponse, ParseV4, ParseV4Dgram, ParseV6Dgram
    <2>3. m.quote.words \in Seq(Int)  BY <1>1 DEF Quotes
    <2>4. \A type, mtu : ErrorV4(m, type, mtu) = None \/
            (ErrorV4(m, type, mtu) = ParseQuoted(m, type, mtu) /\ Len(m.quote.words) >= 4)
        BY <2>3 DEF ErrorV4
    <2>5. \A type, mtu : ErrorV6(m, type, mtu) = None \/
            (ErrorV6(m, type, mtu) = ParseQuoted(m, type, mtu) /\ Len(m.quote.words) >= 4)
        <3>1. Len(m.quote.words) < 4 \/ Len(m.quote.words) >= 4  BY <2>3
        <3> QED  BY <3>1, Zenon DEF ErrorV6
    <2> QED  BY <2>1, <2>2, <2>4, <2>5 DEF Some
<1> QED  BY <1>1, <1>3, QuoteParsed

\* Any answer that is recognised is that of its probe: no rewriting, quoting or
\* identifier makes it another's.
LEMMA AnswerNamesProbe ==
    ASSUME NEW q \in Profiles, NEW p \in Probes(q), NEW r, r = ParsedOf(p), Some(r)
    PROVE  r.id = p.id /\ r.port \in Int \cup {None}
<1>1. CASE p.fate.echo  BY <1>1, ReplyParsed
<1>2. CASE ~p.fate.echo  BY <1>2, ErrorParsed
<1> QED  BY <1>1, <1>2

\* A port tells no flow but those in use.
LEMMA HintIsFlow ==
    ASSUME NEW q \in Profiles, NEW port \in Int \cup {None},
           NEW h, h = DeriveFlowHint(port, q.flows)
    PROVE  h = None \/ h \in FlowIds
<1>1. q.flows \in Nat \ {0} /\ 0..(q.flows - 1) \subseteq FlowIds
    BY ProfilesAssumption
<1>2. SrcPortBase \in Nat /\ None \notin Int
    BY WireNumbers
<1>3. CASE Some(port)
    <2>1. port \in Int  BY <1>3 DEF Some
    <2>2. (SrcPortBase + q.flows) % W16 <= SrcPortBase + q.flows
        BY <1>1, <1>2 DEF W16
    <2>3. (SrcPortBase + q.flows) % W16 \in Int
        BY <1>1, <1>2 DEF W16
    <2> DEFINE end == (SrcPortBase + q.flows) % W16
    <2>4. h = IF port >= SrcPortBase /\ port < end THEN port - SrcPortBase ELSE None
        BY <1>3 DEF DeriveFlowHint
    <2> HIDE DEF end
    <2>5. ASSUME port >= SrcPortBase /\ port < end PROVE port - SrcPortBase \in 0..(q.flows - 1)
        BY <1>1, <1>2, <2>1, <2>2, <2>3, <2>5 DEF end
    <2> QED  BY <1>1, <2>4, <2>5
<1>4. CASE ~Some(port)
    BY <1>1, <1>4 DEF DeriveFlowHint
<1> QED  BY <1>3, <1>4
-----------------------------------------------------------------------------
(* Sessions: what each operator changes of one.                             *)

EventType == [ttl : TTLs, flow : FlowIds, outcome : Outcomes, addr : Addrs \cup {NoAddr}]

SessionType ==
    [hops : [TTLs -> HopType], complete : BOOLEAN, dest : TTLs \cup {None}, totalSent : Nat,
     events : Seq(EventType)]

\* s2 is s with the hop g at t.
IsWith(s, s2, t, g) ==
    /\ s2 \in SessionType
    /\ s2.hops[t] = g /\ \A u \in TTLs : u # t => s2.hops[u] = s.hops[u]
    /\ s2.complete = s.complete /\ s2.dest = s.dest /\ s2.events = s.events

PutHop(s, t, g, n) == [s EXCEPT !.hops[t] = g, !.totalSent = n]

LEMMA WithHop ==
    ASSUME NEW s \in SessionType, NEW t \in TTLs, NEW g \in HopType, NEW n \in Nat,
           NEW s2, s2 = PutHop(s, t, g, n)
    PROVE  IsWith(s, s2, t, g) /\ s2.totalSent = n
<1> DEFINE every == [s.hops EXCEPT ![t] = g]
<1>1. s2 = [hops |-> every, complete |-> s.complete, dest |-> s.dest, totalSent |-> n, events |-> s.events]
    BY DEF SessionType, PutHop
<1>2. every \in [TTLs -> HopType] /\ every[t] = g /\ \A u \in TTLs : u # t => every[u] = s.hops[u]
    BY DEF SessionType
<1>3. s.complete \in BOOLEAN /\ s.dest \in TTLs \cup {None} /\ s.events \in Seq(EventType)
    BY DEF SessionType
<1> HIDE DEF every
<1>4. s2 \in SessionType
    BY <1>1, <1>2, <1>3 DEF SessionType
<1>5. s2.hops = every /\ s2.dest = s.dest /\ s2.totalSent = n /\ s2.events = s.events
    <2>1. s2.hops = every  BY <1>1
    <2>2. s2.dest = s.dest  BY <1>1
    <2>3. s2.totalSent = n  BY <1>1
    <2>4. s2.events = s.events  BY <1>1
    <2> QED  BY <2>1, <2>2, <2>3, <2>4
<1>6. s2.complete = s.complete
    BY <1>1
<1> QED  BY <1>2, <1>4, <1>5, <1>6 DEF IsWith

\* s2 is s with one more event.
IsLoggedIn(s, s2, e) ==
    /\ s2 \in SessionType
    /\ s2.hops = s.hops /\ s2.complete = s.complete /\ s2.dest = s.dest
    /\ s2.totalSent = s.totalSent /\ s2.events = Append(s.events, e)

LEMMA WithEvent ==
    ASSUME NEW s \in SessionType, NEW t \in TTLs, NEW f \in FlowIds, NEW o \in Outcomes,
           NEW a \in Addrs \cup {NoAddr}, NEW s2, s2 = RecordEvent(s, t, f, o, a)
    PROVE  /\ [ttl |-> t, flow |-> f, outcome |-> o, addr |-> a] \in EventType
           /\ IsLoggedIn(s, s2, [ttl |-> t, flow |-> f, outcome |-> o, addr |-> a])
<1> DEFINE e == [ttl |-> t, flow |-> f, outcome |-> o, addr |-> a]
<1>1. e \in EventType
    BY DEF EventType
<1>2. s2 = [s EXCEPT !.events = Append(s.events, e)] /\ s.events \in Seq(EventType)
    BY DEF RecordEvent, SessionType
<1> HIDE DEF e
<1> DEFINE events == Append(s.events, e)
<1>3. events \in Seq(EventType)  BY <1>1, <1>2
<1>4. s2 = [s EXCEPT !.events = events]  BY <1>2
<1> HIDE DEF events
<1>5. s2 \in SessionType /\ s2.events = events
      /\ s2.hops = s.hops /\ s2.complete = s.complete /\ s2.dest = s.dest /\ s2.totalSent = s.totalSent
    BY <1>3, <1>4 DEF SessionType
<1> QED  BY <1>1, <1>5 DEF IsLoggedIn, e, events

\* s2 is s that has reached its destination at t.
IsReached(s, s2, t) ==
    /\ s2 \in SessionType
    /\ s2.hops = s.hops /\ s2.totalSent = s.totalSent /\ s2.events = s.events
    /\ s2.complete = TRUE
    /\ s2.dest = IF s.dest = None \/ t < s.dest THEN t ELSE s.dest

LEMMA WithReach ==
    ASSUME NEW s \in SessionType, NEW t \in TTLs, NEW s2, s2 = Reach(s, t)
    PROVE  IsReached(s, s2, t)
<1> DEFINE d == IF s.dest = None \/ t < s.dest THEN t ELSE s.dest
<1>1. s2 = [s EXCEPT !.complete = TRUE, !.dest = d]
    BY DEF Reach, SessionType
<1>2. d \in TTLs \cup {None}
    BY DEF SessionType
<1> HIDE DEF d
<1>3. /\ s2 \in SessionType /\ s2.hops = s.hops /\ s2.totalSent = s.totalSent
      /\ s2.events = s.events /\ s2.complete = TRUE /\ s2.dest = d
    BY <1>1, <1>2 DEF SessionType
<1> QED  BY <1>3 DEF IsReached, d

LEMMA NewSessionFields ==
    /\ NewSession \in SessionType /\ \A t \in TTLs : NewSession.hops[t] = NewHop(t)
    /\ NewSession.complete = FALSE /\ NewSession.dest = None /\ NewSession.events = <<>>
    /\ NewSession.totalSent = 0
<1> DEFINE hops == [t \in TTLs |-> NewHop(t)]
<1>1. hops \in [TTLs -> HopType] /\ \A t \in TTLs : hops[t] = NewHop(t)
    <2>1. \A t \in TTLs : NewHop(t) \in HopType  BY NewHopFields
    <2> QED  BY <2>1
<1>2. NewSession = [hops |-> hops, complete |-> FALSE, dest |-> None, totalSent |-> 0, events |-> <<>>]
    BY DEF NewSession
<1>3. <<>> \in Seq(EventType)  OBVIOUS
<1> HIDE DEF hops
<1> QED  BY <1>1, <1>2, <1>3 DEF SessionType

\* A session of whose hops everything above holds.
Sound(s, flows) == s \in SessionType /\ \A t \in TTLs : HopInv(s.hops[t], flows)

VerdictsKept(s, s2) == \A t \in TTLs : s2.hops[t].rateLimit = s.hops[t].rateLimit

LEMMA SoundWith ==
    ASSUME NEW s, NEW flows, Sound(s, flows), NEW t \in TTLs, NEW g, HopInv(g, flows),
           NEW s2, IsWith(s, s2, t, g)
    PROVE  Sound(s2, flows)
<1>1. s2 \in SessionType  BY DEF IsWith
<1>2. ASSUME NEW u \in TTLs PROVE HopInv(s2.hops[u], flows)
    <2>1. CASE u = t  BY <2>1 DEF IsWith
    <2>2. CASE u # t
        <3>1. s2.hops[u] = s.hops[u]  BY <2>2 DEF IsWith
        <3> QED  BY <3>1 DEF Sound
    <2> QED  BY <2>1, <2>2
<1> QED  BY <1>1, <1>2 DEF Sound

LEMMA SoundSame ==
    ASSUME NEW s, NEW flows, Sound(s, flows), NEW s2 \in SessionType, s2.hops = s.hops
    PROVE  Sound(s2, flows)
BY DEF Sound

LEMMA NewSessionSound ==
    ASSUME NEW flows
    PROVE  Sound(NewSession, flows)
BY NewSessionFields, NewHopInv DEF Sound

LEMMA SendSession ==
    ASSUME NEW q \in Profiles, NEW p \in Probes(q), NEW s, NEW flows, Sound(s, flows),
           NEW s2, s2 = RecordSend(s, p)
    PROVE  /\ Sound(s2, flows) /\ \A t \in TTLs : Alike(s.hops[t], s2.hops[t])
           /\ s2.complete = s.complete /\ s2.dest = s.dest /\ s2.events = s.events
           /\ VerdictsKept(s, s2)
<1>1. p.id.ttl \in TTLs /\ p.flow \in FlowIds
    BY ProbeFields DEF TTLs
<1>2. CASE p.pmtud
    <2>1. s2 = s  BY <1>2 DEF RecordSend
    <2> QED  BY <2>1 DEF Alike, VerdictsKept
<1>3. CASE ~p.pmtud
    <2> DEFINE t == p.id.ttl
               h == s.hops[t]
               g == RecordFlowSent(RecordSent(h), p.flow)
    <2>1. s \in SessionType /\ HopInv(h, flows) /\ s.totalSent + 1 \in Nat
        BY <1>1 DEF Sound, SessionType
    <2>2. s2 = PutHop(s, t, g, s.totalSent + 1)
        BY <1>1, <1>3, <2>1 DEF RecordSend, SessionType, PutHop
    <2>3. HopInv(g, flows) /\ Alike(h, g) /\ g.rateLimit = h.rateLimit
        BY <1>1, <2>1, SentKeeps
    <2>4. g \in HopType  BY <2>3 DEF HopInv
    <2> HIDE DEF g, t
    <2>5. IsWith(s, s2, t, g)
        <3>1. t \in TTLs  BY <1>1 DEF t
        <3> QED  BY <2>1, <2>2, <2>4, <3>1, WithHop
    <2>6. Sound(s2, flows)
        BY <1>1, <2>3, <2>5, SoundWith DEF t
    <2>7. ASSUME NEW u \in TTLs PROVE Alike(s.hops[u], s2.hops[u])
        <3>1. CASE u = t  BY <2>3, <2>5, <3>1 DEF IsWith
        <3>2. CASE u # t
            <4>1. s2.hops[u] = s.hops[u]  BY <2>5, <3>2 DEF IsWith
            <4> QED  BY <4>1 DEF Alike
        <3> QED  BY <3>1, <3>2
    <2>8. VerdictsKept(s, s2)
        BY <2>3, <2>5 DEF VerdictsKept, IsWith
    <2> QED  BY <2>5, <2>6, <2>7, <2>8 DEF IsWith
<1> QED  BY <1>2, <1>3

LEMMA ProbeIsOK ==
    ASSUME NEW q \in Profiles, NEW p \in Probes(q)
    PROVE  ProbeOK(p)
<1>1. p # None  BY ProfilesAssumption
<1>2. /\ p.pmtud \in BOOLEAN /\ p.id.ttl \in TTLs /\ p.flow \in FlowIds
      /\ p.fate.from \in Addrs /\ p.fate.ttl \in Maybe(Byte)
    BY ProbeFields DEF TTLs
<1> QED  BY <1>1, <1>2 DEF ProbeOK

\* The event that a response, or a timeout, of a probe is logged as.
ReplyEvent(p) == [ttl |-> p.id.ttl, flow |-> p.flow, outcome |-> "Reply", addr |-> p.fate.from]
TimeoutEvent(p) == [ttl |-> p.id.ttl, flow |-> p.flow, outcome |-> "Timeout", addr |-> NoAddr]

\* s2 is s after a response to p: counted, logged, and the end if it is one.
CountedIn(s, s2, p) ==
    /\ ReplyEvent(p) \in EventType /\ s2.events = Append(s.events, ReplyEvent(p))
    /\ Responded(s.hops[p.id.ttl], s2.hops[p.id.ttl], p.flow, p.fate.from, profile.flows)
    /\ \A u \in TTLs : u # p.id.ttl => s2.hops[u] = s.hops[u]

ReachedIn(s, s2, p, r) ==
    IF r.type = "EchoReply" /\ p.fate.from = p.dest
    THEN s2.complete = TRUE /\ s2.dest = IF s.dest = None \/ p.id.ttl < s.dest THEN p.id.ttl ELSE s.dest
    ELSE s2.complete = s.complete /\ s2.dest = s.dest

LEMMA AppliedSession ==
    ASSUME profile \in Profiles, NEW p \in Probes(profile), NEW r, NEW s, Sound(s, profile.flows),
           NEW s2, s2 = Applied(s, p, r)
    PROVE  /\ Sound(s2, profile.flows) /\ ReachedIn(s, s2, p, r)
           /\ p.pmtud => s2.hops = s.hops /\ s2.events = s.events
           /\ ~p.pmtud => CountedIn(s, s2, p)
           /\ VerdictsKept(s, s2)
<1> DEFINE t == p.id.ttl
           h == s.hops[t]
           g == RespondedHop(h, p, r)
           s0 == [s EXCEPT !.hops[t] = g, !.totalSent = s.totalSent]
           s1 == IF p.pmtud THEN s ELSE RecordEvent(s0, t, p.flow, "Reply", p.fate.from)
           e == ReplyEvent(p)
<1>1. ProbeOK(p) /\ t \in TTLs /\ p.flow \in FlowIds /\ p.fate.from \in Addrs /\ p.pmtud \in BOOLEAN
    BY ProbeIsOK DEF ProbeOK
<1>2. s \in SessionType /\ HopInv(h, profile.flows) /\ s.totalSent \in Nat
    BY <1>1 DEF Sound, SessionType
<1>3. /\ HopInv(g, profile.flows) /\ Responded(h, g, p.flow, p.fate.from, profile.flows) /\ g \in HopType
      /\ g.rateLimit = h.rateLimit
    <2>1. /\ HopInv(g, profile.flows) /\ Responded(h, g, p.flow, p.fate.from, profile.flows)
          /\ g.rateLimit = h.rateLimit
        BY <1>1, <1>2, ResponseKeeps
    <2> QED  BY <2>1 DEF HopInv
<1>4. s2 = IF r.type = "EchoReply" /\ p.fate.from = p.dest THEN Reach(s1, t) ELSE s1
    <2>1. s0 = [s EXCEPT !.hops[t] = g]
        BY <1>2 DEF SessionType
    <2>2. s0 = [s EXCEPT !.hops[t] = RespondedHop(@, p, r)]
        BY <1>2, <2>1 DEF SessionType
    <2> HIDE DEF s0
    <2> QED  BY <2>2, Zenon DEF Applied
<1> HIDE DEF t, g
<1>5. IsWith(s, s0, t, g)
    <2> HIDE DEF s0
    <2>1. s0 = PutHop(s, t, g, s.totalSent)  BY DEF s0, PutHop
    <2>2. g \in HopType  BY <1>3
    <2> QED  BY <1>1, <1>2, <2>1, <2>2, WithHop
<1> HIDE DEF s0
<1>6. Sound(s0, profile.flows) /\ s0 \in SessionType
    BY <1>1, <1>2, <1>3, <1>5, SoundWith DEF Sound
<1>10. VerdictsKept(s, s0)
    BY <1>3, <1>5 DEF VerdictsKept, IsWith
<1>7. /\ s1 \in SessionType /\ Sound(s1, profile.flows) /\ s1.complete = s.complete /\ s1.dest = s.dest
      /\ p.pmtud => s1.hops = s.hops /\ s1.events = s.events
      /\ ~p.pmtud => CountedIn(s, s1, p)
      /\ VerdictsKept(s, s1)
    <2>1. CASE p.pmtud  BY <1>2, <2>1 DEF VerdictsKept
    <2>2. CASE ~p.pmtud
        <3>1. s1 = RecordEvent(s0, t, p.flow, "Reply", p.fate.from) /\ "Reply" \in Outcomes
            BY <2>2 DEF Outcomes
        <3> HIDE DEF s1
        <3>2. e = [ttl |-> t, flow |-> p.flow, outcome |-> "Reply", addr |-> p.fate.from]
            BY DEF ReplyEvent, t
        <3> HIDE DEF e
        <3>3. e \in EventType /\ IsLoggedIn(s0, s1, e)
            BY <1>1, <1>6, <3>1, <3>2, WithEvent
        <3>4. /\ s1 \in SessionType /\ s1.hops = s0.hops /\ s1.complete = s0.complete /\ s1.dest = s0.dest
              /\ s1.events = Append(s0.events, e)
            BY <3>3 DEF IsLoggedIn
        <3>5. Sound(s1, profile.flows)
            BY <1>6, <3>4, SoundSame
        <3>6. CountedIn(s, s1, p)
            BY <1>3, <1>5, <3>3, <3>4 DEF CountedIn, IsWith, t, e
        <3>7. VerdictsKept(s, s1)
            BY <1>10, <3>4 DEF VerdictsKept
        <3> QED  BY <1>5, <2>2, <3>4, <3>5, <3>6, <3>7 DEF IsWith
    <2> QED  BY <1>1, <2>1, <2>2
<1> HIDE DEF s1
<1>8. CASE ~(r.type = "EchoReply" /\ p.fate.from = p.dest)
    <2>1. s2 = s1  BY <1>4, <1>8
    <2> QED  BY <1>7, <1>8, <2>1 DEF ReachedIn
<1>9. CASE r.type = "EchoReply" /\ p.fate.from = p.dest
    <2>1. s2 = Reach(s1, t)  BY <1>4, <1>9
    <2>2. IsReached(s1, s2, t)  BY <1>1, <1>7, <2>1, WithReach
    <2>3. Sound(s2, profile.flows)
        BY <1>7, <2>2, SoundSame DEF IsReached
    <2>4. ReachedIn(s, s2, p, r)
        BY <1>7, <1>9, <2>2 DEF ReachedIn, IsReached, t
    <2>5. s2.hops = s1.hops /\ s2.events = s1.events  BY <2>2 DEF IsReached
    <2>6. VerdictsKept(s, s2)  BY <1>7, <2>5 DEF VerdictsKept
    <2> QED  BY <1>7, <2>3, <2>4, <2>5, <2>6 DEF CountedIn
<1> QED  BY <1>8, <1>9

\* s2 is s after the engine read the echo reply of p: counted, and not logged.
PolledIn(s, s2, p) ==
    /\ Responded(s.hops[p.id.ttl], s2.hops[p.id.ttl], p.flow, p.fate.from, profile.flows)
    /\ \A u \in TTLs : u # p.id.ttl => s2.hops[u] = s.hops[u]

PollReachedIn(s, s2, p) ==
    IF p.fate.from = p.dest
    THEN s2.complete = TRUE /\ s2.dest = IF s.dest = None \/ p.id.ttl < s.dest THEN p.id.ttl ELSE s.dest
    ELSE s2.complete = s.complete /\ s2.dest = s.dest

LEMMA AppliedPolledSession ==
    ASSUME profile \in Profiles, NEW p \in Probes(profile), NEW r, NEW s, Sound(s, profile.flows),
           NEW s2, s2 = AppliedPolled(s, p, r)
    PROVE  /\ Sound(s2, profile.flows) /\ PollReachedIn(s, s2, p) /\ s2.events = s.events
           /\ p.pmtud => s2.hops = s.hops
           /\ ~p.pmtud => PolledIn(s, s2, p)
           /\ VerdictsKept(s, s2)
<1> DEFINE t == p.id.ttl
           h == s.hops[t]
           g == RespondedHop(h, p, r)
           s0 == [s EXCEPT !.hops[t] = g, !.totalSent = s.totalSent]
           s1 == IF p.pmtud THEN s ELSE s0
<1>1. ProbeOK(p) /\ t \in TTLs /\ p.flow \in FlowIds /\ p.fate.from \in Addrs /\ p.pmtud \in BOOLEAN
    BY ProbeIsOK DEF ProbeOK
<1>2. s \in SessionType /\ HopInv(h, profile.flows) /\ s.totalSent \in Nat
    BY <1>1 DEF Sound, SessionType
<1>3. /\ HopInv(g, profile.flows) /\ Responded(h, g, p.flow, p.fate.from, profile.flows) /\ g \in HopType
      /\ g.rateLimit = h.rateLimit
    <2>1. /\ HopInv(g, profile.flows) /\ Responded(h, g, p.flow, p.fate.from, profile.flows)
          /\ g.rateLimit = h.rateLimit
        BY <1>1, <1>2, ResponseKeeps
    <2> QED  BY <2>1 DEF HopInv
<1>4. s2 = IF p.fate.from = p.dest THEN Reach(s1, t) ELSE s1
    <2>1. s0 = [s EXCEPT !.hops[t] = g]
        BY <1>2 DEF SessionType
    <2>2. s0 = [s EXCEPT !.hops[t] = RespondedHop(@, p, r)]
        BY <1>2, <2>1 DEF SessionType
    <2> HIDE DEF s0
    <2> QED  BY <2>2, Zenon DEF AppliedPolled
<1> HIDE DEF t, g
<1>5. IsWith(s, s0, t, g) /\ s0.events = s.events
    <2>3. s0.events = s.events  BY <1>2 DEF SessionType
    <2> HIDE DEF s0
    <2>1. s0 = PutHop(s, t, g, s.totalSent)  BY DEF s0, PutHop
    <2>2. g \in HopType  BY <1>3
    <2> QED  BY <1>1, <1>2, <2>1, <2>2, <2>3, WithHop
<1> HIDE DEF s0
<1>6. Sound(s0, profile.flows) /\ s0 \in SessionType
    BY <1>1, <1>2, <1>3, <1>5, SoundWith DEF Sound
<1>10. VerdictsKept(s, s0)
    BY <1>3, <1>5 DEF VerdictsKept, IsWith
<1>7. /\ s1 \in SessionType /\ Sound(s1, profile.flows) /\ s1.complete = s.complete /\ s1.dest = s.dest
      /\ s1.events = s.events
      /\ p.pmtud => s1.hops = s.hops
      /\ ~p.pmtud => PolledIn(s, s1, p)
      /\ VerdictsKept(s, s1)
    <2>1. CASE p.pmtud  BY <1>2, <2>1 DEF VerdictsKept
    <2>2. CASE ~p.pmtud
        <3>1. s1 = s0  BY <2>2
        <3> HIDE DEF s1
        <3>6. PolledIn(s, s1, p)
            BY <1>3, <1>5, <3>1 DEF PolledIn, IsWith, t
        <3> QED  BY <1>5, <1>6, <1>10, <2>2, <3>1, <3>6 DEF IsWith
    <2> QED  BY <1>1, <2>1, <2>2
<1> HIDE DEF s1
<1>8. CASE p.fate.from # p.dest
    <2>1. s2 = s1  BY <1>4, <1>8
    <2> QED  BY <1>7, <1>8, <2>1 DEF PollReachedIn
<1>9. CASE p.fate.from = p.dest
    <2>1. s2 = Reach(s1, t)  BY <1>4, <1>9
    <2>2. IsReached(s1, s2, t)  BY <1>1, <1>7, <2>1, WithReach
    <2>3. Sound(s2, profile.flows)
        BY <1>7, <2>2, SoundSame DEF IsReached
    <2>4. PollReachedIn(s, s2, p)
        BY <1>7, <1>9, <2>2 DEF PollReachedIn, IsReached, t
    <2>5. s2.hops = s1.hops /\ s2.events = s1.events  BY <2>2 DEF IsReached
    <2>6. VerdictsKept(s, s2)  BY <1>7, <2>5 DEF VerdictsKept
    <2> QED  BY <1>7, <2>3, <2>4, <2>5, <2>6 DEF PolledIn
<1> QED  BY <1>8, <1>9

\* s2 is s after a timeout of p.
ExpiredIn(s, s2, p) ==
    /\ TimedOutOf(s.hops[p.id.ttl], s2.hops[p.id.ttl], p.flow)
    /\ \A u \in TTLs : u # p.id.ttl => s2.hops[u] = s.hops[u]

LEMMA TimedOutSession ==
    ASSUME NEW q \in Profiles, NEW p \in Probes(q), NEW s, NEW flows, Sound(s, flows),
           NEW s2, s2 = TimedOut(s, p)
    PROVE  /\ Sound(s2, flows)
           /\ s2.complete = s.complete /\ s2.dest = s.dest /\ s2.events = s.events
           /\ p.pmtud => s2 = s
           /\ ~p.pmtud => ExpiredIn(s, s2, p)
           /\ VerdictsKept(s, s2)
<1>1. p.id.ttl \in TTLs /\ p.flow \in FlowIds
    BY ProbeIsOK DEF ProbeOK
<1>2. CASE p.pmtud
    <2>1. s2 = s  BY <1>2 DEF TimedOut
    <2> QED  BY <1>2, <2>1 DEF VerdictsKept
<1>3. CASE ~p.pmtud
    <2> DEFINE t == p.id.ttl
               h == s.hops[t]
               g == RecordFlowTimeout(RecordTimeout(h), p.flow)
    <2>1. s \in SessionType /\ HopInv(h, flows) /\ s.totalSent \in Nat
        BY <1>1 DEF Sound, SessionType
    <2>2. s2 = PutHop(s, t, g, s.totalSent)
        BY <1>1, <1>3, <2>1 DEF TimedOut, SessionType, PutHop
    <2>3. HopInv(g, flows) /\ TimedOutOf(h, g, p.flow) /\ g \in HopType
        <3>1. HopInv(g, flows) /\ TimedOutOf(h, g, p.flow)  BY <1>1, <2>1, TimeoutKeeps
        <3> QED  BY <3>1 DEF HopInv
    <2> HIDE DEF g, t
    <2>4. IsWith(s, s2, t, g)
        <3>1. t \in TTLs  BY <1>1 DEF t
        <3> QED  BY <2>1, <2>2, <2>3, <3>1, WithHop
    <2>5. Sound(s2, flows)
        BY <1>1, <2>3, <2>4, SoundWith DEF t
    <2>6. ExpiredIn(s, s2, p)
        BY <2>3, <2>4 DEF ExpiredIn, IsWith, t
    <2>7. VerdictsKept(s, s2)
        BY <2>3, <2>4 DEF VerdictsKept, IsWith, TimedOutOf
    <2> QED  BY <1>3, <2>4, <2>5, <2>6, <2>7 DEF IsWith
<1> QED  BY <1>2, <1>3

\* What the cleanup makes of a session: the timeout, and its event.
Expired(s, p) ==
    IF p.pmtud THEN s ELSE RecordEvent(TimedOut(s, p), p.id.ttl, p.flow, "Timeout", NoAddr)

\* The timeout is counted and logged, and nothing else is.
ExpiredAlone(s, s2, p, flows) ==
    /\ Sound(s2, flows)
    /\ s2.complete = s.complete /\ s2.dest = s.dest
    /\ p.pmtud => s2 = s
    /\ ~p.pmtud => /\ ExpiredIn(s, s2, p) /\ TimeoutEvent(p) \in EventType
                   /\ s2.events = Append(s.events, TimeoutEvent(p))
    /\ VerdictsKept(s, s2)

LEMMA ExpiredSession ==
    ASSUME NEW q \in Profiles, NEW p \in Probes(q), NEW s, NEW flows, Sound(s, flows),
           NEW s2, s2 = Expired(s, p)
    PROVE  ExpiredAlone(s, s2, p, flows)
<1>1. p.id.ttl \in TTLs /\ p.flow \in FlowIds /\ p.pmtud \in BOOLEAN
    BY ProbeIsOK DEF ProbeOK
<1>2. CASE p.pmtud
    <2>1. s2 = s  BY <1>2 DEF Expired
    <2> QED  BY <1>2, <2>1 DEF VerdictsKept, ExpiredAlone
<1>3. CASE ~p.pmtud
    <2> DEFINE s1 == TimedOut(s, p)
               e == TimeoutEvent(p)
    <2>1. /\ Sound(s1, flows) /\ s1.complete = s.complete /\ s1.dest = s.dest /\ s1.events = s.events
          /\ ExpiredIn(s, s1, p) /\ VerdictsKept(s, s1)
        BY <1>3, TimedOutSession
    <2>2. s2 = RecordEvent(s1, p.id.ttl, p.flow, "Timeout", NoAddr)
        BY <1>3 DEF Expired
    <2>3. e = [ttl |-> p.id.ttl, flow |-> p.flow, outcome |-> "Timeout", addr |-> NoAddr]
        BY DEF TimeoutEvent
    <2> HIDE DEF s1, e
    <2>4. "Timeout" \in Outcomes /\ NoAddr \in Addrs \cup {NoAddr} /\ s1 \in SessionType
        BY <2>1 DEF Outcomes, Sound
    <2>5. e \in EventType /\ IsLoggedIn(s1, s2, e)
        BY <1>1, <2>2, <2>3, <2>4, WithEvent
    <2>6. /\ s2 \in SessionType /\ s2.hops = s1.hops /\ s2.complete = s1.complete
          /\ s2.dest = s1.dest /\ s2.events = Append(s1.events, e)
        BY <2>5 DEF IsLoggedIn
    <2>7. Sound(s2, flows)  BY <2>1, <2>6, SoundSame
    <2>8. ExpiredIn(s, s2, p)  BY <2>1, <2>6 DEF ExpiredIn
    <2>9. VerdictsKept(s, s2)  BY <2>1, <2>6 DEF VerdictsKept
    <2> QED  BY <1>3, <2>1, <2>5, <2>6, <2>7, <2>8, <2>9 DEF e, ExpiredAlone
<1> QED  BY <1>1, <1>2, <1>3

\* The event of a late reply, with the flow its port tells.
LateEvent(p, f) == [ttl |-> p.id.ttl, flow |-> f, outcome |-> "LateReply", addr |-> p.fate.from]

LoggedLate(s, s2, p) ==
    \E f \in FlowIds : LateEvent(p, f) \in EventType /\ s2.events = Append(s.events, LateEvent(p, f))

LEMMA LateSession ==
    ASSUME profile \in Profiles, probe \in Probes(profile), NEW r, r = ParsedOf(probe), Some(r),
           NEW s, NEW flows, Sound(s, flows), NEW s2, s2 = LogLate(s, r)
    PROVE  /\ Sound(s2, flows) /\ s2.hops = s.hops /\ s2.complete = s.complete /\ s2.dest = s.dest
           /\ IF IsLogged(r) THEN LoggedLate(s, s2, probe) ELSE s2 = s
<1>1. r.id = probe.id /\ r.port \in Int \cup {None}
    BY AnswerNamesProbe
<1>2. probe.id.ttl \in TTLs /\ probe.fate.from \in Addrs
    BY ProbeIsOK DEF ProbeOK
<1>3. CASE ~IsLogged(r)
    <2>1. s2 = s  BY <1>3 DEF LogLate, IsLogged
    <2> QED  BY <1>3, <2>1
<1>4. CASE IsLogged(r)
    <2> DEFINE hint == DeriveFlowHint(r.port, profile.flows)
               f == IF Some(hint) THEN hint ELSE 0
               e == LateEvent(probe, f)
    <2>1. s2 = RecordEvent(s, r.id.ttl, f, "LateReply", probe.fate.from)
        BY <1>4 DEF LogLate, IsLogged
    <2>2. f \in FlowIds
        <3>1. hint = None \/ hint \in FlowIds  BY <1>1, HintIsFlow
        <3>2. 0 \in FlowIds
            <4>1. profile.flows \in Nat \ {0} /\ 0..(profile.flows - 1) \subseteq FlowIds
                BY ProfilesAssumption
            <4> QED  BY <4>1
        <3> HIDE DEF hint
        <3> QED  BY <3>1, <3>2 DEF Some
    <2>3. e = [ttl |-> r.id.ttl, flow |-> f, outcome |-> "LateReply", addr |-> probe.fate.from]
        BY <1>1 DEF LateEvent
    <2> HIDE DEF f, e
    <2>4. "LateReply" \in Outcomes /\ probe.fate.from \in Addrs \cup {NoAddr} /\ s \in SessionType
          /\ r.id.ttl \in TTLs
        BY <1>1, <1>2 DEF Outcomes, Sound
    <2>5. e \in EventType /\ IsLoggedIn(s, s2, e)
        BY <2>1, <2>2, <2>3, <2>4, WithEvent
    <2>6. /\ s2 \in SessionType /\ s2.hops = s.hops /\ s2.complete = s.complete
          /\ s2.dest = s.dest /\ s2.events = Append(s.events, e)
        BY <2>5 DEF IsLoggedIn
    <2>7. Sound(s2, flows)  BY <2>6, SoundSame
    <2>8. LoggedLate(s, s2, probe)
        BY <2>2, <2>5, <2>6 DEF LoggedLate, e
    <2> QED  BY <1>4, <2>6, <2>7, <2>8
<1> QED  BY <1>3, <1>4

LEMMA AnalyzedSession ==
    ASSUME NEW s, NEW flows, Sound(s, flows), NEW s2, s2 = [s EXCEPT !.hops = Analyze(s.hops)]
    PROVE  /\ Sound(s2, flows) /\ \A t \in TTLs : Alike(s.hops[t], s2.hops[t])
           /\ \A t \in TTLs : s2.hops[t].rateLimit = NewVerdict(s.hops, t)
           /\ s2.complete = s.complete /\ s2.dest = s.dest /\ s2.events = s.events
           /\ s2.totalSent = s.totalSent
<1> DEFINE every == [t \in TTLs |-> [s.hops[t] EXCEPT !.rateLimit = NewVerdict(s.hops, t)]]
<1>1. s \in SessionType /\ s.hops \in [TTLs -> HopType]
    BY DEF Sound, SessionType
<1>2. Analyze(s.hops) = every
    BY <1>1 DEF Analyze, Ttls
<1>3. ASSUME NEW t \in TTLs
      PROVE  /\ HopInv(every[t], flows) /\ Alike(s.hops[t], every[t])
             /\ every[t].rateLimit = NewVerdict(s.hops, t)
    <2> DEFINE v == NewVerdict(s.hops, t)
               h == s.hops[t]
               g == [h EXCEPT !.rateLimit = v]
    <2>1. v \in VerdictType /\ HopInv(h, flows) /\ h \in HopType /\ every[t] = g
        BY <1>1, VerdictIsOne DEF Sound
    <2> HIDE DEF v, h, every
    <2>2. HopInv(g, flows) /\ Alike(h, g)
        BY <2>1, AnalysisKeeps
    <2>3. g.rateLimit = v
        BY <2>1 DEF HopType
    <2> QED  BY <2>1, <2>2, <2>3 DEF h, v
<1>4. /\ s2.hops = every /\ s2.complete = s.complete /\ s2.dest = s.dest
      /\ s2.events = s.events /\ s2.totalSent = s.totalSent
    BY <1>1, <1>2 DEF SessionType
<1>5. s2 \in SessionType
    <2>1. every \in [TTLs -> HopType]
        <3>1. \A t \in TTLs : every[t] \in HopType  BY <1>3 DEF HopInv
        <3>2. every = [t \in TTLs |-> every[t]]  OBVIOUS
        <3> HIDE DEF every
        <3> QED  BY <3>1, <3>2
    <2>2. s2 = [s EXCEPT !.hops = every]  BY <1>2
    <2> HIDE DEF every
    <2> QED  BY <1>1, <2>1, <2>2 DEF SessionType
<1> HIDE DEF every
<1> QED  BY <1>3, <1>4, <1>5 DEF Sound
-----------------------------------------------------------------------------
(* Every reachable session is sound.                                        *)

SessionInv ==
    /\ profile \in Profiles
    /\ step \in 1..(Len(profile.script) + 1)
    /\ probe \in Probes(profile) \cup {None}
    /\ pending \in BOOLEAN /\ (pending => probe # None)
    /\ Sound(live, profile.flows)

\* A message that found no entry leaves the probe to its timeout.
LEMMA LostProbe ==
    ASSUME NEW q \in Profiles, NEW p \in Probes(q), NEW p2, p2 = [p EXCEPT !.fate.kind = "lost"]
    PROVE  p2 \in Probes(q) /\ p2 # None /\ p2.flow = p.flow /\ p2.fate.port = p.fate.port
<1> DEFINE f == [p.fate EXCEPT !.kind = "lost"]
<1>1. /\ p \in [id : [ttl : 1..MaxTtl, seq : Byte], flow : {k \in FlowIds : k < q.flows},
                pmtud : IF q.mtuProbes THEN BOOLEAN ELSE {FALSE}, proto : {"icmp", "udp", "tcp"},
                fam : {4, 6}, dest : {q.target}, fate : Fates]
      /\ (p.fate.echo \/ p.fate.foreign \/ Some(p.fate.ident)) => p.proto = "icmp"
      /\ p.proto = "icmp" => q.flows = 1
      /\ Some(p.fate.port) => p.proto # "icmp"
      /\ p.fam = 4 => p.fate.chain = <<>>
    BY DEF Probes
<1>2. p.fate \in Fates /\ "lost" \in FateKinds
    BY <1>1 DEF FateKinds
<1>3. /\ f \in Fates /\ f.echo = p.fate.echo /\ f.foreign = p.fate.foreign /\ f.ident = p.fate.ident
      /\ f.port = p.fate.port /\ f.chain = p.fate.chain
    BY <1>2 DEF Fates
<1>4. p2 = [p EXCEPT !.fate = f]
    BY <1>1
<1> HIDE DEF f
<1>5. /\ p2 \in [id : [ttl : 1..MaxTtl, seq : Byte], flow : {k \in FlowIds : k < q.flows},
                pmtud : IF q.mtuProbes THEN BOOLEAN ELSE {FALSE}, proto : {"icmp", "udp", "tcp"},
                fam : {4, 6}, dest : {q.target}, fate : Fates]
      /\ p2.fate = f /\ p2.proto = p.proto /\ p2.fam = p.fam /\ p2.flow = p.flow
    BY <1>1, <1>3, <1>4
<1>6. p2 \in Probes(q)
    BY <1>1, <1>3, <1>5 DEF Probes
<1> QED  BY <1>3, <1>5, <1>6, ProfilesAssumption

LEMMA InitSound ==
    Init => SessionInv
<1> SUFFICES ASSUME Init PROVE SessionInv
    OBVIOUS
<1>1. Len(profile.script) \in Nat
    BY ProfilesAssumption DEF Init
<1>2. Sound(live, profile.flows)
    BY NewSessionSound DEF Init
<1>3. step \in 1..(Len(profile.script) + 1)
    <2>1. step = 1  BY DEF Init
    <2> QED  BY <1>1, <2>1
<1>4. profile \in Profiles /\ probe = None /\ pending = FALSE
    BY DEF Init
<1> QED  BY <1>2, <1>3, <1>4 DEF SessionInv

\* Every step keeps the session sound.
LEMMA NextSound ==
    ASSUME SessionInv, [Next]_vars
    PROVE  SessionInv'
<1> USE DEF SessionInv
<1>1. Len(profile.script) \in Nat /\ profile \in Profiles
    BY ProfilesAssumption
<1>2. CASE Send
    <2>1. step <= Len(profile.script) /\ step' = step + 1 /\ pending' = TRUE /\ profile' = profile
        BY <1>2 DEF Send
    <2>2. PICK p \in profile.script[step] : probe' = p /\ live' = RecordSend(live, p)
        BY <1>2 DEF Send
    <2>3. p \in Probes(profile) /\ p # None
        <3>1. step \in 1..Len(profile.script)  BY <1>1, <2>1
        <3> QED  BY <1>1, <3>1, ProfilesAssumption
    <2>4. Sound(live', profile.flows)
        BY <1>1, <2>2, <2>3, SendSession
    <2> QED  BY <1>1, <2>1, <2>2, <2>3, <2>4
<1>3. CASE Receive
    <2> DEFINE r == ParsedOf(probe)
               found == Some(r) /\ Finds(probe, r)
    <2>1. pending /\ profile' = profile /\ step' = step /\ probe \in Probes(profile)
        BY <1>3 DEF Receive
    <2>2. CASE found
        <3>1. live' = Applied(live, probe, r) /\ probe' = None /\ pending' = FALSE
            BY <1>3, <2>2 DEF Receive
        <3> HIDE DEF r
        <3>2. Sound(live', profile.flows)
            BY <1>1, <2>1, <3>1, AppliedSession
        <3> QED  BY <2>1, <3>1, <3>2
    <2>3. CASE ~found
        <3>1. /\ live' = IF Some(r) THEN LogLate(live, r) ELSE live
              /\ probe' = [probe EXCEPT !.fate.kind = "lost"] /\ pending' = pending
            BY <1>3, <2>3 DEF Receive
        <3>2. probe' \in Probes(profile) /\ probe' # None
            BY <1>1, <2>1, <3>1, LostProbe
        <3>3. Sound(live', profile.flows)
            <4>1. r = ParsedOf(probe)  OBVIOUS
            <4> HIDE DEF r
            <4> QED  BY <1>1, <2>1, <3>1, <4>1, LateSession
        <3> QED  BY <2>1, <3>1, <3>2, <3>3
    <2> QED  BY <2>2, <2>3
<1>4. CASE Expire
    <2>1. pending /\ probe \in Probes(profile) /\ profile' = profile /\ step' = step
          /\ pending' = FALSE /\ probe' \in {probe, None}
        BY <1>4 DEF Expire
    <2>2. live' = Expired(live, probe)
        BY <1>4 DEF Expire, Expired
    <2>3. Sound(live', profile.flows)
        <3>1. ExpiredAlone(live, live', probe, profile.flows)
            BY <1>1, <2>1, <2>2, ExpiredSession
        <3> QED  BY <3>1 DEF ExpiredAlone
    <2> QED  BY <2>1, <2>3
<1>5. CASE Flush
    <2>1. pending /\ probe \in Probes(profile) /\ profile' = profile
          /\ step' = Len(profile.script) + 1 /\ pending' = FALSE /\ probe' = None
          /\ live' = TimedOut(live, probe)
        BY <1>5 DEF Flush
    <2>2. Sound(live', profile.flows)
        BY <1>1, <2>1, TimedOutSession
    <2>3. step' \in 1..(Len(profile'.script) + 1)
        <3>1. Len(profile.script) + 1 \in 1..(Len(profile.script) + 1)  BY <1>1
        <3> QED  BY <2>1, <3>1
    <2> QED  BY <1>1, <2>1, <2>2, <2>3
<1>6. CASE ReceiveLate
    <2> DEFINE r == ParsedOf(probe)
    <2>1. probe # None /\ probe \in Probes(profile) /\ profile' = profile /\ step' = step
          /\ pending' = pending /\ ~pending /\ probe' = None
          /\ live' = IF Some(r) THEN LogLate(live, r) ELSE live
        BY <1>6 DEF ReceiveLate
    <2>2. Sound(live', profile.flows)
        <3>1. r = ParsedOf(probe)  OBVIOUS
        <3> HIDE DEF r
        <3> QED  BY <1>1, <2>1, <3>1, LateSession
    <2> QED  BY <2>1, <2>2
<1>7. CASE AnalyzeTick
    <2>1. profile' = profile /\ step' = step /\ probe' = probe /\ pending' = pending
          /\ live' = [live EXCEPT !.hops = Analyze(live.hops)]
        BY <1>7 DEF AnalyzeTick
    <2>2. Sound(live', profile.flows)
        BY <2>1, AnalyzedSession
    <2> QED  BY <2>1, <2>2
<1>8. CASE Reset
    <2>1. profile' = profile /\ step' = step /\ probe' = probe /\ pending' = pending
          /\ live' = NewSession
        BY <1>8 DEF Reset, ResetStats
    <2> QED  BY <2>1, NewSessionSound
<1>10. CASE PollEcho
    <2> DEFINE r == ParsedOf(probe)
               found == pending /\ Some(r) /\ Finds(probe, r)
    <2>1. /\ profile' = profile /\ step' = step /\ probe \in Probes(profile)
          /\ pending' = (pending /\ ~found) /\ live' = IF found THEN AppliedPolled(live, probe, r) ELSE live
          /\ probe' = IF pending' THEN [probe EXCEPT !.fate.kind = "lost"] ELSE None
        BY <1>10 DEF PollEcho
    <2> HIDE DEF r, found
    <2>2. pending' \in BOOLEAN
        BY <2>1
    <2>3. probe' \in Probes(profile) \cup {None} /\ (pending' => probe' # None)
        BY <1>1, <2>1, LostProbe
    <2>4. Sound(live', profile.flows)
        BY <1>1, <2>1, AppliedPolledSession
    <2> QED  BY <2>1, <2>2, <2>3, <2>4
<1>9. CASE UNCHANGED vars
    BY <1>9 DEF vars
<1> QED  BY <1>2, <1>3, <1>4, <1>5, <1>6, <1>7, <1>8, <1>9, <1>10 DEF Next

LEMMA AlwaysSound ==
    Spec => []SessionInv
<1>1. SessionInv /\ [Next]_vars => SessionInv'
    BY NextSound
<1> QED  BY <1>1, InitSound, PTL DEF Spec

\* What the session keeps has its types.
THEOREM TypeCorrect == Spec => []TypeOK
<1>1. SessionInv => TypeOK
    <2> SUFFICES ASSUME SessionInv PROVE TypeOK
        OBVIOUS
    <2>1. /\ live \in SessionType /\ live.complete \in BOOLEAN /\ live.dest \in TTLs \cup {None}
          /\ live.totalSent \in Nat /\ live.events \in Seq(EventType)
        BY DEF SessionInv, Sound, SessionType
    <2>2. ASSUME NEW t \in TTLs
          PROVE  LET h == live.hops[t] IN
                 /\ {h.sent, h.received, h.timeouts} \subseteq Nat
                 /\ Len(h.recent) <= RecentWindow /\ Len(h.changes) <= MaxRouteChanges
                 /\ h.flapPrimary \in Addrs \cup {NoAddr}
                 /\ h.rateLimit.checks \in 0..MaxChecks /\ h.manip.checks \in 0..9
        <3> DEFINE h == live.hops[t]
        <3>1. HopInv(h, profile.flows)  BY DEF SessionInv, Sound
        <3> HIDE DEF h
        <3>2. h \in HopType /\ Len(h.recent) <= RecentWindow /\ Len(h.changes) <= MaxRouteChanges
            BY <3>1, WindowsBounded DEF HopInv
        <3>3. h.sent \in Nat /\ h.received \in Nat /\ h.timeouts \in Nat
              /\ h.flapPrimary \in Addrs \cup {NoAddr}
            BY <3>2 DEF HopType
        <3>4. h.rateLimit.checks \in 0..MaxChecks
            <4>1. h.rateLimit \in VerdictType  BY <3>2 DEF HopType
            <4> QED  BY <4>1 DEF VerdictType
        <3>5. h.manip.checks \in 0..9
            <4>1. h.manip \in ManipType  BY <3>2 DEF HopType
            <4> QED  BY <4>1 DEF ManipType
        <3> QED  BY <3>2, <3>3, <3>4, <3>5 DEF h
    <2>3. ASSUME NEW i \in 1..Len(live.events)
          PROVE  live.events[i].ttl \in TTLs /\ live.events[i].flow \in FlowIds
                 /\ live.events[i].outcome \in Outcomes
        <3>1. live.events[i] \in EventType  BY <2>1
        <3> QED  BY <3>1 DEF EventType
    <2> QED  BY <2>1, <2>2, <2>3 DEF TypeOK, SessionInv
<1> QED  BY <1>1, AlwaysSound, PTL

\* The counters of every hop add up, whatever was answered, lost, reset or
\* analysed: FlowAccounting.
THEOREM CountersAddUp == Spec => []FlowAccounting
<1>1. SessionInv => FlowAccounting
    BY DEF SessionInv, Sound, HopInv, Accounted, FlowAccounting
<1> QED  BY <1>1, AlwaysSound, PTL

\* No responder gets two ahead of the tracked primary: FlapTracksPrimary.
THEOREM PrimaryIsTracked == Spec => []FlapTracksPrimary
<1>1. SessionInv => FlapTracksPrimary
    BY DEF SessionInv, Sound, HopInv, Followed, FlapTracksPrimary
<1> QED  BY <1>1, AlwaysSound, PTL

\* The route changes of every hop are one chain that ends at the tracked
\* primary: RouteChangesChain.
THEOREM ChangesAreChained == Spec => []RouteChangesChain
<1>1. SessionInv => RouteChangesChain
    BY DEF SessionInv, Sound, HopInv, Chained, Links, RouteChangesChain
<1> QED  BY <1>1, AlwaysSound, PTL

\* TTL manipulation is suspected on evidence that still counts: ManipEvidence.
THEOREM SuspicionHasEvidence == Spec => []ManipEvidence
<1>1. SessionInv => ManipEvidence
    BY DEF SessionInv, Sound, HopInv, ManipInv, ManipEvidence
<1> QED  BY <1>1, AlwaysSound, PTL

\* Flows that each keep to one responder, two of them well sampled, are never
\* taken for per-packet balancing, and different responders always show:
\* EcmpSettled.
THEOREM PinnedFlowsAreSettled == Spec => []EcmpSettled
<1>1. SessionInv => EcmpSettled
    <2> SUFFICES ASSUME SessionInv, NEW t \in TTLs,
                        \A f \in ActiveFlows(live.hops[t]) :
                            Cardinality(Responders(live.hops[t].flows[f].responders)) = 1,
                        Cardinality(SampledFlows(live.hops[t])) >= 2
                 PROVE  EcmpKinds(live.hops[t])
                            = {IF Cardinality(Responders(live.hops[t].responders)) > 1 THEN "PerFlow" ELSE "None"}
        BY Zenon DEF EcmpSettled
    <2> DEFINE h == live.hops[t]
    <2>1. h \in HopType /\ Accounted(h)  BY DEF SessionInv, Sound, HopInv
    <2>2. Pinned(h)  BY DEF Pinned, FlowResponders
    <2>3. Cardinality(SampledFlows(h)) >= 2  OBVIOUS
    <2> HIDE DEF h
    <2>4. EcmpKinds(h) = {IF Cardinality(Responders(h.responders)) > 1 THEN "PerFlow" ELSE "None"}
        BY <2>1, <2>2, <2>3, HopEcmpSettled
    <2> QED  BY <2>4 DEF h
<1> QED  BY <1>1, AlwaysSound, PTL

\* The analysis after one that matched leaves the verdict.
LEMMA VerdictStays ==
    ASSUME NEW s, NEW flows, Sound(s, flows), NEW t \in TTLs,
           s.hops[t].rateLimit.suspected, s.hops[t].rateLimit.checks = 0
    PROVE  NewVerdict(s.hops, t).suspected
<1> DEFINE old == s.hops[t].rateLimit
           new == NewVerdict(s.hops, t)
           checks == IF old.checks = MaxChecks THEN MaxChecks ELSE old.checks + 1
<1>1. checks = 1
    BY RateLimitAssumption
<1>2. ~Clears(s.hops, t, checks)
    <2> HIDE DEF checks
    <2> QED  BY <1>1 DEF Clears
<1>3. old \in VerdictType
    <2>1. s.hops[t] \in HopType  BY DEF Sound, HopInv
    <2> QED  BY <2>1 DEF HopType
<1>4. new = IF DetectRateLimiting(s.hops, t) THEN [suspected |-> TRUE, checks |-> 0]
            ELSE [old EXCEPT !.checks = checks]
    BY <1>2 DEF NewVerdict
<1>5. old.suspected = TRUE
    BY <1>3 DEF VerdictType
<1>6. [old EXCEPT !.checks = checks].suspected = TRUE
    <2> HIDE DEF checks
    <2> QED  BY <1>3, <1>5 DEF VerdictType
<1> HIDE DEF checks
<1>7. CASE DetectRateLimiting(s.hops, t)
    <2>1. new = [suspected |-> TRUE, checks |-> 0]  BY <1>4, <1>7
    <2> HIDE DEF new
    <2>2. new.suspected = TRUE  BY <2>1
    <2> QED  BY <2>2 DEF new
<1>8. CASE ~DetectRateLimiting(s.hops, t)
    <2>1. new = [old EXCEPT !.checks = checks]  BY <1>4, <1>8
    <2> HIDE DEF new
    <2>2. new.suspected = TRUE  BY <1>6, <2>1
    <2> QED  BY <2>2 DEF new
<1> QED  BY <1>7, <1>8

\* The analysis that follows one that matched never withdraws the verdict, and
\* nothing but a reset does in between: NoFlicker.
THEOREM VerdictsDoNotFlicker == Spec => NoFlicker
<1> DEFINE Stays == \A t \in TTLs :
                (live.hops[t].rateLimit.suspected /\ live.hops[t].rateLimit.checks = 0) =>
                    live'.hops[t].rateLimit.suspected \/ live'.totalSent = 0
<1>1. ASSUME SessionInv, [Next]_vars PROVE Stays
    <2> USE <1>1
    <2>1. profile \in Profiles /\ Sound(live, profile.flows) /\ probe \in Probes(profile) \cup {None}
          /\ (pending => probe # None)
        BY DEF SessionInv
    <2>2. VerdictsKept(live, live') => Stays
        BY DEF VerdictsKept
    <2>3. CASE Send
        <3>1. step <= Len(profile.script)  BY <2>3 DEF Send
        <3>2. PICK p \in profile.script[step] : live' = RecordSend(live, p)
            BY <2>3 DEF Send
        <3>3. p \in Probes(profile)
            <4>1. step \in 1..Len(profile.script)
                BY <2>1, <3>1, ProfilesAssumption DEF SessionInv
            <4> QED  BY <2>1, <4>1, ProfilesAssumption
        <3> QED  BY <2>1, <2>2, <3>2, <3>3, SendSession
    <2>4. CASE Receive
        <3> DEFINE r == ParsedOf(probe)
        <3>1. probe \in Probes(profile)  BY <2>1, <2>4 DEF Receive
        <3>2. live' \in {Applied(live, probe, r), live} \/ (Some(r) /\ live' = LogLate(live, r))
            BY <2>4 DEF Receive
        <3>3. r = ParsedOf(probe)  OBVIOUS
        <3> HIDE DEF r
        <3>4. CASE live' = Applied(live, probe, r)
            BY <2>1, <2>2, <3>1, <3>4, AppliedSession
        <3>5. CASE live' = live
            BY <2>2, <3>5 DEF VerdictsKept
        <3>6. CASE Some(r) /\ live' = LogLate(live, r)
            <4>1. live'.hops = live.hops  BY <2>1, <3>1, <3>3, <3>6, LateSession
            <4> QED  BY <2>2, <4>1 DEF VerdictsKept
        <3> QED  BY <3>2, <3>4, <3>5, <3>6
    <2>5. CASE Expire
        <3>1. probe \in Probes(profile) /\ live' = Expired(live, probe)
            BY <2>1, <2>5 DEF Expire, Expired
        <3>2. ExpiredAlone(live, live', probe, profile.flows)
            BY <2>1, <2>2, <3>1, ExpiredSession
        <3> QED  BY <2>2, <3>2 DEF ExpiredAlone
    <2>6. CASE Flush
        <3>1. probe \in Probes(profile) /\ live' = TimedOut(live, probe)
            BY <2>1, <2>6 DEF Flush
        <3> QED  BY <2>1, <2>2, <3>1, TimedOutSession
    <2>7. CASE ReceiveLate
        <3> DEFINE r == ParsedOf(probe)
        <3>1. probe \in Probes(profile) /\ live' = IF Some(r) THEN LogLate(live, r) ELSE live
            BY <2>1, <2>7 DEF ReceiveLate
        <3>2. r = ParsedOf(probe)  OBVIOUS
        <3> HIDE DEF r
        <3>3. live'.hops = live.hops  BY <2>1, <3>1, <3>2, LateSession
        <3> QED  BY <2>2, <3>3 DEF VerdictsKept
    <2>8. CASE AnalyzeTick
        <3>1. live' = [live EXCEPT !.hops = Analyze(live.hops)]
            BY <2>8 DEF AnalyzeTick
        <3>2. \A t \in TTLs : live'.hops[t].rateLimit = NewVerdict(live.hops, t)
            BY <2>1, <3>1, AnalyzedSession
        <3> QED  BY <2>1, <3>2, VerdictStays
    <2>9. CASE Reset
        <3>1. live'.totalSent = 0
            BY <2>9, NewSessionFields DEF Reset, ResetStats
        <3> QED  BY <3>1
    <2>11. CASE PollEcho
        <3> DEFINE r == ParsedOf(probe)
        <3>1. probe \in Probes(profile)  BY <2>1, <2>11 DEF PollEcho
        <3>2. live' \in {AppliedPolled(live, probe, r), live}  BY <2>11 DEF PollEcho
        <3> HIDE DEF r
        <3>3. CASE live' = AppliedPolled(live, probe, r)
            BY <2>1, <2>2, <3>1, <3>3, AppliedPolledSession
        <3>4. CASE live' = live
            BY <2>2, <3>4 DEF VerdictsKept
        <3> QED  BY <3>2, <3>3, <3>4
    <2>10. CASE UNCHANGED vars
        BY <2>2, <2>10 DEF vars, VerdictsKept
    <2> QED  BY <2>3, <2>4, <2>5, <2>6, <2>7, <2>8, <2>9, <2>10, <2>11 DEF Next
<1>2. SessionInv /\ [Next]_vars => [Stays]_vars
    BY <1>1
<1> QED  BY <1>2, AlwaysSound, PTL DEF Spec, NoFlicker

\* Ports below the end of the range are told from one another.
PortsApart(base, f, n) ==
    /\ (base + f) % W16 = base + f /\ (base + n) % W16 = base + n
    /\ base + f >= base /\ base + f < base + n /\ (base + f) - base = f

LEMMA PortInRange ==
    ASSUME NEW base \in Nat, NEW f \in Nat, NEW n \in Nat, f < n, base + n < W16
    PROVE  PortsApart(base, f, n)
<1>1. \A x \in Nat : x < 65536 => x % 65536 = x
    OBVIOUS
<1>2. base + f \in Nat /\ base + f < 65536 /\ base + n \in Nat /\ base + n < 65536
    BY DEF W16
<1>3. base + f >= base /\ base + f < base + n /\ (base + f) - base = f
    OBVIOUS
<1> QED  BY <1>1, <1>2, <1>3 DEF W16, PortsApart

LEMMA PortHint ==
    ASSUME NEW f \in Nat, NEW n \in Nat, f < n, SrcPortBase + n < W16
    PROVE  DeriveFlowHint(FlowPort(f), n) = f
<1>1. SrcPortBase \in Nat /\ None \notin Int  BY WireNumbers
<1>2. PortsApart(SrcPortBase, f, n)
    BY <1>1, PortInRange
<1>3. SrcPortBase + f # None
    BY <1>1
<1> QED  BY <1>2, <1>3 DEF DeriveFlowHint, FlowPort, Some, PortsApart

\* The ports of all flows, and the end of their range, are 16-bit numbers.
PortsBelowEnd == \A q \in Profiles : SrcPortBase + q.flows < W16

\* The port of a probe tells its flow: FlowHintKept.  With the last of the flows'
\* ports at 65535 it does not (FlowHintWrap).
THEOREM PortTellsFlow ==
    ASSUME PortsBelowEnd
    PROVE  Spec => []FlowHintKept
<1>1. ASSUME SessionInv PROVE FlowHintKept
    <2>1. SUFFICES ASSUME probe # None, Some(PortOf(probe))
                   PROVE  DeriveFlowHint(PortOf(probe), profile.flows) = probe.flow
        BY DEF FlowHintKept
    <2>2. probe \in Probes(profile) /\ profile \in Profiles
        BY <1>1, <2>1 DEF SessionInv
    <2>3. probe.flow \in Nat /\ probe.flow < profile.flows
        <3>1. probe.flow \in FlowIds /\ probe.flow < profile.flows  BY <2>2, ProbeFields
        <3>2. FlowIds \subseteq Nat  BY HopStatsAssumption
        <3> QED  BY <3>1, <3>2
    <2>4. profile.flows \in Nat  BY <2>2, ProfilesAssumption
    <2>5. SrcPortBase + profile.flows < W16  BY <2>2 DEF PortsBelowEnd
    <2>6. PortOf(probe) = FlowPort(probe.flow)
        BY <2>1 DEF PortOf, Some
    <2> QED  BY <2>3, <2>4, <2>5, <2>6, PortHint
<1> QED  BY <1>1, AlwaysSound, PTL

\* An answer that is recognised names the probe it answers, through quoting, NAT
\* and rewriting (part of OwnProbeFound).
THEOREM AnswersNameTheirProbe ==
    Spec => [](probe # None => (Some(ParsedOf(probe)) => ParsedOf(probe).id = probe.id))
<1>1. SessionInv => (probe # None => (Some(ParsedOf(probe)) => ParsedOf(probe).id = probe.id))
    BY AnswerNamesProbe DEF SessionInv
<1> QED  BY <1>1, AlwaysSound, PTL
-----------------------------------------------------------------------------
(* Checksums of replies.                                                    *)

LEMMA FoldOf ==
    ASSUME NEW s, NEW h, NEW l, h = s \div W16, l = s % W16
    PROVE  Fold16(s) = ((l + h) % W16) + ((l + h) \div W16)
BY Zenon DEF Fold16

\* A number of 24 bits folds into one of 16 bits, with the same remainder.
LEMMA Folded ==
    ASSUME NEW s \in Nat, s <= 16777215
    PROVE  /\ Fold16(s) \in Nat /\ Fold16(s) <= 65535
           /\ \E k \in Nat : s = Fold16(s) + 65535 * k
<1> DEFINE h == s \div 65536
           l == s % 65536
           t == l + h
           g == t \div 65536
           m == t % 65536
<1>1. h \in Nat /\ h <= 255 /\ l \in Nat /\ l <= 65535 /\ s = 65536 * h + l
    BY SMT
<1> HIDE DEF h, l
<1>2. t \in Nat /\ t <= 65790
    BY <1>1, SMT
<1>3. Fold16(s) = m + g
    <2>1. h = s \div W16 /\ l = s % W16  BY SMT DEF W16, h, l
    <2>2. Fold16(s) = ((l + h) % W16) + ((l + h) \div W16)  BY <2>1, FoldOf, SMT
    <2> QED  BY <2>2, SMT DEF W16, m, g, t
<1> HIDE DEF t
<1>4. g \in 0..1 /\ m \in Nat /\ m <= 65535 /\ t = 65536 * g + m
    BY <1>2, SMT
<1> HIDE DEF g, m
<1>5. m + g \in Nat /\ m + g <= 65535
    BY <1>2, <1>4, SMT
<1>6. s = (m + g) + 65535 * (h + g) /\ h + g \in Nat
    <2>1. s = 65536 * h + l /\ t = l + h  BY <1>1, SMT DEF t
    <2> QED  BY <1>1, <1>4, <2>1, SMT
<1> HIDE DEF t
<1> DEFINE f == Fold16(s)
           k0 == h + g
<1>7. f \in Nat /\ f <= 65535
    BY <1>3, <1>5, SMT
<1>8. s = f + 65535 * k0 /\ k0 \in Nat
    BY <1>3, <1>6, SMT
<1> HIDE DEF f, k0
<1>9. \E k \in Nat : s = f + 65535 * k
    BY <1>8, SMT
<1> QED  BY <1>7, <1>9, SMT DEF f

\* The checksum makes a sum that folds to the ones or the zeros.
LEMMA SealFolds ==
    ASSUME NEW s \in Nat, s <= 8388607
    PROVE  Fold16(s + (65535 - Fold16(s))) \in {0, 65535}
<1> DEFINE f == Fold16(s)
           r == s + (65535 - f)
           g == Fold16(r)
<1>1. f \in Nat /\ f <= 65535 /\ \E k \in Nat : s = f + 65535 * k
    BY Folded, SMT
<1>2. PICK k \in Nat : s = f + 65535 * k
    BY <1>1, SMT
<1> HIDE DEF f
<1>3. r \in Nat /\ r <= 16777215 /\ r = 65535 * (k + 1)
    BY <1>1, <1>2, SMT
<1> HIDE DEF r
<1>4. g \in Nat /\ g <= 65535 /\ \E j \in Nat : r = g + 65535 * j
    BY <1>3, Folded, SMT
<1>5. PICK j \in Nat : r = g + 65535 * j
    BY <1>4, SMT
<1> HIDE DEF g
<1>6. g = 65535 * ((k + 1) - j)
    BY <1>3, <1>4, <1>5, SMT
<1>7. (k + 1) - j \in {0, 1}
    BY <1>4, <1>6, SMT
<1>8. g \in {0, 65535}
    BY <1>6, <1>7, SMT
<1> QED  BY <1>8, SMT DEF g, r, f

\* The sum of nine words, one by one.
LEMMA NextSum ==
    ASSUME NEW words, NEW n \in Nat, DOMAIN words = 1..n, NEW l \in Nat \ {0}
    PROVE  SumOf(words, l) = SumOf(words, l - 1) + words[l]
<1> DEFINE k == l - 1
<1>1. k \in Nat /\ k + 1 = l
    OBVIOUS
<1> HIDE DEF k
<1>2. \A j \in Nat : SumOf(words, j + 1) = SumOf(words, j) + words[j + 1]
    BY WordSums
<1>3. SumOf(words, k + 1) = SumOf(words, k) + words[k + 1]
    BY <1>1, <1>2, Zenon
<1>4. SumOf(words, l) = SumOf(words, k) + words[l]
    BY <1>1, <1>3, Zenon
<1> QED  BY <1>4 DEF k

LEMMA SumOfNine ==
    ASSUME NEW w, DOMAIN w = 1..9, \A j \in 1..9 : w[j] \in Int
    PROVE  SumOf(w, 9) = w[1] + w[2] + w[3] + w[4] + w[5] + w[6] + w[7] + w[8] + w[9]
<1> DEFINE S(k) == SumOf(w, k)
<1>1. S(0) = 0
    <2>1. 9 \in Nat  OBVIOUS
    <2> QED  BY <2>1, WordSums, Zenon
<1>2. ASSUME NEW l \in Nat \ {0} PROVE S(l) = S(l - 1) + w[l]
    <2>1. 9 \in Nat  OBVIOUS
    <2> QED  BY <2>1, NextSum, Zenon
<1> HIDE DEF S
<1>3. S(1) = w[1]
    <2>1. S(1) = S(0) + w[1]  BY <1>2
    <2> QED  BY <1>1, <2>1
<1>4. S(2) = w[1] + w[2]
    <2>1. S(2) = S(1) + w[2]  BY <1>2
    <2> QED  BY <1>3, <2>1
<1>5. S(4) = w[1] + w[2] + w[3] + w[4]
    <2>1. S(4) = S(3) + w[4] /\ S(3) = S(2) + w[3]  BY <1>2
    <2> QED  BY <1>4, <2>1
<1>6. S(6) = w[1] + w[2] + w[3] + w[4] + w[5] + w[6]
    <2>1. S(6) = S(5) + w[6] /\ S(5) = S(4) + w[5]  BY <1>2
    <2> QED  BY <1>5, <2>1
<1>7. S(8) = w[1] + w[2] + w[3] + w[4] + w[5] + w[6] + w[7] + w[8]
    <2>1. S(8) = S(7) + w[8] /\ S(7) = S(6) + w[7]  BY <1>2
    <2> QED  BY <1>6, <2>1
<1>8. S(9) = S(8) + w[9]
    BY <1>2
<1> QED  BY <1>7, <1>8 DEF S

\* Nine words without and with a checksum y.
Short(w) == w \in Nat /\ w <= W16

Twins(u, v, y) ==
    /\ DOMAIN u = 1..9 /\ DOMAIN v = 1..9 /\ y \in Int
    /\ u[1] = 0 /\ u[2] = 0 /\ v[1] = 0 /\ v[2] = y
    /\ \A j \in 3..9 : Short(u[j]) /\ v[j] = u[j]

LEMMA NineWords ==
    ASSUME NEW u, NEW v, NEW y, Twins(u, v, y)
    PROVE  SumOf(u, 9) \in Nat /\ SumOf(u, 9) <= 8388607 /\ SumOf(v, 9) = SumOf(u, 9) + y
<1>0. /\ DOMAIN u = 1..9 /\ DOMAIN v = 1..9 /\ y \in Int
      /\ u[1] = 0 /\ u[2] = 0 /\ v[1] = 0 /\ v[2] = y
      /\ \A j \in 3..9 : u[j] \in Nat /\ u[j] <= 65536 /\ v[j] = u[j]
    BY SMT DEF Twins, Short, W16
<1>1. \A j \in 1..9 : u[j] \in Int /\ v[j] \in Int
    <2>1. \A j \in 1..9 : j = 1 \/ j = 2 \/ j \in 3..9  BY SMT
    <2> QED  BY <1>0, <2>1, SMT
<1>2. /\ SumOf(u, 9) = u[1] + u[2] + u[3] + u[4] + u[5] + u[6] + u[7] + u[8] + u[9]
      /\ SumOf(v, 9) = v[1] + v[2] + v[3] + v[4] + v[5] + v[6] + v[7] + v[8] + v[9]
    BY <1>0, <1>1, SumOfNine, SMT
<1>3. /\ 3 \in 3..9 /\ 4 \in 3..9 /\ 5 \in 3..9 /\ 6 \in 3..9 /\ 7 \in 3..9 /\ 8 \in 3..9 /\ 9 \in 3..9
    BY SMT
<1>4. /\ u[3] \in Nat /\ u[3] <= 65536 /\ v[3] = u[3] /\ u[4] \in Nat /\ u[4] <= 65536 /\ v[4] = u[4]
      /\ u[5] \in Nat /\ u[5] <= 65536 /\ v[5] = u[5] /\ u[6] \in Nat /\ u[6] <= 65536 /\ v[6] = u[6]
      /\ u[7] \in Nat /\ u[7] <= 65536 /\ v[7] = u[7] /\ u[8] \in Nat /\ u[8] <= 65536 /\ v[8] = u[8]
      /\ u[9] \in Nat /\ u[9] <= 65536 /\ v[9] = u[9]
    BY <1>0, <1>3, SMT
<1> QED  BY <1>0, <1>2, <1>4, SMT

\* A sealed reply passes validation.
LEMMA SealedAgain ==
    ASSUME NEW v, Sealed(v)
    PROVE  \E u \in Seq(Int) : Len(u) = 9 /\ u[1] = 0 /\ u[2] = 0 /\ v = [u EXCEPT ![2] = InternetChecksum(u)]
BY Zenon DEF Sealed

LEMMA NineFold ==
    ASSUME NEW w, DOMAIN w = 1..9
    PROVE  OnesSum(w) = Fold16(SumOf(w, 9))
<1>1. 9 \in Nat
    OBVIOUS
<1> QED  BY <1>1, WordSums, Zenon

LEMMA SealedIsValid ==
    ASSUME NEW v \in Seq(Int), Len(v) = 9, Sealed(v), \A j \in 3..9 : Short(v[j])
    PROVE  ValidateChecksum(v)
<1>1. PICK u \in Seq(Int) : Len(u) = 9 /\ u[1] = 0 /\ u[2] = 0 /\ v = [u EXCEPT ![2] = InternetChecksum(u)]
    BY SealedAgain, SMT
<1> DEFINE y == InternetChecksum(u)
<1>2. y \in Int /\ v = [u EXCEPT ![2] = y]
    BY <1>1, ChecksumIsNumber, SMT
<1>3. DOMAIN u = 1..9 /\ DOMAIN v = 1..9 /\ 9 \in Nat
    BY <1>1, SMT
<1>4. OnesSum(u) = Fold16(SumOf(u, 9)) /\ OnesSum(v) = Fold16(SumOf(v, 9))
    BY <1>3, NineFold, SMT
<1>5. y = 65535 - Fold16(SumOf(u, 9))
    BY <1>4, SMT DEF InternetChecksum, W16
<1> HIDE DEF y
<1>6. Twins(u, v, y)
    <2>1. u[1] = 0 /\ u[2] = 0  BY <1>1
    <2>2. ASSUME NEW j \in 1..9, j # 2 PROVE v[j] = u[j]  BY <1>2, <1>3, <2>2
    <2>3. v[2] = y
        <3>1. 2 \in DOMAIN u  BY <1>3
        <3> QED  BY <1>2, <3>1
    <2>4. v[1] = 0
        <3>1. 1 \in 1..9 /\ 1 # 2  OBVIOUS
        <3> QED  BY <2>1, <2>2, <3>1
    <2>5. ASSUME NEW j \in 3..9 PROVE Short(u[j]) /\ v[j] = u[j]
        <3>1. j \in 1..9 /\ j # 2  OBVIOUS
        <3>2. v[j] = u[j] /\ Short(v[j])  BY <2>2, <3>1
        <3> QED  BY <3>2
    <2>6. y \in Int  BY <1>2
    <2> QED  BY <1>3, <2>1, <2>3, <2>4, <2>5, <2>6 DEF Twins
<1>7. SumOf(u, 9) \in Nat /\ SumOf(u, 9) <= 8388607 /\ SumOf(v, 9) = SumOf(u, 9) + y
    BY <1>6, NineWords, SMT
<1> DEFINE s == SumOf(u, 9)
<1>8. Fold16(s + (65535 - Fold16(s))) \in {0, 65535}
    BY <1>7, SealFolds, SMT
<1>9. OnesSum(v) \in {0, 65535}
    BY <1>4, <1>5, <1>7, <1>8, SMT
<1> QED  BY <1>9, SMT DEF ValidateChecksum, W16
-----------------------------------------------------------------------------
(* The extensions of an error.                                              *)

ReadOne(c, object, read) == ReadObject(read, object)

XF == INSTANCE FoldTheory WITH Op <- ReadOne, Choice <- Highest

LEMMA ObjectFold ==
    ASSUME NEW objects, NEW n \in Nat, DOMAIN objects = 1..n
    PROVE  FoldLeft(ReadObject, NothingRead, objects) = XF!Iter(0, objects, NothingRead, 1..n)[1..n]
BY Zenon DEF FoldLeft, MapThenFoldSet, XF!Iter, XF!Recursion, XF!Step, ReadOne, Highest

\* The labels of a stack are some of it, and only the last may be the bottom.
LEMMA StackLabelsEnd ==
    ASSUME NEW stack \in Seq(Labels), NEW labels, labels = StackLabels(stack)
    PROVE  /\ labels \in Seq(Labels)
           /\ \A i \in 1..Len(labels) : labels[i] \in ToSet(stack)
           /\ \A i \in 1..(Len(labels) - 1) : ~labels[i].bottom
<1> DEFINE bottoms == {i \in 1..Len(stack) : stack[i].bottom}
           IsFirst(i) == i \in bottoms /\ \A j \in bottoms : i <= j
           n == CHOOSE i \in bottoms : \A j \in bottoms : i <= j
<1>1. labels = IF bottoms = {} THEN stack ELSE SubSeq(stack, 1, n)
    BY Zenon DEF StackLabels
<1>2. CASE bottoms = {}
    <2>1. labels = stack  BY <1>1, <1>2
    <2>2. \A i \in 1..Len(stack) : ~stack[i].bottom /\ stack[i] \in ToSet(stack)  BY <1>2 DEF ToSet
    <2>3. Len(stack) \in Nat  OBVIOUS
    <2> QED  BY <2>1, <2>2, <2>3
<1>3. CASE bottoms # {}
    <2>1. bottoms \in SUBSET Nat  OBVIOUS
    <2>2. \E i \in bottoms : \A j \in bottoms : i <= j
        <3> HIDE DEF bottoms
        <3> QED  BY <1>3, <2>1, WS!LeastNat
    <2>3. n \in bottoms /\ \A j \in bottoms : n <= j
        <3> HIDE DEF bottoms
        <3> QED  BY <2>2, Zenon
    <2> HIDE DEF n
    <2>4. n \in 1..Len(stack) /\ \A i \in 1..Len(stack) : i < n => ~stack[i].bottom
        BY <2>3
    <2>5. labels = SubSeq(stack, 1, n)  BY <1>1, <1>3
    <2>6. /\ labels \in Seq(Labels) /\ Len(labels) = n
          /\ \A i \in 1..n : labels[i] = stack[i]
        <3>1. n \in Nat /\ n <= Len(stack) /\ \A i \in 1..n : stack[i] \in Labels  BY <2>4
        <3>2. /\ labels \in Seq(Labels) /\ Len(labels) = IF 1 <= n THEN n - 1 + 1 ELSE 0
              /\ \A i \in 1..(n - 1 + 1) : labels[i] = stack[1 + i - 1]
            BY <2>5, <3>1, SubSeqProperties
        <3>3. n - 1 + 1 = n /\ \A i \in 1..n : 1 + i - 1 = i /\ 1 <= n  BY <3>1
        <3>4. 1 <= n  BY <2>4
        <3> HIDE DEF bottoms
        <3> QED  BY <3>2, <3>3, <3>4
    <2>7. \A i \in 1..n : i \in 1..Len(stack) /\ stack[i] \in ToSet(stack)  BY <2>4 DEF ToSet
    <2>8. \A i \in 1..(n - 1) : i \in 1..n /\ i \in 1..Len(stack) /\ i < n  BY <2>4
    <2> QED  BY <2>4, <2>6, <2>7, <2>8
<1> QED  BY <1>2, <1>3

Reading == [labels : Seq(Labels), seen : SUBSET (0..3), infos : Seq(Interfaces), torn : BOOLEAN]

IsStackOf(objects, i) == objects[i].class = "mpls"

\* What is known of the labels and of the interfaces when k objects were read.
LabelsRead(labels, objects, k) ==
    /\ \A i \in 1..Len(labels) : \E j \in 1..k : IsStackOf(objects, j) /\ labels[i] \in ToSet(objects[j].stack)
    /\ \A i \in 1..(Len(labels) - 1) :
        labels[i].bottom => \E j, l \in 1..k : j < l /\ IsStackOf(objects, j) /\ IsStackOf(objects, l)

RolesApart(infos, seen) ==
    /\ \A i \in 1..Len(infos) : infos[i].role \in seen
    /\ \A i, j \in 1..Len(infos) : infos[i].role = infos[j].role => i = j

LEMMA StackAppended ==
    ASSUME NEW objects, NEW k \in Nat, IsStackOf(objects, k + 1), objects[k + 1].stack \in Seq(Labels),
           NEW labels \in Seq(Labels), LabelsRead(labels, objects, k),
           NEW more, more = labels \o StackLabels(objects[k + 1].stack)
    PROVE  more \in Seq(Labels) /\ LabelsRead(more, objects, k + 1)
<1> DEFINE stack == objects[k + 1].stack
           added == StackLabels(stack)
           m == Len(labels)
<1>1. /\ added \in Seq(Labels)
      /\ \A i \in 1..Len(added) : added[i] \in ToSet(stack)
      /\ \A i \in 1..(Len(added) - 1) : ~added[i].bottom
    BY StackLabelsEnd
<1> HIDE DEF added
<1>2. /\ more \in Seq(Labels) /\ Len(more) = m + Len(added) /\ m \in Nat /\ Len(added) \in Nat
      /\ \A i \in 1..m : more[i] = labels[i]
      /\ \A i \in (m + 1)..(m + Len(added)) : more[i] = added[i - m]
    BY <1>1 DEF added
<1> HIDE DEF m, stack
<1>3. ASSUME NEW i \in 1..Len(more)
      PROVE  \E j \in 1..(k + 1) : IsStackOf(objects, j) /\ more[i] \in ToSet(objects[j].stack)
    <2>1. CASE i <= m
        <3>1. i \in 1..m /\ i \in 1..Len(labels)  BY <1>2, <2>1 DEF m
        <3>2. PICK j \in 1..k : IsStackOf(objects, j) /\ labels[i] \in ToSet(objects[j].stack)
            BY <3>1 DEF LabelsRead
        <3> QED  BY <1>2, <3>1, <3>2
    <2>2. CASE i > m
        <3>1. i \in (m + 1)..(m + Len(added)) /\ i - m \in 1..Len(added)  BY <1>2, <2>2
        <3>2. more[i] \in ToSet(stack)  BY <1>1, <1>2, <3>1
        <3>3. k + 1 \in 1..(k + 1)  OBVIOUS
        <3> QED  BY <3>2, <3>3 DEF stack
    <2> QED  BY <1>2, <2>1, <2>2
<1>4. ASSUME NEW i \in 1..(Len(more) - 1), more[i].bottom
      PROVE  \E j, l \in 1..(k + 1) : j < l /\ IsStackOf(objects, j) /\ IsStackOf(objects, l)
    <2>1. CASE i <= m
        <3>1. i \in 1..Len(labels) /\ i \in 1..m  BY <1>2, <2>1 DEF m
        <3>2. PICK j \in 1..k : IsStackOf(objects, j)  BY <3>1 DEF LabelsRead
        <3>3. j \in 1..(k + 1) /\ k + 1 \in 1..(k + 1) /\ j < k + 1  OBVIOUS
        <3> QED  BY <3>2, <3>3
    <2>2. CASE i > m
        <3>1. i \in (m + 1)..(m + Len(added)) /\ i - m \in 1..(Len(added) - 1)  BY <1>2, <2>2
        <3>2. ~more[i].bottom  BY <1>1, <1>2, <3>1
        <3> QED  BY <1>4, <3>2
    <2> QED  BY <1>2, <2>1, <2>2
<1> QED  BY <1>2, <1>3, <1>4 DEF LabelsRead

\* What was read stays read.
LEMMA LabelsStay ==
    ASSUME NEW objects, NEW k \in Nat, NEW labels, LabelsRead(labels, objects, k)
    PROVE  LabelsRead(labels, objects, k + 1)
<1>1. \A j \in 1..k : j \in 1..(k + 1)
    OBVIOUS
<1> QED  BY <1>1 DEF LabelsRead

LEMMA InterfaceAdded ==
    ASSUME NEW o \in Objects, NEW acc \in Reading, RolesApart(acc.infos, acc.seen),
           NEW g, g = AddInterface(acc, o)
    PROVE  g \in Reading /\ g.labels = acc.labels /\ RolesApart(g.infos, g.seen)
<1>1. CASE o.role \in acc.seen
    BY <1>1 DEF AddInterface
<1>2. CASE o.role \notin acc.seen
    <2> DEFINE e == [role |-> o.role, info |-> o.info]
               infos == IF o.whole THEN Append(acc.infos, e) ELSE acc.infos
               n == Len(acc.infos)
    <2>1. e \in Interfaces /\ acc.infos \in Seq(Interfaces) /\ o.role \in 0..3  BY DEF Objects, Interfaces, Reading
    <2>2. g = [acc EXCEPT !.seen = @ \cup {o.role}, !.infos = infos]  BY <1>2 DEF AddInterface
    <2>3. /\ infos \in Seq(Interfaces)
          /\ \A i \in 1..Len(infos) : (i \in 1..n /\ infos[i] = acc.infos[i]) \/ (i = n + 1 /\ infos[i] = e)
        <3> DEFINE old == acc.infos
        <3>1. CASE ~o.whole
            <4>1. infos = acc.infos  BY <3>1
            <4> QED  BY <2>1, <4>1
        <3>2. CASE o.whole
            <4>1. infos = Append(old, e)  BY <3>2
            <4>2. old \in Seq(Interfaces) /\ e \in Interfaces /\ n = Len(old)  BY <2>1
            <4> HIDE DEF e, infos, old, n
            <4>3. infos \in Seq(Interfaces) /\ Len(infos) = n + 1 /\ n \in Nat  BY <4>1, <4>2
            <4>4. infos[n + 1] = e /\ \A i \in 1..n : infos[i] = old[i]  BY <4>1, <4>2
            <4>5. \A i \in 1..(n + 1) : i \in 1..n \/ i = n + 1  BY <4>3
            <4> QED  BY <4>3, <4>4, <4>5 DEF old
        <3> QED  BY <3>1, <3>2
    <2> HIDE DEF infos, e
    <2>4. /\ g.seen = acc.seen \cup {o.role} /\ g.infos = infos /\ g.labels = acc.labels /\ g \in Reading
        <3>1. acc.seen \cup {o.role} \in SUBSET (0..3)  BY <2>1 DEF Reading
        <3> DEFINE seen == acc.seen \cup {o.role}
        <3> HIDE DEF seen
        <3>2. g = [acc EXCEPT !.seen = seen, !.infos = infos]  BY <2>2 DEF seen
        <3>3. seen \in SUBSET (0..3) /\ infos \in Seq(Interfaces)  BY <2>3, <3>1 DEF seen
        <3>4. g \in Reading /\ g.seen = seen /\ g.infos = infos /\ g.labels = acc.labels
            BY <3>2, <3>3 DEF Reading
        <3> QED  BY <3>4 DEF seen
    <2>5. e.role = o.role  BY DEF e
    <2> HIDE DEF n
    <2>6. \A i \in 1..n : acc.infos[i].role \in acc.seen /\ acc.infos[i].role # o.role
        BY <1>2 DEF RolesApart, n
    <2>7. \A i, j \in 1..n : acc.infos[i].role = acc.infos[j].role => i = j
        BY DEF RolesApart, n
    <2>8. \A i \in 1..Len(infos) : infos[i].role \in acc.seen \cup {o.role}
        BY <2>3, <2>5, <2>6
    <2>9. \A i, j \in 1..Len(infos) : infos[i].role = infos[j].role => i = j
        BY <2>3, <2>5, <2>6, <2>7
    <2> QED  BY <2>4, <2>8, <2>9 DEF RolesApart
<1> QED  BY <1>1, <1>2

HasRead(acc, objects, k) ==
    acc \in Reading /\ LabelsRead(acc.labels, objects, k) /\ RolesApart(acc.infos, acc.seen)

LEMMA ReadsOneMore ==
    ASSUME NEW objects, NEW k \in Nat, objects[k + 1] \in Objects, NEW acc, HasRead(acc, objects, k),
           NEW g, g = ReadObject(acc, objects[k + 1])
    PROVE  HasRead(g, objects, k + 1)
<1> DEFINE o == objects[k + 1]
<1>1. o \in Objects /\ acc \in Reading
    BY DEF HasRead
<1>2. LabelsRead(acc.labels, objects, k + 1)
    BY LabelsStay DEF HasRead
<1>3. CASE acc.torn \/ ~o.fits
    <2>1. g = [acc EXCEPT !.torn = TRUE]  BY <1>3 DEF ReadObject
    <2>2. g \in Reading /\ g.labels = acc.labels /\ g.infos = acc.infos /\ g.seen = acc.seen
        BY <1>1, <2>1 DEF Reading
    <2> QED  BY <1>2, <2>2 DEF HasRead
<1>4. CASE ~(acc.torn \/ ~o.fits) /\ o.class = "mpls"
    <2>1. g = [acc EXCEPT !.labels = acc.labels \o StackLabels(o.stack)]  BY <1>4 DEF ReadObject
    <2> DEFINE more == acc.labels \o StackLabels(o.stack)
    <2>2. more \in Seq(Labels) /\ LabelsRead(more, objects, k + 1)
        <3>1. acc.labels \in Seq(Labels) /\ o.stack \in Seq(Labels)  BY <1>1 DEF Reading, Objects
        <3>2. IsStackOf(objects, k + 1) /\ LabelsRead(acc.labels, objects, k)  BY <1>4 DEF HasRead, IsStackOf
        <3> QED  BY <3>1, <3>2, StackAppended
    <2> HIDE DEF more
    <2>3. g \in Reading /\ g.labels = more /\ g.infos = acc.infos /\ g.seen = acc.seen
        BY <1>1, <2>1, <2>2 DEF Reading, more
    <2> QED  BY <2>2, <2>3 DEF HasRead
<1>5. CASE ~(acc.torn \/ ~o.fits) /\ o.class = "interface"
    <2>1. g = AddInterface(acc, o)  BY <1>5 DEF ReadObject
    <2>2. RolesApart(acc.infos, acc.seen)  BY DEF HasRead
    <2> HIDE DEF o
    <2>3. g \in Reading /\ g.labels = acc.labels /\ RolesApart(g.infos, g.seen)
        BY <1>1, <2>1, <2>2, InterfaceAdded
    <2> QED  BY <1>2, <2>3 DEF HasRead
<1>6. CASE ~(acc.torn \/ ~o.fits) /\ o.class = "other"
    <2>1. g = acc  BY <1>6 DEF ReadObject
    <2> QED  BY <1>2, <2>1 DEF HasRead
<1>7. o.class \in {"mpls", "interface", "other"}
    BY <1>1 DEF Objects
<1> QED  BY <1>3, <1>4, <1>5, <1>6, <1>7

\* The whole list of objects.
LEMMA ObjectsRead ==
    ASSUME NEW objects \in Seq(Objects), NEW read, read = FoldLeft(ReadObject, NothingRead, objects)
    PROVE  HasRead(read, objects, Len(objects))
<1> DEFINE n == Len(objects)
           T == [k \in Nat |-> {acc \in Reading : HasRead(acc, objects, k)}]
<1>1. n \in Nat /\ DOMAIN objects = 1..n /\ \A i \in 1..n : objects[i] \in Objects
    OBVIOUS
<1> HIDE DEF n
<1>2. read = XF!Iter(0, objects, NothingRead, 1..n)[1..n]
    BY <1>1, ObjectFold
<1>3. XF!Greatest /\ \A k \in Nat : XF!Chooses(1..k)
    <2>1. \A k \in Nat : WS!Chooses(1..k) /\ Highest(1..(k + 1)) = k + 1  BY MaxGreatest
    <2> QED  BY <2>1 DEF XF!Greatest, XF!Chooses, WS!Chooses
<1>4. NothingRead \in T[0]
    <2>1. NothingRead \in Reading  BY DEF NothingRead, Reading
    <2>2. Len(NothingRead.labels) = 0 /\ Len(NothingRead.infos) = 0  BY DEF NothingRead
    <2>3. HasRead(NothingRead, objects, 0)
        BY <2>1, <2>2 DEF HasRead, LabelsRead, RolesApart
    <2> QED  BY <2>1, <2>3
<1>5. ASSUME NEW k \in Nat, k < n, NEW r \in T[k] PROVE ReadOne(0, objects[k + 1], r) \in T[k + 1]
    <2>1. HasRead(r, objects, k)  OBVIOUS
    <2>2. objects[k + 1] \in Objects  BY <1>1, <1>5
    <2> DEFINE g == ReadObject(r, objects[k + 1])
    <2>3. HasRead(g, objects, k + 1)  BY <2>1, <2>2, ReadsOneMore
    <2>4. ReadOne(0, objects[k + 1], r) = g  BY DEF ReadOne
    <2> HIDE DEF g
    <2> QED  BY <2>3, <2>4 DEF HasRead
<1>6. XF!Iter(0, objects, NothingRead, 1..n)[1..n] \in T[n]
    <2> HIDE DEF T
    <2> QED  BY <1>1, <1>3, <1>4, <1>5, XF!Keeps
<1> QED  BY <1>1, <1>2, <1>6 DEF n

\* What is read of a message: labels of its stacks, and each role once.
ExtensionOf(r, e) ==
    /\ r.labels \in Seq(Labels) /\ r.interfaces \in Seq(Interfaces)
    /\ \A i, j \in 1..Len(r.interfaces) : r.interfaces[i].role = r.interfaces[j].role => i = j
    /\ (r.labels # <<>> \/ r.interfaces # <<>>) => Some(e) /\ e.version = 2
    /\ Some(e) => LabelsRead(r.labels, e.objects, Len(e.objects))

LEMMA ExtensionsParsed ==
    ASSUME NEW m, m.ext \in Maybe(Extensions), NEW r, r = ParseExtensions(m)
    PROVE  ExtensionOf(r, m.ext)
<1> DEFINE read == IF m.ext = None \/ m.ext.at # ExtStart(m.length, m.fam) \/ m.ext.version # 2 THEN NothingRead
                   ELSE FoldLeft(ReadObject, NothingRead, m.ext.objects)
<1>1. r = [labels |-> read.labels, interfaces |-> read.infos]
    BY Zenon DEF ParseExtensions
<1>2. r.labels = read.labels /\ r.interfaces = read.infos
    <2> HIDE DEF read
    <2> QED  BY <1>1
<1>3. CASE m.ext = None \/ m.ext.at # ExtStart(m.length, m.fam) \/ m.ext.version # 2
    <2>1. read = NothingRead  BY <1>3, Zenon
    <2> HIDE DEF read
    <2>2. r.labels = <<>> /\ r.interfaces = <<>>  BY <1>2, <2>1 DEF NothingRead
    <2>3. r.labels \in Seq(Labels) /\ r.interfaces \in Seq(Interfaces) /\ Len(r.labels) = 0 /\ Len(r.interfaces) = 0
        BY <2>2
    <2> QED  BY <2>2, <2>3 DEF ExtensionOf, LabelsRead
<1>4. CASE ~(m.ext = None \/ m.ext.at # ExtStart(m.length, m.fam) \/ m.ext.version # 2)
    <2>1. read = FoldLeft(ReadObject, NothingRead, m.ext.objects)  BY <1>4, Zenon
    <2>2. m.ext.objects \in Seq(Objects)  BY <1>4 DEF Maybe, Extensions
    <2> HIDE DEF read
    <2>3. HasRead(read, m.ext.objects, Len(m.ext.objects))  BY <2>1, <2>2, ObjectsRead
    <2>4. read \in Reading /\ LabelsRead(read.labels, m.ext.objects, Len(m.ext.objects)) /\ RolesApart(read.infos, read.seen)
        BY <2>3 DEF HasRead
    <2> QED  BY <1>2, <1>4, <2>4 DEF ExtensionOf, Reading, RolesApart, Some
<1> QED  BY <1>3, <1>4

\* The extensions of a message are read whatever parser returns it.
ReadsExtension(r, m) ==
    r = None \/ (r.labels = ParseExtensions(m).labels /\ r.interfaces = ParseExtensions(m).interfaces)

LEMMA ParsedExtension ==
    ASSUME NEW m, NEW type, NEW id, NEW pmtud, NEW port, NEW mtu, NEW ttl, NEW dest,
           NEW r, r = Parsed(m, type, id, pmtud, port, mtu, ttl, dest)
    PROVE  ReadsExtension(r, m)
BY DEF Parsed, ReadsExtension

LEMMA QuotedExtension ==
    ASSUME NEW m, NEW type, NEW mtu, NEW r, r = ParseQuoted(m, type, mtu)
    PROVE  ReadsExtension(r, m)
<1> DEFINE q == m.quote
           w == q.words
           seq == CASE q.proto = "icmp" -> IF Hi(w[1]) # EchoRequestType(m.fam) THEN None
                                           ELSE EchoSequence(w)
                    [] q.proto = "tcp"  -> TcpSequence(w)
                    [] q.proto = "udp"  -> UdpSequence(w)
                    [] OTHER            -> None
           port == IF q.proto = "icmp" THEN None ELSE w[1]
<1>1. r = IF seq = None THEN None
          ELSE Parsed(m, type, FromSequence(seq), FALSE, port, mtu, q.ttl, q.dest)
    BY Zenon DEF ParseQuoted
<1> HIDE DEF seq, port
<1>2. CASE seq = None  BY <1>1, <1>2 DEF ReadsExtension
<1>3. CASE seq # None
    <2>1. r = Parsed(m, type, FromSequence(seq), FALSE, port, mtu, q.ttl, q.dest)  BY <1>1, <1>3
    <2> QED  BY <2>1, ParsedExtension
<1> QED  BY <1>2, <1>3

LEMMA ErrorExtension ==
    ASSUME NEW m, NEW type, NEW mtu
    PROVE  /\ ReadsExtension(ErrorV4(m, type, mtu), m) /\ ReadsExtension(ErrorV4Dgram(m, type, mtu), m)
           /\ ReadsExtension(ErrorV6(m, type, mtu), m)
<1> DEFINE r == ParseQuoted(m, type, mtu)
<1>1. ReadsExtension(r, m)
    BY QuotedExtension
<1>2. ReadsExtension(None, m)
    BY DEF ReadsExtension
<1>3. /\ ErrorV4(m, type, mtu) = None \/ ErrorV4(m, type, mtu) = r
      /\ ErrorV4Dgram(m, type, mtu) = None \/ ErrorV4Dgram(m, type, mtu) = r
      /\ ErrorV6(m, type, mtu) = None \/ ErrorV6(m, type, mtu) = r
    BY Zenon DEF ErrorV4, ErrorV4Dgram, ErrorV6
<1> HIDE DEF r
<1> QED  BY <1>1, <1>2, <1>3, Zenon

LEMMA ReplyExtension ==
    ASSUME NEW m, NEW from
    PROVE  ReadsExtension(ParseEchoReply(m, from), m)
<1> DEFINE r == ParseEchoReply(m, from)
           seq == EchoSequence(m.words)
           marked == Len(m.words) >= 9 /\ Hi(m.words[9]) = PmtudMarker
<1>1. r = None \/ r = Parsed(m, "EchoReply", FromSequence(seq), marked, None, None, None, from)
    BY Zenon DEF ParseEchoReply
<1> HIDE DEF r, seq, marked
<1>2. ReadsExtension(None, m)
    BY DEF ReadsExtension
<1> QED  BY <1>1, <1>2, ParsedExtension DEF r

LEMMA ResponseExtension ==
    ASSUME NEW m, NEW from, NEW dgram, NEW r, r = ParseIcmpResponse(m, from, dgram)
    PROVE  ReadsExtension(r, m)
<1>1. r \in {ParseEchoReply(m, from), None, ErrorV4(m, "TimeExceeded", None),
             ErrorV4(m, "DestUnreachable", MtuV4(m)), ErrorV4Dgram(m, "TimeExceeded", None),
             ErrorV4Dgram(m, "DestUnreachable", MtuV4(m)), ErrorV6(m, "PacketTooBig", MtuV6(m)),
             ErrorV6(m, "TimeExceeded", None), ErrorV6(m, "DestUnreachable", None)}
    BY DEF ParseIcmpResponse, ParseV4, ParseV4Dgram, ParseV6Dgram
<1>2. ReadsExtension(None, m)
    BY DEF ReadsExtension
<1> QED  BY <1>1, <1>2, ReplyExtension, ErrorExtension

LEMMA MessageExtension ==
    ASSUME NEW q \in Profiles, NEW p \in Probes(q), NEW m, m = Message(p)
    PROVE  m.ext \in Maybe(Extensions) /\ m.ext \in {None, p.fate.ext}
<1>1. p.fate.ext \in Maybe(Extensions)
    <2>1. p.fate \in Fates  BY ProbeFields
    <2> QED  BY <2>1 DEF Fates
<1>2. None \in Maybe(Extensions)
    BY DEF Maybe
<1>3. m.ext \in {None, p.fate.ext}
    <2>1. CASE p.fate.echo
        <3>1. m = EchoReply(Carried(p)) /\ p.proto = "icmp"  BY <2>1, MessageIs, ProbeFields
        <3>2. IsReplyTo(m, p)  BY <3>1, ReplyWords
        <3> QED  BY <3>2 DEF IsReplyTo
    <2>2. CASE ~p.fate.echo
        <3>1. m = ErrorOf(p)  BY <2>2, MessageIs
        <3> QED  BY <3>1 DEF ErrorOf, IcmpError
    <2> QED  BY <2>1, <2>2
<1> QED  BY <1>1, <1>2, <1>3

\* Two stacks are more than one.
LEMMA TwoStacks ==
    ASSUME NEW objects, NEW n \in Nat, NEW j \in 1..n, NEW l \in 1..n, j < l,
           IsStackOf(objects, j), IsStackOf(objects, l)
    PROVE  Cardinality({k \in 1..n : objects[k].class = "mpls"}) > 1
<1> DEFINE S == {k \in 1..n : objects[k].class = "mpls"}
<1>1. IsFiniteSet(S)
    <2>1. IsFiniteSet(1..n)  BY FS_Interval
    <2>2. S \subseteq 1..n  OBVIOUS
    <2> HIDE DEF S
    <2> QED  BY <2>1, <2>2, FS_Subset
<1>2. j \in S /\ l \in S /\ j # l
    BY DEF IsStackOf
<1> HIDE DEF S
<1>3. Cardinality(S) \in Nat
    BY <1>1, FS_CardinalityType
<1>4. Cardinality(S) # 0
    BY <1>1, <1>2, FS_EmptySet
<1>5. Cardinality(S) # 1
    BY <1>1, <1>2, FS_Singleton
<1>6. Cardinality(S) > 1
    BY <1>3, <1>4, <1>5
<1> QED  BY <1>6 DEF S

LEMMA InRange ==
    ASSUME NEW T, NEW s \in Seq(T)
    PROVE  \A y \in ToSet(s) : \E i \in 1..Len(s) : y = s[i]
<1>1. DOMAIN s = 1..Len(s)
    OBVIOUS
<1> QED  BY <1>1, Zenon DEF ToSet

\* What ExtensionsRead says of an answer and of its extension.
ReadAlong(r, e) ==
    /\ \A i, j \in 1..Len(r.interfaces) : r.interfaces[i].role = r.interfaces[j].role => i = j
    /\ (r.labels # <<>> \/ r.interfaces # <<>>) =>
           /\ Some(e) /\ e.version = 2
           /\ ToSet(r.labels) \subseteq UNION {ToSet(e.objects[i].stack) : i \in 1..Len(e.objects)}
    /\ \A i \in 1..(Len(r.labels) - 1) : r.labels[i].bottom => Cardinality(
           {k \in 1..Len(e.objects) : e.objects[k].class = "mpls"}) > 1

LEMMA AnswerExtension ==
    ASSUME NEW q \in Profiles, NEW p \in Probes(q), NEW r, r = ParsedOf(p), Some(r),
           NEW e, e = p.fate.ext
    PROVE  ReadAlong(r, e)
<1> DEFINE m == Message(p)
           x == ParseExtensions(m)
<1>1. m.ext \in Maybe(Extensions) /\ m.ext \in {None, e}
    <2> HIDE DEF m
    <2>1. m = Message(p)  BY DEF m
    <2> QED  BY <2>1, MessageExtension
<1>2. r.labels = x.labels /\ r.interfaces = x.interfaces
    <2>1. r = ParseIcmpResponse(m, p.fate.from, p.fate.dgram)  BY DEF ParsedOf
    <2> HIDE DEF m
    <2>2. ReadsExtension(r, m)  BY <2>1, ResponseExtension
    <2> QED  BY <2>2 DEF ReadsExtension, Some
<1>3. ExtensionOf(x, m.ext)
    <2> HIDE DEF m
    <2> QED  BY <1>1, ExtensionsParsed
<1> HIDE DEF x, m
<1>4. /\ r.labels \in Seq(Labels) /\ r.interfaces \in Seq(Interfaces)
      /\ \A i, j \in 1..Len(r.interfaces) : r.interfaces[i].role = r.interfaces[j].role => i = j
      /\ (r.labels # <<>> \/ r.interfaces # <<>>) => Some(m.ext) /\ m.ext.version = 2
      /\ Some(m.ext) => LabelsRead(r.labels, m.ext.objects, Len(m.ext.objects))
    BY <1>2, <1>3, Zenon DEF ExtensionOf
<1>5. CASE r.labels = <<>> /\ r.interfaces = <<>>
    <2>1. 1..(Len(r.labels) - 1) = {}  BY <1>5
    <2>2. \A i, j \in 1..Len(r.interfaces) : r.interfaces[i].role = r.interfaces[j].role => i = j
        BY <1>4
    <2> QED  BY <1>5, <2>1, <2>2, Zenon DEF ReadAlong
<1>6. CASE r.labels # <<>> \/ r.interfaces # <<>>
    <2>1. Some(m.ext) /\ m.ext = e /\ e.version = 2  BY <1>1, <1>4, <1>6 DEF Some
    <2> DEFINE n == Len(e.objects)
    <2>2. LabelsRead(r.labels, e.objects, n) /\ n \in Nat
        <3>1. e \in Extensions  BY <1>1, <2>1, Present
        <3>2. e.objects \in Seq(Objects)  BY <3>1 DEF Extensions
        <3>3. n \in Nat  BY <3>2
        <3> QED  BY <1>4, <2>1, <3>3
    <2>3. ToSet(r.labels) \subseteq UNION {ToSet(e.objects[i].stack) : i \in 1..n}
        <3>1. \A y \in ToSet(r.labels) : \E i \in 1..Len(r.labels) : y = r.labels[i]
            <4>1. r.labels \in Seq(Labels)  BY <1>4
            <4> QED  BY <4>1, InRange
        <3> HIDE DEF n
        <3>2. ASSUME NEW i \in 1..Len(r.labels) PROVE \E j \in 1..n : r.labels[i] \in ToSet(e.objects[j].stack)
            BY <2>2 DEF LabelsRead
        <3>3. ASSUME NEW y \in ToSet(r.labels) PROVE \E j \in 1..n : y \in ToSet(e.objects[j].stack)
            <4>1. PICK i \in 1..Len(r.labels) : y = r.labels[i]  BY <3>1, Zenon
            <4>2. PICK j \in 1..n : r.labels[i] \in ToSet(e.objects[j].stack)  BY <3>2, Zenon
            <4> QED  BY <4>1, <4>2
        <3> QED  BY <3>3
    <2>4. ASSUME NEW i \in 1..(Len(r.labels) - 1), r.labels[i].bottom
          PROVE  Cardinality({k \in 1..n : e.objects[k].class = "mpls"}) > 1
        <3> HIDE DEF n
        <3>1. PICK j, l \in 1..n : j < l /\ IsStackOf(e.objects, j) /\ IsStackOf(e.objects, l)
            BY <2>2, <2>4, Zenon DEF LabelsRead
        <3> QED  BY <2>2, <3>1, TwoStacks
    <2>5. \A i, j \in 1..Len(r.interfaces) : r.interfaces[i].role = r.interfaces[j].role => i = j
        BY <1>4
    <2> QED  BY <2>1, <2>3, <2>4, <2>5, Zenon DEF ReadAlong
<1> QED  BY <1>5, <1>6

\* An error's extensions are read as ExtensionsRead says: interfaces are told
\* apart by their roles, and labels come from the stacks of a valid extension,
\* however many objects it has and whatever is torn off.
THEOREM ExtensionsAreRead == Spec => []ExtensionsRead
<1>1. ASSUME SessionInv PROVE ExtensionsRead
    <2>1. ASSUME probe # None PROVE probe \in Probes(profile) /\ profile \in Profiles
        BY <1>1, <2>1 DEF SessionInv
    <2>2. ASSUME probe # None, NEW r, r = ParsedOf(probe), Some(r) PROVE ReadAlong(r, probe.fate.ext)
        BY <2>1, <2>2, AnswerExtension
    <2> QED  BY <2>2, Zenon DEF ExtensionsRead, ReadAlong
<1> QED  BY <1>1, AlwaysSound, PTL
-----------------------------------------------------------------------------
(* The answers that are recognised, and the probes they find.               *)

ErrorTypes == {"TimeExceeded", "DestUnreachable", "PacketTooBig"}

\* A parser that returns anything returns a response.
LEMMA ParsedIsResponse ==
    ASSUME NEW m, m.code \in Byte, m.ext \in Maybe(Extensions),
           NEW type \in ErrorTypes \cup {"EchoReply"}, NEW id \in [ttl : 1..MaxTtl, seq : Byte],
           NEW pmtud \in BOOLEAN, NEW port \in Maybe(Word), NEW mtu \in Maybe(Nat),
           NEW ttl \in Maybe(Byte), NEW dest \in Addrs,
           NEW r, r = Parsed(m, type, id, pmtud, port, mtu, ttl, dest)
    PROVE  Some(r)
<1> DEFINE x == ParseExtensions(m)
<1>1. x.labels \in Seq(Labels) /\ x.interfaces \in Seq(Interfaces)
    <2>1. ExtensionOf(x, m.ext)  BY ExtensionsParsed
    <2> HIDE DEF x
    <2> QED  BY <2>1, Zenon DEF ExtensionOf
<1>2. r = [id |-> id, type |-> type, code |-> m.code, pmtud |-> pmtud, port |-> port, mtu |-> mtu,
           quotedTtl |-> ttl, dest |-> dest, labels |-> x.labels, interfaces |-> x.interfaces]
    BY Zenon DEF Parsed
<1> HIDE DEF x
<1> DEFINE labels == x.labels
           interfaces == x.interfaces
           code == m.code
<1>3. labels \in Seq(Labels) /\ interfaces \in Seq(Interfaces) /\ code \in Byte
    BY <1>1
<1>4. r = [id |-> id, type |-> type, code |-> code, pmtud |-> pmtud, port |-> port, mtu |-> mtu,
           quotedTtl |-> ttl, dest |-> dest, labels |-> labels, interfaces |-> interfaces]
    BY <1>2
<1>5. type \in {"EchoReply", "TimeExceeded", "DestUnreachable", "PacketTooBig"}
    BY DEF ErrorTypes
<1> HIDE DEF labels, interfaces, code
<1>6. r \in Responses
    BY <1>3, <1>4, <1>5 DEF Responses
<1> QED  BY <1>6, ResponsesAssumption DEF Some

\* The words of an echo request are short, whoever rewrote them.
LEMMA ShortSequence ==
    ASSUME NEW id \in [ttl : 1..MaxTtl, seq : Byte]
    PROVE  Short(ToSequence(id))
<1> DEFINE t == id.ttl
           s == id.seq
<1>1. t \in Nat /\ t <= 255 /\ s \in Nat /\ s <= 255
    <2>1. t \in 1..MaxTtl /\ s \in 0..255  BY DEF Byte
    <2>2. MaxTtl \in Nat /\ MaxTtl <= 255  BY SessionStatsAssumption
    <2> HIDE DEF t, s
    <2> QED  BY <2>1, <2>2
<1>2. ToSequence(id) = t * 256 + s
    BY DEF ToSequence
<1> HIDE DEF t, s
<1> QED  BY <1>1, <1>2, SMT DEF Short, W16

LEMMA ShortIdent ==
    ASSUME NEW x \in Word
    PROVE  Short(x) /\ Short(x + 1)
<1>1. W16 - 1 \in Nat /\ W16 \in Nat
    BY DEF W16
<1>2. x \in 0..(W16 - 1)
    BY DEF Word
<1> HIDE DEF Word
<1>3. x \in Nat /\ x <= W16 - 1
    BY <1>1, <1>2
<1> QED  BY <1>1, <1>3 DEF Short

LEMMA IdentIsWord == Ident \in Word
BY WireAssumption DEF Word

LEMMA CarriedShort ==
    ASSUME NEW q \in Profiles, NEW p \in Probes(q), p.proto = "icmp"
    PROVE  \A j \in 3..9 : Short(Carried(p).words[j])
<1> DEFINE w == Carried(p).words
<1>1. /\ IdWords(w, p) /\ w[7] = 0 /\ w[8] = 7 /\ w[9] = Marker(p)
      /\ w[3] \in {Ident + 1, p.fate.ident, Ident} /\ (w[3] = p.fate.ident => Some(p.fate.ident) \/ w[3] = Ident \/ w[3] = Ident + 1)
      /\ w[5] \in {Ident + 1, Ident}
    BY CarriedWords DEF Kept
<1>2. w[4] = ToSequence(p.id) /\ w[6] = ToSequence(p.id)
    BY <1>1 DEF IdWords
<1> HIDE DEF w
<1>3. Short(w[4]) /\ Short(w[6])
    <2>1. p.id \in [ttl : 1..MaxTtl, seq : Byte]  BY ProbeFields
    <2>2. Short(ToSequence(p.id))  BY <2>1, ShortSequence
    <2> QED  BY <1>2, <2>2
<1>4. Short(Ident) /\ Short(Ident + 1)
    BY IdentIsWord, ShortIdent
<1>5. Short(w[5])
    BY <1>1, <1>4
<1>6. Short(w[3])
    <2>1. CASE w[3] \in {Ident, Ident + 1}  BY <1>4, <2>1
    <2>2. CASE w[3] \notin {Ident, Ident + 1}
        <3>1. w[3] = p.fate.ident /\ Some(p.fate.ident)  BY <1>1, <2>2
        <3>2. p.fate.ident \in Maybe(Word)  BY ProbeFields
        <3>3. p.fate.ident \in Word  BY <3>1, <3>2, Present
        <3> QED  BY <3>1, <3>3, ShortIdent
    <2> QED  BY <2>1, <2>2
<1>7. Short(0) /\ Short(7) /\ Short(Marker(p))
    BY SMT DEF Short, W16, Marker, PmtudMarker
<1>8. \A j \in 3..9 : j = 3 \/ j = 4 \/ j = 5 \/ j = 6 \/ j = 7 \/ j = 8 \/ j = 9
    OBVIOUS
<1>9. \A j \in 3..9 : Short(w[j])
    BY <1>1, <1>3, <1>5, <1>6, <1>7, <1>8
<1> QED  BY <1>9 DEF w

\* The sequence number of an echo request is found by the identifier or by its
\* copy, unless both are another's.
LEMMA FoundSequence ==
    ASSUME NEW w, NEW s, w[4] = s, Len(w) \in Nat, Len(w) >= 6 => w[6] = s,
           NEW k, k = EchoSequence(w), Some(s)
    PROVE  /\ w[3] = Ident => k = s
           /\ (Len(w) >= 6 /\ w[5] = Ident) => k = s
           /\ (w[3] # Ident /\ (Len(w) >= 6 => w[5] # Ident)) => k = None
BY DEF EchoSequence, Some

LEMMA SequenceIsThere ==
    ASSUME NEW id \in [ttl : 1..MaxTtl, seq : Byte]
    PROVE  Some(ToSequence(id))
<1>1. ToSequence(id) \in Nat /\ None \notin Int
    BY SequenceHoldsId, WireNumbers
<1> QED  BY <1>1 DEF Some

\* The marker tells MTU probes.
LEMMA MarkerRead ==
    ASSUME NEW p, p.pmtud \in BOOLEAN
    PROVE  (Hi(Marker(p)) = PmtudMarker) = p.pmtud
<1>1. CASE p.pmtud
    <2>1. Marker(p) = 80 * 256 + 1  BY <1>1 DEF Marker, PmtudMarker
    <2>2. Hi(Marker(p)) = PmtudMarker  BY <2>1 DEF Hi, PmtudMarker
    <2> QED  BY <1>1, <2>2
<1>2. CASE ~p.pmtud
    <2>1. Marker(p) = 1  BY <1>2 DEF Marker
    <2>2. Hi(Marker(p)) # PmtudMarker  BY <2>1 DEF Hi, PmtudMarker
    <2> QED  BY <1>2, <2>2
<1> QED  BY <1>1, <1>2

\* An echo reply is recognised unless it answers another process, and tells
\* whether its probe was an MTU probe.
LEMMA EchoAnswer ==
    ASSUME NEW q \in Profiles, NEW p \in Probes(q), p.fate.echo, NEW r, r = ParsedOf(p)
    PROVE  /\ Some(r) <=> ~p.fate.foreign
           /\ Some(r) => r.dest = p.fate.from /\ r.pmtud = p.pmtud
<1> DEFINE m == Message(p)
           c == Carried(p).words
           v == m.words
           s == ToSequence(p.id)
<1>1. /\ p.proto = "icmp" /\ m = EchoReply(Carried(p)) /\ p.fam \in {4, 6}
      /\ p.id \in [ttl : 1..MaxTtl, seq : Byte] /\ p.pmtud \in BOOLEAN /\ p.fate.from \in Addrs
    BY MessageIs, ProbeFields
<1>2. IsReplyTo(m, p)
    <2> HIDE DEF m
    <2> QED  BY <1>1, ReplyWords
<1>3. m.code = 0
    <2> HIDE DEF m
    <2> QED  BY <1>1 DEF EchoReply
<1>4. r = ParseIcmpResponse(m, p.fate.from, p.fate.dgram)
    BY DEF ParsedOf
<1>5. /\ IdWords(c, p) /\ c[9] = Marker(p)
      /\ c[3] = IF p.fate.foreign THEN Ident + 1 ELSE IF Some(p.fate.ident) THEN p.fate.ident ELSE Ident
      /\ c[5] = IF p.fate.foreign THEN Ident + 1 ELSE Ident
    BY <1>1, CarriedWords DEF Kept
<1>6. c[4] = s /\ c[6] = s
    BY <1>1, <1>5 DEF IdWords
<1>7. \A j \in 3..9 : Short(c[j])
    BY <1>1, CarriedShort
<1> HIDE DEF m, c, s
<1>8. /\ v \in Seq(Int) /\ Len(v) = 9 /\ m.fam = p.fam /\ m.ext = None
      /\ m.type = (IF p.fam = 6 THEN 129 ELSE 0) /\ (p.fam = 4 => Sealed(v))
      /\ \A j \in 3..9 : v[j] = c[j]
    BY <1>2 DEF IsReplyTo, c
<1> HIDE DEF v
<1>9. v[3] = c[3] /\ v[4] = s /\ v[5] = c[5] /\ v[6] = s /\ v[9] = Marker(p) /\ \A j \in 3..9 : Short(v[j])
    BY <1>5, <1>6, <1>7, <1>8
<1>10. r = ParseEchoReply(m, p.fate.from)
    <2>1. CASE p.fam = 6  BY <1>4, <1>8, <2>1 DEF ParseIcmpResponse, ParseV6Dgram
    <2>2. CASE p.fam = 4  BY <1>4, <1>8, <2>2 DEF ParseIcmpResponse, ParseV4, ParseV4Dgram
    <2> QED  BY <1>1, <2>1, <2>2
<1>11. ~(Len(m.words) < 4 \/ (m.fam = 4 /\ ~ValidateChecksum(m.words)))
    <2>1. p.fam = 4 => ValidateChecksum(v)  BY <1>8, <1>9, SealedIsValid
    <2> QED  BY <1>8, <2>1 DEF v
<1>12. Some(s)
    BY <1>1, SequenceIsThere DEF s
<1>13. EchoSequence(v) = IF p.fate.foreign THEN None ELSE s
    <2>1. Ident + 1 # Ident  BY WireNumbers
    <2> DEFINE k == EchoSequence(v)
    <2>2. /\ v[3] = Ident => k = s
          /\ (Len(v) >= 6 /\ v[5] = Ident) => k = s
          /\ (v[3] # Ident /\ (Len(v) >= 6 => v[5] # Ident)) => k = None
        <3>1. v[4] = s /\ Len(v) \in Nat /\ (Len(v) >= 6 => v[6] = s)  BY <1>8, <1>9
        <3> QED  BY <1>12, <3>1, FoundSequence
    <2> HIDE DEF k
    <2>3. k = IF p.fate.foreign THEN None ELSE s  BY <1>5, <1>8, <1>9, <2>1, <2>2
    <2> QED  BY <2>3 DEF k
<1>14. CASE p.fate.foreign
    <2>1. r = None  BY <1>10, <1>13, <1>14 DEF ParseEchoReply, v
    <2> QED  BY <1>14, <2>1 DEF Some
<1>15. CASE ~p.fate.foreign
    <2> DEFINE marked == Len(m.words) >= 9 /\ Hi(m.words[9]) = PmtudMarker
               id == FromSequence(s)
    <2>1. r = Parsed(m, "EchoReply", id, marked, None, None, None, p.fate.from)
        <3>1. EchoSequence(m.words) = s /\ s # None  BY <1>12, <1>13, <1>15 DEF v, Some
        <3> QED  BY <1>10, <1>11, <3>1, Zenon DEF ParseEchoReply
    <2>2. marked = p.pmtud
        <3>1. Len(m.words) = 9 /\ m.words[9] = Marker(p)  BY <1>8, <1>9 DEF v
        <3>2. (Hi(Marker(p)) = PmtudMarker) = p.pmtud  BY <1>1, MarkerRead
        <3>3. marked = (Hi(Marker(p)) = PmtudMarker)  BY <3>1
        <3> QED  BY <3>2, <3>3
    <2>3. id = p.id  BY <1>1, SequenceHoldsId DEF s
    <2>4. /\ m.code \in Byte /\ m.ext \in Maybe(Extensions) /\ None \in Maybe(Word)
          /\ None \in Maybe(Nat) /\ None \in Maybe(Byte)
        BY <1>3, <1>8 DEF Byte, Maybe
    <2>5. "EchoReply" \in ErrorTypes \cup {"EchoReply"}  OBVIOUS
    <2> HIDE DEF marked, id
    <2>6. marked \in BOOLEAN  BY <1>1, <2>2
    <2>7. Some(r)  BY <1>1, <2>1, <2>3, <2>4, <2>5, <2>6, ParsedIsResponse
    <2>8. r.dest = p.fate.from /\ r.pmtud = marked  BY <2>1, ParsedFields
    <2> QED  BY <1>15, <2>2, <2>7, <2>8
<1> QED  BY <1>14, <1>15

\* What else an error holds than its probe's words.
Encloses(m, p) ==
    /\ m.code = p.fate.code /\ m.mtu = p.fate.mtu /\ m.ext = p.fate.ext
    /\ m.quote.ttl = p.fate.quotedTtl /\ m.quote.chain = p.fate.chain
    /\ Len(m.quote.words) = IF p.fate.bytes \div 2 <= Len(Carried(p).words) THEN p.fate.bytes \div 2
                            ELSE Len(Carried(p).words)

LEMMA ErrorEncloses ==
    ASSUME NEW q \in Profiles, NEW p \in Probes(q), NEW m, m = ErrorOf(p)
    PROVE  Encloses(m, p)
<1> DEFINE w == Carried(p).words
           n == p.fate.bytes
           part == SubSeq(w, 1, Min({n \div 2, Len(w)}))
<1>1. w \in Seq(Int)
    BY CarriedWords DEF Kept
<1>2. n \in Nat
    <2>1. p.fate \in Fates  BY ProbeFields
    <2> QED  BY <2>1 DEF Fates
<1>3. /\ m.code = p.fate.code /\ m.mtu = p.fate.mtu /\ m.ext = p.fate.ext
      /\ m.quote.ttl = p.fate.quotedTtl /\ m.quote.chain = p.fate.chain /\ m.quote.words = part
    BY DEF ErrorOf, IcmpError
<1> HIDE DEF w, n
<1>4. Len(part) = IF n \div 2 <= Len(w) THEN n \div 2 ELSE Len(w)
    BY <1>1, <1>2, Prefix
<1> HIDE DEF part
<1> QED  BY <1>3, <1>4 DEF Encloses, w, n

\* The types of what a fate makes of an error.
LEMMA FateTypes ==
    ASSUME NEW f \in Fates
    PROVE  /\ f.code \in Byte /\ f.mtu \in Nat /\ f.ext \in Maybe(Extensions) /\ f.quotedTtl \in Byte
           /\ f.bytes \in Nat /\ f.type \in Byte
<1>1. f.code \in Byte  BY DEF Fates
<1>2. f.mtu \in Nat  BY DEF Fates
<1>3. f.ext \in Maybe(Extensions)  BY DEF Fates
<1>4. f.quotedTtl \in Byte  BY DEF Fates
<1>5. f.bytes \in Nat  BY DEF Fates
<1>6. f.type \in Byte  BY DEF Fates
<1> QED  BY <1>1, <1>2, <1>3, <1>4, <1>5, <1>6

LEMMA ChainSeen ==
    ASSUME NEW f \in Fates
    PROVE  /\ f.chain \in Seq(Headers)
           /\ SkipExtHeadersQuoted(f.chain) <=> \A i \in 1..Len(f.chain) : f.chain[i] # "fragment"
<1> DEFINE chain == f.chain
<1>1. chain \in Seq(Headers)  BY DEF Fates
<1> HIDE DEF chain
<1>2. \A i \in 1..Len(chain) : chain[i] \in Headers  BY <1>1
<1>3. \A i \in 1..Len(chain) : chain[i] \in {"hopbyhop", "routing", "destopts"} <=> chain[i] # "fragment"
    BY <1>2 DEF Headers
<1>4. SkipExtHeadersQuoted(chain) <=> \A i \in 1..Len(chain) : chain[i] # "fragment"
    BY <1>3 DEF SkipExtHeadersQuoted
<1> QED  BY <1>1, <1>4 DEF chain

\* The parts of an error's recognition that do not depend on the probe's protocol.
TypeSeen(p) ==
    /\ \A i \in 1..Len(p.fate.chain) : p.fate.chain[i] # "fragment"
    /\ p.fate.type \in (IF p.fam = 4 THEN {3, 11} ELSE {1, 2, 3})

LEMMA MtuTypes ==
    ASSUME NEW m, m.mtu \in Nat
    PROVE  MtuV4(m) \in Maybe(Nat) /\ MtuV6(m) \in Maybe(Nat) /\ None \in Maybe(Nat)
BY DEF MtuV4, MtuV6, Maybe

\* Which errors are parsed, by the version of IP.
LEMMA SeenV4 ==
    ASSUME NEW m, NEW from, NEW dgram, m.fam = 4, m.words = <<>>, m.quote.words \in Seq(Int),
           m.mtu \in Nat, NEW r, r = ParseIcmpResponse(m, from, dgram)
    PROVE  /\ (m.type \in {3, 11} /\ Len(m.quote.words) >= 4) =>
                \E type \in ErrorTypes, mtu \in Maybe(Nat) : r = ParseQuoted(m, type, mtu)
           /\ ~(m.type \in {3, 11} /\ Len(m.quote.words) >= 4) => r = None
<1>1. ParseEchoReply(m, from) = None
    BY DEF ParseEchoReply
<1>2. Len(m.quote.words) < 4 <=> ~(Len(m.quote.words) >= 4)
    OBVIOUS
<1> DEFINE Seen(type, mtu) == IF Len(m.quote.words) >= 4 THEN ParseQuoted(m, type, mtu) ELSE None
<1>3. \A type, mtu : ErrorV4(m, type, mtu) = Seen(type, mtu) /\ ErrorV4Dgram(m, type, mtu) = Seen(type, mtu)
    BY <1>2, Zenon DEF ErrorV4, ErrorV4Dgram
<1> HIDE DEF Seen
<1>4. r = CASE m.type = 0  -> None
            [] m.type = 11 -> Seen("TimeExceeded", None)
            [] m.type = 3  -> Seen("DestUnreachable", MtuV4(m))
            [] OTHER       -> None
    <2>1. r = IF dgram THEN ParseV4Dgram(m, from) ELSE ParseV4(m, from)  BY DEF ParseIcmpResponse
    <2>2. CASE dgram  BY <1>1, <1>3, <2>1, <2>2 DEF ParseV4Dgram
    <2>3. CASE ~dgram  BY <1>1, <1>3, <2>1, <2>3 DEF ParseV4
    <2> QED  BY <2>2, <2>3
<1>5. "TimeExceeded" \in ErrorTypes /\ "DestUnreachable" \in ErrorTypes
    BY DEF ErrorTypes
<1>6. MtuV4(m) \in Maybe(Nat) /\ None \in Maybe(Nat)
    BY MtuTypes
<1>7. CASE m.type = 11
    <2>1. r = Seen("TimeExceeded", None)  BY <1>4, <1>7
    <2> QED  BY <1>5, <1>6, <1>7, <2>1 DEF Seen
<1>8. CASE m.type = 3
    <2>1. r = Seen("DestUnreachable", MtuV4(m))  BY <1>4, <1>8
    <2> QED  BY <1>5, <1>6, <1>8, <2>1 DEF Seen
<1>9. CASE m.type \notin {3, 11}
    <2>1. r = None  BY <1>4, <1>9
    <2> QED  BY <1>9, <2>1
<1> QED  BY <1>7, <1>8, <1>9

LEMMA SeenV6 ==
    ASSUME NEW m, NEW from, NEW dgram, m.fam = 6, m.words = <<>>, m.quote.words \in Seq(Int),
           m.quote.chain \in Seq(Headers), m.mtu \in Nat, NEW r, r = ParseIcmpResponse(m, from, dgram),
           NEW skipped, skipped = SkipExtHeadersQuoted(m.quote.chain)
    PROVE  /\ (m.type \in {1, 2, 3} /\ skipped /\ Len(m.quote.words) >= 4) =>
                \E type \in ErrorTypes, mtu \in Maybe(Nat) : r = ParseQuoted(m, type, mtu)
           /\ ~(m.type \in {1, 2, 3} /\ skipped /\ Len(m.quote.words) >= 4) => r = None
<1>1. ParseEchoReply(m, from) = None
    BY DEF ParseEchoReply
<1> DEFINE enough == skipped /\ Len(m.quote.words) >= 4
           Seen(type, mtu) == IF enough THEN ParseQuoted(m, type, mtu) ELSE None
<1>2. \A type, mtu : ErrorV6(m, type, mtu) = Seen(type, mtu)
    <2> DEFINE n == Len(m.quote.words)
               c == Len(m.quote.chain)
    <2>1. n \in Nat /\ c \in Nat  OBVIOUS
    <2> HIDE DEF n, c
    <2>2. /\ n < 4 <=> ~(n >= 4)
          /\ n >= 4 => ~(8 * c + 2 * n < 8)
        BY <2>1
    <2>3. ASSUME NEW type, NEW mtu PROVE ErrorV6(m, type, mtu) = Seen(type, mtu)
        <3>1. ErrorV6(m, type, mtu) = IF 8 * c + 2 * n < 8 THEN None
                                      ELSE IF ~skipped \/ n < 4 THEN None
                                      ELSE ParseQuoted(m, type, mtu)
            BY Zenon DEF ErrorV6, n, c
        <3>2. enough <=> skipped /\ n >= 4  BY DEF n
        <3> HIDE DEF enough
        <3> QED  BY <2>2, <3>1, <3>2
    <2> QED  BY <2>3
<1> HIDE DEF Seen, enough
<1>4. r = CASE m.type = 129 -> None
            [] m.type = 2   -> Seen("PacketTooBig", MtuV6(m))
            [] m.type = 3   -> Seen("TimeExceeded", None)
            [] m.type = 1   -> Seen("DestUnreachable", None)
            [] OTHER        -> None
    BY <1>1, <1>2 DEF ParseIcmpResponse, ParseV6Dgram
<1>5. "TimeExceeded" \in ErrorTypes /\ "DestUnreachable" \in ErrorTypes /\ "PacketTooBig" \in ErrorTypes
    BY DEF ErrorTypes
<1>6. MtuV6(m) \in Maybe(Nat) /\ None \in Maybe(Nat)
    BY MtuTypes
<1>7. CASE m.type = 2
    <2>1. r = Seen("PacketTooBig", MtuV6(m))  BY <1>4, <1>7
    <2> QED  BY <1>5, <1>6, <1>7, <2>1 DEF Seen, enough
<1>8. CASE m.type = 3
    <2>1. r = Seen("TimeExceeded", None)  BY <1>4, <1>8
    <2> QED  BY <1>5, <1>6, <1>8, <2>1 DEF Seen, enough
<1>9. CASE m.type = 1
    <2>1. r = Seen("DestUnreachable", None)  BY <1>4, <1>9
    <2> QED  BY <1>5, <1>6, <1>9, <2>1 DEF Seen, enough
<1>10. CASE m.type \notin {1, 2, 3}
    <2>1. r = None  BY <1>4, <1>10
    <2> QED  BY <1>10, <2>1
<1> QED  BY <1>7, <1>8, <1>9, <1>10

\* An error is looked into when its type is one of an error, no fragment hides
\* the probe, and eight bytes of the probe are there.
LEMMA ErrorSeen ==
    ASSUME NEW q \in Profiles, NEW p \in Probes(q), ~p.fate.echo, NEW m, m = ErrorOf(p),
           NEW r, r = ParsedOf(p)
    PROVE  /\ (TypeSeen(p) /\ Len(m.quote.words) >= 4) =>
                \E type \in ErrorTypes, mtu \in Maybe(Nat) : r = ParseQuoted(m, type, mtu)
           /\ ~(TypeSeen(p) /\ Len(m.quote.words) >= 4) => r = None
<1>1. Quotes(m, p) /\ Encloses(m, p)
    BY ErrorWords, ErrorEncloses
<1>2. r = ParseIcmpResponse(m, p.fate.from, p.fate.dgram)
    <2>1. Message(p) = m  BY MessageIs
    <2> QED  BY <2>1, Zenon DEF ParsedOf
<1>3. p.fate \in Fates /\ p.fam \in {4, 6} /\ (p.fam = 4 => p.fate.chain = <<>>)
    BY ProbeFields
<1>4. /\ m.fam = p.fam /\ m.words = <<>> /\ m.type = p.fate.type /\ m.quote.words \in Seq(Int)
      /\ m.mtu \in Nat /\ m.quote.chain = p.fate.chain
    BY <1>1, <1>3, FateTypes DEF Quotes, Encloses
<1> DEFINE clear == \A i \in 1..Len(p.fate.chain) : p.fate.chain[i] # "fragment"
<1>5. m.quote.chain \in Seq(Headers) /\ (SkipExtHeadersQuoted(m.quote.chain) <=> clear)
    BY <1>3, <1>4, ChainSeen
<1>6. p.fam = 4 => clear
    BY <1>3
<1>7. TypeSeen(p) <=> clear /\ m.type \in (IF p.fam = 4 THEN {3, 11} ELSE {1, 2, 3})
    BY <1>4 DEF TypeSeen
<1> HIDE DEF clear
<1>8. CASE p.fam = 4
    <2>1. TypeSeen(p) <=> m.type \in {3, 11}  BY <1>6, <1>7, <1>8
    <2>2. m.fam = 4  BY <1>4, <1>8
    <2> DEFINE ok == m.type \in {3, 11} /\ Len(m.quote.words) >= 4
    <2>3. /\ ok => \E type \in ErrorTypes, mtu \in Maybe(Nat) : r = ParseQuoted(m, type, mtu)
          /\ ~ok => r = None
        BY <1>2, <1>4, <2>2, SeenV4
    <2> QED  BY <2>1, <2>3
<1>9. CASE p.fam = 6
    <2> DEFINE skipped == SkipExtHeadersQuoted(m.quote.chain)
    <2>1. TypeSeen(p) <=> m.type \in {1, 2, 3} /\ skipped  BY <1>5, <1>7, <1>9
    <2>2. m.fam = 6  BY <1>4, <1>9
    <2> DEFINE ok == m.type \in {1, 2, 3} /\ skipped /\ Len(m.quote.words) >= 4
    <2> HIDE DEF skipped
    <2>3. /\ ok => \E type \in ErrorTypes, mtu \in Maybe(Nat) : r = ParseQuoted(m, type, mtu)
          /\ ~ok => r = None
        BY <1>2, <1>4, <1>5, <2>2, SeenV6 DEF skipped
    <2> QED  BY <2>1, <2>3
<1> QED  BY <1>3, <1>8, <1>9

\* The sequence number that a quote of the probe's first words holds, if any.
QuotedSequence(m) ==
    LET w == m.quote.words
    IN  CASE m.quote.proto = "icmp" -> IF Hi(w[1]) # EchoRequestType(m.fam) THEN None
                                       ELSE EchoSequence(w)
          [] m.quote.proto = "tcp"  -> TcpSequence(w)
          [] m.quote.proto = "udp"  -> UdpSequence(w)
          [] OTHER                  -> None

QuotedPort(m) == IF m.quote.proto = "icmp" THEN None ELSE m.quote.words[1]

LEMMA QuoteIs ==
    ASSUME NEW m, NEW type, NEW mtu, NEW r, r = ParseQuoted(m, type, mtu)
    PROVE  r = IF QuotedSequence(m) = None THEN None
               ELSE Parsed(m, type, FromSequence(QuotedSequence(m)), FALSE, QuotedPort(m), mtu,
                           m.quote.ttl, m.quote.dest)
BY Zenon DEF ParseQuoted, QuotedSequence, QuotedPort

\* How many of a probe's words its protocol's parser needs.
Needed(p) ==
    CASE p.proto = "icmp" -> IF p.fate.ident \in {None, Ident} THEN 4 ELSE 6
      [] p.proto = "tcp"  -> 4
      [] p.proto = "udp"  -> 7

\* Words that begin like those of the probe as it was when it was quoted.
Begins(w, p) ==
    /\ Len(w) \in Nat /\ Len(w) >= 4
    /\ \A j \in 1..Len(w) : w[j] = Carried(p).words[j]

LEMMA EchoQuote ==
    ASSUME NEW q \in Profiles, NEW p \in Probes(q), p.proto = "icmp", NEW w, Begins(w, p)
    PROVE  /\ Hi(w[1]) = EchoRequestType(p.fam)
           /\ EchoSequence(w) = IF ~p.fate.foreign /\ Len(w) >= Needed(p) THEN ToSequence(p.id) ELSE None
<1> DEFINE c == Carried(p).words
           s == ToSequence(p.id)
           k == EchoSequence(w)
<1>1. /\ IdWords(c, p) /\ (Some(p.fate.port) \/ c[1] = EchoRequestType(p.fam) * 256)
      /\ c[3] = IF p.fate.foreign THEN Ident + 1 ELSE IF Some(p.fate.ident) THEN p.fate.ident ELSE Ident
      /\ c[5] = IF p.fate.foreign THEN Ident + 1 ELSE Ident
    BY CarriedWords DEF Kept
<1>2. ~Some(p.fate.port) /\ p.id \in [ttl : 1..MaxTtl, seq : Byte]
    BY ProbeFields
<1>3. c[1] = EchoRequestType(p.fam) * 256
    BY <1>1, <1>2
<1>4. c[4] = s /\ c[6] = s
    BY <1>1 DEF IdWords
<1> HIDE DEF c
<1>5. Len(w) \in Nat /\ Len(w) >= 4 /\ \A j \in 1..Len(w) : w[j] = c[j]
    BY DEF Begins, c
<1>6. w[1] = c[1] /\ w[3] = c[3] /\ w[4] = s /\ (Len(w) >= 6 => w[5] = c[5] /\ w[6] = s)
    BY <1>4, <1>5
<1>7. Hi(w[1]) = EchoRequestType(p.fam)
    <2>1. EchoRequestType(p.fam) \in Nat  BY DEF EchoRequestType
    <2>2. \A x \in Nat : (x * 256) \div 256 = x  OBVIOUS
    <2> QED  BY <1>3, <1>6, <2>1, <2>2 DEF Hi
<1>8. Some(s)
    BY <1>2, SequenceIsThere
<1> HIDE DEF s
<1>9. /\ w[3] = Ident => k = s
      /\ (Len(w) >= 6 /\ w[5] = Ident) => k = s
      /\ (w[3] # Ident /\ (Len(w) >= 6 => w[5] # Ident)) => k = None
    <2>1. w[4] = s /\ Len(w) \in Nat /\ (Len(w) >= 6 => w[6] = s)  BY <1>5, <1>6
    <2> QED  BY <1>8, <2>1, FoundSequence
<1> HIDE DEF k
<1>10. k = IF ~p.fate.foreign /\ Len(w) >= Needed(p) THEN s ELSE None
    <2>1. Ident + 1 # Ident  BY WireNumbers
    <2>2. Needed(p) = IF p.fate.ident \in {None, Ident} THEN 4 ELSE 6  BY DEF Needed
    <2>3. CASE p.fate.foreign
        <3>1. w[3] # Ident /\ (Len(w) >= 6 => w[5] # Ident)  BY <1>1, <1>6, <2>1, <2>3
        <3> QED  BY <1>9, <2>3, <3>1
    <2>4. CASE ~p.fate.foreign /\ p.fate.ident \in {None, Ident}
        <3>1. w[3] = Ident  BY <1>1, <1>6, <2>4 DEF Some
        <3>2. Len(w) >= Needed(p)  BY <1>5, <2>2, <2>4
        <3> QED  BY <1>9, <2>4, <3>1, <3>2
    <2>5. CASE ~p.fate.foreign /\ p.fate.ident \notin {None, Ident}
        <3>1. w[3] # Ident  BY <1>1, <1>6, <2>5 DEF Some
        <3>2. Len(w) >= 6 => w[5] = Ident  BY <1>1, <1>6, <2>5
        <3>3. Needed(p) = 6  BY <2>2, <2>5
        <3> QED  BY <1>9, <2>5, <3>1, <3>2, <3>3
    <2> QED  BY <2>3, <2>4, <2>5
<1> QED  BY <1>7, <1>10 DEF k, s

LEMMA SequenceQuoted ==
    ASSUME NEW q \in Profiles, NEW p \in Probes(q), NEW m, Quotes(m, p), Len(m.quote.words) >= 4
    PROVE  QuotedSequence(m) = IF ~p.fate.foreign /\ Len(m.quote.words) >= Needed(p)
                               THEN ToSequence(p.id) ELSE None
<1> DEFINE w == m.quote.words
           c == Carried(p).words
           s == ToSequence(p.id)
           seq == QuotedSequence(m)
<1>1. m.quote.proto = p.proto /\ m.fam = p.fam /\ w \in Seq(Int) /\ \A j \in 1..Len(w) : w[j] = c[j]
    BY DEF Quotes
<1>2. /\ p.proto \in {"icmp", "tcp", "udp"} /\ (p.fate.foreign => p.proto = "icmp")
    BY ProbeFields
<1>3. /\ IdWords(c, p) /\ (p.proto = "udp" => c[6] = UdpMagic[1] /\ c[7] = UdpMagic[2])
    BY CarriedWords DEF Kept
<1>4. seq = CASE p.proto = "icmp" -> IF Hi(w[1]) # EchoRequestType(p.fam) THEN None ELSE EchoSequence(w)
              [] p.proto = "tcp"  -> TcpSequence(w)
              [] p.proto = "udp"  -> UdpSequence(w)
              [] OTHER            -> None
    BY <1>1 DEF QuotedSequence
<1> HIDE DEF seq, c
<1>5. Len(w) \in Nat /\ Len(w) >= 4 /\ Begins(w, p)
    BY <1>1 DEF Begins, c
<1> HIDE DEF w, s
<1>6. CASE p.proto = "icmp"
    <2>1. seq = IF Hi(w[1]) # EchoRequestType(p.fam) THEN None ELSE EchoSequence(w)  BY <1>4, <1>6
    <2>2. /\ Hi(w[1]) = EchoRequestType(p.fam)
          /\ EchoSequence(w) = IF ~p.fate.foreign /\ Len(w) >= Needed(p) THEN s ELSE None
        BY <1>5, <1>6, EchoQuote DEF s
    <2> QED  BY <2>1, <2>2 DEF w, s, seq
<1>7. CASE p.proto = "tcp"
    <2>1. seq = w[3]  BY <1>4, <1>7 DEF TcpSequence
    <2>2. c[3] = s  BY <1>3, <1>7 DEF IdWords, s
    <2>3. w[3] = c[3]  BY <1>1, <1>5
    <2>4. ~p.fate.foreign /\ Needed(p) = 4  BY <1>2, <1>7 DEF Needed
    <2> QED  BY <1>5, <2>1, <2>2, <2>3, <2>4 DEF w, s, seq
<1>8. CASE p.proto = "udp"
    <2>1. seq = UdpSequence(w)  BY <1>4, <1>8
    <2>2. c[5] = s /\ c[6] = UdpMagic[1] /\ c[7] = UdpMagic[2]  BY <1>3, <1>8 DEF IdWords, s
    <2>3. ~p.fate.foreign /\ Needed(p) = 7  BY <1>2, <1>8 DEF Needed
    <2>4. CASE Len(w) >= 7
        <3>1. w[5] = c[5] /\ w[6] = c[6] /\ w[7] = c[7]  BY <1>1, <1>5, <2>4
        <3>2. ~(Len(w) < 7)  BY <1>5, <2>4
        <3>3. seq = w[5]  BY <2>1, <2>2, <3>1, <3>2 DEF UdpSequence
        <3> QED  BY <2>2, <2>3, <2>4, <3>1, <3>3 DEF w, s, seq
    <2>5. CASE ~(Len(w) >= 7)
        <3>1. Len(w) < 7  BY <1>5, <2>5
        <3>2. seq = None  BY <2>1, <3>1 DEF UdpSequence
        <3> QED  BY <2>3, <2>5, <3>2 DEF w, s, seq
    <2> QED  BY <2>4, <2>5
<1> QED  BY <1>2, <1>6, <1>7, <1>8

\* The port that is quoted: the one the probe had when it was quoted.
LEMMA PortQuoted ==
    ASSUME NEW q \in Profiles, NEW p \in Probes(q), NEW m, Quotes(m, p), Len(m.quote.words) >= 4
    PROVE  /\ QuotedPort(m) \in Maybe(Word)
           /\ QuotedPort(m) = IF p.proto = "icmp" THEN None
                              ELSE IF Some(p.fate.port) THEN p.fate.port ELSE FlowPort(p.flow)
<1> DEFINE w == m.quote.words
           c == Carried(p).words
<1>1. m.quote.proto = p.proto /\ w \in Seq(Int) /\ \A j \in 1..Len(w) : w[j] = c[j]
    BY DEF Quotes
<1>2. p.proto # "icmp" => c[1] = IF Some(p.fate.port) THEN p.fate.port ELSE FlowPort(p.flow)
    BY CarriedWords DEF Kept
<1>3. p.fate.port \in Maybe(Word) /\ p.flow \in FlowIds
    BY ProbeFields
<1>4. FlowPort(p.flow) \in Word
    <2>1. p.flow \in Nat /\ SrcPortBase \in Nat  BY <1>3, HopStatsAssumption, WireNumbers
    <2>2. \A x \in Nat : x % 65536 \in Nat /\ x % 65536 <= 65535  BY SMT
    <2>3. SrcPortBase + p.flow \in Nat  BY <2>1
    <2> DEFINE x == SrcPortBase + p.flow
    <2> HIDE DEF x
    <2>4. x % 65536 \in Nat /\ x % 65536 <= 65535  BY <2>2, <2>3, SMT DEF x
    <2>5. x % W16 \in Nat /\ x % W16 <= W16 - 1  BY <2>4, SMT DEF W16
    <2>6. FlowPort(p.flow) = x % W16  BY SMT DEF FlowPort, x
    <2>7. W16 - 1 \in Nat  BY SMT DEF W16
    <2> DEFINE y == x % W16
               n == W16 - 1
    <2> HIDE DEF y, n
    <2>8. y \in Nat /\ n \in Nat /\ y <= n  BY <2>5, <2>7, SMT DEF y, n
    <2>9. y \in 0..n  BY <2>8, SMT
    <2> QED  BY <2>6, <2>9, SMT DEF Word, y, n
<1> HIDE DEF c
<1>5. 1 \in 1..Len(w)
    BY <1>1
<1>6. w[1] = c[1]
    BY <1>1, <1>5
<1>7. QuotedPort(m) = IF p.proto = "icmp" THEN None ELSE w[1]
    BY <1>1 DEF QuotedPort
<1> HIDE DEF w
<1>8. QuotedPort(m) = IF p.proto = "icmp" THEN None
                      ELSE IF Some(p.fate.port) THEN p.fate.port ELSE FlowPort(p.flow)
    BY <1>2, <1>6, <1>7
<1>9. QuotedPort(m) \in Maybe(Word)
    BY <1>3, <1>4, <1>8 DEF Maybe
<1> QED  BY <1>8, <1>9

\* What Recognisable asks of an error.
LEMMA RecognisableError ==
    ASSUME NEW q \in Profiles, NEW p \in Probes(q), ~p.fate.echo,
           NEW kept, kept = p.fate.bytes \div 2
    PROVE  Recognisable(p) <=> TypeSeen(p) /\ ~p.fate.foreign /\ kept >= Needed(p)
<1>1. /\ p.proto \in {"icmp", "tcp", "udp"} /\ (p.fate.foreign => p.proto = "icmp")
    BY ProbeFields
<1> DEFINE clear == \A i \in 1..Len(p.fate.chain) : p.fate.chain[i] # "fragment"
           typed == p.fate.type \in (IF p.fam = 4 THEN {3, 11} ELSE {1, 2, 3})
           enough == CASE p.proto = "icmp" -> ~p.fate.foreign /\ kept >= (IF p.fate.ident \in {None, Ident} THEN 4 ELSE 6)
                       [] p.proto = "tcp"  -> kept >= 4
                       [] p.proto = "udp"  -> kept >= 7
<1>2. Recognisable(p) <=> clear /\ enough /\ typed
    BY Zenon DEF Recognisable
<1>3. TypeSeen(p) <=> clear /\ typed
    BY Zenon DEF TypeSeen
<1> HIDE DEF clear, typed
<1>4. enough <=> ~p.fate.foreign /\ kept >= Needed(p)
    <2>1. CASE p.proto = "icmp"  BY <2>1 DEF Needed
    <2>2. CASE p.proto = "tcp"  BY <1>1, <2>2 DEF Needed
    <2>3. CASE p.proto = "udp"  BY <1>1, <2>3 DEF Needed
    <2> QED  BY <1>1, <2>1, <2>2, <2>3
<1> HIDE DEF enough
<1> QED  BY <1>2, <1>3, <1>4

\* All that a parser needs is among the words of a probe.
LEMMA EnoughQuoted ==
    ASSUME NEW q \in Profiles, NEW p \in Probes(q), NEW m, Encloses(m, p),
           NEW kept, kept = p.fate.bytes \div 2
    PROVE  /\ Needed(p) >= 4 /\ Len(m.quote.words) \in Nat
           /\ Len(m.quote.words) >= 4 <=> kept >= 4
           /\ Len(m.quote.words) >= Needed(p) <=> kept >= Needed(p)
           /\ kept \in Nat /\ Needed(p) \in Nat
<1> DEFINE c == Carried(p).words
           n == Len(m.quote.words)
<1>1. p.proto \in {"icmp", "tcp", "udp"} /\ p.fate \in Fates
    BY ProbeFields
<1>2. kept \in Nat
    BY <1>1, FateTypes
<1>3. IdWords(c, p)
    BY CarriedWords DEF Kept
<1>4. n = IF kept <= Len(c) THEN kept ELSE Len(c)
    BY DEF Encloses
<1> HIDE DEF c, n
<1>5. Len(c) \in {7, 9, 10} /\ Needed(p) \in {4, 6, 7}
    <2>1. Needed(p) \in {4, 6, 7}  BY <1>1 DEF Needed
    <2>2. Len(c) \in {7, 9, 10}  BY <1>1, <1>3 DEF IdWords
    <2> QED  BY <2>1, <2>2
<1> DEFINE len == Len(c)
           k == Needed(p)
<1>6. len \in Nat /\ k \in Nat /\ k >= 4 /\ k <= len /\ len >= 4
    <2>1. len \in {7, 9, 10} /\ k \in {4, 6, 7}  BY <1>5
    <2>2. \A x \in {7, 9, 10}, y \in {4, 6, 7} : x \in Nat /\ y \in Nat /\ y >= 4 /\ y <= x /\ x >= 4
        OBVIOUS
    <2> HIDE DEF len, k
    <2> QED  BY <2>1, <2>2
<1>7. n = IF kept <= len THEN kept ELSE len
    BY <1>4
<1> HIDE DEF len, k
<1>8. n \in Nat /\ (n >= 4 <=> kept >= 4) /\ (n >= k <=> kept >= k)
    BY <1>2, <1>6, <1>7
<1> QED  BY <1>2, <1>6, <1>8 DEF n, k

\* An error is recognised when what it quotes is enough, and tells the target and
\* the port.
LEMMA ErrorAnswer ==
    ASSUME NEW q \in Profiles, NEW p \in Probes(q), ~p.fate.echo, NEW r, r = ParsedOf(p)
    PROVE  /\ Some(r) <=> Recognisable(p)
           /\ Some(r) => /\ r.dest = p.dest /\ r.pmtud = FALSE
                         /\ r.port = IF p.proto = "icmp" THEN None
                                     ELSE IF Some(p.fate.port) THEN p.fate.port ELSE FlowPort(p.flow)
<1> DEFINE m == ErrorOf(p)
           kept == p.fate.bytes \div 2
           n == Len(m.quote.words)
           right == IF p.proto = "icmp" THEN None
                    ELSE IF Some(p.fate.port) THEN p.fate.port ELSE FlowPort(p.flow)
<1>1. Quotes(m, p) /\ Encloses(m, p)
    <2> HIDE DEF m
    <2>1. m = ErrorOf(p)  BY DEF m
    <2> QED  BY <2>1, ErrorWords, ErrorEncloses
<1>2. /\ (TypeSeen(p) /\ n >= 4) => \E type \in ErrorTypes, mtu \in Maybe(Nat) : r = ParseQuoted(m, type, mtu)
      /\ ~(TypeSeen(p) /\ n >= 4) => r = None
    <2> HIDE DEF m
    <2>1. m = ErrorOf(p)  BY DEF m
    <2> QED  BY <2>1, ErrorSeen
<1> HIDE DEF m
<1>3. Recognisable(p) <=> TypeSeen(p) /\ ~p.fate.foreign /\ kept >= Needed(p)
    BY RecognisableError
<1>4. /\ Needed(p) >= 4 /\ Needed(p) \in Nat /\ kept \in Nat
      /\ n >= 4 <=> kept >= 4
      /\ n >= Needed(p) <=> kept >= Needed(p)
    BY <1>1, EnoughQuoted
<1> HIDE DEF kept, n
<1>5. Recognisable(p) <=> TypeSeen(p) /\ n >= 4 /\ ~p.fate.foreign /\ n >= Needed(p)
    <2>1. kept >= Needed(p) => kept >= 4  BY <1>4
    <2> QED  BY <1>3, <1>4, <2>1
<1>6. CASE ~(TypeSeen(p) /\ n >= 4)
    BY <1>2, <1>5, <1>6 DEF Some
<1>7. CASE TypeSeen(p) /\ n >= 4
    <2>1. PICK type \in ErrorTypes, mtu \in Maybe(Nat) : r = ParseQuoted(m, type, mtu)
        BY <1>2, <1>7
    <2>2. Len(m.quote.words) >= 4  BY <1>7 DEF n
    <2> DEFINE seq == QuotedSequence(m)
               port == QuotedPort(m)
               id == FromSequence(ToSequence(p.id))
    <2>3. seq = IF ~p.fate.foreign /\ n >= Needed(p) THEN ToSequence(p.id) ELSE None
        BY <1>1, <2>2, SequenceQuoted DEF n
    <2>4. port \in Maybe(Word) /\ port = right
        BY <1>1, <2>2, PortQuoted
    <2>5. r = IF seq = None THEN None
              ELSE Parsed(m, type, FromSequence(seq), FALSE, port, mtu, m.quote.ttl, m.quote.dest)
        BY <2>1, QuoteIs
    <2> HIDE DEF seq, port, right
    <2>6. CASE ~(~p.fate.foreign /\ n >= Needed(p))
        <3>1. r = None  BY <2>3, <2>5, <2>6
        <3> QED  BY <1>5, <2>6, <3>1 DEF Some
    <2>7. CASE ~p.fate.foreign /\ n >= Needed(p)
        <3>1. p.id \in [ttl : 1..MaxTtl, seq : Byte] /\ p.fate \in Fates /\ p.dest = q.target
            BY ProbeFields
        <3>2. Some(ToSequence(p.id))  BY <3>1, SequenceIsThere
        <3>3. r = Parsed(m, type, id, FALSE, port, mtu, m.quote.ttl, m.quote.dest)
            BY <2>3, <2>5, <2>7, <3>2 DEF Some
        <3>4. id = p.id  BY <3>1, SequenceHoldsId
        <3> HIDE DEF id
        <3>5. m.code \in Byte /\ m.ext \in Maybe(Extensions) /\ m.quote.ttl \in Byte
            BY <1>1, <3>1, FateTypes DEF Encloses
        <3>6. m.quote.dest = p.dest /\ p.dest \in Addrs  BY <1>1, <3>1, ProfilesAssumption DEF Quotes
        <3>7. m.quote.ttl \in Maybe(Byte)  BY <3>5 DEF Maybe
        <3>8. type \in ErrorTypes \cup {"EchoReply"} /\ FALSE \in BOOLEAN  OBVIOUS
        <3>9. Some(r)
            <4> DEFINE ttl == m.quote.ttl
                       dest == m.quote.dest
            <4>1. ttl \in Maybe(Byte) /\ dest \in Addrs /\ id \in [ttl : 1..MaxTtl, seq : Byte]
                BY <3>1, <3>4, <3>6, <3>7
            <4>2. r = Parsed(m, type, id, FALSE, port, mtu, ttl, dest)  BY <3>3
            <4> HIDE DEF ttl, dest
            <4> QED  BY <2>4, <3>5, <3>8, <4>1, <4>2, ParsedIsResponse
        <3>10. r.dest = m.quote.dest /\ r.pmtud = FALSE /\ r.port = port  BY <3>3 DEF Parsed
        <3> QED  BY <1>5, <1>7, <2>4, <2>7, <3>6, <3>9, <3>10 DEF right
    <2> QED  BY <2>6, <2>7
<1> QED  BY <1>6, <1>7

\* A NAT gives no probe the source port of another flow.
NatKeepsFlows(p, flows) == \A f \in 0..(flows - 1) : p.fate.port = FlowPort(f) => f = p.flow

NatsKeepFlows ==
    \A q \in Profiles : \A i \in 1..Len(q.script) : \A p \in q.script[i] : NatKeepsFlows(p, q.flows)

\* The flow a quoted port tells is the probe's, or none.
LEMMA HintOfAnswer ==
    ASSUME PortsBelowEnd, NEW q \in Profiles, NEW p \in Probes(q), NatKeepsFlows(p, q.flows),
           NEW port \in {None, p.fate.port, FlowPort(p.flow)}, NEW h, h = DeriveFlowHint(port, q.flows)
    PROVE  h \in {None, p.flow}
<1>1. /\ q.flows \in Nat /\ SrcPortBase + q.flows < W16 /\ SrcPortBase \in Nat /\ None \notin Int
    BY ProfilesAssumption, WireNumbers DEF PortsBelowEnd
<1>2. p.flow \in Nat /\ p.flow < q.flows /\ p.fate.port \in Maybe(Word)
    BY ProbeFields, HopStatsAssumption
<1>3. CASE ~Some(port)
    <2>1. h = IF q.flows = 1 THEN 0 ELSE None  BY <1>3 DEF DeriveFlowHint
    <2>2. q.flows = 1 => p.flow = 0  BY <1>1, <1>2
    <2> QED  BY <2>1, <2>2
<1>4. CASE port = FlowPort(p.flow)
    <2>1. DeriveFlowHint(FlowPort(p.flow), q.flows) = p.flow  BY <1>1, <1>2, PortHint
    <2> QED  BY <1>4, <2>1
<1>5. CASE Some(port) /\ port = p.fate.port
    <2>1. port \in Int  BY <1>2, <1>5, PresentWord
    <2> DEFINE end == (SrcPortBase + q.flows) % W16
               f == port - SrcPortBase
    <2>2. h = IF port >= SrcPortBase /\ port < end THEN f ELSE None
        BY <1>5 DEF DeriveFlowHint
    <2>3. end = SrcPortBase + q.flows
        <3>1. 0 < q.flows  BY <1>1, <1>2
        <3>2. PortsApart(SrcPortBase, 0, q.flows)  BY <1>1, <3>1, PortInRange
        <3> QED  BY <3>2 DEF PortsApart
    <2> HIDE DEF end
    <2>4. ASSUME port >= SrcPortBase, port < end PROVE f = p.flow
        <3>1. f \in Nat /\ f < q.flows /\ f \in 0..(q.flows - 1) /\ port = SrcPortBase + f
            BY <1>1, <2>1, <2>3, <2>4
        <3> HIDE DEF f
        <3>2. PortsApart(SrcPortBase, f, q.flows)  BY <1>1, <3>1, PortInRange
        <3>3. FlowPort(f) = SrcPortBase + f  BY <3>2 DEF PortsApart, FlowPort
        <3>4. p.fate.port = FlowPort(f)  BY <1>5, <3>1, <3>3
        <3> QED  BY <3>1, <3>4 DEF NatKeepsFlows
    <2> HIDE DEF f
    <2>5. CASE port >= SrcPortBase /\ port < end
        <3>1. h = f /\ f = p.flow  BY <2>2, <2>4, <2>5
        <3> QED  BY <3>1
    <2>6. CASE ~(port >= SrcPortBase /\ port < end)
        <3>1. h = None  BY <2>2, <2>6
        <3> QED  BY <3>1
    <2> QED  BY <2>5, <2>6
<1> QED  BY <1>3, <1>4, <1>5 DEF Some

NatInv == probe # None => NatKeepsFlows(probe, profile.flows)

LEMMA NatNext ==
    ASSUME NatsKeepFlows, SessionInv, NatInv, [Next]_vars
    PROVE  NatInv'
<1>1. CASE Send
    <2>1. PICK p \in profile.script[step] : probe' = p  BY <1>1 DEF Send
    <2>2. profile \in Profiles /\ step \in 1..Len(profile.script) /\ profile' = profile
        BY <1>1, ProfilesAssumption DEF Send, SessionInv
    <2>3. NatKeepsFlows(p, profile.flows)  BY <2>2 DEF NatsKeepFlows
    <2> QED  BY <2>1, <2>2, <2>3 DEF NatInv
<1>2. CASE Receive
    <2>1. probe' = None \/ probe' = [probe EXCEPT !.fate.kind = "lost"]  BY <1>2 DEF Receive
    <2>2. profile' = profile /\ profile \in Profiles /\ probe \in Probes(profile)
        BY <1>2 DEF Receive, SessionInv
    <2>3. ASSUME probe' # None PROVE NatKeepsFlows(probe', profile.flows)
        <3> DEFINE p2 == [probe EXCEPT !.fate.kind = "lost"]
        <3>1. probe' = p2  BY <2>1, <2>3
        <3>2. p2.flow = probe.flow /\ p2.fate.port = probe.fate.port  BY <2>2, LostProbe
        <3>3. NatKeepsFlows(probe, profile.flows)  BY <2>2, ProfilesAssumption DEF NatInv
        <3> HIDE DEF p2
        <3> QED  BY <3>1, <3>2, <3>3 DEF NatKeepsFlows
    <2> QED  BY <2>2, <2>3 DEF NatInv
<1>3. CASE Expire
    BY <1>3 DEF Expire, NatInv
<1>4. CASE Flush
    BY <1>4 DEF Flush, NatInv
<1>5. CASE ReceiveLate
    BY <1>5 DEF ReceiveLate, NatInv
<1>6. CASE AnalyzeTick
    BY <1>6 DEF AnalyzeTick, NatInv
<1>7. CASE Reset
    BY <1>7 DEF Reset, NatInv
<1>9. CASE PollEcho
    <2>1. probe' = None \/ probe' = [probe EXCEPT !.fate.kind = "lost"]  BY <1>9 DEF PollEcho
    <2>2. profile' = profile /\ profile \in Profiles /\ probe \in Probes(profile)
        BY <1>9 DEF PollEcho, SessionInv
    <2>3. ASSUME probe' # None PROVE NatKeepsFlows(probe', profile.flows)
        <3> DEFINE p2 == [probe EXCEPT !.fate.kind = "lost"]
        <3>1. probe' = p2  BY <2>1, <2>3
        <3>2. p2.flow = probe.flow /\ p2.fate.port = probe.fate.port  BY <2>2, LostProbe
        <3>3. NatKeepsFlows(probe, profile.flows)  BY <2>2, ProfilesAssumption DEF NatInv
        <3> HIDE DEF p2
        <3> QED  BY <3>1, <3>2, <3>3 DEF NatKeepsFlows
    <2> QED  BY <2>2, <2>3 DEF NatInv
<1>8. CASE UNCHANGED vars
    BY <1>8 DEF vars, NatInv
<1> QED  BY <1>1, <1>2, <1>3, <1>4, <1>5, <1>6, <1>7, <1>8, <1>9 DEF Next

\* What OwnProbeFound says of an answer.
Answered(p, r) ==
    /\ Some(r) <=> Recognisable(p)
    /\ Some(r) => /\ Finds(p, r)
                  /\ r.dest = IF p.fate.echo THEN p.fate.from ELSE profile.target
                  /\ r.pmtud = (p.pmtud /\ p.fate.echo)

LEMMA AnswerFinds ==
    ASSUME PortsBelowEnd, profile \in Profiles, NEW p \in Probes(profile),
           NatKeepsFlows(p, profile.flows), NEW r, r = ParsedOf(p)
    PROVE  Answered(p, r)
<1>1. p.dest = profile.target /\ p.pmtud \in BOOLEAN
    BY ProbeFields
<1>2. Some(r) => r.id = p.id
    BY AnswerNamesProbe
<1>3. CASE p.fate.echo
    <2>1. /\ Some(r) <=> ~p.fate.foreign
          /\ Some(r) => r.dest = p.fate.from /\ r.pmtud = p.pmtud
        BY <1>3, EchoAnswer
    <2>2. Recognisable(p) <=> ~p.fate.foreign  BY <1>3, Zenon DEF Recognisable
    <2>3. Some(r) => r.port = None  BY <1>3, ReplyParsed
    <2>4. Some(r) => DeriveFlowHint(r.port, profile.flows) \in {None, p.flow}
        BY <2>3, HintOfAnswer
    <2> QED  BY <1>1, <1>2, <1>3, <2>1, <2>2, <2>4 DEF Answered, Finds
<1>4. CASE ~p.fate.echo
    <2>1. /\ Some(r) <=> Recognisable(p)
          /\ Some(r) => /\ r.dest = p.dest /\ r.pmtud = FALSE
                        /\ r.port = IF p.proto = "icmp" THEN None
                                    ELSE IF Some(p.fate.port) THEN p.fate.port ELSE FlowPort(p.flow)
        BY <1>4, ErrorAnswer
    <2>2. Some(r) => r.port \in {None, p.fate.port, FlowPort(p.flow)}  BY <2>1
    <2>3. Some(r) => DeriveFlowHint(r.port, profile.flows) \in {None, p.flow}
        BY <2>2, HintOfAnswer
    <2> QED  BY <1>1, <1>2, <1>4, <2>1, <2>3 DEF Answered, Finds
<1> QED  BY <1>3, <1>4

\* Own probes are found exactly when enough of them comes back, through quoting,
\* extension headers, rewritten identifiers and NATs, and a foreign process's
\* answer is told from ours: OwnProbeFound, for ranges of ports that end below
\* 65536 and NATs that do not give one flow's probe another's port.
THEOREM OwnProbesAreFound ==
    ASSUME PortsBelowEnd, NatsKeepFlows
    PROVE  Spec => []OwnProbeFound
<1>1. Init => NatInv
    BY DEF Init, NatInv
<1>2. SessionInv /\ NatInv /\ [Next]_vars => NatInv'
    BY NatNext
<1>3. SessionInv /\ NatInv => OwnProbeFound
    <2> SUFFICES ASSUME SessionInv, NatInv, probe # None PROVE Answered(probe, ParsedOf(probe))
        BY Zenon DEF OwnProbeFound, Answered
    <2>1. profile \in Profiles /\ probe \in Probes(profile) /\ NatKeepsFlows(probe, profile.flows)
        BY DEF SessionInv, NatInv
    <2> QED  BY <2>1, AnswerFinds
<1> QED  BY <1>1, <1>2, <1>3, AlwaysSound, PTL DEF Spec
=============================================================================
