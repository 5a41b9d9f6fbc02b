----------------------------- MODULE TftpProofs -----------------------------
(***************************************************************************)
(* Proofs about Tftp, for every file length, block size, number of sends   *)
(* per state and number of faults: an end that reports success has moved   *)
(* the whole file, an end that reports failure has its reason, and the     *)
(* copies of a datagram do not multiply.                                   *)
(*                                                                         *)
(* A step of this program replaces the client, the session and the queue   *)
(* at once, and which of the last two depends on what the network does, so *)
(* the parts of the invariant are operators of the values before or after: *)
(* c the client, s the session, r the queue, f faults and n noise.         *)
(***************************************************************************)
EXTENDS Tftp, SequenceTheorems, TLAPS

Ops == {"request", "data", "ack", "oack", "badOack", "error",
        "host", "stranger", "unreachable"}
Datagrams == [op : Ops, block : 0..BlockModulus - 1, data : Seq(Nat)]
Clients ==
    [pc : {"start", "request", "data", "dally", "ok", "failed"},
     why : {"none", "timeout", "remote", "file", "unreachable", "network"},
     remote : {"request", "server"}, tries : 0..StateSends,
     size : {DefaultBlock, RequestBlock}, block : 0..BlockModulus - 1,
     final : BOOLEAN, disk : Seq(Nat), buffer : Seq(Nat), position : Nat,
     tx : Seq(Nat)]
Sessions ==
    [open : BOOLEAN, final : Int, reordered : BOOLEAN,
     expected : 0..BlockModulus - 1, chunks : Seq(Nat), upload : Seq(Int)]
Scenarios == [mode : Modes, len : Lengths, answer : Answers, room : Rooms,
              reorder : BOOLEAN]

Granted == sc.answer \in {"oack", "fallback"}
Prefix(n) == SubSeq(File, 1, n)
Reach(block) == Smaller(block * ServerBlock, sc.len)   \* bytes in the first blocks
Within(block) == block * ServerBlock <= sc.len         \* the block is a full one

Types(c, s, r, f, n) ==
    /\ c \in Clients /\ s \in Sessions /\ r \in Seq(Datagrams)
    /\ f \in 0..MaxFaults /\ n \in 0..MaxNoise
    /\ Len(c.buffer) <= FileCapacity /\ Len(c.disk) <= sc.room /\ Len(c.tx) <= c.size

\* What the server takes for the last block is a short one.
SessionInv(s) ==
    s.final # None => s.final \in 1..BlockModulus - 1 /\ ~Within(s.final)

Untouched(s) == ~s.reordered /\ s.expected = 1 /\ s.chunks = <<>>

\* What each stage of the client says of the server.
StageInv(c, s, r) ==
    /\ c.pc = "start" => c = Fresh /\ s = Session /\ r = <<>>
    /\ c.pc = "request" =>
           /\ c = [Fresh EXCEPT !.pc = "request", !.tries = c.tries]
           /\ Untouched(s)
    /\ c.pc \in {"request", "data"} => c.tries >= 1
    /\ c.pc \in {"data", "dally"} =>
           Granted /\ s.open /\ c.remote = "server" /\ c.size = ServerBlock
    /\ c.pc = "dally" => sc.mode = "get"

\* GET: file and buffer hold the blocks up to the one expected, all of them full.
GetInv(c) ==
    /\ c.pc = "data" => /\ c.block >= 1 /\ Within(c.block - 1)
                        /\ c.disk \o c.buffer = Prefix((c.block - 1) * ServerBlock)
    /\ c.pc = "dally" => /\ c.block >= 2 /\ Within(c.block - 2)
                         /\ c.disk = File /\ c.buffer = <<>>
    /\ c.pc = "ok" => c.disk = File

\* PUT: the server has the blocks before the current one and perhaps that one.
PutInv(c, s) ==
    c.pc = "data" =>
        /\ c.block >= 1 /\ Within(c.block - 1) /\ c.position = Reach(c.block)
        /\ c.final <=> ~Within(c.block)
        /\ s.expected \in {c.block, c.block + 1}

\* PUT that no other host disturbs: the server's bytes are the file's.
UploadInv(c, s) ==
    /\ c.pc = "data" =>
           /\ c.tx = BlockOf(c.block, ServerBlock)
           /\ s.expected = c.block => s.chunks = Prefix((c.block - 1) * ServerBlock)
           /\ s.expected = c.block + 1 =>
                  /\ s.chunks = Prefix(Reach(c.block))
                  /\ c.final => s.upload = File
    /\ c.pc = "ok" => s.upload = File

\* A datagram in the card is an answer of this server to this request, or noise.
Sound(dg, c, s, n) ==
    /\ dg.op # "request"
    /\ dg.op \in {"error", "badOack", "oack"} => sc.answer = dg.op
    /\ dg.op \in {"host", "stranger", "unreachable"} => n > 0 /\ sc.mode \in Noisy
    /\ dg.op \in {"oack", "data", "ack"} => Granted /\ s.open
    /\ dg.op = "data" =>
           /\ sc.mode = "get" /\ dg.block >= 1 /\ dg.data = BlockOf(dg.block, ServerBlock)
           /\ c.pc = "request" => sc.answer = "fallback" /\ dg.block = 1
    /\ dg.op = "ack" =>
           /\ sc.mode = "put" /\ dg.block < s.expected
           /\ c.pc = "request" => sc.answer = "fallback" /\ dg.block = 0
QueueInv(c, s, r, n) == \A i \in 1..Len(r) : Sound(r[i], c, s, n)

\* A datagram that ends the state the client is in.
Useful(dg, c) ==
    IF c.pc = "request"
    THEN \/ dg.op \in {"oack", "badOack", "error"}
         \/ sc.mode = "get" /\ dg.op = "data" /\ dg.block = 1 /\ Len(dg.data) <= DefaultBlock
         \/ sc.mode = "put" /\ dg.op = "ack" /\ dg.block = 0
    ELSE /\ dg.block = c.block
         /\ \/ sc.mode = "get" /\ dg.op = "data" /\ Len(dg.data) <= c.size
            \/ sc.mode = "put" /\ dg.op = "ack"
Hope(c, r) == \E i \in 1..Len(r) : Useful(r[i], c)

\* Each try spent has met a fault of its own, and so has the current one when nothing
\* in the card can end the state.
Spent(c, f) == c.pc \in {"request", "data"} /\ sc.answer # "silent" => f >= StateSends - c.tries
TriesInv(c, r, f) ==
    /\ Spent(c, f)
    /\ c.pc \in {"request", "data"} /\ sc.answer # "silent" /\ ~Hope(c, r) =>
           f > StateSends - c.tries

WhyInv(c, f, n) ==
    /\ (c.why = "none") = (c.pc # "failed")
    /\ c.why = "timeout" => f >= StateSends \/ sc.answer = "silent"
    /\ c.why = "file" => sc.room < sc.len
    /\ c.why = "remote" => sc.answer \in {"badOack", "error"}
    /\ c.why = "unreachable" => n > 0
    /\ c.why = "network" => f > 0

Ahead(s) == IF s.reordered THEN 1 ELSE 0
CopyInv(s, r, f, n) == Len(r) <= 1 + f + n + Ahead(s)

Parts(c, s, r, f, n) ==
    /\ Types(c, s, r, f, n)
    /\ SessionInv(s)
    /\ StageInv(c, s, r)
    /\ sc.mode = "get" => GetInv(c)
    /\ sc.mode = "put" => PutInv(c, s)
    /\ sc.mode = "put" /\ "put" \notin Noisy => UploadInv(c, s)
    /\ QueueInv(c, s, r, n)
    /\ TriesInv(c, r, f)
    /\ WhyInv(c, f, n)
    /\ CopyInv(s, r, f, n)
IInv == sc \in Scenarios /\ Parts(cl, srv, rx, faults, noise)

\* What a client c that has read the datagrams before r leaves to the send it makes:
\* every part but hope, and room for the answer in the count of copies.
Ready(c, s, r, f, n) ==
    /\ Types(c, s, r, f, n)
    /\ SessionInv(s)
    /\ StageInv(c, s, r)
    /\ sc.mode = "get" => GetInv(c)
    /\ sc.mode = "put" => PutInv(c, s)
    /\ sc.mode = "put" /\ "put" \notin Noisy => UploadInv(c, s)
    /\ QueueInv(c, s, r, n)
    /\ Spent(c, f)
    /\ WhyInv(c, f, n)
    /\ Len(r) <= f + n + Ahead(s)

----------------------------------------------------------------------------
(* Blocks and the file. *)

\* A block is not empty, fits the file buffer, and the numbers of a file's blocks
\* do not wrap.
LEMMA Sizes ==
    ASSUME sc \in Scenarios
    PROVE  /\ ServerBlock \in {DefaultBlock, RequestBlock}
           /\ ServerBlock \in Nat \ {0} /\ ServerBlock <= FileCapacity
           /\ sc.len \in Nat /\ sc.room \in Nat
           /\ BlockModulus \in Nat /\ BlockModulus > 3
           /\ sc.len < (BlockModulus - 3) * ServerBlock
<1>1. /\ ServerBlock \in {DefaultBlock, RequestBlock}
      /\ sc.len \in Lengths /\ sc.len \in Nat /\ sc.room \in Nat
  BY TftpAssumption DEF Scenarios, ServerBlock
<1>2. /\ ServerBlock \in Nat \ {0} /\ ServerBlock <= FileCapacity
      /\ BlockModulus \in Nat
  BY <1>1, TftpAssumption
<1> DEFINE least == Smaller(DefaultBlock, RequestBlock)
<1>3. least \in Nat \ {0} /\ least <= ServerBlock
  BY <1>1, TftpAssumption DEF Smaller
<1>4. sc.len < (BlockModulus - 3) * least
  BY <1>1, TftpAssumption
<1> HIDE DEF least
<1>5. ASSUME NEW a \in Int, NEW m \in Nat \ {0}, NEW b \in Nat, m <= b, 0 < a * m
      PROVE  a > 0 /\ a * m <= a * b
  <2>1. a > 0
    BY <1>5, SMT
  <2>2. a * (b - m) >= 0
    BY <1>5, <2>1, SMT
  <2> QED
    BY <2>1, <2>2, <1>5, SMT
<1>6. BlockModulus - 3 > 0 /\ (BlockModulus - 3) * least <= (BlockModulus - 3) * ServerBlock
  <2>1. BlockModulus - 3 \in Int /\ 0 < (BlockModulus - 3) * least
    BY <1>1, <1>2, <1>3, <1>4
  <2> QED
    BY <1>2, <1>3, <1>5, <2>1
<1> QED
  BY <1>1, <1>2, <1>3, <1>4, <1>6

\* A full block is followed by at least two more numbers that have not wrapped.
LEMMA NoWrap ==
    ASSUME sc \in Scenarios, NEW n \in Nat, Within(n)
    PROVE  n + 3 < BlockModulus
<1>1. n * ServerBlock < (BlockModulus - 3) * ServerBlock
  BY Sizes DEF Within
<1>2. ASSUME NEW a \in Int, NEW b \in Int, NEW k \in Nat \ {0}, a * k < b * k
      PROVE  a < b
  <2>1. (b - a) * k > 0
    BY <1>2, SMT
  <2>2. b - a > 0
    BY <2>1, SMT
  <2> QED
    BY <2>2
<1>3. n < BlockModulus - 3
  BY <1>1, <1>2, Sizes
<1> QED
  BY <1>3, Sizes

LEMMA FirstNumbers ==
    ASSUME sc \in Scenarios
    PROVE  /\ 0 \in 0..BlockModulus - 1 /\ 1 \in 0..BlockModulus - 1
           /\ \A s \in Nat \ {0} : s \in 0..s /\ s >= 1
<1>1. BlockModulus \in Nat /\ BlockModulus > 3
  BY Sizes
<1>2. \A m \in Nat : m > 3 => 0 \in 0..m - 1 /\ 1 \in 0..m - 1
  OBVIOUS
<1>3. \A s \in Nat \ {0} : s \in 0..s /\ s >= 1
  OBVIOUS
<1> QED
  BY <1>1, <1>2, <1>3

\* The blocks before a full one are full.
LEMMA WithinBefore ==
    ASSUME sc \in Scenarios, NEW n \in Nat
    PROVE  /\ n * ServerBlock \in Nat
           /\ (n + 1) * ServerBlock = n * ServerBlock + ServerBlock
           /\ Within(n + 1) => Within(n)
           /\ Within(0)
<1>1. n * ServerBlock \in Nat /\ (n + 1) * ServerBlock = n * ServerBlock + ServerBlock
  BY Sizes, SMT
<1>2. 0 * ServerBlock = 0
  BY Sizes, SMT
<1> QED
  BY <1>1, <1>2, Sizes DEF Within

LEMMA TheFile ==
    ASSUME sc \in Scenarios
    PROVE  File \in Seq(Nat) /\ Len(File) = sc.len /\ \A i \in 1..sc.len : File[i] \in Nat
BY Sizes DEF File

\* The length of a block, and which one is short.
LEMMA Blocks ==
    ASSUME sc \in Scenarios, NEW n \in Nat \ {0}
    PROVE  /\ BlockOf(n, ServerBlock) \in Seq(Nat)
           /\ Len(BlockOf(n, ServerBlock)) \in 0..ServerBlock
           /\ IsShort(BlockOf(n, ServerBlock), ServerBlock) <=> ~Within(n)
           /\ Within(n - 1) => /\ Len(BlockOf(n, ServerBlock)) =
                                     Reach(n) - (n - 1) * ServerBlock
                               /\ Reach(n) \in (n - 1) * ServerBlock..sc.len
           /\ Reach(n) = IF Within(n) THEN n * ServerBlock ELSE sc.len
<1> DEFINE from == (n - 1) * ServerBlock
           to == Reach(n)
<1>1. from \in Nat /\ n * ServerBlock = from + ServerBlock
  <2>1. n - 1 \in Nat /\ n = (n - 1) + 1
    OBVIOUS
  <2> QED
    BY <2>1, WithinBefore
<1>2. /\ to = IF from + ServerBlock <= sc.len THEN from + ServerBlock ELSE sc.len
      /\ Within(n) = (from + ServerBlock <= sc.len)
      /\ Within(n - 1) = (from <= sc.len)
  BY <1>1, Sizes DEF Reach, Smaller, Within
<1>3. BlockOf(n, ServerBlock) = SubSeq(File, from + 1, to)
  BY DEF BlockOf, Reach
<1> HIDE DEF from, to
<1>4. to \in Int /\ to <= sc.len /\ to <= from + ServerBlock
  BY <1>1, <1>2, Sizes
<1>5. /\ SubSeq(File, from + 1, to) \in Seq(Nat)
      /\ Len(SubSeq(File, from + 1, to)) = IF from + 1 <= to THEN to - from ELSE 0
  <2>1. \A i \in from + 1..to : File[i] \in Nat
    BY <1>1, <1>4, Sizes, TheFile
  <2> QED
    BY <1>1, <1>4, <2>1, SubSeqProperties
<1>6. IsShort(BlockOf(n, ServerBlock), ServerBlock) <=> ~Within(n)
  <2> DEFINE length == Len(SubSeq(File, from + 1, to))
  <2>1. length < ServerBlock <=> ~(from + ServerBlock <= sc.len)
    BY <1>1, <1>2, <1>4, <1>5, Sizes
  <2> QED
    BY <1>2, <1>3, <2>1 DEF IsShort
<1>7. from <= sc.len => to \in from..sc.len /\ Len(SubSeq(File, from + 1, to)) = to - from
  BY <1>1, <1>2, <1>4, <1>5, Sizes
<1>8. Len(SubSeq(File, from + 1, to)) \in 0..ServerBlock
  BY <1>1, <1>4, <1>5, Sizes
<1>9. Reach(n) = IF Within(n) THEN n * ServerBlock ELSE sc.len
  BY <1>1, <1>2 DEF to
<1> QED
  BY <1>2, <1>3, <1>5, <1>6, <1>7, <1>8, <1>9 DEF from, to

\* A block after the blocks before it.
LEMMA Grows ==
    ASSUME sc \in Scenarios, NEW n \in Nat \ {0}, Within(n - 1)
    PROVE  Prefix((n - 1) * ServerBlock) \o BlockOf(n, ServerBlock) = Prefix(Reach(n))
<1> DEFINE from == (n - 1) * ServerBlock
<1>1. from \in Nat /\ from <= sc.len /\ Reach(n) \in from..sc.len
  BY Blocks, WithinBefore, Sizes DEF Within
<1>2. BlockOf(n, ServerBlock) = SubSeq(File, from + 1, Reach(n))
  BY DEF BlockOf, Reach
<1> HIDE DEF from
<1>3. ASSUME NEW k \in 0..sc.len, NEW to \in k..sc.len
      PROVE  SubSeq(File, 1, k) \o SubSeq(File, k + 1, to) = SubSeq(File, 1, to)
  <2>1. 1 \in 1..Len(File) + 1 /\ k \in 1 - 1..Len(File) /\ to \in k..Len(File)
    BY <1>3, TheFile, Sizes
  <2> QED
    BY <2>1, TheFile, ConcatAdjacentSubSeq
<1>4. SubSeq(File, 1, from) \o SubSeq(File, from + 1, Reach(n)) = SubSeq(File, 1, Reach(n))
  <2>1. from \in 0..sc.len
    BY <1>1, Sizes
  <2> QED
    BY <1>1, <1>3, <2>1
<1> QED
  BY <1>2, <1>4 DEF from, Prefix

LEMMA Prefixes ==
    ASSUME sc \in Scenarios
    PROVE  /\ Prefix(0) = <<>> /\ Prefix(sc.len) = File
           /\ \A n \in 0..sc.len : Prefix(n) \in Seq(Nat) /\ Len(Prefix(n)) = n
<1>1. Prefix(0) = <<>>
  BY SubSeqEmpty DEF Prefix
<1>2. Prefix(sc.len) = File
  BY TheFile, SubSeqFull DEF Prefix
<1>3. ASSUME NEW n \in 0..sc.len
      PROVE  Prefix(n) \in Seq(Nat) /\ Len(Prefix(n)) = n
  <2>1. \A i \in 1..n : File[i] \in Nat
    BY TheFile, Sizes
  <2>2. n \in Int /\ n >= 0
    BY Sizes
  <2> QED
    BY <2>1, <2>2, SubSeqProperties DEF Prefix
<1> QED
  BY <1>1, <1>2, <1>3

----------------------------------------------------------------------------
(* The queue. *)

LEMMA OneElement ==
    ASSUME NEW S, NEW e \in S
    PROVE  /\ <<e>> \in Seq(S) /\ Len(<<e>>) = 1 /\ Len(<<e>>) <= 1
           /\ 1 \in 1..Len(<<e>>) /\ \A i \in 1..Len(<<e>>) : <<e>>[i] = e
OBVIOUS

LEMMA TwoElements ==
    ASSUME NEW S, NEW e \in S, NEW f \in S
    PROVE  /\ <<e, f>> \in Seq(S) /\ Len(<<e, f>>) = 2
           /\ <<e, f>>[1] = e /\ <<e, f>>[2] = f
OBVIOUS

\* Reading the head leaves a sound queue, and hope unless the head was what ends the
\* state.
LEMMA ReadHead ==
    ASSUME NEW c, NEW s, NEW n, NEW r \in Seq(Datagrams), r # <<>>, QueueInv(c, s, r, n)
    PROVE  /\ Head(r) \in Datagrams /\ Sound(Head(r), c, s, n)
           /\ Tail(r) \in Seq(Datagrams) /\ Len(Tail(r)) = Len(r) - 1
           /\ QueueInv(c, s, Tail(r), n)
           /\ Hope(c, r) => Hope(c, Tail(r)) \/ Useful(Head(r), c)
<1>1. Len(r) \in Nat \ {0} /\ Head(r) = r[1]
  BY EmptySeq, LenProperties
<1>2. /\ Head(r) \in Datagrams /\ Tail(r) \in Seq(Datagrams) /\ Len(Tail(r)) = Len(r) - 1
      /\ \A i \in 1..Len(Tail(r)) : Tail(r)[i] = r[i + 1]
  BY HeadTailProperties
<1>3. QueueInv(c, s, Tail(r), n) /\ Sound(Head(r), c, s, n)
  BY <1>1, <1>2 DEF QueueInv
<1>4. ASSUME NEW i \in 1..Len(r), Useful(r[i], c)
      PROVE  Hope(c, Tail(r)) \/ Useful(Head(r), c)
  <2>1. CASE i = 1
    BY <1>1, <1>4, <2>1
  <2>2. CASE i # 1
    <3>1. i - 1 \in 1..Len(Tail(r)) /\ Tail(r)[i - 1] = r[i]
      BY <1>1, <1>2, <2>2
    <3> QED
      BY <1>4, <3>1 DEF Hope
  <2> QED
    BY <2>1, <2>2
<1> QED
  BY <1>2, <1>3, <1>4 DEF Hope

\* What is sound stays so while the session goes on and the client leaves its request.
LEMMA StaysSound ==
    ASSUME NEW c, NEW s \in Sessions, NEW n \in Nat, NEW r, QueueInv(c, s, r, n),
           r \in Seq(Datagrams),
           NEW d, NEW t \in Sessions, NEW m \in Nat,
           d.pc = "request" => c.pc = "request",
           s.open => t.open, s.expected <= t.expected, n <= m
    PROVE  QueueInv(d, t, r, m)
<1> SUFFICES ASSUME NEW i \in 1..Len(r)
             PROVE  Sound(r[i], d, t, m)
  BY DEF QueueInv
<1>1. r[i] \in Datagrams /\ Sound(r[i], c, s, n)
  BY ElementOfSeq DEF QueueInv
<1>2. r[i].block < s.expected => r[i].block < t.expected
  <2>1. r[i].block \in Int /\ s.expected \in Int /\ t.expected \in Int
    BY <1>1, SMTT(30) DEF Datagrams, Sessions
  <2> QED
    BY <2>1
<1>3. n > 0 => m > 0
  OBVIOUS
<1> QED
  BY <1>1, <1>2, <1>3 DEF Sound

\* A queue and what is put behind it.
LEMMA PutBehind ==
    ASSUME NEW c, NEW s, NEW n, NEW r \in Seq(Datagrams), NEW out \in Seq(Datagrams),
           QueueInv(c, s, r, n), QueueInv(c, s, out, n)
    PROVE  /\ r \o out \in Seq(Datagrams) /\ Len(r \o out) = Len(r) + Len(out)
           /\ QueueInv(c, s, r \o out, n)
           /\ Hope(c, r) \/ Hope(c, out) => Hope(c, r \o out)
<1>1. /\ r \o out \in Seq(Datagrams) /\ Len(r \o out) = Len(r) + Len(out)
      /\ \A i \in 1..Len(r) + Len(out) :
             (r \o out)[i] = IF i <= Len(r) THEN r[i] ELSE out[i - Len(r)]
      /\ Len(r) \in Nat /\ Len(out) \in Nat
  BY ConcatProperties, LenProperties
<1> DEFINE both == r \o out
<1> HIDE DEF both
<1>2. ASSUME NEW i \in 1..Len(r) + Len(out)
      PROVE  Sound(both[i], c, s, n)
  <2>1. CASE i <= Len(r)
    BY <1>1, <2>1 DEF QueueInv, both
  <2>2. CASE ~(i <= Len(r))
    <3>1. i - Len(r) \in 1..Len(out) /\ both[i] = out[i - Len(r)]
      BY <1>1, <2>2 DEF both
    <3> QED
      BY <3>1 DEF QueueInv
  <2> QED
    BY <2>1, <2>2
<1>3. ASSUME NEW i \in 1..Len(r), Useful(r[i], c)
      PROVE  Hope(c, both)
  <2>1. i \in 1..Len(both) /\ both[i] = r[i]
    BY <1>1 DEF both
  <2> QED
    BY <1>3, <2>1 DEF Hope
<1>4. ASSUME NEW i \in 1..Len(out), Useful(out[i], c)
      PROVE  Hope(c, both)
  <2>1. i + Len(r) \in 1..Len(both) /\ both[i + Len(r)] = out[i]
    BY <1>1 DEF both
  <2> QED
    BY <1>4, <2>1 DEF Hope
<1> QED
  BY <1>1, <1>2, <1>3, <1>4 DEF QueueInv, Hope, both

----------------------------------------------------------------------------
(* What the server answers. *)

LEMMA Packets ==
    ASSUME sc \in Scenarios, NEW n \in 1..BlockModulus - 1
    PROVE  /\ DataPacket(n) \in Datagrams /\ DataPacket(n).op = "data"
           /\ DataPacket(n).block = n /\ DataPacket(n).data = BlockOf(n, ServerBlock)
           /\ \A s \in Sessions : SessionInv(s) =>
                  SessionInv([s EXCEPT !.final = FinalAfter(s, n)])
           /\ \A s \in Sessions : FinalAfter(s, n) \in Int
<1>1. n \in Nat \ {0} /\ n \in 0..BlockModulus - 1
  BY Sizes
<1>2. /\ BlockOf(n, ServerBlock) \in Seq(Nat)
      /\ IsShort(BlockOf(n, ServerBlock), ServerBlock) <=> ~Within(n)
  BY <1>1, Blocks
<1>3. ASSUME NEW s \in Sessions
      PROVE  /\ FinalAfter(s, n) \in Int
             /\ SessionInv(s) => SessionInv([s EXCEPT !.final = FinalAfter(s, n)])
  <2>1. FinalAfter(s, n) = IF Within(n) THEN s.final ELSE n
    BY <1>2 DEF FinalAfter
  <2> QED
    BY <2>1, <1>1 DEF SessionInv, Sessions
<1> QED
  BY <1>1, <1>2, <1>3 DEF DataPacket, Datagram, Datagrams, Ops

\* A request: the session starts anew or the request is refused, and whatever comes
\* back ends the request.
LEMMA RespondRequest ==
    ASSUME sc \in Scenarios, NEW s \in Sessions, SessionInv(s), Untouched(s),
           NEW c, c.pc = "request", c.remote = "request", NEW n \in Nat,
           NEW reply, reply = respondTftp(s, c.remote, Request)
    PROVE  /\ reply.srv \in Sessions /\ SessionInv(reply.srv) /\ Untouched(reply.srv)
           /\ s.open => reply.srv.open
           /\ reply.out \in Seq(Datagrams) /\ Len(reply.out) <= 1
           /\ QueueInv(c, reply.srv, reply.out, n)
           /\ sc.answer # "silent" => Hope(c, reply.out)
<1> DEFINE new == [Session EXCEPT !.open = TRUE]
<1>1. new \in Sessions /\ SessionInv(new) /\ Untouched(new) /\ new.open
  <2>1. <<>> \in Seq(Nat) /\ 1 \in 0..BlockModulus - 1
    BY FirstNumbers, EmptySeq
  <2>2. None \in Int /\ <<None>> \in Seq(Int)
    BY DEF None
  <2>3. Session \in Sessions
    BY <2>1, <2>2 DEF Session, Sessions
  <2>4. new \in Sessions
    BY <2>3 DEF Sessions
  <2>5. /\ new.open = TRUE /\ new.reordered = FALSE /\ new.final = None
        /\ new.expected = 1 /\ new.chunks = <<>>
    BY DEF Session
  <2> QED
    BY <2>4, <2>5 DEF SessionInv, Untouched
<1>2. CASE sc.answer = "silent"
  <2>1. reply.srv = s /\ reply.out = <<>>
    BY <1>2 DEF respondTftp, Unanswered
  <2> QED
    <3>1. /\ <<>> \in Seq(Datagrams) /\ Len(<<>>) <= 1
          /\ QueueInv(c, reply.srv, <<>>, n)
      BY EmptySeq DEF QueueInv
    <3> QED
      BY <1>2, <2>1, <3>1
<1>3. CASE sc.answer # "silent"
  <2>1. reply = ServeRequest(s)
    BY <1>3 DEF respondTftp, Request, Datagram
  <2>2. 1 \in 1..BlockModulus - 1
    BY Sizes
  <2>3. sc.mode \in {"get", "put"} /\ sc.answer \in {"oack", "fallback", "badOack", "error"}
    BY <1>3, TftpAssumption DEF Scenarios
  <2>4. /\ reply.out = <<RequestReply>>
        /\ reply.srv = IF sc.answer = "error" THEN s
                       ELSE IF sc.mode = "get" /\ sc.answer = "fallback"
                       THEN [new EXCEPT !.final = FinalAfter(new, 1)] ELSE new
    <3>1. reply = [srv |-> IF sc.answer = "error" THEN s
                           ELSE IF sc.mode = "get" /\ sc.answer = "fallback"
                           THEN [new EXCEPT !.final = FinalAfter(new, 1)] ELSE new,
                   out |-> <<RequestReply>>]
      BY <2>1 DEF ServeRequest
    <3> HIDE DEF new
    <3> QED
      BY <3>1
  <2> HIDE DEF new
  <2>5. /\ reply.srv \in Sessions /\ SessionInv(reply.srv) /\ Untouched(reply.srv)
        /\ s.open => reply.srv.open
        /\ sc.answer # "error" => reply.srv.open
    <3>1. CASE sc.mode = "get" /\ sc.answer = "fallback"
      <4>1. FinalAfter(new, 1) \in Int
            /\ SessionInv([new EXCEPT !.final = FinalAfter(new, 1)])
        BY <1>1, <2>2, Packets
      <4>2. reply.srv = [new EXCEPT !.final = FinalAfter(new, 1)]
        BY <2>4, <3>1
      <4> QED
        BY <1>1, <4>1, <4>2 DEF Sessions, Untouched
    <3>2. CASE ~(sc.mode = "get" /\ sc.answer = "fallback")
      BY <1>1, <2>4, <3>2
    <3> QED
      BY <3>1, <3>2
  <2>6. RequestReply \in Datagrams
    <3>1. <<>> \in Seq(Nat) /\ 0 \in 0..BlockModulus - 1
      BY FirstNumbers, EmptySeq
    <3> QED
      BY <2>2, <2>3, <3>1, Packets DEF RequestReply, Datagram, Datagrams, Ops
  <2>7. Sound(RequestReply, c, reply.srv, n) /\ Useful(RequestReply, c)
    <3>1. CASE sc.answer = "fallback" /\ sc.mode = "get"
      <4>1. RequestReply = DataPacket(1) /\ ServerBlock = DefaultBlock
        BY <3>1 DEF RequestReply, ServerBlock
      <4>2. Len(BlockOf(1, ServerBlock)) <= DefaultBlock
        <5>1. 1 \in Nat \ {0}
          OBVIOUS
        <5>2. Len(BlockOf(1, ServerBlock)) \in 0..ServerBlock
          BY <5>1, Blocks
        <5> QED
          BY <4>1, <5>2, Sizes
      <4> QED
        BY <2>2, <2>5, <3>1, <4>1, <4>2, Packets DEF Sound, Useful, Granted
    <3>2. CASE ~(sc.answer = "fallback" /\ sc.mode = "get")
      <4>1. \/ sc.answer \in {"oack", "badOack", "error"}
               /\ RequestReply = Datagram(sc.answer, 0, <<>>)
            \/ sc.answer = "fallback" /\ sc.mode = "put"
               /\ RequestReply = Datagram("ack", 0, <<>>)
        BY <2>3, <3>2 DEF RequestReply
      <4> DEFINE dg == RequestReply
      <4> HIDE DEF dg
      <4>2. \/ dg.op = sc.answer /\ sc.answer \in {"oack", "badOack", "error"}
            \/ dg.op = "ack" /\ dg.block = 0 /\ sc.answer = "fallback" /\ sc.mode = "put"
        <5>1. \A op, data : /\ Datagram(op, 0, data).op = op
                            /\ Datagram(op, 0, data).block = 0
          BY DEF Datagram
        <5> QED
          BY <4>1, <5>1 DEF dg
      <4>3. Useful(dg, c)
        BY <4>2 DEF Useful
      <4>4. reply.srv.expected = 1
        BY <2>5 DEF Untouched
      <4>5. Sound(dg, c, reply.srv, n)
        BY <2>5, <4>2, <4>4 DEF Sound, Granted
      <4> QED
        BY <4>3, <4>5 DEF dg
    <3> QED
      BY <3>1, <3>2
  <2>8. /\ reply.out \in Seq(Datagrams) /\ Len(reply.out) <= 1
        /\ 1 \in 1..Len(reply.out)
        /\ \A i \in 1..Len(reply.out) : reply.out[i] = RequestReply
    <3>1. /\ <<RequestReply>> \in Seq(Datagrams) /\ Len(<<RequestReply>>) <= 1
          /\ 1 \in 1..Len(<<RequestReply>>)
          /\ \A i \in 1..Len(<<RequestReply>>) : <<RequestReply>>[i] = RequestReply
      BY <2>6, OneElement
    <3> QED
      BY <2>4, <3>1, Zenon
  <2>10. QueueInv(c, reply.srv, reply.out, n) /\ Hope(c, reply.out)
    BY <2>7, <2>8 DEF QueueInv, Hope
  <2> QED
    BY <2>5, <2>8, <2>10
<1> QED
  BY <1>2, <1>3

\* A number below that of a block that is not there does not wrap.
LEMMA NextNumber ==
    ASSUME sc \in Scenarios, NEW b \in 0..BlockModulus - 1, b = 0 \/ Within(b - 1)
    PROVE  /\ b \in Nat /\ b + 1 \in 1..BlockModulus - 1 /\ b + 2 \in 1..BlockModulus - 1
           /\ Next16(b) = b + 1 /\ (b + 2) % BlockModulus = b + 2
<1>1. b \in Nat /\ b + 2 < BlockModulus
  <2>1. CASE b = 0
    BY <2>1, Sizes
  <2>2. CASE b # 0 /\ Within(b - 1)
    <3>1. b - 1 \in Nat
      BY <2>2
    <3>2. (b - 1) + 3 < BlockModulus
      BY <2>2, <3>1, NoWrap
    <3> QED
      BY <3>1, <3>2, Sizes
  <2> QED
    BY <2>1, <2>2
<1>2. \A a \in Nat : a < BlockModulus => a % BlockModulus = a
  BY Sizes
<1>3. b + 1 \in Nat /\ b + 2 \in Nat /\ b + 1 < BlockModulus
  BY <1>1, Sizes
<1> QED
  BY <1>1, <1>2, <1>3, Sizes DEF Next16

\* An ACK: the block after it, if there is one, and once the one after that before it.
LEMMA RespondAck ==
    ASSUME sc \in Scenarios, sc.mode = "get", Granted,
           NEW s \in Sessions, SessionInv(s), s.open,
           NEW b \in 0..BlockModulus - 1, b = 0 \/ Within(b - 1),
           NEW c, c.remote = "server", c.pc # "request", NEW n \in Nat,
           NEW reply, reply = respondTftp(s, c.remote, Ack(b))
    PROVE  /\ reply.srv \in Sessions /\ SessionInv(reply.srv) /\ reply.srv.open
           /\ reply.srv.expected = s.expected
           /\ reply.out \in Seq(Datagrams)
           /\ Len(reply.out) + Ahead(s) <= 1 + Ahead(reply.srv)
           /\ QueueInv(c, reply.srv, reply.out, n)
           /\ Within(b) => \E i \in 1..Len(reply.out) : reply.out[i] = DataPacket(b + 1)
<1> DEFINE next  == b + 1
           ahead == b + 2
           seen  == [s EXCEPT !.reordered = TRUE, !.final = FinalAfter(s, ahead)]
<1>1. /\ b \in Nat /\ next \in 1..BlockModulus - 1 /\ ahead \in 1..BlockModulus - 1
      /\ Next16(b) = next /\ (b + 2) % BlockModulus = ahead
  BY NextNumber
<1>2. reply = ServeAck(s, Ack(b))
  <2>1. Ack(b).op = "ack" /\ sc.answer # "silent"
    BY DEF Ack, Datagram, Granted
  <2> QED
    BY <2>1 DEF respondTftp
<1>3. Ack(b).block = b
  BY DEF Ack, Datagram
<1>4. reply = IF s.final = b THEN Unanswered(s)
              ELSE IF AheadOnce(s)
              THEN [srv |-> [seen EXCEPT !.final = FinalAfter(seen, next)],
                    out |-> <<DataPacket(ahead), DataPacket(next)>>]
              ELSE [srv |-> [s EXCEPT !.final = FinalAfter(s, next)],
                    out |-> <<DataPacket(next)>>]
  BY <1>1, <1>2, <1>3 DEF ServeAck
<1>5. ASSUME NEW t, t.open, NEW k \in 1..BlockModulus - 1
      PROVE  DataPacket(k) \in Datagrams /\ Sound(DataPacket(k), c, t, n)
  <2>1. /\ DataPacket(k) \in Datagrams /\ DataPacket(k).op = "data"
        /\ DataPacket(k).block = k /\ DataPacket(k).data = BlockOf(k, ServerBlock)
    BY Packets
  <2> QED
    BY <1>5, <2>1 DEF Sound
<1> HIDE DEF next, ahead, seen
<1>6. CASE s.final = b
  <2>1. reply.srv = s /\ reply.out = <<>>
    BY <1>4, <1>6 DEF Unanswered
  <2>2. ~Within(b)
    BY <1>1, <1>6 DEF SessionInv, None
  <2>3. <<>> \in Seq(Datagrams) /\ QueueInv(c, s, <<>>, n) /\ Len(<<>>) + Ahead(s) <= 1 + Ahead(s)
    BY EmptySeq DEF QueueInv, Ahead
  <2> QED
    BY <2>1, <2>2, <2>3
<1>7. CASE s.final # b /\ AheadOnce(s)
  <2> DEFINE t == [seen EXCEPT !.final = FinalAfter(seen, next)]
             out == <<DataPacket(ahead), DataPacket(next)>>
  <2>1. reply.srv = t /\ reply.out = out
    BY <1>4, <1>7
  <2>2. seen \in Sessions /\ SessionInv(seen) /\ seen.open /\ seen.reordered
        /\ seen.expected = s.expected /\ ~s.reordered
    <3>1. FinalAfter(s, ahead) \in Int /\ SessionInv([s EXCEPT !.final = FinalAfter(s, ahead)])
      BY <1>1, Packets
    <3> QED
      BY <1>7, <3>1 DEF seen, Sessions, SessionInv, AheadOnce
  <2>3. t \in Sessions /\ SessionInv(t) /\ t.open /\ t.reordered /\ t.expected = s.expected
    <3>1. FinalAfter(seen, next) \in Int /\ SessionInv(t)
      BY <1>1, <2>2, Packets
    <3> QED
      BY <2>2, <3>1 DEF Sessions
  <2> HIDE DEF t
  <2>4. /\ DataPacket(ahead) \in Datagrams /\ Sound(DataPacket(ahead), c, t, n)
        /\ DataPacket(next) \in Datagrams /\ Sound(DataPacket(next), c, t, n)
    BY <1>1, <1>5, <2>3
  <2>5. /\ out \in Seq(Datagrams) /\ Len(out) = 2
        /\ out[1] = DataPacket(ahead) /\ out[2] = DataPacket(next)
    BY <2>4, TwoElements
  <2> HIDE DEF out
  <2>6. 2 \in 1..Len(out) /\ \A i \in 1..Len(out) : i = 1 \/ i = 2
    BY <2>5
  <2>7. QueueInv(c, t, out, n)
    BY <2>4, <2>5, <2>6 DEF QueueInv
  <2>8. Len(out) + Ahead(s) <= 1 + Ahead(t)
    BY <2>2, <2>3, <2>5 DEF Ahead
  <2> QED
    BY <2>1, <2>3, <2>5, <2>6, <2>7, <2>8 DEF next
<1>8. CASE s.final # b /\ ~AheadOnce(s)
  <2> DEFINE t == [s EXCEPT !.final = FinalAfter(s, next)]
             out == <<DataPacket(next)>>
  <2>1. reply.srv = t /\ reply.out = out
    BY <1>4, <1>8
  <2>2. t \in Sessions /\ SessionInv(t) /\ t.open /\ t.reordered = s.reordered
        /\ t.expected = s.expected
    <3>1. FinalAfter(s, next) \in Int /\ SessionInv(t)
      BY <1>1, Packets
    <3> QED
      BY <3>1 DEF Sessions
  <2> HIDE DEF t
  <2>3. DataPacket(next) \in Datagrams /\ Sound(DataPacket(next), c, t, n)
    BY <1>1, <1>5, <2>2
  <2>4. /\ out \in Seq(Datagrams) /\ Len(out) = 1
        /\ 1 \in 1..Len(out) /\ \A i \in 1..Len(out) : out[i] = DataPacket(next)
    BY <2>3, OneElement
  <2> HIDE DEF out
  <2>5. QueueInv(c, t, out, n)
    BY <2>3, <2>4 DEF QueueInv
  <2>6. Len(out) + Ahead(s) <= 1 + Ahead(t)
    BY <2>2, <2>4 DEF Ahead
  <2> QED
    BY <2>1, <2>2, <2>4, <2>5, <2>6 DEF next
<1> QED
  BY <1>6, <1>7, <1>8

\* Session t is what s becomes with the data d of block b.
Taken(s, b, d, t) ==
    s.expected = b => /\ t.chunks = s.chunks \o d
                      /\ IsShort(d, ServerBlock) => t.upload = s.chunks \o d

\* A block: the expected one is kept, any one is acknowledged.
LEMMA RespondData ==
    ASSUME sc \in Scenarios, sc.mode = "put", Granted,
           NEW s \in Sessions, SessionInv(s), s.open,
           NEW b \in 1..BlockModulus - 2, NEW d \in Seq(Nat), s.expected <= b + 1,
           s.expected >= b,
           NEW port, port = "server",
           NEW reply, reply = respondTftp(s, port, Datagram("data", b, d))
    PROVE  /\ reply.srv \in Sessions /\ SessionInv(reply.srv) /\ reply.srv.open
           /\ reply.srv.expected = b + 1 /\ reply.srv.reordered = s.reordered
           /\ Taken(s, b, d, reply.srv)
           /\ s.expected = b + 1 => reply.srv = s
           /\ reply.out = <<Ack(b)>>
<1> DEFINE dg == Datagram("data", b, d)
           kept == s.chunks \o d
           t == [s EXCEPT !.chunks = kept, !.expected = Next16(@),
                          !.upload = IF IsShort(d, ServerBlock) THEN kept ELSE @]
<1>1. dg.op = "data" /\ dg.block = b /\ dg.data = d /\ sc.answer # "silent"
  BY DEF Datagram, Granted
<1>2. reply = ServeData(s, dg)
  BY <1>1 DEF respondTftp
<1>3. /\ reply.srv = IF b # s.expected THEN s ELSE t
      /\ reply.out = <<Ack(b)>>
  <2>1. reply = [srv |-> IF dg.block # s.expected THEN s
                         ELSE [s EXCEPT !.chunks = s.chunks \o dg.data,
                                        !.expected = Next16(@),
                                        !.upload = IF IsShort(dg.data, ServerBlock)
                                                   THEN s.chunks \o dg.data ELSE @],
                 out |-> <<Datagram("ack", dg.block, <<>>)>>]
    BY <1>2 DEF ServeData
  <2> HIDE DEF dg
  <2>2. reply = [srv |-> IF b # s.expected THEN s ELSE t, out |-> <<Ack(b)>>]
    BY <1>1, <2>1, Zenon DEF Ack
  <2> HIDE DEF t
  <2> QED
    BY <2>2
<1>4. b \in Int /\ s.expected \in Int /\ BlockModulus \in Nat
  BY Sizes DEF Sessions
<1>5. kept \in Seq(Nat) /\ kept \in Seq(Int)
  <2>1. s.chunks \in Seq(Nat)
    BY DEF Sessions
  <2>2. kept \in Seq(Nat)
    BY <2>1, ConcatProperties
  <2> HIDE DEF kept
  <2> QED
    BY <2>2, SeqMonotonic
<1> HIDE DEF kept
<1>7. CASE b = s.expected
  <2>1. Next16(b) = b + 1 /\ b + 1 \in 0..BlockModulus - 1
    BY <1>4 DEF Next16
  <2>2. /\ t \in Sessions /\ SessionInv(t) /\ t.open /\ t.expected = b + 1
        /\ t.reordered = s.reordered /\ t.chunks = kept
        /\ IsShort(d, ServerBlock) => t.upload = kept
    BY <1>5, <1>7, <2>1 DEF Sessions, SessionInv
  <2> HIDE DEF t
  <2>4. s.expected # b + 1
    BY <1>4, <1>7
  <2>5. reply.srv = t
    BY <1>3, <1>7
  <2> QED
    BY <1>3, <2>2, <2>4, <2>5 DEF kept, Taken
<1>8. CASE b # s.expected
  <2>1. reply.srv = s /\ s.expected = b + 1
    BY <1>3, <1>4, <1>8
  <2> QED
    BY <1>3, <1>8, <2>1 DEF Taken
<1> QED
  BY <1>7, <1>8

----------------------------------------------------------------------------
(* Sends. *)

LEMMA Counts ==
    ASSUME NEW c, NEW s, NEW r, NEW f, NEW n, Types(c, s, r, f, n)
    PROVE  /\ f \in Nat /\ f <= MaxFaults /\ n \in Nat /\ Len(r) \in Nat
           /\ MaxFaults \in Nat /\ StateSends \in Nat /\ c.tries \in Nat
           /\ c \in Clients /\ s \in Sessions /\ r \in Seq(Datagrams)
           /\ \A t : Ahead(t) \in {0, 1}
BY TftpAssumption, LenProperties DEF Types, Clients, Ahead

\* The datagram is lost: a fault for the try that waits in vain.
LEMMA Lost ==
    ASSUME NEW c, NEW s, NEW r, NEW f, NEW n, Ready(c, s, r, f, n), f < MaxFaults
    PROVE  Parts(c, s, r, f + 1, n)
<1>1. Types(c, s, r, f, n)
  BY DEF Ready
<1>2. /\ f \in Nat /\ n \in Nat /\ Len(r) \in Nat /\ MaxFaults \in Nat /\ StateSends \in Nat
      /\ c.tries \in Nat /\ Ahead(s) \in {0, 1}
  BY <1>1, Counts
<1>3. f + 1 \in 0..MaxFaults
  BY <1>2
<1>4. Types(c, s, r, f + 1, n)
  BY <1>1, <1>3 DEF Types
<1>5. TriesInv(c, r, f + 1)
  <2>1. Spent(c, f)
    BY DEF Ready
  <2> QED
    BY <1>2, <2>1 DEF Spent, TriesInv
<1>6. WhyInv(c, f + 1, n)
  <2>1. WhyInv(c, f, n)
    BY DEF Ready
  <2> QED
    BY <1>2, <2>1 DEF WhyInv
<1>7. CopyInv(s, r, f + 1, n)
  <2>1. Len(r) <= f + n + Ahead(s)
    BY DEF Ready
  <2> QED
    BY <1>2, <2>1 DEF CopyInv
<1> QED
  BY <1>4, <1>5, <1>6, <1>7 DEF Ready, Parts

\* A reply t, out that keeps what the client knows of the session and ends its state.
LEMMA Arrived ==
    ASSUME NEW c, NEW s, NEW r, NEW f, NEW n, Ready(c, s, r, f, n),
           NEW t \in Sessions, NEW out \in Seq(Datagrams),
           SessionInv(t), s.open => t.open, s.expected <= t.expected,
           c.pc # "start", c.pc = "request" => Untouched(t),
           sc.mode = "put" => PutInv(c, t),
           sc.mode = "put" /\ "put" \notin Noisy => UploadInv(c, t),
           QueueInv(c, t, out, n), Len(out) + Ahead(s) <= 1 + Ahead(t),
           c.pc \in {"request", "data"} /\ sc.answer # "silent" => Hope(c, out)
    PROVE  Parts(c, t, r \o out, f, n)
<1>1. Types(c, s, r, f, n) /\ QueueInv(c, s, r, n)
  BY DEF Ready
<1>2. /\ f \in Nat /\ n \in Nat /\ Len(r) \in Nat /\ s \in Sessions /\ r \in Seq(Datagrams)
      /\ Ahead(s) \in {0, 1} /\ Ahead(t) \in {0, 1}
  BY <1>1, Counts
<1>3. QueueInv(c, t, r, n)
  BY <1>1, <1>2, StaysSound
<1>4. /\ r \o out \in Seq(Datagrams) /\ Len(r \o out) = Len(r) + Len(out)
      /\ QueueInv(c, t, r \o out, n)
      /\ Hope(c, out) => Hope(c, r \o out)
  BY <1>2, <1>3, PutBehind
<1> DEFINE both == r \o out
<1> HIDE DEF both
<1>5. Types(c, t, both, f, n)
  BY <1>1, <1>4 DEF Types, both
<1>6. StageInv(c, t, both)
  <2>1. StageInv(c, s, r)
    BY DEF Ready
  <2> QED
    BY <2>1 DEF StageInv
<1>7. TriesInv(c, both, f)
  <2>1. Spent(c, f)
    BY DEF Ready
  <2> QED
    BY <1>4, <2>1 DEF TriesInv, both
<1>8. CopyInv(t, both, f, n)
  <2>1. Len(r) <= f + n + Ahead(s)
    BY DEF Ready
  <2>2. Len(out) \in Nat /\ Len(both) = Len(r) + Len(out)
    BY <1>4, LenProperties DEF both
  <2> QED
    BY <1>2, <2>1, <2>2 DEF CopyInv
<1>9. QueueInv(c, t, both, n)
  BY <1>4 DEF both
<1> QED
  BY <1>5, <1>6, <1>7, <1>8, <1>9 DEF Ready, Parts, both

LEMMA RequestArrives ==
    ASSUME sc \in Scenarios, NEW c, NEW s, NEW r, NEW f, NEW n, Ready(c, s, r, f, n),
           c.pc = "request",
           NEW reply, reply = respondTftp(s, c.remote, Request)
    PROVE  Parts(c, reply.srv, r \o reply.out, f, n)
<1>1. /\ SessionInv(s) /\ StageInv(c, s, r) /\ Types(c, s, r, f, n)
  BY DEF Ready
<1>2. s \in Sessions /\ n \in Nat
  BY <1>1, Counts
<1>3. c.remote = "request" /\ Untouched(s)
  BY <1>1 DEF StageInv, Fresh
<1>4. /\ reply.srv \in Sessions /\ SessionInv(reply.srv) /\ Untouched(reply.srv)
      /\ s.open => reply.srv.open
      /\ reply.out \in Seq(Datagrams) /\ Len(reply.out) <= 1
      /\ QueueInv(c, reply.srv, reply.out, n)
      /\ sc.answer # "silent" => Hope(c, reply.out)
  BY <1>1, <1>2, <1>3, RespondRequest
<1>5. s.expected <= reply.srv.expected /\ Ahead(s) = 0 /\ Ahead(reply.srv) = 0
  BY <1>3, <1>4 DEF Untouched, Ahead
<1>6. PutInv(c, reply.srv) /\ UploadInv(c, reply.srv)
  BY DEF PutInv, UploadInv
<1>7. Len(reply.out) + Ahead(s) <= 1 + Ahead(reply.srv)
  BY <1>4, <1>5, LenProperties
<1> QED
  BY <1>4, <1>5, <1>6, <1>7, Arrived

LEMMA AckArrives ==
    ASSUME sc \in Scenarios, NEW c, NEW s, NEW r, NEW f, NEW n, Ready(c, s, r, f, n),
           sc.mode = "get", Granted, s.open,
           c.remote = "server", c.pc \notin {"start", "request"},
           NEW b \in 0..BlockModulus - 1, b = 0 \/ Within(b - 1),
           c.pc = "data" => b = c.block - 1,
           NEW reply, reply = respondTftp(s, c.remote, Ack(b))
    PROVE  Parts(c, reply.srv, r \o reply.out, f, n)
<1>1. /\ SessionInv(s) /\ StageInv(c, s, r) /\ Types(c, s, r, f, n) /\ GetInv(c)
  BY DEF Ready
<1>2. s \in Sessions /\ n \in Nat /\ c \in Clients
  BY <1>1, Counts
<1>3. /\ reply.srv \in Sessions /\ SessionInv(reply.srv) /\ reply.srv.open
      /\ reply.srv.expected = s.expected
      /\ reply.out \in Seq(Datagrams)
      /\ Len(reply.out) + Ahead(s) <= 1 + Ahead(reply.srv)
      /\ QueueInv(c, reply.srv, reply.out, n)
      /\ Within(b) => \E i \in 1..Len(reply.out) : reply.out[i] = DataPacket(b + 1)
  BY <1>1, <1>2, RespondAck
<1>4. s.expected <= reply.srv.expected
  BY <1>2, <1>3 DEF Sessions
<1>5. CASE c.pc = "data"
  <2>1. Within(b) /\ c.block = b + 1 /\ c.size = ServerBlock
    BY <1>1, <1>2, <1>5 DEF GetInv, StageInv, Clients
  <2>2. b + 1 \in 1..BlockModulus - 1 /\ b + 1 \in Nat \ {0}
    BY NextNumber
  <2>3. Useful(DataPacket(b + 1), c)
    <3>1. Len(BlockOf(b + 1, ServerBlock)) <= ServerBlock
      <4>1. Len(BlockOf(b + 1, ServerBlock)) \in 0..ServerBlock
        BY <2>2, Blocks
      <4> QED
        BY <4>1, Sizes
    <3>2. /\ DataPacket(b + 1).op = "data" /\ DataPacket(b + 1).block = b + 1
          /\ DataPacket(b + 1).data = BlockOf(b + 1, ServerBlock)
      BY <2>2, Packets
    <3> QED
      BY <1>5, <2>1, <3>1, <3>2 DEF Useful
  <2>4. Hope(c, reply.out)
    BY <1>3, <2>1, <2>3 DEF Hope
  <2> QED
    BY <1>3, <1>4, <1>5, <2>4, Arrived
<1>6. CASE c.pc # "data"
  BY <1>3, <1>4, <1>6, Arrived
<1> QED
  BY <1>5, <1>6

LEMMA DataArrives ==
    ASSUME sc \in Scenarios, NEW c, NEW s, NEW r, NEW f, NEW n, Ready(c, s, r, f, n),
           sc.mode = "put", c.pc = "data",
           NEW reply, reply = respondTftp(s, c.remote, Datagram("data", c.block, c.tx))
    PROVE  Parts(c, reply.srv, r \o reply.out, f, n)
<1> DEFINE b == c.block
<1>0. c.block = b /\ reply = respondTftp(s, c.remote, Datagram("data", b, c.tx))
  OBVIOUS
<1>1. /\ SessionInv(s) /\ StageInv(c, s, r) /\ Types(c, s, r, f, n) /\ PutInv(c, s)
  BY DEF Ready
<1>2. s \in Sessions /\ n \in Nat /\ c \in Clients
  BY <1>1, Counts
<1>3. Granted /\ s.open /\ c.remote = "server" /\ c.pc # "request"
  BY <1>1 DEF StageInv
<1>4. /\ b \in Nat \ {0} /\ b - 1 \in Nat /\ Within(b - 1)
      /\ s.expected \in {b, b + 1} /\ c.tx \in Seq(Nat)
      /\ c.final \in BOOLEAN
  BY <1>1, <1>2 DEF PutInv, Clients
<1> HIDE DEF b
<1>5. b \in 1..BlockModulus - 2
  <2>1. (b - 1) + 3 < BlockModulus
    BY <1>4, NoWrap
  <2> QED
    BY <1>4, <2>1, Sizes
<1>6. /\ reply.srv \in Sessions /\ SessionInv(reply.srv) /\ reply.srv.open
      /\ reply.srv.expected = b + 1 /\ reply.srv.reordered = s.reordered
      /\ Taken(s, b, c.tx, reply.srv)
      /\ s.expected = b + 1 => reply.srv = s
      /\ reply.out = <<Ack(b)>>
  <2>1. s.expected <= b + 1 /\ s.expected >= b
    BY <1>4
  <2> QED
    <3>1. SessionInv(s) /\ c.tx \in Seq(Nat)
      BY <1>1, <1>4
    <3> QED
      BY <1>0, <1>2, <1>3, <1>5, <2>1, <3>1, RespondData
<1>7. Ack(b) \in Datagrams /\ Sound(Ack(b), c, reply.srv, n)
  <2>1. Ack(b).op = "ack" /\ Ack(b).block = b /\ Ack(b) \in Datagrams
    <3>1. <<>> \in Seq(Nat) /\ b \in 0..BlockModulus - 1
      <4>1. b \in 0..BlockModulus - 1
        BY <1>5, Sizes
      <4> QED
        BY <4>1, EmptySeq
    <3> QED
      BY <3>1 DEF Ack, Datagram, Datagrams, Ops
  <2>2. b < reply.srv.expected
    BY <1>4, <1>6
  <2> QED
    BY <1>3, <1>6, <2>1, <2>2 DEF Sound
<1>8. /\ reply.out \in Seq(Datagrams) /\ Len(reply.out) = 1
      /\ 1 \in 1..Len(reply.out)
      /\ \A i \in 1..Len(reply.out) : reply.out[i] = Ack(b)
  <2>1. /\ <<Ack(b)>> \in Seq(Datagrams) /\ Len(<<Ack(b)>>) = 1
        /\ 1 \in 1..Len(<<Ack(b)>>)
        /\ \A i \in 1..Len(<<Ack(b)>>) : <<Ack(b)>>[i] = Ack(b)
    BY <1>7, OneElement
  <2> QED
    BY <1>6, <2>1, Zenon
<1>9. QueueInv(c, reply.srv, reply.out, n) /\ Hope(c, reply.out)
  <2>1. Useful(Ack(b), c)
    BY <1>0 DEF Useful, Ack, Datagram
  <2> QED
    BY <1>7, <1>8, <2>1 DEF QueueInv, Hope
<1>10. s.expected <= reply.srv.expected /\ Len(reply.out) + Ahead(s) <= 1 + Ahead(reply.srv)
  <2>1. Ahead(reply.srv) = Ahead(s) /\ Ahead(s) \in {0, 1}
    BY <1>6 DEF Ahead
  <2> QED
    <3>1. s.expected <= reply.srv.expected
      BY <1>4, <1>6
    <3>2. Len(reply.out) + Ahead(s) <= 1 + Ahead(reply.srv)
      BY <1>8, <2>1
    <3> QED
      BY <3>1, <3>2
<1>11. PutInv(c, reply.srv)
  BY <1>0, <1>1, <1>6 DEF PutInv
<1>12. ASSUME "put" \notin Noisy
       PROVE  UploadInv(c, reply.srv)
  <2>1. UploadInv(c, s)
    BY <1>12 DEF Ready
  <2>2. CASE s.expected = b + 1
    BY <1>6, <2>1, <2>2
  <2>3. CASE s.expected = b
    <3>1. s.chunks \o c.tx = Prefix(Reach(b))
      <4>1. s.chunks = Prefix((b - 1) * ServerBlock) /\ c.tx = BlockOf(b, ServerBlock)
        BY <1>0, <2>1, <2>3 DEF UploadInv
      <4> QED
        BY <1>4, <4>1, Grows
    <3>2. ASSUME c.final
          PROVE  reply.srv.upload = File
      <4>1. ~Within(b)
        BY <1>0, <1>1, <3>2 DEF PutInv
      <4>2. /\ IsShort(BlockOf(b, ServerBlock), ServerBlock) <=> ~Within(b)
            /\ Reach(b) = IF Within(b) THEN b * ServerBlock ELSE sc.len
        BY <1>4, Blocks
      <4>3. IsShort(c.tx, ServerBlock) /\ Reach(b) = sc.len
        BY <1>0, <2>1, <4>1, <4>2 DEF UploadInv
      <4> QED
        BY <1>6, <2>3, <3>1, <4>3, Prefixes DEF Taken
    <3>3. reply.srv.chunks = Prefix(Reach(b)) /\ reply.srv.expected = b + 1 /\ b + 1 # b
      BY <1>4, <1>6, <2>3, <3>1 DEF Taken
    <3> QED
      BY <1>0, <2>1, <3>2, <3>3 DEF UploadInv
  <2> QED
    BY <1>4, <2>2, <2>3
<1> QED
  BY <1>6, <1>8, <1>9, <1>10, <1>11, <1>12, Arrived

----------------------------------------------------------------------------
(* The scenario stays: a step is judged by its new values alone. *)

LEMMA SameRun ==
    ASSUME sc \in Scenarios, sc' = sc, Parts(cl', srv', rx', faults', noise')
    PROVE  IInv'
<1>1. /\ Types(cl, srv, rx, faults, noise)' = Types(cl', srv', rx', faults', noise')
      /\ StageInv(cl, srv, rx)' = StageInv(cl', srv', rx')
      /\ SessionInv(srv)' = SessionInv(srv')
  BY DEF Types, StageInv, SessionInv, Within, Granted, ServerBlock
<1>2. GetInv(cl)' = GetInv(cl') /\ PutInv(cl, srv)' = PutInv(cl', srv')
  BY DEF GetInv, PutInv, Within, Reach, Prefix, File, ServerBlock
<1>3. UploadInv(cl, srv)' = UploadInv(cl', srv')
  BY DEF UploadInv, BlockOf, Prefix, Reach, File, ServerBlock
<1>4. QueueInv(cl, srv, rx, noise)' = QueueInv(cl', srv', rx', noise')
  BY DEF QueueInv, Sound, BlockOf, File, ServerBlock, Granted
<1>5. TriesInv(cl, rx, faults)' = TriesInv(cl', rx', faults')
  BY DEF TriesInv, Spent, Hope, Useful
<1>6. /\ WhyInv(cl, faults, noise)' = WhyInv(cl', faults', noise')
      /\ CopyInv(srv, rx, faults, noise)' = CopyInv(srv', rx', faults', noise')
  BY DEF WhyInv, CopyInv
<1> QED
  BY <1>1, <1>2, <1>3, <1>4, <1>5, <1>6 DEF IInv, Parts

\* A send the driver took, whether it arrives or is lost.
LEMMA SendStep ==
    ASSUME sc \in Scenarios, noise \in Nat, NEW c, NEW r, NEW dg, NEW cost,
           faults \in Nat, cost \in {0, 1}, MaxFaults \in Nat,
           Sent(c, r, dg, cost), Ready(c, srv, r, faults + cost, noise),
           \A reply : reply = respondTftp(srv, c.remote, dg) =>
                          Parts(c, reply.srv, r \o reply.out, faults + cost, noise)
    PROVE  IInv'
<1>1. sc' = sc /\ cl' = c /\ noise' = noise
  BY DEF Sent
<1>2. CASE \E s \in {respondTftp(srv, c.remote, dg)} :
               srv' = s.srv /\ rx' = r \o s.out /\ faults' = faults + cost
  BY <1>1, <1>2, SameRun
<1>3. CASE faults + cost < MaxFaults /\ faults' = faults + cost + 1 /\ rx' = r /\ srv' = srv
  <2>1. Parts(c, srv, r, faults + cost + 1, noise)
    BY <1>3, Lost
  <2> QED
    BY <1>1, <1>3, <2>1, SameRun
<1> QED
  BY <1>2, <1>3 DEF Sent

----------------------------------------------------------------------------
(* Steps that send nothing. *)

LEMMA Given ==
    ASSUME IInv
    PROVE  /\ sc \in Scenarios
           /\ faults \in Nat /\ faults <= MaxFaults /\ noise \in Nat /\ noise <= MaxNoise
           /\ MaxFaults \in Nat /\ MaxNoise \in Nat
           /\ StateSends \in Nat \ {0} /\ cl.tries \in Nat
           /\ cl \in Clients /\ srv \in Sessions
           /\ rx \in Seq(Datagrams) /\ Len(rx) \in Nat
           /\ \A t : Ahead(t) \in {0, 1}
           /\ sc.mode \in {"get", "put"}
           /\ Len(cl.buffer) <= FileCapacity /\ Len(cl.disk) <= sc.room
           /\ Len(cl.tx) <= cl.size
<1>1. sc \in Scenarios /\ Types(cl, srv, rx, faults, noise)
  BY DEF IInv, Parts
<1>2. noise <= MaxNoise /\ MaxNoise \in Nat /\ StateSends \in Nat \ {0}
  BY <1>1, TftpAssumption DEF Types
<1>3. sc.mode \in {"get", "put"}
  BY <1>1, TftpAssumption DEF Scenarios
<1> QED
  BY <1>1, <1>2, <1>3, Counts DEF Types

LEMMA HeadRead ==
    ASSUME IInv, rx # <<>>
    PROVE  /\ Head(rx) \in Datagrams /\ Sound(Head(rx), cl, srv, noise)
           /\ Tail(rx) \in Seq(Datagrams) /\ Len(Tail(rx)) = Len(rx) - 1
           /\ QueueInv(cl, srv, Tail(rx), noise)
           /\ Hope(cl, rx) => Hope(cl, Tail(rx)) \/ Useful(Head(rx), cl)
           /\ Len(Tail(rx)) <= faults + noise + Ahead(srv)
           /\ CopyInv(srv, Tail(rx), faults, noise)
<1>1. QueueInv(cl, srv, rx, noise) /\ CopyInv(srv, rx, faults, noise)
  BY DEF IInv, Parts
<1>2. /\ Head(rx) \in Datagrams /\ Sound(Head(rx), cl, srv, noise)
      /\ Tail(rx) \in Seq(Datagrams) /\ Len(Tail(rx)) = Len(rx) - 1
      /\ QueueInv(cl, srv, Tail(rx), noise)
      /\ Hope(cl, rx) => Hope(cl, Tail(rx)) \/ Useful(Head(rx), cl)
  BY <1>1, Given, ReadHead
<1>3. /\ Len(Tail(rx)) <= faults + noise + Ahead(srv)
      /\ CopyInv(srv, Tail(rx), faults, noise)
  <2>1. Ahead(srv) \in {0, 1} /\ faults \in Nat /\ noise \in Nat /\ Len(rx) \in Nat
    BY Given
  <2> QED
    BY <1>1, <1>2, <2>1 DEF CopyInv
<1> QED
  BY <1>2, <1>3

\* The frame read ends the program.
LEMMA EndStep ==
    ASSUME IInv, rx # <<>>, NEW c \in Clients,
           Len(c.buffer) <= FileCapacity, Len(c.disk) <= sc.room, Len(c.tx) <= c.size,
           c.pc \in {"ok", "failed"}, ReadAs(c), WhyInv(c, faults, noise),
           sc.mode = "get" => GetInv(c),
           sc.mode = "put" /\ "put" \notin Noisy => UploadInv(c, srv)
    PROVE  IInv'
<1>1. sc' = sc /\ cl' = c /\ srv' = srv /\ rx' = Tail(rx) /\ faults' = faults /\ noise' = noise
  BY DEF ReadAs
<1>2. Parts(cl, srv, rx, faults, noise)
  BY DEF IInv
<1>3. Types(c, srv, Tail(rx), faults, noise)
  BY <1>2, HeadRead DEF Parts, Types
<1>4. QueueInv(c, srv, Tail(rx), noise)
  <2>1. c.pc # "request"
    OBVIOUS
  <2>2. srv.expected <= srv.expected /\ noise <= noise
    BY Given, SMTT(30) DEF Sessions
  <2> QED
    BY <2>1, <2>2, Given, HeadRead, StaysSound
<1>5. /\ StageInv(c, srv, Tail(rx)) /\ PutInv(c, srv) /\ TriesInv(c, Tail(rx), faults)
  BY DEF StageInv, PutInv, TriesInv, Spent
<1>6. CopyInv(srv, Tail(rx), faults, noise)
  BY HeadRead
<1>7. Parts(c, srv, Tail(rx), faults, noise)
  BY <1>2, <1>3, <1>4, <1>5, <1>6 DEF Parts
<1> QED
  BY <1>1, <1>7, Given, SameRun

\* A driver error ends the program wherever the client was with its block.
LEMMA FailStep ==
    ASSUME IInv, NEW c \in Clients, NEW r, NEW cost \in {0, 1}, SendFails(c, r, cost),
           Len(c.buffer) <= FileCapacity, Len(c.disk) <= sc.room, Len(c.tx) <= c.size,
           r = rx \/ (rx # <<>> /\ r = Tail(rx))
    PROVE  IInv'
<1> DEFINE d == Fail(c, "network")
           f == faults + cost + 1
<1>1. /\ cl' = d /\ rx' = r /\ faults' = f /\ sc' = sc /\ srv' = srv /\ noise' = noise
      /\ faults + cost < MaxFaults
  BY DEF SendFails
<1>2. /\ d \in Clients /\ d.pc = "failed" /\ d.why = "network"
      /\ d.disk = c.disk /\ d.buffer = c.buffer /\ d.tx = c.tx /\ d.size = c.size
  BY DEF Fail, Clients
<1>3. f \in 0..MaxFaults /\ f > 0 /\ f >= faults
  BY <1>1, Given
<1> HIDE DEF d, f
<1>4. Parts(cl, srv, rx, faults, noise)
  BY DEF IInv
<1>5. r \in Seq(Datagrams) /\ QueueInv(cl, srv, r, noise) /\ CopyInv(srv, r, faults, noise)
  BY <1>4, Given, HeadRead DEF Parts
<1>6. Types(d, srv, r, f, noise)
  BY <1>2, <1>3, <1>4, <1>5 DEF Parts, Types
<1>7. QueueInv(d, srv, r, noise)
  BY <1>2, <1>5 DEF QueueInv, Sound
<1>8. /\ StageInv(d, srv, r) /\ GetInv(d) /\ PutInv(d, srv) /\ UploadInv(d, srv)
      /\ TriesInv(d, r, f)
  BY <1>2 DEF StageInv, GetInv, PutInv, UploadInv, TriesInv, Spent
<1>9. WhyInv(d, f, noise)
  BY <1>2, <1>3 DEF WhyInv
<1>10. CopyInv(srv, r, f, noise)
  <2>1. Len(r) \in Nat /\ Ahead(srv) \in {0, 1} /\ faults \in Nat /\ noise \in Nat /\ f \in Nat
    BY <1>3, <1>5, Given, LenProperties
  <2> QED
    BY <1>3, <1>5, <2>1 DEF CopyInv
<1>11. Parts(d, srv, r, f, noise)
  BY <1>4, <1>6, <1>7, <1>8, <1>9, <1>10 DEF Parts
<1> QED
  BY <1>1, <1>11, Given, SameRun

\* The frame read is none the state waits for; at most it changed the frame buffer.
LEMMA StayStep ==
    ASSUME IInv, rx # <<>>, Waiting, cl.pc = "dally" \/ ~Useful(Head(rx), cl),
           NEW c, ReadAs(c), NEW tx \in Seq(Nat), c = [cl EXCEPT !.tx = tx],
           Len(tx) = Len(cl.tx), cl.tx = <<>> => tx = <<>>,
           tx # cl.tx => sc.mode \in Noisy
    PROVE  IInv'
<1>1. sc' = sc /\ cl' = c /\ srv' = srv /\ rx' = Tail(rx) /\ faults' = faults /\ noise' = noise
  BY DEF ReadAs
<1>2. Parts(cl, srv, rx, faults, noise)
  BY DEF IInv
<1>3. /\ c \in Clients /\ c.tx = tx
      /\ c.pc = cl.pc /\ c.why = cl.why /\ c.remote = cl.remote /\ c.tries = cl.tries
      /\ c.size = cl.size /\ c.block = cl.block /\ c.final = cl.final
      /\ c.disk = cl.disk /\ c.buffer = cl.buffer /\ c.position = cl.position
      /\ c.pc \in {"request", "data", "dally"}
  BY Given DEF Clients, Waiting
<1>4. Types(c, srv, Tail(rx), faults, noise)
  BY <1>2, <1>3, HeadRead DEF Parts, Types
<1>5. QueueInv(c, srv, Tail(rx), noise)
  BY <1>3, HeadRead DEF QueueInv, Sound
<1>6. StageInv(c, srv, Tail(rx))
  <2>1. StageInv(cl, srv, rx)
    BY <1>2 DEF Parts
  <2>2. c.pc = "request" => c = [Fresh EXCEPT !.pc = "request", !.tries = c.tries]
    <3> SUFFICES ASSUME c.pc = "request"
                 PROVE  c = [Fresh EXCEPT !.pc = "request", !.tries = c.tries]
      OBVIOUS
    <3>1. cl = [Fresh EXCEPT !.pc = "request", !.tries = cl.tries]
      BY <1>3, <2>1 DEF StageInv
    <3>2. cl.tx = <<>>
      BY <3>1 DEF Fresh
    <3>3. c = cl
      BY <3>2, <1>3, Given DEF Clients
    <3> QED
      BY <3>1, <3>3
  <2> QED
    BY <1>3, <2>1, <2>2 DEF StageInv
<1>7. /\ sc.mode = "get" => GetInv(c)
      /\ sc.mode = "put" => PutInv(c, srv)
      /\ WhyInv(c, faults, noise)
  BY <1>2, <1>3 DEF Parts, GetInv, PutInv, WhyInv
<1>8. sc.mode = "put" /\ "put" \notin Noisy => UploadInv(c, srv)
  BY <1>2, <1>3 DEF Parts, UploadInv
<1>9. TriesInv(c, Tail(rx), faults)
  <2>1. TriesInv(cl, rx, faults)
    BY <1>2 DEF Parts
  <2>2. Hope(cl, rx) /\ cl.pc # "dally" => Hope(c, Tail(rx))
    <3>1. \A i \in 1..Len(Tail(rx)) : Useful(Tail(rx)[i], cl) => Useful(Tail(rx)[i], c)
      BY <1>3 DEF Useful
    <3>2. Hope(cl, Tail(rx)) => Hope(c, Tail(rx))
      BY <3>1 DEF Hope
    <3> QED
      BY <3>2, HeadRead
  <2> QED
    BY <1>3, <2>1, <2>2 DEF TriesInv, Spent
<1>10. CopyInv(srv, Tail(rx), faults, noise)
  BY HeadRead
<1>11. Parts(c, srv, Tail(rx), faults, noise)
  BY <1>2, <1>4, <1>5, <1>6, <1>7, <1>8, <1>9, <1>10 DEF Parts
<1> QED
  BY <1>1, <1>11, Given, SameRun

\* Whatever happens to a datagram in the card counts as a fault.
LEMMA DisturbStep ==
    ASSUME IInv, NEW queue \in Seq(Datagrams), Disturb(queue),
           QueueInv(cl, srv, queue, noise), Len(queue) <= Len(rx) + 1
    PROVE  IInv'
<1>1. /\ sc' = sc /\ cl' = cl /\ srv' = srv /\ rx' = queue /\ faults' = faults + 1
      /\ noise' = noise /\ Waiting /\ faults < MaxFaults
  BY DEF Disturb
<1>2. Parts(cl, srv, rx, faults, noise)
  BY DEF IInv
<1>3. faults + 1 \in 0..MaxFaults
  BY <1>1, Given
<1>4. Types(cl, srv, queue, faults + 1, noise)
  BY <1>2, <1>3 DEF Parts, Types
<1>5. StageInv(cl, srv, queue)
  BY <1>1, <1>2 DEF Parts, StageInv, Waiting
<1>6. TriesInv(cl, queue, faults + 1)
  <2>1. Spent(cl, faults)
    BY <1>2 DEF Parts, TriesInv
  <2> QED
    BY <2>1, Given DEF TriesInv, Spent
<1>7. WhyInv(cl, faults + 1, noise)
  <2>1. WhyInv(cl, faults, noise)
    BY <1>2 DEF Parts
  <2> QED
    BY <2>1, Given DEF WhyInv
<1>8. CopyInv(srv, queue, faults + 1, noise)
  <2>1. Len(rx) <= 1 + faults + noise + Ahead(srv)
    BY <1>2 DEF Parts, CopyInv
  <2>2. Len(queue) \in Nat /\ Ahead(srv) \in {0, 1} /\ faults \in Nat /\ noise \in Nat
        /\ Len(rx) \in Nat
    BY Given, LenProperties
  <2> QED
    BY <2>1, <2>2 DEF CopyInv
<1>9. Parts(cl, srv, queue, faults + 1, noise)
  BY <1>2, <1>4, <1>5, <1>6, <1>7, <1>8 DEF Parts
<1> QED
  BY <1>1, <1>9, Given, SameRun

LEMMA DisturbSteps ==
    ASSUME IInv, LoseAnswer \/ Duplicate \/ Overtake
    PROVE  IInv'
<1>1. /\ rx \in Seq(Datagrams) /\ Len(rx) \in Nat /\ QueueInv(cl, srv, rx, noise)
  BY Given DEF IInv, Parts
<1>2. CASE LoseAnswer
  <2>1. rx # <<>> /\ Disturb(Tail(rx))
    BY <1>2 DEF LoseAnswer
  <2>2. Tail(rx) \in Seq(Datagrams) /\ QueueInv(cl, srv, Tail(rx), noise)
        /\ Len(Tail(rx)) = Len(rx) - 1
    BY <2>1, HeadRead
  <2>3. Len(Tail(rx)) <= Len(rx) + 1
    BY <1>1, <2>2
  <2> QED
    BY <2>1, <2>2, <2>3, DisturbStep
<1>3. CASE Duplicate
  <2> DEFINE queue == <<Head(rx)>> \o rx
  <2>1. rx # <<>> /\ Disturb(queue)
    BY <1>3 DEF Duplicate
  <2>2. Head(rx) \in Datagrams /\ Sound(Head(rx), cl, srv, noise)
    BY <2>1, HeadRead
  <2>3. /\ <<Head(rx)>> \in Seq(Datagrams) /\ Len(<<Head(rx)>>) = 1
        /\ \A i \in 1..Len(<<Head(rx)>>) : <<Head(rx)>>[i] = Head(rx)
    BY <2>2, OneElement
  <2>4. QueueInv(cl, srv, <<Head(rx)>>, noise)
    BY <2>2, <2>3 DEF QueueInv
  <2> DEFINE one == <<Head(rx)>>
  <2>5. /\ queue \in Seq(Datagrams) /\ Len(queue) = Len(<<Head(rx)>>) + Len(rx)
        /\ QueueInv(cl, srv, queue, noise)
    <3>1. one \in Seq(Datagrams) /\ QueueInv(cl, srv, one, noise)
      BY <2>3, <2>4
    <3> HIDE DEF one
    <3>2. one \o rx \in Seq(Datagrams) /\ Len(one \o rx) = Len(one) + Len(rx)
      BY <1>1, <3>1, ConcatProperties
    <3>3. QueueInv(cl, srv, one \o rx, noise)
      BY <1>1, <3>1, PutBehind
    <3> QED
      BY <3>2, <3>3 DEF one
  <2> HIDE DEF queue
  <2>6. Len(queue) <= Len(rx) + 1
    BY <1>1, <2>3, <2>5
  <2> QED
    BY <2>1, <2>5, <2>6, DisturbStep
<1>4. CASE Overtake
  <2> DEFINE first == <<rx[2], rx[1]>>
             rest == SubSeq(rx, 3, Len(rx))
             queue == first \o rest
  <2>1. Len(rx) > 1 /\ Disturb(queue)
    BY <1>4 DEF Overtake
  <2>2. /\ rx[1] \in Datagrams /\ Sound(rx[1], cl, srv, noise)
        /\ rx[2] \in Datagrams /\ Sound(rx[2], cl, srv, noise)
    <3>1. 1 \in 1..Len(rx) /\ 2 \in 1..Len(rx)
      BY <1>1, <2>1
    <3> QED
      BY <1>1, <3>1, ElementOfSeq DEF QueueInv
  <2>3. /\ first \in Seq(Datagrams) /\ Len(first) = 2
        /\ first[1] = rx[2] /\ first[2] = rx[1]
    BY <2>2, TwoElements
  <2>4. /\ rest \in Seq(Datagrams) /\ Len(rest) = IF 3 <= Len(rx) THEN Len(rx) - 3 + 1 ELSE 0
        /\ \A i \in 1..Len(rx) - 3 + 1 : rest[i] = rx[3 + i - 1]
    <3>1. \A i \in 3..Len(rx) : rx[i] \in Datagrams
      BY <1>1, ElementOfSeq
    <3> QED
      BY <1>1, <3>1, SubSeqProperties
  <2> HIDE DEF first, rest
  <2>5. QueueInv(cl, srv, first, noise)
    <3>1. \A i \in 1..Len(first) : i = 1 \/ i = 2
      BY <2>3
    <3> QED
      BY <2>2, <2>3, <3>1 DEF QueueInv
  <2>6. QueueInv(cl, srv, rest, noise)
    <3>1. \A i \in 1..Len(rest) : 3 + i - 1 \in 1..Len(rx) /\ rest[i] = rx[3 + i - 1]
      BY <1>1, <2>4
    <3> QED
      BY <1>1, <3>1 DEF QueueInv
  <2>7. /\ queue \in Seq(Datagrams) /\ Len(queue) = Len(first) + Len(rest)
        /\ QueueInv(cl, srv, queue, noise)
    <3>1. first \o rest \in Seq(Datagrams) /\ Len(first \o rest) = Len(first) + Len(rest)
      BY <2>3, <2>4, ConcatProperties
    <3>2. QueueInv(cl, srv, first \o rest, noise)
      BY <2>3, <2>4, <2>5, <2>6, PutBehind
    <3> QED
      BY <3>1, <3>2
  <2> HIDE DEF queue
  <2>8. Len(queue) <= Len(rx) + 1
    BY <1>1, <2>1, <2>3, <2>4, <2>7
  <2> QED
    BY <2>1, <2>7, <2>8, DisturbStep
<1> QED
  BY <1>2, <1>3, <1>4

LEMMA OtherHostStep ==
    ASSUME IInv, OtherHost
    PROVE  IInv'
<1>1. PICK op \in {"host", "stranger", "unreachable"} : rx' = <<Datagram(op, 0, <<>>)>> \o rx
  BY DEF OtherHost
<1>2. /\ sc' = sc /\ cl' = cl /\ srv' = srv /\ faults' = faults /\ noise' = noise + 1
      /\ Waiting /\ sc.mode \in Noisy /\ noise < MaxNoise
  BY DEF OtherHost
<1> DEFINE dg == Datagram(op, 0, <<>>)
           queue == <<dg>> \o rx
<1>3. Parts(cl, srv, rx, faults, noise) /\ QueueInv(cl, srv, rx, noise)
  BY DEF IInv, Parts
<1>4. dg \in Datagrams /\ dg.op = op
  <2>1. <<>> \in Seq(Nat) /\ 0 \in 0..BlockModulus - 1
    BY Given, FirstNumbers, EmptySeq
  <2> QED
    BY <2>1 DEF Datagram, Datagrams, Ops
<1> HIDE DEF dg
<1>5. noise + 1 \in 0..MaxNoise /\ noise + 1 \in Nat /\ noise + 1 > 0 /\ noise <= noise + 1
  BY <1>2, Given
<1>6. Sound(dg, cl, srv, noise + 1)
  BY <1>2, <1>4, <1>5 DEF Sound
<1>7. /\ <<dg>> \in Seq(Datagrams) /\ Len(<<dg>>) = 1
      /\ \A i \in 1..Len(<<dg>>) : <<dg>>[i] = dg
  BY <1>4, OneElement
<1>8. QueueInv(cl, srv, <<dg>>, noise + 1)
  BY <1>6, <1>7 DEF QueueInv
<1>9. QueueInv(cl, srv, rx, noise + 1)
  <2>1. srv.expected <= srv.expected
    BY Given DEF Sessions
  <2> QED
    BY <1>3, <1>5, <2>1, Given, StaysSound
<1>10. /\ queue \in Seq(Datagrams) /\ Len(queue) = Len(<<dg>>) + Len(rx)
       /\ QueueInv(cl, srv, queue, noise + 1)
       /\ Hope(cl, rx) => Hope(cl, queue)
  <2> DEFINE one == <<dg>>
  <2>1. one \in Seq(Datagrams) /\ QueueInv(cl, srv, one, noise + 1)
    BY <1>7, <1>8
  <2>2. rx \in Seq(Datagrams)
    BY Given
  <2> HIDE DEF one
  <2>3. one \o rx \in Seq(Datagrams) /\ Len(one \o rx) = Len(one) + Len(rx)
    BY <2>1, <2>2, ConcatProperties
  <2>4. QueueInv(cl, srv, one \o rx, noise + 1) /\ (Hope(cl, rx) => Hope(cl, one \o rx))
    BY <1>9, <2>1, <2>2, PutBehind
  <2> QED
    BY <2>3, <2>4 DEF one
<1>11. rx' = queue
  BY <1>1 DEF dg
<1> HIDE DEF queue
<1>12. Types(cl, srv, queue, faults, noise + 1)
  BY <1>3, <1>5, <1>10 DEF Parts, Types
<1>13. StageInv(cl, srv, queue)
  BY <1>2, <1>3 DEF Parts, StageInv, Waiting
<1>14. TriesInv(cl, queue, faults)
  BY <1>3, <1>10 DEF Parts, TriesInv
<1>15. WhyInv(cl, faults, noise + 1)
  BY <1>3, <1>5 DEF Parts, WhyInv
<1>16. CopyInv(srv, queue, faults, noise + 1)
  <2>1. Len(rx) <= 1 + faults + noise + Ahead(srv)
    BY <1>3 DEF Parts, CopyInv
  <2>2. Ahead(srv) \in {0, 1} /\ faults \in Nat /\ noise \in Nat /\ Len(rx) \in Nat
    BY Given
  <2> QED
    BY <1>7, <1>10, <2>1, <2>2 DEF CopyInv
<1>17. Parts(cl, srv, queue, faults, noise + 1)
  BY <1>3, <1>10, <1>12, <1>13, <1>14, <1>15, <1>16 DEF Parts
<1> QED
  BY <1>2, <1>11, <1>17, Given, SameRun

LEMMA Smears ==
    ASSUME NEW tx \in Seq(Nat)
    PROVE  Smeared(tx) \in Seq(Nat) /\ Len(Smeared(tx)) = Len(tx)
<1>1. CASE tx = <<>>
  BY <1>1 DEF Smeared
<1>2. CASE tx # <<>>
  <2>1. 1 \in 1..Len(tx)
    BY <1>2, EmptySeq
  <2>2. Smeared(tx) = [tx EXCEPT ![1] = Junk] /\ Junk \in Nat
    BY <1>2 DEF Smeared, Junk
  <2> QED
    BY <2>1, <2>2, ExceptSeq
<1> QED
  BY <1>1, <1>2

\* Requests of other hosts are answered, datagrams of another state dropped.
LEMMA NoiseSteps ==
    ASSUME IInv, AnswerHost \/ AnswerStranger \/ Ignore
    PROVE  IInv'
<1>1. cl \in Clients /\ cl.tx \in Seq(Nat) /\ sc.mode \in {"get", "put"}
  BY Given DEF Clients
<1>2. cl = [cl EXCEPT !.tx = cl.tx]
  BY <1>1 DEF Clients
<1>3. /\ Smeared(cl.tx) \in Seq(Nat) /\ Len(Smeared(cl.tx)) = Len(cl.tx)
      /\ cl.tx = <<>> => Smeared(cl.tx) = <<>>
  BY <1>1, Smears DEF Smeared
<1>4. ASSUME Waiting, Received("host") \/ Received("stranger"),
             NEW c, ReadAs(c), c = cl \/ c = [cl EXCEPT !.tx = Smeared(cl.tx)]
      PROVE  IInv'
  <2>1. rx # <<>> /\ Head(rx).op \in {"host", "stranger"}
    BY <1>4 DEF Received
  <2>2. sc.mode \in Noisy
    BY <2>1, HeadRead DEF Sound
  <2>3. ~Useful(Head(rx), cl)
    BY <2>1 DEF Useful
  <2> QED
    BY <1>1, <1>2, <1>3, <1>4, <2>1, <2>2, <2>3, StayStep
<1>5. CASE AnswerHost
  BY <1>4, <1>5 DEF AnswerHost
<1>6. CASE AnswerStranger
  BY <1>4, <1>6 DEF AnswerStranger, SendError
<1>7. CASE Ignore
  <2>1. Ignored /\ ReadAs(cl)
    BY <1>7 DEF Ignore
  <2>2. rx # <<>> /\ Waiting
    BY <2>1 DEF Ignored, Received, Waiting
  <2>3. cl.pc = "dally" \/ ~Useful(Head(rx), cl)
    <3>1. CASE cl.pc = "request"
      <4> DEFINE dg == Head(rx)
                 long == Len(dg.data) > DefaultBlock
      <4>1. \/ sc.mode = "get" /\ dg.op = "ack"
            \/ sc.mode = "get" /\ dg.op = "data" /\ (dg.block # 1 \/ long)
            \/ sc.mode = "put" /\ dg.op = "data"
            \/ sc.mode = "put" /\ dg.op = "ack" /\ dg.block # 0
        BY <2>1, <3>1 DEF Ignored, Received
      <4>2. long => ~(Len(dg.data) <= DefaultBlock)
        <5>1. Len(dg.data) \in Nat /\ DefaultBlock \in Nat
          BY <2>2, HeadRead, LenProperties, TftpAssumption DEF Datagrams
        <5> QED
          BY <5>1
      <4> HIDE DEF dg, long
      <4>3. ~Useful(dg, cl)
        BY <3>1, <4>1, <4>2 DEF Useful
      <4> QED
        BY <4>3 DEF dg
    <3>2. CASE cl.pc = "data"
      BY <1>1, <2>1, <2>2, <3>2 DEF Ignored, Received, Useful, ExpectedBlock, CurrentAck
    <3> QED
      BY <2>2, <3>1, <3>2 DEF Waiting
  <2> QED
    BY <1>1, <1>2, <2>1, <2>2, <2>3, StayStep
<1> QED
  BY <1>5, <1>6, <1>7

\* A refusal is the server's, an ICMP error another host's.
LEMMA RefusedSteps ==
    ASSUME IInv, Refused \/ Unreachable
    PROVE  IInv'
<1>1. /\ cl \in Clients /\ sc.mode \in {"get", "put"}
      /\ Len(cl.buffer) <= FileCapacity /\ Len(cl.disk) <= sc.room
      /\ Len(cl.tx) <= cl.size
  BY Given
<1>2. /\ WhyInv(cl, faults, noise) /\ StageInv(cl, srv, rx)
      /\ sc.mode = "get" => GetInv(cl)
  BY DEF IInv, Parts
<1>3. ASSUME NEW why \in {"remote", "unreachable"}, rx # <<>>, ReadAs(Fail(cl, why)),
             why = "remote" => sc.answer \in {"badOack", "error"},
             why = "unreachable" => noise > 0
      PROVE  IInv'
  <2> DEFINE c == Fail(cl, why)
  <2>1. /\ c \in Clients /\ c.pc = "failed" /\ c.why = why
        /\ c.disk = cl.disk /\ c.buffer = cl.buffer /\ c.tx = cl.tx /\ c.size = cl.size
    BY <1>1 DEF Fail, Clients
  <2> HIDE DEF c
  <2>2. WhyInv(c, faults, noise) /\ GetInv(c) /\ UploadInv(c, srv)
    BY <1>3, <2>1 DEF WhyInv, GetInv, UploadInv
  <2>3. ReadAs(c)
    BY <1>3 DEF c
  <2> QED
    BY <1>1, <1>3, <2>1, <2>2, <2>3, EndStep
<1>4. CASE Refused
  <2>1. rx # <<>> /\ Head(rx).op \in {"error", "badOack"} /\ ReadAs(Fail(cl, "remote"))
    BY <1>4 DEF Refused, Received
  <2>2. sc.answer \in {"error", "badOack"}
    BY <2>1, HeadRead DEF Sound
  <2> QED
    BY <1>3, <2>1, <2>2
<1>5. CASE Unreachable
  <2>1. rx # <<>> /\ Head(rx).op = "unreachable" /\ Waiting
    BY <1>5 DEF Unreachable, Received
  <2>2. noise > 0
    BY <2>1, HeadRead DEF Sound
  <2>3. CASE cl.pc = "dally"
    <3> DEFINE c == [cl EXCEPT !.pc = "ok"]
    <3>1. /\ c \in Clients /\ c.pc = "ok" /\ c.why = cl.why
          /\ c.disk = cl.disk /\ c.buffer = cl.buffer /\ c.tx = cl.tx /\ c.size = cl.size
      BY <1>1 DEF Clients
    <3>2. ReadAs(c)
      BY <1>5, <2>3 DEF Unreachable
    <3> HIDE DEF c
    <3>3. sc.mode = "get" /\ WhyInv(c, faults, noise) /\ GetInv(c)
      BY <1>2, <2>3, <3>1 DEF StageInv, WhyInv, GetInv
    <3> QED
      BY <1>1, <2>1, <3>1, <3>2, <3>3, EndStep
  <2>4. CASE cl.pc # "dally"
    BY <1>3, <1>5, <2>1, <2>2, <2>4 DEF Unreachable
  <2> QED
    BY <2>3, <2>4
<1> QED
  BY <1>4, <1>5

LEMMA DallyEnds ==
    ASSUME IInv, cl.pc = "dally"
    PROVE  Parts([cl EXCEPT !.pc = "ok"], srv, rx, faults, noise)
<1> DEFINE c == [cl EXCEPT !.pc = "ok"]
<1>2. /\ c \in Clients /\ c.pc = "ok" /\ c.why = cl.why
      /\ c.disk = cl.disk /\ c.buffer = cl.buffer /\ c.tx = cl.tx /\ c.size = cl.size
  BY Given DEF Clients
<1> HIDE DEF c
<1>3. Parts(cl, srv, rx, faults, noise)
  BY DEF IInv
<1>4. sc.mode = "get"
  BY <1>3 DEF Parts, StageInv
<1>5. Types(c, srv, rx, faults, noise) /\ StageInv(c, srv, rx) /\ WhyInv(c, faults, noise)
  BY <1>2, <1>3 DEF Parts, Types, StageInv, WhyInv
<1>6. GetInv(c)
  BY <1>2, <1>3, <1>4 DEF Parts, GetInv
<1>7. QueueInv(c, srv, rx, noise) /\ TriesInv(c, rx, faults)
  BY <1>2, <1>3 DEF Parts, QueueInv, Sound, TriesInv, Spent
<1>8. Parts(c, srv, rx, faults, noise)
  BY <1>3, <1>4, <1>5, <1>6, <1>7 DEF Parts
<1> QED
  BY <1>8 DEF c

LEMMA DallyStep ==
    ASSUME IInv, DallyOver
    PROVE  IInv'
<1>1. /\ cl.pc = "dally" /\ cl' = [cl EXCEPT !.pc = "ok"]
      /\ sc' = sc /\ srv' = srv /\ rx' = rx /\ faults' = faults /\ noise' = noise
  BY DEF DallyOver
<1> QED
  BY <1>1, Given, DallyEnds, SameRun

----------------------------------------------------------------------------
(* The request and the repeated sends. *)

LEMMA StartStep ==
    ASSUME IInv, Start
    PROVE  IInv'
<1> DEFINE c == [cl EXCEPT !.pc = "request", !.tries = StateSends]
<1>1. cl.pc = "start" /\ (Sent(c, rx, Request, 0) \/ SendFails(cl, rx, 0))
  BY DEF Start, SendFrom
<1>2. Parts(cl, srv, rx, faults, noise)
  BY DEF IInv
<1>3. cl = Fresh /\ srv = Session /\ rx = <<>>
  BY <1>1, <1>2 DEF Parts, StageInv
<1>4. /\ c.pc = "request" /\ c.tries = StateSends /\ c \in Clients
      /\ c = [Fresh EXCEPT !.pc = "request", !.tries = c.tries] /\ c.why = cl.why
      /\ c.disk = cl.disk /\ c.buffer = cl.buffer /\ c.tx = cl.tx /\ c.size = cl.size
  <2>1. StateSends \in 0..StateSends
    BY Given
  <2>2. /\ c \in Clients /\ c.pc = "request" /\ c.tries = StateSends /\ c.why = cl.why
        /\ c.disk = cl.disk /\ c.buffer = cl.buffer /\ c.tx = cl.tx /\ c.size = cl.size
    BY <2>1, Given DEF Clients
  <2>3. c = [Fresh EXCEPT !.pc = "request", !.tries = c.tries]
    BY <1>3, <2>2
  <2> HIDE DEF c
  <2> QED
    BY <2>2, <2>3
<1> HIDE DEF c
<1>5. Untouched(srv)
  BY <1>3 DEF Untouched, Session
<1>6. Types(c, srv, rx, faults, noise)
  BY <1>2, <1>4 DEF Parts, Types
<1>7. StageInv(c, srv, rx)
  <2>1. StateSends >= 1
    BY Given
  <2> QED
    BY <1>4, <1>5, <2>1 DEF StageInv
<1>8. GetInv(c) /\ PutInv(c, srv) /\ UploadInv(c, srv)
  BY <1>4 DEF GetInv, PutInv, UploadInv
<1>9. QueueInv(c, srv, rx, noise) /\ Len(rx) = 0
  BY <1>3, EmptySeq DEF QueueInv
<1>10. Spent(c, faults) /\ Len(rx) <= faults + noise + Ahead(srv)
  <2>1. faults \in Nat /\ noise \in Nat /\ StateSends \in Nat /\ Ahead(srv) \in {0, 1}
    BY Given
  <2> QED
    BY <1>4, <1>9, <2>1 DEF Spent
<1>11. WhyInv(c, faults, noise)
  BY <1>1, <1>2, <1>4 DEF Parts, WhyInv
<1>12. Ready(c, srv, rx, faults, noise)
  BY <1>2, <1>6, <1>7, <1>8, <1>9, <1>10, <1>11 DEF Parts, Ready
<1>13. faults + 0 = faults
  BY Given
<1>14. \A reply : reply = respondTftp(srv, c.remote, Request) =>
                      Parts(c, reply.srv, rx \o reply.out, faults + 0, noise)
  BY <1>4, <1>12, <1>13, Given, RequestArrives
<1>15. CASE Sent(c, rx, Request, 0)
  BY <1>12, <1>13, <1>14, <1>15, Given, SendStep
<1>16. CASE SendFails(cl, rx, 0)
  BY <1>16, Given, FailStep
<1> QED
  BY <1>1, <1>15, <1>16

\* A try less, and what it may count on.
LEMMA Retry ==
    ASSUME IInv, cl.pc \in {"request", "data"}, cl.tries > 1,
           NEW cost \in {0, 1}, faults + cost <= MaxFaults,
           cost = 0 => rx = <<>>
    PROVE  /\ Ready(Retried(cl), srv, rx, faults + cost, noise)
           /\ Retried(cl).pc = cl.pc /\ Retried(cl).remote = cl.remote
           /\ Retried(cl).block = cl.block /\ Retried(cl).tx = cl.tx
<1> DEFINE c == Retried(cl)
           f == faults + cost
<1>1. Parts(cl, srv, rx, faults, noise)
  BY DEF IInv
<1>2. /\ cl \in Clients /\ srv \in Sessions /\ noise \in Nat /\ faults \in Nat
      /\ StateSends \in Nat /\ cl.tries \in Nat /\ Len(rx) \in Nat /\ Ahead(srv) \in {0, 1}
      /\ MaxFaults \in Nat
  BY Given
<1>3. cl.tries - 1 \in 0..StateSends /\ cl.tries - 1 >= 1 /\ f \in Nat /\ f \in 0..MaxFaults
      /\ faults <= f
  <2>1. cl.tries \in 0..StateSends
    BY <1>2 DEF Clients
  <2> QED
    BY <1>2, <2>1
<1>4. /\ c \in Clients /\ c.tries = cl.tries - 1
      /\ c.pc = cl.pc /\ c.why = cl.why /\ c.remote = cl.remote /\ c.tx = cl.tx
      /\ c.size = cl.size /\ c.block = cl.block /\ c.final = cl.final
      /\ c.disk = cl.disk /\ c.buffer = cl.buffer /\ c.position = cl.position
  BY <1>2, <1>3 DEF Clients, Retried
<1>5. cl = [Fresh EXCEPT !.pc = "request", !.tries = cl.tries] =>
          c = [Fresh EXCEPT !.pc = "request", !.tries = c.tries]
  BY <1>4 DEF Retried, Fresh
<1> HIDE DEF c, f
<1>6. Types(c, srv, rx, f, noise)
  BY <1>1, <1>3, <1>4 DEF Parts, Types
<1>7. StageInv(c, srv, rx)
  BY <1>1, <1>3, <1>4, <1>5 DEF Parts, StageInv
<1>8. /\ sc.mode = "get" => GetInv(c)
      /\ sc.mode = "put" => PutInv(c, srv)
      /\ sc.mode = "put" /\ "put" \notin Noisy => UploadInv(c, srv)
  BY <1>1, <1>4 DEF Parts, GetInv, PutInv, UploadInv
<1>9. QueueInv(c, srv, rx, noise)
  BY <1>1, <1>4 DEF Parts, QueueInv, Sound
<1>10. Spent(c, f)
  <2> SUFFICES ASSUME sc.answer # "silent"
               PROVE  f >= StateSends - c.tries
    BY DEF Spent
  <2>1. /\ faults >= StateSends - cl.tries
        /\ ~Hope(cl, rx) => faults > StateSends - cl.tries
    BY <1>1 DEF Parts, TriesInv, Spent
  <2>2. CASE cost = 0
    <3>1. ~Hope(cl, rx)
      BY <2>2, EmptySeq DEF Hope
    <3> QED
      BY <1>2, <1>4, <2>1, <2>2, <3>1 DEF f
  <2>3. CASE cost = 1
    BY <1>2, <1>4, <2>1, <2>3 DEF f
  <2> QED
    BY <2>2, <2>3
<1>11. WhyInv(c, f, noise)
  <2>1. c.why = "none" /\ c.pc # "failed"
    BY <1>1, <1>4 DEF Parts, WhyInv
  <2> QED
    BY <2>1 DEF WhyInv
<1>12. Len(rx) <= f + noise + Ahead(srv)
  <2>1. Len(rx) <= 1 + faults + noise + Ahead(srv)
    BY <1>1 DEF Parts, CopyInv
  <2>2. CASE cost = 0
    <3>1. Len(rx) = 0
      BY <2>2, EmptySeq
    <3> QED
      BY <1>2, <1>3, <3>1
  <2>3. CASE cost = 1
    BY <1>2, <2>1, <2>3 DEF f
  <2> QED
    BY <2>2, <2>3
<1>13. Ready(c, srv, rx, f, noise)
  BY <1>1, <1>6, <1>7, <1>8, <1>9, <1>10, <1>11, <1>12 DEF Parts, Ready
<1> QED
  BY <1>4, <1>13 DEF c, f

LEMMA WaitStep ==
    ASSUME IInv, NEW late \in BOOLEAN, WaitEnds(late)
    PROVE  IInv'
<1> DEFINE cost == IF late THEN 1 ELSE 0
<1>1. /\ cl.pc \in {"request", "data"} /\ cost \in {0, 1}
      /\ cost = 0 => rx = <<>>
      /\ cost = 1 => faults < MaxFaults
  BY DEF WaitEnds
<1>2. Parts(cl, srv, rx, faults, noise)
  BY DEF IInv
<1>3. \/ cl.tries > 1 /\ Sent(Retried(cl), rx, Resent, cost)
      \/ SendFails(cl, rx, cost)
      \/ /\ ~(cl.tries > 1)
         /\ cl' = Fail(cl, "timeout") /\ faults' = faults + cost
         /\ sc' = sc /\ srv' = srv /\ rx' = rx /\ noise' = noise
  BY DEF WaitEnds, SendFrom
<1> HIDE DEF cost
<1>4. /\ faults \in Nat /\ noise \in Nat /\ MaxFaults \in Nat /\ faults <= MaxFaults
      /\ StateSends \in Nat \ {0} /\ cl.tries \in Nat /\ cl \in Clients
      /\ faults + cost <= MaxFaults /\ faults + cost \in Nat
      /\ sc.mode \in {"get", "put"} /\ sc \in Scenarios
  BY <1>1, Given
<1>5. CASE cl.tries > 1 /\ Sent(Retried(cl), rx, Resent, cost)
  <2> DEFINE c == Retried(cl)
             f == faults + cost
  <2>1. /\ Ready(c, srv, rx, f, noise)
        /\ c.pc = cl.pc /\ c.remote = cl.remote /\ c.block = cl.block /\ c.tx = cl.tx
    BY <1>1, <1>4, <1>5, Retry
  <2> HIDE DEF c, f
  <2>2. ASSUME NEW reply, reply = respondTftp(srv, c.remote, Resent)
        PROVE  Parts(c, reply.srv, rx \o reply.out, f, noise)
    <3>1. CASE cl.pc = "request"
      <4>1. Resent = Request
        BY <3>1 DEF Resent
      <4> QED
        BY <1>4, <2>1, <2>2, <3>1, <4>1, RequestArrives
    <3>2. CASE cl.pc = "data" /\ sc.mode = "get"
      <4>1. /\ cl.block >= 1 /\ Within(cl.block - 1) /\ Granted /\ srv.open
            /\ c.remote = "server" /\ cl.block \in 0..BlockModulus - 1
        BY <1>2, <1>4, <2>1, <3>2 DEF Parts, GetInv, StageInv, Clients
      <4>2. (cl.block - 1) % BlockModulus = cl.block - 1
        BY <4>1, Sizes, <1>4
      <4>3. Resent = Ack(cl.block - 1)
        BY <3>2, <4>2 DEF Resent
      <4> DEFINE b == cl.block - 1
      <4>4. b \in 0..BlockModulus - 1 /\ b \in Nat
        BY <4>1, <1>4, Sizes
      <4>5. b = 0 \/ Within(b - 1)
        <5>1. Within(b)
          BY <4>1
        <5> HIDE DEF b
        <5>2. CASE b # 0
          <6>1. b - 1 \in Nat /\ (b - 1) + 1 = b
            BY <4>4, <5>2
          <6> QED
            BY <1>4, <5>1, <6>1, WithinBefore
        <5> QED
          BY <5>2
      <4>6. c.pc = "data" /\ b = c.block - 1 /\ reply = respondTftp(srv, c.remote, Ack(b))
        BY <2>1, <2>2, <3>2, <4>3
      <4>7. c.pc \notin {"start", "request"}
        BY <4>6
      <4> HIDE DEF b
      <4> QED
        BY <1>4, <2>1, <3>2, <4>1, <4>4, <4>5, <4>6, <4>7, AckArrives
    <3>3. CASE cl.pc = "data" /\ sc.mode = "put"
      <4>1. Resent = Datagram("data", c.block, c.tx)
        BY <2>1, <3>3 DEF Resent
      <4> QED
        BY <1>4, <2>1, <2>2, <3>3, <4>1, DataArrives
    <3> QED
      BY <1>1, <1>4, <3>1, <3>2, <3>3
  <2>3. Sent(c, rx, Resent, cost)
    BY <1>5 DEF c
  <2> QED
    BY <1>1, <1>4, <2>1, <2>2, <2>3, SendStep DEF f
<1>6. CASE /\ ~(cl.tries > 1)
           /\ cl' = Fail(cl, "timeout") /\ faults' = faults + cost
           /\ sc' = sc /\ srv' = srv /\ rx' = rx /\ noise' = noise
  <2> DEFINE c == Fail(cl, "timeout")
             f == faults + cost
  <2>1. /\ c \in Clients /\ c.pc = "failed" /\ c.why = "timeout"
        /\ c.disk = cl.disk /\ c.buffer = cl.buffer /\ c.tx = cl.tx /\ c.size = cl.size
    BY <1>4 DEF Fail, Clients
  <2> HIDE DEF c
  <2>2. f >= StateSends \/ sc.answer = "silent"
    <3> SUFFICES ASSUME sc.answer # "silent"
                 PROVE  f >= StateSends
      OBVIOUS
    <3>1. /\ faults >= StateSends - cl.tries
          /\ ~Hope(cl, rx) => faults > StateSends - cl.tries
          /\ cl.tries = 1
      <4>1. cl.tries >= 1
        BY <1>1, <1>2 DEF Parts, StageInv
      <4>2. cl.tries = 1
        BY <1>4, <1>6, <4>1
      <4> QED
        BY <1>1, <1>2, <4>2 DEF Parts, TriesInv, Spent
    <3>2. CASE cost = 0
      <4>1. ~Hope(cl, rx)
        BY <1>1, <3>2, EmptySeq DEF Hope
      <4> QED
        BY <1>4, <3>1, <3>2, <4>1
    <3>3. CASE cost = 1
      BY <1>4, <3>1, <3>3
    <3> QED
      BY <1>1, <3>2, <3>3
  <2>3. WhyInv(c, f, noise)
    BY <2>1, <2>2 DEF WhyInv
  <2>4. Types(c, srv, rx, f, noise)
    <3>1. f \in 0..MaxFaults
      BY <1>4
    <3> QED
      BY <1>2, <2>1, <3>1 DEF Parts, Types
  <2>5. /\ StageInv(c, srv, rx) /\ GetInv(c) /\ PutInv(c, srv) /\ UploadInv(c, srv)
        /\ TriesInv(c, rx, f)
    BY <2>1 DEF StageInv, GetInv, PutInv, UploadInv, TriesInv, Spent
  <2>6. QueueInv(c, srv, rx, noise)
    BY <1>2, <2>1 DEF Parts, QueueInv, Sound
  <2>7. CopyInv(srv, rx, f, noise)
    <3>1. Len(rx) <= 1 + faults + noise + Ahead(srv)
      BY <1>2 DEF Parts, CopyInv
    <3>2. Len(rx) \in Nat /\ Ahead(srv) \in {0, 1}
      BY Given
    <3> QED
      BY <1>1, <1>4, <3>1, <3>2 DEF CopyInv
  <2>8. Parts(c, srv, rx, f, noise)
    BY <1>2, <2>3, <2>4, <2>5, <2>6, <2>7 DEF Parts
  <2> HIDE DEF f
  <2>9. cl' = c /\ faults' = f /\ sc' = sc /\ srv' = srv /\ rx' = rx /\ noise' = noise
    BY <1>6 DEF c, f
  <2> QED
    BY <1>4, <2>8, <2>9, SameRun
<1>7. CASE SendFails(cl, rx, cost)
  BY <1>1, <1>7, Given, FailStep
<1> QED
  BY <1>3, <1>5, <1>6, <1>7

LEMMA WaitFailsStep ==
    ASSUME IInv, WaitFails
    PROVE  IInv'
<1>1. /\ cl.pc \in {"request", "data", "dally"} /\ faults < MaxFaults
      /\ sc' = sc /\ srv' = srv /\ rx' = rx /\ faults' = faults + 1 /\ noise' = noise
  BY DEF WaitFails, Waiting
<1>2. CASE cl.pc # "dally"
  <2>1. cl' = Fail(cl, "network")
    BY <1>2 DEF WaitFails
  <2>2. faults + 0 = faults
    BY Given
  <2>3. SendFails(cl, rx, 0)
    BY <1>1, <2>1, <2>2 DEF SendFails
  <2> QED
    BY <2>3, Given, FailStep
<1>3. CASE cl.pc = "dally"
  <2> DEFINE c == [cl EXCEPT !.pc = "ok"]
             f == faults + 1
  <2>1. cl' = c /\ faults' = f
    BY <1>1, <1>3 DEF WaitFails
  <2>2. c.pc = "ok"
    BY Given DEF Clients
  <2>3. Parts(c, srv, rx, faults, noise)
    BY <1>3, Given, DallyEnds
  <2> HIDE DEF c
  <2>4. f \in 0..MaxFaults /\ f \in Nat /\ f >= faults
    BY <1>1, Given
  <2> HIDE DEF f
  <2>5. Types(c, srv, rx, f, noise)
    BY <2>3, <2>4 DEF Parts, Types
  <2>6. TriesInv(c, rx, f)
    BY <2>2 DEF TriesInv, Spent
  <2>7. WhyInv(c, f, noise)
    BY <2>3, <2>4, Given DEF Parts, WhyInv
  <2>8. CopyInv(srv, rx, f, noise)
    <3>1. Ahead(srv) \in {0, 1} /\ Len(rx) \in Nat /\ noise \in Nat /\ faults \in Nat
      BY Given
    <3> QED
      BY <2>3, <2>4, <3>1 DEF Parts, CopyInv
  <2>9. Parts(c, srv, rx, f, noise)
    BY <2>3, <2>5, <2>6, <2>7, <2>8 DEF Parts
  <2> QED
    BY <1>1, <2>1, <2>9, Given, SameRun
<1> QED
  BY <1>2, <1>3

----------------------------------------------------------------------------
(* GET. *)

\* A send out of the head just read; what it must know of the client it leaves.
LEMMA AckStep ==
    ASSUME IInv, sc.mode = "get", rx # <<>>, Granted, srv.open,
           NEW c \in Clients, NEW b \in 0..BlockModulus - 1,
           Sent(c, Tail(rx), Ack(b), 0),
           Len(c.buffer) <= FileCapacity, Len(c.disk) <= sc.room, Len(c.tx) <= c.size,
           c.pc \in {"data", "dally", "failed"}, c.remote = "server",
           c.size = ServerBlock, GetInv(c), WhyInv(c, faults, noise),
           c.pc = "data" => c.tries >= 1 /\ Spent(c, faults) /\ b = c.block - 1,
           b = 0 \/ Within(b - 1)
    PROVE  IInv'
<1>1. Parts(cl, srv, rx, faults, noise)
  BY DEF IInv
<1>2. Types(c, srv, Tail(rx), faults, noise)
  BY <1>1, HeadRead DEF Parts, Types
<1>3. StageInv(c, srv, Tail(rx))
  BY DEF StageInv
<1>4. QueueInv(c, srv, Tail(rx), noise)
  <2>1. srv.expected <= srv.expected /\ noise <= noise
    BY Given, SMTT(30) DEF Sessions
  <2>2. c.pc # "request"
    OBVIOUS
  <2> QED
    BY <2>1, <2>2, Given, HeadRead, StaysSound
<1>5. Spent(c, faults) /\ Len(Tail(rx)) <= faults + noise + Ahead(srv)
  <2>1. Spent(c, faults)
    BY DEF Spent
  <2> QED
    BY <2>1, HeadRead
<1>6. faults + 0 = faults
  BY Given
<1>7. Ready(c, srv, Tail(rx), faults, noise)
  BY <1>1, <1>2, <1>3, <1>4, <1>5 DEF Parts, Ready
<1>8. ASSUME NEW reply, reply = respondTftp(srv, c.remote, Ack(b))
      PROVE  Parts(c, reply.srv, Tail(rx) \o reply.out, faults + 0, noise)
  <2>1. c.pc \notin {"start", "request"}
    OBVIOUS
  <2> QED
    BY <1>6, <1>7, <1>8, <2>1, Given, AckArrives
<1> QED
  BY <1>6, <1>7, <1>8, Given, SendStep

LEMMA OackStep ==
    ASSUME IInv, GetOack
    PROVE  IInv'
<1> DEFINE c == [cl EXCEPT !.pc = "data", !.tries = StateSends, !.remote = "server",
                           !.size = RequestBlock, !.block = 1]
<1>1. /\ cl.pc = "request" /\ sc.mode = "get" /\ rx # <<>> /\ Head(rx).op = "oack"
      /\ Sent(c, Tail(rx), Ack(0), 0) \/ SendFails(cl, Tail(rx), 0)
  BY DEF GetOack, Received, SendFrom
<1>2. Parts(cl, srv, rx, faults, noise)
  BY DEF IInv
<1>3. Granted /\ srv.open /\ sc.answer = "oack"
  BY <1>1, HeadRead DEF Sound
<1>4. ServerBlock = RequestBlock
  BY <1>3 DEF ServerBlock
<1>5. cl.disk = <<>> /\ cl.buffer = <<>> /\ cl.tx = <<>> /\ cl.why = "none"
  <2>1. cl = [Fresh EXCEPT !.pc = "request", !.tries = cl.tries]
    BY <1>1, <1>2 DEF Parts, StageInv
  <2> QED
    BY <2>1 DEF Fresh
<1>6. /\ 1 \in 0..BlockModulus - 1 /\ StateSends \in 0..StateSends /\ StateSends >= 1
      /\ 0 \in 0..BlockModulus - 1
  <2>1. sc \in Scenarios /\ StateSends \in Nat \ {0}
    BY Given
  <2> QED
    BY <2>1, FirstNumbers
<1>7. /\ c \in Clients /\ c.pc = "data" /\ c.remote = "server" /\ c.size = ServerBlock
      /\ c.disk = <<>> /\ c.buffer = <<>> /\ c.tx = <<>> /\ c.why = "none"
      /\ c.block = 1 /\ c.tries = StateSends
  BY <1>4, <1>5, <1>6, Given DEF Clients
<1> HIDE DEF c
<1>8. GetInv(c)
  <2>1. (c.block - 1) = 0 /\ 0 * ServerBlock = 0
    BY <1>7, Given, Sizes
  <2>2. <<>> \o <<>> = <<>>
    BY EmptySeq, ConcatEmptySeq
  <2>3. Within(0) /\ Prefix(0) = <<>>
    BY Given, WithinBefore, Prefixes
  <2> QED
    BY <1>7, <2>1, <2>2, <2>3 DEF GetInv
<1>9. Len(c.buffer) <= FileCapacity /\ Len(c.disk) <= sc.room /\ Len(c.tx) <= c.size
  <2>1. Len(<<>>) = 0
    BY EmptySeq
  <2> QED
    BY <1>7, <2>1, Given, Sizes, TftpAssumption
<1>10. Spent(c, faults) /\ WhyInv(c, faults, noise)
  BY <1>7, Given DEF Spent, WhyInv
<1>11. 0 = c.block - 1 /\ c.tries >= 1
  BY <1>6, <1>7
<1>12. CASE Sent(c, Tail(rx), Ack(0), 0)
  BY <1>1, <1>3, <1>6, <1>7, <1>8, <1>9, <1>10, <1>11, <1>12, AckStep
<1>13. CASE SendFails(cl, Tail(rx), 0)
  BY <1>1, <1>13, Given, FailStep
<1> QED
  BY <1>1, <1>12, <1>13

LEMMA PreviousStep ==
    ASSUME IInv, GetPrevious
    PROVE  IInv'
<1> DEFINE b == Head(rx).block
<1>1. /\ cl.pc \in {"data", "dally"} /\ sc.mode = "get" /\ rx # <<>> /\ Head(rx).op = "data"
      /\ Next16(b) = cl.block
      /\ Sent(cl, Tail(rx), Ack(b), 0) \/ SendFails(cl, Tail(rx), 0)
  BY DEF GetPrevious, PreviousBlock, Received
<1>2. Parts(cl, srv, rx, faults, noise)
  BY DEF IInv
<1>3. b \in 0..BlockModulus - 1 /\ b >= 1 /\ Granted /\ srv.open
  BY <1>1, HeadRead DEF Sound, Datagrams
<1> HIDE DEF b
<1>4. /\ cl.remote = "server" /\ cl.size = ServerBlock
      /\ cl.pc = "data" => cl.tries >= 1
      /\ GetInv(cl) /\ WhyInv(cl, faults, noise) /\ Spent(cl, faults)
  BY <1>1, <1>2 DEF Parts, StageInv, TriesInv
<1>5. cl.block >= 1 /\ cl.block \in 0..BlockModulus - 1
  <2>1. cl.block \in 0..BlockModulus - 1
    BY Given DEF Clients
  <2>2. cl.pc = "dally" => cl.block >= 2
    BY <1>4 DEF GetInv
  <2>3. cl.pc = "data" => cl.block >= 1
    BY <1>4 DEF GetInv
  <2>4. BlockModulus \in Nat
    BY Given, Sizes
  <2> QED
    BY <1>1, <2>1, <2>2, <2>3, <2>4
<1>6. b = cl.block - 1
  <2>0. BlockModulus \in Nat /\ BlockModulus > 3
    BY Given, Sizes
  <2>1. BlockModulus \in Nat /\ BlockModulus > 3 /\ b \in Nat /\ b < BlockModulus
    BY <1>3, <2>0
  <2>2. CASE b + 1 = BlockModulus
    <3>1. (b + 1) % BlockModulus = 0
      BY <2>1, <2>2, SMT
    <3> QED
      BY <1>1, <1>5, <3>1 DEF Next16
  <2>3. CASE b + 1 # BlockModulus
    <3>1. b + 1 \in 0..BlockModulus - 1
      BY <2>1, <2>3
    <3>2. \A a \in 0..BlockModulus - 1 : a % BlockModulus = a
      BY <2>1, SMT
    <3>3. Next16(b) = b + 1
      BY <3>1, <3>2 DEF Next16
    <3> QED
      BY <1>1, <2>1, <3>3
  <2> QED
    BY <2>2, <2>3
<1>7. Within(b - 1)
  <2>1. CASE cl.pc = "data"
    <3>1. Within(b)
      BY <1>4, <1>6, <2>1 DEF GetInv
    <3>2. b - 1 \in Nat /\ (b - 1) + 1 = b
      BY <1>3
    <3> QED
      BY <3>1, <3>2, Given, WithinBefore
  <2>2. CASE cl.pc = "dally"
    <3>1. b - 1 = cl.block - 2
      BY <1>5, <1>6
    <3> QED
      BY <1>4, <2>2, <3>1 DEF GetInv
  <2> QED
    BY <1>1, <2>1, <2>2
<1>8. CASE Sent(cl, Tail(rx), Ack(b), 0)
  BY <1>1, <1>3, <1>4, <1>6, <1>7, <1>8, Given, AckStep
<1>9. CASE SendFails(cl, Tail(rx), 0)
  BY <1>1, <1>9, Given, FailStep
<1> QED
  BY <1>1, <1>8, <1>9

\* FLUSH_FILE_BUFFER: nothing of the file is lost, and a write that fails had more to
\* keep than there is room for.
Kept(c) == c.disk \o c.buffer
LEMMA FlushFacts ==
    ASSUME sc \in Scenarios, NEW c \in Clients, Len(c.disk) <= sc.room,
           NEW both, both = Kept(c), NEW d, d = Flushed(c)
    PROVE  /\ d \in Clients /\ d.disk = both /\ d.buffer = <<>>
           /\ d.tx = c.tx /\ d.size = c.size /\ d.remote = c.remote /\ d.why = c.why
           /\ d.block = c.block
           /\ both \in Seq(Nat)
           /\ FlushFails(c) => Len(both) > sc.room
           /\ ~FlushFails(c) => Len(both) <= sc.room
<1>1. c.disk \in Seq(Nat) /\ c.buffer \in Seq(Nat)
  BY DEF Clients
<1>2. both \in Seq(Nat) /\ Len(both) = Len(c.disk) + Len(c.buffer)
  BY <1>1, ConcatProperties DEF Kept
<1>3. <<>> \in Seq(Nat)
  BY EmptySeq
<1>4. d = [c EXCEPT !.disk = both, !.buffer = <<>>]
  BY DEF Flushed, Clients, Kept
<1>5. /\ d \in Clients /\ d.disk = both /\ d.buffer = <<>>
      /\ d.tx = c.tx /\ d.size = c.size /\ d.remote = c.remote /\ d.why = c.why
      /\ d.block = c.block
  BY <1>2, <1>3, <1>4 DEF Clients
<1>6. Len(c.disk) \in Nat /\ Len(c.buffer) \in Nat /\ sc.room \in Nat
  BY <1>1, LenProperties, Sizes
<1>7. c.buffer = <<>> => both = c.disk
  BY <1>1, ConcatEmptySeq DEF Kept
<1>8. ~FlushFails(c) => Len(both) <= sc.room
  <2>1. ~FlushFails(c) => c.buffer = <<>> \/ ~(Len(c.disk) + Len(c.buffer) > sc.room)
    BY DEF FlushFails
  <2>2. ~(Len(c.disk) + Len(c.buffer) > sc.room) => Len(both) <= sc.room
    <3>1. \A x, y, z \in Nat : ~(x + y > z) => x + y <= z
      OBVIOUS
    <3> QED
      BY <1>2, <1>6, <3>1
  <2>3. c.buffer = <<>> => Len(both) <= sc.room
    BY <1>7
  <2> QED
    BY <2>1, <2>2, <2>3
<1>9. FlushFails(c) => Len(both) > sc.room
  BY <1>2 DEF FlushFails
<1> QED
  BY <1>2, <1>4, <1>5, <1>8, <1>9

\* A client that expects this block of the file.
Expecting(c, data) ==
    /\ Len(c.buffer) <= FileCapacity /\ Len(c.disk) <= sc.room /\ Len(c.tx) <= c.size
    /\ c.remote = "server" /\ c.size = ServerBlock /\ c.why = "none"
    /\ c.block >= 1 /\ Within(c.block - 1)
    /\ c.disk \o c.buffer = Prefix((c.block - 1) * ServerBlock)
    /\ data = BlockOf(c.block, ServerBlock)

\* PROCESS_GET_DATA of the block a client c expects, in either state that takes one.
LEMMA TakeStep ==
    ASSUME IInv, sc.mode = "get", rx # <<>>, Granted, srv.open,
           NEW c \in Clients, NEW data, Expecting(c, data), TakeBlock(c, data)
    PROVE  IInv'
<1> DEFINE b == c.block
           before == (b - 1) * ServerBlock
           had == Prefix(before)
           has == Prefix(Reach(b))
           full == Overfull(c, data)
           room == IF full THEN Flushed(c) ELSE c
           appended == [room EXCEPT !.buffer = @ \o data, !.final = IsShort(data, c.size),
                                    !.block = Next16(b)]
           next == IF appended.final THEN Finish(appended)
                   ELSE [appended EXCEPT !.pc = "data", !.tries = StateSends]
           Acknowledging == \/ Sent(next, Tail(rx), Ack(b), 0)
                            \/ SendFails(appended, Tail(rx), 0)
<1>1. \/ full /\ FlushFails(c) /\ ReadAs(Fail(c, "file"))
      \/ ~(full /\ FlushFails(c)) /\ Acknowledging
  BY DEF TakeBlock, SendFrom
<1>2. /\ sc \in Scenarios /\ b \in 0..BlockModulus - 1 /\ b \in Nat \ {0} /\ b - 1 \in Nat
      /\ b + 1 \in 0..BlockModulus - 1 /\ Next16(b) = b + 1 /\ b + 1 \in Nat
      /\ StateSends \in Nat \ {0} /\ Within(b - 1)
  <2>1. /\ sc \in Scenarios /\ b \in 0..BlockModulus - 1 /\ BlockModulus \in Nat
        /\ b >= 1 /\ Within(b - 1)
    BY Given, Sizes DEF Clients, Expecting
  <2>2. b + 1 \in 1..BlockModulus - 1 /\ Next16(b) = b + 1
    BY <2>1, NextNumber
  <2>3. b \in Nat \ {0} /\ b - 1 \in Nat /\ b + 1 \in Nat
    BY <2>1
  <2>4. b + 1 \in 0..BlockModulus - 1
    BY <2>1, <2>2
  <2> QED
    BY <2>1, <2>2, <2>3, <2>4, Given
<1>3. /\ data \in Seq(Nat) /\ Len(data) \in 0..ServerBlock
      /\ IsShort(data, c.size) <=> ~Within(b)
      /\ Reach(b) \in before..sc.len
      /\ Reach(b) = IF Within(b) THEN b * ServerBlock ELSE sc.len
  BY <1>2, Blocks DEF Expecting
<1>4. had \o data = has
  BY <1>2, Grows DEF Expecting
<1>5. /\ before \in 0..sc.len /\ Len(had) = before
      /\ Reach(b) \in 0..sc.len /\ Len(has) = Reach(b)
      /\ sc.len \in Nat /\ sc.room \in Nat /\ ServerBlock \in Nat
      /\ FileCapacity \in Nat /\ ServerBlock <= FileCapacity
  <2>1. before \in Nat /\ before <= sc.len
    BY <1>2, WithinBefore DEF Within
  <2>2. before \in 0..sc.len /\ Reach(b) \in 0..sc.len
    BY <1>2, <1>3, <2>1, Sizes, SMTT(30)
  <2> QED
    BY <1>2, <2>2, Prefixes, Sizes, TftpAssumption
<1>5a. /\ Len(c.buffer) <= FileCapacity /\ Len(c.disk) <= sc.room /\ Len(c.tx) <= c.size
       /\ c.remote = "server" /\ c.size = ServerBlock /\ c.why = "none"
       /\ had = Kept(c)
  BY DEF Expecting, Kept
<1> HIDE DEF b, before, had, has
<1>6. CASE full /\ FlushFails(c) /\ ReadAs(Fail(c, "file"))
  <2> DEFINE d == Fail(c, "file")
  <2>1. /\ d \in Clients /\ d.pc = "failed" /\ d.why = "file" /\ d.buffer = c.buffer
        /\ d.disk = c.disk /\ d.tx = c.tx /\ d.size = c.size
    BY DEF Fail, Clients
  <2>2. ReadAs(d)
    BY <1>6
  <2> HIDE DEF d
  <2>3. sc.room < sc.len
    <3>1. FlushFails(c) /\ \E e : e = Flushed(c)
      BY <1>6
    <3>2. Len(had) > sc.room
      BY <1>2, <1>5a, <3>1, FlushFacts
    <3> QED
      BY <1>5, <3>2
  <2>4. WhyInv(d, faults, noise)
    BY <2>1, <2>3 DEF WhyInv
  <2>5. GetInv(d)
    BY <2>1 DEF GetInv
  <2> QED
    BY <1>5a, <2>1, <2>2, <2>4, <2>5, EndStep
<1>7. CASE ~(full /\ FlushFails(c)) /\ Acknowledging
  <2>1. /\ room \in Clients /\ room.disk \o room.buffer = had
        /\ Len(room.disk) <= sc.room
        /\ room.buffer = <<>> \/ (room.buffer = c.buffer /\ ~full)
        /\ room.tx = c.tx /\ room.size = c.size /\ room.remote = "server"
        /\ room.why = "none"
    <3>1. CASE full
      <4> DEFINE d == Flushed(c)
      <4>1. d = Flushed(c) /\ room = d /\ ~FlushFails(c)
        BY <1>7, <3>1
      <4> HIDE DEF d, room, full
      <4>2. /\ d \in Clients /\ d.disk = had /\ d.buffer = <<>>
            /\ d.tx = c.tx /\ d.size = c.size /\ d.remote = c.remote /\ d.why = c.why
            /\ had \in Seq(Nat) /\ Len(had) <= sc.room
        BY <1>2, <1>5a, <4>1, FlushFacts
      <4>3. d.disk \o d.buffer = had
        BY <4>2, ConcatEmptySeq
      <4> QED
        BY <1>5a, <4>1, <4>2, <4>3
    <3>2. CASE ~full
      BY <1>5a, <3>2 DEF Kept
    <3> QED
      BY <3>1, <3>2
  <2>2. Sent(next, Tail(rx), Ack(b), 0) \/ SendFails(appended, Tail(rx), 0)
    BY <1>7
  <2>3. ~full => Len(c.buffer) + Len(data) <= FileCapacity
    <3>1. Len(c.buffer) \in Nat /\ Len(data) \in Nat /\ FileCapacity \in Nat
      BY <1>3, <1>5, LenProperties DEF Clients
    <3>2. ~Overfull(c, data) => ~(Len(c.buffer) + Len(data) > FileCapacity)
      BY DEF Overfull
    <3> QED
      BY <3>1, <3>2
  <2> HIDE DEF room, full
  <2>4. /\ room.buffer \in Seq(Nat) /\ room.disk \in Seq(Nat)
        /\ room.buffer \o data \in Seq(Nat)
        /\ Len(room.buffer \o data) <= FileCapacity
    <3>1. room.buffer \in Seq(Nat) /\ room.disk \in Seq(Nat)
      BY <2>1 DEF Clients
    <3>2. /\ room.buffer \o data \in Seq(Nat)
          /\ Len(room.buffer \o data) = Len(room.buffer) + Len(data)
      BY <1>3, <3>1, ConcatProperties
    <3>3. room.buffer = <<>> => Len(room.buffer) = 0
      BY EmptySeq
    <3>4. CASE room.buffer = <<>>
      BY <1>3, <1>5, <3>1, <3>2, <3>3, <3>4
    <3>5. CASE room.buffer = c.buffer /\ ~full
      BY <2>3, <3>1, <3>2, <3>5
    <3> QED
      BY <2>1, <3>4, <3>5
  <2>5. /\ appended \in Clients /\ appended.buffer = room.buffer \o data
        /\ appended.disk = room.disk /\ appended.block = b + 1
        /\ appended.final <=> ~Within(b)
        /\ appended.tx = c.tx /\ appended.size = c.size /\ appended.remote = "server"
        /\ appended.why = "none"
    <3> DEFINE bytes == room.buffer \o data
               short == IsShort(data, c.size)
               number == Next16(b)
    <3>1. bytes \in Seq(Nat) /\ short \in BOOLEAN /\ number \in 0..BlockModulus - 1
          /\ number = b + 1 /\ (short <=> ~Within(b))
      BY <1>2, <1>3, <2>4 DEF IsShort
    <3>2. appended = [room EXCEPT !.buffer = bytes, !.final = short, !.block = number]
      BY <2>1 DEF Clients
    <3> HIDE DEF bytes, short, number, appended
    <3>3. appended \in Clients
      BY <2>1, <3>1, <3>2 DEF Clients
    <3>4. /\ appended.buffer = bytes /\ appended.disk = room.disk
          /\ appended.block = number /\ appended.final = short
          /\ appended.tx = room.tx /\ appended.size = room.size
          /\ appended.remote = room.remote /\ appended.why = room.why
      BY <2>1, <3>2 DEF Clients
    <3> QED
      BY <2>1, <3>1, <3>3, <3>4 DEF bytes
  <2> HIDE DEF appended
  <2>6. appended.disk \o appended.buffer = has
    <3>1. \A x, y, z \in Seq(Nat) : (x \o y) \o z = x \o (y \o z)
      BY ConcatAssociative
    <3>2. (room.disk \o room.buffer) \o data = room.disk \o (room.buffer \o data)
      BY <1>3, <2>4, <3>1
    <3> QED
      BY <1>4, <2>1, <2>5, <3>2
  <2>7. Len(appended.disk) <= sc.room
    BY <2>1, <2>5
  <2>8. b = 0 \/ Within(b - 1)
    BY <1>2
  <2>8a. CASE SendFails(appended, Tail(rx), 0)
    BY <1>5a, <2>4, <2>5, <2>7, <2>8a, FailStep
  <2>9. CASE Sent(next, Tail(rx), Ack(b), 0) /\ Within(b)
    <3> DEFINE d == [appended EXCEPT !.pc = "data", !.tries = StateSends]
    <3>1. next = d
      BY <2>5, <2>9
    <3>2. StateSends \in 0..StateSends
      BY <1>2
    <3>3. /\ d \in Clients /\ d.pc = "data" /\ d.tries = StateSends
          /\ d.buffer = appended.buffer /\ d.disk = appended.disk /\ d.block = b + 1
          /\ d.tx = c.tx /\ d.size = c.size /\ d.remote = "server" /\ d.why = "none"
      BY <2>5, <3>2 DEF Clients
    <3>4. Sent(d, Tail(rx), Ack(b), 0)
      BY <2>9, <3>1
    <3> HIDE DEF d, next
    <3>5. (b + 1) - 1 = b
      BY <1>2
    <3>6. GetInv(d)
      <4>1. d.block - 1 = b /\ d.block >= 1
        BY <1>2, <3>3, <3>5
      <4>2. d.disk \o d.buffer = Prefix(b * ServerBlock)
        BY <1>3, <2>6, <2>9, <3>3 DEF has
      <4> QED
        BY <2>9, <3>3, <4>1, <4>2 DEF GetInv
    <3>7. /\ WhyInv(d, faults, noise) /\ Spent(d, faults) /\ d.tries >= 1 /\ b = d.block - 1
      BY <1>2, <3>3, <3>5, Given DEF WhyInv, Spent
    <3>8. /\ Len(d.buffer) <= FileCapacity /\ Len(d.disk) <= sc.room /\ Len(d.tx) <= d.size
          /\ d.size = ServerBlock /\ b \in 0..BlockModulus - 1
      BY <1>2, <1>5a, <2>4, <2>5, <2>7, <3>3
    <3> QED
      BY <1>2, <2>8, <3>3, <3>4, <3>6, <3>7, <3>8, AckStep
  <2>10. CASE Sent(next, Tail(rx), Ack(b), 0) /\ ~Within(b) /\ FlushFails(appended)
    <3> DEFINE d == Fail(appended, "file")
    <3>1. next = d
      BY <2>5, <2>10 DEF Finish
    <3>2. /\ d \in Clients /\ d.pc = "failed" /\ d.why = "file"
          /\ d.buffer = appended.buffer /\ d.disk = appended.disk
          /\ d.tx = c.tx /\ d.size = c.size /\ d.remote = "server"
      BY <2>5 DEF Fail, Clients
    <3>3. Sent(d, Tail(rx), Ack(b), 0)
      BY <2>10, <3>1
    <3> HIDE DEF d, next
    <3>4. sc.room < sc.len
      <4>1. Len(has) > sc.room
        <5>1. has = Kept(appended) /\ \E e : e = Flushed(appended)
          BY <2>6 DEF Kept
        <5> QED
          BY <1>2, <2>5, <2>7, <2>10, <5>1, FlushFacts
      <4> QED
        BY <1>5, <4>1
    <3>5. WhyInv(d, faults, noise) /\ GetInv(d)
      BY <3>2, <3>4 DEF WhyInv, GetInv
    <3>6. Len(d.buffer) <= FileCapacity /\ Len(d.disk) <= sc.room /\ Len(d.tx) <= d.size
      BY <1>5a, <2>4, <2>5, <2>7, <3>2
    <3>7. d.pc # "data" /\ d.pc \in {"data", "dally", "failed"} /\ d.size = ServerBlock
      BY <1>5a, <3>2
    <3> QED
      BY <1>2, <2>8, <3>2, <3>3, <3>5, <3>6, <3>7, AckStep
  <2>11. CASE Sent(next, Tail(rx), Ack(b), 0) /\ ~Within(b) /\ ~FlushFails(appended)
    <3> DEFINE e == Flushed(appended)
               d == [e EXCEPT !.pc = "dally"]
    <3>1. next = d
      BY <2>5, <2>11 DEF Finish
    <3>2. Sent(d, Tail(rx), Ack(b), 0) /\ e = Flushed(appended)
      BY <2>11, <3>1
    <3> HIDE DEF e, next
    <3>3. /\ e \in Clients /\ e.disk = has /\ e.buffer = <<>> /\ Len(has) <= sc.room
          /\ e.tx = appended.tx /\ e.size = appended.size /\ e.block = appended.block
          /\ e.remote = appended.remote /\ e.why = appended.why
      <4>1. has = Kept(appended)
        BY <2>6 DEF Kept
      <4> QED
        BY <1>2, <2>5, <2>7, <2>11, <3>2, <4>1, FlushFacts
    <3>4. /\ e.block = b + 1 /\ e.tx = c.tx /\ e.size = c.size /\ e.remote = "server"
          /\ e.why = "none"
      BY <2>5, <3>3
    <3>5. e.disk = File
      <4>1. Reach(b) = sc.len
        BY <1>3, <2>11
      <4> QED
        BY <1>2, <3>3, <4>1, Prefixes DEF has
    <3>6. /\ d \in Clients /\ d.pc = "dally" /\ d.buffer = <<>> /\ d.disk = File
          /\ d.block = b + 1 /\ d.tx = c.tx /\ d.size = c.size /\ d.remote = "server"
          /\ d.why = "none" /\ Len(d.disk) <= sc.room
      BY <3>3, <3>4, <3>5 DEF Clients
    <3> HIDE DEF d
    <3>7. GetInv(d) /\ WhyInv(d, faults, noise)
      <4>1. d.block >= 2 /\ d.block - 2 = b - 1
        BY <1>2, <3>6
      <4> QED
        BY <1>2, <3>6, <4>1 DEF GetInv, WhyInv
    <3>8. Len(d.buffer) <= FileCapacity /\ Len(d.tx) <= d.size
      <4>1. Len(<<>>) = 0
        BY EmptySeq
      <4> QED
        BY <1>5, <1>5a, <3>6, <4>1
    <3>9. d.pc # "data" /\ d.pc \in {"data", "dally", "failed"} /\ d.size = ServerBlock
      BY <1>5a, <3>6
    <3> QED
      BY <1>2, <2>8, <3>2, <3>6, <3>7, <3>8, <3>9, AckStep
  <2> QED
    BY <2>2, <2>8a, <2>9, <2>10, <2>11
<1> QED
  BY <1>1, <1>6, <1>7

LEMMA GetFirstStep ==
    ASSUME IInv, GetFirst
    PROVE  IInv'
<1> DEFINE c == [cl EXCEPT !.remote = "server", !.size = DefaultBlock, !.block = 1]
           data == Head(rx).data
<1>1. /\ cl.pc = "request" /\ sc.mode = "get" /\ rx # <<>> /\ Head(rx).op = "data"
      /\ Head(rx).block = 1 /\ TakeBlock(c, data)
  BY DEF GetFirst, Received
<1>2. Parts(cl, srv, rx, faults, noise)
  BY DEF IInv
<1>3. /\ Granted /\ srv.open /\ sc.answer = "fallback" /\ data = BlockOf(1, ServerBlock)
  BY <1>1, HeadRead DEF Sound
<1>4. ServerBlock = DefaultBlock
  BY <1>3 DEF ServerBlock
<1>5. cl.disk = <<>> /\ cl.buffer = <<>> /\ cl.tx = <<>> /\ cl.why = "none"
  <2>1. cl = [Fresh EXCEPT !.pc = "request", !.tries = cl.tries]
    BY <1>1, <1>2 DEF Parts, StageInv
  <2> QED
    BY <2>1 DEF Fresh
<1>6. 1 \in 0..BlockModulus - 1 /\ sc \in Scenarios
  BY Given, Sizes
<1>7. /\ c \in Clients /\ c.remote = "server" /\ c.size = ServerBlock
      /\ c.disk = <<>> /\ c.buffer = <<>> /\ c.tx = <<>> /\ c.why = "none"
      /\ c.block = 1
  BY <1>4, <1>5, <1>6, Given DEF Clients
<1> HIDE DEF c, data
<1>8. /\ c.block >= 1 /\ Within(c.block - 1)
      /\ c.disk \o c.buffer = Prefix((c.block - 1) * ServerBlock)
  <2>1. c.block - 1 = 0 /\ 0 * ServerBlock = 0 /\ c.block >= 1
    BY <1>6, <1>7, Sizes
  <2>2. <<>> \o <<>> = <<>>
    BY EmptySeq, ConcatEmptySeq
  <2>3. Within(0) /\ Prefix(0) = <<>>
    BY <1>6, WithinBefore, Prefixes
  <2> QED
    BY <1>7, <2>1, <2>2, <2>3
<1>9. Len(c.buffer) <= FileCapacity /\ Len(c.disk) <= sc.room /\ Len(c.tx) <= c.size
  <2>1. Len(<<>>) = 0
    BY EmptySeq
  <2> QED
    BY <1>6, <1>7, <2>1, Sizes, TftpAssumption
<1>10. data = BlockOf(c.block, ServerBlock)
  BY <1>3, <1>7
<1>11. Expecting(c, data)
  BY <1>7, <1>8, <1>9, <1>10 DEF Expecting
<1> QED
  BY <1>1, <1>3, <1>7, <1>11, TakeStep

LEMMA GetBlockStep ==
    ASSUME IInv, GetBlock
    PROVE  IInv'
<1> DEFINE data == Head(rx).data
<1>1. /\ cl.pc = "data" /\ sc.mode = "get" /\ rx # <<>> /\ Head(rx).op = "data"
      /\ Head(rx).block = cl.block /\ TakeBlock(cl, data)
  BY DEF GetBlock, ExpectedBlock, Received
<1>2. Parts(cl, srv, rx, faults, noise)
  BY DEF IInv
<1>3. Granted /\ srv.open /\ data = BlockOf(cl.block, ServerBlock)
  BY <1>1, HeadRead DEF Sound
<1> HIDE DEF data
<1>4. /\ cl.remote = "server" /\ cl.size = ServerBlock /\ cl.why = "none"
      /\ cl.block >= 1 /\ Within(cl.block - 1)
      /\ cl.disk \o cl.buffer = Prefix((cl.block - 1) * ServerBlock)
  BY <1>1, <1>2 DEF Parts, StageInv, GetInv, WhyInv
<1>5. Expecting(cl, data)
  BY <1>3, <1>4, Given DEF Expecting
<1> QED
  BY <1>1, <1>3, <1>5, Given, TakeStep

----------------------------------------------------------------------------
(* PUT. *)

\* A client about to read its block from the file; the server expects that block.
Sending(c) ==
    /\ Len(c.buffer) <= FileCapacity /\ Len(c.disk) <= sc.room /\ Len(c.tx) <= c.size
    /\ c.remote = "server" /\ c.size = ServerBlock /\ c.why = "none"
    /\ c.block >= 1 /\ Within(c.block - 1)
    /\ c.position = (c.block - 1) * ServerBlock
    /\ srv.expected = c.block
    /\ "put" \notin Noisy => srv.chunks = Prefix((c.block - 1) * ServerBlock)

\* READ_PUT_BLOCK and the first send of a data state.
LEMMA SendBlockStep ==
    ASSUME IInv, sc.mode = "put", rx # <<>>, Granted, srv.open,
           NEW c \in Clients, Sending(c), SendBlock(c)
    PROVE  IInv'
<1> DEFINE b == c.block
           before == (b - 1) * ServerBlock
           data == BlockOf(b, ServerBlock)
           number == c.position + Len(data)
           short == IsShort(data, c.size)
           d == [c EXCEPT !.pc = "data", !.tries = StateSends, !.tx = data,
                          !.position = number, !.final = short]
<1>1. /\ sc \in Scenarios /\ b \in 0..BlockModulus - 1 /\ b \in Nat \ {0} /\ b - 1 \in Nat
      /\ Within(b - 1) /\ StateSends \in Nat \ {0}
  <2>1. sc \in Scenarios /\ b \in 0..BlockModulus - 1 /\ BlockModulus \in Nat
        /\ b >= 1 /\ Within(b - 1)
    BY Given, Sizes DEF Clients, Sending
  <2>2. b \in Nat \ {0} /\ b - 1 \in Nat
    BY <2>1
  <2> QED
    BY <2>1, <2>2, Given
<1>2. /\ data \in Seq(Nat) /\ Len(data) \in 0..ServerBlock
      /\ short <=> ~Within(b)
      /\ Len(data) = Reach(b) - before /\ Reach(b) \in before..sc.len
  BY <1>1, Blocks DEF Sending
<1>3. /\ c.position = before /\ c.size = ServerBlock /\ c.remote = "server"
      /\ c.why = "none" /\ srv.expected = b
      /\ "put" \notin Noisy => srv.chunks = Prefix(before)
      /\ Len(c.buffer) <= FileCapacity /\ Len(c.disk) <= sc.room /\ Len(c.tx) <= c.size
  BY DEF Sending
<1>4. before \in Nat /\ b * ServerBlock = before + ServerBlock
  <2>1. (b - 1) + 1 = b
    BY <1>1
  <2> QED
    BY <1>1, <2>1, WithinBefore
<1>5. data = SubSeq(File, c.position + 1, Smaller(c.position + c.size, sc.len))
  BY <1>3, <1>4 DEF BlockOf
<1>6. \/ c.position + Len(data) > sc.room /\ ReadAs(Fail(c, "file"))
      \/ Sent(d, Tail(rx), Datagram("data", b, data), 0)
      \/ SendFails(c, Tail(rx), 0)
  <2> HIDE DEF data, b
  <2> QED
    BY <1>5 DEF SendBlock, SendFrom, b
<1> HIDE DEF b, before, data
<1>7. number = Reach(b) /\ number \in Nat /\ Reach(b) <= sc.len /\ sc.len \in Nat
      /\ sc.room \in Nat
  <2>1. sc.len \in Nat /\ sc.room \in Nat
    BY <1>1, Sizes
  <2> QED
    BY <1>2, <1>3, <1>4, <2>1
<1>8. CASE c.position + Len(data) > sc.room /\ ReadAs(Fail(c, "file"))
  <2> DEFINE e == Fail(c, "file")
  <2>1. /\ e \in Clients /\ e.pc = "failed" /\ e.why = "file" /\ e.buffer = c.buffer
        /\ e.disk = c.disk /\ e.tx = c.tx /\ e.size = c.size
    BY DEF Fail, Clients
  <2>2. ReadAs(e)
    BY <1>8
  <2> HIDE DEF e
  <2>3. sc.room < sc.len
    <3>1. number > sc.room
      BY <1>8
    <3> HIDE DEF number
    <3> QED
      BY <1>7, <3>1
  <2>4. WhyInv(e, faults, noise)
    BY <2>1, <2>3 DEF WhyInv
  <2>5. UploadInv(e, srv)
    BY <2>1 DEF UploadInv
  <2>6. sc.mode # "get"
    OBVIOUS
  <2> QED
    BY <1>3, <2>1, <2>2, <2>4, <2>5, <2>6, EndStep
<1>9. CASE Sent(d, Tail(rx), Datagram("data", b, data), 0)
  <2>1. StateSends \in 0..StateSends /\ short \in BOOLEAN
    BY <1>1 DEF IsShort
  <2> HIDE DEF number, short
  <2>2. /\ d \in Clients /\ d.pc = "data" /\ d.tries = StateSends /\ d.tx = data
        /\ d.position = number /\ d.final = short /\ d.block = b
        /\ d.buffer = c.buffer /\ d.disk = c.disk /\ d.size = c.size
        /\ d.remote = c.remote /\ d.why = c.why
    BY <1>2, <1>7, <2>1 DEF Clients, b
  <2>3. Sent(d, Tail(rx), Datagram("data", b, data), 0)
    BY <1>9
  <2> HIDE DEF d
  <2>4. Parts(cl, srv, rx, faults, noise)
    BY DEF IInv
  <2>5. Types(d, srv, Tail(rx), faults, noise)
    <3>1. Len(d.tx) <= d.size
      BY <1>2, <1>3, <2>2
    <3>2. Len(d.buffer) <= FileCapacity /\ Len(d.disk) <= sc.room
      BY <1>3, <2>2
    <3> QED
      BY <2>2, <2>4, <3>1, <3>2, HeadRead DEF Parts, Types
  <2>6. StageInv(d, srv, Tail(rx))
    <3>1. d.tries >= 1
      BY <1>1, <2>2
    <3> QED
      BY <1>3, <2>2, <3>1 DEF StageInv
  <2>7. PutInv(d, srv)
    <3>1. d.block >= 1
      BY <1>1, <2>2
    <3> QED
      BY <1>1, <1>2, <1>3, <1>7, <2>2, <3>1 DEF PutInv
  <2>8. "put" \notin Noisy => UploadInv(d, srv)
    <3>1. b # b + 1
      BY <1>1
    <3> QED
      BY <1>3, <2>2, <3>1 DEF UploadInv, data, before
  <2>9. QueueInv(d, srv, Tail(rx), noise)
    <3>1. srv.expected <= srv.expected /\ noise <= noise
      BY Given DEF Sessions
    <3>2. d.pc # "request"
      BY <2>2
    <3> QED
      BY <3>1, <3>2, Given, HeadRead, StaysSound
  <2>10. /\ Spent(d, faults) /\ WhyInv(d, faults, noise)
         /\ Len(Tail(rx)) <= faults + noise + Ahead(srv)
    <3>1. Spent(d, faults)
      BY <2>2, Given DEF Spent
    <3>2. WhyInv(d, faults, noise)
      BY <1>3, <2>2 DEF WhyInv
    <3> QED
      BY <3>1, <3>2, HeadRead
  <2>11. faults + 0 = faults
    BY Given
  <2>12. Ready(d, srv, Tail(rx), faults, noise)
    <3>1. sc.mode # "get"
      OBVIOUS
    <3> QED
      BY <2>4, <2>5, <2>6, <2>7, <2>8, <2>9, <2>10, <3>1 DEF Parts, Ready
  <2>13. ASSUME NEW reply, reply = respondTftp(srv, d.remote, Datagram("data", b, data))
         PROVE  Parts(d, reply.srv, Tail(rx) \o reply.out, faults + 0, noise)
    <3>1. reply = respondTftp(srv, d.remote, Datagram("data", d.block, d.tx))
      BY <2>2, <2>13
    <3> QED
      BY <1>1, <2>2, <2>11, <2>12, <3>1, DataArrives
  <2> QED
    BY <1>1, <2>3, <2>11, <2>12, <2>13, Given, SendStep
<1>10. CASE SendFails(c, Tail(rx), 0)
  BY <1>3, <1>10, FailStep
<1> QED
  BY <1>6, <1>8, <1>9, <1>10

LEMMA AcceptedStep ==
    ASSUME IInv, PutAccepted
    PROVE  IInv'
<1> DEFINE size == IF Head(rx).op = "oack" THEN RequestBlock ELSE DefaultBlock
           c == [cl EXCEPT !.remote = "server", !.block = 1, !.size = size]
<1>1. /\ cl.pc = "request" /\ sc.mode = "put" /\ rx # <<>>
      /\ Head(rx).op = "oack" \/ Head(rx).op = "ack"
      /\ SendBlock(c)
  BY DEF PutAccepted, Received
<1>2. Parts(cl, srv, rx, faults, noise)
  BY DEF IInv
<1>3. /\ Granted /\ srv.open
      /\ Head(rx).op = "oack" => sc.answer = "oack"
      /\ Head(rx).op = "ack" => sc.answer = "fallback"
  BY <1>1, HeadRead DEF Sound
<1>4. size = ServerBlock /\ size \in {DefaultBlock, RequestBlock}
  BY <1>1, <1>3 DEF ServerBlock
<1> HIDE DEF size
<1>5. /\ cl.disk = <<>> /\ cl.buffer = <<>> /\ cl.tx = <<>> /\ cl.why = "none"
      /\ cl.position = 0
  <2>1. cl = [Fresh EXCEPT !.pc = "request", !.tries = cl.tries]
    BY <1>1, <1>2 DEF Parts, StageInv
  <2> QED
    BY <2>1 DEF Fresh
<1>6. 1 \in 0..BlockModulus - 1 /\ sc \in Scenarios
  BY Given, Sizes
<1>7. /\ c \in Clients /\ c.remote = "server" /\ c.size = ServerBlock
      /\ c.disk = <<>> /\ c.buffer = <<>> /\ c.tx = <<>> /\ c.why = "none"
      /\ c.block = 1 /\ c.position = 0
  BY <1>4, <1>5, <1>6, Given DEF Clients
<1> HIDE DEF c
<1>8. srv.expected = 1 /\ srv.chunks = <<>>
  BY <1>1, <1>2 DEF Parts, StageInv, Untouched
<1>9. /\ c.block >= 1 /\ Within(c.block - 1)
      /\ c.position = (c.block - 1) * ServerBlock
      /\ srv.chunks = Prefix((c.block - 1) * ServerBlock)
  <2>1. c.block - 1 = 0 /\ 0 * ServerBlock = 0 /\ c.block >= 1
    BY <1>6, <1>7, Sizes
  <2>2. Within(0) /\ Prefix(0) = <<>>
    BY <1>6, WithinBefore, Prefixes
  <2> QED
    BY <1>7, <1>8, <2>1, <2>2
<1>10. Len(c.buffer) <= FileCapacity /\ Len(c.disk) <= sc.room /\ Len(c.tx) <= c.size
  <2>1. Len(<<>>) = 0
    BY EmptySeq
  <2> QED
    BY <1>6, <1>7, <2>1, Sizes, TftpAssumption
<1>11. Sending(c)
  BY <1>7, <1>8, <1>9, <1>10 DEF Sending
<1> QED
  BY <1>1, <1>3, <1>7, <1>11, SendBlockStep

LEMMA AckedStep ==
    ASSUME IInv, PutAcked
    PROVE  IInv'
<1> DEFINE b == cl.block
<1>1. /\ cl.pc = "data" /\ sc.mode = "put" /\ rx # <<>>
      /\ Head(rx).op = "ack" /\ Head(rx).block = b
      /\ \/ cl.final /\ ReadAs([cl EXCEPT !.pc = "ok"])
         \/ ~cl.final /\ SendBlock([cl EXCEPT !.block = Next16(b)])
  BY DEF PutAcked, CurrentAck, Received, Clients
<1>2. Parts(cl, srv, rx, faults, noise)
  BY DEF IInv
<1>3. Granted /\ srv.open /\ b < srv.expected
  BY <1>1, HeadRead DEF Sound
<1>4. /\ b >= 1 /\ Within(b - 1) /\ cl.position = Reach(b)
      /\ cl.final <=> ~Within(b)
      /\ srv.expected \in {b, b + 1}
      /\ cl.remote = "server" /\ cl.size = ServerBlock /\ cl.why = "none"
      /\ "put" \notin Noisy => UploadInv(cl, srv)
  BY <1>1, <1>2 DEF Parts, StageInv, PutInv, WhyInv
<1>5. b \in 0..BlockModulus - 1 /\ BlockModulus \in Nat /\ sc \in Scenarios
  BY Given, Sizes DEF Clients
<1>6. b \in Nat \ {0} /\ srv.expected = b + 1
  BY <1>3, <1>4, <1>5
<1>7. /\ "put" \notin Noisy => srv.chunks = Prefix(Reach(b))
      /\ "put" \notin Noisy /\ cl.final => srv.upload = File
  BY <1>1, <1>4, <1>6 DEF UploadInv
<1>8. CASE cl.final /\ ReadAs([cl EXCEPT !.pc = "ok"])
  <2> DEFINE d == [cl EXCEPT !.pc = "ok"]
  <2>1. /\ d \in Clients /\ d.pc = "ok" /\ d.why = "none" /\ d.buffer = cl.buffer
        /\ d.disk = cl.disk /\ d.tx = cl.tx /\ d.size = cl.size
    BY <1>4, Given DEF Clients
  <2>2. ReadAs(d)
    BY <1>8
  <2> HIDE DEF d, b
  <2>3. WhyInv(d, faults, noise)
    BY <2>1 DEF WhyInv
  <2>4. "put" \notin Noisy => UploadInv(d, srv)
    <3>1. "put" \notin Noisy => srv.upload = File
      <4>1. cl.final
        BY <1>8
      <4> QED
        BY <1>7, <4>1
    <3>2. d.pc # "data"
      BY <2>1
    <3> QED
      BY <3>1, <3>2 DEF UploadInv
  <2>5. sc.mode # "get"
    BY <1>1
  <2> QED
    BY <1>1, <2>1, <2>2, <2>3, <2>4, <2>5, Given, EndStep
<1>9. CASE ~cl.final /\ SendBlock([cl EXCEPT !.block = Next16(b)])
  <2> DEFINE n == Next16(b)
             d == [cl EXCEPT !.block = n]
  <2>1. n = b + 1 /\ n \in 0..BlockModulus - 1
    <3>1. Next16(b) = b + 1 /\ b + 1 \in 1..BlockModulus - 1
      BY <1>4, <1>5, NextNumber
    <3> HIDE DEF b
    <3> QED
      BY <1>5, <3>1
  <2> HIDE DEF n
  <2>2. /\ d \in Clients /\ d.block = n /\ d.position = cl.position
        /\ d.buffer = cl.buffer /\ d.disk = cl.disk /\ d.tx = cl.tx /\ d.size = cl.size
        /\ d.remote = cl.remote /\ d.why = cl.why
    BY <2>1, Given DEF Clients
  <2>3. SendBlock(d)
    BY <1>9 DEF n
  <2> HIDE DEF d, b
  <2>4. Within(b) /\ Reach(b) = b * ServerBlock
    BY <1>4, <1>5, <1>6, <1>9, Blocks
  <2>5. d.block - 1 = b /\ d.block >= 1 /\ srv.expected = d.block
    BY <1>6, <2>1, <2>2
  <2>6. Sending(d)
    <3>1. Within(d.block - 1)
      BY <2>4, <2>5
    <3>2. d.position = (d.block - 1) * ServerBlock
      BY <1>4, <2>2, <2>4, <2>5
    <3>3. "put" \notin Noisy => srv.chunks = Prefix((d.block - 1) * ServerBlock)
      <4>1. d.block - 1 = b
        BY <2>5
      <4>2. Prefix((d.block - 1) * ServerBlock) = Prefix(Reach(b))
        BY <2>4, <4>1
      <4> QED
        BY <1>7, <4>2
    <3>4. Len(d.buffer) <= FileCapacity /\ Len(d.disk) <= sc.room /\ Len(d.tx) <= d.size
      BY <2>2, Given
    <3> QED
      BY <1>4, <2>2, <2>5, <3>1, <3>2, <3>3, <3>4 DEF Sending
  <2> QED
    BY <1>1, <1>3, <2>2, <2>3, <2>6, SendBlockStep
<1> QED
  BY <1>1, <1>8, <1>9

----------------------------------------------------------------------------
(* The invariant. *)

LEMMA InitInv ==
    ASSUME Init
    PROVE  IInv
<1>1. sc \in Scenarios /\ cl = Fresh /\ srv = Session /\ rx = <<>> /\ faults = 0 /\ noise = 0
  BY DEF Init, Scenarios
<1>2. /\ 0 \in 0..BlockModulus - 1 /\ 1 \in 0..BlockModulus - 1 /\ 0 \in 0..StateSends
      /\ 0 \in 0..MaxFaults /\ 0 \in 0..MaxNoise
  <2>1. BlockModulus \in Nat /\ BlockModulus > 3
    BY <1>1, Sizes
  <2> QED
    BY <2>1, TftpAssumption
<1>3. /\ <<>> \in Seq(Nat) /\ <<>> \in Seq(Datagrams) /\ Len(<<>>) = 0
      /\ None \in Int /\ <<None>> \in Seq(Int)
  BY EmptySeq DEF None
<1>4. /\ Fresh \in Clients /\ Fresh.pc = "start" /\ Fresh.why = "none"
      /\ Fresh.buffer = <<>> /\ Fresh.disk = <<>> /\ Fresh.tx = <<>>
      /\ Fresh.size = DefaultBlock
  BY <1>2, <1>3 DEF Fresh, Clients
<1>5. Session \in Sessions /\ Session.final = None /\ ~Session.reordered
  BY <1>2, <1>3 DEF Session, Sessions
<1>6. Types(Fresh, Session, <<>>, 0, 0)
  <2>1. sc.room \in Nat /\ FileCapacity \in Nat /\ DefaultBlock \in Nat
    BY <1>1, Sizes, TftpAssumption
  <2> QED
    BY <1>2, <1>3, <1>4, <1>5, <2>1 DEF Types
<1>7. SessionInv(Session)
  BY <1>5 DEF SessionInv
<1>8. /\ StageInv(Fresh, Session, <<>>) /\ GetInv(Fresh) /\ PutInv(Fresh, Session)
      /\ UploadInv(Fresh, Session) /\ TriesInv(Fresh, <<>>, 0) /\ WhyInv(Fresh, 0, 0)
  BY <1>4 DEF StageInv, GetInv, PutInv, UploadInv, TriesInv, Spent, WhyInv
<1>9. QueueInv(Fresh, Session, <<>>, 0)
  BY <1>3 DEF QueueInv
<1>10. CopyInv(Session, <<>>, 0, 0)
  BY <1>3, <1>5 DEF CopyInv, Ahead
<1>11. Parts(Fresh, Session, <<>>, 0, 0)
  BY <1>6, <1>7, <1>8, <1>9, <1>10 DEF Parts
<1> QED
  BY <1>1, <1>11 DEF IInv

LEMMA NextInv ==
    ASSUME IInv, [Next]_vars
    PROVE  IInv'
<1>1. CASE Start
  BY <1>1, StartStep
<1>2. CASE Timeout
  BY <1>2, WaitStep DEF Timeout
<1>3. CASE LateAnswer
  BY <1>3, WaitStep DEF LateAnswer
<1>3a. CASE WaitFails
  BY <1>3a, WaitFailsStep
<1>4. CASE GetOack
  BY <1>4, OackStep
<1>5. CASE GetFirst
  BY <1>5, GetFirstStep
<1>6. CASE GetBlock
  BY <1>6, GetBlockStep
<1>7. CASE GetPrevious
  BY <1>7, PreviousStep
<1>8. CASE DallyOver
  BY <1>8, DallyStep
<1>9. CASE PutAccepted
  BY <1>9, AcceptedStep
<1>10. CASE PutAcked
  BY <1>10, AckedStep
<1>11. CASE Refused \/ Unreachable
  BY <1>11, RefusedSteps
<1>12. CASE AnswerHost \/ AnswerStranger \/ Ignore
  BY <1>12, NoiseSteps
<1>13. CASE LoseAnswer \/ Duplicate \/ Overtake
  BY <1>13, DisturbSteps
<1>14. CASE OtherHost
  BY <1>14, OtherHostStep
<1>15. CASE UNCHANGED vars
  <2>1. sc' = sc /\ cl' = cl /\ srv' = srv /\ rx' = rx /\ faults' = faults /\ noise' = noise
    BY <1>15 DEF vars
  <2>2. sc \in Scenarios /\ Parts(cl, srv, rx, faults, noise)
    BY DEF IInv
  <2>3. Parts(cl', srv', rx', faults', noise')
    BY <2>1, <2>2
  <2> QED
    BY <2>1, <2>2, <2>3, SameRun
<1> QED
  BY <1>1, <1>2, <1>3, <1>3a, <1>4, <1>5, <1>6, <1>7, <1>8, <1>9, <1>10, <1>11, <1>12,
     <1>13, <1>14, <1>15 DEF Next

\* IInv holds in every reachable state: client, server and card agree on the blocks that
\* have been moved, whatever is lost, doubled, overtaken or late.
THEOREM Invariant == Spec => []IInv
<1>1. Init => IInv
  BY InitInv
<1>2. IInv /\ [Next]_vars => IInv'
  BY NextInv
<1> QED
  BY <1>1, <1>2, PTL DEF Spec

\* The types: among them the local file never beyond its room (DSS), the file buffer
\* never beyond STAGE9_FILE_CAPACITY and a block never beyond the negotiated size.
THEOREM TypeCorrect == Spec => []TypeOK
<1>1. IInv => TypeOK
  <2> SUFFICES ASSUME IInv
               PROVE  TypeOK
    OBVIOUS
  <2>1. Types(cl, srv, rx, faults, noise) /\ WhyInv(cl, faults, noise)
    BY DEF IInv, Parts
  <2>2. (cl.why = "none") = (cl.pc # "failed")
    BY <2>1 DEF WhyInv
  <2> QED
    BY <2>1, <2>2 DEF Types, TypeOK, Clients, Sessions
<1> QED
  BY <1>1, Invariant, PTL

\* A state is given up for a timeout only after StateSends faults or a silent server, for
\* the local file only when it is shorter than the file moved, for the network only after
\* a driver error, and so on: no noise and no old answer spends a try.
THEOREM FailsWithReason == Spec => []FailsForAReason
<1>1. IInv => FailsForAReason
  BY DEF IInv, Parts, WhyInv, FailsForAReason
<1> QED
  BY <1>1, Invariant, PTL

\* The copies of a datagram do not multiply, although the client answers every copy of
\* the block before, in the data state and while it dallies.
THEOREM CopiesBounded == Spec => []CopiesDoNotBreed
<1>1. IInv => CopiesDoNotBreed
  <2> SUFFICES ASSUME IInv
               PROVE  CopiesDoNotBreed
    OBVIOUS
  <2>1. CopyInv(srv, rx, faults, noise)
    BY DEF IInv, Parts
  <2> QED
    BY <2>1 DEF CopyInv, Ahead, CopiesDoNotBreed
<1> QED
  BY <1>1, Invariant, PTL

\* RESULT OK means the whole file, byte for byte, on the disk of a GET and at the server
\* of a PUT.  A GET may be disturbed by other hosts; a PUT must not: the answer to one is
\* built over the block that will be sent again.
THEOREM WholeFile ==
    ASSUME "put" \notin Noisy
    PROVE  Spec => []OkMeansWhole
<1>1. IInv => OkMeansWhole
  <2> SUFFICES ASSUME IInv, cl.pc = "ok"
               PROVE  File = IF sc.mode = "get" THEN cl.disk ELSE srv.upload
    BY DEF OkMeansWhole
  <2>1. sc.mode \in {"get", "put"}
    BY Given
  <2>2. CASE sc.mode = "get"
    BY <2>2 DEF IInv, Parts, GetInv
  <2>3. CASE sc.mode = "put"
    BY <2>3 DEF IInv, Parts, UploadInv
  <2> QED
    BY <2>1, <2>2, <2>3
<1> QED
  BY <1>1, Invariant, PTL
=============================================================================
