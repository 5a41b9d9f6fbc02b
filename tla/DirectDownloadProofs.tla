----------------------- MODULE DirectDownloadProofs -----------------------
(***************************************************************************)
(* Proofs about DirectDownload, for every segment size, body, window       *)
(* target, buffer, path delay and set of losses: what RECV has returned,   *)
(* copied and keeps pending is a beginning of the body; the right edge     *)
(* promised to the server is never taken back; the receiver's counters     *)
(* stay in range; and no ACK releases more than the card's FIFO holds.     *)
(*                                                                         *)
(* A step replaces the client, the card or the connection as a whole, so   *)
(* the parts of the invariant are operators of the values before or after: *)
(* c the client, k the card, n the connection.                             *)
(***************************************************************************)
EXTENDS DirectDownload, SequenceTheorems, FiniteSetTheorems, TLAPS

\* d is the bytes of the body behind offset a.
Run(d, a) == \A i \in 1..Len(d) : d[i] = a + i

\* How far the server has sent: its offset, and where its last segment started.
Marks == {m \in [next : Nat, last : 0..BodyLen] : m.last <= m.next}

\* A piece of the body sent so far; the FIN only on the last segment.
Whole(seq, data, fin, m) ==
    /\ Run(data, seq) /\ Len(data) <= MSS
    /\ seq + Len(data) <= BodyLen /\ seq + Len(data) <= m.next /\ seq <= m.last
    /\ fin => seq + Len(data) = BodyLen /\ seq = m.last /\ BodyLen + 1 <= m.next

Bytes == Seq(Int)
Frames(m) ==
    {f \in [seq : Nat, ack : Nat, data : Bytes, fin : BOOLEAN, bad : BOOLEAN] :
        /\ f.data = <<>> => ~f.fin /\ ~f.bad
        /\ f.data # <<>> /\ ~f.bad => Whole(f.seq, f.data, f.fin, m)
        /\ f.bad => f.seq = 0}
Pieces(m) ==
    {e \in [seq : Nat, data : Bytes, fin : BOOLEAN] :
        e.data # <<>> /\ Whole(e.seq, e.data, e.fin, m)}
KeptPieces(m) ==
    {e \in [seq : Nat, data : Bytes] : e.data # <<>> /\ Whole(e.seq, e.data, FALSE, m)}
Outgoing ==
    [seq : Nat, data : {<<>>, Request}, ack : Nat, window : Int, fin : {FALSE}]

LateFrames(m) == [polls : Int, frame : Frames(m)]
RxQueues(m) == Seq(Frames(m))
LateQueues(m) == Seq(LateFrames(m))
TxQueues == Seq(Outgoing)
KeptSets(m) == SUBSET KeptPieces(m)
SentSets(m) == SUBSET Pieces(m)
SeqSets == SUBSET Nat

Cards(m) ==
    [rx : RxQueues(m), tx : TxQueues, delayed : LateQueues(m),
     dataSent : Nat, lost : Nat, resent : Nat, holeMoves : Nat, burst : 0..3]
Conns(m) ==
    [next : Nat, acked : Nat, clientNext : Nat, clientWindow : Int,
     queue : Bytes, established : BOOLEAN, finSent : BOOLEAN,
     sent : SentSets(m), duplicateAcks : Nat, recover : Int, lostSeqs : SeqSets,
     holeAck : Int, corruptSent : BOOLEAN, serving : BOOLEAN, burst : Nat,
     owes : BOOLEAN]
Clients(m) ==
    [rcv : Nat, fin : BOOLEAN, off : Nat, pend : Bytes, free : Nat, buf : Bytes,
     kept : KeptSets(m), blocked : BOOLEAN, edge : Int, window : Int, grow : Int,
     segments : Int, pace : Int, hole : Int, due : BOOLEAN, event : BOOLEAN,
     shut : BOOLEAN, wnd : Int]

\* The payload the server has sent, the FIN not counted.
Paid(n) == n.next - (IF n.finSent THEN 1 ELSE 0)

\* The queue holds the rest of the body, the FIN goes out with its last byte, and
\* nothing is sent beyond the window.
QueueInv(n) ==
    /\ n.clientNext \in 0..1 /\ n.acked <= n.next
    /\ n.clientNext = 0 => n.queue = <<>> /\ n.next = 0 /\ ~n.finSent
    /\ n.clientNext = 1 =>
           /\ Run(n.queue, Paid(n)) /\ Paid(n) + Len(n.queue) = BodyLen
           /\ n.finSent <=> n.queue = <<>>
    /\ Paid(n) <= n.acked + n.clientWindow
    /\ sc.o.corruptOnce => n.corruptSent \/ n.next = 0
\* A drain has something to send and no more than the card has room for; no drain
\* has ended with data the window still allows.
ServerInv(n) ==
    /\ QueueInv(n)
    /\ n.serving => CanSend(n) /\ n.burst <= 2 /\ Available(n) <= (3 - n.burst) * MSS
    /\ ~n.serving => n.burst = 0 /\ (n.queue # <<>> => n.acked + n.clientWindow <= n.next)

\* The window the target asks for is less than half of what sixteen bits count, so the
\* low words of EDGE and RCV.NXT say how far they are apart (true of -w up to 22).
Narrow == \A t \in Targets : 2 * (t * MSS) < Word

\* The paced window.
WindowInv(c) ==
    /\ 2 * (sc.target * MSS) < Word
    /\ c.segments \in 1..sc.target /\ c.window = c.segments * MSS
    /\ c.grow \in 1..sc.target + SetupSegments
    /\ c.edge - c.rcv <= c.window
    /\ c.pace \in 0..PacePolls /\ c.hole \in 0..HoleAcks

\* At most a segment waits in the pending region, so the window is never shut.
BufferInv(c) ==
    /\ c.off = 0 /\ Len(c.pend) <= MSS /\ ~c.shut
    /\ Len(c.buf) <= c.free /\ c.free \in {0, sc.capacity}
    /\ IsFiniteSet(c.kept) /\ Cardinality(c.kept) <= Slots

\* What RECV has returned, copied and keeps pending, in a row; the FIN is behind it.
Received(c) == c.rcv - (IF c.fin THEN 1 ELSE 0)
StreamInv(c, a) ==
    /\ Run(a, 0) /\ Run(c.buf, Len(a)) /\ Run(c.pend, Len(a) + Len(c.buf))
    /\ Len(a) + Len(c.buf) + Len(c.pend) = Received(c)
    /\ Received(c) <= BodyLen /\ (c.fin => c.rcv = BodyLen + 1)

\* Where a buffer is open and how much room it has, and where nothing is pending.
PlaceInv(p, from, c) ==
    /\ p \in {"open", "request", "send", "wait", "drain"} => c.pend = <<>>
    /\ p \in {"check", "copy", "wait", "return"} => c.free = sc.capacity
    /\ p = "drain" /\ from # "send" => c.free = sc.capacity
    /\ p \in {"open", "request", "send", "app"} => c.free = 0
    /\ p = "drain" /\ from = "send" => c.free = 0
    /\ p \in {"check", "copy"} => Len(c.buf) + MSS <= sc.capacity

\* Nothing kept is at or behind RCV.NXT while the card is polled, unless it waits for
\* room; so nothing is kept behind the end of the stream when a segment goes out.
StaleInv(p, c) ==
    /\ p \in {"send", "wait"} /\ ~c.blocked => \A e \in c.kept : e.seq > c.rcv
    /\ p # "drain" /\ c.fin /\ ~c.blocked => c.kept = {}
    /\ p \in {"open", "request"} => c.kept = {}

ClientInv(c, a, p, from, m) ==
    /\ c \in Clients(m) /\ WindowInv(c) /\ BufferInv(c) /\ c.wnd >= 0
    /\ StreamInv(c, a) /\ PlaceInv(p, from, c) /\ StaleInv(p, c)

\* What the server takes for the right edge is the edge, but for the segment that is
\* being answered.
Settled(c, n) ==
    n.acked <= c.rcv /\ c.rcv <= n.next /\ n.acked + n.clientWindow = c.edge
InFlight(g, c, n) ==
    /\ g.ack = c.rcv /\ g.window = c.edge - c.rcv
    /\ g.data = <<>> => c.edge <= n.acked + n.clientWindow + 2 * MSS
    /\ g.data # <<>> =>
           /\ g.seq = 0
           /\ n.clientNext = 0 => c.edge <= 3 * MSS
           /\ n.clientNext = 1 => c.edge = n.acked + n.clientWindow
PromiseInv(c, k, n) ==
    /\ n.acked <= c.rcv /\ c.rcv <= n.next /\ n.acked + n.clientWindow <= c.edge
    /\ k.tx = <<>> => n.acked + n.clientWindow = c.edge
    /\ k.tx # <<>> => ~n.serving /\ Len(k.tx) = 1 /\ InFlight(k.tx[1], c, n)

\* Until the request is answered the window is the initial one: the segments of the
\* handshake and one repeated request do not use up the growth countdown.
Good(q) == \E i \in 1..Len(q) : ~q[i].bad
Fresh(c) ==
    /\ c.segments = Smaller(sc.target, InitialSegments)
    /\ c.kept = {} /\ c.rcv = 0 /\ ~c.fin /\ ~c.due /\ c.pace = 0
HandInv(p, c, k, n) ==
    /\ p = "request" =>
           /\ Fresh(c) /\ c.edge = MSS /\ c.grow = c.segments + 1
           /\ n.clientNext = 0 /\ (k.tx # <<>> => k.tx[1].data = <<>>)
    /\ p = "send" =>
           /\ Fresh(c) /\ c.edge = c.window
           /\ n.clientNext = 1 \/ k.tx # <<>>
           /\ k.tx # <<>> => k.tx[1].data # <<>>
           /\ \/ c.segments = sc.target
              \/ c.grow >= 3
              \/ c.grow = 2 /\ n.clientNext = 1 /\ (k.tx # <<>> \/ Good(k.rx))
    /\ p \notin {"request", "send"} /\ k.tx # <<>> => k.tx[1].data = <<>>

Places == {"open", "request", "send", "app", "check", "copy", "wait", "drain",
           "return", "done", "failed"}
Callers == {"check", "send", "wait"}

Inv(m) ==
    /\ m.next = conn.next
    /\ sc \in Scenarios /\ pc \in Places /\ caller \in Callers /\ app \in Bytes
    /\ card \in Cards(m) /\ conn \in Conns(m) /\ ServerInv(conn)
    /\ ClientInv(cl, app, pc, caller, m)
    /\ pc # "open" => PromiseInv(cl, card, conn) /\ HandInv(pc, cl, card, conn)
    /\ pc = "open" => /\ cl = Client(Smaller(sc.target, InitialSegments))
                      /\ card = NewCard /\ conn = NewConn(0) /\ app = <<>>
IInv == \E m \in Marks : Inv(m)
----------------------------------------------------------------------------
(***************************************************************************)
(* The constants, runs of bytes and what only grows.                       *)
(***************************************************************************)
LEMMA Sizes == /\ MSS \in Nat \ {0} /\ BodyLen \in Nat \ {0}
               /\ Word \in Nat /\ 4 * MSS <= Word
BY ConstAssumption

LEMMA ScenarioFacts ==
    ASSUME sc \in Scenarios
    PROVE  /\ sc.target \in Nat \ {0} /\ sc.capacity \in Nat /\ sc.capacity >= MSS
           /\ sc.page \in BOOLEAN
           /\ sc.o.mss = MSS /\ sc.o.delay \in Nat /\ sc.o.lose \subseteq Nat
           /\ sc.o.duplicate \in BOOLEAN /\ sc.o.corruptOnce \in BOOLEAN
           /\ sc.o.finWhenDrained = TRUE /\ sc.o.response = Body
<1>1. PICK t \in Targets, c \in Capacities, g \in Pages, d \in Delays, l \in LossSets,
           w \in Twice, b \in Damaged :
        sc = [target |-> t, capacity |-> c, page |-> g,
              o |-> [mss |-> MSS, delay |-> d, lose |-> l, duplicate |-> w,
                     corruptOnce |-> b, finWhenDrained |-> TRUE, response |-> Body]]
  BY DEF Scenarios
<1>2. t \in Nat \ {0} /\ c \in Nat /\ c >= MSS /\ g \in BOOLEAN /\ d \in Nat
      /\ l \subseteq Nat /\ w \in BOOLEAN /\ b \in BOOLEAN
  BY ConstAssumption
<1> QED
  BY <1>1, <1>2

LEMMA RunOfBody == Body \in Bytes /\ Len(Body) = BodyLen /\ Run(Body, 0)
BY Sizes DEF Body, Bytes, Run

LEMMA RunOfNothing == \A a \in Int : <<>> \in Bytes /\ Run(<<>>, a)
BY DEF Bytes, Run

\* Two runs in a row are a run.
LEMMA RunConcat ==
    ASSUME NEW s \in Bytes, NEW t \in Bytes, NEW a \in Int,
           Run(s, a), Run(t, a + Len(s))
    PROVE  s \o t \in Bytes /\ Len(s \o t) = Len(s) + Len(t) /\ Run(s \o t, a)
<1>1. /\ s \o t \in Bytes /\ Len(s \o t) = Len(s) + Len(t)
      /\ \A i \in 1..Len(s) + Len(t) :
            (s \o t)[i] = IF i <= Len(s) THEN s[i] ELSE t[i - Len(s)]
  BY ConcatProperties DEF Bytes
<1>2. ASSUME NEW i \in 1..Len(s) + Len(t) PROVE (s \o t)[i] = a + i
  <2>1. Len(s) \in Nat /\ Len(t) \in Nat
    BY DEF Bytes
  <2>2. CASE i <= Len(s)
    BY <1>1, <2>1, <2>2 DEF Run
  <2>3. CASE ~(i <= Len(s))
    <3>1. i - Len(s) \in 1..Len(t)
      BY <2>1, <2>3
    <3>2. t[i - Len(s)] = a + Len(s) + (i - Len(s))
      BY <3>1 DEF Run
    <3> QED
      BY <1>1, <2>1, <2>3, <3>2
  <2> QED
    BY <2>2, <2>3
<1> QED
  BY <1>1, <1>2 DEF Run

\* A part of a run is a run.
LEMMA RunPart ==
    ASSUME NEW s \in Bytes, NEW a \in Int, Run(s, a),
           NEW m \in Nat, NEW n \in Nat, 1 <= m, m <= n + 1, n <= Len(s)
    PROVE  /\ SubSeq(s, m, n) \in Bytes /\ Len(SubSeq(s, m, n)) = n - m + 1
           /\ Run(SubSeq(s, m, n), a + m - 1)
<1>1. /\ SubSeq(s, m, n) \in Bytes /\ Len(SubSeq(s, m, n)) = n - m + 1
      /\ \A i \in 1..n - m + 1 : SubSeq(s, m, n)[i] = s[m + i - 1]
  BY SubSeqProperties, SMTT(60) DEF Bytes
<1>2. ASSUME NEW i \in 1..n - m + 1 PROVE SubSeq(s, m, n)[i] = a + m - 1 + i
  <2>1. m + i - 1 \in 1..Len(s)
    BY DEF Bytes
  <2>2. s[m + i - 1] = a + (m + i - 1)
    BY <2>1 DEF Run
  <2> QED
    BY <1>1, <2>2
<1> QED
  BY <1>1, <1>2 DEF Run

LEMMA RunSplit ==
    ASSUME NEW s \in Bytes, NEW a \in Nat, Run(s, a), NEW n \in Nat, n <= Len(s)
    PROVE  /\ SubSeq(s, 1, n) \in Bytes /\ Len(SubSeq(s, 1, n)) = n
           /\ Run(SubSeq(s, 1, n), a)
           /\ SubSeq(s, n + 1, Len(s)) \in Bytes
           /\ Len(SubSeq(s, n + 1, Len(s))) = Len(s) - n
           /\ Run(SubSeq(s, n + 1, Len(s)), a + n)
<1> DEFINE first == SubSeq(s, 1, n)
           rest == SubSeq(s, n + 1, Len(s))
<1>1. Len(s) \in Nat /\ a \in Int
  BY DEF Bytes
<1>2. first \in Bytes /\ Len(first) = n - 1 + 1 /\ Run(first, a + 1 - 1)
  <2>1. 1 \in Nat /\ 1 <= 1 /\ 1 <= n + 1
    OBVIOUS
  <2> QED
    BY <1>1, <2>1, RunPart, Zenon
<1>3. /\ rest \in Bytes /\ Len(rest) = Len(s) - (n + 1) + 1
      /\ Run(rest, a + (n + 1) - 1)
  <2>1. n + 1 \in Nat /\ 1 <= n + 1 /\ n + 1 <= Len(s) + 1 /\ Len(s) <= Len(s)
    BY <1>1
  <2> QED
    BY <1>1, <2>1, RunPart, Zenon
<1>4. n - 1 + 1 = n /\ a + 1 - 1 = a /\ Len(s) - (n + 1) + 1 = Len(s) - n
      /\ a + (n + 1) - 1 = a + n
  BY <1>1
<1> QED
  BY <1>2, <1>3, <1>4, Zenon

\* What has been sent stays sent, and nothing follows the segment with the FIN.
Later(m, l) ==
    m.next <= l.next /\ m.last <= l.last /\ (BodyLen + 1 <= m.next => l.last = m.last)

LEMMA WholeGrows ==
    ASSUME NEW m \in Marks, NEW l \in Marks, Later(m, l)
    PROVE  /\ Frames(m) \subseteq Frames(l)
           /\ Pieces(m) \subseteq Pieces(l)
           /\ KeptPieces(m) \subseteq KeptPieces(l)
<1>1. ASSUME NEW q \in Nat, NEW d \in Bytes, NEW f, Whole(q, d, f, m)
      PROVE  Whole(q, d, f, l)
  BY <1>1, Sizes DEF Whole, Bytes, Later, Marks
<1> QED
  BY <1>1, Zenon DEF Frames, Pieces, KeptPieces

LEMMA QueuesGrow ==
    ASSUME NEW m \in Marks, NEW l \in Marks, Later(m, l)
    PROVE  /\ RxQueues(m) \subseteq RxQueues(l)
           /\ LateQueues(m) \subseteq LateQueues(l)
           /\ KeptSets(m) \subseteq KeptSets(l)
           /\ SentSets(m) \subseteq SentSets(l)
<1>1. LateFrames(m) \subseteq LateFrames(l)
  BY WholeGrows, Zenon DEF LateFrames
<1>2. \A S, T : S \subseteq T => Seq(S) \subseteq Seq(T)
  OBVIOUS
<1> QED
  BY <1>1, <1>2, WholeGrows DEF RxQueues, LateQueues, KeptSets, SentSets

LEMMA StateGrows ==
    ASSUME NEW m \in Marks, NEW l \in Marks, Later(m, l)
    PROVE  /\ Cards(m) \subseteq Cards(l)
           /\ Conns(m) \subseteq Conns(l)
           /\ Clients(m) \subseteq Clients(l)
<1>1. Cards(m) \subseteq Cards(l)
  BY QueuesGrow, ZenonT(30) DEF Cards
<1>2. Conns(m) \subseteq Conns(l)
  BY QueuesGrow, ZenonT(30) DEF Conns
<1>3. Clients(m) \subseteq Clients(l)
  BY QueuesGrow, ZenonT(30) DEF Clients
<1> QED
  BY <1>1, <1>2, <1>3
----------------------------------------------------------------------------
(***************************************************************************)
(* The client: what it advertises and sends.                               *)
(***************************************************************************)
LEMMA ClientTypes ==
    ASSUME NEW m, NEW c \in Clients(m)
    PROVE  /\ c.rcv \in Nat /\ c.fin \in BOOLEAN /\ c.off \in Nat /\ c.pend \in Bytes
           /\ c.free \in Nat /\ c.buf \in Bytes /\ c.kept \in KeptSets(m)
           /\ c.blocked \in BOOLEAN /\ c.edge \in Int /\ c.window \in Int
           /\ c.grow \in Int /\ c.segments \in Int /\ c.pace \in Int /\ c.hole \in Int
           /\ c.due \in BOOLEAN /\ c.event \in BOOLEAN /\ c.shut \in BOOLEAN
           /\ c.wnd \in Int
           /\ Len(c.pend) \in Nat /\ Len(c.buf) \in Nat
<1>1. c.pend \in Bytes /\ c.buf \in Bytes
  BY DEF Clients
<1>2. Len(c.pend) \in Nat /\ Len(c.buf) \in Nat
  BY <1>1 DEF Bytes
<1> QED
  BY <1>2 DEF Clients

LEMMA CardTypes ==
    ASSUME NEW m, NEW k \in Cards(m)
    PROVE  /\ k.rx \in RxQueues(m) /\ k.tx \in TxQueues
           /\ k.delayed \in LateQueues(m) /\ k.dataSent \in Nat /\ k.lost \in Nat
           /\ k.resent \in Nat /\ k.holeMoves \in Nat /\ k.burst \in 0..3
BY DEF Cards

\* What a step of the client that only sends leaves alone.
SameStream(c, d) ==
    /\ d.rcv = c.rcv /\ d.fin = c.fin /\ d.off = c.off /\ d.pend = c.pend
    /\ d.free = c.free /\ d.buf = c.buf /\ d.kept = c.kept
SameTimers(c, d) ==
    d.blocked = c.blocked /\ d.pace = c.pace /\ d.hole = c.hole /\ d.event = c.event
SameQueues(k, l) ==
    /\ l.rx = k.rx /\ l.delayed = k.delayed /\ l.dataSent = k.dataSent
    /\ l.lost = k.lost /\ l.resent = k.resent /\ l.holeMoves = k.holeMoves
    /\ l.burst = k.burst

LEMMA SameInv ==
    ASSUME NEW c, NEW d, SameStream(c, d), d.blocked = c.blocked,
           NEW a, NEW p, NEW from,
           StreamInv(c, a), PlaceInv(p, from, c), StaleInv(p, c)
    PROVE  StreamInv(d, a) /\ PlaceInv(p, from, d) /\ StaleInv(p, d)
BY Zenon DEF SameStream, StreamInv, PlaceInv, StaleInv, Received

LEMMA WindowFacts ==
    ASSUME sc.target \in Nat \ {0}, NEW m, NEW c \in Clients(m), WindowInv(c)
    PROVE  /\ c.segments \in Nat /\ 1 <= c.segments /\ c.segments <= sc.target
           /\ c.grow \in Nat /\ 1 <= c.grow /\ c.grow <= sc.target + 3
           /\ c.window \in Nat /\ c.edge - c.rcv <= c.window
           /\ 2 * c.window < Word
<1>1. /\ c.segments * MSS \in Nat /\ sc.target * MSS \in Nat
      /\ c.segments * MSS <= sc.target * MSS /\ c.window = c.segments * MSS
      /\ 2 * (sc.target * MSS) < Word
  BY Sizes DEF WindowInv
<1>2. 2 * c.window < Word
  BY <1>1, Sizes
<1> QED
  BY <1>1, <1>2, Sizes DEF WindowInv, SetupSegments

\* The low word of a distance within range is the distance.
LEMMA LowExact ==
    ASSUME NEW n \in Int, 0 <= n, n < Word
    PROVE  Low(n) = n
BY Sizes DEF Low

LEMMA GrownStep ==
    ASSUME sc.target \in Nat \ {0}, NEW m, NEW c \in Clients(m), WindowInv(c),
           NEW g, g = Grown(c)
    PROVE  /\ g \in Clients(m) /\ WindowInv(g)
           /\ SameStream(c, g) /\ SameTimers(c, g) /\ g.due = c.due
           /\ g.edge = c.edge /\ g.shut = c.shut /\ g.window >= c.window
           /\ c.grow > 1 => g.grow = c.grow - 1 /\ g.segments = c.segments
           /\ c.segments = sc.target => g.segments = c.segments
<1>0. /\ c.grow \in Int /\ c.segments \in Int /\ c.window \in Int /\ MSS \in Nat
      /\ c.grow - 1 \in Int /\ c.segments + 1 \in Int /\ c.window + MSS \in Int
  BY ClientTypes, Sizes
<1>1. CASE c.grow > 1
  <2>1. g = [c EXCEPT !.grow = c.grow - 1]
    BY <1>1 DEF Grown
  <2>2. g \in Clients(m)
    BY <1>0, <2>1, ZenonT(60) DEF Clients
  <2>3. /\ SameStream(c, g) /\ SameTimers(c, g) /\ g.due = c.due /\ g.edge = c.edge
        /\ g.shut = c.shut /\ g.window = c.window /\ g.segments = c.segments
        /\ g.grow = c.grow - 1
    BY <2>1, ZenonT(30) DEF Clients, SameStream, SameTimers
  <2>4. g.grow \in 1..sc.target + SetupSegments
    BY <1>1, <2>3, WindowFacts DEF SetupSegments
  <2>5. WindowInv(g)
    BY <2>3, <2>4, Zenon DEF WindowInv, SameStream, SameTimers
  <2> QED
    BY <1>0, <1>1, <2>2, <2>3, <2>5
<1>2. CASE ~(c.grow > 1) /\ c.segments < sc.target
  <2>1. g = [c EXCEPT !.segments = c.segments + 1, !.window = c.window + MSS,
                      !.grow = c.segments + 1]
    BY <1>2 DEF Grown
  <2>2. g \in Clients(m)
    BY <1>0, <2>1, ZenonT(60) DEF Clients
  <2>3. /\ SameStream(c, g) /\ SameTimers(c, g) /\ g.due = c.due /\ g.edge = c.edge
        /\ g.shut = c.shut /\ g.window = c.window + MSS
        /\ g.segments = c.segments + 1 /\ g.grow = c.segments + 1
    BY <2>1, ZenonT(30) DEF Clients, SameStream, SameTimers
  <2>4. g.window = g.segments * MSS
    BY <1>0, <2>3 DEF WindowInv
  <2>5. /\ g.segments \in 1..sc.target /\ g.grow \in 1..sc.target + SetupSegments
        /\ c.edge - c.rcv <= g.window /\ g.window >= c.window
    <3>1. /\ 1 <= c.segments /\ c.edge - c.rcv <= c.window /\ c.segments \in Int
          /\ c.window \in Int /\ sc.target \in Nat /\ c.edge \in Int /\ c.rcv \in Nat
      BY <1>0, WindowFacts, ClientTypes
    <3>2. /\ c.segments + 1 \in 1..sc.target
          /\ c.segments + 1 \in 1..sc.target + SetupSegments
      BY <1>2, <3>1 DEF SetupSegments
    <3>3. \A x, w, s \in Int : x <= w /\ s >= 0 => x <= w + s /\ w + s >= w
      OBVIOUS
    <3>4. c.edge - c.rcv \in Int /\ MSS \in Int /\ MSS >= 0
      BY <1>0, <3>1
    <3>5. c.edge - c.rcv <= c.window + MSS /\ c.window + MSS >= c.window
      BY <3>1, <3>3, <3>4
    <3> QED
      BY <2>3, <3>2, <3>5
  <2>6. WindowInv(g)
    BY <2>3, <2>4, <2>5, Zenon DEF WindowInv, SameStream, SameTimers
  <2> QED
    BY <1>2, <2>2, <2>3, <2>5, <2>6
<1>3. CASE ~(c.grow > 1) /\ ~(c.segments < sc.target)
  <2>1. g = [c EXCEPT !.grow = c.segments]
    BY <1>3 DEF Grown
  <2>2. g \in Clients(m)
    BY <1>0, <2>1, ZenonT(60) DEF Clients
  <2>3. /\ SameStream(c, g) /\ SameTimers(c, g) /\ g.due = c.due /\ g.edge = c.edge
        /\ g.shut = c.shut /\ g.window = c.window /\ g.segments = c.segments
        /\ g.grow = c.segments
    BY <2>1, ZenonT(30) DEF Clients, SameStream, SameTimers
  <2>4. g.grow \in 1..sc.target + SetupSegments
    BY <2>3, WindowFacts DEF SetupSegments
  <2>5. WindowInv(g)
    BY <2>3, <2>4, Zenon DEF WindowInv, SameStream, SameTimers
  <2> QED
    BY <1>0, <1>3, <2>2, <2>3, <2>5
<1> QED
  BY <1>1, <1>2, <1>3

\* The client has not received beyond the edge, the FIN and the handshake apart.
Upfront(c) == -MSS <= c.edge - c.rcv /\ (c.kept # {} => c.rcv <= c.edge)

\* A segment never takes back what the last one promised, and moves the right edge by
\* two segments at most; a hole leaves it where it is.
LEMMA AdvertisedStep ==
    ASSUME sc.target \in Nat \ {0}, NEW m, NEW c \in Clients(m),
           WindowInv(c), BufferInv(c), Upfront(c), NEW d, d = Advertised(c)
    PROVE  /\ d \in Clients(m) /\ WindowInv(d) /\ BufferInv(d)
           /\ SameStream(c, d) /\ SameTimers(c, d) /\ d.due = c.due
           /\ c.edge <= d.edge /\ d.edge <= c.edge + 2 * MSS
           /\ d.wnd = d.edge - d.rcv
           /\ c.kept # {} => d.edge = c.edge
           /\ c.kept = {} => d.edge - c.rcv \in {c.edge - c.rcv + 2 * MSS, d.window}
           /\ c.kept = {} /\ c.grow > 1 => d.grow = c.grow - 1 /\ d.segments = c.segments
           /\ c.segments = sc.target => d.segments = c.segments
<1>1. Free(c) >= MSS
  BY ClientTypes, Sizes DEF Free, BufferInv, PendingCapacity
<1>2. CASE c.kept # {}
  <2> DEFINE w == Low(c.edge - c.rcv)
             r == c.rcv + w
  <2>1. d = [c EXCEPT !.shut = FALSE, !.wnd = w, !.edge = r]
    BY <1>1, <1>2, ClientTypes, Sizes DEF Advertised, Free, PendingCapacity
  <2>2. w \in Int /\ w = c.edge - c.rcv /\ r \in Int /\ r = c.edge
    <3>1. /\ c.edge \in Int /\ c.rcv \in Nat /\ c.rcv <= c.edge
          /\ c.window \in Nat /\ c.edge - c.rcv <= c.window /\ 2 * c.window < Word
      BY <1>2, ClientTypes, WindowFacts DEF Upfront
    <3>2. c.edge - c.rcv \in Nat /\ c.edge - c.rcv < Word
      BY <3>1, Sizes
    <3>3. w = c.edge - c.rcv
      BY <3>2, LowExact
    <3> QED
      BY <3>1, <3>3
  <2> HIDE DEF w, r
  <2>3. d \in Clients(m)
    BY <2>1, <2>2, ZenonT(60) DEF Clients
  <2>31. /\ SameStream(c, d) /\ SameTimers(c, d) /\ d.due = c.due /\ d.edge = r
         /\ d.shut = FALSE /\ d.wnd = w /\ d.window = c.window
         /\ d.segments = c.segments /\ d.grow = c.grow
    BY <2>1, ZenonT(30) DEF Clients, SameStream, SameTimers
  <2>4. /\ SameStream(c, d) /\ SameTimers(c, d) /\ d.due = c.due /\ d.edge = c.edge
        /\ d.shut = FALSE /\ d.wnd = c.edge - c.rcv /\ d.window = c.window
        /\ d.segments = c.segments /\ d.grow = c.grow
    BY <2>2, <2>31
  <2>5. WindowInv(d) /\ BufferInv(d)
    BY <2>4, Zenon DEF WindowInv, BufferInv, SameStream, SameTimers
  <2> QED
    BY <1>2, <2>3, <2>4, <2>5, ClientTypes, Sizes, SMTT(60) DEF SameStream
<1>3. CASE c.kept = {}
  <2> DEFINE g == Grown(c)
             w == Smaller(Low(g.edge - g.rcv + EdgeStep), g.window)
  <2>1. d = [g EXCEPT !.shut = FALSE, !.wnd = w, !.edge = g.rcv + w]
    BY <1>1, <1>3, ClientTypes, Sizes DEF Advertised, Free, PendingCapacity
  <2>2. /\ g \in Clients(m) /\ WindowInv(g) /\ SameStream(c, g) /\ SameTimers(c, g)
        /\ g.edge = c.edge /\ g.window >= c.window /\ g.due = c.due
        /\ c.grow > 1 => g.grow = c.grow - 1 /\ g.segments = c.segments
        /\ c.segments = sc.target => g.segments = c.segments
    BY GrownStep
  <2> HIDE DEF g
  <2>3. /\ w \in Int /\ w \in {g.edge - g.rcv + 2 * MSS, g.window} /\ w <= g.window
        /\ w <= g.edge - g.rcv + 2 * MSS /\ w >= g.edge - g.rcv /\ g.rcv + w \in Int
    <3>1. /\ g.edge \in Int /\ g.rcv \in Nat /\ g.window \in Nat /\ MSS \in Nat \ {0}
          /\ g.edge - g.rcv <= g.window /\ 2 * g.window < Word /\ 4 * MSS <= Word
          /\ Word \in Nat
      BY <2>2, WindowFacts, ClientTypes, Sizes
    <3>2. -MSS <= g.edge - g.rcv
      BY <2>2 DEF Upfront, SameStream
    <3>3. Low(g.edge - g.rcv + EdgeStep) = g.edge - g.rcv + 2 * MSS
      BY <3>1, <3>2, LowExact DEF EdgeStep
    <3> QED
      BY <3>1, <3>3, SMTT(60) DEF Smaller
  <2> HIDE DEF w
  <2>4. d \in Clients(m)
    BY <2>1, <2>2, <2>3, ZenonT(60) DEF Clients
  <2>5. /\ SameStream(g, d) /\ SameTimers(g, d) /\ d.due = g.due /\ d.edge = g.rcv + w
        /\ d.shut = FALSE /\ d.wnd = w /\ d.window = g.window
        /\ d.segments = g.segments /\ d.grow = g.grow
    BY <2>1, <2>2, ZenonT(30) DEF Clients, SameStream, SameTimers
  <2>6. SameStream(c, d) /\ SameTimers(c, d) /\ d.due = c.due
    BY <2>2, <2>5 DEF SameStream, SameTimers
  <2>7. BufferInv(d)
    BY <2>5, <2>6, Zenon DEF BufferInv, SameStream
  <2>8. d.edge - d.rcv <= d.window
    BY <2>2, <2>3, <2>5, <2>6, ClientTypes DEF SameStream
  <2>9. WindowInv(d)
    BY <2>2, <2>5, <2>8, Zenon DEF WindowInv, SameTimers
  <2>10. /\ c.edge <= d.edge /\ d.edge <= c.edge + 2 * MSS /\ d.wnd = d.edge - d.rcv
         /\ d.edge - c.rcv \in {c.edge - c.rcv + 2 * MSS, d.window}
    <3>1. d.rcv = c.rcv /\ g.rcv = c.rcv /\ c.edge \in Int /\ c.rcv \in Nat
      BY <2>2, <2>6, ClientTypes DEF SameStream
    <3> QED
      BY <2>2, <2>3, <2>5, <3>1, Sizes
  <2> QED
    BY <1>3, <2>2, <2>4, <2>5, <2>6, <2>7, <2>9, <2>10
<1> QED
  BY <1>2, <1>3

\* A segment handed to the card; d is the client behind it.
LEMMA SendStep ==
    ASSUME sc.target \in Nat \ {0}, NEW m, NEW c \in Clients(m),
           WindowInv(c), BufferInv(c), Upfront(c),
           NEW k \in Cards(m), NEW seq \in Nat, NEW data \in {<<>>, Request},
           NEW u, u = Send([cl |-> c, card |-> k], seq, data)
    PROVE  /\ u.cl = Advertised(c)
           /\ u.card \in Cards(m) /\ SameQueues(k, u.card)
           /\ Len(u.card.tx) = 1 /\ u.card.tx # <<>>
           /\ u.card.tx[1].seq = seq /\ u.card.tx[1].data = data
           /\ u.card.tx[1].ack = u.cl.rcv /\ u.card.tx[1].window = u.cl.wnd
<1> DEFINE d == Advertised(c)
           g == Segment(d, seq, data)
<1>1. u = [cl |-> d, card |-> [k EXCEPT !.tx = <<g>>]]
  BY DEF Send
<1>2. d \in Clients(m)
  BY AdvertisedStep
<1>3. d.rcv \in Nat /\ d.wnd \in Int
  BY <1>2, ClientTypes
<1> HIDE DEF d
<1>4. /\ g \in Outgoing /\ g.seq = seq /\ g.data = data /\ g.ack = d.rcv
      /\ g.window = d.wnd
  BY <1>3 DEF Segment, Outgoing
<1> HIDE DEF g
<1>5. <<g>> \in TxQueues /\ Len(<<g>>) = 1 /\ <<g>> # <<>> /\ <<g>>[1] = g
  BY <1>4 DEF TxQueues
<1>6. u.cl = d /\ u.card = [k EXCEPT !.tx = <<g>>]
  BY <1>1
<1>7. u.card \in Cards(m)
  BY <1>5, <1>6, ZenonT(30) DEF Cards
<1>8. u.card.tx = <<g>> /\ SameQueues(k, u.card)
  BY <1>6, ZenonT(30) DEF Cards, SameQueues
<1> QED
  BY <1>4, <1>5, <1>6, <1>7, <1>8 DEF d

\* The client has not received more than the server has paid out.
LEMMA ReceivedIsPaid ==
    ASSUME NEW m, NEW n \in Conns(m), ServerInv(n), NEW c \in Clients(m), NEW a,
           StreamInv(c, a), Settled(c, n)
    PROVE  Received(c) <= Paid(n) /\ Received(c) <= c.edge
<1>1. /\ c.rcv \in Nat /\ c.fin \in BOOLEAN /\ c.edge \in Int
      /\ n.next \in Nat /\ n.finSent \in BOOLEAN /\ n.acked \in Nat
      /\ n.clientWindow \in Int /\ n.queue \in Bytes
  BY ClientTypes DEF Conns
<1>2. Len(n.queue) \in Nat /\ (n.queue = <<>> => Len(n.queue) = 0)
  BY <1>1 DEF Bytes
<1>3. /\ c.rcv <= n.next /\ n.acked + n.clientWindow = c.edge
      /\ Received(c) <= BodyLen /\ (c.fin => c.rcv = BodyLen + 1)
      /\ Paid(n) <= n.acked + n.clientWindow
      /\ n.clientNext = 0 => n.next = 0 /\ ~n.finSent
      /\ n.clientNext = 1 => Paid(n) + Len(n.queue) = BodyLen /\ (n.finSent => n.queue = <<>>)
      /\ n.clientNext \in 0..1
  BY Zenon DEF Settled, StreamInv, ServerInv, QueueInv
<1> QED
  BY <1>1, <1>2, <1>3, Sizes DEF Received, Paid

\* The promise holds again as soon as the segment is on its way.
LEMMA PromiseKept ==
    ASSUME sc \in Scenarios,
           NEW m, NEW n \in Conns(m), ~n.serving, ServerInv(n),
           NEW c, NEW a, NEW p, NEW from, ClientInv(c, a, p, from, m),
           Settled(c, n), c.fin => c.kept = {},
           NEW k \in Cards(m), NEW seq \in Nat, NEW data \in {<<>>, Request},
           data # <<>> => /\ seq = 0
                          /\ n.clientNext = 0 => Advertised(c).edge <= 3 * MSS
                          /\ n.clientNext = 1 => Advertised(c).edge = c.edge,
           NEW u, u = Send([cl |-> c, card |-> k], seq, data)
    PROVE  /\ ClientInv(u.cl, a, p, from, m)
           /\ u.card \in Cards(m) /\ PromiseInv(u.cl, u.card, n)
           /\ u.cl = Advertised(c) /\ u.card.tx # <<>> /\ u.card.tx[1].data = data
<1>1. sc.target \in Nat \ {0}
  BY ScenarioFacts
<1>2. c \in Clients(m) /\ WindowInv(c) /\ BufferInv(c)
      /\ StreamInv(c, a) /\ PlaceInv(p, from, c) /\ StaleInv(p, c)
  BY Zenon DEF ClientInv
<1>21. Upfront(c)
  <2>1. c.rcv \in Nat /\ c.fin \in BOOLEAN /\ c.edge \in Int /\ Received(c) <= c.edge
    BY <1>2, ClientTypes, ReceivedIsPaid
  <2> QED
    BY <2>1, Sizes DEF Upfront, Received
<1>3. /\ u.cl = Advertised(c)
      /\ u.card \in Cards(m) /\ Len(u.card.tx) = 1 /\ u.card.tx # <<>>
      /\ u.card.tx[1].seq = seq /\ u.card.tx[1].data = data
      /\ u.card.tx[1].ack = u.cl.rcv /\ u.card.tx[1].window = u.cl.wnd
  BY <1>1, <1>2, <1>21, SendStep
<1>4. /\ u.cl \in Clients(m) /\ WindowInv(u.cl) /\ BufferInv(u.cl)
      /\ SameStream(c, u.cl) /\ u.cl.blocked = c.blocked
      /\ c.edge <= u.cl.edge /\ u.cl.wnd = u.cl.edge - u.cl.rcv
      /\ u.cl.edge <= c.edge + 2 * MSS
      /\ c.kept # {} => u.cl.edge = c.edge
      /\ c.kept = {} => u.cl.edge - c.rcv \in {c.edge - c.rcv + 2 * MSS, u.cl.window}
  BY <1>1, <1>2, <1>21, <1>3, AdvertisedStep DEF SameTimers
<1>5. StreamInv(u.cl, a) /\ PlaceInv(p, from, u.cl) /\ StaleInv(p, u.cl)
  BY <1>2, <1>4, SameInv, Zenon
<1>6. u.cl.wnd >= 0
  <2>1. /\ c.rcv \in Nat /\ c.fin \in BOOLEAN /\ c.edge \in Int /\ u.cl.edge \in Int
        /\ u.cl.rcv = c.rcv /\ u.cl.window \in Nat
    BY <1>1, <1>2, <1>4, ClientTypes, WindowFacts DEF SameStream
  <2>2. Received(c) <= c.edge
    BY <1>2, ReceivedIsPaid
  <2> QED
    BY <1>4, <2>1, <2>2, Sizes, SMTT(60) DEF Received
<1>61. ClientInv(u.cl, a, p, from, m)
  BY <1>4, <1>5, <1>6, Zenon DEF ClientInv
<1>7. n.acked \in Nat /\ n.clientWindow \in Int /\ c.edge \in Int /\ u.cl.edge \in Int
      /\ u.cl.rcv = c.rcv
  BY <1>2, <1>4, ClientTypes DEF Conns, SameStream
<1>8. PromiseInv(u.cl, u.card, n)
  <2>1. InFlight(u.card.tx[1], u.cl, n)
    BY <1>3, <1>4, <1>7 DEF InFlight, Settled
  <2> QED
    BY <1>3, <1>4, <1>7, <2>1 DEF PromiseInv, Settled
<1> QED
  BY <1>3, <1>61, <1>8

LEMMA DueOfPair ==
    ASSUME NEW c, NEW k
    PROVE  [[cl |-> c, card |-> k] EXCEPT !.cl.due = FALSE]
           = [cl |-> [c EXCEPT !.due = FALSE], card |-> k]
<1> DEFINE t == [cl |-> c, card |-> k]
<1>1. [t EXCEPT !.cl.due = FALSE] = [t EXCEPT !.cl = [t.cl EXCEPT !.due = FALSE]]
  OBVIOUS
<1>2. ASSUME NEW d PROVE [t EXCEPT !.cl = d] = [cl |-> d, card |-> k]
  OBVIOUS
<1>3. t.cl = c
  OBVIOUS
<1> HIDE DEF t
<1>4. [t EXCEPT !.cl.due = FALSE] = [cl |-> [c EXCEPT !.due = FALSE], card |-> k]
  BY <1>1, <1>2, <1>3, Zenon
<1> QED
  BY <1>4 DEF t

\* The owed ACK is not owed any more.
Acks(c, k, u, m) ==
    \E d \in Clients(m) :
        /\ SameStream(c, d) /\ SameTimers(c, d) /\ ~d.due
        /\ d.window = c.window /\ d.segments = c.segments
        /\ d.grow = c.grow /\ d.edge = c.edge /\ d.shut = c.shut /\ d.wnd = c.wnd
        /\ u = Send([cl |-> d, card |-> k], 1, <<>>)
LEMMA OwedCases ==
    ASSUME NEW m, NEW c \in Clients(m), NEW k,
           NEW u, u = SendOwedAck([cl |-> c, card |-> k])
    PROVE  \/ (c.blocked \/ ~c.due) /\ u.cl = c /\ u.card = k
           \/ ~c.blocked /\ c.due /\ Acks(c, k, u, m)
<1> DEFINE d == [c EXCEPT !.due = FALSE]
<1>1. CASE c.blocked \/ ~c.due
  <2>1. u = [cl |-> c, card |-> k]
    BY <1>1 DEF SendOwedAck
  <2> QED
    BY <1>1, <2>1
<1>2. CASE ~(c.blocked \/ ~c.due)
  <2>1. u = Send([[cl |-> c, card |-> k] EXCEPT !.cl.due = FALSE], 1, <<>>)
    BY <1>2 DEF SendOwedAck
  <2>2. [[cl |-> c, card |-> k] EXCEPT !.cl.due = FALSE] = [cl |-> d, card |-> k]
    BY DueOfPair
  <2>3. d \in Clients(m)
    BY ZenonT(60) DEF Clients
  <2>4. /\ SameStream(c, d) /\ SameTimers(c, d) /\ ~d.due
        /\ d.window = c.window /\ d.segments = c.segments
        /\ d.grow = c.grow /\ d.edge = c.edge /\ d.shut = c.shut /\ d.wnd = c.wnd
    BY ZenonT(30) DEF Clients, SameStream, SameTimers
  <2> HIDE DEF d
  <2>5. u = Send([cl |-> d, card |-> k], 1, <<>>)
    BY <2>1, <2>2, Zenon
  <2>6. Acks(c, k, u, m)
    BY <2>3, <2>4, <2>5, Zenon DEF Acks
  <2> QED
    BY <1>2, <2>6
<1> QED
  BY <1>1, <1>2

LEMMA OwedStep ==
    ASSUME sc \in Scenarios,
           NEW m, NEW n \in Conns(m), ~n.serving, ServerInv(n),
           NEW c, NEW a, NEW p, NEW from, ClientInv(c, a, p, from, m),
           Settled(c, n), ~c.blocked /\ c.fin => c.kept = {},
           NEW k \in Cards(m), k.tx = <<>>,
           NEW u, u = SendOwedAck([cl |-> c, card |-> k])
    PROVE  /\ ClientInv(u.cl, a, p, from, m)
           /\ u.card \in Cards(m) /\ PromiseInv(u.cl, u.card, n)
           /\ u.card.tx # <<>> => u.card.tx[1].data = <<>>
           /\ ~c.due => u.cl = c /\ u.card = k
<1>1. c \in Clients(m)
  BY DEF ClientInv
<1>2. CASE u.cl = c /\ u.card = k
  <2>1. PromiseInv(c, k, n)
    BY <1>1, ClientTypes DEF PromiseInv, Settled, Conns
  <2> QED
    BY <1>2, <2>1
<1>3. ASSUME ~c.blocked, NEW d \in Clients(m), SameStream(c, d), SameTimers(c, d),
             d.window = c.window, d.segments = c.segments, d.grow = c.grow,
             d.edge = c.edge, d.shut = c.shut, d.wnd = c.wnd,
             u = Send([cl |-> d, card |-> k], 1, <<>>)
      PROVE  /\ ClientInv(u.cl, a, p, from, m)
             /\ u.card \in Cards(m) /\ PromiseInv(u.cl, u.card, n)
             /\ u.card.tx # <<>> => u.card.tx[1].data = <<>>
  <2>1. StreamInv(d, a) /\ PlaceInv(p, from, d) /\ StaleInv(p, d)
    BY <1>3, SameInv, Zenon DEF ClientInv, SameTimers
  <2>2. WindowInv(d) /\ BufferInv(d)
    BY <1>3, Zenon DEF ClientInv, WindowInv, BufferInv, SameStream, SameTimers
  <2>3. ClientInv(d, a, p, from, m)
    BY <1>3, <2>1, <2>2, Zenon DEF ClientInv
  <2>4. Settled(d, n)
    BY <1>3, Zenon DEF Settled, SameStream
  <2>41. d.fin => d.kept = {}
    BY <1>3, Zenon DEF SameStream
  <2>5. 1 \in Nat /\ <<>> \in {<<>>, Request} /\ <<>> = <<>>
    OBVIOUS
  <2> QED
    BY <1>3, <2>3, <2>4, <2>41, <2>5, PromiseKept
<1>4. CASE ~c.blocked /\ c.due /\ Acks(c, k, u, m)
  BY <1>3, <1>4, Zenon DEF Acks
<1>5. (u.cl = c /\ u.card = k) \/ (~c.blocked /\ c.due /\ Acks(c, k, u, m))
  BY <1>1, OwedCases
<1> QED
  BY <1>2, <1>4, <1>5, Zenon
----------------------------------------------------------------------------
(***************************************************************************)
(* The card's queues.                                                      *)
(***************************************************************************)
LEMMA QueueStep ==
    ASSUME NEW m, NEW k \in Cards(m), NEW f \in Frames(m), NEW l, l = Queue(k, f)
    PROVE  /\ l \in Cards(m) /\ l.rx = Append(k.rx, f)
           /\ l.delayed = k.delayed /\ l.tx = k.tx /\ l.burst = k.burst
<1>1. l = [k EXCEPT !.rx = Append(k.rx, f)]
  BY DEF Queue
<1>2. Append(k.rx, f) \in RxQueues(m)
  BY CardTypes, AppendProperties DEF RxQueues
<1>3. l \in Cards(m)
  BY <1>1, <1>2, ZenonT(30) DEF Cards
<1> QED
  BY <1>1, <1>3, ZenonT(30) DEF Cards

\* A data segment is queued or delayed.
Delivered(k, frames, l) ==
    \/ l.rx = k.rx \o frames /\ l.delayed = k.delayed
    \/ /\ l.rx = k.rx
       /\ l.delayed = k.delayed
             \o [i \in DOMAIN frames |-> [polls |-> sc.o.delay, frame |-> frames[i]]]
LEMMA DeliverStep ==
    ASSUME sc \in Scenarios, NEW m, NEW k \in Cards(m), NEW frames \in Seq(Frames(m)),
           NEW l, l = DeliverData(k, frames, sc.o)
    PROVE  /\ l \in Cards(m) /\ l.tx = k.tx /\ l.burst = k.burst
           /\ Delivered(k, frames, l)
<1>1. CASE sc.o.delay = 0
  <2>1. l = [k EXCEPT !.rx = k.rx \o frames]
    BY <1>1 DEF DeliverData
  <2>2. k.rx \o frames \in RxQueues(m)
    BY CardTypes, ConcatProperties DEF RxQueues
  <2>3. l \in Cards(m)
    BY <2>1, <2>2, ZenonT(30) DEF Cards
  <2> QED
    BY <2>1, <2>3, ZenonT(30) DEF Cards, Delivered
<1>2. CASE ~(sc.o.delay = 0)
  <2> DEFINE late == [i \in DOMAIN frames |-> [polls |-> sc.o.delay, frame |-> frames[i]]]
  <2>1. l = [k EXCEPT !.delayed = k.delayed \o late]
    BY <1>2 DEF DeliverData
  <2>2. late \in Seq(LateFrames(m))
    <3>1. DOMAIN frames = 1..Len(frames) /\ Len(frames) \in Nat
      OBVIOUS
    <3>2. ASSUME NEW i \in 1..Len(frames)
          PROVE  [polls |-> sc.o.delay, frame |-> frames[i]] \in LateFrames(m)
      BY ScenarioFacts DEF LateFrames
    <3> QED
      BY <3>1, <3>2
  <2>3. k.delayed \o late \in LateQueues(m)
    BY <2>2, CardTypes, ConcatProperties DEF LateQueues
  <2> HIDE DEF late
  <2>4. l \in Cards(m)
    BY <2>1, <2>3, ZenonT(30) DEF Cards
  <2>5. l.tx = k.tx /\ l.burst = k.burst /\ l.rx = k.rx /\ l.delayed = k.delayed \o late
    BY <2>1, ZenonT(30) DEF Cards
  <2> QED
    BY <2>4, <2>5, Zenon DEF Delivered, late
<1> QED
  BY <1>1, <1>2

\* A poll of the card: the head frame leaves it.
LEMMA PolledStep ==
    ASSUME NEW m, NEW k \in Cards(m), NEW l, l = AdvanceDelayed(k)
    PROVE  /\ l \in Cards(m) /\ l.tx = k.tx /\ l.burst = k.burst
           /\ \E arrived \in RxQueues(m) : l.rx = k.rx \o arrived
<1> DEFINE ready == Cardinality({i \in DOMAIN k.delayed : k.delayed[i].polls <= 1})
           late  == Len(k.delayed) - ready
           rest  == [i \in 1..late |-> [k.delayed[ready + i] EXCEPT !.polls = @ - 1]]
           first == [i \in 1..ready |-> k.delayed[i].frame]
<1>1. k.delayed \in Seq(LateFrames(m)) /\ k.rx \in Seq(Frames(m))
  BY CardTypes DEF LateQueues, RxQueues
<1>2. ready \in Nat /\ ready <= Len(k.delayed) /\ Len(k.delayed) \in Nat
  <2>1. Len(k.delayed) \in Nat /\ DOMAIN k.delayed = 1..Len(k.delayed)
    BY <1>1
  <2>2. IsFiniteSet(1..Len(k.delayed)) /\ Cardinality(1..Len(k.delayed)) = Len(k.delayed)
    BY <2>1, FS_Interval
  <2>3. {i \in DOMAIN k.delayed : k.delayed[i].polls <= 1} \subseteq 1..Len(k.delayed)
    BY <2>1
  <2> HIDE DEF ready
  <2> QED
    BY <2>1, <2>2, <2>3, FS_Subset, FS_CardinalityType DEF ready
<1> HIDE DEF ready
<1>3. first \in RxQueues(m)
  <2>1. ASSUME NEW i \in 1..ready PROVE k.delayed[i].frame \in Frames(m)
    <3>1. k.delayed[i] \in LateFrames(m)
      BY <1>1, <1>2
    <3> QED
      BY <3>1 DEF LateFrames
  <2> QED
    BY <1>2, <2>1 DEF RxQueues
<1>4. rest \in LateQueues(m)
  <2>1. ASSUME NEW i \in 1..late
        PROVE  [k.delayed[ready + i] EXCEPT !.polls = @ - 1] \in LateFrames(m)
    <3>1. k.delayed[ready + i] \in LateFrames(m)
      BY <1>1, <1>2
    <3> QED
      BY <3>1 DEF LateFrames
  <2>2. late \in Nat
    BY <1>2
  <2>3. rest \in [1..late -> LateFrames(m)]
    BY <2>1, Zenon
  <2> QED
    BY <2>2, <2>3 DEF LateQueues
<1>5. k.rx \o first \in RxQueues(m)
  BY <1>1, <1>3, ConcatProperties DEF RxQueues
<1>6. l = [k EXCEPT !.delayed = rest, !.rx = k.rx \o first]
  BY DEF AdvanceDelayed, ready
<1> HIDE DEF first, rest
<1>7. l \in Cards(m)
  BY <1>4, <1>5, <1>6, ZenonT(30) DEF Cards
<1>8. l.tx = k.tx /\ l.burst = k.burst /\ l.rx = k.rx \o first
  BY <1>6, ZenonT(30) DEF Cards
<1> QED
  BY <1>3, <1>7, <1>8

LEMMA ReadStep ==
    ASSUME NEW m, NEW k \in Cards(m), k.rx # <<>>, NEW l, l = [k EXCEPT !.rx = Tail(@)]
    PROVE  /\ l \in Cards(m) /\ l.tx = k.tx /\ l.burst = k.burst /\ l.rx = Tail(k.rx)
           /\ Head(k.rx) \in Frames(m)
<1>1. Tail(k.rx) \in RxQueues(m) /\ Head(k.rx) \in Frames(m)
  BY CardTypes, HeadTailProperties DEF RxQueues
<1>2. l = [k EXCEPT !.rx = Tail(k.rx)]
  OBVIOUS
<1>3. l \in Cards(m)
  BY <1>1, <1>2, ZenonT(30) DEF Cards
<1> QED
  BY <1>1, <1>2, <1>3, ZenonT(30) DEF Cards

\* What the bookkeeping of losses leaves alone.
SameServer(n, e) ==
    /\ e.next = n.next /\ e.clientNext = n.clientNext /\ e.queue = n.queue
    /\ e.finSent = n.finSent /\ e.serving = n.serving /\ e.burst = n.burst
    /\ e.corruptSent = n.corruptSent
LEMMA SameServerInv ==
    ASSUME NEW n, NEW e, SameServer(n, e), e.acked = n.acked,
           e.clientWindow = n.clientWindow, ServerInv(n)
    PROVE  ServerInv(e)
<1>1. QueueInv(e)
  BY Zenon DEF SameServer, ServerInv, QueueInv, Paid
<1> QED
  BY <1>1, Zenon DEF SameServer, ServerInv, CanSend, Available

LEMMA LeastNumber ==
    ASSUME NEW S, S \subseteq Nat, S # {}
    PROVE  \E q \in S : \A r \in S : q <= r
<1>1. \E q \in S : \A r \in S : ~(<<r, q>> \in OpToRel(<, Nat))
  BY NatLessThanWellFounded, WFMin, Zenon
<1>2. PICK q \in S : \A r \in S : ~(<<r, q>> \in OpToRel(<, Nat))
  BY <1>1
<1>3. ASSUME NEW r \in S PROVE q <= r
  <2>1. ~(<<r, q>> \in OpToRel(<, Nat))
    BY <1>2
  <2>2. <<r, q>> \in Nat \X Nat
    OBVIOUS
  <2>3. ~(r < q)
    BY <2>1, <2>2 DEF OpToRel
  <2> QED
    BY <2>3
<1> QED
  BY <1>3

\* The card gives a frame up.
LEMMA CreditStep ==
    ASSUME NEW m, NEW n \in Conns(m), NEW f \in Frames(m),
           NEW e, e = CreditClientAck(n, f)
    PROVE  /\ e \in Conns(m) /\ SameServer(n, e) /\ e.acked = n.acked
           /\ e.clientWindow = n.clientWindow
<1> DEFINE lost  == n.lostSeqs \ {f.seq}
           holes == {q \in lost : q < f.seq}
           hole  == IF holes = {} THEN None
                    ELSE CHOOSE q \in holes : \A r \in holes : q <= r
<1>1. CASE f.data = <<>>
  BY <1>1 DEF CreditClientAck, SameServer
<1>2. CASE f.data # <<>>
  <2>1. e = [n EXCEPT !.lostSeqs = lost, !.holeAck = hole]
    BY <1>2 DEF CreditClientAck
  <2>2. lost \in SeqSets
    BY DEF Conns, SeqSets
  <2>3. hole \in Int
    <3>1. CASE holes = {}
      BY <3>1 DEF None
    <3>2. CASE holes # {}
      <4>1. holes \subseteq Nat
        BY <2>2 DEF SeqSets
      <4>2. \E q \in holes : \A r \in holes : q <= r
        BY <3>2, <4>1, LeastNumber
      <4>3. hole = CHOOSE q \in holes : \A r \in holes : q <= r
        BY <3>2
      <4> HIDE DEF holes
      <4>4. hole \in holes
        BY <4>2, <4>3, Zenon
      <4> HIDE DEF hole
      <4> QED
        BY <4>1, <4>4
    <3> QED
      BY <3>1, <3>2
  <2> HIDE DEF lost, hole
  <2>4. e \in Conns(m)
    BY <2>1, <2>2, <2>3, ZenonT(60) DEF Conns
  <2>5. SameServer(n, e) /\ e.acked = n.acked /\ e.clientWindow = n.clientWindow
    BY <2>1, ZenonT(30) DEF Conns, SameServer
  <2> QED
    BY <2>4, <2>5
<1> QED
  BY <1>1, <1>2
----------------------------------------------------------------------------
(***************************************************************************)
(* The server: the answer to a segment and the drain of its queue.         *)
(***************************************************************************)
LEMMA ConnTypes ==
    ASSUME NEW m, NEW n \in Conns(m)
    PROVE  /\ n.next \in Nat /\ n.acked \in Nat /\ n.clientNext \in Nat
           /\ n.clientWindow \in Int /\ n.queue \in Bytes /\ n.established \in BOOLEAN
           /\ n.finSent \in BOOLEAN /\ n.sent \in SentSets(m) /\ n.duplicateAcks \in Nat
           /\ n.recover \in Int /\ n.corruptSent \in BOOLEAN /\ n.serving \in BOOLEAN
           /\ n.burst \in Nat /\ n.owes \in BOOLEAN /\ n.lostSeqs \in SeqSets
           /\ Len(n.queue) \in Nat /\ (n.queue = <<>> <=> Len(n.queue) = 0)
<1>1. n.queue \in Bytes
  BY DEF Conns
<1>2. Len(n.queue) \in Nat /\ (n.queue = <<>> <=> Len(n.queue) = 0)
  BY <1>1, EmptySeq DEF Bytes
<1> QED
  BY <1>2 DEF Conns

\* A bare acknowledgement is a frame.
LEMMA AckFrame ==
    ASSUME NEW m, NEW n \in Conns(m)
    PROVE  \E f \in Frames(m) : f = Frame(n, n.next, <<>>, FALSE) /\ ~f.bad
<1> DEFINE f == Frame(n, n.next, <<>>, FALSE)
<1>1. f \in Frames(m) /\ ~f.bad
  BY ConnTypes, EmptySeq DEF Frame, Frames, Bytes
<1> QED
  BY <1>1, Zenon

LEMMA PureAckStep ==
    ASSUME NEW m, NEW n \in Conns(m), NEW k \in Cards(m), NEW l, l = PureAck(k, n)
    PROVE  /\ l \in Cards(m) /\ l.delayed = k.delayed /\ l.tx = k.tx /\ l.burst = k.burst
           /\ \E f \in Frames(m) : ~f.bad /\ l.rx = Append(k.rx, f)
<1>1. PICK f \in Frames(m) : f = Frame(n, n.next, <<>>, FALSE) /\ ~f.bad
  BY AckFrame
<1>2. l = Queue(k, f)
  BY <1>1 DEF PureAck
<1>3. /\ l \in Cards(m) /\ l.delayed = k.delayed /\ l.tx = k.tx /\ l.burst = k.burst
      /\ l.rx = Append(k.rx, f)
  BY <1>2, QueueStep
<1> QED
  BY <1>1, <1>3

\* More frames in the card, none less.
MoreRx(k, l, m) == \E more \in RxQueues(m) : l.rx = k.rx \o more

LEMMA MoreOrSame ==
    ASSUME NEW m, NEW k \in Cards(m), NEW l,
           \/ l.rx = k.rx
           \/ \E f \in Frames(m) : l.rx = Append(k.rx, f)
           \/ \E more \in RxQueues(m) : l.rx = k.rx \o more
    PROVE  MoreRx(k, l, m)
<1>1. k.rx \in Seq(Frames(m)) /\ <<>> \in RxQueues(m)
  BY CardTypes DEF RxQueues
<1>2. k.rx \o <<>> = k.rx
  BY <1>1, ConcatEmptySeq
<1>3. ASSUME NEW f \in Frames(m) PROVE Append(k.rx, f) = k.rx \o <<f>> /\ <<f>> \in RxQueues(m)
  BY <1>1, AppendIsConcat DEF RxQueues
<1> QED
  BY <1>1, <1>2, <1>3, Zenon DEF MoreRx

\* The end of the drain, or the next round.
LEMMA ServedStep ==
    ASSUME NEW m, NEW n \in Conns(m), QueueInv(n), NEW k \in Cards(m),
           CanSend(n) => n.burst <= 2 /\ Available(n) <= (3 - n.burst) * MSS,
           NEW s, s = Served(k, n)
    PROVE  /\ s.card \in Cards(m) /\ s.card.tx = k.tx /\ s.card.burst = k.burst
           /\ MoreRx(k, s.card, m)
           /\ s.conn \in Conns(m) /\ ServerInv(s.conn)
           /\ s.conn.acked = n.acked /\ s.conn.clientWindow = n.clientWindow
           /\ s.conn.next = n.next /\ s.conn.queue = n.queue
           /\ s.conn.clientNext = n.clientNext
           /\ CanSend(n) => s.conn.serving /\ s.conn.burst = n.burst
           /\ ~CanSend(n) => ~s.conn.serving /\ s.conn.burst = 0
<1>1. CASE CanSend(n)
  <2> DEFINE e == [n EXCEPT !.serving = TRUE]
  <2>1. s = [card |-> k, conn |-> e]
    BY <1>1 DEF Served, Pair
  <2>2. e \in Conns(m)
    BY ZenonT(60) DEF Conns
  <2>3. /\ e.acked = n.acked /\ e.clientWindow = n.clientWindow /\ e.next = n.next
        /\ e.queue = n.queue /\ e.clientNext = n.clientNext /\ e.finSent = n.finSent
        /\ e.corruptSent = n.corruptSent /\ e.serving /\ e.burst = n.burst
    BY ZenonT(30) DEF Conns
  <2> HIDE DEF e
  <2>4. ServerInv(e)
    <3>1. QueueInv(e)
      BY <2>3, Zenon DEF QueueInv, Paid
    <3>2. CanSend(e) /\ Available(e) = Available(n)
      BY <1>1, <2>3, Zenon DEF CanSend, Available
    <3> QED
      BY <1>1, <2>3, <3>1, <3>2, Zenon DEF ServerInv
  <2> QED
    BY <1>1, <2>1, <2>2, <2>3, <2>4, MoreOrSame
<1>2. CASE ~CanSend(n)
  <2> DEFINE e == [n EXCEPT !.serving = FALSE, !.burst = 0, !.owes = FALSE]
             l == IF n.owes /\ n.burst = 0 THEN PureAck(k, n) ELSE k
  <2>1. s = [card |-> l, conn |-> e]
    BY <1>2 DEF Served, Pair
  <2>2. e \in Conns(m)
    BY ZenonT(60) DEF Conns
  <2>3. /\ e.acked = n.acked /\ e.clientWindow = n.clientWindow /\ e.next = n.next
        /\ e.queue = n.queue /\ e.clientNext = n.clientNext /\ e.finSent = n.finSent
        /\ e.corruptSent = n.corruptSent /\ e.serving = FALSE /\ e.burst = 0
    BY ZenonT(30) DEF Conns
  <2> HIDE DEF e
  <2>4. ServerInv(e)
    <3>1. QueueInv(e)
      BY <2>3, Zenon DEF QueueInv, Paid
    <3>2. n.queue # <<>> => n.acked + n.clientWindow <= n.next
      BY <1>2, ConnTypes DEF CanSend, Available, Larger
    <3> QED
      BY <2>3, <3>1, <3>2, Zenon DEF ServerInv
  <2>5. l \in Cards(m) /\ l.tx = k.tx /\ l.burst = k.burst /\ MoreRx(k, l, m)
    <3>1. CASE l = k
      BY <3>1, MoreOrSame
    <3>2. CASE l = PureAck(k, n)
      <4> HIDE DEF l
      <4>1. /\ l \in Cards(m) /\ l.tx = k.tx /\ l.burst = k.burst
            /\ \E f \in Frames(m) : ~f.bad /\ l.rx = Append(k.rx, f)
        BY <3>2, PureAckStep
      <4> QED
        BY <4>1, MoreOrSame
    <3> QED
      BY <3>1, <3>2
  <2> HIDE DEF l
  <2> QED
    BY <1>2, <2>1, <2>2, <2>3, <2>4, <2>5
<1> QED
  BY <1>1, <1>2

\* A resend repeats a piece sent before.
LEMMA RetransmitStep ==
    ASSUME sc \in Scenarios, NEW m, NEW n \in Conns(m), NEW k \in Cards(m),
           NEW l, l = RetransmitAt(k, n, sc.o)
    PROVE  l \in Cards(m) /\ l.tx = k.tx /\ l.burst = k.burst /\ MoreRx(k, l, m)
<1> DEFINE found == {e \in n.sent : e.seq = n.acked}
           entry == CHOOSE e \in found : TRUE
           f     == Frame(n, entry.seq, entry.data, entry.fin)
           c     == [k EXCEPT !.resent = @ + 1]
<1>1. CASE found = {}
  BY <1>1, MoreOrSame DEF RetransmitAt
<1>2. CASE found # {}
  <2>1. l = DeliverData(c, <<f>>, sc.o)
    BY <1>2 DEF RetransmitAt
  <2>2. entry \in Pieces(m)
    <3>1. entry \in found
      BY <1>2, Zenon
    <3> QED
      BY <3>1, ConnTypes DEF SentSets
  <2> HIDE DEF entry
  <2>3. f \in Frames(m)
    BY <2>2, ConnTypes DEF Frame, Frames, Pieces
  <2> HIDE DEF f
  <2>4. k.resent + 1 \in Nat
    BY CardTypes
  <2>5. c = [k EXCEPT !.resent = k.resent + 1]
    OBVIOUS
  <2>6. c \in Cards(m)
    BY <2>4, <2>5, ZenonT(30) DEF Cards
  <2>7. c.rx = k.rx /\ c.tx = k.tx /\ c.burst = k.burst
    BY <2>5, ZenonT(30) DEF Cards
  <2> HIDE DEF c
  <2>8. <<f>> \in Seq(Frames(m))
    BY <2>3
  <2>9. l \in Cards(m) /\ l.tx = c.tx /\ l.burst = c.burst /\ Delivered(c, <<f>>, l)
    BY <2>1, <2>6, <2>8, DeliverStep
  <2>10. MoreRx(k, l, m)
    BY <2>7, <2>8, <2>9, MoreOrSame DEF Delivered, RxQueues
  <2> QED
    BY <2>7, <2>9, <2>10
<1> QED
  BY <1>1, <1>2

\* What the loss recovery changes of a connection.
SameBook(n, e) ==
    SameServer(n, e) /\ e.acked = n.acked /\ e.clientWindow = n.clientWindow

LEMMA ForgetStep ==
    ASSUME NEW m, NEW n \in Conns(m),
           NEW t, t = [n EXCEPT !.sent = {e \in @ : e.seq + Len(e.data) > n.acked}]
    PROVE  t \in Conns(m) /\ SameBook(n, t)
<1> DEFINE S == {e \in n.sent : e.seq + Len(e.data) > n.acked}
<1>1. t = [n EXCEPT !.sent = S]
  OBVIOUS
<1>2. S \in SentSets(m)
  BY ConnTypes DEF SentSets
<1> HIDE DEF S
<1>3. t \in Conns(m)
  BY <1>1, <1>2, ZenonT(60) DEF Conns
<1> QED
  BY <1>1, <1>3, ZenonT(30) DEF Conns, SameBook, SameServer

LEMMA CountStep ==
    ASSUME NEW m, NEW t \in Conns(m), NEW d \in Nat, NEW r \in Int,
           NEW e, e = [t EXCEPT !.duplicateAcks = d, !.recover = r]
    PROVE  e \in Conns(m) /\ SameBook(t, e)
<1>1. e \in Conns(m)
  BY ZenonT(60) DEF Conns
<1> QED
  BY <1>1, ZenonT(30) DEF Conns, SameBook, SameServer

\* Whatever an acknowledgement makes the server repeat is a piece sent before.
LEMMA RecoverLossStep ==
    ASSUME sc \in Scenarios, NEW m, NEW n \in Conns(m), NEW k \in Cards(m),
           NEW seg, NEW prevAck, NEW prevWindow,
           NEW s, s = RecoverLoss(k, n, seg, prevAck, prevWindow, sc.o)
    PROVE  /\ s.card \in Cards(m) /\ s.card.tx = k.tx /\ s.card.burst = k.burst
           /\ MoreRx(k, s.card, m)
           /\ s.conn \in Conns(m) /\ SameBook(n, s.conn)
<1> DEFINE third == n.duplicateAcks + 1 = 3 /\ n.recover = None
           t     == [n EXCEPT !.sent = {e \in @ : e.seq + Len(e.data) > n.acked}]
           rf    == IF t.recover # None /\ n.acked < t.recover THEN t.recover ELSE None
           fresh == [t EXCEPT !.duplicateAcks = 0, !.recover = rf]
           ra    == IF third THEN n.next ELSE t.recover
           again == [t EXCEPT !.duplicateAcks = t.duplicateAcks + 1, !.recover = ra]
<1>0. /\ t \in Conns(m) /\ SameBook(n, t)
      /\ k \in Cards(m) /\ k.tx = k.tx /\ k.burst = k.burst /\ MoreRx(k, k, m)
  BY ForgetStep, MoreOrSame
<1>1. /\ \/ s.card = k
         \/ s.card = RetransmitAt(k, t, sc.o)
      /\ s.conn \in {n, t, fresh, again}
  <2>1. \/ s = Pair(k, n)
        \/ s = Pair(IF fresh.recover # None THEN RetransmitAt(k, t, sc.o) ELSE k, fresh)
        \/ s = Pair(k, t)
        \/ s = Pair(IF third THEN RetransmitAt(k, t, sc.o) ELSE k, again)
    BY Zenon DEF RecoverLoss
  <2> HIDE DEF t, third, fresh, again
  <2> QED
    BY <2>1 DEF Pair
<1> HIDE DEF t
<1>2. /\ n.acked \in Nat /\ n.next \in Nat /\ t.recover \in Int
      /\ t.duplicateAcks + 1 \in Nat /\ rf \in Int /\ ra \in Int
  BY <1>0, ConnTypes DEF None
<1> HIDE DEF third, rf, ra
<1>21. ASSUME NEW d \in Nat, NEW r \in Int,
              NEW e, e = [t EXCEPT !.duplicateAcks = d, !.recover = r]
       PROVE  e \in Conns(m) /\ SameBook(t, e)
  BY <1>0, <1>21, CountStep, Zenon
<1>3. fresh \in Conns(m) /\ SameBook(t, fresh)
  <2>1. 0 \in Nat
    OBVIOUS
  <2> QED
    BY <1>2, <1>21, <2>1, Zenon
<1>4. again \in Conns(m) /\ SameBook(t, again)
  BY <1>2, <1>21, Zenon
<1> HIDE DEF fresh, again
<1>5. s.conn \in Conns(m) /\ SameBook(n, s.conn)
  BY <1>0, <1>1, <1>3, <1>4 DEF SameBook, SameServer
<1>6. /\ s.card \in Cards(m) /\ s.card.tx = k.tx /\ s.card.burst = k.burst
      /\ MoreRx(k, s.card, m)
  BY <1>0, <1>1, RetransmitStep
<1> QED
  BY <1>5, <1>6

\* The promise in the segment: the acknowledgement moves the left edge, the window the
\* right one.
LEMMA AcknowledgeStep ==
    ASSUME sc \in Scenarios, NEW m, NEW n \in Conns(m), NEW k \in Cards(m), QueueInv(n),
           ~n.serving,
           NEW seg \in Outgoing, n.acked <= seg.ack, seg.ack <= n.next,
           n.acked + n.clientWindow <= seg.ack + seg.window,
           NEW s, s = Acknowledge(k, n, seg, sc.o)
    PROVE  /\ s.card \in Cards(m) /\ s.card.tx = k.tx /\ s.card.burst = k.burst
           /\ MoreRx(k, s.card, m)
           /\ s.conn \in Conns(m) /\ SameServer(n, s.conn) /\ QueueInv(s.conn)
           /\ s.conn.acked = seg.ack /\ s.conn.clientWindow = seg.window
<1> DEFINE moved == n.holeAck # None /\ seg.ack = n.holeAck /\ seg.data = <<>>
                    /\ seg.window # n.clientWindow
           h == [n EXCEPT !.clientWindow = seg.window, !.acked = seg.ack]
           l == IF moved THEN [k EXCEPT !.holeMoves = @ + 1] ELSE k
<1>1. seg.ack \in Nat /\ seg.window \in Int /\ seg.ack \in n.acked..n.next
  BY ConnTypes DEF Outgoing
<1>2. s = RecoverLoss(l, h, seg, n.acked, n.clientWindow, sc.o)
  BY <1>1, Zenon DEF Acknowledge
<1>3. h \in Conns(m)
  BY <1>1, ZenonT(60) DEF Conns
<1>4. SameServer(n, h) /\ h.acked = seg.ack /\ h.clientWindow = seg.window
  BY ZenonT(30) DEF Conns, SameServer
<1>5. l \in Cards(m) /\ l.tx = k.tx /\ l.burst = k.burst /\ l.rx = k.rx
  <2>1. k.holeMoves + 1 \in Nat
    BY CardTypes
  <2>2. CASE moved
    <3>1. l = [k EXCEPT !.holeMoves = k.holeMoves + 1]
      BY <2>2
    <3> HIDE DEF l
    <3>2. l \in Cards(m)
      BY <2>1, <3>1, ZenonT(30) DEF Cards
    <3> QED
      BY <3>1, <3>2, ZenonT(30) DEF Cards
  <2> QED
    BY <2>2
<1>6. QueueInv(h)
  <2>1. /\ n.acked \in Nat /\ n.clientWindow \in Int /\ n.next \in Nat
        /\ n.finSent \in BOOLEAN /\ Paid(n) \in Int
    BY ConnTypes DEF Paid
  <2>2. Paid(h) = Paid(n) /\ Paid(n) <= n.acked + n.clientWindow
    BY <1>4, Zenon DEF Paid, SameServer, QueueInv
  <2>3. Paid(h) <= h.acked + h.clientWindow
    BY <1>1, <1>4, <2>1, <2>2
  <2>4. h.acked <= h.next
    BY <1>4 DEF SameServer
  <2> QED
    BY <1>4, <2>2, <2>3, <2>4, Zenon DEF QueueInv, SameServer
<1> HIDE DEF h, l
<1>7. /\ s.card \in Cards(m) /\ s.card.tx = l.tx /\ s.card.burst = l.burst
      /\ MoreRx(l, s.card, m)
      /\ s.conn \in Conns(m) /\ SameBook(h, s.conn)
  BY <1>2, <1>3, <1>5, RecoverLossStep
<1>8. QueueInv(s.conn)
  BY <1>6, <1>7, Zenon DEF SameBook, SameServer, QueueInv, Paid
<1>9. SameServer(n, s.conn) /\ s.conn.acked = seg.ack /\ s.conn.clientWindow = seg.window
  BY <1>4, <1>7, Zenon DEF SameBook, SameServer
<1>10. MoreRx(k, s.card, m)
  BY <1>5, <1>7, Zenon DEF MoreRx
<1> QED
  BY <1>5, <1>7, <1>8, <1>9, <1>10

\* An ACK frees two segments of window at most, the request three.
Sparing(n, seg) ==
    /\ seg.data = <<>> /\ n.queue # <<>> =>
           n.acked + n.clientWindow <= n.next + 2 * MSS
    /\ seg.data # <<>> /\ n.clientNext = 0 => n.clientWindow <= 3 * MSS
    /\ seg.data # <<>> /\ n.clientNext = 1 /\ n.queue # <<>> =>
           n.acked + n.clientWindow <= n.next

\* The request is taken once; it puts the body into the queue.
LEMMA TakeRequest ==
    ASSUME sc \in Scenarios, NEW m, NEW n \in Conns(m), QueueInv(n), n.clientNext = 0,
           NEW t, t = [n EXCEPT !.clientNext = @ + Len(Request), !.queue = Body,
                                !.owes = TRUE]
    PROVE  /\ t \in Conns(m) /\ QueueInv(t) /\ t.acked = n.acked
           /\ t.clientWindow = n.clientWindow /\ t.next = n.next
           /\ t.clientNext = 1 /\ t.burst = n.burst /\ t.serving = n.serving
<1>1. t = [n EXCEPT !.clientNext = 1, !.queue = Body, !.owes = TRUE]
  BY DEF Request
<1>2. t \in Conns(m)
  <2>1. 1 \in Nat /\ TRUE \in BOOLEAN /\ Body \in Bytes
    BY RunOfBody
  <2> QED
    BY <1>1, <2>1, ZenonT(60) DEF Conns
<1>3. /\ t.acked = n.acked /\ t.clientWindow = n.clientWindow /\ t.next = n.next
      /\ t.clientNext = 1 /\ t.burst = n.burst /\ t.serving = n.serving
      /\ t.finSent = n.finSent /\ t.corruptSent = n.corruptSent /\ t.queue = Body
  BY <1>1, ZenonT(30) DEF Conns
<1>4. QueueInv(t)
  <2>1. n.next = 0 /\ ~n.finSent /\ n.acked <= n.next /\ Paid(n) <= n.acked + n.clientWindow
        /\ (sc.o.corruptOnce => n.corruptSent \/ n.next = 0)
    BY DEF QueueInv
  <2>2. Paid(t) = 0 /\ Paid(n) = 0
    <3>1. t.next = 0 /\ ~t.finSent /\ n.next = 0 /\ ~n.finSent
      BY <1>3, <2>1, Zenon
    <3>2. 0 - 0 = 0
      OBVIOUS
    <3> QED
      BY <3>1, <3>2, Zenon DEF Paid
  <2>3. Body # <<>> /\ BodyLen \in Nat /\ Len(Body) = BodyLen /\ Run(Body, 0)
    BY RunOfBody, Sizes
  <2>4. Paid(t) + Len(t.queue) = BodyLen /\ Run(t.queue, Paid(t))
    BY <1>3, <2>2, <2>3
  <2>5. t.clientNext \in 0..1 /\ t.clientNext # 0
    <3>1. 1 \in 0..1 /\ 1 # 0
      OBVIOUS
    <3> QED
      BY <1>3, <3>1, Zenon
  <2>6. t.finSent <=> t.queue = <<>>
    BY <1>3, <2>1, <2>3
  <2> QED
    BY <1>3, <2>1, <2>2, <2>4, <2>5, <2>6, Zenon DEF QueueInv
<1> QED
  BY <1>2, <1>3, <1>4

\* What an answer leaves: nothing moves but the queue and the offset of the request.
Responded(k, n, seg, s, m) ==
    /\ s.card \in Cards(m) /\ s.card.tx = k.tx /\ s.card.burst = k.burst
    /\ MoreRx(k, s.card, m)
    /\ s.conn \in Conns(m) /\ ServerInv(s.conn)
    /\ s.conn.acked = n.acked /\ s.conn.clientWindow = n.clientWindow
    /\ s.conn.next = n.next
    /\ seg.data # <<>> => s.conn.clientNext = 1
    /\ seg.data = <<>> => s.conn.clientNext = n.clientNext
    /\ seg.data # <<>> /\ n.clientNext = 1 =>
           \E f \in Frames(m) : ~f.bad /\ s.card.rx = Append(k.rx, f)

LEMMA RespondStep ==
    ASSUME sc \in Scenarios, NEW m, NEW n \in Conns(m), NEW k \in Cards(m), QueueInv(n),
           ~n.serving, n.burst = 0, NEW seg \in Outgoing, Sparing(n, seg),
           seg.data # <<>> => seg.seq = 0,
           NEW s, s = Respond(k, n, seg, sc.o)
    PROVE  Responded(k, n, seg, s, m)
<1> DEFINE opens == ~n.established /\ seg.data = <<>> /\ ~seg.fin /\ seg.ack = n.next
           e == [n EXCEPT !.established = @ \/ opens]
           t == [e EXCEPT !.clientNext = @ + Len(Request), !.queue = Body, !.owes = TRUE]
<1>1. e \in Conns(m)
  <2>1. (n.established \/ opens) \in BOOLEAN
    BY ConnTypes
  <2>2. e = [n EXCEPT !.established = (n.established \/ opens)]
    OBVIOUS
  <2> HIDE DEF opens, e
  <2> QED
    BY <2>1, <2>2, ZenonT(60) DEF Conns
<1>2. /\ SameServer(n, e) /\ e.acked = n.acked /\ e.clientWindow = n.clientWindow
  <2> HIDE DEF opens
  <2> QED
    BY ZenonT(30) DEF Conns, SameServer
<1>3. QueueInv(e)
  BY <1>2, Zenon DEF SameServer, QueueInv, Paid
<1>4. seg.fin = FALSE /\ seg.data \in {<<>>, Request} /\ Request # <<>>
  BY DEF Outgoing, Request
<1>5. \/ e.queue = <<>> /\ s = Pair(k, e) /\ seg.data = <<>>
      \/ seg.data # <<>> /\ seg.seq # e.clientNext /\ s = Pair(PureAck(k, e), e)
      \/ seg.data = <<>> /\ s = Served(k, e)
      \/ seg.data = Request /\ seg.seq = e.clientNext /\ s = Served(k, t)
  <2>1. sc.o.response = Body
    BY ScenarioFacts
  <2>2. s = IF opens /\ e.queue = <<>> THEN Pair(k, e)
            ELSE IF seg.data # <<>> /\ seg.seq # e.clientNext THEN Pair(PureAck(k, e), e)
            ELSE Take(k, e, seg, sc.o)
    BY Zenon DEF Respond
  <2> HIDE DEF e
  <2>3. seg.data = <<>> => Take(k, e, seg, sc.o) = Served(k, e)
    BY <1>4, Zenon DEF Take
  <2>4. seg.data = Request => Take(k, e, seg, sc.o) = Served(k, t)
    BY <1>4, <2>1, Zenon DEF Take
  <2> HIDE DEF t
  <2> QED
    BY <1>4, <2>2, <2>3, <2>4
<1> HIDE DEF e
<1>50. /\ e.clientNext = n.clientNext /\ e.queue = n.queue /\ e.next = n.next
       /\ e.serving = n.serving /\ e.burst = 0 /\ n.clientNext \in 0..1
       /\ n.clientNext = 0 => n.next = 0 /\ n.acked <= n.next
  BY <1>2, <1>3 DEF SameServer, QueueInv
<1>6. CASE e.queue = <<>> /\ s = Pair(k, e) /\ seg.data = <<>>
  <2>1. s.card = k /\ s.conn = e
    BY <1>6 DEF Pair
  <2>2. ServerInv(e)
    BY <1>3, <1>6, <1>50 DEF ServerInv
  <2> QED
    BY <1>1, <1>2, <1>6, <1>50, <2>1, <2>2, MoreOrSame DEF Responded
<1>7. CASE seg.data # <<>> /\ seg.seq # e.clientNext /\ s = Pair(PureAck(k, e), e)
  <2>1. s.card = PureAck(k, e) /\ s.conn = e
    BY <1>7 DEF Pair
  <2>2. e.clientNext = 1
    BY <1>7, <1>50
  <2>3. ServerInv(e)
    BY <1>2, <1>3, <1>7, <1>50, <2>2 DEF ServerInv, Sparing
  <2>4. /\ s.card \in Cards(m) /\ s.card.tx = k.tx /\ s.card.burst = k.burst
        /\ \E f \in Frames(m) : ~f.bad /\ s.card.rx = Append(k.rx, f)
    BY <1>1, <2>1, PureAckStep
  <2>5. MoreRx(k, s.card, m)
    BY <2>4, MoreOrSame
  <2> QED
    BY <1>1, <1>2, <1>7, <1>50, <2>1, <2>2, <2>3, <2>4, <2>5 DEF Responded
<1>8. CASE seg.data = <<>> /\ s = Served(k, e)
  <2>1. CanSend(e) => e.burst <= 2 /\ Available(e) <= (3 - e.burst) * MSS
    <3>1. e.queue # <<>> => e.acked + e.clientWindow <= e.next + 2 * MSS
      BY <1>2, <1>8, <1>50 DEF Sparing
    <3>2. CanSend(e) => Available(e) <= 2 * MSS
      BY <1>1, <3>1, ConnTypes, Sizes DEF CanSend, Available, Larger
    <3>3. (3 - e.burst) * MSS = 3 * MSS /\ 2 * MSS <= 3 * MSS
      BY <1>50, Sizes
    <3>4. Available(e) \in Int
      BY <1>1, ConnTypes DEF Available, Larger
    <3> QED
      BY <1>50, <3>2, <3>3, <3>4, Sizes
  <2> QED
    BY <1>1, <1>2, <1>3, <1>8, <1>50, <2>1, ServedStep DEF Responded
<1>9. CASE seg.data = Request /\ seg.seq = e.clientNext /\ s = Served(k, t)
  <2>1. e.clientNext = 0
    BY <1>4, <1>9
  <2>2. /\ t \in Conns(m) /\ QueueInv(t) /\ t.acked = e.acked
        /\ t.clientWindow = e.clientWindow /\ t.next = e.next
        /\ t.clientNext = 1 /\ t.burst = e.burst /\ t.serving = e.serving
    BY <1>1, <1>3, <2>1, TakeRequest, ZenonT(60)
  <2> HIDE DEF t
  <2>3. CanSend(t) => t.burst <= 2 /\ Available(t) <= (3 - t.burst) * MSS
    BY <1>1, <1>2, <1>4, <1>9, <1>50, <2>1, <2>2, ConnTypes, Sizes
    DEF Available, Larger, Sparing
  <2> QED
    BY <1>2, <1>4, <1>9, <1>50, <2>1, <2>2, <2>3, ServedStep DEF Responded
<1> QED
  BY <1>5, <1>6, <1>7, <1>8, <1>9

\* A frame in the card stays there until the client reads it.
LEMMA GoodMore ==
    ASSUME NEW m, NEW k \in Cards(m), NEW l, MoreRx(k, l, m), Good(k.rx)
    PROVE  Good(l.rx)
<1>1. PICK more \in RxQueues(m) : l.rx = k.rx \o more
  BY DEF MoreRx
<1>2. k.rx \in Seq(Frames(m)) /\ more \in Seq(Frames(m))
  BY CardTypes DEF RxQueues
<1>3. PICK i \in 1..Len(k.rx) : ~k.rx[i].bad
  BY DEF Good
<1>4. /\ Len(k.rx) \in Nat /\ Len(more) \in Nat
      /\ Len(k.rx \o more) = Len(k.rx) + Len(more)
      /\ \A j \in 1..Len(k.rx) + Len(more) :
            (k.rx \o more)[j] = IF j <= Len(k.rx) THEN k.rx[j] ELSE more[j - Len(k.rx)]
  BY <1>2, ConcatProperties
<1>5. i \in 1..Len(l.rx) /\ l.rx[i] = k.rx[i]
  BY <1>1, <1>4
<1> QED
  BY <1>3, <1>5 DEF Good

\* The next segment: the beginning of the queue, as much of it as the window and the
\* segment size allow.
LEMMA NextSegmentStep ==
    ASSUME sc \in Scenarios, NEW m \in Marks, NEW n \in Conns(m), ServerInv(n), n.serving,
           m.next = n.next, NEW f, f = NextSegment(n, sc.o),
           NEW rest, rest = SubSeq(n.queue, Len(f.data) + 1, Len(n.queue))
    PROVE  /\ f \in [seq : Nat, ack : Nat, data : Bytes, fin : BOOLEAN, bad : BOOLEAN]
           /\ f.seq = n.next /\ ~f.bad /\ Len(f.data) \in Nat
           /\ 1 <= Len(f.data) /\ Len(f.data) <= MSS /\ Len(f.data) <= Available(n)
           /\ f.data # <<>> /\ Run(f.data, n.next)
           /\ n.next + Len(f.data) <= BodyLen /\ ~n.finSent
           /\ rest \in Bytes /\ Run(rest, n.next + Len(f.data))
           /\ Len(rest) = BodyLen - (n.next + Len(f.data))
           /\ f.fin <=> rest = <<>>
           /\ rest # <<>> => Len(f.data) = MSS \/ Len(f.data) = Available(n)
<1> DEFINE a == Available(n)
           size == Smaller(MSS, Smaller(a, Len(n.queue)))
           data == SubSeq(n.queue, 1, size)
<1>1. /\ CanSend(n) /\ QueueInv(n)
  BY DEF ServerInv
<1>2. /\ n.queue \in Bytes /\ n.next \in Nat /\ n.clientNext \in Nat
      /\ n.finSent \in BOOLEAN /\ Len(n.queue) \in Nat /\ n.queue # <<>>
      /\ Len(n.queue) # 0 /\ a \in Nat /\ a > 0
  <2>1. a \in Int /\ a > 0 /\ n.queue # <<>>
    BY <1>1, ConnTypes DEF CanSend, Available, Larger
  <2> HIDE DEF a
  <2> QED
    BY <2>1, ConnTypes
<1>3. ~n.finSent /\ Run(n.queue, n.next) /\ n.next + Len(n.queue) = BodyLen
  <2>1. n.clientNext = 1
    BY <1>1, <1>2 DEF QueueInv
  <2>2. ~n.finSent /\ Run(n.queue, Paid(n)) /\ Paid(n) + Len(n.queue) = BodyLen
    BY <1>1, <1>2, <2>1, Zenon DEF QueueInv
  <2>3. Paid(n) = n.next
    BY <1>2, <2>2 DEF Paid
  <2> QED
    BY <2>2, <2>3
<1> HIDE DEF a
<1>4. /\ size \in Nat /\ 1 <= size /\ size <= MSS /\ size <= a /\ size <= Len(n.queue)
      /\ size = MSS \/ size = a \/ size = Len(n.queue)
  BY <1>2, Sizes DEF Smaller
<1>5. PICK b \in BOOLEAN :
        f = Frame(n, n.next, data, b) /\ (b <=> size = Len(n.queue))
  <2> DEFINE last == ~n.finSent /\ sc.o.finWhenDrained /\ size = Len(n.queue)
  <2>1. last \in BOOLEAN /\ (last <=> size = Len(n.queue))
    BY <1>3, ScenarioFacts
  <2>2. sc.o.mss = MSS
    BY ScenarioFacts
  <2>3. f = Frame(n, n.next, data, last)
    BY <2>2, Zenon DEF NextSegment, a
  <2> HIDE DEF last, size, data
  <2> QED
    BY <2>1, <2>3
<1> HIDE DEF size
<1>6. data \in Bytes /\ Len(data) = size /\ Run(data, n.next)
  BY <1>2, <1>3, <1>4, RunSplit, Zenon
<1> HIDE DEF data
<1>7. /\ f.seq = n.next /\ f.data = data /\ f.bad = FALSE /\ f.ack = n.clientNext
      /\ f.fin <=> size = Len(n.queue)
      /\ f \in [seq : Nat, ack : Nat, data : Bytes, fin : BOOLEAN, bad : BOOLEAN]
  BY <1>2, <1>3, <1>5, <1>6 DEF Frame
<1>8. /\ rest \in Bytes /\ Len(rest) = Len(n.queue) - size /\ Run(rest, n.next + size)
  <2>1. rest = SubSeq(n.queue, size + 1, Len(n.queue))
    BY <1>6, <1>7, Zenon
  <2>2. /\ SubSeq(n.queue, size + 1, Len(n.queue)) \in Bytes
        /\ Len(SubSeq(n.queue, size + 1, Len(n.queue))) = Len(n.queue) - size
        /\ Run(SubSeq(n.queue, size + 1, Len(n.queue)), n.next + size)
    BY <1>2, <1>3, <1>4, RunSplit, Zenon
  <2> QED
    BY <2>1, <2>2, Zenon
<1>9. rest = <<>> <=> Len(rest) = 0
  BY <1>8, EmptySeq DEF Bytes
<1>10. data # <<>>
  BY <1>4, <1>6, EmptySeq
<1>11. /\ Len(rest) = BodyLen - (n.next + size) /\ n.next + size <= BodyLen
       /\ f.fin <=> rest = <<>>
       /\ rest # <<>> => size = MSS \/ size = a
  BY <1>2, <1>3, <1>4, <1>7, <1>8, <1>9, SMTT(60)
<1>12. ~f.bad
  BY <1>7
<1>13. Len(f.data) = size
  BY <1>6, <1>7
<1> QED
  BY <1>3, <1>4, <1>6, <1>7, <1>8, <1>10, <1>11, <1>12, <1>13, Zenon DEF a

\* The copy with a broken checksum; only the first segment is ever damaged.
LEMMA BadCopy ==
    ASSUME NEW m,
           NEW f \in [seq : Nat, ack : Nat, data : Bytes, fin : BOOLEAN, bad : BOOLEAN],
           f.seq = 0, NEW d \in Bytes, d # <<>>
    PROVE  [f EXCEPT !.bad = TRUE, !.data = d] \in Frames(m)
BY DEF Frames

LEMMA DamagedStep ==
    ASSUME NEW m,
           NEW f \in [seq : Nat, ack : Nat, data : Bytes, fin : BOOLEAN, bad : BOOLEAN],
           f.data # <<>>, f.seq = 0,
           NEW g, g = [f EXCEPT !.bad = TRUE, !.data[1] = -@]
    PROVE  g \in Frames(m)
<1> DEFINE d == [f.data EXCEPT ![1] = -@]
<1>1. f.data \in Bytes /\ f.ack \in Nat /\ f.fin \in BOOLEAN
  OBVIOUS
<1>2. d \in Bytes /\ d # <<>>
  <2>1. f.data \in Seq(Int) /\ Len(f.data) \in Nat /\ Len(f.data) # 0
    BY <1>1, EmptySeq DEF Bytes
  <2>2. DOMAIN f.data = 1..Len(f.data) /\ f.data[1] \in Int
    BY <2>1
  <2>3. d \in [1..Len(f.data) -> Int]
    BY <2>1, <2>2
  <2>4. d \in Seq(Int) /\ Len(d) = Len(f.data)
    BY <2>1, <2>3
  <2> QED
    BY <2>1, <2>4 DEF Bytes
<1>3. g = [f EXCEPT !.bad = TRUE, !.data = d]
  OBVIOUS
<1> HIDE DEF d
<1>4. [f EXCEPT !.bad = TRUE, !.data = d] \in Frames(m)
  BY <1>2, BadCopy
<1> QED
  BY <1>3, <1>4, Zenon

\* One round of the drain: the mark moves behind the segment, and the drain goes on
\* only after a full segment.
LEMMA SendNextStep ==
    ASSUME sc \in Scenarios, NEW m \in Marks, NEW n \in Conns(m), ServerInv(n), n.serving,
           m.next = n.next, NEW k \in Cards(m), NEW f, f = NextSegment(n, sc.o),
           NEW s, s = SendNext(k, n, f, sc.o)
    PROVE  \E l \in Marks :
              /\ Later(m, l) /\ l.next = s.conn.next
              /\ s.card \in Cards(l) /\ s.card.tx = k.tx
              /\ s.conn \in Conns(l) /\ ServerInv(s.conn)
              /\ s.conn.acked = n.acked /\ s.conn.clientWindow = n.clientWindow
              /\ s.conn.clientNext = n.clientNext
              /\ Good(k.rx) => Good(s.card.rx)
<1> DEFINE size == Len(f.data)
           end  == n.next + size + (IF f.fin THEN 1 ELSE 0)
           l    == [next |-> end, last |-> n.next]
           rest == SubSeq(n.queue, size + 1, Len(n.queue))
           isLost  == k.dataSent + 1 \in sc.o.lose
           damaged == sc.o.corruptOnce /\ ~n.corruptSent
           bad  == [f EXCEPT !.bad = TRUE, !.data[1] = -@]
           copies  == (IF damaged THEN <<bad>> ELSE <<>>)
                      \o (IF isLost THEN <<>> ELSE <<f>>)
                      \o (IF sc.o.duplicate THEN <<f>> ELSE <<>>)
           gone == IF isLost THEN k.lost + 1 ELSE k.lost
           most == Larger(k.burst, n.burst + 1)
           counted == [k EXCEPT !.dataSent = k.dataSent + 1, !.lost = gone, !.burst = most]
           corr == n.corruptSent \/ damaged
           kept == IF sc.o.lose = {} THEN n.sent
                   ELSE n.sent \cup {[seq |-> f.seq, data |-> f.data, fin |-> f.fin]}
           seqs == IF isLost THEN n.lostSeqs \cup {f.seq} ELSE n.lostSeqs
           fins == n.finSent \/ f.fin
           sent == [n EXCEPT !.queue = rest, !.corruptSent = corr, !.sent = kept,
                             !.lostSeqs = seqs, !.next = end, !.finSent = fins,
                             !.burst = n.burst + 1]
           put  == DeliverData(counted, copies, sc.o)
<1>1. s = Served(put, sent)
  BY DEF SendNext
<1>2. /\ f \in [seq : Nat, ack : Nat, data : Bytes, fin : BOOLEAN, bad : BOOLEAN]
      /\ f.seq = n.next /\ ~f.bad /\ size \in Nat
      /\ 1 <= size /\ size <= MSS /\ size <= Available(n)
      /\ f.data # <<>> /\ Run(f.data, n.next)
      /\ n.next + size <= BodyLen /\ ~n.finSent
      /\ rest \in Bytes /\ Run(rest, n.next + size)
      /\ Len(rest) = BodyLen - (n.next + size)
      /\ f.fin <=> rest = <<>>
      /\ rest # <<>> => size = MSS \/ size = Available(n)
  BY NextSegmentStep
<1>3. /\ n.next \in Nat /\ n.acked \in Nat /\ n.clientWindow \in Int /\ n.burst \in Nat
      /\ n.clientNext \in Nat /\ f.fin \in BOOLEAN /\ n.finSent \in BOOLEAN
      /\ n.burst <= 2 /\ Available(n) <= (3 - n.burst) * MSS
      /\ n.queue # <<>> /\ n.acked <= n.next /\ n.clientNext = 1
      /\ sc.o.corruptOnce => n.corruptSent \/ n.next = 0
  <2>1. n.clientNext \in 0..1 /\ n.queue # <<>> /\ (n.clientNext = 0 => n.queue = <<>>)
    BY DEF ServerInv, QueueInv, CanSend
  <2> QED
    BY <1>2, <2>1, ConnTypes DEF ServerInv, QueueInv
<1> HIDE DEF rest, size
<1>4. l \in Marks /\ Later(m, l) /\ end \in Nat /\ l.next = end
  <2>1. end \in Nat /\ n.next <= end /\ n.next \in 0..BodyLen /\ ~(BodyLen + 1 <= n.next)
    BY <1>2, <1>3, Sizes, SMTT(60)
  <2>2. m.next = n.next /\ m.last <= n.next
    BY DEF Marks
  <2> HIDE DEF end
  <2>3. l.next = end /\ l.last = n.next /\ l \in [next : Nat, last : 0..BodyLen]
    BY <2>1
  <2> QED
    BY <2>1, <2>2, <2>3 DEF Marks, Later
<1>5. Whole(f.seq, f.data, f.fin, l)
  <2>1. f.fin => n.next + size = BodyLen /\ BodyLen + 1 <= end
    <3>1. CASE f.fin
      <4>1. /\ Len(rest) = 0 /\ Len(rest) = BodyLen - (n.next + size)
            /\ size \in Nat /\ n.next \in Nat
        BY <1>2, <1>3, <3>1
      <4>2. end = n.next + size + 1
        BY <3>1
      <4> HIDE DEF end
      <4> QED
        BY <4>1, <4>2, Sizes
    <3> QED
      BY <3>1
  <2>2. n.next + size <= end
    BY <1>2, <1>3
  <2> QED
    BY <1>2, <1>3, <1>4, <2>1, <2>2 DEF Whole, size
<1>6. k \in Cards(l) /\ n \in Conns(l)
  BY <1>4, StateGrows
<1> HIDE DEF l, end
<1>7. copies \in Seq(Frames(l))
  <2>1. f \in Frames(l)
    BY <1>2, <1>5 DEF Frames
  <2>2. damaged => bad \in Frames(l)
    <3> HIDE DEF bad
    <3>1. CASE damaged
      <4>1. f.seq = 0
        BY <1>2, <1>3, <3>1
      <4> QED
        BY <1>2, <4>1, DamagedStep, Zenon DEF bad
    <3> QED
      BY <3>1
  <2> HIDE DEF bad, damaged, isLost
  <2> DEFINE x == IF damaged THEN <<bad>> ELSE <<>>
             y == IF isLost THEN <<>> ELSE <<f>>
             z == IF sc.o.duplicate THEN <<f>> ELSE <<>>
  <2>3. x \in Seq(Frames(l)) /\ y \in Seq(Frames(l)) /\ z \in Seq(Frames(l))
    BY <2>1, <2>2
  <2> HIDE DEF x, y, z
  <2>4. (x \o y) \o z \in Seq(Frames(l))
    BY <2>3, ConcatProperties
  <2> QED
    BY <2>4, Zenon DEF x, y, z
<1> HIDE DEF copies
<1>8. counted \in Cards(l) /\ counted.tx = k.tx /\ counted.rx = k.rx
  <2>1. k.dataSent + 1 \in Nat /\ gone \in Nat /\ most \in 0..3
    <3>1. k.dataSent \in Nat /\ k.lost \in Nat /\ k.burst \in 0..3
      BY CardTypes
    <3> HIDE DEF isLost
    <3>2. k.dataSent + 1 \in Nat /\ gone \in Nat
      BY <3>1
    <3>3. n.burst + 1 \in 0..3
      BY <1>3
    <3>4. most \in 0..3
      BY <3>1, <3>3 DEF Larger
    <3> QED
      BY <3>2, <3>4
  <2> HIDE DEF gone, most
  <2>2. counted \in Cards(l)
    BY <1>6, <2>1, ZenonT(60) DEF Cards
  <2> QED
    BY <2>2, ZenonT(30) DEF Cards
<1> HIDE DEF counted
<1>9. /\ put \in Cards(l) /\ put.tx = k.tx /\ MoreRx(counted, put, l)
  <2>1. put \in Cards(l) /\ put.tx = counted.tx /\ Delivered(counted, copies, put)
    BY <1>7, <1>8, DeliverStep
  <2> HIDE DEF put
  <2>2. MoreRx(counted, put, l)
    BY <1>7, <1>8, <2>1, MoreOrSame, Zenon DEF Delivered, RxQueues
  <2> QED
    BY <1>8, <2>1, <2>2
<1> HIDE DEF put
<1>10. sent \in Conns(l)
  <2>1. kept \in SentSets(l)
    <3>1. [seq |-> f.seq, data |-> f.data, fin |-> f.fin] \in Pieces(l)
      BY <1>2, <1>5 DEF Pieces
    <3> QED
      BY <1>6, <3>1, ConnTypes DEF SentSets
  <2>2. corr \in BOOLEAN /\ fins \in BOOLEAN /\ n.burst + 1 \in Nat
    BY <1>3, ConnTypes
  <2>3. seqs \in SeqSets
    BY <1>2, <1>3, <1>6, ConnTypes DEF SeqSets
  <2> HIDE DEF kept, corr, fins, seqs
  <2> QED
    BY <1>2, <1>4, <1>6, <2>1, <2>2, <2>3, ZenonT(60) DEF Conns
<1>11. /\ sent.acked = n.acked /\ sent.clientWindow = n.clientWindow
       /\ sent.clientNext = n.clientNext /\ sent.next = end /\ sent.queue = rest
       /\ sent.finSent = fins /\ sent.corruptSent = corr /\ sent.burst = n.burst + 1
  <2> HIDE DEF kept, corr, fins, seqs
  <2> QED
    BY ZenonT(30) DEF Conns
<1> HIDE DEF sent
<1>12. Paid(sent) = n.next + size
  <2>1. CASE f.fin
    BY <1>2, <1>3, <1>11, <2>1 DEF Paid, end
  <2>2. CASE ~f.fin
    BY <1>2, <1>3, <1>11, <2>2 DEF Paid, end
  <2> QED
    BY <2>1, <2>2
<1>13. size <= n.clientWindow - (n.next - n.acked)
  BY <1>2, <1>3 DEF Available, Larger
<1>14. QueueInv(sent)
  <2>1. sent.clientNext \in 0..1 /\ sent.clientNext # 0
    BY <1>3, <1>11
  <2>2. sent.acked <= sent.next
    BY <1>2, <1>3, <1>11 DEF end
  <2>3. /\ Run(sent.queue, Paid(sent)) /\ Paid(sent) + Len(sent.queue) = BodyLen
        /\ sent.finSent <=> sent.queue = <<>>
    BY <1>2, <1>3, <1>11, <1>12, Sizes, SMTT(60)
  <2>4. Paid(sent) <= sent.acked + sent.clientWindow
    BY <1>2, <1>3, <1>11, <1>12, <1>13, SMTT(60)
  <2>5. sc.o.corruptOnce => sent.corruptSent
    BY <1>11
  <2> QED
    BY <2>1, <2>2, <2>3, <2>4, <2>5, Zenon DEF QueueInv
<1>15. CanSend(sent) => sent.burst <= 2 /\ Available(sent) <= (3 - sent.burst) * MSS
  <2>1. SUFFICES ASSUME CanSend(sent)
                 PROVE  sent.burst <= 2 /\ Available(sent) <= (3 - sent.burst) * MSS
    OBVIOUS
  <2>2. rest # <<>> /\ Available(sent) > 0 /\ ~f.fin
    BY <1>2, <1>11, <2>1 DEF CanSend
  <2>3. /\ Available(n) = n.clientWindow - (n.next - n.acked)
        /\ Available(sent) = Available(n) - size
    BY <1>2, <1>3, <1>11, <1>13, <2>2, SMTT(60) DEF Available, Larger, end
  <2>4. Available(n) \in Int /\ size = MSS
    BY <1>2, <1>3, <2>2, <2>3, SMTT(60)
  <2>5. n.burst = 0 \/ n.burst = 1 \/ n.burst = 2
    BY <1>3
  <2>6. /\ (3 - 0) * MSS = 3 * MSS /\ (3 - 1) * MSS = 2 * MSS /\ (3 - 2) * MSS = MSS
        /\ MSS \in Nat
    BY Sizes
  <2>7. Available(n) <= (3 - n.burst) * MSS /\ Available(sent) = Available(n) - MSS
        /\ Available(sent) > 0 /\ sent.burst = n.burst + 1
    BY <1>3, <1>11, <2>2, <2>3, <2>4
  <2>8. CASE n.burst = 0
    <3>1. (3 - n.burst) * MSS = 3 * MSS /\ (3 - sent.burst) * MSS = 2 * MSS
          /\ sent.burst = 1
      BY <2>6, <2>7, <2>8
    <3> QED
      BY <2>4, <2>6, <2>7, <3>1
  <2>9. CASE n.burst = 1
    <3>1. (3 - n.burst) * MSS = 2 * MSS /\ (3 - sent.burst) * MSS = MSS
          /\ sent.burst = 2
      BY <2>6, <2>7, <2>9
    <3> QED
      BY <2>4, <2>6, <2>7, <3>1
  <2>10. CASE n.burst = 2
    <3>1. (3 - n.burst) * MSS = MSS
      BY <2>6, <2>10
    <3> QED
      BY <2>4, <2>6, <2>7, <3>1
  <2> QED
    BY <2>5, <2>8, <2>9, <2>10
<1>16. /\ s.card \in Cards(l) /\ s.card.tx = put.tx /\ MoreRx(put, s.card, l)
       /\ s.conn \in Conns(l) /\ ServerInv(s.conn)
       /\ s.conn.acked = sent.acked /\ s.conn.clientWindow = sent.clientWindow
       /\ s.conn.next = sent.next /\ s.conn.clientNext = sent.clientNext
  BY <1>1, <1>9, <1>10, <1>14, <1>15, ServedStep
<1>17. Good(k.rx) => Good(s.card.rx)
  BY <1>8, <1>9, <1>16, GoodMore, Zenon
<1> QED
  BY <1>4, <1>9, <1>11, <1>16, <1>17
----------------------------------------------------------------------------
(***************************************************************************)
(* The steps.                                                              *)
(***************************************************************************)
\* The parts of the invariant after a step.
LEMMA NextInv ==
    ASSUME NEW m \in Marks, sc' = sc, sc \in Scenarios,
           m.next = conn'.next, pc' \in Places \ {"open"}, caller' \in Callers,
           app' \in Bytes, card' \in Cards(m), conn' \in Conns(m), ServerInv(conn'),
           ClientInv(cl', app', pc', caller', m),
           PromiseInv(cl', card', conn'), HandInv(pc', cl', card', conn')
    PROVE  Inv(m)'
<1>1. ServerInv(conn)'
  BY Zenon DEF ServerInv, QueueInv
<1>2. ClientInv(cl, app, pc, caller, m)'
  BY Zenon DEF ClientInv, WindowInv, BufferInv, PlaceInv
<1>3. PromiseInv(cl, card, conn)' /\ HandInv(pc, cl, card, conn)'
  BY Zenon DEF HandInv, Fresh
<1>4. pc' # "open" /\ pc' \in Places
  BY Zenon
<1> QED
  BY <1>1, <1>2, <1>3, <1>4, Zenon DEF Inv

\* The parts before it.
LEMMA OpenInv ==
    ASSUME NEW m \in Marks, Inv(m)
    PROVE  /\ m.next = conn.next /\ sc \in Scenarios /\ pc \in Places /\ caller \in Callers
           /\ app \in Bytes /\ card \in Cards(m) /\ conn \in Conns(m) /\ ServerInv(conn)
           /\ ClientInv(cl, app, pc, caller, m)
           /\ cl \in Clients(m)
           /\ pc # "open" => PromiseInv(cl, card, conn) /\ HandInv(pc, cl, card, conn)
           /\ pc = "open" => /\ cl = Client(Smaller(sc.target, InitialSegments))
                             /\ card = NewCard /\ conn = NewConn(0) /\ app = <<>>
BY Zenon DEF Inv, ClientInv

\* A frame in the card whatever else arrives.
LEMMA GoodAppend ==
    ASSUME NEW m, NEW k \in Cards(m), NEW l, NEW f \in Frames(m), ~f.bad,
           l.rx = Append(k.rx, f)
    PROVE  Good(l.rx)
<1>1. /\ k.rx \in Seq(Frames(m)) /\ Len(k.rx) \in Nat
      /\ Len(Append(k.rx, f)) = Len(k.rx) + 1
      /\ Append(k.rx, f)[Len(k.rx) + 1] = f
  BY CardTypes, AppendProperties DEF RxQueues
<1>2. Len(k.rx) + 1 \in 1..Len(l.rx)
  BY <1>1
<1> QED
  BY <1>1, <1>2 DEF Good

LEMMA AnswerInv ==
    ASSUME NEW m \in Marks, Inv(m), Answer
    PROVE  /\ Inv(m)'
           /\ conn.acked + conn.clientWindow <= conn'.acked + conn'.clientWindow
<1> DEFINE g == Head(card.tx)
           k == [card EXCEPT !.tx = <<>>]
           a == Acknowledge(k, conn, g, sc.o)
           s == Respond(a.card, a.conn, g, sc.o)
<1>1. /\ m.next = conn.next /\ sc \in Scenarios /\ pc \in Places /\ caller \in Callers
      /\ app \in Bytes /\ card \in Cards(m) /\ conn \in Conns(m) /\ ServerInv(conn)
      /\ ClientInv(cl, app, pc, caller, m) /\ cl \in Clients(m)
  BY OpenInv
<1>2. card.tx # <<>> /\ card' = s.card /\ conn' = s.conn
      /\ sc' = sc /\ pc' = pc /\ caller' = caller /\ cl' = cl /\ app' = app
  BY DEF Answer, Answered
<1>3. pc # "open" /\ PromiseInv(cl, card, conn) /\ HandInv(pc, cl, card, conn)
  BY <1>2, OpenInv DEF NewCard
<1>4. /\ ~conn.serving /\ g \in Outgoing /\ g = card.tx[1] /\ InFlight(g, cl, conn)
      /\ conn.acked <= cl.rcv /\ cl.rcv <= conn.next
      /\ conn.acked + conn.clientWindow <= cl.edge
  <2>1. /\ ~conn.serving /\ Len(card.tx) = 1 /\ InFlight(card.tx[1], cl, conn)
        /\ conn.acked <= cl.rcv /\ cl.rcv <= conn.next
        /\ conn.acked + conn.clientWindow <= cl.edge
    BY <1>2, <1>3, Zenon DEF PromiseInv
  <2>2. card.tx \in Seq(Outgoing)
    BY <1>1, CardTypes DEF TxQueues
  <2> QED
    BY <1>2, <2>1, <2>2
<1>5. /\ k \in Cards(m) /\ k.tx = <<>> /\ k.rx = card.rx
  <2>1. <<>> \in TxQueues
    BY DEF TxQueues
  <2>2. k \in Cards(m)
    BY <1>1, <2>1, ZenonT(30) DEF Cards
  <2> QED
    BY <1>1, <2>2, ZenonT(30) DEF Cards
<1> HIDE DEF g, k
<1>50. /\ conn.acked \in Nat /\ conn.clientWindow \in Int /\ conn.next \in Nat
       /\ cl.rcv \in Nat /\ cl.edge \in Int /\ g.ack = cl.rcv
       /\ g.window = cl.edge - cl.rcv /\ conn.burst = 0 /\ QueueInv(conn)
       /\ conn.queue # <<>> => conn.acked + conn.clientWindow <= conn.next
  BY <1>1, <1>4, ClientTypes, ConnTypes DEF InFlight, ServerInv
<1>6. /\ a.card \in Cards(m) /\ a.card.tx = <<>> /\ MoreRx(k, a.card, m)
      /\ a.conn \in Conns(m) /\ SameServer(conn, a.conn) /\ QueueInv(a.conn)
      /\ a.conn.acked = cl.rcv /\ a.conn.clientWindow = cl.edge - cl.rcv
  <2>1. conn.acked <= g.ack /\ g.ack <= conn.next
        /\ conn.acked + conn.clientWindow <= g.ack + g.window
    BY <1>4, <1>50
  <2>2. /\ a.card \in Cards(m) /\ a.card.tx = k.tx /\ MoreRx(k, a.card, m)
        /\ a.conn \in Conns(m) /\ SameServer(conn, a.conn) /\ QueueInv(a.conn)
        /\ a.conn.acked = g.ack /\ a.conn.clientWindow = g.window
    BY <1>1, <1>4, <1>5, <1>50, <2>1, AcknowledgeStep
  <2> QED
    BY <1>5, <1>50, <2>2
<1> HIDE DEF a
<1>60. /\ a.conn.next = conn.next /\ a.conn.queue = conn.queue /\ ~a.conn.serving
       /\ a.conn.clientNext = conn.clientNext /\ a.conn.burst = 0
       /\ a.conn.acked + a.conn.clientWindow = cl.edge
  BY <1>4, <1>50, <1>6 DEF SameServer
<1>7. Sparing(a.conn, g) /\ (g.data # <<>> => g.seq = 0)
  BY <1>4, <1>50, <1>6, <1>60, Sizes, SMTT(60) DEF Sparing, InFlight
<1>70. Responded(a.card, a.conn, g, s, m)
  BY <1>1, <1>4, <1>6, <1>60, <1>7, RespondStep, Zenon
<1>8. /\ s.card \in Cards(m) /\ s.card.tx = a.card.tx /\ MoreRx(a.card, s.card, m)
      /\ s.conn \in Conns(m) /\ ServerInv(s.conn)
      /\ s.conn.acked = a.conn.acked /\ s.conn.clientWindow = a.conn.clientWindow
      /\ s.conn.next = a.conn.next
      /\ g.data # <<>> => s.conn.clientNext = 1
      /\ g.data = <<>> => s.conn.clientNext = a.conn.clientNext
      /\ g.data # <<>> /\ a.conn.clientNext = 1 =>
             \E f \in Frames(m) : ~f.bad /\ s.card.rx = Append(a.card.rx, f)
  BY <1>70, Zenon DEF Responded
<1> HIDE DEF s
<1>9. PromiseInv(cl, s.card, s.conn)
  BY <1>4, <1>50, <1>6, <1>60, <1>8 DEF PromiseInv
<1>10. HandInv(pc, cl, s.card, s.conn)
  <2>1. pc = "request" => g.data = <<>> /\ conn.clientNext = 0 /\ s.conn.clientNext = 0
    BY <1>2, <1>3, <1>4, <1>60, <1>8, Zenon DEF HandInv
  <2>2. pc = "send" => g.data # <<>> /\ s.conn.clientNext = 1
    BY <1>2, <1>3, <1>4, <1>60, <1>8, Zenon DEF HandInv
  <2>3. pc = "send" /\ conn.clientNext = 1 => Good(s.card.rx)
    BY <1>6, <1>60, <1>8, <2>2, GoodAppend
  <2>4. s.card.tx = <<>>
    BY <1>6, <1>8
  <2> QED
    BY <1>3, <2>1, <2>2, <2>3, <2>4, Zenon DEF HandInv
<1>11. m.next = s.conn.next /\ pc \in Places \ {"open"}
  BY <1>1, <1>3, <1>8, <1>60
<1>12. conn.acked + conn.clientWindow <= s.conn.acked + s.conn.clientWindow
  BY <1>4, <1>60, <1>8, Zenon
<1> QED
  BY <1>1, <1>2, <1>8, <1>9, <1>10, <1>11, <1>12, NextInv, Zenon

LEMMA ServeInv ==
    ASSUME NEW m \in Marks, Inv(m), Serve
    PROVE  /\ \E l \in Marks : Inv(l)'
           /\ conn'.acked = conn.acked /\ conn'.clientWindow = conn.clientWindow
<1> DEFINE f == NextSegment(conn, sc.o)
           s == SendNext(card, conn, f, sc.o)
<1>1. /\ m.next = conn.next /\ sc \in Scenarios /\ pc \in Places /\ caller \in Callers
      /\ app \in Bytes /\ card \in Cards(m) /\ conn \in Conns(m) /\ ServerInv(conn)
      /\ ClientInv(cl, app, pc, caller, m) /\ cl \in Clients(m)
  BY OpenInv
<1>2. conn.serving /\ card' = s.card /\ conn' = s.conn
      /\ sc' = sc /\ pc' = pc /\ caller' = caller /\ cl' = cl /\ app' = app
  BY DEF Serve, Answered
<1>3. pc # "open" /\ PromiseInv(cl, card, conn) /\ HandInv(pc, cl, card, conn)
  BY <1>2, OpenInv DEF NewConn
<1>4. PICK l \in Marks :
              /\ Later(m, l) /\ l.next = s.conn.next
              /\ s.card \in Cards(l) /\ s.card.tx = card.tx
              /\ s.conn \in Conns(l) /\ ServerInv(s.conn)
              /\ s.conn.acked = conn.acked /\ s.conn.clientWindow = conn.clientWindow
              /\ s.conn.clientNext = conn.clientNext
              /\ Good(card.rx) => Good(s.card.rx)
  BY <1>1, <1>2, SendNextStep
<1> HIDE DEF s
<1>5. card.tx = <<>>
  BY <1>2, <1>3 DEF PromiseInv
<1>6. PromiseInv(cl, s.card, s.conn)
  <2>1. cl.rcv \in Nat /\ m.next \in Nat /\ l.next \in Nat /\ m.next <= l.next
        /\ conn.acked <= cl.rcv /\ cl.rcv <= conn.next
        /\ conn.acked + conn.clientWindow <= cl.edge
        /\ conn.acked + conn.clientWindow = cl.edge
    BY <1>1, <1>3, <1>4, <1>5, ClientTypes DEF PromiseInv, Later, Marks
  <2> QED
    BY <1>1, <1>4, <1>5, <2>1 DEF PromiseInv
<1>7. HandInv(pc, cl, s.card, s.conn)
  BY <1>3, <1>4, <1>5, Zenon DEF HandInv
<1>8. ClientInv(cl, app, pc, caller, l)
  BY <1>1, <1>4, StateGrows, Zenon DEF ClientInv
<1> QED
  BY <1>1, <1>2, <1>3, <1>4, <1>6, <1>7, <1>8, NextInv, Zenon

\* Between two segments the server's view of the right edge is the client's.
LEMMA AtFacts ==
    ASSUME NEW m \in Marks, Inv(m), NEW label, At(label), label # "open"
    PROVE  /\ pc = label /\ card.tx = <<>> /\ ~conn.serving
           /\ Settled(cl, conn) /\ HandInv(pc, cl, card, conn)
BY OpenInv, Zenon DEF At, PromiseInv, Settled

\* The promise with nothing to be answered; nothing more is asked outside the handshake.
LEMMA QuietInv ==
    ASSUME NEW m, NEW c \in Clients(m), NEW k, k.tx = <<>>, NEW n \in Conns(m),
           Settled(c, n), NEW p, p \notin {"request", "send"}
    PROVE  PromiseInv(c, k, n) /\ HandInv(p, c, k, n)
<1>1. n.acked + n.clientWindow <= c.edge
  BY ClientTypes DEF Settled
<1> QED
  BY <1>1, Zenon DEF PromiseInv, HandInv, Settled

\* A step that only moves the client on.
LEMMA MoveOn ==
    ASSUME NEW m \in Marks, Inv(m), NEW label, At(label), label # "open",
           UNCHANGED <<sc, cl, card, conn, app>>, caller' \in Callers,
           pc' \in Places \ {"open", "request", "send"},
           PlaceInv(pc', caller', cl), StaleInv(pc', cl)
    PROVE  Inv(m)'
<1>1. /\ m.next = conn.next /\ sc \in Scenarios /\ app \in Bytes /\ card \in Cards(m)
      /\ conn \in Conns(m) /\ ServerInv(conn) /\ ClientInv(cl, app, pc, caller, m)
      /\ cl \in Clients(m)
  BY OpenInv
<1>2. card.tx = <<>> /\ Settled(cl, conn)
  BY AtFacts
<1>3. PromiseInv(cl, card, conn) /\ HandInv(pc', cl, card, conn)
  BY <1>1, <1>2, QuietInv
<1>4. ClientInv(cl, app, pc', caller', m)
  BY <1>1, Zenon DEF ClientInv
<1> QED
  BY <1>1, <1>3, <1>4, NextInv, Zenon

LEMMA BodyCompleteInv ==
    ASSUME NEW m \in Marks, Inv(m), BodyComplete
    PROVE  Inv(m)'
<1>1. At("app") /\ pc' = "done" /\ UNCHANGED <<sc, cl, card, conn, app>> /\ caller' = caller
  BY DEF BodyComplete
<1>2. pc = "app" /\ caller \in Callers /\ StaleInv(pc, cl)
  BY <1>1, OpenInv DEF At, ClientInv
<1>3. PlaceInv(pc', caller', cl) /\ StaleInv(pc', cl)
  BY <1>1, <1>2 DEF PlaceInv, StaleInv
<1> QED
  BY <1>1, <1>2, <1>3, MoveOn DEF Places

LEMMA RecvTimeoutInv ==
    ASSUME NEW m \in Marks, Inv(m), RecvTimeout
    PROVE  Inv(m)'
<1>1. At("wait") /\ pc' = "failed" /\ UNCHANGED <<sc, cl, card, conn, app>>
      /\ caller' = caller
  BY DEF RecvTimeout
<1>2. pc = "wait" /\ caller \in Callers /\ StaleInv(pc, cl)
  BY <1>1, OpenInv DEF At, ClientInv
<1>3. PlaceInv(pc', caller', cl) /\ StaleInv(pc', cl)
  BY <1>1, <1>2 DEF PlaceInv, StaleInv
<1> QED
  BY <1>1, <1>2, <1>3, MoveOn DEF Places

LEMMA CheckPendingInv ==
    ASSUME NEW m \in Marks, Inv(m), CheckPending
    PROVE  Inv(m)'
<1>1. At("check") /\ pc' = "copy" /\ UNCHANGED <<sc, cl, card, conn, app>>
      /\ caller' = caller
  BY DEF CheckPending
<1>2. pc = "check" /\ caller \in Callers /\ PlaceInv(pc, caller, cl) /\ StaleInv(pc, cl)
  BY <1>1, OpenInv DEF At, ClientInv
<1>3. PlaceInv(pc', caller', cl) /\ StaleInv(pc', cl)
  BY <1>1, <1>2 DEF PlaceInv, StaleInv
<1> QED
  BY <1>1, <1>2, <1>3, MoveOn DEF Places

LEMMA CheckKeptInv ==
    ASSUME NEW m \in Marks, Inv(m), CheckKept
    PROVE  Inv(m)'
<1> DEFINE c == [cl EXCEPT !.blocked = FALSE]
<1>1. /\ At("check") /\ cl.pend = <<>> /\ cl' = c /\ pc' = "drain" /\ caller' = "check"
      /\ UNCHANGED <<sc, card, conn, app>>
  BY DEF CheckKept
<1>2. /\ m.next = conn.next /\ sc \in Scenarios /\ app \in Bytes /\ card \in Cards(m)
      /\ conn \in Conns(m) /\ ServerInv(conn) /\ ClientInv(cl, app, pc, caller, m)
      /\ cl \in Clients(m) /\ pc = "check" /\ card.tx = <<>> /\ Settled(cl, conn)
  BY <1>1, OpenInv, AtFacts
<1>3. c \in Clients(m)
  BY <1>2, ZenonT(60) DEF Clients
<1>4. /\ SameStream(cl, c) /\ c.window = cl.window /\ c.segments = cl.segments
      /\ c.grow = cl.grow /\ c.edge = cl.edge /\ c.shut = cl.shut /\ c.wnd = cl.wnd
      /\ c.pace = cl.pace /\ c.hole = cl.hole
  BY <1>2, ZenonT(60) DEF Clients, SameStream
<1> HIDE DEF c
<1>5. WindowInv(c) /\ BufferInv(c) /\ StreamInv(c, app) /\ c.wnd >= 0
  BY <1>2, <1>4, Zenon DEF ClientInv, WindowInv, BufferInv, StreamInv, Received, SameStream
<1>6. PlaceInv("drain", "check", c) /\ StaleInv("drain", c)
  <2>1. c.pend = <<>> /\ c.free = sc.capacity
    BY <1>1, <1>2, <1>4 DEF SameStream, ClientInv, PlaceInv
  <2> QED
    BY <2>1 DEF PlaceInv, StaleInv
<1>7. ClientInv(c, app, "drain", "check", m)
  BY <1>3, <1>5, <1>6, Zenon DEF ClientInv
<1>8. Settled(c, conn)
  BY <1>2, <1>4, Zenon DEF Settled, SameStream
<1>9. PromiseInv(c, card, conn) /\ HandInv("drain", c, card, conn)
  BY <1>2, <1>3, <1>8, QuietInv
<1>10. "drain" \in Places \ {"open"} /\ "check" \in Callers
  BY DEF Places, Callers
<1> QED
  BY <1>1, <1>2, <1>7, <1>9, <1>10, NextInv, Zenon

LEMMA RecvInv ==
    ASSUME NEW m \in Marks, Inv(m), Recv
    PROVE  Inv(m)'
<1> DEFINE c == [cl EXCEPT !.free = sc.capacity, !.buf = <<>>]
<1>1. /\ At("app") /\ cl' = c /\ pc' = "check" /\ caller' = caller
      /\ UNCHANGED <<sc, card, conn, app>>
  BY DEF Recv
<1>2. /\ m.next = conn.next /\ sc \in Scenarios /\ app \in Bytes /\ card \in Cards(m)
      /\ conn \in Conns(m) /\ ServerInv(conn) /\ ClientInv(cl, app, pc, caller, m)
      /\ cl \in Clients(m) /\ pc = "app" /\ card.tx = <<>> /\ Settled(cl, conn)
      /\ caller \in Callers
  BY <1>1, OpenInv, AtFacts
<1>3. /\ sc.capacity \in Nat /\ sc.capacity >= MSS /\ <<>> \in Bytes /\ Len(<<>>) = 0
      /\ \A a \in Int : Run(<<>>, a)
  BY <1>2, ScenarioFacts, RunOfNothing
<1>30. cl.buf = <<>> /\ cl.free = 0
  <2>1. cl.free = 0 /\ Len(cl.buf) <= cl.free
    BY <1>2 DEF ClientInv, PlaceInv, BufferInv
  <2>2. cl.buf \in Seq(Int)
    BY <1>2, ClientTypes DEF Bytes
  <2> QED
    BY <2>1, <2>2, EmptySeq
<1>4. c \in Clients(m)
  BY <1>2, <1>3, ZenonT(60) DEF Clients
<1>5. /\ c.rcv = cl.rcv /\ c.fin = cl.fin /\ c.off = cl.off /\ c.pend = cl.pend
      /\ c.kept = cl.kept /\ c.window = cl.window /\ c.segments = cl.segments
      /\ c.grow = cl.grow /\ c.edge = cl.edge /\ c.shut = cl.shut /\ c.wnd = cl.wnd
      /\ c.pace = cl.pace /\ c.hole = cl.hole /\ c.blocked = cl.blocked
      /\ c.free = sc.capacity /\ c.buf = <<>>
  BY <1>2, ZenonT(60) DEF Clients
<1> HIDE DEF c
<1>6. WindowInv(c) /\ c.wnd >= 0
  BY <1>2, <1>5, Zenon DEF ClientInv, WindowInv
<1>7. StreamInv(c, app)
  BY <1>2, <1>5, <1>30, Zenon DEF ClientInv, StreamInv, Received
<1>8. BufferInv(c)
  BY <1>2, <1>3, <1>5 DEF ClientInv, BufferInv
<1>9. PlaceInv("check", caller, c) /\ StaleInv("check", c)
  <2>1. cl.fin /\ ~cl.blocked => cl.kept = {}
    BY <1>2 DEF ClientInv, StaleInv
  <2>2. Len(c.buf) + MSS <= sc.capacity
    BY <1>3, <1>5, Sizes
  <2> QED
    BY <1>5, <2>1, <2>2 DEF PlaceInv, StaleInv
<1>10. ClientInv(c, app, "check", caller, m)
  BY <1>4, <1>6, <1>7, <1>8, <1>9, Zenon DEF ClientInv
<1>11. Settled(c, conn)
  BY <1>2, <1>5, Zenon DEF Settled
<1>12. PromiseInv(c, card, conn) /\ HandInv("check", c, card, conn)
  BY <1>2, <1>4, <1>11, QuietInv
<1>13. "check" \in Places \ {"open"}
  BY DEF Places
<1> QED
  BY <1>1, <1>2, <1>10, <1>12, <1>13, NextInv, Zenon
----------------------------------------------------------------------------
(***************************************************************************)
(* The handshake and the request.                                          *)
(***************************************************************************)
LEMMA ThreeSegments ==
    ASSUME NEW s \in 1..3
    PROVE  /\ s * MSS \in Nat /\ MSS <= s * MSS /\ s * MSS <= 3 * MSS
           /\ 3 * MSS <= s * MSS => s = 3
<1>1. s = 1 \/ s = 2 \/ s = 3
  OBVIOUS
<1>2. 1 * MSS = MSS /\ 2 * MSS \in Nat /\ 3 * MSS \in Nat /\ MSS \in Nat /\ MSS > 0
      /\ 2 * MSS = MSS + MSS /\ 3 * MSS = MSS + MSS + MSS
  BY Sizes
<1> QED
  BY <1>1, <1>2

LEMMA StartFacts ==
    ASSUME sc \in Scenarios
    PROVE  /\ Smaller(sc.target, InitialSegments) \in 1..3
           /\ Smaller(sc.target, InitialSegments) <= sc.target
           /\ Smaller(sc.target, InitialSegments) \in {sc.target, 3}
BY ScenarioFacts DEF Smaller, InitialSegments

\* What the SYN, and the ACK that ends the handshake, advertise: one segment.
LEMMA FirstWindow ==
    ASSUME sc \in Scenarios, NEW m, NEW c \in Clients(m), WindowInv(c), BufferInv(c),
           c.rcv = 0, c.kept = {}, c.edge = -MSS, c.segments \in 1..3, c.grow > 1,
           NEW d, d = Advertised(c)
    PROVE  /\ d.edge = MSS /\ d.wnd = MSS /\ d.segments = c.segments
           /\ d.grow = c.grow - 1
<1>1. sc.target \in Nat \ {0}
  BY ScenarioFacts
<1>11. Upfront(c)
  BY Sizes DEF Upfront
<1>2. /\ d \in Clients(m) /\ WindowInv(d) /\ d.rcv = c.rcv
      /\ d.edge <= c.edge + 2 * MSS /\ d.wnd = d.edge - d.rcv
      /\ d.edge - c.rcv \in {c.edge - c.rcv + 2 * MSS, d.window}
      /\ d.grow = c.grow - 1 /\ d.segments = c.segments
  BY <1>1, <1>11, AdvertisedStep DEF SameStream
<1>3. d.window = d.segments * MSS /\ MSS <= d.segments * MSS
  BY <1>2, ThreeSegments DEF WindowInv
<1>4. d.edge \in Int /\ d.window \in Int
  BY <1>2, ClientTypes
<1> HIDE DEF WindowInv
<1>5. d.edge = MSS
  <2>1. d.edge <= MSS /\ MSS <= d.window
    BY <1>2, <1>3, <1>4, Sizes
  <2>2. d.edge = MSS \/ d.edge = d.window
    BY <1>2, <1>4, Sizes
  <2> QED
    BY <1>4, <2>1, <2>2, Sizes
<1> QED
  BY <1>2, <1>5, Sizes

LEMMA OpenStepInv ==
    ASSUME NEW m \in Marks, Inv(m), Open
    PROVE  Inv(m)'
<1> DEFINE syn == Advertised(cl)
           c == [syn EXCEPT !.edge = -MSS]
           u == Send([cl |-> c, card |-> card], 0, <<>>)
           n == NewConn(syn.wnd)
           start == Smaller(sc.target, InitialSegments)
<1>1. /\ pc = "open" /\ conn' = n /\ cl' = u.cl /\ card' = u.card
      /\ pc' = "request" /\ sc' = sc /\ caller' = caller /\ app' = app
  BY DEF Open, At, Become
<1>2. /\ m.next = conn.next /\ sc \in Scenarios /\ app \in Bytes /\ card \in Cards(m)
      /\ caller \in Callers /\ cl \in Clients(m) /\ ClientInv(cl, app, pc, caller, m)
      /\ cl = Client(start) /\ card = NewCard /\ conn = NewConn(0)
  BY <1>1, OpenInv
<1>3. /\ sc.target \in Nat \ {0} /\ start \in 1..3 /\ start <= sc.target
      /\ start \in {sc.target, 3}
  BY <1>2, ScenarioFacts, StartFacts
<1> HIDE DEF start
<1>4. /\ cl.rcv = 0 /\ ~cl.fin /\ cl.kept = {} /\ cl.edge = -MSS /\ cl.segments = start
      /\ cl.grow = start + 3 /\ ~cl.due /\ cl.pace = 0 /\ ~cl.blocked
  BY <1>2 DEF Client, SetupSegments
<1>5. WindowInv(cl) /\ BufferInv(cl) /\ StreamInv(cl, app) /\ PlaceInv("open", caller, cl)
      /\ StaleInv("open", cl)
  BY <1>1, <1>2 DEF ClientInv
<1>6. /\ syn.edge = MSS /\ syn.wnd = MSS /\ syn.segments = start /\ syn.grow = start + 2
      /\ syn \in Clients(m) /\ WindowInv(syn) /\ BufferInv(syn)
      /\ SameStream(cl, syn) /\ SameTimers(cl, syn) /\ syn.due = cl.due
  <2>1. Upfront(cl)
    BY <1>4, Sizes DEF Upfront
  <2> QED
    BY <1>2, <1>3, <1>4, <1>5, <2>1, FirstWindow, AdvertisedStep
<1> HIDE DEF syn
<1>7. /\ c \in Clients(m) /\ SameStream(syn, c) /\ SameTimers(syn, c) /\ c.due = syn.due
      /\ c.segments = syn.segments /\ c.grow = syn.grow /\ c.window = syn.window
      /\ c.shut = syn.shut /\ c.edge = -MSS
  <2>1. -MSS \in Int
    BY Sizes
  <2>2. c \in Clients(m)
    BY <1>6, <2>1, ZenonT(60) DEF Clients
  <2> QED
    BY <1>6, <2>2, ZenonT(60) DEF Clients, SameStream, SameTimers
<1> HIDE DEF c
<1>8. WindowInv(c) /\ BufferInv(c)
  <2>1. c.edge - c.rcv <= c.window
    BY <1>3, <1>4, <1>6, <1>7, WindowFacts, Sizes DEF SameStream
  <2> QED
    BY <1>6, <1>7, <2>1, Zenon DEF WindowInv, BufferInv, SameStream, SameTimers
<1>9. /\ SameStream(cl, c) /\ SameTimers(cl, c) /\ c.due = cl.due /\ c.segments = start
      /\ c.grow = start + 2
  BY <1>6, <1>7 DEF SameStream, SameTimers
<1>91. Upfront(c)
  <2>1. c.rcv = 0 /\ c.kept = {} /\ c.edge = -MSS
    BY <1>4, <1>7, <1>9 DEF SameStream
  <2> QED
    BY <2>1, Sizes DEF Upfront
<1>10. /\ u.cl = Advertised(c) /\ u.card \in Cards(m)
       /\ Len(u.card.tx) = 1 /\ u.card.tx # <<>>
       /\ u.card.tx[1].data = <<>>
       /\ u.card.tx[1].ack = u.cl.rcv /\ u.card.tx[1].window = u.cl.wnd
  <2>1. 0 \in Nat /\ <<>> \in {<<>>, Request}
    OBVIOUS
  <2> QED
    BY <1>2, <1>3, <1>7, <1>8, <1>91, <2>1, SendStep
<1> HIDE DEF u
<1>11. /\ u.cl.edge = MSS /\ u.cl.wnd = MSS /\ u.cl.segments = start
       /\ u.cl.grow = start + 1
       /\ u.cl \in Clients(m) /\ WindowInv(u.cl) /\ BufferInv(u.cl)
       /\ SameStream(c, u.cl) /\ SameTimers(c, u.cl) /\ u.cl.due = c.due
  <2>1. c.rcv = 0 /\ c.kept = {} /\ c.grow > 1
    BY <1>3, <1>4, <1>9 DEF SameStream
  <2> QED
    BY <1>2, <1>3, <1>7, <1>8, <1>9, <1>91, <1>10, <2>1, FirstWindow, AdvertisedStep
<1>12. SameStream(cl, u.cl) /\ SameTimers(cl, u.cl) /\ u.cl.due = cl.due
  BY <1>9, <1>11 DEF SameStream, SameTimers
<1>13. ClientInv(u.cl, app, "request", caller, m)
  <2>1. StreamInv(u.cl, app) /\ PlaceInv("open", caller, u.cl) /\ StaleInv("open", u.cl)
    BY <1>5, <1>12, SameInv, Zenon DEF SameTimers
  <2>2. PlaceInv("request", caller, u.cl) /\ StaleInv("request", u.cl)
    BY <2>1 DEF PlaceInv, StaleInv
  <2>3. u.cl.wnd >= 0
    BY <1>11, Sizes
  <2> QED
    BY <1>11, <2>1, <2>2, <2>3, Zenon DEF ClientInv
<1>14. /\ n \in Conns(m) /\ n.next = 0 /\ n.acked = 0 /\ n.clientWindow = MSS
       /\ n.clientNext = 0 /\ ~n.serving /\ n.queue = <<>> /\ ~n.finSent /\ n.burst = 0
  <2>1. <<>> \in Bytes /\ None \in Int /\ {} \in SentSets(m) /\ {} \in SeqSets /\ MSS \in Int
    BY Sizes, RunOfNothing DEF None, SentSets, SeqSets
  <2> QED
    BY <1>6, <2>1 DEF NewConn, Conns
<1> HIDE DEF n
<1>15. ServerInv(n)
  BY <1>14, Sizes DEF ServerInv, QueueInv, Paid
<1>16. u.cl.rcv = 0
  BY <1>4, <1>12 DEF SameStream
<1>17. PromiseInv(u.cl, u.card, n)
  BY <1>10, <1>11, <1>14, <1>16, Sizes DEF PromiseInv, InFlight
<1>18. HandInv("request", u.cl, u.card, n)
  <2>1. Fresh(u.cl)
    BY <1>4, <1>11, <1>12 DEF Fresh, SameStream, SameTimers, start
  <2> QED
    BY <1>10, <1>11, <1>14, <2>1 DEF HandInv
<1>19. m.next = n.next
  BY <1>2, <1>14 DEF NewConn
<1>20. "request" \in Places \ {"open"}
  BY DEF Places
<1> QED
  BY <1>1, <1>2, <1>10, <1>13, <1>14, <1>15, <1>17, <1>18, <1>19, <1>20, NextInv, Zenon

LEMMA SendGetInv ==
    ASSUME NEW m \in Marks, Inv(m), SendGet
    PROVE  Inv(m)'
<1> DEFINE u == Send([cl |-> cl, card |-> card], 0, Request)
<1>1. /\ At("request") /\ cl' = u.cl /\ card' = u.card /\ pc' = "send"
      /\ UNCHANGED <<sc, caller, conn, app>>
  BY DEF SendGet, Become, SendRequest
<1>2. /\ m.next = conn.next /\ sc \in Scenarios /\ app \in Bytes /\ card \in Cards(m)
      /\ conn \in Conns(m) /\ ServerInv(conn) /\ ClientInv(cl, app, pc, caller, m)
      /\ cl \in Clients(m) /\ pc = "request" /\ card.tx = <<>> /\ Settled(cl, conn)
      /\ caller \in Callers /\ ~conn.serving
  BY <1>1, OpenInv, AtFacts
<1>3. /\ Fresh(cl) /\ cl.edge = MSS /\ cl.grow = cl.segments + 1 /\ conn.clientNext = 0
  BY <1>1, <1>2, AtFacts, Zenon DEF HandInv
<1>4. /\ sc.target \in Nat \ {0} /\ cl.segments \in 1..3 /\ cl.segments \in {sc.target, 3}
      /\ cl.kept = {} /\ cl.rcv = 0 /\ ~cl.fin /\ cl.grow > 1
  BY <1>2, <1>3, ScenarioFacts, StartFacts DEF Fresh
<1>5. WindowInv(cl) /\ BufferInv(cl)
  BY <1>2 DEF ClientInv
<1>6. ClientInv(cl, app, "send", caller, m)
  <2>1. PlaceInv("send", caller, cl) /\ StaleInv("send", cl)
    BY <1>2, <1>4 DEF ClientInv, PlaceInv, StaleInv
  <2> QED
    BY <1>2, <2>1, Zenon DEF ClientInv
<1> DEFINE d == Advertised(cl)
<1>7. /\ d.segments = cl.segments /\ d.grow = cl.segments /\ d.edge <= 3 * MSS
      /\ d.edge = d.window /\ SameStream(cl, d) /\ SameTimers(cl, d) /\ d.due = cl.due
  <2>1. /\ d \in Clients(m) /\ WindowInv(d) /\ d.rcv = cl.rcv
        /\ d.edge <= cl.edge + 2 * MSS
        /\ d.edge - cl.rcv \in {cl.edge - cl.rcv + 2 * MSS, d.window}
        /\ d.grow = cl.grow - 1 /\ d.segments = cl.segments
        /\ SameStream(cl, d) /\ SameTimers(cl, d) /\ d.due = cl.due
    <3>1. Upfront(cl)
      BY <1>3, <1>4, <1>5, Sizes, ThreeSegments DEF Upfront, WindowInv
    <3> QED
      BY <1>2, <1>4, <1>5, <3>1, AdvertisedStep DEF SameStream
  <2> HIDE DEF d
  <2>2. d.window = d.segments * MSS /\ d.edge - d.rcv <= d.window
    BY <2>1 DEF WindowInv
  <2>3. d.window <= 3 * MSS /\ d.edge \in Int /\ d.window \in Int
    BY <1>4, <2>1, <2>2, ThreeSegments, ClientTypes
  <2>4. cl.edge + 2 * MSS = 3 * MSS
    BY <1>3, Sizes
  <2>5. d.edge = 3 * MSS \/ d.edge = d.window
    BY <1>3, <1>4, <2>1, <2>3, Sizes
  <2>6. d.edge = d.window
    BY <1>4, <2>1, <2>2, <2>3, <2>5, Sizes
  <2> QED
    BY <1>3, <1>4, <2>1, <2>3, <2>4, <2>6, Sizes
<1> HIDE DEF d
<1>8. /\ ClientInv(u.cl, app, "send", caller, m)
      /\ u.card \in Cards(m) /\ PromiseInv(u.cl, u.card, conn)
      /\ u.cl = d /\ u.card.tx # <<>> /\ u.card.tx[1].data = Request
  <2>1. /\ 0 \in Nat /\ Request \in {<<>>, Request} /\ 0 = 0
        /\ conn.clientNext = 0 => Advertised(cl).edge <= 3 * MSS
        /\ conn.clientNext = 1 => Advertised(cl).edge = cl.edge
    BY <1>3, <1>7 DEF d
  <2>2. cl.fin => cl.kept = {}
    BY <1>4
  <2>3. u = Send([cl |-> cl, card |-> card], 0, Request)
    OBVIOUS
  <2> HIDE DEF u
  <2> QED
    BY <1>2, <1>6, <2>1, <2>2, <2>3, PromiseKept DEF d
<1> HIDE DEF u
<1>9. HandInv("send", u.cl, u.card, conn)
  <2>1. Fresh(d)
    BY <1>3, <1>7, Zenon DEF Fresh, SameStream, SameTimers
  <2>2. d.segments = sc.target \/ d.grow >= 3
    BY <1>4, <1>7
  <2>3. Request # <<>>
    BY DEF Request
  <2> QED
    BY <1>7, <1>8, <2>1, <2>2, <2>3 DEF HandInv
<1>10. "send" \in Places \ {"open"}
  BY DEF Places
<1> QED
  BY <1>1, <1>2, <1>8, <1>9, <1>10, NextInv, Zenon

\* The repeated request finds the window as it was: the growth countdown has two more
\* segments to go, or the target is reached.
LEMMA SendTimeoutInv ==
    ASSUME NEW m \in Marks, Inv(m), SendTimeout
    PROVE  Inv(m)'
<1> DEFINE u == Send([cl |-> cl, card |-> card], 0, Request)
<1>1. /\ At("send") /\ card.rx = <<>> /\ cl' = u.cl /\ card' = u.card
      /\ UNCHANGED <<sc, pc, caller, conn, app>>
  BY DEF SendTimeout, Become, SendRequest, Quiet
<1>2. /\ m.next = conn.next /\ sc \in Scenarios /\ app \in Bytes /\ card \in Cards(m)
      /\ conn \in Conns(m) /\ ServerInv(conn) /\ ClientInv(cl, app, pc, caller, m)
      /\ cl \in Clients(m) /\ pc = "send" /\ card.tx = <<>> /\ Settled(cl, conn)
      /\ caller \in Callers /\ ~conn.serving
  BY <1>1, OpenInv, AtFacts
<1>3. /\ Fresh(cl) /\ cl.edge = cl.window /\ conn.clientNext = 1
      /\ cl.segments = sc.target \/ cl.grow >= 3
  <2>1. ~Good(card.rx)
    BY <1>1 DEF Good
  <2> QED
    BY <1>1, <1>2, <2>1, AtFacts, Zenon DEF HandInv
<1>4. sc.target \in Nat \ {0} /\ cl.kept = {} /\ cl.rcv = 0 /\ ~cl.fin
  BY <1>2, <1>3, ScenarioFacts DEF Fresh
<1>5. WindowInv(cl) /\ BufferInv(cl) /\ cl.grow \in Nat
  BY <1>2, <1>4, WindowFacts DEF ClientInv
<1> DEFINE d == Advertised(cl)
<1>7. /\ d.segments = cl.segments /\ (d.segments = sc.target \/ d.grow >= 2)
      /\ d.edge = d.window /\ d.edge = cl.edge /\ SameStream(cl, d) /\ SameTimers(cl, d)
      /\ d.due = cl.due /\ d \in Clients(m) /\ WindowInv(d)
  <2>1. /\ d \in Clients(m) /\ WindowInv(d) /\ d.rcv = cl.rcv
        /\ cl.edge <= d.edge
        /\ cl.grow > 1 => d.grow = cl.grow - 1 /\ d.segments = cl.segments
        /\ cl.segments = sc.target => d.segments = cl.segments
        /\ SameStream(cl, d) /\ SameTimers(cl, d) /\ d.due = cl.due
    <3>1. Upfront(cl)
      BY <1>3, <1>4, <1>5, Sizes, ThreeSegments DEF Upfront, WindowInv
    <3> QED
      BY <1>2, <1>4, <1>5, <3>1, AdvertisedStep DEF SameStream
  <2> HIDE DEF d
  <2>2. d.segments = cl.segments /\ (d.segments = sc.target \/ d.grow >= 2)
    BY <1>3, <1>5, <2>1
  <2>3. d.window = cl.window /\ d.edge - d.rcv <= d.window
    BY <1>5, <2>1, <2>2 DEF WindowInv
  <2>4. d.edge \in Int /\ d.window \in Int /\ cl.edge \in Int
    BY <1>2, <2>1, ClientTypes
  <2>5. d.edge = d.window /\ d.edge = cl.edge
    BY <1>3, <1>4, <2>1, <2>3, <2>4
  <2> QED
    BY <2>1, <2>2, <2>5
<1> HIDE DEF d
<1>8. /\ ClientInv(u.cl, app, "send", caller, m)
      /\ u.card \in Cards(m) /\ PromiseInv(u.cl, u.card, conn)
      /\ u.cl = d /\ u.card.tx # <<>> /\ u.card.tx[1].data = Request
  <2>1. /\ 0 \in Nat /\ Request \in {<<>>, Request} /\ 0 = 0
        /\ conn.clientNext = 0 => Advertised(cl).edge <= 3 * MSS
        /\ conn.clientNext = 1 => Advertised(cl).edge = cl.edge
    BY <1>3, <1>7 DEF d
  <2>2. cl.fin => cl.kept = {}
    BY <1>4
  <2>3. u = Send([cl |-> cl, card |-> card], 0, Request)
    OBVIOUS
  <2> HIDE DEF u
  <2> QED
    BY <1>2, <2>1, <2>2, <2>3, PromiseKept DEF d
<1> HIDE DEF u
<1>9. HandInv("send", u.cl, u.card, conn)
  <2>1. Fresh(d)
    BY <1>3, <1>7, Zenon DEF Fresh, SameStream, SameTimers
  <2>2. d.segments = sc.target \/ d.grow >= 3 \/ d.grow = 2
    <3>1. d.grow \in Int
      BY <1>7, ClientTypes
    <3> QED
      BY <1>7, <3>1
  <2>3. Request # <<>>
    BY DEF Request
  <2> QED
    BY <1>3, <1>7, <1>8, <2>1, <2>2, <2>3 DEF HandInv
<1>10. "send" \in Places \ {"open"}
  BY DEF Places
<1> QED
  BY <1>1, <1>2, <1>8, <1>9, <1>10, NextInv, Zenon
----------------------------------------------------------------------------
(***************************************************************************)
(* The out-of-order queue.                                                 *)
(***************************************************************************)
LEMMA RoundUpFacts ==
    ASSUME NEW x \in Int, NEW s \in Nat \ {0}, x <= s * MSS
    PROVE  /\ RoundUp(x) \in Nat /\ 1 <= RoundUp(x) /\ RoundUp(x) <= s
           /\ x <= RoundUp(x) * MSS
<1>1. CASE x <= MSS
  <2>1. RoundUp(x) = 1 /\ 1 * MSS = MSS
    BY <1>1, Sizes DEF RoundUp
  <2> QED
    BY <1>1, <2>1
<1>2. CASE ~(x <= MSS)
  <2> DEFINE q == (x + MSS - 1) \div MSS
  <2>1. RoundUp(x) = q
    BY <1>2 DEF RoundUp
  <2>2. /\ q \in Int /\ q * MSS <= x + MSS - 1 /\ x + MSS - 1 < q * MSS + MSS
        /\ q * MSS \in Int
    BY Sizes
  <2> HIDE DEF q
  <2>3. x <= q * MSS
    BY <2>2, Sizes
  <2>4. q >= 1
    <3>1. SUFFICES ASSUME q <= 0 PROVE FALSE
      BY <2>2
    <3>2. q * MSS <= 0
      BY <2>2, <3>1, Sizes
    <3> QED
      BY <1>2, <2>2, <2>3, <3>2, Sizes
  <2>5. q <= s
    <3>1. SUFFICES ASSUME q >= s + 1 PROVE FALSE
      BY <2>2
    <3>2. q * MSS >= (s + 1) * MSS
      BY <2>2, <3>1, Sizes
    <3>3. (s + 1) * MSS = s * MSS + MSS /\ s * MSS \in Int
      BY Sizes
    <3> QED
      BY <2>2, <3>2, <3>3, Sizes
  <2> QED
    BY <2>1, <2>2, <2>3, <2>4, <2>5
<1> QED
  BY <1>1, <1>2

\* A piece at RCV.NXT continues the stream in the caller's buffer.
LEMMA Continues ==
    ASSUME NEW m \in Marks, NEW c \in Clients(m), NEW a \in Bytes, StreamInv(c, a),
           c.pend = <<>>, NEW data \in Bytes, data # <<>>, NEW fin,
           Whole(c.rcv, data, fin, m),
           NEW d, d.buf = c.buf \o data, d.rcv = c.rcv + Len(data), d.fin = c.fin,
           d.pend = c.pend
    PROVE  /\ ~c.fin /\ d.buf \in Bytes /\ d.rcv \in Nat /\ c.rcv <= d.rcv
           /\ d.rcv <= m.next /\ Len(d.buf) = Len(c.buf) + Len(data)
           /\ StreamInv(d, a)
<1>1. /\ c.rcv \in Nat /\ c.fin \in BOOLEAN /\ c.buf \in Bytes /\ Len(c.buf) \in Nat
      /\ Len(data) \in Nat /\ Len(data) # 0 /\ Len(a) \in Nat
  BY ClientTypes, EmptySeq DEF Bytes
<1>2. /\ Run(data, c.rcv) /\ c.rcv + Len(data) <= BodyLen /\ c.rcv + Len(data) <= m.next
  BY DEF Whole
<1>3. ~c.fin /\ Len(c.pend) = 0
  BY <1>1, <1>2, Sizes, RunOfNothing DEF StreamInv
<1>4. Len(a) + Len(c.buf) = c.rcv /\ Run(a, 0) /\ Run(c.buf, Len(a))
  BY <1>1, <1>3 DEF StreamInv, Received
<1>5. /\ c.buf \o data \in Bytes /\ Len(c.buf \o data) = Len(c.buf) + Len(data)
      /\ Run(c.buf \o data, Len(a))
  <2>1. Len(a) \in Int
    BY <1>1
  <2> QED
    BY <1>1, <1>2, <1>4, <2>1, RunConcat
<1>6. Run(d.pend, Len(a) + Len(d.buf))
  BY <1>1, <1>5, RunOfNothing
<1>7. /\ d.buf \in Bytes /\ Len(d.buf) = Len(c.buf) + Len(data) /\ Run(d.buf, Len(a))
      /\ Len(d.pend) = 0 /\ ~d.fin /\ d.rcv = c.rcv + Len(data)
  BY <1>3, <1>5
<1>8. StreamInv(d, a)
  <2>1. Received(d) = d.rcv /\ Len(a) + Len(d.buf) + Len(d.pend) = d.rcv /\ d.rcv <= BodyLen
    BY <1>1, <1>2, <1>4, <1>7 DEF Received
  <2> QED
    BY <1>4, <1>6, <1>7, <2>1 DEF StreamInv
<1> QED
  BY <1>1, <1>2, <1>3, <1>7, <1>8

LEMMA DrainTakeInv ==
    ASSUME NEW m \in Marks, Inv(m), DrainTake
    PROVE  Inv(m)'
<1>1. /\ At("drain") /\ cl.pend = <<>> /\ UNCHANGED <<sc, pc, caller, card, conn, app>>
      /\ \E e \in NextKept : Len(e.data) <= Room(cl) /\ cl' = Taken(cl, e)
  BY DEF DrainTake
<1>2. PICK e \in NextKept : Len(e.data) <= Room(cl) /\ cl' = Taken(cl, e)
  BY <1>1
<1>3. /\ m.next = conn.next /\ sc \in Scenarios /\ app \in Bytes /\ card \in Cards(m)
      /\ conn \in Conns(m) /\ ServerInv(conn) /\ ClientInv(cl, app, pc, caller, m)
      /\ cl \in Clients(m) /\ pc = "drain" /\ card.tx = <<>> /\ Settled(cl, conn)
      /\ caller \in Callers
  BY <1>1, OpenInv, AtFacts
<1>4. /\ e \in cl.kept /\ e.seq = cl.rcv /\ e.data \in Bytes /\ e.data # <<>>
      /\ Whole(cl.rcv, e.data, FALSE, m)
  <2>1. e \in cl.kept /\ e.seq = cl.rcv
    BY <1>2 DEF NextKept
  <2>2. cl.kept \in KeptSets(m)
    BY <1>3, ClientTypes
  <2>3. e \in KeptPieces(m)
    BY <2>1, <2>2 DEF KeptSets
  <2>4. e.data \in Bytes /\ e.data # <<>> /\ Whole(e.seq, e.data, FALSE, m)
    BY <2>3, Zenon DEF KeptPieces
  <2> QED
    BY <2>1, <2>4
<1>5. /\ WindowInv(cl) /\ BufferInv(cl) /\ StreamInv(cl, app) /\ cl.wnd >= 0
      /\ PlaceInv("drain", caller, cl)
  BY <1>3 DEF ClientInv
<1>6. sc.target \in Nat \ {0} /\ Len(cl.buf) \in Nat /\ cl.free \in Nat /\ cl.rcv \in Nat
      /\ cl.edge \in Int /\ Len(e.data) \in Nat /\ cl.buf \in Bytes
      /\ cl.segments \in Nat \ {0} /\ cl.segments <= sc.target
      /\ cl.edge - cl.rcv <= cl.segments * MSS /\ cl.segments * MSS \in Int
  <2>1. sc.target \in Nat \ {0}
    BY <1>3, ScenarioFacts
  <2>2. cl.segments \in Nat /\ 1 <= cl.segments /\ cl.segments <= sc.target
        /\ cl.window \in Nat /\ cl.edge - cl.rcv <= cl.window
    BY <1>3, <1>5, <2>1, WindowFacts
  <2>3. cl.window = cl.segments * MSS
    BY <1>5 DEF WindowInv
  <2>4. Len(e.data) \in Nat
    BY <1>4 DEF Bytes
  <2> QED
    BY <1>3, <2>1, <2>2, <2>3, <2>4, ClientTypes
<1> DEFINE rcv == cl.rcv + Len(e.data)
           n   == RoundUp(Promised(cl, rcv))
           w   == n * MSS
           buf == cl.buf \o e.data
           kept == cl.kept \ {e}
           c   == [cl EXCEPT !.buf = buf, !.rcv = rcv, !.kept = kept,
                       !.window = w, !.segments = n, !.grow = n + 1,
                       !.pace = PacePolls, !.due = TRUE]
<1>7. cl' = c
  BY <1>2 DEF Taken
<1>8. /\ rcv \in Nat /\ n \in Nat /\ 1 <= n /\ n <= cl.segments /\ cl.edge - rcv <= w
      /\ w \in Int /\ n + 1 \in Int
  <2>1. rcv \in Nat /\ cl.edge - rcv \in Int /\ cl.edge - rcv <= cl.segments * MSS
    <3>1. cl.rcv \in Nat /\ cl.edge \in Int /\ Len(e.data) \in Nat
      BY <1>6
    <3>2. \A x, r, l, z \in Int : x - r <= z /\ l >= 0 => x - (r + l) <= z
      OBVIOUS
    <3> QED
      <4>1. cl.edge - cl.rcv <= cl.segments * MSS /\ cl.segments * MSS \in Int
        BY <1>6
      <4>2. rcv \in Nat /\ cl.edge - rcv \in Int
        BY <3>1
      <4>3. cl.edge - rcv <= cl.segments * MSS
        BY <3>1, <3>2, <4>1
      <4> QED
        BY <4>2, <4>3
  <2>11. 0 <= cl.edge - rcv
    <3> DEFINE d == [cl EXCEPT !.buf = cl.buf \o e.data, !.rcv = rcv]
    <3>1. cl.buf \o e.data \in Bytes
      BY <1>4, <1>6, ConcatProperties DEF Bytes
    <3> HIDE DEF rcv
    <3>2. d \in Clients(m)
      BY <1>3, <2>1, <3>1, ZenonT(60) DEF Clients
    <3>3. /\ d.buf = cl.buf \o e.data /\ d.rcv = rcv /\ d.fin = cl.fin
          /\ d.pend = cl.pend /\ d.edge = cl.edge
      BY <1>3, ZenonT(60) DEF Clients
    <3> HIDE DEF d
    <3>4. ~cl.fin /\ cl.rcv <= d.rcv /\ d.rcv <= m.next /\ StreamInv(d, app)
      <4>1. d.rcv = cl.rcv + Len(e.data)
        BY <3>3 DEF rcv
      <4> QED
        BY <1>1, <1>3, <1>4, <1>5, <3>3, <4>1, Continues, ZenonT(60)
    <3>5. Settled(d, conn)
      <4>1. conn.acked \in Nat
        BY <1>3, ConnTypes
      <4> QED
        BY <1>3, <1>6, <2>1, <3>3, <3>4, <4>1 DEF Settled
    <3>6. Received(d) <= d.edge
      BY <1>3, <3>2, <3>4, <3>5, ReceivedIsPaid
    <3> QED
      BY <1>6, <2>1, <3>3, <3>4, <3>6 DEF Received
  <2> HIDE DEF rcv
  <2>12. Promised(cl, rcv) = cl.edge - rcv
    <3>1. 2 * (cl.segments * MSS) < Word
      <4>1. 2 * cl.window < Word /\ cl.window = cl.segments * MSS
        BY <1>3, <1>5, <1>6, WindowFacts DEF WindowInv
      <4> QED
        BY <4>1
    <3>2. Low(cl.edge - rcv) = cl.edge - rcv
      BY <1>6, <2>1, <2>11, <3>1, LowExact, Sizes
    <3> QED
      BY <1>6, <2>1, <2>11, <3>1, <3>2, Sizes DEF Promised
  <2>2. /\ n \in Nat /\ 1 <= n /\ n <= cl.segments /\ cl.edge - rcv <= w
    BY <1>6, <2>1, <2>12, RoundUpFacts
  <2> HIDE DEF n
  <2>3. w \in Int /\ n + 1 \in Int
    BY <2>2, Sizes
  <2> QED
    BY <2>1, <2>2, <2>3
<1> HIDE DEF rcv, n, w
<1>9. buf \in Bytes /\ kept \in KeptSets(m) /\ PacePolls \in Int
  <2>1. buf \in Bytes
    BY <1>4, <1>6, ConcatProperties DEF Bytes
  <2>2. kept \in KeptSets(m)
    BY <1>3, ClientTypes DEF KeptSets
  <2> QED
    BY <2>1, <2>2 DEF PacePolls
<1> HIDE DEF buf, kept
<1>10. c \in Clients(m)
  <2>1. n \in Int /\ TRUE \in BOOLEAN
    BY <1>8
  <2> QED
    BY <1>3, <1>8, <1>9, <2>1, ZenonT(60) DEF Clients
<1>11. /\ c.rcv = rcv /\ c.fin = cl.fin /\ c.off = cl.off /\ c.pend = cl.pend
       /\ c.kept = kept /\ c.window = w /\ c.segments = n /\ c.grow = n + 1
       /\ c.edge = cl.edge /\ c.shut = cl.shut /\ c.wnd = cl.wnd /\ c.pace = PacePolls
       /\ c.hole = cl.hole /\ c.blocked = cl.blocked /\ c.free = cl.free /\ c.buf = buf
  BY <1>3, ZenonT(60) DEF Clients
<1> HIDE DEF c
<1>12. /\ ~cl.fin /\ c.rcv \in Nat /\ cl.rcv <= c.rcv /\ c.rcv <= m.next
       /\ Len(c.buf) = Len(cl.buf) + Len(e.data) /\ StreamInv(c, app)
  <2>1. /\ c.buf = cl.buf \o e.data /\ c.rcv = cl.rcv + Len(e.data) /\ c.fin = cl.fin
        /\ c.pend = cl.pend
    BY <1>11 DEF rcv, buf
  <2> QED
    BY <1>1, <1>3, <1>4, <1>5, <2>1, Continues, ZenonT(60)
<1>13. WindowInv(c)
  <2>1. /\ c.segments \in 1..sc.target /\ c.grow \in 1..sc.target + SetupSegments
        /\ c.edge - c.rcv <= c.window /\ c.pace \in 0..PacePolls
    BY <1>6, <1>8, <1>11, SMTT(60) DEF SetupSegments, PacePolls
  <2> QED
    BY <1>5, <1>11, <2>1, Zenon DEF WindowInv, w
<1>14. BufferInv(c)
  <2>1. IsFiniteSet(kept) /\ Cardinality(kept) <= Slots
    <3>1. IsFiniteSet(cl.kept) /\ Cardinality(cl.kept) <= Slots /\ kept \subseteq cl.kept
      BY <1>5 DEF BufferInv, kept
    <3>2. IsFiniteSet(kept) /\ Cardinality(kept) <= Cardinality(cl.kept)
          /\ Cardinality(cl.kept) \in Nat /\ Cardinality(kept) \in Nat
      BY <3>1, FS_Subset, FS_CardinalityType
    <3> QED
      BY <3>1, <3>2 DEF Slots
  <2>2. Len(c.buf) <= c.free
    <3>1. Len(e.data) <= cl.free - Len(cl.buf)
      BY <1>2 DEF Room
    <3>2. c.free = cl.free /\ Len(c.buf) = Len(cl.buf) + Len(e.data)
      BY <1>11, <1>12
    <3>3. cl.free \in Nat /\ Len(cl.buf) \in Nat /\ Len(e.data) \in Nat
      BY <1>6
    <3>4. \A x, y, z \in Nat : y <= x - z => z + y <= x
      OBVIOUS
    <3>5. Len(cl.buf) + Len(e.data) <= cl.free
      BY <3>1, <3>3, <3>4, Zenon
    <3> QED
      BY <3>2, <3>5, Zenon
  <2> QED
    BY <1>5, <1>11, <2>1, <2>2 DEF BufferInv
<1>15. PlaceInv("drain", caller, c) /\ StaleInv("drain", c)
  BY <1>5, <1>11 DEF PlaceInv, StaleInv
<1>16. ClientInv(c, app, "drain", caller, m)
  BY <1>5, <1>10, <1>11, <1>12, <1>13, <1>14, <1>15, Zenon DEF ClientInv
<1>17. Settled(c, conn)
  <2>1. conn.acked \in Nat
    BY <1>3, ConnTypes
  <2> QED
    BY <1>3, <1>6, <1>11, <1>12, <2>1 DEF Settled
<1>18. PromiseInv(c, card, conn) /\ HandInv("drain", c, card, conn)
  BY <1>3, <1>10, <1>17, QuietInv
<1>19. "drain" \in Places \ {"open"}
  BY DEF Places
<1> QED
  BY <1>1, <1>3, <1>7, <1>16, <1>18, <1>19, NextInv, Zenon

\* OOO_DRAIN goes over to the wait or to the ACK that covers what it took.
LEMMA DrainedInv ==
    ASSUME NEW m \in Marks, Inv(m), At("drain"), NEW c, ClientInv(c, app, "drain", caller, m),
           Settled(c, conn), ~c.blocked => \A e \in c.kept : e.seq > c.rcv, Drained(c)
    PROVE  Inv(m)'
<1>1. /\ m.next = conn.next /\ sc \in Scenarios /\ app \in Bytes /\ card \in Cards(m)
      /\ conn \in Conns(m) /\ ServerInv(conn) /\ pc = "drain" /\ card.tx = <<>>
      /\ caller \in Callers /\ ~conn.serving
  BY OpenInv, AtFacts
<1>2. c \in Clients(m) /\ WindowInv(c) /\ BufferInv(c) /\ StreamInv(c, app)
      /\ PlaceInv("drain", caller, c) /\ c.wnd >= 0
  BY DEF ClientInv
<1>3. c.pend = <<>> /\ (caller = "send" => c.free = 0)
      /\ (caller # "send" => c.free = sc.capacity)
  BY <1>2 DEF PlaceInv
<1>4. ~c.blocked /\ c.fin => c.kept = {}
  <2>1. SUFFICES ASSUME ~c.blocked, c.fin, NEW e \in c.kept PROVE FALSE
    OBVIOUS
  <2>2. e.seq \in Nat /\ e.seq <= BodyLen
    BY <1>2, ClientTypes, Sizes DEF KeptSets, KeptPieces, Whole, Bytes
  <2>3. e.seq > c.rcv /\ c.rcv = BodyLen + 1
    BY <1>2, <2>1 DEF StreamInv
  <2> QED
    BY <2>2, <2>3, Sizes
<1>5. CASE caller = "check"
  <2> DEFINE d == [c EXCEPT !.event = FALSE]
             p == IF c.fin THEN "failed" ELSE "wait"
  <2>1. cl' = d /\ pc' = p /\ UNCHANGED <<sc, caller, card, conn, app>>
    BY <1>5 DEF Drained
  <2>2. d \in Clients(m)
    BY <1>2, ZenonT(60) DEF Clients
  <2>3. /\ SameStream(c, d) /\ d.blocked = c.blocked /\ d.window = c.window
        /\ d.segments = c.segments /\ d.grow = c.grow /\ d.edge = c.edge
        /\ d.shut = c.shut /\ d.wnd = c.wnd /\ d.pace = c.pace /\ d.hole = c.hole
    BY <1>2, ZenonT(60) DEF Clients, SameStream
  <2> HIDE DEF d
  <2>4. WindowInv(d) /\ BufferInv(d) /\ StreamInv(d, app) /\ d.wnd >= 0
    BY <1>2, <2>3, Zenon DEF WindowInv, BufferInv, StreamInv, Received, SameStream
  <2>5. PlaceInv(p, caller, d) /\ StaleInv(p, d)
    BY <1>3, <1>4, <1>5, <2>3 DEF SameStream, PlaceInv, StaleInv
  <2>6. ClientInv(d, app, p, caller, m)
    BY <2>2, <2>4, <2>5, Zenon DEF ClientInv
  <2>7. Settled(d, conn)
    BY <2>3, Zenon DEF Settled, SameStream
  <2>8. p \notin {"request", "send"} /\ p \in Places \ {"open"}
    BY DEF Places
  <2> HIDE DEF p
  <2>9. PromiseInv(d, card, conn) /\ HandInv(p, d, card, conn)
    BY <1>1, <2>2, <2>7, <2>8, QuietInv
  <2> QED
    BY <1>1, <2>1, <2>6, <2>8, <2>9, NextInv, Zenon
<1>6. CASE caller # "check"
  <2> DEFINE d == [c EXCEPT !.due = TRUE]
             u == SendOwedAck([cl |-> d, card |-> card])
             p == IF Room(c) < MSS THEN Ended(caller, c) ELSE caller
  <2>1. cl' = u.cl /\ card' = u.card /\ pc' = p /\ UNCHANGED <<sc, caller, conn, app>>
    BY <1>6 DEF Drained, Become
  <2>2. d \in Clients(m)
    BY <1>2, ZenonT(60) DEF Clients
  <2>3. /\ SameStream(c, d) /\ d.blocked = c.blocked /\ d.window = c.window
        /\ d.segments = c.segments /\ d.grow = c.grow /\ d.edge = c.edge
        /\ d.shut = c.shut /\ d.wnd = c.wnd /\ d.pace = c.pace /\ d.hole = c.hole
    BY <1>2, ZenonT(60) DEF Clients, SameStream
  <2> HIDE DEF d
  <2>4. WindowInv(d) /\ BufferInv(d) /\ StreamInv(d, app) /\ d.wnd >= 0
    BY <1>2, <2>3, Zenon DEF WindowInv, BufferInv, StreamInv, Received, SameStream
  <2>50. /\ Len(c.buf) \in Nat /\ Len(c.buf) <= c.free /\ c.free \in Nat
         /\ c.buf # <<>> <=> Len(c.buf) # 0
         /\ sc.capacity \in Nat /\ sc.capacity >= MSS
    <3>1. c.buf \in Seq(Int)
      BY <1>2, ClientTypes DEF Bytes
    <3> QED
      BY <1>1, <1>2, <3>1, ClientTypes, ScenarioFacts, EmptySeq DEF BufferInv
  <2>51. /\ caller = "send" => p = "app"
         /\ caller = "wait" => p \in {"wait", "return"}
    BY <1>3, <2>50, Sizes DEF Room, Ended
  <2>52. caller \in {"send", "wait"}
    BY <1>1, <1>6 DEF Callers
  <2>8. p \in {"app", "wait", "return"} /\ p \in Places \ {"open"}
    BY <2>51, <2>52 DEF Places
  <2> HIDE DEF p
  <2>5. PlaceInv(p, caller, d) /\ StaleInv(p, d)
    BY <1>3, <1>4, <2>3, <2>51, <2>52 DEF SameStream, PlaceInv, StaleInv
  <2>6. ClientInv(d, app, p, caller, m)
    BY <2>2, <2>4, <2>5, Zenon DEF ClientInv
  <2>7. Settled(d, conn) /\ (~d.blocked /\ d.fin => d.kept = {})
    BY <1>4, <2>3, Zenon DEF Settled, SameStream
  <2>9. /\ ClientInv(u.cl, app, p, caller, m)
        /\ u.card \in Cards(m) /\ PromiseInv(u.cl, u.card, conn)
        /\ u.card.tx # <<>> => u.card.tx[1].data = <<>>
    <3>1. u = SendOwedAck([cl |-> d, card |-> card])
      OBVIOUS
    <3> HIDE DEF u
    <3> QED
      BY <1>1, <2>6, <2>7, <3>1, OwedStep
  <2> HIDE DEF u
  <2>10. HandInv(p, u.cl, u.card, conn)
    BY <2>8, <2>9 DEF HandInv
  <2> QED
    BY <1>1, <2>1, <2>8, <2>9, <2>10, NextInv, Zenon
<1> QED
  BY <1>5, <1>6

LEMMA DrainBlockedInv ==
    ASSUME NEW m \in Marks, Inv(m), DrainBlocked
    PROVE  Inv(m)'
<1> DEFINE c == [cl EXCEPT !.blocked = TRUE]
<1>1. At("drain") /\ Drained(c)
  BY DEF DrainBlocked
<1>2. /\ ClientInv(cl, app, pc, caller, m) /\ cl \in Clients(m) /\ pc = "drain"
      /\ Settled(cl, conn)
  BY <1>1, OpenInv, AtFacts
<1>3. c \in Clients(m)
  <2>1. TRUE \in BOOLEAN
    OBVIOUS
  <2> QED
    BY <1>2, <2>1, ZenonT(60) DEF Clients
<1>4. /\ SameStream(cl, c) /\ c.window = cl.window /\ c.segments = cl.segments
      /\ c.grow = cl.grow /\ c.edge = cl.edge /\ c.shut = cl.shut /\ c.wnd = cl.wnd
      /\ c.pace = cl.pace /\ c.hole = cl.hole /\ c.blocked
  BY <1>2, ZenonT(60) DEF Clients, SameStream
<1> HIDE DEF c
<1>5. WindowInv(c) /\ BufferInv(c) /\ StreamInv(c, app) /\ c.wnd >= 0
      /\ PlaceInv("drain", caller, c)
  BY <1>2, <1>4, Zenon
     DEF ClientInv, WindowInv, BufferInv, StreamInv, Received, SameStream, PlaceInv
<1>6. StaleInv("drain", c)
  BY DEF StaleInv
<1>7. ClientInv(c, app, "drain", caller, m)
  BY <1>3, <1>5, <1>6, Zenon DEF ClientInv
<1>8. Settled(c, conn)
  BY <1>2, <1>4, Zenon DEF Settled, SameStream
<1> QED
  BY <1>1, <1>4, <1>7, <1>8, DrainedInv

LEMMA DrainEndsInv ==
    ASSUME NEW m \in Marks, Inv(m), DrainEnds
    PROVE  Inv(m)'
<1> DEFINE kept == {k \in cl.kept : k.seq > cl.rcv}
           c == [cl EXCEPT !.kept = kept]
<1>1. At("drain") /\ Drained(c)
  BY DEF DrainEnds
<1>2. /\ ClientInv(cl, app, pc, caller, m) /\ cl \in Clients(m) /\ pc = "drain"
      /\ Settled(cl, conn)
  BY <1>1, OpenInv, AtFacts
<1>3. /\ kept \in KeptSets(m) /\ IsFiniteSet(kept) /\ Cardinality(kept) <= Slots
      /\ \A e \in kept : e.seq > cl.rcv
  <2>1. cl.kept \in KeptSets(m) /\ kept \subseteq cl.kept
        /\ IsFiniteSet(cl.kept) /\ Cardinality(cl.kept) <= Slots
    BY <1>2, ClientTypes DEF ClientInv, BufferInv
  <2>2. IsFiniteSet(kept) /\ Cardinality(kept) <= Cardinality(cl.kept)
        /\ Cardinality(cl.kept) \in Nat /\ Cardinality(kept) \in Nat
    BY <2>1, FS_Subset, FS_CardinalityType
  <2>3. kept \in KeptSets(m)
    BY <2>1 DEF KeptSets
  <2> QED
    BY <2>1, <2>2, <2>3 DEF Slots
<1> HIDE DEF kept
<1>4. c \in Clients(m)
  BY <1>2, <1>3, ZenonT(60) DEF Clients
<1>5. /\ c.rcv = cl.rcv /\ c.fin = cl.fin /\ c.off = cl.off /\ c.pend = cl.pend
      /\ c.kept = kept /\ c.window = cl.window /\ c.segments = cl.segments
      /\ c.grow = cl.grow /\ c.edge = cl.edge /\ c.shut = cl.shut /\ c.wnd = cl.wnd
      /\ c.pace = cl.pace /\ c.hole = cl.hole /\ c.blocked = cl.blocked
      /\ c.free = cl.free /\ c.buf = cl.buf
  BY <1>2, ZenonT(60) DEF Clients
<1> HIDE DEF c
<1>6. WindowInv(c) /\ StreamInv(c, app) /\ c.wnd >= 0 /\ PlaceInv("drain", caller, c)
  BY <1>2, <1>5, Zenon DEF ClientInv, WindowInv, StreamInv, Received, PlaceInv
<1>7. BufferInv(c)
  BY <1>2, <1>3, <1>5, Zenon DEF ClientInv, BufferInv
<1>8. StaleInv("drain", c)
  BY DEF StaleInv
<1>9. ClientInv(c, app, "drain", caller, m)
  BY <1>4, <1>6, <1>7, <1>8, Zenon DEF ClientInv
<1>10. Settled(c, conn)
  BY <1>2, <1>5, Zenon DEF Settled
<1>11. \A e \in c.kept : e.seq > c.rcv
  BY <1>3, <1>5
<1> QED
  BY <1>1, <1>9, <1>10, <1>11, DrainedInv

\* The pending segment always fits: the whole of it moves, and the window is not shut.
LEMMA CopyPendingInv ==
    ASSUME NEW m \in Marks, Inv(m), CopyPending
    PROVE  Inv(m)'
<1>1. /\ At("copy") /\ caller' = caller /\ UNCHANGED <<sc, conn, app>>
  BY DEF CopyPending
<1>2. /\ m.next = conn.next /\ sc \in Scenarios /\ app \in Bytes /\ card \in Cards(m)
      /\ conn \in Conns(m) /\ ServerInv(conn) /\ ClientInv(cl, app, pc, caller, m)
      /\ cl \in Clients(m) /\ pc = "copy" /\ card.tx = <<>> /\ Settled(cl, conn)
      /\ caller \in Callers
  BY <1>1, OpenInv, AtFacts
<1>3. /\ cl.pend \in Bytes /\ cl.buf \in Bytes /\ Len(cl.pend) \in Nat /\ Len(cl.buf) \in Nat
      /\ cl.off = 0 /\ Len(cl.pend) <= MSS /\ ~cl.shut /\ sc.capacity \in Nat
      /\ cl.free = sc.capacity /\ Len(cl.buf) + MSS <= sc.capacity
      /\ cl.wnd >= 0 /\ WindowInv(cl) /\ StreamInv(cl, app) /\ BufferInv(cl)
      /\ StaleInv("copy", cl)
  BY <1>2, ClientTypes, ScenarioFacts DEF ClientInv, PlaceInv, BufferInv
<1> DEFINE n == Smaller(Len(cl.pend), cl.free - Len(cl.buf))
           buf == cl.buf \o SubSeq(cl.pend, 1, n)
           pend == SubSeq(cl.pend, n + 1, Len(cl.pend))
           c == [cl EXCEPT !.buf = buf, !.pend = pend,
                           !.off = IF n = Len(cl.pend) THEN 0 ELSE @ + n]
           d == [cl EXCEPT !.buf = buf, !.pend = pend, !.off = 0]
           p == IF (pend # <<>> \/ cl.fin) \/ Room(c) < MSS THEN "return" ELSE "check"
<1>4. n = Len(cl.pend)
  BY <1>3, Sizes DEF Smaller
<1>5. /\ buf \in Bytes /\ pend = <<>> /\ pend \in Bytes /\ 0 \in Nat
      /\ Len(buf) = Len(cl.buf) + Len(cl.pend)
      /\ \A a \in Nat : Run(cl.pend, a) => Run(SubSeq(cl.pend, 1, n), a)
      /\ \A a \in Nat : Run(cl.buf, a) /\ Run(cl.pend, a + Len(cl.buf)) => Run(buf, a)
  <2> HIDE DEF n
  <2>1. ASSUME NEW a \in Nat, Run(cl.pend, a) PROVE Run(SubSeq(cl.pend, 1, n), a)
    BY <1>3, <1>4, <2>1, RunSplit
  <2>2. /\ SubSeq(cl.pend, 1, n) \in Bytes /\ Len(SubSeq(cl.pend, 1, n)) = Len(cl.pend)
        /\ pend \in Bytes /\ Len(pend) = 0
    <3>1. cl.pend \in Seq(Int)
      BY <1>3 DEF Bytes
    <3>2. \A i \in 1..n : cl.pend[i] \in Int
      BY <1>3, <1>4, <3>1, ElementOfSeq
    <3>3. SubSeq(cl.pend, 1, n) \in Bytes /\ Len(SubSeq(cl.pend, 1, n)) = Len(cl.pend)
      BY <1>3, <1>4, <3>1, <3>2, SubSeqProperties DEF Bytes
    <3>4. pend \in Bytes /\ Len(pend) = 0
      BY <1>3, <1>4, <3>1, SubSeqProperties DEF Bytes
    <3> QED
      BY <3>3, <3>4
  <2>3. pend = <<>>
    BY <2>2, EmptySeq DEF Bytes
  <2>4. buf \in Bytes /\ Len(buf) = Len(cl.buf) + Len(cl.pend)
    <3> DEFINE s == SubSeq(cl.pend, 1, n)
    <3>1. s \in Seq(Int) /\ cl.buf \in Seq(Int) /\ Len(s) = Len(cl.pend)
      BY <1>3, <2>2 DEF Bytes
    <3> HIDE DEF s
    <3>2. cl.buf \o s \in Seq(Int) /\ Len(cl.buf \o s) = Len(cl.buf) + Len(s)
      BY <3>1, ConcatProperties
    <3> QED
      BY <3>1, <3>2 DEF s, Bytes
  <2>5. ASSUME NEW a \in Nat, Run(cl.buf, a), Run(cl.pend, a + Len(cl.buf)) PROVE Run(buf, a)
    <3>1. a + Len(cl.buf) \in Nat
      BY <1>3
    <3>2. Run(SubSeq(cl.pend, 1, n), a + Len(cl.buf))
      BY <2>1, <2>5, <3>1
    <3>3. a \in Int
      OBVIOUS
    <3> QED
      BY <1>3, <2>2, <2>5, <3>2, <3>3, RunConcat
  <2> QED
    BY <2>1, <2>2, <2>3, <2>4, <2>5
<1>6. c = d
  BY <1>4
<1>7. cl' = d /\ card' = card /\ pc' = p
  <2>1. c.shut = cl.shut /\ c.fin = cl.fin /\ c.pend = pend
    BY <1>2, ZenonT(60) DEF Clients
  <2>2. /\ Become(IF (c.pend # <<>> \/ c.fin) \/ ~c.shut THEN [cl |-> c, card |-> card]
                  ELSE Send([cl |-> c, card |-> card], 1, <<>>))
        /\ pc' = IF (c.pend # <<>> \/ c.fin) \/ Room(c) < MSS THEN "return" ELSE "check"
    BY DEF CopyPending
  <2> HIDE DEF c, pend
  <2>3. Become([cl |-> c, card |-> card])
    BY <1>3, <2>1, <2>2
  <2>4. cl' = c /\ card' = card
    BY <2>3 DEF Become
  <2> QED
    BY <1>6, <2>1, <2>2, <2>4
<1> HIDE DEF n, buf, pend
<1>8. d \in Clients(m)
  BY <1>2, <1>5, ZenonT(60) DEF Clients
<1>9. /\ d.rcv = cl.rcv /\ d.fin = cl.fin /\ d.off = 0 /\ d.pend = pend
      /\ d.kept = cl.kept /\ d.window = cl.window /\ d.segments = cl.segments
      /\ d.grow = cl.grow /\ d.edge = cl.edge /\ d.shut = cl.shut /\ d.wnd = cl.wnd
      /\ d.pace = cl.pace /\ d.hole = cl.hole /\ d.blocked = cl.blocked
      /\ d.free = cl.free /\ d.buf = buf
  BY <1>2, ZenonT(60) DEF Clients
<1>10. pc' = IF cl.fin \/ sc.capacity - Len(d.buf) < MSS THEN "return" ELSE "check"
  BY <1>3, <1>5, <1>6, <1>7, <1>9 DEF Room
<1> HIDE DEF c, d, p
<1>11. StreamInv(d, app)
  <2>1. /\ Run(app, 0) /\ Run(cl.buf, Len(app)) /\ Run(cl.pend, Len(app) + Len(cl.buf))
        /\ Len(app) + Len(cl.buf) + Len(cl.pend) = Received(cl)
        /\ Received(cl) <= BodyLen /\ (cl.fin => cl.rcv = BodyLen + 1)
    BY <1>3 DEF StreamInv
  <2>2. Len(app) \in Nat
    BY <1>2 DEF Bytes
  <2>3. Run(buf, Len(app))
    BY <1>5, <2>1, <2>2
  <2>4. Len(pend) = 0 /\ Run(pend, Len(app) + Len(buf))
    <3>1. Len(app) + Len(buf) \in Int
      BY <1>3, <1>5, <2>2
    <3> QED
      BY <1>5, <3>1, RunOfNothing
  <2>5. Received(d) = Received(cl)
    BY <1>9 DEF Received
  <2>6. Len(app) + Len(buf) + Len(pend) = Received(cl)
    <3>1. \A x, y, z \in Nat : x + (y + z) + 0 = x + y + z
      OBVIOUS
    <3>2. Len(app) + (Len(cl.buf) + Len(cl.pend)) + 0 = Len(app) + Len(cl.buf) + Len(cl.pend)
      BY <1>3, <2>2, <3>1, Zenon
    <3> QED
      BY <1>5, <2>1, <2>4, <3>2, Zenon
  <2> QED
    BY <1>9, <2>1, <2>3, <2>4, <2>5, <2>6, Zenon DEF StreamInv
<1>12. WindowInv(d) /\ d.wnd >= 0
  BY <1>3, <1>9, Zenon DEF WindowInv
<1>13. BufferInv(d)
  <2>1. Len(d.buf) <= d.free
    <3>1. \A x, y, z, s \in Nat : x + s <= z /\ y <= s => x + y <= z
      OBVIOUS
    <3>2. Len(cl.buf) + Len(cl.pend) <= sc.capacity
      BY <1>3, <3>1, Sizes, Zenon
    <3> QED
      BY <1>3, <1>5, <1>9, <3>2, Zenon
  <2>2. Len(d.pend) <= MSS
    BY <1>5, <1>9, Sizes
  <2> QED
    BY <1>3, <1>9, <2>1, <2>2, Zenon DEF BufferInv
<1>14. PlaceInv(pc', caller, d) /\ StaleInv(pc', d)
  <2>1. pc' \in {"return", "check"} /\ (pc' = "check" => Len(d.buf) + MSS <= sc.capacity)
    <3>1. \A x, y, s \in Int : ~(x - y < s) => y + s <= x
      OBVIOUS
    <3>2. Len(buf) \in Nat /\ sc.capacity \in Int /\ MSS \in Int
      <4>1. buf \in Seq(Int)
        BY <1>5 DEF Bytes
      <4> QED
        BY <1>3, <4>1, Sizes
    <3>3. ~(sc.capacity - Len(buf) < MSS) => Len(buf) + MSS <= sc.capacity
      BY <3>1, <3>2
    <3> QED
      BY <1>9, <1>10, <3>3, Zenon
  <2>2. cl.fin /\ ~cl.blocked => cl.kept = {}
    BY <1>3 DEF StaleInv
  <2> QED
    BY <1>3, <1>9, <2>1, <2>2 DEF PlaceInv, StaleInv
<1>15. ClientInv(d, app, pc', caller, m)
  BY <1>8, <1>11, <1>12, <1>13, <1>14, Zenon DEF ClientInv
<1>16. Settled(d, conn)
  BY <1>2, <1>9, Zenon DEF Settled
<1>17. pc' \notin {"request", "send"} /\ pc' \in Places \ {"open"}
  BY <1>10 DEF Places
<1>18. PromiseInv(d, card, conn) /\ HandInv(pc', d, card, conn)
  BY <1>2, <1>8, <1>16, <1>17, QuietInv
<1> QED
  BY <1>1, <1>2, <1>7, <1>15, <1>17, <1>18, NextInv, Zenon

\* The bytes of a call go to the application, then the ACK it owes goes out.
LEMMA RecvReturnInv ==
    ASSUME NEW m \in Marks, Inv(m), RecvReturn
    PROVE  Inv(m)'
<1> DEFINE c == [cl EXCEPT !.free = 0, !.buf = <<>>]
           u == SendOwedAck([cl |-> c, card |-> card])
           a == app \o cl.buf
<1>1. /\ At("return") /\ cl' = u.cl /\ card' = u.card /\ app' = a /\ pc' = "app"
      /\ UNCHANGED <<sc, caller, conn>>
  BY DEF RecvReturn, Become
<1>2. /\ m.next = conn.next /\ sc \in Scenarios /\ app \in Bytes /\ card \in Cards(m)
      /\ conn \in Conns(m) /\ ServerInv(conn) /\ ClientInv(cl, app, pc, caller, m)
      /\ cl \in Clients(m) /\ pc = "return" /\ card.tx = <<>> /\ Settled(cl, conn)
      /\ caller \in Callers /\ ~conn.serving
  BY <1>1, OpenInv, AtFacts
<1>3. /\ cl.buf \in Bytes /\ Len(cl.buf) \in Nat /\ <<>> \in Bytes /\ Len(<<>>) = 0
      /\ cl.wnd >= 0 /\ WindowInv(cl) /\ StreamInv(cl, app) /\ BufferInv(cl)
      /\ StaleInv("return", cl) /\ Len(app) \in Nat /\ 0 \in Nat
      /\ \A x \in Int : Run(<<>>, x)
  BY <1>2, ClientTypes, RunOfNothing DEF ClientInv, Bytes
<1>4. c \in Clients(m)
  BY <1>2, <1>3, ZenonT(60) DEF Clients
<1>5. /\ c.rcv = cl.rcv /\ c.fin = cl.fin /\ c.off = cl.off /\ c.pend = cl.pend
      /\ c.kept = cl.kept /\ c.window = cl.window /\ c.segments = cl.segments
      /\ c.grow = cl.grow /\ c.edge = cl.edge /\ c.shut = cl.shut /\ c.wnd = cl.wnd
      /\ c.pace = cl.pace /\ c.hole = cl.hole /\ c.blocked = cl.blocked
      /\ c.free = 0 /\ c.buf = <<>>
  BY <1>2, ZenonT(60) DEF Clients
<1> HIDE DEF c
<1>6. a \in Bytes /\ StreamInv(c, a)
  <2>1. /\ Run(app, 0) /\ Run(cl.buf, Len(app)) /\ Run(cl.pend, Len(app) + Len(cl.buf))
        /\ Len(app) + Len(cl.buf) + Len(cl.pend) = Received(cl)
        /\ Received(cl) <= BodyLen /\ (cl.fin => cl.rcv = BodyLen + 1)
    BY <1>3 DEF StreamInv
  <2>2. a \in Bytes /\ Len(a) = Len(app) + Len(cl.buf) /\ Run(a, 0)
    <3>1. Run(cl.buf, 0 + Len(app)) /\ 0 \in Int
      BY <1>3, <2>1
    <3> QED
      BY <1>2, <1>3, <2>1, <3>1, RunConcat
  <2> HIDE DEF a
  <2>3. Len(a) + Len(c.buf) = Len(a) /\ Len(a) \in Int
    BY <1>3, <1>5, <2>2
  <2>4. Run(c.buf, Len(a)) /\ Run(c.pend, Len(a) + Len(c.buf))
        /\ Len(a) + Len(c.buf) + Len(c.pend) = Received(c)
    BY <1>3, <1>5, <2>1, <2>2, <2>3 DEF Received
  <2> QED
    BY <1>5, <2>1, <2>2, <2>4, Zenon DEF StreamInv, Received
<1> HIDE DEF a
<1>7. WindowInv(c) /\ c.wnd >= 0
  BY <1>3, <1>5, Zenon DEF WindowInv
<1>8. BufferInv(c)
  BY <1>3, <1>5 DEF BufferInv
<1>9. PlaceInv("app", caller, c) /\ StaleInv("app", c) /\ (~c.blocked /\ c.fin => c.kept = {})
  BY <1>3, <1>5 DEF PlaceInv, StaleInv
<1>10. ClientInv(c, a, "app", caller, m)
  BY <1>4, <1>6, <1>7, <1>8, <1>9, Zenon DEF ClientInv
<1>11. Settled(c, conn)
  BY <1>2, <1>5, Zenon DEF Settled
<1>12. /\ ClientInv(u.cl, a, "app", caller, m)
       /\ u.card \in Cards(m) /\ PromiseInv(u.cl, u.card, conn)
       /\ u.card.tx # <<>> => u.card.tx[1].data = <<>>
  <2>1. u = SendOwedAck([cl |-> c, card |-> card])
    OBVIOUS
  <2> HIDE DEF u
  <2> QED
    BY <1>2, <1>9, <1>10, <1>11, <2>1, OwedStep
<1> HIDE DEF u
<1>13. HandInv("app", u.cl, u.card, conn) /\ "app" \in Places \ {"open"}
  BY <1>12 DEF HandInv, Places
<1> QED
  BY <1>1, <1>2, <1>6, <1>12, <1>13, NextInv, Zenon
----------------------------------------------------------------------------
(***************************************************************************)
(* One poll of the card.                                                   *)
(***************************************************************************)
LEMMA WaitingFacts ==
    ASSUME NEW m \in Marks, Inv(m), Waiting
    PROVE  /\ m.next = conn.next /\ sc \in Scenarios /\ app \in Bytes /\ caller \in Callers
           /\ conn \in Conns(m) /\ ServerInv(conn) /\ ~conn.serving /\ Settled(cl, conn)
           /\ pc \in {"send", "wait"} /\ ClientInv(cl, app, pc, caller, m)
           /\ HandInv(pc, cl, card, conn) /\ cl.pend = <<>>
           /\ pc = "send" => cl.free = 0 /\ cl.buf = <<>>
           /\ pc = "wait" => cl.free = sc.capacity
           /\ card \in Cards(m) /\ card.tx = <<>>
           /\ Polled \in Cards(m) /\ Polled.tx = <<>>
           /\ \E arrived \in RxQueues(m) : Polled.rx = card.rx \o arrived
<1>1. PICK label \in {"send", "wait"} : At(label)
  BY DEF Waiting
<1>2. label # "open" /\ pc = label
  BY <1>1 DEF At
<1>3. /\ m.next = conn.next /\ sc \in Scenarios /\ app \in Bytes /\ caller \in Callers
      /\ conn \in Conns(m) /\ ServerInv(conn) /\ ~conn.serving /\ Settled(cl, conn)
      /\ ClientInv(cl, app, pc, caller, m) /\ HandInv(pc, cl, card, conn)
      /\ card \in Cards(m) /\ card.tx = <<>>
  BY <1>1, <1>2, OpenInv, AtFacts
<1>4. /\ Polled \in Cards(m) /\ Polled.tx = <<>>
      /\ \E arrived \in RxQueues(m) : Polled.rx = card.rx \o arrived
  <2>1. Polled = AdvanceDelayed(card)
    BY DEF Polled
  <2> HIDE DEF Polled
  <2> QED
    BY <1>3, <2>1, PolledStep, SMTT(60)
<1>5. /\ cl.pend = <<>> /\ (pc = "send" => cl.free = 0)
      /\ (pc = "wait" => cl.free = sc.capacity)
  BY <1>2, <1>3 DEF ClientInv, PlaceInv
<1>6. pc = "send" => cl.buf = <<>>
  <2>1. cl.buf \in Seq(Int) /\ Len(cl.buf) <= cl.free
    BY <1>3, ClientTypes DEF ClientInv, BufferInv, Bytes
  <2> QED
    BY <1>5, <2>1, EmptySeq
<1> QED
  BY <1>2, <1>3, <1>4, <1>5, <1>6

\* A frame leaves the card.
LEMMA PolledFrame ==
    ASSUME NEW m \in Marks, Inv(m), Waiting, Polled.rx # <<>>
    PROVE  /\ Head(Polled.rx) \in Frames(m)
           /\ \A c : \E k \in Cards(m) :
                 /\ Read(c) = [cl |-> c, card |-> k]
                 /\ k.tx = <<>> /\ k.rx = Tail(Polled.rx)
           /\ Credited => /\ conn' \in Conns(m) /\ ServerInv(conn')
                          /\ m.next = conn'.next /\ ~conn'.serving
                          /\ conn'.acked = conn.acked
                          /\ conn'.clientWindow = conn.clientWindow
                          /\ conn'.clientNext = conn.clientNext
<1>1. Polled \in Cards(m) /\ Polled.tx = <<>> /\ conn \in Conns(m) /\ ServerInv(conn)
      /\ m.next = conn.next /\ ~conn.serving
  BY WaitingFacts
<1> DEFINE k == [Polled EXCEPT !.rx = Tail(@)]
<1>2. k \in Cards(m) /\ k.tx = <<>> /\ k.rx = Tail(Polled.rx) /\ Head(Polled.rx) \in Frames(m)
  <2> HIDE DEF Polled
  <2>1. k = [Polled EXCEPT !.rx = Tail(@)]
    OBVIOUS
  <2> HIDE DEF k
  <2> QED
    BY <1>1, <2>1, ReadStep
<1>3. ASSUME NEW c PROVE \E l \in Cards(m) : /\ Read(c) = [cl |-> c, card |-> l]
                                             /\ l.tx = <<>> /\ l.rx = Tail(Polled.rx)
  <2>1. Read(c) = [cl |-> c, card |-> k]
    BY DEF Read
  <2> HIDE DEF k
  <2> QED
    BY <1>2, <2>1
<1>4. ASSUME Credited
      PROVE  /\ conn' \in Conns(m) /\ ServerInv(conn') /\ m.next = conn'.next
             /\ ~conn'.serving /\ conn'.acked = conn.acked
             /\ conn'.clientWindow = conn.clientWindow
             /\ conn'.clientNext = conn.clientNext
  <2>1. conn' = CreditClientAck(conn, Head(Polled.rx))
    BY <1>4 DEF Credited
  <2>2. conn' \in Conns(m) /\ SameServer(conn, conn') /\ conn'.acked = conn.acked
        /\ conn'.clientWindow = conn.clientWindow
    BY <1>1, <1>2, <2>1, CreditStep
  <2>3. ServerInv(conn')
    BY <1>1, <2>2, SameServerInv
  <2> QED
    BY <1>1, <2>2, <2>3 DEF SameServer
<1> QED
  BY <1>2, <1>3, <1>4

\* SESSION_FAST after the frame has been looked at.
LEMMA SessionFastInv ==
    ASSUME NEW m \in Marks, Inv(m), Waiting, Polled.rx # <<>>,
           NEW c \in Clients(m), WindowInv(c), BufferInv(c), StreamInv(c, app),
           c.wnd >= 0, c.pend = <<>>, c.free = cl.free, Settled(c, conn), SessionFast(c)
    PROVE  Inv(m)'
<1> DEFINE d == [c EXCEPT !.pace = PacePolls, !.hole = HoleAcks, !.blocked = FALSE]
<1>1. /\ Become(Read(d)) /\ Credited /\ pc' = "drain" /\ caller' = pc
      /\ UNCHANGED <<sc, app>>
  BY DEF SessionFast
<1>2. /\ m.next = conn.next /\ sc \in Scenarios /\ app \in Bytes /\ conn \in Conns(m)
      /\ pc \in {"send", "wait"} /\ (pc = "send" => cl.free = 0)
      /\ (pc = "wait" => cl.free = sc.capacity)
  BY WaitingFacts
<1>3. d \in Clients(m)
  <2>1. PacePolls \in Int /\ HoleAcks \in Int /\ FALSE \in BOOLEAN
    BY DEF PacePolls, HoleAcks
  <2> QED
    BY <2>1, ZenonT(60) DEF Clients
<1>4. /\ SameStream(c, d) /\ d.window = c.window /\ d.segments = c.segments
      /\ d.grow = c.grow /\ d.edge = c.edge /\ d.shut = c.shut /\ d.wnd = c.wnd
      /\ d.pace = PacePolls /\ d.hole = HoleAcks
  BY ZenonT(60) DEF Clients, SameStream
<1> HIDE DEF d
<1>5. WindowInv(d)
  <2>1. d.pace \in 0..PacePolls /\ d.hole \in 0..HoleAcks
    BY <1>4 DEF PacePolls, HoleAcks
  <2> QED
    BY <1>4, <2>1, Zenon DEF WindowInv, SameStream
<1>6. BufferInv(d) /\ StreamInv(d, app) /\ d.wnd >= 0
  BY <1>4, Zenon DEF BufferInv, StreamInv, Received, SameStream
<1>7. PlaceInv("drain", pc, d) /\ StaleInv("drain", d)
  <2>1. d.pend = <<>> /\ d.free = cl.free
    BY <1>4 DEF SameStream
  <2> QED
    BY <1>2, <2>1 DEF PlaceInv, StaleInv
<1>8. ClientInv(d, app, "drain", pc, m)
  BY <1>3, <1>5, <1>6, <1>7, Zenon DEF ClientInv
<1>9. PICK k \in Cards(m) : Read(d) = [cl |-> d, card |-> k] /\ k.tx = <<>>
  BY PolledFrame
<1>10. cl' = d /\ card' = k
  BY <1>1, <1>9 DEF Become
<1>11. /\ conn' \in Conns(m) /\ ServerInv(conn') /\ m.next = conn'.next
       /\ conn'.acked = conn.acked /\ conn'.clientWindow = conn.clientWindow
  BY <1>1, PolledFrame
<1>12. Settled(d, conn')
  <2>1. d.rcv = c.rcv /\ d.edge = c.edge /\ conn'.next = conn.next
    BY <1>2, <1>4, <1>11 DEF SameStream
  <2> QED
    BY <1>11, <2>1, Zenon DEF Settled
<1>13. PromiseInv(d, k, conn') /\ HandInv("drain", d, k, conn')
  BY <1>3, <1>9, <1>11, <1>12, QuietInv
<1>14. "drain" \in Places \ {"open"} /\ pc \in Callers
  BY <1>2 DEF Places, Callers
<1> QED
  BY <1>1, <1>2, <1>8, <1>9, <1>10, <1>11, <1>13, <1>14, NextInv, Zenon

LEMMA PollDirectInv ==
    ASSUME NEW m \in Marks, Inv(m), PollDirect
    PROVE  Inv(m)'
<1> DEFINE f == Head(Polled.rx)
           rcv == cl.rcv + Len(f.data)
           buf == cl.buf \o f.data
           c == [cl EXCEPT !.buf = buf, !.rcv = rcv]
<1>1. Waiting /\ Polled.rx # <<>> /\ IsDirect(f) /\ SessionFast(IF f.bad THEN cl ELSE c)
  BY DEF PollDirect
<1>2. f \in Frames(m)
  BY <1>1, PolledFrame
<1> HIDE DEF f
<1>3. /\ m.next = conn.next /\ sc \in Scenarios /\ app \in Bytes /\ conn \in Conns(m)
      /\ ClientInv(cl, app, pc, caller, m) /\ cl.pend = <<>> /\ Settled(cl, conn)
      /\ cl \in Clients(m) /\ WindowInv(cl) /\ BufferInv(cl) /\ StreamInv(cl, app)
      /\ cl.wnd >= 0
  BY <1>1, WaitingFacts DEF ClientInv
<1>4. CASE f.bad
  BY <1>1, <1>3, <1>4, SessionFastInv
<1>5. CASE ~f.bad
  <2>1. /\ f.data \in Bytes /\ f.data # <<>> /\ ~f.fin /\ f.seq = cl.rcv
        /\ Len(f.data) <= Room(cl) /\ f.fin \in BOOLEAN
        /\ Whole(cl.rcv, f.data, FALSE, m)
    <3>1. f.data \in Bytes /\ f.fin \in BOOLEAN
          /\ (f.data # <<>> /\ ~f.bad => Whole(f.seq, f.data, f.fin, m))
      BY <1>2, Zenon DEF Frames
    <3>2. f.data # <<>> /\ ~f.fin /\ f.seq = cl.rcv /\ Len(f.data) <= Room(cl)
      BY <1>1, Zenon DEF IsDirect, IsPlain
    <3>3. f.fin = FALSE
      BY <3>1, <3>2
    <3> QED
      BY <1>5, <3>1, <3>2, <3>3
  <2>2. /\ rcv \in Nat /\ buf \in Bytes /\ Len(buf) = Len(cl.buf) + Len(f.data)
        /\ cl.rcv \in Nat /\ cl.free \in Nat /\ cl.edge \in Int /\ cl.window \in Int
        /\ Len(cl.buf) \in Nat /\ Len(f.data) \in Nat /\ Len(f.data) # 0
    <3>1. /\ cl.rcv \in Nat /\ cl.buf \in Bytes /\ cl.free \in Nat /\ cl.edge \in Int
          /\ Len(cl.buf) \in Nat /\ cl.window \in Int
      BY <1>3, ClientTypes
    <3>2. f.data \in Seq(Int) /\ cl.buf \in Seq(Int)
      BY <2>1, <3>1 DEF Bytes
    <3>3. Len(f.data) \in Nat /\ Len(f.data) # 0 /\ buf \in Seq(Int)
          /\ Len(buf) = Len(cl.buf) + Len(f.data)
      BY <2>1, <3>2, EmptySeq, ConcatProperties
    <3> HIDE DEF buf
    <3> QED
      BY <3>1, <3>3 DEF Bytes
  <2>3. c \in Clients(m)
    <3> HIDE DEF rcv, buf
    <3> QED
      BY <1>3, <2>2, ZenonT(60) DEF Clients
  <2>4. /\ c.rcv = rcv /\ c.fin = cl.fin /\ c.off = cl.off /\ c.pend = cl.pend
        /\ c.kept = cl.kept /\ c.window = cl.window /\ c.segments = cl.segments
        /\ c.grow = cl.grow /\ c.edge = cl.edge /\ c.shut = cl.shut /\ c.wnd = cl.wnd
        /\ c.pace = cl.pace /\ c.hole = cl.hole /\ c.blocked = cl.blocked
        /\ c.free = cl.free /\ c.buf = buf
    <3> HIDE DEF rcv, buf
    <3> QED
      BY <1>3, ZenonT(60) DEF Clients
  <2> HIDE DEF c
  <2>5. /\ cl.rcv <= c.rcv /\ c.rcv <= m.next /\ StreamInv(c, app)
    <3>1. c.buf = cl.buf \o f.data /\ c.rcv = cl.rcv + Len(f.data)
      BY <2>4
    <3> QED
      BY <1>3, <2>1, <2>4, <3>1, Continues
  <2> HIDE DEF buf
  <2>6. WindowInv(c)
    <3>1. cl.edge - cl.rcv <= cl.window
      BY <1>3 DEF WindowInv
    <3>2. \A e, r, l \in Int, w \in Int : e - r <= w /\ l >= 0 => e - (r + l) <= w
      OBVIOUS
    <3>3. c.edge - c.rcv <= c.window
      BY <2>2, <2>4, <3>1, <3>2
    <3> HIDE DEF rcv
    <3> QED
      BY <1>3, <2>4, <3>3, Zenon DEF WindowInv
  <2>7. BufferInv(c)
    <3>1. \A x, y, z \in Nat : y <= x - z => z + y <= x
      OBVIOUS
    <3>2. Len(f.data) <= cl.free - Len(cl.buf)
      BY <2>1 DEF Room
    <3>3. Len(c.buf) <= c.free
      BY <2>2, <2>4, <3>1, <3>2
    <3> QED
      BY <1>3, <2>4, <3>3, Zenon DEF BufferInv
  <2>8. Settled(c, conn)
    <3>1. conn.acked \in Nat /\ conn.acked <= cl.rcv
          /\ conn.acked + conn.clientWindow = cl.edge
      BY <1>3, ConnTypes DEF Settled
    <3>2. conn.acked <= c.rcv
      BY <2>2, <2>4, <2>5, <3>1
    <3> QED
      BY <1>3, <2>4, <2>5, <3>1, <3>2 DEF Settled
  <2>9. SessionFast(c)
    BY <1>1, <1>5
  <2> QED
    BY <1>1, <1>3, <2>3, <2>4, <2>5, <2>6, <2>7, <2>8, <2>9, SessionFastInv
<1> QED
  BY <1>4, <1>5

\* What OOO_STORE keeps is ahead of RCV.NXT and within the body.
LEMMA StoreStep ==
    ASSUME NEW m \in Marks, NEW c \in Clients(m), BufferInv(c),
           NEW f \in Frames(m), ~f.bad, f.data # <<>>, NEW d, d = Store(c, f)
    PROVE  /\ d \in Clients(m) /\ BufferInv(d)
           /\ d.rcv = c.rcv /\ d.fin = c.fin /\ d.off = c.off /\ d.pend = c.pend
           /\ d.window = c.window /\ d.segments = c.segments /\ d.grow = c.grow
           /\ d.edge = c.edge /\ d.shut = c.shut /\ d.wnd = c.wnd /\ d.pace = c.pace
           /\ d.hole = c.hole /\ d.blocked = c.blocked /\ d.free = c.free
           /\ d.buf = c.buf
           /\ \A e \in d.kept : e \in c.kept \/ (e.seq > c.rcv /\ e.seq <= m.last)
<1> DEFINE piece == [seq |-> f.seq, data |-> f.data]
           kept == c.kept \cup {piece}
           s == [c EXCEPT !.kept = kept]
<1>1. /\ f.seq \in Nat /\ f.data \in Bytes /\ Whole(f.seq, f.data, f.fin, m)
  BY Zenon DEF Frames
<1>2. piece \in KeptPieces(m) /\ piece.seq = f.seq /\ f.seq <= m.last
  <2>1. Whole(f.seq, f.data, FALSE, m) /\ f.seq <= m.last
    BY <1>1, Zenon DEF Whole
  <2>2. piece \in [seq : Nat, data : Bytes] /\ piece.seq = f.seq /\ piece.data = f.data
    BY <1>1
  <2> HIDE DEF piece
  <2> QED
    BY <2>1, <2>2 DEF KeptPieces
<1> HIDE DEF piece
<1>3. c.kept \in KeptSets(m) /\ IsFiniteSet(c.kept) /\ Cardinality(c.kept) <= Slots
  BY ClientTypes DEF BufferInv
<1>4. CASE d = c
  BY <1>4
<1>5. CASE d = s /\ f.seq > c.rcv /\ (\A e \in c.kept : e.seq # f.seq)
           /\ Cardinality(c.kept) < Slots
  <2>1. kept \in KeptSets(m)
    BY <1>2, <1>3 DEF KeptSets
  <2>2. IsFiniteSet(kept) /\ Cardinality(kept) <= Slots
    <3>1. piece \notin c.kept
      BY <1>2, <1>5
    <3>2. IsFiniteSet(kept) /\ Cardinality(kept) = Cardinality(c.kept) + 1
          /\ Cardinality(c.kept) \in Nat
      BY <1>3, <3>1, FS_AddElement, FS_CardinalityType
    <3> HIDE DEF kept
    <3> QED
      BY <1>5, <3>2 DEF Slots
  <2>3. \A e \in kept : e \in c.kept \/ (e.seq > c.rcv /\ e.seq <= m.last)
    BY <1>2, <1>5
  <2> HIDE DEF kept
  <2>4. d \in Clients(m)
    BY <1>5, <2>1, ZenonT(60) DEF Clients
  <2>5. /\ d.rcv = c.rcv /\ d.fin = c.fin /\ d.off = c.off /\ d.pend = c.pend
        /\ d.window = c.window /\ d.segments = c.segments /\ d.grow = c.grow
        /\ d.edge = c.edge /\ d.shut = c.shut /\ d.wnd = c.wnd /\ d.pace = c.pace
        /\ d.hole = c.hole /\ d.blocked = c.blocked /\ d.free = c.free
        /\ d.buf = c.buf /\ d.kept = kept
    BY <1>5, ZenonT(60) DEF Clients
  <2> HIDE DEF s
  <2>6. BufferInv(d)
    BY <2>2, <2>5, Zenon DEF BufferInv
  <2> QED
    BY <2>3, <2>4, <2>5, <2>6, Zenon
<1> QED
  BY <1>4, <1>5 DEF Store, piece

LEMMA PollAheadInv ==
    ASSUME NEW m \in Marks, Inv(m), PollAhead
    PROVE  Inv(m)'
<1> DEFINE f == Head(Polled.rx)
           c == Store(cl, f)
<1>1. Waiting /\ Polled.rx # <<>> /\ IsAhead(f) /\ SessionFast(IF f.bad THEN cl ELSE c)
  BY DEF PollAhead
<1>2. f \in Frames(m)
  BY <1>1, PolledFrame
<1> HIDE DEF f
<1>3. /\ m.next = conn.next /\ sc \in Scenarios /\ app \in Bytes /\ conn \in Conns(m)
      /\ ClientInv(cl, app, pc, caller, m) /\ cl.pend = <<>> /\ Settled(cl, conn)
      /\ cl \in Clients(m) /\ WindowInv(cl) /\ BufferInv(cl) /\ StreamInv(cl, app)
      /\ cl.wnd >= 0
  BY <1>1, WaitingFacts DEF ClientInv
<1>4. CASE f.bad
  BY <1>1, <1>3, <1>4, SessionFastInv
<1>5. CASE ~f.bad
  <2>1. f.data # <<>> /\ c = Store(cl, f)
    BY <1>1 DEF IsAhead, IsPlain
  <2> HIDE DEF c
  <2>2. /\ c \in Clients(m) /\ BufferInv(c)
        /\ c.rcv = cl.rcv /\ c.fin = cl.fin /\ c.off = cl.off /\ c.pend = cl.pend
        /\ c.window = cl.window /\ c.segments = cl.segments /\ c.grow = cl.grow
        /\ c.edge = cl.edge /\ c.shut = cl.shut /\ c.wnd = cl.wnd /\ c.pace = cl.pace
        /\ c.hole = cl.hole /\ c.blocked = cl.blocked /\ c.free = cl.free
        /\ c.buf = cl.buf
    BY <1>2, <1>3, <1>5, <2>1, StoreStep
  <2>3. WindowInv(c) /\ StreamInv(c, app) /\ c.wnd >= 0 /\ Settled(c, conn)
        /\ c.pend = <<>>
    BY <1>3, <2>2, Zenon DEF WindowInv, StreamInv, Received, Settled
  <2>4. SessionFast(c)
    BY <1>1, <1>5
  <2> QED
    BY <1>1, <2>2, <2>3, <2>4, SessionFastInv
<1> QED
  BY <1>4, <1>5

\* What HANDLE_SEGMENT leaves when payload at RCV.NXT goes to the pending region.
LEMMA InOrderStep ==
    ASSUME NEW m \in Marks, sc \in Scenarios, NEW a \in Bytes,
           NEW c, NEW p \in {"send", "wait"}, NEW from, ClientInv(c, a, p, from, m),
           NEW f \in Frames(m), ~f.bad, f.data # <<>>, InOrder(c, f),
           NEW q \in {"app", "return", "check"}, p = "send" => q = "app",
           p = "wait" => q # "app",
           NEW n \in Conns(m), m.next = n.next, Settled(c, n),
           NEW d, d = Handled(c, f), q = "check" => d.buf = <<>>
    PROVE  ClientInv(d, a, q, from, m) /\ Settled(d, n)
<1>1. /\ f.seq \in Nat /\ f.data \in Bytes /\ f.fin \in BOOLEAN
      /\ Whole(f.seq, f.data, f.fin, m)
  BY Zenon DEF Frames
<1>2. /\ c \in Clients(m) /\ WindowInv(c) /\ BufferInv(c) /\ StreamInv(c, a)
      /\ c.wnd >= 0 /\ PlaceInv(p, from, c) /\ StaleInv(p, c)
      /\ c.pend = <<>> /\ f.seq = c.rcv
  BY DEF ClientInv, PlaceInv, InOrder
<1>3. /\ c.rcv \in Nat /\ c.fin \in BOOLEAN /\ c.due \in BOOLEAN /\ c.event \in BOOLEAN
      /\ c.edge \in Int /\ c.window \in Int /\ c.free \in Nat /\ c.buf \in Bytes
      /\ Len(c.buf) \in Nat /\ Len(f.data) \in Nat /\ Len(f.data) # 0 /\ Len(a) \in Nat
  <2>1. f.data \in Seq(Int)
    BY <1>1 DEF Bytes
  <2>2. Len(f.data) \in Nat /\ Len(f.data) # 0
    BY <2>1, EmptySeq
  <2> QED
    BY <1>2, <2>2, ClientTypes DEF Bytes
<1> DEFINE l == Len(f.data)
           rcv == c.rcv + l + (IF f.fin THEN 1 ELSE 0)
           fin == c.fin \/ f.fin
           s == [c EXCEPT !.pend = f.data, !.rcv = rcv, !.fin = fin,
                          !.due = TRUE, !.event = TRUE]
<1>4. d = s
  <2>1. <<>> \o f.data = f.data
    BY <1>1 DEF Bytes
  <2>2. c.pend \o f.data = f.data
    BY <1>2, <2>1
  <2>3. /\ (c.due \/ f.data # <<>> \/ f.fin) = TRUE
        /\ (c.event \/ f.data # <<>> \/ f.fin) = TRUE
    BY Zenon
  <2>4. Handled(c, f) =
           [c EXCEPT !.pend = c.pend \o f.data, !.rcv = rcv, !.fin = fin,
                     !.due = (c.due \/ f.data # <<>> \/ f.fin),
                     !.event = (c.event \/ f.data # <<>> \/ f.fin)]
    BY Zenon DEF Handled
  <2> HIDE DEF rcv, fin
  <2> QED
    BY <2>2, <2>3, <2>4, Zenon
<1>5. rcv \in Nat /\ fin \in BOOLEAN /\ TRUE \in BOOLEAN /\ c.rcv + l <= rcv
      /\ (f.fin => rcv = c.rcv + l + 1) /\ (~f.fin => rcv = c.rcv + l)
  BY <1>1, <1>3, SMTT(60)
<1> HIDE DEF rcv, fin
<1>6. d \in Clients(m)
  BY <1>1, <1>2, <1>4, <1>5, ZenonT(60) DEF Clients
<1>7. /\ d.rcv = rcv /\ d.fin = fin /\ d.off = c.off /\ d.pend = f.data
      /\ d.kept = c.kept /\ d.window = c.window /\ d.segments = c.segments
      /\ d.grow = c.grow /\ d.edge = c.edge /\ d.shut = c.shut /\ d.wnd = c.wnd
      /\ d.pace = c.pace /\ d.hole = c.hole /\ d.blocked = c.blocked
      /\ d.free = c.free /\ d.buf = c.buf /\ d.event
  BY <1>2, <1>4, ZenonT(60) DEF Clients
<1> HIDE DEF s
<1>8. /\ Run(f.data, c.rcv) /\ l <= MSS /\ c.rcv + l <= BodyLen /\ c.rcv + l <= m.next
      /\ c.rcv <= m.last
      /\ f.fin => c.rcv + l = BodyLen /\ c.rcv = m.last /\ BodyLen + 1 <= m.next
  BY <1>1, <1>2, Zenon DEF Whole
<1>9. ~c.fin
  <2>1. c.fin => c.rcv = BodyLen + 1
    BY <1>2 DEF StreamInv
  <2> QED
    BY <1>3, <1>8, <2>1, Sizes
<1>10. fin = f.fin
  BY <1>1, <1>9 DEF fin
<1>11. StreamInv(d, a)
  <2>1. /\ Run(a, 0) /\ Run(c.buf, Len(a)) /\ Len(a) + Len(c.buf) + Len(c.pend) = Received(c)
    BY <1>2 DEF StreamInv
  <2>2. Len(a) + Len(c.buf) = c.rcv
    BY <1>2, <1>3, <1>9, <2>1 DEF Received
  <2>3. Received(d) = c.rcv + l
    <3>1. CASE f.fin
      <4>1. Received(d) = rcv - 1
        BY <1>7, <1>10, <3>1 DEF Received
      <4> QED
        BY <1>3, <1>5, <3>1, <4>1
    <3>2. CASE ~f.fin
      <4>1. Received(d) = rcv - 0
        BY <1>7, <1>10, <3>2 DEF Received
      <4> QED
        BY <1>3, <1>5, <3>2, <4>1
    <3> QED
      BY <3>1, <3>2
  <2>4. d.fin => d.rcv = BodyLen + 1
    <3>1. SUFFICES ASSUME d.fin PROVE rcv = BodyLen + 1
      BY <1>7
    <3>2. f.fin
      BY <1>7, <1>10, <3>1
    <3> QED
      BY <1>5, <1>8, <3>2
  <2> QED
    BY <1>7, <1>8, <2>1, <2>2, <2>3, <2>4 DEF StreamInv
<1>12. WindowInv(d) /\ d.wnd >= 0
  <2>1. c.edge - c.rcv <= c.window
    BY <1>2 DEF WindowInv
  <2>2. d.edge - d.rcv <= d.window
    BY <1>3, <1>5, <1>7, <2>1, SMTT(60)
  <2> QED
    BY <1>2, <1>7, <2>2, Zenon DEF WindowInv
<1>13. BufferInv(d)
  BY <1>2, <1>7, <1>8, Zenon DEF BufferInv
<1>14. PlaceInv(q, from, d)
  <2>1. /\ p = "send" => c.free = 0
        /\ p = "wait" => c.free = sc.capacity
    BY <1>2 DEF PlaceInv
  <2>2. q = "check" => Len(c.buf) + MSS <= sc.capacity
    <3>1. sc.capacity >= MSS /\ Len(<<>>) = 0 /\ 0 + MSS = MSS
      BY ScenarioFacts, Sizes
    <3>2. sc.capacity \in Int /\ MSS \in Int
      BY ScenarioFacts, Sizes
    <3>3. MSS <= sc.capacity
      BY <3>1, <3>2
    <3> QED
      BY <1>7, <3>1, <3>3
  <2> QED
    BY <1>7, <2>1, <2>2 DEF PlaceInv
<1>15. StaleInv(q, d)
  <2>1. SUFFICES ASSUME d.fin, ~d.blocked, NEW e \in d.kept PROVE FALSE
    BY DEF StaleInv
  <2>2. e.seq > c.rcv
    BY <1>2, <1>7, <2>1 DEF StaleInv
  <2>3. e.seq \in Nat /\ e.seq <= m.last
    <3>1. c.kept \in KeptSets(m)
      BY <1>2, ClientTypes
    <3>2. e \in KeptPieces(m)
      BY <1>7, <2>1, <3>1 DEF KeptSets
    <3> QED
      BY <3>2, Zenon DEF KeptPieces, Whole
  <2>4. c.rcv = m.last
    BY <1>7, <1>8, <1>10, <2>1
  <2> QED
    BY <1>3, <2>2, <2>3, <2>4
<1>16. Settled(d, n)
  <2>1. n.acked <= c.rcv /\ n.acked \in Nat /\ n.acked + n.clientWindow = c.edge
    BY ConnTypes DEF Settled
  <2>2. n.acked <= d.rcv
    BY <1>3, <1>5, <1>7, <2>1, SMTT(60)
  <2>3. d.rcv <= n.next
    <3>1. m.next \in Nat
      BY DEF Marks
    <3> QED
      BY <1>1, <1>3, <1>5, <1>7, <1>8, <3>1, Sizes
  <2> QED
    BY <1>7, <2>1, <2>2, <2>3 DEF Settled
<1> QED
  BY <1>6, <1>7, <1>11, <1>12, <1>13, <1>14, <1>15, <1>16, Zenon DEF ClientInv

\* A segment with payload at RCV.NXT that fits is an event.
LEMMA InOrderEvent ==
    ASSUME NEW m, NEW c \in Clients(m), NEW f, ~f.bad, f.data # <<>>, InOrder(c, f),
           NEW d, d = Handled(c, f)
    PROVE  d.event
<1> DEFINE event == c.event \/ f.data # <<>> \/ f.fin
           pend == c.pend \o f.data
           rcv == c.rcv + Len(f.data) + (IF f.fin THEN 1 ELSE 0)
           fin == c.fin \/ f.fin
           due == c.due \/ f.data # <<>> \/ f.fin
           s == [c EXCEPT !.pend = pend, !.rcv = rcv, !.fin = fin, !.due = due,
                          !.event = event]
<1>1. event
  OBVIOUS
<1>2. d = s
  BY Zenon DEF Handled
<1> HIDE DEF event, pend, rcv, fin, due
<1>3. s.event = event
  BY ZenonT(30) DEF Clients
<1> QED
  BY <1>1, <1>2, <1>3

\* Any other segment is kept, or leaves the stream as it is.
LEMMA AsideStep ==
    ASSUME NEW m \in Marks, sc \in Scenarios, NEW a \in Bytes,
           NEW c, NEW p \in {"send", "wait"}, NEW from, ClientInv(c, a, p, from, m),
           NEW f \in Frames(m), ~f.bad, f.data = <<>> \/ ~InOrder(c, f),
           NEW q \in {"app", "return", "check", "wait"}, p = "send" => q = "app",
           p = "wait" => q # "app",
           NEW n \in Conns(m), m.next = n.next, Settled(c, n),
           NEW d, d = Handled(c, f), q = "check" => d.buf = <<>>
    PROVE  ClientInv(d, a, q, from, m) /\ Settled(d, n)
<1>1. f.data = <<>> => ~f.fin
  BY Zenon DEF Frames
<1>2. /\ c \in Clients(m) /\ WindowInv(c) /\ BufferInv(c) /\ StreamInv(c, a)
      /\ c.wnd >= 0 /\ PlaceInv(p, from, c) /\ StaleInv(p, c) /\ c.pend = <<>>
  BY DEF ClientInv, PlaceInv
<1>3. /\ c.rcv \in Nat /\ c.fin \in BOOLEAN /\ c.due \in BOOLEAN /\ c.event \in BOOLEAN
      /\ c.pend \in Bytes /\ <<>> \in Bytes
  BY <1>2, ClientTypes DEF Bytes
<1> DEFINE Same(e) ==
       /\ e.rcv = c.rcv /\ e.fin = c.fin /\ e.off = c.off /\ e.pend = c.pend
       /\ e.window = c.window /\ e.segments = c.segments /\ e.grow = c.grow
       /\ e.edge = c.edge /\ e.shut = c.shut /\ e.wnd = c.wnd /\ e.pace = c.pace
       /\ e.hole = c.hole /\ e.blocked = c.blocked /\ e.free = c.free
       /\ e.buf = c.buf
<1>4. /\ d \in Clients(m) /\ BufferInv(d) /\ Same(d)
      /\ \A e \in d.kept : e \in c.kept \/ (e.seq > c.rcv /\ e.seq <= m.last)
  <2>1. CASE InOrder(c, f)
    <3> DEFINE pend == c.pend \o f.data
               rcv == c.rcv + Len(f.data) + (IF f.fin THEN 1 ELSE 0)
               fin == c.fin \/ f.fin
               due == c.due \/ f.data # <<>> \/ f.fin
               event == c.event \/ f.data # <<>> \/ f.fin
               s == [c EXCEPT !.pend = pend, !.rcv = rcv, !.fin = fin, !.due = due,
                              !.event = event]
    <3>1. d = s
      BY <2>1, Zenon DEF Handled
    <3>2. f.data = <<>> /\ ~f.fin
      BY <1>1, <2>1
    <3>3. pend = c.pend /\ pend \in Bytes
      BY <1>2, <1>3, <3>2
    <3>4. rcv = c.rcv /\ rcv \in Nat
      BY <1>3, <3>2
    <3>5. /\ fin = c.fin /\ fin \in BOOLEAN /\ due \in BOOLEAN /\ event \in BOOLEAN
      BY <1>3, <3>2
    <3> HIDE DEF pend, rcv, fin, due, event
    <3>6. d \in Clients(m)
      BY <1>2, <3>1, <3>3, <3>4, <3>5, ZenonT(60) DEF Clients
    <3>7. /\ d.rcv = rcv /\ d.fin = fin /\ d.off = c.off /\ d.pend = pend
          /\ d.window = c.window /\ d.segments = c.segments /\ d.grow = c.grow
          /\ d.edge = c.edge /\ d.shut = c.shut /\ d.wnd = c.wnd /\ d.pace = c.pace
          /\ d.hole = c.hole /\ d.blocked = c.blocked /\ d.free = c.free
          /\ d.buf = c.buf /\ d.kept = c.kept
      BY <1>2, <3>1, ZenonT(60) DEF Clients
    <3> HIDE DEF s
    <3>8. Same(d)
      BY <3>3, <3>4, <3>5, <3>7, Zenon
    <3>9. BufferInv(d)
      BY <1>2, <3>7, <3>8, Zenon DEF BufferInv
    <3> QED
      BY <3>6, <3>7, <3>8, <3>9, Zenon
  <2>2. CASE ~InOrder(c, f)
    <3> DEFINE b == IF f.data # <<>> /\ f.seq # c.rcv THEN Store(c, f) ELSE c
               due == b.due \/ f.data # <<>> \/ f.fin
               s == [b EXCEPT !.due = due]
    <3>1. d = s
      BY <2>2, Zenon DEF Handled
    <3>2. /\ b \in Clients(m) /\ BufferInv(b) /\ Same(b)
          /\ \A e \in b.kept : e \in c.kept \/ (e.seq > c.rcv /\ e.seq <= m.last)
      <4>1. CASE f.data # <<>> /\ f.seq # c.rcv
        <5>1. b = Store(c, f)
          BY <4>1
        <5> HIDE DEF b
        <5> QED
          BY <1>2, <4>1, <5>1, StoreStep
      <4>2. CASE ~(f.data # <<>> /\ f.seq # c.rcv)
        <5>1. b = c
          BY <4>2
        <5> HIDE DEF b
        <5> QED
          BY <1>2, <5>1, Zenon
      <4> QED
        BY <4>1, <4>2
    <3> HIDE DEF b
    <3>3. due \in BOOLEAN
      <4>1. b.due \in BOOLEAN /\ f.fin \in BOOLEAN
        BY <3>2, ClientTypes, Zenon DEF Frames
      <4> QED
        BY <4>1
    <3> HIDE DEF due
    <3>4. d \in Clients(m)
      BY <3>1, <3>2, <3>3, ZenonT(60) DEF Clients
    <3>5. /\ d.rcv = b.rcv /\ d.fin = b.fin /\ d.off = b.off /\ d.pend = b.pend
          /\ d.window = b.window /\ d.segments = b.segments /\ d.grow = b.grow
          /\ d.edge = b.edge /\ d.shut = b.shut /\ d.wnd = b.wnd /\ d.pace = b.pace
          /\ d.hole = b.hole /\ d.blocked = b.blocked /\ d.free = b.free
          /\ d.buf = b.buf /\ d.kept = b.kept
      BY <3>1, <3>2, ZenonT(60) DEF Clients
    <3> HIDE DEF s
    <3>6. Same(d)
      BY <3>2, <3>5, Zenon
    <3>7. BufferInv(d)
      BY <3>2, <3>5, Zenon DEF BufferInv
    <3> QED
      BY <3>2, <3>4, <3>5, <3>6, <3>7, Zenon
  <2> QED
    BY <2>1, <2>2
<1>5. WindowInv(d) /\ StreamInv(d, a) /\ d.wnd >= 0 /\ Settled(d, n)
  BY <1>2, <1>4, Zenon DEF WindowInv, StreamInv, Received, Settled
<1>6. PlaceInv(q, from, d)
  <2>1. /\ p = "send" => c.free = 0
        /\ p = "wait" => c.free = sc.capacity
    BY <1>2 DEF PlaceInv
  <2>2. q = "check" => Len(d.buf) + MSS <= sc.capacity
    <3>1. sc.capacity >= MSS /\ Len(<<>>) = 0 /\ 0 + MSS = MSS
      BY ScenarioFacts, Sizes
    <3>2. sc.capacity \in Int /\ MSS \in Int
      BY ScenarioFacts, Sizes
    <3>3. MSS <= sc.capacity
      BY <3>1, <3>2
    <3> QED
      BY <3>1, <3>3
  <2>3. d.free = c.free /\ d.pend = <<>>
    BY <1>2, <1>4
  <2> QED
    BY <2>1, <2>2, <2>3 DEF PlaceInv
<1>7. StaleInv(q, d)
  <2>1. d.rcv = c.rcv /\ d.fin = c.fin /\ d.blocked = c.blocked
    BY <1>4
  <2>2. ~c.blocked => \A e \in c.kept : e.seq > c.rcv
    BY <1>2 DEF StaleInv
  <2>3. c.fin /\ ~c.blocked => d.kept = {}
    <3>1. SUFFICES ASSUME c.fin, ~c.blocked, NEW e \in d.kept PROVE FALSE
      OBVIOUS
    <3>2. c.kept = {} /\ c.rcv = BodyLen + 1
      BY <1>2, <3>1 DEF StaleInv, StreamInv
    <3>3. e.seq > c.rcv /\ e.seq <= m.last
      BY <1>4, <3>2
    <3>4. e.seq \in Nat
      <4>1. d.kept \in KeptSets(m)
        BY <1>4, ClientTypes
      <4>2. e \in KeptPieces(m)
        BY <4>1 DEF KeptSets
      <4> QED
        BY <4>2, Zenon DEF KeptPieces
    <3>5. m.last \in Nat /\ m.last <= BodyLen
      BY Sizes DEF Marks
    <3> QED
      BY <3>2, <3>3, <3>4, <3>5, Sizes
  <2>4. ~c.blocked => \A e \in d.kept : e.seq > c.rcv
    BY <1>4, <2>2
  <2> QED
    BY <2>1, <2>3, <2>4 DEF StaleInv
<1> QED
  BY <1>4, <1>5, <1>6, <1>7, Zenon DEF ClientInv

\* The frame at the head of a queue that still holds a good one.
LEMMA GoodTail ==
    ASSUME NEW m, NEW q \in RxQueues(m), q # <<>>, Head(q).bad, Good(q)
    PROVE  Good(Tail(q))
<1>1. q \in Seq(Frames(m)) /\ Len(q) \in Nat
  BY DEF RxQueues
<1>2. PICK i \in 1..Len(q) : ~q[i].bad
  BY DEF Good
<1>3. Head(q) = q[1] /\ Len(Tail(q)) = Len(q) - 1
      /\ \A j \in 1..Len(q) - 1 : Tail(q)[j] = q[j + 1]
  BY <1>1, HeadTailProperties
<1>4. i # 1
  BY <1>2, <1>3
<1>5. i - 1 \in 1..Len(q) - 1 /\ (i - 1) + 1 = i
  BY <1>1, <1>4
<1>6. ~Tail(q)[i - 1].bad
  BY <1>2, <1>3, <1>5
<1> QED
  BY <1>3, <1>5, <1>6 DEF Good

LEMMA GoodKept ==
    ASSUME NEW m, NEW k \in RxQueues(m), NEW arrived \in RxQueues(m), Good(k)
    PROVE  Good(k \o arrived)
<1>1. k \in Seq(Frames(m)) /\ arrived \in Seq(Frames(m)) /\ Len(k) \in Nat /\ Len(arrived) \in Nat
  BY DEF RxQueues
<1>2. PICK i \in 1..Len(k) : ~k[i].bad
  BY DEF Good
<1>3. Len(k \o arrived) = Len(k) + Len(arrived) /\ (k \o arrived)[i] = k[i]
  BY <1>1
<1>4. i \in 1..Len(k \o arrived)
  BY <1>1, <1>3
<1> QED
  BY <1>2, <1>3, <1>4 DEF Good

\* HandInv of SEND's wait with nothing asked and a queue that holds no less.
LEMMA HandKept ==
    ASSUME NEW c, NEW k, NEW n, HandInv("send", c, k, n), k.tx = <<>>,
           NEW l, l.tx = <<>>, Good(k.rx) => Good(l.rx),
           NEW e, e.clientNext = n.clientNext
    PROVE  HandInv("send", c, l, e)
BY DEF HandInv

LEMMA PollSlowInv ==
    ASSUME NEW m \in Marks, Inv(m), PollSlow
    PROVE  Inv(m)'
<1> DEFINE f == Head(Polled.rx)
           c == Handled(cl, f)
           ready == IF pc = "send" THEN ~f.bad ELSE c.event
           p == IF ready THEN Ended(pc, c) ELSE pc
           u == SendOwedAck(Read(c))
<1>1. /\ Waiting /\ Polled.rx # <<>> /\ Credited /\ cl' = u.cl /\ card' = u.card /\ pc' = p
      /\ UNCHANGED <<sc, caller, app>>
  BY DEF PollSlow, Become
<1>2. f \in Frames(m)
  BY <1>1, PolledFrame
<1>3. /\ sc \in Scenarios /\ app \in Bytes /\ caller \in Callers
      /\ conn \in Conns(m) /\ m.next = conn.next /\ Settled(cl, conn)
      /\ pc \in {"send", "wait"} /\ ClientInv(cl, app, pc, caller, m)
      /\ HandInv(pc, cl, card, conn) /\ cl.pend = <<>>
      /\ card \in Cards(m) /\ card.tx = <<>> /\ Polled \in Cards(m)
      /\ pc = "wait" => cl.free = sc.capacity
  BY <1>1, WaitingFacts
<1>4. /\ conn' \in Conns(m) /\ ServerInv(conn') /\ m.next = conn'.next /\ ~conn'.serving
      /\ conn'.acked = conn.acked /\ conn'.clientWindow = conn.clientWindow
      /\ conn'.clientNext = conn.clientNext
  BY <1>1, PolledFrame
<1>5. PICK k \in Cards(m) : /\ Read(c) = [cl |-> c, card |-> k]
                            /\ k.tx = <<>> /\ k.rx = Tail(Polled.rx)
  BY <1>1, PolledFrame
<1>6. u = SendOwedAck([cl |-> c, card |-> k])
  BY <1>5
<1> HIDE DEF u
<1>7. PICK arrived \in RxQueues(m) : Polled.rx = card.rx \o arrived
  BY <1>1, WaitingFacts
<1> HIDE DEF f
<1>8. ClientInv(c, app, p, caller, m) /\ Settled(c, conn)
  <2>1. CASE f.bad
    <3>1. c = cl
      BY <2>1 DEF Handled
    <3>2. p \in {pc, "return", "check"} /\ (pc = "send" => p = "send")
          /\ (p = "check" => cl.buf = <<>>)
      BY <1>3, <2>1, <3>1 DEF Ended
    <3>3. PlaceInv(p, caller, cl) /\ StaleInv(p, cl)
      <4>1. PlaceInv(pc, caller, cl) /\ StaleInv(pc, cl)
        BY <1>3 DEF ClientInv
      <4>2. MSS <= sc.capacity /\ Len(<<>>) = 0 /\ 0 + MSS = MSS
        BY <1>3, ScenarioFacts, Sizes
      <4>3. cl.buf = <<>> => Len(cl.buf) + MSS <= sc.capacity
        BY <4>2, Zenon
      <4> HIDE DEF p
      <4> QED
        BY <1>3, <3>2, <4>1, <4>3 DEF PlaceInv, StaleInv
    <3> HIDE DEF p, c
    <3> QED
      BY <1>3, <3>1, <3>3, Zenon DEF ClientInv
  <2>2. CASE ~f.bad /\ f.data # <<>> /\ InOrder(cl, f)
    <3>1. c.event
      <4>1. c = Handled(cl, f) /\ cl \in Clients(m)
        BY <1>3 DEF ClientInv
      <4> HIDE DEF c
      <4> QED
        BY <2>2, <4>1, InOrderEvent
    <3>2. /\ p \in {"app", "return", "check"} /\ (pc = "send" => p = "app")
          /\ (pc = "wait" => p # "app") /\ (p = "check" => c.buf = <<>>)
      <4> HIDE DEF c
      <4> QED
        BY <1>3, <2>2, <3>1 DEF Ended
    <3>3. c = Handled(cl, f)
      OBVIOUS
    <3> HIDE DEF p, c
    <3> QED
      BY <1>2, <1>3, <2>2, <3>2, <3>3, InOrderStep
  <2>3. CASE ~f.bad /\ (f.data = <<>> \/ ~InOrder(cl, f))
    <3>1. /\ p \in {"app", "return", "check", "wait"} /\ (pc = "send" => p = "app")
          /\ (pc = "wait" => p # "app") /\ (p = "check" => c.buf = <<>>)
      <4> HIDE DEF c
      <4> QED
        BY <1>3, <2>3 DEF Ended
    <3>2. c = Handled(cl, f)
      OBVIOUS
    <3> HIDE DEF p, c
    <3> QED
      BY <1>2, <1>3, <2>3, <3>1, <3>2, AsideStep
  <2> QED
    BY <2>1, <2>2, <2>3
<1>9. Settled(c, conn') /\ (~c.blocked /\ c.fin => c.kept = {})
  <2> HIDE DEF c
  <2>1. p # "drain"
    BY <1>3 DEF Ended
  <2> HIDE DEF p
  <2> QED
    BY <1>3, <1>4, <1>8, <2>1, Zenon DEF Settled, ClientInv, StaleInv
<1>10. p \in {"send", "app", "wait", "return", "check"} /\ (p = "send" => f.bad /\ pc = "send")
  <2> HIDE DEF c
  <2> QED
    BY <1>3 DEF Ended
<1>11. f.bad => c = cl
  BY DEF Handled
<1> HIDE DEF p, c
<1>12. /\ ClientInv(u.cl, app, p, caller, m)
       /\ u.card \in Cards(m) /\ PromiseInv(u.cl, u.card, conn')
       /\ u.card.tx # <<>> => u.card.tx[1].data = <<>>
       /\ ~c.due => u.cl = c /\ u.card = k
  BY <1>3, <1>4, <1>5, <1>6, <1>8, <1>9, OwedStep
<1>13. HandInv(p, u.cl, u.card, conn')
  <2>1. CASE p = "send"
    <3>1. pc = "send" /\ f.bad /\ c = cl
      BY <1>10, <1>11, <2>1
    <3>2. HandInv("send", cl, card, conn) /\ ~cl.due
      BY <1>3, <3>1, Zenon DEF HandInv, Fresh
    <3>3. u.cl = cl /\ u.card = k
      BY <1>12, <3>1, <3>2
    <3>4. Good(card.rx) => Good(k.rx)
      <4>1. SUFFICES ASSUME Good(card.rx) PROVE Good(k.rx)
        OBVIOUS
      <4>2. Good(card.rx \o arrived)
        BY <1>3, <4>1, CardTypes, GoodKept
      <4>3. Polled.rx \in RxQueues(m) /\ Good(Polled.rx) /\ Head(Polled.rx).bad
        BY <1>3, <1>7, <3>1, <4>2, CardTypes DEF f
      <4> QED
        BY <1>1, <1>5, <4>3, GoodTail
    <3>5. HandInv("send", cl, k, conn')
      BY <1>3, <1>4, <1>5, <3>2, <3>4, HandKept
    <3> QED
      BY <2>1, <3>3, <3>5
  <2>2. CASE p # "send"
    BY <1>10, <1>12, <2>2 DEF HandInv
  <2> QED
    BY <2>1, <2>2
<1>14. p \in Places \ {"open"}
  BY <1>10 DEF Places
<1> QED
  BY <1>1, <1>3, <1>4, <1>12, <1>13, <1>14, NextInv, Zenon

\* The timers and the window of an idle poll, the stream left alone.
LEMMA IdleStep ==
    ASSUME NEW m, sc \in Scenarios, NEW a, NEW from, NEW c, ClientInv(c, a, "wait", from, m),
           NEW n, Settled(c, n),
           NEW d \in Clients(m), SameStream(c, d), d.blocked = c.blocked,
           d.edge = c.edge, d.shut = c.shut, d.wnd = c.wnd,
           d.segments \in 1..sc.target, d.window = d.segments * MSS,
           d.grow \in 1..sc.target + SetupSegments, c.window <= d.window,
           d.pace \in 0..PacePolls, d.hole \in 0..HoleAcks
    PROVE  ClientInv(d, a, "wait", from, m) /\ Settled(d, n)
<1>1. /\ c \in Clients(m) /\ WindowInv(c) /\ BufferInv(c) /\ StreamInv(c, a)
      /\ c.wnd >= 0 /\ PlaceInv("wait", from, c) /\ StaleInv("wait", c)
  BY Zenon DEF ClientInv
<1>2. StreamInv(d, a) /\ PlaceInv("wait", from, d) /\ StaleInv("wait", d)
  BY <1>1, SameInv
<1>3. WindowInv(d)
  <2>1. c.edge - c.rcv <= c.window /\ c.edge \in Int /\ c.rcv \in Nat /\ c.window \in Int
        /\ d.window \in Int
    BY <1>1, ClientTypes DEF WindowInv
  <2>2. \A x, y, z \in Int : x <= y /\ y <= z => x <= z
    OBVIOUS
  <2>3. c.edge - c.rcv \in Int
    BY <2>1
  <2>4. c.edge - c.rcv <= d.window
    BY <2>1, <2>2, <2>3
  <2>5. d.edge - d.rcv <= d.window
    BY <2>4 DEF SameStream
  <2> QED
    BY <1>1, <2>5, Zenon DEF WindowInv
<1>4. BufferInv(d) /\ d.wnd >= 0 /\ Settled(d, n)
  BY <1>1, Zenon DEF BufferInv, SameStream, Settled
<1> QED
  BY <1>2, <1>3, <1>4, Zenon DEF ClientInv

IdleFields(c, d) ==
    /\ SameStream(c, d) /\ d.blocked = c.blocked
    /\ d.edge = c.edge /\ d.shut = c.shut /\ d.wnd = c.wnd

LEMMA IdleOpenStep ==
    ASSUME NEW m \in Marks, sc \in Scenarios, NEW a, NEW from,
           NEW c, ClientInv(c, a, "wait", from, m),
           NEW n \in Conns(m), ~n.serving, ServerInv(n), Settled(c, n),
           NEW k \in Cards(m), k.tx = <<>>, NEW u, u = IdleOpen(c, k)
    PROVE  /\ ClientInv(u.cl, a, "wait", from, m)
           /\ u.card \in Cards(m) /\ PromiseInv(u.cl, u.card, n)
           /\ u.card.tx # <<>> => u.card.tx[1].data = <<>>
<1>1. /\ c \in Clients(m) /\ WindowInv(c) /\ StaleInv("wait", c)
      /\ c.segments \in 1..sc.target /\ c.window = c.segments * MSS
      /\ c.grow \in 1..sc.target + SetupSegments /\ c.pace \in 0..PacePolls
      /\ c.hole \in 0..HoleAcks /\ sc.target \in Nat \ {0} /\ c.window \in Int
      /\ c.window <= c.window
  BY ScenarioFacts, ClientTypes DEF ClientInv, WindowInv
<1>2. ASSUME NEW d, ClientInv(d, a, "wait", from, m), Settled(d, n), u.cl = d, u.card = k
      PROVE  /\ ClientInv(u.cl, a, "wait", from, m)
             /\ u.card \in Cards(m) /\ PromiseInv(u.cl, u.card, n)
             /\ u.card.tx # <<>> => u.card.tx[1].data = <<>>
  <2>1. d \in Clients(m)
    BY <1>2 DEF ClientInv
  <2>2. PromiseInv(d, k, n)
    BY <1>2, <2>1, QuietInv
  <2> QED
    BY <1>2, <2>2
<1>3. ASSUME NEW d, ClientInv(d, a, "wait", from, m), Settled(d, n),
             u = SendOwedAck([cl |-> d, card |-> k])
      PROVE  /\ ClientInv(u.cl, a, "wait", from, m)
             /\ u.card \in Cards(m) /\ PromiseInv(u.cl, u.card, n)
             /\ u.card.tx # <<>> => u.card.tx[1].data = <<>>
  <2>1. ~d.blocked /\ d.fin => d.kept = {}
    BY <1>3 DEF ClientInv, StaleInv
  <2> QED
    BY <1>3, <2>1, OwedStep
<1>4. CASE c.pace = 0
  <2>1. u.cl = c /\ u.card = k
    BY <1>4 DEF IdleOpen
  <2> QED
    BY <1>2, <2>1
<1>5. CASE c.pace > 1
  <2> DEFINE pace == c.pace - 1
             d == [c EXCEPT !.pace = pace]
  <2>1. u.cl = d /\ u.card = k
    BY <1>5 DEF IdleOpen
  <2>2. pace \in 0..PacePolls /\ pace \in Int
    BY <1>1, <1>5 DEF PacePolls
  <2> HIDE DEF pace
  <2>3. d \in Clients(m)
    BY <1>1, <2>2, ZenonT(60) DEF Clients
  <2>4. /\ IdleFields(c, d) /\ d.segments = c.segments /\ d.window = c.window
        /\ d.grow = c.grow /\ d.pace = pace /\ d.hole = c.hole
    BY <1>1, ZenonT(60) DEF Clients, SameStream, IdleFields
  <2> HIDE DEF d
  <2>5. ClientInv(d, a, "wait", from, m) /\ Settled(d, n)
    BY <1>1, <2>2, <2>3, <2>4, IdleStep DEF IdleFields
  <2> QED
    BY <1>2, <2>1, <2>5
<1>6. CASE ~(c.pace = 0) /\ ~(c.pace > 1) /\ c.kept # {} /\ c.hole > 0
  <2> DEFINE hole == c.hole - 1
             d == [c EXCEPT !.due = TRUE, !.pace = PacePolls, !.hole = hole]
  <2>1. u = SendOwedAck([cl |-> d, card |-> k])
    BY <1>6 DEF IdleOpen
  <2>2. hole \in 0..HoleAcks /\ hole \in Int /\ PacePolls \in Int /\ TRUE \in BOOLEAN
        /\ PacePolls \in 0..PacePolls
    BY <1>1, <1>6 DEF HoleAcks, PacePolls
  <2> HIDE DEF hole
  <2>3. d \in Clients(m)
    BY <1>1, <2>2, ZenonT(60) DEF Clients
  <2>4. /\ IdleFields(c, d) /\ d.segments = c.segments /\ d.window = c.window
        /\ d.grow = c.grow /\ d.pace = PacePolls /\ d.hole = hole
    BY <1>1, ZenonT(60) DEF Clients, SameStream, IdleFields
  <2> HIDE DEF d
  <2>5. ClientInv(d, a, "wait", from, m) /\ Settled(d, n)
    BY <1>1, <2>2, <2>3, <2>4, IdleStep DEF IdleFields
  <2> QED
    BY <1>3, <2>1, <2>5
<1>7. CASE /\ ~(c.pace = 0) /\ ~(c.pace > 1) /\ ~(c.kept # {} /\ c.hole > 0)
           /\ c.kept = {} /\ c.segments < sc.target
  <2> DEFINE segments == c.segments + 1
             window == c.window + MSS
             grow == c.segments + 2
             d == [c EXCEPT !.due = TRUE, !.pace = PacePolls, !.segments = segments,
                            !.window = window, !.grow = grow]
  <2>1. u = SendOwedAck([cl |-> d, card |-> k])
    BY <1>7 DEF IdleOpen
  <2>2. /\ segments \in 1..sc.target /\ segments \in Int /\ grow \in Int
        /\ grow \in 1..sc.target + SetupSegments
        /\ PacePolls \in Int /\ TRUE \in BOOLEAN /\ PacePolls \in 0..PacePolls
    BY <1>1, <1>7 DEF SetupSegments, PacePolls
  <2>3. window \in Int /\ c.window <= window /\ window = segments * MSS
    <3>1. window \in Int /\ c.window <= window
      BY <1>1, Sizes
    <3>2. c.segments \in Int /\ MSS \in Int
      BY <1>1, Sizes
    <3>3. (c.segments + 1) * MSS = c.segments * MSS + MSS
      BY <3>2
    <3> QED
      BY <1>1, <3>1, <3>3
  <2> HIDE DEF segments, window, grow
  <2>4. d \in Clients(m)
    BY <1>1, <2>2, <2>3, ZenonT(60) DEF Clients
  <2>5. /\ IdleFields(c, d) /\ d.segments = segments /\ d.window = window
        /\ d.grow = grow /\ d.pace = PacePolls /\ d.hole = c.hole
    BY <1>1, ZenonT(60) DEF Clients, SameStream, IdleFields
  <2> HIDE DEF d
  <2>6. ClientInv(d, a, "wait", from, m) /\ Settled(d, n)
    BY <1>1, <2>2, <2>3, <2>4, <2>5, IdleStep DEF IdleFields
  <2> QED
    BY <1>3, <2>1, <2>6
<1>8. CASE /\ ~(c.pace = 0) /\ ~(c.pace > 1) /\ ~(c.kept # {} /\ c.hole > 0)
           /\ ~(c.kept = {} /\ c.segments < sc.target)
  <2> DEFINE d == [c EXCEPT !.pace = 0]
  <2>1. u.cl = d /\ u.card = k
    BY <1>8 DEF IdleOpen
  <2>2. 0 \in 0..PacePolls /\ 0 \in Int
    BY DEF PacePolls
  <2>3. d \in Clients(m)
    BY <1>1, <2>2, ZenonT(60) DEF Clients
  <2>4. /\ IdleFields(c, d) /\ d.segments = c.segments /\ d.window = c.window
        /\ d.grow = c.grow /\ d.pace = 0 /\ d.hole = c.hole
    BY <1>1, ZenonT(60) DEF Clients, SameStream, IdleFields
  <2> HIDE DEF d
  <2>5. ClientInv(d, a, "wait", from, m) /\ Settled(d, n)
    BY <1>1, <2>2, <2>3, <2>4, IdleStep DEF IdleFields
  <2> QED
    BY <1>2, <2>1, <2>5
<1> QED
  BY <1>4, <1>5, <1>6, <1>7, <1>8

LEMMA PollIdleInv ==
    ASSUME NEW m \in Marks, Inv(m), PollIdle
    PROVE  Inv(m)'
<1>1. Waiting /\ UNCHANGED <<sc, caller, conn, app>>
  BY DEF PollIdle
<1>2. /\ sc \in Scenarios /\ app \in Bytes /\ caller \in Callers
      /\ conn \in Conns(m) /\ m.next = conn.next /\ Settled(cl, conn)
      /\ ServerInv(conn) /\ ~conn.serving
      /\ pc \in {"send", "wait"} /\ ClientInv(cl, app, pc, caller, m)
      /\ HandInv(pc, cl, card, conn) /\ cl.pend = <<>>
      /\ card \in Cards(m) /\ card.tx = <<>> /\ Polled \in Cards(m) /\ Polled.tx = <<>>
      /\ (pc = "wait" => cl.free = sc.capacity) /\ (pc = "send" => cl.buf = <<>>)
  BY <1>1, WaitingFacts
<1>3. cl \in Clients(m)
  BY <1>2 DEF ClientInv
<1>4. CASE cl.buf # <<>>
  <2>1. pc' = "return" /\ card' = Polled /\ cl' = cl
    BY <1>4 DEF PollIdle
  <2>2. pc = "wait"
    BY <1>2, <1>4
  <2>3. ClientInv(cl, app, "return", caller, m)
    <3>1. PlaceInv("return", caller, cl)
      BY <1>2, <2>2 DEF PlaceInv
    <3>2. StaleInv("return", cl)
      BY <1>2, <2>2 DEF ClientInv, StaleInv
    <3> QED
      BY <1>2, <3>1, <3>2, Zenon DEF ClientInv
  <2>4. PromiseInv(cl, Polled, conn) /\ HandInv("return", cl, Polled, conn)
    BY <1>2, <1>3, QuietInv
  <2>5. "return" \in Places \ {"open"}
    BY DEF Places
  <2> QED
    BY <1>1, <1>2, <2>1, <2>3, <2>4, <2>5, NextInv, Zenon
<1>5. CASE cl.buf = <<>>
  <2> DEFINE u == IdleOpen(cl, Polled)
  <2>1. pc' = pc /\ cl' = u.cl /\ card' = u.card
    BY <1>5 DEF PollIdle, Become
  <2>2. pc \in Places \ {"open"}
    BY <1>2 DEF Places
  <2>3. CASE pc = "send"
    <3>1. cl.pace = 0
      BY <1>2, <2>3, Zenon DEF HandInv, Fresh
    <3>2. u.cl = cl /\ u.card = Polled
      BY <3>1 DEF IdleOpen
    <3>3. PICK arrived \in RxQueues(m) : Polled.rx = card.rx \o arrived
      BY <1>1, WaitingFacts
    <3>4. Good(card.rx) => Good(Polled.rx)
      BY <1>2, <3>3, CardTypes, GoodKept
    <3>5. HandInv("send", cl, Polled, conn)
      BY <1>2, <2>3, <3>4, HandKept
    <3>6. PromiseInv(cl, Polled, conn)
      <4>1. "app" \notin {"request", "send"}
        OBVIOUS
      <4> QED
        BY <1>2, <1>3, <4>1, QuietInv
    <3> HIDE DEF u
    <3> QED
      BY <1>1, <1>2, <2>1, <2>2, <2>3, <3>2, <3>5, <3>6, NextInv, Zenon
  <2>4. CASE pc = "wait"
    <3>1. u = IdleOpen(cl, Polled)
      OBVIOUS
    <3> HIDE DEF u
    <3>2. /\ ClientInv(u.cl, app, "wait", caller, m)
          /\ u.card \in Cards(m) /\ PromiseInv(u.cl, u.card, conn)
          /\ u.card.tx # <<>> => u.card.tx[1].data = <<>>
      BY <1>2, <2>4, <3>1, IdleOpenStep
    <3>3. HandInv("wait", u.cl, u.card, conn)
      BY <3>2 DEF HandInv
    <3> QED
      BY <1>1, <1>2, <2>1, <2>2, <2>4, <3>2, <3>3, NextInv, Zenon
  <2> QED
    BY <1>2, <2>3, <2>4
<1> QED
  BY <1>4, <1>5
----------------------------------------------------------------------------
(***************************************************************************)
(* The invariant, and what it says.                                        *)
(***************************************************************************)
LEMMA InitInv ==
    ASSUME Narrow, Init
    PROVE  IInv
<1> DEFINE m == [next |-> 0, last |-> 0]
           start == Smaller(sc.target, InitialSegments)
<1>1. /\ sc \in Scenarios /\ pc = "open" /\ caller = "check" /\ app = <<>>
      /\ cl = Client(start) /\ card = NewCard /\ conn = NewConn(0)
  BY DEF Init
<1>2. m \in Marks
  BY Sizes DEF Marks
<1>3. /\ m.next = 0 /\ sc.target \in Nat \ {0} /\ start \in 1..3 /\ start <= sc.target
  BY <1>1, ScenarioFacts, StartFacts
<1> HIDE DEF m, start
<1>4. /\ <<>> \in Bytes /\ Len(<<>>) = 0 /\ {} \in KeptSets(m) /\ {} \in SentSets(m)
      /\ {} \in SeqSets /\ <<>> \in RxQueues(m) /\ <<>> \in LateQueues(m)
      /\ <<>> \in TxQueues /\ \A a \in Int : Run(<<>>, a)
  BY RunOfNothing DEF KeptSets, SentSets, SeqSets, RxQueues, LateQueues, TxQueues
<1>5. card \in Cards(m)
  BY <1>1, <1>4 DEF NewCard, Cards
<1>6. conn \in Conns(m)
  BY <1>1, <1>4 DEF NewConn, Conns, None
<1>7. ServerInv(conn)
  BY <1>1, <1>4 DEF NewConn, ServerInv, QueueInv, Paid
<1>8. /\ cl.rcv = 0 /\ cl.fin = FALSE /\ cl.off = 0 /\ cl.pend = <<>> /\ cl.free = 0
      /\ cl.buf = <<>> /\ cl.kept = {} /\ cl.blocked = FALSE /\ cl.edge = -MSS
      /\ cl.window = start * MSS /\ cl.grow = start + 3 /\ cl.segments = start
      /\ cl.pace = 0 /\ cl.hole = 0 /\ cl.due = FALSE /\ cl.event = FALSE
      /\ cl.shut = FALSE /\ cl.wnd = 0
  BY <1>1 DEF Client, SetupSegments
<1>9. cl \in Clients(m)
  <2>1. start * MSS \in Int /\ -MSS \in Int /\ start + 3 \in Int /\ start \in Int
    BY <1>3, Sizes
  <2>2. cl = Client(start) /\ start + SetupSegments = start + 3
    BY <1>1 DEF SetupSegments
  <2>3. Client(start) \in Clients(m)
    BY <1>4, <2>1, <2>2 DEF Client, Clients
  <2> QED
    BY <2>2, <2>3
<1>10. WindowInv(cl)
  <2>4. 2 * (sc.target * MSS) < Word
    <3>1. sc.target \in Targets
      BY <1>1 DEF Scenarios
    <3> QED
      BY <3>1 DEF Narrow
  <2>1. -MSS - 0 <= start * MSS
    <3>1. start * MSS \in Nat
      BY <1>3, Sizes, ThreeSegments
    <3> QED
      BY <3>1, Sizes
  <2>2. start \in 1..sc.target /\ start + 3 \in 1..sc.target + SetupSegments
    BY <1>3 DEF SetupSegments
  <2>3. 0 \in 0..PacePolls /\ 0 \in 0..HoleAcks
    BY DEF PacePolls, HoleAcks
  <2> QED
    BY <1>8, <2>1, <2>2, <2>3, <2>4, Zenon DEF WindowInv
<1>11. BufferInv(cl)
  <2>1. IsFiniteSet({}) /\ Cardinality({}) = 0
    BY FS_EmptySet
  <2> QED
    BY <1>4, <1>8, <2>1, Sizes DEF BufferInv, Slots
<1>12. StreamInv(cl, app)
  <2>1. 0 \in Int /\ Run(<<>>, 0) /\ 0 + 0 = 0 /\ 0 + 0 + 0 = 0 - 0 /\ 0 - 0 <= BodyLen
    BY <1>4, Sizes
  <2>2. /\ app = <<>> /\ cl.buf = <<>> /\ cl.pend = <<>> /\ Len(<<>>) = 0 /\ ~cl.fin
        /\ cl.rcv = 0
    BY <1>1, <1>4, <1>8
  <2>3. Received(cl) = 0 - 0
    BY <2>2 DEF Received
  <2> QED
    BY <2>1, <2>2, <2>3, Zenon DEF StreamInv
<1>13. PlaceInv("open", "check", cl) /\ StaleInv("open", cl)
  BY <1>8 DEF PlaceInv, StaleInv
<1>14. cl.wnd >= 0
  BY <1>8
<1>15. ClientInv(cl, app, pc, caller, m)
  BY <1>1, <1>9, <1>10, <1>11, <1>12, <1>13, <1>14, Zenon DEF ClientInv
<1>16. conn.next = 0
  BY <1>1 DEF NewConn
<1>17. pc \in Places /\ caller \in Callers /\ app \in Bytes
  BY <1>1, <1>4 DEF Places, Callers
<1>18. Inv(m)
  BY <1>1, <1>3, <1>5, <1>6, <1>7, <1>15, <1>16, <1>17 DEF Inv, start
<1> QED
  BY <1>2, <1>18 DEF IInv

LEMMA StutterInv ==
    ASSUME NEW m \in Marks, Inv(m), UNCHANGED vars
    PROVE  Inv(m)'
<1>1. /\ sc' = sc /\ pc' = pc /\ caller' = caller /\ cl' = cl /\ card' = card
      /\ conn' = conn /\ app' = app
  BY DEF vars
<1>2. ServerInv(conn)' /\ ClientInv(cl, app, pc, caller, m)'
  BY <1>1, OpenInv, Zenon DEF ServerInv, QueueInv, ClientInv, WindowInv, BufferInv, PlaceInv
<1>3. pc # "open" => PromiseInv(cl, card, conn)' /\ HandInv(pc, cl, card, conn)'
  BY <1>1, OpenInv, Zenon DEF HandInv, Fresh
<1> QED
  BY <1>1, <1>2, <1>3, OpenInv, Zenon DEF Inv

LEMMA StepInv ==
    ASSUME IInv, [Next]_vars
    PROVE  IInv'
<1>1. PICK m \in Marks : Inv(m)
  BY DEF IInv
<1>2. SUFFICES \E l \in Marks : Inv(l)'
  BY DEF IInv
<1>3. CASE Serve
  BY <1>1, <1>3, ServeInv
<1>4. ASSUME ~Serve PROVE Inv(m)'
  <2>1. CASE Open
    BY <1>1, <2>1, OpenStepInv
  <2>2. CASE SendGet
    BY <1>1, <2>2, SendGetInv
  <2>3. CASE Answer
    BY <1>1, <2>3, AnswerInv
  <2>4. CASE Recv
    BY <1>1, <2>4, RecvInv
  <2>5. CASE BodyComplete
    BY <1>1, <2>5, BodyCompleteInv
  <2>6. CASE CheckPending
    BY <1>1, <2>6, CheckPendingInv
  <2>7. CASE CheckKept
    BY <1>1, <2>7, CheckKeptInv
  <2>8. CASE DrainTake
    BY <1>1, <2>8, DrainTakeInv
  <2>9. CASE DrainBlocked
    BY <1>1, <2>9, DrainBlockedInv
  <2>10. CASE DrainEnds
    BY <1>1, <2>10, DrainEndsInv
  <2>11. CASE CopyPending
    BY <1>1, <2>11, CopyPendingInv
  <2>12. CASE RecvReturn
    BY <1>1, <2>12, RecvReturnInv
  <2>13. CASE PollDirect
    BY <1>1, <2>13, PollDirectInv
  <2>14. CASE PollAhead
    BY <1>1, <2>14, PollAheadInv
  <2>15. CASE PollSlow
    BY <1>1, <2>15, PollSlowInv
  <2>16. CASE PollIdle
    BY <1>1, <2>16, PollIdleInv
  <2>17. CASE SendTimeout
    BY <1>1, <2>17, SendTimeoutInv
  <2>18. CASE RecvTimeout
    BY <1>1, <2>18, RecvTimeoutInv
  <2>19. CASE UNCHANGED vars
    BY <1>1, <2>19, StutterInv
  <2> QED
    BY <1>4, <2>1, <2>2, <2>3, <2>4, <2>5, <2>6, <2>7, <2>8, <2>9, <2>10, <2>11, <2>12,
       <2>13, <2>14, <2>15, <2>16, <2>17, <2>18, <2>19 DEF Next
<1> QED
  BY <1>1, <1>3, <1>4

\* The invariant holds for every segment size, body, buffer size, delay and loss, and
\* for every window target below half of what sixteen bits count: OOO_STORE, OOO_DRAIN,
\* SEND_SEGMENT, IDLE_OPEN and the server's answers keep the promised edge, the stream,
\* the queue and the burst in step.
THEOREM Invariant ==
    ASSUME Narrow
    PROVE  Spec => []IInv
<1>1. Init => IInv
  BY InitInv
<1>2. IInv /\ [Next]_vars => IInv'
  BY StepInv
<1> QED
  BY <1>1, <1>2, PTL DEF Spec

LEMMA InvTypes ==
    ASSUME NEW m \in Marks, Inv(m)
    PROVE  TypeOK
<1>1. /\ sc \in Scenarios /\ pc \in Places /\ conn \in Conns(m) /\ ServerInv(conn)
      /\ cl \in Clients(m) /\ WindowInv(cl) /\ BufferInv(cl) /\ StreamInv(cl, app)
      /\ cl.wnd >= 0
  BY OpenInv DEF ClientInv
<1>2. sc.target \in Nat \ {0} /\ sc.capacity \in Nat
  BY <1>1, ScenarioFacts
<1>3. pc \in {"open", "request", "send", "app", "check", "copy", "wait",
              "drain", "return", "done", "failed"}
  BY <1>1 DEF Places
<1>4. cl.rcv \in 0..BodyLen + 1
  <2>1. cl.rcv \in Nat /\ cl.fin \in BOOLEAN
    BY <1>1, ClientTypes
  <2>2. CASE cl.fin
    <3>1. cl.rcv = BodyLen + 1
      BY <1>1, <2>2 DEF StreamInv
    <3> QED
      BY <3>1, Sizes
  <2>3. CASE ~cl.fin
    <3>1. cl.rcv - 0 <= BodyLen
      BY <1>1, <2>3, Zenon DEF StreamInv, Received
    <3> QED
      BY <2>1, <3>1, Sizes
  <2> QED
    BY <2>1, <2>2, <2>3
<1>5. Free(cl) \in 0..PendingCapacity
  <2>1. /\ Free(cl) = 2 * MSS - 0 - Len(cl.pend) /\ Len(cl.pend) <= MSS
        /\ Len(cl.pend) \in Nat /\ PendingCapacity = 2 * MSS
    BY <1>1, ClientTypes DEF Free, PendingCapacity, BufferInv
  <2>2. \A s, x \in Nat : x <= s => 2 * s - 0 - x \in 0..2 * s
    OBVIOUS
  <2>3. 2 * MSS - 0 - Len(cl.pend) \in 0..2 * MSS
    BY <2>1, <2>2, Sizes
  <2> QED
    BY <2>1, <2>3, Zenon
<1>6. Len(cl.buf) <= sc.capacity
  <2>1. Len(cl.buf) \in Nat /\ Len(cl.buf) <= cl.free /\ cl.free \in {0, sc.capacity}
    BY <1>1, ClientTypes DEF BufferInv
  <2>2. \A x, z \in Nat : \A y \in {0, z} : x <= y => x <= z
    OBVIOUS
  <2> QED
    BY <1>2, <2>1, <2>2, Zenon
<1>7. cl.segments \in 1..Larger(sc.target, 3)
  <2>1. cl.segments \in 1..sc.target
    BY <1>1 DEF WindowInv
  <2> QED
    BY <1>2, <2>1 DEF Larger
<1> QED
  BY <1>1, <1>3, <1>4, <1>5, <1>6, <1>7
     DEF TypeOK, WindowInv, BufferInv, ServerInv, QueueInv

\* The receiver's counters stay in range for every narrow target, the pending region
\* never overflows, and the queue never holds more than its page.
THEOREM TypeCorrect ==
    ASSUME Narrow
    PROVE  Spec => []TypeOK
<1>1. IInv => TypeOK
  BY InvTypes DEF IInv
<1> QED
  BY <1>1, Invariant, PTL

\* A run from the first byte is a beginning of the body.
LEMMA RunIsBody ==
    ASSUME NEW s \in Bytes, Run(s, 0), Len(s) <= BodyLen
    PROVE  s = SubSeq(Body, 1, Len(s))
<1>1. s \in Seq(Int) /\ Len(s) \in Nat /\ Body \in Bytes /\ Body \in Seq(Int)
  BY RunOfBody DEF Bytes
<1>2. /\ SubSeq(Body, 1, Len(s)) \in Bytes /\ Len(SubSeq(Body, 1, Len(s))) = Len(s)
      /\ Run(SubSeq(Body, 1, Len(s)), 0)
  <2>1. Len(s) <= Len(Body) /\ 0 \in Nat
    BY RunOfBody
  <2> QED
    BY <1>1, <2>1, RunOfBody, RunSplit
<1> DEFINE t == SubSeq(Body, 1, Len(s))
<1>3. t \in Seq(Int) /\ Len(t) = Len(s) /\ Run(t, 0)
  BY <1>2 DEF Bytes
<1> HIDE DEF t
<1>4. \A i \in 1..Len(s) : s[i] = t[i]
  BY <1>3 DEF Run
<1>5. s = t
  BY <1>1, <1>3, <1>4, SeqEqual
<1> QED
  BY <1>5 DEF t

LEMMA InvStream ==
    ASSUME NEW m \in Marks, Inv(m)
    PROVE  StreamIntact
<1>1. /\ cl \in Clients(m) /\ StreamInv(cl, app) /\ app \in Bytes
  BY OpenInv DEF ClientInv
<1>2. /\ cl.buf \in Bytes /\ cl.pend \in Bytes /\ Len(app) \in Nat /\ Len(cl.buf) \in Nat
      /\ Run(app, 0) /\ Run(cl.buf, Len(app)) /\ Run(cl.pend, Len(app) + Len(cl.buf))
      /\ Len(app) + Len(cl.buf) + Len(cl.pend) = Received(cl) /\ Received(cl) <= BodyLen
  <2>1. cl.buf \in Bytes /\ cl.pend \in Bytes /\ Len(cl.buf) \in Nat
    BY <1>1, ClientTypes
  <2>2. Len(app) \in Nat
    BY <1>1 DEF Bytes
  <2> QED
    BY <1>1, <2>1, <2>2, Zenon DEF StreamInv
<1> DEFINE x == app \o cl.buf
           y == x \o cl.pend
<1>3. x \in Bytes /\ Len(x) = Len(app) + Len(cl.buf) /\ Run(x, 0)
  <2>1. 0 \in Int /\ Run(cl.buf, 0 + Len(app))
    BY <1>2
  <2> QED
    BY <1>1, <1>2, <2>1, RunConcat
<1> HIDE DEF x
<1>4. y \in Bytes /\ Len(y) = Len(x) + Len(cl.pend) /\ Run(y, 0)
  <2>1. 0 \in Int /\ Run(cl.pend, 0 + Len(x))
    BY <1>2, <1>3
  <2> QED
    BY <1>2, <1>3, <2>1, RunConcat
<1> HIDE DEF y
<1>5. Len(y) = Received(cl)
  BY <1>2, <1>3, <1>4
<1>6. y = SubSeq(Body, 1, Len(y))
  BY <1>2, <1>4, <1>5, RunIsBody
<1> QED
  BY <1>5, <1>6 DEF StreamIntact, Received, x, y

\* What RECV has returned, copied and keeps pending is, byte for byte, the beginning of
\* the body up to RCV.NXT, whatever is lost, repeated, damaged or delayed on the way.
THEOREM StreamDelivered ==
    ASSUME Narrow
    PROVE  Spec => []StreamIntact
<1>1. IInv => StreamIntact
  BY InvStream DEF IInv
<1> QED
  BY <1>1, Invariant, PTL

\* No single ACK makes the server send more frames than the card's FIFO holds: the edge
\* moves by at most two segments, and the request opens at most three.
THEOREM BurstFits ==
    ASSUME Narrow
    PROVE  Spec => []BurstFitsCard
<1>1. ASSUME NEW m \in Marks, Inv(m) PROVE BurstFitsCard
  <2>1. card.burst \in 0..3
    BY <1>1, OpenInv, CardTypes
  <2> QED
    BY <2>1 DEF BurstFitsCard
<1>2. IInv => BurstFitsCard
  BY <1>1 DEF IInv
<1> QED
  BY <1>2, Invariant, PTL

\* The promise of one step.
LEMMA StepEdge ==
    ASSUME IInv, [Next]_vars, pc # "open"
    PROVE  conn'.acked + conn'.clientWindow >= conn.acked + conn.clientWindow
<1>1. PICK m \in Marks : Inv(m)
  BY DEF IInv
<1>2. conn.acked + conn.clientWindow \in Int
  BY <1>1, OpenInv, ConnTypes
<1>3. CASE Answer
  <2>1. conn.acked + conn.clientWindow <= conn'.acked + conn'.clientWindow
    BY <1>1, <1>3, AnswerInv
  <2> QED
    BY <2>1
<1>4. CASE conn'.acked = conn.acked /\ conn'.clientWindow = conn.clientWindow
  BY <1>2, <1>4
<1>5. ASSUME ~Answer PROVE conn'.acked = conn.acked /\ conn'.clientWindow = conn.clientWindow
  <2>1. CASE Serve
    BY <1>1, <2>1, ServeInv
  <2>2. CASE PollDirect \/ PollAhead \/ PollSlow
    <3>1. Waiting /\ Polled.rx # <<>> /\ Credited
      BY <2>2 DEF PollDirect, PollAhead, PollSlow, SessionFast
    <3> QED
      BY <1>1, <3>1, PolledFrame
  <2>3. CASE conn' = conn
    BY <2>3
  <2>4. Serve \/ PollDirect \/ PollAhead \/ PollSlow \/ conn' = conn
    <3>1. ~Open
      BY DEF Open, At
    <3>2. CASE UNCHANGED vars
      BY <3>2 DEF vars
    <3>3. CASE SendGet \/ Recv \/ BodyComplete \/ CheckPending \/ CheckKept
      BY <3>3 DEF SendGet, Recv, BodyComplete, CheckPending, CheckKept
    <3>4. CASE DrainTake \/ DrainBlocked \/ DrainEnds
      BY <3>4 DEF DrainTake, DrainBlocked, DrainEnds, Drained
    <3>5. CASE CopyPending \/ RecvReturn \/ PollIdle \/ SendTimeout \/ RecvTimeout
      BY <3>5 DEF CopyPending, RecvReturn, PollIdle, SendTimeout, RecvTimeout
    <3> QED
      BY <1>5, <3>1, <3>2, <3>3, <3>4, <3>5 DEF Next
  <2> QED
    BY <2>1, <2>2, <2>3, <2>4
<1> QED
  BY <1>3, <1>4, <1>5

\* The right edge the server has been promised never moves left, in no step and for no
\* target below half of sixteen bits: not when a filled hole restarts the window, not at
\* the end of a call. (Targets above it break this: the low words wrap.)
THEOREM EdgeStays ==
    ASSUME Narrow
    PROVE  Spec => EdgeNeverMovesLeft
<1>1. IInv /\ [Next]_vars =>
          [pc # "open" => conn'.acked + conn'.clientWindow
                          >= conn.acked + conn.clientWindow]_vars
  BY StepEdge
<1> QED
  BY <1>1, Invariant, PTL DEF Spec, EdgeNeverMovesLeft

=============================================================================
