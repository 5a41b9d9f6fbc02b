--------------------------- MODULE DirectDownload ---------------------------
(***************************************************************************)
(* A download over a path that loses segments: the receiver of             *)
(* DLDIRECT.EXE (TCPX.RECV with direct delivery, the out-of-order queue of *)
(* OOO_STORE and OOO_DRAIN, the paced right edge of SEND_SEGMENT and the   *)
(* idle loop's IDLE_OPEN) against the harness's loss-recovering server.    *)
(*                                                                         *)
(* The body is 1..BodyLen, a byte is its position.  The two sides are one  *)
(* thread: a segment the client sends is answered before the card returns  *)
(* to it, and nothing moves between two polls of the card.                 *)
(***************************************************************************)
EXTENDS HarnessPeer

CONSTANTS
    MSS,              \* TCP_MSS, and the largest segment the server sends
    Word,             \* 2^16, on the scale of MSS
    BodyLen,          \* bound: bytes of the response
    Targets,          \* TCP_DIRECT_WINDOW_SEGMENTS or -w
    Capacities,       \* sizes of the RECV buffer
    Delays,           \* tcp.dataDelayPolls
    LossSets,         \* tcp.loseDataSegments
    Twice,            \* tcp.duplicateData
    Damaged,          \* tcp.corruptDataOnce
    Pages             \* whether DSS gave a page for the out-of-order queue

InitialSegments == 3
SetupSegments   == 3
EdgeStep        == 2 * MSS
PacePolls       == 4
HoleAcks        == 8
PendingCapacity == 2 * MSS
Slots           == 11
Reach           == Slots * MSS + 1      \* a page: the slots and a rest

ASSUME ConstAssumption ==
    /\ MSS \in Nat \ {0} /\ BodyLen \in Nat \ {0} /\ Targets \subseteq Nat \ {0}
    /\ Word \in Nat /\ 4 * MSS <= Word /\ \A t \in Targets : t * MSS < Word
    /\ \A c \in Capacities : c \in Nat /\ c >= MSS
    /\ Delays \subseteq Nat /\ \A l \in LossSets : l \subseteq Nat \ {0}
    /\ Twice \subseteq BOOLEAN /\ Damaged \subseteq BOOLEAN /\ Pages \subseteq BOOLEAN

VARIABLES
    sc,       \* the scenario of this run: window target, RECV capacity, server options
    pc,       \* where the client is: open, request, send, app, check, copy, wait, drain,
              \* return, done, failed
    caller,   \* where OOO_DRAIN returns to: check, send, wait
    cl,       \* the receiver, see Client
    card, conn,
    app       \* what RECV has returned so far

vars == <<sc, pc, caller, cl, card, conn, app>>

\* One thread: the client goes on once its segment has been answered in full.
At(label) == pc = label /\ card.tx = <<>> /\ ~conn.serving

Body == [i \in 1..BodyLen |-> i]

Scenarios ==
    {[target |-> t, capacity |-> c, page |-> g,
      o |-> [mss |-> MSS, delay |-> d, lose |-> l, duplicate |-> w, corruptOnce |-> b,
             finWhenDrained |-> TRUE, response |-> Body]] :
        t \in Targets, c \in Capacities, g \in Pages, d \in Delays, l \in LossSets,
        w \in Twice, b \in Damaged}

\* RCV.NXT, REMOTE_FIN, the pending region, the caller's buffer; the kept segments
\* and OOO_BLOCKED; EDGE, WINDOW and GROW (countdown and window in segments), PACE
\* and HOLE; the ACKs due, the events seen, the latch of a shut window.
Client(start) ==
    [rcv |-> 0, fin |-> FALSE, off |-> 0, pend |-> <<>>, free |-> 0, buf |-> <<>>,
     kept |-> {}, blocked |-> FALSE, edge |-> -MSS, window |-> start * MSS,
     grow |-> start + SetupSegments, segments |-> start, pace |-> 0, hole |-> 0,
     due |-> FALSE, event |-> FALSE, shut |-> FALSE, wnd |-> 0]

----------------------------------------------------------------------------
\* The window a segment advertises.

Free(c) == PendingCapacity - c.off - Len(c.pend)

\* Mutant: growth past the target.
GrownPastTarget(c) ==
    IF c.grow > 1 THEN [c EXCEPT !.grow = @ - 1]
    ELSE [c EXCEPT !.segments = @ + 1, !.window = @ + MSS, !.grow = c.segments + 1]

\* One growth step per window of segments sent.
Grown(c) ==
    IF c.grow > 1 THEN [c EXCEPT !.grow = @ - 1]
    ELSE IF c.segments < sc.target
    THEN [c EXCEPT !.segments = @ + 1, !.window = @ + MSS, !.grow = c.segments + 1]
    ELSE [c EXCEPT !.grow = c.segments]

\* Offsets are whole here; the code computes with the low words of EDGE and RCV.NXT.
Low(n) == n % Word

\* Mutant: the window goes on growing inside a hole.
AdvertisedInHole(c) ==
    IF Free(c) < MSS THEN [c EXCEPT !.shut = TRUE, !.wnd = 0]
    ELSE LET g == Grown(c)
             w == Smaller(Low(g.edge - g.rcv + EdgeStep), g.window)
         IN [g EXCEPT !.shut = FALSE, !.wnd = w, !.edge = g.rcv + w]

\* The right edge moves at most EdgeStep, and not at all while a hole is open.
Advertised(c) ==
    IF Free(c) < MSS THEN [c EXCEPT !.shut = TRUE, !.wnd = 0]
    ELSE IF c.kept # {} THEN
        LET w == Low(c.edge - c.rcv)
        IN [c EXCEPT !.shut = FALSE, !.wnd = w, !.edge = c.rcv + w]
    ELSE LET g == Grown(c)
             w == Smaller(Low(g.edge - g.rcv + EdgeStep), g.window)
         IN [g EXCEPT !.shut = FALSE, !.wnd = w, !.edge = g.rcv + w]

Segment(c, seq, data) ==
    [seq |-> seq, data |-> data, ack |-> c.rcv, window |-> c.wnd, fin |-> FALSE]

\* t is the joint state [cl, card] inside one step of the client.
Send(t, seq, data) ==
    LET c == Advertised(t.cl)
    IN [cl |-> c, card |-> [t.card EXCEPT !.tx = <<Segment(c, seq, data)>>]]

Request == <<"GET">>
SendRequest(t) == Send(t, 0, Request)

\* SEND_OWED_ACK: nothing while the queue waits for room.
SendOwedAck(t) ==
    IF t.cl.blocked \/ ~t.cl.due THEN t ELSE Send([t EXCEPT !.cl.due = FALSE], 1, <<>>)

Become(s) == \E t \in {s} : cl' = t.cl /\ card' = t.card

Init ==
    /\ sc \in Scenarios
    /\ pc = "open" /\ caller = "check" /\ app = <<>>
    /\ cl = Client(Smaller(sc.target, InitialSegments))
    /\ card = NewCard /\ conn = NewConn(0)

\* OPEN: the SYN counts a segment; the SYN|ACK seeds the edge one MSS behind RCV.NXT.
Open ==
    /\ At("open")
    /\ LET syn == Advertised(cl)
       IN /\ conn' = NewConn(syn.wnd)
          /\ Become(Send([cl |-> [syn EXCEPT !.edge = -MSS], card |-> card], 0, <<>>))
    /\ pc' = "request"
    /\ UNCHANGED <<sc, caller, app>>

\* SEND: the request goes out, then WAIT_FOR_EVENT.
SendGet ==
    /\ At("request")
    /\ Become(SendRequest([cl |-> cl, card |-> card]))
    /\ pc' = "send"
    /\ UNCHANGED <<sc, caller, conn, app>>

\* The server's side of a transmission: the acknowledgement and the window are taken and
\* the segment is answered, then one data segment after the other.
Answered(s) == card' = s.card /\ conn' = s.conn
Answer ==
    /\ card.tx # <<>>
    /\ \E seg \in {Head(card.tx)} :
       \E a \in {Acknowledge([card EXCEPT !.tx = <<>>], conn, seg, sc.o)} :
          \E s \in {Respond(a.card, a.conn, seg, sc.o)} : Answered(s)
    /\ UNCHANGED <<sc, pc, caller, cl, app>>
Serve ==
    /\ conn.serving
    /\ \E f \in {NextSegment(conn, sc.o)} :
          \E s \in {SendNext(card, conn, f, sc.o)} : Answered(s)
    /\ UNCHANGED <<sc, pc, caller, cl, app>>

----------------------------------------------------------------------------
\* The out-of-order queue.

Room(c) == c.free - Len(c.buf)

Store(c, f) ==
    IF /\ sc.page /\ f.seq > c.rcv /\ f.seq - c.rcv < Reach
       /\ \A k \in c.kept : k.seq # f.seq
       /\ Cardinality(c.kept) < Slots
    THEN [c EXCEPT !.kept = @ \cup {[seq |-> f.seq, data |-> f.data]}]
    ELSE c

RoundUp(n) == IF n <= MSS THEN 1 ELSE (n + MSS - 1) \div MSS

\* Mutants: the filled hole opens the window to the target at once, or restarts it
\* below what is promised.
TakenWide(c, k) ==
    [c EXCEPT !.buf = @ \o k.data, !.rcv = @ + Len(k.data), !.kept = @ \ {k},
              !.window = sc.target * MSS, !.segments = sc.target, !.grow = sc.target,
              !.edge = c.rcv + Len(k.data) + sc.target * MSS,
              !.pace = PacePolls, !.due = TRUE]
TakenSmall(c, k) ==
    [c EXCEPT !.buf = @ \o k.data, !.rcv = @ + Len(k.data), !.kept = @ \ {k},
              !.window = MSS, !.segments = 1, !.grow = 2,
              !.pace = PacePolls, !.due = TRUE]

\* What the last ACK still promises past an offset; more than half a word looks like
\* less than nothing.
Promised(c, rcv) == IF 2 * Low(c.edge - rcv) >= Word THEN 0 ELSE Low(c.edge - rcv)

\* Mutant: the segment that leaves the queue takes the rest of it along.
TakenAlone(c, k) ==
    LET rcv == c.rcv + Len(k.data)
        n   == RoundUp(Promised(c, rcv))
    IN [c EXCEPT !.buf = @ \o k.data, !.rcv = rcv, !.kept = {},
                 !.window = n * MSS, !.segments = n, !.grow = n + 1,
                 !.pace = PacePolls, !.due = TRUE]

\* A kept segment moves to the caller's buffer; the window restarts at what the last
\* ACK still promises past it.
Taken(c, k) ==
    LET rcv == c.rcv + Len(k.data)
        n   == RoundUp(Promised(c, rcv))
    IN [c EXCEPT !.buf = @ \o k.data, !.rcv = rcv, !.kept = @ \ {k},
                 !.window = n * MSS, !.segments = n, !.grow = n + 1,
                 !.pace = PacePolls, !.due = TRUE]

\* SEND succeeds, RECV returns its bytes or looks again.
Ended(from, c) ==
    IF from = "send" THEN "app" ELSE IF c.buf # <<>> THEN "return" ELSE "check"

\* OOO_DRAIN returns: to RECV, which fails at the end of the stream and else starts its
\* wait with no event; or to the wait, which sends the one ACK that covers all of it and
\* goes on while a segment still fits.
Drained(c) ==
    \/ /\ caller = "check"
       /\ cl' = [c EXCEPT !.event = FALSE]
       /\ pc' = IF c.fin THEN "failed" ELSE "wait"
       /\ UNCHANGED <<sc, caller, card, conn, app>>
    \/ /\ caller # "check"
       /\ Become(SendOwedAck([cl |-> [c EXCEPT !.due = TRUE], card |-> card]))
       /\ pc' = IF Room(c) < MSS THEN Ended(caller, c) ELSE caller
       /\ UNCHANGED <<sc, caller, conn, app>>

NextKept == {k \in cl.kept : k.seq = cl.rcv}

DrainTake ==
    /\ At("drain") /\ cl.pend = <<>>
    /\ \E k \in NextKept : Len(k.data) <= Room(cl) /\ cl' = Taken(cl, k)
    /\ UNCHANGED <<sc, pc, caller, card, conn, app>>

\* Pending bytes come first, and a kept segment is copied whole.
DrainBlocked ==
    /\ At("drain") /\ cl.kept # {}
    /\ cl.pend # <<>> \/ \E k \in NextKept : Len(k.data) > Room(cl)
    /\ Drained([cl EXCEPT !.blocked = TRUE])

\* What RCV.NXT has passed is forgotten.
DrainEnds ==
    /\ At("drain")
    /\ cl.kept = {} \/ (cl.pend = <<>> /\ NextKept = {})
    /\ Drained([cl EXCEPT !.kept = {k \in @ : k.seq > cl.rcv}])

----------------------------------------------------------------------------
\* RECV.

\* TCPX.RECV is called until the whole body is there.
Recv ==
    /\ At("app") /\ Len(app) < BodyLen
    /\ cl' = [cl EXCEPT !.free = sc.capacity, !.buf = <<>>]
    /\ pc' = "check"
    /\ UNCHANGED <<sc, caller, card, conn, app>>

BodyComplete ==
    /\ At("app") /\ Len(app) >= BodyLen
    /\ pc' = "done"
    /\ UNCHANGED <<sc, caller, cl, card, conn, app>>

CheckPending ==
    /\ At("check") /\ cl.pend # <<>>
    /\ pc' = "copy"
    /\ UNCHANGED <<sc, caller, cl, card, conn, app>>

\* The kept segments of a hole that has filled come before the end of the stream and
\* the wait.
CheckKept ==
    /\ At("check") /\ cl.pend = <<>>
    /\ cl' = [cl EXCEPT !.blocked = FALSE]
    /\ pc' = "drain" /\ caller' = "check"
    /\ UNCHANGED <<sc, card, conn, app>>

\* Pending bytes to the caller.  A shut window is reopened before the room left in
\* the buffer decides whether RECV goes on.
CopyPending ==
    /\ At("copy")
    /\ LET n     == Smaller(Len(cl.pend), cl.free - Len(cl.buf))
           moved == [cl EXCEPT !.buf = @ \o SubSeq(cl.pend, 1, n),
                               !.pend = SubSeq(@, n + 1, Len(@)),
                               !.off = IF n = Len(cl.pend) THEN 0 ELSE @ + n]
           t     == [cl |-> moved, card |-> card]
           ends  == moved.pend # <<>> \/ moved.fin
       IN /\ Become(IF ends \/ ~moved.shut THEN t ELSE Send(t, 1, <<>>))
          /\ pc' = IF ends \/ Room(moved) < MSS THEN "return" ELSE "check"
    /\ UNCHANGED <<sc, caller, conn, app>>

\* The buffer is closed before the last ACK of the call is built.
RecvReturn ==
    /\ At("return")
    /\ Become(SendOwedAck([cl |-> [cl EXCEPT !.free = 0, !.buf = <<>>], card |-> card]))
    /\ app' = app \o cl.buf
    /\ pc' = "app"
    /\ UNCHANGED <<sc, caller, conn>>

----------------------------------------------------------------------------
\* WAIT_FOR_EVENT: one poll of the card.  SEND waits for its acknowledgement with no
\* buffer open, RECV for data.

Polled  == AdvanceDelayed(card)
Waiting == At("send") \/ At("wait")

\* The head frame leaves the card; c is the receiver after looking at it.
Read(c) == [cl |-> c, card |-> [Polled EXCEPT !.rx = Tail(@)]]
Credited == conn' = CreditClientAck(conn, Head(Polled.rx))

IsPlain(f) == ~cl.fin /\ f.data # <<>> /\ ~f.fin
IsDirect(f) == IsPlain(f) /\ f.seq = cl.rcv /\ Len(f.data) <= Room(cl)
IsAhead(f) ==
    IsPlain(f) /\ ~IsDirect(f) /\ sc.page /\ f.seq > cl.rcv /\ f.seq - cl.rcv < Reach

\* .SESSION_FAST: data restarts the idle count and the hole budget, and what was kept
\* follows it.
SessionFast(c) ==
    /\ Become(Read([c EXCEPT !.pace = PacePolls, !.hole = HoleAcks, !.blocked = FALSE]))
    /\ Credited
    /\ pc' = "drain" /\ caller' = pc
    /\ UNCHANGED <<sc, app>>

\* A damaged segment is read and forgotten, and acknowledged like a good one.
PollDirect ==
    /\ Waiting /\ Polled.rx # <<>>
    /\ LET f == Head(Polled.rx)
       IN /\ IsDirect(f)
          /\ SessionFast(IF f.bad THEN cl
                         ELSE [cl EXCEPT !.buf = @ \o f.data, !.rcv = @ + Len(f.data)])

PollAhead ==
    /\ Waiting /\ Polled.rx # <<>>
    /\ LET f == Head(Polled.rx)
       IN /\ IsAhead(f)
          /\ SessionFast(IF f.bad THEN cl ELSE Store(cl, f))

\* HANDLE_SEGMENT: payload at RCV.NXT that fits goes to the pending region, with the
\* FIN behind it; anything else is kept or dropped, a FIN with it.
InOrder(c, f) == f.seq = c.rcv /\ Len(f.data) <= Free(c)
HandledUnchecked(c, f) ==     \* Mutant: the checksum comes after the commit.
    IF ~InOrder(c, f) THEN c
    ELSE [c EXCEPT !.pend = @ \o f.data,
                   !.rcv = @ + Len(f.data) + (IF f.fin THEN 1 ELSE 0),
                   !.fin = @ \/ f.fin, !.due = TRUE, !.event = TRUE]
Handled(c, f) ==
    IF f.bad THEN c
    ELSE IF InOrder(c, f) THEN
        [c EXCEPT !.pend = @ \o f.data,
                  !.rcv = @ + Len(f.data) + (IF f.fin THEN 1 ELSE 0),
                  !.fin = @ \/ f.fin, !.due = @ \/ f.data # <<>> \/ f.fin,
                  !.event = @ \/ f.data # <<>> \/ f.fin]
    ELSE [(IF f.data # <<>> /\ f.seq # c.rcv THEN Store(c, f) ELSE c)
             EXCEPT !.due = @ \/ f.data # <<>> \/ f.fin]

PollSlow ==
    /\ Waiting /\ Polled.rx # <<>>
    /\ LET f == Head(Polled.rx)
           c == Handled(cl, f)
           ready == IF pc = "send" THEN ~f.bad ELSE c.event
       IN /\ ~IsDirect(f) /\ ~IsAhead(f)
          /\ Become(SendOwedAck(Read(c))) /\ Credited
          /\ pc' = IF ready THEN Ended(pc, c) ELSE pc
    /\ UNCHANGED <<sc, caller, app>>

\* Mutant: nothing is repeated while a hole is open.
IdleOpenQuiet(c, k) ==
    IF c.pace > 1 THEN [cl |-> [c EXCEPT !.pace = @ - 1], card |-> k]
    ELSE IF c.pace = 1 /\ c.kept = {} /\ c.segments < sc.target THEN
        SendOwedAck([cl |-> [c EXCEPT !.due = TRUE, !.pace = PacePolls,
                                      !.segments = @ + 1, !.window = @ + MSS,
                                      !.grow = c.segments + 2],
                     card |-> k])
    ELSE [cl |-> [c EXCEPT !.pace = 0], card |-> k]

\* IDLE_OPEN, every PacePolls idle polls: with a hole open the last ACK again, as often
\* as the budget allows; with none, one more segment of window, up to the target.
IdleOpen(c, k) ==
    IF c.pace = 0 THEN [cl |-> c, card |-> k]
    ELSE IF c.pace > 1 THEN [cl |-> [c EXCEPT !.pace = @ - 1], card |-> k]
    ELSE IF c.kept # {} /\ c.hole > 0 THEN
        SendOwedAck([cl |-> [c EXCEPT !.due = TRUE, !.pace = PacePolls, !.hole = @ - 1],
                     card |-> k])
    ELSE IF c.kept = {} /\ c.segments < sc.target THEN
        SendOwedAck([cl |-> [c EXCEPT !.due = TRUE, !.pace = PacePolls,
                                      !.segments = @ + 1, !.window = @ + MSS,
                                      !.grow = c.segments + 2],
                     card |-> k])
    ELSE [cl |-> [c EXCEPT !.pace = 0], card |-> k]

\* An empty card ends a RECV that has bytes.
PollIdle ==
    /\ Waiting /\ Polled.rx = <<>>
    /\ IF cl.buf # <<>> THEN pc' = "return" /\ card' = Polled /\ cl' = cl
       ELSE pc' = pc /\ Become(IdleOpen(cl, Polled))
    /\ UNCHANGED <<sc, caller, conn, app>>

\* Nothing is on its way and nothing will be sent: the idle timeouts.  SEND repeats
\* the request, RECV gives up.
Quiet == card.rx = <<>> /\ card.delayed = <<>> /\ cl.pace = 0 /\ cl.buf = <<>>
SendTimeout ==
    /\ At("send") /\ Quiet
    /\ Become(SendRequest([cl |-> cl, card |-> card]))
    /\ UNCHANGED <<sc, pc, caller, conn, app>>
RecvTimeout ==
    /\ At("wait") /\ Quiet
    /\ pc' = "failed"
    /\ UNCHANGED <<sc, caller, cl, card, conn, app>>

Next ==
    \/ Open \/ SendGet \/ Answer \/ Serve \/ Recv \/ BodyComplete
    \/ CheckPending \/ CheckKept \/ DrainTake \/ DrainBlocked \/ DrainEnds
    \/ CopyPending \/ RecvReturn
    \/ PollDirect \/ PollAhead \/ PollSlow \/ PollIdle \/ SendTimeout \/ RecvTimeout

\* One thread of a Z80 that nothing stops: the client always takes its next step.
Spec == Init /\ [][Next]_vars /\ WF_vars(Next)
----------------------------------------------------------------------------
\* Properties.

\* The receiver's counters stay in range, and what is kept lies within the queue.
TypeOK ==
    /\ pc \in {"open", "request", "send", "app", "check", "copy", "wait",
               "drain", "return", "done", "failed"}
    /\ cl.rcv \in 0..BodyLen + 1 /\ Free(cl) \in 0..PendingCapacity
    /\ Len(cl.buf) <= sc.capacity /\ Cardinality(cl.kept) <= Slots
    /\ cl.segments \in 1..Larger(sc.target, 3) /\ cl.window = cl.segments * MSS
    /\ cl.grow \in 1..sc.target + SetupSegments
    /\ cl.pace \in 0..PacePolls /\ cl.hole \in 0..HoleAcks /\ cl.wnd >= 0
    /\ conn.acked <= conn.next

\* What RECV has returned, what it has copied and what is pending are, in this order,
\* the bytes before RCV.NXT: direct delivery, the pending region and the kept segments
\* neither lose nor repeat nor reorder a byte, whatever was lost or damaged on the way.
StreamIntact ==
    app \o cl.buf \o cl.pend = SubSeq(Body, 1, cl.rcv - (IF cl.fin THEN 1 ELSE 0))

\* A client that keeps what arrives past a hole costs the server one resend per lost
\* segment (the loss model's comment in the harness, and its test).
OneResendPerLoss == sc.page => card.resent <= card.lost

\* While a hole is open its duplicate ACKs all carry one window, or the server stops
\* counting them as duplicates.
HoleWindowFixed == sc.page => card.holeMoves = 0

\* No single ACK releases more frames than the three-frame FIFO of the card holds.
BurstFitsCard == card.burst <= 3

\* The right edge the server has been promised is never taken back, not by a filled
\* hole that restarts the window, not at the end of a call, not by an idle update.
EdgeNeverMovesLeft ==
    [][pc # "open" => conn'.acked + conn'.clientWindow
                      >= conn.acked + conn.clientWindow]_vars

\* Fewer losses than the initial window has segments, each with two segments behind it:
\* the ladder without a timer can still learn of every hole.
Recoverable ==
    LET last == (BodyLen + MSS - 1) \div MSS
    IN /\ sc.page
       /\ Cardinality(sc.o.lose) < Smaller(sc.target, InitialSegments)
       /\ \A n \in sc.o.lose : n + 2 <= last

\* Such a loss never costs the transfer, although the server has no retransmission
\* timer: the idle loop repeats the ACKs a short tail cannot cause, and reopens the
\* window the filled hole left small.
Arrives == <>(Recoverable => pc = "done")
=============================================================================
