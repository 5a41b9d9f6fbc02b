----------------------------- MODULE HarnessPeer -----------------------------
(***************************************************************************)
(* The TCP server inside the executable-test harness (respondTcp and its   *)
(* helpers): a connection answers every client segment at once, sends its  *)
(* queue as far as the client's window allows, may lose chosen data        *)
(* segments, and recovers from the loss without SACK and without a         *)
(* retransmission timer: fast retransmit on the third duplicate ACK, one   *)
(* resend per partial ACK.  The frames land in the receive queue of the    *)
(* simulated card, at once or some status polls later.                     *)
(*                                                                         *)
(* Sequence numbers are offsets in each direction's stream, 0 being the    *)
(* byte after the SYN; payload bytes are values the client module chooses. *)
(* o holds the scenario's options that matter to a receiver: segment size, *)
(* delay, losses, duplicates, one damaged copy, a FIN with the last byte,  *)
(* and the response, which answers one request of one segment (mode http). *)
(* The options that reset, refuse, shut or close a connection are left out.*)
(* k is the card and c the connection; an operator that changes both       *)
(* returns the pair.  A segment the client hands to the card is answered   *)
(* by one Acknowledge and one Respond, and the loop that sends the queue   *)
(* is one SendNext per round: Respond leaves the connection serving as     *)
(* long as there is a round to go.                                         *)
(***************************************************************************)
EXTENDS Integers, Sequences, FiniteSets

None == -1

Smaller(a, b) == IF a < b THEN a ELSE b
Larger(a, b)  == IF a < b THEN b ELSE a

\* The receive side of the card, the segment just handed to its transmit side, and the
\* counters a run returns.
NewCard ==
    [rx |-> <<>>, tx |-> <<>>, delayed |-> <<>>, dataSent |-> 0, lost |-> 0, resent |-> 0,
     holeMoves |-> 0, burst |-> 0]

\* A connection as the SYN of a client that will send from offset 0 creates it; and
\* whether its send queue is being drained, after how many segments, and for a segment
\* whose payload nothing has acknowledged yet.
NewConn(window) ==
    [next |-> 0, acked |-> 0, clientNext |-> 0, clientWindow |-> window,
     queue |-> <<>>, established |-> FALSE, finSent |-> FALSE,
     sent |-> {}, duplicateAcks |-> 0, recover |-> None,
     lostSeqs |-> {}, holeAck |-> None, corruptSent |-> FALSE,
     serving |-> FALSE, burst |-> 0, owes |-> FALSE]

Frame(c, seq, data, fin) ==
    [seq |-> seq, ack |-> c.clientNext, data |-> data, fin |-> fin,
     bad |-> FALSE]

Pair(k, c) == [card |-> k, conn |-> c]

Queue(k, f) == [k EXCEPT !.rx = Append(@, f)]

\* Server data goes through the simulated path, every other reply does not.
DeliverData(k, frames, o) ==
    IF o.delay = 0 THEN [k EXCEPT !.rx = @ \o frames]
    ELSE [k EXCEPT !.delayed =
             @ \o [i \in DOMAIN frames |-> [polls |-> o.delay, frame |-> frames[i]]]]

\* One read of RX_STATUS brings every delayed frame one poll nearer.  All are delayed by
\* the same number of polls, so the ones that arrive are the oldest.
AdvanceDelayed(k) ==
    LET ready == Cardinality({i \in DOMAIN k.delayed : k.delayed[i].polls <= 1})
        late  == Len(k.delayed) - ready
    IN [k EXCEPT
           !.delayed = [i \in 1..late |-> [k.delayed[ready + i] EXCEPT !.polls = @ - 1]],
           !.rx = @ \o [i \in 1..ready |-> k.delayed[i].frame]]

\* The card gives a frame up: the hole its segment leaves, if any, is the lowest
\* lost segment before it that the client has not read yet.
CreditClientAck(c, f) ==
    IF f.data = <<>> THEN c
    ELSE LET lost  == c.lostSeqs \ {f.seq}
             holes == {q \in lost : q < f.seq}
         IN [c EXCEPT !.lostSeqs = lost,
                      !.holeAck = IF holes = {} THEN None
                                  ELSE CHOOSE q \in holes : \A r \in holes : q <= r]

----------------------------------------------------------------------------
\* Sending.

Available(c) == Larger(0, c.clientWindow - (c.next - c.acked))

\* The drain stops when the queue is empty or the window full; payload that released
\* nothing is then acknowledged.
CanSend(c) == c.queue # <<>> /\ Available(c) > 0
PureAck(k, c) == Queue(k, Frame(c, c.next, <<>>, FALSE))
Served(k, c) ==
    IF CanSend(c) THEN Pair(k, [c EXCEPT !.serving = TRUE])
    ELSE Pair(IF c.owes /\ c.burst = 0 THEN PureAck(k, c) ELSE k,
              [c EXCEPT !.serving = FALSE, !.burst = 0, !.owes = FALSE])

\* The next segment of the send queue, the last one with the FIN.
NextSegment(c, o) ==
    LET size == Smaller(o.mss, Smaller(Available(c), Len(c.queue)))
    IN Frame(c, c.next, SubSeq(c.queue, 1, size),
             ~c.finSent /\ o.finWhenDrained /\ size = Len(c.queue))

\* One round of the drain sends segment f: maybe a damaged copy first, the segment unless
\* it is lost, maybe a duplicate.
SendNext(k, c, f, o) ==
    LET size    == Len(f.data)
        isLost  == k.dataSent + 1 \in o.lose
        damaged == o.corruptOnce /\ ~c.corruptSent
        copies  == (IF damaged THEN <<[f EXCEPT !.bad = TRUE, !.data[1] = -@]>> ELSE <<>>)
                   \o (IF isLost THEN <<>> ELSE <<f>>)
                   \o (IF o.duplicate THEN <<f>> ELSE <<>>)
        counted == [k EXCEPT
            !.dataSent = @ + 1,
            !.lost = IF isLost THEN @ + 1 ELSE @,
            !.burst = Larger(@, c.burst + 1)]
        sent    == [c EXCEPT
            !.queue = SubSeq(@, size + 1, Len(@)),
            !.corruptSent = @ \/ damaged,
            !.sent = IF o.lose = {} THEN @
                     ELSE @ \cup {[seq |-> f.seq, data |-> f.data, fin |-> f.fin]},
            !.lostSeqs = IF isLost THEN @ \cup {f.seq} ELSE @,
            !.next = @ + size + (IF f.fin THEN 1 ELSE 0),
            !.finSent = @ \/ f.fin,
            !.burst = @ + 1]
    IN Served(DeliverData(counted, copies, o), sent)

----------------------------------------------------------------------------
\* Loss recovery.

RetransmitAt(k, c, o) ==
    LET found == {e \in c.sent : e.seq = c.acked}
        entry == CHOOSE e \in found : TRUE
    IN IF found = {} THEN k
       ELSE DeliverData([k EXCEPT !.resent = @ + 1],
                        <<Frame(c, entry.seq, entry.data, entry.fin)>>, o)

\* A duplicate ACK advances nothing, carries nothing and leaves the window alone
\* while data is outstanding.
IsDuplicate(c, seg, previousWindow) ==
    /\ c.next # c.acked /\ seg.data = <<>> /\ ~seg.fin
    /\ seg.window = previousWindow

RecoverLoss(k, c, seg, previousAck, previousWindow, o) ==
    LET third == c.duplicateAcks + 1 = 3 /\ c.recover = None
        t     == [c EXCEPT !.sent = {e \in @ : e.seq + Len(e.data) > c.acked}]
        fresh == [t EXCEPT !.duplicateAcks = 0,
                           !.recover = IF @ # None /\ c.acked < @ THEN @ ELSE None]
        again == [t EXCEPT !.duplicateAcks = @ + 1,
                           !.recover = IF third THEN c.next ELSE @]
    IN IF o.lose = {} THEN Pair(k, c)
       ELSE IF c.acked # previousAck
       THEN Pair(IF fresh.recover # None THEN RetransmitAt(k, t, o) ELSE k, fresh)
       ELSE IF ~IsDuplicate(c, seg, previousWindow) THEN Pair(k, t)
       ELSE Pair(IF third THEN RetransmitAt(k, t, o) ELSE k, again)

----------------------------------------------------------------------------
\* A client segment: seq, data, ack, window, fin.

\* The window and the acknowledgement it carries.
Acknowledge(k, c, seg, o) ==
    LET moved == c.holeAck # None /\ seg.ack = c.holeAck /\ seg.data = <<>>
                 /\ seg.window # c.clientWindow
        heard == [c EXCEPT !.clientWindow = seg.window,
                           !.acked = IF seg.ack \in c.acked..c.next THEN seg.ack ELSE @]
    IN RecoverLoss(IF moved THEN [k EXCEPT !.holeMoves = @ + 1] ELSE k, heard, seg,
                   c.acked, c.clientWindow, o)

\* A FIN from the client: counted whatever its offset, answered with the server's
\* own FIN once and with a bare ACK from then on.
AnswerFin(k, c) ==
    LET t == [c EXCEPT !.clientNext = @ + 1]
    IN Pair(Queue(k, Frame(t, t.next, <<>>, ~t.finSent)),
            [t EXCEPT !.finSent = TRUE, !.next = IF c.finSent THEN @ ELSE @ + 1])

\* In-order payload is the request, which the whole response answers; then the FIN
\* behind it, or as much of the response as the window allows.
Take(k, c, seg, o) ==
    LET taken == IF seg.data = <<>> THEN c
                 ELSE [c EXCEPT !.clientNext = @ + Len(seg.data), !.queue = o.response,
                                !.owes = TRUE]
    IN IF seg.fin THEN AnswerFin(k, taken) ELSE Served(k, taken)

\* A segment on an existing connection.  The first bare ACK of the SYN|ACK establishes
\* it and goes no further unless there is something to send.
Respond(k, c, seg, o) ==
    LET opens == ~c.established /\ seg.data = <<>> /\ ~seg.fin /\ seg.ack = c.next
        e     == [c EXCEPT !.established = @ \/ opens]
    IN IF opens /\ e.queue = <<>> THEN Pair(k, e)
       ELSE IF seg.data # <<>> /\ seg.seq # e.clientNext THEN Pair(PureAck(k, e), e)
       ELSE Take(k, e, seg, o)
=============================================================================
