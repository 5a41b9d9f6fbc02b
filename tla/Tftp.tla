-------------------------------- MODULE Tftp --------------------------------
(***************************************************************************)
(* TFTP.EXE, GET and PUT, over UDPX against the TFTP server of the         *)
(* executable-test harness (respondTftp): lock step with a bounded number  *)
(* of sends per state, a block size from the OACK or the 512-byte          *)
(* fallback, and a server that answers and never repeats on its own.       *)
(*                                                                         *)
(* A datagram the client sends reaches the server at once or is lost; an   *)
(* answer waits in the card, where it may be lost, doubled, overtaken or   *)
(* late, each at the cost of one of MaxFaults, as is a driver that reports *)
(* an error.  Other hosts may talk to the client meanwhile, MaxNoise       *)
(* times, in the modes of Noisy.                                           *)
(*                                                                         *)
(* The file is 1..sc.len, a byte is its position; a block is sc.size of    *)
(* them, or DefaultBlock after a server that knows no options.             *)
(* Left out: keys, the command line, and a stranger that answers the       *)
(* request itself, which the protocol cannot tell from the server.         *)
(***************************************************************************)
EXTENDS Integers, Sequences

CONSTANTS
    Modes,           \* subset of {"get", "put"}
    Lengths,         \* bound: file lengths
    Answers,         \* the server: oack, fallback, badOack, error, silent
    Rooms,           \* bytes of the local file DSS reads or writes before it fails
    DefaultBlock,    \* TFTP_DEFAULT_BLOCK
    RequestBlock,    \* TFTP_REQUEST_BLOCK, granted by the OACK
    FileCapacity,    \* STAGE9_FILE_CAPACITY
    BlockModulus,    \* 65536
    StateSends,      \* TFTP_STATE_SENDS
    MaxFaults,       \* bound: datagrams lost, doubled, overtaken or late, driver errors
    MaxNoise,        \* bound: frames of other hosts
    Noisy            \* modes in which other hosts talk

Smaller(a, b) == IF a < b THEN a ELSE b

\* dataPacket cuts block n at (n - 1) * blockSize: the files end before the number of
\* a block, or of the one sent ahead of it, wraps.
ASSUME TftpAssumption ==
    /\ Modes \subseteq {"get", "put"} /\ Noisy \subseteq Modes
    /\ Lengths \subseteq Nat /\ Rooms \subseteq Nat
    /\ Answers \subseteq {"oack", "fallback", "badOack", "error", "silent"}
    /\ DefaultBlock \in Nat \ {0} /\ RequestBlock \in Nat \ {0}
    /\ FileCapacity >= DefaultBlock /\ FileCapacity >= RequestBlock
    /\ FileCapacity \in Nat /\ BlockModulus \in Nat /\ StateSends \in Nat \ {0}
    /\ \A len \in Lengths : len < (BlockModulus - 3) * Smaller(DefaultBlock, RequestBlock)
    /\ MaxFaults \in Nat /\ MaxNoise \in Nat

VARIABLES
    sc,       \* the run: mode, file length, the server's answer, room, reorder option
    cl,       \* the client, see Fresh
    srv,      \* the server's session
    rx,       \* datagrams waiting in the card
    faults, noise

vars == <<sc, cl, srv, rx, faults, noise>>

None == -1
Junk == 0
File == [i \in 1..sc.len |-> i]
Next16(block) == (block + 1) % BlockModulus

\* Block n of a file cut into blocks of the given size; the last one is short.
BlockOf(n, size) == SubSeq(File, (n - 1) * size + 1, Smaller(n * size, sc.len))
IsShort(data, size) == Len(data) < size

----------------------------------------------------------------------------
\* The server.

Session ==
    [open |-> FALSE, final |-> None, reordered |-> FALSE,
     expected |-> 1, chunks |-> <<>>, upload |-> <<None>>]

ServerBlock == IF sc.answer = "fallback" THEN DefaultBlock ELSE RequestBlock

Datagram(op, block, data) == [op |-> op, block |-> block, data |-> data]
DataPacket(n) == Datagram("data", n, BlockOf(n, ServerBlock))
FinalAfter(s, n) == IF IsShort(BlockOf(n, ServerBlock), ServerBlock) THEN n ELSE s.final

\* A request starts the session anew, whatever went before; an error leaves it.
RequestReply ==
    CASE sc.answer = "error"   -> Datagram("error", 0, <<>>)
      [] sc.answer = "badOack" -> Datagram("badOack", 0, <<>>)
      [] sc.answer = "oack"    -> Datagram("oack", 0, <<>>)
      [] OTHER -> IF sc.mode = "get" THEN DataPacket(1) ELSE Datagram("ack", 0, <<>>)
ServeRequest(s) ==
    LET new == [Session EXCEPT !.open = TRUE]
    IN [srv |-> IF sc.answer = "error" THEN s
                ELSE IF sc.mode = "get" /\ sc.answer = "fallback"
                THEN [new EXCEPT !.final = FinalAfter(new, 1)] ELSE new,
        out |-> <<RequestReply>>]

AheadAlways(s) == sc.reorder      \* Mutant: every block is overtaken by the next one.
AheadOnce(s) == sc.reorder /\ ~s.reordered

Unanswered(s) == [srv |-> s, out |-> <<>>]

\* GET: an ACK releases the next block, once preceded by the one after it; the ACK of
\* the short one releases nothing.
ServeAck(s, dg) ==
    LET next  == Next16(dg.block)
        ahead == (dg.block + 2) % BlockModulus
        seen  == [s EXCEPT !.reordered = TRUE, !.final = FinalAfter(s, ahead)]
    IN IF s.final = dg.block THEN Unanswered(s)
       ELSE IF AheadOnce(s)
       THEN [srv |-> [seen EXCEPT !.final = FinalAfter(seen, next)],
             out |-> <<DataPacket(ahead), DataPacket(next)>>]
       ELSE [srv |-> [s EXCEPT !.final = FinalAfter(s, next)],
             out |-> <<DataPacket(next)>>]

\* PUT: the expected block is kept, every block is acknowledged.  chunks is the bytes
\* kept so far, joined.
ServeData(s, dg) ==
    LET kept == s.chunks \o dg.data
    IN [srv |-> IF dg.block # s.expected THEN s
                ELSE [s EXCEPT !.chunks = kept, !.expected = Next16(@),
                               !.upload = IF IsShort(dg.data, ServerBlock)
                                          THEN kept ELSE @],
        out |-> <<Datagram("ack", dg.block, <<>>)>>]

\* A datagram to the request port or to the session's; a silent server loses them all.
respondTftp(s, port, dg) ==
    IF sc.answer = "silent" THEN Unanswered(s) ELSE
    CASE dg.op = "request" /\ port = "request" -> ServeRequest(s)
      [] dg.op = "ack" /\ port = "server" /\ s.open /\ sc.mode = "get" -> ServeAck(s, dg)
      [] dg.op = "data" /\ port = "server" /\ s.open /\ sc.mode = "put" -> ServeData(s, dg)
      [] OTHER -> Unanswered(s)

----------------------------------------------------------------------------
\* The client.  remote is S9_REMOTE_PORT; disk, buffer and used sum up the local file
\* of a GET, position and tx (the data part of STAGE9_TX_BUFFER) a PUT.

Fresh ==
    [pc |-> "start", why |-> "none", remote |-> "request", tries |-> 0,
     size |-> DefaultBlock, block |-> 0, final |-> FALSE,
     disk |-> <<>>, buffer |-> <<>>, position |-> 0, tx |-> <<>>]

Init ==
    /\ sc \in [mode : Modes, len : Lengths, answer : Answers, room : Rooms,
               reorder : BOOLEAN]
    /\ cl = Fresh /\ srv = Session /\ rx = <<>> /\ faults = 0 /\ noise = 0

Waiting == cl.pc \in {"request", "data", "dally"}
Received(op) == rx # <<>> /\ Head(rx).op = op

\* UDPX.SEND of dg by a client that has read the datagrams before rest and goes on as
\* c; cost is what the step itself counts for among the faults.
Sent(c, rest, dg, cost) ==
    /\ faults + cost <= MaxFaults
    /\ cl' = c
    /\ \/ \E s \in {respondTftp(srv, c.remote, dg)} :
             srv' = s.srv /\ rx' = rest \o s.out /\ faults' = faults + cost
       \/ /\ faults + cost < MaxFaults
          /\ faults' = faults + cost + 1 /\ rx' = rest /\ srv' = srv
    /\ UNCHANGED <<sc, noise>>

Fail(c, why) == [c EXCEPT !.pc = "failed", !.why = why]

\* SEND_FRAME reports an error to a client still at c: NETWORK_FAIL at once, no retry.
\* Whatever of the frame left the card, nobody waits for its answer; of the client only
\* why it failed is told apart.
SendFails(c, rest, cost) ==
    /\ faults + cost < MaxFaults
    /\ cl' = Fail(c, "network") /\ rx' = rest /\ faults' = faults + cost + 1
    /\ UNCHANGED <<sc, srv, noise>>
SendFrom(c, next, rest, dg, cost) ==
    Sent(next, rest, dg, cost) \/ SendFails(c, rest, cost)

\* The head frame is read and the server hears nothing.
ReadAs(c) == cl' = c /\ rx' = Tail(rx) /\ UNCHANGED <<sc, srv, faults, noise>>

Ack(block) == Datagram("ack", block, <<>>)
Request == Datagram("request", 0, <<>>)

Start ==
    /\ cl.pc = "start"
    /\ SendFrom(cl, [cl EXCEPT !.pc = "request", !.tries = StateSends], rx, Request, 0)

RetriedForever(c) == [c EXCEPT !.tries = StateSends]     \* Mutant: no try is spent.
Retried(c) == [c EXCEPT !.tries = @ - 1]

\* What the state has sent, again.
Resent == IF cl.pc = "request" THEN Request
          ELSE IF sc.mode = "get" THEN Ack((cl.block - 1) % BlockModulus)
          ELSE Datagram("data", cl.block, cl.tx)

\* The wait ends without an answer, or with one still on its way to the card: late.
WaitEnds(late) ==
    /\ cl.pc \in {"request", "data"}
    /\ IF late THEN rx # <<>> /\ faults < MaxFaults ELSE rx = <<>>
    /\ LET cost == IF late THEN 1 ELSE 0
       IN IF cl.tries > 1
          THEN SendFrom(cl, Retried(cl), rx, Resent, cost)
          ELSE /\ cl' = Fail(cl, "timeout") /\ faults' = faults + cost
               /\ UNCHANGED <<sc, srv, rx, noise>>
Timeout == WaitEnds(FALSE)
LateAnswer == WaitEnds(TRUE)

\* The driver reports an error inside the wait, reading or sending a reply: .ERROR
\* without a retry, and the end of a dally.
WaitFails ==
    /\ Waiting /\ faults < MaxFaults
    /\ cl' = IF cl.pc = "dally" THEN [cl EXCEPT !.pc = "ok"] ELSE Fail(cl, "network")
    /\ faults' = faults + 1
    /\ UNCHANGED <<sc, srv, rx, noise>>

----------------------------------------------------------------------------
\* GET.

\* FLUSH_FILE_BUFFER; an empty buffer is not written.
FlushFails(c) == c.buffer # <<>> /\ Len(c.disk) + Len(c.buffer) > sc.room
Flushed(c) == [c EXCEPT !.disk = @ \o c.buffer, !.buffer = <<>>]

\* What is left in the buffer is written before the dally.
Finish(c) == IF FlushFails(c) THEN Fail(c, "file") ELSE [Flushed(c) EXCEPT !.pc = "dally"]
Overfull(c, data) == Len(c.buffer) + Len(data) > FileCapacity

\* PROCESS_GET_DATA and what RUN_GET does next.  The short block is acknowledged from
\* the buffer, before it is written, and not written at all when that ACK fails; any
\* other is acknowledged by the next state.
TakeBlock(c, data) ==
    LET full     == Overfull(c, data)
        room     == IF full THEN Flushed(c) ELSE c
        appended == [room EXCEPT !.buffer = @ \o data, !.final = IsShort(data, c.size),
                                 !.block = Next16(c.block)]
        next     == IF appended.final THEN Finish(appended)
                    ELSE [appended EXCEPT !.pc = "data", !.tries = StateSends]
    IN IF full /\ FlushFails(c) THEN ReadAs(Fail(c, "file"))
       ELSE SendFrom(appended, next, Tail(rx), Ack(c.block), 0)

\* The OACK opens the first data state, which acknowledges block 0.
GetOack ==
    /\ cl.pc = "request" /\ sc.mode = "get" /\ Received("oack")
    /\ SendFrom(cl, [cl EXCEPT !.pc = "data", !.tries = StateSends,
                               !.remote = "server", !.size = RequestBlock, !.block = 1],
                Tail(rx), Ack(0), 0)

\* A server without options answers with block 1.
GetFirst ==
    /\ cl.pc = "request" /\ sc.mode = "get" /\ Received("data")
    /\ Head(rx).block = 1 /\ Len(Head(rx).data) <= DefaultBlock
    /\ TakeBlock([cl EXCEPT !.remote = "server", !.size = DefaultBlock, !.block = 1],
                 Head(rx).data)

ExpectedBlock ==
    Received("data") /\ Head(rx).block = cl.block /\ Len(Head(rx).data) <= cl.size
PreviousBlock == Received("data") /\ Next16(Head(rx).block) = cl.block

GetBlock ==
    /\ cl.pc = "data" /\ sc.mode = "get" /\ ExpectedBlock
    /\ TakeBlock(cl, Head(rx).data)

\* The block before is acknowledged again, in the data state and while it dallies,
\* where nobody looks at the send's result.
GetPrevious ==
    /\ cl.pc \in {"data", "dally"} /\ sc.mode = "get" /\ PreviousBlock
    /\ \/ Sent(cl, Tail(rx), Ack(Head(rx).block), 0)
       \/ cl.pc = "data" /\ SendFails(cl, Tail(rx), 0)

DallyOver ==
    /\ cl.pc = "dally"
    /\ cl' = [cl EXCEPT !.pc = "ok"]
    /\ UNCHANGED <<sc, srv, rx, faults, noise>>

----------------------------------------------------------------------------
\* PUT.

\* READ_PUT_BLOCK into the frame buffer, and the data state's first send.
SendBlock(c) ==
    LET data == SubSeq(File, c.position + 1, Smaller(c.position + c.size, sc.len))
    IN IF c.position + Len(data) > sc.room THEN ReadAs(Fail(c, "file"))
       ELSE SendFrom(c, [c EXCEPT !.pc = "data", !.tries = StateSends, !.tx = data,
                                  !.position = @ + Len(data),
                                  !.final = IsShort(data, c.size)],
                     Tail(rx), Datagram("data", c.block, data), 0)

PutAccepted ==
    /\ cl.pc = "request" /\ sc.mode = "put"
    /\ Received("oack") \/ (Received("ack") /\ Head(rx).block = 0)
    /\ SendBlock([cl EXCEPT !.remote = "server", !.block = 1,
                            !.size = IF Head(rx).op = "oack" THEN RequestBlock
                                     ELSE DefaultBlock])

AnyAck == Received("ack")     \* Mutant: an ACK of another block is taken for this one's.

\* Only the current block's ACK counts.
CurrentAck == Received("ack") /\ Head(rx).block = cl.block
PutAcked ==
    /\ cl.pc = "data" /\ sc.mode = "put" /\ CurrentAck
    /\ IF cl.final THEN ReadAs([cl EXCEPT !.pc = "ok"])
       ELSE SendBlock([cl EXCEPT !.block = Next16(@)])

----------------------------------------------------------------------------
\* Both.

\* A server error, or an OACK with a block size nobody asked for.
Refused ==
    /\ \/ cl.pc \in {"request", "data"} /\ Received("error")
       \/ cl.pc = "request" /\ Received("badOack")
    /\ ReadAs(Fail(cl, "remote"))

\* ICMP unreachable for our port: a dally takes any error for its end.
Unreachable ==
    /\ Waiting /\ Received("unreachable")
    /\ ReadAs(IF cl.pc = "dally" THEN [cl EXCEPT !.pc = "ok"] ELSE Fail(cl, "unreachable"))

\* A frame of another host is built over the head of the last block.
Smeared(tx) == IF tx = <<>> THEN tx ELSE [tx EXCEPT ![1] = Junk]

\* ARP and echo requests are answered inside the wait.
AnswerHost ==
    /\ Waiting /\ Received("host")
    /\ ReadAs([cl EXCEPT !.tx = Smeared(@)])

SendErrorKeeping(c) ==      \* Mutant: the port stays with the stranger.
    [c EXCEPT !.tx = Smeared(@), !.remote = "stranger"]
\* SEND_UNKNOWN_TID: the ERROR goes to the stranger's port, and the session's port is
\* put back.  A request listens to anyone.
SendError(c) == [c EXCEPT !.tx = Smeared(@)]
AnswerStranger ==
    /\ Waiting /\ Received("stranger")
    /\ ReadAs(IF cl.pc = "request" THEN cl ELSE SendError(cl))

Ignored ==
    \/ /\ cl.pc = "request" /\ sc.mode = "get"
       /\ Received("ack") \/ (Received("data") /\ (\/ Head(rx).block # 1
                                                  \/ Len(Head(rx).data) > DefaultBlock))
    \/ /\ cl.pc = "request" /\ sc.mode = "put"
       /\ Received("data") \/ (Received("ack") /\ Head(rx).block # 0)
    \/ cl.pc \in {"data", "dally"} /\ (Received("oack") \/ Received("badOack"))
    \/ /\ cl.pc = "data" /\ sc.mode = "get"
       /\ Received("ack") \/ (Received("data") /\ ~ExpectedBlock /\ ~PreviousBlock)
    \/ /\ cl.pc = "data" /\ sc.mode = "put"
       /\ Received("data") \/ (Received("ack") /\ ~CurrentAck)
    \/ /\ cl.pc = "dally"
       /\ Received("ack") \/ Received("error") \/ (Received("data") /\ ~PreviousBlock)
Ignore == Ignored /\ ReadAs(cl)

----------------------------------------------------------------------------
\* The network.

Disturb(queue) ==
    /\ Waiting /\ faults < MaxFaults
    /\ rx' = queue /\ faults' = faults + 1
    /\ UNCHANGED <<sc, cl, srv, noise>>
LoseAnswer == rx # <<>> /\ Disturb(Tail(rx))
Duplicate == rx # <<>> /\ Disturb(<<Head(rx)>> \o rx)
Overtake ==
    /\ Len(rx) > 1 /\ rx[1] # rx[2]
    /\ Disturb(<<rx[2], rx[1]>> \o SubSeq(rx, 3, Len(rx)))

OtherHost ==
    /\ Waiting /\ sc.mode \in Noisy /\ noise < MaxNoise
    /\ \E op \in {"host", "stranger", "unreachable"} :
          rx' = <<Datagram(op, 0, <<>>)>> \o rx
    /\ noise' = noise + 1
    /\ UNCHANGED <<sc, cl, srv, faults>>

Next ==
    \/ Start \/ Timeout \/ LateAnswer \/ WaitFails
    \/ GetOack \/ GetFirst \/ GetBlock \/ GetPrevious \/ DallyOver
    \/ PutAccepted \/ PutAcked
    \/ Refused \/ Unreachable \/ AnswerHost \/ AnswerStranger \/ Ignore
    \/ LoseAnswer \/ Duplicate \/ Overtake \/ OtherHost

\* The client is one thread that runs, and its waits are timed.
Spec == Init /\ [][Next]_vars /\ WF_vars(Next)
----------------------------------------------------------------------------
\* Properties.

TypeOK ==
    /\ cl.pc \in {"start", "request", "data", "dally", "ok", "failed"}
    /\ cl.why \in {"none", "timeout", "remote", "file", "unreachable", "network"}
    /\ (cl.why = "none") = (cl.pc # "failed")
    /\ cl.tries \in 0..StateSends /\ cl.block \in 0..BlockModulus - 1
    /\ Len(cl.buffer) <= FileCapacity /\ Len(cl.disk) <= sc.room /\ Len(cl.tx) <= cl.size
    /\ srv.expected \in 0..BlockModulus - 1
    /\ faults \in 0..MaxFaults /\ noise \in 0..MaxNoise

\* RESULT OK: the whole file, byte for byte, is on the disk (GET) or at the server (PUT).
OkMeansWhole ==
    cl.pc = "ok" => File = IF sc.mode = "get" THEN cl.disk ELSE srv.upload

\* A wait is given up only when every one of the state's sends has met a fault of its
\* own: neither noise nor an old answer spends a try.  No other failure without a cause.
FailsForAReason ==
    /\ cl.why = "timeout" => faults >= StateSends \/ sc.answer = "silent"
    /\ cl.why = "file" => sc.room < sc.len
    /\ cl.why = "remote" => sc.answer \in {"badOack", "error"}
    /\ cl.why = "unreachable" => noise > 0
    /\ cl.why = "network" => faults > 0

\* A doubled or late answer adds at most one datagram to those in flight: the copies do
\* not breed, although every ACK is answered.
CopiesDoNotBreed == Len(rx) <= 1 + faults + noise + (IF srv.reordered THEN 1 ELSE 0)

\* The program always ends.
Ends == <>(cl.pc \in {"ok", "failed"})
=============================================================================
