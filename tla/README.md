# Formal models of the Sprinter 3C509B network kit

The repository is a network kit in Z80 assembly for the Sprinter computer under
DSS: a polling driver for the 3Com 3C509B ISA card, an Ethernet/ARP/IPv4/ICMP/
UDP/TCP stack, a shared library `UNET509B.DLL` with two TCP channels, and the
applications that use them.  Nothing runs on interrupts.  There is one thread,
and every wait is a loop that polls the card a bounded number of times.  What
makes the code hard is nevertheless concurrency: the card transmits, completes
and receives between any two instructions; the network loses, repeats and
reorders; peers are slow or gone; both TCP channels are served by whichever wait
is running and share one frame buffer and one set of scratch variables; and a
SEND may be suspended (`NERR_AGAIN`) and resumed many calls later.

The repository also holds the bench its programs are tested on: a Z80
interpreter in JavaScript with a simulated DSS, card and network, in which a TCP
server loses segments and recovers from the loss and a TFTP server loses,
doubles and reorders its blocks.

The modules here model the parts where those actors meet: the DLL's TCP over
the card's datapath, a download over a path that loses segments, TFTP over a
network that disturbs it, and the interpreter the tests trust.  TLC checks small
instances; TLAPS proves safety properties of the SEND executor, the receiver, the
channel table, the datapath, the download and the TFTP client for every value of the
constants that the modules' assumptions allow.  Some theorems need more than that (the
download, for instance, window targets of at most 22 segments), and some properties
name the case in which the code breaks what one would like to say: section 4 states
both, theorem by theorem, and section 6 the cases.

    tlc -workers 2 -config TcpSendBlocking.cfg TcpSend
    tlapm TcpSendProofs.tla
    tlapm TcpSendRefinement.tla
    tlapm TcpSendBudgetProofs.tla
    tlapm TcpReceiveProofs.tla
    tlapm UnetChannelsProofs.tla
    tlapm El3DatapathProofs.tla
    tlapm DirectDownloadProofs.tla
    tlapm TftpProofs.tla

## 1. The system

Paths are relative to `src/src/` of the repository, those of the bench (`tools/`)
to `src/`.  *Status* says what is modelled today.

| Component | Files | Status |
|---|---|---|
| TCP SEND executor | `lib/tcp_send_dll.asm`, `lib/tcp_send_cold.asm`, send side of `lib/tcp_transport.asm`, `F_SEND` | `TcpSend`, `SendContract`; proofs in `TcpSendProofs`, `TcpSendRefinement`, `TcpSendBudgetProofs` |
| TCP RECV, direct delivery, deferred ACKs | `lib/tcp_transport.asm`, `F_RECV` | `TcpReceive`; proofs in `TcpReceiveProofs` |
| Channel table, listener, connection life cycle | `dll/unet509b.asm`, `dll/unet509b_cold.asm`, `lib/tcp_transport.asm` | `UnetChannels`, `MCUnetChannels`; proofs in `UnetChannelsProofs` |
| Card datapath | `lib/el3_fifo.asm`, `lib/el3_io.asm`, `lib/el3_regs.asm` | `El3Datapath` (partly); proofs in `El3DatapathProofs` |
| TCP segments and sequence arithmetic | `lib/tcp.asm` | planned `TcpAckSequence`, `TcpClose` |
| DLDIRECT download: direct delivery, out-of-order queue, paced window | `lib/tcp_transport.asm` (EXE build), `apps/dldirect.asm`, `include/tcp.inc` | `DirectDownload`, `MCDirectDownload` (partly); proofs in `DirectDownloadProofs` |
| SEND and draining CLOSE of the applications | `lib/tcp_transport.asm` (EXE build), `apps/tcptest.asm` | planned |
| NETDRV facade, card activation, EEPROM | `lib/netdrv.asm`, `lib/el3.asm`, `lib/el3_algorithms.asm` | planned `NetDrv` |
| Time base | `lib/nettime.asm` | planned `NetTime` |
| ARP, IPv4, ICMP, UDP | `lib/arp.asm`, `lib/ipv4.asm`, `lib/icmp.asm`, `lib/udp*.asm` | planned `Arp`; the wait of UDPX is in `Tftp` |
| DHCP and the lease (IFUP), environment | `lib/dhcp.asm`, `apps/ifup.asm`, `lib/netenv.asm` | planned `Dhcp`, `NetEnv` |
| NET.CFG | `lib/netparse*.asm`, `lib/netcfg_write.asm` | planned `NetCfg` |
| DNS, NTP | `lib/dns.asm`, `lib/stage12_dns.asm`, `lib/ntp.asm` | planned `Dns` |
| TFTP client | `lib/tftp.asm`, `apps/tftp.asm`, `lib/udp_transport.asm` | `Tftp` (partly); proofs in `TftpProofs` |
| HTTP stream, WGET, FTP, TELNET | `lib/http_stream.asm`, `apps/wget.asm`, `apps/ftp.asm`, `apps/telnet*.asm` | planned `HttpStream`; FTP on top of `UnetChannels` |
| YMODEM, ZMODEM | `lib/ymodem.asm`, `lib/zmodem.asm` | planned `Ymodem`, `Zmodem` |
| WIN0 cold overlay | `lib/win0cold.asm` | planned `Win0Cold` |
| ISA window, console, command line, small applications | `lib/isa.asm`, `lib/console.asm`, ... | not modelled: no state that outlives a call, or one sequence per start |
| Z80 interpreter of the bench | `tools/exe-harness/Z80core.js` | `Z80Core`, `Z80Programs` (partly) |
| Bench: TCP server with loss recovery | `tools/exe-harness/harness.js` (`respondTcp` and its helpers) | `HarnessPeer` (partly); its half of the proofs in `DirectDownloadProofs` |
| Bench: TFTP server | `tools/exe-harness/harness.js` (`respondTftp`) | `Tftp` (partly) |
| Bench: DSS, card and the other responders | `tools/exe-harness/harness.js` | not modelled: tables and one reply per request, no session |
| Scenario scripts | `tools/test-*.js`, `tools/exe-harness/run.js` | not modelled: lists of runs; what they assert of loss recovery and TFTP is stated as properties |
| libman loader, other host tools | `lib/libman13.asm`, `tools/` | not modelled: vendored code, build and packaging |

### The parts in detail

**Card datapath.**  *State:* the window register cache `CURRENT_WINDOW`, the
attempts left of a transmission; in the card the transmit FIFO, a stack of
transmit statuses, the receive FIFO and a command in progress.  *Operations:*
`SEND_FRAME`, `RX_BEGIN`/`RX_PAYLOAD`/`RX_DROP`, `READ_FRAME`, the two transmit
recoveries.  *Hard:* statuses left by an earlier frame, commands that take time,
a recovery of several commands of which one times out.  *Correct if* a frame
leaves once, a success is the success of this frame, the transmitter is usable
after an error and received frames come whole and in order.

**TCP SEND.**  *State:* `CTX_SND_UNA`, `CTX_SND_NXT`, the peer's window, the
retry counter and the latch `CTX_SEND_FAILED` of the context; the continuation
`S11_SEND_*` (phase, pointer, remaining, confirmed, time left of the attempt and
of the call, the probe's interval).  *Operations:* `SEND`, `SEND_RESUME`, the
planner `SEND_STEP`, the wait.  *Interacts* with the card (transmission), the
wait that processes frames of either channel, the shim that parks the call.
*Hard:* one segment in flight, retransmitted and sliced over many calls while
late ACKs, partial ACKs, window updates, FIN and RST arrive.  *Correct if* what
is reported confirmed is in the peer's stream and nowhere twice, an ambiguous
stream refuses further bytes, and every call and every segment ends.

**TCP RECV.**  *State:* `CTX_RCV_NXT`, the one-segment slot with its offset, the
window latches of `CTX_WINDOW_CLOSED`; `RX_DEST`/`RX_FREE`/`RX_DELIVERED` of the
call, the acknowledgement debt `S11_ACK_OWED` and `S11_MATCH_CONTEXT`.
*Operations:* `RECV`, `TCP_FAST_RECEIVE`, `HANDLE_SEGMENT`, `SEND_OWED_ACK`,
`RECV_BUFFERED`.  *Hard:* bytes wait in three places, the ACKs are delayed, the
window counts buffers that come and go, two channels share the scratch.
*Correct if* the acknowledged stream is kept byte for byte, no buffer
overflows, no window stays shut unannounced and the end comes after the stream.

**Channels.**  *State:* the shim's table (`FREE`, `TCP`, `UDP`, `LISTENING`), the
listener and its `accepted` flag, the suspended SEND; one TCP context per
channel (state, event mask, remote, `REMOTE_FIN`).  *Operations:* `CONNECT`,
`LISTEN`, `UNLISTEN`, `UDPOPEN`, `SEND`, `RECV`, `CLOSE`, `NETINIT`, `NETDONE`, and
every frame a wait processes.  *Hard:* four records of one fact changed by
different calls, waits of one channel that change the other, half-open and
half-closed connections.  *Correct if* table and contexts agree between calls, no
call touches the other channel, closes are real, and every call comes back.

**Download (DLDIRECT).**  *State:* `CTX_RCV_NXT`, the pending region, the
caller's buffer, the segments kept past a hole (`OOO_TABLE`, `OOO_BLOCKED`), the
right edge and the window with its growth (`TCP_DIRECT_...`).  *Operations:* RECV,
the fast and the slow path of a segment, `OOO_STORE`, `OOO_DRAIN`, `IDLE_OPEN`,
the window of `SEND_SEGMENT`.  *Interacts* with the bench's server through the
card's queue.  *Hard:* the peer has no retransmission timer, the card holds three
frames, and the shape of the client's ACKs decides whether the peer learns of a
loss.  *Correct if* the bytes come once and in order, a loss costs one resend, no
ACK lets the peer overrun the card, and a recoverable loss never stalls.

**TFTP.**  *State:* the block number and size, the sends left of the state, the
remote port, the file buffer; in the server the session.  *Operations:* request,
data and dally states of GET and PUT, the wait of UDPX with the ARP and ICMP
answers it gives.  *Hard:* lock step over a network that loses, doubles and
reorders, with both sides answering everything they get, and one frame buffer for
everything that is sent.  *Correct if* success means the whole file, a failure has
a cause, copies do not breed and the program ends.

**Interpreter.**  *State:* registers, flags, memory.  *Operations:* one instruction.
*Hard:* flags and repeated instructions computed by hand, seven opcode tables that
share code.  *Correct if* programs leave what arithmetic says and the indexed
tables do what the main one does.

**Not yet modelled.**  Their state, what is hard in them and what would make them
correct, which is what their modules will state:

* *Sequence arithmetic.*  32-bit comparisons done byte by byte: acceptance must
  equal the modular window test for every pair, at the wrap included.
* *NETDRV.*  Activation with a probe loop; a failure half way has to leave no
  window open and no card active.
* *NETTIME.*  Polling ticks with a backstop on the DSS clock modulo 3600: a
  deadline neither early by more than the resolution nor lost at the wrap.
* *ARP.*  Four entries with an age in DSS seconds: an entry must expire.
* *DHCP, NETENV, IFUP.*  Offer, request, ack, renewal, NAK, release, and fourteen
  environment variables published all or none: the published lease must be one a
  server acknowledged, and a refused or expired one must be gone.
* *NET.CFG.*  Written by overwriting; a failure must not leave a file that the
  next start takes for a configuration.
* *DNS, NTP.*  Identifier and source checks, bounded compression pointers, two
  servers in turn: an answer accepted is an answer to this query.
* *HTTP stream.*  A header scanner fed in arbitrary pieces: the result must not
  depend on how the stream was cut.
* *YMODEM, ZMODEM.*  Damaged, repeated and late blocks, repositioning: every byte
  of the file once, at its offset.
* *WIN0 overlay.*  A page taken from DSS and mapped under the caller: mapped back
  and freed on every exit.

## 2. The modules and the code

### TcpSend

One channel of the DLL.  Sequence numbers are naturals, position 1 is the first
byte after the SYN, and a byte is named by the call that submitted it and its
offset in the caller's buffer, so that the peer's stream can be compared with
what was submitted.

| Variables | Code |
|---|---|
| `state sndUna sndNxt remoteWindow retryLeft sendFailed event remoteFin` | `CTX_STATE`, `CTX_SND_UNA`, `CTX_SND_NXT`, `CTX_REMOTE_WINDOW`, `CTX_RETRY_LEFT`, `CTX_SEND_FAILED`, `CTX_EVENT`, `CTX_REMOTE_FIN` |
| `phase pointer remaining confirmed active target msLeft callLeft` | `S11_SEND_PHASE` ... : the continuation of the planner |
| `probeInterval probeMissed probeAnswered` | the zero-window probe |
| `pc slice budget elapsed status call deferred` | where the call is, `UNET_OPT_SENDSLICE`, the wait in progress, the status returned |
| `wire got peerNxt` | segments transmitted so far; what the peer has taken |
| `stray told silent spent` | history only |

`Send`, `SendRefused`, `Resume` and `BeginCall` are `F_SEND` with `SEND`,
`SEND_RESUME` and their guards; the `Step...` actions are the branches of
`SEND_STEP`/`SEND_RESULT`, each with the transmission it makes; the `Wait...`
actions are one frame, one quantum or one failure of `WAIT_FOR_EVENT` as this
channel sees it; `RecvPoll` and `RecvBuffered` are the other API calls that may
come between two SENDs.  `FromPeer` holds every segment the peer can have sent by
now, so loss, duplication, reordering and delay are all in it; `PeerTake` lets the
peer take any prefix of the new bytes of anything transmitted.

A transmission that the card reports as failed may have left it all the same
(`lib/el3_fifo.asm` reports a timeout also for a frame it has handed over).  For a
retransmission that is harmless; for the first transmission of a segment it is not,
because `lib/tcp_send_dll.asm:115` takes its bytes back and numbers the next ones in
their place.  The history variable `stray` holds the segments for which that happened,
and the properties say what they exempt: `ConfirmedReachedPeer` the identity of a byte
at a position some stray covers, `AmbiguousStreamIsLatched` and `OneSegmentInFlight`
the strays themselves.

`SendContract` is the abstract specification, taken from `include/unet.inc` and
`docs/UNET509B.md` as the caller may read them: one stream, every SEND's bytes
once and in order, and `DE` only over bytes that are there.  Its variable `void` ends
the promise.  `KeepsContract` is the refinement; it puts `stray # {}` for `void`, so
SEND keeps the contract until the first stray and owes nothing after it.

### TcpReceive

One or two channels.  A byte is its position in the peer's stream, `Garbage` if
the checksum fails.  `Frames` are all segments of that stream however cut, so
retransmission, overlap and overrun of the window are in it.

| Variables | Code |
|---|---|
| `state rcvNxt fin off pend shut defer` | `CTX_STATE`, `CTX_RCV_NXT`, `CTX_REMOTE_FIN`, the pending slot, bits 0 and 1 of `CTX_WINDOW_CLOSED` |
| `selected free buf hidden pc result suspended` | the RECV in progress: `RX_FREE`, `RX_DEST`, `RX_DELIVERED`, a destination hidden by the cold mapping |
| `match owed direct` | `S11_MATCH_CONTEXT`, `S11_ACK_OWED`, whether this call had a direct segment |
| `app told` | what the application has; what the peer was last told |

`Check`, `Copy`, `RecvReturn`, `RecvRelease` and `WaitEnds` are the stations of
`RECV`; the `Frame...` actions are the ends a segment can have in
`TCP_FAST_RECEIVE` and `HANDLE_SEGMENT`; the rest is what other calls do to the
same variables between two RECVs.

### UnetChannels

Two channels, a set of remotes that call (`Clients`) and a set that are called
(`Servers`).  The shim's variables are `chState`, `listener`, `accepted`, `pend`;
the contexts' are `state`, `event`, `remote`, `fin`; `ix` is the Z80's IX, the
context the code writes through, which is not always the channel the call is
about (`sel`).  Payload is in the two modules above; of a segment only its flags
and whether it acknowledges everything sent remain.

Each API call is one action that starts it, the frames that a wait processes,
`WaitEnds` for the clock, Esc and the card, and one action per way to return.
`MCUnetChannels` adds the symmetry of the clients.

### El3Datapath

The driver is `pc` with the commands left to issue (`todo`) and what follows them
(`after`); the card is `txOn`, `txFifo`, `txStat`, `cip`, `rxFifo`.  A command in
`Slow` stays in progress after it was written (`cip`) until `CommandEnds`, so the
driver sees `CIP` set for as long as the card likes, `RX_DISCARD` included; `overtook`
remembers whether a receive has taken the frame of a discard still in progress for the
next one, which with the window cached nothing prevents.  `Sending` and `Receiving`
follow `TX_SESSION` and the two receive paths step by step; `Card` may act
between any two of them.  The behaviour of the card is that of
`docs/STAGE1_AUDIT.md`; where the document says nothing (whether a TX reset
empties the status stack) both outcomes are taken.

### HarnessPeer and DirectDownload

`HarnessPeer` is the bench's TCP server as operators on the card and a connection:
`Acknowledge` and `Respond` are `respondTcp` for a segment of an existing connection,
first the window and the acknowledgement it carries and then the rest, `NextSegment`,
`SendNext` and `Served` one round of `drainConnectionSendQueue` and what follows the
last, `RecoverLoss` and `RetransmitAt` the loss recovery, `AdvanceDelayed` and
`CreditClientAck` what a poll of the card does.
A request of one segment is answered with the scenario's response (`mode` http);
the FTP responder, which hooks into the same code, is left out.

`DirectDownload` composes it with the receiver of `DLDIRECT.EXE`: the two are one
thread, since the bench answers a segment before the program's next instruction.  A
step of the client leaves its segment in `card.tx`; `Answer` takes it, `Serve` is one
round of the server's loop, and the client's next step waits for both (`At`).  The
loop of `OOO_DRAIN` is unrolled in the same way: label `drain`, with where it returns
to in `caller`, and the actions `DrainTake` (a segment moves to the caller's buffer),
`DrainBlocked` and `DrainEnds` (`Drained` is what its callers then do).  No other action
can come between two rounds.  A byte is its position in the response.

| Variables | Code |
|---|---|
| `cl.rcv fin off pend free buf` | `CTX_RCV_NXT`, `CTX_REMOTE_FIN`, the pending region, `S11_RX_FREE`, the bytes at `S11_RX_DEST` |
| `cl.kept blocked` | `OOO_TABLE` with its page, `OOO_BLOCKED` |
| `cl.edge window grow segments pace hole` | `TCP_DIRECT_EDGE_VAR`, `_WINDOW_VAR`, `_GROW_VAR` (two bytes), `_PACE_VAR`, `_HOLE_VAR` |
| `cl.due event shut wnd` | `S11_ACK_OWED`, `CTX_EVENT`, `CTX_WINDOW_CLOSED`, the window of the segment being built |
| `card`, `conn` | the simulated card's receive queue and the segment just given to it, with the result counters; the connection of `respondTcp`, with the loop variables of its drain |
| `pc caller` | where the client is, and where `OOO_DRAIN` was called |
| `sc` | the scenario: `-w`, the RECV buffer, the options of the test |

`PollDirect`, `PollAhead` and `PollSlow` are one frame read by the wait
(`TCP_FAST_RECEIVE` with `.SESSION_FAST`, `.FAST_AHEAD`, `HANDLE_SEGMENT`), the fast
ones with the drain and the one ACK that follow; `PollIdle` is an empty poll with
`IDLE_OPEN`; `Recv`, `Check...`, `CopyPending`, `RecvReturn` are RECV.
`MCDirectDownload` names the losses: any two of the first `LossReach` segments.

### Tftp

`Start`, `GetOack` ... `DallyOver`, `PutAccepted`, `PutAcked`, `Refused` and
`WaitEnds` are the states of `RUN_GET` and `RUN_PUT` with the datagram each sends,
which the server (`respondTftp`, an operator) answers in the same step.  `Ignore`
lists what each state passes over.  `AnswerHost` and `AnswerStranger` are what the
wait of UDPX sends on its own (an ARP or echo reply, the ERROR to an unknown
transfer identifier).  `LoseAnswer`, `Duplicate`, `Overtake`, `LateAnswer` and the
second disjunct of `Sent` are the network, `SendFails` and `WaitFails` a driver that
reports an error to a send or inside a wait (the program ends at once, a dally with
success), each at the cost of one of `MaxFaults`.

| Variables | Code |
|---|---|
| `cl.pc why tries remote` | the state, the RESULT line, `S9_TFTP_RETRIES`, `S9_TFTP_SERVER_PORT`/`S9_REMOTE_PORT` |
| `cl.size block final` | `S9_TFTP_BLOCK_SIZE`, `S9_TFTP_BLOCK`, `S9_TFTP_FINAL` |
| `cl.buffer disk position tx` | the file buffer of a GET, what DSS has written; the file position of a PUT and the data part of `STAGE9_TX_BUFFER` |
| `srv` | `tftpSession` |
| `rx` | datagrams in the card |

`srv.chunks` is what the server has kept, joined.  The block after 65535 is 0; the
client follows that, but the bench's server cuts a file by the number of the block
alone, so a file ends before its numbers wrap (`TftpAssumption`).

### Z80Core and Z80Programs

`Z80Core` is the interpreter: a machine is a record and every function of
`Z80core.js` an operator from a machine to the next.  The opcode tables appear by
their fields (`64x + 8y + w`), so that a row of eight functions is one operator;
`FdPrefix` exchanges IX and IY around the DD table as the code does.  Memory is a
function that grows with the writes; the two port callbacks are external.

`Z80Programs` runs it: `job` is a program with its data, `Step` one call of
`run_instruction`.  Jobs are every 8-bit operation and shift over chosen operands,
16-bit sums, DAA after sums and differences, a long addition by a loop, every
repeated block instruction over overlapping texts, a recursion, and every
instruction of the DD and FD tables.

### Composition

`DirectDownload` is a composition of client and peer, `Tftp` of client, server and
network.  The first four models meet at interfaces rather than in one product, which TLC could
not explore, and no theorem joins them.  `TcpSend` and `TcpReceive` see the card as frames
that arrive or do not, and as transmissions that succeed or fail, where one that fails
may have left and one that succeeds may be lost on the way.  `SentAtMostOnce` and
`OkMeansSent` of `El3Datapath` are of that form.  Its receive side is weaker: once a
receive overtakes a discard (`FramesWholeInOrder`, section 6) an old frame is read again,
which the two may take for a repeated one, but a payload under the header of another
frame is in neither of them.  `TcpSend` and
`TcpReceive` see the shim as calls that are refused or made, and `UnetChannels`
sees SEND and RECV as their outcomes.

## 3. The runs

Twelve runs, each for one question.  *States* are distinct states.

| Run | States | What it shows |
|---|---|---|
| `send_blocking` | 239 000 | Two blocking SENDs of one and three bytes, MSS 2, windows of 1 and 3, two attempts per segment, with FIN, RST and failed transmissions, which may have left the card: `ConfirmedReachedPeer`, `AmbiguousStreamIsLatched`, `WaitStartsWithoutEvents`, and the refinement `KeepsContract`. |
| `send_sliced` | 198 000 | One SEND of two segments with windows 0 and 3, blocking or in slices of 1 and 3 quanta against waits of 2, with Esc and card errors: `TypeOK`, `OneSegmentInFlight`, `GivesUpAfterTheLadder`, and the liveness `SlicedCallReturns`, `BlockingSegmentEnds`. |
| `recv_two` | 460 000 | Two channels, streams of three bytes in segments of at most two, buffers of 1 and 4, resets and oversized segments, SEND and CLOSE in between: `StreamKept`, `ShutWindowReopens`, `EndAfterTheStream`. |
| `recv_faults` | 50 000 | One channel, a stream of five, buffers from one byte to the whole stream, in WIN0 or not, ACKs the card loses, waits that break off: `TypeOK` (with it that no buffer overflows), `StreamKept`, `DebtSettled`. |
| `recv_live` | 17 000 | `StreamArrives` on both channels against a peer that never sends past the window it was told. |
| `channels` | 363 000 | Both channels, one client, one server, every order of calls and frames with a card that works: `TypeOK`, `TableMatchesContexts`, `OrderlyCloseAnswered`, `SuspendedSendIsAlone`, and the liveness `CallComesBack`. |
| `channels_faults` | 1 430 000 | Two clients, a card that fails, Esc, peers that break the protocol: `OtherChannelKept`. |
| `el3` | 1 902 000 | Two SEND_FRAMEs, two arrivals, every transmit status, every command but that of the initialisation slow, `RX_DISCARD` included: `SentAtMostOnce`, `OkMeansSent`, `TransmitterReady`, `FramesWholeInOrder`, and the liveness `CallReturns`. |
| `z80` | 21 000 | Eight thousand programs: `ProgramsExact` (results, flags, memory and number of steps), `IndexedLikeHL` (the DD and FD tables against the main table). |
| `direct` | 220 000 | A download of nine segments that loses any up to two of the first seven, with and without delay, duplicates, a damaged copy and a page for the queue, window targets of 2, 3 and 6, RECV buffers of two segments and of more than six: `TypeOK`, `StreamIntact`, `OneResendPerLoss`, `HoleWindowFixed`, `BurstFitsCard`, `EdgeNeverMovesLeft`, and the liveness `Arrives`. |
| `tftp` | 633 000 | GETs and PUTs of 0, 1, 4 and 5 bytes in blocks of 1 or 2, every kind of answer to the request, three faults of network or driver and, for GET, two frames of other hosts: `OkMeansWhole`, `FailsForAReason`, `CopiesDoNotBreed`, and the liveness `Ends`. |
| `tftp_put` | | Finds the disagreement of section 6: a frame of another host between a PUT block and its resend. |

`TypeOK` of `El3Datapath` and of `Tftp` is in no run: it is proved, for every value of
the constants (section 4).

`CHECK_DEADLOCK FALSE` is set everywhere: the bounded number of calls, bytes or
arrivals is used up, or the program ends, and the modelled program then really
stops.

### Why the bounds are enough

* *Bytes.*  An error of numbering needs a segment, a retransmission of it and a
  byte after it: two segments of MSS 2 and a second call.  Three bytes give a full
  and a partial segment; a window of 1 cuts a segment short; a window of 0 starts
  the probe.
* *Attempts.*  Two attempts contain the first transmission, one retransmission
  and the giving up.  The ladder is W, 2W, 4W, 4W...; `Ladder` is stated for every
  number of attempts and the run uses the first two rungs.
* *Slices.*  1 and 3 against a wait of 2: one divides it, the other does not, so
  an attempt ends inside and at the edge of a call.
* *Receive.*  `MaxSegments` 2 or 3 and `AckEvery` 2 reach the delayed ACK, the ACK by
  count and the segment after it; capacities below, at and above MSS reach the
  slot, the direct path and the mixture of both.
* *Channels.*  The DLL has two channels, both are there.  Two attempts of a SYN and
  a FIN are one retry.  Two clients are one that connects and one that comes
  while the listener is busy.
* *Download.*  Nine segments are one and a half times the largest window: growth
  from 3 to 6, a hole, its filling and the growth after it all happen.  Two losses in
  seven give adjacent and separate holes, a hole behind a hole and a lost segment of
  the initial window; the last two segments are left alone because a loss with fewer
  than two segments behind it is one the timerless server cannot always learn of
  (`Recoverable`).  A delay of 9 polls exceeds the idle loop's 4, so the idle ACKs
  meet data on its way.  A buffer of two segments makes the queue wait for room.
  `Word` = 90 is 65536 / 1460 segments of MSS 2; no target of the run comes near half of
  it, the wide ones are in section 6.
* *TFTP.*  Blocks of 2 bytes and lengths of 0, 1, 4, 5: an empty file, a short block
  only, a whole number of blocks with an empty last one, and a short last one.
  Three faults are the sends of one state: one more than it takes to meet a resend
  of a resend, and as many as make it give up.  A room of 3 makes writing or reading
  fail in the middle, one of 9 never.
* *Programs.*  Operands at and beside the borders of nibbles, signs and decimal
  digits; spans and distances in a text of six so that copies overlap forwards,
  backwards and not at all.
* *Card.*  Two slots and a status stack of two hold a stale completion beside the
  current one; `StaleMax` 2 (31 in the code) still lets the pops run out; two sends
  let the second meet what the first left behind.

Bounds that exist only for TLC: `MaxCalls`, `MaxSeq`, `StreamLen`, `Sends`,
`Arrivals`, `Pending`, `BodyLen`, `LossReach`, `Lengths`, `MaxFaults`, `MaxNoise`, and
the operands and spans of `Z80Programs`.  The others are constants of the code made small.

### Fairness

The code polls on its own thread and nothing preempts it, so a call in progress
always takes its next step and its wait always counts down: weak fairness of
the program's steps and of the clock (`BeginCall`, `Step`, `WaitTick`;
`CallSteps`, `WaitEnds`; `Driver`).  The card, the network and the peers owe
nothing and get no fairness, except where the property is about a peer that
works: `StreamArrives` assumes an application that keeps calling RECV and a peer
whose next segment meets a RECV again and again (strong fairness, since any one
segment may be lost).  `UnetChannels` also lets the application poll the channel
it listens on, which `include/unet.inc:115` asks of it.

`DirectDownload` and `Tftp` have weak fairness of their whole next-state relation:
in the first, client and server are one thread that nothing stops; in the second
the faults of the network are bounded in number, so what remains for ever is the
client's own next step, a frame read or a timed wait that ends.  `Z80Programs` needs
none: that a program ends is the bound on its steps.

## 4. What is proved

### The SEND executor

Three modules hold theorems about `TcpSend`, for every value of its constants
that meets `ConstAssumption`, which says of what kind each is (numbers, positive
where the code's are):

| Theorem | Module | Statement | Assumed besides |
|---|---|---|---|
| `Invariant` | `TcpSendProofs` | `Spec => []IInv` | nothing |
| `TypeCorrect` | `TcpSendProofs` | `Spec => []TypeOK` | nothing |
| `Confirmed` | `TcpSendProofs` | `Spec => []ConfirmedReachedPeer` | nothing |
| `Latched` | `TcpSendProofs` | `Spec => []AmbiguousStreamIsLatched` | nothing |
| `OneInFlight` | `TcpSendProofs` | `Spec => []OneSegmentInFlight` | nothing |
| `Implements` | `TcpSendRefinement` | `Spec => KeepsContract` | nothing |
| `NoStaleEvent` | `TcpSendBudgetProofs` | `Spec => []WaitStartsWithoutEvents` | nothing |
| `SliceBounded` | `TcpSendBudgetProofs` | `Spec => []SliceBoundsTheCall` | nothing |
| `GivesUpInTime` | `TcpSendBudgetProofs` | `Spec => []GivesUpAfterTheLadder` | `WaitMs <= ProbeMax` |

The strays of section 2 are in all of them.  The properties exempt what a stray
destroys and no more: that every position reported as confirmed is at the peer
holds with strays too, which byte it is does not (`ConfirmedWithoutException`,
section 6).

None of these properties is inductive.  `IInv` is `TypeOK /\ StreamInv`, and
`StreamInv` joins

* `BoundsInv`: `sndUna` is at most `peerNxt` and `sndNxt`, and how the phase, the pointer, the
  remaining length and the confirmed count determine those three;
* `FlightInv`: the segments on the wire, strays apart.  None goes past `SND.NXT`; one
  that goes past `SND.UNA` during a call is the current segment, with the caller's
  current pointer, so a retransmission rebuilt from that pointer is the same segment.
  This is what makes the peer's take of *any* of them, however old, write the right
  byte; and what the peer has past `SND.NXT`, or otherwise than the caller submitted
  it, is at a position of a stray;
* `ConfirmedReachedPeer`, which needs `FlightInv` when an ACK is accepted: the bytes
  it covers are those the peer took, and those are the caller's or a stray's;
* `LatchInv`, with `FlightInv` the property `AmbiguousStreamIsLatched`, which is what
  lets a *new* call start from `SND.UNA = SND.NXT`, where the wire holds nothing above
  it but strays.

The proof goes action by action (`Init`, then one lemma per action or group of
actions, the frame lemmas for actions that leave the stream alone), and the
temporal theorems follow with PTL.

`Implements` needs more than `IInv`.  The contract says that the peer's stream is
the bytes of one call after those of another, each from its first byte, in
order and once; `IInv` says which call and offset each byte has, but not that
the byte taken next follows the last one taken.  `JoinInv` adds that:

* during a call the peer's stream ends where the caller's pointer, corrected by
  what the peer took and SEND does not know of yet, goes on (`Continues`);
* at most one segment on the wire can still lengthen the stream (`Fresh`), and it
  continues it.  This holds also after the call is over, when the segment of a call
  that failed is still on its way: the latch keeps any later call from writing in
  its place.

`JoinInv` is claimed, and proved to be kept, as long as there is no stray; then
`IInv` says what `Tidy` collects, the same facts without the exceptions.
Submitting, reporting and delivering map to the steps of the contract of those
names, and every other action to a stutter; the step that makes the first stray, and
every one after it, is the contract's `Void`.  `Contract!Spec` states no fairness,
so the theorem is the whole of `KeepsContract`.

`NoStaleEvent` strengthens its property to `EventInv` (events are cleared with
the transmission and accepted only by a wait, which ends the phase).
`SliceBounded` rests on `SliceInv`, an account kept in every state of the call:
quanta polled plus quanta left never exceed the slice, where a wait may run ahead
by the quanta it has not charged yet, which are fewer than its budget.

`GivesUpInTime` needs two clocks.  `LadderInv` says that the silence of the attempt
plus what is left of its wait is always a whole number of rungs, one more than the
retries spent, however many calls and slices the wait was cut into; `ProbeInv` says
that each unanswered probe has cost at least W, but for the one quantum in which a FIN
arrives.  The theorem assumes `WaitMs <= ProbeMax`: the interval of the probes is
doubled and then cut to `DLL_PROBE_MAX_MS`, and if that were below the first wait a
window would be given up too early.  In the code it is not (`DLL_SEND_WAIT_MS` is
1000, `DLL_PROBE_MAX_MS` 4000).

### The receiver

`TcpReceiveProofs` holds theorems about `TcpReceive`, for a stream of any length, any
capacities, segment size and number of delayed ACKs:

| Theorem | Statement | Assumed |
|---|---|---|
| `Invariant` | `Spec => []IInv` | nothing |
| `TypeCorrect` | `Spec => []TypeOK` | nothing |
| `StreamIsKept` | `Spec => []StreamKept` | nothing |
| `WindowReopens` | `Spec => []ShutWindowReopens` | nothing |
| `EndIsLast` | `Spec => []EndAfterTheStream` | nothing |
| `DebtIsSettled` | `Spec => []DebtSettled` | one channel |

`IInv` joins `TypeOK`, in which the bounds of slot and caller's buffer are, with

* `CallInv`, what each stage of a call has established: RECV waits only with an empty
  slot (so nothing read into the caller's buffer overtakes bytes that wait), nothing
  is owed between calls, and a status that returns no bytes leaves none in the buffer;
* `SlotInv`: a drained slot starts at its base again, and `RCV.NXT` counts the FIN once;
* `StreamInv`: what the application has, the caller's buffer and the slot, in this order,
  are the beginning of the stream up to `RCV.NXT`.  It is `StreamKept` for closed
  channels too, because those may still be drained;
* `WindowInv`: the latch of `CTX_WINDOW_CLOSED` is the window the peer was told last,
  unless the card lost that ACK, and a shut one has bytes to take or an update put off.

`DebtIsSettled` adds `DebtInv`: what an open channel has taken and its peer was not told
is owed.  `S11_ACK_OWED` does not say by whom, so this is true of one channel only; with
two the promise is broken, and section 6 lists it.

### The datapath

`El3DatapathProofs` holds theorems about `El3Datapath`, for any number of tries, frames
and stale statuses, and for every set of commands the card may be slow with:

| Theorem | Statement | Assumed |
|---|---|---|
| `Invariant` | `Spec => []IInv` | nothing |
| `TypeCorrect` | `Spec => []TypeOK` | nothing |
| `SentOnce` | `Spec => []SentAtMostOnce` | nothing |
| `OkIsSent` | `Spec => []OkMeansSent` | nothing |
| `Ready` | `Spec => []TransmitterReady` | nothing |
| `WholeInOrder` | `Spec => []FramesWholeInOrder` | nothing |

Driver and card take steps in any order, so the invariant has to say what the card may
still do at every place the driver can be:

* `PlanInv` and `CallInv`: which commands are left on the way to what, and that a call
  under way has tries left;
* `FlightInv`: one frame or one status is in the transmitter at most, and a frame there
  has not left before;
* `PollInv`: while `SEND_FRAME` polls, all the card can complete is the frame of *this*
  call.  From it and `SendInv` (before a write the transmitter holds no status, and no
  frame but an older one that is about to be reset) follow `SentAtMostOnce` and
  `OkMeansSent`;
* `ResetInv`: a reset that is due or in progress is either waited for, or the window is
  not known and the next call selects it and waits; without it a reset that ends late
  would disable the transmitter behind a good call;
* `ReadyInv`: where the driver leaves the transmitter as it is, it is enabled.

`WholeInOrder` adds `ReceiveInv` for the other direction, and holds with a slow
`RX_DISCARD` too: the FIFO holds the last frames that arrived, in order, and each
before those, or at their head while a discard is in progress (`gone`), was
delivered, dropped, or is the one that has been copied and not yet returned.  It is
kept until `overtook`: one discard at most is in progress, and the step that reads
the head of the FIFO meanwhile is the one that sets it.  The driver does not wait
for that discard where its comment says so, so the step does happen, and what it does
to the frames is `WholeAndInOrder`'s violation in section 6.

### The download

`DirectDownloadProofs` holds theorems about `DirectDownload` and the server it is
composed with, for any segment size, body, buffers of at least one segment, delays and
sets of lost segments, with or without duplicates, a damaged copy and a page for the
queue, and for every window target whose double sixteen bits can count:

| Theorem | Statement | Assumed |
|---|---|---|
| `Invariant` | `Spec => []IInv` | `Narrow` |
| `TypeCorrect` | `Spec => []TypeOK` | `Narrow` |
| `StreamDelivered` | `Spec => []StreamIntact` | `Narrow` |
| `BurstFits` | `Spec => []BurstFitsCard` | `Narrow` |
| `EdgeStays` | `Spec => EdgeNeverMovesLeft` | `Narrow` |

`Narrow` says that twice the window of every target is below `Word`, which is `-w` up to
22; the default is 12.  The code keeps EDGE as a word and compares it with the low word of
RCV.NXT (`Low`), and under `Narrow` the difference of the low words is the difference
(`LowExact`).  `EdgeStays` needs an assumption of this kind: for 43 and 44 the edge does
move left (section 6).  From 23 to 42 nothing is proved: `OOO_DRAIN` there takes a promise
of more than half a word for none (`Promised`), and with 40 segments, a delay of 120 polls
and two neighbouring losses late in the body TLC finds the edge moved left by that.  The other three theorems have it because
they share the invariant, not because a wider target is known to break them: with 40 and
44 segments, one late loss and a body of 350 segments TLC finds no violation of them.

So the guarantees of safety hold against *every* loss, not only the recoverable ones of
the run.  A step replaces client, card or connection at once, and the parts of `IInv` are
operators of the values; `IInv` says that some mark, how far the server has sent and
where its last segment began, satisfies

* `Cards`, `Conns`, `Clients`: everything on the way, kept by the client or held for a
  resend is a piece of the body up to that mark (`Whole`), a damaged copy apart, which
  only the first segment has.  The mark is what makes a piece stay one as the server goes on;
* `StreamInv`, `PlaceInv`, `BufferInv`: application, caller's buffer and pending region
  are consecutive pieces of the body, and where in RECV which of them is open.  From
  them follows that the pending region never holds more than one segment, hence that
  the EXE build never shuts its window;
* `PromiseInv`: the server's idea of the right edge, `acked + clientWindow`, is the
  client's `EDGE` (`Settled`), except for the segment being answered, which moves it by two
  segments at most and never back.  That a filled hole restarts the window at what is
  still promised (`Taken`) is what keeps it;
* `ServerInv`: the server stops only with an empty queue or a full window, so what one
  ACK releases is what it moved the edge by.  This and `PromiseInv` bound the burst;
* `HandInv`: the request is the one segment that opens the edge from nothing.  It
  opens at most three segments because the SYN, its ACK, the request and one repeat
  together do not use up the growth countdown (`SetupSegments`), and there is only one
  repeat, since a damaged copy costs the request's answer once;
* `StaleInv`: nothing kept lies at or before `RCV.NXT` while the card is polled, unless the
  queue waits for room, and nothing is kept behind the end of the stream.

The argument is in three layers: the operators of `HarnessPeer` (a retransmission, a
round of the drain, the credit of a frame) preserve the sets and `ServerInv`; the
client's operators (`Advertised`, `Taken`, `Store`, `Handled`, `IdleOpen`) preserve
`WindowInv`, `StreamInv` and the edge; one lemma per action then joins them.

### TFTP

`TftpProofs` holds theorems about `Tftp`, for every file length below the wrap of the block
number, every pair of block sizes, every number of sends, faults and frames of others:

| Theorem | Statement | Assumed |
|---|---|---|
| `Invariant` | `Spec => []IInv` | nothing |
| `TypeCorrect` | `Spec => []TypeOK` | nothing |
| `WholeFile` | `Spec => []OkMeansWhole` | `"put" \notin Noisy` |
| `FailsWithReason` | `Spec => []FailsForAReason` | nothing |
| `CopiesBounded` | `Spec => []CopiesDoNotBreed` | nothing |

A step replaces client, session and queue at once, so the parts of `IInv` are operators
of the values before or after it:

* `StageInv`, `GetInv`, `PutInv`: what the client's state says of the file.  A GET that waits
  for block n has the n - 1 full blocks before it on disk and in the buffer; a PUT that
  sends block n has a server that expects n or n + 1;
* `UploadInv`: the block being sent is that of the file, the server's bytes are the blocks
  before it or up to it.  This part is what a stranger's frame destroys, hence the
  assumption of `WholeFile` and the finding `tftp_put`;
* `QueueInv`: everything in the card is an answer of this server to this request
  (`Sound`): a data block holds the bytes its number says, an ACK is for a block the
  server has.  So an old, doubled or overtaken answer is either passed over or right;
* `TriesInv`: every try spent has met a fault of its own, and so has the current one
  unless something in the card (`Hope`) will end the state.  This is the strengthening
  that makes `FailsForAReason` inductive;
* `SessionInv`: what the server takes for the last block is a short one; `WhyInv` and
  `CopyInv` are the two properties themselves.

A send is lost, answered at once or refused by the driver, so the proof is in two
halves: one lemma per action shows that what it leaves is `Ready` for a send, and one per
kind of datagram (`RequestArrives`, `AckArrives`, `DataArrives`) that the server's answer
restores `IInv`; `Lost` does it for a send that is lost, which pays with a fault, and
`FailStep` for one that ends the program, which pays with one too.

### The channels

`UnetChannelsProofs` holds theorems about `UnetChannels`, for any number of clients
and servers and any number of attempts:

| Theorem | Statement | Assumed |
|---|---|---|
| `Invariant` | `Spec => []IInv` | nothing |
| `TypeCorrect` | `Spec => []TypeOK` | nothing |
| `AnsweredByPeer` | `Spec => []OrderlyCloseAnswered` | nothing |
| `SuspendedAlone` | `Spec => SuspendedSendIsAlone` | nothing |
| `OthersKept` | `Spec => OtherChannelKept` | `ConnectAssumption` |
| `TableAgrees` | `Spec => []TableMatchesContexts` | `TableAssumption` |

"Nothing" includes every failure of the card, the segments a conforming peer does
not send and a SEND before the accept was reported: the run `channels` checks
these properties with all of that switched off.

`IInv` adds to `TypeOK` that a context past LISTEN names a remote and that the one
CONNECT or CLOSE waits for is not a listening one (`RemoteInv`; without it not even
the type of the segments sent is preserved), that a SEND is suspended only between
calls and never within NETDONE (`PendInv`), and what each event in CLOSE's wait says
of the peer (`CloseInv`).

`OthersKept` assumes that CONNECT is not used or the card sends what it is given
(`ConnectAssumption`).  It rests on the types and on `OpenInv`: while CONNECT is in
progress, IX names its own channel, or a context that an oversized segment has closed
already, so that FAIL_CONTEXT closes nothing that was open.  RECV, SEND and CLOSE need
no such thing, whatever happened in their waits: they release by the channel.  In the
instance of `channels` TLC finds `OtherChannelKept` violated with `CardFaults = TRUE`,
and holding with `PeerBreaks = TRUE`: peers that break the protocol are no part of the
assumption.

`TableMatchesContexts` speaks of the moments between calls.  Its strengthening
`TableInv` says at every moment which channel and which context the call in
progress may have in an intermediate state: FREE with a context only in CONNECT,
SYN_SENT and FIN_WAIT only in the selected channel, LISTENING without a listener
only on channels NETDONE has yet to close, and an event SYN_ACK never with a context
that is not open, so that neither CONNECT nor the accept can succeed on a stale
event.  `TableAssumption` says that RECV reports an accept before SEND is called,
and that either CONNECT is not used (`channels_faults`) or the card sends what it
is given and the peers keep to the protocol (`channels`).  It is needed: in the
instance of `channels`, TLC finds the property violated as soon as any one of
`CardFaults`, `PeerBreaks` and `EarlySend` is `TRUE` (the table of section 6 shows how).  The proof shows that nothing else breaks the
agreement: of all calls only CONNECT uses an `IX` that its wait may have moved.

### Only model-checked

* *Liveness* and anything under fairness (`SlicedCallReturns`, `BlockingSegmentEnds`,
  `StreamArrives`, `CallComesBack`, `CallReturns`, `Arrives`, `Ends`): liveness, `ENABLED` and
  induction over data (what a recursive definition computes for every input) are
  beyond the prover.
* `OneResendPerLoss` and `HoleWindowFixed` of `DirectDownload`.  The first is not true
  of every target: up to the default of 12 the segments behind a hole fit the page, from
  13 on one that arrived is dropped, and it costs a resend although it was not lost (TLC,
  350 segments: `Targets = {12}` holds, `{13}` does not).  Below that bound both depend on the order in which frames and ACKs
  pass each other, that is, on the contents of the card's queue frame by frame.
* All of `Z80Programs`: `Z80Core` works on bits with `Bitwise` and recursively, and a
  module with such operators stays with TLC.

`SliceBoundsTheCall` and the types of `El3Datapath` and `Tftp` are the other way round:
they are proved for every value of the constants and no run repeats them.

## 5. Hazards and properties

`PROJECT.json` lists every place where the code can go wrong in a way a test
would hardly reach, with the properties that watch it.  Those without a property
are the entrances to the planned modules, or belong to the findings without a
run below.

## 6. Findings

With a run (the counterexample is the run's):

* `tftp_put`: `SEND_DATA` rebuilds only the headers of a PUT block it sends again; the
  data is what `READ_PUT_BLOCK` left in `STAGE9_TX_BUFFER`, and an ARP reply, an echo
  reply or the ERROR to an unknown transfer identifier built there in the meantime
  has overwritten its beginning.  The resend carries the damage under a good
  checksum, the server keeps it and the client reports success
  (`apps/tftp.asm:604`; `docs/evidence/STAGE9_TEST_TEMPLATE.md:14` says that a PUT is
  byte-exact, line 18 that an unknown TID does not disrupt the transfer).  The run
  `tftp` therefore lets other hosts talk only during a GET.

Without a run, to keep the project to twelve.  Each is a definition of the named
module that the code violates; the constants say how to see it.

| Property | Constants | Where |
|---|---|---|
| `CopiedBytesOutrankStatus` (`TcpReceive`) | `TcpReceiveTwo.cfg` | `RECV_COPY` empties the slot into the caller's buffer, goes back to wait for one more segment, finds that a reset has closed the context and returns `BC = 0`: acknowledged bytes are gone (`lib/tcp_transport.asm:612` against its comment at 508). |
| `OtherChannelKept` (`UnetChannels`) | `UnetChannels.cfg` with `CardFaults = TRUE` | A `CONNECT` whose wait breaks off on a frame of the other channel fails *that* channel and leaves its own context in SYN_SENT (`lib/tcp_transport.asm:257`; `CLOSE` has the guard at 738). |
| `AcceptNotMissed` (`UnetChannels`) | `UnetChannels.cfg` | A handshake completed during a call on the other channel is never reported by the accept, which clears the event before it waits (`lib/tcp_transport.asm:953` against `include/unet.inc:115`). |
| `WholeAndInOrder` (`El3Datapath`) | `El3Datapath.cfg` | `RX_PAYLOAD` does not wait for `RX_DISCARD`, and with the window cached neither does the next `RX_BEGIN`, although the comment at `lib/el3_io.asm:619` says that it does; a discard still in progress makes it read the old frame again. `FramesWholeInOrder` shows that this overtaking is the only way to lose the order. |
| `ConfirmedWithoutException` (`TcpSend`) | `TcpSendBlocking.cfg` | `lib/tcp_send_dll.asm:115` rewinds SND.NXT after a failed first transmission; `lib/el3_fifo.asm` reports a timeout also for a frame that may have left. `docs/UNET509B.md:180` counts only what the peer has. |
| `DebtSettled` (`TcpReceive`) | `TcpReceiveTwo.cfg` | `SEND_OWED_ACK` (`lib/tcp_transport.asm:1892`) acknowledges the channel that the last frame matched; with two channels the debt of the other is forgotten, against `include/tcp.inc:137`. |
| `FinalWindowDurable` (`TcpReceive`) | `TcpReceiveFaults.cfg` | The last ACK of a call counts the caller's buffer in its window (`lib/tcp_transport.asm:1774`); `docs/UNET509B.md:93` says it must not. |
| `ReleaseDiscardsNothing` (`TcpReceive`) | `TcpReceiveFaults.cfg` | A segment goes to the slot and the card fails to send its ACK: `F_RECV` takes the failure for the end of the connection and frees the channel with those bytes (`dll/unet509b.asm:617` against its comment at 615). |
| `ListenerHasItsChannel` (`UnetChannels`) | `UnetChannels.cfg` with `EarlySend = TRUE` | A reset found by SEND before the accept was reported frees the channel and leaves the listener (`dll/unet509b.asm:782` against `include/unet.inc:118`). |
| `ListenerStaysArmed` (`UnetChannels`) | `UnetChannels.cfg` with `PeerBreaks = TRUE` | A protocol error during the handshake closes the listening context for good (`lib/tcp_transport.asm:2427` against 946). |
| `EdgeNeverMovesLeft` (`DirectDownload`) | `DirectDownload.cfg` with `Targets = {44}`, `BodyLen = 701`, `LossReach = 3`, without the other properties | `.WINDOW_HELD` adds two segments to what is still promised and compares the sum with the window as 16-bit words (`lib/tcp_transport.asm:1536`). An ACK sent while 43 or 44 segments are promised, a duplicate for instance, wraps the sum and advertises next to nothing, against the comment at 1488 ("The edge never moves left"); `apps/dldirect.asm:99` allows `-w` up to 44. |
| `HalfOpenEnds` (`UnetChannels`) | `UnetChannels.cfg` | A half-open passive connection has no timer (`lib/tcp_transport.asm:2700` against 2459). |
| `ClosedMeansPeerClosed` (`UnetChannels`) | `UnetChannels.cfg` with `CardFaults = TRUE` | RECV reports `NERR_CLOSED` after a failure of the card (`dll/unet509b_cold.asm:2839` against `include/unet.inc:81`). |

Read off the code while modelling, and not stated as properties:

* `Z80core.js:821` adds the carry to the operand before it computes H and P/V of
  ADC/SBC HL, which is wrong when that sum leaves the low twelve or fifteen bits;
  `WideRight` leaves those operands out.  `do_ix_add` does not cut IX to 16 bits (so
  `IndexedLikeHL` compares modulo 65536), and INI/IND compute their flags from the
  counter already decremented.
* `IDLE_OPEN`'s comment (`lib/tcp_transport.asm:3165`) says that any frame received
  refills the budget of repeated ACKs; only `.SESSION_FAST` does.  Hence
  `Recoverable` asks for two segments behind each loss.
* `OOO_STORE` keeps a segment's payload and forgets its FIN; the server's resend
  brings it again.  A directly delivered segment with a bad checksum is still
  acknowledged (with the old number).  Without a page for the queue
  nearly every loss stalls against a server without a timer, which is why
  `OneResendPerLoss`, `HoleWindowFixed` and `Arrives` speak of clients with a page.
* In the bench: a client's FIN is counted whatever its sequence number, an empty
  response never sends the FIN, RX_DISCARD of an empty queue throws.  The TFTP server
  starts a new session at every repeated request and acknowledges any PUT block.
* A GET acknowledges the last block before the buffer is written (`apps/tftp.asm:311`):
  if the write fails the client says so, the server has been told otherwise.

## 7. Abstractions and what is left out

* Checksums, header lengths and options are one Boolean of a frame; addresses and
  ports are the remote's name.
* Sequence numbers do not wrap: the comparisons modulo 2^32 (and the 16-bit
  distances of the out-of-order queue) are the subject of `TcpAckSequence`.  The low
  words of the download's right edge do (`Low`, `Promised`, modulo `Word`), since a
  window may be as wide as a word.
* `DirectDownload` loses only data of the server, as the bench does; the SYN, client
  segments, RST, CLOSE, keys, HTTP headers and the disk are left out.  `Tftp` leaves out
  keys, the command line, the name lookup and a stranger that answers the request
  itself, which the protocol cannot tell from the server.  After a send that the driver
  refuses the program is over, and what the server makes of a frame that left all the
  same is not followed.
* `Z80Core` leaves out `interrupt()`, which nothing calls, `getState`/`setState`, and the
  cycle counts, which nothing reads.  `HarnessPeer` leaves out the options that reset,
  refuse, shut or abort a connection: `TcpSend`, `TcpReceive` and `UnetChannels` have
  peers of their own that do all that.
* Time is the number of polling quanta; `NETTIME` is the subject of a module of
  its own.
* ARP is resolved; a connection's next hop is known.
* The overlay in WIN0 runs what it contains; only the effect it has on a caller's
  buffer (`hidden`) is in `TcpReceive`.
* In `El3Datapath` frame lengths, padding, loopback, initialisation, shutdown and
  ISA window errors are left out.
* Wording, screens, logging and argument parsing are left out everywhere.

## 8. Plan

What is left, the most important first.  The project keeps to twelve runs and forty
checked properties, so a new component takes the place of a run, or joins a run
of the same module.

1. *Proofs.*  Every action property the runs check is proved, and every invariant but
   the four of the list in section 4.  Next: an abstract file transfer that `Tftp`
   implements (what is written is always a beginning of the file, and the end is
   reported over the whole of it), and the two invariants of loss recovery for
   targets the queue has room for, which need an invariant of the order of frames and
   duplicate ACKs.
2. *Protocols.*  `Dhcp` composed with `NetEnv` (the published lease is an acknowledged
   one; publish and roll back are all or none) against an abstract lease register;
   `Ymodem` and `Zmodem` against one abstract specification of a file transfer;
   `HttpStream` (the result does not depend on the cut of the stream); `Dns`.
3. *Arithmetic and small components.*  `TcpAckSequence`, `TcpClose`, `NetTime`, `Arp`:
   operators modulo a small power of two against their reference definitions;
   `NetDrv`, `NetCfg`, `Win0Cold`.

The parts listed under *Not yet modelled* in section 1 are within reach of the same
methods; what is not in the plan (screens, argument parsing, packet layout,
checksums, diagnostics, scripts) keeps no state that outlives a call.
