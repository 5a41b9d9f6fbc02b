----------------------------- MODULE TcpReceive -----------------------------
(***************************************************************************)
(* RECV of UNET509B.DLL over its two TCP channels: direct delivery from    *)
(* the card to the caller's buffer (TCP_FAST_RECEIVE), the one-segment     *)
(* pending slot of each channel, the ACKs that WAIT_FOR_EVENT defers       *)
(* (S11_ACK_NOW, S11_ACK_OWED, S11_MATCH_CONTEXT), the window TCP_IP_BUILD *)
(* advertises and the latch that makes RECV reopen it.                     *)
(*                                                                         *)
(* The peer's stream of a channel is 1..StreamLen, a byte is its position  *)
(* (Garbage if the checksum fails), and the peer may send any segment of   *)
(* its stream at any time: retransmitted, re-cut, or past the window.      *)
(***************************************************************************)
EXTENDS Integers, Sequences

CONSTANTS
    Channels,       \* the TCP channels in use, a subset of {0, 1}
    MSS,            \* TCP_MSS, also the size of a pending slot
    MaxSegments,    \* TCP_RECV_MAX_SEGMENTS
    AckEvery,       \* TCP_ACK_EVERY
    StreamLen,      \* bound: bytes the peer has for each channel
    Capacities,     \* capacities a caller passes to RECV
    Hiding,         \* whether a caller's buffer may be in WIN0
    PeerBreaks,     \* the peer may send an RST or an oversized segment
    PeerObeys,      \* the peer sends within the window it was last told
    CardFaults,     \* the card may fail to send or to be read
    OtherCalls      \* SEND, CLOSE and suspended SENDs interleave with RECV

ASSUME ConstAssumption ==
    /\ Channels \subseteq {0, 1} /\ MSS \in Nat \ {0}
    /\ MaxSegments \in Nat \ {0} /\ AckEvery \in Nat \ {0}
    /\ StreamLen \in Nat /\ Capacities \subseteq Nat \ {0}
    /\ {Hiding, PeerBreaks, PeerObeys, CardFaults, OtherCalls} \subseteq BOOLEAN

VARIABLES
    \* per channel: CTX_STATE, RCV.NXT, REMOTE_FIN, the pending slot, and bits 0
    \* and 1 of CTX_WINDOW_CLOSED
    state, rcvNxt, fin, off, pend, shut, defer,
    \* the call in progress: S11_SELECTED_CONTEXT, RX_FREE, the bytes at RX_DEST
    \* (RX_DELIVERED is their number), a destination hidden by the cold mapping
    selected, free, buf, hidden, pc, result, suspended,
    \* S11_MATCH_CONTEXT, S11_ACK_OWED, and whether this RECV had a direct segment
    match, owed, direct,
    \* what RECV has returned to the application; what the peer was last told, and
    \* whether the card lost an ACK since
    app, told

slotVars == <<off, pend>>
ctxVars  == <<state, rcvNxt, fin, slotVars, shut, defer>>
callVars == <<selected, free, buf, hidden, pc, result, suspended>>
ackVars  == <<match, owed, direct>>
vars     == <<ctxVars, callVars, ackVars, app, told>>

Garbage == 0
Frames ==
    {f \in [ch : Channels, seq : 1..(StreamLen + 1), len : 0..MSS,
            fin : BOOLEAN, plain : BOOLEAN, bad : BOOLEAN] :
        /\ f.seq + f.len <= StreamLen + 1
        /\ f.fin => f.seq + f.len = StreamLen + 1
        /\ PeerObeys => f.seq + f.len <= told[f.ch].ack + told[f.ch].wnd}
Bytes(f) == [i \in 1..f.len |-> IF f.bad THEN Garbage ELSE f.seq + i - 1]

\* The types; and neither a slot nor the caller's buffer overflows, although one
\* segment may go to either and RECV_COPY fills the buffer too.
TypeOK ==
    /\ state \in [Channels -> {"OPEN", "DOWN", "FREE"}]
    /\ rcvNxt \in [Channels -> 1..(StreamLen + 2)] /\ fin \in [Channels -> {0, 1}]
    /\ off \in [Channels -> 0..MSS] /\ pend \in [Channels -> Seq(0..StreamLen)]
    /\ \A c \in Channels : off[c] + Len(pend[c]) <= MSS
    /\ shut \in [Channels -> BOOLEAN] /\ defer \in [Channels -> BOOLEAN]
    /\ selected \in Channels /\ free \in Capacities \cup {0}
    /\ buf \in Seq(0..StreamLen) /\ hidden \in BOOLEAN
    /\ pc # "idle" => Len(buf) <= free
    /\ pc \in {"idle", "check", "copy", "wait", "return"}
    /\ result \in {"OK", "TIMEOUT", "CLOSED", "RESET", "HW", "PROTOCOL"}
    /\ suspended \in BOOLEAN /\ match \in Channels
    /\ owed \in 0..AckEvery /\ direct \in BOOLEAN
    /\ app \in [Channels -> Seq(0..StreamLen)]
    /\ told \in [Channels -> [ack : 1..(StreamLen + 2), wnd : 0..(MSS * MaxSegments),
                             lost : BOOLEAN]]

Init ==
    /\ state = [c \in Channels |-> "OPEN"] /\ rcvNxt = [c \in Channels |-> 1]
    /\ fin = [c \in Channels |-> 0] /\ off = [c \in Channels |-> 0]
    /\ pend = [c \in Channels |-> <<>>]
    /\ shut = [c \in Channels |-> FALSE] /\ defer = [c \in Channels |-> FALSE]
    /\ selected \in Channels /\ free = 0 /\ buf = <<>> /\ hidden = FALSE
    /\ pc = "idle" /\ result = "OK" /\ suspended = FALSE
    /\ match \in Channels /\ owed = 0 /\ direct = FALSE
    /\ app = [c \in Channels |-> <<>>]
    /\ told = [c \in Channels |-> [ack |-> 1, wnd |-> MSS, lost |-> FALSE]]

----------------------------------------------------------------------------
\* The window and the ACKs.  These read the state the step leaves behind.

Least(a, b) == IF a < b THEN a ELSE b

\* Room left in the caller's buffer that a segment of channel c could use.
Room(c) == IF c = selected' /\ ~hidden' /\ free' > 0 THEN free' - Len(buf') ELSE 0

\* TCP_IP_BUILD: whole segments of the slot and the room together, five at most.
Window(c) ==
    MSS * Least((MSS - off'[c] - Len(pend'[c]) + Room(c)) \div MSS, MaxSegments)

Outcomes == IF CardFaults THEN BOOLEAN ELSE {TRUE}

\* SEND_SEGMENT with a bare ACK on every channel of cs; those of lost stay in the
\* card.  The builder sets or clears the latch before the card is asked to send.
SendAcks(cs, lost) ==
    /\ shut' = [c \in Channels |-> IF c \in cs THEN Window(c) = 0 ELSE shut[c]]
    /\ told' = [c \in Channels |->
                  IF c \notin cs \/ state[c] = "FREE" THEN told[c]
                  ELSE IF c \in lost THEN [told[c] EXCEPT !.lost = TRUE]
                  ELSE [ack |-> rcvNxt'[c], wnd |-> Window(c), lost |-> FALSE]]

\* SEND_OWED_ACK: one ACK, on the context the last frame matched, if any is due.
SendOwedAck(due, sent) ==
    SendAcks(IF due THEN {match'} ELSE {}, IF sent THEN {} ELSE {match'})

----------------------------------------------------------------------------
\* RECV.

Recv(c, capacity, hide) ==
    /\ pc = "idle" /\ ~suspended /\ state[c] # "FREE"
    /\ selected' = c /\ free' = capacity /\ hidden' = hide /\ buf' = <<>>
    /\ direct' = FALSE /\ pc' = "check"
    /\ UNCHANGED <<ctxVars, result, suspended, match, owed, app, told>>

Return(st) == pc' = "return" /\ result' = st

ClosedBeforePending(c) ==
    IF fin[c] = 1 THEN Return("CLOSED")
    ELSE IF pend[c] # <<>> THEN pc' = "copy" /\ UNCHANGED result
    ELSE IF state[c] = "DOWN" THEN Return("RESET")
    ELSE pc' = "wait" /\ UNCHANGED result
\* .RECV_CHECK: queued bytes, then the end of the stream, then the last status of a
\* dead context (here always RESET).
NextStage(c) ==
    IF pend[c] # <<>> THEN pc' = "copy" /\ UNCHANGED result
    ELSE IF fin[c] = 1 THEN Return("CLOSED")
    ELSE IF state[c] = "DOWN" THEN Return("RESET")
    ELSE pc' = "wait" /\ UNCHANGED result

\* SEND_RECV_UPDATE first: a window a buffered RECV reopened is announced.
Check ==
    /\ pc = "check" /\ NextStage(selected)
    /\ UNCHANGED <<state, rcvNxt, fin, slotVars, selected, free, buf, hidden, suspended,
                   ackVars, app>>
    /\ IF defer[selected] /\ state[selected] # "DOWN"
       THEN \E sent \in Outcomes :
              /\ SendAcks({selected}, IF sent THEN {} ELSE {selected})
              /\ defer' = [defer EXCEPT ![selected] = ~sent]
       ELSE UNCHANGED <<shut, defer, told>>

UpdateIfRoom(c) == shut[c] /\ free - Len(buf) - Len(pend[c]) >= MSS
\* A drained slot reopens a window that was advertised as zero.
UpdateDue(c) == shut[c]

WholeSlot(c) == Len(pend[c])
CopyLength(c) == Least(Len(pend[c]), free - Len(buf))

\* .RECV_COPY: from the slot to the caller; a drained slot is a window update
\* and, with room for another whole segment, another round.
Copy ==
    LET c == selected
        n == CopyLength(c)
        drained == n = Len(pend[c])
        again == drained /\ fin[c] = 0 /\ free - (Len(buf) + n) >= MSS
    IN  /\ pc = "copy"
        /\ UNCHANGED <<state, rcvNxt, fin, defer, selected, free, hidden, suspended,
                       match, direct, app>>
        /\ buf' = buf \o SubSeq(pend[c], 1, n)
        /\ pend' = [pend EXCEPT ![c] = SubSeq(@, n + 1, Len(@))]
        /\ off' = [off EXCEPT ![c] = IF drained THEN 0 ELSE @ + n]
        /\ IF again THEN pc' = "check" /\ UNCHANGED <<result, owed>>
           ELSE Return("OK") /\ owed' = owed + 1
        /\ IF drained /\ fin[c] = 0 /\ UpdateDue(c)
           THEN \E sent \in Outcomes : SendAcks({c}, IF sent THEN {} ELSE {c})
           ELSE UNCHANGED <<shut, told>>

OwedByThreshold == owed >= AckEvery
\* The debt .RECV_RETURN settles.
OwedAtReturn == owed > 0

\* MAP_RECV_FAIL: every status but a timeout is NERR_CLOSED to F_RECV, which then
\* releases the channel (Esc, which does not, is left out).
Releases(st) == st \notin {"OK", "TIMEOUT"}

\* CLEAR_CONTEXT: what the slot held is gone.
Clear(c) ==
    /\ state' = [state EXCEPT ![c] = "FREE"]
    /\ pend' = [pend EXCEPT ![c] = <<>>] /\ off' = [off EXCEPT ![c] = 0]
    /\ shut' = [shut EXCEPT ![c] = FALSE] /\ defer' = [defer EXCEPT ![c] = FALSE]

Returned ==
    /\ pc = "return" /\ pc' = "idle" /\ result' = "OK"
    /\ free' = 0 /\ hidden' = FALSE /\ buf' = <<>> /\ owed' = 0
    /\ UNCHANGED <<rcvNxt, fin, selected, suspended, match, direct>>

\* .RECV_RETURN closes direct access, then settles the debt.
RecvReturn ==
    /\ Returned /\ ~Releases(result)
    /\ app' = IF result = "OK" THEN [app EXCEPT ![selected] = @ \o buf] ELSE app
    /\ UNCHANGED <<state, slotVars, defer>>
    /\ \E sent \in Outcomes : SendOwedAck(OwedAtReturn, sent)

\* No debt is left when RECV fails: only delivered bytes owe an ACK.
RecvRelease ==
    /\ Returned /\ Releases(result)
    /\ Clear(selected)
    /\ UNCHANGED <<app, told>>

----------------------------------------------------------------------------
\* WAIT_FOR_EVENT: in RECV's wait, or in the wait of another call (pc = "idle").

Polls == pc = "wait" \/ (pc = "idle" /\ ~suspended /\ OtherCalls)

\* The wait ends on an error or on an event of the selected channel; bytes already
\* in the caller's buffer outrank its status.
EndWait(st) == Return(IF buf' # <<>> THEN "OK" ELSE st)
AfterFrame(raised, failed) ==
    IF pc = "idle" THEN UNCHANGED <<pc, result>>
    ELSE IF failed THEN EndWait("HW")
    ELSE IF raised = "NOTHING" THEN pc' = "wait" /\ UNCHANGED result
    ELSE IF raised = "RST" \/ buf' # <<>> THEN EndWait("RESET")
    ELSE pc' = "check" /\ UNCHANGED result

FitsBuffer(f) == free > 0 /\ free - Len(buf) >= f.len
FitsSlot(f) == off[f.ch] + Len(pend[f.ch]) + f.len <= MSS

InOrderOrAhead(f) == f.seq >= rcvNxt[f.ch]
InOrder(f) == f.seq = rcvNxt[f.ch]

\* The predicate of TCP_FAST_RECEIVE: it only reads state.
Fast(f) ==
    /\ f.ch = selected /\ state[f.ch] = "OPEN" /\ fin[f.ch] = 0
    /\ f.plain /\ ~f.fin /\ f.len > 0 /\ InOrder(f) /\ ~shut[f.ch]
    /\ free > 0 => ~hidden
    /\ FitsBuffer(f) \/ FitsSlot(f)

CommitAlways(f) == TRUE
\* The checksum is known only once the payload is in place.
Commits(f) == ~f.bad

\* A segment read from the card straight into the caller's buffer: the first one
\* of a RECV is acknowledged at once, later ones every AckEvery.
FrameDirect(f) ==
    /\ Polls /\ Fast(f) /\ FitsBuffer(f) /\ Commits(f)
    /\ UNCHANGED <<state, fin, slotVars, defer, selected, free, hidden, suspended, app>>
    /\ buf' = buf \o Bytes(f)
    /\ rcvNxt' = [rcvNxt EXCEPT ![f.ch] = @ + f.len]
    /\ match' = f.ch /\ direct' = TRUE
    /\ LET due == ~direct \/ owed + 1 >= AckEvery
       IN  /\ owed' = IF due THEN 0 ELSE owed + 1
           /\ \E sent \in Outcomes :
                /\ due \/ sent
                /\ SendOwedAck(due, sent)
                /\ IF sent /\ free - Len(buf') >= MSS
                   THEN UNCHANGED <<pc, result>> ELSE EndWait("HW")

\* A frame nothing comes of: not ours, dropped after a bad checksum, or refused by
\* TCP.PARSE after it was matched.  Whatever was owed is settled all the same.
FrameIgnored(matched) ==
    /\ Polls /\ match' \in matched
    /\ owed' = 0
    /\ UNCHANGED <<state, rcvNxt, fin, slotVars, defer, selected, free, buf, hidden,
                   suspended, direct, app>>
    /\ \E sent \in Outcomes :
         /\ owed > 0 \/ sent
         /\ SendOwedAck(owed > 0, sent) /\ AfterFrame("NOTHING", ~sent)

\* HANDLE_SEGMENT and the slot half of TCP_FAST_RECEIVE: payload that is in order,
\* inside an open window and fits goes to the slot; a FIN counts after its payload.
Accepts(f) == f.len > 0 /\ InOrder(f) /\ ~shut[f.ch] /\ FitsSlot(f)
TakesFin(f) == f.fin /\ (Accepts(f) \/ (f.len = 0 /\ InOrder(f)))

FrameStored(f) ==
    /\ Polls /\ ~f.bad /\ state[f.ch] = "OPEN" /\ ~(Fast(f) /\ FitsBuffer(f))
    /\ LET len == IF Accepts(f) THEN f.len ELSE 0
           end == IF TakesFin(f) THEN 1 ELSE 0
           due == f.len > 0 \/ f.fin \/ owed > 0
           raised == IF len + end > 0 /\ f.ch = selected THEN "DATA" ELSE "NOTHING"
       IN  /\ UNCHANGED <<state, off, defer, selected, free, buf, hidden, suspended,
                          direct, app>>
           /\ rcvNxt' = [rcvNxt EXCEPT ![f.ch] = @ + len + end]
           /\ fin' = [fin EXCEPT ![f.ch] = @ + end]
           /\ pend' = [pend EXCEPT ![f.ch] = @ \o SubSeq(Bytes(f), 1, len)]
           /\ match' = f.ch /\ owed' = 0
           /\ \E sent \in Outcomes :
                /\ due \/ sent
                /\ SendOwedAck(due, sent) /\ AfterFrame(raised, ~sent)

\* An RST at RCV.NXT ends the channel; nothing is acknowledged for it.
FrameReset(c) ==
    /\ Polls /\ PeerBreaks /\ state[c] = "OPEN"
    /\ state' = [state EXCEPT ![c] = "DOWN"]
    /\ match' = c /\ owed' = 0
    /\ UNCHANGED <<rcvNxt, fin, slotVars, defer, selected, free, buf, hidden, suspended,
                   direct, app>>
    /\ \E sent \in Outcomes :
         /\ owed > 0 \/ sent
         /\ SendOwedAck(owed > 0, sent)
         /\ AfterFrame(IF c = selected THEN "RST" ELSE "NOTHING", ~sent)

\* .PROTOCOL: a payload above TCP_MSS closes the context it matched, and the wait
\* of whoever is waiting ends before the debt is settled.
FrameOversized(c) ==
    /\ Polls /\ PeerBreaks /\ state[c] = "OPEN" /\ ~shut[c]
    /\ state' = [state EXCEPT ![c] = "DOWN"]
    /\ match' = c /\ UNCHANGED buf
    /\ IF pc = "idle" THEN UNCHANGED <<pc, result>> ELSE EndWait("PROTOCOL")
    /\ UNCHANGED <<rcvNxt, fin, slotVars, shut, defer, selected, free, hidden, suspended,
                   owed, direct, app, told>>

\* The card is empty: with bytes in the buffer RECV returns them, without any the
\* clock, Esc or a card error ends the wait some time.
WaitEnds ==
    /\ pc = "wait" /\ UNCHANGED buf
    /\ \E st \in {"TIMEOUT"} \cup (IF CardFaults THEN {"HW"} ELSE {}) : EndWait(st)
    /\ UNCHANGED <<ctxVars, selected, free, hidden, suspended, ackVars, app, told>>

----------------------------------------------------------------------------
\* The calls between RECVs.

\* SELECT_CONTEXT, the first thing every call on a TCP channel does.
Select(c) ==
    /\ OtherCalls /\ pc = "idle" /\ ~suspended /\ selected' = c
    /\ UNCHANGED <<ctxVars, free, buf, hidden, pc, result, suspended, ackVars, app, told>>

\* A SEND returns AGAIN: until it is resumed no call polls the card.
Suspend ==
    /\ OtherCalls /\ pc = "idle" /\ suspended' = TRUE
    /\ UNCHANGED <<ctxVars, selected, free, buf, hidden, pc, result, ackVars, app, told>>

\* RECV_BUFFERED: slot bytes only; the window update waits.
RecvBuffered(c, capacity) ==
    LET n == Least(Len(pend[c]), capacity)
    IN  /\ pc = "idle" /\ suspended /\ n > 0
        /\ app' = [app EXCEPT ![c] = @ \o SubSeq(pend[c], 1, n)]
        /\ pend' = [pend EXCEPT ![c] = SubSeq(@, n + 1, Len(@))]
        /\ off' = [off EXCEPT ![c] = IF n = Len(pend[c]) THEN 0 ELSE @ + n]
        /\ defer' = [defer EXCEPT ![c] = TRUE]
        /\ UNCHANGED <<state, rcvNxt, fin, shut, callVars, ackVars, told>>

\* The channels whose deferred update SEND_BEGIN_CALL sends.
DeferredUpdates == {c \in Channels : defer[c] /\ state[c] = "OPEN"}

\* SEND_BEGIN_CALL tries both channels and keeps those that failed.
ResumeSend ==
    /\ pc = "idle" /\ suspended /\ suspended' = FALSE
    /\ UNCHANGED <<state, rcvNxt, fin, slotVars, selected, free, buf, hidden, pc, result,
                   ackVars, app>>
    /\ \E lost \in SUBSET DeferredUpdates :
         /\ lost # {} => CardFaults
         /\ SendAcks(DeferredUpdates, lost)
         /\ defer' = [c \in Channels |-> defer[c] /\ c \notin DeferredUpdates \ lost]

\* CLOSE, or the ABORT of a suspended SEND: CLEAR_CONTEXT in every case.
Close(c) ==
    /\ OtherCalls /\ pc = "idle" /\ state[c] # "FREE"
    /\ Clear(c) /\ selected' = c /\ suspended' = FALSE
    /\ UNCHANGED <<rcvNxt, fin, free, buf, hidden, pc, result, ackVars, app, told>>

----------------------------------------------------------------------------
Next ==
    \/ \E c \in Channels, n \in Capacities :
         \/ \E h \in {FALSE, Hiding} : Recv(c, n, h)
         \/ RecvBuffered(c, n)
    \/ Check \/ Copy \/ RecvReturn \/ RecvRelease \/ WaitEnds
    \/ \E f \in Frames : FrameDirect(f) \/ FrameStored(f)
    \/ \E c \in Channels : FrameIgnored({match, c}) \/ FrameReset(c) \/ FrameOversized(c)
    \/ \E c \in Channels : Select(c) \/ Close(c)
    \/ Suspend \/ ResumeSend

\* The program runs on, the application calls RECV again and again, and the peer
\* retransmits until its next segment meets a RECV that polls the card.
Fairness ==
    /\ WF_vars(Check) /\ WF_vars(Copy) /\ WF_vars(RecvReturn) /\ WF_vars(RecvRelease)
    /\ WF_vars(WaitEnds)
    /\ \A c \in Channels :
         /\ SF_vars(\E n \in Capacities : Recv(c, n, FALSE))
         /\ SF_vars(\E f \in Frames : /\ pc = "wait" /\ selected = c /\ f.ch = c
                                      /\ InOrder(f) /\ f.len > 0 /\ ~f.bad
                                      /\ FrameDirect(f) \/ FrameStored(f))

Spec == Init /\ [][Next]_vars /\ Fairness

----------------------------------------------------------------------------
(* What RECV has returned, what lies in the caller's buffer and what waits  *)
(* in the slot are together the peer's stream up to RCV.NXT: a byte that   *)
(* is acknowledged is neither lost, repeated, reordered nor garbage, on    *)
(* whichever path and in whichever call it came.                           *)
Acknowledged(c) ==
    app[c] \o (IF c = selected THEN buf ELSE <<>>) \o pend[c]
StreamKept ==
    \A c \in Channels : state[c] = "OPEN" =>
        Acknowledged(c) = [i \in 1..(rcvNxt[c] - 1 - fin[c]) |-> i]

(* No channel is left silent on a shut window: between calls, a peer that  *)
(* was last told zero has bytes waiting in the slot, whose RECV reopens    *)
(* it, or a deferred update.  (Where the card lost that ACK the peer's own *)
(* probe finds the window.)                                                *)
ShutWindowReopens ==
    \A c \in Channels :
        pc = "idle" /\ state[c] = "OPEN" /\ fin[c] = 0 /\ told[c].wnd = 0
        => pend[c] # <<>> \/ defer[c] \/ told[c].lost

(* CLOSED is the last thing a channel says: by then the application has    *)
(* the whole stream of the peer.                                           *)
EndAfterTheStream ==
    pc = "return" /\ result = "CLOSED"
        => Len(app[selected]) = StreamLen /\ pend[selected] = <<>>

(* tcp.inc:137: "the debt is settled in full before RECV returns": between *)
(* calls the peer of an open channel was told everything that was taken,   *)
(* unless the card lost the ACK.  (With two channels the code breaks this: *)
(* see SendOwedAck and the README.)                                        *)
DebtSettled ==
    pc = "idle" => \A c \in Channels :
        state[c] = "OPEN" => told[c].lost \/ told[c].ack = rcvNxt[c]

(* docs/UNET509B.md:93: after RECV returns the peer may only send what the *)
(* channel's slot can hold.                                                *)
FinalWindowDurable ==
    pc = "idle" => \A c \in Channels : state[c] = "OPEN" => told[c].wnd <= MSS

(* tcp_transport.asm:508: bytes in the caller's buffer outrank the status, *)
(* which the next call still finds.                                        *)
CopiedBytesOutrankStatus == pc = "return" /\ buf # <<>> => result = "OK"

(* unet509b.asm:615: "Payload is returned by earlier successful RECV calls, *)
(* so no pending byte is discarded here", where F_RECV releases a channel. *)
ReleaseDiscardsNothing ==
    pc = "return" /\ Releases(result) => pend[selected] = <<>>

(* An application that keeps calling RECV gets the whole stream from a     *)
(* peer that never sends past the window it was told: RECV and the peer    *)
(* never wait for each other.                                              *)
StreamArrives == \A c \in Channels : <>(Len(app[c]) = StreamLen)

=============================================================================
