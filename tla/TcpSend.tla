------------------------------ MODULE TcpSend ------------------------------
(***************************************************************************)
(* The resumable SEND of UNET509B.DLL for one TCP channel: the hot         *)
(* executor lib/tcp_send_dll.asm, the cold planner lib/tcp_send_cold.asm,  *)
(* the part of HANDLE_SEGMENT that advances the send stream, and the       *)
(* F_SEND shim that parks a suspended call.  The peer and the IP network   *)
(* are the environment: packets are lost, duplicated and reordered, the    *)
(* peer takes any prefix of the new bytes of a segment and advertises any  *)
(* window of Windows.                                                      *)
(*                                                                         *)
(* Sequence numbers are Nat, position 1 is the first byte after the SYN.   *)
(* A byte is named by the SEND call that submitted it and its offset in    *)
(* that call's buffer, so that the stream the peer assembles can be        *)
(* compared with what the callers submitted.                               *)
(***************************************************************************)
EXTENDS Integers, Sequences

CONSTANTS
    MSS,            \* min(TCP_MSS, CTX_PEER_MSS), in bytes
    Lengths,        \* lengths a caller passes to SEND
    Windows,        \* windows the peer advertises
    Slices,         \* UNET_OPT_SENDSLICE values; 0 is the blocking mode
    Attempts,       \* DLL_SEND_ATTEMPTS
    WaitMs,         \* DLL_SEND_WAIT_MS, in polling quanta
    ProbeMax,       \* DLL_PROBE_MAX_MS, in polling quanta
    MaxCalls,       \* bound: SEND calls made
    MaxSeq,         \* bound: sequence positions of the stream
    PeerCloses,     \* the peer may send a FIN
    PeerResets,     \* the peer may send an RST
    TxFaults,       \* a transmission may fail in the card
    Interrupts      \* a wait may end on Esc or on a card error

ASSUME ConstAssumption ==
    /\ MSS \in Nat \ {0}
    /\ Lengths \subseteq Nat
    /\ Windows \subseteq Nat
    /\ Slices \subseteq Nat
    /\ Attempts \in Nat \ {0}
    /\ WaitMs \in Nat \ {0}
    /\ ProbeMax \in Nat \ {0}
    /\ MaxCalls \in Nat
    /\ MaxSeq \in Nat
    /\ {PeerCloses, PeerResets, TxFaults, Interrupts} \subseteq BOOLEAN

VARIABLES
    \* CTX_* fields of the channel's context
    state, sndUna, sndNxt, remoteWindow, retryLeft, sendFailed, event, remoteFin,
    \* S11_SEND_* continuation, owned by the planner
    phase, pointer, remaining, confirmed, active, target, msLeft, callLeft,
    probeInterval, probeMissed, probeAnswered,
    \* where the call is, the option and the wait in progress, the last status
    pc, slice, budget, elapsed, status, call, deferred,
    \* network and peer: segments sent so far, and what the peer has taken
    wire, got, peerNxt,
    \* history: the segments on the wire whose numbers SEND took back; bytes reported
    \* as confirmed, by position; quanta since the last accepted answer (or the first
    \* transmission), and in the sliced public call
    stray, told, silent, spent

ctxVars   == <<state, sndUna, sndNxt, remoteWindow, retryLeft, sendFailed, event, remoteFin>>
workVars  == <<phase, pointer, remaining, confirmed, active, target, msLeft, callLeft>>
probeVars == <<probeInterval, probeMissed, probeAnswered>>
callVars  == <<pc, slice, budget, elapsed, status, call, deferred>>
wireVars  == <<wire, stray>>
peerVars  == <<got, peerNxt>>
histVars  == <<told, silent, spent>>
vars      == <<ctxVars, workVars, probeVars, callVars, wireVars, peerVars, histVars>>

Phases   == {"NEXT", "DATA", "ACK", "PROBE", "WINDOW"}
Events   == {"ACK", "WINDOW", "FIN", "RST"}
Statuses == {"NONE", "OK", "AGAIN", "TIMEOUT", "WINDOW", "CLOSED", "RESET",
             "SEND_FAILED", "HW", "CANCELLED", "PROTOCOL"}

\* A byte of the stream: offset off of the buffer of SEND number call.
Tags    == [call : Nat, off : Nat]
NoTag   == [call |-> 0, off |-> 0]
Segment == [seq : Nat, len : Nat, call : Nat, off : Nat]
TagAt(m, p) == [call |-> m.call, off |-> m.off + (p - m.seq)]

\* Whatever the peer can have sent by now and the network may deliver, late,
\* again or in another order: seq is 0 up to its FIN and 1 after it.
FromPeer ==
    {m \in [seq : {0, 1}, ack : 1..peerNxt, wnd : Windows, fin : BOOLEAN, rst : BOOLEAN] :
        /\ m.seq = 1 \/ m.fin => PeerCloses
        /\ m.fin => m.seq = 0 /\ ~m.rst
        /\ m.rst => PeerResets}

Least(a, b) == IF a < b THEN a ELSE b

CtxType ==
    /\ state \in {"CLOSED", "ESTABLISHED", "CLOSE_WAIT"}
    /\ sndUna \in 1..(MaxSeq + 1) /\ sndNxt \in 1..(MaxSeq + 1)
    /\ remoteWindow \in Nat /\ retryLeft \in 0..Attempts
    /\ sendFailed \in BOOLEAN /\ event \subseteq Events /\ remoteFin \in {0, 1}

WorkType ==
    /\ phase \in Phases /\ pointer \in Nat /\ remaining \in Nat
    /\ confirmed \in Nat /\ active \in Nat /\ target \in Nat
    /\ msLeft \in Nat /\ callLeft \in Nat

CallType ==
    /\ probeInterval \in Nat /\ probeMissed \in 0..Attempts /\ probeAnswered \in BOOLEAN
    /\ pc \in {"idle", "begin", "step", "wait", "parked"}
    /\ slice \in Nat /\ budget \in Nat /\ elapsed \in Nat
    /\ status \in Statuses /\ call \in 0..MaxCalls /\ deferred \subseteq {0, 1}

PeerType ==
    /\ wire \subseteq Segment /\ stray \subseteq wire
    /\ got \in [1..MaxSeq -> Tags] /\ peerNxt \in 1..(MaxSeq + 1)
    /\ told \in [1..MaxSeq -> Tags] /\ silent \in Nat /\ spent \in Nat

TypeOK == CtxType /\ WorkType /\ CallType /\ PeerType

Init ==
    /\ state = "ESTABLISHED" /\ sndUna = 1 /\ sndNxt = 1
    /\ remoteWindow \in Windows
    /\ retryLeft = 0 /\ sendFailed = FALSE /\ event = {} /\ remoteFin = 0
    /\ phase = "NEXT" /\ pointer = 0 /\ remaining = 0 /\ confirmed = 0
    /\ active = 0 /\ target = 1 /\ msLeft = 0 /\ callLeft = 0
    /\ probeInterval = 0 /\ probeMissed = 0 /\ probeAnswered = FALSE
    /\ pc = "idle" /\ slice = 0 /\ budget = 0 /\ elapsed = 0
    /\ status = "NONE" /\ call = 0 /\ deferred = {}
    /\ wire = {} /\ stray = {} /\ got = [i \in 1..MaxSeq |-> NoTag] /\ peerNxt = 1
    /\ told = [i \in 1..MaxSeq |-> NoTag] /\ silent = 0 /\ spent = 0

----------------------------------------------------------------------------
\* The shim and the entry points SEND and SEND_RESUME.

Return(st) == pc' = "idle" /\ status' = st

SendErrorWithoutLatch(st, nxt) == Return(st) /\ sendFailed' = sendFailed

\* SEND_ERROR: a final error with bytes in flight makes the stream ambiguous.
SendError(st, nxt) ==
    /\ Return(st)
    /\ sendFailed' = (sendFailed \/ sndUna # nxt)

\* SEND_STREAM_CHECK and the latch: a new buffer may not be numbered.
Ambiguous == sendFailed \/ sndUna # sndNxt

Send(n, s) ==
    /\ pc = "idle" /\ state # "CLOSED" /\ ~Ambiguous
    /\ call < MaxCalls /\ sndNxt + n <= MaxSeq + 1
    /\ call' = call + 1 /\ slice' = s
    /\ pointer' = 0 /\ remaining' = n /\ confirmed' = 0 /\ active' = 0
    /\ phase' = "NEXT" /\ pc' = "begin"
    /\ UNCHANGED <<ctxVars, target, msLeft, callLeft, probeVars, budget, elapsed,
                   status, deferred, wireVars, peerVars, histVars>>

\* The state check comes first, then the latch and the stream check.
SendRefused ==
    /\ pc = "idle"
    /\ IF state = "CLOSED" THEN SendError("CLOSED", sndNxt)
       ELSE Ambiguous /\ SendError("SEND_FAILED", sndNxt)
    /\ pointer' = 0 /\ confirmed' = 0 /\ active' = 0 /\ phase' = "NEXT"
    /\ remaining' \in Lengths
    /\ UNCHANGED <<state, sndUna, sndNxt, remoteWindow, retryLeft, event, remoteFin,
                   target, msLeft, callLeft, probeVars, slice, budget, elapsed, call,
                   deferred, wireVars, peerVars, histVars>>

ResumeRestartsAttempt ==
    /\ pc = "parked" /\ pc' = "begin" /\ msLeft' = WaitMs
    /\ UNCHANGED <<ctxVars, phase, pointer, remaining, confirmed, active, target, callLeft,
                   probeVars, slice, budget, elapsed, status, call, deferred, wireVars,
                   peerVars, histVars>>

\* The shim lets only the identical channel, buffer and length in again.
Resume ==
    /\ pc = "parked" /\ pc' = "begin"
    /\ UNCHANGED <<ctxVars, workVars, probeVars, slice, budget, elapsed, status, call,
                   deferred, wireVars, peerVars, histVars>>

\* SEND_BEGIN_CALL: a fresh slice, then the deferred window ACKs of both channels.
BeginCall ==
    /\ pc = "begin"
    /\ callLeft' = slice /\ spent' = 0
    /\ \E failing \in SUBSET deferred :
         /\ failing # {} => TxFaults
         /\ deferred' = failing
         /\ IF failing = {}
            THEN pc' = "step" /\ UNCHANGED <<status, sendFailed>>
            ELSE SendError("HW", sndNxt)
    /\ UNCHANGED <<state, sndUna, sndNxt, remoteWindow, retryLeft, event, remoteFin,
                   phase, pointer, remaining, confirmed, active, target, msLeft,
                   probeVars, slice, budget, elapsed, call, wireVars, peerVars, told, silent>>

----------------------------------------------------------------------------
\* SEND_STEP: the planner's dispatch.

WaitsForWindowOnly == phase = "WINDOW"
Waiting == phase \in {"ACK", "WINDOW"}
Expired == Waiting /\ msLeft = 0
Runnable == pc = "step" /\ remaining > 0 /\ ~Expired /\ (slice = 0 \/ callLeft > 0)

StepDone ==
    /\ pc = "step" /\ remaining = 0
    /\ Return("OK")
    /\ UNCHANGED <<ctxVars, workVars, probeVars, slice, budget, elapsed, call,
                   deferred, wireVars, peerVars, histVars>>

SpentRetry == retryLeft - 1

\* SEND_EXPIRED in the data phase: one attempt is spent.
StepExpiredData ==
    /\ pc = "step" /\ remaining > 0 /\ Expired /\ phase = "ACK"
    /\ retryLeft' = SpentRetry
    /\ IF retryLeft' = 0
       THEN SendError("TIMEOUT", sndNxt) /\ phase' = phase
       ELSE phase' = "DATA" /\ UNCHANGED <<pc, status, sendFailed>>
    /\ UNCHANGED <<state, sndUna, sndNxt, remoteWindow, event, remoteFin,
                   pointer, remaining, confirmed, active, target, msLeft, callLeft,
                   probeVars, slice, budget, elapsed, call, deferred, wireVars,
                   peerVars, histVars>>

PeerSilentLate == ~probeAnswered /\ probeMissed + 1 > Attempts
PeerSilent == ~probeAnswered /\ probeMissed + 1 = Attempts

\* SEND_EXPIRED in the window phase: only an unanswered probe counts.
StepExpiredWindow ==
    /\ pc = "step" /\ remaining > 0 /\ Expired /\ phase = "WINDOW"
    /\ probeMissed' = IF probeAnswered THEN probeMissed ELSE probeMissed + 1
    /\ IF PeerSilent
       THEN SendError("WINDOW", sndNxt) /\ UNCHANGED <<phase, probeInterval>>
       ELSE /\ phase' = "PROBE"
            /\ probeInterval' = Least(2 * probeInterval, ProbeMax)
            /\ UNCHANGED <<pc, status, sendFailed>>
    /\ UNCHANGED <<state, sndUna, sndNxt, remoteWindow, retryLeft, event, remoteFin,
                   pointer, remaining, confirmed, active, target, msLeft, callLeft,
                   probeAnswered, slice, budget, elapsed, call, deferred, wireVars,
                   peerVars, histVars>>

\* TCP_ERR_AGAIN: the shim parks the call, nothing else changes.
StepAgain ==
    /\ pc = "step" /\ remaining > 0 /\ ~Expired /\ slice # 0 /\ callLeft = 0
    /\ pc' = "parked" /\ status' = "AGAIN"
    /\ UNCHANGED <<ctxVars, workVars, probeVars, slice, budget, elapsed, call,
                   deferred, wireVars, peerVars, histVars>>

\* SEND_PREPARE: number the next segment, or turn to probing a shut window.
StepPrepare ==
    /\ Runnable /\ phase = "NEXT"
    /\ silent' = 0
    /\ IF remoteWindow = 0
       THEN /\ phase' = "PROBE" /\ probeInterval' = WaitMs /\ probeMissed' = 0
            /\ UNCHANGED <<active, sndNxt, target, retryLeft>>
       ELSE /\ active' = Least(Least(remaining, remoteWindow), MSS)
            /\ sndNxt' = sndNxt + active' /\ target' = sndNxt'
            /\ retryLeft' = Attempts /\ phase' = "DATA"
            /\ UNCHANGED <<probeInterval, probeMissed>>
    /\ UNCHANGED <<state, sndUna, remoteWindow, sendFailed, event, remoteFin,
                   pointer, remaining, confirmed, msLeft, callLeft, probeAnswered,
                   callVars, wireVars, peerVars, told, spent>>

IntervalNotDoubled == WaitMs
Interval ==
    IF retryLeft = Attempts THEN WaitMs
    ELSE IF retryLeft = Attempts - 1 THEN 2 * WaitMs ELSE 4 * WaitMs

SegmentFromBufferStart == [seq |-> sndUna, len |-> active, call |-> call, off |-> 0]
ActiveSegment == [seq |-> sndUna, len |-> active, call |-> call, off |-> pointer]

RewoundAlways == sndUna
Rewound == IF retryLeft = Attempts THEN sndUna ELSE sndNxt

OnlyAckCleared == event \ {"ACK"}
ClearedEvents == event \ Events

\* SEND_DATA: the frame leaves, or the card reports a failure.  A failed
\* transmission may have left all the same (el3_fifo.asm never resends an
\* uncertain frame); SND.NXT is rewound only when it was the first one.
StepData ==
    /\ Runnable /\ phase = "DATA"
    /\ msLeft' = Interval /\ phase' = "ACK" /\ event' = ClearedEvents
    /\ \/ /\ wire' = wire \cup {ActiveSegment}
          /\ UNCHANGED <<stray, sndNxt, sendFailed, pc, status>>
       \/ /\ TxFaults
          /\ \/ UNCHANGED wireVars
             \/ /\ wire' = wire \cup {ActiveSegment}
                /\ stray' = IF retryLeft = Attempts THEN stray \cup {ActiveSegment}
                            ELSE stray
          /\ sndNxt' = Rewound
          /\ SendError("HW", sndNxt')
    /\ UNCHANGED <<state, sndUna, remoteWindow, retryLeft, remoteFin,
                   pointer, remaining, confirmed, active, target, callLeft, probeVars,
                   slice, budget, elapsed, call, deferred, peerVars, histVars>>

ProbeOfNextByte == [seq |-> sndNxt, len |-> 1, call |-> call, off |-> pointer]
ProbeSegment == [seq |-> sndNxt - 1, len |-> 1, call |-> call, off |-> pointer]

\* SEND_WINDOW_PROBE: the next unsent byte at SND.NXT-1, an acknowledged position.
StepProbe ==
    /\ Runnable /\ phase = "PROBE"
    /\ msLeft' = probeInterval /\ probeAnswered' = FALSE
    /\ phase' = "WINDOW" /\ event' = ClearedEvents
    /\ target' = sndNxt - 1
    /\ \/ /\ wire' = wire \cup {ProbeSegment}
          /\ UNCHANGED <<sendFailed, pc, status>>
       \/ /\ TxFaults /\ wire' \in {wire, wire \cup {ProbeSegment}}
          /\ SendError("HW", sndNxt)
    /\ UNCHANGED <<state, sndUna, sndNxt, remoteWindow, retryLeft, remoteFin,
                   pointer, remaining, confirmed, active, callLeft, probeInterval,
                   probeMissed, slice, budget, elapsed, call, deferred, stray, peerVars,
                   histVars>>

BudgetOfAttempt == msLeft
WaitBudget == IF slice = 0 THEN msLeft ELSE Least(callLeft, msLeft)

StepWait ==
    /\ Runnable /\ Waiting
    /\ budget' = WaitBudget /\ elapsed' = 0 /\ pc' = "wait"
    /\ UNCHANGED <<ctxVars, workVars, probeVars, slice, status, call, deferred, wireVars,
                   peerVars, histVars>>

----------------------------------------------------------------------------
\* WAIT_FOR_EVENT, SEND_CHARGE and SEND_RESULT.

FreeWhenInstant(e) == e
AtLeastOne(e) == IF e = 0 THEN 1 ELSE e

\* SEND_CHARGE: an event found at once still costs one quantum.
Charge(e) ==
    LET cost == AtLeastOne(e)
        SatSub(x) == IF x < cost THEN 0 ELSE x - cost
    IN  /\ msLeft' = SatSub(msLeft)
        /\ callLeft' = IF slice = 0 THEN callLeft ELSE SatSub(callLeft)

\* HANDLE_SEGMENT, send side.  TCP_ACK_SEQUENCE refuses a segment wholly before
\* RCV.NXT; an ACK counts only if it covers everything numbered so far.
Acceptable(m) == ~m.rst /\ m.seq >= remoteFin
TakesAck(m)   == Acceptable(m) /\ m.ack = sndNxt
TakesFin(m)   == Acceptable(m) /\ m.fin /\ m.seq = remoteFin /\ remoteFin = 0
TakesRst(m)   == m.rst /\ m.seq = remoteFin
Raised(m) ==
    {e \in Events : \/ e = "ACK" /\ TakesAck(m)
                    \/ e = "WINDOW" /\ TakesAck(m) /\ m.wnd > 0
                    \/ e = "FIN" /\ TakesFin(m)
                    \/ e = "RST" /\ TakesRst(m)}
HandleSegment(m) ==
    /\ sndUna' = IF TakesAck(m) THEN sndNxt ELSE sndUna
    /\ remoteWindow' = IF TakesAck(m) THEN m.wnd ELSE remoteWindow
    /\ remoteFin' = IF TakesFin(m) THEN 1 ELSE remoteFin
    /\ state' = IF TakesRst(m) THEN "CLOSED"
                ELSE IF TakesFin(m) THEN "CLOSE_WAIT" ELSE state

\* History: n more bytes of this call's buffer are reported as confirmed.
Tell(n) ==
    /\ told' = [p \in 1..MaxSeq |->
                  IF p \in sndUna..(sndUna + n - 1)
                  THEN [call |-> call, off |-> pointer + (p - sndUna)] ELSE told[p]]
    /\ UNCHANGED <<silent, spent>>

\* TCP_SEND_EVENT's partial acknowledgement on a FIN, at most the segment.
Partial(m) == IF m.ack \in sndUna..(sndUna + active) THEN m.ack - sndUna ELSE 0

\* A frame that raises nothing awaited leaves the wait running.
WaitIgnored(m) ==
    /\ pc = "wait"
    /\ Raised(m) = {}
    /\ HandleSegment(m)
    /\ UNCHANGED <<sndNxt, retryLeft, sendFailed, event, workVars, probeVars, callVars,
                   wireVars, peerVars, histVars>>

\* A RST ends the channel inside SEND.
WaitReset(m) ==
    /\ pc = "wait" /\ "RST" \in Raised(m)
    /\ HandleSegment(m) /\ Charge(elapsed) /\ SendError("RESET", sndNxt)
    /\ UNCHANGED <<sndNxt, retryLeft, event, phase, pointer, remaining, confirmed, active,
                   target, probeVars, slice, budget, elapsed, call, deferred, wireVars,
                   peerVars, histVars>>

\* The whole segment is acknowledged: TCP_SEND_EVENT answers 0, even beside a FIN.
WaitAcked(m) ==
    /\ pc = "wait" /\ phase = "ACK" /\ Raised(m) \cap {"ACK", "FIN"} # {}
    /\ HandleSegment(m) /\ Charge(elapsed) /\ sndUna' = target
    /\ pointer' = pointer + active /\ confirmed' = confirmed + active
    /\ remaining' = remaining - active /\ active' = 0 /\ phase' = "NEXT"
    /\ Tell(active) /\ pc' = "step"
    /\ UNCHANGED <<sndNxt, retryLeft, sendFailed, event, target, probeVars, slice, budget,
                   elapsed, status, call, deferred, wireVars, peerVars>>

\* A FIN before the whole segment is acknowledged ends the SEND.
WaitClosed(m) ==
    /\ pc = "wait" /\ phase = "ACK" /\ "FIN" \in Raised(m)
    /\ HandleSegment(m) /\ Charge(elapsed) /\ sndUna' # target
    /\ confirmed' = confirmed + Partial(m)
    /\ Tell(Partial(m)) /\ SendError("CLOSED", sndNxt)
    /\ UNCHANGED <<sndNxt, retryLeft, event, phase, pointer, remaining, active, target,
                   probeVars, slice, budget, elapsed, call, deferred, wireVars, peerVars>>

\* An answer to a probe, or a FIN while probing: neither restarts the interval.
WaitWindow(m) ==
    /\ pc = "wait" /\ phase = "WINDOW" /\ "RST" \notin Raised(m)
    /\ Raised(m) # {}
    /\ HandleSegment(m) /\ Charge(elapsed)
    /\ IF "ACK" \in Raised(m)
       THEN probeMissed' = 0 /\ probeAnswered' = TRUE /\ silent' = 0
       ELSE UNCHANGED <<probeMissed, probeAnswered, silent>>
    /\ phase' = IF remoteWindow' = 0 THEN phase ELSE "NEXT"
    /\ pc' = "step"
    /\ UNCHANGED <<sndNxt, retryLeft, sendFailed, event, pointer, remaining, confirmed,
                   active, target, probeInterval, slice, budget, elapsed, status, call,
                   deferred, wireVars, peerVars, told, spent>>

\* NETTIME.TICK: the last quantum of the wait reports a timeout.
WaitTick ==
    /\ pc = "wait"
    /\ elapsed' = elapsed + 1 /\ silent' = silent + 1
    /\ spent' = IF slice = 0 THEN 0 ELSE spent + 1
    /\ IF elapsed' = budget
       THEN Charge(elapsed') /\ pc' = "step"
       ELSE UNCHANGED <<msLeft, callLeft, pc>>
    /\ UNCHANGED <<ctxVars, phase, pointer, remaining, confirmed, active, target,
                   probeVars, slice, budget, status, call, deferred, wireVars, peerVars, told>>

\* The ACK a frame with data or a FIN has earned cannot be sent: the wait ends
\* after HANDLE_SEGMENT, with the frame's events still raised.
WaitAckFailed(m) ==
    /\ pc = "wait" /\ TxFaults /\ ~m.rst
    /\ HandleSegment(m) /\ event' = event \cup Raised(m)
    /\ Charge(elapsed)
    /\ Return("HW") /\ sendFailed' = (sendFailed \/ sndUna' # sndNxt)
    /\ UNCHANGED <<sndNxt, retryLeft, phase, pointer, remaining, confirmed, active, target,
                   probeVars, slice, budget, elapsed, call, deferred, wireVars, peerVars,
                   histVars>>

\* CHECK_CANCEL, a card error other than a bad frame, or FAIL_CONTEXT on an
\* oversized segment, which closes the context it matched: this or the other one.
WaitFailed ==
    /\ pc = "wait" /\ Interrupts
    /\ Charge(elapsed)
    /\ \E st \in {"CANCELLED", "HW", "PROTOCOL"} :
         /\ SendError(st, sndNxt)
         /\ state' \in (IF st = "PROTOCOL" THEN {state, "CLOSED"} ELSE {state})
    /\ UNCHANGED <<sndUna, sndNxt, remoteWindow, retryLeft, event, remoteFin,
                   phase, pointer, remaining, confirmed, active, target, probeVars,
                   slice, budget, elapsed, call, deferred, wireVars, peerVars, histVars>>

----------------------------------------------------------------------------
\* Other calls that meet the continuation.

\* RECV while a SEND is suspended: buffered bytes only, the window ACK is deferred.
RecvBuffered(c) ==
    /\ pc = "parked" /\ c \notin deferred
    /\ deferred' = deferred \cup {c}
    /\ UNCHANGED <<ctxVars, workVars, probeVars, pc, slice, budget, elapsed, status, call,
                   wireVars, peerVars, histVars>>

\* RECV between SENDs, on this channel or the other, polls the card: late ACKs, a
\* FIN or a RST are taken here.  This channel's RECV consumes FIN and RST only.
RecvPoll(m) ==
    /\ pc = "idle" /\ state # "CLOSED"
    /\ HandleSegment(m)
    /\ \E consumed \in {{}, {"FIN", "RST"}} : event' = event \cup (Raised(m) \ consumed)
    /\ UNCHANGED <<sndNxt, retryLeft, sendFailed, workVars, probeVars, callVars, wireVars,
                   peerVars, histVars>>

----------------------------------------------------------------------------
\* The peer takes n new bytes of any segment sent so far that covers its next
\* position; what it answers, and when, is FromPeer.
PeerTake(m, n) ==
    /\ m.seq <= peerNxt /\ peerNxt + n <= m.seq + m.len
    /\ got' = [p \in 1..MaxSeq |->
                 IF p \in peerNxt..(peerNxt + n - 1) THEN TagAt(m, p) ELSE got[p]]
    /\ peerNxt' = peerNxt + n
    /\ UNCHANGED <<ctxVars, workVars, probeVars, callVars, wireVars, histVars>>

----------------------------------------------------------------------------
Step == StepDone \/ StepExpiredData \/ StepExpiredWindow \/ StepAgain \/ StepPrepare
        \/ StepData \/ StepProbe \/ StepWait
WaitFrame(m) == WaitIgnored(m) \/ WaitReset(m) \/ WaitAcked(m) \/ WaitClosed(m)
                \/ WaitWindow(m) \/ WaitAckFailed(m)

Next ==
    \/ \E n \in Lengths, s \in Slices : Send(n, s)
    \/ SendRefused \/ Resume \/ BeginCall
    \/ Step
    \/ \E m \in FromPeer : WaitFrame(m) \/ RecvPoll(m)
    \/ WaitTick \/ WaitFailed
    \/ \E c \in {0, 1} : RecvBuffered(c)
    \/ \E m \in wire, n \in 1..MSS : PeerTake(m, n)

\* The call runs on the program's own stack: its steps and the clock go on.
Fairness == WF_vars(BeginCall) /\ WF_vars(Step) /\ WF_vars(WaitTick)

Spec == Init /\ [][Next]_vars /\ Fairness

----------------------------------------------------------------------------
\* The positions of the stream that a stray segment offers the peer.
StrayBytes == UNION {m.seq..(m.seq + m.len - 1) : m \in stray}

(* Every byte SEND reported as confirmed (DE of F_SEND) is in the stream   *)
(* the peer assembled, at the position of that very byte: across           *)
(* retransmission, AGAIN and resume, partial ACKs and refused SENDs.  Only *)
(* where a first transmission left although the card reported it as failed *)
(* may the byte be that of the stray segment.                              *)
ConfirmedReachedPeer ==
    \A p \in 1..MaxSeq : told[p] # NoTag =>
        p < peerNxt /\ (got[p] = told[p] \/ p \in StrayBytes)

(* The same without the exception.  The code violates it (SND.NXT is       *)
(* rewound over a frame that may have left); no run checks it.             *)
ConfirmedWithoutException ==
    \A p \in 1..MaxSeq : told[p] # NoTag => p < peerNxt /\ got[p] = told[p]

(* Between calls either SEND is refused until CLOSE, or every segment on   *)
(* the wire is acknowledged, but for strays: the latch of SEND_ERROR covers*)
(* every exit of the executor.                                             *)
AmbiguousStreamIsLatched ==
    pc = "idle" /\ ~sendFailed =>
        sndUna = sndNxt /\ \A m \in wire \ stray : m.seq + m.len <= sndUna

(* A window probe never offers the peer a new byte: whatever is on the     *)
(* wire past SND.UNA is the one segment in flight, retransmitted as it was,*)
(* or a stray of an earlier call.                                          *)
OneSegmentInFlight ==
    \A m, n \in wire \ stray :
        /\ m.seq + m.len <= sndNxt
        /\ m.seq + m.len > sndUna /\ n.seq + n.len > sndUna /\ pc # "idle" => m = n

(* A wait never starts on an event of an earlier segment or call: SEND_STEP*)
(* clears them with the transmission, so only a new answer ends the wait.  *)
WaitStartsWithoutEvents == pc = "wait" => event \cap Events = {}

(* The ladder of waits a segment gets: W, 2W, then 4W each.                *)
Ladder ==
    IF Attempts = 1 THEN WaitMs ELSE 3 * WaitMs + (Attempts - 2) * 4 * WaitMs

(* SEND gives a segment up after the whole ladder and not later, however   *)
(* the call is sliced, resumed or disturbed by old ACKs; and gives a shut  *)
(* window up only after as many unanswered probes of at least W each (a FIN*)
(* that ends one of those waits at once costs one quantum of it).          *)
GivesUpAfterTheLadder ==
    /\ pc = "idle" /\ status = "TIMEOUT" => silent = Ladder
    /\ pc = "idle" /\ status = "WINDOW" => silent + remoteFin >= Attempts * WaitMs
    /\ pc # "idle" /\ phase = "ACK" => silent <= Ladder

(* With SENDSLICE set a public call polls for at most that many quanta,    *)
(* whatever the attempt still has left.                                    *)
SliceBoundsTheCall == pc # "begin" /\ slice > 0 => spent <= slice

(* The bytes of every SEND appear once and in order in the peer's stream,  *)
(* and DE grows only over bytes that are there, until a segment is stray   *)
(* (SendContract).                                                         *)
Contract ==
    INSTANCE SendContract WITH
        MaxBytes <- MaxSeq, calls <- call,
        stream <- [p \in 1..(peerNxt - 1) |-> got[p]],
        confirmed <- {told[p] : p \in 1..MaxSeq} \ {NoTag},
        void <- stray # {}

KeepsContract == Contract!Spec

(* With SENDSLICE set every public call comes back, however the peer       *)
(* floods it with probe answers: each answer costs at least one quantum.   *)
SlicedCallReturns == slice > 0 /\ pc = "begin" ~> pc \in {"idle", "parked"}

(* A blocking SEND leaves every segment: it is acknowledged or given up.   *)
BlockingSegmentEnds ==
    slice = 0 /\ pc # "idle" /\ phase = "ACK" ~> pc = "idle" \/ phase = "NEXT"

=============================================================================
