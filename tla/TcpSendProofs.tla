--------------------------- MODULE TcpSendProofs ---------------------------
(***************************************************************************)
(* Proofs about the resumable SEND for every value of the constants that   *)
(* ConstAssumption allows.  A first transmission that leaves although the  *)
(* card reports it as failed is part of the model: the history variable    *)
(* stray remembers it, and the invariant says what holds around it.        *)
(***************************************************************************)
EXTENDS TcpSend, TLAPS

InCall == pc # "idle"
Numbered == phase \in {"DATA", "ACK"}

\* Where a call stands: the numbers it works with agree with each other.
BoundsInv ==
    /\ sndUna <= peerNxt /\ sndUna <= sndNxt
    /\ \A m \in wire : m.seq + m.len <= MaxSeq + 1
    /\ InCall =>
        /\ sndUna + remaining <= MaxSeq + 1
        /\ pc = "wait" => phase \in {"ACK", "WINDOW"} /\ remaining > 0
        /\ ~Numbered => sndUna = sndNxt
        /\ phase \in {"PROBE", "WINDOW"} => probeMissed < Attempts /\ remaining > 0
        /\ Numbered => /\ active \in 1..remaining /\ sndNxt = sndUna + active
                       /\ target = sndNxt /\ retryLeft \in 1..Attempts

\* What is on the wire and at the peer past SND.UNA is the segment in flight, or
\* comes from a stray segment; a segment not sent yet has nothing there but strays.
FlightInv ==
    /\ \A m \in wire \ stray : m.seq + m.len <= sndNxt
    /\ \A p \in sndNxt..(peerNxt - 1) : p \in StrayBytes
    /\ InCall /\ Numbered =>
        /\ \A p \in sndUna..(peerNxt - 1) :
             p \in StrayBytes \/ got[p] = [call |-> call, off |-> pointer + (p - sndUna)]
        /\ \A m \in wire \ stray : m.seq + m.len > sndUna => m = ActiveSegment
    /\ InCall /\ phase = "DATA" /\ retryLeft = Attempts =>
        /\ \A p \in sndUna..(peerNxt - 1) : p \in StrayBytes
        /\ \A m \in wire \ stray : m.seq + m.len <= sndUna

\* SEND_ERROR leaves no numbered byte behind without the latch.
LatchInv == pc = "idle" => sendFailed \/ sndUna = sndNxt

\* The part of the invariant about the stream, and the whole of it.
StreamInv == BoundsInv /\ FlightInv /\ ConfirmedReachedPeer /\ LatchInv
IInv == TypeOK /\ StreamInv

\* The definitions that only name groups of variables or values.
USE DEF Least, NoTag, Tags, Events, Phases, Statuses, Return, wireVars

----------------------------------------------------------------------------
(* What the operators shared by the actions do to the state.               *)

(* SEND_CHARGE leaves saturated, nonnegative budgets.                      *)
LEMMA ChargeType ==
    ASSUME TypeOK, NEW e \in Nat, Charge(e)
    PROVE  msLeft' \in Nat /\ callLeft' \in Nat
BY DEF TypeOK, CtxType, WorkType, CallType, PeerType, Charge, AtLeastOne

(* An answer of the peer is well formed and acknowledges only what it has. *)
LEMMA FromPeerType ==
    ASSUME TypeOK, NEW m \in FromPeer
    PROVE  /\ m.seq \in {0, 1} /\ m.ack \in 1..peerNxt /\ m.wnd \in Nat
           /\ m.fin \in BOOLEAN /\ m.rst \in BOOLEAN
BY ConstAssumption DEF TypeOK, CtxType, WorkType, CallType, PeerType, FromPeer

(* HANDLE_SEGMENT moves SND.UNA only to SND.NXT, and only when the peer    *)
(* has everything numbered.                                                *)
LEMMA HandleSegmentStep ==
    ASSUME TypeOK, NEW m \in FromPeer, HandleSegment(m)
    PROVE  /\ state' \in {"CLOSED", "ESTABLISHED", "CLOSE_WAIT"}
           /\ remoteWindow' \in Nat /\ remoteFin' \in {0, 1}
           /\ sndUna' = sndUna \/ (sndUna' = sndNxt /\ sndNxt <= peerNxt)
           /\ "ACK" \notin Raised(m) => sndUna' = sndUna
BY FromPeerType
   DEF TypeOK, CtxType, WorkType, CallType, PeerType, HandleSegment, TakesAck, Raised

(* A confirmed prefix of the segment is told byte by byte.                 *)
LEMMA TellType ==
    ASSUME TypeOK, NEW n \in Nat, Tell(n)
    PROVE  told' \in [1..MaxSeq -> Tags]
BY SMTT(60) DEF TypeOK, CtxType, WorkType, CallType, PeerType, Tell

(* A partial acknowledgement covers at most the segment and what the peer  *)
(* has of it.                                                              *)
LEMMA PartialBound ==
    ASSUME TypeOK, NEW m \in FromPeer
    PROVE  /\ Partial(m) \in 0..active
           /\ sndUna <= peerNxt => sndUna + Partial(m) <= peerNxt
BY FromPeerType, SMTT(60) DEF TypeOK, CtxType, WorkType, CallType, PeerType, Partial

LEMMA IntervalType == ASSUME TypeOK PROVE Interval \in Nat
BY ConstAssumption DEF TypeOK, CtxType, WorkType, CallType, PeerType, Interval

LEMMA ActiveSegmentType == ASSUME TypeOK PROVE ActiveSegment \in Segment
BY ConstAssumption DEF TypeOK, CtxType, WorkType, CallType, PeerType, ActiveSegment, Segment

LEMMA ProbeSegmentType == ASSUME TypeOK PROVE ProbeSegment \in Segment
BY ConstAssumption DEF TypeOK, CtxType, WorkType, CallType, PeerType, ProbeSegment, Segment

----------------------------------------------------------------------------
(* Type correctness is preserved by every step from the invariant.         *)
LEMMA TypeInductive ==
    ASSUME TypeOK, BoundsInv, [Next]_vars
    PROVE  TypeOK'
<1> USE ConstAssumption DEF TypeOK, BoundsInv, InCall, Numbered
<1>Ctx. UNCHANGED ctxVars => CtxType'
  BY DEF CtxType, ctxVars
<1>Work. UNCHANGED workVars => WorkType'
  BY DEF WorkType, workVars
<1>Call. UNCHANGED <<probeVars, callVars>> => CallType'
  BY DEF CallType, probeVars, callVars
<1>Peer. UNCHANGED <<wireVars, peerVars, histVars>> => PeerType'
  BY DEF PeerType, peerVars, histVars
<1>1. ASSUME NEW n \in Lengths, NEW s \in Slices, Send(n, s)
      PROVE  TypeOK'
  <2>1. WorkType'
    BY <1>1 DEF WorkType, Send
  <2>2. CallType'
    BY <1>1 DEF CallType, Send, probeVars
  <2> QED
    BY <1>1, <2>1, <2>2, <1>Ctx, <1>Peer DEF Send, vars
<1>2. ASSUME SendRefused
      PROVE  TypeOK'
  <2>1. CtxType'
    BY <1>2 DEF CtxType, SendRefused, SendError
  <2>2. WorkType'
    BY <1>2 DEF WorkType, SendRefused, SendError
  <2>3. CallType'
    BY <1>2 DEF CallType, SendRefused, SendError, probeVars
  <2> QED
    BY <1>2, <2>1, <2>2, <2>3, <1>Peer DEF SendRefused, vars
<1>3. ASSUME Resume
      PROVE  TypeOK'
  <2>1. CallType'
    BY <1>3 DEF CallType, Resume, probeVars
  <2> QED
    BY <1>3, <2>1, <1>Ctx, <1>Work, <1>Peer DEF Resume, vars
<1>4. ASSUME BeginCall
      PROVE  TypeOK'
  <2>1. CtxType'
    BY <1>4 DEF CtxType, BeginCall, SendError
  <2>2. WorkType'
    BY <1>4
       DEF CtxType, WorkType, CallType, PeerType, BeginCall, SendError, ctxVars, workVars,
           probeVars, callVars, peerVars, histVars
  <2>3. CallType'
    BY <1>4 DEF CallType, BeginCall, SendError, probeVars
  <2>4. PeerType'
    BY <1>4 DEF PeerType, BeginCall, SendError, peerVars
  <2> QED
    BY <1>4, <2>1, <2>2, <2>3, <2>4 DEF BeginCall, vars
<1>5. ASSUME StepDone
      PROVE  TypeOK'
  <2>1. CallType'
    BY <1>5 DEF CallType, StepDone, probeVars
  <2> QED
    BY <1>5, <2>1, <1>Ctx, <1>Work, <1>Peer DEF StepDone, vars
<1>6. ASSUME StepExpiredData
      PROVE  TypeOK'
  <2>1. retryLeft' \in 0..Attempts
    BY <1>6 DEF CtxType, StepExpiredData, SpentRetry
  <2>2. sendFailed' \in BOOLEAN
    BY <1>6 DEF CtxType, StepExpiredData, SendError
  <2>3. CtxType'
    BY <1>6, <2>1, <2>2 DEF CtxType, StepExpiredData
  <2>4. WorkType'
    BY <1>6 DEF WorkType, StepExpiredData, SendError, SpentRetry, Expired, Waiting
  <2>5. CallType'
    BY <1>6
       DEF CallType, StepExpiredData, SendError, SpentRetry, Expired, Waiting, probeVars
  <2> QED
    BY <1>6, <2>3, <2>4, <2>5, <1>Peer DEF StepExpiredData, vars
<1>7. ASSUME StepExpiredWindow
      PROVE  TypeOK'
  <2>1. CtxType'
    BY <1>7 DEF CtxType, StepExpiredWindow, SendError, PeerSilent, Expired, Waiting
  <2>2. WorkType'
    BY <1>7 DEF WorkType, StepExpiredWindow, SendError, PeerSilent, Expired, Waiting
  <2>3. CallType'
    BY <1>7 DEF CallType, StepExpiredWindow, SendError, PeerSilent, Expired, Waiting
  <2> QED
    BY <1>7, <2>1, <2>2, <2>3, <1>Peer DEF StepExpiredWindow, vars
<1>8. ASSUME StepAgain
      PROVE  TypeOK'
  <2>1. CallType'
    BY <1>8 DEF CallType, StepAgain, probeVars
  <2> QED
    BY <1>8, <2>1, <1>Ctx, <1>Work, <1>Peer DEF StepAgain, vars
<1>9. ASSUME StepPrepare
      PROVE  TypeOK'
  <2>1. remoteWindow # 0 => active' \in 1..remaining
    BY <1>9 DEF CtxType, WorkType, StepPrepare, Runnable
  <2>2. /\ sndNxt' \in 1..(MaxSeq + 1)
         /\ active' \in Nat /\ target' \in Nat
    BY <1>9, <2>1 DEF CtxType, WorkType, StepPrepare, Runnable
  <2>3. retryLeft' \in 0..Attempts
    BY <1>9 DEF CtxType, StepPrepare
  <2>4. CtxType'
    <3>1. CASE remoteWindow = 0
      BY <1>9, <2>2, <2>3, <3>1 DEF CtxType, StepPrepare
    <3>2. CASE ~(remoteWindow = 0)
      BY <1>9, <2>2, <2>3, <3>2 DEF CtxType, StepPrepare
    <3> QED
      BY <3>1, <3>2
  <2>5. WorkType'
    BY <1>9, <2>2 DEF WorkType, StepPrepare
  <2>6. CallType'
    BY <1>9 DEF CallType, StepPrepare, Runnable, callVars
  <2>7. PeerType'
    BY <1>9 DEF PeerType, StepPrepare, Runnable, peerVars
  <2> QED
    BY <1>9, <2>4, <2>5, <2>6, <2>7 DEF StepPrepare, vars
<1>10. ASSUME StepData
      PROVE  TypeOK'
  <2>1. CtxType'
    BY <1>10, IntervalType, ActiveSegmentType
       DEF CtxType, StepData, SendError, Runnable, Rewound, ClearedEvents
  <2>2. WorkType'
    BY <1>10, IntervalType, ActiveSegmentType
       DEF WorkType, StepData, SendError, Runnable, Rewound, ClearedEvents
  <2>3. CallType'
    BY <1>10, IntervalType, ActiveSegmentType
       DEF CallType, StepData, SendError, Runnable, Rewound, ClearedEvents, probeVars
  <2>4. PeerType'
    BY <1>10, IntervalType, ActiveSegmentType
       DEF PeerType, StepData, SendError, Runnable, Rewound, ClearedEvents, peerVars,
           histVars
  <2> QED
    BY <1>10, <2>1, <2>2, <2>3, <2>4 DEF StepData, vars
<1>11. ASSUME StepProbe
      PROVE  TypeOK'
  <2>1. CtxType'
    BY <1>11, ProbeSegmentType DEF CtxType, StepProbe, SendError, Runnable, ClearedEvents
  <2>2. WorkType'
    BY <1>11, ProbeSegmentType
       DEF CtxType, WorkType, CallType, PeerType, StepProbe, SendError, Runnable,
           ClearedEvents, ctxVars, workVars, probeVars, callVars, peerVars, histVars
  <2>3. CallType'
    BY <1>11, ProbeSegmentType DEF CallType, StepProbe, SendError, Runnable, ClearedEvents
  <2>4. PeerType'
    BY <1>11, ProbeSegmentType
       DEF PeerType, StepProbe, SendError, Runnable, ClearedEvents, peerVars, histVars
  <2> QED
    BY <1>11, <2>1, <2>2, <2>3, <2>4 DEF StepProbe, vars
<1>12. ASSUME StepWait
      PROVE  TypeOK'
  <2>1. CallType'
    BY <1>12
       DEF CtxType, WorkType, CallType, PeerType, StepWait, WaitBudget, Runnable, ctxVars,
           workVars, probeVars, callVars, peerVars, histVars
  <2> QED
    BY <1>12, <2>1, <1>Ctx, <1>Work, <1>Peer DEF StepWait, vars
<1>13. ASSUME NEW m \in FromPeer, WaitIgnored(m)
      PROVE  TypeOK'
  <2>1. CtxType'
    BY <1>13, HandleSegmentStep DEF CtxType, WaitIgnored
  <2> QED
    BY <1>13, <2>1, <1>Work, <1>Call, <1>Peer DEF WaitIgnored, vars
<1>14. ASSUME NEW m \in FromPeer, WaitReset(m)
      PROVE  TypeOK'
  <2>1. CtxType'
    BY <1>14, ChargeType, HandleSegmentStep DEF CtxType, WaitReset, SendError
  <2>2. WorkType'
    BY <1>14, ChargeType, HandleSegmentStep
       DEF CtxType, WorkType, CallType, PeerType, WaitReset, SendError, ctxVars, workVars,
           probeVars, callVars, peerVars, histVars
  <2>3. CallType'
    BY <1>14, ChargeType, HandleSegmentStep DEF CallType, WaitReset, SendError, probeVars
  <2> QED
    BY <1>14, <2>1, <2>2, <2>3, <1>Peer DEF WaitReset, vars
<1>15. ASSUME NEW m \in FromPeer, WaitAcked(m)
      PROVE  TypeOK'
  <2>1. msLeft' \in Nat /\ callLeft' \in Nat
    BY <1>15, ChargeType DEF CallType, WaitAcked
  <2>2. told' \in [1..MaxSeq -> Tags]
    BY <1>15, TellType DEF WorkType, WaitAcked
  <2>3. CtxType'
    BY <1>15, ChargeType, HandleSegmentStep, TellType DEF CtxType, WaitAcked
  <2>4. WorkType'
    BY <1>15, <2>1 DEF WorkType, WaitAcked
  <2>5. CallType'
    BY <1>15, ChargeType, HandleSegmentStep, TellType DEF CallType, WaitAcked, probeVars
  <2>6. PeerType'
    BY <1>15, <2>2 DEF PeerType, WaitAcked, Tell, peerVars
  <2> QED
    BY <1>15, <2>3, <2>4, <2>5, <2>6 DEF WaitAcked, vars
<1>16. ASSUME NEW m \in FromPeer, WaitClosed(m)
      PROVE  TypeOK'
  <2>1. msLeft' \in Nat /\ callLeft' \in Nat
    BY <1>16, ChargeType DEF CallType, WaitClosed
  <2>2. Partial(m) \in Nat
    BY PartialBound DEF WorkType
  <2>3. told' \in [1..MaxSeq -> Tags]
    BY <1>16, <2>2, TellType DEF WaitClosed
  <2>4. CtxType'
    BY <1>16, ChargeType, HandleSegmentStep, TellType, PartialBound
       DEF CtxType, WaitClosed, SendError
  <2>5. WorkType'
    BY <1>16, <2>1, <2>2 DEF WorkType, WaitClosed
  <2>6. CallType'
    BY <1>16, ChargeType, HandleSegmentStep, TellType, PartialBound
       DEF CallType, WaitClosed, SendError, probeVars
  <2>7. PeerType'
    BY <1>16, <2>3 DEF PeerType, WaitClosed, Tell, peerVars
  <2> QED
    BY <1>16, <2>4, <2>5, <2>6, <2>7 DEF WaitClosed, vars
<1>17. ASSUME NEW m \in FromPeer, WaitWindow(m)
      PROVE  TypeOK'
  <2>1. msLeft' \in Nat /\ callLeft' \in Nat
    BY <1>17, ChargeType DEF CallType, WaitWindow
  <2>2. CtxType'
    BY <1>17, ChargeType, HandleSegmentStep DEF CtxType, WaitWindow
  <2>3. WorkType'
    BY <1>17, <2>1 DEF WorkType, WaitWindow
  <2>4. CallType'
    <3>1. CASE "ACK" \in Raised(m)
      BY <1>17, <3>1 DEF CallType, WaitWindow
    <3>2. CASE ~("ACK" \in Raised(m))
      BY <1>17, <3>2 DEF CallType, WaitWindow
    <3> QED
      BY <3>1, <3>2
  <2>5. PeerType'
    <3>1. CASE "ACK" \in Raised(m)
      BY <1>17, <3>1, SMTT(60) DEF PeerType, WaitWindow, peerVars
    <3>2. CASE ~("ACK" \in Raised(m))
      BY <1>17, <3>2 DEF PeerType, WaitWindow, peerVars
    <3> QED
      BY <3>1, <3>2
  <2> QED
    BY <1>17, <2>2, <2>3, <2>4, <2>5 DEF WaitWindow, vars
<1>18. ASSUME NEW m \in FromPeer, WaitAckFailed(m)
      PROVE  TypeOK'
  <2>1. CtxType'
    BY <1>18, ChargeType, HandleSegmentStep DEF CtxType, WaitAckFailed, Raised
  <2>2. WorkType'
    BY <1>18, ChargeType, HandleSegmentStep
       DEF CtxType, WorkType, CallType, PeerType, WaitAckFailed, Raised, ctxVars, workVars,
           probeVars, callVars, peerVars, histVars
  <2>3. CallType'
    BY <1>18, ChargeType, HandleSegmentStep DEF CallType, WaitAckFailed, Raised, probeVars
  <2> QED
    BY <1>18, <2>1, <2>2, <2>3, <1>Peer DEF WaitAckFailed, vars
<1>19. ASSUME NEW m \in FromPeer, RecvPoll(m)
      PROVE  TypeOK'
  <2>1. CtxType'
    BY <1>19, HandleSegmentStep DEF CtxType, RecvPoll, Raised
  <2> QED
    BY <1>19, <2>1, <1>Work, <1>Call, <1>Peer DEF RecvPoll, vars
<1>20. ASSUME WaitTick
      PROVE  TypeOK'
  <2>1. WorkType'
    BY <1>20, ChargeType
       DEF CtxType, WorkType, CallType, PeerType, WaitTick, ctxVars, workVars, probeVars,
           callVars, peerVars, histVars
  <2>2. CallType'
    BY <1>20, ChargeType DEF CallType, WaitTick, probeVars
  <2>3. PeerType'
    <3>1. /\ silent \in Nat /\ spent \in Nat
          /\ UNCHANGED <<wire, stray, got, peerNxt, told>>
      BY <1>20 DEF PeerType, WaitTick, peerVars
    <3>2. silent' = silent + 1 /\ (spent' = 0 \/ spent' = spent + 1)
      BY <1>20 DEF WaitTick
    <3>3. silent' \in Nat /\ spent' \in Nat
      BY <3>1, <3>2
    <3> QED
      BY <3>1, <3>3 DEF PeerType
  <2> QED
    BY <1>20, <2>1, <2>2, <2>3, <1>Ctx DEF WaitTick, vars
<1>21. ASSUME WaitFailed
      PROVE  TypeOK'
  <2>1. CtxType'
    BY <1>21, ChargeType DEF CtxType, WaitFailed, SendError
  <2>2. WorkType'
    BY <1>21, ChargeType
       DEF CtxType, WorkType, CallType, PeerType, WaitFailed, SendError, ctxVars, workVars,
           probeVars, callVars, peerVars, histVars
  <2>3. CallType'
    BY <1>21, ChargeType DEF CallType, WaitFailed, SendError, probeVars
  <2> QED
    BY <1>21, <2>1, <2>2, <2>3, <1>Peer DEF WaitFailed, vars
<1>22. ASSUME NEW c \in {0, 1}, RecvBuffered(c)
      PROVE  TypeOK'
  <2>1. CallType'
    BY <1>22 DEF CallType, RecvBuffered, probeVars
  <2> QED
    BY <1>22, <2>1, <1>Ctx, <1>Work, <1>Peer DEF RecvBuffered, vars
<1>23. ASSUME NEW m \in wire, NEW n \in 1..MSS, PeerTake(m, n)
      PROVE  TypeOK'
  <2>1. peerNxt' \in 1..(MaxSeq + 1)
    BY <1>23 DEF CtxType, PeerType, PeerTake, Segment
  <2>2. got' \in [1..MaxSeq -> Tags]
    <3>1. \A p \in 1..MaxSeq : got[p] \in Tags
      BY DEF PeerType
    <3>2. \A p \in peerNxt..(peerNxt + n - 1) : TagAt(m, p) \in Tags
      <4>1. m \in Segment /\ m.seq <= peerNxt /\ peerNxt \in Nat
        BY <1>23 DEF PeerType, PeerTake
      <4> QED
        BY <4>1 DEF TagAt, Segment
    <3> QED
      BY <1>23, <3>1, <3>2 DEF PeerTake
  <2>3. PeerType'
    BY <1>23, <2>1, <2>2 DEF PeerType, PeerTake, histVars
  <2> QED
    BY <1>23, <2>3, <1>Ctx, <1>Work, <1>Call DEF PeerTake, vars
<1>24. ASSUME UNCHANGED vars
      PROVE  TypeOK'
  <2> QED
    BY <1>24, <1>Ctx, <1>Work, <1>Call, <1>Peer DEF vars
<1> QED
  BY <1>1, <1>2, <1>3, <1>4, <1>5, <1>6, <1>7, <1>8, <1>9, <1>10, <1>11, <1>12, <1>13,
         <1>14, <1>15, <1>16, <1>17, <1>18, <1>19, <1>20, <1>21, <1>22, <1>23, <1>24
     DEF Next, Step, WaitFrame

----------------------------------------------------------------------------
(* The send stream: every step from the invariant keeps the numbers of the *)
(* call, the segment in flight, the confirmed bytes and the latch right.   *)
LEMMA StreamInductive ==
    ASSUME IInv, [Next]_vars
    PROVE  StreamInv'
<1>0. TypeOK /\ BoundsInv /\ FlightInv /\ ConfirmedReachedPeer /\ LatchInv
  BY DEF IInv, StreamInv
<1>T. /\ sndUna \in Nat /\ sndNxt \in Nat /\ peerNxt \in Nat /\ remoteWindow \in Nat
      /\ remaining \in Nat /\ active \in Nat /\ pointer \in Nat /\ probeMissed \in Nat
      /\ retryLeft \in Nat /\ Attempts \in Nat /\ MSS \in Nat /\ MaxSeq \in Nat
  BY <1>0, ConstAssumption DEF TypeOK, CtxType, WorkType, CallType, PeerType
<1>S. UNCHANGED wireVars => StrayBytes' = StrayBytes
  BY DEF StrayBytes
<1>S2. stray \subseteq stray' => StrayBytes \subseteq StrayBytes'
  BY DEF StrayBytes
<1>C. stray \subseteq stray' /\ UNCHANGED <<told, peerVars>> => ConfirmedReachedPeer'
  BY <1>0, <1>S2 DEF ConfirmedReachedPeer, peerVars
<1>W. \A m \in wire : m.seq \in Nat /\ m.len \in Nat
  BY <1>0 DEF TypeOK, PeerType, Segment
<1>1. ASSUME NEW n \in Lengths, NEW s \in Slices, Send(n, s)
      PROVE  StreamInv'
  <2>a. n \in Nat
    BY ConstAssumption
  <2>1. BoundsInv'
    BY <1>0, <1>T, <2>a, <1>1
       DEF BoundsInv, InCall, Numbered, Send, Ambiguous, ctxVars, peerVars
  <2>2. FlightInv'
    BY <1>0, <1>T, <1>S, <1>W, <1>1
       DEF BoundsInv, FlightInv, InCall, Numbered, Send, ctxVars, probeVars, peerVars,
           histVars
  <2>3. LatchInv'
    BY <1>0, <1>T, <1>1
       DEF LatchInv, BoundsInv, InCall, Numbered, Send, ctxVars, probeVars,
           peerVars, histVars
  <2> QED
    BY <1>1, <2>1, <2>2, <2>3, <1>C DEF StreamInv, Send, histVars
<1>2. ASSUME SendRefused
      PROVE  StreamInv'
  <2>1. BoundsInv'
    BY <1>0, <1>T, <1>2
       DEF BoundsInv, InCall, Numbered, SendRefused, SendError, probeVars, peerVars,
           histVars
  <2>2. FlightInv'
    BY <1>0, <1>T, <1>S, <1>W, <1>2
       DEF BoundsInv, FlightInv, InCall, Numbered, SendRefused, SendError, probeVars,
           peerVars, histVars
  <2>3. LatchInv'
    BY <1>0, <1>T, <1>2
       DEF LatchInv, BoundsInv, InCall, Numbered, SendRefused, SendError,
           probeVars, peerVars, histVars
  <2> QED
    BY <1>2, <2>1, <2>2, <2>3, <1>C DEF StreamInv, SendRefused, histVars
<1>3. ASSUME Resume
      PROVE  StreamInv'
  <2>1. BoundsInv'
    BY <1>0, <1>T, <1>3
       DEF BoundsInv, InCall, Numbered, Resume, ctxVars, workVars, probeVars, peerVars,
           histVars
  <2>2. FlightInv'
    BY <1>0, <1>T, <1>S, <1>W, <1>3
       DEF BoundsInv, FlightInv, InCall, Numbered, ActiveSegment, Resume, vars, ctxVars,
           workVars, probeVars, callVars, peerVars, histVars
  <2>3. LatchInv'
    BY <1>0, <1>T, <1>3
       DEF LatchInv, BoundsInv, InCall, Numbered, Resume, ctxVars,
           workVars, probeVars, peerVars, histVars
  <2> QED
    BY <1>3, <2>1, <2>2, <2>3, <1>C DEF StreamInv, Resume, histVars
<1>4. ASSUME BeginCall
      PROVE  StreamInv'
  <2>1. BoundsInv'
    BY <1>0, <1>T, <1>4
       DEF BoundsInv, InCall, Numbered, BeginCall, SendError, probeVars, peerVars
  <2>2. FlightInv'
    BY <1>0, <1>T, <1>S, <1>W, <1>4
       DEF BoundsInv, FlightInv, InCall, Numbered, ActiveSegment, BeginCall, SendError,
           vars, ctxVars, workVars, probeVars, callVars, peerVars, histVars
  <2>3. LatchInv'
    BY <1>0, <1>T, <1>4
       DEF LatchInv, BoundsInv, InCall, Numbered, BeginCall, SendError,
           probeVars, peerVars
  <2> QED
    BY <1>4, <2>1, <2>2, <2>3, <1>C DEF StreamInv, BeginCall, histVars
<1>5. ASSUME StepDone
      PROVE  StreamInv'
  <2>1. BoundsInv'
    BY <1>0, <1>T, <1>5
       DEF BoundsInv, InCall, Numbered, StepDone, ctxVars, workVars, probeVars, peerVars,
           histVars
  <2>2. FlightInv'
    BY <1>0, <1>T, <1>S, <1>W, <1>5
       DEF BoundsInv, FlightInv, InCall, Numbered, StepDone, ctxVars, workVars, probeVars,
           peerVars, histVars
  <2>3. LatchInv'
    BY <1>0, <1>T, <1>5
       DEF LatchInv, BoundsInv, InCall, Numbered, StepDone, ctxVars,
           workVars, probeVars, peerVars, histVars
  <2> QED
    BY <1>5, <2>1, <2>2, <2>3, <1>C DEF StreamInv, StepDone, histVars
<1>6. ASSUME StepExpiredData
      PROVE  StreamInv'
  <2>1. BoundsInv'
    BY <1>0, <1>T, <1>6
       DEF BoundsInv, InCall, Numbered, StepExpiredData, SendError, SpentRetry, Expired,
           Waiting, probeVars, peerVars, histVars
  <2>2. FlightInv'
    BY <1>0, <1>T, <1>S, <1>W, <1>6
       DEF BoundsInv, FlightInv, InCall, Numbered, ActiveSegment, StepExpiredData,
           SendError, SpentRetry, Expired, Waiting, vars, ctxVars, workVars, probeVars,
           callVars, peerVars, histVars
  <2>3. LatchInv'
    BY <1>0, <1>T, <1>6
       DEF LatchInv, BoundsInv, InCall, Numbered, StepExpiredData,
           SendError, SpentRetry, Expired, Waiting, probeVars, peerVars, histVars
  <2> QED
    BY <1>6, <2>1, <2>2, <2>3, <1>C DEF StreamInv, StepExpiredData, histVars
<1>7. ASSUME StepExpiredWindow
      PROVE  StreamInv'
  <2>1. BoundsInv'
    BY <1>0, <1>T, <1>7
       DEF BoundsInv, InCall, Numbered, StepExpiredWindow, SendError, PeerSilent, Expired,
           Waiting, peerVars, histVars
  <2>2. FlightInv'
    BY <1>0, <1>T, <1>S, <1>W, <1>7
       DEF BoundsInv, FlightInv, InCall, Numbered, StepExpiredWindow, SendError,
           PeerSilent, Expired, Waiting, peerVars, histVars
  <2>3. LatchInv'
    BY <1>0, <1>T, <1>7
       DEF LatchInv, BoundsInv, InCall, Numbered, StepExpiredWindow,
           SendError, PeerSilent, Expired, Waiting, peerVars, histVars
  <2> QED
    BY <1>7, <2>1, <2>2, <2>3, <1>C DEF StreamInv, StepExpiredWindow, histVars
<1>8. ASSUME StepAgain
      PROVE  StreamInv'
  <2>1. BoundsInv'
    BY <1>0, <1>T, <1>8
       DEF BoundsInv, InCall, Numbered, StepAgain, ctxVars, workVars, probeVars, peerVars,
           histVars
  <2>2. FlightInv'
    BY <1>0, <1>T, <1>S, <1>W, <1>8
       DEF BoundsInv, FlightInv, InCall, Numbered, ActiveSegment, StepAgain, vars, ctxVars,
           workVars, probeVars, callVars, peerVars, histVars
  <2>3. LatchInv'
    BY <1>0, <1>T, <1>8
       DEF LatchInv, BoundsInv, InCall, Numbered, StepAgain, ctxVars,
           workVars, probeVars, peerVars, histVars
  <2> QED
    BY <1>8, <2>1, <2>2, <2>3, <1>C DEF StreamInv, StepAgain, histVars
<1>9. ASSUME StepPrepare
      PROVE  StreamInv'
  <2>a. remaining > 0 /\ sndUna = sndNxt
    BY <1>0, <1>T, <1>9 DEF StepPrepare, Runnable, BoundsInv, InCall, Numbered
  <2>b. pc = "step" /\ UNCHANGED <<sndUna, peerNxt, remaining, pc, wire>>
    BY <1>9 DEF StepPrepare, Runnable, callVars, peerVars
  <2>c. ASSUME remoteWindow = 0 PROVE BoundsInv'
    <3>1. phase' = "PROBE" /\ probeMissed' = 0 /\ sndNxt' = sndNxt /\ Attempts > 0
      BY <1>9, <2>c, ConstAssumption DEF StepPrepare
    <3> QED
      BY <1>0, <1>T, <2>a, <2>b, <3>1, ConstAssumption DEF BoundsInv, InCall, Numbered
  <2>d. ASSUME remoteWindow # 0 PROVE BoundsInv'
    <3>1. PICK a \in 1..remaining : active' = a
      <4>1. active' \in 1..remaining
        BY <1>T, <1>9, <2>a, <2>d, ConstAssumption DEF StepPrepare
      <4> QED
        BY <4>1
    <3>2. sndNxt' = sndUna + a /\ target' = sndNxt' /\ phase' = "DATA"
      BY <1>9, <2>a, <2>d, <3>1 DEF StepPrepare
    <3>3. retryLeft' \in 1..Attempts
      BY <1>9, <2>d, ConstAssumption DEF StepPrepare
    <3>4. /\ sndUna <= peerNxt /\ sndUna + remaining <= MaxSeq + 1
          /\ \A m \in wire : m.seq + m.len <= MaxSeq + 1
      BY <1>0, <2>b DEF BoundsInv, InCall
    <3>5. wire' = wire
      BY <1>9 DEF StepPrepare
    <3> QED
      BY <1>T, <2>b, <3>1, <3>2, <3>3, <3>4, <3>5 DEF BoundsInv, InCall, Numbered
  <2>1. BoundsInv'
    BY <2>c, <2>d
  <2>2. FlightInv'
    BY <1>0, <1>T, <1>S, <1>W, <1>9
       DEF BoundsInv, FlightInv, InCall, Numbered, StepPrepare, Runnable, callVars, peerVars
  <2>3. LatchInv'
    BY <1>0, <1>T, <1>9
       DEF LatchInv, BoundsInv, InCall, Numbered, StepPrepare, Runnable,
           callVars, peerVars
  <2> QED
    BY <1>9, <2>1, <2>2, <2>3, <1>C DEF StreamInv, StepPrepare, histVars
<1>10. ASSUME StepData
      PROVE  StreamInv'
  <2>a. Numbered /\ InCall
    BY <1>10 DEF StepData, Runnable, Numbered, InCall
  <2>b. UNCHANGED <<peerVars, sndUna, remaining, active, target, retryLeft>>
    BY <1>10 DEF StepData
  <2>c. /\ wire' \subseteq wire \cup {ActiveSegment} /\ stray \subseteq stray'
        /\ ActiveSegment.seq = sndUna /\ ActiveSegment.len = active
    BY <1>10 DEF StepData, ActiveSegment
  <2>d. /\ sndNxt = sndUna + active /\ sndUna + active <= MaxSeq + 1 /\ active > 0
        /\ sndUna <= peerNxt
    BY <1>0, <1>T, <2>a, <1>10 DEF BoundsInv, StepData, Runnable
  <2>e. \A m \in wire' : m.seq + m.len <= MaxSeq + 1
    BY <1>0, <2>c, <2>d DEF BoundsInv
  <2>f. sndNxt' = sndNxt /\ pc' = pc => BoundsInv'
    BY <1>0, <1>T, <1>10, <2>a, <2>b, <2>e
       DEF BoundsInv, InCall, Numbered, StepData, Runnable, peerVars
  <2>g. sndNxt' = Rewound /\ pc' = "idle" => BoundsInv'
    BY <1>T, <2>b, <2>d, <2>e DEF BoundsInv, InCall, Rewound, peerVars
  <2>1. BoundsInv'
    BY <1>10, <2>f, <2>g DEF StepData, SendError
  <2>h. \A m \in (wire \ stray)' :
          /\ m.seq + m.len <= sndNxt
          /\ m.seq + m.len > sndUna => m = ActiveSegment
    BY <1>0, <2>a, <2>c, <2>d DEF FlightInv
  <2>i. phase' = "ACK" /\ UNCHANGED <<call, pointer, active, sndUna, got, peerNxt>>
    BY <1>10 DEF StepData, peerVars
  <2>j. ActiveSegment' = ActiveSegment
    BY <2>i DEF ActiveSegment
  <2>k. \A p : p \in StrayBytes => p \in StrayBytes'
    BY <1>S2, <2>c
  <2>l. sndNxt' = sndNxt => FlightInv'
    BY <1>0, <1>T, <2>a, <2>h, <2>i, <2>j, <2>k DEF FlightInv, InCall, Numbered
  <2>m. ASSUME sndNxt' # sndNxt PROVE FlightInv'
    <3>1. /\ sndNxt' = sndUna /\ retryLeft = Attempts /\ pc' = "idle"
          /\ wire' \ stray' \subseteq wire \ stray
      BY <1>10, <2>m DEF StepData, Rewound, SendError
    <3>2. /\ \A m \in (wire \ stray)' : m.seq + m.len <= sndUna
          /\ \A p \in sndUna..(peerNxt - 1) : p \in StrayBytes
      BY <1>0, <1>10, <2>a, <3>1 DEF FlightInv, StepData
    <3> QED
      BY <2>i, <2>k, <3>1, <3>2 DEF FlightInv, InCall
  <2>2. FlightInv'
    BY <2>l, <2>m
  <2>3. LatchInv'
    BY <1>0, <1>T, <1>10, <2>a
       DEF LatchInv, InCall, StepData, SendError, Runnable, Rewound
  <2> QED
    BY <1>10, <2>1, <2>2, <2>3, <2>c, <1>C DEF StreamInv, StepData, histVars
<1>11. ASSUME StepProbe
      PROVE  StreamInv'
  <2>a. /\ InCall /\ ~Numbered /\ sndUna = sndNxt /\ sndUna <= peerNxt /\ remaining > 0
        /\ sndUna + remaining <= MaxSeq + 1
    BY <1>0, <1>11 DEF BoundsInv, StepProbe, Runnable, InCall, Numbered
  <2>b. /\ wire' \subseteq wire \cup {ProbeSegment} /\ stray' = stray
        /\ ProbeSegment.seq + ProbeSegment.len = sndNxt
    BY <1>T, <1>11 DEF StepProbe, ProbeSegment
  <2>c. \A m \in wire' : m.seq + m.len <= MaxSeq + 1
    BY <1>0, <1>T, <2>a, <2>b DEF BoundsInv
  <2>d. /\ phase' = "WINDOW"
        /\ UNCHANGED <<sndUna, sndNxt, remaining, probeMissed, got, peerNxt>>
    BY <1>11 DEF StepProbe, peerVars
  <2>1. BoundsInv'
    BY <1>0, <1>11, <2>a, <2>c, <2>d
       DEF BoundsInv, InCall, Numbered, StepProbe, SendError, Runnable
  <2>e. StrayBytes' = StrayBytes
    BY <2>b DEF StrayBytes
  <2>f. \A m \in (wire \ stray)' : m.seq + m.len <= sndNxt
    BY <1>0, <1>T, <2>b DEF FlightInv
  <2>2. FlightInv'
    <3>1. \A p \in sndNxt..(peerNxt - 1) : p \in StrayBytes
      BY <1>0 DEF FlightInv
    <3>2. ~Numbered' /\ phase' # "DATA"
      BY <2>d DEF Numbered
    <3> QED
      BY <2>d, <2>e, <2>f, <3>1, <3>2 DEF FlightInv
  <2>3. LatchInv'
    BY <1>0, <1>T, <1>11, <2>a DEF LatchInv, StepProbe, SendError, Runnable
  <2> QED
    BY <1>11, <2>1, <2>2, <2>3, <2>b, <1>C DEF StreamInv, StepProbe, histVars
<1>12. ASSUME StepWait
      PROVE  StreamInv'
  <2>1. BoundsInv'
    BY <1>0, <1>T, <1>12
       DEF BoundsInv, InCall, Numbered, StepWait, Runnable, Waiting, ctxVars, workVars,
           probeVars, peerVars, histVars
  <2>2. FlightInv'
    BY <1>0, <1>T, <1>S, <1>W, <1>12
       DEF BoundsInv, FlightInv, InCall, Numbered, ActiveSegment, StepWait, Runnable,
           Waiting, vars, ctxVars, workVars, probeVars, callVars, peerVars, histVars
  <2>3. LatchInv'
    BY <1>0, <1>T, <1>12
       DEF LatchInv, BoundsInv, InCall, Numbered, StepWait, Runnable,
           Waiting, ctxVars, workVars, probeVars, peerVars, histVars
  <2> QED
    BY <1>12, <2>1, <2>2, <2>3, <1>C DEF StreamInv, StepWait, histVars
<1>13. ASSUME NEW m \in FromPeer, WaitIgnored(m)
      PROVE  StreamInv'
  <2>0. sndUna' = sndUna \/ (sndUna' = sndNxt /\ sndNxt <= peerNxt)
    BY <1>0, <1>13, HandleSegmentStep DEF WaitIgnored
  <2>0a. "ACK" \notin Raised(m) => sndUna' = sndUna
    BY <1>0, <1>13, HandleSegmentStep DEF WaitIgnored
  <2>1. BoundsInv'
    BY <1>0, <1>T, <1>13, <2>0, <2>0a
       DEF BoundsInv, InCall, Numbered, WaitIgnored, workVars, probeVars, callVars,
           peerVars, histVars
  <2>2. FlightInv'
    BY <1>0, <1>T, <1>S, <1>W, <1>13, <2>0, <2>0a
       DEF BoundsInv, FlightInv, InCall, Numbered, ActiveSegment, WaitIgnored, vars,
           ctxVars, workVars, probeVars, callVars, peerVars, histVars
  <2>3. LatchInv'
    BY <1>0, <1>T, <1>13, <2>0, <2>0a
       DEF LatchInv, BoundsInv, InCall, Numbered, WaitIgnored, workVars,
           probeVars, callVars, peerVars, histVars
  <2> QED
    BY <1>13, <2>1, <2>2, <2>3, <1>C DEF StreamInv, WaitIgnored, histVars
<1>14. ASSUME NEW m \in FromPeer, WaitReset(m)
      PROVE  StreamInv'
  <2>0. sndUna' = sndUna \/ (sndUna' = sndNxt /\ sndNxt <= peerNxt)
    BY <1>0, <1>14, HandleSegmentStep DEF WaitReset
  <2>0a. "ACK" \notin Raised(m) => sndUna' = sndUna
    BY <1>0, <1>14, HandleSegmentStep DEF WaitReset
  <2>1. BoundsInv'
    BY <1>0, <1>T, <1>14, <2>0, <2>0a
       DEF BoundsInv, InCall, Numbered, WaitReset, SendError, probeVars, peerVars, histVars
  <2>2. FlightInv'
    BY <1>0, <1>T, <1>S, <1>W, <1>14, <2>0, <2>0a
       DEF BoundsInv, FlightInv, InCall, Numbered, WaitReset, SendError, probeVars,
           peerVars, histVars
  <2>3. LatchInv'
    BY <1>0, <1>T, <1>14, <2>0, <2>0a
       DEF LatchInv, BoundsInv, InCall, Numbered, WaitReset, SendError,
           probeVars, peerVars, histVars
  <2> QED
    BY <1>14, <2>1, <2>2, <2>3, <1>C DEF StreamInv, WaitReset, histVars
<1>15. ASSUME NEW m \in FromPeer, WaitAcked(m)
      PROVE  StreamInv'
  <2>0. sndUna' = sndUna \/ (sndUna' = sndNxt /\ sndNxt <= peerNxt)
    BY <1>0, <1>15, HandleSegmentStep DEF WaitAcked
  <2>0a. "ACK" \notin Raised(m) => sndUna' = sndUna
    BY <1>0, <1>15, HandleSegmentStep DEF WaitAcked
  <2>1. BoundsInv'
    BY <1>0, <1>T, <1>15, <2>0, <2>0a
       DEF BoundsInv, InCall, Numbered, WaitAcked, probeVars, peerVars
  <2>2. FlightInv'
    BY <1>0, <1>T, <1>S, <1>W, <1>15, <2>0, <2>0a
       DEF BoundsInv, FlightInv, InCall, Numbered, WaitAcked, probeVars, peerVars
  <2>a. UNCHANGED <<got, peerNxt>>
    BY <1>15 DEF WaitAcked, peerVars
  <2>b. \A p \in 1..MaxSeq : told'[p] =
         IF p \in sndUna..(sndUna + active - 1)
         THEN [call |-> call, off |-> pointer + (p - sndUna)] ELSE told[p]
    BY <1>15 DEF WaitAcked, Tell
  <2>c. sndUna + active <= peerNxt /\ Numbered /\ InCall
    BY <1>0, <1>T, <1>15, <2>0 DEF WaitAcked, BoundsInv, InCall, Numbered
  <2>d. \A p \in sndUna..(peerNxt - 1) :
          p \in StrayBytes \/ got[p] = [call |-> call, off |-> pointer + (p - sndUna)]
    BY <1>0, <2>c DEF FlightInv
  <2>f. StrayBytes' = StrayBytes
    BY <1>15, <1>S DEF WaitAcked
  <2>3. ConfirmedReachedPeer'
    <3> SUFFICES ASSUME NEW p \in 1..MaxSeq, told'[p] # NoTag
                 PROVE  p < peerNxt' /\ (got'[p] = told'[p] \/ p \in StrayBytes')
      BY DEF ConfirmedReachedPeer
    <3>1. CASE p \in sndUna..(sndUna + active - 1)
      <4>1. p \in sndUna..(peerNxt - 1)
        BY <1>T, <2>c, <3>1
      <4>2. got[p] = told'[p] \/ p \in StrayBytes
        BY <2>b, <2>d, <3>1, <4>1
      <4> QED
        BY <1>T, <2>a, <2>f, <4>1, <4>2
    <3>2. CASE p \notin sndUna..(sndUna + active - 1)
      BY <1>0, <2>b, <2>a, <2>f, <3>2 DEF ConfirmedReachedPeer
    <3> QED
      BY <3>1, <3>2
  <2>4. LatchInv'
    BY <1>0, <1>T, <1>15, <2>0, <2>0a
       DEF LatchInv, BoundsInv, InCall, Numbered, WaitAcked, probeVars,
           peerVars
  <2> QED
    BY <2>1, <2>2, <2>3, <2>4 DEF StreamInv
<1>16. ASSUME NEW m \in FromPeer, WaitClosed(m)
      PROVE  StreamInv'
  <2>0. sndUna' = sndUna \/ (sndUna' = sndNxt /\ sndNxt <= peerNxt)
    BY <1>0, <1>16, HandleSegmentStep DEF WaitClosed
  <2>0a. "ACK" \notin Raised(m) => sndUna' = sndUna
    BY <1>0, <1>16, HandleSegmentStep DEF WaitClosed
  <2>1. BoundsInv'
    BY <1>0, <1>T, <1>16, <2>0, <2>0a
       DEF BoundsInv, InCall, Numbered, WaitClosed, SendError, probeVars, peerVars
  <2>2. FlightInv'
    BY <1>0, <1>T, <1>S, <1>W, <1>16, <2>0, <2>0a
       DEF BoundsInv, FlightInv, InCall, Numbered, WaitClosed, SendError, probeVars,
           peerVars
  <2>a. UNCHANGED <<got, peerNxt>>
    BY <1>16 DEF WaitClosed, peerVars
  <2>b. \A p \in 1..MaxSeq : told'[p] =
         IF p \in sndUna..(sndUna + Partial(m) - 1)
         THEN [call |-> call, off |-> pointer + (p - sndUna)] ELSE told[p]
    BY <1>16 DEF WaitClosed, Tell
  <2>c. Partial(m) \in Nat /\ sndUna + Partial(m) <= peerNxt
    BY <1>0, <1>T, PartialBound DEF BoundsInv
  <2>d. Numbered /\ InCall
    BY <1>16 DEF WaitClosed, InCall, Numbered
  <2>e. \A p \in sndUna..(peerNxt - 1) :
          p \in StrayBytes \/ got[p] = [call |-> call, off |-> pointer + (p - sndUna)]
    BY <1>0, <2>d DEF FlightInv
  <2>f. StrayBytes' = StrayBytes
    BY <1>16, <1>S DEF WaitClosed
  <2>3. ConfirmedReachedPeer'
    <3> SUFFICES ASSUME NEW p \in 1..MaxSeq, told'[p] # NoTag
                 PROVE  p < peerNxt' /\ (got'[p] = told'[p] \/ p \in StrayBytes')
      BY DEF ConfirmedReachedPeer
    <3>1. CASE p \in sndUna..(sndUna + Partial(m) - 1)
      <4>1. p \in sndUna..(peerNxt - 1)
        BY <1>T, <2>c, <3>1
      <4>2. got[p] = told'[p] \/ p \in StrayBytes
        BY <2>b, <2>e, <3>1, <4>1
      <4> QED
        BY <1>T, <2>a, <2>f, <4>1, <4>2
    <3>2. CASE p \notin sndUna..(sndUna + Partial(m) - 1)
      BY <1>0, <2>b, <2>a, <2>f, <3>2 DEF ConfirmedReachedPeer
    <3> QED
      BY <3>1, <3>2
  <2>4. LatchInv'
    BY <1>0, <1>T, <1>16, <2>0, <2>0a
       DEF LatchInv, BoundsInv, InCall, Numbered, WaitClosed, SendError,
           probeVars, peerVars
  <2> QED
    BY <2>1, <2>2, <2>3, <2>4 DEF StreamInv
<1>17. ASSUME NEW m \in FromPeer, WaitWindow(m)
      PROVE  StreamInv'
  <2>0. sndUna' = sndUna \/ (sndUna' = sndNxt /\ sndNxt <= peerNxt)
    BY <1>0, <1>17, HandleSegmentStep DEF WaitWindow
  <2>0a. "ACK" \notin Raised(m) => sndUna' = sndUna
    BY <1>0, <1>17, HandleSegmentStep DEF WaitWindow
  <2>1. BoundsInv'
    BY <1>0, <1>T, <1>17, <2>0, <2>0a DEF BoundsInv, InCall, Numbered, WaitWindow, peerVars
  <2>2. FlightInv'
    BY <1>0, <1>T, <1>S, <1>W, <1>17, <2>0, <2>0a
       DEF BoundsInv, FlightInv, InCall, Numbered, WaitWindow, peerVars
  <2>3. LatchInv'
    BY <1>0, <1>T, <1>17, <2>0, <2>0a
       DEF LatchInv, BoundsInv, InCall, Numbered, WaitWindow, peerVars
  <2> QED
    BY <1>17, <2>1, <2>2, <2>3, <1>C DEF StreamInv, WaitWindow, histVars
<1>18. ASSUME NEW m \in FromPeer, WaitAckFailed(m)
      PROVE  StreamInv'
  <2>0. sndUna' = sndUna \/ (sndUna' = sndNxt /\ sndNxt <= peerNxt)
    BY <1>0, <1>18, HandleSegmentStep DEF WaitAckFailed
  <2>0a. "ACK" \notin Raised(m) => sndUna' = sndUna
    BY <1>0, <1>18, HandleSegmentStep DEF WaitAckFailed
  <2>1. BoundsInv'
    BY <1>0, <1>T, <1>18, <2>0, <2>0a
       DEF BoundsInv, InCall, Numbered, WaitAckFailed, probeVars, peerVars, histVars
  <2>2. FlightInv'
    BY <1>0, <1>T, <1>S, <1>W, <1>18, <2>0, <2>0a
       DEF BoundsInv, FlightInv, InCall, Numbered, WaitAckFailed, probeVars, peerVars,
           histVars
  <2>3. LatchInv'
    BY <1>0, <1>T, <1>18, <2>0, <2>0a
       DEF LatchInv, BoundsInv, InCall, Numbered, WaitAckFailed, probeVars,
           peerVars, histVars
  <2> QED
    BY <1>18, <2>1, <2>2, <2>3, <1>C DEF StreamInv, WaitAckFailed, histVars
<1>19. ASSUME NEW m \in FromPeer, RecvPoll(m)
      PROVE  StreamInv'
  <2>0. sndUna' = sndUna \/ (sndUna' = sndNxt /\ sndNxt <= peerNxt)
    BY <1>0, <1>19, HandleSegmentStep DEF RecvPoll
  <2>0a. "ACK" \notin Raised(m) => sndUna' = sndUna
    BY <1>0, <1>19, HandleSegmentStep DEF RecvPoll
  <2>1. BoundsInv'
    BY <1>0, <1>T, <1>19, <2>0, <2>0a
       DEF BoundsInv, InCall, Numbered, RecvPoll, workVars, probeVars, callVars, peerVars,
           histVars
  <2>2. FlightInv'
    BY <1>0, <1>T, <1>S, <1>W, <1>19, <2>0, <2>0a
       DEF BoundsInv, FlightInv, InCall, Numbered, RecvPoll, workVars, probeVars, callVars,
           peerVars, histVars
  <2>3. LatchInv'
    BY <1>0, <1>T, <1>19, <2>0, <2>0a
       DEF LatchInv, BoundsInv, InCall, Numbered, RecvPoll, workVars,
           probeVars, callVars, peerVars, histVars
  <2> QED
    BY <1>19, <2>1, <2>2, <2>3, <1>C DEF StreamInv, RecvPoll, histVars
<1>20. ASSUME WaitTick
      PROVE  StreamInv'
  <2>1. BoundsInv'
    BY <1>0, <1>T, <1>20
       DEF BoundsInv, InCall, Numbered, WaitTick, ctxVars, probeVars, peerVars
  <2>2. FlightInv'
    BY <1>0, <1>T, <1>S, <1>W, <1>20
       DEF BoundsInv, FlightInv, InCall, Numbered, ActiveSegment, WaitTick, vars, ctxVars,
           workVars, probeVars, callVars, peerVars, histVars
  <2>3. LatchInv'
    BY <1>0, <1>T, <1>20
       DEF LatchInv, BoundsInv, InCall, Numbered, WaitTick, ctxVars,
           probeVars, peerVars
  <2> QED
    BY <1>20, <2>1, <2>2, <2>3, <1>C DEF StreamInv, WaitTick, histVars
<1>21. ASSUME WaitFailed
      PROVE  StreamInv'
  <2>1. BoundsInv'
    BY <1>0, <1>T, <1>21
       DEF BoundsInv, InCall, Numbered, WaitFailed, SendError, probeVars, peerVars, histVars
  <2>2. FlightInv'
    BY <1>0, <1>T, <1>S, <1>W, <1>21
       DEF BoundsInv, FlightInv, InCall, Numbered, WaitFailed, SendError, probeVars,
           peerVars, histVars
  <2>3. LatchInv'
    BY <1>0, <1>T, <1>21
       DEF LatchInv, BoundsInv, InCall, Numbered, WaitFailed, SendError,
           probeVars, peerVars, histVars
  <2> QED
    BY <1>21, <2>1, <2>2, <2>3, <1>C DEF StreamInv, WaitFailed, histVars
<1>22. ASSUME NEW c \in {0, 1}, RecvBuffered(c)
      PROVE  StreamInv'
  <2>1. BoundsInv'
    BY <1>0, <1>T, <1>22
       DEF BoundsInv, InCall, Numbered, RecvBuffered, ctxVars, workVars, probeVars,
           peerVars, histVars
  <2>2. FlightInv'
    BY <1>0, <1>T, <1>S, <1>W, <1>22
       DEF BoundsInv, FlightInv, InCall, Numbered, ActiveSegment, RecvBuffered, vars,
           ctxVars, workVars, probeVars, callVars, peerVars, histVars
  <2>3. LatchInv'
    BY <1>0, <1>T, <1>22
       DEF LatchInv, BoundsInv, InCall, Numbered, RecvBuffered, ctxVars,
           workVars, probeVars, peerVars, histVars
  <2> QED
    BY <1>22, <2>1, <2>2, <2>3, <1>C DEF StreamInv, RecvBuffered, histVars
<1>23. ASSUME NEW m \in wire, NEW n \in 1..MSS, PeerTake(m, n)
      PROVE  StreamInv'
  <2>a. /\ m.seq \in Nat /\ m.len \in Nat /\ n \in Nat /\ n >= 1
        /\ m.seq <= peerNxt /\ peerNxt + n <= m.seq + m.len /\ m.seq + m.len <= MaxSeq + 1
    BY <1>0, <1>W, <1>T, <1>23 DEF PeerTake, BoundsInv
  <2>b. /\ peerNxt' = peerNxt + n
        /\ UNCHANGED <<ctxVars, workVars, probeVars, callVars, wireVars, histVars>>
        /\ StrayBytes' = StrayBytes
    BY <1>23, <1>S DEF PeerTake
  <2>d. \A p \in 1..MaxSeq : got'[p] =
        IF p \in peerNxt..(peerNxt + n - 1) THEN TagAt(m, p) ELSE got[p]
    BY <1>23 DEF PeerTake
  <2>e. sndUna <= peerNxt
    BY <1>0 DEF BoundsInv
  <2>1. BoundsInv'
    BY <1>0, <1>T, <2>a, <2>b, <2>e
       DEF BoundsInv, InCall, Numbered, ctxVars, workVars, probeVars, callVars
  <2>g. \A p \in peerNxt..(peerNxt + n - 1) : m \in stray => p \in StrayBytes
    <3> SUFFICES ASSUME NEW p \in peerNxt..(peerNxt + n - 1), m \in stray
                 PROVE  p \in StrayBytes
      OBVIOUS
    <3>1. p \in m.seq..(m.seq + m.len - 1)
      BY <1>T, <2>a
    <3> QED
      BY <3>1 DEF StrayBytes
  <2>h. m \notin stray => peerNxt + n <= sndNxt /\ m.seq + m.len > sndUna
    BY <1>0, <1>T, <2>a, <2>e DEF FlightInv
  <2>c. InCall /\ Numbered => m \in stray \/ m = ActiveSegment
    BY <1>0, <2>h DEF FlightInv
  <2>f. \A p \in sndNxt..(peerNxt + n - 1) : p \in StrayBytes
    <3> SUFFICES ASSUME NEW p \in sndNxt..(peerNxt + n - 1)
                 PROVE  p \in StrayBytes
      OBVIOUS
    <3>1. m \in stray
      BY <1>T, <2>a, <2>h
    <3>2. p \in sndNxt..(peerNxt - 1) \/ p \in peerNxt..(peerNxt + n - 1)
      BY <1>T, <2>a
    <3> QED
      BY <1>0, <2>g, <3>1, <3>2 DEF FlightInv
  <2>i. ASSUME InCall, Numbered, NEW p \in sndUna..(peerNxt + n - 1)
        PROVE  p \in StrayBytes \/ got'[p] = [call |-> call, off |-> pointer + (p - sndUna)]
    <3>1. p \in 1..MaxSeq
      BY <1>0, <1>T, <2>a DEF TypeOK, CtxType
    <3>2. CASE p \in sndUna..(peerNxt - 1)
      <4>1. p \notin peerNxt..(peerNxt + n - 1)
        BY <1>T, <2>a, <3>2
      <4> QED
        BY <1>0, <2>d, <2>i, <3>1, <3>2, <4>1 DEF FlightInv
    <3>3. CASE p \in peerNxt..(peerNxt + n - 1)
      <4>1. CASE m \in stray
        BY <2>g, <3>3, <4>1
      <4>2. CASE m = ActiveSegment
        <5>1. m.seq = sndUna /\ m.call = call /\ m.off = pointer
          BY <4>2 DEF ActiveSegment
        <5> QED
          BY <2>d, <3>1, <3>3, <5>1 DEF TagAt
      <4> QED
        BY <2>c, <2>i, <4>1, <4>2
    <3> QED
      BY <1>T, <2>a, <2>e, <3>2, <3>3
  <2>j. ASSUME InCall, phase = "DATA", retryLeft = Attempts
        PROVE  \A p \in sndUna..(peerNxt + n - 1) : p \in StrayBytes
    <3>1. m \in stray
      <4>1. m \notin stray => m.seq + m.len <= sndUna
        BY <1>0, <2>j DEF FlightInv
      <4> QED
        BY <1>T, <2>a, <2>h, <4>1
    <3>2. \A p \in sndUna..(peerNxt + n - 1) :
            p \in sndUna..(peerNxt - 1) \/ p \in peerNxt..(peerNxt + n - 1)
      BY <1>T, <2>a, <2>e
    <3> QED
      BY <1>0, <2>j, <2>g, <3>1, <3>2 DEF FlightInv
  <2>k. /\ UNCHANGED <<InCall, Numbered, ActiveSegment, wire, stray, sndUna, sndNxt, phase,
                       retryLeft, call, pointer>>
        /\ peerNxt' - 1 = peerNxt + n - 1
    BY <1>T, <2>a, <2>b DEF InCall, Numbered, ActiveSegment, ctxVars, workVars, callVars
  <2>2. FlightInv'
    BY <1>0, <2>b, <2>f, <2>i, <2>j, <2>k DEF FlightInv
  <2>3. ConfirmedReachedPeer'
    <3> SUFFICES ASSUME NEW p \in 1..MaxSeq, told[p] # NoTag
                 PROVE  p < peerNxt' /\ (got'[p] = told[p] \/ p \in StrayBytes)
      BY <2>b DEF ConfirmedReachedPeer, histVars
    <3>1. p < peerNxt /\ (got[p] = told[p] \/ p \in StrayBytes)
      BY <1>0 DEF ConfirmedReachedPeer
    <3> QED
      BY <1>T, <2>a, <2>b, <2>d, <3>1
  <2>4. LatchInv'
    BY <1>0, <2>b DEF LatchInv, ctxVars, callVars
  <2> QED
    BY <2>1, <2>2, <2>3, <2>4 DEF StreamInv
<1>24. ASSUME UNCHANGED vars
      PROVE  StreamInv'
  <2>1. BoundsInv'
    BY <1>0, <1>T, <1>24
       DEF BoundsInv, InCall, Numbered, vars, ctxVars, workVars, probeVars, callVars,
           peerVars, histVars
  <2>2. FlightInv'
    BY <1>0, <1>T, <1>S, <1>W, <1>24
       DEF BoundsInv, FlightInv, InCall, Numbered, ActiveSegment, vars, ctxVars, workVars,
           probeVars, callVars, peerVars, histVars
  <2>3. LatchInv'
    BY <1>0, <1>T, <1>24
       DEF LatchInv, BoundsInv, InCall, Numbered, vars, ctxVars, workVars,
           probeVars, callVars, peerVars, histVars
  <2> QED
    BY <1>24, <2>1, <2>2, <2>3, <1>C DEF StreamInv, vars, histVars
<1> QED
  BY <1>1, <1>2, <1>3, <1>4, <1>5, <1>6, <1>7, <1>8, <1>9, <1>10, <1>11, <1>12, <1>13,
         <1>14, <1>15, <1>16, <1>17, <1>18, <1>19, <1>20, <1>21, <1>22, <1>23, <1>24
     DEF Next, Step, WaitFrame

----------------------------------------------------------------------------
(* The invariant holds initially and is kept by every step.                *)
LEMMA InvInit == Init => IInv
<1> SUFFICES ASSUME Init PROVE IInv
  OBVIOUS
<1>1. TypeOK
  <2>1. CtxType
    <3>1. 1 \in 1..(MaxSeq + 1) /\ remoteWindow \in Nat /\ 0 \in 0..Attempts
      BY ConstAssumption DEF Init
    <3> QED
      BY <3>1 DEF Init, CtxType
  <2>2. WorkType
    BY DEF Init, WorkType
  <2>3. CallType
    <3>1. 0 \in 0..Attempts /\ 0 \in 0..MaxCalls
      BY ConstAssumption
    <3> QED
      BY <3>1 DEF Init, CallType
  <2>4. PeerType
    BY ConstAssumption DEF Init, PeerType
  <2> QED
    BY <2>1, <2>2, <2>3, <2>4 DEF TypeOK
<1>2. BoundsInv
  BY ConstAssumption DEF Init, BoundsInv, InCall
<1>3. FlightInv
  BY DEF Init, FlightInv, InCall
<1>4. ConfirmedReachedPeer /\ LatchInv
  BY DEF Init, ConfirmedReachedPeer, LatchInv
<1> QED
  BY <1>1, <1>2, <1>3, <1>4 DEF IInv, StreamInv

LEMMA InvStep == ASSUME IInv, [Next]_vars PROVE IInv'
<1>1. TypeOK /\ BoundsInv
  BY DEF IInv, StreamInv
<1>2. TypeOK'
  BY <1>1, TypeInductive
<1>3. StreamInv'
  BY StreamInductive
<1> QED
  BY <1>2, <1>3 DEF IInv

(* The whole invariant holds in every state of every behaviour.            *)
THEOREM Invariant == Spec => []IInv
BY InvInit, InvStep, PTL DEF Spec

(* Every state of SEND is well typed: the retry and probe counters stay in *)
(* their ranges, the sequence numbers in the stream, budgets nonnegative.  *)
THEOREM TypeCorrect == Spec => []TypeOK
<1>1. IInv => TypeOK
  BY DEF IInv
<1> QED
  BY <1>1, Invariant, PTL

(* Every byte SEND reports as confirmed is at its position in the peer's   *)
(* stream, and it is that very byte unless a segment left there although   *)
(* its first transmission was reported as failed.                          *)
THEOREM Confirmed == Spec => []ConfirmedReachedPeer
<1>1. IInv => ConfirmedReachedPeer
  BY DEF IInv, StreamInv
<1> QED
  BY <1>1, Invariant, PTL

(* No exit of SEND leaves bytes in flight, other than those of strays,     *)
(* without the latch that refuses the next one.                            *)
THEOREM Latched == Spec => []AmbiguousStreamIsLatched
<1>1. IInv => AmbiguousStreamIsLatched
  BY DEF IInv, StreamInv, FlightInv, LatchInv, AmbiguousStreamIsLatched
<1> QED
  BY <1>1, Invariant, PTL

(* Past SND.UNA the wire holds strays and one segment, retransmitted as it *)
(* was; a window probe offers no new byte.                                 *)
THEOREM OneInFlight == Spec => []OneSegmentInFlight
<1>1. ASSUME IInv PROVE OneSegmentInFlight
  <2>1. TypeOK /\ BoundsInv /\ FlightInv
    BY <1>1 DEF IInv, StreamInv
  <2>2. sndUna \in Nat /\ \A m \in wire : m.seq \in Nat /\ m.len \in Nat
    BY <2>1 DEF TypeOK, CtxType, PeerType, Segment
  <2> SUFFICES ASSUME NEW m \in wire \ stray, NEW n \in wire \ stray,
                      m.seq + m.len > sndUna, n.seq + n.len > sndUna, pc # "idle"
               PROVE  m = n
    BY <2>1 DEF OneSegmentInFlight, FlightInv
  <2>3. InCall /\ Numbered
    BY <2>1, <2>2 DEF BoundsInv, FlightInv, InCall
  <2> QED
    BY <2>1, <2>3 DEF FlightInv
<1> QED
  BY <1>1, Invariant, PTL

=============================================================================
