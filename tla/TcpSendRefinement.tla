------------------------- MODULE TcpSendRefinement -------------------------
(***************************************************************************)
(* TcpSend implements SendContract for every value of the constants: the   *)
(* refinement that the run send_blocking checks on a small instance.  Up   *)
(* to the first stray segment every step is one of the contract; with it   *)
(* the contract is void.                                                   *)
(***************************************************************************)
EXTENDS TcpSendProofs, SequenceTheorems

USE DEF wireVars

\* The byte at offset k of call c continues the stream the peer has assembled.
Continues(c, k) ==
    /\ c \in 1..call
    /\ IF peerNxt = 1 THEN k = 0
       ELSE /\ got[peerNxt - 1].call <= c
            /\ k = IF got[peerNxt - 1].call = c THEN got[peerNxt - 1].off + 1 ELSE 0

\* A segment of which the peer can still take something.
Fresh(m) == m.seq + m.len > peerNxt

\* What IInv says of a state without strays: nothing past SND.NXT is at the peer, and
\* past SND.UNA there is only the segment in flight.
Tidy ==
    /\ peerNxt <= sndNxt
    /\ \A m \in wire : m.seq + m.len <= sndNxt
    /\ InCall /\ Numbered =>
        /\ \A p \in sndUna..(peerNxt - 1) :
             got[p] = [call |-> call, off |-> pointer + (p - sndUna)]
        /\ \A m \in wire : m.seq + m.len > sndUna => m = ActiveSegment
    /\ \A p \in 1..MaxSeq : told[p] # NoTag => p < peerNxt /\ got[p] = told[p]

\* The peer's stream ends where the current call goes on, and the one segment that
\* can still lengthen it continues it, also after the call is over.
JoinInv ==
    /\ \A p \in 1..(peerNxt - 1) : got[p].call \in 1..call
    /\ InCall => pointer < sndUna /\ Continues(call, pointer + (peerNxt - sndUna))
    /\ \A m \in wire : Fresh(m) =>
         /\ m.seq <= peerNxt /\ Continues(m.call, m.off + (peerNxt - m.seq))
         /\ \A n \in wire : Fresh(n) => m = n

----------------------------------------------------------------------------
(* The numbers and records of a state of the invariant.                    *)
LEMMA StateTypes ==
    ASSUME IInv
    PROVE  /\ sndUna \in Nat /\ sndNxt \in Nat /\ peerNxt \in Nat /\ pointer \in Nat
           /\ active \in Nat /\ remaining \in Nat /\ call \in Nat /\ MaxSeq \in Nat
           /\ peerNxt \in 1..(MaxSeq + 1) /\ sndUna \in 1..(MaxSeq + 1)
           /\ sndNxt \in 1..(MaxSeq + 1) /\ call \in 0..MaxCalls /\ MaxCalls \in Nat
           /\ got \in [1..MaxSeq -> Tags] /\ told \in [1..MaxSeq -> Tags]
           /\ \A m \in wire : /\ m.seq \in Nat /\ m.len \in Nat
                              /\ m.call \in Nat /\ m.off \in Nat
BY ConstAssumption DEF IInv, TypeOK, CtxType, WorkType, CallType, PeerType, Segment

LEMMA TidyState ==
    ASSUME IInv, stray = {}
    PROVE  Tidy
<1>1. StrayBytes = {} /\ wire \ stray = wire
  BY DEF StrayBytes
<1>2. FlightInv /\ ConfirmedReachedPeer
  BY DEF IInv, StreamInv
<1>3. peerNxt <= sndNxt
  <2>1. ~(peerNxt <= sndNxt) => sndNxt \in sndNxt..(peerNxt - 1)
    BY StateTypes
  <2> QED
    BY <1>1, <1>2, <2>1 DEF FlightInv
<1>4. \A m \in wire : m.seq + m.len <= sndNxt
  BY <1>1, <1>2 DEF FlightInv
<1>5. InCall /\ Numbered =>
        /\ \A p \in sndUna..(peerNxt - 1) :
             got[p] = [call |-> call, off |-> pointer + (p - sndUna)]
        /\ \A m \in wire : m.seq + m.len > sndUna => m = ActiveSegment
  BY <1>1, <1>2 DEF FlightInv
<1>6. \A p \in 1..MaxSeq : told[p] # NoTag => p < peerNxt /\ got[p] = told[p]
  BY <1>1, <1>2 DEF ConfirmedReachedPeer
<1> QED
  BY <1>3, <1>4, <1>5, <1>6 DEF Tidy

(* A stray segment stays one.                                              *)
LEMMA StraysStay ==
    ASSUME [Next]_vars
    PROVE  stray \subseteq stray'
BY DEF Next, vars, Send, SendRefused, Resume, BeginCall, Step, StepDone, StepExpiredData,
       StepExpiredWindow, StepAgain, StepPrepare, StepData, StepProbe, StepWait, WaitFrame,
       WaitIgnored, WaitReset, WaitAcked, WaitClosed, WaitWindow, WaitAckFailed, WaitTick,
       WaitFailed, RecvBuffered, RecvPoll, PeerTake

(* A step that leaves the peer, the wire and the numbering of the call     *)
(* alone, or ends the call, keeps JoinInv.                                 *)
LEMMA QuietStep ==
    ASSUME IInv, JoinInv, UNCHANGED <<got, peerNxt, call, wire>>,
           InCall' => InCall /\ \E d \in Nat : pointer' = pointer + d /\ sndUna' = sndUna + d
    PROVE  JoinInv'
<1>1. \A c, k : Continues(c, k)' <=> Continues(c, k)
  BY DEF Continues
<1>2. InCall' => (pointer < sndUna /\ Continues(call, pointer + (peerNxt - sndUna)))'
  <2> SUFFICES ASSUME InCall'
               PROVE  (pointer < sndUna /\ Continues(call, pointer + (peerNxt - sndUna)))'
    OBVIOUS
  <2>a. pointer \in Nat /\ sndUna \in Nat /\ peerNxt \in Nat
    BY StateTypes
  <2>b. PICK d \in Nat : pointer' = pointer + d /\ sndUna' = sndUna + d
    OBVIOUS
  <2>1. pointer' + (peerNxt - sndUna') = pointer + (peerNxt - sndUna)
    BY <2>a, <2>b
  <2>2. pointer < sndUna /\ Continues(call, pointer + (peerNxt - sndUna))
    BY DEF JoinInv
  <2>3. pointer' < sndUna'
    BY <2>a, <2>b, <2>2
  <2>4. Continues(call, pointer + (peerNxt - sndUna))'
    BY <2>1, <2>2 DEF Continues
  <2> QED
    BY <2>3, <2>4
<1>3. \A m : Fresh(m)' <=> Fresh(m)
  BY DEF Fresh
<1>4. \A p \in 1..(peerNxt' - 1) : got'[p].call \in 1..call'
  BY DEF JoinInv
<1>5. \A m \in wire' : Fresh(m)' =>
        /\ m.seq <= peerNxt' /\ Continues(m.call, m.off + (peerNxt - m.seq))'
        /\ \A n \in wire' : Fresh(n)' => m = n
  BY DEF JoinInv, Fresh, Continues
<1> QED
  BY <1>2, <1>4, <1>5 DEF JoinInv

(* The actions that number nothing, transmit nothing and deliver nothing.  *)
LEMMA QuietActions ==
    ASSUME IInv, JoinInv,
           \/ SendRefused \/ Resume \/ BeginCall \/ StepDone \/ StepExpiredData
           \/ StepExpiredWindow \/ StepAgain \/ StepPrepare \/ StepWait
           \/ \E m \in FromPeer : WaitFrame(m) \/ RecvPoll(m)
           \/ WaitTick \/ WaitFailed \/ \E c \in {0, 1} : RecvBuffered(c)
           \/ UNCHANGED vars
    PROVE  JoinInv'
<1>Q. ASSUME UNCHANGED <<got, peerNxt, call, wire>>,
             ~InCall' \/ (InCall /\ UNCHANGED <<pointer, sndUna>>)
      PROVE  JoinInv'
  <2>1. ASSUME InCall'
        PROVE  InCall /\ \E d \in Nat : pointer' = pointer + d /\ sndUna' = sndUna + d
    <3>1. pointer \in Nat /\ sndUna \in Nat
      BY StateTypes
    <3>2. InCall /\ pointer' = pointer + 0 /\ sndUna' = sndUna + 0 /\ 0 \in Nat
      BY <1>Q, <2>1, <3>1
    <3> QED
      BY <3>2
  <2> QED
    BY <1>Q, <2>1, QuietStep
<1>T. TypeOK /\ BoundsInv
  BY DEF IInv, StreamInv
<1>1. CASE SendRefused
  BY <1>Q, <1>1 DEF SendRefused, SendError, Return, InCall, peerVars
<1>2. CASE Resume
  BY <1>Q, <1>2 DEF Resume, InCall, peerVars, ctxVars, workVars
<1>3. CASE BeginCall
  BY <1>Q, <1>3 DEF BeginCall, SendError, Return, InCall, peerVars
<1>4. CASE StepDone
  BY <1>Q, <1>4 DEF StepDone, Return, InCall, peerVars
<1>5. CASE StepExpiredData
  BY <1>Q, <1>5 DEF StepExpiredData, SendError, Return, InCall, peerVars
<1>6. CASE StepExpiredWindow
  BY <1>Q, <1>6 DEF StepExpiredWindow, SendError, Return, InCall, peerVars
<1>7. CASE StepAgain
  BY <1>Q, <1>7 DEF StepAgain, InCall, peerVars, ctxVars, workVars
<1>8. CASE StepPrepare
  BY <1>Q, <1>8 DEF StepPrepare, InCall, peerVars, callVars
<1>9. CASE StepWait
  BY <1>Q, <1>9 DEF StepWait, Runnable, InCall, peerVars, ctxVars, workVars
<1>10. CASE WaitTick
  BY <1>Q, <1>10 DEF WaitTick, InCall, peerVars, ctxVars
<1>11. CASE WaitFailed
  BY <1>Q, <1>11 DEF WaitFailed, SendError, Return, InCall, peerVars
<1>12. CASE \E c \in {0, 1} : RecvBuffered(c)
  BY <1>Q, <1>12 DEF RecvBuffered, InCall, peerVars, ctxVars, workVars
<1>13. CASE UNCHANGED vars
  BY <1>Q, <1>13 DEF vars, InCall, peerVars, ctxVars, workVars, callVars
<1>14. ASSUME NEW m \in FromPeer, WaitFrame(m) \/ RecvPoll(m)
       PROVE  JoinInv'
  <2>1. CASE WaitIgnored(m)
    BY <1>Q, <1>T, <2>1, HandleSegmentStep
       DEF WaitIgnored, InCall, peerVars, workVars, callVars
  <2>2. CASE WaitReset(m)
    BY <1>Q, <2>2 DEF WaitReset, SendError, Return, InCall, peerVars
  <2>3. CASE WaitAcked(m)
    <3>1. UNCHANGED <<got, peerNxt, call, wire>> /\ InCall
      BY <2>3 DEF WaitAcked, InCall, peerVars
    <3>2. pointer' = pointer + active /\ sndUna' = sndUna + active /\ active \in Nat
      BY <1>T, <2>3, StateTypes DEF WaitAcked, BoundsInv, InCall, Numbered
    <3> QED
      BY <3>1, <3>2, QuietStep
  <2>4. CASE WaitClosed(m)
    BY <1>Q, <2>4 DEF WaitClosed, SendError, Return, InCall, peerVars
  <2>5. CASE WaitWindow(m)
    <3>1. sndUna' = sndUna
      BY <1>T, <2>5, HandleSegmentStep DEF WaitWindow, BoundsInv, InCall, Numbered
    <3> QED
      BY <1>Q, <2>5, <3>1 DEF WaitWindow, InCall, peerVars
  <2>6. CASE WaitAckFailed(m)
    BY <1>Q, <2>6 DEF WaitAckFailed, Return, InCall, peerVars
  <2>7. CASE RecvPoll(m)
    BY <1>Q, <2>7 DEF RecvPoll, InCall, peerVars, callVars
  <2> QED
    BY <1>14, <2>1, <2>2, <2>3, <2>4, <2>5, <2>6, <2>7 DEF WaitFrame
<1> QED
  BY <1>1, <1>2, <1>3, <1>4, <1>5, <1>6, <1>7, <1>8, <1>9, <1>10, <1>11, <1>12, <1>13, <1>14

(* A new SEND goes on behind the stream: the peer has all of the earlier   *)
(* calls, and no segment of theirs can lengthen it.                        *)
LEMMA SendJoins ==
    ASSUME IInv, Tidy, JoinInv, NEW n \in Lengths, NEW s \in Slices, Send(n, s)
    PROVE  JoinInv'
<1>1. /\ sndUna = sndNxt /\ peerNxt = sndUna /\ call' = call + 1 /\ pointer' = 0
      /\ UNCHANGED <<got, peerNxt, wire, sndUna>>
  BY StateTypes
     DEF Send, Ambiguous, Tidy, IInv, StreamInv, BoundsInv, ctxVars, peerVars
<1>2. \A m \in wire' : ~Fresh(m)'
  <2>1. \A m \in wire : m.seq + m.len <= sndNxt
    BY DEF Tidy
  <2> QED
    BY <1>1, <2>1, StateTypes DEF Fresh
<1>3. \A p \in 1..(peerNxt' - 1) : got'[p].call \in 1..call'
  <2>1. \A p \in 1..(peerNxt - 1) : got[p].call \in 1..call
    BY DEF JoinInv
  <2> QED
    BY <1>1, <2>1, StateTypes
<1>4. pointer' < sndUna' /\ Continues(call, pointer + (peerNxt - sndUna))'
  <2>1. 0 < sndUna /\ 0 + (peerNxt - sndUna) = 0
    BY <1>1, StateTypes
  <2>2. call + 1 \in 1..(call + 1)
    BY StateTypes
  <2>3. peerNxt # 1 => got[peerNxt - 1].call < call + 1
    <3>1. peerNxt # 1 => peerNxt - 1 \in 1..(peerNxt - 1)
      BY StateTypes
    <3>2. peerNxt # 1 => got[peerNxt - 1].call \in 1..call
      BY <3>1 DEF JoinInv
    <3> QED
      BY <3>2, StateTypes
  <2>4. peerNxt # 1 => got[peerNxt - 1].call <= call + 1 /\ got[peerNxt - 1].call # call + 1
    <3>1. peerNxt # 1 => got[peerNxt - 1].call \in Int
      <4>1. peerNxt # 1 => peerNxt - 1 \in 1..(peerNxt - 1)
        BY StateTypes
      <4>2. peerNxt # 1 => got[peerNxt - 1].call \in 1..call
        BY <4>1 DEF JoinInv
      <4> QED
        BY <4>2
    <3> QED
      BY <2>3, <3>1, StateTypes
  <2>5. Continues(call, 0)'
    BY <1>1, <2>2, <2>4 DEF Continues
  <2> QED
    BY <1>1, <2>1, <2>5
<1> QED
  BY <1>2, <1>3, <1>4 DEF JoinInv

(* Adding the segment in flight to the wire, or nothing, or an old byte.   *)
LEMMA TransmissionJoins ==
    ASSUME IInv, Tidy, JoinInv, StepData \/ StepProbe
    PROVE  JoinInv'
<1>1. /\ UNCHANGED <<got, peerNxt, call, pointer, sndUna>> /\ InCall
  BY DEF StepData, StepProbe, Runnable, InCall, peerVars
<1>2. \A c, k : Continues(c, k)' <=> Continues(c, k)
  BY <1>1 DEF Continues
<1>3. pointer < sndUna /\ Continues(call, pointer + (peerNxt - sndUna))
  BY <1>1 DEF JoinInv
<1>4. \A m : Fresh(m)' <=> Fresh(m)
  BY <1>1 DEF Fresh
<1>5. \A m \in wire' : Fresh(m) => m \in wire \/ (m = ActiveSegment /\ StepData)
  <2>1. CASE StepData
    BY <2>1 DEF StepData
  <2>2. CASE StepProbe
    <3>1. ~Fresh(ProbeSegment)
      BY <1>1, <2>2, StateTypes
         DEF StepProbe, Runnable, Fresh, ProbeSegment, IInv, StreamInv, BoundsInv, Numbered
    <3> QED
      BY <2>2, <3>1 DEF StepProbe
  <2> QED
    BY <2>1, <2>2
<1>6. StepData => \A m \in wire : Fresh(m) => m = ActiveSegment
  BY <1>1, StateTypes, SMTT(60)
     DEF StepData, Fresh, IInv, StreamInv, BoundsInv, Tidy, Numbered
<1>7. \A m \in wire' : Fresh(m)' =>
        /\ m.seq <= peerNxt' /\ Continues(m.call, m.off + (peerNxt - m.seq))'
        /\ \A n \in wire' : Fresh(n)' => m = n
  <2> SUFFICES ASSUME NEW m \in wire', Fresh(m)
               PROVE  /\ m.seq <= peerNxt /\ Continues(m.call, m.off + (peerNxt - m.seq))
                      /\ \A n \in wire' : Fresh(n) => m = n
    BY <1>1, <1>2, <1>4
  <2>1. CASE StepData
    <3>1. ActiveSegment.seq = sndUna /\ ActiveSegment.call = call
          /\ ActiveSegment.off = pointer
      BY DEF ActiveSegment
    <3>2. m = ActiveSegment /\ \A n \in wire' : Fresh(n) => n = ActiveSegment
      BY <1>5, <1>6, <2>1
    <3>3. sndUna <= peerNxt
      BY DEF IInv, StreamInv, BoundsInv
    <3> QED
      BY <1>3, <3>1, <3>2, <3>3
  <2>2. CASE StepProbe
    <3>1. ~StepData
      BY <2>2 DEF StepProbe, StepData
    <3>2. m \in wire /\ \A n \in wire' : Fresh(n) => n \in wire
      BY <1>5, <3>1
    <3> QED
      BY <3>2 DEF JoinInv
  <2> QED
    BY <2>1, <2>2
<1>8. \A p \in 1..(peerNxt' - 1) : got'[p].call \in 1..call'
  BY <1>1 DEF JoinInv
<1>9. (pointer < sndUna /\ Continues(call, pointer + (peerNxt - sndUna)))'
  BY <1>1, <1>2, <1>3
<1> QED
  BY <1>7, <1>8, <1>9 DEF JoinInv

(* What the peer takes is the next part of the one fresh segment.          *)
LEMMA TakeFacts ==
    ASSUME IInv, Tidy, JoinInv, NEW m \in wire, NEW n \in 1..MSS, PeerTake(m, n)
    PROVE  /\ n \in Nat /\ n >= 1 /\ peerNxt' = peerNxt + n /\ peerNxt + n <= MaxSeq + 1
           /\ Fresh(m) /\ m.seq <= peerNxt
           /\ Continues(m.call, m.off + (peerNxt - m.seq))
           /\ \A k \in wire : Fresh(k) => k = m
           /\ \A p \in 1..MaxSeq : got'[p] =
                IF p \in peerNxt..(peerNxt + n - 1)
                THEN [call |-> m.call, off |-> m.off + (p - m.seq)] ELSE got[p]
           /\ UNCHANGED <<pc, call, pointer, sndUna, wire, told>>
<1>1. n \in Nat /\ n >= 1
  BY ConstAssumption
<1>2. /\ peerNxt' = peerNxt + n /\ peerNxt + n <= m.seq + m.len
      /\ UNCHANGED <<pc, call, pointer, sndUna, wire, told>>
  BY DEF PeerTake, ctxVars, workVars, callVars, histVars
<1>3. m.seq + m.len <= sndNxt
  BY DEF Tidy
<1>4. peerNxt + n <= MaxSeq + 1 /\ Fresh(m)
  BY <1>1, <1>2, <1>3, StateTypes, SMTT(60) DEF Fresh
<1>5. /\ m.seq <= peerNxt /\ Continues(m.call, m.off + (peerNxt - m.seq))
      /\ \A k \in wire : Fresh(k) => k = m
  BY <1>4 DEF JoinInv
<1>6. \A p \in 1..MaxSeq : got'[p] =
        IF p \in peerNxt..(peerNxt + n - 1)
        THEN [call |-> m.call, off |-> m.off + (p - m.seq)] ELSE got[p]
  BY DEF PeerTake, TagAt
<1> QED
  BY <1>1, <1>2, <1>4, <1>5, <1>6

(* When the peer takes bytes, the stream grows by bytes of the segment's   *)
(* call and the call goes on behind them.                                  *)
LEMMA TakeJoins ==
    ASSUME IInv, Tidy, JoinInv, NEW m \in wire, NEW n \in 1..MSS, PeerTake(m, n)
    PROVE  JoinInv'
<1>T. /\ sndUna \in Nat /\ sndNxt \in Nat /\ peerNxt \in Nat /\ pointer \in Nat
      /\ call \in Nat /\ MaxSeq \in Nat /\ n \in Nat /\ peerNxt >= 1 /\ sndUna >= 1
      /\ peerNxt' \in Nat /\ call' \in Nat
      /\ m.seq \in Nat /\ m.len \in Nat /\ m.call \in Nat /\ m.off \in Nat
  BY StateTypes, TakeFacts, SMTT(60)
<1>W. \A k \in wire : k.seq \in Nat /\ k.len \in Nat
  BY StateTypes
<1>1. /\ n \in Nat /\ n >= 1 /\ peerNxt' = peerNxt + n /\ peerNxt + n <= MaxSeq + 1
      /\ Fresh(m) /\ m.seq <= peerNxt /\ m.call \in 1..call
      /\ \A k \in wire : Fresh(k) => k = m
      /\ UNCHANGED <<pc, call, pointer, sndUna, wire>>
  BY TakeFacts DEF Continues
<1>2. \A p \in 1..MaxSeq : got'[p] =
        IF p \in peerNxt..(peerNxt + n - 1)
        THEN [call |-> m.call, off |-> m.off + (p - m.seq)] ELSE got[p]
  BY TakeFacts
<1>3. \A p \in 1..(peerNxt' - 1) : got'[p].call \in 1..call'
  <2> SUFFICES ASSUME NEW p \in 1..(peerNxt' - 1)
               PROVE  got'[p].call \in 1..call'
    OBVIOUS
  <2>0. p \in 1..(peerNxt + n - 1) /\ call' = call
    BY <1>1, <1>T
  <2>1. p \in 1..MaxSeq
    BY <1>1, <2>0, <1>T
  <2>2. CASE p >= peerNxt
    <3>1. p \in peerNxt..(peerNxt + n - 1)
      BY <1>1, <2>0, <2>2, <1>T
    <3>2. got'[p] = [call |-> m.call, off |-> m.off + (p - m.seq)]
      BY <1>2, <2>1, <3>1
    <3>3. got'[p].call = m.call
      BY <3>2
    <3> QED
      BY <1>1, <2>0, <3>3
  <2>3. CASE p < peerNxt
    <3>1. p \in 1..(peerNxt - 1) /\ p \notin peerNxt..(peerNxt + n - 1)
      BY <1>1, <2>0, <2>3, <1>T
    <3>2. got[p].call \in 1..call
      BY <3>1 DEF JoinInv
    <3> QED
      BY <1>2, <2>0, <2>1, <3>1, <3>2
  <2> QED
    BY <2>0, <2>2, <2>3, <1>T
<1>4. Continues(m.call, m.off + (peerNxt - m.seq))'
  <2>1. /\ peerNxt + n - 1 \in 1..MaxSeq
        /\ peerNxt + n - 1 \in peerNxt..(peerNxt + n - 1) /\ peerNxt + n # 1
    BY <1>1, <1>T
  <2>2. got'[peerNxt + n - 1] =
          [call |-> m.call, off |-> m.off + ((peerNxt + n - 1) - m.seq)]
    BY <1>2, <2>1
  <2>3. /\ got'[peerNxt + n - 1].call = m.call
        /\ got'[peerNxt + n - 1].off = m.off + ((peerNxt + n - 1) - m.seq)
    BY <2>2
  <2>4. m.call <= m.call
    BY <1>T
  <2>5. (m.off + ((peerNxt + n - 1) - m.seq)) + 1 = m.off + ((peerNxt + n) - m.seq)
    BY <1>1, <1>T
  <2>6. peerNxt' = peerNxt + n /\ peerNxt' # 1 /\ m.call \in 1..call'
    BY <1>1, <2>1
  <2>7. /\ got'[peerNxt' - 1].call = m.call
        /\ got'[peerNxt' - 1].off + 1 = m.off + (peerNxt' - m.seq)
    BY <1>T, <2>3, <2>5, <2>6
  <2> QED
    BY <2>4, <2>6, <2>7 DEF Continues
<1>5. \A k \in wire' : Fresh(k)' =>
        /\ k.seq <= peerNxt' /\ Continues(k.call, k.off + (peerNxt - k.seq))'
        /\ \A l \in wire' : Fresh(l)' => k = l
  <2>1. ASSUME NEW k \in wire, Fresh(k)' PROVE Fresh(k)
    <3>1. k.seq + k.len > peerNxt + n
      BY <1>1, <2>1 DEF Fresh
    <3> QED
      BY <1>1, <1>T, <1>W, <3>1 DEF Fresh
  <2>2. \A k \in wire' : Fresh(k)' => k = m
    BY <1>1, <2>1
  <2>3. m.seq <= peerNxt'
    BY <1>1, <1>T
  <2> QED
    BY <1>4, <2>2, <2>3
<1>6. InCall' => (pointer < sndUna /\ Continues(call, pointer + (peerNxt - sndUna)))'
  <2> SUFFICES ASSUME InCall
               PROVE  (pointer < sndUna /\ Continues(call, pointer + (peerNxt - sndUna)))'
    BY <1>1 DEF InCall
  <2>1. pointer' < sndUna'
    BY <1>1 DEF JoinInv
  <2>2. m = ActiveSegment
    BY <1>1, <1>T, <1>W DEF Fresh, IInv, StreamInv, BoundsInv, Tidy
  <2>3. m.call = call /\ m.off = pointer /\ m.seq = sndUna
    BY <2>2 DEF ActiveSegment
  <2>4. Continues(call, pointer + (peerNxt - sndUna))'
    BY <1>1, <1>4, <2>3
  <2> QED
    BY <2>1, <2>4
<1> QED
  BY <1>3, <1>5, <1>6 DEF JoinInv

(* JoinInv holds initially and is kept by every step as long as there is   *)
(* no stray.                                                               *)
LEMMA JoinInit == Init => JoinInv
BY ConstAssumption DEF Init, JoinInv, InCall

LEMMA JoinStep ==
    ASSUME IInv, JoinInv, stray = {}, [Next]_vars
    PROVE  JoinInv'
<1>0. Tidy
  BY TidyState
<1>1. ASSUME NEW n \in Lengths, NEW s \in Slices, Send(n, s) PROVE JoinInv'
  BY <1>0, <1>1, SendJoins
<1>2. CASE StepData \/ StepProbe
  BY <1>0, <1>2, TransmissionJoins
<1>3. ASSUME NEW m \in wire, NEW n \in 1..MSS, PeerTake(m, n) PROVE JoinInv'
  BY <1>0, <1>3, TakeJoins
<1> QED
  BY <1>1, <1>2, <1>3, QuietActions DEF Next, Step

----------------------------------------------------------------------------
\* What SendContract sees of a state.
StreamOf == [p \in 1..(peerNxt - 1) |-> got[p]]
Reported == {told[p] : p \in 1..MaxSeq} \ {NoTag}

(* The contract starts with an empty stream and nothing reported.          *)
LEMMA ContractInit == Init => Contract!Init
<1> SUFFICES ASSUME Init PROVE Contract!Init
  OBVIOUS
<1>1. peerNxt = 1 /\ told = [i \in 1..MaxSeq |-> NoTag] /\ call = 0 /\ stray = {}
  BY DEF Init
<1>2. [p \in 1..(peerNxt - 1) |-> got[p]] = <<>>
  BY <1>1
<1>3. {told[p] : p \in 1..MaxSeq} \ {NoTag} = {}
  BY <1>1
<1> QED
  BY <1>1, <1>2, <1>3 DEF Contract!Init

(* A step that touches none of the caller's facts is a stutter.            *)
LEMMA ContractStutter ==
    ASSUME UNCHANGED <<told, got, peerNxt, call, stray>>
    PROVE  UNCHANGED Contract!vars
BY DEF Contract!vars

(* A new SEND is accepted by the contract.                                 *)
LEMMA ContractSubmit ==
    ASSUME NEW n \in Lengths, NEW s \in Slices, Send(n, s)
    PROVE  Contract!Submit
<1>1. call < MaxCalls /\ call' = call + 1 /\ UNCHANGED <<told, got, peerNxt, stray>>
  BY DEF Send, peerVars, histVars
<1> QED
  BY <1>1 DEF Contract!Submit

(* What Tell adds to the confirmed bytes is in the stream, and nothing     *)
(* that was confirmed before is forgotten.                                 *)
LEMMA ContractReport ==
    ASSUME IInv, Tidy, JoinInv, InCall, Numbered, NEW n \in Nat, n >= 1,
           sndUna + n <= peerNxt, Tell(n), UNCHANGED <<got, peerNxt, call, stray>>
    PROVE  Contract!Report(pointer, n)
<1> DEFINE B == {[call |-> call, off |-> i] : i \in pointer..(pointer + n - 1)}
<1>T. /\ sndUna \in Nat /\ peerNxt \in Nat /\ pointer \in Nat /\ MaxSeq \in Nat
      /\ sndUna >= 1 /\ peerNxt <= MaxSeq + 1
  BY StateTypes
<1>1. \A p \in sndUna..(peerNxt - 1) : got[p] = [call |-> call, off |-> pointer + (p - sndUna)]
  BY DEF Tidy
<1>2. \A p \in 1..MaxSeq : told'[p] =
        IF p \in sndUna..(sndUna + n - 1)
        THEN [call |-> call, off |-> pointer + (p - sndUna)] ELSE told[p]
  BY DEF Tell
<1>3. \A b \in B : \E p \in sndUna..(sndUna + n - 1) :
        b = [call |-> call, off |-> pointer + (p - sndUna)]
  <2> SUFFICES ASSUME NEW i \in pointer..(pointer + n - 1)
               PROVE  \E p \in sndUna..(sndUna + n - 1) : i = pointer + (p - sndUna)
    OBVIOUS
  <2>1. /\ sndUna + (i - pointer) \in sndUna..(sndUna + n - 1)
        /\ i = pointer + ((sndUna + (i - pointer)) - sndUna)
    BY <1>T
  <2> QED
    BY <2>1
<1>4. \A p \in sndUna..(sndUna + n - 1) :
        /\ [call |-> call, off |-> pointer + (p - sndUna)] \in B
        /\ p \in sndUna..(peerNxt - 1) /\ p \in 1..(peerNxt - 1) /\ p \in 1..MaxSeq
  <2> SUFFICES ASSUME NEW p \in sndUna..(sndUna + n - 1)
               PROVE  /\ [call |-> call, off |-> pointer + (p - sndUna)] \in B
                      /\ p \in sndUna..(peerNxt - 1) /\ p \in 1..(peerNxt - 1)
                      /\ p \in 1..MaxSeq
    OBVIOUS
  <2>1. pointer + (p - sndUna) \in pointer..(pointer + n - 1)
    BY <1>T
  <2>2. p \in sndUna..(peerNxt - 1) /\ p \in 1..(peerNxt - 1) /\ p \in 1..MaxSeq
    BY <1>T
  <2> QED
    BY <2>1, <2>2
<1>5. B \subseteq {StreamOf[i] : i \in 1..Len(StreamOf)}
  <2>1. Len(StreamOf) = peerNxt - 1 /\ \A p \in 1..(peerNxt - 1) : StreamOf[p] = got[p]
    BY <1>T DEF StreamOf
  <2> SUFFICES ASSUME NEW b \in B
               PROVE  \E p \in 1..(peerNxt - 1) : b = got[p]
    BY <2>1
  <2>2. PICK p \in sndUna..(sndUna + n - 1) : b = [call |-> call, off |-> pointer + (p - sndUna)]
    BY <1>3
  <2>3. p \in 1..(peerNxt - 1) /\ got[p] = b
    BY <1>1, <1>4, <2>2
  <2> QED
    BY <2>3
<1>6. Reported' = Reported \cup B
  <2>1. ASSUME NEW p \in 1..MaxSeq, told[p] # NoTag, p \in sndUna..(sndUna + n - 1)
        PROVE  told[p] \in B
    <3>1. got[p] = told[p]
      BY <2>1 DEF Tidy
    <3> QED
      BY <1>1, <1>4, <2>1, <3>1
  <2>2. \A b \in B : b # NoTag
    <3>1. call # 0
      BY DEF JoinInv, Continues
    <3> QED
      BY <3>1 DEF NoTag
  <2>3. ASSUME NEW t \in Reported' PROVE t \in Reported \cup B
    <3>1. PICK p \in 1..MaxSeq : t = told'[p] /\ t # NoTag
      BY <2>3 DEF Reported
    <3> QED
      BY <1>2, <1>4, <3>1 DEF Reported
  <2>4. ASSUME NEW t \in Reported PROVE t \in Reported'
    <3>1. PICK p \in 1..MaxSeq : t = told[p] /\ t # NoTag
      BY <2>4 DEF Reported
    <3>2. CASE p \in sndUna..(sndUna + n - 1)
      <4>1. got[p] = told[p] /\ p \in sndUna..(peerNxt - 1)
        BY <1>4, <3>1, <3>2 DEF Tidy
      <4>2. told'[p] = t
        BY <1>1, <1>2, <3>1, <3>2, <4>1
      <4> QED
        BY <3>1, <4>2 DEF Reported
    <3>3. CASE p \notin sndUna..(sndUna + n - 1)
      BY <1>2, <3>1, <3>3 DEF Reported
    <3> QED
      BY <3>2, <3>3
  <2>5. ASSUME NEW b \in B PROVE b \in Reported'
    <3>1. PICK p \in sndUna..(sndUna + n - 1) : b = [call |-> call, off |-> pointer + (p - sndUna)]
      BY <1>3
    <3>2. p \in 1..MaxSeq /\ told'[p] = b
      BY <1>2, <1>4, <3>1
    <3> QED
      BY <2>2, <3>2 DEF Reported
  <2> QED
    BY <2>3, <2>4, <2>5
<1> QED
  BY <1>5, <1>6 DEF Contract!Report, Contract!Streamed, StreamOf, Reported

(* The concatenation of two sequences, element by element.                 *)
LEMMA Concatenation ==
    ASSUME NEW S, NEW s \in Seq(S), NEW t \in Seq(S)
    PROVE  s \o t = [i \in 1..(Len(s) + Len(t)) |->
                       IF i <= Len(s) THEN s[i] ELSE t[i - Len(s)]]
<1>1. s \o t \in Seq(S) /\ Len(s \o t) = Len(s) + Len(t)
  BY ConcatProperties
<1>2. s \o t \in [1..(Len(s) + Len(t)) -> S]
  BY <1>1, LenProperties, Zenon
<1>3. s \o t = [i \in 1..(Len(s) + Len(t)) |-> (s \o t)[i]]
  BY <1>2, Zenon
<1>4. \A i \in 1..(Len(s) + Len(t)) :
        (s \o t)[i] = IF i <= Len(s) THEN s[i] ELSE t[i - Len(s)]
  BY ConcatProperties
<1> QED
  BY <1>3, <1>4, Zenon

(* What the peer takes is delivered by the contract, behind what it has.   *)
LEMMA ContractDeliver ==
    ASSUME IInv, Tidy, JoinInv, NEW m \in wire, NEW n \in 1..MSS, PeerTake(m, n)
    PROVE  Contract!Deliver(m.call, n)
<1>T. /\ peerNxt \in Nat /\ call \in Nat /\ MaxSeq \in Nat /\ n \in Nat /\ peerNxt >= 1
      /\ peerNxt' \in Nat /\ m.seq \in Nat /\ m.call \in Nat /\ m.off \in Nat
      /\ n >= 1 /\ peerNxt' = peerNxt + n /\ peerNxt + n <= MaxSeq + 1
  BY StateTypes, TakeFacts, SMTT(60)
<1>1. Continues(m.call, m.off + (peerNxt - m.seq)) /\ UNCHANGED <<call, told, stray>>
  BY TakeFacts DEF PeerTake
<1>2. \A p \in 1..MaxSeq : got'[p] =
        IF p \in peerNxt..(peerNxt + n - 1)
        THEN [call |-> m.call, off |-> m.off + (p - m.seq)] ELSE got[p]
  BY TakeFacts
<1>3. /\ StreamOf \in Seq(Tags) /\ Len(StreamOf) = peerNxt - 1
      /\ StreamOf = <<>> <=> peerNxt = 1
      /\ peerNxt # 1 => StreamOf[Len(StreamOf)] = got[peerNxt - 1]
  <2>1. \A p \in 1..(peerNxt - 1) : got[p] \in Tags
    <3>1. got \in [1..MaxSeq -> Tags]
      BY StateTypes
    <3> QED
      BY <1>T, <3>1
  <2>2. peerNxt - 1 \in Nat
    BY <1>T
  <2> QED
    BY <1>T, <2>1, <2>2 DEF StreamOf
<1>4. StreamOf # <<>> => m.call >= StreamOf[Len(StreamOf)].call
  <2>1. peerNxt # 1 => got[peerNxt - 1].call <= m.call
    BY <1>1 DEF Continues
  <2> QED
    BY <1>3, <2>1
<1> DEFINE k == IF StreamOf = <<>> \/ StreamOf[Len(StreamOf)].call # m.call THEN 0
                ELSE StreamOf[Len(StreamOf)].off + 1
           more == [i \in 1..n |-> [call |-> m.call, off |-> k + i - 1]]
<1>5. k = m.off + (peerNxt - m.seq) /\ k \in Int
  <2>1. k = IF peerNxt = 1 THEN 0
            ELSE IF got[peerNxt - 1].call = m.call THEN got[peerNxt - 1].off + 1 ELSE 0
    BY <1>3
  <2> QED
    BY <1>1, <1>T, <2>1, SMTT(60) DEF Continues
<1>6. StreamOf' = StreamOf \o more
  <2>1. StreamOf' = [p \in 1..(peerNxt + n - 1) |-> got'[p]]
    BY <1>T DEF StreamOf
  <2>2. StreamOf \o more = [p \in 1..(peerNxt + n - 1) |->
          IF p <= peerNxt - 1 THEN StreamOf[p] ELSE more[p - (peerNxt - 1)]]
    <3>1. Len(more) = n /\ more \in Seq(Tags)
      <4>1. k \in Nat
        BY <1>T, <1>5, TakeFacts
      <4>2. \A i \in 1..n : k + i - 1 \in Nat
        BY <1>T, <4>1
      <4> QED
        BY <1>T, <4>2 DEF Tags
    <3> HIDE DEF more
    <3>2. StreamOf \o more = [p \in 1..(Len(StreamOf) + Len(more)) |->
            IF p <= Len(StreamOf) THEN StreamOf[p] ELSE more[p - Len(StreamOf)]]
      <4>1. \A s, t \in Seq(Tags) : s \o t = [i \in 1..(Len(s) + Len(t)) |->
              IF i <= Len(s) THEN s[i] ELSE t[i - Len(s)]]
        BY Concatenation
      <4> QED
        BY <1>3, <3>1, <4>1, Zenon
    <3>3. Len(StreamOf) + Len(more) = peerNxt + n - 1
      BY <1>T, <1>3, <3>1
    <3> QED
      BY <1>3, <3>2, <3>3
  <2>3. ASSUME NEW p \in 1..(peerNxt + n - 1)
        PROVE  got'[p] = IF p <= peerNxt - 1 THEN StreamOf[p] ELSE more[p - (peerNxt - 1)]
    <3>1. p \in 1..MaxSeq
      BY <1>T
    <3>2. CASE p <= peerNxt - 1
      <4>1. p \in 1..(peerNxt - 1) /\ p \notin peerNxt..(peerNxt + n - 1)
        BY <1>T, <3>2
      <4> QED
        BY <1>2, <3>1, <3>2, <4>1 DEF StreamOf
    <3>3. CASE ~(p <= peerNxt - 1)
      <4>1. p \in peerNxt..(peerNxt + n - 1) /\ p - (peerNxt - 1) \in 1..n
        BY <1>T, <3>3
      <4>2. more[p - (peerNxt - 1)] =
              [call |-> m.call, off |-> k + (p - (peerNxt - 1)) - 1]
        BY <4>1
      <4>3. k + (p - (peerNxt - 1)) - 1 = m.off + (p - m.seq)
        BY <1>T, <1>5
      <4> QED
        BY <1>2, <3>1, <3>3, <4>1, <4>2, <4>3
    <3> QED
      BY <3>2, <3>3
  <2> QED
    BY <2>1, <2>2, <2>3
<1> QED
  BY <1>1, <1>4, <1>6
     DEF Contract!Deliver, Contract!Last, Contract!NextOffset, StreamOf

----------------------------------------------------------------------------
(* Every step that makes no stray is a step of the contract or a stutter.  *)
LEMMA ContractStep ==
    ASSUME IInv, JoinInv, stray = {}, stray' = {}, [Next]_vars
    PROVE  [Contract!Next]_(Contract!vars)
<1>S. UNCHANGED stray /\ Tidy
  BY TidyState
<1>T. /\ sndUna \in Nat /\ sndNxt \in Nat /\ peerNxt \in Nat /\ pointer \in Nat
      /\ active \in Nat /\ MaxSeq \in Nat /\ peerNxt <= MaxSeq + 1 /\ sndUna >= 1
      /\ peerNxt >= 1
  BY StateTypes
<1>B. TypeOK /\ BoundsInv
  BY DEF IInv, StreamInv
<1>R. ASSUME InCall, Numbered, NEW n \in Nat, n >= 1, sndUna + n <= peerNxt,
             Tell(n), UNCHANGED <<got, peerNxt, call>>
      PROVE  Contract!Next
  <2>1. pointer \in 0..MaxSeq /\ n \in 1..MaxSeq
    <3>1. pointer < sndUna
      BY <1>R DEF JoinInv
    <3> QED
      BY <1>R, <1>T, <3>1
  <2> QED
    BY <1>S, <1>R, <2>1, ContractReport DEF Contract!Next
<1>1. ASSUME NEW n \in Lengths, NEW s \in Slices, Send(n, s)
      PROVE  Contract!Next
  BY <1>1, ContractSubmit DEF Contract!Next
<1>2. ASSUME NEW m \in wire, NEW n \in 1..MSS, PeerTake(m, n)
      PROVE  Contract!Next
  <2>1. n \in 1..MaxSeq /\ m.call \in 1..call
    <3>1. n \in Nat /\ n >= 1 /\ peerNxt + n <= MaxSeq + 1 /\ m.call \in 1..call
      BY <1>S, <1>2, TakeFacts DEF Continues
    <3> QED
      BY <1>T, <3>1
  <2> QED
    BY <1>S, <1>2, <2>1, ContractDeliver DEF Contract!Next
<1>3. ASSUME NEW m \in FromPeer, WaitAcked(m)
      PROVE  Contract!Next
  <2>1. InCall /\ Numbered /\ Tell(active) /\ UNCHANGED <<got, peerNxt, call>>
    BY <1>3 DEF WaitAcked, InCall, Numbered, peerVars
  <2>2. sndUna' = target /\ (sndUna' = sndUna \/ (sndUna' = sndNxt /\ sndNxt <= peerNxt))
    BY <1>B, <1>3, HandleSegmentStep DEF WaitAcked
  <2>3. active >= 1 /\ sndUna + active <= peerNxt
    BY <1>B, <1>T, <2>1, <2>2 DEF BoundsInv
  <2> QED
    BY <1>R, <1>T, <2>1, <2>3
<1>4. ASSUME NEW m \in FromPeer, WaitClosed(m)
      PROVE  Contract!Next \/ UNCHANGED Contract!vars
  <2>1. InCall /\ Numbered /\ Tell(Partial(m)) /\ UNCHANGED <<got, peerNxt, call>>
    BY <1>4 DEF WaitClosed, InCall, Numbered, peerVars
  <2>2. Partial(m) \in Nat /\ sndUna + Partial(m) <= peerNxt
    BY <1>B, <1>T, PartialBound DEF BoundsInv
  <2>3. CASE Partial(m) = 0
    <3>1. told \in [1..MaxSeq -> Tags]
      BY StateTypes
    <3>2. \A p \in 1..MaxSeq : p \notin sndUna..(sndUna + 0 - 1)
      BY <1>T
    <3>3. told' = [p \in 1..MaxSeq |-> told[p]]
      BY <2>1, <2>3, <3>2 DEF Tell
    <3>4. told' = told
      BY <3>1, <3>3
    <3> QED
      BY <1>S, <2>1, <3>4, ContractStutter
  <2>4. CASE Partial(m) # 0
    BY <1>R, <2>1, <2>2, <2>4
  <2> QED
    BY <2>3, <2>4
<1>5. ASSUME NEW m \in FromPeer,
             WaitIgnored(m) \/ WaitReset(m) \/ WaitWindow(m) \/ WaitAckFailed(m) \/ RecvPoll(m)
      PROVE  UNCHANGED Contract!vars
  BY <1>S, <1>5, ContractStutter
     DEF WaitIgnored, WaitReset, WaitWindow, WaitAckFailed, RecvPoll, callVars, peerVars,
         histVars
<1>6. CASE SendRefused \/ Resume \/ BeginCall
  BY <1>S, <1>6, ContractStutter DEF SendRefused, Resume, BeginCall, callVars, peerVars, histVars
<1>7. CASE Step
  BY <1>S, <1>7, ContractStutter
     DEF Step, StepDone, StepExpiredData, StepExpiredWindow, StepAgain, StepPrepare, StepData,
         StepProbe, StepWait, callVars, peerVars, histVars
<1>8. CASE WaitTick \/ WaitFailed \/ \E c \in {0, 1} : RecvBuffered(c)
  BY <1>S, <1>8, ContractStutter
     DEF WaitTick, WaitFailed, RecvBuffered, callVars, peerVars, histVars
<1>9. CASE UNCHANGED vars
  BY <1>S, <1>9, ContractStutter DEF vars, callVars, peerVars, histVars
<1> QED
  BY <1>1, <1>2, <1>3, <1>4, <1>5, <1>6, <1>7, <1>8, <1>9 DEF Next, WaitFrame

(* With the first stray the contract is void, and stays so.                *)
LEMMA VoidStep ==
    ASSUME stray' # {}
    PROVE  Contract!Next
BY DEF Contract!Next, Contract!Void

(* The executor implements what the DLL promises a caller of SEND: every   *)
(* SEND's bytes once and in order, and DE only over bytes that are there,  *)
(* until a frame leaves that the card reports as failed.                   *)
THEOREM Implements == Spec => KeepsContract
<1> DEFINE Joined == stray = {} => JoinInv
<1>1. Init => IInv /\ Joined
  BY InvInit, JoinInit
<1>2. IInv /\ Joined /\ [Next]_vars => IInv' /\ Joined'
  BY InvStep, JoinStep, StraysStay
<1>3. IInv /\ Joined /\ [Next]_vars => [Contract!Next]_(Contract!vars)
  BY ContractStep, VoidStep, StraysStay
<1> HIDE DEF Joined
<1> QED
  BY <1>1, <1>2, <1>3, ContractInit, PTL DEF Spec, KeepsContract, Contract!Spec

=============================================================================
