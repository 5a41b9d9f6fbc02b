------------------------ MODULE TcpSendBudgetProofs ------------------------
(***************************************************************************)
(* Proofs about the waits of SEND: no wait starts on an old event, a       *)
(* sliced public call polls for no longer than its slice, and a segment or *)
(* a shut window is given up after its whole ladder of waits, for every    *)
(* value of the constants.                                                 *)
(***************************************************************************)
EXTENDS TcpSendProofs

\* Events are cleared with the transmission and taken only by a wait, which ends
\* the phase or the call.
EventInv ==
    /\ pc = "wait" => Waiting
    /\ InCall /\ Waiting => event \cap Events = {}

\* The slice pays for every quantum polled: before a wait with callLeft, in a wait
\* with callLeft and the quanta that are not charged yet.
SliceInv ==
    slice > 0 =>
        /\ pc = "step" => spent + callLeft <= slice
        /\ pc = "wait" => /\ elapsed < budget /\ budget <= callLeft
                          /\ spent + callLeft <= slice + elapsed
        /\ pc \in {"idle", "parked"} => spent <= slice

\* The quanta of the first k waits for a segment, and those of the wait in progress
\* that are not charged yet.
Waited(k) ==
    IF k = 0 THEN 0 ELSE IF k = 1 THEN WaitMs ELSE 3 * WaitMs + (k - 2) * 4 * WaitMs
Unpaid == IF pc = "wait" THEN elapsed ELSE 0

\* The clock of the attempt: what was waited and what is left of this wait make up
\* whole waits, one more than retries are spent.
LadderInv ==
    /\ pc = "wait" => elapsed < budget /\ budget <= msLeft
    /\ InCall /\ phase = "DATA" => silent = Waited(Attempts - retryLeft)
    /\ InCall /\ phase = "ACK" => silent + msLeft = Waited(Attempts - retryLeft + 1) + Unpaid
    /\ pc = "idle" /\ status = "TIMEOUT" => silent = Ladder

\* The clock of the probes: each missed one has cost W, but for the quantum a FIN took.
ProbeInv ==
    /\ InCall /\ phase \in {"PROBE", "WINDOW"} => probeInterval >= WaitMs
    /\ InCall /\ phase = "PROBE" => silent + remoteFin >= probeMissed * WaitMs
    /\ InCall /\ phase = "WINDOW" =>
         IF probeAnswered THEN probeMissed = 0
         ELSE silent + remoteFin + msLeft >= (probeMissed + 1) * WaitMs + Unpaid
    /\ pc = "idle" /\ status = "WINDOW" => silent + remoteFin >= Attempts * WaitMs

(* The events of a phase that waits are those that came after it began.    *)
LEMMA EventStep ==
    ASSUME EventInv, [Next]_vars
    PROVE  EventInv'
<1> USE DEF EventInv, InCall, Waiting
<1>1. ASSUME NEW n \in Lengths, NEW s \in Slices, Send(n, s) PROVE EventInv'
  BY <1>1 DEF Send
<1>2. CASE SendRefused \/ Resume \/ BeginCall
  BY <1>2 DEF SendRefused, Resume, BeginCall, SendError, Return, ctxVars, workVars
<1>3. CASE StepDone \/ StepExpiredData \/ StepExpiredWindow \/ StepAgain
  BY <1>3 DEF StepDone, StepExpiredData, StepExpiredWindow, StepAgain, SendError, Return,
              ctxVars, workVars
<1>4. CASE StepPrepare
  BY <1>4 DEF StepPrepare, Runnable, callVars
<1>5. CASE StepData \/ StepProbe
  <2>1. event' \cap Events = {}
    BY <1>5 DEF StepData, StepProbe, ClearedEvents
  <2>2. pc' # "wait"
    BY <1>5 DEF StepData, StepProbe, Runnable, SendError, Return
  <2> QED
    BY <2>1, <2>2
<1>6. CASE StepWait
  BY <1>6 DEF StepWait, Runnable, ctxVars, workVars
<1>7. ASSUME NEW m \in FromPeer, WaitFrame(m) \/ RecvPoll(m) PROVE EventInv'
  <2>1. CASE WaitIgnored(m)
    BY <2>1 DEF WaitIgnored, workVars, callVars
  <2>2. CASE WaitReset(m) \/ WaitClosed(m) \/ WaitAckFailed(m)
    BY <2>2 DEF WaitReset, WaitClosed, WaitAckFailed, SendError, Return
  <2>3. CASE WaitAcked(m)
    BY <2>3 DEF WaitAcked
  <2>4. CASE WaitWindow(m)
    BY <2>4 DEF WaitWindow
  <2>5. CASE RecvPoll(m)
    BY <2>5 DEF RecvPoll, callVars
  <2> QED
    BY <1>7, <2>1, <2>2, <2>3, <2>4, <2>5 DEF WaitFrame
<1>8. CASE WaitTick
  BY <1>8 DEF WaitTick, ctxVars
<1>9. CASE WaitFailed
  BY <1>9 DEF WaitFailed, SendError, Return
<1>10. CASE \E c \in {0, 1} : RecvBuffered(c)
  BY <1>10 DEF RecvBuffered, ctxVars, workVars
<1>11. ASSUME NEW m \in wire, NEW n \in 1..MSS, PeerTake(m, n) PROVE EventInv'
  BY <1>11 DEF PeerTake, ctxVars, workVars, callVars
<1>12. CASE UNCHANGED vars
  BY <1>12 DEF vars, ctxVars, workVars, callVars
<1> QED
  BY <1>1, <1>2, <1>3, <1>4, <1>5, <1>6, <1>7, <1>8, <1>9, <1>10, <1>11, <1>12 DEF Next, Step

(* SEND_CHARGE takes at least one quantum, and all that was waited, from   *)
(* what the slice has left.                                                *)
LEMMA ChargeSlice ==
    ASSUME NEW e \in Nat, Charge(e), slice \in Nat, slice > 0, callLeft \in Nat,
           e <= callLeft, callLeft > 0
    PROVE  callLeft' \in Nat /\ callLeft' + e <= callLeft
BY DEF Charge, AtLeastOne

(* The slice pays for every quantum, whatever ends the waits.              *)
LEMMA SliceStep ==
    ASSUME TypeOK, SliceInv, [Next]_vars
    PROVE  SliceInv'
<1>T. /\ slice \in Nat /\ spent \in Nat /\ callLeft \in Nat /\ msLeft \in Nat
      /\ elapsed \in Nat /\ budget \in Nat
  BY DEF TypeOK, WorkType, CallType, PeerType
<1>1. ASSUME NEW n \in Lengths, NEW s \in Slices, Send(n, s) PROVE SliceInv'
  BY <1>1 DEF SliceInv, Send
<1>2. CASE SendRefused \/ Resume
  BY <1>2 DEF SliceInv, SendRefused, Resume, SendError, Return, histVars
<1>3. CASE BeginCall
  BY <1>T, <1>3 DEF SliceInv, BeginCall, SendError, Return
<1>4. CASE StepDone \/ StepExpiredData \/ StepExpiredWindow \/ StepAgain \/ StepPrepare
  BY <1>T, <1>4
     DEF SliceInv, StepDone, StepExpiredData, StepExpiredWindow, StepAgain, StepPrepare,
         SendError, Return, workVars, callVars, histVars
<1>5. CASE StepData \/ StepProbe
  BY <1>T, <1>5 DEF SliceInv, StepData, StepProbe, Runnable, SendError, Return, histVars
<1>6. CASE StepWait
  <2>1. /\ pc = "step" /\ pc' = "wait" /\ elapsed' = 0 /\ UNCHANGED <<slice, spent, callLeft>>
        /\ slice > 0 => callLeft > 0
    BY <1>T, <1>6 DEF StepWait, Runnable, workVars, histVars
  <2>2. msLeft > 0
    BY <1>T, <1>6 DEF StepWait, Runnable, Expired
  <2>3. slice > 0 => budget' \in Nat /\ budget' > 0 /\ budget' <= callLeft
    BY <1>T, <1>6, <2>1, <2>2 DEF StepWait, WaitBudget, Least
  <2> QED
    BY <1>T, <2>1, <2>3 DEF SliceInv
<1>7. ASSUME NEW m \in FromPeer, WaitFrame(m) \/ RecvPoll(m) PROVE SliceInv'
  <2>1. CASE WaitIgnored(m) \/ RecvPoll(m)
    BY <2>1 DEF SliceInv, WaitIgnored, RecvPoll, workVars, callVars, histVars
  <2>2. CASE WaitReset(m) \/ WaitClosed(m) \/ WaitAckFailed(m)
    <3>1. pc = "wait" /\ pc' = "idle" /\ UNCHANGED <<slice, spent>>
      BY <2>2 DEF WaitReset, WaitClosed, WaitAckFailed, SendError, Return, Tell, histVars
    <3> QED
      BY <1>T, <3>1 DEF SliceInv
  <2>3. CASE WaitAcked(m) \/ WaitWindow(m)
    <3>1. pc = "wait" /\ pc' = "step" /\ UNCHANGED <<slice, spent>> /\ Charge(elapsed)
      BY <2>3 DEF WaitAcked, WaitWindow, Tell
    <3> SUFFICES ASSUME slice > 0
                 PROVE  spent + callLeft' <= slice
      BY <3>1 DEF SliceInv
    <3>2. elapsed <= callLeft /\ callLeft > 0 /\ spent + callLeft <= slice + elapsed
      BY <1>T, <3>1 DEF SliceInv
    <3>3. callLeft' \in Nat /\ callLeft' + elapsed <= callLeft
      BY <1>T, <3>1, <3>2, ChargeSlice
    <3>4. PICK rest \in Nat : callLeft' = rest
      BY <3>3
    <3> QED
      BY <1>T, <3>2, <3>3, <3>4
  <2> QED
    BY <1>7, <2>1, <2>2, <2>3 DEF WaitFrame
<1>8. CASE WaitTick
  <2>1. /\ pc = "wait" /\ elapsed' = elapsed + 1 /\ UNCHANGED <<slice, budget>>
        /\ slice > 0 => spent' = spent + 1
    BY <1>T, <1>8 DEF WaitTick
  <2> SUFFICES ASSUME slice > 0
               PROVE  SliceInv'
    BY <2>1 DEF SliceInv
  <2>2. elapsed < budget /\ budget <= callLeft /\ spent + callLeft <= slice + elapsed
    BY <2>1 DEF SliceInv
  <2>3. CASE elapsed' = budget
    <3>1. Charge(elapsed') /\ pc' = "step"
      BY <1>8, <2>3 DEF WaitTick
    <3>2. elapsed + 1 \in Nat /\ elapsed + 1 <= callLeft /\ callLeft > 0
      BY <1>T, <2>2
    <3>3. callLeft' \in Nat /\ callLeft' + (elapsed + 1) <= callLeft
      BY <1>T, <2>1, <3>1, <3>2, ChargeSlice
    <3>4. PICK rest \in Nat : callLeft' = rest
      BY <3>3
    <3>5. (spent + 1) + rest <= slice
      BY <1>T, <2>2, <3>3, <3>4
    <3> QED
      BY <1>T, <2>1, <3>1, <3>4, <3>5 DEF SliceInv
  <2>4. CASE elapsed' # budget
    <3>1. pc' = "wait" /\ UNCHANGED callLeft
      BY <1>8, <2>1, <2>4 DEF WaitTick
    <3> QED
      BY <1>T, <2>1, <2>2, <2>4, <3>1 DEF SliceInv
  <2> QED
    BY <2>3, <2>4
<1>9. CASE WaitFailed
  <2>1. pc = "wait" /\ pc' = "idle" /\ UNCHANGED <<slice, spent>>
    BY <1>9 DEF WaitFailed, SendError, Return, histVars
  <2> QED
    BY <1>T, <2>1 DEF SliceInv
<1>10. CASE \E c \in {0, 1} : RecvBuffered(c)
  BY <1>10 DEF SliceInv, RecvBuffered, workVars, histVars
<1>11. ASSUME NEW m \in wire, NEW n \in 1..MSS, PeerTake(m, n) PROVE SliceInv'
  BY <1>11 DEF SliceInv, PeerTake, workVars, callVars, histVars
<1>12. CASE UNCHANGED vars
  BY <1>12 DEF SliceInv, vars, workVars, callVars, histVars
<1> QED
  BY <1>1, <1>2, <1>3, <1>4, <1>5, <1>6, <1>7, <1>8, <1>9, <1>10, <1>11, <1>12 DEF Next, Step

----------------------------------------------------------------------------
(* One more wait, of the length the planner chooses, climbs the ladder by  *)
(* one rung; the last rung is the ladder.                                  *)
LEMMA WaitedType ==
    ASSUME NEW k \in Nat
    PROVE  Waited(k) \in Nat
<1>1. CASE k \in {0, 1}
  BY <1>1, ConstAssumption DEF Waited
<1>2. CASE k \notin {0, 1}
  <2>1. k - 2 \in Nat /\ 4 * WaitMs \in Nat /\ 3 * WaitMs \in Nat
    BY <1>2, ConstAssumption
  <2>2. PICK j \in Nat : j = k - 2
    BY <2>1
  <2>3. j * 4 * WaitMs \in Nat
    BY ConstAssumption
  <2> QED
    BY <1>2, <2>1, <2>2, <2>3 DEF Waited
<1> QED
  BY <1>1, <1>2

LEMMA WaitedNext ==
    ASSUME NEW k \in Nat
    PROVE  Waited(k + 1) = Waited(k) + (IF k = 0 THEN WaitMs
                                       ELSE IF k = 1 THEN 2 * WaitMs ELSE 4 * WaitMs)
<1>1. CASE k \in {0, 1}
  BY <1>1, ConstAssumption DEF Waited
<1>2. CASE k \notin {0, 1}
  <2>1. PICK j \in Nat : j = k - 2
    BY <1>2
  <2>2. (j + 1) * 4 * WaitMs = j * 4 * WaitMs + 4 * WaitMs
    BY ConstAssumption
  <2>3. (k + 1) - 2 = j + 1 /\ k + 1 \notin {0, 1}
    BY <1>2, <2>1
  <2>4. Waited(k + 1) = 3 * WaitMs + (j + 1) * 4 * WaitMs
    BY <2>3 DEF Waited
  <2>5. Waited(k) = 3 * WaitMs + j * 4 * WaitMs
    BY <1>2, <2>1 DEF Waited
  <2>6. j * 4 * WaitMs \in Nat /\ 4 * WaitMs \in Nat /\ 3 * WaitMs \in Nat
    BY ConstAssumption
  <2> QED
    BY <1>2, <2>2, <2>4, <2>5, <2>6
<1> QED
  BY <1>1, <1>2

LEMMA WaitedGrows ==
    ASSUME NEW k \in Nat, NEW n \in Nat, k <= n
    PROVE  Waited(k) <= Waited(n)
<1>1. CASE k \in {0, 1}
  <2>1. CASE n \in {0, 1}
    BY <1>1, <2>1, ConstAssumption DEF Waited
  <2>2. CASE n \notin {0, 1}
    <3>1. PICK j \in Nat : j = n - 2
      BY <2>2
    <3>2. j * 4 * WaitMs \in Nat
      BY ConstAssumption
    <3>3. Waited(n) = 3 * WaitMs + j * 4 * WaitMs
      BY <2>2, <3>1 DEF Waited
    <3>4. Waited(k) <= WaitMs /\ Waited(k) \in Nat
      BY <1>1, ConstAssumption DEF Waited
    <3> QED
      BY <3>2, <3>3, <3>4, ConstAssumption
  <2> QED
    BY <2>1, <2>2
<1>2. CASE k \notin {0, 1}
  <2>1. PICK j \in Nat : j = k - 2
    BY <1>2
  <2>2. PICK d \in Nat : n - 2 = j + d
    BY <2>1
  <2>3. (j + d) * 4 * WaitMs = j * 4 * WaitMs + d * 4 * WaitMs
    BY ConstAssumption
  <2>4. j * 4 * WaitMs \in Nat /\ d * 4 * WaitMs \in Nat
    BY ConstAssumption
  <2>5. Waited(k) = 3 * WaitMs + j * 4 * WaitMs
    BY <1>2, <2>1 DEF Waited
  <2>6. Waited(n) = 3 * WaitMs + (j + d) * 4 * WaitMs
    BY <1>2, <2>2 DEF Waited
  <2> QED
    BY <2>3, <2>4, <2>5, <2>6, ConstAssumption
<1> QED
  BY <1>1, <1>2

LEMMA WaitedLadder == Waited(Attempts) = Ladder
BY ConstAssumption DEF Waited, Ladder

(* The clock of a segment.                                                 *)
LEMMA LadderStep ==
    ASSUME TypeOK, BoundsInv, LadderInv, [Next]_vars
    PROVE  LadderInv'
<1> USE ConstAssumption DEF InCall, Return, Least
<1>T. /\ msLeft \in Nat /\ callLeft \in Nat /\ slice \in Nat /\ elapsed \in Nat
      /\ budget \in Nat /\ silent \in Nat /\ retryLeft \in 0..Attempts
  BY DEF TypeOK, CtxType, WorkType, CallType, PeerType
<1>B. InCall /\ phase \in {"DATA", "ACK"} => retryLeft \in 1..Attempts
  BY DEF BoundsInv, Numbered
<1>K. ASSUME UNCHANGED <<phase, retryLeft, silent, msLeft, status, elapsed, budget>>,
             pc' = pc \/ {pc, pc'} \subseteq {"begin", "step", "parked"}
      PROVE  LadderInv'
  <2>1. (pc' = "wait" <=> pc = "wait") /\ (pc' = "idle" <=> pc = "idle")
    BY <1>K
  <2>2. Unpaid' = Unpaid
    BY <1>K, <2>1 DEF Unpaid
  <2> QED
    BY <1>K, <2>1, <2>2 DEF LadderInv
<1>I. ASSUME pc' = "idle", status' # "TIMEOUT"
      PROVE  LadderInv'
  BY <1>I DEF LadderInv
<1>N. ASSUME pc' \in {"begin", "step"}, phase' \notin {"DATA", "ACK"}
      PROVE  LadderInv'
  BY <1>N DEF LadderInv
<1>1. ASSUME NEW n \in Lengths, NEW s \in Slices, Send(n, s) PROVE LadderInv'
  BY <1>1, <1>N DEF Send
<1>2. CASE SendRefused
  BY <1>2, <1>I DEF SendRefused, SendError
<1>3. CASE Resume
  BY <1>3, <1>K DEF Resume, ctxVars, workVars, histVars
<1>4. CASE BeginCall
  <2>1. /\ pc = "begin"
        /\ UNCHANGED <<phase, retryLeft, silent, msLeft, elapsed, budget>>
        /\ (pc' = "step" /\ status' = status) \/ (pc' = "idle" /\ status' = "HW")
    BY <1>4 DEF BeginCall, SendError
  <2> QED
    BY <1>I, <1>K, <2>1
<1>5. CASE StepDone
  BY <1>5, <1>I DEF StepDone
<1>6. CASE StepExpiredData
  <2>1. /\ pc = "step" /\ phase = "ACK" /\ msLeft = 0 /\ retryLeft' = retryLeft - 1
        /\ silent' = silent
        /\ IF retryLeft' = 0 THEN pc' = "idle" ELSE pc' = "step" /\ phase' = "DATA"
    BY <1>6 DEF StepExpiredData, Expired, SpentRetry, SendError, histVars
  <2>2. retryLeft \in 1..Attempts
    BY <1>B, <2>1
  <2>3. PICK k \in Nat : k = Attempts - retryLeft + 1
    BY <2>2
  <2>4. Attempts - retryLeft' = k
    BY <2>1, <2>2, <2>3
  <2>5. Waited(k) \in Nat
    BY WaitedType
  <2>6. silent = Waited(k)
    <3>1. silent + msLeft = Waited(k) + Unpaid
      BY <2>1, <2>3 DEF LadderInv
    <3>2. Unpaid = 0
      BY <2>1 DEF Unpaid
    <3> QED
      BY <1>T, <2>1, <2>5, <3>1, <3>2
  <2>7. CASE retryLeft' = 0
    <3>1. k = Attempts
      BY <2>4, <2>7
    <3>2. silent' = Ladder
      BY <2>1, <2>6, <3>1, WaitedLadder
    <3> QED
      BY <2>1, <2>7, <3>2 DEF LadderInv
  <2>8. CASE retryLeft' # 0
    BY <2>1, <2>4, <2>6, <2>8 DEF LadderInv
  <2> QED
    BY <2>7, <2>8
<1>7. CASE StepExpiredWindow
  <2>1. \/ pc' = "idle" /\ status' = "WINDOW"
        \/ pc' = "step" /\ phase' = "PROBE"
    BY <1>7 DEF StepExpiredWindow, SendError
  <2> QED
    BY <1>I, <1>N, <2>1
<1>8. CASE StepAgain
  <2>1. /\ pc = "step" /\ pc' = "parked"
        /\ UNCHANGED <<phase, retryLeft, silent, msLeft, elapsed, budget>>
    BY <1>8 DEF StepAgain, ctxVars, workVars, histVars
  <2>2. Unpaid' = Unpaid
    BY <2>1 DEF Unpaid
  <2> QED
    BY <2>1, <2>2 DEF LadderInv
<1>9. CASE StepPrepare
  <2>1. /\ pc = "step" /\ pc' = "step" /\ silent' = 0
        /\ \/ phase' = "PROBE"
           \/ phase' = "DATA" /\ retryLeft' = Attempts
    BY <1>9 DEF StepPrepare, Runnable, callVars
  <2>2. Waited(0) = 0
    BY DEF Waited
  <2>3. Attempts - Attempts = 0
    OBVIOUS
  <2> QED
    BY <2>1, <2>2, <2>3 DEF LadderInv
<1>10. CASE StepData
  <2>1. /\ pc = "step" /\ phase = "DATA" /\ msLeft' = Interval /\ phase' = "ACK"
        /\ UNCHANGED <<retryLeft, silent>>
        /\ pc' = "step" \/ (pc' = "idle" /\ status' = "HW")
    BY <1>10 DEF StepData, Runnable, SendError, histVars
  <2>2. retryLeft \in 1..Attempts
    BY <1>B, <2>1
  <2>3. PICK k \in Nat : k = Attempts - retryLeft
    BY <2>2
  <2>4. Interval = IF k = 0 THEN WaitMs ELSE IF k = 1 THEN 2 * WaitMs ELSE 4 * WaitMs
    BY <2>2, <2>3 DEF Interval
  <2>5. Waited(k + 1) = Waited(k) + Interval
    BY <2>4, WaitedNext
  <2>6. silent = Waited(k)
    BY <2>1, <2>3 DEF LadderInv
  <2>7. CASE pc' = "step"
    <3>1. Unpaid' = 0
      BY <2>7 DEF Unpaid
    <3>2. Waited(k + 1) \in Nat
      BY WaitedType
    <3>3. silent' + msLeft' = Waited(k + 1) + Unpaid'
      BY <2>1, <2>5, <2>6, <3>1, <3>2
    <3>4. Attempts - retryLeft' + 1 = k + 1
      BY <2>1, <2>3
    <3>5. silent' + msLeft' = Waited(Attempts - retryLeft' + 1) + Unpaid'
      BY <3>3, <3>4
    <3> QED
      BY <2>1, <2>7, <3>5 DEF LadderInv
  <2>8. CASE pc' # "step"
    BY <1>I, <2>1, <2>8
  <2> QED
    BY <2>7, <2>8
<1>11. CASE StepProbe
  <2>1. \/ pc' = "idle" /\ status' = "HW"
        \/ pc' = "step" /\ phase' = "WINDOW"
    BY <1>11 DEF StepProbe, Runnable, SendError
  <2> QED
    BY <1>I, <1>N, <2>1
<1>12. CASE StepWait
  <2>1. /\ pc = "step" /\ pc' = "wait" /\ elapsed' = 0
        /\ UNCHANGED <<phase, retryLeft, silent, msLeft>>
        /\ budget' = WaitBudget /\ msLeft # 0 /\ (slice = 0 \/ callLeft > 0)
    BY <1>12 DEF StepWait, Runnable, Waiting, Expired, ctxVars, workVars, histVars
  <2>2. elapsed' < budget' /\ budget' <= msLeft'
    BY <1>T, <2>1 DEF WaitBudget
  <2>3. Unpaid' = 0 /\ Unpaid = 0
    BY <2>1 DEF Unpaid
  <2> QED
    BY <2>1, <2>2, <2>3 DEF LadderInv
<1>13. ASSUME NEW m \in FromPeer, WaitFrame(m) \/ RecvPoll(m) PROVE LadderInv'
  <2>1. CASE WaitIgnored(m) \/ RecvPoll(m)
    BY <2>1, <1>K DEF WaitIgnored, RecvPoll, workVars, callVars, histVars
  <2>2. CASE WaitReset(m) \/ WaitClosed(m) \/ WaitAckFailed(m)
    BY <2>2, <1>I DEF WaitReset, WaitClosed, WaitAckFailed, SendError
  <2>3. CASE WaitAcked(m) \/ WaitWindow(m)
    BY <2>3, <1>N DEF WaitAcked, WaitWindow
  <2> QED
    BY <1>13, <2>1, <2>2, <2>3 DEF WaitFrame
<1>14. CASE WaitTick
  <2>1. /\ pc = "wait" /\ elapsed' = elapsed + 1 /\ silent' = silent + 1
        /\ UNCHANGED <<phase, retryLeft, budget, status>>
        /\ IF elapsed' = budget THEN Charge(elapsed') /\ pc' = "step"
           ELSE msLeft' = msLeft /\ pc' = pc
    BY <1>14 DEF WaitTick, ctxVars
  <2>2. elapsed < budget /\ budget <= msLeft
    BY <2>1 DEF LadderInv
  <2>3. pc' = "wait" => elapsed' < budget' /\ budget' <= msLeft'
    BY <1>T, <2>1, <2>2
  <2>4. msLeft' - Unpaid' = msLeft - Unpaid - 1 /\ msLeft' \in Nat /\ Unpaid' \in Nat
    <3>1. CASE elapsed' = budget
      <4>1. msLeft' = msLeft - (elapsed + 1)
        BY <1>T, <2>1, <2>2, <3>1 DEF Charge, AtLeastOne
      <4> QED
        BY <1>T, <2>1, <2>2, <3>1, <4>1 DEF Unpaid
    <3>2. CASE elapsed' # budget
      BY <1>T, <2>1, <3>2 DEF Unpaid
    <3> QED
      BY <3>1, <3>2
  <2>5. phase = "ACK" => silent' + msLeft' = Waited(Attempts - retryLeft' + 1) + Unpaid'
    <3> SUFFICES ASSUME phase = "ACK"
                 PROVE  silent' + msLeft' = Waited(Attempts - retryLeft' + 1) + Unpaid'
      OBVIOUS
    <3>1. retryLeft \in 1..Attempts
      BY <1>B, <2>1
    <3>2. PICK k \in Nat : k = Attempts - retryLeft + 1
      BY <3>1
    <3>3. PICK w \in Nat : w = Waited(k)
      BY WaitedType
    <3>4. silent + msLeft = w + Unpaid
      BY <2>1, <3>2, <3>3 DEF LadderInv
    <3>5. Unpaid \in Nat
      BY <1>T DEF Unpaid
    <3>6. silent' + msLeft' = w + Unpaid'
      <4>1. PICK u \in Nat, u1 \in Nat, ms1 \in Nat : u = Unpaid /\ u1 = Unpaid' /\ ms1 = msLeft'
        BY <2>4, <3>5
      <4>2. silent + msLeft = w + u /\ ms1 - u1 = msLeft - u - 1
        BY <2>4, <3>4, <4>1
      <4>3. (silent + 1) + ms1 = w + u1
        BY <1>T, <4>2
      <4> QED
        BY <2>1, <4>1, <4>3
    <3> QED
      BY <2>1, <3>2, <3>3, <3>6
  <2>6. phase # "DATA"
    BY <2>1 DEF BoundsInv
  <2> QED
    BY <2>1, <2>3, <2>5, <2>6 DEF LadderInv
<1>15. CASE WaitFailed
  <2>1. pc' = "idle" /\ status' \in {"CANCELLED", "HW", "PROTOCOL"}
    BY <1>15 DEF WaitFailed, SendError
  <2> QED
    BY <1>I, <2>1
<1>16. CASE \E c \in {0, 1} : RecvBuffered(c)
  BY <1>16, <1>K DEF RecvBuffered, ctxVars, workVars, histVars
<1>17. ASSUME NEW m \in wire, NEW n \in 1..MSS, PeerTake(m, n) PROVE LadderInv'
  BY <1>17, <1>K DEF PeerTake, ctxVars, workVars, callVars, histVars
<1>18. CASE UNCHANGED vars
  BY <1>18, <1>K DEF vars, ctxVars, workVars, callVars, histVars
<1> QED
  BY <1>1, <1>2, <1>3, <1>4, <1>5, <1>6, <1>7, <1>8, <1>9, <1>10, <1>11, <1>12, <1>13, <1>14,
     <1>15, <1>16, <1>17, <1>18 DEF Next, Step

(* A missed probe costs one more W.                                        *)
LEMMA Costs ==
    ASSUME NEW k \in Nat
    PROVE  k * WaitMs \in Nat /\ (k + 1) * WaitMs = k * WaitMs + WaitMs
BY ConstAssumption

(* The clock of the probes.                                                *)
LEMMA ProbeStep ==
    ASSUME WaitMs <= ProbeMax, TypeOK, BoundsInv, LadderInv, ProbeInv, [Next]_vars
    PROVE  ProbeInv'
<1> USE ConstAssumption DEF InCall, Return, Least
<1>T. /\ msLeft \in Nat /\ callLeft \in Nat /\ slice \in Nat /\ elapsed \in Nat
      /\ budget \in Nat /\ silent \in Nat /\ remoteFin \in {0, 1}
      /\ probeMissed \in 0..Attempts /\ probeInterval \in Nat
  BY DEF TypeOK, CtxType, WorkType, CallType, PeerType
<1>K. ASSUME UNCHANGED <<phase, silent, msLeft, status, elapsed>>, UNCHANGED probeVars,
             UNCHANGED remoteFin,
             pc' = pc \/ {pc, pc'} \subseteq {"begin", "step", "parked"}
      PROVE  ProbeInv'
  <2>1. (pc' = "wait" <=> pc = "wait") /\ (pc' = "idle" <=> pc = "idle")
    BY <1>K
  <2>2. Unpaid' = Unpaid
    BY <1>K, <2>1 DEF Unpaid
  <2> QED
    BY <1>K, <2>1, <2>2 DEF ProbeInv, probeVars
<1>I. ASSUME pc' = "idle", status' # "WINDOW"
      PROVE  ProbeInv'
  BY <1>I DEF ProbeInv
<1>N. ASSUME pc' \in {"begin", "step"}, phase' \notin {"PROBE", "WINDOW"}
      PROVE  ProbeInv'
  BY <1>N DEF ProbeInv
<1>P. ASSUME pc' = "step", phase' = "PROBE", probeInterval' >= WaitMs,
             silent' + remoteFin' >= probeMissed' * WaitMs
      PROVE  ProbeInv'
  BY <1>P DEF ProbeInv
<1>1. ASSUME NEW n \in Lengths, NEW s \in Slices, Send(n, s) PROVE ProbeInv'
  BY <1>1, <1>N DEF Send
<1>2. CASE SendRefused
  BY <1>2, <1>I DEF SendRefused, SendError
<1>3. CASE Resume
  BY <1>3, <1>K DEF Resume, ctxVars, workVars, histVars
<1>4. CASE BeginCall
  <2>1. /\ pc = "begin"
        /\ UNCHANGED <<phase, silent, msLeft, elapsed, remoteFin>> /\ UNCHANGED probeVars
        /\ (pc' = "step" /\ status' = status) \/ (pc' = "idle" /\ status' = "HW")
    BY <1>4 DEF BeginCall, SendError
  <2> QED
    BY <1>I, <1>K, <2>1
<1>5. CASE StepDone
  BY <1>5, <1>I DEF StepDone
<1>6. CASE StepExpiredData
  <2>1. \/ pc' = "idle" /\ status' = "TIMEOUT"
        \/ pc' = "step" /\ phase' = "DATA"
    BY <1>6 DEF StepExpiredData, SendError
  <2> QED
    BY <1>I, <1>N, <2>1
<1>7. CASE StepExpiredWindow
  <2>1. /\ pc = "step" /\ phase = "WINDOW" /\ msLeft = 0 /\ UNCHANGED <<silent, remoteFin>>
        /\ probeMissed' = IF probeAnswered THEN probeMissed ELSE probeMissed + 1
        /\ IF ~probeAnswered /\ probeMissed + 1 = Attempts THEN pc' = "idle"
           ELSE /\ pc' = "step" /\ phase' = "PROBE"
                /\ probeInterval' = Least(2 * probeInterval, ProbeMax)
    BY <1>7 DEF StepExpiredWindow, Expired, PeerSilent, SendError, histVars
  <2>2. Unpaid = 0
    BY <2>1 DEF Unpaid
  <2>3. IF probeAnswered THEN probeMissed = 0
        ELSE silent + remoteFin + msLeft >= (probeMissed + 1) * WaitMs + Unpaid
    BY <2>1 DEF ProbeInv
  <2>4. silent' + remoteFin' >= probeMissed' * WaitMs
    <3>1. CASE probeAnswered
      <4>1. probeMissed' = 0 /\ 0 * WaitMs = 0
        BY <2>1, <2>3, <3>1
      <4> QED
        BY <1>T, <2>1, <4>1
    <3>2. CASE ~probeAnswered
      <4>1. probeMissed' = probeMissed + 1
        BY <2>1, <3>2
      <4>2. PICK cost \in Nat : cost = (probeMissed + 1) * WaitMs
        BY <1>T, Costs
      <4>3. silent + remoteFin + msLeft >= cost + Unpaid
        BY <2>3, <3>2, <4>2
      <4>4. silent + remoteFin >= cost
        BY <1>T, <2>1, <2>2, <4>3
      <4> QED
        BY <2>1, <4>1, <4>2, <4>4
    <3> QED
      BY <3>1, <3>2
  <2>5. CASE ~probeAnswered /\ probeMissed + 1 = Attempts
    <3>1. pc' = "idle" /\ silent' + remoteFin' >= Attempts * WaitMs
      BY <2>1, <2>4, <2>5
    <3> QED
      BY <3>1 DEF ProbeInv
  <2>6. CASE ~(~probeAnswered /\ probeMissed + 1 = Attempts)
    <3>1. pc' = "step" /\ phase' = "PROBE" /\ probeInterval' = Least(2 * probeInterval, ProbeMax)
      BY <2>1, <2>6
    <3>2. probeInterval >= WaitMs
      BY <2>1 DEF ProbeInv
    <3>3. probeInterval' >= WaitMs
      BY <1>T, <3>1, <3>2
    <3> QED
      BY <1>P, <2>4, <3>1, <3>3
  <2> QED
    BY <2>5, <2>6
<1>8. CASE StepAgain
  <2>1. /\ pc = "step" /\ pc' = "parked"
        /\ UNCHANGED <<phase, silent, msLeft, elapsed, remoteFin>> /\ UNCHANGED probeVars
    BY <1>8 DEF StepAgain, ctxVars, workVars, histVars
  <2>2. Unpaid' = Unpaid
    BY <2>1 DEF Unpaid
  <2> QED
    BY <2>1, <2>2 DEF ProbeInv, probeVars
<1>9. CASE StepPrepare
  <2>1. /\ pc = "step" /\ pc' = "step" /\ silent' = 0 /\ remoteFin' = remoteFin
        /\ \/ phase' = "PROBE" /\ probeInterval' = WaitMs /\ probeMissed' = 0
           \/ phase' = "DATA"
    BY <1>9 DEF StepPrepare, Runnable, callVars
  <2>2. 0 * WaitMs = 0
    OBVIOUS
  <2>3. CASE phase' = "PROBE"
    <3>1. silent' + remoteFin' >= probeMissed' * WaitMs /\ probeInterval' >= WaitMs
      BY <1>T, <2>1, <2>2, <2>3
    <3> QED
      BY <1>P, <2>1, <2>3, <3>1
  <2> QED
    BY <1>N, <2>1, <2>3
<1>10. CASE StepData
  <2>1. \/ pc' = "idle" /\ status' = "HW"
        \/ pc' = "step" /\ phase' = "ACK"
    BY <1>10 DEF StepData, Runnable, SendError
  <2> QED
    BY <1>I, <1>N, <2>1
<1>11. CASE StepProbe
  <2>1. /\ pc = "step" /\ phase = "PROBE" /\ msLeft' = probeInterval /\ phase' = "WINDOW"
        /\ probeAnswered' = FALSE
        /\ UNCHANGED <<silent, remoteFin, probeMissed, probeInterval>>
        /\ pc' = "step" \/ (pc' = "idle" /\ status' = "HW")
    BY <1>11 DEF StepProbe, Runnable, SendError, histVars
  <2>2. CASE pc' = "step"
    <3>1. Unpaid' = 0
      BY <2>2 DEF Unpaid
    <3>2. silent + remoteFin >= probeMissed * WaitMs /\ probeInterval >= WaitMs
      BY <2>1 DEF ProbeInv
    <3>3. PICK cost \in Nat : cost = probeMissed * WaitMs /\ (probeMissed + 1) * WaitMs = cost + WaitMs
      BY <1>T, Costs
    <3>4. silent + remoteFin + probeInterval >= cost + WaitMs
      BY <1>T, <3>2, <3>3
    <3>5. silent' + remoteFin' + msLeft' >= (probeMissed' + 1) * WaitMs + Unpaid'
      BY <2>1, <3>1, <3>3, <3>4
    <3> QED
      BY <2>1, <2>2, <3>2, <3>5 DEF ProbeInv
  <2>3. CASE pc' # "step"
    BY <1>I, <2>1, <2>3
  <2> QED
    BY <2>2, <2>3
<1>12. CASE StepWait
  <2>1. /\ pc = "step" /\ pc' = "wait" /\ elapsed' = 0
        /\ UNCHANGED <<phase, silent, msLeft, remoteFin>> /\ UNCHANGED probeVars
    BY <1>12 DEF StepWait, Runnable, ctxVars, workVars, histVars
  <2>2. Unpaid' = 0 /\ Unpaid = 0
    BY <2>1 DEF Unpaid
  <2>3. Unpaid' = Unpaid
    BY <2>2
  <2> QED
    BY <2>1, <2>3 DEF ProbeInv, probeVars
<1>13. ASSUME NEW m \in FromPeer, WaitFrame(m) \/ RecvPoll(m) PROVE ProbeInv'
  <2>F. /\ HandleSegment(m) => remoteFin' \in {0, 1} /\ remoteFin' >= remoteFin
        /\ HandleSegment(m) /\ "FIN" \notin Raised(m) => remoteFin' = remoteFin
        /\ HandleSegment(m) /\ "FIN" \in Raised(m) => remoteFin' = 1 /\ remoteFin = 0
    BY <1>T DEF HandleSegment, Raised, Events, TakesFin
  <2>1. CASE WaitIgnored(m)
    <3>1. remoteFin' = remoteFin
      BY <2>1, <2>F DEF WaitIgnored
    <3> QED
      BY <2>1, <3>1, <1>K DEF WaitIgnored, workVars, callVars, histVars
  <2>2. CASE RecvPoll(m)
    <3>1. pc = "idle" /\ UNCHANGED <<pc, status, silent>>
      BY <2>2 DEF RecvPoll, callVars, histVars
    <3>2. remoteFin' \in {0, 1} /\ remoteFin' >= remoteFin
      BY <2>2, <2>F DEF RecvPoll
    <3>3. PICK cost \in Nat : cost = Attempts * WaitMs
      BY Costs
    <3>4. status = "WINDOW" => silent + remoteFin >= cost
      BY <3>1, <3>3 DEF ProbeInv
    <3>5. status = "WINDOW" => silent + remoteFin' >= cost
      <4>1. PICK f \in Nat, f1 \in Nat : f = remoteFin /\ f1 = remoteFin' /\ f1 >= f
        BY <1>T, <3>2
      <4>2. status = "WINDOW" => silent + f >= cost
        BY <3>4, <4>1
      <4>3. ASSUME silent + f >= cost
            PROVE  silent + f1 >= cost
        <5>1. silent \in Nat /\ f1 >= f
          BY <1>T, <4>1
        <5> QED
          BY <4>3, <5>1
      <4> QED
        BY <4>1, <4>2, <4>3
    <3> QED
      BY <3>1, <3>3, <3>5 DEF ProbeInv
  <2>3. CASE WaitReset(m) \/ WaitClosed(m) \/ WaitAckFailed(m)
    BY <2>3, <1>I DEF WaitReset, WaitClosed, WaitAckFailed, SendError
  <2>4. CASE WaitAcked(m)
    BY <2>4, <1>N DEF WaitAcked
  <2>5. CASE WaitWindow(m)
    <3>1. /\ pc = "wait" /\ pc' = "step" /\ phase = "WINDOW" /\ phase' \in {"WINDOW", "NEXT"}
          /\ Charge(elapsed) /\ HandleSegment(m) /\ probeInterval' = probeInterval
          /\ Raised(m) # {} /\ "RST" \notin Raised(m)
          /\ IF "ACK" \in Raised(m) THEN probeMissed' = 0 /\ probeAnswered' = TRUE
             ELSE UNCHANGED <<probeMissed, probeAnswered, silent>>
      BY <2>5 DEF WaitWindow
    <3>2. CASE phase' = "NEXT"
      BY <1>N, <3>1, <3>2
    <3>3. CASE phase' = "WINDOW" /\ "ACK" \in Raised(m)
      BY <3>1, <3>3 DEF ProbeInv
    <3>4. CASE phase' = "WINDOW" /\ "ACK" \notin Raised(m)
      <4>1. "FIN" \in Raised(m)
        BY <3>1, <3>4 DEF Raised, Events
      <4>2. remoteFin' = 1 /\ remoteFin = 0
        BY <2>F, <3>1, <4>1
      <4>3. elapsed < budget /\ budget <= msLeft
        BY <3>1 DEF LadderInv
      <4>4. msLeft' \in Nat /\ msLeft' + elapsed + 1 >= msLeft
        BY <1>T, <3>1, <4>3 DEF Charge, AtLeastOne
      <4>5. ASSUME ~probeAnswered
            PROVE  silent' + remoteFin' + msLeft' >= (probeMissed' + 1) * WaitMs + Unpaid'
        <5>1. Unpaid = elapsed /\ Unpaid' = 0
          BY <3>1 DEF Unpaid
        <5>2. PICK cost \in Nat : cost = (probeMissed + 1) * WaitMs
          BY <1>T, Costs
        <5>3. silent + remoteFin + msLeft >= cost + elapsed
          BY <3>1, <4>5, <5>1, <5>2 DEF ProbeInv
        <5>4. PICK ms1 \in Nat : ms1 = msLeft'
          BY <4>4
        <5>5. silent + 1 + ms1 >= cost
          <6>1. ms1 + elapsed + 1 >= msLeft
            BY <4>4, <5>4
          <6>2. silent + msLeft >= cost + elapsed
            BY <1>T, <4>2, <5>3
          <6> QED
            BY <1>T, <6>1, <6>2
        <5> QED
          BY <3>1, <3>4, <4>2, <5>1, <5>2, <5>4, <5>5
      <4>6. probeAnswered => probeMissed = 0
        BY <3>1 DEF ProbeInv
      <4>7. probeInterval >= WaitMs
        BY <3>1 DEF ProbeInv
      <4> QED
        BY <3>1, <3>4, <4>5, <4>6, <4>7 DEF ProbeInv
    <3> QED
      BY <3>1, <3>2, <3>3, <3>4
  <2> QED
    BY <1>13, <2>1, <2>2, <2>3, <2>4, <2>5 DEF WaitFrame
<1>14. CASE WaitTick
  <2>1. /\ pc = "wait" /\ elapsed' = elapsed + 1 /\ silent' = silent + 1
        /\ UNCHANGED <<phase, budget, status, remoteFin>> /\ UNCHANGED probeVars
        /\ IF elapsed' = budget THEN Charge(elapsed') /\ pc' = "step"
           ELSE msLeft' = msLeft /\ pc' = pc
    BY <1>14 DEF WaitTick, ctxVars
  <2>2. elapsed < budget /\ budget <= msLeft
    BY <2>1 DEF LadderInv
  <2>3. msLeft' - Unpaid' = msLeft - Unpaid - 1 /\ msLeft' \in Nat /\ Unpaid' \in Nat
    <3>1. CASE elapsed' = budget
      <4>1. msLeft' = msLeft - (elapsed + 1)
        BY <1>T, <2>1, <2>2, <3>1 DEF Charge, AtLeastOne
      <4> QED
        BY <1>T, <2>1, <2>2, <3>1, <4>1 DEF Unpaid
    <3>2. CASE elapsed' # budget
      BY <1>T, <2>1, <3>2 DEF Unpaid
    <3> QED
      BY <3>1, <3>2
  <2>4. ASSUME phase = "WINDOW", ~probeAnswered
        PROVE  silent' + remoteFin' + msLeft' >= (probeMissed' + 1) * WaitMs + Unpaid'
    <3>1. PICK cost \in Nat : cost = (probeMissed + 1) * WaitMs
      BY <1>T, Costs
    <3>2. PICK u \in Nat, u1 \in Nat, ms1 \in Nat : u = Unpaid /\ u1 = Unpaid' /\ ms1 = msLeft'
      BY <1>T, <2>3 DEF Unpaid
    <3>3. silent + remoteFin + msLeft >= cost + u /\ ms1 - u1 = msLeft - u - 1
      BY <2>1, <2>3, <2>4, <3>1, <3>2 DEF ProbeInv
    <3>4. (silent + 1) + remoteFin + ms1 >= cost + u1
      BY <1>T, <3>3
    <3> QED
      BY <2>1, <3>1, <3>2, <3>4 DEF probeVars
  <2>5. phase # "PROBE" /\ pc' # "idle"
    BY <2>1 DEF BoundsInv
  <2> QED
    BY <2>1, <2>4, <2>5 DEF ProbeInv, probeVars
<1>15. CASE WaitFailed
  <2>1. pc' = "idle" /\ status' \in {"CANCELLED", "HW", "PROTOCOL"}
    BY <1>15 DEF WaitFailed, SendError
  <2> QED
    BY <1>I, <2>1
<1>16. CASE \E c \in {0, 1} : RecvBuffered(c)
  BY <1>16, <1>K DEF RecvBuffered, ctxVars, workVars, histVars
<1>17. ASSUME NEW m \in wire, NEW n \in 1..MSS, PeerTake(m, n) PROVE ProbeInv'
  BY <1>17, <1>K DEF PeerTake, ctxVars, workVars, callVars, histVars
<1>18. CASE UNCHANGED vars
  BY <1>18, <1>K DEF vars, ctxVars, workVars, callVars, histVars
<1> QED
  BY <1>1, <1>2, <1>3, <1>4, <1>5, <1>6, <1>7, <1>8, <1>9, <1>10, <1>11, <1>12, <1>13, <1>14,
     <1>15, <1>16, <1>17, <1>18 DEF Next, Step

----------------------------------------------------------------------------
(* A wait of SEND is never answered by an event of an earlier segment,     *)
(* call or probe, whatever else the channel did in between.                *)
THEOREM NoStaleEvent == Spec => []WaitStartsWithoutEvents
<1>1. Init => EventInv
  BY DEF Init, EventInv, InCall
<1>2. EventInv => WaitStartsWithoutEvents
  BY DEF EventInv, WaitStartsWithoutEvents, InCall
<1> QED
  BY <1>1, <1>2, EventStep, PTL DEF Spec

(* A public call of a sliced SEND polls for at most its slice.             *)
THEOREM SliceBounded == Spec => []SliceBoundsTheCall
<1>1. Init => SliceInv
  BY DEF Init, SliceInv
<1>2. IInv => TypeOK
  BY DEF IInv
<1>3. IInv /\ SliceInv => SliceBoundsTheCall
  BY DEF IInv, TypeOK, WorkType, CallType, PeerType, SliceInv, SliceBoundsTheCall
<1> QED
  BY <1>1, <1>2, <1>3, SliceStep, Invariant, PTL DEF Spec

(* SEND gives a segment up after the whole ladder of waits and not later,  *)
(* and a shut window only after as many unanswered probes of W or more,    *)
(* however the call is sliced, parked, resumed or disturbed, as long as    *)
(* the longest probe interval is not shorter than the first.               *)
THEOREM GivesUpInTime ==
    ASSUME WaitMs <= ProbeMax
    PROVE  Spec => []GivesUpAfterTheLadder
<1>1. Init => LadderInv /\ ProbeInv
  BY DEF Init, LadderInv, ProbeInv, InCall
<1>2. IInv => TypeOK /\ BoundsInv
  BY DEF IInv, StreamInv
<1>3. IInv /\ LadderInv /\ ProbeInv => GivesUpAfterTheLadder
  <2> SUFFICES ASSUME IInv, LadderInv, ProbeInv
               PROVE  GivesUpAfterTheLadder
    OBVIOUS
  <2>1. ASSUME InCall, phase = "ACK"
        PROVE  silent <= Ladder
    <3>1. retryLeft \in 1..Attempts
      BY <1>2, <2>1 DEF BoundsInv, Numbered
    <3>2. PICK k \in Nat : k = Attempts - retryLeft + 1 /\ k <= Attempts
      BY <3>1, ConstAssumption
    <3>3. Waited(k) \in Nat /\ Waited(k) <= Ladder /\ Ladder \in Nat
      <4>1. Attempts \in Nat
        BY ConstAssumption
      <4> QED
        BY <3>2, <4>1, WaitedType, WaitedGrows, WaitedLadder
    <3>4. silent + msLeft = Waited(k) + Unpaid
      BY <2>1, <3>2 DEF LadderInv
    <3>5. silent \in Nat /\ msLeft \in Nat /\ Unpaid \in Nat /\ Unpaid <= msLeft
      <4>1. silent \in Nat /\ msLeft \in Nat /\ elapsed \in Nat /\ budget \in Nat
        BY <1>2 DEF TypeOK, CtxType, WorkType, CallType, PeerType
      <4>2. pc = "wait" => elapsed < budget /\ budget <= msLeft
        BY DEF LadderInv
      <4>3. pc = "wait" => elapsed <= msLeft
        BY <4>1, <4>2
      <4> QED
        BY <4>1, <4>3 DEF Unpaid
    <3> QED
      BY <3>3, <3>4, <3>5
  <2> QED
    BY <2>1 DEF GivesUpAfterTheLadder, LadderInv, ProbeInv, InCall
<1>4. IInv /\ LadderInv /\ ProbeInv /\ [Next]_vars => LadderInv' /\ ProbeInv'
  BY <1>2, LadderStep, ProbeStep
<1> QED
  BY <1>1, <1>3, <1>4, Invariant, PTL DEF Spec

=============================================================================
