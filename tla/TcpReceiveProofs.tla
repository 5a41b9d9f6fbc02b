-------------------------- MODULE TcpReceiveProofs --------------------------
(***************************************************************************)
(* Proofs about RECV for every value of the constants: no acknowledged     *)
(* byte is lost, repeated or out of place on any of its paths, a window    *)
(* that was shut is opened again, CLOSED comes after the whole stream, and *)
(* with one channel the ACKs put off are all sent before RECV returns.     *)
(***************************************************************************)
EXTENDS TcpReceive, SequenceTheorems, TLAPS

\* The first n bytes of the peer's stream.
Stream(n) == [i \in 1..n |-> i]

\* What holds at each stage of a call.  Between calls direct access is closed and
\* nothing is owed; RECV waits only with an empty slot, so that a segment read into
\* the caller's buffer never overtakes one that waits there; and a status that
\* releases no channel and returns no bytes leaves none in the buffer.
CallInv ==
    /\ pc = "idle" => free = 0 /\ buf = <<>> /\ ~hidden /\ owed = 0
    /\ pc # "idle" => state[selected] # "FREE"
    /\ pc # "return" => owed < AckEvery
    /\ pc = "wait" => pend[selected] = <<>>
    /\ pc = "check" /\ buf # <<>> => fin[selected] = 0
    /\ pc = "return" /\ result = "TIMEOUT" => buf = <<>>
    /\ pc = "return" /\ result = "CLOSED" =>
         buf = <<>> /\ pend[selected] = <<>> /\ fin[selected] = 1

\* A drained slot starts at its base again, and RCV.NXT counts the FIN once.
SlotInv ==
    \A c \in Channels :
        /\ pend[c] = <<>> => off[c] = 0
        /\ IF fin[c] = 1 THEN rcvNxt[c] = StreamLen + 2 ELSE rcvNxt[c] <= StreamLen + 1

\* StreamKept, also for a channel that is down and may still be drained.
StreamInv ==
    \A c \in Channels :
        state[c] # "FREE" => Acknowledged(c) = Stream(rcvNxt[c] - 1 - fin[c])

\* The latch is what the peer was told, and a shut window has something that will
\* open it: bytes for RECV to take, or an update that was put off.
WindowInv ==
    \A c \in Channels : state[c] # "FREE" =>
        /\ ~told[c].lost => (told[c].wnd = 0 <=> shut[c])
        /\ fin[c] = 0 /\ shut[c] => pend[c] # <<>> \/ defer[c]

IInv == TypeOK /\ CallInv /\ SlotInv /\ StreamInv /\ WindowInv

\* With one channel: what the peer was not told is owed.
DebtInv ==
    \A c \in Channels :
        state[c] = "OPEN" => told[c].lost \/ told[c].ack = rcvNxt[c] \/ owed > 0

----------------------------------------------------------------------------
(* The conjuncts of the type invariant, in groups that a step leaves alone *)
(* or changes together.                                                    *)
CtxType ==
    /\ state \in [Channels -> {"OPEN", "DOWN", "FREE"}]
    /\ rcvNxt \in [Channels -> 1..(StreamLen + 2)] /\ fin \in [Channels -> {0, 1}]
    /\ shut \in [Channels -> BOOLEAN] /\ defer \in [Channels -> BOOLEAN]

SlotType ==
    /\ off \in [Channels -> 0..MSS] /\ pend \in [Channels -> Seq(0..StreamLen)]
    /\ \A c \in Channels : off[c] + Len(pend[c]) <= MSS

CallType ==
    /\ selected \in Channels /\ free \in Capacities \cup {0}
    /\ buf \in Seq(0..StreamLen) /\ hidden \in BOOLEAN
    /\ pc # "idle" => Len(buf) <= free
    /\ pc \in {"idle", "check", "copy", "wait", "return"}
    /\ result \in {"OK", "TIMEOUT", "CLOSED", "RESET", "HW", "PROTOCOL"}
    /\ suspended \in BOOLEAN

AckType == match \in Channels /\ owed \in 0..AckEvery /\ direct \in BOOLEAN

PeerType ==
    /\ app \in [Channels -> Seq(0..StreamLen)]
    /\ told \in [Channels -> [ack : 1..(StreamLen + 2), wnd : 0..(MSS * MaxSegments),
                             lost : BOOLEAN]]

LEMMA TypeParts ==
    /\ TypeOK <=> CtxType /\ SlotType /\ CallType /\ AckType /\ PeerType
    /\ TypeOK' <=> CtxType' /\ SlotType' /\ CallType' /\ AckType' /\ PeerType'
BY DEF TypeOK, CtxType, SlotType, CallType, AckType, PeerType

(* A product of naturals with one factor at most k is at most the product  *)
(* with k.                                                                 *)
LEMMA ProductBound ==
    ASSUME NEW m \in Nat, NEW a \in Nat, NEW k \in Nat, a <= k
    PROVE  m * a \in 0..(m * k)
OBVIOUS

(* The advertised window is some whole segments, at most MaxSegments, and  *)
(* not zero when the slot is empty.                                        *)
LEMMA WindowType ==
    ASSUME SlotType', CallType', free' > 0 => Len(buf') <= free', NEW c \in Channels
    PROVE  /\ Window(c) \in 0..(MSS * MaxSegments)
           /\ off'[c] = 0 /\ pend'[c] = <<>> => Window(c) # 0
<1> USE ConstAssumption
<1> DEFINE space == MSS - off'[c] - Len(pend'[c]) + Room(c)
           segments == Least(space \div MSS, MaxSegments)
<1>1. Room(c) \in Nat
  BY DEF CallType, Room
<1>2. space \in Nat /\ (off'[c] = 0 /\ pend'[c] = <<>> => space >= MSS)
  BY <1>1 DEF SlotType
<1>3. \A x \in Nat : x \div MSS \in Nat /\ (x >= MSS => x \div MSS >= 1)
  OBVIOUS
<1> HIDE DEF space
<1>4. segments \in Nat /\ segments <= MaxSegments
      /\ (off'[c] = 0 /\ pend'[c] = <<>> => segments >= 1)
  BY <1>2, <1>3 DEF Least
<1>5. Window(c) = MSS * segments
  BY DEF Window, space
<1> HIDE DEF segments
<1>6. MSS * segments \in 0..(MSS * MaxSegments)
  BY <1>4, ProductBound
<1>7. segments >= 1 => MSS * segments # 0
  BY <1>4
<1> QED
  BY <1>4, <1>5, <1>6, <1>7

----------------------------------------------------------------------------
(* What is common to the actions.                                          *)

(* A frame of the peer is a piece of its stream, or garbage of that length.*)
LEMMA FrameType ==
    ASSUME NEW f \in Frames
    PROVE  /\ f.ch \in Channels /\ f.seq \in 1..(StreamLen + 1) /\ f.len \in 0..MSS
           /\ f.fin \in BOOLEAN /\ f.plain \in BOOLEAN /\ f.bad \in BOOLEAN
           /\ f.seq + f.len <= StreamLen + 1
           /\ f.fin => f.seq + f.len = StreamLen + 1
           /\ Bytes(f) \in Seq(0..StreamLen) /\ Len(Bytes(f)) = f.len
<1>1. /\ f.ch \in Channels /\ f.seq \in 1..(StreamLen + 1) /\ f.len \in 0..MSS
      /\ f.fin \in BOOLEAN /\ f.plain \in BOOLEAN /\ f.bad \in BOOLEAN
      /\ f.seq + f.len <= StreamLen + 1
      /\ f.fin => f.seq + f.len = StreamLen + 1
  BY DEF Frames
<1>2. \A i \in 1..f.len : (IF f.bad THEN Garbage ELSE f.seq + i - 1) \in 0..StreamLen
  BY <1>1, ConstAssumption DEF Garbage
<1>3. f.len \in Nat
  BY <1>1, ConstAssumption
<1>4. Bytes(f) \in [1..f.len -> 0..StreamLen]
  BY <1>2 DEF Bytes
<1>5. Bytes(f) \in Seq(0..StreamLen)
  BY <1>3, <1>4, SeqDef
<1>6. Len(Bytes(f)) = f.len
  BY <1>3 DEF Bytes
<1> QED
  BY <1>1, <1>5, <1>6

(* A wait that ends returns OK with bytes in the buffer, else its status.  *)
LEMMA EndWaitStep ==
    ASSUME NEW st, EndWait(st)
    PROVE  pc' = "return" /\ result' = IF buf' # <<>> THEN "OK" ELSE st
BY DEF EndWait, Return

(* After a frame the wait goes on, ends with bytes or an error of its own, *)
(* or looks at the channel again because of the frame.                     *)
LEMMA AfterFrameStep ==
    ASSUME NEW raised, NEW failed, AfterFrame(raised, failed)
    PROVE  \/ pc = "idle" /\ pc' = pc /\ result' = result
           \/ pc # "idle" /\ raised = "NOTHING" /\ pc' = "wait" /\ result' = result
           \/ /\ pc # "idle" /\ pc' = "return"
              /\ result' \in {"HW", "RESET"} \/ (buf' # <<>> /\ result' = "OK")
           \/ /\ pc # "idle" /\ raised # "NOTHING" /\ buf' = <<>>
              /\ pc' = "check" /\ result' = result
BY DEF AfterFrame, EndWait, Return

(* The ACKs of a step: the latch and what the peer was told agree, a shut  *)
(* window is announced only for a slot that holds something, and the other *)
(* channels keep theirs.                                                   *)
LEMMA AcksStep ==
    ASSUME TypeOK, rcvNxt' \in [Channels -> 1..(StreamLen + 2)], SlotType', CallType',
           free' > 0 => Len(buf') <= free', NEW cs, NEW lost, SendAcks(cs, lost)
    PROVE  /\ shut' \in [Channels -> BOOLEAN]
           /\ told' \in [Channels -> [ack : 1..(StreamLen + 2),
                                      wnd : 0..(MSS * MaxSegments), lost : BOOLEAN]]
           /\ \A c \in Channels :
                /\ c \notin cs => shut'[c] = shut[c] /\ told'[c] = told[c]
                /\ c \in cs /\ state[c] # "FREE" =>
                     /\ ~told'[c].lost => (told'[c].wnd = 0 <=> shut'[c])
                     /\ told'[c].lost \/ told'[c].ack = rcvNxt'[c]
                /\ c \in cs /\ off'[c] = 0 /\ pend'[c] = <<>> => ~shut'[c]
<1>1. \A c \in Channels : /\ Window(c) \in 0..(MSS * MaxSegments)
                          /\ off'[c] = 0 /\ pend'[c] = <<>> => Window(c) # 0
  BY WindowType
<1>2. shut' = [c \in Channels |-> IF c \in cs THEN Window(c) = 0 ELSE shut[c]]
  BY DEF SendAcks
<1>3. \A c \in Channels : told'[c] =
        IF c \notin cs \/ state[c] = "FREE" THEN told[c]
        ELSE IF c \in lost THEN [told[c] EXCEPT !.lost = TRUE]
        ELSE [ack |-> rcvNxt'[c], wnd |-> Window(c), lost |-> FALSE]
  BY DEF SendAcks
<1>4. told' \in [Channels -> [ack : 1..(StreamLen + 2), wnd : 0..(MSS * MaxSegments),
                              lost : BOOLEAN]]
  <2>1. \A c \in Channels : told[c] \in [ack : 1..(StreamLen + 2),
                                         wnd : 0..(MSS * MaxSegments), lost : BOOLEAN]
    BY DEF TypeOK
  <2> QED
    BY <1>1, <2>1 DEF SendAcks
<1>5. shut' \in [Channels -> BOOLEAN]
  <2>1. \A c \in Channels : shut[c] \in BOOLEAN
    BY DEF TypeOK
  <2>2. \A c \in Channels : (Window(c) = 0) \in BOOLEAN
    OBVIOUS
  <2> QED
    BY <1>2, <2>1, <2>2, ZenonT(60)
<1>6. ASSUME NEW c \in Channels, c \in cs
      PROVE  shut'[c] <=> Window(c) = 0
  BY <1>2, <1>6, ZenonT(60)
<1>7. ASSUME NEW c \in Channels, c \notin cs
      PROVE  shut'[c] = shut[c]
  BY <1>2, <1>7, ZenonT(60)
<1>8. \A c \in Channels : told[c].lost \in BOOLEAN
  BY DEF TypeOK
<1>9. ASSUME NEW c \in Channels, c \in cs, state[c] # "FREE"
      PROVE  /\ ~told'[c].lost => (told'[c].wnd = 0 <=> shut'[c])
             /\ told'[c].lost \/ told'[c].ack = rcvNxt'[c]
  <2>1. CASE c \in lost
    <3>1. told'[c] = [told[c] EXCEPT !.lost = TRUE]
      BY <1>3, <1>9, <2>1
    <3>2. told[c] \in [ack : 1..(StreamLen + 2), wnd : 0..(MSS * MaxSegments), lost : BOOLEAN]
      BY DEF TypeOK
    <3> QED
      BY <3>1, <3>2
  <2>2. CASE c \notin lost
    <3>1. told'[c] = [ack |-> rcvNxt'[c], wnd |-> Window(c), lost |-> FALSE]
      BY <1>3, <1>9, <2>2
    <3> QED
      BY <1>6, <1>9, <3>1
  <2> QED
    BY <2>1, <2>2
<1> QED
  BY <1>1, <1>3, <1>4, <1>5, <1>6, <1>7, <1>9

----------------------------------------------------------------------------
(* The stages of a call.                                                   *)
LEMMA CallStep ==
    ASSUME TypeOK, CallInv, [Next]_vars
    PROVE  CallInv'
<1> USE ConstAssumption DEF Return
<1>T. /\ owed \in 0..AckEvery /\ AckEvery \in Nat \ {0} /\ selected \in Channels
      /\ \A c \in Channels : pend[c] \in Seq(0..StreamLen) /\ fin[c] \in {0, 1}
      /\ state \in [Channels -> {"OPEN", "DOWN", "FREE"}]
      /\ fin \in [Channels -> {0, 1}] /\ pend \in [Channels -> Seq(0..StreamLen)]
      /\ buf \in Seq(0..StreamLen)
      /\ pc \in {"idle", "check", "copy", "wait", "return"}
  BY DEF TypeOK
<1>1. ASSUME NEW c \in Channels, NEW n \in Capacities, NEW h \in {FALSE, Hiding}, Recv(c, n, h)
      PROVE  CallInv'
  BY <1>1 DEF CallInv, Recv, ctxVars
<1>2. CASE Check
  BY <1>T, <1>2 DEF CallInv, Check, NextStage, slotVars, ackVars
<1>3. CASE Copy
  <2>1. /\ pc = "copy" /\ UNCHANGED <<state, fin, selected>>
        /\ \/ pc' = "check" /\ owed' = owed /\ fin[selected] = 0
           \/ pc' = "return" /\ result' = "OK" /\ owed' = owed + 1
    BY <1>3 DEF Copy
  <2> QED
    BY <1>T, <2>1 DEF CallInv
<1>4. CASE RecvReturn \/ RecvRelease
  BY <1>T, <1>4 DEF CallInv, RecvReturn, RecvRelease, Returned
<1>5. ASSUME NEW f \in Frames, FrameDirect(f)
      PROVE  CallInv'
  <2>1. pc = "wait" /\ f.ch = selected
    <3>1. Polls /\ FitsBuffer(f)
      BY <1>5 DEF FrameDirect
    <3> QED
      BY <1>5, <3>1 DEF CallInv, Polls, FitsBuffer, FrameDirect, Fast
  <2>2. /\ UNCHANGED <<state, fin, pend, selected>>
        /\ buf' = buf \o Bytes(f) /\ f.len > 0
        /\ owed' = IF ~direct \/ owed + 1 >= AckEvery THEN 0 ELSE owed + 1
        /\ pc' = pc \/ (pc' = "return" /\ result' = IF buf' # <<>> THEN "OK" ELSE "HW")
    BY <1>5 DEF FrameDirect, Fast, slotVars, EndWait
  <2> QED
    BY <1>T, <2>1, <2>2 DEF CallInv
<1>6. ASSUME NEW c \in Channels, FrameIgnored({match, c})
      PROVE  CallInv'
  <2>1. /\ Polls /\ owed' = 0 /\ UNCHANGED <<state, fin, pend, selected, free, buf, hidden>>
        /\ \E sent \in Outcomes : AfterFrame("NOTHING", ~sent)
    BY <1>6 DEF FrameIgnored, slotVars
  <2>2. \/ pc = "idle" /\ pc' = pc /\ result' = result
        \/ pc # "idle" /\ pc' = "wait" /\ result' = result
        \/ /\ pc # "idle" /\ pc' = "return"
           /\ result' \in {"HW", "RESET"} \/ (buf' # <<>> /\ result' = "OK")
    BY <2>1, AfterFrameStep
  <2> QED
    BY <1>T, <2>1, <2>2 DEF CallInv, Polls
<1>7. ASSUME NEW f \in Frames, FrameStored(f)
      PROVE  CallInv'
  <2> DEFINE len == IF Accepts(f) THEN f.len ELSE 0
             end == IF TakesFin(f) THEN 1 ELSE 0
             raised == IF len + end > 0 /\ f.ch = selected THEN "DATA" ELSE "NOTHING"
  <2>1. /\ Polls /\ owed' = 0 /\ UNCHANGED <<state, selected, free, buf, hidden>>
        /\ pend' = [pend EXCEPT ![f.ch] = @ \o SubSeq(Bytes(f), 1, len)]
        /\ fin' = [fin EXCEPT ![f.ch] = @ + end]
        /\ \E sent \in Outcomes : AfterFrame(raised, ~sent)
    BY <1>7 DEF FrameStored
  <2>2. /\ f.ch \in Channels /\ len \in Nat /\ end \in Nat
        /\ Bytes(f) \in Seq(0..StreamLen)
    BY FrameType
  <2>3. raised = "NOTHING" => pend'[selected] = pend[selected]
    <3>1. CASE f.ch # selected
      BY <1>T, <2>1, <2>2, <3>1
    <3>2. CASE f.ch = selected
      <4> SUFFICES ASSUME raised = "NOTHING" PROVE pend'[selected] = pend[selected]
        OBVIOUS
      <4>1. len = 0
        BY <2>2, <3>2
      <4>2. SubSeq(Bytes(f), 1, 0) = <<>>
        BY SubSeqEmpty
      <4>3. pend[selected] \o <<>> = pend[selected]
        BY <1>T, ConcatEmptySeq
      <4> QED
        BY <1>T, <2>1, <3>2, <4>1, <4>2, <4>3
    <3> QED
      BY <3>1, <3>2
  <2> HIDE DEF raised, len, end
  <2>4. \/ pc = "idle" /\ pc' = pc /\ result' = result
        \/ pc # "idle" /\ raised = "NOTHING" /\ pc' = "wait" /\ result' = result
        \/ /\ pc # "idle" /\ pc' = "return"
           /\ result' \in {"HW", "RESET"} \/ (buf' # <<>> /\ result' = "OK")
        \/ pc # "idle" /\ buf' = <<>> /\ pc' = "check"
    BY <2>1, AfterFrameStep
  <2>5. Polls /\ owed' = 0 /\ UNCHANGED <<state, selected, free, buf, hidden>>
    BY <2>1
  <2> QED
    BY <1>T, <2>3, <2>4, <2>5 DEF CallInv, Polls
<1>8. ASSUME NEW c \in Channels, FrameReset(c)
      PROVE  CallInv'
  <2>1. /\ Polls /\ owed' = 0 /\ UNCHANGED <<fin, pend, selected, free, buf, hidden>>
        /\ state' = [state EXCEPT ![c] = "DOWN"]
        /\ \E sent \in Outcomes : AfterFrame(IF c = selected THEN "RST" ELSE "NOTHING", ~sent)
    BY <1>8 DEF FrameReset, slotVars
  <2>2. state'[selected] = "FREE" => state[selected] = "FREE"
    BY <1>T, <2>1
  <2>3. pc' = "check" => buf' = <<>>
    BY <2>1, AfterFrameStep DEF Polls
  <2> QED
    BY <1>T, <2>1, <2>2, <2>3, AfterFrameStep DEF CallInv, Polls
<1>9. ASSUME NEW c \in Channels, FrameOversized(c)
      PROVE  CallInv'
  <2>1. /\ Polls /\ UNCHANGED <<fin, pend, selected, free, buf, hidden, owed>>
        /\ state' = [state EXCEPT ![c] = "DOWN"]
        /\ \/ pc = "idle" /\ pc' = pc /\ result' = result
           \/ pc # "idle" /\ pc' = "return" /\ result' \in {"OK", "PROTOCOL"}
    BY <1>9 DEF FrameOversized, slotVars, EndWait
  <2>2. state'[selected] = "FREE" => state[selected] = "FREE"
    BY <1>T, <2>1
  <2> QED
    BY <1>T, <2>1, <2>2 DEF CallInv, Polls
<1>10. CASE WaitEnds
  BY <1>T, <1>10 DEF CallInv, WaitEnds, EndWait, ctxVars, slotVars, ackVars
<1>11. ASSUME NEW c \in Channels, Select(c) \/ Close(c)
       PROVE  CallInv'
  BY <1>11 DEF CallInv, Select, Close, Clear, ctxVars, ackVars
<1>12. CASE Suspend
  BY <1>12 DEF CallInv, Suspend, ctxVars, slotVars, ackVars
<1>13. CASE ResumeSend
  BY <1>13 DEF CallInv, ResumeSend, slotVars, ackVars
<1>14. ASSUME NEW c \in Channels, NEW n \in Capacities, RecvBuffered(c, n)
       PROVE  CallInv'
  BY <1>14 DEF CallInv, RecvBuffered, callVars, ackVars
<1>15. CASE UNCHANGED vars
  BY <1>15 DEF CallInv, vars, ctxVars, slotVars, callVars, ackVars
<1> QED
  BY <1>1, <1>2, <1>3, <1>4, <1>5, <1>6, <1>7, <1>8, <1>9, <1>10, <1>11, <1>12, <1>13,
     <1>14, <1>15 DEF Next

----------------------------------------------------------------------------
(* Sequences: pieces of the stream, and a slot drained from its front.     *)
Piece(a, k) == [i \in 1..k |-> a + i - 1]

LEMMA PieceType ==
    ASSUME NEW a \in Nat \ {0}, NEW k \in Nat
    PROVE  /\ Piece(a, k) \in Seq(Nat) /\ Len(Piece(a, k)) = k
           /\ \A i \in 1..k : Piece(a, k)[i] = a + i - 1
           /\ a + k <= StreamLen + 1 => Piece(a, k) \in Seq(0..StreamLen)
<1>1. Piece(a, k) \in [1..k -> Nat]
  BY DEF Piece
<1>2. Len(Piece(a, k)) = k /\ \A i \in 1..k : Piece(a, k)[i] = a + i - 1
  BY DEF Piece
<1>3. ASSUME a + k <= StreamLen + 1
      PROVE  Piece(a, k) \in Seq(0..StreamLen)
  <2>1. Piece(a, k) \in [1..k -> 0..StreamLen]
    BY <1>3, ConstAssumption DEF Piece
  <2> QED
    BY <2>1, SeqDef
<1> QED
  BY <1>1, <1>2, <1>3, SeqDef

(* The next piece makes a longer prefix of the stream.                     *)
LEMMA StreamGrows ==
    ASSUME NEW a \in Nat \ {0}, NEW k \in Nat
    PROVE  Stream(a - 1) \o Piece(a, k) = Stream(a - 1 + k)
<1>1. \A n \in Nat : /\ Stream(n) \in Seq(Nat) /\ Len(Stream(n)) = n
                     /\ \A i \in 1..n : Stream(n)[i] = i
  <2>1. \A n \in Nat : Stream(n) \in [1..n -> Nat]
    BY DEF Stream
  <2>2. \A n \in Nat : Len(Stream(n)) = n /\ \A i \in 1..n : Stream(n)[i] = i
    BY DEF Stream
  <2> QED
    BY <2>1, <2>2, SeqDef
<1> DEFINE s == Stream(a - 1)  p == Piece(a, k)  t == Stream(a - 1 + k)
<1>2. /\ s \in Seq(Nat) /\ Len(s) = a - 1 /\ (\A i \in 1..(a - 1) : s[i] = i)
      /\ t \in Seq(Nat) /\ Len(t) = a - 1 + k /\ (\A i \in 1..(a - 1 + k) : t[i] = i)
  <2>1. a - 1 \in Nat /\ a - 1 + k \in Nat
    OBVIOUS
  <2> HIDE DEF Stream
  <2> QED
    BY <1>1, <2>1
<1>3. p \in Seq(Nat) /\ Len(p) = k /\ \A i \in 1..k : p[i] = a + i - 1
  BY PieceType
<1> HIDE DEF s, p, t
<1>4. /\ s \o p \in Seq(Nat) /\ Len(s \o p) = a - 1 + k
      /\ \A i \in 1..(a - 1 + k) : (s \o p)[i] = IF i <= a - 1 THEN s[i] ELSE p[i - (a - 1)]
  <2>1. /\ s \o p \in Seq(Nat) /\ Len(s \o p) = Len(s) + Len(p)
        /\ \A i \in 1..(Len(s) + Len(p)) :
             (s \o p)[i] = IF i <= Len(s) THEN s[i] ELSE p[i - Len(s)]
    BY <1>2, <1>3, ConcatProperties, ZenonT(60)
  <2> QED
    BY <1>2, <1>3, <2>1
<1>5. ASSUME NEW i \in 1..(a - 1 + k)
      PROVE  (s \o p)[i] = t[i]
  <2>1. CASE i <= a - 1
    BY <1>2, <1>4, <2>1
  <2>2. CASE ~(i <= a - 1)
    <3>1. i - (a - 1) \in 1..k /\ a + (i - (a - 1)) - 1 = i
      BY <2>2
    <3>2. (s \o p)[i] = p[i - (a - 1)]
      BY <1>4, <2>2
    <3> QED
      BY <1>2, <1>3, <3>1, <3>2
  <2> QED
    BY <2>1, <2>2
<1>6. s \o p = t
  BY <1>2, <1>4, <1>5, SeqEqual
<1> QED
  BY <1>6 DEF s, p, t

LEMMA Split ==
    ASSUME NEW S, NEW s \in Seq(S), NEW n \in 0..Len(s)
    PROVE  /\ SubSeq(s, 1, n) \in Seq(S) /\ Len(SubSeq(s, 1, n)) = n
           /\ SubSeq(s, n + 1, Len(s)) \in Seq(S)
           /\ Len(SubSeq(s, n + 1, Len(s))) = Len(s) - n
           /\ SubSeq(s, 1, n) \o SubSeq(s, n + 1, Len(s)) = s
<1>1. Len(s) \in Nat /\ \A i \in 1..Len(s) : s[i] \in S
  BY LenProperties, ElementOfSeq
<1>2. SubSeq(s, 1, n) \in Seq(S) /\ Len(SubSeq(s, 1, n)) = n
  BY <1>1, SubSeqProperties
<1>3. SubSeq(s, n + 1, Len(s)) \in Seq(S) /\ Len(SubSeq(s, n + 1, Len(s))) = Len(s) - n
  BY <1>1, SubSeqProperties
<1>4. SubSeq(s, 1, n) \o SubSeq(s, n + 1, Len(s)) = SubSeq(s, 1, Len(s))
  <2>1. 1 \in 1..(Len(s) + 1) /\ n \in (1 - 1)..Len(s) /\ Len(s) \in n..Len(s)
    BY <1>1
  <2> QED
    BY <2>1, ConcatAdjacentSubSeq
<1>5. SubSeq(s, 1, Len(s)) = s
  BY SubSeqFull
<1> QED
  BY <1>2, <1>3, <1>4, <1>5

(* What FrameStored puts in the slot is the next piece of the stream, and  *)
(* the FIN is counted only behind its last byte.                           *)
LEMMA StoredStep ==
    ASSUME TypeOK, NEW f \in Frames, FrameStored(f)
    PROVE  \E k \in 0..MSS, end \in {0, 1} :
             /\ rcvNxt' = [rcvNxt EXCEPT ![f.ch] = @ + k + end]
             /\ fin' = [fin EXCEPT ![f.ch] = @ + end]
             /\ pend' = [pend EXCEPT ![f.ch] = @ \o Piece(rcvNxt[f.ch], k)]
             /\ off[f.ch] + Len(pend[f.ch]) + k <= MSS
             /\ k + end > 0 => rcvNxt[f.ch] + k <= StreamLen + 1
             /\ end = 1 => rcvNxt[f.ch] + k = StreamLen + 1
             /\ k + end > 0 \/ owed > 0 => \E sent \in Outcomes : SendOwedAck(TRUE, sent)
             /\ k + end = 0 /\ owed = 0 => \/ SendOwedAck(FALSE, TRUE)
                                           \/ \E sent \in Outcomes : SendOwedAck(TRUE, sent)
<1> USE ConstAssumption
<1> DEFINE k == IF Accepts(f) THEN f.len ELSE 0
           end == IF TakesFin(f) THEN 1 ELSE 0
           due == f.len > 0 \/ f.fin \/ owed > 0
<1>1. /\ rcvNxt' = [rcvNxt EXCEPT ![f.ch] = @ + k + end]
      /\ fin' = [fin EXCEPT ![f.ch] = @ + end]
      /\ pend' = [pend EXCEPT ![f.ch] = @ \o SubSeq(Bytes(f), 1, k)]
      /\ ~f.bad
      /\ \E sent \in Outcomes : (due \/ sent) /\ SendOwedAck(due, sent)
  BY DEF FrameStored
<1>2. /\ f.ch \in Channels /\ f.seq \in 1..(StreamLen + 1) /\ f.len \in 0..MSS
      /\ f.fin => f.seq + f.len = StreamLen + 1
      /\ f.seq + f.len <= StreamLen + 1 /\ f.fin \in BOOLEAN
      /\ Bytes(f) \in Seq(0..StreamLen) /\ Len(Bytes(f)) = f.len
  BY FrameType
<1>3. /\ k \in 0..MSS /\ end \in {0, 1} /\ (k > 0 => Accepts(f))
      /\ rcvNxt[f.ch] \in Nat \ {0} /\ off[f.ch] \in Nat /\ Len(pend[f.ch]) \in Nat
      /\ off[f.ch] + Len(pend[f.ch]) <= MSS
  <2>1. k \in 0..MSS /\ end \in {0, 1} /\ (k > 0 => Accepts(f))
    BY <1>2
  <2>2. /\ rcvNxt[f.ch] \in 1..(StreamLen + 2) /\ off[f.ch] \in 0..MSS
        /\ pend[f.ch] \in Seq(0..StreamLen) /\ off[f.ch] + Len(pend[f.ch]) <= MSS
    BY <1>2 DEF TypeOK
  <2> QED
    BY <2>1, <2>2
<1>4. end = 1 => f.fin /\ k = f.len /\ rcvNxt[f.ch] = f.seq
  BY <1>2 DEF TakesFin, Accepts, InOrder
<1>5. k > 0 => k = f.len /\ rcvNxt[f.ch] = f.seq /\ FitsSlot(f)
  BY <1>3 DEF Accepts, InOrder
<1>6. /\ off[f.ch] + Len(pend[f.ch]) + k <= MSS
      /\ k + end > 0 => rcvNxt[f.ch] + k <= StreamLen + 1
      /\ end = 1 => rcvNxt[f.ch] + k = StreamLen + 1
  BY <1>2, <1>3, <1>4, <1>5 DEF FitsSlot
<1>7. SubSeq(Bytes(f), 1, k) = Piece(rcvNxt[f.ch], k)
  <2>1. Piece(rcvNxt[f.ch], k) \in Seq(Nat) /\ Len(Piece(rcvNxt[f.ch], k)) = k
        /\ \A i \in 1..k : Piece(rcvNxt[f.ch], k)[i] = rcvNxt[f.ch] + i - 1
    <3>1. k \in Nat
      BY <1>3
    <3> HIDE DEF k
    <3> QED
      BY <1>3, <3>1, PieceType
  <2>2. k \in 0..f.len
    BY <1>2
  <2>3. \A i \in 1..f.len : Bytes(f)[i] = f.seq + i - 1 /\ Bytes(f)[i] \in Nat
    BY <1>1, <1>2 DEF Bytes
  <2> HIDE DEF k
  <2>4. /\ SubSeq(Bytes(f), 1, k) \in Seq(Nat) /\ Len(SubSeq(Bytes(f), 1, k)) = k
        /\ \A i \in 1..k : SubSeq(Bytes(f), 1, k)[i] = Bytes(f)[1 + i - 1]
    <3>1. 1 \in Int /\ k \in Int /\ \A i \in 1..k : Bytes(f)[i] \in Nat
      BY <2>2, <2>3, <1>2
    <3>2. \A i \in 1..(k - 1 + 1) : SubSeq(Bytes(f), 1, k)[i] = Bytes(f)[1 + i - 1]
      BY <3>1, SubSeqProperties
    <3>3. SubSeq(Bytes(f), 1, k) \in Seq(Nat)
          /\ Len(SubSeq(Bytes(f), 1, k)) = IF 1 <= k THEN k - 1 + 1 ELSE 0
      BY <3>1, SubSeqProperties
    <3> QED
      BY <2>2, <1>2, <3>2, <3>3
  <2>5. \A i \in 1..k : SubSeq(Bytes(f), 1, k)[i] = Piece(rcvNxt[f.ch], k)[i]
    BY <1>2, <1>3, <1>5, <2>1, <2>2, <2>3, <2>4
  <2> QED
    BY <2>1, <2>4, <2>5, SeqEqual
<1>8. k + end > 0 => f.len > 0 \/ f.fin
  BY <1>2, <1>4, <1>5
<1>9. PICK sent \in Outcomes : (due \/ sent) /\ SendOwedAck(due, sent)
  BY <1>1
<1>10. /\ k + end > 0 \/ owed > 0 => SendOwedAck(TRUE, sent)
       /\ SendOwedAck(TRUE, sent) \/ SendOwedAck(FALSE, TRUE)
  <2>1. CASE due
    BY <1>9, <2>1 DEF SendOwedAck
  <2>2. CASE ~due
    BY <1>8, <1>9, <2>2 DEF SendOwedAck
  <2> QED
    BY <2>1, <2>2
<1> HIDE DEF k, end, due
<1> QED
  BY <1>1, <1>3, <1>6, <1>7, <1>10

(* RECV_COPY moves a prefix of the slot, no longer than the room left.     *)
LEMMA CopyStep ==
    ASSUME TypeOK, Copy
    PROVE  \E n \in 0..Len(pend[selected]) :
             /\ buf' = buf \o SubSeq(pend[selected], 1, n)
             /\ pend' = [pend EXCEPT ![selected] =
                           SubSeq(pend[selected], n + 1, Len(pend[selected]))]
             /\ off' = [off EXCEPT ![selected] =
                          IF n = Len(pend[selected]) THEN 0 ELSE off[selected] + n]
             /\ buf' \in Seq(0..StreamLen) /\ Len(buf') = Len(buf) + n
             /\ Len(buf) + n <= free
<1> USE ConstAssumption
<1> DEFINE n == CopyLength(selected)
<1>1. /\ selected \in Channels /\ pend \in [Channels -> Seq(0..StreamLen)]
      /\ pend[selected] \in Seq(0..StreamLen) /\ buf \in Seq(0..StreamLen)
      /\ Len(buf) <= free /\ free \in Nat /\ Len(buf) \in Nat /\ Len(pend[selected]) \in Nat
  <2>1. pc # "idle"
    BY DEF Copy
  <2>2. selected \in Channels /\ pend \in [Channels -> Seq(0..StreamLen)]
        /\ buf \in Seq(0..StreamLen) /\ Len(buf) <= free /\ free \in Capacities \cup {0}
    BY <2>1 DEF TypeOK
  <2> QED
    BY <2>2
<1>2. n \in 0..Len(pend[selected]) /\ Len(buf) + n <= free
  BY <1>1 DEF CopyLength, Least
<1>3. /\ buf' = buf \o SubSeq(pend[selected], 1, n)
      /\ pend' = [pend EXCEPT ![selected] =
                    SubSeq(pend[selected], n + 1, Len(pend[selected]))]
      /\ off' = [off EXCEPT ![selected] =
                   IF n = Len(pend[selected]) THEN 0 ELSE off[selected] + n]
  BY <1>1 DEF Copy
<1> HIDE DEF n
<1>4. SubSeq(pend[selected], 1, n) \in Seq(0..StreamLen)
      /\ Len(SubSeq(pend[selected], 1, n)) = n
  BY <1>1, <1>2, Split
<1>5. buf' \in Seq(0..StreamLen) /\ Len(buf') = Len(buf) + n
  BY <1>1, <1>3, <1>4, ConcatProperties
<1> QED
  BY <1>2, <1>3, <1>5

(* A slot drained of n bytes at its front stays within its bounds.         *)
LEMMA DrainType ==
    ASSUME SlotType, NEW c \in Channels, NEW n \in 0..Len(pend[c]),
           pend' = [pend EXCEPT ![c] = SubSeq(pend[c], n + 1, Len(pend[c]))],
           off' = [off EXCEPT ![c] = IF n = Len(pend[c]) THEN 0 ELSE off[c] + n]
    PROVE  SlotType' /\ (pend'[c] = <<>> => off'[c] = 0)
<1> USE ConstAssumption
<1>1. /\ pend \in [Channels -> Seq(0..StreamLen)] /\ pend[c] \in Seq(0..StreamLen)
      /\ off \in [Channels -> 0..MSS] /\ off[c] \in Nat /\ off[c] + Len(pend[c]) <= MSS
      /\ Len(pend[c]) \in Nat
  BY DEF SlotType
<1> DEFINE rest == SubSeq(pend[c], n + 1, Len(pend[c]))
<1>2. /\ rest \in Seq(0..StreamLen) /\ Len(rest) = Len(pend[c]) - n
      /\ n = Len(pend[c]) <=> rest = <<>>
  <2>1. rest \in Seq(0..StreamLen) /\ Len(rest) = Len(pend[c]) - n
    BY <1>1, Split
  <2> HIDE DEF rest
  <2>2. rest = <<>> <=> Len(rest) = 0
    BY <2>1, EmptySeq
  <2> QED
    BY <1>1, <2>1, <2>2
<1>3. pend'[c] = rest /\ off'[c] = IF n = Len(pend[c]) THEN 0 ELSE off[c] + n
  BY <1>1
<1>4. pend' \in [Channels -> Seq(0..StreamLen)]
  BY <1>1, <1>2
<1>5. off'[c] \in 0..MSS /\ off'[c] + Len(pend'[c]) <= MSS
  BY <1>1, <1>2, <1>3
<1>6. off' \in [Channels -> 0..MSS]
  <2>1. (IF n = Len(pend[c]) THEN 0 ELSE off[c] + n) \in 0..MSS
    BY <1>3, <1>5
  <2> QED
    BY <1>1, <2>1
<1> HIDE DEF rest
<1>7. \A d \in Channels : d # c => pend'[d] = pend[d] /\ off'[d] = off[d]
  BY <1>1
<1>8. \A d \in Channels : off'[d] + Len(pend'[d]) <= MSS
  BY <1>5, <1>7 DEF SlotType
<1> QED
  BY <1>2, <1>3, <1>4, <1>6, <1>8 DEF SlotType

----------------------------------------------------------------------------
(* The slots and the counting of the stream.                               *)
LEMMA SlotStep ==
    ASSUME TypeOK, SlotInv, [Next]_vars
    PROVE  SlotInv'
<1> USE ConstAssumption
<1>T. /\ off \in [Channels -> 0..MSS] /\ pend \in [Channels -> Seq(0..StreamLen)]
      /\ rcvNxt \in [Channels -> 1..(StreamLen + 2)] /\ fin \in [Channels -> {0, 1}]
      /\ selected \in Channels /\ SlotType
  BY DEF TypeOK, SlotType
<1>K. UNCHANGED <<rcvNxt, fin, pend, off>> => SlotInv'
  BY DEF SlotInv
<1>1. CASE Copy \/ \E c \in Channels, n \in Capacities : RecvBuffered(c, n)
  <2>1. \E c \in Channels : \E n \in 0..Len(pend[c]) :
          /\ pend' = [pend EXCEPT ![c] = SubSeq(pend[c], n + 1, Len(pend[c]))]
          /\ off' = [off EXCEPT ![c] = IF n = Len(pend[c]) THEN 0 ELSE off[c] + n]
          /\ UNCHANGED <<rcvNxt, fin>>
    <3>1. CASE Copy
      BY <1>T, <3>1, CopyStep DEF Copy
    <3>2. ASSUME NEW c \in Channels, NEW m \in Capacities, RecvBuffered(c, m)
          PROVE  \E n \in 0..Len(pend[c]) :
            /\ pend' = [pend EXCEPT ![c] = SubSeq(pend[c], n + 1, Len(pend[c]))]
            /\ off' = [off EXCEPT ![c] = IF n = Len(pend[c]) THEN 0 ELSE off[c] + n]
            /\ UNCHANGED <<rcvNxt, fin>>
      <4>1. Least(Len(pend[c]), m) \in 0..Len(pend[c])
        BY <1>T DEF Least
      <4> QED
        BY <1>T, <3>2, <4>1 DEF RecvBuffered
    <3> QED
      BY <1>1, <3>1, <3>2
  <2>c. PICK c \in Channels : \E n \in 0..Len(pend[c]) :
          /\ pend' = [pend EXCEPT ![c] = SubSeq(pend[c], n + 1, Len(pend[c]))]
          /\ off' = [off EXCEPT ![c] = IF n = Len(pend[c]) THEN 0 ELSE off[c] + n]
          /\ UNCHANGED <<rcvNxt, fin>>
    BY <2>1
  <2>2. PICK n \in 0..Len(pend[c]) :
          /\ pend' = [pend EXCEPT ![c] = SubSeq(pend[c], n + 1, Len(pend[c]))]
          /\ off' = [off EXCEPT ![c] = IF n = Len(pend[c]) THEN 0 ELSE off[c] + n]
          /\ UNCHANGED <<rcvNxt, fin>>
    BY <2>c
  <2>3. pend'[c] = <<>> => off'[c] = 0
    BY <1>T, <2>2, DrainType
  <2>4. \A d \in Channels : d # c => pend'[d] = pend[d] /\ off'[d] = off[d]
    BY <1>T, <2>2
  <2> QED
    BY <2>2, <2>3, <2>4 DEF SlotInv
<1>2. ASSUME NEW c \in Channels, Clear(c), UNCHANGED <<rcvNxt, fin>>
      PROVE  SlotInv'
  BY <1>T, <1>2 DEF SlotInv, Clear
<1>3. ASSUME NEW f \in Frames, FrameDirect(f)
      PROVE  SlotInv'
  <2>1. /\ f.ch \in Channels /\ fin[f.ch] = 0 /\ f.seq = rcvNxt[f.ch]
        /\ rcvNxt' = [rcvNxt EXCEPT ![f.ch] = @ + f.len]
        /\ UNCHANGED <<fin, off, pend>>
        /\ f.seq + f.len <= StreamLen + 1
    BY <1>3, FrameType DEF FrameDirect, Fast, InOrder, slotVars
  <2> QED
    BY <1>T, <2>1 DEF SlotInv
<1>4. ASSUME NEW f \in Frames, FrameStored(f)
      PROVE  SlotInv'
  <2>1. f.ch \in Channels /\ off' = off
    BY <1>4, FrameType DEF FrameStored
  <2>2. PICK k \in 0..MSS, end \in {0, 1} :
          /\ rcvNxt' = [rcvNxt EXCEPT ![f.ch] = @ + k + end]
          /\ fin' = [fin EXCEPT ![f.ch] = @ + end]
          /\ pend' = [pend EXCEPT ![f.ch] = @ \o Piece(rcvNxt[f.ch], k)]
          /\ k + end > 0 => rcvNxt[f.ch] + k <= StreamLen + 1
          /\ end = 1 => rcvNxt[f.ch] + k = StreamLen + 1
    BY <1>4, StoredStep
  <2>3. pend'[f.ch] = <<>> => pend[f.ch] = <<>>
    <3>1. Piece(rcvNxt[f.ch], k) \in Seq(Nat) /\ pend[f.ch] \in Seq(Nat)
      <4>1. rcvNxt[f.ch] \in Nat \ {0} /\ k \in Nat
        <5>1. rcvNxt[f.ch] \in 1..(StreamLen + 2)
          BY <1>T, <2>1
        <5> QED
          BY <5>1
      <4>2. 0..StreamLen \subseteq Nat
        OBVIOUS
      <4>3. pend[f.ch] \in Seq(0..StreamLen)
        BY <1>T, <2>1
      <4> QED
        BY <4>1, <4>2, <4>3, PieceType, SeqMonotonic
    <3>2. pend'[f.ch] = pend[f.ch] \o Piece(rcvNxt[f.ch], k)
      BY <1>T, <2>1, <2>2
    <3>3. \A s, t \in Seq(Nat) : s \o t = <<>> => s = <<>>
      BY ConcatEqualIffEmpty
    <3> QED
      BY <3>1, <3>2, <3>3, ZenonT(60)
  <2>4. \A d \in Channels : d # f.ch =>
          pend'[d] = pend[d] /\ rcvNxt'[d] = rcvNxt[d] /\ fin'[d] = fin[d]
    BY <1>T, <2>2
  <2>5. rcvNxt'[f.ch] = rcvNxt[f.ch] + k + end /\ fin'[f.ch] = fin[f.ch] + end
    BY <1>T, <2>1, <2>2
  <2>6. rcvNxt[f.ch] \in 1..(StreamLen + 2) /\ fin[f.ch] \in {0, 1}
    BY <1>T, <2>1
  <2>7. IF fin'[f.ch] = 1 THEN rcvNxt'[f.ch] = StreamLen + 2 ELSE rcvNxt'[f.ch] <= StreamLen + 1
    <3>1. IF fin[f.ch] = 1 THEN rcvNxt[f.ch] = StreamLen + 2 ELSE rcvNxt[f.ch] <= StreamLen + 1
      BY <2>1 DEF SlotInv
    <3>2. k \in Nat /\ (k + end > 0 => rcvNxt[f.ch] + k <= StreamLen + 1)
          /\ (end = 1 => rcvNxt[f.ch] + k = StreamLen + 1)
      BY <2>2
    <3> QED
      BY <2>5, <2>6, <3>1, <3>2
  <2> QED
    BY <2>1, <2>3, <2>4, <2>7 DEF SlotInv
<1>5. CASE RecvRelease
  BY <1>T, <1>2, <1>5 DEF RecvRelease, Returned
<1>6. ASSUME NEW c \in Channels, Close(c)
      PROVE  SlotInv'
  BY <1>2, <1>6 DEF Close
<1>7. ASSUME NEW c \in Channels, FrameIgnored({match, c}) \/ FrameReset(c) \/ FrameOversized(c)
      PROVE  SlotInv'
  BY <1>7, <1>K DEF FrameIgnored, FrameReset, FrameOversized, slotVars
<1>8. CASE Check \/ RecvReturn \/ WaitEnds \/ Suspend \/ ResumeSend
  BY <1>8, <1>K DEF Check, RecvReturn, Returned, WaitEnds, Suspend, ResumeSend, ctxVars,
                    slotVars
<1>9. ASSUME NEW c \in Channels, NEW n \in Capacities, NEW h \in {FALSE, Hiding},
             Recv(c, n, h)
      PROVE  SlotInv'
  BY <1>9, <1>K DEF Recv, ctxVars, slotVars
<1>10. ASSUME NEW c \in Channels, Select(c)
       PROVE  SlotInv'
  BY <1>10, <1>K DEF Select, ctxVars, slotVars
<1>11. CASE UNCHANGED vars
  BY <1>11, <1>K DEF vars, ctxVars, slotVars
<1> QED
  BY <1>1, <1>3, <1>4, <1>5, <1>6, <1>7, <1>8, <1>9, <1>10, <1>11 DEF Next

----------------------------------------------------------------------------
(* Type correctness, action by action: the caller's buffer and the slots   *)
(* never overflow, although three paths fill them.                         *)
LEMMA TypeStep ==
    ASSUME TypeOK, CallInv, CallInv', SlotInv, [Next]_vars
    PROVE  TypeOK'
<1> USE ConstAssumption
<1>0. CtxType /\ SlotType /\ CallType /\ AckType /\ PeerType
  BY TypeParts
<1>P. CtxType' /\ SlotType' /\ CallType' /\ AckType' /\ PeerType' => TypeOK'
  BY TypeParts
<1>R. CallType' => (free' > 0 => Len(buf') <= free')
  BY DEF CallInv, CallType
<1>S. UNCHANGED slotVars => SlotType'
  BY <1>0 DEF SlotType, slotVars
<1>C. UNCHANGED ctxVars => CtxType' /\ SlotType'
  BY <1>0 DEF CtxType, SlotType, ctxVars, slotVars
<1>A. UNCHANGED ackVars => AckType'
  BY <1>0 DEF AckType, ackVars
<1>V. UNCHANGED <<app, told>> => PeerType'
  BY <1>0 DEF PeerType
<1>K. ASSUME NEW cs, NEW lost, SendAcks(cs, lost), SlotType', CallType',
             rcvNxt' \in [Channels -> 1..(StreamLen + 2)]
      PROVE  /\ shut' \in [Channels -> BOOLEAN]
             /\ told' \in [Channels -> [ack : 1..(StreamLen + 2),
                                        wnd : 0..(MSS * MaxSegments), lost : BOOLEAN]]
  BY <1>K, <1>R, AcksStep
<1>I. Returned => CallType' /\ AckType'
  <2> SUFFICES ASSUME Returned
               PROVE  CallType' /\ AckType'
    OBVIOUS
  <2>1. <<>> \in Seq(0..StreamLen)
    BY EmptySeq
  <2>2. CallType'
    BY <1>0, <2>1 DEF CallType, Returned
  <2>3. AckType'
    BY <1>0 DEF AckType, Returned
  <2> QED
    BY <2>2, <2>3
<1>1. ASSUME NEW c \in Channels, NEW n \in Capacities, NEW h \in {FALSE, Hiding}, Recv(c, n, h)
      PROVE  TypeOK'
  <2>1. CallType'
    <3>1. <<>> \in Seq(0..StreamLen) /\ Len(<<>>) = 0
      BY EmptySeq
    <3>2. h \in BOOLEAN /\ n \in Nat
      <4>1. Hiding \in BOOLEAN
        BY Zenon
      <4>2. h \in BOOLEAN
        BY <4>1, ZenonT(60)
      <4> QED
        BY <4>2
    <3> QED
      BY <1>0, <1>1, <3>1, <3>2 DEF CallType, Recv
  <2>2. AckType'
    BY <1>0, <1>1 DEF AckType, Recv
  <2> QED
    BY <1>1, <1>C, <1>P, <1>V, <2>1, <2>2 DEF Recv
<1>2. CASE Check
  <2>1. SlotType' /\ AckType'
    BY <1>2, <1>S, <1>A DEF Check
  <2>2. CallType'
    BY <1>0, <1>2 DEF CallType, Check, NextStage, Return
  <2>3. rcvNxt' \in [Channels -> 1..(StreamLen + 2)]
    BY <1>0, <1>2 DEF CtxType, Check
  <2>4. /\ shut' \in [Channels -> BOOLEAN] /\ defer' \in [Channels -> BOOLEAN]
        /\ told' \in [Channels -> [ack : 1..(StreamLen + 2),
                                   wnd : 0..(MSS * MaxSegments), lost : BOOLEAN]]
    <3>1. CASE defer[selected] /\ state[selected] # "DOWN"
      <4>1. PICK sent \in Outcomes :
              /\ SendAcks({selected}, IF sent THEN {} ELSE {selected})
              /\ defer' = [defer EXCEPT ![selected] = ~sent]
        BY <1>2, <3>1 DEF Check
      <4>2. (~sent) \in BOOLEAN
        OBVIOUS
      <4>3. defer' \in [Channels -> BOOLEAN]
        BY <1>0, <4>1, <4>2 DEF CtxType
      <4> QED
        BY <1>K, <2>1, <2>2, <2>3, <4>1, <4>3
    <3>2. CASE ~(defer[selected] /\ state[selected] # "DOWN")
      BY <1>0, <1>2, <3>2 DEF Check, CtxType, PeerType
    <3> QED
      BY <3>1, <3>2
  <2>5. CtxType' /\ PeerType'
    BY <1>0, <1>2, <2>3, <2>4 DEF CtxType, PeerType, Check
  <2> QED
    BY <1>P, <2>1, <2>2, <2>5
<1>3. CASE Copy
  <2>1. SlotType'
    <3>1. PICK n \in 0..Len(pend[selected]) :
            /\ pend' = [pend EXCEPT ![selected] =
                          SubSeq(pend[selected], n + 1, Len(pend[selected]))]
            /\ off' = [off EXCEPT ![selected] =
                         IF n = Len(pend[selected]) THEN 0 ELSE off[selected] + n]
      BY <1>3, CopyStep
    <3>2. selected \in Channels
      BY <1>0 DEF CallType
    <3> QED
      BY <1>0, <3>1, <3>2, DrainType
  <2>2. CallType'
    <3>1. /\ buf' \in Seq(0..StreamLen) /\ Len(buf') <= free
      BY <1>3, CopyStep
    <3>2. /\ UNCHANGED <<selected, free, hidden, suspended>>
          /\ \/ pc' = "check" /\ result' = result
             \/ pc' = "return" /\ result' = "OK"
      BY <1>3 DEF Copy, Return
    <3> QED
      BY <1>0, <3>1, <3>2 DEF CallType
  <2>3. AckType'
    <3>1. pc = "copy" /\ match' = match /\ direct' = direct /\ owed' \in {owed, owed + 1}
      BY <1>3 DEF Copy
    <3>2. owed < AckEvery
      BY <3>1 DEF CallInv
    <3> QED
      BY <1>0, <3>1, <3>2 DEF AckType
  <2>4. rcvNxt' \in [Channels -> 1..(StreamLen + 2)]
    BY <1>0, <1>3 DEF CtxType, Copy
  <2>5. \/ UNCHANGED <<shut, told>>
        \/ \E sent \in Outcomes : SendAcks({selected}, IF sent THEN {} ELSE {selected})
    BY <1>3 DEF Copy
  <2>6. /\ shut' \in [Channels -> BOOLEAN]
        /\ told' \in [Channels -> [ack : 1..(StreamLen + 2),
                                   wnd : 0..(MSS * MaxSegments), lost : BOOLEAN]]
    BY <1>0, <1>K, <2>1, <2>2, <2>4, <2>5 DEF CtxType, PeerType
  <2>7. CtxType' /\ PeerType'
    BY <1>0, <1>3, <2>4, <2>6 DEF CtxType, PeerType, Copy
  <2> QED
    BY <1>P, <2>1, <2>2, <2>3, <2>7
<1>4. CASE RecvReturn
  <2>1. SlotType' /\ CallType' /\ AckType'
    BY <1>4, <1>I, <1>S DEF RecvReturn
  <2>2. rcvNxt' \in [Channels -> 1..(StreamLen + 2)]
    BY <1>0, <1>4 DEF CtxType, RecvReturn, Returned
  <2>3. \E cs, lost : SendAcks(cs, lost)
    BY <1>4 DEF RecvReturn, SendOwedAck
  <2>4. /\ shut' \in [Channels -> BOOLEAN]
        /\ told' \in [Channels -> [ack : 1..(StreamLen + 2),
                                   wnd : 0..(MSS * MaxSegments), lost : BOOLEAN]]
    BY <1>K, <2>1, <2>2, <2>3
  <2>5. app' \in [Channels -> Seq(0..StreamLen)]
    <3>1. selected \in Channels /\ buf \in Seq(0..StreamLen)
          /\ app \in [Channels -> Seq(0..StreamLen)] /\ app[selected] \in Seq(0..StreamLen)
      BY <1>0 DEF CallType, PeerType
    <3>2. app[selected] \o buf \in Seq(0..StreamLen)
      BY <3>1, ConcatProperties
    <3> QED
      BY <1>4, <3>1, <3>2 DEF RecvReturn
  <2>6. CtxType' /\ PeerType'
    BY <1>0, <1>4, <2>4, <2>5 DEF CtxType, PeerType, RecvReturn, Returned
  <2> QED
    BY <1>P, <2>1, <2>6
<1>5. ASSUME NEW c \in Channels, Clear(c), UNCHANGED <<rcvNxt, fin>>
      PROVE  CtxType' /\ SlotType'
  <2>1. CtxType'
    BY <1>0, <1>5 DEF CtxType, Clear
  <2>2. pend' \in [Channels -> Seq(0..StreamLen)] /\ off' \in [Channels -> 0..MSS]
    <3>1. <<>> \in Seq(0..StreamLen) /\ 0 \in 0..MSS
      BY EmptySeq
    <3> QED
      BY <1>0, <1>5, <3>1 DEF SlotType, Clear
  <2>3. \A d \in Channels : off'[d] + Len(pend'[d]) <= MSS
    <3>1. off'[c] = 0 /\ pend'[c] = <<>> /\ Len(<<>>) = 0
      BY <1>0, <1>5 DEF SlotType, Clear
    <3>2. \A d \in Channels : d # c => pend'[d] = pend[d] /\ off'[d] = off[d]
      BY <1>0, <1>5 DEF SlotType, Clear
    <3> QED
      BY <1>0, <3>1, <3>2 DEF SlotType
  <2> QED
    BY <2>1, <2>2, <2>3 DEF SlotType
<1>6. CASE RecvRelease
  <2>1. CallType' /\ AckType'
    BY <1>6, <1>I DEF RecvRelease
  <2>2. CtxType' /\ SlotType'
    BY <1>0, <1>5, <1>6 DEF CallType, RecvRelease, Returned
  <2> QED
    BY <1>6, <1>P, <1>V, <2>1, <2>2 DEF RecvRelease
<1>7. ASSUME NEW c \in Channels, Close(c)
      PROVE  TypeOK'
  <2>1. CallType' /\ AckType'
    BY <1>0, <1>7 DEF CallType, AckType, Close, ackVars
  <2>2. CtxType' /\ SlotType'
    BY <1>5, <1>7 DEF Close
  <2> QED
    BY <1>7, <1>P, <1>V, <2>1, <2>2 DEF Close
<1>8. ASSUME NEW f \in Frames, FrameDirect(f)
      PROVE  TypeOK'
  <2>1. /\ f.ch \in Channels /\ f.seq = rcvNxt[f.ch] /\ f.seq + f.len <= StreamLen + 1
        /\ f.len \in 0..MSS /\ Bytes(f) \in Seq(0..StreamLen) /\ Len(Bytes(f)) = f.len
        /\ free > 0 /\ free - Len(buf) >= f.len
    BY <1>8, FrameType DEF FrameDirect, Fast, InOrder, FitsBuffer
  <2>2. SlotType'
    BY <1>8, <1>S DEF FrameDirect
  <2>3. pc = "wait"
    <3>1. Polls
      BY <1>8 DEF FrameDirect
    <3> QED
      BY <2>1, <3>1 DEF CallInv, Polls
  <2>4. CallType'
    <3>1. UNCHANGED <<selected, free, hidden, suspended>> /\ buf' = buf \o Bytes(f)
          /\ (UNCHANGED <<pc, result>> \/ EndWait("HW"))
      BY <1>8 DEF FrameDirect
    <3>2. pc' \in {"wait", "return"} /\ result' \in {result, "OK", "HW"}
      BY <2>3, <3>1 DEF EndWait, Return
    <3>3. buf \in Seq(0..StreamLen) /\ free \in Nat /\ Len(buf) \in Nat
      <4>1. buf \in Seq(0..StreamLen) /\ free \in Capacities \cup {0}
        BY <1>0 DEF CallType
      <4> QED
        BY <4>1
    <3>4. buf' \in Seq(0..StreamLen) /\ Len(buf') = Len(buf) + Len(Bytes(f))
      BY <2>1, <3>1, <3>3, ConcatProperties, ZenonT(60)
    <3>5. Len(buf') <= free'
      BY <2>1, <3>1, <3>3, <3>4
    <3> QED
      BY <1>0, <3>1, <3>2, <3>4, <3>5 DEF CallType
  <2>5. AckType'
    <3>1. /\ match' = f.ch /\ direct' = TRUE
          /\ owed' = IF ~direct \/ owed + 1 >= AckEvery THEN 0 ELSE owed + 1
      BY <1>8 DEF FrameDirect
    <3> QED
      BY <1>0, <2>1, <3>1 DEF AckType
  <2>6. rcvNxt' \in [Channels -> 1..(StreamLen + 2)]
    <3>1. rcvNxt' = [rcvNxt EXCEPT ![f.ch] = @ + f.len]
          /\ rcvNxt \in [Channels -> 1..(StreamLen + 2)]
      BY <1>0, <1>8 DEF FrameDirect, CtxType
    <3>2. rcvNxt[f.ch] + f.len \in 1..(StreamLen + 2)
      BY <2>1, <3>1, SMTT(30)
    <3> QED
      BY <3>1, <3>2
  <2>7. \E cs, lost : SendAcks(cs, lost)
    BY <1>8 DEF FrameDirect, SendOwedAck
  <2>8. /\ shut' \in [Channels -> BOOLEAN]
        /\ told' \in [Channels -> [ack : 1..(StreamLen + 2),
                                   wnd : 0..(MSS * MaxSegments), lost : BOOLEAN]]
    BY <1>K, <2>2, <2>4, <2>6, <2>7
  <2>9. CtxType' /\ PeerType'
    BY <1>0, <1>8, <2>6, <2>8 DEF CtxType, PeerType, FrameDirect
  <2> QED
    BY <1>P, <2>2, <2>4, <2>5, <2>9
<1>9. ASSUME UNCHANGED <<selected, free, buf, hidden, suspended>>,
             \E raised, failed : AfterFrame(raised, failed)
      PROVE  CallType'
  <2>1. \/ pc' = pc /\ result' = result
        \/ pc # "idle" /\ pc' \in {"wait", "check"} /\ result' = result
        \/ pc # "idle" /\ pc' = "return" /\ result' \in {"HW", "RESET", "OK"}
    BY <1>9, AfterFrameStep
  <2> QED
    BY <1>0, <1>9, <2>1 DEF CallType
<1>10. ASSUME NEW c \in Channels, FrameIgnored({match, c})
       PROVE  TypeOK'
  <2>1. SlotType'
    BY <1>10, <1>S DEF FrameIgnored
  <2>2. CallType'
    BY <1>9, <1>10 DEF FrameIgnored
  <2>3. AckType' /\ rcvNxt' \in [Channels -> 1..(StreamLen + 2)]
    BY <1>0, <1>10 DEF AckType, CtxType, FrameIgnored
  <2>4. \E cs, lost : SendAcks(cs, lost)
    BY <1>10 DEF FrameIgnored, SendOwedAck
  <2>5. CtxType' /\ PeerType'
    BY <1>0, <1>10, <1>K, <2>1, <2>2, <2>3, <2>4 DEF CtxType, PeerType, FrameIgnored
  <2> QED
    BY <1>P, <2>1, <2>2, <2>3, <2>5
<1>11. ASSUME NEW f \in Frames, FrameStored(f)
       PROVE  TypeOK'
  <2>1. PICK k \in 0..MSS, end \in {0, 1} :
          /\ rcvNxt' = [rcvNxt EXCEPT ![f.ch] = @ + k + end]
          /\ fin' = [fin EXCEPT ![f.ch] = @ + end]
          /\ pend' = [pend EXCEPT ![f.ch] = @ \o Piece(rcvNxt[f.ch], k)]
          /\ off[f.ch] + Len(pend[f.ch]) + k <= MSS
          /\ k + end > 0 => rcvNxt[f.ch] + k <= StreamLen + 1
          /\ end = 1 => rcvNxt[f.ch] + k = StreamLen + 1
    BY <1>11, StoredStep
  <2>2. /\ f.ch \in Channels /\ k \in Nat /\ end \in Nat
        /\ rcvNxt \in [Channels -> 1..(StreamLen + 2)] /\ fin \in [Channels -> {0, 1}]
        /\ pend \in [Channels -> Seq(0..StreamLen)] /\ off \in [Channels -> 0..MSS]
    BY <1>0, FrameType DEF CtxType, SlotType
  <2>3. rcvNxt[f.ch] \in Nat \ {0} /\ fin[f.ch] \in {0, 1}
        /\ rcvNxt[f.ch] <= StreamLen + 2 /\ (fin[f.ch] = 1 => rcvNxt[f.ch] = StreamLen + 2)
    <3>1. rcvNxt[f.ch] \in 1..(StreamLen + 2) /\ fin[f.ch] \in {0, 1}
      BY <2>2
    <3>2. fin[f.ch] = 1 => rcvNxt[f.ch] = StreamLen + 2
      BY <2>2 DEF SlotInv
    <3> QED
      BY <3>1, <3>2
  <2>4. rcvNxt[f.ch] + k + end \in 1..(StreamLen + 2) /\ fin[f.ch] + end \in {0, 1}
    BY <2>1, <2>2, <2>3
  <2>5. rcvNxt' \in [Channels -> 1..(StreamLen + 2)] /\ fin' \in [Channels -> {0, 1}]
    BY <2>1, <2>2, <2>4
  <2>6. SlotType'
    <3>1. /\ Piece(rcvNxt[f.ch], k) \in Seq(0..StreamLen)
          /\ Len(Piece(rcvNxt[f.ch], k)) = k
      <4>1. CASE k = 0
        <5>1. Piece(rcvNxt[f.ch], k) \in Seq(Nat) /\ Len(Piece(rcvNxt[f.ch], k)) = 0
          BY <2>2, <2>3, <4>1, PieceType
        <5>2. Piece(rcvNxt[f.ch], k) = <<>>
          BY <5>1, EmptySeq
        <5> QED
          BY <4>1, <5>1, <5>2, EmptySeq
      <4>2. CASE k # 0
        <5>1. rcvNxt[f.ch] + k <= StreamLen + 1
          BY <2>1, <2>2, <4>2
        <5> QED
          BY <2>2, <2>3, <5>1, PieceType
      <4> QED
        BY <4>1, <4>2
    <3>2. pend[f.ch] \in Seq(0..StreamLen)
      BY <2>2
    <3> DEFINE joined == pend[f.ch] \o Piece(rcvNxt[f.ch], k)
    <3>3. joined \in Seq(0..StreamLen) /\ Len(joined) = Len(pend[f.ch]) + k
      <4>1. \A s, t \in Seq(0..StreamLen) :
              s \o t \in Seq(0..StreamLen) /\ Len(s \o t) = Len(s) + Len(t)
        BY ConcatProperties
      <4>2. joined \in Seq(0..StreamLen)
        BY <3>1, <3>2, <4>1
      <4>3. Len(joined) = Len(pend[f.ch]) + Len(Piece(rcvNxt[f.ch], k))
        BY <3>1, <3>2, <4>1, ZenonT(60)
      <4> QED
        BY <3>1, <4>2, <4>3
    <3>4. pend' = [pend EXCEPT ![f.ch] = joined] /\ off' = off
      BY <1>11, <2>1 DEF FrameStored
    <3> HIDE DEF joined
    <3>5. pend' \in [Channels -> Seq(0..StreamLen)] /\ pend'[f.ch] = joined
      BY <2>2, <3>3, <3>4
    <3>6. \A d \in Channels : d # f.ch => pend'[d] = pend[d]
      BY <2>2, <3>4
    <3>7. off[f.ch] + Len(joined) <= MSS
      <4>1. off[f.ch] \in 0..MSS /\ Len(pend[f.ch]) \in Nat
        <5>1. off[f.ch] \in 0..MSS
          BY <2>2
        <5> QED
          BY <3>2, <5>1
      <4> QED
        BY <2>1, <2>2, <3>3, <4>1
    <3>8. \A d \in Channels : off'[d] + Len(pend'[d]) <= MSS
      BY <1>0, <3>4, <3>5, <3>6, <3>7 DEF SlotType
    <3> QED
      BY <2>2, <3>4, <3>5, <3>8 DEF SlotType
  <2>7. CallType'
    BY <1>9, <1>11 DEF FrameStored
  <2>8. AckType'
    BY <1>0, <1>11, <2>2 DEF AckType, FrameStored
  <2>9. \E cs, lost : SendAcks(cs, lost)
    BY <1>11 DEF FrameStored, SendOwedAck
  <2>10. CtxType' /\ PeerType'
    BY <1>0, <1>11, <1>K, <2>5, <2>6, <2>7, <2>9 DEF CtxType, PeerType, FrameStored
  <2> QED
    BY <1>P, <2>6, <2>7, <2>8, <2>10
<1>12. ASSUME NEW c \in Channels, FrameReset(c)
       PROVE  TypeOK'
  <2>1. SlotType'
    BY <1>12, <1>S DEF FrameReset
  <2>2. CallType'
    BY <1>9, <1>12 DEF FrameReset
  <2>3. AckType' /\ rcvNxt' \in [Channels -> 1..(StreamLen + 2)]
    BY <1>0, <1>12 DEF AckType, CtxType, FrameReset
  <2>4. \E cs, lost : SendAcks(cs, lost)
    BY <1>12 DEF FrameReset, SendOwedAck
  <2>5. CtxType' /\ PeerType'
    BY <1>0, <1>12, <1>K, <2>1, <2>2, <2>3, <2>4 DEF CtxType, PeerType, FrameReset
  <2> QED
    BY <1>P, <2>1, <2>2, <2>3, <2>5
<1>13. ASSUME NEW c \in Channels, FrameOversized(c)
       PROVE  TypeOK'
  <2>1. CtxType' /\ SlotType' /\ AckType'
    BY <1>0, <1>13, <1>S DEF CtxType, AckType, FrameOversized
  <2>2. CallType'
    BY <1>0, <1>13 DEF CallType, FrameOversized, EndWait, Return
  <2> QED
    BY <1>13, <1>P, <1>V, <2>1, <2>2 DEF FrameOversized
<1>14. CASE WaitEnds
  <2>1. CallType'
    BY <1>0, <1>14 DEF CallType, WaitEnds, EndWait, Return
  <2> QED
    BY <1>14, <1>A, <1>C, <1>P, <1>V, <2>1 DEF WaitEnds
<1>15. ASSUME NEW c \in Channels, Select(c)
       PROVE  TypeOK'
  <2>1. CallType'
    BY <1>0, <1>15 DEF CallType, Select
  <2> QED
    BY <1>15, <1>A, <1>C, <1>P, <1>V, <2>1 DEF Select
<1>16. CASE Suspend
  <2>1. CallType'
    BY <1>0, <1>16 DEF CallType, Suspend
  <2> QED
    BY <1>16, <1>A, <1>C, <1>P, <1>V, <2>1 DEF Suspend
<1>17. CASE ResumeSend
  <2>1. SlotType' /\ CallType' /\ AckType'
    BY <1>0, <1>17, <1>A, <1>S DEF CallType, ResumeSend
  <2>2. rcvNxt' \in [Channels -> 1..(StreamLen + 2)]
    BY <1>0, <1>17 DEF CtxType, ResumeSend
  <2>3. \E cs, lost : SendAcks(cs, lost)
    BY <1>17 DEF ResumeSend
  <2>4. defer' \in [Channels -> BOOLEAN]
    <3>1. PICK lost : defer' = [c \in Channels |-> defer[c] /\ c \notin DeferredUpdates \ lost]
      BY <1>17 DEF ResumeSend
    <3>2. \A c \in Channels : (defer[c] /\ c \notin DeferredUpdates \ lost) \in BOOLEAN
      OBVIOUS
    <3> QED
      BY <3>1, <3>2, ZenonT(60)
  <2>5. CtxType' /\ PeerType'
    BY <1>0, <1>17, <1>K, <2>1, <2>2, <2>3, <2>4 DEF CtxType, PeerType, ResumeSend
  <2> QED
    BY <1>P, <2>1, <2>5
<1>18. ASSUME NEW c \in Channels, NEW m \in Capacities, RecvBuffered(c, m)
       PROVE  TypeOK'
  <2> DEFINE n == Least(Len(pend[c]), m)
  <2>1. pend[c] \in Seq(0..StreamLen) /\ Len(pend[c]) \in Nat /\ m \in Nat
    <3>1. pend[c] \in Seq(0..StreamLen)
      BY <1>0 DEF SlotType
    <3>2. m \in Nat
      OBVIOUS
    <3> QED
      BY <3>1, <3>2
  <2>2. n \in 0..Len(pend[c])
    BY <2>1 DEF Least
  <2>3. SlotType'
    <3>1. /\ pend' = [pend EXCEPT ![c] = SubSeq(pend[c], n + 1, Len(pend[c]))]
          /\ off' = [off EXCEPT ![c] = IF n = Len(pend[c]) THEN 0 ELSE off[c] + n]
      BY <1>0, <1>18 DEF RecvBuffered, SlotType
    <3> HIDE DEF n
    <3> QED
      BY <1>0, <2>2, <3>1, DrainType
  <2>4. app' \in [Channels -> Seq(0..StreamLen)]
    <3>1. app' = [app EXCEPT ![c] = app[c] \o SubSeq(pend[c], 1, n)]
          /\ app \in [Channels -> Seq(0..StreamLen)] /\ app[c] \in Seq(0..StreamLen)
      BY <1>0, <1>18 DEF RecvBuffered, PeerType
    <3> HIDE DEF n
    <3>2. SubSeq(pend[c], 1, n) \in Seq(0..StreamLen)
      BY <2>1, <2>2, Split
    <3>3. app[c] \o SubSeq(pend[c], 1, n) \in Seq(0..StreamLen)
      BY <3>1, <3>2, ConcatProperties
    <3> QED
      BY <3>1, <3>3
  <2>5. CtxType' /\ CallType' /\ AckType'
    BY <1>0, <1>18, <1>A DEF CtxType, CallType, RecvBuffered, callVars
  <2>6. PeerType'
    BY <1>0, <1>18, <2>4 DEF PeerType, RecvBuffered
  <2> QED
    BY <1>P, <2>3, <2>5, <2>6
<1>19. CASE UNCHANGED vars
  <2>1. CallType'
    BY <1>0, <1>19 DEF CallType, vars, callVars
  <2> QED
    BY <1>19, <1>A, <1>C, <1>P, <1>V, <2>1 DEF vars
<1> QED
  BY <1>1, <1>2, <1>3, <1>4, <1>6, <1>7, <1>8, <1>10, <1>11, <1>12, <1>13, <1>14, <1>15,
     <1>16, <1>17, <1>18, <1>19 DEF Next

----------------------------------------------------------------------------
(* Bytes on their way from the slot through the buffer to the application  *)
(* keep their places.                                                      *)
LEMMA Regroup ==
    ASSUME NEW S
    PROVE  /\ \A a, b, c \in Seq(S) : (a \o b) \o c = a \o (b \o c)
           /\ \A a \in Seq(S) : a \o <<>> = a
<1>1. ASSUME NEW a \in Seq(S), NEW b \in Seq(S), NEW c \in Seq(S)
      PROVE  (a \o b) \o c = a \o (b \o c)
  BY SMTT(30)
<1> QED
  BY <1>1, ConcatEmptySeq

(* The stream is kept by every step: in particular by the one that reads a *)
(* segment into the caller's buffer past the slot, which is empty then.    *)
LEMMA StreamStep ==
    ASSUME TypeOK, CallInv, SlotInv, StreamInv, [Next]_vars
    PROVE  StreamInv'
<1> USE ConstAssumption
<1> DEFINE Byte == 0..StreamLen
           Held(c) == IF c = selected THEN buf ELSE <<>>
           Left(c) == IF c = selected' THEN buf' ELSE <<>>
           Upto(c) == Stream(rcvNxt[c] - 1 - fin[c])
<1>T. /\ selected \in Channels /\ buf \in Seq(Byte) /\ <<>> \in Seq(Byte)
      /\ app \in [Channels -> Seq(Byte)] /\ pend \in [Channels -> Seq(Byte)]
      /\ state \in [Channels -> {"OPEN", "DOWN", "FREE"}]
      /\ rcvNxt \in [Channels -> 1..(StreamLen + 2)] /\ fin \in [Channels -> {0, 1}]
  <2>1. <<>> \in Seq(Byte)
    BY EmptySeq
  <2> QED
    BY <2>1 DEF TypeOK
<1> HIDE DEF Byte
<1>H. \A c \in Channels :
        /\ app[c] \in Seq(Byte) /\ pend[c] \in Seq(Byte)
        /\ Held(c) \in Seq(Byte)
        /\ Acknowledged(c) = (app[c] \o Held(c)) \o pend[c]
        /\ state[c] # "FREE" => (app[c] \o Held(c)) \o pend[c] = Upto(c)
        /\ pc = "idle" => Held(c) = <<>>
  BY <1>T DEF Acknowledged, CallInv, StreamInv
<1>R. SUFFICES ASSUME NEW c \in Channels, state'[c] # "FREE"
               PROVE  (app'[c] \o Left(c)) \o pend'[c] = Stream(rcvNxt'[c] - 1 - fin'[c])
  BY DEF StreamInv, Acknowledged
<1>G. /\ \A a, b, x \in Seq(Byte) : (a \o b) \o x = a \o (b \o x)
      /\ \A a \in Seq(Byte) : a \o <<>> = a
  BY Regroup, ZenonT(60)
<1>B. buf \in Seq(Byte)
  BY <1>T
<1>C. \A a, b \in Seq(Byte) : a \o b \in Seq(Byte)
  BY ConcatProperties
<1>X. ASSUME state[c] # "FREE", app'[c] = app[c], pend'[c] = pend[c], Left(c) = Held(c),
             rcvNxt'[c] = rcvNxt[c], fin'[c] = fin[c]
      PROVE  (app'[c] \o Left(c)) \o pend'[c] = Stream(rcvNxt'[c] - 1 - fin'[c])
  <2>1. (app[c] \o Held(c)) \o pend[c] = Upto(c)
    BY <1>H, <1>X
  <2> HIDE DEF Left, Held
  <2> QED
    BY <1>X, <2>1
<1>1. ASSUME NEW d \in Channels, NEW n \in Capacities, NEW h \in {FALSE, Hiding}, Recv(d, n, h)
      PROVE  (app'[c] \o Left(c)) \o pend'[c] = Stream(rcvNxt'[c] - 1 - fin'[c])
  BY <1>1, <1>H, <1>R, <1>X DEF Recv, ctxVars, slotVars
<1>2. CASE Check \/ WaitEnds \/ Suspend \/ ResumeSend \/ UNCHANGED vars
  <2>1. UNCHANGED <<state, app, pend, rcvNxt, fin, buf, selected>>
    BY <1>2 DEF Check, WaitEnds, Suspend, ResumeSend, vars, ctxVars, slotVars, callVars
  <2> QED
    BY <1>R, <1>X, <2>1
<1>3. CASE Copy
  <2>1. PICK n \in 0..Len(pend[selected]) :
          /\ buf' = buf \o SubSeq(pend[selected], 1, n)
          /\ pend' = [pend EXCEPT ![selected] =
                        SubSeq(pend[selected], n + 1, Len(pend[selected]))]
    BY <1>3, CopyStep
  <2>2. UNCHANGED <<state, app, rcvNxt, fin, selected>>
    BY <1>3 DEF Copy
  <2>3. CASE c # selected
    BY <1>R, <1>T, <1>X, <2>1, <2>2, <2>3
  <2>4. CASE c = selected
    <3> DEFINE s1 == SubSeq(pend[selected], 1, n)
               s2 == SubSeq(pend[selected], n + 1, Len(pend[selected]))
    <3>1. s1 \in Seq(Byte) /\ s2 \in Seq(Byte) /\ s1 \o s2 = pend[c]
      BY <1>H, <2>4, Split
    <3>2. app'[c] = app[c] /\ Left(c) = buf \o s1 /\ pend'[c] = s2 /\ Held(c) = buf
          /\ rcvNxt'[c] = rcvNxt[c] /\ fin'[c] = fin[c] /\ state[c] # "FREE"
      BY <1>R, <1>T, <2>1, <2>2, <2>4
    <3> HIDE DEF s1, s2, Left, Held
    <3>3. (app[c] \o (buf \o s1)) \o s2 = (app[c] \o buf) \o (s1 \o s2)
      <4>1. app[c] \in Seq(Byte)
        BY <1>H
      <4> QED
        <5>1. (app[c] \o buf) \o s1 = app[c] \o (buf \o s1)
          BY <1>B, <1>G, <3>1, <4>1, ZenonT(60)
        <5>2. ((app[c] \o buf) \o s1) \o s2 = (app[c] \o buf) \o (s1 \o s2)
          <6>1. app[c] \o buf \in Seq(Byte)
            BY <1>T, <1>C, <4>1
          <6> QED
            BY <1>G, <3>1, <6>1, ZenonT(60)
        <5> QED
          BY <5>1, <5>2
    <3>4. (app[c] \o buf) \o pend[c] = Upto(c)
      BY <1>H, <3>2
    <3> QED
      BY <3>1, <3>2, <3>3, <3>4
  <2> QED
    BY <2>3, <2>4
<1>4. CASE RecvReturn
  <2>1. /\ app' = IF result = "OK" THEN [app EXCEPT ![selected] = @ \o buf] ELSE app
        /\ result \in {"OK", "TIMEOUT"} /\ pc = "return" /\ buf' = <<>>
        /\ UNCHANGED <<state, pend, rcvNxt, fin, selected>>
    BY <1>4 DEF RecvReturn, Returned, Releases, slotVars
  <2>2. CASE result = "OK" /\ c = selected
    <3>1. /\ app'[c] = app[c] \o buf /\ Left(c) = <<>> /\ Held(c) = buf
          /\ pend'[c] = pend[c] /\ rcvNxt'[c] = rcvNxt[c] /\ fin'[c] = fin[c]
          /\ state[c] # "FREE"
      BY <1>R, <1>T, <2>1, <2>2
    <3> HIDE DEF Left, Held
    <3>2. app[c] \o buf \in Seq(Byte)
      BY <1>T, <1>H, ConcatProperties
    <3>3. (app[c] \o buf) \o <<>> = app[c] \o buf
      BY <1>T, <1>G, <3>2
    <3>4. (app[c] \o buf) \o pend[c] = Upto(c)
      BY <1>H, <3>1
    <3> QED
      BY <3>1, <3>3, <3>4
  <2>3. CASE c # selected
    BY <1>R, <1>T, <1>X, <2>1, <2>3
  <2>4. CASE result = "TIMEOUT"
    <3>1. buf = <<>>
      BY <2>1, <2>4 DEF CallInv
    <3> QED
      BY <1>R, <1>X, <2>1, <2>4, <3>1
  <2> QED
    BY <2>1, <2>2, <2>3, <2>4
<1>5. CASE RecvRelease
  <2>1. state' = [state EXCEPT ![selected] = "FREE"]
        /\ pend' = [pend EXCEPT ![selected] = <<>>]
        /\ UNCHANGED <<app, rcvNxt, fin, selected>>
    BY <1>5 DEF RecvRelease, Returned, Clear
  <2>2. c # selected
    BY <1>R, <1>T, <2>1
  <2> QED
    BY <1>R, <1>T, <1>X, <2>1, <2>2
<1>6. ASSUME NEW d \in Channels, Close(d)
      PROVE  (app'[c] \o Left(c)) \o pend'[c] = Stream(rcvNxt'[c] - 1 - fin'[c])
  <2>1. state' = [state EXCEPT ![d] = "FREE"] /\ pend' = [pend EXCEPT ![d] = <<>>]
        /\ pc = "idle" /\ UNCHANGED <<app, rcvNxt, fin, buf>>
    BY <1>6 DEF Close, Clear
  <2>2. c # d /\ buf' = <<>>
    BY <1>R, <1>T, <2>1 DEF CallInv
  <2>3. Left(c) = Held(c)
    BY <1>H, <2>1, <2>2
  <2> HIDE DEF Left, Held
  <2> QED
    BY <1>R, <1>T, <1>X, <2>1, <2>2, <2>3
<1>7. ASSUME NEW d \in Channels, FrameIgnored({match, d}) \/ FrameReset(d) \/ FrameOversized(d)
      PROVE  (app'[c] \o Left(c)) \o pend'[c] = Stream(rcvNxt'[c] - 1 - fin'[c])
  <2>1. UNCHANGED <<app, pend, rcvNxt, fin, buf, selected>>
        /\ (state' = state \/ (state[d] = "OPEN" /\ state' = [state EXCEPT ![d] = "DOWN"]))
    BY <1>7 DEF FrameIgnored, FrameReset, FrameOversized, slotVars
  <2>2. state[c] # "FREE"
    BY <1>R, <1>T, <2>1
  <2> QED
    BY <1>X, <2>1, <2>2
<1>8. ASSUME NEW d \in Channels, Select(d)
      PROVE  (app'[c] \o Left(c)) \o pend'[c] = Stream(rcvNxt'[c] - 1 - fin'[c])
  <2>1. UNCHANGED <<state, app, pend, rcvNxt, fin, buf>> /\ pc = "idle"
    BY <1>8 DEF Select, ctxVars, slotVars
  <2>2. Left(c) = Held(c)
    BY <1>H, <2>1 DEF CallInv
  <2> QED
    BY <1>R, <1>X, <2>1, <2>2
<1>9. ASSUME NEW d \in Channels, NEW m \in Capacities, RecvBuffered(d, m)
      PROVE  (app'[c] \o Left(c)) \o pend'[c] = Stream(rcvNxt'[c] - 1 - fin'[c])
  <2> DEFINE n == Least(Len(pend[d]), m)
             s1 == SubSeq(pend[d], 1, n)
             s2 == SubSeq(pend[d], n + 1, Len(pend[d]))
  <2>1. /\ app' = [app EXCEPT ![d] = app[d] \o s1] /\ pend' = [pend EXCEPT ![d] = s2]
        /\ pc = "idle" /\ UNCHANGED <<state, rcvNxt, fin, buf, selected>>
    BY <1>T, <1>9 DEF RecvBuffered, callVars
  <2>2. n \in 0..Len(pend[d])
    <3>1. m \in Nat
      OBVIOUS
    <3>2. Len(pend[d]) \in Nat
      BY <1>H
    <3> QED
      BY <3>1, <3>2 DEF Least
  <2>3. s1 \in Seq(Byte) /\ s2 \in Seq(Byte) /\ s1 \o s2 = pend[d]
    <3> HIDE DEF n
    <3> QED
      BY <1>H, <2>2, Split
  <2> HIDE DEF s1, s2, n
  <2>4. CASE c # d
    BY <1>R, <1>T, <1>X, <2>1, <2>4
  <2>5. CASE c = d
    <3>1. /\ app'[c] = app[c] \o s1 /\ Left(c) = <<>> /\ Held(c) = <<>> /\ pend'[c] = s2
          /\ rcvNxt'[c] = rcvNxt[c] /\ fin'[c] = fin[c] /\ state[c] # "FREE"
      BY <1>H, <1>R, <1>T, <2>1, <2>5
    <3> HIDE DEF Left, Held
    <3>2. app[c] \o s1 \in Seq(Byte)
      BY <1>H, <2>3, ConcatProperties
    <3>3. (app[c] \o s1) \o <<>> = app[c] \o s1 /\ app[c] \o <<>> = app[c]
          /\ (app[c] \o s1) \o s2 = app[c] \o (s1 \o s2)
      <4>1. app[c] \in Seq(Byte)
        BY <1>H
      <4> QED
        BY <1>G, <2>3, <3>2, <4>1, ZenonT(60)
    <3>4. (app[c] \o Held(c)) \o pend[c] = Upto(c)
      BY <1>H, <3>1
    <3> QED
      BY <2>3, <2>5, <3>1, <3>3, <3>4
  <2> QED
    BY <2>4, <2>5
<1>10. ASSUME NEW f \in Frames, FrameDirect(f)
       PROVE  (app'[c] \o Left(c)) \o pend'[c] = Stream(rcvNxt'[c] - 1 - fin'[c])
  <2>1. /\ f.ch = selected /\ fin[f.ch] = 0 /\ f.seq = rcvNxt[f.ch] /\ ~f.bad
        /\ Polls /\ free > 0
        /\ rcvNxt' = [rcvNxt EXCEPT ![f.ch] = @ + f.len] /\ buf' = buf \o Bytes(f)
        /\ UNCHANGED <<state, app, pend, fin, selected>>
    BY <1>10 DEF FrameDirect, Fast, InOrder, FitsBuffer, Commits, slotVars
  <2>2. CASE c # f.ch
    BY <1>R, <1>T, <1>X, <2>1, <2>2
  <2>3. CASE c = f.ch
    <3>1. pend[c] = <<>>
      BY <2>1, <2>3 DEF CallInv, Polls
    <3>2. rcvNxt[c] \in Nat \ {0} /\ f.len \in Nat
          /\ rcvNxt[c] + f.len <= StreamLen + 1
      <4>1. rcvNxt[c] \in 1..(StreamLen + 2) /\ f.len \in 0..MSS
            /\ f.seq + f.len <= StreamLen + 1
        BY <1>T, FrameType
      <4> QED
        BY <2>1, <2>3, <4>1
    <3> DEFINE next == Piece(rcvNxt[c], f.len)
    <3>3. Bytes(f) = next
      BY <2>1, <2>3 DEF Bytes, Piece
    <3>4. next \in Seq(Byte)
      BY <3>2, PieceType DEF Byte
    <3>5. Stream(rcvNxt[c] - 1) \o next = Stream(rcvNxt[c] - 1 + f.len)
      BY <3>2, StreamGrows
    <3> HIDE DEF next
    <3>6. /\ app'[c] = app[c] /\ Left(c) = buf \o next /\ Held(c) = buf
          /\ pend'[c] = <<>> /\ rcvNxt'[c] = rcvNxt[c] + f.len
          /\ fin'[c] = 0 /\ fin[c] = 0 /\ state[c] # "FREE"
      BY <1>R, <1>T, <2>1, <2>3, <3>1, <3>3
    <3> HIDE DEF Left, Held
    <3>7. (app[c] \o (buf \o next)) \o <<>> = ((app[c] \o buf) \o <<>>) \o next
      <4>1. app[c] \in Seq(Byte)
        BY <1>H
      <4>2. app[c] \o buf \in Seq(Byte)
            /\ app[c] \o (buf \o next) \in Seq(Byte)
        BY <1>T, <3>4, <4>1, ConcatProperties
      <4>3. /\ (app[c] \o (buf \o next)) \o <<>> = app[c] \o (buf \o next)
            /\ (app[c] \o buf) \o <<>> = app[c] \o buf
        BY <1>G, <4>2
      <4>4. (app[c] \o buf) \o next = app[c] \o (buf \o next)
        BY <1>B, <1>G, <3>4, <4>1, ZenonT(60)
      <4> QED
        BY <4>3, <4>4
    <3>8. (app[c] \o buf) \o <<>> = Stream(rcvNxt[c] - 1)
      <4>1. (app[c] \o Held(c)) \o pend[c] = Stream(rcvNxt[c] - 1 - fin[c])
        BY <1>H, <3>6
      <4> QED
        BY <3>1, <3>2, <3>6, <4>1, SMTT(30)
    <3>9. (app'[c] \o Left(c)) \o pend'[c] = Stream(rcvNxt[c] - 1 + f.len)
      BY <3>5, <3>6, <3>7, <3>8
    <3>10. rcvNxt'[c] - 1 - fin'[c] = rcvNxt[c] - 1 + f.len
      BY <3>2, <3>6
    <3> QED
      BY <3>9, <3>10
  <2> QED
    BY <2>2, <2>3
<1>11. ASSUME NEW f \in Frames, FrameStored(f)
       PROVE  (app'[c] \o Left(c)) \o pend'[c] = Stream(rcvNxt'[c] - 1 - fin'[c])
  <2>1. f.ch \in Channels /\ UNCHANGED <<state, app, buf, selected>>
    BY <1>11, FrameType DEF FrameStored
  <2>2. PICK k \in 0..MSS, end \in {0, 1} :
          /\ rcvNxt' = [rcvNxt EXCEPT ![f.ch] = @ + k + end]
          /\ fin' = [fin EXCEPT ![f.ch] = @ + end]
          /\ pend' = [pend EXCEPT ![f.ch] = @ \o Piece(rcvNxt[f.ch], k)]
          /\ k + end > 0 => rcvNxt[f.ch] + k <= StreamLen + 1
    BY <1>11, StoredStep
  <2>3. CASE c # f.ch
    BY <1>R, <1>T, <1>X, <2>1, <2>2, <2>3
  <2>4. CASE c = f.ch
    <3> DEFINE next == Piece(rcvNxt[c], k)
    <3>1. /\ app'[c] = app[c] /\ Left(c) = Held(c) /\ pend'[c] = pend[c] \o next
          /\ rcvNxt'[c] = rcvNxt[c] + k + end /\ fin'[c] = fin[c] + end
          /\ state[c] # "FREE"
      BY <1>R, <1>T, <2>1, <2>2, <2>4
    <3>2. /\ rcvNxt[c] \in Nat \ {0} /\ fin[c] \in {0, 1} /\ k \in Nat /\ end \in {0, 1}
          /\ k + end > 0 => rcvNxt[c] + k <= StreamLen + 1
          /\ fin[c] = 1 => rcvNxt[c] = StreamLen + 2
      <4>1. rcvNxt[c] \in 1..(StreamLen + 2) /\ fin[c] \in {0, 1}
            /\ (fin[c] = 1 => rcvNxt[c] = StreamLen + 2)
        BY <1>T DEF SlotInv
      <4> QED
        BY <2>2, <2>4, <4>1
    <3>3. CASE k + end = 0
      <4>1. k = 0 /\ end = 0
        BY <3>2, <3>3
      <4>2. next = <<>>
        <5>1. next \in Seq(Nat) /\ Len(next) = 0
          BY <3>2, <4>1, PieceType
        <5> HIDE DEF next
        <5> QED
          BY <5>1, EmptySeq
      <4> HIDE DEF next, Left, Held
      <4>3. pend'[c] = pend[c]
        <5>1. pend[c] \in Seq(Byte)
          BY <1>H
        <5> QED
          BY <1>G, <3>1, <4>2, <5>1, ZenonT(60)
      <4>4. rcvNxt'[c] = rcvNxt[c] /\ fin'[c] = fin[c]
        BY <3>1, <3>2, <4>1
      <4> QED
        BY <1>X, <3>1, <4>3, <4>4
    <3>4. CASE k + end > 0
      <4>1. fin[c] = 0
        BY <3>2, <3>4
      <4>2. next \in Seq(Byte)
        BY <3>2, <3>4, PieceType DEF Byte
      <4>3. Stream(rcvNxt[c] - 1) \o next = Stream(rcvNxt[c] - 1 + k)
        BY <3>2, StreamGrows
      <4> HIDE DEF next, Left, Held
      <4>4. (app[c] \o Held(c)) \o (pend[c] \o next)
              = ((app[c] \o Held(c)) \o pend[c]) \o next
        <5>1. app[c] \in Seq(Byte) /\ pend[c] \in Seq(Byte)
              /\ Held(c) \in Seq(Byte)
          BY <1>H
        <5> QED
          <6>1. app[c] \o Held(c) \in Seq(Byte)
            BY <1>C, <5>1
          <6> QED
            BY <1>G, <4>2, <5>1, <6>1, ZenonT(60)
      <4>5. (app[c] \o Held(c)) \o pend[c] = Stream(rcvNxt[c] - 1)
        <5>1. (app[c] \o Held(c)) \o pend[c] = Stream(rcvNxt[c] - 1 - fin[c])
          BY <1>H, <3>1
        <5> QED
          BY <3>2, <4>1, <5>1
      <4>6. rcvNxt'[c] - 1 - fin'[c] = rcvNxt[c] - 1 + k
        BY <3>1, <3>2, <4>1
      <4> QED
        BY <3>1, <4>3, <4>4, <4>5, <4>6
    <3>5. k + end = 0 \/ k + end > 0
      BY <3>2
    <3> QED
      BY <3>3, <3>4, <3>5
  <2> QED
    BY <2>3, <2>4
<1> QED
  BY <1>1, <1>2, <1>3, <1>4, <1>5, <1>6, <1>7, <1>8, <1>9, <1>10, <1>11 DEF Next

----------------------------------------------------------------------------
(* The windows.  Every ACK that shuts one is sent with bytes in the slot,  *)
(* and what empties a slot announces the room or puts the update off.      *)
LEMMA WindowStep ==
    ASSUME TypeOK, TypeOK', CallInv, CallInv', SlotInv, SlotInv', WindowInv, [Next]_vars
    PROVE  WindowInv'
<1> USE ConstAssumption
<1> DEFINE Agree(c) == ~told'[c].lost => (told'[c].wnd = 0 <=> shut'[c])
           Opens(c) == fin'[c] = 0 /\ shut'[c] => pend'[c] # <<>> \/ defer'[c]
<1>T. /\ selected \in Channels /\ match' \in Channels
      /\ state \in [Channels -> {"OPEN", "DOWN", "FREE"}]
      /\ fin \in [Channels -> {0, 1}] /\ pend \in [Channels -> Seq(0..StreamLen)]
      /\ shut \in [Channels -> BOOLEAN] /\ defer \in [Channels -> BOOLEAN]
  BY DEF TypeOK
<1>W. \A c \in Channels : state[c] # "FREE" =>
        /\ ~told[c].lost => (told[c].wnd = 0 <=> shut[c])
        /\ fin[c] = 0 /\ shut[c] => pend[c] # <<>> \/ defer[c]
  BY DEF WindowInv
<1>P. /\ SlotType' /\ CallType' /\ rcvNxt' \in [Channels -> 1..(StreamLen + 2)]
      /\ free' > 0 => Len(buf') <= free'
      /\ \A c \in Channels : pend'[c] = <<>> => off'[c] = 0
  <2>1. CtxType' /\ SlotType' /\ CallType'
    BY TypeParts
  <2> QED
    BY <2>1 DEF CtxType, CallType, CallInv, SlotInv
<1>R. SUFFICES ASSUME NEW c \in Channels, state'[c] # "FREE"
               PROVE  Agree(c) /\ Opens(c)
  BY DEF WindowInv
<1>X. ASSUME state[c] # "FREE", fin'[c] = fin[c], pend'[c] = pend[c], shut'[c] = shut[c],
             defer'[c] = defer[c], told'[c] = told[c]
      PROVE  Agree(c) /\ Opens(c)
  BY <1>W, <1>X
<1>K. ASSUME NEW cs, NEW lost, SendAcks(cs, lost), state[c] # "FREE",
             c \notin cs /\ fin'[c] = 0 /\ shut[c] => pend'[c] # <<>> \/ defer'[c]
      PROVE  Agree(c) /\ Opens(c)
  <2>1. /\ c \notin cs => shut'[c] = shut[c] /\ told'[c] = told[c]
        /\ c \in cs /\ ~told'[c].lost => (told'[c].wnd = 0 <=> shut'[c])
        /\ c \in cs /\ off'[c] = 0 /\ pend'[c] = <<>> => ~shut'[c]
    BY <1>K, <1>P, AcksStep
  <2> QED
    BY <1>K, <1>P, <1>W, <2>1
<1>O. ASSUME NEW due, NEW sent, SendOwedAck(due, sent), state[c] # "FREE",
             fin'[c] = 0 /\ shut[c] => pend'[c] # <<>> \/ defer'[c]
      PROVE  Agree(c) /\ Opens(c)
  BY <1>K, <1>O DEF SendOwedAck
<1>1. ASSUME NEW d \in Channels, NEW n \in Capacities, NEW h \in {FALSE, Hiding}, Recv(d, n, h)
      PROVE  Agree(c) /\ Opens(c)
  BY <1>1, <1>R, <1>X DEF Recv, ctxVars, slotVars
<1>2. CASE WaitEnds \/ Suspend \/ UNCHANGED vars
  BY <1>2, <1>R, <1>X DEF WaitEnds, Suspend, vars, ctxVars, slotVars
<1>3. ASSUME NEW d \in Channels, Select(d) \/ FrameOversized(d)
      PROVE  Agree(c) /\ Opens(c)
  <2>1. /\ UNCHANGED <<fin, pend, shut, defer, told>>
        /\ state' = state \/ (state[d] = "OPEN" /\ state' = [state EXCEPT ![d] = "DOWN"])
    BY <1>3 DEF Select, FrameOversized, ctxVars, slotVars
  <2>2. state[c] # "FREE"
    BY <1>R, <1>T, <2>1
  <2> QED
    BY <1>X, <2>1, <2>2
<1>4. ASSUME NEW d \in Channels, Clear(d), UNCHANGED <<fin, told>>
      PROVE  Agree(c) /\ Opens(c)
  <2>1. c # d
    BY <1>4, <1>R, <1>T DEF Clear
  <2>2. /\ state'[c] = state[c] /\ pend'[c] = pend[c] /\ shut'[c] = shut[c]
        /\ defer'[c] = defer[c] /\ fin'[c] = fin[c] /\ told'[c] = told[c]
    BY <1>4, <1>T, <2>1 DEF Clear
  <2> QED
    BY <1>R, <1>X, <2>2
<1>5. CASE RecvRelease
  BY <1>4, <1>5, <1>T DEF RecvRelease, Returned
<1>6. ASSUME NEW d \in Channels, Close(d)
      PROVE  Agree(c) /\ Opens(c)
  BY <1>4, <1>6 DEF Close
<1>7. CASE Check
  <2>1. UNCHANGED <<state, fin, pend>>
    BY <1>7 DEF Check, slotVars
  <2>2. CASE defer[selected] /\ state[selected] # "DOWN"
    <3>1. PICK sent \in Outcomes :
            /\ SendAcks({selected}, IF sent THEN {} ELSE {selected})
            /\ defer' = [defer EXCEPT ![selected] = ~sent]
      BY <1>7, <2>2 DEF Check
    <3>2. c # selected => defer'[c] = defer[c]
      BY <1>T, <3>1
    <3> QED
      BY <1>K, <1>R, <1>W, <2>1, <3>1, <3>2
  <2>3. CASE ~(defer[selected] /\ state[selected] # "DOWN")
    BY <1>7, <1>R, <1>X, <2>1, <2>3 DEF Check
  <2> QED
    BY <2>2, <2>3
<1>8. CASE Copy
  <2>1. PICK n \in 0..Len(pend[selected]) :
          pend' = [pend EXCEPT ![selected] =
                     SubSeq(pend[selected], n + 1, Len(pend[selected]))]
    BY <1>8, CopyStep
  <2>2. UNCHANGED <<state, fin, defer>>
    BY <1>8 DEF Copy
  <2>3. c # selected => pend'[c] = pend[c]
    BY <1>T, <2>1
  <2>4. CASE \E lost : SendAcks({selected}, lost)
    BY <1>K, <1>R, <1>W, <2>2, <2>3, <2>4
  <2>5. CASE ~\E lost : SendAcks({selected}, lost)
    <3>1. UNCHANGED <<shut, told>>
      BY <1>8, <2>5 DEF Copy
    <3>2. CASE c = selected
      <4>1. fin[c] = 0 /\ shut[c] => CopyLength(c) # Len(pend[c])
        BY <1>8, <2>5, <3>2 DEF Copy, UpdateDue
      <4>2. CopyLength(c) # Len(pend[c]) => pend'[c] # <<>>
        <5>1. /\ pend[c] \in Seq(0..StreamLen) /\ Len(pend[c]) \in Nat
              /\ free \in Nat /\ Len(buf) \in Nat /\ Len(buf) <= free
          <6>1. pc # "idle"
            BY <1>8 DEF Copy
          <6>2. pend[c] \in Seq(0..StreamLen) /\ free \in Capacities \cup {0}
                /\ buf \in Seq(0..StreamLen) /\ Len(buf) <= free
            BY <1>T, <6>1 DEF TypeOK
          <6> QED
            BY <6>2
        <5> DEFINE m == CopyLength(c)
        <5>2. m \in 0..Len(pend[c])
          BY <5>1 DEF CopyLength, Least
        <5>3. pend'[c] = SubSeq(pend[c], m + 1, Len(pend[c]))
          BY <1>8, <1>T, <3>2 DEF Copy
        <5> HIDE DEF m
        <5>4. Len(pend'[c]) = Len(pend[c]) - m
          BY <5>1, <5>2, <5>3, Split
        <5>5. m # Len(pend[c]) => Len(pend'[c]) # 0
          BY <5>1, <5>2, <5>4
        <5> QED
          BY <5>5 DEF m
      <4> QED
        BY <1>R, <1>W, <2>2, <3>1, <4>1, <4>2
    <3> QED
      BY <1>R, <1>X, <2>2, <2>3, <3>1, <3>2
  <2> QED
    BY <2>4, <2>5
<1>9. CASE RecvReturn
  <2>1. /\ UNCHANGED <<state, fin, pend, defer>>
        /\ \E sent : SendOwedAck(OwedAtReturn, sent)
    BY <1>9 DEF RecvReturn, Returned, slotVars
  <2> QED
    BY <1>O, <1>R, <1>W, <2>1
<1>10. ASSUME NEW f \in Frames, FrameDirect(f)
       PROVE  Agree(c) /\ Opens(c)
  <2>1. /\ UNCHANGED <<state, fin, pend, defer>>
        /\ \E due, sent : SendOwedAck(due, sent)
    BY <1>10 DEF FrameDirect, slotVars
  <2> QED
    BY <1>O, <1>R, <1>W, <2>1
<1>11. ASSUME NEW d \in Channels, FrameIgnored({match, d}) \/ FrameReset(d)
       PROVE  Agree(c) /\ Opens(c)
  <2>1. /\ UNCHANGED <<fin, pend, defer>>
        /\ \E due, sent : SendOwedAck(due, sent)
        /\ state' = state \/ (state[d] = "OPEN" /\ state' = [state EXCEPT ![d] = "DOWN"])
    BY <1>11 DEF FrameIgnored, FrameReset, slotVars
  <2>2. state[c] # "FREE"
    BY <1>R, <1>T, <2>1
  <2> QED
    BY <1>O, <1>W, <2>1, <2>2
<1>12. ASSUME NEW f \in Frames, FrameStored(f)
       PROVE  Agree(c) /\ Opens(c)
  <2>1. PICK k \in 0..MSS, end \in {0, 1} :
          /\ fin' = [fin EXCEPT ![f.ch] = @ + end]
          /\ pend' = [pend EXCEPT ![f.ch] = @ \o Piece(rcvNxt[f.ch], k)]
    BY <1>12, StoredStep
  <2>2. /\ UNCHANGED <<state, defer>> /\ f.ch \in Channels
        /\ \E due, sent : SendOwedAck(due, sent)
    BY <1>12, FrameType DEF FrameStored
  <2>3. fin'[c] = 0 => fin[c] = 0
    <3>1. fin[c] \in {0, 1} /\ (fin'[c] = fin[c] \/ fin'[c] = fin[c] + end)
      BY <1>T, <2>1
    <3> QED
      BY <3>1
  <2>4. pend'[c] = <<>> => pend[c] = <<>>
    <3>1. CASE c = f.ch
      <4>1. pend'[c] = pend[c] \o Piece(rcvNxt[c], k)
        BY <1>T, <2>1, <3>1
      <4>2. pend[c] \in Seq(Nat) /\ Piece(rcvNxt[c], k) \in Seq(Nat)
        <5>1. rcvNxt[c] \in 1..(StreamLen + 2) /\ pend[c] \in Seq(0..StreamLen)
          BY <1>T DEF TypeOK
        <5>2. rcvNxt[c] \in Nat \ {0} /\ k \in Nat /\ 0..StreamLen \subseteq Nat
          BY <5>1
        <5> QED
          BY <5>1, <5>2, PieceType, SeqMonotonic
      <4>3. \A s, t \in Seq(Nat) : s \o t = <<>> => s = <<>>
        BY ConcatEqualIffEmpty
      <4> QED
        BY <4>1, <4>2, <4>3, ZenonT(60)
    <3>2. CASE c # f.ch
      BY <1>T, <2>1, <3>2
    <3> QED
      BY <3>1, <3>2
  <2>5. state[c] # "FREE" /\ (fin'[c] = 0 /\ shut[c] => pend'[c] # <<>> \/ defer'[c])
    BY <1>R, <1>W, <2>2, <2>3, <2>4
  <2> QED
    BY <1>O, <2>2, <2>5
<1>13. CASE ResumeSend
  <2>1. PICK lost \in SUBSET DeferredUpdates :
          /\ SendAcks(DeferredUpdates, lost)
          /\ defer' = [d \in Channels |-> defer[d] /\ d \notin DeferredUpdates \ lost]
    BY <1>13 DEF ResumeSend
  <2>2. UNCHANGED <<state, fin, pend>>
    BY <1>13 DEF ResumeSend, slotVars
  <2>3. c \notin DeferredUpdates => (defer[c] => defer'[c])
    BY <2>1
  <2> QED
    BY <1>K, <1>R, <1>W, <2>1, <2>2, <2>3
<1>14. ASSUME NEW d \in Channels, NEW m \in Capacities, RecvBuffered(d, m)
       PROVE  Agree(c) /\ Opens(c)
  <2>1. UNCHANGED <<state, fin, shut, told>> /\ defer' = [defer EXCEPT ![d] = TRUE]
        /\ (c # d => pend'[c] = pend[c])
    BY <1>14, <1>T DEF RecvBuffered
  <2>2. IF c = d THEN defer'[c] ELSE defer'[c] = defer[c]
    BY <1>T, <2>1
  <2> QED
    BY <1>R, <1>W, <2>1, <2>2
<1> QED
  BY <1>1, <1>2, <1>3, <1>5, <1>6, <1>7, <1>8, <1>9, <1>10, <1>11, <1>12, <1>13, <1>14
  DEF Next

----------------------------------------------------------------------------
(* The inductive invariant.                                                *)
LEMMA InvInit == Init => IInv
<1> SUFFICES ASSUME Init PROVE IInv
  OBVIOUS
<1> USE ConstAssumption
<1>1. <<>> \in Seq(0..StreamLen) /\ Len(<<>>) = 0 /\ <<>> \o <<>> = <<>>
  <2>1. <<>> \in Seq(0..StreamLen)
    BY EmptySeq
  <2> QED
    BY <2>1, EmptySeq, ConcatEmptySeq
<1>2. CtxType
  BY DEF Init, CtxType
<1>3. SlotType
  BY <1>1 DEF Init, SlotType
<1>4. CallType /\ AckType
  <2>1. CallType
    BY <1>1 DEF Init, CallType
  <2>2. AckType
    <3>1. match \in Channels /\ owed = 0 /\ direct = FALSE
      BY DEF Init
    <3>2. 0 \in 0..AckEvery
      OBVIOUS
    <3> QED
      BY <3>1, <3>2, Zenon DEF AckType
  <2> QED
    BY <2>1, <2>2
<1>5. PeerType
  <2>1. MSS * 1 \in 0..(MSS * MaxSegments)
    BY ProductBound
  <2>2. MSS * 1 = MSS
    OBVIOUS
  <2>3. [ack |-> 1, wnd |-> MSS, lost |-> FALSE]
          \in [ack : 1..(StreamLen + 2), wnd : 0..(MSS * MaxSegments), lost : BOOLEAN]
    BY <2>1, <2>2
  <2> QED
    BY <1>1, <2>3 DEF Init, PeerType
<1>6. CallInv
  BY DEF Init, CallInv
<1>7. SlotInv /\ WindowInv
  BY DEF Init, SlotInv, WindowInv
<1>8. StreamInv
  <2>1. Stream(0) = <<>>
    BY DEF Stream
  <2>2. ASSUME NEW c \in Channels
        PROVE  Acknowledged(c) = <<>> /\ rcvNxt[c] - 1 - fin[c] = 0
    BY <1>1 DEF Init, Acknowledged
  <2> QED
    BY <2>1, <2>2 DEF StreamInv
<1> QED
  BY <1>2, <1>3, <1>4, <1>5, <1>6, <1>7, <1>8, TypeParts DEF IInv

LEMMA InvStep == IInv /\ [Next]_vars => IInv'
<1> SUFFICES ASSUME IInv, [Next]_vars PROVE IInv'
  OBVIOUS
<1>0. TypeOK /\ CallInv /\ SlotInv /\ StreamInv /\ WindowInv
  BY DEF IInv
<1>1. CallInv' /\ SlotInv' /\ StreamInv'
  BY <1>0, CallStep, SlotStep, StreamStep
<1>2. TypeOK'
  BY <1>0, <1>1, TypeStep
<1>3. WindowInv'
  BY <1>0, <1>1, <1>2, WindowStep
<1> QED
  BY <1>1, <1>2, <1>3 DEF IInv

LEMMA Invariant == Spec => []IInv
BY InvInit, InvStep, PTL DEF Spec

(* A channel has one slot and a RECV one buffer, and none of the paths     *)
(* that fill them (RECV_COPY, the two halves of TCP_FAST_RECEIVE,          *)
(* HANDLE_SEGMENT) writes past its end.                                    *)
THEOREM TypeCorrect == Spec => []TypeOK
<1>1. IInv => TypeOK
  BY DEF IInv
<1> QED
  BY <1>1, Invariant, PTL

(* An acknowledged byte of an open channel is neither lost, repeated, out  *)
(* of place nor garbage, whichever of the three paths it took and in       *)
(* whichever call it came (StreamKept).                                    *)
THEOREM StreamIsKept == Spec => []StreamKept
<1>1. IInv => StreamKept
  <2> SUFFICES ASSUME IInv, NEW c \in Channels, state[c] = "OPEN"
               PROVE  Acknowledged(c) = [i \in 1..(rcvNxt[c] - 1 - fin[c]) |-> i]
    BY DEF StreamKept
  <2>1. Acknowledged(c) = Stream(rcvNxt[c] - 1 - fin[c])
    BY DEF IInv, StreamInv
  <2> QED
    BY <2>1 DEF Stream
<1> QED
  BY <1>1, Invariant, PTL

(* Between calls no peer is left silent on a window that nothing will open *)
(* (ShutWindowReopens).                                                    *)
THEOREM WindowReopens == Spec => []ShutWindowReopens
<1>1. IInv => ShutWindowReopens
  BY DEF IInv, WindowInv, ShutWindowReopens
<1> QED
  BY <1>1, Invariant, PTL

(* When RECV says CLOSED the application already has every byte of the     *)
(* peer's stream (EndAfterTheStream).                                      *)
THEOREM EndIsLast == Spec => []EndAfterTheStream
<1>1. IInv => EndAfterTheStream
  <2> SUFFICES ASSUME IInv, pc = "return", result = "CLOSED"
               PROVE  Len(app[selected]) = StreamLen /\ pend[selected] = <<>>
    BY DEF EndAfterTheStream
  <2>1. /\ buf = <<>> /\ pend[selected] = <<>> /\ fin[selected] = 1
        /\ state[selected] # "FREE" /\ selected \in Channels
        /\ app[selected] \in Seq(0..StreamLen)
    BY DEF IInv, CallInv, TypeOK
  <2>2. rcvNxt[selected] = StreamLen + 2
    BY <2>1 DEF IInv, SlotInv
  <2>3. Acknowledged(selected) = Stream(StreamLen)
    <3>1. Acknowledged(selected) = Stream(rcvNxt[selected] - 1 - fin[selected])
      BY <2>1 DEF IInv, StreamInv
    <3>2. rcvNxt[selected] - 1 - fin[selected] = StreamLen
      BY <2>1, <2>2, ConstAssumption
    <3> QED
      BY <3>1, <3>2
  <2>4. Acknowledged(selected) = app[selected]
    <3>1. \A s \in Seq(0..StreamLen) : s \o <<>> = s
      BY ConcatEmptySeq
    <3> QED
      BY <2>1, <3>1 DEF Acknowledged
  <2>5. Len(Stream(StreamLen)) = StreamLen
    BY ConstAssumption DEF Stream
  <2> QED
    BY <2>1, <2>3, <2>4, <2>5
<1> QED
  BY <1>1, Invariant, PTL

----------------------------------------------------------------------------
(* Every byte taken is acknowledged at once, or owed.  With one channel    *)
(* the last frame matched is on the channel that owes: SEND_OWED_ACK sends *)
(* on that context, and with two it may settle the wrong one's debt.       *)
LEMMA DebtStep ==
    ASSUME \A c, d \in Channels : c = d,
           TypeOK, TypeOK', CallInv, CallInv', SlotInv', DebtInv, [Next]_vars
    PROVE  DebtInv'
<1> USE ConstAssumption
<1> DEFINE Told(c) == told'[c].lost \/ told'[c].ack = rcvNxt'[c]
<1>T. /\ selected \in Channels /\ match' \in Channels
      /\ state \in [Channels -> {"OPEN", "DOWN", "FREE"}]
      /\ rcvNxt \in [Channels -> 1..(StreamLen + 2)]
      /\ owed \in 0..AckEvery /\ owed' \in 0..AckEvery
  BY DEF TypeOK
<1>N. owed \in Nat /\ owed' \in Nat
  BY <1>T
<1>D. \A c \in Channels :
        state[c] = "OPEN" => told[c].lost \/ told[c].ack = rcvNxt[c] \/ owed > 0
  BY DEF DebtInv
<1>P. /\ SlotType' /\ CallType' /\ rcvNxt' \in [Channels -> 1..(StreamLen + 2)]
      /\ free' > 0 => Len(buf') <= free'
  <2>1. CtxType' /\ SlotType' /\ CallType'
    BY TypeParts
  <2> QED
    BY <2>1 DEF CtxType, CallType, CallInv
<1>R. SUFFICES ASSUME NEW c \in Channels, state'[c] = "OPEN"
               PROVE  Told(c) \/ owed' > 0
  BY DEF DebtInv
<1>X. ASSUME state[c] = "OPEN", rcvNxt'[c] = rcvNxt[c], told'[c] = told[c], owed' >= owed
      PROVE  Told(c) \/ owed' > 0
  BY <1>D, <1>N, <1>X
<1>K. ASSUME NEW cs, NEW lost, SendAcks(cs, lost), state[c] = "OPEN"
      PROVE  /\ c \in cs => Told(c)
             /\ c \notin cs => told'[c] = told[c]
  BY <1>K, <1>P, AcksStep
<1>O. ASSUME NEW sent, state[c] = "OPEN"
      PROVE  /\ SendOwedAck(TRUE, sent) => Told(c)
             /\ SendOwedAck(FALSE, sent) => told'[c] = told[c]
             /\ SendOwedAck(owed > 0, sent) =>
                  IF owed > 0 THEN Told(c) ELSE told'[c] = told[c]
  <2>1. c = match'
    BY <1>T
  <2>2. \A lost : SendAcks({match'}, lost) => Told(c)
    BY <1>K, <1>O, <2>1
  <2>3. \A lost : SendAcks({}, lost) => told'[c] = told[c]
    BY <1>K, <1>O
  <2>4. SendOwedAck(TRUE, sent) => Told(c)
    BY <2>2 DEF SendOwedAck
  <2>5. SendOwedAck(FALSE, sent) => told'[c] = told[c]
    BY <2>3 DEF SendOwedAck
  <2>6. SendOwedAck(owed > 0, sent) => IF owed > 0 THEN Told(c) ELSE told'[c] = told[c]
    BY <2>2, <2>3 DEF SendOwedAck
  <2> QED
    BY <2>4, <2>5, <2>6
<1>1. ASSUME NEW d \in Channels, NEW n \in Capacities, NEW h \in {FALSE, Hiding}, Recv(d, n, h)
      PROVE  Told(c) \/ owed' > 0
  BY <1>1, <1>N, <1>R, <1>X DEF Recv, ctxVars
<1>2. CASE WaitEnds \/ Suspend \/ UNCHANGED vars
  BY <1>2, <1>N, <1>R, <1>X DEF WaitEnds, Suspend, vars, ctxVars, ackVars
<1>3. ASSUME NEW d \in Channels, Select(d) \/ FrameOversized(d)
      PROVE  Told(c) \/ owed' > 0
  <2>1. /\ UNCHANGED <<rcvNxt, told, owed>>
        /\ state' = state \/ state' = [state EXCEPT ![d] = "DOWN"]
    BY <1>3 DEF Select, FrameOversized, ctxVars, ackVars
  <2>2. state[c] = "OPEN"
    BY <1>R, <1>T, <2>1
  <2> QED
    BY <1>N, <1>X, <2>1, <2>2
<1>4. CASE RecvRelease
  <2>1. c = selected
    BY <1>T
  <2>2. state'[c] = "FREE"
    BY <1>4, <1>T, <2>1 DEF RecvRelease, Clear
  <2> QED
    BY <1>R, <2>2
<1>5. ASSUME NEW d \in Channels, Close(d)
      PROVE  Told(c) \/ owed' > 0
  <2>1. c = d
    OBVIOUS
  <2>2. state'[c] = "FREE"
    BY <1>5, <1>T, <2>1 DEF Close, Clear
  <2> QED
    BY <1>R, <2>2
<1>6. CASE Check
  <2>1. /\ UNCHANGED <<state, rcvNxt, owed>>
        /\ told' = told \/ \E cs, lost : SendAcks(cs, lost)
    BY <1>6 DEF Check, ackVars
  <2>2. Told(c) \/ told'[c] = told[c]
    BY <1>K, <1>R, <2>1
  <2> QED
    BY <1>N, <1>R, <1>X, <2>1, <2>2
<1>7. CASE Copy
  <2>1. /\ UNCHANGED <<state, rcvNxt>> /\ owed' \in {owed, owed + 1}
        /\ told' = told \/ \E cs, lost : SendAcks(cs, lost)
    BY <1>7 DEF Copy
  <2>2. Told(c) \/ told'[c] = told[c]
    BY <1>K, <1>R, <2>1
  <2> QED
    BY <1>N, <1>R, <1>X, <2>1, <2>2
<1>8. CASE RecvReturn
  <2>1. /\ UNCHANGED <<state, rcvNxt>> /\ owed' = 0
        /\ \E sent : SendOwedAck(owed > 0, sent)
    BY <1>8 DEF RecvReturn, Returned, OwedAtReturn
  <2>2. IF owed > 0 THEN Told(c) ELSE told'[c] = told[c]
    BY <1>O, <1>R, <2>1
  <2> QED
    BY <1>N, <1>R, <1>X, <2>1, <2>2
<1>9. ASSUME NEW f \in Frames, FrameDirect(f)
      PROVE  Told(c) \/ owed' > 0
  <2> DEFINE due == ~direct \/ owed + 1 >= AckEvery
  <2>1. /\ state' = state /\ owed' = IF due THEN 0 ELSE owed + 1
        /\ \E sent : SendOwedAck(due, sent)
    BY <1>9 DEF FrameDirect
  <2>2. CASE due
    <3>1. \E sent : SendOwedAck(TRUE, sent)
      BY <2>1, <2>2 DEF SendOwedAck
    <3> QED
      BY <1>O, <1>R, <2>1, <3>1
  <2>3. CASE ~due
    BY <1>N, <2>1, <2>3
  <2> QED
    BY <2>2, <2>3
<1>10. ASSUME NEW d \in Channels, FrameIgnored({match, d}) \/ FrameReset(d)
       PROVE  Told(c) \/ owed' > 0
  <2>1. /\ UNCHANGED rcvNxt /\ owed' = 0
        /\ \E sent : SendOwedAck(owed > 0, sent)
        /\ state' = state \/ state' = [state EXCEPT ![d] = "DOWN"]
    BY <1>10 DEF FrameIgnored, FrameReset
  <2>2. state[c] = "OPEN"
    BY <1>R, <1>T, <2>1
  <2>3. IF owed > 0 THEN Told(c) ELSE told'[c] = told[c]
    BY <1>O, <2>1, <2>2
  <2> QED
    BY <1>N, <1>X, <2>1, <2>2, <2>3
<1>11. ASSUME NEW f \in Frames, FrameStored(f)
       PROVE  Told(c) \/ owed' > 0
  <2>1. PICK k \in 0..MSS, end \in {0, 1} :
          /\ rcvNxt' = [rcvNxt EXCEPT ![f.ch] = @ + k + end]
          /\ k + end > 0 \/ owed > 0 => \E sent \in Outcomes : SendOwedAck(TRUE, sent)
          /\ k + end = 0 /\ owed = 0 => \/ SendOwedAck(FALSE, TRUE)
                                        \/ \E sent \in Outcomes : SendOwedAck(TRUE, sent)
    BY <1>11, StoredStep
  <2>2. state' = state /\ owed' = 0 /\ f.ch \in Channels
    BY <1>11, FrameType DEF FrameStored
  <2>3. (\E sent : SendOwedAck(TRUE, sent)) => Told(c)
    BY <1>O, <1>R, <2>2
  <2>4. SendOwedAck(FALSE, TRUE) => told'[c] = told[c]
    BY <1>O, <1>R, <2>2
  <2>5. k + end = 0 => rcvNxt'[c] = rcvNxt[c]
    <3>1. c = f.ch /\ rcvNxt[c] \in 1..(StreamLen + 2)
      BY <1>T, <2>2
    <3>2. rcvNxt'[c] = rcvNxt[c] + k + end
      BY <1>T, <2>1, <3>1
    <3>3. k \in Nat /\ end \in Nat /\ rcvNxt[c] \in Nat
      BY <3>1
    <3> QED
      BY <3>2, <3>3
  <2>6. CASE k + end > 0 \/ owed > 0
    BY <2>1, <2>3, <2>6
  <2>7. CASE k + end = 0 /\ owed = 0
    <3>1. Told(c) \/ told'[c] = told[c]
      BY <2>1, <2>3, <2>4, <2>7
    <3>2. state[c] = "OPEN" /\ rcvNxt'[c] = rcvNxt[c] /\ owed' >= owed
      BY <1>R, <2>2, <2>5, <2>7
    <3> QED
      BY <1>X, <3>1, <3>2
  <2>8. k \in Nat /\ end \in Nat
    OBVIOUS
  <2> QED
    BY <1>N, <2>6, <2>7, <2>8
<1>12. CASE ResumeSend
  <2>1. /\ UNCHANGED <<state, rcvNxt, owed>>
        /\ \E cs, lost : SendAcks(cs, lost)
    BY <1>12 DEF ResumeSend, ackVars
  <2>2. Told(c) \/ told'[c] = told[c]
    BY <1>K, <1>R, <2>1
  <2> QED
    BY <1>N, <1>R, <1>X, <2>1, <2>2
<1>13. ASSUME NEW d \in Channels, NEW m \in Capacities, RecvBuffered(d, m)
       PROVE  Told(c) \/ owed' > 0
  BY <1>13, <1>N, <1>R, <1>X DEF RecvBuffered, ackVars
<1> QED
  BY <1>1, <1>2, <1>3, <1>4, <1>5, <1>6, <1>7, <1>8, <1>9, <1>10, <1>11, <1>12, <1>13
  DEF Next

(* tcp.inc:137, "the debt is settled in full before RECV returns", holds   *)
(* for a caller with one channel (DebtSettled): between calls its peer was *)
(* told all that was taken, unless the card lost the ACK.  With the two    *)
(* channels of TcpReceiveTwo.cfg TLC finds the promise broken.             *)
THEOREM DebtIsSettled ==
    ASSUME \A c, d \in Channels : c = d
    PROVE  Spec => []DebtSettled
<1>1. Init => DebtInv
  BY ConstAssumption DEF Init, DebtInv
<1>2. IInv /\ IInv' /\ DebtInv /\ [Next]_vars => DebtInv'
  BY DebtStep DEF IInv
<1>3. IInv /\ DebtInv => DebtSettled
  BY DEF IInv, CallInv, DebtInv, DebtSettled
<1> QED
  BY <1>1, <1>2, <1>3, Invariant, PTL DEF Spec
=============================================================================
