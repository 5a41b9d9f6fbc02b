------------------------- MODULE UnetChannelsProofs -------------------------
(***************************************************************************)
(* Proofs about the channels of the DLL for every number of remotes and of *)
(* attempts: types, the suspended SEND and the answered CLOSE with every   *)
(* fault of card and peer; that a call leaves the other channel alone, and *)
(* that the shim's table agrees with the TCP contexts, as far as CONNECT   *)
(* lets them (ConnectAssumption, TableAssumption).                         *)
(***************************************************************************)
EXTENDS UnetChannels, TLAPS

----------------------------------------------------------------------------
\* The parts of TypeOK.

ShimType ==
    /\ chState \in [Channels -> {"FREE", "TCP", "UDP", "LISTENING"}]
    /\ listener \in Channels \cup {None} /\ accepted \in BOOLEAN
    /\ pend \in Channels \cup {None}
CtxType ==
    /\ state \in [Channels -> States] /\ event \in [Channels -> SUBSET Events]
    /\ remote \in [Channels -> Remotes \cup {None}]
    /\ fin \in [Channels -> BOOLEAN] /\ flight \in [Channels -> BOOLEAN]
CallType ==
    /\ pc \in {"idle", "open", "accept", "recv", "send", "close"} /\ {sel, ix} \subseteq Channels
    /\ wait \in {"polling", "TIMEOUT", "CANCEL", "HW", "PROTOCOL"}
    /\ retry \in (IF pc = "open" THEN 1..SynAttempts
                  ELSE IF pc = "close" THEN 1..CloseAttempts ELSE {0})
    /\ rest \subseteq Channels
PeerType ==
    /\ peer \in [Remotes -> {"none", "syn", "open", "half", "gone"}]
    /\ heard \subseteq Remotes
Kinds == {"SYN", "SYNACK", "FIN"}
SentType == sent \subseteq Remotes \X Kinds

Types == ShimType /\ CtxType /\ CallType /\ PeerType /\ SentType

LEMMA TypeParts == (TypeOK <=> Types) /\ (TypeOK' <=> Types')
BY DEF TypeOK, Types, ShimType, CtxType, CallType, PeerType, SentType, Kinds

\* A context that talks to somebody knows to whom; what CONNECT opens or CLOSE waits
\* for is never a listening context.
RemoteInv ==
    /\ \A c \in Channels : state[c] \notin {"CLOSED", "LISTEN"} => remote[c] \in Remotes
    /\ pc \in {"open", "close"} =>
         remote[sel] \in Remotes /\ state[sel] \notin {"LISTEN", "SYN_RECEIVED"}
    /\ pc = "close" => state[sel] \in {"FIN_WAIT", "CLOSED"}

\* A SEND is suspended only while no call is in progress, NETDONE's included, which
\* itself makes no call but CLOSE.
PendInv ==
    /\ pend # None => pc = "idle" /\ rest = {}
    /\ rest # {} => pc \in {"idle", "close"}

\* In CLOSE's wait every event is of this FIN, or of a peer that has ended its side.
CloseInv ==
    pc = "close" =>
        /\ "ACK" \in event[sel] =>
             remote[sel] \in heard \/ peer[remote[sel]] \in {"half", "gone"}
        /\ event[sel] \cap {"FIN", "RST"} # {} => peer[remote[sel]] \in {"half", "gone"}

IInv == TypeOK /\ RemoteInv /\ PendInv /\ CloseInv

----------------------------------------------------------------------------
\* Types of what the actions share.

LEMMA ContextType ==
    ASSUME CtxType, NEW c \in Channels, NEW st \in States, NEW ev \in SUBSET Events,
           NEW a \in Remotes \cup {None}, NEW f \in BOOLEAN, Context(c, st, ev, a, f)
    PROVE  CtxType'
BY DEF CtxType, Context

LEMMA LeftType ==
    ASSUME SentType, NEW a \in Remotes, NEW kind \in Kinds, NEW left, Left(a, kind, left)
    PROVE  SentType'
BY DEF SentType, Left

LEMMA ClearedType ==
    ASSUME CtxType, NEW c \in Channels, Cleared(c) \/ Listening(c)
    PROVE  CtxType'
<1>1. {"CLOSED", "LISTEN"} \subseteq States /\ {} \in SUBSET Events
  BY DEF States
<1> QED
  BY <1>1, ContextType DEF Cleared, Listening

LEMMA ReleasedType ==
    ASSUME ShimType, CtxType, NEW c \in Channels, Released(c)
    PROVE  /\ CtxType' /\ chState' \in [Channels -> {"FREE", "TCP", "UDP", "LISTENING"}]
           /\ listener' \in Channels \cup {None} /\ accepted' \in BOOLEAN
<1>1. CASE Rearms(c)
  <2>1. listener \in Channels
    BY <1>1 DEF Rearms
  <2> QED
    BY <1>1, <2>1, ClearedType DEF Released, ShimType
<1>2. CASE ~Rearms(c)
  BY <1>2, ClearedType DEF Released, ShimType
<1> QED
  BY <1>1, <1>2

LEMMA CloseChannelType ==
    ASSUME IInv, pc = "idle", NEW c \in Channels, NEW rs \in SUBSET Channels,
           CloseChannel(c, rs), UNCHANGED <<pend, peerVars>>
    PROVE  Types'
<1>T. ShimType /\ CtxType /\ CallType /\ PeerType /\ SentType
  BY TypeParts DEF IInv, Types
<1> USE DEF Types
<1>1. CASE chState[c] = "LISTENING"
  <2>1. CtxType'
    BY <1>T, <1>1, ClearedType DEF CloseChannel
  <2> QED
    BY <1>T, <1>1, <2>1 DEF CloseChannel, Selects, Unarmed, ShimType, CallType, PeerType,
                            SentType, peerVars
<1>2. CASE chState[c] # "LISTENING" /\ Released(c) /\ UNCHANGED <<pc, wait, retry, sent>>
  <2>1. ShimType' /\ CtxType'
    BY <1>T, <1>2, ReleasedType DEF ShimType
  <2> QED
    BY <1>T, <1>2, <2>1 DEF CloseChannel, Selects, CallType, PeerType, SentType, peerVars
<1>3. CASE /\ chState[c] # "LISTENING" /\ state[c] \in {"ESTABLISHED", "CLOSE_WAIT"}
           /\ Context(c, "FIN_WAIT", EventsForClose, remote[c], fin[c])
           /\ pc' = "close" /\ retry' = CloseAttempts
           /\ \E left \in Outcomes :
                Left(remote[c], "FIN", left) /\ wait' = IF left THEN "polling" ELSE "HW"
           /\ UNCHANGED <<chState, listener, accepted>>
  <2>1. remote[c] \in Remotes /\ fin[c] \in BOOLEAN /\ remote[c] \in Remotes \cup {None}
    BY <1>T, <1>3 DEF IInv, RemoteInv, CtxType
  <2>2. CtxType'
    <3>1. EventsForClose \in SUBSET Events /\ "FIN_WAIT" \in States
      BY <1>T DEF EventsForClose, CloseChannel, Selects, CtxType, States
    <3> QED
      BY <1>T, <1>3, <2>1, <3>1, ContextType
  <2>3. SentType'
    <3>1. "FIN" \in Kinds
      BY DEF Kinds
    <3> QED
      BY <1>T, <1>3, <2>1, <3>1, LeftType
  <2>4. CloseAttempts \in 1..CloseAttempts
    BY ConstAssumption
  <2> QED
    BY <1>T, <1>3, <2>2, <2>3, <2>4 DEF CloseChannel, Selects, ShimType, CallType, PeerType,
                                         peerVars
<1> QED
  BY <1>1, <1>2, <1>3 DEF CloseChannel

LEMMA OutcomesType == Outcomes \subseteq BOOLEAN
BY DEF Outcomes

LEMMA InitType == Init => IInv
<1> SUFFICES ASSUME Init PROVE IInv
  OBVIOUS
<1>1. TypeOK
  <2>1. ShimType /\ CallType
    BY DEF Init, ShimType, CallType, Channels
  <2>2. CtxType
    BY DEF Init, CtxType, States
  <2>3. PeerType /\ SentType
    BY DEF Init, PeerType, SentType
  <2> QED
    BY <2>1, <2>2, <2>3, TypeParts DEF Types
<1>2. RemoteInv
  BY DEF Init, RemoteInv
<1> QED
  BY <1>1, <1>2 DEF IInv, Init, PendInv, CloseInv

----------------------------------------------------------------------------
\* Types: the calls, their steps, the frames.

LEMMA TypeCalls ==
    ASSUME IInv, Calls
    PROVE  TypeOK'
<1>T. ShimType /\ CtxType /\ CallType /\ PeerType /\ SentType
  BY TypeParts DEF IInv, Types
<1>C. SynAttempts \in 1..SynAttempts /\ CloseAttempts \in 1..CloseAttempts
  BY ConstAssumption
<1> SUFFICES Types'
  BY TypeParts
<1> USE DEF Types
<1>1. ASSUME NEW c \in Channels, Listen(c) PROVE Types'
  <2>1. CtxType'
    BY <1>T, <1>1, ClearedType DEF Listen
  <2> QED
    BY <1>T, <1>1, <2>1
       DEF Listen, ShimType, CallType, PeerType, SentType, Selects, peerVars
<1>2. ASSUME NEW c \in Channels, Unlisten(c) PROVE Types'
  <2>1. CtxType'
    BY <1>T, <1>2, ClearedType DEF Unlisten, CtxType, ctxVars
  <2> QED
    BY <1>T, <1>2, <2>1
       DEF Unlisten, Unarmed, ShimType, CallType, PeerType, SentType, Selects, peerVars
<1>3. ASSUME NEW c \in Channels, UdpOpen(c) PROVE Types'
  BY <1>T, <1>3
     DEF UdpOpen, ShimType, CtxType, CallType, PeerType, SentType, ctxVars, callVars,
         peerVars
<1>4. ASSUME NEW c \in Channels, NEW a \in Servers, Connect(c, a)
      PROVE  Types'
  <2>1. CtxType'
    <3>1. "SYN_SENT" \in States /\ {} \in SUBSET Events /\ a \in Remotes \cup {None}
      BY DEF States, Remotes
    <3> QED
      BY <1>T, <1>4, <3>1, ContextType DEF Connect
  <2>2. SentType'
    <3>1. a \in Remotes /\ "SYN" \in Kinds
      BY DEF Remotes, Kinds
    <3> QED
      BY <1>T, <1>4, <3>1, LeftType DEF Connect
  <2> QED
    BY <1>T, <1>C, <1>4, <2>1, <2>2
       DEF Connect, NotBusy, ShimType, CallType, PeerType, Selects, shimVars, peerVars
<1>5. ASSUME NEW c \in Channels, RecvListen(c) \/ Recv(c) PROVE Types'
  <2>1. CtxType'
    BY <1>T, <1>5 DEF RecvListen, Recv, CtxType
  <2> QED
    BY <1>T, <1>5, <2>1
       DEF RecvListen, Recv, NotBusy, ShimType, CallType, PeerType, SentType, Selects,
           shimVars, peerVars
<1>6. ASSUME NEW c \in Channels, Send(c) PROVE Types'
  BY <1>T, <1>6
     DEF Send, ShimType, CtxType, CallType, PeerType, SentType, Selects, peerVars
<1>7. ASSUME NEW c \in Channels, Close(c) PROVE Types'
  <2>1. {} \in SUBSET Channels
    OBVIOUS
  <2> QED
    BY <1>7, <2>1, CloseChannelType DEF Close, NotBusy
<1>8. CASE CloseSuspended
  <2>1. pend \in Channels /\ sel' = pend
    BY <1>T, <1>8 DEF CloseSuspended, ShimType, Selects
  <2>2. CtxType' /\ chState' \in [Channels -> {"FREE", "TCP", "UDP", "LISTENING"}]
        /\ listener' \in Channels \cup {None} /\ accepted' \in BOOLEAN
    BY <1>T, <1>8, <2>1, ReleasedType DEF CloseSuspended
  <2> QED
    BY <1>T, <1>8, <2>1, <2>2
       DEF CloseSuspended, Selects, ShimType, CallType, PeerType, SentType, peerVars
<1>9. CASE Netdone
  BY <1>T, <1>9
     DEF Netdone, Unarmed, NotBusy, ShimType, CtxType, CallType, PeerType, SentType,
         ctxVars, peerVars
<1>10. CASE Netinit
  <2>1. CtxType'
    BY <1>T, <1>10 DEF Netinit, CtxType, States
  <2> QED
    BY <1>T, <1>10, <2>1
       DEF Netinit, Unarmed, NotBusy, Selects, Channels, ShimType, CallType, PeerType,
           SentType, peerVars
<1> QED
  BY <1>1, <1>2, <1>3, <1>4, <1>5, <1>6, <1>7, <1>8, <1>9, <1>10 DEF Calls

LEMMA TypeCallSteps ==
    ASSUME IInv, CallSteps
    PROVE  TypeOK'
<1>T. ShimType /\ CtxType /\ CallType /\ PeerType /\ SentType
  BY TypeParts DEF IInv, Types
<1>S. sel \in Channels /\ ix \in Channels
  BY <1>T DEF CallType
<1>C. SynAttempts \in Nat /\ CloseAttempts \in Nat
  BY ConstAssumption
<1> SUFFICES Types'
  BY TypeParts
<1> USE DEF Types
<1>1. CASE SynRetry
  <2>1. SentType'
    <3>1. remote[sel] \in Remotes /\ "SYN" \in Kinds
      BY <1>1 DEF SynRetry, IInv, RemoteInv, Kinds
    <3> QED
      BY <1>T, <1>1, <3>1, LeftType DEF SynRetry
  <2>2. CtxType'
    BY <1>T, <1>1, <1>S DEF SynRetry, CtxType
  <2>3. CallType'
    BY <1>T, <1>C, <1>1 DEF SynRetry, CallType, Counted
  <2> QED
    BY <1>T, <1>1, <2>1, <2>2, <2>3 DEF SynRetry, ShimType, PeerType, shimVars, peerVars
<1>2. CASE OpenFails \/ AcceptIdle
  <2>1. CtxType'
    BY <1>T, <1>2, <1>S DEF OpenFails, AcceptIdle, CtxType, States
  <2> QED
    BY <1>T, <1>2, <2>1
       DEF OpenFails, AcceptIdle, CallReturns, ShimType, CallType, PeerType, SentType,
           shimVars, peerVars
<1>3. CASE OpenSucceeds \/ Accept
  <2>1. CtxType'
    BY <1>T, <1>3, <1>S DEF OpenSucceeds, Accept, CtxType
  <2>2. ShimType'
    BY <1>T, <1>3, <1>S DEF OpenSucceeds, Accept, ShimType
  <2> QED
    BY <1>T, <1>3, <2>1, <2>2
       DEF OpenSucceeds, Accept, CallReturns, CallType, PeerType, SentType, peerVars
<1>4. CASE RecvReleases \/ SendReset \/ CloseReturns
  <2>1. CtxType' /\ ShimType'
    BY <1>T, <1>S, <1>4, ReleasedType
       DEF RecvReleases, SendReset, CloseReturns, ShimType, SelectedContext
  <2> QED
    BY <1>T, <1>4, <2>1
       DEF RecvReleases, SendReset, CloseReturns, CallReturns, CallType, PeerType, SentType,
           peerVars
<1>5. CASE RecvReturns
  BY <1>T, <1>5 DEF RecvReturns, CallReturns, ShimType, CtxType, CallType, PeerType, SentType,
                    shimVars, ctxVars, peerVars
<1>6. CASE SendReturns
  BY <1>T, <1>S, <1>6
     DEF SendReturns, CallReturns, ShimType, CtxType, CallType, PeerType, SentType, peerVars
<1>7. CASE NetdoneNext
  <2>1. PICK c \in rest : CloseChannel(c, rest \ {c})
    BY <1>7 DEF NetdoneNext
  <2>2. c \in Channels /\ rest \ {c} \in SUBSET Channels
    BY <1>T DEF CallType
  <2> QED
    BY <1>7, <2>1, <2>2, CloseChannelType DEF NetdoneNext
<1>8. CASE FinRetry
  <2>1. SentType'
    <3>1. remote[sel] \in Remotes /\ "FIN" \in Kinds
      BY <1>8 DEF FinRetry, IInv, RemoteInv, Kinds
    <3> QED
      BY <1>T, <1>8, <3>1, LeftType DEF FinRetry
  <2>2. CallType'
    BY <1>T, <1>C, <1>8 DEF FinRetry, CallType, Counted
  <2> QED
    BY <1>T, <1>8, <2>1, <2>2 DEF FinRetry, ShimType, CtxType, PeerType, shimVars, ctxVars,
                                  peerVars
<1> QED
  BY <1>1, <1>2, <1>3, <1>4, <1>5, <1>6, <1>7, <1>8 DEF CallSteps

\* What the frames have in common.
LEMMA FrameType ==
    ASSUME IInv, Frame
    PROVE  TypeOK'
<1>T. ShimType /\ CtxType /\ CallType /\ PeerType /\ SentType
  BY TypeParts DEF IInv, Types
<1> SUFFICES Types'
  BY TypeParts
<1> USE DEF Types
<1>R. ASSUME NEW c \in Channels, NEW left, Replied(c, left) \/ (wait' = "PROTOCOL" /\ ix' = c)
                \/ UNCHANGED <<wait, ix>>,
             FrameEffect, CtxType', SentType'
      PROVE  Types'
  BY <1>T, <1>R DEF Replied, FrameEffect, ShimType, CallType, PeerType, shimVars, peerVars
<1>1. ASSUME NEW c \in Channels, NEW a \in Clients, FrameSyn(c, a) PROVE Types'
  <2>1. a \in Remotes /\ "SYN_RECEIVED" \in States /\ event[c] \in SUBSET Events
        /\ "SYNACK" \in Kinds /\ FALSE \in BOOLEAN /\ a \in Remotes \cup {None}
    BY <1>T DEF Remotes, States, CtxType, Kinds
  <2>2. CtxType'
    BY <1>T, <1>1, <2>1, ContextType DEF FrameSyn
  <2>3. SentType'
    BY <1>T, <1>1, <2>1, LeftType DEF FrameSyn
  <2> QED
    BY <1>1, <1>R, <2>2, <2>3 DEF FrameSyn
<1>2. ASSUME NEW c \in Channels, NEW a \in Servers, FrameSynAck(c, a) PROVE Types'
  <2>1. a \in Remotes \cup {None} /\ "ESTABLISHED" \in States
        /\ event[c] \cup {"SYN_ACK", "ACK"} \in SUBSET Events
    BY <1>T DEF Remotes, States, CtxType, Events
  <2>2. CtxType'
    BY <1>T, <1>2, <2>1, ContextType DEF FrameSynAck
  <2> QED
    BY <1>T, <1>2, <1>R, <2>2 DEF FrameSynAck, SentType
<1>3. ASSUME NEW c \in Channels, NEW a \in Remotes, NEW hasFin \in BOOLEAN, NEW acks \in BOOLEAN,
             FrameSegment(c, a, hasFin, acks)
      PROVE  Types'
  <2>1. CtxType'
    BY <1>T, <1>3 DEF FrameSegment, CtxType, States
  <2> QED
    BY <1>T, <1>3, <1>R, <2>1 DEF FrameSegment, SentType
<1>4. ASSUME NEW c \in Channels, NEW a \in Remotes, FrameRst(c, a) \/ FrameOversized(c, a)
      PROVE  Types'
  <2>1. /\ {"LISTEN", "CLOSED"} \subseteq States /\ {a, None} \subseteq Remotes \cup {None}
        /\ {"RST"} \in SUBSET Events /\ event[c] \cup {"RST"} \in SUBSET Events
        /\ event[c] \in SUBSET Events /\ event[c] \cup {"SYN_ACK"} \in SUBSET Events
        /\ fin[c] \in BOOLEAN /\ FALSE \in BOOLEAN
    BY <1>T DEF States, Events, CtxType
  <2>2. CtxType'
    BY <1>T, <1>4, <2>1, ContextType DEF FrameRst, FrameOversized
  <2> QED
    BY <1>T, <1>4, <1>R, <2>2 DEF FrameRst, FrameOversized, SentType
<1>5. ASSUME NEW c \in Channels, FrameStrayRst(c) PROVE Types'
  <2>1. "CLOSED" \in States /\ event[c] \cup {"RST"} \in SUBSET Events
        /\ None \in Remotes \cup {None} /\ FALSE \in BOOLEAN
    BY <1>T DEF States, Events, CtxType
  <2>2. CtxType'
    BY <1>T, <1>5, <2>1, ContextType DEF FrameStrayRst
  <2> QED
    BY <1>T, <1>5, <1>R, <2>2 DEF FrameStrayRst, SentType
<1> QED
  BY <1>1, <1>2, <1>3, <1>4, <1>5 DEF Frame

LEMMA TypeStep ==
    ASSUME IInv, [Next]_vars
    PROVE  TypeOK'
<1>T. ShimType /\ CtxType /\ CallType /\ PeerType /\ SentType
  BY TypeParts DEF IInv, Types
<1>1. CASE WaitEnds
  BY <1>T, <1>1, TypeParts
     DEF WaitEnds, Types, ShimType, CtxType, CallType, PeerType, SentType, shimVars,
         ctxVars,
         peerVars
<1>2. CASE Environment
  <2>1. UNCHANGED <<shimVars, ctxVars, callVars>>
    BY <1>2 DEF Environment, PeerCalls, PeerOpens, PeerHearsFin, PeerFinishes, PeerGoes
  <2>2. SentType'
    BY <1>T, <1>2 DEF Environment, PeerCalls, PeerOpens, PeerHearsFin, PeerFinishes, PeerGoes,
                      SentType
  <2>3. PeerType'
    BY <1>T, <1>2 DEF Environment, PeerCalls, PeerOpens, PeerHearsFin, PeerFinishes, PeerGoes,
                      PeerType, Remotes
  <2>4. ShimType' /\ CtxType' /\ CallType'
    BY <1>T, <2>1 DEF ShimType, CtxType, CallType, shimVars, ctxVars, callVars
  <2> QED
    BY <2>2, <2>3, <2>4, TypeParts DEF Types
<1>3. CASE UNCHANGED vars
  BY <1>T, <1>3, TypeParts
     DEF vars, Types, ShimType, CtxType, CallType, PeerType, SentType, shimVars, ctxVars,
         callVars, peerVars
<1> QED
  BY <1>1, <1>2, <1>3, TypeCalls, TypeCallSteps, FrameType DEF Next

----------------------------------------------------------------------------
\* The other parts of IInv.

LEMMA FramesOnlyTouchContexts == Frame => FrameEffect
<1>1. \A c \in Channels, a \in Clients : FrameSyn(c, a) => FrameEffect
  BY DEF FrameSyn
<1>2. \A c \in Channels, a \in Servers : FrameSynAck(c, a) => FrameEffect
  BY DEF FrameSynAck
<1>3. \A c \in Channels, a \in Remotes, hasFin, acks \in BOOLEAN :
        FrameSegment(c, a, hasFin, acks) => FrameEffect
  BY DEF FrameSegment
<1>4. \A c \in Channels, a \in Remotes : FrameRst(c, a) \/ FrameOversized(c, a) => FrameEffect
  BY DEF FrameRst, FrameOversized
<1>5. \A c \in Channels : FrameStrayRst(c) => FrameEffect
  BY DEF FrameStrayRst
<1> QED
  BY <1>1, <1>2, <1>3, <1>4, <1>5 DEF Frame

LEMMA FramesNeedAPoll == Frame => Polling
<1>1. \A c \in Channels, a \in Clients : FrameSyn(c, a) => Polling
  BY DEF FrameSyn
<1>2. \A c \in Channels, a \in Servers : FrameSynAck(c, a) => Polling
  BY DEF FrameSynAck
<1>3. \A c \in Channels, a \in Remotes, hasFin, acks \in BOOLEAN :
        FrameSegment(c, a, hasFin, acks) => Polling
  BY DEF FrameSegment
<1>4. \A c \in Channels, a \in Remotes : FrameRst(c, a) \/ FrameOversized(c, a) => Polling
  BY DEF FrameRst, FrameOversized
<1>5. \A c \in Channels : FrameStrayRst(c) => Polling
  BY DEF FrameStrayRst
<1> QED
  BY <1>1, <1>2, <1>3, <1>4, <1>5 DEF Frame

LEMMA RstCases ==
    ASSUME NEW c \in Channels, NEW a \in Remotes, FrameRst(c, a)
    PROVE  /\ Polling /\ Matches(c, a) /\ peer[a] = "gone" /\ FrameEffect
           /\ state[c] = "SYN_RECEIVED" => Context(c, "LISTEN", {"RST"}, None, FALSE)
           /\ state[c] # "SYN_RECEIVED" =>
                Context(c, "CLOSED", event[c] \cup {"RST"}, a, fin[c])
BY DEF FrameRst

LEMMA EnvironmentLeavesCalls ==
    Environment => UNCHANGED <<shimVars, ctxVars, callVars>>
BY DEF Environment, PeerCalls, PeerOpens, PeerHearsFin, PeerFinishes, PeerGoes

LEMMA PendStep ==
    ASSUME IInv, [Next]_vars
    PROVE  PendInv'
<1> USE DEF IInv, PendInv
<1>1. CASE Calls
  BY <1>1 DEF Calls, Listen, Unlisten, UdpOpen, Connect, RecvListen, Recv, Send, Close,
              CloseSuspended, Netdone, Netinit, NotBusy, CloseChannel, callVars, shimVars
<1>2. CASE CallSteps
  BY <1>2 DEF CallSteps, SynRetry, OpenFails, OpenSucceeds, AcceptIdle, Accept, RecvReleases,
              RecvReturns, SendReturns, SendReset, NetdoneNext, FinRetry, CloseReturns,
              CallReturns, CloseChannel, shimVars
<1>3. CASE Frame
  BY <1>3, FramesOnlyTouchContexts DEF FrameEffect, shimVars
<1>4. CASE WaitEnds \/ UNCHANGED vars
  BY <1>4 DEF WaitEnds, vars, shimVars, callVars
<1>5. CASE Environment
  BY <1>5, EnvironmentLeavesCalls DEF shimVars, callVars
<1> QED
  BY <1>1, <1>2, <1>3, <1>4, <1>5 DEF Next

LEMMA RemoteStep ==
    ASSUME IInv, [Next]_vars
    PROVE  RemoteInv'
<1>T. CtxType /\ CallType /\ ShimType
  BY TypeParts DEF IInv, Types
<1>S. sel \in Channels /\ ix \in Channels
  BY <1>T DEF CallType
<1> USE DEF IInv, RemoteInv, CtxType
<1>K. ASSUME NEW c \in Channels, Cleared(c) \/ Listening(c), pc' \notin {"open", "close"}
      PROVE  RemoteInv'
  BY <1>T, <1>K DEF Cleared, Listening, Context
<1>L. ASSUME NEW c \in Channels, Released(c), pc' \notin {"open", "close"}
      PROVE  RemoteInv'
  <2>1. Rearms(c) => listener \in Channels
    BY DEF Rearms
  <2> QED
    BY <1>K, <1>L, <2>1 DEF Released
<1>M. ASSUME NEW c \in Channels, NEW rs, CloseChannel(c, rs), pc = "idle" PROVE RemoteInv'
  <2>1. CASE chState[c] = "LISTENING"
    BY <1>K, <1>M, <2>1 DEF CloseChannel
  <2>2. CASE Released(c) /\ UNCHANGED pc
    BY <1>L, <1>M, <2>2
  <2>3. CASE /\ state[c] \in {"ESTABLISHED", "CLOSE_WAIT"} /\ Selects(c) /\ pc' = "close"
             /\ Context(c, "FIN_WAIT", EventsForClose, remote[c], fin[c])
    BY <1>T, <2>3 DEF Context, Selects
  <2> QED
    BY <1>M, <2>1, <2>2, <2>3 DEF CloseChannel
<1>1. CASE Calls
  <2>1. ASSUME NEW c \in Channels, Listen(c) \/ Unlisten(c) PROVE RemoteInv'
    BY <1>K, <2>1 DEF Listen, Unlisten, NotBusy, ctxVars
  <2>2. ASSUME NEW c \in Channels, NEW a \in Servers, Connect(c, a) PROVE RemoteInv'
    BY <1>T, <2>2 DEF Connect, Context, Selects, Remotes
  <2>3. ASSUME NEW c \in Channels, UdpOpen(c) \/ RecvListen(c) \/ Recv(c) \/ Send(c)
        PROVE  RemoteInv'
    BY <1>T, <2>3 DEF UdpOpen, RecvListen, Recv, Send, NotBusy, ctxVars, callVars
  <2>4. ASSUME NEW c \in Channels, Close(c) PROVE RemoteInv'
    BY <1>M, <2>4 DEF Close, NotBusy
  <2>5. CASE CloseSuspended
    <3>1. pend \in Channels
      BY <1>T, <2>5 DEF CloseSuspended, ShimType
    <3> QED
      BY <1>L, <2>5, <3>1 DEF CloseSuspended
  <2>6. CASE Netdone \/ Netinit
    BY <1>T, <2>6 DEF Netdone, Netinit, NotBusy, ctxVars
  <2> QED
    BY <1>1, <2>1, <2>2, <2>3, <2>4, <2>5, <2>6 DEF Calls
<1>2. CASE CallSteps
  <2>1. CASE SynRetry \/ FinRetry
    BY <1>T, <2>1 DEF SynRetry, FinRetry, ctxVars
  <2>2. CASE OpenFails \/ OpenSucceeds \/ AcceptIdle \/ Accept \/ RecvReturns \/ SendReturns
    BY <1>T, <1>S, <2>2 DEF OpenFails, OpenSucceeds, AcceptIdle, Accept, RecvReturns,
                            SendReturns, CallReturns, ctxVars
  <2>3. CASE RecvReleases \/ SendReset \/ CloseReturns
    BY <1>L, <1>S, <2>3 DEF RecvReleases, SendReset, CloseReturns, CallReturns, SelectedContext
  <2>4. CASE NetdoneNext
    BY <1>T, <1>M, <2>4 DEF NetdoneNext, CallType
  <2> QED
    BY <1>2, <2>1, <2>2, <2>3, <2>4 DEF CallSteps
<1>3. CASE Frame
  <2>1. ASSUME NEW c \in Channels, NEW a \in Clients, FrameSyn(c, a) PROVE RemoteInv'
    BY <1>T, <2>1 DEF FrameSyn, Context, FrameEffect, Remotes
  <2>2. ASSUME NEW c \in Channels, NEW a \in Servers, FrameSynAck(c, a) PROVE RemoteInv'
    BY <1>T, <2>2 DEF FrameSynAck, Context, FrameEffect, Matches, Remotes
  <2>3. ASSUME NEW c \in Channels, NEW a \in Remotes, NEW hasFin \in BOOLEAN,
               NEW acks \in BOOLEAN, FrameSegment(c, a, hasFin, acks)
        PROVE  RemoteInv'
    BY <1>T, <2>3 DEF FrameSegment, FrameEffect, Matches
  <2>4. ASSUME NEW c \in Channels, NEW a \in Remotes, FrameRst(c, a) \/ FrameOversized(c, a)
        PROVE  RemoteInv'
    <3>1. CASE state[c] = "SYN_RECEIVED" /\ FrameRst(c, a)
      <4>1. Context(c, "LISTEN", {"RST"}, None, FALSE) /\ FrameEffect
        BY <3>1, RstCases
      <4> QED
        BY <1>T, <3>1, <4>1 DEF Context, FrameEffect
    <3>2. CASE state[c] # "SYN_RECEIVED" /\ FrameRst(c, a)
      <4>1. /\ Context(c, "CLOSED", event[c] \cup {"RST"}, a, fin[c]) /\ FrameEffect
            /\ Matches(c, a) /\ peer[a] = "gone"
        BY <3>2, RstCases
      <4> QED
        BY <1>T, <3>2, <4>1 DEF Context, FrameEffect, Matches
    <3>3. CASE FrameOversized(c, a)
      BY <1>T, <3>3 DEF FrameOversized, Context, FrameEffect, Matches
    <3> QED
      BY <2>4, <3>1, <3>2, <3>3
  <2>5. ASSUME NEW c \in Channels, FrameStrayRst(c) PROVE RemoteInv'
    BY <1>T, <2>5 DEF FrameStrayRst, Context, FrameEffect
  <2> QED
    BY <1>3, <2>1, <2>2, <2>3, <2>4, <2>5 DEF Frame
<1>4. CASE WaitEnds \/ UNCHANGED vars
  BY <1>4 DEF WaitEnds, vars, ctxVars, callVars
<1>5. CASE Environment
  BY <1>5, EnvironmentLeavesCalls DEF ctxVars, callVars
<1> QED
  BY <1>1, <1>2, <1>3, <1>4, <1>5 DEF Next

\* The events of a CLOSE in progress.
LEMMA CloseStep ==
    ASSUME IInv, [Next]_vars
    PROVE  CloseInv'
<1>T. CtxType /\ CallType /\ PeerType
  BY TypeParts DEF IInv, Types
<1> USE DEF IInv, RemoteInv, CloseInv, CtxType
<1>M. ASSUME NEW c \in Channels, NEW rs, CloseChannel(c, rs), pc = "idle" PROVE CloseInv'
  BY <1>T, <1>M DEF CloseChannel, Context, Selects, EventsForClose
<1>1. CASE Calls
  BY <1>1, <1>M DEF Calls, Listen, Unlisten, UdpOpen, Connect, RecvListen, Recv, Send, Close,
              CloseSuspended, Netdone, Netinit, NotBusy, callVars
<1>2. CASE CallSteps
  <2>1. CASE NetdoneNext
    BY <1>T, <1>M, <2>1 DEF NetdoneNext, CallType
  <2>2. CASE FinRetry
    BY <2>2 DEF FinRetry, ctxVars, peerVars
  <2> QED
    BY <1>2, <2>1, <2>2
       DEF CallSteps, SynRetry, OpenFails, OpenSucceeds, AcceptIdle, Accept, RecvReleases,
           RecvReturns, SendReturns, SendReset, CloseReturns, CallReturns
<1>3. CASE Frame
  <2> SUFFICES ASSUME pc = "close" PROVE CloseInv'
    BY <1>3, FramesOnlyTouchContexts DEF FrameEffect
  <2>1. ASSUME NEW c \in Channels, NEW a \in Clients, FrameSyn(c, a) PROVE CloseInv'
    BY <1>T, <2>1 DEF FrameSyn, Context, FrameEffect, peerVars
  <2>2. ASSUME NEW c \in Channels, NEW a \in Servers, FrameSynAck(c, a) PROVE CloseInv'
    BY <1>T, <2>2 DEF FrameSynAck, Context, FrameEffect, Matches, peerVars
  <2>3. ASSUME NEW c \in Channels, NEW a \in Remotes, NEW hasFin \in BOOLEAN,
               NEW acks \in BOOLEAN, FrameSegment(c, a, hasFin, acks)
        PROVE  CloseInv'
    BY <1>T, <2>3 DEF FrameSegment, FrameEffect, Matches, peerVars
  <2>4. ASSUME NEW c \in Channels, NEW a \in Remotes, FrameRst(c, a) \/ FrameOversized(c, a)
        PROVE  CloseInv'
    <3>1. CASE state[c] = "SYN_RECEIVED" /\ FrameRst(c, a)
      <4>1. Context(c, "LISTEN", {"RST"}, None, FALSE) /\ FrameEffect
        BY <3>1, RstCases
      <4> QED
        BY <1>T, <3>1, <4>1 DEF Context, FrameEffect, peerVars
    <3>2. CASE state[c] # "SYN_RECEIVED" /\ FrameRst(c, a)
      <4>1. /\ Context(c, "CLOSED", event[c] \cup {"RST"}, a, fin[c]) /\ FrameEffect
            /\ Matches(c, a) /\ peer[a] = "gone"
        BY <3>2, RstCases
      <4> QED
        BY <1>T, <3>2, <4>1 DEF Context, FrameEffect, Matches, peerVars
    <3>3. CASE FrameOversized(c, a)
      BY <1>T, <3>3 DEF FrameOversized, Context, FrameEffect, Matches, peerVars
    <3> QED
      BY <2>4, <3>1, <3>2, <3>3
  <2>5. ASSUME NEW c \in Channels, FrameStrayRst(c) PROVE CloseInv'
    BY <1>T, <2>5 DEF FrameStrayRst, Context, FrameEffect, peerVars
  <2> QED
    BY <1>3, <2>1, <2>2, <2>3, <2>4, <2>5 DEF Frame
<1>4. CASE WaitEnds \/ UNCHANGED vars
  BY <1>4 DEF WaitEnds, vars, ctxVars, callVars, peerVars
<1>5. CASE Environment
  <2>1. UNCHANGED <<pc, sel, event, remote>>
    BY <1>5, EnvironmentLeavesCalls DEF ctxVars, callVars
  <2>2. ASSUME NEW a \in Remotes
        PROVE  /\ peer[a] \in {"half", "gone"} => peer'[a] \in {"half", "gone"}
               /\ a \in heard => a \in heard' \/ peer'[a] = "gone"
    BY <1>T, <1>5 DEF Environment, PeerCalls, PeerOpens, PeerHearsFin, PeerFinishes, PeerGoes,
                      PeerType
  <2> QED
    BY <2>1, <2>2
<1> QED
  BY <1>1, <1>2, <1>3, <1>4, <1>5 DEF Next

(* IInv is inductive, with every fault of the card and of the peers.       *)
THEOREM Invariant == Spec => []IInv
<1>1. IInv /\ [Next]_vars => IInv'
  BY TypeStep, RemoteStep, PendStep, CloseStep DEF IInv
<1> QED
  BY <1>1, InitType, PTL DEF Spec

(* The types of the table, the contexts and the calls: the attempts left of*)
(* CONNECT and CLOSE never leave their range, and a segment always has a   *)
(* remote it is for.                                                       *)
THEOREM TypeCorrect == Spec => []TypeOK
<1>1. IInv => TypeOK
  BY DEF IInv
<1> QED
  BY <1>1, Invariant, PTL

(* CLOSE reports an orderly close as answered only if the peer got the FIN *)
(* or has ended its own side, also when the FIN was retransmitted, lost or *)
(* met by frames of the other channel.                                     *)
THEOREM AnsweredByPeer == Spec => []OrderlyCloseAnswered
<1>1. IInv => OrderlyCloseAnswered
  BY DEF IInv, CloseInv, OrderlyCloseAnswered, CloseAnswered
<1> QED
  BY <1>1, Invariant, PTL

(* While a SEND is suspended no call but its own resumption and its CLOSE  *)
(* does anything, to the shim, to a context or on the wire.                *)
THEOREM SuspendedAlone == Spec => SuspendedSendIsAlone
<1> DEFINE Alone == UNCHANGED <<shimVars, ctxVars, callVars>> /\ sent' \subseteq sent
<1>1. ASSUME IInv, Next, pend # None, pend' = pend PROVE Alone
  <2>1. pc = "idle" /\ rest = {}
    BY <1>1 DEF IInv, PendInv
  <2>2. ~Calls
    <3>1. \A c : ~NotBusy(c)
      BY <1>1 DEF NotBusy
    <3>2. \A c \in Channels : ~Send(c)
      BY <1>1 DEF Send
    <3>3. ~CloseSuspended
      BY <1>1 DEF CloseSuspended
    <3>4. \A c \in Channels, a \in Servers : ~Connect(c, a)
      BY <3>1 DEF Connect
    <3>5. \A c \in Channels : ~(Listen(c) \/ Unlisten(c) \/ UdpOpen(c) \/ RecvListen(c)
                               \/ Recv(c) \/ Close(c))
      BY <3>1 DEF Listen, Unlisten, UdpOpen, RecvListen, Recv, Close
    <3>6. ~Netdone /\ ~Netinit
      BY <3>1 DEF Netdone, Netinit
    <3> QED
      BY <3>2, <3>3, <3>4, <3>5, <3>6 DEF Calls
  <2>3. ~CallSteps
    BY <2>1 DEF CallSteps, SynRetry, OpenFails, OpenSucceeds, AcceptIdle, Accept, RecvReleases,
                RecvReturns, SendReturns, SendReset, NetdoneNext, FinRetry, CloseReturns
  <2>4. ~Polling
    BY <2>1 DEF Polling
  <2>5. ~Frame
    BY <2>4, FramesNeedAPoll
  <2>6. Environment
    BY <1>1, <2>2, <2>3, <2>4, <2>5 DEF Next, WaitEnds
  <2>7. sent' \subseteq sent
    BY <2>6 DEF Environment, PeerCalls, PeerOpens, PeerHearsFin, PeerFinishes, PeerGoes
  <2> QED
    BY <2>6, <2>7, EnvironmentLeavesCalls
<1>2. IInv /\ [Next]_vars => [pend # None /\ pend' = pend => Alone]_vars
  BY <1>1
<1> QED
  BY <1>2, Invariant, PTL DEF Spec, SuspendedSendIsAlone

----------------------------------------------------------------------------
\* The other channel.

\* The wait of CONNECT cannot break off for want of the card, or CONNECT is not called.
\* Without it OtherChannelKept is false: FAIL_CONTEXT closes the context that the frame
\* of the wait left in IX.
ConnectAssumption == Servers = {} \/ CardFaults = FALSE

\* What an oversized segment leaves in IX is a context it has closed already.
OpenInv ==
    pc = "open" =>
        /\ ix = sel \/ (ix \in Channels /\ wait = "PROTOCOL" /\ state[ix] = "CLOSED")
        /\ Servers # {}

\* A frame neither ends nor selects a call; it moves IX only where the wait breaks off.
LEMMA FrameKeepsCall ==
    ASSUME CtxType, Frame
    PROVE  /\ UNCHANGED <<pc, sel>> /\ wait = "polling"
           /\ CardFaults = FALSE =>
                \/ ix' = ix
                \/ ix' \in Channels /\ wait' = "PROTOCOL" /\ state'[ix'] = "CLOSED"
<1>R. \A c, left : Replied(c, left) /\ left \in Outcomes /\ CardFaults = FALSE => ix' = ix
  BY DEF Replied, Outcomes
<1> DEFINE Kept == /\ UNCHANGED <<pc, sel>> /\ wait = "polling"
                   /\ CardFaults = FALSE =>
                        \/ ix' = ix
                        \/ ix' \in Channels /\ wait' = "PROTOCOL" /\ state'[ix'] = "CLOSED"
<1>1. \A c, a : FrameSyn(c, a) => Kept
  BY <1>R DEF FrameSyn, FrameEffect, Polling
<1>2. \A c, a : FrameSynAck(c, a) => Kept
  BY <1>R DEF FrameSynAck, FrameEffect, Polling
<1>3. \A c, a, hasFin, acks : FrameSegment(c, a, hasFin, acks) => Kept
  BY <1>R DEF FrameSegment, FrameEffect, Polling
<1>4. \A c, a : FrameRst(c, a) => Kept
  BY DEF FrameRst, FrameEffect, Polling
<1>5. ASSUME NEW c \in Channels, NEW a, FrameOversized(c, a) PROVE Kept
  <2>1. ix' = c /\ wait' = "PROTOCOL" /\ state' = [state EXCEPT ![c] = "CLOSED"]
    BY <1>5 DEF FrameOversized, Context
  <2>2. state'[c] = "CLOSED"
    BY <2>1 DEF CtxType
  <2> QED
    BY <1>5, <2>1, <2>2 DEF FrameOversized, FrameEffect, Polling
<1>6. \A c : FrameStrayRst(c) => Kept
  BY DEF FrameStrayRst, FrameEffect, Polling
<1> QED
  BY <1>1, <1>2, <1>3, <1>4, <1>5, <1>6 DEF Frame

LEMMA OpenStep ==
    ASSUME ConnectAssumption, CtxType, OpenInv, [Next]_vars
    PROVE  OpenInv'
<1>1. CASE Calls
  <2>1. pc' # "open" \/ (ix' = sel' /\ Servers # {})
    BY <1>1 DEF Calls, Listen, Unlisten, UdpOpen, Connect, RecvListen, Recv, Send, Close,
                CloseChannel, CloseSuspended, Netdone, Netinit, NotBusy, Selects, callVars
  <2> QED
    BY <2>1 DEF OpenInv
<1>2. CASE CallSteps
  BY <1>2 DEF OpenInv, CallSteps, SynRetry, OpenFails, OpenSucceeds, AcceptIdle, Accept,
              RecvReleases, RecvReturns, SendReturns, SendReset, NetdoneNext, FinRetry,
              CloseReturns, CallReturns, CloseChannel
<1>3. CASE Frame
  <2>1. ASSUME pc = "open" PROVE CardFaults = FALSE /\ ix = sel /\ Servers # {}
    BY <1>3, <2>1, FrameKeepsCall DEF ConnectAssumption, OpenInv
  <2> QED
    BY <1>3, <2>1, FrameKeepsCall DEF OpenInv
<1>4. CASE WaitEnds
  BY <1>4 DEF OpenInv, WaitEnds, Polling
<1>5. CASE Environment \/ UNCHANGED vars
  <2>1. UNCHANGED <<ctxVars, callVars>>
    BY <1>5, EnvironmentLeavesCalls DEF vars
  <2> QED
    BY <2>1 DEF OpenInv, ctxVars, callVars
<1> QED
  BY <1>1, <1>2, <1>3, <1>4, <1>5 DEF Next

LEMMA ReleasedAlone ==
    ASSUME CtxType, NEW c \in Channels, Released(c), NEW d \in Channels, d # c
    PROVE  /\ state'[d] = state[d] /\ event'[d] = event[d]
           /\ remote'[d] = remote[d] /\ fin'[d] = fin[d]
<1>1. Cleared(c) \/ Listening(c)
  BY DEF Released, Rearms
<1> QED
  BY <1>1 DEF Cleared, Listening, Context, CtxType

(* A call that returns leaves the connection of the other channel alone,   *)
(* also where a frame of that channel ended the wait and IX points at it:  *)
(* CLOSE reloads IX from the channel, RECV and SEND release by the channel.*)
(* CONNECT closes what IX names, hence ConnectAssumption.                  *)
THEOREM OthersKept == ASSUME ConnectAssumption PROVE Spec => OtherChannelKept
<1>1. Init => OpenInv
  BY DEF Init, OpenInv
<1>2. IInv => CtxType
  BY TypeParts DEF IInv, Types
<1>3. IInv /\ OpenInv /\ [Next]_vars =>
        [pc # "idle" /\ pc' = "idle" =>
           \A c \in Channels \ {sel} : /\ state'[c] = state[c] /\ event'[c] = event[c]
                                       /\ remote'[c] = remote[c] /\ fin'[c] = fin[c]]_vars
  <2> SUFFICES ASSUME IInv, OpenInv, Next, pc # "idle", pc' = "idle",
                      NEW c \in Channels, c # sel
               PROVE  /\ state'[c] = state[c] /\ event'[c] = event[c]
                      /\ remote'[c] = remote[c] /\ fin'[c] = fin[c]
    BY DEF vars, callVars
  <2>T. CtxType /\ sel \in Channels
    BY TypeParts DEF IInv, Types, CallType
  <2>1. CASE CallSteps
    <3>1. CASE RecvReleases \/ SendReset \/ CloseReturns
      BY <2>T, <3>1, ReleasedAlone DEF RecvReleases, SendReset, CloseReturns, SelectedContext
    <3>2. CASE OpenFails
      BY <2>T, <3>2 DEF OpenInv, OpenFails, CtxType
    <3>3. CASE OpenSucceeds \/ AcceptIdle \/ RecvReturns \/ SendReturns
      BY <2>T, <3>3 DEF OpenSucceeds, AcceptIdle, RecvReturns, SendReturns, CtxType, ctxVars
    <3>4. ~(SynRetry \/ Accept \/ NetdoneNext \/ FinRetry)
      BY DEF SynRetry, Accept, NetdoneNext, FinRetry
    <3> QED
      BY <2>1, <3>1, <3>2, <3>3, <3>4 DEF CallSteps
  <2>2. CASE Calls
    BY <2>2 DEF Calls, Listen, Unlisten, UdpOpen, Connect, RecvListen, Recv, Send, Close,
                CloseSuspended, Netdone, Netinit, NotBusy
  <2>3. CASE Frame \/ WaitEnds \/ Environment
    <3>1. pc' = pc
      BY <2>T, <2>3, FrameKeepsCall, EnvironmentLeavesCalls DEF WaitEnds, callVars
    <3> QED
      BY <3>1
  <2> QED
    BY <2>1, <2>2, <2>3 DEF Next
<1> QED
  BY <1>1, <1>2, <1>3, OpenStep, Invariant, PTL DEF Spec, OtherChannelKept

----------------------------------------------------------------------------
\* The table and the contexts.

\* What the agreement needs: RECV reports an accept before SEND is called, and the wait
\* of CONNECT never breaks off on a frame of the other channel.
TableAssumption ==
    /\ EarlySend = FALSE
    /\ Servers = {} \/ (CardFaults = FALSE /\ PeerBreaks = FALSE)

\* Channel c is the armed listener, or one NETDONE has yet to close.
Armed(c) == c \in rest \/ (listener = c /\ ~accepted)

ChannelOk(c) ==
    /\ chState[c] \in {"FREE", "UDP"} => state[c] = "CLOSED" \/ (pc = "open" /\ sel = c)
    /\ state[c] \in {"LISTEN", "SYN_RECEIVED"} => chState[c] = "LISTENING"
    /\ chState[c] = "LISTENING" => Armed(c)
    /\ state[c] = "SYN_SENT" => pc = "open" /\ sel = c
    /\ state[c] = "FIN_WAIT" => pc = "close" /\ sel = c
    /\ "SYN_ACK" \in event[c] => state[c] \notin {"SYN_SENT", "LISTEN", "SYN_RECEIVED"}

\* What the channel of the call in progress is.
CallInv ==
    /\ pc = "open" => chState[sel] = "FREE" /\ ix = sel /\ Servers # {}
    /\ pc = "accept" => chState[sel] = "LISTENING"
    /\ pc \in {"recv", "send", "close"} => chState[sel] = "TCP"
    /\ pend # None => chState[pend] = "TCP"
    /\ rest # {} => listener = None

ListenerInv ==
    /\ listener # None => chState[listener] = (IF accepted THEN "TCP" ELSE "LISTENING")
    /\ listener = None => ~accepted

TableInv == CallInv /\ ListenerInv /\ \A c \in Channels : ChannelOk(c)

LEMMA ReleasedTable ==
    ASSUME IInv, TableInv, NEW c \in Channels, chState[c] # "LISTENING", Released(c),
           pc' = "idle", rest' = rest \/ rest' = rest \ {c},
           pend' = None, pc \in {"open", "close"} => sel = c
    PROVE  TableInv'
<1>T. CtxType /\ CallType /\ ShimType
  BY TypeParts DEF IInv, Types
<1>N. None \notin Channels
  BY ConstAssumption DEF Channels
<1>I. /\ TableInv /\ chState[c] # "LISTENING" /\ pc' = "idle" /\ pend' = None
      /\ rest' = rest \/ rest' = rest \ {c}
      /\ pc \in {"open", "close"} => sel = c
  OBVIOUS
<1>1. CASE Rearms(c)
  <2>1. /\ listener = c /\ accepted /\ Listening(c) /\ ~accepted'
        /\ chState' = [chState EXCEPT ![c] = "LISTENING"] /\ listener' = listener
    BY <1>1 DEF Released, Rearms
  <2>A. CallInv' /\ ListenerInv'
    BY <1>T, <1>N, <1>I, <2>1
       DEF Listening, Context, TableInv, CallInv, ListenerInv, ChannelOk, Armed,
           ShimType, CtxType
  <2>B. ASSUME NEW d \in Channels PROVE ChannelOk(d)'
    <3>1. CASE d = c
      BY <1>T, <1>N, <1>I, <2>1, <3>1
         DEF Listening, Context, TableInv, CallInv, ListenerInv, ChannelOk, Armed,
             ShimType, CtxType
    <3>2. CASE d # c
      <4>1. chState'[d] = chState[d] /\ state'[d] = state[d] /\ event'[d] = event[d]
        BY <1>T, <2>1, <2>B, <3>2 DEF Listening, Context, ShimType, CtxType
      <4>2. ChannelOk(d)
        BY <1>I, <2>B DEF TableInv
      <4> QED
        BY <1>I, <2>1, <2>B, <3>2, <4>1, <4>2
           DEF Listening, Context, TableInv, CallInv, ChannelOk, Armed
    <3> QED
      BY <3>1, <3>2
  <2> QED
    BY <2>A, <2>B DEF TableInv
<1>2. CASE ~Rearms(c)
  <2>1. /\ ~(accepted /\ listener = c) /\ Cleared(c) /\ UNCHANGED <<listener, accepted>>
        /\ chState' = [chState EXCEPT ![c] = "FREE"]
    BY <1>2 DEF Released, Rearms
  <2>A. CallInv' /\ ListenerInv'
    BY <1>T, <1>N, <1>I, <2>1
       DEF Cleared, Context, TableInv, CallInv, ListenerInv, ChannelOk, Armed, ShimType,
           CtxType
  <2>B. ASSUME NEW d \in Channels PROVE ChannelOk(d)'
    <3>1. CASE d = c
      BY <1>T, <1>N, <1>I, <2>1, <3>1
         DEF Cleared, Context, TableInv, CallInv, ListenerInv, ChannelOk, Armed,
             ShimType, CtxType
    <3>2. CASE d # c
      <4>1. chState'[d] = chState[d] /\ state'[d] = state[d] /\ event'[d] = event[d]
        BY <1>T, <2>1, <2>B, <3>2 DEF Cleared, Context, ShimType, CtxType
      <4>2. ChannelOk(d)
        BY <1>I, <2>B DEF TableInv
      <4> QED
        BY <1>I, <2>1, <2>B, <3>2, <4>1, <4>2
           DEF Cleared, Context, TableInv, CallInv, ChannelOk, Armed
    <3> QED
      BY <3>1, <3>2
  <2> QED
    BY <2>A, <2>B DEF TableInv
<1> QED
  BY <1>1, <1>2

LEMMA CloseChannelTable ==
    ASSUME IInv, TableInv, pc = "idle", NEW c \in Channels, NEW rs \in SUBSET Channels,
           rs = rest \ {c},
           CloseChannel(c, rs), pend = None, pend' = None
    PROVE  TableInv'
<1>T. CtxType /\ CallType /\ ShimType
  BY TypeParts DEF IInv, Types
<1>N. None \notin Channels
  BY ConstAssumption DEF Channels
<1>I. TableInv /\ rs = rest \ {c}
      /\ pc = "idle" /\ pend = None /\ pend' = None
  OBVIOUS
<1>1. CASE chState[c] = "LISTENING"
  <2>1. /\ Cleared(c) /\ chState' = [chState EXCEPT ![c] = "FREE"] /\ Unarmed
        /\ pc' = "idle" /\ Selects(c) /\ rest' = rs
    BY <1>1 DEF CloseChannel
  <2>A. CallInv' /\ ListenerInv'
    BY <1>T, <1>N, <1>I, <1>1, <2>1
       DEF Cleared, Context, Unarmed, Selects, TableInv, CallInv, ListenerInv, ChannelOk,
           Armed, ShimType, CtxType
  <2>B. ASSUME NEW d \in Channels PROVE ChannelOk(d)'
    <3>1. CASE d = c
      BY <1>T, <1>N, <1>I, <1>1, <2>1, <3>1
         DEF Cleared, Context, Unarmed, Selects, TableInv, CallInv, ListenerInv,
             ChannelOk, Armed, ShimType, CtxType
    <3>2. CASE d # c
      <4>1. chState'[d] = chState[d] /\ state'[d] = state[d] /\ event'[d] = event[d]
        BY <1>T, <1>1, <2>1, <2>B, <3>2 DEF Cleared, Context, Unarmed, Selects, ShimType, CtxType
      <4>2. ChannelOk(d)
        BY <1>I, <2>B DEF TableInv
      <4> QED
        BY <1>I, <1>1, <2>1, <2>B, <3>2, <4>1, <4>2
           DEF Cleared, Context, Unarmed, Selects, TableInv, CallInv, ChannelOk, Armed
    <3> QED
      BY <3>1, <3>2
  <2> QED
    BY <2>A, <2>B DEF TableInv
<1>2. CASE chState[c] # "LISTENING" /\ Released(c) /\ UNCHANGED <<pc, wait, retry, sent>>
  BY <1>2, ReleasedTable DEF CloseChannel, Selects
<1>3. CASE /\ chState[c] # "LISTENING" /\ state[c] \in {"ESTABLISHED", "CLOSE_WAIT"}
           /\ Context(c, "FIN_WAIT", EventsForClose, remote[c], fin[c])
           /\ pc' = "close" /\ UNCHANGED <<chState, listener, accepted>>
  <2>1. sel' = c /\ ix' = c /\ rest' = rs
    BY DEF CloseChannel, Selects
  <2>A. CallInv' /\ ListenerInv'
    BY <1>T, <1>N, <1>I, <1>3, <2>1
       DEF Context, EventsForClose, TableInv, CallInv, ListenerInv, ChannelOk, Armed,
           ShimType, CtxType
  <2>B. ASSUME NEW d \in Channels PROVE ChannelOk(d)'
    <3>1. CASE d = c
      BY <1>T, <1>N, <1>I, <1>3, <2>1, <3>1
         DEF Context, EventsForClose, TableInv, CallInv, ListenerInv, ChannelOk, Armed,
             ShimType, CtxType
    <3>2. CASE d # c
      <4>1. chState'[d] = chState[d] /\ state'[d] = state[d] /\ event'[d] = event[d]
        BY <1>T, <1>3, <2>1, <2>B, <3>2 DEF Context, EventsForClose, ShimType, CtxType
      <4>2. ChannelOk(d)
        BY <1>I, <2>B DEF TableInv
      <4> QED
        BY <1>I, <1>3, <2>1, <2>B, <3>2, <4>1, <4>2
           DEF Context, EventsForClose, TableInv, CallInv, ChannelOk, Armed
    <3> QED
      BY <3>1, <3>2
  <2> QED
    BY <2>A, <2>B DEF TableInv
<1> QED
  BY <1>1, <1>2, <1>3 DEF CloseChannel

\* A step that leaves the shim and the call alone is about one context at most.
LEMMA OneContext ==
    ASSUME TableInv, NEW c \in Channels, UNCHANGED <<shimVars, pc, sel, rest>>,
           pc = "open" => UNCHANGED ix,
           \A d \in Channels \ {c} : state'[d] = state[d] /\ event'[d] = event[d],
           ChannelOk(c)'
    PROVE  TableInv'
<1>1. ASSUME NEW d \in Channels, d # c PROVE ChannelOk(d)'
  BY <1>1 DEF TableInv, ChannelOk, Armed, shimVars
<1>2. CallInv' /\ ListenerInv'
  BY DEF TableInv, CallInv, ListenerInv, shimVars
<1> QED
  BY <1>1, <1>2 DEF TableInv

LEMMA FrameTable ==
    ASSUME TableAssumption, IInv, TableInv, Frame
    PROVE  TableInv'
<1>T. CtxType /\ CallType /\ ShimType
  BY TypeParts DEF IInv, Types
<1>O. pc = "open" => PeerBreaks = FALSE /\ \A left \in Outcomes : left = TRUE
  BY DEF TableAssumption, Outcomes, TableInv, CallInv
<1>I. \A c \in Channels : ChannelOk(c)
  BY DEF TableInv
<1>1. ASSUME NEW c \in Channels, NEW a \in Clients, FrameSyn(c, a) PROVE TableInv'
  <2>1. UNCHANGED <<shimVars, pc, sel, rest>> /\ (pc = "open" => UNCHANGED ix)
    BY <1>O, <1>1 DEF FrameSyn, Replied, FrameEffect
  <2>2. ChannelOk(c)'
    BY <1>T, <1>I, <1>1, <2>1
       DEF FrameSyn, Context, ChannelOk, Armed, CtxType, shimVars
  <2>3. \A d \in Channels \ {c} : state'[d] = state[d] /\ event'[d] = event[d]
    BY <1>T, <1>1 DEF FrameSyn, Context, CtxType
  <2> QED
    BY <2>1, <2>2, <2>3, OneContext
<1>2. ASSUME NEW c \in Channels, NEW a \in Servers, FrameSynAck(c, a) PROVE TableInv'
  <2>1. UNCHANGED <<shimVars, pc, sel, rest>> /\ (pc = "open" => UNCHANGED ix)
    BY <1>O, <1>2 DEF FrameSynAck, Replied, FrameEffect
  <2>2. ChannelOk(c)'
    BY <1>T, <1>I, <1>2, <2>1
       DEF FrameSynAck, Context, ChannelOk, Armed, CtxType, shimVars
  <2>3. \A d \in Channels \ {c} : state'[d] = state[d] /\ event'[d] = event[d]
    BY <1>T, <1>2 DEF FrameSynAck, Context, CtxType
  <2> QED
    BY <2>1, <2>2, <2>3, OneContext
<1>3. ASSUME NEW c \in Channels, NEW a \in Remotes, NEW hasFin \in BOOLEAN, NEW acks \in BOOLEAN,
             FrameSegment(c, a, hasFin, acks)
      PROVE  TableInv'
  <2>1. UNCHANGED <<shimVars, pc, sel, rest>> /\ (pc = "open" => UNCHANGED ix)
    BY <1>O, <1>3 DEF FrameSegment, Replied, FrameEffect
  <2>2. state'[c] \in {"ESTABLISHED", "CLOSE_WAIT", "FIN_WAIT"}
        /\ (state'[c] = "FIN_WAIT" => state[c] = "FIN_WAIT") /\ state[c] # "CLOSED"
    BY <1>T, <1>3 DEF FrameSegment, CtxType
  <2>3. ChannelOk(c)'
    BY <1>T, <1>I, <2>1, <2>2 DEF ChannelOk, Armed, shimVars
  <2>4. \A d \in Channels \ {c} : state'[d] = state[d] /\ event'[d] = event[d]
    BY <1>T, <1>3 DEF FrameSegment, CtxType
  <2> QED
    BY <2>1, <2>3, <2>4, OneContext
<1>4. ASSUME NEW c \in Channels, NEW a \in Remotes, FrameRst(c, a) PROVE TableInv'
  <2>1. UNCHANGED <<shimVars, pc, sel, rest>> /\ (pc = "open" => UNCHANGED ix)
    BY <1>4 DEF FrameRst, FrameEffect
  <2>2. /\ state' = [state EXCEPT ![c] = IF @ = "SYN_RECEIVED" THEN "LISTEN" ELSE "CLOSED"]
        /\ event' = [event EXCEPT ![c] = IF state[c] = "SYN_RECEIVED" THEN {"RST"}
                                         ELSE @ \cup {"RST"}]
    BY <1>4, RstCases DEF Context
  <2>3. ChannelOk(c)'
    BY <1>T, <1>I, <2>1, <2>2 DEF ChannelOk, Armed, CtxType, shimVars
  <2>4. \A d \in Channels \ {c} : state'[d] = state[d] /\ event'[d] = event[d]
    BY <1>T, <2>2 DEF CtxType
  <2> QED
    BY <2>1, <2>3, <2>4, OneContext
<1>5. ASSUME NEW c \in Channels, NEW a \in Remotes, FrameOversized(c, a) PROVE TableInv'
  <2>1. UNCHANGED <<shimVars, pc, sel, rest>> /\ (pc = "open" => UNCHANGED ix)
    BY <1>O, <1>5 DEF FrameOversized, FrameEffect
  <2>2. state' = [state EXCEPT ![c] = "CLOSED"] /\ \E ev : event' = [event EXCEPT ![c] = ev]
    BY <1>5 DEF FrameOversized, Context
  <2>3. ChannelOk(c)'
    BY <1>T, <1>I, <2>1, <2>2 DEF ChannelOk, Armed, CtxType, shimVars
  <2>4. \A d \in Channels \ {c} : state'[d] = state[d] /\ event'[d] = event[d]
    BY <1>T, <2>2 DEF CtxType
  <2> QED
    BY <2>1, <2>3, <2>4, OneContext
<1>6. ASSUME NEW c \in Channels, FrameStrayRst(c) PROVE TableInv'
  <2>1. UNCHANGED <<shimVars, pc, sel, ix, rest>>
    BY <1>6 DEF FrameStrayRst, FrameEffect
  <2>2. state' = [state EXCEPT ![c] = "CLOSED"] /\ \E ev : event' = [event EXCEPT ![c] = ev]
    BY <1>6 DEF FrameStrayRst, Context
  <2>3. ChannelOk(c)'
    BY <1>T, <1>I, <2>1, <2>2 DEF ChannelOk, Armed, CtxType, shimVars
  <2>4. \A d \in Channels \ {c} : state'[d] = state[d] /\ event'[d] = event[d]
    BY <1>T, <2>2 DEF CtxType
  <2> QED
    BY <2>1, <2>3, <2>4, OneContext
<1> QED
  BY <1>1, <1>2, <1>3, <1>4, <1>5, <1>6 DEF Frame

LEMMA CallStepsTable ==
    ASSUME TableAssumption, IInv, TableInv, CallSteps
    PROVE  TableInv'
<1>T. CtxType /\ CallType /\ ShimType
  BY TypeParts DEF IInv, Types
<1>S. sel \in Channels
  BY <1>T DEF CallType
<1>P. pc # "idle" => pend = None
  BY DEF IInv, PendInv
<1>N. None \notin Channels
  BY ConstAssumption DEF Channels
<1>I. CallInv /\ ListenerInv /\ \A c \in Channels : ChannelOk(c)
  BY DEF TableInv
<1>1. CASE SynRetry \/ FinRetry
  <2>1. UNCHANGED <<shimVars, pc, sel, ix, rest>>
    BY <1>1 DEF SynRetry, FinRetry
  <2>2. /\ \A d \in Channels \ {sel} : state'[d] = state[d] /\ event'[d] = event[d]
        /\ state'[sel] = state[sel] /\ event'[sel] \subseteq event[sel]
    BY <1>T, <1>S, <1>1 DEF SynRetry, FinRetry, CtxType, ctxVars
  <2>3. ChannelOk(sel)'
    BY <1>S, <1>I, <2>1, <2>2 DEF ChannelOk, Armed, shimVars
  <2> QED
    BY <1>S, <2>1, <2>2, <2>3, OneContext
<1>2. CASE OpenFails \/ OpenSucceeds \/ AcceptIdle \/ Accept \/ RecvReturns \/ SendReturns
  <2>1. /\ \A d \in Channels \ {sel} : /\ state'[d] = state[d] /\ event'[d] = event[d]
                                       /\ chState'[d] = chState[d]
        /\ event'[sel] \subseteq event[sel] /\ sel' = sel /\ rest' = rest
        /\ listener' = listener /\ pc # "idle" /\ pc # "close"
    BY <1>T, <1>S, <1>I, <1>2
       DEF OpenFails, OpenSucceeds, AcceptIdle, Accept, RecvReturns, SendReturns,
           CallReturns,
           CtxType, ShimType, shimVars, ctxVars, CallInv
  <2>2. CASE OpenFails
    <3>1. state'[sel] = "CLOSED" /\ UNCHANGED shimVars /\ pc' = "idle" /\ pc = "open"
      BY <1>T, <1>S, <1>I, <2>2 DEF OpenFails, CallReturns, CtxType, CallInv
    <3>2. CallInv' /\ ListenerInv'
      BY <1>I, <1>P, <2>1, <3>1 DEF CallInv, ListenerInv, shimVars
    <3>3. ASSUME NEW d \in Channels PROVE ChannelOk(d)'
      BY <1>S, <1>I, <2>1, <3>1, <3>3 DEF ChannelOk, Armed, CallInv, shimVars
    <3> QED
      BY <3>2, <3>3 DEF TableInv
  <2>3. CASE OpenSucceeds
    <3>1. /\ chState'[sel] = "TCP" /\ UNCHANGED <<accepted, pend, state>> /\ pc' = "idle"
          /\ pc = "open" /\ "SYN_ACK" \in event[sel]
      BY <1>T, <1>S, <2>3 DEF OpenSucceeds, CallReturns, ShimType
    <3>2. CallInv' /\ ListenerInv'
      BY <1>T, <1>N, <1>I, <1>P, <2>1, <3>1 DEF CallInv, ListenerInv, ShimType
    <3>3. ASSUME NEW d \in Channels PROVE ChannelOk(d)'
      BY <1>S, <1>I, <2>1, <3>1, <3>3 DEF ChannelOk, Armed, CallInv
    <3> QED
      BY <3>2, <3>3 DEF TableInv
  <2>4. CASE Accept
    <3>1. /\ chState'[sel] = "TCP" /\ UNCHANGED <<pend, state>> /\ accepted' /\ pc' = "recv"
          /\ pc = "accept" /\ "SYN_ACK" \in event[sel]
      BY <1>T, <1>S, <2>4 DEF Accept, ShimType
    <3>2. listener = sel /\ rest = {}
      BY <1>S, <1>I, <3>1 DEF CallInv, ChannelOk, Armed, IInv, PendInv
    <3>3. CallInv' /\ ListenerInv'
      BY <1>T, <1>N, <1>S, <1>I, <1>P, <2>1, <3>1, <3>2 DEF CallInv, ListenerInv, ShimType
    <3>4. ASSUME NEW d \in Channels PROVE ChannelOk(d)'
      BY <1>S, <1>I, <2>1, <3>1, <3>2, <3>4 DEF ChannelOk, Armed, CallInv
    <3> QED
      BY <3>3, <3>4 DEF TableInv
  <2>5. CASE AcceptIdle \/ RecvReturns \/ SendReturns
    <3>1. /\ UNCHANGED <<chState, listener, accepted, state>> /\ pc' = "idle"
          /\ pc \in {"accept", "recv", "send"}
          /\ pend' # None => pend' = sel /\ pc = "send"
      BY <1>S, <1>P, <2>5
         DEF AcceptIdle, RecvReturns, SendReturns, CallReturns, shimVars, ctxVars
    <3>2. CallInv' /\ ListenerInv'
      BY <1>I, <2>1, <3>1 DEF CallInv, ListenerInv
    <3>3. ASSUME NEW d \in Channels PROVE ChannelOk(d)'
      BY <1>S, <1>I, <2>1, <3>1, <3>3 DEF ChannelOk, Armed, CallInv
    <3> QED
      BY <3>2, <3>3 DEF TableInv
  <2> QED
    BY <1>2, <2>2, <2>3, <2>4, <2>5
<1>3. CASE RecvReleases \/ SendReset \/ CloseReturns
  <2>1. /\ chState[sel] = "TCP" /\ Released(sel) /\ CallReturns /\ UNCHANGED <<pend, sel, rest>>
        /\ pend = None
    BY <1>I, <1>P, <1>3 DEF RecvReleases, SendReset, CloseReturns, CallInv, SelectedContext
  <2> QED
    BY <1>S, <2>1, ReleasedTable DEF CallReturns
<1>4. CASE NetdoneNext
  <2>1. PICK c \in rest : CloseChannel(c, rest \ {c})
    BY <1>4 DEF NetdoneNext
  <2>2. c \in Channels /\ rest \ {c} \in SUBSET Channels
    BY <1>T DEF CallType
  <2>3. pend = None /\ pend' = None /\ pc = "idle"
    BY <1>4 DEF NetdoneNext, IInv, PendInv
  <2> QED
    BY <2>1, <2>2, <2>3, CloseChannelTable
<1> QED
  BY <1>1, <1>2, <1>3, <1>4 DEF CallSteps

LEMMA CallsTable ==
    ASSUME TableAssumption, IInv, TableInv, Calls
    PROVE  TableInv'
<1>T. CtxType /\ CallType /\ ShimType
  BY TypeParts DEF IInv, Types
<1>N. None \notin Channels
  BY ConstAssumption DEF Channels
<1>I. CallInv /\ ListenerInv /\ \A c \in Channels : ChannelOk(c)
  BY DEF TableInv
\* The calls that change the table entry and the context of one channel at most.
<1>C. ASSUME NEW c \in Channels, pc = "idle", rest = {}, pend = None, rest' = {}, pend' = None,
             pc' = "open" => ix' = sel' /\ Servers # {},
             \A d \in Channels \ {c} : /\ state'[d] = state[d] /\ event'[d] = event[d]
                                       /\ chState'[d] = chState[d],
             \A d \in Channels \ {c} : Armed(d) => Armed(d)',
             ListenerInv', ChannelOk(c)',
             /\ pc' \in {"open", "accept", "recv"} /\ sel' = c
             /\ chState'[c] = (CASE pc' = "open" -> "FREE" [] pc' = "accept" -> "LISTENING"
                                 [] OTHER -> "TCP")
             \/ pc' = "idle"
      PROVE  TableInv'
  <2>1. CallInv'
    BY <1>C DEF CallInv
  <2>2. ASSUME NEW d \in Channels, d # c PROVE ChannelOk(d)'
    BY <1>I, <1>C, <2>2 DEF ChannelOk
  <2> QED
    BY <1>C, <2>1, <2>2 DEF TableInv
<1>1. ASSUME NEW c \in Channels, Listen(c) PROVE TableInv'
  <2>1. /\ chState' = [chState EXCEPT ![c] = "LISTENING"] /\ state' = [state EXCEPT ![c] = "LISTEN"]
        /\ event' = [event EXCEPT ![c] = {}] /\ listener' = c /\ ~accepted' /\ listener = None
        /\ pc = "idle" /\ pc' = "idle" /\ rest = {} /\ rest' = {} /\ pend = None /\ pend' = None
    BY <1>1 DEF Listen, Listening, Context, NotBusy, Selects
  <2>2. ListenerInv' /\ ChannelOk(c)'
    BY <1>T, <1>N, <2>1 DEF ListenerInv, ChannelOk, Armed, CtxType, ShimType
  <2>3. \A d \in Channels \ {c} : Armed(d) => Armed(d)'
    BY <1>N, <2>1 DEF Armed
  <2> QED
    BY <1>T, <1>C, <2>1, <2>2, <2>3 DEF CtxType, ShimType
<1>2. ASSUME NEW c \in Channels, Unlisten(c) PROVE TableInv'
  <2>1. /\ listener' = None /\ ~accepted' /\ listener = c
        /\ pc = "idle" /\ pc' = "idle" /\ rest = {} /\ rest' = {} /\ pend = None /\ pend' = None
    BY <1>2 DEF Unlisten, Unarmed, NotBusy
  <2>2. \/ accepted /\ UNCHANGED <<chState, state, event>>
        \/ /\ chState' = [chState EXCEPT ![c] = "FREE"] /\ state' = [state EXCEPT ![c] = "CLOSED"]
           /\ event' = [event EXCEPT ![c] = {}]
    BY <1>2 DEF Unlisten, Cleared, Context, ctxVars
  <2>3. ListenerInv' /\ ChannelOk(c)'
    BY <1>T, <1>N, <1>I, <2>1, <2>2 DEF ListenerInv, ChannelOk, Armed, CtxType, ShimType
  <2>4. \A d \in Channels \ {c} : Armed(d) => Armed(d)'
    BY <2>1 DEF Armed
  <2> QED
    BY <1>T, <1>C, <2>1, <2>2, <2>3, <2>4 DEF CtxType, ShimType
<1>3. ASSUME NEW c \in Channels, UdpOpen(c) PROVE TableInv'
  <2>1. /\ chState' = [chState EXCEPT ![c] = "UDP"] /\ chState[c] = "FREE"
        /\ UNCHANGED <<state, event, listener, accepted, sel, ix>>
        /\ pc = "idle" /\ pc' = "idle" /\ rest = {} /\ rest' = {} /\ pend = None /\ pend' = None
    BY <1>3 DEF UdpOpen, NotBusy, ctxVars, callVars
  <2>2. ListenerInv' /\ ChannelOk(c)'
    BY <1>T, <1>N, <1>I, <2>1 DEF ListenerInv, ChannelOk, Armed, ShimType
  <2>3. \A d \in Channels \ {c} : Armed(d) => Armed(d)'
    BY <2>1 DEF Armed
  <2> QED
    BY <1>T, <1>C, <2>1, <2>2, <2>3 DEF ShimType
<1>4. ASSUME NEW c \in Channels, NEW a \in Servers, Connect(c, a) PROVE TableInv'
  <2>1. /\ chState[c] = "FREE" /\ state' = [state EXCEPT ![c] = "SYN_SENT"]
        /\ event' = [event EXCEPT ![c] = {}] /\ UNCHANGED <<chState, listener, accepted>>
        /\ pc = "idle" /\ pc' = "open" /\ rest = {} /\ rest' = {} /\ pend = None /\ pend' = None
        /\ sel' = ix' /\ sel' = c
    BY <1>4 DEF Connect, Context, NotBusy, Selects, shimVars
  <2>2. ListenerInv' /\ ChannelOk(c)'
    BY <1>T, <1>I, <2>1 DEF ListenerInv, ChannelOk, Armed, CtxType
  <2>3. \A d \in Channels \ {c} : Armed(d) => Armed(d)'
    BY <2>1 DEF Armed
  <2> QED
    BY <1>T, <1>C, <2>1, <2>2, <2>3 DEF CtxType
<1>5. ASSUME NEW c \in Channels, RecvListen(c) \/ Recv(c) PROVE TableInv'
  <2>1. /\ UNCHANGED <<chState, listener, accepted, state>> /\ event'[c] \subseteq event[c]
        /\ \A d \in Channels \ {c} : event'[d] = event[d]
        /\ pc = "idle" /\ rest = {} /\ rest' = {} /\ pend = None /\ pend' = None
        /\ sel' = c
        /\ \/ pc' = "accept" /\ chState[c] = "LISTENING"
           \/ pc' = "recv" /\ chState[c] = "TCP"
    BY <1>T, <1>5 DEF RecvListen, Recv, NotBusy, Selects, shimVars, CtxType
  <2>2. ListenerInv' /\ ChannelOk(c)'
    BY <1>I, <2>1 DEF ListenerInv, ChannelOk, Armed
  <2>3. \A d \in Channels \ {c} : Armed(d) => Armed(d)'
    BY <2>1 DEF Armed
  <2> QED
    BY <1>C, <2>1, <2>2, <2>3
<1>6. ASSUME NEW c \in Channels, Send(c) PROVE TableInv'
  <2>1. /\ UNCHANGED <<chState, listener, accepted, state>> /\ event' = [event EXCEPT ![c] = {}]
        /\ pc = "idle" /\ pc' = "send" /\ rest = {} /\ rest' = {} /\ pend' = None
        /\ sel' = c /\ ix' = c /\ chState[c] = "TCP"
    BY <1>6 DEF TableAssumption, Send, Selects
  <2>2. CallInv' /\ ListenerInv'
    BY <1>I, <2>1 DEF CallInv, ListenerInv
  <2>3. ASSUME NEW d \in Channels PROVE ChannelOk(d)'
    BY <1>T, <1>I, <2>1, <2>3 DEF ChannelOk, Armed, CtxType
  <2> QED
    BY <2>2, <2>3 DEF TableInv
<1>7. ASSUME NEW c \in Channels, Close(c) PROVE TableInv'
  <2>1. /\ CloseChannel(c, {}) /\ pc = "idle" /\ pend = None /\ pend' = None
        /\ {} = rest \ {c} /\ {} \in SUBSET Channels
    BY <1>7 DEF Close, NotBusy
  <2> QED
    BY <2>1, CloseChannelTable
<1>8. CASE CloseSuspended
  <2>1. /\ pend \in Channels /\ chState[pend] = "TCP" /\ Released(pend) /\ pc = "idle"
        /\ pc' = "idle" /\ rest' = rest /\ pend' = None
    BY <1>T, <1>I, <1>8 DEF CloseSuspended, Selects, CallInv, ShimType
  <2> QED
    BY <2>1, ReleasedTable
<1>9. CASE Netdone
  <2>1. /\ UNCHANGED <<chState, state, event, pc, sel, ix, pend>> /\ pc = "idle" /\ pend = None
        /\ rest' = Channels /\ listener' = None /\ ~accepted'
    BY <1>9 DEF Netdone, Unarmed, NotBusy, ctxVars
  <2>2. CallInv' /\ ListenerInv'
    BY <1>I, <2>1 DEF CallInv, ListenerInv
  <2>3. ASSUME NEW d \in Channels PROVE ChannelOk(d)'
    BY <1>I, <2>1, <2>3 DEF ChannelOk, Armed
  <2> QED
    BY <2>2, <2>3 DEF TableInv
<1>10. CASE Netinit
  <2>1. /\ \A d \in Channels : chState'[d] = "FREE" /\ state'[d] = "CLOSED" /\ event'[d] = {}
        /\ listener' = None /\ ~accepted' /\ pc' = "idle" /\ rest' = {}
        /\ pend' = None
    BY <1>10 DEF Netinit, Unarmed, NotBusy, Selects
  <2> QED
    BY <2>1 DEF TableInv, CallInv, ListenerInv, ChannelOk
<1> QED
  BY <1>1, <1>2, <1>3, <1>4, <1>5, <1>6, <1>7, <1>8, <1>9, <1>10 DEF Calls

(* Between calls table and contexts agree, if the application lets RECV    *)
(* report the accept before it sends, and the wait of CONNECT never breaks *)
(* off: the card sends what it is given and the peers keep to the protocol,*)
(* or CONNECT is not called at all.                                        *)
THEOREM TableAgrees == ASSUME TableAssumption PROVE Spec => []TableMatchesContexts
<1>1. Init => TableInv
  BY DEF Init, TableInv, CallInv, ListenerInv, ChannelOk
<1>2. IInv /\ TableInv /\ [Next]_vars => TableInv'
  <2> SUFFICES ASSUME IInv, TableInv, [Next]_vars PROVE TableInv'
    OBVIOUS
  <2>1. CASE WaitEnds \/ Environment \/ UNCHANGED vars
    <3>1. UNCHANGED <<shimVars, ctxVars, pc, sel, ix, rest>>
      BY <2>1, EnvironmentLeavesCalls DEF WaitEnds, vars, callVars
    <3> QED
      BY <3>1 DEF TableInv, CallInv, ListenerInv, ChannelOk, Armed, shimVars, ctxVars
  <2> QED
    BY <2>1, CallsTable, CallStepsTable, FrameTable DEF Next
<1>3. TableInv => TableMatchesContexts
  BY DEF TableInv, CallInv, ListenerInv, ChannelOk, Armed, TableMatchesContexts
<1> QED
  BY <1>1, <1>2, <1>3, Invariant, PTL DEF Spec

=============================================================================
