---------------------------- MODULE UnetChannels ----------------------------
(***************************************************************************)
(* The life of the two channels of UNET509B.DLL: the shim's channel table, *)
(* its one listener and its suspended SEND (dll/unet509b.asm) over the TCP *)
(* contexts of lib/tcp_transport.asm: active and passive opening, the      *)
(* half-open handshake, RECV as what progresses an accept, the orderly     *)
(* CLOSE with its retransmitted FIN and the abort.                         *)
(*                                                                         *)
(* Nothing runs between calls: a frame is handled inside the wait of the   *)
(* call in progress, whichever channel it is for.  A remote is one         *)
(* connection attempt with its own tuple; its frames and ours may be lost, *)
(* delayed or repeated.  Payload is left out: TcpSend and TcpReceive.      *)
(***************************************************************************)
EXTENDS Naturals

CONSTANTS
    Clients,        \* remote attempts to connect to the listener
    Servers,        \* remote hosts CONNECT is called for
    SynAttempts,    \* SYN_ATTEMPTS
    CloseAttempts,  \* CLOSE_ATTEMPTS
    CardFaults,     \* the card may fail to send, and the user may press Esc
    PeerBreaks,     \* segments a conforming peer does not send
    EarlySend,      \* SEND before RECV has reported the accept
    None            \* no channel (0xFF), no remote

ASSUME ConstAssumption ==
    /\ SynAttempts \in Nat \ {0} /\ CloseAttempts \in Nat \ {0}
    /\ {CardFaults, PeerBreaks, EarlySend} \subseteq BOOLEAN
    /\ None \notin Clients \cup Servers \cup {0, 1}

VARIABLES
    \* the shim: UNET_CH_STATE, UNET_LISTEN_CHANNEL, UNET_LISTEN_ACCEPTED, the owner
    \* of a suspended SEND (UNET_APEND_*)
    chState, listener, accepted, pend,
    \* per context: CTX_STATE, CTX_EVENT, the remote tuple, CTX_REMOTE_FIN, and
    \* SND.UNA # SND.NXT
    state, event, remote, fin, flight,
    \* the call in progress: its kind, S11_SELECTED_CONTEXT, the context IX names, the
    \* status of its wait, CTX_RETRY_LEFT, channels NETDONE has yet to close
    pc, sel, ix, wait, retry, rest,
    \* the remotes, who of them got our FIN, and the segments that left the card
    peer, heard, sent

shimVars == <<chState, listener, accepted, pend>>
ctxVars  == <<state, event, remote, fin, flight>>
callVars == <<pc, sel, ix, wait, retry, rest>>
peerVars == <<peer, heard>>
vars     == <<shimVars, ctxVars, callVars, peerVars, sent>>

Channels == {0, 1}
Remotes == Clients \cup Servers
States == {"CLOSED", "SYN_SENT", "ESTABLISHED", "CLOSE_WAIT", "FIN_WAIT", "LISTEN",
           "SYN_RECEIVED"}
Events == {"ACK", "FIN", "RST", "SYN_ACK"}

TypeOK ==
    /\ chState \in [Channels -> {"FREE", "TCP", "UDP", "LISTENING"}]
    /\ listener \in Channels \cup {None} /\ accepted \in BOOLEAN
    /\ pend \in Channels \cup {None}
    /\ state \in [Channels -> States] /\ event \in [Channels -> SUBSET Events]
    /\ remote \in [Channels -> Remotes \cup {None}]
    /\ fin \in [Channels -> BOOLEAN] /\ flight \in [Channels -> BOOLEAN]
    /\ pc \in {"idle", "open", "accept", "recv", "send", "close"} /\ {sel, ix} \subseteq Channels
    /\ wait \in {"polling", "TIMEOUT", "CANCEL", "HW", "PROTOCOL"}
    /\ retry \in (IF pc = "open" THEN 1..SynAttempts
                  ELSE IF pc = "close" THEN 1..CloseAttempts ELSE {0})
    /\ rest \subseteq Channels
    /\ peer \in [Remotes -> {"none", "syn", "open", "half", "gone"}]
    /\ heard \subseteq Remotes
    /\ sent \subseteq Remotes \X {"SYN", "SYNACK", "FIN"}

Init ==
    /\ chState = [c \in Channels |-> "FREE"] /\ listener = None /\ accepted = FALSE
    /\ pend = None
    /\ state = [c \in Channels |-> "CLOSED"] /\ event = [c \in Channels |-> {}]
    /\ remote = [c \in Channels |-> None] /\ fin = [c \in Channels |-> FALSE]
    /\ flight = [c \in Channels |-> FALSE]
    /\ pc = "idle" /\ sel = 0 /\ ix = 0 /\ wait = "polling" /\ retry = 0 /\ rest = {}
    /\ peer = [a \in Remotes |-> "none"] /\ heard = {} /\ sent = {}

----------------------------------------------------------------------------
\* Contexts and channels.

\* Context c afterwards: its state, events, remote and FIN.
Context(c, st, ev, a, f) ==
    /\ state' = [state EXCEPT ![c] = st] /\ event' = [event EXCEPT ![c] = ev]
    /\ remote' = [remote EXCEPT ![c] = a] /\ fin' = [fin EXCEPT ![c] = f]
    /\ flight' = [flight EXCEPT ![c] = (flight[c] /\ a # None)]
Cleared(c) == Context(c, "CLOSED", {}, None, FALSE)
Listening(c) == Context(c, "LISTEN", {}, None, FALSE)

Unarmed == listener' = None /\ accepted' = FALSE
CallReturns == pc' = "idle" /\ ix' = sel /\ wait' = "polling" /\ retry' = 0
\* SELECT_CONTEXT.
Selects(c) == sel' = c /\ ix' = c

NotCounted(n) == n
CountedTwice(n) == n - 2
\* CTX_RETRY_LEFT after an unanswered attempt.
Counted(n) == n - 1

Outcomes == IF CardFaults THEN BOOLEAN ELSE {TRUE}
\* A segment of the kinds that matter to a remote that is still there.  (An RST tells
\* it what it may do at any time by itself, so none is kept.)
Left(a, kind, left) ==
    sent' = IF left /\ peer[a] # "gone" THEN sent \cup {<<a, kind>>} ELSE sent

RearmsAny(c) == listener # None
\* IS_ACCEPTED_LISTEN: channel c carries the connection the listener accepted.
Rearms(c) == accepted /\ listener = c

\* RELEASE_OR_REARM over CLEAR_CONTEXT.
Released(c) ==
    IF Rearms(c)
    THEN /\ Listening(listener) /\ accepted' = FALSE
         /\ chState' = [chState EXCEPT ![listener] = "LISTENING"]
         /\ UNCHANGED listener
    ELSE /\ Cleared(c) /\ chState' = [chState EXCEPT ![c] = "FREE"]
         /\ UNCHANGED <<listener, accepted>>

PendIgnored(c) == pc = "idle" /\ rest = {}
\* CHECK_ASYNC_PEND: a suspended SEND makes every other call NERR_BUSY.
NotBusy(c) == pc = "idle" /\ rest = {} /\ pend = None

----------------------------------------------------------------------------
\* Opening.

\* LISTEN: one listener at a time, on a free channel.
Listen(c) ==
    /\ NotBusy(c) /\ listener = None /\ chState[c] = "FREE"
    /\ Listening(c) /\ listener' = c /\ accepted' = FALSE
    /\ chState' = [chState EXCEPT ![c] = "LISTENING"] /\ Selects(c)
    /\ UNCHANGED <<pend, pc, wait, retry, rest, peerVars, sent>>

\* UNLISTEN: before an accept the context goes (an RST tells a half-open peer); an
\* accepted connection stays as an ordinary channel.
Unlisten(c) ==
    /\ NotBusy(c) /\ listener = c /\ Unarmed
    /\ IF accepted
       THEN UNCHANGED <<chState, ctxVars, sel, ix>>
       ELSE Cleared(c) /\ chState' = [chState EXCEPT ![c] = "FREE"] /\ Selects(c)
    /\ UNCHANGED <<pend, pc, wait, retry, rest, peerVars, sent>>

\* UDPOPEN, once the route is resolved.
UdpOpen(c) ==
    /\ NotBusy(c) /\ chState[c] = "FREE"
    /\ chState' = [chState EXCEPT ![c] = "UDP"]
    /\ UNCHANGED <<listener, accepted, pend, ctxVars, callVars, peerVars, sent>>

\* CONNECT: OPEN_SAFE up to its first SYN.
Connect(c, a) ==
    /\ NotBusy(c) /\ chState[c] = "FREE" /\ state[c] = "CLOSED" /\ peer[a] = "none"
    /\ pc' = "open" /\ Selects(c) /\ retry' = SynAttempts
    /\ Context(c, "SYN_SENT", {}, a, FALSE)
    /\ \E left \in Outcomes :
         Left(a, "SYN", left) /\ wait' = IF left THEN "polling" ELSE "HW"
    /\ UNCHANGED <<shimVars, rest, peerVars>>

\* The wait of .SYN_TRY ends: another SYN, FAIL_CONTEXT, or an open channel.
\* FAIL_CONTEXT closes the context IX names after the wait.
SynRetry ==
    /\ pc = "open" /\ wait = "TIMEOUT" /\ retry > 1 /\ retry' = Counted(retry)
    /\ event' = [event EXCEPT ![sel] = {}]
    /\ \E left \in Outcomes :
         Left(remote[sel], "SYN", left) /\ wait' = IF left THEN "polling" ELSE "HW"
    /\ UNCHANGED <<shimVars, state, remote, fin, flight, pc, sel, ix, rest, peerVars>>
OpenFails ==
    /\ pc = "open"
    /\ \/ wait \notin {"polling", "TIMEOUT"}
       \/ wait = "TIMEOUT" /\ retry = 1
       \/ wait = "polling" /\ "RST" \in event[sel]
    /\ CallReturns
    /\ state' = [state EXCEPT ![ix] = "CLOSED"]
    /\ event' = [event EXCEPT ![sel] = IF wait = "polling" THEN @ \ {"SYN_ACK", "RST"} ELSE @]
    /\ UNCHANGED <<shimVars, remote, fin, flight, sel, rest, peerVars, sent>>
OpenSucceeds ==
    /\ pc = "open" /\ wait = "polling" /\ event[sel] \cap {"SYN_ACK", "RST"} = {"SYN_ACK"}
    /\ CallReturns
    /\ event' = [event EXCEPT ![sel] = @ \ {"SYN_ACK"}]
    /\ chState' = [chState EXCEPT ![sel] = "TCP"]
    /\ UNCHANGED <<listener, accepted, pend, state, remote, fin, flight, sel, rest,
                   peerVars, sent>>

----------------------------------------------------------------------------
\* RECV.

\* RECV on the listening channel is ACCEPT_POLL, which waits for an event raised
\* from now on.
RecvListen(c) ==
    /\ NotBusy(c) /\ chState[c] = "LISTENING"
    /\ pc' = "accept" /\ Selects(c)
    /\ event' = [event EXCEPT ![c] = @ \ {"SYN_ACK", "RST"}]
    /\ UNCHANGED <<shimVars, state, remote, fin, flight, wait, retry, rest, peerVars, sent>>

AcceptIdle ==
    /\ pc = "accept" /\ (wait # "polling" \/ "RST" \in event[sel])
    /\ CallReturns
    /\ event' = [event EXCEPT ![sel] = IF wait = "polling" THEN @ \ {"SYN_ACK", "RST"} ELSE @]
    /\ UNCHANGED <<shimVars, state, remote, fin, flight, sel, rest, peerVars, sent>>

\* An accept goes on as the RECV of the new connection.
Accept ==
    /\ pc = "accept" /\ wait = "polling" /\ event[sel] \cap {"SYN_ACK", "RST"} = {"SYN_ACK"}
    /\ pc' = "recv" /\ accepted' = TRUE
    /\ chState' = [chState EXCEPT ![sel] = "TCP"]
    /\ event' = [event EXCEPT ![sel] = @ \ {"SYN_ACK"}]
    /\ UNCHANGED <<listener, pend, state, remote, fin, flight, sel, ix, wait, retry, rest,
                   peerVars, sent>>

Recv(c) ==
    /\ NotBusy(c) /\ chState[c] = "TCP"
    /\ pc' = "recv" /\ Selects(c)
    /\ event' = [event EXCEPT ![c] = IF fin[c] \/ state[c] = "CLOSED" THEN @
                                     ELSE @ \ {"FIN", "RST"}]
    /\ UNCHANGED <<shimVars, state, remote, fin, flight, wait, retry, rest, peerVars, sent>>

\* MAP_RECV_FAIL: all of these are NERR_CLOSED.
RecvFails ==
    fin[sel] \/ state[sel] = "CLOSED" \/ wait \in {"HW", "PROTOCOL"}

\* NERR_CLOSED releases the channel; data, a timeout or Esc leave it as it is.
RecvReleases ==
    /\ pc = "recv" /\ RecvFails
    /\ Released(sel) /\ CallReturns
    /\ UNCHANGED <<pend, sel, rest, peerVars, sent>>
RecvReturns ==
    /\ pc = "recv" /\ wait \notin {"HW", "PROTOCOL"}
    /\ CallReturns
    /\ UNCHANGED <<shimVars, ctxVars, sel, rest, peerVars, sent>>

----------------------------------------------------------------------------
\* SEND: what it does to the channel.

\* A new SEND, or the resumption of the suspended one.
Send(c) ==
    /\ pc = "idle" /\ rest = {} /\ pend \in {None, c}
    /\ chState[c] = "TCP" \/ (EarlySend /\ chState[c] = "LISTENING")
    /\ state[c] \in {"ESTABLISHED", "CLOSE_WAIT"} /\ (flight[c] => pend = c)
    /\ pc' = "send" /\ Selects(c) /\ pend' = None
    /\ event' = [event EXCEPT ![c] = {}]
    /\ UNCHANGED <<chState, listener, accepted, state, remote, fin, flight, wait, retry,
                   rest, peerVars, sent>>

\* It returns with its bytes acknowledged or not, or as NERR_AGAIN.
SendReturns ==
    /\ pc = "send" /\ "RST" \notin event[sel]
    /\ CallReturns
    /\ \E f \in BOOLEAN : flight' = [flight EXCEPT ![sel] = f]
    /\ pend' \in (IF wait = "polling" THEN {None, sel} ELSE {None})
    /\ UNCHANGED <<chState, listener, accepted, state, event, remote, fin, sel, rest,
                   peerVars, sent>>

\* TCP_ERR_RESET is the one failure that releases the channel.
SendReset ==
    /\ pc = "send" /\ "RST" \in event[sel]
    /\ Released(sel) /\ CallReturns
    /\ UNCHANGED <<pend, sel, rest, peerVars, sent>>

----------------------------------------------------------------------------
\* CLOSE.

EventsKept == event[sel']
\* TCP_CLOSE_PLAN: only an answer to this FIN ends the wait.
EventsForClose == event[sel'] \ {"ACK", "FIN", "RST"}

\* CLOSE_CHANNEL with NETDONE's remaining channels in rs.  The planner's three
\* cases: nothing on the wire, an abort, a FIN to wait for.
CloseChannel(c, rs) ==
    /\ Selects(c) /\ rest' = rs
    /\ \/ /\ chState[c] = "LISTENING"
          /\ Cleared(c) /\ chState' = [chState EXCEPT ![c] = "FREE"] /\ Unarmed
          /\ UNCHANGED <<pc, wait, retry, sent>>
       \/ /\ chState[c] # "LISTENING"
          /\ \/ state[c] \in {"CLOSED", "LISTEN", "SYN_RECEIVED"}
             \/ state[c] = "SYN_SENT" \/ (state[c] \in {"ESTABLISHED", "CLOSE_WAIT"} /\ flight[c])
          /\ Released(c) /\ UNCHANGED <<pc, wait, retry, sent>>
       \/ /\ chState[c] # "LISTENING" /\ state[c] \in {"ESTABLISHED", "CLOSE_WAIT"} /\ ~flight[c]
          /\ Context(c, "FIN_WAIT", EventsForClose, remote[c], fin[c])
          /\ pc' = "close" /\ retry' = CloseAttempts
          /\ \E left \in Outcomes :
               Left(remote[c], "FIN", left) /\ wait' = IF left THEN "polling" ELSE "HW"
          /\ UNCHANGED <<chState, listener, accepted>>

Close(c) ==
    /\ NotBusy(c) /\ CloseChannel(c, {})
    /\ UNCHANGED <<pend, peerVars>>

\* CLOSE of the owner of a suspended SEND aborts it.
CloseSuspended ==
    /\ pc = "idle" /\ rest = {} /\ pend # None
    /\ Selects(pend) /\ pend' = None /\ Released(pend)
    /\ UNCHANGED <<pc, wait, retry, rest, peerVars, sent>>

\* NETDONE: the listener first, then both channels.
Netdone ==
    /\ NotBusy(0) /\ Unarmed /\ rest' = Channels
    /\ UNCHANGED <<chState, pend, ctxVars, pc, sel, ix, wait, retry, peerVars, sent>>
NetdoneNext ==
    /\ pc = "idle" /\ rest # {}
    /\ \E c \in rest : (\A d \in rest : c <= d) /\ CloseChannel(c, rest \ {c})
    /\ UNCHANGED <<pend, peerVars>>

\* NETINIT: TEARDOWN_LINK aborts both contexts; the card then comes up or not.
Netinit ==
    /\ NotBusy(0) /\ Unarmed
    /\ chState' = [c \in Channels |-> "FREE"] /\ Selects(1)
    /\ state' = [c \in Channels |-> "CLOSED"] /\ event' = [c \in Channels |-> {}]
    /\ remote' = [c \in Channels |-> None] /\ fin' = [c \in Channels |-> FALSE]
    /\ flight' = [c \in Channels |-> FALSE]
    /\ UNCHANGED <<pend, pc, wait, retry, rest, peerVars, sent>>

CloseAnswered == wait = "polling" /\ event[sel] \cap {"ACK", "FIN", "RST"} # {}

\* An unanswered FIN goes again; a retransmission the card loses is just silence.
FinRetry ==
    /\ pc = "close" /\ wait = "TIMEOUT" /\ retry > 1
    /\ retry' = Counted(retry) /\ wait' = "polling"
    /\ \E left \in Outcomes : Left(remote[sel], "FIN", left)
    /\ UNCHANGED <<shimVars, ctxVars, pc, sel, ix, rest, peerVars>>

MatchedContext == ix
\* IX is reloaded after the wait: an error can leave it on the other channel.
SelectedContext == sel

CloseReturns ==
    /\ pc = "close"
    /\ CloseAnswered \/ wait \notin {"polling", "TIMEOUT"} \/ (wait = "TIMEOUT" /\ retry = 1)
    /\ Released(SelectedContext) /\ CallReturns
    /\ UNCHANGED <<pend, sel, rest, peerVars, sent>>

----------------------------------------------------------------------------
\* Frames, in the wait of whatever call is polling.

Mask == CASE pc \in {"open", "accept"} -> {"SYN_ACK", "RST"}
          [] pc = "recv" -> {"FIN", "RST"}
          [] pc = "send" -> {"RST"}
          [] pc = "close" -> {"ACK", "FIN", "RST"}
          [] OTHER -> {}
Polling == pc # "idle" /\ wait = "polling" /\ event[sel] \cap Mask = {}

\* MATCH_CONTEXT, then .TRY_LISTEN.
Matches(c, a) == remote[c] = a /\ state[c] \notin {"CLOSED", "LISTEN"}
Matched(c, a) ==
    \/ Matches(c, a)
    \/ state[c] = "LISTEN" /\ \A d \in Channels : ~Matches(d, a)

\* A reply the card cannot send ends the wait, with IX on the frame's context.
Replied(c, left) ==
    IF left THEN UNCHANGED <<wait, ix>> ELSE wait' = "HW" /\ ix' = c
FrameEffect == UNCHANGED <<shimVars, pc, sel, retry, rest, peerVars>>

\* HANDLE_PASSIVE_SYN, or the repeated SYN of a half-open peer: SYN|ACK.
FrameSyn(c, a) ==
    /\ Polling /\ Matched(c, a) /\ peer[a] # "none"
    /\ state[c] \in {"LISTEN", "SYN_RECEIVED"}
    /\ Context(c, "SYN_RECEIVED", event[c], a, FALSE)
    /\ \E left \in Outcomes : Left(a, "SYNACK", left) /\ Replied(c, left)
    /\ FrameEffect

\* HANDLE_SYN_ACK.
FrameSynAck(c, a) ==
    /\ Polling /\ Matches(c, a) /\ state[c] = "SYN_SENT" /\ peer[a] = "open"
    /\ Context(c, "ESTABLISHED", event[c] \cup {"SYN_ACK", "ACK"}, a, FALSE)
    /\ \E left \in Outcomes : Replied(c, left)
    /\ UNCHANGED sent /\ FrameEffect

\* A segment that acknowledges all our bytes (acks) or only older ones, maybe with
\* the peer's FIN.  In SYN_RECEIVED it completes the handshake and is then handled
\* like any other, except that it raises no ACK event.
FrameSegment(c, a, hasFin, acks) ==
    /\ Polling /\ Matches(c, a) /\ peer[a] \in {"open", "half"}
    /\ state[c] \in {"SYN_RECEIVED", "ESTABLISHED", "CLOSE_WAIT", "FIN_WAIT"}
    /\ hasFin => peer[a] = "half"
    /\ acks /\ state[c] = "FIN_WAIT" => a \in heard
    /\ acks \/ state[c] # "SYN_RECEIVED"
    /\ LET opened == state[c] = "SYN_RECEIVED"
           ended == hasFin /\ ~fin[c]
       IN  /\ state' = [state EXCEPT ![c] = IF ended /\ @ # "FIN_WAIT" THEN "CLOSE_WAIT"
                                            ELSE IF opened THEN "ESTABLISHED" ELSE @]
           /\ event' = [event EXCEPT ![c] = @ \cup {e \in Events :
                             \/ e = "SYN_ACK" /\ opened
                             \/ e = "ACK" /\ acks /\ ~opened
                             \/ e = "FIN" /\ ended}]
           /\ fin' = [fin EXCEPT ![c] = @ \/ ended]
           /\ flight' = [flight EXCEPT ![c] = @ /\ ~acks]
    /\ \E left \in Outcomes : Replied(c, left)
    /\ UNCHANGED <<remote, sent>> /\ FrameEffect

\* An RST re-arms a half-open listener at once and ends any other connection.
FrameRst(c, a) ==
    /\ Polling /\ Matches(c, a) /\ peer[a] = "gone"
    /\ IF state[c] = "SYN_RECEIVED"
       THEN Context(c, "LISTEN", {"RST"}, None, FALSE)
       ELSE Context(c, "CLOSED", event[c] \cup {"RST"}, a, fin[c])
    /\ UNCHANGED <<wait, ix, sent>> /\ FrameEffect

\* An RST numbered 0 for the listening port: RCV.NXT of a listening context is 0,
\* and HANDLE_SEGMENT treats LISTEN like an open connection here.
FrameStrayRst(c) ==
    /\ PeerBreaks /\ Polling /\ state[c] = "LISTEN"
    /\ Context(c, "CLOSED", event[c] \cup {"RST"}, None, FALSE)
    /\ UNCHANGED <<wait, ix, sent>> /\ FrameEffect

\* .PROTOCOL: a payload above TCP_MSS closes the context and ends the wait.
FrameOversized(c, a) ==
    /\ PeerBreaks /\ Polling /\ Matches(c, a) /\ peer[a] = "open"
    /\ state[c] \in {"SYN_RECEIVED", "ESTABLISHED", "CLOSE_WAIT", "FIN_WAIT"}
    /\ Context(c, "CLOSED", IF state[c] = "SYN_RECEIVED" THEN event[c] \cup {"SYN_ACK"}
                            ELSE event[c], a, fin[c])
    /\ wait' = "PROTOCOL" /\ ix' = c
    /\ UNCHANGED sent /\ FrameEffect

\* The clock, Esc or a card error.
WaitEnds ==
    /\ Polling /\ wait' \in {"TIMEOUT"} \cup (IF CardFaults THEN {"CANCEL", "HW"} ELSE {})
    /\ UNCHANGED <<shimVars, ctxVars, pc, sel, ix, retry, rest, peerVars, sent>>

----------------------------------------------------------------------------
\* The remotes.  Whatever left the card may reach them, once or often, or never.

PeerCalls(a) ==
    /\ peer[a] = "none" /\ peer' = [peer EXCEPT ![a] = "syn"]
    /\ UNCHANGED <<shimVars, ctxVars, callVars, heard, sent>>
PeerOpens(a) ==
    /\ \/ a \in Clients /\ peer[a] = "syn" /\ <<a, "SYNACK">> \in sent
       \/ a \in Servers /\ peer[a] = "none" /\ <<a, "SYN">> \in sent
    /\ peer' = [peer EXCEPT ![a] = "open"]
    /\ UNCHANGED <<shimVars, ctxVars, callVars, heard, sent>>
PeerHearsFin(a) ==
    /\ <<a, "FIN">> \in sent /\ peer[a] \in {"open", "half"} /\ heard' = heard \cup {a}
    /\ UNCHANGED <<shimVars, ctxVars, callVars, peer, sent>>
PeerFinishes(a) ==
    /\ peer[a] = "open" /\ peer' = [peer EXCEPT ![a] = "half"]
    /\ UNCHANGED <<shimVars, ctxVars, callVars, heard, sent>>
PeerGoes(a) ==
    /\ peer[a] \in {"syn", "open", "half"} /\ peer' = [peer EXCEPT ![a] = "gone"]
    /\ heard' = heard \ {a} /\ sent' = {s \in sent : s[1] # a}
    /\ UNCHANGED <<shimVars, ctxVars, callVars>>

----------------------------------------------------------------------------
Calls ==
    \/ \E c \in Channels :
         \/ Listen(c) \/ Unlisten(c) \/ UdpOpen(c) \/ \E a \in Servers : Connect(c, a)
         \/ RecvListen(c) \/ Recv(c) \/ Send(c) \/ Close(c)
    \/ CloseSuspended \/ Netdone \/ Netinit
CallSteps ==
    \/ SynRetry \/ OpenFails \/ OpenSucceeds \/ AcceptIdle \/ Accept
    \/ RecvReleases \/ RecvReturns \/ SendReturns \/ SendReset
    \/ NetdoneNext \/ FinRetry \/ CloseReturns
Frame ==
    \E c \in Channels :
        \/ \E a \in Clients : FrameSyn(c, a)
        \/ \E a \in Servers : FrameSynAck(c, a)
        \/ \E a \in Remotes :
             \/ \E hasFin, acks \in BOOLEAN : FrameSegment(c, a, hasFin, acks)
             \/ FrameRst(c, a) \/ FrameOversized(c, a)
        \/ FrameStrayRst(c)
Environment ==
    \/ \E a \in Clients : PeerCalls(a)
    \/ \E a \in Remotes : PeerOpens(a) \/ PeerHearsFin(a) \/ PeerFinishes(a) \/ PeerGoes(a)

Next == Calls \/ CallSteps \/ Frame \/ WaitEnds \/ Environment

\* A call in progress runs on, its clock ends every wait, and the application polls
\* the channel it listens on.
Fairness ==
    /\ WF_vars(CallSteps) /\ WF_vars(WaitEnds)
    /\ \A c \in Channels : WF_vars(RecvListen(c))

Spec == Init /\ [][Next]_vars /\ Fairness

----------------------------------------------------------------------------
(* Between calls the shim's table and the TCP contexts agree: a free or UDP *)
(* channel holds no context that could still match frames (CONNECT would   *)
(* refuse it for good), a context listens only for the one listener, and   *)
(* the listener is armed, or serving the connection it accepted.           *)
TableMatchesContexts ==
    pc = "idle" /\ rest = {} =>
        /\ \A c \in Channels :
             /\ chState[c] \in {"FREE", "UDP"} => state[c] = "CLOSED"
             /\ state[c] \in {"LISTEN", "SYN_RECEIVED"} => listener = c /\ ~accepted
             /\ chState[c] = "LISTENING" => listener = c /\ ~accepted
             /\ state[c] \notin {"SYN_SENT", "FIN_WAIT"}
        /\ listener # None =>
             chState[listener] = (IF accepted THEN "TCP" ELSE "LISTENING")
        /\ listener = None => ~accepted

(* CLOSE reports an orderly close as answered only if the peer got the FIN, *)
(* or has ended its own side: no event of the time before CLOSE counts.    *)
OrderlyCloseAnswered ==
    pc = "close" /\ CloseAnswered =>
        \/ remote[sel] \in heard
        \/ peer[remote[sel]] \in {"half", "gone"}

(* While a SEND is suspended nothing else happens to either channel: every *)
(* call but its own resumption and its CLOSE is refused.                   *)
SuspendedSendIsAlone ==
    [][pend # None /\ pend' = pend =>
        UNCHANGED <<shimVars, ctxVars, callVars>> /\ sent' \subseteq sent]_vars

(* A call that returns leaves the connection of the other channel alone,   *)
(* however its wait ended and whichever channel the last frame was for.    *)
OtherChannelKept ==
    [][pc # "idle" /\ pc' = "idle" =>
        \A c \in Channels \ {sel} :
            /\ state'[c] = state[c] /\ event'[c] = event[c]
            /\ remote'[c] = remote[c] /\ fin'[c] = fin[c]]_vars

(* Every call returns: the attempts of CONNECT and CLOSE run out even if   *)
(* the other channel never falls silent.                                   *)
CallComesBack == pc # "idle" ~> pc = "idle"

(* unet.inc:115-117: polling RECV on the listening channel progresses the  *)
(* accept, and STATUS then reports the connection.                         *)
AcceptNotMissed ==
    pc = "accept" /\ wait = "TIMEOUT" => state[sel] \in {"LISTEN", "SYN_RECEIVED"}

(* tcp_transport.asm:947: an idle ACCEPT_POLL leaves LISTEN armed, be it a *)
(* timeout or a reset of the peer.                                         *)
ListenerStaysArmed ==
    \A c \in Channels : chState[c] = "LISTENING" => state[c] # "CLOSED"

(* tcp_transport.asm:2461: "a half-open peer that never completes must not *)
(* tie up the only listener".                                              *)
HalfOpenEnds ==
    \A c \in Channels : state[c] = "SYN_RECEIVED" ~> state[c] # "SYN_RECEIVED"

(* unet.inc:118: a close of the accepted connection re-arms LISTEN on the  *)
(* same port: the listener never points at a channel that is free.         *)
ListenerHasItsChannel ==
    pc = "idle" /\ rest = {} /\ listener # None => chState[listener] # "FREE"

(* unet.inc:81: NERR_CLOSED from RECV says that the peer closed.           *)
ClosedMeansPeerClosed ==
    pc = "recv" /\ RecvFails /\ remote[sel] # None
        => peer[remote[sel]] \in {"half", "gone"}

=============================================================================
