----------------------------- MODULE El3Datapath -----------------------------
(* The polling datapath of the 3C509B driver: SEND_FRAME over TX_SESSION,   *)
(* the two-phase receive RX_BEGIN / RX_PAYLOAD / RX_DROP, READ_FRAME, and   *)
(* the command interface they share (lib/el3_fifo.asm, lib/el3_io.asm,      *)
(* lib/el3_regs.asm), against the card as docs/STAGE1_AUDIT.md describes it.*)
(* One thread calls the driver; the card works between any two of its steps.*)
(* Payload, lengths and their checks are left out: a received frame is good *)
(* or bad, and the transmit FIFO holds Slots frames.  The ISA window cannot *)
(* fail to open or close here, so EL3_ERR_ISA_STATE is left out as well.    *)
EXTENDS Naturals, Sequences

CONSTANTS
    Sends,      \* bound: calls of SEND_FRAME
    Arrivals,   \* bound: frames from the network
    Slots,      \* frames the transmit FIFO holds
    Depth,      \* depth of the card's TX status stack
    StaleMax,   \* status pops of .TXB_STALE (31)
    Attempts,   \* TX_ATTEMPTS_LEFT of a call (2)
    FreeQuanta, \* EL3_FIFO_WAIT_QUANTA
    Pending,    \* bound: commands the card has not finished when a call starts
    Slow        \* commands still in progress when the driver looks next

Commands == {"SelectWindow", "TxReset", "Thresholds", "TxEnable", "RxDiscard"}

ASSUME DatapathAssumption ==
    /\ {Sends, Arrivals, Slots, Depth, StaleMax, Attempts, FreeQuanta, Pending}
         \subseteq Nat \ {0}
    /\ Slow \subseteq Commands

VARIABLES
    \* the driver: where it is, the SENDs made, TX_ATTEMPTS_LEFT, status pops or
    \* waited quanta, commands left to issue and what follows them,
    \* CURRENT_WINDOW = 1, the status of the last call, the frame being read
    pc, sends, tries, count, todo, after, window, result, held,
    \* the card: transmitter enabled, transmit FIFO and status stack, commands in
    \* progress, receive FIFO, frames that have arrived
    txOn, txFifo, txStat, cip, rxFifo, arrived,
    \* history: how often each frame left, the SENDs that returned EL3_OK, the
    \* frames delivered (whose header, whose payload), those dropped or lost under
    \* an error status, and whether a receive ever overtook a discard
    left, oks, delivered, dropped, overtook

driverVars == <<pc, sends, tries, count, todo, after, window, result, held>>
txVars     == <<txOn, txFifo, txStat>>
rxVars     == <<rxFifo, arrived>>
histVars   == <<left, oks, delivered, dropped, overtook>>
vars       == <<driverVars, txVars, cip, rxVars, histVars>>

\* What a TX status asks for: nothing, TX reset (jabber, underrun), TX enable
\* (maximum collisions), TX enable without a retry (status overflow), nothing at
\* all (complete without the success bit).
TxResults == {"SENT", "RESET", "ENABLE", "OVERFLOW", "ODD"}
Results == {"OK", "CMD_TIMEOUT", "TX_TIMEOUT", "TX_ERROR", "RX_ERROR", "RX_TIMEOUT",
            "FRAME_SIZE", "NO_FRAME"}
Places  == {"idle", "cmd", "cip", "stale", "free", "poll", "retry",
            "begin", "held", "pending", "copied"}

TypeOK ==
    /\ pc \in Places /\ sends \in 0..Sends /\ tries \in 0..Attempts
    /\ count \in Nat /\ todo \in Seq(Commands)
    /\ after \in [ok : Places \cup Results, failed : Results]
    /\ window \in BOOLEAN /\ result \in Results /\ held \in 0..Arrivals
    /\ txOn \in BOOLEAN /\ txFifo \in Seq(1..Sends)
    /\ txStat \in Seq([call : 1..Sends, status : TxResults])
    /\ cip \in Seq(Commands) /\ arrived \in 0..Arrivals
    /\ rxFifo \in Seq([id : 1..Arrivals, good : BOOLEAN])
    /\ left \in [1..Sends -> Nat] /\ oks \subseteq 1..Sends
    /\ delivered \in Seq([header : 1..Arrivals, payload : 0..Arrivals])
    /\ dropped \subseteq 1..Arrivals /\ overtook \in BOOLEAN

\* The card after INIT.
Init ==
    /\ pc = "idle" /\ sends = 0 /\ tries = 0 /\ count = 0 /\ todo = <<>>
    /\ after = [ok |-> "idle", failed |-> "OK"]
    /\ window = TRUE /\ result = "OK" /\ held = 0
    /\ txOn = TRUE /\ txFifo = <<>> /\ txStat = <<>> /\ cip = <<>>
    /\ rxFifo = <<>> /\ arrived = 0
    /\ left = [n \in 1..Sends |-> 0] /\ oks = {} /\ delivered = <<>> /\ dropped = {}
    /\ overtook = FALSE

----------------------------------------------------------------------------
\* The card.

\* A TX reset empties the FIFO; whether the status stack survives it is not said.
Effect(c) ==
    /\ txOn' = CASE c = "TxReset" -> FALSE [] c = "TxEnable" -> TRUE [] OTHER -> txOn
    /\ txFifo' = IF c = "TxReset" THEN <<>> ELSE txFifo
    /\ txStat' \in (IF c = "TxReset" THEN {<<>>, txStat} ELSE {txStat})
    /\ rxFifo' = IF c = "RxDiscard" /\ rxFifo # <<>> THEN Tail(rxFifo) ELSE rxFifo

CommandEnds ==
    /\ cip # <<>> /\ Effect(Head(cip)) /\ cip' = Tail(cip)
    /\ UNCHANGED <<driverVars, arrived, histVars>>

\* Every TX error disables the transmitter, and its frame leaves the FIFO.
CardTransmits(st) ==
    /\ txOn /\ txFifo # <<>> /\ Len(txStat) < Depth
    /\ txFifo' = Tail(txFifo)
    /\ txStat' = Append(txStat, [call |-> Head(txFifo), status |-> st])
    /\ txOn' = (st \in {"SENT", "ODD"})
    /\ left' = IF st \in {"RESET", "ENABLE"} THEN left
               ELSE [left EXCEPT ![Head(txFifo)] = @ + 1]
    /\ UNCHANGED <<driverVars, cip, rxVars, oks, delivered, dropped, overtook>>

CardReceives(good) ==
    /\ arrived < Arrivals /\ arrived' = arrived + 1
    /\ rxFifo' = Append(rxFifo, [id |-> arrived', good |-> good])
    /\ UNCHANGED <<driverVars, txVars, cip, histVars>>

Card ==
    \/ CommandEnds
    \/ \E st \in TxResults : CardTransmits(st)
    \/ \E good \in BOOLEAN : CardReceives(good)

----------------------------------------------------------------------------
\* CMD, WAIT_CIP, SELECT_WINDOW and the recovery sequences.

\* CMD: a command the card executes at once, or one that stays in progress.  The
\* receiver does not wait for a command to the transmitter, nor the reverse.
Issue(c) ==
    IF c \notin Slow THEN Effect(c) /\ UNCHANGED cip
    ELSE cip' = Append(cip, c) /\ UNCHANGED <<txVars, rxFifo>>

Finish(st) == pc' = "idle" /\ result' = st
GoTo(p) == IF p \in Results THEN Finish(p) ELSE pc' = p /\ UNCHANGED result

\* Run a list of commands, then go on, or return a status when one times out.
Run(commands, ok, failed) ==
    /\ todo' = commands
    /\ after' = [ok |-> ok, failed |-> failed]
    /\ IF commands = <<>> THEN GoTo(ok) ELSE pc' = "cmd" /\ UNCHANGED result

SelectWindow == IF window THEN <<>> ELSE <<"SelectWindow">>
\* TX_RECOVER_RESET always selects the window again, RESET_COMMAND forgot it.
RecoverReset == <<"TxReset", "Thresholds", "TxEnable", "SelectWindow">>
RecoverEnable == <<"TxEnable">> \o SelectWindow

ResetKeepsWindow(c) == FALSE
ForgetsWindow(c) == c = "TxReset"

\* CMD_SYNC, first half.  SELECT_WINDOW stores the window before the command,
\* RESET_COMMAND invalidates it.
Command ==
    /\ pc = "cmd"
    /\ Issue(Head(todo)) /\ pc' = "cip"
    /\ window' = CASE ForgetsWindow(Head(todo)) -> FALSE
                   [] Head(todo) = "SelectWindow" -> TRUE
                   [] OTHER -> window
    /\ UNCHANGED <<sends, tries, count, todo, after, result, held, arrived, histVars>>

CipClear ==
    /\ pc = "cip" /\ cip = <<>>
    /\ todo' = Tail(todo)
    /\ IF todo' = <<>> THEN GoTo(after.ok) ELSE pc' = "cmd" /\ UNCHANGED result
    /\ UNCHANGED <<sends, tries, count, after, window, held, txVars, cip, rxVars, histVars>>

CipTimeout ==
    /\ pc = "cip" /\ cip # <<>>
    /\ Finish(after.failed) /\ todo' = <<>>
    /\ window' = IF Head(todo) = "SelectWindow" THEN FALSE ELSE window
    /\ dropped' = IF after.ok = "copied" THEN dropped \cup {held} ELSE dropped
    /\ UNCHANGED <<sends, tries, count, after, held, txVars, cip, rxVars, left, oks, delivered,
                   overtook>>

----------------------------------------------------------------------------
\* SEND_FRAME.

SendFrame ==
    /\ pc = "idle" /\ sends < Sends /\ Len(cip) < Pending
    /\ sends' = sends + 1 /\ tries' = Attempts /\ count' = 0
    /\ Run(SelectWindow, "stale", "CMD_TIMEOUT")
    /\ UNCHANGED <<window, held, txVars, cip, rxVars, histVars>>

HasStale == txStat # <<>> /\ count < StaleMax
\* .TXB_STALE: statuses of earlier frames are popped, a bounded number of them.
StalePop ==
    /\ pc = "stale" /\ HasStale
    /\ txStat' = Tail(txStat) /\ count' = count + 1
    /\ UNCHANGED <<pc, sends, tries, todo, after, window, result, held, txOn, txFifo, cip,
                   rxVars, histVars>>

StaleDone ==
    /\ pc = "stale" /\ ~HasStale
    /\ pc' = "free" /\ count' = 0
    /\ UNCHANGED <<sends, tries, todo, after, window, result, held, txVars, cip, rxVars,
                   histVars>>

Write ==
    /\ pc = "free" /\ Len(txFifo) < Slots
    /\ txFifo' = Append(txFifo, sends) /\ pc' = "poll"
    /\ UNCHANGED <<sends, tries, count, todo, after, window, result, held, txOn, txStat, cip,
                   rxVars, histVars>>

TimeoutRetries == Run(RecoverReset, "retry", "TX_TIMEOUT")
\* A timeout recovers the transmitter, whose failure is ignored, and never resends.
TxTimeout == Run(RecoverReset, "TX_TIMEOUT", "TX_TIMEOUT")

\* TX_FREE too small, also because it lags behind a frame that has left.
FreeWait ==
    /\ pc = "free"
    /\ count' = count + 1
    /\ IF count' >= FreeQuanta THEN TxTimeout
       ELSE UNCHANGED <<pc, todo, after, result>>
    /\ UNCHANGED <<sends, tries, window, held, txVars, cip, rxVars, histVars>>

OverflowReturns == GoTo("TX_ERROR") /\ UNCHANGED <<todo, after>>
Overflow == Run(RecoverEnable, "TX_ERROR", "CMD_TIMEOUT")

\* The completed status is popped, then judged.
Complete ==
    /\ pc = "poll" /\ txStat # <<>>
    /\ txStat' = Tail(txStat)
    /\ LET st == Head(txStat).status
       IN  /\ CASE st = "RESET"  -> Run(RecoverReset, "retry", "CMD_TIMEOUT")
                [] st = "ENABLE" -> Run(RecoverEnable, "retry", "CMD_TIMEOUT")
                [] st = "OVERFLOW" -> Overflow
                [] st = "ODD"    -> GoTo("TX_ERROR") /\ UNCHANGED <<todo, after>>
                [] st = "SENT"   -> GoTo("OK") /\ UNCHANGED <<todo, after>>
           /\ oks' = IF st = "SENT" THEN oks \cup {sends} ELSE oks
    /\ UNCHANGED <<sends, tries, count, window, held, txOn, txFifo, cip, rxVars, left,
                   delivered, dropped, overtook>>

\* Neither 256 polls nor the one after the last millisecond found a status.
PollTimeout ==
    /\ pc = "poll" /\ txStat = <<>>
    /\ TxTimeout
    /\ UNCHANGED <<sends, tries, count, window, held, txVars, cip, rxVars, histVars>>

TriesKept == tries
TriesLeft == tries - 1

Retry ==
    /\ pc = "retry"
    /\ tries' = TriesLeft
    /\ IF tries' = 0 THEN GoTo("TX_ERROR") ELSE GoTo("stale")
    /\ count' = 0
    /\ UNCHANGED <<sends, todo, after, window, held, txVars, cip, rxVars, histVars>>

----------------------------------------------------------------------------
\* Receive.

\* RX_BEGIN, and RX_PENDING of READ_FRAME: with the window known neither waits
\* for a command in progress.
Receive(p) ==
    /\ pc = "idle" /\ Len(cip) < Pending /\ Len(delivered) < Arrivals
    /\ Run(SelectWindow, p, "CMD_TIMEOUT")
    /\ UNCHANGED <<sends, tries, count, window, held, txVars, cip, rxVars, histVars>>

NothingReceived ==
    /\ pc \in {"begin", "pending"} /\ rxFifo = <<>>
    /\ Finish("NO_FRAME")
    /\ UNCHANGED <<sends, tries, count, todo, after, window, held, txVars, cip, rxVars,
                   histVars>>

DiscardTwice == <<"RxDiscard", "RxDiscard">>
\* RX_DISCARD_CURRENT.
Discard == <<"RxDiscard">>

\* History: the driver takes the entry at the head of the FIFO for a new one.  With a
\* discard of it still in progress that is the frame discarded.
Discarding == \E i \in DOMAIN cip : cip[i] = "RxDiscard"
TakeHead == overtook' = (overtook \/ Discarding)

\* A bad entry is dropped by the driver itself; RX_BEGIN ignores how that ends.
BadReceived ==
    /\ pc \in {"begin", "pending"} /\ rxFifo # <<>> /\ ~Head(rxFifo).good
    /\ dropped' = dropped \cup {Head(rxFifo).id} /\ TakeHead
    /\ Run(Discard, "RX_ERROR", IF pc = "begin" THEN "RX_ERROR" ELSE "RX_TIMEOUT")
    /\ UNCHANGED <<sends, tries, count, window, held, txVars, cip, rxVars, left, oks,
                   delivered>>

\* RX_BEGIN copies the header and leaves the frame queued.
HeaderRead ==
    /\ pc = "begin" /\ rxFifo # <<>> /\ Head(rxFifo).good
    /\ held' = Head(rxFifo).id /\ pc' = "held" /\ TakeHead
    /\ UNCHANGED <<sends, tries, count, todo, after, window, result, txVars, cip, rxVars,
                   left, oks, delivered, dropped>>

\* The frame the payload comes from: whatever is at the head of the FIFO now.
AtHead == IF rxFifo = <<>> THEN 0 ELSE Head(rxFifo).id

\* RX_PAYLOAD: the rest of the frame, and RX_DISCARD without waiting for CIP.
RxPayload ==
    /\ pc = "held"
    /\ delivered' = Append(delivered, [header |-> held, payload |-> AtHead])
    /\ Issue("RxDiscard") /\ Finish("OK")
    /\ UNCHANGED <<sends, tries, count, todo, after, window, held, arrived, left, oks, dropped,
                   overtook>>

RxDrop ==
    /\ pc = "held"
    /\ dropped' = dropped \cup {held}
    /\ Issue("RxDiscard") /\ Finish("OK")
    /\ UNCHANGED <<sends, tries, count, todo, after, window, held, arrived, left, oks, delivered,
                   overtook>>

\* READ_FRAME with room for the frame reads it whole, then discards it and waits.
FrameRead ==
    /\ pc = "pending" /\ rxFifo # <<>> /\ Head(rxFifo).good
    /\ held' = Head(rxFifo).id /\ TakeHead
    /\ Run(Discard, "copied", "RX_TIMEOUT")
    /\ UNCHANGED <<sends, tries, count, window, txVars, cip, rxVars, left, oks, delivered,
                   dropped>>

FrameTooLong ==
    /\ pc = "pending" /\ rxFifo # <<>> /\ Head(rxFifo).good
    /\ dropped' = dropped \cup {Head(rxFifo).id} /\ TakeHead
    /\ Run(Discard, "FRAME_SIZE", "RX_TIMEOUT")
    /\ UNCHANGED <<sends, tries, count, window, held, txVars, cip, rxVars, left, oks, delivered>>

FrameReturned ==
    /\ pc = "copied"
    /\ delivered' = Append(delivered, [header |-> held, payload |-> held])
    /\ Finish("OK")
    /\ UNCHANGED <<sends, tries, count, todo, after, window, held, txVars, cip, rxVars, left,
                   oks, dropped, overtook>>

----------------------------------------------------------------------------

Sending == StalePop \/ StaleDone \/ Write \/ FreeWait \/ Complete \/ PollTimeout \/ Retry
Receiving ==
    \/ NothingReceived \/ BadReceived \/ HeaderRead \/ RxPayload \/ RxDrop
    \/ FrameRead \/ FrameTooLong \/ FrameReturned
Driver == Command \/ CipClear \/ CipTimeout \/ Sending \/ Receiving
Call == SendFrame \/ \E p \in {"begin", "pending"} : Receive(p)

Next == Call \/ Driver \/ Card

\* The Z80 runs on; the card owes nothing.
Fairness == WF_vars(Driver)

Spec == Init /\ [][Next]_vars /\ Fairness

----------------------------------------------------------------------------

(* A frame leaves at most once per SEND_FRAME, in spite of the retries     *)
(* after jabber, underrun and collisions: a timeout recovers the           *)
(* transmitter but never resends a frame whose fate is not known.          *)
SentAtMostOnce == \A n \in 1..Sends : left[n] <= 1

(* EL3_OK means that this frame left, not an earlier one whose status came *)
(* late: a failed recovery must not leave a frame in the card that the     *)
(* next SEND_FRAME takes for its own.                                      *)
OkMeansSent == \A n \in oks : left[n] = 1

(* A SEND_FRAME that ends in EL3_OK or a transmit error leaves the         *)
(* transmitter enabled for the next one: each error that disables it is    *)
(* recovered from before the call returns.                                 *)
TransmitterReady ==
    pc = "idle" /\ result \in {"OK", "TX_ERROR"} /\ sends > 0 /\ cip = <<>>
    /\ (result = "TX_ERROR" \/ sends \in oks)
        => txOn

(* Every frame the card received is delivered whole, once and in order,    *)
(* was dropped or reported lost, or still waits in the card: none is read  *)
(* twice and none discarded unread.  The code does not keep this: with the *)
(* window cached nothing stops the next RX_BEGIN from overtaking the       *)
(* RX_DISCARD that RX_PAYLOAD and RX_DROP do not wait for.                 *)
WholeAndInOrder ==
    /\ \A i \in DOMAIN delivered :
         /\ delivered[i].payload = delivered[i].header
         /\ \A j \in 1..(i - 1) : delivered[j].header < delivered[i].header
    /\ pc = "idle" =>
         \A id \in 1..arrived :
             \/ id \in dropped
             \/ \E i \in DOMAIN delivered : delivered[i].header = id
             \/ \E i \in DOMAIN rxFifo : rxFifo[i].id = id

(* That overtaking is the only way to lose it.  Until a receive takes a    *)
(* frame still being discarded for the next one, whichever receive path    *)
(* runs, however late the card finishes a discard and whichever waits for  *)
(* it time out, every frame is delivered whole, once and in order, was     *)
(* dropped or reported lost, or still waits.                               *)
FramesWholeInOrder == ~overtook => WholeAndInOrder

(* Every call of the driver returns: each wait is bounded and so are the   *)
(* retries, whatever the card does.                                        *)
CallReturns == pc # "idle" ~> pc = "idle"

=============================================================================
