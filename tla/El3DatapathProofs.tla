-------------------------- MODULE El3DatapathProofs --------------------------
(* Proofs about the 3C509B datapath for every value of the constants and   *)
(* whatever the card does: a frame leaves at most once per SEND_FRAME,     *)
(* EL3_OK speaks of that frame, a call that ends well or in a transmit     *)
(* error leaves the transmitter enabled; and, until a receive overtakes a  *)
(* discard, every frame received is delivered whole, once and in order.    *)
EXTENDS El3Datapath, SequenceTheorems, TLAPS

\* The lists of commands the driver is ever in the middle of.
AfterReset   == <<"Thresholds", "TxEnable", "SelectWindow">>
EnableSelect == <<"TxEnable", "SelectWindow">>
Enable       == <<"TxEnable">>
Select       == <<"SelectWindow">>

Running    == pc \in {"cmd", "cip"}
\* The commands the card has not finished.
InProgress == {cip[i] : i \in 1..Len(cip)}

\* Which commands are run on the way to what.
Begins == {"stale", "begin", "pending"}
PlanInv ==
    Running =>
        /\ after.failed # "TX_ERROR"
        /\ \/ after.ok \in Begins /\ todo = Select
           \/ /\ after.ok \in {"retry", "TX_TIMEOUT"}
              /\ todo \in {RecoverReset, AfterReset, EnableSelect, Select}
           \/ after.ok \in {"retry", "TX_ERROR"} /\ todo \in {EnableSelect, Enable, Select}
           \/ after.ok \in {"RX_ERROR", "copied", "FRAME_SIZE"} /\ todo = Discard

\* The call is before its only write, or between two.
Trying == pc \in {"stale", "free", "retry"} \/ (Running /\ after.ok \in {"stale", "retry"})
Recovering == Running /\ after.ok \in {"retry", "TX_ERROR"}

\* A call that is under way has counted itself and has tries left, and a frame that
\* is being read is one that arrived.
CallInv ==
    /\ Trying \/ pc = "poll" => sends > 0 /\ tries > 0
    /\ pc \in {"held", "copied"} \/ (Running /\ after.ok = "copied") => held > 0

\* At most one frame or status of a frame is in the transmitter, and a frame there
\* has not left before.
FlightInv ==
    /\ Len(txFifo) + Len(txStat) <= 1
    /\ \A n \in 1..Sends : left[n] \in {0, 1} /\ (n > sends => left[n] = 0)
    /\ txFifo # <<>> => left[Head(txFifo)] = 0 /\ Head(txFifo) <= sends

\* While SEND_FRAME polls, all the card can complete is the frame of this call.
PollInv ==
    pc = "poll" =>
        \/ txFifo = <<sends>> /\ txStat = <<>> /\ left[sends] = 0
        \/ /\ txFifo = <<>> /\ txStat # <<>>
           /\ left[sends] = IF Head(txStat).status \in {"RESET", "ENABLE"} THEN 0 ELSE 1
           /\ Head(txStat).status \in {"SENT", "ODD"} => txOn

SendInv ==
    /\ Trying => left[sends] = 0
    /\ Trying /\ txFifo # <<>> => Head(txFifo) < sends
    /\ pc \in {"free", "retry"} \/ Recovering => txFifo = <<>> /\ txStat = <<>>
    /\ pc = "stale" => txFifo = <<>> /\ (count = 0 \/ txStat = <<>>)
    /\ Running /\ after.ok = "stale" => count = 0

\* A reset that is due or in progress is either waited for, or the window is not
\* known and the next call waits for it.
Settled == txFifo = <<>> /\ "TxReset" \notin InProgress
ResetInv ==
    /\ ~Settled => \/ pc = "poll" /\ "TxReset" \notin InProgress
                   \/ pc = "idle" /\ ~window
                   \/ Running /\ (after.ok \in Begins \/ todo = RecoverReset)
    /\ txFifo # <<>> => \/ pc = "poll" \/ (pc = "cmd" /\ todo = RecoverReset)
                        \/ "TxReset" \in InProgress
    /\ pc = "cip" /\ todo = RecoverReset => ~window

\* The transmitter is enabled where the driver may leave it as it is.
ReadyInv ==
    /\ pc = "idle" /\ result = "TX_ERROR" => txOn /\ Settled
    /\ sends \in oks =>
         /\ txOn /\ Settled /\ pc \notin {"stale", "free", "poll", "retry"}
         /\ Running => after.ok \notin {"stale", "retry", "TX_ERROR", "TX_TIMEOUT"}
    /\ pc = "retry" => txOn
    /\ Recovering /\ todo = Select => txOn
    /\ pc = "cip" /\ Recovering /\ todo \in {EnableSelect, Enable}
         => txOn \/ "TxEnable" \in InProgress
    /\ oks \subseteq 1..sends /\ \A n \in oks : left[n] = 1

TxInv == FlightInv /\ PollInv /\ SendInv /\ ResetInv /\ ReadyInv

\* Receive: the FIFO holds the last frames that arrived.  Those before, and the head
\* while the card is discarding it, are gone: delivered, dropped, or one that
\* READ_FRAME has copied and not yet returned.
DiscardDue == "RxDiscard" \in InProgress
OneDiscard ==
    \A i, j \in 1..Len(cip) : cip[i] = "RxDiscard" /\ cip[j] = "RxDiscard" => i = j
passed == arrived - Len(rxFifo)
gone == IF DiscardDue THEN passed + 1 ELSE passed
Copied == (pc = "cip" /\ after.ok = "copied") \/ pc = "copied"
QueueInv ==
    /\ OneDiscard /\ (DiscardDue => rxFifo # <<>>)
    /\ Len(rxFifo) <= arrived /\ \A i \in 1..Len(rxFifo) : rxFifo[i].id = passed + i
OrderInv ==
    \A i \in 1..Len(delivered) :
        /\ delivered[i].payload = delivered[i].header
        /\ delivered[i].header <= gone
        /\ Copied => delivered[i].header < held
        /\ \A j \in 1..(i - 1) : delivered[j].header < delivered[i].header
HeldInv ==
    /\ pc = "held" \/ (pc = "cmd" /\ after.ok = "copied")
         => ~DiscardDue /\ rxFifo # <<>> /\ Head(rxFifo).id = held
    /\ Copied => held = gone
    /\ pc = "cmd" /\ after.ok \in {"RX_ERROR", "FRAME_SIZE"}
         => ~DiscardDue /\ rxFifo # <<>> /\ Head(rxFifo).id \in dropped
GoneInv ==
    \A id \in 1..gone :
        \/ id \in dropped \/ (Copied /\ id = held)
        \/ \E i \in 1..Len(delivered) : delivered[i].header = id
ReceiveInv == QueueInv /\ OrderInv /\ HeldInv /\ GoneInv

----------------------------------------------------------------------------
(* The command lists, told apart by their heads.                           *)
LEMMA Plans ==
    /\ {Select, Enable, EnableSelect, AfterReset, RecoverReset, Discard}
         \subseteq Seq(Commands) \ {<<>>}
    /\ Head(Select) = "SelectWindow" /\ Tail(Select) = <<>>
    /\ Head(Enable) = "TxEnable" /\ Tail(Enable) = <<>>
    /\ Head(EnableSelect) = "TxEnable" /\ Tail(EnableSelect) = Select
    /\ Head(AfterReset) = "Thresholds" /\ Tail(AfterReset) = EnableSelect
    /\ Head(RecoverReset) = "TxReset" /\ Tail(RecoverReset) = AfterReset
    /\ Head(Discard) = "RxDiscard" /\ Tail(Discard) = <<>>
    /\ SelectWindow = IF window THEN <<>> ELSE Select
    /\ RecoverEnable = IF window THEN Enable ELSE EnableSelect
<1> USE DEF Select, Enable, EnableSelect, AfterReset, RecoverReset, Discard, Commands
<1>1. {Select, Enable, EnableSelect} \subseteq Seq(Commands) \ {<<>>}
  OBVIOUS
<1>2. {AfterReset, RecoverReset, Discard} \subseteq Seq(Commands) \ {<<>>}
  OBVIOUS
<1>3. /\ Head(Select) = "SelectWindow" /\ Tail(Select) = <<>>
      /\ Head(Enable) = "TxEnable" /\ Tail(Enable) = <<>>
      /\ Head(Discard) = "RxDiscard" /\ Tail(Discard) = <<>>
  OBVIOUS
<1>4. Head(EnableSelect) = "TxEnable" /\ Tail(EnableSelect) = Select
  OBVIOUS
<1>5. Head(AfterReset) = "Thresholds" /\ Tail(AfterReset) = EnableSelect
  OBVIOUS
<1>6. Head(RecoverReset) = "TxReset" /\ Tail(RecoverReset) = AfterReset
  OBVIOUS
<1>7. SelectWindow = IF window THEN <<>> ELSE Select
  BY DEF SelectWindow
<1>8. RecoverEnable = IF window THEN Enable ELSE EnableSelect
  <2>1. Enable \o <<>> = Enable
    BY <1>1, ConcatEmptySeq
  <2>2. Enable \o Select = EnableSelect
    <3>1. Enable \in Seq(Commands) /\ "SelectWindow" \in Commands
      OBVIOUS
    <3>2. Append(Enable, "SelectWindow") = Enable \o Select
      BY <3>1, AppendIsConcat
    <3> DEFINE both == Append(Enable, "SelectWindow")
    <3>3. both = EnableSelect
      <4>1. /\ both \in Seq(Commands) /\ Len(both) = Len(Enable) + 1
            /\ both[Len(Enable) + 1] = "SelectWindow" /\ both[1] = Enable[1]
        BY <3>1, AppendProperties
      <4>2. Len(Enable) = 1 /\ Enable[1] = "TxEnable"
        OBVIOUS
      <4>3. /\ EnableSelect \in Seq(Commands) /\ Len(EnableSelect) = 2
            /\ EnableSelect[1] = "TxEnable" /\ EnableSelect[2] = "SelectWindow"
        OBVIOUS
      <4> HIDE DEF both, Enable, EnableSelect
      <4>4. Len(both) = 2 /\ \A i \in 1..Len(both) : both[i] = EnableSelect[i]
        BY <4>1, <4>2, <4>3
      <4> QED
        BY <4>1, <4>3, <4>4, SeqEqual
    <3> QED
      BY <3>2, <3>3
  <2>3. RecoverEnable = Enable \o SelectWindow
    BY DEF RecoverEnable
  <2> HIDE DEF Enable, Select, EnableSelect
  <2> QED
    BY <1>7, <2>1, <2>2, <2>3
<1> QED
  BY <1>1, <1>2, <1>3, <1>4, <1>5, <1>6, <1>7, <1>8

LEMMA PlansDiffer ==
    /\ \A c \in {Select, Enable, EnableSelect, AfterReset, RecoverReset, Discard} : c # <<>>
    /\ \A c \in {Select, Enable, EnableSelect, AfterReset, Discard} : c # RecoverReset
    /\ \A c \in {Enable, EnableSelect, AfterReset} : c # Select
<1>1. \A c \in {Select, Enable, EnableSelect, AfterReset, RecoverReset, Discard} : c # <<>>
  BY Plans
<1>2. \A c \in {Select, Enable, EnableSelect, AfterReset, Discard} : Head(c) # Head(RecoverReset)
  BY Plans
<1>3. \A c \in {Enable, EnableSelect, AfterReset} : Head(c) # Head(Select)
  BY Plans
<1> QED
  BY <1>1, <1>2, <1>3

(* A sequence and its head and tail.                                       *)
LEMMA HeadTail ==
    ASSUME NEW S, NEW s \in Seq(S), s # <<>>
    PROVE  /\ Len(s) \in Nat \ {0} /\ Head(s) \in S /\ Head(s) = s[1]
           /\ Tail(s) \in Seq(S) /\ Len(Tail(s)) = Len(s) - 1
           /\ \A i \in 1..Len(Tail(s)) : Tail(s)[i] = s[i + 1]
<1>1. Len(s) \in Nat \ {0} /\ Head(s) = s[1]
  BY EmptySeq
<1>2. Head(s) \in S
  BY <1>1, ElementOfSeq
<1> QED
  BY <1>1, <1>2, HeadTailProperties

(* A command the card has not finished is forgotten when it ends, and      *)
(* joins the others when it is issued.                                     *)
LEMMA ProgressEmpty ==
    ASSUME cip = <<>>
    PROVE  InProgress = {}
BY DEF InProgress

LEMMA ProgressEnds ==
    ASSUME cip \in Seq(Commands), cip # <<>>, cip' = Tail(cip)
    PROVE  InProgress = InProgress' \cup {Head(cip)}
<1>1. /\ Len(cip) \in Nat \ {0} /\ Head(cip) = cip[1]
      /\ Len(cip') = Len(cip) - 1 /\ \A i \in 1..Len(cip') : cip'[i] = cip[i + 1]
  BY HeadTail
<1>2. ASSUME NEW i \in 1..Len(cip)
      PROVE  cip[i] \in InProgress' \cup {Head(cip)}
  <2>1. CASE i = 1
    BY <1>1, <2>1
  <2>2. CASE i # 1
    <3>1. i - 1 \in 1..Len(cip') /\ (i - 1) + 1 = i
      BY <1>1, <2>2
    <3>2. cip'[i - 1] = cip[i]
      BY <1>1, <3>1
    <3> QED
      BY <3>1, <3>2 DEF InProgress
  <2> QED
    BY <2>1, <2>2
<1>3. ASSUME NEW i \in 1..Len(cip')
      PROVE  cip'[i] \in InProgress
  <2>1. i + 1 \in 1..Len(cip)
    BY <1>1
  <2> QED
    BY <1>1, <2>1 DEF InProgress
<1>4. Head(cip) \in InProgress
  BY <1>1 DEF InProgress
<1> QED
  BY <1>2, <1>3, <1>4 DEF InProgress

LEMMA ProgressBegins ==
    ASSUME cip \in Seq(Commands), NEW c, cip' = Append(cip, c)
    PROVE  InProgress' = InProgress \cup {c}
<1>1. /\ Len(cip) \in Nat /\ Len(cip') = Len(cip) + 1 /\ cip'[Len(cip) + 1] = c
      /\ \A i \in 1..Len(cip) : cip'[i] = cip[i]
  <2>1. cip \in Seq(Commands \cup {c}) /\ c \in Commands \cup {c}
    BY SeqMonotonic
  <2> QED
    BY <2>1, AppendProperties
<1>2. 1..Len(cip') = (1..Len(cip)) \cup {Len(cip) + 1}
  BY <1>1
<1> QED
  BY <1>1, <1>2 DEF InProgress

(* What a command does to the card, at once or when it ends.               *)
LEMMA EffectStep ==
    ASSUME NEW c, Effect(c)
    PROVE  /\ c = "TxReset" => txOn' = FALSE /\ txFifo' = <<>> /\ txStat' \in {<<>>, txStat}
           /\ c # "TxReset" => txFifo' = txFifo /\ txStat' = txStat
                               /\ txOn' = IF c = "TxEnable" THEN TRUE ELSE txOn
           /\ c # "RxDiscard" \/ rxFifo = <<>> => rxFifo' = rxFifo
           /\ c = "RxDiscard" /\ rxFifo # <<>> => rxFifo' = Tail(rxFifo)
BY DEF Effect

(* Where GoTo and Run lead.                                                *)
LEMMA GoToStep ==
    ASSUME NEW p, GoTo(p)
    PROVE  /\ p \in Results => pc' = "idle" /\ result' = p
           /\ p \notin Results => pc' = p /\ result' = result
BY DEF GoTo, Finish

LEMMA RunStep ==
    ASSUME NEW commands, NEW ok, NEW failed, Run(commands, ok, failed)
    PROVE  /\ todo' = commands /\ after' = [ok |-> ok, failed |-> failed]
           /\ after'.ok = ok /\ after'.failed = failed
           /\ commands # <<>> => pc' = "cmd" /\ result' = result
           /\ commands = <<>> /\ ok \in Results => pc' = "idle" /\ result' = ok
           /\ commands = <<>> /\ ok \notin Results => pc' = ok /\ result' = result
BY DEF Run, GoTo, Finish

(* Where the status of a frame leads SEND_FRAME.                           *)
LEMMA CompleteLeads ==
    ASSUME TypeOK, Complete
    PROVE  /\ Head(txStat).status \in TxResults
           /\ \/ Head(txStat).status = "RESET" /\ Run(RecoverReset, "retry", "CMD_TIMEOUT")
              \/ Head(txStat).status = "ENABLE" /\ Run(RecoverEnable, "retry", "CMD_TIMEOUT")
              \/ Head(txStat).status = "OVERFLOW"
                   /\ Run(RecoverEnable, "TX_ERROR", "CMD_TIMEOUT")
              \/ Head(txStat).status = "ODD" /\ GoTo("TX_ERROR") /\ UNCHANGED <<todo, after>>
              \/ Head(txStat).status = "SENT" /\ GoTo("OK") /\ UNCHANGED <<todo, after>>
<1>1. Head(txStat) \in [call : 1..Sends, status : TxResults]
  BY HeadTail DEF Complete, TypeOK
<1>2. Head(txStat).status \in {"SENT", "RESET", "ENABLE", "OVERFLOW", "ODD"}
  BY <1>1 DEF TxResults
<1> QED
  BY <1>1, <1>2 DEF Complete, Overflow

----------------------------------------------------------------------------
(* The plans of the driver.                                                *)
LEMMA PlanStep ==
    ASSUME TypeOK, PlanInv, [Next]_vars
    PROVE  PlanInv'
<1> USE Plans DEF Running
<1>K. ASSUME UNCHANGED <<pc, todo, after>>
      PROVE  PlanInv'
  BY <1>K DEF PlanInv
<1>N. ASSUME pc' \notin {"cmd", "cip"}
      PROVE  PlanInv'
  BY <1>N DEF PlanInv
<1>1. CASE SendFrame
  <2>1. Run(SelectWindow, "stale", "CMD_TIMEOUT")
    BY <1>1 DEF SendFrame
  <2>2. CASE window
    <3>1. "stale" \notin Results
      BY DEF Results
    <3> QED
      BY <1>N, <2>1, <2>2, <3>1, RunStep
  <2>3. CASE ~window
    BY <2>1, <2>3, RunStep DEF PlanInv, Begins
  <2> QED
    BY <2>2, <2>3
<1>2. ASSUME NEW p \in {"begin", "pending"}, Receive(p)
      PROVE  PlanInv'
  <2>1. Run(SelectWindow, p, "CMD_TIMEOUT")
    BY <1>2 DEF Receive
  <2>2. CASE window
    <3>1. p \notin Results /\ p \notin {"cmd", "cip"}
      BY DEF Results
    <3> QED
      BY <1>N, <2>1, <2>2, <3>1, RunStep
  <2>3. CASE ~window
    BY <2>1, <2>3, RunStep DEF PlanInv, Begins
  <2> QED
    BY <2>2, <2>3
<1>3. CASE Command
  <2>1. pc = "cmd" /\ UNCHANGED <<todo, after>>
    BY <1>3 DEF Command
  <2> QED
    BY <2>1 DEF PlanInv
<1>4. CASE CipClear
  <2>1. /\ pc = "cip" /\ todo' = Tail(todo) /\ after' = after
        /\ IF todo' = <<>> THEN GoTo(after.ok) ELSE pc' = "cmd"
    BY <1>4 DEF CipClear
  <2>2. CASE todo' = <<>>
    <3>1. GoTo(after.ok)
      BY <2>1, <2>2
    <3>2. after.ok \notin {"cmd", "cip"}
      BY <2>1 DEF PlanInv, Begins
    <3> QED
      BY <1>N, <3>1, <3>2, GoToStep
  <2>3. CASE todo' # <<>>
    BY <2>1, <2>3 DEF PlanInv
  <2> QED
    BY <2>2, <2>3
<1>5. CASE CipTimeout
  BY <1>5, <1>N DEF CipTimeout, Finish
<1>6. CASE Sending
  <2>1. CASE StalePop
    BY <1>K, <2>1 DEF StalePop
  <2>2. CASE StaleDone \/ Write
    BY <1>N, <2>2 DEF StaleDone, Write
  <2>3. CASE TxTimeout
    BY <2>3, RunStep DEF TxTimeout, PlanInv
  <2>4. CASE FreeWait \/ PollTimeout
    BY <1>K, <2>3, <2>4 DEF FreeWait, PollTimeout
  <2>5. CASE Complete
    <3>1. \/ Run(RecoverReset, "retry", "CMD_TIMEOUT")
          \/ Run(RecoverEnable, "retry", "CMD_TIMEOUT")
          \/ Run(RecoverEnable, "TX_ERROR", "CMD_TIMEOUT")
          \/ GoTo("TX_ERROR") \/ GoTo("OK")
      BY <2>5, CompleteLeads
    <3>2. CASE Run(RecoverReset, "retry", "CMD_TIMEOUT")
      BY <3>2, RunStep DEF PlanInv
    <3>3. ASSUME NEW ok \in {"retry", "TX_ERROR"}, Run(RecoverEnable, ok, "CMD_TIMEOUT")
          PROVE  PlanInv'
      BY <3>3, RunStep DEF PlanInv
    <3>4. CASE GoTo("TX_ERROR") \/ GoTo("OK")
      BY <1>N, <3>4, GoToStep DEF Results
    <3> QED
      BY <3>1, <3>2, <3>3, <3>4
  <2>6. CASE Retry
    <3>1. GoTo("TX_ERROR") \/ GoTo("stale")
      BY <2>6 DEF Retry
    <3> QED
      BY <1>N, <3>1, GoToStep DEF Results
  <2> QED
    BY <1>6, <2>1, <2>2, <2>4, <2>5, <2>6 DEF Sending
<1>7. CASE Receiving
  <2>1. CASE NothingReceived \/ HeaderRead \/ RxPayload \/ RxDrop \/ FrameReturned
    BY <1>N, <2>1 DEF NothingReceived, HeaderRead, RxPayload, RxDrop, FrameReturned, Finish
  <2>2. ASSUME NEW ok \in {"RX_ERROR", "copied", "FRAME_SIZE"},
               NEW failed \in {"RX_ERROR", "RX_TIMEOUT"}, Run(Discard, ok, failed)
        PROVE  PlanInv'
    BY <2>2, RunStep DEF PlanInv
  <2>3. CASE BadReceived \/ FrameRead \/ FrameTooLong
    BY <2>2, <2>3 DEF BadReceived, FrameRead, FrameTooLong
  <2> QED
    BY <1>7, <2>1, <2>3 DEF Receiving
<1>8. CASE Card \/ UNCHANGED vars
  <2>1. UNCHANGED <<pc, todo, after>>
    BY <1>8 DEF Card, CommandEnds, CardTransmits, CardReceives, vars, driverVars
  <2> QED
    BY <1>K, <2>1
<1> QED
  BY <1>1, <1>2, <1>3, <1>4, <1>5, <1>6, <1>7, <1>8 DEF Next, Call, Driver

----------------------------------------------------------------------------
(* Type correctness.                                                       *)
DriverType ==
    /\ pc \in Places /\ sends \in 0..Sends /\ tries \in 0..Attempts
    /\ count \in Nat /\ todo \in Seq(Commands)
    /\ after \in [ok : Places \cup Results, failed : Results]
    /\ window \in BOOLEAN /\ result \in Results /\ held \in 0..Arrivals

TxType ==
    /\ txOn \in BOOLEAN /\ txFifo \in Seq(1..Sends)
    /\ txStat \in Seq([call : 1..Sends, status : TxResults])

RxType ==
    /\ cip \in Seq(Commands) /\ arrived \in 0..Arrivals
    /\ rxFifo \in Seq([id : 1..Arrivals, good : BOOLEAN])

HistType ==
    /\ left \in [1..Sends -> Nat] /\ oks \subseteq 1..Sends
    /\ delivered \in Seq([header : 1..Arrivals, payload : 0..Arrivals])
    /\ dropped \subseteq 1..Arrivals /\ overtook \in BOOLEAN

LEMMA TypeParts ==
    /\ TypeOK <=> DriverType /\ TxType /\ RxType /\ HistType
    /\ TypeOK' <=> DriverType' /\ TxType' /\ RxType' /\ HistType'
BY DEF TypeOK, DriverType, TxType, RxType, HistType

LEMMA EffectType ==
    ASSUME TxType, RxType, NEW c, Effect(c)
    PROVE  /\ TxType' /\ rxFifo' \in Seq([id : 1..Arrivals, good : BOOLEAN])
<1>1. txFifo' \in Seq(1..Sends)
  BY EffectStep, EmptySeq DEF TxType
<1>2. txStat' \in Seq([call : 1..Sends, status : TxResults])
  <2>1. <<>> \in Seq([call : 1..Sends, status : TxResults])
    BY EmptySeq
  <2> QED
    BY <2>1, EffectStep DEF TxType
<1>3. txOn' \in BOOLEAN
  BY EffectStep DEF TxType
<1>4. rxFifo' \in Seq([id : 1..Arrivals, good : BOOLEAN])
  <2>1. rxFifo \in Seq([id : 1..Arrivals, good : BOOLEAN])
    BY DEF RxType
  <2>2. rxFifo' = rxFifo \/ (rxFifo # <<>> /\ rxFifo' = Tail(rxFifo))
    BY EffectStep
  <2>3. rxFifo # <<>> => Tail(rxFifo) \in Seq([id : 1..Arrivals, good : BOOLEAN])
    BY <2>1, HeadTail
  <2> QED
    BY <2>1, <2>2, <2>3
<1> QED
  BY <1>1, <1>2, <1>3, <1>4 DEF TxType

LEMMA IssueType ==
    ASSUME TxType, RxType, NEW c \in Commands, Issue(c), arrived' = arrived
    PROVE  TxType' /\ RxType'
<1>1. CASE Effect(c) /\ cip' = cip
  BY <1>1, EffectType DEF RxType
<1>2. CASE cip' = Append(cip, c) /\ UNCHANGED <<txVars, rxFifo>>
  BY <1>2, AppendProperties DEF TxType, RxType, txVars
<1> QED
  BY <1>1, <1>2 DEF Issue

LEMMA TypeStep ==
    ASSUME TypeOK, PlanInv, CallInv, [Next]_vars
    PROVE  TypeOK'
<1> USE DatapathAssumption
<1>0. DriverType /\ TxType /\ RxType /\ HistType
  BY TypeParts
<1>P. DriverType' /\ TxType' /\ RxType' /\ HistType' => TypeOK'
  BY TypeParts
<1>D. UNCHANGED driverVars => DriverType'
  BY <1>0 DEF DriverType, driverVars
<1>T. UNCHANGED txVars => TxType'
  BY <1>0 DEF TxType, txVars
<1>X. UNCHANGED <<cip, rxVars>> => RxType'
  BY <1>0 DEF RxType, rxVars
<1>H. UNCHANGED histVars => HistType'
  BY <1>0 DEF HistType, histVars
<1>V. ASSUME TakeHead, UNCHANGED <<left, oks, delivered>>, dropped' \subseteq 1..Arrivals
      PROVE  HistType'
  <2>1. overtook' \in BOOLEAN
    BY <1>V, Zenon DEF TakeHead
  <2> QED
    BY <1>0, <1>V, <2>1 DEF HistType
<1>L. \A c \in {Select, Enable, EnableSelect, AfterReset, RecoverReset, Discard, <<>>} :
        c \in Seq(Commands)
  BY Plans, EmptySeq
<1>R. ASSUME NEW commands \in {Select, Enable, EnableSelect, RecoverReset, Discard, <<>>},
             NEW ok \in Places \cup Results, NEW failed \in Results,
             Run(commands, ok, failed)
      PROVE  /\ pc' \in Places /\ todo' \in Seq(Commands) /\ result' \in Results
             /\ after' \in [ok : Places \cup Results, failed : Results]
  <2>1. "cmd" \in Places /\ "idle" \in Places
    BY DEF Places
  <2>2. result \in Results
    BY <1>0 DEF DriverType
  <2>3. todo' = commands /\ after' = [ok |-> ok, failed |-> failed]
    BY <1>R, RunStep
  <2>4. todo' \in Seq(Commands) /\ after' \in [ok : Places \cup Results, failed : Results]
    BY <1>L, <2>3
  <2>5. pc' \in Places /\ result' \in Results
    <3>1. CASE commands # <<>>
      BY <1>R, <2>1, <2>2, <3>1, RunStep
    <3>2. CASE commands = <<>> /\ ok \in Results
      BY <1>R, <2>1, <3>2, RunStep
    <3>3. CASE commands = <<>> /\ ok \notin Results
      BY <1>R, <2>2, <3>3, RunStep
    <3> QED
      BY <3>1, <3>2, <3>3
  <2> QED
    BY <2>4, <2>5
<1>G. ASSUME NEW p \in Places \cup Results, GoTo(p)
      PROVE  pc' \in Places /\ result' \in Results
  <2>1. "idle" \in Places
    BY DEF Places
  <2>2. result \in Results
    BY <1>0 DEF DriverType
  <2> QED
    BY <1>G, <2>1, <2>2, GoToStep
<1>S. SelectWindow \in {<<>>, Select} /\ RecoverEnable \in {Enable, EnableSelect}
  BY Plans
<1>1. CASE SendFrame
  <2>1. /\ Run(SelectWindow, "stale", "CMD_TIMEOUT")
        /\ sends' = sends + 1 /\ sends < Sends /\ tries' = Attempts /\ count' = 0
        /\ UNCHANGED <<window, held>>
    BY <1>1 DEF SendFrame
  <2>2. "stale" \in Places /\ "CMD_TIMEOUT" \in Results
    BY DEF Places, Results
  <2>3. DriverType'
    BY <1>0, <1>R, <1>S, <2>1, <2>2 DEF DriverType
  <2> QED
    BY <1>1, <1>P, <1>T, <1>X, <1>H, <2>3 DEF SendFrame
<1>2. ASSUME NEW p \in {"begin", "pending"}, Receive(p)
      PROVE  TypeOK'
  <2>1. /\ Run(SelectWindow, p, "CMD_TIMEOUT")
        /\ UNCHANGED <<sends, tries, count, window, held>>
    BY <1>2 DEF Receive
  <2>2. p \in Places /\ "CMD_TIMEOUT" \in Results
    BY DEF Places, Results
  <2>3. DriverType'
    BY <1>0, <1>R, <1>S, <2>1, <2>2 DEF DriverType
  <2> QED
    BY <1>2, <1>P, <1>T, <1>X, <1>H, <2>3 DEF Receive
<1>3. CASE Command
  <2>1. /\ pc = "cmd" /\ pc' = "cip" /\ Issue(Head(todo))
        /\ UNCHANGED <<sends, tries, count, todo, after, result, held, arrived>>
        /\ window' = CASE ForgetsWindow(Head(todo)) -> FALSE
                       [] Head(todo) = "SelectWindow" -> TRUE
                       [] OTHER -> window
    BY <1>3 DEF Command
  <2>2. Head(todo) \in Commands
    <3>1. todo \in Seq(Commands) \ {<<>>}
      BY <2>1, Plans DEF PlanInv, Running
    <3> QED
      BY <3>1, HeadTail
  <2>3. window' \in BOOLEAN
    BY <1>0, <2>1 DEF DriverType
  <2>4. "cip" \in Places
    BY DEF Places
  <2>5. DriverType'
    BY <1>0, <2>1, <2>3, <2>4 DEF DriverType
  <2>6. TxType' /\ RxType'
    BY <1>0, <2>1, <2>2, IssueType
  <2> QED
    BY <1>3, <1>P, <1>H, <2>5, <2>6 DEF Command
<1>4. CASE CipClear
  <2>1. /\ pc = "cip" /\ todo' = Tail(todo)
        /\ UNCHANGED <<sends, tries, count, after, window, held>>
        /\ IF todo' = <<>> THEN GoTo(after.ok) ELSE pc' = "cmd" /\ result' = result
    BY <1>4 DEF CipClear
  <2>2. Tail(todo) \in Seq(Commands)
    <3>1. todo \in Seq(Commands) \ {<<>>}
      BY <2>1, Plans DEF PlanInv, Running
    <3> QED
      BY <3>1, HeadTail
  <2>3. pc' \in Places /\ result' \in Results
    <3>1. after.ok \in Places \cup Results /\ result \in Results /\ "cmd" \in Places
      BY <1>0 DEF DriverType, Places
    <3> QED
      BY <1>G, <2>1, <3>1
  <2>4. DriverType'
    BY <1>0, <2>1, <2>2, <2>3 DEF DriverType
  <2> QED
    BY <1>4, <1>P, <1>T, <1>X, <1>H, <2>4 DEF CipClear
<1>5. CASE CipTimeout
  <2>1. /\ pc' = "idle" /\ result' = after.failed /\ todo' = <<>>
        /\ UNCHANGED <<sends, tries, count, after, held>>
        /\ window' = IF Head(todo) = "SelectWindow" THEN FALSE ELSE window
        /\ dropped' = IF after.ok = "copied" THEN dropped \cup {held} ELSE dropped
    BY <1>5 DEF CipTimeout, Finish
  <2>2. DriverType'
    BY <1>0, <1>L, <2>1 DEF DriverType, Places
  <2>3. HistType'
    <3>1. after.ok = "copied" => held \in 1..Arrivals
      BY <1>0, <1>5 DEF CipTimeout, CallInv, Running, DriverType
    <3> QED
      BY <1>0, <1>5, <2>1, <3>1 DEF HistType, CipTimeout
  <2> QED
    BY <1>5, <1>P, <1>T, <1>X, <2>2, <2>3 DEF CipTimeout
<1>6. CASE Sending
  <2>1. CASE StalePop
    <3>1. DriverType'
      BY <1>0, <2>1 DEF StalePop, DriverType
    <3>2. TxType'
      <4>1. txStat \in Seq([call : 1..Sends, status : TxResults]) /\ txStat # <<>>
        BY <1>0, <2>1 DEF StalePop, HasStale, TxType
      <4>2. Tail(txStat) \in Seq([call : 1..Sends, status : TxResults])
        BY <4>1, HeadTail
      <4> QED
        BY <1>0, <2>1, <4>2 DEF StalePop, TxType
    <3> QED
      BY <1>P, <1>X, <1>H, <2>1, <3>1, <3>2 DEF StalePop
  <2>2. CASE StaleDone
    <3>1. DriverType'
      BY <1>0, <2>2 DEF StaleDone, DriverType, Places
    <3> QED
      BY <1>P, <1>T, <1>X, <1>H, <2>2, <3>1 DEF StaleDone
  <2>3. CASE Write
    <3>1. DriverType'
      BY <1>0, <2>3 DEF Write, DriverType, Places
    <3>2. TxType'
      <4>1. sends \in 1..Sends
        BY <1>0, <2>3 DEF DriverType, Write, CallInv, Trying
      <4>2. Append(txFifo, sends) \in Seq(1..Sends)
        BY <1>0, <4>1, AppendProperties DEF TxType
      <4> QED
        BY <1>0, <2>3, <4>2 DEF Write, TxType
    <3> QED
      BY <1>P, <1>X, <1>H, <2>3, <3>1, <3>2 DEF Write
  <2>4. CASE FreeWait \/ PollTimeout
    <3>1. CASE TxTimeout
      <4>1. "TX_TIMEOUT" \in Results
        BY DEF Results
      <4>2. /\ pc' \in Places /\ todo' \in Seq(Commands) /\ result' \in Results
            /\ after' \in [ok : Places \cup Results, failed : Results]
        BY <1>R, <3>1, <4>1 DEF TxTimeout
      <4>3. UNCHANGED <<sends, tries, window, held>> /\ count' \in Nat
        BY <1>0, <2>4 DEF FreeWait, PollTimeout, DriverType
      <4>4. DriverType'
        BY <1>0, <4>2, <4>3 DEF DriverType
      <4> QED
        BY <1>P, <1>T, <1>X, <1>H, <2>4, <4>4 DEF FreeWait, PollTimeout
    <3>2. CASE ~TxTimeout
      <4>1. DriverType'
        BY <1>0, <2>4, <3>2 DEF FreeWait, PollTimeout, DriverType
      <4> QED
        BY <1>P, <1>T, <1>X, <1>H, <2>4, <4>1 DEF FreeWait, PollTimeout
    <3> QED
      BY <3>1, <3>2
  <2>5. CASE Complete
    <3>1. /\ txStat # <<>> /\ txStat' = Tail(txStat) /\ UNCHANGED <<txOn, txFifo>>
          /\ UNCHANGED <<sends, tries, count, window, held, cip, rxVars>>
          /\ UNCHANGED <<left, delivered, dropped, overtook>> /\ pc = "poll"
          /\ oks' \in {oks, oks \cup {sends}}
      BY <2>5 DEF Complete
    <3>2. TxType'
      <4>1. Tail(txStat) \in Seq([call : 1..Sends, status : TxResults])
        BY <1>0, <3>1, HeadTail DEF TxType
      <4> QED
        BY <1>0, <3>1, <4>1 DEF TxType
    <3>3. HistType'
      <4>1. sends \in 1..Sends
        BY <1>0, <3>1 DEF DriverType, CallInv
      <4> QED
        BY <1>0, <3>1, <4>1 DEF HistType
    <3>4. DriverType'
      <4>1. /\ pc' \in Places /\ todo' \in Seq(Commands) /\ result' \in Results
            /\ after' \in [ok : Places \cup Results, failed : Results]
        <5>1. "retry" \in Places /\ {"TX_ERROR", "CMD_TIMEOUT", "OK"} \subseteq Results
          BY DEF Places, Results
        <5>2. todo \in Seq(Commands) /\ after \in [ok : Places \cup Results, failed : Results]
          BY <1>0 DEF DriverType
        <5>3. \/ Run(RecoverReset, "retry", "CMD_TIMEOUT")
              \/ Run(RecoverEnable, "retry", "CMD_TIMEOUT")
              \/ Run(RecoverEnable, "TX_ERROR", "CMD_TIMEOUT")
              \/ (GoTo("TX_ERROR") \/ GoTo("OK")) /\ UNCHANGED <<todo, after>>
          BY <2>5, CompleteLeads
        <5>4. CASE Run(RecoverReset, "retry", "CMD_TIMEOUT")
          BY <1>R, <5>1, <5>4
        <5>5. ASSUME NEW ok \in {"retry", "TX_ERROR"}, Run(RecoverEnable, ok, "CMD_TIMEOUT")
              PROVE  /\ pc' \in Places /\ todo' \in Seq(Commands) /\ result' \in Results
                     /\ after' \in [ok : Places \cup Results, failed : Results]
          BY <1>R, <1>S, <5>1, <5>5
        <5>6. CASE (GoTo("TX_ERROR") \/ GoTo("OK")) /\ UNCHANGED <<todo, after>>
          BY <1>G, <5>1, <5>2, <5>6
        <5> QED
          BY <5>3, <5>4, <5>5, <5>6
      <4> QED
        BY <1>0, <3>1, <4>1 DEF DriverType
    <3> QED
      BY <1>P, <1>X, <3>1, <3>2, <3>3, <3>4
  <2>6. CASE Retry
    <3>1. tries' = tries - 1 /\ count' = 0 /\ UNCHANGED <<sends, todo, after, window, held>>
      BY <2>6 DEF Retry, TriesLeft
    <3>2. GoTo("TX_ERROR") \/ GoTo("stale")
      BY <2>6 DEF Retry
    <3>3. pc' \in Places /\ result' \in Results
      <4>1. {"TX_ERROR", "stale"} \subseteq Places \cup Results
        BY DEF Places, Results
      <4> QED
        BY <1>G, <3>2, <4>1
    <3>4. tries' \in 0..Attempts
      BY <1>0, <2>6, <3>1 DEF DriverType, Retry, CallInv, Trying
    <3>5. DriverType'
      BY <1>0, <3>1, <3>3, <3>4 DEF DriverType
    <3> QED
      BY <1>P, <1>T, <1>X, <1>H, <2>6, <3>5 DEF Retry
  <2> QED
    BY <1>6, <2>1, <2>2, <2>3, <2>4, <2>5, <2>6 DEF Sending
<1>7. CASE Receiving
  <2>H. ASSUME rxFifo # <<>>
        PROVE  Head(rxFifo).id \in 1..Arrivals
    <3>1. Head(rxFifo) \in [id : 1..Arrivals, good : BOOLEAN]
      BY <1>0, <2>H, HeadTail DEF RxType
    <3> QED
      BY <3>1
  <2>E. ASSUME Finish("OK"), UNCHANGED <<sends, tries, count, todo, after, window, held>>
        PROVE  DriverType'
    BY <1>0, <2>E DEF Finish, DriverType, Places, Results
  <2>F. pc = "held" \/ pc = "copied" => held \in 1..Arrivals
    BY <1>0 DEF CallInv, DriverType
  <2>1. CASE NothingReceived
    <3>1. DriverType'
      BY <1>0, <2>1 DEF NothingReceived, Finish, DriverType, Places, Results
    <3> QED
      BY <1>P, <1>T, <1>X, <1>H, <2>1, <3>1 DEF NothingReceived
  <2>2. CASE BadReceived \/ FrameTooLong
    <3>1. /\ rxFifo # <<>> /\ dropped' = dropped \cup {Head(rxFifo).id}
          /\ UNCHANGED <<sends, tries, count, window, held, txVars, cip, rxVars>>
          /\ UNCHANGED <<left, oks, delivered>> /\ TakeHead
      BY <2>2 DEF BadReceived, FrameTooLong
    <3>2. HistType'
      BY <1>0, <1>V, <2>H, <3>1 DEF HistType
    <3>3. PICK ok \in Results, failed \in Results : Run(Discard, ok, failed)
      BY <2>2 DEF BadReceived, FrameTooLong, Results
    <3>4. DriverType'
      BY <1>0, <1>R, <3>1, <3>3 DEF DriverType
    <3> QED
      BY <1>P, <1>T, <1>X, <3>1, <3>2, <3>4
  <2>3. CASE HeaderRead
    <3>1. DriverType'
      BY <1>0, <2>H, <2>3 DEF HeaderRead, DriverType, Places
    <3>2. HistType'
      BY <1>0, <1>V, <2>3 DEF HeaderRead, HistType
    <3> QED
      BY <1>P, <1>T, <1>X, <2>3, <3>1, <3>2 DEF HeaderRead
  <2>4. CASE RxPayload \/ RxDrop
    <3>1. DriverType'
      BY <2>4, <2>E DEF RxPayload, RxDrop
    <3>2. "RxDiscard" \in Commands
      BY DEF Commands
    <3>3. TxType' /\ RxType'
      BY <1>0, <2>4, <3>2, IssueType DEF RxPayload, RxDrop
    <3>4. HistType'
      <4>1. AtHead \in 0..Arrivals
        BY <2>H DEF AtHead
      <4>2. held \in 1..Arrivals
        BY <2>4, <2>F DEF RxPayload, RxDrop
      <4>3. [header |-> held, payload |-> AtHead] \in [header : 1..Arrivals, payload : 0..Arrivals]
        BY <4>1, <4>2
      <4>4. Append(delivered, [header |-> held, payload |-> AtHead])
              \in Seq([header : 1..Arrivals, payload : 0..Arrivals])
        BY <1>0, <4>3, AppendProperties DEF HistType
      <4>5. CASE RxPayload
        BY <1>0, <4>4, <4>5 DEF HistType, RxPayload
      <4>6. CASE RxDrop
        BY <1>0, <4>2, <4>6 DEF HistType, RxDrop
      <4> QED
        BY <2>4, <4>5, <4>6
    <3> QED
      BY <1>P, <3>1, <3>3, <3>4
  <2>5. CASE FrameRead
    <3>1. /\ Run(Discard, "copied", "RX_TIMEOUT") /\ held' \in 0..Arrivals
          /\ UNCHANGED <<sends, tries, count, window>>
      BY <2>5, <2>H DEF FrameRead
    <3>2. "copied" \in Places /\ "RX_TIMEOUT" \in Results
      BY DEF Places, Results
    <3>3. DriverType'
      BY <1>0, <1>R, <3>1, <3>2 DEF DriverType
    <3>4. HistType'
      BY <1>0, <1>V, <2>5 DEF FrameRead, HistType
    <3> QED
      BY <1>P, <1>T, <1>X, <2>5, <3>3, <3>4 DEF FrameRead
  <2>6. CASE FrameReturned
    <3>1. DriverType'
      BY <2>6, <2>E DEF FrameReturned
    <3>2. HistType'
      <4>1. [header |-> held, payload |-> held] \in [header : 1..Arrivals, payload : 0..Arrivals]
        BY <2>6, <2>F DEF FrameReturned
      <4>2. Append(delivered, [header |-> held, payload |-> held])
              \in Seq([header : 1..Arrivals, payload : 0..Arrivals])
        BY <1>0, <4>1, AppendProperties DEF HistType
      <4> QED
        BY <1>0, <2>6, <4>2 DEF HistType, FrameReturned
    <3> QED
      BY <1>P, <1>T, <1>X, <2>6, <3>1, <3>2 DEF FrameReturned
  <2> QED
    BY <1>7, <2>1, <2>2, <2>3, <2>4, <2>5, <2>6 DEF Receiving
<1>8. CASE CommandEnds
  <2>1. cip \in Seq(Commands) /\ cip # <<>>
    BY <1>0, <1>8 DEF CommandEnds, RxType
  <2>2. Tail(cip) \in Seq(Commands)
    BY <2>1, HeadTail
  <2>3. TxType' /\ rxFifo' \in Seq([id : 1..Arrivals, good : BOOLEAN])
    BY <1>0, <1>8, EffectType DEF CommandEnds
  <2>4. RxType'
    BY <1>0, <1>8, <2>2, <2>3 DEF CommandEnds, RxType
  <2> QED
    BY <1>8, <1>P, <1>D, <1>H, <2>3, <2>4 DEF CommandEnds
<1>9. ASSUME NEW st \in TxResults, CardTransmits(st)
      PROVE  TypeOK'
  <2>1. /\ txFifo # <<>> /\ txFifo' = Tail(txFifo)
        /\ txStat' = Append(txStat, [call |-> Head(txFifo), status |-> st])
        /\ txOn' = (st \in {"SENT", "ODD"})
        /\ left' = IF st \in {"RESET", "ENABLE"} THEN left
                   ELSE [left EXCEPT ![Head(txFifo)] = left[Head(txFifo)] + 1]
        /\ UNCHANGED <<driverVars, cip, rxVars, oks, delivered, dropped, overtook>>
    BY <1>9 DEF CardTransmits
  <2>2. Head(txFifo) \in 1..Sends /\ Tail(txFifo) \in Seq(1..Sends)
    BY <1>0, <2>1, HeadTail DEF TxType
  <2>3. txStat' \in Seq([call : 1..Sends, status : TxResults])
    <3>1. [call |-> Head(txFifo), status |-> st] \in [call : 1..Sends, status : TxResults]
      BY <1>9, <2>2
    <3>2. txStat \in Seq([call : 1..Sends, status : TxResults])
      BY <1>0 DEF TxType
    <3> QED
      BY <2>1, <3>1, <3>2, AppendProperties
  <2>4. TxType'
    BY <2>1, <2>2, <2>3 DEF TxType
  <2>5. HistType'
    <3>1. left \in [1..Sends -> Nat]
      BY <1>0 DEF HistType
    <3>2. left[Head(txFifo)] + 1 \in Nat
      BY <2>2, <3>1
    <3>3. [left EXCEPT ![Head(txFifo)] = left[Head(txFifo)] + 1] \in [1..Sends -> Nat]
      BY <3>1, <3>2
    <3>4. left' \in [1..Sends -> Nat]
      BY <2>1, <3>1, <3>3
    <3> QED
      BY <1>0, <2>1, <3>4 DEF HistType
  <2> QED
    BY <1>P, <1>D, <1>X, <2>1, <2>4, <2>5
<1>10. ASSUME NEW good \in BOOLEAN, CardReceives(good)
       PROVE  TypeOK'
  <2>1. /\ arrived < Arrivals /\ arrived' = arrived + 1
        /\ rxFifo' = Append(rxFifo, [id |-> arrived + 1, good |-> good])
        /\ UNCHANGED <<driverVars, txVars, cip, histVars>>
    BY <1>10 DEF CardReceives
  <2>2. arrived' \in 1..Arrivals
    BY <1>0, <2>1 DEF RxType
  <2>3. [id |-> arrived + 1, good |-> good] \in [id : 1..Arrivals, good : BOOLEAN]
    BY <1>10, <2>1, <2>2
  <2>4. rxFifo' \in Seq([id : 1..Arrivals, good : BOOLEAN])
    BY <1>0, <2>1, <2>3, AppendProperties DEF RxType
  <2>5. RxType'
    BY <1>0, <2>1, <2>2, <2>4 DEF RxType
  <2> QED
    BY <1>P, <1>D, <1>T, <1>H, <2>1, <2>5
<1>11. CASE UNCHANGED vars
  BY <1>P, <1>D, <1>T, <1>X, <1>H, <1>11 DEF vars
<1> QED
  BY <1>1, <1>2, <1>3, <1>4, <1>5, <1>6, <1>7, <1>8, <1>9, <1>10, <1>11
  DEF Next, Call, Driver, Card

(* A call under way has counted itself; a frame being read has arrived.    *)
LEMMA CallStep ==
    ASSUME TypeOK, PlanInv, CallInv, [Next]_vars
    PROVE  CallInv'
<1> USE DatapathAssumption DEF Running, Trying
<1>0. sends \in Nat /\ tries \in Nat /\ held \in Nat
  BY DEF TypeOK
<1>I. ASSUME pc' = "idle"
      PROVE  CallInv'
  BY <1>I DEF CallInv
<1>K. ASSUME UNCHANGED <<pc, sends, tries, after, held>>
      PROVE  CallInv'
  BY <1>K DEF CallInv
<1>R. ASSUME NEW commands, NEW ok \in {"retry", "TX_ERROR", "TX_TIMEOUT"}, NEW failed,
             Run(commands, ok, failed), UNCHANGED <<sends, tries>>,
             ok = "retry" => sends > 0 /\ tries > 0
      PROVE  CallInv'
  <2>1. CASE commands # <<>>
    BY <1>R, <2>1, RunStep DEF CallInv
  <2>2. CASE commands = <<>>
    <3>1. ok = "retry" \/ ok \in Results
      BY DEF Results
    <3>2. "retry" \notin Results
      BY DEF Results
    <3> QED
      BY <1>I, <1>R, <2>2, <3>1, <3>2, RunStep DEF CallInv
  <2> QED
    BY <2>1, <2>2
<1>1. CASE SendFrame
  <2>1. /\ Run(SelectWindow, "stale", "CMD_TIMEOUT")
        /\ sends' = sends + 1 /\ tries' = Attempts
    BY <1>1 DEF SendFrame
  <2>2. "stale" \notin Results
    BY DEF Results
  <2> QED
    BY <1>0, <2>1, <2>2, RunStep DEF CallInv
<1>2. ASSUME NEW p \in {"begin", "pending"}, Receive(p)
      PROVE  CallInv'
  <2>1. Run(SelectWindow, p, "CMD_TIMEOUT")
    BY <1>2 DEF Receive
  <2>2. p \notin Results
    BY DEF Results
  <2> QED
    BY <2>1, <2>2, RunStep DEF CallInv
<1>3. CASE Command
  BY <1>3 DEF Command, CallInv
<1>4. CASE CipClear
  <2>1. /\ pc = "cip" /\ UNCHANGED <<sends, tries, after, held>>
        /\ IF todo' = <<>> THEN GoTo(after.ok) ELSE pc' = "cmd"
    BY <1>4 DEF CipClear
  <2>2. CASE todo' = <<>> /\ after.ok \in Results
    BY <1>I, <2>1, <2>2, GoToStep
  <2>3. CASE todo' = <<>> /\ after.ok \notin Results
    <3>1. pc' = after.ok
      BY <2>1, <2>3, GoToStep
    <3>2. after.ok \in {"stale", "begin", "pending", "retry", "copied"}
      BY <2>1, <2>3 DEF PlanInv, Begins, Results
    <3> QED
      BY <2>1, <3>1, <3>2 DEF CallInv
  <2>4. CASE todo' # <<>>
    BY <2>1, <2>4 DEF CallInv
  <2> QED
    BY <2>2, <2>3, <2>4
<1>5. CASE CipTimeout
  BY <1>5, <1>I DEF CipTimeout, Finish
<1>6. CASE Sending
  <2>1. CASE StalePop
    BY <1>K, <2>1 DEF StalePop
  <2>2. CASE StaleDone \/ Write
    BY <2>2 DEF StaleDone, Write, CallInv
  <2>3. CASE FreeWait \/ PollTimeout
    <3>1. CASE TxTimeout
      BY <1>R, <2>3, <3>1 DEF TxTimeout, FreeWait, PollTimeout
    <3>2. CASE ~TxTimeout
      BY <1>K, <2>3, <3>2 DEF FreeWait, PollTimeout
    <3> QED
      BY <3>1, <3>2
  <2>4. CASE Complete
    <3>1. sends > 0 /\ tries > 0 /\ UNCHANGED <<sends, tries>>
      BY <2>4 DEF Complete, CallInv
    <3>2. CASE GoTo("TX_ERROR") \/ GoTo("OK")
      BY <1>I, <3>2, GoToStep DEF Results
    <3>3. ASSUME NEW commands, NEW ok \in {"retry", "TX_ERROR"},
                 Run(commands, ok, "CMD_TIMEOUT")
          PROVE  CallInv'
      BY <1>R, <3>1, <3>3
    <3> QED
      BY <2>4, <3>2, <3>3, CompleteLeads
  <2>5. CASE Retry
    <3>1. /\ tries' = tries - 1 /\ UNCHANGED <<sends, held>> /\ sends > 0 /\ tries > 0
          /\ IF tries' = 0 THEN GoTo("TX_ERROR") ELSE GoTo("stale")
      BY <2>5 DEF Retry, TriesLeft, CallInv
    <3>2. CASE tries' = 0
      BY <1>I, <3>1, <3>2, GoToStep DEF Results
    <3>3. CASE tries' # 0
      <4>1. pc' = "stale"
        BY <3>1, <3>3, GoToStep DEF Results
      <4> QED
        BY <1>0, <3>1, <3>3, <4>1 DEF CallInv
    <3> QED
      BY <3>2, <3>3
  <2> QED
    BY <1>6, <2>1, <2>2, <2>3, <2>4, <2>5 DEF Sending
<1>7. CASE Receiving
  <2>H. ASSUME rxFifo # <<>>
        PROVE  Head(rxFifo).id > 0
    <3>1. Head(rxFifo) \in [id : 1..Arrivals, good : BOOLEAN]
      BY <2>H, HeadTail DEF TypeOK
    <3> QED
      BY <3>1
  <2>1. CASE NothingReceived \/ RxPayload \/ RxDrop \/ FrameReturned
    BY <1>I, <2>1 DEF NothingReceived, RxPayload, RxDrop, FrameReturned, Finish
  <2>2. CASE BadReceived \/ FrameTooLong
    <3>1. PICK ok, failed : ok \in {"RX_ERROR", "FRAME_SIZE"} /\ Run(Discard, ok, failed)
      BY <2>2 DEF BadReceived, FrameTooLong
    <3> QED
      BY <3>1, RunStep, Plans DEF CallInv
  <2>3. CASE HeaderRead
    BY <2>H, <2>3 DEF HeaderRead, CallInv
  <2>4. CASE FrameRead
    <3>1. Run(Discard, "copied", "RX_TIMEOUT") /\ held' > 0
      BY <2>H, <2>4 DEF FrameRead
    <3>2. Discard # <<>>
      BY Plans
    <3>3. pc' = "cmd" /\ after'.ok = "copied"
      BY <3>1, <3>2, RunStep
    <3> QED
      BY <3>1, <3>3 DEF CallInv
  <2> QED
    BY <1>7, <2>1, <2>2, <2>3, <2>4 DEF Receiving
<1>8. CASE Card \/ UNCHANGED vars
  <2>1. UNCHANGED <<pc, sends, tries, after, held>>
    BY <1>8 DEF Card, CommandEnds, CardTransmits, CardReceives, vars, driverVars
  <2> QED
    BY <1>K, <2>1
<1> QED
  BY <1>1, <1>2, <1>3, <1>4, <1>5, <1>6, <1>7, <1>8 DEF Next, Call, Driver

----------------------------------------------------------------------------
(* The transmitter.                                                        *)

(* At most one frame or status is in the transmitter.                      *)
LEMMA AtMostOne ==
    ASSUME TypeOK, FlightInv
    PROVE  /\ txFifo # <<>> => /\ txStat = <<>> /\ Tail(txFifo) = <<>>
                               /\ Head(txFifo) \in 1..Sends
           /\ txStat # <<>> => txFifo = <<>> /\ Tail(txStat) = <<>>
<1>1. txFifo \in Seq(1..Sends) /\ txStat \in Seq([call : 1..Sends, status : TxResults])
  BY DEF TypeOK
<1>2. Len(txFifo) \in Nat /\ Len(txStat) \in Nat /\ Len(txFifo) + Len(txStat) <= 1
  BY <1>1, LenProperties DEF FlightInv
<1>3. /\ txFifo # <<>> => /\ Len(txFifo) \in Nat \ {0} /\ Head(txFifo) \in 1..Sends
                          /\ Tail(txFifo) \in Seq(1..Sends)
                          /\ Len(Tail(txFifo)) = Len(txFifo) - 1
      /\ txStat # <<>> => /\ Len(txStat) \in Nat \ {0}
                          /\ Tail(txStat) \in Seq([call : 1..Sends, status : TxResults])
                          /\ Len(Tail(txStat)) = Len(txStat) - 1
  BY <1>1, HeadTail
<1>4. CASE txFifo # <<>>
  <2>1. Len(txStat) = 0 /\ Len(Tail(txFifo)) = 0
    <3>1. Len(txFifo) \in Nat \ {0} /\ Len(Tail(txFifo)) = Len(txFifo) - 1
      BY <1>3, <1>4
    <3>2. Len(txFifo) = 1 /\ Len(txStat) = 0
      BY <1>2, <3>1
    <3> QED
      BY <3>1, <3>2
  <2>2. txStat = <<>>
    BY <1>1, <2>1, EmptySeq
  <2>3. Tail(txFifo) = <<>>
    BY <1>3, <1>4, <2>1, EmptySeq
  <2> QED
    BY <1>3, <1>4, <2>2, <2>3
<1>5. CASE txStat # <<>>
  <2>1. Len(txFifo) = 0 /\ Len(Tail(txStat)) = 0
    <3>1. Len(txStat) \in Nat \ {0} /\ Len(Tail(txStat)) = Len(txStat) - 1
      BY <1>3, <1>5
    <3>2. Len(txStat) = 1 /\ Len(txFifo) = 0
      BY <1>2, <3>1
    <3> QED
      BY <3>1, <3>2
  <2>2. txFifo = <<>>
    BY <1>1, <2>1, EmptySeq
  <2>3. Tail(txStat) = <<>>
    BY <1>3, <1>5, <2>1, EmptySeq
  <2> QED
    BY <1>5, <2>2, <2>3
<1> QED
  BY <1>4, <1>5

(* Nothing the transmitter holds has changed.                              *)
LEMMA TxKept ==
    ASSUME TypeOK, TxInv, UNCHANGED <<txVars, cip, left>>, sends' \in Nat, sends' >= sends
    PROVE  FlightInv' /\ InProgress' = InProgress /\ (Settled' <=> Settled)
<1>1. InProgress' = InProgress
  BY DEF InProgress
<1>2. sends \in Nat
  BY DEF TypeOK
<1>3. FlightInv'
  <2>1. FlightInv /\ txFifo' = txFifo /\ txStat' = txStat /\ left' = left
    BY DEF TxInv, txVars
  <2>2. \A n \in 1..Sends : left[n] \in {0, 1} /\ (n > sends' => left[n] = 0)
    BY <1>2, <2>1 DEF FlightInv
  <2>3. txFifo # <<>> => left[Head(txFifo)] = 0 /\ Head(txFifo) <= sends'
    <3>1. txFifo # <<>> => Head(txFifo) \in 1..Sends
      BY <2>1, AtMostOne
    <3> QED
      BY <1>2, <2>1, <3>1 DEF FlightInv
  <2> QED
    BY <2>1, <2>2, <2>3 DEF FlightInv
<1> QED
  BY <1>1, <1>3 DEF Settled, txVars

LEMMA TxStutter ==
    ASSUME TypeOK, TxInv, UNCHANGED <<txVars, cip, left, oks>>,
           UNCHANGED <<pc, sends, count, todo, after, window, result>>
    PROVE  TxInv'
<1>1. sends \in Nat
  BY DEF TypeOK
<1>2. FlightInv' /\ InProgress' = InProgress /\ (Settled' <=> Settled)
  BY <1>1, TxKept
<1>3. PollInv' /\ SendInv'
  BY DEF TxInv, PollInv, SendInv, Trying, Recovering, Running, txVars
<1>4. ResetInv'
  BY <1>2 DEF TxInv, ResetInv, Running, txVars
<1>5. ReadyInv'
  BY <1>2 DEF TxInv, ReadyInv, Recovering, Running, txVars
<1> QED
  BY <1>2, <1>3, <1>4, <1>5 DEF TxInv

(* A call begins.  Where the window is known the transmitter is settled.   *)
LEMMA TxCall ==
    ASSUME TypeOK, PlanInv, TxInv, Call
    PROVE  TxInv'
<1> USE DEF Running, Trying, Recovering
<1>1. /\ pc = "idle" /\ UNCHANGED <<txVars, cip, left, oks, window>>
      /\ sends \in Nat /\ sends' \in Nat
  BY DEF Call, SendFrame, Receive, histVars, TypeOK
<1>2. PICK p \in Begins :
          /\ Run(SelectWindow, p, "CMD_TIMEOUT")
          /\ IF p = "stale" THEN sends' = sends + 1 /\ sends < Sends /\ count' = 0
             ELSE sends' = sends
  BY DEF Call, SendFrame, Receive, Begins
<1>3. p \notin Results /\ p \in {"stale", "begin", "pending"}
  BY DEF Begins, Results
<1>4. /\ after'.ok = p
      /\ window => pc' = p
      /\ ~window => pc' = "cmd" /\ todo' = Select
  BY <1>2, <1>3, RunStep, Plans
<1>5. FlightInv' /\ InProgress' = InProgress /\ (Settled' <=> Settled)
  BY <1>1, <1>2, TxKept
<1>6. window => Settled
  BY <1>1 DEF TxInv, ResetInv
<1>7. pc' \notin {"poll", "idle", "free", "retry", "held", "copied"}
  BY <1>3, <1>4
<1>8. PollInv'
  BY <1>7 DEF PollInv
<1>9. SendInv'
  <2>1. p = "stale" => sends' \in 1..Sends /\ sends' > sends
    BY <1>1, <1>2, DatapathAssumption, SMTT(30) DEF TypeOK
  <2>2. p = "stale" => left'[sends'] = 0 /\ (txFifo' # <<>> => Head(txFifo') < sends')
    <3>1. p = "stale" => left[sends'] = 0
      BY <2>1 DEF TxInv, FlightInv
    <3>2. p = "stale" /\ txFifo # <<>> => Head(txFifo) < sends'
      <4>1. txFifo # <<>> => Head(txFifo) \in 1..Sends /\ Head(txFifo) <= sends
        BY AtMostOne DEF TxInv, FlightInv
      <4> QED
        BY <1>1, <2>1, <4>1
    <3> QED
      BY <1>1, <3>1, <3>2 DEF txVars
  <2>3. pc' = "stale" => txFifo' = <<>> /\ count' = 0
    BY <1>1, <1>2, <1>3, <1>4, <1>6 DEF Settled, txVars
  <2> QED
    BY <1>2, <1>3, <1>4, <1>7, <2>2, <2>3 DEF SendInv
<1>10. ResetInv'
  <2>1. txFifo' # <<>> => "TxReset" \in InProgress
    BY <1>1 DEF TxInv, ResetInv, txVars
  <2>2. pc' \notin {"cip"} /\ (pc' = "cmd" => todo' # RecoverReset)
    BY <1>3, <1>4, PlansDiffer
  <2>3. ~Settled' => pc' = "cmd" /\ after'.ok \in Begins
    BY <1>2, <1>4, <1>5, <1>6
  <2> QED
    BY <1>5, <2>1, <2>2, <2>3 DEF ResetInv
<1>11. ReadyInv'
  <2>1. oks' \subseteq 1..sends' /\ \A n \in oks' : left'[n] = 1
    BY <1>1, <1>2 DEF TxInv, ReadyInv
  <2>2. p = "stale" => sends' \notin oks'
    BY <1>1, <1>2 DEF TxInv, ReadyInv
  <2>3. p # "stale" /\ sends' \in oks' => txOn' /\ Settled'
    BY <1>1, <1>2, <1>5 DEF TxInv, ReadyInv, txVars
  <2> QED
    BY <1>3, <1>4, <1>7, <2>1, <2>2, <2>3 DEF ReadyInv
<1> QED
  BY <1>5, <1>8, <1>9, <1>10, <1>11 DEF TxInv

(* A command is issued: the card takes it at once or it stays in progress. *)
LEMMA TxCommand ==
    ASSUME TypeOK, PlanInv, CallInv, TxInv, Command
    PROVE  TxInv'
<1> USE DEF Running, Trying, Recovering
<1> DEFINE c == Head(todo)
<1>1. /\ pc = "cmd" /\ pc' = "cip" /\ Issue(c)
      /\ UNCHANGED <<sends, count, todo, after, result, left, oks>>
      /\ c = "TxReset" => window' = FALSE
  BY DEF Command, histVars, ForgetsWindow
<1>2. \/ Effect(c) /\ InProgress' = InProgress
      \/ /\ InProgress' = InProgress \cup {c}
         /\ UNCHANGED <<txOn, txFifo, txStat>>
  <2>1. cip \in Seq(Commands)
    BY DEF TypeOK
  <2>2. CASE Effect(c) /\ cip' = cip
    BY <2>2 DEF InProgress
  <2>3. CASE cip' = Append(cip, c) /\ UNCHANGED <<txVars, rxFifo>>
    BY <2>1, <2>3, ProgressBegins DEF txVars
  <2> QED
    BY <1>1, <2>2, <2>3 DEF Issue
<1>3. \/ todo = RecoverReset /\ c = "TxReset" /\ after.ok \in {"retry", "TX_TIMEOUT"}
      \/ /\ todo \in {EnableSelect, Enable} /\ c = "TxEnable"
         /\ after.ok \in {"retry", "TX_TIMEOUT", "TX_ERROR"}
      \/ /\ todo \notin {RecoverReset, EnableSelect, Enable}
         /\ c \notin {"TxReset", "TxEnable"}
  <2>1. todo \in {Select, Enable, EnableSelect, AfterReset, RecoverReset, Discard}
    BY <1>1 DEF PlanInv
  <2>2. \A t \in {Select, AfterReset, Discard} :
            t \notin {RecoverReset, EnableSelect, Enable}
            /\ Head(t) \notin {"TxReset", "TxEnable"}
    BY Plans
  <2>3. CASE todo \in {Select, AfterReset, Discard}
    BY <2>2, <2>3
  <2>4. CASE todo = RecoverReset
    <3>1. \A t \in {EnableSelect, Enable, Select, Discard} : t # RecoverReset
      BY PlansDiffer
    <3>2. c = "TxReset"
      BY <2>4, Plans
    <3> QED
      BY <1>1, <2>4, <3>1, <3>2 DEF PlanInv
  <2>5. CASE todo \in {EnableSelect, Enable}
    <3>1. c = "TxEnable"
      BY <2>5, Plans
    <3>2. todo # Select /\ todo # Discard
      <4>1. Head(Select) = "SelectWindow" /\ Head(Discard) = "RxDiscard"
        BY Plans
      <4> QED
        BY <3>1, <4>1
    <3> QED
      BY <1>1, <2>5, <3>1, <3>2 DEF PlanInv
  <2> QED
    BY <2>1, <2>3, <2>4, <2>5
<1>4. SendInv /\ ResetInv /\ ReadyInv /\ FlightInv
  BY DEF TxInv
<1>P. PollInv'
  BY <1>1 DEF PollInv
<1>5. CASE todo = RecoverReset /\ c = "TxReset" /\ after.ok \in {"retry", "TX_TIMEOUT"}
  <2>1. \/ txOn' = FALSE /\ txFifo' = <<>> /\ txStat' \in {<<>>, txStat}
        \/ UNCHANGED <<txFifo, txStat>> /\ "TxReset" \in InProgress'
    BY <1>2, <1>5, EffectStep
  <2>2. FlightInv'
    <3>1. Len(<<>>) = 0
      BY EmptySeq
    <3>2. txFifo \in Seq(1..Sends) /\ txStat \in Seq([call : 1..Sends, status : TxResults])
      BY DEF TypeOK
    <3>3. Len(txFifo) \in Nat /\ Len(txStat) \in Nat /\ Len(txFifo) + Len(txStat) <= 1
      BY <1>4, <3>2, LenProperties DEF FlightInv
    <3>4. Len(txFifo') + Len(txStat') <= 1
      <4>1. Len(txFifo') \in {0, Len(txFifo)} /\ Len(txStat') \in {0, Len(txStat)}
        BY <2>1, <3>1
      <4> QED
        BY <3>3, <4>1
    <3>5. txFifo' # <<>> => txFifo' = txFifo
      BY <2>1
    <3> QED
      BY <1>1, <1>4, <3>4, <3>5 DEF FlightInv
  <2>3. SendInv'
    <3>1. Trying' => Trying
      BY <1>1
    <3>2. Recovering' => Recovering
      BY <1>1
    <3>3. txFifo' # <<>> => txFifo' = txFifo
      BY <2>1
    <3>4. txFifo = <<>> /\ txStat = <<>> => txFifo' = <<>> /\ txStat' = <<>>
      BY <2>1
    <3> QED
      BY <1>1, <1>4, <1>5, <3>1, <3>2, <3>3, <3>4 DEF SendInv
  <2>4. ResetInv'
    BY <1>1, <1>5, <2>1 DEF ResetInv, Settled
  <2>5. ReadyInv'
    <3>1. sends \notin oks
      BY <1>1, <1>4, <1>5 DEF ReadyInv
    <3>2. todo \notin {Select, Enable, EnableSelect}
      BY <1>5, PlansDiffer
    <3> QED
      BY <1>1, <1>4, <3>1, <3>2 DEF ReadyInv
  <2> QED
    BY <1>P, <2>2, <2>3, <2>4, <2>5 DEF TxInv
<1>6. CASE c # "TxReset" /\ todo # RecoverReset
  <2>1. /\ UNCHANGED <<txFifo, txStat>> /\ (txOn => txOn')
        /\ InProgress' \in {InProgress, InProgress \cup {c}}
        /\ c # "TxEnable" => txOn' = txOn
        /\ c = "TxEnable" => txOn' \/ "TxEnable" \in InProgress'
    <3>1. CASE Effect(c) /\ InProgress' = InProgress
      <4>1. /\ txFifo' = txFifo /\ txStat' = txStat
            /\ txOn' = IF c = "TxEnable" THEN TRUE ELSE txOn
        BY <1>6, <3>1, EffectStep
      <4> QED
        BY <3>1, <4>1
    <3>2. CASE InProgress' = InProgress \cup {c} /\ UNCHANGED <<txOn, txFifo, txStat>>
      BY <3>2
    <3> QED
      BY <1>2, <3>1, <3>2
  <2>2. "TxReset" \in InProgress' <=> "TxReset" \in InProgress
    BY <1>6, <2>1
  <2>3. Settled' <=> Settled
    BY <2>1, <2>2 DEF Settled
  <2>4. FlightInv'
    BY <1>1, <1>4, <2>1 DEF FlightInv
  <2>5. SendInv'
    BY <1>1, <1>4, <2>1 DEF SendInv
  <2>6. ResetInv'
    BY <1>1, <1>4, <1>6, <2>1, <2>2, <2>3 DEF ResetInv
  <2>7. ReadyInv'
    <3>1. Recovering' /\ todo' = Select => txOn'
      BY <1>1, <1>4, <2>1 DEF ReadyInv
    <3>2. Recovering' /\ todo' \in {EnableSelect, Enable} => txOn' \/ "TxEnable" \in InProgress'
      BY <1>1, <1>3, <1>6, <2>1
    <3> QED
      BY <1>1, <1>4, <2>1, <2>3, <3>1, <3>2 DEF ReadyInv
  <2> QED
    BY <1>P, <2>4, <2>5, <2>6, <2>7 DEF TxInv
<1>7. todo \in {EnableSelect, Enable} => todo # RecoverReset
  BY PlansDiffer
<1> QED
  BY <1>3, <1>5, <1>6, <1>7

(* The card has finished a command: nothing is in progress, so nothing is  *)
(* left in the transmit FIFO of a driver that waits.                       *)
LEMMA TxCipClear ==
    ASSUME TypeOK, PlanInv, CallInv, TxInv, CipClear
    PROVE  TxInv'
<1> USE DEF Running, Trying, Recovering
<1>1. /\ pc = "cip" /\ cip = <<>> /\ todo' = Tail(todo)
      /\ IF todo' = <<>> THEN GoTo(after.ok) ELSE pc' = "cmd" /\ result' = result
      /\ UNCHANGED <<sends, count, after, window, txVars, cip, left, oks>>
      /\ sends \in Nat
  BY DEF CipClear, histVars, TypeOK
<1>2. FlightInv' /\ InProgress' = InProgress /\ (Settled' <=> Settled)
  BY <1>1, TxKept
<1>3. InProgress = {}
  BY <1>1, ProgressEmpty
<1>4. SendInv /\ ResetInv /\ ReadyInv
  BY DEF TxInv
<1>5. Settled /\ txFifo = <<>>
  BY <1>1, <1>3, <1>4 DEF ResetInv, Settled
<1>6. /\ txFifo' = <<>> /\ txStat' = txStat /\ txOn' = txOn
      /\ sends' = sends /\ after' = after /\ left' = left /\ oks' = oks
  BY <1>1, <1>5 DEF txVars
<1>7. ResetInv'
  <2>1. pc' # "cip"
    <3>1. todo' = <<>> /\ after.ok \in Results => pc' = "idle"
      BY <1>1, GoToStep
    <3>2. todo' = <<>> /\ after.ok \notin Results => pc' = after.ok
      BY <1>1, GoToStep
    <3>3. after.ok # "cip"
      BY <1>1 DEF PlanInv, Begins
    <3> QED
      BY <1>1, <3>1, <3>2, <3>3
  <2> QED
    BY <1>2, <1>5, <1>6, <2>1 DEF ResetInv
<1>8. CASE todo' # <<>>
  <2>1. pc' = "cmd"
    BY <1>1, <1>8
  <2>2. todo' = Select => todo = EnableSelect
    <3>1. todo \in {Select, Enable, EnableSelect, AfterReset, RecoverReset, Discard}
      BY <1>1 DEF PlanInv
    <3>2. \A t \in {EnableSelect, AfterReset} : t # Select
      BY PlansDiffer
    <3> QED
      BY <1>1, <1>8, <3>1, <3>2, Plans
  <2>3. PollInv' /\ SendInv'
    BY <1>1, <1>4, <1>6, <2>1 DEF PollInv, SendInv
  <2>4. ReadyInv'
    <3>1. Recovering' /\ todo' = Select => txOn'
      BY <1>1, <1>3, <1>4, <1>6, <2>1, <2>2 DEF ReadyInv
    <3> QED
      BY <1>1, <1>2, <1>4, <1>5, <1>6, <2>1, <3>1 DEF ReadyInv
  <2> QED
    BY <1>2, <1>7, <2>3, <2>4 DEF TxInv
<1>9. CASE todo' = <<>>
  <2>1. todo \in {Select, Enable, Discard}
    <3>1. todo \in {Select, Enable, EnableSelect, AfterReset, RecoverReset, Discard}
      BY <1>1 DEF PlanInv
    <3>2. \A t \in {Select, EnableSelect, AfterReset} : t # <<>>
      BY PlansDiffer
    <3> QED
      BY <1>1, <1>9, <3>1, <3>2, Plans
  <2>2. Recovering => txOn
    <3>1. Recovering => todo \in {Select, Enable}
      <4>1. \A t \in {RecoverReset, AfterReset, EnableSelect, Select, Enable} : t # Discard
        BY Plans
      <4> QED
        BY <1>1, <2>1, <4>1 DEF PlanInv
    <3> QED
      BY <1>1, <1>3, <1>4, <3>1 DEF ReadyInv
  <2>3. /\ after.ok \in Results => pc' = "idle" /\ result' = after.ok
        /\ after.ok \notin Results => pc' = after.ok /\ result' = result
    BY <1>1, <1>9, GoToStep
  <2>4. /\ after.ok \in {"stale", "begin", "pending", "retry", "copied"}
             => after.ok \notin Results
        /\ after.ok \in {"TX_TIMEOUT", "TX_ERROR", "RX_ERROR", "FRAME_SIZE"}
             => after.ok \in Results
        /\ after.ok \in {"stale", "begin", "pending", "retry", "copied", "TX_TIMEOUT",
                         "TX_ERROR", "RX_ERROR", "FRAME_SIZE"}
    BY <1>1 DEF Results, PlanInv, Begins
  <2>5. PollInv'
    BY <2>3, <2>4 DEF PollInv
  <2>6. SendInv'
    <3>1. pc' \in {"stale", "retry"} => pc' = after.ok
      BY <2>3
    <3>2. pc' \notin {"free", "cmd", "cip"}
      BY <2>3, <2>4
    <3>3. Trying' => Trying /\ pc' = after.ok
      BY <1>1, <3>1, <3>2
    <3>4. pc' = "retry" => Recovering
      BY <1>1, <3>1
    <3>5. pc' = "stale" => count' = 0
      BY <1>1, <1>4, <3>1 DEF SendInv
    <3> QED
      BY <1>4, <1>6, <3>2, <3>3, <3>4, <3>5 DEF SendInv
  <2>7. ReadyInv'
    <3>1. pc' = "retry" => txOn'
      BY <1>1, <1>6, <2>2, <2>3
    <3>2. pc' = "idle" /\ result' = "TX_ERROR" => txOn'
      <4>1. pc' = "idle" /\ result' = "TX_ERROR" => after.ok = "TX_ERROR"
        BY <2>3, <2>4
      <4> QED
        BY <1>1, <1>6, <2>2, <4>1
    <3>3. sends \in oks => pc' \notin {"stale", "free", "poll", "retry"} /\ txOn'
      <4>1. sends \in oks => after.ok \notin {"stale", "retry", "TX_ERROR", "TX_TIMEOUT"} /\ txOn
        BY <1>1, <1>4 DEF ReadyInv
      <4> QED
        BY <1>6, <2>3, <2>4, <4>1
    <3>4. pc' \notin {"cmd", "cip"}
      BY <2>3, <2>4
    <3> QED
      BY <1>2, <1>4, <1>5, <1>6, <3>1, <3>2, <3>3, <3>4 DEF ReadyInv
  <2> QED
    BY <1>2, <1>7, <2>5, <2>6, <2>7 DEF TxInv
<1> QED
  BY <1>8, <1>9

(* The card has not: the call gives up, and the window is not known if a   *)
(* reset may be pending.                                                   *)
LEMMA TxCipTimeout ==
    ASSUME TypeOK, PlanInv, CallInv, TxInv, CipTimeout
    PROVE  TxInv'
<1> USE DEF Running, Trying, Recovering
<1>1. /\ pc = "cip" /\ pc' = "idle" /\ result' = after.failed
      /\ window' = IF Head(todo) = "SelectWindow" THEN FALSE ELSE window
      /\ UNCHANGED <<sends, count, after, txVars, cip, left, oks>>
      /\ sends \in Nat
  BY DEF CipTimeout, Finish, TypeOK
<1>2. FlightInv' /\ InProgress' = InProgress /\ (Settled' <=> Settled)
  BY <1>1, TxKept
<1>3. ResetInv /\ ReadyInv
  BY DEF TxInv
<1>4. result' # "TX_ERROR"
  BY <1>1 DEF PlanInv
<1>5. PollInv' /\ SendInv'
  BY <1>1 DEF PollInv, SendInv
<1>6. ResetInv'
  <2>1. after.ok \in Begins => Head(todo) = "SelectWindow"
    <3>1. after.ok \in Begins => todo = Select
      BY <1>1 DEF PlanInv, Begins
    <3> QED
      BY <3>1, Plans
  <2>2. ~Settled => ~window'
    BY <1>1, <1>3, <2>1 DEF ResetInv
  <2>3. txFifo # <<>> => "TxReset" \in InProgress
    BY <1>1, <1>3 DEF ResetInv
  <2> QED
    BY <1>1, <1>2, <2>2, <2>3 DEF ResetInv, txVars
<1>7. ReadyInv'
  BY <1>1, <1>2, <1>3, <1>4 DEF ReadyInv, txVars
<1> QED
  BY <1>2, <1>5, <1>6, <1>7 DEF TxInv

(* SEND_FRAME between its call and its return.                             *)
LEMMA TxSending ==
    ASSUME TypeOK, PlanInv, CallInv, TxInv, Sending
    PROVE  TxInv'
<1> USE DEF Running, Trying, Recovering
<1>0. /\ FlightInv /\ PollInv /\ SendInv /\ ResetInv /\ ReadyInv
      /\ sends \in Nat /\ txOn \in BOOLEAN
  BY DEF TxInv, TypeOK
<1>1. pc \in {"stale", "free", "poll", "retry"} /\ UNCHANGED <<sends, cip, window, left>>
  BY DEF Sending, StalePop, StaleDone, Write, FreeWait, Complete, PollTimeout, Retry, histVars
<1>2. sends \notin oks
  BY <1>0, <1>1 DEF ReadyInv
<1>3. pc # "poll" => Settled
  BY <1>0, <1>1 DEF ResetInv
<1>4. "TxReset" \notin InProgress /\ InProgress' = InProgress
  <2>1. pc = "poll" => "TxReset" \notin InProgress
    BY <1>0 DEF ResetInv, Settled
  <2> QED
    BY <1>1, <1>3, <2>1 DEF Settled, InProgress
<1>5. txFifo' = <<>> => Settled'
  BY <1>4 DEF Settled
<1>6. pc = "stale" /\ txStat # <<>> => count = 0
  BY <1>0 DEF SendInv
<1>7. pc \in {"stale", "free", "retry"} => left[sends] = 0 /\ txFifo = <<>>
  BY <1>0 DEF SendInv
<1>8. pc \in {"free", "retry"} => txStat = <<>>
  BY <1>0 DEF SendInv
<1>O. oks' = oks => sends' \notin oks' /\ oks' \subseteq 1..sends'
                    /\ \A n \in oks' : left'[n] = 1
  BY <1>0, <1>1, <1>2 DEF ReadyInv
<1>K. UNCHANGED <<txFifo, txStat>> => FlightInv'
  BY <1>0, <1>1 DEF FlightInv
<1>D. txFifo' = <<>> /\ txStat' = <<>> => FlightInv'
  <2>1. Len(<<>>) = 0
    BY EmptySeq
  <2> QED
    BY <1>0, <1>1, <2>1 DEF FlightInv
<1>9. CASE StalePop
  <2>1. /\ pc = "stale" /\ txStat # <<>> /\ txStat' = Tail(txStat)
        /\ UNCHANGED <<pc, todo, after, window, result, txOn, txFifo, oks>>
    BY <1>9 DEF StalePop, HasStale, histVars
  <2>2. txFifo' = <<>> /\ txStat' = <<>>
    BY <1>0, <2>1, AtMostOne
  <2>3. PollInv' /\ SendInv' /\ ResetInv'
    BY <1>1, <1>5, <1>7, <2>1, <2>2 DEF PollInv, SendInv, ResetInv
  <2>4. ReadyInv'
    BY <1>O, <2>1 DEF ReadyInv
  <2> QED
    BY <1>D, <2>2, <2>3, <2>4 DEF TxInv
<1>10. CASE StaleDone
  <2>1. /\ pc = "stale" /\ (txStat = <<>> \/ ~(count < StaleMax)) /\ pc' = "free"
        /\ UNCHANGED <<txOn, txFifo, txStat, oks>>
    BY <1>10 DEF StaleDone, HasStale, histVars, txVars
  <2>2. txStat = <<>> /\ txFifo = <<>>
    <3>1. 0 < StaleMax
      BY DatapathAssumption
    <3> QED
      BY <1>6, <1>7, <2>1, <3>1
  <2>3. PollInv' /\ SendInv' /\ ResetInv'
    BY <1>1, <1>5, <1>7, <2>1, <2>2 DEF PollInv, SendInv, ResetInv
  <2>4. ReadyInv'
    BY <1>O, <2>1 DEF ReadyInv
  <2> QED
    BY <1>K, <2>1, <2>3, <2>4 DEF TxInv
<1>11. CASE Write
  <2>1. /\ pc = "free" /\ pc' = "poll" /\ txFifo' = Append(txFifo, sends)
        /\ UNCHANGED <<txOn, txStat, oks>>
    BY <1>11 DEF Write, histVars
  <2>2. txStat = <<>> /\ txFifo' = <<sends>> /\ left[sends] = 0
    BY <1>7, <1>8, <2>1
  <2>3. FlightInv'
    <3>1. /\ Len(<<sends>>) = 1 /\ Head(<<sends>>) = sends /\ <<sends>> # <<>>
          /\ Len(<<>>) = 0
      OBVIOUS
    <3>2. Len(txFifo') = 1 /\ Len(txStat') = 0 /\ Head(txFifo') = sends
      BY <2>1, <2>2, <3>1
    <3> QED
      BY <1>0, <1>1, <2>2, <3>2 DEF FlightInv
  <2>4. PollInv'
    BY <1>1, <2>1, <2>2 DEF PollInv
  <2>5. SendInv' /\ ResetInv'
    BY <1>4, <2>1 DEF SendInv, ResetInv
  <2>6. ReadyInv'
    BY <1>O, <2>1 DEF ReadyInv
  <2> QED
    BY <2>3, <2>4, <2>5, <2>6 DEF TxInv
<1>12. CASE FreeWait \/ PollTimeout
  <2>1. UNCHANGED <<txOn, txFifo, txStat, oks>> /\ pc \in {"free", "poll"}
    BY <1>12 DEF FreeWait, PollTimeout, histVars, txVars
  <2>2. CASE TxTimeout
    <3>1. pc' = "cmd" /\ todo' = RecoverReset /\ after'.ok = "TX_TIMEOUT"
      BY <2>2, RunStep, PlansDiffer DEF TxTimeout
    <3>2. PollInv' /\ SendInv' /\ ResetInv'
      BY <3>1 DEF PollInv, SendInv, ResetInv
    <3>3. ReadyInv'
      BY <1>O, <2>1, <3>1 DEF ReadyInv
    <3> QED
      BY <1>K, <2>1, <3>2, <3>3 DEF TxInv
  <2>3. CASE ~TxTimeout
    <3>1. pc = "free" /\ UNCHANGED <<pc, todo, after, result>>
      BY <1>12, <2>3 DEF FreeWait, PollTimeout
    <3>2. PollInv' /\ SendInv' /\ ResetInv'
      BY <1>1, <1>5, <1>7, <1>8, <2>1, <3>1 DEF PollInv, SendInv, ResetInv
    <3>3. ReadyInv'
      BY <1>O, <2>1, <3>1 DEF ReadyInv
    <3> QED
      BY <1>K, <2>1, <3>2, <3>3 DEF TxInv
  <2> QED
    BY <2>2, <2>3
<1>13. CASE Complete
  <2> DEFINE st == Head(txStat).status
  <2>1. /\ pc = "poll" /\ txStat # <<>> /\ txStat' = Tail(txStat)
        /\ UNCHANGED <<txOn, txFifo>>
        /\ oks' = IF st = "SENT" THEN oks \cup {sends} ELSE oks
    BY <1>13 DEF Complete
  <2>2. txFifo' = <<>> /\ txStat' = <<>> /\ Settled'
    BY <1>0, <1>5, <2>1, AtMostOne
  <2>3. /\ left[sends] = IF st \in {"RESET", "ENABLE"} THEN 0 ELSE 1
        /\ st \in {"SENT", "ODD"} => txOn
    BY <1>0, <2>1 DEF PollInv
  <2>4. CASE st = "RESET" /\ Run(RecoverReset, "retry", "CMD_TIMEOUT")
    <3>1. pc' = "cmd" /\ todo' = RecoverReset /\ after'.ok = "retry"
      BY <2>4, RunStep, PlansDiffer
    <3>2. left'[sends'] = 0 /\ oks' = oks
      BY <1>1, <2>1, <2>3, <2>4
    <3>3. PollInv' /\ SendInv' /\ ResetInv'
      BY <2>2, <3>1, <3>2 DEF PollInv, SendInv, ResetInv
    <3>4. todo' # Select
      BY <3>1, PlansDiffer
    <3>5. ReadyInv'
      BY <1>O, <3>1, <3>2, <3>4 DEF ReadyInv
    <3> QED
      BY <1>D, <2>2, <3>3, <3>5 DEF TxInv
  <2>5. ASSUME NEW ok \in {"retry", "TX_ERROR"}, Run(RecoverEnable, ok, "CMD_TIMEOUT"),
               st = IF ok = "retry" THEN "ENABLE" ELSE "OVERFLOW"
        PROVE  TxInv'
    <3>1. pc' = "cmd" /\ todo' \in {Enable, EnableSelect} /\ after'.ok = ok
      BY <2>5, RunStep, Plans
    <3>2. oks' = oks /\ (ok = "retry" => left'[sends'] = 0)
      BY <1>1, <2>1, <2>3, <2>5
    <3>3. todo' # RecoverReset /\ todo' # Select
      BY <3>1, PlansDiffer
    <3>4. PollInv' /\ SendInv' /\ ResetInv'
      BY <2>2, <3>1, <3>2, <3>3 DEF PollInv, SendInv, ResetInv
    <3>5. ReadyInv'
      BY <1>O, <3>1, <3>2, <3>3 DEF ReadyInv
    <3> QED
      BY <1>D, <2>2, <3>4, <3>5 DEF TxInv
  <2>6. CASE st \in {"ODD", "SENT"} /\ (GoTo("TX_ERROR") \/ GoTo("OK"))
    <3>1. pc' = "idle" /\ txOn'
      BY <2>1, <2>3, <2>6, GoToStep DEF Results
    <3>2. oks' \subseteq 1..sends' /\ \A n \in oks' : left'[n] = 1
      <4>1. sends \in 1..sends /\ left[sends] = 1
        BY <1>0, <2>1, <2>3, <2>6 DEF CallInv
      <4> QED
        BY <1>0, <1>1, <2>1, <4>1 DEF ReadyInv
    <3>3. PollInv' /\ SendInv' /\ ResetInv'
      BY <2>2, <3>1 DEF PollInv, SendInv, ResetInv
    <3>4. ReadyInv'
      BY <2>2, <3>1, <3>2 DEF ReadyInv
    <3> QED
      BY <1>D, <2>2, <3>3, <3>4 DEF TxInv
  <2>7. \/ st = "RESET" /\ Run(RecoverReset, "retry", "CMD_TIMEOUT")
        \/ st = "ENABLE" /\ Run(RecoverEnable, "retry", "CMD_TIMEOUT")
        \/ st = "OVERFLOW" /\ Run(RecoverEnable, "TX_ERROR", "CMD_TIMEOUT")
        \/ st \in {"ODD", "SENT"} /\ (GoTo("TX_ERROR") \/ GoTo("OK"))
    BY <1>13, CompleteLeads
  <2> HIDE DEF st
  <2>8. CASE st = "ENABLE" /\ Run(RecoverEnable, "retry", "CMD_TIMEOUT")
    BY <2>5, <2>8
  <2>9. CASE st = "OVERFLOW" /\ Run(RecoverEnable, "TX_ERROR", "CMD_TIMEOUT")
    BY <2>5, <2>9
  <2> QED
    BY <2>4, <2>6, <2>7, <2>8, <2>9
<1>14. CASE Retry
  <2>1. /\ pc = "retry" /\ UNCHANGED <<txOn, txFifo, txStat, oks>> /\ count' = 0
        /\ GoTo("TX_ERROR") \/ GoTo("stale")
    BY <1>14 DEF Retry, histVars, txVars
  <2>2. txOn /\ Settled'
    BY <1>0, <1>5, <1>7, <2>1 DEF ReadyInv
  <2>3. pc' = "idle" \/ pc' = "stale"
    BY <2>1, GoToStep DEF Results
  <2>4. PollInv' /\ SendInv' /\ ResetInv'
    BY <1>1, <1>7, <1>8, <2>1, <2>2, <2>3 DEF PollInv, SendInv, ResetInv
  <2>5. ReadyInv'
    BY <1>O, <2>1, <2>2, <2>3 DEF ReadyInv
  <2> QED
    BY <1>K, <2>1, <2>4, <2>5 DEF TxInv
<1> QED
  BY <1>9, <1>10, <1>11, <1>12, <1>13, <1>14 DEF Sending

(* Receiving leaves the transmitter alone.                                 *)
LEMMA TxReceiving ==
    ASSUME TypeOK, PlanInv, TxInv, Receiving
    PROVE  TxInv'
<1> USE DEF Running, Trying, Recovering
<1>0. SendInv /\ ResetInv /\ ReadyInv /\ sends \in Nat
  BY DEF TxInv, TypeOK
<1>1. pc \in {"begin", "pending", "held", "copied"} /\ UNCHANGED <<sends, left, oks>>
  BY DEF Receiving, NothingReceived, BadReceived, HeaderRead, RxPayload, RxDrop, FrameRead,
     FrameTooLong, FrameReturned, histVars
<1>2. UNCHANGED <<txOn, txFifo, txStat>>
      /\ InProgress' \in {InProgress, InProgress \cup {"RxDiscard"}}
  <2>1. CASE RxPayload \/ RxDrop
    <3>1. Issue("RxDiscard")
      BY <2>1 DEF RxPayload, RxDrop
    <3>2. CASE Effect("RxDiscard") /\ cip' = cip
      <4>1. UNCHANGED <<txOn, txFifo, txStat>>
        BY <3>2 DEF Effect
      <4>2. InProgress' = InProgress
        BY <3>2 DEF InProgress
      <4> QED
        BY <4>1, <4>2
    <3>3. CASE cip' = Append(cip, "RxDiscard") /\ UNCHANGED <<txVars, rxFifo>>
      <4>1. cip \in Seq(Commands)
        BY DEF TypeOK
      <4> QED
        BY <3>3, <4>1, ProgressBegins DEF txVars
    <3> QED
      BY <3>1, <3>2, <3>3 DEF Issue
  <2>2. CASE ~(RxPayload \/ RxDrop)
    <3>1. UNCHANGED <<txVars, cip>>
      BY <2>2 DEF Receiving, NothingReceived, BadReceived, HeaderRead, FrameRead, FrameTooLong,
         FrameReturned
    <3> QED
      BY <3>1 DEF InProgress, txVars
  <2> QED
    BY <2>1, <2>2
<1>3. Settled /\ Settled'
  <2>1. Settled
    BY <1>0, <1>1 DEF ResetInv
  <2> QED
    BY <1>2, <2>1 DEF Settled
<1>4. \/ pc' = "idle" /\ result' \in {"NO_FRAME", "OK"}
      \/ pc' = "held"
      \/ pc' = "cmd" /\ after'.ok \in {"RX_ERROR", "copied", "FRAME_SIZE"}
  <2>1. CASE NothingReceived \/ HeaderRead \/ RxPayload \/ RxDrop \/ FrameReturned
    BY <2>1 DEF NothingReceived, HeaderRead, RxPayload, RxDrop, FrameReturned, Finish
  <2>2. ASSUME NEW ok \in {"RX_ERROR", "copied", "FRAME_SIZE"}, NEW failed,
               Run(Discard, ok, failed)
        PROVE  pc' = "cmd" /\ after'.ok \in {"RX_ERROR", "copied", "FRAME_SIZE"}
    BY <2>2, RunStep, PlansDiffer
  <2>3. CASE BadReceived \/ FrameRead \/ FrameTooLong
    BY <2>2, <2>3 DEF BadReceived, FrameRead, FrameTooLong
  <2> QED
    BY <2>1, <2>3 DEF Receiving
<1>5. FlightInv'
  BY <1>1, <1>2 DEF TxInv, FlightInv
<1>6. PollInv' /\ SendInv'
  BY <1>4 DEF PollInv, SendInv
<1>7. ResetInv'
  BY <1>3, <1>4 DEF ResetInv, Settled
<1>8. ReadyInv'
  BY <1>0, <1>1, <1>2, <1>3, <1>4 DEF ReadyInv
<1> QED
  BY <1>5, <1>6, <1>7, <1>8 DEF TxInv

(* A command that ends in the card: a late reset finds no driver that      *)
(* relies on the transmitter.                                              *)
LEMMA TxCommandEnds ==
    ASSUME TypeOK, PlanInv, TxInv, CommandEnds
    PROVE  TxInv'
<1> USE DEF Running, Trying, Recovering
<1> DEFINE c == Head(cip)
<1>0. /\ FlightInv /\ PollInv /\ SendInv /\ ResetInv /\ ReadyInv
      /\ sends \in Nat /\ txOn \in BOOLEAN
  BY DEF TxInv, TypeOK
<1>1. /\ Effect(c) /\ cip # <<>> /\ cip' = Tail(cip)
      /\ UNCHANGED <<pc, sends, count, todo, after, window, result, left, oks>>
  BY DEF CommandEnds, driverVars, histVars
<1>2. InProgress = InProgress' \cup {c}
  <2>1. cip \in Seq(Commands)
    BY DEF TypeOK
  <2> QED
    BY <1>1, <2>1, ProgressEnds
<1>3. CASE c = "TxReset"
  <2>1. txOn' = FALSE /\ txFifo' = <<>> /\ txStat' \in {<<>>, txStat}
    BY <1>1, <1>3, EffectStep
  <2>2. "TxReset" \in InProgress /\ ~Settled
    BY <1>2, <1>3 DEF Settled
  <2>3. \/ pc = "idle" /\ ~window /\ result # "TX_ERROR"
        \/ pc \in {"cmd", "cip"} /\ (after.ok \in Begins \/ todo = RecoverReset)
    BY <1>0, <2>2 DEF ResetInv, ReadyInv
  <2>4. FlightInv'
    <3>1. Len(<<>>) = 0
      BY EmptySeq
    <3>2. txFifo \in Seq(1..Sends) /\ txStat \in Seq([call : 1..Sends, status : TxResults])
      BY DEF TypeOK
    <3>3. Len(txFifo) \in Nat /\ Len(txStat) \in Nat /\ Len(txFifo) + Len(txStat) <= 1
      BY <1>0, <3>2, LenProperties DEF FlightInv
    <3>4. Len(txFifo') + Len(txStat') <= 1
      <4>1. Len(txFifo') = 0 /\ Len(txStat') \in {0, Len(txStat)}
        BY <2>1, <3>1
      <4> QED
        BY <3>3, <4>1
    <3> QED
      BY <1>0, <1>1, <2>1, <3>4 DEF FlightInv
  <2>5. PollInv'
    BY <1>1, <2>3 DEF PollInv
  <2>6. SendInv'
    BY <1>0, <1>1, <2>1, <2>3 DEF SendInv
  <2>7. ResetInv'
    BY <1>0, <1>1, <2>1, <2>3 DEF ResetInv
  <2>8. ReadyInv'
    <3>1. sends \notin oks
      BY <1>0, <2>2 DEF ReadyInv
    <3>2. ~(Recovering /\ todo \in {Select, Enable, EnableSelect})
      <4>1. \A t \in {Select, Enable, EnableSelect} : t # RecoverReset
        BY PlansDiffer
      <4> QED
        BY <2>3, <4>1 DEF Begins
    <3> QED
      BY <1>0, <1>1, <2>3, <3>1, <3>2 DEF ReadyInv
  <2> QED
    BY <2>4, <2>5, <2>6, <2>7, <2>8 DEF TxInv
<1>4. CASE c # "TxReset"
  <2>1. /\ txFifo' = txFifo /\ txStat' = txStat
        /\ txOn' = IF c = "TxEnable" THEN TRUE ELSE txOn
    BY <1>1, <1>4, EffectStep
  <2>2. (txOn => txOn') /\ (txOn \/ "TxEnable" \in InProgress => txOn' \/ "TxEnable" \in InProgress')
    BY <1>2, <2>1
  <2>3. "TxReset" \in InProgress' <=> "TxReset" \in InProgress
    BY <1>2, <1>4
  <2>4. Settled' <=> Settled
    BY <2>1, <2>3 DEF Settled
  <2>5. FlightInv'
    BY <1>0, <1>1, <2>1 DEF FlightInv
  <2>6. PollInv'
    BY <1>0, <1>1, <2>1, <2>2 DEF PollInv
  <2>7. SendInv'
    BY <1>0, <1>1, <2>1 DEF SendInv
  <2>8. ResetInv'
    BY <1>0, <1>1, <2>1, <2>3, <2>4 DEF ResetInv
  <2>9. ReadyInv'
    BY <1>0, <1>1, <2>2, <2>4 DEF ReadyInv
  <2> QED
    BY <2>5, <2>6, <2>7, <2>8, <2>9 DEF TxInv
<1> QED
  BY <1>3, <1>4

(* The card is done with a frame: it is the frame of the call that polls,  *)
(* or one of an earlier call that has already failed.                      *)
LEMMA TxCardTransmits ==
    ASSUME TypeOK, PlanInv, TxInv, NEW st \in TxResults, CardTransmits(st)
    PROVE  TxInv'
<1> USE DEF Running, Trying, Recovering
<1> DEFINE h == Head(txFifo)
<1>0. /\ FlightInv /\ PollInv /\ SendInv /\ ResetInv /\ ReadyInv
      /\ sends \in 0..Sends /\ left \in [1..Sends -> Nat] /\ Sends \in Nat
  BY DatapathAssumption DEF TxInv, TypeOK
<1>1. /\ txFifo # <<>> /\ txFifo' = Tail(txFifo)
      /\ txStat' = Append(txStat, [call |-> h, status |-> st])
      /\ txOn' = (st \in {"SENT", "ODD"})
      /\ left' = IF st \in {"RESET", "ENABLE"} THEN left ELSE [left EXCEPT ![h] = left[h] + 1]
      /\ UNCHANGED <<pc, sends, count, todo, after, window, result, cip, oks>>
  BY DEF CardTransmits, driverVars
<1>2. /\ txStat = <<>> /\ txFifo' = <<>> /\ h \in 1..Sends /\ left[h] = 0 /\ h <= sends
      /\ txStat' = <<[call |-> h, status |-> st]>>
  <2>1. txStat = <<>> /\ Tail(txFifo) = <<>> /\ h \in 1..Sends
    BY <1>0, <1>1, AtMostOne
  <2>2. Append(<<>>, [call |-> h, status |-> st]) = <<[call |-> h, status |-> st]>>
    OBVIOUS
  <2>3. left[h] = 0 /\ h <= sends
    BY <1>0, <1>1 DEF FlightInv
  <2> QED
    BY <1>1, <2>1, <2>2, <2>3
<1>3. /\ \A n \in 1..Sends : n # h => left'[n] = left[n]
      /\ left'[h] = IF st \in {"RESET", "ENABLE"} THEN 0 ELSE 1
  BY <1>0, <1>1, <1>2
<1>4. InProgress' = InProgress
  BY <1>1 DEF InProgress
<1>5. ~Settled /\ ("TxReset" \notin InProgress => Settled')
  BY <1>1, <1>2, <1>4 DEF Settled
<1>6. sends \notin oks
  BY <1>0, <1>5 DEF ReadyInv
<1>7. pc \notin {"free", "retry", "stale"} /\ ~Recovering
  BY <1>0, <1>1 DEF SendInv
<1>8. FlightInv'
  <2>1. /\ Len(<<>>) = 0 /\ Len(<<[call |-> h, status |-> st]>>) = 1
    OBVIOUS
  <2>2. Len(txFifo') + Len(txStat') <= 1
    BY <1>2, <2>1
  <2>3. ASSUME NEW n \in 1..Sends
        PROVE  left'[n] \in {0, 1} /\ (n > sends' => left'[n] = 0)
    BY <1>0, <1>1, <1>2, <1>3 DEF FlightInv
  <2> QED
    BY <1>2, <2>2, <2>3 DEF FlightInv
<1>9. PollInv'
  <2>1. ASSUME pc = "poll"
        PROVE  left'[sends] = IF st \in {"RESET", "ENABLE"} THEN 0 ELSE 1
    <3>1. txFifo = <<sends>>
      BY <1>0, <1>1, <2>1 DEF PollInv
    <3>2. Head(<<sends>>) = sends
      OBVIOUS
    <3>3. h = sends
      BY <3>1, <3>2
    <3> QED
      BY <1>2, <1>3, <3>3
  <2>2. txStat' # <<>> /\ Head(txStat').status = st
    <3> DEFINE r == [call |-> h, status |-> st]
    <3>1. <<r>> # <<>> /\ Head(<<r>>) = r /\ r.status = st
      OBVIOUS
    <3> QED
      BY <1>2, <3>1
  <2> QED
    BY <1>1, <1>2, <2>1, <2>2 DEF PollInv
<1>10. SendInv'
  <2>1. ASSUME Trying
        PROVE  left'[sends'] = 0
    <3>1. left[sends] = 0 /\ h < sends
      BY <1>0, <1>1, <2>1 DEF SendInv
    <3>2. sends \in 1..Sends /\ sends # h
      BY <1>0, <1>2, <3>1
    <3> QED
      BY <1>1, <1>3, <3>1, <3>2
  <2> QED
    BY <1>0, <1>1, <1>2, <1>7, <2>1 DEF SendInv
<1>11. ResetInv'
  BY <1>0, <1>1, <1>2, <1>4, <1>5 DEF ResetInv
<1>12. ReadyInv'
  <2>1. ASSUME NEW n \in oks
        PROVE  left'[n] = 1
    <3>1. n \in 1..Sends /\ left[n] = 1
      BY <1>0, <2>1 DEF ReadyInv
    <3> QED
      BY <1>2, <1>3, <3>1
  <2>2. ~(pc = "idle" /\ result = "TX_ERROR")
    BY <1>0, <1>5 DEF ReadyInv
  <2> QED
    BY <1>0, <1>1, <1>6, <1>7, <2>1, <2>2 DEF ReadyInv
<1> QED
  BY <1>8, <1>9, <1>10, <1>11, <1>12 DEF TxInv

LEMMA TxStep ==
    ASSUME TypeOK, PlanInv, CallInv, TxInv, [Next]_vars
    PROVE  TxInv'
<1>1. CASE Call
  BY <1>1, TxCall
<1>2. CASE Driver
  BY <1>2, TxCommand, TxCipClear, TxCipTimeout, TxSending, TxReceiving DEF Driver
<1>3. CASE CommandEnds
  BY <1>3, TxCommandEnds
<1>4. ASSUME NEW st \in TxResults, CardTransmits(st)
      PROVE  TxInv'
  BY <1>4, TxCardTransmits
<1>5. ASSUME (\E good \in BOOLEAN : CardReceives(good)) \/ UNCHANGED vars
      PROVE  TxInv'
  <2>1. /\ UNCHANGED <<txVars, cip, left, oks>>
        /\ UNCHANGED <<pc, sends, count, todo, after, window, result>>
    BY <1>5 DEF CardReceives, vars, driverVars, histVars
  <2> QED
    BY <2>1, TxStutter
<1> QED
  BY <1>1, <1>2, <1>3, <1>4, <1>5 DEF Next, Card

----------------------------------------------------------------------------
(* The receiver.                                                           *)

(* A discard in progress, as the history variable sees it; and how the     *)
(* commands in progress gain and lose one.                                 *)
LEMMA DueSeen ==
    ASSUME TypeOK
    PROVE  Discarding <=> DiscardDue
<1>1. DOMAIN cip = 1..Len(cip)
  BY LenProperties DEF TypeOK
<1> QED
  BY <1>1 DEF Discarding, DiscardDue, InProgress

LEMMA DueBegins ==
    ASSUME TypeOK, OneDiscard, NEW c, cip' = Append(cip, c), ~DiscardDue \/ c # "RxDiscard"
    PROVE  OneDiscard' /\ (DiscardDue' <=> DiscardDue \/ c = "RxDiscard")
<1>1. cip \in Seq(Commands)
  BY DEF TypeOK
<1>2. DiscardDue' <=> DiscardDue \/ c = "RxDiscard"
  BY <1>1, ProgressBegins DEF DiscardDue
<1>3. /\ Len(cip) \in Nat /\ Len(cip') = Len(cip) + 1 /\ cip'[Len(cip) + 1] = c
      /\ \A i \in 1..Len(cip) : cip'[i] = cip[i]
  <2>1. cip \in Seq(Commands \cup {c}) /\ c \in Commands \cup {c}
    BY <1>1, SeqMonotonic
  <2> QED
    BY <2>1, AppendProperties
<1>4. \A i \in 1..Len(cip') : i \in 1..Len(cip) \/ i = Len(cip) + 1
  BY <1>3
<1>5. ~DiscardDue => \A i \in 1..Len(cip) : cip[i] # "RxDiscard"
  BY DEF DiscardDue, InProgress
<1> QED
  BY <1>2, <1>3, <1>4, <1>5 DEF OneDiscard

LEMMA DueEnds ==
    ASSUME TypeOK, OneDiscard, cip # <<>>, cip' = Tail(cip)
    PROVE  OneDiscard' /\ (DiscardDue' <=> DiscardDue /\ Head(cip) # "RxDiscard")
<1>1. cip \in Seq(Commands)
  BY DEF TypeOK
<1>2. /\ Len(cip) \in Nat \ {0} /\ Head(cip) = cip[1]
      /\ Len(cip') = Len(cip) - 1 /\ \A i \in 1..Len(cip') : cip'[i] = cip[i + 1]
  BY <1>1, HeadTail
<1>3. \A i \in 1..Len(cip') : i + 1 \in 1..Len(cip) /\ i + 1 # 1
  BY <1>2
<1>4. OneDiscard'
  <2>1. ASSUME NEW i \in 1..Len(cip'), NEW j \in 1..Len(cip'),
               cip'[i] = "RxDiscard", cip'[j] = "RxDiscard"
        PROVE  i = j
    <3>1. i + 1 = j + 1
      BY <1>2, <1>3, <2>1 DEF OneDiscard
    <3> QED
      BY <3>1
  <2> QED
    BY <2>1 DEF OneDiscard
<1>5. Head(cip) = "RxDiscard" => ~DiscardDue'
  <2>1. ASSUME Head(cip) = "RxDiscard", NEW i \in 1..Len(cip'), cip'[i] = "RxDiscard"
        PROVE  FALSE
    <3>1. 1 \in 1..Len(cip) /\ cip[1] = "RxDiscard"
      BY <1>2, <2>1
    <3>2. i + 1 \in 1..Len(cip) /\ i + 1 # 1 /\ cip[i + 1] = "RxDiscard"
      BY <1>2, <1>3, <2>1
    <3> QED
      BY <3>1, <3>2 DEF OneDiscard
  <2> QED
    BY <2>1 DEF DiscardDue, InProgress
<1>6. InProgress = InProgress' \cup {Head(cip)}
  BY <1>1, ProgressEnds
<1> QED
  BY <1>4, <1>5, <1>6 DEF DiscardDue

LEMMA DueStays ==
    ASSUME cip' = cip
    PROVE  (OneDiscard' <=> OneDiscard) /\ (DiscardDue' <=> DiscardDue)
BY DEF OneDiscard, DiscardDue, InProgress

(* The sizes the receiver counts with.                                     *)
LEMMA GoneType ==
    ASSUME TypeOK, QueueInv
    PROVE  /\ Len(rxFifo) \in Nat /\ arrived \in Nat /\ Len(delivered) \in Nat
           /\ passed \in Nat /\ gone \in Nat /\ held \in Nat
           /\ \A i \in 1..Len(delivered) : delivered[i].header \in Nat
           /\ rxFifo # <<>> => Head(rxFifo).id = passed + 1
<1>1. /\ rxFifo \in Seq([id : 1..Arrivals, good : BOOLEAN])
      /\ delivered \in Seq([header : 1..Arrivals, payload : 0..Arrivals])
      /\ arrived \in Nat /\ held \in Nat
  BY DEF TypeOK
<1>2. Len(rxFifo) \in Nat /\ Len(delivered) \in Nat
  BY <1>1, LenProperties
<1>3. \A i \in 1..Len(delivered) : delivered[i].header \in Nat
  <2>1. \A i \in 1..Len(delivered) :
            delivered[i] \in [header : 1..Arrivals, payload : 0..Arrivals]
    BY <1>1, ElementOfSeq
  <2> QED
    BY <2>1
<1>4. passed \in Nat
  BY <1>1, <1>2 DEF passed, QueueInv
<1>5. ASSUME rxFifo # <<>>
      PROVE  Head(rxFifo).id = passed + 1
  <2>1. Len(rxFifo) \in Nat \ {0} /\ Head(rxFifo) = rxFifo[1]
    BY <1>1, <1>5, HeadTail
  <2>2. 1 \in 1..Len(rxFifo)
    BY <2>1
  <2> QED
    BY <2>1, <2>2 DEF QueueInv
<1> QED
  BY <1>1, <1>2, <1>3, <1>4, <1>5 DEF gone

(* The head of the receive FIFO leaves it.                                 *)
LEMMA RxPopped ==
    ASSUME TypeOK, QueueInv, rxFifo # <<>>, rxFifo' = Tail(rxFifo), arrived' = arrived,
           OneDiscard', ~DiscardDue'
    PROVE  QueueInv' /\ gone' = passed + 1
<1>1. /\ Len(rxFifo) \in Nat \ {0} /\ Len(rxFifo') = Len(rxFifo) - 1
      /\ \A i \in 1..Len(rxFifo') : rxFifo'[i] = rxFifo[i + 1]
  BY HeadTail DEF TypeOK
<1>2. arrived \in Nat /\ Len(rxFifo) <= arrived
  BY GoneType DEF QueueInv
<1>3. passed' = passed + 1 /\ passed \in Nat /\ Len(rxFifo') <= arrived'
  BY <1>1, <1>2 DEF passed
<1>4. ASSUME NEW i \in 1..Len(rxFifo')
      PROVE  rxFifo'[i].id = passed' + i
  <2>1. i + 1 \in 1..Len(rxFifo)
    BY <1>1
  <2>2. rxFifo[i + 1].id = passed + (i + 1)
    BY <2>1 DEF QueueInv
  <2> QED
    BY <1>1, <1>3, <2>2
<1>5. gone' = passed'
  BY DEF gone
<1> QED
  BY <1>3, <1>4, <1>5 DEF QueueInv

(* A discard is issued while none is in progress: done at once or not, the *)
(* head of the receive FIFO is gone.                                       *)
LEMMA RxIssued ==
    ASSUME TypeOK, QueueInv, ~DiscardDue, rxFifo # <<>>, Issue("RxDiscard"),
           arrived' = arrived
    PROVE  QueueInv' /\ gone' = gone + 1
<1>0. OneDiscard /\ gone = passed
  BY DEF QueueInv, gone
<1>1. CASE Effect("RxDiscard") /\ cip' = cip
  <2>1. rxFifo' = Tail(rxFifo) /\ OneDiscard' /\ ~DiscardDue'
    BY <1>0, <1>1, EffectStep, DueStays
  <2> QED
    BY <1>0, <2>1, RxPopped
<1>2. CASE cip' = Append(cip, "RxDiscard") /\ rxFifo' = rxFifo
  <2>1. OneDiscard' /\ DiscardDue'
    BY <1>0, <1>2, DueBegins
  <2>2. passed' = passed
    BY <1>2 DEF passed
  <2>3. QueueInv'
    BY <1>2, <2>1, <2>2 DEF QueueInv
  <2> QED
    BY <1>0, <2>1, <2>2, <2>3 DEF gone
<1> QED
  BY <1>1, <1>2 DEF Issue

(* No frame has moved: what is known of the receiver stays known as long   *)
(* as the driver does not come to rely on more.                            *)
LEMMA RxQuiet ==
    ASSUME TypeOK, ReceiveInv, UNCHANGED <<rxFifo, arrived, delivered>>,
           OneDiscard', DiscardDue' <=> DiscardDue, dropped \subseteq dropped',
           Copied /\ ~Copied' => held \in dropped',
           Copied' => Copied /\ held' = held,
           pc' = "held" \/ (pc' = "cmd" /\ after'.ok = "copied")
             => ~DiscardDue /\ rxFifo # <<>> /\ Head(rxFifo).id = held',
           pc' = "cmd" /\ after'.ok \in {"RX_ERROR", "FRAME_SIZE"}
             => ~DiscardDue /\ rxFifo # <<>> /\ Head(rxFifo).id \in dropped'
    PROVE  ReceiveInv'
<1>1. passed' = passed /\ gone' = gone
  BY DEF gone, passed
<1>2. QueueInv'
  BY <1>1 DEF ReceiveInv, QueueInv
<1>3. OrderInv'
  <2>1. OrderInv
    BY DEF ReceiveInv
  <2> QED
    BY <1>1, <2>1 DEF OrderInv
<1>4. HeldInv'
  <2>1. Copied' => held' = gone'
    BY <1>1 DEF ReceiveInv, HeldInv
  <2> QED
    BY <2>1 DEF HeldInv
<1>5. GoneInv'
  <2>1. GoneInv
    BY DEF ReceiveInv
  <2>2. ASSUME NEW id \in 1..gone
        PROVE  \/ id \in dropped' \/ (Copied' /\ id = held')
               \/ \E i \in 1..Len(delivered) : delivered[i].header = id
    <3>1. CASE id \in dropped \/ \E i \in 1..Len(delivered) : delivered[i].header = id
      BY <3>1
    <3>2. CASE Copied /\ id = held
      BY <3>2
    <3> QED
      BY <2>1, <3>1, <3>2 DEF GoneInv
  <2> QED
    BY <1>1, <2>2 DEF GoneInv
<1> QED
  BY <1>2, <1>3, <1>4, <1>5 DEF ReceiveInv

(* The frame a RX_DISCARD takes was delivered just now, dropped, or has    *)
(* been copied.                                                            *)
LEMMA RxDiscarded ==
    ASSUME TypeOK, ReceiveInv, ~Copied, ~DiscardDue, rxFifo # <<>>, Issue("RxDiscard"),
           arrived' = arrived, pc' \notin {"cmd", "held"},
           delivered' = delivered, dropped \subseteq dropped',
           Copied' => held' = Head(rxFifo).id,
           Head(rxFifo).id \in dropped' \/ Copied'
    PROVE  ReceiveInv'
<1>0. QueueInv /\ OrderInv /\ GoneInv
  BY DEF ReceiveInv
<1>1. QueueInv' /\ gone' = gone + 1 /\ gone \in Nat /\ Head(rxFifo).id = gone + 1
  BY <1>0, RxIssued, GoneType DEF gone
<1>2. Copied' => held' = gone + 1
  BY <1>1
<1>3. OrderInv'
  <2>1. ASSUME NEW i \in 1..Len(delivered)
        PROVE  /\ delivered[i].payload = delivered[i].header
               /\ delivered[i].header <= gone'
               /\ Copied' => delivered[i].header < held'
               /\ \A j \in 1..(i - 1) : delivered[j].header < delivered[i].header
    <3>1. delivered[i].header \in Nat /\ delivered[i].header <= gone
      BY <1>0, GoneType DEF OrderInv
    <3>2. delivered[i].header <= gone + 1 /\ delivered[i].header < gone + 1
      BY <1>1, <3>1
    <3> QED
      BY <1>0, <1>1, <1>2, <3>2 DEF OrderInv
  <2> QED
    BY <2>1 DEF OrderInv
<1>4. HeldInv'
  BY <1>1, <1>2 DEF HeldInv
<1>5. GoneInv'
  <2>1. ASSUME NEW id \in 1..(gone + 1)
        PROVE  \/ id \in dropped' \/ (Copied' /\ id = held')
               \/ \E i \in 1..Len(delivered) : delivered[i].header = id
    <3>1. CASE id = gone + 1
      BY <1>1, <1>2, <3>1
    <3>2. CASE id # gone + 1
      <4>1. id \in 1..gone
        BY <1>1, <3>2
      <4> QED
        BY <1>0, <4>1 DEF GoneInv
    <3> QED
      BY <3>1, <3>2
  <2> QED
    BY <1>1, <2>1 DEF GoneInv
<1> QED
  BY <1>1, <1>3, <1>4, <1>5 DEF ReceiveInv

(* A frame is delivered: the one whose header was read, and the last gone. *)
LEMMA RxDelivered ==
    ASSUME TypeOK, ReceiveInv, QueueInv', ~Copied', pc' = "idle", dropped' = dropped,
           delivered' = Append(delivered, [header |-> held, payload |-> held]), held = gone',
           \A i \in 1..Len(delivered) : delivered[i].header < held,
           gone' = gone \/ (gone' = gone + 1 /\ ~Copied)
    PROVE  ReceiveInv'
<1> DEFINE r == [header |-> held, payload |-> held]
<1>0. OrderInv /\ GoneInv /\ QueueInv
  BY DEF ReceiveInv
<1>1. /\ Len(delivered) \in Nat /\ held \in Nat /\ gone \in Nat
      /\ \A i \in 1..Len(delivered) : delivered[i].header \in Nat
  BY <1>0, GoneType
<1>2. /\ Len(delivered') = Len(delivered) + 1 /\ delivered'[Len(delivered) + 1] = r
      /\ \A i \in 1..Len(delivered) : delivered'[i] = delivered[i]
  <2> DEFINE S == [header : 1..Arrivals, payload : 0..Arrivals] \cup {r}
  <2>1. delivered \in Seq([header : 1..Arrivals, payload : 0..Arrivals])
    BY DEF TypeOK
  <2>2. delivered \in Seq(S) /\ r \in S
    BY <2>1, SeqMonotonic
  <2> HIDE DEF S, r
  <2>3. delivered' = Append(delivered, r)
    BY DEF r
  <2> QED
    BY <2>2, <2>3, AppendProperties
<1>3. r.header = held /\ r.payload = held
  OBVIOUS
<1> HIDE DEF r
<1>4. OrderInv'
  <2>1. ASSUME NEW i \in 1..Len(delivered')
        PROVE  /\ delivered'[i].payload = delivered'[i].header
               /\ delivered'[i].header <= gone'
               /\ \A j \in 1..(i - 1) : delivered'[j].header < delivered'[i].header
    <3>1. CASE i = Len(delivered) + 1
      <4>1. delivered'[i] = r
        BY <1>2, <3>1
      <4>2. ASSUME NEW j \in 1..(i - 1)
            PROVE  delivered'[j].header < held
        <5>1. j \in 1..Len(delivered)
          BY <1>1, <3>1
        <5> QED
          BY <1>2, <5>1
      <4> QED
        BY <1>1, <1>3, <4>1, <4>2
    <3>2. CASE i # Len(delivered) + 1
      <4>1. i \in 1..Len(delivered)
        BY <1>1, <1>2, <3>2
      <4>2. delivered'[i] = delivered[i] /\ delivered[i].header < held
        BY <1>2, <4>1
      <4>3. ASSUME NEW j \in 1..(i - 1)
            PROVE  delivered'[j].header < delivered[i].header
        <5>1. j \in 1..Len(delivered)
          BY <1>1, <4>1
        <5> QED
          BY <1>0, <1>2, <4>1, <5>1 DEF OrderInv
      <4>4. delivered[i].header <= held
        BY <1>1, <4>1, <4>2
      <4> QED
        BY <1>0, <4>1, <4>2, <4>3, <4>4 DEF OrderInv
    <3> QED
      BY <3>1, <3>2
  <2> QED
    BY <2>1 DEF OrderInv
<1>5. HeldInv'
  BY DEF HeldInv
<1>6. GoneInv'
  <2>1. ASSUME NEW id \in 1..gone', id \notin dropped
        PROVE  \E i \in 1..Len(delivered') : delivered'[i].header = id
    <3>1. CASE id = held
      <4>1. Len(delivered) + 1 \in 1..Len(delivered')
        BY <1>1, <1>2
      <4> QED
        BY <1>2, <1>3, <3>1, <4>1
    <3>2. CASE id # held
      <4>1. id \in 1..gone
        BY <1>1, <3>2
      <4>2. PICK i \in 1..Len(delivered) : delivered[i].header = id
        BY <1>0, <2>1, <3>2, <4>1 DEF GoneInv
      <4>3. i \in 1..Len(delivered')
        BY <1>1, <1>2
      <4> QED
        BY <1>2, <4>2, <4>3
    <3> QED
      BY <3>1, <3>2
  <2> QED
    BY <2>1 DEF GoneInv
<1> QED
  BY <1>4, <1>5, <1>6 DEF ReceiveInv

(* The card works on: a discard ends, of the head that was already gone,   *)
(* or a frame arrives.                                                     *)
LEMMA RxCard ==
    ASSUME TypeOK, ReceiveInv, Card \/ UNCHANGED vars
    PROVE  ReceiveInv'
<1>0. /\ QueueInv /\ HeldInv
      /\ pc' = pc /\ after' = after /\ held' = held /\ UNCHANGED <<delivered, dropped>>
  BY DEF ReceiveInv, Card, CommandEnds, CardTransmits, CardReceives, vars, driverVars, histVars
<1>1. Copied' <=> Copied
  BY <1>0 DEF Copied
<1>Q. ASSUME UNCHANGED <<rxFifo, arrived>>, OneDiscard', DiscardDue' <=> DiscardDue
      PROVE  ReceiveInv'
  BY <1>0, <1>1, <1>Q, RxQuiet DEF HeldInv
<1>2. CASE CommandEnds
  <2>1. /\ Effect(Head(cip)) /\ cip # <<>> /\ cip' = Tail(cip) /\ arrived' = arrived
    BY <1>2 DEF CommandEnds
  <2>2. OneDiscard' /\ (DiscardDue' <=> DiscardDue /\ Head(cip) # "RxDiscard")
    BY <1>0, <2>1, DueEnds DEF QueueInv
  <2>3. CASE Head(cip) # "RxDiscard"
    <3>1. rxFifo' = rxFifo
      BY <2>1, <2>3, EffectStep
    <3> QED
      BY <1>Q, <2>1, <2>2, <2>3, <3>1
  <2>4. CASE Head(cip) = "RxDiscard"
    <3>1. DiscardDue /\ ~DiscardDue'
      <4>1. cip \in Seq(Commands)
        BY DEF TypeOK
      <4> QED
        BY <2>1, <2>2, <2>4, <4>1, ProgressEnds DEF DiscardDue
    <3>2. rxFifo # <<>> /\ rxFifo' = Tail(rxFifo)
      BY <1>0, <2>1, <2>4, <3>1, EffectStep DEF QueueInv
    <3>3. QueueInv' /\ gone' = passed + 1
      BY <1>0, <2>1, <2>2, <3>1, <3>2, RxPopped
    <3>4. gone' = gone
      BY <3>1, <3>3 DEF gone
    <3>5. OrderInv' /\ GoneInv'
      BY <1>0, <1>1, <3>4 DEF ReceiveInv, OrderInv, GoneInv
    <3>6. HeldInv'
      BY <1>0, <1>1, <3>1, <3>4 DEF HeldInv
    <3> QED
      BY <3>3, <3>5, <3>6 DEF ReceiveInv
  <2> QED
    BY <2>3, <2>4
<1>3. CASE (\E st \in TxResults : CardTransmits(st)) \/ UNCHANGED vars
  <2>1. UNCHANGED <<rxFifo, arrived, cip>>
    BY <1>3 DEF CardTransmits, vars, rxVars
  <2>2. OneDiscard' /\ (DiscardDue' <=> DiscardDue)
    BY <1>0, <2>1, DueStays DEF QueueInv
  <2> QED
    BY <1>Q, <2>1, <2>2
<1>4. ASSUME NEW good \in BOOLEAN, CardReceives(good)
      PROVE  ReceiveInv'
  <2> DEFINE r == [id |-> arrived + 1, good |-> good]
  <2>1. arrived' = arrived + 1 /\ cip' = cip /\ rxFifo' = Append(rxFifo, r)
    BY <1>4 DEF CardReceives
  <2>2. /\ Len(rxFifo) \in Nat /\ Len(rxFifo') = Len(rxFifo) + 1
        /\ rxFifo'[Len(rxFifo) + 1] = r /\ \A i \in 1..Len(rxFifo) : rxFifo'[i] = rxFifo[i]
    <3> DEFINE S == [id : 1..Arrivals, good : BOOLEAN] \cup {r}
    <3>1. rxFifo \in Seq([id : 1..Arrivals, good : BOOLEAN])
      BY DEF TypeOK
    <3>2. rxFifo \in Seq(S) /\ r \in S
      BY <3>1, SeqMonotonic
    <3>3. rxFifo' = Append(rxFifo, r)
      BY <2>1
    <3> HIDE DEF S, r
    <3> QED
      BY <3>2, <3>3, AppendProperties
  <2>3. arrived \in Nat /\ passed \in Nat
    BY <1>0, GoneType
  <2>D. OneDiscard' /\ (DiscardDue' <=> DiscardDue)
    BY <1>0, <2>1, DueStays DEF QueueInv
  <2>P. passed' = passed
    BY <2>1, <2>2, <2>3 DEF passed
  <2>4. gone' = gone
    BY <2>D, <2>P DEF gone
  <2>5. r.id = passed + Len(rxFifo) + 1
    BY <2>2, <2>3 DEF passed
  <2> HIDE DEF r
  <2>6. QueueInv'
    <3>1. Len(rxFifo') <= arrived'
      BY <1>0, <2>1, <2>2, <2>3 DEF QueueInv
    <3>2. ASSUME NEW i \in 1..Len(rxFifo')
          PROVE  rxFifo'[i].id = passed' + i
      <4>1. CASE i = Len(rxFifo) + 1
        BY <2>2, <2>3, <2>P, <2>5, <4>1
      <4>2. CASE i # Len(rxFifo) + 1
        <5>1. i \in 1..Len(rxFifo)
          BY <2>2, <4>2
        <5> QED
          BY <1>0, <2>2, <2>P, <5>1 DEF QueueInv
      <4> QED
        BY <4>1, <4>2
    <3>3. DiscardDue' => rxFifo' # <<>>
      <4>1. Len(rxFifo') # 0
        BY <2>2
      <4> QED
        BY <4>1, EmptySeq
    <3> QED
      BY <2>D, <3>1, <3>2, <3>3 DEF QueueInv
  <2>7. rxFifo # <<>> => rxFifo' # <<>> /\ Head(rxFifo') = Head(rxFifo)
    <3>1. ASSUME rxFifo # <<>>
          PROVE  rxFifo' # <<>> /\ Head(rxFifo') = Head(rxFifo)
      <4>1. rxFifo \in Seq([id : 1..Arrivals, good : BOOLEAN])
        BY DEF TypeOK
      <4>2. Len(rxFifo) \in Nat \ {0} /\ Head(rxFifo) = rxFifo[1]
        BY <3>1, <4>1, HeadTail
      <4>3. 1 \in 1..Len(rxFifo) /\ Len(rxFifo') # 0
        BY <2>2, <4>2
      <4>4. rxFifo' # <<>>
        BY <4>3, EmptySeq
      <4>5. Head(rxFifo') = rxFifo'[1]
        BY <2>1, <2>2, <4>1, <4>4 DEF r
      <4> QED
        BY <2>2, <4>2, <4>3, <4>4, <4>5
    <3> QED
      BY <3>1
  <2>8. OrderInv' /\ GoneInv'
    BY <1>0, <1>1, <2>4 DEF ReceiveInv, OrderInv, GoneInv
  <2>9. HeldInv'
    BY <1>0, <1>1, <2>D, <2>4, <2>7 DEF HeldInv
  <2> QED
    BY <2>6, <2>8, <2>9 DEF ReceiveInv
<1> QED
  BY <1>2, <1>3, <1>4 DEF Card

(* The driver runs a command.                                              *)
LEMMA RxCommand ==
    ASSUME TypeOK, PlanInv, ReceiveInv, Command
    PROVE  ReceiveInv'
<1> DEFINE c == Head(todo)
<1>0. QueueInv /\ HeldInv
  BY DEF ReceiveInv
<1>1. /\ pc = "cmd" /\ pc' = "cip" /\ Issue(c)
      /\ UNCHANGED <<after, held, arrived, delivered, dropped>>
  BY DEF Command, histVars
<1>2. c = "RxDiscard" <=> after.ok \in {"RX_ERROR", "copied", "FRAME_SIZE"}
  <2>1. CASE todo = Discard
    <3>1. c = "RxDiscard"
      BY <2>1, Plans
    <3>2. \A t \in {RecoverReset, AfterReset, EnableSelect, Select, Enable} : t # Discard
      BY Plans
    <3> QED
      BY <1>1, <2>1, <3>1, <3>2 DEF PlanInv, Running
  <2>2. CASE todo # Discard
    <3>1. todo \in {RecoverReset, AfterReset, EnableSelect, Select, Enable}
      BY <1>1, <2>2 DEF PlanInv, Running
    <3>2. c # "RxDiscard"
      BY <3>1, Plans
    <3>3. after.ok \notin {"RX_ERROR", "copied", "FRAME_SIZE"}
      BY <1>1, <2>2 DEF PlanInv, Running, Begins
    <3> QED
      BY <3>2, <3>3
  <2> QED
    BY <2>1, <2>2
<1>3. CASE c = "RxDiscard"
  <2>1. /\ ~DiscardDue /\ rxFifo # <<>> /\ (after.ok = "copied" => held = Head(rxFifo).id)
        /\ after.ok # "copied" => Head(rxFifo).id \in dropped
    BY <1>0, <1>1, <1>2, <1>3 DEF HeldInv
  <2>2. ~Copied /\ (Copied' <=> after.ok = "copied")
    BY <1>1 DEF Copied
  <2> QED
    BY <1>1, <1>3, <2>1, <2>2, RxDiscarded
<1>4. CASE c # "RxDiscard"
  <2>1. rxFifo' = rxFifo
    BY <1>1, <1>4, EffectStep DEF Issue
  <2>2. OneDiscard' /\ (DiscardDue' <=> DiscardDue)
    <3>1. OneDiscard
      BY <1>0 DEF QueueInv
    <3>2. CASE cip' = cip
      BY <3>1, <3>2, DueStays
    <3>3. CASE cip' = Append(cip, c)
      BY <1>4, <3>1, <3>3, DueBegins
    <3> QED
      BY <1>1, <3>2, <3>3 DEF Issue
  <2>3. ~Copied /\ ~Copied'
    BY <1>1, <1>2, <1>4 DEF Copied
  <2> QED
    BY <1>1, <2>1, <2>2, <2>3, RxQuiet
<1> QED
  BY <1>3, <1>4

(* A wait for a command ends, well or badly.                               *)
LEMMA RxWait ==
    ASSUME TypeOK, PlanInv, ReceiveInv, CipClear \/ CipTimeout
    PROVE  ReceiveInv'
<1>1. /\ pc = "cip" /\ UNCHANGED <<after, held, cip, rxFifo, arrived, delivered>>
      /\ ReceiveInv /\ HeldInv /\ QueueInv
  BY DEF CipClear, CipTimeout, rxVars, histVars, ReceiveInv
<1>2. OneDiscard' /\ (DiscardDue' <=> DiscardDue)
  BY <1>1, DueStays DEF QueueInv
<1>3. Copied <=> after.ok = "copied"
  BY <1>1 DEF Copied
<1>4. CASE CipTimeout
  <2>1. pc' = "idle" /\ (after.ok = "copied" => held \in dropped') /\ dropped \subseteq dropped'
    BY <1>4 DEF CipTimeout, Finish
  <2>2. ~Copied'
    BY <2>1 DEF Copied
  <2> QED
    BY <1>1, <1>2, <1>3, <2>1, <2>2, RxQuiet
<1>5. CASE CipClear
  <2>1. /\ dropped' = dropped /\ todo' = Tail(todo)
        /\ IF todo' = <<>> THEN GoTo(after.ok) ELSE pc' = "cmd"
    BY <1>5 DEF CipClear, histVars
  <2>2. CASE todo' # <<>>
    <3>1. todo # Discard
      BY <2>1, <2>2, Plans
    <3>2. after.ok \notin {"RX_ERROR", "copied", "FRAME_SIZE"} /\ pc' = "cmd"
      BY <1>1, <2>1, <2>2, <3>1 DEF PlanInv, Running, Begins
    <3>3. ~Copied'
      BY <1>1, <3>2 DEF Copied
    <3> QED
      BY <1>1, <1>2, <1>3, <2>1, <3>2, <3>3, RxQuiet
  <2>3. CASE todo' = <<>>
    <3>1. /\ after.ok \in Results => pc' = "idle"
          /\ after.ok \notin Results => pc' = after.ok
      BY <2>1, <2>3, GoToStep
    <3>2. after.ok \notin {"held", "cmd", "cip"} /\ "copied" \notin Results
      BY <1>1 DEF PlanInv, Running, Begins, Results
    <3>3. pc' \notin {"held", "cmd"} /\ (Copied' <=> after.ok = "copied")
      BY <1>1, <3>1, <3>2 DEF Copied
    <3> QED
      BY <1>1, <1>2, <1>3, <2>1, <3>3, RxQuiet
  <2> QED
    BY <2>2, <2>3
<1> QED
  BY <1>4, <1>5

(* Calls begin and frames are sent without touching the receiver.          *)
LEMMA RxElsewhere ==
    ASSUME TypeOK, ReceiveInv, Call \/ Sending
    PROVE  ReceiveInv'
<1>1. /\ pc \in {"idle", "stale", "free", "poll", "retry"}
      /\ UNCHANGED <<held, cip, rxFifo, arrived, delivered, dropped>>
      /\ QueueInv
  BY DEF Call, SendFrame, Receive, Sending, StalePop, StaleDone, Write, FreeWait, Complete,
     PollTimeout, Retry, rxVars, histVars, ReceiveInv
<1>2. \/ pc' \in {"idle", "stale", "free", "poll", "retry", "begin", "pending"}
      \/ pc' = "cmd" /\ after'.ok \in {"stale", "begin", "pending", "retry", "TX_ERROR",
                                       "TX_TIMEOUT"}
  <2>1. ASSUME NEW commands,
               NEW ok \in {"stale", "begin", "pending", "retry", "TX_ERROR", "TX_TIMEOUT"},
               NEW failed, Run(commands, ok, failed)
        PROVE  \/ pc' \in {"idle", "stale", "begin", "pending", "retry"}
               \/ pc' = "cmd" /\ after'.ok = ok
    <3>1. ok \in {"TX_ERROR", "TX_TIMEOUT"} <=> ok \in Results
      BY DEF Results
    <3> QED
      BY <2>1, <3>1, RunStep
  <2>2. CASE Call
    <3>1. PICK p \in {"stale", "begin", "pending"} : Run(SelectWindow, p, "CMD_TIMEOUT")
      BY <2>2 DEF Call, SendFrame, Receive
    <3> QED
      BY <2>1, <3>1
  <2>3. CASE StalePop \/ StaleDone \/ Write
    BY <1>1, <2>3 DEF StalePop, StaleDone, Write
  <2>4. CASE FreeWait \/ PollTimeout
    <3>1. TxTimeout \/ pc' = pc
      BY <2>4 DEF FreeWait, PollTimeout
    <3>2. CASE TxTimeout
      BY <2>1, <3>2 DEF TxTimeout
    <3> QED
      BY <1>1, <3>1, <3>2
  <2>5. CASE Complete
    <3>1. CASE GoTo("TX_ERROR") \/ GoTo("OK")
      BY <3>1, GoToStep DEF Results
    <3>2. ASSUME NEW commands, NEW ok \in {"retry", "TX_ERROR"},
                 Run(commands, ok, "CMD_TIMEOUT")
          PROVE  \/ pc' \in {"idle", "stale", "begin", "pending", "retry"}
                 \/ pc' = "cmd" /\ after'.ok = ok
      BY <2>1, <3>2
    <3>3. \/ Run(RecoverReset, "retry", "CMD_TIMEOUT")
          \/ Run(RecoverEnable, "retry", "CMD_TIMEOUT")
          \/ Run(RecoverEnable, "TX_ERROR", "CMD_TIMEOUT")
          \/ GoTo("TX_ERROR") \/ GoTo("OK")
      BY <2>5, CompleteLeads
    <3>4. CASE Run(RecoverReset, "retry", "CMD_TIMEOUT")
      BY <3>2, <3>4
    <3>5. CASE Run(RecoverEnable, "retry", "CMD_TIMEOUT")
      BY <3>2, <3>5
    <3>6. CASE Run(RecoverEnable, "TX_ERROR", "CMD_TIMEOUT")
      BY <3>2, <3>6
    <3> QED
      BY <3>1, <3>3, <3>4, <3>5, <3>6
  <2>6. CASE Retry
    <3>1. GoTo("TX_ERROR") \/ GoTo("stale")
      BY <2>6 DEF Retry
    <3> QED
      BY <3>1, GoToStep DEF Results
  <2> QED
    BY <2>2, <2>3, <2>4, <2>5, <2>6 DEF Sending
<1>3. ~Copied /\ ~Copied'
  BY <1>1, <1>2 DEF Copied
<1>4. OneDiscard' /\ (DiscardDue' <=> DiscardDue)
  BY <1>1, DueStays DEF QueueInv
<1> QED
  BY <1>1, <1>2, <1>3, <1>4, RxQuiet

(* The receive calls, as long as none overtakes a discard.                 *)
LEMMA RxReceiving ==
    ASSUME TypeOK, PlanInv, ReceiveInv, Receiving, ~overtook'
    PROVE  ReceiveInv'
<1>0. QueueInv /\ OrderInv /\ HeldInv
  BY DEF ReceiveInv
<1>1. cip' = cip => OneDiscard' /\ (DiscardDue' <=> DiscardDue)
  BY <1>0, DueStays DEF QueueInv
<1>D. TakeHead => ~DiscardDue
  BY DueSeen DEF TakeHead
<1>R. ASSUME NEW ok, NEW failed, Run(Discard, ok, failed)
      PROVE  pc' = "cmd" /\ after'.ok = ok
  BY <1>R, RunStep, PlansDiffer
<1>2. CASE NothingReceived
  <2>1. /\ pc \in {"begin", "pending"} /\ pc' = "idle"
        /\ UNCHANGED <<held, cip, rxFifo, arrived, delivered, dropped>>
    BY <1>2 DEF NothingReceived, Finish, rxVars, histVars
  <2>2. ~Copied /\ ~Copied'
    BY <2>1 DEF Copied
  <2> QED
    BY <1>1, <2>1, <2>2, RxQuiet
<1>3. CASE BadReceived \/ FrameTooLong
  <2>1. /\ pc \in {"begin", "pending"} /\ rxFifo # <<>> /\ ~DiscardDue
        /\ dropped' = dropped \cup {Head(rxFifo).id}
        /\ UNCHANGED <<held, cip, rxFifo, arrived, delivered>>
    BY <1>3, <1>D DEF BadReceived, FrameTooLong, rxVars
  <2>2. PICK ok, failed : ok \in {"RX_ERROR", "FRAME_SIZE"} /\ Run(Discard, ok, failed)
    BY <1>3 DEF BadReceived, FrameTooLong
  <2>3. pc' = "cmd" /\ after'.ok \in {"RX_ERROR", "FRAME_SIZE"}
    BY <1>R, <2>2
  <2>4. ~Copied /\ ~Copied'
    BY <2>1, <2>3 DEF Copied
  <2> QED
    BY <1>1, <2>1, <2>3, <2>4, RxQuiet
<1>4. CASE HeaderRead
  <2>1. /\ pc = "begin" /\ rxFifo # <<>> /\ held' = Head(rxFifo).id /\ pc' = "held"
        /\ UNCHANGED <<cip, rxFifo, arrived, delivered, dropped>> /\ ~DiscardDue
    BY <1>4, <1>D DEF HeaderRead, rxVars
  <2>2. ~Copied /\ ~Copied'
    BY <2>1 DEF Copied
  <2> QED
    BY <1>1, <2>1, <2>2, RxQuiet
<1>5. CASE FrameRead
  <2>1. /\ pc = "pending" /\ rxFifo # <<>> /\ held' = Head(rxFifo).id
        /\ Run(Discard, "copied", "RX_TIMEOUT")
        /\ UNCHANGED <<cip, rxFifo, arrived, delivered, dropped>> /\ ~DiscardDue
    BY <1>5, <1>D DEF FrameRead, rxVars
  <2>2. pc' = "cmd" /\ after'.ok = "copied"
    BY <1>R, <2>1
  <2>3. ~Copied /\ ~Copied'
    BY <2>1, <2>2 DEF Copied
  <2> QED
    BY <1>1, <2>1, <2>2, <2>3, RxQuiet
<1>6. CASE RxPayload \/ RxDrop
  <2>1. /\ pc = "held" /\ pc' = "idle" /\ Issue("RxDiscard") /\ UNCHANGED <<held, arrived>>
    BY <1>6 DEF RxPayload, RxDrop, Finish
  <2>3. ~DiscardDue /\ rxFifo # <<>> /\ Head(rxFifo).id = held
    BY <1>0, <2>1 DEF HeldInv
  <2>5. ~Copied /\ ~Copied'
    BY <2>1 DEF Copied
  <2>6. CASE RxDrop
    <3>1. dropped' = dropped \cup {held} /\ delivered' = delivered
      BY <2>6 DEF RxDrop
    <3> QED
      BY <2>1, <2>3, <2>5, <3>1, RxDiscarded
  <2>7. CASE RxPayload
    <3>1. dropped' = dropped /\ delivered' = Append(delivered, [header |-> held, payload |-> held])
      BY <2>3, <2>7 DEF RxPayload, AtHead
    <3>2. QueueInv' /\ gone' = gone + 1 /\ held = gone + 1 /\ gone \in Nat
      BY <1>0, <2>1, <2>3, RxIssued, GoneType DEF gone
    <3>3. \A i \in 1..Len(delivered) : delivered[i].header < held
      BY <1>0, <3>2, GoneType DEF OrderInv
    <3>4. held = gone'
      BY <3>2
    <3> QED
      BY <2>1, <2>5, <3>1, <3>2, <3>3, <3>4, RxDelivered
  <2> QED
    BY <1>6, <2>6, <2>7
<1>7. CASE FrameReturned
  <2>1. /\ pc = "copied" /\ pc' = "idle"
        /\ delivered' = Append(delivered, [header |-> held, payload |-> held])
        /\ UNCHANGED <<held, cip, rxFifo, arrived, dropped>>
    BY <1>7 DEF FrameReturned, Finish, rxVars
  <2>2. Copied /\ ~Copied'
    BY <2>1 DEF Copied
  <2>3. passed' = passed /\ gone' = gone /\ held = gone
    BY <1>0, <1>1, <2>1, <2>2 DEF gone, passed, HeldInv
  <2>4. QueueInv'
    BY <1>0, <1>1, <2>1, <2>3 DEF QueueInv
  <2>5. \A i \in 1..Len(delivered) : delivered[i].header < held
    BY <1>0, <2>2 DEF OrderInv
  <2>6. held = gone'
    BY <2>3
  <2> QED
    BY <2>1, <2>2, <2>3, <2>4, <2>5, <2>6, RxDelivered
<1> QED
  BY <1>2, <1>3, <1>4, <1>5, <1>6, <1>7 DEF Receiving

LEMMA ReceiveStep ==
    ASSUME TypeOK, PlanInv, ReceiveInv, [Next]_vars, ~overtook'
    PROVE  ReceiveInv'
<1>1. CASE Call \/ Sending
  BY <1>1, RxElsewhere
<1>2. CASE Command
  BY <1>2, RxCommand
<1>3. CASE CipClear \/ CipTimeout
  BY <1>3, RxWait
<1>4. CASE Receiving
  BY <1>4, RxReceiving
<1>5. CASE Card \/ UNCHANGED vars
  BY <1>5, RxCard
<1> QED
  BY <1>1, <1>2, <1>3, <1>4, <1>5 DEF Next, Driver

(* A receive that has overtaken a discard is not forgotten.                *)
LEMMA OvertookStays ==
    ASSUME [Next]_vars, overtook
    PROVE  overtook'
<1>1. CASE Call \/ Command \/ CipClear \/ CipTimeout
  BY <1>1 DEF Call, SendFrame, Receive, Command, CipClear, CipTimeout, histVars
<1>2. CASE Sending
  BY <1>2 DEF Sending, StalePop, StaleDone, Write, FreeWait, Complete, PollTimeout, Retry,
     histVars
<1>3. CASE Receiving
  BY <1>3 DEF Receiving, NothingReceived, BadReceived, HeaderRead, RxPayload, RxDrop,
     FrameRead, FrameTooLong, FrameReturned, TakeHead, histVars
<1>4. CASE Card \/ UNCHANGED vars
  BY <1>4 DEF Card, CommandEnds, CardTransmits, CardReceives, vars, histVars
<1> QED
  BY <1>1, <1>2, <1>3, <1>4 DEF Next, Driver

----------------------------------------------------------------------------
(* The theorems.                                                           *)
IInv == TypeOK /\ PlanInv /\ CallInv /\ TxInv

LEMMA InitInv ==
    ASSUME Init
    PROVE  IInv /\ ReceiveInv
<1>0. arrived = 0 /\ Len(rxFifo) = 0 => passed = 0
  BY DEF passed
<1> USE DatapathAssumption DEF Init
<1>1. /\ Len(<<>>) = 0 /\ Sends \in Nat /\ Arrivals \in Nat /\ Attempts \in Nat
      /\ \A S : <<>> \in Seq(S)
  BY EmptySeq
<1>2. TypeOK
  <2>1. overtook \in BOOLEAN
    OBVIOUS
  <2>2. DriverType /\ TxType /\ RxType
    BY <1>1 DEF DriverType, TxType, RxType, Places, Results
  <2>3. HistType
    BY <1>1, <2>1 DEF HistType
  <2> QED
    BY <2>2, <2>3, TypeParts
<1>3. InProgress = {}
  BY ProgressEmpty
<1>4. PlanInv /\ CallInv
  BY DEF PlanInv, CallInv, Running, Trying
<1>5. FlightInv /\ PollInv /\ SendInv
  BY <1>1 DEF FlightInv, PollInv, SendInv, Running, Trying, Recovering
<1>6. ResetInv
  BY <1>3 DEF ResetInv, Settled
<1>7. ReadyInv
  BY <1>3 DEF ReadyInv, Settled, Running, Recovering
<1>8. passed = 0 /\ gone = 0 /\ ~DiscardDue
  <2>1. arrived = 0 /\ Len(rxFifo) = 0
    BY <1>1
  <2> QED
    BY <1>0, <1>3, <2>1 DEF gone, DiscardDue
<1>9. ReceiveInv
  BY <1>1, <1>8 DEF ReceiveInv, QueueInv, OneDiscard, OrderInv, HeldInv, GoneInv, Copied
<1> QED
  BY <1>2, <1>4, <1>5, <1>6, <1>7, <1>9 DEF IInv, TxInv

(* The inductive invariant: nothing in it depends on which commands the    *)
(* card is slow with.                                                      *)
THEOREM Invariant == Spec => []IInv
<1>1. Init => IInv
  BY InitInv
<1>2. IInv /\ [Next]_vars => IInv'
  BY TypeStep, PlanStep, CallStep, TxStep DEF IInv
<1> QED
  BY <1>1, <1>2, PTL DEF Spec

(* Type correctness: SEND_FRAME never runs out of tries before it tries,   *)
(* and only frames that arrived are delivered or dropped.                  *)
THEOREM TypeCorrect == Spec => []TypeOK
<1>1. IInv => TypeOK
  BY DEF IInv
<1> QED
  BY <1>1, Invariant, PTL

(* A frame leaves at most once per SEND_FRAME: only a status that says the *)
(* frame did not leave leads to another try.                               *)
THEOREM SentOnce == Spec => []SentAtMostOnce
<1>1. IInv => SentAtMostOnce
  BY DEF IInv, TxInv, FlightInv, SentAtMostOnce
<1> QED
  BY <1>1, Invariant, PTL

(* EL3_OK means that this frame left, however late the status of an        *)
(* earlier one and whatever a failed recovery left in the card.            *)
THEOREM OkIsSent == Spec => []OkMeansSent
<1>1. IInv => OkMeansSent
  BY DEF IInv, TxInv, ReadyInv, OkMeansSent
<1> QED
  BY <1>1, Invariant, PTL

(* A SEND_FRAME that ends in EL3_OK or a transmit error leaves the         *)
(* transmitter enabled, and no reset can disable it behind its back.       *)
THEOREM Ready == Spec => []TransmitterReady
<1>1. IInv => TransmitterReady
  BY DEF IInv, TxInv, ReadyInv, TransmitterReady
<1> QED
  BY <1>1, Invariant, PTL

(* Whatever the card is slow with: until a receive takes a frame that is   *)
(* still being discarded for the next one, every frame received is         *)
(* delivered whole, once and in order, was dropped or reported lost, or    *)
(* still waits.                                                            *)
THEOREM WholeInOrder == Spec => []FramesWholeInOrder
<1> DEFINE Good == ~overtook => ReceiveInv
<1>1. Init => Good
  BY InitInv
<1>2. IInv /\ Good /\ [Next]_vars => Good'
  <2> SUFFICES ASSUME IInv, Good, [Next]_vars, ~overtook'
               PROVE  ReceiveInv'
    OBVIOUS
  <2>1. ~overtook
    BY OvertookStays
  <2> QED
    BY <2>1, ReceiveStep DEF IInv
<1>3. IInv /\ Good => FramesWholeInOrder
  <2> SUFFICES ASSUME IInv, ReceiveInv
               PROVE  WholeAndInOrder
    BY DEF FramesWholeInOrder
  <2>0. TypeOK /\ QueueInv /\ OrderInv /\ GoneInv
    BY DEF IInv, ReceiveInv
  <2>1. /\ DOMAIN delivered = 1..Len(delivered) /\ DOMAIN rxFifo = 1..Len(rxFifo)
        /\ passed \in Nat /\ gone \in Nat /\ arrived \in Nat /\ Len(rxFifo) \in Nat
    <3>1. /\ delivered \in Seq([header : 1..Arrivals, payload : 0..Arrivals])
          /\ rxFifo \in Seq([id : 1..Arrivals, good : BOOLEAN])
      BY <2>0 DEF TypeOK
    <3> QED
      BY <2>0, <3>1, GoneType, LenProperties
  <2>2. ASSUME pc = "idle", NEW id \in 1..arrived
        PROVE  \/ id \in dropped
               \/ \E i \in DOMAIN delivered : delivered[i].header = id
               \/ \E i \in DOMAIN rxFifo : rxFifo[i].id = id
    <3>1. CASE id <= gone
      <4>1. id \in 1..gone /\ ~Copied
        BY <2>1, <2>2, <3>1 DEF Copied
      <4> QED
        BY <2>0, <2>1, <4>1 DEF GoneInv
    <3>2. CASE id > gone
      <4>1. id > passed
        BY <2>1, <3>2 DEF gone
      <4>2. id - passed \in 1..Len(rxFifo) /\ passed + (id - passed) = id
        BY <2>1, <4>1 DEF passed
      <4>3. rxFifo[id - passed].id = id
        BY <2>0, <4>2 DEF QueueInv
      <4> QED
        BY <2>1, <4>2, <4>3
    <3> QED
      BY <2>1, <3>1, <3>2
  <2> QED
    BY <2>0, <2>1, <2>2 DEF WholeAndInOrder, OrderInv
<1> QED
  BY <1>1, <1>2, <1>3, Invariant, PTL DEF Spec

=============================================================================
