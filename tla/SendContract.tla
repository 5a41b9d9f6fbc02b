---------------------------- MODULE SendContract ----------------------------
(***************************************************************************)
(* What SEND promises its caller (include/unet.inc, UNET_FN_SEND, and      *)
(* docs/UNET509B.md, "Bounded TCP retransmission"), without any packet,    *)
(* timer or retry: the peer's application reads one stream, in which the   *)
(* bytes of each SEND appear once, in order, after those of earlier SENDs; *)
(* DE, the confirmed prefix, names only bytes that are in that stream.     *)
(* The promise holds as long as the card tells the truth about what it     *)
(* sent: once a frame left that was reported as failed it is void.         *)
(***************************************************************************)
EXTENDS Integers, Sequences

CONSTANTS
    MaxCalls,       \* bound: SEND calls made
    MaxBytes        \* bound: bytes of the stream

VARIABLES
    calls,      \* SENDs accepted so far
    stream,     \* the bytes the peer's application can read
    confirmed,  \* the bytes SEND has reported in DE; a byte is a call and an offset
    void        \* a frame reported as failed has left all the same

vars == <<calls, stream, confirmed, void>>

Last == stream[Len(stream)]
Streamed == {stream[i] : i \in 1..Len(stream)}

Init == calls = 0 /\ stream = <<>> /\ confirmed = {} /\ void = FALSE

Submit ==
    /\ calls < MaxCalls /\ calls' = calls + 1
    /\ UNCHANGED <<stream, confirmed, void>>

\* The first byte of call c the peer has not seen yet.
NextOffset(c) == IF stream = <<>> \/ Last.call # c THEN 0 ELSE Last.off + 1

\* n more bytes of one call; a later call's bytes end the earlier ones.
Deliver(c, n) ==
    /\ stream # <<>> => c >= Last.call
    /\ stream' = stream \o [i \in 1..n |-> [call |-> c, off |-> NextOffset(c) + i - 1]]
    /\ UNCHANGED <<calls, confirmed, void>>

\* The n bytes at offset k of the latest call are reported as confirmed.
Report(k, n) ==
    LET bytes == {[call |-> calls, off |-> i] : i \in k..(k + n - 1)}
    IN  /\ bytes \subseteq Streamed
        /\ confirmed' = confirmed \cup bytes
        /\ UNCHANGED <<calls, stream, void>>

\* From then on nothing is promised.
Void == void' = TRUE

Next ==
    \/ Submit
    \/ \E c \in 1..calls, n \in 1..MaxBytes : Deliver(c, n)
    \/ \E k \in 0..MaxBytes, n \in 1..MaxBytes : Report(k, n)
    \/ Void

Spec == Init /\ [][Next]_vars

=============================================================================
