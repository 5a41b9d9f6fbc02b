-------------------------- MODULE MCDirectDownload --------------------------
(* DirectDownload with every choice of at most two of the first segments   *)
(* lost on the path.                                                       *)
EXTENDS DirectDownload

CONSTANT LossReach    \* bound: only the first LossReach data segments may be lost

FewLosses == {l \in SUBSET (1..LossReach) : Cardinality(l) <= 2}
=============================================================================
