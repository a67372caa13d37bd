----------------------------- MODULE MCPartition -----------------------------
(***************************************************************************)
(* Instances of Partition for TLC.                                         *)
(***************************************************************************)
EXTENDS Partition, TLC

CONSTANTS w1, w2, w3

\* With these and three elements, the last of three workers gets none.
BatchSizes == w1 :> 4 @@ w2 :> 1 @@ w3 :> 1

Loads == w1 :> 0 @@ w2 :> 0 @@ w3 :> 1
=============================================================================
