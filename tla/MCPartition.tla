---------------------------- MODULE MCPartition ----------------------------
(***************************************************************************)
(* Small instances of Partition: two filters, on two sources or on one.    *)
(***************************************************************************)
EXTENDS Partition, TLC

CONSTANTS s1, s2, k1, k2

OneSource == k1 :> s1 @@ k2 :> s1
JustOne == k1 :> s1
=============================================================================
