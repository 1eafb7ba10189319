------------------------- MODULE MCStreamController -------------------------
(***************************************************************************)
(* Instances of StreamController: one topic with a partition, and two or   *)
(* three topics with a partition each.                                     *)
(***************************************************************************)
EXTENDS StreamController, TLC

CONSTANTS t1, t2, t3, p1, p2, p3

OneTopic == <<t1>>
TwoTopics == <<t1, t2>>
ThreeTopics == <<t1, t2, t3>>

OneOfOne == p1 :> t1
EachItsOwn == (p1 :> t1) @@ (p2 :> t2)
ThreeEachItsOwn == (p1 :> t1) @@ (p2 :> t2) @@ (p3 :> t3)
=============================================================================
