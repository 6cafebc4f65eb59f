------------------------ MODULE MCDiscoveryMatching ------------------------
(* Instances of DiscoveryMatching for TLC.                                   *)
EXTENDS DiscoveryMatching, TLC

CONSTANTS u1, o1, o2, t1, t2, z1, z2

TwoTopics == o1 :> t1 @@ o2 :> t2
OneAtATime == {{t} : t \in Topic}

BothOrNone == {<<TRUE, TRUE>>, <<FALSE, FALSE>>}

\* z1 cuts off as the day begins, z2 one tick later
Cutoffs == z1 :> 0 @@ z2 :> 1
=============================================================================
