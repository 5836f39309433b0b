---------------------------- MODULE MCRangeApply ----------------------------
(* Instances of RangeApply for TLC: two nodes, three instants.             *)
EXTENDS RangeApply

MCNode == {1, 2}
MCTime == 1..3
MCOwlt == {0, 1}
=============================================================================
