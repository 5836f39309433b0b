---------------------------- MODULE MCRangeOrder ----------------------------
EXTENDS RangeOrder
MCNode == {1, 2}
MCTime == 1..4
MCOwlt == {0, 1}
MCReceiver == {"a", "b"}
=============================================================================
