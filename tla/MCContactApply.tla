--------------------------- MODULE MCContactApply ---------------------------
(* Instance of ContactApply for TLC: the two ends of one link.             *)
EXTENDS ContactApply

MCNode == {1, 2}
MCTime == 1..3
MCConfidence == {500, 504, 510}
OneRecord == {[key |-> [region |-> 1, from |-> 1, to |-> 2, fromTime |-> 1],
               toTime |-> 2, rate |-> 7, hundredths |-> 51]}
=============================================================================
