------------------------------ MODULE MCFlood ------------------------------
(* Instances of Flood for TLC.                                             *)
EXTENDS Flood

\* Node 1 announces one record to nodes 2 and 3 of a diamond; 2 and 3 are linked.
MCNode == 1..4
Diamond == <<{2, 3}, {1, 3, 4}, {1, 2, 4}, {2, 3}>>
OneSource == [n \in MCNode |-> IF n = 1 THEN {"r"} ELSE {}]

\* Node 1 announces two records to node 2, which belongs to a triangle.
Triangle == <<{2}, {1, 3, 4}, {2, 4}, {2, 3}>>
TwoRecords == [n \in MCNode |-> IF n = 1 THEN {"r", "s"} ELSE {}]
OneRefusal == {<<4, "s">>}

\* Each announcement has its own nonce.
MCNonce == Node \X Node \X Record
MCNonceOf == [a \in Announcement |-> <<a.origin, a.first, a.record>>]
=============================================================================
