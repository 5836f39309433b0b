----------------------------- MODULE MCAnnounce -----------------------------
(* Instance of Announce for TLC: a node with two contacts of its own that
   compete for one place in the snapshot, a range of its own that ends, and its
   metadata.  The tick is half a sleep of main. *)
EXTENDS Announce

Fields(kind, to, nature, until) ==
  [kind |-> kind, from |-> 1, to |-> to, nature |-> nature, until |-> until]

MCOf ==
  <<Fields("contact", 2, "Scheduled", 99),
    Fields("contact", 3, "Predicted", 99),
    Fields("range", 2, "Asserted", 5),
    Fields("metadata", 1, "Own", 99)>>
=============================================================================
