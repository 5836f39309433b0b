----------------------------- MODULE RangeIndex -----------------------------
(***************************************************************************)
(* ION's range index as dtnex sees it: the entries of ionvdb->rangeIndex   *)
(* and the three calls dtnex makes on it, findRange (a lookup inside an    *)
(* SDR transaction), rfx_insert_range and rfx_remove_range (each one a     *)
(* transaction of its own).                                                *)
(*                                                                         *)
(* ION is a library outside src/.  What is modelled here is what the       *)
(* comments of ion_contacts.c and section 3.3 and 5.3 of the specification *)
(* rely on:                                                                *)
(*   - an entry is asserted (rangeElt # 0) or imputed (rangeElt = 0);      *)
(*   - asserting a canonical range (from < to) imputes the reverse, which  *)
(*     skips the overlap scan and leaves a reverse already present alone;  *)
(*   - a key already asserted is refused (1 same owlt, 2 other owlt);      *)
(*   - a key already imputed is first deleted, then the predecessor half   *)
(*     of the scan may still refuse (4): the entry is then gone;           *)
(*   - removing a canonical range removes its imputed reverse with it, and *)
(*     retains the reverse if it is asserted.                              *)
(***************************************************************************)
EXTENDS Integers, FiniteSets

CONSTANTS Node,            \* the node numbers of the ranges in this instance
          Time,            \* instants, as epoch seconds
          Owlt,            \* one-way light times
          NoRange,         \* "no entry under this key"
          ScanSeesImputed  \* does the overlap scan count imputed entries?

Key == [from: Node, to: Node, fromTime: Time]

Entry == [toTime: Time, owlt: Owlt, asserted: BOOLEAN]

Index == [Key -> Entry \cup {NoRange}]

ASSUME IndexAssumption ==
  /\ Node \subseteq Nat
  /\ Time \subseteq Nat
  /\ Owlt \subseteq Nat
  /\ ScanSeesImputed \in BOOLEAN
  /\ NoRange \notin Entry

-----------------------------------------------------------------------------
Held(idx, k) == idx[k] # NoRange

IsAsserted(idx, k) == Held(idx, k) /\ idx[k].asserted

IsImputed(idx, k) == Held(idx, k) /\ ~idx[k].asserted

Canonical(k) == k.from < k.to

Reverse(k) == [from |-> k.to, to |-> k.from, fromTime |-> k.fromTime]

SamePair(k, l) == k.from = l.from /\ k.to = l.to

\* Windows that only touch do not collide in ION's scan: consecutive ranges
\* of one pair are legal.
Collides(idx, l, fromTime, toTime) ==
  l.fromTime < toTime /\ fromTime < idx[l].toTime

-----------------------------------------------------------------------------
(***************************************************************************)
(* rfx_insert_range: the set of results [rc, idx] the call may have.  A    *)
(* negative rc, a failed transaction that is rolled back, is left to the   *)
(* modules that call it.  The entry a refusal of the overlap scan names is *)
(* not modelled: codes 3 and 4 over a new key are both 3 here.             *)
(***************************************************************************)
Answer(rc, idx) == [rc |-> rc, idx |-> idx]

\* The entry itself and, for a canonical assertion, the imputed reverse.
Stored(idx, k, toTime, owlt) ==
  LET e == [toTime |-> toTime, owlt |-> owlt, asserted |-> TRUE]
  IN  [l \in Key |->
         IF l = k THEN e
         ELSE IF Canonical(k) /\ l = Reverse(k) /\ ~Held(idx, l)
              THEN [e EXCEPT !.asserted = FALSE]
              ELSE idx[l]]

Blocked(idx, k, toTime) ==
  \E l \in Key \ {k} :
    /\ SamePair(k, l)
    /\ Held(idx, l)
    /\ ScanSeesImputed \/ idx[l].asserted
    /\ Collides(idx, l, k.fromTime, toTime)

Dropped(idx, k) == [idx EXCEPT ![k] = NoRange]

\* The predecessor half of the scan, run over an existing key: the search has
\* zeroed the successor, so the scan looks at the last entry of the whole
\* index.  Whether it refuses depends on the entries of the pair only.
MayRefuseAfterDelete(idx, k) ==
  \E l \in Key \ {k} : SamePair(k, l) /\ Held(idx, l)

InsertRange(idx, k, toTime, owlt) ==
  {r \in { Answer(0, Stored(idx, k, toTime, owlt)),
           Answer(1, idx), Answer(2, idx), Answer(3, idx),
           Answer(4, Dropped(idx, k)) } :
     \/ r.rc = 0 /\ ~IsAsserted(idx, k) /\ (Held(idx, k) \/ ~Blocked(idx, k, toTime))
     \/ r.rc = 1 /\ IsAsserted(idx, k) /\ idx[k].owlt = owlt
     \/ r.rc = 2 /\ IsAsserted(idx, k) /\ idx[k].owlt # owlt
     \/ r.rc = 3 /\ ~Held(idx, k) /\ Blocked(idx, k, toTime)
     \/ r.rc = 4 /\ IsImputed(idx, k) /\ MayRefuseAfterDelete(idx, k)}

\* What rfx_remove_range with an exact fromTime does when it returns 0: a key
\* that is not there leaves the index as it is.
RemoveRange(idx, k) ==
  [l \in Key |->
     IF l = k \/ (Canonical(k) /\ Held(idx, k) /\ l = Reverse(k)
                    /\ IsImputed(idx, l))
     THEN NoRange
     ELSE idx[l]]
=============================================================================
