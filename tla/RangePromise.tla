---------------------------- MODULE RangePromise ----------------------------
(***************************************************************************)
(* What ionc_apply_range promises when nobody else writes ION's range      *)
(* index during the call: one atomic change of the index, and the outcome  *)
(* that tells what became of the record (section 5.3 of the specification, *)
(* the table of IoncApplyOutcome in ion_contacts.h).  RangeApply, where    *)
(* the call is the sequence of transactions the code makes, is checked     *)
(* against it.                                                             *)
(***************************************************************************)
EXTENDS RangeIndex

\* Two windows overlap when neither starts after the other ends.
Overlap(idx, k, l) ==
  ~(l.fromTime > idx[k].toTime \/ k.fromTime > idx[l].toTime)

\* The imputed entries of a pair that an asserted entry of it overlaps.
RedundantOf(idx, pair) ==
  {k \in Key : /\ SamePair(k, pair)
               /\ IsImputed(idx, k)
               /\ \E l \in Key : /\ SamePair(l, pair)
                                 /\ IsAsserted(idx, l)
                                 /\ Overlap(idx, k, l)}

Without(idx, S) == [k \in Key |-> IF k \in S THEN NoRange ELSE idx[k]]

\* Mutant of Settled: only the record's own direction is pruned.
Settled_OneSided(idx, r) == Without(idx, RedundantOf(idx, r.key))

\* The index after a successful insertion: no imputed range survives where an
\* asserted range of the same pair overlaps it.
Settled(idx, r) ==
  Without(idx, RedundantOf(idx, r.key) \cup RedundantOf(idx, Reverse(r.key)))

Result(out, idx) == [outcome |-> out, idx |-> idx]

Inserting(idx, r) == InsertRange(idx, r.key, r.toTime, r.owlt)

\* Mutant of ApplyNew: a range is dropped when an assertion of the opposite
\* direction already covers its window.
ApplyNew_DropsReverse(idx, r) ==
  {IF i.rc = 0 /\ \A l \in Key : ~(/\ SamePair(l, Reverse(r.key))
                                   /\ IsAsserted(idx, l)
                                   /\ Collides(idx, l, r.key.fromTime, r.toTime))
   THEN Result("INSERTED", Settled(i.idx, r)) ELSE Result("NOOP", idx) :
     i \in Inserting(idx, r)}

ApplyNew(idx, r) ==
  {IF i.rc = 0 THEN Result("INSERTED", Settled(i.idx, r)) ELSE Result("NOOP", idx) :
     i \in Inserting(idx, r)}

ApplyOverImputed(idx, r) ==
  {IF i.rc = 0 THEN Result("REPLACED", Settled(i.idx, r)) ELSE Result("LOST", i.idx) :
     i \in Inserting(idx, r)}

ApplyOverAsserted(idx, r) ==
  LET cleared == RemoveRange(idx, r.key)
  IN  {IF i.rc = 0 THEN Result("REPLACED", Settled(i.idx, r)) ELSE Result("LOST", cleared) :
         i \in Inserting(cleared, r)}

AtomicApply(idx, r) ==
  CASE ~Held(idx, r.key) -> ApplyNew(idx, r)
    [] Held(idx, r.key) /\ idx[r.key].toTime = r.toTime /\ idx[r.key].owlt = r.owlt
         -> {Result("NOOP", idx)}
    [] OTHER -> IF IsImputed(idx, r.key) THEN ApplyOverImputed(idx, r)
                                         ELSE ApplyOverAsserted(idx, r)
=============================================================================
