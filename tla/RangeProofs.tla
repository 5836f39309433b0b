----------------------------- MODULE RangeProofs -----------------------------
(***************************************************************************)
(* Proofs about ranges: that a call of RangeApply keeps what it must, and  *)
(* is one atomic change as RangePromise says, whatever the other writers   *)
(* and ION do between its transactions; and what the order of the          *)
(* announcements changes in the indexes of their receivers (RangeOrder),   *)
(* and what it does not.                                                   *)
(***************************************************************************)
EXTENDS RangeApply, RangeOrder, FiniteSetTheorems, TLAPS

-----------------------------------------------------------------------------
(* What the two calls on ION's index may change.  The proofs never look at *)
(* when ION refuses an insertion: they rest on the four frame lemmas below *)
(* and on the one fact the validation of a message gives, that the         *)
(* record's direction is not the local node's.                             *)

\* The reverse of a key is a key.
LEMMA ReverseIsKey == \A k \in Key : Reverse(k) \in Key
  BY DEF Key, Reverse

\* rfx_insert_range yields an index.
LEMMA InsertType ==
  ASSUME NEW idx \in Index, NEW k \in Key, NEW t \in Time, NEW o \in Owlt,
         NEW r \in InsertRange(idx, k, t, o)
  PROVE  r.idx \in Index /\ r.rc \in 0..4
  <1> DEFINE e == [toTime |-> t, owlt |-> o, asserted |-> TRUE]
  <1>1. e \in Entry /\ [e EXCEPT !.asserted = FALSE] \in Entry
    BY DEF Entry
  <1>2. Stored(idx, k, t, o) \in Index
    BY <1>1 DEF Stored, Index
  <1>3. Dropped(idx, k) \in Index
    BY DEF Dropped, Index
  <1>4. QED
    BY <1>2, <1>3 DEF InsertRange, Answer

\* rfx_insert_range asserts its own key at most, and changes no other
\* assertion: the reverse it imputes was a free key.
LEMMA InsertFrame ==
  ASSUME NEW idx \in Index, NEW k \in Key, NEW t \in Time, NEW o \in Owlt,
         NEW r \in InsertRange(idx, k, t, o), NEW l \in Key, l # k
  PROVE  /\ IsAsserted(idx, l) => r.idx[l] = idx[l]
         /\ IsAsserted(r.idx, l) => r.idx[l] = idx[l]
  <1>1. CASE r.idx = idx
    BY <1>1
  <1>2. CASE r.idx = Dropped(idx, k)
    BY <1>2 DEF Dropped, Index
  <1>3. CASE r.idx = Stored(idx, k, t, o)
    BY <1>3 DEF Stored, IsAsserted, Held, Index, Entry
  <1>4. QED
    BY <1>1, <1>2, <1>3 DEF InsertRange, Answer

\* An accepted insertion leaves the record, asserted, under its key.
LEMMA InsertHolds ==
  ASSUME NEW idx \in Index, NEW k \in Key, NEW t \in Time, NEW o \in Owlt,
         NEW r \in InsertRange(idx, k, t, o), r.rc = 0
  PROVE  r.idx[k] = [toTime |-> t, owlt |-> o, asserted |-> TRUE]
  <1>1. r.idx = Stored(idx, k, t, o)
    BY DEF InsertRange, Answer
  <1>2. Stored(idx, k, t, o)[k] = [toTime |-> t, owlt |-> o, asserted |-> TRUE]
    BY DEF Stored
  <1>3. QED
    BY <1>1, <1>2

\* Which refusals leave the key without the entry it had: only code 4, over an
\* imputed one; codes 1 and 2 are raised over an assertion and touch nothing.
LEMMA InsertRefusal ==
  ASSUME NEW idx \in Index, NEW k \in Key, NEW t \in Time, NEW o \in Owlt,
         NEW r \in InsertRange(idx, k, t, o)
  PROVE  /\ r.rc \in {1, 2, 3} => r.idx = idx
         /\ r.rc \in {1, 2} => IsAsserted(idx, k)
         /\ r.rc = 3 => ~Held(idx, k)
         /\ r.rc = 4 => IsImputed(idx, k)
  BY DEF InsertRange, Answer

\* rfx_remove_range yields an index.
LEMMA RemoveType ==
  ASSUME NEW idx \in Index, NEW k \in Key
  PROVE  RemoveRange(idx, k) \in Index
  BY DEF RemoveRange, Index

\* A removal by exact start time touches no other assertion, and asserts
\* nothing.
LEMMA RemoveFrame ==
  ASSUME NEW idx \in Index, NEW k \in Key, NEW l \in Key
  PROVE  /\ RemoveRange(idx, k)[k] = NoRange
         /\ l # k /\ IsAsserted(idx, l) => RemoveRange(idx, k)[l] = idx[l]
         /\ IsAsserted(RemoveRange(idx, k), l) =>
              l # k /\ RemoveRange(idx, k)[l] = idx[l]
  BY DEF RemoveRange, IsAsserted, IsImputed, Held, Index
-----------------------------------------------------------------------------
(* The actions, by what they have in common.                               *)

\* A step of insertRange: the answer of ION and the outcome read from it.
LEMMA InsertStep ==
  ASSUME NEW ok, NEW site, insertRange(ok, site)
  PROVE  /\ \E r \in InsertRange(ranges, rec.key, rec.toTime, rec.owlt) :
              /\ ranges' = r.idx
              /\ outcome' = InsertOutcome(ok, site, r.rc)
         /\ pc' = IF outcome' \in {"INSERTED", "REPLACED"} THEN "scan" ELSE "idle"
         /\ pass' = 1
         /\ UNCHANGED <<rec, seen, doomed, applied, oper, touched, edits, failed>>
  BY DEF insertRange, Finish, WriteFrame

\* Records and assertions have the fields their names say.
LEMMA RecordFields ==
  /\ \A r \in Record :
       r.key \in Key /\ r.toTime \in Time /\ r.owlt \in Owlt /\ ~Own(r.key)
  /\ \A r \in Assertion : r.key \in Key /\ r.toTime \in Time /\ r.owlt \in Owlt
  BY DEF Record, Assertion, Own

\* The removal loop: it takes one condemned entry off the list.
LEMMA DoomedStep ==
  ASSUME NEW k, NextDoomed(k)
  PROVE  /\ pc = "prune" /\ k \in doomed /\ doomed' = doomed \ {k}
         /\ \/ pc' = "prune" /\ pass' = pass
            \/ pc' \in {"scan", "idle"} /\ pass' \in {1, 2} /\ doomed' = {}
         /\ UNCHANGED <<rec, seen, outcome, applied, oper, touched, edits>>
  BY DEF NextDoomed, EndPass, PruneFrame

-----------------------------------------------------------------------------
(* Type correctness.                                                       *)

\* Every reachable state of the call, of the index and of the histories has
\* the type the module declares.
THEOREM TypeCorrect == Spec => []TypeOK
  <1>1. Init => TypeOK
    <2> SUFFICES ASSUME Init PROVE TypeOK
      OBVIOUS
    <2>1. applied \in 0..MaxApplies /\ edits \in 0..MaxEdits
      BY ApplyAssumption DEF Init
    <2>2. QED
      BY <2>1 DEF Init, TypeOK, Index, Outcomes
  <1>2. TypeOK /\ [Next]_vars => TypeOK'
    <2> SUFFICES ASSUME TypeOK, [Next]_vars PROVE TypeOK'
      OBVIOUS
    <2> USE DEF TypeOK
    <2>1. ASSUME NEW r \in Record, LookupIdentical(r) \/ LookupDiffers(r) \/ LookupFails(r)
          PROVE  TypeOK'
      <3>1. applied' \in 0..MaxApplies
        BY <2>1, ApplyAssumption DEF LookupIdentical, LookupDiffers, LookupFails, Begin
      <3>2. QED
        BY <2>1, <3>1 DEF LookupIdentical, LookupDiffers, LookupFails, Begin, Outcomes
    <2>2. ASSUME NEW ok \in {"INSERTED", "REPLACED"}, NEW site, insertRange(ok, site)
          PROVE  TypeOK'
      <3>1. PICK r \in InsertRange(ranges, rec.key, rec.toTime, rec.owlt) :
              ranges' = r.idx /\ outcome' = InsertOutcome(ok, site, r.rc)
        BY <2>2, InsertStep
      <3>2. ranges' \in Index
        BY <3>1, InsertType, RecordFields
      <3>3. outcome' \in Outcomes
        BY <3>1 DEF InsertOutcome, Outcomes
      <3>4. QED
        BY <2>2, <3>2, <3>3, InsertStep
    <2>3. CASE WriteFails \/ RemoveRefused
      BY <2>3 DEF WriteFails, RemoveRefused, Finish, WriteFrame, Outcomes
    <2>4. CASE RemoveAsserted
      BY <2>4, RemoveType, RecordFields DEF RemoveAsserted, WriteFrame
    <2>5. CASE Scan \/ ScanFails
      <3>1. Redundant(ranges, PruneKey) \subseteq Key
        BY DEF Redundant, FirstOf
      <3>2. QED
        BY <2>5, <3>1 DEF Scan, ScanFails, EndPass, PruneFrame
    <2>6. ASSUME NEW k \in doomed, NextDoomed(k),
                 ranges' = ranges \/ ranges' = RemoveRange(ranges, k), failed' \in BOOLEAN
          PROVE  TypeOK'
      BY <2>6, DoomedStep, RemoveType
    <2>7. CASE Dies
      BY <2>7 DEF Dies, Outcomes
    <2>8. ASSUME NEW r \in Assertion, OperatorAsserts(r)
          PROVE  TypeOK'
      <3>1. PICK res \in InsertRange(ranges, r.key, r.toTime, r.owlt) :
              /\ ranges' = res.idx
              /\ oper' = IF res.rc = 0 THEN [oper EXCEPT ![r.key] = res.idx[r.key]]
                                       ELSE oper
        BY <2>8 DEF OperatorAsserts
      <3>2. ranges' \in Index
        BY <3>1, InsertType, RecordFields
      <3>3. oper' \in Index
        BY <3>1, <3>2, RecordFields DEF Index
      <3>4. touched' \subseteq Key
        BY <2>8 DEF OperatorAsserts, Changed
      <3>5. QED
        BY <2>8, <3>2, <3>3, <3>4, ApplyAssumption DEF OperatorAsserts, local
    <2>9. ASSUME NEW k \in Key, OperatorRemoves(k)
          PROVE  TypeOK'
      <3>1. ranges' \in Index
        BY <2>9, RemoveType DEF OperatorRemoves
      <3>2. oper' \in Index
        BY <2>9 DEF OperatorRemoves, Index
      <3>3. touched' \subseteq Key
        BY <2>9 DEF OperatorRemoves, Changed
      <3>4. QED
        BY <2>9, <3>1, <3>2, <3>3, ApplyAssumption DEF OperatorRemoves, local
    <2>10. CASE UNCHANGED vars
      BY <2>10 DEF vars, local
    <2>11. QED
      BY <2>1, <2>2, <2>3, <2>4, <2>5, <2>6, <2>7, <2>8, <2>9, <2>10
         DEF Next, Dtnex, Operator, Lookup, Write, Prune, InsertOverNothing,
             InsertOverImputed, InsertAfterRemove, PruneRemoves, PruneRemoveFails
  <1>3. QED
    BY <1>1, <1>2, PTL DEF Spec

-----------------------------------------------------------------------------
(* The inductive invariant.                                                *)

\* The conjuncts of IInv that talk about values; TypeOK is proved above.
Conjuncts ==
  /\ AnnouncesOnlyConfigured
  /\ OtherAssertionsKept
  /\ DoomedOnlyInPrune
  /\ DoomedIsImputed
  /\ OutcomeOfStage
  /\ InsertedIsHeld
  /\ LookupStillTrue
  /\ NoopKeepsEntry

\* The empty index, nobody having called yet, satisfies every conjunct.
LEMMA InitInv == Init => Conjuncts
  BY DEF Init, Conjuncts, AnnouncesOnlyConfigured, OtherAssertionsKept,
         DoomedOnlyInPrune, DoomedIsImputed, OutcomeOfStage, InsertedIsHeld,
         LookupStillTrue, NoopKeepsEntry, IsAsserted, Held

\* A lookup starts a call: what it remembers is what the index holds.
LEMMA LookupInv ==
  ASSUME TypeOK, Conjuncts, NEW r \in Record,
         LookupIdentical(r) \/ LookupDiffers(r) \/ LookupFails(r)
  PROVE  Conjuncts'
  <1> USE DEF Conjuncts, LookupIdentical, LookupDiffers, LookupFails, Begin
  <1>1. AnnouncesOnlyConfigured'
    BY DEF AnnouncesOnlyConfigured, IsAsserted, Held
  <1>2. OtherAssertionsKept'
    BY DEF OtherAssertionsKept
  <1>3. doomed' = {} /\ DoomedOnlyInPrune' /\ DoomedIsImputed'
    BY DEF DoomedOnlyInPrune, DoomedIsImputed
  <1>4. OutcomeOfStage' /\ InsertedIsHeld' /\ LookupStillTrue'
    BY DEF OutcomeOfStage, InsertedIsHeld, LookupStillTrue
  <1>5. NoopKeepsEntry'
    BY DEF NoopKeepsEntry, Held
  <1>6. QED
    BY <1>1, <1>2, <1>3, <1>4, <1>5

\* A call of rfx_insert_range: it asserts the record's key, which is not of the
\* local node's direction, and changes no other assertion.
LEMMA InsertInv ==
  ASSUME TypeOK, Conjuncts,
         \/ InsertOverNothing \/ InsertOverImputed \/ InsertAfterRemove
  PROVE  Conjuncts'
  <1> USE DEF Conjuncts
  <1> DEFINE AtSite(site) ==
        \/ site = "INSERT_OVER_NOTHING" /\ InsertOverNothing
        \/ site = "INSERT_OVER_IMPUTED" /\ InsertOverImputed
        \/ site = "INSERT_AFTER_REMOVE" /\ InsertAfterRemove
  <1>1. PICK site : /\ AtSite(site)
                    /\ \E ok \in {"INSERTED", "REPLACED"} : insertRange(ok, site)
    BY DEF InsertOverNothing, InsertOverImputed, InsertAfterRemove
  <1>2. PICK ok \in {"INSERTED", "REPLACED"} : insertRange(ok, site)
    BY <1>1
  <1>3. PICK r \in InsertRange(ranges, rec.key, rec.toTime, rec.owlt) :
          ranges' = r.idx /\ outcome' = InsertOutcome(ok, site, r.rc)
    BY <1>2, InsertStep
  <1>4. /\ pc' = IF outcome' \in {"INSERTED", "REPLACED"} THEN "scan" ELSE "idle"
        /\ UNCHANGED <<rec, seen, doomed, applied, oper, touched>>
        /\ pc \in {"write", "reinsert"}
    BY <1>2, InsertStep DEF InsertOverNothing, InsertOverImputed, InsertAfterRemove
  <1>5. /\ ranges \in Index /\ rec.key \in Key /\ rec.toTime \in Time
        /\ rec.owlt \in Owlt /\ ~Own(rec.key)
    BY RecordFields DEF TypeOK
  <1>6. \A l \in Key \ {rec.key} :
          /\ IsAsserted(ranges, l) => ranges'[l] = ranges[l]
          /\ IsAsserted(ranges', l) => ranges'[l] = ranges[l]
    BY <1>3, <1>5, InsertFrame
  <1>7. AnnouncesOnlyConfigured'
    BY <1>4, <1>5, <1>6 DEF AnnouncesOnlyConfigured, IsAsserted, Held
  <1>8. OtherAssertionsKept'
    BY <1>4, <1>6 DEF OtherAssertionsKept, IsAsserted, Held
  <1>9. doomed' = {} /\ DoomedOnlyInPrune' /\ DoomedIsImputed'
    BY <1>4 DEF DoomedOnlyInPrune, DoomedIsImputed
  <1>10. OutcomeOfStage' /\ LookupStillTrue'
    BY <1>4 DEF OutcomeOfStage, LookupStillTrue
  <1>11. InsertedIsHeld'
    <2>1. outcome' \in {"INSERTED", "REPLACED"} => r.rc = 0
      BY <1>3, <1>5, InsertType DEF InsertOutcome
    <2>2. QED
      BY <2>1, <1>3, <1>4, <1>5, InsertHolds DEF InsertedIsHeld
  <1>12. NoopKeepsEntry'
    <2> SUFFICES ASSUME outcome' = "NOOP", rec.key \notin touched, applied > 0,
                        Held(seen, rec.key)
                 PROVE  Held(ranges', rec.key)
      BY <1>4 DEF NoopKeepsEntry, Held
    <2>1. r.rc # 0
      BY <1>3 DEF InsertOutcome
    <2>2. CASE r.rc = 1
      BY <2>2, <1>3, <1>5, InsertRefusal DEF IsAsserted
    <2>3. CASE InsertOverNothing
      BY <2>3 DEF InsertOverNothing
    <2>4. CASE site = "INSERT_OVER_IMPUTED" /\ InsertOverImputed /\ r.rc # 1
      <3>1. ranges[rec.key] = seen[rec.key] /\ IsImputed(ranges, rec.key)
        BY <2>4 DEF InsertOverImputed, LookupStillTrue, IsImputed, Held
      <3>2. r.rc \notin {1, 2}
        BY <3>1, <1>3, <1>5, InsertRefusal DEF IsImputed, IsAsserted
      <3>3. r.rc >= 3 /\ r.rc # 0 /\ r.rc # 1
        BY <3>2, <2>1, <1>3, <1>5, InsertType
      <3>4. outcome' = "LOST"
        BY <3>3, <2>4, <1>3 DEF InsertOutcome, Lost
      <3>5. QED
        BY <3>4
    <2>5. CASE site = "INSERT_AFTER_REMOVE" /\ r.rc # 1
      BY <2>5, <1>3, <2>1 DEF InsertOutcome, Lost
    <2>6. QED
      BY <1>1, <2>2, <2>3, <2>4, <2>5
  <1>13. QED
    BY <1>7, <1>8, <1>9, <1>10, <1>11, <1>12

\* A targeted removal of an asserted range by phase 2: only the record's own
\* key loses an assertion.
LEMMA RemoveInv ==
  ASSUME TypeOK, Conjuncts, RemoveAsserted
  PROVE  Conjuncts'
  <1> USE DEF Conjuncts
  <1>1. /\ ranges' = RemoveRange(ranges, rec.key)
        /\ pc = "write" /\ pc' = "reinsert"
        /\ IsAsserted(seen, rec.key)
        /\ UNCHANGED <<rec, seen, doomed, applied, oper, touched, outcome>>
    BY DEF RemoveAsserted, WriteFrame
  <1>2. ranges \in Index /\ rec.key \in Key /\ ~Own(rec.key)
    BY RecordFields DEF TypeOK
  <1>3. AnnouncesOnlyConfigured'
    BY <1>1, <1>2, RemoveFrame DEF AnnouncesOnlyConfigured, IsAsserted, Held
  <1>4. OtherAssertionsKept'
    BY <1>1, <1>2, RemoveFrame DEF OtherAssertionsKept, IsAsserted, Held
  <1>5. DoomedOnlyInPrune' /\ DoomedIsImputed'
    BY <1>1 DEF DoomedOnlyInPrune, DoomedIsImputed
  <1>6. OutcomeOfStage' /\ InsertedIsHeld'
    BY <1>1 DEF OutcomeOfStage, InsertedIsHeld
  <1>7. LookupStillTrue' /\ NoopKeepsEntry'
    BY <1>1 DEF LookupStillTrue, NoopKeepsEntry, IsAsserted, Held
  <1>8. QED
    BY <1>3, <1>4, <1>5, <1>6, <1>7

\* A call ION fails or refuses, a scan, and the death of the process change no entry.
LEMMA QuietInv ==
  ASSUME TypeOK, Conjuncts, WriteFails \/ RemoveRefused \/ Scan \/ ScanFails \/ Dies
  PROVE  Conjuncts'
  <1> USE DEF Conjuncts
  <1>1. /\ UNCHANGED <<ranges, rec, seen, applied, oper, touched>>
        /\ pc' \in {"idle", "scan", "prune"}
        /\ outcome' \in {outcome, "ERROR"}
    BY DEF WriteFails, RemoveRefused, OutcomeOfStage, Scan, ScanFails, Dies, Finish,
           EndPass, WriteFrame, PruneFrame
  <1>2. AnnouncesOnlyConfigured' /\ OtherAssertionsKept'
    BY <1>1 DEF AnnouncesOnlyConfigured, OtherAssertionsKept, IsAsserted, Held
  <1>3. DoomedOnlyInPrune'
    BY DEF WriteFails, RemoveRefused, Scan, ScanFails, Dies, Finish, EndPass, WriteFrame,
           PruneFrame, DoomedOnlyInPrune
  <1>4. DoomedIsImputed'
    <2>1. CASE Scan
      <3>1. \A k \in Redundant(ranges, PruneKey) : ~IsAsserted(ranges, k)
        BY DEF Redundant, FirstOf, IsImputed, IsAsserted
      <3>2. QED
        BY <2>1, <3>1, <1>1 DEF Scan, DoomedIsImputed, IsAsserted, Held
    <2>2. CASE WriteFails \/ RemoveRefused \/ ScanFails \/ Dies
      <3>1. doomed' \in {doomed, {}}
        BY <2>2 DEF WriteFails, RemoveRefused, ScanFails, Dies, WriteFrame
      <3>2. QED
        BY <3>1, <1>1 DEF DoomedIsImputed, IsAsserted, Held
    <2>3. QED
      BY <2>1, <2>2
  <1>5. OutcomeOfStage'
    BY DEF WriteFails, RemoveRefused, Scan, ScanFails, Dies, Finish, EndPass, PruneFrame,
           OutcomeOfStage
  <1>6. InsertedIsHeld' /\ LookupStillTrue'
    BY <1>1 DEF InsertedIsHeld, LookupStillTrue
  <1>7. NoopKeepsEntry'
    <2>1. CASE RemoveRefused
      BY <2>1, <1>1 DEF RemoveRefused, LookupStillTrue, NoopKeepsEntry, IsAsserted, Held
    <2>2. CASE WriteFails \/ Scan \/ ScanFails \/ Dies
      <3>1. outcome' # "NOOP"
        BY <2>2 DEF WriteFails, Scan, ScanFails, Dies, Finish, PruneFrame, OutcomeOfStage
      <3>2. QED
        BY <3>1 DEF NoopKeepsEntry
    <2>3. QED
      BY <2>1, <2>2
  <1>8. QED
    BY <1>2, <1>3, <1>4, <1>5, <1>6, <1>7

\* One turn of the removal loop.  The entry was imputed at the scan; if it is
\* asserted now, somebody wrote it since, and touched says so.
LEMMA PruneInv ==
  ASSUME TypeOK, Conjuncts, NEW k \in doomed, NextDoomed(k),
         ranges' = ranges \/ ranges' = RemoveRange(ranges, k)
  PROVE  Conjuncts'
  <1> USE DEF Conjuncts
  <1>1. /\ pc = "prune" /\ doomed' = doomed \ {k}
        /\ pc' # "prune" => doomed' = {}
        /\ pc' \in {"prune", "scan", "idle"}
        /\ UNCHANGED <<rec, seen, outcome, applied, oper, touched>>
    BY DoomedStep
  <1>2. ranges \in Index /\ k \in Key /\ rec.key \in Key /\ doomed \subseteq Key
    BY RecordFields DEF TypeOK
  <1>3. \A l \in Key :
          /\ l # k /\ IsAsserted(ranges, l) => ranges'[l] = ranges[l]
          /\ IsAsserted(ranges', l) => ranges'[l] = ranges[l]
    BY <1>2, RemoveFrame
  <1>4. k \notin touched => ~IsAsserted(ranges, k)
    BY DEF DoomedIsImputed
  <1>5. AnnouncesOnlyConfigured'
    <2> SUFFICES ASSUME NEW l \in Key, Own(l), IsAsserted(ranges', l)
                 PROVE  oper[l] = ranges'[l]
      BY <1>1 DEF AnnouncesOnlyConfigured, IsAsserted, Held
    <2>1. ranges'[l] = ranges[l]
      BY <1>3
    <2>2. IsAsserted(ranges, l)
      BY <2>1 DEF IsAsserted, Held
    <2>3. QED
      BY <2>1, <2>2 DEF AnnouncesOnlyConfigured
  <1>6. OtherAssertionsKept'
    <2> SUFFICES ASSUME NEW l \in Key \ {rec.key}, applied > 0, l \notin touched,
                        IsAsserted(seen, l)
                 PROVE  ranges'[l] = seen[l]
      BY <1>1 DEF OtherAssertionsKept, IsAsserted, Held
    <2>1. ranges[l] = seen[l]
      BY DEF OtherAssertionsKept
    <2>2. IsAsserted(ranges, l)
      BY <2>1 DEF IsAsserted, Held
    <2>3. l # k
      BY <2>2, <1>4
    <2>4. ranges'[l] = ranges[l]
      BY <2>2, <2>3, <1>3
    <2>5. QED
      BY <2>1, <2>4
  <1>7. DoomedOnlyInPrune' /\ DoomedIsImputed'
    BY <1>1, <1>2, <1>3 DEF DoomedOnlyInPrune, DoomedIsImputed, IsAsserted, Held
  <1>8. OutcomeOfStage' /\ LookupStillTrue'
    BY <1>1 DEF OutcomeOfStage, LookupStillTrue
  <1>9. InsertedIsHeld'
    <2> SUFFICES ASSUME outcome \in {"INSERTED", "REPLACED"}, rec.key \notin touched
                 PROVE  ranges'[rec.key] = ranges[rec.key]
      BY <1>1 DEF InsertedIsHeld
    <2>1. ranges[rec.key] = [toTime |-> rec.toTime, owlt |-> rec.owlt, asserted |-> TRUE]
      BY DEF InsertedIsHeld
    <2>2. ranges[rec.key] \in Entry
      BY <2>1, RecordFields DEF TypeOK, Entry
    <2>3. IsAsserted(ranges, rec.key)
      <3>1. ranges[rec.key] # NoRange
        BY <2>2, IndexAssumption
      <3>2. ranges[rec.key].asserted
        BY <2>1
      <3>3. QED
        BY <3>1, <3>2 DEF IsAsserted, Held
    <2>4. rec.key # k
      BY <2>3, <1>4
    <2>5. QED
      BY ONLY <2>3, <2>4, <1>2, <1>3
  <1>10. NoopKeepsEntry'
    BY <1>1 DEF NoopKeepsEntry, OutcomeOfStage
  <1>11. QED
    BY <1>5, <1>6, <1>7, <1>8, <1>9, <1>10

\* A write of somebody else: the keys it changes are touched from then on.
LEMMA OperatorInv ==
  ASSUME TypeOK, Conjuncts, Operator
  PROVE  Conjuncts'
  <1> USE DEF Conjuncts
  <1>1. /\ UNCHANGED <<pc, rec, seen, outcome, doomed, applied>>
        /\ touched' = touched \cup Changed
    BY DEF Operator, OperatorAsserts, OperatorRemoves, local
  <1>2. \A l \in Key : l \notin touched' => l \notin touched /\ ranges'[l] = ranges[l]
    BY <1>1 DEF Changed
  <1>3. rec.key \in Key /\ doomed \subseteq Key /\ ranges \in Index /\ oper \in Index
    BY RecordFields DEF TypeOK
  <1>4. AnnouncesOnlyConfigured'
    <2>1. ASSUME NEW r \in Assertion, OperatorAsserts(r)
          PROVE  AnnouncesOnlyConfigured'
      <3>1. PICK res \in InsertRange(ranges, r.key, r.toTime, r.owlt) :
              /\ ranges' = res.idx
              /\ oper' = IF res.rc = 0 THEN [oper EXCEPT ![r.key] = res.idx[r.key]]
                                       ELSE oper
        BY <2>1 DEF OperatorAsserts
      <3>2. \A l \in Key \ {r.key} : IsAsserted(ranges', l) =>
              ranges'[l] = ranges[l] /\ oper'[l] = oper[l] /\ IsAsserted(ranges, l)
        BY <1>3, <3>1, RecordFields, InsertFrame DEF IsAsserted, Held, Index
      <3>3. IsAsserted(ranges', r.key) =>
              \/ ranges'[r.key] = ranges[r.key] /\ oper' = oper
              \/ oper'[r.key] = ranges'[r.key]
        <4>1. CASE res.rc = 0
          BY <4>1, <3>1, <1>3, RecordFields DEF Index
        <4>2. CASE res.rc \in {1, 2, 3}
          BY <4>2, <3>1, <1>3, RecordFields, InsertRefusal
        <4>3. CASE res.rc = 4
          <5>1. res.idx = Dropped(ranges, r.key)
            BY <4>3 DEF InsertRange, Answer
          <5>2. ~IsAsserted(ranges', r.key)
            BY <5>1, <3>1, <1>3, RecordFields DEF Dropped, IsAsserted, Held, Index
          <5>3. QED
            BY <5>2
        <4>4. res.rc \in 0..4
          BY <1>3, RecordFields, InsertType
        <4>5. QED
          BY <4>1, <4>2, <4>3, <4>4
      <3>4. QED
        BY <3>2, <3>3 DEF AnnouncesOnlyConfigured, IsAsserted, Held
    <2>2. ASSUME NEW k \in Key, OperatorRemoves(k)
          PROVE  AnnouncesOnlyConfigured'
      <3>1. ranges' = RemoveRange(ranges, k) /\ oper' = [oper EXCEPT ![k] = NoRange]
        BY <2>2 DEF OperatorRemoves
      <3>2. \A l \in Key : IsAsserted(ranges', l) =>
              l # k /\ ranges'[l] = ranges[l] /\ oper'[l] = oper[l]
        BY <3>1, <1>3, RemoveFrame DEF Index
      <3>3. QED
        BY <3>2 DEF AnnouncesOnlyConfigured, IsAsserted, Held
    <2>3. QED
      BY <2>1, <2>2 DEF Operator
  <1>5. OtherAssertionsKept'
    BY <1>1, <1>2, <1>3 DEF OtherAssertionsKept
  <1>6. DoomedOnlyInPrune' /\ DoomedIsImputed'
    BY <1>1, <1>2, <1>3 DEF DoomedOnlyInPrune, DoomedIsImputed, IsAsserted, Held
  <1>7. OutcomeOfStage' /\ InsertedIsHeld' /\ LookupStillTrue'
    BY <1>1, <1>2, <1>3 DEF OutcomeOfStage, InsertedIsHeld, LookupStillTrue
  <1>8. NoopKeepsEntry'
    BY <1>1, <1>2, <1>3 DEF NoopKeepsEntry, Held
  <1>9. QED
    BY <1>4, <1>5, <1>6, <1>7, <1>8

\* Every step of dtnex, of the operator, or of somebody else keeps the conjuncts.
LEMMA StepInv ==
  TypeOK /\ Conjuncts /\ [Next]_vars => Conjuncts'
  <1> SUFFICES ASSUME TypeOK, Conjuncts, [Next]_vars PROVE Conjuncts'
    OBVIOUS
  <1>1. CASE Lookup
    BY <1>1, LookupInv DEF Lookup
  <1>2. CASE InsertOverNothing \/ InsertOverImputed \/ InsertAfterRemove
    BY <1>2, InsertInv
  <1>3. CASE RemoveAsserted
    BY <1>3, RemoveInv
  <1>4. CASE WriteFails \/ RemoveRefused \/ Scan \/ ScanFails \/ Dies
    BY <1>4, QuietInv
  <1>5. CASE PruneRemoves \/ PruneRemoveFails
    BY <1>5, PruneInv DEF PruneRemoves, PruneRemoveFails
  <1>6. CASE Operator
    BY <1>6, OperatorInv
  <1>7. CASE UNCHANGED vars
    BY <1>7 DEF vars, local, Conjuncts, AnnouncesOnlyConfigured, OtherAssertionsKept,
                DoomedOnlyInPrune, DoomedIsImputed, OutcomeOfStage, InsertedIsHeld,
                LookupStillTrue, NoopKeepsEntry, IsAsserted, Held
  <1>8. QED
    BY <1>1, <1>2, <1>3, <1>4, <1>5, <1>6, <1>7 DEF Next, Dtnex, Write, Prune

\* IInv is inductive, so it holds in every reachable state.
THEOREM Inductive == Spec => []IInv
  <1>1. Spec => []Conjuncts
    <2>1. TypeOK /\ Conjuncts /\ [Next]_vars => Conjuncts'
      BY StepInv
    <2>2. QED
      BY <2>1, InitInv, TypeCorrect, PTL DEF Spec
  <1>2. TypeOK /\ Conjuncts => IInv
    BY DEF IInv, Conjuncts
  <1>3. QED
    BY <1>1, <1>2, TypeCorrect, PTL

-----------------------------------------------------------------------------
(* The properties.                                                         *)

\* A node never comes to hold an asserted range of its own direction that its
\* operator did not configure: what it announces is its operator's.
THEOREM AnnouncementsAreConfigured == Spec => []AnnouncesOnlyConfigured
  <1>1. IInv => AnnouncesOnlyConfigured
    BY DEF IInv
  <1>2. QED
    BY <1>1, Inductive, PTL

\* Applying a record leaves every assertion under another key as the lookup
\* saw it, unless somebody else wrote that key since.
THEOREM RemovalsAreTargeted == Spec => []OtherAssertionsKept
  <1>1. IInv => OtherAssertionsKept
    BY DEF IInv
  <1>2. QED
    BY <1>1, Inductive, PTL

\* A call that returns INSERTED or REPLACED has left the record in ION.
THEOREM SuccessIsHeld == Spec => []SuccessMeansHeld
  <1>1. IInv => SuccessMeansHeld
    BY DEF IInv, InsertedIsHeld, SuccessMeansHeld
  <1>2. QED
    BY <1>1, Inductive, PTL

\* No call that made ION lose the entry under the record's key returns NOOP,
\* INSERTED or REPLACED.
THEOREM LossesAreReported == Spec => []LossIsReported
  <1>1. IInv => LossIsReported
    <2> SUFFICES ASSUME IInv, Returned, rec.key \notin touched,
                        Held(seen, rec.key), ~Held(ranges, rec.key)
                 PROVE  outcome \in {"LOST", "ERROR"}
      BY DEF LossIsReported
    <2>1. outcome # "NOOP"
      BY DEF IInv, NoopKeepsEntry, Returned
    <2>2. outcome \notin {"INSERTED", "REPLACED"}
      <3>1. SUFFICES ASSUME outcome \in {"INSERTED", "REPLACED"} PROVE FALSE
        OBVIOUS
      <3>2. ranges[rec.key] = [toTime |-> rec.toTime, owlt |-> rec.owlt, asserted |-> TRUE]
        BY <3>1 DEF IInv, InsertedIsHeld
      <3>3. ranges[rec.key] \in Entry
        BY <3>2, RecordFields DEF IInv, TypeOK, Entry
      <3>4. QED
        BY <3>3, IndexAssumption DEF Held
    <2>3. outcome \in Outcomes
      BY DEF IInv, TypeOK
    <2>4. QED
      BY <2>1, <2>2, <2>3 DEF Outcomes
  <1>2. QED
    BY <1>1, Inductive, PTL

\* No write of dtnex falls inside the set the node announces, but for a key
\* somebody else wrote between the lookup and the write: the reason the
\* snapshot of announceable ranges needs no invalidation on write, with the
\* exact exception to it.
THEOREM SnapshotNeedsNoInvalidation == Spec => OwnRangesUntouchedUnlessRaced
  <1> DEFINE Kept == Dtnex => \A k \in Key : Own(k) /\ IsAsserted(ranges, k)
                               => ranges'[k] = ranges[k] \/ k \in touched
  <1>1. IInv /\ [Next]_vars => [Kept]_vars
    <2> SUFFICES ASSUME IInv, Dtnex, NEW k \in Key, Own(k), IsAsserted(ranges, k)
                 PROVE  ranges'[k] = ranges[k] \/ k \in touched
      OBVIOUS
    <2>1. ranges \in Index /\ rec.key \in Key /\ ~Own(rec.key) /\ rec \in Record
      BY RecordFields DEF IInv, TypeOK
    <2>2. k # rec.key
      BY <2>1
    <2>3. CASE \/ Lookup \/ WriteFails \/ RemoveRefused \/ Scan \/ ScanFails
               \/ PruneRemoveFails \/ Dies
      BY <2>3 DEF Lookup, LookupIdentical, LookupDiffers, LookupFails, Begin,
                  WriteFails, RemoveRefused, Scan, ScanFails, PruneRemoveFails, Dies
    <2>4. CASE InsertOverNothing \/ InsertOverImputed \/ InsertAfterRemove
      <3>1. PICK r \in InsertRange(ranges, rec.key, rec.toTime, rec.owlt) : ranges' = r.idx
        BY <2>4 DEF InsertOverNothing, InsertOverImputed, InsertAfterRemove, insertRange
      <3>2. QED
        BY <3>1, <2>1, <2>2, InsertFrame, RecordFields
    <2>5. CASE RemoveAsserted
      BY <2>5, <2>1, <2>2, RemoveFrame DEF RemoveAsserted
    <2>6. CASE PruneRemoves
      <3>1. PICK d \in doomed : ranges' = RemoveRange(ranges, d)
        BY <2>6 DEF PruneRemoves
      <3>2. d \in Key
        BY <3>1 DEF IInv, TypeOK
      <3>3. CASE d = k
        BY <3>1, <3>3 DEF IInv, DoomedIsImputed
      <3>4. CASE d # k
        BY <3>1, <3>2, <3>4, <2>1, RemoveFrame
      <3>5. QED
        BY <3>3, <3>4
    <2>7. QED
      BY <2>3, <2>4, <2>5, <2>6 DEF Dtnex, Write, Prune
  <1>2. QED
    BY <1>1, Inductive, PTL DEF Spec, OwnRangesUntouchedUnlessRaced

\* A call in progress has been counted, so that what the lookup saw is known.
LEMMA CallsAreCounted == Spec => [](pc # "idle" => applied > 0)
  <1> DEFINE Counted == pc # "idle" => applied > 0
  <1>1. Init => Counted
    BY DEF Init
  <1>2. TypeOK /\ Counted /\ [Next]_vars => Counted'
    <2> SUFFICES ASSUME TypeOK, Counted, [Next]_vars PROVE Counted'
      OBVIOUS
    <2>1. applied \in Nat
      BY ApplyAssumption DEF TypeOK
    <2>2. ASSUME NEW r \in Record, Begin(r) PROVE applied' > 0
      BY <2>1, <2>2 DEF Begin
    <2>3. CASE Lookup
      BY <2>2, <2>3 DEF Lookup, LookupIdentical, LookupDiffers, LookupFails
    <2>4. CASE Write
      BY <2>4 DEF Write, WriteFails, InsertOverNothing, InsertOverImputed, RemoveAsserted,
                  RemoveRefused, InsertAfterRemove, insertRange, WriteFrame
    <2>5. CASE Prune
      BY <2>5 DEF Prune, Scan, ScanFails, PruneRemoves, PruneRemoveFails, NextDoomed, PruneFrame
    <2>6. CASE Operator \/ Dies \/ UNCHANGED vars
      BY <2>6 DEF Operator, OperatorAsserts, OperatorRemoves, Dies, vars, local
    <2>7. QED
      BY <2>3, <2>4, <2>5, <2>6 DEF Next, Dtnex
  <1>3. QED
    BY <1>1, <1>2, TypeCorrect, PTL DEF Spec

\* NOOP means that nothing was written, unless somebody wrote the key between
\* the lookup and the write: the return codes each site takes for a plain
\* refusal are exactly those by which ION leaves its index alone.
THEOREM NoopWritesNothing == Spec => NoopRemovesNothingUnlessRaced
  <1> DEFINE Counted == pc # "idle" => applied > 0
             Kept == (Write /\ pc' = "idle" /\ outcome' = "NOOP")
                       => ranges' = ranges \/ rec.key \in touched
  <1>1. IInv /\ Counted /\ [Next]_vars => [Kept]_vars
    <2> SUFFICES ASSUME IInv, Counted, Write, outcome' = "NOOP", pc' = "idle",
                        rec.key \notin touched
                 PROVE  ranges' = ranges
      OBVIOUS
    <2>1. /\ ranges \in Index /\ rec.key \in Key /\ rec.toTime \in Time
          /\ rec.owlt \in Owlt
      BY RecordFields DEF IInv, TypeOK
    <2>2. pc = "write" => ranges[rec.key] = seen[rec.key]
      BY DEF IInv, LookupStillTrue
    <2>3. CASE WriteFails \/ RemoveRefused \/ RemoveAsserted
      BY <2>3 DEF WriteFails, RemoveRefused, RemoveAsserted
    <2>4. ASSUME NEW ok \in {"INSERTED", "REPLACED"}, NEW site, insertRange(ok, site),
                 ~IsImputed(ranges, rec.key) \/ site = "INSERT_AFTER_REMOVE"
                   \/ site = "INSERT_OVER_IMPUTED"
          PROVE  ranges' = ranges
      <3>1. PICK r \in InsertRange(ranges, rec.key, rec.toTime, rec.owlt) :
              ranges' = r.idx /\ outcome' = InsertOutcome(ok, site, r.rc)
        BY <2>4, InsertStep
      <3>2. r.rc \in {0, 1, 2, 3, 4} /\ r.rc # 0
        <4>1. r.rc \in {0, 1, 2, 3, 4}
          BY <3>1 DEF InsertRange, Answer
        <4>2. r.rc # 0
          BY <3>1 DEF InsertOutcome
        <4>3. QED
          BY <4>1, <4>2
      <3>3. r.rc # 4
        <4> SUFFICES ASSUME r.rc = 4 PROVE FALSE
          OBVIOUS
        <4>1. IsImputed(ranges, rec.key)
          BY <2>1, <3>1, InsertRefusal
        <4>2. Lost(site, 4)
          BY <4>1, <2>4 DEF Lost
        <4>3. QED
          BY <4>2, <3>1 DEF InsertOutcome
      <3>4. QED
        BY <2>1, <3>1, <3>2, <3>3, InsertRefusal
    <2>5. CASE InsertOverNothing
      BY <2>2, <2>4, <2>5 DEF InsertOverNothing, IsImputed, Held
    <2>6. CASE InsertOverImputed \/ InsertAfterRemove
      BY <2>4, <2>6 DEF InsertOverImputed, InsertAfterRemove
    <2>7. QED
      BY <2>3, <2>5, <2>6 DEF Write
  <1>2. QED
    BY <1>1, Inductive, CallsAreCounted, PTL DEF Spec, NoopRemovesNothingUnlessRaced

-----------------------------------------------------------------------------
(***************************************************************************)
(* RangeApply keeps RangePromise: a call that nobody has disturbed adds up *)
(* to one of the atomic changes promised, and a successful one leaves no   *)
(* redundant imputed entry.  Both need every scan of the pruning to see    *)
(* the whole of a pair: its entries have different start times, so that it *)
(* is enough that there are no more instants than MaxScan.                 *)
(***************************************************************************)

\* No pair can have more entries than a scan keeps.
ScanSeesAll == IsFiniteSet(Time) /\ Cardinality(Time) <= MaxScan

-----------------------------------------------------------------------------
(* What a scan finds, and what a removal of it takes away.                 *)

\* The limit of a scan cuts nothing off the entries of one pair.
LEMMA FirstOfPair ==
  ASSUME ScanSeesAll, NEW pair \in Key, NEW S \in SUBSET {k \in Key : SamePair(k, pair)}
  PROVE  FirstOf(S) = S
  <1> SUFFICES ASSUME NEW k \in S
               PROVE  Cardinality({l \in S : l.fromTime < k.fromTime}) < MaxScan
    BY DEF FirstOf
  <1> DEFINE Before == {l \in S : l.fromTime < k.fromTime}
             Others == Time \ {k.fromTime}
             start == [l \in Before |-> l.fromTime]
  <1>1. k \in Key /\ k.fromTime \in Time
    BY DEF Key
  <1>2. IsFiniteSet(Others) /\ Cardinality(Others) = Cardinality(Time) - 1
    BY <1>1, FS_RemoveElement DEF ScanSeesAll
  <1>3. \A l \in Before : l.fromTime \in Others
    <2> SUFFICES ASSUME NEW l \in Before PROVE l.fromTime \in Others
      OBVIOUS
    <2>1. l.fromTime \in Time /\ k.fromTime \in Nat /\ l.fromTime < k.fromTime
      BY <1>1, IndexAssumption DEF Key
    <2>2. l.fromTime \in Nat
      BY <2>1, IndexAssumption
    <2> QED
      BY <2>1, <2>2
  <1>4. \A l, m \in Before : l.fromTime = m.fromTime => l = m
    BY DEF Key, SamePair
  <1>5. start \in Injection(Before, Others)
    BY <1>3, <1>4 DEF Injection, IsInjective
  <1>6. IsFiniteSet(Before) /\ Cardinality(Before) <= Cardinality(Others)
    BY <1>2, <1>5, FS_Injection
  <1>7. Cardinality(Before) \in Nat /\ Cardinality(Time) \in Nat /\ MaxScan \in Nat
    BY <1>6, FS_CardinalityType, ApplyAssumption DEF ScanSeesAll
  <1> QED
    BY <1>2, <1>6, <1>7 DEF ScanSeesAll

\* A scan condemns exactly the redundant entries of the promise.
LEMMA ScanFinds ==
  ASSUME ScanSeesAll, NEW idx, NEW pair \in Key
  PROVE  Redundant(idx, pair) = RedundantOf(idx, pair)
  <1> DEFINE asserted == {k \in Key : SamePair(k, pair) /\ IsAsserted(idx, k)}
             imputed == {k \in Key : SamePair(k, pair) /\ IsImputed(idx, k)}
  <1>1. FirstOf(asserted) = asserted
    BY FirstOfPair
  <1>2. FirstOf(imputed) = imputed
    BY FirstOfPair
  <1>3. Redundant(idx, pair) = {k \in imputed : \E l \in asserted : Overlap(idx, k, l)}
    BY <1>1, <1>2 DEF Redundant
  <1>4. RedundantOf(idx, pair) = {k \in imputed : \E l \in asserted : Overlap(idx, k, l)}
    BY DEF RedundantOf
  <1> QED
    BY <1>3, <1>4

\* The removal of an entry that is not canonical takes nothing else along.
LEMMA RemoveAlone ==
  ASSUME NEW idx \in Index, NEW k \in Key, ~Canonical(k)
  PROVE  RemoveRange(idx, k) = Without(idx, {k})
  BY DEF RemoveRange, Without

\* What is redundant in a pair does not depend on the entries of other pairs.
LEMMA OtherPairs ==
  ASSUME NEW idx \in Index, NEW pair \in Key, NEW S \in SUBSET Key,
         \A k \in S : ~SamePair(k, pair)
  PROVE  RedundantOf(Without(idx, S), pair) = RedundantOf(idx, pair)
  <1>1. \A k \in Key : SamePair(k, pair) => Without(idx, S)[k] = idx[k]
    BY DEF Without
  <1>2. \A k \in Key : SamePair(k, pair) =>
          /\ IsImputed(Without(idx, S), k) <=> IsImputed(idx, k)
          /\ IsAsserted(Without(idx, S), k) <=> IsAsserted(idx, k)
    BY <1>1 DEF IsImputed, IsAsserted, Held
  <1>3. \A k, l \in Key : SamePair(k, pair) /\ SamePair(l, pair) =>
          (Overlap(Without(idx, S), k, l) <=> Overlap(idx, k, l))
    BY <1>1 DEF Overlap
  <1> QED
    BY <1>2, <1>3 DEF RedundantOf

\* Removals add up.
LEMMA WithoutTwice ==
  ASSUME NEW idx \in Index, NEW S \in SUBSET Key, NEW T \in SUBSET Key
  PROVE  /\ Without(Without(idx, S), T) = Without(idx, S \cup T)
         /\ Without(idx, {}) = idx
         /\ Without(idx, S) \in Index
  BY DEF Without, Index

-----------------------------------------------------------------------------
(* Imputed entries are never canonical.                                    *)

OnlyReversesImputed == \A k \in Key : IsImputed(ranges, k) => ~Canonical(k)

\* Insertions impute the reverse of a canonical key only; removals impute nothing.
LEMMA StoresNoCanonical ==
  ASSUME NEW idx \in Index, \A k \in Key : IsImputed(idx, k) => ~Canonical(k),
         NEW k \in Key, NEW t \in Time, NEW o \in Owlt, NEW r \in InsertRange(idx, k, t, o),
         NEW l \in Key, IsImputed(r.idx, l)
  PROVE  ~Canonical(l)
  <1>1. CASE r.idx = idx
    BY <1>1
  <1>2. CASE r.idx = Dropped(idx, k)
    BY <1>2 DEF Dropped, IsImputed, Held, Index
  <1>3. CASE r.idx = Stored(idx, k, t, o)
    <2>1. l # k
      BY <1>3 DEF Stored, IsImputed, Held
    <2>2. CASE Canonical(k) /\ l = Reverse(k)
      <3>1. k.from \in Nat /\ k.to \in Nat
        BY IndexAssumption DEF Key
      <3> QED
        BY <2>2, <3>1 DEF Canonical, Reverse
    <2>3. CASE ~(Canonical(k) /\ l = Reverse(k))
      BY <1>3, <2>1, <2>3 DEF Stored, IsImputed, Held
    <2> QED
      BY <2>2, <2>3
  <1> QED
    BY <1>1, <1>2, <1>3 DEF InsertRange, Answer

\* A removal leaves imputed only what was.
LEMMA RemoveImputesNothing ==
  ASSUME NEW idx \in Index, NEW k \in Key, NEW l \in Key
  PROVE  /\ IsImputed(RemoveRange(idx, k), l) =>
              IsImputed(idx, l) /\ RemoveRange(idx, k)[l] = idx[l]
         /\ IsAsserted(RemoveRange(idx, k), l) =>
              IsAsserted(idx, l) /\ RemoveRange(idx, k)[l] = idx[l]
  BY DEF RemoveRange, IsImputed, IsAsserted, Held, Index

\* Whatever is applied, pruned or typed, no canonical key holds an imputed entry.
LEMMA ReversesOnly == Spec => []OnlyReversesImputed
  <1>1. Init => OnlyReversesImputed
    BY DEF Init, OnlyReversesImputed, IsImputed, Held
  <1>2. TypeOK /\ OnlyReversesImputed /\ [Next]_vars => OnlyReversesImputed'
    <2> SUFFICES ASSUME TypeOK, OnlyReversesImputed, [Next]_vars,
                        NEW l \in Key, IsImputed(ranges', l)
                 PROVE  ~Canonical(l)
      BY DEF OnlyReversesImputed, IsImputed, Held
    <2>1. ranges \in Index /\ rec.key \in Key /\ rec.toTime \in Time /\ rec.owlt \in Owlt
          /\ doomed \subseteq Key
      BY RecordFields DEF TypeOK
    <2>2. CASE UNCHANGED ranges
      BY <2>2 DEF OnlyReversesImputed, IsImputed, Held
    <2>3. ASSUME NEW k \in Key, NEW t \in Time, NEW o \in Owlt,
                 NEW r \in InsertRange(ranges, k, t, o), ranges' = r.idx
          PROVE  ~Canonical(l)
      BY <2>1, <2>3, StoresNoCanonical DEF OnlyReversesImputed
    <2>4. ASSUME NEW k \in Key, ranges' = RemoveRange(ranges, k)
          PROVE  ~Canonical(l)
      BY <2>1, <2>4, RemoveImputesNothing DEF OnlyReversesImputed
    <2>5. CASE Write
      BY <2>1, <2>2, <2>3, <2>4, <2>5
         DEF Write, WriteFails, InsertOverNothing, InsertOverImputed, RemoveAsserted,
             RemoveRefused, InsertAfterRemove, insertRange
    <2>6. CASE Prune
      BY <2>1, <2>2, <2>4, <2>6 DEF Prune, Scan, ScanFails, PruneRemoves, PruneRemoveFails
    <2>7. CASE Operator
      BY <2>3, <2>4, <2>7, RecordFields DEF Operator, OperatorAsserts, OperatorRemoves
    <2>8. CASE Lookup \/ Dies \/ UNCHANGED vars
      BY <2>2, <2>8 DEF Lookup, LookupIdentical, LookupDiffers, LookupFails, Begin, Dies, vars
    <2> QED
      BY <2>5, <2>6, <2>7, <2>8 DEF Next, Dtnex
  <1> QED
    BY <1>1, <1>2, TypeCorrect, PTL DEF Spec

-----------------------------------------------------------------------------
(* What the pruning has still to take away.  The index without it is the   *)
(* same from the insertion to the return: the promised one.                *)

Left ==
  (IF pc = "scan" THEN RedundantOf(ranges, PruneKey) ELSE doomed)
    \cup (IF pc \in {"scan", "prune"} /\ pass = 1
            THEN RedundantOf(ranges, Reverse(rec.key)) ELSE {})

Target == Without(ranges, Left)

\* The entries to be removed are those of the pair in hand, and stand alone.
DoomedOfPair ==
  IF pc = "prune" THEN \A k \in doomed : SamePair(k, PruneKey) /\ ~Canonical(k)
                  ELSE doomed = {}

\* The entry the lookup found is not the record's.
Differing == ~(Held(seen, rec.key) /\ seen[rec.key].toTime = rec.toTime
                                   /\ seen[rec.key].owlt = rec.owlt)

Undisturbed == applied > 0 /\ touched = {} /\ ~failed

\* As long as nothing disturbs the call, what it has written and what it is
\* still to take away add up to what is promised.
OnItsWay ==
  Undisturbed =>
    /\ pc = "write" => ranges = seen /\ Differing
    /\ pc = "reinsert" =>
         /\ ranges = RemoveRange(seen, rec.key)
         /\ IsAsserted(seen, rec.key)
         /\ Differing
    /\ pc \in {"idle", "scan", "prune"} =>
         Result(outcome, Target) \in AtomicApply(seen, rec)

\* The entries condemned by a scan, off the list one by one.
LEMMA DoomedKept ==
  ASSUME ScanSeesAll, TypeOK, OnlyReversesImputed, DoomedOfPair, [Next]_vars
  PROVE  DoomedOfPair'
  <1> USE DEF DoomedOfPair
  <1>1. rec.key \in Key /\ PruneKey \in Key
    BY RecordFields, ReverseIsKey DEF TypeOK, PruneKey
  <1>2. CASE Scan
    <2>1. CASE doomed' = {}
      BY <1>2, <2>1 DEF Scan, EndPass
    <2>2. CASE doomed' # {}
      <3>1. doomed' = RedundantOf(ranges, PruneKey)
        BY <1>1, <1>2, ScanFinds DEF Scan
      <3>2. pc' = "prune" /\ PruneKey' = PruneKey
        BY <1>2, <2>2 DEF Scan, PruneFrame, PruneKey
      <3>3. \A k \in doomed' : SamePair(k, PruneKey) /\ ~Canonical(k)
        BY <3>1 DEF RedundantOf, OnlyReversesImputed
      <3> QED
        BY <3>2, <3>3 DEF SamePair
    <2> QED
      BY <2>1, <2>2
  <1>3. CASE PruneRemoves \/ PruneRemoveFails
    <2>1. PICK k \in doomed : NextDoomed(k)
      BY <1>3 DEF PruneRemoves, PruneRemoveFails
    <2>2. CASE doomed' = {}
      BY <2>1, <2>2 DEF NextDoomed, EndPass
    <2>3. CASE doomed' # {}
      <3>1. pc = "prune" /\ pc' = "prune" /\ PruneKey' = PruneKey /\ doomed' \subseteq doomed
        BY <2>1, <2>3 DEF NextDoomed, PruneFrame, PruneKey
      <3> QED
        BY <3>1 DEF SamePair
    <2> QED
      BY <2>2, <2>3
  <1>4. CASE ScanFails \/ Dies
    BY <1>4 DEF ScanFails, Dies, EndPass
  <1>5. CASE Lookup
    BY <1>5 DEF Lookup, LookupIdentical, LookupDiffers, LookupFails, Begin
  <1>6. CASE Write
    BY <1>6 DEF Write, WriteFails, InsertOverNothing, InsertOverImputed, RemoveAsserted,
                RemoveRefused, InsertAfterRemove, insertRange, WriteFrame, Finish
  <1>7. CASE Operator \/ UNCHANGED vars
    BY <1>7 DEF Operator, OperatorAsserts, OperatorRemoves, vars, local, PruneKey, SamePair
  <1> QED
    BY <1>2, <1>3, <1>4, <1>5, <1>6, <1>7 DEF Next, Dtnex, Prune

\* The lookup.
LEMMA LookupOnItsWay ==
  ASSUME TypeOK, DoomedOfPair, Lookup
  PROVE  OnItsWay'
  <1>1. PICK r \in Record : LookupIdentical(r) \/ LookupDiffers(r) \/ LookupFails(r)
    BY DEF Lookup
  <1>2. /\ ranges \in Index /\ doomed = {} /\ rec' = r /\ seen' = ranges
        /\ ranges' = ranges /\ doomed' = doomed
    BY <1>1 DEF TypeOK, DoomedOfPair, LookupIdentical, LookupDiffers, LookupFails, Begin
  <1>3. CASE LookupIdentical(r)
    <2>1. pc' = "idle" /\ outcome' = "NOOP" /\ UpToDate(r)
      BY <1>3 DEF LookupIdentical, Begin
    <2>2. Target' = ranges
      BY <1>2, <2>1, WithoutTwice DEF Target, Left
    <2>3. AtomicApply(ranges, r) = {Result("NOOP", ranges)}
      BY <2>1 DEF AtomicApply, UpToDate
    <2> QED
      BY <1>2, <2>1, <2>2, <2>3 DEF OnItsWay
  <1>4. CASE LookupDiffers(r)
    BY <1>2, <1>4 DEF LookupDiffers, OnItsWay, Differing, UpToDate, Held
  <1>5. CASE LookupFails(r)
    BY <1>5 DEF LookupFails, OnItsWay, Undisturbed
  <1> QED
    BY <1>1, <1>3, <1>4, <1>5

\* An answer to an insertion leads to what it promises.
LEMMA InsertTarget ==
  ASSUME TypeOK, TypeOK', DoomedOfPair, pc # "prune", NEW ok \in {"INSERTED", "REPLACED"},
         NEW site, insertRange(ok, site)
  PROVE  /\ UNCHANGED <<rec, seen, applied, touched, failed>>
         /\ pc' \in {"idle", "scan"}
         /\ \E r \in Inserting(ranges, rec) :
              /\ r.rc \in 0..4 /\ outcome' = InsertOutcome(ok, site, r.rc)
              /\ r.rc = 0 => outcome' = ok /\ Target' = Settled(r.idx, rec)
              /\ r.rc # 0 => outcome' \in {"NOOP", "LOST"} /\ Target' = r.idx
  <1>1. PICK r \in Inserting(ranges, rec) : ranges' = r.idx /\ outcome' = InsertOutcome(ok, site, r.rc)
    BY InsertStep DEF Inserting
  <1>2. r.rc \in {0, 1, 2, 3, 4}
    BY <1>1 DEF Inserting, InsertRange, Answer
  <1>3. /\ pc' = IF outcome' \in {"INSERTED", "REPLACED"} THEN "scan" ELSE "idle"
        /\ pass' = 1
        /\ UNCHANGED <<rec, seen, doomed, applied, touched, failed>>
    BY InsertStep
  <1>4. CASE r.rc = 0
    <2>1. outcome' = ok /\ pc' = "scan"
      BY <1>1, <1>3, <1>4 DEF InsertOutcome
    <2>2. Left' = RedundantOf(ranges', rec.key) \cup RedundantOf(ranges', Reverse(rec.key))
      BY <1>3, <2>1 DEF Left, PruneKey
    <2>3. Target' = Settled(r.idx, rec)
      BY <1>1, <2>2 DEF Target, Settled
    <2> QED
      BY <1>1, <1>2, <1>3, <1>4, <2>1, <2>3
  <1>5. CASE r.rc # 0
    <2>1. outcome' \in {"NOOP", "LOST"}
      BY <1>1, <1>2, <1>5 DEF InsertOutcome
    <2>2. pc' = "idle" /\ doomed' = {}
      BY <2>1, <1>3 DEF DoomedOfPair
    <2>3. Target' = ranges'
      BY <2>2, WithoutTwice DEF Target, Left, TypeOK
    <2> QED
      BY <1>1, <1>2, <1>3, <1>5, <2>1, <2>2, <2>3
  <1> QED
    BY <1>4, <1>5

\* The writes, by the entry the lookup found.
LEMMA WriteOnItsWay ==
  ASSUME TypeOK, TypeOK', DoomedOfPair, OnItsWay, Write
  PROVE  OnItsWay'
  <1> SUFFICES ASSUME Undisturbed' PROVE OnItsWay'
    BY DEF OnItsWay
  <1>1. CASE WriteFails \/ RemoveRefused
    BY <1>1 DEF WriteFails, RemoveRefused, Undisturbed
  <1>2. CASE InsertOverNothing
    <2>1. PICK r \in Inserting(ranges, rec) :
            /\ r.rc \in 0..4 /\ outcome' = InsertOutcome("INSERTED", "INSERT_OVER_NOTHING", r.rc)
            /\ r.rc = 0 => outcome' = "INSERTED" /\ Target' = Settled(r.idx, rec)
            /\ r.rc # 0 => outcome' \in {"NOOP", "LOST"} /\ Target' = r.idx
      BY <1>2, InsertTarget DEF InsertOverNothing
    <2>2. UNCHANGED <<rec, seen, applied, touched, failed>> /\ pc' \in {"idle", "scan"}
      BY <1>2, InsertTarget DEF InsertOverNothing
    <2>3. ranges = seen /\ ~Held(seen, rec.key)
      BY <1>2, <2>2 DEF InsertOverNothing, OnItsWay, Undisturbed
    <2>4. r.rc # 0 => r.idx = seen
      BY <2>3 DEF Inserting, InsertRange, Answer, IsAsserted, IsImputed
    <2>5. r.rc # 0 => outcome' = "NOOP"
      BY <2>1 DEF InsertOutcome, Lost
    <2>6. Result(outcome', Target') \in ApplyNew(seen, rec)
      BY <2>1, <2>3, <2>4, <2>5 DEF ApplyNew
    <2>7. AtomicApply(seen, rec) = ApplyNew(seen, rec)
      BY <2>3 DEF AtomicApply
    <2> QED
      BY <2>2, <2>6, <2>7 DEF OnItsWay
  <1>3. CASE InsertOverImputed
    <2>1. PICK r \in Inserting(ranges, rec) :
            /\ r.rc \in 0..4 /\ outcome' = InsertOutcome("REPLACED", "INSERT_OVER_IMPUTED", r.rc)
            /\ r.rc = 0 => outcome' = "REPLACED" /\ Target' = Settled(r.idx, rec)
            /\ r.rc # 0 => outcome' \in {"NOOP", "LOST"} /\ Target' = r.idx
      BY <1>3, InsertTarget DEF InsertOverImputed
    <2>2. UNCHANGED <<rec, seen, applied, touched, failed>> /\ pc' \in {"idle", "scan"}
      BY <1>3, InsertTarget DEF InsertOverImputed
    <2>3. ranges = seen /\ IsImputed(seen, rec.key) /\ Held(seen, rec.key) /\ Differing
      BY <1>3, <2>2 DEF InsertOverImputed, OnItsWay, Undisturbed, IsImputed
    <2>4. r.rc \in {0, 4}
      BY <2>3 DEF Inserting, InsertRange, Answer, IsAsserted, IsImputed
    <2>5. r.rc # 0 => outcome' = "LOST"
      BY <2>1, <2>4 DEF InsertOutcome, Lost
    <2>6. Result(outcome', Target') \in ApplyOverImputed(seen, rec)
      BY <2>1, <2>3, <2>5 DEF ApplyOverImputed
    <2>7. AtomicApply(seen, rec) = ApplyOverImputed(seen, rec)
      BY <2>3 DEF AtomicApply, Differing
    <2> QED
      BY <2>2, <2>6, <2>7 DEF OnItsWay
  <1>4. CASE RemoveAsserted
    <2>1. UNCHANGED <<rec, seen, applied, touched, failed>> /\ pc' = "reinsert"
      BY <1>4 DEF RemoveAsserted, WriteFrame
    <2>2. ranges = seen /\ Differing
      BY <1>4, <2>1 DEF RemoveAsserted, OnItsWay, Undisturbed
    <2> QED
      BY <1>4, <2>1, <2>2 DEF RemoveAsserted, OnItsWay, Differing, Held, IsAsserted
  <1>5. CASE InsertAfterRemove
    <2>1. PICK r \in Inserting(ranges, rec) :
            /\ r.rc \in 0..4 /\ outcome' = InsertOutcome("REPLACED", "INSERT_AFTER_REMOVE", r.rc)
            /\ r.rc = 0 => outcome' = "REPLACED" /\ Target' = Settled(r.idx, rec)
            /\ r.rc # 0 => outcome' \in {"NOOP", "LOST"} /\ Target' = r.idx
      BY <1>5, InsertTarget DEF InsertAfterRemove
    <2>2. UNCHANGED <<rec, seen, applied, touched, failed>> /\ pc' \in {"idle", "scan"}
      BY <1>5, InsertTarget DEF InsertAfterRemove
    <2>3. ranges = RemoveRange(seen, rec.key) /\ IsAsserted(seen, rec.key) /\ Differing
      BY <1>5, <2>2 DEF InsertAfterRemove, OnItsWay, Undisturbed
    <2>4. ~Held(ranges, rec.key) /\ Held(seen, rec.key) /\ ~IsImputed(seen, rec.key)
      BY <2>3, RecordFields DEF RemoveRange, Held, IsAsserted, IsImputed, TypeOK
    <2>5. r.rc # 0 => r.rc = 3 /\ r.idx = ranges
      BY <2>4 DEF Inserting, InsertRange, Answer, IsAsserted, IsImputed
    <2>6. r.rc # 0 => outcome' = "LOST"
      BY <2>1, <2>5 DEF InsertOutcome, Lost
    <2>7. Result(outcome', Target') \in ApplyOverAsserted(seen, rec)
      BY <2>1, <2>3, <2>5, <2>6 DEF ApplyOverAsserted
    <2>8. AtomicApply(seen, rec) = ApplyOverAsserted(seen, rec)
      BY <2>3, <2>4 DEF AtomicApply, Differing
    <2> QED
      BY <2>2, <2>7, <2>8 DEF OnItsWay
  <1> QED
    BY <1>1, <1>2, <1>3, <1>4, <1>5 DEF Write

\* The pruning takes away what is left to take, an entry at a time.
LEMMA PruneOnItsWay ==
  ASSUME ScanSeesAll, TypeOK, TypeOK', DoomedOfPair, OnItsWay, Prune
  PROVE  OnItsWay'
  <1> DEFINE redundant == RedundantOf(ranges, Reverse(rec.key))
  <1>1. /\ ranges \in Index /\ rec.key \in Key /\ PruneKey \in Key /\ pass \in {1, 2}
        /\ Reverse(rec.key) \in Key /\ doomed \subseteq Key /\ rec.key.from # rec.key.to
    BY RecordFields, ReverseIsKey DEF TypeOK, PruneKey, Record
  <1>2. CASE ScanFails \/ PruneRemoveFails
    BY <1>2 DEF ScanFails, PruneRemoveFails, OnItsWay, Undisturbed
  <1>3. CASE Scan
    <2>1. doomed' = RedundantOf(ranges, PruneKey) /\ pc = "scan"
      BY <1>1, <1>3, ScanFinds DEF Scan
    <2>2. UNCHANGED <<rec, seen, outcome, applied, touched, failed, ranges>>
      BY <1>3 DEF Scan, PruneFrame
    <2>3. Left' = Left
      <3>1. CASE pass = 1 /\ doomed' = {}
        BY <1>3, <2>1, <2>2, <3>1 DEF Scan, EndPass, Left, PruneKey
      <3>2. CASE pass = 2 /\ doomed' = {}
        BY <1>3, <2>1, <2>2, <3>2 DEF Scan, EndPass, Left
      <3>3. CASE doomed' # {}
        BY <1>3, <2>1, <2>2, <3>3 DEF Scan, Left
      <3> QED
        BY <1>1, <3>1, <3>2, <3>3
    <2>4. pc' \in {"idle", "scan", "prune"}
      BY <1>3 DEF Scan, EndPass
    <2> QED
      BY <2>1, <2>2, <2>3, <2>4 DEF OnItsWay, Undisturbed, Target
  <1>4. CASE PruneRemoves
    <2>1. PICK k \in doomed : NextDoomed(k) /\ ranges' = RemoveRange(ranges, k)
      BY <1>4 DEF PruneRemoves
    <2>2. UNCHANGED <<rec, seen, outcome, applied, touched, failed>>
      BY <1>4, <2>1 DEF PruneRemoves, NextDoomed, PruneFrame
    <2>3. pc = "prune" /\ doomed' = doomed \ {k} /\ SamePair(k, PruneKey) /\ ~Canonical(k)
      BY <2>1 DEF NextDoomed, DoomedOfPair
    <2>4. ranges' = Without(ranges, {k})
      BY <1>1, <2>1, <2>3, RemoveAlone
    <2>5. Left = {k} \cup Left' /\ pc' \in {"idle", "scan", "prune"}
      <3>1. CASE pass = 1
        <4>1. ~SamePair(k, Reverse(rec.key))
          BY <1>1, <2>3, <3>1 DEF PruneKey, SamePair, Reverse
        <4>2. RedundantOf(ranges', Reverse(rec.key)) = redundant
          BY <1>1, <2>4, <4>1, OtherPairs
        <4>3. Left = doomed \cup redundant
          BY <2>3, <3>1 DEF Left
        <4>4. CASE doomed' = {}
          <5>1. pc' = "scan" /\ PruneKey' = Reverse(rec.key) /\ pass' = 2
            BY <2>1, <2>2, <3>1, <4>4 DEF NextDoomed, EndPass, PruneKey
          <5>2. Left' = redundant
            BY <2>2, <4>2, <5>1 DEF Left
          <5> QED
            BY <2>3, <4>3, <4>4, <5>1, <5>2
        <4>5. CASE doomed' # {}
          <5>1. pc' = "prune" /\ pass' = 1
            BY <2>1, <2>3, <3>1, <4>5 DEF NextDoomed
          <5>2. Left' = doomed' \cup redundant
            BY <2>2, <4>2, <5>1 DEF Left
          <5> QED
            BY <2>3, <4>3, <5>1, <5>2
        <4> QED
          BY <4>4, <4>5
      <3>2. CASE pass = 2
        <4>1. Left = doomed
          BY <2>3, <3>2 DEF Left
        <4>2. pc' \in {"idle", "prune"} /\ (pc' = "prune" => pass' = 2)
          BY <2>1, <2>3, <3>2 DEF NextDoomed, EndPass
        <4>3. Left' = doomed'
          BY <4>2 DEF Left
        <4> QED
          BY <2>3, <4>1, <4>2, <4>3
      <3> QED
        BY <1>1, <3>1, <3>2
    <2>6. Left' \subseteq Key
      BY <1>1, <2>3, <2>5 DEF Left, RedundantOf
    <2>7. Target' = Target
      BY <1>1, <2>4, <2>5, <2>6, WithoutTwice DEF Target
    <2> QED
      BY <2>2, <2>3, <2>5, <2>7 DEF OnItsWay, Undisturbed
  <1> QED
    BY <1>2, <1>3, <1>4 DEF Prune

\* A write of somebody else that changes anything is a disturbance.
LEMMA OthersOnItsWay ==
  ASSUME TypeOK, TypeOK', OnItsWay, Dies \/ Operator \/ UNCHANGED vars
  PROVE  OnItsWay'
  <1>1. CASE Dies
    BY <1>1 DEF Dies, OnItsWay, Undisturbed
  <1>2. CASE Operator \/ UNCHANGED vars
    <2> SUFFICES ASSUME touched' = {} PROVE OnItsWay'
      BY DEF OnItsWay, Undisturbed
    <2>1. UNCHANGED local
      BY <1>2 DEF Operator, OperatorAsserts, OperatorRemoves, vars
    <2>2. touched = {} /\ \A k \in Key : ranges'[k] = ranges[k]
      BY <1>2 DEF Operator, OperatorAsserts, OperatorRemoves, vars, Changed
    <2>3. ranges' = ranges
      BY <2>2 DEF TypeOK, Index
    <2>4. Target' = Target
      BY <2>1, <2>3 DEF Target, Left, PruneKey, local
    <2> QED
      BY <2>1, <2>2, <2>3, <2>4 DEF OnItsWay, Undisturbed, Differing, local
  <1> QED
    BY <1>1, <1>2

\* ionc_apply_range keeps its promise: a call that nobody disturbs and in which
\* ION does not fail changes the index as one of the atomic changes of
\* RangePromise and returns its outcome.  It does so as long as no pair can
\* have more entries than IONC_MAX_PRUNE_SCAN.
THEOREM CallsAreAtomic ==
  ASSUME IsFiniteSet(Time), Cardinality(Time) <= MaxScan
  PROVE  Spec => []ApplyIsAtomic
  <1> ScanSeesAll
    BY DEF ScanSeesAll
  <1>1. Init => DoomedOfPair /\ OnItsWay
    BY ApplyAssumption DEF Init, DoomedOfPair, OnItsWay, Undisturbed
  <1>2. /\ TypeOK /\ TypeOK' /\ OnlyReversesImputed /\ DoomedOfPair /\ OnItsWay /\ [Next]_vars
        => DoomedOfPair' /\ OnItsWay'
    <2> SUFFICES ASSUME TypeOK, TypeOK', OnlyReversesImputed, DoomedOfPair, OnItsWay, [Next]_vars
                 PROVE  DoomedOfPair' /\ OnItsWay'
      OBVIOUS
    <2>1. DoomedOfPair'
      BY DoomedKept
    <2>2. OnItsWay'
      BY LookupOnItsWay, WriteOnItsWay, PruneOnItsWay, OthersOnItsWay DEF Next, Dtnex
    <2> QED
      BY <2>1, <2>2
  <1>3. TypeOK /\ DoomedOfPair /\ OnItsWay => ApplyIsAtomic
    <2> SUFFICES ASSUME TypeOK, DoomedOfPair, OnItsWay, Returned, touched = {}, ~failed
                 PROVE  Result(outcome, ranges) \in AtomicApply(seen, rec)
      BY DEF ApplyIsAtomic
    <2>1. Result(outcome, Target) \in AtomicApply(seen, rec)
      BY DEF OnItsWay, Undisturbed, Returned
    <2>2. Left = {}
      BY DEF Left, DoomedOfPair, Returned
    <2>3. Target = ranges
      BY <2>2, WithoutTwice DEF Target, TypeOK
    <2> QED
      BY <2>1, <2>3
  <1> QED
    BY <1>1, <1>2, <1>3, TypeCorrect, ReversesOnly, PTL DEF Spec

-----------------------------------------------------------------------------
(* Nothing redundant, whoever else writes.                                 *)

\* The directions that have been scanned after a successful insertion.
Scanned(k) ==
  \/ SamePair(k, rec.key) /\ (pc \in {"idle", "prune"} \/ pass = 2)
  \/ SamePair(k, Reverse(rec.key)) /\ (pc = "idle" \/ (pc = "prune" /\ pass = 2))

\* What is redundant in a scanned direction and was left by nobody else is still
\* to be removed.
CondemnedIfRedundant ==
  outcome \in {"INSERTED", "REPLACED"} /\ ~failed =>
    \A k, l \in Key \ touched :
      /\ SamePair(k, l) /\ Scanned(k)
      /\ IsImputed(ranges, k) /\ IsAsserted(ranges, l)
      => ~Overlap(ranges, k, l) \/ k \in doomed

\* The pruning: a scan condemns what is redundant, the loop removes it.
LEMMA PruneCondemns ==
  ASSUME ScanSeesAll, TypeOK, DoomedOfPair, CondemnedIfRedundant, Prune
  PROVE  CondemnedIfRedundant'
  <1>1. /\ ranges \in Index /\ rec.key \in Key /\ PruneKey \in Key /\ pass \in {1, 2}
        /\ doomed \subseteq Key /\ touched' = touched /\ rec' = rec /\ outcome' = outcome
    BY RecordFields, ReverseIsKey
       DEF TypeOK, PruneKey, Prune, Scan, ScanFails, PruneRemoves, PruneRemoveFails,
           NextDoomed, PruneFrame
  <1>2. CASE ScanFails \/ PruneRemoveFails
    BY <1>2 DEF ScanFails, PruneRemoveFails, CondemnedIfRedundant
  <1> SUFFICES ASSUME Scan \/ PruneRemoves, outcome \in {"INSERTED", "REPLACED"}, ~failed',
                      NEW k \in Key \ touched, NEW l \in Key \ touched,
                      SamePair(k, l), Scanned(k)',
                      IsImputed(ranges', k), IsAsserted(ranges', l), Overlap(ranges', k, l)
               PROVE  k \in doomed'
    BY <1>1, <1>2 DEF CondemnedIfRedundant, Prune, IsImputed, IsAsserted, Held, Overlap, SamePair
  <1>3. CASE Scan
    <2>1. doomed' = RedundantOf(ranges, PruneKey) /\ ranges' = ranges /\ pc = "scan" /\ ~failed
      BY <1>1, <1>3, ScanFinds DEF Scan
    <2>2. CASE SamePair(k, PruneKey)
      BY <1>1, <2>1, <2>2 DEF RedundantOf, SamePair
    <2>3. CASE ~SamePair(k, PruneKey)
      <3>1. pass = 2 /\ SamePair(k, rec.key)
        BY <1>1, <1>3, <2>3 DEF Scan, EndPass, Scanned, PruneKey, SamePair, Reverse
      <3>2. Scanned(k)
        BY <3>1 DEF Scanned
      <3>3. k \in doomed
        BY <2>1, <3>2 DEF CondemnedIfRedundant
      <3> QED
        BY <2>1, <3>3 DEF DoomedOfPair
    <2> QED
      BY <2>2, <2>3
  <1>4. CASE PruneRemoves
    <2>1. PICK j \in doomed : NextDoomed(j) /\ ranges' = RemoveRange(ranges, j) /\ failed' = failed
      BY <1>4 DEF PruneRemoves
    <2>2. /\ IsImputed(ranges, k) /\ ranges'[k] = ranges[k]
          /\ IsAsserted(ranges, l) /\ ranges'[l] = ranges[l]
      BY <1>1, <2>1, RemoveImputesNothing
    <2>3. Overlap(ranges, k, l)
      BY <2>2 DEF Overlap
    <2>4. Scanned(k)
      BY <1>1, <2>1 DEF NextDoomed, EndPass, Scanned, SamePair, Reverse
    <2>5. k \in doomed
      BY <2>1, <2>2, <2>3, <2>4 DEF CondemnedIfRedundant
    <2>6. k # j
      BY <1>1, <2>1, RemoveFrame DEF IsImputed, Held
    <2> QED
      BY <2>1, <2>5, <2>6 DEF NextDoomed
  <1> QED
    BY <1>3, <1>4

\* The other steps leave nothing scanned or change touched entries only.
LEMMA OthersCondemn ==
  ASSUME TypeOK, OutcomeOfStage, DoomedOfPair, CondemnedIfRedundant,
         Lookup \/ Write \/ Dies \/ Operator \/ UNCHANGED vars
  PROVE  CondemnedIfRedundant'
  <1>1. CASE Lookup \/ Dies
    BY <1>1 DEF Lookup, LookupIdentical, LookupDiffers, LookupFails, Dies, CondemnedIfRedundant
  <1>2. CASE WriteFails \/ RemoveRefused \/ RemoveAsserted
    BY <1>2 DEF WriteFails, RemoveRefused, RemoveAsserted, WriteFrame, Finish, OutcomeOfStage,
                CondemnedIfRedundant
  <1>3. ASSUME NEW ok, NEW site, insertRange(ok, site) PROVE CondemnedIfRedundant'
    BY <1>3, InsertStep DEF CondemnedIfRedundant, Scanned
  <1>4. CASE Operator \/ UNCHANGED vars
    <2>1. UNCHANGED local /\ touched \subseteq touched'
      BY <1>4 DEF Operator, OperatorAsserts, OperatorRemoves, vars
    <2>2. \A k \in Key \ touched' : ranges'[k] = ranges[k]
      BY <1>4 DEF Operator, OperatorAsserts, OperatorRemoves, vars, Changed
    <2>3. \A k \in Key : Scanned(k)' <=> Scanned(k)
      BY <2>1 DEF local, Scanned, SamePair, Reverse
    <2> QED
      BY <2>1, <2>2, <2>3 DEF CondemnedIfRedundant, local, IsImputed, IsAsserted, Held, Overlap,
                              SamePair
  <1> QED
    BY <1>1, <1>2, <1>3, <1>4
       DEF Write, InsertOverNothing, InsertOverImputed, InsertAfterRemove

\* After a successful call in which ION refused nothing, no imputed range
\* survives where an asserted one of the same pair overlaps it, in either
\* direction, except by what others wrote during the call.  Again it takes
\* that no pair can have more entries than IONC_MAX_PRUNE_SCAN.
THEOREM NothingRedundantIsLeft ==
  ASSUME IsFiniteSet(Time), Cardinality(Time) <= MaxScan
  PROVE  Spec => []NoRedundantImputed
  <1> ScanSeesAll
    BY DEF ScanSeesAll
  <1>1. Init => DoomedOfPair /\ CondemnedIfRedundant
    BY DEF Init, DoomedOfPair, CondemnedIfRedundant
  <1>2. /\ TypeOK /\ OutcomeOfStage /\ OnlyReversesImputed /\ DoomedOfPair
        /\ CondemnedIfRedundant /\ [Next]_vars
        => DoomedOfPair' /\ CondemnedIfRedundant'
    <2> SUFFICES ASSUME TypeOK, OutcomeOfStage, OnlyReversesImputed, DoomedOfPair,
                        CondemnedIfRedundant, [Next]_vars
                 PROVE  DoomedOfPair' /\ CondemnedIfRedundant'
      OBVIOUS
    <2>1. DoomedOfPair'
      BY DoomedKept
    <2>2. CondemnedIfRedundant'
      BY PruneCondemns, OthersCondemn DEF Next, Dtnex
    <2> QED
      BY <2>1, <2>2
  <1>3. IInv => TypeOK /\ OutcomeOfStage
    BY DEF IInv
  <1>4. DoomedOfPair /\ CondemnedIfRedundant => NoRedundantImputed
    BY DEF DoomedOfPair, CondemnedIfRedundant, NoRedundantImputed, Returned, Scanned
  <1> QED
    BY <1>1, <1>2, <1>3, <1>4, Inductive, ReversesOnly, PTL DEF Spec

-----------------------------------------------------------------------------
(* The order of the announcements: for any receivers, any number of        *)
(* compatible announcements, and whatever ION's overlap scan counts.       *)
(*                                                                         *)
(* The announcements in flight at the beginning appear in no variable, so  *)
(* the invariant says that some set of them explains every index: what a   *)
(* receiver has learned is what it no longer awaits of that set.           *)

\* A receiver has learned the records of L; U are those it did not come to assert.

\* Its asserted entries are records it learned, and the canonical ones are all there.
AssertedAreLearned(idx, L) ==
  /\ \A k \in Key : IsAsserted(idx, k) => \E r \in L : r.key = k /\ Asserts(idx, r)
  /\ \A r \in L : Canonical(r.key) => Asserts(idx, r)

ImputedEntry(r) == [toTime |-> r.toTime, owlt |-> r.owlt, asserted |-> FALSE]

\* Its imputed entries are the reverses of canonical records it learned.
ImputedAreReverses(idx, L) ==
  \A k \in Key : IsImputed(idx, k) =>
    \E c \in L : Canonical(c.key) /\ k = Reverse(c.key) /\ idx[k] = ImputedEntry(c)

\* No imputed entry has survived an asserted one of its pair.
NothingRedundant(idx) ==
  \A k, l \in Key :
    SamePair(k, l) /\ IsImputed(idx, k) /\ IsAsserted(idx, l) => ~Overlap(idx, k, l)

\* A canonical record gives its reverse, unless a record of that pair meets it.
ReversesAreGiven(idx, L) ==
  \A c \in L : Canonical(c.key) =>
    \/ idx[Reverse(c.key)] = ImputedEntry(c)
    \/ \E s \in L : SamePair(s.key, Reverse(c.key)) /\ Meets(c, s)

RestIsUnstored(idx, L, U) == U \subseteq L /\ \A r \in L : Asserts(idx, r) \/ r \in U

Explained(idx, L, U) ==
  /\ idx \in Index
  /\ AssertedAreLearned(idx, L)
  /\ ImputedAreReverses(idx, L)
  /\ NothingRedundant(idx)
  /\ ReversesAreGiven(idx, L)
  /\ RestIsUnstored(idx, L, U)

\* Some announcements, compatible with one another, explain every index.
OrderInv ==
  /\ index \in [Receiver -> Index]
  /\ pending \in [Receiver -> SUBSET Announcement]
  /\ unstored \in [Receiver -> SUBSET Announcement]
  /\ \E S \in SUBSET Announcement :
       /\ Compatible(S)
       /\ \A n \in Receiver :
            pending[n] \subseteq S /\ Explained(index[n], S \ pending[n], unstored[n])

-----------------------------------------------------------------------------
(* Records and keys.                                                       *)

\* A record's key and its reverse are keys, and its window is not empty.
LEMMA RecordShape ==
  ASSUME NEW r \in Announcement
  PROVE  /\ r.key \in Key /\ Reverse(r.key) \in Key
         /\ r.toTime \in Time /\ r.owlt \in Owlt
         /\ r.key.fromTime \in Nat /\ r.toTime \in Nat /\ r.key.fromTime < r.toTime
         /\ r = [key |-> r.key, toTime |-> r.toTime, owlt |-> r.owlt]
BY IndexAssumption DEF Announcement, Key, Reverse, IndexAssumption

\* Reversing twice gives the key back, and only one of the two is canonical.
LEMMA Reversal ==
  ASSUME NEW k \in Key
  PROVE  /\ Reverse(k) \in Key /\ Reverse(Reverse(k)) = k
         /\ Canonical(k) => ~Canonical(Reverse(k))
         /\ \A l \in Key : Reverse(k) = l => k = Reverse(l)
<1>1. k.from \in Nat /\ k.to \in Nat /\ k \in [from: Node, to: Node, fromTime: Time]
  BY IndexAssumption DEF Key, IndexAssumption
<1>2. QED
  BY <1>1 DEF Key, Reverse, Canonical

\* Two compatible records of one pair are the same, or do not collide.
LEMMA Apart ==
  ASSUME NEW S \in SUBSET Announcement, Compatible(S), NEW r \in S, NEW s \in S,
         SamePair(r.key, s.key), r # s
  PROVE  /\ ~(s.key.fromTime < r.toTime /\ r.key.fromTime < s.toTime)
         /\ r.key # s.key
<1>1. r.toTime <= s.key.fromTime \/ s.toTime <= r.key.fromTime
  BY DEF Compatible
<1>2. QED
  BY <1>1, RecordShape

\* The entries a record can give.
LEMMA EntryShape ==
  ASSUME NEW r \in Announcement, NEW e, e = [toTime |-> r.toTime, owlt |-> r.owlt, asserted |-> TRUE]
  PROVE  /\ e \in Entry /\ ImputedEntry(r) \in Entry
         /\ e # NoRange /\ ImputedEntry(r) # NoRange
         /\ [e EXCEPT !.asserted = FALSE] = ImputedEntry(r)
<1>1. e \in Entry /\ ImputedEntry(r) \in Entry
  BY RecordShape DEF Entry, ImputedEntry
<1>2. e # NoRange /\ ImputedEntry(r) # NoRange
  BY <1>1, IndexAssumption DEF IndexAssumption
<1> DEFINE f == [e EXCEPT !.asserted = FALSE]
<1>3. f \in Entry /\ f.toTime = e.toTime /\ f.owlt = e.owlt /\ f.asserted = FALSE
  BY <1>1 DEF Entry
<1> HIDE DEF f
<1>4. f = [toTime |-> e.toTime, owlt |-> e.owlt, asserted |-> FALSE]
  BY <1>3 DEF Entry
<1>5. QED
  BY <1>1, <1>2, <1>4 DEF f, ImputedEntry

-----------------------------------------------------------------------------
(* A successful insertion.                                                 *)

\* The entries after the insertion itself.
LEMMA StoredEntries ==
  ASSUME NEW idx \in Index, NEW r \in Announcement, ~IsAsserted(idx, r.key), NEW mid,
         mid = Stored(idx, r.key, r.toTime, r.owlt)
  PROVE  /\ mid \in Index
         /\ Asserts(mid, r)
         /\ \A l \in Key : IsAsserted(mid, l) <=> l = r.key \/ IsAsserted(idx, l)
         /\ \A l \in Key : Held(idx, l) /\ l # r.key => mid[l] = idx[l]
         /\ \A l \in Key : IsImputed(mid, l) =>
              /\ l # r.key
              /\ \/ IsImputed(idx, l) /\ mid[l] = idx[l]
                 \/ Canonical(r.key) /\ l = Reverse(r.key) /\ mid[l] = ImputedEntry(r)
         /\ Canonical(r.key) /\ ~Held(idx, Reverse(r.key)) /\ Reverse(r.key) # r.key
              => mid[Reverse(r.key)] = ImputedEntry(r)
<1> DEFINE e == [toTime |-> r.toTime, owlt |-> r.owlt, asserted |-> TRUE]
<1>1. e \in Entry /\ ImputedEntry(r) \in Entry /\ e # NoRange /\ ImputedEntry(r) # NoRange
  BY EntryShape
<1>2. [e EXCEPT !.asserted = FALSE] = ImputedEntry(r)
  BY EntryShape
<1>3. mid = [l \in Key |-> IF l = r.key THEN e
                           ELSE IF Canonical(r.key) /\ l = Reverse(r.key) /\ ~Held(idx, l)
                                THEN ImputedEntry(r) ELSE idx[l]]
  BY <1>2 DEF Stored
<1>4. mid \in Index
  BY <1>1, <1>3 DEF Index
<1>5. e.asserted /\ ~ImputedEntry(r).asserted
  BY DEF ImputedEntry
<1>6. r.key \in Key /\ Reverse(r.key) \in Key
  BY RecordShape
<1>7. Asserts(mid, r)
  BY <1>3, <1>6 DEF Asserts
<1>8. \A l \in Key : mid[l] = IF l = r.key THEN e
                           ELSE IF Canonical(r.key) /\ l = Reverse(r.key) /\ ~Held(idx, l)
                                THEN ImputedEntry(r) ELSE idx[l]
  BY <1>3
<1> HIDE DEF e
<1>9. QED
  BY <1>1, <1>4, <1>5, <1>6, <1>7, <1>8 DEF IsAsserted, IsImputed, Held

\* The entries after the pruning: an entry that goes is imputed, and an asserted
\* one of its pair overlaps it.
LEMMA SettledEntries ==
  ASSUME NEW mid \in Index, NEW r \in Announcement, NEW fin, fin = Settled(mid, r)
  PROVE  /\ fin \in Index
         /\ \A l \in Key : IsAsserted(fin, l) <=> IsAsserted(mid, l)
         /\ \A l \in Key : IsAsserted(mid, l) \/ Held(fin, l) => fin[l] = mid[l]
         /\ \A l \in Key : fin[l] # mid[l] =>
              \E s \in Key : SamePair(s, l) /\ IsAsserted(mid, s) /\ Overlap(mid, l, s)
         /\ \A k, l \in Key :
              /\ SamePair(k, r.key) \/ SamePair(k, Reverse(r.key))
              /\ SamePair(k, l) /\ IsImputed(fin, k) /\ IsAsserted(mid, l)
              => ~Overlap(mid, k, l)
<1> DEFINE gone == RedundantOf(mid, r.key) \cup RedundantOf(mid, Reverse(r.key))
<1>1. fin = [l \in Key |-> IF l \in gone THEN NoRange ELSE mid[l]]
  BY DEF Settled, Without
<1>2. \A l \in Key : l \in gone <=>
        /\ SamePair(l, r.key) \/ SamePair(l, Reverse(r.key))
        /\ IsImputed(mid, l)
        /\ \E s \in Key : SamePair(s, l) /\ IsAsserted(mid, s) /\ Overlap(mid, l, s)
  BY DEF RedundantOf, SamePair
<1> HIDE DEF gone
<1>3. fin \in Index
  BY <1>1 DEF Index
<1>4. \A l \in Key : fin[l] = IF l \in gone THEN NoRange ELSE mid[l]
  BY <1>1
<1>5. \A l \in Key : l \in gone => ~IsAsserted(mid, l)
  BY <1>2 DEF IsImputed, IsAsserted
<1>6. \A l \in Key : IsAsserted(fin, l) <=> IsAsserted(mid, l)
  BY <1>4, <1>5 DEF IsAsserted, Held
<1>7. \A l \in Key : IsAsserted(mid, l) \/ Held(fin, l) => fin[l] = mid[l]
  BY <1>4, <1>5 DEF Held
<1>8. \A l \in Key : fin[l] # mid[l] =>
        \E s \in Key : SamePair(s, l) /\ IsAsserted(mid, s) /\ Overlap(mid, l, s)
  BY <1>2, <1>4
<1>9. ASSUME NEW k \in Key, NEW l \in Key,
             SamePair(k, r.key) \/ SamePair(k, Reverse(r.key)),
             SamePair(k, l), IsImputed(fin, k), IsAsserted(mid, l), Overlap(mid, k, l)
      PROVE  FALSE
  <2>1. fin[k] = mid[k] /\ IsImputed(mid, k)
    BY <1>7, <1>9 DEF IsImputed, Held
  <2>2. SamePair(l, k)
    BY <1>9 DEF SamePair
  <2>3. k \in gone
    BY <1>2, <1>9, <2>1, <2>2
  <2>4. QED
    BY <1>4, <1>9, <2>3 DEF IsImputed, Held
<1>10. QED
  BY <1>3, <1>6, <1>7, <1>8, <1>9

\* A record that is inserted, by itself or over an imputed entry, is explained
\* with the others.
LEMMA InsertedIsExplained ==
  ASSUME NEW S \in SUBSET Announcement, Compatible(S), NEW L \in SUBSET S, NEW U,
         NEW idx, Explained(idx, L, U), NEW r \in S, r \notin L,
         ~IsAsserted(idx, r.key),
         NEW fin, fin = Settled(Stored(idx, r.key, r.toTime, r.owlt), r)
  PROVE  Explained(fin, L \cup {r}, U) /\ Asserts(fin, r)
<1> DEFINE mid == Stored(idx, r.key, r.toTime, r.owlt)
<1>0. idx \in Index /\ r \in Announcement /\ r.key \in Key /\ Reverse(r.key) \in Key
  BY RecordShape DEF Explained
<1>1. /\ mid \in Index
      /\ Asserts(mid, r)
      /\ \A l \in Key : IsAsserted(mid, l) <=> l = r.key \/ IsAsserted(idx, l)
      /\ \A l \in Key : Held(idx, l) /\ l # r.key => mid[l] = idx[l]
      /\ \A l \in Key : IsImputed(mid, l) =>
           /\ l # r.key
           /\ \/ IsImputed(idx, l) /\ mid[l] = idx[l]
              \/ Canonical(r.key) /\ l = Reverse(r.key) /\ mid[l] = ImputedEntry(r)
      /\ Canonical(r.key) /\ ~Held(idx, Reverse(r.key)) /\ Reverse(r.key) # r.key
           => mid[Reverse(r.key)] = ImputedEntry(r)
  BY <1>0, StoredEntries
<1> HIDE DEF mid
<1>2. fin = Settled(mid, r)
  BY DEF mid
<1>3. /\ fin \in Index
      /\ \A l \in Key : IsAsserted(fin, l) <=> IsAsserted(mid, l)
      /\ \A l \in Key : IsAsserted(mid, l) \/ Held(fin, l) => fin[l] = mid[l]
      /\ \A l \in Key : fin[l] # mid[l] =>
           \E s \in Key : SamePair(s, l) /\ IsAsserted(mid, s) /\ Overlap(mid, l, s)
      /\ \A k, l \in Key :
           /\ SamePair(k, r.key) \/ SamePair(k, Reverse(r.key))
           /\ SamePair(k, l) /\ IsImputed(fin, k) /\ IsAsserted(mid, l)
           => ~Overlap(mid, k, l)
  BY <1>0, <1>1, <1>2, SettledEntries
<1>4. \A l \in Key : IsAsserted(idx, l) => l # r.key /\ mid[l] = idx[l] /\ fin[l] = idx[l]
  BY <1>1, <1>3 DEF IsAsserted
<1>5. Asserts(fin, r) /\ IsAsserted(mid, r.key)
  BY <1>0, <1>1, <1>3 DEF Asserts
<1>6. \A s \in L : s \in Announcement /\ s.key \in Key
  BY RecordShape
<1>6a. \A s \in L : Asserts(idx, s) => IsAsserted(idx, s.key)
  <2>1. \A s \in L : [toTime |-> s.toTime, owlt |-> s.owlt, asserted |-> TRUE] # NoRange
    BY <1>6, EntryShape
  <2>2. QED
    BY <2>1 DEF Asserts, IsAsserted, Held
<1>7. \A s \in L : Asserts(idx, s) => Asserts(fin, s)
  BY <1>4, <1>6, <1>6a DEF Asserts
<1>8. AssertedAreLearned(fin, L \cup {r})
  <2>1. ASSUME NEW k \in Key, IsAsserted(fin, k)
        PROVE  \E s \in L \cup {r} : s.key = k /\ Asserts(fin, s)
    <3>1. CASE k = r.key
      BY <1>5, <3>1
    <3>2. CASE IsAsserted(idx, k)
      BY <1>7, <3>2 DEF Explained, AssertedAreLearned
    <3>3. QED
      BY <1>1, <1>3, <2>1, <3>1, <3>2
  <2>2. \A s \in L \cup {r} : Canonical(s.key) => Asserts(fin, s)
    BY <1>5, <1>7 DEF Explained, AssertedAreLearned
  <2>3. QED
    BY <2>1, <2>2 DEF AssertedAreLearned
<1>9. ImputedAreReverses(fin, L \cup {r})
  <2>1. SUFFICES ASSUME NEW k \in Key, IsImputed(fin, k)
                 PROVE  \E c \in L \cup {r} : /\ Canonical(c.key) /\ k = Reverse(c.key)
                                              /\ fin[k] = ImputedEntry(c)
    BY DEF ImputedAreReverses
  <2>2. fin[k] = mid[k] /\ IsImputed(mid, k)
    BY <1>3, <2>1 DEF IsImputed, Held
  <2>3. CASE IsImputed(idx, k) /\ mid[k] = idx[k]
    BY <2>2, <2>3 DEF Explained, ImputedAreReverses
  <2>4. CASE Canonical(r.key) /\ k = Reverse(r.key) /\ mid[k] = ImputedEntry(r)
    BY <2>2, <2>4
  <2>5. QED
    BY <1>1, <2>2, <2>3, <2>4
<1>10. NothingRedundant(fin)
  <2>1. SUFFICES ASSUME NEW k \in Key, NEW l \in Key, SamePair(k, l),
                        IsImputed(fin, k), IsAsserted(fin, l), Overlap(fin, k, l)
                 PROVE  FALSE
    BY DEF NothingRedundant
  <2>2. fin[k] = mid[k] /\ fin[l] = mid[l] /\ IsImputed(mid, k) /\ IsAsserted(mid, l)
    BY <1>3, <2>1 DEF IsImputed, Held
  <2>3. Overlap(mid, k, l)
    BY <2>1, <2>2 DEF Overlap
  <2>4. ~SamePair(k, r.key) /\ ~SamePair(k, Reverse(r.key))
    BY <1>3, <2>1, <2>2, <2>3
  <2>5. l # r.key /\ k # Reverse(r.key)
    BY <2>1, <2>4 DEF SamePair
  <2>6. IsImputed(idx, k) /\ mid[k] = idx[k] /\ IsAsserted(idx, l) /\ mid[l] = idx[l]
    BY <1>1, <1>4, <2>2, <2>5
  <2>7. Overlap(idx, k, l)
    BY <2>3, <2>6 DEF Overlap
  <2>8. QED
    BY <2>1, <2>6, <2>7 DEF Explained, NothingRedundant
<1>11. ReversesAreGiven(fin, L \cup {r})
  <2>1. SUFFICES ASSUME NEW c \in L \cup {r}, Canonical(c.key),
                        fin[Reverse(c.key)] # ImputedEntry(c)
                 PROVE  \E s \in L \cup {r} : SamePair(s.key, Reverse(c.key)) /\ Meets(c, s)
    BY DEF ReversesAreGiven
  <2> DEFINE k == Reverse(c.key)
  <2>2. c \in Announcement /\ c.key \in Key /\ k \in Key /\ Reverse(k) = c.key /\ k # c.key
    BY <1>0, <2>1, RecordShape, Reversal
  <2>3. c.key.fromTime \in Nat /\ c.toTime \in Nat /\ c.key.fromTime < c.toTime
        /\ k.fromTime = c.key.fromTime
    BY <2>2, RecordShape DEF Reverse
  <2>4. \A s \in L \cup {r} : s.key = k => SamePair(s.key, k) /\ Meets(c, s)
    <3>1. SUFFICES ASSUME NEW s \in L \cup {r}, s.key = k
                   PROVE  SamePair(s.key, k) /\ Meets(c, s)
      OBVIOUS
    <3>2. s.toTime \in Nat /\ s.key.fromTime < s.toTime
      BY <1>0, <1>6, RecordShape
    <3>3. SamePair(c.key, Reverse(s.key)) /\ SamePair(s.key, k)
      BY <2>2, <3>1 DEF SamePair
    <3>4. c.key.fromTime <= s.toTime /\ s.key.fromTime <= c.toTime
      BY <2>3, <3>1, <3>2
    <3>5. QED
      BY <3>3, <3>4 DEF Meets
  <2>5. CASE mid[k] = ImputedEntry(c)
    \* The reverse was there after the insertion, and was pruned.
    <3>1. PICK l \in Key : SamePair(l, k) /\ IsAsserted(mid, l) /\ Overlap(mid, k, l)
      BY <1>3, <2>1, <2>2, <2>5
    <3>2. PICK s \in L \cup {r} : s.key = l /\ Asserts(fin, s)
      BY <1>3, <1>8, <3>1 DEF AssertedAreLearned
    <3>3. fin[l] = mid[l] /\ mid[l].toTime = s.toTime /\ mid[k].toTime = c.toTime
      BY <1>3, <2>5, <3>1, <3>2 DEF Asserts, ImputedEntry
    <3>4. s.key.fromTime \in Nat /\ s.toTime \in Nat
      BY <1>0, <1>6, RecordShape
    <3>5. s.key.fromTime <= c.toTime /\ c.key.fromTime <= s.toTime
      BY <2>3, <3>1, <3>2, <3>3, <3>4 DEF Overlap
    <3>6. SamePair(c.key, Reverse(s.key))
      BY <2>2, <3>1, <3>2 DEF SamePair, Reverse
    <3>7. QED
      BY <3>1, <3>2, <3>5, <3>6 DEF Meets
  <2>6. CASE c \in L /\ mid[k] # ImputedEntry(c)
    <3>1. CASE idx[k] = ImputedEntry(c)
      \* The record was inserted over it.
      <4>1. Held(idx, k)
        BY <2>2, <3>1, EntryShape DEF Held
      <4>2. k = r.key
        BY <1>1, <2>2, <2>6, <3>1, <4>1
      <4>3. QED
        BY <2>4, <4>2
    <3>2. CASE idx[k] # ImputedEntry(c)
      BY <2>1, <2>6, <3>2 DEF Explained, ReversesAreGiven
    <3>3. QED
      BY <3>1, <3>2
  <2>7. CASE c = r /\ mid[k] # ImputedEntry(r)
    \* The reverse was already there: asserted, or the reverse of another record.
    <3>1. Held(idx, k) /\ k # r.key
      BY <1>1, <2>1, <2>2, <2>7
    <3>2. CASE IsAsserted(idx, k)
      <4>1. PICK s \in L : s.key = k
        BY <2>2, <3>2 DEF Explained, AssertedAreLearned
      <4>2. QED
        BY <2>4, <4>1
    <3>3. CASE IsImputed(idx, k)
      <4>1. PICK d \in L : k = Reverse(d.key)
        BY <2>2, <3>3 DEF Explained, ImputedAreReverses
      <4>2. d.key = r.key
        BY <1>6, <2>2, <2>7, <4>1, Reversal
      <4>3. d # r /\ d \in S /\ SamePair(r.key, d.key)
        BY <4>2 DEF SamePair
      <4>4. QED
        BY <4>2, <4>3, Apart
    <3>4. QED
      BY <3>1, <3>2, <3>3 DEF IsAsserted, IsImputed
  <2>8. QED
    BY <2>5, <2>6, <2>7
<1>12. RestIsUnstored(fin, L \cup {r}, U)
  BY <1>5, <1>7 DEF Explained, RestIsUnstored
<1>13. QED
  BY <1>3, <1>5, <1>8, <1>9, <1>10, <1>11, <1>12 DEF Explained

\* A compatible record that is not learned yet has no asserted entry under its
\* key, none at all if it is canonical, and then nothing blocks it.
LEMMA Unlearned ==
  ASSUME NEW S \in SUBSET Announcement, Compatible(S), NEW L \in SUBSET S, NEW U,
         NEW idx, Explained(idx, L, U), NEW r \in S, r \notin L
  PROVE  /\ ~IsAsserted(idx, r.key)
         /\ Canonical(r.key) => ~Held(idx, r.key) /\ ~Blocked(idx, r.key, r.toTime)
<1>0. r \in Announcement /\ r.key \in Key
  BY RecordShape
<1>1. \A s \in L : s.key # r.key
  BY Apart DEF SamePair
<1>2. ~IsAsserted(idx, r.key)
  BY <1>0, <1>1 DEF Explained, AssertedAreLearned
<1>3. \A k \in Key : Canonical(k) => ~IsImputed(idx, k)
  BY Reversal, RecordShape DEF Explained, ImputedAreReverses
<1>4. Canonical(r.key) => ~Held(idx, r.key)
  BY <1>0, <1>2, <1>3 DEF IsAsserted, IsImputed
<1>5. ASSUME Canonical(r.key), Blocked(idx, r.key, r.toTime)
      PROVE  FALSE
  <2>1. PICK l \in Key \ {r.key} : /\ SamePair(r.key, l)
                                   /\ Held(idx, l)
                                   /\ Collides(idx, l, r.key.fromTime, r.toTime)
    BY <1>5 DEF Blocked
  <2>2. Canonical(l)
    BY <1>5, <2>1 DEF SamePair, Canonical
  <2>3. PICK s \in L : s.key = l /\ Asserts(idx, s)
    BY <1>3, <2>1, <2>2 DEF IsAsserted, IsImputed, Explained, AssertedAreLearned
  <2>4. idx[l].toTime = s.toTime
    BY <2>3 DEF Asserts
  <2>5. s # r /\ s \in S /\ SamePair(r.key, s.key)
    BY <2>1, <2>3
  <2>6. s.key.fromTime < r.toTime /\ r.key.fromTime < s.toTime
    BY <2>1, <2>3, <2>4 DEF Collides
  <2>7. QED
    BY <2>5, <2>6, Apart
<1>6. QED
  BY <1>2, <1>4, <1>5

\* A record that leaves the index as it was, and is not canonical.
LEMMA IgnoredIsExplained ==
  ASSUME NEW S \in SUBSET Announcement, NEW L \in SUBSET S, NEW U,
         NEW idx, Explained(idx, L, U), NEW r \in S, ~Canonical(r.key),
         NEW V, V = IF Asserts(idx, r) THEN U ELSE U \cup {r}
  PROVE  Explained(idx, L \cup {r}, V)
<1>1. AssertedAreLearned(idx, L \cup {r}) /\ ImputedAreReverses(idx, L \cup {r})
  BY DEF Explained, AssertedAreLearned, ImputedAreReverses
<1>2. ReversesAreGiven(idx, L \cup {r})
  BY DEF Explained, ReversesAreGiven
<1>3. RestIsUnstored(idx, L \cup {r}, V)
  BY DEF Explained, RestIsUnstored
<1>4. QED
  BY <1>1, <1>2, <1>3 DEF Explained

\* A record that is lost over the imputed entry of its key.
LEMMA LostIsExplained ==
  ASSUME NEW S \in SUBSET Announcement, NEW L \in SUBSET S, NEW U,
         NEW idx, Explained(idx, L, U), NEW r \in S, ~Canonical(r.key),
         IsImputed(idx, r.key),
         NEW fin, fin = Dropped(idx, r.key)
  PROVE  Explained(fin, L \cup {r}, U \cup {r})
<1>0. r.key \in Key /\ idx \in Index
  BY RecordShape DEF Explained
<1>1. fin \in Index /\ \A k \in Key : fin[k] = IF k = r.key THEN NoRange ELSE idx[k]
  BY <1>0 DEF Dropped, Index
<1>2. \A k \in Key : /\ IsAsserted(fin, k) <=> IsAsserted(idx, k)
                     /\ IsImputed(fin, k) <=> k # r.key /\ IsImputed(idx, k)
  BY <1>0, <1>1 DEF IsAsserted, IsImputed, Held
<1>2a. \A s \in L : s \in Announcement /\ s.key \in Key
  BY RecordShape
<1>3. \A s \in L : Asserts(idx, s) => Asserts(fin, s)
  <2>1. \A s \in L : Asserts(idx, s) => s.key # r.key
    BY <1>0 DEF Asserts, IsImputed
  <2>2. QED
    BY <1>1, <1>2a, <2>1 DEF Asserts
<1>4. AssertedAreLearned(fin, L \cup {r})
  BY <1>2, <1>3 DEF Explained, AssertedAreLearned
<1>5. ImputedAreReverses(fin, L \cup {r})
  BY <1>1, <1>2 DEF Explained, ImputedAreReverses
<1>6. NothingRedundant(fin)
  <2>1. \A k \in Key : IsAsserted(fin, k) \/ IsImputed(fin, k) => fin[k] = idx[k]
    BY <1>1 DEF IsAsserted, IsImputed, Held
  <2>2. QED
    BY <1>2, <2>1 DEF Explained, NothingRedundant, Overlap
<1>7. ReversesAreGiven(fin, L \cup {r})
  <2>1. SUFFICES ASSUME NEW c \in L, Canonical(c.key), fin[Reverse(c.key)] # ImputedEntry(c)
                 PROVE  \E s \in L \cup {r} : SamePair(s.key, Reverse(c.key)) /\ Meets(c, s)
    BY DEF ReversesAreGiven
  <2>2. c.key \in Key /\ Reverse(c.key) \in Key
    BY <1>2a, RecordShape
  <2>3. CASE Reverse(c.key) = r.key
    <3>1. SamePair(r.key, Reverse(c.key)) /\ SamePair(c.key, Reverse(r.key))
      BY <2>2, <2>3, Reversal DEF SamePair
    <3>2. r.key.fromTime = c.key.fromTime
      BY <2>3 DEF Reverse
    <3>3. c.key.fromTime <= r.toTime /\ r.key.fromTime <= c.toTime
      BY <1>2a, <3>2, RecordShape
    <3>4. QED
      BY <3>1, <3>3 DEF Meets
  <2>4. CASE Reverse(c.key) # r.key
    BY <1>1, <2>1, <2>2, <2>4 DEF Explained, ReversesAreGiven
  <2>5. QED
    BY <2>3, <2>4
<1>8. RestIsUnstored(fin, L \cup {r}, U \cup {r})
  BY <1>3 DEF Explained, RestIsUnstored
<1>9. QED
  BY <1>1, <1>4, <1>5, <1>6, <1>7, <1>8 DEF Explained

\* Whatever ION makes of a record, the index is explained afterwards.
LEMMA ApplyIsExplained ==
  ASSUME NEW S \in SUBSET Announcement, Compatible(S), NEW L \in SUBSET S, NEW U,
         NEW idx, Explained(idx, L, U), NEW r \in S, r \notin L,
         NEW res \in AtomicApply(idx, r),
         NEW V, V = IF Asserts(res.idx, r) THEN U ELSE U \cup {r}
  PROVE  Explained(res.idx, L \cup {r}, V)
<1>0. r \in Announcement /\ r.key \in Key
  BY RecordShape
<1>1. /\ ~IsAsserted(idx, r.key)
      /\ Canonical(r.key) => ~Held(idx, r.key) /\ ~Blocked(idx, r.key, r.toTime)
  BY Unlearned
<1>2. CASE res.idx = Settled(Stored(idx, r.key, r.toTime, r.owlt), r)
  BY <1>1, <1>2, InsertedIsExplained
<1>3. CASE res.idx = idx /\ ~Canonical(r.key)
  BY <1>3, IgnoredIsExplained
<1>4. CASE res.idx = Dropped(idx, r.key) /\ IsImputed(idx, r.key)
  <2>1. ~Canonical(r.key)
    BY <1>1, <1>4 DEF IsImputed
  <2>2. ~Asserts(res.idx, r)
    <3>1. res.idx[r.key] = NoRange
      BY <1>0, <1>4 DEF Dropped, Explained, Index
    <3>2. QED
      BY <1>0, <3>1, EntryShape DEF Asserts
  <2>3. QED
    BY <1>4, <2>1, <2>2, LostIsExplained
<1> DEFINE new == Settled(Stored(idx, r.key, r.toTime, r.owlt), r)
<1>5. \A i \in Inserting(idx, r) :
        \/ i.rc = 0 /\ i.idx = Stored(idx, r.key, r.toTime, r.owlt)
        \/ i.rc = 3 /\ i.idx = idx /\ ~Held(idx, r.key) /\ Blocked(idx, r.key, r.toTime)
        \/ i.rc = 4 /\ i.idx = Dropped(idx, r.key) /\ IsImputed(idx, r.key)
  <2>1. SUFFICES ASSUME NEW i \in Inserting(idx, r)
                 PROVE \/ i.rc = 0 /\ i.idx = Stored(idx, r.key, r.toTime, r.owlt)
                       \/ i.rc = 3 /\ i.idx = idx /\ ~Held(idx, r.key)
                            /\ Blocked(idx, r.key, r.toTime)
                       \/ i.rc = 4 /\ i.idx = Dropped(idx, r.key) /\ IsImputed(idx, r.key)
    OBVIOUS
  <2>2. /\ i \in { Answer(0, Stored(idx, r.key, r.toTime, r.owlt)),
                   Answer(1, idx), Answer(2, idx), Answer(3, idx),
                   Answer(4, Dropped(idx, r.key)) }
        /\ \/ i.rc = 0
           \/ i.rc = 3 /\ ~Held(idx, r.key) /\ Blocked(idx, r.key, r.toTime)
           \/ i.rc = 4 /\ IsImputed(idx, r.key)
    BY <1>1 DEF Inserting, InsertRange
  <2>3. QED
    BY <2>2 DEF Answer
<1>6. CASE ~Held(idx, r.key)
  <2>1. PICK i \in Inserting(idx, r) :
          res = IF i.rc = 0 THEN Result("INSERTED", Settled(i.idx, r)) ELSE Result("NOOP", idx)
    BY <1>6 DEF AtomicApply, ApplyNew
  <2>2. i.rc = 0 => res.idx = Settled(i.idx, r)
    BY <2>1 DEF Result
  <2>3. i.rc # 0 => res.idx = idx
    BY <2>1 DEF Result
  <2>4. CASE i.rc = 0
    BY <1>2, <1>5, <2>2, <2>4
  <2>5. CASE i.rc # 0
    <3>1. Blocked(idx, r.key, r.toTime)
      BY <1>5, <1>6, <2>5 DEF IsImputed
    <3>2. QED
      BY <1>1, <1>3, <2>3, <2>5, <3>1
  <2>6. QED
    BY <2>4, <2>5
<1>7. CASE Held(idx, r.key) /\ idx[r.key].toTime = r.toTime /\ idx[r.key].owlt = r.owlt
  <2>1. res = Result("NOOP", idx)
    BY <1>7 DEF AtomicApply
  <2>2. res.idx = idx
    BY <2>1 DEF Result
  <2>3. QED
    BY <1>1, <1>3, <1>7, <2>2
<1>8. CASE Held(idx, r.key) /\ ~(idx[r.key].toTime = r.toTime /\ idx[r.key].owlt = r.owlt)
  <2>1. IsImputed(idx, r.key)
    BY <1>1, <1>8 DEF IsAsserted, IsImputed
  <2>2. PICK i \in Inserting(idx, r) :
          res = IF i.rc = 0 THEN Result("REPLACED", Settled(i.idx, r))
                            ELSE Result("LOST", i.idx)
    BY <1>8, <2>1 DEF AtomicApply, ApplyOverImputed
  <2>3. i.rc = 0 => res.idx = Settled(i.idx, r)
    BY <2>2 DEF Result
  <2>4. i.rc # 0 => res.idx = i.idx
    BY <2>2 DEF Result
  <2>5. CASE i.rc = 0
    BY <1>2, <1>5, <2>3, <2>5
  <2>6. CASE i.rc # 0
    BY <1>4, <1>5, <1>8, <2>1, <2>4, <2>6
  <2>7. QED
    BY <2>5, <2>6
<1>9. QED
  BY <1>6, <1>7, <1>8

-----------------------------------------------------------------------------
(* The receivers.                                                          *)

\* Nothing is learned at the beginning, and the empty indexes are explained.
LEMMA InitOrder == ASSUME OrderInit PROVE OrderInv
<1>1. PICK S \in SUBSET Announcement : Compatible(S) /\ pending = [n \in Receiver |-> S]
  BY DEF OrderInit
<1> DEFINE none == [k \in Key |-> NoRange]
<1>2. index = [n \in Receiver |-> none] /\ unstored = [n \in Receiver |-> {}]
  BY DEF OrderInit
<1>3. none \in Index /\ \A k \in Key : ~Held(none, k)
  BY DEF Index, Held
<1> HIDE DEF none
<1>4. Explained(none, {}, {})
  BY <1>3 DEF Explained, AssertedAreLearned, ImputedAreReverses, NothingRedundant,
     ReversesAreGiven, RestIsUnstored, IsAsserted, IsImputed
<1>5. \A n \in Receiver : S \ pending[n] = {} /\ index[n] = none /\ unstored[n] = {}
                          /\ pending[n] \subseteq S
  BY <1>1, <1>2
<1>6. \A n \in Receiver :
        pending[n] \subseteq S /\ Explained(index[n], S \ pending[n], unstored[n])
  BY <1>4, <1>5
<1>7. /\ index \in [Receiver -> Index] /\ pending \in [Receiver -> SUBSET Announcement]
      /\ unstored \in [Receiver -> SUBSET Announcement]
  BY <1>1, <1>2, <1>3
<1>8. QED
  BY <1>1, <1>6, <1>7 DEF OrderInv

\* Every reception keeps the indexes explained, by the same announcements.
LEMMA LearnOrder ==
  ASSUME OrderInv, NEW n \in Receiver, NEW r, Learn(n, r)
  PROVE  OrderInv'
<1>1. PICK S \in SUBSET Announcement :
        /\ Compatible(S)
        /\ \A m \in Receiver :
             pending[m] \subseteq S /\ Explained(index[m], S \ pending[m], unstored[m])
  BY DEF OrderInv
<1>2. PICK res \in AtomicApply(index[n], r) :
        /\ index' = [index EXCEPT ![n] = res.idx]
        /\ unstored' = [unstored EXCEPT ![n] =
             IF Asserts(res.idx, r) THEN @ ELSE @ \cup {r}]
  BY DEF Learn
<1>3. r \in pending[n] /\ pending' = [pending EXCEPT ![n] = @ \ {r}]
  BY DEF Learn
<1>4. r \in S /\ r \in Announcement /\ (S \ pending[n]) \in SUBSET S /\ r \notin S \ pending[n]
  BY <1>1, <1>3
<1> DEFINE V == IF Asserts(res.idx, r) THEN unstored[n] ELSE unstored[n] \cup {r}
<1>5. Explained(res.idx, (S \ pending[n]) \cup {r}, V)
  BY <1>1, <1>2, <1>4, ApplyIsExplained
<1>6. /\ index'[n] = res.idx /\ unstored'[n] = V /\ pending'[n] = pending[n] \ {r}
      /\ \A m \in Receiver \ {n} : /\ index'[m] = index[m] /\ unstored'[m] = unstored[m]
                                   /\ pending'[m] = pending[m]
  BY <1>2, <1>3 DEF OrderInv
<1>7. (S \ pending[n]) \cup {r} = S \ pending'[n] /\ pending'[n] \subseteq S
  BY <1>1, <1>4, <1>6
<1>8. ASSUME NEW m \in Receiver
      PROVE  pending'[m] \subseteq S /\ Explained(index'[m], S \ pending'[m], unstored'[m])
  <2>1. CASE m = n
    BY <1>5, <1>6, <1>7, <2>1
  <2>2. CASE m # n
    BY <1>1, <1>6, <2>2
  <2>3. QED
    BY <2>1, <2>2
<1>9. res.idx \in Index
  BY <1>5 DEF Explained
<1>10. /\ index' \in [Receiver -> Index] /\ pending' \in [Receiver -> SUBSET Announcement]
       /\ unstored' \in [Receiver -> SUBSET Announcement]
  BY <1>2, <1>3, <1>4, <1>9 DEF OrderInv
<1>11. QED
  BY <1>1, <1>8, <1>10 DEF OrderInv

\* In every reachable state some compatible announcements explain every index.
THEOREM OrderInductive == OrderSpec => []OrderInv
<1>1. OrderInit => OrderInv
  BY InitOrder
<1>2. OrderInv /\ [OrderNext]_orderVars => OrderInv'
  <2>1. ASSUME OrderInv, OrderNext PROVE OrderInv'
    BY <2>1, LearnOrder DEF OrderNext
  <2>2. ASSUME OrderInv, UNCHANGED orderVars PROVE OrderInv'
    BY <2>2 DEF orderVars, OrderInv
  <2>3. QED
    BY <2>1, <2>2
<1>3. QED
  BY <1>1, <1>2, PTL DEF OrderSpec

\* Whatever the order, the receivers hold the same canonical ranges.
THEOREM CanonicalAgreement == OrderSpec => []CanonicalIndependent
<1>1. OrderInv => CanonicalIndependent
  <2>1. SUFFICES ASSUME OrderInv, Drained, NEW m \in Receiver, NEW n \in Receiver,
                        NEW k \in Key, Canonical(k)
                 PROVE  index[m][k] = index[n][k]
    BY DEF CanonicalIndependent
  <2>2. PICK S \in SUBSET Announcement :
          \A q \in Receiver : Explained(index[q], S \ pending[q], unstored[q])
    BY <2>1 DEF OrderInv
  <2>3. \A q \in Receiver : S \ pending[q] = S
    BY <2>1 DEF Drained
  <2>4. \A q \in Receiver : Explained(index[q], S, unstored[q])
    BY <2>2, <2>3
  <2>5. \A q \in Receiver : ~IsImputed(index[q], k)
    BY <2>1, <2>4, RecordShape, Reversal DEF Explained, ImputedAreReverses
  <2>6. CASE \E s \in S : s.key = k
    <3>1. PICK s \in S : s.key = k
      BY <2>6
    <3>2. \A q \in Receiver : Asserts(index[q], s)
      BY <2>1, <2>4, <3>1 DEF Explained, AssertedAreLearned
    <3>3. QED
      BY <2>1, <3>1, <3>2 DEF Asserts
  <2>7. CASE ~\E s \in S : s.key = k
    <3>1. \A q \in Receiver : ~IsAsserted(index[q], k)
      BY <2>1, <2>4, <2>7 DEF Explained, AssertedAreLearned
    <3>2. QED
      BY <2>5, <3>1 DEF IsAsserted, IsImputed, Held
  <2>8. QED
    BY <2>6, <2>7
<1>2. QED
  BY <1>1, OrderInductive, PTL

\* Receivers of the same announcements know the same windows and light times,
\* but for ranges that meet one the ION of one of them did not come to assert.
THEOREM OrderHardlyMatters == OrderSpec => []OrderIndependentWhereAsserted
<1>1. OrderInv => OrderIndependentWhereAsserted
  <2>1. SUFFICES ASSUME OrderInv, Drained, NEW m \in Receiver, NEW n \in Receiver,
                        NEW r \in Known(index[m]) \ Known(index[n])
                 PROVE  \E s \in unstored[m] \cup unstored[n] : Meets(r, s)
    BY DEF OrderIndependentWhereAsserted
  <2>2. PICK S \in SUBSET Announcement :
          \A q \in Receiver : Explained(index[q], S \ pending[q], unstored[q])
    BY <2>1 DEF OrderInv
  <2>3. \A q \in Receiver : S \ pending[q] = S
    BY <2>1 DEF Drained
  <2>4. Explained(index[m], S, unstored[m]) /\ Explained(index[n], S, unstored[n])
    BY <2>2, <2>3
  <2>5. PICK k \in Key : /\ Held(index[m], k)
                         /\ r = [key |-> k, toTime |-> index[m][k].toTime,
                                 owlt |-> index[m][k].owlt]
    BY <2>1 DEF Known
  <2>6. r.key = k /\ r.toTime = index[m][k].toTime /\ r.owlt = index[m][k].owlt
    BY <2>5
  <2>7. CASE IsAsserted(index[m], k)
    <3>1. PICK s \in S : s.key = k /\ Asserts(index[m], s)
      BY <2>4, <2>7 DEF Explained, AssertedAreLearned
    <3>2. index[m][k].toTime = s.toTime /\ index[m][k].owlt = s.owlt
      BY <3>1 DEF Asserts
    <3>3. s = r
      BY <2>5, <3>1, <3>2, RecordShape
    <3>4. ~Asserts(index[n], s)
      <4>1. SUFFICES ASSUME Asserts(index[n], s) PROVE r \in Known(index[n])
        BY <2>1
      <4>2. Held(index[n], k)
        BY <3>1, <4>1, EntryShape DEF Held, Asserts
      <4>3. index[n][k].toTime = s.toTime /\ index[n][k].owlt = s.owlt
        BY <3>1, <4>1 DEF Asserts
      <4>4. QED
        BY <2>5, <3>2, <4>2, <4>3 DEF Known
    <3>5. s \in unstored[n]
      BY <2>4, <3>4 DEF Explained, RestIsUnstored
    <3>6. Meets(s, s)
      BY RecordShape DEF Meets, SamePair
    <3>7. QED
      BY <3>3, <3>5, <3>6
  <2>8. CASE IsImputed(index[m], k)
    <3>1. PICK c \in S : /\ Canonical(c.key) /\ k = Reverse(c.key)
                         /\ index[m][k] = ImputedEntry(c)
      BY <2>4, <2>8 DEF Explained, ImputedAreReverses
    <3>2. index[m][k].toTime = c.toTime /\ index[m][k].owlt = c.owlt
      BY <3>1 DEF ImputedEntry
    <3>3. index[n][k] # ImputedEntry(c)
      <4>1. SUFFICES ASSUME index[n][k] = ImputedEntry(c) PROVE r \in Known(index[n])
        BY <2>1
      <4>2. Held(index[n], k)
        BY <4>1, EntryShape DEF Held
      <4>3. QED
        BY <2>5, <3>1, <4>1, <4>2 DEF Known
    <3>4. PICK s \in S : SamePair(s.key, k) /\ Meets(c, s)
      BY <2>4, <3>1, <3>3 DEF Explained, ReversesAreGiven
    <3>5. k.fromTime = c.key.fromTime
      BY <3>1 DEF Reverse
    <3>6. s.key \in Key /\ s \in Announcement
      BY RecordShape
    <3>7. c.key.fromTime <= s.toTime /\ s.key.fromTime <= c.toTime
      BY <3>4 DEF Meets
    <3>8. Meets(r, s)
      BY <2>6, <3>2, <3>4, <3>5, <3>7 DEF Meets, SamePair
    <3>9. ~Asserts(index[m], s)
      <4>1. SUFFICES ASSUME Asserts(index[m], s) PROVE FALSE
        OBVIOUS
      <4>2. IsAsserted(index[m], s.key) /\ index[m][s.key].toTime = s.toTime
        BY <3>6, <4>1, EntryShape DEF Asserts, IsAsserted, Held
      <4>3. Overlap(index[m], k, s.key)
        <5>1. /\ c.key.fromTime \in Nat /\ c.toTime \in Nat
              /\ s.key.fromTime \in Nat /\ s.toTime \in Nat
          BY RecordShape
        <5>2. QED
          BY <3>2, <3>5, <3>7, <4>2, <5>1 DEF Overlap
      <4>4. SamePair(k, s.key)
        BY <3>4 DEF SamePair
      <4>5. QED
        BY <2>4, <2>8, <3>6, <4>2, <4>3, <4>4 DEF Explained, NothingRedundant
    <3>10. s \in unstored[m]
      BY <2>4, <3>9 DEF Explained, RestIsUnstored
    <3>11. QED
      BY <3>8, <3>10
  <2>9. QED
    BY <2>5, <2>7, <2>8 DEF IsAsserted, IsImputed
<1>2. QED
  BY <1>1, OrderInductive, PTL
=============================================================================
