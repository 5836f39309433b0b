----------------------------- MODULE RangeApply -----------------------------
(***************************************************************************)
(* One dtnex node writing the ranges it learns into its own ION            *)
(* (ionc_apply_range, insertRange and pruneRedundantImputed of             *)
(* ion_contacts.c), while the operator of that node, or ION's own clock,   *)
(* edits the same index.                                                   *)
(*                                                                         *)
(* The call is not atomic: the lookup, every rfx_* call and every pruning  *)
(* scan is an SDR transaction of its own, and any other ION client may     *)
(* write between two of them.  Each transaction is one action here.        *)
(***************************************************************************)
EXTENDS RangePromise

CONSTANTS Me,          \* the local node
          MaxScan,     \* IONC_MAX_PRUNE_SCAN
          MaxApplies,  \* bound: range messages that reach this node
          MaxEdits     \* bound: writes of the operator and of ION's clock

ASSUME ApplyAssumption ==
  /\ Me \in Nat
  /\ MaxScan \in Nat \ {0}
  /\ MaxApplies \in Nat
  /\ MaxEdits \in Nat

VARIABLES
  ranges,   \* ION's range index
  pc,       \* where ionc_apply_range stands
  rec,      \* the record being applied, or the last one
  seen,     \* the index at the lookup; the code reads seen[rec.key] from it
  outcome,  \* rangeOutcome
  pass,     \* 1: pruning (from, to); 2: pruning (to, from)
  doomed,   \* redundant imputed entries the scan found, not yet removed
  applied,  \* number of records applied so far
  oper,     \* history: the ranges the operator has configured
  touched,  \* history: keys changed by somebody else since the lookup
  failed,   \* history: an ION call of this apply failed, or refused a removal
  edits     \* number of writes of the operator and of ION's clock

local == <<pc, rec, seen, outcome, pass, doomed, applied, failed>>
vars  == <<ranges, oper, touched, edits, local>>

Outcomes == {"NOOP", "INSERTED", "REPLACED", "LOST", "ERROR"}

\* Mutant of Record: the authority rule is not checked.
Record_NoAuthority ==
  {r \in [key: Key, toTime: Time, owlt: Owlt] :
     r.key.from # r.key.to /\ r.key.fromTime < r.toTime}

\* What the validation of processCborRangeMessage lets through: never the
\* receiver's own direction, two distinct nodes, an ordered window.
Record ==
  {r \in [key: Key, toTime: Time, owlt: Owlt] :
     /\ r.key.from # Me
     /\ r.key.from # r.key.to
     /\ r.key.fromTime < r.toTime}

\* What the operator can type into ionadmin: any direction.
Assertion ==
  {r \in [key: Key, toTime: Time, owlt: Owlt] :
     r.key.from # r.key.to /\ r.key.fromTime < r.toTime}

TypeOK ==
  /\ ranges \in Index
  /\ pc \in {"idle", "write", "reinsert", "scan", "prune"}
  /\ rec \in Record
  /\ seen \in Index
  /\ outcome \in Outcomes
  /\ pass \in {1, 2}
  /\ doomed \subseteq Key
  /\ applied \in 0..MaxApplies
  /\ oper \in Index
  /\ touched \subseteq Key
  /\ failed \in BOOLEAN
  /\ edits \in 0..MaxEdits

Init ==
  /\ ranges = [k \in Key |-> NoRange]
  /\ pc = "idle"
  /\ rec \in Record
  /\ seen = [k \in Key |-> NoRange]
  /\ outcome = "NOOP"
  /\ pass = 1
  /\ doomed = {}
  /\ applied = 0
  /\ oper = [k \in Key |-> NoRange]
  /\ touched = {}
  /\ failed = FALSE
  /\ edits = 0

-----------------------------------------------------------------------------
(* ionc_apply_range, phase 1: the existence check.                         *)

\* Mutant of UpToDate: only the light time is compared.
UpToDate_OwltOnly(r) == Held(ranges, r.key) /\ ranges[r.key].owlt = r.owlt

UpToDate(r) ==
  /\ Held(ranges, r.key)
  /\ ranges[r.key].owlt = r.owlt
  /\ ranges[r.key].toTime = r.toTime

Begin(r) ==
  /\ pc = "idle"
  /\ applied < MaxApplies
  /\ applied' = applied + 1
  /\ rec' = r
  /\ seen' = ranges
  /\ touched' = {}
  /\ UNCHANGED <<ranges, pass, doomed, oper, edits>>

\* The record is already there, asserted or imputed: nothing is written, an
\* imputed entry is not promoted and nothing is pruned.
LookupIdentical(r) ==
  /\ Begin(r)
  /\ UpToDate(r)
  /\ outcome' = "NOOP"
  /\ failed' = FALSE
  /\ UNCHANGED pc

LookupDiffers(r) ==
  /\ Begin(r)
  /\ ~UpToDate(r)
  /\ outcome' = "NOOP"
  /\ failed' = FALSE
  /\ pc' = "write"

\* getIonsdr, sdr_begin_xn or the volatile database is not available.
LookupFails(r) ==
  /\ Begin(r)
  /\ outcome' = "ERROR"
  /\ failed' = TRUE
  /\ UNCHANGED pc

-----------------------------------------------------------------------------
(* Phase 2: the writes, each one a transaction of ION.                     *)

\* Mutant of Lost: the other site is taken for a plain refusal.
Lost_ImputedIgnored(site, rc) == site = "INSERT_AFTER_REMOVE"

\* How insertRange reads a return code of rfx_insert_range.
Lost(site, rc) ==
  \/ site = "INSERT_AFTER_REMOVE"
  \/ site = "INSERT_OVER_IMPUTED" /\ rc >= 3

InsertOutcome(okOutcome, site, rc) ==
  CASE rc = 0 -> okOutcome
    [] rc = 1 -> "NOOP"
    [] OTHER  -> IF Lost(site, rc) THEN "LOST" ELSE "NOOP"

\* Phase 3 follows a successful insertion only.
Finish(out) ==
  /\ outcome' = out
  /\ pc' = IF out \in {"INSERTED", "REPLACED"} THEN "scan" ELSE "idle"
  /\ pass' = 1

WriteFrame == UNCHANGED <<rec, seen, doomed, applied, oper, touched, edits>>

\* A negative return code: the transaction is rolled back, nothing is pruned.
WriteFails ==
  /\ pc \in {"write", "reinsert"}
  /\ Finish("ERROR")
  /\ failed' = TRUE
  /\ UNCHANGED ranges
  /\ WriteFrame

insertRange(okOutcome, site) ==
  /\ \E r \in InsertRange(ranges, rec.key, rec.toTime, rec.owlt) :
       /\ ranges' = r.idx
       /\ Finish(InsertOutcome(okOutcome, site, r.rc))
  /\ UNCHANGED failed
  /\ WriteFrame

InsertOverNothing ==
  /\ pc = "write"
  /\ ~Held(seen, rec.key)
  /\ insertRange("INSERTED", "INSERT_OVER_NOTHING")

InsertOverImputed ==
  /\ pc = "write"
  /\ IsImputed(seen, rec.key)
  /\ insertRange("REPLACED", "INSERT_OVER_IMPUTED")

\* Mutant of RemoveAsserted: the removal is issued with a NULL start time,
\* ionadmin's '*' scope.
RemoveAsserted_WholePair ==
  /\ pc = "write"
  /\ IsAsserted(seen, rec.key)
  /\ ranges' = Without(ranges, {k \in Key : SamePair(k, rec.key)})
  /\ pc' = "reinsert"
  /\ UNCHANGED <<outcome, pass, failed>>
  /\ WriteFrame

RemoveAsserted ==
  /\ pc = "write"
  /\ IsAsserted(seen, rec.key)
  /\ ranges' = RemoveRange(ranges, rec.key)
  /\ pc' = "reinsert"
  /\ UNCHANGED <<outcome, pass, failed>>
  /\ WriteFrame

\* A positive return code of the removal: ION is left as it is.
RemoveRefused ==
  /\ pc = "write"
  /\ IsAsserted(seen, rec.key)
  /\ Finish("NOOP")
  /\ failed' = TRUE
  /\ UNCHANGED ranges
  /\ WriteFrame

InsertAfterRemove ==
  /\ pc = "reinsert"
  /\ insertRange("REPLACED", "INSERT_AFTER_REMOVE")

-----------------------------------------------------------------------------
(* Phase 3: pruneRedundantImputed on (from, to), then on (to, from).       *)

PruneKey == IF pass = 1 THEN rec.key ELSE Reverse(rec.key)

\* The scan keeps the first MaxScan entries of each nature, in index order.
FirstOf(S) ==
  {k \in S : Cardinality({l \in S : l.fromTime < k.fromTime}) < MaxScan}

\* Mutants of Redundant: the natures are not told apart, or are swapped.
Redundant_AnyNature(idx, pair) ==
  {k \in Key : /\ SamePair(k, pair)
               /\ Held(idx, k)
               /\ \E l \in Key \ {k} : /\ SamePair(l, pair)
                                       /\ IsAsserted(idx, l)
                                       /\ Overlap(idx, k, l)}
Redundant_Swapped(idx, pair) ==
  {k \in Key : /\ SamePair(k, pair)
               /\ IsAsserted(idx, k)
               /\ \E l \in Key : /\ SamePair(l, pair)
                                 /\ IsImputed(idx, l)
                                 /\ Overlap(idx, k, l)}

Redundant(idx, pair) ==
  LET asserted == FirstOf({k \in Key : SamePair(k, pair) /\ IsAsserted(idx, k)})
      imputed  == FirstOf({k \in Key : SamePair(k, pair) /\ IsImputed(idx, k)})
  IN  {k \in imputed : \E l \in asserted : Overlap(idx, k, l)}

\* Mutants of EndPass: the opposite direction is not pruned; a pass too many.
EndPass_FirstOnly == pass' = 1 /\ pc' = "idle"
EndPass_NoReset ==
  IF pass = 1 THEN pass' = 2 /\ pc' = "scan"
              ELSE pass' = pass + 1 /\ pc' = "idle"

\* The pruning of one pair is over.
EndPass ==
  IF pass = 1 THEN pass' = 2 /\ pc' = "scan"
              ELSE pass' = 1 /\ pc' = "idle"

PruneFrame == UNCHANGED <<rec, seen, outcome, applied, oper, touched, edits>>

Scan ==
  /\ pc = "scan"
  /\ doomed' = Redundant(ranges, PruneKey)
  /\ IF doomed' = {} THEN EndPass ELSE pc' = "prune" /\ UNCHANGED pass
  /\ UNCHANGED <<ranges, failed>>
  /\ PruneFrame

ScanFails ==
  /\ pc = "scan"
  /\ EndPass
  /\ failed' = TRUE
  /\ UNCHANGED <<ranges, doomed>>
  /\ PruneFrame

\* The loop over imputed[], in index order.
NextDoomed(k) ==
  /\ pc = "prune"
  /\ k \in doomed
  /\ \A l \in doomed : k.fromTime <= l.fromTime
  /\ doomed' = doomed \ {k}
  /\ IF doomed' = {} THEN EndPass ELSE UNCHANGED <<pc, pass>>
  /\ PruneFrame

PruneRemoves ==
  \E k \in doomed :
    /\ NextDoomed(k)
    /\ ranges' = RemoveRange(ranges, k)
    /\ UNCHANGED failed

PruneRemoveFails ==
  \E k \in doomed :
    /\ NextDoomed(k)
    /\ failed' = TRUE
    /\ UNCHANGED ranges

-----------------------------------------------------------------------------
(* The other writers of the index, and the death of the process.           *)

Changed == {k \in Key : ranges'[k] # ranges[k]}

OperatorAsserts(r) ==
  /\ edits < MaxEdits
  /\ \E res \in InsertRange(ranges, r.key, r.toTime, r.owlt) :
       /\ ranges' = res.idx
       /\ oper' = IF res.rc = 0 THEN [oper EXCEPT ![r.key] = res.idx[r.key]]
                                ELSE oper
  /\ touched' = touched \cup Changed
  /\ edits' = edits + 1
  /\ UNCHANGED local

\* The operator deletes an entry, or ION purges it at the end of its window.
OperatorRemoves(k) ==
  /\ edits < MaxEdits
  /\ Held(ranges, k)
  /\ ranges' = RemoveRange(ranges, k)
  /\ oper' = [oper EXCEPT ![k] = NoRange]
  /\ touched' = touched \cup Changed
  /\ edits' = edits + 1
  /\ UNCHANGED local

\* A second signal, a SIGKILL or a failing rfx_* call that kills the process:
\* ION keeps what was written, the rest of the call never happens.
Dies ==
  /\ pc # "idle"
  /\ pc' = "idle"
  /\ outcome' = "ERROR"
  /\ failed' = TRUE
  /\ pass' = 1
  /\ doomed' = {}
  /\ UNCHANGED <<ranges, rec, seen, applied, oper, touched, edits>>

-----------------------------------------------------------------------------
Lookup   == \E r \in Record : LookupIdentical(r) \/ LookupDiffers(r) \/ LookupFails(r)
Write    == \/ WriteFails \/ InsertOverNothing \/ InsertOverImputed
            \/ RemoveAsserted \/ RemoveRefused \/ InsertAfterRemove
Prune    == Scan \/ ScanFails \/ PruneRemoves \/ PruneRemoveFails
Dtnex    == Lookup \/ Write \/ Prune \/ Dies
Operator == \/ \E r \in Assertion : OperatorAsserts(r)
            \/ \E k \in Key : OperatorRemoves(k)

Next == Dtnex \/ Operator

Spec == Init /\ [][Next]_vars

-----------------------------------------------------------------------------
(* The call has returned an outcome nobody's write could have disturbed.   *)
Returned == pc = "idle" /\ applied > 0

Own(k) == k.from = Me

\* What ionc_get_own_ranges lets this node announce (asserted, own direction)
\* is exactly what its operator configured: applying the announcements of
\* others, imputation and pruning never make a node announce a range nobody
\* declared on it (section 3.3 of the specification).
AnnouncesOnlyConfigured ==
  \A k \in Key : Own(k) /\ IsAsserted(ranges, k) => oper[k] = ranges[k]

\* Applying a record disturbs no assertion but the one under its own key:
\* removals are targeted.  An assertion somebody wrote during the call is not
\* covered, see OwnRangesUntouchedUnlessRaced.
OtherAssertionsKept ==
  \A k \in Key \ {rec.key} :
    /\ applied > 0
    /\ k \notin touched
    /\ IsAsserted(seen, k)
    => ranges[k] = seen[k]

\* After a successful insertion, no imputed range survives where an asserted
\* range of the same pair overlaps it, in either direction.  Entries somebody
\* else wrote during the call, and a pruning that ION refused, are not covered.
NoRedundantImputed ==
  /\ Returned
  /\ outcome \in {"INSERTED", "REPLACED"}
  /\ ~failed
  => \A k, l \in Key \ touched :
       /\ SamePair(k, l)
       /\ SamePair(k, rec.key) \/ SamePair(k, Reverse(rec.key))
       /\ IsImputed(ranges, k)
       /\ IsAsserted(ranges, l)
       => ~Overlap(ranges, k, l)

\* INSERTED and REPLACED mean that ION holds the record, asserted, once the
\* call returns: the pruning never takes back what has just been written.
SuccessMeansHeld ==
  /\ Returned
  /\ outcome \in {"INSERTED", "REPLACED"}
  /\ rec.key \notin touched
  => ranges[rec.key] = [toTime |-> rec.toTime, owlt |-> rec.owlt, asserted |-> TRUE]

\* An entry that was under the record's key at the lookup and is gone at the
\* return is always reported, as LOST or as an ION failure.
LossIsReported ==
  /\ Returned
  /\ rec.key \notin touched
  /\ Held(seen, rec.key)
  /\ ~Held(ranges, rec.key)
  => outcome \in {"LOST", "ERROR"}

\* A call nobody disturbed, and in which ION did not fail, is one of the atomic
\* changes RangePromise allows: the transactions it is cut into, the return
\* codes it reads and the pruning add up to the promised index and outcome.
ApplyIsAtomic ==
  /\ Returned
  /\ touched = {}
  /\ ~failed
  => Result(outcome, ranges) \in AtomicApply(seen, rec)

-----------------------------------------------------------------------------
(* What makes the invariants above inductive.                              *)

\* Outside the removal loop nothing is waiting to be removed.
DoomedOnlyInPrune == pc # "prune" => doomed = {}

\* What the scan condemned was imputed: unless somebody wrote the key since,
\* it still is, or it is gone.
DoomedIsImputed ==
  \A k \in doomed : k \notin touched => ~IsAsserted(ranges, k)

\* No outcome is reported before a write has been answered, and only a
\* successful insertion is followed by the pruning.
OutcomeOfStage ==
  /\ pc \in {"write", "reinsert"} => outcome = "NOOP"
  /\ pc \in {"scan", "prune"} => outcome \in {"INSERTED", "REPLACED"}

\* From the insertion on, through the pruning, ION holds the record.
InsertedIsHeld ==
  /\ outcome \in {"INSERTED", "REPLACED"}
  /\ rec.key \notin touched
  => ranges[rec.key] = [toTime |-> rec.toTime, owlt |-> rec.owlt, asserted |-> TRUE]

\* Until the first write the lookup is still true, and the removal of an
\* asserted entry is the only thing done before the reinsertion.
LookupStillTrue ==
  /\ rec.key \notin touched
  /\ applied > 0
  => /\ pc = "write" => ranges[rec.key] = seen[rec.key]
     /\ pc = "reinsert" => IsAsserted(seen, rec.key)

\* A return that says NOOP leaves an entry under the key if there was one.
NoopKeepsEntry ==
  /\ pc = "idle"
  /\ applied > 0
  /\ outcome = "NOOP"
  /\ rec.key \notin touched
  /\ Held(seen, rec.key)
  => Held(ranges, rec.key)

IInv ==
  /\ TypeOK
  /\ AnnouncesOnlyConfigured
  /\ OtherAssertionsKept
  /\ DoomedOnlyInPrune
  /\ DoomedIsImputed
  /\ OutcomeOfStage
  /\ InsertedIsHeld
  /\ LookupStillTrue
  /\ NoopKeepsEntry

-----------------------------------------------------------------------------
\* "No write dtnex performs on ION can therefore fall inside this set"
\* (dtnex.c, cache correctness invariant): a step of dtnex never changes an
\* own asserted range, unless somebody else wrote its key since the lookup: the
\* pruning removes by key, without another look, what its scan saw as imputed.
OwnRangesUntouchedUnlessRaced ==
  [][Dtnex => \A k \in Key : Own(k) /\ IsAsserted(ranges, k)
                             => ranges'[k] = ranges[k] \/ k \in touched]_vars

\* "IONC_NOOP: nothing was written" (ion_contacts.h): a call that reports NOOP
\* has removed nothing, unless somebody wrote the record's key since the lookup:
\* over a key imputed in between ION deletes before it refuses, at a site that
\* takes every refusal for a NOOP.
NoopRemovesNothingUnlessRaced ==
  [][(Write /\ pc' = "idle" /\ outcome' = "NOOP")
       => ranges' = ranges \/ rec.key \in touched]_vars
=============================================================================
