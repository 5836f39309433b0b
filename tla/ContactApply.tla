---------------------------- MODULE ContactApply ----------------------------
(***************************************************************************)
(* One dtnex node writing the contacts it learns into its own ION          *)
(* (ionc_apply_contact of ion_contacts.c).  The lookup and each rfx_* call *)
(* are transactions of their own; the operator, ION's clock and neighbour  *)
(* discovery write the same index between any two of them.                 *)
(*                                                                         *)
(* The sources of the records announce them again and again; an older      *)
(* version of a record may still arrive, a bounded number of times.        *)
(***************************************************************************)
EXTENDS ContactIndex

CONSTANTS Me,         \* the local node
          Current,    \* the records the sources announce for ever
          NoCall,
          MaxEdits,   \* bound: writes of the operator, ION's clock and discovery
          MaxStale,   \* bound: announcements that are not current
          MaxFaults   \* bound: failures of ION and deaths of the process

ASSUME ApplyAssumption ==
  /\ Me \in Nat
  /\ Current \subseteq ContactRecord
  /\ NoCall \notin ContactRecord
  /\ MaxEdits \in Nat
  /\ MaxStale \in Nat
  /\ MaxFaults \in Nat
  /\ \E t \in Time : \A u \in Time : u <= t   \* MAX_POSIX_TIME

VARIABLES
  contacts,  \* ION's contact index
  pc,        \* where ionc_apply_contact stands
  rec,       \* the record being applied
  existing,  \* existingContact: what the lookup found under rec.key
  outcome,   \* contactOutcome
  touched,   \* history: keys changed by somebody else since the lookup
  edits, stale, faults

vars == <<contacts, pc, rec, existing, outcome, touched, edits, stale, faults>>

Outcome == {"NOOP", "REVISED", "INSERTED", "REPLACED", "LOST", "ERROR"}

\* What the validation of processCborContactMessage lets through.
Record ==
  {r \in ContactRecord : /\ r.key.from # Me
                         /\ r.key.from # r.key.to
                         /\ r.key.fromTime < r.toTime}

TypeOK ==
  /\ contacts \in Index
  /\ pc \in {"idle", "write", "reinsert"}
  /\ rec \in Record \cup {NoCall}
  /\ existing \in Slot
  /\ outcome \in Outcome
  /\ touched \subseteq Key
  /\ edits \in 0..MaxEdits
  /\ stale \in 0..MaxStale
  /\ faults \in 0..MaxFaults

Init ==
  /\ contacts = [k \in Key |-> NoContact]
  /\ pc = "idle"
  /\ rec = NoCall
  /\ existing = NoContact
  /\ outcome = "NOOP"
  /\ touched = {}
  /\ edits = 0
  /\ stale = 0
  /\ faults = 0

Fault == faults < MaxFaults /\ faults' = faults + 1

-----------------------------------------------------------------------------
(* Phase 1: the existence check.                                           *)

\* Mutant of Received: the percentage is taken for the confidence.
Received_Percent(w) == w

\* rec->confidence / 100
Received(w) == 10 * w

\* Mutant of Differs: the stored confidence is compared exactly.
Differs_Exact(e, r) == e.rate # r.rate \/ e.confidence # Received(r.hundredths)

\* "Only xmitRate/confidence differ": the tolerance is 0.005.
Differs(e, r) ==
  \/ e.rate # r.rate
  \/ e.confidence < Received(r.hundredths) - 5
  \/ e.confidence > Received(r.hundredths) + 5

\* Mutant of findContact: the region and the start time are not part of the key.
findContact_ByLink(k) ==
  IF \E l \in Key : Held(contacts, l) /\ l.from = k.from /\ l.to = k.to
  THEN contacts[CHOOSE l \in Key : Held(contacts, l) /\ l.from = k.from /\ l.to = k.to]
  ELSE NoContact

findContact(k) == contacts[k]

Arrives(r) ==
  /\ pc = "idle"
  /\ IF r \in Current THEN UNCHANGED stale ELSE stale < MaxStale /\ stale' = stale + 1
  /\ UNCHANGED <<contacts, touched, edits>>

\* Mutant of NothingToDo: a rate or a confidence that changes is not noticed.
NothingToDo_WindowOnly(e, r) == e # NoContact /\ e.toTime = r.toTime

NothingToDo(e, r) == e # NoContact /\ e.toTime = r.toTime /\ ~Differs(e, r)

LookupIdentical(r) ==
  /\ Arrives(r)
  /\ NothingToDo(findContact(r.key), r)
  /\ outcome' = "NOOP"
  /\ UNCHANGED <<pc, rec, existing, faults>>

LookupDiffers(r) ==
  /\ Arrives(r)
  /\ ~NothingToDo(findContact(r.key), r)
  /\ outcome' = "NOOP"
  /\ pc' = "write"
  /\ rec' = r
  /\ existing' = findContact(r.key)
  /\ UNCHANGED faults

\* getIonsdr, sdr_begin_xn or the volatile database is not available.
LookupFails(r) ==
  /\ Arrives(r)
  /\ Fault
  /\ outcome' = "ERROR"
  /\ UNCHANGED <<pc, rec, existing>>

-----------------------------------------------------------------------------
(* Phase 2: the writes.                                                    *)

WriteFrame == UNCHANGED <<edits, stale>>

\* The call returns, and its locals are gone.
Finish(out) ==
  /\ outcome' = out
  /\ pc' = "idle"
  /\ rec' = NoCall
  /\ existing' = NoContact
  /\ touched' = {}

\* Mutant of rfx_insert_contact: a refusal after the removal is a no-op.
rfx_insert_contact_AsNew(ok, refused) ==
  \E a \in InsertContact(contacts, rec.key, rec.toTime, rec.rate, Received(rec.hundredths)) :
    /\ contacts' = a.idx
    /\ Finish(IF a.rc = "ok" THEN ok ELSE "NOOP")

rfx_insert_contact(ok, refused) ==
  \E a \in InsertContact(contacts, rec.key, rec.toTime, rec.rate, Received(rec.hundredths)) :
    /\ contacts' = a.idx
    /\ Finish(IF a.rc = "ok" THEN ok ELSE refused)

Insert ==
  /\ pc = "write"
  /\ existing = NoContact
  /\ rfx_insert_contact("INSERTED", "NOOP")
  /\ UNCHANGED faults
  /\ WriteFrame

WindowChanged == existing # NoContact /\ existing.toTime # rec.toTime

\* Mutant of Remove: no start time is given, ionadmin's '*' scope.
Remove_WholeLink ==
  /\ pc = "write"
  /\ WindowChanged
  /\ contacts' = [l \in Key |-> IF SameLink(l, rec.key) THEN NoContact ELSE contacts[l]]
  /\ pc' = "reinsert"
  /\ UNCHANGED <<outcome, rec, existing, touched, faults>>
  /\ WriteFrame

\* The targeted removal.
Remove ==
  /\ pc = "write"
  /\ WindowChanged
  /\ contacts' = RemoveContact(contacts, rec.key)
  /\ pc' = "reinsert"
  /\ UNCHANGED <<outcome, rec, existing, touched, faults>>
  /\ WriteFrame

\* A positive code of the removal, which ION does not return today.
RemoveRefused ==
  /\ pc = "write"
  /\ WindowChanged
  /\ Fault
  /\ Finish("NOOP")
  /\ UNCHANGED contacts
  /\ WriteFrame

Reinsert ==
  /\ pc = "reinsert"
  /\ rfx_insert_contact("REPLACED", "LOST")
  /\ UNCHANGED faults
  /\ WriteFrame

Revise ==
  /\ pc = "write"
  /\ existing # NoContact
  /\ existing.toTime = rec.toTime
  /\ LET a == ReviseContact(contacts, rec.key, rec.rate, Received(rec.hundredths))
     IN  /\ contacts' = a.idx
         /\ Finish(IF a.rc = "ok" THEN "REVISED" ELSE "NOOP")
  /\ UNCHANGED faults
  /\ WriteFrame

\* A negative code, or the death of the process: what was written stays.
WriteFails ==
  /\ pc # "idle"
  /\ Fault
  /\ Finish("ERROR")
  /\ UNCHANGED contacts
  /\ WriteFrame

-----------------------------------------------------------------------------
(* The other writers.                                                      *)

\* A write of somebody else.
Edit(new) ==
  /\ edits < MaxEdits
  /\ edits' = edits + 1
  /\ contacts' = new
  /\ touched' = IF pc = "idle" THEN {} ELSE touched \cup {k \in Key : new[k] # contacts[k]}
  /\ UNCHANGED <<pc, rec, existing, outcome, stale, faults>>

OperatorAdds(k, toTime, rate, confidence) ==
  /\ k.fromTime < toTime
  /\ \E a \in InsertContact(contacts, k, toTime, rate, confidence) : a.rc = "ok" /\ Edit(a.idx)

\* ionadmin, or ION at the end of the window.
Deleted(k) == Held(contacts, k) /\ Edit(RemoveContact(contacts, k))

Retyped(k, l, old, new) ==
  IF SameLink(k, l) /\ Held(contacts, l) /\ contacts[l].type = old
  THEN [contacts[l] EXCEPT !.type = new]
  ELSE contacts[l]

Forever == CHOOSE t \in Time : \A u \in Time : u <= t

\* ipnd: a contact with the local node is discovered, and the scheduled ones of
\* the same link are suppressed, until it ends.
Discovered(k, rate, confidence) ==
  /\ k.to = Me
  /\ ~Held(contacts, k)
  /\ Edit([l \in Key |->
             IF l = k THEN [Scheduled(Forever, rate, confidence) EXCEPT !.type = "Discovered"]
                      ELSE Retyped(k, l, "Scheduled", "Suppressed")])

DiscoveryEnds(k) ==
  /\ Held(contacts, k)
  /\ contacts[k].type = "Discovered"
  /\ Edit([l \in Key |-> IF l = k THEN NoContact
                                  ELSE Retyped(k, l, "Suppressed", "Scheduled")])

-----------------------------------------------------------------------------
Write == Insert \/ Remove \/ RemoveRefused \/ Reinsert \/ Revise \/ WriteFails

Lookup(r) == LookupIdentical(r) \/ LookupDiffers(r) \/ LookupFails(r)

Dtnex == (\E r \in Record : Lookup(r)) \/ Write

Others ==
  \E k \in Key :
    \/ \E t \in Time, q \in Rate, c \in Confidence : OperatorAdds(k, t, q, c)
    \/ Deleted(k)
    \/ \E q \in Rate, c \in Confidence : Discovered(k, q, c)
    \/ DiscoveryEnds(k)

Next == Dtnex \/ Others

Spec == Init /\ [][Next]_vars

\* A call that has begun ends, and the sources announce their records in every
\* interval, so that each is applied again and again.
Fairness ==
  /\ WF_vars(Write)
  /\ \A r \in Current : SF_vars(Lookup(r))

FairSpec == Spec /\ Fairness

-----------------------------------------------------------------------------
(* The refinement: during a call that nobody has disturbed the promised    *)
(* index still shows the entry that the lookup found.                      *)

Masked ==
  IF pc = "idle" \/ rec.key \in touched THEN contacts ELSE [contacts EXCEPT ![rec.key] = existing]

Promise == INSTANCE ContactPromise WITH
  store   <- Masked,
  call    <- rec,
  verdict <- outcome

\* The transactions of a call, with everything that others do in between, add
\* up to one atomic change of the record's own key, told by its outcome: only
\* INSERTED, REVISED and REPLACED write the record, NOOP leaves the entry alone,
\* a lost entry is reported as LOST, and nothing but that key is ever written.
ImplementsPromise == Promise!Spec

\* What ionc_get_own_contacts announces of an entry.
Announced(k, e) ==
  [key |-> k, toTime |-> e.toTime, rate |-> e.rate, hundredths |-> (e.confidence + 5) \div 10]

\* The periodic refresh does not touch ION (section 5.3): a record is not written
\* over an entry that this node itself would announce in the same words,
\* whatever the entry's own precision.
NoChurn ==
  [][pc = "idle" /\ pc' = "write" /\ existing' # NoContact
     => Announced(rec'.key, existing') # rec']_vars

\* ION has the record, up to the precision that travels.
Learned(r) == Held(contacts, r.key) /\ Announced(r.key, contacts[r.key]) = r

\* ION would not take it: it belongs to another region, its window meets that of
\* another entry, or the entry under its key is not a scheduled contact.
Refusable(r) ==
  \/ r.key.region \notin Home
  \/ InTheWay(contacts, r.key, r.toTime) # {}
  \/ Held(contacts, r.key) /\ contacts[r.key].type # "Scheduled"

\* A record that its source goes on announcing ends up in ION, whatever losses,
\* late messages, failures and edits came before, unless ION refuses it.
Heals == \A r \in Current : <>[](Learned(r) \/ Refusable(r))
=============================================================================
