------------------------- MODULE ContactApplyProofs -------------------------
(***************************************************************************)
(* The refinement of ContactPromise by ContactApply, for every set of      *)
(* nodes, regions, instants, rates and confidences and every bound.        *)
(*                                                                         *)
(* The mapping shows the looked-up entry under the record's key while a    *)
(* call runs.  It is sound because of what IInv adds to TypeOK: as long as *)
(* nobody else writes that key, the index still holds what the lookup saw  *)
(* (before the removal) or nothing (after it).                             *)
(***************************************************************************)
EXTENDS ContactApply, TLAPS

\* What holds between two transactions of a call.
Idle ==
  pc = "idle" => rec = NoCall /\ existing = NoContact /\ touched = {}

Busy ==
  pc # "idle" => rec \in Record /\ outcome = "NOOP" /\ ~NothingToDo(existing, rec)

WriteStage ==
  pc = "write" /\ rec.key \notin touched => contacts[rec.key] = existing

ReinsertStage ==
  pc = "reinsert" => /\ WindowChanged
                     /\ rec.key \notin touched => contacts[rec.key] = NoContact

IInv == TypeOK /\ Idle /\ Busy /\ WriteStage /\ ReinsertStage

-----------------------------------------------------------------------------
(* What the transactions of the index return.                              *)

\* A record that passes validation is an announcement.
LEMMA RecordShape ==
  ASSUME NEW r \in Record
  PROVE  /\ r \in ContactRecord
         /\ r # NoCall
         /\ r.key \in Key
         /\ r.toTime \in Time
         /\ r.rate \in Rate
         /\ r.hundredths \in Hundredth
         /\ Received(r.hundredths) \in Confidence
BY ApplyAssumption, ContactAssumption DEF Record, ContactRecord, ApplyAssumption,
   ContactAssumption, Received

\* An inserted contact is an entry, and no entry is NoContact.
LEMMA FreshIsEntry ==
  ASSUME NEW t \in Time, NEW q \in Rate, NEW c \in Confidence
  PROVE  /\ Scheduled(t, q, c) \in Entry
         /\ Scheduled(t, q, c) # NoContact
BY ContactAssumption DEF Scheduled, Entry, ContactType, ContactAssumption

\* An insertion writes the entry under its key, or nothing.
LEMMA InsertEffect ==
  ASSUME NEW idx \in Index, NEW k \in Key, NEW t \in Time, NEW q \in Rate,
         NEW c \in Confidence, NEW a \in InsertContact(idx, k, t, q, c)
  PROVE  /\ a.idx \in Index
         /\ \A l \in Key \ {k} : a.idx[l] = idx[l]
         /\ a.rc = "ok" => ~Held(idx, k) /\ a.idx[k] = Scheduled(t, q, c)
         /\ a.rc # "ok" => a.idx = idx
<1>1. PICK x \in {Answer("ok", [idx EXCEPT ![k] = Scheduled(t, q, c)]), Answer("refused", idx)} :
        /\ a = x
        /\ x.rc = "ok" => ~MustRefuse(idx, k, t)
  BY DEF InsertContact, Answer
<1>2. Scheduled(t, q, c) \in Slot
  BY FreshIsEntry DEF Slot
<1>3. CASE x = Answer("refused", idx)
  BY <1>1, <1>3 DEF Answer
<1>4. CASE x = Answer("ok", [idx EXCEPT ![k] = Scheduled(t, q, c)])
  BY <1>1, <1>2, <1>4 DEF Answer, Index, MustRefuse
<1>5. QED
  BY <1>1, <1>3, <1>4

\* A removal empties its key and no other.
LEMMA RemoveEffect ==
  ASSUME NEW idx \in Index, NEW k \in Key
  PROVE  /\ RemoveContact(idx, k) \in Index
         /\ \A l \in Key \ {k} : RemoveContact(idx, k)[l] = idx[l]
         /\ RemoveContact(idx, k)[k] = NoContact
BY DEF RemoveContact, Index, Slot

\* An entry with another rate and confidence.
Rerated(e, q, c) == [e EXCEPT !.rate = q, !.confidence = c]

\* A revision writes the rate and the confidence of a scheduled contact.
LEMMA ReviseEffect ==
  ASSUME NEW idx \in Index, NEW k \in Key, NEW q \in Rate, NEW c \in Confidence,
         NEW a, a = ReviseContact(idx, k, q, c)
  PROVE  /\ a.idx \in Index
         /\ \A l \in Key \ {k} : a.idx[l] = idx[l]
         /\ a.rc = "ok" => /\ Held(idx, k)
                           /\ a.idx[k] = Rerated(idx[k], q, c)
         /\ a.rc # "ok" => a.idx = idx
<1>1. CASE Held(idx, k) /\ idx[k].type = "Scheduled"
  <2>1. idx[k] \in Entry
    BY <1>1 DEF Held, Index, Slot
  <2>2. [idx[k] EXCEPT !.rate = q, !.confidence = c] \in Slot
    BY <2>1 DEF Entry, Slot
  <2>3. ReviseContact(idx, k, q, c)
          = Answer("ok", [idx EXCEPT ![k] = [idx[k] EXCEPT !.rate = q, !.confidence = c]])
    BY <1>1, <2>1 DEF ReviseContact, Index, Entry
  <2>4. QED
    BY <1>1, <2>2, <2>3 DEF Answer, Index, Rerated
<1>2. CASE ~(Held(idx, k) /\ idx[k].type = "Scheduled")
  BY <1>2 DEF ReviseContact, Answer
<1>3. QED
  BY <1>1, <1>2

-----------------------------------------------------------------------------
(* The invariant.                                                          *)

\* The initial state is one between calls.
LEMMA InitInv == ASSUME Init PROVE IInv
BY ApplyAssumption DEF Init, IInv, TypeOK, Idle, Busy, WriteStage, ReinsertStage, Index,
   Slot, Outcome, ApplyAssumption

\* The lookup keeps the invariant: what it saw is what the index holds.
LEMMA LookupInv ==
  ASSUME IInv, NEW r \in Record, Lookup(r)
  PROVE  IInv'
<1>1. r \in Record /\ r.key \in Key /\ contacts[r.key] \in Slot
  BY RecordShape DEF IInv, TypeOK, Index
<1>2. contacts' = contacts /\ touched' = touched /\ edits' = edits /\ stale' \in 0..MaxStale
      /\ touched = {} /\ rec = NoCall /\ existing = NoContact /\ pc = "idle"
  BY ApplyAssumption DEF Lookup, LookupIdentical, LookupDiffers, LookupFails, Arrives, IInv,
     TypeOK, Idle, ApplyAssumption
<1>3. faults' \in 0..MaxFaults
  BY ApplyAssumption DEF Lookup, LookupIdentical, LookupDiffers, LookupFails, Fault, IInv,
     TypeOK, ApplyAssumption
<1>4. CASE LookupIdentical(r) \/ LookupFails(r)
  BY <1>2, <1>3, <1>4 DEF LookupIdentical, LookupFails, IInv, TypeOK, Idle, Busy,
     WriteStage, ReinsertStage, Outcome
<1>5. CASE LookupDiffers(r)
  BY <1>1, <1>2, <1>3, <1>5 DEF LookupDiffers, findContact, IInv, TypeOK, Idle, Busy,
     WriteStage, ReinsertStage, Outcome
<1>6. QED
  BY <1>4, <1>5 DEF Lookup

\* A call that returns leaves nothing behind it.
LEMMA FinishInv ==
  ASSUME IInv, NEW out \in Outcome, Finish(out), contacts' \in Index,
         faults' \in 0..MaxFaults, WriteFrame
  PROVE  IInv'
BY DEF Finish, WriteFrame, IInv, TypeOK, Idle, Busy, WriteStage, ReinsertStage, Slot

\* Every insertion ends the call.
LEMMA InsertCallInv ==
  ASSUME IInv, pc # "idle", NEW ok \in Outcome, NEW refused \in Outcome,
         rfx_insert_contact(ok, refused), UNCHANGED faults, WriteFrame
  PROVE  IInv'
<1>1. PICK a \in InsertContact(contacts, rec.key, rec.toTime, rec.rate, Received(rec.hundredths)) :
        /\ contacts' = a.idx
        /\ Finish(IF a.rc = "ok" THEN ok ELSE refused)
  BY DEF rfx_insert_contact
<1>2. rec \in Record /\ contacts \in Index /\ faults \in 0..MaxFaults
  BY DEF IInv, Busy, TypeOK
<1>3. contacts' \in Index
  BY <1>1, <1>2, RecordShape, InsertEffect
<1>4. PICK out \in Outcome : Finish(out)
  BY <1>1
<1>5. faults' \in 0..MaxFaults
  BY <1>2
<1>6. QED
  BY <1>3, <1>4, <1>5, FinishInv

\* Phase 2 keeps the invariant.
LEMMA WriteInv ==
  ASSUME IInv, Write
  PROVE  IInv'
<1>1. contacts \in Index /\ faults \in 0..MaxFaults
  BY DEF IInv, TypeOK
<1>2. pc # "idle"
  BY DEF Write, Insert, Remove, RemoveRefused, Reinsert, Revise, WriteFails
<1>3. rec \in Record
  BY <1>2 DEF IInv, Busy
<1>4. CASE Insert
  BY <1>2, <1>4, InsertCallInv DEF Insert, Outcome
<1>5. CASE Reinsert
  BY <1>2, <1>5, InsertCallInv DEF Reinsert, Outcome
<1>6. CASE Remove
  <2>1. contacts' \in Index /\ contacts'[rec.key] = NoContact
    BY <1>1, <1>3, <1>6, RecordShape, RemoveEffect DEF Remove
  <2>2. QED
    BY <1>3, <1>6, <2>1 DEF Remove, WriteFrame, WindowChanged, IInv, TypeOK, Idle, Busy,
       WriteStage, ReinsertStage
<1>7. CASE RemoveRefused \/ WriteFails
  <2>1. faults' \in 0..MaxFaults /\ contacts' \in Index
    BY <1>1, <1>7, ApplyAssumption DEF RemoveRefused, WriteFails, Fault, ApplyAssumption
  <2>2. QED
    BY <1>7, <2>1, FinishInv DEF RemoveRefused, WriteFails, Outcome
<1>8. CASE Revise
  <2>1. contacts' \in Index
    BY <1>1, <1>3, <1>8, RecordShape, ReviseEffect DEF Revise
  <2>2. PICK out \in Outcome : Finish(out)
    BY <1>8 DEF Revise, Outcome
  <2>3. faults' \in 0..MaxFaults
    BY <1>1, <1>8 DEF Revise
  <2>4. QED
    BY <1>8, <2>1, <2>2, <2>3, FinishInv DEF Revise
<1>9. QED
  BY <1>4, <1>5, <1>6, <1>7, <1>8 DEF Write

\* A write of somebody else keeps it, because the keys it changes are touched.
LEMMA EditInv ==
  ASSUME IInv, NEW new \in Index, Edit(new)
  PROVE  IInv'
<1>1. contacts' = new /\ edits' \in 0..MaxEdits
  BY ApplyAssumption DEF Edit, IInv, TypeOK, ApplyAssumption
<1>2. UNCHANGED <<pc, rec, existing, outcome, stale, faults>> /\ touched' \subseteq Key
  BY DEF Edit, IInv, TypeOK
<1>3. TypeOK'
  BY <1>1, <1>2 DEF IInv, TypeOK
<1>4. CASE pc = "idle"
  BY <1>2, <1>3, <1>4 DEF Edit, IInv, Idle, Busy, WriteStage, ReinsertStage
<1>5. CASE pc # "idle"
  <2>1. rec \in Record /\ rec.key \in Key
    BY <1>5, RecordShape DEF IInv, Busy
  <2>2. rec.key \notin touched' => rec.key \notin touched /\ contacts'[rec.key] = contacts[rec.key]
    BY <1>1, <1>5, <2>1 DEF Edit
  <2>3. QED
    BY <1>2, <1>3, <1>5, <2>2 DEF IInv, Idle, Busy, WriteStage, ReinsertStage, WindowChanged
<1>6. QED
  BY <1>4, <1>5

\* What the others write is an index.
LEMMA OthersEdit ==
  ASSUME IInv, Others
  PROVE  \E new \in Index : Edit(new)
<1>1. contacts \in Index
  BY DEF IInv, TypeOK
<1>2. PICK k \in Key :
        \/ \E t \in Time, q \in Rate, c \in Confidence : OperatorAdds(k, t, q, c)
        \/ Deleted(k)
        \/ \E q \in Rate, c \in Confidence : Discovered(k, q, c)
        \/ DiscoveryEnds(k)
  BY DEF Others
<1>3. ASSUME NEW t \in Time, NEW q \in Rate, NEW c \in Confidence, OperatorAdds(k, t, q, c)
      PROVE  \E new \in Index : Edit(new)
  <2>1. PICK a \in InsertContact(contacts, k, t, q, c) : Edit(a.idx)
    BY <1>3 DEF OperatorAdds
  <2>2. a.idx \in Index
    BY <1>1, <2>1, InsertEffect
  <2>3. QED
    BY <2>1, <2>2
<1>4. CASE Deleted(k)
  BY <1>1, <1>4, RemoveEffect DEF Deleted
<1>5. ASSUME NEW l \in Key, NEW old \in ContactType, NEW new \in ContactType
      PROVE  Retyped(k, l, old, new) \in Slot
  BY <1>1, ContactAssumption DEF Retyped, Index, Slot, Entry, Held, ContactAssumption
<1>6. ASSUME NEW q \in Rate, NEW c \in Confidence, Discovered(k, q, c)
      PROVE  \E new \in Index : Edit(new)
  <2> DEFINE f == [l \in Key |->
                     IF l = k THEN [Scheduled(Forever, q, c) EXCEPT !.type = "Discovered"]
                              ELSE Retyped(k, l, "Scheduled", "Suppressed")]
  <2>1. Forever \in Time
    BY ApplyAssumption DEF Forever, ApplyAssumption
  <2>2. [Scheduled(Forever, q, c) EXCEPT !.type = "Discovered"] \in Slot
    BY <2>1, FreshIsEntry DEF Slot, Entry, ContactType
  <2>3. f \in Index
    BY <1>5, <2>2 DEF Index, ContactType
  <2>4. QED
    BY <1>6, <2>3 DEF Discovered
<1>7. ASSUME DiscoveryEnds(k)
      PROVE  \E new \in Index : Edit(new)
  <2> DEFINE f == [l \in Key |-> IF l = k THEN NoContact
                                 ELSE Retyped(k, l, "Suppressed", "Scheduled")]
  <2>1. f \in Index
    BY <1>5 DEF Index, ContactType, Slot
  <2>2. QED
    BY <1>7, <2>1 DEF DiscoveryEnds
<1>8. QED
  BY <1>2, <1>3, <1>4, <1>6, <1>7

\* Every step keeps the invariant.
LEMMA NextInv ==
  ASSUME IInv, [Next]_vars
  PROVE  IInv'
<1>1. CASE \E r \in Record : Lookup(r)
  BY <1>1, LookupInv
<1>2. CASE Write
  BY <1>2, WriteInv
<1>3. CASE Others
  BY <1>3, OthersEdit, EditInv
<1>4. CASE UNCHANGED vars
  BY <1>4 DEF vars, IInv, TypeOK, Idle, Busy, WriteStage, ReinsertStage, WindowChanged
<1>5. QED
  BY <1>1, <1>2, <1>3, <1>4 DEF Next, Dtnex

\* In every reachable state of ionc_apply_contact the strengthened invariant
\* holds: the call's copies agree with the index wherever nobody else wrote.
THEOREM Inductive == Spec => []IInv
<1>1. Init => IInv
  BY InitInv
<1>2. IInv /\ [Next]_vars => IInv'
  BY NextInv
<1>3. QED
  BY <1>1, <1>2, PTL DEF Spec

\* Every reachable state of the call, the index and the histories is well-typed.
THEOREM TypeCorrect == Spec => []TypeOK
<1>1. IInv => TypeOK
  BY DEF IInv
<1>2. QED
  BY <1>1, Inductive, PTL

-----------------------------------------------------------------------------
(* The refinement.                                                         *)

\* The sources' announcements start from the same empty index.
LEMMA InitRefines == ASSUME Init PROVE Promise!Init
BY DEF Init, Promise!Init, Masked, Promise!Key, Key

\* The definitions of the index are those of ContactIndex.
LEMMA SameIndex ==
  /\ Promise!ContactRecord = ContactRecord
  /\ Promise!Key = Key
  /\ Promise!Outcome = Outcome
  /\ \A w : Promise!Received(w) = Received(w)
BY DEF Promise!ContactRecord, ContactRecord, Promise!Key, Key, Promise!Outcome, Outcome,
   Promise!Received, Received

\* The masked index is the index but for the record's key.
LEMMA MaskedShape ==
  ASSUME IInv
  PROVE  /\ pc = "idle" => Masked = contacts
         /\ pc # "idle" /\ rec.key \in touched => Masked = contacts
         /\ pc # "idle" /\ rec.key \notin touched =>
              Masked = [contacts EXCEPT ![rec.key] = existing]
BY DEF Masked

\* Deciding that there is nothing to do is deciding that the entry is up to date.
LEMMA NothingToDoIsUpToDate ==
  ASSUME NEW e \in Slot, NEW r \in Record
  PROVE  NothingToDo(e, r) <=> Promise!UpToDate(e, r)
<1>1. CASE e = NoContact
  BY <1>1 DEF NothingToDo, Promise!UpToDate, Promise!SameWindow
<1>2. CASE e \in Entry
  <2>a. e.confidence \in Confidence /\ Received(r.hundredths) \in Confidence
    BY <1>2, RecordShape DEF Entry
  <2>b. \A c \in Confidence : c \in Int
    BY ContactAssumption, SMT DEF ContactAssumption
  <2>1. e.confidence \in Int /\ Received(r.hundredths) \in Int
    BY <2>a, <2>b, Zenon
  <2>2. Promise!Close(e.confidence, r.hundredths)
          <=> ~(\/ e.confidence < Received(r.hundredths) - 5
                \/ e.confidence > Received(r.hundredths) + 5)
    BY <2>1, SameIndex DEF Promise!Close
  <2>3. QED
    BY <2>2 DEF NothingToDo, Differs, Promise!UpToDate, Promise!SameWindow
<1>3. QED
  BY <1>1, <1>2 DEF Slot

\* The lookup is the call, or settles it at once.
LEMMA LookupRefines ==
  ASSUME IInv, NEW r \in Record, Lookup(r)
  PROVE  Promise!Next
<1>1. contacts' = contacts /\ touched' = touched /\ edits' = edits /\ pc = "idle"
      /\ rec = NoCall /\ touched = {} /\ contacts \in Index
  BY DEF Lookup, LookupIdentical, LookupDiffers, LookupFails, Arrives, IInv, TypeOK, Idle
<1>2. Masked = contacts
  BY <1>1 DEF Masked
<1>3. CASE LookupIdentical(r) \/ LookupFails(r)
  <2>1. Masked' = contacts /\ rec' = NoCall /\ outcome' \in {"NOOP", "ERROR"}
    BY <1>1, <1>3 DEF LookupIdentical, LookupFails, Masked
  <2>2. Promise!ReturnAtOnce
    BY <1>1, <1>2, <2>1 DEF Promise!ReturnAtOnce
  <2>3. QED
    BY <2>2 DEF Promise!Next
<1>4. CASE LookupDiffers(r)
  <2>1. rec' = r /\ existing' = contacts[r.key] /\ pc' = "write" /\ outcome' = "NOOP"
    BY <1>4 DEF LookupDiffers, findContact
  <2>2. Masked' = contacts
    BY <1>1, <2>1 DEF Masked, Index
  <2>3. rec' \in Promise!ContactRecord
    BY <2>1, RecordShape, SameIndex
  <2>4. Promise!Call
    BY <1>1, <1>2, <2>1, <2>2, <2>3 DEF Promise!Call
  <2>5. QED
    BY <2>4 DEF Promise!Next
<1>5. QED
  BY <1>3, <1>4 DEF Lookup

\* A call that returns is the Return of the promise, if the outcome says truly
\* what became of an entry that nobody else has written.
LEMMA FinishRefines ==
  ASSUME IInv, pc # "idle", NEW out \in Outcome, Finish(out), WriteFrame,
         \A k \in Key \ {rec.key} : contacts'[k] = contacts[k],
         rec.key \notin touched =>
           Promise!Says(out, rec, existing, contacts'[rec.key])
  PROVE  Promise!Next
<1>1. rec \in Record /\ rec.key \in Key /\ rec # NoCall /\ contacts \in Index
  BY RecordShape DEF IInv, Busy, TypeOK
<1>2. Masked' = contacts'
  BY DEF Finish, Masked
<1>3. \A k \in Key \ {rec.key} : Masked[k] = contacts[k]
  BY <1>1 DEF Masked, Index
<1>4. rec.key \notin touched => Masked[rec.key] = existing
  BY <1>1 DEF Masked, Index
<1>5. rec' = NoCall /\ outcome' = out /\ touched' = {} /\ edits' = edits
  BY DEF Finish, WriteFrame
<1>6. \A k \in Promise!Key \ {rec.key} : Masked'[k] = Masked[k]
  BY <1>2, <1>3, SameIndex
<1>7. rec.key \notin touched =>
        Promise!Says(outcome', rec, Masked[rec.key], Masked'[rec.key])
  BY <1>2, <1>4, <1>5
<1>8. outcome' \in Promise!Outcome
  BY <1>5, SameIndex
<1>9. Promise!Return
  BY <1>1, <1>5, <1>6, <1>7, <1>8 DEF Promise!Return
<1>10. QED
  BY <1>9 DEF Promise!Next

\* An insertion that ends the call tells truly what it did, whatever it goes over.
LEMMA InsertRefines ==
  ASSUME IInv, pc # "idle", NEW ok \in Outcome, NEW refused \in Outcome,
         rfx_insert_contact(ok, refused), WriteFrame,
         rec.key \notin touched => contacts[rec.key] = NoContact,
         Promise!Says(ok, rec, existing, Promise!Fresh(rec)),
         Promise!Says(refused, rec, existing, NoContact)
  PROVE  Promise!Next
<1>1. PICK a \in InsertContact(contacts, rec.key, rec.toTime, rec.rate, Received(rec.hundredths)) :
        /\ contacts' = a.idx
        /\ Finish(IF a.rc = "ok" THEN ok ELSE refused)
  BY DEF rfx_insert_contact
<1>2. rec \in Record /\ contacts \in Index
  BY DEF IInv, Busy, TypeOK
<1>3. /\ \A l \in Key \ {rec.key} : contacts'[l] = contacts[l]
      /\ a.rc = "ok" =>
           contacts'[rec.key] = Scheduled(rec.toTime, rec.rate, Received(rec.hundredths))
      /\ a.rc # "ok" => contacts' = contacts
  BY <1>1, <1>2, RecordShape, InsertEffect
<1>4. CASE a.rc = "ok"
  <2>1. contacts'[rec.key] = Promise!Fresh(rec)
    BY <1>3, <1>4, SameIndex DEF Promise!Fresh, Promise!Scheduled, Scheduled
  <2>2. Finish(ok)
    BY <1>1, <1>4
  <2>3. QED
    BY <1>3, <2>1, <2>2, FinishRefines
<1>5. CASE a.rc # "ok"
  <2>1. Finish(refused)
    BY <1>1, <1>5
  <2>2. rec.key \notin touched => contacts'[rec.key] = NoContact
    BY <1>3, <1>5
  <2>3. QED
    BY <1>3, <2>1, <2>2, FinishRefines
<1>6. QED
  BY <1>4, <1>5

\* The removal is not visible: the promise still shows the entry, unless
\* somebody else has written its key.
LEMMA RemoveRefines ==
  ASSUME IInv, Remove
  PROVE  Promise!Next \/ UNCHANGED Promise!promised
<1>1. rec \in Record /\ rec.key \in Key /\ rec # NoCall /\ contacts \in Index
  BY RecordShape DEF Remove, IInv, Busy, TypeOK
<1>2. /\ UNCHANGED <<outcome, rec, existing, touched, edits>>
      /\ pc = "write" /\ pc' = "reinsert"
      /\ contacts' = RemoveContact(contacts, rec.key)
  BY DEF Remove, WriteFrame
<1>3. contacts' = [contacts EXCEPT ![rec.key] = NoContact]
  BY <1>2 DEF RemoveContact
<1>4. CASE rec.key \in touched
  <2>1. Masked = contacts /\ Masked' = contacts'
    BY <1>2, <1>4 DEF Masked
  <2>2. Promise!Disturbed
    BY <1>1, <1>2, <1>3, <1>4, <2>1, SameIndex DEF Promise!Disturbed, Index
  <2>3. QED
    BY <2>2 DEF Promise!Next
<1>5. CASE rec.key \notin touched
  <2>1. Masked = [contacts EXCEPT ![rec.key] = existing]
    BY <1>2, <1>5 DEF Masked
  <2>2. Masked' = [contacts' EXCEPT ![rec.key] = existing]
    BY <1>2, <1>5 DEF Masked
  <2>3. Masked' = Masked
    BY <1>1, <1>3, <2>1, <2>2 DEF Index
  <2>4. QED
    BY <1>2, <2>3 DEF Promise!promised
<1>6. QED
  BY <1>4, <1>5

\* Phase 2: the removal is a stutter, everything else is the return.
LEMMA WriteRefines ==
  ASSUME IInv, Write
  PROVE  Promise!Next \/ UNCHANGED Promise!promised
<1>1. pc # "idle"
  BY DEF Write, Insert, Remove, RemoveRefused, Reinsert, Revise, WriteFails
<1>2. /\ rec \in Record
      /\ contacts \in Index
      /\ existing \in Slot
      /\ ~Promise!UpToDate(existing, rec)
      /\ rec.key \in Key
  BY <1>1, NothingToDoIsUpToDate, RecordShape DEF IInv, Busy, TypeOK
<1>3. CASE Insert
  <2>1. Promise!Says("INSERTED", rec, existing, Promise!Fresh(rec))
        /\ Promise!Says("NOOP", rec, existing, NoContact)
    BY <1>3 DEF Insert, Promise!Says
  <2>2. rec.key \notin touched => contacts[rec.key] = NoContact
    BY <1>3 DEF Insert, IInv, WriteStage
  <2>3. QED
    BY <1>1, <1>3, <2>1, <2>2, InsertRefines DEF Insert, Outcome
<1>4. CASE Reinsert
  <2>1. existing # NoContact /\ ~Promise!SameWindow(existing, rec)
        /\ (rec.key \notin touched => contacts[rec.key] = NoContact)
    BY <1>4 DEF Reinsert, IInv, ReinsertStage, WindowChanged, Promise!SameWindow
  <2>2. Promise!Says("REPLACED", rec, existing, Promise!Fresh(rec))
        /\ Promise!Says("LOST", rec, existing, NoContact)
    BY <2>1 DEF Promise!Says
  <2>3. QED
    BY <1>1, <1>4, <2>1, <2>2, InsertRefines DEF Reinsert, Outcome
<1>5. CASE Remove
  BY <1>5, RemoveRefines
<1>6. CASE RemoveRefused
  <2>1. /\ Finish("NOOP") /\ contacts' = contacts /\ WriteFrame
        /\ rec.key \notin touched => contacts[rec.key] = existing
    BY <1>6 DEF RemoveRefused, IInv, WriteStage
  <2>2. QED
    BY <1>1, <2>1, FinishRefines DEF Outcome, Promise!Says
<1>7. CASE Revise
  <2> DEFINE a == ReviseContact(contacts, rec.key, rec.rate, Received(rec.hundredths))
  <2>a. a = ReviseContact(contacts, rec.key, rec.rate, Received(rec.hundredths))
    OBVIOUS
  <2>1. /\ contacts' = a.idx
        /\ Finish(IF a.rc = "ok" THEN "REVISED" ELSE "NOOP")
        /\ WriteFrame
        /\ Promise!SameWindow(existing, rec)
        /\ rec.key \notin touched => contacts[rec.key] = existing
    BY <1>7 DEF Revise, IInv, WriteStage, Promise!SameWindow
  <2> HIDE DEF a
  <2>2. /\ \A l \in Key \ {rec.key} : a.idx[l] = contacts[l]
        /\ a.rc = "ok" =>
             a.idx[rec.key] = Rerated(contacts[rec.key], rec.rate, Received(rec.hundredths))
        /\ a.rc # "ok" => a.idx = contacts
    <3>1. rec.rate \in Rate /\ Received(rec.hundredths) \in Confidence
      BY <1>2, RecordShape
    <3>2. QED
      BY <1>2, <2>a, <3>1, ReviseEffect
  <2>3. CASE a.rc = "ok"
    <3>1. rec.key \notin touched => contacts'[rec.key] = Promise!Revised(existing, rec)
      BY <2>1, <2>2, <2>3, SameIndex DEF Promise!Revised, Rerated
    <3>2. rec.key \notin touched =>
            Promise!Says("REVISED", rec, existing, contacts'[rec.key])
      BY <1>2, <2>1, <3>1 DEF Promise!Says
    <3>3. QED
      BY <1>1, <2>1, <2>2, <2>3, <3>2, FinishRefines DEF Outcome
  <2>4. CASE a.rc # "ok"
    <3>1. contacts' = contacts /\ Finish("NOOP")
      BY <2>1, <2>2, <2>4
    <3>2. QED
      BY <1>1, <2>1, <3>1, FinishRefines DEF Outcome, Promise!Says
  <2>5. QED
    BY <2>3, <2>4
<1>8. CASE WriteFails
  <2>1. Finish("ERROR") /\ contacts' = contacts /\ WriteFrame
    BY <1>8 DEF WriteFails
  <2>2. rec.key \notin touched =>
          \/ contacts[rec.key] = existing
          \/ contacts[rec.key] = NoContact /\ ~Promise!SameWindow(existing, rec)
    BY <1>1 DEF IInv, TypeOK, WriteStage, ReinsertStage, WindowChanged, Promise!SameWindow
  <2>3. QED
    BY <1>1, <2>1, <2>2, FinishRefines DEF Outcome, Promise!Says
<1>9. QED
  BY <1>3, <1>4, <1>5, <1>6, <1>7, <1>8 DEF Write

\* A write of somebody else is the promise's Edit: a key it changes is touched.
LEMMA EditRefines ==
  ASSUME IInv, NEW new \in Index, Edit(new)
  PROVE  Promise!Next
<1>1. contacts' = new /\ edits' = edits + 1
      /\ UNCHANGED <<pc, rec, existing, outcome>>
  BY DEF Edit
<1>2. contacts \in Index
  BY DEF IInv, TypeOK
<1>3. touched \subseteq touched'
  BY DEF Edit, IInv, Idle
<1>4. ASSUME NEW k \in Key, Masked'[k] # Masked[k]
      PROVE  rec = NoCall \/ k \in touched'
  <2>1. CASE pc = "idle"
    BY <2>1 DEF IInv, Idle
  <2>2. CASE pc # "idle"
    <3>1. rec.key \in Key /\ touched' = touched \cup {l \in Key : new[l] # contacts[l]}
      BY <2>2, RecordShape DEF IInv, Busy, Edit
    <3>2. CASE rec.key \in touched
      BY <1>1, <1>3, <1>4, <3>1, <3>2 DEF Masked
    <3>3. CASE rec.key \notin touched /\ k = rec.key
      <4>1. CASE rec.key \in touched'
        BY <3>3, <4>1
      <4>2. CASE rec.key \notin touched'
        BY <1>1, <1>2, <1>4, <2>2, <3>1, <3>3, <4>2 DEF Masked, Index
      <4>3. QED
        BY <4>1, <4>2
    <3>4. CASE rec.key \notin touched /\ k # rec.key
      <4>1. Masked[k] = contacts[k] /\ Masked'[k] = contacts'[k]
        BY <1>1, <1>2, <3>1, <3>4 DEF Masked, Index
      <4>2. QED
        BY <1>1, <1>4, <3>1, <4>1
    <3>5. QED
      BY <3>2, <3>3, <3>4
  <2>3. QED
    BY <2>1, <2>2
<1>5. Promise!Edit
  BY <1>1, <1>3, <1>4, SameIndex DEF Promise!Edit
<1>6. QED
  BY <1>5 DEF Promise!Next

\* Every step of the code is a step of the promise, or invisible to it.
LEMMA NextRefines ==
  ASSUME IInv, [Next]_vars
  PROVE  [Promise!Next]_Promise!promised
<1>1. CASE \E r \in Record : Lookup(r)
  BY <1>1, LookupRefines
<1>2. CASE Write
  BY <1>2, WriteRefines
<1>3. CASE Others
  BY <1>3, OthersEdit, EditRefines
<1>4. CASE UNCHANGED vars
  BY <1>4 DEF vars, Promise!promised, Masked
<1>5. QED
  BY <1>1, <1>2, <1>3, <1>4 DEF Next, Dtnex

\* Cut into its transactions, with everything others write in between, a call
\* of ionc_apply_contact is one atomic change that its outcome describes.
THEOREM Refinement == Spec => ImplementsPromise
<1>1. Init => Promise!Init
  BY InitRefines
<1>2. IInv /\ [Next]_vars => [Promise!Next]_Promise!promised
  BY NextRefines
<1>3. QED
  BY <1>1, <1>2, Inductive, PTL DEF Spec, Promise!Spec, ImplementsPromise
-----------------------------------------------------------------------------
(* The periodic refresh.                                                   *)

\* The rounding of what is announced is finer than the tolerance of the
\* comparison, so an entry announced in the record's words needs no write.
LEMMA SameWordsNothingToDo ==
  ASSUME NEW e \in Entry, NEW r \in Record, Announced(r.key, e) = r
  PROVE  NothingToDo(e, r)
<1>1. e.toTime = r.toTime /\ e.rate = r.rate /\ (e.confidence + 5) \div 10 = r.hundredths
  BY DEF Announced
<1>2. e.confidence \in Confidence /\ r.hundredths \in Hundredth
  BY RecordShape DEF Entry
<1>3. Confidence \subseteq Nat /\ Hundredth \subseteq Nat
  BY ContactAssumption DEF ContactAssumption
<1>4. e.confidence \in Nat /\ r.hundredths \in Nat
  BY <1>2, <1>3, Zenon
<1>5. \A c, h \in Nat : (c + 5) \div 10 = h => ~(c < 10 * h - 5) /\ ~(c > 10 * h + 5)
  OBVIOUS
<1>6. ~Differs(e, r)
  BY <1>1, <1>4, <1>5 DEF Differs, Received
<1>7. e # NoContact
  BY ContactAssumption DEF ContactAssumption
<1>8. QED
  BY <1>1, <1>6, <1>7 DEF NothingToDo

\* The refresh of a contact that ION has, in whatever precision, writes nothing.
THEOREM RefreshWritesNothing == Spec => NoChurn
<1>1. ASSUME IInv, [Next]_vars, pc = "idle", pc' = "write", existing' # NoContact
      PROVE  Announced(rec'.key, existing') # rec'
  <2>1. ~Write /\ ~Others
    <3>1. ~Write
      BY <1>1 DEF Write, Insert, Remove, RemoveRefused, Reinsert, Revise, WriteFails
    <3>2. ASSUME Others PROVE FALSE
      BY <1>1, <3>2, OthersEdit DEF Edit
    <3>3. QED
      BY <3>1, <3>2
  <2>2. PICK r \in Record : Lookup(r)
    BY <1>1, <2>1 DEF Next, Dtnex, vars
  <2>3. LookupDiffers(r)
    BY <1>1, <2>2 DEF Lookup, LookupIdentical, LookupFails, Arrives
  <2>4. rec' = r /\ existing' = contacts[r.key] /\ ~NothingToDo(contacts[r.key], r)
    BY <2>3 DEF LookupDiffers, findContact
  <2>5. contacts[r.key] \in Entry
    BY <1>1, <2>4, RecordShape DEF IInv, TypeOK, Index, Slot
  <2>6. QED
    BY <2>4, <2>5, SameWordsNothingToDo
<1>2. QED
  BY <1>1, Inductive, PTL DEF Spec, NoChurn
=============================================================================
