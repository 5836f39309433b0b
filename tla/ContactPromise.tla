--------------------------- MODULE ContactPromise ---------------------------
(***************************************************************************)
(* What a caller of ionc_apply_contact may rely on, whatever transactions  *)
(* the call is cut into: between the call and its return only others write *)
(* the store; the return changes nothing but the record's own key, and     *)
(* changes it in one step, as the outcome says (IoncApplyOutcome, section  *)
(* 5.3 of the specification).  Nothing is promised for a key that somebody *)
(* else has written during the call.                                       *)
(***************************************************************************)
EXTENDS ContactIndex

CONSTANT NoCall

VARIABLES
  store,    \* ION's contacts
  call,     \* the record being applied
  touched,  \* the keys others have written since the call
  verdict,  \* the outcome of the last call, NOOP while one is running
  edits     \* number of writes by others

promised == <<store, call, touched, verdict, edits>>

Outcome == {"NOOP", "REVISED", "INSERTED", "REPLACED", "LOST", "ERROR"}

\* A confidence that travels in hundredths is stored as such.
Received(w) == 10 * w

\* Half a unit of the last place that travels is no difference.
Close(c, w) == Received(w) - 5 <= c /\ c <= Received(w) + 5

SameWindow(e, r) == e # NoContact /\ e.toTime = r.toTime

UpToDate(e, r) ==
  /\ SameWindow(e, r)
  /\ e.rate = r.rate
  /\ Close(e.confidence, r.hundredths)

Fresh(r) == Scheduled(r.toTime, r.rate, Received(r.hundredths))

Revised(e, r) == [e EXCEPT !.rate = r.rate, !.confidence = Received(r.hundredths)]

\* What each outcome says of the entry before and after the call.
Says(out, r, old, new) ==
  \/ out = "NOOP" /\ new = old
  \/ out = "INSERTED" /\ old = NoContact /\ new = Fresh(r)
  \/ out = "REVISED" /\ SameWindow(old, r) /\ ~UpToDate(old, r) /\ new = Revised(old, r)
  \/ out = "REPLACED" /\ old # NoContact /\ ~SameWindow(old, r) /\ new = Fresh(r)
  \/ out = "LOST" /\ old # NoContact /\ ~SameWindow(old, r) /\ new = NoContact
  \/ out = "ERROR" /\ (new = old \/ (~SameWindow(old, r) /\ new = NoContact))

Init ==
  /\ store = [k \in Key |-> NoContact]
  /\ call = NoCall
  /\ touched = {}
  /\ verdict = "NOOP"
  /\ edits = 0

Call ==
  /\ call = NoCall
  /\ call' \in ContactRecord
  /\ touched' = {}
  /\ verdict' = "NOOP"
  /\ UNCHANGED <<store, edits>>

Return ==
  /\ call # NoCall
  /\ call' = NoCall
  /\ verdict' \in Outcome
  /\ \A k \in Key \ {call.key} : store'[k] = store[k]
  /\ call.key \notin touched => Says(verdict', call, store[call.key], store'[call.key])
  /\ touched' = {}
  /\ UNCHANGED edits

\* Once somebody else has written the record's key, the call may show through.
Disturbed ==
  /\ call # NoCall
  /\ call.key \in touched
  /\ \A k \in Key \ {call.key} : store'[k] = store[k]
  /\ UNCHANGED <<call, touched, verdict, edits>>

\* The lookup alone has settled it, or has failed.
ReturnAtOnce ==
  /\ call = NoCall
  /\ verdict' \in {"NOOP", "ERROR"}
  /\ UNCHANGED <<store, call, touched, edits>>

Edit ==
  /\ touched \subseteq touched'
  /\ \A k \in Key : store'[k] # store[k] => call = NoCall \/ k \in touched'
  /\ edits' = edits + 1
  /\ UNCHANGED <<call, verdict>>

Next == Call \/ Return \/ ReturnAtOnce \/ Disturbed \/ Edit

Spec == Init /\ [][Next]_promised
=============================================================================
