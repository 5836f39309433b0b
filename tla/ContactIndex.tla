---------------------------- MODULE ContactIndex ----------------------------
(***************************************************************************)
(* ION's contact index as dtnex sees it: the entries of                    *)
(* ionvdb->contactIndex, and the calls dtnex makes on it, each one a       *)
(* transaction of its own.                                                 *)
(*                                                                         *)
(* ION is a library; what is modelled is what rfx.h, ion.h and the tables  *)
(* of return codes in ion_contacts.c say.  A positive return code is       *)
(* "refused" here: the code only logs which one it is.  Registration       *)
(* contacts (one node) and hypothetical ones (start time 0) are left out:  *)
(* no announcement that passes validation names their keys.                *)
(***************************************************************************)
EXTENDS Integers, FiniteSets

CONSTANTS Node,        \* the node numbers of the contacts in this instance
          Region,
          Home,        \* the regions the local node belongs to
          Time,        \* instants, as epoch seconds
          Rate,        \* transmission rates
          Confidence,  \* confidences, in thousandths
          Hundredth,   \* confidences, as they travel
          NoContact    \* "no entry under this key"

Key == {k \in [region: Region, from: Node, to: Node, fromTime: Time] : k.from # k.to}

ContactType == {"Scheduled", "Predicted", "Discovered", "Suppressed"}

Entry == [toTime: Time, rate: Rate, confidence: Confidence, type: ContactType]

Slot == Entry \cup {NoContact}

Index == [Key -> Slot]

ASSUME ContactAssumption ==
  /\ Node \subseteq Nat
  /\ Home \subseteq Region
  /\ Time \subseteq Nat
  /\ Confidence \subseteq Nat
  /\ Hundredth \subseteq Nat
  /\ \A w \in Hundredth : 10 * w \in Confidence   \* a received one is stored as it is
  /\ NoContact \notin Entry

\* An announcement, as the receiver decodes it.
ContactRecord == [key: Key, toTime: Time, rate: Rate, hundredths: Hundredth]

-----------------------------------------------------------------------------
Held(idx, k) == idx[k] # NoContact

SameLink(k, l) == k.region = l.region /\ k.from = l.from /\ k.to = l.to

Collides(idx, l, fromTime, toTime) ==
  l.fromTime < toTime /\ fromTime < idx[l].toTime

\* The entries of the same link whose window meets the one to be inserted.
InTheWay(idx, k, toTime) ==
  {l \in Key \ {k} : /\ SameLink(k, l)
                     /\ Held(idx, l)
                     /\ Collides(idx, l, k.fromTime, toTime)}

\* "Scheduled contacts must never overlap in time"; suppressed ones are
\* scheduled.
MustRefuse(idx, k, toTime) ==
  \/ k.region \notin Home
  \/ Held(idx, k)
  \/ \E l \in InTheWay(idx, k, toTime) : idx[l].type \in {"Scheduled", "Suppressed"}

\* Whether ION's scan counts discovered and predicted contacts is not said.
MayRefuse(idx, k, toTime) ==
  MustRefuse(idx, k, toTime) \/ InTheWay(idx, k, toTime) # {}

Answer(rc, idx) == [rc |-> rc, idx |-> idx]

Scheduled(toTime, rate, confidence) ==
  [toTime |-> toTime, rate |-> rate, confidence |-> confidence, type |-> "Scheduled"]

\* The results rfx_insert_contact may have.  Negative codes are left to the
\* modules that call it.
InsertContact(idx, k, toTime, rate, confidence) ==
  {a \in {Answer("ok", [idx EXCEPT ![k] = Scheduled(toTime, rate, confidence)]),
          Answer("refused", idx)} :
     \/ a.rc = "ok" /\ ~MustRefuse(idx, k, toTime)
     \/ a.rc = "refused" /\ MayRefuse(idx, k, toTime)}

\* rfx_remove_contact with an exact start time.
RemoveContact(idx, k) == [idx EXCEPT ![k] = NoContact]

\* rfx_revise_contact: 1, no such contact; 2, it is not Scheduled.
ReviseContact(idx, k, rate, confidence) ==
  IF Held(idx, k) /\ idx[k].type = "Scheduled"
  THEN Answer("ok", [idx EXCEPT ![k].rate = rate, ![k].confidence = confidence])
  ELSE Answer("refused", idx)
=============================================================================
