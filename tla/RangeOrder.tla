----------------------------- MODULE RangeOrder -----------------------------
(***************************************************************************)
(* Two nodes that learn the same ranges in different orders.  The flooding *)
(* gives no order between the announcements of two origins, nor between    *)
(* two announcements of one origin, so a node's range index should not     *)
(* depend on it (section 5.3 of the specification, on pruning both         *)
(* directions).  Each receiver applies a record atomically, as             *)
(* RangePromise says, and nobody else edits its index.                     *)
(***************************************************************************)
EXTENDS RangePromise

CONSTANTS Receiver,   \* the nodes that learn the ranges
          MaxRecords  \* bound: announcements in flight

VARIABLES index,    \* index[n]: the range index of receiver n
          pending,  \* pending[n]: what n has yet to receive
          unstored  \* history: what n learned without its ION coming to assert it

orderVars == <<index, pending, unstored>>

Announcement == {r \in [key: Key, toTime: Time, owlt: Owlt] :
                   r.key.from # r.key.to /\ r.key.fromTime < r.toTime}

\* What the origins can have asserted at the same time: each origin's own ION
\* refuses two ranges of one pair that collide.
Compatible(S) ==
  \A r, s \in S :
    r # s /\ SamePair(r.key, s.key)
      => r.toTime <= s.key.fromTime \/ s.toTime <= r.key.fromTime

OrderInit ==
  /\ index = [n \in Receiver |-> [k \in Key |-> NoRange]]
  /\ \E S \in SUBSET Announcement :
       /\ Cardinality(S) <= MaxRecords
       /\ Compatible(S)
       /\ pending = [n \in Receiver |-> S]
  /\ unstored = [n \in Receiver |-> {}]

Asserts(idx, r) == idx[r.key] = [toTime |-> r.toTime, owlt |-> r.owlt, asserted |-> TRUE]

Learn(n, r) ==
  /\ r \in pending[n]
  /\ pending' = [pending EXCEPT ![n] = @ \ {r}]
  /\ \E res \in AtomicApply(index[n], r) :
       /\ index' = [index EXCEPT ![n] = res.idx]
       /\ unstored' = [unstored EXCEPT ![n] =
            IF Asserts(res.idx, r) THEN @ ELSE @ \cup {r}]

OrderNext == \E n \in Receiver : \E r \in pending[n] : Learn(n, r)

OrderSpec == OrderInit /\ [][OrderNext]_orderVars

Drained == \A n \in Receiver : pending[n] = {}

\* The windows and light times an index gives, whatever the nature of the
\* entry that gives them.
Known(idx) == {[key |-> k, toTime |-> idx[k].toTime, owlt |-> idx[k].owlt] :
                 k \in {l \in Key : Held(idx, l)}}

\* "checking both makes the result independent of the order in which messages
\* arrive" (specification, section 5.3): receivers that learned the same
\* ranges know the same windows and light times.  It is not so.
OrderIndependent ==
  Drained => \A m, n \in Receiver : Known(index[m]) = Known(index[n])

\* As far as it is true: they know the same but for ranges that meet one the
\* ION of one of them did not come to assert, because it refused it or held it
\* already as the imputed reverse of another.
Meets(r, s) ==
  /\ SamePair(r.key, s.key) \/ SamePair(r.key, Reverse(s.key))
  /\ r.key.fromTime <= s.toTime /\ s.key.fromTime <= r.toTime

OrderIndependentWhereAsserted ==
  Drained => \A m, n \in Receiver : \A r \in Known(index[m]) \ Known(index[n]) :
               \E s \in unstored[m] \cup unstored[n] : Meets(r, s)

\* Whatever the order, the receivers hold the same canonical ranges: an
\* insertion is never given up because of what the opposite direction left in
\* the index ("Dropping that insertion is no answer", section 5.3).
CanonicalIndependent ==
  Drained => \A m, n \in Receiver : \A k \in Key :
               Canonical(k) => index[m][k] = index[n][k]
=============================================================================
