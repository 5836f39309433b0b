------------------------------- MODULE Flood -------------------------------
(***************************************************************************)
(* The flooding of announcements over a network of dtnex nodes: what       *)
(* exchangeWithNeighbors sends, and what the reception thread of a node    *)
(* does with a bundle (decodeCborMessage, processCbor*Message and          *)
(* forwardCbor*Message of dtnex.c).  Contacts, ranges and metadata take    *)
(* the same path; a record here is any of them.                            *)
(*                                                                         *)
(* A node sends each of its own records to each neighbour under a nonce of *)
(* its own; announcing it again later is a record of its own here.  A node *)
(* that receives a message drops it if it has expired or if its nonce is   *)
(* cached; it caches the nonce otherwise, then either discards the message *)
(* or applies it to its ION and passes it on to every neighbour but the    *)
(* origin and the sender, whatever its ION has answered.                   *)
(*                                                                         *)
(* Bundles are lost, duplicated and reordered; a process dies at any point *)
(* of the reception and is restarted with an empty cache.                  *)
(***************************************************************************)
EXTENDS Integers, Sequences, FiniteSets

CONSTANTS Node,
          Record,    \* what is announced: contacts, ranges, metadata
          Plans,     \* Plans[n]: the neighbours ION gives node n
          Own,       \* Own[n]: the records n is the source of
          Discards,  \* pairs <<n, r>>: n's validation discards r
          Nonce,
          NonceOf,   \* the nonce drawn for an announcement
          MaxCache,  \* MAX_HASH_CACHE
          MaxFaults, \* bound: losses, duplications and deaths
          MaxAccepts \* bound: messages a process accepts before a restart

\* One call of an encoder: a record for a neighbour.
Announcement == [origin: Node, first: Node, record: Record]

ASSUME FloodAssumption ==
  /\ Plans \in [Node -> SUBSET Node]
  /\ Own \in [Node -> SUBSET Record]
  /\ Discards \subseteq Node \X Record
  /\ NonceOf \in [Announcement -> Nonce]
  /\ MaxCache \in Nat \ {0}
  /\ MaxFaults \in Nat
  /\ MaxAccepts \in Nat

VARIABLES
  due,      \* announcements not yet sent
  net,      \* bundles ION is carrying
  cache,    \* cache[n]: nonceCache, oldest entry first
  applied,  \* applied[n]: records n has handed to its ION
  expired,  \* records whose expireTime is past
  faults,   \* number of faults so far
  accepted  \* history: the keys n's process has accepted, in order

vars == <<due, net, cache, applied, expired, faults, accepted>>

Message == [nonce: Nonce, origin: Node, record: Record, from: Node, to: Node]

\* What the cache compares: the nonce and the origin.
CacheKey == Nonce \X Node
KeyOf(msg) == <<msg.nonce, msg.origin>>

\* Mutant of Cached: the last entry written is not looked at.
Cached_SkipsLast(n, k) == \E i \in 1..(Len(cache[n]) - 1) : cache[n][i] = k

\* isNonceDuplicate
Cached(n, k) == \E i \in DOMAIN cache[n] : cache[n][i] = k

\* The announcements the nodes make, and the keys they are cached under.
Announced == {a \in Announcement : /\ a.record \in Own[a.origin]
                                   /\ a.first \in Plans[a.origin] \ {a.origin}}
AnnouncedKeys == {<<NonceOf[a], a.origin>> : a \in Announced}

TypeOK ==
  /\ due \subseteq Announcement
  /\ net \subseteq Message
  /\ cache \in [Node -> Seq(CacheKey)]
  /\ \A n \in Node : Len(cache[n]) <= MaxCache
  /\ applied \in [Node -> SUBSET Record]
  /\ expired \subseteq Record
  /\ accepted \in [Node -> Seq(CacheKey)]
  /\ faults \in 0..MaxFaults

Init ==
  /\ due = Announced
  /\ net = {}
  /\ cache = [n \in Node |-> <<>>]
  /\ applied = [n \in Node |-> {}]
  /\ expired = {}
  /\ accepted = [n \in Node |-> <<>>]
  /\ faults = 0

-----------------------------------------------------------------------------
\* exchangeWithNeighbors: one turn of one of its send loops.
Announce(a) ==
  /\ a \in due
  /\ due' = due \ {a}
  /\ net' = net \cup {[nonce |-> NonceOf[a], origin |-> a.origin, record |-> a.record,
                       from |-> a.origin, to |-> a.first]}
  /\ UNCHANGED <<cache, applied, expired, faults, accepted>>

\* Mutants of Remember: a full cache is left as it is; the bound is off by one.
Remember_Full(c, k) == IF Len(c) < MaxCache THEN Append(c, k) ELSE c
Remember_Early(c, k) == IF Len(c) < MaxCache - 1 THEN Append(c, k) ELSE Append(Tail(c), k)
Remember_Late(c, k) == IF Len(c) <= MaxCache THEN Append(c, k) ELSE Append(Tail(c), k)

\* addNonceToCache: first in, first out.
Remember(c, k) == IF Len(c) < MaxCache THEN Append(c, k) ELSE Append(Tail(c), k)

\* Mutant of Valid: only a node's own messages are discarded.
Valid_OwnOnly(n, msg) == msg.origin # n

\* The policy checks 4 to 8 of the three process functions.
Valid(n, msg) == msg.origin # n /\ <<n, msg.record>> \notin Discards

\* Mutant of Forwards: the loop ends at the first neighbour that is left out.
Forwards_Break(n, msg) ==
  {[msg EXCEPT !.from = n, !.to = d] :
     d \in {x \in Plans[n] : \A y \in Plans[n] \cap {msg.origin, msg.from, n} : x < y}}

\* What forwardCbor*Message sends: only the sender's field is rewritten.
Forwards(n, msg) ==
  {[msg EXCEPT !.from = n, !.to = d] : d \in Plans[n] \ {msg.origin, msg.from, n}}

\* isNonceDuplicate: the bundle is dropped.
DropDuplicate(n, msg) ==
  /\ msg \in net
  /\ msg.to = n
  /\ msg.record \notin expired
  /\ Cached(n, KeyOf(msg))
  /\ net' = net \ {msg}
  /\ UNCHANGED <<due, cache, applied, expired, faults, accepted>>

\* The test on expireTime comes first, and caches nothing.
DropExpired(n, msg) ==
  /\ msg \in net
  /\ msg.to = n
  /\ msg.record \in expired
  /\ net' = net \ {msg}
  /\ UNCHANGED <<due, cache, applied, expired, faults, accepted>>

\* addNonceToCache, before any policy check.
Accept(n, msg) ==
  /\ msg \in net
  /\ msg.to = n
  /\ msg.record \notin expired
  /\ ~Cached(n, KeyOf(msg))
  /\ Len(accepted[n]) < MaxAccepts
  /\ cache' = [cache EXCEPT ![n] = Remember(@, KeyOf(msg))]
  /\ accepted' = [accepted EXCEPT ![n] = Append(@, KeyOf(msg))]
  /\ UNCHANGED <<due, expired>>

Apply(n, msg) ==
  /\ Valid(n, msg)
  /\ applied' = [applied EXCEPT ![n] = @ \cup {msg.record}]

\* A discarded message is neither applied nor forwarded; its nonce stays.
Discard(n, msg) ==
  /\ Accept(n, msg)
  /\ ~Valid(n, msg)
  /\ net' = net \ {msg}
  /\ UNCHANGED <<applied, faults>>

ApplyAndForward(n, msg) ==
  /\ Accept(n, msg)
  /\ Apply(n, msg)
  /\ net' = (net \ {msg}) \cup Forwards(n, msg)
  /\ UNCHANGED faults

-----------------------------------------------------------------------------
(* Faults.                                                                 *)

Fault == faults < MaxFaults /\ faults' = faults + 1

Lose(msg) ==
  /\ Fault
  /\ msg \in net
  /\ net' = net \ {msg}
  /\ UNCHANGED <<due, cache, applied, expired, accepted>>

\* The bundle is delivered, and a copy of it stays on the way.
Duplicate(n, msg) ==
  /\ Fault
  /\ Accept(n, msg)
  /\ Apply(n, msg)
  /\ net' = net \cup Forwards(n, msg)

\* The process dies while it handles a bundle, before it has applied the record
\* or after some of the forwards, and comes back with an empty cache; ION has
\* let the bundle go, and keeps what was applied.
Dies(n, msg) ==
  /\ Fault
  /\ msg \in net
  /\ msg.to = n
  /\ \/ net' = net \ {msg} /\ UNCHANGED applied
     \/ /\ msg.record \notin expired
        /\ ~Cached(n, KeyOf(msg))
        /\ Apply(n, msg)
        /\ \E sent \in SUBSET Forwards(n, msg) : net' = (net \ {msg}) \cup sent
  /\ cache' = [cache EXCEPT ![n] = <<>>]
  /\ accepted' = [accepted EXCEPT ![n] = <<>>]
  /\ UNCHANGED <<due, expired>>

-----------------------------------------------------------------------------
\* The end of a record's window passes, on every node's clock.
Expires(r) ==
  /\ r \notin expired
  /\ expired' = expired \cup {r}
  /\ UNCHANGED <<due, net, cache, applied, faults, accepted>>

Announces(n) == \E a \in due : a.origin = n /\ Announce(a)

Receives(n, msg) ==
  \/ DropExpired(n, msg) \/ DropDuplicate(n, msg)
  \/ Discard(n, msg) \/ ApplyAndForward(n, msg)

ReceivesOf(n, r) == \E msg \in net : msg.record = r /\ Receives(n, msg)

Faulty ==
  \E msg \in net : \/ Lose(msg)
                   \/ Duplicate(msg.to, msg)
                   \/ Dies(msg.to, msg)

Next ==
  \/ \E n \in Node : Announces(n)
  \/ \E n \in Node, r \in Record : ReceivesOf(n, r)
  \/ \E r \in Record : Expires(r)
  \/ Faulty

Spec == Init /\ [][Next]_vars

\* The send loops run to their end, and the reception thread is parked on ION's
\* delivery queue, first in, first out: nobody's bundles are postponed for ever.
Fairness ==
  \A n \in Node :
    /\ WF_vars(Announces(n))
    /\ \A r \in Record : WF_vars(ReceivesOf(n, r))

FairSpec == Spec /\ Fairness

-----------------------------------------------------------------------------
\* No node is ever sent back what it announced, whatever the way round.
NeverToOrigin == \A msg \in net : msg.to # msg.origin

\* What a node holds of another was announced by its source, and it passed the
\* node's own validation: relays invent nothing.
AppliedIsAnnounced ==
  \A n \in Node : \A r \in applied[n] :
    /\ <<n, r>> \notin Discards
    /\ \E o \in Node \ {n} : r \in Own[o]

\* Every bundle carries an announcement of its origin, to somebody else.
BundlesAreAnnounced ==
  \A msg \in net : /\ msg.to # msg.origin
                   /\ msg.record \in Own[msg.origin]
                   /\ KeyOf(msg) \in AnnouncedKeys

\* The cache is the end of the history, and it is cut only when it is full.
CacheIsRecentPast ==
  \A n \in Node :
    /\ Len(cache[n]) <= Len(accepted[n])
    /\ Len(cache[n]) < MaxCache => Len(cache[n]) = Len(accepted[n])
    /\ \A i \in 1..Len(cache[n]) :
         cache[n][i] = accepted[n][Len(accepted[n]) - Len(cache[n]) + i]

AcceptedAreAnnounced ==
  \A n \in Node : \A i \in DOMAIN accepted[n] : accepted[n][i] \in AnnouncedKeys

\* The nodes a record of o reaches when every relay accepts it: the origin
\* never relays, and a node that discards does not either.
Reach(o, r) ==
  LET Step(S) == S \cup {d \in Node \ {o} :
                           /\ <<d, r>> \notin Discards
                           /\ \E n \in S : d \in Plans[n]}
      From[i \in Nat] == IF i = 0 THEN {o} ELSE Step(From[i - 1])
  IN  From[Cardinality(Node)] \ {o}

\* Every node that an accepting path of plans joins to the source applies the
\* record or sees it expire, whichever bundles and processes the bounded number
\* of faults hits.
EveryoneLearns ==
  \A o \in Node : \A r \in Own[o] : \A n \in Reach(o, r) :
    <>(r \in applied[n] \/ r \in expired)

\* The flooding of what was announced dies out by itself, without waiting for
\* the records to expire.
Quiesces == <>[](net = {})

\* A process that accepts a message again has accepted at least MaxCache others
\* in between: the cache forgets nothing sooner, duplicates and evictions
\* included.
AcceptedAgainOnlyAfterEviction ==
  \A n \in Node : \A i, j \in DOMAIN accepted[n] :
    i < j /\ accepted[n][i] = accepted[n][j] => j - i > MaxCache

\* "Nonce-based duplicate detection prevents loops" (README, flood control): a
\* process accepts a message once.
AcceptedOnce ==
  \A n \in Node : \A i, j \in DOMAIN accepted[n] :
    accepted[n][i] = accepted[n][j] => i = j
=============================================================================
