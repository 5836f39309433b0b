---------------------------- MODULE FloodProofs ----------------------------
(***************************************************************************)
(* What holds of the flooding for every network of plans, every assignment *)
(* of nonces (two announcements may share one), every policy of the        *)
(* receivers and every number of faults: the provenance of what a node     *)
(* applies, and what the bounded nonce cache guarantees against loops.     *)
(***************************************************************************)
EXTENDS Flood, FiniteSetTheorems, TLAPS

\* A forwarded message differs in its sender and its destination only, and is
\* not sent to the origin.
LEMMA ForwardsKeep ==
  ASSUME NEW n \in Node, NEW msg \in Message, NEW fwd \in Forwards(n, msg)
  PROVE  /\ fwd \in Message
         /\ fwd.nonce = msg.nonce /\ fwd.origin = msg.origin /\ fwd.record = msg.record
         /\ fwd.to # fwd.origin
  <1>1. PICK d \in Plans[n] \ {msg.origin, msg.from, n} :
          fwd = [msg EXCEPT !.from = n, !.to = d]
    BY DEF Forwards
  <1>2. d \in Node
    BY FloodAssumption
  <1>3. QED
    BY <1>1, <1>2 DEF Message

\* The cache after addNonceToCache: one more entry at the end, and the oldest
\* one gone if it was full.
LEMMA RememberShape ==
  ASSUME NEW c \in Seq(CacheKey), NEW k \in CacheKey, Len(c) <= MaxCache
  PROVE  /\ Remember(c, k) \in Seq(CacheKey)
         /\ Len(Remember(c, k)) = IF Len(c) < MaxCache THEN Len(c) + 1 ELSE MaxCache
         /\ Len(Remember(c, k)) \in 1..MaxCache
         /\ Remember(c, k)[Len(Remember(c, k))] = k
         /\ \A i \in 1..(Len(Remember(c, k)) - 1) :
              Remember(c, k)[i] = IF Len(c) < MaxCache THEN c[i] ELSE c[i + 1]
  <1> USE FloodAssumption
  <1>1. CASE Len(c) < MaxCache
    BY <1>1 DEF Remember
  <1>2. CASE ~(Len(c) < MaxCache)
    <2>1. c # <<>> /\ Len(c) = MaxCache
      BY <1>2
    <2>2. /\ Tail(c) \in Seq(CacheKey)
          /\ Len(Tail(c)) = MaxCache - 1
          /\ \A i \in 1..(MaxCache - 1) : Tail(c)[i] = c[i + 1]
      BY <2>1
    <2>3. QED
      BY <2>2, <1>2 DEF Remember
  <1>3. QED
    BY <1>1, <1>2

\* The key of a message is what the cache holds.
LEMMA KeyIsCacheKey == \A msg \in Message : KeyOf(msg) \in CacheKey
  BY DEF Message, KeyOf, CacheKey

\* What a step does to the cache and the history of a node: nothing, one
\* acceptance of a message that is not cached, or a restart.
LEMMA CacheSteps ==
  ASSUME TypeOK, [Next]_vars, NEW n \in Node
  PROVE  \/ cache'[n] = cache[n] /\ accepted'[n] = accepted[n]
         \/ \E msg \in net : /\ ~Cached(n, KeyOf(msg))
                             /\ cache'[n] = Remember(cache[n], KeyOf(msg))
                             /\ accepted'[n] = Append(accepted[n], KeyOf(msg))
         \/ cache'[n] = <<>> /\ accepted'[n] = <<>>
  <1> USE DEF TypeOK
  <1>1. CASE UNCHANGED <<cache, accepted>>
    BY <1>1
  <1>2. ASSUME NEW m \in Node, NEW msg \in net, Accept(m, msg)
        PROVE  \/ cache'[n] = cache[n] /\ accepted'[n] = accepted[n]
               \/ /\ ~Cached(n, KeyOf(msg))
                  /\ cache'[n] = Remember(cache[n], KeyOf(msg))
                  /\ accepted'[n] = Append(accepted[n], KeyOf(msg))
    BY <1>2 DEF Accept
  <1>3. ASSUME NEW m \in Node, NEW msg \in net, Dies(m, msg)
        PROVE  \/ cache'[n] = cache[n] /\ accepted'[n] = accepted[n]
               \/ cache'[n] = <<>> /\ accepted'[n] = <<>>
    BY <1>3 DEF Dies
  <1>4. \A msg \in net : msg.to \in Node
    BY DEF Message
  <1>5. QED
    BY <1>1, <1>2, <1>3, <1>4
       DEF Next, vars, Announces, Announce, ReceivesOf, Receives, DropExpired, DropDuplicate,
           Discard, ApplyAndForward, Expires, Faulty, Lose, Duplicate

\* What a step puts on the network: a message due, or a relay's copy.
LEMMA NetSteps ==
  ASSUME TypeOK, [Next]_vars, NEW new \in net', new \notin net
  PROVE  \/ \E a \in due : new = [nonce |-> NonceOf[a], origin |-> a.origin,
                                  record |-> a.record, from |-> a.origin, to |-> a.first]
         \/ \E msg \in net, n \in Node : new \in Forwards(n, msg)
  <1>1. \A msg \in net : msg.to \in Node
    BY DEF TypeOK, Message
  <1>2. ASSUME NEW n \in Node, NEW msg \in net, Receives(n, msg) \/ Lose(msg)
                                                \/ Duplicate(n, msg) \/ Dies(n, msg)
        PROVE  new \in Forwards(n, msg)
    BY <1>2 DEF Receives, DropExpired, DropDuplicate, Discard, ApplyAndForward,
                Lose, Duplicate, Dies
  <1>3. QED
    BY <1>1, <1>2 DEF Next, vars, Announces, Announce, ReceivesOf, Expires, Faulty

\* What a step makes a node apply: the record of a bundle it finds valid.
LEMMA ApplySteps ==
  ASSUME TypeOK, [Next]_vars, NEW n \in Node, NEW r \in applied'[n], r \notin applied[n]
  PROVE  \E msg \in net : Valid(n, msg) /\ r = msg.record
  <1> USE DEF TypeOK
  <1>1. \A msg \in net : msg.to \in Node
    BY DEF Message
  <1>2. ASSUME NEW m \in Node, NEW msg \in net, Apply(m, msg)
        PROVE  Valid(n, msg) /\ r = msg.record
    BY <1>2 DEF Apply
  <1>3. QED
    BY <1>1, <1>2
       DEF Next, vars, Announces, Announce, ReceivesOf, Receives, DropExpired, DropDuplicate,
           Discard, ApplyAndForward, Expires, Faulty, Lose, Duplicate, Dies

-----------------------------------------------------------------------------
\* Every reachable state is well-typed; in particular the cache never outgrows
\* the array the code declares.
THEOREM TypeCorrect == Spec => []TypeOK
  <1>1. Init => TypeOK
    BY FloodAssumption DEF Init, TypeOK, Announced
  <1>2. TypeOK /\ [Next]_vars => TypeOK'
    <2> SUFFICES ASSUME TypeOK, [Next]_vars PROVE TypeOK'
      OBVIOUS
    <2>0. \A msg \in net : msg \in Message /\ msg.to \in Node
      BY DEF TypeOK, Message
    <2>1. net' \subseteq Message
      <3> SUFFICES ASSUME NEW new \in net', new \notin net PROVE new \in Message
        BY DEF TypeOK
      <3>1. CASE \E a \in due : new = [nonce |-> NonceOf[a], origin |-> a.origin,
                                       record |-> a.record, from |-> a.origin, to |-> a.first]
        <4>1. PICK a \in due : new = [nonce |-> NonceOf[a], origin |-> a.origin,
                                      record |-> a.record, from |-> a.origin, to |-> a.first]
          BY <3>1
        <4>2. a \in Announcement /\ NonceOf[a] \in Nonce
          BY FloodAssumption DEF TypeOK
        <4>3. QED
          BY <4>1, <4>2 DEF Announcement, Message
      <3>2. CASE \E msg \in net, n \in Node : new \in Forwards(n, msg)
        BY <3>2, <2>0, ForwardsKeep
      <3>3. QED
        BY <3>1, <3>2, NetSteps
    <2>2. ASSUME NEW n \in Node, NEW msg \in net
          PROVE  /\ Remember(cache[n], KeyOf(msg)) \in Seq(CacheKey)
                 /\ Len(Remember(cache[n], KeyOf(msg))) <= MaxCache
                 /\ Append(accepted[n], KeyOf(msg)) \in Seq(CacheKey)
      <3>1. KeyOf(msg) \in CacheKey
        BY <2>0, KeyIsCacheKey
      <3>2. QED
        BY <3>1, RememberShape, FloodAssumption DEF TypeOK
    <2> DEFINE CacheTyped == /\ cache' \in [Node -> Seq(CacheKey)]
                             /\ accepted' \in [Node -> Seq(CacheKey)]
                             /\ \A n \in Node : Len(cache'[n]) <= MaxCache
    <2>3. CacheTyped
      <3>1. CASE UNCHANGED <<cache, accepted>>
        BY <3>1 DEF TypeOK
      <3>2. ASSUME NEW n \in Node, NEW msg \in net, Accept(n, msg) PROVE CacheTyped
        BY <3>2, <2>2 DEF TypeOK, Accept
      <3>3. ASSUME NEW n \in Node, NEW msg \in net, Dies(n, msg) PROVE CacheTyped
        BY <3>3, FloodAssumption DEF TypeOK, Dies
      <3>4. QED
        BY <3>1, <3>2, <3>3, <2>0
           DEF Next, vars, Announces, Announce, ReceivesOf, Receives, DropExpired,
               DropDuplicate, Discard, ApplyAndForward, Expires, Faulty, Lose, Duplicate
    <2>4. applied' \in [Node -> SUBSET Record]
      BY <2>0 DEF TypeOK, Next, vars, Announces, Announce, ReceivesOf, Receives, DropExpired,
            DropDuplicate, Discard, ApplyAndForward, Apply, Expires, Faulty, Lose, Duplicate,
            Dies, Message
    <2>5. due' \subseteq Announcement /\ expired' \subseteq Record
      BY DEF TypeOK, Next, vars, Announces, Announce, ReceivesOf, Receives, DropExpired,
            DropDuplicate, Discard, ApplyAndForward, Accept, Expires, Faulty, Lose, Duplicate, Dies
    <2>6. faults' \in 0..MaxFaults
      BY FloodAssumption
         DEF TypeOK, Next, vars, Announces, Announce, ReceivesOf, Receives, DropExpired,
            DropDuplicate, Discard, ApplyAndForward, Expires, Faulty, Lose, Duplicate,
            Dies, Fault
    <2>7. QED
      BY <2>1, <2>3, <2>4, <2>5, <2>6 DEF TypeOK
  <1>3. QED
    BY <1>1, <1>2, PTL DEF Spec

-----------------------------------------------------------------------------
\* A node sends what it has announced only, and each announcement once.
LEMMA DueIsAnnounced == Spec => [](due \subseteq Announced)
  <1>1. Init => due \subseteq Announced
    BY DEF Init
  <1>2. due \subseteq Announced /\ [Next]_vars => (due \subseteq Announced)'
    BY DEF Next, vars, Announces, Announce, ReceivesOf, Receives, DropExpired, DropDuplicate,
           Discard, ApplyAndForward, Accept, Expires, Faulty, Lose, Duplicate, Dies
  <1>3. QED
    BY <1>1, <1>2, PTL DEF Spec

\* Every bundle on the way carries what its origin announced, under the nonce
\* it announced it with, to somebody else than the origin.
THEOREM ProvenanceOfBundles == Spec => []BundlesAreAnnounced
  <1>1. Init => BundlesAreAnnounced
    BY DEF Init, BundlesAreAnnounced
  <1>2. TypeOK /\ due \subseteq Announced /\ BundlesAreAnnounced /\ [Next]_vars
          => BundlesAreAnnounced'
    <2> SUFFICES ASSUME TypeOK, due \subseteq Announced, BundlesAreAnnounced, [Next]_vars,
                        NEW new \in net'
                 PROVE  /\ new.to # new.origin
                        /\ new.record \in Own[new.origin]
                        /\ KeyOf(new) \in AnnouncedKeys
      BY DEF BundlesAreAnnounced, KeyOf
    <2>1. CASE new \in net
      BY <2>1 DEF BundlesAreAnnounced
    <2>2. ASSUME NEW a \in due,
                 new = [nonce |-> NonceOf[a], origin |-> a.origin,
                        record |-> a.record, from |-> a.origin, to |-> a.first]
          PROVE  /\ new.to # new.origin
                 /\ new.record \in Own[new.origin]
                 /\ KeyOf(new) \in AnnouncedKeys
      <3>1. /\ a \in Announced
            /\ a.record \in Own[a.origin] /\ a.first # a.origin
        BY DEF Announced
      <3>2. KeyOf(new) = <<NonceOf[a], a.origin>>
        BY <2>2 DEF KeyOf
      <3>3. QED
        BY <2>2, <3>1, <3>2 DEF AnnouncedKeys
    <2>3. ASSUME NEW msg \in net, NEW n \in Node, new \in Forwards(n, msg)
          PROVE  /\ new.to # new.origin
                 /\ new.record \in Own[new.origin]
                 /\ KeyOf(new) \in AnnouncedKeys
      <3>1. msg \in Message
        BY DEF TypeOK
      <3>2. /\ new.nonce = msg.nonce /\ new.origin = msg.origin /\ new.record = msg.record
            /\ new.to # new.origin
        BY <2>3, <3>1, ForwardsKeep
      <3>3. msg.record \in Own[msg.origin] /\ KeyOf(msg) \in AnnouncedKeys
        BY DEF BundlesAreAnnounced
      <3>4. QED
        BY <3>2, <3>3 DEF KeyOf
    <2>4. QED
      BY <2>1, <2>2, <2>3, NetSteps
  <1>3. QED
    BY <1>1, <1>2, TypeCorrect, DueIsAnnounced, PTL DEF Spec

\* No relay sends an announcement back to its source, on any network of plans.
THEOREM OriginIsNeverToldBack == Spec => []NeverToOrigin
  <1>1. BundlesAreAnnounced => NeverToOrigin
    BY DEF BundlesAreAnnounced, NeverToOrigin
  <1>2. QED
    BY <1>1, ProvenanceOfBundles, PTL

\* A node applies nothing but what another node is the source of and its own
\* validation accepts, relays, duplicates and restarts included.
THEOREM ProvenanceOfRecords == Spec => []AppliedIsAnnounced
  <1>1. Init => AppliedIsAnnounced
    BY DEF Init, AppliedIsAnnounced
  <1>2. TypeOK /\ BundlesAreAnnounced /\ AppliedIsAnnounced /\ [Next]_vars
          => AppliedIsAnnounced'
    <2> SUFFICES ASSUME TypeOK, BundlesAreAnnounced, AppliedIsAnnounced, [Next]_vars,
                        NEW n \in Node, NEW r \in applied'[n]
                 PROVE  <<n, r>> \notin Discards /\ \E o \in Node \ {n} : r \in Own[o]
      BY DEF AppliedIsAnnounced
    <2>1. CASE r \in applied[n]
      BY <2>1 DEF AppliedIsAnnounced
    <2>2. CASE r \notin applied[n]
      <3>1. PICK msg \in net : Valid(n, msg) /\ r = msg.record
        BY <2>2, ApplySteps
      <3>2. msg.origin \in Node \ {n} /\ r \in Own[msg.origin]
        BY <3>1 DEF TypeOK, Message, Valid, BundlesAreAnnounced
      <3>3. QED
        BY <3>1, <3>2 DEF Valid
    <2>3. QED
      BY <2>1, <2>2
  <1>3. QED
    BY <1>1, <1>2, TypeCorrect, ProvenanceOfBundles, PTL DEF Spec

-----------------------------------------------------------------------------
\* The cache of a running process is the end of what it has accepted, and it is
\* shorter than its bound only when it holds everything.
LEMMA CacheIsEnd == Spec => []CacheIsRecentPast
  <1>1. Init => CacheIsRecentPast
    BY DEF Init, CacheIsRecentPast
  <1>2. TypeOK /\ CacheIsRecentPast /\ [Next]_vars => CacheIsRecentPast'
    <2> SUFFICES ASSUME TypeOK, CacheIsRecentPast, [Next]_vars, NEW n \in Node
                 PROVE  /\ Len(cache'[n]) <= Len(accepted'[n])
                        /\ Len(cache'[n]) < MaxCache => Len(cache'[n]) = Len(accepted'[n])
                        /\ \A i \in 1..Len(cache'[n]) :
                             cache'[n][i] = accepted'[n][Len(accepted'[n]) - Len(cache'[n]) + i]
      BY DEF CacheIsRecentPast
    <2> DEFINE c == cache[n]
               a == accepted[n]
    <2>0. /\ c \in Seq(CacheKey) /\ a \in Seq(CacheKey) /\ Len(c) <= MaxCache
          /\ Len(c) <= Len(a)
          /\ Len(c) < MaxCache => Len(c) = Len(a)
          /\ \A i \in 1..Len(c) : c[i] = a[Len(a) - Len(c) + i]
      BY DEF TypeOK, CacheIsRecentPast
    <2>1. CASE cache'[n] = c /\ accepted'[n] = a
      BY <2>0, <2>1
    <2>2. ASSUME NEW msg \in net, cache'[n] = Remember(c, KeyOf(msg)),
                 accepted'[n] = Append(a, KeyOf(msg))
          PROVE  /\ Len(cache'[n]) <= Len(accepted'[n])
                 /\ Len(cache'[n]) < MaxCache => Len(cache'[n]) = Len(accepted'[n])
                 /\ \A i \in 1..Len(cache'[n]) :
                      cache'[n][i] = accepted'[n][Len(accepted'[n]) - Len(cache'[n]) + i]
      <3> DEFINE k == KeyOf(msg)
                 d == Remember(c, k)
                 b == Append(a, k)
      <3>1. k \in CacheKey
        BY KeyIsCacheKey DEF TypeOK
      <3>2. /\ Len(b) = Len(a) + 1 /\ b[Len(b)] = k
            /\ \A i \in 1..Len(a) : b[i] = a[i]
        BY <2>0, <3>1
      <3>3. /\ Len(d) = IF Len(c) < MaxCache THEN Len(c) + 1 ELSE MaxCache
            /\ Len(d) \in 1..MaxCache
            /\ d[Len(d)] = k
            /\ \A i \in 1..(Len(d) - 1) : d[i] = IF Len(c) < MaxCache THEN c[i] ELSE c[i + 1]
        BY <2>0, <3>1, RememberShape
      <3> HIDE DEF k, d, b, c, a
      <3>4. Len(d) <= Len(b) /\ (Len(d) < MaxCache => Len(d) = Len(b))
        BY <2>0, <3>2, <3>3, FloodAssumption
      <3>5. ASSUME NEW i \in 1..Len(d) PROVE d[i] = b[Len(b) - Len(d) + i]
        <4>1. CASE i = Len(d)
          BY <4>1, <2>0, <3>2, <3>3, FloodAssumption
        <4>2. CASE i < Len(d) /\ Len(c) < MaxCache
          <5>1. d[i] = c[i] /\ Len(c) = Len(a) /\ Len(d) = Len(b) /\ i \in 1..Len(c)
            <6>1. i \in 1..(Len(d) - 1) /\ Len(d) = Len(c) + 1
              BY <4>2, <3>3
            <6>2. d[i] = c[i]
              BY <4>2, <6>1, <3>3
            <6>3. Len(c) = Len(a) /\ Len(b) = Len(a) + 1
              BY <4>2, <2>0, <3>2
            <6>4. i \in 1..Len(c) /\ Len(d) = Len(b)
              BY <6>1, <6>3, <2>0
            <6>5. QED
              BY <6>2, <6>3, <6>4
          <5>2. c[i] = a[i] /\ b[i] = a[i]
            BY <5>1, <2>0, <3>2
          <5>3. QED
            BY <5>1, <5>2, <2>0, <3>2
        <4>3. CASE i < Len(d) /\ ~(Len(c) < MaxCache)
          <5>1. d[i] = c[i + 1] /\ Len(d) = Len(c) /\ i + 1 \in 1..Len(c)
            BY <4>3, <2>0, <3>3, FloodAssumption
          <5>2. c[i + 1] = a[Len(a) - Len(c) + (i + 1)]
            BY <5>1, <2>0
          <5>3. Len(b) - Len(d) + i = Len(a) - Len(c) + (i + 1)
            BY <5>1, <2>0, <3>2
          <5>4. Len(a) - Len(c) + (i + 1) \in 1..Len(a)
            BY <5>1, <2>0
          <5>5. QED
            BY <5>1, <5>2, <5>3, <5>4, <3>2
        <4>4. QED
          BY <4>1, <4>2, <4>3, <3>3
      <3>6. QED
        BY <2>2, <3>4, <3>5 DEF k, d, b, c, a
    <2>3. CASE cache'[n] = <<>> /\ accepted'[n] = <<>>
      BY <2>3
    <2>4. QED
      BY <2>1, <2>2, <2>3, CacheSteps
  <1>3. QED
    BY <1>1, <1>2, TypeCorrect, PTL DEF Spec

\* The nonce cache keeps its promise for any bound: a process accepts a message
\* again only after at least MaxCache others, whatever arrives in whatever order.
THEOREM CacheForgetsLate == Spec => []AcceptedAgainOnlyAfterEviction
  <1>1. Init => AcceptedAgainOnlyAfterEviction
    BY DEF Init, AcceptedAgainOnlyAfterEviction
  <1>2. TypeOK /\ CacheIsRecentPast /\ AcceptedAgainOnlyAfterEviction /\ [Next]_vars
          => AcceptedAgainOnlyAfterEviction'
    <2> SUFFICES ASSUME TypeOK, CacheIsRecentPast, AcceptedAgainOnlyAfterEviction,
                        [Next]_vars, NEW n \in Node,
                        NEW i \in DOMAIN accepted'[n], NEW j \in DOMAIN accepted'[n],
                        i < j, accepted'[n][i] = accepted'[n][j]
                 PROVE  j - i > MaxCache
      BY DEF AcceptedAgainOnlyAfterEviction
    <2> DEFINE c == cache[n]
               a == accepted[n]
    <2>0. /\ c \in Seq(CacheKey) /\ a \in Seq(CacheKey) /\ Len(c) <= MaxCache
          /\ Len(c) <= Len(a)
          /\ Len(c) < MaxCache => Len(c) = Len(a)
          /\ \A x \in 1..Len(c) : c[x] = a[Len(a) - Len(c) + x]
      BY DEF TypeOK, CacheIsRecentPast
    <2>1. CASE accepted'[n] = a
      BY <2>1 DEF AcceptedAgainOnlyAfterEviction
    <2>2. ASSUME NEW msg \in net, ~Cached(n, KeyOf(msg)), accepted'[n] = Append(a, KeyOf(msg))
          PROVE  j - i > MaxCache
      <3> DEFINE k == KeyOf(msg)
                 b == Append(a, k)
      <3>1. k \in CacheKey
        BY KeyIsCacheKey DEF TypeOK
      <3>2. /\ Len(b) = Len(a) + 1 /\ b[Len(b)] = k /\ DOMAIN b = 1..(Len(a) + 1)
            /\ \A x \in 1..Len(a) : b[x] = a[x]
        BY <2>0, <3>1
      <3>3. \A x \in 1..Len(c) : c[x] # k
        BY <2>0, <2>2 DEF Cached
      <3>4. \A x, y \in 1..Len(a) : x < y /\ a[x] = a[y] => y - x > MaxCache
        BY <2>0 DEF AcceptedAgainOnlyAfterEviction
      <3>5. /\ i \in 1..(Len(a) + 1) /\ j \in 1..(Len(a) + 1) /\ i < j
            /\ b[i] = b[j]
        BY <2>2, <3>2
      <3> HIDE DEF k, b, c, a
      <3>6. CASE j <= Len(a)
        BY <3>6, <3>5, <3>4, <3>2, <2>0
      <3>7. CASE j = Len(a) + 1
        <4>1. i \in 1..Len(a) /\ a[i] = k
          BY <3>7, <3>5, <3>2, <2>0
        <4>2. ASSUME i > Len(a) - Len(c) PROVE FALSE
          <5>1. i - (Len(a) - Len(c)) \in 1..Len(c)
            BY <4>1, <4>2, <2>0
          <5>2. c[i - (Len(a) - Len(c))] = a[i]
            BY <5>1, <4>1, <2>0
          <5>3. QED
            BY <5>1, <5>2, <4>1, <3>3
        <4>3. QED
          BY <3>7, <4>1, <4>2, <2>0, FloodAssumption
      <3>8. QED
        BY <3>5, <3>6, <3>7, <2>0
    <2>3. CASE accepted'[n] = <<>>
      BY <2>3
    <2>4. QED
      BY <2>1, <2>2, <2>3, CacheSteps
  <1>3. QED
    BY <1>1, <1>2, TypeCorrect, CacheIsEnd, PTL DEF Spec

\* What a process accepts was announced by its origin.
LEMMA AcceptedProvenance == Spec => []AcceptedAreAnnounced
  <1>1. Init => AcceptedAreAnnounced
    BY DEF Init, AcceptedAreAnnounced
  <1>2. TypeOK /\ BundlesAreAnnounced /\ AcceptedAreAnnounced /\ [Next]_vars
          => AcceptedAreAnnounced'
    <2> SUFFICES ASSUME TypeOK, BundlesAreAnnounced, AcceptedAreAnnounced, [Next]_vars,
                        NEW n \in Node, NEW i \in DOMAIN accepted'[n]
                 PROVE  accepted'[n][i] \in AnnouncedKeys
      BY DEF AcceptedAreAnnounced
    <2>1. CASE accepted'[n] = accepted[n]
      BY <2>1 DEF AcceptedAreAnnounced
    <2>2. ASSUME NEW msg \in net, accepted'[n] = Append(accepted[n], KeyOf(msg))
          PROVE  accepted'[n][i] \in AnnouncedKeys
      <3>1. KeyOf(msg) \in AnnouncedKeys
        BY DEF BundlesAreAnnounced
      <3>2. accepted[n] \in Seq(CacheKey)
        BY DEF TypeOK
      <3>3. \A x \in 1..Len(accepted[n]) : accepted[n][x] \in AnnouncedKeys
        BY <3>2 DEF AcceptedAreAnnounced
      <3>4. QED
        BY <2>2, <3>1, <3>2, <3>3
    <2>3. CASE accepted'[n] = <<>>
      BY <2>3
    <2>4. QED
      BY <2>1, <2>2, <2>3, CacheSteps
  <1>3. QED
    BY <1>1, <1>2, TypeCorrect, ProvenanceOfBundles, PTL DEF Spec

\* Duplicate detection prevents loops as long as the network has no more
\* announcements in the air than the cache has entries: with at most MaxCache
\* keys, no process accepts a message twice.
THEOREM NoLoopWithinCache ==
  ASSUME IsFiniteSet(AnnouncedKeys), Cardinality(AnnouncedKeys) <= MaxCache
  PROVE  Spec => []AcceptedOnce
  <1>1. TypeOK /\ AcceptedAreAnnounced /\ AcceptedAgainOnlyAfterEviction => AcceptedOnce
    <2> SUFFICES ASSUME TypeOK, AcceptedAreAnnounced, AcceptedAgainOnlyAfterEviction
                 PROVE  AcceptedOnce
      OBVIOUS
    <2> SUFFICES ASSUME NEW n \in Node, NEW i \in DOMAIN accepted[n],
                        NEW j \in DOMAIN accepted[n], i < j, accepted[n][i] = accepted[n][j]
                 PROVE  FALSE
      <3>1. \A n \in Node : DOMAIN accepted[n] \subseteq Nat
        BY DEF TypeOK
      <3>2. QED
        BY <3>1 DEF AcceptedOnce
    <2> DEFINE a == accepted[n]
               window == i..(i + MaxCache)
               f == [x \in window |-> a[x]]
    <2>0. /\ a \in Seq(CacheKey) /\ DOMAIN a = 1..Len(a)
          /\ i \in 1..Len(a) /\ j \in 1..Len(a) /\ MaxCache \in Nat
      BY FloodAssumption DEF TypeOK
    <2>1. \A x, y \in DOMAIN a : x < y /\ a[x] = a[y] => y - x > MaxCache
      BY DEF AcceptedAgainOnlyAfterEviction
    <2>2. \A x \in DOMAIN a : a[x] \in AnnouncedKeys
      BY DEF AcceptedAreAnnounced
    <2>3. j - i > MaxCache
      BY <2>1
    <2> HIDE DEF a
    <2>4. window \subseteq DOMAIN a
      BY <2>0, <2>3
    <2>5. f \in [window -> AnnouncedKeys]
      BY <2>2, <2>4
    <2>6. IsFiniteSet(window) /\ Cardinality(window) = MaxCache + 1
      <3>1. i \in Int /\ i + MaxCache \in Int /\ ~(i > i + MaxCache)
            /\ (i + MaxCache) - i + 1 = MaxCache + 1
        BY <2>0
      <3>2. QED
        BY <3>1, FS_Interval
    <2>7. Cardinality(AnnouncedKeys) \in Nat
      BY FS_CardinalityType
    <2>8. Cardinality(AnnouncedKeys) < Cardinality(window)
      BY <2>0, <2>6, <2>7
    <2>9. \E x, y \in window : x # y /\ f[x] = f[y]
      <3> HIDE DEF window, f
      <3>1. \A S, T, g : /\ IsFiniteSet(S) /\ IsFiniteSet(T)
                         /\ Cardinality(T) < Cardinality(S) /\ g \in [S -> T]
                         => \E x, y \in S : x # y /\ g[x] = g[y]
        BY FS_PigeonHole
      <3>2. QED
        BY <2>5, <2>6, <2>8, <3>1
    <2>10. PICK x, y \in window : x # y /\ f[x] = f[y]
      BY <2>9
    <2>11. a[x] = a[y] /\ x \in DOMAIN a /\ y \in DOMAIN a
      BY <2>4, <2>10
    <2>12. x - y <= MaxCache /\ y - x <= MaxCache /\ (x < y \/ y < x)
      BY <2>0, <2>10
    <2>13. QED
      BY <2>0, <2>1, <2>11, <2>12
  <1>2. QED
    BY <1>1, TypeCorrect, AcceptedProvenance, CacheForgetsLate, PTL
=============================================================================
